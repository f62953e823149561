------------------------- MODULE MCClientStatements -------------------------
(* The statements of clients, one part of the translation at a time: the    *)
(* columns of a table, one at a time, its indexes in one database and, for  *)
(* one table name, in two, the rows INSERTs leave, the databases, the texts *)
(* of prepared statements, and the settings of a connection.  The parts     *)
(* share no state; focus is the one whose statements are sent.              *)
EXTENDS MCColumnDdl, MCIndexDdl, MCUpsert, Catalog, MCPlaceholders,
        SessionVariables

VARIABLE focus

Init ==
  /\ ColumnInit /\ IndexInit /\ UpsertInit /\ CatalogInit /\ TextInit /\ SettingInit
  /\ focus \in {"columns", "indexes", "index schemas", "rows", "databases", "texts",
               "settings"}
  /\ cur = CHOOSE s \in Schema : TRUE

Next ==
  /\ UNCHANGED focus
  /\ \/ /\ focus = "columns" /\ ColumnNext /\ Cardinality(Columns') <= 1
        /\ UNCHANGED <<indexVars, upsertVars, catalogVars, textVars, settingVars>>
     \/ /\ focus = "indexes"
        /\ \E t \in TableName : StatementOn(cur, t)
        /\ UNCHANGED <<columnVars, upsertVars, catalogVars, textVars, settingVars>>
     \/ /\ focus = "index schemas"
        /\ \E s \in Schema : Use(s) \/ StatementOn(s, TableA)
        /\ UNCHANGED <<columnVars, upsertVars, catalogVars, textVars, settingVars>>
     \/ /\ focus = "rows" /\ UpsertNext
        /\ UNCHANGED <<columnVars, indexVars, catalogVars, textVars, settingVars>>
     \/ /\ focus = "databases" /\ CatalogNext
        /\ UNCHANGED <<columnVars, indexVars, upsertVars, textVars, settingVars>>
     \/ /\ focus = "texts" /\ TextNext
        /\ UNCHANGED <<columnVars, indexVars, upsertVars, catalogVars, settingVars>>
     \/ /\ focus = "settings" /\ SettingNext
        /\ UNCHANGED <<columnVars, indexVars, upsertVars, catalogVars, textVars>>

\* Connections and databases are all alike.
Alike == Permutations(Client) \cup Permutations(Db)

Spec ==
  Init /\ [][Next]_<<focus, columnVars, indexVars, upsertVars, catalogVars, textVars, settingVars>>
=============================================================================
