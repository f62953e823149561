---------------------------- MODULE Placeholders ----------------------------
(***************************************************************************)
(* The text of a prepared statement: how many parameters on_prepare tells  *)
(* the client it has, and what text with numbered parameters it leaves for *)
(* PostgreSQL (src/src/mysql_server.rs, src/src/translator.rs).            *)
(*                                                                         *)
(* Three programs read quotation marks here, each by rules of its own:     *)
(* the scan for ?, the rewriting of "" and the parser; PostgreSQL reads    *)
(* what they leave.  A text is a sequence of kinds of characters; word is  *)
(* any that none of them minds.                                            *)
(***************************************************************************)
EXTENDS Naturals, FiniteSets, SequencesExt

CONSTANT Texts  \* the texts clients prepare

Char == {"word", "param", "quote", "double", "tick", "slash", "hash", "newline"}

ASSUME TextsAssumption == Texts \subseteq Seq(Char)

VARIABLES text,       \* of the statement the client prepared
          textReply,  \* to the prepare
          told,       \* parameters the client was told of
          sent        \* the text kept for PostgreSQL

textVars == <<text, textReply, told, sent>>

\* The character that ends what one begins: ' " ` and a comment.
Closer == [quote |-> "quote", double |-> "double", tick |-> "tick", hash |-> "newline"]

Code == [in |-> "code", skip |-> FALSE, out |-> <<>>]

-----------------------------------------------------------------------------
(* The scan for placeholders *)

ScanCode(s, ch) ==
  [s EXCEPT !.in = IF ch \in DOMAIN Closer THEN ch ELSE "code",
            !.out = Append(@, IF ch = "param" THEN "number" ELSE ch)]

\* Mutant of ScanQuoted: a backslash is nothing special.
ScanQuotedPlainly(s, ch) ==
  [s EXCEPT !.in = IF ch = Closer[s.in] THEN "code" ELSE @,
            !.out = Append(@, ch)]

\* A backslash skips a character in ' and in ", not in ` and not in a comment.
ScanQuoted(s, ch) ==
  [s EXCEPT !.skip = ~s.skip /\ ch = "slash" /\ s.in \in {"quote", "double"},
            !.in = IF ~s.skip /\ ch = Closer[s.in] THEN "code" ELSE @,
            !.out = Append(@, ch)]

\* The text with its placeholders numbered; they come in their order.
Scan(t) ==
  LET ScanChar(s, ch) == IF s.in = "code" THEN ScanCode(s, ch) ELSE ScanQuoted(s, ch)
  IN  FoldLeft(ScanChar, Code, t).out

Numbers(t) == Cardinality({i \in DOMAIN t : t[i] = "number"})

-----------------------------------------------------------------------------
(* "" becomes '' *)

\* Mutant of Doubled: a ' in a "" is copied.
Single(ch) == <<ch>>

Doubled(ch) == IF ch = "quote" THEN <<"quote", "quote">> ELSE <<ch>>

NormalizeCode(s, ch) ==
  [s EXCEPT !.in = IF ch \in {"quote", "tick", "double"} THEN ch ELSE "code",
            !.out = Append(@, IF ch = "double" THEN "quote" ELSE ch)]

\* Copies ' and ` as they are.
NormalizeQuoted(s, ch) ==
  [s EXCEPT !.skip = ~s.skip /\ ch = "slash",
            !.in = IF ~s.skip /\ ch = s.in THEN "code" ELSE @,
            !.out = Append(@, ch)]

\* A " in a "" ends it unless a second one follows; an escape is resolved.
NormalizeDouble(s, ch) ==
  CASE s.skip -> [s EXCEPT !.skip = FALSE,
                           !.out = @ \o (IF ch \in {"quote", "double", "slash"} THEN <<>> ELSE <<"slash">>)
                                     \o Doubled(ch)]
    [] ~s.skip /\ ch = "slash"  -> [s EXCEPT !.skip = TRUE]
    [] ~s.skip /\ ch = "double" -> [s EXCEPT !.in = "ended"]
    [] OTHER -> [s EXCEPT !.out = @ \o Doubled(ch)]

NormalizeChar(s, ch) ==
  CASE s.in = "code"            -> NormalizeCode(s, ch)
    [] s.in \in {"quote", "tick"} -> NormalizeQuoted(s, ch)
    [] s.in = "double"          -> NormalizeDouble(s, ch)
    [] s.in = "ended"           ->
         IF ch = "double" THEN [s EXCEPT !.in = "double", !.out = Append(@, ch)]
         ELSE NormalizeCode([s EXCEPT !.out = Append(@, "quote")], ch)

\* A "" that is not closed is closed.
Normalize(t) ==
  LET s == FoldLeft(NormalizeChar, Code, t)
  IN  CASE s.in = "double" /\ s.skip -> s.out \o <<"slash", "quote">>
        [] s.in \in {"double", "ended"} /\ ~s.skip -> Append(s.out, "quote")
        [] OTHER -> s.out

-----------------------------------------------------------------------------
(* How MySQL, the parser and PostgreSQL read a text *)

MySqlRules == [opens |-> {"quote", "double", "tick", "hash"}, escapes |-> {"quote", "double"}]
PgRules    == [opens |-> {"quote", "double"}, escapes |-> {}]

Unread == [in |-> "code", skip |-> FALSE, closed |-> "none", tokens |-> <<>>]

\* A token is the character that begins it and, if that is a quotation mark,
\* what it quotes; a mark that is doubled in its own quotation is quoted.
Quotes(s, ch) == [s EXCEPT !.tokens[Len(s.tokens)].content = Append(@, ch)]

ReadChar(rules, s, ch) ==
  CASE s.in = "code" /\ ch = s.closed -> [Quotes(s, ch) EXCEPT !.in = ch]
    [] s.in = "code" /\ ch # s.closed ->
         [s EXCEPT !.in = IF ch \in rules.opens THEN ch ELSE "code", !.closed = "none",
                   !.tokens = Append(@, [open |-> ch, content |-> <<>>])]
    [] s.in # "code" /\ s.skip -> [Quotes(s, ch) EXCEPT !.skip = FALSE]
    [] s.in # "code" /\ ~s.skip /\ ch = "slash" /\ s.in \in rules.escapes -> [s EXCEPT !.skip = TRUE]
    [] s.in # "code" /\ ~s.skip /\ ch = Closer[s.in] ->
         [s EXCEPT !.in = "code", !.closed = IF s.in = "hash" THEN "none" ELSE ch]
    [] OTHER -> Quotes(s, ch)

ReadText(rules, t) == FoldLeft(LAMBDA s, ch : ReadChar(rules, s, ch), Unread, t)

\* No quotation is left open and no backslash is outside of one.
Readable(r) == /\ r.in \in {"code", "hash"}
               /\ \A i \in DOMAIN r.tokens : r.tokens[i].open # "slash"

\* What a text says: its tokens but for comments and space, with the kinds that
\* quotation marks have under the rules.
Says(r, kinds) ==
  LET Say(said, k) ==
        IF k.open \in {"newline", "hash"} THEN said
        ELSE Append(said, [kind |-> IF k.open \in DOMAIN kinds THEN kinds[k.open] ELSE k.open,
                           content |-> k.content])
  IN  FoldLeft(Say, <<>>, r.tokens)

MySqlSays(t) == Says(ReadText(MySqlRules, t), [quote |-> "literal", double |-> "literal", tick |-> "name"])
PgSays(t)    == Says(ReadText(PgRules, t), [quote |-> "literal", double |-> "name", number |-> "param"])

Params(said) == Cardinality({i \in DOMAIN said : said[i].kind = "param"})

-----------------------------------------------------------------------------
(* on_prepare *)

\* A mark of a content that the parser's text doubles: of marks side by side it
\* takes each pair for one that is doubled already, and one after a backslash,
\* with those that follow it, for an escaped one.
Lone(content, mark, i) ==
  /\ content[i] = mark
  /\ i < Len(content) => content[i + 1] # mark
  /\ \E j \in 1 .. i : /\ \A k \in j .. i : content[k] = mark
                       /\ (i - j) % 2 = 0
                       /\ j > 1 => content[j - 1] \notin {mark, "slash"}

\* The parser's text of a token: comments are left out, a quotation keeps its
\* marks and doubles the lone ones in it.
Printed(k) ==
  LET Escaped(i) == IF Lone(k.content, k.open, i) THEN <<k.open, k.open>> ELSE <<k.content[i]>>
  IN  CASE k.open = "hash" -> <<"newline">>
        [] k.open \in {"quote", "double", "tick"} ->
             <<k.open>> \o FlattenSeq([i \in DOMAIN k.content |-> Escaped(i)])
                        \o <<k.open, "newline">>
        [] OTHER -> <<k.open>>

\* replace_backticks: every one of the text.
ReplaceBackticks(t) == [i \in DOMAIN t |-> IF t[i] = "tick" THEN "double" ELSE t[i]]

TranslateText(tokens) ==
  ReplaceBackticks(FlattenSeq([i \in DOMAIN tokens |-> Printed(tokens[i])]))

PrepareText(t) ==
  LET parsed == ReadText(MySqlRules, Normalize(t))
  IN  /\ textReply = "none"
      /\ text' = t
      /\ \/ /\ Readable(parsed)
            /\ textReply' = "stmt"
            /\ told' = Numbers(Scan(t))
            /\ sent' = Scan(TranslateText(parsed.tokens))
         \/ /\ ~Readable(parsed)
            /\ textReply' = "err"
            /\ told' = 0 /\ sent' = <<>>

TextInit == text = <<>> /\ textReply = "none" /\ told = 0 /\ sent = <<>>

\* Mutant of CloseText: what was kept of the statement stays.
CloseTextLater == textReply # "none" /\ textReply' = "none" /\ UNCHANGED <<text, told, sent>>

CloseText == /\ textReply # "none"
             /\ text' = <<>> /\ textReply' = "none" /\ told' = 0 /\ sent' = <<>>

TextNext == CloseText \/ \E t \in Texts : PrepareText(t)

TextSpec == TextInit /\ [][TextNext]_textVars

-----------------------------------------------------------------------------
(* Properties *)

\* Type correctness; nothing is kept of a statement that was refused or closed
\* (on_prepare, on_close).
TextTypeOK ==
  /\ text \in Texts \cup {<<>>}
  /\ textReply \in {"none", "stmt", "err"}
  /\ told \in 0 .. Len(text)
  /\ \A i \in DOMAIN sent : sent[i] \in Char \cup {"number"}
  /\ textReply # "stmt" => told = 0 /\ sent = <<>>

\* The client is told of as many parameters as MySQL would tell it of, whatever
\* is in literals, names and comments (count_prepare_placeholders).
CountsAsMySql ==
  textReply = "stmt" /\ Readable(ReadText(MySqlRules, text)) => told = Params(MySqlSays(text))

\* No two ' are side by side.
Apart(content) == \A j \in 2 .. Len(content) : content[j] = "quote" => content[j - 1] # "quote"

\* A text whose quotations hold none of the marks another of the readers would
\* take for its own: a literal no backslash, once its escapes are resolved, no `
\* and no two ' side by side, a name no backslash, no ` and no ", a comment no
\* mark at all, and no literal is beside another.
PlainText(t) ==
  LET r == ReadText(MySqlRules, t)
      Literal(i) == r.tokens[i].open \in {"quote", "double"}
      Holds(i, marks) == \E ch \in marks : Contains(r.tokens[i].content, ch)
  IN  /\ Readable(r)
      /\ \A i \in DOMAIN r.tokens :
           /\ Literal(i) => ~Holds(i, {"slash", "tick"}) /\ Apart(r.tokens[i].content)
           /\ r.tokens[i].open = "tick" => ~Holds(i, {"slash", "tick", "double"})
           /\ r.tokens[i].open = "hash" => ~Holds(i, {"quote", "double", "tick"})
           /\ Literal(i) /\ i > 1 => ~Literal(i - 1)

\* Of a plain text PostgreSQL reads the same literals, names and words in the
\* same order as MySQL, with a numbered parameter for every ? and for nothing in
\* a literal or a name (rewrite_prepare_placeholders_for_postgres after
\* normalize_mysql_double_quoted_string_literals and replace_backticks).
PgReadsAsMySql ==
  PlainText(text) /\ textReply # "none" => textReply = "stmt" /\ PgSays(sent) = MySqlSays(text)
=============================================================================
