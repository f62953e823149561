------------------------- MODULE PlaceholdersProofs -------------------------
(* Proofs about the text of a prepared statement, for any texts: the client  *)
(* is told of as many parameters as MySQL would tell it of, and of a plain   *)
(* text PostgreSQL reads what MySQL would.  The second is proved in two      *)
(* parts.  Of what the rewriting of "" leaves MySQL reads the same tokens,   *)
(* but for the marks of the literals: a relation between the rewriting, the  *)
(* reading of the text and that of the outcome is kept by every character.   *)
(* And of the printed tokens, scanned for ? and read by PostgreSQL's rules,  *)
(* every one adds to what PostgreSQL is told what it adds to what MySQL is.  *)
EXTENDS Placeholders, SequenceTheorems, FoldLemmas

-----------------------------------------------------------------------------
(* The scan of a prepared statement *)

NewChar == Char \cup {"number"}

\* The states of the scan, and what it makes of one for a character.
ScanState == [in : DOMAIN Closer \cup {"code"}, skip : BOOLEAN, out : Seq(NewChar)]

ScanNext(s, ch) == IF s.in = "code" THEN ScanCode(s, ch) ELSE ScanQuoted(s, ch)

\* The marks and what ends each.
LEMMA Closers ==
  /\ DOMAIN Closer = {"quote", "double", "tick", "hash"}
  /\ Closer["quote"] = "quote" /\ Closer["double"] = "double"
  /\ Closer["tick"] = "tick" /\ Closer["hash"] = "newline"
  BY DEF Closer

\* The scan leaves one character for every one of the text.
LEMMA ScanNextType ==
  ASSUME NEW s \in ScanState, NEW ch \in Char
  PROVE  ScanNext(s, ch) \in ScanState /\ Len(ScanNext(s, ch).out) = Len(s.out) + 1
  <1>1. Append(s.out, ch) \in Seq(NewChar) /\ Append(s.out, "number") \in Seq(NewChar)
        /\ Len(Append(s.out, ch)) = Len(s.out) + 1 /\ Len(Append(s.out, "number")) = Len(s.out) + 1
    BY DEF ScanState, NewChar, Char
  <1>2. CASE s.in = "code"
    BY <1>1, <1>2, Closers DEF ScanState, ScanNext, ScanCode
  <1>3. CASE s.in # "code"
    BY <1>1, <1>3, Closers DEF ScanState, ScanNext, ScanQuoted
  <1> QED
    BY <1>2, <1>3

LEMMA CodeIsState == Code \in ScanState
  BY DEF Code, ScanState

\* The scan of a text, character by character.
LEMMA ScanInOrder ==
  ASSUME NEW t \in Seq(Char)
  PROVE  \E g \in [0 .. Len(t) -> ScanState] :
           /\ g[0] = Code
           /\ \A k \in 1 .. Len(t) : g[k] = ScanNext(g[k - 1], t[k])
           /\ Scan(t) = g[Len(t)].out
  <1> DEFINE F == [p \in ScanState \X Char |-> ScanNext(p[1], p[2])]
  <1>1. F \in [ScanState \X Char -> ScanState] /\ Code \in ScanState
    BY ScanNextType, CodeIsState
  <1>2. \A s \in ScanState, x \in Char : F[<<s, x>>] = ScanNext(s, x)
    OBVIOUS
  <1> HIDE DEF F
  <1>3. PICK e \in [SUBSET DOMAIN t -> ScanState] : Iterates(e, Code, F, t)
    BY Zenon, <1>1, FoldExists
  <1>4. e = [s \in SUBSET DOMAIN t |->
               IF s = {} THEN Code ELSE ScanNext(e[s \ {Max(s)}], t[Max(s)])]
    <2>1. ASSUME NEW s \in SUBSET DOMAIN t, s # {}
          PROVE  e[s] = ScanNext(e[s \ {Max(s)}], t[Max(s)])
      <3>1. e[s \ {Max(s)}] \in ScanState /\ t[Max(s)] \in Char
        BY <2>1, PositionOfMax
      <3> QED
        BY Zenon, <1>2, <1>3, <2>1, <3>1 DEF Iterates
    <2>2. e[{}] = Code
      BY Zenon, <1>3 DEF Iterates
    <2> QED
      BY <2>1, <2>2
  <1>5. PICK f : /\ f = [s \in SUBSET DOMAIN t |->
                          IF s = {} THEN Code ELSE ScanNext(f[s \ {Max(s)}], t[Max(s)])]
                 /\ Scan(t) = f[DOMAIN t].out
    BY Zenon, <1>4 DEF Scan, ScanNext, FoldLeft, MapThenFoldSet
  <1>6. Unfolds(f, Code, F, t, ScanState)
    <2>1. ASSUME NEW s \in SUBSET DOMAIN t, s # {}, f[s \ {Max(s)}] \in ScanState
          PROVE  f[s] = F[<<f[s \ {Max(s)}], t[Max(s)]>>]
      <3>1. t[Max(s)] \in Char
        BY <2>1, PositionOfMax
      <3> QED
        BY Zenon, <1>2, <1>5, <2>1, <3>1
    <2>2. f[{}] = Code
      BY Zenon, <1>5
    <2> QED
      BY Zenon, <2>1, <2>2 DEF Unfolds
  <1>7. PICK g \in [0 .. Len(t) -> ScanState] : PrefixStates(g, Code, F, t, f[DOMAIN t])
    BY Zenon, <1>1, <1>6, IterationRuns
  <1>8. ASSUME NEW k \in 1 .. Len(t) PROVE g[k] = ScanNext(g[k - 1], t[k])
    <2>1. g[k - 1] \in ScanState /\ t[k] \in Char
      OBVIOUS
    <2> QED
      BY Zenon, <1>2, <1>7, <2>1 DEF PrefixStates
  <1> QED
    BY Zenon, <1>5, <1>7, <1>8 DEF PrefixStates

\* A text has as many characters after the scan as before.
LEMMA ScanType ==
  ASSUME NEW t \in Seq(Char)
  PROVE  Scan(t) \in Seq(NewChar) /\ Len(Scan(t)) = Len(t)
  <1>1. PICK g \in [0 .. Len(t) -> ScanState] :
          /\ g[0] = Code
          /\ \A k \in 1 .. Len(t) : g[k] = ScanNext(g[k - 1], t[k])
          /\ Scan(t) = g[Len(t)].out
    BY Zenon, ScanInOrder
  <1> DEFINE Longer == {k \in 0 .. Len(t) : Len(g[k].out) = k}
  <1>2. 0 \in Longer
    BY <1>1 DEF Code
  <1>3. ASSUME NEW k \in 1 .. Len(t), k - 1 \in Longer PROVE k \in Longer
    <2>1. g[k - 1] \in ScanState /\ t[k] \in Char /\ k \in 0 .. Len(t)
      OBVIOUS
    <2>2. Len(g[k].out) = Len(g[k - 1].out) + 1
      BY Zenon, <1>1, <2>1, ScanNextType
    <2> QED
      BY <1>3, <2>1, <2>2
  <1>4. Len(t) \in 0 .. Len(t) /\ Len(t) \in Nat
    OBVIOUS
  <1> HIDE DEF Longer
  <1>5. Len(t) \in Longer
    BY <1>2, <1>3, <1>4, BoundedInduction
  <1> QED
    BY <1>1, <1>4, <1>5 DEF Longer, ScanState

-----------------------------------------------------------------------------
(* Reading by some rules *)

\* The states a reader by some rules keeps to.
KeepsTo(rules, State, Elem) ==
  Unread \in State /\ \A s \in State, ch \in Elem : ReadChar(rules, s, ch) \in State

Reader(rules, State, Elem) == [p \in State \X Elem |-> ReadChar(rules, p[1], p[2])]

\* What has been read of a text.
IsRead(rules, State, Elem, t, r) ==
  t \in Seq(Elem) /\ r \in State /\ Leads(Reader(rules, State, Elem), State, Unread, t, r)

\* What has been read of nothing, and of one character more.
LEMMA ReadNothing ==
  ASSUME NEW rules, NEW State, NEW Elem, KeepsTo(rules, State, Elem)
  PROVE  IsRead(rules, State, Elem, <<>>, Unread)
  <1>1. <<>> \in Seq(Elem) /\ Unread \in State
    BY DEF KeepsTo
  <1> QED
    BY Zenon, <1>1, LeadsNowhere DEF IsRead

LEMMA ReadOn ==
  ASSUME NEW rules, NEW State, NEW Elem, KeepsTo(rules, State, Elem), NEW t, NEW r,
         IsRead(rules, State, Elem, t, r), NEW ch \in Elem
  PROVE  IsRead(rules, State, Elem, Append(t, ch), ReadChar(rules, r, ch))
  <1> DEFINE F == Reader(rules, State, Elem)
  <1>1. F \in [State \X Elem -> State] /\ t \in Seq(Elem) /\ r \in State
    BY DEF KeepsTo, Reader, IsRead
  <1>2. F[<<r, ch>>] = ReadChar(rules, r, ch)
    BY <1>1 DEF Reader
  <1>3. Leads(F, State, Unread, t, r)
    BY Zenon DEF IsRead
  <1>4. Append(t, ch) \in Seq(Elem)
    BY <1>1
  <1> HIDE DEF F
  <1>5. Leads(F, State, Unread, Append(t, ch), F[<<r, ch>>]) /\ F[<<r, ch>>] \in State
    BY Zenon, <1>1, <1>3, LeadsOn
  <1> QED
    BY Zenon, <1>2, <1>4, <1>5 DEF IsRead, F

\* The reading of a text by some rules, character by character.
LEMMA ReadByRules ==
  ASSUME NEW rules, NEW State, NEW Elem, KeepsTo(rules, State, Elem), NEW t \in Seq(Elem)
  PROVE  \E g \in [0 .. Len(t) -> State] :
           /\ g[0] = Unread
           /\ \A k \in 1 .. Len(t) : g[k] = ReadChar(rules, g[k - 1], t[k])
           /\ ReadText(rules, t) = g[Len(t)]
           /\ PrefixStates(g, Unread, Reader(rules, State, Elem), t, ReadText(rules, t))
  <1> DEFINE F == Reader(rules, State, Elem)
  <1>1. F \in [State \X Elem -> State] /\ Unread \in State
    BY DEF KeepsTo, Reader
  <1>2. \A s \in State, x \in Elem : F[<<s, x>>] = ReadChar(rules, s, x)
    BY DEF Reader
  <1> HIDE DEF F
  <1>3. PICK e \in [SUBSET DOMAIN t -> State] : Iterates(e, Unread, F, t)
    BY Zenon, <1>1, FoldExists
  <1>4. e = [s \in SUBSET DOMAIN t |->
               IF s = {} THEN Unread ELSE ReadChar(rules, e[s \ {Max(s)}], t[Max(s)])]
    <2>1. ASSUME NEW s \in SUBSET DOMAIN t, s # {}
          PROVE  e[s] = ReadChar(rules, e[s \ {Max(s)}], t[Max(s)])
      <3>1. e[s \ {Max(s)}] \in State /\ t[Max(s)] \in Elem
        BY <2>1, PositionOfMax
      <3> QED
        BY Zenon, <1>2, <1>3, <2>1, <3>1 DEF Iterates
    <2>2. e[{}] = Unread
      BY Zenon, <1>3 DEF Iterates
    <2> QED
      BY <2>1, <2>2
  <1>5. PICK f : /\ f = [s \in SUBSET DOMAIN t |->
                          IF s = {} THEN Unread ELSE ReadChar(rules, f[s \ {Max(s)}], t[Max(s)])]
                 /\ ReadText(rules, t) = f[DOMAIN t]
    BY Zenon, <1>4 DEF ReadText, FoldLeft, MapThenFoldSet
  <1>6. Unfolds(f, Unread, F, t, State)
    <2>1. ASSUME NEW s \in SUBSET DOMAIN t, s # {}, f[s \ {Max(s)}] \in State
          PROVE  f[s] = F[<<f[s \ {Max(s)}], t[Max(s)]>>]
      <3>1. t[Max(s)] \in Elem
        BY <2>1, PositionOfMax
      <3> QED
        BY Zenon, <1>2, <1>5, <2>1, <3>1
    <2>2. f[{}] = Unread
      BY Zenon, <1>5
    <2> QED
      BY Zenon, <2>1, <2>2 DEF Unfolds
  <1>7. PICK g \in [0 .. Len(t) -> State] : PrefixStates(g, Unread, F, t, f[DOMAIN t])
    BY Zenon, <1>1, <1>6, IterationRuns
  <1>8. ASSUME NEW k \in 1 .. Len(t) PROVE g[k] = ReadChar(rules, g[k - 1], t[k])
    <2>1. g[k - 1] \in State /\ t[k] \in Elem
      OBVIOUS
    <2> QED
      BY Zenon, <1>2, <1>7, <2>1 DEF PrefixStates
  <1> QED
    BY Zenon, <1>5, <1>7, <1>8 DEF PrefixStates, F

\* A text that was read to its end is read.
LEMMA ReadAll ==
  ASSUME NEW rules, NEW State, NEW Elem, KeepsTo(rules, State, Elem), NEW t, NEW r,
         IsRead(rules, State, Elem, t, r)
  PROVE  ReadText(rules, t) = r
  <1> DEFINE F == Reader(rules, State, Elem)
  <1>1. t \in Seq(Elem) /\ Leads(F, State, Unread, t, r)
    BY Zenon DEF IsRead
  <1>2. Leads(F, State, Unread, t, ReadText(rules, t))
    BY Zenon, <1>1, ReadByRules DEF Leads
  <1> HIDE DEF F
  <1> QED
    BY Zenon, <1>1, <1>2, LeadsOnce

-----------------------------------------------------------------------------
(* MySQL's reading *)

Token == [open : Char, content : Seq(Char)]

\* The states of a reading: a quotation, or one just closed, is the last token's.
ReadState ==
  {s \in [in : DOMAIN Closer \cup {"code"}, skip : BOOLEAN,
           closed : {"none", "quote", "double", "tick"}, tokens : Seq(Token)] :
     s.in # "code" \/ s.closed # "none" => s.tokens # <<>>}

LEMMA UnreadIsState == Unread \in ReadState
  BY DEF Unread, ReadState

\* A character that is quoted changes none of the tokens' beginnings.
LEMMA QuotesType ==
  ASSUME NEW s \in ReadState, NEW ch \in Char, s.tokens # <<>>
  PROVE  \E tokens \in Seq(Token) :
           /\ Quotes(s, ch) = [s EXCEPT !.tokens = tokens]
           /\ Len(tokens) = Len(s.tokens)
           /\ \A i \in DOMAIN tokens : tokens[i].open = s.tokens[i].open
  <1> DEFINE n == Len(s.tokens)
             latest == s.tokens[n]
             fuller == [latest EXCEPT !.content = Append(latest.content, ch)]
             tokens == [s.tokens EXCEPT ![n] = fuller]
  <1>1. s.tokens \in Seq(Token) /\ n \in 1 .. n /\ n \in DOMAIN s.tokens
    BY DEF ReadState
  <1>2. latest \in Token
    <2> HIDE DEF n
    <2> QED
      BY <1>1
  <1>3. fuller \in Token /\ fuller.open = latest.open
    <2> HIDE DEF latest
    <2>1. Append(latest.content, ch) \in Seq(Char)
      BY <1>2 DEF Token
    <2> QED
      BY <1>2, <2>1 DEF Token
  <1>4. Quotes(s, ch) = [s EXCEPT !.tokens = tokens]
    BY Zenon DEF Quotes
  <1> HIDE DEF fuller
  <1>5. tokens \in Seq(Token) /\ Len(tokens) = n /\ DOMAIN tokens = DOMAIN s.tokens
    BY <1>1, <1>3
  <1>6. \A i \in DOMAIN tokens : tokens[i].open = s.tokens[i].open
    <2> HIDE DEF tokens
    <2> QED
      BY <1>1, <1>3, <1>5 DEF tokens
  <1> HIDE DEF tokens, n
  <1> QED
    BY <1>4, <1>5, <1>6 DEF n

\* What a character does to a reading by MySQL's rules, one case after the other.
LEMMA ReadCases ==
  ASSUME NEW s \in ReadState, NEW ch \in Char, NEW next, next = ReadChar(MySqlRules, s, ch)
  PROVE  /\ s.in = "code" /\ ch = s.closed => next = [Quotes(s, ch) EXCEPT !.in = ch]
         /\ s.in = "code" /\ ch # s.closed =>
              next = [s EXCEPT !.in = IF ch \in DOMAIN Closer THEN ch ELSE "code",
                               !.closed = "none",
                               !.tokens = Append(@, [open |-> ch, content |-> <<>>])]
         /\ s.in # "code" /\ s.skip => next = [Quotes(s, ch) EXCEPT !.skip = FALSE]
         /\ s.in \in {"quote", "double"} /\ ~s.skip /\ ch = "slash" => next = [s EXCEPT !.skip = TRUE]
         /\ s.in # "code" /\ ~s.skip /\ ch = Closer[s.in] =>
              next = [s EXCEPT !.in = "code", !.closed = IF s.in = "hash" THEN "none" ELSE ch]
         /\ /\ s.in # "code" /\ ~s.skip /\ ch # Closer[s.in]
            /\ s.in \notin {"quote", "double"} \/ ch # "slash"
            => next = Quotes(s, ch)
  <1>1. MySqlRules.opens = DOMAIN Closer /\ MySqlRules.escapes = {"quote", "double"}
    BY Closers DEF MySqlRules
  <1>2. s.in \in DOMAIN Closer \cup {"code"} /\ s.skip \in BOOLEAN
    BY DEF ReadState
  <1>3. ASSUME s.in # "code" PROVE Closer[s.in] # "slash"
    BY <1>2, <1>3, Closers
  <1>4. CASE s.in = "code" /\ ch = s.closed
    BY <1>4 DEF ReadChar
  <1>5. CASE s.in = "code" /\ ch # s.closed
    BY <1>1, <1>5 DEF ReadChar
  <1>6. CASE s.in # "code" /\ s.skip
    BY <1>6 DEF ReadChar
  <1>7. CASE s.in # "code" /\ ~s.skip /\ ch = "slash" /\ s.in \in {"quote", "double"}
    BY <1>1, <1>3, <1>7 DEF ReadChar
  <1>8. CASE s.in # "code" /\ ~s.skip /\ ch = Closer[s.in]
    BY <1>1, <1>3, <1>8 DEF ReadChar
  <1>9. CASE /\ s.in # "code" /\ ~s.skip /\ ch # Closer[s.in]
             /\ s.in \notin {"quote", "double"} \/ ch # "slash"
    BY <1>1, <1>9 DEF ReadChar
  <1> QED
    BY <1>2, <1>4, <1>5, <1>6, <1>7, <1>8, <1>9

\* A reading and the scan of the same text are in the same place of it, and have
\* met the same ?.
Questions == {k \in Token : k.open = "param"}

Together(scan, read) ==
  /\ scan.in = read.in /\ scan.skip = read.skip
  /\ Count(scan.out, {"number"}) = Count(read.tokens, Questions)

\* Every character keeps a reading typed and together with the scan.
LEMMA ReadsTogether ==
  ASSUME NEW s \in ReadState, NEW ch \in Char, NEW c \in ScanState, Together(c, s)
  PROVE  ReadChar(MySqlRules, s, ch) \in ReadState /\ Together(ScanNext(c, ch), ReadChar(MySqlRules, s, ch))
  <1> DEFINE next == ReadChar(MySqlRules, s, ch)
             scan == ScanNext(c, ch)
  <1>1. /\ s.in \in DOMAIN Closer \cup {"code"} /\ s.skip \in BOOLEAN /\ s.tokens \in Seq(Token)
        /\ s.closed \in {"none", "quote", "double", "tick"}
        /\ c.in = s.in /\ c.skip = s.skip /\ c.out \in Seq(NewChar)
    BY DEF ReadState, ScanState, Together
  <1>2. /\ Count(Append(c.out, ch), {"number"}) = Count(c.out, {"number"})
        /\ Count(Append(c.out, "number"), {"number"}) = Count(c.out, {"number"}) + 1
    <2>1. ch \in NewChar /\ "number" \in NewChar /\ ch # "number"
      BY DEF Char, NewChar
    <2> QED
      BY <1>1, <2>1, CountAppended
  <1>3. Count(c.out, {"number"}) = Count(s.tokens, Questions)
    BY DEF Together
  <1>4. ASSUME s.in # "code" \/ ch = s.closed
        PROVE  \E tokens \in Seq(Token) :
                 /\ Quotes(s, ch) = [s EXCEPT !.tokens = tokens] /\ tokens # <<>>
                 /\ Count(tokens, Questions) = Count(s.tokens, Questions)
    <2>1. s.tokens # <<>>
      BY <1>4 DEF ReadState, Char
    <2>2. PICK tokens \in Seq(Token) :
            /\ Quotes(s, ch) = [s EXCEPT !.tokens = tokens] /\ Len(tokens) = Len(s.tokens)
            /\ \A i \in DOMAIN tokens : tokens[i].open = s.tokens[i].open
      BY Zenon, <2>1, QuotesType
    <2>3. {i \in DOMAIN tokens : tokens[i] \in Questions} = {i \in DOMAIN s.tokens : s.tokens[i] \in Questions}
      <3>1. DOMAIN tokens = DOMAIN s.tokens
            /\ \A i \in DOMAIN tokens : tokens[i] \in Token /\ s.tokens[i] \in Token
        BY <1>1, <2>2
      <3> QED
        BY <2>2, <3>1 DEF Questions
    <2>4. Count(tokens, Questions) = Count(s.tokens, Questions)
      BY Zenon, <2>3 DEF Count
    <2>5. tokens # <<>>
      BY <1>1, <2>1, <2>2
    <2> QED
      BY Zenon, <2>2, <2>4, <2>5
  <1> HIDE DEF next, scan
  <1>5. CASE s.in = "code" /\ ch = s.closed
    <2>1. next = [Quotes(s, ch) EXCEPT !.in = ch]
      BY Zenon, <1>5, ReadCases DEF next
    <2>2. ch \in {"quote", "double", "tick"}
      BY <1>1, <1>5 DEF Char
    <2>3. scan = [c EXCEPT !.in = ch, !.out = Append(@, ch)]
      BY <1>1, <1>5, <2>2, Closers DEF scan, ScanNext, ScanCode, ScanState
    <2> QED
      BY <1>1, <1>2, <1>3, <1>4, <1>5, <2>1, <2>2, <2>3, Closers DEF ReadState, ScanState, Together, next, scan
  <1>6. CASE s.in = "code" /\ ch # s.closed
    <2> DEFINE token == [open |-> ch, content |-> <<>>]
    <2>1. next = [s EXCEPT !.in = IF ch \in DOMAIN Closer THEN ch ELSE "code",
                           !.closed = "none", !.tokens = Append(@, token)]
      BY Zenon, <1>6, ReadCases DEF next
    <2>2. token \in Token /\ (token \in Questions <=> ch = "param")
      BY DEF Token, Questions
    <2> HIDE DEF token
    <2>3. Append(s.tokens, token) \in Seq(Token) /\ Append(s.tokens, token) # <<>>
      BY <1>1, <2>2
    <2>4. Count(Append(s.tokens, token), Questions)
            = IF ch = "param" THEN Count(s.tokens, Questions) + 1 ELSE Count(s.tokens, Questions)
      BY <1>1, <2>2, CountAppended
    <2>5. scan = [c EXCEPT !.in = IF ch \in DOMAIN Closer THEN ch ELSE "code",
                           !.out = Append(@, IF ch = "param" THEN "number" ELSE ch)]
      BY <1>1, <1>6 DEF scan, ScanNext, ScanCode
    <2> QED
      BY <1>1, <1>2, <1>3, <1>6, <2>1, <2>3, <2>4, <2>5 DEF ReadState, ScanState, Together, next, scan
  <1>7. CASE s.in # "code"
    <2>1. scan = [c EXCEPT !.skip = ~c.skip /\ ch = "slash" /\ c.in \in {"quote", "double"},
                           !.in = IF ~c.skip /\ ch = Closer[c.in] THEN "code" ELSE @,
                           !.out = Append(@, ch)]
      BY <1>1, <1>7 DEF scan, ScanNext, ScanQuoted
    <2>2. Closer[s.in] # "slash"
      BY <1>1, <1>7, Closers
    <2>3. s.tokens # <<>>
      BY <1>7 DEF ReadState
    <2>4. PICK tokens \in Seq(Token) :
            /\ Quotes(s, ch) = [s EXCEPT !.tokens = tokens] /\ tokens # <<>>
            /\ Count(tokens, Questions) = Count(s.tokens, Questions)
      BY <1>4, <1>7
    <2>5. CASE s.skip
      <3>1. next = [Quotes(s, ch) EXCEPT !.skip = FALSE]
        BY Zenon, <1>7, <2>5, ReadCases DEF next
      <3> QED
        BY <1>1, <1>2, <1>3, <1>7, <2>1, <2>4, <2>5, <3>1 DEF ReadState, ScanState, Together, next, scan
    <2>6. CASE ~s.skip /\ ch = "slash" /\ s.in \in {"quote", "double"}
      <3>1. next = [s EXCEPT !.skip = TRUE]
        BY Zenon, <2>6, ReadCases DEF next
      <3> QED
        BY <1>1, <1>2, <1>3, <1>7, <2>1, <2>2, <2>3, <2>6, <3>1 DEF ReadState, ScanState, Together, next, scan
    <2>7. CASE ~s.skip /\ ch = Closer[s.in]
      <3>1. next = [s EXCEPT !.in = "code", !.closed = IF s.in = "hash" THEN "none" ELSE ch]
        BY Zenon, <1>7, <2>7, ReadCases DEF next
      <3>2. s.in # "hash" => ch \in {"quote", "double", "tick"}
        BY <1>1, <1>7, <2>7, Closers
      <3> QED
        BY <1>1, <1>2, <1>3, <1>7, <2>1, <2>2, <2>3, <2>7, <3>1, <3>2
        DEF ReadState, ScanState, Together, next, scan
    <2>8. CASE /\ ~s.skip /\ ch # Closer[s.in]
               /\ s.in \notin {"quote", "double"} \/ ch # "slash"
      <3>1. next = Quotes(s, ch)
        BY Zenon, <1>7, <2>8, ReadCases DEF next
      <3> QED
        BY <1>1, <1>2, <1>3, <1>7, <2>1, <2>4, <2>8, <3>1 DEF ReadState, ScanState, Together, next, scan
    <2> QED
      BY <2>5, <2>6, <2>7, <2>8
  <1> QED
    BY <1>5, <1>6, <1>7

\* A reading by MySQL's rules keeps to the states of one.
LEMMA ReadingType ==
  ASSUME NEW s \in ReadState, NEW ch \in Char
  PROVE  ReadChar(MySqlRules, s, ch) \in ReadState
  <1> DEFINE out == [i \in DOMAIN s.tokens |-> IF s.tokens[i] \in Questions THEN "number" ELSE "word"]
             c == [in |-> s.in, skip |-> s.skip, out |-> out]
  <1>1. out \in Seq(NewChar) /\ DOMAIN out = DOMAIN s.tokens
    BY DEF ReadState, NewChar, Char
  <1>2. {i \in DOMAIN out : out[i] \in {"number"}} = {i \in DOMAIN s.tokens : s.tokens[i] \in Questions}
    BY <1>1
  <1>3. c \in ScanState
    <2> HIDE DEF out
    <2> QED
      BY <1>1 DEF ScanState, ReadState
  <1>4. Together(c, s)
    BY Zenon, <1>2 DEF Together, Count
  <1> HIDE DEF c
  <1> QED
    BY Zenon, <1>3, <1>4, ReadsTogether

LEMMA MySqlKeepsTo == KeepsTo(MySqlRules, ReadState, Char)
  BY Zenon, ReadingType, UnreadIsState DEF KeepsTo

\* MySQL's reading of a text, character by character.
LEMMA ReadInOrder ==
  ASSUME NEW t \in Seq(Char)
  PROVE  \E g \in [0 .. Len(t) -> ReadState] :
           /\ g[0] = Unread
           /\ \A k \in 1 .. Len(t) : g[k] = ReadChar(MySqlRules, g[k - 1], t[k])
           /\ ReadText(MySqlRules, t) = g[Len(t)]
  <1>1. PICK g \in [0 .. Len(t) -> ReadState] :
          /\ g[0] = Unread
          /\ \A k \in 1 .. Len(t) : g[k] = ReadChar(MySqlRules, g[k - 1], t[k])
          /\ ReadText(MySqlRules, t) = g[Len(t)]
          /\ PrefixStates(g, Unread, Reader(MySqlRules, ReadState, Char), t, ReadText(MySqlRules, t))
    BY Zenon, MySqlKeepsTo, ReadByRules
  <1> QED
    BY Zenon, <1>1

\* The scan of a text has as many numbers as MySQL's reading of it has ? outside
\* of quotations.
LEMMA ScanCounts ==
  ASSUME NEW t \in Seq(Char)
  PROVE  /\ ReadText(MySqlRules, t) \in ReadState
         /\ Count(Scan(t), {"number"}) = Count(ReadText(MySqlRules, t).tokens, Questions)
  <1>1. PICK g \in [0 .. Len(t) -> ScanState] :
          /\ g[0] = Code
          /\ \A k \in 1 .. Len(t) : g[k] = ScanNext(g[k - 1], t[k])
          /\ Scan(t) = g[Len(t)].out
    BY Zenon, ScanInOrder
  <1>2. PICK r \in [0 .. Len(t) -> ReadState] :
          /\ r[0] = Unread
          /\ \A k \in 1 .. Len(t) : r[k] = ReadChar(MySqlRules, r[k - 1], t[k])
          /\ ReadText(MySqlRules, t) = r[Len(t)]
    BY Zenon, ReadInOrder
  <1> DEFINE Paired == {k \in 0 .. Len(t) : Together(g[k], r[k])}
  <1>3. 0 \in Paired
    <2>1. Code.in = Unread.in /\ Code.skip = Unread.skip /\ Code.out = <<>> /\ Unread.tokens = <<>>
      BY DEF Code, Unread
    <2>2. Together(Code, Unread)
      BY <2>1 DEF Together, Count
    <2> QED
      BY <1>1, <1>2, <2>2
  <1>4. ASSUME NEW k \in 1 .. Len(t), k - 1 \in Paired PROVE k \in Paired
    <2>1. g[k - 1] \in ScanState /\ r[k - 1] \in ReadState /\ t[k] \in Char /\ k \in 0 .. Len(t)
          /\ Together(g[k - 1], r[k - 1])
      BY <1>4
    <2>2. Together(g[k], r[k])
      BY Zenon, <1>1, <1>2, <2>1, ReadsTogether
    <2> QED
      BY <2>1, <2>2
  <1>5. Len(t) \in 0 .. Len(t) /\ Len(t) \in Nat
    OBVIOUS
  <1> HIDE DEF Paired
  <1>6. Len(t) \in Paired
    BY <1>3, <1>4, <1>5, BoundedInduction
  <1>7. Together(g[Len(t)], r[Len(t)])
    BY <1>6 DEF Paired
  <1> QED
    BY Zenon, <1>1, <1>2, <1>5, <1>7 DEF Together

-----------------------------------------------------------------------------
(* What a text says *)

MySqlKinds == [quote |-> "literal", double |-> "literal", tick |-> "name"]
Word == [kind : Char \cup {"literal", "name"}, content : Seq(Char)]
Asked == {w \in Word : w.kind = "param"}

SayNext(kinds, said, k) ==
  IF k.open \in {"newline", "hash"} THEN said
  ELSE Append(said, [kind |-> IF k.open \in DOMAIN kinds THEN kinds[k.open] ELSE k.open,
                     content |-> k.content])

\* A token that is a ? says a parameter, no other token does.
LEMMA SayNextType ==
  ASSUME NEW said \in Seq(Word), NEW k \in Token
  PROVE  /\ SayNext(MySqlKinds, said, k) \in Seq(Word)
         /\ Count(SayNext(MySqlKinds, said, k), Asked)
              = IF k \in Questions THEN Count(said, Asked) + 1 ELSE Count(said, Asked)
  <1> DEFINE word == [kind |-> IF k.open \in DOMAIN MySqlKinds THEN MySqlKinds[k.open] ELSE k.open,
                      content |-> k.content]
  <1>1. word \in Word /\ (word \in Asked <=> k.open = "param")
    <2>1. DOMAIN MySqlKinds = {"quote", "double", "tick"}
          /\ MySqlKinds["quote"] = "literal" /\ MySqlKinds["double"] = "literal" /\ MySqlKinds["tick"] = "name"
      BY DEF MySqlKinds
    <2> QED
      BY <2>1 DEF Word, Asked, Token
  <1>2. SayNext(MySqlKinds, said, k) = IF k.open \in {"newline", "hash"} THEN said ELSE Append(said, word)
    BY DEF SayNext
  <1>3. k \in Questions <=> k.open = "param"
    BY DEF Questions
  <1> HIDE DEF word
  <1>4. Append(said, word) \in Seq(Word)
        /\ Count(Append(said, word), Asked) = IF word \in Asked THEN Count(said, Asked) + 1 ELSE Count(said, Asked)
    BY <1>1, CountAppended
  <1> QED
    BY <1>1, <1>2, <1>3, <1>4

LEMMA Silence == <<>> \in Seq(Word)
  OBVIOUS

\* What is said of tokens by some kinds.
SaysOf(kinds, State, Elem) ==
  <<>> \in State /\ \A said \in State, k \in Elem : SayNext(kinds, said, k) \in State

Sayer(kinds, State, Elem) == [p \in State \X Elem |-> SayNext(kinds, p[1], p[2])]

\* What is said of tokens, token by token.
LEMMA SaysByKinds ==
  ASSUME NEW kinds, NEW State, NEW Elem, SaysOf(kinds, State, Elem), NEW r, r.tokens \in Seq(Elem)
  PROVE  \E g \in [0 .. Len(r.tokens) -> State] :
           /\ g[0] = <<>>
           /\ \A k \in 1 .. Len(r.tokens) : g[k] = SayNext(kinds, g[k - 1], r.tokens[k])
           /\ Says(r, kinds) = g[Len(r.tokens)]
           /\ PrefixStates(g, <<>>, Sayer(kinds, State, Elem), r.tokens, Says(r, kinds))
  <1> DEFINE F == Sayer(kinds, State, Elem)
  <1>1. F \in [State \X Elem -> State] /\ <<>> \in State
    BY DEF SaysOf, Sayer
  <1>2. \A s \in State, x \in Elem : F[<<s, x>>] = SayNext(kinds, s, x)
    BY DEF Sayer
  <1> HIDE DEF F
  <1>3. PICK e \in [SUBSET DOMAIN r.tokens -> State] : Iterates(e, <<>>, F, r.tokens)
    BY Zenon, <1>1, FoldExists
  <1>4. e = [s \in SUBSET DOMAIN r.tokens |->
               IF s = {} THEN <<>> ELSE SayNext(kinds, e[s \ {Max(s)}], r.tokens[Max(s)])]
    <2>1. ASSUME NEW s \in SUBSET DOMAIN r.tokens, s # {}
          PROVE  e[s] = SayNext(kinds, e[s \ {Max(s)}], r.tokens[Max(s)])
      <3>1. e[s \ {Max(s)}] \in State /\ r.tokens[Max(s)] \in Elem
        BY <2>1, PositionOfMax
      <3> QED
        BY Zenon, <1>2, <1>3, <2>1, <3>1 DEF Iterates
    <2>2. e[{}] = <<>>
      BY Zenon, <1>3 DEF Iterates
    <2> QED
      BY <2>1, <2>2
  <1>5. PICK f : /\ f = [s \in SUBSET DOMAIN r.tokens |->
                          IF s = {} THEN <<>> ELSE SayNext(kinds, f[s \ {Max(s)}], r.tokens[Max(s)])]
                 /\ Says(r, kinds) = f[DOMAIN r.tokens]
    BY Zenon, <1>4 DEF Says, SayNext, FoldLeft, MapThenFoldSet
  <1>6. Unfolds(f, <<>>, F, r.tokens, State)
    <2>1. ASSUME NEW s \in SUBSET DOMAIN r.tokens, s # {}, f[s \ {Max(s)}] \in State
          PROVE  f[s] = F[<<f[s \ {Max(s)}], r.tokens[Max(s)]>>]
      <3>1. r.tokens[Max(s)] \in Elem
        BY <2>1, PositionOfMax
      <3> QED
        BY Zenon, <1>2, <1>5, <2>1, <3>1
    <2>2. f[{}] = <<>>
      BY Zenon, <1>5
    <2> QED
      BY Zenon, <2>1, <2>2 DEF Unfolds
  <1>7. PICK g \in [0 .. Len(r.tokens) -> State] : PrefixStates(g, <<>>, F, r.tokens, f[DOMAIN r.tokens])
    BY Zenon, <1>1, <1>6, IterationRuns
  <1>8. ASSUME NEW k \in 1 .. Len(r.tokens) PROVE g[k] = SayNext(kinds, g[k - 1], r.tokens[k])
    <2>1. g[k - 1] \in State /\ r.tokens[k] \in Elem
      OBVIOUS
    <2> QED
      BY Zenon, <1>2, <1>7, <2>1 DEF PrefixStates
  <1> QED
    BY Zenon, <1>5, <1>7, <1>8 DEF PrefixStates, F

\* What is said to MySQL, token by token.
LEMMA SaysInOrder ==
  ASSUME NEW r, r.tokens \in Seq(Token)
  PROVE  \E g \in [0 .. Len(r.tokens) -> Seq(Word)] :
           /\ g[0] = <<>>
           /\ \A k \in 1 .. Len(r.tokens) : g[k] = SayNext(MySqlKinds, g[k - 1], r.tokens[k])
           /\ Says(r, MySqlKinds) = g[Len(r.tokens)]
  <1> DEFINE Words == Seq(Word)
  <1>1. SaysOf(MySqlKinds, Words, Token)
    BY Zenon, SayNextType, Silence DEF SaysOf
  <1> HIDE DEF Words
  <1>2. PICK g \in [0 .. Len(r.tokens) -> Words] :
          /\ g[0] = <<>>
          /\ \A k \in 1 .. Len(r.tokens) : g[k] = SayNext(MySqlKinds, g[k - 1], r.tokens[k])
          /\ Says(r, MySqlKinds) = g[Len(r.tokens)]
          /\ PrefixStates(g, <<>>, Sayer(MySqlKinds, Words, Token), r.tokens, Says(r, MySqlKinds))
    BY Zenon, <1>1, SaysByKinds
  <1> QED
    BY Zenon, <1>2 DEF Words

\* MySQL has a parameter for every ? outside of quotations.
LEMMA SaysCounts ==
  ASSUME NEW r, r.tokens \in Seq(Token)
  PROVE  Says(r, MySqlKinds) \in Seq(Word) /\ Count(Says(r, MySqlKinds), Asked) = Count(r.tokens, Questions)
  <1> DEFINE n == Len(r.tokens)
             P == {i \in DOMAIN r.tokens : r.tokens[i] \in Questions}
             C(k) == Cardinality(P \cap (1 .. k))
  <1>1. PICK g \in [0 .. Len(r.tokens) -> Seq(Word)] :
          /\ g[0] = <<>>
          /\ \A k \in 1 .. Len(r.tokens) : g[k] = SayNext(MySqlKinds, g[k - 1], r.tokens[k])
          /\ Says(r, MySqlKinds) = g[Len(r.tokens)]
    BY Zenon, SaysInOrder
  <1> DEFINE Counted == {k \in 0 .. n : Count(g[k], Asked) = C(k)}
  <1>2. 0 \in Counted
    <2>1. P \cap (1 .. 0) = {} /\ {i \in DOMAIN <<>> : <<>>[i] \in Asked} = {} /\ n \in Nat
      OBVIOUS
    <2>2. Count(g[0], Asked) = C(0)
      BY Zenon, <1>1, <2>1 DEF Count
    <2> HIDE DEF C
    <2> QED
      BY <2>1, <2>2
  <1>3. ASSUME NEW k \in 1 .. n, k - 1 \in Counted PROVE k \in Counted
    <2>1. g[k - 1] \in Seq(Word) /\ r.tokens[k] \in Token /\ k \in 0 .. n /\ k \in Nat \ {0}
          /\ (k \in P <=> r.tokens[k] \in Questions) /\ Count(g[k - 1], Asked) = C(k - 1)
      BY <1>3
    <2> HIDE DEF P
    <2>2. C(k) = IF k \in P THEN C(k - 1) + 1 ELSE C(k - 1)
      BY <2>1, CountOfPrefix
    <2> HIDE DEF C
    <2>3. Count(SayNext(MySqlKinds, g[k - 1], r.tokens[k]), Asked)
            = IF r.tokens[k] \in Questions THEN Count(g[k - 1], Asked) + 1 ELSE Count(g[k - 1], Asked)
      BY Zenon, <2>1, SayNextType
    <2>4. Count(g[k], Asked) = C(k)
      BY Zenon, <1>1, <2>1, <2>2, <2>3
    <2> QED
      BY <2>1, <2>4
  <1>4. n \in Counted
    <2> HIDE DEF Counted
    <2>1. n \in Nat /\ n \in 0 .. n
      OBVIOUS
    <2>2. 0 .. n \subseteq Counted
      <3> HIDE DEF n
      <3> QED
        BY <1>2, <1>3, <2>1, BoundedInduction
    <2> QED
      BY <2>1, <2>2
  <1>5. n \in 0 .. n /\ P \cap (1 .. n) = P
    OBVIOUS
  <1>6. Count(g[n], Asked) = C(n) /\ C(n) = Count(r.tokens, Questions)
    BY Zenon, <1>4, <1>5 DEF Count
  <1>7. g[n] \in Seq(Word)
    BY <1>5
  <1> QED
    BY Zenon, <1>1, <1>6, <1>7

\* The scan numbers as many placeholders as MySQL has parameters.
LEMMA CountsTheSame ==
  ASSUME NEW t \in Seq(Char)
  PROVE  Numbers(Scan(t)) = Params(MySqlSays(t)) /\ Numbers(Scan(t)) \in 0 .. Len(t)
  <1> DEFINE r == ReadText(MySqlRules, t)
             said == Says(r, MySqlKinds)
  <1>1. r \in ReadState /\ Count(Scan(t), {"number"}) = Count(r.tokens, Questions)
    BY ScanCounts
  <1>2. r.tokens \in Seq(Token)
    BY <1>1 DEF ReadState
  <1>3. MySqlSays(t) = said
    BY Zenon DEF MySqlSays, MySqlKinds
  <1> HIDE DEF r
  <1>4. said \in Seq(Word) /\ Count(said, Asked) = Count(r.tokens, Questions)
    BY Zenon, <1>2, SaysCounts
  <1> HIDE DEF said
  <1>5. {i \in DOMAIN said : said[i] \in Asked} = {i \in DOMAIN said : said[i].kind = "param"}
    BY <1>4 DEF Asked
  <1>6. Params(said) = Count(said, Asked)
    BY Zenon, <1>5 DEF Params, Count
  <1>7. {i \in DOMAIN Scan(t) : Scan(t)[i] = "number"} = {i \in DOMAIN Scan(t) : Scan(t)[i] \in {"number"}}
    OBVIOUS
  <1>8. Numbers(Scan(t)) = Count(Scan(t), {"number"})
    BY Zenon, <1>7 DEF Numbers, Count
  <1>9. Count(Scan(t), {"number"}) \in 0 .. Len(t)
    <2>1. Scan(t) \in Seq(NewChar) /\ Len(Scan(t)) = Len(t) /\ "number" \in NewChar
      BY ScanType DEF NewChar
    <2> QED
      BY <2>1, CountAppended
  <1> QED
    BY Zenon, <1>1, <1>3, <1>4, <1>6, <1>8, <1>9

-----------------------------------------------------------------------------
(* What is left for PostgreSQL *)

NormalizeState ==
  [in : {"code", "quote", "tick", "double", "ended"}, skip : BOOLEAN, out : Seq(Char)]

LEMMA NormalizeCodeType ==
  ASSUME NEW s \in NormalizeState, NEW ch \in Char
  PROVE  NormalizeCode(s, ch) \in NormalizeState
  <1>1. Append(s.out, IF ch = "double" THEN "quote" ELSE ch) \in Seq(Char)
    BY DEF NormalizeState, Char
  <1> QED
    BY <1>1 DEF NormalizeState, NormalizeCode

\* The rewriting of "" leaves characters of a text.
LEMMA NormalizeCharType ==
  ASSUME NEW s \in NormalizeState, NEW ch \in Char
  PROVE  NormalizeChar(s, ch) \in NormalizeState
  <1>1. /\ s.in \in {"code", "quote", "tick", "double", "ended"} /\ s.skip \in BOOLEAN /\ s.out \in Seq(Char)
        /\ Append(s.out, ch) \in Seq(Char) /\ Append(s.out, "quote") \in Seq(Char)
    BY DEF NormalizeState, Char
  <1>2. CASE s.in = "code"
    BY <1>2, NormalizeCodeType DEF NormalizeChar
  <1>3. CASE s.in \in {"quote", "tick"}
    <2>1. NormalizeChar(s, ch) = NormalizeQuoted(s, ch)
      BY <1>3 DEF NormalizeChar
    <2> QED
      BY <1>1, <1>3, <2>1 DEF NormalizeQuoted, NormalizeState
  <1>4. CASE s.in = "double"
    <2>1. NormalizeChar(s, ch) = NormalizeDouble(s, ch)
      BY <1>4 DEF NormalizeChar
    <2>2. Doubled(ch) \in Seq(Char)
      <3>1. <<"quote", "quote">> \in Seq(Char) /\ <<ch>> \in Seq(Char)
        BY DEF Char
      <3> QED
        BY Zenon, <3>1 DEF Doubled
    <2>3. (IF ch \in {"quote", "double", "slash"} THEN <<>> ELSE <<"slash">>) \in Seq(Char)
      <3>1. <<"slash">> \in Seq(Char) /\ <<>> \in Seq(Char)
        BY DEF Char
      <3> QED
        BY Zenon, <3>1
    <2> DEFINE escaped == s.out \o (IF ch \in {"quote", "double", "slash"} THEN <<>> ELSE <<"slash">>) \o Doubled(ch)
               plain == s.out \o Doubled(ch)
    <2>4. escaped \in Seq(Char) /\ plain \in Seq(Char)
      BY <1>1, <2>2, <2>3
    <2>5. NormalizeDouble(s, ch) \in {[s EXCEPT !.skip = FALSE, !.out = escaped], [s EXCEPT !.skip = TRUE],
                                      [s EXCEPT !.in = "ended"], [s EXCEPT !.out = plain]}
      <3>1. CASE s.skip
        BY <3>1 DEF NormalizeDouble
      <3>2. CASE ~s.skip
        BY <3>2 DEF NormalizeDouble
      <3> QED
        BY <3>1, <3>2
    <2> HIDE DEF escaped, plain
    <2> QED
      BY <1>1, <1>4, <2>1, <2>4, <2>5 DEF NormalizeState
  <1>5. CASE s.in = "ended"
    <2>1. NormalizeChar(s, ch) = IF ch = "double" THEN [s EXCEPT !.in = "double", !.out = Append(s.out, ch)]
                                 ELSE NormalizeCode([s EXCEPT !.out = Append(s.out, "quote")], ch)
      BY <1>5 DEF NormalizeChar
    <2>2. [s EXCEPT !.out = Append(s.out, "quote")] \in NormalizeState
          /\ [s EXCEPT !.in = "double", !.out = Append(s.out, ch)] \in NormalizeState
      BY <1>1 DEF NormalizeState
    <2> QED
      BY <2>1, <2>2, NormalizeCodeType
  <1> QED
    BY <1>1, <1>2, <1>3, <1>4, <1>5

LEMMA CodeIsNormal == Code \in NormalizeState
  BY DEF Code, NormalizeState

Normalized(t) == FoldLeft(NormalizeChar, Code, t)

\* The rewriting of "", character by character.
LEMMA NormalizeInOrder ==
  ASSUME NEW t \in Seq(Char)
  PROVE  \E g \in [0 .. Len(t) -> NormalizeState] :
           /\ g[0] = Code
           /\ \A k \in 1 .. Len(t) : g[k] = NormalizeChar(g[k - 1], t[k])
           /\ Normalized(t) = g[Len(t)]
  <1> DEFINE F == [p \in NormalizeState \X Char |-> NormalizeChar(p[1], p[2])]
  <1>1. F \in [NormalizeState \X Char -> NormalizeState] /\ Code \in NormalizeState
    BY NormalizeCharType, CodeIsNormal
  <1>2. \A s \in NormalizeState, x \in Char : F[<<s, x>>] = NormalizeChar(s, x)
    OBVIOUS
  <1> HIDE DEF F
  <1>3. PICK e \in [SUBSET DOMAIN t -> NormalizeState] : Iterates(e, Code, F, t)
    BY Zenon, <1>1, FoldExists
  <1>4. e = [s \in SUBSET DOMAIN t |->
               IF s = {} THEN Code ELSE NormalizeChar(e[s \ {Max(s)}], t[Max(s)])]
    <2>1. ASSUME NEW s \in SUBSET DOMAIN t, s # {}
          PROVE  e[s] = NormalizeChar(e[s \ {Max(s)}], t[Max(s)])
      <3>1. e[s \ {Max(s)}] \in NormalizeState /\ t[Max(s)] \in Char
        BY <2>1, PositionOfMax
      <3> QED
        BY Zenon, <1>2, <1>3, <2>1, <3>1 DEF Iterates
    <2>2. e[{}] = Code
      BY Zenon, <1>3 DEF Iterates
    <2> QED
      BY <2>1, <2>2
  <1>5. PICK f : /\ f = [s \in SUBSET DOMAIN t |->
                          IF s = {} THEN Code ELSE NormalizeChar(f[s \ {Max(s)}], t[Max(s)])]
                 /\ Normalized(t) = f[DOMAIN t]
    BY Zenon, <1>4 DEF Normalized, FoldLeft, MapThenFoldSet
  <1>6. Unfolds(f, Code, F, t, NormalizeState)
    <2>1. ASSUME NEW s \in SUBSET DOMAIN t, s # {}, f[s \ {Max(s)}] \in NormalizeState
          PROVE  f[s] = F[<<f[s \ {Max(s)}], t[Max(s)]>>]
      <3>1. t[Max(s)] \in Char
        BY <2>1, PositionOfMax
      <3> QED
        BY Zenon, <1>2, <1>5, <2>1, <3>1
    <2>2. f[{}] = Code
      BY Zenon, <1>5
    <2> QED
      BY Zenon, <2>1, <2>2 DEF Unfolds
  <1>7. PICK g \in [0 .. Len(t) -> NormalizeState] : PrefixStates(g, Code, F, t, f[DOMAIN t])
    BY Zenon, <1>1, <1>6, IterationRuns
  <1>8. ASSUME NEW k \in 1 .. Len(t) PROVE g[k] = NormalizeChar(g[k - 1], t[k])
    <2>1. g[k - 1] \in NormalizeState /\ t[k] \in Char
      OBVIOUS
    <2> QED
      BY Zenon, <1>2, <1>7, <2>1 DEF PrefixStates
  <1> QED
    BY Zenon, <1>5, <1>7, <1>8 DEF PrefixStates

\* What the rewriting of "" leaves is a text.
LEMMA NormalizeType ==
  ASSUME NEW t \in Seq(Char)
  PROVE  Normalize(t) \in Seq(Char)
  <1>1. PICK g \in [0 .. Len(t) -> NormalizeState] : Normalized(t) = g[Len(t)]
    BY Zenon, NormalizeInOrder
  <1>2. Len(t) \in 0 .. Len(t)
    OBVIOUS
  <1> DEFINE s == Normalized(t)
  <1>3. s \in NormalizeState
    BY <1>1, <1>2
  <1>4. Normalize(t) = CASE s.in = "double" /\ s.skip -> s.out \o <<"slash", "quote">>
                         [] s.in \in {"double", "ended"} /\ ~s.skip -> Append(s.out, "quote")
                         [] OTHER -> s.out
    BY Zenon DEF Normalize, Normalized
  <1> HIDE DEF s
  <1>5. s.out \in Seq(Char) /\ s.out \o <<"slash", "quote">> \in Seq(Char) /\ Append(s.out, "quote") \in Seq(Char)
    BY <1>3 DEF NormalizeState, Char
  <1> QED
    BY <1>4, <1>5

\* A printed token is a text; so are the printed tokens, one after the other.
LEMMA PrintedType ==
  ASSUME NEW k \in Token
  PROVE  Printed(k) \in Seq(Char)
  <1> DEFINE escaped(i) == IF Lone(k.content, k.open, i) THEN <<k.open, k.open>> ELSE <<k.content[i]>>
             doubled == [i \in DOMAIN k.content |-> escaped(i)]
  <1>1. k.open \in Char /\ k.content \in Seq(Char)
    BY DEF Token
  <1>2. \A i \in DOMAIN k.content : k.content[i] \in Char => escaped(i) \in Seq(Char)
    BY <1>1
  <1>3. doubled \in Seq(Seq(Char))
    <2>1. Len(k.content) \in Nat /\ DOMAIN k.content = 1 .. Len(k.content)
          /\ \A i \in DOMAIN k.content : k.content[i] \in Char
      BY <1>1
    <2> HIDE DEF escaped
    <2>2. \A i \in 1 .. Len(k.content) : doubled[i] \in Seq(Char)
      BY <1>2, <2>1
    <2>3. doubled = [i \in 1 .. Len(k.content) |-> doubled[i]]
      BY Zenon, <2>1
    <2> HIDE DEF doubled
    <2> QED
      BY <2>1, <2>2, <2>3, IsASeq
  <1> HIDE DEF doubled
  <1>4. FlattenSeq(doubled) \in Seq(Char)
    BY Zenon, <1>3, FlattenType
  <1> DEFINE whole == <<k.open>> \o FlattenSeq(doubled) \o <<k.open, "newline">>
  <1>5. whole \in Seq(Char) /\ <<"newline">> \in Seq(Char) /\ <<k.open>> \in Seq(Char)
    BY <1>1, <1>4 DEF Char
  <1>6. CASE k.open = "hash"
    BY <1>5, <1>6 DEF Printed
  <1>7. CASE k.open \in {"quote", "double", "tick"}
    <2>1. Printed(k) = whole
      BY <1>7 DEF Printed, doubled
    <2> QED
      BY <1>5, <2>1
  <1>8. CASE k.open \notin {"hash", "quote", "double", "tick"}
    BY <1>5, <1>8 DEF Printed
  <1> QED
    BY <1>6, <1>7, <1>8

LEMMA PiecesType ==
  ASSUME NEW tokens \in Seq(Token)
  PROVE  /\ [i \in DOMAIN tokens |-> Printed(tokens[i])] \in Seq(Seq(Char))
         /\ Len([i \in DOMAIN tokens |-> Printed(tokens[i])]) = Len(tokens)
  <1> DEFINE pieces == [i \in DOMAIN tokens |-> Printed(tokens[i])]
  <1>1. Len(tokens) \in Nat /\ DOMAIN tokens = 1 .. Len(tokens) /\ \A i \in DOMAIN tokens : tokens[i] \in Token
    OBVIOUS
  <1>2. \A i \in 1 .. Len(tokens) : pieces[i] \in Seq(Char)
    BY <1>1, PrintedType
  <1>3. pieces = [i \in 1 .. Len(tokens) |-> pieces[i]]
    BY Zenon, <1>1
  <1> HIDE DEF pieces
  <1>4. pieces \in Seq(Seq(Char))
    BY <1>1, <1>2, <1>3, IsASeq
  <1>5. Len(pieces) = Len(tokens)
    BY <1>1, <1>3, <1>4
  <1> QED
    BY <1>4, <1>5 DEF pieces

LEMMA TranslatedType ==
  ASSUME NEW tokens \in Seq(Token)
  PROVE  TranslateText(tokens) \in Seq(Char)
  <1> DEFINE pieces == [i \in DOMAIN tokens |-> Printed(tokens[i])]
             flat == FlattenSeq(pieces)
  <1>1. pieces \in Seq(Seq(Char))
    BY Zenon, PiecesType
  <1>2. flat \in Seq(Char)
    <2> HIDE DEF pieces
    <2> QED
      BY Zenon, <1>1, FlattenType
  <1> HIDE DEF flat
  <1>3. ReplaceBackticks(flat) \in Seq(Char)
    <2>1. Len(flat) \in Nat /\ DOMAIN flat = 1 .. Len(flat) /\ \A i \in 1 .. Len(flat) : flat[i] \in Char
      BY <1>2
    <2>2. \A i \in 1 .. Len(flat) : (IF flat[i] = "tick" THEN "double" ELSE flat[i]) \in Char
      BY <2>1 DEF Char
    <2> QED
      BY <2>1, <2>2, IsASeq DEF ReplaceBackticks
  <1> QED
    BY <1>3 DEF TranslateText, flat

\* What is kept for PostgreSQL is a text with numbered parameters.
LEMMA SentType ==
  ASSUME NEW t \in Seq(Char)
  PROVE  Scan(TranslateText(ReadText(MySqlRules, Normalize(t)).tokens)) \in Seq(NewChar)
  <1>1. ReadText(MySqlRules, Normalize(t)) \in ReadState
    BY NormalizeType, ScanCounts
  <1>2. ReadText(MySqlRules, Normalize(t)).tokens \in Seq(Token)
    BY <1>1 DEF ReadState
  <1>3. TranslateText(ReadText(MySqlRules, Normalize(t)).tokens) \in Seq(Char)
    BY Zenon, <1>2, TranslatedType
  <1> QED
    BY Zenon, <1>3, ScanType

-----------------------------------------------------------------------------
(* What a character does to each part of a reading *)

Literals == {"quote", "double"}

\* Tokens of which the last one quotes one character more, and a token just begun.
Fuller(tokens, ch) ==
  [tokens EXCEPT ![Len(tokens)] = [open |-> tokens[Len(tokens)].open,
                                   content |-> Append(tokens[Len(tokens)].content, ch)]]
Begun(ch) == [open |-> ch, content |-> <<>>]

\* A character in a quotation fills the last token and changes no other.
LEMMA FullerType ==
  ASSUME NEW tokens \in Seq(Token), tokens # <<>>, NEW ch \in Char
  PROVE  /\ Fuller(tokens, ch) \in Seq(Token) /\ Fuller(tokens, ch) # <<>>
         /\ Len(Fuller(tokens, ch)) = Len(tokens) /\ Len(tokens) \in 1 .. Len(tokens)
         /\ Fuller(tokens, ch)[Len(tokens)]
              = [open |-> tokens[Len(tokens)].open, content |-> Append(tokens[Len(tokens)].content, ch)]
         /\ \A i \in 1 .. Len(tokens) : i # Len(tokens) => Fuller(tokens, ch)[i] = tokens[i]
  <1> DEFINE n == Len(tokens)
             fuller == [open |-> tokens[n].open, content |-> Append(tokens[n].content, ch)]
  <1>1. n \in 1 .. n /\ tokens[n] \in Token /\ DOMAIN tokens = 1 .. n /\ n \in Nat
    OBVIOUS
  <1>2. fuller \in Token
    <2>1. Append(tokens[n].content, ch) \in Seq(Char)
      BY <1>1 DEF Token
    <2> HIDE DEF n
    <2> QED
      BY <1>1, <2>1 DEF Token
  <1>3. Fuller(tokens, ch) = [tokens EXCEPT ![n] = fuller]
    BY Zenon DEF Fuller
  <1> HIDE DEF fuller
  <1>4. Fuller(tokens, ch) \in Seq(Token) /\ Len(Fuller(tokens, ch)) = n
    BY <1>1, <1>2, <1>3
  <1>5. Fuller(tokens, ch)[n] = fuller /\ \A i \in 1 .. n : i # n => Fuller(tokens, ch)[i] = tokens[i]
    BY <1>1, <1>3
  <1>6. Fuller(tokens, ch) # <<>>
    BY <1>1, <1>4
  <1> QED
    BY <1>1, <1>4, <1>5, <1>6 DEF fuller

\* What a character in a quotation does to each part of a reading.
LEMMA QuotesIs ==
  ASSUME NEW s \in ReadState, NEW ch \in Char, s.tokens # <<>>
  PROVE  /\ Quotes(s, ch).in = s.in /\ Quotes(s, ch).skip = s.skip /\ Quotes(s, ch).closed = s.closed
         /\ Quotes(s, ch).tokens = Fuller(s.tokens, ch)
         /\ DOMAIN Quotes(s, ch) = {"in", "skip", "closed", "tokens"}
  <1> DEFINE n == Len(s.tokens)
             latest == s.tokens[n]
             f == [latest EXCEPT !.content = Append(latest.content, ch)]
             ts == [s.tokens EXCEPT ![n] = f]
  <1>1. s.tokens \in Seq(Token) /\ n \in 1 .. n /\ n \in DOMAIN s.tokens
    BY DEF ReadState
  <1>2. latest \in Token
    <2> HIDE DEF n
    <2> QED
      BY <1>1
  <1>3. f = [open |-> latest.open, content |-> Append(latest.content, ch)]
    <2> HIDE DEF latest
    <2> QED
      BY <1>2 DEF Token
  <1>4. Quotes(s, ch) = [s EXCEPT !.tokens = ts]
    BY Zenon DEF Quotes
  <1>5. Fuller(s.tokens, ch) = ts
    BY Zenon, <1>3 DEF Fuller
  <1> HIDE DEF ts
  <1> QED
    BY <1>4, <1>5 DEF ReadState

\* What MySQL's reading makes of each part of a state.
ReadParts(next, in, skip, closed, tokens) ==
  next.in = in /\ next.skip = skip /\ next.closed = closed /\ next.tokens = tokens

\* What a character does to each part of a reading, case by case.
LEMMA ReadsAs ==
  ASSUME NEW s \in ReadState, NEW ch \in Char, NEW next, next = ReadChar(MySqlRules, s, ch)
  PROVE  /\ next \in ReadState
         /\ s.in = "code" /\ ch = s.closed =>
              ReadParts(next, ch, s.skip, s.closed, Fuller(s.tokens, ch)) /\ s.tokens # <<>>
         /\ s.in = "code" /\ ch # s.closed /\ ch \in DOMAIN Closer =>
              ReadParts(next, ch, s.skip, "none", Append(s.tokens, Begun(ch)))
         /\ s.in = "code" /\ ch # s.closed /\ ch \notin DOMAIN Closer =>
              ReadParts(next, "code", s.skip, "none", Append(s.tokens, Begun(ch)))
         /\ s.in # "code" => s.tokens # <<>>
         /\ s.in # "code" /\ s.skip => ReadParts(next, s.in, FALSE, s.closed, Fuller(s.tokens, ch))
         /\ s.in \in Literals /\ ~s.skip /\ ch = "slash" => ReadParts(next, s.in, TRUE, s.closed, s.tokens)
         /\ s.in # "code" /\ ~s.skip /\ ch = Closer[s.in] /\ s.in # "hash" =>
              ReadParts(next, "code", FALSE, ch, s.tokens)
         /\ s.in = "hash" /\ ~s.skip /\ ch = "newline" => ReadParts(next, "code", FALSE, "none", s.tokens)
         /\ /\ s.in # "code" /\ ~s.skip /\ ch # Closer[s.in]
            /\ s.in \notin Literals \/ ch # "slash"
            => ReadParts(next, s.in, FALSE, s.closed, Fuller(s.tokens, ch))
  <1>1. next \in ReadState
    BY Zenon, ReadingType
  <1>2. /\ s.in \in DOMAIN Closer \cup {"code"} /\ s.skip \in BOOLEAN
        /\ s.closed \in {"none", "quote", "double", "tick"}
    BY DEF ReadState
  <1>3. s.in # "code" \/ ch = s.closed => s.tokens # <<>>
    BY DEF ReadState, Char
  <1>4. CASE s.in = "code" /\ ch = s.closed
    <2>1. next = [Quotes(s, ch) EXCEPT !.in = ch]
      BY Zenon, <1>4, ReadCases
    <2> QED
      BY <1>1, <1>2, <1>3, <1>4, <2>1, QuotesIs DEF ReadParts
  <1>5. CASE s.in = "code" /\ ch # s.closed
    <2>1. next = [s EXCEPT !.in = IF ch \in DOMAIN Closer THEN ch ELSE "code",
                           !.closed = "none",
                           !.tokens = Append(s.tokens, [open |-> ch, content |-> <<>>])]
      BY Zenon, <1>5, ReadCases
    <2>2. /\ next.in = (IF ch \in DOMAIN Closer THEN ch ELSE "code") /\ next.skip = s.skip
          /\ next.closed = "none" /\ next.tokens = Append(s.tokens, Begun(ch))
      BY <2>1 DEF Begun, ReadState
    <2>3. CASE ch \in DOMAIN Closer
      <3>1. ReadParts(next, ch, s.skip, "none", Append(s.tokens, Begun(ch)))
        BY Zenon, <2>2, <2>3 DEF ReadParts
      <3> QED
        BY <1>1, <1>5, <2>3, <3>1 DEF Literals
    <2>4. CASE ch \notin DOMAIN Closer
      <3>1. ReadParts(next, "code", s.skip, "none", Append(s.tokens, Begun(ch)))
        BY Zenon, <2>2, <2>4 DEF ReadParts
      <3> QED
        BY <1>1, <1>5, <2>4, <3>1 DEF Literals
    <2> QED
      BY Zenon, <2>3, <2>4
  <1>6. CASE s.in # "code" /\ s.skip
    <2>1. next = [Quotes(s, ch) EXCEPT !.skip = FALSE]
      BY Zenon, <1>6, ReadCases
    <2> QED
      BY <1>1, <1>2, <1>3, <1>6, <2>1, QuotesIs DEF ReadParts
  <1>7. CASE s.in \in Literals /\ ~s.skip /\ ch = "slash"
    <2>1. next = [s EXCEPT !.skip = TRUE]
      BY Zenon, <1>7, ReadCases DEF Literals
    <2>2. Closer[s.in] # "slash" /\ s.in # "code" /\ s.in # "hash"
      BY <1>7, Closers DEF Literals
    <2> QED
      BY <1>1, <1>2, <1>3, <1>7, <2>1, <2>2 DEF ReadParts, ReadState
  <1>8. CASE s.in # "code" /\ ~s.skip /\ ch = Closer[s.in]
    <2>1. next = [s EXCEPT !.in = "code", !.closed = IF s.in = "hash" THEN "none" ELSE ch]
      BY Zenon, <1>8, ReadCases
    <2>2. ch # "slash" /\ (s.in = "hash" => ch = "newline")
      BY <1>2, <1>8, Closers
    <2> QED
      BY <1>1, <1>2, <1>3, <1>8, <2>1, <2>2 DEF ReadParts, ReadState
  <1>9. CASE /\ s.in # "code" /\ ~s.skip /\ ch # Closer[s.in]
             /\ s.in \notin Literals \/ ch # "slash"
    <2>1. next = Quotes(s, ch)
      BY Zenon, <1>9, ReadCases DEF Literals
    <2>2. s.in = "hash" => ch # "newline"
      BY <1>9, Closers
    <2>3. ReadParts(next, s.in, FALSE, s.closed, Fuller(s.tokens, ch))
      BY <1>2, <1>3, <1>9, <2>1, QuotesIs DEF ReadParts
    <2> QED
      BY <1>1, <1>2, <1>3, <1>9, <2>2, <2>3
  <1> QED
    BY <1>2, <1>4, <1>5, <1>6, <1>7, <1>8, <1>9 DEF Literals

\* A quotation, or one just closed, is of the last token's kind.
OfLast(s) ==
  /\ s.in # "code" => s.tokens[Len(s.tokens)].open = s.in
  /\ s.in = "code" /\ s.closed # "none" => s.tokens[Len(s.tokens)].open = s.closed

\* A quotation stays of the last token's kind.
LEMMA StaysOfLast ==
  ASSUME NEW s \in ReadState, NEW ch \in Char, OfLast(s)
  PROVE  OfLast(ReadChar(MySqlRules, s, ch))
  <1> DEFINE next == ReadChar(MySqlRules, s, ch)
             n == Len(s.tokens)
  <1> HIDE DEF next
  <1>1. /\ s.in \in DOMAIN Closer \cup {"code"} /\ s.skip \in BOOLEAN /\ s.tokens \in Seq(Token)
        /\ s.closed \in {"none", "quote", "double", "tick"}
    BY DEF ReadState
  <1>2. s.tokens # <<>> => Len(Fuller(s.tokens, ch)) = n /\ Fuller(s.tokens, ch)[n].open = s.tokens[n].open
    <2> SUFFICES ASSUME s.tokens # <<>>
                 PROVE  Len(Fuller(s.tokens, ch)) = n /\ Fuller(s.tokens, ch)[n].open = s.tokens[n].open
      OBVIOUS
    <2>1. /\ Len(Fuller(s.tokens, ch)) = n
          /\ Fuller(s.tokens, ch)[n]
               = [open |-> s.tokens[n].open, content |-> Append(s.tokens[n].content, ch)]
      BY Zenon, <1>1, FullerType
    <2> HIDE DEF n
    <2> QED
      BY <2>1
  <1>3. Append(s.tokens, Begun(ch))[Len(Append(s.tokens, Begun(ch)))].open = ch
    BY <1>1 DEF Begun
  <1> HIDE DEF n
  <1>4. CASE s.in = "code" /\ ch = s.closed
    <2>1. ReadParts(next, ch, s.skip, s.closed, Fuller(s.tokens, ch)) /\ s.tokens # <<>> /\ ch \in DOMAIN Closer
      BY <1>1, <1>4, ReadsAs, Closers DEF next, Char
    <2> QED
      BY <1>2, <1>4, <2>1, Closers DEF OfLast, ReadParts, next, n, Char
  <1>5. CASE s.in = "code" /\ ch # s.closed
    <2>1. ReadParts(next, IF ch \in DOMAIN Closer THEN ch ELSE "code", s.skip, "none", Append(s.tokens, Begun(ch)))
      <3>1. CASE ch \in DOMAIN Closer
        BY Zenon, <1>5, <3>1, ReadsAs DEF next
      <3>2. CASE ch \notin DOMAIN Closer
        BY Zenon, <1>5, <3>2, ReadsAs DEF next
      <3> QED
        BY <3>1, <3>2
    <2>2. next.tokens[Len(next.tokens)].open = ch /\ next.closed = "none"
          /\ next.in = (IF ch \in DOMAIN Closer THEN ch ELSE "code")
      BY Zenon, <1>3, <2>1 DEF ReadParts
    <2> QED
      BY <2>2 DEF OfLast, next
  <1>6. CASE s.in # "code" /\ s.skip
    <2>1. ReadParts(next, s.in, FALSE, s.closed, Fuller(s.tokens, ch)) /\ s.tokens # <<>>
      BY Zenon, <1>6, ReadsAs DEF next
    <2> QED
      BY <1>2, <1>6, <2>1 DEF OfLast, ReadParts, next, n
  <1>7. CASE s.in \in Literals /\ ~s.skip /\ ch = "slash"
    <2>1. ReadParts(next, s.in, TRUE, s.closed, s.tokens)
      BY Zenon, <1>7, ReadsAs DEF next
    <2> QED
      BY <1>7, <2>1 DEF OfLast, ReadParts, next, Literals
  <1>8. CASE s.in # "code" /\ ~s.skip /\ ch = Closer[s.in] /\ s.in # "hash"
    <2>1. ReadParts(next, "code", FALSE, ch, s.tokens) /\ Closer[s.in] = s.in
      BY <1>1, <1>8, ReadsAs, Closers DEF next
    <2> QED
      BY <1>8, <2>1 DEF OfLast, ReadParts, next
  <1>9. CASE s.in # "code" /\ ~s.skip /\ ch = Closer[s.in] /\ s.in = "hash"
    <2>1. ReadParts(next, "code", FALSE, "none", s.tokens)
      BY <1>9, ReadsAs, Closers DEF next
    <2> QED
      BY <2>1 DEF OfLast, ReadParts, next
  <1>10. CASE s.in # "code" /\ ~s.skip /\ ch # Closer[s.in] /\ (s.in \notin Literals \/ ch # "slash")
    <2>1. ReadParts(next, s.in, FALSE, s.closed, Fuller(s.tokens, ch)) /\ s.tokens # <<>>
      BY Zenon, <1>10, ReadsAs DEF next
    <2> QED
      BY <1>2, <1>10, <2>1 DEF OfLast, ReadParts, next, n
  <1> QED
    BY <1>1, <1>4, <1>5, <1>6, <1>7, <1>8, <1>9, <1>10 DEF next

\* What the scan has made of a text.
Scanner == [p \in ScanState \X Char |-> ScanNext(p[1], p[2])]

IsScanned(t, s) == t \in Seq(Char) /\ s \in ScanState /\ Leads(Scanner, ScanState, Code, t, s)

\* What the scan has made of nothing, and of one character more.
LEMMA ScannedNothing == IsScanned(<<>>, Code)
  <1>1. <<>> \in Seq(Char)
    OBVIOUS
  <1> QED
    BY Zenon, <1>1, CodeIsState, LeadsNowhere DEF IsScanned

LEMMA ScannedOn ==
  ASSUME NEW t, NEW s, IsScanned(t, s), NEW ch \in Char
  PROVE  IsScanned(Append(t, ch), ScanNext(s, ch))
  <1>1. Scanner \in [ScanState \X Char -> ScanState] /\ t \in Seq(Char) /\ s \in ScanState
    BY ScanNextType DEF Scanner, IsScanned
  <1>2. Scanner[<<s, ch>>] = ScanNext(s, ch)
    BY <1>1 DEF Scanner
  <1>3. Leads(Scanner, ScanState, Code, t, s)
    BY Zenon DEF IsScanned
  <1>4. Append(t, ch) \in Seq(Char)
    BY <1>1
  <1>5. Leads(Scanner, ScanState, Code, Append(t, ch), Scanner[<<s, ch>>]) /\ Scanner[<<s, ch>>] \in ScanState
    BY Zenon, <1>1, <1>3, LeadsOn
  <1> QED
    BY Zenon, <1>2, <1>4, <1>5 DEF IsScanned

\* The scan of a whole text is what the scan has made of it.
LEMMA ScannedAll ==
  ASSUME NEW t, NEW s, IsScanned(t, s)
  PROVE  Scan(t) = s.out
  <1>1. t \in Seq(Char) /\ Leads(Scanner, ScanState, Code, t, s)
    BY Zenon DEF IsScanned
  <1>2. PICK g \in [0 .. Len(t) -> ScanState] :
           /\ g[0] = Code
           /\ \A k \in 1 .. Len(t) : g[k] = ScanNext(g[k - 1], t[k])
           /\ Scan(t) = g[Len(t)].out
    BY Zenon, <1>1, ScanInOrder
  <1>3. PrefixStates(g, Code, Scanner, t, g[Len(t)])
    <2>1. ASSUME NEW k \in 1 .. Len(t) PROVE g[k] = Scanner[<<g[k - 1], t[k]>>]
      <3>1. g[k - 1] \in ScanState /\ t[k] \in Char
        BY <1>1
      <3>2. Scanner[<<g[k - 1], t[k]>>] = ScanNext(g[k - 1], t[k])
        BY <3>1 DEF Scanner
      <3> QED
        BY Zenon, <1>2, <3>2
    <2> QED
      BY Zenon, <1>2, <2>1 DEF PrefixStates
  <1>4. Leads(Scanner, ScanState, Code, t, g[Len(t)])
    BY Zenon, <1>3 DEF Leads
  <1>5. s = g[Len(t)]
    BY Zenon, <1>1, <1>4, LeadsOnce
  <1> QED
    BY Zenon, <1>2, <1>5

-----------------------------------------------------------------------------
(* Plain texts *)

\* The marks that a token of a plain text does not hold.
Loud(open) ==
  {ch \in {"slash", "tick"} : open \in Literals}
    \cup {ch \in {"slash", "tick", "double"} : open = "tick"}
    \cup {ch \in {"quote", "double", "tick"} : open = "hash"}

CalmToken(k) == k.open # "slash" /\ \A j \in DOMAIN k.content : k.content[j] \notin Loud(k.open)

\* No literal holds two ' side by side.
Spaced(tokens) == \A i \in DOMAIN tokens : tokens[i].open \in Literals => Apart(tokens[i].content)

Calm(tokens) ==
  \A i \in DOMAIN tokens :
    /\ CalmToken(tokens[i])
    /\ tokens[i].open \in Literals /\ i > 1 => tokens[i - 1].open \notin Literals

\* The tokens of a plain text hold none of the marks they may not hold.
LEMMA PlainIsCalm ==
  ASSUME NEW t \in Seq(Char), PlainText(t)
  PROVE  /\ Calm(ReadText(MySqlRules, t).tokens) /\ Spaced(ReadText(MySqlRules, t).tokens)
         /\ Readable(ReadText(MySqlRules, t))
  <1> DEFINE r == ReadText(MySqlRules, t)
  <1> HIDE DEF r
  <1>1. r \in ReadState /\ r.tokens \in Seq(Token)
    BY ScanCounts DEF r, ReadState
  <1>2. /\ Readable(r)
        /\ \A i \in DOMAIN r.tokens :
           /\ r.tokens[i].open \in {"quote", "double"} =>
                (~\E ch \in {"slash", "tick"} : Contains(r.tokens[i].content, ch)) /\ Apart(r.tokens[i].content)
           /\ r.tokens[i].open = "tick" => ~\E ch \in {"slash", "tick", "double"} : Contains(r.tokens[i].content, ch)
           /\ r.tokens[i].open = "hash" => ~\E ch \in {"quote", "double", "tick"} : Contains(r.tokens[i].content, ch)
           /\ r.tokens[i].open \in {"quote", "double"} /\ i > 1 => ~(r.tokens[i - 1].open \in {"quote", "double"})
    BY Zenon DEF PlainText, r
  <1>3. ASSUME NEW i \in DOMAIN r.tokens
        PROVE  /\ CalmToken(r.tokens[i])
               /\ r.tokens[i].open \in Literals /\ i > 1 => r.tokens[i - 1].open \notin Literals
    <2>1. r.tokens[i] \in Token
      BY <1>1
    <2>2. r.tokens[i].open # "slash"
      BY <1>2 DEF Readable
    <2>3. ASSUME NEW j \in DOMAIN r.tokens[i].content, NEW ch, ch = r.tokens[i].content[j]
          PROVE  Contains(r.tokens[i].content, ch)
      <3>1. j \in 1 .. Len(r.tokens[i].content)
        BY <2>1 DEF Token
      <3> QED
        BY <2>3, <3>1 DEF Contains
    <2>4. ASSUME NEW j \in DOMAIN r.tokens[i].content, r.tokens[i].content[j] \in Loud(r.tokens[i].open)
          PROVE  FALSE
      <3> DEFINE ch == r.tokens[i].content[j]
      <3>1. Contains(r.tokens[i].content, ch)
        BY Zenon, <2>3
      <3> HIDE DEF ch
      <3>2. ch \in Loud(r.tokens[i].open)
        BY <2>4 DEF ch
      <3> QED
        BY <1>2, <3>1, <3>2 DEF Loud, Literals
    <2> QED
      BY <1>2, <2>2, <2>4 DEF CalmToken, Literals
  <1>4. Spaced(r.tokens)
    BY Zenon, <1>2 DEF Spaced, Literals
  <1> QED
    BY <1>2, <1>3, <1>4 DEF Calm, r

\* What is calm was calm before a token was begun or filled; what calm tells of the
\* character that did it.
LEMMA CalmAppended ==
  ASSUME NEW tokens \in Seq(Token), NEW ch \in Char, Calm(Append(tokens, Begun(ch)))
  PROVE  /\ Calm(tokens) /\ ch # "slash"
         /\ ch \in Literals /\ tokens # <<>> => tokens[Len(tokens)].open \notin Literals
  <1> DEFINE n == Len(tokens)
             more == Append(tokens, Begun(ch))
  <1>1. /\ n \in Nat /\ DOMAIN tokens = 1 .. n /\ DOMAIN more = 1 .. (n + 1) /\ more[n + 1] = Begun(ch)
        /\ \A i \in 1 .. n : more[i] = tokens[i]
        /\ tokens # <<>> => n \in 1 .. n /\ n + 1 > 1 /\ (n + 1) - 1 = n
        /\ n + 1 \in 1 .. (n + 1)
    BY DEF Begun
  <1>2. Begun(ch).open = ch
    BY DEF Begun
  <1> HIDE DEF n, more
  <1>3. Calm(more)
    BY DEF more
  <1>4. Calm(tokens)
    <2> SUFFICES ASSUME NEW i \in 1 .. n
                 PROVE  /\ CalmToken(tokens[i])
                        /\ tokens[i].open \in Literals /\ i > 1 => tokens[i - 1].open \notin Literals
      BY Zenon, <1>1 DEF Calm
    <2>1. i \in 1 .. (n + 1) /\ (i > 1 => i - 1 \in 1 .. n)
      BY <1>1
    <2> QED
      BY Zenon, <1>1, <1>3, <2>1 DEF Calm
  <1>5. CalmToken(Begun(ch)) /\ (ch \in Literals /\ n + 1 > 1 => more[(n + 1) - 1].open \notin Literals)
    BY Zenon, <1>1, <1>2, <1>3 DEF Calm
  <1>6. ch # "slash"
    BY Zenon, <1>2, <1>5 DEF CalmToken
  <1> QED
    BY Zenon, <1>1, <1>4, <1>5, <1>6 DEF n

LEMMA CalmFilled ==
  ASSUME NEW tokens \in Seq(Token), tokens # <<>>, NEW ch \in Char, Calm(Fuller(tokens, ch))
  PROVE  Calm(tokens) /\ ch \notin Loud(tokens[Len(tokens)].open)
  <1> DEFINE n == Len(tokens)
             fuller == Fuller(tokens, ch)
             latest == tokens[n]
  <1>1. /\ n \in Nat /\ DOMAIN tokens = 1 .. n /\ n \in 1 .. n /\ latest \in Token
    OBVIOUS
  <1>2. /\ fuller \in Seq(Token) /\ Len(fuller) = n
        /\ fuller[n] = [open |-> latest.open, content |-> Append(latest.content, ch)]
        /\ \A i \in 1 .. n : i # n => fuller[i] = tokens[i]
    BY FullerType
  <1> HIDE DEF n, latest
  <1>3. /\ fuller[n].open = latest.open /\ fuller[n].content = Append(latest.content, ch)
        /\ DOMAIN fuller = 1 .. n
    BY <1>2
  <1> HIDE DEF fuller
  <1>4. /\ Len(latest.content) + 1 \in DOMAIN Append(latest.content, ch)
        /\ Append(latest.content, ch)[Len(latest.content) + 1] = ch
        /\ \A j \in DOMAIN latest.content : j \in DOMAIN Append(latest.content, ch)
                                            /\ Append(latest.content, ch)[j] = latest.content[j]
    BY <1>1 DEF Token
  <1>5. Calm(fuller)
    BY DEF fuller
  <1>6. CalmToken(fuller[n])
    BY Zenon, <1>1, <1>3, <1>5 DEF Calm
  <1>7. CalmToken(latest) /\ ch \notin Loud(latest.open)
    BY Zenon, <1>3, <1>4, <1>6 DEF CalmToken
  <1>8. \A i \in 1 .. n : fuller[i].open = tokens[i].open
    BY Zenon, <1>2, <1>3 DEF latest
  <1>9. Calm(tokens)
    <2> SUFFICES ASSUME NEW i \in 1 .. n
                 PROVE  /\ CalmToken(tokens[i])
                        /\ tokens[i].open \in Literals /\ i > 1 => tokens[i - 1].open \notin Literals
      BY Zenon, <1>1 DEF Calm
    <2>1. CalmToken(tokens[i])
      BY Zenon, <1>2, <1>3, <1>5, <1>7 DEF Calm, latest
    <2>2. i > 1 => i - 1 \in 1 .. n
      BY <1>1
    <2> QED
      BY Zenon, <1>3, <1>5, <1>8, <2>1, <2>2 DEF Calm
  <1> QED
    BY Zenon, <1>7, <1>9 DEF latest, n

\* Every beginning of a plain text is calm as the whole is.
LEMMA CalmBefore ==
  ASSUME NEW s \in ReadState, NEW ch \in Char, Calm(ReadChar(MySqlRules, s, ch).tokens)
  PROVE  Calm(s.tokens)
  <1> DEFINE next == ReadChar(MySqlRules, s, ch)
  <1>1. /\ s.in \in DOMAIN Closer \cup {"code"} /\ s.skip \in BOOLEAN /\ s.tokens \in Seq(Token)
    BY DEF ReadState
  <1> HIDE DEF next
  <1>2. next.tokens \in {s.tokens, Append(s.tokens, Begun(ch))} \/ (next.tokens = Fuller(s.tokens, ch) /\ s.tokens # <<>>)
    <2>1. CASE s.in = "code" /\ ch = s.closed
      <3>1. ReadParts(next, ch, s.skip, s.closed, Fuller(s.tokens, ch)) /\ s.tokens # <<>>
        BY Zenon, <2>1, ReadsAs DEF next
      <3> QED
        BY Zenon, <3>1 DEF ReadParts
    <2>2. CASE s.in = "code" /\ ch # s.closed
      <3>1. next.tokens = Append(s.tokens, Begun(ch))
        <4>1. CASE ch \in DOMAIN Closer
          <5>1. ReadParts(next, ch, s.skip, "none", Append(s.tokens, Begun(ch)))
            BY Zenon, <2>2, <4>1, ReadsAs DEF next
          <5> QED
            BY Zenon, <5>1 DEF ReadParts
        <4>2. CASE ch \notin DOMAIN Closer
          <5>1. ReadParts(next, "code", s.skip, "none", Append(s.tokens, Begun(ch)))
            BY Zenon, <2>2, <4>2, ReadsAs DEF next
          <5> QED
            BY Zenon, <5>1 DEF ReadParts
        <4> QED
          BY <4>1, <4>2
      <3> QED
        BY <3>1
    <2>3. CASE s.in # "code" /\ s.skip
      <3>1. ReadParts(next, s.in, FALSE, s.closed, Fuller(s.tokens, ch)) /\ s.tokens # <<>>
        BY Zenon, <2>3, ReadsAs DEF next
      <3> QED
        BY Zenon, <3>1 DEF ReadParts
    <2>4. CASE s.in \in Literals /\ ~s.skip /\ ch = "slash"
      <3>1. ReadParts(next, s.in, TRUE, s.closed, s.tokens)
        BY Zenon, <2>4, ReadsAs DEF next
      <3> QED
        BY <3>1 DEF ReadParts
    <2>5. CASE s.in # "code" /\ ~s.skip /\ ch = Closer[s.in]
      <3>1. CASE s.in = "hash"
        <4>1. ch = "newline"
          BY <2>5, <3>1, Closers
        <4>2. ReadParts(next, "code", FALSE, "none", s.tokens)
          BY Zenon, <2>5, <3>1, <4>1, ReadsAs DEF next
        <4> QED
          BY <4>2 DEF ReadParts
      <3>2. CASE s.in # "hash"
        <4>1. ReadParts(next, "code", FALSE, ch, s.tokens)
          BY Zenon, <2>5, <3>2, ReadsAs DEF next
        <4> QED
          BY <4>1 DEF ReadParts
      <3> QED
        BY <3>1, <3>2
    <2>6. CASE s.in # "code" /\ ~s.skip /\ ch # Closer[s.in] /\ (s.in \notin Literals \/ ch # "slash")
      <3>1. ReadParts(next, s.in, FALSE, s.closed, Fuller(s.tokens, ch)) /\ s.tokens # <<>>
        BY Zenon, <2>6, ReadsAs DEF next
      <3> QED
        BY Zenon, <3>1 DEF ReadParts
    <2> QED
      BY Zenon, <1>1, <2>1, <2>2, <2>3, <2>4, <2>5, <2>6
  <1>3. Calm(next.tokens)
    BY DEF next
  <1> QED
    BY <1>1, <1>2, <1>3, CalmAppended, CalmFilled

\* The mark that is left for one.
Mark(open) == IF open = "double" THEN "quote" ELSE open
Straightened(k) == [open |-> Mark(k.open), content |-> k.content]
Straight(tokens) == [i \in DOMAIN tokens |-> Straightened(tokens[i])]

\* Straightened tokens are tokens, and as many.
LEMMA StraightType ==
  ASSUME NEW tokens \in Seq(Token)
  PROVE  /\ Straight(tokens) \in Seq(Token) /\ Len(Straight(tokens)) = Len(tokens)
         /\ DOMAIN Straight(tokens) = DOMAIN tokens
         /\ \A i \in DOMAIN tokens : Straight(tokens)[i] = Straightened(tokens[i]) /\ Straightened(tokens[i]) \in Token
  <1>1. \A k \in Token : Straightened(k) \in Token
    BY DEF Straightened, Mark, Token, Char
  <1>2. Len(tokens) \in Nat /\ DOMAIN tokens = 1 .. Len(tokens) /\ \A i \in DOMAIN tokens : tokens[i] \in Token
    OBVIOUS
  <1>3. Straight(tokens) = [i \in 1 .. Len(tokens) |-> Straightened(tokens[i])]
    BY Zenon, <1>2 DEF Straight
  <1>4. \A i \in 1 .. Len(tokens) : Straightened(tokens[i]) \in Token
    BY Zenon, <1>1, <1>2
  <1> QED
    BY <1>2, <1>3, <1>4, IsASeq

\* To straighten tokens and to begin or fill one of them commute.
LEMMA StraightAppended ==
  ASSUME NEW tokens \in Seq(Token), NEW ch \in Char
  PROVE  Straight(Append(tokens, Begun(ch))) = Append(Straight(tokens), Begun(Mark(ch)))
  <1> DEFINE more == Append(tokens, Begun(ch))
             n == Len(tokens)
  <1>1. Begun(ch) \in Token /\ Straightened(Begun(ch)) = Begun(Mark(ch))
    BY DEF Begun, Straightened, Token, Mark
  <1>2. /\ n \in Nat /\ more \in Seq(Token) /\ Len(more) = n + 1 /\ more[n + 1] = Begun(ch)
        /\ \A i \in 1 .. n : more[i] = tokens[i]
        /\ DOMAIN tokens = 1 .. n /\ DOMAIN more = 1 .. (n + 1)
    BY <1>1
  <1> DEFINE a == Straight(more)
             b == Append(Straight(tokens), Begun(Mark(ch)))
  <1> HIDE DEF more
  <1>3. a \in Seq(Token) /\ Len(a) = n + 1 /\ \A i \in 1 .. (n + 1) : a[i] = Straightened(more[i])
    BY Zenon, <1>2, StraightType
  <1>4. Straight(tokens) \in Seq(Token) /\ Len(Straight(tokens)) = n
        /\ \A i \in 1 .. n : Straight(tokens)[i] = Straightened(tokens[i])
    BY Zenon, <1>2, StraightType
  <1>5. b \in Seq(Token) /\ Len(b) = n + 1 /\ b[n + 1] = Begun(Mark(ch)) /\ \A i \in 1 .. n : b[i] = Straightened(tokens[i])
    <2>1. Begun(Mark(ch)) \in Token
      BY DEF Begun, Mark, Token, Char
    <2> HIDE DEF n
    <2> QED
      BY <1>2, <1>4, <2>1
  <1> HIDE DEF a, b, n
  <1>6. \A i \in 1 .. (n + 1) : a[i] = b[i]
    BY <1>1, <1>2, <1>3, <1>5
  <1>7. a = b
    BY <1>2, <1>3, <1>5, <1>6
  <1> QED
    BY <1>7 DEF a, b, more

LEMMA StraightFilled ==
  ASSUME NEW tokens \in Seq(Token), tokens # <<>>, NEW ch \in Char
  PROVE  Straight(Fuller(tokens, ch)) = Fuller(Straight(tokens), ch) /\ Straight(tokens) # <<>>
  <1> DEFINE fuller == Fuller(tokens, ch)
             straight == Straight(tokens)
             n == Len(tokens)
             a == Straight(fuller)
             b == Fuller(straight, ch)
  <1>1. n \in Nat /\ n \in 1 .. n /\ DOMAIN tokens = 1 .. n /\ n # 0
    OBVIOUS
  <1>2. /\ fuller \in Seq(Token) /\ Len(fuller) = n
        /\ fuller[n] = [open |-> tokens[n].open, content |-> Append(tokens[n].content, ch)]
        /\ \A i \in 1 .. n : i # n => fuller[i] = tokens[i]
    BY FullerType
  <1> HIDE DEF fuller
  <1>3. /\ straight \in Seq(Token) /\ Len(straight) = n
        /\ \A i \in 1 .. n : straight[i] = Straightened(tokens[i])
    BY Zenon, <1>1, StraightType
  <1> HIDE DEF straight
  <1>4. straight # <<>>
    BY <1>1, <1>3
  <1> HIDE DEF n
  <1>5. /\ b \in Seq(Token) /\ Len(b) = n
        /\ b[n] = [open |-> straight[n].open, content |-> Append(straight[n].content, ch)]
        /\ \A i \in 1 .. n : i # n => b[i] = straight[i]
    BY Zenon, <1>3, <1>4, FullerType
  <1>6. a \in Seq(Token) /\ Len(a) = n /\ \A i \in 1 .. n : a[i] = Straightened(fuller[i])
    <2>1. DOMAIN fuller = 1 .. n
      BY <1>2
    <2> QED
      BY Zenon, <1>2, <2>1, StraightType
  <1> HIDE DEF a, b
  <1>7. straight[n].open = Mark(tokens[n].open) /\ straight[n].content = tokens[n].content
        /\ fuller[n].open = tokens[n].open /\ fuller[n].content = Append(tokens[n].content, ch)
    BY <1>1, <1>2, <1>3 DEF Straightened
  <1>8. a[n] = b[n]
    BY Zenon, <1>1, <1>5, <1>6, <1>7 DEF Straightened
  <1>9. \A i \in 1 .. n : a[i] = b[i]
    BY Zenon, <1>2, <1>3, <1>5, <1>6, <1>8
  <1>10. a = b
    BY <1>1, <1>5, <1>6, <1>9
  <1> QED
    BY <1>4, <1>10 DEF a, b, fuller, straight

-----------------------------------------------------------------------------
(* What the rewriting of "" does to a plain text *)

\* What the rewriting of "" makes of each part of a state.
NormalizeParts(next, in, skip, out) == next.in = in /\ next.skip = skip /\ next.out = out

\* Outside of quotations the rewriting opens what the reading opens.
LEMMA NormalizesCode ==
  ASSUME NEW s \in NormalizeState, NEW ch \in Char
  PROVE  /\ ch = "double" => NormalizeParts(NormalizeCode(s, ch), "double", s.skip, Append(s.out, "quote"))
         /\ ch \in {"quote", "tick"} => NormalizeParts(NormalizeCode(s, ch), ch, s.skip, Append(s.out, ch))
         /\ ch \notin {"quote", "double", "tick"} =>
              NormalizeParts(NormalizeCode(s, ch), "code", s.skip, Append(s.out, ch))
  BY DEF NormalizeState, NormalizeCode, NormalizeParts

\* What a character does to each part of the rewriting, case by case.
LEMMA NormalizesAs ==
  ASSUME NEW s \in NormalizeState, NEW ch \in Char, NEW next, next = NormalizeChar(s, ch)
  PROVE  /\ next \in NormalizeState
         /\ s.in = "code" /\ ch = "double" => NormalizeParts(next, "double", s.skip, Append(s.out, "quote"))
         /\ s.in = "code" /\ ch \in {"quote", "tick"} => NormalizeParts(next, ch, s.skip, Append(s.out, ch))
         /\ s.in = "code" /\ ch \notin {"quote", "double", "tick"} =>
              NormalizeParts(next, "code", s.skip, Append(s.out, ch))
         /\ s.in \in {"quote", "tick"} /\ s.skip => NormalizeParts(next, s.in, FALSE, Append(s.out, ch))
         /\ s.in \in {"quote", "tick"} /\ ~s.skip /\ ch = "slash" =>
              NormalizeParts(next, s.in, TRUE, Append(s.out, ch))
         /\ s.in \in {"quote", "tick"} /\ ~s.skip /\ ch = s.in =>
              NormalizeParts(next, "code", FALSE, Append(s.out, ch))
         /\ s.in \in {"quote", "tick"} /\ ~s.skip /\ ch # "slash" /\ ch # s.in =>
              NormalizeParts(next, s.in, FALSE, Append(s.out, ch))
         /\ s.in = "double" /\ s.skip /\ ch = "quote" =>
              NormalizeParts(next, "double", FALSE, Append(Append(s.out, "quote"), "quote"))
         /\ s.in = "double" /\ s.skip /\ ch = "double" =>
              NormalizeParts(next, "double", FALSE, Append(s.out, ch))
         /\ s.in = "double" /\ s.skip /\ ch \notin {"quote", "double", "slash"} =>
              NormalizeParts(next, "double", FALSE, Append(Append(s.out, "slash"), ch))
         /\ s.in = "double" /\ ~s.skip /\ ch = "slash" => NormalizeParts(next, "double", TRUE, s.out)
         /\ s.in = "double" /\ ~s.skip /\ ch = "double" => NormalizeParts(next, "ended", FALSE, s.out)
         /\ s.in = "double" /\ ~s.skip /\ ch = "quote" =>
              NormalizeParts(next, "double", FALSE, Append(Append(s.out, "quote"), "quote"))
         /\ s.in = "double" /\ ~s.skip /\ ch \notin {"quote", "double", "slash"} =>
              NormalizeParts(next, "double", FALSE, Append(s.out, ch))
         /\ s.in = "ended" /\ ch = "double" => NormalizeParts(next, "double", s.skip, Append(s.out, ch))
         /\ s.in = "ended" /\ ch \in {"quote", "tick"} =>
              NormalizeParts(next, ch, s.skip, Append(Append(s.out, "quote"), ch))
         /\ s.in = "ended" /\ ch \notin {"quote", "double", "tick"} =>
              NormalizeParts(next, "code", s.skip, Append(Append(s.out, "quote"), ch))
  <1>1. next \in NormalizeState
    BY Zenon, NormalizeCharType
  <1>2. /\ s.in \in {"code", "quote", "tick", "double", "ended"} /\ s.skip \in BOOLEAN
    BY DEF NormalizeState
  <1>3. /\ s.out \in Seq(Char)
        /\ s.out \o <<ch>> = Append(s.out, ch)
        /\ s.out \o <<"quote", "quote">> = Append(Append(s.out, "quote"), "quote")
        /\ s.out \o <<"slash">> \o <<ch>> = Append(Append(s.out, "slash"), ch)
        /\ s.out \o <<>> = s.out
    BY DEF NormalizeState, Char
  <1>4. CASE s.in = "code"
    <2>1. next = NormalizeCode(s, ch)
      BY <1>4 DEF NormalizeChar
    <2> QED
      BY <1>1, <1>4, <2>1, NormalizesCode
  <1>5. CASE s.in \in {"quote", "tick"}
    <2>1. next = NormalizeQuoted(s, ch)
      BY <1>5 DEF NormalizeChar
    <2>2. next.skip = (~s.skip /\ ch = "slash") /\ next.in = (IF ~s.skip /\ ch = s.in THEN "code" ELSE s.in)
          /\ next.out = Append(s.out, ch)
      BY <2>1 DEF NormalizeQuoted, NormalizeState
    <2> QED
      BY <1>1, <1>2, <1>5, <2>2 DEF NormalizeParts
  <1>6. CASE s.in = "double"
    <2>1. next = NormalizeDouble(s, ch)
      BY <1>6 DEF NormalizeChar
    <2>2. Doubled("quote") = <<"quote", "quote">> /\ (ch # "quote" => Doubled(ch) = <<ch>>)
      BY DEF Doubled
    <2>3. CASE s.skip
      <3> DEFINE escape == IF ch \in {"quote", "double", "slash"} THEN <<>> ELSE <<"slash">>
                 out == s.out \o escape \o Doubled(ch)
      <3>1. next = [s EXCEPT !.skip = FALSE, !.out = out]
        BY <2>1, <2>3 DEF NormalizeDouble
      <3>2. (ch \in {"quote", "double", "slash"} => escape = <<>>)
            /\ (ch \notin {"quote", "double", "slash"} => escape = <<"slash">>)
        OBVIOUS
      <3>3. /\ ch = "quote" => out = Append(Append(s.out, "quote"), "quote")
            /\ ch = "double" => out = Append(s.out, ch)
            /\ ch \notin {"quote", "double", "slash"} => out = Append(Append(s.out, "slash"), ch)
        <4> HIDE DEF escape
        <4>1. CASE ch = "quote"
          BY Zenon, <1>3, <2>2, <3>2, <4>1
        <4>2. CASE ch = "double"
          <5>1. ch # "quote"
            BY <4>2
          <5> QED
            BY Zenon, <1>3, <2>2, <3>2, <4>2, <5>1
        <4>3. CASE ch \notin {"quote", "double", "slash"}
          <5>1. ch # "quote" /\ ch # "double"
            BY <4>3
          <5> QED
            BY Zenon, <1>3, <2>2, <3>2, <4>3, <5>1
        <4> QED
          BY Zenon, <4>1, <4>2, <4>3
      <3> HIDE DEF out
      <3>4. next.in = "double" /\ next.skip = FALSE /\ next.out = out
        BY <1>6, <3>1 DEF NormalizeState
      <3> QED
        BY <1>1, <1>6, <2>3, <3>3, <3>4 DEF NormalizeParts
    <2>4. CASE ~s.skip /\ ch = "slash"
      <3>1. next = [s EXCEPT !.skip = TRUE]
        BY <2>1, <2>4 DEF NormalizeDouble
      <3>2. NormalizeParts(next, "double", TRUE, s.out)
        BY <1>6, <3>1 DEF NormalizeState, NormalizeParts
      <3> QED
        BY <1>1, <1>6, <2>4, <3>2
    <2>5. CASE ~s.skip /\ ch = "double"
      <3>1. next = [s EXCEPT !.in = "ended"]
        BY <2>1, <2>5 DEF NormalizeDouble
      <3>2. NormalizeParts(next, "ended", FALSE, s.out)
        BY <2>5, <3>1 DEF NormalizeState, NormalizeParts
      <3> QED
        BY <1>1, <1>6, <2>5, <3>2
    <2>6. CASE ~s.skip /\ ch # "slash" /\ ch # "double"
      <3> DEFINE out == s.out \o Doubled(ch)
      <3>1. next = [s EXCEPT !.out = out]
        BY <2>1, <2>6 DEF NormalizeDouble
      <3>2. /\ ch = "quote" => out = Append(Append(s.out, "quote"), "quote")
            /\ ch # "quote" => out = Append(s.out, ch)
        BY Zenon, <1>3, <2>2
      <3> HIDE DEF out
      <3>3. next.in = "double" /\ next.skip = FALSE /\ next.out = out
        BY <1>6, <2>6, <3>1 DEF NormalizeState
      <3> QED
        BY <1>1, <1>6, <2>6, <3>2, <3>3 DEF NormalizeParts
    <2> QED
      BY <1>2, <2>3, <2>4, <2>5, <2>6
  <1>7. CASE s.in = "ended"
    <2> DEFINE after == [s EXCEPT !.out = Append(s.out, "quote")]
    <2>1. next = IF ch = "double" THEN [s EXCEPT !.in = "double", !.out = Append(s.out, ch)]
                 ELSE NormalizeCode(after, ch)
      BY <1>7 DEF NormalizeChar
    <2>2. after \in NormalizeState /\ after.skip = s.skip /\ after.out = Append(s.out, "quote")
      BY DEF NormalizeState, Char
    <2>3. ch = "double" => NormalizeParts(next, "double", s.skip, Append(s.out, ch))
      BY <2>1 DEF NormalizeState, NormalizeParts
    <2> HIDE DEF after
    <2>4. /\ ch \in {"quote", "tick"} => NormalizeParts(next, ch, s.skip, Append(Append(s.out, "quote"), ch))
          /\ ch \notin {"quote", "double", "tick"} =>
               NormalizeParts(next, "code", s.skip, Append(Append(s.out, "quote"), ch))
      <3>1. ch # "double" => next = NormalizeCode(after, ch)
        BY <2>1
      <3> QED
        BY <2>2, <3>1, NormalizesCode
    <2> QED
      BY <1>1, <1>7, <2>3, <2>4
  <1> QED
    BY <1>2, <1>4, <1>5, <1>6, <1>7

\* What MySQL has read of a text.
MyRead(t, r) == IsRead(MySqlRules, ReadState, Char, t, r)

\* MySQL reads on.
LEMMA MyReadOn ==
  ASSUME NEW t, NEW r, MyRead(t, r), NEW ch \in Char
  PROVE  MyRead(Append(t, ch), ReadChar(MySqlRules, r, ch)) /\ r \in ReadState
  BY Zenon, MySqlKeepsTo, ReadOn DEF MyRead, IsRead

\* Where the rewriting of "" is in a text that MySQL reads as r and its outcome as q.
SamePlace(n, r, q) ==
  /\ n.in = "code" => /\ r.in \in {"code", "hash"} /\ q.in = r.in /\ ~n.skip /\ ~r.skip /\ ~q.skip
                      /\ r.in = "code" => r.closed = q.closed /\ r.closed # "double"
  /\ n.in = "quote" => r.in = "quote" /\ q.in = "quote" /\ n.skip = r.skip /\ q.skip = r.skip
  /\ n.in = "tick" => r.in = "tick" /\ q.in = "tick" /\ ~n.skip /\ ~r.skip /\ ~q.skip
  /\ n.in = "double" => r.in = "double" /\ q.in = "quote" /\ n.skip = r.skip /\ ~q.skip
  /\ n.in = "ended" => r.in = "code" /\ r.closed = "double" /\ q.in = "quote" /\ ~n.skip /\ ~r.skip /\ ~q.skip

AsNormalized(n, r, q) ==
  /\ n \in NormalizeState /\ r \in ReadState /\ OfLast(r)
  /\ q.tokens = Straight(r.tokens) /\ SamePlace(n, r, q) /\ MyRead(n.out, q)

\* Where it is afterwards, by what was made of each part.
Advance(n, r, ch) ==
  \E q : AsNormalized(NormalizeChar(n, ch), ReadChar(MySqlRules, r, ch), q)

\* The rewriting and the two readings keep to the same place.
LEMMA Advances ==
  ASSUME NEW n \in NormalizeState, NEW r \in ReadState, OfLast(r), NEW ch \in Char, NEW q,
         q.tokens = Straight(ReadChar(MySqlRules, r, ch).tokens),
         SamePlace(NormalizeChar(n, ch), ReadChar(MySqlRules, r, ch), q),
         MyRead(NormalizeChar(n, ch).out, q)
  PROVE  Advance(n, r, ch)
  BY Zenon, NormalizeCharType, ReadingType, StaysOfLast DEF Advance, AsNormalized

\* What a character does to a token of the text it does to that of the outcome.
LEMMA StraightBoth ==
  ASSUME NEW r \in ReadState, NEW q, q.tokens = Straight(r.tokens), NEW ch \in Char
  PROVE  /\ r.tokens # <<>> => Straight(Fuller(r.tokens, ch)) = Fuller(q.tokens, ch) /\ q.tokens # <<>>
         /\ Straight(Append(r.tokens, Begun(ch))) = Append(q.tokens, Begun(Mark(ch)))
  <1>1. r.tokens \in Seq(Token)
    BY DEF ReadState
  <1> QED
    BY Zenon, <1>1, StraightFilled, StraightAppended

\* They do in a '' or a ``, which the rewriting copies,
LEMMA AdvancesInQuotation ==
  ASSUME NEW n, NEW r, NEW q, AsNormalized(n, r, q), NEW ch \in Char,
         Calm(ReadChar(MySqlRules, r, ch).tokens), n.in \in {"quote", "tick"}
  PROVE  Advance(n, r, ch)
  <1> DEFINE next == ReadChar(MySqlRules, r, ch)
             read == ReadChar(MySqlRules, q, ch)
             norm == NormalizeChar(n, ch)
  <1>1. /\ n \in NormalizeState /\ r \in ReadState /\ OfLast(r) /\ q \in ReadState
        /\ q.tokens = Straight(r.tokens) /\ SamePlace(n, r, q) /\ MyRead(n.out, q)
    BY Zenon, MyReadOn DEF AsNormalized
  <1>2. MyRead(Append(n.out, ch), read)
    BY Zenon, <1>1, MyReadOn
  <1>3. r.in = n.in /\ q.in = n.in /\ r.skip = n.skip /\ q.skip = n.skip /\ n.skip \in BOOLEAN
    BY <1>1 DEF SamePlace, NormalizeState, ReadState
  <1>4. r.in # "code" /\ r.in # "hash" /\ Closer[r.in] = r.in /\ Closer[r.in] # "slash" /\ r.tokens # <<>>
        /\ q.in # "code" /\ q.in # "hash" /\ Closer[q.in] = r.in
        /\ (r.in \in Literals <=> r.in = "quote")
    BY <1>1, <1>3, Closers DEF ReadState, Literals
  <1> HIDE DEF next, read, norm
  <1>5. CASE n.skip
    <2>1. ReadParts(next, r.in, FALSE, r.closed, Fuller(r.tokens, ch))
      BY Zenon, <1>1, <1>3, <1>4, <1>5, ReadsAs DEF next
    <2>2. ReadParts(read, q.in, FALSE, q.closed, Fuller(q.tokens, ch))
      BY Zenon, <1>1, <1>3, <1>4, <1>5, ReadsAs DEF read
    <2>3. NormalizeParts(norm, n.in, FALSE, Append(n.out, ch))
      BY Zenon, <1>1, <1>5, NormalizesAs DEF norm
    <2>4. read.tokens = Straight(next.tokens)
      <3>1. next.tokens = Fuller(r.tokens, ch) /\ read.tokens = Fuller(q.tokens, ch)
        BY Zenon, <2>1, <2>2 DEF ReadParts
      <3>2. Straight(Fuller(r.tokens, ch)) = Fuller(q.tokens, ch)
        BY Zenon, <1>1, <1>4, StraightBoth
      <3> QED
        BY Zenon, <3>1, <3>2
    <2>5. SamePlace(norm, next, read)
      BY <1>3, <2>1, <2>2, <2>3 DEF SamePlace, ReadParts, NormalizeParts
    <2>6. MyRead(norm.out, read)
      BY Zenon, <1>2, <2>3 DEF NormalizeParts
    <2> QED
      BY Zenon, <1>1, <2>4, <2>5, <2>6, Advances DEF next, norm
  <1>6. CASE ~n.skip /\ ch = "slash" /\ n.in = "quote"
    <2>1. ReadParts(next, r.in, TRUE, r.closed, r.tokens)
      BY Zenon, <1>1, <1>3, <1>4, <1>6, ReadsAs DEF next
    <2>2. ReadParts(read, q.in, TRUE, q.closed, q.tokens)
      BY Zenon, <1>1, <1>3, <1>4, <1>6, ReadsAs DEF read
    <2>3. NormalizeParts(norm, n.in, TRUE, Append(n.out, ch))
      BY Zenon, <1>1, <1>6, NormalizesAs DEF norm
    <2>4. read.tokens = Straight(next.tokens)
      BY Zenon, <1>1, <2>1, <2>2 DEF ReadParts
    <2>5. SamePlace(norm, next, read)
      BY <1>3, <1>6, <2>1, <2>2, <2>3 DEF SamePlace, ReadParts, NormalizeParts
    <2>6. MyRead(norm.out, read)
      BY Zenon, <1>2, <2>3 DEF NormalizeParts
    <2> QED
      BY Zenon, <1>1, <2>4, <2>5, <2>6, Advances DEF next, norm
  <1>7. CASE ~n.skip /\ ch = "slash" /\ n.in = "tick"
    <2>1. ch # Closer[r.in] /\ r.in \notin Literals
      BY <1>3, <1>4, <1>7
    <2>2. ReadParts(next, r.in, FALSE, r.closed, Fuller(r.tokens, ch))
      BY Zenon, <1>1, <1>3, <1>4, <1>7, <2>1, ReadsAs DEF next
    <2>3. Calm(Fuller(r.tokens, ch)) /\ r.tokens \in Seq(Token)
      BY <1>1, <2>2 DEF ReadParts, next, ReadState
    <2>4. ch \notin Loud(r.tokens[Len(r.tokens)].open)
      BY Zenon, <1>4, <2>3, CalmFilled
    <2>5. r.tokens[Len(r.tokens)].open = "tick"
      BY <1>1, <1>3, <1>7 DEF OfLast
    <2> QED
      BY <1>7, <2>4, <2>5 DEF Loud
  <1>8. CASE ~n.skip /\ ch = n.in
    <2>1. ReadParts(next, "code", FALSE, ch, r.tokens)
      BY Zenon, <1>1, <1>3, <1>4, <1>8, ReadsAs DEF next
    <2>2. ReadParts(read, "code", FALSE, ch, q.tokens)
      BY Zenon, <1>1, <1>3, <1>4, <1>8, ReadsAs DEF read
    <2>3. NormalizeParts(norm, "code", FALSE, Append(n.out, ch))
      BY Zenon, <1>1, <1>8, NormalizesAs DEF norm
    <2>4. read.tokens = Straight(next.tokens)
      BY Zenon, <1>1, <2>1, <2>2 DEF ReadParts
    <2>5. SamePlace(norm, next, read)
      BY <1>8, <2>1, <2>2, <2>3 DEF SamePlace, ReadParts, NormalizeParts
    <2>6. MyRead(norm.out, read)
      BY Zenon, <1>2, <2>3 DEF NormalizeParts
    <2> QED
      BY Zenon, <1>1, <2>4, <2>5, <2>6, Advances DEF next, norm
  <1>9. CASE ~n.skip /\ ch # "slash" /\ ch # n.in
    <2>1. ReadParts(next, r.in, FALSE, r.closed, Fuller(r.tokens, ch))
      BY Zenon, <1>1, <1>3, <1>4, <1>9, ReadsAs DEF next
    <2>2. ReadParts(read, q.in, FALSE, q.closed, Fuller(q.tokens, ch))
      BY Zenon, <1>1, <1>3, <1>4, <1>9, ReadsAs DEF read
    <2>3. NormalizeParts(norm, n.in, FALSE, Append(n.out, ch))
      BY Zenon, <1>1, <1>9, NormalizesAs DEF norm
    <2>4. read.tokens = Straight(next.tokens)
      <3>1. next.tokens = Fuller(r.tokens, ch) /\ read.tokens = Fuller(q.tokens, ch)
        BY Zenon, <2>1, <2>2 DEF ReadParts
      <3>2. Straight(Fuller(r.tokens, ch)) = Fuller(q.tokens, ch)
        BY Zenon, <1>1, <1>4, StraightBoth
      <3> QED
        BY Zenon, <3>1, <3>2
    <2>5. SamePlace(norm, next, read)
      BY <1>3, <2>1, <2>2, <2>3 DEF SamePlace, ReadParts, NormalizeParts
    <2>6. MyRead(norm.out, read)
      BY Zenon, <1>2, <2>3 DEF NormalizeParts
    <2> QED
      BY Zenon, <1>1, <2>4, <2>5, <2>6, Advances DEF next, norm
  <1> QED
    BY <1>3, <1>5, <1>6, <1>7, <1>8, <1>9

\* What a plain text does not fill a token with, or begin after a literal.
LEMMA Unheard ==
  ASSUME NEW r \in ReadState, OfLast(r), NEW ch \in Char, Calm(ReadChar(MySqlRules, r, ch).tokens)
  PROVE  /\ ReadChar(MySqlRules, r, ch).tokens = Fuller(r.tokens, ch) /\ r.in # "code" => ch \notin Loud(r.in)
         /\ ReadChar(MySqlRules, r, ch).tokens = Fuller(r.tokens, ch) /\ r.in = "code" /\ ch = r.closed
              => ch \notin Loud(r.closed)
         /\ r.in = "code" /\ ch # r.closed => ch # "slash" /\ (ch \in Literals => r.closed \notin Literals)
  <1> DEFINE next == ReadChar(MySqlRules, r, ch)
             latest == r.tokens[Len(r.tokens)]
  <1>1. /\ r.tokens \in Seq(Token) /\ (r.in # "code" \/ r.closed # "none" => r.tokens # <<>>)
        /\ r.closed \in {"none", "quote", "double", "tick"}
    BY DEF ReadState
  <1>2. /\ r.in # "code" => latest.open = r.in
        /\ r.in = "code" /\ r.closed # "none" => latest.open = r.closed
    BY Zenon DEF OfLast
  <1>3. Calm(next.tokens) /\ ch # "none"
    BY DEF Char
  <1> HIDE DEF next
  <1>4. ASSUME next.tokens = Fuller(r.tokens, ch), r.tokens # <<>> PROVE ch \notin Loud(latest.open)
    BY Zenon, <1>1, <1>3, <1>4, CalmFilled
  <1>5. ASSUME r.in = "code", ch # r.closed PROVE ch # "slash" /\ (ch \in Literals => r.closed \notin Literals)
    <2>1. next.tokens = Append(r.tokens, Begun(ch))
      <3>1. CASE ch \in DOMAIN Closer
        <4>1. ReadParts(next, ch, r.skip, "none", Append(r.tokens, Begun(ch)))
          BY Zenon, <1>5, <3>1, ReadsAs DEF next
        <4> QED
          BY Zenon, <4>1 DEF ReadParts
      <3>2. CASE ch \notin DOMAIN Closer
        <4>1. ReadParts(next, "code", r.skip, "none", Append(r.tokens, Begun(ch)))
          BY Zenon, <1>5, <3>2, ReadsAs DEF next
        <4> QED
          BY Zenon, <4>1 DEF ReadParts
      <3> QED
        BY <3>1, <3>2
    <2>2. Calm(Append(r.tokens, Begun(ch)))
      BY Zenon, <1>3, <2>1
    <2>3. ch # "slash" /\ (ch \in Literals /\ r.tokens # <<>> => latest.open \notin Literals)
      BY Zenon, <1>1, <2>2, CalmAppended
    <2>4. "none" \notin Literals
      BY DEF Literals
    <2> QED
      BY Zenon, <1>1, <1>2, <1>5, <2>3, <2>4
  <1> QED
    BY Zenon, <1>1, <1>2, <1>3, <1>4, <1>5 DEF next

\* in a comment, of which it knows nothing and where none of its marks are,
LEMMA AdvancesInComment ==
  ASSUME NEW n, NEW r, NEW q, AsNormalized(n, r, q), NEW ch \in Char,
         Calm(ReadChar(MySqlRules, r, ch).tokens), n.in = "code", r.in = "hash"
  PROVE  Advance(n, r, ch)
  <1> DEFINE next == ReadChar(MySqlRules, r, ch)
             read == ReadChar(MySqlRules, q, ch)
             norm == NormalizeChar(n, ch)
  <1>1. /\ n \in NormalizeState /\ r \in ReadState /\ OfLast(r) /\ q \in ReadState
        /\ q.tokens = Straight(r.tokens) /\ SamePlace(n, r, q) /\ MyRead(n.out, q)
    BY Zenon, MyReadOn DEF AsNormalized
  <1>2. MyRead(Append(n.out, ch), read)
    BY Zenon, <1>1, MyReadOn
  <1>3. /\ q.in = "hash" /\ ~n.skip /\ ~r.skip /\ ~q.skip /\ n.skip \in BOOLEAN /\ r.skip \in BOOLEAN
        /\ q.skip \in BOOLEAN
    BY <1>1 DEF SamePlace, NormalizeState, ReadState
  <1>4. r.in # "code" /\ q.in # "code" /\ Closer[r.in] = "newline" /\ Closer[q.in] = "newline"
        /\ r.tokens # <<>> /\ r.in \notin Literals /\ q.in \notin Literals
    BY <1>1, <1>3, Closers DEF ReadState, Literals
  <1> HIDE DEF next, read, norm
  <1>5. CASE ch = "newline"
    <2>1. ReadParts(next, "code", FALSE, "none", r.tokens)
      BY Zenon, <1>1, <1>3, <1>5, ReadsAs DEF next
    <2>2. ReadParts(read, "code", FALSE, "none", q.tokens)
      BY Zenon, <1>1, <1>3, <1>5, ReadsAs DEF read
    <2>3. NormalizeParts(norm, "code", FALSE, Append(n.out, ch))
      <3>1. ch \notin {"quote", "double", "tick"} /\ n.skip = FALSE
        BY <1>3, <1>5
      <3> QED
        BY Zenon, <1>1, <3>1, NormalizesAs DEF norm
    <2>4. read.tokens = Straight(next.tokens)
      BY Zenon, <1>1, <2>1, <2>2 DEF ReadParts
    <2>5. SamePlace(norm, next, read)
      BY <2>1, <2>2, <2>3 DEF SamePlace, ReadParts, NormalizeParts
    <2>6. MyRead(norm.out, read)
      BY Zenon, <1>2, <2>3 DEF NormalizeParts
    <2> QED
      BY Zenon, <1>1, <2>4, <2>5, <2>6, Advances DEF next, norm
  <1>6. CASE ch # "newline"
    <2>1. ReadParts(next, r.in, FALSE, r.closed, Fuller(r.tokens, ch))
      BY Zenon, <1>1, <1>3, <1>4, <1>6, ReadsAs DEF next
    <2>2. ReadParts(read, q.in, FALSE, q.closed, Fuller(q.tokens, ch))
      BY Zenon, <1>1, <1>3, <1>4, <1>6, ReadsAs DEF read
    <2>3. ch \notin {"quote", "double", "tick"}
      <3>1. ch \notin Loud(r.in)
        BY Zenon, <1>1, <1>4, <2>1, Unheard DEF ReadParts, next
      <3> QED
        BY <3>1 DEF Loud
    <2>4. NormalizeParts(norm, "code", FALSE, Append(n.out, ch))
      <3>1. n.skip = FALSE
        BY <1>3
      <3> QED
        BY Zenon, <1>1, <2>3, <3>1, NormalizesAs DEF norm
    <2>5. read.tokens = Straight(next.tokens)
      <3>1. next.tokens = Fuller(r.tokens, ch) /\ read.tokens = Fuller(q.tokens, ch)
        BY Zenon, <2>1, <2>2 DEF ReadParts
      <3>2. Straight(Fuller(r.tokens, ch)) = Fuller(q.tokens, ch)
        BY Zenon, <1>1, <1>4, StraightBoth
      <3> QED
        BY Zenon, <3>1, <3>2
    <2>6. SamePlace(norm, next, read)
      BY <1>3, <1>4, <2>1, <2>2, <2>4 DEF SamePlace, ReadParts, NormalizeParts
    <2>7. MyRead(norm.out, read)
      BY Zenon, <1>2, <2>4 DEF NormalizeParts
    <2> QED
      BY Zenon, <1>1, <2>5, <2>6, <2>7, Advances DEF next, norm
  <1> QED
    BY <1>5, <1>6

\* A token is begun in the text and in the outcome.
LEMMA AdvancesByBeginning ==
  ASSUME NEW n \in NormalizeState, NEW r \in ReadState, OfLast(r), NEW ch \in Char,
         NEW q, q.tokens = Straight(r.tokens), NEW out, MyRead(out, q),
         r.in = "code", ~r.skip, ch # r.closed, ch # "double",
         q.in = "code", ~q.skip, ch # q.closed,
         NormalizeParts(NormalizeChar(n, ch), IF ch \in {"quote", "tick"} THEN ch ELSE "code", FALSE, Append(out, ch))
  PROVE  Advance(n, r, ch)
  <1> DEFINE next == ReadChar(MySqlRules, r, ch)
             read == ReadChar(MySqlRules, q, ch)
             norm == NormalizeChar(n, ch)
             in == IF ch \in DOMAIN Closer THEN ch ELSE "code"
  <1>1. q \in ReadState /\ MyRead(Append(out, ch), read)
    BY Zenon, MyReadOn
  <1>2. q.skip = FALSE /\ r.skip = FALSE
    BY <1>1 DEF ReadState
  <1>3. NormalizeParts(norm, IF ch \in {"quote", "tick"} THEN ch ELSE "code", FALSE, Append(out, ch))
    BY Zenon
  <1> HIDE DEF next, read, norm
  <1>4. ReadParts(next, in, FALSE, "none", Append(r.tokens, Begun(ch)))
    <2>1. CASE ch \in DOMAIN Closer
      BY Zenon, <1>2, <2>1, ReadsAs DEF next
    <2>2. CASE ch \notin DOMAIN Closer
      BY Zenon, <1>2, <2>2, ReadsAs DEF next
    <2> QED
      BY <2>1, <2>2
  <1>5. ReadParts(read, in, FALSE, "none", Append(q.tokens, Begun(ch)))
    <2>1. CASE ch \in DOMAIN Closer
      BY Zenon, <1>1, <1>2, <2>1, ReadsAs DEF read
    <2>2. CASE ch \notin DOMAIN Closer
      BY Zenon, <1>1, <1>2, <2>2, ReadsAs DEF read
    <2> QED
      BY <2>1, <2>2
  <1>6. read.tokens = Straight(next.tokens)
    <2>1. Straight(Append(r.tokens, Begun(ch))) = Append(q.tokens, Begun(Mark(ch))) /\ Mark(ch) = ch
      BY Zenon, StraightBoth DEF Mark
    <2> QED
      BY Zenon, <1>4, <1>5, <2>1 DEF ReadParts
  <1>7. SamePlace(norm, next, read)
    BY <1>3, <1>4, <1>5, Closers DEF SamePlace, ReadParts, NormalizeParts, Char
  <1>8. MyRead(norm.out, read)
    BY Zenon, <1>1, <1>3 DEF NormalizeParts
  <1> QED
    BY Zenon, <1>6, <1>7, <1>8, Advances DEF next, norm

\* A token of a "" is filled in the text and in the outcome.
LEMMA AdvancesByFilling ==
  ASSUME NEW n \in NormalizeState, NEW r \in ReadState, OfLast(r), NEW ch \in Char, r.tokens # <<>>,
         NEW q, q.tokens = Straight(r.tokens), NEW skip, ~skip, NEW closed,
         ReadParts(ReadChar(MySqlRules, r, ch), "double", skip, closed, Fuller(r.tokens, ch)),
         NEW out, NormalizeParts(NormalizeChar(n, ch), "double", skip, out),
         NEW read, MyRead(out, read), NEW ended, ReadParts(read, "quote", skip, ended, Fuller(q.tokens, ch))
  PROVE  Advance(n, r, ch)
  <1> DEFINE next == ReadChar(MySqlRules, r, ch)
             norm == NormalizeChar(n, ch)
  <1>1. ReadParts(next, "double", skip, closed, Fuller(r.tokens, ch)) /\ NormalizeParts(norm, "double", skip, out)
    BY Zenon
  <1> HIDE DEF next, norm
  <1>2. read.tokens = Straight(next.tokens)
    <2>1. Straight(Fuller(r.tokens, ch)) = Fuller(q.tokens, ch)
      BY Zenon, StraightBoth
    <2> QED
      BY Zenon, <1>1, <2>1 DEF ReadParts
  <1>3. SamePlace(norm, next, read)
    BY <1>1 DEF SamePlace, ReadParts, NormalizeParts
  <1>4. MyRead(norm.out, read)
    BY Zenon, <1>1 DEF NormalizeParts
  <1> QED
    BY Zenon, <1>2, <1>3, <1>4, Advances DEF next, norm

\* outside of quotations, where a " becomes a ',
LEMMA AdvancesInCode ==
  ASSUME NEW n, NEW r, NEW q, AsNormalized(n, r, q), NEW ch \in Char,
         Calm(ReadChar(MySqlRules, r, ch).tokens), n.in = "code", r.in = "code"
  PROVE  Advance(n, r, ch)
  <1> DEFINE next == ReadChar(MySqlRules, r, ch)
             norm == NormalizeChar(n, ch)
  <1>1. /\ n \in NormalizeState /\ r \in ReadState /\ OfLast(r) /\ q \in ReadState
        /\ q.tokens = Straight(r.tokens) /\ SamePlace(n, r, q) /\ MyRead(n.out, q)
    BY Zenon, MyReadOn DEF AsNormalized
  <1>2. /\ q.in = "code" /\ n.skip = FALSE /\ r.skip = FALSE /\ q.skip = FALSE
        /\ r.closed = q.closed /\ r.closed \in {"none", "quote", "tick"}
    BY <1>1 DEF SamePlace, NormalizeState, ReadState
  <1>3. Unread \in ReadState /\ "quote" \in Char /\ ch # "none" /\ "quote" \in DOMAIN Closer /\ "double" \in DOMAIN Closer
    BY UnreadIsState, Closers DEF Char
  <1> HIDE DEF next, norm
  <1>4. CASE ch = r.closed
    <2> DEFINE read == ReadChar(MySqlRules, q, ch)
    <2>1. MyRead(Append(n.out, ch), read)
      BY Zenon, <1>1, MyReadOn
    <2> HIDE DEF read
    <2>2. ReadParts(next, ch, FALSE, r.closed, Fuller(r.tokens, ch)) /\ r.tokens # <<>>
      BY Zenon, <1>1, <1>2, <1>4, ReadsAs DEF next
    <2>3. ReadParts(read, ch, FALSE, q.closed, Fuller(q.tokens, ch))
      BY Zenon, <1>1, <1>2, <1>4, ReadsAs DEF read
    <2>4. ch = "quote"
      <3>1. ch \notin Loud(r.closed)
        BY Zenon, <1>1, <1>4, <2>2, Unheard DEF ReadParts, next
      <3> QED
        BY <1>2, <1>3, <1>4, <3>1 DEF Loud
    <2>5. NormalizeParts(norm, ch, FALSE, Append(n.out, ch))
      <3>1. ch \in {"quote", "tick"}
        BY <2>4
      <3> QED
        BY Zenon, <1>1, <1>2, <3>1, NormalizesAs DEF norm
    <2>6. read.tokens = Straight(next.tokens)
      <3>1. next.tokens = Fuller(r.tokens, ch) /\ read.tokens = Fuller(q.tokens, ch)
        BY Zenon, <2>2, <2>3 DEF ReadParts
      <3>2. Straight(Fuller(r.tokens, ch)) = Fuller(q.tokens, ch)
        BY Zenon, <1>1, <2>2, StraightBoth
      <3> QED
        BY Zenon, <3>1, <3>2
    <2>7. SamePlace(norm, next, read)
      BY <2>2, <2>3, <2>4, <2>5 DEF SamePlace, ReadParts, NormalizeParts
    <2>8. MyRead(norm.out, read)
      BY Zenon, <2>1, <2>5 DEF NormalizeParts
    <2> QED
      BY Zenon, <1>1, <2>6, <2>7, <2>8, Advances DEF next, norm
  <1>5. CASE ch = "double"
    <2> DEFINE read == ReadChar(MySqlRules, q, "quote")
    <2>1. MyRead(Append(n.out, "quote"), read)
      BY Zenon, <1>1, <1>3, MyReadOn
    <2>2. ch # r.closed /\ "quote" # q.closed
      <3>1. ch # r.closed
        BY <1>2, <1>5
      <3>2. r.closed \notin Literals
        <4>1. ch \in Literals
          BY <1>5 DEF Literals
        <4> QED
          BY Zenon, <1>1, <3>1, <4>1, Unheard
      <3> QED
        BY <1>2, <3>1, <3>2 DEF Literals
    <2> HIDE DEF read
    <2>3. ReadParts(next, ch, FALSE, "none", Append(r.tokens, Begun(ch)))
      BY Zenon, <1>1, <1>2, <1>3, <1>5, <2>2, ReadsAs DEF next
    <2>4. ReadParts(read, "quote", FALSE, "none", Append(q.tokens, Begun("quote")))
      BY Zenon, <1>1, <1>2, <1>3, <2>2, ReadsAs DEF read
    <2>5. NormalizeParts(norm, "double", FALSE, Append(n.out, "quote"))
      BY Zenon, <1>1, <1>2, <1>5, NormalizesAs DEF norm
    <2>6. read.tokens = Straight(next.tokens)
      <3>1. Straight(Append(r.tokens, Begun(ch))) = Append(q.tokens, Begun(Mark(ch))) /\ Mark(ch) = "quote"
        BY Zenon, <1>1, <1>5, StraightBoth DEF Mark
      <3> QED
        BY Zenon, <2>3, <2>4, <3>1 DEF ReadParts
    <2>7. SamePlace(norm, next, read)
      BY <1>5, <2>3, <2>4, <2>5 DEF SamePlace, ReadParts, NormalizeParts
    <2>8. MyRead(norm.out, read)
      BY Zenon, <2>1, <2>5 DEF NormalizeParts
    <2> QED
      BY Zenon, <1>1, <2>6, <2>7, <2>8, Advances DEF next, norm
  <1>6. CASE ch # r.closed /\ ch # "double"
    <2>1. NormalizeParts(norm, IF ch \in {"quote", "tick"} THEN ch ELSE "code", FALSE, Append(n.out, ch))
      <3>1. CASE ch \in {"quote", "tick"}
        <4>1. NormalizeParts(norm, ch, FALSE, Append(n.out, ch))
          BY Zenon, <1>1, <1>2, <3>1, NormalizesAs DEF norm
        <4> QED
          BY Zenon, <3>1, <4>1
      <3>2. CASE ch \notin {"quote", "tick"}
        <4>1. ch \notin {"quote", "double", "tick"}
          BY <1>6, <3>2
        <4>2. NormalizeParts(norm, "code", FALSE, Append(n.out, ch))
          BY Zenon, <1>1, <1>2, <4>1, NormalizesAs DEF norm
        <4> QED
          BY Zenon, <3>2, <4>2
      <3> QED
        BY <3>1, <3>2
    <2>2. ~r.skip /\ ~q.skip /\ ch # q.closed
      BY <1>2, <1>6
    <2> QED
      BY Zenon, <1>1, <1>2, <1>6, <2>1, <2>2, AdvancesByBeginning DEF norm
  <1> QED
    BY <1>4, <1>5, <1>6

\* after a " in a "", which is ended unless a second one follows,
LEMMA AdvancesAfterDouble ==
  ASSUME NEW n, NEW r, NEW q, AsNormalized(n, r, q), NEW ch \in Char,
         Calm(ReadChar(MySqlRules, r, ch).tokens), n.in = "ended"
  PROVE  Advance(n, r, ch)
  <1> DEFINE next == ReadChar(MySqlRules, r, ch)
             norm == NormalizeChar(n, ch)
             read == ReadChar(MySqlRules, q, ch)
             shut == ReadChar(MySqlRules, q, "quote")
  <1>1. /\ n \in NormalizeState /\ r \in ReadState /\ OfLast(r) /\ q \in ReadState
        /\ q.tokens = Straight(r.tokens) /\ SamePlace(n, r, q) /\ MyRead(n.out, q)
    BY Zenon, MyReadOn DEF AsNormalized
  <1>2. /\ r.in = "code" /\ r.closed = "double" /\ q.in = "quote"
        /\ n.skip = FALSE /\ r.skip = FALSE /\ q.skip = FALSE
    BY <1>1 DEF SamePlace, NormalizeState, ReadState
  <1>3. "quote" \in Char /\ Closer["quote"] = "quote" /\ MyRead(Append(n.out, ch), read)
    BY <1>1, Closers, MyReadOn DEF Char
  <1>4. MyRead(Append(n.out, "quote"), shut)
    BY Zenon, <1>1, <1>3, MyReadOn
  <1> HIDE DEF next, norm, read, shut
  <1>5. CASE ch = "double"
    <2>1. ReadParts(next, "double", FALSE, r.closed, Fuller(r.tokens, ch)) /\ r.tokens # <<>>
      BY Zenon, <1>1, <1>2, <1>5, ReadsAs DEF next
    <2>2. ReadParts(read, "quote", FALSE, q.closed, Fuller(q.tokens, ch))
      <3>1. q.in # "code" /\ ~q.skip /\ ch # Closer[q.in] /\ ch # "slash"
        BY <1>2, <1>3, <1>5
      <3>2. ReadParts(read, q.in, FALSE, q.closed, Fuller(q.tokens, ch))
        BY Zenon, <1>1, <3>1, ReadsAs DEF read
      <3> QED
        BY Zenon, <1>2, <3>2
    <2>3. NormalizeParts(norm, "double", FALSE, Append(n.out, ch))
      BY Zenon, <1>1, <1>2, <1>5, NormalizesAs DEF norm
    <2> QED
      BY Zenon, <1>1, <1>3, <2>1, <2>2, <2>3, AdvancesByFilling DEF next, norm
  <1>6. CASE ch # "double"
    <2>1. ch # r.closed /\ ch \notin {"quote", "double"}
      <3>1. ch # r.closed
        BY <1>2, <1>6
      <3>2. ch \in Literals => r.closed \notin Literals
        BY Zenon, <1>1, <1>2, <3>1, Unheard
      <3> QED
        BY <1>2, <1>6, <3>1, <3>2 DEF Literals
    <2>2. ReadParts(shut, "code", FALSE, "quote", q.tokens)
      <3>1. q.in # "code" /\ ~q.skip /\ "quote" = Closer[q.in] /\ q.in # "hash"
        BY <1>2, <1>3
      <3> QED
        BY Zenon, <1>1, <1>3, <3>1, ReadsAs DEF shut
    <2>3. shut.in = "code" /\ ~shut.skip /\ ch # shut.closed /\ shut.tokens = Straight(r.tokens)
      BY <1>1, <2>1, <2>2 DEF ReadParts
    <2>4. NormalizeParts(norm, IF ch \in {"quote", "tick"} THEN ch ELSE "code", FALSE,
                         Append(Append(n.out, "quote"), ch))
      <3>1. CASE ch \in {"quote", "tick"}
        <4>1. NormalizeParts(norm, ch, FALSE, Append(Append(n.out, "quote"), ch))
          BY Zenon, <1>1, <1>2, <3>1, NormalizesAs DEF norm
        <4> QED
          BY Zenon, <3>1, <4>1
      <3>2. CASE ch \notin {"quote", "tick"}
        <4>1. ch \notin {"quote", "double", "tick"}
          BY <1>6, <3>2
        <4>2. NormalizeParts(norm, "code", FALSE, Append(Append(n.out, "quote"), ch))
          BY Zenon, <1>1, <1>2, <4>1, NormalizesAs DEF norm
        <4> QED
          BY Zenon, <3>2, <4>2
      <3> QED
        BY <3>1, <3>2
    <2>5. ~r.skip
      BY <1>2
    <2> QED
      BY Zenon, <1>1, <1>2, <1>4, <1>6, <2>1, <2>3, <2>4, <2>5, AdvancesByBeginning DEF norm
  <1> QED
    BY <1>5, <1>6

\* and in a "", where escapes are resolved and a ' is doubled.
LEMMA AdvancesInDouble ==
  ASSUME NEW n, NEW r, NEW q, AsNormalized(n, r, q), NEW ch \in Char,
         Calm(ReadChar(MySqlRules, r, ch).tokens), n.in = "double"
  PROVE  Advance(n, r, ch)
  <1> DEFINE next == ReadChar(MySqlRules, r, ch)
             norm == NormalizeChar(n, ch)
  <1>1. /\ n \in NormalizeState /\ r \in ReadState /\ OfLast(r) /\ q \in ReadState
        /\ q.tokens = Straight(r.tokens) /\ SamePlace(n, r, q) /\ MyRead(n.out, q)
    BY Zenon, MyReadOn DEF AsNormalized
  <1>2. /\ r.in = "double" /\ q.in = "quote" /\ n.skip = r.skip /\ q.skip = FALSE /\ r.skip \in BOOLEAN
    BY <1>1 DEF SamePlace, NormalizeState, ReadState
  <1>3. /\ "quote" \in Char /\ "slash" \in Char /\ Closer["quote"] = "quote" /\ Closer["double"] = "double"
        /\ r.in # "code" /\ r.in # "hash" /\ q.in # "code" /\ q.in # "hash" /\ r.tokens # <<>>
        /\ r.in \in Literals /\ q.in \in Literals /\ "slash" # Closer[q.in] /\ "quote" = Closer[q.in]
    BY <1>1, <1>2, Closers DEF Char, Literals, ReadState
  <1>4. ASSUME NEW x \in Char, x \notin {"quote", "slash"}
        PROVE  ReadParts(ReadChar(MySqlRules, q, x), "quote", FALSE, q.closed, Fuller(q.tokens, x))
               /\ MyRead(Append(n.out, x), ReadChar(MySqlRules, q, x))
    <2>1. q.in # "code" /\ ~q.skip /\ x # Closer[q.in] /\ x # "slash"
      BY <1>2, <1>3, <1>4
    <2>2. ReadParts(ReadChar(MySqlRules, q, x), q.in, FALSE, q.closed, Fuller(q.tokens, x))
      BY Zenon, <1>1, <2>1, ReadsAs
    <2> QED
      BY Zenon, <1>1, <1>2, <2>2, MyReadOn
  <1> HIDE DEF next, norm
  <1>5. CASE ~r.skip /\ ch = "slash"
    <2>1. ReadParts(next, "double", TRUE, r.closed, r.tokens)
      BY Zenon, <1>1, <1>2, <1>3, <1>5, ReadsAs DEF next
    <2>2. NormalizeParts(norm, "double", TRUE, n.out)
      BY Zenon, <1>1, <1>2, <1>5, NormalizesAs DEF norm
    <2>3. q.tokens = Straight(next.tokens) /\ MyRead(norm.out, q)
      BY Zenon, <1>1, <2>1, <2>2 DEF ReadParts, NormalizeParts
    <2>4. SamePlace(norm, next, q)
      BY <1>2, <2>1, <2>2 DEF SamePlace, ReadParts, NormalizeParts
    <2> QED
      BY Zenon, <1>1, <2>3, <2>4, Advances DEF next, norm
  <1>6. CASE ~r.skip /\ ch = "double"
    <2>1. ReadParts(next, "code", FALSE, ch, r.tokens)
      BY Zenon, <1>1, <1>2, <1>3, <1>6, ReadsAs DEF next
    <2>2. NormalizeParts(norm, "ended", FALSE, n.out)
      BY Zenon, <1>1, <1>2, <1>6, NormalizesAs DEF norm
    <2>3. q.tokens = Straight(next.tokens) /\ MyRead(norm.out, q)
      BY Zenon, <1>1, <2>1, <2>2 DEF ReadParts, NormalizeParts
    <2>4. SamePlace(norm, next, q)
      BY <1>2, <1>6, <2>1, <2>2 DEF SamePlace, ReadParts, NormalizeParts
    <2> QED
      BY Zenon, <1>1, <2>3, <2>4, Advances DEF next, norm
  <1>7. CASE r.skip \/ ch \notin {"double", "slash"}
    <2>1. ReadParts(next, "double", FALSE, r.closed, Fuller(r.tokens, ch))
      <3>1. CASE r.skip
        BY Zenon, <1>1, <1>2, <1>3, <3>1, ReadsAs DEF next
      <3>2. CASE ~r.skip
        <4>1. ch # Closer[r.in] /\ ch # "slash"
          BY <1>2, <1>3, <1>7, <3>2
        <4> QED
          BY Zenon, <1>1, <1>2, <1>3, <3>2, <4>1, ReadsAs DEF next
      <3> QED
        BY <3>1, <3>2
    <2>2. ch # "slash"
      <3>1. ch \notin Loud(r.in)
        BY Zenon, <1>1, <1>3, <2>1, Unheard DEF ReadParts, next
      <3> QED
        BY <1>3, <3>1 DEF Loud
    <2>3. CASE ch = "quote"
      <3> DEFINE shut == ReadChar(MySqlRules, q, "quote")
                 read == ReadChar(MySqlRules, shut, "quote")
      <3>1. MyRead(Append(n.out, "quote"), shut) /\ shut \in ReadState
        BY Zenon, <1>1, <1>3, MyReadOn
      <3>2. MyRead(Append(Append(n.out, "quote"), "quote"), read)
        BY Zenon, <1>3, <3>1, MyReadOn
      <3> HIDE DEF shut
      <3>3. ReadParts(shut, "code", FALSE, "quote", q.tokens)
        <4>1. ~q.skip
          BY <1>2
        <4> QED
          BY Zenon, <1>1, <1>3, <4>1, ReadsAs DEF shut
      <3>4. shut.in = "code" /\ shut.skip = FALSE /\ "quote" = shut.closed /\ shut.tokens = q.tokens
        BY Zenon, <3>3 DEF ReadParts
      <3> HIDE DEF read
      <3>5. ReadParts(read, "quote", FALSE, "quote", Fuller(q.tokens, ch))
        <4>1. ReadParts(read, "quote", shut.skip, shut.closed, Fuller(shut.tokens, "quote"))
          BY Zenon, <1>3, <3>1, <3>4, ReadsAs DEF read
        <4> QED
          BY Zenon, <2>3, <3>4, <4>1
      <3>6. NormalizeParts(norm, "double", FALSE, Append(Append(n.out, "quote"), "quote"))
        <4>1. CASE n.skip
          BY Zenon, <1>1, <2>3, <4>1, NormalizesAs DEF norm
        <4>2. CASE ~n.skip
          BY Zenon, <1>1, <2>3, <4>2, NormalizesAs DEF norm
        <4> QED
          BY <4>1, <4>2
      <3> QED
        BY Zenon, <1>1, <1>3, <2>1, <3>2, <3>5, <3>6, AdvancesByFilling DEF next, norm
    <2>4. CASE ch # "quote" /\ (r.skip => ch = "double")
      <3>1. ReadParts(ReadChar(MySqlRules, q, ch), "quote", FALSE, q.closed, Fuller(q.tokens, ch))
            /\ MyRead(Append(n.out, ch), ReadChar(MySqlRules, q, ch))
        <4>1. ch \notin {"quote", "slash"}
          BY <2>2, <2>4
        <4> QED
          BY Zenon, <1>4, <4>1
      <3>2. NormalizeParts(norm, "double", FALSE, Append(n.out, ch))
        <4>1. CASE r.skip
          BY Zenon, <1>1, <1>2, <2>4, <4>1, NormalizesAs DEF norm
        <4>2. CASE ~r.skip
          <5>1. ch \notin {"quote", "double", "slash"} /\ ~n.skip
            BY <1>2, <1>7, <2>2, <2>4, <4>2
          <5> QED
            BY Zenon, <1>1, <5>1, NormalizesAs DEF norm
        <4> QED
          BY <4>1, <4>2
      <3> QED
        BY Zenon, <1>1, <1>3, <2>1, <3>1, <3>2, AdvancesByFilling DEF next, norm
    <2>5. CASE ch # "quote" /\ r.skip /\ ch # "double"
      <3> DEFINE after == ReadChar(MySqlRules, q, "slash")
                 read == ReadChar(MySqlRules, after, ch)
      <3>1. MyRead(Append(n.out, "slash"), after) /\ after \in ReadState
        BY Zenon, <1>1, <1>3, MyReadOn
      <3>2. MyRead(Append(Append(n.out, "slash"), ch), read)
        BY Zenon, <3>1, MyReadOn
      <3> HIDE DEF after
      <3>3. ReadParts(after, q.in, TRUE, q.closed, q.tokens)
        <4>1. ~q.skip
          BY <1>2
        <4> QED
          BY Zenon, <1>1, <1>3, <4>1, ReadsAs DEF after
      <3>4. after.in = "quote" /\ after.in # "code" /\ after.skip = TRUE /\ after.tokens = q.tokens
        BY <1>2, <3>3 DEF ReadParts
      <3> HIDE DEF read
      <3>5. ReadParts(read, "quote", FALSE, after.closed, Fuller(q.tokens, ch))
        <4>1. ReadParts(read, after.in, FALSE, after.closed, Fuller(after.tokens, ch))
          BY Zenon, <3>1, <3>4, ReadsAs DEF read
        <4> QED
          BY Zenon, <3>4, <4>1
      <3>6. NormalizeParts(norm, "double", FALSE, Append(Append(n.out, "slash"), ch))
        <4>1. ch \notin {"quote", "double", "slash"} /\ n.skip
          BY <1>2, <2>2, <2>5
        <4> QED
          BY Zenon, <1>1, <4>1, NormalizesAs DEF norm
      <3> QED
        BY Zenon, <1>1, <1>3, <2>1, <3>2, <3>5, <3>6, AdvancesByFilling DEF next, norm
    <2> QED
      BY <2>3, <2>4, <2>5
  <1> QED
    BY <1>5, <1>6, <1>7

\* Every character of a plain text keeps what MySQL reads of the outcome what it
\* reads of the text, but for the marks.
LEMMA AdvancesAlways ==
  ASSUME NEW n, NEW r, NEW q, AsNormalized(n, r, q), NEW ch \in Char, Calm(ReadChar(MySqlRules, r, ch).tokens)
  PROVE  Advance(n, r, ch)
  <1>1. n.in \in {"code", "quote", "tick", "double", "ended"} /\ (n.in = "code" => r.in \in {"code", "hash"})
    BY DEF AsNormalized, NormalizeState, SamePlace
  <1> QED
    BY <1>1, AdvancesInQuotation, AdvancesInComment, AdvancesInCode, AdvancesAfterDouble, AdvancesInDouble

\* What the rewriting of "" leaves of a plain text MySQL reads as it reads the text,
\* but for the marks of the literals.
LEMMA NormalizedReads ==
  ASSUME NEW t \in Seq(Char), PlainText(t)
  PROVE  /\ Normalize(t) \in Seq(Char) /\ Readable(ReadText(MySqlRules, Normalize(t)))
         /\ ReadText(MySqlRules, Normalize(t)).tokens = Straight(ReadText(MySqlRules, t).tokens)
         /\ OfLast(ReadText(MySqlRules, t))
  <1> DEFINE m == Len(t)
  <1>1. PICK g \in [0 .. m -> NormalizeState] :
           /\ g[0] = Code
           /\ \A k \in 1 .. m : g[k] = NormalizeChar(g[k - 1], t[k])
           /\ Normalized(t) = g[m]
    BY Zenon, NormalizeInOrder
  <1>2. PICK r \in [0 .. m -> ReadState] :
           /\ r[0] = Unread
           /\ \A k \in 1 .. m : r[k] = ReadChar(MySqlRules, r[k - 1], t[k])
           /\ ReadText(MySqlRules, t) = r[m]
    BY Zenon, ReadInOrder
  <1>3. m \in Nat /\ 0 \in 0 .. m /\ m \in 0 .. m /\ \A k \in 1 .. m : t[k] \in Char /\ k - 1 \in 0 .. m /\ k \in 0 .. m
    OBVIOUS
  <1>4. Calm(r[m].tokens) /\ Readable(r[m])
    BY Zenon, <1>2, PlainIsCalm
  <1> HIDE DEF m
  \* Every prefix of the text is calm: from the end to the beginning.
  <1>5. \A k \in 0 .. m : Calm(r[k].tokens)
    <2> DEFINE Quiet == {k \in 0 .. m : Calm(r[m - k].tokens)}
    <2>1. 0 \in Quiet
      BY <1>3, <1>4
    <2>2. ASSUME NEW k \in 1 .. m, k - 1 \in Quiet PROVE k \in Quiet
      <3> DEFINE j == m - (k - 1)
      <3>1. j \in 1 .. m /\ j - 1 = m - k /\ Calm(r[j].tokens) /\ k \in 0 .. m /\ j - 1 \in 0 .. m
        BY <1>3, <2>2
      <3> HIDE DEF j
      <3>2. r[j - 1] \in ReadState /\ t[j] \in Char /\ r[j] = ReadChar(MySqlRules, r[j - 1], t[j])
        BY Zenon, <1>2, <1>3, <3>1
      <3>3. Calm(r[j - 1].tokens)
        BY Zenon, <3>1, <3>2, CalmBefore
      <3> QED
        BY <3>1, <3>3
    <2>3. 0 .. m \subseteq Quiet
      <3> HIDE DEF Quiet
      <3> QED
        BY Zenon, <1>3, <2>1, <2>2, BoundedInduction
    <2> SUFFICES ASSUME NEW k \in 0 .. m PROVE Calm(r[k].tokens)
      OBVIOUS
    <2>4. m - k \in 0 .. m /\ m - (m - k) = k
      BY <1>3
    <2> QED
      BY <2>3, <2>4
  <1> DEFINE Alike == {k \in 0 .. m : \E q : AsNormalized(g[k], r[k], q)}
  <1>6. 0 \in Alike
    <2>1. AsNormalized(Code, Unread, Unread)
      <3>1. Code.in = "code" /\ Code.skip = FALSE /\ Code.out = <<>> /\ Unread.tokens = <<>>
            /\ Unread.in = "code" /\ Unread.skip = FALSE /\ Unread.closed = "none"
        BY DEF Code, Unread
      <3>2. Straight(<<>>) = <<>>
        BY DEF Straight
      <3>3. OfLast(Unread) /\ SamePlace(Code, Unread, Unread)
        BY <3>1 DEF OfLast, SamePlace
      <3>4. MyRead(<<>>, Unread)
        BY Zenon, ReadNothing, MySqlKeepsTo DEF MyRead
      <3> QED
        BY Zenon, <3>1, <3>2, <3>3, <3>4, CodeIsNormal, UnreadIsState DEF AsNormalized
    <2> QED
      BY <1>1, <1>2, <1>3, <2>1
  <1>7. ASSUME NEW k \in 1 .. m, k - 1 \in Alike PROVE k \in Alike
    <2>1. PICK q : AsNormalized(g[k - 1], r[k - 1], q)
      BY <1>7
    <2>2. g[k] = NormalizeChar(g[k - 1], t[k]) /\ r[k] = ReadChar(MySqlRules, r[k - 1], t[k]) /\ t[k] \in Char
          /\ k \in 0 .. m /\ Calm(r[k].tokens)
      BY Zenon, <1>1, <1>2, <1>3, <1>5
    <2>3. Advance(g[k - 1], r[k - 1], t[k])
      BY Zenon, <2>1, <2>2, AdvancesAlways
    <2>4. \E u : AsNormalized(g[k], r[k], u)
      BY Zenon, <2>2, <2>3 DEF Advance
    <2> QED
      BY <2>2, <2>4
  <1>8. PICK q : AsNormalized(g[m], r[m], q)
    <2>1. m \in Alike
      <3> HIDE DEF Alike
      <3>1. 0 .. m \subseteq Alike
        BY Zenon, <1>3, <1>6, <1>7, BoundedInduction
      <3> QED
        BY <1>3, <3>1
    <2> QED
      BY <2>1
  <1> DEFINE s == g[m]
             u == r[m]
  <1>9. Normalize(t) = CASE s.in = "double" /\ s.skip -> s.out \o <<"slash", "quote">>
                         [] s.in \in {"double", "ended"} /\ ~s.skip -> Append(s.out, "quote")
                         [] OTHER -> s.out
    BY Zenon, <1>1 DEF Normalize, Normalized
  <1> HIDE DEF s, u
  <1>10. /\ s \in NormalizeState /\ u \in ReadState /\ OfLast(u) /\ q.tokens = Straight(u.tokens)
         /\ SamePlace(s, u, q) /\ MyRead(s.out, q) /\ u.in \in {"code", "hash"}
    BY Zenon, <1>4, <1>8 DEF AsNormalized, Readable, s, u
  <1>11. s.in \in {"code", "ended"} /\ s.skip = FALSE /\ q \in ReadState
    BY <1>10, MyReadOn DEF SamePlace, NormalizeState, MyRead, IsRead
  <1>12. \E v : MyRead(Normalize(t), v) /\ v.tokens = Straight(u.tokens) /\ v.in \in {"code", "hash"}
    <2>1. CASE s.in = "code"
      <3>1. Normalize(t) = s.out
        BY <1>9, <1>11, <2>1
      <3>2. q.in \in {"code", "hash"}
        BY <1>10, <2>1 DEF SamePlace
      <3> QED
        BY Zenon, <1>10, <3>1, <3>2
    <2>2. CASE s.in = "ended"
      <3> DEFINE v == ReadChar(MySqlRules, q, "quote")
      <3>1. Normalize(t) = Append(s.out, "quote")
        BY <1>9, <1>11, <2>2
      <3>2. q.in = "quote" /\ q.in # "code" /\ q.in # "hash" /\ ~q.skip /\ Closer[q.in] = "quote" /\ "quote" \in Char
        BY <1>10, <2>2, Closers DEF SamePlace, Char
      <3>3. MyRead(Append(s.out, "quote"), v)
        BY Zenon, <1>10, <3>2, MyReadOn
      <3> HIDE DEF v
      <3>4. ReadParts(v, "code", FALSE, "quote", q.tokens)
        BY Zenon, <1>11, <3>2, ReadsAs DEF v
      <3>5. v.in \in {"code", "hash"} /\ v.tokens = q.tokens
        BY <3>4 DEF ReadParts
      <3> QED
        BY Zenon, <1>10, <3>1, <3>3, <3>5
    <2> QED
      BY <1>11, <2>1, <2>2
  <1>13. PICK v : MyRead(Normalize(t), v) /\ v.tokens = Straight(u.tokens) /\ v.in \in {"code", "hash"}
    BY <1>12
  <1>14. ReadText(MySqlRules, Normalize(t)) = v
    BY Zenon, <1>13, ReadAll, MySqlKeepsTo DEF MyRead
  <1>15. Readable(v)
    <2>1. \A i \in DOMAIN u.tokens : u.tokens[i].open # "slash"
      BY Zenon, <1>4 DEF Readable, u
    <2>2. u.tokens \in Seq(Token)
      BY <1>10 DEF ReadState
    <2>3. ASSUME NEW i \in DOMAIN v.tokens PROVE v.tokens[i].open # "slash"
      <3>1. i \in DOMAIN u.tokens /\ v.tokens[i] = Straightened(u.tokens[i])
        BY Zenon, <1>13, <2>2, StraightType
      <3>2. v.tokens[i].open = Mark(u.tokens[i].open)
        BY <3>1 DEF Straightened
      <3> QED
        BY <2>1, <3>1, <3>2 DEF Mark
    <2> QED
      BY Zenon, <1>13, <2>3 DEF Readable
  <1> QED
    BY Zenon, <1>2, <1>10, <1>13, <1>14, <1>15, NormalizeType DEF u

-----------------------------------------------------------------------------
(* What MySQL reads *)

\* Only a quotation or a comment has a content.
Bare(tokens) == \A i \in DOMAIN tokens : tokens[i].open \notin DOMAIN Closer => tokens[i].content = <<>>

\* No character fills a token that is not a quotation or a comment.
LEMMA StaysBare ==
  ASSUME NEW s \in ReadState, NEW ch \in Char, OfLast(s), Bare(s.tokens)
  PROVE  Bare(ReadChar(MySqlRules, s, ch).tokens)
  <1> DEFINE next == ReadChar(MySqlRules, s, ch)
             n == Len(s.tokens)
             fuller == Fuller(s.tokens, ch)
             more == Append(s.tokens, Begun(ch))
  <1>1. /\ s.in \in DOMAIN Closer \cup {"code"} /\ s.skip \in BOOLEAN /\ s.tokens \in Seq(Token)
        /\ s.closed \in {"none", "quote", "double", "tick"} /\ {"quote", "double", "tick"} \subseteq DOMAIN Closer
        /\ n \in Nat /\ DOMAIN s.tokens = 1 .. n
    BY Closers DEF ReadState
  <1> HIDE DEF next
  <1>2. Bare(more)
    <2>1. /\ DOMAIN more = 1 .. (n + 1) /\ more[n + 1].content = <<>>
          /\ \A i \in 1 .. n : more[i] = s.tokens[i]
      BY <1>1 DEF Begun
    <2> HIDE DEF more, n
    <2>2. \A i \in 1 .. (n + 1) : i = n + 1 \/ i \in 1 .. n
      BY <1>1
    <2> QED
      BY Zenon, <1>1, <2>1, <2>2 DEF Bare
  <1>3. ASSUME s.tokens # <<>>, s.tokens[n].open \in DOMAIN Closer PROVE Bare(fuller)
    <2>1. /\ fuller \in Seq(Token) /\ Len(fuller) = n
          /\ fuller[n] = [open |-> s.tokens[n].open, content |-> Append(s.tokens[n].content, ch)]
          /\ \A i \in 1 .. n : i # n => fuller[i] = s.tokens[i]
      BY <1>1, <1>3, FullerType
    <2> HIDE DEF fuller, n
    <2>2. DOMAIN fuller = 1 .. n /\ fuller[n].open \in DOMAIN Closer
      BY <1>3, <2>1
    <2> QED
      BY Zenon, <1>1, <2>1, <2>2 DEF Bare
  <1>4. CASE s.in = "code" /\ ch = s.closed
    <2>1. ReadParts(next, ch, s.skip, s.closed, fuller) /\ s.tokens # <<>>
      BY Zenon, <1>4, ReadsAs DEF next
    <2>2. ch # "none"
      BY DEF Char
    <2>3. s.tokens[n].open \in DOMAIN Closer
      BY <1>1, <1>4, <2>2 DEF OfLast
    <2> QED
      BY Zenon, <1>3, <2>1, <2>3 DEF ReadParts, next
  <1>5. CASE s.in = "code" /\ ch # s.closed
    <2>1. CASE ch \in DOMAIN Closer
      <3>1. ReadParts(next, ch, s.skip, "none", more)
        BY Zenon, <1>5, <2>1, ReadsAs DEF next
      <3> QED
        BY Zenon, <1>2, <3>1 DEF ReadParts, next
    <2>2. CASE ch \notin DOMAIN Closer
      <3>1. ReadParts(next, "code", s.skip, "none", more)
        BY Zenon, <1>5, <2>2, ReadsAs DEF next
      <3> QED
        BY Zenon, <1>2, <3>1 DEF ReadParts, next
    <2> QED
      BY <2>1, <2>2
  <1>6. ASSUME s.in # "code", NEW skip, ReadParts(next, s.in, skip, s.closed, fuller), s.tokens # <<>>
        PROVE  Bare(next.tokens)
    <2>1. s.tokens[n].open \in DOMAIN Closer
      BY <1>1, <1>6 DEF OfLast
    <2> QED
      BY Zenon, <1>3, <1>6, <2>1 DEF ReadParts
  <1>7. CASE s.in # "code" /\ s.skip
    BY Zenon, <1>6, <1>7, ReadsAs DEF next
  <1>8. CASE s.in \in Literals /\ ~s.skip /\ ch = "slash"
    <2>1. ReadParts(next, s.in, TRUE, s.closed, s.tokens)
      BY Zenon, <1>8, ReadsAs DEF next
    <2> QED
      BY Zenon, <2>1 DEF ReadParts, next
  <1>9. CASE s.in # "code" /\ ~s.skip /\ ch = Closer[s.in]
    <2>1. CASE s.in = "hash"
      <3>1. ch = "newline"
        BY <1>9, <2>1, Closers
      <3>2. ReadParts(next, "code", FALSE, "none", s.tokens)
        BY Zenon, <1>9, <2>1, <3>1, ReadsAs DEF next
      <3> QED
        BY Zenon, <3>2 DEF ReadParts, next
    <2>2. CASE s.in # "hash"
      <3>1. ReadParts(next, "code", FALSE, ch, s.tokens)
        BY Zenon, <1>9, <2>2, ReadsAs DEF next
      <3> QED
        BY Zenon, <3>1 DEF ReadParts, next
    <2> QED
      BY <2>1, <2>2
  <1>10. CASE s.in # "code" /\ ~s.skip /\ ch # Closer[s.in] /\ (s.in \notin Literals \/ ch # "slash")
    BY Zenon, <1>6, <1>10, ReadsAs DEF next
  <1> QED
    BY Zenon, <1>1, <1>4, <1>5, <1>7, <1>8, <1>9, <1>10 DEF next

LEMMA ReadsBare ==
  ASSUME NEW t \in Seq(Char)
  PROVE  Bare(ReadText(MySqlRules, t).tokens)
  <1> DEFINE m == Len(t)
  <1>1. PICK r \in [0 .. m -> ReadState] :
           /\ r[0] = Unread
           /\ \A k \in 1 .. m : r[k] = ReadChar(MySqlRules, r[k - 1], t[k])
           /\ ReadText(MySqlRules, t) = r[m]
    BY Zenon, ReadInOrder
  <1>2. m \in Nat /\ 0 \in 0 .. m /\ m \in 0 .. m /\ \A k \in 1 .. m : t[k] \in Char /\ k - 1 \in 0 .. m /\ k \in 0 .. m
    OBVIOUS
  <1> HIDE DEF m
  <1> DEFINE Done == {k \in 0 .. m : OfLast(r[k]) /\ Bare(r[k].tokens)}
  <1>3. 0 \in Done
    <2>1. OfLast(Unread) /\ Bare(Unread.tokens)
      BY DEF OfLast, Bare, Unread
    <2> QED
      BY <1>1, <1>2, <2>1
  <1>4. ASSUME NEW k \in 1 .. m, k - 1 \in Done PROVE k \in Done
    <2>1. OfLast(r[k - 1]) /\ Bare(r[k - 1].tokens) /\ r[k - 1] \in ReadState /\ t[k] \in Char /\ k \in 0 .. m
      BY <1>2, <1>4
    <2>2. OfLast(r[k]) /\ Bare(r[k].tokens)
      BY Zenon, <1>1, <2>1, StaysOfLast, StaysBare
    <2> QED
      BY <2>1, <2>2
  <1>5. m \in Done
    <2> HIDE DEF Done
    <2>1. 0 .. m \subseteq Done
      BY Zenon, <1>2, <1>3, <1>4, BoundedInduction
    <2> QED
      BY <1>2, <2>1
  <1> QED
    BY Zenon, <1>1, <1>5

-----------------------------------------------------------------------------
(* PostgreSQL's reading *)

PgToken == [open : NewChar, content : Seq(NewChar)]

PgState ==
  {s \in [in : {"code", "quote", "double"}, skip : {FALSE}, closed : {"none", "quote", "double"},
          tokens : Seq(PgToken)] :
     s.in # "code" \/ s.closed # "none" => s.tokens # <<>>}

\* What a character in a quotation does to PostgreSQL's reading.
LEMMA FullerPgType ==
  ASSUME NEW tokens \in Seq(PgToken), tokens # <<>>, NEW ch \in NewChar
  PROVE  Fuller(tokens, ch) \in Seq(PgToken) /\ Fuller(tokens, ch) # <<>>
  <1> DEFINE n == Len(tokens)
             fuller == [open |-> tokens[n].open, content |-> Append(tokens[n].content, ch)]
  <1>1. n \in 1 .. n /\ tokens[n] \in PgToken /\ n \in Nat
    OBVIOUS
  <1>2. fuller \in PgToken
    <2>1. Append(tokens[n].content, ch) \in Seq(NewChar)
      BY <1>1 DEF PgToken
    <2> HIDE DEF n
    <2> QED
      BY <1>1, <2>1 DEF PgToken
  <1>3. Fuller(tokens, ch) = [tokens EXCEPT ![n] = fuller]
    BY Zenon DEF Fuller
  <1> HIDE DEF fuller
  <1>4. Fuller(tokens, ch) \in Seq(PgToken) /\ Len(Fuller(tokens, ch)) = n
    BY <1>1, <1>2, <1>3
  <1> QED
    BY <1>1, <1>4

LEMMA PgQuotes ==
  ASSUME NEW s \in PgState, NEW ch \in NewChar, s.tokens # <<>>
  PROVE  Quotes(s, ch) = [s EXCEPT !.tokens = Fuller(s.tokens, ch)]
  <1> DEFINE n == Len(s.tokens)
             latest == s.tokens[n]
             f == [latest EXCEPT !.content = Append(latest.content, ch)]
             ts == [s.tokens EXCEPT ![n] = f]
  <1>1. s.tokens \in Seq(PgToken) /\ n \in DOMAIN s.tokens
    BY DEF PgState
  <1>2. latest \in PgToken
    <2> HIDE DEF n
    <2> QED
      BY <1>1
  <1>3. f = [open |-> latest.open, content |-> Append(latest.content, ch)]
    <2> HIDE DEF latest
    <2> QED
      BY <1>2 DEF PgToken
  <1>4. Quotes(s, ch) = [s EXCEPT !.tokens = ts]
    BY Zenon DEF Quotes
  <1>5. Fuller(s.tokens, ch) = ts
    BY Zenon, <1>3 DEF Fuller
  <1> QED
    BY Zenon, <1>4, <1>5

\* What PostgreSQL's reading makes of each part of a state.
LEMMA PgReadsAs ==
  ASSUME NEW s \in PgState, NEW ch \in NewChar, NEW next, next = ReadChar(PgRules, s, ch)
  PROVE  /\ next \in PgState
         /\ s.in = "code" /\ ch = s.closed => ReadParts(next, ch, FALSE, s.closed, Fuller(s.tokens, ch))
         /\ s.in = "code" /\ ch # s.closed /\ ch \in Literals =>
              ReadParts(next, ch, FALSE, "none", Append(s.tokens, Begun(ch)))
         /\ s.in = "code" /\ ch # s.closed /\ ch \notin Literals =>
              ReadParts(next, "code", FALSE, "none", Append(s.tokens, Begun(ch)))
         /\ s.in # "code" /\ ch = s.in => ReadParts(next, "code", FALSE, ch, s.tokens)
         /\ s.in # "code" /\ ch # s.in => ReadParts(next, s.in, FALSE, s.closed, Fuller(s.tokens, ch))
  <1>1. PgRules.opens = Literals /\ PgRules.escapes = {}
    BY DEF PgRules, Literals
  <1>2. /\ s.in \in {"code", "quote", "double"} /\ s.skip = FALSE /\ s.closed \in {"none", "quote", "double"}
        /\ s.tokens \in Seq(PgToken) /\ (s.in # "code" \/ s.closed # "none" => s.tokens # <<>>)
    BY DEF PgState
  <1>3. ch # "none" /\ ch # "code"
    BY DEF NewChar, Char
  <1>4. s.tokens # <<>> => Fuller(s.tokens, ch) \in Seq(PgToken) /\ Fuller(s.tokens, ch) # <<>>
    BY Zenon, <1>2, FullerPgType
  <1>5. Append(s.tokens, Begun(ch)) \in Seq(PgToken) /\ Append(s.tokens, Begun(ch)) # <<>>
    <2>1. Begun(ch) \in PgToken
      BY DEF Begun, PgToken
    <2> QED
      BY <1>2, <2>1
  <1>6. CASE s.in = "code" /\ ch = s.closed
    <2>1. next = [Quotes(s, ch) EXCEPT !.in = ch]
      BY <1>6 DEF ReadChar
    <2>2. Quotes(s, ch) = [s EXCEPT !.tokens = Fuller(s.tokens, ch)] /\ s.tokens # <<>>
      BY <1>2, <1>3, <1>6, PgQuotes
    <2>3. ReadParts(next, ch, FALSE, s.closed, Fuller(s.tokens, ch)) /\ next \in PgState
      BY <1>2, <1>3, <1>4, <1>6, <2>1, <2>2 DEF PgState, ReadParts
    <2> QED
      BY <1>6, <2>3
  <1>7. CASE s.in = "code" /\ ch # s.closed
    <2> DEFINE in == IF ch \in Literals THEN ch ELSE "code"
    <2>1. next = [s EXCEPT !.in = in, !.closed = "none", !.tokens = Append(s.tokens, Begun(ch))]
      BY <1>1, <1>7 DEF ReadChar, Begun
    <2>2. in \in {"code", "quote", "double"} /\ (ch \in Literals => in = ch) /\ (ch \notin Literals => in = "code")
      BY DEF Literals
    <2> HIDE DEF in
    <2>3. ReadParts(next, in, FALSE, "none", Append(s.tokens, Begun(ch))) /\ next \in PgState
      BY <1>2, <1>5, <2>1, <2>2 DEF PgState, ReadParts
    <2> QED
      BY <1>7, <2>2, <2>3
  <1>8. CASE s.in # "code"
    <2>1. Closer[s.in] = s.in /\ s.in # "hash"
      BY <1>2, <1>8, Closers
    <2>2. CASE ch = s.in
      <3>1. next = [s EXCEPT !.in = "code", !.closed = ch]
        BY <1>1, <1>2, <1>8, <2>1, <2>2 DEF ReadChar
      <3>2. ReadParts(next, "code", FALSE, ch, s.tokens) /\ next \in PgState
        BY <1>2, <1>8, <2>2, <3>1 DEF PgState, ReadParts
      <3> QED
        BY <1>8, <2>2, <3>2
    <2>3. CASE ch # s.in
      <3>1. next = Quotes(s, ch)
        BY <1>1, <1>2, <1>8, <2>1, <2>3 DEF ReadChar
      <3>2. Quotes(s, ch) = [s EXCEPT !.tokens = Fuller(s.tokens, ch)]
        BY <1>2, <1>8, PgQuotes
      <3>3. ReadParts(next, s.in, FALSE, s.closed, Fuller(s.tokens, ch)) /\ next \in PgState
        BY <1>2, <1>4, <1>8, <3>1, <3>2 DEF PgState, ReadParts
      <3> QED
        BY <1>8, <2>3, <3>3
    <2> QED
      BY <2>2, <2>3
  <1> QED
    BY <1>6, <1>7, <1>8

LEMMA PgKeepsTo == KeepsTo(PgRules, PgState, NewChar)
  <1>1. Unread \in PgState
    BY DEF Unread, PgState
  <1>2. \A s \in PgState, ch \in NewChar : ReadChar(PgRules, s, ch) \in PgState
    BY Zenon, PgReadsAs
  <1> QED
    BY Zenon, <1>1, <1>2 DEF KeepsTo

-----------------------------------------------------------------------------
(* What PostgreSQL is told *)

PgKinds == [quote |-> "literal", double |-> "name", number |-> "param"]
PgWord == [kind : NewChar \cup {"literal", "name"}, content : Seq(NewChar)]

\* What a token tells PostgreSQL.
LEMMA PgSayNextType ==
  ASSUME NEW said \in Seq(PgWord), NEW k \in PgToken
  PROVE  SayNext(PgKinds, said, k) \in Seq(PgWord)
  <1> DEFINE word == [kind |-> IF k.open \in DOMAIN PgKinds THEN PgKinds[k.open] ELSE k.open,
                      content |-> k.content]
  <1>1. word \in PgWord
    <2>1. DOMAIN PgKinds = {"quote", "double", "number"}
          /\ PgKinds["quote"] = "literal" /\ PgKinds["double"] = "name" /\ PgKinds["number"] = "param"
      BY DEF PgKinds
    <2> QED
      BY <2>1 DEF PgWord, PgToken, NewChar, Char
  <1>2. SayNext(PgKinds, said, k) = IF k.open \in {"newline", "hash"} THEN said ELSE Append(said, word)
    BY DEF SayNext
  <1> HIDE DEF word
  <1>3. Append(said, word) \in Seq(PgWord)
    BY <1>1
  <1> QED
    BY <1>2, <1>3

PgSayer == Sayer(PgKinds, Seq(PgWord), PgToken)

\* What PostgreSQL is told by tokens.
IsSaid(tokens, said) ==
  tokens \in Seq(PgToken) /\ said \in Seq(PgWord) /\ Leads(PgSayer, Seq(PgWord), <<>>, tokens, said)

LEMMA SayerType ==
  /\ PgSayer \in [Seq(PgWord) \X PgToken -> Seq(PgWord)] /\ <<>> \in Seq(PgWord)
  /\ \A said \in Seq(PgWord), k \in PgToken : PgSayer[<<said, k>>] = SayNext(PgKinds, said, k)
  BY PgSayNextType DEF Sayer, PgSayer

\* What PostgreSQL is told by no tokens, and by one more.
LEMMA SaidNothing == IsSaid(<<>>, <<>>)
  <1>1. <<>> \in Seq(PgToken) /\ <<>> \in Seq(PgWord)
    OBVIOUS
  <1> QED
    BY Zenon, <1>1, LeadsNowhere DEF IsSaid

LEMMA SaidOn ==
  ASSUME NEW tokens, NEW said, IsSaid(tokens, said), NEW k \in PgToken
  PROVE  IsSaid(Append(tokens, k), SayNext(PgKinds, said, k))
  <1>1. tokens \in Seq(PgToken) /\ said \in Seq(PgWord) /\ Leads(PgSayer, Seq(PgWord), <<>>, tokens, said)
    BY Zenon DEF IsSaid
  <1>2. PgSayer[<<said, k>>] = SayNext(PgKinds, said, k)
    BY Zenon, <1>1, SayerType
  <1>3. Append(tokens, k) \in Seq(PgToken)
    BY <1>1
  <1>4. Leads(PgSayer, Seq(PgWord), <<>>, Append(tokens, k), PgSayer[<<said, k>>]) /\ PgSayer[<<said, k>>] \in Seq(PgWord)
    BY Zenon, <1>1, SayerType, LeadsOn
  <1> QED
    BY Zenon, <1>2, <1>3, <1>4 DEF IsSaid

\* What PostgreSQL is told by all tokens of a text.
LEMMA SaidAll ==
  ASSUME NEW r, NEW said, IsSaid(r.tokens, said)
  PROVE  Says(r, PgKinds) = said
  <1> DEFINE Words == Seq(PgWord)
  <1>1. r.tokens \in Seq(PgToken) /\ Leads(PgSayer, Words, <<>>, r.tokens, said)
    BY Zenon DEF IsSaid
  <1>2. SaysOf(PgKinds, Words, PgToken)
    BY Zenon, PgSayNextType, SayerType DEF SaysOf
  <1>3. PgSayer = Sayer(PgKinds, Words, PgToken)
    BY Zenon DEF PgSayer
  <1> HIDE DEF Words
  <1>4. Leads(PgSayer, Words, <<>>, r.tokens, Says(r, PgKinds))
    BY Zenon, <1>1, <1>2, <1>3, SaysByKinds DEF Leads
  <1> QED
    BY Zenon, <1>1, <1>4, LeadsOnce

-----------------------------------------------------------------------------
(* A printed text as it is scanned and read *)

Quote(ch) == IF ch = "tick" THEN "double" ELSE ch

\* Every character of a text becomes one of PostgreSQL's.
LEMMA BackticksAppended ==
  ASSUME NEW v \in Seq(Char), NEW ch \in Char
  PROVE  /\ ReplaceBackticks(Append(v, ch)) = Append(ReplaceBackticks(v), Quote(ch))
         /\ ReplaceBackticks(v) \in Seq(Char) /\ Quote(ch) \in Char
  <1> DEFINE n == Len(v)
             a == ReplaceBackticks(Append(v, ch))
             b == Append(ReplaceBackticks(v), Quote(ch))
  <1>1. n \in Nat /\ DOMAIN v = 1 .. n /\ DOMAIN Append(v, ch) = 1 .. (n + 1) /\ Append(v, ch)[n + 1] = ch
        /\ \A i \in 1 .. n : Append(v, ch)[i] = v[i] /\ v[i] \in Char
    OBVIOUS
  <1>2. \A x \in Char : Quote(x) \in Char
    BY DEF Quote, Char
  <1>3. a = [i \in 1 .. (n + 1) |-> Quote(Append(v, ch)[i])] /\ ReplaceBackticks(v) = [i \in 1 .. n |-> Quote(v[i])]
    BY Zenon, <1>1 DEF ReplaceBackticks, Quote
  <1> HIDE DEF n
  <1>4. ReplaceBackticks(v) \in Seq(Char) /\ Len(ReplaceBackticks(v)) = n
        /\ \A i \in 1 .. n : ReplaceBackticks(v)[i] = Quote(v[i])
    <2>1. \A i \in 1 .. n : Quote(v[i]) \in Char
      BY <1>1, <1>2
    <2> QED
      BY <1>1, <1>3, <2>1, IsASeq
  <1>5. b \in Seq(Char) /\ Len(b) = n + 1 /\ b[n + 1] = Quote(ch) /\ \A i \in 1 .. n : b[i] = Quote(v[i])
    <2>1. Quote(ch) \in Char
      BY <1>2
    <2> HIDE DEF b
    <2> QED
      BY <1>1, <1>4, <2>1 DEF b
  <1>6. \A i \in 1 .. (n + 1) : Quote(Append(v, ch)[i]) = b[i]
    <2>1. \A i \in 1 .. (n + 1) : i = n + 1 \/ i \in 1 .. n
      BY <1>1
    <2> QED
      BY Zenon, <1>1, <1>5, <2>1
  <1> HIDE DEF b
  <1>7. b = [i \in 1 .. (n + 1) |-> b[i]]
    BY <1>1, <1>5
  <1>8. a = b
    BY Zenon, <1>3, <1>6, <1>7
  <1> QED
    BY Zenon, <1>2, <1>4, <1>8 DEF b

\* What the scan and PostgreSQL make of a printed text.
Both(v, s, p) ==
  /\ v \in Seq(Char) /\ IsScanned(ReplaceBackticks(v), s) /\ s \in ScanState /\ p \in PgState
  /\ IsRead(PgRules, PgState, NewChar, s.out, p)

\* The scan and PostgreSQL read one character on.
LEMMA BothOn ==
  ASSUME NEW v, NEW s, NEW p, Both(v, s, p), NEW ch \in Char, NEW x, x = Quote(ch),
         NEW y \in NewChar, ScanNext(s, x).out = Append(s.out, y)
  PROVE  Both(Append(v, ch), ScanNext(s, x), ReadChar(PgRules, p, y))
  <1>1. v \in Seq(Char) /\ s \in ScanState /\ p \in PgState
        /\ IsScanned(ReplaceBackticks(v), s) /\ IsRead(PgRules, PgState, NewChar, s.out, p)
    BY Zenon DEF Both
  <1>2. x \in Char /\ ReplaceBackticks(Append(v, ch)) = Append(ReplaceBackticks(v), x)
    BY Zenon, <1>1, BackticksAppended
  <1>3. IsScanned(ReplaceBackticks(Append(v, ch)), ScanNext(s, x))
    BY Zenon, <1>1, <1>2, ScannedOn
  <1>4. IsRead(PgRules, PgState, NewChar, ScanNext(s, x).out, ReadChar(PgRules, p, y))
    BY Zenon, <1>1, PgKeepsTo, ReadOn
  <1>5. Append(v, ch) \in Seq(Char)
    BY <1>1
  <1>6. ScanNext(s, x) \in ScanState /\ ReadChar(PgRules, p, y) \in PgState
    BY Zenon, <1>1, <1>2, ScanNextType, PgReadsAs
  <1> QED
    BY Zenon, <1>3, <1>4, <1>5, <1>6 DEF Both

\* What the scan makes of each part of a state.
ScanParts(next, in, out) == next.in = in /\ next.skip = FALSE /\ next.out = out

\* What a character does to each part of the scan, case by case.
LEMMA ScansAs ==
  ASSUME NEW s \in ScanState, NEW ch \in Char, s.skip = FALSE, NEW next, next = ScanNext(s, ch)
  PROVE  /\ s.in = "code" /\ ch \in DOMAIN Closer => ScanParts(next, ch, Append(s.out, ch))
         /\ s.in = "code" /\ ch = "param" => ScanParts(next, "code", Append(s.out, "number"))
         /\ s.in = "code" /\ ch \notin DOMAIN Closer \cup {"param"} => ScanParts(next, "code", Append(s.out, ch))
         /\ s.in \in Literals /\ ch = s.in => ScanParts(next, "code", Append(s.out, ch))
         /\ s.in \in Literals /\ ch \notin {s.in, "slash"} => ScanParts(next, s.in, Append(s.out, ch))
  <1>1. CASE s.in = "code"
    <2>1. next = ScanCode(s, ch)
      BY <1>1 DEF ScanNext
    <2> QED
      BY <1>1, <2>1, Closers DEF ScanCode, ScanState, Literals, ScanParts
  <1>2. CASE s.in \in Literals
    <2>1. next = ScanQuoted(s, ch) /\ Closer[s.in] = s.in /\ s.in # "slash"
      BY <1>2, Closers DEF ScanNext, Literals
    <2> QED
      BY <1>2, <2>1 DEF ScanQuoted, ScanState, Literals, ScanParts
  <1> QED
    BY <1>1, <1>2

\* What is printed as it is, and the marks of what is printed as a quotation.
Spoken == {"word", "param", "newline"}
Marks == {"quote", "tick"}

\* A printed text up to the end of a token, and up to a place in a quotation.
AtToken(v, tokens) ==
  \E s, p : /\ Both(v, s, p) /\ s.in = "code" /\ s.skip = FALSE
            /\ p.in = "code" /\ p.closed = "none" /\ p.tokens = tokens

InQuotation(v, mark, tokens) ==
  /\ mark \in Literals
  /\ \E s, p : /\ Both(v, s, p) /\ s.in = mark /\ s.skip = FALSE
               /\ p.in = mark /\ p.tokens = tokens

AfterQuotation(v, mark, tokens) ==
  \E s, p : /\ Both(v, s, p) /\ s.in = "code" /\ s.skip = FALSE
            /\ p.in = "code" /\ p.closed = mark /\ p.tokens = tokens

\* A word, a ? or a space is printed as it is; a ? becomes a numbered parameter.
LEMMA WordOn ==
  ASSUME NEW v, NEW tokens, AtToken(v, tokens), NEW ch \in Spoken,
         NEW y, y = (IF ch = "param" THEN "number" ELSE ch)
  PROVE  AtToken(Append(v, ch), Append(tokens, Begun(y))) /\ v \in Seq(Char) /\ tokens \in Seq(PgToken)
  <1>1. PICK s, p : /\ Both(v, s, p) /\ s.in = "code" /\ s.skip = FALSE
                    /\ p.in = "code" /\ p.closed = "none" /\ p.tokens = tokens
    BY Zenon DEF AtToken
  <1>2. v \in Seq(Char) /\ s \in ScanState /\ p \in PgState
    BY Zenon, <1>1 DEF Both
  <1>3. /\ ch \in Char /\ ch = Quote(ch) /\ y \in NewChar /\ y # "none" /\ y \notin Literals
        /\ (ch = "param" \/ ch \notin DOMAIN Closer \cup {"param"})
    BY Closers DEF Char, NewChar, Quote, Literals, Spoken, Marks
  <1> DEFINE scan == ScanNext(s, ch)
             read == ReadChar(PgRules, p, y)
  <1>4. ScanParts(scan, "code", Append(s.out, y))
    <2> HIDE DEF scan
    <2>1. CASE ch = "param"
      <3>1. ScanParts(scan, "code", Append(s.out, "number"))
        BY Zenon, <1>1, <1>2, <1>3, <2>1, ScansAs DEF scan
      <3> QED
        BY <2>1, <3>1
    <2>2. CASE ch # "param"
      <3>1. ScanParts(scan, "code", Append(s.out, ch))
        BY Zenon, <1>1, <1>2, <1>3, <2>2, ScansAs DEF scan
      <3> QED
        BY <2>2, <3>1
    <2> QED
      BY <2>1, <2>2
  <1>5. Both(Append(v, ch), scan, read)
    BY Zenon, <1>1, <1>3, <1>4, BothOn DEF ScanParts
  <1> HIDE DEF scan, read
  <1>6. ReadParts(read, "code", FALSE, "none", Append(tokens, Begun(y)))
    <2>1. y # p.closed
      BY <1>1, <1>3
    <2> QED
      BY Zenon, <1>1, <1>2, <1>3, <2>1, PgReadsAs DEF read
  <1>7. AtToken(Append(v, ch), Append(tokens, Begun(y)))
    BY Zenon, <1>4, <1>5, <1>6 DEF AtToken, ReadParts, ScanParts
  <1> QED
    BY <1>1, <1>2, <1>7 DEF PgState

\* A quotation begins for the scan and for PostgreSQL with the same mark,
LEMMA QuoteOn ==
  ASSUME NEW v, NEW tokens, AtToken(v, tokens), NEW ch \in Marks, NEW x, x = Quote(ch)
  PROVE  InQuotation(Append(v, ch), x, Append(tokens, Begun(x))) /\ v \in Seq(Char) /\ tokens \in Seq(PgToken)
  <1>1. PICK s, p : /\ Both(v, s, p) /\ s.in = "code" /\ s.skip = FALSE
                    /\ p.in = "code" /\ p.closed = "none" /\ p.tokens = tokens
    BY Zenon DEF AtToken
  <1>2. v \in Seq(Char) /\ s \in ScanState /\ p \in PgState
    BY Zenon, <1>1 DEF Both
  <1>3. ch \in Char /\ x \in Char /\ x \in NewChar /\ x # "none" /\ x \in Literals /\ x \in DOMAIN Closer
    BY Closers DEF Char, NewChar, Quote, Literals, Spoken, Marks
  <1> DEFINE scan == ScanNext(s, x)
             read == ReadChar(PgRules, p, x)
  <1>4. ScanParts(scan, x, Append(s.out, x))
    <2> HIDE DEF scan
    <2>1. s \in ScanState /\ s.in = "code" /\ s.skip = FALSE /\ x \in Char /\ x \in DOMAIN Closer
      BY <1>1, <1>2, <1>3
    <2> QED
      BY Zenon, <2>1, ScansAs DEF scan
  <1>5. Both(Append(v, ch), scan, read)
    BY Zenon, <1>1, <1>3, <1>4, BothOn DEF ScanParts
  <1> HIDE DEF scan, read
  <1>6. ReadParts(read, x, FALSE, "none", Append(tokens, Begun(x)))
    <2>1. x # p.closed
      BY <1>1, <1>3
    <2> QED
      BY Zenon, <1>1, <1>2, <1>3, <2>1, PgReadsAs DEF read
  <1>7. InQuotation(Append(v, ch), x, Append(tokens, Begun(x)))
    BY Zenon, <1>3, <1>4, <1>5, <1>6 DEF InQuotation, ReadParts, ScanParts
  <1> QED
    BY <1>1, <1>2, <1>7 DEF PgState

\* goes on with any character but that mark, a \ and a `,
LEMMA FillOn ==
  ASSUME NEW v, NEW mark, NEW tokens, InQuotation(v, mark, tokens), NEW ch \in Char, ch \notin {"slash", "tick", mark}
  PROVE  InQuotation(Append(v, ch), mark, Fuller(tokens, ch))
  <1>1. PICK s, p : /\ Both(v, s, p) /\ s.in = mark /\ s.skip = FALSE
                    /\ p.in = mark /\ p.tokens = tokens
    BY Zenon DEF InQuotation
  <1>2. v \in Seq(Char) /\ s \in ScanState /\ p \in PgState /\ mark \in Literals
    BY Zenon, <1>1 DEF Both, InQuotation
  <1>3. ch = Quote(ch) /\ ch \in NewChar /\ ch \notin {mark, "slash"} /\ ch # mark /\ mark # "code"
    BY <1>2 DEF NewChar, Quote, Literals
  <1>31. ch \notin {s.in, "slash"} /\ s.in \in Literals
    BY <1>1, <1>2, <1>3
  <1> DEFINE scan == ScanNext(s, ch)
             read == ReadChar(PgRules, p, ch)
  <1>4. ScanParts(scan, mark, Append(s.out, ch))
    <2> HIDE DEF scan
    <2> QED
      BY Zenon, <1>1, <1>2, <1>3, <1>31, ScansAs DEF scan
  <1>5. Both(Append(v, ch), scan, read)
    BY Zenon, <1>1, <1>3, <1>4, BothOn DEF ScanParts
  <1> HIDE DEF scan, read
  <1>6. ReadParts(read, mark, FALSE, p.closed, Fuller(tokens, ch))
    BY Zenon, <1>1, <1>2, <1>3, PgReadsAs DEF read
  <1> QED
    BY Zenon, <1>2, <1>4, <1>5, <1>6 DEF InQuotation, ReadParts, ScanParts

\* The end of a quotation: a second mark goes on with it, a line feed does not.
LEMMA ShutOn ==
  ASSUME NEW v, NEW mark, NEW tokens, InQuotation(v, mark, tokens), NEW ch \in Marks, mark = Quote(ch)
  PROVE  AfterQuotation(Append(v, ch), mark, tokens)
  <1>1. PICK s, p : /\ Both(v, s, p) /\ s.in = mark /\ s.skip = FALSE
                    /\ p.in = mark /\ p.tokens = tokens
    BY Zenon DEF InQuotation
  <1>2. v \in Seq(Char) /\ s \in ScanState /\ p \in PgState /\ mark \in Literals
    BY Zenon, <1>1 DEF Both, InQuotation
  <1>3. ch \in Char /\ mark \in Char /\ mark \in NewChar /\ mark # "code"
    BY <1>2 DEF NewChar, Char, Literals, Marks
  <1> DEFINE scan == ScanNext(s, mark)
             read == ReadChar(PgRules, p, mark)
  <1>4. ScanParts(scan, "code", Append(s.out, mark))
    <2> HIDE DEF scan
    <2> QED
      BY Zenon, <1>1, <1>2, <1>3, ScansAs DEF scan
  <1>5. Both(Append(v, ch), scan, read)
    BY Zenon, <1>1, <1>3, <1>4, BothOn DEF ScanParts
  <1> HIDE DEF scan, read
  <1>6. ReadParts(read, "code", FALSE, mark, tokens)
    BY Zenon, <1>1, <1>2, <1>3, PgReadsAs DEF read
  <1> QED
    BY Zenon, <1>4, <1>5, <1>6 DEF AfterQuotation, ReadParts, ScanParts

\* goes on with the mark doubled,
LEMMA DoubleOn ==
  ASSUME NEW v, NEW tokens, InQuotation(v, "quote", tokens)
  PROVE  InQuotation(Append(Append(v, "quote"), "quote"), "quote", Fuller(tokens, "quote"))
  <1>1. "quote" = Quote("quote") /\ "quote" \in Marks /\ "quote" \in Char /\ "quote" \in NewChar
        /\ "quote" \in Literals /\ "quote" \in DOMAIN Closer
    BY Closers DEF Quote, Char, NewChar, Literals, Marks
  <1>0. AfterQuotation(Append(v, "quote"), "quote", tokens)
    BY Zenon, <1>1, ShutOn
  <1>2. PICK s, p : /\ Both(Append(v, "quote"), s, p) /\ s.in = "code" /\ s.skip = FALSE
                    /\ p.in = "code" /\ p.closed = "quote" /\ p.tokens = tokens
    BY Zenon, <1>0 DEF AfterQuotation
  <1>3. s \in ScanState /\ p \in PgState
    BY Zenon, <1>2 DEF Both
  <1> DEFINE scan == ScanNext(s, "quote")
             read == ReadChar(PgRules, p, "quote")
  <1>4. ScanParts(scan, "quote", Append(s.out, "quote"))
    <2> HIDE DEF scan
    <2> QED
      BY Zenon, <1>1, <1>2, <1>3, ScansAs DEF scan
  <1>5. Both(Append(Append(v, "quote"), "quote"), scan, read)
    BY Zenon, <1>1, <1>2, <1>4, BothOn DEF ScanParts
  <1> HIDE DEF scan, read
  <1>6. ReadParts(read, "quote", FALSE, "quote", Fuller(tokens, "quote"))
    BY Zenon, <1>1, <1>2, <1>3, PgReadsAs DEF read
  <1> QED
    BY Zenon, <1>1, <1>4, <1>5, <1>6 DEF InQuotation, ReadParts, ScanParts

\* and ends with the mark and a line feed.
LEMMA CloseOn ==
  ASSUME NEW v, NEW mark, NEW tokens, InQuotation(v, mark, tokens), NEW ch \in Marks, mark = Quote(ch)
  PROVE  AtToken(Append(Append(v, ch), "newline"), Append(tokens, Begun("newline")))
  <1>0. AfterQuotation(Append(v, ch), mark, tokens)
    BY Zenon, ShutOn
  <1>1. PICK s, p : /\ Both(Append(v, ch), s, p) /\ s.in = "code" /\ s.skip = FALSE
                    /\ p.in = "code" /\ p.closed = mark /\ p.tokens = tokens
    BY Zenon, <1>0 DEF AfterQuotation
  <1>2. s \in ScanState /\ p \in PgState /\ mark \in Literals
    BY Zenon, <1>1 DEF Both, InQuotation
  <1>3. "newline" = Quote("newline") /\ "newline" \in Char /\ "newline" \in NewChar /\ "newline" # mark
        /\ "newline" \notin Literals /\ "newline" \notin DOMAIN Closer \cup {"param"}
    BY <1>2, Closers DEF Quote, Char, NewChar, Literals
  <1> DEFINE scan == ScanNext(s, "newline")
             read == ReadChar(PgRules, p, "newline")
  <1>4. ScanParts(scan, "code", Append(s.out, "newline"))
    <2> HIDE DEF scan
    <2> QED
      BY Zenon, <1>1, <1>2, <1>3, ScansAs DEF scan
  <1>5. Both(Append(Append(v, ch), "newline"), scan, read)
    BY Zenon, <1>1, <1>3, <1>4, BothOn DEF ScanParts
  <1> HIDE DEF scan, read
  <1>6. ReadParts(read, "code", FALSE, "none", Append(tokens, Begun("newline")))
    BY Zenon, <1>1, <1>2, <1>3, PgReadsAs DEF read
  <1> QED
    BY Zenon, <1>4, <1>5, <1>6 DEF AtToken, ReadParts, ScanParts

-----------------------------------------------------------------------------
(* A token as it is printed *)

\* To fill a token that was just begun.
LEMMA FullerOfLast ==
  ASSUME NEW tokens \in Seq(PgToken), NEW open \in NewChar, NEW content \in Seq(NewChar), NEW ch \in NewChar
  PROVE  Fuller(Append(tokens, [open |-> open, content |-> content]), ch)
           = Append(tokens, [open |-> open, content |-> Append(content, ch)])
  <1> DEFINE k == [open |-> open, content |-> content]
             f == [open |-> open, content |-> Append(content, ch)]
             n == Len(tokens) + 1
             ts == Append(tokens, k)
  <1>1. k \in PgToken /\ f \in PgToken
    <2>1. Append(content, ch) \in Seq(NewChar)
      OBVIOUS
    <2> QED
      BY <2>1 DEF PgToken
  <1>2. k.open = open /\ k.content = content
    OBVIOUS
  <1> HIDE DEF k, f
  <1>3. /\ n \in Nat /\ Len(ts) = n /\ ts[n] = k /\ ts \in Seq(PgToken) /\ n \in 1 .. n
        /\ \A i \in 1 .. n : i # n => ts[i] = tokens[i]
    BY <1>1
  <1>4. Fuller(ts, ch) = [ts EXCEPT ![n] = f]
    <2> HIDE DEF ts, n
    <2> QED
      BY Zenon, <1>2, <1>3 DEF Fuller, f
  <1>5. [ts EXCEPT ![n] = f] = Append(tokens, f)
    <2> DEFINE a == [ts EXCEPT ![n] = f]
               b == Append(tokens, f)
    <2>1. a \in Seq(PgToken) /\ Len(a) = n /\ \A i \in 1 .. n : a[i] = IF i = n THEN f ELSE tokens[i]
      <3> HIDE DEF ts, n
      <3> QED
        BY <1>1, <1>3
    <2>2. b \in Seq(PgToken) /\ Len(b) = n /\ \A i \in 1 .. n : b[i] = IF i = n THEN f ELSE tokens[i]
      BY <1>1
    <2> HIDE DEF a, b
    <2>3. a = b
      BY <2>1, <2>2
    <2> QED
      BY <2>3 DEF a, b
  <1> QED
    BY Zenon, <1>4, <1>5 DEF f, k

\* The beginning of a sequence.
Beginning(seq, j) == [i \in 1 .. j |-> seq[i]]

\* A sequence grows from nothing, one element after the other.
LEMMA Beginnings ==
  ASSUME NEW S, NEW seq \in Seq(S)
  PROVE  /\ Beginning(seq, 0) = <<>> /\ Beginning(seq, Len(seq)) = seq
         /\ \A j \in 1 .. Len(seq) : /\ Beginning(seq, j - 1) \in Seq(S) /\ seq[j] \in S
                                     /\ Append(Beginning(seq, j - 1), seq[j]) = Beginning(seq, j)
  <1>1. Beginning(seq, 0) = <<>> /\ Beginning(seq, Len(seq)) = seq
    BY DEF Beginning
  <1>2. ASSUME NEW j \in 1 .. Len(seq)
        PROVE  /\ Beginning(seq, j - 1) \in Seq(S) /\ seq[j] \in S
               /\ Append(Beginning(seq, j - 1), seq[j]) = Beginning(seq, j)
    <2> DEFINE a == Beginning(seq, j - 1)
               b == Beginning(seq, j)
    <2>1. j - 1 \in Nat /\ j \in Nat /\ \A i \in 1 .. j : seq[i] \in S
      OBVIOUS
    <2>2. a \in Seq(S) /\ Len(a) = j - 1 /\ \A i \in 1 .. (j - 1) : a[i] = seq[i]
      BY <2>1, IsASeq DEF Beginning
    <2>3. b \in Seq(S) /\ Len(b) = j /\ \A i \in 1 .. j : b[i] = seq[i]
      BY <2>1, IsASeq DEF Beginning
    <2> HIDE DEF a, b
    <2>4. Append(a, seq[j]) = b
      <3> DEFINE c == Append(a, seq[j])
      <3>1. c \in Seq(S) /\ Len(c) = j /\ \A i \in 1 .. j : c[i] = seq[i]
        BY <2>1, <2>2
      <3> HIDE DEF c
      <3>2. c = b
        BY <2>1, <2>3, <3>1
      <3> QED
        BY <3>2 DEF c
    <2> QED
      BY <2>2, <2>4 DEF a, b
  <1> QED
    BY <1>1, <1>2

\* Texts one after the other.
LEMMA AppendedPair ==
  ASSUME NEW a \in Seq(Char), NEW x \in Char, NEW y \in Char
  PROVE  a \o <<x, y>> = Append(Append(a, x), y)
  <1>1. <<x>> \in Seq(Char) /\ <<y>> \in Seq(Char)
    OBVIOUS
  <1>2. <<x, y>> = <<x>> \o <<y>>
    <2> DEFINE c == <<x>> \o <<y>>
               d == <<x, y>>
    <2>1. c \in Seq(Char) /\ Len(c) = 2 /\ c[1] = x /\ c[2] = y
      OBVIOUS
    <2>2. d \in Seq(Char) /\ Len(d) = 2 /\ d[1] = x /\ d[2] = y
      OBVIOUS
    <2> HIDE DEF c, d
    <2>3. \A i \in 1 .. 2 : c[i] = d[i]
      BY <2>1, <2>2
    <2>4. c = d
      BY <2>1, <2>2, <2>3
    <2> QED
      BY <2>4 DEF c, d
  <1>3. a \o (<<x>> \o <<y>>) = (a \o <<x>>) \o <<y>>
    BY <1>1, ConcatAssociative
  <1>4. a \o <<x>> = Append(a, x) /\ Append(a, x) \in Seq(Char)
    BY AppendIsConcat
  <1>5. Append(a, x) \o <<y>> = Append(Append(a, x), y)
    BY <1>4, AppendIsConcat
  <1> QED
    BY Zenon, <1>2, <1>3, <1>4, <1>5

\* What is printed for a character, for a mark in its own quotation and at the end.
Once(x) == <<x>>
Twice(x) == <<x, x>>
Ending(x) == <<x, "newline">>

\* To print a character is to append it.
LEMMA CharsPrinted ==
  ASSUME NEW x \in Char
  PROVE  /\ Once(x) \in Seq(Char) /\ Twice(x) \in Seq(Char) /\ Ending(x) \in Seq(Char)
         /\ \A a \in Seq(Char) : /\ a \o Once(x) = Append(a, x) /\ a \o Twice(x) = Append(Append(a, x), x)
                                 /\ a \o Ending(x) = Append(Append(a, x), "newline")
  <1>1. "newline" \in Char
    BY DEF Char
  <1>2. ASSUME NEW a \in Seq(Char) PROVE a \o Once(x) = Append(a, x)
    BY AppendIsConcat DEF Once
  <1>3. ASSUME NEW a \in Seq(Char)
        PROVE  a \o Twice(x) = Append(Append(a, x), x) /\ a \o Ending(x) = Append(Append(a, x), "newline")
    BY Zenon, <1>1, AppendedPair DEF Twice, Ending
  <1>4. Once(x) \in Seq(Char) /\ Twice(x) \in Seq(Char) /\ Ending(x) \in Seq(Char)
    BY <1>1 DEF Once, Twice, Ending
  <1> QED
    BY Zenon, <1>2, <1>3, <1>4

LEMMA PrintedOn ==
  ASSUME NEW a \in Seq(Char), NEW b \in Seq(Char), NEW x \in Char
  PROVE  /\ a \o (b \o Once(x)) = Append(a \o b, x)
         /\ a \o (b \o Twice(x)) = Append(Append(a \o b, x), x)
         /\ a \o (b \o Ending(x)) = Append(Append(a \o b, x), "newline")
  <1>1. a \o b \in Seq(Char)
    OBVIOUS
  <1>2. \A e \in Seq(Char) : a \o (b \o e) = (a \o b) \o e
    BY ConcatAssociative
  <1> QED
    BY Zenon, <1>1, <1>2, CharsPrinted

LEMMA Enclosed ==
  ASSUME NEW a \in Seq(Char), NEW b \in Seq(Char), NEW x \in Char
  PROVE  a \o (Once(x) \o b \o Ending(x)) = Append(Append(Append(a, x) \o b, x), "newline")
  <1>1. Once(x) \in Seq(Char) /\ Once(x) \o b \in Seq(Char)
    <2>1. Once(x) \in Seq(Char)
      BY Zenon, CharsPrinted
    <2> QED
      BY <2>1
  <1>2. a \o (Once(x) \o b \o Ending(x)) = Append(Append(a \o (Once(x) \o b), x), "newline")
    BY Zenon, <1>1, PrintedOn
  <1>3. a \o (Once(x) \o b) = (a \o Once(x)) \o b
    BY <1>1, ConcatAssociative
  <1>4. a \o Once(x) = Append(a, x)
    BY Zenon, CharsPrinted
  <1> QED
    BY Zenon, <1>2, <1>3, <1>4

\* Of marks that are neither side by side nor after a backslash every one is
\* doubled.
LEMMA LoneMarks ==
  ASSUME NEW content \in Seq(Char), NEW i \in 1 .. Len(content), NEW mark,
         \A j \in 1 .. Len(content) : content[j] # "slash",
         \A j \in 2 .. Len(content) : content[j] = mark => content[j - 1] # mark
  PROVE  Lone(content, mark, i) <=> content[i] = mark
  <1>1. SUFFICES ASSUME content[i] = mark PROVE Lone(content, mark, i)
    BY DEF Lone
  <1>2. i < Len(content) => content[i + 1] # mark
    <2> SUFFICES ASSUME i < Len(content), content[i + 1] = mark PROVE FALSE
      OBVIOUS
    <2>1. i + 1 \in 2 .. Len(content) /\ (i + 1) - 1 = i
      OBVIOUS
    <2> QED
      BY <1>1, <2>1
  <1>3. i > 1 => content[i - 1] \notin {mark, "slash"}
    <2> SUFFICES ASSUME i > 1 PROVE content[i - 1] \notin {mark, "slash"}
      OBVIOUS
    <2>1. i \in 2 .. Len(content) /\ i - 1 \in 1 .. Len(content)
      OBVIOUS
    <2> QED
      BY <1>1, <2>1
  <1>4. i \in 1 .. i /\ (\A k \in i .. i : content[k] = mark) /\ (i - i) % 2 = 0
    BY <1>1
  <1> QED
    BY <1>1, <1>2, <1>3, <1>4 DEF Lone

\* A printed quotation is read as one, whatever plain text it quotes.
LEMMA QuotationOn ==
  ASSUME NEW v, NEW tokens, AtToken(v, tokens), NEW k \in Token, k.open \in Marks,
         NEW mark, mark = Quote(k.open), \A j \in DOMAIN k.content : k.content[j] \notin Loud(k.open),
         k.open \in Literals => Apart(k.content)
  PROVE  /\ AtToken(v \o Printed(k),
                    Append(Append(tokens, [open |-> mark, content |-> k.content]), Begun("newline")))
         /\ k.content \in Seq(NewChar) /\ mark \in NewChar /\ tokens \in Seq(PgToken)
  <1> DEFINE open == k.open
             c == k.content
             m == Len(c)
             D == [i \in DOMAIN c |-> IF Lone(c, open, i) THEN <<open, open>> ELSE <<c[i]>>]
             w == Append(v, open)
             T(j) == Append(tokens, [open |-> mark, content |-> Beginning(c, j)])
  <1>1. /\ open \in Char /\ c \in Seq(Char) /\ c \in Seq(NewChar) /\ m \in Nat /\ DOMAIN c = 1 .. m
        /\ \A j \in 1 .. m : c[j] \in Char /\ c[j] \in NewChar
    BY DEF Token, NewChar
  <1> HIDE DEF c, open
  <1>2. mark \in NewChar /\ "newline" \in Char /\ mark \in Literals
    BY DEF Quote, Marks, NewChar, Char, Literals, open
  <1>3. InQuotation(w, mark, Append(tokens, Begun(mark))) /\ v \in Seq(Char) /\ tokens \in Seq(PgToken)
    BY Zenon, QuoteOn DEF open
  <1>4. w \in Seq(Char)
    BY <1>1, <1>3
  <1>5. /\ Beginning(c, 0) = <<>> /\ Beginning(c, m) = c
        /\ \A j \in 1 .. m : Beginning(c, j - 1) \in Seq(NewChar) /\ Append(Beginning(c, j - 1), c[j]) = Beginning(c, j)
    <2>1. c \in Seq(NewChar)
      BY <1>1
    <2> QED
      BY <2>1, Beginnings
  <1>6. Printed(k) = Once(open) \o FlattenSeq(D) \o Ending(open)
    BY DEF Printed, Marks, open, c, Once, Ending
  <1>7. \A j \in 1 .. m : D[j] = IF c[j] = open THEN Twice(c[j]) ELSE Once(c[j])
    <2>1. \A j \in 1 .. m : c[j] # "slash"
      BY <1>1 DEF Loud, Marks, Literals, open, c
    <2>2. \A j \in 2 .. m : c[j] = open => c[j - 1] # open
      <3>1. CASE open = "quote"
        BY <1>1, <3>1 DEF Apart, Literals, open, c
      <3>2. CASE open = "tick"
        BY <1>1, <3>2 DEF Loud, open, c
      <3> QED
        BY <3>1, <3>2 DEF Marks, open
    <2>3. \A j \in 1 .. m : Lone(c, open, j) <=> c[j] = open
      BY <1>1, <2>1, <2>2, LoneMarks
    <2> QED
      BY <1>1, <2>3 DEF Twice, Once
  <1>8. D \in Seq(Seq(Char)) /\ Len(D) = m
    <2>1. ASSUME NEW j \in 1 .. m PROVE D[j] \in Seq(Char)
      <3>1. Twice(c[j]) \in Seq(Char) /\ Once(c[j]) \in Seq(Char)
        BY Zenon, <1>1, CharsPrinted
      <3> QED
        BY Zenon, <1>7, <3>1
    <2>2. D = [i \in 1 .. m |-> D[i]]
      BY Zenon, <1>1
    <2> HIDE DEF D, m
    <2>3. D \in Seq(Seq(Char))
      BY <1>1, <2>1, <2>2, IsASeq
    <2> QED
      BY <1>1, <2>2, <2>3
  <1> HIDE DEF D
  <1>9. PICK h : Joins(h, D, Char)
    BY Zenon, <1>8, FlattenInOrder
  <1> HIDE DEF m, w, c, open
  <1>10. /\ h[0] = <<>> /\ FlattenSeq(D) = h[m] /\ \A j \in 0 .. m : h[j] \in Seq(Char)
         /\ \A j \in 1 .. m : h[j] = h[j - 1] \o D[j]
    BY <1>8, <1>9 DEF Joins
  <1> DEFINE Quoted == {j \in 0 .. m : InQuotation(w \o h[j], mark, T(j))}
  <1>11. 0 \in Quoted
    <2>1. w \o <<>> = w
      BY Zenon, <1>4, ConcatEmptySeq
    <2>2. T(0) = Append(tokens, Begun(mark))
      BY Zenon, <1>5 DEF Begun
    <2>3. InQuotation(w \o h[0], mark, T(0))
      BY Zenon, <1>3, <1>10, <2>1, <2>2
    <2> HIDE DEF T
    <2> QED
      BY <1>1, <2>3
  <1>12. ASSUME NEW j \in 1 .. m, j - 1 \in Quoted PROVE j \in Quoted
    <2>1. InQuotation(w \o h[j - 1], mark, T(j - 1)) /\ j \in 0 .. m /\ j - 1 \in 0 .. m
      BY <1>12
    <2>2. c[j] \in Char /\ c[j] \in NewChar /\ h[j - 1] \in Seq(Char) /\ c[j] \notin Loud(open)
      BY Zenon, <1>1, <1>10, <2>1 DEF c, open
    <2>3. Fuller(T(j - 1), c[j]) = T(j)
      <3>1. Fuller(T(j - 1), c[j]) = Append(tokens, [open |-> mark, content |-> Append(Beginning(c, j - 1), c[j])])
        BY Zenon, <1>2, <1>3, <1>5, <2>2, FullerOfLast
      <3> QED
        BY Zenon, <1>5, <3>1
    <2> HIDE DEF T
    <2>4. CASE c[j] = open
      <3>1. c[j] = "quote" /\ mark = "quote"
        BY <2>2, <2>4 DEF Loud, Marks, Quote, open
      <3>2. h[j] = h[j - 1] \o Twice(c[j])
        BY Zenon, <1>7, <1>10, <2>4
      <3>3. w \o h[j] = Append(Append(w \o h[j - 1], c[j]), c[j])
        BY Zenon, <1>4, <2>2, <3>2, PrintedOn
      <3>4. InQuotation(Append(Append(w \o h[j - 1], "quote"), "quote"), "quote", Fuller(T(j - 1), "quote"))
        BY Zenon, <2>1, <3>1, DoubleOn
      <3>5. InQuotation(w \o h[j], mark, T(j))
        BY Zenon, <2>3, <3>1, <3>3, <3>4
      <3> QED
        BY <2>1, <3>5
    <2>5. CASE c[j] # open
      <3>1. c[j] \notin {"slash", "tick", mark}
        BY <2>2, <2>5 DEF Loud, Marks, Quote, open, Literals
      <3>2. h[j] = h[j - 1] \o Once(c[j])
        BY Zenon, <1>7, <1>10, <2>5
      <3>3. w \o h[j] = Append(w \o h[j - 1], c[j])
        BY Zenon, <1>4, <2>2, <3>2, PrintedOn
      <3>4. InQuotation(Append(w \o h[j - 1], c[j]), mark, Fuller(T(j - 1), c[j]))
        BY Zenon, <2>1, <2>2, <3>1, FillOn
      <3>5. InQuotation(w \o h[j], mark, T(j))
        BY Zenon, <2>3, <3>3, <3>4
      <3> QED
        BY <2>1, <3>5
    <2> QED
      BY <2>4, <2>5
  <1>13. InQuotation(w \o h[m], mark, T(m))
    <2>1. m \in Quoted
      <3> HIDE DEF Quoted
      <3>1. m \in Nat /\ m \in 0 .. m
        BY <1>1
      <3>2. 0 .. m \subseteq Quoted
        BY Zenon, <3>1, <1>11, <1>12, BoundedInduction
      <3> QED
        BY <3>1, <3>2
    <2> QED
      BY <2>1
  <1>14. AtToken(Append(Append(w \o h[m], open), "newline"), Append(T(m), Begun("newline")))
    <2> HIDE DEF T
    <2> QED
      BY Zenon, <1>13, CloseOn DEF open
  <1>15. v \o Printed(k) = Append(Append(w \o h[m], open), "newline")
    <2>1. h[m] \in Seq(Char)
      <3>1. m \in 0 .. m
        BY <1>1
      <3> QED
        BY Zenon, <1>10, <3>1
    <2>2. Printed(k) = Once(open) \o h[m] \o Ending(open)
      BY Zenon, <1>6, <1>10
    <2>3. v \o (Once(open) \o h[m] \o Ending(open)) = Append(Append(Append(v, open) \o h[m], open), "newline")
      BY Zenon, <1>1, <1>3, <2>1, Enclosed
    <2> QED
      BY Zenon, <2>2, <2>3 DEF w
  <1> QED
    BY Zenon, <1>1, <1>2, <1>3, <1>5, <1>14, <1>15 DEF c

\* A text printed up to the end of a token, of which PostgreSQL is told.
Told(v, said) == \E tokens : AtToken(v, tokens) /\ IsSaid(tokens, said)

\* What a token says.
Saying(kind, content) == [kind |-> kind, content |-> content]

Silent == {"hash", "newline"}

\* What every kind of token tells MySQL, and what it tells PostgreSQL.
LEMMA Sayings ==
  ASSUME NEW said, NEW content
  PROVE  /\ \A ch \in Silent : \A kinds : SayNext(kinds, said, [open |-> ch, content |-> content]) = said
         /\ \A ch \in Literals : SayNext(MySqlKinds, said, [open |-> ch, content |-> content])
                                   = Append(said, Saying("literal", content))
         /\ SayNext(MySqlKinds, said, [open |-> "tick", content |-> content]) = Append(said, Saying("name", content))
         /\ \A ch \in {"word", "param"} : SayNext(MySqlKinds, said, [open |-> ch, content |-> content])
                                            = Append(said, Saying(ch, content))
         /\ SayNext(PgKinds, said, [open |-> "quote", content |-> content]) = Append(said, Saying("literal", content))
         /\ SayNext(PgKinds, said, [open |-> "double", content |-> content]) = Append(said, Saying("name", content))
         /\ SayNext(PgKinds, said, [open |-> "word", content |-> content]) = Append(said, Saying("word", content))
         /\ SayNext(PgKinds, said, [open |-> "number", content |-> content]) = Append(said, Saying("param", content))
  BY DEF SayNext, MySqlKinds, PgKinds, Saying, Literals, Silent

\* The printed text of a token tells PostgreSQL what the token tells MySQL.
LEMMA TokenOn ==
  ASSUME NEW v, NEW said, Told(v, said), NEW k \in Token, CalmToken(k),
         k.open \in Literals => Apart(k.content),
         k.open \notin DOMAIN Closer => k.content = <<>>
  PROVE  Told(v \o Printed(Straightened(k)), SayNext(MySqlKinds, said, k))
  <1> DEFINE open == k.open
             content == k.content
             s == Straightened(k)
             next == SayNext(MySqlKinds, said, k)
  <1>1. PICK tokens : AtToken(v, tokens) /\ IsSaid(tokens, said)
    BY Zenon DEF Told
  <1>2. /\ open \in {"word", "param", "newline", "hash", "quote", "double", "tick"}
        /\ k = [open |-> open, content |-> content]
        /\ open \in {"word", "param", "newline"} => content = <<>>
    BY Closers DEF Token, Char, CalmToken
  <1>3. s.open = Mark(open) /\ s.content = content /\ s \in Token
    BY <1>2 DEF Straightened, Mark, Token, Char
  <1> HIDE DEF s, next, content, open
  <1>31. next = SayNext(MySqlKinds, said, [open |-> open, content |-> content])
    BY Zenon, <1>2 DEF next
  <1>4. ASSUME NEW ch \in Spoken, NEW y, y = (IF ch = "param" THEN "number" ELSE ch), Printed(s) = <<ch>>,
               next = SayNext(PgKinds, said, Begun(y))
        PROVE  Told(v \o Printed(s), next)
    <2>1. AtToken(Append(v, ch), Append(tokens, Begun(y))) /\ v \in Seq(Char) /\ tokens \in Seq(PgToken)
      BY Zenon, <1>1, <1>4, WordOn
    <2>2. ch \in Char /\ Begun(y) \in PgToken
      BY <1>4 DEF Spoken, Char, Begun, PgToken, NewChar
    <2>3. v \o Printed(s) = Append(v, ch)
      BY Zenon, <1>4, <2>1, <2>2, CharsPrinted DEF Once
    <2>4. IsSaid(Append(tokens, Begun(y)), next)
      BY Zenon, <1>1, <1>4, <2>2, SaidOn
    <2> QED
      BY Zenon, <2>1, <2>3, <2>4 DEF Told
  <1>5. ASSUME s.open \in Marks, NEW mark, mark = Quote(s.open),
               next = SayNext(PgKinds, said, [open |-> mark, content |-> content])
        PROVE  Told(v \o Printed(s), next)
    <2> DEFINE quoted == [open |-> mark, content |-> content]
    <2>1. Loud(s.open) = Loud(open)
      BY <1>2, <1>3, <1>5 DEF Loud, Mark, Marks, Literals
    <2>2. \A j \in DOMAIN s.content : s.content[j] \notin Loud(s.open)
      BY Zenon, <1>3, <2>1 DEF CalmToken, content, open
    <2>3. /\ AtToken(v \o Printed(s), Append(Append(tokens, quoted), Begun("newline")))
          /\ content \in Seq(NewChar) /\ mark \in NewChar /\ tokens \in Seq(PgToken)
      <3>1. s.open \in Literals => Apart(s.content)
        BY <1>2, <1>3 DEF Mark, Literals, open, content
      <3> QED
        BY Zenon, <1>1, <1>3, <1>5, <2>2, <3>1, QuotationOn
    <2>4. quoted \in PgToken /\ Begun("newline") \in PgToken
      BY <2>3 DEF PgToken, Begun, NewChar, Char
    <2> HIDE DEF quoted
    <2>5. IsSaid(Append(tokens, quoted), next)
      BY Zenon, <1>1, <1>5, <2>4, SaidOn DEF quoted
    <2>6. IsSaid(Append(Append(tokens, quoted), Begun("newline")), SayNext(PgKinds, next, Begun("newline")))
      BY Zenon, <2>4, <2>5, SaidOn
    <2>7. SayNext(PgKinds, next, Begun("newline")) = next
      <3>1. "newline" \in Silent
        BY DEF Silent
      <3> QED
        BY Zenon, <3>1, Sayings DEF Begun
    <2> QED
      BY Zenon, <2>3, <2>6, <2>7 DEF Told
  <1>6. CASE open \in Silent
    <2>1. Printed(s) = <<"newline">> /\ "newline" \in Silent
      BY <1>3, <1>6 DEF Printed, Mark, Silent
    <2>2. next = said /\ SayNext(PgKinds, said, Begun("newline")) = said
      <3>1. next = said
        BY Zenon, <1>31, <1>6, Sayings
      <3> QED
        BY Zenon, <2>1, <3>1, Sayings DEF Begun
    <2>3. "newline" \in Spoken /\ "newline" # "param"
      BY DEF Spoken
    <2> QED
      BY Zenon, <1>4, <2>1, <2>2, <2>3 DEF s, next
  <1>7. CASE open = "word"
    <2>1. Printed(s) = <<"word">>
      BY <1>3, <1>7 DEF Printed, Mark
    <2>2. next = SayNext(PgKinds, said, Begun("word"))
      <3>1. next = Append(said, Saying("word", content)) /\ content = <<>> /\ "word" \in {"word", "param"}
        BY Zenon, <1>2, <1>31, <1>7, Sayings
      <3>2. SayNext(PgKinds, said, Begun("word")) = Append(said, Saying("word", <<>>))
        BY Zenon, Sayings DEF Begun
      <3> QED
        BY Zenon, <3>1, <3>2
    <2>3. "word" \in Spoken /\ "word" # "param"
      BY DEF Spoken
    <2> QED
      BY Zenon, <1>4, <2>1, <2>2, <2>3 DEF s, next
  <1>8. CASE open = "param"
    <2>1. Printed(s) = <<"param">>
      BY <1>3, <1>8 DEF Printed, Mark
    <2>2. next = SayNext(PgKinds, said, Begun("number"))
      <3>1. next = Append(said, Saying("param", content)) /\ content = <<>> /\ "param" \in {"word", "param"}
        BY Zenon, <1>2, <1>31, <1>8, Sayings
      <3>2. SayNext(PgKinds, said, Begun("number")) = Append(said, Saying("param", <<>>))
        BY Zenon, Sayings DEF Begun
      <3> QED
        BY Zenon, <3>1, <3>2
    <2>3. "param" \in Spoken
      BY DEF Spoken
    <2> QED
      BY Zenon, <1>4, <2>1, <2>2, <2>3 DEF s, next
  <1>9. CASE open \in {"quote", "double", "tick"}
    <2>1. s.open \in Marks /\ (open = "tick" => Quote(s.open) = "double")
          /\ (open # "tick" => Quote(s.open) = "quote")
      BY <1>3, <1>9 DEF Mark, Marks, Quote
    <2>2. next = SayNext(PgKinds, said, [open |-> Quote(s.open), content |-> content])
      <3>1. CASE open = "tick"
        <4>1. next = Append(said, Saying("name", content))
          BY Zenon, <1>31, <3>1, Sayings
        <4> QED
          BY Zenon, <2>1, <3>1, <4>1, Sayings
      <3>2. CASE open # "tick"
        <4>1. open \in Literals
          BY <1>9, <3>2 DEF Literals
        <4>2. next = Append(said, Saying("literal", content))
          BY Zenon, <1>31, <4>1, Sayings
        <4> QED
          BY Zenon, <2>1, <3>2, <4>2, Sayings
      <3> QED
        BY <3>1, <3>2
    <2> QED
      BY Zenon, <1>5, <2>1, <2>2 DEF s, next
  <1> QED
    BY <1>2, <1>6, <1>7, <1>8, <1>9 DEF s, next, Silent

-----------------------------------------------------------------------------
(* A plain text as PostgreSQL reads it *)

\* PostgreSQL is told nothing by no text.
LEMMA ToldNothing == Told(<<>>, <<>>)
  <1>1. ReplaceBackticks(<<>>) = <<>> /\ <<>> \in Seq(Char)
    BY DEF ReplaceBackticks
  <1>2. Code \in ScanState /\ Code.in = "code" /\ Code.skip = FALSE /\ Code.out = <<>>
    BY Zenon, CodeIsState DEF Code
  <1>3. Unread \in PgState /\ Unread.in = "code" /\ Unread.closed = "none" /\ Unread.tokens = <<>>
    BY DEF Unread, PgState
  <1>4. IsScanned(ReplaceBackticks(<<>>), Code)
    BY Zenon, <1>1, ScannedNothing
  <1>5. IsRead(PgRules, PgState, NewChar, Code.out, Unread)
    BY Zenon, <1>2, PgKeepsTo, ReadNothing
  <1>6. Both(<<>>, Code, Unread)
    BY Zenon, <1>1, <1>2, <1>3, <1>4, <1>5 DEF Both
  <1>7. AtToken(<<>>, <<>>)
    BY Zenon, <1>2, <1>3, <1>6 DEF AtToken
  <1> QED
    BY Zenon, <1>7, SaidNothing DEF Told

\* What PostgreSQL is told by a printed text once its placeholders are numbered.
LEMMA ToldAll ==
  ASSUME NEW v, NEW said, Told(v, said)
  PROVE  PgSays(Scan(ReplaceBackticks(v))) = said
  <1>1. PICK tokens : AtToken(v, tokens) /\ IsSaid(tokens, said)
    BY Zenon DEF Told
  <1>2. PICK s, p : Both(v, s, p) /\ p.tokens = tokens
    BY Zenon, <1>1 DEF AtToken
  <1>3. IsScanned(ReplaceBackticks(v), s) /\ IsRead(PgRules, PgState, NewChar, s.out, p)
    BY Zenon, <1>2 DEF Both
  <1>4. Scan(ReplaceBackticks(v)) = s.out
    BY Zenon, <1>3, ScannedAll
  <1>5. ReadText(PgRules, s.out) = p
    BY Zenon, <1>3, PgKeepsTo, ReadAll
  <1>6. Says(p, PgKinds) = said
    BY Zenon, <1>1, <1>2, SaidAll
  <1> QED
    BY Zenon, <1>4, <1>5, <1>6 DEF PgSays, PgKinds

\* The tokens of a plain text, printed, tell PostgreSQL what they tell MySQL.
LEMMA PrintedSays ==
  ASSUME NEW r, r.tokens \in Seq(Token), Calm(r.tokens), Spaced(r.tokens), Bare(r.tokens)
  PROVE  PgSays(Scan(TranslateText(Straight(r.tokens)))) = Says(r, MySqlKinds)
  <1> DEFINE ts == r.tokens
             n == Len(ts)
             P == Straight(ts)
             pieces == [i \in DOMAIN P |-> Printed(P[i])]
  <1>1. /\ n \in Nat /\ DOMAIN ts = 1 .. n /\ 0 \in 0 .. n /\ n \in 0 .. n
        /\ \A i \in 1 .. n : ts[i] \in Token /\ i - 1 \in 0 .. n /\ i \in 0 .. n
    OBVIOUS
  <1>2. /\ P \in Seq(Token) /\ DOMAIN P = 1 .. n /\ Len(P) = n
        /\ \A i \in 1 .. n : P[i] = Straightened(ts[i]) /\ Straightened(ts[i]) \in Token
    BY Zenon, <1>1, StraightType
  <1>3. PICK g \in [0 .. n -> Seq(Word)] :
           /\ g[0] = <<>>
           /\ \A i \in 1 .. n : g[i] = SayNext(MySqlKinds, g[i - 1], ts[i])
           /\ Says(r, MySqlKinds) = g[n]
    BY Zenon, SaysInOrder
  <1>4. \A i \in 1 .. n : /\ CalmToken(ts[i]) /\ (ts[i].open \notin DOMAIN Closer => ts[i].content = <<>>)
                          /\ ts[i].open \in Literals => Apart(ts[i].content)
    BY Zenon, <1>1 DEF Calm, Bare, Spaced
  <1> HIDE DEF n, ts, P
  <1>5. \A i \in 1 .. n : pieces[i] = Printed(Straightened(ts[i])) /\ pieces[i] \in Seq(Char)
    BY Zenon, <1>2, PrintedType
  <1>6. pieces \in Seq(Seq(Char)) /\ Len(pieces) = n
    BY Zenon, <1>2, PiecesType
  <1> HIDE DEF pieces
  <1>7. PICK h : Joins(h, pieces, Char)
    BY Zenon, <1>6, FlattenInOrder
  <1>8. /\ h[0] = <<>> /\ FlattenSeq(pieces) = h[n]
        /\ \A i \in 1 .. n : h[i] = h[i - 1] \o pieces[i]
    BY Zenon, <1>6, <1>7 DEF Joins
  <1> DEFINE Done == {i \in 0 .. n : Told(h[i], g[i])}
  <1>9. 0 \in Done
    BY Zenon, <1>1, <1>3, <1>8, ToldNothing
  <1>10. ASSUME NEW i \in 1 .. n, i - 1 \in Done PROVE i \in Done
    <2>1. Told(h[i - 1], g[i - 1]) /\ i \in 0 .. n
      BY <1>1, <1>10
    <2>2. Told(h[i - 1] \o Printed(Straightened(ts[i])), SayNext(MySqlKinds, g[i - 1], ts[i]))
      <3>1. CalmToken(ts[i]) /\ (ts[i].open \in Literals => Apart(ts[i].content))
            /\ (ts[i].open \notin DOMAIN Closer => ts[i].content = <<>>)
        BY Zenon, <1>4
      <3> QED
        BY Zenon, <1>1, <2>1, <3>1, TokenOn
    <2>3. Told(h[i], g[i])
      BY Zenon, <1>3, <1>5, <1>8, <2>2
    <2> QED
      BY <2>1, <2>3
  <1>11. Told(h[n], g[n])
    <2>1. n \in Done
      <3> HIDE DEF Done
      <3>1. 0 .. n \subseteq Done
        BY Zenon, <1>1, <1>9, <1>10, BoundedInduction
      <3> QED
        BY <1>1, <3>1
    <2> QED
      BY <2>1
  <1>12. TranslateText(P) = ReplaceBackticks(h[n])
    BY Zenon, <1>8 DEF TranslateText, pieces
  <1> QED
    BY Zenon, <1>3, <1>11, <1>12, ToldAll DEF P, ts

\* Of a plain text PostgreSQL is told what MySQL is.
LEMMA PlainTextsSayTheSame ==
  ASSUME NEW t \in Seq(Char), PlainText(t)
  PROVE  /\ Readable(ReadText(MySqlRules, Normalize(t)))
         /\ PgSays(Scan(TranslateText(ReadText(MySqlRules, Normalize(t)).tokens))) = MySqlSays(t)
  <1> DEFINE r == ReadText(MySqlRules, t)
  <1>1. r.tokens \in Seq(Token)
    BY ScanCounts DEF ReadState
  <1>2. Calm(r.tokens) /\ Spaced(r.tokens) /\ Bare(r.tokens)
    BY Zenon, PlainIsCalm, ReadsBare
  <1>3. PgSays(Scan(TranslateText(Straight(r.tokens)))) = Says(r, MySqlKinds)
    BY Zenon, <1>1, <1>2, PrintedSays
  <1> QED
    BY Zenon, <1>3, NormalizedReads DEF MySqlSays, MySqlKinds

-----------------------------------------------------------------------------
(* The invariant *)

\* The inductive invariant: what is kept of a statement is of its text, and one is
\* refused only for what the parser makes of it.
TextInv ==
  /\ text \in Texts \cup {<<>>} /\ textReply \in {"none", "stmt", "err"}
  /\ textReply = "stmt" =>
       /\ told = Numbers(Scan(text))
       /\ sent = Scan(TranslateText(ReadText(MySqlRules, Normalize(text)).tokens))
  /\ textReply = "err" => ~Readable(ReadText(MySqlRules, Normalize(text)))
  /\ textReply # "stmt" => told = 0 /\ sent = <<>>

\* Every step keeps the invariant.
LEMMA TextStep == TextInv /\ [TextNext]_textVars => TextInv'
  <1> SUFFICES ASSUME TextInv, [TextNext]_textVars PROVE TextInv'
    OBVIOUS
  <1>1. CASE CloseText
    BY Zenon, <1>1 DEF CloseText, TextInv
  <1>2. ASSUME NEW t \in Texts, PrepareText(t) PROVE TextInv'
    BY Zenon, <1>2 DEF PrepareText, TextInv
  <1>3. CASE UNCHANGED textVars
    BY Zenon, <1>3 DEF textVars, TextInv
  <1> QED
    BY Zenon, <1>1, <1>2, <1>3 DEF TextNext

\* What clients prepare are texts.
LEMMA TextIsText == TextInv => text \in Seq(Char)
  <1>1. <<>> \in Seq(Char)
    OBVIOUS
  <1> QED
    BY <1>1, TextsAssumption DEF TextInv

\* The inductive invariant holds of any texts clients prepare.
THEOREM TextInvariant == TextSpec => []TextInv
  <1>1. TextInit => TextInv
    BY Zenon DEF TextInit, TextInv
  <1> QED
    BY <1>1, TextStep, PTL DEF TextSpec

\* Type correctness: what is left for PostgreSQL of any text is one it can be sent,
\* and nothing is kept of a statement that was refused or closed (on_prepare,
\* on_close).
THEOREM TextTyped == TextSpec => []TextTypeOK
  <1>1. TextInv => TextTypeOK
    <2> SUFFICES ASSUME TextInv PROVE TextTypeOK
      OBVIOUS
    <2>1. text \in Seq(Char)
      BY Zenon, TextIsText
    <2>2. CASE textReply = "stmt"
      <3>1. told \in 0 .. Len(text)
        BY Zenon, <2>1, <2>2, CountsTheSame DEF TextInv
      <3>2. sent \in Seq(NewChar)
        BY Zenon, <2>1, <2>2, SentType DEF TextInv
      <3>3. \A i \in DOMAIN sent : sent[i] \in Char \cup {"number"}
        BY <3>2 DEF NewChar
      <3> QED
        BY Zenon, <2>2, <3>1, <3>3 DEF TextInv, TextTypeOK
    <2>3. CASE textReply # "stmt"
      <3>1. 0 \in 0 .. Len(text) /\ DOMAIN <<>> = {}
        BY <2>1
      <3> QED
        BY <2>3, <3>1 DEF TextInv, TextTypeOK
    <2> QED
      BY Zenon, <2>2, <2>3
  <1> QED
    BY <1>1, TextInvariant, PTL

\* Of a text of any length and any nesting of quotations and comments, the client is
\* told of as many parameters as MySQL would tell it of
\* (count_prepare_placeholders).
THEOREM ParametersCounted == TextSpec => []CountsAsMySql
  <1>1. TextInv => CountsAsMySql
    <2> SUFFICES ASSUME TextInv PROVE CountsAsMySql
      OBVIOUS
    <2>1. text \in Seq(Char)
      BY Zenon, TextIsText
    <2> QED
      BY Zenon, <2>1, CountsTheSame DEF TextInv, CountsAsMySql
  <1> QED
    BY <1>1, TextInvariant, PTL

\* Every plain text is served, and PostgreSQL reads in what it is sent the same
\* literals, names, words and parameters as MySQL in the client's text, in the same
\* order (normalize_mysql_double_quoted_string_literals, replace_backticks,
\* rewrite_prepare_placeholders_for_postgres).
THEOREM PlainTextsAreRead == TextSpec => []PgReadsAsMySql
  <1>1. TextInv => PgReadsAsMySql
    <2> SUFFICES ASSUME TextInv, PlainText(text), textReply # "none"
                 PROVE  textReply = "stmt" /\ PgSays(sent) = MySqlSays(text)
      BY Zenon DEF PgReadsAsMySql
    <2>1. text \in Seq(Char)
      BY Zenon, TextIsText
    <2>2. /\ Readable(ReadText(MySqlRules, Normalize(text)))
          /\ PgSays(Scan(TranslateText(ReadText(MySqlRules, Normalize(text)).tokens))) = MySqlSays(text)
      BY Zenon, <2>1, PlainTextsSayTheSame
    <2>3. textReply = "stmt"
      BY <2>2 DEF TextInv
    <2> QED
      BY Zenon, <2>2, <2>3 DEF TextInv
  <1> QED
    BY <1>1, TextInvariant, PTL
=============================================================================
