----------------------------- MODULE FoldLemmas -----------------------------
(* Folds over sequences, for the proofs about the modules that use them: a  *)
(* text is run, and read, from left to right.  Induction is over a set of   *)
(* numbers, the fold a function from the prefixes of the sequence.          *)
EXTENDS Integers, Sequences, SequencesExt, FiniteSetTheorems, WellFoundedInduction, TLAPS

\* A set of numbers that holds 0, and with every number the next, holds them
\* all: else it would lack a smallest one.
LEMMA SetInduction ==
  ASSUME NEW S, 0 \in S, \A n \in Nat : n \in S => n + 1 \in S
  PROVE  Nat \subseteq S
  <1> SUFFICES ASSUME Nat \ S # {} PROVE FALSE
    OBVIOUS
  <1>1. PICK x \in Nat \ S : \A y \in Nat \ S : <<y, x>> \notin OpToRel(<, Nat)
    BY Zenon, WFMin, NatLessThanWellFounded
  <1>2. x - 1 \in Nat /\ x = (x - 1) + 1 /\ x - 1 < x
    OBVIOUS
  <1>3. x - 1 \in Nat \ S
    BY <1>2
  <1>4. <<x - 1, x>> \in OpToRel(<, Nat)
    BY Zenon, <1>2 DEF OpToRel
  <1> QED
    BY Zenon, <1>1, <1>3, <1>4

\* The same of the numbers up to n.
LEMMA BoundedInduction ==
  ASSUME NEW n \in Nat, NEW S, 0 \in S, \A k \in 1 .. n : k - 1 \in S => k \in S
  PROVE  0 .. n \subseteq S
  <1> DEFINE T == {k \in Nat : k <= n => k \in S}
  <1>1. \A k \in Nat : k \in T => k + 1 \in T
    <2> SUFFICES ASSUME NEW k \in Nat, k \in T, k + 1 <= n PROVE k + 1 \in S
      OBVIOUS
    <2>1. k + 1 \in 1 .. n /\ (k + 1) - 1 \in S
      OBVIOUS
    <2> QED
      BY <2>1
  <1>2. Nat \subseteq T
    <2> HIDE DEF T
    <2>1. 0 \in T
      BY DEF T
    <2> QED
      BY <1>1, <2>1, SetInduction
  <1> QED
    BY <1>2

-----------------------------------------------------------------------------
(* Extrema *)

\* What a set of numbers has as its largest and its smallest, if it has them.
LEMMA MaxIs ==
  ASSUME NEW S, NEW m \in S, S \subseteq Int, \A x \in S : x <= m
  PROVE  Max(S) = m
  <1>1. \E x \in S : \A y \in S : x >= y
    OBVIOUS
  <1>2. Max(S) \in S /\ \A y \in S : Max(S) >= y
    BY Zenon, <1>1 DEF Max
  <1>3. Max(S) \in Int /\ m \in Int /\ Max(S) >= m /\ Max(S) <= m
    BY <1>2
  <1> QED
    BY <1>3

LEMMA MinIs ==
  ASSUME NEW S, S \subseteq Nat, S # {}
  PROVE  Min(S) \in S /\ \A x \in S : Min(S) <= x
  <1>1. PICK m \in S : \A y \in S : <<y, m>> \notin OpToRel(<, Nat)
    BY Zenon, WFMin, NatLessThanWellFounded
  <1>2. \A y \in S : ~(y < m)
    <2> SUFFICES ASSUME NEW y \in S, y < m PROVE FALSE
      OBVIOUS
    <2>1. y \in Nat /\ m \in Nat
      OBVIOUS
    <2>2. <<y, m>> \in OpToRel(<, Nat)
      BY Zenon, <2>1 DEF OpToRel
    <2> QED
      BY Zenon, <1>1, <2>2
  <1>3. \A y \in S : m <= y
    BY <1>2
  <1> QED
    BY <1>3 DEF Min

LEMMA MaxOfPositions ==
  ASSUME NEW n \in Nat, NEW S \in SUBSET (1 .. n), S # {}
  PROVE  Max(S) \in S
  <1> DEFINE Q == {n - x : x \in S}
  <1>1. Q \subseteq Nat /\ Q # {}
    <2>1. \A x \in S : n - x \in Nat
      OBVIOUS
    <2> QED
      BY <2>1
  <1>2. Min(Q) \in Q /\ \A y \in Q : Min(Q) <= y
    <2> HIDE DEF Q
    <2> QED
      BY <1>1, MinIs
  <1>3. PICK m \in S : Min(Q) = n - m
    BY <1>2
  <1>4. ASSUME NEW x \in S PROVE m >= x
    <2>1. n - x \in Q
      OBVIOUS
    <2> HIDE DEF Q
    <2> QED
      BY <1>2, <1>3, <2>1
  <1> QED
    BY Zenon, <1>4 DEF Max

LEMMA PositionOfMax ==
  ASSUME NEW Elem, NEW seq \in Seq(Elem), NEW s \in SUBSET DOMAIN seq, s # {}
  PROVE  Max(s) \in s /\ seq[Max(s)] \in Elem
  <1>1. Len(seq) \in Nat /\ s \in SUBSET (1 .. Len(seq))
    OBVIOUS
  <1>2. Max(s) \in s
    BY Zenon, <1>1, MaxOfPositions
  <1> QED
    BY <1>2

LEMMA MaxOfPrefix ==
  ASSUME NEW k \in Nat \ {0}
  PROVE  Max(1 .. k) = k /\ (1 .. k) \ {k} = 1 .. (k - 1) /\ 1 .. k # {}
  <1>1. k \in 1 .. k /\ 1 .. k \subseteq Int /\ \A x \in 1 .. k : x <= k
    OBVIOUS
  <1>2. Max(1 .. k) = k
    BY Zenon, <1>1, MaxIs
  <1> QED
    BY <1>1, <1>2

LEMMA NextInterval == \A n \in Nat : 1 .. (n + 1) = (1 .. n) \cup {n + 1}
  OBVIOUS

LEMMA Appended ==
  ASSUME NEW Elem, NEW seq \in Seq(Elem), NEW e \in Elem
  PROVE  /\ Append(seq, e)[Len(seq) + 1] = e
         /\ \A i \in 1 .. Len(seq) : Append(seq, e)[i] = seq[i]
  OBVIOUS

\* How many of the first numbers are in a set.
LEMMA CountOfPrefix ==
  ASSUME NEW P, NEW k \in Nat \ {0}
  PROVE  /\ Cardinality(P \cap (1 .. (k - 1))) \in 0 .. (k - 1)
         /\ Cardinality(P \cap (1 .. k))
              = IF k \in P THEN Cardinality(P \cap (1 .. (k - 1))) + 1
                ELSE Cardinality(P \cap (1 .. (k - 1)))
  <1> DEFINE Before == P \cap (1 .. (k - 1))
  <1>1. IsFiniteSet(1 .. (k - 1)) /\ Cardinality(1 .. (k - 1)) = k - 1
    BY FS_Interval
  <1>2. IsFiniteSet(Before) /\ Cardinality(Before) <= k - 1
    BY <1>1, FS_Subset
  <1>3. Cardinality(Before) \in Nat
    BY <1>2, FS_CardinalityType
  <1>4. CASE k \in P
    <2>1. P \cap (1 .. k) = Before \cup {k} /\ k \notin Before
      BY <1>4
    <2>2. Cardinality(Before \cup {k}) = Cardinality(Before) + 1
      BY <1>2, <2>1, FS_AddElement
    <2> QED
      BY <1>2, <1>3, <1>4, <2>1, <2>2
  <1>5. CASE k \notin P
    <2>1. P \cap (1 .. k) = Before
      BY <1>5
    <2> QED
      BY <1>2, <1>3, <1>5, <2>1
  <1> QED
    BY <1>4, <1>5

-----------------------------------------------------------------------------
(* Folds *)

\* A function from sets of places, the prefixes among them, to what the fold of F
\* makes of them.
Iterates(iter, base, F, seq) ==
  \A s \in SUBSET DOMAIN seq :
    iter[s] = IF s = {} THEN base ELSE F[<<iter[s \ {Max(s)}], seq[Max(s)]>>]

\* The function a fold is defined by exists, whatever the operation does on the
\* states and elements it is for.
LEMMA FoldExists ==
  ASSUME NEW State, NEW Elem, NEW base \in State, NEW F \in [State \X Elem -> State],
         NEW seq \in Seq(Elem)
  PROVE  \E iter \in [SUBSET DOMAIN seq -> State] : Iterates(iter, base, F, seq)
  <1> DEFINE Upto(n) == SUBSET (1 .. n)
             Rec(f, s) == IF s = {} THEN base ELSE F[<<f[s \ {Max(s)}], seq[Max(s)]>>]
             IsIter(f, n) == f \in [Upto(n) -> State] /\ \A s \in Upto(n) : f[s] = Rec(f, s)
             S == {n \in 0 .. Len(seq) : \E f : IsIter(f, n)}
  <1>1. 0 \in S
    <2> DEFINE f == [s \in Upto(0) |-> base]
    <2>1. 0 \in 0 .. Len(seq) /\ Upto(0) = {{}}
      OBVIOUS
    <2>2. IsIter(f, 0)
      BY <2>1
    <2> QED
      BY <2>1, <2>2
  <1>2. ASSUME NEW n \in 1 .. Len(seq), n - 1 \in S PROVE n \in S
    <2>1. PICK f : IsIter(f, n - 1)
      BY <1>2
    <2> DEFINE Without(s) == s \ {n}
               g == [s \in Upto(n) |-> IF n \in s THEN F[<<f[Without(s)], seq[n]>>] ELSE f[s]]
    <2>2. seq[n] \in Elem
      OBVIOUS
    <2>3. \A s \in Upto(n) : Without(s) \in Upto(n - 1) /\ (n \notin s => s \in Upto(n - 1))
      OBVIOUS
    <2>4. g \in [Upto(n) -> State]
      BY <2>1, <2>2, <2>3
    <2>5. ASSUME NEW s \in Upto(n) PROVE g[s] = Rec(g, s)
      <3>1. CASE n \in s
        <4> HIDE DEF g
        <4>1. s \subseteq Int /\ \A x \in s : x <= n
          OBVIOUS
        <4>2. Max(s) = n
          BY Zenon, <3>1, <4>1, MaxIs
        <4> USE DEF g
        <4>3. s \ {n} \in Upto(n) /\ n \notin s \ {n}
          OBVIOUS
        <4>4. g[s \ {n}] = f[s \ {n}]
          BY <4>3
        <4> QED
          BY <3>1, <4>2, <4>4
      <3>2. CASE n \notin s /\ s # {}
        <4>2. Max(s) \in s
          <5>1. n \in Nat /\ s \in SUBSET (1 .. n)
            OBVIOUS
          <5> QED
            BY Zenon, <3>2, <5>1, MaxOfPositions
        <4>3. s \in Upto(n - 1) /\ s \ {Max(s)} \in Upto(n - 1) /\ n \notin s \ {Max(s)}
              /\ s \ {Max(s)} \in Upto(n)
          BY <2>3, <3>2
        <4>4. g[s] = f[s] /\ g[s \ {Max(s)}] = f[s \ {Max(s)}]
          BY <3>2, <4>3
        <4> QED
          BY <2>1, <3>2, <4>3, <4>4
      <3>3. CASE s = {}
        <4>1. s \in Upto(n - 1) /\ g[s] = f[s]
          BY <3>3
        <4> QED
          BY <2>1, <3>3, <4>1
      <3> QED
        BY <3>1, <3>2, <3>3
    <2>6. IsIter(g, n)
      BY <2>4, <2>5
    <2> HIDE DEF g, IsIter
    <2> QED
      BY <2>6
  <1>3. Len(seq) \in S
    <2> HIDE DEF S
    <2>1. Len(seq) \in Nat /\ \A n \in 1 .. Len(seq) : n - 1 \in S => n \in S
      BY <1>2
    <2>2. 0 .. Len(seq) \subseteq S
      BY Zenon, <1>1, <2>1, BoundedInduction
    <2> QED
      BY <2>1, <2>2
  <1>4. PICK f : IsIter(f, Len(seq))
    BY <1>3 DEF S
  <1>5. DOMAIN seq = 1 .. Len(seq)
    OBVIOUS
  <1> QED
    BY <1>4, <1>5 DEF Iterates

\* What any such function makes of the prefixes, one after the other.
Unfolds(f, base, F, seq, State) ==
  /\ f[{}] = base
  /\ \A s \in SUBSET DOMAIN seq :
       s # {} /\ f[s \ {Max(s)}] \in State => f[s] = F[<<f[s \ {Max(s)}], seq[Max(s)]>>]

PrefixStates(g, base, F, seq, last) ==
  /\ g[0] = base /\ g[Len(seq)] = last
  /\ \A k \in 1 .. Len(seq) : g[k] = F[<<g[k - 1], seq[k]>>]

LEMMA IterationRuns ==
  ASSUME NEW State, NEW Elem, NEW base \in State, NEW F \in [State \X Elem -> State],
         NEW seq \in Seq(Elem), NEW f, Unfolds(f, base, F, seq, State)
  PROVE  \E g \in [0 .. Len(seq) -> State] : PrefixStates(g, base, F, seq, f[DOMAIN seq])
  <1> DEFINE S == {k \in 0 .. Len(seq) : f[1 .. k] \in State}
  <1>1. 0 \in S /\ Len(seq) \in Nat
    BY DEF Unfolds
  <1>2. ASSUME NEW k \in 1 .. Len(seq), f[1 .. (k - 1)] \in State
        PROVE  f[1 .. k] \in State /\ f[1 .. k] = F[<<f[1 .. (k - 1)], seq[k]>>]
    <2>1. 1 .. k \in SUBSET DOMAIN seq /\ seq[k] \in Elem
      OBVIOUS
    <2>2. Max(1 .. k) = k /\ (1 .. k) \ {k} = 1 .. (k - 1) /\ 1 .. k # {}
      BY MaxOfPrefix
    <2>3. f[1 .. k] = F[<<f[1 .. (k - 1)], seq[k]>>]
      BY Zenon, <1>2, <2>1, <2>2 DEF Unfolds
    <2> QED
      BY <1>2, <2>1, <2>3
  <1>3. 0 .. Len(seq) \subseteq S
    <2>1. ASSUME NEW k \in 1 .. Len(seq), k - 1 \in S PROVE k \in S
      <3>1. f[1 .. (k - 1)] \in State
        BY <2>1
      <3>2. f[1 .. k] \in State
        BY Zenon, <1>2, <3>1
      <3> QED
        BY <3>2
    <2> HIDE DEF S
    <2> QED
      BY Zenon, <1>1, <2>1, BoundedInduction
  <1>4. \A k \in 0 .. Len(seq) : f[1 .. k] \in State
    BY <1>3
  <1> DEFINE g == [k \in 0 .. Len(seq) |-> f[1 .. k]]
  <1>5. g \in [0 .. Len(seq) -> State] /\ g[0] = base /\ g[Len(seq)] = f[DOMAIN seq]
    BY <1>4 DEF Unfolds
  <1>6. ASSUME NEW k \in 1 .. Len(seq) PROVE g[k] = F[<<g[k - 1], seq[k]>>]
    <2>1. k - 1 \in 0 .. Len(seq) /\ k \in 0 .. Len(seq)
      OBVIOUS
    <2>2. g[k - 1] = f[1 .. (k - 1)] /\ g[k] = f[1 .. k] /\ f[1 .. (k - 1)] \in State
      BY <1>4, <2>1
    <2> HIDE DEF g
    <2> QED
      BY Zenon, <1>2, <2>2
  <1> HIDE DEF g
  <1> QED
    BY <1>5, <1>6 DEF PrefixStates

-----------------------------------------------------------------------------
(* Parts of a sequence *)

\* How many elements of a sequence are in a set.
Count(seq, Q) == Cardinality({i \in DOMAIN seq : seq[i] \in Q})

LEMMA CountAppended ==
  ASSUME NEW S, NEW seq \in Seq(S), NEW e \in S, NEW Q
  PROVE  /\ Count(seq, Q) \in 0 .. Len(seq)
         /\ Count(Append(seq, e), Q) = IF e \in Q THEN Count(seq, Q) + 1 ELSE Count(seq, Q)
  <1> DEFINE more == Append(seq, e)
             k == Len(seq) + 1
             P == {i \in DOMAIN more : more[i] \in Q}
  <1>1. Len(seq) \in Nat /\ k \in Nat \ {0} /\ k - 1 = Len(seq) /\ more[k] = e
        /\ DOMAIN more = 1 .. k /\ DOMAIN seq = 1 .. (k - 1) /\ k \in 1 .. k
    OBVIOUS
  <1>2. \A i \in 1 .. (k - 1) : more[i] = seq[i] /\ i \in 1 .. k
    OBVIOUS
  <1> HIDE DEF more, k
  <1>3. P \cap (1 .. (k - 1)) = {i \in DOMAIN seq : seq[i] \in Q}
    BY <1>1, <1>2
  <1>4. P \cap (1 .. k) = P
    BY <1>1
  <1>5. k \in P <=> e \in Q
    BY <1>1
  <1> HIDE DEF P
  <1>6. /\ Cardinality(P \cap (1 .. (k - 1))) \in 0 .. (k - 1)
        /\ Cardinality(P \cap (1 .. k))
             = IF k \in P THEN Cardinality(P \cap (1 .. (k - 1))) + 1
               ELSE Cardinality(P \cap (1 .. (k - 1)))
    BY <1>1, CountOfPrefix
  <1>7. Count(seq, Q) = Cardinality(P \cap (1 .. (k - 1)))
    BY Zenon, <1>3 DEF Count
  <1>8. Count(Append(seq, e), Q) = Cardinality(P)
    BY Zenon DEF Count, P, more
  <1> QED
    BY <1>1, <1>4, <1>5, <1>6, <1>7, <1>8

\* What FlattenSeq makes of the first sequences of a sequence, one after the other.
Joins(h, seqs, S) ==
  /\ h \in [0 .. Len(seqs) -> Seq(S)] /\ h[0] = <<>> /\ FlattenSeq(seqs) = h[Len(seqs)]
  /\ \A i \in 1 .. Len(seqs) : h[i] = h[i - 1] \o seqs[i]

LEMMA FlattenInOrder ==
  ASSUME NEW S, NEW seqs \in Seq(Seq(S))
  PROVE  \E h : Joins(h, seqs, S)
  <1> DEFINE n == Len(seqs)
             Flat(f, k) == f = [i \in 1 .. k |-> IF i = 1 THEN seqs[i] ELSE f[i - 1] \o seqs[i]]
  <1>1. n \in Nat /\ \A i \in 1 .. n : seqs[i] \in Seq(S)
    OBVIOUS
  <1> HIDE DEF n
  <1> DEFINE Typed(f, k) == \A i \in 1 .. k : f[i] \in Seq(S)
             Out == {k \in 0 .. n : \E f : Flat(f, k) /\ Typed(f, k)}
  <1>2. 0 \in Out
    <2>1. Flat([i \in 1 .. 0 |-> <<>>], 0) /\ Typed([i \in 1 .. 0 |-> <<>>], 0)
      OBVIOUS
    <2> HIDE DEF Flat, Typed
    <2> QED
      BY <1>1, <2>1
  <1>3. ASSUME NEW k \in 1 .. n, k - 1 \in Out PROVE k \in Out
    <2>1. PICK f : Flat(f, k - 1) /\ Typed(f, k - 1)
      BY <1>3
    <2> DEFINE g == [i \in 1 .. k |-> IF i < k THEN f[i]
                                      ELSE IF i = 1 THEN seqs[i] ELSE f[i - 1] \o seqs[i]]
    <2>2. seqs[k] \in Seq(S)
      BY <1>1
    <2>3. \A i \in 1 .. k : i # k => f[i] \in Seq(S) /\ g[i] = f[i] /\ i \in 1 .. (k - 1)
      <3>1. \A i \in 1 .. k : i # k => i < k /\ i \in 1 .. (k - 1)
        BY <1>1
      <3>2. \A i \in 1 .. (k - 1) : f[i] \in Seq(S)
        BY Zenon, <2>1
      <3>3. \A i \in 1 .. k : i < k => g[i] = f[i]
        OBVIOUS
      <3> HIDE DEF g
      <3> QED
        BY <3>1, <3>2, <3>3
    <2>4. ASSUME NEW i \in 1 .. k
          PROVE  g[i] = (IF i = 1 THEN seqs[i] ELSE g[i - 1] \o seqs[i]) /\ g[i] \in Seq(S)
      <3>1. i # 1 => i - 1 \in 1 .. k /\ i - 1 # k
        BY <1>1
      <3>2. CASE i = k
        <4>1. g[i] = IF i = 1 THEN seqs[i] ELSE f[i - 1] \o seqs[i]
          BY <1>1, <3>2
        <4> HIDE DEF g
        <4> QED
          BY <2>2, <2>3, <3>1, <3>2, <4>1
      <3>3. CASE i # k
        <4>1. f[i] = IF i = 1 THEN seqs[i] ELSE f[i - 1] \o seqs[i]
          BY Zenon, <2>1, <2>3, <3>3
        <4>2. i # 1 => g[i - 1] = f[i - 1]
          BY Zenon, <2>3, <3>1
        <4> HIDE DEF g
        <4> QED
          BY <2>3, <3>3, <4>1, <4>2
      <3> QED
        BY <3>2, <3>3
    <2>5. Flat(g, k)
      <3>1. g = [i \in 1 .. k |-> g[i]]
        OBVIOUS
      <3> HIDE DEF g
      <3> QED
        BY <2>4, <3>1
    <2>6. Typed(g, k)
      <3> HIDE DEF g
      <3> QED
        BY <2>4
    <2> HIDE DEF g, Flat, Typed
    <2> QED
      BY <1>1, <2>5, <2>6
  <1>4. n \in Out
    <2> HIDE DEF Out
    <2>1. 0 .. n \subseteq Out
      BY <1>1, <1>2, <1>3, BoundedInduction
    <2> QED
      BY <1>1, <2>1
  <1>5. CASE n = 0
    <2> DEFINE h == [i \in 0 .. 0 |-> <<>>]
    <2>1. FlattenSeq(seqs) = seqs /\ seqs = <<>>
      BY <1>5 DEF FlattenSeq, n
    <2>2. h \in [0 .. n -> Seq(S)] /\ h[0] = <<>> /\ \A i \in 1 .. n : h[i] = h[i - 1] \o seqs[i]
      BY <1>5
    <2> HIDE DEF h
    <2> QED
      BY Zenon, <1>5, <2>1, <2>2 DEF Joins, n
  <1>6. CASE n # 0
    <2>1. PICK e : e = [i \in 1 .. n |-> IF i = 1 THEN seqs[i] ELSE e[i - 1] \o seqs[i]]
      BY <1>4
    <2>2. PICK f : /\ f = [i \in 1 .. n |-> IF i = 1 THEN seqs[i] ELSE f[i - 1] \o seqs[i]]
                   /\ FlattenSeq(seqs) = f[n]
      BY Zenon, <1>6, <2>1 DEF FlattenSeq, n
    <2>3. \A i \in 1 .. n : f[i] = IF i = 1 THEN seqs[i] ELSE f[i - 1] \o seqs[i]
      BY Zenon, <2>2
    <2> DEFINE h == [i \in 0 .. n |-> IF i = 0 THEN <<>> ELSE f[i]]
    <2>4. h[0] = <<>> /\ h[n] = f[n] /\ \A i \in 1 .. n : h[i] = f[i]
      BY <1>1, <1>6
    <2>5. DOMAIN h = 0 .. n /\ h = [i \in 0 .. n |-> h[i]]
      OBVIOUS
    <2> HIDE DEF h
    <2>6. ASSUME NEW i \in 1 .. n PROVE h[i] = h[i - 1] \o seqs[i]
      <3>1. seqs[i] \in Seq(S)
        BY <1>1
      <3>2. CASE i = 1
        <4>1. <<>> \o seqs[i] = seqs[i]
          BY <3>1
        <4>2. i - 1 = 0
          BY <3>2
        <4> QED
          BY Zenon, <2>3, <2>4, <3>2, <4>1, <4>2
      <3>3. CASE i # 1
        <4>1. i - 1 \in 1 .. n
          BY <1>1, <3>3
        <4> QED
          BY Zenon, <2>3, <2>4, <3>3, <4>1
      <3> QED
        BY <3>2, <3>3
    <2> DEFINE Done == {k \in 0 .. n : h[k] \in Seq(S)}
    <2>7. 0 \in Done
      <3>1. 0 \in 0 .. n /\ <<>> \in Seq(S)
        BY <1>1
      <3> QED
        BY Zenon, <2>4, <3>1
    <2>8. ASSUME NEW k \in 1 .. n, k - 1 \in Done PROVE k \in Done
      <3>1. seqs[k] \in Seq(S) /\ h[k - 1] \in Seq(S) /\ k \in 0 .. n
        BY <1>1, <2>8
      <3>2. h[k - 1] \o seqs[k] \in Seq(S)
        BY <3>1
      <3> QED
        BY <2>6, <3>1, <3>2
    <2>9. \A k \in 0 .. n : h[k] \in Seq(S)
      <3> HIDE DEF Done
      <3>1. 0 .. n \subseteq Done
        BY Zenon, <1>1, <2>7, <2>8, BoundedInduction
      <3> QED
        BY <3>1 DEF Done
    <2>10. h \in [0 .. n -> Seq(S)]
      BY <2>5, <2>9
    <2> QED
      BY Zenon, <2>2, <2>4, <2>6, <2>10 DEF Joins, n
  <1> QED
    BY <1>5, <1>6

\* A sequence of sequences laid out one after the other.
LEMMA FlattenType ==
  ASSUME NEW S, NEW seqs \in Seq(Seq(S))
  PROVE  FlattenSeq(seqs) \in Seq(S)
  <1>1. PICK h : Joins(h, seqs, S)
    BY FlattenInOrder
  <1>2. Len(seqs) \in 0 .. Len(seqs)
    OBVIOUS
  <1> QED
    BY <1>1, <1>2 DEF Joins

-----------------------------------------------------------------------------
(* Runs *)

\* A state from which a sequence leads to another.
Leads(F, State, s, seq, u) == \E g \in [0 .. Len(seq) -> State] : PrefixStates(g, s, F, seq, u)

LEMMA LeadsNowhere ==
  ASSUME NEW State, NEW F, NEW s \in State
  PROVE  Leads(F, State, s, <<>>, s)
  <1> DEFINE g == [k \in 0 .. 0 |-> s]
  <1>1. g \in [0 .. Len(<<>>) -> State] /\ g[0] = s /\ Len(<<>>) = 0
    OBVIOUS
  <1>2. PrefixStates(g, s, F, <<>>, s)
    <2> HIDE DEF g
    <2> QED
      BY <1>1 DEF PrefixStates
  <1> QED
    BY Zenon, <1>1, <1>2 DEF Leads

LEMMA LeadsOn ==
  ASSUME NEW State, NEW Elem, NEW F \in [State \X Elem -> State],
         NEW s, NEW u \in State, NEW seq \in Seq(Elem), NEW x \in Elem, Leads(F, State, s, seq, u)
  PROVE  Leads(F, State, s, Append(seq, x), F[<<u, x>>]) /\ F[<<u, x>>] \in State
  <1> DEFINE n == Len(seq)
             more == Append(seq, x)
             v == F[<<u, x>>]
  <1>1. PICK g \in [0 .. n -> State] : PrefixStates(g, s, F, seq, u)
    BY Zenon DEF Leads
  <1>2. /\ n \in Nat /\ Len(more) = n + 1 /\ more[n + 1] = x
        /\ \A k \in 1 .. n : more[k] = seq[k]
    OBVIOUS
  <1>3. v \in State
    OBVIOUS
  <1> HIDE DEF n, more, v
  <1> DEFINE h == [k \in 0 .. (n + 1) |-> IF k = n + 1 THEN v ELSE g[k]]
  <1>4. h \in [0 .. (n + 1) -> State]
    BY <1>2, <1>3
  <1>5. h[0] = g[0] /\ h[n + 1] = v /\ \A k \in 0 .. n : h[k] = g[k]
    BY <1>2
  <1> HIDE DEF h
  <1>6. ASSUME NEW k \in 1 .. (n + 1) PROVE h[k] = F[<<h[k - 1], more[k]>>]
    <2>1. k - 1 \in 0 .. n /\ h[k - 1] = g[k - 1]
      BY <1>2, <1>5
    <2>2. CASE k = n + 1
      <3>1. k - 1 = n /\ g[n] = u
        BY <1>1, <1>2, <2>2 DEF PrefixStates, n
      <3> QED
        BY Zenon, <1>2, <1>5, <2>1, <2>2, <3>1 DEF v
    <2>3. CASE k # n + 1
      <3>1. k \in 1 .. n /\ k \in 0 .. n
        BY <1>2, <2>3
      <3>2. g[k] = F[<<g[k - 1], seq[k]>>]
        BY Zenon, <1>1, <3>1 DEF PrefixStates, n
      <3> QED
        BY Zenon, <1>2, <1>5, <2>1, <3>1, <3>2
    <2> QED
      BY <2>2, <2>3
  <1>7. PrefixStates(h, s, F, more, v)
    <2>1. g[0] = s
      BY <1>1 DEF PrefixStates
    <2> QED
      BY Zenon, <1>2, <1>5, <1>6, <2>1 DEF PrefixStates
  <1> QED
    BY Zenon, <1>2, <1>3, <1>4, <1>7 DEF Leads, more, v

LEMMA LeadsThrough ==
  ASSUME NEW State, NEW Elem, NEW F \in [State \X Elem -> State],
         NEW s, NEW u \in State, NEW v, NEW a \in Seq(Elem), NEW b \in Seq(Elem),
         Leads(F, State, s, a, u), Leads(F, State, u, b, v)
  PROVE  Leads(F, State, s, a \o b, v)
  <1> DEFINE m == Len(a)
             n == Len(b)
             ab == a \o b
  <1>1. PICK g \in [0 .. m -> State] : PrefixStates(g, s, F, a, u)
    BY Zenon DEF Leads
  <1>2. PICK e \in [0 .. n -> State] : PrefixStates(e, u, F, b, v)
    BY Zenon DEF Leads
  <1>3. /\ m \in Nat /\ n \in Nat /\ Len(ab) = m + n
        /\ \A k \in 1 .. m : ab[k] = a[k]
        /\ \A k \in 1 .. n : ab[m + k] = b[k]
    OBVIOUS
  <1>4. /\ g[0] = s /\ g[m] = u /\ e[0] = u /\ e[n] = v
        /\ \A k \in 1 .. m : g[k] = F[<<g[k - 1], a[k]>>]
        /\ \A k \in 1 .. n : e[k] = F[<<e[k - 1], b[k]>>]
    BY Zenon, <1>1, <1>2 DEF PrefixStates, m, n
  <1> HIDE DEF m, n, ab
  <1> DEFINE h == [k \in 0 .. (m + n) |-> IF k <= m THEN g[k] ELSE e[k - m]]
  <1>5. h \in [0 .. (m + n) -> State]
    BY <1>3
  <1>6. /\ \A k \in 0 .. m : h[k] = g[k] /\ k \in 0 .. (m + n)
        /\ \A k \in 1 .. n : h[m + k] = e[k] /\ m + k \in 0 .. (m + n)
    BY <1>3
  <1> HIDE DEF h
  <1>7. ASSUME NEW k \in 1 .. (m + n) PROVE h[k] = F[<<h[k - 1], ab[k]>>]
    <2>1. CASE k <= m
      <3>1. k \in 1 .. m /\ k \in 0 .. m /\ k - 1 \in 0 .. m
        BY <1>3, <2>1
      <3> QED
        BY Zenon, <1>3, <1>4, <1>6, <3>1
    <2>2. CASE k > m
      <3> DEFINE j == k - m
      <3>1. j \in 1 .. n /\ k = m + j /\ (j # 1 => j - 1 \in 1 .. n /\ k - 1 = m + (j - 1))
            /\ (j = 1 => k - 1 = m /\ m \in 0 .. m /\ j - 1 = 0)
        BY <1>3, <2>2
      <3> HIDE DEF j
      <3>2. h[k - 1] = e[j - 1]
        <4>1. CASE j = 1
          BY Zenon, <1>4, <1>6, <3>1, <4>1
        <4>2. CASE j # 1
          BY Zenon, <1>6, <3>1, <4>2
        <4> QED
          BY <4>1, <4>2
      <3>3. h[k] = e[j] /\ ab[k] = b[j] /\ e[j] = F[<<e[j - 1], b[j]>>]
        BY Zenon, <1>3, <1>4, <1>6, <3>1
      <3> QED
        BY Zenon, <3>2, <3>3
    <2> QED
      BY <1>3, <2>1, <2>2
  <1>8. h[0] = s /\ h[m + n] = v
    <2>1. 0 \in 0 .. m /\ m \in 0 .. m /\ (n = 0 => m + n = m) /\ (n # 0 => n \in 1 .. n)
      BY <1>3
    <2>2. h[0] = s
      BY Zenon, <1>4, <1>6, <2>1
    <2>3. CASE n = 0
      <3>1. h[m + n] = g[m] /\ g[m] = u /\ e[0] = v /\ e[0] = u
        BY Zenon, <1>4, <1>6, <2>1, <2>3
      <3> QED
        BY Zenon, <2>2, <3>1
    <2>4. CASE n # 0
      BY Zenon, <1>4, <1>6, <2>1, <2>2, <2>4
    <2> QED
      BY <2>3, <2>4
  <1>9. PrefixStates(h, s, F, ab, v)
    BY Zenon, <1>3, <1>7, <1>8 DEF PrefixStates
  <1> QED
    BY Zenon, <1>3, <1>5, <1>9 DEF Leads, ab

LEMMA LeadsOnce ==
  ASSUME NEW State, NEW F, NEW s, NEW u, NEW v, NEW Elem, NEW seq \in Seq(Elem),
         Leads(F, State, s, seq, u), Leads(F, State, s, seq, v)
  PROVE  u = v
  <1> DEFINE n == Len(seq)
  <1>1. PICK g \in [0 .. n -> State] : PrefixStates(g, s, F, seq, u)
    BY Zenon DEF Leads
  <1>2. PICK e \in [0 .. n -> State] : PrefixStates(e, s, F, seq, v)
    BY Zenon DEF Leads
  <1>3. n \in Nat /\ 0 \in 0 .. n /\ n \in 0 .. n
    OBVIOUS
  <1>4. /\ g[0] = s /\ g[n] = u /\ e[0] = s /\ e[n] = v
        /\ \A k \in 1 .. n : g[k] = F[<<g[k - 1], seq[k]>>]
        /\ \A k \in 1 .. n : e[k] = F[<<e[k - 1], seq[k]>>]
    BY Zenon, <1>1, <1>2 DEF PrefixStates, n
  <1> HIDE DEF n
  <1> DEFINE Same == {k \in 0 .. n : g[k] = e[k]}
  <1>5. 0 \in Same /\ \A k \in 1 .. n : k - 1 \in Same => k \in Same
    <2>1. \A k \in 1 .. n : g[k - 1] = e[k - 1] => g[k] = e[k]
      BY Zenon, <1>4
    <2> QED
      BY <1>3, <1>4, <2>1
  <1>6. n \in Same
    <2> HIDE DEF Same
    <2>1. 0 .. n \subseteq Same
      BY Zenon, <1>3, <1>5, BoundedInduction
    <2> QED
      BY <1>3, <2>1
  <1> QED
    BY <1>4, <1>6
=============================================================================
