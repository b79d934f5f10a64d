-------------------------- MODULE KeybindingsProofs --------------------------
(***************************************************************************)
(* Lemmas about the list of key bindings, for every list, text and set of  *)
(* commands: normalised texts are chains of chords, the comparison of two  *)
(* chains is a total order, the binary searches return what they should,   *)
(* and adding a binding keeps the list in order.                           *)
(*                                                                         *)
(* The binary searches and the folds are recursive functions: that they    *)
(* are defined at all, and what they return, is proved by induction on a   *)
(* measure that every call decreases (RecursionExists, RecursionInduction).*)
(***************************************************************************)
EXTENDS Keybindings, SequenceTheorems, FiniteSetTheorems, TLAPS

-----------------------------------------------------------------------------
(* Recursive functions *)

\* Induction on the natural numbers, for a set of them.
LEMMA NaturalsInduct ==
  ASSUME NEW S, 0 \in S, \A n \in Nat : n \in S => n + 1 \in S
  PROVE  Nat \subseteq S
<1> SUFFICES ASSUME NEW n \in Nat, n \notin S PROVE FALSE
  OBVIOUS
<1> DEFINE T == {k \in Nat : k \notin S}
<1>1. PICK x \in T : \A y \in T : ~ (<<y, x>> \in OpToRel(<, Nat))
  BY NatLessThanWellFounded, WFMin
<1>2. \A y \in T : ~(y < x)
  BY <1>1, Zenon DEF OpToRel
<1>3. x # 0 /\ x - 1 \in Nat /\ x - 1 < x
  OBVIOUS
<1> QED BY <1>2, <1>3

\* The recursion f[x] = IF x \in Final THEN stop[x] ELSE step[x][f[next[x]]] on D
\* has its values in V and calls itself with a smaller measure.
Recursion(D, V, Final, stop, next, step, m) ==
  /\ Final \subseteq D /\ stop \in [D -> V] /\ next \in [D -> D]
  /\ step \in [D -> [V -> V]] /\ m \in [D -> Nat]
  /\ \A x \in D \ Final : m[next[x]] < m[x]

\* f is a solution of that recursion.
SolvesRecursion(f, D, Final, stop, next, step) ==
  \A x \in D : f[x] = IF x \in Final THEN stop[x] ELSE step[x][f[next[x]]]

\* A function that such a recursion defines exists.
LEMMA RecursionExists ==
  ASSUME NEW D, NEW V, NEW Final, NEW stop, NEW next, NEW step, NEW m,
         Recursion(D, V, Final, stop, next, step, m)
  PROVE  \E f \in [D -> V] : SolvesRecursion(f, D, Final, stop, next, step)
<1> USE DEF Recursion
<1> DEFINE
      Solves(f, k) == \A x \in D : m[x] < k =>
                        f[x] = IF x \in Final THEN stop[x] ELSE step[x][f[next[x]]]
      S == {k \in Nat : \E f \in [D -> V] : Solves(f, k)}
<1>1. 0 \in S
  OBVIOUS
<1>2. ASSUME NEW k \in Nat, k \in S PROVE k + 1 \in S
  <2>1. PICK f \in [D -> V] : Solves(f, k)
    BY <1>2
  <2> DEFINE g == [x \in D |-> IF x \in Final THEN stop[x] ELSE step[x][f[next[x]]]]
  <2>2. g \in [D -> V]
    OBVIOUS
  <2>3. \A x \in D : m[x] < k => g[x] = f[x]
    BY <2>1
  <2>4. \A x \in D \ Final : m[x] < k + 1 => m[next[x]] < k
    OBVIOUS
  <2>5. Solves(g, k + 1)
    BY <2>3, <2>4
  <2>6. k + 1 \in Nat /\ \E e \in [D -> V] : Solves(e, k + 1)
    <3> HIDE DEF g, Solves
    <3> QED BY <2>2, <2>5
  <2> QED BY <2>6
<1>3. Nat \subseteq S
  BY <1>1, <1>2, NaturalsInduct
<1> DEFINE fs == [k \in Nat |-> CHOOSE f \in [D -> V] : Solves(f, k)]
<1>4. \A k \in Nat : fs[k] \in [D -> V] /\ Solves(fs[k], k)
  BY <1>3
\* Two solutions agree where both are one.
<1> DEFINE A == {n \in Nat : \A x \in D : m[x] < n =>
                   \A k, l \in Nat : m[x] < k /\ m[x] < l => fs[k][x] = fs[l][x]}
<1>5. 0 \in A
  OBVIOUS
<1>6. ASSUME NEW n \in Nat, n \in A PROVE n + 1 \in A
  <2> SUFFICES ASSUME NEW x \in D, m[x] < n + 1, NEW k \in Nat, NEW l \in Nat,
                      m[x] < k, m[x] < l
               PROVE  fs[k][x] = fs[l][x]
    <3> HIDE DEF fs
    <3> QED OBVIOUS
  <2>0. \A y \in D : m[y] < n =>
          \A i, j \in Nat : m[y] < i /\ m[y] < j => fs[i][y] = fs[j][y]
    <3> HIDE DEF fs
    <3> QED BY <1>6
  <2> HIDE DEF fs, A
  <2>1. fs[k][x] = IF x \in Final THEN stop[x] ELSE step[x][fs[k][next[x]]]
    BY <1>4
  <2>2. fs[l][x] = IF x \in Final THEN stop[x] ELSE step[x][fs[l][next[x]]]
    BY <1>4
  <2>3. CASE x \in Final
    BY <2>1, <2>2, <2>3
  <2>4. CASE x \notin Final
    <3>1. next[x] \in D /\ m[next[x]] < m[x] /\ m[x] \in Nat /\ m[next[x]] \in Nat
      BY <2>4
    <3>2. m[next[x]] < n /\ m[next[x]] < k /\ m[next[x]] < l
      BY <3>1
    <3>3. fs[k][next[x]] = fs[l][next[x]]
      BY <2>0, <3>1, <3>2
    <3> QED BY <2>1, <2>2, <2>4, <3>3
  <2> QED BY <2>3, <2>4
<1>7. Nat \subseteq A
  <2> HIDE DEF A
  <2> QED BY <1>5, <1>6, NaturalsInduct
<1>8. \A x \in D : \A k, l \in Nat : m[x] < k /\ m[x] < l => fs[k][x] = fs[l][x]
  <2> TAKE x \in D
  <2>1. m[x] \in Nat /\ m[x] + 1 \in Nat /\ m[x] < m[x] + 1
    OBVIOUS
  <2>2. m[x] + 1 \in A
    BY <1>7, <2>1
  <2> QED BY <2>1, <2>2
<1> DEFINE h == [x \in D |-> fs[m[x] + 1][x]]
<1> HIDE DEF fs, A, S
<1>9. h \in [D -> V]
  BY <1>4
<1>10. ASSUME NEW x \in D PROVE h[x] = IF x \in Final THEN stop[x] ELSE step[x][h[next[x]]]
  <2>0. m[x] \in Nat /\ m[x] + 1 \in Nat /\ m[x] < m[x] + 1
    OBVIOUS
  <2>1. h[x] = IF x \in Final THEN stop[x] ELSE step[x][fs[m[x] + 1][next[x]]]
    BY <1>4, <2>0
  <2>2. CASE x \in Final
    BY <2>1, <2>2
  <2>3. CASE x \notin Final
    <3>1. next[x] \in D /\ m[next[x]] < m[x] /\ m[next[x]] \in Nat /\ m[next[x]] + 1 \in Nat
      BY <2>3
    <3>2. m[next[x]] < m[x] + 1 /\ m[next[x]] < m[next[x]] + 1
      BY <3>1, <2>0
    <3>3. fs[m[x] + 1][next[x]] = fs[m[next[x]] + 1][next[x]]
      BY <3>1, <3>2, <2>0, <1>8
    <3>4. h[next[x]] = fs[m[next[x]] + 1][next[x]]
      BY <3>1
    <3> QED BY <2>1, <2>3, <3>3, <3>4
  <2> QED BY <2>2, <2>3
<1> QED BY <1>9, <1>10 DEF SolvesRecursion

\* T holds where a recursion ends and where its call holds.
PassedBack(D, T, Final, next, m) ==
  /\ next \in [D -> D] /\ m \in [D -> Nat]
  /\ \A x \in D \ Final : m[next[x]] < m[x]
  /\ \A x \in D : x \in Final \/ next[x] \in T => x \in T

\* What is passed back by every call holds everywhere.
LEMMA RecursionInduction ==
  ASSUME NEW D, NEW T, NEW Final, NEW next, NEW m, PassedBack(D, T, Final, next, m)
  PROVE  D \subseteq T
<1> USE DEF PassedBack
<1> DEFINE S == {n \in Nat : \A x \in D : m[x] < n => x \in T}
<1>1. 0 \in S
  OBVIOUS
<1>2. ASSUME NEW n \in Nat, n \in S PROVE n + 1 \in S
  <2> SUFFICES ASSUME NEW x \in D, m[x] < n + 1, x \notin Final PROVE x \in T
    OBVIOUS
  <2>1. next[x] \in D /\ m[next[x]] < n
    OBVIOUS
  <2> QED BY <1>2, <2>1
<1>3. Nat \subseteq S
  <2> HIDE DEF S
  <2> QED BY <1>1, <1>2, NaturalsInduct
<1>4. ASSUME NEW x \in D PROVE x \in T
  <2>1. m[x] \in Nat /\ m[x] + 1 \in Nat /\ m[x] < m[x] + 1
    OBVIOUS
  <2> QED BY <1>3, <2>1
<1> QED BY <1>4

-----------------------------------------------------------------------------
(* Folds over sequences *)

\* A set of positions with a member has a greatest.
LEMMA MaxOfPositions ==
  ASSUME NEW n \in Nat, NEW s \in SUBSET (1..n), s # {}
  PROVE  Max(s) \in s
<1>1. \E x \in s : \A y \in s : x >= y
  <2> DEFINE T == {n - i : i \in s}
  <2>0. \A i \in s : i \in Nat /\ n - i \in Nat
    OBVIOUS
  <2>1. T \in SUBSET Nat /\ T # {}
    BY <2>0
  <2>2. PICK x \in T : \A y \in T : ~ (<<y, x>> \in OpToRel(<, Nat))
    BY <2>1, NatLessThanWellFounded, WFMin
  <2>3. \A y \in T : ~(y < x)
    BY <2>1, <2>2, Zenon DEF OpToRel
  <2>4. PICK i \in s : x = n - i
    OBVIOUS
  <2>5. \A j \in s : ~(n - j < n - i)
    BY <2>3, <2>4
  <2>6. \A j \in s : i >= j
    BY <2>5
  <2> QED BY <2>6
<1> QED BY <1>1 DEF Max

\* A set of positions is counted, and its greatest member counts for one.
LEMMA PositionsAreCounted ==
  ASSUME NEW n \in Nat, NEW s \in SUBSET (1..n)
  PROVE  /\ Cardinality(s) \in Nat
         /\ s # {} => Max(s) \in s /\ Cardinality(s \ {Max(s)}) = Cardinality(s) - 1
<1>1. IsFiniteSet(1..n)
  <2>1. 1 \in Int /\ n \in Int
    OBVIOUS
  <2> QED BY <2>1, FS_Interval
<1>2. IsFiniteSet(s)
  BY <1>1, FS_Subset
<1> QED BY <1>2, FS_CardinalityType, FS_RemoveElement, MaxOfPositions

\* A fold over n elements recurses over the sets of their positions, the greatest
\* first: its i-th step takes a value v to step[i][v].
Folding(n, V, base, step) == n \in Nat /\ base \in V /\ step \in [1..n -> [V -> V]]

\* f is the recursive function of such a fold.
Folds(f, n, base, step) ==
  \A s \in SUBSET (1..n) :
    f[s] = IF s = {} THEN base ELSE step[Max(s)][f[s \ {Max(s)}]]

\* The recursive function of a fold exists.
LEMMA FoldExists ==
  ASSUME NEW n, NEW V, NEW base, NEW step, Folding(n, V, base, step)
  PROVE  \E f \in [SUBSET (1..n) -> V] : Folds(f, n, base, step)
<1> USE DEF Folding
<1> DEFINE
      D == SUBSET (1..n)
      next == [s \in D |-> s \ {Max(s)}]
      m == [s \in D |-> Cardinality(s)]
      stop == [s \in D |-> base]
      st == [s \in D |-> IF s = {} THEN [v \in V |-> v] ELSE step[Max(s)]]
<1>1. \A s \in D : Cardinality(s) \in Nat
  BY PositionsAreCounted
<1>2. next \in [D -> D] /\ m \in [D -> Nat] /\ stop \in [D -> V]
  BY <1>1
<1>3. st \in [D -> [V -> V]]
  BY MaxOfPositions
<1>4. \A s \in D \ {{}} : m[next[s]] < m[s]
  <2> SUFFICES ASSUME NEW s \in D, s # {} PROVE m[next[s]] < m[s]
    OBVIOUS
  <2>1. Cardinality(s \ {Max(s)}) = Cardinality(s) - 1 /\ s \ {Max(s)} \in D
    BY PositionsAreCounted
  <2> QED BY <1>1, <2>1
<1>5. {{}} \in SUBSET D
  OBVIOUS
<1> HIDE DEF next, m, stop, st
<1>6. PICK f \in [D -> V] :
        \A s \in D : f[s] = IF s \in {{}} THEN stop[s] ELSE st[s][f[next[s]]]
  <2> DEFINE Final == {{}}
  <2>1. Recursion(D, V, Final, stop, next, st, m)
    BY <1>2, <1>3, <1>4, <1>5 DEF Recursion
  <2>2. \E f \in [D -> V] : SolvesRecursion(f, D, Final, stop, next, st)
    BY <2>1, RecursionExists
  <2> QED BY <2>2 DEF SolvesRecursion
<1>7. \A s \in D : f[s] = IF s = {} THEN base ELSE step[Max(s)][f[s \ {Max(s)}]]
  BY <1>6 DEF next, stop, st
<1> QED BY <1>7 DEF Folds

\* T holds of no positions and is kept by adding one above the others.
KeptByFold(n, T) ==
  /\ n \in Nat
  /\ {} \in T
  /\ \A s \in SUBSET (1..n) : s # {} /\ s \ {Max(s)} \in T => s \in T

\* What is kept by adding a position above the others holds of all of them.
LEMMA FoldInduction ==
  ASSUME NEW n, NEW T, KeptByFold(n, T)
  PROVE  1..n \in T
<1> USE DEF KeptByFold
<1> DEFINE
      D == SUBSET (1..n)
      next == [s \in D |-> s \ {Max(s)}]
      m == [s \in D |-> Cardinality(s)]
<1>1. \A s \in D : Cardinality(s) \in Nat
  BY PositionsAreCounted
<1>2. next \in [D -> D] /\ m \in [D -> Nat]
  BY <1>1
<1>4. \A s \in D \ {{}} : m[next[s]] < m[s]
  <2> SUFFICES ASSUME NEW s \in D, s # {} PROVE m[next[s]] < m[s]
    OBVIOUS
  <2>1. Cardinality(s \ {Max(s)}) = Cardinality(s) - 1 /\ s \ {Max(s)} \in D
    BY PositionsAreCounted
  <2> QED BY <1>1, <2>1
<1>5. \A s \in D : s \in {{}} \/ next[s] \in T => s \in T
  OBVIOUS
<1>6. D \subseteq T
  <2> DEFINE Final == {{}}
  <2> HIDE DEF D, m, next
  <2>1. PassedBack(D, T, Final, next, m)
    BY <1>2, <1>4, <1>5 DEF PassedBack
  <2> QED BY <2>1, RecursionInduction
<1> QED BY <1>6

\* f takes the steps of a fold as far as its values are in V.
TakesSteps(f, n, V, base, step) ==
  /\ f[{}] = base
  /\ \A s \in SUBSET (1..n) :
       s # {} /\ f[s \ {Max(s)}] \in V => f[s] = step[Max(s)][f[s \ {Max(s)}]]

\* The result of a fold whose steps stay in V is in V.
LEMMA FoldTyped ==
  ASSUME NEW f, NEW n, NEW V, NEW base, NEW step,
         Folding(n, V, base, step), TakesSteps(f, n, V, base, step)
  PROVE  f[1..n] \in V
<1> DEFINE T == {s \in SUBSET (1..n) : f[s] \in V}
<1>1. {} \in T
  BY DEF Folding, TakesSteps
<1>2. ASSUME NEW s \in SUBSET (1..n), s # {}, s \ {Max(s)} \in T PROVE s \in T
  <2>1. f[s \ {Max(s)}] \in V /\ Max(s) \in 1..n
    BY <1>2, MaxOfPositions DEF Folding
  <2>2. f[s] = step[Max(s)][f[s \ {Max(s)}]]
    BY <1>2, <2>1 DEF TakesSteps
  <2>3. f[s] \in V
    BY <2>1, <2>2 DEF Folding
  <2> QED BY <2>3
<1> HIDE DEF T
<1>3. KeptByFold(n, T)
  BY <1>1, <1>2 DEF KeptByFold, Folding
<1>4. 1..n \in T
  BY <1>3, FoldInduction
<1> QED BY <1>4 DEF T

-----------------------------------------------------------------------------
(* Normalised texts are chains of chords *)

\* The recursive function of SplitAtDashes.
SplitEq(f, text) ==
  f = [s \in SUBSET (DOMAIN text) |->
         IF s = {} THEN <<>> ELSE AddChord(f[s \ {Max(s)}], text[Max(s)])]

\* Every key alone is a run.
LEMMA SinglesTyped ==
  ASSUME NEW keys \in Seq(Int) PROVE Singles(keys) \in Seq(Chord)
<1>1. \A i \in 1..Len(keys) : <<keys[i]>> \in Chord
  BY DEF Chord
<1> QED BY <1>1 DEF Singles

\* A chord with one more key is a chord.
LEMMA AppendToChord ==
  ASSUME NEW c \in Chord, NEW k \in Int PROVE Append(c, k) \in Chord
<1>1. c \in Seq(Int)
  BY DEF Chord
<1>2. Append(c, k) \in Seq(Int) /\ Len(Append(c, k)) = Len(c) + 1 /\ Len(c) \in Nat
  BY <1>1
<1>3. Len(<<>>) = 0
  OBVIOUS
<1>4. Append(c, k) # <<>>
  BY <1>2, <1>3
<1> QED BY <1>2, <1>4 DEF Chord

\* Splitting one more chord leaves runs that are not empty.
LEMMA AddChordTyped ==
  ASSUME NEW runs \in Seq(Chord), NEW chord \in Chord PROVE AddChord(runs, chord) \in Seq(Chord)
<1>0. chord[1] \in Int /\ Tail(chord) \in Seq(Int) /\ Singles(chord) \in Seq(Chord)
  BY SinglesTyped DEF Chord
<1>1. CASE runs = <<>>
  BY <1>0, <1>1 DEF AddChord
<1>2. CASE runs # <<>>
  <2>1. Front(runs) \in Seq(Chord) /\ Last(runs) \in Chord
    BY <1>2 DEF Front, Last
  <2>2. Append(Last(runs), chord[1]) \in Chord
    BY <1>0, <2>1, AppendToChord
  <2>3. Singles(Tail(chord)) \in Seq(Chord)
    BY <1>0, SinglesTyped
  <2> DEFINE c == Append(Last(runs), chord[1])
             t == Singles(Tail(chord))
             h == Front(runs)
  <2>4. AddChord(runs, chord) = h \o <<c>> \o t
    BY <1>2 DEF AddChord
  <2> HIDE DEF c, t, h
  <2>5. h \in Seq(Chord) /\ c \in Chord /\ t \in Seq(Chord)
    BY <2>1, <2>2, <2>3 DEF c, t, h
  <2> QED BY <2>4, <2>5
<1> QED BY <1>1, <1>2

\* split_string returns runs that are not empty.
LEMMA SplitTyped ==
  ASSUME NEW text \in Seq(Chord)
  PROVE  SplitAtDashes(text) \in Seq(Chord)
<1> DEFINE V == Seq(Chord)
           n == Len(text)
           step == [i \in 1..n |-> [v \in V |-> AddChord(v, text[i])]]
           f == CHOOSE f : SplitEq(f, text)
<1>1. n \in Nat /\ DOMAIN text = 1..n /\ <<>> \in V /\ \A i \in 1..n : text[i] \in Chord
  OBVIOUS
<1>2. SplitAtDashes(text) = f[DOMAIN text]
  BY Zenon DEF SplitAtDashes, FoldLeft, MapThenFoldSet, SplitEq, AddChord
<1> HIDE DEF n
<1>3. Folding(n, V, <<>>, step)
  BY <1>1, AddChordTyped DEF Folding
<1>4. PICK g \in [SUBSET (1..n) -> V] : Folds(g, n, <<>>, step)
  BY <1>3, FoldExists
<1>5. SplitEq(g, text)
  <2>1. \A s \in SUBSET (1..n) :
          g[s] = IF s = {} THEN <<>> ELSE AddChord(g[s \ {Max(s)}], text[Max(s)])
    BY <1>1, <1>4, MaxOfPositions DEF Folds
  <2>2. g = [s \in SUBSET (1..n) |-> g[s]]
    OBVIOUS
  <2> QED BY <2>1, <2>2, <1>1 DEF SplitEq
<1>6. SplitEq(f, text)
  BY <1>5
<1> HIDE DEF f
<1>7. TakesSteps(f, n, V, <<>>, step)
  BY <1>1, <1>6, MaxOfPositions DEF SplitEq, TakesSteps
<1>8. f[1..n] \in V
  BY <1>3, <1>7, FoldTyped
<1> QED BY <1>1, <1>2, <1>8

\* The recursive function of JoinWithDashes.
JoinEq(f, runs) ==
  f = [s \in SUBSET (DOMAIN runs) |->
         IF s = {} THEN <<>> ELSE AddRun(f[s \ {Max(s)}], runs[Max(s)])]

\* Joining one more run leaves chords that are not empty.
LEMMA AddRunTyped ==
  ASSUME NEW text \in Seq(Chord), NEW run \in Chord PROVE AddRun(text, run) \in Seq(Chord)
<1> DEFINE t == Singles(Tail(run))
<1>1. run[1] \in Int /\ <<run[1]>> \in Chord
  BY DEF Chord
<1>2. t \in Seq(Chord)
  <2>1. Tail(run) \in Seq(Int)
    BY DEF Chord
  <2> QED BY <2>1, SinglesTyped
<1>3. CASE text = <<>>
  <2>1. AddRun(text, run) = << <<run[1]>> >> \o t
    BY <1>3 DEF AddRun
  <2> HIDE DEF t
  <2> QED BY <2>1, <1>1, <1>2
<1>4. CASE text # <<>>
  <2> DEFINE c == Append(Last(text), run[1])
             h == Front(text)
  <2>1. Front(text) \in Seq(Chord) /\ Last(text) \in Chord
    BY <1>4 DEF Front, Last
  <2>2. h \in Seq(Chord) /\ c \in Chord
    BY <1>1, <2>1, AppendToChord
  <2>3. AddRun(text, run) = h \o <<c>> \o t
    BY <1>4 DEF AddRun
  <2> HIDE DEF c, t, h
  <2> QED BY <2>2, <2>3, <1>2
<1> QED BY <1>3, <1>4

\* join_string returns a chain of chords that are not empty.
LEMMA JoinTyped ==
  ASSUME NEW runs \in Seq(Chord)
  PROVE  JoinWithDashes(runs) \in Seq(Chord)
<1> DEFINE V == Seq(Chord)
           n == Len(runs)
           step == [i \in 1..n |-> [v \in V |-> AddRun(v, runs[i])]]
           f == CHOOSE f : JoinEq(f, runs)
<1>1. n \in Nat /\ DOMAIN runs = 1..n /\ <<>> \in V /\ \A i \in 1..n : runs[i] \in Chord
  OBVIOUS
<1>2. JoinWithDashes(runs) = f[DOMAIN runs]
  BY Zenon DEF JoinWithDashes, FoldLeft, MapThenFoldSet, JoinEq
<1> HIDE DEF n
<1>3. Folding(n, V, <<>>, step)
  BY <1>1, AddRunTyped DEF Folding
<1>4. PICK g \in [SUBSET (1..n) -> V] : Folds(g, n, <<>>, step)
  BY <1>3, FoldExists
<1>5. JoinEq(g, runs)
  <2>1. \A s \in SUBSET (1..n) :
          g[s] = IF s = {} THEN <<>> ELSE AddRun(g[s \ {Max(s)}], runs[Max(s)])
    BY <1>1, <1>4, MaxOfPositions DEF Folds
  <2>2. g = [s \in SUBSET (1..n) |-> g[s]]
    OBVIOUS
  <2> QED BY <2>1, <2>2, <1>1 DEF JoinEq
<1>6. JoinEq(f, runs)
  BY <1>5
<1> HIDE DEF f
<1>7. TakesSteps(f, n, V, <<>>, step)
  BY <1>1, <1>6, MaxOfPositions DEF JoinEq, TakesSteps
<1>8. f[1..n] \in V
  BY <1>3, <1>7, FoldTyped
<1> QED BY <1>1, <1>2, <1>8

\* What InsertAt and RemoveAt leave at each position.
LEMMA Inserted ==
  ASSUME NEW X, NEW s \in Seq(X), NEW i \in 1..(Len(s) + 1), NEW e \in X
  PROVE  /\ InsertAt(s, i, e) \in Seq(X)
         /\ Len(InsertAt(s, i, e)) = Len(s) + 1
         /\ \A j \in 1..(Len(s) + 1) :
              InsertAt(s, i, e)[j] = IF j < i THEN s[j] ELSE IF j = i THEN e ELSE s[j - 1]
<1> DEFINE h == SubSeq(s, 1, i - 1)
           t == SubSeq(s, i, Len(s))
<1>1. h \in Seq(X) /\ Len(h) = i - 1 /\ \A j \in 1..(i - 1) : h[j] = s[j]
  OBVIOUS
<1>2. t \in Seq(X) /\ Len(t) = Len(s) - i + 1 /\ \A j \in 1..(Len(s) - i + 1) : t[j] = s[i + j - 1]
  OBVIOUS
<1>3. InsertAt(s, i, e) = h \o <<e>> \o t
  BY DEF InsertAt
<1> DEFINE c == h \o <<e>>
<1> HIDE DEF h, t
<1>4. c \in Seq(X) /\ Len(c) = i /\ \A j \in 1..i : c[j] = IF j < i THEN s[j] ELSE e
  BY <1>1
<1> DEFINE r == c \o t
<1>5. InsertAt(s, i, e) = r
  BY <1>1, <1>2, <1>3
<1> HIDE DEF c
<1>6. r \in Seq(X) /\ Len(r) = Len(s) + 1
  <2>0. c \in Seq(X) /\ t \in Seq(X)
    BY <1>2, <1>4
  <2>1. r \in Seq(X)
    BY <2>0
  <2>2. Len(r) = Len(c) + Len(t)
    BY <2>0
  <2> HIDE DEF r
  <2> QED BY <2>1, <2>2, <1>2, <1>4
<1>7. \A j \in 1..(Len(s) + 1) : r[j] = IF j <= i THEN c[j] ELSE t[j - i]
  BY <1>2, <1>4
<1>8. ASSUME NEW j \in 1..(Len(s) + 1)
      PROVE  r[j] = IF j < i THEN s[j] ELSE IF j = i THEN e ELSE s[j - 1]
  <2> HIDE DEF r
  <2>1. CASE j <= i
    BY <1>4, <1>7, <2>1
  <2>2. CASE j > i
    <3>1. j - i \in 1..(Len(s) - i + 1) /\ i + (j - i) - 1 = j - 1 /\ ~(j <= i) /\ ~(j < i) /\ j # i
      BY <2>2
    <3>2. r[j] = t[j - i]
      BY <1>7, <3>1
    <3>3. t[j - i] = s[i + (j - i) - 1]
      BY <1>2, <3>1
    <3> QED BY <3>1, <3>2, <3>3
  <2> QED BY <2>1, <2>2
<1> HIDE DEF r
<1> QED BY <1>5, <1>6, <1>8

\* What RemoveAt leaves at each position.
LEMMA Removed ==
  ASSUME NEW X, NEW s \in Seq(X), NEW i \in 1..Len(s)
  PROVE  /\ RemoveAt(s, i) \in Seq(X)
         /\ Len(RemoveAt(s, i)) = Len(s) - 1
         /\ \A j \in 1..(Len(s) - 1) :
              RemoveAt(s, i)[j] = IF j < i THEN s[j] ELSE s[j + 1]
<1> DEFINE h == SubSeq(s, 1, i - 1)
           t == SubSeq(s, i + 1, Len(s))
<1>1. h \in Seq(X) /\ Len(h) = i - 1 /\ \A j \in 1..(i - 1) : h[j] = s[j]
  OBVIOUS
<1>2. t \in Seq(X) /\ Len(t) = Len(s) - i /\ \A j \in 1..(Len(s) - i) : t[j] = s[i + j]
  OBVIOUS
<1>3. RemoveAt(s, i) = h \o t
  BY DEF RemoveAt
<1> DEFINE r == h \o t
<1> HIDE DEF h, t
<1>4. r \in Seq(X) /\ Len(r) = Len(s) - 1
  <2>0. h \in Seq(X) /\ t \in Seq(X)
    BY <1>1, <1>2
  <2>1. r \in Seq(X)
    BY <2>0
  <2>2. Len(r) = Len(h) + Len(t)
    BY <2>0
  <2> HIDE DEF r
  <2> QED BY <2>1, <2>2, <1>1, <1>2
<1>5. \A j \in 1..(Len(s) - 1) : r[j] = IF j < i THEN h[j] ELSE t[j - (i - 1)]
  BY <1>1, <1>2
<1>6. ASSUME NEW j \in 1..(Len(s) - 1)
      PROVE  r[j] = IF j < i THEN s[j] ELSE s[j + 1]
  <2> HIDE DEF r
  <2>1. CASE j < i
    BY <1>1, <1>5, <2>1
  <2>2. CASE j >= i
    <3>1. j - (i - 1) \in 1..(Len(s) - i) /\ i + (j - (i - 1)) = j + 1 /\ ~(j < i)
      BY <2>2
    <3>2. r[j] = t[j - (i - 1)]
      BY <1>5, <3>1
    <3>3. t[j - (i - 1)] = s[i + (j - (i - 1))]
      BY <1>2, <3>1
    <3> QED BY <3>1, <3>2, <3>3
  <2> QED BY <2>1, <2>2
<1>7. RemoveAt(s, i) = r
  BY <1>3
<1> HIDE DEF r
<1> QED BY <1>4, <1>6, <1>7

\* The recursive function of SortRuns.
SortEq(f, runs) ==
  f = [s \in SUBSET (DOMAIN runs) |->
         IF s = {} THEN <<>> ELSE InsertRun(f[s \ {Max(s)}], runs[Max(s)])]

\* A run is inserted at a position of the sorted ones.
LEMMA InsertRunTyped ==
  ASSUME NEW sorted \in Seq(Chord), NEW run \in Chord
  PROVE  InsertRun(sorted, run) \in Seq(Chord)
<1> DEFINE S == {j \in DOMAIN sorted : ChordLess(sorted[j], run)}
           n == Len(sorted)
<1>1. S \in SUBSET (1..n) /\ n \in Nat /\ 1 \in Int /\ n \in Int
  OBVIOUS
<1>2. Cardinality(S) \in Nat /\ Cardinality(S) <= n
  <2> HIDE DEF S, n
  <2>1. IsFiniteSet(1..n) /\ (Cardinality(1..n) = IF 1 > n THEN 0 ELSE n - 1 + 1)
    BY <1>1, FS_Interval
  <2>2. IsFiniteSet(S) /\ Cardinality(S) <= Cardinality(1..n)
    BY <1>1, <2>1, FS_Subset
  <2>3. Cardinality(S) \in Nat
    BY <2>2, FS_CardinalityType
  <2> QED BY <1>1, <2>1, <2>2, <2>3
<1>3. 1 + Cardinality(S) \in 1..(Len(sorted) + 1)
  <2> HIDE DEF S
  <2> QED BY <1>2
<1> QED BY <1>3, Inserted DEF InsertRun

\* Sorting runs leaves runs.
LEMMA SortTyped ==
  ASSUME NEW runs \in Seq(Chord)
  PROVE  SortRuns(runs) \in Seq(Chord)
<1> DEFINE V == Seq(Chord)
           n == Len(runs)
           step == [i \in 1..n |-> [v \in V |-> InsertRun(v, runs[i])]]
           f == CHOOSE f : SortEq(f, runs)
<1>1. n \in Nat /\ DOMAIN runs = 1..n /\ <<>> \in V /\ \A i \in 1..n : runs[i] \in Chord
  OBVIOUS
<1>2. SortRuns(runs) = f[DOMAIN runs]
  BY Zenon DEF SortRuns, FoldLeft, MapThenFoldSet, SortEq
<1> HIDE DEF n
<1>3. Folding(n, V, <<>>, step)
  BY <1>1, InsertRunTyped DEF Folding
<1>4. PICK g \in [SUBSET (1..n) -> V] : Folds(g, n, <<>>, step)
  BY <1>3, FoldExists
<1>5. SortEq(g, runs)
  <2>1. \A s \in SUBSET (1..n) :
          g[s] = IF s = {} THEN <<>> ELSE InsertRun(g[s \ {Max(s)}], runs[Max(s)])
    BY <1>1, <1>4, MaxOfPositions DEF Folds
  <2>2. g = [s \in SUBSET (1..n) |-> g[s]]
    OBVIOUS
  <2> QED BY <2>1, <2>2, <1>1 DEF SortEq
<1>6. SortEq(f, runs)
  BY <1>5
<1> HIDE DEF f
<1>7. TakesSteps(f, n, V, <<>>, step)
  BY <1>1, <1>6, MaxOfPositions DEF SortEq, TakesSteps
<1>8. f[1..n] \in V
  BY <1>3, <1>7, FoldTyped
<1> QED BY <1>1, <1>2, <1>8

\* sort_keybinding_element returns a chain of chords that are not empty.
LEMMA SortElementTyped ==
  ASSUME NEW text \in Seq(Chord)
  PROVE  SortElement(text) \in Seq(Chord)
<1> DEFINE runs == SplitAtDashes(text)
           keys == {i \in DOMAIN runs : runs[i] \notin {<<m>> : m \in Modifiers}}
           last == Max(keys)
<1>1. runs \in Seq(Chord)
  BY SplitTyped
<1>2. SortElement(text) = JoinWithDashes(IF keys = {} THEN SortRuns(runs)
                     ELSE Append(SortRuns(RemoveAt(runs, last)), runs[last]))
  BY DEF SortElement
<1> HIDE DEF runs
<1>3. CASE keys = {}
  BY <1>1, <1>2, <1>3, SortTyped, JoinTyped
<1>4. CASE keys # {}
  <2>1. last \in 1..Len(runs)
    <3>1. keys \in SUBSET (1..Len(runs)) /\ Len(runs) \in Nat
      BY <1>1
    <3> HIDE DEF keys
    <3> QED BY <3>1, <1>4, MaxOfPositions
  <2> HIDE DEF keys, last
  <2>2. runs[last] \in Chord /\ RemoveAt(runs, last) \in Seq(Chord)
    BY <1>1, <2>1, Removed
  <2>3. SortRuns(RemoveAt(runs, last)) \in Seq(Chord)
    BY <2>2, SortTyped
  <2>4. Append(SortRuns(RemoveAt(runs, last)), runs[last]) \in Seq(Chord)
    BY <2>2, <2>3
  <2> QED BY <1>2, <1>4, <2>4, JoinTyped
<1> QED BY <1>3, <1>4

-----------------------------------------------------------------------------
(* Comparing two chains is a total order *)

\* R is a strict total order of E.
StrictOrder(R, E) ==
  /\ \A x \in E : <<x, x>> \notin R
  /\ \A x, y, z \in E : <<x, y>> \in R /\ <<y, z>> \in R => <<x, z>> \in R
  /\ \A x, y \in E : x # y => <<x, y>> \in R \/ <<y, x>> \in R

\* The sequences agree before i, where the first ends or is smaller.
SmallerAt(R, a, b, i) ==
  /\ i \in 1..Len(b) /\ i <= Len(a) + 1
  /\ \A j \in 1..(i - 1) : a[j] = b[j]
  /\ i <= Len(a) => <<a[i], b[i]>> \in R

\* The order of dictionaries over the order R of the elements.
LexLess(R, a, b) == \E i \in Nat : SmallerAt(R, a, b, i)

\* No sequence is smaller than itself.
LEMMA LexIrreflexive ==
  ASSUME NEW E, NEW R, StrictOrder(R, E), NEW a \in Seq(E)
  PROVE  ~LexLess(R, a, a)
<1> SUFFICES ASSUME NEW i \in Nat, SmallerAt(R, a, a, i) PROVE FALSE
  BY DEF LexLess
<1>1. i \in 1..Len(a) /\ <<a[i], a[i]>> \in R
  BY DEF SmallerAt
<1>2. a[i] \in E
  BY <1>1
<1> QED BY <1>1, <1>2 DEF StrictOrder

\* The order of dictionaries is transitive: the smaller of the two positions decides.
LEMMA LexTransitive ==
  ASSUME NEW E, NEW R, StrictOrder(R, E), NEW a \in Seq(E), NEW b \in Seq(E), NEW c \in Seq(E),
         LexLess(R, a, b), LexLess(R, b, c)
  PROVE  LexLess(R, a, c)
<1>1. PICK i \in Nat : SmallerAt(R, a, b, i)
  BY DEF LexLess
<1>2. PICK k \in Nat : SmallerAt(R, b, c, k)
  BY DEF LexLess
<1>3. CASE i < k
  <2>1. /\ i \in 1..Len(b) /\ i <= Len(a) + 1 /\ \A j \in 1..(i - 1) : a[j] = b[j]
        /\ i <= Len(a) => <<a[i], b[i]>> \in R
    BY <1>1 DEF SmallerAt
  <2>2. k \in 1..Len(c) /\ \A j \in 1..(k - 1) : b[j] = c[j]
    BY <1>2 DEF SmallerAt
  <2>3. i \in 1..(k - 1) /\ i \in 1..Len(c) /\ \A j \in 1..(i - 1) : j \in 1..(k - 1)
    BY <1>3, <2>1, <2>2
  <2>4. b[i] = c[i] /\ \A j \in 1..(i - 1) : a[j] = c[j]
    BY <2>1, <2>2, <2>3
  <2>5. SmallerAt(R, a, c, i)
    BY <2>1, <2>3, <2>4 DEF SmallerAt
  <2> QED BY <2>5 DEF LexLess
<1>4. CASE k < i
  <2>1. /\ k \in 1..Len(c) /\ k <= Len(b) + 1 /\ \A j \in 1..(k - 1) : b[j] = c[j]
        /\ k <= Len(b) => <<b[k], c[k]>> \in R
    BY <1>2 DEF SmallerAt
  <2>2. i \in 1..Len(b) /\ i <= Len(a) + 1 /\ \A j \in 1..(i - 1) : a[j] = b[j]
    BY <1>1 DEF SmallerAt
  <2>3. k \in 1..(i - 1) /\ k <= Len(b) /\ k <= Len(a) /\ \A j \in 1..(k - 1) : j \in 1..(i - 1)
    BY <1>4, <2>1, <2>2
  <2>4. a[k] = b[k] /\ \A j \in 1..(k - 1) : a[j] = c[j]
    BY <2>1, <2>2, <2>3
  <2>6. k <= Len(a) + 1
    BY <2>3
  <2>5. SmallerAt(R, a, c, k)
    BY <2>1, <2>3, <2>4, <2>6 DEF SmallerAt
  <2> QED BY <2>5 DEF LexLess
<1>5. CASE k = i
  <2>1. ASSUME i <= Len(a) PROVE <<a[i], c[i]>> \in R
    <3>1. <<a[i], b[i]>> \in R /\ <<b[i], c[i]>> \in R /\ i \in 1..Len(b) /\ i \in 1..Len(c) /\ i \in 1..Len(a)
      BY <1>1, <1>2, <1>5, <2>1 DEF SmallerAt
    <3>2. a[i] \in E /\ b[i] \in E /\ c[i] \in E
      BY <3>1
    <3> QED BY <3>1, <3>2 DEF StrictOrder
  <2>2. i \in 1..Len(c) /\ i <= Len(a) + 1 /\ \A j \in 1..(i - 1) : a[j] = c[j]
    BY <1>1, <1>2, <1>5 DEF SmallerAt
  <2>3. SmallerAt(R, a, c, i)
    BY <2>1, <2>2 DEF SmallerAt
  <2> QED BY <2>3 DEF LexLess
<1> QED BY <1>3, <1>4, <1>5

\* Two sequences that differ are ordered by the first position where they do.
LEMMA LexTotal ==
  ASSUME NEW E, NEW R, StrictOrder(R, E), NEW a \in Seq(E), NEW b \in Seq(E), a # b
  PROVE  LexLess(R, a, b) \/ LexLess(R, b, a)
<1> DEFINE T == {i \in Nat : /\ i >= 1 /\ i <= Len(a) + 1 /\ i <= Len(b) + 1
                             /\ i = Len(a) + 1 \/ i = Len(b) + 1 \/ a[i] # b[i]}
<1>1. Len(a) \in Nat /\ Len(b) \in Nat /\ T \in SUBSET Nat
  OBVIOUS
<1>2. T # {}
  <2>1. Len(a) <= Len(b) => Len(a) + 1 \in T
    BY <1>1
  <2>2. Len(b) <= Len(a) => Len(b) + 1 \in T
    BY <1>1
  <2> QED BY <1>1, <2>1, <2>2
<1>3. PICK i \in T : \A y \in T : ~ (<<y, i>> \in OpToRel(<, Nat))
  BY <1>1, <1>2, NatLessThanWellFounded, WFMin
<1>4. \A y \in T : ~(y < i)
  BY <1>1, <1>3, Zenon DEF OpToRel
<1>5. i \in Nat /\ i >= 1 /\ i <= Len(a) + 1 /\ i <= Len(b) + 1
  OBVIOUS
<1>6. \A j \in 1..(i - 1) : a[j] = b[j]
  <2> SUFFICES ASSUME NEW j \in 1..(i - 1), a[j] # b[j] PROVE FALSE
    OBVIOUS
  <2>1. j \in T /\ j < i
    BY <1>1, <1>5
  <2> QED BY <1>4, <2>1
<1>7. CASE i = Len(a) + 1
  <2>1. Len(a) # Len(b)
    <3> SUFFICES ASSUME Len(a) = Len(b) PROVE FALSE
      OBVIOUS
    <3>1. \A j \in 1..Len(a) : a[j] = b[j]
      BY <1>1, <1>6, <1>7
    <3> QED BY <3>1, SeqEqual
  <2>2. i \in 1..Len(b) /\ ~(i <= Len(a))
    BY <1>1, <1>5, <1>7, <2>1
  <2>3. SmallerAt(R, a, b, i)
    BY <1>5, <1>6, <2>2 DEF SmallerAt
  <2> QED BY <1>5, <2>3 DEF LexLess
<1>8. CASE i # Len(a) + 1 /\ i = Len(b) + 1
  <2>1. i \in 1..Len(a) /\ ~(i <= Len(b))
    BY <1>1, <1>5, <1>8
  <2>2. SmallerAt(R, b, a, i)
    BY <1>5, <1>6, <2>1 DEF SmallerAt
  <2> QED BY <1>5, <2>2 DEF LexLess
<1>9. CASE i # Len(a) + 1 /\ i # Len(b) + 1
  <2>1. a[i] # b[i] /\ i \in 1..Len(a) /\ i \in 1..Len(b)
    BY <1>1, <1>5, <1>9
  <2>2. a[i] \in E /\ b[i] \in E
    BY <2>1
  <2>3. CASE <<a[i], b[i]>> \in R
    <3>1. SmallerAt(R, a, b, i)
      BY <1>5, <1>6, <2>1, <2>3 DEF SmallerAt
    <3> QED BY <1>5, <3>1 DEF LexLess
  <2>4. CASE <<b[i], a[i]>> \in R
    <3>1. SmallerAt(R, b, a, i)
      BY <1>5, <1>6, <2>1, <2>4 DEF SmallerAt
    <3> QED BY <1>5, <3>1 DEF LexLess
  <2> QED BY <2>1, <2>2, <2>3, <2>4 DEF StrictOrder
<1> QED BY <1>7, <1>8, <1>9

\* A strict prefix is shorter and has the same elements.
LEMMA StrictPrefix ==
  ASSUME NEW E, NEW a \in Seq(E), NEW b \in Seq(E)
  PROVE  IsStrictPrefix(a, b) <=> Len(a) < Len(b) /\ \A j \in 1..Len(a) : a[j] = b[j]
<1> DEFINE p == SubSeq(a, 1, Len(a))
           q == SubSeq(b, 1, Len(a))
<1>1. p \in Seq(E) /\ Len(p) = Len(a) /\ \A j \in 1..Len(a) : p[j] = a[j]
  OBVIOUS
<1>2. ASSUME Len(a) <= Len(b)
      PROVE q \in Seq(E) /\ Len(q) = Len(a) /\ \A j \in 1..Len(a) : q[j] = b[j]
  BY <1>2
<1>3. IsPrefix(a, b) <=> Len(a) <= Len(b) /\ p = q
  BY DEF IsPrefix
<1> HIDE DEF p, q
<1>4. ASSUME Len(a) <= Len(b) PROVE p = q <=> \A j \in 1..Len(a) : a[j] = b[j]
  BY <1>1, <1>2, <1>4, SeqEqual
<1>5. ASSUME Len(a) = Len(b), \A j \in 1..Len(a) : a[j] = b[j] PROVE a = b
  BY <1>5, SeqEqual
<1> QED BY <1>3, <1>4, <1>5 DEF IsStrictPrefix

\* The order of strcmp: a beginning comes before its continuations.
PrefixOrSmaller(R, a, b) ==
  \/ IsStrictPrefix(a, b)
  \/ \E i \in DOMAIN a \cap DOMAIN b :
       <<a[i], b[i]>> \in R /\ \A j \in 1..(i - 1) : a[j] = b[j]

\* The order of a lexicographic comparison, written as strcmp has it.
LEMMA LexIsPrefixOrSmaller ==
  ASSUME NEW E, NEW R, NEW a \in Seq(E), NEW b \in Seq(E)
  PROVE  LexLess(R, a, b) <=> PrefixOrSmaller(R, a, b)
<1>1. ASSUME IsStrictPrefix(a, b) PROVE LexLess(R, a, b)
  <2>1. Len(a) < Len(b) /\ \A j \in 1..Len(a) : a[j] = b[j]
    BY <1>1, StrictPrefix
  <2>2. SmallerAt(R, a, b, Len(a) + 1) /\ Len(a) + 1 \in Nat
    BY <2>1 DEF SmallerAt
  <2> QED BY <2>2 DEF LexLess
<1>2. ASSUME NEW i \in DOMAIN a \cap DOMAIN b,
             <<a[i], b[i]>> \in R, \A j \in 1..(i - 1) : a[j] = b[j]
      PROVE  LexLess(R, a, b)
  <2>1. SmallerAt(R, a, b, i) /\ i \in Nat
    BY <1>2 DEF SmallerAt
  <2> QED BY <2>1 DEF LexLess
<1>3. ASSUME NEW i \in Nat, SmallerAt(R, a, b, i), ~IsStrictPrefix(a, b)
      PROVE  \E k \in DOMAIN a \cap DOMAIN b :
               <<a[k], b[k]>> \in R /\ \A j \in 1..(k - 1) : a[j] = b[j]
  <2>1. CASE i <= Len(a)
    <3>1. i \in DOMAIN a \cap DOMAIN b /\ <<a[i], b[i]>> \in R /\ \A j \in 1..(i - 1) : a[j] = b[j]
      BY <1>3, <2>1 DEF SmallerAt
    <3> QED BY <3>1
  <2>2. CASE i = Len(a) + 1
    <3>1. Len(a) < Len(b) /\ \A j \in 1..Len(a) : a[j] = b[j]
      <4>1. i \in 1..Len(b) /\ \A j \in 1..(i - 1) : a[j] = b[j]
        BY <1>3 DEF SmallerAt
      <4>2. i - 1 = Len(a)
        BY <2>2
      <4>3. Len(a) < Len(b)
        BY <4>1, <2>2
      <4> QED BY <4>1, <4>2, <4>3
    <3> QED BY <1>3, <3>1, StrictPrefix
  <2>3. i <= Len(a) \/ i = Len(a) + 1
    <3>1. i <= Len(a) + 1 /\ Len(a) \in Nat
      BY <1>3 DEF SmallerAt
    <3> QED BY <3>1
  <2> QED BY <2>1, <2>2, <2>3
<1> QED BY <1>1, <1>2, <1>3 DEF LexLess, PrefixOrSmaller

\* The order of the keys.
IntOrder == {p \in Int \X Int : p[1] < p[2]}
\* The order of the chords.
ChordOrder == {p \in Chord \X Chord : ChordLess(p[1], p[2])}

\* The keys are ordered.
LEMMA IntIsOrdered == StrictOrder(IntOrder, Int)
BY DEF StrictOrder, IntOrder

\* strcmp of two chords is the order of dictionaries over the keys.
LEMMA ChordLessIsLex ==
  ASSUME NEW a \in Seq(Int), NEW b \in Seq(Int)
  PROVE  ChordLess(a, b) <=> LexLess(IntOrder, a, b)
<1>1. ASSUME NEW i \in DOMAIN a \cap DOMAIN b PROVE a[i] < b[i] <=> <<a[i], b[i]>> \in IntOrder
  BY DEF IntOrder
<1>2. (\E i \in DOMAIN a \cap DOMAIN b : a[i] < b[i] /\ \A j \in 1..(i - 1) : a[j] = b[j])
      <=> \E i \in DOMAIN a \cap DOMAIN b :
            <<a[i], b[i]>> \in IntOrder /\ \A j \in 1..(i - 1) : a[j] = b[j]
  BY <1>1
<1>3. ChordLess(a, b) <=> IsStrictPrefix(a, b)
        \/ \E i \in DOMAIN a \cap DOMAIN b : a[i] < b[i] /\ \A j \in 1..(i - 1) : a[j] = b[j]
  BY Zenon DEF ChordLess
<1>4. LexLess(IntOrder, a, b) <=> PrefixOrSmaller(IntOrder, a, b)
  BY LexIsPrefixOrSmaller
<1> QED BY <1>2, <1>3, <1>4 DEF PrefixOrSmaller

\* Hence the chords are ordered.
LEMMA ChordsAreOrdered == StrictOrder(ChordOrder, Chord)
<1>1. \A c \in Chord : c \in Seq(Int)
  BY DEF Chord
<1>2. \A x, y \in Chord : <<x, y>> \in ChordOrder <=> LexLess(IntOrder, x, y)
  BY <1>1, ChordLessIsLex DEF ChordOrder
<1>3. \A x \in Chord : ~LexLess(IntOrder, x, x)
  BY <1>1, IntIsOrdered, LexIrreflexive
<1>4. \A x, y, z \in Chord : LexLess(IntOrder, x, y) /\ LexLess(IntOrder, y, z) => LexLess(IntOrder, x, z)
  BY <1>1, IntIsOrdered, LexTransitive
<1>5. \A x, y \in Chord : x # y => LexLess(IntOrder, x, y) \/ LexLess(IntOrder, y, x)
  BY <1>1, IntIsOrdered, LexTotal
<1> QED BY <1>2, <1>3, <1>4, <1>5 DEF StrictOrder

\* strcmp of two texts is the order of dictionaries over the chords.
LEMMA TextLessIsLex ==
  ASSUME NEW a \in Seq(Chord), NEW b \in Seq(Chord)
  PROVE  TextLess(a, b) <=> LexLess(ChordOrder, a, b)
<1>1. ASSUME NEW i \in DOMAIN a \cap DOMAIN b
      PROVE  ChordLess(a[i], b[i]) <=> <<a[i], b[i]>> \in ChordOrder
  BY DEF ChordOrder
<1>2. (\E i \in DOMAIN a \cap DOMAIN b : ChordLess(a[i], b[i]) /\ \A j \in 1..(i - 1) : a[j] = b[j])
      <=> \E i \in DOMAIN a \cap DOMAIN b :
            <<a[i], b[i]>> \in ChordOrder /\ \A j \in 1..(i - 1) : a[j] = b[j]
  BY <1>1
<1>3. TextLess(a, b) <=> IsStrictPrefix(a, b)
        \/ \E i \in DOMAIN a \cap DOMAIN b : ChordLess(a[i], b[i]) /\ \A j \in 1..(i - 1) : a[j] = b[j]
  BY Zenon DEF TextLess
<1>4. LexLess(ChordOrder, a, b) <=> PrefixOrSmaller(ChordOrder, a, b)
  BY LexIsPrefixOrSmaller
<1> QED BY <1>2, <1>3, <1>4 DEF PrefixOrSmaller

\* cmp_keybinding_strings is a total order of the chains.
LEMMA ComparisonIsOrder ==
  /\ \A a, b \in Seq(Chord) : CmpKeybindingStrings(a, b) \in {-1, 0, 1}
  /\ \A a, b \in Seq(Chord) : CmpKeybindingStrings(a, b) = 0 <=> a = b
  /\ \A a, b \in Seq(Chord) : CmpKeybindingStrings(a, b) = -1 <=> CmpKeybindingStrings(b, a) = 1
  /\ \A a, b, c \in Seq(Chord) :
       CmpKeybindingStrings(a, b) = -1 /\ CmpKeybindingStrings(b, c) = -1 =>
         CmpKeybindingStrings(a, c) = -1
<1>1. \A a \in Seq(Chord) : ~TextLess(a, a)
  BY TextLessIsLex, ChordsAreOrdered, LexIrreflexive
<1>2. \A a, b, c \in Seq(Chord) : TextLess(a, b) /\ TextLess(b, c) => TextLess(a, c)
  BY TextLessIsLex, ChordsAreOrdered, LexTransitive
<1>3. \A a, b \in Seq(Chord) : a # b => TextLess(a, b) \/ TextLess(b, a)
  BY TextLessIsLex, ChordsAreOrdered, LexTotal
<1>4. \A a \in Seq(Chord) : Len(a) \in Nat
  OBVIOUS
<1>5. \A a, b \in Seq(Chord) : CmpKeybindingStrings(a, b) \in {-1, 0, 1}
  BY DEF CmpKeybindingStrings, CmpStr
<1>6. \A a, b \in Seq(Chord) : CmpKeybindingStrings(a, b) = 0 <=> a = b
  BY <1>4 DEF CmpKeybindingStrings, CmpStr
<1>7. \A a, b \in Seq(Chord) : CmpKeybindingStrings(a, b) = -1 <=>
        Len(a) < Len(b) \/ (Len(a) = Len(b) /\ TextLess(a, b))
  BY <1>1, <1>4 DEF CmpKeybindingStrings, CmpStr
<1>8. \A a, b \in Seq(Chord) : CmpKeybindingStrings(b, a) = 1 <=>
        Len(a) < Len(b) \/ (Len(a) = Len(b) /\ TextLess(a, b))
  <2> SUFFICES ASSUME NEW a \in Seq(Chord), NEW b \in Seq(Chord)
               PROVE  CmpKeybindingStrings(b, a) = 1 <=>
                        Len(a) < Len(b) \/ (Len(a) = Len(b) /\ TextLess(a, b))
    OBVIOUS
  <2>1. TextLess(a, b) => ~TextLess(b, a) /\ a # b
    BY <1>1, <1>2
  <2>2. ~TextLess(b, a) /\ b # a => TextLess(a, b)
    BY <1>3
  <2>3. Len(a) \in Nat /\ Len(b) \in Nat
    OBVIOUS
  <2> QED BY <2>1, <2>2, <2>3 DEF CmpKeybindingStrings, CmpStr
<1>9. \A a, b, c \in Seq(Chord) :
       CmpKeybindingStrings(a, b) = -1 /\ CmpKeybindingStrings(b, c) = -1 =>
         CmpKeybindingStrings(a, c) = -1
  BY <1>2, <1>4, <1>7
<1> QED BY <1>5, <1>6, <1>7, <1>8, <1>9

-----------------------------------------------------------------------------
(* The two binary searches *)

\* The results of a comparison.
Signs == {-1, 0, 1}

\* The middle of the interval lower_bound looks at.
LowMid(s) == s[1] + (s[2] - s[1]) \div 2
\* The equation of lower_bound.
LowEq(f, cmp) ==
  f = [s \in (-1..Len(cmp)) \X (-1..Len(cmp)) |->
         IF s[1] >= s[2] - 1 THEN s[1]
         ELSE IF cmp[LowMid(s) + 1] <= 0 THEN f[<<s[1], LowMid(s)>>]
         ELSE f[<<LowMid(s), s[2]>>]]

\* The interval lower_bound goes on with.
LowNext(cmp, s) ==
  IF s[1] >= s[2] - 1 THEN s
  ELSE IF cmp[LowMid(s) + 1] <= 0 THEN <<s[1], LowMid(s)>> ELSE <<LowMid(s), s[2]>>

\* The interval s of a search lies between an element below the key and one that is not.
LowFits(cmp, s) ==
  /\ s[1] < s[2]
  /\ s[1] >= 0 => cmp[s[1] + 1] > 0
  /\ s[2] < Len(cmp) => cmp[s[2] + 1] <= 0

\* It is smaller, and lies between the same kinds of elements.
LEMMA LowStep ==
  ASSUME NEW cmp \in Seq(Signs), NEW s \in (-1..Len(cmp)) \X (-1..Len(cmp)), s[1] < s[2] - 1
  PROVE  /\ LowMid(s) \in Int /\ s[1] < LowMid(s) /\ LowMid(s) < s[2]
         /\ LowMid(s) \in 0..(Len(cmp) - 1)
         /\ cmp[LowMid(s) + 1] \in Signs
         /\ LowNext(cmp, s) \in (-1..Len(cmp)) \X (-1..Len(cmp))
         /\ LowNext(cmp, s)[2] - LowNext(cmp, s)[1] < s[2] - s[1]
         /\ LowNext(cmp, s)[2] - LowNext(cmp, s)[1] > 0
         /\ LowFits(cmp, s) => LowFits(cmp, LowNext(cmp, s))
<1>1. s[1] \in -1..Len(cmp) /\ s[2] \in -1..Len(cmp) /\ Len(cmp) \in Nat
  OBVIOUS
<1> DEFINE lo == s[1]
           hi == s[2]
           mid == LowMid(s)
<1>2. mid \in Int /\ lo < mid /\ mid < hi
  BY <1>1 DEF LowMid
<1> HIDE DEF mid
<1>3. mid \in 0..(Len(cmp) - 1) /\ mid \in -1..Len(cmp)
  BY <1>1, <1>2
<1>4. cmp[mid + 1] \in Signs
  BY <1>1, <1>3
<1>5. LowNext(cmp, s) = IF cmp[mid + 1] <= 0 THEN <<s[1], mid>> ELSE <<mid, s[2]>>
  BY <1>1 DEF LowNext, mid
<1>6. CASE cmp[mid + 1] <= 0
  <2>1. LowNext(cmp, s) = <<s[1], mid>>
    BY <1>5, <1>6
  <2>2. LowNext(cmp, s)[1] = s[1] /\ LowNext(cmp, s)[2] = mid
    BY <2>1
  <2> QED BY <1>1, <1>2, <1>3, <1>4, <1>6, <2>1, <2>2 DEF LowFits, mid
<1>7. CASE ~(cmp[mid + 1] <= 0)
  <2>1. LowNext(cmp, s) = <<mid, s[2]>>
    BY <1>5, <1>7
  <2>2. LowNext(cmp, s)[1] = mid /\ LowNext(cmp, s)[2] = s[2]
    BY <2>1
  <2>3. cmp[mid + 1] > 0
    BY <1>4, <1>7 DEF Signs
  <2> QED BY <1>1, <1>2, <1>3, <1>4, <2>1, <2>2, <2>3 DEF LowFits, mid
<1> QED BY <1>6, <1>7

\* lower_bound ends between an element that is smaller than the key and one that is not,
\* whatever the order of the list is.
LEMMA LowerBoundSeparates ==
  ASSUME NEW cmp \in Seq(Signs)
  PROVE  LET lb == LowerBound(cmp)
         IN  /\ lb \in -1..(Len(cmp) - 1)
             /\ lb >= 0 => cmp[lb + 1] > 0
             /\ lb + 1 < Len(cmp) => cmp[lb + 2] <= 0
<1> DEFINE
      n == Len(cmp)
      D == (-1..n) \X (-1..n)
      Final == {s \in D : s[1] >= s[2] - 1}
      stop == [s \in D |-> s[1]]
      next == [s \in D |-> LowNext(cmp, s)]
      step == [s \in D |-> [v \in Int |-> v]]
      m == [s \in D |-> IF s[2] > s[1] THEN s[2] - s[1] ELSE 0]
      f == CHOOSE f : LowEq(f, cmp)
<1>1. n \in Nat /\ \A s \in D : s[1] \in -1..n /\ s[2] \in -1..n
  OBVIOUS
<1>2. LowerBound(cmp) = f[<<-1, n>>]
  BY Zenon DEF LowerBound, LowEq, LowMid
<1>3. ASSUME NEW s \in D
      PROVE  /\ next[s] \in D /\ m[s] \in Nat
             /\ s \notin Final => m[next[s]] < m[s]
  <2>1. s[1] \in -1..n /\ s[2] \in -1..n
    BY <1>1
  <2>2. CASE s[1] >= s[2] - 1
    BY <2>1, <2>2 DEF LowNext
  <2>3. CASE ~(s[1] >= s[2] - 1)
    <3>1. s[1] < s[2] - 1
      BY <2>1, <2>3
    <3>2. LowNext(cmp, s) \in D /\ LowNext(cmp, s)[2] - LowNext(cmp, s)[1] < s[2] - s[1]
           /\ LowNext(cmp, s)[2] - LowNext(cmp, s)[1] > 0
      BY <3>1, LowStep
    <3> DEFINE t == LowNext(cmp, s)
    <3> HIDE DEF t
    <3>3. next[s] = t /\ t \in D /\ t[2] - t[1] < s[2] - s[1] /\ t[2] - t[1] > 0
      BY <3>2 DEF t
    <3>4. t[1] \in Int /\ t[2] \in Int
      BY <3>3
    <3> QED BY <2>1, <3>1, <3>3, <3>4
  <2> QED BY <2>2, <2>3
<1>4. Recursion(D, Int, Final, stop, next, step, m)
  <2>1. stop \in [D -> Int] /\ step \in [D -> [Int -> Int]] /\ Final \subseteq D
    BY <1>1
  <2> HIDE DEF D, Final, stop, next, step, m
  <2>2. next \in [D -> D]
    BY <1>3 DEF next
  <2>3. m \in [D -> Nat]
    BY <1>3 DEF m
  <2> QED BY <1>3, <2>1, <2>2, <2>3 DEF Recursion
<1>5. PICK g \in [D -> Int] : SolvesRecursion(g, D, Final, stop, next, step)
  <2> HIDE DEF D, Final, stop, next, step, m
  <2> QED BY <1>4, RecursionExists
<1>6. LowEq(g, cmp)
  <2>1. ASSUME NEW s \in D
        PROVE g[s] = IF s[1] >= s[2] - 1 THEN s[1]
                     ELSE IF cmp[LowMid(s) + 1] <= 0 THEN g[<<s[1], LowMid(s)>>]
                     ELSE g[<<LowMid(s), s[2]>>]
    <3>1. g[s] = IF s \in Final THEN stop[s] ELSE step[s][g[next[s]]]
      BY <1>5 DEF SolvesRecursion
    <3>2. next[s] \in D
      BY <1>3
    <3>3. g[next[s]] \in Int
      BY <3>2
    <3>4. g[s] = IF s \in Final THEN s[1] ELSE g[next[s]]
      BY <3>1, <3>3
    <3> QED BY <3>4 DEF LowNext
  <2>2. g = [s \in D |-> g[s]]
    OBVIOUS
  <2> QED BY <2>1, <2>2 DEF LowEq
<1>7. LowEq(f, cmp)
  BY <1>6
<1> HIDE DEF f
<1>8. \A s \in D : f[s] = IF s \in Final THEN s[1] ELSE f[next[s]]
  BY <1>7 DEF LowEq, LowNext
<1> DEFINE
      Fit(lb) == /\ lb \in -1..(n - 1)
                 /\ lb >= 0 => cmp[lb + 1] > 0
                 /\ lb + 1 < n => cmp[lb + 2] <= 0
      T == {s \in D : LowFits(cmp, s) => Fit(f[s])}
<1>9. ASSUME NEW s \in D, s \in Final \/ next[s] \in T PROVE s \in T
  <2> SUFFICES ASSUME LowFits(cmp, s) PROVE Fit(f[s])
    OBVIOUS
  <2>1. s[1] \in -1..n /\ s[2] \in -1..n
    BY <1>1
  <2>2. CASE s \in Final
    <3>1. s[2] = s[1] + 1 /\ f[s] = s[1]
      BY <1>8, <2>1, <2>2 DEF LowFits
    <3>2. s[1] < n /\ (s[1] >= 0 => cmp[s[1] + 1] > 0) /\ (s[1] + 1 < n => cmp[s[1] + 2] <= 0)
      <4>1. s[2] + 1 = s[1] + 2
        BY <2>1, <3>1
      <4> QED BY <1>1, <2>1, <3>1, <4>1 DEF LowFits
    <3> QED BY <1>1, <2>1, <3>1, <3>2
  <2>3. CASE s \notin Final
    <3>1. s[1] < s[2] - 1
      BY <2>1, <2>3
    <3>2. LowFits(cmp, next[s])
      BY <3>1, LowStep
    <3>3. f[s] = f[next[s]]
      BY <1>8, <2>3
    <3> HIDE DEF next, Final
    <3>4. Fit(f[next[s]])
      BY <1>9, <2>3, <3>2
    <3> HIDE DEF Fit
    <3> QED BY <3>3, <3>4
  <2> QED BY <2>2, <2>3
<1> HIDE DEF T, Fit
<1>10. PassedBack(D, T, Final, next, m)
  BY <1>4, <1>9 DEF PassedBack, Recursion
<1>11. D \subseteq T
  BY <1>10, RecursionInduction
<1>12. <<-1, n>> \in D /\ LowFits(cmp, <<-1, n>>)
  BY <1>1 DEF LowFits
<1>13. Fit(f[<<-1, n>>])
  BY <1>11, <1>12 DEF T
<1> QED BY <1>2, <1>13 DEF Fit

\* The middle of the interval bsearch looks at.
Mid(s) == (s[1] + s[2]) \div 2
\* The equation of bsearch.
FoundEq(f, cmp) ==
  f = [s \in (0..Len(cmp)) \X (0..Len(cmp)) |->
         IF s[1] >= s[2] THEN 0
         ELSE IF cmp[Mid(s) + 1] < 0 THEN f[<<s[1], Mid(s)>>]
         ELSE IF cmp[Mid(s) + 1] > 0 THEN f[<<Mid(s) + 1, s[2]>>]
         ELSE Mid(s) + 1]

\* The interval bsearch goes on with.
FoundNext(cmp, s) ==
  IF s[1] >= s[2] THEN s
  ELSE IF cmp[Mid(s) + 1] < 0 THEN <<s[1], Mid(s)>>
  ELSE IF cmp[Mid(s) + 1] > 0 THEN <<Mid(s) + 1, s[2]>>
  ELSE s

\* The key compares with the elements of the list as with those of an ordered one.
Descending(cmp) ==
  \A i, j \in 1..Len(cmp) : i < j => (cmp[i] < 0 => cmp[j] < 0) /\ (cmp[j] > 0 => cmp[i] > 0)

\* The interval s of a search holds an element that is equal to the key.
HoldsEqual(cmp, s) == \E k \in 1..Len(cmp) : s[1] < k /\ k <= s[2] /\ cmp[k] = 0

\* It is smaller, and still holds an element that is equal to the key.
LEMMA FoundStep ==
  ASSUME NEW cmp \in Seq(Signs), NEW s \in (0..Len(cmp)) \X (0..Len(cmp)),
         s[1] < s[2], cmp[Mid(s) + 1] # 0
  PROVE  /\ FoundNext(cmp, s) \in (0..Len(cmp)) \X (0..Len(cmp))
         /\ FoundNext(cmp, s)[2] - FoundNext(cmp, s)[1] < s[2] - s[1]
         /\ Descending(cmp) /\ HoldsEqual(cmp, s) => HoldsEqual(cmp, FoundNext(cmp, s))
<1>1. s[1] \in 0..Len(cmp) /\ s[2] \in 0..Len(cmp) /\ Len(cmp) \in Nat
  OBVIOUS
<1> DEFINE mid == Mid(s)
<1>2. mid \in Int /\ s[1] <= mid /\ mid < s[2]
  BY <1>1 DEF Mid
<1>3. mid \in 0..(Len(cmp) - 1) /\ mid + 1 \in 1..Len(cmp) /\ mid \in 0..Len(cmp) /\ mid + 1 \in 0..Len(cmp)
  BY <1>1, <1>2
<1> HIDE DEF mid
<1>4. cmp[mid + 1] \in Signs /\ cmp[mid + 1] # 0
  BY <1>3 DEF mid
<1>5. CASE cmp[mid + 1] < 0
  <2>1. FoundNext(cmp, s) = <<s[1], mid>>
    BY <1>1, <1>5 DEF FoundNext, mid
  <2>2. FoundNext(cmp, s)[1] = s[1] /\ FoundNext(cmp, s)[2] = mid
    BY <2>1
  <2>3. ASSUME Descending(cmp), NEW k \in 1..Len(cmp), k <= s[2], cmp[k] = 0
        PROVE  k <= mid
    <3>1. k # mid + 1
      BY <1>4, <2>3
    <3>2. ~(mid + 1 < k)
      BY <1>3, <1>5, <2>3 DEF Descending
    <3> QED BY <1>2, <3>1, <3>2
  <2> QED BY <1>1, <1>2, <1>3, <2>1, <2>2, <2>3 DEF HoldsEqual
<1>6. CASE cmp[mid + 1] > 0
  <2>0. ~(cmp[mid + 1] < 0)
    BY <1>4, <1>6 DEF Signs
  <2>1. FoundNext(cmp, s) = <<mid + 1, s[2]>>
    BY <1>1, <1>6, <2>0 DEF FoundNext, mid
  <2>2. FoundNext(cmp, s)[1] = mid + 1 /\ FoundNext(cmp, s)[2] = s[2]
    BY <2>1
  <2>3. ASSUME Descending(cmp), NEW k \in 1..Len(cmp), s[1] < k, cmp[k] = 0
        PROVE  mid + 1 < k
    <3>1. k # mid + 1
      BY <1>4, <2>3
    <3>2. ~(k < mid + 1)
      BY <1>3, <1>6, <2>3 DEF Descending
    <3> QED BY <1>2, <3>1, <3>2
  <2> QED BY <1>1, <1>2, <1>3, <2>1, <2>2, <2>3 DEF HoldsEqual
<1> QED BY <1>4, <1>5, <1>6 DEF Signs

\* bsearch returns an element that is equal to the key, and finds one if the list is in
\* order and has one.
LEMMA BsearchFinds ==
  ASSUME NEW cmp \in Seq(Signs)
  PROVE  LET k == Bsearch(cmp)
         IN  /\ k \in 0..Len(cmp)
             /\ k # 0 => cmp[k] = 0
             /\ Descending(cmp) /\ (\E i \in 1..Len(cmp) : cmp[i] = 0) => k # 0
<1> DEFINE
      n == Len(cmp)
      D == (0..n) \X (0..n)
      Final == {s \in D : s[1] >= s[2] \/ cmp[Mid(s) + 1] = 0}
      stop == [s \in D |-> IF s[1] >= s[2] THEN 0 ELSE Mid(s) + 1]
      next == [s \in D |-> FoundNext(cmp, s)]
      step == [s \in D |-> [v \in Int |-> v]]
      m == [s \in D |-> IF s[2] > s[1] THEN s[2] - s[1] ELSE 0]
      f == CHOOSE f : FoundEq(f, cmp)
<1>1. n \in Nat /\ \A s \in D : s[1] \in 0..n /\ s[2] \in 0..n
  OBVIOUS
<1>2. Bsearch(cmp) = f[<<0, n>>]
  BY Zenon DEF Bsearch, FoundEq, Mid
<1>3. ASSUME NEW s \in D, ~(s[1] >= s[2])
      PROVE  /\ s[1] < s[2] /\ Mid(s) + 1 \in 1..n /\ Mid(s) + 1 \in Int
             /\ cmp[Mid(s) + 1] \in Signs
  <2>1. s[1] \in 0..n /\ s[2] \in 0..n /\ s[1] < s[2]
    BY <1>1, <1>3
  <2>2. Mid(s) + 1 \in 1..n
    BY <1>1, <2>1 DEF Mid
  <2> QED BY <2>1, <2>2
<1>4. ASSUME NEW s \in D
      PROVE  /\ next[s] \in D /\ m[s] \in Nat /\ stop[s] \in Int
             /\ s \notin Final => m[next[s]] < m[s]
  <2>1. s[1] \in 0..n /\ s[2] \in 0..n
    BY <1>1
  <2>2. CASE s \in Final
    <3>1. next[s] = s
      <4>1. CASE s[1] >= s[2]
        BY <4>1 DEF FoundNext
      <4>2. CASE ~(s[1] >= s[2]) /\ cmp[Mid(s) + 1] = 0
        BY <4>2 DEF FoundNext
      <4> QED BY <2>2, <4>1, <4>2
    <3> QED BY <1>3, <2>1, <2>2, <3>1
  <2>3. CASE s \notin Final
    <3>1. s[1] < s[2] /\ cmp[Mid(s) + 1] # 0
      BY <2>1, <2>3
    <3> DEFINE t == FoundNext(cmp, s)
    <3>2. t \in D /\ t[2] - t[1] < s[2] - s[1]
      BY <3>1, FoundStep
    <3>3. stop[s] \in Int
      BY <1>3, <2>3
    <3> HIDE DEF t
    <3>4. next[s] = t
      BY DEF t
    <3>5. t[1] \in Int /\ t[2] \in Int
      BY <3>2
    <3> QED BY <2>1, <3>1, <3>2, <3>3, <3>4, <3>5
  <2> QED BY <2>2, <2>3
<1>5. Recursion(D, Int, Final, stop, next, step, m)
  <2>1. step \in [D -> [Int -> Int]] /\ Final \subseteq D
    OBVIOUS
  <2> HIDE DEF D, Final, step
  <2>2. next \in [D -> D] /\ m \in [D -> Nat] /\ stop \in [D -> Int]
    BY <1>4
  <2> HIDE DEF next, m, stop
  <2> QED BY <1>4, <2>1, <2>2 DEF Recursion
<1>6. PICK g \in [D -> Int] : SolvesRecursion(g, D, Final, stop, next, step)
  <2> HIDE DEF D, Final, stop, next, step, m
  <2> QED BY <1>5, RecursionExists
<1>7. FoundEq(g, cmp)
  <2>1. ASSUME NEW s \in D
        PROVE g[s] = IF s[1] >= s[2] THEN 0
                     ELSE IF cmp[Mid(s) + 1] < 0 THEN g[<<s[1], Mid(s)>>]
                     ELSE IF cmp[Mid(s) + 1] > 0 THEN g[<<Mid(s) + 1, s[2]>>]
                     ELSE Mid(s) + 1
    <3>1. g[s] = IF s \in Final THEN stop[s] ELSE step[s][g[next[s]]]
      BY <1>6 DEF SolvesRecursion
    <3>2. next[s] \in D
      BY <1>4
    <3>3. g[next[s]] \in Int
      BY <3>2
    <3>4. g[s] = IF s \in Final THEN stop[s] ELSE g[next[s]]
      BY <3>1, <3>3
    <3>5. CASE s[1] >= s[2]
      BY <3>4, <3>5
    <3>6. CASE ~(s[1] >= s[2])
      <4>1. cmp[Mid(s) + 1] \in Signs
        BY <1>3, <3>6
      <4>2. cmp[Mid(s) + 1] = 0 <=> ~(cmp[Mid(s) + 1] < 0) /\ ~(cmp[Mid(s) + 1] > 0)
        BY <4>1 DEF Signs
      <4> QED BY <3>4, <3>6, <4>2 DEF FoundNext
    <3> QED BY <3>5, <3>6
  <2>2. g = [s \in D |-> g[s]]
    OBVIOUS
  <2> QED BY <2>1, <2>2 DEF FoundEq
<1>8. FoundEq(f, cmp)
  BY <1>7
<1> HIDE DEF f
<1>9. \A s \in D : f[s] = IF s \in Final THEN stop[s] ELSE f[next[s]]
  <2> TAKE s \in D
  <2>1. f[s] = IF s[1] >= s[2] THEN 0
               ELSE IF cmp[Mid(s) + 1] < 0 THEN f[<<s[1], Mid(s)>>]
               ELSE IF cmp[Mid(s) + 1] > 0 THEN f[<<Mid(s) + 1, s[2]>>]
               ELSE Mid(s) + 1
    BY <1>8 DEF FoundEq
  <2>2. CASE s[1] >= s[2]
    BY <2>1, <2>2
  <2>3. CASE ~(s[1] >= s[2])
    <3>1. cmp[Mid(s) + 1] \in Signs
      BY <1>3, <2>3
    <3>2. cmp[Mid(s) + 1] = 0 <=> ~(cmp[Mid(s) + 1] < 0) /\ ~(cmp[Mid(s) + 1] > 0)
      BY <3>1 DEF Signs
    <3> QED BY <2>1, <2>3, <3>2 DEF FoundNext
  <2> QED BY <2>2, <2>3
<1> DEFINE
      Fit(k, s) == /\ k \in 0..n
                   /\ k # 0 => cmp[k] = 0
                   /\ Descending(cmp) /\ HoldsEqual(cmp, s) => k # 0
      T == {s \in D : Fit(f[s], s)}
<1>10. ASSUME NEW s \in D, s \in Final \/ next[s] \in T PROVE s \in T
  <2>1. s[1] \in 0..n /\ s[2] \in 0..n
    BY <1>1
  <2>2. CASE s \in Final
    <3>1. f[s] = stop[s]
      BY <1>9, <2>2
    <3>2. CASE s[1] >= s[2]
      BY <1>1, <2>1, <3>1, <3>2 DEF HoldsEqual
    <3>3. CASE ~(s[1] >= s[2])
      <4>1. f[s] = Mid(s) + 1 /\ cmp[Mid(s) + 1] = 0
        BY <2>2, <3>1, <3>3
      <4> QED BY <1>3, <3>3, <4>1
    <3> QED BY <3>2, <3>3
  <2>3. CASE s \notin Final
    <3>1. s[1] < s[2] /\ cmp[Mid(s) + 1] # 0
      BY <2>1, <2>3
    <3>2. Descending(cmp) /\ HoldsEqual(cmp, s) => HoldsEqual(cmp, next[s])
      BY <3>1, FoundStep
    <3>3. f[s] = f[next[s]]
      BY <1>9, <2>3
    <3> HIDE DEF next, Final
    <3>4. Fit(f[next[s]], next[s])
      BY <1>10, <2>3
    <3> QED BY <3>2, <3>3, <3>4
  <2> QED BY <2>2, <2>3
<1> HIDE DEF T, Fit
<1>11. PassedBack(D, T, Final, next, m)
  BY <1>5, <1>10 DEF PassedBack, Recursion
<1>12. D \subseteq T
  BY <1>11, RecursionInduction
<1>13. <<0, n>> \in D
  BY <1>1
<1>14. Fit(f[<<0, n>>], <<0, n>>)
  BY <1>12, <1>13 DEF T
<1>15. (\E i \in 1..n : cmp[i] = 0) => HoldsEqual(cmp, <<0, n>>)
  BY <1>1 DEF HoldsEqual
<1> QED BY <1>2, <1>14, <1>15 DEF Fit

-----------------------------------------------------------------------------
(* The list stays in order *)

\* The parts of an element of the list.
LEMMA BindingsTyped ==
  ASSUME NEW C, NEW list \in Seq(BindingTo(C)), NEW i \in 1..Len(list)
  PROVE  list[i].binding \in Seq(Chord) /\ list[i].cmd \in C
<1>1. list[i] \in BindingTo(C)
  OBVIOUS
<1> QED BY <1>1 DEF BindingTo

\* How a key compares with the elements of the list.
LEMMA ComparedTyped ==
  ASSUME NEW C, NEW list \in Seq(BindingTo(C)), NEW key \in Seq(Chord)
  PROVE  /\ Compared(key, list) \in Seq(Signs)
         /\ Len(Compared(key, list)) = Len(list)
         /\ \A i \in 1..Len(list) :
              Compared(key, list)[i] = CmpKeybindingStrings(key, list[i].binding)
<1>1. \A i \in 1..Len(list) : list[i].binding \in Seq(Chord)
  BY BindingsTyped
<1>2. \A i \in 1..Len(list) : CmpKeybindingStrings(key, list[i].binding) \in Signs
  BY <1>1, ComparisonIsOrder DEF Signs
<1>3. DOMAIN list = 1..Len(list) /\ Len(list) \in Nat
  OBVIOUS
<1>4. Compared(key, list) = [i \in 1..Len(list) |-> CmpKeybindingStrings(key, list[i].binding)]
  BY <1>3 DEF Compared
<1> QED BY <1>2, <1>3, <1>4

\* A key compares with an ordered list as bsearch expects.
LEMMA ComparedDescends ==
  ASSUME NEW C, NEW list \in OrderedLists(C), NEW key \in Seq(Chord)
  PROVE  Descending(Compared(key, list))
<1> DEFINE cmp == Compared(key, list)
<1>1. list \in Seq(BindingTo(C))
  BY DEF OrderedLists
<1>2. /\ cmp \in Seq(Signs) /\ Len(cmp) = Len(list)
      /\ \A i \in 1..Len(list) : cmp[i] = CmpKeybindingStrings(key, list[i].binding)
  BY <1>1, ComparedTyped
<1> HIDE DEF cmp
<1>3. ASSUME NEW i \in 1..Len(cmp), NEW j \in 1..Len(cmp), i < j
      PROVE  (cmp[i] < 0 => cmp[j] < 0) /\ (cmp[j] > 0 => cmp[i] > 0)
  <2> DEFINE a == list[i].binding
             b == list[j].binding
  <2>1. a \in Seq(Chord) /\ b \in Seq(Chord)
    BY <1>1, <1>2, BindingsTyped
  <2>2. AtMost(a, b)
    <3>1. DOMAIN list = 1..Len(cmp)
      BY <1>1, <1>2
    <3>2. \A k, l \in DOMAIN list : k < l => AtMost(list[k].binding, list[l].binding)
      BY DEF OrderedLists
    <3> QED BY <1>3, <3>1, <3>2
  <2>3. cmp[i] = CmpKeybindingStrings(key, a) /\ cmp[j] = CmpKeybindingStrings(key, b)
    BY <1>2
  <2>4. cmp[i] \in Signs /\ cmp[j] \in Signs
    BY <1>2
  <2> HIDE DEF a, b
  <2>5. a = b \/ CmpKeybindingStrings(a, b) = -1
    BY <2>1, <2>2, ComparisonIsOrder DEF AtMost
  <2>6. cmp[i] = -1 => cmp[j] = -1
    <3>1. CmpKeybindingStrings(key, a) = -1 /\ CmpKeybindingStrings(a, b) = -1 =>
            CmpKeybindingStrings(key, b) = -1
      BY <2>1, ComparisonIsOrder
    <3> QED BY <2>3, <2>5, <3>1
  <2>7. cmp[j] = 1 => cmp[i] = 1
    <3>1. CmpKeybindingStrings(key, b) = 1 => CmpKeybindingStrings(b, key) = -1
      BY <2>1, ComparisonIsOrder
    <3>2. CmpKeybindingStrings(a, b) = -1 /\ CmpKeybindingStrings(b, key) = -1 =>
            CmpKeybindingStrings(a, key) = -1
      BY <2>1, ComparisonIsOrder
    <3>3. CmpKeybindingStrings(a, key) = -1 => CmpKeybindingStrings(key, a) = 1
      BY <2>1, ComparisonIsOrder
    <3> QED BY <2>3, <2>5, <3>1, <3>2, <3>3
  <2> QED BY <2>4, <2>6, <2>7 DEF Signs
<1> QED BY <1>3 DEF Descending, cmp

\* get_matching_keybinding finds a binding of exactly these chords if there is one.
LEMMA MatchingFinds ==
  ASSUME NEW C, NEW list \in OrderedLists(C), NEW key \in Seq(Chord)
  PROVE  LET k == GetMatchingKeybinding(list, key)
         IN  /\ k \in 0..Len(list)
             /\ k # 0 => list[k].binding = key
             /\ (\E i \in 1..Len(list) : list[i].binding = key) => k # 0
<1> DEFINE cmp == Compared(key, list)
           k == Bsearch(cmp)
<1>1. list \in Seq(BindingTo(C)) /\ Len(list) \in Nat
  BY DEF OrderedLists
<1>2. /\ cmp \in Seq(Signs) /\ Len(cmp) = Len(list)
      /\ \A i \in 1..Len(list) : cmp[i] = CmpKeybindingStrings(key, list[i].binding)
  BY <1>1, ComparedTyped
<1>3. Descending(cmp)
  BY ComparedDescends
<1> HIDE DEF cmp
<1>4. k \in 0..Len(list) /\ (k # 0 => cmp[k] = 0) /\ ((\E i \in 1..Len(list) : cmp[i] = 0) => k # 0)
  BY <1>2, <1>3, BsearchFinds
<1>5. \A i \in 1..Len(list) : cmp[i] = 0 <=> list[i].binding = key
  <2>1. \A i \in 1..Len(list) : list[i].binding \in Seq(Chord)
    BY <1>1, BindingsTyped
  <2> QED BY <1>2, <2>1, ComparisonIsOrder
<1>6. GetMatchingKeybinding(list, key) = k
  BY DEF GetMatchingKeybinding, cmp
<1> HIDE DEF k
<1> QED BY <1>1, <1>4, <1>5, <1>6

\* A binding that is replaced leaves the list in order.
LEMMA RemoveKeepsOrder ==
  ASSUME NEW C, NEW list \in OrderedLists(C), NEW pos \in 1..Len(list)
  PROVE  RemoveAt(list, pos) \in OrderedLists(C)
<1> DEFINE r == RemoveAt(list, pos)
<1>1. list \in Seq(BindingTo(C)) /\ Len(list) \in Nat
  BY DEF OrderedLists
<1>2. /\ r \in Seq(BindingTo(C)) /\ Len(r) = Len(list) - 1
      /\ \A j \in 1..(Len(list) - 1) : r[j] = IF j < pos THEN list[j] ELSE list[j + 1]
  BY <1>1, Removed
<1> HIDE DEF r
<1>3. ASSUME NEW i \in 1..Len(r), NEW j \in 1..Len(r), i < j
      PROVE  AtMost(r[i].binding, r[j].binding)
  <2> DEFINE p == IF i < pos THEN i ELSE i + 1
             q == IF j < pos THEN j ELSE j + 1
  <2>1. p \in 1..Len(list) /\ q \in 1..Len(list) /\ p < q
    BY <1>1, <1>2, <1>3
  <2>2. r[i] = list[p] /\ r[j] = list[q]
    BY <1>2
  <2> HIDE DEF p, q
  <2> QED BY <2>1, <2>2 DEF OrderedLists
<1>4. DOMAIN r = 1..Len(r)
  BY <1>2
<1>5. r \in OrderedLists(C)
  BY <1>2, <1>3, <1>4 DEF OrderedLists
<1> QED BY <1>5 DEF r

\* A binding that is inserted between smaller ones and others leaves it in order.
LEMMA InsertKeepsOrder ==
  ASSUME NEW C, NEW list \in OrderedLists(C), NEW pos \in 1..(Len(list) + 1), NEW e \in BindingTo(C),
         \A i \in 1..Len(list) : i < pos => AtMost(list[i].binding, e.binding),
         \A i \in 1..Len(list) : i >= pos => AtMost(e.binding, list[i].binding)
  PROVE  InsertAt(list, pos, e) \in OrderedLists(C)
<1> DEFINE r == InsertAt(list, pos, e)
<1>1. list \in Seq(BindingTo(C)) /\ Len(list) \in Nat
  BY DEF OrderedLists
<1>2. /\ r \in Seq(BindingTo(C)) /\ Len(r) = Len(list) + 1
      /\ \A j \in 1..(Len(list) + 1) :
           r[j] = IF j < pos THEN list[j] ELSE IF j = pos THEN e ELSE list[j - 1]
  <2>1. pos \in 1..(Len(list) + 1) /\ e \in BindingTo(C)
    OBVIOUS
  <2> QED BY ONLY <1>1, <2>1, Inserted, SMTT(30) DEF r
<1> HIDE DEF r
<1>3. ASSUME NEW i \in 1..Len(r), NEW j \in 1..Len(r), i < j
      PROVE  AtMost(r[i].binding, r[j].binding)
  <2> DEFINE p == IF i < pos THEN i ELSE i - 1
             q == IF j < pos THEN j ELSE j - 1
  <2>1. CASE i = pos
    <3>1. r[i] = e /\ r[j] = list[j - 1] /\ j - 1 \in 1..Len(list) /\ j - 1 >= pos
      BY <1>1, <1>2, <1>3, <2>1
    <3> QED BY <3>1
  <2>2. CASE j = pos
    <3>1. r[j] = e /\ r[i] = list[i] /\ i \in 1..Len(list) /\ i < pos
      BY <1>1, <1>2, <1>3, <2>2
    <3> QED BY <3>1
  <2>3. CASE i # pos /\ j # pos
    <3>1. p \in 1..Len(list) /\ q \in 1..Len(list) /\ p < q
      BY <1>1, <1>2, <1>3, <2>3
    <3>2. r[i] = list[p] /\ r[j] = list[q]
      BY <1>2, <2>3
    <3> HIDE DEF p, q
    <3> QED BY <3>1, <3>2 DEF OrderedLists
  <2> QED BY <2>1, <2>2, <2>3
<1>4. DOMAIN r = 1..Len(r)
  BY <1>2
<1>5. r \in OrderedLists(C)
  BY <1>2, <1>3, <1>4 DEF OrderedLists
<1> QED BY <1>5 DEF r

\* options_add_keybinding keeps the order, although lower_bound cannot tell an equal first
\* binding from a greater one and then keeps the duplicate.
LEMMA AddKeepsOrder ==
  ASSUME NEW C, NEW list \in OrderedLists(C), NEW text \in Seq(Chord), NEW cmd \in C
  PROVE  AddKeybinding(list, text, cmd) \in OrderedLists(C)
<1> DEFINE
      key == SortElement(text)
      cmp == Compared(key, list)
      lb == LowerBound(cmp)
      pos == lb + 2
      e == [binding |-> key, cmd |-> cmd]
      same == lb >= 0 /\ lb + 1 < Len(list) /\ list[pos].binding = key
      base == IF same THEN RemoveAt(list, pos) ELSE list
<1>1. key \in Seq(Chord)
  BY SortElementTyped
<1>2. AddKeybinding(list, text, cmd) = InsertAt(base, pos, e)
  BY DEF AddKeybinding
<1>3. list \in Seq(BindingTo(C)) /\ Len(list) \in Nat
  BY DEF OrderedLists
<1> HIDE DEF key
<1>4. /\ cmp \in Seq(Signs) /\ Len(cmp) = Len(list)
      /\ \A i \in 1..Len(list) : cmp[i] = CmpKeybindingStrings(key, list[i].binding)
  BY <1>1, <1>3, ComparedTyped
<1>5. Descending(cmp)
  BY <1>1, ComparedDescends
<1> HIDE DEF cmp
<1>6. /\ lb \in -1..(Len(list) - 1)
      /\ lb >= 0 => cmp[lb + 1] > 0
      /\ lb + 1 < Len(list) => cmp[lb + 2] <= 0
  BY <1>4, LowerBoundSeparates
<1> HIDE DEF lb
<1>7. e \in BindingTo(C) /\ e.binding = key
  BY <1>1 DEF BindingTo
<1>8. pos \in 1..(Len(list) + 1)
  BY <1>3, <1>6
<1>9. \A i \in 1..Len(list) : list[i].binding \in Seq(Chord) /\ cmp[i] \in Signs
  BY <1>3, <1>4, BindingsTyped
<1>10. ASSUME NEW i \in 1..Len(list), i < pos PROVE AtMost(list[i].binding, key)
  <2>1. cmp[i] > 0
    <3>1. lb >= 0 /\ lb + 1 \in 1..Len(list) /\ cmp[lb + 1] > 0
      BY <1>3, <1>6, <1>10
    <3>2. i < lb + 1 \/ i = lb + 1
      BY <1>6, <1>10
    <3> QED BY <1>4, <1>5, <3>1, <3>2 DEF Descending
  <2> QED BY <1>4, <2>1 DEF AtMost
<1>11. ASSUME NEW i \in 1..Len(list), i >= pos PROVE AtMost(key, list[i].binding)
  <2>1. ~(cmp[i] > 0)
    <3>1. pos \in 1..Len(list) /\ lb + 1 < Len(list)
      BY <1>3, <1>6, <1>11
    <3>2. cmp[pos] <= 0 /\ cmp[pos] \in Signs
      BY <1>6, <1>9, <3>1
    <3>3. pos < i \/ i = pos
      BY <1>6, <1>11
    <3> QED BY <1>4, <1>5, <3>1, <3>2, <3>3 DEF Descending, Signs
  <2>2. cmp[i] # 1
    BY <2>1
  <2> QED BY <1>1, <1>4, <1>9, <2>2, ComparisonIsOrder DEF AtMost
<1> HIDE DEF pos, e
<1>12. CASE same
  <2> DEFINE r == RemoveAt(list, pos)
  <2>1. pos \in 1..Len(list)
    BY <1>3, <1>6, <1>12 DEF pos
  <2>2. r \in OrderedLists(C)
    BY <2>1, RemoveKeepsOrder
  <2>3. /\ Len(r) = Len(list) - 1
        /\ \A j \in 1..(Len(list) - 1) : r[j] = IF j < pos THEN list[j] ELSE list[j + 1]
    BY <1>3, <2>1, Removed
  <2> HIDE DEF r
  <2>4. pos \in 1..(Len(r) + 1)
    BY <1>3, <2>1, <2>3
  <2>5. \A i \in 1..Len(r) : i < pos => AtMost(r[i].binding, e.binding)
    BY <1>3, <1>7, <1>10, <2>3
  <2>6. \A i \in 1..Len(r) : i >= pos => AtMost(e.binding, r[i].binding)
    <3> SUFFICES ASSUME NEW i \in 1..Len(r), i >= pos PROVE AtMost(e.binding, r[i].binding)
      OBVIOUS
    <3>1. i + 1 \in 1..Len(list) /\ i + 1 >= pos /\ r[i] = list[i + 1]
      BY <1>3, <1>8, <2>3
    <3> QED BY <1>7, <1>11, <3>1
  <2>7. InsertAt(r, pos, e) \in OrderedLists(C)
    BY <1>7, <2>2, <2>4, <2>5, <2>6, InsertKeepsOrder
  <2> QED BY <1>2, <1>12, <2>7 DEF r
<1>13. CASE ~same
  <2>1. InsertAt(list, pos, e) \in OrderedLists(C)
    BY <1>7, <1>8, <1>10, <1>11, InsertKeepsOrder
  <2> QED BY <1>2, <1>13, <2>1
<1> QED BY <1>12, <1>13

=============================================================================
