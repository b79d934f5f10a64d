-------------------------- MODULE ContainersProofs --------------------------
(***************************************************************************)
(* Proofs about module Containers, for any windows, tags, sets of tags and *)
(* groups of commands.  First the laws of the lists (Members, Without,     *)
(* WriteToParent, ListInsert); then the invariant of a desk in parts:      *)
(*   Sound     the lists of the tags and the scratchpad (Base), and what   *)
(*             the selected tag shows (Shows)                              *)
(*   Stacked   the focus stack that the focus follows                      *)
(*   Keyed     the keyboard                                                *)
(*   Steady    what is hidden, for the users that Simple describes         *)
(* Each function that handlers are made of keeps Sound whatever the focus  *)
(* is, and Arrange and FocusMostRecent make all of it true again (Good):   *)
(* so does every handler, whatever it did before it calls them.  Last come *)
(* the commands: what each makes of a desk that is Good.                   *)
(***************************************************************************)
EXTENDS Containers, SequenceTheorems, FiniteSetTheorems, NaturalsInduction,
        WellFoundedInduction, TLAPS

-----------------------------------------------------------------------------
(* The laws of the lists *)

\* Induction on the natural numbers, for a set of them.
LEMMA NaturalsInduct ==
  ASSUME NEW S, 0 \in S, \A n \in Nat : n \in S => n + 1 \in S
  PROVE  Nat \subseteq S
<1> SUFFICES ASSUME NEW n \in Nat, n \notin S PROVE FALSE
  OBVIOUS
<1> DEFINE T == {k \in Nat : k \notin S}
<1>1. PICK x \in T : \A y \in T : ~ (<<y, x>> \in OpToRel(<, Nat))
  BY NatLessThanWellFounded, WFMin
<1>2. \A y \in T : ~(y < x)
  BY <1>1, Zenon DEF OpToRel
<1>3. x # 0 /\ x - 1 \in Nat /\ x - 1 < x
  OBVIOUS
<1> QED BY <1>2, <1>3

\* Induction on lists, for a set of them.
LEMMA ListsInduct ==
  ASSUME NEW X, NEW T, <<>> \in T,
         \A s \in Seq(X), e \in X : s \in T => Append(s, e) \in T
  PROVE  Seq(X) \subseteq T
<1> DEFINE S == {n \in Nat : \A s \in Seq(X) : Len(s) = n => s \in T}
<1>1. 0 \in S
  <2> SUFFICES ASSUME NEW s \in Seq(X), Len(s) = 0 PROVE s \in T
    OBVIOUS
  <2>1. s = <<>>
    OBVIOUS
  <2> QED BY <2>1
<1>2. ASSUME NEW n \in Nat, n \in S PROVE n + 1 \in S
  <2> SUFFICES ASSUME NEW s \in Seq(X), Len(s) = n + 1 PROVE s \in T
    OBVIOUS
  <2>1. SubSeq(s, 1, n) \in Seq(X) /\ Len(SubSeq(s, 1, n)) = n /\ s[n + 1] \in X
        /\ s = Append(SubSeq(s, 1, n), s[n + 1])
    OBVIOUS
  <2>2. SubSeq(s, 1, n) \in T
    BY <1>2, <2>1
  <2> QED BY <2>1, <2>2
<1>3. Nat \subseteq S
  <2> HIDE DEF S
  <2> QED BY <1>1, <1>2, NaturalsInduct
<1> QED
  <2> SUFFICES ASSUME NEW s \in Seq(X) PROVE s \in T
    OBVIOUS
  <2>1. Len(s) \in Nat
    OBVIOUS
  <2> QED BY <1>3, <2>1

\* f gathers the members of S among the first elements of a list.
Gathers(f, s, S) ==
  f = [n \in 0..Len(s) |->
        IF n = 0 THEN <<>>
        ELSE IF s[n] \in S THEN Append(f[n - 1], s[n]) ELSE f[n - 1]]

\* Two such functions agree as long as the lists do.
LEMMA GathersAgree ==
  ASSUME NEW X, NEW S, NEW s \in Seq(X), NEW t \in Seq(X), NEW k \in Nat, k <= Len(s), k <= Len(t),
         \A i \in 1..k : s[i] = t[i],
         NEW f, NEW g, Gathers(f, s, S), Gathers(g, t, S)
  PROVE  f[k] = g[k]
<1> DEFINE N == {n \in Nat : n <= k => f[n] = g[n]}
<1>0. /\ \A n \in 0..Len(s) : f[n] = IF n = 0 THEN <<>>
           ELSE IF s[n] \in S THEN Append(f[n - 1], s[n]) ELSE f[n - 1]
      /\ \A n \in 0..Len(t) : g[n] = IF n = 0 THEN <<>>
           ELSE IF t[n] \in S THEN Append(g[n - 1], t[n]) ELSE g[n - 1]
  BY Zenon DEF Gathers
<1>1. 0 \in N
  BY <1>0
<1>2. ASSUME NEW n \in Nat, n \in N PROVE n + 1 \in N
  <2> SUFFICES ASSUME n + 1 <= k PROVE f[n + 1] = g[n + 1]
    OBVIOUS
  <2>1. n + 1 \in 0..Len(s) /\ n + 1 \in 0..Len(t) /\ n + 1 \in 1..k /\ n + 1 # 0 /\ (n + 1) - 1 = n
    OBVIOUS
  <2>2. f[n] = g[n]
    BY <1>2
  <2>3. s[n + 1] = t[n + 1]
    BY <2>1
  <2> QED BY <1>0, <2>1, <2>2, <2>3
<1>3. Nat \subseteq N
  <2> HIDE DEF N
  <2> QED BY <1>1, <1>2, NaturalsInduct
<1> QED BY <1>3

\* f gathers them among the first n elements.
GathersTo(n, f, s, S) ==
  \A i \in 0..n :
    f[i] = IF i = 0 THEN <<>>
           ELSE IF s[i] \in S THEN Append(f[i - 1], s[i]) ELSE f[i - 1]

\* What gathers from n elements can be made to gather from one more.
LEMMA GathersMore ==
  ASSUME NEW X, NEW S, NEW s \in Seq(X), NEW n \in Nat, n + 1 <= Len(s),
         NEW f \in [0..n -> Seq(X)], GathersTo(n, f, s, S)
  PROVE  \E g \in [0..(n + 1) -> Seq(X)] : GathersTo(n + 1, g, s, S)
<1> DEFINE
      e == IF s[n + 1] \in S THEN Append(f[n], s[n + 1]) ELSE f[n]
      g == [i \in 0..(n + 1) |-> IF i = n + 1 THEN e ELSE f[i]]
<1>1. n + 1 \in 1..Len(s) /\ n \in 0..n
  OBVIOUS
<1>2. s[n + 1] \in X
  BY <1>1
<1>3. e \in Seq(X)
  <2>1. f[n] \in Seq(X)
    BY <1>1
  <2>2. Append(f[n], s[n + 1]) \in Seq(X)
    BY <1>2, <2>1, AppendProperties
  <2> QED BY <2>1, <2>2
<1>4. g \in [0..(n + 1) -> Seq(X)]
  <2> HIDE DEF e
  <2> QED BY <1>3
<1>5. ASSUME NEW i \in 0..(n + 1)
      PROVE  g[i] = IF i = 0 THEN <<>>
                    ELSE IF s[i] \in S THEN Append(g[i - 1], s[i]) ELSE g[i - 1]
  <2>1. CASE i = n + 1
    <3>1. i # 0 /\ g[i] = e /\ i - 1 = n /\ g[i - 1] = f[n]
      BY <2>1
    <3> QED BY <2>1, <3>1
  <2>2. CASE i \in 0..n
    <3>1. g[i] = f[i] /\ (i # 0 => g[i - 1] = f[i - 1])
      BY <2>2
    <3>2. f[i] = IF i = 0 THEN <<>>
                 ELSE IF s[i] \in S THEN Append(f[i - 1], s[i]) ELSE f[i - 1]
      BY <2>2 DEF GathersTo
    <3> HIDE DEF g
    <3> QED BY <3>1, <3>2
  <2> QED BY <2>1, <2>2
<1> HIDE DEF g
<1>6. GathersTo(n + 1, g, s, S)
  BY <1>5 DEF GathersTo
<1> QED BY <1>4, <1>6

\* There is such a function for any list.
LEMMA GathersExist ==
  ASSUME NEW X, NEW S, NEW s \in Seq(X)
  PROVE  \E f \in [0..Len(s) -> Seq(X)] : Gathers(f, s, S)
<1> DEFINE N == {n \in Nat : n <= Len(s) => \E f \in [0..n -> Seq(X)] : GathersTo(n, f, s, S)}
<1>1. 0 \in N
  <2> DEFINE f == [i \in 0..0 |-> <<>>]
  <2>1. f \in [0..0 -> Seq(X)] /\ GathersTo(0, f, s, S)
    BY DEF GathersTo
  <2> HIDE DEF f
  <2> QED BY <2>1
<1>2. ASSUME NEW n \in Nat, n \in N PROVE n + 1 \in N
  <2> SUFFICES n + 1 <= Len(s) => \E g \in [0..(n + 1) -> Seq(X)] : GathersTo(n + 1, g, s, S)
    OBVIOUS
  <2>1. n <= Len(s) => \E f \in [0..n -> Seq(X)] : GathersTo(n, f, s, S)
    BY <1>2
  <2> HIDE DEF N
  <2>2. n + 1 <= Len(s) => n <= Len(s)
    BY Len(s) \in Nat
  <2> QED BY <2>1, <2>2, GathersMore
<1>3. Nat \subseteq N
  <2> HIDE DEF N
  <2> QED BY <1>1, <1>2, NaturalsInduct
<1>4. Len(s) \in Nat /\ Len(s) <= Len(s)
  OBVIOUS
<1>5. \A n \in N : n <= Len(s) => \E f \in [0..n -> Seq(X)] : GathersTo(n, f, s, S)
  OBVIOUS
<1> HIDE DEF N
<1>6. PICK f \in [0..Len(s) -> Seq(X)] : GathersTo(Len(s), f, s, S)
  BY <1>3, <1>4, <1>5
<1>7. f = [n \in 0..Len(s) |-> f[n]]
  OBVIOUS
<1>8. Gathers(f, s, S)
  BY <1>6, <1>7 DEF Gathers, GathersTo
<1> QED BY <1>8

\* What Members returns, element by element.
LEMMA MembersGathers ==
  ASSUME NEW X, NEW S, NEW s \in Seq(X)
  PROVE  \E f \in [0..Len(s) -> Seq(X)] : Gathers(f, s, S) /\ Members(s, S) = f[Len(s)]
<1> DEFINE f == CHOOSE g : Gathers(g, s, S)
<1>1. PICK h \in [0..Len(s) -> Seq(X)] : Gathers(h, s, S)
  BY GathersExist
<1>2. Gathers(f, s, S)
  BY <1>1
<1>3. Members(s, S) = f[Len(s)]
  BY Zenon DEF Members, Gathers
<1> HIDE DEF f
<1>4. f = h
  <2>1. \A k \in 0..Len(s) : f[k] = h[k]
    <3> TAKE k \in 0..Len(s)
    <3>1. k \in Nat /\ k <= Len(s)
      OBVIOUS
    <3> QED BY <1>1, <1>2, <3>1, GathersAgree
  <2>2. f = [k \in 0..Len(s) |-> f[k]] /\ h = [k \in 0..Len(s) |-> h[k]]
    BY <1>1, <1>2, Zenon DEF Gathers
  <2> QED BY <2>1, <2>2
<1> QED BY <1>1, <1>2, <1>3, <1>4

\* The members of a list are a list.
LEMMA MembersTyped ==
  ASSUME NEW X, NEW S, NEW s \in Seq(X) PROVE Members(s, S) \in Seq(X)
<1>1. PICK f \in [0..Len(s) -> Seq(X)] : Members(s, S) = f[Len(s)]
  BY MembersGathers
<1>2. Len(s) \in 0..Len(s)
  OBVIOUS
<1> QED BY <1>1, <1>2

\* A list without elements has no members.
LEMMA MembersEmpty ==
  ASSUME NEW S PROVE Members(<<>>, S) = <<>>
<1>1. ASSUME NEW X, NEW s \in Seq(X), Len(s) = 0 PROVE Members(s, S) = <<>>
  <2>1. PICK f \in [0..Len(s) -> Seq(X)] : Gathers(f, s, S) /\ Members(s, S) = f[Len(s)]
    BY MembersGathers
  <2>2. f[0] = <<>>
    BY <1>1, <2>1 DEF Gathers
  <2> QED BY <1>1, <2>1, <2>2
<1>2. <<>> \in Seq({}) /\ Len(<<>>) = 0
  OBVIOUS
<1> QED BY <1>1, <1>2, Zenon

\* One more element is one more member or not.
LEMMA MembersAppend ==
  ASSUME NEW X, NEW S, NEW s \in Seq(X), NEW e \in X
  PROVE  Members(Append(s, e), S) = IF e \in S THEN Append(Members(s, S), e) ELSE Members(s, S)
<1> DEFINE t == Append(s, e)
           k == Len(s)
<1>1. t \in Seq(X) /\ Len(t) = k + 1 /\ t[k + 1] = e /\ k \in Nat
      /\ \A i \in 1..k : s[i] = t[i]
  OBVIOUS
<1> HIDE DEF t
<1>2. PICK f \in [0..Len(s) -> Seq(X)] : Gathers(f, s, S) /\ Members(s, S) = f[Len(s)]
  BY MembersGathers
<1>3. PICK g \in [0..Len(t) -> Seq(X)] : Gathers(g, t, S) /\ Members(t, S) = g[Len(t)]
  BY <1>1, MembersGathers
<1>4. f[k] = g[k]
  <2>1. k \in Nat /\ k <= Len(s) /\ k <= Len(t) /\ \A i \in 1..k : s[i] = t[i]
    BY <1>1
  <2>2. Gathers(f, s, S) /\ Gathers(g, t, S)
    BY <1>2, <1>3
  <2>3. t \in Seq(X)
    BY <1>1
  <2> HIDE DEF k
  <2> QED BY <2>1, <2>2, <2>3, GathersAgree
<1>5. \A n \in 0..Len(t) : g[n] = IF n = 0 THEN <<>>
           ELSE IF t[n] \in S THEN Append(g[n - 1], t[n]) ELSE g[n - 1]
  BY <1>3, Zenon DEF Gathers
<1> HIDE DEF k
<1>6. k + 1 \in 0..Len(t) /\ k + 1 # 0 /\ (k + 1) - 1 = k
  BY <1>1
<1>7. g[k + 1] = IF e \in S THEN Append(g[k], e) ELSE g[k]
  BY <1>1, <1>5, <1>6
<1> QED BY <1>1, <1>2, <1>3, <1>4, <1>7 DEF t, k

\* The elements of lists that are built from others.
LEMMA Elements ==
  ASSUME NEW X
  PROVE  /\ ToSet(<<>>) = {}
         /\ \A s \in Seq(X) : ToSet(s) \subseteq X
         /\ \A s \in Seq(X), e \in X : ToSet(Append(s, e)) = ToSet(s) \cup {e}
         /\ \A s \in Seq(X), t \in Seq(X) : ToSet(s \o t) = ToSet(s) \cup ToSet(t)
         /\ \A e \in X : ToSet(<<e>>) = {e}
         /\ \A s \in Seq(X) : ToSet(s) = {} => s = <<>>
<1>1. ToSet(<<>>) = {}
  BY DEF ToSet
<1>2. ASSUME NEW s \in Seq(X) PROVE ToSet(s) \subseteq X
  BY DEF ToSet
<1>3. ASSUME NEW s \in Seq(X), NEW e \in X PROVE ToSet(Append(s, e)) = ToSet(s) \cup {e}
  <2> DEFINE t == Append(s, e)
  <2>1. Len(t) = Len(s) + 1 /\ t[Len(s) + 1] = e /\ (\A i \in 1..Len(s) : t[i] = s[i])
        /\ DOMAIN t = 1..Len(t) /\ DOMAIN s = 1..Len(s) /\ Len(s) \in Nat
    OBVIOUS
  <2> HIDE DEF t
  <2> QED BY <2>1 DEF ToSet, t
<1>4. ASSUME NEW s \in Seq(X), NEW t \in Seq(X) PROVE ToSet(s \o t) = ToSet(s) \cup ToSet(t)
  <2> DEFINE u == s \o t
  <2>1. /\ Len(u) = Len(s) + Len(t) /\ (\A i \in 1..Len(s) : u[i] = s[i])
        /\ (\A i \in 1..Len(t) : u[Len(s) + i] = t[i])
        /\ DOMAIN u = 1..Len(u) /\ DOMAIN s = 1..Len(s) /\ DOMAIN t = 1..Len(t)
        /\ Len(s) \in Nat /\ Len(t) \in Nat
    OBVIOUS
  <2> HIDE DEF u
  <2>2. ASSUME NEW i \in 1..Len(u) PROVE u[i] \in ToSet(s) \cup ToSet(t)
    <3>1. CASE i <= Len(s)
      BY <2>1, <3>1 DEF ToSet
    <3>2. CASE ~(i <= Len(s))
      <4>1. i - Len(s) \in 1..Len(t) /\ Len(s) + (i - Len(s)) = i
        BY <2>1, <3>2
      <4>2. u[i] = t[i - Len(s)]
        BY <2>1, <4>1
      <4> QED BY <2>1, <4>1, <4>2 DEF ToSet
    <3> QED BY <3>1, <3>2
  <2>3. ASSUME NEW i \in 1..Len(s) PROVE s[i] \in ToSet(u)
    BY <2>1 DEF ToSet
  <2>4. ASSUME NEW i \in 1..Len(t) PROVE t[i] \in ToSet(u)
    <3>1. Len(s) + i \in 1..Len(u)
      BY <2>1
    <3> QED BY <2>1, <3>1 DEF ToSet
  <2>5. ToSet(u) = {u[i] : i \in 1..Len(u)} /\ ToSet(s) = {s[i] : i \in 1..Len(s)}
        /\ ToSet(t) = {t[i] : i \in 1..Len(t)}
    BY <2>1 DEF ToSet
  <2> QED BY <2>2, <2>3, <2>4, <2>5 DEF u
<1>5. ASSUME NEW e \in X PROVE ToSet(<<e>>) = {e}
  BY DEF ToSet
<1>6. ASSUME NEW s \in Seq(X), ToSet(s) = {} PROVE s = <<>>
  <2>1. Len(s) = 0
    <3> SUFFICES ASSUME Len(s) # 0 PROVE FALSE
      OBVIOUS
    <3>1. 1 \in DOMAIN s
      OBVIOUS
    <3> QED BY <1>6, <3>1 DEF ToSet
  <2> QED BY <2>1
<1> QED BY <1>1, <1>2, <1>3, <1>4, <1>5, <1>6

\* Where a list holds nothing twice.
LEMMA OnceEach ==
  ASSUME NEW X
  PROVE  /\ IsInjective(<<>>)
         /\ \A e \in X : IsInjective(<<e>>)
         /\ \A s \in Seq(X), e \in X :
              IsInjective(Append(s, e)) <=> IsInjective(s) /\ e \notin ToSet(s)
         /\ \A s \in Seq(X), t \in Seq(X) :
              IsInjective(s \o t) <=> IsInjective(s) /\ IsInjective(t) /\ ToSet(s) \cap ToSet(t) = {}
<1>1. IsInjective(<<>>)
  BY DEF IsInjective
<1>2. ASSUME NEW e \in X PROVE IsInjective(<<e>>)
  BY DEF IsInjective
<1>4. ASSUME NEW s \in Seq(X), NEW t \in Seq(X)
      PROVE  IsInjective(s \o t) <=> IsInjective(s) /\ IsInjective(t) /\ ToSet(s) \cap ToSet(t) = {}
  <2> DEFINE u == s \o t
  <2>1. /\ Len(u) = Len(s) + Len(t) /\ (\A i \in 1..Len(s) : u[i] = s[i])
        /\ (\A i \in 1..Len(t) : u[Len(s) + i] = t[i])
        /\ DOMAIN u = 1..Len(u) /\ DOMAIN s = 1..Len(s) /\ DOMAIN t = 1..Len(t)
        /\ Len(s) \in Nat /\ Len(t) \in Nat
    OBVIOUS
  <2> HIDE DEF u
  <2>2. ASSUME IsInjective(u) PROVE IsInjective(s)
    <3>1. \A i \in 1..Len(s) : i \in 1..Len(u)
      BY <2>1
    <3> QED BY <2>1, <2>2, <3>1 DEF IsInjective
  <2>3. ASSUME IsInjective(u) PROVE IsInjective(t)
    <3> SUFFICES ASSUME NEW i \in 1..Len(t), NEW j \in 1..Len(t), t[i] = t[j] PROVE i = j
      BY <2>1 DEF IsInjective
    <3>1. Len(s) + i \in 1..Len(u) /\ Len(s) + j \in 1..Len(u)
      BY <2>1
    <3>2. u[Len(s) + i] = u[Len(s) + j]
      BY <2>1
    <3>3. Len(s) + i = Len(s) + j
      BY <2>1, <2>3, <3>1, <3>2 DEF IsInjective
    <3> QED BY <2>1, <3>3
  <2>4. ASSUME IsInjective(u) PROVE ToSet(s) \cap ToSet(t) = {}
    <3> SUFFICES ASSUME NEW i \in 1..Len(s), NEW j \in 1..Len(t), s[i] = t[j] PROVE FALSE
      BY <2>1 DEF ToSet
    <3>1. i \in 1..Len(u) /\ Len(s) + j \in 1..Len(u) /\ i # Len(s) + j
      BY <2>1
    <3>2. u[i] = u[Len(s) + j]
      BY <2>1
    <3> QED BY <2>1, <2>4, <3>1, <3>2 DEF IsInjective
  <2>5. ASSUME IsInjective(s), IsInjective(t), ToSet(s) \cap ToSet(t) = {} PROVE IsInjective(u)
    <3> SUFFICES ASSUME NEW i \in 1..Len(u), NEW j \in 1..Len(u), u[i] = u[j] PROVE i = j
      BY <2>1 DEF IsInjective
    <3>1. \A k \in 1..Len(u) : IF k <= Len(s) THEN k \in 1..Len(s) /\ u[k] = s[k] /\ u[k] \in ToSet(s)
                               ELSE /\ k - Len(s) \in 1..Len(t) /\ u[k] = t[k - Len(s)]
                                    /\ u[k] \in ToSet(t)
      <4> TAKE k \in 1..Len(u)
      <4>1. CASE k <= Len(s)
        BY <2>1, <4>1 DEF ToSet
      <4>2. CASE ~(k <= Len(s))
        <5>1. k - Len(s) \in 1..Len(t) /\ Len(s) + (k - Len(s)) = k
          BY <2>1, <4>2
        <5>2. u[k] = t[k - Len(s)]
          BY <2>1, <5>1
        <5> QED BY <2>1, <4>2, <5>1, <5>2 DEF ToSet
      <4> QED BY <4>1, <4>2
    <3>2. CASE i <= Len(s) /\ j <= Len(s)
      <4>1. s[i] = s[j] /\ i \in DOMAIN s /\ j \in DOMAIN s
        BY <2>1, <3>1, <3>2
      <4> QED BY <2>5, <4>1 DEF IsInjective
    <3>3. CASE ~(i <= Len(s)) /\ ~(j <= Len(s))
      <4>1. t[i - Len(s)] = t[j - Len(s)] /\ i - Len(s) \in DOMAIN t /\ j - Len(s) \in DOMAIN t
        BY <2>1, <3>1, <3>3
      <4>2. i - Len(s) = j - Len(s)
        BY <2>5, <4>1 DEF IsInjective
      <4> QED BY <2>1, <4>2
    <3>4. CASE (i <= Len(s)) # (j <= Len(s))
      <4>1. u[i] \in ToSet(s) \cap ToSet(t)
        BY <3>1, <3>4
      <4> QED BY <2>5, <4>1
    <3> QED BY <3>2, <3>3, <3>4
  <2> QED BY <2>2, <2>3, <2>4, <2>5 DEF u
<1>3. ASSUME NEW s \in Seq(X), NEW e \in X
      PROVE  IsInjective(Append(s, e)) <=> IsInjective(s) /\ e \notin ToSet(s)
  <2>1. <<e>> \in Seq(X) /\ Append(s, e) = s \o <<e>>
    BY AppendIsConcat
  <2>2. ToSet(<<e>>) = {e}
    BY Elements
  <2> DEFINE t == <<e>>
  <2>3. t \in Seq(X) /\ ToSet(t) = {e} /\ IsInjective(t) /\ Append(s, e) = s \o t
    BY <1>2, <2>1, <2>2
  <2> HIDE DEF t
  <2>4. IsInjective(s \o t) <=> IsInjective(s) /\ IsInjective(t) /\ ToSet(s) \cap ToSet(t) = {}
    BY <1>4, <2>3
  <2>5. e \notin ToSet(s) <=> ToSet(s) \cap ToSet(t) = {}
    BY <2>3
  <2> QED BY <2>3, <2>4, <2>5, Zenon
<1> QED BY <1>1, <1>2, <1>3, <1>4

\* What Members keeps are the elements that are in the set.
LEMMA MembersSet ==
  ASSUME NEW X, NEW S PROVE \A s \in Seq(X) : ToSet(Members(s, S)) = ToSet(s) \cap S
<1> DEFINE T == {s \in Seq(X) : ToSet(Members(s, S)) = ToSet(s) \cap S}
<1>1. <<>> \in T
  BY MembersEmpty, Elements
<1>2. ASSUME NEW s \in Seq(X), NEW e \in X, s \in T PROVE Append(s, e) \in T
  <2>1. Append(s, e) \in Seq(X) /\ ToSet(Append(s, e)) = ToSet(s) \cup {e}
    BY Elements
  <2>2. Members(Append(s, e), S) = IF e \in S THEN Append(Members(s, S), e) ELSE Members(s, S)
    BY MembersAppend
  <2>3. Members(s, S) \in Seq(X)
    BY MembersTyped
  <2>4. ToSet(Append(Members(s, S), e)) = ToSet(Members(s, S)) \cup {e}
    BY <2>3, Elements
  <2>5. ToSet(Members(s, S)) = ToSet(s) \cap S
    BY <1>2
  <2>6. ToSet(Members(Append(s, e), S)) = (ToSet(s) \cup {e}) \cap S
    BY <2>2, <2>4, <2>5
  <2> QED BY <2>1, <2>6
<1>3. Seq(X) \subseteq T
  <2> HIDE DEF T
  <2> QED BY <1>1, <1>2, ListsInduct
<1> QED BY <1>3

\* It keeps nothing twice.
LEMMA MembersOnce ==
  ASSUME NEW X, NEW S PROVE \A s \in Seq(X) : IsInjective(s) => IsInjective(Members(s, S))
<1> DEFINE T == {s \in Seq(X) : IsInjective(s) => IsInjective(Members(s, S))}
<1>1. <<>> \in T
  BY MembersEmpty, OnceEach
<1>2. ASSUME NEW s \in Seq(X), NEW e \in X, s \in T PROVE Append(s, e) \in T
  <2>1. Append(s, e) \in Seq(X)
    OBVIOUS
  <2>2. Members(Append(s, e), S) = IF e \in S THEN Append(Members(s, S), e) ELSE Members(s, S)
    BY MembersAppend
  <2>3. Members(s, S) \in Seq(X)
    BY MembersTyped
  <2>4. ToSet(Members(s, S)) = ToSet(s) \cap S
    BY MembersSet
  <2>5. IsInjective(Append(s, e)) <=> IsInjective(s) /\ e \notin ToSet(s)
    BY OnceEach
  <2>6. IsInjective(Append(Members(s, S), e))
          <=> IsInjective(Members(s, S)) /\ e \notin ToSet(Members(s, S))
    BY <2>3, OnceEach
  <2>7. IsInjective(s) => IsInjective(Members(s, S))
    BY <1>2
  <2>8. IsInjective(Append(s, e)) => IsInjective(Members(Append(s, e), S))
    BY <2>2, <2>4, <2>5, <2>6, <2>7
  <2> QED BY <2>1, <2>8
<1>3. Seq(X) \subseteq T
  <2> HIDE DEF T
  <2> QED BY <1>1, <1>2, ListsInduct
<1> QED BY <1>3

\* Only the elements of the list matter to the set.
LEMMA MembersSame ==
  ASSUME NEW X, NEW S, NEW R
  PROVE  \A s \in Seq(X) : ToSet(s) \cap S = ToSet(s) \cap R => Members(s, S) = Members(s, R)
<1> DEFINE T == {s \in Seq(X) : ToSet(s) \cap S = ToSet(s) \cap R => Members(s, S) = Members(s, R)}
<1>1. <<>> \in T
  BY MembersEmpty, Elements
<1>2. ASSUME NEW s \in Seq(X), NEW e \in X, s \in T PROVE Append(s, e) \in T
  <2>1. Append(s, e) \in Seq(X) /\ ToSet(Append(s, e)) = ToSet(s) \cup {e}
    BY Elements
  <2>2. Members(Append(s, e), S) = IF e \in S THEN Append(Members(s, S), e) ELSE Members(s, S)
    BY MembersAppend
  <2>3. Members(Append(s, e), R) = IF e \in R THEN Append(Members(s, R), e) ELSE Members(s, R)
    BY MembersAppend
  <2>4. ToSet(s) \cap S = ToSet(s) \cap R => Members(s, S) = Members(s, R)
    BY <1>2
  <2>5. ASSUME (ToSet(s) \cup {e}) \cap S = (ToSet(s) \cup {e}) \cap R
        PROVE  (e \in S <=> e \in R) /\ ToSet(s) \cap S = ToSet(s) \cap R
    BY <2>5
  <2> QED BY <2>1, <2>2, <2>3, <2>4, <2>5
<1>3. Seq(X) \subseteq T
  <2> HIDE DEF T
  <2> QED BY <1>1, <1>2, ListsInduct
<1> QED BY <1>3

\* All elements of a list are members of a set that holds them.
LEMMA MembersAll ==
  ASSUME NEW X, NEW S PROVE \A s \in Seq(X) : ToSet(s) \subseteq S => Members(s, S) = s
<1> DEFINE T == {s \in Seq(X) : ToSet(s) \subseteq S => Members(s, S) = s}
<1>1. <<>> \in T
  BY MembersEmpty, Elements
<1>2. ASSUME NEW s \in Seq(X), NEW e \in X, s \in T PROVE Append(s, e) \in T
  <2>1. Append(s, e) \in Seq(X) /\ ToSet(Append(s, e)) = ToSet(s) \cup {e}
    BY Elements
  <2>2. Members(Append(s, e), S) = IF e \in S THEN Append(Members(s, S), e) ELSE Members(s, S)
    BY MembersAppend
  <2> QED BY <1>2, <2>1, <2>2
<1>3. Seq(X) \subseteq T
  <2> HIDE DEF T
  <2> QED BY <1>1, <1>2, ListsInduct
<1> QED BY <1>3

\* Members of members.
LEMMA MembersTwice ==
  ASSUME NEW X, NEW S, NEW R
  PROVE  \A s \in Seq(X) : Members(Members(s, S), R) = Members(s, S \cap R)
<1> DEFINE T == {s \in Seq(X) : Members(Members(s, S), R) = Members(s, S \cap R)}
<1>1. <<>> \in T
  BY MembersEmpty
<1>2. ASSUME NEW s \in Seq(X), NEW e \in X, s \in T PROVE Append(s, e) \in T
  <2> DEFINE m == Members(s, S)
  <2>1. Append(s, e) \in Seq(X) /\ m \in Seq(X)
    BY MembersTyped
  <2>2. Members(Append(s, e), S) = IF e \in S THEN Append(m, e) ELSE m
    BY MembersAppend
  <2>3. Members(Append(s, e), S \cap R)
          = IF e \in S \cap R THEN Append(Members(s, S \cap R), e) ELSE Members(s, S \cap R)
    BY MembersAppend
  <2>4. Members(Append(m, e), R) = IF e \in R THEN Append(Members(m, R), e) ELSE Members(m, R)
    <3> HIDE DEF m
    <3> QED BY <2>1, MembersAppend
  <2>5. Members(m, R) = Members(s, S \cap R)
    BY <1>2
  <2> HIDE DEF m
  <2>6. Members(Members(Append(s, e), S), R) = Members(Append(s, e), S \cap R)
    <3>1. CASE e \in S
      <4>1. Members(Append(s, e), S) = Append(m, e) /\ (e \in S \cap R <=> e \in R)
        BY <2>2, <3>1
      <4> QED BY <2>3, <2>4, <2>5, <4>1, Zenon
    <3>2. CASE e \notin S
      <4>1. Members(Append(s, e), S) = m /\ e \notin S \cap R
        BY <2>2, <3>2
      <4> QED BY <2>3, <2>5, <4>1, Zenon
    <3> QED BY <3>1, <3>2
  <2> QED BY <2>1, <2>6
<1>3. Seq(X) \subseteq T
  <2> HIDE DEF T
  <2> QED BY <1>1, <1>2, ListsInduct
<1> QED BY <1>3

\* The members of two lists, one after the other.
LEMMA MembersConcat ==
  ASSUME NEW X, NEW S, NEW s \in Seq(X)
  PROVE  \A t \in Seq(X) : Members(s \o t, S) = Members(s, S) \o Members(t, S)
<1> DEFINE T == {t \in Seq(X) : Members(s \o t, S) = Members(s, S) \o Members(t, S)}
<1>0. Members(s, S) \in Seq(X)
  BY MembersTyped
<1>1. <<>> \in T
  <2>1. s \o <<>> = s /\ Members(s, S) \o <<>> = Members(s, S) /\ <<>> \in Seq(X)
    BY <1>0
  <2> QED BY <2>1, MembersEmpty
<1>2. ASSUME NEW t \in Seq(X), NEW e \in X, t \in T PROVE Append(t, e) \in T
  <2>1. Append(t, e) \in Seq(X) /\ s \o t \in Seq(X) /\ Members(t, S) \in Seq(X)
    BY MembersTyped
  <2>2. ASSUME NEW a \in Seq(X), NEW b \in Seq(X) PROVE a \o Append(b, e) = Append(a \o b, e)
    <3>1. a \o b \in Seq(X) /\ <<e>> \in Seq(X)
      BY ConcatProperties
    <3>2. Append(a \o b, e) = (a \o b) \o <<e>> /\ Append(b, e) = b \o <<e>>
      BY <3>1, AppendIsConcat
    <3> QED BY <3>1, <3>2, ConcatAssociative
  <2>3. Members(Append(s \o t, e), S)
          = IF e \in S THEN Append(Members(s \o t, S), e) ELSE Members(s \o t, S)
    <3> DEFINE u == s \o t
    <3>1. u \in Seq(X)
      BY <2>1
    <3> HIDE DEF u
    <3>2. Members(Append(u, e), S) = IF e \in S THEN Append(Members(u, S), e) ELSE Members(u, S)
      BY <3>1, MembersAppend
    <3> QED BY <3>2 DEF u
  <2>4. Members(Append(t, e), S) = IF e \in S THEN Append(Members(t, S), e) ELSE Members(t, S)
    BY MembersAppend
  <2>5. Members(s \o t, S) = Members(s, S) \o Members(t, S)
    BY <1>2
  <2>6. s \o Append(t, e) = Append(s \o t, e)
        /\ Members(s, S) \o Append(Members(t, S), e) = Append(Members(s, S) \o Members(t, S), e)
    BY <1>0, <2>1, <2>2
  <2>7. Members(s \o Append(t, e), S) = Members(s, S) \o Members(Append(t, e), S)
    BY <2>3, <2>4, <2>5, <2>6, Zenon
  <2> QED BY <2>1, <2>7
<1>3. Seq(X) \subseteq T
  <2> HIDE DEF T
  <2> QED BY <1>1, <1>2, ListsInduct
<1> QED BY <1>3

\* A list that holds nothing twice is as long as it has elements.
LEMMA LengthOnce ==
  ASSUME NEW X
  PROVE  \A s \in Seq(X) : IsInjective(s) => IsFiniteSet(ToSet(s)) /\ Cardinality(ToSet(s)) = Len(s)
<1> DEFINE T == {s \in Seq(X) : IsInjective(s) => IsFiniteSet(ToSet(s)) /\ Cardinality(ToSet(s)) = Len(s)}
<1>1. <<>> \in T
  BY Elements, FS_EmptySet
<1>2. ASSUME NEW s \in Seq(X), NEW e \in X, s \in T PROVE Append(s, e) \in T
  <2>1. Append(s, e) \in Seq(X) /\ ToSet(Append(s, e)) = ToSet(s) \cup {e} /\ Len(Append(s, e)) = Len(s) + 1
    BY Elements
  <2>2. IsInjective(Append(s, e)) <=> IsInjective(s) /\ e \notin ToSet(s)
    BY OnceEach
  <2>3. IsInjective(s) => IsFiniteSet(ToSet(s)) /\ Cardinality(ToSet(s)) = Len(s)
    BY <1>2
  <2>4. IsFiniteSet(ToSet(s)) /\ e \notin ToSet(s) =>
          IsFiniteSet(ToSet(s) \cup {e}) /\ Cardinality(ToSet(s) \cup {e}) = Cardinality(ToSet(s)) + 1
    BY FS_AddElement
  <2> QED BY <2>1, <2>2, <2>3, <2>4
<1>3. Seq(X) \subseteq T
  <2> HIDE DEF T
  <2> QED BY <1>1, <1>2, ListsInduct
<1> QED BY <1>3

\* Two lists of the same elements are equally long.
LEMMA SameLength ==
  ASSUME NEW X, NEW s \in Seq(X), NEW t \in Seq(X), IsInjective(s), IsInjective(t),
         ToSet(s) = ToSet(t)
  PROVE  Len(s) = Len(t)
BY LengthOnce

\* A list holds nothing twice when neither its members nor the others do.
LEMMA OnceApart ==
  ASSUME NEW X, NEW S
  PROVE  \A s \in Seq(X) : IsInjective(Members(s, S)) /\ IsInjective(Members(s, X \ S)) => IsInjective(s)
<1> DEFINE T == {s \in Seq(X) :
                   IsInjective(Members(s, S)) /\ IsInjective(Members(s, X \ S)) => IsInjective(s)}
<1>1. <<>> \in T
  BY OnceEach
<1>2. ASSUME NEW s \in Seq(X), NEW e \in X, s \in T PROVE Append(s, e) \in T
  <2> DEFINE a == Members(s, S)
             b == Members(s, X \ S)
  <2>1. Append(s, e) \in Seq(X) /\ a \in Seq(X) /\ b \in Seq(X)
    BY MembersTyped
  <2>2. /\ Members(Append(s, e), S) = IF e \in S THEN Append(a, e) ELSE a
        /\ Members(Append(s, e), X \ S) = IF e \in X \ S THEN Append(b, e) ELSE b
    BY MembersAppend
  <2>3. ToSet(a) = ToSet(s) \cap S /\ ToSet(b) = ToSet(s) \cap (X \ S)
    BY MembersSet
  <2>4. IsInjective(a) /\ IsInjective(b) => IsInjective(s)
    BY <1>2
  <2> HIDE DEF a, b
  <2>5. /\ IsInjective(Append(a, e)) <=> IsInjective(a) /\ e \notin ToSet(a)
        /\ IsInjective(Append(b, e)) <=> IsInjective(b) /\ e \notin ToSet(b)
        /\ IsInjective(Append(s, e)) <=> IsInjective(s) /\ e \notin ToSet(s)
    BY <2>1, OnceEach
  <2>6. IsInjective(Members(Append(s, e), S)) /\ IsInjective(Members(Append(s, e), X \ S))
          => IsInjective(Append(s, e))
    <3>1. CASE e \in S
      BY <2>2, <2>3, <2>4, <2>5, <3>1
    <3>2. CASE e \notin S
      BY <2>2, <2>3, <2>4, <2>5, <3>2
    <3> QED BY <3>1, <3>2
  <2> QED BY <2>1, <2>6
<1>3. Seq(X) \subseteq T
  <2> HIDE DEF T
  <2> QED BY <1>1, <1>2, ListsInduct
<1> QED BY <1>3

\* The elements of p that are in S make room for those of o, one after the other.
Refilled(p, S, o) ==
  [i \in DOMAIN p |-> IF p[i] \in S THEN o[Len(Members(SubSeq(p, 1, i), S))] ELSE p[i]]

\* One more element makes room for one more element or stays.
LEMMA RefilledAppend ==
  ASSUME NEW X, NEW S, NEW o, NEW s \in Seq(X), NEW e \in X, Refilled(s, S, o) \in Seq(X),
         NEW x \in X, x = IF e \in S THEN o[Len(Members(s, S)) + 1] ELSE e
  PROVE  Refilled(Append(s, e), S, o) = Append(Refilled(s, S, o), x)
<1> DEFINE t == Append(s, e)
           n == Len(s)
           a == Refilled(s, S, o)
           b == Append(a, x)
           c == Refilled(t, S, o)
<1>1. t \in Seq(X) /\ Len(t) = n + 1 /\ t[n + 1] = e /\ n \in Nat /\ DOMAIN t = 1..(n + 1)
      /\ DOMAIN s = 1..n /\ SubSeq(t, 1, n + 1) = t
      /\ \A i \in 1..n : s[i] = t[i] /\ SubSeq(t, 1, i) = SubSeq(s, 1, i)
  OBVIOUS
<1>0. a \in Seq(X)
  OBVIOUS
<1>2. DOMAIN a = 1..n
  BY <1>1 DEF Refilled
<1>3. Len(a) = n
  <2> HIDE DEF a
  <2> QED BY <1>0, <1>1, <1>2
<1>4. DOMAIN b = 1..(n + 1) /\ b[n + 1] = x /\ \A i \in 1..n : b[i] = a[i]
  <2> HIDE DEF a
  <2> QED BY <1>0, <1>1, <1>3
<1>5. DOMAIN c = 1..(n + 1)
  <2> HIDE DEF t
  <2> QED BY <1>1 DEF Refilled
<1>6. ASSUME NEW i \in 1..n PROVE c[i] = b[i]
  <2>1. i \in DOMAIN t /\ i \in DOMAIN s
    BY <1>1
  <2>2. c[i] = IF t[i] \in S THEN o[Len(Members(SubSeq(t, 1, i), S))] ELSE t[i]
    <3> HIDE DEF t
    <3> QED BY <2>1 DEF Refilled
  <2>3. a[i] = IF s[i] \in S THEN o[Len(Members(SubSeq(s, 1, i), S))] ELSE s[i]
    BY <2>1 DEF Refilled
  <2>4. s[i] = t[i] /\ SubSeq(t, 1, i) = SubSeq(s, 1, i)
    BY <1>1
  <2>5. b[i] = a[i]
    BY <1>4
  <2> HIDE DEF a, b, c, t
  <2> QED BY <2>2, <2>3, <2>4, <2>5, Zenon
<1>7. c[n + 1] = x
  <2>1. Members(t, S) = IF e \in S THEN Append(Members(s, S), e) ELSE Members(s, S)
    BY MembersAppend
  <2>2. Members(s, S) \in Seq(X)
    BY MembersTyped
  <2>3. e \in S => Len(Members(t, S)) = Len(Members(s, S)) + 1
    <3> HIDE DEF t
    <3> QED BY <2>1, <2>2
  <2>4. n + 1 \in DOMAIN t
    BY <1>1
  <2> HIDE DEF t
  <2>5. c[n + 1] = IF e \in S THEN o[Len(Members(t, S))] ELSE e
    <3>1. c[n + 1] = IF t[n + 1] \in S THEN o[Len(Members(SubSeq(t, 1, n + 1), S))] ELSE t[n + 1]
      BY <2>4 DEF Refilled
    <3>2. t[n + 1] = e /\ SubSeq(t, 1, n + 1) = t
      BY <1>1
    <3> HIDE DEF c, n
    <3> QED BY <3>1, <3>2, Zenon
  <2> QED BY <2>3, <2>5
<1>8. c = b
  <2>1. \A i \in 1..(n + 1) : c[i] = b[i]
    <3> HIDE DEF a, b, c, t, n
    <3> TAKE i \in 1..(n + 1)
    <3>1. i \in 1..n \/ i = n + 1
      BY <1>1
    <3> QED BY <3>1, <1>4, <1>6, <1>7
  <2>2. c = [i \in DOMAIN c |-> c[i]]
    <3> HIDE DEF t
    <3> QED BY Zenon DEF Refilled
  <2>3. b = [i \in DOMAIN b |-> b[i]]
    <3> HIDE DEF a
    <3> QED BY <1>0
  <2> HIDE DEF a, b, c, t, n
  <2> QED BY <1>4, <1>5, <2>1, <2>2, <2>3
<1> QED BY <1>8 DEF a, b, c, t

\* The elements of o are for the places of the members of S, R are others.
Apart(o, S, R) == R \cap S = {} /\ ToSet(o) \subseteq S

\* What the list holds then: the elements of o in the places of the members,
\* the rest as it was.
LEMMA RefilledIs ==
  ASSUME NEW X, NEW S, NEW R, NEW o \in Seq(X), Apart(o, S, R)
  PROVE  \A s \in Seq(X) : Len(Members(s, S)) <= Len(o) =>
           /\ Refilled(s, S, o) \in Seq(X)
           /\ Members(Refilled(s, S, o), S) = SubSeq(o, 1, Len(Members(s, S)))
           /\ Members(Refilled(s, S, o), R) = Members(s, R)
<1>0. R \cap S = {} /\ ToSet(o) \subseteq S
  BY DEF Apart
<1> DEFINE P(s) == /\ Refilled(s, S, o) \in Seq(X)
                   /\ Members(Refilled(s, S, o), S) = SubSeq(o, 1, Len(Members(s, S)))
                   /\ Members(Refilled(s, S, o), R) = Members(s, R)
           T == {s \in Seq(X) : Len(Members(s, S)) <= Len(o) => P(s)}
<1>1. <<>> \in T
  <2>1. Refilled(<<>>, S, o) = <<>>
    BY DEF Refilled
  <2>2. SubSeq(o, 1, 0) = <<>> /\ Len(<<>>) = 0 /\ <<>> \in Seq(X)
    OBVIOUS
  <2>3. P(<<>>)
    BY <2>1, <2>2, MembersEmpty
  <2> HIDE DEF P
  <2> QED BY <2>2, <2>3
<1>2. ASSUME NEW s \in Seq(X), NEW e \in X, s \in T PROVE Append(s, e) \in T
  <2> DEFINE t == Append(s, e)
             k == Len(Members(s, S))
             a == Refilled(s, S, o)
             x == IF e \in S THEN o[k + 1] ELSE e
  <2>1. t \in Seq(X) /\ k \in Nat
    BY MembersTyped
  <2>2. k <= Len(o) => P(s)
    BY <1>2
  <2>3. /\ Members(t, S) = IF e \in S THEN Append(Members(s, S), e) ELSE Members(s, S)
        /\ Members(t, R) = IF e \in R THEN Append(Members(s, R), e) ELSE Members(s, R)
    BY MembersAppend
  <2>4. Len(Members(t, S)) = IF e \in S THEN k + 1 ELSE k
    <3>1. Members(s, S) \in Seq(X)
      BY MembersTyped
    <3> HIDE DEF t
    <3> QED BY <2>3, <3>1
  <2> SUFFICES ASSUME Len(Members(t, S)) <= Len(o) PROVE P(t)
    BY <2>1
  <2>5. k <= Len(o) /\ (e \in S => k + 1 <= Len(o))
    <3> HIDE DEF t, k
    <3> QED BY <2>1, <2>4
  <2>6. a \in Seq(X) /\ Members(a, S) = SubSeq(o, 1, k) /\ Members(a, R) = Members(s, R)
    BY <2>2, <2>5
  <2>7. e \in S => o[k + 1] \in X /\ o[k + 1] \in S
    <3> SUFFICES ASSUME e \in S PROVE o[k + 1] \in X /\ o[k + 1] \in S
      OBVIOUS
    <3>1. k + 1 \in DOMAIN o
      <4> HIDE DEF k
      <4> QED BY <2>1, <2>5
    <3>2. o[k + 1] \in ToSet(o)
      <4> HIDE DEF k
      <4> QED BY <3>1 DEF ToSet
    <3> QED BY <1>0, <3>1, <3>2
  <2>8. x \in X /\ (x \in S <=> e \in S) /\ (e \notin S => x = e)
    BY <2>7
  <2>9. Refilled(t, S, o) = Append(a, x)
    <3>1. x \in X /\ x = IF e \in S THEN o[Len(Members(s, S)) + 1] ELSE e
      BY <2>8
    <3> HIDE DEF x
    <3> QED BY <2>6, <3>1, RefilledAppend
  <2> HIDE DEF x
  <2>10. /\ Members(Append(a, x), S) = IF x \in S THEN Append(Members(a, S), x) ELSE Members(a, S)
         /\ Members(Append(a, x), R) = IF x \in R THEN Append(Members(a, R), x) ELSE Members(a, R)
         /\ Append(a, x) \in Seq(X)
    <3> HIDE DEF a
    <3> QED BY <2>6, <2>8, MembersAppend
  <2>11. Members(Append(a, x), S) = SubSeq(o, 1, Len(Members(t, S)))
    <3>1. CASE e \in S
      <4>1. x = o[k + 1]
        BY <3>1 DEF x
      <4>2. SubSeq(o, 1, k + 1) = Append(SubSeq(o, 1, k), o[k + 1])
        <5> HIDE DEF k
        <5> QED BY <2>1, <2>5, <3>1
      <4> HIDE DEF a, t, k
      <4> QED BY <2>4, <2>6, <2>8, <2>10, <3>1, <4>1, <4>2
    <3>2. CASE e \notin S
      <4> HIDE DEF a, t, k
      <4> QED BY <2>4, <2>6, <2>8, <2>10, <3>2
    <3> QED BY <3>1, <3>2
  <2>12. Members(Append(a, x), R) = Members(t, R)
    <3>1. CASE e \in S
      <4>1. x \notin R /\ e \notin R
        BY <1>0, <2>8, <3>1
      <4> HIDE DEF a, t, k
      <4> QED BY <2>3, <2>6, <2>10, <4>1
    <3>2. CASE e \notin S
      <4> HIDE DEF a, t, k
      <4> QED BY <2>3, <2>6, <2>8, <2>10, <3>2
    <3> QED BY <3>1, <3>2
  <2> HIDE DEF t, a
  <2> QED BY <2>9, <2>10, <2>11, <2>12
<1>3. Seq(X) \subseteq T
  <2> HIDE DEF T
  <2> QED BY <1>1, <1>2, ListsInduct
<1> QED BY <1>3

\* The list that an order is written to.
LEMMA WrittenToParent ==
  ASSUME NEW X, NEW p \in Seq(X), NEW c \in Seq(X), IsInjective(p), IsInjective(c)
  PROVE  /\ WriteToParent(p, c) \in Seq(X)
         /\ IsInjective(WriteToParent(p, c))
         /\ ToSet(WriteToParent(p, c)) = ToSet(p)
         /\ \A R : R \cap ToSet(p) \subseteq ToSet(c) =>
              Members(WriteToParent(p, c), R) = Members(Members(c, ToSet(p)), R)
         /\ \A R : R \cap ToSet(p) \cap ToSet(c) = {} => Members(WriteToParent(p, c), R) = Members(p, R)
<1> DEFINE S == ToSet(p) \cap ToSet(c)
           o == Members(c, S)
           w == WriteToParent(p, c)
<1>1. w = Refilled(p, S, o)
  BY Zenon DEF WriteToParent, Refilled
<1>2. /\ o \in Seq(X) /\ IsInjective(o) /\ ToSet(o) = S
      /\ Members(p, S) \in Seq(X) /\ IsInjective(Members(p, S)) /\ ToSet(Members(p, S)) = S
  <2>1. o \in Seq(X) /\ Members(p, S) \in Seq(X)
    BY MembersTyped
  <2>2. IsInjective(o) /\ IsInjective(Members(p, S))
    BY MembersOnce
  <2>3. ToSet(o) = ToSet(c) \cap S /\ ToSet(Members(p, S)) = ToSet(p) \cap S
    BY MembersSet
  <2> QED BY <2>1, <2>2, <2>3
<1> HIDE DEF o, w
<1>3. Len(Members(p, S)) = Len(o)
  <2> DEFINE q == Members(p, S)
  <2>1. q \in Seq(X) /\ IsInjective(q) /\ ToSet(q) = ToSet(o)
    BY <1>2
  <2> HIDE DEF q, S
  <2>2. Len(q) = Len(o)
    BY <1>2, <2>1, SameLength
  <2> QED BY <2>2 DEF q
<1>4. ASSUME NEW R, R \cap S = {}
      PROVE  w \in Seq(X) /\ Members(w, S) = o /\ Members(w, R) = Members(p, R)
  <2>1. /\ Refilled(p, S, o) \in Seq(X)
        /\ Members(Refilled(p, S, o), S) = SubSeq(o, 1, Len(Members(p, S)))
        /\ Members(Refilled(p, S, o), R) = Members(p, R)
    <3>1. ToSet(o) \subseteq S /\ o \in Seq(X) /\ Len(Members(p, S)) <= Len(o)
      BY <1>2, <1>3
    <3> HIDE DEF S
    <3>3. Apart(o, S, R)
      BY <1>4, <3>1 DEF Apart
    <3>2. \A s \in Seq(X) : Len(Members(s, S)) <= Len(o) =>
           /\ Refilled(s, S, o) \in Seq(X)
           /\ Members(Refilled(s, S, o), S) = SubSeq(o, 1, Len(Members(s, S)))
           /\ Members(Refilled(s, S, o), R) = Members(s, R)
      BY <3>1, <3>3, RefilledIs
    <3> QED BY <3>1, <3>2
  <2>2. SubSeq(o, 1, Len(o)) = o
    BY <1>2
  <2> HIDE DEF S
  <2> QED BY <1>1, <1>3, <2>1, <2>2
<1>5. w \in Seq(X) /\ Members(w, S) = o /\ Members(w, X \ S) = Members(p, X \ S)
  <2>1. (X \ S) \cap S = {}
    OBVIOUS
  <2> HIDE DEF S
  <2> QED BY <1>4, <2>1
<1>6. IsInjective(w)
  <2>1. IsInjective(Members(p, X \ S))
    BY MembersOnce
  <2> HIDE DEF S
  <2> QED BY <1>2, <1>5, <2>1, OnceApart
<1>7. ToSet(w) = ToSet(p)
  <2>1. ToSet(w) \cap S = S
    <3>1. ToSet(Members(w, S)) = ToSet(w) \cap S
      BY <1>5, MembersSet
    <3> QED BY <1>2, <1>5, <3>1
  <2>2. ToSet(w) \cap (X \ S) = ToSet(p) \cap (X \ S)
    <3>1. ToSet(Members(w, X \ S)) = ToSet(w) \cap (X \ S)
          /\ ToSet(Members(p, X \ S)) = ToSet(p) \cap (X \ S)
      BY <1>5, MembersSet
    <3> QED BY <1>5, <3>1
  <2>3. ToSet(w) \subseteq X /\ ToSet(p) \subseteq X
    BY <1>5, Elements
  <2>4. ToSet(p) \cap S = S
    OBVIOUS
  <2> HIDE DEF S
  <2> QED BY <2>1, <2>2, <2>3, <2>4
<1>8. ASSUME NEW R, R \cap ToSet(p) \subseteq ToSet(c)
      PROVE  Members(w, R) = Members(Members(c, ToSet(p)), R)
  <2>1. Members(w, R) = Members(w, S \cap R)
    <3>1. ToSet(w) \cap R = ToSet(w) \cap (S \cap R)
      BY <1>7, <1>8
    <3> HIDE DEF S
    <3> QED BY <1>5, <3>1, MembersSame
  <2>2. Members(Members(w, S), R) = Members(w, S \cap R)
    BY <1>5, MembersTwice
  <2>3. Members(c, ToSet(p)) = o
    <3>1. ToSet(c) \cap ToSet(p) = ToSet(c) \cap S
      OBVIOUS
    <3>2. Members(c, ToSet(p)) = Members(c, S)
      <4> HIDE DEF S
      <4> QED BY <3>1, MembersSame
    <3> QED BY <3>2 DEF o
  <2> QED BY <1>5, <2>1, <2>2, <2>3
<1>9. ASSUME NEW R, R \cap ToSet(p) \cap ToSet(c) = {} PROVE Members(w, R) = Members(p, R)
  <2>1. R \cap S = {}
    BY <1>9
  <2> HIDE DEF S
  <2> QED BY <1>4, <2>1
<1> QED BY <1>5, <1>6, <1>7, <1>8, <1>9 DEF w

-----------------------------------------------------------------------------
(* The invariant of a desk, in parts that the functions of handlers keep *)

\* What the selected tag shows.
Shown(d)  == d.visible_con_set[d.selected]
\* The windows in the lists: every tag has the same ones.
Listed(d) == ToSet(d.con_set[0])
\* The windows that are at one of the tags that the selected tag shows.
HereOf(d) == {w \in Windows : ExistsOn(d, d.selected, w)}

\* TypeOK, of any desk
Typed(d) ==
  /\ d \in Desks
  /\ d.mapped \subseteq d.created
  /\ IsInjective(d.scratchpad) /\ IsInjective(d.visible_focus_set)
  /\ \A t \in Tags : /\ IsInjective(d.con_set[t])
                     /\ IsInjective(d.visible_con_set[t])
                     /\ IsInjective(d.focus_set[t])
  /\ {d.keyboard, d.grab_c} \subseteq d.created \cup {None}

\* ListsAgree, of any desk
Agree(d) ==
  \A t \in Tags : /\ ToSet(d.con_set[t]) \subseteq d.mapped
                  /\ ToSet(d.con_set[t]) = ToSet(d.con_set[0])
                  /\ ToSet(d.focus_set[t]) = ToSet(d.con_set[0])

\* ScratchpadAgrees, and the windows of the scratchpad are in the lists; nobody
\* fills it who has no keys for it.
Padded(d) ==
  /\ ToSet(d.scratchpad) = d.on_scratchpad
  /\ d.on_scratchpad \subseteq Listed(d)
  /\ "pad" \notin d.setup.keys => d.on_scratchpad = {}

\* What is focused is in the lists; a mapped window that is not lost its tag.
Found(d) ==
  /\ ToSet(d.visible_focus_set) \subseteq Listed(d)
  /\ \A w \in d.mapped : w \in Listed(d) \/ d.tag_id[w] = INVALID_TAG_ID

\* The first and the selected tag are on the output, a tag that never was shows
\* nothing, only the scratchpad takes the tag from a window and only when tags
\* are swapped does one get a tag that never was on the output.
Placed(d) ==
  /\ d.selected \in d.on_output /\ 0 \in d.on_output
  /\ "swap" \notin d.setup.keys => \A w \in Windows : d.tag_id[w] \in d.on_output \cup {INVALID_TAG_ID}
  /\ \A t \in Tags \ d.on_output : d.visible_con_set[t] = <<>>
  /\ "pad" \notin d.setup.keys => d.tag_id \in [Windows -> Tags]
  /\ "swap" \notin d.setup.keys => d.tags[d.selected] \subseteq d.on_output

\* What does not depend on what the selected tag shows, which a handler may leave
\* behind while it works.
Base(d) == Typed(d) /\ Agree(d) /\ Padded(d) /\ Found(d) /\ Placed(d)

\* New windows go to the front of the lists.
AtFront == \A p \in NewPositions : p <= 0

\* What the selected tag shows.
Shows(d) ==
  /\ ToSet(Shown(d)) \subseteq Listed(d)
  /\ \A w \in ToSet(Shown(d)) : d.tag_id[w] \in d.on_output
  /\ \A w \in ToSet(Shown(d)) : w \in HereOf(d) \/ d.tag_id[w] = d.selected
  /\ d.selected \in d.tags[d.selected] => ToSet(Shown(d)) \subseteq HereOf(d)
  /\ AtFront => Shown(d) = Members(d.con_set[d.selected], ToSet(Shown(d)))
  /\ AtFront /\ d.selected \in d.tags[d.selected] /\ "pad" \notin d.setup.keys =>
       Shown(d) = Members(d.con_set[d.selected], HereOf(d))

\* What the functions of handlers keep.
Sound(d) == Base(d) /\ Shows(d)

\* FocusStackIsWhatIsHere, of any desk
InStack(d) ==
  d.selected \in d.tags[d.selected] /\ d.tags[d.selected] \subseteq d.on_output =>
    d.visible_focus_set = Members(d.focus_set[d.selected], HereOf(d))

\* What is on the focus stack is here or can be seen, also when some of the tags
\* that are shown were never on the output.
InSight(d) == {w \in Windows : Viewable(d, w) \/ ExistsOn(d, d.selected, w)}
\* What the focus stack holds is in sight.
Seen(d) == d.selected \in d.tags[d.selected] => ToSet(d.visible_focus_set) \subseteq InSight(d)

\* What update_reduced_focus_stack makes true.
Stacked(d) == InStack(d) /\ Seen(d)

\* KeyboardAtFocus, of any desk
Keyed(d) ==
  d.fault = "none" /\ d.selected \in d.tags[d.selected]
    /\ Focused(d) # None /\ Viewable(d, Focused(d)) => d.keyboard = Focused(d)

-----------------------------------------------------------------------------
(* Types *)

\* The first tag is one, and INVALID_TAG_ID is not.
LEMMA TagZero == 0 \in Tags /\ INVALID_TAG_ID \notin Tags /\ Tags \subseteq Nat
BY MaxTagAssumption DEF Tags, INVALID_TAG_ID

\* The fields of a desk.
LEMMA Fields ==
  ASSUME NEW d \in Desks
  PROVE  /\ d.setup \in Setups /\ d.created \subseteq Windows /\ d.mapped \subseteq Windows
         /\ d.selected \in Tags /\ d.tags \in [Tags -> SUBSET Tags] /\ d.on_output \subseteq Tags
         /\ d.tag_id \in [Windows -> Tags \cup {INVALID_TAG_ID}]
         /\ d.floating \in [Windows -> SUBSET Tags] /\ d.hidden \in [Windows -> SUBSET Tags]
         /\ d.on_scratchpad \subseteq Windows /\ d.scratchpad \in Seq(Windows)
         /\ d.con_set \in [Tags -> Seq(Windows)] /\ d.visible_con_set \in [Tags -> Seq(Windows)]
         /\ d.focus_set \in [Tags -> Seq(Windows)] /\ d.visible_focus_set \in Seq(Windows)
         /\ d.keyboard \in Windows \cup {None} /\ d.grab_c \in Windows \cup {None}
         /\ d.fault \in {"none", "null", "use_after_free"}
BY DEF Desks

\* The windows in the lists are mapped.
LEMMA ListedMapped ==
  ASSUME NEW d, Base(d)
  PROVE  Listed(d) \subseteq d.mapped /\ d.mapped \subseteq d.created /\ d.created \subseteq Windows
<1>1. d \in Desks
  BY DEF Base, Typed
<1>2. d.created \subseteq Windows
  BY <1>1, Fields
<1>3. Listed(d) \subseteq d.mapped
  BY TagZero DEF Base, Agree, Listed
<1> QED BY <1>2, <1>3 DEF Base, Typed

\* tagset_reload brings what the selected tag shows up to date.
LEMMA ReloadSound ==
  ASSUME NEW d, Base(d), NEW t
  PROVE  /\ Base(Reload(d, t))
         /\ t # INVALID_TAG_ID \/ Shows(d) => Shows(Reload(d, t))
<1> DEFINE e == Reload(d, t)
           sel == d.selected
           all == d.con_set[sel]
           s == Members(all, HereOf(d))
<1>0. d \in Desks /\ Typed(d) /\ Agree(d) /\ Padded(d) /\ Found(d) /\ Placed(d)
  BY DEF Base, Typed
<1>1. CASE t = INVALID_TAG_ID
  <2>1. e = d
    BY <1>1 DEF Reload
  <2> QED BY <1>1, <2>1
<1>2. CASE t # INVALID_TAG_ID
  <2>1. all \in Seq(Windows) /\ sel \in Tags /\ IsInjective(all)
    BY <1>0, Fields DEF Typed
  <2>2. s \in Seq(Windows) /\ IsInjective(s) /\ ToSet(s) = ToSet(all) \cap HereOf(d)
    <3> HIDE DEF all, sel
    <3> QED BY <2>1, MembersTyped, MembersOnce, MembersSet
  <2>3. e = [d EXCEPT !.visible_con_set[sel] = s]
    BY <1>2 DEF Reload, HereOf
  <2> HIDE DEF s, e
  <2>4. /\ e \in Desks /\ e.visible_con_set = [d.visible_con_set EXCEPT ![sel] = s]
        /\ e.setup = d.setup /\ e.created = d.created /\ e.mapped = d.mapped
        /\ e.selected = d.selected /\ e.tags = d.tags /\ e.on_output = d.on_output
        /\ e.tag_id = d.tag_id /\ e.on_scratchpad = d.on_scratchpad
        /\ e.scratchpad = d.scratchpad /\ e.con_set = d.con_set /\ e.focus_set = d.focus_set
        /\ e.visible_focus_set = d.visible_focus_set /\ e.keyboard = d.keyboard
        /\ e.grab_c = d.grab_c
    BY <1>0, <2>1, <2>2, <2>3 DEF Desks
  <2>5. d.visible_con_set \in [Tags -> Seq(Windows)]
    BY <1>0, Fields
  <2>6. Typed(e)
    BY <1>0, <2>2, <2>4, <2>5 DEF Typed
  <2>7. Agree(e) /\ Padded(e) /\ Found(e)
    BY <1>0, <2>4 DEF Agree, Padded, Found, Listed
  <2>8. Placed(e)
    BY <1>0, <2>4, <2>5 DEF Placed
  <2>9. HereOf(e) = HereOf(d) /\ Shown(e) = s /\ Listed(e) = Listed(d)
    BY <2>1, <2>4, <2>5 DEF HereOf, ExistsOn, Shown, Listed
  <2>10. Shows(e)
    <3>1. Listed(d) = ToSet(all)
      BY <1>0, <2>1 DEF Agree, Listed
    <3>2. \A w \in HereOf(d) : d.tag_id[w] \in d.on_output
      BY DEF HereOf, ExistsOn
    <3>3. s = Members(all, ToSet(s))
      <4>1. ToSet(all) \cap HereOf(d) = ToSet(all) \cap ToSet(s)
        BY <2>2
      <4> HIDE DEF all
      <4>2. Members(all, HereOf(d)) = Members(all, ToSet(s))
        BY <2>1, <4>1, MembersSame
      <4> QED BY <4>2 DEF s
    <3>4. s = Members(all, HereOf(d))
      BY DEF s
    <3>5. /\ ToSet(Shown(e)) \subseteq Listed(e)
          /\ \A w \in ToSet(Shown(e)) : e.tag_id[w] \in e.on_output
          /\ ToSet(Shown(e)) \subseteq HereOf(e)
      BY <2>2, <2>4, <2>9, <3>1, <3>2
    <3>6. Shown(e) = Members(e.con_set[e.selected], ToSet(Shown(e)))
          /\ Shown(e) = Members(e.con_set[e.selected], HereOf(e))
      BY <2>4, <2>9, <3>3, <3>4
    <3> QED BY <3>5, <3>6 DEF Shows
  <2> QED BY <2>6, <2>7, <2>8, <2>10 DEF Base, e
<1> QED BY <1>1, <1>2

-----------------------------------------------------------------------------
(* Focus *)

\* e differs from d in the focus stacks, in what is hidden and floats, and in
\* the keyboard at most; a fault does not go away.
SameLists(d, e) ==
  /\ e.setup = d.setup /\ e.created = d.created /\ e.mapped = d.mapped
  /\ e.selected = d.selected /\ e.tags = d.tags /\ e.on_output = d.on_output
  /\ e.tag_id = d.tag_id
  /\ e.on_scratchpad = d.on_scratchpad /\ e.scratchpad = d.scratchpad
  /\ e.con_set = d.con_set /\ e.visible_con_set = d.visible_con_set
  /\ e.grab_c = d.grab_c
  /\ e.fault = "none" => d.fault = "none"

\* And what is hidden and floats is the same.
OnlyFocus(d, e) == SameLists(d, e) /\ e.hidden = d.hidden /\ e.floating = d.floating

\* One change after the other.
LEMMA SameTwice ==
  ASSUME NEW d, NEW e, NEW f
  PROVE  /\ SameLists(d, d) /\ OnlyFocus(d, d)
         /\ SameLists(d, e) /\ SameLists(e, f) => SameLists(d, f)
         /\ OnlyFocus(d, e) /\ OnlyFocus(e, f) => OnlyFocus(d, f)
         /\ OnlyFocus(d, e) => SameLists(d, e)
BY DEF SameLists, OnlyFocus

\* What the tags show depends on the lists only.
LEMMA SameShows ==
  ASSUME NEW d, NEW e, SameLists(d, e)
  PROVE  /\ HereOf(e) = HereOf(d) /\ Shown(e) = Shown(d) /\ Listed(e) = Listed(d)
         /\ Shows(d) => Shows(e)
<1>1. HereOf(e) = HereOf(d) /\ Shown(e) = Shown(d) /\ Listed(e) = Listed(d)
  BY DEF SameLists, HereOf, ExistsOn, Shown, Listed
<1>2. e.tag_id = d.tag_id /\ e.on_output = d.on_output /\ e.selected = d.selected
      /\ e.tags = d.tags /\ e.setup = d.setup /\ e.con_set = d.con_set
  BY DEF SameLists
<1> QED BY <1>1, <1>2 DEF Shows

\* So do the questions about a window that the focus does not answer.
LEMMA SameViews ==
  ASSUME NEW d, NEW e, OnlyFocus(d, e), NEW w
  PROVE  /\ IsFloating(e, w) = IsFloating(d, w) /\ GetHidden(e, w) = GetHidden(d, w)
         /\ Viewable(e, w) = Viewable(d, w)
         /\ PotentiallyViewable(e, w) = PotentiallyViewable(d, w)
BY DEF OnlyFocus, SameLists, IsFloating, GetHidden, Viewable, PotentiallyViewable, CurrentTag, ExistsOn

\* So does what can be seen.
LEMMA SameSight ==
  ASSUME NEW d, NEW e, OnlyFocus(d, e)
  PROVE  /\ InSight(e) = InSight(d)
         /\ Seen(d) /\ ToSet(e.visible_focus_set) \subseteq ToSet(d.visible_focus_set) => Seen(e)
<1>1. e.selected = d.selected /\ e.tags = d.tags
  BY DEF OnlyFocus, SameLists
<1>2. InSight(e) = InSight(d)
  BY DEF InSight, OnlyFocus, SameLists, IsFloating, GetHidden, Viewable, PotentiallyViewable, CurrentTag, ExistsOn
<1> QED BY <1>1, <1>2 DEF Seen

\* The stacks may be any that hold the same windows as before.
StacksOf(d, e) ==
  /\ e \in Desks
  /\ IsInjective(e.visible_focus_set) /\ ToSet(e.visible_focus_set) \subseteq Listed(d)
  /\ \A t \in Tags : IsInjective(e.focus_set[t]) /\ ToSet(e.focus_set[t]) = ToSet(d.focus_set[t])
  /\ e.keyboard \in d.created \cup {None}

\* Such stacks leave the lists as sound as they were.
LEMMA SameBase ==
  ASSUME NEW d, NEW e, Base(d), SameLists(d, e), StacksOf(d, e)
  PROVE  Base(e)
<1>1. Typed(d) /\ Agree(d) /\ Padded(d) /\ Found(d) /\ Placed(d)
  BY DEF Base
<1>2. e.visible_con_set = d.visible_con_set /\ e.con_set = d.con_set /\ e.mapped = d.mapped
      /\ e.created = d.created /\ e.scratchpad = d.scratchpad /\ e.grab_c = d.grab_c
      /\ e.on_scratchpad = d.on_scratchpad /\ e.selected = d.selected
      /\ e.on_output = d.on_output /\ e.tag_id = d.tag_id /\ e.setup = d.setup /\ e.tags = d.tags
  BY DEF SameLists
<1>3. Typed(e)
  BY <1>1, <1>2 DEF Typed, StacksOf
<1>4. Agree(e)
  BY <1>1, <1>2 DEF Agree, StacksOf
<1>5. Padded(e) /\ Found(e) /\ Placed(e)
  BY <1>1, <1>2 DEF Padded, Found, Placed, StacksOf, Listed
<1> QED BY <1>3, <1>4, <1>5 DEF Base

\* _is_reduced_focus_stack
LEMMA ReducedStack ==
  ASSUME NEW d, Base(d), NEW t \in Tags
  PROVE  /\ ReducedFocusStack(d, t) \in Seq(Windows)
         /\ IsInjective(ReducedFocusStack(d, t))
         /\ ToSet(ReducedFocusStack(d, t)) \subseteq Listed(d)
<1> DEFINE S == {w \in Windows : Viewable(d, w) \/ ExistsOn(d, t, w)}
           s == d.focus_set[t]
<1>1. s \in Seq(Windows) /\ IsInjective(s) /\ ToSet(s) = Listed(d)
  BY Fields DEF Base, Typed, Agree, Listed
<1>2. ReducedFocusStack(d, t) = IF t \in d.on_output THEN Members(s, S) ELSE <<>>
  BY DEF ReducedFocusStack
<1> HIDE DEF S, s
<1>3. Members(s, S) \in Seq(Windows) /\ IsInjective(Members(s, S))
      /\ ToSet(Members(s, S)) \subseteq Listed(d)
  BY <1>1, MembersTyped, MembersOnce, MembersSet
<1>4. <<>> \in Seq(Windows) /\ IsInjective(<<>>) /\ ToSet(<<>>) = {}
  BY OnceEach, Elements
<1> QED BY <1>2, <1>3, <1>4

\* update_reduced_focus_stack makes the stack what is here.
LEMMA UpdateStack ==
  ASSUME NEW d, Base(d)
  PROVE  /\ Base(UpdateReducedFocusStack(d))
         /\ OnlyFocus(d, UpdateReducedFocusStack(d))
         /\ Stacked(UpdateReducedFocusStack(d))
<1> DEFINE sel == d.selected
           s == ReducedFocusStack(d, sel)
           e == UpdateReducedFocusStack(d)
<1>1. sel \in Tags /\ d \in Desks /\ sel \in d.on_output
  BY Fields DEF Base, Typed, Placed
<1>2. s \in Seq(Windows) /\ IsInjective(s) /\ ToSet(s) \subseteq Listed(d)
  BY <1>1, ReducedStack
<1>3. e = [d EXCEPT !.visible_focus_set = s]
  BY DEF UpdateReducedFocusStack
<1> HIDE DEF s, e
<1>4. /\ e \in Desks /\ e.visible_focus_set = s /\ e.focus_set = d.focus_set
      /\ e.keyboard = d.keyboard /\ OnlyFocus(d, e)
  BY <1>1, <1>2, <1>3 DEF Desks, OnlyFocus, SameLists
<1>5. SameLists(d, e)
  BY <1>4, SameTwice
<1>6. StacksOf(d, e)
  BY <1>2, <1>4 DEF StacksOf, Base, Typed
<1>7. Base(e)
  BY <1>5, <1>6, SameBase
<1>8. Stacked(e)
  <2> SUFFICES ASSUME sel \in d.tags[sel], d.tags[sel] \subseteq d.on_output
               PROVE  s = Members(d.focus_set[sel], HereOf(d))
    <3>1. HereOf(e) = HereOf(d) /\ e.selected = sel /\ e.tags = d.tags /\ e.on_output = d.on_output
      BY <1>5, SameShows DEF SameLists
    <3>2. Seen(e)
      <4>1. s = Members(d.focus_set[sel], InSight(d))
        BY <1>1 DEF s, ReducedFocusStack, InSight
      <4>2. d.focus_set[sel] \in Seq(Windows)
        BY <1>1, Fields
      <4>3. ToSet(s) \subseteq InSight(d)
        BY <4>1, <4>2, MembersSet
      <4> QED BY <1>4, <3>1, <4>3, SameSight DEF Seen
    <3> QED BY <1>4, <3>1, <3>2 DEF Stacked, InStack
  <2>1. {w \in Windows : Viewable(d, w) \/ ExistsOn(d, sel, w)} = HereOf(d)
    BY DEF Viewable, PotentiallyViewable, ExistsOn, HereOf
  <2> QED BY <1>1, <2>1 DEF ReducedFocusStack, s
<1> QED BY <1>4, <1>7, <1>8 DEF e

\* tag_repush_on_focus_stack: any window of the lists may come to the front.
LEMMA RepushSound ==
  ASSUME NEW d, Base(d), NEW w \in Listed(d)
  PROVE  /\ Base(RepushOnFocusStack(d, w))
         /\ OnlyFocus(d, RepushOnFocusStack(d, w))
         /\ Focused(RepushOnFocusStack(d, w)) = w
         /\ RepushOnFocusStack(d, w).keyboard = d.keyboard
         /\ RepushOnFocusStack(d, w).fault = d.fault
         /\ ToSet(RepushOnFocusStack(d, w).visible_focus_set) = ToSet(d.visible_focus_set) \cup {w}
         /\ Stacked(d) /\ w \in ToSet(d.visible_focus_set) => Stacked(RepushOnFocusStack(d, w))
<1> DEFINE sel == d.selected
           vfs == d.visible_focus_set
           fs == d.focus_set[sel]
           rest == Without(vfs, w)
           s == <<w>> \o rest
           o == WriteToParent(fs, s)
           e == RepushOnFocusStack(d, w)
<1>1. /\ d \in Desks /\ sel \in Tags /\ vfs \in Seq(Windows) /\ fs \in Seq(Windows)
      /\ IsInjective(vfs) /\ IsInjective(fs) /\ ToSet(fs) = Listed(d) /\ w \in Windows
      /\ ToSet(vfs) \subseteq Listed(d)
  <2>1. d \in Desks /\ sel \in Tags /\ w \in Windows
    BY Fields, ListedMapped DEF Base, Typed
  <2> QED BY <2>1, Fields DEF Base, Typed, Agree, Found, Listed
<1>2. rest \in Seq(Windows) /\ IsInjective(rest) /\ ToSet(rest) = ToSet(vfs) \ {w}
  <2> HIDE DEF vfs
  <2>1. Members(vfs, ToSet(vfs) \ {w}) \in Seq(Windows)
    BY <1>1, MembersTyped
  <2>2. IsInjective(Members(vfs, ToSet(vfs) \ {w}))
    BY <1>1, MembersOnce
  <2>3. ToSet(Members(vfs, ToSet(vfs) \ {w})) = ToSet(vfs) \cap (ToSet(vfs) \ {w})
    BY <1>1, MembersSet
  <2> QED BY <2>1, <2>2, <2>3 DEF Without
<1> HIDE DEF rest, vfs
<1>3. s \in Seq(Windows) /\ IsInjective(s) /\ ToSet(s) = ToSet(vfs) \cup {w} /\ s # <<>> /\ s[1] = w
  <2> DEFINE u == <<w>>
  <2>1. u \in Seq(Windows) /\ IsInjective(u) /\ ToSet(u) = {w} /\ Len(u) = 1 /\ u[1] = w
    BY <1>1, OnceEach, Elements
  <2> HIDE DEF u
  <2>2. u \o rest \in Seq(Windows) /\ ToSet(u \o rest) = ToSet(u) \cup ToSet(rest)
    BY <1>2, <2>1, Elements, ConcatProperties
  <2>3. IsInjective(u \o rest)
    BY <1>2, <2>1, OnceEach
  <2>4. u \o rest # <<>> /\ (u \o rest)[1] = w
    <3> DEFINE v == u \o rest
    <3>1. Len(v) = Len(u) + Len(rest) /\ v[1] = u[1] /\ Len(rest) \in Nat
      BY <1>2, <2>1, ConcatProperties
    <3> HIDE DEF v
    <3>2. Len(v) # 0 /\ Len(<<>>) = 0
      BY <2>1, <3>1
    <3>3. v # <<>>
      BY <3>2, Zenon
    <3> QED BY <2>1, <3>1, <3>3 DEF v
  <2> QED BY <1>2, <2>1, <2>2, <2>3, <2>4 DEF u
<1> HIDE DEF s, fs
<1>4. /\ o \in Seq(Windows) /\ IsInjective(o) /\ ToSet(o) = ToSet(fs)
      /\ \A R : R \cap ToSet(fs) \subseteq ToSet(s) => Members(o, R) = Members(Members(s, ToSet(fs)), R)
  BY <1>1, <1>3, WrittenToParent
<1>5. e = [d EXCEPT !.visible_focus_set = s, !.focus_set[sel] = o]
  BY DEF RepushOnFocusStack, s, rest, vfs, fs
<1> HIDE DEF o, e
<1>6. /\ e \in Desks /\ e.visible_focus_set = s /\ e.focus_set = [d.focus_set EXCEPT ![sel] = o]
      /\ e.keyboard = d.keyboard /\ e.fault = d.fault /\ OnlyFocus(d, e)
  BY <1>1, <1>3, <1>4, <1>5 DEF Desks, OnlyFocus, SameLists
<1>7. SameLists(d, e)
  BY <1>6, SameTwice
<1>8. \A t \in Tags : e.focus_set[t] = IF t = sel THEN o ELSE d.focus_set[t]
  BY <1>1, <1>6, Fields
<1>9. StacksOf(d, e)
  <2>1. \A t \in Tags : IsInjective(d.focus_set[t])
    BY DEF Base, Typed
  <2>2. \A t \in Tags : IsInjective(e.focus_set[t]) /\ ToSet(e.focus_set[t]) = ToSet(d.focus_set[t])
    BY <1>1, <1>4, <1>8, <2>1 DEF fs
  <2>3. d.keyboard \in d.created \cup {None}
    BY DEF Base, Typed
  <2> QED BY <1>1, <1>3, <1>6, <2>2, <2>3 DEF StacksOf
<1>10. Base(e)
  BY <1>7, <1>9, SameBase
<1>11. Focused(e) = w
  BY <1>3, <1>6 DEF Focused, First
<1>12. ASSUME Stacked(d), w \in ToSet(vfs) PROVE Stacked(e)
  <2>1. HereOf(e) = HereOf(d) /\ e.selected = sel /\ e.tags = d.tags /\ e.on_output = d.on_output
    BY <1>7, SameShows DEF SameLists
  <2>7. Seen(e)
    <3>1. ToSet(e.visible_focus_set) = ToSet(vfs)
      BY <1>3, <1>6, <1>12
    <3> QED BY <1>6, <1>12, <3>1, SameSight DEF Stacked, vfs
  <2> SUFFICES ASSUME sel \in d.tags[sel], d.tags[sel] \subseteq d.on_output
               PROVE  s = Members(o, HereOf(d))
    BY <1>1, <1>6, <1>8, <2>1, <2>7 DEF Stacked, InStack
  <2>2. vfs = Members(fs, HereOf(d))
    BY <1>12 DEF Stacked, InStack, vfs, fs
  <2>3. ToSet(vfs) = ToSet(fs) \cap HereOf(d)
    BY <1>1, <2>2, MembersSet
  <2>4. ToSet(s) = ToSet(fs) \cap HereOf(d)
    BY <1>3, <1>12, <2>3
  <2>5. Members(o, HereOf(d)) = Members(Members(s, ToSet(fs)), HereOf(d))
    BY <1>4, <2>4
  <2>6. Members(s, ToSet(fs)) = s /\ Members(s, HereOf(d)) = s
    BY <1>3, <2>4, MembersAll
  <2> QED BY <2>5, <2>6
<1> QED BY <1>3, <1>6, <1>10, <1>11, <1>12 DEF e, vfs

\* The first of a list, or none.
LEMMA FirstOf ==
  ASSUME NEW s \in Seq(Windows)
  PROVE  /\ First(s) \in ToSet(s) \cup {None}
         /\ First(s) = None <=> s = <<>>
         /\ ToSet(s) \subseteq Windows
<1>1. ToSet(s) \subseteq Windows
  BY Elements
<1>2. CASE s = <<>>
  BY <1>1, <1>2 DEF First
<1>3. CASE s # <<>>
  <2>1. 1 \in DOMAIN s
    BY <1>3
  <2>2. s[1] \in ToSet(s)
    BY <2>1 DEF ToSet
  <2>3. s[1] # None
    BY <1>1, <2>2, NoneAssumption
  <2> QED BY <1>1, <1>3, <2>2, <2>3 DEF First
<1> QED BY <1>2, <1>3

\* The focused window is in the lists.
LEMMA FocusedOf ==
  ASSUME NEW d, Base(d)
  PROVE  /\ Focused(d) \in Listed(d) \cup {None}
         /\ Focused(d) \in d.created \cup {None}
         /\ Focused(d) \in ToSet(d.visible_focus_set) \cup {None}
         /\ Focused(d) = None <=> d.visible_focus_set = <<>>
<1>1. d.visible_focus_set \in Seq(Windows) /\ ToSet(d.visible_focus_set) \subseteq Listed(d)
  BY Fields DEF Base, Typed, Found
<1>2. Listed(d) \subseteq d.created
  BY ListedMapped
<1> QED BY <1>1, <1>2, FirstOf DEF Focused

\* focus_client
LEMMA FocusClientSound ==
  ASSUME NEW d, Base(d), NEW w \in d.created \cup {None}
  PROVE  /\ Base(FocusClient(d, w)) /\ OnlyFocus(d, FocusClient(d, w))
         /\ FocusClient(d, w).visible_focus_set = d.visible_focus_set
         /\ Stacked(d) => Stacked(FocusClient(d, w))
         /\ Focused(d) = w => Keyed(FocusClient(d, w))
<1> DEFINE e == FocusClient(d, w)
<1>1. d \in Desks /\ d.created \subseteq Windows
  BY ListedMapped DEF Base, Typed
<1>2. /\ e \in Desks /\ e.visible_focus_set = d.visible_focus_set /\ e.focus_set = d.focus_set
      /\ OnlyFocus(d, e) /\ e.keyboard = IF w = None \/ Viewable(d, w) THEN w ELSE d.keyboard
  <2>1. CASE w = None \/ Viewable(d, w)
    <3>1. e = [d EXCEPT !.keyboard = w]
      BY <2>1 DEF FocusClient
    <3> HIDE DEF e
    <3> QED BY <1>1, <2>1, <3>1 DEF Desks, OnlyFocus, SameLists
  <2>2. CASE ~(w = None \/ Viewable(d, w))
    <3>1. e = d
      BY <2>2 DEF FocusClient
    <3> HIDE DEF e
    <3> QED BY <1>1, <2>2, <3>1, SameTwice
  <2> QED BY <2>1, <2>2
<1> HIDE DEF e
<1>3. SameLists(d, e)
  BY <1>2, SameTwice
<1>4. StacksOf(d, e)
  BY <1>2 DEF StacksOf, Base, Typed, Found
<1>5. Base(e)
  BY <1>3, <1>4, SameBase
<1>6. Stacked(d) => Stacked(e)
  <2>1. HereOf(e) = HereOf(d) /\ e.selected = d.selected /\ e.tags = d.tags /\ e.on_output = d.on_output
    BY <1>3, SameShows DEF SameLists
  <2>2. Seen(d) => Seen(e)
    BY <1>2, SameSight
  <2> QED BY <1>2, <2>1, <2>2 DEF Stacked, InStack
<1>7. Focused(d) = w => Keyed(e)
  <2>1. Focused(e) = Focused(d) /\ Viewable(e, w) = Viewable(d, w)
    BY <1>2, SameViews DEF Focused
  <2> QED BY <1>2, <2>1 DEF Keyed
<1> QED BY <1>2, <1>5, <1>6, <1>7 DEF e

\* What tag_focus_container promises of the desk e that it makes of d.
Focuses(d, e, t, w) ==
  /\ Base(e) /\ OnlyFocus(d, e)
  /\ Stacked(d) /\ (t = d.selected => w \in ToSet(d.visible_focus_set) \cup {None}) => Stacked(e)
  /\ Keyed(d) /\ (t \in d.on_output \/ w = None) => Keyed(e)
  /\ t = d.selected /\ Focused(d) \in {w, None} => Keyed(e)
  /\ ToSet(e.visible_focus_set) \subseteq ToSet(d.visible_focus_set) \cup {w}
  /\ w = None \/ t # d.selected => ToSet(e.visible_focus_set) = ToSet(d.visible_focus_set)

\* tag_focus_container: the lists stay sound, and the keyboard follows the focus.
LEMMA FocusContainerSound ==
  ASSUME NEW d, Base(d), NEW t \in Tags, NEW w \in Windows \cup {None},
         t = d.selected => w \in Listed(d) \cup {None}
  PROVE  Focuses(d, FocusContainer(d, t, w), t, w)
<1> DEFINE r == IF t = d.selected THEN RepushOnFocusStack(d, w) ELSE d
           f == FocusContainer(d, t, w)
<1>0. OnlyFocus(d, d) /\ d \in Desks
  BY SameTwice DEF Base, Typed
<1>1. CASE w = None
  <2>1. f = d
    BY <1>1 DEF FocusContainer
  <2>2. Focused(d) \in {w, None} => Keyed(d)
    BY <1>1 DEF Keyed
  <2> QED BY <1>0, <2>1, <2>2 DEF Focuses
<1>2. CASE w # None /\ w \notin d.created
  <2>1. f = [d EXCEPT !.fault = "use_after_free"]
    BY <1>2 DEF FocusContainer
  <2> HIDE DEF f
  <2>2. /\ f \in Desks /\ f.visible_focus_set = d.visible_focus_set /\ f.focus_set = d.focus_set
        /\ OnlyFocus(d, f) /\ f.keyboard = d.keyboard /\ f.fault # "none"
    BY <1>0, <2>1 DEF Desks, OnlyFocus, SameLists
  <2>3. SameLists(d, f)
    BY <2>2, SameTwice
  <2>4. StacksOf(d, f)
    BY <2>2 DEF StacksOf, Base, Typed, Found
  <2>5. Base(f)
    BY <2>3, <2>4, SameBase
  <2>6. Stacked(d) => Stacked(f)
    <3>1. HereOf(f) = HereOf(d) /\ f.selected = d.selected /\ f.tags = d.tags /\ f.on_output = d.on_output
      BY <2>3, SameShows DEF SameLists
    <3>2. Seen(d) => Seen(f)
      BY <2>2, SameSight
    <3> QED BY <2>2, <3>1, <3>2 DEF Stacked, InStack
  <2>7. Keyed(f)
    BY <2>2 DEF Keyed
  <2> QED BY <2>2, <2>5, <2>6, <2>7 DEF Focuses, f
<1>3. CASE w \in d.created /\ w # None /\ GetHidden(d, w)
  <2>1. f = d
    BY <1>3 DEF FocusContainer
  <2>2. Focused(d) \in {w, None} => Keyed(d)
    <3>1. ~Viewable(d, w)
      BY <1>3 DEF Viewable
    <3> QED BY <3>1 DEF Keyed
  <2> QED BY <1>0, <2>1, <2>2 DEF Focuses
<1>4. CASE w \in d.created /\ w # None /\ ~GetHidden(d, w) /\ t = d.selected
  <2>1. w \in Listed(d)
    BY <1>4
  <2>2. /\ Base(r) /\ OnlyFocus(d, r) /\ Focused(r) = w
        /\ ToSet(r.visible_focus_set) = ToSet(d.visible_focus_set) \cup {w}
        /\ Stacked(d) /\ w \in ToSet(d.visible_focus_set) => Stacked(r)
    <3>1. r = RepushOnFocusStack(d, w)
      BY <1>4
    <3> HIDE DEF r
    <3> QED BY <2>1, <3>1, RepushSound
  <2>3. t \in d.on_output
    BY <1>4 DEF Base, Placed
  <2>4. f = FocusClient(r, w)
    <3>1. f = FocusClient(r, IF t \in d.on_output THEN Focused(r) ELSE None)
      BY <1>4 DEF FocusContainer
    <3> HIDE DEF r, f
    <3> QED BY <2>2, <2>3, <3>1
  <2>5. w \in r.created \cup {None}
    BY <1>4, <2>2 DEF OnlyFocus, SameLists
  <2> HIDE DEF r, f
  <2>6. /\ f.visible_focus_set = r.visible_focus_set
        /\ Base(f) /\ OnlyFocus(r, f) /\ (Stacked(r) => Stacked(f)) /\ Keyed(f)
    BY <2>2, <2>4, <2>5, FocusClientSound
  <2>7. OnlyFocus(d, f)
    BY <2>2, <2>6, SameTwice
  <2> QED BY <1>4, <2>2, <2>6, <2>7 DEF Focuses, f
<1>5. CASE w \in d.created /\ w # None /\ ~GetHidden(d, w) /\ t # d.selected
  <2> DEFINE v == IF t \in d.on_output THEN Focused(d) ELSE None
  <2>1. f = FocusClient(d, v)
    BY <1>5 DEF FocusContainer
  <2>2. v \in d.created \cup {None}
    BY FocusedOf
  <2> HIDE DEF f
  <2>3. /\ f.visible_focus_set = d.visible_focus_set
        /\ Base(f) /\ OnlyFocus(d, f) /\ (Stacked(d) => Stacked(f))
        /\ Focused(d) = v => Keyed(f)
    <3> HIDE DEF v
    <3> QED BY <2>1, <2>2, FocusClientSound
  <2>4. t \in d.on_output => Keyed(f)
    BY <2>3
  <2> QED BY <1>5, <2>3, <2>4 DEF Focuses, f
<1> QED BY <1>1, <1>2, <1>3, <1>4, <1>5

\* What tag_focus_most_recent_container promises: it ends with the keyboard at
\* the focus, if the tag is selected.
Refocuses(d, e, t) ==
  /\ Sound(e) /\ OnlyFocus(d, e)
  /\ Stacked(d) => Stacked(e)
  /\ Keyed(d) \/ t = d.selected => Keyed(e)

\* tag_focus_most_recent_container
LEMMA FocusMostRecentSound ==
  ASSUME NEW d, Sound(d), NEW t \in Tags \cup {INVALID_TAG_ID}
  PROVE  Refocuses(d, FocusMostRecent(d, t), t)
<1> DEFINE sel == d.selected
           e == FocusMostRecent(d, t)
           stack == IF t = d.selected THEN d.visible_focus_set ELSE ReducedFocusStack(d, t)
           w == First(IF stack = <<>> THEN d.visible_con_set[t] ELSE stack)
<1>0. Base(d) /\ Shows(d) /\ OnlyFocus(d, d) /\ sel \in Tags /\ d \in Desks
      /\ d.visible_con_set \in [Tags -> Seq(Windows)]
  BY SameTwice, Fields DEF Sound, Base, Typed
<1>1. CASE t = INVALID_TAG_ID
  <2>1. e = d /\ t # sel
    BY <1>0, <1>1, TagZero DEF FocusMostRecent
  <2> QED BY <1>0, <2>1 DEF Refocuses, Sound
<1>2. CASE t # INVALID_TAG_ID
  <2>1. t \in Tags
    BY <1>2
  <2>2. e = FocusContainer(d, t, w)
    BY <1>2 DEF FocusMostRecent
  <2>3. stack \in Seq(Windows) /\ ToSet(stack) \subseteq Listed(d)
    <3>1. d.visible_focus_set \in Seq(Windows) /\ ToSet(d.visible_focus_set) \subseteq Listed(d)
      BY <1>0, Fields DEF Base, Found
    <3>2. ReducedFocusStack(d, t) \in Seq(Windows) /\ ToSet(ReducedFocusStack(d, t)) \subseteq Listed(d)
      BY <1>0, <2>1, ReducedStack
    <3> QED BY <3>1, <3>2
  <2>4. d.visible_con_set[t] \in Seq(Windows) /\ d.visible_con_set[sel] = Shown(d)
    BY <1>0, <2>1 DEF Shown
  <2>5. t = sel => Focused(d) = First(stack)
    BY DEF Focused
  <2>6. t # sel /\ t \notin d.on_output => stack = <<>> /\ d.visible_con_set[t] = <<>>
    BY <1>0, <2>1 DEF ReducedFocusStack, Base, Placed
  <2> HIDE DEF stack
  <2>7. /\ w \in Windows \cup {None}
        /\ t = sel => w \in Listed(d) \cup {None}
        /\ t # sel /\ t \notin d.on_output => w = None
        /\ t = sel => Focused(d) \in {w, None}
    <3>1. CASE stack = <<>>
      <4>1. w = First(d.visible_con_set[t])
        BY <3>1
      <4>2. First(stack) = None
        BY <3>1 DEF First
      <4>3. t = sel => ToSet(d.visible_con_set[t]) \subseteq Listed(d)
        BY <1>0, <2>4 DEF Shows
      <4> HIDE DEF w
      <4> QED BY <2>4, <2>5, <2>6, <4>1, <4>2, <4>3, FirstOf
    <3>2. CASE stack # <<>>
      <4>1. w = First(stack)
        BY <3>2
      <4> HIDE DEF w
      <4> QED BY <2>3, <2>5, <2>6, <3>2, <4>1, FirstOf
    <3> QED BY <3>1, <3>2
  <2> HIDE DEF w, e
  <2>8. Focuses(d, e, t, w)
    BY <1>0, <2>1, <2>2, <2>7, FocusContainerSound
  <2>9. Base(e) /\ OnlyFocus(d, e)
    BY <2>8 DEF Focuses
  <2>10. Shows(e)
    <3>1. SameLists(d, e)
      BY <2>9, SameTwice
    <3> QED BY <1>0, <3>1, SameShows
  <2>11. Keyed(d) \/ t = sel => Keyed(e)
    <3>1. t = sel => t \in d.on_output
      BY <1>0 DEF Base, Placed
    <3> QED BY <2>7, <2>8, <3>1 DEF Focuses
  <2>12. ASSUME Stacked(d) PROVE Stacked(e)
    <3> DEFINE P == sel \in d.tags[sel] /\ d.tags[sel] \subseteq d.on_output
    <3>1. CASE ~P
      <4>1. e.selected = sel /\ e.tags = d.tags /\ e.on_output = d.on_output
        BY <2>9 DEF OnlyFocus, SameLists
      <4>2. Seen(e)
        <5> SUFFICES ASSUME sel \in d.tags[sel] PROVE ToSet(e.visible_focus_set) \subseteq InSight(e)
          BY <4>1 DEF Seen
        <5>1. InSight(e) = InSight(d)
          BY <2>9, SameSight
        <5>2. ToSet(d.visible_focus_set) \subseteq InSight(d)
          BY <2>12 DEF Stacked, Seen
        <5>3. ToSet(Shown(d)) \subseteq InSight(d)
          BY <1>0 DEF Shows, HereOf, InSight
        <5>4. t = sel => w \in InSight(d) \cup {None}
          <6>1. t = sel => w = First(IF stack = <<>> THEN Shown(d) ELSE d.visible_focus_set)
            BY <2>4 DEF w, stack
          <6> QED BY <1>0, <2>4, <5>2, <5>3, <6>1, Fields, FirstOf
        <5> QED BY <2>8, <5>1, <5>2, <5>4 DEF Focuses
      <4> QED BY <3>1, <4>1, <4>2 DEF Stacked, InStack
    <3>2. CASE t = sel => w \in ToSet(d.visible_focus_set) \cup {None}
      BY <2>8, <2>12, <3>2 DEF Focuses
    <3>3. CASE P /\ t = sel
      <4>1. CASE stack # <<>>
        <5>1. w = First(d.visible_focus_set)
          BY <3>3, <4>1 DEF w, stack
        <5> QED BY <1>0, <3>2, <5>1, Fields, FirstOf
      <4>2. CASE stack = <<>>
        <5>1. d.visible_focus_set = <<>>
          BY <3>3, <4>2 DEF stack
        <5> DEFINE fs == d.focus_set[sel]
        <5>2. fs \in Seq(Windows) /\ ToSet(fs) = Listed(d)
          BY <1>0, Fields DEF Base, Agree, Listed
        <5>3. <<>> = Members(fs, HereOf(d))
          BY <2>12, <3>3, <5>1 DEF Stacked, InStack
        <5>4. ToSet(fs) \cap HereOf(d) = {}
          <6> HIDE DEF fs
          <6>1. ToSet(Members(fs, HereOf(d))) = ToSet(fs) \cap HereOf(d)
            BY <5>2, MembersSet
          <6>2. ToSet(<<>>) = {}
            BY Elements
          <6> QED BY <5>3, <6>1, <6>2
        <5>5. ToSet(Shown(d)) \subseteq Listed(d) /\ ToSet(Shown(d)) \subseteq HereOf(d)
          BY <1>0, <3>3 DEF Shows
        <5>6. Shown(d) = <<>>
          BY <2>4, <1>0, <5>2, <5>4, <5>5, Elements
        <5>7. w = None
          BY <2>4, <3>3, <4>2, <5>6 DEF w, First
        <5> QED BY <3>2, <5>7
      <4> QED BY <4>1, <4>2
    <3> QED BY <3>1, <3>2, <3>3
  <2> QED BY <2>9, <2>10, <2>11, <2>12 DEF Refocuses, Sound, e
<1> QED BY <1>1, <1>2

\* update_hidden_status_of_containers
LEMMA UpdateHiddenSound ==
  ASSUME NEW d, Sound(d)
  PROVE  /\ Sound(UpdateHidden(d)) /\ SameLists(d, UpdateHidden(d))
         /\ UpdateHidden(d).floating = d.floating
<1> DEFINE sel == d.selected
           tiled == TiledList(d)
           fits == {tiled[i] : i \in {j \in DOMAIN tiled : j <= d.setup.areas}}
           up == fits \cup {w \in ToSet(d.con_set[sel]) : IsFloating(d, w)}
           h == [w \in Windows |-> IF w \in up THEN d.hidden[w] \ {sel}
                                   ELSE IF w \in ToSet(tiled) THEN d.hidden[w] \cup {sel} ELSE d.hidden[w]]
           e == UpdateHidden(d)
<1>0. Base(d) /\ d \in Desks /\ sel \in Tags /\ d.hidden \in [Windows -> SUBSET Tags]
  BY Fields DEF Sound, Base, Typed
<1>1. e = [d EXCEPT !.hidden = h]
  BY <1>0 DEF UpdateHidden, Desks
<1>2. h \in [Windows -> SUBSET Tags]
  <2> HIDE DEF up, tiled
  <2> QED BY <1>0
<1> HIDE DEF h, e
<1>3. /\ e \in Desks /\ e.visible_focus_set = d.visible_focus_set /\ e.focus_set = d.focus_set
      /\ SameLists(d, e) /\ e.keyboard = d.keyboard /\ e.floating = d.floating
  BY <1>0, <1>1, <1>2 DEF Desks, SameLists
<1>4. StacksOf(d, e)
  BY <1>0, <1>3 DEF StacksOf, Base, Typed, Found
<1>5. Sound(e)
  BY <1>0, <1>3, <1>4, SameBase, SameShows DEF Sound
<1> QED BY <1>3, <1>5 DEF e

\* arrange_monitor: afterwards the stack is what is here and the keyboard at it.
Arranged(d, e) ==
  Sound(e) /\ SameLists(d, e) /\ e.floating = d.floating /\ Stacked(e) /\ Keyed(e)

\* arrange_monitor, whatever the focus stack was
LEMMA ArrangeSound ==
  ASSUME NEW d, Sound(d) PROVE Arranged(d, Arrange(d))
<1> DEFINE h == UpdateHidden(d)
           s == UpdateReducedFocusStack(h)
           e == Arrange(d)
<1>1. Sound(h) /\ SameLists(d, h) /\ h.floating = d.floating
  BY UpdateHiddenSound
<1> HIDE DEF h
<1>2. Base(s) /\ OnlyFocus(h, s) /\ Stacked(s)
  BY <1>1, UpdateStack DEF Sound
<1>3. e = FocusMostRecent(s, s.selected)
  BY DEF Arrange, h
<1> HIDE DEF s, e
<1>4. SameLists(h, s) /\ s.floating = h.floating
  BY <1>2, SameTwice DEF OnlyFocus
<1>5. Sound(s)
  BY <1>1, <1>2, <1>4, SameShows DEF Sound
<1>6. s.selected \in Tags
  BY <1>2, Fields DEF Base, Typed
<1>7. Refocuses(s, e, s.selected)
  BY <1>3, <1>5, <1>6, FocusMostRecentSound
<1>8. Sound(e) /\ SameLists(s, e) /\ Stacked(e) /\ Keyed(e) /\ e.floating = s.floating
  BY <1>2, <1>7, SameTwice DEF Refocuses, OnlyFocus
<1>9. SameLists(d, e)
  BY <1>1, <1>4, <1>8, SameTwice
<1> QED BY <1>1, <1>4, <1>8, <1>9 DEF Arranged, e

-----------------------------------------------------------------------------
(* The functions that move windows *)

\* The same windows are mapped and in the lists, of the same selected tag.
Kin(d, e) ==
  /\ e.setup = d.setup /\ e.created = d.created /\ e.mapped = d.mapped
  /\ e.selected = d.selected /\ e.tags = d.tags /\ Listed(e) = Listed(d)
  /\ d.on_output \subseteq e.on_output
  /\ e.fault = "none" => d.fault = "none"

\* One change after the other.
LEMMA KinTwice ==
  ASSUME NEW d, NEW e, NEW f
  PROVE  /\ Kin(d, d)
         /\ Kin(d, e) /\ Kin(e, f) => Kin(d, f)
         /\ SameLists(d, e) => Kin(d, e)
<1>1. SameLists(d, e) => Kin(d, e)
  BY SameShows DEF SameLists, Kin
<1> QED BY <1>1 DEF Kin

\* Any window may be hidden and may float: the lists stay sound.
LEMMA HiddenSound ==
  ASSUME NEW d, Sound(d), NEW h \in [Windows -> SUBSET Tags], NEW f \in [Windows -> SUBSET Tags]
  PROVE  LET e == [d EXCEPT !.hidden = h, !.floating = f]
         IN  Sound(e) /\ SameLists(d, e)
<1> DEFINE e == [d EXCEPT !.hidden = h, !.floating = f]
<1>0. Base(d) /\ d \in Desks
  BY DEF Sound, Base, Typed
<1>1. /\ e \in Desks /\ e.visible_focus_set = d.visible_focus_set /\ e.focus_set = d.focus_set
      /\ SameLists(d, e) /\ e.keyboard = d.keyboard
  BY <1>0 DEF Desks, SameLists
<1> HIDE DEF e
<1>2. StacksOf(d, e)
  BY <1>0, <1>1 DEF StacksOf, Base, Typed, Found
<1>3. Sound(e)
  BY <1>0, <1>1, <1>2, SameBase, SameShows DEF Sound
<1> QED BY <1>1, <1>3 DEF e

\* container_set_tag_id: a window of the lists, or one that is not mapped yet,
\* goes to a tag.
LEMMA SetTagIdSound ==
  ASSUME NEW d, Sound(d), NEW w \in Windows, NEW t \in Tags, w \in d.mapped => w \in Listed(d)
  PROVE  /\ Sound(SetTagId(d, w, t)) /\ Kin(d, SetTagId(d, w, t))
         /\ SetTagId(d, w, t).tag_id = [d.tag_id EXCEPT ![w] = t]
         /\ SetTagId(d, w, t).on_output = d.on_output \cup {t}
         /\ SetTagId(d, w, t).hidden = d.hidden /\ SetTagId(d, w, t).floating = d.floating
         /\ SetTagId(d, w, t).visible_focus_set = d.visible_focus_set
         /\ SetTagId(d, w, t).focus_set = d.focus_set /\ SetTagId(d, w, t).keyboard = d.keyboard
         /\ SetTagId(d, w, t).fault = d.fault
<1> DEFINE sel == d.selected
           m == [d EXCEPT !.tag_id[w] = t, !.on_output = @ \cup {t}]
           e == SetTagId(d, w, t)
<1>0. /\ Base(d) /\ Shows(d) /\ d \in Desks /\ sel \in Tags /\ d.tag_id \in [Windows -> Tags \cup {INVALID_TAG_ID}]
      /\ d.on_output \subseteq Tags /\ d.visible_con_set \in [Tags -> Seq(Windows)]
  BY Fields DEF Sound, Base, Typed
<1>1. e = Reload(m, d.tag_id[w])
  BY DEF SetTagId
<1>2. /\ m \in Desks /\ m.tag_id = [d.tag_id EXCEPT ![w] = t] /\ m.on_output = d.on_output \cup {t}
      /\ m.setup = d.setup /\ m.created = d.created /\ m.mapped = d.mapped
      /\ m.selected = d.selected /\ m.tags = d.tags /\ m.on_scratchpad = d.on_scratchpad
      /\ m.scratchpad = d.scratchpad /\ m.con_set = d.con_set /\ m.visible_con_set = d.visible_con_set
      /\ m.focus_set = d.focus_set /\ m.visible_focus_set = d.visible_focus_set
      /\ m.keyboard = d.keyboard /\ m.grab_c = d.grab_c /\ m.fault = d.fault
      /\ m.hidden = d.hidden /\ m.floating = d.floating
  BY <1>0 DEF Desks
<1> HIDE DEF m, e
<1>3. Listed(m) = Listed(d) /\ Shown(m) = Shown(d)
  BY <1>2 DEF Listed, Shown
<1>4. Base(m)
  <2>1. Typed(m) /\ Agree(m) /\ Padded(m)
    BY <1>0, <1>2, <1>3 DEF Base, Typed, Agree, Padded
  <2>2. Found(m)
    <3>1. \A v \in d.mapped : v \in Listed(d) \/ m.tag_id[v] = INVALID_TAG_ID
      <4>1. d.mapped \subseteq Windows
        BY <1>0, Fields
      <4> QED BY <1>0, <1>2, <4>1 DEF Base, Found
    <3> QED BY <1>0, <1>2, <1>3, <3>1 DEF Base, Found
  <2>3. Placed(m)
    <3>1. d.tag_id \in [Windows -> Tags] => m.tag_id \in [Windows -> Tags]
      BY <1>2
    <3> QED BY <1>0, <1>2, <3>1 DEF Base, Placed
  <2> QED BY <2>1, <2>2, <2>3 DEF Base
<1>5. d.tag_id[w] # INVALID_TAG_ID \/ Shows(m)
  <2> SUFFICES ASSUME d.tag_id[w] = INVALID_TAG_ID PROVE Shows(m)
    OBVIOUS
  <2>1. INVALID_TAG_ID \notin d.on_output /\ INVALID_TAG_ID \notin Tags
    BY <1>0, TagZero
  <2>2. w \notin ToSet(Shown(d))
    BY <1>0, <2>1 DEF Shows
  <2>3. Shown(d) \in Seq(Windows) /\ ToSet(Shown(d)) \subseteq Windows
    BY <1>0, Elements DEF Shown
  <2>4. \A v \in ToSet(Shown(d)) : m.tag_id[v] = d.tag_id[v]
    BY <1>0, <1>2, <2>2, <2>3
  <2>5. HereOf(d) \subseteq HereOf(m)
    BY <1>0, <1>2, <2>1 DEF HereOf, ExistsOn
  <2>6. "pad" \in d.setup.keys
    BY <1>0, <2>1 DEF Base, Placed
  <2>7. \A v \in ToSet(Shown(m)) : m.tag_id[v] \in m.on_output
    BY <1>0, <1>2, <1>3, <2>4 DEF Shows
  <2>8. \A v \in ToSet(Shown(m)) : v \in HereOf(m) \/ m.tag_id[v] = m.selected
    BY <1>0, <1>2, <1>3, <2>4, <2>5 DEF Shows
  <2> QED BY <1>0, <1>2, <1>3, <2>5, <2>6, <2>7, <2>8 DEF Shows
<1>6. Base(e) /\ Shows(e)
  BY <1>1, <1>4, <1>5, ReloadSound
<1>7. /\ e.tag_id = m.tag_id /\ e.on_output = m.on_output /\ e.setup = m.setup /\ e.created = m.created
      /\ e.mapped = m.mapped /\ e.selected = m.selected /\ e.tags = m.tags /\ e.con_set = m.con_set
      /\ e.fault = m.fault /\ e.hidden = m.hidden /\ e.floating = m.floating
      /\ e.visible_focus_set = m.visible_focus_set /\ e.focus_set = m.focus_set
      /\ e.keyboard = m.keyboard
  <2> DEFINE s == Members(m.con_set[m.selected], {v \in Windows : ExistsOn(m, m.selected, v)})
  <2>1. e = m \/ e = [m EXCEPT !.visible_con_set[m.selected] = s]
    BY <1>1 DEF Reload
  <2> HIDE DEF s
  <2> QED BY <1>2, <2>1 DEF Desks
<1>8. Kin(d, e)
  BY <1>2, <1>7 DEF Kin, Listed
<1> QED BY <1>2, <1>6, <1>7, <1>8 DEF Sound, e

\* The lists but one window.
LEMMA WithoutIs ==
  ASSUME NEW s \in Seq(Windows), IsInjective(s), NEW w
  PROVE  /\ Without(s, w) \in Seq(Windows) /\ IsInjective(Without(s, w))
         /\ ToSet(Without(s, w)) = ToSet(s) \ {w}
<1>1. Members(s, ToSet(s) \ {w}) \in Seq(Windows)
  BY MembersTyped
<1>2. IsInjective(Members(s, ToSet(s) \ {w}))
  BY MembersOnce
<1>3. ToSet(Members(s, ToSet(s) \ {w})) = ToSet(s) \cap (ToSet(s) \ {w})
  BY MembersSet
<1> QED BY <1>1, <1>2, <1>3 DEF Without

\* remove_container_from_scratchpad
LEMMA RemoveFromScratchpadSound ==
  ASSUME NEW d, Sound(d), NEW w
  PROVE  LET e == RemoveFromScratchpad(d, w)
         IN  /\ Sound(e) /\ Kin(d, e) /\ w \notin e.on_scratchpad
             /\ e.on_scratchpad \subseteq d.on_scratchpad
             /\ e.tag_id = d.tag_id /\ e.on_output = d.on_output
             /\ e.con_set = d.con_set /\ e.focus_set = d.focus_set
             /\ e.visible_con_set = d.visible_con_set /\ e.visible_focus_set = d.visible_focus_set
             /\ e.hidden = d.hidden /\ e.floating = d.floating
             /\ e.keyboard = d.keyboard /\ e.grab_c = d.grab_c /\ e.fault = d.fault
             /\ Stacked(d) => Stacked(e)
             /\ Keyed(d) => Keyed(e)
<1> DEFINE e == RemoveFromScratchpad(d, w)
           s == Without(d.scratchpad, w)
<1>0. Base(d) /\ Shows(d) /\ d \in Desks /\ d.scratchpad \in Seq(Windows) /\ d.on_scratchpad \subseteq Windows
  BY Fields DEF Sound, Base, Typed
<1>1. CASE w \notin d.on_scratchpad
  <2>1. e = d
    BY <1>1 DEF RemoveFromScratchpad
  <2> QED BY <1>1, <2>1, KinTwice
<1>2. CASE w \in d.on_scratchpad
  <2>1. s \in Seq(Windows) /\ IsInjective(s) /\ ToSet(s) = d.on_scratchpad \ {w}
    BY <1>0, WithoutIs DEF Base, Typed, Padded
  <2>2. e = [d EXCEPT !.scratchpad = s, !.on_scratchpad = @ \ {w}]
    BY <1>2 DEF RemoveFromScratchpad
  <2> HIDE DEF s, e
  <2>3. /\ e \in Desks /\ e.scratchpad = s /\ e.on_scratchpad = d.on_scratchpad \ {w}
        /\ e.setup = d.setup /\ e.created = d.created /\ e.mapped = d.mapped
        /\ e.selected = d.selected /\ e.tags = d.tags /\ e.on_output = d.on_output
        /\ e.tag_id = d.tag_id /\ e.con_set = d.con_set /\ e.visible_con_set = d.visible_con_set
        /\ e.focus_set = d.focus_set /\ e.visible_focus_set = d.visible_focus_set
        /\ e.keyboard = d.keyboard /\ e.grab_c = d.grab_c /\ e.fault = d.fault
        /\ e.hidden = d.hidden /\ e.floating = d.floating
    BY <1>0, <2>1, <2>2 DEF Desks
  <2>4. Listed(e) = Listed(d) /\ Shown(e) = Shown(d) /\ HereOf(e) = HereOf(d)
    BY <2>3 DEF Listed, Shown, HereOf, ExistsOn
  <2>5. Typed(e) /\ Agree(e)
    BY <1>0, <2>1, <2>3 DEF Base, Typed, Agree
  <2>6. Padded(e) /\ Found(e) /\ Placed(e)
    BY <1>0, <2>1, <2>3, <2>4 DEF Base, Padded, Found, Placed
  <2>7. Shows(e)
    BY <1>0, <2>3, <2>4 DEF Shows
  <2>8. Kin(d, e)
    BY <2>3, <2>4 DEF Kin
  <2>9. Stacked(d) => Stacked(e)
    BY <2>3, <2>4 DEF Stacked, InStack, Seen, InSight, Viewable, PotentiallyViewable, IsFloating, GetHidden, CurrentTag, ExistsOn
  <2>10. Keyed(d) => Keyed(e)
    BY <2>3 DEF Keyed, Focused, Viewable, PotentiallyViewable, IsFloating, GetHidden, CurrentTag, ExistsOn
  <2> QED BY <2>3, <2>5, <2>6, <2>7, <2>8, <2>9, <2>10 DEF Sound, Base, e
<1> QED BY <1>1, <1>2

\* tag_write_to_tags after the order of what is shown has changed: the list of
\* the tag learns of it.
LEMMA ReorderSound ==
  ASSUME NEW d, Sound(d), NEW s \in Seq(Windows), IsInjective(s), ToSet(s) = ToSet(Shown(d))
  PROVE  LET e == WriteToTags([d EXCEPT !.visible_con_set[d.selected] = s])
         IN  /\ Sound(e) /\ Kin(d, e) /\ Shown(e) = s
             /\ e.tag_id = d.tag_id /\ e.on_output = d.on_output
             /\ e.on_scratchpad = d.on_scratchpad /\ e.scratchpad = d.scratchpad
             /\ e.hidden = d.hidden /\ e.floating = d.floating
             /\ e.visible_focus_set = d.visible_focus_set
<1> DEFINE sel == d.selected
           con == d.con_set[sel]
           o == WriteToParent(con, s)
           m == [d EXCEPT !.visible_con_set[sel] = s]
           e == WriteToTags(m)
<1>0. /\ Base(d) /\ Shows(d) /\ d \in Desks /\ sel \in Tags /\ con \in Seq(Windows) /\ IsInjective(con)
      /\ ToSet(con) = Listed(d) /\ d.con_set \in [Tags -> Seq(Windows)]
      /\ d.visible_con_set \in [Tags -> Seq(Windows)]
  BY Fields DEF Sound, Base, Typed, Agree, Listed
<1> HIDE DEF con
<1>1. /\ o \in Seq(Windows) /\ IsInjective(o) /\ ToSet(o) = Listed(d)
      /\ \A R : R \cap ToSet(con) \subseteq ToSet(s) => Members(o, R) = Members(Members(s, ToSet(con)), R)
  BY <1>0, WrittenToParent
<1>2. e = [d EXCEPT !.visible_con_set[sel] = s, !.con_set[sel] = o]
  <2>1. m.selected = sel /\ m.visible_con_set[sel] = s /\ m.con_set[sel] = con
    BY <1>0 DEF Desks, con
  <2>2. e = [m EXCEPT !.con_set[sel] = WriteToParent(m.con_set[sel], m.visible_con_set[sel])]
    BY <2>1 DEF WriteToTags
  <2>3. e = [m EXCEPT !.con_set[sel] = o]
    BY <2>1, <2>2 DEF o
  <2> HIDE DEF o
  <2> QED BY <1>0, <2>3 DEF Desks
<1> HIDE DEF o, e
<1>3. /\ e \in Desks /\ e.visible_con_set = [d.visible_con_set EXCEPT ![sel] = s]
      /\ e.con_set = [d.con_set EXCEPT ![sel] = o]
      /\ e.setup = d.setup /\ e.created = d.created /\ e.mapped = d.mapped
      /\ e.selected = d.selected /\ e.tags = d.tags /\ e.on_output = d.on_output
      /\ e.tag_id = d.tag_id /\ e.on_scratchpad = d.on_scratchpad /\ e.scratchpad = d.scratchpad
      /\ e.focus_set = d.focus_set /\ e.visible_focus_set = d.visible_focus_set
      /\ e.keyboard = d.keyboard /\ e.grab_c = d.grab_c /\ e.fault = d.fault
      /\ e.hidden = d.hidden /\ e.floating = d.floating
  BY <1>0, <1>1, <1>2 DEF Desks
<1>4. \A t \in Tags : /\ e.visible_con_set[t] = IF t = sel THEN s ELSE d.visible_con_set[t]
                      /\ e.con_set[t] = IF t = sel THEN o ELSE d.con_set[t]
  BY <1>0, <1>3
<1>5. Listed(e) = Listed(d) /\ Shown(e) = s /\ HereOf(e) = HereOf(d)
  <2>1. Listed(e) = Listed(d)
    BY <1>1, <1>4, TagZero DEF Listed
  <2>2. Shown(e) = s /\ HereOf(e) = HereOf(d)
    BY <1>0, <1>3, <1>4 DEF Shown, HereOf, ExistsOn
  <2> QED BY <2>1, <2>2
<1>6. Typed(e)
  BY <1>0, <1>1, <1>3, <1>4 DEF Base, Typed
<1>7. Agree(e)
  <2>1. \A t \in Tags : ToSet(e.con_set[t]) = Listed(d)
    BY <1>0, <1>1, <1>4 DEF Base, Agree, Listed
  <2> QED BY <1>0, <1>3, <2>1, TagZero DEF Base, Agree, Listed
<1>8. Padded(e) /\ Found(e)
  BY <1>0, <1>3, <1>5 DEF Base, Padded, Found
<1>9. Placed(e)
  BY <1>0, <1>3, <1>4 DEF Base, Placed
<1>10. Shows(e)
  <2>1. ToSet(s) \subseteq ToSet(con)
    BY <1>0 DEF Shows
  <2>2. Members(s, ToSet(con)) = s /\ Members(s, ToSet(s)) = s
    BY <2>1, MembersAll
  <2>3. s = Members(o, ToSet(s))
    BY <1>1, <2>2
  <2>4. AtFront /\ sel \in d.tags[sel] /\ "pad" \notin d.setup.keys => s = Members(o, HereOf(d))
    <3> SUFFICES ASSUME Shown(d) = Members(con, HereOf(d)) PROVE s = Members(o, HereOf(d))
      BY <1>0 DEF Shows, con
    <3>1. ToSet(s) = ToSet(con) \cap HereOf(d)
      BY <1>0, MembersSet
    <3>2. Members(o, HereOf(d)) = Members(s, HereOf(d))
      BY <1>1, <2>2, <3>1
    <3>3. Members(s, HereOf(d)) = s
      BY <3>1, MembersAll
    <3> QED BY <3>2, <3>3
  <2>5. e.con_set[e.selected] = o
    BY <1>0, <1>3, <1>4
  <2> QED BY <1>0, <1>3, <1>5, <2>3, <2>4, <2>5 DEF Shows
<1>11. Kin(d, e)
  BY <1>3, <1>5 DEF Kin
<1> QED BY <1>3, <1>5, <1>6, <1>7, <1>8, <1>9, <1>10, <1>11 DEF Sound, Base, e, m

\* tag_write_to_tags when nothing has changed
LEMMA WriteToTagsSound ==
  ASSUME NEW d, Sound(d)
  PROVE  LET e == WriteToTags(d)
         IN  /\ Sound(e) /\ Kin(d, e) /\ e.tag_id = d.tag_id /\ e.on_output = d.on_output
             /\ e.hidden = d.hidden /\ e.floating = d.floating
             /\ e.on_scratchpad = d.on_scratchpad
<1> DEFINE s == Shown(d)
           m == [d EXCEPT !.visible_con_set[d.selected] = s]
<1>1. d \in Desks /\ d.selected \in Tags /\ d.visible_con_set \in [Tags -> Seq(Windows)]
      /\ \A t \in Tags : IsInjective(d.visible_con_set[t])
  BY Fields DEF Sound, Base, Typed
<1>2. s \in Seq(Windows) /\ IsInjective(s)
  BY <1>1 DEF Shown
<1>3. m = d
  BY <1>1 DEF Desks, Shown
<1> HIDE DEF s
<1>4. LET e == WriteToTags(m)
      IN  /\ Sound(e) /\ Kin(d, e) /\ e.tag_id = d.tag_id /\ e.on_output = d.on_output
          /\ e.on_scratchpad = d.on_scratchpad /\ e.hidden = d.hidden /\ e.floating = d.floating
  BY <1>2, ReorderSound DEF s
<1> HIDE DEF m
<1> QED BY <1>3, <1>4

\* tag_write_to_focus_stacks
LEMMA WriteToFocusStacksSound ==
  ASSUME NEW d, Sound(d)
  PROVE  Sound(WriteToFocusStacks(d)) /\ OnlyFocus(d, WriteToFocusStacks(d))
<1> DEFINE sel == d.selected
           fs == d.focus_set[sel]
           o == WriteToParent(fs, d.visible_focus_set)
           e == WriteToFocusStacks(d)
<1>0. /\ Base(d) /\ d \in Desks /\ sel \in Tags /\ fs \in Seq(Windows) /\ IsInjective(fs)
      /\ d.visible_focus_set \in Seq(Windows) /\ IsInjective(d.visible_focus_set)
  BY Fields DEF Sound, Base, Typed
<1>1. o \in Seq(Windows) /\ IsInjective(o) /\ ToSet(o) = ToSet(fs)
  <2> HIDE DEF fs
  <2> QED BY <1>0, WrittenToParent
<1>2. e = [d EXCEPT !.focus_set[sel] = o]
  BY DEF WriteToFocusStacks
<1> HIDE DEF o, e
<1>3. /\ e \in Desks /\ e.focus_set = [d.focus_set EXCEPT ![sel] = o] /\ OnlyFocus(d, e)
      /\ e.visible_focus_set = d.visible_focus_set /\ e.keyboard = d.keyboard
  BY <1>0, <1>1, <1>2 DEF Desks, OnlyFocus, SameLists
<1>4. \A t \in Tags : e.focus_set[t] = IF t = sel THEN o ELSE d.focus_set[t]
  BY <1>0, <1>3, Fields
<1>5. SameLists(d, e)
  BY <1>3, SameTwice
<1>6. StacksOf(d, e)
  <2>1. \A t \in Tags : IsInjective(d.focus_set[t])
    BY <1>0 DEF Base, Typed
  <2>2. \A t \in Tags : IsInjective(e.focus_set[t]) /\ ToSet(e.focus_set[t]) = ToSet(d.focus_set[t])
    BY <1>0, <1>1, <1>4, <2>1
  <2>3. d.keyboard \in d.created \cup {None} /\ ToSet(d.visible_focus_set) \subseteq Listed(d)
    BY <1>0 DEF Base, Typed, Found
  <2> QED BY <1>0, <1>3, <2>2, <2>3 DEF StacksOf
<1>7. Sound(e)
  BY <1>0, <1>5, <1>6, SameBase, SameShows DEF Sound
<1> QED BY <1>3, <1>7 DEF e

\* container_fix_position
LEMMA FixPositionSound ==
  ASSUME NEW d, Sound(d), NEW w
  PROVE  LET e == FixPosition(d, w)
         IN  /\ Sound(e) /\ Kin(d, e) /\ e.tag_id = d.tag_id /\ e.on_output = d.on_output
             /\ e.hidden = d.hidden /\ e.floating = d.floating
             /\ e.on_scratchpad = d.on_scratchpad
<1> DEFINE m == WriteToTags(d)
           f == WriteToFocusStacks(m)
<1>1. /\ Sound(m) /\ Kin(d, m) /\ m.tag_id = d.tag_id /\ m.on_output = d.on_output
      /\ m.hidden = d.hidden /\ m.floating = d.floating /\ m.on_scratchpad = d.on_scratchpad
  BY WriteToTagsSound
<1> HIDE DEF m
<1>2. Sound(f) /\ OnlyFocus(m, f)
  BY <1>1, WriteToFocusStacksSound
<1>3. FixPosition(d, w) \in {d, f}
  BY DEF FixPosition, m
<1> HIDE DEF f
<1>4. Kin(d, f) /\ f.tag_id = d.tag_id /\ f.on_output = d.on_output
      /\ f.hidden = d.hidden /\ f.floating = d.floating /\ f.on_scratchpad = d.on_scratchpad
  <2>1. SameLists(m, f)
    BY <1>2, SameTwice
  <2>2. Kin(m, f)
    BY <2>1, KinTwice
  <2>3. Kin(d, f)
    BY <1>1, <2>2, KinTwice
  <2> QED BY <1>1, <1>2, <2>3 DEF OnlyFocus, SameLists
<1> QED BY <1>2, <1>3, <1>4, KinTwice

\* container_property_set_floating; a window that is not in the lists may start
\* to float but not become tiled.
LEMMA PropertySetFloatingSound ==
  ASSUME NEW d, Sound(d), NEW w \in Windows, NEW floating \in BOOLEAN,
         floating \/ w \in Listed(d)
  PROVE  LET e == PropertySetFloating(d, w, floating)
         IN  Sound(e) /\ Kin(d, e) /\ (~floating => w \notin e.on_scratchpad \/ d.tag_id[w] = INVALID_TAG_ID)
<1> DEFINE at == CurrentTag(d, w)
           away == d.tag_id[w] \notin d.on_output \/ w \in d.on_scratchpad
           f0 == [d.floating EXCEPT ![w] = @ \ {at}]
           f1 == [d.floating EXCEPT ![w] = @ \cup {at}]
           h1 == [d.hidden EXCEPT ![w] = @ \ {d.selected}]
           d0 == [d EXCEPT !.floating[w] = @ \ {at}]
           moved == IF away THEN SetTagId(d0, w, d.selected) ELSE d0
           e == PropertySetFloating(d, w, floating)
<1>0. /\ Base(d) /\ d \in Desks /\ d.selected \in Tags /\ d.tag_id \in [Windows -> Tags \cup {INVALID_TAG_ID}]
      /\ d.floating \in [Windows -> SUBSET Tags] /\ d.hidden \in [Windows -> SUBSET Tags]
  BY Fields DEF Sound, Base, Typed
<1>1. CASE at = INVALID_TAG_ID
  <2>1. e = d
    BY <1>1 DEF PropertySetFloating
  <2>2. d.tag_id[w] = INVALID_TAG_ID
    BY <1>0, <1>1, TagZero DEF CurrentTag
  <2> QED BY <2>1, <2>2, KinTwice
<1>2. CASE at # INVALID_TAG_ID
  <2>1. at \in Tags
    BY <1>0, <1>2 DEF CurrentTag
  <2>2. f0 \in [Windows -> SUBSET Tags] /\ f1 \in [Windows -> SUBSET Tags] /\ h1 \in [Windows -> SUBSET Tags]
    <3> HIDE DEF at
    <3> QED BY <1>0, <2>1
  <2>3. CASE floating
    <3>1. e = [d EXCEPT !.hidden = h1, !.floating = f1]
      <4>1. e = [[d EXCEPT !.floating[w] = @ \cup {at}] EXCEPT !.hidden[w] = @ \ {d.selected}]
        BY <1>2, <2>3 DEF PropertySetFloating
      <4> HIDE DEF at, e
      <4> QED BY <1>0, <4>1 DEF Desks
    <3> HIDE DEF h1, f1, e
    <3>2. Sound(e) /\ SameLists(d, e)
      BY <2>2, <3>1, HiddenSound
    <3> QED BY <2>3, <3>2, KinTwice DEF e
  <2>4. CASE ~floating
    <3>1. e = RemoveFromScratchpad(moved, w)
      BY <1>2, <2>4 DEF PropertySetFloating
    <3>2. d0 = [d EXCEPT !.hidden = d.hidden, !.floating = f0]
      <4> HIDE DEF at
      <4> QED BY <1>0 DEF Desks
    <3> HIDE DEF f0, d0, e, at
    <3>3. Sound(d0) /\ SameLists(d, d0)
      BY <1>0, <2>2, <3>2, HiddenSound
    <3>4. Listed(d0) = Listed(d) /\ d0.selected = d.selected /\ Kin(d, d0)
      BY <3>3, SameShows, KinTwice DEF SameLists
    <3>5. Sound(moved) /\ Kin(d, moved)
      <4>1. CASE away
        <5>1. w \in Listed(d0)
          BY <2>4, <3>4
        <5>2. Sound(SetTagId(d0, w, d.selected)) /\ Kin(d0, SetTagId(d0, w, d.selected))
          BY <1>0, <3>3, <5>1, SetTagIdSound
        <5>3. moved = SetTagId(d0, w, d.selected)
          BY <4>1
        <5> HIDE DEF moved
        <5> QED BY <3>4, <5>2, <5>3, KinTwice
      <4>2. CASE ~away
        BY <3>3, <3>4, <4>2
      <4> QED BY <4>1, <4>2
    <3> HIDE DEF moved
    <3>6. Sound(e) /\ Kin(moved, e) /\ w \notin e.on_scratchpad
      BY <3>1, <3>5, RemoveFromScratchpadSound
    <3> QED BY <3>5, <3>6, KinTwice DEF e
  <2> QED BY <2>3, <2>4
<1> QED BY <1>1, <1>2

\* container_set_floating
LEMMA SetFloatingSound ==
  ASSUME NEW d, Sound(d), NEW w \in Windows, NEW fix \in BOOLEAN, NEW floating \in BOOLEAN,
         floating \/ w \in Listed(d)
  PROVE  Sound(SetFloating(d, w, fix, floating)) /\ Kin(d, SetFloating(d, w, fix, floating))
<1> DEFINE m == IF fix THEN FixPosition(d, w) ELSE d
<1>1. Sound(m) /\ Kin(d, m)
  BY FixPositionSound, KinTwice
<1> HIDE DEF m
<1>2. floating \/ w \in Listed(m)
  BY <1>1 DEF Kin
<1>3. Sound(PropertySetFloating(m, w, floating)) /\ Kin(m, PropertySetFloating(m, w, floating))
  BY <1>1, <1>2, PropertySetFloatingSound
<1>4. SetFloating(d, w, fix, floating) \in {d, PropertySetFloating(m, w, floating)}
  BY DEF SetFloating, m
<1> QED BY <1>1, <1>3, <1>4, KinTwice

\* tagset_reload with a tag brings the lists of the selected tag up to date,
\* and update_reduced_focus_stack the stack.
LEMMA StackAfter ==
  ASSUME NEW d, Sound(d)
  PROVE  Sound(UpdateReducedFocusStack(d)) /\ Stacked(UpdateReducedFocusStack(d))
         /\ OnlyFocus(d, UpdateReducedFocusStack(d))
<1> DEFINE e == UpdateReducedFocusStack(d)
<1>1. Base(e) /\ OnlyFocus(d, e) /\ Stacked(e)
  BY UpdateStack DEF Sound
<1> HIDE DEF e
<1>2. SameLists(d, e)
  BY <1>1, SameTwice
<1>3. Sound(e)
  BY <1>1, <1>2, SameShows DEF Sound
<1> QED BY <1>1, <1>3 DEF e

-----------------------------------------------------------------------------
(* What is hidden after a handler *)

\* The tiled windows that the layout has a place for.
Fitting(d) == {TiledList(d)[i] : i \in {j \in DOMAIN TiledList(d) : j <= d.setup.areas}}
Tiled(d) == {w \in Windows : ~IsFloating(d, w)}

\* arrange_monitor: the tiled windows that fit are shown, the others hidden; and
\* the floating ones are shown.
LEMMA ArrangeHides ==
  ASSUME NEW d, Sound(d)
  PROVE  LET e == Arrange(d)
         IN  /\ \A w \in Fitting(d) \cap Windows : e.hidden[w] = d.hidden[w] \ {d.selected}
             /\ \A w \in Listed(d) : IsFloating(d, w) => e.hidden[w] = d.hidden[w] \ {d.selected}
             /\ \A w \in ToSet(TiledList(d)) \cap Tiled(d) :
                  w \notin Fitting(d) => e.hidden[w] = d.hidden[w] \cup {d.selected}
<1> DEFINE h == UpdateHidden(d)
           u == UpdateReducedFocusStack(h)
           e == Arrange(d)
           up == Fitting(d) \cup {w \in ToSet(d.con_set[d.selected]) : IsFloating(d, w)}
           hs == [w \in Windows |-> IF w \in up THEN d.hidden[w] \ {d.selected}
                      ELSE IF w \in ToSet(TiledList(d)) THEN d.hidden[w] \cup {d.selected} ELSE d.hidden[w]]
<1>0. /\ Base(d) /\ d \in Desks /\ d.selected \in Tags /\ d.hidden \in [Windows -> SUBSET Tags]
      /\ ToSet(d.con_set[d.selected]) = Listed(d) /\ Listed(d) \subseteq Windows
  BY Fields, ListedMapped DEF Sound, Base, Typed, Agree, Listed
<1>1. h.hidden = hs
  BY <1>0 DEF UpdateHidden, Desks, Fitting
<1>2. Sound(h) /\ SameLists(d, h)
  BY UpdateHiddenSound
<1> HIDE DEF h
<1>3. Sound(u) /\ Stacked(u) /\ OnlyFocus(h, u) /\ u.selected \in Tags
  BY <1>2, StackAfter, Fields DEF Sound, Base, Typed
<1>4. e = FocusMostRecent(u, u.selected)
  BY DEF Arrange, h
<1> HIDE DEF u, e
<1>5. OnlyFocus(u, e)
  BY <1>3, <1>4, FocusMostRecentSound DEF Refocuses
<1>6. e.hidden = hs
  BY <1>1, <1>3, <1>5 DEF OnlyFocus
<1>7. \A w \in Fitting(d) \cap Windows : e.hidden[w] = d.hidden[w] \ {d.selected}
  BY <1>6
<1>8. \A w \in Listed(d) : IsFloating(d, w) => e.hidden[w] = d.hidden[w] \ {d.selected}
  BY <1>0, <1>6
<1>9. ASSUME NEW w \in ToSet(TiledList(d)) \cap Tiled(d), w \notin Fitting(d)
      PROVE  e.hidden[w] = d.hidden[w] \cup {d.selected}
  <2>1. w \in Windows /\ w \notin up
    BY <1>9 DEF Tiled
  <2> HIDE DEF up
  <2> QED BY <1>6, <1>9, <2>1
<1> QED BY <1>7, <1>8, <1>9 DEF e

\* The tiled windows are those of the lists that do not float.
LEMMA TiledListIs ==
  ASSUME NEW d, Sound(d)
  PROVE  /\ TiledList(d) \in Seq(Windows) /\ IsInjective(TiledList(d))
         /\ ToSet(TiledList(d)) = ToSet(Shown(d)) \cap Tiled(d)
         /\ TiledList(d) = Members(Shown(d), Tiled(d))
         /\ Shown(d) \in Seq(Windows) /\ IsInjective(Shown(d))
<1>1. Shown(d) \in Seq(Windows) /\ IsInjective(Shown(d))
  BY Fields DEF Sound, Base, Typed, Shown
<1>2. TiledList(d) = Members(Shown(d), Tiled(d))
  BY DEF TiledList, Shown, Tiled
<1> QED BY <1>1, <1>2, MembersTyped, MembersOnce, MembersSet

\* What floats, and so what is tiled, depends on the lists and on what floats only.
LEMMA TiledSame ==
  ASSUME NEW d, NEW e, e.selected = d.selected, e.tags = d.tags, e.on_output = d.on_output,
         e.tag_id = d.tag_id, e.floating = d.floating
  PROVE  /\ \A w : IsFloating(e, w) = IsFloating(d, w) /\ CurrentTag(e, w) = CurrentTag(d, w)
         /\ Tiled(e) = Tiled(d) /\ HereOf(e) = HereOf(d)
         /\ Shown(e) = Shown(d) => TiledList(e) = TiledList(d)
<1>1. \A w : IsFloating(e, w) = IsFloating(d, w) /\ CurrentTag(e, w) = CurrentTag(d, w)
  BY DEF IsFloating, CurrentTag, ExistsOn
<1>2. HereOf(e) = HereOf(d)
  BY DEF HereOf, ExistsOn
<1>3. Tiled(e) = Tiled(d)
  BY <1>1 DEF Tiled
<1> QED BY <1>1, <1>2, <1>3 DEF TiledList, Shown, Tiled

\* The properties of a window that the selected tag shows are those at that tag.
LEMMA ShownAt ==
  ASSUME NEW d, Sound(d), NEW w \in ToSet(Shown(d))
  PROVE  CurrentTag(d, w) = d.selected
<1>1. w \in HereOf(d) \/ d.tag_id[w] = d.selected
  BY DEF Sound, Shows
<1> QED BY <1>1 DEF HereOf, CurrentTag

\* The selected tag hides the tiled windows that do not fit, and no others.
InPlace(d) ==
  \A w \in ToSet(Shown(d)) :
    d.selected \in d.hidden[w] <=> w \in ToSet(TiledList(d)) \ Fitting(d)

\* New windows go to the front, nobody has a scratchpad, and nobody both swaps
\* tags and brings hidden windows, see the README.
Simple(d) == AtFront /\ "pad" \notin d.setup.keys /\ ~({"swap", "order"} \subseteq d.setup.keys)

\* Then what is hidden is up to date after every handler.
Steady(d) == Simple(d) /\ d.selected \in d.tags[d.selected] => InPlace(d)

\* arrange_monitor makes it so.
LEMMA ArrangePlaces ==
  ASSUME NEW d, Sound(d) PROVE InPlace(Arrange(d))
<1> DEFINE e == Arrange(d)
<1>1. Sound(e) /\ SameLists(d, e) /\ e.floating = d.floating
  BY ArrangeSound DEF Arranged
<1>2. /\ \A w \in Fitting(d) \cap Windows : e.hidden[w] = d.hidden[w] \ {d.selected}
      /\ \A w \in Listed(d) : IsFloating(d, w) => e.hidden[w] = d.hidden[w] \ {d.selected}
      /\ \A w \in ToSet(TiledList(d)) \cap Tiled(d) :
           w \notin Fitting(d) => e.hidden[w] = d.hidden[w] \cup {d.selected}
  BY ArrangeHides
<1> HIDE DEF e
<1>3. e.selected = d.selected /\ Shown(e) = Shown(d) /\ e.setup = d.setup
  BY <1>1, SameShows DEF SameLists
<1>4. TiledList(e) = TiledList(d) /\ Fitting(e) = Fitting(d)
  BY <1>1, <1>3, TiledSame DEF SameLists, Fitting
<1>5. /\ ToSet(TiledList(d)) = ToSet(Shown(d)) \cap Tiled(d) /\ ToSet(Shown(d)) \subseteq Windows
      /\ ToSet(Shown(d)) \subseteq Listed(d)
  BY TiledListIs, Elements DEF Sound, Shows
<1> SUFFICES ASSUME NEW w \in ToSet(Shown(d))
             PROVE  d.selected \in e.hidden[w] <=> w \in ToSet(TiledList(d)) \ Fitting(d)
  BY <1>3, <1>4 DEF InPlace, e
<1>6. CASE w \in Fitting(d)
  BY <1>2, <1>5, <1>6
<1>7. CASE w \notin Fitting(d) /\ w \in Tiled(d)
  BY <1>2, <1>5, <1>7
<1>8. CASE w \notin Fitting(d) /\ w \notin Tiled(d)
  BY <1>2, <1>5, <1>8 DEF Tiled
<1> QED BY <1>6, <1>7, <1>8

\* A change of what the question does not ask about
LEMMA SteadySame ==
  ASSUME NEW d, NEW e, e.selected = d.selected, e.tags = d.tags, e.on_output = d.on_output,
         e.tag_id = d.tag_id, e.floating = d.floating, e.hidden = d.hidden, e.setup = d.setup,
         Shown(e) = Shown(d), Steady(d)
  PROVE  Steady(e)
<1>1. TiledList(e) = TiledList(d)
  BY TiledSame
<1>2. InPlace(d) => InPlace(e)
  BY <1>1 DEF InPlace, Fitting
<1> QED BY <1>2 DEF Steady, Simple

\* The focus does not matter.
LEMMA SteadyFocus ==
  ASSUME NEW d, NEW e, OnlyFocus(d, e), Steady(d) PROVE Steady(e)
<1>1. Shown(e) = Shown(d) /\ e.hidden = d.hidden /\ e.floating = d.floating
  BY SameTwice, SameShows DEF OnlyFocus
<1>2. /\ e.selected = d.selected /\ e.tags = d.tags /\ e.on_output = d.on_output
      /\ e.tag_id = d.tag_id /\ e.setup = d.setup
  BY DEF OnlyFocus, SameLists
<1> QED BY <1>1, <1>2, SteadySame

-----------------------------------------------------------------------------
(* Windows come and go *)

\* What holds after every handler.
Good(d) == Sound(d) /\ Stacked(d) /\ Keyed(d) /\ Steady(d)

\* A window that is not in the lists changes what it likes.
Elsewhere(d, e, w) ==
  /\ e.setup = d.setup /\ e.mapped = d.mapped /\ e.selected = d.selected /\ e.tags = d.tags
  /\ e.on_output = d.on_output /\ e.con_set = d.con_set /\ e.focus_set = d.focus_set
  /\ e.visible_focus_set = d.visible_focus_set
  /\ e.scratchpad = d.scratchpad /\ e.on_scratchpad = d.on_scratchpad /\ e.fault = d.fault
  /\ \A v \in Windows \ {w} : /\ e.tag_id[v] = d.tag_id[v] /\ e.hidden[v] = d.hidden[v]
                              /\ e.floating[v] = d.floating[v]
  /\ e.keyboard = d.keyboard \/ d.keyboard = w

\* Such a change keeps the invariant of the handlers.
LEMMA ElsewhereGood ==
  ASSUME NEW d, NEW e, Good(d), Sound(e), NEW w \in Windows \ Listed(d), Elsewhere(d, e, w)
  PROVE  Good(e)
<1> DEFINE fs == d.focus_set[d.selected]
<1>0. Base(d) /\ d \in Desks /\ d.selected \in Tags /\ Stacked(d) /\ Keyed(d)
  BY Fields DEF Good, Sound, Base, Typed
<1>1. fs \in Seq(Windows) /\ ToSet(fs) = Listed(d)
  BY <1>0, Fields DEF Base, Agree, Listed
<1>2. \A v \in Windows \ {w} : v \in HereOf(e) <=> v \in HereOf(d)
  BY DEF HereOf, ExistsOn, Elsewhere
<1>3. HereOf(e) \subseteq Windows /\ HereOf(d) \subseteq Windows
  BY DEF HereOf
<1>4. ToSet(fs) \cap HereOf(e) = ToSet(fs) \cap HereOf(d)
  BY <1>1, <1>2, <1>3
<1>5. Members(fs, HereOf(e)) = Members(fs, HereOf(d))
  <2> HIDE DEF fs
  <2> QED BY <1>1, <1>4, MembersSame
<1>6. Stacked(e)
  <2>1. InStack(e)
    BY <1>0, <1>5 DEF Stacked, InStack, Elsewhere
  <2>2. \A v \in Windows \ {w} : v \in InSight(e) <=> v \in InSight(d)
    BY DEF InSight, Viewable, PotentiallyViewable, IsFloating, GetHidden, CurrentTag, ExistsOn, Elsewhere
  <2>3. ToSet(d.visible_focus_set) \subseteq Windows \ {w}
    BY <1>0, ListedMapped, Fields DEF Base, Found
  <2>4. Seen(e)
    BY <1>0, <2>2, <2>3 DEF Stacked, Seen, Elsewhere
  <2> QED BY <2>1, <2>4 DEF Stacked
<1>7. Keyed(e)
  <2>1. Focused(e) = Focused(d)
    BY DEF Focused, Elsewhere
  <2>2. Focused(d) # None => Focused(d) \in Windows \ {w}
    BY <1>0, FocusedOf, ListedMapped
  <2>3. Focused(d) # None => Viewable(e, Focused(d)) = Viewable(d, Focused(d))
    BY <2>2 DEF Viewable, PotentiallyViewable, IsFloating, GetHidden, CurrentTag, ExistsOn, Elsewhere
  <2> QED BY <1>0, <2>1, <2>2, <2>3 DEF Keyed, Elsewhere
<1>8. Steady(e)
  <2> SUFFICES ASSUME Simple(d), d.selected \in d.tags[d.selected], InPlace(d) PROVE InPlace(e)
    BY DEF Steady, Simple, Elsewhere, Good
  <2> DEFINE all == d.con_set[d.selected]
             p == Shown(d)
             q == TiledList(d)
  <2>1. all \in Seq(Windows) /\ ToSet(all) = Listed(d)
    BY <1>0, Fields DEF Base, Agree, Listed
  <2>2. Shown(e) = Members(all, HereOf(e)) /\ p = Members(all, HereOf(d))
    BY DEF Good, Sound, Shows, Simple, Elsewhere
  <2>3. Shown(e) = p
    <3>1. ToSet(all) \cap HereOf(e) = ToSet(all) \cap HereOf(d)
      BY <1>2, <1>3, <2>1
    <3> HIDE DEF all, p
    <3> QED BY <2>1, <2>2, <3>1, MembersSame
  <2>4. p \in Seq(Windows) /\ ToSet(p) \subseteq Windows \ {w}
    <3>1. p \in Seq(Windows) /\ ToSet(p) \subseteq Windows
      BY TiledListIs, Elements DEF Good
    <3> QED BY <3>1 DEF Good, Sound, Shows
  <2>5. \A v \in Windows \ {w} : IsFloating(e, v) = IsFloating(d, v)
    BY DEF IsFloating, CurrentTag, ExistsOn, Elsewhere
  <2>6. TiledList(e) = q
    <3>1. TiledList(e) = Members(p, Tiled(e)) /\ q = Members(p, Tiled(d))
      BY <2>3, TiledListIs DEF Good
    <3>2. ToSet(p) \cap Tiled(e) = ToSet(p) \cap Tiled(d)
      BY <2>4, <2>5 DEF Tiled
    <3> HIDE DEF p, q
    <3> QED BY <2>4, <3>1, <3>2, MembersSame
  <2>7. Fitting(e) = Fitting(d)
    BY <2>6 DEF Fitting, Elsewhere
  <2> QED BY <2>3, <2>4, <2>6, <2>7 DEF InPlace, Elsewhere
<1> QED BY <1>6, <1>7, <1>8 DEF Good

\* The lists a new desk starts with.
LEMMA InitGood ==
  ASSUME Init PROVE Good(desk)
<1>1. PICK s \in Setups :
        desk = [setup |-> s,
          created |-> {}, mapped |-> {},
          selected |-> 0, tags |-> [t \in Tags |-> {t}], on_output |-> {0},
          tag_id |-> [w \in Windows |-> 0],
          floating |-> [w \in Windows |-> {}], hidden |-> [w \in Windows |-> {}],
          on_scratchpad |-> {}, scratchpad |-> <<>>,
          con_set |-> [t \in Tags |-> <<>>], visible_con_set |-> [t \in Tags |-> <<>>],
          focus_set |-> [t \in Tags |-> <<>>], visible_focus_set |-> <<>>,
          keyboard |-> None, grab_c |-> None, fault |-> "none"]
  BY DEF Init
<1>2. <<>> \in Seq(Windows) /\ IsInjective(<<>>) /\ ToSet(<<>>) = {} /\ \A S : Members(<<>>, S) = <<>>
  BY OnceEach, Elements, MembersEmpty
<1>3. desk \in Desks
  BY <1>1, <1>2, TagZero DEF Desks
<1>4. \A t \in Tags : desk.con_set[t] = <<>> /\ desk.visible_con_set[t] = <<>> /\ desk.focus_set[t] = <<>>
  BY <1>1
<1>5. /\ desk.created = {} /\ desk.mapped = {} /\ desk.selected = 0 /\ desk.on_output = {0}
      /\ desk.tag_id = [w \in Windows |-> 0] /\ desk.on_scratchpad = {} /\ desk.scratchpad = <<>>
      /\ desk.visible_focus_set = <<>> /\ desk.keyboard = None /\ desk.grab_c = None
      /\ desk.tags[0] = {0}
  BY <1>1, TagZero
<1>6. Typed(desk)
  BY <1>2, <1>3, <1>4, <1>5 DEF Typed
<1>7. Agree(desk)
  BY <1>2, <1>4, <1>5, TagZero DEF Agree
<1>8. Listed(desk) = {} /\ Shown(desk) = <<>>
  BY <1>2, <1>4, <1>5, TagZero DEF Listed, Shown
<1>9. Padded(desk) /\ Found(desk)
  BY <1>2, <1>5, <1>8 DEF Padded, Found
<1>10. Placed(desk)
  BY <1>4, <1>5, TagZero DEF Placed
<1>11. Shows(desk)
  BY <1>2, <1>4, <1>5, <1>8, TagZero DEF Shows
<1>12. Stacked(desk)
  BY <1>2, <1>4, <1>5, TagZero DEF Stacked, InStack, Seen
<1>13. Keyed(desk)
  BY <1>5 DEF Keyed, Focused, First
<1>14. Steady(desk)
  BY <1>2, <1>8 DEF Steady, InPlace
<1> QED BY <1>6, <1>7, <1>9, <1>10, <1>11, <1>12, <1>13, <1>14 DEF Good, Sound, Base

\* create_container
LEMMA CreateGood ==
  ASSUME Good(desk), NEW w \in Windows, Create(w) PROVE Good(desk')
<1> DEFINE d == desk
           m == [d EXCEPT !.created = @ \cup {w}]
           e == SetTagId(m, w, d.selected)
<1>0. /\ Sound(d) /\ Base(d) /\ Shows(d) /\ d \in Desks /\ d.selected \in Tags /\ w \notin d.created
      /\ d.created \subseteq Windows /\ d.selected \in d.on_output
  BY Fields DEF Good, Sound, Base, Typed, Placed, Create
<1>1. desk' = e
  BY DEF Create
<1>2. /\ m \in Desks /\ m.created = d.created \cup {w} /\ m.setup = d.setup /\ m.mapped = d.mapped
      /\ m.selected = d.selected /\ m.tags = d.tags /\ m.on_output = d.on_output /\ m.tag_id = d.tag_id
      /\ m.on_scratchpad = d.on_scratchpad /\ m.scratchpad = d.scratchpad /\ m.con_set = d.con_set
      /\ m.visible_con_set = d.visible_con_set /\ m.focus_set = d.focus_set
      /\ m.visible_focus_set = d.visible_focus_set /\ m.keyboard = d.keyboard /\ m.grab_c = d.grab_c
      /\ m.fault = d.fault /\ m.hidden = d.hidden /\ m.floating = d.floating
  BY <1>0 DEF Desks
<1> HIDE DEF m
<1>3. Sound(m)
  <2>1. Listed(m) = Listed(d) /\ Shown(m) = Shown(d) /\ HereOf(m) = HereOf(d)
    BY <1>2 DEF Listed, Shown, HereOf, ExistsOn
  <2>2. Typed(m) /\ Agree(m)
    BY <1>0, <1>2 DEF Base, Typed, Agree
  <2>3. Padded(m) /\ Found(m) /\ Placed(m)
    BY <1>0, <1>2, <2>1 DEF Base, Padded, Found, Placed
  <2>4. Shows(m)
    BY <1>0, <1>2, <2>1 DEF Shows
  <2> QED BY <2>2, <2>3, <2>4 DEF Sound, Base
<1>4. d.mapped \subseteq d.created /\ Listed(d) \subseteq d.mapped
  BY <1>0, ListedMapped
<1>5. /\ Sound(e) /\ Kin(m, e) /\ e.tag_id = [m.tag_id EXCEPT ![w] = d.selected]
      /\ e.on_output = m.on_output \cup {d.selected} /\ e.hidden = m.hidden /\ e.floating = m.floating
      /\ e.visible_focus_set = m.visible_focus_set /\ e.focus_set = m.focus_set
      /\ e.keyboard = m.keyboard /\ e.fault = m.fault
  BY <1>0, <1>2, <1>3, <1>4, SetTagIdSound
<1>6. e.con_set = m.con_set /\ e.scratchpad = m.scratchpad /\ e.on_scratchpad = m.on_scratchpad
  <2> DEFINE n == [m EXCEPT !.tag_id[w] = d.selected, !.on_output = @ \cup {d.selected}]
             s == Members(n.con_set[n.selected], {v \in Windows : ExistsOn(n, n.selected, v)})
  <2>1. e = n \/ e = [n EXCEPT !.visible_con_set[n.selected] = s]
    BY DEF Reload, SetTagId
  <2> HIDE DEF s, e
  <2> QED BY <1>2, <2>1 DEF Desks
<1> HIDE DEF e
<1>7. \A v \in Windows \ {w} : e.tag_id[v] = d.tag_id[v]
  BY <1>2, <1>5, Fields
<1>8. Elsewhere(d, e, w)
  BY <1>0, <1>2, <1>5, <1>6, <1>7 DEF Elsewhere, Kin
<1> QED BY <1>0, <1>1, <1>4, <1>5, <1>8, ElsewhereGood

\* destroy_container
LEMMA DestroyGood ==
  ASSUME Good(desk), NEW w \in Windows, Destroy(w) PROVE Good(desk')
<1> DEFINE d == desk
           e == [d EXCEPT !.created = @ \ {w},
                          !.tag_id[w] = 0, !.floating[w] = {}, !.hidden[w] = {},
                          !.keyboard = IF @ = w THEN None ELSE @,
                          !.grab_c = IF @ = w THEN None ELSE @]
<1>0. /\ Sound(d) /\ Base(d) /\ Shows(d) /\ d \in Desks /\ d.selected \in Tags /\ w \notin d.mapped
      /\ d.created \subseteq Windows
      /\ d.tag_id \in [Windows -> Tags \cup {INVALID_TAG_ID}] /\ d.mapped \subseteq d.created
      /\ d.con_set[d.selected] \in Seq(Windows)
  BY Fields DEF Good, Sound, Base, Typed, Destroy
<1>1. desk' = e
  BY DEF Destroy
<1>2. /\ e \in Desks /\ e.created = d.created \ {w} /\ e.tag_id = [d.tag_id EXCEPT ![w] = 0]
      /\ e.setup = d.setup /\ e.mapped = d.mapped
      /\ e.selected = d.selected /\ e.tags = d.tags /\ e.on_output = d.on_output
      /\ e.on_scratchpad = d.on_scratchpad /\ e.scratchpad = d.scratchpad /\ e.con_set = d.con_set
      /\ e.visible_con_set = d.visible_con_set /\ e.focus_set = d.focus_set
      /\ e.visible_focus_set = d.visible_focus_set
      /\ e.keyboard = (IF d.keyboard = w THEN None ELSE d.keyboard)
      /\ e.grab_c = (IF d.grab_c = w THEN None ELSE d.grab_c)
      /\ e.fault = d.fault
      /\ \A v \in Windows \ {w} : e.hidden[v] = d.hidden[v] /\ e.floating[v] = d.floating[v]
  BY <1>0, TagZero DEF Desks
<1> HIDE DEF e
<1>3. \A v \in Windows \ {w} : e.tag_id[v] = d.tag_id[v]
  BY <1>0, <1>2
<1>4. Listed(e) = Listed(d) /\ Shown(e) = Shown(d) /\ Listed(d) \subseteq d.mapped
  BY <1>0, <1>2, ListedMapped DEF Listed, Shown
<1>5. \A v \in Windows \ {w} : v \in HereOf(e) <=> v \in HereOf(d)
  BY <1>2, <1>3 DEF HereOf, ExistsOn
<1>6. Typed(e) /\ Agree(e)
  BY <1>0, <1>2 DEF Base, Typed, Agree
<1>7. Padded(e) /\ Found(e)
  BY <1>0, <1>2, <1>3, <1>4 DEF Base, Padded, Found
<1>8. Placed(e)
  <2>1. d.tag_id \in [Windows -> Tags] => e.tag_id \in [Windows -> Tags]
    BY <1>2, TagZero
  <2>2. \A v \in Windows : e.tag_id[v] = IF v = w THEN 0 ELSE d.tag_id[v]
    BY <1>0, <1>2
  <2> QED BY <1>0, <1>2, <2>1, <2>2 DEF Base, Placed
<1>9. Shows(e)
  <2>1. ToSet(Shown(d)) \subseteq Windows \ {w}
    BY <1>0, <1>4 DEF Shows
  <2>2. ToSet(d.con_set[d.selected]) = Listed(d)
    BY <1>0 DEF Base, Agree, Listed
  <2>3. ToSet(d.con_set[d.selected]) \cap HereOf(e) = ToSet(d.con_set[d.selected]) \cap HereOf(d)
    BY <1>0, <1>4, <1>5, <2>2
  <2>4. Members(d.con_set[d.selected], HereOf(e)) = Members(d.con_set[d.selected], HereOf(d))
    BY <1>0, <2>3, MembersSame
  <2> QED BY <1>0, <1>2, <1>3, <1>4, <1>5, <2>1, <2>4 DEF Shows
<1>10. Sound(e)
  BY <1>6, <1>7, <1>8, <1>9 DEF Sound, Base
<1>11. Elsewhere(d, e, w)
  BY <1>2, <1>3 DEF Elsewhere
<1>12. w \in Windows \ Listed(d)
  BY <1>0, <1>4
<1> QED BY <1>1, <1>10, <1>11, <1>12, ElsewhereGood

-----------------------------------------------------------------------------
(* How handlers end *)

\* arrange_monitor puts right whatever the focus was.
LEMMA ArrangeGood ==
  ASSUME NEW d, Sound(d)
  PROVE  Good(Arrange(d)) /\ Sound(Arrange(d)) /\ Kin(d, Arrange(d)) /\ SameLists(d, Arrange(d))
<1>1. Arranged(d, Arrange(d))
  BY ArrangeSound
<1>2. SameLists(d, Arrange(d)) /\ Good(Arrange(d)) /\ Sound(Arrange(d))
  BY <1>1, ArrangePlaces DEF Arranged, Good, Steady
<1> QED BY <1>2, KinTwice

\* tag_focus_most_recent_container at the end of a handler
LEMMA FocusMostRecentGood ==
  ASSUME NEW d, Sound(d), Stacked(d), Steady(d),
         NEW t \in Tags \cup {INVALID_TAG_ID}, Keyed(d) \/ t = d.selected
  PROVE  Good(FocusMostRecent(d, t)) /\ OnlyFocus(d, FocusMostRecent(d, t))
<1>1. Refocuses(d, FocusMostRecent(d, t), t)
  BY FocusMostRecentSound
<1>2. Steady(FocusMostRecent(d, t))
  BY <1>1, SteadyFocus DEF Refocuses
<1> QED BY <1>1, <1>2 DEF Refocuses, Good

\* tag_focus_container, for a window of the lists, keeps the lists sound.
LEMMA FocusListed ==
  ASSUME NEW d, Sound(d), NEW w \in Listed(d)
  PROVE  Sound(FocusContainer(d, d.selected, w)) /\ OnlyFocus(d, FocusContainer(d, d.selected, w))
         /\ Focuses(d, FocusContainer(d, d.selected, w), d.selected, w)
<1> DEFINE e == FocusContainer(d, d.selected, w)
<1>1. Base(d) /\ Shows(d) /\ d.selected \in Tags /\ w \in Windows
  BY Fields, ListedMapped DEF Sound, Base, Typed
<1>2. Focuses(d, e, d.selected, w)
  BY <1>1, FocusContainerSound
<1> HIDE DEF e
<1>3. Base(e) /\ OnlyFocus(d, e) /\ SameLists(d, e)
  BY <1>2, SameTwice DEF Focuses
<1>4. Shows(e)
  BY <1>1, <1>3, SameShows
<1> QED BY <1>2, <1>3, <1>4 DEF Sound, e

\* And the focus, if the window is one that the tag shows.
LEMMA FocusGood ==
  ASSUME NEW d, Good(d), NEW w \in Listed(d),
         d.selected \in d.tags[d.selected] => w \in InSight(d)
  PROVE  Good(FocusContainer(d, d.selected, w))
<1> DEFINE e == FocusContainer(d, d.selected, w)
           sel == d.selected
<1>1. Sound(d) /\ Stacked(d) /\ Keyed(d) /\ Base(d) /\ sel \in Tags /\ sel \in d.on_output
      /\ d.focus_set[sel] \in Seq(Windows) /\ ToSet(d.focus_set[sel]) = Listed(d)
  BY Fields DEF Good, Sound, Base, Typed, Placed, Agree, Listed
<1>2. Sound(e) /\ OnlyFocus(d, e) /\ Focuses(d, e, sel, w)
  BY <1>1, FocusListed
<1> HIDE DEF e
<1>3. Keyed(e) /\ Steady(e)
  BY <1>1, <1>2, SteadyFocus DEF Focuses, Good
<1>4. CASE sel \in d.tags[sel] /\ d.tags[sel] \subseteq d.on_output
  <2>1. ToSet(d.visible_focus_set) = ToSet(d.focus_set[sel]) \cap HereOf(d)
    <3>1. d.visible_focus_set = Members(d.focus_set[sel], HereOf(d))
      BY <1>1, <1>4 DEF Stacked, InStack
    <3> QED BY <1>1, <3>1, MembersSet
  <2>2. w \in ToSet(d.visible_focus_set)
    <3>1. w \in HereOf(d)
      BY <1>4 DEF InSight, Viewable, PotentiallyViewable, HereOf, ExistsOn
    <3> QED BY <1>1, <2>1, <3>1
  <2>3. Stacked(e)
    BY <1>1, <1>2, <2>2 DEF Focuses
  <2> QED BY <1>2, <1>3, <2>3 DEF Good, e
<1>5. CASE ~(sel \in d.tags[sel] /\ d.tags[sel] \subseteq d.on_output)
  <2>1. Stacked(e)
    <3>1. InStack(e)
      BY <1>2, <1>5 DEF OnlyFocus, SameLists, InStack
    <3>2. InSight(e) = InSight(d) /\ e.selected = sel /\ e.tags = d.tags
      BY <1>2, SameSight DEF OnlyFocus, SameLists
    <3>3. Seen(e)
      BY <1>1, <1>2, <3>2 DEF Focuses, Seen, Stacked
    <3> QED BY <3>1, <3>3 DEF Stacked
  <2> QED BY <1>2, <1>3, <2>1 DEF Good, e
<1> QED BY <1>4, <1>5

\* A window that can be seen has a tag that the selected one shows.
LEMMA ViewableHere ==
  ASSUME NEW d, NEW w \in Windows, Viewable(d, w)
  PROVE  w \in InSight(d) /\ d.tag_id[w] \in d.tags[d.selected]
BY DEF Viewable, PotentiallyViewable, InSight, ExistsOn

\* A mapped window that can be seen is in the lists.
LEMMA ViewableListed ==
  ASSUME NEW d, Base(d), NEW w \in d.mapped, Viewable(d, w)
  PROVE  w \in Listed(d)
<1>1. d \in Desks /\ d.selected \in Tags /\ d.tags \in [Tags -> SUBSET Tags] /\ w \in Windows
  BY Fields DEF Base, Typed
<1>2. d.tag_id[w] \in Tags
  BY <1>1, ViewableHere
<1> QED BY <1>2, TagZero DEF Base, Found

-----------------------------------------------------------------------------
(* The handlers *)

\* lib_container_focus, sloppy focus
LEMMA FocusWindowGood ==
  ASSUME Good(desk), NEW w \in Windows, FocusWindow(w) PROVE Good(desk')
<1>1. w \in desk.mapped /\ Viewable(desk, w) /\ desk' = FocusContainer(desk, desk.selected, w)
  BY DEF FocusWindow
<1>2. Base(desk)
  BY DEF Good, Sound
<1>3. w \in Listed(desk)
  BY <1>1, <1>2, ViewableListed
<1>4. w \in InSight(desk)
  BY <1>1, ViewableHere
<1> QED BY <1>1, <1>3, <1>4, FocusGood

\* lib_arrange, lib_toggle_view
LEMMA ArrangeAgainGood ==
  ASSUME Good(desk), ArrangeAgain PROVE Good(desk')
<1>1. Sound(desk) /\ Stacked(desk) /\ desk.selected \in Tags
  BY Fields DEF Good, Sound, Base, Typed
<1>2. Good(Arrange(desk))
  BY <1>1, ArrangeGood
<1>3. Sound(FocusMostRecent(desk, desk.selected))
  BY <1>1, FocusMostRecentGood DEF Good
<1>4. Good(Arrange(FocusMostRecent(desk, desk.selected)))
  BY <1>3, ArrangeGood
<1> QED BY <1>2, <1>4 DEF ArrangeAgain

\* lib_container_property_set_floating
LEMMA ToggleFloatingGood ==
  ASSUME Good(desk), ToggleFloating PROVE Good(desk')
<1> DEFINE w == Focused(desk)
           f == ~IsFloating(desk, w)
           e == PropertySetFloating(desk, w, f)
<1>1. Sound(desk) /\ Base(desk)
  BY DEF Good, Sound
<1>2. w \in Listed(desk) /\ w \in Windows
  BY <1>1, FocusedOf, ListedMapped DEF ToggleFloating
<1>3. f \in BOOLEAN
  OBVIOUS
<1>4. desk' = Arrange(e)
  BY DEF ToggleFloating
<1> HIDE DEF w, f
<1>5. Sound(e)
  BY <1>1, <1>2, <1>3, PropertySetFloatingSound
<1> QED BY <1>4, <1>5, ArrangeGood

\* What is dragged is nobody else's business.
LEMMA GrabbedGood ==
  ASSUME NEW d, Good(d), NEW w \in d.created \cup {None}
  PROVE  Good([d EXCEPT !.grab_c = w])
<1> DEFINE e == [d EXCEPT !.grab_c = w]
<1>0. Sound(d) /\ Base(d) /\ Shows(d) /\ Stacked(d) /\ Keyed(d) /\ d \in Desks /\ d.created \subseteq Windows
  BY Fields DEF Good, Sound, Base, Typed
<1>1. /\ e \in Desks /\ e.setup = d.setup /\ e.created = d.created /\ e.mapped = d.mapped
      /\ e.selected = d.selected /\ e.tags = d.tags /\ e.on_output = d.on_output
      /\ e.tag_id = d.tag_id /\ e.con_set = d.con_set /\ e.visible_con_set = d.visible_con_set
      /\ e.on_scratchpad = d.on_scratchpad /\ e.scratchpad = d.scratchpad
      /\ e.focus_set = d.focus_set /\ e.visible_focus_set = d.visible_focus_set
      /\ e.keyboard = d.keyboard /\ e.grab_c = w /\ e.fault = d.fault
      /\ e.hidden = d.hidden /\ e.floating = d.floating
  BY <1>0 DEF Desks
<1> HIDE DEF e
<1>2. Listed(e) = Listed(d) /\ Shown(e) = Shown(d) /\ HereOf(e) = HereOf(d)
  BY <1>1 DEF Listed, Shown, HereOf, ExistsOn
<1>3. Typed(e) /\ Agree(e)
  BY <1>0, <1>1 DEF Base, Typed, Agree
<1>4. Padded(e) /\ Found(e) /\ Placed(e)
  BY <1>0, <1>1, <1>2 DEF Base, Padded, Found, Placed
<1>5. Shows(e)
  BY <1>0, <1>1, <1>2 DEF Shows
<1>6. Stacked(e)
  BY <1>0, <1>1, <1>2 DEF Stacked, InStack, Seen, InSight, Viewable, PotentiallyViewable, IsFloating, GetHidden, CurrentTag, ExistsOn
<1>7. Keyed(e)
  BY <1>0, <1>1 DEF Keyed, Focused, Viewable, PotentiallyViewable, IsFloating, GetHidden, CurrentTag, ExistsOn
<1>8. Steady(e)
  BY <1>1, <1>2, SteadySame DEF Good
<1> QED BY <1>3, <1>4, <1>5, <1>6, <1>7, <1>8 DEF Good, Sound, Base, e

\* move_resize
LEMMA GrabGood ==
  ASSUME Good(desk), NEW w \in Windows, Grab(w) PROVE Good(desk')
<1> DEFINE e == SetFloating(desk, w, TRUE, TRUE)
           a == Arrange(e)
<1>1. Sound(desk) /\ Base(desk)
  BY DEF Good, Sound
<1>2. w \in desk.created
  BY <1>1, ListedMapped DEF Grab
<1>3. Sound(e) /\ Kin(desk, e)
  BY <1>1, SetFloatingSound
<1>4. desk' = [a EXCEPT !.grab_c = w]
  BY DEF Grab
<1> HIDE DEF e
<1>5. Good(a) /\ Kin(e, a)
  BY <1>3, ArrangeGood
<1>6. w \in a.created
  BY <1>2, <1>3, <1>5 DEF Kin
<1> HIDE DEF a
<1> QED BY <1>4, <1>5, <1>6, GrabbedGood

\* move_container
LEMMA DragGood ==
  ASSUME Good(desk), Drag PROVE Good(desk')
<1> DEFINE w == desk.grab_c
           d == RemoveFromScratchpad(desk, w)
           e == SetFloating(d, w, TRUE, TRUE)
<1>1. Sound(desk) /\ Base(desk) /\ desk \in Desks
  BY DEF Good, Sound, Base, Typed
<1>2. w \in Windows
  BY <1>1, Fields DEF Drag
<1>3. desk' \in {d, Arrange(e)}
  BY DEF Drag
<1> HIDE DEF w
<1>4. Sound(d) /\ (Stacked(desk) => Stacked(d)) /\ (Keyed(desk) => Keyed(d))
  BY <1>1, RemoveFromScratchpadSound
<1>5. Good(d)
  <2>1. Steady(d)
    BY <1>1, RemoveFromScratchpadSound, SteadySame DEF Kin, Shown, Good
  <2> QED BY <1>4, <2>1 DEF Good
<1> HIDE DEF d
<1>6. Sound(e)
  BY <1>2, <1>4, SetFloatingSound
<1> QED BY <1>3, <1>5, <1>6, ArrangeGood

\* handle_cursor_button
LEMMA ReleaseGood ==
  ASSUME Good(desk), Release PROVE Good(desk')
BY GrabbedGood DEF Release

\* tagset_reload finds nothing new when what the tag shows is up to date.
LEMMA ReloadSteady ==
  ASSUME NEW d, Sound(d), Steady(d), NEW t PROVE Steady(Reload(d, t))
<1> DEFINE e == Reload(d, t)
           s == Members(d.con_set[d.selected], {w \in Windows : ExistsOn(d, d.selected, w)})
<1>0. d \in Desks /\ d.selected \in Tags /\ d.visible_con_set \in [Tags -> Seq(Windows)]
  BY Fields DEF Sound, Base, Typed
<1>1. e = d \/ e = [d EXCEPT !.visible_con_set[d.selected] = s]
  BY DEF Reload
<1>2. s = Members(d.con_set[d.selected], HereOf(d))
  BY DEF HereOf
<1> HIDE DEF s, e
<1>3. /\ e.setup = d.setup /\ e.selected = d.selected /\ e.tags = d.tags /\ e.on_output = d.on_output
      /\ e.tag_id = d.tag_id /\ e.hidden = d.hidden /\ e.floating = d.floating
      /\ Shown(e) \in {Shown(d), s}
  <2>1. CASE e = d
    BY <2>1
  <2>2. CASE e = [d EXCEPT !.visible_con_set[d.selected] = s]
    <3> DEFINE c == [d.visible_con_set EXCEPT ![d.selected] = s]
    <3>1. c[d.selected] = s
      BY <1>0
    <3>2. e = [d EXCEPT !.visible_con_set = c]
      BY <2>2
    <3> HIDE DEF c
    <3>3. /\ e.setup = d.setup /\ e.selected = d.selected /\ e.tags = d.tags
          /\ e.on_output = d.on_output /\ e.tag_id = d.tag_id /\ e.hidden = d.hidden
          /\ e.floating = d.floating /\ e.visible_con_set = c
      BY <1>0, <3>2 DEF Desks
    <3> QED BY <3>1, <3>3 DEF Shown
  <2> QED BY <1>1, <2>1, <2>2
<1>4. Simple(d) /\ d.selected \in d.tags[d.selected] => Shown(e) = Shown(d)
  BY <1>2, <1>3 DEF Sound, Shows, Simple
<1>5. CASE Simple(d) /\ d.selected \in d.tags[d.selected]
  BY <1>3, <1>4, <1>5, SteadySame DEF e
<1>6. CASE ~(Simple(d) /\ d.selected \in d.tags[d.selected])
  BY <1>3, <1>6 DEF Steady, Simple, e
<1> QED BY <1>5, <1>6

\* tagset_reload leaves the focus alone.
LEMMA ReloadKeeps ==
  ASSUME NEW d, d \in Desks, NEW t
  PROVE  LET e == Reload(d, t)
         IN  /\ Kin(d, e) /\ e.tag_id = d.tag_id /\ e.on_output = d.on_output
             /\ (Stacked(d) => Stacked(e)) /\ (Keyed(d) => Keyed(e))
<1> DEFINE e == Reload(d, t)
           s == Members(d.con_set[d.selected], {w \in Windows : ExistsOn(d, d.selected, w)})
<1>1. e = d \/ e = [d EXCEPT !.visible_con_set[d.selected] = s]
  BY DEF Reload
<1> HIDE DEF s, e
<1>2. /\ e.setup = d.setup /\ e.created = d.created /\ e.mapped = d.mapped
      /\ e.selected = d.selected /\ e.tags = d.tags /\ e.on_output = d.on_output
      /\ e.tag_id = d.tag_id /\ e.con_set = d.con_set
      /\ e.focus_set = d.focus_set /\ e.visible_focus_set = d.visible_focus_set
      /\ e.keyboard = d.keyboard /\ e.fault = d.fault
      /\ e.hidden = d.hidden /\ e.floating = d.floating
  BY <1>1 DEF Desks
<1>3. Kin(d, e) /\ HereOf(e) = HereOf(d)
  BY <1>2 DEF Kin, Listed, HereOf, ExistsOn
<1>4. Stacked(d) => Stacked(e)
  BY <1>2, <1>3 DEF Stacked, InStack, Seen, InSight, Viewable, PotentiallyViewable, IsFloating, GetHidden, CurrentTag, ExistsOn
<1>5. Keyed(d) => Keyed(e)
  BY <1>2 DEF Keyed, Focused, Viewable, PotentiallyViewable, IsFloating, GetHidden, CurrentTag, ExistsOn
<1> QED BY <1>2, <1>3, <1>4, <1>5 DEF e

-----------------------------------------------------------------------------
(* Tags *)

\* focus_tagset: whichever tag is selected and whatever it shows, the lists and
\* the focus follow.
LEMMA ShowTagsGood ==
  ASSUME NEW d, Base(d), NEW t \in Tags, NEW bits \in SUBSET Tags, NEW m,
         m = [d EXCEPT !.selected = t, !.on_output = @ \cup {t}]
  PROVE  Good(ShowTags(m, bits)) /\ Good(ShowTags(d, bits))
<1>0. /\ d \in Desks /\ d.selected \in Tags /\ d.on_output \subseteq Tags
      /\ d.tags \in [Tags -> SUBSET Tags] /\ d.selected \in d.on_output
  BY Fields DEF Base, Typed, Placed
<1>1. ASSUME NEW u \in Tags, NEW n, n = [d EXCEPT !.selected = u, !.on_output = @ \cup {u}]
      PROVE  Good(ShowTags(n, bits))
  <2> DEFINE e == [n EXCEPT !.tags[n.selected] = bits, !.on_output = @ \cup bits]
             r == Reload(e, u)
             s == UpdateReducedFocusStack(r)
  <2>1. n \in Desks /\ n.selected = u
    BY <1>0, <1>1 DEF Desks
  <2>2. e = [d EXCEPT !.selected = u, !.on_output = (@ \cup {u}) \cup bits, !.tags[u] = bits]
    BY <1>0, <1>1 DEF Desks
  <2>3. ShowTags(n, bits) = FocusMostRecent(Arrange(s), u)
    BY <2>1 DEF ShowTags
  <2> HIDE DEF e
  <2>4. /\ e \in Desks /\ e.setup = d.setup /\ e.created = d.created /\ e.mapped = d.mapped
        /\ e.selected = u /\ e.on_output = (d.on_output \cup {u}) \cup bits
        /\ e.tags = [d.tags EXCEPT ![u] = bits]
        /\ e.tag_id = d.tag_id /\ e.con_set = d.con_set /\ e.visible_con_set = d.visible_con_set
        /\ e.on_scratchpad = d.on_scratchpad /\ e.scratchpad = d.scratchpad
        /\ e.focus_set = d.focus_set /\ e.visible_focus_set = d.visible_focus_set
        /\ e.keyboard = d.keyboard /\ e.grab_c = d.grab_c /\ e.fault = d.fault
    BY <1>0, <2>2 DEF Desks
  <2>5. Typed(e) /\ Agree(e)
    BY <2>4 DEF Base, Typed, Agree
  <2>6. Padded(e) /\ Found(e) /\ Placed(e)
    <3>1. e.tags[u] = bits
      BY <1>0, <2>4
    <3> QED BY <2>4, <3>1 DEF Base, Padded, Found, Placed, Listed
  <2>7. Base(e)
    BY <2>5, <2>6 DEF Base
  <2>8. Base(r) /\ Shows(r) /\ r.selected = u
    BY <2>4, <2>7, ReloadSound, ReloadKeeps, TagZero DEF Kin
  <2> HIDE DEF r
  <2>9. Sound(s) /\ s.selected = u
    BY <2>8, StackAfter DEF Sound, OnlyFocus, SameLists
  <2> HIDE DEF s
  <2>10. /\ Good(Arrange(s)) /\ Sound(Arrange(s)) /\ Stacked(Arrange(s)) /\ Keyed(Arrange(s))
         /\ Steady(Arrange(s))
    BY <2>9, ArrangeGood DEF Good
  <2> QED BY <2>3, <2>10, FocusMostRecentGood
<1>2. Good(ShowTags(m, bits))
  BY <1>1
<1>3. d = [d EXCEPT !.selected = d.selected, !.on_output = @ \cup {d.selected}]
  BY <1>0 DEF Desks
<1>4. Good(ShowTags(d, bits))
  BY <1>0, <1>1, <1>3
<1> QED BY <1>2, <1>4

\* lib_view
LEMMA ViewGood ==
  ASSUME Good(desk), NEW t \in Tags, View(t) PROVE Good(desk')
<1>1. Base(desk) /\ desk.tags \in [Tags -> SUBSET Tags]
  BY Fields DEF Good, Sound, Base, Typed
<1>2. desk' = ShowTags(Select(desk, t), desk.tags[t])
  BY DEF View, ViewTag
<1>3. Select(desk, t) = [desk EXCEPT !.selected = t, !.on_output = @ \cup {t}]
  BY DEF Select
<1> QED BY <1>1, <1>2, <1>3, ShowTagsGood

\* lib_set_tags, lib_toggle_tags
LEMMA SetTagsGood ==
  ASSUME Good(desk), NEW bits \in ShownSets, SetTags(bits) PROVE Good(desk')
<1>1. Base(desk) /\ desk.selected \in Tags /\ bits \in SUBSET Tags
  BY Fields, ShownSetsAssumption DEF Good, Sound, Base, Typed
<1>2. desk' = ShowTags(desk, bits)
  BY DEF SetTags
<1> DEFINE m == [desk EXCEPT !.selected = desk.selected, !.on_output = @ \cup {desk.selected}]
<1>3. Good(ShowTags(desk, bits))
  BY <1>1, ShowTagsGood
<1> QED BY <1>2, <1>3

\* move_container_to_tag
LEMMA MoveToTagGood ==
  ASSUME Good(desk), NEW t \in Tags, MoveToTag(Focused(desk), t) PROVE Good(desk')
<1> DEFINE w == Focused(desk)
           moved == IF desk.tag_id[w] = t THEN desk ELSE SetTagId(desk, w, t)
           old == CurrentTag(moved, w)
           a == Arrange(moved)
           shown == Reload(a, t)
           stacks == IF shown.selected \in {old, t} THEN UpdateReducedFocusStack(shown) ELSE shown
           f == FocusMostRecent(stacks, old)
<1>0. Sound(desk) /\ Base(desk) /\ desk \in Desks /\ desk.tag_id \in [Windows -> Tags \cup {INVALID_TAG_ID}]
  BY Fields DEF Good, Sound, Base, Typed
<1>1. w \in Listed(desk) /\ w \in Windows
  BY <1>0, FocusedOf, ListedMapped DEF MoveToTag
<1>2. desk' = FocusMostRecent(f, t)
  BY DEF MoveToTag
<1> HIDE DEF w
<1>3. Sound(moved) /\ moved.tag_id[w] = t /\ moved.selected \in Tags
  <2>1. Sound(SetTagId(desk, w, t)) /\ SetTagId(desk, w, t).tag_id = [desk.tag_id EXCEPT ![w] = t]
    BY <1>0, <1>1, SetTagIdSound
  <2>2. moved.tag_id[w] = t /\ Sound(moved)
    BY <1>0, <1>1, <2>1
  <2> HIDE DEF moved
  <2> QED BY <2>2, Fields DEF Sound, Base, Typed
<1> HIDE DEF moved
<1>4. old \in Tags
  BY <1>3 DEF CurrentTag
<1> HIDE DEF old
<1>5. Sound(a) /\ Stacked(a) /\ Keyed(a) /\ Steady(a) /\ a \in Desks
  BY <1>3, ArrangeGood DEF Good, Sound, Base, Typed
<1> HIDE DEF a
<1>6. Sound(shown) /\ Stacked(shown) /\ Keyed(shown) /\ Steady(shown)
  BY <1>5, ReloadSound, ReloadKeeps, ReloadSteady DEF Sound
<1> HIDE DEF shown
<1>7. /\ Sound(stacks) /\ Stacked(stacks) /\ (Keyed(stacks) \/ stacks.selected \in {old, t})
      /\ Steady(stacks)
  <2>1. Sound(UpdateReducedFocusStack(shown)) /\ Stacked(UpdateReducedFocusStack(shown))
        /\ UpdateReducedFocusStack(shown).selected = shown.selected
    BY <1>6, StackAfter DEF OnlyFocus, SameLists
  <2>2. Steady(UpdateReducedFocusStack(shown))
    BY <1>6, StackAfter, SteadyFocus
  <2> QED BY <1>6, <2>1, <2>2
<1> HIDE DEF stacks
<1>8. Refocuses(stacks, f, old)
  BY <1>4, <1>7, FocusMostRecentSound
<1>9. Sound(f) /\ Stacked(f) /\ (Keyed(f) \/ t = f.selected) /\ Steady(f)
  BY <1>7, <1>8, SteadyFocus DEF Refocuses, OnlyFocus, SameLists
<1> HIDE DEF f
<1> QED BY <1>2, <1>9, FocusMostRecentGood

\* lib_tag_swap_smart
LEMMA SwapSmartGood ==
  ASSUME Good(desk), NEW t \in Tags, SwapSmart(t), Bound("swap") PROVE Good(desk')
<1> DEFINE sel == desk.selected
           ids == [w \in Windows |-> IF w \in ToSet(desk.con_set[sel])
                                     THEN Other(desk.tag_id[w], sel, t) ELSE desk.tag_id[w]]
           all == [u \in Tags |-> {v \in Tags : IF v = u THEN u \in desk.tags[u]
                                                ELSE Other(v, sel, t) \in desk.tags[Other(u, sel, t)]}]
           d == SwapBits(SwapWindows(desk, sel, t), sel, t)
           r == Reload(d, sel)
           a == Arrange(r)
           s == UpdateReducedFocusStack(a)
           f == FocusMostRecent(s, sel)
           g == FocusMostRecent(f, t)
<1>0. /\ Base(desk) /\ desk \in Desks /\ desk.tag_id \in [Windows -> Tags \cup {INVALID_TAG_ID}]
      /\ sel \in Tags /\ desk.tags \in [Tags -> SUBSET Tags]
  BY Fields DEF Good, Sound, Base, Typed
<1>1. desk' = FocusMostRecent(g, sel)
  BY DEF SwapSmart
<1>2. d = [desk EXCEPT !.tag_id = ids, !.tags = all]
  <2> DEFINE m == [desk EXCEPT !.tag_id = ids]
  <2>1. m = SwapWindows(desk, sel, t)
    BY <1>0 DEF SwapWindows, Desks
  <2>2. m.tags = desk.tags
    BY <1>0 DEF Desks
  <2> HIDE DEF m
  <2>3. SwapBits(m, sel, t) = [m EXCEPT !.tags = all]
    BY <2>2 DEF SwapBits
  <2> HIDE DEF ids, all
  <2>4. SwapBits(m, sel, t) = [desk EXCEPT !.tag_id = ids, !.tags = all]
    BY <1>0, <2>3 DEF m, Desks
  <2> QED BY <2>1, <2>4
<1>3. ids \in [Windows -> Tags \cup {INVALID_TAG_ID}]
      /\ (desk.tag_id \in [Windows -> Tags] => ids \in [Windows -> Tags])
  BY <1>0 DEF Other
<1>4. all \in [Tags -> SUBSET Tags]
  OBVIOUS
<1>5. \A w \in Windows : w \in ToSet(desk.con_set[sel]) \/ ids[w] = desk.tag_id[w]
  BY <1>0
<1> HIDE DEF ids, all, d
<1>6. /\ d \in Desks /\ d.setup = desk.setup /\ d.created = desk.created /\ d.mapped = desk.mapped
      /\ d.selected = desk.selected /\ d.on_output = desk.on_output
      /\ d.tag_id = ids /\ d.con_set = desk.con_set /\ d.visible_con_set = desk.visible_con_set
      /\ d.on_scratchpad = desk.on_scratchpad /\ d.scratchpad = desk.scratchpad
      /\ d.focus_set = desk.focus_set /\ d.visible_focus_set = desk.visible_focus_set
      /\ d.keyboard = desk.keyboard /\ d.grab_c = desk.grab_c /\ d.fault = desk.fault
  BY <1>0, <1>2, <1>3, <1>4 DEF Desks
<1>7. Typed(d) /\ Agree(d)
  BY <1>0, <1>6 DEF Base, Typed, Agree
<1>8. Padded(d) /\ Placed(d)
  BY <1>0, <1>3, <1>6 DEF Base, Padded, Placed, Listed, Bound
<1>9. Found(d)
  <2>1. ToSet(desk.con_set[sel]) = Listed(desk)
    BY <1>0 DEF Base, Agree, Listed
  <2>2. Listed(d) = Listed(desk) /\ desk.mapped \subseteq Windows
    BY <1>0, <1>6, Fields DEF Listed
  <2> QED BY <1>0, <1>5, <1>6, <2>1, <2>2 DEF Base, Found
<1>10. Base(d)
  BY <1>7, <1>8, <1>9 DEF Base
<1>11. Sound(r) /\ r.selected = sel
  BY <1>0, <1>6, <1>10, ReloadSound, ReloadKeeps, TagZero DEF Sound, Kin
<1> HIDE DEF r
<1>12. Sound(a) /\ a.selected = sel /\ Steady(a)
  BY <1>11, ArrangeGood DEF Kin, Good
<1> HIDE DEF a
<1>13. Sound(s) /\ Stacked(s) /\ s.selected = sel /\ Steady(s)
  BY <1>12, StackAfter, SteadyFocus DEF OnlyFocus, SameLists
<1> HIDE DEF s
<1>14. Good(f)
  BY <1>0, <1>13, FocusMostRecentGood
<1> HIDE DEF f
<1>15. Good(g)
  BY <1>14, FocusMostRecentGood DEF Good
<1> HIDE DEF g
<1> QED BY <1>0, <1>1, <1>15, FocusMostRecentGood DEF Good

\* list_insert: the list and one more window, at the front if it was to go there.
LEMMA InsertedIs ==
  ASSUME NEW X, NEW s \in Seq(X), IsInjective(s), NEW w \in X, w \notin ToSet(s), NEW pos \in Int
  PROVE  /\ ListInsert(s, pos, w) \in Seq(X) /\ IsInjective(ListInsert(s, pos, w))
         /\ ToSet(ListInsert(s, pos, w)) = ToSet(s) \cup {w}
         /\ pos <= 0 => ListInsert(s, pos, w) = <<w>> \o s
<1> DEFINE i == IF pos < 0 THEN 1 ELSE IF pos > Len(s) THEN Len(s) + 1 ELSE pos + 1
           a == SubSeq(s, 1, i - 1)
           b == SubSeq(s, i, Len(s))
           u == <<w>>
<1>1. i \in 1..(Len(s) + 1) /\ (pos <= 0 => i = 1) /\ Len(s) \in Nat
  OBVIOUS
<1>2. ListInsert(s, pos, w) = a \o u \o b
  BY DEF ListInsert, InsertAt
<1> HIDE DEF i
<1>3. a \in Seq(X) /\ b \in Seq(X) /\ u \in Seq(X) /\ ToSet(u) = {w} /\ IsInjective(u)
  <2>1. \A j \in 1..Len(s) : s[j] \in X
    OBVIOUS
  <2>2. a \in Seq(X)
    BY <1>1, <2>1, SubSeqProperties
  <2>3. b \in Seq(X)
    BY <1>1, <2>1, SubSeqProperties
  <2>4. u \in Seq(X) /\ ToSet(u) = {w} /\ IsInjective(u)
    BY OnceEach, Elements
  <2> QED BY <2>2, <2>3, <2>4
<1>4. s = a \o b
  <2> DEFINE k == i - 1
  <2>1. k \in 0..Len(s) /\ k + 1 = i
    BY <1>1
  <2>2. SubSeq(s, 1, k) \o SubSeq(s, k + 1, Len(s)) = SubSeq(s, 1, Len(s))
    <3>1. 1 \in 1..Len(s)+1 /\ k \in 1-1..Len(s) /\ Len(s) \in k..Len(s)
      BY <1>1, <2>1
    <3> HIDE DEF k
    <3> QED BY <3>1, ConcatAdjacentSubSeq
  <2>3. SubSeq(s, 1, Len(s)) = s
    BY SubSeqFull
  <2> QED BY <2>1, <2>2, <2>3
<1>5. i = 1 => a = <<>>
  BY <1>1, SubSeqEmpty
<1> HIDE DEF a, b, u
<1>6. IsInjective(a) /\ IsInjective(b) /\ ToSet(a) \cap ToSet(b) = {} /\ ToSet(s) = ToSet(a) \cup ToSet(b)
  BY <1>3, <1>4, OnceEach, Elements
<1>7. a \o u \in Seq(X) /\ IsInjective(a \o u) /\ ToSet(a \o u) = ToSet(a) \cup {w}
  <2>1. a \o u \in Seq(X)
    BY <1>3, ConcatProperties
  <2>2. ToSet(a) \cap ToSet(u) = {}
    BY <1>3, <1>6
  <2> QED BY <1>3, <1>6, <2>1, <2>2, OnceEach, Elements
<1> DEFINE v == a \o u
<1> HIDE DEF v
<1>8. v \o b \in Seq(X) /\ IsInjective(v \o b) /\ ToSet(v \o b) = ToSet(v) \cup ToSet(b)
  <2>1. v \o b \in Seq(X)
    BY <1>3, <1>7, ConcatProperties DEF v
  <2>2. ToSet(v) \cap ToSet(b) = {}
    BY <1>3, <1>6, <1>7 DEF v
  <2>3. v \in Seq(X) /\ IsInjective(v)
    BY <1>7 DEF v
  <2>4. IsInjective(v \o b)
    BY <1>3, <1>6, <2>2, <2>3, OnceEach
  <2>5. ToSet(v \o b) = ToSet(v) \cup ToSet(b)
    BY <1>3, <2>3, Elements
  <2> QED BY <2>1, <2>4, <2>5
<1>9. pos <= 0 => v \o b = u \o s
  <2> SUFFICES ASSUME pos <= 0 PROVE v \o b = u \o s
    OBVIOUS
  <2>1. a = <<>>
    BY <1>1, <1>5
  <2>2. v = u /\ s = b
    BY <1>3, <1>4, <2>1 DEF v
  <2> QED BY <2>2
<1> QED BY <1>2, <1>6, <1>7, <1>8, <1>9 DEF v, u

\* The members of a list without a window.
LEMMA WithoutMembers ==
  ASSUME NEW X, NEW c \in Seq(X), NEW S, NEW w
  PROVE  Without(Members(c, S), w) = Members(Without(c, w), S)
<1> DEFINE s == Members(c, S)
<1>1. s \in Seq(X) /\ ToSet(s) = ToSet(c) \cap S
  BY MembersTyped, MembersSet
<1>2. Members(s, ToSet(s) \ {w}) = Members(c, S \cap (ToSet(s) \ {w}))
  BY MembersTwice
<1>3. Members(Members(c, ToSet(c) \ {w}), S) = Members(c, (ToSet(c) \ {w}) \cap S)
  BY MembersTwice
<1> HIDE DEF s
<1>4. ToSet(c) \cap (S \cap (ToSet(s) \ {w})) = ToSet(c) \cap ((ToSet(c) \ {w}) \cap S)
  BY <1>1
<1>5. Members(c, S \cap (ToSet(s) \ {w})) = Members(c, (ToSet(c) \ {w}) \cap S)
  BY <1>4, MembersSame
<1> QED BY <1>2, <1>3, <1>5 DEF Without, s

\* remove_container_from_tile: the window is in no list any more.
LEMMA RemoveFromTileSound ==
  ASSUME NEW d, Sound(d), NEW w \in Windows
  PROVE  Sound(RemoveFromTile(d, w)) /\ RemoveFromTile(d, w).selected = d.selected
<1> DEFINE r == RemoveFromScratchpad(d, w)
           sel == r.selected
           cs == [t \in Tags |-> Without(r.con_set[t], w)]
           fs == [t \in Tags |-> Without(r.focus_set[t], w)]
           vf == Without(r.visible_focus_set, w)
           vc == IF r.tag_id[w] \in r.on_output THEN Without(r.visible_con_set[sel], w)
                                                ELSE r.visible_con_set[sel]
           e == RemoveFromTile(d, w)
<1>1. e = [r EXCEPT !.mapped = @ \ {w}, !.con_set = cs, !.focus_set = fs,
                    !.visible_focus_set = vf, !.visible_con_set[sel] = vc]
  BY DEF RemoveFromTile
<1>2. Sound(r) /\ w \notin r.on_scratchpad /\ r.selected = d.selected
  BY RemoveFromScratchpadSound DEF Kin
<1> HIDE DEF r
<1>3. /\ Base(r) /\ Shows(r) /\ r \in Desks /\ sel \in Tags /\ sel \in r.on_output /\ r.mapped \subseteq Windows
      /\ r.con_set \in [Tags -> Seq(Windows)] /\ r.focus_set \in [Tags -> Seq(Windows)]
      /\ r.visible_con_set \in [Tags -> Seq(Windows)] /\ r.visible_focus_set \in Seq(Windows)
      /\ IsInjective(r.visible_focus_set)
      /\ \A t \in Tags : /\ IsInjective(r.con_set[t]) /\ IsInjective(r.focus_set[t])
                         /\ IsInjective(r.visible_con_set[t])
                         /\ ToSet(r.con_set[t]) = Listed(r) /\ ToSet(r.focus_set[t]) = Listed(r)
      /\ Listed(r) \subseteq r.mapped
  BY <1>2, Fields, TagZero DEF Sound, Base, Typed, Placed, Agree, Listed
<1>4. /\ cs \in [Tags -> Seq(Windows)] /\ fs \in [Tags -> Seq(Windows)]
      /\ \A t \in Tags : /\ cs[t] = Without(r.con_set[t], w)
                         /\ IsInjective(cs[t]) /\ IsInjective(fs[t])
                         /\ ToSet(cs[t]) = Listed(r) \ {w} /\ ToSet(fs[t]) = Listed(r) \ {w}
  <2>1. \A t \in Tags : /\ Without(r.con_set[t], w) \in Seq(Windows) /\ IsInjective(Without(r.con_set[t], w))
                        /\ ToSet(Without(r.con_set[t], w)) = Listed(r) \ {w}
    BY <1>3, WithoutIs
  <2>2. \A t \in Tags : /\ Without(r.focus_set[t], w) \in Seq(Windows) /\ IsInjective(Without(r.focus_set[t], w))
                        /\ ToSet(Without(r.focus_set[t], w)) = Listed(r) \ {w}
    BY <1>3, WithoutIs
  <2> QED BY <2>1, <2>2
<1>5. vf \in Seq(Windows) /\ IsInjective(vf) /\ ToSet(vf) \subseteq Listed(r) \ {w}
  <2>1. ToSet(vf) = ToSet(r.visible_focus_set) \ {w}
    BY <1>3, WithoutIs
  <2> QED BY <1>3, <2>1, WithoutIs DEF Base, Found
<1>6. vc = Without(Shown(r), w)
  <2>1. CASE r.tag_id[w] \in r.on_output
    BY <2>1 DEF Shown
  <2>2. CASE r.tag_id[w] \notin r.on_output
    <3>1. w \notin ToSet(Shown(r))
      BY <1>3, <2>2 DEF Shows
    <3>2. Shown(r) \in Seq(Windows) /\ ToSet(Shown(r)) \subseteq ToSet(Shown(r)) \ {w}
      BY <1>3, <3>1 DEF Shown
    <3>3. Without(Shown(r), w) = Shown(r)
      BY <3>2, MembersAll DEF Without
    <3> QED BY <2>2, <3>3 DEF Shown
  <2> QED BY <2>1, <2>2
<1> HIDE DEF vc
<1>7. vc \in Seq(Windows) /\ IsInjective(vc) /\ ToSet(vc) = ToSet(Shown(r)) \ {w}
  BY <1>3, <1>6, WithoutIs DEF Shown
<1> HIDE DEF cs, fs, vf, e
<1>8. /\ e \in Desks /\ e.mapped = r.mapped \ {w} /\ e.con_set = cs /\ e.focus_set = fs
      /\ e.visible_focus_set = vf /\ e.visible_con_set = [r.visible_con_set EXCEPT ![sel] = vc]
      /\ e.setup = r.setup /\ e.created = r.created
      /\ e.selected = r.selected /\ e.tags = r.tags /\ e.on_output = r.on_output
      /\ e.tag_id = r.tag_id /\ e.on_scratchpad = r.on_scratchpad /\ e.scratchpad = r.scratchpad
      /\ e.keyboard = r.keyboard /\ e.grab_c = r.grab_c
  BY <1>1, <1>3, <1>4, <1>5, <1>7 DEF Desks
<1>9. \A t \in Tags : e.visible_con_set[t] = IF t = sel THEN vc ELSE r.visible_con_set[t]
  BY <1>3, <1>8
<1>10. Listed(e) = Listed(r) \ {w} /\ Shown(e) = vc /\ HereOf(e) = HereOf(r)
  BY <1>3, <1>4, <1>8, <1>9, TagZero DEF Listed, Shown, HereOf, ExistsOn
<1>11. Typed(e)
  BY <1>3, <1>4, <1>5, <1>7, <1>8, <1>9 DEF Base, Typed
<1>12. Agree(e)
  BY <1>3, <1>4, <1>8, TagZero DEF Agree
<1>13. Padded(e) /\ Found(e)
  BY <1>2, <1>3, <1>5, <1>8, <1>10 DEF Base, Padded, Found
<1>14. Placed(e)
  BY <1>3, <1>8, <1>9 DEF Base, Placed
<1>15. Shows(e)
  <2> DEFINE con == r.con_set[sel]
  <2>1. con \in Seq(Windows) /\ e.con_set[e.selected] = Without(con, w) /\ Without(con, w) \in Seq(Windows)
    BY <1>3, <1>4, <1>8, WithoutIs
  <2>2. \A S : Shown(r) = Members(con, S) => vc = Members(Without(con, w), S)
    <3> TAKE S
    <3> HIDE DEF con
    <3> QED BY <1>6, <2>1, WithoutMembers
  <2>3. Members(Without(con, w), ToSet(Shown(r))) = Members(Without(con, w), ToSet(vc))
    <3>1. ToSet(Without(con, w)) = Listed(r) \ {w}
      BY <1>3, WithoutIs
    <3>2. ToSet(Without(con, w)) \cap ToSet(Shown(r)) = ToSet(Without(con, w)) \cap ToSet(vc)
      BY <1>7, <3>1
    <3> HIDE DEF con
    <3> QED BY <2>1, <3>2, MembersSame
  <2>4. ToSet(vc) \subseteq Listed(e) /\ \A v \in ToSet(vc) : e.tag_id[v] \in e.on_output
    BY <1>3, <1>7, <1>8, <1>10 DEF Shows
  <2>5. e.selected \in e.tags[e.selected] => ToSet(vc) \subseteq HereOf(e)
    BY <1>3, <1>7, <1>8, <1>10 DEF Shows
  <2>6. AtFront => vc = Members(Without(con, w), ToSet(vc))
    BY <1>3, <2>2, <2>3 DEF Shows
  <2>7. AtFront /\ e.selected \in e.tags[e.selected] /\ "pad" \notin e.setup.keys
          => vc = Members(Without(con, w), HereOf(e))
    BY <1>3, <1>8, <1>10, <2>2 DEF Shows
  <2>8. \A v \in ToSet(vc) : v \in HereOf(e) \/ e.tag_id[v] = e.selected
    BY <1>3, <1>7, <1>8, <1>10 DEF Shows
  <2> QED BY <1>10, <2>1, <2>4, <2>5, <2>6, <2>7, <2>8 DEF Shows
<1> QED BY <1>2, <1>8, <1>11, <1>12, <1>13, <1>14, <1>15 DEF Sound, Base, e

\* unmap_notify
LEMMA UnmapGood ==
  ASSUME Good(desk), NEW w \in Windows, Unmap(w) PROVE Good(desk')
<1> DEFINE e == RemoveFromTile(desk, w)
<1>1. Sound(desk) /\ desk.selected \in Tags
  BY Fields DEF Good, Sound, Base, Typed
<1>2. desk' = FocusMostRecent(Arrange(e), desk.selected)
  BY DEF Unmap
<1>3. Sound(e)
  BY <1>1, RemoveFromTileSound
<1> HIDE DEF e
<1>4. Good(Arrange(e))
  BY <1>3, ArrangeGood
<1> QED BY <1>1, <1>2, <1>4, FocusMostRecentGood DEF Good

\* The lists that add_container_to_tag leaves, before the focus stack; and the
\* window is mapped.
Inserted(e, w, pos) ==
  [e EXCEPT !.con_set = [t \in Tags |-> ListInsert(@[t], pos, w)],
            !.visible_con_set[e.selected] = ListInsert(@, pos, w),
            !.focus_set = [t \in Tags |-> ListInsert(@[t], 0, w)]]
\* And the window is mapped.
Added(e, w, pos) ==
  [e EXCEPT !.con_set = [t \in Tags |-> ListInsert(@[t], pos, w)],
            !.visible_con_set[e.selected] = ListInsert(@, pos, w),
            !.focus_set = [t \in Tags |-> ListInsert(@[t], 0, w)],
            !.mapped = @ \cup {w}]

\* list_insert, as a law that holds at every position
LEMMA InsertedAnywhere ==
  ASSUME NEW s \in Seq(Windows), IsInjective(s), NEW w \in Windows, w \notin ToSet(s)
  PROVE  /\ \A pos \in Int :
              /\ ListInsert(s, pos, w) \in Seq(Windows) /\ IsInjective(ListInsert(s, pos, w))
              /\ ToSet(ListInsert(s, pos, w)) = ToSet(s) \cup {w}
              /\ pos <= 0 => ListInsert(s, pos, w) = <<w>> \o s
         /\ ListInsert(s, 0, w) \in Seq(Windows) /\ IsInjective(ListInsert(s, 0, w))
         /\ ToSet(ListInsert(s, 0, w)) = ToSet(s) \cup {w}
<1>1. \A pos \in Int :
        /\ ListInsert(s, pos, w) \in Seq(Windows) /\ IsInjective(ListInsert(s, pos, w))
        /\ ToSet(ListInsert(s, pos, w)) = ToSet(s) \cup {w}
        /\ pos <= 0 => ListInsert(s, pos, w) = <<w>> \o s
  BY InsertedIs
<1> DEFINE z == 0
<1>2. z \in Int
  OBVIOUS
<1> HIDE DEF z
<1>3. /\ ListInsert(s, z, w) \in Seq(Windows) /\ IsInjective(ListInsert(s, z, w))
      /\ ToSet(ListInsert(s, z, w)) = ToSet(s) \cup {w}
  BY <1>1, <1>2
<1> QED BY <1>1, <1>3 DEF z

\* A window of the selected tag comes into all lists.
LEMMA AddedSound ==
  ASSUME NEW d, Sound(d), NEW w \in d.created \ d.mapped, d.tag_id[w] = d.selected, NEW pos \in NewPositions
  PROVE  Sound(Added(d, w, pos)) /\ Added(d, w, pos).selected = d.selected
<1> DEFINE sel == d.selected
           cs == [t \in Tags |-> ListInsert(d.con_set[t], pos, w)]
           fs == [t \in Tags |-> ListInsert(d.focus_set[t], 0, w)]
           vc == ListInsert(d.visible_con_set[sel], pos, w)
           e == Added(d, w, pos)
<1>1. e = [d EXCEPT !.con_set = cs, !.visible_con_set[sel] = vc, !.focus_set = fs, !.mapped = @ \cup {w}]
  BY DEF Added
<1>2. pos \in Int /\ 0 \in Int
  BY NewPositionsAssumption
<1>3. /\ Base(d) /\ Shows(d) /\ d \in Desks /\ sel \in Tags /\ sel \in d.on_output
      /\ d.created \subseteq Windows /\ w \in Windows
      /\ d.con_set \in [Tags -> Seq(Windows)] /\ d.focus_set \in [Tags -> Seq(Windows)]
      /\ d.visible_con_set \in [Tags -> Seq(Windows)]
      /\ \A t \in Tags : /\ IsInjective(d.con_set[t]) /\ IsInjective(d.focus_set[t])
                         /\ IsInjective(d.visible_con_set[t])
                         /\ ToSet(d.con_set[t]) = Listed(d) /\ ToSet(d.focus_set[t]) = Listed(d)
      /\ Listed(d) \subseteq d.mapped /\ w \notin Listed(d) /\ d.mapped \subseteq d.created
  BY Fields, TagZero DEF Sound, Base, Typed, Placed, Agree, Listed
<1>4. /\ cs \in [Tags -> Seq(Windows)] /\ fs \in [Tags -> Seq(Windows)]
      /\ \A t \in Tags : /\ IsInjective(cs[t]) /\ IsInjective(fs[t])
                         /\ ToSet(cs[t]) = Listed(d) \cup {w} /\ ToSet(fs[t]) = Listed(d) \cup {w}
      /\ pos <= 0 => cs[sel] = <<w>> \o d.con_set[sel]
  <2>1. \A t \in Tags : /\ ListInsert(d.con_set[t], pos, w) \in Seq(Windows)
                        /\ IsInjective(ListInsert(d.con_set[t], pos, w))
                        /\ ToSet(ListInsert(d.con_set[t], pos, w)) = Listed(d) \cup {w}
                        /\ pos <= 0 => ListInsert(d.con_set[t], pos, w) = <<w>> \o d.con_set[t]
    <3> TAKE t \in Tags
    <3> DEFINE s == d.con_set[t]
    <3>1. s \in Seq(Windows) /\ IsInjective(s) /\ w \notin ToSet(s) /\ ToSet(s) = Listed(d)
      BY <1>3
    <3> HIDE DEF s
    <3>2. /\ ListInsert(s, pos, w) \in Seq(Windows) /\ IsInjective(ListInsert(s, pos, w))
          /\ ToSet(ListInsert(s, pos, w)) = ToSet(s) \cup {w}
          /\ pos <= 0 => ListInsert(s, pos, w) = <<w>> \o s
      BY <1>2, <1>3, <3>1, InsertedAnywhere
    <3> QED BY <3>1, <3>2 DEF s
  <2>2. \A t \in Tags : /\ ListInsert(d.focus_set[t], 0, w) \in Seq(Windows)
                        /\ IsInjective(ListInsert(d.focus_set[t], 0, w))
                        /\ ToSet(ListInsert(d.focus_set[t], 0, w)) = Listed(d) \cup {w}
    <3> TAKE t \in Tags
    <3> DEFINE s == d.focus_set[t]
    <3>1. s \in Seq(Windows) /\ IsInjective(s) /\ w \notin ToSet(s) /\ ToSet(s) = Listed(d)
      BY <1>3
    <3> HIDE DEF s
    <3>2. /\ ListInsert(s, 0, w) \in Seq(Windows) /\ IsInjective(ListInsert(s, 0, w))
          /\ ToSet(ListInsert(s, 0, w)) = ToSet(s) \cup {w}
      BY <1>2, <1>3, <3>1, InsertedAnywhere
    <3> QED BY <3>1, <3>2 DEF s
  <2> QED BY <1>3, <2>1, <2>2
<1>5. /\ vc \in Seq(Windows) /\ IsInjective(vc) /\ ToSet(vc) = ToSet(Shown(d)) \cup {w}
      /\ pos <= 0 => vc = <<w>> \o Shown(d)
  <2>1. w \notin ToSet(Shown(d)) /\ Shown(d) = d.visible_con_set[sel]
    BY <1>3 DEF Shows, Shown
  <2> DEFINE s == d.visible_con_set[sel]
  <2>2. s \in Seq(Windows) /\ IsInjective(s) /\ w \notin ToSet(s) /\ Shown(d) = s
    BY <1>3, <2>1
  <2> HIDE DEF s
  <2>3. /\ ListInsert(s, pos, w) \in Seq(Windows) /\ IsInjective(ListInsert(s, pos, w))
        /\ ToSet(ListInsert(s, pos, w)) = ToSet(s) \cup {w}
        /\ pos <= 0 => ListInsert(s, pos, w) = <<w>> \o s
    BY <1>2, <1>3, <2>2, InsertedAnywhere
  <2> QED BY <2>2, <2>3 DEF s
<1> HIDE DEF cs, fs, vc, e
<1>6. /\ e \in Desks /\ e.mapped = d.mapped \cup {w} /\ e.con_set = cs /\ e.focus_set = fs
      /\ e.visible_con_set = [d.visible_con_set EXCEPT ![sel] = vc]
      /\ e.setup = d.setup /\ e.created = d.created
      /\ e.selected = d.selected /\ e.tags = d.tags /\ e.on_output = d.on_output
      /\ e.tag_id = d.tag_id /\ e.on_scratchpad = d.on_scratchpad /\ e.scratchpad = d.scratchpad
      /\ e.visible_focus_set = d.visible_focus_set
      /\ e.keyboard = d.keyboard /\ e.grab_c = d.grab_c
  BY <1>1, <1>3, <1>4, <1>5 DEF Desks
<1>7. \A t \in Tags : e.visible_con_set[t] = IF t = sel THEN vc ELSE d.visible_con_set[t]
  BY <1>3, <1>6
<1>8. Listed(e) = Listed(d) \cup {w} /\ Shown(e) = vc /\ HereOf(e) = HereOf(d)
  BY <1>3, <1>4, <1>6, <1>7, TagZero DEF Listed, Shown, HereOf, ExistsOn
<1>9. Typed(e)
  BY <1>3, <1>4, <1>5, <1>6, <1>7 DEF Base, Typed
<1>10. Agree(e)
  BY <1>3, <1>4, <1>6, TagZero DEF Agree
<1>11. Padded(e) /\ Found(e)
  BY <1>3, <1>6, <1>8 DEF Base, Padded, Found
<1>12. Placed(e)
  BY <1>3, <1>6, <1>7 DEF Base, Placed
<1>13. Shows(e)
  <2> DEFINE con == d.con_set[sel]
             u == <<w>>
  <2>1. con \in Seq(Windows) /\ ToSet(con) = Listed(d) /\ u \in Seq(Windows) /\ ToSet(u) = {w}
    BY <1>3, Elements
  <2>2. Shown(d) \in Seq(Windows)
    BY <1>3 DEF Shown
  <2>3. AtFront => vc = u \o Shown(d) /\ e.con_set[e.selected] = u \o con
    BY <1>3, <1>4, <1>5, <1>6 DEF AtFront
  <2>4. \A S : w \in S => Members(u \o con, S) = u \o Members(con, S)
    <3> TAKE S
    <3> HAVE w \in S
    <3>1. ToSet(u) \subseteq S
      BY <2>1
    <3> HIDE DEF u, con
    <3>2. Members(u \o con, S) = Members(u, S) \o Members(con, S)
      BY <2>1, MembersConcat
    <3>3. Members(u, S) = u
      BY <2>1, <3>1, MembersAll
    <3> QED BY <3>2, <3>3
  <2>5. ToSet(vc) \subseteq Listed(e) /\ \A v \in ToSet(vc) : e.tag_id[v] \in e.on_output
    BY <1>3, <1>5, <1>6, <1>8 DEF Shows
  <2>6. e.selected \in e.tags[e.selected] => w \in HereOf(e) /\ ToSet(vc) \subseteq HereOf(e)
    <3> SUFFICES ASSUME e.selected \in e.tags[e.selected] PROVE w \in HereOf(e) /\ ToSet(vc) \subseteq HereOf(e)
      OBVIOUS
    <3>1. w \in HereOf(d)
      BY <1>3, <1>6 DEF HereOf, ExistsOn
    <3> QED BY <1>3, <1>5, <1>6, <1>8, <3>1 DEF Shows
  <2> HIDE DEF con, u
  <2>7. ASSUME AtFront PROVE vc = Members(u \o con, ToSet(vc))
    <3>1. Shown(d) = Members(con, ToSet(Shown(d)))
      BY <1>3, <2>7 DEF Shows, con
    <3>2. ToSet(con) \cap ToSet(Shown(d)) = ToSet(con) \cap ToSet(vc) /\ w \in ToSet(vc)
      BY <1>3, <1>5, <2>1
    <3>3. Members(con, ToSet(Shown(d))) = Members(con, ToSet(vc))
      BY <2>1, <3>2, MembersSame
    <3> QED BY <2>3, <2>4, <2>7, <3>1, <3>2, <3>3
  <2>8. ASSUME AtFront, e.selected \in e.tags[e.selected], "pad" \notin e.setup.keys
        PROVE  vc = Members(u \o con, HereOf(e))
    <3>1. Shown(d) = Members(con, HereOf(d))
      BY <1>3, <1>6, <2>8 DEF Shows, con
    <3> QED BY <1>8, <2>3, <2>4, <2>6, <2>8, <3>1
  <2>9. \A v \in ToSet(vc) : v \in HereOf(e) \/ e.tag_id[v] = e.selected
    BY <1>3, <1>5, <1>6, <1>8 DEF Shows
  <2> QED BY <1>8, <2>3, <2>5, <2>6, <2>7, <2>8, <2>9 DEF Shows
<1> QED BY <1>6, <1>9, <1>10, <1>11, <1>12, <1>13 DEF Sound, Base, e

\* A window that has no tag is mapped into no list.
LEMMA MappedSound ==
  ASSUME NEW d, Sound(d), NEW w \in d.created \ d.mapped, d.tag_id[w] = INVALID_TAG_ID
  PROVE  Sound([d EXCEPT !.mapped = @ \cup {w}])
<1> DEFINE e == [d EXCEPT !.mapped = @ \cup {w}]
<1>0. Base(d) /\ Shows(d) /\ d \in Desks /\ d.created \subseteq Windows /\ d.mapped \subseteq d.created
  BY Fields DEF Sound, Base, Typed
<1>1. /\ e \in Desks /\ e.setup = d.setup /\ e.created = d.created /\ e.mapped = d.mapped \cup {w}
      /\ e.selected = d.selected /\ e.tags = d.tags /\ e.on_output = d.on_output
      /\ e.tag_id = d.tag_id /\ e.con_set = d.con_set /\ e.visible_con_set = d.visible_con_set
      /\ e.on_scratchpad = d.on_scratchpad /\ e.scratchpad = d.scratchpad
      /\ e.focus_set = d.focus_set /\ e.visible_focus_set = d.visible_focus_set
      /\ e.keyboard = d.keyboard /\ e.grab_c = d.grab_c
  BY <1>0 DEF Desks
<1> HIDE DEF e
<1>2. Listed(e) = Listed(d) /\ Shown(e) = Shown(d) /\ HereOf(e) = HereOf(d)
  BY <1>1 DEF Listed, Shown, HereOf, ExistsOn
<1>3. Typed(e) /\ Agree(e)
  <2>1. Typed(e)
    BY <1>0, <1>1 DEF Base, Typed
  <2>2. Agree(e)
    BY <1>0, <1>1 DEF Base, Agree
  <2> QED BY <2>1, <2>2
<1>4. Padded(e) /\ Found(e) /\ Placed(e)
  BY <1>0, <1>1, <1>2 DEF Base, Padded, Found, Placed
<1>5. Shows(e)
  BY <1>0, <1>1, <1>2 DEF Shows
<1> QED BY <1>3, <1>4, <1>5 DEF Sound, Base, e

\* The focus stack does not ask which windows are mapped.
LEMMA StackOfAdded ==
  ASSUME NEW d \in Desks, NEW w, NEW pos
  PROVE  [UpdateReducedFocusStack(Inserted(d, w, pos)) EXCEPT !.mapped = @ \cup {w}]
           = UpdateReducedFocusStack(Added(d, w, pos))
<1> DEFINE e == Inserted(d, w, pos)
           a == Added(d, w, pos)
           r == ReducedFocusStack(e, e.selected)
           cs == [t \in Tags |-> ListInsert(d.con_set[t], pos, w)]
           vc == [d.visible_con_set EXCEPT ![d.selected] = ListInsert(@, pos, w)]
           fs == [t \in Tags |-> ListInsert(d.focus_set[t], 0, w)]
<1>1. e = [d EXCEPT !.con_set = cs, !.visible_con_set = vc, !.focus_set = fs]
  BY DEF Desks, Inserted
<1>2. a = [d EXCEPT !.con_set = cs, !.visible_con_set = vc, !.focus_set = fs, !.mapped = @ \cup {w}]
  BY DEF Desks, Added
<1> HIDE DEF a, e, cs, vc, fs
<1>3. /\ a = [e EXCEPT !.mapped = @ \cup {w}] /\ a.selected = e.selected /\ a.on_output = e.on_output
      /\ a.focus_set = e.focus_set /\ a.tag_id = e.tag_id /\ a.tags = e.tags
      /\ a.floating = e.floating /\ a.hidden = e.hidden
  BY <1>1, <1>2 DEF Desks
<1>4. ReducedFocusStack(a, a.selected) = r
  BY <1>3 DEF ReducedFocusStack, Viewable, PotentiallyViewable, IsFloating, GetHidden, CurrentTag, ExistsOn
<1>5. UpdateReducedFocusStack(a) = [a EXCEPT !.visible_focus_set = r]
  BY <1>4 DEF UpdateReducedFocusStack
<1>6. UpdateReducedFocusStack(e) = [e EXCEPT !.visible_focus_set = r]
  BY DEF UpdateReducedFocusStack
<1> HIDE DEF r
<1>7. [[e EXCEPT !.visible_focus_set = r] EXCEPT !.mapped = @ \cup {w}] = [a EXCEPT !.visible_focus_set = r]
  BY <1>1, <1>2 DEF Desks
<1>8. [UpdateReducedFocusStack(e) EXCEPT !.mapped = @ \cup {w}] = UpdateReducedFocusStack(a)
  BY <1>5, <1>6, <1>7
<1> QED BY <1>8 DEF a, e

\* map_request
LEMMA MapGood ==
  ASSUME Good(desk), NEW w \in Windows, Map(w) PROVE Good(desk')
<1>0. /\ Sound(desk) /\ desk \in Desks /\ w \in desk.created \ desk.mapped /\ desk.selected \in Tags
      /\ desk.tag_id[w] \in Tags \cup {INVALID_TAG_ID}
  BY Fields DEF Good, Sound, Base, Typed, Map
<1> DEFINE tag == desk.tag_id[w]
<1>1. PICK pos \in NewPositions :
        desk' = FocusMostRecent(Arrange([(IF tag = INVALID_TAG_ID THEN desk ELSE AddContainerToTag(desk, w, pos))
                                           EXCEPT !.mapped = @ \cup {w}]), tag)
  BY DEF Map
<1> DEFINE m == [(IF tag = INVALID_TAG_ID THEN desk ELSE AddContainerToTag(desk, w, pos))
                    EXCEPT !.mapped = @ \cup {w}]
<1>2. Sound(m)
  <2>1. CASE tag = INVALID_TAG_ID
    <3>1. m = [desk EXCEPT !.mapped = @ \cup {w}]
      BY <2>1
    <3> HIDE DEF m
    <3> QED BY <1>0, <2>1, <3>1, MappedSound
  <2>2. CASE tag # INVALID_TAG_ID
    <3> DEFINE d == IF tag = desk.selected THEN desk ELSE SetTagId(desk, w, desk.selected)
               e == Inserted(d, w, pos)
    <3>1. Sound(d) /\ d.tag_id[w] = d.selected /\ w \in d.created \ d.mapped
      <4> DEFINE f == SetTagId(desk, w, desk.selected)
      <4>1. Sound(f) /\ Kin(desk, f) /\ f.tag_id = [desk.tag_id EXCEPT ![w] = desk.selected]
        BY <1>0, SetTagIdSound
      <4>2. f.selected = desk.selected /\ f.created = desk.created /\ f.mapped = desk.mapped
        BY <4>1 DEF Kin
      <4>3. desk.tag_id \in [Windows -> Tags \cup {INVALID_TAG_ID}]
        BY <1>0, Fields
      <4> HIDE DEF f
      <4>4. f.tag_id[w] = f.selected
        BY <4>1, <4>2, <4>3
      <4>5. d = IF tag = desk.selected THEN desk ELSE f
        BY DEF f
      <4> HIDE DEF d
      <4> QED BY <1>0, <4>1, <4>2, <4>4, <4>5
    <3>2. AddContainerToTag(desk, w, pos) = UpdateReducedFocusStack(e)
      BY DEF AddContainerToTag, Inserted
    <3>3. m = [UpdateReducedFocusStack(e) EXCEPT !.mapped = @ \cup {w}]
      BY <2>2, <3>2
    <3> HIDE DEF d, m
    <3>4. d \in Desks
      BY <3>1 DEF Sound, Base, Typed
    <3>5. m = UpdateReducedFocusStack(Added(d, w, pos))
      BY <3>3, <3>4, StackOfAdded
    <3>6. Sound(Added(d, w, pos))
      BY <3>1, AddedSound
    <3> QED BY <3>5, <3>6, StackAfter
  <2> QED BY <2>1, <2>2
<1>3. desk' = FocusMostRecent(Arrange(m), tag)
  BY <1>1
<1> HIDE DEF m
<1>4. Good(Arrange(m))
  BY <1>2, ArrangeGood
<1> QED BY <1>0, <1>3, <1>4, FocusMostRecentGood DEF Good

-----------------------------------------------------------------------------
(* Floating windows, hidden windows *)

\* The focus stacks, the keyboard and the output are as before.
SameFocus(d, e) ==
  /\ e.visible_focus_set = d.visible_focus_set /\ e.focus_set = d.focus_set
  /\ e.keyboard = d.keyboard /\ e.fault = d.fault /\ e.on_output = d.on_output

\* container_property_set_floating: a window that starts to float
LEMMA FloatsIs ==
  ASSUME NEW d, Sound(d), NEW w \in Windows
  PROVE  LET e == PropertySetFloating(d, w, TRUE)
         IN  /\ Sound(e) /\ SameLists(d, e) /\ SameFocus(d, e)
             /\ \A v \in Windows \ {w} : e.floating[v] = d.floating[v] /\ e.hidden[v] = d.hidden[v]
             /\ d.floating[w] \subseteq e.floating[w] /\ e.hidden[w] \subseteq d.hidden[w]
<1> DEFINE at == CurrentTag(d, w)
           f1 == [d.floating EXCEPT ![w] = @ \cup {at}]
           h1 == [d.hidden EXCEPT ![w] = @ \ {d.selected}]
           e == PropertySetFloating(d, w, TRUE)
<1>0. /\ Base(d) /\ d \in Desks /\ d.selected \in Tags /\ d.tag_id \in [Windows -> Tags \cup {INVALID_TAG_ID}]
      /\ d.floating \in [Windows -> SUBSET Tags] /\ d.hidden \in [Windows -> SUBSET Tags]
  BY Fields DEF Sound, Base, Typed
<1>1. CASE at = INVALID_TAG_ID
  <2>1. e = d
    BY <1>1 DEF PropertySetFloating
  <2> QED BY <2>1, SameTwice DEF SameFocus
<1>2. CASE at # INVALID_TAG_ID
  <2>1. at \in Tags
    BY <1>0, <1>2 DEF CurrentTag
  <2>2. f1 \in [Windows -> SUBSET Tags] /\ h1 \in [Windows -> SUBSET Tags]
    <3> HIDE DEF at
    <3> QED BY <1>0, <2>1
  <2>3. e = [d EXCEPT !.hidden = h1, !.floating = f1]
    <3>1. e = [[d EXCEPT !.floating[w] = @ \cup {at}] EXCEPT !.hidden[w] = @ \ {d.selected}]
      BY <1>2 DEF PropertySetFloating
    <3> HIDE DEF at, e
    <3> QED BY <1>0, <3>1 DEF Desks
  <2>4. /\ \A v \in Windows \ {w} : f1[v] = d.floating[v] /\ h1[v] = d.hidden[v]
        /\ d.floating[w] \subseteq f1[w] /\ h1[w] \subseteq d.hidden[w]
    <3> HIDE DEF at
    <3> QED BY <1>0
  <2> HIDE DEF h1, f1, e
  <2>5. Sound(e) /\ SameLists(d, e)
    BY <2>2, <2>3, HiddenSound
  <2>6. SameFocus(d, e) /\ e.floating = f1 /\ e.hidden = h1
    BY <1>0, <2>3 DEF SameFocus, Desks
  <2> QED BY <2>4, <2>5, <2>6 DEF e
<1> QED BY <1>1, <1>2

\* And one of the lists that is tiled again: it may come to the selected tag.
LEMMA TiledIs ==
  ASSUME NEW d, Sound(d), NEW w \in Listed(d)
  PROVE  LET e == PropertySetFloating(d, w, FALSE)
         IN  /\ Sound(e) /\ Kin(d, e) /\ SameFocus(d, e) /\ e.hidden = d.hidden
             /\ e.on_scratchpad \subseteq d.on_scratchpad
             /\ \A v \in Windows \ {w} : e.tag_id[v] = d.tag_id[v] /\ e.floating[v] = d.floating[v]
             /\ e.tag_id[w] \in {d.tag_id[w], d.selected}
             /\ d.tag_id[w] \in Tags \ d.on_output => e.tag_id[w] = d.selected
<1> DEFINE at == CurrentTag(d, w)
           away == d.tag_id[w] \notin d.on_output \/ w \in d.on_scratchpad
           f0 == [d.floating EXCEPT ![w] = @ \ {at}]
           d0 == [d EXCEPT !.floating[w] = @ \ {at}]
           f == SetTagId(d0, w, d.selected)
           moved == IF away THEN f ELSE d0
           e == PropertySetFloating(d, w, FALSE)
<1>0. /\ Base(d) /\ d \in Desks /\ d.selected \in Tags /\ d.tag_id \in [Windows -> Tags \cup {INVALID_TAG_ID}]
      /\ d.floating \in [Windows -> SUBSET Tags] /\ d.hidden \in [Windows -> SUBSET Tags]
      /\ w \in Windows /\ d.selected \in d.on_output
  BY Fields, ListedMapped DEF Sound, Base, Typed, Placed
<1>1. CASE at = INVALID_TAG_ID
  <2>1. e = d
    BY <1>1 DEF PropertySetFloating
  <2>2. d.tag_id[w] \notin Tags \ d.on_output
    BY <1>0, <1>1, TagZero DEF CurrentTag
  <2> QED BY <2>1, <2>2, KinTwice DEF SameFocus
<1>2. CASE at # INVALID_TAG_ID
  <2>1. e = RemoveFromScratchpad(moved, w)
    BY <1>2 DEF PropertySetFloating
  <2>2. d0 = [d EXCEPT !.hidden = d.hidden, !.floating = f0]
    <3> HIDE DEF at
    <3> QED BY <1>0 DEF Desks
  <2>3. f0 \in [Windows -> SUBSET Tags] /\ \A v \in Windows \ {w} : f0[v] = d.floating[v]
    <3> HIDE DEF at
    <3> QED BY <1>0
  <2> HIDE DEF f0, d0
  <2>4. Sound(d0) /\ SameLists(d, d0)
    BY <1>0, <2>2, <2>3, HiddenSound
  <2>5. SameFocus(d, d0) /\ d0.floating = f0 /\ d0.hidden = d.hidden /\ d0.tag_id = d.tag_id
        /\ d0.on_scratchpad = d.on_scratchpad
    BY <1>0, <2>2 DEF SameFocus, Desks
  <2>6. Listed(d0) = Listed(d) /\ Kin(d, d0)
    BY <2>4, SameShows, KinTwice
  <2>7. /\ Sound(f) /\ Kin(d0, f) /\ f.tag_id = [d.tag_id EXCEPT ![w] = d.selected]
        /\ f.on_output = d0.on_output \cup {d.selected} /\ f.hidden = d0.hidden /\ f.floating = d0.floating
        /\ SameFocus(d, f)
    <3>1. /\ Sound(f) /\ Kin(d0, f) /\ f.tag_id = [d0.tag_id EXCEPT ![w] = d.selected]
          /\ f.on_output = d0.on_output \cup {d.selected} /\ f.hidden = d0.hidden /\ f.floating = d0.floating
          /\ f.visible_focus_set = d0.visible_focus_set /\ f.focus_set = d0.focus_set
          /\ f.keyboard = d0.keyboard /\ f.fault = d0.fault
      BY <1>0, <2>4, <2>6, SetTagIdSound
    <3> HIDE DEF f
    <3>2. SameFocus(d, f)
      BY <1>0, <2>5, <3>1 DEF SameFocus
    <3> QED BY <2>5, <3>1, <3>2
  <2>8. f.on_scratchpad = d.on_scratchpad
    <3> DEFINE n == [d0 EXCEPT !.tag_id[w] = d.selected, !.on_output = @ \cup {d.selected}]
               s == Members(n.con_set[n.selected], {v \in Windows : ExistsOn(n, n.selected, v)})
    <3>1. f = n \/ f = [n EXCEPT !.visible_con_set[n.selected] = s]
      BY DEF Reload, SetTagId
    <3> HIDE DEF s, f
    <3>2. d0 \in Desks
      BY <2>4 DEF Sound, Base, Typed
    <3> QED BY <2>5, <3>1, <3>2 DEF Desks
  <2> HIDE DEF f
  <2>9. /\ Sound(moved) /\ Kin(d, moved) /\ SameFocus(d, moved) /\ moved.hidden = d.hidden
        /\ moved.floating = f0 /\ moved.on_scratchpad = d.on_scratchpad
    <3>1. Kin(d, f)
      BY <2>6, <2>7, KinTwice
    <3> QED BY <2>4, <2>5, <2>6, <2>7, <2>8, <3>1
  <2>10. /\ \A v \in Windows \ {w} : moved.tag_id[v] = d.tag_id[v]
         /\ moved.tag_id[w] \in {d.tag_id[w], d.selected}
         /\ d.tag_id[w] \in Tags \ d.on_output => moved.tag_id[w] = d.selected
    BY <1>0, <2>5, <2>7
  <2> HIDE DEF moved, e
  <2>11. /\ Sound(e) /\ Kin(moved, e) /\ e.on_scratchpad \subseteq moved.on_scratchpad
         /\ e.tag_id = moved.tag_id /\ e.on_output = moved.on_output
         /\ e.focus_set = moved.focus_set /\ e.visible_focus_set = moved.visible_focus_set
         /\ e.hidden = moved.hidden /\ e.floating = moved.floating
         /\ e.keyboard = moved.keyboard /\ e.fault = moved.fault
    BY <2>1, <2>9, RemoveFromScratchpadSound
  <2>12. Kin(d, e) /\ SameFocus(d, e)
    BY <2>9, <2>11, KinTwice DEF SameFocus
  <2> QED BY <2>3, <2>9, <2>10, <2>11, <2>12 DEF e
<1> QED BY <1>1, <1>2

\* A floating window changes with another one.
LEMMA ExchangeSound ==
  ASSUME NEW d, Good(d), Focused(d) # None, NEW con \in Windows
  PROVE  LET e == ExchangeFloating(d, Focused(d), con)
         IN  /\ Sound(e) /\ Stacked(e) /\ Keyed(e) /\ Kin(d, e)
             /\ \A v \in Windows \ {Focused(d)} : e.tag_id[v] = d.tag_id[v]
<1> DEFINE sel == Focused(d)
           d1 == SetFloating(d, con, FALSE, TRUE)
           e == ExchangeFloating(d, sel, con)
<1>0. /\ Sound(d) /\ Base(d) /\ InStack(d) /\ Seen(d) /\ Keyed(d) /\ d \in Desks
      /\ sel \in Listed(d) /\ sel \in Windows /\ sel \in ToSet(d.visible_focus_set)
      /\ d.tag_id \in [Windows -> Tags \cup {INVALID_TAG_ID}] /\ d.selected \in Tags
      /\ d.tags \in [Tags -> SUBSET Tags] /\ d.selected \in d.on_output
      /\ d.focus_set[d.selected] \in Seq(Windows)
  BY Fields, FocusedOf, ListedMapped DEF Good, Sound, Base, Typed, Stacked, Placed
<1>1. CASE ~IsFloating(d, sel)
  <2>1. e = d
    BY <1>1 DEF ExchangeFloating
  <2> QED BY <2>1, KinTwice DEF Good
<1>2. CASE IsFloating(d, sel)
  <2>1. /\ Sound(d1) /\ SameLists(d, d1) /\ SameFocus(d, d1)
        /\ \A v \in Windows \ {con} : d1.floating[v] = d.floating[v] /\ d1.hidden[v] = d.hidden[v]
        /\ d.floating[con] \subseteq d1.floating[con] /\ d1.hidden[con] \subseteq d.hidden[con]
        /\ d1.floating[sel] = d.floating[sel] /\ d1.hidden[sel] = d.hidden[sel]
    <3>1. CASE IsFloating(d, con)
      <4>1. d1 = d
        BY <3>1 DEF SetFloating
      <4> QED BY <1>0, <4>1, SameTwice DEF SameFocus
    <3>2. CASE ~IsFloating(d, con)
      <4>1. d1 = PropertySetFloating(d, con, TRUE) /\ con # sel
        BY <1>2, <3>2 DEF SetFloating
      <4> DEFINE q == PropertySetFloating(d, con, TRUE)
      <4>2. /\ Sound(q) /\ SameLists(d, q) /\ SameFocus(d, q)
            /\ \A v \in Windows \ {con} : q.floating[v] = d.floating[v] /\ q.hidden[v] = d.hidden[v]
            /\ d.floating[con] \subseteq q.floating[con] /\ q.hidden[con] \subseteq d.hidden[con]
        BY <1>0, FloatsIs
      <4> HIDE DEF d1, q
      <4>3. d1 = q
        BY <4>1 DEF q
      <4> QED BY <1>0, <4>1, <4>2, <4>3
    <3> QED BY <3>1, <3>2
  <2>2. e = SetFloating(d1, sel, FALSE, FALSE)
    BY <1>2 DEF ExchangeFloating
  <2> HIDE DEF d1
  <2>3. /\ Listed(d1) = Listed(d) /\ Kin(d, d1) /\ d1.tag_id = d.tag_id /\ d1.on_output = d.on_output
        /\ d1.selected = d.selected /\ d1.tags = d.tags
    BY <2>1, SameShows, KinTwice DEF SameLists
  <2>4. IsFloating(d1, sel)
    BY <1>2, <2>1, <2>3 DEF IsFloating, CurrentTag, ExistsOn
  <2>5. e = PropertySetFloating(d1, sel, FALSE)
    BY <2>2, <2>4 DEF SetFloating
  <2> HIDE DEF e
  <2>6. /\ Sound(e) /\ Kin(d1, e) /\ SameFocus(d1, e) /\ e.hidden = d1.hidden
        /\ \A v \in Windows \ {sel} : e.tag_id[v] = d1.tag_id[v] /\ e.floating[v] = d1.floating[v]
        /\ e.tag_id[sel] \in {d1.tag_id[sel], d1.selected}
        /\ d1.tag_id[sel] \in Tags \ d1.on_output => e.tag_id[sel] = d1.selected
    <3> DEFINE q == PropertySetFloating(d1, sel, FALSE)
    <3>1. Sound(d1) /\ sel \in Listed(d1)
      BY <1>0, <2>1, <2>3
    <3> HIDE DEF sel
    <3>2. /\ Sound(q) /\ Kin(d1, q) /\ SameFocus(d1, q) /\ q.hidden = d1.hidden
          /\ \A v \in Windows \ {sel} : q.tag_id[v] = d1.tag_id[v] /\ q.floating[v] = d1.floating[v]
          /\ q.tag_id[sel] \in {d1.tag_id[sel], d1.selected}
          /\ d1.tag_id[sel] \in Tags \ d1.on_output => q.tag_id[sel] = d1.selected
      BY <3>1, TiledIs
    <3> HIDE DEF q
    <3>3. e = q
      BY <2>5 DEF q
    <3> QED BY <3>2, <3>3
  <2>7. /\ Kin(d, e) /\ SameFocus(d, e) /\ e.selected = d.selected /\ e.tags = d.tags /\ e.on_output = d.on_output
        /\ \A v \in Windows \ {sel} : e.tag_id[v] = d.tag_id[v]
        /\ e.tag_id[sel] \in {d.tag_id[sel], d.selected}
        /\ d.tag_id[sel] \in Tags \ d.on_output => e.tag_id[sel] = d.selected
        /\ e.hidden[sel] = d.hidden[sel]
    <3>1. Kin(d, e)
      BY <2>3, <2>6, KinTwice
    <3> QED BY <1>0, <2>1, <2>3, <2>6, <3>1 DEF Kin, SameFocus
  <2>8. d.selected \in d.tags[d.selected] => \A v \in Windows : v \in HereOf(d) => v \in HereOf(e)
    BY <1>0, <2>7 DEF HereOf, ExistsOn
  <2>9. \A v \in Windows \ {sel} : v \in HereOf(e) => v \in HereOf(d)
    BY <2>7 DEF HereOf, ExistsOn
  <2>10. InStack(e)
    <3> SUFFICES ASSUME d.selected \in d.tags[d.selected], d.tags[d.selected] \subseteq d.on_output
                 PROVE  d.visible_focus_set = Members(d.focus_set[d.selected], HereOf(e))
      BY <2>7 DEF InStack, SameFocus
    <3>1. d.visible_focus_set = Members(d.focus_set[d.selected], HereOf(d))
      BY <1>0 DEF InStack
    <3>2. sel \in HereOf(d)
      <4>1. ToSet(d.visible_focus_set) = ToSet(d.focus_set[d.selected]) \cap HereOf(d)
        BY <1>0, <3>1, MembersSet
      <4> QED BY <1>0, <4>1
    <3>3. HereOf(e) = HereOf(d)
      BY <2>8, <2>9, <3>2 DEF HereOf
    <3> QED BY <3>1, <3>3
  <2>11. d.selected \in d.tags[d.selected] => \A v \in Windows \ {sel} : v \in InSight(d) => v \in InSight(e)
    <3> SUFFICES ASSUME d.selected \in d.tags[d.selected], NEW v \in Windows \ {sel}, v \in InSight(d)
                 PROVE  v \in InSight(e)
      OBVIOUS
    <3>1. /\ e.tag_id[v] = d.tag_id[v] /\ e.hidden[v] \subseteq d.hidden[v] /\ d.floating[v] \subseteq e.floating[v]
      BY <2>1, <2>3, <2>6
    <3> QED BY <2>7, <3>1 DEF InSight, Viewable, PotentiallyViewable, IsFloating, GetHidden, CurrentTag, ExistsOn
  <2>12. d.selected \in d.tags[d.selected] => sel \in InSight(d)
    BY <1>0 DEF Seen
  <2>13. d.selected \in d.tags[d.selected] => sel \in HereOf(e)
    <3> SUFFICES ASSUME d.selected \in d.tags[d.selected] PROVE ExistsOn(e, e.selected, sel)
      BY <1>0 DEF HereOf
    <3>1. d.tag_id[sel] \in d.tags[d.selected] /\ d.tag_id[sel] \in Tags
      BY <1>0, <2>12 DEF InSight, Viewable, PotentiallyViewable, ExistsOn
    <3> QED BY <1>0, <2>7, <3>1 DEF ExistsOn
  <2>14. Seen(e)
    <3> SUFFICES ASSUME d.selected \in d.tags[d.selected], NEW v \in ToSet(d.visible_focus_set)
                 PROVE  v \in InSight(e)
      BY <2>7 DEF Seen, SameFocus
    <3>1. v \in InSight(d) /\ v \in Windows
      BY <1>0 DEF Seen, InSight
    <3>2. CASE v = sel
      BY <2>13, <3>2 DEF HereOf, InSight
    <3>3. CASE v # sel
      BY <2>11, <3>1, <3>3
    <3> QED BY <3>2, <3>3
  <2>15. Keyed(e)
    <3>1. Focused(e) = sel
      BY <2>7 DEF Focused, SameFocus
    <3> SUFFICES ASSUME d.fault = "none", d.selected \in d.tags[d.selected], Viewable(e, sel)
                 PROVE  d.keyboard = sel
      BY <2>7, <3>1 DEF Keyed, SameFocus
    <3>2. Viewable(d, sel)
      <4> SUFFICES ASSUME ExistsOn(d, d.selected, sel) PROVE Viewable(d, sel)
        BY <2>12 DEF InSight
      <4>1. ExistsOn(e, e.selected, sel)
        BY <2>13 DEF HereOf
      <4>2. ~GetHidden(d, sel)
        BY <2>7, <4>1 DEF Viewable, GetHidden, CurrentTag
      <4> QED BY <4>2 DEF Viewable, PotentiallyViewable
    <3> QED BY <1>0, <3>2 DEF Keyed
  <2> QED BY <2>6, <2>7, <2>10, <2>14, <2>15 DEF Stacked, e
<1> QED BY <1>1, <1>2

-----------------------------------------------------------------------------
(* Places in lists *)

\* What a place of a list holds, and the place of an element.
LEMMA Places ==
  ASSUME NEW X, NEW s \in Seq(X)
  PROVE  /\ \A i \in 1..Len(s) : s[i] \in ToSet(s) /\ s[i] \in X
         /\ \A e : Contains(s, e) => /\ Position(s, e) \in 1..Len(s) /\ s[Position(s, e)] = e
                                     /\ e \in ToSet(s)
         /\ \A e \in ToSet(s) : Len(s) > 0
         /\ s # <<>> => Len(s) > 0
<1>1. DOMAIN s = 1..Len(s) /\ Len(s) \in Nat
  OBVIOUS
<1>2. \A i \in 1..Len(s) : s[i] \in ToSet(s) /\ s[i] \in X
  BY <1>1 DEF ToSet
<1>3. \A e : Contains(s, e) => Position(s, e) \in 1..Len(s) /\ s[Position(s, e)] = e
  BY <1>1 DEF Contains, Position
<1>4. \A e \in ToSet(s) : Len(s) > 0
  BY <1>1 DEF ToSet
<1>5. s # <<>> => Len(s) > 0
  BY <1>1
<1> QED BY <1>2, <1>3, <1>4, <1>5

\* relative_index_to_absolute_index stays in the list.
LEMMA RelativeIn ==
  ASSUME NEW i \in Int, NEW j \in Int, NEW n \in Nat \ {0}
  PROVE  RelativeIndex(i, j, n) \in 0..(n - 1) /\ RelativeIndex(i, j, n) + 1 \in 1..n
<1> DEFINE k == i + j
<1>1. k \in Int /\ n \in Int /\ n > 0
  OBVIOUS
<1> HIDE DEF k
<1>2. k % n \in 0..(n - 1)
  BY <1>1
<1> QED BY <1>2 DEF RelativeIndex, k

\* A list in which a new element takes a place.
LEMMA ReplacedIs ==
  ASSUME NEW X, NEW s \in Seq(X), IsInjective(s), NEW i \in 1..Len(s), NEW e \in X, e \notin ToSet(s) \ {s[i]}
  PROVE  /\ ReplaceAt(s, i, e) \in Seq(X) /\ IsInjective(ReplaceAt(s, i, e))
         /\ ToSet(ReplaceAt(s, i, e)) = (ToSet(s) \ {s[i]}) \cup {e}
<1> DEFINE t == ReplaceAt(s, i, e)
           n == Len(s)
<1>1. t = [s EXCEPT ![i] = e] /\ DOMAIN s = 1..n /\ n \in Nat /\ \A k \in 1..n : s[k] \in X
  BY DEF ReplaceAt
<1>2. t \in Seq(X) /\ DOMAIN t = 1..n
  BY <1>1
<1> HIDE DEF t, n
<1>3. \A k \in 1..n : t[k] = IF k = i THEN e ELSE s[k]
  BY <1>1
<1>4. \A k \in 1..n : s[k] \in ToSet(s)
  BY <1>1 DEF ToSet
<1>5. i \in 1..n
  BY DEF n
<1>6. IsInjective(t)
  <2>1. \A a, b \in 1..n : s[a] = s[b] => a = b
    BY <1>1 DEF IsInjective
  <2>2. \A a \in 1..n : a # i => s[a] # e
    BY <1>4, <1>5, <2>1
  <2> SUFFICES ASSUME NEW a \in 1..n, NEW b \in 1..n, t[a] = t[b] PROVE a = b
    BY <1>2 DEF IsInjective
  <2> QED BY <1>3, <2>1, <2>2
<1>7. ToSet(t) = (ToSet(s) \ {s[i]}) \cup {e}
  <2>1. \A x : x \in ToSet(t) <=> \E k \in 1..n : t[k] = x
    BY <1>2 DEF ToSet
  <2>2. \A x : x \in ToSet(s) <=> \E k \in 1..n : s[k] = x
    BY <1>1 DEF ToSet
  <2>3. \A a, b \in 1..n : s[a] = s[b] => a = b
    BY <1>1 DEF IsInjective
  <2>4. ASSUME NEW x, x \in ToSet(t) PROVE x \in (ToSet(s) \ {s[i]}) \cup {e}
    BY <1>3, <1>5, <2>1, <2>2, <2>3, <2>4
  <2>5. ASSUME NEW x, x \in (ToSet(s) \ {s[i]}) \cup {e} PROVE x \in ToSet(t)
    BY <1>3, <1>5, <2>1, <2>2, <2>5
  <2> QED BY <2>4, <2>5
<1> QED BY <1>2, <1>6, <1>7 DEF t

\* What the selected tag shows is in the lists and can be focused.
LEMMA ShownInSight ==
  ASSUME NEW d, Sound(d), NEW w \in ToSet(Shown(d))
  PROVE  /\ w \in Listed(d)
         /\ d.selected \in d.tags[d.selected] => w \in HereOf(d) /\ w \in InSight(d)
BY DEF Sound, Shows, HereOf, InSight

-----------------------------------------------------------------------------
(* Focus and order *)

\* focus_on_stack
LEMMA FocusOnStackGood ==
  ASSUME Good(desk), NEW i \in Int, FocusOnStack(i) PROVE Good(desk')
<1> DEFINE all == desk.con_set[desk.selected]
           V == {w \in Windows : Viewable(desk, w)}
           list == Members(all, V)
           F == Focused(desk)
           starts == IF Contains(list, F) THEN {Position(list, F) - 1} ELSE 0..(Len(list) - 1)
<1>1. all \in Seq(Windows) /\ ToSet(all) = Listed(desk)
  BY Fields DEF Good, Sound, Base, Typed, Agree, Listed
<1>2. PICK start \in starts :
        desk' = FocusContainer(desk, desk.selected, list[RelativeIndex(start, i, Len(list)) + 1])
  BY DEF FocusOnStack
<1> HIDE DEF all, V
<1>3. list \in Seq(Windows) /\ ToSet(list) = ToSet(all) \cap V
  BY <1>1, MembersTyped, MembersSet
<1> HIDE DEF list, F
<1>4. start \in Int /\ Len(list) \in Nat \ {0}
  <2>1. CASE Contains(list, F)
    <3>1. Position(list, F) \in 1..Len(list) /\ Len(list) \in Nat
      BY <1>3, <2>1, Places
    <3> QED BY <1>2, <2>1, <3>1
  <2>2. CASE ~Contains(list, F)
    <3>1. start \in 0..(Len(list) - 1) /\ Len(list) \in Nat
      BY <1>2, <1>3, <2>2
    <3> QED BY <3>1
  <2> QED BY <2>1, <2>2
<1> DEFINE at == RelativeIndex(start, i, Len(list)) + 1
           w == list[at]
<1>5. at \in 1..Len(list)
  BY <1>4, RelativeIn
<1> HIDE DEF at
<1>6. w \in ToSet(list)
  BY <1>3, <1>5, Places
<1>7. w \in Listed(desk) /\ w \in Windows /\ Viewable(desk, w)
  BY <1>1, <1>3, <1>6 DEF V
<1>8. desk' = FocusContainer(desk, desk.selected, w)
  BY <1>2 DEF at
<1> HIDE DEF w
<1>9. w \in InSight(desk)
  BY <1>7, ViewableHere
<1> QED BY <1>7, <1>8, <1>9, FocusGood

\* The end of focus_on_hidden_stack and swap_on_hidden_stack
LEMMA WriteOrderGood ==
  ASSUME NEW d, Sound(d), NEW result \in Seq(Windows), IsInjective(result), NEW con \in Listed(d),
         d.selected \in d.tags[d.selected] => con \in HereOf(d)
  PROVE  Good(WriteOrder(d, result, con))
<1> DEFINE sel == d.selected
           s == WriteToParent(Shown(d), result)
           m == WriteToTags([d EXCEPT !.visible_con_set[sel] = s])
           f == WriteToFocusStacks(m)
           a == Arrange(f)
<1>1. sel \in Tags /\ Shown(d) \in Seq(Windows) /\ IsInjective(Shown(d))
  BY Fields DEF Sound, Base, Typed, Shown
<1>2. s \in Seq(Windows) /\ IsInjective(s) /\ ToSet(s) = ToSet(Shown(d))
  BY <1>1, WrittenToParent
<1>3. WriteOrder(d, result, con) = FocusContainer(a, sel, con)
  BY DEF WriteOrder, Shown
<1> HIDE DEF s
<1>4. Sound(m) /\ Kin(d, m) /\ m.tag_id = d.tag_id /\ m.on_output = d.on_output
  BY <1>2, ReorderSound
<1> HIDE DEF m
<1>5. Sound(f) /\ OnlyFocus(m, f)
  BY <1>4, WriteToFocusStacksSound
<1> HIDE DEF f
<1>6. Good(a) /\ SameLists(f, a)
  BY <1>5, ArrangeGood
<1> HIDE DEF a
<1>7. SameLists(m, a)
  BY <1>5, <1>6, SameTwice
<1>8. a.selected = sel /\ a.tags = d.tags /\ Listed(a) = Listed(d) /\ HereOf(a) = HereOf(d)
  <2>1. Listed(a) = Listed(m) /\ HereOf(a) = HereOf(m)
    BY <1>7, SameShows
  <2> QED BY <1>4, <1>7, <2>1 DEF Kin, SameLists, HereOf, ExistsOn
<1>9. con \in Listed(a) /\ (a.selected \in a.tags[a.selected] => con \in InSight(a))
  BY <1>8 DEF HereOf, InSight
<1> QED BY <1>3, <1>6, <1>8, <1>9, FocusGood

\* The focused window is one that the selected tag shows.
LEMMA FocusedHere ==
  ASSUME NEW d, Good(d), Simple(d), "order" \in d.setup.keys, d.selected \in d.tags[d.selected],
         Focused(d) # None
  PROVE  Focused(d) \in ToSet(Shown(d))
<1> DEFINE all == d.con_set[d.selected]
           w == Focused(d)
<1>1. /\ all \in Seq(Windows) /\ ToSet(all) = Listed(d) /\ d.tag_id \in [Windows -> Tags]
      /\ INVALID_TAG_ID \notin Tags /\ Base(d)
  BY Fields, TagZero DEF Good, Sound, Base, Typed, Agree, Listed, Placed, Simple
<1>2. w \in Listed(d) /\ w \in Windows /\ w \in ToSet(d.visible_focus_set)
  BY <1>1, FocusedOf, ListedMapped
<1>3. d.tag_id[w] \in d.on_output
  BY <1>1, <1>2 DEF Base, Placed, Simple
<1>4. w \in HereOf(d)
  <2>1. w \in InSight(d)
    BY <1>2 DEF Good, Stacked, Seen
  <2> QED BY <1>3, <2>1 DEF InSight, HereOf, Viewable, PotentiallyViewable, ExistsOn
<1>5. Shown(d) = Members(all, HereOf(d))
  BY DEF Good, Sound, Shows, Simple
<1>6. ToSet(Shown(d)) = ToSet(all) \cap HereOf(d)
  <2> HIDE DEF all
  <2> QED BY <1>1, <1>5, MembersSet
<1> QED BY <1>1, <1>2, <1>4, <1>6

\* focus_on_hidden_stack, swap_on_hidden_stack
LEMMA OnHiddenStackGood ==
  ASSUME NEW d, Good(d), "order" \in d.setup.keys, NEW i \in Int, NEW rotate \in BOOLEAN
  PROVE  Good(OnHiddenStack(d, i, rotate))
<1> DEFINE hidden == HiddenList(d)
           visible == VisibleList(d)
           sel == Focused(d)
           at == RelativeIndex(0, i, Len(hidden)) + 1
           con == hidden[at]
           e == ExchangeFloating(d, sel, con)
           rest == Without(hidden, con)
           hidden2 == IF ~rotate THEN ReplaceAt(hidden, at, sel)
                      ELSE IF i < 0 THEN <<sel>> \o rest ELSE Append(rest, sel)
           pos == Position(visible, sel)
           front == ReplaceAt(visible, pos, con)
           result == front \o hidden2
           S == {w \in Windows : PotentiallyViewable(d, w) /\ GetHidden(d, w)}
           V == {w \in Windows : Viewable(d, w)}
<1>1. OnHiddenStack(d, i, rotate) =
        IF sel = None \/ hidden = <<>> THEN d
        ELSE IF ~Contains(visible, sel) THEN e ELSE WriteOrder(e, result, con)
  BY DEF OnHiddenStack
<1>2. CASE sel = None \/ hidden = <<>>
  BY <1>1, <1>2
<1>3. CASE sel # None /\ hidden # <<>>
  <2>0. /\ Sound(d) /\ Base(d) /\ Shown(d) \in Seq(Windows) /\ IsInjective(Shown(d))
        /\ sel \in Listed(d) /\ sel \in Windows
    BY <1>3, Fields, FocusedOf, ListedMapped DEF Good, Sound, Base, Typed, Shown
  <2>1. /\ hidden \in Seq(Windows) /\ IsInjective(hidden) /\ ToSet(hidden) = ToSet(Shown(d)) \cap S
        /\ visible \in Seq(Windows) /\ IsInjective(visible) /\ ToSet(visible) = ToSet(Shown(d)) \cap V
    <3>1. hidden = Members(Shown(d), S) /\ visible = Members(Shown(d), V)
      BY DEF HiddenList, VisibleList, Shown
    <3> HIDE DEF hidden, visible, S, V
    <3> QED BY <2>0, <3>1, MembersTyped, MembersOnce, MembersSet
  <2>2. S \cap V = {}
    BY DEF Viewable
  <2> HIDE DEF S, V, hidden, visible
  <2>3. at \in 1..Len(hidden)
    <3>1. Len(hidden) \in Nat \ {0} /\ 0 \in Int
      BY <1>3, <2>1, Places
    <3> DEFINE z == 0
    <3>2. z \in Int
      OBVIOUS
    <3> HIDE DEF z
    <3>3. RelativeIndex(z, i, Len(hidden)) + 1 \in 1..Len(hidden)
      BY <3>1, <3>2, RelativeIn
    <3> QED BY <3>3 DEF z
  <2> HIDE DEF at
  <2>4. con \in ToSet(hidden) /\ con \in Windows /\ con \in ToSet(Shown(d)) /\ con \notin ToSet(visible)
    BY <2>1, <2>2, <2>3, Places
  <2>5. con \in Listed(d) /\ (d.selected \in d.tags[d.selected] => con \in HereOf(d))
    BY <2>0, <2>4, ShownInSight
  <2>6. /\ Sound(e) /\ Stacked(e) /\ Keyed(e) /\ Kin(d, e)
        /\ \A v \in Windows \ {sel} : e.tag_id[v] = d.tag_id[v]
    <3> HIDE DEF con
    <3> QED BY <1>3, <2>4, ExchangeSound
  <2>7. CASE ~Contains(visible, sel)
    <3>1. Steady(e)
      <4> SUFFICES ASSUME Simple(d), d.selected \in d.tags[d.selected] PROVE Steady(e)
        BY <2>6 DEF Steady, Simple, Kin
      <4>1. sel \in ToSet(Shown(d))
        BY <1>3, <2>0, FocusedHere DEF Simple
      <4>2. sel \notin ToSet(visible)
        <5> HIDE DEF sel
        <5> QED BY <2>7 DEF Contains, ToSet
      <4>3. ~Viewable(d, sel) /\ ExistsOn(d, d.selected, sel)
        BY <2>0, <2>1, <4>1, <4>2, ShownInSight DEF V, HereOf
      <4>4. d.selected \in d.hidden[sel]
        BY <4>3 DEF Viewable, PotentiallyViewable, GetHidden, CurrentTag
      <4>5. ~IsFloating(d, sel)
        <5>1. sel \in ToSet(TiledList(d))
          BY <4>1, <4>4 DEF Good, Steady, InPlace
        <5> QED BY <2>0, <5>1, TiledListIs DEF Tiled
      <4>6. e = d
        BY <4>5 DEF ExchangeFloating
      <4> QED BY <4>6 DEF Good
    <3> QED BY <1>1, <1>3, <2>6, <2>7, <3>1 DEF Good
  <2>8. CASE Contains(visible, sel)
    <3>1. pos \in 1..Len(visible) /\ visible[pos] = sel /\ sel \in ToSet(visible)
      <4> HIDE DEF sel
      <4> QED BY <2>1, <2>8, Places
    <3>2. con # sel /\ sel \notin ToSet(hidden)
      BY <2>1, <2>2, <2>4, <3>1
    <3>3. /\ front \in Seq(Windows) /\ IsInjective(front)
          /\ ToSet(front) = (ToSet(visible) \ {sel}) \cup {con}
      <4>1. con \notin ToSet(visible) \ {visible[pos]}
        BY <2>4
      <4> HIDE DEF con, pos, sel
      <4>2. /\ ReplaceAt(visible, pos, con) \in Seq(Windows) /\ IsInjective(ReplaceAt(visible, pos, con))
            /\ ToSet(ReplaceAt(visible, pos, con)) = (ToSet(visible) \ {visible[pos]}) \cup {con}
        BY <2>1, <2>4, <3>1, <4>1, ReplacedIs
      <4> QED BY <3>1, <4>2
    <3>4. rest \in Seq(Windows) /\ IsInjective(rest) /\ ToSet(rest) = ToSet(hidden) \ {con}
      <4> HIDE DEF con
      <4> QED BY <2>1, WithoutIs
    <3>5. hidden[at] = con
      OBVIOUS
    <3> HIDE DEF con, rest, sel, pos, front
    <3>6. /\ hidden2 \in Seq(Windows) /\ IsInjective(hidden2)
          /\ ToSet(hidden2) = (ToSet(hidden) \ {con}) \cup {sel}
      <4>1. CASE ~rotate
        <5>1. sel \notin ToSet(hidden) \ {hidden[at]}
          BY <3>2
        <5>2. /\ ReplaceAt(hidden, at, sel) \in Seq(Windows) /\ IsInjective(ReplaceAt(hidden, at, sel))
              /\ ToSet(ReplaceAt(hidden, at, sel)) = (ToSet(hidden) \ {hidden[at]}) \cup {sel}
          BY <2>0, <2>1, <2>3, <5>1, ReplacedIs
        <5> QED BY <3>5, <4>1, <5>2
      <4>2. CASE rotate /\ i < 0
        <5> DEFINE u == <<sel>>
        <5>1. u \in Seq(Windows) /\ IsInjective(u) /\ ToSet(u) = {sel}
          BY <2>0, OnceEach, Elements
        <5> HIDE DEF u
        <5>2. ToSet(u) \cap ToSet(rest) = {}
          BY <3>2, <3>4, <5>1
        <5>3. u \o rest \in Seq(Windows)
          BY <3>4, <5>1, ConcatProperties
        <5>4. IsInjective(u \o rest)
          BY <3>4, <5>1, <5>2, OnceEach
        <5>5. ToSet(u \o rest) = ToSet(u) \cup ToSet(rest)
          BY <3>4, <5>1, Elements
        <5>6. hidden2 = u \o rest
          BY <4>2 DEF u
        <5> HIDE DEF hidden2
        <5> QED BY <3>4, <5>1, <5>3, <5>4, <5>5, <5>6
      <4>3. CASE rotate /\ ~(i < 0)
        <5> DEFINE a == Append(rest, sel)
        <5>1. a \in Seq(Windows)
          BY <2>0, <3>4, AppendProperties
        <5>2. IsInjective(a)
          BY <2>0, <3>2, <3>4, OnceEach
        <5>3. ToSet(a) = ToSet(rest) \cup {sel}
          BY <2>0, <3>4, Elements
        <5>4. hidden2 = a
          BY <4>3
        <5> HIDE DEF hidden2, a
        <5> QED BY <3>4, <5>1, <5>2, <5>3, <5>4
      <4> QED BY <4>1, <4>2, <4>3
    <3> HIDE DEF hidden2
    <3>7. result \in Seq(Windows) /\ IsInjective(result)
      <4>1. ToSet(front) \cap ToSet(hidden2) = {}
        BY <2>1, <2>2, <3>2, <3>3, <3>6
      <4>2. front \o hidden2 \in Seq(Windows)
        BY <3>3, <3>6, ConcatProperties
      <4>3. IsInjective(front \o hidden2)
        BY <3>3, <3>6, <4>1, OnceEach
      <4> QED BY <4>2, <4>3
    <3> HIDE DEF result, e
    <3>8. /\ Sound(e) /\ con \in Listed(e) /\ e.selected = d.selected
          /\ (e.selected \in e.tags[e.selected] => con \in HereOf(e))
      <4>1. e.tag_id[con] = d.tag_id[con]
        BY <2>4, <2>6, <3>2
      <4> QED BY <2>5, <2>6, <4>1 DEF Kin, HereOf, ExistsOn
    <3>9. Good(WriteOrder(e, result, con))
      BY <3>7, <3>8, WriteOrderGood
    <3>10. OnHiddenStack(d, i, rotate) = WriteOrder(e, result, con)
      BY <1>1, <1>3, <2>8
    <3> QED BY <3>9, <3>10
  <2> QED BY <2>7, <2>8
<1> QED BY <1>2, <1>3

\* tag_repush_tag
LEMMA RepushTiled ==
  ASSUME NEW d, Sound(d), NEW pos \in Nat \ {0}
  PROVE  /\ Sound(Repush(d, pos)) /\ Kin(d, Repush(d, pos)) /\ Repush(d, pos).tag_id = d.tag_id
         /\ Repush(d, pos).on_output = d.on_output /\ Repush(d, pos).floating = d.floating
         /\ ToSet(Shown(Repush(d, pos))) = ToSet(Shown(d))
<1> DEFINE tiled == TiledList(d)
           w == tiled[pos]
           rest == Without(tiled, w)
           u == <<w>>
           result == u \o rest
           s == WriteToParent(Shown(d), result)
           m == WriteToTags([d EXCEPT !.visible_con_set[d.selected] = s])
<1>1. Repush(d, pos) = IF pos > Len(tiled) THEN d ELSE Arrange(m)
  BY DEF Repush, Shown
<1>2. CASE pos > Len(tiled)
  BY <1>1, <1>2, KinTwice
<1>3. CASE ~(pos > Len(tiled))
  <2>0. Base(d) /\ Shown(d) \in Seq(Windows) /\ IsInjective(Shown(d))
    BY Fields DEF Sound, Base, Typed, Shown
  <2>1. tiled \in Seq(Windows) /\ IsInjective(tiled)
    <3> DEFINE S == {v \in Windows : ~IsFloating(d, v)}
    <3>1. tiled = Members(Shown(d), S)
      BY DEF TiledList, Shown
    <3> HIDE DEF tiled, S
    <3> QED BY <2>0, <3>1, MembersTyped, MembersOnce
  <2> HIDE DEF tiled
  <2>2. pos \in 1..Len(tiled)
    BY <1>3, <2>1
  <2>3. w \in Windows /\ w \in ToSet(tiled)
    BY <2>1, <2>2, Places
  <2> HIDE DEF w
  <2>4. rest \in Seq(Windows) /\ IsInjective(rest) /\ ToSet(rest) = ToSet(tiled) \ {w}
    BY <2>1, WithoutIs
  <2>5. u \in Seq(Windows) /\ IsInjective(u) /\ ToSet(u) = {w}
    <3>1. u \in Seq(Windows)
      BY <2>3
    <3>2. IsInjective(u)
      BY <2>3, OnceEach
    <3>3. ToSet(u) = {w}
      BY <2>3, Elements
    <3> QED BY <3>1, <3>2, <3>3
  <2> HIDE DEF rest, u
  <2>6. result \in Seq(Windows) /\ IsInjective(result)
    <3>1. ToSet(u) \cap ToSet(rest) = {}
      BY <2>4, <2>5
    <3>2. u \o rest \in Seq(Windows)
      BY <2>4, <2>5, ConcatProperties
    <3>3. IsInjective(u \o rest)
      BY <2>4, <2>5, <3>1, OnceEach
    <3> QED BY <3>2, <3>3
  <2> HIDE DEF result
  <2>7. s \in Seq(Windows) /\ IsInjective(s) /\ ToSet(s) = ToSet(Shown(d))
    BY <2>0, <2>6, WrittenToParent
  <2> HIDE DEF s
  <2>8. /\ Sound(m) /\ Kin(d, m) /\ Shown(m) = s /\ m.tag_id = d.tag_id /\ m.on_output = d.on_output
        /\ m.floating = d.floating
    BY <2>7, ReorderSound
  <2> HIDE DEF m
  <2> DEFINE a == Arrange(m)
  <2>9. Sound(a) /\ SameLists(m, a) /\ a.floating = m.floating
    BY <2>8, ArrangeSound DEF Arranged
  <2>10. Repush(d, pos) = a
    BY <1>1, <1>3
  <2> HIDE DEF a
  <2>11. Kin(d, a) /\ Shown(a) = Shown(m)
    BY <2>8, <2>9, SameShows, KinTwice
  <2> QED BY <2>7, <2>8, <2>9, <2>10, <2>11 DEF SameLists
<1> QED BY <1>2, <1>3

\* lib_zoom
LEMMA ZoomGood ==
  ASSUME Good(desk), Zoom PROVE Good(desk')
<1> DEFINE tiled == TiledList(desk)
           sel == Focused(desk)
           pos == IF sel = tiled[1] THEN 2 ELSE Position(tiled, sel)
           r == Repush(desk, pos)
           d == Arrange(r)
           master == TiledList(d)[1]
           T(e) == {w \in Windows : ~IsFloating(e, w)}
<1>1. Contains(tiled, sel) /\ desk' = FocusContainer(d, d.selected, master)
  BY DEF Zoom
<1>2. Sound(desk) /\ Shown(desk) \in Seq(Windows)
  BY Fields DEF Good, Sound, Base, Typed, Shown
<1>3. tiled \in Seq(Windows) /\ ToSet(tiled) = ToSet(Shown(desk)) \cap T(desk)
  <2>1. tiled = Members(Shown(desk), T(desk))
    BY DEF TiledList, Shown
  <2> HIDE DEF tiled, T
  <2> QED BY <1>2, <2>1, MembersTyped, MembersSet
<1> HIDE DEF tiled, sel
<1>4. pos \in Nat \ {0} /\ sel \in ToSet(tiled)
  <2>1. Position(tiled, sel) \in 1..Len(tiled) /\ sel \in ToSet(tiled)
    BY <1>1, <1>3, Places
  <2> QED BY <2>1
<1> HIDE DEF pos
<1>5. /\ Sound(r) /\ Kin(desk, r) /\ r.tag_id = desk.tag_id /\ r.on_output = desk.on_output
      /\ r.floating = desk.floating /\ ToSet(Shown(r)) = ToSet(Shown(desk))
  BY <1>2, <1>4, RepushTiled
<1> HIDE DEF r
<1>6. Good(d) /\ Sound(d) /\ SameLists(r, d) /\ d.floating = r.floating
  BY <1>5, ArrangeGood, ArrangeSound DEF Arranged
<1> HIDE DEF d
<1>7. T(d) = T(desk) /\ ToSet(Shown(d)) = ToSet(Shown(desk)) /\ Shown(d) \in Seq(Windows)
  <2>1. Shown(d) = Shown(r)
    BY <1>6, SameShows
  <2>2. d.tag_id = desk.tag_id /\ d.on_output = desk.on_output /\ d.floating = desk.floating
        /\ d.selected = desk.selected /\ d.tags = desk.tags
    BY <1>5, <1>6 DEF SameLists, Kin
  <2>3. Shown(d) \in Seq(Windows)
    BY <1>6, Fields DEF Sound, Base, Typed, Shown
  <2> QED BY <1>5, <2>1, <2>2, <2>3 DEF IsFloating, CurrentTag, ExistsOn
<1>8. master \in ToSet(Shown(d))
  <2> DEFINE list == TiledList(d)
  <2>1. list = Members(Shown(d), T(d))
    BY DEF TiledList, Shown
  <2> HIDE DEF list, T
  <2>2. list \in Seq(Windows) /\ ToSet(list) = ToSet(Shown(d)) \cap T(d)
    BY <1>7, <2>1, MembersTyped, MembersSet
  <2>3. sel \in ToSet(list)
    BY <1>3, <1>4, <1>7, <2>2
  <2>4. 1 \in 1..Len(list)
    BY <2>2, <2>3, Places
  <2>5. list[1] \in ToSet(list)
    BY <2>2, <2>4, Places
  <2> QED BY <2>2, <2>5 DEF list
<1> HIDE DEF master
<1>9. master \in Listed(d) /\ (d.selected \in d.tags[d.selected] => master \in InSight(d))
  BY <1>6, <1>8, ShownInSight
<1> QED BY <1>1, <1>6, <1>9, FocusGood

-----------------------------------------------------------------------------
(* The scratchpad *)

\* A user who swaps tags has no scratchpad: a dragged window whose tag was
\* never on the output could go to the scratchpad without the selected tag
\* looking up what it shows, see the README.
KeysApart == \A s \in Setups : ~({"swap", "pad"} \subseteq s.keys)

\* A window that move_to_scratchpad puts into the scratchpad is not in it any
\* more, and is tiled; without a tag it was tiled before.
LEMMA LeavingSound ==
  ASSUME NEW d, Sound(d), NEW w \in Listed(d)
  PROVE  LET e == SetFloating(RemoveFromScratchpad(d, w), w, TRUE, FALSE)
         IN  /\ Sound(e) /\ Kin(d, e) /\ w \notin e.on_scratchpad
             /\ d.tag_id[w] = INVALID_TAG_ID => e.tag_id[w] = INVALID_TAG_ID
<1> DEFINE r == RemoveFromScratchpad(d, w)
           f == FixPosition(r, w)
           p == PropertySetFloating(f, w, FALSE)
           e == SetFloating(r, w, TRUE, FALSE)
<1>1. e = IF IsFloating(r, w) THEN p ELSE r
  <2>1. IsFloating(r, w) \in BOOLEAN
    BY DEF IsFloating
  <2> QED BY <2>1 DEF SetFloating
<1>2. /\ Sound(r) /\ Kin(d, r) /\ w \notin r.on_scratchpad
      /\ r.tag_id = d.tag_id /\ r.on_output = d.on_output
  BY RemoveFromScratchpadSound
<1>3. w \in Windows
  BY ListedMapped DEF Sound
<1> HIDE DEF r
<1>4. CASE ~IsFloating(r, w)
  <2>1. e = r
    BY <1>1, <1>4
  <2> HIDE DEF e
  <2> QED BY <1>2, <2>1 DEF e, r
<1>5. CASE IsFloating(r, w)
  <2>1. Sound(f) /\ Kin(r, f) /\ f.on_scratchpad = r.on_scratchpad
    BY <1>2, FixPositionSound
  <2> HIDE DEF f
  <2>2. w \in Listed(f)
    BY <1>2, <2>1 DEF Kin
  <2>3. Sound(p) /\ Kin(f, p) /\ p.on_scratchpad \subseteq f.on_scratchpad
    BY <2>1, <2>2, TiledIs
  <2> HIDE DEF p
  <2>4. Kin(d, p)
    BY <1>2, <2>1, <2>3, KinTwice
  <2>5. d.tag_id[w] # INVALID_TAG_ID
    <3> SUFFICES ASSUME d.tag_id[w] = INVALID_TAG_ID PROVE FALSE
      OBVIOUS
    <3>1. r.on_output \subseteq Tags /\ r.floating \in [Windows -> SUBSET Tags]
      BY <1>2, Fields DEF Sound, Base, Typed
    <3>2. CurrentTag(r, w) = INVALID_TAG_ID
      BY <1>2, <3>1, TagZero DEF CurrentTag, ExistsOn
    <3> QED BY <1>3, <1>5, <3>1, <3>2, TagZero DEF IsFloating
  <2>6. e = p
    BY <1>1, <1>5
  <2> HIDE DEF e
  <2> QED BY <1>2, <2>1, <2>3, <2>4, <2>5, <2>6 DEF e, r
<1> QED BY <1>4, <1>5

\* A window of the lists in the scratchpad has no tag.
LEMMA PaddedBase ==
  ASSUME NEW d, Sound(d), NEW w \in Listed(d), w \notin d.on_scratchpad, NEW at \in Int,
         "pad" \in d.setup.keys, NEW e,
         e = [d EXCEPT !.tag_id[w] = INVALID_TAG_ID, !.on_scratchpad = @ \cup {w},
                       !.scratchpad = ListInsert(@, at, w)]
  PROVE  /\ Base(e) /\ Kin(d, e)
         /\ d.tag_id[w] = INVALID_TAG_ID => Shows(e)
<1> DEFINE s == ListInsert(d.scratchpad, at, w)
<1>0. /\ Base(d) /\ Shows(d) /\ d \in Desks /\ d.scratchpad \in Seq(Windows) /\ w \in Windows
      /\ d.tag_id \in [Windows -> Tags \cup {INVALID_TAG_ID}] /\ d.on_scratchpad \subseteq Windows
  BY Fields, ListedMapped DEF Sound, Base, Typed
<1>1. s \in Seq(Windows) /\ IsInjective(s) /\ ToSet(s) = d.on_scratchpad \cup {w}
  <2>1. IsInjective(d.scratchpad) /\ ToSet(d.scratchpad) = d.on_scratchpad
    BY <1>0 DEF Base, Typed, Padded
  <2> DEFINE q == d.scratchpad
  <2>2. q \in Seq(Windows) /\ IsInjective(q) /\ ToSet(q) = d.on_scratchpad /\ w \notin ToSet(q)
    BY <1>0, <2>1
  <2> HIDE DEF q
  <2>3. /\ ListInsert(q, at, w) \in Seq(Windows) /\ IsInjective(ListInsert(q, at, w))
        /\ ToSet(ListInsert(q, at, w)) = ToSet(q) \cup {w}
    BY <1>0, <2>2, InsertedAnywhere
  <2> QED BY <2>2, <2>3 DEF q
<1> DEFINE ids == [d.tag_id EXCEPT ![w] = INVALID_TAG_ID]
           pad == d.on_scratchpad \cup {w}
<1>2. e = [d EXCEPT !.tag_id = ids, !.on_scratchpad = pad, !.scratchpad = s]
  <2> HIDE DEF s
  <2>1. e = [d EXCEPT !.tag_id[w] = INVALID_TAG_ID, !.on_scratchpad = @ \cup {w}, !.scratchpad = s]
    BY DEF s
  <2> QED BY <1>0, <2>1 DEF Desks
<1>12. ids \in [Windows -> Tags \cup {INVALID_TAG_ID}] /\ pad \subseteq Windows
  BY <1>0
<1> HIDE DEF s, ids, pad
<1>3. /\ e \in Desks /\ e.tag_id = ids /\ e.on_scratchpad = pad /\ e.scratchpad = s
      /\ e.setup = d.setup /\ e.created = d.created /\ e.mapped = d.mapped
      /\ e.selected = d.selected /\ e.tags = d.tags /\ e.on_output = d.on_output
      /\ e.con_set = d.con_set /\ e.visible_con_set = d.visible_con_set
      /\ e.focus_set = d.focus_set /\ e.visible_focus_set = d.visible_focus_set
      /\ e.keyboard = d.keyboard /\ e.grab_c = d.grab_c /\ e.fault = d.fault
  <2>0. d \in Desks
    BY <1>0
  <2>1. e \in Desks
    <3>1. s \in Seq(Windows)
      BY <1>1
    <3> QED BY ONLY <2>0, <3>1, <1>2, <1>12 DEF Desks
  <2>2. e.tag_id = ids /\ e.on_scratchpad = pad /\ e.scratchpad = s
    BY <2>0, <1>2 DEF Desks
  <2>3. /\ e.setup = d.setup /\ e.created = d.created /\ e.mapped = d.mapped
        /\ e.selected = d.selected /\ e.tags = d.tags /\ e.on_output = d.on_output
        /\ e.con_set = d.con_set /\ e.visible_con_set = d.visible_con_set
        /\ e.focus_set = d.focus_set /\ e.visible_focus_set = d.visible_focus_set
        /\ e.keyboard = d.keyboard /\ e.grab_c = d.grab_c /\ e.fault = d.fault
    BY <2>0, <1>2 DEF Desks
  <2> QED BY <2>1, <2>2, <2>3
<1>4. Listed(e) = Listed(d) /\ Shown(e) = Shown(d)
  BY <1>3 DEF Listed, Shown
<1>5. \A v \in Windows : e.tag_id[v] = IF v = w THEN INVALID_TAG_ID ELSE d.tag_id[v]
  BY <1>0, <1>3 DEF ids
<1>6. Typed(e) /\ Agree(e)
  BY <1>0, <1>1, <1>3 DEF Base, Typed, Agree
<1>7. Padded(e)
  BY <1>0, <1>1, <1>3, <1>4 DEF pad, Base, Padded
<1>8. Found(e)
  <2>1. d.mapped \subseteq Windows
    BY <1>0, Fields
  <2> QED BY <1>0, <1>3, <1>4, <1>5, <2>1 DEF Base, Found
<1>9. Placed(e)
  BY <1>0, <1>3, <1>5 DEF Base, Placed
<1>10. Kin(d, e)
  BY <1>3, <1>4 DEF Kin
<1>11. ASSUME d.tag_id[w] = INVALID_TAG_ID PROVE Shows(e)
  <2>1. e.tag_id = d.tag_id
    BY <1>0, <1>3, <1>11 DEF ids
  <2>2. HereOf(e) = HereOf(d)
    BY <1>3, <2>1 DEF HereOf, ExistsOn
  <2> QED BY <1>0, <1>3, <1>4, <2>1, <2>2 DEF Shows
<1> QED BY <1>6, <1>7, <1>8, <1>9, <1>10, <1>11 DEF Base

\* move_to_scratchpad
LEMMA ToScratchpadGood ==
  ASSUME NEW d, Sound(d), NEW w \in Listed(d), NEW pos \in Int,
         "pad" \in d.setup.keys, "swap" \notin d.setup.keys
  PROVE  Good(ToScratchpad(d, w, pos))
<1> DEFINE tiled == SetFloating(RemoveFromScratchpad(d, w), w, TRUE, FALSE)
           len == Len(tiled.scratchpad)
           at == IF len = 0 THEN 0 ELSE RelativeIndex(0, pos, len + 1)
           e == [tiled EXCEPT !.tag_id[w] = INVALID_TAG_ID,
                              !.on_scratchpad = @ \cup {w},
                              !.scratchpad = ListInsert(@, at, w)]
           tag == IF d.tag_id[w] \in d.on_output THEN d.selected ELSE INVALID_TAG_ID
           r == Reload(e, tag)
           a == Arrange(r)
<1>1. ToScratchpad(d, w, pos) = FocusMostRecent(a, tag)
  BY DEF ToScratchpad
<1>2. /\ Sound(tiled) /\ Kin(d, tiled) /\ w \notin tiled.on_scratchpad
      /\ d.tag_id[w] = INVALID_TAG_ID => tiled.tag_id[w] = INVALID_TAG_ID
  BY LeavingSound
<1>3. d \in Desks /\ d.selected \in Tags /\ w \in Windows /\ Placed(d) /\ tiled \in Desks
  BY <1>2, Fields, ListedMapped DEF Sound, Base, Typed
<1> HIDE DEF tiled
<1>4. at \in Int
  <2>1. tiled.scratchpad \in Seq(Windows)
    BY <1>3, Fields
  <2>2. len \in Nat
    BY <2>1
  <2> DEFINE z == 0
             n == len + 1
  <2>3. z \in Int /\ n \in Nat \ {0}
    BY <2>2
  <2> HIDE DEF z, n
  <2>4. RelativeIndex(z, pos, n) \in 0..(n - 1)
    BY <2>3, RelativeIn
  <2>5. RelativeIndex(z, pos, n) \in Int
    BY <2>3, <2>4
  <2>6. RelativeIndex(0, pos, len + 1) \in Int
    BY <2>5 DEF z, n
  <2> QED BY <2>6
<1> HIDE DEF at
<1>5. w \in Listed(tiled) /\ "pad" \in tiled.setup.keys
  BY <1>2 DEF Kin
<1> DEFINE b == e
<1>6. b = [tiled EXCEPT !.tag_id[w] = INVALID_TAG_ID, !.on_scratchpad = @ \cup {w},
                        !.scratchpad = ListInsert(@, at, w)]
  OBVIOUS
<1> HIDE DEF b
<1>7. /\ Base(b) /\ Kin(tiled, b)
      /\ tiled.tag_id[w] = INVALID_TAG_ID => Shows(b)
  BY <1>2, <1>4, <1>5, <1>6, PaddedBase
<1>8. tag \in Tags \cup {INVALID_TAG_ID} /\ (tag = INVALID_TAG_ID => Shows(b))
  <2>1. d.tag_id[w] \notin d.on_output => d.tag_id[w] = INVALID_TAG_ID
    BY <1>3 DEF Placed
  <2> QED BY <1>2, <1>3, <1>7, <2>1, TagZero
<1> HIDE DEF tag
<1>9. Sound(Reload(b, tag))
  BY <1>7, <1>8, ReloadSound DEF Sound
<1>10. Sound(r)
  BY <1>9 DEF b
<1> HIDE DEF r
<1>11. Good(a)
  BY <1>10, ArrangeGood
<1> HIDE DEF a
<1>12. Good(FocusMostRecent(a, tag))
  BY <1>8, <1>11, FocusMostRecentGood DEF Good
<1> QED BY <1>1, <1>12

\* The window that show_scratchpad takes, or that is focused, is in the lists.
LEMMA PadListed ==
  ASSUME NEW d, Sound(d)
  PROVE  /\ Focused(d) # None => Focused(d) \in Listed(d)
         /\ d.scratchpad # <<>> => Head(d.scratchpad) \in Listed(d) /\ Head(d.scratchpad) \in Windows
<1>1. Base(d) /\ d.scratchpad \in Seq(Windows)
  BY Fields DEF Sound, Base, Typed
<1>2. ASSUME d.scratchpad # <<>> PROVE Head(d.scratchpad) \in Listed(d) /\ Head(d.scratchpad) \in Windows
  <2>1. 1 \in 1..Len(d.scratchpad)
    BY <1>1, <1>2, Places
  <2>2. d.scratchpad[1] \in ToSet(d.scratchpad) /\ d.scratchpad[1] \in Windows
    BY <1>1, <2>1, Places
  <2>3. Head(d.scratchpad) = d.scratchpad[1]
    BY <1>1, <1>2
  <2> QED BY <1>1, <2>2, <2>3 DEF Base, Padded
<1> QED BY <1>1, <1>2, FocusedOf

\* lib_move_to_scratchpad
LEMMA MoveToScratchpadGood ==
  ASSUME KeysApart, Good(desk), Bound("pad"), MoveToScratchpad PROVE Good(desk')
<1> DEFINE z == 0
           w == Focused(desk)
<1>1. Sound(desk) /\ w \in Listed(desk) /\ z \in Int
  BY PadListed DEF Good, MoveToScratchpad
<1>2. "pad" \in desk.setup.keys /\ "swap" \notin desk.setup.keys
  BY Fields DEF Good, Sound, Base, Typed, Bound, KeysApart
<1>3. desk' = ToScratchpad(desk, w, z)
  BY DEF MoveToScratchpad
<1> HIDE DEF z, w
<1> QED BY <1>1, <1>2, <1>3, ToScratchpadGood

\* What show_scratchpad does with a window that comes
LEMMA BringGood ==
  ASSUME NEW d, Sound(d), NEW w \in Listed(d) PROVE Good(Bring(d, w))
<1> DEFINE m == SetTagId(d, w, d.selected)
           e == SetFloating(m, w, TRUE, TRUE)
           f == FocusContainer(e, e.selected, w)
<1>1. Bring(d, w) = Arrange(f)
  BY DEF Bring
<1>2. w \in Windows /\ d.selected \in Tags
  BY Fields, ListedMapped DEF Sound, Base, Typed
<1>3. Sound(m) /\ Kin(d, m)
  BY <1>2, SetTagIdSound
<1> HIDE DEF m
<1>4. Sound(e) /\ Kin(m, e)
  BY <1>2, <1>3, SetFloatingSound
<1> HIDE DEF e
<1>5. w \in Listed(e)
  BY <1>3, <1>4 DEF Kin
<1>6. Sound(f)
  BY <1>4, <1>5, FocusListed
<1> HIDE DEF f
<1> QED BY <1>1, <1>6, ArrangeGood

\* After undefined behaviour the lists are what they were.
LEMMA FaultGood ==
  ASSUME NEW d, Good(d) PROVE Good([d EXCEPT !.fault = "null"])
<1> DEFINE e == [d EXCEPT !.fault = "null"]
<1>0. Sound(d) /\ Base(d) /\ Shows(d) /\ Stacked(d) /\ d \in Desks
  BY DEF Good, Sound, Base, Typed
<1>1. /\ e \in Desks /\ e.visible_focus_set = d.visible_focus_set /\ e.focus_set = d.focus_set
      /\ OnlyFocus(d, e) /\ SameLists(d, e) /\ e.keyboard = d.keyboard /\ e.fault = "null"
  BY <1>0 DEF Desks, SameLists, OnlyFocus
<1> HIDE DEF e
<1>2. StacksOf(d, e)
  BY <1>0, <1>1 DEF StacksOf, Base, Typed, Found
<1>3. Sound(e)
  BY <1>0, <1>1, <1>2, SameBase, SameShows DEF Sound
<1>4. Stacked(e)
  <2>1. InStack(e)
    BY <1>0, <1>1, SameShows DEF Stacked, InStack, SameLists
  <2>2. Seen(e)
    BY <1>0, <1>1, SameSight DEF Stacked
  <2> QED BY <2>1, <2>2 DEF Stacked
<1>5. Keyed(e)
  BY <1>1 DEF Keyed
<1>6. Steady(e)
  BY <1>1, SteadyFocus DEF Good
<1> QED BY <1>3, <1>4, <1>5, <1>6 DEF Good, e

\* hide_container
LEMMA HideContainerGood ==
  ASSUME NEW d, Good(d), NEW w \in Listed(d), d.tag_id[w] = d.selected,
         "pad" \in d.setup.keys, "swap" \notin d.setup.keys
  PROVE  Good(HideContainer(d, w))
<1> DEFINE z == -1
<1>1. z \in Int /\ Sound(d) /\ w \in Windows /\ d.selected \in d.on_output
  BY ListedMapped DEF Good, Sound, Base, Placed
<1>2. HideContainer(d, w) \in {[d EXCEPT !.fault = "null"], ToScratchpad(d, w, z),
                               FocusContainer(d, d.selected, w)}
  BY DEF HideContainer
<1> HIDE DEF z
<1>3. Good(ToScratchpad(d, w, z))
  BY <1>1, ToScratchpadGood
<1>4. d.selected \in d.tags[d.selected] => w \in InSight(d)
  BY <1>1 DEF InSight, ExistsOn
<1> QED BY <1>2, <1>3, <1>4, FaultGood, FocusGood

\* lib_show_scratchpad
LEMMA ShowScratchpadGood ==
  ASSUME KeysApart, Good(desk), Bound("pad"), ShowScratchpad PROVE Good(desk')
<1> DEFINE w == Head(desk.scratchpad)
           sel == desk.selected
           h == [desk.hidden EXCEPT ![w] = @ \ {sel}]
           e == [desk EXCEPT !.hidden[w] = @ \ {sel}]
<1>1. Sound(desk) /\ w \in Listed(desk) /\ w \in Windows
  BY PadListed DEF Good, ShowScratchpad
<1>2. "pad" \in desk.setup.keys /\ "swap" \notin desk.setup.keys
  BY Fields DEF Good, Sound, Base, Typed, Bound, KeysApart
<1>3. desk' = IF GetHidden(desk, w) THEN Bring(e, w)
              ELSE IF desk.tag_id[w] # sel THEN Bring(desk, w) ELSE HideContainer(desk, w)
  BY DEF ShowScratchpad
<1> HIDE DEF w
<1>4. CASE GetHidden(desk, w)
  <2>1. desk \in Desks /\ desk.hidden \in [Windows -> SUBSET Tags] /\ desk.floating \in [Windows -> SUBSET Tags]
    BY <1>1, Fields DEF Sound, Base, Typed
  <2>2. h \in [Windows -> SUBSET Tags] /\ e = [desk EXCEPT !.hidden = h, !.floating = desk.floating]
    BY <1>1, <2>1 DEF Desks
  <2> HIDE DEF e, h
  <2>3. Sound(e) /\ Listed(e) = Listed(desk)
    BY <1>1, <2>1, <2>2, HiddenSound, SameShows
  <2> QED BY <1>1, <1>3, <1>4, <2>3, BringGood
<1>5. CASE ~GetHidden(desk, w) /\ desk.tag_id[w] # sel
  BY <1>1, <1>3, <1>5, BringGood
<1>6. CASE ~GetHidden(desk, w) /\ desk.tag_id[w] = sel
  <2>1. Good(HideContainer(desk, w))
    BY <1>1, <1>2, <1>6, HideContainerGood
  <2> QED BY <1>3, <1>6, <2>1
<1> QED BY <1>4, <1>5, <1>6

-----------------------------------------------------------------------------
(* The theorems *)

\* Every handler keeps the invariant.
LEMMA NextGood ==
  ASSUME KeysApart, Good(desk), [Next]_desk PROVE Good(desk')
<1>1. CASE \E w \in Windows : Create(w) \/ Map(w) \/ Unmap(w) \/ Destroy(w) \/ FocusWindow(w)
  BY <1>1, CreateGood, MapGood, UnmapGood, DestroyGood, FocusWindowGood
<1>2. CASE \E t \in Tags : View(t)
  BY <1>2, ViewGood
<1>3. CASE ArrangeAgain
  BY <1>3, ArrangeAgainGood
<1>4. CASE Bound("sets") /\ \E bits \in ShownSets : SetTags(bits)
  BY <1>4, SetTagsGood
<1>5. CASE Bound("move") /\ \E t \in Tags : MoveToTag(Focused(desk), t)
  BY <1>5, MoveToTagGood
<1>6. CASE Bound("swap") /\ \E t \in Tags : SwapSmart(t)
  BY <1>6, SwapSmartGood
<1>7. CASE Bound("order") /\ \E i \in {1, -1} : FocusOnStack(i)
  <2>1. PICK i \in {1, -1} : FocusOnStack(i)
    BY <1>7
  <2>2. i \in Int
    OBVIOUS
  <2> QED BY <2>1, <2>2, FocusOnStackGood
<1>8. CASE Bound("order") /\ \E i \in {0, -1} : FocusOnHiddenStack(i) \/ SwapOnHiddenStack(i)
  <2>1. PICK i \in {0, -1} : FocusOnHiddenStack(i) \/ SwapOnHiddenStack(i)
    BY <1>8
  <2>2. i \in Int
    OBVIOUS
  <2>3. \E rotate \in BOOLEAN : desk' = OnHiddenStack(desk, i, rotate)
    BY <2>1 DEF FocusOnHiddenStack, SwapOnHiddenStack
  <2> QED BY <1>8, <2>2, <2>3, OnHiddenStackGood DEF Bound
<1>9. CASE Bound("order") /\ Zoom
  BY <1>9, ZoomGood
<1>10. CASE Bound("float") /\ ToggleFloating
  BY <1>10, ToggleFloatingGood
<1>11. CASE Bound("drag") /\ (Drag \/ Release \/ \E w \in Windows : Grab(w))
  BY <1>11, DragGood, ReleaseGood, GrabGood
<1>12. CASE Bound("pad") /\ (MoveToScratchpad \/ ShowScratchpad)
  BY <1>12, MoveToScratchpadGood, ShowScratchpadGood
<1>13. CASE UNCHANGED desk
  BY <1>13
<1> QED
  BY <1>1, <1>2, <1>3, <1>4, <1>5, <1>6, <1>7, <1>8, <1>9, <1>10, <1>11, <1>12, <1>13 DEF Next

\* The invariant holds in every state.
THEOREM DeskAlwaysGood ==
  ASSUME KeysApart PROVE Spec => []Good(desk)
<1>1. Init => Good(desk)
  BY InitGood
<1>2. Good(desk) /\ [Next]_desk => Good(desk)'
  BY NextGood
<1> QED BY <1>1, <1>2, PTL DEF Spec

\* What the invariant says of the lists: TypeOK and ListsAgree.
LEMMA GoodAgrees ==
  Good(desk) => TypeOK /\ ListsAgree
BY DEF Good, Sound, Base, Typed, Agree, TypeOK, ListsAgree

\* The lists hold no window twice and none that is unmapped, and con_set and
\* focus_set of all the tags hold the same ones, whatever the user does and
\* wherever new windows go: remove_container_from_tile and DO_ACTION_GLOBALLY
\* forget no list, and writing an order back loses and doubles nothing.
THEOREM ListsAlwaysAgree ==
  ASSUME KeysApart PROVE Spec => [](TypeOK /\ ListsAgree)
BY DeskAlwaysGood, GoodAgrees, PTL

\* And what the selected tag shows keeps the order of its list, and is all that
\* is there, when new windows go to the front as they do by default: no command
\* reorders one list and forgets the other (tag_write_to_tags).
THEOREM ListsAlwaysSound ==
  ASSUME KeysApart, AtFront PROVE Spec => []ListsSound
<1>1. Good(desk) => ListsSound
  <2> SUFFICES ASSUME Good(desk) PROVE ListsSound
    OBVIOUS
  <2>1. TypeOK /\ ListsAgree
    BY GoodAgrees
  <2>2. HereOf(desk) = Here(desk.selected)
    BY DEF HereOf, Here
  <2>3. ShownInOrder
    BY <2>2 DEF Good, Sound, Shows, Shown, ShownInOrder, ShowsItself, Bound
  <2> QED BY <2>1, <2>3 DEF ListsSound
<1> QED BY <1>1, DeskAlwaysGood, PTL

\* The focus stack that the focus follows is what is there, in the order of the
\* tag's focus_set, and the focused window has the keyboard when it can be seen:
\* no handler leaves the reduced stack, the tag's stack and the seat apart.
THEOREM FocusAlwaysSound ==
  ASSUME KeysApart PROVE Spec => []FocusSound
<1>1. Good(desk) => FocusSound
  <2>1. HereOf(desk) = Here(desk.selected)
    BY DEF HereOf, Here
  <2> QED BY <2>1 DEF Good, Stacked, InStack, Keyed, FocusSound, FocusStackIsWhatIsHere,
                      KeyboardAtFocus, ShowsItself, Live
<1> QED BY <1>1, DeskAlwaysGood, PTL

\* The scratchpad and the marks in the containers agree, and it holds mapped
\* windows only: a window that is unmapped leaves it
\* (remove_container_from_scratchpad).
THEOREM ScratchpadAlwaysAgrees ==
  ASSUME KeysApart PROVE Spec => []ScratchpadAgrees
<1>1. Good(desk) => ScratchpadAgrees
  BY ListedMapped DEF Good, Sound, Base, Padded, ScratchpadAgrees
<1> QED BY <1>1, DeskAlwaysGood, PTL

-----------------------------------------------------------------------------
(* Where the focus is after a handler *)

\* e is a desk whose focus is at w, and whose stacks of the other tags are those of d.
FocusAt(d, e, w) ==
  Focused(e) = w /\ \A t \in Tags \ {d.selected} : e.focus_set[t] = d.focus_set[t]

\* tag_focus_container moves the focus to the window or nowhere.
LEMMA FocusContainerAt ==
  ASSUME NEW d, Base(d), NEW w \in Listed(d) \cup {None}
  PROVE  LET e == FocusContainer(d, d.selected, w)
         IN  /\ FocusAt(d, e, Focused(d)) \/ (w # None /\ FocusAt(d, e, w))
             /\ w # None /\ w \in d.created /\ ~GetHidden(d, w) => Focused(e) = w
<1> DEFINE sel == d.selected
           r == RepushOnFocusStack(d, w)
           e == FocusContainer(d, sel, w)
<1>0. d \in Desks /\ sel \in Tags /\ sel \in d.on_output /\ d.focus_set \in [Tags -> Seq(Windows)]
      /\ FocusAt(d, d, Focused(d))
  BY Fields DEF Base, Typed, Placed, FocusAt
<1>1. CASE w = None
  BY <1>0, <1>1 DEF FocusContainer
<1>2. CASE w # None /\ w \notin d.created
  <2>1. e = [d EXCEPT !.fault = "use_after_free"]
    BY <1>2 DEF FocusContainer
  <2> HIDE DEF e
  <2>2. e.visible_focus_set = d.visible_focus_set /\ e.focus_set = d.focus_set
    BY <1>0, <2>1 DEF Desks
  <2>3. FocusAt(d, e, Focused(d))
    BY <2>2 DEF FocusAt, Focused
  <2> QED BY <1>2, <2>3 DEF e
<1>3. CASE w # None /\ w \in d.created /\ GetHidden(d, w)
  <2>1. e = d
    BY <1>3 DEF FocusContainer
  <2> QED BY <1>0, <1>3, <2>1
<1>4. CASE w # None /\ w \in d.created /\ ~GetHidden(d, w)
  <2>1. e = FocusClient(r, Focused(r))
    BY <1>0, <1>4 DEF FocusContainer
  <2>2. Base(r) /\ Focused(r) = w /\ OnlyFocus(d, r)
    BY <1>4, RepushSound
  <2>3. \A t \in Tags \ {sel} : r.focus_set[t] = d.focus_set[t]
    <3> DEFINE s == <<w>> \o Without(d.visible_focus_set, w)
               o == WriteToParent(d.focus_set[sel], s)
    <3>1. r = [d EXCEPT !.visible_focus_set = s, !.focus_set[sel] = o]
      BY DEF RepushOnFocusStack
    <3> HIDE DEF s, o, r
    <3>2. r.focus_set = [d.focus_set EXCEPT ![sel] = o]
      BY <1>0, <3>1 DEF Desks
    <3> QED BY <1>0, <3>2
  <2> HIDE DEF r, e
  <2>4. e.visible_focus_set = r.visible_focus_set /\ e.focus_set = r.focus_set
    <3>1. r \in Desks
      BY <2>2 DEF Base, Typed
    <3> QED BY <2>1, <3>1 DEF FocusClient, Desks
  <2>5. FocusAt(d, e, w)
    BY <2>2, <2>3, <2>4 DEF FocusAt, Focused
  <2> QED BY <1>4, <2>5 DEF e, FocusAt
<1> QED BY <1>1, <1>2, <1>3, <1>4 DEF e

\* There is nothing to focus but what the stack holds.
Reached(d) == d.visible_focus_set = <<>> => Shown(d) = <<>>

\* tag_focus_most_recent_container leaves the focus where it is.
LEMMA MostRecentAt ==
  ASSUME NEW d, Sound(d), Reached(d)
  PROVE  FocusAt(d, FocusMostRecent(d, d.selected), Focused(d))
<1> DEFINE sel == d.selected
           stack == d.visible_focus_set
           w == First(IF stack = <<>> THEN d.visible_con_set[sel] ELSE stack)
<1>1. Base(d) /\ sel # INVALID_TAG_ID
  BY Fields, TagZero DEF Sound, Base, Typed
<1>2. w = Focused(d)
  BY DEF Reached, Shown, Focused, First
<1>3. FocusMostRecent(d, sel) = FocusContainer(d, sel, w)
  BY <1>1 DEF FocusMostRecent
<1>4. w \in Listed(d) \cup {None}
  BY <1>1, <1>2, FocusedOf
<1> HIDE DEF w
<1> QED BY <1>1, <1>2, <1>3, <1>4, FocusContainerAt

\* When all that the selected tag shows is on the output the stack is what is here,
\* and there is nothing else.
LEMMA StackReaches ==
  ASSUME NEW d, Sound(d), InStack(d), d.selected \in d.tags[d.selected], d.tags[d.selected] \subseteq d.on_output
  PROVE  Reached(d)
<1> DEFINE all == d.focus_set[d.selected]
<1>1. /\ all \in Seq(Windows) /\ ToSet(all) = Listed(d) /\ Shown(d) \in Seq(Windows)
  BY Fields DEF Sound, Base, Typed, Agree, Listed, Shown
<1>2. d.visible_focus_set = Members(all, HereOf(d))
  BY DEF InStack
<1>3. ToSet(Shown(d)) \subseteq Listed(d) \cap HereOf(d)
  BY DEF Sound, Shows
<1>4. ToSet(d.visible_focus_set) = Listed(d) \cap HereOf(d)
  BY <1>1, <1>2, MembersSet
<1>5. d.visible_focus_set = <<>> => ToSet(Shown(d)) = {}
  BY <1>3, <1>4, Elements
<1> QED BY <1>1, <1>5, Elements DEF Reached

\* arrange_monitor puts the focus at the first window of the tag's stack that is here.
LEMMA ArrangeAt ==
  ASSUME NEW d, Sound(d), d.selected \in d.tags[d.selected], d.tags[d.selected] \subseteq d.on_output
  PROVE  /\ FocusAt(d, Arrange(d), First(Members(d.focus_set[d.selected], HereOf(d))))
         /\ Reached(Arrange(d))
<1> DEFINE h == UpdateHidden(d)
           u == UpdateReducedFocusStack(h)
           e == FocusMostRecent(u, u.selected)
<1>1. Arrange(d) = e
  BY DEF Arrange
<1>2. Sound(h) /\ SameLists(d, h)
  BY UpdateHiddenSound
<1>3. h.focus_set = d.focus_set
  BY DEF UpdateHidden, Sound, Base, Typed, Desks
<1> HIDE DEF h
<1>4. Sound(u) /\ Stacked(u) /\ OnlyFocus(h, u)
  BY <1>2, StackAfter
<1>5. u.focus_set = h.focus_set
  BY <1>2 DEF UpdateReducedFocusStack, Sound, Base, Typed, Desks
<1> HIDE DEF u
<1>6. SameLists(d, u) /\ HereOf(u) = HereOf(d)
  BY <1>2, <1>4, SameTwice, SameShows
<1>7. u.selected = d.selected /\ u.tags = d.tags /\ u.on_output = d.on_output
  BY <1>6 DEF SameLists
<1>8. Focused(u) = First(Members(d.focus_set[d.selected], HereOf(d)))
  BY <1>3, <1>4, <1>5, <1>6, <1>7 DEF Stacked, InStack, Focused
<1>9. Reached(u)
  BY <1>4, <1>7, StackReaches DEF Stacked
<1>10. FocusAt(u, e, Focused(u))
  BY <1>4, <1>9, MostRecentAt
<1> HIDE DEF e
<1>11. FocusAt(d, Arrange(d), Focused(u))
  BY <1>1, <1>3, <1>5, <1>7, <1>10 DEF FocusAt
<1>12. Reached(Arrange(d))
  <2>1. Good(Arrange(d)) /\ SameLists(d, Arrange(d))
    BY ArrangeGood
  <2>2. Sound(Arrange(d)) /\ InStack(Arrange(d))
    BY <2>1 DEF Good, Stacked
  <2>3. Arrange(d).selected = d.selected /\ Arrange(d).tags = d.tags /\ Arrange(d).on_output = d.on_output
    BY <2>1 DEF SameLists
  <2> QED BY <2>2, <2>3, StackReaches
<1> QED BY <1>8, <1>11, <1>12

\* The stacks of the tags that are not selected stay what they are.
OthersKept(d, e) == \A t \in Tags \ {d.selected} : e.focus_set[t] = d.focus_set[t]

\* tag_focus_most_recent_container and arrange_monitor leave them alone.
LEMMA OthersKeptSound ==
  ASSUME NEW d, Sound(d)
  PROVE  OthersKept(d, FocusMostRecent(d, d.selected)) /\ OthersKept(d, Arrange(d))
<1>1. ASSUME NEW e, Sound(e) PROVE OthersKept(e, FocusMostRecent(e, e.selected))
  <2> DEFINE sel == e.selected
             stack == e.visible_focus_set
             w == First(IF stack = <<>> THEN e.visible_con_set[sel] ELSE stack)
  <2>1. Base(e) /\ sel \in Tags /\ sel # INVALID_TAG_ID /\ stack \in Seq(Windows) /\ Shown(e) \in Seq(Windows)
    BY <1>1, Fields, TagZero DEF Sound, Base, Typed, Shown
  <2>2. FocusMostRecent(e, sel) = FocusContainer(e, sel, w)
    BY <2>1 DEF FocusMostRecent
  <2>3. w \in Listed(e) \cup {None}
    <3>1. ToSet(stack) \subseteq Listed(e) /\ ToSet(Shown(e)) \subseteq Listed(e)
      BY <1>1 DEF Sound, Base, Found, Shows
    <3> QED BY <2>1, <3>1, FirstOf DEF Shown
  <2> HIDE DEF w
  <2> QED BY <2>1, <2>2, <2>3, FocusContainerAt DEF OthersKept, FocusAt
<1> DEFINE h == UpdateHidden(d)
           u == UpdateReducedFocusStack(h)
<1>2. Arrange(d) = FocusMostRecent(u, u.selected)
  BY DEF Arrange
<1>3. Sound(h) /\ SameLists(d, h)
  BY UpdateHiddenSound
<1>4. h.focus_set = d.focus_set
  BY DEF UpdateHidden, Sound, Base, Typed, Desks
<1> HIDE DEF h
<1>5. Sound(u) /\ OnlyFocus(h, u)
  BY <1>3, StackAfter
<1>6. u.focus_set = h.focus_set
  BY <1>3 DEF UpdateReducedFocusStack, Sound, Base, Typed, Desks
<1>7. u.selected = d.selected
  BY <1>3, <1>5 DEF OnlyFocus, SameLists
<1> HIDE DEF u
<1>8. OthersKept(u, Arrange(d))
  BY <1>1, <1>2, <1>5
<1> QED BY <1>1, <1>4, <1>6, <1>7, <1>8 DEF OthersKept

\* focus_tagset: what the selected tag is then, what it shows and where its focus is.
LEMMA ShowTagsAt ==
  ASSUME NEW d, Base(d), NEW t \in Tags, NEW bits \in SUBSET Tags
  PROVE  LET e == ShowTags(Select(d, t), bits)
         IN  /\ e.selected = t /\ e.tag_id = d.tag_id
             /\ e.tags[t] = bits /\ \A u \in Tags \ {t} : e.tags[u] = d.tags[u]
             /\ e.on_output = (d.on_output \cup {t}) \cup bits
             /\ \A u \in Tags \ {t} : e.focus_set[u] = d.focus_set[u]
             /\ t \in bits => Focused(e) = First(Members(d.focus_set[t], HereOf(e)))
<1> DEFINE n == Select(d, t)
           e == [n EXCEPT !.tags[n.selected] = bits, !.on_output = @ \cup bits]
           r == Reload(e, t)
           s == UpdateReducedFocusStack(r)
           a == Arrange(s)
           f == FocusMostRecent(a, t)
<1>0. /\ d \in Desks /\ d.tags \in [Tags -> SUBSET Tags] /\ d.on_output \subseteq Tags
  BY Fields DEF Base, Typed
<1>1. n = [d EXCEPT !.selected = t, !.on_output = @ \cup {t}] /\ n.selected = t
  BY <1>0 DEF Select, Desks
<1>2. ShowTags(n, bits) = f
  BY <1>1 DEF ShowTags
<1> HIDE DEF n
<1>3. e = [d EXCEPT !.selected = t, !.on_output = (@ \cup {t}) \cup bits, !.tags[t] = bits]
  BY <1>0, <1>1 DEF Desks
<1> HIDE DEF e
<1>4. /\ e \in Desks /\ e.setup = d.setup /\ e.created = d.created /\ e.mapped = d.mapped
      /\ e.selected = t /\ e.on_output = (d.on_output \cup {t}) \cup bits
      /\ e.tags = [d.tags EXCEPT ![t] = bits]
      /\ e.tag_id = d.tag_id /\ e.con_set = d.con_set /\ e.visible_con_set = d.visible_con_set
      /\ e.on_scratchpad = d.on_scratchpad /\ e.scratchpad = d.scratchpad
      /\ e.focus_set = d.focus_set /\ e.visible_focus_set = d.visible_focus_set
      /\ e.keyboard = d.keyboard /\ e.grab_c = d.grab_c /\ e.fault = d.fault
  BY <1>0, <1>3 DEF Desks
<1>5. Base(e)
  <2>1. Typed(e) /\ Agree(e)
    BY <1>4 DEF Base, Typed, Agree
  <2>2. Padded(e) /\ Found(e) /\ Placed(e)
    <3>1. e.tags[t] = bits
      BY <1>0, <1>4
    <3> QED BY <1>4, <3>1 DEF Base, Padded, Found, Placed, Listed
  <2> QED BY <2>1, <2>2 DEF Base
<1>6. Sound(r) /\ Kin(e, r) /\ r.tag_id = e.tag_id /\ r.on_output = e.on_output
  BY <1>4, <1>5, ReloadSound, ReloadKeeps, TagZero DEF Sound
<1>7. r.focus_set = e.focus_set
  BY <1>4 DEF Reload, Desks
<1> HIDE DEF r
<1>8. Sound(s) /\ OnlyFocus(r, s)
  BY <1>6, StackAfter
<1>9. s.focus_set = r.focus_set
  BY <1>6 DEF UpdateReducedFocusStack, Sound, Base, Typed, Desks
<1> HIDE DEF s
<1>10. Sound(a) /\ Good(a) /\ SameLists(s, a) /\ OthersKept(s, a)
  BY <1>8, ArrangeGood, OthersKeptSound
<1>11. /\ s.selected = t /\ s.tags = e.tags /\ s.tag_id = d.tag_id /\ s.on_output = e.on_output
       /\ s.focus_set = d.focus_set
       /\ a.selected = t /\ a.tags = e.tags /\ a.tag_id = d.tag_id /\ a.on_output = e.on_output
  BY <1>4, <1>6, <1>7, <1>8, <1>9, <1>10 DEF Kin, OnlyFocus, SameLists
<1>12. OnlyFocus(a, f) /\ OthersKept(a, f)
  <2>1. Stacked(a) /\ Keyed(a) /\ Steady(a)
    BY <1>10 DEF Good
  <2> HIDE DEF a
  <2> QED BY <1>10, <1>11, <2>1, FocusMostRecentGood, OthersKeptSound
<1>13. f.selected = t /\ f.tags = e.tags /\ f.tag_id = d.tag_id /\ f.on_output = e.on_output
  BY <1>11, <1>12 DEF OnlyFocus, SameLists
<1>14. \A u \in Tags \ {t} : f.focus_set[u] = d.focus_set[u]
  BY <1>10, <1>11, <1>12 DEF OthersKept
<1>15. ASSUME t \in bits PROVE Focused(f) = First(Members(d.focus_set[t], HereOf(f)))
  <2>1. s.selected \in s.tags[s.selected] /\ s.tags[s.selected] \subseteq s.on_output
    BY <1>0, <1>4, <1>11, <1>15
  <2>2. FocusAt(s, a, First(Members(s.focus_set[t], HereOf(s)))) /\ Reached(a)
    BY <1>8, <1>11, <2>1, ArrangeAt
  <2>3. Focused(f) = Focused(a)
    <3> HIDE DEF a
    <3> QED BY <1>10, <1>11, <2>2, MostRecentAt DEF FocusAt
  <2>4. HereOf(f) = HereOf(s)
    BY <1>11, <1>13 DEF HereOf, ExistsOn
  <2> QED BY <1>11, <2>2, <2>3, <2>4 DEF FocusAt
<1> HIDE DEF f
<1>16. f.tags[t] = bits /\ \A u \in Tags \ {t} : f.tags[u] = d.tags[u]
  BY <1>0, <1>4, <1>13
<1> QED BY <1>2, <1>4, <1>13, <1>14, <1>15, <1>16 DEF n

\* Viewing another tag and coming back leaves the focus where it was.
LEMMA ViewAndBack ==
  ASSUME NEW d, Good(d), d.selected \in d.tags[d.selected], d.tags[d.selected] \subseteq d.on_output,
         NEW t \in Tags \ {d.selected}
  PROVE  Focused(ViewTag(ViewTag(d, t), d.selected)) = Focused(d)
<1> DEFINE sel == d.selected
           e == ShowTags(Select(d, t), d.tags[t])
           f == ShowTags(Select(e, sel), e.tags[sel])
<1>0. /\ Base(d) /\ d \in Desks /\ sel \in Tags /\ d.tags \in [Tags -> SUBSET Tags]
  BY Fields DEF Good, Sound, Base, Typed
<1>1. Good(e)
  <2>1. Select(d, t) = [d EXCEPT !.selected = t, !.on_output = @ \cup {t}]
    BY DEF Select
  <2> QED BY <1>0, <2>1, ShowTagsGood
<1>2. /\ e.selected = t /\ e.tags[sel] = d.tags[sel] /\ e.tag_id = d.tag_id
      /\ e.on_output = (d.on_output \cup {t}) \cup d.tags[t]
      /\ e.focus_set[sel] = d.focus_set[sel]
  <2> DEFINE bits == d.tags[t]
  <2>1. t \in Tags /\ bits \in SUBSET Tags /\ sel \in Tags \ {t}
    BY <1>0
  <2> HIDE DEF bits
  <2> QED BY <1>0, <2>1, ShowTagsAt DEF bits
<1> HIDE DEF e
<1>3. e.tags[sel] = d.tags[sel] /\ Base(e) /\ e.tags \in [Tags -> SUBSET Tags]
  BY <1>0, <1>1, <1>2, Fields DEF Good, Sound, Base, Typed
<1>4. /\ f.selected = sel /\ f.tags[sel] = e.tags[sel] /\ f.tag_id = d.tag_id
      /\ f.on_output = (e.on_output \cup {sel}) \cup e.tags[sel]
      /\ Focused(f) = First(Members(e.focus_set[sel], HereOf(f)))
  <2>1. e.tags[sel] \in SUBSET Tags /\ sel \in e.tags[sel]
    BY <1>0, <1>3
  <2> QED BY <1>0, <1>2, <1>3, <2>1, ShowTagsAt
<1> HIDE DEF f
<1>5. HereOf(f) = HereOf(d)
  <2>1. f.tags[sel] = d.tags[sel] /\ d.on_output \subseteq f.on_output
    BY <1>0, <1>2, <1>3, <1>4
  <2> QED BY <1>4, <2>1 DEF HereOf, ExistsOn
<1>6. Focused(d) = First(Members(d.focus_set[sel], HereOf(d)))
  BY DEF Good, Stacked, InStack, Focused
<1>7. ViewTag(d, t) = e /\ ViewTag(e, sel) = f
  BY DEF ViewTag, e, f
<1> QED BY <1>2, <1>4, <1>5, <1>6, <1>7

\* Whatever was focused, moved and swapped before: a look at another tag never
\* changes the focus, although the tags share their windows and update_reduced_
\* focus_stack rebuilds the stack twice (lib_view).
THEOREM ViewAndBackAlways ==
  ASSUME KeysApart PROVE Spec => []ViewAndBackKeepsFocus
<1>1. Good(desk) => ViewAndBackKeepsFocus
  BY ViewAndBack DEF ViewAndBackKeepsFocus, ShowsItself
<1> QED BY <1>1, DeskAlwaysGood, PTL

-----------------------------------------------------------------------------
(* Zoom makes the master *)

\* tag_repush_tag: the window at the place comes to the front, the others follow
\* in their order.
LEMMA RepushIs ==
  ASSUME NEW d, Sound(d), NEW pos \in 1..Len(TiledList(d))
  PROVE  LET w == TiledList(d)[pos]
         IN  TiledList(Repush(d, pos)) = <<w>> \o Without(TiledList(d), w)
<1> DEFINE tiled == TiledList(d)
           w == tiled[pos]
           rest == Without(tiled, w)
           u == <<w>>
           result == u \o rest
           p == Shown(d)
           s == WriteToParent(p, result)
           m == WriteToTags([d EXCEPT !.visible_con_set[d.selected] = s])
           a == Arrange(m)
<1>1. /\ tiled \in Seq(Windows) /\ IsInjective(tiled) /\ ToSet(tiled) = ToSet(p) \cap Tiled(d)
      /\ p \in Seq(Windows) /\ IsInjective(p)
  BY TiledListIs
<1>2. Repush(d, pos) = a
  BY DEF Repush, Shown
<1> HIDE DEF tiled, p
<1>3. w \in Windows /\ w \in ToSet(tiled)
  <2>1. pos \in 1..Len(tiled)
    BY DEF tiled
  <2> QED BY <1>1, <2>1, Places
<1> HIDE DEF w
<1>4. rest \in Seq(Windows) /\ IsInjective(rest) /\ ToSet(rest) = ToSet(tiled) \ {w}
  BY <1>1, WithoutIs
<1>5. u \in Seq(Windows) /\ IsInjective(u) /\ ToSet(u) = {w}
  <2>1. u \in Seq(Windows)
    BY <1>3
  <2>2. IsInjective(u)
    BY <1>3, OnceEach
  <2>3. ToSet(u) = {w}
    BY <1>3, Elements
  <2> QED BY <2>1, <2>2, <2>3
<1> HIDE DEF rest, u
<1>6. result \in Seq(Windows) /\ IsInjective(result) /\ ToSet(result) = ToSet(tiled)
  <2>1. ToSet(u) \cap ToSet(rest) = {}
    BY <1>4, <1>5
  <2>2. u \o rest \in Seq(Windows)
    BY <1>4, <1>5, ConcatProperties
  <2>3. IsInjective(u \o rest)
    BY <1>4, <1>5, <2>1, OnceEach
  <2>4. ToSet(u \o rest) = ToSet(u) \cup ToSet(rest)
    BY <1>4, <1>5, Elements
  <2> QED BY <1>3, <1>4, <1>5, <2>2, <2>3, <2>4
<1> HIDE DEF result
<1>7. /\ s \in Seq(Windows) /\ IsInjective(s) /\ ToSet(s) = ToSet(p)
      /\ Members(s, Tiled(d)) = Members(Members(result, ToSet(p)), Tiled(d))
  <2>1. Tiled(d) \cap ToSet(p) \subseteq ToSet(result)
    BY <1>1, <1>6
  <2> QED BY <1>1, <1>6, <2>1, WrittenToParent
<1>8. Members(s, Tiled(d)) = result
  <2>1. Members(result, ToSet(p)) = result /\ Members(result, Tiled(d)) = result
    BY <1>1, <1>6, MembersAll
  <2> QED BY <1>7, <2>1
<1> HIDE DEF s
<1>9. /\ Sound(m) /\ Kin(d, m) /\ Shown(m) = s /\ m.tag_id = d.tag_id /\ m.on_output = d.on_output
      /\ m.floating = d.floating
  BY <1>7, ReorderSound DEF p
<1> HIDE DEF m
<1>10. Sound(a) /\ SameLists(m, a) /\ a.floating = m.floating
  BY <1>9, ArrangeSound DEF Arranged
<1>11. /\ Shown(a) = s /\ a.selected = d.selected /\ a.tags = d.tags /\ a.on_output = d.on_output
       /\ a.tag_id = d.tag_id /\ a.floating = d.floating
  BY <1>9, <1>10, SameShows DEF SameLists, Kin
<1> HIDE DEF a
<1>12. Tiled(a) = Tiled(d) /\ TiledList(a) = Members(Shown(a), Tiled(a))
  BY <1>10, <1>11, TiledSame, TiledListIs
<1>13. TiledList(a) = u \o rest
  BY <1>8, <1>11, <1>12 DEF result
<1> QED BY <1>2, <1>13 DEF u, rest, w, tiled

\* lib_zoom, once the new master is known
LEMMA ZoomIs ==
  ASSUME NEW d, Good(d), NEW pos \in 1..Len(TiledList(d))
  PROVE  LET master == TiledList(d)[pos]
             a == Arrange(Repush(d, pos))
             e == FocusContainer(a, a.selected, TiledList(a)[1])
         IN  TiledList(e)[1] = master /\ Focused(e) = master
<1> DEFINE tiled == TiledList(d)
           master == tiled[pos]
           rest == Without(tiled, master)
           r == Repush(d, pos)
           a == Arrange(r)
           v == TiledList(a)[1]
           e == FocusContainer(a, a.selected, v)
<1>1. Sound(d) /\ tiled \in Seq(Windows) /\ IsInjective(tiled) /\ pos \in 1..Len(tiled) /\ pos \in Nat \ {0}
  BY TiledListIs DEF Good
<1>2. TiledList(r) = <<master>> \o rest
  BY <1>1, RepushIs
<1>3. Sound(r)
  BY <1>1, RepushTiled
<1> HIDE DEF tiled, r
<1>4. master \in Windows /\ master \in ToSet(tiled) /\ rest \in Seq(Windows)
  BY <1>1, Places, WithoutIs
<1> HIDE DEF master, rest
<1>5. /\ Good(a) /\ Sound(a) /\ SameLists(r, a) /\ a.floating = r.floating
      /\ TiledList(a) = TiledList(r)
  <2>1. Good(a) /\ Sound(a) /\ SameLists(r, a) /\ a.floating = r.floating
    BY <1>3, ArrangeGood, ArrangeSound DEF Arranged
  <2>2. Shown(a) = Shown(r)
    BY <2>1, SameShows
  <2> QED BY <2>1, <2>2, TiledSame DEF SameLists
<1>6. /\ v = master /\ TiledList(a) = <<master>> \o rest
      /\ 1 \in DOMAIN TiledList(r) /\ TiledList(r)[1] = master
      /\ 1 \in 1..Len(TiledList(a))
  BY <1>2, <1>4, <1>5
<1>7. v \in ToSet(Shown(a)) /\ v \in Listed(a) /\ v \in a.created
  <2>1. ToSet(TiledList(a)) \subseteq ToSet(Shown(a)) /\ TiledList(a) \in Seq(Windows)
    BY <1>5, TiledListIs
  <2>2. v \in ToSet(Shown(a))
    BY <1>6, <2>1, Places
  <2>3. Listed(a) \subseteq a.created
    BY <1>5, ListedMapped DEF Sound
  <2> QED BY <1>5, <2>2, <2>3 DEF Sound, Shows
<1>8. ~GetHidden(a, v)
  <2>1. v \in Fitting(r) \cap Windows
    <3>1. r.setup.areas \in Nat \ {0}
      BY <1>3, Fields, SetupsAssumption DEF Sound, Base, Typed
    <3>2. 1 <= r.setup.areas
      BY <3>1
    <3> QED BY <1>4, <1>6, <3>2 DEF Fitting
  <2>2. a.hidden[v] = r.hidden[v] \ {r.selected}
    BY <1>3, <2>1, ArrangeHides
  <2>3. CurrentTag(a, v) = r.selected
    BY <1>5, <1>7, ShownAt DEF SameLists
  <2> QED BY <2>2, <2>3 DEF GetHidden
<1> HIDE DEF a, v
<1>9. Focused(e) = v
  <2>1. v # None
    BY <1>4, <1>6, NoneAssumption
  <2> QED BY <1>5, <1>7, <1>8, <2>1, FocusContainerAt DEF Sound
<1>10. OnlyFocus(a, e)
  BY <1>5, <1>7, FocusListed
<1>11. TiledList(e) = TiledList(a)
  <2>1. SameLists(a, e) /\ e.floating = a.floating
    BY <1>10, SameTwice DEF OnlyFocus
  <2>2. Shown(e) = Shown(a)
    BY <2>1, SameShows
  <2> HIDE DEF e
  <2> QED BY <2>1, <2>2, TiledSame DEF SameLists
<1>12. TiledList(a)[1] = master
  BY <1>5, <1>6
<1> QED BY <1>6, <1>9, <1>11, <1>12 DEF e, a, v, r, master, tiled

\* Zoom makes the focused window, or the one behind the master, the master.
LEMMA ZoomDelivers ==
  ASSUME Good(desk), Zoom, Len(TiledList(desk)) > 1
  PROVE  LET tiled == TiledList(desk)
             master == IF Focused(desk) = tiled[1] THEN tiled[2] ELSE Focused(desk)
         IN  TiledList(desk')[1] = master /\ Focused(desk') = master
<1> DEFINE tiled == TiledList(desk)
           sel == Focused(desk)
           pos == IF sel = tiled[1] THEN 2 ELSE Position(tiled, sel)
           a == Arrange(Repush(desk, pos))
<1>1. Contains(tiled, sel) /\ desk' = FocusContainer(a, a.selected, TiledList(a)[1])
  BY DEF Zoom
<1>2. tiled \in Seq(Windows)
  BY TiledListIs DEF Good
<1> HIDE DEF a
<1>3. pos \in 1..Len(tiled) /\ tiled[pos] = IF sel = tiled[1] THEN tiled[2] ELSE sel
  <2>1. Position(tiled, sel) \in 1..Len(tiled) /\ tiled[Position(tiled, sel)] = sel
    BY <1>1, <1>2, Places
  <2>2. Len(tiled) > 1 /\ Len(tiled) \in Nat
    BY <1>2
  <2> HIDE DEF tiled, sel
  <2> QED BY <2>1, <2>2
<1> HIDE DEF pos
<1>4. TiledList(desk')[1] = tiled[pos] /\ Focused(desk') = tiled[pos]
  BY <1>1, <1>3, ZoomIs DEF a
<1> QED BY <1>3, <1>4

\* container_set_floating: the window floats at the tag whose property counts.
LEMMA FloatsAt ==
  ASSUME NEW d, Sound(d), NEW w \in Windows, d.tag_id[w] = d.selected
  PROVE  LET e == SetFloating(d, w, TRUE, TRUE)
         IN  Sound(e) /\ Kin(d, e) /\ e.tag_id = d.tag_id /\ d.selected \in e.floating[w]
<1> DEFINE p == FixPosition(d, w)
           q == PropertySetFloating(p, w, TRUE)
           e == SetFloating(d, w, TRUE, TRUE)
<1>0. d.selected \in Tags /\ d.selected # INVALID_TAG_ID
  BY Fields, TagZero DEF Sound, Base, Typed
<1>1. CurrentTag(d, w) = d.selected
  BY DEF CurrentTag
<1>2. CASE IsFloating(d, w)
  <2>1. e = d
    BY <1>2 DEF SetFloating
  <2> QED BY <1>1, <1>2, <2>1, KinTwice DEF IsFloating
<1>3. CASE ~IsFloating(d, w)
  <2>1. e = q
    BY <1>3 DEF SetFloating
  <2>2. Sound(p) /\ Kin(d, p) /\ p.tag_id = d.tag_id /\ p.on_output = d.on_output
    BY FixPositionSound
  <2>3. p.selected = d.selected /\ CurrentTag(p, w) = p.selected
    BY <2>2 DEF CurrentTag, Kin
  <2> HIDE DEF p
  <2>4. Sound(q) /\ SameLists(p, q)
    BY <2>2, FloatsIs
  <2>5. p.selected \in q.floating[w]
    <3>1. p \in Desks /\ p.floating \in [Windows -> SUBSET Tags]
      BY <2>2, Fields DEF Sound, Base, Typed
    <3> DEFINE m == [p EXCEPT !.floating[w] = @ \cup {p.selected}]
    <3>2. q = [m EXCEPT !.hidden[w] = @ \ {p.selected}]
      BY <1>0, <2>3 DEF PropertySetFloating
    <3>3. q.floating = [p.floating EXCEPT ![w] = @ \cup {p.selected}]
      BY <3>1, <3>2 DEF Desks
    <3> QED BY <3>1, <3>3
  <2> HIDE DEF q
  <2>6. Kin(p, q) /\ q.tag_id = p.tag_id
    BY <2>4, KinTwice DEF SameLists
  <2>7. Kin(d, q)
    BY <2>2, <2>6, KinTwice
  <2> QED BY <2>1, <2>2, <2>3, <2>4, <2>5, <2>6, <2>7
<1> QED BY <1>2, <1>3

\* What show_scratchpad brings can be seen, if the tag shows itself.
LEMMA BringShows ==
  ASSUME NEW d, Sound(d), NEW w \in Listed(d), d.selected \in d.tags[d.selected]
  PROVE  Viewable(Bring(d, w), w)
<1> DEFINE m == SetTagId(d, w, d.selected)
           e == SetFloating(m, w, TRUE, TRUE)
           f == FocusContainer(e, e.selected, w)
           a == Arrange(f)
<1>1. Bring(d, w) = a
  BY DEF Bring
<1>2. w \in Windows /\ d.selected \in Tags /\ d.tag_id \in [Windows -> Tags \cup {INVALID_TAG_ID}]
  BY Fields, ListedMapped DEF Sound, Base, Typed
<1>3. Sound(m) /\ Kin(d, m) /\ m.tag_id[w] = d.selected
  <2>1. /\ Sound(m) /\ Kin(d, m) /\ m.tag_id = [d.tag_id EXCEPT ![w] = d.selected]
    BY <1>2, SetTagIdSound
  <2> HIDE DEF m
  <2> QED BY <1>2, <2>1
<1> HIDE DEF m
<1>4. Sound(e) /\ Kin(m, e) /\ e.tag_id = m.tag_id /\ m.selected \in e.floating[w]
  BY <1>2, <1>3, FloatsAt DEF Kin
<1> HIDE DEF e
<1>5. Kin(d, e) /\ w \in Listed(e) /\ e.tag_id[w] = e.selected /\ e.selected \in e.floating[w]
  BY <1>3, <1>4, KinTwice DEF Kin
<1>6. Sound(f) /\ OnlyFocus(e, f)
  BY <1>4, <1>5, FocusListed
<1> HIDE DEF f
<1>7. w \in Listed(f) /\ f.tag_id[w] = f.selected /\ f.selected \in f.floating[w] /\ f.selected \in f.tags[f.selected]
  BY <1>5, <1>6 DEF OnlyFocus, SameLists, Kin, Listed
<1>8. IsFloating(f, w)
  BY <1>7 DEF IsFloating, CurrentTag
<1>9. a.hidden[w] = f.hidden[w] \ {f.selected}
  BY <1>6, <1>7, <1>8, ArrangeHides
<1>10. Sound(a) /\ SameLists(f, a)
  BY <1>6, ArrangeSound DEF Arranged
<1> HIDE DEF a
<1>11. a.tag_id[w] = a.selected /\ a.selected \in a.tags[a.selected] /\ a.selected \in a.on_output
       /\ a.selected \notin a.hidden[w]
  BY <1>7, <1>9, <1>10 DEF SameLists, Sound, Base, Placed
<1>12. Viewable(a, w)
  BY <1>2, <1>11 DEF Viewable, PotentiallyViewable, GetHidden, CurrentTag, ExistsOn
<1> QED BY <1>1, <1>12

\* move_to_scratchpad takes the tag from the window.
LEMMA ToScratchpadLoses ==
  ASSUME NEW d, Sound(d), NEW w \in Listed(d), NEW pos \in Int,
         "pad" \in d.setup.keys, "swap" \notin d.setup.keys
  PROVE  ToScratchpad(d, w, pos).tag_id[w] = INVALID_TAG_ID
<1> DEFINE tiled == SetFloating(RemoveFromScratchpad(d, w), w, TRUE, FALSE)
           len == Len(tiled.scratchpad)
           at == IF len = 0 THEN 0 ELSE RelativeIndex(0, pos, len + 1)
           e == [tiled EXCEPT !.tag_id[w] = INVALID_TAG_ID,
                              !.on_scratchpad = @ \cup {w},
                              !.scratchpad = ListInsert(@, at, w)]
           tag == IF d.tag_id[w] \in d.on_output THEN d.selected ELSE INVALID_TAG_ID
           r == Reload(e, tag)
           a == Arrange(r)
<1>1. ToScratchpad(d, w, pos) = FocusMostRecent(a, tag)
  BY DEF ToScratchpad
<1>2. /\ Sound(tiled) /\ Kin(d, tiled) /\ w \notin tiled.on_scratchpad
      /\ d.tag_id[w] = INVALID_TAG_ID => tiled.tag_id[w] = INVALID_TAG_ID
  BY LeavingSound
<1>3. /\ d.selected \in Tags /\ w \in Windows /\ Placed(d) /\ tiled \in Desks
      /\ tiled.tag_id \in [Windows -> Tags \cup {INVALID_TAG_ID}]
  BY <1>2, Fields, ListedMapped DEF Sound, Base, Typed
<1> HIDE DEF tiled
<1>4. at \in Int
  <2>1. tiled.scratchpad \in Seq(Windows)
    BY <1>3, Fields
  <2>2. len \in Nat
    BY <2>1
  <2> DEFINE z == 0
             n == len + 1
  <2>3. z \in Int /\ n \in Nat \ {0}
    BY <2>2
  <2> HIDE DEF z, n
  <2>4. RelativeIndex(z, pos, n) \in 0..(n - 1)
    BY <2>3, RelativeIn
  <2>5. RelativeIndex(z, pos, n) \in Int
    BY <2>3, <2>4
  <2>6. RelativeIndex(0, pos, len + 1) \in Int
    BY <2>5 DEF z, n
  <2> QED BY <2>6
<1> HIDE DEF at
<1>5. w \in Listed(tiled) /\ "pad" \in tiled.setup.keys
  BY <1>2 DEF Kin
<1>6. e.tag_id[w] = INVALID_TAG_ID
  BY <1>3 DEF Desks
<1> DEFINE b == e
<1>7. b = [tiled EXCEPT !.tag_id[w] = INVALID_TAG_ID, !.on_scratchpad = @ \cup {w},
                        !.scratchpad = ListInsert(@, at, w)]
  OBVIOUS
<1> HIDE DEF b
<1>8. /\ Base(b) /\ Kin(tiled, b)
      /\ tiled.tag_id[w] = INVALID_TAG_ID => Shows(b)
  BY <1>2, <1>4, <1>5, <1>7, PaddedBase
<1>9. tag \in Tags \cup {INVALID_TAG_ID} /\ (tag = INVALID_TAG_ID => Shows(b))
  <2>1. d.tag_id[w] \notin d.on_output => d.tag_id[w] = INVALID_TAG_ID
    BY <1>3 DEF Placed
  <2> QED BY <1>2, <1>3, <1>8, <2>1, TagZero
<1> HIDE DEF tag
<1>10. Sound(Reload(b, tag)) /\ Reload(b, tag).tag_id = b.tag_id
  <2>1. b \in Desks
    BY <1>8 DEF Base, Typed
  <2> QED BY <1>8, <1>9, <2>1, ReloadSound, ReloadKeeps DEF Sound
<1>11. Sound(r) /\ r.tag_id[w] = INVALID_TAG_ID
  BY <1>6, <1>10 DEF b
<1> HIDE DEF r
<1>12. Good(a) /\ a.tag_id = r.tag_id
  BY <1>11, ArrangeGood DEF SameLists
<1> HIDE DEF a
<1>13. FocusMostRecent(a, tag).tag_id = a.tag_id
  BY <1>9, <1>12, FocusMostRecentGood DEF Good, OnlyFocus, SameLists
<1> QED BY <1>1, <1>11, <1>12, <1>13

\* e is a desk like d, on which nothing undefined has happened since.
Unharmed(d, e) == DOMAIN e = DOMAIN d /\ ("fault" \in DOMAIN d => e.fault = d.fault)

\* One change after the other.
LEMMA UnharmedTwice ==
  ASSUME NEW d, NEW e, NEW f
  PROVE  Unharmed(d, d) /\ (Unharmed(d, e) /\ Unharmed(e, f) => Unharmed(d, f))
BY DEF Unharmed

\* The functions that only assign
LEMMA AssignsUnharmed ==
  ASSUME NEW d, NEW w, NEW t, NEW x
  PROVE  /\ Unharmed(d, Reload(d, t)) /\ Unharmed(d, SetTagId(d, w, t))
         /\ Unharmed(d, RemoveFromScratchpad(d, w))
         /\ Unharmed(d, UpdateHidden(d)) /\ Unharmed(d, UpdateReducedFocusStack(d))
         /\ Unharmed(d, SetFloating(d, w, x, t))
<1>1. \A e, u : Unharmed(e, Reload(e, u))
  BY DEF Reload, Unharmed
<1>2. \A e, u : Unharmed(e, SetTagId(e, w, u))
  <2> TAKE e, u
  <2> DEFINE f == [e EXCEPT !.tag_id[w] = u, !.on_output = @ \cup {u}]
  <2>1. Unharmed(e, f)
    BY DEF Unharmed
  <2>2. SetTagId(e, w, u) = Reload(f, e.tag_id[w])
    BY DEF SetTagId
  <2> HIDE DEF f
  <2> QED BY <1>1, <2>1, <2>2, UnharmedTwice
<1>3. \A e : Unharmed(e, RemoveFromScratchpad(e, w))
  BY DEF RemoveFromScratchpad, Unharmed
<1>4. Unharmed(d, UpdateHidden(d)) /\ Unharmed(d, UpdateReducedFocusStack(d))
  BY DEF UpdateHidden, UpdateReducedFocusStack, Unharmed
<1>5. \A e : Unharmed(e, FixPosition(e, w))
  <2> TAKE e
  <2>1. Unharmed(e, WriteToTags(e))
    BY DEF WriteToTags, Unharmed
  <2>2. Unharmed(WriteToTags(e), WriteToFocusStacks(WriteToTags(e)))
    BY DEF WriteToFocusStacks, Unharmed
  <2> QED BY <2>1, <2>2, UnharmedTwice DEF FixPosition
<1>6. \A e : Unharmed(e, PropertySetFloating(e, w, t))
  <2> TAKE e
  <2> DEFINE at == CurrentTag(e, w)
             off == [e EXCEPT !.floating[w] = @ \ {at}]
             on == [e EXCEPT !.floating[w] = @ \cup {at}]
             shown == [on EXCEPT !.hidden[w] = @ \ {e.selected}]
  <2>1. Unharmed(e, off) /\ Unharmed(e, on) /\ Unharmed(on, shown)
    BY DEF Unharmed
  <2>2. PropertySetFloating(e, w, t) \in
          {e, shown, RemoveFromScratchpad(SetTagId(off, w, e.selected), w), RemoveFromScratchpad(off, w)}
    BY DEF PropertySetFloating
  <2> HIDE DEF off, on, shown
  <2> QED BY <1>2, <1>3, <2>1, <2>2, UnharmedTwice
<1>7. Unharmed(d, SetFloating(d, w, x, t))
  <2>1. SetFloating(d, w, x, t) \in {d, PropertySetFloating(d, w, t), PropertySetFloating(FixPosition(d, w), w, t)}
    BY DEF SetFloating
  <2> QED BY <1>5, <1>6, <2>1, UnharmedTwice
<1> QED BY <1>1, <1>2, <1>3, <1>4, <1>7

\* The functions that focus, as long as it is the selected tag whose window is focused
LEMMA FocusUnharmed ==
  ASSUME NEW d, Base(d), NEW w \in Listed(d) \cup {None}
  PROVE  Unharmed(d, FocusContainer(d, d.selected, w))
<1> DEFINE r == RepushOnFocusStack(d, w)
<1>1. w = None \/ w \in d.created
  BY ListedMapped DEF Base, Typed
<1>2. Unharmed(d, r)
  BY DEF RepushOnFocusStack, Unharmed
<1>3. \A u : Unharmed(r, FocusClient(r, u))
  <2> HIDE DEF r
  <2> QED BY DEF FocusClient, Unharmed
<1>4. FocusContainer(d, d.selected, w) = d \/ \E u : FocusContainer(d, d.selected, w) = FocusClient(r, u)
  BY <1>1 DEF FocusContainer
<1> HIDE DEF r
<1> QED BY <1>2, <1>3, <1>4, UnharmedTwice

\* The functions that end handlers focus a window of the lists.
LEMMA ArrangeUnharmed ==
  ASSUME NEW d, Sound(d)
  PROVE  Unharmed(d, FocusMostRecent(d, d.selected)) /\ Unharmed(d, Arrange(d))
<1>1. ASSUME NEW e, Sound(e) PROVE Unharmed(e, FocusMostRecent(e, e.selected))
  <2> DEFINE sel == e.selected
             stack == e.visible_focus_set
             w == First(IF stack = <<>> THEN e.visible_con_set[sel] ELSE stack)
  <2>1. Base(e) /\ sel \in Tags /\ sel # INVALID_TAG_ID /\ stack \in Seq(Windows) /\ Shown(e) \in Seq(Windows)
    BY <1>1, Fields, TagZero DEF Sound, Base, Typed, Shown
  <2>2. FocusMostRecent(e, sel) = FocusContainer(e, sel, w)
    BY <2>1 DEF FocusMostRecent
  <2>3. w \in Listed(e) \cup {None}
    <3>1. ToSet(stack) \subseteq Listed(e) /\ ToSet(Shown(e)) \subseteq Listed(e)
      BY <1>1 DEF Sound, Base, Found, Shows
    <3> QED BY <2>1, <3>1, FirstOf DEF Shown
  <2> HIDE DEF w
  <2> QED BY <2>1, <2>2, <2>3, FocusUnharmed
<1> DEFINE h == UpdateHidden(d)
           u == UpdateReducedFocusStack(h)
<1>2. Arrange(d) = FocusMostRecent(u, u.selected)
  BY DEF Arrange
<1>3. Sound(h)
  BY UpdateHiddenSound
<1>4. Unharmed(d, h) /\ Unharmed(h, u)
  BY AssignsUnharmed
<1> HIDE DEF h
<1>5. Sound(u)
  BY <1>3, StackAfter
<1> HIDE DEF u
<1> QED BY <1>1, <1>2, <1>4, <1>5, UnharmedTwice

\* Bringing a window focuses one that is in the lists.
LEMMA BringUnharmed ==
  ASSUME NEW d, Sound(d), NEW w \in Listed(d)
  PROVE  Unharmed(d, Bring(d, w))
<1> DEFINE m == SetTagId(d, w, d.selected)
           e == SetFloating(m, w, TRUE, TRUE)
           f == FocusContainer(e, e.selected, w)
<1>1. Bring(d, w) = Arrange(f)
  BY DEF Bring
<1>2. w \in Windows /\ d.selected \in Tags /\ d.tag_id \in [Windows -> Tags \cup {INVALID_TAG_ID}]
  BY Fields, ListedMapped DEF Sound, Base, Typed
<1>3. Sound(m) /\ Kin(d, m) /\ m.tag_id[w] = m.selected
  <2>1. /\ Sound(m) /\ Kin(d, m) /\ m.tag_id = [d.tag_id EXCEPT ![w] = d.selected]
    BY <1>2, SetTagIdSound
  <2> HIDE DEF m
  <2> QED BY <1>2, <2>1 DEF Kin
<1>4. Unharmed(d, m)
  BY AssignsUnharmed
<1>5. Unharmed(m, e)
  <2> HIDE DEF m
  <2> QED BY AssignsUnharmed
<1> HIDE DEF m
<1>6. Sound(e) /\ Kin(m, e)
  BY <1>2, <1>3, FloatsAt
<1> HIDE DEF e
<1>7. w \in Listed(e)
  BY <1>3, <1>6, KinTwice DEF Kin
<1>8. Unharmed(e, f) /\ Sound(f)
  BY <1>6, <1>7, FocusUnharmed, FocusListed DEF Sound
<1> HIDE DEF f
<1>9. Unharmed(f, Arrange(f))
  BY <1>8, ArrangeUnharmed
<1> QED BY <1>1, <1>4, <1>5, <1>8, <1>9, UnharmedTwice

\* So does putting one away.
LEMMA ToScratchpadUnharmed ==
  ASSUME NEW d, Sound(d), NEW w \in Listed(d), NEW pos \in Int,
         "pad" \in d.setup.keys, "swap" \notin d.setup.keys
  PROVE  Unharmed(d, ToScratchpad(d, w, pos))
<1> DEFINE p == RemoveFromScratchpad(d, w)
           tiled == SetFloating(p, w, TRUE, FALSE)
           len == Len(tiled.scratchpad)
           at == IF len = 0 THEN 0 ELSE RelativeIndex(0, pos, len + 1)
           b == [tiled EXCEPT !.tag_id[w] = INVALID_TAG_ID,
                              !.on_scratchpad = @ \cup {w},
                              !.scratchpad = ListInsert(@, at, w)]
           tag == IF d.tag_id[w] \in d.on_output THEN d.selected ELSE INVALID_TAG_ID
           r == Reload(b, tag)
           a == Arrange(r)
<1>1. ToScratchpad(d, w, pos) = FocusMostRecent(a, tag)
  BY DEF ToScratchpad
<1>2. /\ Sound(tiled) /\ Kin(d, tiled) /\ w \notin tiled.on_scratchpad
      /\ d.tag_id[w] = INVALID_TAG_ID => tiled.tag_id[w] = INVALID_TAG_ID
  BY LeavingSound
<1>3. d.selected \in Tags /\ w \in Windows /\ Placed(d)
  BY Fields, ListedMapped DEF Sound, Base, Typed
<1>4. Unharmed(d, p)
  BY AssignsUnharmed
<1>5. Unharmed(p, tiled)
  <2> HIDE DEF p
  <2> QED BY AssignsUnharmed
<1> HIDE DEF p, tiled
<1>6. at \in Int
  <2>1. tiled.scratchpad \in Seq(Windows)
    BY <1>2, Fields DEF Sound, Base, Typed
  <2>2. len \in Nat
    BY <2>1
  <2> DEFINE z == 0
             n == len + 1
  <2>3. z \in Int /\ n \in Nat \ {0}
    BY <2>2
  <2> HIDE DEF z, n
  <2>4. RelativeIndex(z, pos, n) \in 0..(n - 1)
    BY <2>3, RelativeIn
  <2>5. RelativeIndex(z, pos, n) \in Int
    BY <2>3, <2>4
  <2>6. RelativeIndex(0, pos, len + 1) \in Int
    BY <2>5 DEF z, n
  <2> QED BY <2>6
<1> HIDE DEF at
<1>7. w \in Listed(tiled) /\ "pad" \in tiled.setup.keys
  BY <1>2 DEF Kin
<1>8. /\ Base(b) /\ Kin(tiled, b)
      /\ tiled.tag_id[w] = INVALID_TAG_ID => Shows(b)
  BY <1>2, <1>6, <1>7, PaddedBase
<1>9. Unharmed(tiled, b)
  BY DEF Unharmed
<1>10. tag \in {d.selected, INVALID_TAG_ID} /\ (tag = INVALID_TAG_ID => Shows(b))
  <2>1. d.tag_id[w] \notin d.on_output => d.tag_id[w] = INVALID_TAG_ID
    BY <1>3 DEF Placed
  <2> QED BY <1>2, <1>3, <1>8, <2>1, TagZero
<1> HIDE DEF tag, b
<1>11. Sound(r) /\ Kin(b, r)
  <2>1. b \in Desks
    BY <1>8 DEF Base, Typed
  <2> QED BY <1>8, <1>10, <2>1, ReloadSound, ReloadKeeps DEF Sound, Kin
<1>12. Unharmed(b, r)
  BY AssignsUnharmed
<1> HIDE DEF r
<1>13. Unharmed(r, a) /\ Sound(a) /\ a.selected = r.selected
  BY <1>11, ArrangeUnharmed, ArrangeGood DEF Good, SameLists
<1> HIDE DEF a
<1>14. a.selected = d.selected
  BY <1>2, <1>8, <1>11, <1>13 DEF Kin
<1>15. Unharmed(a, FocusMostRecent(a, tag))
  <2>1. CASE tag = d.selected
    BY <1>13, <1>14, <2>1, ArrangeUnharmed
  <2>2. CASE tag = INVALID_TAG_ID
    BY <2>2, UnharmedTwice DEF FocusMostRecent
  <2> QED BY <1>10, <2>1, <2>2
<1> QED BY <1>1, <1>4, <1>5, <1>9, <1>12, <1>13, <1>15, UnharmedTwice

\* Asking for the window of the scratchpad shows it or puts it away.
LEMMA ShowScratchpadDelivers ==
  ASSUME KeysApart, Good(desk), Bound("pad"), ShowScratchpad, ShowsItself
  PROVE  LET w == Head(desk.scratchpad)
         IN  /\ desk'.fault = "none"
             /\ Viewable(desk', w) \/ desk'.tag_id[w] = INVALID_TAG_ID
<1> DEFINE w == Head(desk.scratchpad)
           sel == desk.selected
           h == [desk.hidden EXCEPT ![w] = @ \ {sel}]
           e == [desk EXCEPT !.hidden[w] = @ \ {sel}]
<1>1. Sound(desk) /\ w \in Listed(desk) /\ w \in Windows /\ sel \in desk.tags[sel] /\ sel \in desk.on_output
  BY PadListed DEF Good, ShowScratchpad, ShowsItself, Sound, Base, Placed
<1>0. ASSUME NEW d, NEW u, Unharmed(d, u), d \in Desks, d.fault = "none" PROVE u.fault = "none"
  BY <1>0 DEF Unharmed, Desks
<1>2. "pad" \in desk.setup.keys /\ "swap" \notin desk.setup.keys /\ desk \in Desks /\ desk.fault = "none"
  BY Fields DEF Good, Sound, Base, Typed, Bound, KeysApart, ShowsItself, Live
<1>3. desk' = IF GetHidden(desk, w) THEN Bring(e, w)
              ELSE IF desk.tag_id[w] # sel THEN Bring(desk, w) ELSE HideContainer(desk, w)
  BY DEF ShowScratchpad
<1> HIDE DEF w
<1>4. CASE GetHidden(desk, w)
  <2>1. desk \in Desks /\ desk.hidden \in [Windows -> SUBSET Tags] /\ desk.floating \in [Windows -> SUBSET Tags]
    BY <1>1, Fields DEF Sound, Base, Typed
  <2>2. h \in [Windows -> SUBSET Tags] /\ e = [desk EXCEPT !.hidden = h, !.floating = desk.floating]
    BY <1>1, <2>1 DEF Desks
  <2> HIDE DEF e, h
  <2>3. Sound(e) /\ SameLists(desk, e)
    BY <1>1, <2>1, <2>2, HiddenSound
  <2>4. w \in Listed(e) /\ e.selected \in e.tags[e.selected]
    BY <1>1, <2>3, SameShows DEF SameLists
  <2>5. Viewable(Bring(e, w), w) /\ Unharmed(e, Bring(e, w))
    BY <2>3, <2>4, BringShows, BringUnharmed
  <2>6. e \in Desks /\ e.fault = "none"
    BY <1>2, <2>2, <2>3 DEF Sound, Base, Typed, Desks
  <2>7. Bring(e, w).fault = "none"
    BY <1>0, <2>5, <2>6
  <2> QED BY <1>3, <1>4, <2>5, <2>7 DEF w, e, h
<1>5. CASE ~GetHidden(desk, w) /\ desk.tag_id[w] # sel
  <2>1. Viewable(Bring(desk, w), w) /\ Unharmed(desk, Bring(desk, w))
    BY <1>1, BringShows, BringUnharmed
  <2>2. Bring(desk, w).fault = "none"
    BY <1>0, <1>2, <2>1
  <2> QED BY <1>3, <1>5, <2>1, <2>2 DEF w
<1>6. CASE ~GetHidden(desk, w) /\ desk.tag_id[w] = sel
  <2> DEFINE z == -1
             f == FocusContainer(desk, sel, w)
  <2>1. z \in Int /\ desk' = HideContainer(desk, w)
    BY <1>3, <1>6
  \* The window is here, so the focus stack is not empty.
  <2>2. Focused(desk) # None
    <3>1. desk.visible_focus_set = Members(desk.focus_set[sel], HereOf(desk))
      BY <1>1, <1>2 DEF Good, Stacked, InStack, Sound, Base, Placed
    <3>2. w \in HereOf(desk)
      BY <1>1, <1>6 DEF HereOf, ExistsOn
    <3>3. w \in ToSet(desk.focus_set[sel]) /\ desk.focus_set[sel] \in Seq(Windows)
      BY <1>1, <1>2, Fields DEF Sound, Base, Agree, Listed
    <3>4. w \in ToSet(desk.visible_focus_set) /\ desk.visible_focus_set \in Seq(Windows)
      BY <3>1, <3>2, <3>3, <1>2, Fields, MembersSet
    <3>5. desk.visible_focus_set # <<>>
      BY <3>4, Elements
    <3> QED BY <3>4, <3>5, FirstOf DEF Focused
  <2>3. desk' \in {ToScratchpad(desk, w, z), f}
    BY <2>1, <2>2 DEF HideContainer
  <2> HIDE DEF z, f
  <2>4. ToScratchpad(desk, w, z).tag_id[w] = INVALID_TAG_ID /\ Unharmed(desk, ToScratchpad(desk, w, z))
    BY <1>1, <1>2, <2>1, ToScratchpadLoses, ToScratchpadUnharmed
  <2>5. Viewable(f, w)
    <3>1. OnlyFocus(desk, f)
      BY <1>1, FocusListed DEF f
    <3>2. Viewable(desk, w)
      BY <1>1, <1>6 DEF Viewable, PotentiallyViewable, ExistsOn
    <3> QED BY <3>1, <3>2, SameViews
  <2>6. Unharmed(desk, f)
    BY <1>1, FocusUnharmed DEF f, Sound
  <2>7. desk'.fault = "none"
    BY <1>0, <1>2, <2>3, <2>4, <2>6
  <2> QED BY <2>3, <2>4, <2>5, <2>7 DEF w
<1> QED BY <1>4, <1>5, <1>6

\* Commands do what their names say.
THEOREM CommandsAlwaysDeliver ==
  ASSUME KeysApart PROVE Spec => CommandsDeliver
<1>1. ASSUME Good(desk), [Next]_desk
      PROVE  [Zoom /\ Len(TiledList(desk)) > 1 =>
               LET tiled == TiledList(desk)
                   master == IF Focused(desk) = tiled[1] THEN tiled[2] ELSE Focused(desk)
               IN  TiledList(desk')[1] = master /\ Focused(desk') = master]_desk
  BY <1>1, ZoomDelivers
<1>2. ASSUME Good(desk), [Next]_desk
      PROVE  [ShowScratchpad /\ ShowsItself =>
               LET w == Head(desk.scratchpad)
               IN  /\ desk'.fault = "none"
                   /\ Viewable(desk', w) \/ desk'.tag_id[w] = INVALID_TAG_ID]_desk
  <2>1. ShowScratchpad => Bound("pad")
    <3> SUFFICES ASSUME ShowScratchpad PROVE Bound("pad")
      OBVIOUS
    <3>1. desk.scratchpad \in Seq(Windows) /\ desk.scratchpad # <<>> /\ Padded(desk)
      BY <1>2, Fields DEF ShowScratchpad, Good, Sound, Base, Typed
    <3>2. ToSet(desk.scratchpad) # {}
      BY <3>1, Elements
    <3> QED BY <3>1, <3>2 DEF Padded, Bound
  <2> QED BY <1>2, <2>1, ShowScratchpadDelivers
<1> QED BY <1>1, <1>2, DeskAlwaysGood, PTL DEF Spec, CommandsDeliver, ZoomMakesMaster, ShowScratchpadShows

-----------------------------------------------------------------------------
(* What the hidden stack does *)

\* Of one list after another, the members that are all of the one and none of
\* the other.
LEMMA MembersOfHalf ==
  ASSUME NEW X, NEW s \in Seq(X), NEW t \in Seq(X), NEW S
  PROVE  /\ ToSet(s) \cap S = {} /\ ToSet(t) \subseteq S => Members(s \o t, S) = t
         /\ ToSet(t) \cap S = {} /\ ToSet(s) \subseteq S => Members(s \o t, S) = s
<1>1. Members(s \o t, S) = Members(s, S) \o Members(t, S)
  BY MembersConcat
<1>2. ASSUME NEW u \in Seq(X), ToSet(u) \cap S = {} PROVE Members(u, S) = <<>>
  <2>1. Members(u, S) \in Seq(X) /\ ToSet(Members(u, S)) = {}
    BY <1>2, MembersTyped, MembersSet
  <2> QED BY <2>1, Elements
<1>3. \A u \in Seq(X) : ToSet(u) \subseteq S => Members(u, S) = u
  BY MembersAll
<1>4. <<>> \o t = t /\ s \o <<>> = s
  OBVIOUS
<1>5. CASE ToSet(s) \cap S = {} /\ ToSet(t) \subseteq S
  <2>1. Members(s, S) = <<>> /\ Members(t, S) = t
    BY <1>2, <1>3, <1>5
  <2>2. Members(s \o t, S) = t
    BY <1>1, <1>4, <2>1
  <2> HIDE DEF Members
  <2>3. ToSet(t) \cap S = {} /\ ToSet(s) \subseteq S => s = t
    <3> SUFFICES ASSUME ToSet(t) \cap S = {}, ToSet(s) \subseteq S PROVE s = t
      OBVIOUS
    <3>1. ToSet(s) = {} /\ ToSet(t) = {}
      BY <1>5
    <3> QED BY <3>1, Elements
  <2> QED BY <2>2, <2>3
<1>6. CASE ~(ToSet(s) \cap S = {} /\ ToSet(t) \subseteq S)
  <2> SUFFICES ASSUME ToSet(t) \cap S = {}, ToSet(s) \subseteq S PROVE Members(s \o t, S) = s
    BY <1>6
  <2>1. Members(s, S) = s /\ Members(t, S) = <<>>
    BY <1>2, <1>3
  <2> QED BY <1>1, <1>4, <2>1
<1> QED BY <1>5, <1>6

\* A list is a beginning as long as asked for, or all of it, and the rest.
LEMMA Beginning ==
  ASSUME NEW X, NEW s \in Seq(X), NEW n \in Nat
  PROVE  \E p \in Seq(X), q \in Seq(X) : s = p \o q /\ (Len(p) = n \/ (Len(p) < n /\ q = <<>>))
<1>1. CASE Len(s) <= n
  <2>1. s = s \o <<>> /\ <<>> \in Seq(X) /\ (Len(s) = n \/ Len(s) < n)
    BY <1>1
  <2> QED BY <2>1
<1>2. CASE n < Len(s)
  <2> DEFINE p == SubSeq(s, 1, n)
             q == SubSeq(s, n + 1, Len(s))
  <2>1. p \in Seq(X) /\ Len(p) = n /\ q \in Seq(X) /\ Len(q) = Len(s) - n
    BY <1>2
  <2>2. \A i \in 1..n : p[i] = s[i]
    BY <1>2
  <2>3. \A i \in 1..(Len(s) - n) : q[i] = s[n + i]
    BY <1>2
  <2> HIDE DEF p, q
  <2>4. Len(p \o q) = Len(s) /\ p \o q \in Seq(X)
    BY <2>1
  <2>5. \A i \in 1..Len(s) : (p \o q)[i] = s[i]
    <3> TAKE i \in 1..Len(s)
    <3>1. CASE i <= n
      <4>1. i \in 1..n
        BY <3>1
      <4>2. (p \o q)[i] = p[i]
        BY <2>1, <4>1, ConcatProperties
      <4> QED BY <2>2, <4>1, <4>2
    <3>2. CASE n < i
      <4>1. i - n \in 1..(Len(s) - n) /\ n + (i - n) = i
        BY <3>2
      <4>2. (p \o q)[i] = q[i - n]
        BY <2>1, <3>2, <4>1
      <4> QED BY <2>3, <4>1, <4>2
    <3>3. i <= n \/ n < i
      OBVIOUS
    <3> QED BY <3>1, <3>2, <3>3, Zenon
  <2>6. s = p \o q
    BY <2>4, <2>5, SeqEqual
  <2> QED BY <2>1, <2>6
<1> QED BY <1>1, <1>2

\* The first places of the tiled list are those that the layout has.
LEMMA FittingIs ==
  ASSUME NEW d, d.setup.areas \in Nat, NEW p \in Seq(Windows), NEW q \in Seq(Windows),
         TiledList(d) = p \o q, Len(p) = d.setup.areas \/ (Len(p) < d.setup.areas /\ q = <<>>)
  PROVE  Fitting(d) = ToSet(p)
<1> DEFINE n == d.setup.areas
           s == p \o q
<1>1. /\ DOMAIN s = 1..(Len(p) + Len(q)) /\ DOMAIN p = 1..Len(p)
      /\ \A i \in 1..Len(p) : s[i] = p[i]
  OBVIOUS
<1>2. {j \in DOMAIN s : j <= n} = 1..Len(p)
  <2>1. Len(p) \in Nat /\ Len(q) \in Nat /\ (q = <<>> => Len(q) = 0)
    OBVIOUS
  <2> QED BY <1>1, <2>1
<1>3. Fitting(d) = {s[i] : i \in {j \in DOMAIN s : j <= n}}
  BY DEF Fitting
<1> HIDE DEF s, n
<1>4. Fitting(d) = {p[i] : i \in 1..Len(p)}
  BY <1>1, <1>2, <1>3
<1> QED BY <1>1, <1>4 DEF ToSet

\* What can be seen of what the selected tag shows.
LEMMA SeenWhere ==
  ASSUME NEW d, Sound(d), d.selected \in d.tags[d.selected], InPlace(d), NEW w \in ToSet(Shown(d))
  PROVE  LET out == ToSet(TiledList(d)) \ Fitting(d)
         IN  /\ PotentiallyViewable(d, w) /\ (GetHidden(d, w) <=> w \in out)
             /\ Viewable(d, w) <=> w \notin out
<1>1. CurrentTag(d, w) = d.selected /\ w \in HereOf(d)
  BY ShownAt DEF Sound, Shows
<1>2. ExistsOn(d, d.selected, w)
  BY <1>1 DEF HereOf
<1>3. GetHidden(d, w) <=> w \in ToSet(TiledList(d)) \ Fitting(d)
  BY <1>1 DEF GetHidden, InPlace
<1> QED BY <1>2, <1>3 DEF Viewable, PotentiallyViewable

\* The tiled windows are those that fit, which can be seen, and the hidden ones.
Halves(d, p, q) ==
  /\ TiledList(d) = p \o q /\ (Len(p) = d.setup.areas \/ (Len(p) < d.setup.areas /\ q = <<>>))
  /\ HiddenList(d) = q /\ Members(VisibleList(d), Tiled(d)) = p

\* What is visible and what is hidden.
LEMMA HalvesAre ==
  ASSUME NEW d, Sound(d), d.selected \in d.tags[d.selected], InPlace(d)
  PROVE  /\ \E p \in Seq(Windows), q \in Seq(Windows) : Halves(d, p, q)
         /\ VisibleList(d) \in Seq(Windows) /\ IsInjective(VisibleList(d))
         /\ ToSet(VisibleList(d)) \cap ToSet(HiddenList(d)) = {}
         /\ ToSet(VisibleList(d)) \cup ToSet(HiddenList(d)) = ToSet(Shown(d))
<1> DEFINE list == Shown(d)
           t == TiledList(d)
           F == Fitting(d)
           T == Tiled(d)
           V == {w \in Windows : Viewable(d, w)}
           H == {w \in Windows : PotentiallyViewable(d, w) /\ GetHidden(d, w)}
<1>1. /\ t \in Seq(Windows) /\ IsInjective(t) /\ ToSet(t) = ToSet(list) \cap T
      /\ t = Members(list, T) /\ list \in Seq(Windows) /\ IsInjective(list)
      /\ d.setup.areas \in Nat
  BY TiledListIs, SetupsAssumption, Fields DEF Sound, Base, Typed
<1>2. VisibleList(d) = Members(list, V) /\ HiddenList(d) = Members(list, H)
  BY DEF VisibleList, HiddenList, Shown
<1>3. PICK p \in Seq(Windows), q \in Seq(Windows) :
        t = p \o q /\ (Len(p) = d.setup.areas \/ (Len(p) < d.setup.areas /\ q = <<>>))
  BY <1>1, Beginning
<1>4. F = ToSet(p)
  BY <1>1, <1>3, FittingIs
<1>5. ToSet(t) = ToSet(p) \cup ToSet(q) /\ ToSet(p) \cap ToSet(q) = {}
  BY <1>1, <1>3, Elements, OnceEach
<1>6. \A w \in ToSet(list) : (w \in H <=> w \in ToSet(q)) /\ (w \in V <=> w \notin ToSet(q))
  <2>1. ToSet(list) \subseteq Windows
    BY <1>1, Elements
  <2>2. \A w \in ToSet(list) : /\ PotentiallyViewable(d, w) /\ (GetHidden(d, w) <=> w \in ToSet(t) \ F)
                               /\ Viewable(d, w) <=> w \notin ToSet(t) \ F
    BY SeenWhere
  <2> HIDE DEF t, F, list
  <2> QED BY <1>4, <1>5, <2>1, <2>2
<1> HIDE DEF list, t, F, T, V, H
<1>7. HiddenList(d) = q
  <2>1. ToSet(list) \cap H = ToSet(list) \cap (T \cap H)
    BY <1>1, <1>5, <1>6
  <2>2. Members(list, H) = Members(list, T \cap H)
    BY <1>1, <2>1, MembersSame
  <2>3. Members(t, H) = Members(list, T \cap H)
    BY <1>1, MembersTwice
  <2>4. ToSet(p) \cap H = {} /\ ToSet(q) \subseteq H
    BY <1>1, <1>5, <1>6
  <2>5. Members(t, H) = q
    BY <1>3, <2>4, MembersOfHalf
  <2> QED BY <1>2, <2>2, <2>3, <2>5
<1>8. Members(VisibleList(d), T) = p
  <2>1. Members(Members(list, V), T) = Members(list, V \cap T) /\ Members(Members(list, T), V) = Members(list, T \cap V)
    BY <1>1, MembersTwice
  <2>2. V \cap T = T \cap V
    OBVIOUS
  <2>3. ToSet(q) \cap V = {} /\ ToSet(p) \subseteq V
    BY <1>1, <1>5, <1>6
  <2>4. Members(t, V) = p
    BY <1>3, <2>3, MembersOfHalf
  <2> QED BY <1>1, <1>2, <2>1, <2>2, <2>4
<1>9. /\ VisibleList(d) \in Seq(Windows) /\ IsInjective(VisibleList(d))
      /\ ToSet(VisibleList(d)) = ToSet(list) \cap V
  BY <1>1, <1>2, MembersTyped, MembersOnce, MembersSet
<1>10. Halves(d, p, q)
  BY <1>3, <1>7, <1>8 DEF Halves, t, T
<1>11. ToSet(q) \subseteq ToSet(list) /\ ToSet(list) \cap V = ToSet(list) \ ToSet(q)
  BY <1>1, <1>5, <1>6
<1> QED BY <1>7, <1>9, <1>10, <1>11 DEF list

\* The order in which the visible windows v come before the hidden windows h is
\* written; the tiled ones of v are as many as before.
LEMMA OrderIs ==
  ASSUME NEW d, Sound(d), d.selected \in d.tags[d.selected],
         NEW v \in Seq(Windows), NEW h \in Seq(Windows), IsInjective(v \o h),
         ToSet(v \o h) = ToSet(Shown(d)), ToSet(h) \subseteq Tiled(d),
         Len(Members(v, Tiled(d))) = d.setup.areas,
         NEW con \in ToSet(Members(v, Tiled(d)))
  PROVE  LET e == WriteOrder(d, v \o h, con)
         IN  /\ Sound(e) /\ e.selected = d.selected /\ e.tags = d.tags /\ e.setup = d.setup
             /\ Tiled(e) = Tiled(d) /\ Shown(e) = v \o h /\ ToSet(Shown(e)) = ToSet(Shown(d))
             /\ \A w : IsFloating(e, w) = IsFloating(d, w)
             /\ TiledList(e) = Members(v, Tiled(d)) \o h
             /\ VisibleList(e) = v /\ HiddenList(e) = h
             /\ Focused(e) = con
<1> DEFINE sel == d.selected
           result == v \o h
           p == Members(v, Tiled(d))
           s == WriteToParent(Shown(d), result)
           m == WriteToTags([d EXCEPT !.visible_con_set[sel] = s])
           f == WriteToFocusStacks(m)
           a == Arrange(f)
           e == FocusContainer(a, sel, con)
<1>1. /\ sel \in Tags /\ Shown(d) \in Seq(Windows) /\ IsInjective(Shown(d)) /\ Base(d)
      /\ d.setup.areas \in Nat
  BY Fields, SetupsAssumption DEF Sound, Base, Typed, Shown
<1>2. result \in Seq(Windows) /\ ToSet(result) = ToSet(v) \cup ToSet(h) /\ ToSet(v) \cap ToSet(h) = {}
      /\ IsInjective(result) /\ ToSet(result) = ToSet(Shown(d))
  BY Elements, OnceEach
<1>3. p \in Seq(Windows) /\ ToSet(p) = ToSet(v) \cap Tiled(d)
  BY MembersTyped, MembersSet
<1>4. WriteOrder(d, result, con) = e
  BY DEF WriteOrder, Shown
<1>5. s = result
  <2>1. /\ s \in Seq(Windows) /\ ToSet(s) = ToSet(Shown(d))
        /\ Members(s, Windows) = Members(Members(result, ToSet(Shown(d))), Windows)
    <3>1. Windows \cap ToSet(Shown(d)) \subseteq ToSet(result)
      BY <1>2
    <3> HIDE DEF result
    <3> QED BY <1>1, <1>2, <3>1, WrittenToParent
  <2>2. Members(result, ToSet(Shown(d))) = result
    BY <1>2, MembersAll
  <2>3. Members(s, Windows) = s /\ Members(result, Windows) = result
    BY <1>2, <2>1, Elements, MembersAll
  <2> QED BY <2>1, <2>2, <2>3
<1> HIDE DEF s
<1>6. /\ Sound(m) /\ Kin(d, m) /\ Shown(m) = result /\ m.tag_id = d.tag_id /\ m.on_output = d.on_output
      /\ m.floating = d.floating
  BY <1>1, <1>2, <1>5, ReorderSound
<1> HIDE DEF m
<1>7. Sound(f) /\ OnlyFocus(m, f)
  BY <1>6, WriteToFocusStacksSound
<1> HIDE DEF f
<1>8. Good(a) /\ Sound(a) /\ SameLists(f, a) /\ a.floating = f.floating /\ InPlace(a)
  BY <1>7, ArrangeGood, ArrangeSound, ArrangePlaces DEF Arranged
<1> HIDE DEF a
<1>9. /\ a.selected = sel /\ a.tags = d.tags /\ a.setup = d.setup /\ a.on_output = d.on_output
      /\ a.tag_id = d.tag_id /\ a.floating = d.floating /\ Shown(a) = result /\ Listed(a) = Listed(d)
      /\ a.created = d.created
  <2>1. Shown(a) = Shown(m) /\ Listed(a) = Listed(m)
    BY <1>7, <1>8, SameTwice, SameShows
  <2> QED BY <1>6, <1>7, <1>8, <2>1 DEF Kin, OnlyFocus, SameLists
<1>10. con \in ToSet(Shown(a)) /\ con \in Listed(a) /\ con \in a.created
  <2>1. con \in ToSet(Shown(a))
    BY <1>2, <1>3, <1>9
  <2>2. con \in Listed(a) /\ con \in Windows
    BY <1>8, <2>1, ShownInSight, ListedMapped DEF Sound, Base
  <2> QED BY <1>8, <2>1, <2>2, ListedMapped DEF Sound, Base, Typed
<1>11. Sound(e) /\ OnlyFocus(a, e)
  BY <1>8, <1>9, <1>10, FocusListed
<1>12. /\ e.selected = sel /\ e.tags = d.tags /\ e.setup = d.setup /\ e.on_output = d.on_output
       /\ e.tag_id = d.tag_id /\ e.floating = d.floating /\ Shown(e) = result /\ e.hidden = a.hidden
  BY <1>9, <1>11, SameShows DEF OnlyFocus, SameLists
<1>13. /\ Tiled(e) = Tiled(d) /\ Tiled(a) = Tiled(d) /\ TiledList(a) = TiledList(e)
       /\ \A w : IsFloating(e, w) = IsFloating(d, w)
  BY <1>9, <1>12, TiledSame
<1>14. TiledList(e) = p \o h
  <2>1. TiledList(e) = Members(result, Tiled(d))
    <3> HIDE DEF e, result
    <3> QED BY <1>11, <1>12, <1>13, TiledListIs
  <2>2. Members(v \o h, Tiled(d)) = Members(v, Tiled(d)) \o Members(h, Tiled(d))
    BY MembersConcat
  <2>3. Members(h, Tiled(d)) = h
    BY MembersAll
  <2> HIDE DEF e
  <2> QED BY <2>1, <2>2, <2>3
<1>15. ToSet(TiledList(e)) \ Fitting(e) = ToSet(h) /\ Fitting(a) = ToSet(p)
  <2>1. ToSet(TiledList(e)) = ToSet(p) \cup ToSet(h)
    BY <1>3, <1>14, Elements
  <2>2. Fitting(e) = ToSet(p) /\ Fitting(a) = ToSet(p)
    <3>1. Len(p) = d.setup.areas
      OBVIOUS
    <3> HIDE DEF p, e
    <3> QED BY <1>1, <1>3, <1>9, <1>12, <1>13, <1>14, <3>1, FittingIs
  <2> QED BY <1>2, <1>3, <2>1, <2>2
<1>16. InPlace(e)
  <2> HIDE DEF e
  <2> QED BY <1>8, <1>9, <1>12, <1>13 DEF InPlace, Fitting
<1>17. VisibleList(e) = v /\ HiddenList(e) = h
  <2> DEFINE V == {w \in Windows : Viewable(e, w)}
             H == {w \in Windows : PotentiallyViewable(e, w) /\ GetHidden(e, w)}
  <2>1. VisibleList(e) = Members(result, V) /\ HiddenList(e) = Members(result, H)
    BY <1>12 DEF VisibleList, HiddenList, Shown
  <2>2. \A w \in ToSet(result) : (w \in H <=> w \in ToSet(h)) /\ (w \in V <=> w \notin ToSet(h))
    <3>1. \A w \in ToSet(Shown(e)) :
            /\ PotentiallyViewable(e, w) /\ (GetHidden(e, w) <=> w \in ToSet(h))
            /\ Viewable(e, w) <=> w \notin ToSet(h)
      <4> HIDE DEF e
      <4> QED BY <1>11, <1>12, <1>15, <1>16, SeenWhere
    <3>2. ToSet(result) \subseteq Windows
      BY <1>2, Elements
    <3> QED BY <1>12, <3>1, <3>2
  <2> HIDE DEF V, H, e
  <2>3. ToSet(v) \cap H = {} /\ ToSet(h) \subseteq H /\ ToSet(h) \cap V = {} /\ ToSet(v) \subseteq V
    BY <1>2, <2>2
  <2> QED BY <2>1, <2>3, MembersOfHalf
<1>18. Focused(e) = con
  <2>1. ~GetHidden(a, con)
    <3>1. con \in Fitting(a)
      BY <1>15
    <3>2. CurrentTag(a, con) = a.selected
      BY <1>8, <1>10, ShownAt
    <3> QED BY <1>8, <1>10, <3>1, <3>2 DEF InPlace, GetHidden
  <2>2. Base(a) /\ con # None
    BY <1>8, <1>10, NoneAssumption, ListedMapped DEF Sound, Base
  <2> QED BY <1>9, <1>10, <2>1, <2>2, FocusContainerAt
<1> HIDE DEF e
<1> QED BY <1>4, <1>11, <1>12, <1>13, <1>14, <1>17, <1>18

\* The first index and the last one, from 1
LEMMA FirstAndLast ==
  ASSUME NEW n \in Nat \ {0}
  PROVE  RelativeIndex(0, 0, n) + 1 = 1 /\ RelativeIndex(0, -1, n) + 1 = n
<1>1. 0 % n = 0
  OBVIOUS
<1>2. (0 + (-1)) % n = n - 1
  <2>1. (0 + (-1)) % n = (n - 1) % n
    BY SMTT(30)
  <2> QED BY <2>1, SMTT(30)
<1> QED BY <1>1, <1>2 DEF RelativeIndex

\* A list is its first element and what is left without it.
LEMMA FirstAway ==
  ASSUME NEW X, NEW s \in Seq(X), IsInjective(s), s # <<>>
  PROVE  s = <<s[1]>> \o Without(s, s[1])
<1>1. PICK h \in Seq(X), t \in Seq(X) : s = h \o t /\ (Len(h) = 1 \/ (Len(h) < 1 /\ t = <<>>))
  <2>1. 1 \in Nat
    OBVIOUS
  <2> QED BY <2>1, Beginning
<1>2. Len(h) = 1
  <2>1. CASE Len(h) < 1 /\ t = <<>>
    <3>1. Len(h) = 0
      BY <2>1
    <3>2. h = <<>>
      BY <3>1
    <3>3. s = <<>>
      BY <1>1, <2>1, <3>2
    <3> QED BY <3>3
  <2> QED BY <1>1, <2>1
<1>3. h = <<s[1]>> /\ s[1] \in X
  <2>1. h[1] \in X /\ DOMAIN h = {1}
    <3>1. 1 \in 1..Len(h)
      BY <1>2
    <3> QED BY <1>2, <3>1
  <2>2. (h \o t)[1] = h[1]
    <3>1. 1 \in 1..Len(h) + Len(t) /\ 1 <= Len(h)
      BY <1>2
    <3> QED BY <3>1
  <2>3. h = <<h[1]>>
    <3>1. <<h[1]>> \in Seq(X) /\ Len(<<h[1]>>) = Len(h) /\ <<h[1]>>[1] = h[1]
      BY <1>2, <2>1
    <3>2. \A i \in 1..Len(h) : h[i] = <<h[1]>>[i]
      BY <1>2, <3>1
    <3> QED BY <3>1, <3>2, SeqEqual
  <2> QED BY <1>1, <2>1, <2>2, <2>3
<1>4. ToSet(h) \cap ToSet(t) = {} /\ ToSet(s) = ToSet(h) \cup ToSet(t) /\ ToSet(h) = {s[1]}
  <2>1. IsInjective(h \o t)
    BY <1>1
  <2>2. ToSet(h) = {s[1]}
    BY <1>3, Elements
  <2>3. ToSet(h \o t) = ToSet(h) \cup ToSet(t) /\ ToSet(h) \cap ToSet(t) = {}
    BY <2>1, OnceEach, Elements
  <2> QED BY <1>1, <2>2, <2>3
<1>5. Without(s, s[1]) = t
  <2> DEFINE S == ToSet(s) \ {s[1]}
  <2>1. Without(s, s[1]) = Members(s, S)
    BY DEF Without
  <2>2. ToSet(h) \cap S = {} /\ ToSet(t) \subseteq S
    BY <1>4
  <2> HIDE DEF S
  <2> QED BY <1>1, <2>1, <2>2, MembersOfHalf
<1> QED BY <1>1, <1>3, <1>5

\* A list without the element that was put behind it.
LEMMA LastAway ==
  ASSUME NEW X, NEW s \in Seq(X), NEW e \in X, e \notin ToSet(s)
  PROVE  Without(Append(s, e), e) = s
<1> DEFINE u == <<e>>
           S == ToSet(Append(s, e)) \ {e}
<1>1. Append(s, e) = s \o u /\ u \in Seq(X)
  OBVIOUS
<1>2. ToSet(u) \cap S = {} /\ ToSet(s) \subseteq S
  BY Elements
<1>3. Without(Append(s, e), e) = Members(Append(s, e), S)
  BY DEF Without
<1> HIDE DEF u, S
<1> QED BY <1>1, <1>2, <1>3, MembersOfHalf

\* An element that takes the place of another one, and gives it back.
LEMMA PlaceBack ==
  ASSUME NEW X, NEW s \in Seq(X), NEW e \in X, e \notin ToSet(s), NEW i \in 1..Len(s)
  PROVE  LET t == ReplaceAt(s, i, e)
         IN  Contains(t, e) /\ Position(t, e) = i /\ ReplaceAt(t, i, s[i]) = s
<1> DEFINE t == ReplaceAt(s, i, e)
<1>1. t = [s EXCEPT ![i] = e] /\ DOMAIN s = 1..Len(s)
  BY DEF ReplaceAt
<1>2. DOMAIN t = 1..Len(s) /\ t[i] = e /\ \A j \in 1..Len(s) \ {i} : t[j] = s[j]
  BY <1>1
<1>3. \A j \in 1..Len(s) : s[j] \in ToSet(s)
  BY <1>1 DEF ToSet
<1>4. ReplaceAt(t, i, s[i]) = [t EXCEPT ![i] = s[i]]
  BY DEF ReplaceAt
<1> HIDE DEF t
<1>5. [t EXCEPT ![i] = s[i]] = s
  <2>1. [t EXCEPT ![i] = s[i]] = [j \in 1..Len(s) |-> s[j]]
    BY <1>1
  <2>2. s = [j \in 1..Len(s) |-> s[j]]
    OBVIOUS
  <2> QED BY <2>1, <2>2
<1>6. \A j \in DOMAIN t : t[j] = e <=> j = i
  BY <1>2, <1>3
<1>7. Contains(t, e)
  BY <1>2 DEF Contains
<1>8. Position(t, e) = i
  BY <1>2, <1>6 DEF Position
<1> QED BY <1>4, <1>5, <1>7, <1>8 DEF t

\* As many elements after one has taken the place of another.
LEMMA AsManyAfter ==
  ASSUME NEW X, NEW s \in Seq(X), NEW t \in Seq(X), IsInjective(s), IsInjective(t),
         NEW a \in ToSet(s), NEW b, b \notin ToSet(s), ToSet(t) = (ToSet(s) \ {a}) \cup {b}
  PROVE  Len(t) = Len(s)
<1> DEFINE S == ToSet(s)
           T == ToSet(t)
<1>1. /\ IsFiniteSet(S) /\ Cardinality(S) = Len(s)
      /\ IsFiniteSet(T) /\ Cardinality(T) = Len(t)
  BY LengthOnce
<1>2. S \cup {b} = T \cup {a} /\ a \notin T /\ b \notin S
  OBVIOUS
<1> HIDE DEF S, T
<1>3. Cardinality(S \cup {b}) = Cardinality(S) + 1 /\ Cardinality(T \cup {a}) = Cardinality(T) + 1
  BY <1>1, <1>2, FS_AddElement
<1>4. Len(s) \in Nat /\ Len(t) \in Nat
  OBVIOUS
<1>5. Cardinality(S) + 1 = Cardinality(T) + 1
  BY <1>2, <1>3
<1> QED BY <1>1, <1>4, <1>5

\* focus_on_hidden_stack of the first hidden window and then of the last one
LEMMA HiddenCycle ==
  ASSUME NEW d, Good(d), InPlace(d), d.selected \in d.tags[d.selected],
         Focused(d) # None, ~IsFloating(d, Focused(d))
  PROVE  LET e == OnHiddenStack(OnHiddenStack(d, 0, TRUE), -1, TRUE)
         IN  TiledList(e) = TiledList(d) /\ Focused(e) = Focused(d)
<1> DEFINE v == VisibleList(d)
           h == HiddenList(d)
           f == Focused(d)
           con == h[1]
           pos == Position(v, f)
           v2 == ReplaceAt(v, pos, con)
           rest == Without(h, con)
           h2 == Append(rest, f)
           e == WriteOrder(d, v2 \o h2, con)
           g == WriteOrder(e, v \o h, f)
<1>1. Sound(d) /\ f \in Windows
  BY FocusedOf, ListedMapped DEF Good, Sound
<1>2. \A w : ExchangeFloating(d, f, w) = d
  BY DEF ExchangeFloating
<1>3. CASE h = <<>> \/ ~Contains(v, f)
  <2>1. \A i \in {0, -1} : OnHiddenStack(d, i, TRUE) = d
    BY <1>2, <1>3 DEF OnHiddenStack
  <2> QED BY <2>1
<1>4. CASE h # <<>> /\ Contains(v, f)
  <2>1. PICK p \in Seq(Windows), q \in Seq(Windows) : Halves(d, p, q)
    BY <1>1, HalvesAre
  <2>2. /\ v \in Seq(Windows) /\ IsInjective(v) /\ ToSet(v) \cap ToSet(h) = {}
        /\ ToSet(v) \cup ToSet(h) = ToSet(Shown(d))
    BY <1>1, HalvesAre
  <2>3. /\ TiledList(d) = p \o h /\ Members(v, Tiled(d)) = p /\ Len(p) = d.setup.areas
        /\ h \in Seq(Windows)
    BY <1>4, <2>1 DEF Halves
  <2>4. IsInjective(h) /\ ToSet(h) \subseteq Tiled(d)
    <3>1. TiledList(d) \in Seq(Windows) /\ IsInjective(TiledList(d)) /\ ToSet(TiledList(d)) \subseteq Tiled(d)
      BY <1>1, TiledListIs
    <3>2. IsInjective(p \o h) /\ ToSet(p \o h) \subseteq Tiled(d)
      BY <2>3, <3>1
    <3> HIDE DEF h
    <3> QED BY <2>3, <3>2, OnceEach, Elements
  <2>5. OnHiddenStack(d, 0, TRUE) = e
    <3>1. RelativeIndex(0, 0, Len(h)) + 1 = 1
      <4>1. Len(h) \in Nat \ {0}
        BY <1>4, <2>3
      <4> QED BY <4>1, FirstAndLast
    <3> QED BY <1>2, <1>4, <3>1 DEF OnHiddenStack
  <2> HIDE DEF v, h, f
  <2>6. pos \in 1..Len(v) /\ v[pos] = f /\ f \in ToSet(v)
    BY <1>4, <2>2, Places
  <2>7. con \in ToSet(h) /\ con \in Windows /\ con \notin ToSet(v) /\ con # f /\ f \notin ToSet(h)
    <3>1. 1 \in 1..Len(h)
      BY <1>4, <2>3
    <3> QED BY <2>2, <2>3, <2>6, <3>1, Places
  <2>8. f \in ToSet(p) /\ f \in Tiled(d)
    <3>1. f \in Tiled(d)
      BY <1>1 DEF Tiled, f
    <3> QED BY <2>2, <2>3, <2>6, <3>1, MembersSet
  <2>9. rest \in Seq(Windows) /\ IsInjective(rest) /\ ToSet(rest) = ToSet(h) \ {con} /\ h = <<con>> \o rest
    BY <1>4, <2>3, <2>4, WithoutIs, FirstAway
  <2>10. /\ v2 \in Seq(Windows) /\ IsInjective(v2) /\ ToSet(v2) = (ToSet(v) \ {f}) \cup {con}
         /\ Contains(v2, con) /\ Position(v2, con) = pos /\ ReplaceAt(v2, pos, f) = v
    <3> HIDE DEF con, pos
    <3>1. con \notin ToSet(v) \ {v[pos]}
      BY <2>7
    <3> QED BY <2>2, <2>6, <2>7, <3>1, ReplacedIs, PlaceBack
  <2> HIDE DEF con, pos, v2, rest
  <2>11. /\ h2 \in Seq(Windows) /\ IsInjective(h2) /\ ToSet(h2) = ToSet(rest) \cup {f}
         /\ Without(h2, f) = rest /\ h2 # <<>> /\ h2[Len(h2)] = f /\ Len(h2) \in Nat \ {0}
    <3>1. f \notin ToSet(rest)
      BY <2>7, <2>9
    <3>2. Without(h2, f) = rest
      BY <1>1, <2>9, <3>1, LastAway
    <3>3. h2 \in Seq(Windows) /\ IsInjective(h2) /\ ToSet(h2) = ToSet(rest) \cup {f}
      <4>1. Append(rest, f) \in Seq(Windows) /\ IsInjective(Append(rest, f))
        BY <1>1, <2>9, <3>1, OnceEach, AppendProperties
      <4>2. ToSet(Append(rest, f)) = ToSet(rest) \cup {f}
        BY <1>1, <2>9, Elements
      <4> QED BY <4>1, <4>2
    <3>4. Len(h2) = Len(rest) + 1 /\ h2[Len(rest) + 1] = f /\ Len(rest) \in Nat
      BY <1>1, <2>9
    <3> HIDE DEF h2
    <3> QED BY <3>2, <3>3, <3>4
  <2> HIDE DEF h2
  <2>12. Len(Members(v2, Tiled(d))) = d.setup.areas /\ con \in ToSet(Members(v2, Tiled(d)))
    <3> DEFINE p2 == Members(v2, Tiled(d))
    <3>1. p2 \in Seq(Windows) /\ IsInjective(p2) /\ ToSet(p2) = ToSet(v2) \cap Tiled(d)
      BY <2>10, MembersTyped, MembersOnce, MembersSet
    <3>2. IsInjective(p) /\ ToSet(p) = ToSet(v) \cap Tiled(d)
      BY <2>2, <2>3, MembersOnce, MembersSet
    <3> HIDE DEF p2
    <3>3. ToSet(p2) = (ToSet(p) \ {f}) \cup {con} /\ con \notin ToSet(p)
      BY <2>4, <2>7, <2>10, <3>1, <3>2
    <3>4. Len(p2) = Len(p)
      BY <2>8, <3>1, <3>2, <3>3, AsManyAfter
    <3> QED BY <2>3, <3>3, <3>4 DEF p2
  <2>13. IsInjective(v2 \o h2) /\ ToSet(v2 \o h2) = ToSet(Shown(d)) /\ ToSet(h2) \subseteq Tiled(d)
    <3>1. ToSet(v2) \cap ToSet(h2) = {}
      BY <2>2, <2>7, <2>9, <2>10, <2>11
    <3>2. ToSet(v2) \cup ToSet(h2) = ToSet(Shown(d))
      BY <2>2, <2>6, <2>7, <2>9, <2>10, <2>11
    <3>3. ToSet(h2) \subseteq Tiled(d)
      BY <2>4, <2>8, <2>9, <2>11
    <3>4. IsInjective(v2 \o h2)
      BY <2>10, <2>11, <3>1, OnceEach
    <3>5. ToSet(v2 \o h2) = ToSet(v2) \cup ToSet(h2)
      BY <2>10, <2>11, Elements
    <3> QED BY <3>2, <3>3, <3>4, <3>5
  <2>14. /\ Sound(e) /\ e.selected = d.selected /\ e.tags = d.tags /\ e.setup = d.setup
         /\ Tiled(e) = Tiled(d) /\ ToSet(Shown(e)) = ToSet(Shown(d))
         /\ \A w : IsFloating(e, w) = IsFloating(d, w)
         /\ VisibleList(e) = v2 /\ HiddenList(e) = h2
         /\ Focused(e) = con
    BY <1>1, <2>10, <2>11, <2>12, <2>13, OrderIs
  <2> HIDE DEF e
  <2>15. OnHiddenStack(e, -1, TRUE) = g
    <3>1. RelativeIndex(0, -1, Len(h2)) + 1 = Len(h2)
      BY <2>11, FirstAndLast
    <3>2. ExchangeFloating(e, con, f) = e
      BY <2>4, <2>7, <2>14 DEF ExchangeFloating, Tiled
    <3>3. con # None /\ h2 # <<>>
      BY <2>7, <2>11, NoneAssumption
    <3> HIDE DEF WriteOrder, ExchangeFloating
    <3>4. OnHiddenStack(e, -1, TRUE) =
            WriteOrder(e, ReplaceAt(v2, Position(v2, con), f) \o (<<con>> \o Without(h2, f)), f)
      BY <2>10, <2>11, <2>14, <3>1, <3>2, <3>3 DEF OnHiddenStack
    <3> QED BY <2>9, <2>10, <2>11, <3>4
  <2>16. /\ IsInjective(v \o h) /\ ToSet(v \o h) = ToSet(Shown(e)) /\ ToSet(h) \subseteq Tiled(e)
         /\ Members(v, Tiled(e)) = p /\ Len(p) = e.setup.areas
         /\ e.selected \in e.tags[e.selected]
    <3>1. IsInjective(v \o h)
      BY <2>2, <2>3, <2>4, OnceEach
    <3>2. ToSet(v \o h) = ToSet(v) \cup ToSet(h)
      BY <2>2, <2>3, Elements
    <3> QED BY <2>2, <2>3, <2>4, <2>14, <3>1, <3>2
  <2>17. TiledList(g) = p \o h /\ Focused(g) = f
    <3>1. Len(Members(v, Tiled(e))) = e.setup.areas /\ f \in ToSet(Members(v, Tiled(e)))
      BY <2>8, <2>16
    <3>2. /\ Sound(e) /\ e.selected \in e.tags[e.selected] /\ v \in Seq(Windows) /\ h \in Seq(Windows)
          /\ IsInjective(v \o h) /\ ToSet(v \o h) = ToSet(Shown(e)) /\ ToSet(h) \subseteq Tiled(e)
      BY <2>2, <2>3, <2>14, <2>16
    <3>3. /\ TiledList(WriteOrder(e, v \o h, f)) = Members(v, Tiled(e)) \o h
          /\ Focused(WriteOrder(e, v \o h, f)) = f
      <4> HIDE DEF g
      <4> QED BY <3>1, <3>2, OrderIs
    <3> QED BY <2>16, <3>3
  <2> HIDE DEF g
  <2> QED BY <2>3, <2>5, <2>15, <2>17 DEF f
<1> QED BY <1>3, <1>4

\* Bringing the first hidden window and then the last one undoes itself, for all
\* users for whom what is hidden is up to date after every handler.
THEOREM HiddenCycleAlways ==
  ASSUME KeysApart PROVE Spec => [](Simple(desk) => HiddenCycleReturns)
<1>1. Good(desk) => (Simple(desk) => HiddenCycleReturns)
  <2> SUFFICES ASSUME Good(desk), Simple(desk),
                      ShowsItself, Focused(desk) # None, ~IsFloating(desk, Focused(desk))
               PROVE  LET d == OnHiddenStack(OnHiddenStack(desk, 0, TRUE), -1, TRUE)
                      IN  TiledList(d) = TiledList(desk) /\ Focused(d) = Focused(desk)
    BY DEF HiddenCycleReturns
  <2>1. InPlace(desk)
    BY DEF Good, Steady, ShowsItself
  <2> QED BY <2>1, HiddenCycle DEF ShowsItself
<1> QED BY <1>1, DeskAlwaysGood, PTL

\* Commands that undo each other do, in every state that such users can reach.
THEOREM CommandsAlwaysUndo ==
  ASSUME AtFront, \A s \in Setups : "pad" \notin s.keys /\ ~({"swap", "order"} \subseteq s.keys)
  PROVE  Spec => []CommandsUndo
<1>1. KeysApart
  BY DEF KeysApart
<1>2. Spec => []ViewAndBackKeepsFocus
  BY <1>1, ViewAndBackAlways
<1>3. Spec => [](Simple(desk) => HiddenCycleReturns)
  BY <1>1, HiddenCycleAlways
<1>4. Good(desk) => Simple(desk)
  BY Fields DEF Good, Sound, Base, Typed, Simple
<1>5. Spec => []Good(desk)
  BY <1>1, DeskAlwaysGood
<1> QED BY <1>2, <1>3, <1>4, <1>5, PTL DEF CommandsUndo

=============================================================================
