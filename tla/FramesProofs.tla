---------------------------- MODULE FramesProofs ----------------------------
(***************************************************************************)
(* What holds of Frames for any windows, layout, areas, options and        *)
(* events: the geometries stay boxes and what floats can be grabbed again, *)
(* what is drawn agrees with them, tiled windows overlap by a pixel at     *)
(* most, and a drag is rigid.  The inductive invariant is FramesInv, and   *)
(* for the tiled windows TiledApart with it.  The first sections bound     *)
(* what the operations of SinglePrecision are off by.                      *)
(***************************************************************************)
EXTENDS Frames, FiniteSetTheorems, WellFoundedInduction, TLAPS

-----------------------------------------------------------------------------
(* Recursion                                                                 *)

\* Induction on the natural numbers, for a set of them.
LEMMA NaturalsInduct ==
  ASSUME NEW S, 0 \in S, \A n \in Nat : n \in S => n + 1 \in S
  PROVE  Nat \subseteq S
<1> SUFFICES ASSUME NEW n \in Nat, n \notin S PROVE FALSE
  OBVIOUS
<1> DEFINE T == {k \in Nat : k \notin S}
<1>1. PICK x \in T : \A y \in T : ~ (<<y, x>> \in OpToRel(<, Nat))
  BY NatLessThanWellFounded, WFMin
<1>2. \A y \in T : ~(y < x)
  BY <1>1, Zenon DEF OpToRel
<1>3. x # 0 /\ x - 1 \in Nat /\ x - 1 < x
  OBVIOUS
<1> QED BY <1>2, <1>3

\* The recursion f[x] = IF x \in Final THEN stop[x] ELSE step[x][f[next[x]]] on D
\* has its values in V and calls itself with a smaller measure.
Recursion(D, V, Final, stop, next, step, m) ==
  /\ Final \subseteq D /\ stop \in [D -> V] /\ next \in [D -> D]
  /\ step \in [D -> [V -> V]] /\ m \in [D -> Nat]
  /\ \A x \in D \ Final : m[next[x]] < m[x]

\* f is a solution of that recursion.
SolvesRecursion(f, D, Final, stop, next, step) ==
  \A x \in D : f[x] = IF x \in Final THEN stop[x] ELSE step[x][f[next[x]]]

\* A function that such a recursion defines exists.
LEMMA RecursionExists ==
  ASSUME NEW D, NEW V, NEW Final, NEW stop, NEW next, NEW step, NEW m,
         Recursion(D, V, Final, stop, next, step, m)
  PROVE  \E f \in [D -> V] : SolvesRecursion(f, D, Final, stop, next, step)
<1> USE DEF Recursion
<1> DEFINE
      Solves(f, k) == \A x \in D : m[x] < k =>
                        f[x] = IF x \in Final THEN stop[x] ELSE step[x][f[next[x]]]
      S == {k \in Nat : \E f \in [D -> V] : Solves(f, k)}
<1>1. 0 \in S
  OBVIOUS
<1>2. ASSUME NEW k \in Nat, k \in S PROVE k + 1 \in S
  <2>1. PICK f \in [D -> V] : Solves(f, k)
    BY <1>2
  <2> DEFINE g == [x \in D |-> IF x \in Final THEN stop[x] ELSE step[x][f[next[x]]]]
  <2>2. g \in [D -> V]
    OBVIOUS
  <2>3. \A x \in D : m[x] < k => g[x] = f[x]
    BY <2>1
  <2>4. \A x \in D \ Final : m[x] < k + 1 => m[next[x]] < k
    OBVIOUS
  <2>5. Solves(g, k + 1)
    BY <2>3, <2>4
  <2>6. k + 1 \in Nat /\ \E e \in [D -> V] : Solves(e, k + 1)
    <3> HIDE DEF g, Solves
    <3> QED BY <2>2, <2>5
  <2> QED BY <2>6
<1>3. Nat \subseteq S
  BY <1>1, <1>2, NaturalsInduct
<1> DEFINE fs == [k \in Nat |-> CHOOSE f \in [D -> V] : Solves(f, k)]
<1>4. \A k \in Nat : fs[k] \in [D -> V] /\ Solves(fs[k], k)
  BY <1>3
\* Two solutions agree where both are one.
<1> DEFINE A == {n \in Nat : \A x \in D : m[x] < n =>
                   \A k, l \in Nat : m[x] < k /\ m[x] < l => fs[k][x] = fs[l][x]}
<1>5. 0 \in A
  OBVIOUS
<1>6. ASSUME NEW n \in Nat, n \in A PROVE n + 1 \in A
  <2> SUFFICES ASSUME NEW x \in D, m[x] < n + 1, NEW k \in Nat, NEW l \in Nat,
                      m[x] < k, m[x] < l
               PROVE  fs[k][x] = fs[l][x]
    <3> HIDE DEF fs
    <3> QED OBVIOUS
  <2>0. \A y \in D : m[y] < n =>
          \A i, j \in Nat : m[y] < i /\ m[y] < j => fs[i][y] = fs[j][y]
    <3> HIDE DEF fs
    <3> QED BY <1>6
  <2> HIDE DEF fs, A
  <2>1. fs[k][x] = IF x \in Final THEN stop[x] ELSE step[x][fs[k][next[x]]]
    BY <1>4
  <2>2. fs[l][x] = IF x \in Final THEN stop[x] ELSE step[x][fs[l][next[x]]]
    BY <1>4
  <2>3. CASE x \in Final
    BY <2>1, <2>2, <2>3
  <2>4. CASE x \notin Final
    <3>1. next[x] \in D /\ m[next[x]] < m[x] /\ m[x] \in Nat /\ m[next[x]] \in Nat
      BY <2>4
    <3>2. m[next[x]] < n /\ m[next[x]] < k /\ m[next[x]] < l
      BY <3>1
    <3>3. fs[k][next[x]] = fs[l][next[x]]
      BY <2>0, <3>1, <3>2
    <3> QED BY <2>1, <2>2, <2>4, <3>3
  <2> QED BY <2>3, <2>4
<1>7. Nat \subseteq A
  <2> HIDE DEF A
  <2> QED BY <1>5, <1>6, NaturalsInduct
<1>8. \A x \in D : \A k, l \in Nat : m[x] < k /\ m[x] < l => fs[k][x] = fs[l][x]
  <2> TAKE x \in D
  <2>1. m[x] \in Nat /\ m[x] + 1 \in Nat /\ m[x] < m[x] + 1
    OBVIOUS
  <2>2. m[x] + 1 \in A
    BY <1>7, <2>1
  <2> QED BY <2>1, <2>2
<1> DEFINE h == [x \in D |-> fs[m[x] + 1][x]]
<1> HIDE DEF fs, A, S
<1>9. h \in [D -> V]
  BY <1>4
<1>10. ASSUME NEW x \in D PROVE h[x] = IF x \in Final THEN stop[x] ELSE step[x][h[next[x]]]
  <2>0. m[x] \in Nat /\ m[x] + 1 \in Nat /\ m[x] < m[x] + 1
    OBVIOUS
  <2>1. h[x] = IF x \in Final THEN stop[x] ELSE step[x][fs[m[x] + 1][next[x]]]
    BY <1>4, <2>0
  <2>2. CASE x \in Final
    BY <2>1, <2>2
  <2>3. CASE x \notin Final
    <3>1. next[x] \in D /\ m[next[x]] < m[x] /\ m[next[x]] \in Nat /\ m[next[x]] + 1 \in Nat
      BY <2>3
    <3>2. fs[m[x] + 1][next[x]] = fs[m[next[x]] + 1][next[x]]
      BY <3>1, <2>0, <1>8
    <3> QED BY <2>1, <2>3, <3>1, <3>2
  <2> QED BY <2>2, <2>3
<1> QED BY <1>9, <1>10 DEF SolvesRecursion

\* T holds where a recursion ends and where its call holds.
PassedBack(D, T, Final, next, m) ==
  /\ next \in [D -> D] /\ m \in [D -> Nat]
  /\ \A x \in D \ Final : m[next[x]] < m[x]
  /\ \A x \in D : x \in Final \/ next[x] \in T => x \in T

\* What is passed back by every call holds everywhere.
LEMMA RecursionInduction ==
  ASSUME NEW D, NEW T, NEW Final, NEW next, NEW m, PassedBack(D, T, Final, next, m)
  PROVE  D \subseteq T
<1> USE DEF PassedBack
<1> DEFINE S == {n \in Nat : \A x \in D : m[x] < n => x \in T}
<1>1. 0 \in S
  OBVIOUS
<1>2. ASSUME NEW n \in Nat, n \in S PROVE n + 1 \in S
  <2> SUFFICES ASSUME NEW x \in D, m[x] < n + 1, x \notin Final PROVE x \in T
    OBVIOUS
  <2>1. next[x] \in D /\ m[next[x]] < n
    OBVIOUS
  <2> QED BY <1>2, <2>1
<1>3. Nat \subseteq S
  <2> HIDE DEF S
  <2> QED BY <1>1, <1>2, NaturalsInduct
<1>4. ASSUME NEW x \in D PROVE x \in T
  <2>1. m[x] \in Nat /\ m[x] + 1 \in Nat /\ m[x] < m[x] + 1
    OBVIOUS
  <2> QED BY <1>3, <2>1
<1> QED BY <1>4

-----------------------------------------------------------------------------
(* Single precision                                                          *)

\* q + r / b, and floats
Number == Nat \X Nat \X (Nat \ {0})
Float == Nat \X (Nat \ {0})

\* f is a / b but for half of its unit, and for the 2^24th part.
Near(a, b, f) ==
  /\ 2 * (f[1] * b) <= 2 * (a * f[2]) + b
  /\ 2 * (a * f[2]) <= 2 * (f[1] * b) + b
  /\ 16777216 * (f[1] * b) <= 16777217 * (a * f[2])
  /\ 16777215 * (a * f[2]) <= 16777216 * (f[1] * b)

\* Doubling a number
LEMMA DoubledTwice ==
  ASSUME NEW s \in Number
  PROVE  /\ Doubled(s) \in Number /\ Doubled(s)[3] = s[3]
         /\ Doubled(s)[1] * s[3] + Doubled(s)[2] = 2 * (s[1] * s[3] + s[2])
         /\ s[2] < s[3] => Doubled(s)[2] < s[3]
         /\ Doubled(s)[1] >= 2 * s[1]
         /\ Doubled(s)[1] = 0 => Doubled(s)[2] = 2 * s[2] /\ 2 * s[2] < s[3]
<1>1. s[1] \in Nat /\ s[2] \in Nat /\ s[3] \in Nat /\ s[3] > 0
  BY DEF Number
<1>2. CASE 2 * s[2] >= s[3]
  <2>1. Doubled(s) = <<2 * s[1] + 1, 2 * s[2] - s[3], s[3]>>
    BY <1>2 DEF Doubled
  <2>2. 2 * s[1] + 1 \in Nat /\ 2 * s[2] - s[3] \in Nat
    BY <1>1, <1>2
  <2>3. (2 * s[1] + 1) * s[3] = 2 * (s[1] * s[3]) + s[3]
    BY <1>1
  <2>4. s[1] * s[3] \in Nat
    BY <1>1
  <2> QED BY <1>1, <2>1, <2>2, <2>3, <2>4 DEF Number
<1>3. CASE ~(2 * s[2] >= s[3])
  <2>1. Doubled(s) = <<2 * s[1], 2 * s[2], s[3]>>
    BY <1>3 DEF Doubled
  <2>2. 2 * s[1] \in Nat /\ 2 * s[2] \in Nat /\ 2 * s[2] < s[3]
    BY <1>1, <1>3
  <2>3. (2 * s[1]) * s[3] = 2 * (s[1] * s[3])
    BY <1>1
  <2>4. s[1] * s[3] \in Nat
    BY <1>1
  <2> QED BY <1>1, <2>1, <2>2, <2>3, <2>4 DEF Number
<1> QED BY <1>2, <1>3

\* What an integer of 24 bits, or one without a rest, is rounded to
LEMMA RoundedClose ==
  ASSUME NEW s \in Number, s[2] < s[3], s[2] = 0 \/ s[1] >= SIGNIFICAND
  PROVE  Near(s[1] * s[3] + s[2], s[3], <<Rounded(s), 1>>)
<1> DEFINE q == s[1]
           r == s[2]
           b == s[3]
           c == q * b
           m == Rounded(s)
<1>1. q \in Nat /\ r \in Nat /\ b \in Nat /\ r < b
  BY DEF Number
<1>2. c \in Nat
  BY <1>1
<1>3. (c + r) * 1 = c + r
  BY <1>1, <1>2
<1>4. CASE m = q /\ 2 * r <= b
  <2>1. r = 0 \/ 8388608 * b <= c
    BY <1>1 DEF SIGNIFICAND
  <2>2. m * b = c
    BY <1>4
  <2> HIDE DEF q, r, b, c, m
  <2> DEFINE x == m * b
             y == (c + r) * 1
  <2>3. x = c /\ y = c + r
    BY <1>3, <2>2
  <2> HIDE DEF x, y
  <2>4. /\ 2 * x <= 2 * y + b /\ 2 * y <= 2 * x + b
        /\ 16777216 * x <= 16777217 * y /\ 16777215 * y <= 16777216 * x
    BY <1>1, <1>2, <1>4, <2>1, <2>3
  <2> QED BY <2>4 DEF Near, x, y, q, r, b, c, m
<1>5. CASE m = q + 1 /\ 2 * r >= b /\ r # 0
  <2>1. 8388608 * b <= c
    BY <1>1, <1>5 DEF SIGNIFICAND
  <2>2. m * b = c + b
    BY <1>1, <1>5
  <2> HIDE DEF q, r, b, c, m
  <2> DEFINE x == m * b
             y == (c + r) * 1
  <2>3. x = c + b /\ y = c + r
    BY <1>3, <2>2
  <2> HIDE DEF x, y
  <2>4. /\ 2 * x <= 2 * y + b /\ 2 * y <= 2 * x + b
        /\ 16777216 * x <= 16777217 * y /\ 16777215 * y <= 16777216 * x
    BY <1>1, <1>2, <1>5, <2>1, <2>3
  <2> QED BY <2>4 DEF Near, x, y, q, r, b, c, m
<1>6. \/ m = q /\ 2 * r <= b
      \/ m = q + 1 /\ 2 * r >= b /\ r # 0
  BY <1>1 DEF Rounded
<1> QED BY <1>4, <1>5, <1>6

\* What is close to twice a number is close to it when it is halved.
LEMMA HalfClose ==
  ASSUME NEW a \in Nat, NEW b \in Nat, NEW f \in Float, Near(2 * a, b, f)
  PROVE  Half(f) \in Float /\ Near(a, b, Half(f))
<1>1. f[1] \in Nat /\ f[2] \in Nat /\ f[2] > 0
  BY DEF Float
<1>2. 2 * f[2] \in Nat \ {0} /\ (2 * a) * f[2] = a * (2 * f[2])
  BY <1>1
<1>3. Half(f) = <<f[1], 2 * f[2]>>
  BY DEF Half
<1>4. Half(f)[1] = f[1] /\ a * Half(f)[2] = (2 * a) * f[2]
  BY <1>2, <1>3
<1> QED BY <1>1, <1>2, <1>3, <1>4 DEF Near, Float

\* The recursive function of Nearest
NearestEq(f) ==
  f = [s \in Nat \X Nat \X (Nat \ {0}) |->
         IF s[2] = 0 \/ s[1] >= SIGNIFICAND THEN <<Rounded(s), 1>> ELSE Half(f[Doubled(s)])]

\* It ends: doubling adds to the quotient, and to the rest as long as there is none.
LEMMA NearestClose ==
  ASSUME NEW s \in Number, s[2] < s[3]
  PROVE  Nearest[s] \in Float /\ Near(s[1] * s[3] + s[2], s[3], Nearest[s])
<1> DEFINE
      D == Number
      V == Float
      Final == {x \in D : x[2] = 0 \/ x[1] >= SIGNIFICAND}
      stop == [x \in D |-> <<Rounded(x), 1>>]
      next == [x \in D |-> Doubled(x)]
      step == [x \in D |-> [v \in V |-> Half(v)]]
      Left(x) == IF x[1] >= SIGNIFICAND THEN 0
                 ELSE IF x[1] > 0 \/ x[2] >= x[3] THEN SIGNIFICAND - x[1]
                 ELSE SIGNIFICAND + (x[3] - x[2])
      m == [x \in D |-> Left(x)]
      f == CHOOSE g : NearestEq(g)
<1>1. Nearest = f
  BY Zenon DEF Nearest, NearestEq
<1>2. ASSUME NEW x \in D
      PROVE  stop[x] \in V /\ next[x] \in D /\ m[x] \in Nat /\ (x \notin Final => m[next[x]] < m[x])
  <2>1. x[1] \in Nat /\ x[2] \in Nat /\ x[3] \in Nat /\ x[3] > 0
    BY DEF Number
  <2>2. Rounded(x) \in Nat
    BY <2>1 DEF Rounded
  <2>3. /\ Doubled(x) \in Number /\ Doubled(x)[3] = x[3]
        /\ Doubled(x)[1] >= 2 * x[1]
        /\ Doubled(x)[1] = 0 => Doubled(x)[2] = 2 * x[2] /\ 2 * x[2] < x[3]
    BY DoubledTwice
  <2> DEFINE y == Doubled(x)
  <2>4. y[1] \in Nat /\ y[2] \in Nat
    BY <2>3 DEF Number
  <2>5. Left(x) \in Nat
    BY <2>1 DEF SIGNIFICAND
  <2>6. ASSUME ~(x[2] = 0 \/ x[1] >= SIGNIFICAND) PROVE Left(y) < Left(x)
    <3> HIDE DEF y
    <3>1. /\ y[3] = x[3] /\ y[1] >= 2 * x[1]
          /\ y[1] = 0 => y[2] = 2 * x[2] /\ 2 * x[2] < x[3]
      BY <2>3 DEF y
    <3> QED BY <2>1, <2>4, <2>6, <3>1 DEF SIGNIFICAND
  <2> HIDE DEF Left, y
  <2> QED BY <2>2, <2>3, <2>5, <2>6 DEF Float, y
<1>3. step \in [D -> [V -> V]] /\ Final \subseteq D
  <2>1. \A v \in V : Half(v) \in V
    BY DEF Float, Half
  <2> QED BY <2>1
<1>4. Recursion(D, V, Final, stop, next, step, m)
  <2>1. stop \in [D -> V] /\ next \in [D -> D] /\ m \in [D -> Nat]
    BY <1>2
  <2> HIDE DEF D, Final, stop, next, step, m, V
  <2> QED BY <1>2, <1>3, <2>1 DEF Recursion
<1>5. PICK g \in [D -> V] : SolvesRecursion(g, D, Final, stop, next, step)
  <2> HIDE DEF D, V, Final, stop, next, step, m
  <2> QED BY <1>4, RecursionExists
<1>6. ASSUME NEW x \in D
      PROVE  g[x] = IF x[2] = 0 \/ x[1] >= SIGNIFICAND THEN <<Rounded(x), 1>>
                    ELSE Half(g[Doubled(x)])
  <2>1. g[x] = IF x \in Final THEN stop[x] ELSE step[x][g[next[x]]]
    BY <1>5 DEF SolvesRecursion
  <2>2. g[next[x]] \in V
    BY <1>2
  <2> HIDE DEF D, V, m
  <2> QED BY <2>1, <2>2
<1>7. NearestEq(f)
  <2>1. g = [x \in D |-> g[x]]
    OBVIOUS
  <2>2. NearestEq(g)
    BY <1>6, <2>1 DEF NearestEq, Number
  <2> QED BY <2>2
<1> HIDE DEF f, m
<1>8. ASSUME NEW x \in D
      PROVE  f[x] = IF x[2] = 0 \/ x[1] >= SIGNIFICAND THEN <<Rounded(x), 1>>
                    ELSE Half(f[Doubled(x)])
  BY <1>7 DEF NearestEq, Number
<1> DEFINE Fine(x) == x[2] < x[3] => f[x] \in Float /\ Near(x[1] * x[3] + x[2], x[3], f[x])
           T == {x \in D : Fine(x)}
<1>9. ASSUME NEW x \in D, x \in Final \/ next[x] \in T PROVE x \in T
  <2> SUFFICES ASSUME x[2] < x[3]
               PROVE  f[x] \in Float /\ Near(x[1] * x[3] + x[2], x[3], f[x])
    OBVIOUS
  <2>0. x[1] \in Nat /\ x[2] \in Nat /\ x[3] \in Nat /\ x[1] * x[3] \in Nat
    BY DEF Number
  <2>1. CASE x[2] = 0 \/ x[1] >= SIGNIFICAND
    <3>1. f[x] = <<Rounded(x), 1>>
      BY <1>8, <2>1
    <3>2. Rounded(x) \in Nat
      BY <2>0 DEF Rounded
    <3> QED BY <2>1, <3>1, <3>2, RoundedClose DEF Float
  <2>2. CASE ~(x[2] = 0 \/ x[1] >= SIGNIFICAND)
    <3> DEFINE y == Doubled(x)
    <3>1. /\ y \in D /\ y[3] = x[3] /\ y[2] < x[3]
          /\ y[1] * x[3] + y[2] = 2 * (x[1] * x[3] + x[2])
      BY DoubledTwice
    <3>2. y \in T
      BY <1>9, <2>2
    <3>3. f[x] = Half(f[y])
      BY <1>8, <2>2
    <3> HIDE DEF y, f
    <3>4. f[y] \in Float /\ Near(2 * (x[1] * x[3] + x[2]), x[3], f[y])
      BY <3>1, <3>2
    <3>5. x[1] * x[3] + x[2] \in Nat
      BY <2>0
    <3> QED BY <2>0, <3>3, <3>4, <3>5, HalfClose
  <2> QED BY <2>1, <2>2
<1>10. PassedBack(D, T, Final, next, m)
  <2> HIDE DEF T, D, Final, next
  <2> QED BY <1>4, <1>9 DEF PassedBack, Recursion
<1>11. D \subseteq T
  <2> HIDE DEF T, D, Final, next
  <2> QED BY <1>10, RecursionInduction
<1>12. Fine(s)
  BY <1>11
<1> QED BY <1>1, <1>12

\* The float nearest to a / b is as near as half of its last bit.
LEMMA SingleClose ==
  ASSUME NEW a \in Nat, NEW b \in Nat \ {0}
  PROVE  Single(a, b) \in Float /\ Near(a, b, Single(a, b))
<1> DEFINE q == a \div b
           r == a % b
           s == <<q, r, b>>
<1>1. q \in Nat /\ r \in Nat /\ r < b /\ q * b + r = a
  OBVIOUS
<1> HIDE DEF q, r
<1>2. s \in Number /\ s[1] = q /\ s[2] = r /\ s[3] = b
  BY <1>1 DEF Number
<1>3. Single(a, b) = Nearest[s]
  BY DEF Single, q, r
<1> HIDE DEF s
<1> QED BY <1>1, <1>2, <1>3, NearestClose

-----------------------------------------------------------------------------
(* Pixels *)

\* Multiplication by a natural number keeps an order, and division restores it.
LEMMA TimesMonotone ==
  ASSUME NEW u \in Int, NEW v \in Int, u <= v, NEW w \in Nat
  PROVE  u * w <= v * w
<1>1. v - u \in Nat
  OBVIOUS
<1>2. (v - u) * w \in Nat
  BY <1>1
<1>3. (v - u) * w = v * w - u * w
  OBVIOUS
<1>4. u * w \in Int /\ v * w \in Int
  OBVIOUS
<1> QED BY <1>2, <1>3, <1>4

LEMMA TimesCancels ==
  ASSUME NEW u \in Int, NEW v \in Int, NEW w \in Nat \ {0}, u * w <= v * w
  PROVE  u <= v
<1> SUFFICES ASSUME v + 1 <= u PROVE FALSE
  OBVIOUS
<1>1. (v + 1) * w <= u * w
  BY TimesMonotone
<1>2. (v + 1) * w = v * w + w
  OBVIOUS
<1>3. u * w \in Int /\ v * w \in Int
  OBVIOUS
<1> QED BY <1>1, <1>2, <1>3

\* A float that is not negative becomes the integer below it.
LEMMA TruncatedBelow ==
  ASSUME NEW f \in Float
  PROVE  /\ Truncated(f) \in Nat
         /\ Truncated(f) * f[2] <= f[1] /\ f[1] + 1 <= (Truncated(f) + 1) * f[2]
<1>1. f[1] \in Nat /\ f[2] \in Nat \ {0}
  BY DEF Float
<1> DEFINE q == f[1] \div f[2]
           r == f[1] % f[2]
<1>2. q \in Nat /\ r \in Nat /\ r < f[2] /\ q * f[2] + r = f[1]
  BY <1>1
<1>3. Truncated(f) = q
  BY DEF Truncated
<1> HIDE DEF q, r
<1>4. (q + 1) * f[2] = q * f[2] + f[2] /\ q * f[2] \in Nat
  BY <1>1, <1>2
<1> QED BY <1>1, <1>2, <1>3, <1>4

\* The product of a float and a natural number is a float.
LEMMA TimesTyped ==
  ASSUME NEW f \in Float, NEW n \in Nat
  PROVE  Times(f, n) \in Float /\ Near(f[1] * n, f[2], Times(f, n))
<1>1. f[1] \in Nat /\ f[2] \in Nat \ {0}
  BY DEF Float
<1>2. f[1] * n \in Nat
  BY <1>1
<1> QED BY <1>1, <1>2, SingleClose DEF Times

\* Its sum with an integer becomes an integer.
LEMMA PlusTyped ==
  ASSUME NEW f \in Float, NEW n \in Int
  PROVE  PlusTruncated(f, n) \in Int
<1> DEFINE t == f[1] + n * f[2]
<1>1. f[1] \in Nat /\ f[2] \in Nat \ {0} /\ t \in Int
  BY DEF Float
<1>2. PlusTruncated(f, n) = IF t >= 0 THEN Truncated(Single(t, f[2])) ELSE -Truncated(Single(-t, f[2]))
  BY DEF PlusTruncated
<1> HIDE DEF t
<1>3. CASE t >= 0
  <2>1. t \in Nat
    BY <1>1, <1>3
  <2>2. Truncated(Single(t, f[2])) \in Nat
    BY <1>1, <2>1, SingleClose, TruncatedBelow
  <2> QED BY <1>2, <1>3, <2>2
<1>4. CASE ~(t >= 0)
  <2>1. -t \in Nat
    BY <1>1, <1>4
  <2>2. Truncated(Single(-t, f[2])) \in Nat
    BY <1>1, <2>1, SingleClose, TruncatedBelow
  <2> QED BY <1>2, <1>4, <2>2
<1> QED BY <1>3, <1>4

\* Ten thousandths of a length become a float.
LEMMA ScaledTyped ==
  ASSUME NEW n \in Nat, NEW len \in Nat PROVE Scaled(n, len) \in Float
<1>1. SCALE \in Nat \ {0}
  BY DEF SCALE
<1> QED BY <1>1, SingleClose, TimesTyped DEF Scaled

\* Positions and lengths that the lemmas below are about
Coordinate == {n \in Nat : n <= 10002}
Length == {n \in Nat : 1 <= n /\ n <= 4096}
Origin == {i \in Int : -32768 <= i /\ i <= 32768}

\* They are off by 12 / SCALE pixels at most, after two roundings.
LEMMA ScaledClose ==
  ASSUME NEW n \in Coordinate, NEW len \in Length
  PROVE  LET s == Scaled(n, len)
         IN  /\ s \in Float
             /\ s[1] * SCALE <= (n * len + 12) * s[2]
             /\ (n * len - 12) * s[2] <= s[1] * SCALE
<1> DEFINE p == Single(n, SCALE)
           s == Scaled(n, len)
           m == p[1]
           u == p[2]
           k == s[1]
           v == s[2]
           N == n * len
           W == u * v
<1>1. n \in Nat /\ len \in Nat /\ SCALE \in Nat \ {0}
  BY DEF Coordinate, Length, SCALE
<1>2. p \in Float /\ Near(n, SCALE, p)
  BY <1>1, SingleClose
<1>3. s \in Float /\ Near(m * len, u, s)
  BY <1>1, <1>2, TimesTyped DEF Scaled
<1>4. m \in Nat /\ u \in Nat \ {0} /\ k \in Nat /\ v \in Nat \ {0}
  BY <1>2, <1>3 DEF Float
<1>5. /\ 16777216 * (m * SCALE) <= 16777217 * (n * u)
      /\ 16777215 * (n * u) <= 16777216 * (m * SCALE)
  BY <1>2 DEF Near
<1>6. /\ 16777216 * (k * u) <= 16777217 * ((m * len) * v)
      /\ 16777215 * ((m * len) * v) <= 16777216 * (k * u)
  BY <1>3 DEF Near
<1> HIDE DEF p, s, m, u, k, v
<1>7. N \in Nat /\ N <= 40968192
  <2>1. n <= 10002 /\ len <= 4096
    BY DEF Coordinate, Length
  <2>2. n * len <= 10002 * len
    BY <1>1, <2>1, TimesMonotone
  <2> QED BY <1>1, <2>1, <2>2
<1>8. W \in Nat
  BY <1>4
<1> DEFINE P == (k * u) * SCALE
           Q == (m * SCALE) * (len * v)
           R == N * W
<1>9. P \in Nat /\ Q \in Nat /\ R \in Nat
  BY <1>1, <1>4, <1>7, <1>8
<1>10. 16777216 * P <= 16777217 * Q /\ 16777215 * Q <= 16777216 * P
  <2>1. k * u \in Nat /\ (m * len) * v \in Nat
    BY <1>1, <1>4
  <2>2. (((m * len) * v) * SCALE) = Q
    BY <1>1, <1>4 DEF SCALE
  <2> DEFINE y == (m * len) * v
             x == k * u
  <2> HIDE DEF x, y, Q
  <2>3. x \in Nat /\ y \in Nat /\ P = x * SCALE /\ Q = y * SCALE
    BY <2>1, <2>2 DEF x, y
  <2>4. 16777216 * x <= 16777217 * y /\ 16777215 * y <= 16777216 * x
    BY <1>6 DEF x, y
  <2> HIDE DEF P
  <2> QED BY <2>3, <2>4 DEF SCALE
<1>11. 16777216 * Q <= 16777217 * R /\ 16777215 * R <= 16777216 * Q
  <2>1. m * SCALE \in Nat /\ n * u \in Nat /\ len * v \in Nat
    BY <1>1, <1>4
  <2>2. (n * u) * (len * v) = R
    BY <1>1, <1>4
  <2> DEFINE x == m * SCALE
             y == n * u
             z == len * v
  <2> HIDE DEF x, y, z, R
  <2>3. x \in Nat /\ y \in Nat /\ z \in Nat /\ Q = x * z /\ R = y * z
    BY <2>1, <2>2 DEF x, y, z
  <2>4. 16777216 * x <= 16777217 * y /\ 16777215 * y <= 16777216 * x
    BY <1>5 DEF x, y
  <2>5. (16777216 * x) * z <= (16777217 * y) * z /\ (16777215 * y) * z <= (16777216 * x) * z
    BY <2>3, <2>4, TimesMonotone
  <2>6. /\ (16777216 * x) * z = 16777216 * (x * z) /\ (16777217 * y) * z = 16777217 * (y * z)
        /\ (16777215 * y) * z = 16777215 * (y * z)
    BY <2>3
  <2> HIDE DEF Q
  <2> QED BY <2>3, <2>5, <2>6
<1>12. R <= 40968192 * W
  BY <1>7, <1>8, TimesMonotone
<1>13. P = (k * SCALE) * u /\ R + 12 * W = ((N + 12) * v) * u /\ R - 12 * W = ((N - 12) * v) * u
  BY <1>1, <1>4, <1>7 DEF SCALE
<1> HIDE DEF P, Q, R, W, N
<1>14. P <= R + 12 * W /\ R - 12 * W <= P
  BY <1>8, <1>9, <1>10, <1>11, <1>12
<1>15. k * SCALE \in Int /\ (N + 12) * v \in Int /\ (N - 12) * v \in Int
  BY <1>1, <1>4, <1>7
<1>16. k * SCALE <= (N + 12) * v /\ (N - 12) * v <= k * SCALE
  BY <1>4, <1>13, <1>14, <1>15, TimesCancels
<1> QED BY <1>3, <1>16 DEF s, k, v, N

\* A length in pixels does not exceed the exact one by more.
LEMMA LengthBelow ==
  ASSUME NEW n \in Coordinate, NEW len \in Length
  PROVE  /\ Truncated(Scaled(n, len)) \in Nat
         /\ Truncated(Scaled(n, len)) * SCALE <= n * len + 12
<1> DEFINE s == Scaled(n, len)
           w == Truncated(s)
           N == n * len
<1>1. s \in Float /\ s[1] * SCALE <= (N + 12) * s[2]
  BY ScaledClose
<1>2. w \in Nat /\ w * s[2] <= s[1]
  BY <1>1, TruncatedBelow
<1>3. s[1] \in Nat /\ s[2] \in Nat \ {0} /\ N \in Nat /\ SCALE \in Nat
  BY <1>1 DEF Float, Coordinate, Length, SCALE
<1> HIDE DEF s, w, N
<1>4. (w * s[2]) * SCALE <= s[1] * SCALE
  BY <1>2, <1>3, TimesMonotone
<1>5. (w * s[2]) * SCALE = (w * SCALE) * s[2] /\ w * SCALE \in Int /\ N + 12 \in Int
  BY <1>2, <1>3 DEF SCALE
<1>6. (w * SCALE) * s[2] <= (N + 12) * s[2]
  <2>1. (w * SCALE) * s[2] \in Int /\ s[1] * SCALE \in Int /\ (N + 12) * s[2] \in Int
    BY <1>3, <1>5
  <2> QED BY <1>1, <1>4, <1>5, <2>1
<1>7. w * SCALE <= N + 12
  BY <1>3, <1>5, <1>6, TimesCancels
<1> QED BY <1>2, <1>7 DEF w, s, N

\* A number t / v that is off by 12 / SCALE at most, in pixels, is off by 36 / SCALE
\* when it is rounded once more, before it is truncated.
LEMMA TruncatedClose ==
  ASSUME NEW t \in Nat, NEW v \in Nat \ {0}, NEW X \in Int, X <= 385000000,
         t * SCALE <= (X + 12) * v, (X - 12) * v <= t * SCALE
  PROVE  LET q == Truncated(Single(t, v))
         IN  q \in Nat /\ q * SCALE <= X + 36 /\ X - 36 <= (q + 1) * SCALE
<1> DEFINE f == Single(t, v)
           j == f[1]
           c == f[2]
           q == Truncated(f)
           W == v * c
<1>1. f \in Float /\ Near(t, v, f)
  BY SingleClose
<1>2. j \in Nat /\ c \in Nat \ {0}
  BY <1>1 DEF Float
<1>3. q \in Nat /\ q * c <= j /\ j + 1 <= (q + 1) * c
  BY <1>1, TruncatedBelow
<1>4. 16777216 * (j * v) <= 16777217 * (t * c) /\ 16777215 * (t * c) <= 16777216 * (j * v)
  BY <1>1 DEF Near
<1> HIDE DEF f, j, c, q
<1> DEFINE P == (j * v) * SCALE
           Q == (t * c) * SCALE
<1>5. W \in Nat /\ P \in Nat /\ Q \in Nat /\ SCALE \in Nat
  BY <1>2 DEF SCALE
<1>6. 16777216 * P <= 16777217 * Q /\ 16777215 * Q <= 16777216 * P
  <2> DEFINE x == j * v
             y == t * c
  <2>1. x \in Nat /\ y \in Nat
    BY <1>2
  <2> HIDE DEF x, y
  <2> QED BY <1>4, <2>1 DEF x, y, SCALE
<1>7. Q <= (X + 12) * W /\ (X - 12) * W <= Q
  <2>1. t * SCALE \in Int /\ (X + 12) * v \in Int /\ (X - 12) * v \in Int /\ c \in Nat
    BY <1>2, <1>5
  <2>2. (t * SCALE) * c <= ((X + 12) * v) * c /\ ((X - 12) * v) * c <= (t * SCALE) * c
    BY <2>1, TimesMonotone
  <2>3. /\ (t * SCALE) * c = Q /\ ((X + 12) * v) * c = (X + 12) * W
        /\ ((X - 12) * v) * c = (X - 12) * W
    BY <1>2, <1>5 DEF SCALE
  <2> QED BY <2>2, <2>3
<1>8. X * W \in Int /\ X * W <= 385000000 * W
  BY <1>5, TimesMonotone
<1>9. /\ (X + 12) * W = X * W + 12 * W /\ (X - 12) * W = X * W - 12 * W
      /\ (X + 36) * W = X * W + 36 * W /\ (X - 36) * W = X * W - 36 * W
  BY <1>5
<1> HIDE DEF P, Q
<1>10. P <= (X + 36) * W /\ (X - 36) * W <= P
  <2> DEFINE Y == X * W
  <2> HIDE DEF Y, W
  <2>1. /\ Y \in Int /\ Y <= 385000000 * W /\ Q <= Y + 12 * W /\ Y - 12 * W <= Q
    BY <1>7, <1>8, <1>9 DEF Y
  <2>2. P <= Y + 36 * W /\ Y - 36 * W <= P
    BY <1>5, <1>6, <2>1
  <2> QED BY <1>9, <2>2 DEF Y
<1>11. /\ P = (j * SCALE) * v /\ (X + 36) * W = ((X + 36) * c) * v
       /\ (X - 36) * W = ((X - 36) * c) * v
       /\ j * SCALE \in Int /\ (X + 36) * c \in Int /\ (X - 36) * c \in Int
  BY <1>2, <1>5 DEF P, SCALE
<1>12. j * SCALE <= (X + 36) * c /\ (X - 36) * c <= j * SCALE
  BY <1>10, <1>11, TimesCancels
<1>13. (q * c) * SCALE <= j * SCALE /\ j * SCALE <= ((q + 1) * c) * SCALE
  <2>1. q * c \in Int /\ (q + 1) * c \in Int /\ j <= (q + 1) * c
    BY <1>2, <1>3
  <2> QED BY <1>2, <1>3, <1>5, <2>1, TimesMonotone
<1>14. /\ (q * c) * SCALE = (q * SCALE) * c /\ ((q + 1) * c) * SCALE = ((q + 1) * SCALE) * c
       /\ q * SCALE \in Int /\ (q + 1) * SCALE \in Int /\ X + 36 \in Int /\ X - 36 \in Int
  BY <1>2, <1>3, <1>5 DEF SCALE
<1>15. (q * SCALE) * c <= (X + 36) * c /\ (X - 36) * c <= ((q + 1) * SCALE) * c
  <2>1. (q * SCALE) * c \in Int /\ ((q + 1) * SCALE) * c \in Int
    BY <1>2, <1>14
  <2> QED BY <1>11, <1>12, <1>13, <1>14, <2>1
<1>16. q * SCALE <= X + 36 /\ X - 36 <= (q + 1) * SCALE
  BY <1>2, <1>14, <1>15, TimesCancels
<1> QED BY <1>3, <1>16 DEF q, f

\* Rounding does not cross an integer.
LEMMA IntegersStay ==
  ASSUME NEW t \in Nat, NEW v \in Nat \ {0}, NEW i \in Nat
  PROVE  LET q == Truncated(Single(t, v))
         IN  (i * v <= t => i <= q) /\ (t <= i * v => q <= i)
<1> DEFINE f == Single(t, v)
           j == f[1]
           c == f[2]
           q == Truncated(f)
<1>1. f \in Float /\ Near(t, v, f)
  BY SingleClose
<1>2. j \in Nat /\ c \in Nat \ {0}
  BY <1>1 DEF Float
<1>3. q \in Nat /\ q * c <= j /\ j + 1 <= (q + 1) * c
  BY <1>1, TruncatedBelow
<1>4. 2 * (j * v) <= 2 * (t * c) + v /\ 2 * (t * c) <= 2 * (j * v) + v
  BY <1>1 DEF Near
<1> HIDE DEF f, j, c, q
<1>5. i * v \in Int /\ t * c \in Int /\ j * v \in Int /\ i * c \in Int /\ q * c \in Int
      /\ (i * v) * c = (i * c) * v
  BY <1>2, <1>3
<1>6. ASSUME i * v <= t PROVE i <= q
  <2>1. (i * v) * c <= t * c
    BY <1>2, <1>5, <1>6, TimesMonotone
  <2>2. (2 * (i * c)) * v <= (2 * j + 1) * v
    <3>1. (2 * (i * c)) * v = 2 * ((i * c) * v) /\ (2 * j + 1) * v = 2 * (j * v) + v
      BY <1>2, <1>5
    <3>2. (i * c) * v \in Int
      BY <1>5
    <3> QED BY <1>4, <1>5, <2>1, <3>1, <3>2
  <2>3. 2 * (i * c) <= 2 * j + 1
    BY <1>2, <1>5, <2>2, TimesCancels
  <2>4. i * c <= (q + 1) * c - 1
    BY <1>2, <1>3, <1>5, <2>3
  <2>5. ~(q + 1 <= i)
    <3> SUFFICES ASSUME q + 1 <= i PROVE FALSE
      OBVIOUS
    <3>1. (q + 1) * c <= i * c
      BY <1>2, <1>3, TimesMonotone
    <3>2. (q + 1) * c \in Int
      BY <1>2, <1>3
    <3> QED BY <1>5, <2>4, <3>1, <3>2
  <2> QED BY <1>3, <2>5
<1>7. ASSUME t <= i * v PROVE q <= i
  <2>1. t * c <= (i * v) * c
    BY <1>2, <1>5, <1>7, TimesMonotone
  <2>2. (2 * j) * v <= (2 * (i * c) + 1) * v
    <3>1. (2 * (i * c) + 1) * v = 2 * ((i * c) * v) + v /\ (2 * j) * v = 2 * (j * v)
      BY <1>2, <1>5
    <3>2. (i * c) * v \in Int
      BY <1>5
    <3> QED BY <1>4, <1>5, <2>1, <3>1, <3>2
  <2>3. 2 * j <= 2 * (i * c) + 1
    BY <1>2, <1>5, <2>2, TimesCancels
  <2>4. q * c <= i * c
    BY <1>2, <1>3, <1>5, <2>3
  <2> QED BY <1>2, <1>3, <2>4, TimesCancels
<1> QED BY <1>6, <1>7 DEF q, f

\* A position in pixels is off by less than a pixel, and one more where truncation
\* rounds up; what starts in the layout starts in the area.
LEMMA PositionClose ==
  ASSUME NEW n \in Coordinate, NEW len \in Length, NEW from \in Origin
  PROVE  LET p == PlusTruncated(Scaled(n, len), from)
             X == n * len + from * SCALE
         IN  /\ p \in Int /\ from <= p
             /\ p * SCALE <= X + 36 + Up(from) * SCALE
             /\ X - 36 <= (p + 1) * SCALE
<1> DEFINE s == Scaled(n, len)
           k == s[1]
           v == s[2]
           N == n * len
           X == N + from * SCALE
           t == k + from * v
           p == PlusTruncated(s, from)
<1>1. s \in Float /\ k * SCALE <= (N + 12) * v /\ (N - 12) * v <= k * SCALE
  BY ScaledClose
<1>2. k \in Nat /\ v \in Nat \ {0} /\ from \in Int /\ SCALE \in Nat /\ -32768 <= from /\ from <= 32768
  <2>1. k \in Nat /\ v \in Nat \ {0}
    BY <1>1 DEF Float
  <2>2. from \in Int /\ -32768 <= from /\ from <= 32768
    BY DEF Origin
  <2> QED BY <2>1, <2>2 DEF SCALE
<1>3. N \in Nat /\ N <= 40968192
  <2>1. n \in Nat /\ len \in Nat /\ n <= 10002 /\ len <= 4096
    BY DEF Coordinate, Length
  <2>2. n * len <= 10002 * len
    BY <2>1, TimesMonotone
  <2> QED BY <2>1, <2>2
<1>4. p = IF t >= 0 THEN Truncated(Single(t, v)) ELSE -Truncated(Single(-t, v))
  BY DEF PlusTruncated
<1> HIDE DEF s, k, v, N, p
<1>5. t \in Int /\ X \in Int /\ X <= 385000000 /\ -X <= 385000000
  BY <1>2, <1>3 DEF SCALE
<1>6. /\ t * SCALE = k * SCALE + (from * SCALE) * v
      /\ (X + 12) * v = (N + 12) * v + (from * SCALE) * v
      /\ (X - 12) * v = (N - 12) * v + (from * SCALE) * v
      /\ k * SCALE \in Int /\ (from * SCALE) * v \in Int /\ (N + 12) * v \in Int /\ (N - 12) * v \in Int
  BY <1>2, <1>3 DEF SCALE
<1>7. t * SCALE <= (X + 12) * v /\ (X - 12) * v <= t * SCALE
  BY <1>1, <1>6
<1>8. from * v \in Int /\ from * v <= t
  BY <1>2
<1> HIDE DEF t, X
<1>9. CASE t >= 0
  <2> DEFINE q == Truncated(Single(t, v))
  <2>1. q \in Nat /\ q * SCALE <= X + 36 /\ X - 36 <= (q + 1) * SCALE
    BY <1>2, <1>5, <1>7, <1>9, TruncatedClose
  <2>2. from >= 0 => from <= q
    BY <1>2, <1>5, <1>8, <1>9, IntegersStay
  <2>3. p = q
    BY <1>4, <1>9
  <2> HIDE DEF q
  <2>4. 0 <= Up(from) * SCALE /\ Up(from) * SCALE \in Int
    BY DEF Up, SCALE
  <2> QED BY <1>2, <1>5, <2>1, <2>2, <2>3, <2>4 DEF p, s, X, N
<1>10. CASE ~(t >= 0)
  <2> DEFINE q == Truncated(Single(-t, v))
             i == -from
             Y == -X
             r == -t
  <2>1. r \in Nat /\ Y \in Int /\ Y <= 385000000
    BY <1>5, <1>10
  <2>2. r * SCALE <= (Y + 12) * v /\ (Y - 12) * v <= r * SCALE
    <3>1. r * SCALE = -(t * SCALE) /\ (Y + 12) * v = -((X - 12) * v) /\ (Y - 12) * v = -((X + 12) * v)
      BY <1>2, <1>5
    <3>2. t * SCALE \in Int /\ (X - 12) * v \in Int /\ (X + 12) * v \in Int
      BY <1>2, <1>5
    <3> QED BY <1>7, <3>1, <3>2
  <2>3. q \in Nat /\ q * SCALE <= Y + 36 /\ Y - 36 <= (q + 1) * SCALE
    BY <1>2, <2>1, <2>2, TruncatedClose
  <2>4. from < 0
    <3> SUFFICES ASSUME from >= 0 PROVE FALSE
      BY <1>2
    <3>1. from * v >= 0
      BY <1>2
    <3> QED BY <1>5, <1>8, <1>10, <3>1
  <2>5. i \in Nat /\ r <= i * v
    <3>1. i * v = -(from * v)
      BY <1>2
    <3> QED BY <1>2, <1>5, <1>8, <2>4, <3>1
  <2>6. q <= i
    BY <1>2, <2>1, <2>5, IntegersStay
  <2>7. p = -q
    BY <1>4, <1>10
  <2>8. Up(from) * SCALE = SCALE
    BY <2>4 DEF Up, SCALE
  <2> HIDE DEF q
  <2>9. /\ p * SCALE = -(q * SCALE) /\ (p + 1) * SCALE = SCALE - q * SCALE
        /\ (q + 1) * SCALE = q * SCALE + SCALE /\ q * SCALE \in Int
    BY <1>2, <2>3, <2>7 DEF SCALE
  <2> QED BY <1>2, <1>5, <2>3, <2>6, <2>7, <2>8, <2>9 DEF p, s, X, N
<1> QED BY <1>5, <1>9, <1>10

\* What ends in the layout ends in the area, or a pixel beyond where truncation
\* rounds up: a place of which nothing is lost would be SLACK too long.
LEMMA EndsWithin ==
  ASSUME NEW x \in Coordinate, NEW l \in Coordinate, x + l <= 10002,
         NEW len \in Length, NEW from \in Origin
  PROVE  PlusTruncated(Scaled(x, len), from) + Truncated(Scaled(l, len)) <= from + len + Up(from)
<1> DEFINE p == PlusTruncated(Scaled(x, len), from)
           w == Truncated(Scaled(l, len))
           U == Up(from)
<1>1. p \in Int /\ p * SCALE <= x * len + from * SCALE + 36 + U * SCALE
  BY PositionClose
<1>2. w \in Nat /\ w * SCALE <= l * len + 12
  BY LengthBelow
<1>3. U \in {0, 1}
  BY DEF Up
<1> HIDE DEF p, w, U
<1>4. x \in Nat /\ l \in Nat /\ len \in Nat /\ len <= 4096 /\ from \in Int
  BY DEF Coordinate, Length, Origin
<1>5. x * len + l * len <= 10002 * len
  <2>1. (x + l) * len <= 10002 * len
    BY <1>4, TimesMonotone
  <2> QED BY <1>4, <2>1
<1>6. x * len \in Int /\ l * len \in Int
  BY <1>4
<1> DEFINE y == x * len
           z == l * len
<1> HIDE DEF y, z
<1>7. /\ y \in Int /\ z \in Int /\ y + z <= 10002 * len
      /\ p * 10000 <= y + from * 10000 + 36 + U * 10000 /\ w * 10000 <= z + 12
  BY <1>1, <1>2, <1>5, <1>6 DEF y, z, SCALE
<1>8. p + w <= from + len + U
  BY <1>1, <1>2, <1>3, <1>4, <1>7
<1> QED BY <1>8 DEF p, w, U

\* What ends in the layout before something else starts ends a pixel beyond its start
\* at most, or two where truncation rounds up.
LEMMA EndsBefore ==
  ASSUME NEW x \in Coordinate, NEW l \in Coordinate, NEW y \in Coordinate, x + l <= y + 2,
         NEW len \in Length, NEW from \in Origin
  PROVE  PlusTruncated(Scaled(x, len), from) + Truncated(Scaled(l, len))
           <= PlusTruncated(Scaled(y, len), from) + 1 + Up(from)
<1> DEFINE p == PlusTruncated(Scaled(x, len), from)
           q == PlusTruncated(Scaled(y, len), from)
           w == Truncated(Scaled(l, len))
           U == Up(from)
<1>1. p \in Int /\ p * SCALE <= x * len + from * SCALE + 36 + U * SCALE
  BY PositionClose
<1>2. w \in Nat /\ w * SCALE <= l * len + 12
  BY LengthBelow
<1>3. q \in Int /\ (y * len + from * SCALE) - 36 <= (q + 1) * SCALE
  BY PositionClose
<1>4. U \in {0, 1}
  BY DEF Up
<1> HIDE DEF p, q, w, U
<1>5. x \in Nat /\ l \in Nat /\ y \in Nat /\ len \in Nat /\ len <= 4096 /\ from \in Int
  BY DEF Coordinate, Length, Origin
<1>6. x * len + l * len <= y * len + 2 * len
  <2>1. (x + l) * len <= (y + 2) * len
    BY <1>5, TimesMonotone
  <2> QED BY <1>5, <2>1
<1>7. x * len \in Int /\ l * len \in Int /\ y * len \in Int
  BY <1>5
<1> DEFINE a == x * len
           b == l * len
           c == y * len
<1> HIDE DEF a, b, c
<1>8. /\ a \in Int /\ b \in Int /\ c \in Int /\ a + b <= c + 2 * len
      /\ p * 10000 <= a + from * 10000 + 36 + U * 10000 /\ w * 10000 <= b + 12
      /\ (c + from * 10000) - 36 <= (q + 1) * 10000
  <2>1. a \in Int /\ b \in Int /\ c \in Int
    BY <1>7 DEF a, b, c
  <2>2. a + b <= c + 2 * len
    BY <1>6 DEF a, b, c
  <2>3. p * 10000 <= a + from * 10000 + 36 + U * 10000
    BY <1>1 DEF a, SCALE
  <2>4. w * 10000 <= b + 12
    BY <1>2 DEF b, SCALE
  <2>5. (c + from * 10000) - 36 <= (q + 1) * 10000
    BY <1>3 DEF c, SCALE
  <2> QED BY <2>1, <2>2, <2>3, <2>4, <2>5
<1>9. p + w <= q + 1 + U
  BY <1>1, <1>2, <1>3, <1>4, <1>5, <1>8
<1> QED BY <1>9 DEF p, q, w, U

-----------------------------------------------------------------------------
(* apply_bounds                                                              *)

(* Along one axis the length w that is moved meets the part from on. *)
LEMMA MovedMeets ==
  ASSUME NEW x \in Int, NEW w \in Int, NEW from \in Int, NEW len \in Int, w > 0, len > 0
  PROVE  /\ Moved(x, w, from, len) \in Int
         /\ Moved(x, w, from, len) < from + len
         /\ from < Moved(x, w, from, len) + w
BY DEF Moved

(* What meets that part stays where it is. *)
LEMMA MovedOnce ==
  ASSUME NEW x \in Int, NEW w \in Int, NEW from \in Int, NEW len \in Int,
         x < from + len, from < x + w
  PROVE  Moved(x, w, from, len) = x
BY DEF Moved

(* The size is at least the smallest one, and a number. *)
LEMMA SizeBounded ==
  ASSUME NEW g \in Box, NEW a \in Box
  PROVE  /\ ApplyBounds(g, a).width \in Int /\ ApplyBounds(g, a).width >= 30
         /\ ApplyBounds(g, a).height \in Int /\ ApplyBounds(g, a).height >= 30
         /\ ApplyBounds(g, a).x = Moved(g.x, ApplyBounds(g, a).width, a.x, a.width)
         /\ ApplyBounds(g, a).y = Moved(g.y, ApplyBounds(g, a).height, a.y, a.height)
BY DEF ApplyBounds, Box, MAX, MIN_CONTAINER_WIDTH, MIN_CONTAINER_HEIGHT

(* Whatever box a window is given, by a drag, a script or a bar that takes room, *)
(* it reaches into the area after apply_bounds, with a size that can be grabbed. *)
THEOREM BoundsReach ==
  ASSUME NEW g \in Box, NEW a \in Box, a.width > 0, a.height > 0
  PROVE  ApplyBounds(g, a) \in Box /\ Reaches(ApplyBounds(g, a), a)
<1> DEFINE b == ApplyBounds(g, a)
<1>1. /\ g.x \in Int /\ g.y \in Int /\ a.x \in Int /\ a.y \in Int
      /\ a.width \in Int /\ a.height \in Int
  BY DEF Box
<1>2. /\ b.width \in Int /\ b.width >= 30 /\ b.height \in Int /\ b.height >= 30
      /\ b.x = Moved(g.x, b.width, a.x, a.width) /\ b.y = Moved(g.y, b.height, a.y, a.height)
  BY SizeBounded
<1>3. b = [x |-> b.x, y |-> b.y, width |-> b.width, height |-> b.height]
  BY DEF ApplyBounds
<1> HIDE DEF b
<1> DEFINE x == Moved(g.x, b.width, a.x, a.width)
           y == Moved(g.y, b.height, a.y, a.height)
<1>x. x \in Int /\ x < a.x + a.width /\ a.x < x + b.width
  <2>1. b.width > 0
    BY <1>2
  <2>2. QED
    BY <1>1, <1>2, <2>1, MovedMeets
<1>y. y \in Int /\ y < a.y + a.height /\ a.y < y + b.height
  <2>1. b.height > 0
    BY <1>2
  <2>2. QED
    BY <1>1, <1>2, <2>1, MovedMeets
<1>4. b.x \in Int /\ b.x < a.x + a.width /\ a.x < b.x + b.width
  BY <1>2, <1>x
<1>5. b.y \in Int /\ b.y < a.y + a.height /\ a.y < b.y + b.height
  BY <1>2, <1>y
<1>6. b \in Box
  BY <1>2, <1>3, <1>4, <1>5 DEF Box
<1>7. Reaches(b, a)
  BY <1>2, <1>4, <1>5 DEF Reaches, MIN_CONTAINER_WIDTH, MIN_CONTAINER_HEIGHT
<1>8. QED
  BY <1>6, <1>7 DEF b

(* apply_bounds leaves a box that reaches into the area as it is, so bounding a *)
(* window again, as container_set_hidden_edges makes container_update_size do,  *)
(* changes nothing.                                                             *)
THEOREM BoundsStable ==
  ASSUME NEW b \in Box, NEW a \in Box, Reaches(b, a)
  PROVE  ApplyBounds(b, a) = b
<1>1. /\ b.x \in Int /\ b.y \in Int /\ b.width \in Int /\ b.height \in Int
      /\ a.x \in Int /\ a.y \in Int /\ a.width \in Int /\ a.height \in Int
  BY DEF Box
<1>2. MAX(MIN_CONTAINER_WIDTH, b.width) = b.width /\ MAX(MIN_CONTAINER_HEIGHT, b.height) = b.height
  BY <1>1 DEF Reaches, MAX, MIN_CONTAINER_WIDTH, MIN_CONTAINER_HEIGHT
<1>3. Moved(b.x, b.width, a.x, a.width) = b.x /\ Moved(b.y, b.height, a.y, a.height) = b.y
  BY <1>1, MovedOnce DEF Reaches
<1>4. b = [x |-> b.x, y |-> b.y, width |-> b.width, height |-> b.height]
  BY DEF Box
<1>5. QED
  BY <1>2, <1>3, <1>4 DEF ApplyBounds

-----------------------------------------------------------------------------
(* Geometry, and one window that is drawn                                    *)

Area(a) == a \in Box /\ a.width > 0 /\ a.height > 0

\* What bars leave has a width and a height.
LEMMA AreasTyped == \A a \in Areas : Area(a)
BY BoxesAssumption, AreasAssumption DEF Area

\* A place in pixels is a box.
LEMMA AbsoluteTyped ==
  ASSUME NEW p \in Place, NEW a, Area(a) PROVE Absolute(p, a) \in Box
<1>1. /\ p.x \in Nat /\ p.y \in Nat /\ p.width \in Nat /\ p.height \in Nat
      /\ a.x \in Int /\ a.y \in Int /\ a.width \in Nat /\ a.height \in Nat
  BY DEF Place, Box, Area
<1>2. /\ PlusTruncated(Scaled(p.x, a.width), a.x) \in Int
      /\ PlusTruncated(Scaled(p.y, a.height), a.y) \in Int
  BY <1>1, ScaledTyped, PlusTyped
<1>3. Truncated(Scaled(p.width, a.width)) \in Nat /\ Truncated(Scaled(p.height, a.height)) \in Nat
  BY <1>1, ScaledTyped, TruncatedBelow
<1> QED BY <1>2, <1>3 DEF Absolute, Box

\* A place without its gaps is a place.
LEMMA SurroundedTyped ==
  ASSUME NEW p \in Place, NEW gap \in Nat PROVE Surrounded(p, gap) \in Place
BY DEF Surrounded, Place, MAX

\* One box lies within another.
Within(b, c) ==
  /\ c.x <= b.x /\ b.x + b.width <= c.x + c.width
  /\ c.y <= b.y /\ b.y + b.height <= c.y + c.height

\* The largest box of a ratio is a place within the one that it is made for, whatever
\* the ratio is and however it is rounded.
LEMMA WithRatioWithin ==
  ASSUME NEW g \in Place, NEW r \in Nat \X (Nat \ {0})
  PROVE  WithRatio(g, r) \in Place /\ Within(WithRatio(g, r), g)
<1> DEFINE h == Truncated(Times(r, g.width))
           w == Truncated(Times(Single(r[2], r[1]), g.height))
           size == IF r[1] = 0 THEN <<g.width, g.height>>
              ELSE IF r[1] <= r[2]
              THEN IF h > g.height THEN <<MIN(w, g.width), g.height>>
                                   ELSE <<g.width, MIN(h, g.height)>>
              ELSE IF w > g.width THEN <<g.width, MIN(h, g.height)>>
                                  ELSE <<MIN(w, g.width), g.height>>
<1>1. /\ r[1] \in Nat /\ r[2] \in Nat \ {0} /\ r \in Float
      /\ g.width \in Nat /\ g.height \in Nat /\ g.x \in Nat /\ g.y \in Nat
  BY DEF Place, Float
<1>2. h \in Nat
  BY <1>1, TimesTyped, TruncatedBelow
<1>3. ASSUME r[1] # 0 PROVE w \in Nat
  <2>1. Single(r[2], r[1]) \in Float
    BY <1>1, <1>3, SingleClose
  <2> QED BY <1>1, <2>1, TimesTyped, TruncatedBelow
<1>4. WithRatio(g, r) =
       [x |-> g.x + g.width \div 2 - size[1] \div 2, y |-> g.y + g.height \div 2 - size[2] \div 2,
       width |-> size[1], height |-> size[2]]
  BY DEF WithRatio
<1> HIDE DEF h, w
<1>5. size[1] \in Nat /\ size[2] \in Nat /\ size[1] <= g.width /\ size[2] <= g.height
  BY <1>1, <1>2, <1>3 DEF MIN
<1> HIDE DEF size
<1>6. ASSUME NEW s \in Nat, NEW t \in Nat, s <= t
      PROVE  s \div 2 \in Nat /\ t \div 2 \in Nat /\ s \div 2 <= t \div 2 /\ t \div 2 - s \div 2 + s <= t
  BY <1>6
<1>7. WithRatio(g, r) \in Place
  BY <1>1, <1>4, <1>5, <1>6 DEF Place
<1> QED BY <1>1, <1>4, <1>5, <1>6, <1>7 DEF Within

\* Each of the four borders is a box.
LEMMA BorderTyped ==
  ASSUME NEW g \in Box, NEW d \in Int, NEW e \in Edges PROVE BorderGeom(g, d, e) \in Box
<1>0. g.x \in Int /\ g.y \in Int /\ g.width \in Int /\ g.height \in Int
  BY DEF Box
<1>1. CASE e = "top"
  <2>1. BorderGeom(g, d, e) = [g EXCEPT !.height = d]
    BY <1>1 DEF BorderGeom
  <2> QED BY <2>1 DEF Box
<1>2. CASE e = "bottom"
  <2>1. BorderGeom(g, d, e) = [g EXCEPT !.y = @ + g.height - d, !.height = d]
    BY <1>2 DEF BorderGeom
  <2>2. BorderGeom(g, d, e) = [x |-> g.x, y |-> g.y + g.height - d, width |-> g.width, height |-> d]
    BY <2>1 DEF Box
  <2>3. g.y + g.height - d \in Int
    BY <1>0
  <2> QED BY <2>2, <2>3, <1>0 DEF Box
<1>3. CASE e = "left"
  <2>1. BorderGeom(g, d, e) = [g EXCEPT !.width = d]
    BY <1>3 DEF BorderGeom
  <2> QED BY <2>1 DEF Box
<1>4. CASE e = "right"
  <2>1. BorderGeom(g, d, e) = [g EXCEPT !.x = @ + g.width - d, !.width = d]
    BY <1>4 DEF BorderGeom
  <2>2. BorderGeom(g, d, e) = [x |-> g.x + g.width - d, y |-> g.y, width |-> d, height |-> g.height]
    BY <2>1 DEF Box
  <2>3. g.x + g.width - d \in Int
    BY <1>0
  <2> QED BY <2>2, <2>3, <1>0 DEF Box
<1> QED BY <1>1, <1>2, <1>3, <1>4 DEF Edges

\* The types of the options.
LEMMA SetupTyped ==
  ASSUME setup \in Setups
  PROVE  /\ setup.windows \subseteq Windows /\ setup.hidden \subseteq Edges /\ setup.smart \in BOOLEAN
         /\ setup.tile \in Nat /\ setup.float \in Nat /\ setup.inner \in Nat
BY SetupsAssumption

\* r is the state of a window after container_update_size of q.
LEMMA UpdateSizeFacts ==
  ASSUME setup \in Setups, NEW q \in Window, NEW a, Area(a), NEW n \in Nat
  PROVE  LET r == UpdateSize(q, a, n)
         IN  /\ r \in Window
             /\ r.floating = q.floating /\ r.place = q.place /\ r.border = q.border /\ r.ratio = q.ratio
             /\ r.floating => r.box = ApplyBounds(q.box, a) /\ Reaches(r.box, a)
             /\ ~r.floating => r.box = q.box
             /\ r.drawn.box = Current(r, a)
             /\ q.border = (IF q.floating THEN setup.float ELSE setup.tile) => Agrees(r, a, n)
<1> DEFINE b == Bounded(q, a)
           g == Current(b, a)
           r == UpdateSize(q, a, n)
           hid == HiddenNow(g, a, n)
           dr == [box |-> g, borders |-> [e \in Edges |-> BorderGeom(g, b.border, e)], shown |-> Edges \ hid]
<1>1. /\ q.floating \in BOOLEAN /\ q.place \in Place /\ q.box \in Box /\ q.border \in Int
      /\ q.edges \in SUBSET Edges
  BY DEF Window
<1>2. a \in Box /\ a.width > 0 /\ a.height > 0
  BY DEF Area
<1>3. ApplyBounds(q.box, a) \in Box /\ Reaches(ApplyBounds(q.box, a), a)
  BY <1>1, <1>2, BoundsReach
<1>4. /\ b \in Window
      /\ b.floating = q.floating /\ b.place = q.place /\ b.border = q.border /\ b.ratio = q.ratio
      /\ b.edges = q.edges
      /\ q.floating => b.box = ApplyBounds(q.box, a)
      /\ ~q.floating => b.box = q.box
  <2>1. CASE q.floating
    <3>1. b = [q EXCEPT !.box = ApplyBounds(@, a)]
      BY <2>1 DEF Bounded
    <3> HIDE DEF b
    <3> QED BY <2>1, <3>1, <1>3 DEF Window
  <2>2. CASE ~q.floating
    <3>1. b = q
      BY <2>2 DEF Bounded
    <3> HIDE DEF b
    <3> QED BY <2>2, <3>1
  <2> QED BY <2>1, <2>2
<1> HIDE DEF b
<1>5. g \in Box
  BY <1>2, <1>4, AbsoluteTyped DEF Current, Window
<1>6. hid \in SUBSET Edges
  BY DEF HiddenNow, AtEdge
<1>7. r = [b EXCEPT !.edges = IF setup.smart /\ n > 1 THEN @ ELSE hid, !.drawn = dr]
  BY DEF UpdateSize, UpdateBorder, b
<1> HIDE DEF r, g, hid
<1>8. [e \in Edges |-> BorderGeom(g, b.border, e)] \in [Edges -> Box]
  BY <1>1, <1>4, <1>5, BorderTyped
<1>9. dr \in [box : Box, borders : [Edges -> Box], shown : SUBSET Edges]
  BY <1>5, <1>8
<1>10. /\ dr.box = g /\ dr.borders = [e \in Edges |-> BorderGeom(g, b.border, e)]
       /\ dr.shown = Edges \ hid
  OBVIOUS
<1> HIDE DEF dr
<1>11. /\ r \in Window
       /\ r.floating = b.floating /\ r.place = b.place /\ r.border = b.border /\ r.ratio = b.ratio
       /\ r.box = b.box /\ r.drawn = dr
       /\ r.edges = IF setup.smart /\ n > 1 THEN b.edges ELSE hid
  BY <1>4, <1>6, <1>7, <1>9 DEF Window
<1>12. Current(r, a) = g
  BY <1>11 DEF Current, g
<1>13. ASSUME q.border = (IF q.floating THEN setup.float ELSE setup.tile) PROVE Agrees(r, a, n)
  <2> DEFINE d == IF r.floating THEN setup.float ELSE setup.tile
  <2>1. b.border = d
    BY <1>4, <1>11, <1>13
  <2> HIDE DEF d
  <2>2. r.drawn.box = g /\ r.drawn.borders = [e \in Edges |-> BorderGeom(g, d, e)]
    BY <1>10, <1>11, <2>1
  <2>3. r.drawn.shown = Edges \ HiddenNow(g, a, n)
    BY <1>10, <1>11 DEF hid
  <2>4. ~setup.smart => r.edges = hid /\ Edges \ r.drawn.shown = hid
    BY <1>6, <1>10, <1>11
  <2>5. ~setup.smart => Content(g, d, r.edges) = Content(g, d, Edges \ r.drawn.shown)
    BY <2>4
  <2> QED BY <1>12, <2>2, <2>3, <2>5 DEF Agrees, d
<1> QED BY <1>3, <1>4, <1>10, <1>11, <1>12, <1>13 DEF r

-----------------------------------------------------------------------------
(* The places that a layout gives to the tiled windows of a list             *)

\* A list of windows without repetition.
List(list) == list \in Seq(Windows) /\ IsInjective(list)

\* Ranks: how many positions of S are not beyond j.
UpTo(S, j) == {i \in S : i <= j}

\* Positions have ranks among the positions of S, and different ones.
LEMMA Ranked ==
  ASSUME NEW n \in Nat, NEW S \in SUBSET (1..n)
  PROVE  /\ Cardinality(S) \in 0..n
         /\ \A j \in S : Cardinality(UpTo(S, j)) \in 1..Cardinality(S)
         /\ \A j, k \in S : j < k => Cardinality(UpTo(S, j)) < Cardinality(UpTo(S, k))
<1>1. IsFiniteSet(1..n) /\ Cardinality(1..n) = n
  <2>1. 1 \in Int /\ n \in Int
    OBVIOUS
  <2>2. IsFiniteSet(1..n) /\ Cardinality(1..n) = IF 1 > n THEN 0 ELSE n - 1 + 1
    BY <2>1, FS_Interval
  <2> QED BY <2>2
<1>2. IsFiniteSet(S) /\ Cardinality(S) <= n
  BY <1>1, FS_Subset
<1>3. \A T \in SUBSET S : IsFiniteSet(T) /\ Cardinality(T) \in Nat /\ Cardinality(T) <= Cardinality(S)
  BY <1>2, FS_Subset, FS_CardinalityType
<1>4. Cardinality(S) \in 0..n
  BY <1>2, <1>3
<1>5. ASSUME NEW j \in S PROVE Cardinality(UpTo(S, j)) \in 1..Cardinality(S)
  <2>1. UpTo(S, j) \in SUBSET S /\ j \in UpTo(S, j)
    BY DEF UpTo
  <2>2. Cardinality(UpTo(S, j)) # 0
    BY <1>3, <2>1, FS_EmptySet
  <2> QED BY <1>3, <1>4, <2>1, <2>2
<1>6. ASSUME NEW j \in S, NEW k \in S, j < k PROVE Cardinality(UpTo(S, j)) < Cardinality(UpTo(S, k))
  <2>1. UpTo(S, j) \in SUBSET S /\ UpTo(S, k) \in SUBSET S
    BY DEF UpTo
  <2>a. j \in Int /\ k \in Int /\ S \subseteq Int
    OBVIOUS
  <2>b. \A i \in S : i <= j => i <= k
    BY <2>a, <1>6
  <2>c. ~(k <= j) /\ k <= k
    BY <2>a, <1>6
  <2>2. UpTo(S, j) \in SUBSET UpTo(S, k) /\ k \in UpTo(S, k) /\ k \notin UpTo(S, j)
    BY <2>b, <2>c DEF UpTo
  <2>3. /\ Cardinality(UpTo(S, j)) <= Cardinality(UpTo(S, k))
        /\ Cardinality(UpTo(S, j)) # Cardinality(UpTo(S, k))
    BY <1>3, <2>1, <2>2, FS_Subset
  <2> QED BY <1>3, <2>1, <2>3
<1> QED BY <1>4, <1>5, <1>6

\* A list is no longer than there are windows.
LEMMA ListFits ==
  ASSUME NEW list, List(list)
  PROVE  /\ Len(list) \in Nat /\ Len(list) <= Cardinality(Windows)
         /\ DOMAIN list = 1..Len(list) /\ Cardinality(Windows) \in Nat
<1>1. Len(list) \in Nat /\ DOMAIN list = 1..Len(list) /\ list \in [1..Len(list) -> Windows]
  BY DEF List
<1>2. list \in Injection(1..Len(list), Windows)
  BY <1>1 DEF List, IsInjective, Injection
<1>3. IsFiniteSet(Windows)
  BY WindowsAssumption
<1>4. Cardinality(1..Len(list)) <= Cardinality(Windows)
  BY <1>2, <1>3, FS_Injection
<1>5. Cardinality(1..Len(list)) = Len(list)
  <2> DEFINE n == Len(list)
  <2>1. 1 \in Int /\ n \in Int /\ n \in Nat
    BY <1>1
  <2> HIDE DEF n
  <2>2. Cardinality(1..n) = IF 1 > n THEN 0 ELSE n - 1 + 1
    BY <2>1, FS_Interval
  <2>3. Cardinality(1..n) = n
    BY <2>1, <2>2
  <2> QED BY <2>3 DEF n
<1> QED BY <1>1, <1>3, <1>4, <1>5, FS_CardinalityType

\* The tiled windows of a list have the places rank of the layout for n windows.
PlacedBy(ws, list, n, rank) ==
  /\ \A w \in ToSet(list) : ~ws[w].floating =>
       /\ rank[w] \in 1..n /\ n \in 1..Cardinality(Windows)
       /\ PlaceOf(ws, list, w) = Places[n][rank[w]]
  /\ \A v, w \in ToSet(list) : ~ws[v].floating /\ ~ws[w].floating /\ v # w => rank[v] # rank[w]

\* The places of two tiled windows of a list are two places of the same layout.
LEMMA PlacesOfTiled ==
  ASSUME NEW ws, NEW list, List(list)
  PROVE  \E n, rank : PlacedBy(ws, list, n, rank)
<1> DEFINE
      S == Tiled(ws, list)
      n == Cardinality(S)
      Before(w) == {i \in S : \E j \in S : i <= j /\ list[j] = w}
      rank == [w \in Windows |-> Cardinality(Before(w))]
<1>1. /\ Len(list) \in Nat /\ Len(list) <= Cardinality(Windows)
      /\ DOMAIN list = 1..Len(list) /\ Cardinality(Windows) \in Nat
  BY ListFits
<1>2. S \in SUBSET (1..Len(list))
  BY <1>1 DEF Tiled
<1>3. n \in 0..Len(list)
  BY <1>1, <1>2, Ranked
<1>4. \A w \in Windows : PlaceOf(ws, list, w) = Places[n][rank[w]]
  BY DEF PlaceOf
<1>5. ASSUME NEW w \in ToSet(list), ~ws[w].floating
      PROVE  \E j \in S : list[j] = w /\ Before(w) = UpTo(S, j) /\ rank[w] = Cardinality(UpTo(S, j))
  <2>1. PICK j \in 1..Len(list) : list[j] = w
    BY <1>1 DEF ToSet
  <2>2. j \in S
    BY <1>1, <1>5, <2>1 DEF Tiled
  <2>3. \A k \in S : list[k] = w => k = j
    BY <1>1, <1>2, <2>1 DEF List, IsInjective
  <2>4. Before(w) = UpTo(S, j)
    BY <2>1, <2>2, <2>3 DEF UpTo
  <2>5. w \in Windows
    BY <2>1 DEF List
  <2> QED BY <2>1, <2>2, <2>4, <2>5
<1>6. rank \in [Windows -> Nat]
  <2>1. \A w \in Windows : Cardinality(Before(w)) \in Nat
    <3> TAKE w \in Windows
    <3>1. Before(w) \in SUBSET (1..Len(list))
      BY <1>2
    <3> DEFINE U == Before(w)
    <3> HIDE DEF U
    <3>2. U \in SUBSET (1..Len(list))
      BY <3>1 DEF U
    <3>3. Cardinality(U) \in 0..Len(list)
      BY <1>1, <3>2, Ranked
    <3> QED BY <1>1, <3>3 DEF U
  <2> QED BY <2>1
<1> HIDE DEF S, n, rank
<1>7. ASSUME NEW w \in ToSet(list), ~ws[w].floating
      PROVE  /\ rank[w] \in 1..n /\ n \in 1..Cardinality(Windows)
             /\ PlaceOf(ws, list, w) = Places[n][rank[w]]
  <2>1. PICK j \in S : rank[w] = Cardinality(UpTo(S, j))
    BY <1>5, <1>7
  <2>2. rank[w] \in 1..n
    BY <1>1, <1>2, <2>1, Ranked DEF n
  <2>3. w \in Windows
    BY <1>1 DEF List, ToSet
  <2> QED BY <1>1, <1>3, <1>4, <2>2, <2>3
<1>8. ASSUME NEW v \in ToSet(list), NEW w \in ToSet(list), ~ws[v].floating, ~ws[w].floating, v # w
      PROVE  rank[v] # rank[w]
  <2>1. PICK j \in S : list[j] = v /\ rank[v] = Cardinality(UpTo(S, j))
    BY <1>5, <1>8
  <2>2. PICK k \in S : list[k] = w /\ rank[w] = Cardinality(UpTo(S, k))
    BY <1>5, <1>8
  <2>3. j < k \/ k < j
    BY <1>1, <1>2, <1>8, <2>1, <2>2
  <2>4. Cardinality(UpTo(S, j)) \in 1..n /\ Cardinality(UpTo(S, k)) \in 1..n
    BY <1>1, <1>2, Ranked DEF n
  <2>5. Cardinality(UpTo(S, j)) < Cardinality(UpTo(S, k)) \/ Cardinality(UpTo(S, k)) < Cardinality(UpTo(S, j))
    BY <1>1, <1>2, <2>3, Ranked
  <2> QED BY <1>1, <1>3, <2>1, <2>2, <2>4, <2>5
<1> QED BY <1>7, <1>8 DEF PlacedBy

-----------------------------------------------------------------------------
(* Boxes within places, in ten thousandths and in pixels                     *)

\* A gap that leaves something of a place leaves a box within it.
LEMMA SurroundedWithin ==
  ASSUME NEW p \in Place, NEW gap \in Nat, gap \div 2 < MIN(p.width, p.height)
  PROVE  Within(Surrounded(p, gap), p)
<1>1. p.x \in Nat /\ p.y \in Nat /\ p.width \in Nat /\ p.height \in Nat
  BY DEF Place
<1>2. gap \div 2 < p.width /\ gap \div 2 < p.height /\ gap \div 2 \in Nat
  BY <1>1 DEF MIN
<1> QED BY <1>1, <1>2 DEF Within, Surrounded, MAX

\* An area of which the errors of single precision are bounded.
Fits(a) == Area(a) /\ a.width \in Length /\ a.height \in Length /\ a.x \in Origin /\ a.y \in Origin

LEMMA AreasFitting ==
  ASSUME AreasFit, NEW a \in Areas PROVE Fits(a)
<1>1. /\ Area(a) /\ a.width \in Int /\ a.height \in Int /\ a.width > 0 /\ a.height > 0
      /\ a.x \in Int /\ a.y \in Int
  BY AreasTyped DEF Area, Box
<1>2. /\ a.width <= 4096 /\ a.height <= 4096
      /\ -32768 <= a.x /\ a.x <= 32768 /\ -32768 <= a.y /\ a.y <= 32768
  BY <1>1 DEF AreasFit, LONGEST, FARTHEST
<1>3. a.width \in Length /\ a.height \in Length
  BY <1>1, <1>2 DEF Length
<1>4. a.x \in Origin /\ a.y \in Origin
  BY <1>1, <1>2 DEF Origin
<1> QED BY <1>1, <1>3, <1>4 DEF Fits

\* A place within the layout, but for SLACK.
InLayout(p) == p.x + p.width <= SCALE + SLACK /\ p.y + p.height <= SCALE + SLACK

LEMMA InLayoutTyped ==
  ASSUME NEW p \in Place, InLayout(p)
  PROVE  /\ p.x \in Coordinate /\ p.width \in Coordinate /\ p.x + p.width <= 10002
         /\ p.y \in Coordinate /\ p.height \in Coordinate /\ p.y + p.height <= 10002
<1>1. p.x \in Nat /\ p.y \in Nat /\ p.width \in Nat /\ p.height \in Nat
  BY DEF Place
<1>2. p.x + p.width <= 10002 /\ p.y + p.height <= 10002
  BY DEF InLayout, SCALE, SLACK
<1> QED BY <1>1, <1>2 DEF Coordinate

\* What lies in a place lies in the layout if the place does.
LEMMA WithinLayout ==
  ASSUME NEW b \in Place, NEW p \in Place, Within(b, p), InLayout(p) PROVE InLayout(b)
BY DEF Place, Within, InLayout, SCALE, SLACK

\* A box starts in an area and ends there, or a pixel beyond where truncation rounds up.
InArea(b, a) ==
  /\ a.x <= b.x /\ b.x + b.width <= a.x + a.width + Up(a.x)
  /\ a.y <= b.y /\ b.y + b.height <= a.y + a.height + Up(a.y)

\* A tiled window lies in the area if its place lies in the layout.
LEMMA AbsoluteWithin ==
  ASSUME NEW b \in Place, InLayout(b), NEW a, Fits(a)
  PROVE  InArea(Absolute(b, a), a)
<1>1. /\ b.x \in Coordinate /\ b.width \in Coordinate /\ b.x + b.width <= 10002
      /\ b.y \in Coordinate /\ b.height \in Coordinate /\ b.y + b.height <= 10002
  BY InLayoutTyped
<1>2. a.width \in Length /\ a.height \in Length /\ a.x \in Origin /\ a.y \in Origin
  BY DEF Fits
<1>3. /\ a.x <= PlusTruncated(Scaled(b.x, a.width), a.x)
      /\ a.y <= PlusTruncated(Scaled(b.y, a.height), a.y)
  BY <1>1, <1>2, PositionClose
<1>4. PlusTruncated(Scaled(b.x, a.width), a.x) + Truncated(Scaled(b.width, a.width))
        <= a.x + a.width + Up(a.x)
  BY <1>1, <1>2, EndsWithin
<1>5. PlusTruncated(Scaled(b.y, a.height), a.y) + Truncated(Scaled(b.height, a.height))
        <= a.y + a.height + Up(a.y)
  BY <1>1, <1>2, EndsWithin
<1> QED BY <1>3, <1>4, <1>5 DEF InArea, Absolute

\* Boxes in places that are apart overlap by a pixel at most, or by one more where
\* truncation rounds up.
LEMMA AbsoluteApart ==
  ASSUME NEW b \in Place, NEW c \in Place, InLayout(b), InLayout(c),
         ApartBut(SLACK, SLACK, b, c), NEW a, Fits(a)
  PROVE  ApartBut(1 + Up(a.x), 1 + Up(a.y), Absolute(b, a), Absolute(c, a))
<1>1. /\ b.x \in Coordinate /\ b.width \in Coordinate /\ b.y \in Coordinate /\ b.height \in Coordinate
      /\ c.x \in Coordinate /\ c.width \in Coordinate /\ c.y \in Coordinate /\ c.height \in Coordinate
  BY InLayoutTyped
<1>2. a.width \in Length /\ a.height \in Length /\ a.x \in Origin /\ a.y \in Origin
  BY DEF Fits
<1>3. ASSUME NEW x \in Coordinate, NEW l \in Coordinate, NEW y \in Coordinate, x + l <= y + 2,
             NEW len \in Length, NEW from \in Origin
      PROVE  PlusTruncated(Scaled(x, len), from) + Truncated(Scaled(l, len))
               <= PlusTruncated(Scaled(y, len), from) + (1 + Up(from))
  <2>1. PlusTruncated(Scaled(x, len), from) + Truncated(Scaled(l, len))
          <= PlusTruncated(Scaled(y, len), from) + 1 + Up(from)
    BY <1>3, EndsBefore
  <2>2. PlusTruncated(Scaled(y, len), from) \in Int /\ Up(from) \in Int
    BY PositionClose DEF Up
  <2> QED BY <2>1, <2>2
<1>4. CASE b.x + b.width <= c.x + 2
  BY <1>1, <1>2, <1>3, <1>4 DEF ApartBut, Absolute
<1>5. CASE c.x + c.width <= b.x + 2
  BY <1>1, <1>2, <1>3, <1>5 DEF ApartBut, Absolute
<1>6. CASE b.y + b.height <= c.y + 2
  BY <1>1, <1>2, <1>3, <1>6 DEF ApartBut, Absolute
<1>7. CASE c.y + c.height <= b.y + 2
  BY <1>1, <1>2, <1>3, <1>7 DEF ApartBut, Absolute
<1> QED BY <1>4, <1>5, <1>6, <1>7 DEF ApartBut, SLACK

-----------------------------------------------------------------------------
(* arrange                                                                   *)

\* The windows ws of a list in an area: what is drawn, what floats, what is tiled.
Drawn(ws, list, a) ==
  \A w \in ToSet(list) :
    /\ Agrees(ws[w], a, Len(list))
    /\ ws[w].floating => Reaches(ws[w].box, a)

\* TiledApart, of any windows, list and area.
TilesApart(ws, list, a) ==
  \A w \in ToSet(list) : ~ws[w].floating =>
    /\ InArea(ws[w].drawn.box, a)
    /\ \A v \in ToSet(list) \ {w} :
         ~ws[v].floating => ApartBut(1 + Up(a.x), 1 + Up(a.y), ws[w].drawn.box, ws[v].drawn.box)

\* A list has windows only.
LEMMA ListTyped ==
  ASSUME NEW list, List(list) PROVE ToSet(list) \subseteq Windows
<1>1. \A i \in DOMAIN list : list[i] \in Windows
  BY DEF List
<1> QED BY <1>1 DEF ToSet

\* The place of a tiled window of a list is one.
LEMMA PlaceTyped ==
  ASSUME NEW ws, NEW list, List(list), NEW w \in ToSet(list), ~ws[w].floating
  PROVE  PlaceOf(ws, list, w) \in Place
<1>1. PICK n, rank : PlacedBy(ws, list, n, rank)
  BY PlacesOfTiled
<1>2. rank[w] \in 1..n /\ n \in 1..Cardinality(Windows) /\ PlaceOf(ws, list, w) = Places[n][rank[w]]
  BY <1>1 DEF PlacedBy
<1> QED BY <1>2, PlacesAssumption

\* A window with another border.
LEMMA Bordered ==
  ASSUME NEW q \in Window, NEW d \in Int
  PROVE  LET r == [q EXCEPT !.border = d]
         IN  /\ r \in Window /\ r.border = d
             /\ r.floating = q.floating /\ r.ratio = q.ratio /\ r.box = q.box /\ r.place = q.place
BY DEF Window

\* A window with another place.
LEMMA Placed ==
  ASSUME NEW q \in Window, NEW p \in Place
  PROVE  LET r == [q EXCEPT !.place = p]
         IN  /\ r \in Window /\ r.place = p
             /\ r.floating = q.floating /\ r.ratio = q.ratio /\ r.box = q.box /\ r.border = q.border
BY DEF Window

\* What arrange makes of one window.
LEMMA ArrangeOne ==
  ASSUME setup \in Setups, NEW ws \in [Windows -> Window], NEW list, List(list),
         NEW a, Area(a), NEW w \in Windows
  PROVE  LET r == Arrange(ws, list, a)[w]
         IN  /\ r \in Window
             /\ r.floating = ws[w].floating /\ r.ratio = ws[w].ratio
             /\ w \notin ToSet(list) => r = ws[w]
             /\ w \in ToSet(list) =>
                  /\ Agrees(r, a, Len(list)) 
                  /\ r.drawn.box = Current(r, a)
                  /\ r.floating => r.box = ApplyBounds(ws[w].box, a) /\ Reaches(r.box, a)
                  /\ ~r.floating =>
                       r.place = WithRatio(Surrounded(PlaceOf(ws, list, w), setup.inner \div 2),
                                           ws[w].ratio)
<1> DEFINE A == Arrange(ws, list, a)
           n == Len(list)
<1>1. n \in Nat
  BY ListFits
<1>2. A[w] = IF w \notin ToSet(list) THEN ws[w]
     ELSE IF ws[w].floating THEN UpdateSize([ws[w] EXCEPT !.border = setup.float], a, n)
     ELSE Tile(ws[w], PlaceOf(ws, list, w), a, n)
  BY DEF Arrange
<1> HIDE DEF A, n
<1>3. ws[w] \in Window
  OBVIOUS
<1>4. setup.tile \in Nat /\ setup.float \in Nat /\ setup.inner \in Nat
  BY SetupTyped
<1>5. CASE w \notin ToSet(list)
  BY <1>2, <1>3, <1>5 DEF A
<1>6. CASE w \in ToSet(list) /\ ws[w].floating
  <2> DEFINE q == [ws[w] EXCEPT !.border = setup.float]
  <2>1. /\ q \in Window /\ q.border = setup.float /\ q.floating = TRUE
        /\ q.ratio = ws[w].ratio /\ q.box = ws[w].box
    BY <1>3, <1>4, <1>6, Bordered
  <2>2. A[w] = UpdateSize(q, a, n)
    BY <1>2, <1>6
  <2> HIDE DEF q
  <2>3. /\ A[w] \in Window
        /\ A[w].floating = q.floating /\ A[w].ratio = q.ratio
        /\ A[w].floating => A[w].box = ApplyBounds(q.box, a) /\ Reaches(A[w].box, a)
        /\ A[w].drawn.box = Current(A[w], a)
    BY <1>1, <2>1, <2>2, UpdateSizeFacts
  <2>4. Agrees(A[w], a, n)
    BY <1>1, <1>6, <2>1, <2>2, UpdateSizeFacts
  <2> QED BY <1>6, <2>1, <2>3, <2>4 DEF A, n
<1>7. CASE w \in ToSet(list) /\ ~ws[w].floating
  <2> DEFINE p == WithRatio(Surrounded(PlaceOf(ws, list, w), setup.inner \div 2), ws[w].ratio)
             o == [ws[w] EXCEPT !.border = setup.tile]
             q == [o EXCEPT !.place = p]
  <2>1. PlaceOf(ws, list, w) \in Place
    BY <1>7, PlaceTyped
  <2>2. setup.inner \div 2 \in Nat
    BY <1>4
  <2>3. ws[w].ratio \in Nat \X (Nat \ {0})
    BY <1>3 DEF Window
  <2>4. p \in Place
    BY <2>1, <2>2, <2>3, SurroundedTyped, WithRatioWithin
  <2>5. A[w] = UpdateSize(q, a, n)
    <3>1. A[w] = UpdateSize([ws[w] EXCEPT !.border = setup.tile, !.place = p], a, n)
      BY <1>2, <1>7 DEF Tile
    <3>2. [ws[w] EXCEPT !.border = setup.tile, !.place = p] = q
      BY <1>3 DEF Window
    <3> QED BY <3>1, <3>2
  <2> HIDE DEF p
  <2>6. /\ q \in Window /\ q.border = setup.tile /\ q.floating = FALSE /\ q.ratio = ws[w].ratio
        /\ q.place = p
    <3>1. /\ o \in Window /\ o.border = setup.tile /\ o.floating = ws[w].floating
          /\ o.ratio = ws[w].ratio
      BY <1>3, <1>4, Bordered
    <3> HIDE DEF o
    <3>2. /\ q \in Window /\ q.border = o.border /\ q.floating = o.floating /\ q.ratio = o.ratio
          /\ q.place = p
      BY <2>4, <3>1, Placed
    <3> QED BY <1>3, <1>7, <3>1, <3>2 DEF Window
  <2> HIDE DEF q
  <2>7. /\ A[w] \in Window
        /\ A[w].floating = q.floating /\ A[w].ratio = q.ratio /\ A[w].place = q.place
        /\ A[w].drawn.box = Current(A[w], a)
    BY <1>1, <2>5, <2>6, UpdateSizeFacts
  <2>8. Agrees(A[w], a, n)
    BY <1>1, <2>5, <2>6, UpdateSizeFacts
  <2>9. ws[w].floating = FALSE
    BY <1>3, <1>7 DEF Window
  <2> QED BY <1>7, <2>6, <2>7, <2>8, <2>9 DEF A, n, p
<1> QED BY <1>5, <1>6, <1>7

\* After arrange all windows of the list are drawn as they are and can be grabbed.
LEMMA ArrangeDraws ==
  ASSUME setup \in Setups, NEW ws \in [Windows -> Window], NEW list, List(list), NEW a, Area(a)
  PROVE  /\ Arrange(ws, list, a) \in [Windows -> Window]
         /\ Drawn(Arrange(ws, list, a), list, a)
         /\ \A w \in Windows : Arrange(ws, list, a)[w].floating = ws[w].floating
<1> DEFINE A == Arrange(ws, list, a)
<1>1. ToSet(list) \subseteq Windows
  BY ListTyped
<1>2. \A w \in Windows : A[w] \in Window /\ A[w].floating = ws[w].floating
  BY ArrangeOne
<1>3. A = [w \in Windows |-> A[w]]
  BY DEF Arrange
<1>4. Drawn(A, list, a)
  BY <1>1, ArrangeOne DEF Drawn
<1> HIDE DEF A
<1>5. A \in [Windows -> Window]
  BY <1>2, <1>3
<1> QED BY <1>2, <1>4, <1>5 DEF A

\* What a layout and the monitors have to be.
LayoutFits == PlacesFit /\ AreasFit

\* After arrange the tiled windows lie in the area and apart from each other.
LEMMA ArrangeTiles ==
  ASSUME LayoutFits,
         setup \in Setups, NEW ws \in [Windows -> Window], NEW list, List(list), NEW a \in Areas
  PROVE  TilesApart(Arrange(ws, list, a), list, a)
<1> DEFINE A == Arrange(ws, list, a)
           half == setup.inner \div 2
<1>1. ToSet(list) \subseteq Windows
  BY ListTyped
<1>2. half \in Nat
  BY SetupTyped
<1>3. PICK n, rank : PlacedBy(ws, list, n, rank)
  BY PlacesOfTiled
<1>4. /\ \A w \in ToSet(list) : ~ws[w].floating =>
           rank[w] \in 1..n /\ n \in 1..Cardinality(Windows) /\ PlaceOf(ws, list, w) = Places[n][rank[w]]
      /\ \A v, w \in ToSet(list) : ~ws[v].floating /\ ~ws[w].floating /\ v # w => rank[v] # rank[w]
  BY <1>3 DEF PlacedBy
<1>0. Area(a) /\ Fits(a)
  BY AreasTyped, AreasFitting DEF LayoutFits
<1>5. ASSUME NEW w \in ToSet(list), ~A[w].floating
      PROVE  \E b \in Place : LET p == Places[n][rank[w]] IN
               /\ ~ws[w].floating /\ rank[w] \in 1..n /\ n \in 1..Cardinality(Windows)
               /\ A[w].drawn.box = Absolute(b, a) /\ InLayout(b) /\ p \in Place /\ Within(b, p)
  <2> DEFINE p == Places[n][rank[w]]
             s == Surrounded(p, half)
             b == WithRatio(s, ws[w].ratio)
  <2>1. /\ A[w].floating = ws[w].floating /\ A[w].drawn.box = Current(A[w], a)
        /\ A[w].place = WithRatio(Surrounded(PlaceOf(ws, list, w), half), ws[w].ratio)
    BY <1>0, <1>1, <1>5, ArrangeOne
  <2> HIDE DEF A, half
  <2>2. ~ws[w].floating
    BY <1>5, <2>1
  <2>3. rank[w] \in 1..n /\ n \in 1..Cardinality(Windows) /\ PlaceOf(ws, list, w) = p
    BY <1>4, <2>2
  <2>4. A[w].drawn.box = Absolute(b, a)
    BY <1>5, <2>1, <2>3 DEF Current
  <2>5. p \in Place
    BY <2>3, PlacesAssumption
  <2>6. InLayout(p) /\ half \div 2 < MIN(p.width, p.height)
    BY <2>3 DEF LayoutFits, PlacesFit, InLayout, half
  <2>7. ws[w].ratio \in Nat \X (Nat \ {0})
    BY <1>1 DEF Window
  <2> HIDE DEF p
  <2>8. s \in Place /\ Within(s, p)
    BY <1>2, <2>5, <2>6, SurroundedTyped, SurroundedWithin
  <2> HIDE DEF s
  <2>9. b \in Place /\ Within(b, s)
    BY <2>7, <2>8, WithRatioWithin
  <2> HIDE DEF b
  <2>10. Within(b, p)
    BY <2>5, <2>8, <2>9 DEF Within, Place
  <2>11. InLayout(b)
    BY <2>5, <2>6, <2>9, <2>10, WithinLayout
  <2> QED BY <2>2, <2>3, <2>4, <2>5, <2>9, <2>10, <2>11 DEF p
<1> HIDE DEF A
<1>6. ASSUME NEW w \in ToSet(list), ~A[w].floating
      PROVE  InArea(A[w].drawn.box, a)
  BY <1>0, <1>5, <1>6, AbsoluteWithin
<1>7. ASSUME NEW w \in ToSet(list), NEW v \in ToSet(list) \ {w}, ~A[w].floating, ~A[v].floating
      PROVE  ApartBut(1 + Up(a.x), 1 + Up(a.y), A[w].drawn.box, A[v].drawn.box)
  <2> DEFINE p == Places[n][rank[w]]
             q == Places[n][rank[v]]
  <2>1. PICK b \in Place :
          /\ ~ws[w].floating /\ rank[w] \in 1..n /\ n \in 1..Cardinality(Windows)
          /\ A[w].drawn.box = Absolute(b, a) /\ InLayout(b) /\ p \in Place /\ Within(b, p)
    BY <1>5, <1>7
  <2>2. PICK c \in Place :
          /\ ~ws[v].floating /\ rank[v] \in 1..n
          /\ A[v].drawn.box = Absolute(c, a) /\ InLayout(c) /\ q \in Place /\ Within(c, q)
    BY <1>5, <1>7
  <2>3. rank[v] # rank[w]
    BY <1>4, <2>1, <2>2
  <2>4. ApartBut(SLACK, SLACK, p, q)
    BY <2>1, <2>2, <2>3 DEF LayoutFits, PlacesFit
  <2> HIDE DEF p, q
  <2>5. ApartBut(SLACK, SLACK, b, c)
    BY <2>1, <2>2, <2>4 DEF Place, Within, ApartBut, SLACK
  <2> QED BY <1>0, <2>1, <2>2, <2>5, AbsoluteApart
<1> QED BY <1>6, <1>7 DEF TilesApart, A

-----------------------------------------------------------------------------
(* Lists that a window enters and leaves                                     *)

\* What InsertAt leaves at each position.
LEMMA Inserted ==
  ASSUME NEW X, NEW s \in Seq(X), NEW i \in 1..(Len(s) + 1), NEW e \in X
  PROVE  /\ InsertAt(s, i, e) \in Seq(X)
         /\ Len(InsertAt(s, i, e)) = Len(s) + 1
         /\ \A j \in 1..(Len(s) + 1) :
              InsertAt(s, i, e)[j] = IF j < i THEN s[j] ELSE IF j = i THEN e ELSE s[j - 1]
<1> DEFINE h == SubSeq(s, 1, i - 1)
           t == SubSeq(s, i, Len(s))
<1>1. h \in Seq(X) /\ Len(h) = i - 1 /\ \A j \in 1..(i - 1) : h[j] = s[j]
  OBVIOUS
<1>2. t \in Seq(X) /\ Len(t) = Len(s) - i + 1 /\ \A j \in 1..(Len(s) - i + 1) : t[j] = s[i + j - 1]
  OBVIOUS
<1>3. InsertAt(s, i, e) = h \o <<e>> \o t
  BY DEF InsertAt
<1> DEFINE c == h \o <<e>>
<1> HIDE DEF h, t
<1>4. c \in Seq(X) /\ Len(c) = i /\ \A j \in 1..i : c[j] = IF j < i THEN s[j] ELSE e
  BY <1>1
<1> DEFINE r == c \o t
<1>5. InsertAt(s, i, e) = r
  BY <1>1, <1>2, <1>3
<1> HIDE DEF c
<1>6. r \in Seq(X) /\ Len(r) = Len(s) + 1
  <2>0. c \in Seq(X) /\ t \in Seq(X)
    BY <1>2, <1>4
  <2>1. r \in Seq(X)
    BY <2>0
  <2>2. Len(r) = Len(c) + Len(t)
    BY <2>0
  <2> HIDE DEF r
  <2> QED BY <2>1, <2>2, <1>2, <1>4
<1>7. \A j \in 1..(Len(s) + 1) : r[j] = IF j <= i THEN c[j] ELSE t[j - i]
  BY <1>2, <1>4
<1>8. ASSUME NEW j \in 1..(Len(s) + 1)
      PROVE  r[j] = IF j < i THEN s[j] ELSE IF j = i THEN e ELSE s[j - 1]
  <2> HIDE DEF r
  <2>1. CASE j <= i
    BY <1>4, <1>7, <2>1
  <2>2. CASE j > i
    <3>1. j - i \in 1..(Len(s) - i + 1) /\ i + (j - i) - 1 = j - 1 /\ ~(j <= i) /\ ~(j < i) /\ j # i
      BY <2>2
    <3>2. r[j] = t[j - i]
      BY <1>7, <3>1
    <3>3. t[j - i] = s[i + (j - i) - 1]
      BY <1>2, <3>1
    <3> QED BY <3>1, <3>2, <3>3
  <2> QED BY <2>1, <2>2
<1> HIDE DEF r
<1> QED BY <1>5, <1>6, <1>8

\* What RemoveAt leaves at each position.
LEMMA Removed ==
  ASSUME NEW X, NEW s \in Seq(X), NEW i \in 1..Len(s)
  PROVE  /\ RemoveAt(s, i) \in Seq(X)
         /\ Len(RemoveAt(s, i)) = Len(s) - 1
         /\ \A j \in 1..(Len(s) - 1) :
              RemoveAt(s, i)[j] = IF j < i THEN s[j] ELSE s[j + 1]
<1> DEFINE h == SubSeq(s, 1, i - 1)
           t == SubSeq(s, i + 1, Len(s))
<1>1. h \in Seq(X) /\ Len(h) = i - 1 /\ \A j \in 1..(i - 1) : h[j] = s[j]
  OBVIOUS
<1>2. t \in Seq(X) /\ Len(t) = Len(s) - i /\ \A j \in 1..(Len(s) - i) : t[j] = s[i + j]
  OBVIOUS
<1>3. RemoveAt(s, i) = h \o t
  BY DEF RemoveAt
<1> DEFINE r == h \o t
<1> HIDE DEF h, t
<1>4. r \in Seq(X) /\ Len(r) = Len(s) - 1
  <2>0. h \in Seq(X) /\ t \in Seq(X)
    BY <1>1, <1>2
  <2>1. r \in Seq(X)
    BY <2>0
  <2>2. Len(r) = Len(h) + Len(t)
    BY <2>0
  <2> HIDE DEF r
  <2> QED BY <2>1, <2>2, <1>1, <1>2
<1>5. \A j \in 1..(Len(s) - 1) : r[j] = IF j < i THEN h[j] ELSE t[j - (i - 1)]
  BY <1>1, <1>2
<1>6. ASSUME NEW j \in 1..(Len(s) - 1)
      PROVE  r[j] = IF j < i THEN s[j] ELSE s[j + 1]
  <2> HIDE DEF r
  <2>1. CASE j < i
    BY <1>1, <1>5, <2>1
  <2>2. CASE j >= i
    <3>1. j - (i - 1) \in 1..(Len(s) - i) /\ i + (j - (i - 1)) = j + 1 /\ ~(j < i)
      BY <2>2
    <3>2. r[j] = t[j - (i - 1)]
      BY <1>5, <3>1
    <3>3. t[j - (i - 1)] = s[i + (j - (i - 1))]
      BY <1>2, <3>1
    <3> QED BY <3>1, <3>2, <3>3
  <2> QED BY <2>1, <2>2
<1>7. RemoveAt(s, i) = r
  BY <1>3
<1> HIDE DEF r
<1> QED BY <1>4, <1>6, <1>7

\* A window that was not in the list enters it.
LEMMA InsertedList ==
  ASSUME NEW list, List(list), NEW i \in 1..(Len(list) + 1), NEW w \in Windows, w \notin ToSet(list)
  PROVE  /\ List(InsertAt(list, i, w))
         /\ ToSet(list) \subseteq ToSet(InsertAt(list, i, w))
<1> DEFINE s == InsertAt(list, i, w)
           n == Len(list)
<1>0. list \in Seq(Windows) /\ n \in Nat /\ DOMAIN list = 1..n
  BY DEF List
<1>1. /\ s \in Seq(Windows) /\ Len(s) = n + 1
      /\ \A j \in 1..(n + 1) : s[j] = IF j < i THEN list[j] ELSE IF j = i THEN w ELSE list[j - 1]
  <2>1. list \in Seq(Windows)
    BY DEF List
  <2> HIDE DEF s, n
  <2>2. /\ InsertAt(list, i, w) \in Seq(Windows) /\ Len(InsertAt(list, i, w)) = Len(list) + 1
        /\ \A j \in 1..(Len(list) + 1) :
             InsertAt(list, i, w)[j] = IF j < i THEN list[j] ELSE IF j = i THEN w ELSE list[j - 1]
    BY <2>1, Inserted
  <2> QED BY <2>2 DEF s, n
<1> HIDE DEF s
<1>2. DOMAIN s = 1..(n + 1)
  BY <1>0, <1>1
<1>3. \A j \in 1..n : list[j] # w
  BY <1>0 DEF ToSet
<1>4. \A j, k \in 1..n : list[j] = list[k] => j = k
  BY <1>0 DEF List, IsInjective
<1> HIDE DEF n
<1>i. i \in 1..(n + 1)
  BY DEF n
<1>5. ASSUME NEW j \in 1..(n + 1), NEW k \in 1..(n + 1), j < k PROVE s[j] # s[k]
  <2>1. k - 1 \in 1..n /\ j \in 1..n /\ (~(j < i) /\ j # i => j - 1 \in 1..n)
    BY <1>0, <1>5, <1>i
  <2>2. CASE k < i
    <3>1. s[j] = list[j] /\ s[k] = list[k] /\ k \in 1..n
      BY <1>0, <1>1, <1>5, <1>i, <2>2
    <3> QED BY <1>4, <1>5, <2>1, <3>1
  <2>3. CASE k = i
    BY <1>1, <1>3, <1>5, <1>i, <2>1, <2>3
  <2>4. CASE k > i
    <3>1. s[k] = list[k - 1]
      BY <1>1, <1>0, <1>i, <2>4
    <3>2. CASE j < i
      <4>1. j # k - 1
        BY <3>2, <2>4, <1>i
      <4> QED BY <1>1, <1>4, <2>1, <3>1, <3>2, <4>1
    <3>3. CASE j = i
      BY <1>1, <1>3, <2>1, <3>1, <3>3
    <3>4. CASE j > i
      <4>1. s[j] = list[j - 1] /\ j - 1 \in 1..n /\ j - 1 # k - 1
        BY <1>1, <1>0, <1>5, <1>i, <3>4
      <4> QED BY <1>4, <2>1, <3>1, <4>1
    <3> QED BY <1>i, <3>2, <3>3, <3>4
  <2> QED BY <1>i, <2>2, <2>3, <2>4
<1>6. \A j, k \in 1..(n + 1) : s[j] = s[k] => j = k
  BY <1>5, <1>0
<1>7. IsInjective(s)
  BY <1>2, <1>6 DEF IsInjective
<1>8. ASSUME NEW v \in ToSet(list) PROVE v \in ToSet(s)
  <2>1. PICK j \in 1..n : list[j] = v
    BY <1>0 DEF ToSet
  <2>2. CASE j < i
    BY <1>0, <1>1, <1>2, <2>1, <2>2 DEF ToSet
  <2>3. CASE j >= i
    <3>1. j + 1 \in 1..(n + 1) /\ ~(j + 1 < i) /\ j + 1 # i /\ (j + 1) - 1 = j
      BY <1>0, <1>i, <2>3
    <3>2. s[j + 1] = v
      BY <1>1, <2>1, <3>1
    <3> QED BY <1>2, <3>1, <3>2 DEF ToSet
  <2> QED BY <1>i, <2>2, <2>3
<1> QED BY <1>1, <1>7, <1>8 DEF List, s

\* A window leaves the list.
LEMMA RemovedList ==
  ASSUME NEW list, List(list), NEW w \in ToSet(list)
  PROVE  LET s == RemoveAt(list, CHOOSE i \in DOMAIN list : list[i] = w)
         IN  List(s) /\ ToSet(s) = ToSet(list) \ {w}
<1> DEFINE i == CHOOSE k \in DOMAIN list : list[k] = w
           s == RemoveAt(list, i)
           n == Len(list)
<1>0. list \in Seq(Windows) /\ n \in Nat /\ DOMAIN list = 1..n
  BY DEF List
<1>i. i \in 1..n /\ list[i] = w
  BY <1>0 DEF ToSet
<1> HIDE DEF i
<1>1. /\ s \in Seq(Windows) /\ Len(s) = n - 1
      /\ \A j \in 1..(n - 1) : s[j] = IF j < i THEN list[j] ELSE list[j + 1]
  BY <1>0, <1>i, Removed, Zenon
<1> HIDE DEF s
<1>2. DOMAIN s = 1..(n - 1)
  BY <1>0, <1>1
<1>4. \A j, k \in 1..n : list[j] = list[k] => j = k
  BY <1>0 DEF List, IsInjective
<1> HIDE DEF n
<1> DEFINE f(j) == IF j < i THEN j ELSE j + 1
<1>5. \A j \in 1..(n - 1) : f(j) \in 1..n /\ f(j) # i /\ s[j] = list[f(j)]
  BY <1>0, <1>1, <1>i
<1>6. \A j, k \in 1..(n - 1) : f(j) = f(k) => j = k
  BY <1>0, <1>i
<1>7. \A k \in (1..n) \ {i} : \E j \in 1..(n - 1) : f(j) = k
  <2> TAKE k \in (1..n) \ {i}
  <2>1. CASE k < i
    <3>1. k \in 1..(n - 1) /\ f(k) = k
      BY <1>0, <1>i, <2>1
    <3> QED BY <3>1
  <2>2. CASE k > i
    <3>1. k - 1 \in 1..(n - 1) /\ f(k - 1) = k
      BY <1>0, <1>i, <2>2
    <3> QED BY <3>1
  <2> QED BY <1>0, <1>i, <2>1, <2>2
<1> HIDE DEF f
<1>8. IsInjective(s)
  BY <1>2, <1>4, <1>5, <1>6 DEF IsInjective
<1>9. ToSet(s) \subseteq ToSet(list) \ {w}
  BY <1>0, <1>2, <1>4, <1>5, <1>i DEF ToSet
<1>10. ToSet(list) \ {w} \subseteq ToSet(s)
  <2> SUFFICES ASSUME NEW v \in ToSet(list) \ {w} PROVE v \in ToSet(s)
    OBVIOUS
  <2>1. PICK k \in 1..n : list[k] = v
    BY <1>0 DEF ToSet
  <2>2. k # i
    BY <1>i, <2>1
  <2>3. PICK j \in 1..(n - 1) : f(j) = k
    BY <1>7, <2>2
  <2> QED BY <1>2, <1>5, <2>1, <2>3 DEF ToSet
<1> QED BY <1>1, <1>8, <1>9, <1>10 DEF List, s, i

-----------------------------------------------------------------------------
(* The invariant                                                             *)

\* The inductive invariant of SceneAgrees and GeometrySound.
FramesInv == TypeOK /\ SceneAgrees /\ FloatingReachable

\* The invariants in the terms of the lemmas on arrange.
LEMMA Shows ==
  /\ SceneAgrees /\ FloatingReachable <=> Drawn(wins, order, area)
  /\ TiledApart <=> TilesApart(wins, order, area)
<1>1. SceneAgrees /\ FloatingReachable <=> Drawn(wins, order, area)
  BY DEF SceneAgrees, FloatingReachable, Drawn, Shown
<1>2. TiledApart <=> TilesApart(wins, order, area)
  BY DEF TiledApart, TilesApart, InArea, Shown
<1> QED BY <1>1, <1>2

\* The same after a step, which never changes the options.
LEMMA DrawnNext ==
  ASSUME setup' = setup
  PROVE  /\ Drawn(wins', order', area') => SceneAgrees' /\ FloatingReachable'
         /\ TilesApart(wins', order', area') => TiledApart'
<1>1. ASSUME NEW w \in ToSet(order'), Agrees(wins'[w], area', Len(order'))
      PROVE  Agrees(wins[w], area, Len(order))'
  BY <1>1 DEF Agrees, HiddenNow
<1>2. Drawn(wins', order', area') => SceneAgrees' /\ FloatingReachable'
  BY <1>1 DEF SceneAgrees, FloatingReachable, Drawn, Shown
<1>3. TilesApart(wins', order', area') => TiledApart'
  BY DEF TiledApart, TilesApart, InArea, Shown
<1> QED BY <1>2, <1>3

\* What TypeOK says in the terms of the lemmas above.
LEMMA TypeFacts ==
  ASSUME TypeOK
  PROVE  /\ setup \in Setups /\ List(order) /\ Area(area) /\ wins \in [Windows -> Window]
         /\ Shown \subseteq Windows /\ Len(order) \in Nat
<1>1. setup \in Setups /\ List(order) /\ Area(area) /\ wins \in [Windows -> Window]
  BY AreasTyped DEF TypeOK, List
<1> QED BY <1>1, ListTyped, ListFits DEF Shown

\* A step that ends in arrange establishes all, whatever the windows were before.
LEMMA Arranged ==
  ASSUME TypeOK, setup' = setup, NEW ws \in [Windows -> Window],
         List(order'), area' \in Areas, wins' = Arrange(ws, order', area'),
         cursor' \in Point, offset' \in Point, mode' \in {"normal", "move", "resize"},
         grab' \in ToSet(order') \cup {None}
  PROVE  FramesInv' /\ (LayoutFits => TiledApart')
<1>1. setup \in Setups /\ Area(area')
  BY TypeFacts, AreasTyped
<1>2. wins' \in [Windows -> Window] /\ Drawn(wins', order', area')
  BY <1>1, ArrangeDraws
<1>3. LayoutFits => TilesApart(wins', order', area')
  BY <1>1, ArrangeTiles
<1>4. TypeOK'
  BY <1>1, <1>2 DEF TypeOK, Shown, List
<1> QED BY <1>2, <1>3, <1>4, DrawnNext DEF FramesInv

\* One window of all is changed.
LEMMA OneChanged ==
  ASSUME NEW ws \in [Windows -> Window], NEW w \in Windows, NEW r \in Window
  PROVE  /\ [ws EXCEPT ![w] = r] \in [Windows -> Window]
         /\ [ws EXCEPT ![w] = r][w] = r
         /\ \A v \in Windows \ {w} : [ws EXCEPT ![w] = r][v] = ws[v]
OBVIOUS

\* A window with another box.
LEMMA Boxed ==
  ASSUME NEW q \in Window, NEW b \in Box
  PROVE  LET r == [q EXCEPT !.box = b]
         IN  /\ r \in Window /\ r.box = b
             /\ r.floating = q.floating /\ r.ratio = q.ratio /\ r.place = q.place /\ r.border = q.border
BY DEF Window

\* A window that floats, or no longer does, is one, and is bounded.
LEMMA SetFloatingTyped ==
  ASSUME setup \in Setups, NEW q \in Window, NEW f \in BOOLEAN, NEW a, Area(a), NEW n \in Nat
  PROVE  /\ PropertySetFloating(q, f, a, n) \in Window
         /\ PropertySetFloating(q, f, a, n).floating = f
         /\ f => PropertySetFloating(q, f, a, n).box = ApplyBounds(Absolute(q.place, a), a)
<1> DEFINE r == IF f THEN [q EXCEPT !.floating = TRUE, !.box = Absolute(q.place, a)]
                ELSE [q EXCEPT !.floating = FALSE]
<1>1. Absolute(q.place, a) \in Box
  BY AbsoluteTyped DEF Window
<1>2. r \in Window /\ r.floating = f /\ (f => r.box = Absolute(q.place, a))
  <2>1. CASE f
    <3>1. r = [q EXCEPT !.floating = TRUE, !.box = Absolute(q.place, a)]
      BY <2>1
    <3> HIDE DEF r
    <3> QED BY <1>1, <2>1, <3>1 DEF Window
  <2>2. CASE ~f
    <3>1. r = [q EXCEPT !.floating = FALSE]
      BY <2>2
    <3> HIDE DEF r
    <3> QED BY <2>2, <3>1 DEF Window
  <2> QED BY <2>1, <2>2
<1>3. PropertySetFloating(q, f, a, n) = UpdateSize(r, a, n)
  BY DEF PropertySetFloating
<1> HIDE DEF r
<1> QED BY <1>2, <1>3, UpdateSizeFacts

\* A window that is not shown.
LEMMA BlankTyped == Blank \in Window
BY DEF Blank, Window, NoBox, Box, Place

\* One window is put at a box, and the windows were drawn before.
LEMMA PutAtDraws ==
  ASSUME setup \in Setups, NEW ws \in [Windows -> Window], List(order), Area(area),
         Drawn(ws, order, area), NEW w \in ToSet(order), ws[w].floating, NEW g \in Box
  PROVE  /\ PutAt(ws, w, g) \in [Windows -> Window]
         /\ Drawn(PutAt(ws, w, g), order, area)
         /\ TilesApart(ws, order, area) => TilesApart(PutAt(ws, w, g), order, area)
         /\ PutAt(ws, w, g)[w].drawn.box = ApplyBounds(g, area)
<1> DEFINE o == [ws[w] EXCEPT !.border = setup.float]
           q == [o EXCEPT !.box = g]
           r == UpdateSize(q, area, Len(order))
           n == Len(order)
<1>1. w \in Windows /\ ws[w] \in Window /\ n \in Nat /\ setup.float \in Nat
  BY ListTyped, ListFits, SetupTyped
<1>2. ws[w].floating = TRUE
  BY <1>1 DEF Window
<1>3. o \in Window /\ o.border = setup.float /\ o.floating = TRUE
  BY <1>1, <1>2, Bordered
<1>4. [ws[w] EXCEPT !.box = g, !.border = setup.float] = q
  BY <1>1 DEF Window
<1> HIDE DEF o
<1>5. q \in Window /\ q.border = setup.float /\ q.floating = TRUE /\ q.box = g
  BY <1>3, Boxed
<1> HIDE DEF q
<1>6. PutAt(ws, w, g) = [ws EXCEPT ![w] = r]
  BY <1>1, <1>4 DEF PutAt
<1>7. /\ r \in Window /\ r.floating = TRUE /\ r.box = ApplyBounds(g, area) /\ Reaches(r.box, area)
      /\ r.drawn.box = Current(r, area)
  BY <1>1, <1>5, UpdateSizeFacts
<1>8. Agrees(r, area, n)
  BY <1>1, <1>5, UpdateSizeFacts
<1> HIDE DEF r
<1> DEFINE P == PutAt(ws, w, g)
<1>9. P \in [Windows -> Window] /\ P[w] = r /\ \A v \in Windows \ {w} : P[v] = ws[v]
  BY <1>1, <1>6, <1>7, OneChanged
<1> HIDE DEF P
<1>10. ToSet(order) \subseteq Windows
  BY ListTyped
<1>11. Drawn(P, order, area)
  BY <1>7, <1>8, <1>9, <1>10 DEF Drawn
<1>12. TilesApart(ws, order, area) => TilesApart(P, order, area)
  BY <1>7, <1>9, <1>10 DEF TilesApart
<1>13. P[w].drawn.box = ApplyBounds(g, area)
  BY <1>7, <1>9 DEF Current
<1> QED BY <1>9, <1>11, <1>12, <1>13 DEF P

\* The window that is dragged floats before it is put anywhere.
LEMMA FloatedDraws ==
  ASSUME FramesInv, NEW w \in Shown
  PROVE  /\ Floated(w) \in [Windows -> Window] /\ Floated(w)[w].floating
         /\ Drawn(Floated(w), order, area)
         /\ LayoutFits /\ TiledApart => TilesApart(Floated(w), order, area)
<1>1. /\ setup \in Setups /\ List(order) /\ Area(area) /\ wins \in [Windows -> Window]
      /\ w \in Windows /\ Len(order) \in Nat /\ area \in Areas
  BY TypeFacts DEF FramesInv, TypeOK
<1>2. CASE wins[w].floating
  <2>1. Floated(w) = wins
    BY <1>2 DEF Floated
  <2> QED BY <1>1, <1>2, <2>1, Shows DEF FramesInv
<1>3. CASE ~wins[w].floating
  <2> DEFINE r == SetFloating(wins[w], area, Len(order))
             ws == [wins EXCEPT ![w] = r]
  <2>1. Floated(w) = Arrange(ws, order, area)
    BY <1>1, <1>3 DEF Floated
  <2>2. r = PropertySetFloating(wins[w], TRUE, area, Len(order))
    BY <1>3 DEF SetFloating
  <2> HIDE DEF r
  <2>3. r \in Window /\ r.floating = TRUE
    BY <1>1, <2>2, SetFloatingTyped
  <2>4. ws \in [Windows -> Window] /\ ws[w] = r
    BY <1>1, <2>3, OneChanged
  <2> HIDE DEF ws
  <2> QED BY <1>1, <2>1, <2>3, <2>4, ArrangeDraws, ArrangeTiles
<1> QED BY <1>2, <1>3

\* What the pointer makes of a box is a box.
LEMMA MotionBoxes ==
  ASSUME TypeOK, NEW w \in Shown, NEW p \in Point
  PROVE  LET g == Current(wins[w], area)
         IN  /\ g \in Box
             /\ [g EXCEPT !.x = p.x - offset.x, !.y = p.y - offset.y] \in Box
             /\ [g EXCEPT !.width = p.x - g.x, !.height = p.y - g.y] \in Box
<1> DEFINE g == Current(wins[w], area)
<1>1. wins[w] \in Window /\ Area(area)
  BY TypeFacts
<1>2. g \in Box
  BY <1>1, AbsoluteTyped DEF Current, Window
<1> HIDE DEF g
<1>3. /\ p.x - offset.x \in Int /\ p.y - offset.y \in Int /\ p.x - g.x \in Int /\ p.y - g.y \in Int
  BY <1>2 DEF TypeOK, Point, Box
<1>4. [g EXCEPT !.x = p.x - offset.x, !.y = p.y - offset.y] \in Box
  BY <1>2, <1>3 DEF Box
<1>5. [g EXCEPT !.width = p.x - g.x, !.height = p.y - g.y] \in Box
  BY <1>2, <1>3 DEF Box
<1> QED BY <1>2, <1>4, <1>5 DEF g

-----------------------------------------------------------------------------
(* The steps                                                                 *)

\* Nothing is shown initially.
LEMMA FramesInit == Init => FramesInv /\ (LayoutFits => TiledApart)
<1> SUFFICES ASSUME Init PROVE FramesInv /\ TiledApart
  OBVIOUS
<1>1. order = <<>> /\ Shown = {}
  BY DEF Init, Shown, ToSet
<1>2. order \in Seq(Windows) /\ IsInjective(order)
  BY <1>1 DEF IsInjective
<1>3. wins \in [Windows -> Window]
  BY BlankTyped DEF Init
<1>4. cursor \in Point /\ offset \in Point
  BY SpotsAssumption DEF Init, Point
<1>5. TypeOK
  BY <1>2, <1>3, <1>4 DEF Init, TypeOK
<1>6. SceneAgrees /\ FloatingReachable /\ TiledApart
  BY <1>1 DEF SceneAgrees, FloatingReachable, TiledApart
<1> QED BY <1>5, <1>6 DEF FramesInv

\* A window is mapped.
LEMMA MapKeeps ==
  ASSUME FramesInv, NEW w \in Windows, Map(w)
  PROVE  FramesInv' /\ (LayoutFits => TiledApart')
<1>1. PICK i \in 1..(Len(order) + 1) : order' = InsertAt(order, i, w)
  BY DEF Map
<1>2. List(order') /\ ToSet(order) \subseteq ToSet(order')
  BY <1>1, TypeFacts, InsertedList DEF FramesInv, Map
<1> QED BY <1>2, TypeFacts, Arranged DEF Map, FramesInv, TypeOK, Shown

\* A window is closed.
LEMMA CloseKeeps ==
  ASSUME FramesInv, NEW w \in Windows, Close(w)
  PROVE  FramesInv' /\ (LayoutFits => TiledApart')
<1>1. List(order') /\ ToSet(order') = ToSet(order) \ {w}
  BY TypeFacts, RemovedList DEF FramesInv, Close
<1> DEFINE ws == [wins EXCEPT ![w] = Blank]
<1>2. ws \in [Windows -> Window]
  BY TypeFacts, BlankTyped, OneChanged DEF FramesInv
<1>3. wins' = Arrange(ws, order', area')
  BY DEF Close
<1>4. grab' \in ToSet(order') \cup {None}
  BY <1>1 DEF Close, FramesInv, TypeOK, Shown
<1> HIDE DEF ws
<1> QED BY <1>1, <1>2, <1>3, <1>4, Arranged DEF Close, FramesInv, TypeOK

\* A window floats, or no longer does.
LEMMA ToggleFloatingKeeps ==
  ASSUME FramesInv, NEW w \in Windows, ToggleFloating(w)
  PROVE  FramesInv' /\ (LayoutFits => TiledApart')
<1> DEFINE r == PropertySetFloating(wins[w], ~wins[w].floating, area, Len(order))
           ws == [wins EXCEPT ![w] = r]
<1>1. /\ setup \in Setups /\ List(order) /\ Area(area) /\ wins \in [Windows -> Window]
      /\ Len(order) \in Nat
  BY TypeFacts DEF FramesInv
<1>2. wins[w] \in Window /\ (~wins[w].floating) \in BOOLEAN
  BY <1>1
<1>3. r \in Window
  BY <1>1, <1>2, SetFloatingTyped
<1>4. wins' = Arrange(ws, order', area')
  BY <1>1 DEF ToggleFloating
<1> HIDE DEF r
<1>5. ws \in [Windows -> Window]
  BY <1>1, <1>3, OneChanged
<1> HIDE DEF ws
<1> QED BY <1>1, <1>4, <1>5, Arranged DEF ToggleFloating, FramesInv, TypeOK, Shown

\* A script sets a geometry.
LEMMA SetGeomKeeps ==
  ASSUME FramesInv, NEW w \in Shown, NEW b \in Boxes, SetGeom(w, b)
  PROVE  FramesInv' /\ (LayoutFits => TiledApart')
<1> DEFINE r == [wins[w] EXCEPT !.box = b]
           ws == [wins EXCEPT ![w] = r]
<1>1. /\ setup \in Setups /\ List(order) /\ Area(area) /\ wins \in [Windows -> Window]
      /\ w \in Windows
  BY TypeFacts DEF FramesInv
<1>2. wins[w] \in Window /\ b \in Box
  BY <1>1, BoxesAssumption
<1>3. r \in Window
  BY <1>2, Boxed
<1>4. wins' = Arrange(ws, order', area')
  BY <1>1 DEF SetGeom
<1> HIDE DEF r
<1>5. ws \in [Windows -> Window]
  BY <1>1, <1>3, OneChanged
<1> HIDE DEF ws
<1> QED BY <1>1, <1>4, <1>5, Arranged DEF SetGeom, FramesInv, TypeOK, Shown

\* A bar takes room or gives it back.
LEMMA SetRootGeomKeeps ==
  ASSUME FramesInv, NEW a \in Areas, SetRootGeom(a)
  PROVE  FramesInv' /\ (LayoutFits => TiledApart')
BY TypeFacts, Arranged DEF SetRootGeom, FramesInv, TypeOK, Shown

\* A script sets a ratio, after which nothing is arranged.
LEMMA SetRatioKeeps ==
  ASSUME FramesInv, NEW w \in Shown, NEW q \in Ratios, SetRatio(w, q)
  PROVE  FramesInv' /\ (TiledApart => TiledApart')
<1> DEFINE r == [wins[w] EXCEPT !.ratio = q]
<1>1. /\ setup \in Setups /\ List(order) /\ Area(area) /\ wins \in [Windows -> Window]
      /\ w \in Windows /\ Shown \subseteq Windows
  BY TypeFacts DEF FramesInv
<1>2. wins[w] \in Window /\ q \in Nat \X (Nat \ {0})
  BY <1>1, RatiosAssumption
<1>3. /\ r \in Window /\ r.floating = wins[w].floating /\ r.box = wins[w].box
      /\ r.place = wins[w].place /\ r.drawn = wins[w].drawn /\ r.edges = wins[w].edges
  BY <1>2 DEF Window
<1>4. wins' = [wins EXCEPT ![w] = r]
  BY <1>1 DEF SetRatio
<1> HIDE DEF r
<1>5. wins' \in [Windows -> Window] /\ wins'[w] = r /\ \A v \in Windows \ {w} : wins'[v] = wins[v]
  BY <1>1, <1>3, <1>4, OneChanged
<1>6. \A v \in Windows :
        /\ wins'[v].floating = wins[v].floating /\ wins'[v].box = wins[v].box
        /\ wins'[v].place = wins[v].place /\ wins'[v].drawn = wins[v].drawn
        /\ wins'[v].edges = wins[v].edges
  BY <1>3, <1>5
<1>7. setup' = setup /\ order' = order /\ area' = area
  BY DEF SetRatio
<1>8. ASSUME NEW v \in Windows, NEW n, Agrees(wins[v], area, n) PROVE Agrees(wins'[v], area, n)
  BY <1>6, <1>8 DEF Agrees, Current
<1>9. Drawn(wins', order', area')
  <2>1. Drawn(wins, order, area)
    BY Shows DEF FramesInv
  <2> QED BY <1>1, <1>6, <1>7, <1>8, <2>1 DEF Drawn, Shown
<1>10. TilesApart(wins, order, area) => TilesApart(wins', order', area')
  BY <1>1, <1>6, <1>7 DEF TilesApart, Shown
<1>11. TypeOK'
  BY <1>5 DEF SetRatio, FramesInv, TypeOK, Shown
<1> QED BY <1>7, <1>9, <1>10, <1>11, Shows, DrawnNext DEF FramesInv

\* What Grab does to the window it takes.
LEMMA Grabbed ==
  ASSUME FramesInv, NEW w \in Shown
  PROVE  LET r == SetFloating(wins[w], area, Len(order))
             ws == [wins EXCEPT ![w] = r]
             c == Arrange(ws, order, area)[w].drawn.box
         IN  /\ r \in Window /\ ws \in [Windows -> Window]
             /\ c = ApplyBounds(wins[w].drawn.box, area)
<1> DEFINE r == SetFloating(wins[w], area, Len(order))
           ws == [wins EXCEPT ![w] = r]
           c == Arrange(ws, order, area)[w]
           b == wins[w].drawn.box
<1>1. /\ setup \in Setups /\ List(order) /\ Area(area) /\ wins \in [Windows -> Window]
      /\ w \in Windows /\ Len(order) \in Nat /\ wins[w] \in Window
  BY TypeFacts DEF FramesInv
<1>2. b = Current(wins[w], area) /\ (wins[w].floating => Reaches(wins[w].box, area))
  BY DEF FramesInv, SceneAgrees, FloatingReachable, Agrees
<1>3. area \in Box /\ area.width > 0 /\ area.height > 0
  BY <1>1 DEF Area
<1>4. b \in Box
  BY <1>1 DEF Window
<1>5. r \in Window /\ r.floating = TRUE /\ r.box = ApplyBounds(b, area)
  <2>1. CASE wins[w].floating
    <3>1. r = wins[w]
      BY <2>1 DEF SetFloating
    <3> HIDE DEF r
    <3>2. b = wins[w].box
      BY <1>2, <2>1 DEF Current
    <3>3. ApplyBounds(b, area) = b
      BY <1>2, <1>3, <1>4, <2>1, <3>2, BoundsStable
    <3> QED BY <1>1, <2>1, <3>1, <3>2, <3>3 DEF Window
  <2>2. CASE ~wins[w].floating
    <3>1. r = PropertySetFloating(wins[w], TRUE, area, Len(order))
      BY <2>2 DEF SetFloating
    <3>2. b = Absolute(wins[w].place, area)
      BY <1>2, <2>2 DEF Current
    <3> HIDE DEF r, b
    <3> QED BY <1>1, <3>1, <3>2, SetFloatingTyped
  <2> QED BY <2>1, <2>2
<1> HIDE DEF r, b
<1>6. ws \in [Windows -> Window] /\ ws[w] = r
  BY <1>1, <1>5, OneChanged
<1>7. ApplyBounds(r.box, area) = r.box
  BY <1>3, <1>4, <1>5, BoundsReach, BoundsStable
<1> HIDE DEF ws
<1>8. c.floating = TRUE /\ c.drawn.box = Current(c, area) /\ c.box = ApplyBounds(r.box, area)
  BY <1>1, <1>5, <1>6, ArrangeOne DEF Shown
<1>9. c.drawn.box = ApplyBounds(b, area)
  BY <1>5, <1>7, <1>8 DEF Current
<1> QED BY <1>5, <1>6, <1>9 DEF r, ws, b

\* A window is taken, or none is under the pointer.
LEMMA GrabKeeps ==
  ASSUME FramesInv, NEW m \in {"move", "resize"}, Grab(m)
  PROVE  FramesInv' /\ (LayoutFits /\ TiledApart => TiledApart')
<1>1. PICK w \in UnderCursor :
    /\ grab' = w
    /\ IF w = None THEN UNCHANGED <<wins, cursor, mode, offset>>
       ELSE LET r == SetFloating(wins[w], area, Len(order)) IN
            /\ mode' = m
            /\ offset' = IF m = "move" THEN [x |-> cursor.x - r.box.x, y |-> cursor.y - r.box.y]
                         ELSE offset
            /\ cursor' = IF m = "move" THEN cursor
                         ELSE Closest([x |-> r.box.x + r.box.width, y |-> r.box.y + r.box.height])
            /\ wins' = Arrange([wins EXCEPT ![w] = r], order, area)
    /\ UNCHANGED <<setup, area, order>>
  BY DEF Grab
<1>2. w \in Shown \cup {None}
  BY DEF UnderCursor, Shown
<1>3. CASE w = None
  <2>1. setup' = setup /\ order' = order /\ area' = area /\ wins' = wins
    BY <1>1, <1>3
  <2>2. TypeOK'
    BY <1>1, <1>2, <1>3 DEF FramesInv, TypeOK, Shown
  <2> QED BY <2>1, <2>2, Shows, DrawnNext DEF FramesInv
<1>4. CASE w # None
  <2> DEFINE r == SetFloating(wins[w], area, Len(order))
             ws == [wins EXCEPT ![w] = r]
  <2>1. w \in Shown
    BY <1>2, <1>4
  <2>2. r \in Window /\ ws \in [Windows -> Window]
    BY <2>1, Grabbed
  <2>3. /\ mode' = m
        /\ offset' = IF m = "move" THEN [x |-> cursor.x - r.box.x, y |-> cursor.y - r.box.y]
                     ELSE offset
        /\ cursor' = IF m = "move" THEN cursor
                     ELSE Closest([x |-> r.box.x + r.box.width, y |-> r.box.y + r.box.height])
        /\ wins' = Arrange(ws, order', area')
    BY <1>1, <1>4
  <2> HIDE DEF r, ws
  <2>4. r.box.x \in Int /\ r.box.y \in Int /\ r.box.width \in Int /\ r.box.height \in Int
    BY <2>2 DEF Window, Box
  <2>5. cursor \in Point /\ offset \in Point /\ cursor.x \in Int /\ cursor.y \in Int
    BY DEF FramesInv, TypeOK, Point
  <2>6. offset' \in Point
    BY <2>3, <2>4, <2>5 DEF Point
  <2>7. cursor' \in Point
    BY <2>3, <2>4, <2>5, BoxesAssumption DEF Point, Closest, Box, MAX, MIN
  <2>8. TypeOK /\ List(order') /\ setup' = setup /\ area' \in Areas /\ grab' \in ToSet(order') \cup {None}
    BY <1>1, <2>1, TypeFacts DEF FramesInv, TypeOK, Shown
  <2>9. mode' \in {"normal", "move", "resize"}
    BY <2>3
  <2> QED BY <2>2, <2>3, <2>6, <2>7, <2>8, <2>9, Arranged
<1> QED BY <1>3, <1>4

\* The pointer moves.
LEMMA MotionKeeps ==
  ASSUME FramesInv, NEW p \in Spots, Motion(p)
  PROVE  FramesInv' /\ (LayoutFits /\ TiledApart => TiledApart')
<1>1. /\ setup \in Setups /\ List(order) /\ Area(area) /\ wins \in [Windows -> Window]
  BY TypeFacts DEF FramesInv
<1>2. setup' = setup /\ order' = order /\ area' = area /\ p \in Point
  BY SpotsAssumption DEF Motion
<1>3. \/ wins' = wins
      \/ grab \in Shown /\ \E g \in Box : wins' = PutAt(Floated(grab), grab, g)
  <2>1. CASE grab = None \/ mode = "normal"
    BY <2>1 DEF Motion
  <2>2. CASE grab # None /\ mode = "move"
    <3>1. wins' = MoveContainer(grab, p) /\ grab \in Shown
      BY <2>2 DEF Motion, FramesInv, TypeOK
    <3> QED BY <1>2, <3>1, MotionBoxes DEF MoveContainer, FramesInv
  <2>3. CASE grab # None /\ mode = "resize"
    <3>1. wins' = ResizeContainer(grab, p) /\ grab \in Shown
      BY <2>3 DEF Motion, FramesInv, TypeOK
    <3> QED BY <1>2, <3>1, MotionBoxes DEF ResizeContainer, FramesInv
  <2> QED BY <2>1, <2>2, <2>3 DEF FramesInv, TypeOK
<1>4. /\ wins' \in [Windows -> Window] /\ Drawn(wins', order, area)
      /\ LayoutFits /\ TiledApart => TilesApart(wins', order, area)
  <2>1. CASE wins' = wins
    BY <1>1, <2>1, Shows DEF FramesInv
  <2>2. CASE grab \in Shown /\ \E g \in Box : wins' = PutAt(Floated(grab), grab, g)
    <3>1. PICK g \in Box : wins' = PutAt(Floated(grab), grab, g)
      BY <2>2
    <3> DEFINE ws == Floated(grab)
    <3>2. /\ ws \in [Windows -> Window] /\ ws[grab].floating /\ Drawn(ws, order, area)
          /\ LayoutFits /\ TiledApart => TilesApart(ws, order, area)
      BY <2>2, FloatedDraws
    <3>3. grab \in ToSet(order)
      BY <2>2 DEF Shown
    <3> HIDE DEF ws
    <3> QED BY <1>1, <3>1, <3>2, <3>3, PutAtDraws DEF ws
  <2> QED BY <1>3, <2>1, <2>2
<1>5. TypeOK'
  BY <1>2, <1>4 DEF Motion, FramesInv, TypeOK, Shown
<1> QED BY <1>2, <1>4, <1>5, DrawnNext DEF FramesInv

\* Every step keeps the invariant, and the tiled windows apart.
LEMMA FramesStep ==
  ASSUME FramesInv, [Next]_vars
  PROVE  FramesInv' /\ (LayoutFits /\ TiledApart => TiledApart')
<1>0. setup.windows \subseteq Windows
  BY SetupTyped DEF FramesInv, TypeOK
<1>1. ASSUME NEW w \in setup.windows, Map(w) \/ Close(w) \/ ToggleFloating(w)
      PROVE  FramesInv' /\ (LayoutFits /\ TiledApart => TiledApart')
  BY <1>0, <1>1, MapKeeps, CloseKeeps, ToggleFloatingKeeps
<1>2. ASSUME NEW w \in Shown, NEW b \in Boxes, SetGeom(w, b)
      PROVE  FramesInv' /\ (LayoutFits /\ TiledApart => TiledApart')
  BY <1>2, SetGeomKeeps
<1>3. ASSUME NEW w \in Shown, NEW r \in Ratios, SetRatio(w, r)
      PROVE  FramesInv' /\ (LayoutFits /\ TiledApart => TiledApart')
  BY <1>3, SetRatioKeeps
<1>4. ASSUME NEW a \in Areas, SetRootGeom(a)
      PROVE  FramesInv' /\ (LayoutFits /\ TiledApart => TiledApart')
  BY <1>4, SetRootGeomKeeps
<1>5. ASSUME NEW m \in {"move", "resize"}, Grab(m)
      PROVE  FramesInv' /\ (LayoutFits /\ TiledApart => TiledApart')
  BY <1>5, GrabKeeps
<1>6. ASSUME NEW p \in Spots, Motion(p)
      PROVE  FramesInv' /\ (LayoutFits /\ TiledApart => TiledApart')
  BY <1>6, MotionKeeps
<1>7. CASE Release \/ UNCHANGED vars
  <2>1. setup' = setup /\ order' = order /\ area' = area /\ wins' = wins
    BY <1>7 DEF Release, vars
  <2>2. TypeOK'
    BY <1>7 DEF Release, vars, FramesInv, TypeOK, Shown
  <2> QED BY <2>1, <2>2, Shows, DrawnNext DEF FramesInv
<1> QED BY <1>1, <1>2, <1>3, <1>4, <1>5, <1>6, <1>7 DEF Next

\* The inductive invariant holds.
LEMMA FramesInvariant == Spec => []FramesInv
<1>1. Init => FramesInv
  BY FramesInit
<1>2. FramesInv /\ [Next]_vars => FramesInv'
  BY FramesStep
<1> QED BY <1>1, <1>2, PTL DEF Spec

\* What is drawn of a shown window agrees with its geometry, border, edges and the
\* area: nothing changes one of these without container_update_size for all the
\* windows that this concerns.
THEOREM SceneAlwaysAgrees == Spec => []SceneAgrees
<1>1. FramesInv => SceneAgrees
  BY DEF FramesInv
<1> QED BY <1>1, FramesInvariant, PTL

\* Geometries stay boxes, what is grabbed is shown (unmap_notify), and a floating
\* window reaches into the area with a size that can be grabbed (apply_bounds).
THEOREM GeometryAlwaysSound == Spec => []GeometrySound
<1>1. FramesInv => GeometrySound
  BY DEF FramesInv, GeometrySound
<1> QED BY <1>1, FramesInvariant, PTL

\* In a layout whose places are apart, tiled windows overlap by one pixel at most and
\* lie in the area, whatever the ratios and the gaps are and however often single
\* precision rounds (get_absolute_box, container_surround_gaps,
\* container_set_tiled_geom).  Where the area lies on the left of the origin or above
\* it, truncation rounds up, and it may be one pixel more.
THEOREM TiledAlwaysApart == ASSUME PlacesFit, AreasFit PROVE Spec => []TiledApart
<1>1. Init => FramesInv /\ TiledApart
  BY FramesInit DEF LayoutFits
<1>2. FramesInv /\ TiledApart /\ [Next]_vars => FramesInv' /\ TiledApart'
  BY FramesStep DEF LayoutFits
<1> QED BY <1>1, <1>2, PTL DEF Spec

\* Bounding leaves a corner where it is if the box still reaches into the area there.
LEMMA CornerStays ==
  ASSUME NEW g \in Box, NEW a \in Box,
         Reaches([ApplyBounds(g, a) EXCEPT !.x = g.x, !.y = g.y], a)
  PROVE  ApplyBounds(g, a).x = g.x /\ ApplyBounds(g, a).y = g.y
<1> DEFINE c == ApplyBounds(g, a)
           d == [c EXCEPT !.x = g.x, !.y = g.y]
<1>1. /\ g.x \in Int /\ g.y \in Int /\ a.x \in Int /\ a.y \in Int /\ a.width \in Int /\ a.height \in Int
      /\ c.width \in Int /\ c.height \in Int
      /\ c.x = Moved(g.x, c.width, a.x, a.width) /\ c.y = Moved(g.y, c.height, a.y, a.height)
  BY SizeBounded DEF Box
<1>2. d.x = g.x /\ d.y = g.y /\ d.width = c.width /\ d.height = c.height
  BY DEF ApplyBounds
<1> HIDE DEF c, d
<1>3. Reaches(d, a)
  BY DEF c, d
<1>4. g.x < a.x + a.width /\ a.x < g.x + c.width /\ g.y < a.y + a.height /\ a.y < g.y + c.height
  BY <1>2, <1>3 DEF Reaches
<1>5. c.x = g.x /\ c.y = g.y
  BY <1>1, <1>4, MovedOnce
<1> QED BY <1>5 DEF c

\* The action of DragIsRigid, for one window.
Rigid(w) ==
  grab = w /\ grab' = w /\ mode' = mode /\ cursor' # cursor /\ mode # "normal" =>
       LET b == wins[w].drawn.box
           c == wins'[w].drawn.box
       IN  IF mode = "move"
           THEN c.width = MAX(b.width, MIN_CONTAINER_WIDTH)
                /\ c.height = MAX(b.height, MIN_CONTAINER_HEIGHT)
           ELSE Reaches([c EXCEPT !.x = b.x, !.y = b.y], area) => c.x = b.x /\ c.y = b.y

\* The pointer moves a window rigidly.
LEMMA MotionRigid ==
  ASSUME FramesInv, NEW p \in Spots, Motion(p), NEW w \in Shown PROVE Rigid(w)
<1> SUFFICES ASSUME grab = w, mode # "normal" PROVE Rigid(w)
  BY DEF Rigid
<1> DEFINE b == wins[w].drawn.box
           c == wins'[w].drawn.box
<1>1. /\ setup \in Setups /\ List(order) /\ Area(area) /\ wins \in [Windows -> Window]
      /\ w \in Windows /\ wins[w] \in Window /\ w # None
  BY TypeFacts, WindowsAssumption DEF FramesInv
<1>2. b = Current(wins[w], area)
  BY DEF FramesInv, SceneAgrees, Agrees
<1>3. area \in Box /\ b \in Box /\ p \in Point
  BY <1>1, SpotsAssumption DEF Area, Window
<1>4. ASSUME NEW g \in Box, wins' = PutAt(Floated(w), w, g) PROVE c = ApplyBounds(g, area)
  <2> DEFINE ws == Floated(w)
  <2>1. ws \in [Windows -> Window] /\ ws[w].floating /\ Drawn(ws, order, area)
    BY FloatedDraws
  <2>2. w \in ToSet(order)
    BY DEF Shown
  <2> HIDE DEF ws
  <2> QED BY <1>1, <1>4, <2>1, <2>2, PutAtDraws DEF ws
<1> HIDE DEF c
<1>5. CASE mode = "move"
  <2> DEFINE g == [b EXCEPT !.x = p.x - offset.x, !.y = p.y - offset.y]
  <2>1. wins' = PutAt(Floated(w), w, g)
    BY <1>1, <1>2, <1>5 DEF Motion, MoveContainer
  <2>2. g \in Box
    BY <1>2, <1>3, MotionBoxes DEF FramesInv
  <2>3. g.width = b.width /\ g.height = b.height
    BY <1>3 DEF Box
  <2> HIDE DEF g
  <2>4. c.width = MAX(MIN_CONTAINER_WIDTH, b.width) /\ c.height = MAX(MIN_CONTAINER_HEIGHT, b.height)
    BY <1>4, <2>1, <2>2, <2>3 DEF ApplyBounds
  <2>5. b.width \in Int /\ b.height \in Int
    BY <1>3 DEF Box
  <2> HIDE DEF b
  <2>6. /\ c.width = MAX(b.width, MIN_CONTAINER_WIDTH)
        /\ c.height = MAX(b.height, MIN_CONTAINER_HEIGHT)
    BY <2>4, <2>5 DEF MAX, MIN_CONTAINER_WIDTH, MIN_CONTAINER_HEIGHT
  <2> QED BY <1>5, <2>6 DEF Rigid, b, c
<1>6. CASE mode = "resize"
  <2> DEFINE g == [b EXCEPT !.width = p.x - b.x, !.height = p.y - b.y]
  <2>1. wins' = PutAt(Floated(w), w, g)
    BY <1>1, <1>2, <1>6 DEF Motion, ResizeContainer
  <2>2. g \in Box
    BY <1>2, <1>3, MotionBoxes DEF FramesInv
  <2>3. g.x = b.x /\ g.y = b.y
    BY <1>3 DEF Box
  <2> HIDE DEF g, b
  <2>4. c = ApplyBounds(g, area)
    BY <1>4, <2>1, <2>2
  <2>5. Reaches([c EXCEPT !.x = b.x, !.y = b.y], area) => c.x = b.x /\ c.y = b.y
    BY <1>3, <2>2, <2>3, <2>4, CornerStays
  <2> QED BY <1>6, <2>5 DEF Rigid, b, c
<1> QED BY <1>5, <1>6 DEF FramesInv, TypeOK

\* A window that is taken again, which warps the cursor, keeps its corner.
LEMMA GrabRigid ==
  ASSUME FramesInv, NEW m \in {"move", "resize"}, Grab(m), NEW w \in Shown PROVE Rigid(w)
<1> SUFFICES ASSUME grab' = w, mode' = mode, cursor' # cursor PROVE Rigid(w)
  BY DEF Rigid
<1> DEFINE b == wins[w].drawn.box
           c == wins'[w].drawn.box
<1>1. wins[w] \in Window /\ w # None /\ area \in Box
  BY TypeFacts, WindowsAssumption DEF FramesInv, Area
<1>2. /\ mode = "resize"
      /\ wins' = Arrange([wins EXCEPT ![w] = SetFloating(wins[w], area, Len(order))], order, area)
  BY <1>1 DEF Grab
<1>3. c = ApplyBounds(b, area)
  BY <1>2, Grabbed
<1>4. b \in Box
  BY <1>1 DEF Window
<1> HIDE DEF b, c
<1>5. Reaches([c EXCEPT !.x = b.x, !.y = b.y], area) => c.x = b.x /\ c.y = b.y
  BY <1>1, <1>3, <1>4, CornerStays
<1> QED BY <1>2, <1>5 DEF Rigid, b, c

\* Nothing else moves the cursor.
LEMMA RigidStep ==
  ASSUME FramesInv, Next, NEW w \in Shown PROVE Rigid(w)
<1>1. ASSUME NEW m \in {"move", "resize"}, Grab(m) PROVE Rigid(w)
  BY <1>1, GrabRigid
<1>2. ASSUME NEW p \in Spots, Motion(p) PROVE Rigid(w)
  BY <1>2, MotionRigid
<1>3. CASE cursor' = cursor
  BY <1>3 DEF Rigid
<1>4. \/ \E m \in {"move", "resize"} : Grab(m)
      \/ \E p \in Spots : Motion(p)
      \/ cursor' = cursor
  BY DEF Next, Map, Close, ToggleFloating, SetGeom, SetRatio, SetRootGeom, Release
<1> QED BY <1>1, <1>2, <1>3, <1>4

\* A window that is moved keeps its size and one that is resized its corner, also
\* when it was tiled in between (move_container, resize_container).
THEOREM DragAlwaysRigid == Spec => DragIsRigid
<1>1. FramesInv /\ [Next]_vars => [\A w \in Shown : Rigid(w)]_vars
  BY RigidStep
<1>2. [][\A w \in Shown : Rigid(w)]_vars => DragIsRigid
  <2>1. [\A w \in Shown : Rigid(w)]_vars =>
      [\A w \in Shown : grab = w /\ grab' = w /\ mode' = mode /\ cursor' # cursor /\ mode # "normal" =>
       LET b == wins[w].drawn.box
           c == wins'[w].drawn.box
       IN  IF mode = "move"
           THEN c.width = MAX(b.width, MIN_CONTAINER_WIDTH)
                /\ c.height = MAX(b.height, MIN_CONTAINER_HEIGHT)
           ELSE Reaches([c EXCEPT !.x = b.x, !.y = b.y], area) => c.x = b.x /\ c.y = b.y]_vars
    BY DEF Rigid
  <2> QED BY <2>1, PTL DEF DragIsRigid
<1> QED BY <1>1, <1>2, FramesInvariant, PTL DEF Spec
=============================================================================
