--------------------------- MODULE JapokmsgProofs ---------------------------
(***************************************************************************)
(* Proofs about module Japokmsg, for any number of clients, any requests,  *)
(* any size of the buffers and of the sockets.  First what Whole returns,  *)
(* then the streams that can be read, what handling a request sends, the   *)
(* invariant of one connection (Sound) and that every action keeps it;     *)
(* last, that what module IpcPromise sees of every step is a step of it.   *)
(***************************************************************************)
EXTENDS Japokmsg, SequenceTheorems, NaturalsInduction, WellFoundedInduction, TLAPS

\* Induction on the natural numbers, for a set of them.
LEMMA NaturalsInduct ==
  ASSUME NEW S, 0 \in S, \A n \in Nat : n \in S => n + 1 \in S
  PROVE  Nat \subseteq S
<1> SUFFICES ASSUME NEW n \in Nat, n \notin S PROVE FALSE
  OBVIOUS
<1> DEFINE T == {k \in Nat : k \notin S}
<1>1. PICK x \in T : \A y \in T : ~ (<<y, x>> \in OpToRel(<, Nat))
  BY NatLessThanWellFounded, WFMin
<1>2. \A y \in T : ~(y < x)
  BY <1>1, Zenon DEF OpToRel
<1>3. x # 0 /\ x - 1 \in Nat /\ x - 1 < x
  OBVIOUS
<1> QED BY <1>2, <1>3

\* The messages of each part up to the one that f is called with.
Reads(f, parts) ==
  f = [n \in 0..Len(parts) |->
        IF n = 0 THEN <<>>
        ELSE IF IsLast(parts[n]) THEN Append(f[n - 1], parts[n].msg) ELSE f[n - 1]]

\* Two such functions agree as long as the parts do.
LEMMA ReadsAgree ==
  ASSUME NEW X, NEW s \in Seq(X), NEW t \in Seq(X), NEW k \in Nat, k <= Len(s), k <= Len(t),
         \A i \in 1..k : s[i] = t[i],
         NEW f, NEW g, Reads(f, s), Reads(g, t)
  PROVE  f[k] = g[k]
<1> DEFINE S == {n \in Nat : n <= k => f[n] = g[n]}
<1>0. /\ \A n \in 0..Len(s) : f[n] = IF n = 0 THEN <<>>
           ELSE IF IsLast(s[n]) THEN Append(f[n - 1], s[n].msg) ELSE f[n - 1]
      /\ \A n \in 0..Len(t) : g[n] = IF n = 0 THEN <<>>
           ELSE IF IsLast(t[n]) THEN Append(g[n - 1], t[n].msg) ELSE g[n - 1]
  BY Zenon DEF Reads
<1>1. 0 \in S
  BY <1>0
<1>2. ASSUME NEW n \in Nat, n \in S PROVE n + 1 \in S
  <2> SUFFICES ASSUME n + 1 <= k PROVE f[n + 1] = g[n + 1]
    OBVIOUS
  <2>1. n + 1 \in 0..Len(s) /\ n + 1 \in 0..Len(t) /\ n + 1 \in 1..k /\ n + 1 # 0 /\ (n + 1) - 1 = n
    OBVIOUS
  <2>2. f[n] = g[n]
    BY <1>2
  <2>3. s[n + 1] = t[n + 1]
    BY <2>1
  <2> QED BY <1>0, <2>1, <2>2, <2>3
<1>3. Nat \subseteq S
  <2> HIDE DEF S
  <2> QED BY <1>1, <1>2, NaturalsInduct
<1> QED BY <1>3

\* f reads the first n parts.
ReadsTo(n, f, parts) ==
  \A i \in 0..n :
    f[i] = IF i = 0 THEN <<>>
           ELSE IF IsLast(parts[i]) THEN Append(f[i - 1], parts[i].msg) ELSE f[i - 1]

\* What reads n parts can be made to read one more.
LEMMA ReadsMore ==
  ASSUME NEW M, NEW parts \in Seq(PartOf(M)), NEW n \in Nat, n + 1 <= Len(parts),
         NEW f \in [0..n -> Seq(M)], ReadsTo(n, f, parts)
  PROVE  \E g \in [0..(n + 1) -> Seq(M)] : ReadsTo(n + 1, g, parts)
<1> DEFINE
      e == IF IsLast(parts[n + 1]) THEN Append(f[n], parts[n + 1].msg) ELSE f[n]
      g == [i \in 0..(n + 1) |-> IF i = n + 1 THEN e ELSE f[i]]
<1>1. n + 1 \in 1..Len(parts) /\ n \in 0..n
  OBVIOUS
<1>2. parts[n + 1] \in PartOf(M) /\ parts[n + 1].msg \in M
  <2>1. parts[n + 1] \in PartOf(M)
    BY <1>1
  <2> DEFINE p == parts[n + 1]
  <2> HIDE DEF p
  <2>2. p \in PartOf(M)
    BY <2>1 DEF p
  <2>3. p.msg \in M
    BY <2>2 DEF PartOf
  <2> QED BY <2>1, <2>3 DEF p
<1>3. e \in Seq(M)
  <2>1. f[n] \in Seq(M)
    BY <1>1
  <2>2. Append(f[n], parts[n + 1].msg) \in Seq(M)
    BY <1>2, <2>1, AppendProperties
  <2> QED BY <2>1, <2>2
<1>4. g \in [0..(n + 1) -> Seq(M)]
  <2> HIDE DEF e
  <2> QED BY <1>3
<1>5. ASSUME NEW i \in 0..(n + 1)
      PROVE  g[i] = IF i = 0 THEN <<>>
                    ELSE IF IsLast(parts[i]) THEN Append(g[i - 1], parts[i].msg) ELSE g[i - 1]
  <2>1. CASE i = n + 1
    <3>1. i # 0 /\ g[i] = e /\ i - 1 = n /\ g[i - 1] = f[n]
      BY <2>1
    <3> QED BY <2>1, <3>1
  <2>2. CASE i \in 0..n
    <3>1. g[i] = f[i] /\ (i # 0 => g[i - 1] = f[i - 1])
      BY <2>2
    <3>2. f[i] = IF i = 0 THEN <<>>
                 ELSE IF IsLast(parts[i]) THEN Append(f[i - 1], parts[i].msg) ELSE f[i - 1]
      BY <2>2 DEF ReadsTo
    <3> HIDE DEF g
    <3> QED BY <3>1, <3>2
  <2> QED BY <2>1, <2>2
<1> HIDE DEF g
<1>6. ReadsTo(n + 1, g, parts)
  BY <1>5 DEF ReadsTo
<1> QED BY <1>4, <1>6

\* There is such a function for any parts.
LEMMA ReadsExist ==
  ASSUME NEW M, NEW parts \in Seq(PartOf(M))
  PROVE  \E f \in [0..Len(parts) -> Seq(M)] : Reads(f, parts)
<1> DEFINE S == {n \in Nat : n <= Len(parts) => \E f \in [0..n -> Seq(M)] : ReadsTo(n, f, parts)}
<1>1. 0 \in S
  <2> DEFINE f == [i \in 0..0 |-> <<>>]
  <2>1. f \in [0..0 -> Seq(M)] /\ ReadsTo(0, f, parts)
    BY DEF ReadsTo
  <2> HIDE DEF f
  <2> QED BY <2>1
<1>2. ASSUME NEW n \in Nat, n \in S PROVE n + 1 \in S
  <2> SUFFICES n + 1 <= Len(parts) => \E g \in [0..(n + 1) -> Seq(M)] : ReadsTo(n + 1, g, parts)
    OBVIOUS
  <2>1. n <= Len(parts) => \E f \in [0..n -> Seq(M)] : ReadsTo(n, f, parts)
    BY <1>2
  <2> HIDE DEF S
  <2>2. n + 1 <= Len(parts) => n <= Len(parts)
    BY Len(parts) \in Nat
  <2> QED BY <2>1, <2>2, ReadsMore
<1>3. Nat \subseteq S
  <2> HIDE DEF S
  <2> QED BY <1>1, <1>2, NaturalsInduct
<1>4. Len(parts) \in Nat /\ Len(parts) <= Len(parts)
  OBVIOUS
<1>5. \A n \in S : n <= Len(parts) => \E f \in [0..n -> Seq(M)] : ReadsTo(n, f, parts)
  OBVIOUS
<1> HIDE DEF S
<1>6. PICK f \in [0..Len(parts) -> Seq(M)] : ReadsTo(Len(parts), f, parts)
  BY <1>3, <1>4, <1>5
<1>7. f = [n \in 0..Len(parts) |-> f[n]]
  OBVIOUS
<1>8. Reads(f, parts)
  BY <1>6, <1>7 DEF Reads, ReadsTo
<1> QED BY <1>8

\* What Whole returns, part by part.
LEMMA WholeReads ==
  ASSUME NEW M, NEW parts \in Seq(PartOf(M))
  PROVE  \E f \in [0..Len(parts) -> Seq(M)] : Reads(f, parts) /\ Whole(parts) = f[Len(parts)]
<1> DEFINE f == CHOOSE g : Reads(g, parts)
<1>1. PICK h \in [0..Len(parts) -> Seq(M)] : Reads(h, parts)
  BY ReadsExist
<1>2. Reads(f, parts)
  BY <1>1
<1>3. Whole(parts) = f[Len(parts)]
  BY Zenon DEF Whole, Reads
<1> HIDE DEF f
<1>4. f = h
  <2>1. \A k \in 0..Len(parts) : f[k] = h[k]
    <3> TAKE k \in 0..Len(parts)
    <3>1. k \in Nat /\ k <= Len(parts)
      OBVIOUS
    <3> QED BY <1>1, <1>2, <3>1, ReadsAgree
  <2>2. f = [k \in 0..Len(parts) |-> f[k]] /\ h = [k \in 0..Len(parts) |-> h[k]]
    BY <1>1, <1>2, Zenon DEF Reads
  <2> QED BY <2>1, <2>2
<1> QED BY <1>1, <1>2, <1>3, <1>4

\* What Whole returns are the messages of the parts.
LEMMA WholeTyped ==
  ASSUME NEW M, NEW parts \in Seq(PartOf(M)) PROVE Whole(parts) \in Seq(M)
<1>1. PICK f \in [0..Len(parts) -> Seq(M)] : Whole(parts) = f[Len(parts)]
  BY WholeReads
<1>2. Len(parts) \in 0..Len(parts)
  OBVIOUS
<1> QED BY <1>1, <1>2

\* No parts carry no messages.
LEMMA WholeEmpty == Whole(<<>>) = <<>>
<1> DEFINE s == <<>>
<1>1. s \in Seq(PartOf({})) /\ Len(s) = 0
  OBVIOUS
<1> HIDE DEF s
<1>2. PICK f \in [0..Len(s) -> Seq({})] : Reads(f, s) /\ Whole(s) = f[Len(s)]
  BY <1>1, WholeReads
<1>3. f[0] = <<>>
  BY <1>1, <1>2 DEF Reads
<1> QED BY <1>1, <1>2, <1>3 DEF s

\* One more part carries its message when it is the last one of it.
LEMMA WholeAppend ==
  ASSUME NEW M, NEW s \in Seq(PartOf(M)), NEW p \in PartOf(M)
  PROVE  Whole(Append(s, p)) = IF IsLast(p) THEN Append(Whole(s), p.msg) ELSE Whole(s)
<1> DEFINE t == Append(s, p)
           k == Len(s)
<1>1. t \in Seq(PartOf(M)) /\ Len(t) = k + 1 /\ t[k + 1] = p /\ k \in Nat
      /\ \A i \in 1..k : s[i] = t[i]
  OBVIOUS
<1> HIDE DEF t
<1>2. PICK f \in [0..Len(s) -> Seq(M)] : Reads(f, s) /\ Whole(s) = f[Len(s)]
  BY WholeReads
<1>3. PICK g \in [0..Len(t) -> Seq(M)] : Reads(g, t) /\ Whole(t) = g[Len(t)]
  BY <1>1, WholeReads
<1>4. f[k] = g[k]
  <2>1. k \in Nat /\ k <= Len(s) /\ k <= Len(t) /\ \A i \in 1..k : s[i] = t[i]
    BY <1>1
  <2>2. Reads(f, s) /\ Reads(g, t)
    BY <1>2, <1>3
  <2>3. t \in Seq(PartOf(M))
    BY <1>1
  <2> HIDE DEF k
  <2> QED BY <2>1, <2>2, <2>3, ReadsAgree
<1>5. \A n \in 0..Len(t) : g[n] = IF n = 0 THEN <<>>
           ELSE IF IsLast(t[n]) THEN Append(g[n - 1], t[n].msg) ELSE g[n - 1]
  BY <1>3, Zenon DEF Reads
<1> HIDE DEF k
<1>6. k + 1 \in 0..Len(t) /\ k + 1 # 0 /\ (k + 1) - 1 = k
  BY <1>1
<1>7. g[k + 1] = IF IsLast(p) THEN Append(g[k], p.msg) ELSE g[k]
  BY <1>1, <1>5, <1>6
<1> QED BY <1>1, <1>2, <1>3, <1>4, <1>7 DEF t, k

\* The messages of two streams that are read one after the other.
LEMMA WholeConcat ==
  ASSUME NEW M, NEW s \in Seq(PartOf(M)), NEW t \in Seq(PartOf(M))
  PROVE  Whole(s \o t) = Whole(s) \o Whole(t)
<1> DEFINE S == {n \in Nat : \A u \in Seq(PartOf(M)) : Len(u) = n => Whole(s \o u) = Whole(s) \o Whole(u)}
<1>1. 0 \in S
  <2> SUFFICES ASSUME NEW u \in Seq(PartOf(M)), Len(u) = 0 PROVE Whole(s \o u) = Whole(s) \o Whole(u)
    OBVIOUS
  <2>1. u = <<>> /\ s \o u = s
    OBVIOUS
  <2>2. Whole(s) \in Seq(M)
    BY WholeTyped
  <2>3. Whole(s) \o <<>> = Whole(s)
    BY <2>2
  <2> QED BY <2>1, <2>3, WholeEmpty
<1>2. ASSUME NEW n \in Nat, n \in S PROVE n + 1 \in S
  <2> SUFFICES ASSUME NEW u \in Seq(PartOf(M)), Len(u) = n + 1
               PROVE  Whole(s \o u) = Whole(s) \o Whole(u)
    OBVIOUS
  <2> DEFINE v == SubSeq(u, 1, n)
             p == u[n + 1]
             w == s \o v
  <2>1. v \in Seq(PartOf(M)) /\ Len(v) = n /\ p \in PartOf(M) /\ u = Append(v, p)
    OBVIOUS
  <2> HIDE DEF v, p
  <2>2. Whole(s \o v) = Whole(s) \o Whole(v)
    BY <1>2, <2>1
  <2>3. s \o u = Append(w, p) /\ w \in Seq(PartOf(M))
    BY <2>1
  <2> HIDE DEF w
  <2>4. Whole(s \o u) = IF IsLast(p) THEN Append(Whole(w), p.msg) ELSE Whole(w)
    BY <2>1, <2>3, WholeAppend
  <2>5. Whole(u) = IF IsLast(p) THEN Append(Whole(v), p.msg) ELSE Whole(v)
    BY <2>1, WholeAppend
  <2>6. Whole(s) \in Seq(M) /\ Whole(v) \in Seq(M) /\ p.msg \in M
    BY <2>1, WholeTyped DEF PartOf
  <2>7. ASSUME NEW a \in Seq(M), NEW b \in Seq(M), NEW m \in M
        PROVE  Append(a \o b, m) = a \o Append(b, m)
    <3>1. a \o b \in Seq(M) /\ <<m>> \in Seq(M)
      BY ConcatProperties
    <3>2. Append(a \o b, m) = (a \o b) \o <<m>> /\ Append(b, m) = b \o <<m>>
      BY <3>1, AppendIsConcat
    <3> QED BY <3>1, <3>2, ConcatAssociative
  <2> DEFINE a == Whole(s)
             b == Whole(v)
             m == p.msg
  <2>8. Append(a \o b, m) = a \o Append(b, m)
    <3>1. a \in Seq(M) /\ b \in Seq(M) /\ m \in M
      BY <2>6
    <3> HIDE DEF a, b, m
    <3> QED BY <2>7, <3>1
  <2> QED BY <2>2, <2>4, <2>5, <2>8 DEF w
<1>3. Nat \subseteq S
  <2> HIDE DEF S
  <2> QED BY <1>1, <1>2, NaturalsInduct
<1>4. Len(t) \in Nat
  OBVIOUS
<1> QED BY <1>3, <1>4

\* Messages have a payload or none.
Messages(M) == \A m \in M : m.full \in BOOLEAN

\* A message that is cut into its parts is read from them (ipc_send_reply,
\* ipc_recv_response).
LEMMA WholeOnes ==
  ASSUME NEW M, NEW m \in M, Messages(M)
  PROVE  /\ Whole(<<Part("header", m)>>) = IF m.full THEN <<>> ELSE <<m>>
         /\ Whole(<<Part("payload", m)>>) = <<m>>
         /\ Whole(Parts(m)) = <<m>>
         /\ Part("header", m) \in PartOf(M) /\ Part("payload", m) \in PartOf(M)
         /\ Parts(m) \in Seq(PartOf(M))
<1> DEFINE h == Part("header", m)
           p == Part("payload", m)
<1>1. /\ h \in PartOf(M) /\ h.part = "header" /\ h.msg = m
      /\ p \in PartOf(M) /\ p.part = "payload" /\ p.msg = m
  BY DEF Part, PartOf
<1>2. IsLast(p) /\ (IsLast(h) <=> ~m.full)
  BY <1>1 DEF IsLast
<1> HIDE DEF h, p
<1>3. <<>> \in Seq(PartOf(M)) /\ <<h>> \in Seq(PartOf(M)) /\ <<p>> \in Seq(PartOf(M))
      /\ Append(<<>>, h) = <<h>> /\ Append(<<>>, p) = <<p>> /\ <<h>> \o <<p>> = Append(<<h>>, p)
      /\ Append(<<>>, m) = <<m>>
  BY <1>1
<1>4. Whole(<<h>>) = IF m.full THEN <<>> ELSE <<m>>
  <2>1. Whole(Append(<<>>, h)) = IF IsLast(h) THEN Append(Whole(<<>>), h.msg) ELSE Whole(<<>>)
    BY <1>1, <1>3, WholeAppend
  <2> QED BY <1>1, <1>2, <1>3, <2>1, WholeEmpty
<1>5. Whole(<<p>>) = <<m>>
  <2>1. Whole(Append(<<>>, p)) = IF IsLast(p) THEN Append(Whole(<<>>), p.msg) ELSE Whole(<<>>)
    BY <1>1, <1>3, WholeAppend
  <2> QED BY <1>1, <1>2, <1>3, <2>1, WholeEmpty
<1>6. Parts(m) = IF m.full THEN <<h>> \o <<p>> ELSE <<h>>
  <2>1. <<h>> \o <<>> = <<h>>
    BY <1>3
  <2> QED BY <2>1 DEF Parts, h, p
<1>7. Whole(Parts(m)) = <<m>>
  <2>1. CASE m.full
    <3>1. Whole(Append(<<h>>, p)) = IF IsLast(p) THEN Append(Whole(<<h>>), p.msg) ELSE Whole(<<h>>)
      BY <1>1, <1>3, WholeAppend
    <3> QED BY <1>1, <1>2, <1>3, <1>4, <1>6, <2>1, <3>1
  <2>2. CASE ~m.full
    BY <1>4, <1>6, <2>2
  <2> QED BY <2>1, <2>2
<1>8. Parts(m) \in Seq(PartOf(M))
  BY <1>1, <1>6
<1> QED BY <1>1, <1>4, <1>5, <1>7, <1>8 DEF h, p

\* What a reader has to find in order: no payload is missing or on its own.
Clean(parts) == Paired(parts) /\ ~Open(parts)

\* Nothing sent can be read.
LEMMA CleanEmpty == Clean(<<>>)
  BY DEF Clean, Paired, Open

\* The parts next to one another, by number.
LEMMA PairedAt ==
  ASSUME NEW M, NEW s \in Seq(PartOf(M))
  PROVE  /\ Paired(s) <=>
              \A i \in 1..Len(s) :
                /\ s[i].part = "header" /\ s[i].msg.full /\ i < Len(s) =>
                     s[i + 1] = Part("payload", s[i].msg)
                /\ s[i].part = "payload" =>
                     s[i].msg.full /\ i > 1 /\ s[i - 1] = Part("header", s[i].msg)
         /\ s # <<>> <=> Len(s) >= 1
         /\ Len(s) \in Nat
<1>1. DOMAIN s = 1..Len(s) /\ Len(s) \in Nat
  BY LenProperties
<1>2. s # <<>> <=> Len(s) >= 1
  OBVIOUS
<1> QED BY <1>1, <1>2 DEF Paired

\* Both names of a part.
LEMMA PartFields ==
  ASSUME NEW M, NEW p \in PartOf(M)
  PROVE  /\ p.part \in {"header", "payload"} /\ p.msg \in M
         /\ p = Part(p.part, p.msg)
         /\ Messages(M) => (IsLast(p) <=> ~(p.part = "header" /\ p.msg.full))
<1>1. p.part \in {"header", "payload"} /\ p.msg \in M /\ p = Part(p.part, p.msg)
  BY DEF PartOf, Part
<1>2. ASSUME Messages(M) PROVE IsLast(p) <=> ~(p.part = "header" /\ p.msg.full)
  <2>1. p.msg.full \in BOOLEAN
    BY <1>1, <1>2 DEF Messages
  <2> QED BY <1>1, <2>1 DEF IsLast
<1> QED BY <1>1, <1>2

\* A header may follow whole messages ...
LEMMA PairedHeader ==
  ASSUME NEW M, Messages(M), NEW s \in Seq(PartOf(M)), Clean(s), NEW m \in M
  PROVE  /\ Paired(Append(s, Part("header", m)))
         /\ Open(Append(s, Part("header", m))) <=> m.full
         /\ Append(s, Part("header", m)) \in Seq(PartOf(M))
<1> DEFINE h == Part("header", m)
           t == Append(s, h)
           n == Len(s)
<1>1. h \in PartOf(M) /\ h.part = "header" /\ h.msg = m /\ m.full \in BOOLEAN
  BY DEF Part, PartOf, Messages
<1>2. /\ t \in Seq(PartOf(M)) /\ Len(t) = n + 1 /\ n \in Nat /\ t # <<>>
      /\ t[n + 1] = h /\ \A i \in 1..n : t[i] = s[i]
  BY <1>1, AppendProperties
<1>3. IsLast(h) <=> ~m.full
  BY <1>1 DEF IsLast
<1>4. n >= 1 => IsLast(s[n])
  BY PairedAt DEF Clean, Open
<1>5. Open(t) <=> m.full
  BY <1>1, <1>2, <1>3 DEF Open
<1> HIDE DEF h, t
<1>6. Paired(t)
  <2> SUFFICES ASSUME NEW i \in 1..Len(t)
               PROVE  /\ t[i].part = "header" /\ t[i].msg.full /\ i < Len(t) =>
                           t[i + 1] = Part("payload", t[i].msg)
                      /\ t[i].part = "payload" =>
                           t[i].msg.full /\ i > 1 /\ t[i - 1] = Part("header", t[i].msg)
    BY <1>2, PairedAt
  <2>1. CASE i = n + 1
    BY <1>1, <1>2, <2>1
  <2>2. CASE i = n
    <3>1. i \in 1..n /\ t[i] = s[i] /\ s[i] \in PartOf(M) /\ IsLast(s[i])
      BY <1>2, <1>4, <2>2
    <3>2. ~(t[i].part = "header" /\ t[i].msg.full)
      BY <3>1, PartFields
    <3>3. s[i].part = "payload" => s[i].msg.full /\ i > 1 /\ s[i - 1] = Part("header", s[i].msg)
      BY <3>1, PairedAt DEF Clean
    <3>4. i > 1 => t[i - 1] = s[i - 1]
      BY <1>2, <3>1
    <3> QED BY <3>1, <3>2, <3>3, <3>4
  <2>3. CASE i < n
    <3>1. i \in 1..n /\ i + 1 \in 1..n /\ t[i] = s[i] /\ t[i + 1] = s[i + 1]
          /\ (i > 1 => t[i - 1] = s[i - 1])
      BY <1>2, <2>3
    <3>2. /\ s[i].part = "header" /\ s[i].msg.full /\ i < n => s[i + 1] = Part("payload", s[i].msg)
          /\ s[i].part = "payload" => s[i].msg.full /\ i > 1 /\ s[i - 1] = Part("header", s[i].msg)
      BY <3>1, PairedAt DEF Clean
    <3> HIDE DEF n
    <3> QED BY <2>3, <3>1, <3>2
  <2> QED BY <1>2, <2>1, <2>2, <2>3
<1> QED BY <1>2, <1>5, <1>6 DEF t, h

\* ... and its payload after it.
LEMMA PairedPayload ==
  ASSUME NEW M, Messages(M), NEW s \in Seq(PartOf(M)), NEW m \in M, m.full,
         Paired(s), s # <<>>, s[Len(s)] = Part("header", m)
  PROVE  /\ Clean(Append(s, Part("payload", m)))
         /\ Append(s, Part("payload", m)) \in Seq(PartOf(M))
<1> DEFINE p == Part("payload", m)
           h == Part("header", m)
           t == Append(s, p)
           n == Len(s)
<1>1. /\ p \in PartOf(M) /\ p.part = "payload" /\ p.msg = m
      /\ h.part = "header" /\ h.msg = m
  BY DEF Part, PartOf
<1>2. /\ t \in Seq(PartOf(M)) /\ Len(t) = n + 1 /\ n \in Nat /\ n >= 1 /\ t # <<>>
      /\ t[n + 1] = p /\ \A i \in 1..n : t[i] = s[i]
  BY <1>1, AppendProperties, PairedAt
<1>3. IsLast(p)
  BY <1>1 DEF IsLast
<1>4. ~Open(t)
  BY <1>2, <1>3 DEF Open
<1> HIDE DEF t
<1>5. s[n] = h
  OBVIOUS
<1> HIDE DEF n
<1>6. n = Len(s)
  BY DEF n
<1>7. Paired(t)
  <2> SUFFICES ASSUME NEW i \in 1..Len(t)
               PROVE  /\ t[i].part = "header" /\ t[i].msg.full /\ i < Len(t) =>
                           t[i + 1] = Part("payload", t[i].msg)
                      /\ t[i].part = "payload" =>
                           t[i].msg.full /\ i > 1 /\ t[i - 1] = Part("header", t[i].msg)
    BY <1>2, PairedAt
  <2>1. CASE i = n + 1
    <3>1. t[i] = p /\ t[i - 1] = h /\ i > 1
      BY <1>2, <1>5, <2>1
    <3> QED BY <1>1, <1>2, <2>1, <3>1
  <2>2. CASE i = n
    <3>1. t[i] = h /\ t[i + 1] = p
      BY <1>2, <1>5, <2>2
    <3> QED BY <1>1, <1>2, <2>2, <3>1
  <2>3. CASE i < n
    <3>1. i \in 1..n /\ i + 1 \in 1..n /\ t[i] = s[i] /\ t[i + 1] = s[i + 1]
          /\ (i > 1 => t[i - 1] = s[i - 1])
      BY <1>2, <2>3
    <3>2. /\ s[i].part = "header" /\ s[i].msg.full /\ i < n => s[i + 1] = Part("payload", s[i].msg)
          /\ s[i].part = "payload" => s[i].msg.full /\ i > 1 /\ s[i - 1] = Part("header", s[i].msg)
      BY <1>6, <3>1, PairedAt
    <3> QED BY <2>3, <3>1, <3>2
  <2> QED BY <1>2, <2>1, <2>2, <2>3
<1> QED BY <1>2, <1>4, <1>7 DEF Clean, t

\* Whole messages may follow whole messages.
LEMMA CleanParts ==
  ASSUME NEW M, Messages(M), NEW s \in Seq(PartOf(M)), Clean(s), NEW m \in M
  PROVE  Clean(s \o Parts(m)) /\ s \o Parts(m) \in Seq(PartOf(M))
<1> DEFINE h == Part("header", m)
           p == Part("payload", m)
           t == Append(s, h)
<1>1. h \in PartOf(M) /\ p \in PartOf(M) /\ m.full \in BOOLEAN
  BY DEF Part, PartOf, Messages
<1>2. Paired(t) /\ (Open(t) <=> m.full) /\ t \in Seq(PartOf(M))
  BY PairedHeader
<1>3. t # <<>> /\ t[Len(t)] = h /\ t = s \o <<h>>
  BY <1>1, AppendProperties, AppendIsConcat
<1>4. CASE ~m.full
  <2>1. Parts(m) = <<h>>
    BY <1>4 DEF Parts
  <2> QED BY <1>2, <1>3, <1>4, <2>1 DEF Clean
<1>5. CASE m.full
  <2>1. Parts(m) = <<h>> \o <<p>>
    BY <1>5 DEF Parts
  <2> HIDE DEF t, h
  <2>2. Clean(Append(t, p)) /\ Append(t, p) \in Seq(PartOf(M))
    BY <1>2, <1>3, <1>5, PairedPayload DEF h
  <2>3. Append(t, p) = s \o (<<h>> \o <<p>>)
    <3>1. Append(t, p) = t \o <<p>>
      BY <1>1, <1>2, AppendIsConcat
    <3>2. <<h>> \in Seq(PartOf(M)) /\ <<p>> \in Seq(PartOf(M))
      BY <1>1
    <3> HIDE DEF p
    <3>3. (s \o <<h>>) \o <<p>> = s \o (<<h>> \o <<p>>)
      BY <3>2, ConcatAssociative
    <3> QED BY <1>3, <3>1, <3>3
  <2> QED BY <2>1, <2>2, <2>3
<1> QED BY <1>1, <1>4, <1>5

\* The first part is a header; when its message has a payload it comes second.
LEMMA PairedFirst ==
  ASSUME NEW M, Messages(M), NEW s \in Seq(PartOf(M)), Paired(s), s # <<>>
  PROVE  /\ Head(s) \in PartOf(M) /\ Head(s) = s[1] /\ Head(s).part = "header"
         /\ IsLast(Head(s)) <=> ~Head(s).msg.full
         /\ ~IsLast(Head(s)) /\ Len(s) > 1 => s[2] = Part("payload", Head(s).msg)
<1>1. Len(s) >= 1 /\ Len(s) \in Nat /\ 1 \in 1..Len(s) /\ s[1] \in PartOf(M) /\ Head(s) = s[1]
  BY PairedAt
<1>2. /\ s[1].part = "header" /\ s[1].msg.full /\ 1 < Len(s) =>
           s[1 + 1] = Part("payload", s[1].msg)
      /\ s[1].part = "payload" => 1 > 1
  BY <1>1, PairedAt
<1>3. s[1].part = "header"
  BY <1>1, <1>2, PartFields
<1>4. s[1].msg.full \in BOOLEAN
  BY <1>1, PartFields DEF Messages
<1>5. IsLast(s[1]) <=> ~s[1].msg.full
  BY <1>3, <1>4 DEF IsLast
<1> QED BY <1>1, <1>2, <1>3, <1>5

\* What follows the last part of a message can be read, too.
LEMMA PairedFrom ==
  ASSUME NEW M, Messages(M), NEW s \in Seq(PartOf(M)), Paired(s),
         NEW k \in 1..Len(s), IsLast(s[k]), NEW t \in Seq(PartOf(M)),
         Len(t) = Len(s) - k, \A i \in 1..Len(t) : t[i] = s[i + k]
  PROVE  /\ Paired(t)
         /\ t # <<>> => t[Len(t)] = s[Len(s)]
         /\ Open(t) => Open(s)
<1>1. Len(s) \in Nat /\ Len(t) \in Nat /\ s[k] \in PartOf(M) /\ s # <<>>
  BY PairedAt
<1>2. t # <<>> => t[Len(t)] = s[Len(s)]
  <2>1. t # <<>> => Len(t) \in 1..Len(t) /\ Len(t) + k = Len(s)
    BY <1>1, PairedAt
  <2> QED BY <2>1
<1>3. Open(t) => Open(s)
  BY <1>1, <1>2 DEF Open
<1>4. Paired(t)
  <2> SUFFICES ASSUME NEW i \in 1..Len(t)
               PROVE  /\ t[i].part = "header" /\ t[i].msg.full /\ i < Len(t) =>
                           t[i + 1] = Part("payload", t[i].msg)
                      /\ t[i].part = "payload" =>
                           t[i].msg.full /\ i > 1 /\ t[i - 1] = Part("header", t[i].msg)
    BY PairedAt
  <2>1. /\ i + k \in 1..Len(s) /\ t[i] = s[i + k] /\ i + k > 1
        /\ (i < Len(t) => i + k < Len(s) /\ t[i + 1] = s[(i + k) + 1])
        /\ (i > 1 => t[i - 1] = s[(i + k) - 1])
    <3>1. i < Len(t) => i + 1 \in 1..Len(t) /\ (i + 1) + k = (i + k) + 1
      BY <1>1
    <3>2. i > 1 => i - 1 \in 1..Len(t) /\ (i - 1) + k = (i + k) - 1
      BY <1>1
    <3>3. i + k \in 1..Len(s) /\ t[i] = s[i + k] /\ i + k > 1
      BY <1>1
    <3>4. i < Len(t) => i + k < Len(s) /\ t[i + 1] = s[(i + 1) + k]
      BY <1>1, <3>1
    <3>5. i > 1 => t[i - 1] = s[(i - 1) + k]
      BY <3>2
    <3> QED BY <3>1, <3>2, <3>3, <3>4, <3>5
  <2>2. /\ s[i + k].part = "header" /\ s[i + k].msg.full /\ i + k < Len(s) =>
             s[(i + k) + 1] = Part("payload", s[i + k].msg)
        /\ s[i + k].part = "payload" =>
             s[i + k].msg.full /\ i + k > 1 /\ s[(i + k) - 1] = Part("header", s[i + k].msg)
    BY <2>1, PairedAt
  <2>3. ASSUME t[i].part = "payload" PROVE i > 1
    <3>1. CASE i > 1
      BY <3>1
    <3>2. CASE i = 1
      <4>1. s[k] = Part("header", s[i + k].msg) /\ s[i + k].msg.full
        <5>1. (i + k) - 1 = k
          BY <3>2
        <5> QED BY <2>1, <2>2, <2>3, <5>1
      <4>2. s[k].part = "header" /\ s[k].msg.full
        BY <4>1 DEF Part
      <4> QED BY <1>1, <4>2, PartFields
    <3> QED BY <3>1, <3>2
  <2> HIDE DEF Part
  <2> QED BY <2>1, <2>2, <2>3
<1> QED BY <1>2, <1>3, <1>4

\* The same after one part that is the last of its message.
LEMMA PairedTail ==
  ASSUME NEW M, Messages(M), NEW s \in Seq(PartOf(M)), Paired(s), s # <<>>, IsLast(Head(s))
  PROVE  /\ Tail(s) \in Seq(PartOf(M)) /\ Paired(Tail(s))
         /\ Tail(s) # <<>> => Tail(s)[Len(Tail(s))] = s[Len(s)]
         /\ Open(Tail(s)) => Open(s)
<1> DEFINE t == Tail(s)
<1>1. /\ t \in Seq(PartOf(M)) /\ Len(t) = Len(s) - 1
      /\ \A i \in 1..Len(t) : t[i] = s[i + 1]
  BY HeadTailProperties
<1>2. Head(s) = s[1] /\ 1 \in 1..Len(s)
  BY PairedAt
<1> HIDE DEF t
<1>3. /\ Paired(t)
      /\ t # <<>> => t[Len(t)] = s[Len(s)]
      /\ Open(t) => Open(s)
  BY <1>1, <1>2, PairedFrom
<1> QED BY <1>1, <1>3 DEF t

\* A message with a payload is taken off in two steps; in between stands its payload.
LEMMA PairedRest ==
  ASSUME NEW M, Messages(M), NEW s \in Seq(PartOf(M)), Paired(s), s # <<>>, ~IsLast(Head(s)),
         Len(s) > 1
  PROVE  /\ Head(Tail(s)) = Part("payload", Head(s).msg)
         /\ SubSeq(s, 3, Len(s)) \in Seq(PartOf(M)) /\ Paired(SubSeq(s, 3, Len(s)))
         /\ SubSeq(s, 3, Len(s)) = Tail(Tail(s))
         /\ IF SubSeq(s, 3, Len(s)) = <<>> THEN s[Len(s)] = Part("payload", Head(s).msg)
            ELSE SubSeq(s, 3, Len(s))[Len(SubSeq(s, 3, Len(s)))] = s[Len(s)]
         /\ Open(SubSeq(s, 3, Len(s))) => Open(s)
         /\ Len(s) \in Nat
<1> DEFINE t == SubSeq(s, 3, Len(s))
           v == Tail(s)
<1>1. Len(s) \in Nat /\ 2 \in 1..Len(s)
  BY PairedAt
<1>2. \A i \in 3..Len(s) : s[i] \in PartOf(M)
  BY <1>1
<1>3. /\ t \in Seq(PartOf(M)) /\ Len(t) = Len(s) - 2
      /\ \A i \in 1..Len(t) : t[i] = s[i + 2]
  <2>1. /\ t \in Seq(PartOf(M)) /\ Len(t) = IF 3 <= Len(s) THEN Len(s) - 3 + 1 ELSE 0
        /\ \A i \in 1..(Len(s) - 3 + 1) : t[i] = s[3 + i - 1]
    BY <1>1, <1>2, SubSeqProperties
  <2> HIDE DEF t
  <2>2. Len(t) = Len(s) - 2
    <3>1. CASE Len(s) = 2
      <4>1. ~(3 <= Len(s)) /\ Len(s) - 2 = 0
        BY <3>1
      <4>2. Len(t) = 0
        BY <2>1, <4>1, Zenon
      <4> QED BY <4>1, <4>2
    <3>2. CASE Len(s) >= 3
      BY <1>1, <2>1, <3>2
    <3>3. \A n \in Nat : n > 1 => n = 2 \/ n >= 3
      OBVIOUS
    <3>4. Len(s) \in Nat
      BY <1>1
    <3>5. Len(s) = 2 \/ Len(s) >= 3
      BY <3>3, <3>4
    <3> QED BY <3>1, <3>2, <3>5
  <2>3. ASSUME NEW i \in 1..Len(t) PROVE t[i] = s[i + 2]
    <3>1. i \in 1..(Len(s) - 3 + 1) /\ 3 + i - 1 = i + 2
      BY <1>1, <2>2
    <3> QED BY <2>1, <3>1
  <2> QED BY <2>1, <2>2, <2>3
<1>4. /\ v \in Seq(PartOf(M)) /\ Len(v) = Len(s) - 1 /\ v # <<>>
      /\ \A i \in 1..Len(v) : v[i] = s[i + 1]
  <2>1. /\ v \in Seq(PartOf(M)) /\ Len(v) = Len(s) - 1
        /\ \A i \in 1..Len(v) : v[i] = s[i + 1]
    BY HeadTailProperties
  <2> HIDE DEF v
  <2>2. v # <<>>
    BY <1>1, <2>1, PairedAt
  <2> QED BY <2>1, <2>2
<1>5. /\ Tail(v) \in Seq(PartOf(M)) /\ Len(Tail(v)) = Len(s) - 2
      /\ \A i \in 1..Len(Tail(v)) : Tail(v)[i] = s[i + 2]
  <2> HIDE DEF v
  <2>1. /\ Tail(v) \in Seq(PartOf(M)) /\ Len(Tail(v)) = Len(v) - 1
        /\ \A i \in 1..Len(Tail(v)) : Tail(v)[i] = v[i + 1]
    BY <1>4, HeadTailProperties
  <2>2. ASSUME NEW i \in 1..Len(Tail(v)) PROVE Tail(v)[i] = s[i + 2]
    <3>1. i + 1 \in 1..Len(v) /\ (i + 1) + 1 = i + 2
      BY <1>1, <1>4, <2>1
    <3> QED BY <1>4, <2>1, <3>1
  <2> QED BY <1>1, <1>4, <2>1, <2>2
<1>6. Head(v) = s[2]
  BY <1>1, <1>4
<1>7. s[2] = Part("payload", Head(s).msg)
  BY PairedFirst
<1>8. IsLast(s[2])
  BY <1>7 DEF IsLast, Part
<1>9. t = Tail(v)
  <2> HIDE DEF t, v
  <2> QED BY <1>3, <1>5, SeqEqual
<1> HIDE DEF t, v
<1>10. /\ Paired(t)
       /\ t # <<>> => t[Len(t)] = s[Len(s)]
       /\ Open(t) => Open(s)
  BY <1>1, <1>3, <1>8, PairedFrom
<1>11. t = <<>> => s[Len(s)] = s[2]
  <2>1. t = <<>> => Len(s) = 2
    BY <1>1, <1>3
  <2> QED BY <2>1
<1> QED BY <1>1, <1>3, <1>6, <1>7, <1>9, <1>10, <1>11 DEF t, v

\* The parts of some messages, which may follow whatever is whole.
Carries(parts, messages) ==
  /\ parts \in Seq(PartOf(Message))
  /\ messages \in Seq(Message)
  /\ Whole(parts) = messages
  /\ \A s \in Seq(PartOf(Message)) : Clean(s) => Clean(s \o parts)

\* The answers and events have a payload or none ...
LEMMA MessagesMessage == Messages(Message)
<1>1. TagEvent.full \in BOOLEAN /\ \A t : Answer(t).full \in BOOLEAN
  BY DEF TagEvent, Answer
<1>2. \A m \in Message : m = TagEvent \/ \E t : m = Answer(t)
  BY DEF Message
<1> QED BY <1>1, <1>2, Zenon DEF Messages

\* ... and so have the requests.
LEMMA MessagesRequest == Messages(Request)
  BY DEF Messages, Request

\* Nothing carries no messages.
LEMMA CarriesNone == Carries(<<>>, <<>>)
<1>1. <<>> \in Seq(PartOf(Message)) /\ <<>> \in Seq(Message)
  BY EmptySeq
<1>2. \A s \in Seq(PartOf(Message)) : s \o <<>> = s
  BY ConcatEmptySeq
<1> QED BY <1>1, <1>2, WholeEmpty DEF Carries

\* The header and the payload that ipc_send_reply queues carry the message.
LEMMA CarriesOne ==
  ASSUME NEW m \in Message PROVE Carries(Parts(m), <<m>>)
<1>1. Whole(Parts(m)) = <<m>> /\ Parts(m) \in Seq(PartOf(Message))
  BY WholeOnes, MessagesMessage
<1>2. \A s \in Seq(PartOf(Message)) : Clean(s) => Clean(s \o Parts(m))
  BY CleanParts, MessagesMessage
<1>3. <<m>> \in Seq(Message)
  OBVIOUS
<1> QED BY <1>1, <1>2, <1>3 DEF Carries

\* Two messages that are queued one after the other.
LEMMA CarriesBoth ==
  ASSUME NEW s, NEW a, NEW t, NEW b, Carries(s, a), Carries(t, b)
  PROVE  Carries(s \o t, a \o b)
<1>1. /\ s \in Seq(PartOf(Message)) /\ t \in Seq(PartOf(Message))
      /\ a \in Seq(Message) /\ b \in Seq(Message)
      /\ Whole(s) = a /\ Whole(t) = b
  BY DEF Carries
<1>2. s \o t \in Seq(PartOf(Message)) /\ a \o b \in Seq(Message)
  BY <1>1, ConcatProperties
<1>3. Whole(s \o t) = a \o b
  BY <1>1, WholeConcat
<1>4. ASSUME NEW u \in Seq(PartOf(Message)), Clean(u) PROVE Clean(u \o (s \o t))
  <2>1. Clean(u \o s) /\ u \o s \in Seq(PartOf(Message))
    BY <1>1, <1>4, ConcatProperties DEF Carries
  <2>2. Clean((u \o s) \o t)
    BY <2>1 DEF Carries
  <2>3. (u \o s) \o t = u \o (s \o t)
    <3>1. s \in Seq(PartOf(Message)) /\ t \in Seq(PartOf(Message))
      BY <1>1
    <3> QED BY <3>1, ConcatAssociative
  <2> QED BY <2>2, <2>3, Zenon
<1> QED BY <1>2, <1>3, <1>4 DEF Carries

\* A connection that stays has been sent some messages.
Sent(old, new, messages) ==
  /\ old.open /\ new.open
  /\ \E parts : Carries(parts, messages) /\ new.buffer = old.buffer \o parts

\* What sending comes to for one connection: it is freed or has been sent all of it.
Outcome(old, new, messages) == new = Freed \/ Sent(old, new, messages)

\* The struct after ipc_client_disconnect.
LEMMA FreedTyped == Freed \in Client /\ Freed.open = FALSE /\ Freed.subscribed = {} /\ Freed.buffer = <<>>
  BY EmptySeq DEF Freed, Client

\* A client that nothing is sent to.
LEMMA OutcomeNone ==
  ASSUME NEW cl \in Client, cl.open \/ cl = Freed PROVE Outcome(cl, cl, <<>>)
<1>1. cl.buffer = cl.buffer \o <<>>
  BY ConcatEmptySeq DEF Client
<1> QED BY <1>1, CarriesNone DEF Outcome, Sent

\* Two answers to one request, as of handle_ipc_subscribe.
LEMMA SentBoth ==
  ASSUME NEW x, NEW y, NEW z, NEW a, NEW b, x \in Client, Sent(x, y, a), Sent(y, z, b)
  PROVE  Sent(x, z, a \o b)
<1>1. PICK s : Carries(s, a) /\ y.buffer = x.buffer \o s
  BY DEF Sent
<1>2. PICK t : Carries(t, b) /\ z.buffer = y.buffer \o t
  BY DEF Sent
<1>3. z.buffer = x.buffer \o (s \o t)
  <2>1. x.buffer \in Seq(PartOf(Message)) /\ s \in Seq(PartOf(Message)) /\ t \in Seq(PartOf(Message))
    BY <1>1, <1>2 DEF Client, Carries
  <2>2. (x.buffer \o s) \o t = x.buffer \o (s \o t)
    <3> DEFINE u == x.buffer
    <3>1. u \in Seq(PartOf(Message))
      BY <2>1
    <3> HIDE DEF u
    <3>2. (u \o s) \o t = u \o (s \o t)
      BY <2>1, <3>1, ConcatAssociative
    <3> QED BY <3>2 DEF u
  <2> QED BY <1>1, <1>2, <2>2, Zenon
<1> QED BY <1>1, <1>2, <1>3, CarriesBoth DEF Sent

\* ipc_send_reply frees the client or queues the whole message.
LEMMA ReplySends ==
  ASSUME NEW cl \in Client, NEW m \in Message, cl.open
  PROVE  /\ Reply(cl, m) \in Client
         /\ Reply(cl, m) = Freed \/ (Sent(cl, Reply(cl, m), <<m>>) /\ Reply(cl, m).subscribed = cl.subscribed)
<1>1. CASE Len(cl.buffer) + Len(Parts(m)) >= BufferLimit
  BY <1>1, FreedTyped DEF Reply
<1>2. CASE ~(Len(cl.buffer) + Len(Parts(m)) >= BufferLimit)
  <2> DEFINE new == [open |-> cl.open, subscribed |-> cl.subscribed,
                     buffer |-> cl.buffer \o Parts(m), armed |-> TRUE]
  <2>1. Reply(cl, m) = new
    <3>1. cl = [open |-> cl.open, subscribed |-> cl.subscribed, buffer |-> cl.buffer, armed |-> cl.armed]
      BY DEF Client
    <3> QED BY <1>2, <3>1, Zenon DEF Reply
  <2>2. Parts(m) \in Seq(PartOf(Message)) /\ Carries(Parts(m), <<m>>)
    BY CarriesOne DEF Carries
  <2>3. cl.buffer \o Parts(m) \in Seq(PartOf(Message))
    BY <2>2, ConcatProperties DEF Client
  <2>4. new \in Client
    BY <2>3 DEF Client
  <2>5. Sent(cl, new, <<m>>)
    BY <2>2 DEF Sent
  <2> QED BY <2>1, <2>4, <2>5
<1> QED BY <1>1, <1>2

\* The structs are those of open connections and of freed ones.
AllClients(cls) ==
  /\ cls \in [Clients -> Client]
  /\ \A c \in Clients : ~cls[c].open => cls[c] = Freed

\* ipc_event_tag tells everyone who has asked and nobody else.
LEMMA EventTagTells ==
  ASSUME NEW cls, AllClients(cls)
  PROVE  /\ AllClients(EventTag(cls))
         /\ \A c \in Clients :
              /\ Outcome(cls[c], EventTag(cls)[c],
                         IF "workspace" \in cls[c].subscribed THEN <<TagEvent>> ELSE <<>>)
              /\ EventTag(cls)[c] = Freed \/ EventTag(cls)[c].subscribed = cls[c].subscribed
<1> DEFINE new == EventTag(cls)
<1>1. TagEvent \in Message
  BY DEF Message
<1>2. ASSUME NEW c \in Clients
      PROVE  /\ new[c] \in Client /\ (~new[c].open => new[c] = Freed)
             /\ Outcome(cls[c], new[c], IF "workspace" \in cls[c].subscribed THEN <<TagEvent>> ELSE <<>>)
             /\ new[c] = Freed \/ new[c].subscribed = cls[c].subscribed
  <2>1. new[c] = IF "workspace" \in cls[c].subscribed THEN Reply(cls[c], TagEvent) ELSE cls[c]
    BY DEF EventTag, SendEvent
  <2>2. cls[c] \in Client /\ (~cls[c].open => cls[c] = Freed) /\ cls[c].open \in BOOLEAN
    BY DEF AllClients, Client
  <2> HIDE DEF new
  <2>3. CASE "workspace" \in cls[c].subscribed
    <3>1. cls[c].open
      BY <2>2, <2>3, FreedTyped
    <3>2. /\ Reply(cls[c], TagEvent) \in Client
          /\ \/ Reply(cls[c], TagEvent) = Freed
             \/ /\ Sent(cls[c], Reply(cls[c], TagEvent), <<TagEvent>>)
                /\ Reply(cls[c], TagEvent).subscribed = cls[c].subscribed
      BY <1>1, <2>2, <3>1, ReplySends
    <3>3. new[c] = Reply(cls[c], TagEvent)
      BY <2>1, <2>3
    <3> QED BY <2>3, <3>2, <3>3 DEF Outcome, Sent
  <2>4. CASE "workspace" \notin cls[c].subscribed
    <3>1. Outcome(cls[c], cls[c], <<>>)
      BY <2>2, OutcomeNone
    <3> QED BY <2>1, <2>2, <2>4, <3>1
  <2> QED BY <2>3, <2>4
<1>3. new \in [Clients -> Client]
  <2>1. new = [c \in Clients |-> new[c]]
    BY DEF EventTag, SendEvent
  <2> HIDE DEF new
  <2> QED BY <1>2, <2>1
<1> HIDE DEF new
<1>4. AllClients(new)
  BY <1>2, <1>3 DEF AllClients
<1> QED BY <1>2, <1>4 DEF new

\* The event that a client who has asked for it is told.
Due(cl, told) == IF told /\ "workspace" \in cl.subscribed THEN <<TagEvent>> ELSE <<>>

\* What the promise says of the answers to a request.
LEMMA AnswersAre ==
  ASSUME NEW r \in Request, r.full, r.type # "malformed"
  PROVE  /\ r.type = "unknown" => Promise!AnswersTo(r) = <<>>
         /\ r.type = "subscribe" => Promise!AnswersTo(r) =
              IF "tick" \in r.events THEN <<Answer("subscribe"), Answer("tick")>> ELSE <<Answer("subscribe")>>
         /\ r.type \notin {"unknown", "subscribe"} => Promise!AnswersTo(r) = <<Answer(r.type)>>
         /\ Promise!Subscribes(r) <=> r.type = "subscribe" /\ "workspace" \in r.events
  BY DEF Promise!AnswersTo, Promise!Subscribes

\* One struct is replaced.
LEMMA OneChanges ==
  ASSUME NEW cls, AllClients(cls), NEW c \in Clients, NEW n \in Client, n.open \/ n = Freed
  PROVE  /\ AllClients([cls EXCEPT ![c] = n])
         /\ [cls EXCEPT ![c] = n][c] = n
         /\ \A d \in Clients \ {c} : [cls EXCEPT ![c] = n][d] = cls[d]
<1>1. cls \in [Clients -> Client]
  BY DEF AllClients
<1>2. [cls EXCEPT ![c] = n] \in [Clients -> Client]
  BY <1>1
<1>3. [cls EXCEPT ![c] = n][c] = n /\ \A d \in Clients \ {c} : [cls EXCEPT ![c] = n][d] = cls[d]
  BY <1>1
<1> DEFINE new == [cls EXCEPT ![c] = n]
<1>4. \A d \in Clients : ~new[d].open => new[d] = Freed
  <2> HIDE DEF new
  <2>1. new[c] = n /\ \A d \in Clients \ {c} : new[d] = cls[d]
    BY <1>3 DEF new
  <2> QED BY <2>1 DEF AllClients
<1>5. AllClients(new)
  <2>1. new \in [Clients -> Client]
    BY <1>2
  <2> HIDE DEF new
  <2> QED BY <1>4, <2>1 DEF AllClients
<1> QED BY <1>3, <1>5

\* What handling a request comes to for every connection.
Handled(cls, new, c, r, told) ==
  /\ AllClients(new)
  /\ told => r.type = "command"
  /\ \A d \in Clients :
       /\ Outcome(cls[d], new[d],
                  Due(cls[d], told) \o (IF d = c THEN Promise!AnswersTo(r) ELSE <<>>))
       /\ \/ new[d] = Freed
          \/ "workspace" \in new[d].subscribed <=>
               "workspace" \in cls[d].subscribed \/ (d = c /\ Promise!Subscribes(r))

\* The event is a sequence of at most one message.
LEMMA DueTyped ==
  ASSUME NEW cl, NEW told
  PROVE  /\ Due(cl, told) \in Seq(Message) /\ Due(cl, told) \o <<>> = Due(cl, told)
         /\ Due(cl, FALSE) = <<>>
<1>1. TagEvent \in Message
  BY DEF Message
<1>2. Due(cl, told) \in Seq(Message)
  BY <1>1, EmptySeq DEF Due
<1> QED BY <1>2, ConcatEmptySeq DEF Due

\* An answer is a message.
LEMMA AnswerTyped ==
  ASSUME NEW t \in RequestTypes \cup {"tick"}
  PROVE  Answer(t) \in Message /\ <<Answer(t)>> \in Seq(Message) /\ <<>> \o <<Answer(t)>> = <<Answer(t)>>
<1>1. Answer(t) \in Message
  BY DEF Message
<1> QED BY <1>1

\* handle_ipc_command: the event first, then the answer.
LEMMA CommandHandled ==
  ASSUME NEW cls, AllClients(cls), NEW c \in Clients, cls[c].open,
         NEW r \in Request, r.full, r.type = "command",
         NEW told \in BOOLEAN, NEW new \in HandleCommand(cls, c, told)
  PROVE  Handled(cls, new, c, r, told)
<1> DEFINE after == ExecuteCommand(cls, told)
           m == Answer("command")
<1>1. /\ AllClients(after)
      /\ \A d \in Clients :
           /\ Outcome(cls[d], after[d], Due(cls[d], told))
           /\ after[d] = Freed \/ after[d].subscribed = cls[d].subscribed
  <2>1. CASE told
    <3>1. after = EventTag(cls)
      BY <2>1 DEF ExecuteCommand
    <3>2. \A d \in Clients : Due(cls[d], told) = IF "workspace" \in cls[d].subscribed THEN <<TagEvent>> ELSE <<>>
      BY <2>1 DEF Due
    <3> HIDE DEF after
    <3> QED BY <3>1, <3>2, EventTagTells
  <2>2. CASE ~told
    <3>1. after = cls /\ \A d \in Clients : Due(cls[d], told) = <<>>
      BY <2>2 DEF ExecuteCommand, Due
    <3>2. \A d \in Clients : cls[d] \in Client /\ (cls[d].open \/ cls[d] = Freed)
      BY DEF AllClients
    <3>3. \A d \in Clients : Outcome(cls[d], cls[d], <<>>)
      BY <3>2, OutcomeNone
    <3> HIDE DEF after
    <3> QED BY <3>1, <3>3
  <2> QED BY <2>1, <2>2
<1> HIDE DEF after
<1>2. after[c].open /\ new = [after EXCEPT ![c] = Reply(after[c], m)]
  BY DEF HandleCommand, after
<1>3. m \in Message
  BY AnswerTyped DEF RequestTypes
<1> DEFINE n == Reply(after[c], m)
<1>4. n \in Client /\ (n = Freed \/ (Sent(after[c], n, <<m>>) /\ n.subscribed = after[c].subscribed))
  <2>1. after[c] \in Client
    BY <1>1 DEF AllClients
  <2> QED BY <1>2, <1>3, <2>1, ReplySends
<1> HIDE DEF n, m
<1>5. n.open \/ n = Freed
  BY <1>4 DEF Sent
<1>6. new = [after EXCEPT ![c] = n]
  BY <1>2 DEF n
<1>7. AllClients(new) /\ new[c] = n /\ \A d \in Clients \ {c} : new[d] = after[d]
  <2>1. AllClients([after EXCEPT ![c] = n]) /\ [after EXCEPT ![c] = n][c] = n
        /\ \A d \in Clients \ {c} : [after EXCEPT ![c] = n][d] = after[d]
    <3>1. AllClients(after) /\ n \in Client
      BY <1>1, <1>4
    <3> QED BY <1>5, <3>1, OneChanges
  <2> QED BY <1>6, <2>1, Zenon
<1>8. Promise!AnswersTo(r) = <<m>> /\ ~Promise!Subscribes(r)
  BY AnswersAre DEF m
<1>9. ASSUME NEW d \in Clients
      PROVE  /\ Outcome(cls[d], new[d],
                        Due(cls[d], told) \o (IF d = c THEN Promise!AnswersTo(r) ELSE <<>>))
             /\ \/ new[d] = Freed
                \/ "workspace" \in new[d].subscribed <=>
                     "workspace" \in cls[d].subscribed \/ (d = c /\ Promise!Subscribes(r))
  <2>1. CASE d # c
    <3>1. Due(cls[d], told) \o <<>> = Due(cls[d], told)
      BY DueTyped
    <3> QED BY <1>1, <1>7, <2>1, <3>1
  <2>2. CASE d = c
    <3>1. CASE n = Freed
      BY <1>7, <2>2, <3>1 DEF Outcome
    <3>2. CASE n # Freed
      <4>1. Sent(cls[c], after[c], Due(cls[c], told)) /\ after[c] # Freed
        BY <1>1, <1>2, FreedTyped DEF Outcome
      <4>2. cls[c] \in Client
        BY DEF AllClients
      <4>3. Sent(cls[c], n, Due(cls[c], told) \o <<m>>)
        BY <1>4, <3>2, <4>1, <4>2, SentBoth
      <4>4. n.subscribed = cls[c].subscribed
        BY <1>1, <1>4, <3>2, <4>1
      <4> QED BY <1>7, <1>8, <2>2, <4>3, <4>4 DEF Outcome
    <3> QED BY <3>1, <3>2
  <2> QED BY <2>1, <2>2
<1> QED BY <1>7, <1>9 DEF Handled

\* A handler that changes one connection and tells nobody else.
LEMMA OneHandled ==
  ASSUME NEW cls, AllClients(cls), NEW c \in Clients, NEW r \in Request,
         NEW n \in Client, Outcome(cls[c], n, Promise!AnswersTo(r)),
         Promise!AnswersTo(r) \in Seq(Message),
         n = Freed \/ ("workspace" \in n.subscribed <=>
                         "workspace" \in cls[c].subscribed \/ Promise!Subscribes(r))
  PROVE  Handled(cls, [cls EXCEPT ![c] = n], c, r, FALSE)
<1> DEFINE new == [cls EXCEPT ![c] = n]
           answers == Promise!AnswersTo(r)
<1>1. n.open \/ n = Freed
  BY DEF Outcome, Sent
<1>2. AllClients(new) /\ new[c] = n /\ \A d \in Clients \ {c} : new[d] = cls[d]
  BY <1>1, OneChanges
<1> HIDE DEF new
<1>3. ASSUME NEW d \in Clients
      PROVE  /\ Outcome(cls[d], new[d], Due(cls[d], FALSE) \o (IF d = c THEN answers ELSE <<>>))
             /\ \/ new[d] = Freed
                \/ "workspace" \in new[d].subscribed <=>
                     "workspace" \in cls[d].subscribed \/ (d = c /\ Promise!Subscribes(r))
  <2>1. CASE d # c
    <3>1. Due(cls[d], FALSE) \o <<>> = <<>>
      BY DueTyped
    <3>2. cls[d] \in Client /\ (cls[d].open \/ cls[d] = Freed)
      BY DEF AllClients
    <3>3. Outcome(cls[d], cls[d], <<>>)
      BY <3>2, OutcomeNone
    <3> QED BY <1>2, <2>1, <3>1, <3>3
  <2>2. CASE d = c
    <3>1. Due(cls[d], FALSE) = <<>>
      BY DueTyped
    <3>2. <<>> \o answers = answers
      BY ConcatEmptySeq
    <3>3. new[d] = n
      BY <1>2, <2>2
    <3> HIDE DEF answers
    <3>4. Outcome(cls[d], n, answers)
      BY <2>2 DEF answers
    <3> QED BY <2>2, <3>1, <3>2, <3>3, <3>4
  <2> QED BY <2>1, <2>2
<1>4. Handled(cls, new, c, r, FALSE)
  BY <1>2, <1>3 DEF Handled
<1> QED BY <1>4 DEF new

\* The queries of dispatch_ipc_command are answered at once.
LEMMA QueryHandled ==
  ASSUME NEW cls, AllClients(cls), NEW c \in Clients, cls[c].open,
         NEW r \in Request, r.full, r.type \notin {"malformed", "unknown", "subscribe"},
         NEW new \in HandleQuery(cls, c, r.type)
  PROVE  Handled(cls, new, c, r, FALSE)
<1> DEFINE m == Answer(r.type)
           n == Reply(cls[c], m)
<1>1. r.type \in RequestTypes
  BY DEF Request
<1>2. m \in Message /\ <<m>> \in Seq(Message)
  BY <1>1, AnswerTyped
<1>3. cls[c] \in Client
  BY DEF AllClients
<1>4. n \in Client /\ (n = Freed \/ (Sent(cls[c], n, <<m>>) /\ n.subscribed = cls[c].subscribed))
  BY <1>2, <1>3, ReplySends
<1>5. new = [cls EXCEPT ![c] = n]
  BY DEF HandleQuery
<1>6. Promise!AnswersTo(r) = <<m>> /\ ~Promise!Subscribes(r)
  BY AnswersAre
<1> HIDE DEF n, m
<1>7. /\ Outcome(cls[c], n, Promise!AnswersTo(r)) /\ Promise!AnswersTo(r) \in Seq(Message)
      /\ n = Freed \/ ("workspace" \in n.subscribed <=>
                         "workspace" \in cls[c].subscribed \/ Promise!Subscribes(r))
  BY <1>2, <1>4, <1>6 DEF Outcome
<1> QED BY <1>4, <1>5, <1>7, OneHandled

\* A request of an unknown type has no answer.
LEMMA UnknownHandled ==
  ASSUME NEW cls, AllClients(cls), NEW c \in Clients, cls[c].open,
         NEW r \in Request, r.full, r.type = "unknown"
  PROVE  Handled(cls, cls, c, r, FALSE)
<1>1. cls \in [Clients -> Client] /\ cls[c] \in Client
  BY DEF AllClients
<1>2. cls = [cls EXCEPT ![c] = cls[c]]
  BY <1>1
<1>3. Promise!AnswersTo(r) = <<>> /\ ~Promise!Subscribes(r)
  BY AnswersAre
<1>4. Outcome(cls[c], cls[c], <<>>)
  BY <1>1, OutcomeNone
<1>5. <<>> \in Seq(Message)
  BY EmptySeq
<1>6. Handled(cls, [cls EXCEPT ![c] = cls[c]], c, r, FALSE)
  BY <1>1, <1>3, <1>4, <1>5, OneHandled
<1> QED BY <1>2, <1>6

\* handle_ipc_subscribe: the answer, and the first tick for who asks for ticks.
LEMMA SubscribeHandled ==
  ASSUME NEW cls, AllClients(cls), NEW c \in Clients, cls[c].open,
         NEW r \in Request, r.full, r.type = "subscribe",
         NEW new \in HandleSubscribe(cls, c, r.events)
  PROVE  Handled(cls, new, c, r, FALSE)
<1> DEFINE named   == [cls[c] EXCEPT !.subscribed = @ \cup r.events]
           m       == Answer("subscribe")
           granted == Reply(named, m)
           tick    == Answer("tick")
           ticked  == IF "tick" \in r.events THEN Reply(granted, tick) ELSE granted
<1>1. /\ new = [cls EXCEPT ![c] = ticked]
      /\ "tick" \in r.events => granted.open
  BY DEF HandleSubscribe
<1>2. m \in Message /\ tick \in Message /\ <<m>> \in Seq(Message) /\ <<m, tick>> = <<m>> \o <<tick>>
      /\ <<m, tick>> \in Seq(Message)
  <2>1. m \in Message /\ tick \in Message
    BY AnswerTyped DEF RequestTypes
  <2> HIDE DEF m, tick
  <2>2. <<m>> \in Seq(Message) /\ <<m, tick>> \in Seq(Message)
    BY <2>1
  <2>3. <<m, tick>> = <<m>> \o <<tick>>
    <3> DEFINE a == <<m>>
               b == <<tick>>
               d == <<m, tick>>
    <3>1. /\ a \in Seq(Message) /\ Len(a) = 1 /\ a[1] = m
          /\ b \in Seq(Message) /\ Len(b) = 1 /\ b[1] = tick
          /\ d \in Seq(Message) /\ Len(d) = 2 /\ d[1] = m /\ d[2] = tick
      BY <2>1
    <3> HIDE DEF a, b, d
    <3>2. a \o b \in Seq(Message) /\ Len(a \o b) = 2 /\ (a \o b)[1] = m /\ (a \o b)[2] = tick
      BY <3>1, ConcatProperties
    <3>3. a \o b = d
      BY <3>1, <3>2, SeqEqual
    <3> QED BY <3>3 DEF a, b, d
  <2> QED BY <2>1, <2>2, <2>3
<1>3. cls[c] \in Client
  BY DEF AllClients
<1>4. named \in Client /\ named.open /\ named.buffer = cls[c].buffer
      /\ named.subscribed = cls[c].subscribed \cup r.events
  BY <1>3 DEF Client, Request
<1>5. Sent(cls[c], named, <<>>)
  <2>1. cls[c].buffer = cls[c].buffer \o <<>>
    BY <1>3, ConcatEmptySeq DEF Client
  <2> HIDE DEF named
  <2> QED BY <1>4, <2>1, CarriesNone DEF Sent
<1>6. /\ Promise!AnswersTo(r) = IF "tick" \in r.events THEN <<m, tick>> ELSE <<m>>
      /\ Promise!Subscribes(r) <=> "workspace" \in r.events
  BY AnswersAre
<1> HIDE DEF named, m, tick
<1>7. granted \in Client /\ (granted = Freed \/ (Sent(named, granted, <<m>>) /\ granted.subscribed = named.subscribed))
  BY <1>2, <1>4, ReplySends
<1>8. granted = Freed \/ Sent(cls[c], granted, <<m>>)
  <2>1. ASSUME Sent(named, granted, <<m>>) PROVE Sent(cls[c], granted, <<m>>)
    <3>1. Sent(cls[c], granted, <<>> \o <<m>>)
      BY <1>3, <1>5, <2>1, SentBoth
    <3>2. <<>> \o <<m>> = <<m>>
      BY <1>2, ConcatEmptySeq
    <3> QED BY <3>1, <3>2
  <2> QED BY <1>7, <2>1
<1>9. /\ ticked \in Client /\ Outcome(cls[c], ticked, Promise!AnswersTo(r))
      /\ ticked = Freed \/ ticked.subscribed = named.subscribed
  <2>1. CASE "tick" \in r.events
    <3> DEFINE n == Reply(granted, tick)
    <3>1. granted.open /\ granted # Freed
      BY <1>1, <2>1, FreedTyped
    <3>2. n \in Client /\ (n = Freed \/ (Sent(granted, n, <<tick>>) /\ n.subscribed = granted.subscribed))
      <4> HIDE DEF granted
      <4> QED BY <1>2, <1>7, <3>1, ReplySends
    <3>3. n = Freed \/ Sent(cls[c], n, <<m, tick>>)
      <4> HIDE DEF granted, n
      <4>1. ASSUME Sent(granted, n, <<tick>>) PROVE Sent(cls[c], n, <<m>> \o <<tick>>)
        BY <1>3, <1>8, <3>1, <4>1, SentBoth
      <4> QED BY <1>2, <3>2, <4>1
    <3>4. ticked = n
      BY <2>1
    <3> HIDE DEF ticked, n, granted
    <3> QED BY <1>6, <1>7, <2>1, <3>1, <3>2, <3>3, <3>4 DEF Outcome
  <2>2. CASE "tick" \notin r.events
    <3>1. ticked = granted
      BY <2>2
    <3> HIDE DEF ticked, granted
    <3> QED BY <1>6, <1>7, <1>8, <2>2, <3>1 DEF Outcome
  <2> QED BY <2>1, <2>2
<1> HIDE DEF ticked, granted
<1>10. Promise!AnswersTo(r) \in Seq(Message)
  BY <1>2, <1>6
<1>11. ticked = Freed \/ ("workspace" \in ticked.subscribed <=>
                           "workspace" \in cls[c].subscribed \/ Promise!Subscribes(r))
  BY <1>4, <1>6, <1>9
<1> QED BY <1>1, <1>9, <1>10, <1>11, OneHandled

\* dispatch_ipc_command
LEMMA DispatchHandled ==
  ASSUME NEW cls, AllClients(cls), NEW c \in Clients, cls[c].open,
         NEW r \in Request, r.full, r.type # "malformed",
         NEW changesTags \in BOOLEAN, NEW new \in Dispatch(cls, c, r, changesTags)
  PROVE  \E told \in BOOLEAN : Handled(cls, new, c, r, told)
<1>1. CASE r.type = "command"
  <2>1. new \in HandleCommand(cls, c, changesTags)
    BY <1>1 DEF Dispatch
  <2> QED BY <1>1, <2>1, CommandHandled
<1>2. CASE r.type = "subscribe"
  <2>1. new \in HandleSubscribe(cls, c, r.events)
    BY <1>2 DEF Dispatch
  <2> QED BY <1>2, <2>1, SubscribeHandled
<1>3. CASE r.type = "unknown"
  <2>1. new = cls
    BY <1>3 DEF Dispatch
  <2> QED BY <1>3, <2>1, UnknownHandled
<1>4. CASE r.type \notin {"command", "subscribe", "unknown"}
  <2>1. new \in HandleQuery(cls, c, r.type)
    BY <1>4 DEF Dispatch
  <2> QED BY <1>4, <2>1, QueryHandled
<1> QED BY <1>1, <1>2, <1>3, <1>4

Sockets == {"none", "connected", "hung_up", "shut", "reset"}
Nobody  == {"none", "hung_up"}
Gots    == {<<>>} \cup {<<Part("header", m)>> : m \in {n \in Message : n.full}}

TheCommand == [type |-> "command", full |-> TRUE, events |-> {}]

\* The invariant, for one connection: its struct, socket, inbox, outbox and what the
\* client has read; where its japokmsg is ("bar" for a bar) and whether its command
\* is empty.
ClientTyped(cl, sk, in, out, g) ==
  /\ cl \in Client /\ sk \in Sockets
  /\ in \in Seq(PartOf(Request)) /\ out \in Seq(PartOf(Message))
  /\ g \in Gots

AnswersClean(cl, sk, out, g) ==
  cl.open /\ sk = "connected" => Clean(g \o out \o cl.buffer)

RequestsClean(sk, in, p, e) ==
  /\ Paired(in)
  /\ Open(in) => p = "asking" /\ ~e
  /\ p = "asking" /\ ~e /\ sk = "connected" =>
       in # <<>> /\ in[Len(in)] = Part("header", TheCommand)

EndsAgree(cl, sk, in, out, g, p) ==
  /\ ~cl.open => cl = Freed
  /\ sk \in {"none", "shut", "reset"} => ~cl.open /\ in = <<>>
  /\ sk \in Nobody \/ (sk = "connected" /\ ~cl.open) => out = <<>> /\ g = <<>>
  /\ p # "bar" => (p = "idle" <=> sk \in Nobody)

ClientSound(cl, sk, in, out, g, p, e) ==
  /\ ClientTyped(cl, sk, in, out, g)
  /\ AnswersClean(cl, sk, out, g)
  /\ RequestsClean(sk, in, p, e)
  /\ EndsAgree(cl, sk, in, out, g, p)

Place(c) == IF c \in Messengers THEN pc[c] ELSE "bar"
Dumb(c)  == IF c \in Messengers THEN empty[c] ELSE FALSE
Sound(c) == ClientSound(clients[c], socket[c], inbox[c], outbox[c], got[c], Place(c), Dumb(c))

\* The variables are functions on the clients.
Shapes ==
  /\ clients = [c \in Clients |-> clients[c]]
  /\ socket = [c \in Clients |-> socket[c]]
  /\ inbox = [c \in Clients |-> inbox[c]]
  /\ outbox = [c \in Clients |-> outbox[c]]
  /\ got = [c \in Clients |-> got[c]]
  /\ status \in {"running", "stopped", "undefined"}
  /\ pc \in [Messengers -> {"idle", "connected", "asking", "waiting", "reading",
                            "printed", "aborted", "spinning"}]
  /\ empty \in [Messengers -> BOOLEAN]

\* The command that a japokmsg sends.
LEMMA CommandIs ==
  ASSUME NEW c \in Clients, Dumb(c) \in BOOLEAN, c \in Messengers
  PROVE  /\ Command(c) \in Commands /\ Command(c) \in Request
         /\ Command(c).full = ~Dumb(c) /\ Command(c).type = "command" /\ Command(c).events = {}
         /\ ~Dumb(c) => Command(c) = TheCommand
<1> DEFINE r == [type |-> "command", full |-> ~Dumb(c), events |-> {}]
<1>1. Dumb(c) = empty[c]
  BY DEF Dumb
<1>2. r \in Commands /\ r.full = ~empty[c]
  BY <1>1 DEF Commands
<1>3. Command(c) \in Commands /\ Command(c).full = ~empty[c]
  <2> HIDE DEF r
  <2> QED BY <1>2, Zenon DEF Command
<1> DEFINE q == Command(c)
<1>4. q \in Commands
  BY <1>3
<1> HIDE DEF q
<1>5. q \in Request /\ q.type = "command" /\ q.events = {}
      /\ q = [type |-> q.type, full |-> q.full, events |-> q.events]
  BY <1>4 DEF Commands, Request, RequestTypes, EventNames
<1>6. ~Dumb(c) => q.full = TRUE
  BY <1>1, <1>3 DEF q
<1>7. ~Dumb(c) => q = TheCommand
  BY <1>5, <1>6, Zenon DEF TheCommand
<1> QED BY <1>1, <1>3, <1>5, <1>7 DEF q

\* The invariant StreamSound is Sound of every connection.
LEMMA SoundIs == StreamSound <=> Shapes /\ \A c \in Clients : Sound(c)
<1>1. ASSUME StreamSound PROVE Shapes
  BY <1>1 DEF StreamSound, TypeOK, ServerTypeOK, Shapes
<1>2. ASSUME StreamSound, NEW c \in Clients PROVE Sound(c)
  <2>1. ClientTyped(clients[c], socket[c], inbox[c], outbox[c], got[c])
    BY <1>2 DEF StreamSound, TypeOK, ServerTypeOK, ClientTyped, Sockets, Gots
  <2>2. AnswersClean(clients[c], socket[c], outbox[c], got[c])
    BY <1>2 DEF StreamSound, StreamIsWhole, AnswersClean, Clean
  <2>3. RequestsClean(socket[c], inbox[c], Place(c), Dumb(c))
    <3>1. Place(c) = "asking" => c \in Messengers /\ pc[c] = "asking" /\ Dumb(c) = empty[c] /\ Dumb(c) \in BOOLEAN
      BY <1>2 DEF Place, Dumb, StreamSound, TypeOK
    <3>2. c \in Messengers /\ pc[c] = "asking" /\ ~empty[c] => Place(c) = "asking" /\ ~Dumb(c)
      BY DEF Place, Dumb
    <3>3. /\ Paired(inbox[c])
          /\ Open(inbox[c]) => c \in Messengers /\ pc[c] = "asking" /\ ~empty[c]
          /\ c \in Messengers /\ pc[c] = "asking" /\ ~empty[c] /\ socket[c] = "connected" =>
               inbox[c] # <<>> /\ inbox[c][Len(inbox[c])] = Part("header", Command(c))
      BY <1>2 DEF StreamSound, RequestsAreWhole
    <3>4. Place(c) = "asking" /\ ~Dumb(c) => Command(c) = TheCommand
      BY <3>1, CommandIs
    <3> QED BY <3>1, <3>2, <3>3, <3>4 DEF RequestsClean
  <2>4. EndsAgree(clients[c], socket[c], inbox[c], outbox[c], got[c], Place(c))
    <3>1. Place(c) # "bar" => c \in Messengers /\ Place(c) = pc[c]
      BY DEF Place
    <3> QED BY <1>2, <3>1 DEF StreamSound, ConnectionsAgree, EndsAgree, Nobody, Listens
  <2> QED BY <2>1, <2>2, <2>3, <2>4 DEF Sound, ClientSound
<1>3. ASSUME Shapes, \A c \in Clients : Sound(c) PROVE StreamSound
  <2>1. \A c \in Clients :
          /\ ClientTyped(clients[c], socket[c], inbox[c], outbox[c], got[c])
          /\ AnswersClean(clients[c], socket[c], outbox[c], got[c])
          /\ RequestsClean(socket[c], inbox[c], Place(c), Dumb(c))
          /\ EndsAgree(clients[c], socket[c], inbox[c], outbox[c], got[c], Place(c))
    BY <1>3 DEF Sound, ClientSound
  <2>2. TypeOK
    BY <1>3, <2>1 DEF TypeOK, ServerTypeOK, Shapes, ClientTyped, Sockets, Gots
  <2>3. StreamIsWhole
    BY <2>1 DEF StreamIsWhole, AnswersClean, Clean
  <2>4. RequestsAreWhole
    <3> SUFFICES ASSUME NEW c \in Clients
                 PROVE  /\ Paired(inbox[c])
                        /\ Open(inbox[c]) => c \in Messengers /\ pc[c] = "asking" /\ ~empty[c]
                        /\ c \in Messengers /\ pc[c] = "asking" /\ ~empty[c] /\ socket[c] = "connected" =>
                             inbox[c] # <<>> /\ inbox[c][Len(inbox[c])] = Part("header", Command(c))
      BY DEF RequestsAreWhole
    <3>1. Place(c) = "asking" => c \in Messengers /\ pc[c] = "asking" /\ Dumb(c) = empty[c] /\ Dumb(c) \in BOOLEAN
      BY <1>3 DEF Place, Dumb, Shapes
    <3>2. c \in Messengers /\ pc[c] = "asking" /\ ~empty[c] => Place(c) = "asking" /\ ~Dumb(c)
      BY DEF Place, Dumb
    <3>3. Place(c) = "asking" /\ ~Dumb(c) => Command(c) = TheCommand
      BY <3>1, CommandIs
    <3> QED BY <2>1, <3>1, <3>2, <3>3 DEF RequestsClean
  <2>5. ConnectionsAgree
    <3>1. \A c \in Messengers : Place(c) = pc[c] /\ c \in Clients /\ pc[c] # "bar"
      BY <1>3, MessengersAssumption DEF Place, Shapes
    <3> QED BY <2>1, <3>1 DEF ConnectionsAgree, EndsAgree, Nobody, Listens
  <2> QED BY <2>2, <2>3, <2>4, <2>5 DEF StreamSound
<1> QED BY <1>1, <1>2, <1>3

\* What holds of the structs in particular.
LEMMA SoundClients ==
  ASSUME StreamSound
  PROVE  /\ AllClients(clients)
         /\ \A c \in Clients : clients[c].open =>
              socket[c] \in {"connected", "hung_up"} /\ clients[c] # Freed
<1>1. Shapes /\ \A c \in Clients : Sound(c)
  BY SoundIs
<1>2. \A c \in Clients :
        /\ clients[c] \in Client /\ (~clients[c].open => clients[c] = Freed)
        /\ clients[c].open => socket[c] \in {"connected", "hung_up"}
  BY <1>1 DEF Sound, ClientSound, ClientTyped, EndsAgree, Sockets
<1>3. clients \in [Clients -> Client]
  BY <1>1, <1>2 DEF Shapes
<1> QED BY <1>2, <1>3, FreedTyped DEF AllClients

\* The connection is freed: its socket is shut and what was not read is lost.
LEMMA LostSound ==
  ASSUME NEW cl, NEW sk, NEW in, NEW out, NEW g, NEW p, NEW e, ClientSound(cl, sk, in, out, g, p, e),
         NEW sk2 \in {"none", "shut", "reset"}, sk2 = "none" <=> sk \in Nobody
  PROVE  ClientSound(Freed, sk2, <<>>, out, g, p, e)
<1>1. ClientTyped(Freed, sk2, <<>>, out, g)
  BY FreedTyped, EmptySeq DEF ClientSound, ClientTyped, Sockets
<1>2. AnswersClean(Freed, sk2, out, g)
  BY FreedTyped DEF AnswersClean
<1>3. RequestsClean(sk2, <<>>, p, e)
  BY CleanEmpty DEF RequestsClean, Clean
<1>4. EndsAgree(Freed, sk2, <<>>, out, g, p)
  BY FreedTyped DEF EndsAgree, ClientSound, Nobody
<1> QED BY <1>1, <1>2, <1>3, <1>4 DEF ClientSound

\* What a client holds back is nothing or a header that announces a payload.
LEMMA GotsTyped ==
  ASSUME NEW g \in Gots
  PROVE  /\ g \in Seq(PartOf(Message)) /\ Clean(<<>>)
         /\ g = <<>> \/ \E m \in Message : m.full /\ g = <<Part("header", m)>>
<1>1. \A m \in Message : Part("header", m) \in PartOf(Message)
  BY DEF Part, PartOf
<1>2. g = <<>> \/ \E m \in Message : m.full /\ g = <<Part("header", m)>>
  BY DEF Gots
<1>3. g \in Seq(PartOf(Message))
  <2> DEFINE X == PartOf(Message)
  <2>1. g = <<>> \/ \E x \in X : g = <<x>>
    BY <1>1, <1>2
  <2>2. \A x \in X : <<x>> \in Seq(X)
    OBVIOUS
  <2>3. <<>> \in Seq(X)
    BY EmptySeq
  <2> QED BY <2>1, <2>2, <2>3, Zenon
<1> QED BY <1>2, <1>3, CleanEmpty

\* The connection is sent messages.
LEMMA SentSound ==
  ASSUME NEW cl, NEW sk, NEW in, NEW out, NEW g, NEW p, NEW e, ClientSound(cl, sk, in, out, g, p, e),
         NEW new \in Client, NEW ms, Sent(cl, new, ms)
  PROVE  ClientSound(new, sk, in, out, g, p, e)
<1>1. PICK parts : Carries(parts, ms) /\ new.buffer = cl.buffer \o parts
  BY DEF Sent
<1>2. cl.open /\ new.open
  BY DEF Sent
<1> DEFINE s == g \o out
           b == cl.buffer
<1>3. /\ g \in Seq(PartOf(Message)) /\ s \in Seq(PartOf(Message)) /\ b \in Seq(PartOf(Message))
      /\ parts \in Seq(PartOf(Message)) /\ s \o b \in Seq(PartOf(Message))
  <2>1. g \in Seq(PartOf(Message)) /\ out \in Seq(PartOf(Message)) /\ b \in Seq(PartOf(Message))
    BY GotsTyped DEF ClientSound, ClientTyped, Client
  <2>2. s \in Seq(PartOf(Message))
    BY <2>1, ConcatProperties
  <2> HIDE DEF s, b
  <2> QED BY <1>1, <2>1, <2>2, ConcatProperties DEF Carries
<1>4. AnswersClean(new, sk, out, g)
  <2> SUFFICES ASSUME sk = "connected" PROVE Clean(s \o new.buffer)
    BY DEF AnswersClean
  <2>1. Clean(s \o b)
    BY <1>2 DEF ClientSound, AnswersClean
  <2> HIDE DEF s, b
  <2>2. Clean((s \o b) \o parts)
    BY <1>1, <1>3, <2>1 DEF Carries
  <2>3. (s \o b) \o parts = s \o (b \o parts)
    BY <1>3, ConcatAssociative
  <2>4. new.buffer = b \o parts
    BY <1>1 DEF b
  <2> QED BY <2>2, <2>3, <2>4
<1>5. ClientTyped(new, sk, in, out, g)
  BY DEF ClientSound, ClientTyped
<1>6. EndsAgree(new, sk, in, out, g, p)
  BY <1>2 DEF ClientSound, EndsAgree
<1> QED BY <1>4, <1>5, <1>6 DEF ClientSound

\* Some of the parts are gone from the front, and it can still be read.
Taken(in, in2) ==
  /\ in2 \in Seq(PartOf(Request)) /\ Paired(in2)
  /\ Open(in2) => Open(in)
  /\ Open(in) => in2 # <<>> /\ in2[Len(in2)] = in[Len(in)]

\* The server reads requests from the front (ipc_client_handle_readable).
LEMMA TakenSound ==
  ASSUME NEW cl, NEW sk, NEW in, NEW out, NEW g, NEW p, NEW e, ClientSound(cl, sk, in, out, g, p, e),
         cl.open, NEW in2, Taken(in, in2)
  PROVE  ClientSound(cl, sk, in2, out, g, p, e)
<1>1. ClientTyped(cl, sk, in2, out, g)
  BY DEF ClientSound, ClientTyped, Taken
<1>2. RequestsClean(sk, in2, p, e)
  <2>1. RequestsClean(sk, in, p, e)
    BY DEF ClientSound
  <2>2. ASSUME p = "asking" /\ ~e /\ sk = "connected"
        PROVE  in2 # <<>> /\ in2[Len(in2)] = Part("header", TheCommand)
    <3>1. in # <<>> /\ in[Len(in)] = Part("header", TheCommand)
      BY <2>1, <2>2 DEF RequestsClean
    <3>2. ~IsLast(in[Len(in)])
      BY <3>1 DEF IsLast, Part, TheCommand
    <3>3. Open(in)
      BY <3>1, <3>2 DEF Open
    <3> QED BY <3>1, <3>3 DEF Taken
  <2> QED BY <2>1, <2>2 DEF RequestsClean, Taken
<1>3. EndsAgree(cl, sk, in2, out, g, p)
  BY DEF ClientSound, EndsAgree
<1> QED BY <1>1, <1>2, <1>3 DEF ClientSound

\* A request without a payload is taken ...
LEMMA TakenTail ==
  ASSUME NEW in \in Seq(PartOf(Request)), Paired(in), in # <<>>, IsLast(Head(in))
  PROVE  Taken(in, Tail(in))
<1>1. /\ Tail(in) \in Seq(PartOf(Request)) /\ Paired(Tail(in))
      /\ Tail(in) # <<>> => Tail(in)[Len(Tail(in))] = in[Len(in)]
      /\ Open(Tail(in)) => Open(in)
  BY PairedTail, MessagesRequest
<1>2. ASSUME Tail(in) = <<>> PROVE ~Open(in)
  <2>1. Len(in) = 1
    <3>1. Len(Tail(in)) = Len(in) - 1 /\ Len(in) \in Nat
      BY HeadTailProperties, PairedAt
    <3>2. Len(<<>>) = 0
      OBVIOUS
    <3>3. Len(Tail(in)) = 0
      BY <1>2, <3>2, Zenon
    <3> DEFINE k == Len(Tail(in))
    <3>4. k = Len(in) - 1 /\ k = 0 /\ Len(in) \in Nat
      BY <3>1, <3>3
    <3> HIDE DEF k
    <3> QED BY <3>4
  <2>2. Head(in) = in[1]
    BY PairedAt
  <2> QED BY <2>1, <2>2 DEF Open
<1> QED BY <1>1, <1>2 DEF Taken

\* ... or one with its payload.
LEMMA TakenRest ==
  ASSUME NEW in \in Seq(PartOf(Request)), Paired(in), in # <<>>, ~IsLast(Head(in)), Len(in) > 1
  PROVE  Taken(in, SubSeq(in, 3, Len(in)))
<1> DEFINE t == SubSeq(in, 3, Len(in))
           m == Head(in).msg
<1>1. /\ t \in Seq(PartOf(Request)) /\ Paired(t)
      /\ IF t = <<>> THEN in[Len(in)] = Part("payload", m) ELSE t[Len(t)] = in[Len(in)]
      /\ Open(t) => Open(in)
  BY PairedRest, MessagesRequest
<1>2. IsLast(Part("payload", m))
  BY DEF IsLast, Part
<1> HIDE DEF t
<1>3. Taken(in, t)
  BY <1>1, <1>2 DEF Taken, Open
<1> QED BY <1>3 DEF t

\* The client reads the next part.
ReadBy(g, out, g2, out2) ==
  /\ out # <<>>
  /\ out2 = Tail(out)
  /\ g2 = IF Head(out).part = "header" /\ Head(out).msg.full THEN <<Head(out)>> ELSE <<>>

\* A sequence that is put behind a first element.
LEMMA Behind ==
  ASSUME NEW X, NEW x \in X, NEW t \in Seq(X)
  PROVE  /\ <<x>> \o t \in Seq(X) /\ <<x>> \o t # <<>> /\ Len(<<x>> \o t) = 1 + Len(t)
         /\ Head(<<x>> \o t) = x /\ Tail(<<x>> \o t) = t /\ Len(t) \in Nat
<1> DEFINE a == <<x>>
           s == a \o t
<1>0. a \in Seq(X) /\ Len(a) = 1 /\ a[1] = x
  OBVIOUS
<1> HIDE DEF a
<1>1. /\ s \in Seq(X) /\ Len(s) = 1 + Len(t) /\ Len(t) \in Nat
      /\ \A i \in 1..(1 + Len(t)) : s[i] = IF i <= 1 THEN a[i] ELSE t[i - 1]
  <2>1. /\ a \o t \in Seq(X) /\ Len(a \o t) = Len(a) + Len(t)
        /\ \A i \in 1..(Len(a) + Len(t)) : (a \o t)[i] = IF i <= Len(a) THEN a[i] ELSE t[i - Len(a)]
    BY <1>0, ConcatProperties
  <2>2. Len(t) \in Nat
    BY LenProperties
  <2> QED BY <1>0, <2>1, <2>2
<1> HIDE DEF s
<1>2. s # <<>>
  BY <1>1, EmptySeq
<1>3. Head(s) = s[1] /\ s[1] = x
  BY <1>0, <1>1, <1>2
<1>4. /\ Tail(s) \in Seq(X) /\ Len(Tail(s)) = Len(s) - 1
      /\ \A i \in 1..Len(Tail(s)) : Tail(s)[i] = s[i + 1]
  BY <1>1, <1>2, HeadTailProperties
<1>5. ASSUME NEW i \in 1..Len(t) PROVE Tail(s)[i] = t[i]
  <2>1. i \in 1..Len(Tail(s)) /\ i + 1 \in 1..(1 + Len(t)) /\ ~(i + 1 <= 1) /\ (i + 1) - 1 = i
    BY <1>1, <1>4
  <2> QED BY <1>1, <1>4, <2>1
<1>6. Tail(s) = t
  BY <1>1, <1>4, <1>5, SeqEqual
<1> QED BY <1>1, <1>2, <1>3, <1>6 DEF s, a

\* A sequence is its first element and the others.
LEMMA HeadAndTail ==
  ASSUME NEW X, NEW s \in Seq(X), s # <<>>
  PROVE  /\ Head(s) \in X /\ Tail(s) \in Seq(X)
         /\ s = <<Head(s)>> \o Tail(s)
<1> DEFINE h == Head(s)
           t == Tail(s)
           v == <<h>> \o t
<1>1. /\ h \in X /\ t \in Seq(X) /\ Len(t) = Len(s) - 1
      /\ \A i \in 1..Len(t) : t[i] = s[i + 1]
  BY HeadTailProperties
<1>2. h = s[1] /\ Len(s) \in Nat
  OBVIOUS
<1> HIDE DEF h, t
<1>3. /\ v \in Seq(X) /\ v # <<>> /\ Len(v) = 1 + Len(t) /\ Head(v) = h /\ Tail(v) = t /\ Len(t) \in Nat
  BY <1>1, Behind
<1> HIDE DEF v
<1>4. Head(v) = v[1] /\ \A i \in 1..Len(t) : t[i] = v[i + 1]
  <2>1. Head(v) = v[1]
    BY <1>3
  <2>2. \A i \in 1..Len(Tail(v)) : Tail(v)[i] = v[i + 1]
    BY <1>3, HeadTailProperties
  <2> QED BY <1>3, <2>1, <2>2
<1>5. ASSUME NEW i \in 1..Len(s) PROVE s[i] = v[i]
  <2>1. CASE i = 1
    BY <1>2, <1>3, <1>4, <2>1
  <2>2. CASE i # 1
    <3>1. i - 1 \in 1..Len(t) /\ (i - 1) + 1 = i
      BY <1>1, <1>2, <2>2
    <3> QED BY <1>1, <1>4, <3>1
  <2> QED BY <2>1, <2>2
<1>6. Len(s) = Len(v)
  BY <1>1, <1>2, <1>3
<1>7. s = v
  BY <1>3, <1>5, <1>6, SeqEqual
<1> QED BY <1>1, <1>7 DEF h, t, v

\* What is read leaves whole messages, and the payload it announces first.
LEMMA ReadKeepsClean ==
  ASSUME NEW g \in Gots, NEW out \in Seq(PartOf(Message)), NEW b \in Seq(PartOf(Message)),
         Clean(g \o out \o b), NEW g2, NEW out2, ReadBy(g, out, g2, out2)
  PROVE  Clean(g2 \o out2 \o b)
<1> DEFINE X == PartOf(Message)
           h == Head(out)
           s == out \o b
           t == out2 \o b
<1>1. h \in X /\ out2 \in Seq(X) /\ out = <<h>> \o out2 /\ <<h>> \in Seq(X)
  BY HeadAndTail DEF ReadBy
<1>2. s \in Seq(X) /\ t \in Seq(X) /\ s = <<h>> \o t
  <2> HIDE DEF h
  <2>1. s \in Seq(X) /\ t \in Seq(X)
    BY <1>1, ConcatProperties
  <2> DEFINE a == <<h>>
  <2>2. a \in Seq(X) /\ out2 \in Seq(X) /\ b \in Seq(X) /\ out = a \o out2
    BY <1>1
  <2> HIDE DEF a, X
  <2>3. (a \o out2) \o b = a \o (out2 \o b)
    BY <2>2, ConcatAssociative
  <2> QED BY <2>1, <2>2, <2>3 DEF a
<1>3. /\ s # <<>> /\ Head(s) = h /\ Tail(s) = t
  <2> HIDE DEF h, s, t, X
  <2> QED BY <1>1, <1>2, Behind
<1>4. (g \o out) \o b = g \o s /\ (g2 \o out2) \o b = g2 \o t /\ g2 \in Seq(X)
  <2>1. g \in Seq(X) /\ out \in Seq(X) /\ b \in Seq(X) /\ g2 \in Seq(X) /\ out2 \in Seq(X)
    BY <1>1, GotsTyped, EmptySeq DEF ReadBy
  <2> HIDE DEF X
  <2>2. \A x, y, z \in Seq(X) : (x \o y) \o z = x \o (y \o z)
    BY ConcatAssociative
  <2>3. (g \o out) \o b = g \o (out \o b)
    BY <2>1, <2>2, Zenon
  <2>4. (g2 \o out2) \o b = g2 \o (out2 \o b)
    BY <2>1, <2>2, Zenon
  <2> QED BY <2>1, <2>3, <2>4
<1>5. h.part \in {"header", "payload"} /\ h.msg \in Message /\ h = Part(h.part, h.msg)
      /\ (IsLast(h) <=> ~(h.part = "header" /\ h.msg.full))
  <2> HIDE DEF h
  <2> QED BY <1>1, PartFields, MessagesMessage
<1>6. g2 = IF IsLast(h) THEN <<>> ELSE <<h>>
  BY <1>5 DEF ReadBy
<1>7. Clean(g \o s)
  BY <1>4
<1> HIDE DEF h, s, t, X
<1>8. CASE g = <<>>
  <2>1. Clean(s)
    <3>1. <<>> \o s = s
      BY <1>2, ConcatEmptySeq
    <3> QED BY <1>7, <1>8, <3>1
  <2>2. CASE IsLast(h)
    <3>1. Paired(t) /\ (Open(t) => Open(s))
      BY <1>2, <1>3, <2>1, <2>2, PairedTail, MessagesMessage DEF Clean, X
    <3>2. <<>> \o t = t
      BY <1>2, ConcatEmptySeq
    <3> QED BY <1>4, <1>6, <2>1, <2>2, <3>1, <3>2 DEF Clean
  <2>3. CASE ~IsLast(h)
    BY <1>2, <1>4, <1>6, <2>1, <2>3
  <2> QED BY <2>2, <2>3
<1>9. CASE g # <<>>
  <2>1. PICK m \in Message : m.full /\ g = <<Part("header", m)>>
    BY <1>9, GotsTyped
  <2> DEFINE k == Part("header", m)
             v == <<k>> \o s
  <2>2. k \in X /\ ~IsLast(k) /\ k.msg = m
    BY <2>1 DEF Part, PartOf, IsLast, X
  <2>3. Clean(v)
    BY <1>7, <2>1
  <2>4. /\ v \in Seq(X) /\ v # <<>> /\ Head(v) = k /\ Tail(v) = s /\ Len(v) > 1
    <3> HIDE DEF k
    <3>1. v \in Seq(X) /\ v # <<>> /\ Head(v) = k /\ Tail(v) = s /\ Len(v) = 1 + Len(s) /\ Len(s) \in Nat
      BY <1>2, <2>2, Behind
    <3>2. Len(s) # 0
      BY <1>2, <1>3
    <3> HIDE DEF v
    <3> QED BY <3>1, <3>2
  <2> HIDE DEF k, v
  <2>5. /\ Head(Tail(v)) = Part("payload", k.msg) /\ Paired(Tail(Tail(v)))
        /\ Open(Tail(Tail(v))) => Open(v)
    <3> DEFINE w == Tail(v)
    <3>1. v \in Seq(PartOf(Message)) /\ Paired(v) /\ ~IsLast(Head(v)) /\ Messages(Message)
      BY <2>2, <2>3, <2>4, MessagesMessage DEF Clean, X
    <3>2. /\ Head(Tail(v)) = Part("payload", Head(v).msg)
          /\ SubSeq(v, 3, Len(v)) = Tail(Tail(v)) /\ Paired(SubSeq(v, 3, Len(v)))
          /\ Open(SubSeq(v, 3, Len(v))) => Open(v)
      BY <2>4, <3>1, PairedRest
    <3> QED BY <2>4, <3>2
  <2>6. h = Part("payload", m) /\ Clean(t)
    BY <1>3, <2>2, <2>3, <2>4, <2>5 DEF Clean
  <2>7. IsLast(h)
    BY <2>6 DEF IsLast, Part
  <2>8. <<>> \o t = t
    BY <1>2, ConcatEmptySeq
  <2> QED BY <1>4, <1>6, <2>6, <2>7, <2>8
<1> QED BY <1>8, <1>9 DEF t

\* The invariant after a step, connection by connection.
LEMMA SoundNext == Shapes' /\ (\A c \in Clients : Sound(c)') => StreamSound'
<1>1. (Shapes /\ \A c \in Clients : Sound(c))' => StreamSound'
  BY SoundIs, PTL
<1> QED BY <1>1

\* Nothing of a connection changes.
Untouched(d) ==
  /\ clients'[d] = clients[d] /\ socket'[d] = socket[d]
  /\ inbox'[d] = inbox[d] /\ outbox'[d] = outbox[d] /\ got'[d] = got[d]
  /\ Place(d)' = Place(d) /\ Dumb(d)' = Dumb(d)

\* A connection that a step does not touch stays sound.
LEMMA UntouchedSound ==
  ASSUME NEW d \in Clients, Sound(d), Untouched(d) PROVE Sound(d)'
  BY DEF Sound, Untouched

\* A step that changes one connection.
LEMMA OneSound ==
  ASSUME NEW c \in Clients, StreamSound, Shapes', Sound(c)', \A d \in Clients \ {c} : Untouched(d)
  PROVE  StreamSound'
<1>1. \A d \in Clients : Sound(d)
  BY SoundIs
<1>2. \A d \in Clients : Sound(d)'
  BY <1>1, UntouchedSound
<1> QED BY <1>2, SoundNext

\* ipc_handle_connection
LEMMA AcceptSound ==
  ASSUME StreamSound, NEW c \in Clients, Accept(c), UNCHANGED <<pc, empty, got>>
  PROVE  StreamSound'
<1>1. Shapes /\ Sound(c)
  BY SoundIs
<1>2. /\ clients' = [clients EXCEPT ![c] = Fresh] /\ ~clients[c].open
      /\ socket[c] \in {"connected", "hung_up"}
      /\ UNCHANGED <<socket, inbox, outbox, status, pc, empty, got>>
  BY DEF Accept
<1>3. Shapes'
  BY <1>1, <1>2 DEF Shapes
<1>4. clients'[c] = Fresh
  BY <1>1, <1>2 DEF Shapes
<1>5. \A d \in Clients \ {c} : Untouched(d)
  BY <1>1, <1>2 DEF Shapes, Untouched, Place, Dumb
<1>6. ClientSound(Fresh, socket[c], inbox[c], outbox[c], got[c], Place(c), Dumb(c))
  <2>1. Fresh \in Client /\ Fresh.open /\ Fresh.buffer = <<>>
    BY EmptySeq DEF Fresh, Client
  <2>2. ClientTyped(Fresh, socket[c], inbox[c], outbox[c], got[c])
    BY <1>1, <2>1 DEF Sound, ClientSound, ClientTyped
  <2>3. AnswersClean(Fresh, socket[c], outbox[c], got[c])
    <3>1. socket[c] = "connected" => outbox[c] = <<>> /\ got[c] = <<>>
      BY <1>1, <1>2 DEF Sound, ClientSound, EndsAgree
    <3>2. (<<>> \o <<>>) \o <<>> = <<>>
      OBVIOUS
    <3> QED BY <2>1, <3>1, <3>2, CleanEmpty DEF AnswersClean
  <2>4. EndsAgree(Fresh, socket[c], inbox[c], outbox[c], got[c], Place(c))
    BY <1>1, <1>2, <2>1 DEF Sound, ClientSound, EndsAgree
  <2> QED BY <1>1, <2>2, <2>3, <2>4 DEF Sound, ClientSound
<1>7. Sound(c)'
  BY <1>2, <1>4, <1>6 DEF Sound, Place, Dumb
<1> QED BY <1>3, <1>5, <1>7, OneSound

\* What has become of the requests of a connection when its struct is stored.
Kept(d, in) == in[d] = inbox[d] \/ (clients[d].open /\ Taken(inbox[d], in[d]))

\* Whatever a handler sends or frees, the connections stay sound.
LEMMA StoreSound ==
  ASSUME StreamSound, NEW cls, NEW in, AllClients(cls), Store(cls, in),
         \A d \in Clients : \E ms : Outcome(clients[d], cls[d], ms),
         \A d \in Clients : (cls[d] = Freed /\ clients[d].open) \/ Kept(d, in),
         UNCHANGED <<outbox, pc, empty, got>>, status' \in {"running", "stopped", "undefined"}
  PROVE  StreamSound'
<1>1. Shapes /\ (\A d \in Clients : Sound(d)) /\ AllClients(clients)
  BY SoundIs, SoundClients
<1> DEFINE freed == {d \in Clients : clients[d].open /\ ~cls[d].open}
<1>2. /\ clients' = cls
      /\ inbox' = [d \in Clients |-> IF d \in freed THEN <<>> ELSE in[d]]
      /\ socket' = [d \in Clients |->
           IF d \notin freed THEN socket[d]
           ELSE IF socket[d] = "hung_up" THEN "none"
           ELSE IF in[d] = <<>> THEN "shut" ELSE "reset"]
  BY DEF Store
<1>3. cls = [d \in Clients |-> cls[d]]
  BY DEF AllClients
<1>4. Shapes'
  BY <1>1, <1>2, <1>3 DEF Shapes
<1>5. ASSUME NEW d \in Clients PROVE Sound(d)'
  <2>1. /\ clients'[d] = cls[d] /\ inbox'[d] = (IF d \in freed THEN <<>> ELSE in[d])
        /\ socket'[d] = IF d \notin freed THEN socket[d]
                        ELSE IF socket[d] = "hung_up" THEN "none"
                        ELSE IF in[d] = <<>> THEN "shut" ELSE "reset"
        /\ outbox'[d] = outbox[d] /\ got'[d] = got[d] /\ Place(d)' = Place(d) /\ Dumb(d)' = Dumb(d)
    BY <1>2 DEF Place, Dumb
  <2>2. ClientSound(clients[d], socket[d], inbox[d], outbox[d], got[d], Place(d), Dumb(d))
    BY <1>1 DEF Sound
  <2>3. /\ clients[d] \in Client /\ (~clients[d].open => clients[d] = Freed) /\ cls[d] \in Client
        /\ clients[d].open \in BOOLEAN
    BY <1>1 DEF AllClients, Client
  <2>4. CASE clients[d].open /\ cls[d] = Freed
    <3>1. d \in freed
      BY <2>4, FreedTyped
    <3>2. socket[d] \in {"connected", "hung_up"}
      BY <2>4, SoundClients
    <3>3. socket'[d] \in {"none", "shut", "reset"} /\ (socket'[d] = "none" <=> socket[d] \in Nobody)
      BY <2>1, <3>1, <3>2 DEF Nobody
    <3>4. ClientSound(Freed, socket'[d], <<>>, outbox[d], got[d], Place(d), Dumb(d))
      BY <2>2, <3>3, LostSound
    <3>5. clients'[d] = Freed /\ inbox'[d] = <<>>
      BY <2>1, <2>4, <3>1
    <3> QED BY <2>1, <3>4, <3>5 DEF Sound
  <2>5. CASE clients[d].open /\ cls[d] # Freed
    <3>1. PICK ms : Sent(clients[d], cls[d], ms)
      BY <2>5 DEF Outcome
    <3>2. d \notin freed
      BY <3>1 DEF Sent
    <3>3. ClientSound(clients[d], socket[d], in[d], outbox[d], got[d], Place(d), Dumb(d))
      <4>1. CASE in[d] = inbox[d]
        BY <2>2, <4>1
      <4>2. CASE Taken(inbox[d], in[d])
        BY <2>2, <2>5, <4>2, TakenSound
      <4> QED BY <2>5, <4>1, <4>2 DEF Kept
    <3>4. ClientSound(cls[d], socket[d], in[d], outbox[d], got[d], Place(d), Dumb(d))
      BY <2>3, <3>1, <3>3, SentSound
    <3>5. clients'[d] = cls[d] /\ inbox'[d] = in[d] /\ socket'[d] = socket[d]
      BY <2>1, <3>2
    <3> QED BY <2>1, <3>4, <3>5 DEF Sound
  <2>6. CASE ~clients[d].open
    <3>1. cls[d] = Freed /\ clients[d] = Freed /\ d \notin freed /\ in[d] = inbox[d]
      BY <2>3, <2>6, FreedTyped DEF Outcome, Sent, Kept
    <3>2. Untouched(d)
      BY <2>1, <3>1 DEF Untouched
    <3> QED BY <1>1, <3>2, UntouchedSound
  <2> QED BY <2>3, <2>4, <2>5, <2>6
<1> QED BY <1>4, <1>5, SoundNext

\* ipc_client_disconnect
LEMMA DisconnectSound ==
  ASSUME StreamSound, NEW c \in Clients, clients[c].open, NEW in, Disconnect(c, in),
         \A d \in Clients \ {c} : in[d] = inbox[d],
         UNCHANGED <<outbox, pc, empty, got>>, status' \in {"running", "stopped", "undefined"}
  PROVE  StreamSound'
<1> DEFINE cls == [clients EXCEPT ![c] = Freed]
<1>1. AllClients(clients)
  BY SoundClients
<1>2. AllClients(cls) /\ cls[c] = Freed /\ \A d \in Clients \ {c} : cls[d] = clients[d]
  BY <1>1, FreedTyped, OneChanges
<1>3. Store(cls, in)
  BY DEF Disconnect
<1> HIDE DEF cls
<1>4. \A d \in Clients : \E ms : Outcome(clients[d], cls[d], ms)
  <2>1. Outcome(clients[c], cls[c], <<>>)
    BY <1>2 DEF Outcome
  <2>2. \A d \in Clients \ {c} : Outcome(clients[d], cls[d], <<>>)
    BY <1>1, <1>2, OutcomeNone DEF AllClients
  <2> QED BY <2>1, <2>2
<1>5. \A d \in Clients : (cls[d] = Freed /\ clients[d].open) \/ Kept(d, in)
  BY <1>2 DEF Kept
<1> QED BY <1>2, <1>3, <1>4, <1>5, StoreSound

\* A client that has hung up reads nothing any more.
LEMMA NothingOut ==
  ASSUME StreamSound, NEW c \in Clients, socket[c] = "hung_up" \/ socket[c] = "none"
  PROVE  outbox[c] = <<>> /\ [outbox EXCEPT ![c] = <<>>] = outbox
<1>1. Shapes /\ Sound(c)
  BY SoundIs
<1>2. outbox[c] = <<>>
  BY <1>1 DEF Sound, ClientSound, EndsAgree, Nobody
<1>3. outbox = [d \in Clients |-> outbox[d]]
  BY <1>1 DEF Shapes
<1> QED BY <1>2, <1>3

\* check_socket_errors
LEMMA HangUpSound ==
  ASSUME StreamSound, NEW c \in Clients, HangUp(c), UNCHANGED <<pc, empty, got>>
  PROVE  StreamSound'
<1>1. /\ clients[c].open /\ socket[c] = "hung_up" /\ Disconnect(c, inbox)
      /\ outbox' = [outbox EXCEPT ![c] = <<>>] /\ status' = "running"
  BY DEF HangUp
<1>2. outbox' = outbox
  BY <1>1, NothingOut
<1> QED BY <1>1, <1>2, DisconnectSound

\* ipc_event_tag
LEMMA TagsChangeSound ==
  ASSUME StreamSound, TagsChange, UNCHANGED <<pc, empty, got>>
  PROVE  StreamSound'
<1> DEFINE cls == EventTag(clients)
<1>1. AllClients(clients)
  BY SoundClients
<1>2. /\ AllClients(cls)
      /\ \A d \in Clients : Outcome(clients[d], cls[d],
           IF "workspace" \in clients[d].subscribed THEN <<TagEvent>> ELSE <<>>)
  BY <1>1, EventTagTells
<1>3. Store(cls, inbox) /\ UNCHANGED outbox /\ status' = "running"
  BY DEF TagsChange
<1> HIDE DEF cls
<1>4. /\ \A d \in Clients : \E ms : Outcome(clients[d], cls[d], ms)
      /\ \A d \in Clients : Kept(d, inbox)
  BY <1>2 DEF Kept
<1> QED BY <1>2, <1>3, <1>4, StoreSound

\* The cases of ipc_client_handle_readable.
Request1(c) == Head(inbox[c]).msg

\* The first request, and what becomes of the connection.
LEMMA ReadableCases ==
  ASSUME StreamSound, NEW c \in Clients, Readable(c)
  PROVE  /\ clients[c].open /\ inbox[c] # <<>> /\ inbox[c] \in Seq(PartOf(Request)) /\ Paired(inbox[c])
         /\ Request1(c) \in Request /\ Head(inbox[c]) \in PartOf(Request)
         /\ IsLast(Head(inbox[c])) <=> ~Request1(c).full
         /\ UNCHANGED outbox
         /\ \/ /\ Request1(c).type = "malformed" \/ (Request1(c).full /\ Len(inbox[c]) = 1)
               /\ \E in : Disconnect(c, [inbox EXCEPT ![c] = in])
               /\ status' = "running"
            \/ /\ Request1(c).type # "malformed" /\ ~Request1(c).full
               /\ inbox' = [inbox EXCEPT ![c] = Tail(@)]
               /\ UNCHANGED <<clients, socket, status>> /\ status' = "running"
            \/ /\ Request1(c).type # "malformed" /\ Request1(c).full /\ Len(inbox[c]) > 1
               /\ \E changesTags \in BOOLEAN :
                    \E cls \in Dispatch(clients, c, Request1(c), changesTags) : Store(cls, WithoutRequest(c))
               /\ status' = "running"
            \/ UNCHANGED <<clients, socket, inbox>> /\ status' = "undefined"
<1>1. Sound(c)
  BY SoundIs
<1>2. inbox[c] \in Seq(PartOf(Request)) /\ Paired(inbox[c])
  BY <1>1 DEF Sound, ClientSound, ClientTyped, RequestsClean
<1>3. inbox[c] # <<>> /\ clients[c].open /\ status = "running" /\ ReadClientHeader(c) /\ UNCHANGED outbox
  BY DEF Readable
<1>4. Head(inbox[c]) \in PartOf(Request) /\ (IsLast(Head(inbox[c])) <=> ~Request1(c).full)
  BY <1>2, <1>3, PairedFirst, MessagesRequest DEF Request1
<1>5. Request1(c) \in Request
  BY <1>4, PartFields DEF Request1
<1>6. \/ /\ Request1(c).type = "malformed"
         /\ Disconnect(c, [inbox EXCEPT ![c] = Tail(@)])
         /\ UNCHANGED status
      \/ /\ Request1(c).type # "malformed"
         /\ HandleClientPayload(c, Request1(c))
  BY <1>3 DEF ReadClientHeader, Request1
<1>7. CASE Request1(c).type = "malformed"
  BY <1>2, <1>3, <1>4, <1>5, <1>6, <1>7
<1>8. CASE Request1(c).type # "malformed"
  <2> DEFINE r == Request1(c)
  <2>1. HandleClientPayload(c, r)
    BY <1>6, <1>8
  <2>2. \/ /\ ~r.full
           /\ inbox' = [inbox EXCEPT ![c] = Tail(@)]
           /\ UNCHANGED <<clients, socket, status>>
        \/ /\ r.full
           /\ Len(inbox[c]) = 1
           /\ Disconnect(c, [inbox EXCEPT ![c] = <<>>])
           /\ UNCHANGED status
        \/ /\ r.full /\ Len(inbox[c]) > 1
           /\ \E changesTags \in BOOLEAN :
                \/ /\ \E cls \in Dispatch(clients, c, r, changesTags) : Store(cls, WithoutRequest(c))
                   /\ UNCHANGED status
                \/ /\ status' = "undefined"
                   /\ UNCHANGED <<clients, socket, inbox>>
    <3> HIDE DEF r
    <3> QED BY <2>1 DEF HandleClientPayload, NoPayload
  <2> HIDE DEF r
  <2>3. CASE ~r.full
    BY <1>2, <1>3, <1>4, <1>5, <1>8, <2>2, <2>3 DEF r
  <2>4. CASE r.full
    BY <1>2, <1>3, <1>4, <1>5, <1>8, <2>2, <2>4 DEF r
  <2> QED BY <2>3, <2>4
<1> QED BY <1>7, <1>8

\* ipc_client_handle_readable
LEMMA ReadableSound ==
  ASSUME StreamSound, NEW c \in Clients, Readable(c), UNCHANGED <<pc, empty, got>>
  PROVE  StreamSound'
<1>1. Shapes /\ Sound(c) /\ AllClients(clients)
  BY SoundIs, SoundClients
<1> DEFINE r == Request1(c)
<1>2. /\ clients[c].open /\ inbox[c] # <<>> /\ inbox[c] \in Seq(PartOf(Request)) /\ Paired(inbox[c])
      /\ r \in Request /\ Head(inbox[c]) \in PartOf(Request)
      /\ IsLast(Head(inbox[c])) <=> ~r.full
      /\ UNCHANGED outbox
  BY ReadableCases
<1>3. CASE /\ \E in : Disconnect(c, [inbox EXCEPT ![c] = in])
           /\ status' = "running"
  <2>1. PICK in : Disconnect(c, [inbox EXCEPT ![c] = in])
    BY <1>3
  <2>2. \A d \in Clients \ {c} : [inbox EXCEPT ![c] = in][d] = inbox[d]
    BY <1>1 DEF Shapes
  <2> QED BY <1>2, <1>3, <2>1, <2>2, DisconnectSound
<1>4. CASE /\ r.type # "malformed" /\ ~r.full
           /\ inbox' = [inbox EXCEPT ![c] = Tail(@)]
           /\ UNCHANGED <<clients, socket, status>>
  <2>1. Shapes'
    BY <1>1, <1>2, <1>4 DEF Shapes
  <2>2. inbox'[c] = Tail(inbox[c])
    BY <1>1, <1>4 DEF Shapes
  <2>3. \A d \in Clients \ {c} : Untouched(d)
    BY <1>1, <1>2, <1>4 DEF Shapes, Untouched, Place, Dumb
  <2>4. Taken(inbox[c], Tail(inbox[c]))
    BY <1>2, <1>4, TakenTail
  <2>5. ClientSound(clients[c], socket[c], inbox[c], outbox[c], got[c], Place(c), Dumb(c))
    BY <1>1 DEF Sound
  <2>6. ClientSound(clients[c], socket[c], Tail(inbox[c]), outbox[c], got[c], Place(c), Dumb(c))
    BY <1>2, <2>4, <2>5, TakenSound
  <2>7. Sound(c)'
    BY <1>2, <1>4, <2>2, <2>6 DEF Sound, Place, Dumb
  <2> QED BY <2>1, <2>3, <2>7, OneSound
<1>5. CASE /\ r.type # "malformed" /\ r.full /\ Len(inbox[c]) > 1
           /\ \E changesTags \in BOOLEAN :
                \E cls \in Dispatch(clients, c, r, changesTags) : Store(cls, WithoutRequest(c))
           /\ status' = "running"
  <2>1. PICK changesTags \in BOOLEAN :
          \E cls \in Dispatch(clients, c, r, changesTags) : Store(cls, WithoutRequest(c))
    BY <1>5
  <2>2. PICK cls \in Dispatch(clients, c, r, changesTags) : Store(cls, WithoutRequest(c))
    BY <2>1
  <2> DEFINE in == WithoutRequest(c)
  <2>3. in[c] = SubSeq(inbox[c], 3, Len(inbox[c])) /\ \A d \in Clients \ {c} : in[d] = inbox[d]
    BY <1>1 DEF Shapes, WithoutRequest
  <2>4. Taken(inbox[c], in[c])
    BY <1>2, <1>5, <2>3, TakenRest
  <2> HIDE DEF in, r
  <2>5. PICK told \in BOOLEAN : Handled(clients, cls, c, r, told)
    BY <1>1, <1>2, <1>5, DispatchHandled
  <2>6. AllClients(cls) /\ \A d \in Clients : \E ms : Outcome(clients[d], cls[d], ms)
    BY <2>5 DEF Handled
  <2>7. \A d \in Clients : Kept(d, in)
    BY <1>2, <2>3, <2>4 DEF Kept
  <2>8. Store(cls, in)
    BY <2>2 DEF in
  <2> QED BY <1>2, <1>5, <2>6, <2>7, <2>8, StoreSound
<1>6. CASE UNCHANGED <<clients, socket, inbox>> /\ status' = "undefined"
  <2>1. \A d \in Clients : Untouched(d)
    BY <1>2, <1>6 DEF Untouched, Place, Dumb
  <2>2. Shapes'
    BY <1>1, <1>2, <1>6 DEF Shapes
  <2>3. \A d \in Clients : Sound(d)'
    BY <2>1, UntouchedSound, SoundIs
  <2> QED BY <2>2, <2>3, SoundNext
<1>7. \/ /\ \E in : Disconnect(c, [inbox EXCEPT ![c] = in])
         /\ status' = "running"
      \/ /\ r.type # "malformed" /\ ~r.full
         /\ inbox' = [inbox EXCEPT ![c] = Tail(@)]
         /\ UNCHANGED <<clients, socket, status>>
      \/ /\ r.type # "malformed" /\ r.full /\ Len(inbox[c]) > 1
         /\ \E changesTags \in BOOLEAN :
              \E cls \in Dispatch(clients, c, r, changesTags) : Store(cls, WithoutRequest(c))
         /\ status' = "running"
      \/ UNCHANGED <<clients, socket, inbox>> /\ status' = "undefined"
  BY ReadableCases
<1> QED BY <1>3, <1>4, <1>5, <1>6, <1>7

\* The two fields that writing changes.
Struct(open, sub, buf, arm) == [open |-> open, subscribed |-> sub, buffer |-> buf, armed |-> arm]
WithLeft(r, b) == [[r EXCEPT !.buffer = b] EXCEPT !.armed = b # <<>>]
StructLeft(open, sub, b) == [open |-> open, subscribed |-> sub, buffer |-> b, armed |-> b # <<>>]

\* Two updates of a struct, as one record.
LEMMA MovedFields ==
  ASSUME NEW open, NEW sub, NEW buf, NEW arm, NEW b
  PROVE  WithLeft(Struct(open, sub, buf, arm), b) = StructLeft(open, sub, b)
<1> DEFINE r == [open |-> open, subscribed |-> sub, buffer |-> buf, armed |-> arm]
           q == [open |-> open, subscribed |-> sub, buffer |-> b, armed |-> arm]
<1>1. [r EXCEPT !.buffer = b] = q
  OBVIOUS
<1>2. [q EXCEPT !.armed = b # <<>>] = [open |-> open, subscribed |-> sub, buffer |-> b, armed |-> b # <<>>]
  OBVIOUS
<1>3. r = Struct(open, sub, buf, arm)
  BY DEF Struct
<1> HIDE DEF q, r
<1> QED BY <1>1, <1>2, <1>3, Zenon DEF WithLeft, StructLeft

\* What is written moves from the buffer to the wire and nothing else changes.
LEMMA WriteMoves ==
  ASSUME StreamSound, NEW c \in Clients, Writable(c), socket[c] # "hung_up"
  PROVE  /\ socket[c] = "connected" /\ clients[c].open
         /\ UNCHANGED <<socket, inbox, status>>
         /\ \E moved, left \in Seq(PartOf(Message)) :
              /\ clients[c].buffer = moved \o left
              /\ outbox' = [outbox EXCEPT ![c] = outbox[c] \o moved]
              /\ clients' = [clients EXCEPT ![c] = [open |-> TRUE, subscribed |-> clients[c].subscribed,
                                                    buffer |-> left, armed |-> left # <<>>]]
<1> DEFINE b == clients[c].buffer
<1>1. AllClients(clients)
  BY SoundClients
<1>2. clients[c] \in Client /\ clients \in [Clients -> Client] /\ b \in Seq(PartOf(Message))
  BY <1>1 DEF AllClients, Client
<1>3. clients[c].armed /\ socket[c] = "connected" /\ UNCHANGED <<socket, inbox, status>>
  BY DEF Writable
<1>4. clients[c].open /\ clients[c].open = TRUE
  <2>1. ~Freed.armed /\ clients[c].open \in BOOLEAN
    BY <1>2 DEF Freed, Client
  <2> QED BY <1>1, <1>3, <2>1 DEF AllClients
<1>5. PICK written \in 1..Min({Len(b), SocketSize - Len(outbox[c])}) :
        /\ outbox' = [outbox EXCEPT ![c] = @ \o SubSeq(b, 1, written)]
        /\ clients' = [clients EXCEPT ![c].buffer = Moved(b, written),
                                      ![c].armed = Moved(b, written) # <<>>]
  BY <1>3 DEF Writable
<1>6. written \in 1..Len(b) /\ Len(b) \in Nat
  <2> DEFINE n == Len(b)
             k == SocketSize - Len(outbox[c])
  <2>1. n \in Int /\ k \in Int /\ Len(b) \in Nat
    <3>1. outbox[c] \in Seq(PartOf(Message))
      BY SoundIs DEF Sound, ClientSound, ClientTyped
    <3>2. Len(outbox[c]) \in Nat /\ Len(b) \in Nat
      BY <1>2, <3>1, LenProperties
    <3> QED BY <3>2, BufferAssumption
  <2> HIDE DEF n, k
  <2>2. Min({n, k}) = IF n <= k THEN n ELSE k
    <3> DEFINE x == IF n <= k THEN n ELSE k
    <3>1. x \in {n, k} /\ \A y \in {n, k} : x <= y
      BY <2>1
    <3>2. \A z \in {n, k} : (\A y \in {n, k} : z <= y) => z = x
      BY <2>1
    <3> HIDE DEF x
    <3>3. Min({n, k}) = x
      BY <3>1, <3>2, Zenon DEF Min
    <3> QED BY <3>3 DEF x
  <2>3. written \in 1..Min({n, k})
    BY DEF n, k
  <2>4. written \in 1..n
    BY <2>1, <2>2, <2>3
  <2> QED BY <2>1, <2>4 DEF n
<1> DEFINE moved == SubSeq(b, 1, written)
           left == SubSeq(b, written + 1, Len(b))
<1>7. moved \in Seq(PartOf(Message)) /\ left \in Seq(PartOf(Message))
  <2>1. \A i \in 1..Len(b) : b[i] \in PartOf(Message)
    BY <1>2, ElementOfSeq
  <2>2. \A i \in 1..written : b[i] \in PartOf(Message)
    BY <1>6, <2>1
  <2>3. \A i \in (written + 1)..Len(b) : b[i] \in PartOf(Message)
    BY <1>6, <2>1
  <2>4. written \in Int /\ written + 1 \in Int /\ Len(b) \in Int /\ 1 \in Int
    BY <1>6
  <2> HIDE DEF b
  <2>5. moved \in Seq(PartOf(Message))
    BY <2>2, <2>4, SubSeqProperties
  <2>6. left \in Seq(PartOf(Message))
    BY <2>3, <2>4, SubSeqProperties
  <2> QED BY <2>5, <2>6
<1>8. b = moved \o left
  <2>1. 1 \in 1..(Len(b) + 1) /\ written \in (1 - 1)..Len(b) /\ Len(b) \in written..Len(b)
    BY <1>6
  <2> HIDE DEF b
  <2>2. moved \o left = SubSeq(b, 1, Len(b))
    BY <1>2, <2>1, ConcatAdjacentSubSeq
  <2>3. SubSeq(b, 1, Len(b)) = b
    BY <1>2, SubSeqFull
  <2> QED BY <2>2, <2>3
<1>9. outbox' = [outbox EXCEPT ![c] = outbox[c] \o moved]
  <2>1. outbox = [d \in Clients |-> outbox[d]]
    BY SoundIs DEF Shapes
  <2> QED BY <1>5, <2>1
<1>10. clients' = [clients EXCEPT ![c] = [open |-> TRUE, subscribed |-> clients[c].subscribed,
                                          buffer |-> left, armed |-> left # <<>>]]
  <2>1. clients' = [clients EXCEPT ![c].buffer = left, ![c].armed = left # <<>>]
    BY <1>5 DEF Moved
  <2> HIDE DEF left
  <2>2. clients' = [clients EXCEPT ![c] = [[clients[c] EXCEPT !.buffer = left] EXCEPT !.armed = left # <<>>]]
    BY <1>2, <2>1
  <2>3. clients[c] = [open |-> TRUE, subscribed |-> clients[c].subscribed,
                      buffer |-> clients[c].buffer, armed |-> clients[c].armed]
    BY <1>2, <1>4 DEF Client
  <2>4. [[clients[c] EXCEPT !.buffer = left] EXCEPT !.armed = left # <<>>]
          = [open |-> TRUE, subscribed |-> clients[c].subscribed, buffer |-> left, armed |-> left # <<>>]
    <3> DEFINE r == clients[c]
               sub == clients[c].subscribed
               buf == clients[c].buffer
               arm == clients[c].armed
               opn == clients[c].open
    <3>1. r = Struct(opn, sub, buf, arm) /\ opn = TRUE
      BY <1>4, <2>3 DEF Struct
    <3> HIDE DEF r, sub, buf, arm, opn
    <3>2. WithLeft(r, left) = StructLeft(opn, sub, left)
      BY <3>1, MovedFields
    <3> QED BY <3>1, <3>2, Zenon DEF WithLeft, StructLeft, r, sub
  <2> QED BY <2>2, <2>4
<1> HIDE DEF b, moved, left
<1>11. clients[c].buffer = moved \o left
  BY <1>8 DEF b
<1> QED BY <1>3, <1>4, <1>7, <1>9, <1>10, <1>11

Associates(x, y, z) == (x \o y) \o z = x \o (y \o z)

\* Three streams that follow one another.
LEMMA Associative ==
  ASSUME NEW X, NEW x \in Seq(X), NEW y \in Seq(X), NEW z \in Seq(X)
  PROVE  Associates(x, y, z)
  BY ConcatAssociative DEF Associates

Moves(g, out, moved, left) ==
  /\ g \o out \o (moved \o left) = g \o (out \o moved) \o left
  /\ out \o (moved \o left) = (out \o moved) \o left

\* The answers stay whole when they are written in part.
LEMMA MovedClean ==
  ASSUME NEW X, NEW g \in Seq(X), NEW out \in Seq(X), NEW moved \in Seq(X), NEW left \in Seq(X)
  PROVE  Moves(g, out, moved, left) /\ out \o moved \in Seq(X)
<1>1. out \o moved \in Seq(X) /\ moved \o left \in Seq(X)
  BY ConcatProperties
<1>2. Associates(out, moved, left) /\ Associates(g, out, moved \o left) /\ Associates(g, out \o moved, left)
  BY <1>1, Associative
<1> QED BY <1>1, <1>2, Zenon DEF Associates, Moves

\* ipc_client_handle_writable
LEMMA WritableSound ==
  ASSUME StreamSound, NEW c \in Clients, Writable(c), UNCHANGED <<pc, empty, got>>
  PROVE  StreamSound'
<1>1. Shapes /\ Sound(c) /\ AllClients(clients)
  BY SoundIs, SoundClients
<1>2. CASE socket[c] = "hung_up"
  <2>1. /\ clients[c].armed /\ Disconnect(c, inbox) /\ outbox' = [outbox EXCEPT ![c] = <<>>]
        /\ UNCHANGED status
    BY <1>2 DEF Writable
  <2>2. outbox' = outbox
    BY <1>2, <2>1, NothingOut
  <2>3. clients[c].open
    BY <1>1, <2>1 DEF AllClients, Freed
  <2>4. status' \in {"running", "stopped", "undefined"}
    BY <1>1, <2>1 DEF Shapes
  <2> QED BY <2>1, <2>2, <2>3, <2>4, DisconnectSound
<1>3. CASE socket[c] # "hung_up"
  <2>1. /\ socket[c] = "connected" /\ clients[c].open
        /\ UNCHANGED <<socket, inbox, status>>
        /\ \E moved, left \in Seq(PartOf(Message)) :
              /\ clients[c].buffer = moved \o left
              /\ outbox' = [outbox EXCEPT ![c] = outbox[c] \o moved]
              /\ clients' = [clients EXCEPT ![c] = [open |-> TRUE, subscribed |-> clients[c].subscribed,
                                                    buffer |-> left, armed |-> left # <<>>]]
    BY <1>3, WriteMoves
  <2>2. PICK moved, left \in Seq(PartOf(Message)) :
              /\ clients[c].buffer = moved \o left
              /\ outbox' = [outbox EXCEPT ![c] = outbox[c] \o moved]
              /\ clients' = [clients EXCEPT ![c] = [open |-> TRUE, subscribed |-> clients[c].subscribed,
                                                    buffer |-> left, armed |-> left # <<>>]]
    BY <2>1
  <2> DEFINE new == [open |-> TRUE, subscribed |-> clients[c].subscribed,
                     buffer |-> left, armed |-> left # <<>>]
             out == outbox[c] \o moved
  <2>3. Shapes'
    BY <1>1, <2>1, <2>2 DEF Shapes
  <2>4. clients'[c] = new /\ outbox'[c] = out
    BY <1>1, <2>2 DEF Shapes
  <2>5. \A d \in Clients \ {c} : Untouched(d)
    BY <1>1, <2>1, <2>2 DEF Shapes, Untouched, Place, Dumb
  <2>6. new \in Client /\ new.open /\ new.buffer = left
    BY <1>1 DEF AllClients, Client
  <2> HIDE DEF new, out
  <2>7. /\ got[c] \in Seq(PartOf(Message)) /\ outbox[c] \in Seq(PartOf(Message))
        /\ ClientSound(clients[c], socket[c], inbox[c], outbox[c], got[c], Place(c), Dumb(c))
    BY <1>1, GotsTyped DEF Sound, ClientSound, ClientTyped
  <2>8. /\ got[c] \o outbox[c] \o (moved \o left) = got[c] \o out \o left
        /\ out \in Seq(PartOf(Message))
    <3> DEFINE g == got[c]
               o == outbox[c]
    <3>1. g \in Seq(PartOf(Message)) /\ o \in Seq(PartOf(Message))
      BY <2>7
    <3> HIDE DEF g, o
    <3> DEFINE X == PartOf(Message)
    <3>2. g \in Seq(X) /\ o \in Seq(X) /\ moved \in Seq(X) /\ left \in Seq(X)
      BY <3>1
    <3> HIDE DEF X
    <3>3. Moves(g, o, moved, left) /\ o \o moved \in Seq(X)
      BY <3>2, MovedClean
    <3> QED BY <3>3, Zenon DEF Moves, out, g, o, X
  <2>9. ClientSound(new, socket[c], inbox[c], out, got[c], Place(c), Dumb(c))
    <3>1. ClientTyped(new, socket[c], inbox[c], out, got[c])
      BY <2>6, <2>7, <2>8 DEF ClientSound, ClientTyped
    <3>2. AnswersClean(new, socket[c], out, got[c])
      BY <2>1, <2>2, <2>6, <2>7, <2>8 DEF ClientSound, AnswersClean
    <3>3. EndsAgree(new, socket[c], inbox[c], out, got[c], Place(c))
      BY <2>1, <2>6, <2>7 DEF ClientSound, EndsAgree, Nobody
    <3> QED BY <2>7, <3>1, <3>2, <3>3 DEF ClientSound
  <2>10. Sound(c)'
    BY <2>1, <2>4, <2>9 DEF Sound, Place, Dumb
  <2> QED BY <2>3, <2>5, <2>10, OneSound
<1> QED BY <1>2, <1>3

\* The end of the compositor frees everyone.
LEMMA StopSound ==
  ASSUME StreamSound, Stop, UNCHANGED <<pc, empty, got>>
  PROVE  StreamSound'
<1>1. Shapes /\ \A d \in Clients : Sound(d)
  BY SoundIs
<1>2. /\ status' = "stopped" /\ UNCHANGED outbox
      /\ clients' = [c \in Clients |-> Freed]
      /\ inbox' = [c \in Clients |-> <<>>]
      /\ socket' = [c \in Clients |-> CASE socket[c] \in {"none", "hung_up"} -> "none"
                                        [] socket[c] = "connected" /\ inbox[c] = <<>> -> "shut"
                                        [] socket[c] = "connected" /\ inbox[c] # <<>> -> "reset"
                                        [] OTHER -> socket[c]]
  BY DEF Stop
<1>3. Shapes'
  BY <1>1, <1>2 DEF Shapes
<1>4. ASSUME NEW d \in Clients PROVE Sound(d)'
  <2>1. ClientSound(clients[d], socket[d], inbox[d], outbox[d], got[d], Place(d), Dumb(d))
    BY <1>1 DEF Sound
  <2>2. socket[d] \in Sockets
    BY <2>1 DEF ClientSound, ClientTyped
  <2>3. socket'[d] \in {"none", "shut", "reset"} /\ (socket'[d] = "none" <=> socket[d] \in Nobody)
    <3>1. socket'[d] = CASE socket[d] \in {"none", "hung_up"} -> "none"
                         [] socket[d] = "connected" /\ inbox[d] = <<>> -> "shut"
                         [] socket[d] = "connected" /\ inbox[d] # <<>> -> "reset"
                         [] OTHER -> socket[d]
      BY <1>2
    <3> QED BY <2>2, <3>1 DEF Sockets, Nobody
  <2>4. ClientSound(Freed, socket'[d], <<>>, outbox[d], got[d], Place(d), Dumb(d))
    BY <2>1, <2>3, LostSound
  <2>5. clients'[d] = Freed /\ inbox'[d] = <<>> /\ outbox'[d] = outbox[d] /\ got'[d] = got[d]
        /\ Place(d)' = Place(d) /\ Dumb(d)' = Dumb(d)
    BY <1>2 DEF Place, Dumb
  <2> QED BY <2>4, <2>5 DEF Sound
<1> QED BY <1>3, <1>4, SoundNext

\* Every step of the server.
LEMMA ServerSound ==
  ASSUME StreamSound, ServerNext, UNCHANGED <<pc, empty, got>>
  PROVE  StreamSound'
  BY AcceptSound, HangUpSound, ReadableSound, WritableSound, TagsChangeSound, StopSound DEF ServerNext

\* A japokmsg goes on, but does not start, end or ask.
LEMMA PlaceSound ==
  ASSUME NEW cl, NEW sk, NEW in, NEW out, NEW g, NEW p, NEW e, ClientSound(cl, sk, in, out, g, p, e),
         p \notin {"bar", "idle", "asking"}, NEW p2, p2 \notin {"bar", "idle", "asking"}
  PROVE  ClientSound(cl, sk, in, out, g, p2, e)
<1>1. RequestsClean(sk, in, p2, e)
  BY DEF ClientSound, RequestsClean
<1>2. EndsAgree(cl, sk, in, out, g, p2)
  BY DEF ClientSound, EndsAgree
<1> QED BY <1>1, <1>2 DEF ClientSound

\* A client connects to a socket that has nothing of an earlier one.
LEMMA ConnectedSound ==
  ASSUME NEW cl, NEW in, NEW out, NEW g, NEW p, NEW e, ClientSound(cl, "none", in, out, g, p, e),
         NEW p2 \in {"connected", "bar"}, NEW e2
  PROVE  ClientSound(cl, "connected", in, <<>>, <<>>, p2, e2)
<1>1. ClientTyped(cl, "connected", in, <<>>, <<>>)
  BY EmptySeq DEF ClientSound, ClientTyped, Sockets, Gots
<1>2. ~cl.open /\ cl = Freed /\ in = <<>>
  BY DEF ClientSound, EndsAgree
<1>3. AnswersClean(cl, "connected", <<>>, <<>>)
  BY <1>2 DEF AnswersClean
<1>4. RequestsClean("connected", in, p2, e2)
  BY <1>2, CleanEmpty DEF RequestsClean, Clean
<1>5. EndsAgree(cl, "connected", in, <<>>, <<>>, p2)
  BY <1>2 DEF EndsAgree, Nobody
<1> QED BY <1>1, <1>3, <1>4, <1>5 DEF ClientSound

\* A client closes its end.
LEMMA ClosedSound ==
  ASSUME NEW cl, NEW sk, NEW in, NEW out, NEW g, NEW p, NEW e, ClientSound(cl, sk, in, out, g, p, e),
         sk \notin Nobody, p # "asking", NEW p2 \in {"idle", "bar"}
  PROVE  ClientSound(cl, IF sk = "connected" THEN "hung_up" ELSE "none", in, <<>>, <<>>, p2, e)
<1> DEFINE sk2 == IF sk = "connected" THEN "hung_up" ELSE "none"
<1>0. sk \in Sockets
  BY DEF ClientSound, ClientTyped
<1>1. ClientTyped(cl, sk2, in, <<>>, <<>>)
  BY EmptySeq DEF ClientSound, ClientTyped, Sockets, Gots
<1>2. AnswersClean(cl, sk2, <<>>, <<>>)
  BY DEF AnswersClean
<1>3. RequestsClean(sk2, in, p2, e)
  BY DEF ClientSound, RequestsClean
<1>4. EndsAgree(cl, sk2, in, <<>>, <<>>, p2)
  BY <1>0 DEF ClientSound, EndsAgree, Nobody, Sockets
<1> QED BY <1>1, <1>2, <1>3, <1>4 DEF ClientSound

\* A client reads a part.
LEMMA ReadSound ==
  ASSUME NEW cl, NEW sk, NEW in, NEW out, NEW g, NEW p, NEW e, ClientSound(cl, sk, in, out, g, p, e),
         NEW g2, NEW out2, ReadBy(g, out, g2, out2)
  PROVE  ClientSound(cl, sk, in, out2, g2, p, e)
<1>1. cl \in Client /\ out \in Seq(PartOf(Message)) /\ g \in Gots /\ cl.buffer \in Seq(PartOf(Message))
  BY DEF ClientSound, ClientTyped, Client
<1>2. Head(out) \in PartOf(Message) /\ out2 \in Seq(PartOf(Message)) /\ out # <<>>
  BY <1>1, HeadAndTail DEF ReadBy
<1>3. g2 \in Gots
  <2> DEFINE h == Head(out)
  <2>1. h.msg \in Message /\ h = Part(h.part, h.msg)
    <3> HIDE DEF h
    <3>1. h \in PartOf(Message)
      BY <1>2 DEF h
    <3> QED BY <3>1, PartFields
  <2>2. g2 = IF h.part = "header" /\ h.msg.full THEN <<h>> ELSE <<>>
    BY DEF ReadBy
  <2> HIDE DEF h
  <2>3. CASE h.part = "header" /\ h.msg.full
    <3>1. g2 = <<Part("header", h.msg)>>
      BY <2>1, <2>2, <2>3
    <3> QED BY <2>1, <2>3, <3>1 DEF Gots
  <2>4. CASE ~(h.part = "header" /\ h.msg.full)
    BY <2>2, <2>4 DEF Gots
  <2> QED BY <2>3, <2>4
<1>4. ClientTyped(cl, sk, in, out2, g2)
  BY <1>2, <1>3 DEF ClientSound, ClientTyped
<1>5. AnswersClean(cl, sk, out2, g2)
  <2> SUFFICES ASSUME cl.open, sk = "connected" PROVE Clean(g2 \o out2 \o cl.buffer)
    BY DEF AnswersClean
  <2>1. Clean(g \o out \o cl.buffer)
    BY DEF ClientSound, AnswersClean
  <2> DEFINE b == cl.buffer
  <2>2. b \in Seq(PartOf(Message)) /\ Clean(g \o out \o b)
    BY <1>1, <2>1
  <2> HIDE DEF b
  <2>3. Clean(g2 \o out2 \o b)
    BY <1>1, <2>2, ReadKeepsClean
  <2> QED BY <2>3 DEF b
<1>6. EndsAgree(cl, sk, in, out2, g2, p)
  BY <1>2 DEF ClientSound, EndsAgree
<1> QED BY <1>4, <1>5, <1>6 DEF ClientSound

\* ipc_single_command writes the header of its request ...
LEMMA HeaderSound ==
  ASSUME NEW cl, NEW in, NEW out, NEW g, NEW e, ClientSound(cl, "connected", in, out, g, "connected", e),
         NEW m \in Request, m.full = ~e, ~e => m = TheCommand
  PROVE  ClientSound(cl, "connected", Append(in, Part("header", m)), out, g, "asking", e)
<1>1. in \in Seq(PartOf(Request)) /\ Paired(in) /\ ~Open(in)
  BY DEF ClientSound, ClientTyped, RequestsClean
<1>2. Part("header", m) \in PartOf(Request)
  BY DEF Part, PartOf
<1> DEFINE t == Append(in, Part("header", m))
<1>3. Paired(t) /\ (Open(t) <=> m.full) /\ t \in Seq(PartOf(Request))
  BY <1>1, PairedHeader, MessagesRequest DEF Clean
<1>4. t # <<>> /\ t[Len(t)] = Part("header", m)
  BY <1>1, <1>2, AppendProperties
<1> HIDE DEF t
<1>5. ClientTyped(cl, "connected", t, out, g)
  BY <1>3 DEF ClientSound, ClientTyped
<1>6. RequestsClean("connected", t, "asking", e)
  BY <1>3, <1>4 DEF RequestsClean
<1>7. EndsAgree(cl, "connected", t, out, g, "asking")
  BY DEF ClientSound, EndsAgree, Nobody
<1> QED BY <1>5, <1>6, <1>7 DEF ClientSound, t

\* ... and then the command.
LEMMA PayloadSound ==
  ASSUME NEW cl, NEW in, NEW out, NEW g, NEW e, ClientSound(cl, "connected", in, out, g, "asking", e),
         ~e
  PROVE  ClientSound(cl, "connected", Append(in, Part("payload", TheCommand)), out, g, "waiting", e)
<1>1. /\ in \in Seq(PartOf(Request)) /\ Paired(in)
      /\ in # <<>> /\ in[Len(in)] = Part("header", TheCommand)
  BY DEF ClientSound, ClientTyped, RequestsClean
<1>2. TheCommand \in Request /\ TheCommand.full
  BY DEF TheCommand, Request, RequestTypes
<1> DEFINE t == Append(in, Part("payload", TheCommand))
<1>3. Clean(t) /\ t \in Seq(PartOf(Request))
  BY <1>1, <1>2, PairedPayload, MessagesRequest
<1> HIDE DEF t
<1>4. ClientTyped(cl, "connected", t, out, g)
  BY <1>3 DEF ClientSound, ClientTyped
<1>5. RequestsClean("connected", t, "waiting", e)
  BY <1>3 DEF RequestsClean, Clean
<1>6. EndsAgree(cl, "connected", t, out, g, "waiting")
  BY DEF ClientSound, EndsAgree, Nobody
<1> QED BY <1>4, <1>5, <1>6 DEF ClientSound, t

\* A write that reaches no socket, and the end of one that was not needed.
LEMMA NoPayloadSound ==
  ASSUME NEW cl, NEW sk, NEW in, NEW out, NEW g, NEW e, ClientSound(cl, sk, in, out, g, "asking", e),
         e \/ sk # "connected", NEW p2 \in {"waiting", "aborted"}
  PROVE  ClientSound(cl, sk, in, out, g, p2, e)
<1>1. sk \in Sockets /\ sk \notin Nobody
  BY DEF ClientSound, ClientTyped, EndsAgree
<1>2. ~Open(in)
  <2>1. CASE e
    BY <2>1 DEF ClientSound, RequestsClean
  <2>2. CASE sk # "connected"
    <3>1. in = <<>>
      BY <1>1, <2>2 DEF ClientSound, EndsAgree, Sockets, Nobody
    <3> QED BY <3>1 DEF Open
  <2> QED BY <2>1, <2>2
<1>3. RequestsClean(sk, in, p2, e)
  BY <1>2 DEF ClientSound, RequestsClean
<1>4. EndsAgree(cl, sk, in, out, g, p2)
  BY DEF ClientSound, EndsAgree
<1> QED BY <1>3, <1>4 DEF ClientSound

\* A bar asks.
LEMMA AskedSound ==
  ASSUME NEW cl, NEW in, NEW out, NEW g, NEW e, ClientSound(cl, "connected", in, out, g, "bar", e),
         NEW m \in Request
  PROVE  ClientSound(cl, "connected", in \o Parts(m), out, g, "bar", e)
<1>1. in \in Seq(PartOf(Request)) /\ Clean(in)
  BY DEF ClientSound, ClientTyped, RequestsClean, Clean
<1> DEFINE t == in \o Parts(m)
<1>2. Clean(t) /\ t \in Seq(PartOf(Request))
  BY <1>1, CleanParts, MessagesRequest
<1> HIDE DEF t
<1>3. ClientTyped(cl, "connected", t, out, g)
  BY <1>2 DEF ClientSound, ClientTyped
<1>4. RequestsClean("connected", t, "bar", e)
  BY <1>2 DEF RequestsClean, Clean
<1>5. EndsAgree(cl, "connected", t, out, g, "bar")
  BY DEF ClientSound, EndsAgree, Nobody
<1> QED BY <1>3, <1>4, <1>5 DEF ClientSound, t

\* What holds of the client of a step of a japokmsg or of a bar.
LEMMA SoundOf ==
  ASSUME StreamSound, NEW c \in Clients
  PROVE  /\ ClientSound(clients[c], socket[c], inbox[c], outbox[c], got[c], Place(c), Dumb(c))
         /\ c \in Messengers => Place(c) = pc[c] /\ Dumb(c) = empty[c] /\ Dumb(c) \in BOOLEAN
         /\ c \notin Messengers => Place(c) = "bar"
         /\ Shapes /\ status \in {"running", "stopped", "undefined"}
<1>1. Sound(c) /\ Shapes
  BY SoundIs
<1> QED BY <1>1 DEF Sound, Shapes, Place, Dumb

\* Such a step changes nothing of the server and of the other clients.
Local(c) ==
  /\ UNCHANGED <<clients, status>>
  /\ \E sk, in, out, g :
       /\ socket' = [socket EXCEPT ![c] = sk] /\ inbox' = [inbox EXCEPT ![c] = in]
       /\ outbox' = [outbox EXCEPT ![c] = out] /\ got' = [got EXCEPT ![c] = g]
  /\ \/ UNCHANGED <<pc, empty>>
     \/ /\ c \in Messengers
        /\ \E p, b : /\ pc' = [pc EXCEPT ![c] = p] /\ empty' = [empty EXCEPT ![c] = b]
                     /\ p \in {"connected", "asking", "waiting", "reading", "printed",
                               "aborted", "spinning", "idle"}
                     /\ b \in BOOLEAN

\* Such a step keeps the invariant when it keeps the connection sound.
LEMMA LocalSound ==
  ASSUME StreamSound, NEW c \in Clients, Local(c),
         ClientSound(clients[c], socket'[c], inbox'[c], outbox'[c], got'[c], Place(c)', Dumb(c)')
  PROVE  StreamSound'
<1>1. Shapes
  BY SoundIs
<1>2. Shapes'
  <2>1. UNCHANGED <<clients, status>>
    BY DEF Local
  <2>2. /\ socket' = [d \in Clients |-> socket'[d]] /\ inbox' = [d \in Clients |-> inbox'[d]]
        /\ outbox' = [d \in Clients |-> outbox'[d]] /\ got' = [d \in Clients |-> got'[d]]
    BY <1>1 DEF Local, Shapes
  <2>3. /\ pc' \in [Messengers -> {"idle", "connected", "asking", "waiting", "reading",
                                   "printed", "aborted", "spinning"}]
        /\ empty' \in [Messengers -> BOOLEAN]
    BY <1>1 DEF Local, Shapes
  <2> QED BY <1>1, <2>1, <2>2, <2>3 DEF Shapes
<1>3. ASSUME NEW d \in Clients \ {c} PROVE Untouched(d)
  <2>1. /\ clients'[d] = clients[d] /\ socket'[d] = socket[d] /\ inbox'[d] = inbox[d]
        /\ outbox'[d] = outbox[d] /\ got'[d] = got[d]
    BY <1>1 DEF Local, Shapes
  <2>2. d \in Messengers => pc'[d] = pc[d] /\ empty'[d] = empty[d]
    BY <1>1 DEF Local, Shapes
  <2> QED BY <2>1, <2>2 DEF Untouched, Place, Dumb
<1>4. Sound(c)'
  BY DEF Sound, Local
<1> QED BY <1>2, <1>3, <1>4, OneSound

Places == {"idle", "connected", "asking", "waiting", "reading", "printed", "aborted", "spinning"}

\* What is not changed, written as a change.
LEMMA Selves ==
  ASSUME StreamSound, NEW c \in Clients
  PROVE  /\ socket = [socket EXCEPT ![c] = socket[c]] /\ inbox = [inbox EXCEPT ![c] = inbox[c]]
         /\ outbox = [outbox EXCEPT ![c] = outbox[c]] /\ got = [got EXCEPT ![c] = got[c]]
         /\ c \in Messengers => /\ pc = [pc EXCEPT ![c] = pc[c]] /\ empty = [empty EXCEPT ![c] = empty[c]]
                                /\ pc[c] \in Places /\ empty[c] \in BOOLEAN
  BY SoundIs DEF Shapes, Places

\* The two sides of a connection after a step of its client.
Becomes(c, sk, in, out, g) ==
  /\ UNCHANGED <<clients, status>>
  /\ socket' = [socket EXCEPT ![c] = sk] /\ inbox' = [inbox EXCEPT ![c] = in]
  /\ outbox' = [outbox EXCEPT ![c] = out] /\ got' = [got EXCEPT ![c] = g]

\* The values of such a step.
LEMMA BecomesAt ==
  ASSUME StreamSound, NEW c \in Clients, NEW sk, NEW in, NEW out, NEW g, Becomes(c, sk, in, out, g)
  PROVE  socket'[c] = sk /\ inbox'[c] = in /\ outbox'[c] = out /\ got'[c] = g
  BY SoundIs DEF Shapes, Becomes

\* Where its japokmsg is then, and whether its command is empty.
GoesTo(c, p, b) ==
  /\ p \in Places /\ b \in BOOLEAN
  /\ pc' = [pc EXCEPT ![c] = p] /\ empty' = [empty EXCEPT ![c] = b]

\* A step of a japokmsg keeps the invariant when it keeps its connection sound.
LEMMA MessengerSound ==
  ASSUME StreamSound, NEW c \in Clients, c \in Messengers,
         NEW sk, NEW in, NEW out, NEW g, Becomes(c, sk, in, out, g),
         NEW p, NEW b, GoesTo(c, p, b),
         ClientSound(clients[c], sk, in, out, g, p, b)
  PROVE  StreamSound'
<1>1. socket'[c] = sk /\ inbox'[c] = in /\ outbox'[c] = out /\ got'[c] = g
  BY BecomesAt
<1>2. Place(c)' = p /\ Dumb(c)' = b
  BY SoundIs DEF Shapes, Place, Dumb, GoesTo
<1>3. Local(c)
  BY DEF Local, Becomes, Places, GoesTo
<1> QED BY <1>1, <1>2, <1>3, LocalSound

\* So does a step of a bar.
LEMMA BarSound ==
  ASSUME StreamSound, NEW c \in Clients, c \notin Messengers,
         NEW sk, NEW in, NEW out, NEW g, Becomes(c, sk, in, out, g), UNCHANGED <<pc, empty>>,
         ClientSound(clients[c], sk, in, out, g, "bar", FALSE)
  PROVE  StreamSound'
<1>1. socket'[c] = sk /\ inbox'[c] = in /\ outbox'[c] = out /\ got'[c] = g
  BY BecomesAt
<1>2. Place(c)' = "bar" /\ Dumb(c)' = FALSE
  BY DEF Place, Dumb
<1>3. Local(c)
  BY DEF Local, Becomes
<1> QED BY <1>1, <1>2, <1>3, LocalSound

\* What holds of a japokmsg ...
LEMMA SoundOfMessenger ==
  ASSUME StreamSound, NEW c \in Messengers
  PROVE  /\ c \in Clients /\ pc[c] \in Places /\ empty[c] \in BOOLEAN
         /\ ClientSound(clients[c], socket[c], inbox[c], outbox[c], got[c], pc[c], empty[c])
         /\ empty = [empty EXCEPT ![c] = empty[c]]
         /\ socket[c] \in Sockets /\ (pc[c] = "idle" <=> socket[c] \in Nobody)
<1>1. c \in Clients
  BY MessengersAssumption
<1>2. /\ ClientSound(clients[c], socket[c], inbox[c], outbox[c], got[c], pc[c], empty[c])
      /\ pc[c] \in Places /\ empty[c] \in BOOLEAN /\ empty = [empty EXCEPT ![c] = empty[c]]
  BY <1>1, SoundOf, Selves
<1>3. pc[c] # "bar"
  BY <1>2 DEF Places
<1> QED BY <1>1, <1>2, <1>3 DEF ClientSound, ClientTyped, EndsAgree

\* ... and of a bar.
LEMMA SoundOfBar ==
  ASSUME StreamSound, NEW c \in Bars
  PROVE  /\ c \in Clients /\ c \notin Messengers
         /\ ClientSound(clients[c], socket[c], inbox[c], outbox[c], got[c], "bar", FALSE)
<1>1. c \in Clients /\ c \notin Messengers
  BY DEF Bars
<1>2. Dumb(c) = FALSE
  BY <1>1 DEF Dumb
<1> QED BY <1>1, <1>2, SoundOf

\* ipc_open_socket
LEMMA ConnectBecomes ==
  ASSUME StreamSound, NEW c \in Clients, Connect(c)
  PROVE  socket[c] = "none" /\ Becomes(c, "connected", inbox[c], <<>>, <<>>)
  BY Selves DEF Connect, clientVars, Becomes

\* main of japokmsg up to ipc_open_socket.
LEMMA StartSound ==
  ASSUME StreamSound, NEW c \in Messengers, Start(c) PROVE StreamSound'
<1>1. /\ c \in Clients
      /\ ClientSound(clients[c], socket[c], inbox[c], outbox[c], got[c], pc[c], empty[c])
  BY SoundOfMessenger
<1>2. Connect(c) /\ pc' = [pc EXCEPT ![c] = "connected"]
  BY DEF Start, GoTo
<1>3. PICK b \in BOOLEAN : empty' = [empty EXCEPT ![c] = b]
  BY DEF Start
<1>4. socket[c] = "none" /\ Becomes(c, "connected", inbox[c], <<>>, <<>>)
  BY <1>1, <1>2, ConnectBecomes
<1>5. ClientSound(clients[c], "connected", inbox[c], <<>>, <<>>, "connected", b)
  BY <1>1, <1>4, ConnectedSound
<1>6. "connected" \in Places
  BY DEF Places
<1>9. GoesTo(c, "connected", b)
  BY <1>1, <1>2, <1>3, <1>4, <1>5, <1>6 DEF GoesTo, Places
<1> QED BY <1>1, <1>2, <1>3, <1>4, <1>5, <1>6, <1>9, MessengerSound

\* The first write of ipc_single_command, or SIGPIPE.
LEMMA WriteHeaderSound ==
  ASSUME StreamSound, NEW c \in Messengers, WriteHeader(c) PROVE StreamSound'
<1>1. /\ c \in Clients /\ empty[c] \in BOOLEAN
      /\ ClientSound(clients[c], socket[c], inbox[c], outbox[c], got[c], pc[c], empty[c])
      /\ empty = [empty EXCEPT ![c] = empty[c]]
  BY SoundOfMessenger
<1>2. pc[c] = "connected" /\ UNCHANGED <<clients, status, socket, outbox, empty, got>>
  BY DEF WriteHeader, clientVars
<1>3. CASE socket[c] = "connected"
  <2> DEFINE m == Command(c)
             in == Append(inbox[c], Part("header", m))
  <2>1. inbox' = [inbox EXCEPT ![c] = in] /\ pc' = [pc EXCEPT ![c] = "asking"]
    <3>1. inbox' = [inbox EXCEPT ![c] = Append(@, Part("header", m))] /\ pc' = [pc EXCEPT ![c] = "asking"]
      BY <1>3 DEF WriteHeader, ToServer, GoTo
    <3>2. inbox = [d \in Clients |-> inbox[d]]
      BY SoundIs DEF Shapes
    <3> HIDE DEF m
    <3> QED BY <1>1, <3>1, <3>2
  <2>2. m \in Request /\ m.full = ~empty[c] /\ (~empty[c] => m = TheCommand)
    <3>1. Dumb(c) = empty[c]
      BY DEF Dumb
    <3> QED BY <1>1, <3>1, CommandIs
  <2>3. Becomes(c, "connected", in, outbox[c], got[c])
    BY <1>1, <1>2, <1>3, <2>1, Selves DEF Becomes
  <2> HIDE DEF m
  <2>4. ClientSound(clients[c], "connected", in, outbox[c], got[c], "asking", empty[c])
    BY <1>1, <1>2, <1>3, <2>2, HeaderSound
  <2>5. "asking" \in Places
    BY DEF Places
  <2> HIDE DEF in
  <2>9. GoesTo(c, "asking", empty[c])
    BY <1>1, <1>2, <2>1, <2>3, <2>4, <2>5 DEF GoesTo, Places
  <2> QED BY <1>1, <1>2, <2>1, <2>3, <2>4, <2>5, <2>9, MessengerSound
<1>4. CASE socket[c] # "connected"
  <2>1. UNCHANGED inbox /\ pc' = [pc EXCEPT ![c] = "aborted"]
    BY <1>4 DEF WriteHeader, GoTo
  <2>2. Becomes(c, socket[c], inbox[c], outbox[c], got[c])
    BY <1>1, <1>2, <2>1, Selves DEF Becomes
  <2>3. ClientSound(clients[c], socket[c], inbox[c], outbox[c], got[c], "aborted", empty[c])
    BY <1>1, <1>2, PlaceSound
  <2>4. "aborted" \in Places
    BY DEF Places
  <2>9. GoesTo(c, "aborted", empty[c])
    BY <1>1, <1>2, <2>1, <2>2, <2>3, <2>4 DEF GoesTo, Places
  <2> QED BY <1>1, <1>2, <2>1, <2>2, <2>3, <2>4, <2>9, MessengerSound
<1> QED BY <1>3, <1>4

\* The second write of ipc_single_command, or SIGPIPE.
LEMMA WritePayloadSound ==
  ASSUME StreamSound, NEW c \in Messengers, WritePayload(c) PROVE StreamSound'
<1>1. /\ c \in Clients /\ empty[c] \in BOOLEAN
      /\ ClientSound(clients[c], socket[c], inbox[c], outbox[c], got[c], pc[c], empty[c])
      /\ empty = [empty EXCEPT ![c] = empty[c]]
  BY SoundOfMessenger
<1>2. pc[c] = "asking" /\ UNCHANGED <<clients, status, socket, outbox, empty, got>>
  BY DEF WritePayload, clientVars
<1>3. CASE ~empty[c] /\ socket[c] = "connected"
  <2> DEFINE in == Append(inbox[c], Part("payload", TheCommand))
  <2>1. inbox' = [inbox EXCEPT ![c] = in] /\ pc' = [pc EXCEPT ![c] = "waiting"]
    <3>1. inbox' = [inbox EXCEPT ![c] = Append(@, Part("payload", Command(c)))] /\ pc' = [pc EXCEPT ![c] = "waiting"]
      BY <1>3 DEF WritePayload, ToServer, GoTo
    <3>2. inbox = [d \in Clients |-> inbox[d]]
      BY SoundIs DEF Shapes
    <3>3. Dumb(c) = empty[c]
      BY DEF Dumb
    <3>4. Command(c) = TheCommand
      BY <1>1, <1>3, <3>3, CommandIs
    <3> QED BY <1>1, <3>1, <3>2, <3>4
  <2>2. Becomes(c, "connected", in, outbox[c], got[c])
    BY <1>1, <1>2, <1>3, <2>1, Selves DEF Becomes
  <2>3. ClientSound(clients[c], "connected", in, outbox[c], got[c], "waiting", empty[c])
    BY <1>1, <1>2, <1>3, PayloadSound
  <2>4. "waiting" \in Places
    BY DEF Places
  <2> HIDE DEF in
  <2>9. GoesTo(c, "waiting", empty[c])
    BY <1>1, <1>2, <2>1, <2>2, <2>3, <2>4 DEF GoesTo, Places
  <2> QED BY <1>1, <1>2, <2>1, <2>2, <2>3, <2>4, <2>9, MessengerSound
<1>4. CASE empty[c] \/ socket[c] # "connected"
  <2>1. PICK p \in {"waiting", "aborted"} : UNCHANGED inbox /\ pc' = [pc EXCEPT ![c] = p]
    BY <1>1, <1>4 DEF WritePayload, GoTo
  <2>2. Becomes(c, socket[c], inbox[c], outbox[c], got[c])
    BY <1>1, <1>2, <2>1, Selves DEF Becomes
  <2>3. ClientSound(clients[c], socket[c], inbox[c], outbox[c], got[c], p, empty[c])
    BY <1>1, <1>2, <1>4, NoPayloadSound
  <2>4. p \in Places
    BY DEF Places
  <2>9. GoesTo(c, p, empty[c])
    BY <1>1, <1>2, <2>1, <2>2, <2>3, <2>4 DEF GoesTo, Places
  <2> QED BY <1>1, <1>2, <2>1, <2>2, <2>3, <2>4, <2>9, MessengerSound
<1> QED BY <1>3, <1>4

\* What is read moves from the wire to the client.
LEMMA ReceiveBecomes ==
  ASSUME StreamSound, NEW c \in Clients, Receive(c)
  PROVE  \E out2, g2 : /\ ReadBy(got[c], outbox[c], g2, out2)
                       /\ Becomes(c, socket[c], inbox[c], out2, g2)
<1> DEFINE h == Head(outbox[c])
           g2 == IF h.part = "header" /\ h.msg.full THEN <<h>> ELSE <<>>
           out2 == Tail(outbox[c])
<1>1. /\ outbox[c] # <<>> /\ outbox' = [outbox EXCEPT ![c] = Tail(@)]
      /\ got' = [got EXCEPT ![c] = g2]
      /\ UNCHANGED <<clients, status, socket, inbox>>
  BY DEF Receive, clientVars
<1>2. outbox' = [outbox EXCEPT ![c] = out2]
  BY <1>1, SoundIs DEF Shapes
<1>3. ReadBy(got[c], outbox[c], g2, out2)
  BY <1>1 DEF ReadBy
<1> HIDE DEF g2, out2
<1>4. Becomes(c, socket[c], inbox[c], out2, g2)
  BY <1>1, <1>2, Selves DEF Becomes
<1> QED BY <1>3, <1>4

\* ipc_recv_response
LEMMA ReceiveAnswerSound ==
  ASSUME StreamSound, NEW c \in Messengers, ReceiveHeader(c) \/ ReceivePayload(c) PROVE StreamSound'
<1>1. /\ c \in Clients /\ empty[c] \in BOOLEAN
      /\ ClientSound(clients[c], socket[c], inbox[c], outbox[c], got[c], pc[c], empty[c])
      /\ empty = [empty EXCEPT ![c] = empty[c]]
  BY SoundOfMessenger
<1>2. pc[c] \in {"waiting", "reading"} /\ UNCHANGED empty
  BY DEF ReceiveHeader, ReceivePayload
<1>3. PICK p \in {"reading", "printed", "aborted", "spinning"} :
        /\ pc' = [pc EXCEPT ![c] = p]
        /\ Receive(c) \/ UNCHANGED <<serverVars, got>>
  BY DEF ReceiveHeader, ReceivePayload, GoTo
<1>4. p \in Places
  BY DEF Places
<1>5. CASE Receive(c)
  <2>1. PICK out2, g2 : /\ ReadBy(got[c], outbox[c], g2, out2)
                        /\ Becomes(c, socket[c], inbox[c], out2, g2)
    BY <1>1, <1>5, ReceiveBecomes
  <2>2. ClientSound(clients[c], socket[c], inbox[c], out2, g2, pc[c], empty[c])
    BY <1>1, <2>1, ReadSound
  <2>3. ClientSound(clients[c], socket[c], inbox[c], out2, g2, p, empty[c])
    BY <1>2, <2>2, PlaceSound
  <2>9. GoesTo(c, p, empty[c])
    BY <1>1, <1>2, <1>3, <1>4, <2>1, <2>3 DEF GoesTo, Places
  <2> QED BY <1>1, <1>2, <1>3, <1>4, <2>1, <2>3, <2>9, MessengerSound
<1>6. CASE UNCHANGED <<serverVars, got>>
  <2>1. Becomes(c, socket[c], inbox[c], outbox[c], got[c])
    BY <1>1, <1>6, Selves DEF Becomes, serverVars
  <2>2. ClientSound(clients[c], socket[c], inbox[c], outbox[c], got[c], p, empty[c])
    BY <1>1, <1>2, PlaceSound
  <2>9. GoesTo(c, p, empty[c])
    BY <1>1, <1>2, <1>3, <1>4, <2>1, <2>2 DEF GoesTo, Places
  <2> QED BY <1>1, <1>2, <1>3, <1>4, <2>1, <2>2, <2>9, MessengerSound
<1> QED BY <1>3, <1>5, <1>6

\* The three seconds of ipc_set_recv_timeout.
LEMMA TimeoutSound ==
  ASSUME StreamSound, NEW c \in Messengers, Timeout(c) PROVE StreamSound'
<1>1. /\ c \in Clients /\ empty[c] \in BOOLEAN
      /\ ClientSound(clients[c], socket[c], inbox[c], outbox[c], got[c], pc[c], empty[c])
      /\ empty = [empty EXCEPT ![c] = empty[c]]
  BY SoundOfMessenger
<1>2. pc[c] \in {"waiting", "reading"} /\ UNCHANGED <<serverVars, empty, got>>
      /\ pc' = [pc EXCEPT ![c] = "aborted"]
  BY DEF Timeout, GoTo
<1>3. Becomes(c, socket[c], inbox[c], outbox[c], got[c])
  BY <1>1, <1>2, Selves DEF Becomes, serverVars
<1>4. ClientSound(clients[c], socket[c], inbox[c], outbox[c], got[c], "aborted", empty[c])
  BY <1>1, <1>2, PlaceSound
<1>5. "aborted" \in Places
  BY DEF Places
<1>9. GoesTo(c, "aborted", empty[c])
  BY <1>1, <1>2, <1>3, <1>4, <1>5 DEF GoesTo, Places
<1> QED BY <1>1, <1>2, <1>3, <1>4, <1>5, <1>9, MessengerSound

\* The end that a client closes.
Left(sk) == IF sk = "connected" THEN "hung_up" ELSE "none"

\* The end of a process or a close.
LEMMA CloseBecomes ==
  ASSUME StreamSound, NEW c \in Clients, Close(c)
  PROVE  Becomes(c, Left(socket[c]), inbox[c], <<>>, <<>>)
<1>1. /\ socket' = [socket EXCEPT ![c] = IF @ = "connected" THEN "hung_up" ELSE "none"]
      /\ outbox' = [outbox EXCEPT ![c] = <<>>] /\ got' = [got EXCEPT ![c] = <<>>]
      /\ UNCHANGED <<clients, status, inbox>>
  BY DEF Close, clientVars
<1>2. socket' = [socket EXCEPT ![c] = Left(socket[c])]
  BY <1>1, SoundIs DEF Shapes, Left
<1> QED BY <1>1, <1>2, Selves DEF Becomes

\* main of japokmsg returns, or sway_abort.
LEMMA ExitSound ==
  ASSUME StreamSound, NEW c \in Messengers, Exit(c) PROVE StreamSound'
<1>1. /\ c \in Clients /\ empty[c] \in BOOLEAN
      /\ ClientSound(clients[c], socket[c], inbox[c], outbox[c], got[c], pc[c], empty[c])
      /\ empty = [empty EXCEPT ![c] = empty[c]]
      /\ pc[c] = "idle" <=> socket[c] \in Nobody
  BY SoundOfMessenger
<1>2. pc[c] \in {"printed", "aborted"} /\ Close(c) /\ pc' = [pc EXCEPT ![c] = "idle"] /\ UNCHANGED empty
  BY DEF Exit, GoTo
<1>3. Becomes(c, Left(socket[c]), inbox[c], <<>>, <<>>)
  BY <1>1, <1>2, CloseBecomes
<1>4. ClientSound(clients[c], Left(socket[c]), inbox[c], <<>>, <<>>, "idle", empty[c])
  <2>1. socket[c] \notin Nobody
    BY <1>1, <1>2
  <2> QED BY <1>1, <1>2, <2>1, ClosedSound DEF Left
<1>5. "idle" \in Places
  BY DEF Places
<1>9. GoesTo(c, "idle", empty[c])
  BY <1>1, <1>2, <1>3, <1>4, <1>5 DEF GoesTo, Places
<1> QED BY <1>1, <1>2, <1>3, <1>4, <1>5, <1>9, MessengerSound

\* The steps of a bar.
LEMMA BarStepSound ==
  ASSUME StreamSound, NEW c \in Bars, BarConnect(c) \/ BarAsks(c) \/ BarReads(c) \/ BarCloses(c)
  PROVE  StreamSound'
<1>1. /\ c \in Clients /\ c \notin Messengers
      /\ ClientSound(clients[c], socket[c], inbox[c], outbox[c], got[c], "bar", FALSE)
  BY SoundOfBar
<1>2. CASE BarConnect(c)
  <2>1. Connect(c) /\ UNCHANGED <<pc, empty>>
    BY <1>2 DEF BarConnect
  <2>2. socket[c] = "none" /\ Becomes(c, "connected", inbox[c], <<>>, <<>>)
    BY <1>1, <2>1, ConnectBecomes
  <2>3. ClientSound(clients[c], "connected", inbox[c], <<>>, <<>>, "bar", FALSE)
    BY <1>1, <2>2, ConnectedSound
  <2> QED BY <1>1, <2>1, <2>2, <2>3, BarSound
<1>3. CASE BarAsks(c)
  <2>1. PICK r \in Requests : inbox' = [inbox EXCEPT ![c] = @ \o Parts(r)]
    BY <1>3 DEF BarAsks
  <2>2. socket[c] = "connected" /\ UNCHANGED <<clients, status, socket, outbox, pc, empty, got>>
    BY <1>3 DEF BarAsks, clientVars
  <2> DEFINE in == inbox[c] \o Parts(r)
  <2>3. inbox' = [inbox EXCEPT ![c] = in]
    BY <2>1, SoundIs DEF Shapes
  <2>4. Becomes(c, "connected", in, outbox[c], got[c])
    BY <1>1, <2>2, <2>3, Selves DEF Becomes
  <2>5. r \in Request
    BY RequestsAssumption
  <2>6. ClientSound(clients[c], "connected", in, outbox[c], got[c], "bar", FALSE)
    BY <1>1, <2>2, <2>5, AskedSound
  <2> HIDE DEF in
  <2> QED BY <1>1, <2>2, <2>4, <2>6, BarSound
<1>4. CASE BarReads(c)
  <2>1. Receive(c) /\ UNCHANGED <<pc, empty>>
    BY <1>4 DEF BarReads
  <2>2. PICK out2, g2 : /\ ReadBy(got[c], outbox[c], g2, out2)
                        /\ Becomes(c, socket[c], inbox[c], out2, g2)
    BY <1>1, <2>1, ReceiveBecomes
  <2>3. ClientSound(clients[c], socket[c], inbox[c], out2, g2, "bar", FALSE)
    BY <1>1, <2>2, ReadSound
  <2> QED BY <1>1, <2>1, <2>2, <2>3, BarSound
<1>5. CASE BarCloses(c)
  <2>1. socket[c] \in {"connected", "shut", "reset"} /\ Close(c) /\ UNCHANGED <<pc, empty>>
    BY <1>5 DEF BarCloses
  <2>2. Becomes(c, Left(socket[c]), inbox[c], <<>>, <<>>)
    BY <1>1, <2>1, CloseBecomes
  <2>3. ClientSound(clients[c], Left(socket[c]), inbox[c], <<>>, <<>>, "bar", FALSE)
    BY <1>1, <2>1, ClosedSound DEF Left, Nobody
  <2> QED BY <1>1, <2>1, <2>2, <2>3, BarSound
<1> QED BY <1>2, <1>3, <1>4, <1>5

\* Before anyone has connected the invariant holds ...
LEMMA StreamInit == Init => StreamSound
<1> SUFFICES ASSUME Init PROVE StreamSound
  OBVIOUS
<1>1. /\ clients = [c \in Clients |-> Freed] /\ socket = [c \in Clients |-> "none"]
      /\ inbox = [c \in Clients |-> <<>>] /\ outbox = [c \in Clients |-> <<>>]
      /\ got = [c \in Clients |-> <<>>] /\ status = "running"
      /\ pc = [c \in Messengers |-> "idle"] /\ empty = [c \in Messengers |-> FALSE]
  BY DEF Init, ServerInit
<1>2. Shapes
  BY <1>1 DEF Shapes
<1>3. ASSUME NEW c \in Clients PROVE Sound(c)
  <2>1. Place(c) \in {"idle", "bar"}
    BY <1>1 DEF Place
  <2>2. ClientTyped(Freed, "none", <<>>, <<>>, <<>>)
    BY FreedTyped, EmptySeq DEF ClientTyped, Sockets, Gots
  <2>3. ClientSound(Freed, "none", <<>>, <<>>, <<>>, Place(c), Dumb(c))
    BY <2>1, <2>2, CleanEmpty, FreedTyped
       DEF ClientSound, AnswersClean, RequestsClean, EndsAgree, Nobody, Clean
  <2> QED BY <1>1, <2>3 DEF Sound
<1> QED BY <1>2, <1>3, SoundIs

\* ... and every step keeps it.
LEMMA StreamStep == StreamSound /\ [Next]_vars => StreamSound'
<1> SUFFICES ASSUME StreamSound, [Next]_vars PROVE StreamSound'
  OBVIOUS
<1>1. CASE ServerNext /\ UNCHANGED <<pc, empty, got>>
  BY <1>1, ServerSound
<1>2. ASSUME NEW c \in Messengers, Start(c) \/ MessengerStep(c) \/ Timeout(c)
      PROVE  StreamSound'
  BY <1>2, StartSound, WriteHeaderSound, WritePayloadSound, ReceiveAnswerSound, ExitSound, TimeoutSound
     DEF MessengerStep
<1>3. ASSUME NEW c \in Bars, BarConnect(c) \/ BarAsks(c) \/ BarReads(c) \/ BarCloses(c)
      PROVE  StreamSound'
  BY <1>3, BarStepSound
<1>4. CASE UNCHANGED vars
  <2>1. \A d \in Clients : Untouched(d)
    BY <1>4 DEF vars, serverVars, Untouched, Place, Dumb
  <2>2. Shapes'
    BY <1>4, SoundIs DEF vars, serverVars, Shapes
  <2>3. \A d \in Clients : Sound(d)'
    BY <2>1, UntouchedSound, SoundIs
  <2> QED BY <2>2, <2>3, SoundNext
<1> QED BY <1>1, <1>2, <1>3, <1>4 DEF Next

\* Whatever was sent in pieces, lost or cut off, in every behaviour the requests and
\* the answers that are under way can be read, and the two ends of a connection
\* agree on whether it is one.
THEOREM StreamAlwaysSound == Spec => []StreamSound
  BY StreamInit, StreamStep, PTL DEF Spec

\* What module IpcPromise sees of a connection.
Asked(c)   == Whole(inbox[c])
Queue(c)   == IF Listens(c) THEN Whole(outbox[c] \o clients[c].buffer) ELSE <<>>
Follows(c) == "workspace" \in clients[c].subscribed

AskedMap   == [c \in Clients |-> Whole(inbox[c])]
QueueMap   == [c \in Clients |-> IF Listens(c) THEN Whole(outbox[c] \o clients[c].buffer) ELSE <<>>]
FollowsMap == [c \in Clients |-> "workspace" \in clients[c].subscribed]
HereMap    == [c \in Clients |-> Listens(c)]

\* The variables of IpcPromise, connection by connection.
LEMMA MapsAre ==
  /\ AskedMap = [c \in Clients |-> Asked(c)] /\ AskedMap' = [c \in Clients |-> Asked(c)']
  /\ QueueMap = [c \in Clients |-> Queue(c)] /\ QueueMap' = [c \in Clients |-> Queue(c)']
  /\ FollowsMap = [c \in Clients |-> Follows(c)] /\ FollowsMap' = [c \in Clients |-> Follows(c)']
  /\ HereMap = [c \in Clients |-> Listens(c)] /\ HereMap' = [c \in Clients |-> Listens(c)']
  BY DEF AskedMap, QueueMap, FollowsMap, HereMap, Asked, Queue, Follows

SeenAlike(d) ==
  /\ Asked(d)' = Asked(d) /\ Queue(d)' = Queue(d)
  /\ Follows(d)' = Follows(d) /\ Listens(d)' = Listens(d)

\* A step of which IpcPromise sees nothing.
LEMMA PromiseStutters ==
  ASSUME \A d \in Clients : SeenAlike(d)
  PROVE  UNCHANGED Promise!vars
<1>1. /\ [c \in Clients |-> Whole(inbox[c])]' = [c \in Clients |-> Whole(inbox[c])]
      /\ [c \in Clients |-> IF Listens(c) THEN Whole(outbox[c] \o clients[c].buffer) ELSE <<>>]'
           = [c \in Clients |-> IF Listens(c) THEN Whole(outbox[c] \o clients[c].buffer) ELSE <<>>]
      /\ [c \in Clients |-> "workspace" \in clients[c].subscribed]'
           = [c \in Clients |-> "workspace" \in clients[c].subscribed]
      /\ [c \in Clients |-> Listens(c)]' = [c \in Clients |-> Listens(c)]
  BY DEF SeenAlike, Asked, Queue, Follows
<1> QED BY <1>1 DEF Promise!vars

\* What is sent, connection by connection.
Sends(d, lost, told, answers) ==
  IF d \in lost THEN Promise!IsPrefix(Queue(d)', Queue(d))
  ELSE Queue(d)' = IF ~Listens(d) THEN <<>>
                   ELSE Queue(d) \o (IF told /\ Follows(d) THEN <<TagEvent>> ELSE <<>>) \o answers

\* What is sent to every connection is what IpcPromise allows to be sent.
LEMMA PromiseSends ==
  ASSUME NEW lost, NEW told, NEW answers, \A d \in Clients : Sends(d, lost, told, answers[d])
  PROVE  Promise!Send(lost, told, answers)
<1>1. DOMAIN QueueMap' = Clients
  BY DEF QueueMap
<1>2. ASSUME NEW d \in Clients
      PROVE  IF d \in lost THEN Promise!IsPrefix(QueueMap'[d], QueueMap[d])
             ELSE QueueMap'[d] =
                    IF ~HereMap[d] THEN <<>>
                    ELSE QueueMap[d] \o (IF told /\ FollowsMap[d] THEN <<TagEvent>> ELSE <<>>) \o answers[d]
  <2>1. /\ QueueMap[d] = Queue(d) /\ QueueMap'[d] = Queue(d)'
        /\ HereMap[d] = Listens(d) /\ FollowsMap[d] = Follows(d)
    BY MapsAre, Zenon
  <2>2. Sends(d, lost, told, answers[d])
    OBVIOUS
  <2>3. CASE d \in lost
    BY <2>1, <2>2, <2>3, Zenon DEF Sends
  <2>4. CASE d \notin lost
    BY <2>1, <2>2, <2>4, Zenon DEF Sends
  <2> QED BY <2>3, <2>4
<1>3. \A d \in Clients :
        IF d \in lost THEN Promise!IsPrefix(QueueMap'[d], QueueMap[d])
        ELSE QueueMap'[d] =
               IF ~HereMap[d] THEN <<>>
               ELSE QueueMap[d] \o (IF told /\ FollowsMap[d] THEN <<TagEvent>> ELSE <<>>) \o answers[d]
  BY <1>2, Zenon
<1> QED BY <1>1, <1>3, Zenon DEF Promise!Send, QueueMap, HereMap, FollowsMap

\* A connection when a request of connection c has been handled.
AnsweredAs(d, c, lost, told, r) ==
  /\ Sends(d, lost, told, IF d = c THEN Promise!AnswersTo(r) ELSE <<>>)
  /\ Asked(d)' = IF d \in lost THEN <<>> ELSE IF d = c THEN Tail(Asked(d)) ELSE Asked(d)
  /\ Follows(d)' = (d \notin lost /\ (Follows(d) \/ (d = c /\ Promise!Subscribes(r))))
  /\ Listens(d)' = Listens(d)

\* A request is handled.
LEMMA PromiseHandles ==
  ASSUME NEW c \in Clients, NEW lost \in SUBSET Clients, NEW told \in BOOLEAN, NEW r,
         Asked(c) # <<>>, r = Head(Asked(c)), told => r.full /\ r.type = "command",
         \A d \in Clients : AnsweredAs(d, c, lost, told, r)
  PROVE  Promise!Next
<1> DEFINE answers == [d \in Clients |-> IF d = c THEN Promise!AnswersTo(r) ELSE <<>>]
<1>1. Promise!Send(lost, told, answers)
  <2>1. \A d \in Clients : answers[d] = IF d = c THEN Promise!AnswersTo(r) ELSE <<>>
    OBVIOUS
  <2> HIDE DEF answers
  <2>2. \A d \in Clients : Sends(d, lost, told, answers[d])
    BY <2>1 DEF AnsweredAs
  <2> QED BY <2>2, PromiseSends
<1>2. Promise!Handle(c, lost)
  BY <1>1 DEF Promise!Handle, AnsweredAs, Asked, Follows
<1> QED BY <1>2 DEF Promise!Next

\* The tags change and everyone who asked is told.
LEMMA PromiseTagsChange ==
  ASSUME NEW lost \in SUBSET Clients,
         \A d \in Clients :
           /\ Sends(d, lost, TRUE, <<>>)
           /\ Asked(d)' = IF d \in lost THEN <<>> ELSE Asked(d)
           /\ Follows(d)' = (d \notin lost /\ Follows(d))
           /\ Listens(d)' = Listens(d)
  PROVE  Promise!Next
<1>1. Promise!Send(lost, TRUE, [c \in Clients |-> <<>>])
  BY PromiseSends
<1>2. Promise!TagsChange(lost)
  BY <1>1 DEF Promise!TagsChange, Asked, Follows
<1> QED BY <1>2 DEF Promise!Next

\* Connections end.
LEMMA PromiseDrops ==
  ASSUME NEW lost \in SUBSET Clients,
         \A d \in Clients :
           /\ Sends(d, lost, FALSE, <<>>)
           /\ Asked(d)' = IF d \in lost THEN <<>> ELSE Asked(d)
           /\ Follows(d)' = (d \notin lost /\ Follows(d))
           /\ Listens(d)' = Listens(d)
  PROVE  Promise!Next
<1>1. Promise!Send(lost, FALSE, [c \in Clients |-> <<>>])
  BY PromiseSends
<1>2. Promise!Drop(lost)
  BY <1>1 DEF Promise!Drop, Asked, Follows
<1> QED BY <1>2 DEF Promise!Next

\* A step that module IpcPromise sees at one connection.
LEMMA PromiseArrives ==
  ASSUME NEW c \in Clients, \A d \in Clients \ {c} : SeenAlike(d),
         ~Listens(c), Listens(c)', Asked(c) = <<>>, Asked(c)' = <<>>, Queue(c)' = <<>>,
         ~Follows(c), ~Follows(c)'
  PROVE  Promise!Next
<1>1. ~HereMap[c] /\ AskedMap[c] = <<>> /\ ~FollowsMap[c]
  BY MapsAre, Zenon
<1>2. HereMap' = [HereMap EXCEPT ![c] = TRUE]
  BY MapsAre DEF SeenAlike
<1>3. AskedMap' = AskedMap
  BY MapsAre DEF SeenAlike
<1>4. QueueMap' = QueueMap
  <2>1. Queue(c) = <<>>
    BY DEF Queue
  <2> QED BY <2>1, MapsAre DEF SeenAlike
<1>5. FollowsMap' = FollowsMap
  <2>1. Follows(c)' = Follows(c)
    BY DEF Follows
  <2> QED BY <2>1, MapsAre DEF SeenAlike
<1>6. Promise!Arrive(c)
  BY <1>1, <1>2, <1>3, <1>4, <1>5 DEF Promise!Arrive, AskedMap, QueueMap, FollowsMap, HereMap
<1> QED BY <1>6 DEF Promise!Next

\* A client reads the last part of a message.
LEMMA PromiseTakes ==
  ASSUME NEW c \in Clients, \A d \in Clients \ {c} : SeenAlike(d),
         Queue(c) # <<>>, Queue(c)' = Tail(Queue(c)), Asked(c)' = Asked(c),
         Follows(c)' = Follows(c), Listens(c)' = Listens(c)
  PROVE  Promise!Next
<1>1. Promise!Take(c)
  BY DEF Promise!Take, SeenAlike, Asked, Queue, Follows
<1> QED BY <1>1 DEF Promise!Next

\* A client closes its end.
LEMMA PromiseLeaves ==
  ASSUME NEW c \in Clients, \A d \in Clients \ {c} : SeenAlike(d),
         Listens(c), ~Listens(c)', Asked(c)' = Asked(c), Follows(c)' = Follows(c)
  PROVE  Promise!Next
<1>2. HereMap[c] /\ HereMap' = [HereMap EXCEPT ![c] = FALSE]
  BY DEF SeenAlike, HereMap, Listens
<1>3. AskedMap' = AskedMap
  BY MapsAre DEF SeenAlike
<1>4. QueueMap' = [QueueMap EXCEPT ![c] = <<>>]
  <2>1. Queue(c)' = <<>>
    BY DEF Queue
  <2> QED BY <2>1, MapsAre DEF SeenAlike
<1>5. FollowsMap' = FollowsMap
  BY MapsAre DEF SeenAlike
<1>1. Promise!Leave(c)
  BY <1>2, <1>3, <1>4, <1>5 DEF Promise!Leave, AskedMap, QueueMap, FollowsMap, HereMap
<1> QED BY <1>1 DEF Promise!Next

\* A client writes the last part of a request.
LEMMA PromiseAsks ==
  ASSUME NEW c \in Clients, \A d \in Clients \ {c} : SeenAlike(d), NEW r \in Requests \cup Commands,
         Listens(c), Listens(c)', Asked(c)' = Append(Asked(c), r), Queue(c)' = Queue(c),
         Follows(c)' = Follows(c)
  PROVE  Promise!Next
<1>2. HereMap[c] /\ HereMap' = HereMap
  BY DEF SeenAlike, HereMap, Listens
<1>3. AskedMap' = [AskedMap EXCEPT ![c] = Append(@, r)]
  BY MapsAre DEF SeenAlike
<1>4. QueueMap' = QueueMap
  BY MapsAre DEF SeenAlike
<1>5. FollowsMap' = FollowsMap
  BY MapsAre DEF SeenAlike
<1>1. Promise!Ask(c, r)
  BY <1>2, <1>3, <1>4, <1>5 DEF Promise!Ask, AskedMap, QueueMap, FollowsMap, HereMap
<1> QED BY <1>1 DEF Promise!Next

\* What a freed connection can still read is the beginning of what it was sent.
LEMMA PrefixOf ==
  ASSUME NEW X, NEW a \in Seq(X), NEW b \in Seq(X)
  PROVE  Promise!IsPrefix(a, a \o b)
<1>1. Len(a) <= Len(a \o b)
  OBVIOUS
<1>2. SubSeq(a, 1, Len(a)) = SubSeq(a \o b, 1, Len(a))
  <2>1. SubSeq(a, 1, Len(a)) = a
    OBVIOUS
  <2>2. SubSeq(a \o b, 1, Len(a)) = a
    OBVIOUS
  <2> QED BY <2>1, <2>2
<1> QED
  <2>1. Promise!IsPrefix(a, a \o b) <=>
          Len(a) <= Len(a \o b) /\ SubSeq(a, 1, Len(a)) = SubSeq(a \o b, 1, Len(a))
    BY DEF Promise!IsPrefix
  <2> QED BY <1>1, <1>2, <2>1

\* A client that is gone has nothing to read.
LEMMA PrefixNone == Promise!IsPrefix(<<>>, <<>>)
  BY DEF Promise!IsPrefix

\* What module IpcPromise sees of the queue of a connection is made of messages.
LEMMA QueueTyped ==
  ASSUME StreamSound, NEW d \in Clients
  PROVE  /\ outbox[d] \in Seq(PartOf(Message)) /\ clients[d].buffer \in Seq(PartOf(Message))
         /\ clients[d] \in Client
         /\ Whole(outbox[d]) \in Seq(Message) /\ Whole(clients[d].buffer) \in Seq(Message)
         /\ Whole(outbox[d] \o clients[d].buffer) = Whole(outbox[d]) \o Whole(clients[d].buffer)
         /\ Whole(outbox[d] \o clients[d].buffer) \in Seq(Message) /\ Queue(d) \in Seq(Message)
<1> DEFINE out == outbox[d]
           b == clients[d].buffer
<1>1. Shapes /\ Sound(d)
  BY SoundIs
<1>2. out \in Seq(PartOf(Message)) /\ b \in Seq(PartOf(Message)) /\ clients[d] \in Client
  BY <1>1 DEF Sound, ClientSound, ClientTyped, Client
<1>3. Queue(d) = IF Listens(d) THEN Whole(out \o b) ELSE <<>>
  BY DEF Queue
<1> HIDE DEF out, b
<1>4. Whole(out) \in Seq(Message) /\ Whole(b) \in Seq(Message) /\ Whole(out \o b) = Whole(out) \o Whole(b)
  BY <1>2, WholeTyped, WholeConcat
<1>5. Whole(out \o b) \in Seq(Message)
  BY <1>4
<1> QED BY <1>2, <1>3, <1>4, <1>5 DEF out, b

\* A connection whose buffer is emptied can still read the beginning of what it was sent.
LEMMA ClippedQueue ==
  ASSUME StreamSound, NEW d \in Clients, Listens(d)' = Listens(d), outbox'[d] = outbox[d],
         clients'[d].buffer = <<>>
  PROVE  Promise!IsPrefix(Queue(d)', Queue(d))
<1>1. outbox[d] \o <<>> = outbox[d]
  BY QueueTyped
<1>2. Promise!IsPrefix(Whole(outbox[d]), Whole(outbox[d]) \o Whole(clients[d].buffer))
  <2> DEFINE w == Whole(outbox[d])
             v == Whole(clients[d].buffer)
  <2>1. w \in Seq(Message) /\ v \in Seq(Message)
    BY QueueTyped
  <2> HIDE DEF w, v
  <2>2. Promise!IsPrefix(w, w \o v)
    BY <2>1, PrefixOf
  <2> QED BY <2>2 DEF w, v
<1>3. CASE Listens(d)
  <2>1. Queue(d)' = Whole(outbox[d]) /\ Queue(d) = Whole(outbox[d]) \o Whole(clients[d].buffer)
    BY <1>1, <1>3, QueueTyped DEF Queue
  <2> QED BY <1>2, <2>1
<1>4. CASE ~Listens(d)
  <2>1. Queue(d)' = <<>> /\ Queue(d) = <<>>
    BY <1>4 DEF Queue
  <2> QED BY <2>1, PrefixNone
<1> QED BY <1>3, <1>4

\* What module IpcPromise sees of a connection whose struct has been stored.
StoredAs(d, cls, in, ms) ==
  /\ Listens(d)' = Listens(d)
  /\ IF clients[d].open /\ ~cls[d].open
     THEN Promise!IsPrefix(Queue(d)', Queue(d)) /\ Asked(d)' = <<>> /\ ~Follows(d)'
     ELSE /\ Queue(d)' = IF ~Listens(d) THEN <<>> ELSE Queue(d) \o ms
          /\ Asked(d)' = Whole(in[d])
          /\ Follows(d)' = ("workspace" \in cls[d].subscribed)

\* Whatever a handler stores, a connection has lost the end of its queue or has been
\* sent all of the messages.
LEMMA StoreQueues ==
  ASSUME StreamSound, NEW cls, NEW in, AllClients(cls), Store(cls, in), UNCHANGED outbox,
         NEW d \in Clients, NEW ms \in Seq(Message), Outcome(clients[d], cls[d], ms),
         ~clients[d].open => ms = <<>>
  PROVE  StoredAs(d, cls, in, ms)
<1> DEFINE freed == {e \in Clients : clients[e].open /\ ~cls[e].open}
           out == outbox[d]
           b == clients[d].buffer
<1>1. Shapes /\ Sound(d) /\ AllClients(clients)
  BY SoundIs, SoundClients
<1>2. out \in Seq(PartOf(Message)) /\ b \in Seq(PartOf(Message)) /\ clients[d] \in Client
  BY QueueTyped
<1>3. /\ clients' = cls
      /\ inbox' = [e \in Clients |-> IF e \in freed THEN <<>> ELSE in[e]]
      /\ socket' = [e \in Clients |->
           IF e \notin freed THEN socket[e]
           ELSE IF socket[e] = "hung_up" THEN "none"
           ELSE IF in[e] = <<>> THEN "shut" ELSE "reset"]
  BY DEF Store
<1>4. /\ clients'[d] = cls[d] /\ outbox'[d] = out
      /\ inbox'[d] = (IF d \in freed THEN <<>> ELSE in[d])
      /\ socket'[d] = IF d \notin freed THEN socket[d]
                      ELSE IF socket[d] = "hung_up" THEN "none"
                      ELSE IF in[d] = <<>> THEN "shut" ELSE "reset"
  BY <1>3
<1>5. /\ Queue(d) = (IF Listens(d) THEN Whole(out \o b) ELSE <<>>)
      /\ Queue(d)' = (IF Listens(d)' THEN Whole(out \o cls[d].buffer) ELSE <<>>)
      /\ Asked(d)' = Whole(IF d \in freed THEN <<>> ELSE in[d])
      /\ Follows(d)' = ("workspace" \in cls[d].subscribed)
  BY <1>4 DEF Queue, Asked, Follows
<1>6. Whole(out \o b) \in Seq(Message)
  BY QueueTyped
<1>7. CASE clients[d].open /\ ~cls[d].open
  <2>1. d \in freed
    BY <1>7
  <2>2. socket[d] \in {"connected", "hung_up"}
    BY <1>7, SoundClients
  <2>3. Listens(d)' = Listens(d)
    <3>1. Listens(d) <=> socket[d] = "connected"
      BY <2>2 DEF Listens
    <3>2. Listens(d)' <=> socket[d] = "connected"
      BY <1>4, <2>1, <2>2 DEF Listens
    <3> QED BY <3>1, <3>2 DEF Listens
  <2>4. cls[d] = Freed /\ cls[d].buffer = <<>> /\ cls[d].subscribed = {}
    BY <1>7, FreedTyped DEF AllClients
  <2>5. Promise!IsPrefix(Queue(d)', Queue(d))
    BY <1>4, <2>3, <2>4, ClippedQueue
  <2>6. Asked(d)' = <<>>
    BY <1>5, <2>1, WholeEmpty
  <2>7. ~Follows(d)'
    BY <1>5, <2>4
  <2> HIDE DEF freed
  <2> QED BY <1>7, <2>3, <2>5, <2>6, <2>7 DEF StoredAs
<1>8. CASE ~(clients[d].open /\ ~cls[d].open)
  <2>1. d \notin freed
    BY <1>8
  <2>2. Listens(d)' = Listens(d)
    BY <1>4, <2>1 DEF Listens
  <2>3. Asked(d)' = Whole(in[d])
    BY <1>5, <2>1
  <2>4. Whole(out \o cls[d].buffer) = Whole(out \o b) \o ms
    <3>1. CASE cls[d] = Freed
      <4>1. clients[d] = Freed /\ ms = <<>>
        BY <1>1, <1>8, <3>1, FreedTyped DEF AllClients
      <4>2. cls[d].buffer = b
        BY <3>1, <4>1
      <4>3. Whole(out \o b) \o <<>> = Whole(out \o b)
        BY <1>6
      <4> QED BY <4>1, <4>2, <4>3
    <3>2. CASE cls[d] # Freed
      <4>1. PICK parts : Carries(parts, ms) /\ cls[d].buffer = b \o parts
        BY <3>2 DEF Outcome, Sent
      <4>2. parts \in Seq(PartOf(Message)) /\ Whole(parts) = ms
        BY <4>1 DEF Carries
      <4> HIDE DEF out, b
      <4>3. (out \o b) \o parts = out \o (b \o parts)
        BY <1>2, <4>2, Associative DEF Associates
      <4>4. out \o b \in Seq(PartOf(Message))
        BY <1>2
      <4>5. Whole((out \o b) \o parts) = Whole(out \o b) \o Whole(parts)
        BY <4>2, <4>4, WholeConcat
      <4> QED BY <4>1, <4>2, <4>3, <4>5
    <3> QED BY <3>1, <3>2
  <2>5. Queue(d)' = IF ~Listens(d) THEN <<>> ELSE Queue(d) \o ms
    BY <1>5, <2>2, <2>4
  <2> HIDE DEF freed
  <2> QED BY <1>5, <1>8, <2>2, <2>3, <2>5 DEF StoredAs
<1> QED BY <1>7, <1>8

\* The connections that are freed.
FreedIn(cls) == {d \in Clients : clients[d].open /\ ~cls[d].open}

\* ipc_client_disconnect
LEMMA DisconnectKept ==
  ASSUME StreamSound, NEW c \in Clients, clients[c].open, NEW in, Disconnect(c, in),
         \A d \in Clients \ {c} : in[d] = inbox[d], UNCHANGED outbox
  PROVE  Promise!Next
<1> DEFINE cls == [clients EXCEPT ![c] = Freed]
<1>1. AllClients(clients)
  BY SoundClients
<1>2. AllClients(cls) /\ cls[c] = Freed /\ \A d \in Clients \ {c} : cls[d] = clients[d]
  BY <1>1, FreedTyped, OneChanges
<1>3. Store(cls, in)
  BY DEF Disconnect
<1> HIDE DEF cls
<1>4. ASSUME NEW d \in Clients
      PROVE  /\ Sends(d, {c}, FALSE, <<>>)
             /\ Asked(d)' = IF d \in {c} THEN <<>> ELSE Asked(d)
             /\ Follows(d)' = (d \notin {c} /\ Follows(d))
             /\ Listens(d)' = Listens(d)
  <2>1. Outcome(clients[d], cls[d], <<>>)
    BY <1>1, <1>2, OutcomeNone DEF AllClients, Outcome
  <2>2. <<>> \in Seq(Message)
    OBVIOUS
  <2>3. StoredAs(d, cls, in, <<>>)
    BY <1>2, <1>3, <2>1, <2>2, StoreQueues
  <2>4. CASE d = c
    <3>1. clients[d].open /\ ~cls[d].open
      BY <1>2, <2>4, FreedTyped
    <3>2. Sends(d, {c}, FALSE, <<>>) /\ Asked(d)' = <<>> /\ ~Follows(d)' /\ Listens(d)' = Listens(d)
      BY <2>3, <2>4, <3>1 DEF StoredAs, Sends
    <3>3. Follows(d)' = FALSE
      BY <3>2 DEF Follows
    <3>4. Follows(d)' = (d \notin {c} /\ Follows(d))
      BY <2>4, <3>3
    <3> QED BY <2>4, <3>2, <3>4
  <2>5. CASE d # c
    <3>1. cls[d] = clients[d] /\ in[d] = inbox[d]
      BY <1>2, <2>5
    <3>2. Queue(d) \o (IF FALSE /\ Follows(d) THEN <<TagEvent>> ELSE <<>>) \o <<>> = Queue(d) \o <<>>
      BY QueueTyped
    <3>3. Asked(d)' = Asked(d) /\ Follows(d)' = Follows(d)
      BY <2>3, <3>1 DEF StoredAs, Asked, Follows
    <3>4. Queue(d)' = IF ~Listens(d) THEN <<>> ELSE Queue(d) \o <<>>
      BY <2>3, <3>1 DEF StoredAs
    <3>5. Sends(d, {c}, FALSE, <<>>)
      BY <2>5, <3>2, <3>4 DEF Sends
    <3>6. Listens(d)' = Listens(d)
      BY <2>3 DEF StoredAs
    <3>7. Follows(d)' = (d \notin {c} /\ Follows(d))
      BY <2>5, <3>3 DEF Follows
    <3> QED BY <2>5, <3>3, <3>5, <3>6, <3>7
  <2> QED BY <2>4, <2>5
<1>5. {c} \in SUBSET Clients
  OBVIOUS
<1> QED BY <1>4, <1>5, PromiseDrops

\* What is stored was sent: the event that is due before the answers.
LEMMA StoredSends ==
  ASSUME StreamSound, NEW cls, NEW in, NEW d \in Clients, NEW told \in BOOLEAN, NEW answers \in Seq(Message),
         StoredAs(d, cls, in, Due(clients[d], told) \o answers)
  PROVE  Sends(d, FreedIn(cls), told, answers)
<1> DEFINE q == Queue(d)
           due == Due(clients[d], told)
<1>1. q \in Seq(Message) /\ due \in Seq(Message)
  BY QueueTyped, DueTyped
<1>2. due = IF told /\ Follows(d) THEN <<TagEvent>> ELSE <<>>
  BY DEF Due, Follows
<1>3. q \o (due \o answers) = (q \o due) \o answers
  <2> HIDE DEF q, due
  <2> QED BY <1>1, Associative DEF Associates
<1>4. CASE clients[d].open /\ ~cls[d].open
  <2>1. d \in FreedIn(cls)
    BY <1>4 DEF FreedIn
  <2>2. Promise!IsPrefix(Queue(d)', Queue(d))
    BY <1>4 DEF StoredAs
  <2> QED BY <2>1, <2>2 DEF Sends
<1>5. CASE ~(clients[d].open /\ ~cls[d].open)
  <2>1. d \notin FreedIn(cls)
    BY <1>5 DEF FreedIn
  <2>2. Queue(d)' = IF ~Listens(d) THEN <<>> ELSE q \o (due \o answers)
    BY <1>5 DEF StoredAs
  <2> HIDE DEF due
  <2>3. Queue(d)' = IF ~Listens(d) THEN <<>>
                    ELSE Queue(d) \o (IF told /\ Follows(d) THEN <<TagEvent>> ELSE <<>>) \o answers
    BY <1>2, <1>3, <2>2
  <2> QED BY <2>1, <2>3, Zenon DEF Sends
<1> QED BY <1>4, <1>5

\* The end of the compositor.
LEMMA StopKept ==
  ASSUME StreamSound, Stop PROVE Promise!Next
<1>1. ASSUME NEW d \in Clients
      PROVE  /\ Sends(d, Clients, FALSE, <<>>)
             /\ Asked(d)' = IF d \in Clients THEN <<>> ELSE Asked(d)
             /\ Follows(d)' = (d \notin Clients /\ Follows(d))
             /\ Listens(d)' = Listens(d)
  <2>1. clients'[d] = Freed /\ inbox'[d] = <<>> /\ outbox'[d] = outbox[d]
        /\ socket'[d] = CASE socket[d] \in {"none", "hung_up"} -> "none"
                          [] socket[d] = "connected" /\ inbox[d] = <<>> -> "shut"
                          [] socket[d] = "connected" /\ inbox[d] # <<>> -> "reset"
                          [] OTHER -> socket[d]
    BY DEF Stop
  <2>2. Listens(d)' = Listens(d)
    <3>1. CASE socket[d] \in {"none", "hung_up"}
      BY <2>1, <3>1 DEF Listens
    <3>2. CASE socket[d] = "connected"
      <4>1. socket'[d] \in {"shut", "reset"}
        BY <2>1, <3>2
      <4> QED BY <3>2, <4>1 DEF Listens
    <3>3. CASE socket[d] \notin {"none", "hung_up", "connected"}
      <4>1. socket'[d] = socket[d]
        BY <2>1, <3>3
      <4> QED BY <4>1 DEF Listens
    <3> QED BY <3>1, <3>2, <3>3
  <2>3. clients'[d].buffer = <<>> /\ clients'[d].subscribed = {}
    BY <2>1, FreedTyped
  <2>4. Promise!IsPrefix(Queue(d)', Queue(d))
    BY <2>1, <2>2, <2>3, ClippedQueue
  <2>5. Asked(d)' = <<>>
    BY <2>1, WholeEmpty DEF Asked
  <2>6. Follows(d)' = FALSE
    BY <2>3 DEF Follows
  <2>7. Sends(d, Clients, FALSE, <<>>)
    BY <2>4 DEF Sends
  <2>8. Follows(d)' = (d \notin Clients /\ Follows(d))
    BY <2>6
  <2> QED BY <2>2, <2>5, <2>7, <2>8
<1>2. Clients \in SUBSET Clients
  OBVIOUS
<1> QED BY <1>1, <1>2, PromiseDrops

\* ipc_event_tag
LEMMA TagsChangeKept ==
  ASSUME StreamSound, TagsChange PROVE Promise!Next
<1> DEFINE cls == EventTag(clients)
<1>1. AllClients(clients)
  BY SoundClients
<1>2. /\ AllClients(cls)
      /\ \A d \in Clients :
           /\ Outcome(clients[d], cls[d], IF "workspace" \in clients[d].subscribed THEN <<TagEvent>> ELSE <<>>)
           /\ cls[d] = Freed \/ cls[d].subscribed = clients[d].subscribed
  BY <1>1, EventTagTells
<1>3. Store(cls, inbox) /\ UNCHANGED outbox
  BY DEF TagsChange
<1> HIDE DEF cls
<1>4. ASSUME NEW d \in Clients
      PROVE  /\ Sends(d, FreedIn(cls), TRUE, <<>>)
             /\ Asked(d)' = IF d \in FreedIn(cls) THEN <<>> ELSE Asked(d)
             /\ Follows(d)' = (d \notin FreedIn(cls) /\ Follows(d))
             /\ Listens(d)' = Listens(d)
  <2> DEFINE ms == Due(clients[d], TRUE) \o <<>>
  <2>1. ms \in Seq(Message) /\ ms = IF "workspace" \in clients[d].subscribed THEN <<TagEvent>> ELSE <<>>
    <3>1. Due(clients[d], TRUE) \in Seq(Message) /\ ms = Due(clients[d], TRUE)
      BY DueTyped
    <3> QED BY <3>1 DEF Due
  <2>2. Outcome(clients[d], cls[d], ms)
    BY <1>2, <2>1
  <2>3. ~clients[d].open => ms = <<>>
    BY <1>1, <2>1, FreedTyped DEF AllClients
  <2>4. StoredAs(d, cls, inbox, ms)
    <3> HIDE DEF ms
    <3> QED BY <1>2, <1>3, <2>1, <2>2, <2>3, StoreQueues
  <2>5. Sends(d, FreedIn(cls), TRUE, <<>>)
    BY <2>4, StoredSends, EmptySeq
  <2>6. Listens(d)' = Listens(d)
    BY <2>4 DEF StoredAs
  <2>7. CASE clients[d].open /\ ~cls[d].open
    <3>1. d \in FreedIn(cls)
      BY <2>7 DEF FreedIn
    <3>2. Asked(d)' = <<>> /\ ~Follows(d)'
      BY <2>4, <2>7 DEF StoredAs
    <3>3. Follows(d)' = (d \notin FreedIn(cls) /\ Follows(d))
      BY <3>1, <3>2 DEF Follows
    <3> QED BY <2>5, <2>6, <3>1, <3>2, <3>3
  <2>8. CASE ~(clients[d].open /\ ~cls[d].open)
    <3>1. d \notin FreedIn(cls)
      BY <2>8 DEF FreedIn
    <3>2. Asked(d)' = Asked(d) /\ Follows(d)' = ("workspace" \in cls[d].subscribed)
      BY <2>4, <2>8 DEF StoredAs, Asked
    <3>3. cls[d].subscribed = clients[d].subscribed
      BY <1>1, <1>2, <2>8, FreedTyped DEF AllClients
    <3>4. Follows(d)' = (d \notin FreedIn(cls) /\ Follows(d))
      BY <3>1, <3>2, <3>3 DEF Follows
    <3> QED BY <2>5, <2>6, <3>1, <3>2, <3>4
  <2> QED BY <2>7, <2>8
<1>5. FreedIn(cls) \in SUBSET Clients
  BY DEF FreedIn
<1> QED BY <1>4, <1>5, PromiseTagsChange

\* The first part is the whole message or not yet.
LEMMA WholeSplit ==
  ASSUME NEW M, NEW s \in Seq(PartOf(M)), s # <<>>
  PROVE  /\ Whole(s) = IF IsLast(Head(s)) THEN <<Head(s).msg>> \o Whole(Tail(s)) ELSE Whole(Tail(s))
         /\ Whole(Tail(s)) \in Seq(M) /\ Head(s).msg \in M /\ Tail(s) \in Seq(PartOf(M))
<1> DEFINE h == Head(s)
           t == Tail(s)
<1>1. h \in PartOf(M) /\ t \in Seq(PartOf(M)) /\ s = <<h>> \o t
  BY HeadAndTail
<1>2. h.msg \in M
  BY <1>1 DEF PartOf
<1> HIDE DEF h, t
<1>3. <<>> \in Seq(PartOf(M)) /\ <<h>> \in Seq(PartOf(M)) /\ Append(<<>>, h) = <<h>> /\ Append(<<>>, h.msg) = <<h.msg>>
  BY <1>1
<1>4. Whole(Append(<<>>, h)) = IF IsLast(h) THEN Append(Whole(<<>>), h.msg) ELSE Whole(<<>>)
  BY <1>1, <1>3, WholeAppend
<1>5. Whole(<<h>>) = IF IsLast(h) THEN <<h.msg>> ELSE <<>>
  BY <1>3, <1>4, WholeEmpty
<1>6. Whole(<<h>> \o t) = Whole(<<h>>) \o Whole(t)
  BY <1>1, <1>3, WholeConcat
<1>7. Whole(t) \in Seq(M)
  BY <1>1, WholeTyped
<1>8. <<>> \o Whole(t) = Whole(t)
  BY <1>7
<1>9. Whole(s) = IF IsLast(h) THEN <<h.msg>> \o Whole(t) ELSE Whole(t)
  BY <1>1, <1>5, <1>6, <1>8
<1> QED BY <1>1, <1>2, <1>7, <1>9 DEF h, t

\* The first request in the socket is the first one that has not been handled.
LEMMA FirstRequest ==
  ASSUME NEW s \in Seq(PartOf(Request)), Paired(s), s # <<>>, IsLast(Head(s)) \/ Len(s) > 1,
         NEW t, t = IF IsLast(Head(s)) THEN Tail(s) ELSE SubSeq(s, 3, Len(s))
  PROVE  Whole(s) # <<>> /\ Head(Whole(s)) = Head(s).msg /\ Tail(Whole(s)) = Whole(t)
<1> DEFINE m == Head(s).msg
           w == Whole(t)
<1>1. m \in Request /\ w \in Seq(Request) /\ Whole(s) = <<m>> \o w
  <2>1. CASE IsLast(Head(s))
    <3>1. t = Tail(s)
      BY <2>1
    <3> QED BY <2>1, <3>1, WholeSplit
  <2>2. CASE ~IsLast(Head(s))
    <3>1. /\ Head(Tail(s)) = Part("payload", m)
          /\ t = Tail(Tail(s))
      BY <2>2, PairedRest, MessagesRequest
    <3> DEFINE u == Tail(s)
    <3>2. u \in Seq(PartOf(Request)) /\ u # <<>> /\ Whole(s) = Whole(u) /\ m \in Request
      <4>1. u # <<>>
        <5>1. Len(s) > 1 /\ s \in Seq(PartOf(Request)) /\ s # <<>>
          BY <2>2
        <5>2. Len(Tail(s)) = Len(s) - 1 /\ Len(s) \in Nat
          BY <5>1, HeadTailProperties
        <5>3. Len(u) # 0
          BY <5>1, <5>2
        <5>4. Len(<<>>) = 0
          OBVIOUS
        <5> HIDE DEF u
        <5> QED BY <5>3, <5>4, Zenon
      <4> QED BY <2>2, <4>1, WholeSplit
    <3>3. IsLast(Head(u)) /\ Head(u).msg = m
      <4>1. Part("payload", m).part = "payload" /\ Part("payload", m).msg = m
        BY DEF Part
      <4> HIDE DEF m
      <4> QED BY <3>1, <4>1 DEF IsLast
    <3> HIDE DEF u
    <3>4. Whole(u) = <<Head(u).msg>> \o Whole(Tail(u)) /\ Whole(Tail(u)) \in Seq(Request)
      BY <3>2, <3>3, WholeSplit
    <3>5. Tail(u) = t
      BY <3>1 DEF u
    <3> QED BY <3>2, <3>3, <3>4, <3>5
  <2> QED BY <2>1, <2>2
<1> HIDE DEF m, w
<1>2. <<m>> \o w # <<>> /\ Head(<<m>> \o w) = m /\ Tail(<<m>> \o w) = w
  BY <1>1, Behind
<1> QED BY <1>1, <1>2 DEF m, w

\* A request has been handled: the structs are stored and it is gone from the socket.
LEMMA HandledKept ==
  ASSUME StreamSound, NEW c \in Clients, clients[c].open,
         NEW r \in Request, r.full, NEW told \in BOOLEAN, NEW cls, NEW in,
         Handled(clients, cls, c, r, told), Store(cls, in), UNCHANGED outbox,
         \A d \in Clients \ {c} : in[d] = inbox[d],
         Whole(inbox[c]) # <<>>, Head(Whole(inbox[c])) = r, Tail(Whole(inbox[c])) = Whole(in[c]),
         Promise!AnswersTo(r) \in Seq(Message)
  PROVE  Promise!Next
<1> DEFINE lost == FreedIn(cls)
<1>1. AllClients(clients) /\ AllClients(cls)
  BY SoundClients DEF Handled
<1>2. ASSUME NEW d \in Clients
      PROVE  AnsweredAs(d, c, lost, told, r)
  <2> DEFINE a == IF d = c THEN Promise!AnswersTo(r) ELSE <<>>
             ms == Due(clients[d], told) \o a
  <2>1. a \in Seq(Message) /\ Due(clients[d], told) \in Seq(Message)
    BY EmptySeq, DueTyped
  <2>2. Outcome(clients[d], cls[d], ms)
    BY DEF Handled
  <2>3. ms \in Seq(Message)
    <3> HIDE DEF a
    <3> QED BY <2>1
  <2>4. ~clients[d].open => ms = <<>>
    <3> SUFFICES ASSUME ~clients[d].open PROVE ms = <<>>
      OBVIOUS
    <3>1. d # c /\ clients[d] = Freed
      BY <1>1 DEF AllClients
    <3>2. Due(clients[d], told) = <<>>
      BY <3>1, FreedTyped DEF Due
    <3> QED BY <3>1, <3>2, EmptySeq
  <2>5. StoredAs(d, cls, in, ms)
    <3> HIDE DEF ms
    <3> QED BY <1>1, <2>2, <2>3, <2>4, StoreQueues
  <2>6. Sends(d, lost, told, a)
    <3> HIDE DEF a
    <3> QED BY <2>1, <2>5, StoredSends
  <2>7. Listens(d)' = Listens(d)
    BY <2>5 DEF StoredAs
  <2> HIDE DEF ms
  <2>8. CASE clients[d].open /\ ~cls[d].open
    <3>1. d \in lost
      BY <2>8 DEF FreedIn
    <3>2. Asked(d)' = <<>> /\ ~Follows(d)'
      BY <2>5, <2>8 DEF StoredAs
    <3>3. Follows(d)' = FALSE
      BY <3>2 DEF Follows
    <3> HIDE DEF lost
    <3>4. Follows(d)' = (d \notin lost /\ (Follows(d) \/ (d = c /\ Promise!Subscribes(r))))
      BY <3>1, <3>3
    <3> QED BY <2>6, <2>7, <3>1, <3>2, <3>4 DEF AnsweredAs
  <2>9. CASE ~(clients[d].open /\ ~cls[d].open)
    <3>1. d \notin lost
      BY <2>9 DEF FreedIn
    <3>2. Asked(d)' = Whole(in[d]) /\ Follows(d)' = ("workspace" \in cls[d].subscribed)
      BY <2>5, <2>9 DEF StoredAs
    <3>3. Asked(d)' = IF d = c THEN Tail(Asked(d)) ELSE Asked(d)
      BY <3>2 DEF Asked
    <3>4. "workspace" \in cls[d].subscribed <=>
            "workspace" \in clients[d].subscribed \/ (d = c /\ Promise!Subscribes(r))
      <4>1. CASE cls[d] = Freed
        <5>1. clients[d] = Freed /\ d # c
          BY <1>1, <2>9, <4>1, FreedTyped DEF AllClients
        <5> QED BY <4>1, <5>1
      <4>2. CASE cls[d] # Freed
        BY <4>2 DEF Handled
      <4> QED BY <4>1, <4>2
    <3> HIDE DEF lost
    <3>5. Follows(d)' = (d \notin lost /\ (Follows(d) \/ (d = c /\ Promise!Subscribes(r))))
      BY <3>1, <3>2, <3>4 DEF Follows
    <3> QED BY <2>6, <2>7, <3>1, <3>3, <3>5 DEF AnsweredAs
  <2> HIDE DEF lost
  <2> QED BY <2>8, <2>9
<1>3. lost \in SUBSET Clients
  BY DEF FreedIn
<1>4. told => r.full /\ r.type = "command"
  BY DEF Handled
<1>5. Asked(c) # <<>> /\ r = Head(Asked(c))
  BY DEF Asked
<1> HIDE DEF lost
<1> QED BY <1>2, <1>3, <1>4, <1>5, PromiseHandles

\* The types of the answers.
LEMMA AnswersTyped ==
  ASSUME NEW r \in Request, r.full, r.type # "malformed"
  PROVE  Promise!AnswersTo(r) \in Seq(Message)
<1>1. r.type \in RequestTypes
  BY DEF Request
<1>2. \A t \in RequestTypes \cup {"tick"} : Answer(t) \in Message
  BY AnswerTyped
<1>3. "subscribe" \in RequestTypes
  BY DEF RequestTypes
<1>4. <<Answer("subscribe"), Answer("tick")>> \in Seq(Message) /\ <<Answer("subscribe")>> \in Seq(Message)
      /\ <<Answer(r.type)>> \in Seq(Message) /\ <<>> \in Seq(Message)
  <2> DEFINE x == Answer("subscribe")
             y == Answer("tick")
             z == Answer(r.type)
  <2>1. x \in Message /\ y \in Message /\ z \in Message
    BY <1>1, <1>2, <1>3
  <2> HIDE DEF x, y, z
  <2>2. <<x, y>> \in Seq(Message) /\ <<x>> \in Seq(Message) /\ <<z>> \in Seq(Message) /\ <<>> \in Seq(Message)
    BY <2>1
  <2> QED BY <2>2 DEF x, y, z
<1> QED BY <1>4, AnswersAre

\* ipc_client_handle_readable
LEMMA ReadableKept ==
  ASSUME StreamSound, NEW c \in Clients, Readable(c) PROVE [Promise!Next]_(Promise!vars)
<1> DEFINE s == inbox[c]
           r == Request1(c)
<1>1. /\ clients[c].open /\ s # <<>> /\ s \in Seq(PartOf(Request)) /\ Paired(s)
      /\ r \in Request /\ r = Head(s).msg /\ (IsLast(Head(s)) <=> ~r.full) /\ UNCHANGED outbox
  BY ReadableCases DEF Request1
<1>2. Shapes /\ AllClients(clients)
  BY SoundIs, SoundClients
<1>3. CASE \E in : Disconnect(c, [inbox EXCEPT ![c] = in])
  <2>1. PICK in : Disconnect(c, [inbox EXCEPT ![c] = in])
    BY <1>3
  <2> DEFINE new == [inbox EXCEPT ![c] = in]
  <2>2. \A d \in Clients \ {c} : new[d] = inbox[d]
    BY <1>2 DEF Shapes
  <2>3. Disconnect(c, new)
    BY <2>1
  <2> HIDE DEF new
  <2>4. Promise!Next
    BY <1>1, <2>2, <2>3, DisconnectKept
  <2> QED BY <2>4
<1>4. CASE /\ r.type # "malformed" /\ ~r.full
           /\ inbox' = [inbox EXCEPT ![c] = Tail(@)]
           /\ UNCHANGED <<clients, socket, status>>
  <2> DEFINE t == Tail(s)
  <2>1. IsLast(Head(s)) /\ Whole(s) # <<>> /\ Head(Whole(s)) = r /\ Tail(Whole(s)) = Whole(t)
    BY <1>1, <1>4, FirstRequest
  <2>2. Promise!AnswersTo(r) = <<>> /\ ~Promise!Subscribes(r)
    BY <1>4 DEF Promise!AnswersTo, Promise!Subscribes
  <2>3. ASSUME NEW d \in Clients
        PROVE  AnsweredAs(d, c, {}, FALSE, r)
    <3>1. Queue(d)' = Queue(d) /\ Listens(d)' = Listens(d)
      BY <1>1, <1>4 DEF Queue, Listens
    <3>2. Queue(d) = IF ~Listens(d) THEN <<>> ELSE Queue(d)
      BY DEF Queue
    <3>3. Queue(d) \o (IF FALSE /\ Follows(d) THEN <<TagEvent>> ELSE <<>>) \o <<>> = Queue(d)
      BY QueueTyped
    <3>4. Sends(d, {}, FALSE, <<>>)
      BY <3>1, <3>2, <3>3 DEF Sends
    <3>5. Sends(d, {}, FALSE, IF d = c THEN Promise!AnswersTo(r) ELSE <<>>)
      BY <2>2, <3>4
    <3>6. inbox'[d] = IF d = c THEN t ELSE inbox[d]
      BY <1>2, <1>4 DEF Shapes
    <3>7. Asked(d)' = IF d = c THEN Tail(Asked(d)) ELSE Asked(d)
      <4> HIDE DEF t
      <4> QED BY <2>1, <3>6 DEF Asked
    <3>8. Follows(d)' = (d \notin {} /\ (Follows(d) \/ (d = c /\ Promise!Subscribes(r))))
      BY <1>4, <2>2 DEF Follows
    <3> HIDE DEF r
    <3> QED BY <3>1, <3>5, <3>7, <3>8 DEF AnsweredAs
  <2>4. Asked(c) # <<>> /\ r = Head(Asked(c)) /\ {} \in SUBSET Clients /\ FALSE \in BOOLEAN
    BY <2>1 DEF Asked
  <2> HIDE DEF r
  <2>5. Promise!Next
    BY <2>3, <2>4, PromiseHandles
  <2> QED BY <2>5
<1>5. CASE /\ r.type # "malformed" /\ r.full /\ Len(s) > 1
           /\ \E changesTags \in BOOLEAN :
                \E cls \in Dispatch(clients, c, r, changesTags) : Store(cls, WithoutRequest(c))
  <2>0. PICK changesTags \in BOOLEAN :
          \E cls \in Dispatch(clients, c, r, changesTags) : Store(cls, WithoutRequest(c))
    BY <1>5
  <2>1. PICK cls \in Dispatch(clients, c, r, changesTags) : Store(cls, WithoutRequest(c))
    BY <2>0
  <2> DEFINE in == WithoutRequest(c)
             t == SubSeq(s, 3, Len(s))
  <2> HIDE DEF r
  <2>2. PICK told \in BOOLEAN : Handled(clients, cls, c, r, told)
    BY <1>1, <1>2, <1>5, <2>1, DispatchHandled
  <2>3. in[c] = t /\ \A d \in Clients \ {c} : in[d] = inbox[d]
    BY <1>2 DEF WithoutRequest, Shapes
  <2>4. ~IsLast(Head(s)) /\ Whole(s) # <<>> /\ Head(Whole(s)) = r /\ Tail(Whole(s)) = Whole(t)
    BY <1>1, <1>5, FirstRequest
  <2>5. Promise!AnswersTo(r) \in Seq(Message)
    BY <1>1, <1>5, AnswersTyped
  <2> HIDE DEF in
  <2>6. Promise!Next
    BY <1>1, <1>5, <2>1, <2>2, <2>3, <2>4, <2>5, HandledKept DEF in
  <2> QED BY <2>6
<1>6. CASE UNCHANGED <<clients, socket, inbox>>
  <2>1. \A d \in Clients : SeenAlike(d)
    BY <1>1, <1>6 DEF SeenAlike, Asked, Queue, Follows, Listens
  <2> QED BY <2>1, PromiseStutters
<1> QED BY <1>3, <1>4, <1>5, <1>6, ReadableCases

\* What module IpcPromise sees of a step of the client of one connection.
LEMMA BecomesSeen ==
  ASSUME StreamSound, NEW c \in Clients, NEW sk, NEW in, NEW out, NEW g, Becomes(c, sk, in, out, g)
  PROVE  /\ \A d \in Clients \ {c} : SeenAlike(d)
         /\ Listens(c)' <=> sk \notin Nobody
         /\ Asked(c)' = Whole(in)
         /\ Queue(c)' = IF sk \notin Nobody THEN Whole(out \o clients[c].buffer) ELSE <<>>
         /\ Follows(c)' = Follows(c)
<1>1. socket'[c] = sk /\ inbox'[c] = in /\ outbox'[c] = out /\ UNCHANGED clients
  BY BecomesAt DEF Becomes
<1>2. ASSUME NEW d \in Clients \ {c} PROVE SeenAlike(d)
  <2>1. /\ socket'[d] = socket[d] /\ inbox'[d] = inbox[d] /\ outbox'[d] = outbox[d]
        /\ clients'[d] = clients[d]
    BY SoundIs DEF Becomes, Shapes
  <2> QED BY <2>1 DEF SeenAlike, Asked, Queue, Follows, Listens
<1>3. Listens(c)' <=> sk \notin Nobody
  BY <1>1 DEF Listens, Nobody
<1>4. Asked(c)' = Whole(in) /\ Follows(c)' = Follows(c)
  BY <1>1 DEF Asked, Follows
<1>5. Queue(c)' = IF sk \notin Nobody THEN Whole(out \o clients[c].buffer) ELSE <<>>
  BY <1>1 DEF Queue, Listens, Nobody
<1> QED BY <1>2, <1>3, <1>4, <1>5

\* A step that changes nothing of it.
LEMMA BecomesUnseen ==
  ASSUME StreamSound, NEW c \in Clients, NEW in, NEW out, NEW g, Becomes(c, socket[c], in, out, g),
         Whole(in) = Whole(inbox[c]),
         Listens(c) => Whole(out \o clients[c].buffer) = Whole(outbox[c] \o clients[c].buffer)
  PROVE  UNCHANGED Promise!vars
<1>1. /\ \A d \in Clients \ {c} : SeenAlike(d)
      /\ Listens(c)' <=> socket[c] \notin Nobody
      /\ Asked(c)' = Whole(in)
      /\ Queue(c)' = IF socket[c] \notin Nobody THEN Whole(out \o clients[c].buffer) ELSE <<>>
      /\ Follows(c)' = Follows(c)
  BY BecomesSeen
<1>2. Listens(c) <=> socket[c] \notin Nobody
  BY DEF Listens, Nobody
<1>3. Listens(c)' = Listens(c)
  <2>1. socket'[c] = socket[c]
    BY BecomesAt
  <2> QED BY <2>1 DEF Listens
<1>4. SeenAlike(c)
  BY <1>1, <1>2, <1>3 DEF SeenAlike, Asked, Queue
<1>5. \A d \in Clients : SeenAlike(d)
  BY <1>1, <1>4
<1> QED BY <1>5, PromiseStutters

\* main of japokmsg and of a bar open the socket.
LEMMA ConnectKept ==
  ASSUME StreamSound, NEW c \in Clients, Connect(c) PROVE Promise!Next
<1>1. socket[c] = "none" /\ Becomes(c, "connected", inbox[c], <<>>, <<>>)
  BY ConnectBecomes
<1>2. Sound(c)
  BY SoundIs
<1>3. clients[c] = Freed /\ inbox[c] = <<>> /\ clients[c].buffer = <<>> /\ clients[c].subscribed = {}
  BY <1>1, <1>2, FreedTyped DEF Sound, ClientSound, EndsAgree
<1>4. /\ \A d \in Clients \ {c} : SeenAlike(d)
      /\ Listens(c)' <=> "connected" \notin Nobody
      /\ Asked(c)' = Whole(inbox[c])
      /\ Queue(c)' = (IF "connected" \notin Nobody THEN Whole(<<>> \o clients[c].buffer) ELSE <<>>)
      /\ Follows(c)' = Follows(c)
  BY <1>1, BecomesSeen
<1>5. <<>> \o <<>> = <<>>
  OBVIOUS
<1>6. ~Listens(c) /\ Listens(c)'
  BY <1>1, <1>4 DEF Listens, Nobody
<1>7. Asked(c) = <<>> /\ Asked(c)' = <<>> /\ Queue(c)' = <<>>
  BY <1>3, <1>4, <1>5, WholeEmpty DEF Asked, Nobody
<1>8. ~Follows(c) /\ ~Follows(c)'
  BY <1>3, <1>4 DEF Follows
<1> QED BY <1>4, <1>6, <1>7, <1>8, PromiseArrives

\* The end that a client closes, which is the end of a process or a close.
LEMMA CloseKept ==
  ASSUME StreamSound, NEW c \in Clients, Close(c), socket[c] \notin Nobody PROVE Promise!Next
<1>1. Becomes(c, Left(socket[c]), inbox[c], <<>>, <<>>)
  BY CloseBecomes
<1>2. Left(socket[c]) \in Nobody
  BY DEF Left, Nobody
<1>3. /\ \A d \in Clients \ {c} : SeenAlike(d)
      /\ Listens(c)' <=> Left(socket[c]) \notin Nobody
      /\ Asked(c)' = Whole(inbox[c])
      /\ Follows(c)' = Follows(c)
  BY <1>1, BecomesSeen
<1>4. Listens(c) /\ ~Listens(c)'
  BY <1>2, <1>3 DEF Listens, Nobody
<1>5. Asked(c)' = Asked(c)
  BY <1>3 DEF Asked
<1> QED BY <1>3, <1>4, <1>5, PromiseLeaves

\* A part is read: it is the last one of a message, or the message is still there.
LEMMA ReceiveKept ==
  ASSUME StreamSound, NEW c \in Clients, Receive(c) PROVE [Promise!Next]_(Promise!vars)
<1> DEFINE out == outbox[c]
           t == Tail(out)
           b == clients[c].buffer
<1>1. PICK g2 : out # <<>> /\ Becomes(c, socket[c], inbox[c], t, g2)
  BY ReceiveBecomes DEF ReadBy
<1>2. Sound(c) /\ socket[c] \notin Nobody
  <2>1. Sound(c)
    BY SoundIs
  <2> QED BY <1>1, <2>1 DEF Sound, ClientSound, EndsAgree
<1>3. out \in Seq(PartOf(Message)) /\ b \in Seq(PartOf(Message))
  BY QueueTyped
<1>4. Listens(c) /\ Queue(c) = Whole(out \o b)
  BY <1>2 DEF Listens, Nobody, Queue
<1>5. /\ \A d \in Clients \ {c} : SeenAlike(d)
      /\ Listens(c)' <=> socket[c] \notin Nobody
      /\ Asked(c)' = Whole(inbox[c])
      /\ Queue(c)' = (IF socket[c] \notin Nobody THEN Whole(t \o b) ELSE <<>>)
      /\ Follows(c)' = Follows(c)
  <2> HIDE DEF t
  <2> QED BY <1>1, BecomesSeen
<1> DEFINE w == Whole(t)
           v == Whole(b)
           m == Head(out).msg
<1>6. /\ w \in Seq(Message) /\ v \in Seq(Message) /\ m \in Message /\ t \in Seq(PartOf(Message))
      /\ Whole(out) = IF IsLast(Head(out)) THEN <<m>> \o w ELSE w
  <2> HIDE DEF out, b
  <2> QED BY <1>1, <1>3, WholeSplit, WholeTyped
<1>7. Whole(out \o b) = Whole(out) \o v /\ Whole(t \o b) = w \o v
  <2> HIDE DEF out, t, b
  <2> QED BY <1>3, <1>6, WholeConcat
<1>8. CASE IsLast(Head(out))
  <2>1. Whole(out \o b) = <<m>> \o (w \o v)
    <3>1. Whole(out \o b) = (<<m>> \o w) \o v
      BY <1>6, <1>7, <1>8
    <3> HIDE DEF m, w, v
    <3>2. <<m>> \in Seq(Message) /\ w \in Seq(Message) /\ v \in Seq(Message)
      BY <1>6
    <3>3. Associates(<<m>>, w, v)
      BY <3>2, Associative
    <3> QED BY <3>1, <3>3 DEF Associates
  <2>2. Queue(c) # <<>> /\ Queue(c)' = Tail(Queue(c))
    <3> HIDE DEF m, w, v
    <3>1. m \in Message /\ w \o v \in Seq(Message)
      BY <1>6
    <3> DEFINE u == w \o v
    <3>2. u \in Seq(Message)
      BY <3>1
    <3> HIDE DEF u
    <3>3. <<m>> \o u # <<>> /\ Tail(<<m>> \o u) = u
      BY <3>1, <3>2, Behind
    <3>4. Queue(c) = <<m>> \o u
      BY <1>4, <2>1 DEF u
    <3>5. Queue(c)' = u
      BY <1>2, <1>5, <1>7 DEF u
    <3> QED BY <3>3, <3>4, <3>5
  <2>3. Asked(c)' = Asked(c) /\ Follows(c)' = Follows(c)
    BY <1>5 DEF Asked
  <2>4. Listens(c)' = Listens(c)
    <3>1. socket'[c] = socket[c]
      BY <1>1, BecomesAt
    <3> QED BY <3>1 DEF Listens
  <2> QED BY <1>5, <2>2, <2>3, <2>4, PromiseTakes
<1>9. CASE ~IsLast(Head(out))
  <2>1. Whole(t \o b) = Whole(out \o b)
    BY <1>6, <1>7, <1>9
  <2> HIDE DEF t
  <2> QED BY <1>1, <2>1, BecomesUnseen
<1> QED BY <1>8, <1>9

\* A part is written to the server.
LEMMA ToServerBecomes ==
  ASSUME StreamSound, NEW c \in Clients, NEW part, ToServer(c, part),
         UNCHANGED <<clients, status, socket, outbox, got>>
  PROVE  Becomes(c, socket[c], Append(inbox[c], part), outbox[c], got[c])
<1>1. inbox' = [inbox EXCEPT ![c] = Append(inbox[c], part)]
  <2>1. inbox = [d \in Clients |-> inbox[d]]
    BY SoundIs DEF Shapes
  <2> QED BY <2>1 DEF ToServer
<1> QED BY <1>1, Selves DEF Becomes

\* It is the whole request or not yet.
LEMMA ToServerKept ==
  ASSUME StreamSound, NEW c \in Clients, NEW part \in PartOf(Request), ToServer(c, part),
         part.msg \in Requests \cup Commands, socket[c] = "connected",
         UNCHANGED <<clients, status, socket, outbox, got>>
  PROVE  [Promise!Next]_(Promise!vars)
<1> DEFINE in == Append(inbox[c], part)
<1>1. Becomes(c, socket[c], in, outbox[c], got[c])
  BY ToServerBecomes
<1>2. inbox[c] \in Seq(PartOf(Request))
  BY SoundIs DEF Sound, ClientSound, ClientTyped
<1>3. Whole(in) = IF IsLast(part) THEN Append(Whole(inbox[c]), part.msg) ELSE Whole(inbox[c])
  BY <1>2, WholeAppend
<1> HIDE DEF in
<1>4. CASE IsLast(part)
  <2>1. /\ \A d \in Clients \ {c} : SeenAlike(d)
        /\ Listens(c)' <=> socket[c] \notin Nobody
        /\ Asked(c)' = Whole(in)
        /\ Queue(c)' = (IF socket[c] \notin Nobody THEN Whole(outbox[c] \o clients[c].buffer) ELSE <<>>)
        /\ Follows(c)' = Follows(c)
    BY <1>1, BecomesSeen
  <2>2. Listens(c) /\ Listens(c)' /\ Queue(c)' = Queue(c)
    BY <2>1 DEF Listens, Nobody, Queue
  <2>3. Asked(c)' = Append(Asked(c), part.msg)
    BY <1>3, <1>4, <2>1 DEF Asked
  <2> QED BY <2>1, <2>2, <2>3, PromiseAsks
<1>5. CASE ~IsLast(part)
  BY <1>1, <1>3, <1>5, BecomesUnseen
<1> QED BY <1>4, <1>5

\* ipc_client_handle_writable
LEMMA WritableKept ==
  ASSUME StreamSound, NEW c \in Clients, Writable(c) PROVE [Promise!Next]_(Promise!vars)
<1>1. CASE socket[c] = "hung_up"
  <2>1. /\ clients[c].armed /\ Disconnect(c, inbox) /\ outbox' = [outbox EXCEPT ![c] = <<>>]
    BY <1>1 DEF Writable
  <2>2. clients[c].open
    <3>1. AllClients(clients)
      BY SoundClients
    <3> QED BY <2>1, <3>1 DEF AllClients, Freed
  <2>3. outbox' = outbox
    BY <1>1, <2>1, NothingOut
  <2>4. Promise!Next
    BY <2>1, <2>2, <2>3, DisconnectKept
  <2> QED BY <2>4
<1>2. CASE socket[c] # "hung_up"
  <2>1. /\ UNCHANGED <<socket, inbox, status>>
        /\ \E moved, left \in Seq(PartOf(Message)) :
              /\ clients[c].buffer = moved \o left
              /\ outbox' = [outbox EXCEPT ![c] = outbox[c] \o moved]
              /\ clients' = [clients EXCEPT ![c] = [open |-> TRUE, subscribed |-> clients[c].subscribed,
                                                    buffer |-> left, armed |-> left # <<>>]]
    BY <1>2, WriteMoves
  <2>2. PICK moved, left \in Seq(PartOf(Message)) :
              /\ clients[c].buffer = moved \o left
              /\ outbox' = [outbox EXCEPT ![c] = outbox[c] \o moved]
              /\ clients' = [clients EXCEPT ![c] = [open |-> TRUE, subscribed |-> clients[c].subscribed,
                                                    buffer |-> left, armed |-> left # <<>>]]
    BY <2>1
  <2>3. Shapes /\ outbox[c] \in Seq(PartOf(Message))
    BY SoundIs, QueueTyped
  <2>4. ASSUME NEW d \in Clients \ {c} PROVE SeenAlike(d)
    <3>1. outbox'[d] = outbox[d] /\ clients'[d] = clients[d]
      BY <2>2, <2>3 DEF Shapes
    <3> QED BY <2>1, <3>1 DEF SeenAlike, Asked, Queue, Follows, Listens
  <2>5. SeenAlike(c)
    <3>1. outbox'[c] = outbox[c] \o moved
      BY <2>2, <2>3 DEF Shapes
    <3>2. clients'[c] = [open |-> TRUE, subscribed |-> clients[c].subscribed,
                         buffer |-> left, armed |-> left # <<>>]
      BY <2>2, <2>3 DEF Shapes
    <3>3. clients'[c].buffer = left /\ clients'[c].subscribed = clients[c].subscribed
      BY <3>2
    <3> DEFINE out == outbox[c]
    <3>4. (out \o moved) \o left = out \o (moved \o left)
      <4>1. out \in Seq(PartOf(Message))
        BY <2>3
      <4> HIDE DEF out
      <4>2. Associates(out, moved, left)
        BY <4>1, Associative
      <4> QED BY <4>2 DEF Associates
    <3>5. outbox'[c] \o clients'[c].buffer = outbox[c] \o clients[c].buffer
      BY <2>2, <3>1, <3>3, <3>4
    <3>6. Queue(c)' = Queue(c) /\ Listens(c)' = Listens(c)
      BY <2>1, <3>5 DEF Queue, Listens
    <3>7. Asked(c)' = Asked(c)
      BY <2>1 DEF Asked
    <3>8. Follows(c)' = Follows(c)
      BY <3>3 DEF Follows
    <3> QED BY <3>6, <3>7, <3>8 DEF SeenAlike
  <2>6. \A d \in Clients : SeenAlike(d)
    BY <2>4, <2>5
  <2> QED BY <2>6, PromiseStutters
<1> QED BY <1>1, <1>2

\* ipc_handle_connection
LEMMA AcceptKept ==
  ASSUME StreamSound, NEW c \in Clients, Accept(c) PROVE UNCHANGED Promise!vars
<1>1. /\ ~clients[c].open /\ clients' = [clients EXCEPT ![c] = Fresh]
      /\ UNCHANGED <<socket, inbox, outbox>>
  BY DEF Accept
<1>2. Shapes /\ AllClients(clients)
  BY SoundIs, SoundClients
<1>3. ASSUME NEW d \in Clients
      PROVE  clients'[d].buffer = clients[d].buffer /\ clients'[d].subscribed = clients[d].subscribed
  <2>1. CASE d = c
    <3>1. clients[c] = Freed /\ clients'[c] = Fresh
      BY <1>1, <1>2 DEF AllClients, Shapes
    <3> QED BY <2>1, <3>1 DEF Freed, Fresh
  <2>2. CASE d # c
    BY <1>1, <1>2, <2>2 DEF Shapes
  <2> QED BY <2>1, <2>2
<1>4. \A d \in Clients : SeenAlike(d)
  BY <1>1, <1>3 DEF SeenAlike, Asked, Queue, Follows, Listens
<1> QED BY <1>4, PromiseStutters

\* check_socket_errors
LEMMA HangUpKept ==
  ASSUME StreamSound, NEW c \in Clients, HangUp(c) PROVE Promise!Next
<1>1. /\ clients[c].open /\ socket[c] = "hung_up" /\ Disconnect(c, inbox)
      /\ outbox' = [outbox EXCEPT ![c] = <<>>]
  BY DEF HangUp
<1>2. outbox' = outbox
  BY <1>1, NothingOut
<1> QED BY <1>1, <1>2, DisconnectKept

\* Nothing of the server changes.
LEMMA SameServer ==
  ASSUME UNCHANGED serverVars PROVE UNCHANGED Promise!vars
<1>1. \A d \in Clients : SeenAlike(d)
  BY DEF serverVars, SeenAlike, Asked, Queue, Follows, Listens
<1> QED BY <1>1, PromiseStutters

\* The command of a japokmsg is written in two parts.
LEMMA WriteKept ==
  ASSUME StreamSound, NEW c \in Messengers, WriteHeader(c) \/ WritePayload(c)
  PROVE  [Promise!Next]_(Promise!vars)
<1>1. c \in Clients /\ empty[c] \in BOOLEAN
  BY SoundOfMessenger
<1>2. Command(c) \in Commands /\ Command(c) \in Request
  BY <1>1, CommandIs DEF Dumb
<1>3. UNCHANGED <<clients, status, socket, outbox, got>>
  BY DEF WriteHeader, WritePayload, clientVars
<1>4. CASE UNCHANGED inbox
  BY <1>3, <1>4, SameServer DEF serverVars
<1>5. CASE \E name \in {"header", "payload"} :
             ToServer(c, Part(name, Command(c))) /\ socket[c] = "connected"
  <2>1. PICK name \in {"header", "payload"} :
             ToServer(c, Part(name, Command(c))) /\ socket[c] = "connected"
    BY <1>5
  <2>2. Part(name, Command(c)) \in PartOf(Request) /\ Part(name, Command(c)).msg = Command(c)
    BY <1>2 DEF Part, PartOf
  <2> QED BY <1>1, <1>2, <1>3, <2>1, <2>2, ToServerKept
<1> QED BY <1>4, <1>5 DEF WriteHeader, WritePayload

\* A bar writes its request at once.
LEMMA BarAsksKept ==
  ASSUME StreamSound, NEW c \in Clients, BarAsks(c) PROVE Promise!Next
<1>1. socket[c] = "connected" /\ UNCHANGED <<clients, status, socket, outbox, got>>
  BY DEF BarAsks, clientVars
<1>2. PICK r \in Requests : inbox' = [inbox EXCEPT ![c] = @ \o Parts(r)]
  BY DEF BarAsks
<1> DEFINE in == inbox[c] \o Parts(r)
<1>3. inbox' = [inbox EXCEPT ![c] = in]
  BY <1>2, SoundIs DEF Shapes
<1>4. Becomes(c, socket[c], in, outbox[c], got[c])
  BY <1>1, <1>3, Selves DEF Becomes
<1>5. inbox[c] \in Seq(PartOf(Request)) /\ r \in Request
  BY SoundIs, RequestsAssumption DEF Sound, ClientSound, ClientTyped
<1>6. Whole(in) = Append(Whole(inbox[c]), r)
  <2>1. Whole(Parts(r)) = <<r>> /\ Parts(r) \in Seq(PartOf(Request))
    BY <1>5, WholeOnes, MessagesRequest
  <2>2. Whole(in) = Whole(inbox[c]) \o Whole(Parts(r))
    BY <1>5, <2>1, WholeConcat
  <2> DEFINE w == Whole(inbox[c])
  <2>3. w \in Seq(Request)
    BY <1>5, WholeTyped
  <2> HIDE DEF w
  <2>4. w \o <<r>> = Append(w, r)
    BY <1>5, <2>3
  <2> QED BY <2>1, <2>2, <2>4 DEF w
<1> HIDE DEF in
<1>7. /\ \A d \in Clients \ {c} : SeenAlike(d)
      /\ Listens(c)' <=> socket[c] \notin Nobody
      /\ Asked(c)' = Whole(in)
      /\ Queue(c)' = (IF socket[c] \notin Nobody THEN Whole(outbox[c] \o clients[c].buffer) ELSE <<>>)
      /\ Follows(c)' = Follows(c)
  BY <1>4, BecomesSeen
<1>8. Listens(c) /\ Listens(c)' /\ Queue(c)' = Queue(c)
  BY <1>1, <1>7 DEF Listens, Nobody, Queue
<1>9. Asked(c)' = Append(Asked(c), r)
  BY <1>6, <1>7 DEF Asked
<1> QED BY <1>7, <1>8, <1>9, PromiseAsks

\* Nobody is connected at first.
LEMMA PromiseInit == Init => Promise!Init
<1> SUFFICES ASSUME Init PROVE Promise!Init
  OBVIOUS
<1>1. /\ clients = [c \in Clients |-> Freed] /\ socket = [c \in Clients |-> "none"]
      /\ inbox = [c \in Clients |-> <<>>]
  BY DEF Init, ServerInit
<1>2. \A c \in Clients : ~Listens(c)
  BY <1>1 DEF Listens
<1>3. \A c \in Clients : Whole(inbox[c]) = <<>>
  BY <1>1, WholeEmpty
<1>4. \A c \in Clients : "workspace" \notin clients[c].subscribed
  BY <1>1, FreedTyped
<1>5. AskedMap = [c \in Clients |-> <<>>]
  BY <1>3 DEF AskedMap
<1>6. QueueMap = [c \in Clients |-> <<>>]
  BY <1>2 DEF QueueMap
<1>7. FollowsMap = [c \in Clients |-> FALSE]
  <2>1. \A c \in Clients : ("workspace" \in clients[c].subscribed) = FALSE
    BY <1>4
  <2> QED BY <2>1, Zenon DEF FollowsMap
<1>8. HereMap = [c \in Clients |-> FALSE]
  <2>1. \A c \in Clients : Listens(c) = FALSE
    BY <1>2 DEF Listens
  <2> QED BY <2>1 DEF HereMap
<1> QED BY <1>5, <1>6, <1>7, <1>8 DEF Promise!Init, AskedMap, QueueMap, FollowsMap, HereMap

\* Every step is one that the promise allows, or nothing that it tells apart.
LEMMA PromiseStep == StreamSound /\ [Next]_vars => [Promise!Next]_(Promise!vars)
<1> SUFFICES ASSUME StreamSound, [Next]_vars PROVE [Promise!Next]_(Promise!vars)
  OBVIOUS
<1>1. CASE ServerNext
  <2>1. ASSUME NEW c \in Clients, Accept(c) \/ HangUp(c) \/ Readable(c) \/ Writable(c)
        PROVE  [Promise!Next]_(Promise!vars)
    BY <2>1, AcceptKept, HangUpKept, ReadableKept, WritableKept
  <2>2. CASE TagsChange
    BY <2>2, TagsChangeKept
  <2>3. CASE Stop
    BY <2>3, StopKept
  <2> QED BY <1>1, <2>1, <2>2, <2>3 DEF ServerNext
<1>2. ASSUME NEW c \in Messengers, Start(c) \/ MessengerStep(c) \/ Timeout(c)
      PROVE  [Promise!Next]_(Promise!vars)
  <2>1. c \in Clients /\ (pc[c] = "idle" <=> socket[c] \in Nobody)
    BY SoundOfMessenger
  <2>2. CASE Start(c)
    BY <2>1, <2>2, ConnectKept DEF Start
  <2>3. CASE WriteHeader(c) \/ WritePayload(c)
    BY <2>3, WriteKept
  <2>4. CASE ReceiveHeader(c) \/ ReceivePayload(c)
    <3>1. Receive(c) \/ UNCHANGED serverVars
      BY <2>4 DEF ReceiveHeader, ReceivePayload
    <3> QED BY <2>1, <3>1, ReceiveKept, SameServer
  <2>5. CASE Exit(c)
    <3>1. Close(c) /\ pc[c] # "idle"
      BY <2>5 DEF Exit
    <3> QED BY <2>1, <3>1, CloseKept
  <2>6. CASE Timeout(c)
    BY <2>6, SameServer DEF Timeout
  <2> QED BY <1>2, <2>2, <2>3, <2>4, <2>5, <2>6 DEF MessengerStep
<1>3. ASSUME NEW c \in Bars, BarConnect(c) \/ BarAsks(c) \/ BarReads(c) \/ BarCloses(c)
      PROVE  [Promise!Next]_(Promise!vars)
  <2>1. c \in Clients
    BY DEF Bars
  <2>2. CASE BarConnect(c)
    BY <2>1, <2>2, ConnectKept DEF BarConnect
  <2>3. CASE BarAsks(c)
    BY <2>1, <2>3, BarAsksKept
  <2>4. CASE BarReads(c)
    BY <2>1, <2>4, ReceiveKept DEF BarReads
  <2>5. CASE BarCloses(c)
    <3>1. Close(c) /\ socket[c] \notin Nobody
      BY <2>5 DEF BarCloses, Nobody
    <3> QED BY <2>1, <3>1, CloseKept
  <2> QED BY <1>3, <2>2, <2>3, <2>4, <2>5
<1>4. CASE UNCHANGED vars
  BY <1>4, SameServer DEF vars, serverVars
<1> QED BY <1>1, <1>2, <1>3, <1>4 DEF Next

\* The socket server with its clients implements the promise of module IpcPromise:
\* in every behaviour requests are answered in order and once, an event its command
\* causes comes before the answer, and what is sent in pieces is received whole,
\* unless the server ends the connection.
THEOREM PromiseAlwaysKept == Spec => PromiseKept
<1>1. Init => Promise!Init
  BY PromiseInit
<1>2. StreamSound /\ [Next]_vars => [Promise!Next]_(Promise!vars)
  BY PromiseStep
<1> QED BY <1>1, <1>2, StreamAlwaysSound, PTL DEF Spec, PromiseKept, Promise!Spec

=============================================================================
