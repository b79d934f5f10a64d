------------------------ MODULE ConfigurationProofs ------------------------
(***************************************************************************)
(* Proofs about Configuration, for every number of tags, every config      *)
(* file, every layout file and every function that scripts leave behind.   *)
(*                                                                         *)
(* What the program looks at next is on a stack of calls, so the           *)
(* inductive invariant says what each call may have left to do.            *)
(*                                                                         *)
(*   - TInv holds whatever scripts say: the types, that no tag has a       *)
(*     layout twice, that a pointer which is not freed points to a loaded  *)
(*     layout, which steps a call of C may have left below the top and     *)
(*     which at the top (Forms), that one config file runs at most, while  *)
(*     reloading is prohibited (Flags), and that scripts run only when opt *)
(*     points to options (OptAgrees).                                      *)
(*   - More holds for the setups the properties are about.  For tame ones  *)
(*     (Tamed) whoever waits for a layout file or goes through a list of   *)
(*     rules has only mild calls above: nothing frees the layout.  For     *)
(*     plain ones the copies of the options agree, and the configuration   *)
(*     holds what the config file has said so far (WholeSoFar).            *)
(*                                                                         *)
(* Each step is proved to keep TInv in the first half (lemmas ...Keeps)    *)
(* and More in the second (lemmas ...More).                                *)
(***************************************************************************)
EXTENDS Configuration, KeybindingsProofs

-----------------------------------------------------------------------------
(* The inductive invariant *)

\* What there is to refer to
Options(s) == [gap : Nat, mod : Nat, names : DOMAIN s.names, rules : Seq(DOMAIN s.rules),
               keys : OrderedLists(DOMAIN s.scripts), entry : Nat]
Layout(s) == [name : DOMAIN s.files, options : Options(s)]
Tag(s) == [name : DOMAIN s.names, layout : DOMAIN s.files, loaded : Seq(Layout(s))]
Pointers(s) == {OfDefault, Freed} \cup (Tags \X DOMAIN s.files)
Kinds == {"core", "config", "command", "script"}
Spoken == {"gap", "mod", "entry", "fail", "reload", "rule", "bind", "names", "default_layout",
           "load", "listen"}
OfCore == {"focus", "get", "placed", "front", "tags", "name", "config", "load_tags",
          "default_layouts", "allow", "run", "key", "eval", "title", "rules", "emit"}
Steps == Seq((Spoken \cup OfCore) \X Nat)
CallOf(s) == [kind : Kinds, todo : Steps, ptr : Pointers(s), window : Nat]
Faults == {"none", "position", "options_freed", "names_freed", "rules_freed", "no_error_file"}

\* The types
Typed ==
  /\ setup \in Setups /\ opts \in Options(setup) /\ default \in DOMAIN setup.files
  /\ tags \in [Tags -> Tag(setup)] /\ shown \in Tags /\ opt \in Pointers(setup)
  /\ listeners \in Seq(DOMAIN setup.scripts) /\ prohibited \in BOOLEAN /\ error_file \in BOOLEAN
  /\ stack \in Seq(CallOf(setup)) /\ fault \in Faults

\* No tag has a layout twice.
Distinct ==
  \A t \in Tags : \A i, j \in 1..Len(tags[t].loaded) :
    tags[t].loaded[i].name = tags[t].loaded[j].name => i = j

\* A pointer that is not freed points to options.
Points(ts, p) ==
  p # OfDefault /\ p # Freed =>
    \E i \in 1..Len(ts[p[1]].loaded) : ts[p[1]].loaded[i].name = p[2]
Pointed == Points(tags, opt) /\ \A i \in 1..Len(stack) : Points(tags, stack[i].ptr)

\* What lib_reload does after the config file, init_server after its names and after the file
AfterConfig(sh) == << <<"default_layouts", 0>>, <<"focus", sh>>, <<"tags", 0>> >>
AfterNames == << <<"allow", 0>>, <<"default_layouts", 0>>, <<"focus", 0>> >>

AfterFirst ==
  << <<"load_tags", 0>>, <<"allow", 0>>, <<"default_layouts", 0>>, <<"focus", 0>> >>

\* Only one step is left, which is one of these, with a number from a bound on.
Only(r, ops, from) == Len(r) = 1 /\ r[1][1] \in ops /\ r[1][2] >= from

\* What may follow when the layout of tag t is loaded
Follows(s, sh, r, t, last) ==
  \/ r = <<>>
  \/ r = << <<"name", t>>, <<"tags", t + 1>> >>
  \/ t = sh /\ r = << <<"tags", 0>> >>
  \/ t = sh /\ last /\ Only(r, {"key", "title"}, 0)
  \/ t = sh /\ \E n \in DOMAIN s.scripts : r = << <<"eval", n>>, <<"focus", sh>> >>

\* What a call of C has left to do, the last flag saying whether it was called by no other
Waits(s, sh, r, last) ==
  \/ r = <<>>
  \/ Len(r) >= 1 /\ r[1] = <<"focus", sh>> /\ Follows(s, sh, Tail(r), sh, last)
  \/ Len(r) >= 1 /\ \E t \in Tags : r[1] = <<"get", t>> /\ Follows(s, sh, Tail(r), t, last)
  \/ /\ Len(r) >= 2 /\ r[1][1] = "placed" /\ r[1][2] >= 1
     /\ \E t \in Tags : r[2] = <<"front", t>> /\ Follows(s, sh, Tail(Tail(r)), t, last)
  \/ Only(r, {"tags"}, 0) \/ Only(r, {"emit", "rules"}, 1)
  \/ /\ Len(r) >= 1 /\ \E n \in DOMAIN s.scripts : r[1] = <<"run", n>>
     /\ (last /\ Tail(r) = << <<"allow", 0>> >>) \/ Only(Tail(r), {"emit"}, 1)
  \/ last /\ r = << <<"allow", 0>> >>
  \/ last /\ sh = 0 /\ r \in {AfterNames, AfterFirst}
  \/ r \in {<< <<"default_layouts", 0>>, <<"focus", sh>> >>, AfterConfig(sh)}

\* What only the call at the top has left to do
Begins(s, sh, ts, r, last) ==
  \/ r = << <<"config", 0>>, <<"default_layouts", 0>>, <<"focus", sh>>, <<"tags", 0>> >>
  \/ /\ last /\ sh = 0
     /\ r = << <<"config", 0>>, <<"load_tags", 0>>, <<"allow", 0>>, <<"default_layouts", 0>>,
               <<"focus", 0>> >>
  \/ \E t \in Tags : r = << <<"name", t>>, <<"tags", t + 1>> >> /\ ts[t].loaded # <<>>
  \/ /\ ts[sh].loaded # <<>>
     /\ \/ last /\ Only(r, {"key", "title"}, 0)
        \/ \E n \in DOMAIN s.scripts : r = << <<"eval", n>>, <<"focus", sh>> >>

\* What functions and layout files say
Sayings(s) ==
  (UNION {Ops(s.scripts[i]) : i \in DOMAIN s.scripts})
    \cup (UNION {Ops(s.files[i]) : i \in DOMAIN s.files})

\* What a call of a script has left to say, and who says it
Says(s, c) ==
  /\ c.todo \in Seq(Statements(s))
  /\ c.kind # "config" => Ops(c.todo) \subseteq Sayings(s)
  /\ c.kind = "config" => \E f \in s.configs : Ops(c.todo) \subseteq Ops(f)

Waiting(s, sh, c, last) == IF c.kind = "core" THEN Waits(s, sh, c.todo, last) ELSE Says(s, c)

Forms ==
  \A i \in 1..Len(stack) :
    \/ Waiting(setup, shown, stack[i], i = Len(stack))
    \/ i = 1 /\ stack[i].kind = "core" /\ Begins(setup, shown, tags, stack[i].todo, i = Len(stack))

\* The call is one of C that goes on with this step.
At(c, op) == c.kind = "core" /\ Len(c.todo) >= 1 /\ c.todo[1][1] = op

\* No tag has a layout.
Bare == \A t \in Tags : tags[t].loaded = <<>>

\* The config file runs for a call of C, once, while reloading is prohibited.
Flags ==
  /\ \A i, j \in 1..Len(stack) : stack[i].kind = "config" /\ stack[j].kind = "config" => i = j
  /\ \A i \in 1..Len(stack) : stack[i].kind = "config" =>
       /\ prohibited
       /\ i < Len(stack) /\ (At(stack[i + 1], "load_tags") \/ At(stack[i + 1], "default_layouts"))
  /\ \A i \in 1..Len(stack) : At(stack[i], "config") =>
       prohibited /\ Bare /\ \A j \in 1..Len(stack) : stack[j].kind # "config"

\* It is going to load the layout of the tag that is shown.
Recovers(c) ==
  /\ c.kind = "core" /\ Len(c.todo) >= 1
  /\ \/ c.todo[1][1] \in {"config", "load_tags", "default_layouts", "focus"}
     \/ c.todo[1][1] = "allow" /\ Len(c.todo) >= 2

\* Scripts run only when opt points to options.
OptAgrees ==
  /\ opt \in {OfDefault, Freed} =>
       /\ Len(stack) >= 1 /\ tags[shown].loaded = <<>>
       /\ Recovers(stack[1]) \/ (opt = OfDefault /\ stack[1].kind = "config")
  /\ opt = OfDefault => Bare

TInv == Typed /\ Distinct /\ Pointed /\ Forms /\ Flags /\ OptAgrees

\* What may run while a list of rules is iterated or a layout is waited for
Mild(c) ==
  IF c.kind = "core"
  THEN \/ c.todo = <<>>
       \/ Len(c.todo) = 1 /\ c.todo[1][1] = "focus"
       \/ Len(c.todo) = 2 /\ c.todo[1][1] = "placed"
  ELSE c.kind # "config" /\ Ops(c.todo) \cap {"fail", "reload", "names"} = {}

Tamed ==
  /\ \A i \in 1..Len(stack) : At(stack[i], "placed") =>
       stack[i].todo[1][2] <= Len(tags[stack[i].todo[2][2]].loaded)
  /\ \A i \in 1..Len(stack) : At(stack[i], "rules") => stack[i].ptr # Freed
  /\ \A i \in 1..Len(stack) : At(stack[i], "placed") \/ At(stack[i], "rules") =>
       \A j \in 1..(i - 1) : Mild(stack[j])
  /\ \A i \in 1..Len(stack) : stack[i].kind = "config" /\ "names" \in Ops(stack[i].todo) =>
       i = 1 /\ opt = OfDefault
  /\ fault \in {"none", "no_error_file"}
-----------------------------------------------------------------------------
(* Options and what scripts may say *)

\* What an instance starts with.
LEMMA SetupFacts ==
  ASSUME NEW s \in Setups
  PROVE  /\ DOMAIN s.names \subseteq Nat /\ DOMAIN s.files \subseteq Nat /\ s.keys \subseteq Nat
         /\ 0 \in DOMAIN s.names /\ DefaultNames \in DOMAIN s.names
         /\ \A n \in DOMAIN s.names : s.names[n] \in Nat
         /\ s.scripts \in Seq(Seq(Statements(s))) /\ s.commands \subseteq DOMAIN s.scripts
         /\ s.rules \in Seq([matches : SUBSET Nat, run : DOMAIN s.scripts])
         /\ s.binds \in Seq([key : s.keys, run : DOMAIN s.scripts])
         /\ 0 \in DOMAIN s.files /\ FirstLayout \in DOMAIN s.files
         /\ \A n \in DOMAIN s.files : s.files[n] \in Seq(Statements(s))
         /\ s.configs \subseteq Seq(Statements(s))
         /\ DefaultKeys \in Seq(Nat \X DOMAIN s.scripts)
BY SetupsAssumption, DefaultKeysAssumption

\* Scripts, rules and bindings are sequences, so their numbers are positions.
LEMMA SetupDomains ==
  ASSUME NEW s \in Setups
  PROVE  /\ DOMAIN s.scripts \subseteq Nat /\ DOMAIN s.rules \subseteq Nat
         /\ DOMAIN s.binds \subseteq Nat
         /\ \A i \in DOMAIN s.scripts : s.scripts[i] \in Seq(Statements(s))
         /\ \A i \in DOMAIN s.rules : /\ s.rules[i].matches \subseteq Nat
                                      /\ s.rules[i].run \in DOMAIN s.scripts
         /\ \A i \in DOMAIN s.binds : s.binds[i].key \in Nat /\ s.binds[i].run \in DOMAIN s.scripts
<1> DEFINE S == Seq(Statements(s))
           R == [matches : SUBSET Nat, run : DOMAIN s.scripts]
           B == [key : s.keys, run : DOMAIN s.scripts]
<1>1. s.scripts \in Seq(S) /\ s.rules \in Seq(R) /\ s.binds \in Seq(B) /\ s.keys \subseteq Nat
  BY SetupFacts
<1>2. \A r \in R : r.matches \subseteq Nat /\ r.run \in DOMAIN s.scripts
  OBVIOUS
<1>3. \A b \in B : b.key \in s.keys /\ b.run \in DOMAIN s.scripts
  OBVIOUS
<1> HIDE DEF S, R, B
<1>4. DOMAIN s.scripts \subseteq Nat /\ \A i \in DOMAIN s.scripts : s.scripts[i] \in S
  BY <1>1
<1>5. DOMAIN s.rules \subseteq Nat /\ \A i \in DOMAIN s.rules : s.rules[i] \in R
  BY <1>1
<1>6. DOMAIN s.binds \subseteq Nat /\ \A i \in DOMAIN s.binds : s.binds[i] \in B
  BY <1>1
<1>7. \A i \in DOMAIN s.scripts : s.scripts[i] \in Seq(Statements(s))
  BY <1>4 DEF S
<1> QED BY <1>1, <1>2, <1>3, <1>4, <1>5, <1>6, <1>7

\* A binding of one key is a chain.
LEMMA KeyIsChain == \A k \in Nat : << <<k>> >> \in Seq(Chord)
<1> SUFFICES ASSUME NEW k \in Nat PROVE << <<k>> >> \in Seq(Chord)
  OBVIOUS
<1>1. <<k>> \in Seq(Int) /\ Len(<<k>>) = 1 /\ Len(<<>>) = 0
  OBVIOUS
<1>2. <<k>> \in Chord
  BY <1>1 DEF Chord
<1> QED BY <1>2

\* The recursive function of LoadDefaultKeybindings
DefaultKeysEq(f) ==
  f = [s \in SUBSET (DOMAIN DefaultKeys) |->
         IF s = {} THEN <<>>
         ELSE AddKeybinding(f[s \ {Max(s)}], << <<DefaultKeys[Max(s)][1]>> >>, DefaultKeys[Max(s)][2])]

\* The built-in bindings are a list in order.
LEMMA DefaultKeysOrdered ==
  ASSUME NEW s \in Setups
  PROVE  LoadDefaultKeybindings \in OrderedLists(DOMAIN s.scripts)
<1> DEFINE C == DOMAIN s.scripts
           V == OrderedLists(C)
           n == Len(DefaultKeys)
           step == [i \in 1..n |-> [v \in V |->
                      AddKeybinding(v, << <<DefaultKeys[i][1]>> >>, DefaultKeys[i][2])]]
           f == CHOOSE f : DefaultKeysEq(f)
<1>1. DefaultKeys \in Seq(Nat \X C)
  BY SetupFacts
<1> HIDE DEF C
<1>2. n \in Nat /\ DOMAIN DefaultKeys = 1..n
  BY <1>1
<1>3. \A i \in 1..n : DefaultKeys[i][1] \in Nat /\ DefaultKeys[i][2] \in C
  <2>1. \A i \in 1..n : DefaultKeys[i] \in Nat \X C
    BY <1>1
  <2> QED BY <2>1
<1>4. <<>> \in V
  BY DEF OrderedLists
<1>5. LoadDefaultKeybindings = f[DOMAIN DefaultKeys]
  BY Zenon DEF LoadDefaultKeybindings, FoldLeft, MapThenFoldSet, DefaultKeysEq
<1>6. ASSUME NEW i \in 1..n, NEW v \in V
      PROVE  AddKeybinding(v, << <<DefaultKeys[i][1]>> >>, DefaultKeys[i][2]) \in V
  BY <1>3, KeyIsChain, AddKeepsOrder
<1> HIDE DEF n, V
<1>7. Folding(n, V, <<>>, step)
  BY <1>2, <1>4, <1>6 DEF Folding
<1>8. PICK g \in [SUBSET (1..n) -> V] : Folds(g, n, <<>>, step)
  BY <1>7, FoldExists
<1>9. DefaultKeysEq(g)
  <2>1. \A t \in SUBSET (1..n) :
          g[t] = IF t = {} THEN <<>>
                 ELSE AddKeybinding(g[t \ {Max(t)}], << <<DefaultKeys[Max(t)][1]>> >>,
                                    DefaultKeys[Max(t)][2])
    BY <1>2, <1>8, MaxOfPositions DEF Folds
  <2>2. g = [t \in SUBSET (1..n) |-> g[t]]
    OBVIOUS
  <2> QED BY <2>1, <2>2, <1>2 DEF DefaultKeysEq
<1>10. DefaultKeysEq(f)
  BY <1>9
<1> HIDE DEF f
<1>11. TakesSteps(f, n, V, <<>>, step)
  BY <1>2, <1>10, MaxOfPositions DEF DefaultKeysEq, TakesSteps
<1>12. f[1..n] \in V
  BY <1>7, <1>11, FoldTyped
<1> QED BY <1>2, <1>5, <1>12 DEF V, C

\* What resets and copies leave are options.
LEMMA ResetTyped ==
  ASSUME NEW s \in Setups
  PROVE  /\ Created \in Options(s) /\ Created.entry = 0
         /\ \A o \in Options(s) : /\ Reset(o) \in Options(s) /\ Copied(o) \in Options(s)
                                  /\ DefaultOptions(o) \in Options(s)
<1> DEFINE keys == LoadDefaultKeybindings
           K == OrderedLists(DOMAIN s.scripts)
           R == Seq(DOMAIN s.rules)
           N == DOMAIN s.names
<1>1. 0 \in N /\ DefaultNames \in N /\ <<>> \in R
  <2>1. 0 \in DOMAIN s.names /\ DefaultNames \in DOMAIN s.names
    BY SetupFacts
  <2> QED BY <2>1
<1>2. keys \in K
  BY DefaultKeysOrdered
<1> HIDE DEF keys, K, R, N
<1>3. \A o : Reset(o) = [o EXCEPT !.gap = 0, !.mod = 0, !.names = 0, !.rules = <<>>, !.keys = keys]
  BY Zenon DEF Reset, keys
<1>4. Options(s) = [gap : Nat, mod : Nat, names : N, rules : R, keys : K, entry : Nat]
  BY DEF Options, K, R, N
<1>5. Created \in Options(s) /\ Created.entry = 0
  <2> DEFINE none == <<>>
             o == [gap |-> 0, mod |-> 0, names |-> 0, rules |-> none, keys |-> none, entry |-> 0]
  <2>1. Created = Reset(o)
    BY Zenon DEF Created
  <2>2. o \in [gap : Nat, mod : Nat, names : N, rules : R, keys : {none}, entry : Nat] /\ o.entry = 0
    BY <1>1
  <2> HIDE DEF none, o
  <2>3. Created = [o EXCEPT !.gap = 0, !.mod = 0, !.names = 0, !.rules = none, !.keys = keys]
    BY <2>1, <1>3, Zenon DEF none
  <2> QED BY <1>1, <1>2, <1>4, <2>2, <2>3 DEF none
<1>6. ASSUME NEW o \in Options(s)
      PROVE  Reset(o) \in Options(s) /\ Copied(o) \in Options(s)
  BY <1>1, <1>2, <1>4, <1>5, <1>3 DEF Copied
<1>7. ASSUME NEW o \in Options(s) PROVE DefaultOptions(o) \in Options(s)
  BY <1>1, <1>4, <1>6 DEF DefaultOptions
<1> QED BY <1>5, <1>6, <1>7

\* The numbers that go with what scripts say
LEMMA StatementTyped ==
  ASSUME NEW s, NEW x \in Statements(s)
  PROVE  /\ x[1] \in Spoken
         /\ x[1] \in {"gap", "mod", "entry", "fail", "reload"} => x[2] \in Nat
         /\ x[1] = "rule" => x[2] \in DOMAIN s.rules
         /\ x[1] = "bind" => x[2] \in DOMAIN s.binds
         /\ x[1] = "names" => x[2] \in DOMAIN s.names
         /\ x[1] \in {"default_layout", "load"} => x[2] \in DOMAIN s.files
         /\ x[1] = "listen" => x[2] \in DOMAIN s.scripts
<1> DEFINE N == DOMAIN s.names
           F == DOMAIN s.files
           S == DOMAIN s.scripts
           R == DOMAIN s.rules
           B == DOMAIN s.binds
<1>1. x \in ({"gap", "mod", "entry", "fail", "reload"} \X Nat)
             \cup ({"rule"} \X R) \cup ({"bind"} \X B)
             \cup ({"names"} \X N) \cup ({"default_layout", "load"} \X F)
             \cup ({"listen"} \X S)
  BY DEF Statements
<1> HIDE DEF N, F, S, R, B
<1>2. /\ x[1] \in Spoken
      /\ x[1] \in {"gap", "mod", "entry", "fail", "reload"} => x[2] \in Nat
      /\ x[1] = "rule" => x[2] \in R
      /\ x[1] = "bind" => x[2] \in B
      /\ x[1] = "names" => x[2] \in N
      /\ x[1] \in {"default_layout", "load"} => x[2] \in F
      /\ x[1] = "listen" => x[2] \in S
  BY <1>1 DEF Spoken
<1> QED BY <1>2 DEF N, F, S, R, B

\* What scripts may say are steps.
LEMMA StatementsAreSteps ==
  ASSUME NEW s \in Setups
  PROVE  Statements(s) \subseteq (Spoken \cup OfCore) \X Nat /\ Seq(Statements(s)) \subseteq Steps
<1>1. /\ DOMAIN s.names \subseteq Nat /\ DOMAIN s.files \subseteq Nat
      /\ DOMAIN s.scripts \subseteq Nat /\ DOMAIN s.rules \subseteq Nat /\ DOMAIN s.binds \subseteq Nat
  BY SetupFacts, SetupDomains
<1>2. ASSUME NEW x \in Statements(s) PROVE x \in (Spoken \cup OfCore) \X Nat
  <2> DEFINE N == DOMAIN s.names
             F == DOMAIN s.files
             S == DOMAIN s.scripts
             R == DOMAIN s.rules
             B == DOMAIN s.binds
  <2>1. x \in ({"gap", "mod", "entry", "fail", "reload"} \X Nat)
               \cup ({"rule"} \X R) \cup ({"bind"} \X B)
               \cup ({"names"} \X N) \cup ({"default_layout", "load"} \X F)
               \cup ({"listen"} \X S)
    BY DEF Statements
  <2>2. N \subseteq Nat /\ F \subseteq Nat /\ S \subseteq Nat /\ R \subseteq Nat /\ B \subseteq Nat
    BY <1>1
  <2> HIDE DEF N, F, S, R, B
  <2>3. Spoken \subseteq Spoken \cup OfCore
    OBVIOUS
  <2>4. x \in (Spoken \cup OfCore) \X Nat
    BY <2>1, <2>2, <2>3 DEF Spoken
  <2> QED BY <2>4
<1> QED BY <1>2 DEF Steps

\* A statement leaves options.
LEMMA ChangedTyped ==
  ASSUME NEW s \in Setups, s = setup, NEW o \in Options(s), NEW op, NEW n,
         op \in {"gap", "mod", "entry"} => n \in Nat,
         op = "rule" => n \in DOMAIN s.rules,
         op = "bind" => n \in DOMAIN s.binds,
         op = "names" => n \in DOMAIN s.names
  PROVE  Changed(o, op, n) \in Options(s)
<1> DEFINE K == OrderedLists(DOMAIN s.scripts)
           D == DOMAIN s.rules
           N == DOMAIN s.names
<1>1. Options(s) = [gap : Nat, mod : Nat, names : N, rules : Seq(D), keys : K, entry : Nat]
  BY DEF Options
<1>2. ASSUME op = "bind"
      PROVE  AddKeybinding(o.keys, << <<s.binds[n].key>> >>, s.binds[n].run) \in K
  <2>1. o.keys \in K
    BY <1>1
  <2>2. s.binds[n].key \in Nat /\ s.binds[n].run \in DOMAIN s.scripts
    BY <1>2, SetupDomains
  <2>3. << <<s.binds[n].key>> >> \in Seq(Chord)
    BY <2>2, KeyIsChain
  <2> QED BY <2>1, <2>2, <2>3, AddKeepsOrder
<1>3. op = "rule" => n \in D
  OBVIOUS
<1>4. op = "names" => n \in N
  OBVIOUS
<1> HIDE DEF K, D, N
<1>5. CASE op = "bind"
  <2> DEFINE k == AddKeybinding(o.keys, << <<s.binds[n].key>> >>, s.binds[n].run)
  <2>1. Changed(o, op, n) = [o EXCEPT !.keys = k]
    BY <1>5 DEF Changed, Added
  <2>2. k \in K
    BY <1>2, <1>5
  <2> HIDE DEF k
  <2> QED BY <1>1, <2>1, <2>2
<1>6. CASE op = "rule"
  <2>1. Changed(o, op, n) = [o EXCEPT !.rules = Append(o.rules, n)]
    BY <1>6 DEF Changed, Added
  <2>2. Append(o.rules, n) \in Seq(D)
    BY <1>1, <1>3, <1>6
  <2> DEFINE r == Append(o.rules, n)
  <2> HIDE DEF r
  <2>3. r \in Seq(D) /\ Changed(o, op, n) = [o EXCEPT !.rules = r]
    BY <2>1, <2>2 DEF r
  <2> DEFINE T == Seq(D)
  <2> HIDE DEF T
  <2>4. Options(s) = [gap : Nat, mod : Nat, names : N, rules : T, keys : K, entry : Nat] /\ r \in T
    BY <1>1, <2>3 DEF T
  <2> QED BY <2>3, <2>4
<1>7. CASE op \in {"gap", "mod"}
  <2>1. n \in Nat
    BY <1>7
  <2>2. CASE op = "gap"
    BY <1>1, <2>1, <2>2 DEF Changed, Set
  <2>3. CASE op = "mod"
    BY <1>1, <2>1, <2>3 DEF Changed, Set
  <2> QED BY <1>7, <2>2, <2>3
<1>8. CASE op = "entry"
  BY <1>1, <1>8 DEF Changed, SetEntry
<1>9. CASE op = "names"
  BY <1>1, <1>4, <1>9 DEF Changed
<1>10. CASE op \notin {"gap", "mod", "entry", "rule", "bind", "names"}
  BY <1>10 DEF Changed
<1> QED BY <1>5, <1>6, <1>7, <1>8, <1>9, <1>10

\* What is left of a script says no more than the script.
LEMMA OpsOfRest ==
  ASSUME NEW S, NEW r \in Seq(S), r # <<>>
  PROVE  /\ r[1] \in S /\ r[1][1] \in Ops(r)
         /\ Tail(r) \in Seq(S) /\ Ops(Tail(r)) \subseteq Ops(r)
<1>1. Len(r) \in Nat /\ Len(r) >= 1 /\ DOMAIN r = 1..Len(r)
  OBVIOUS
<1>2. Tail(r) \in Seq(S) /\ DOMAIN Tail(r) = 1..(Len(r) - 1)
      /\ \A i \in 1..(Len(r) - 1) : Tail(r)[i] = r[i + 1]
  OBVIOUS
<1>3. ASSUME NEW x \in Ops(Tail(r)) PROVE x \in Ops(r)
  <2>1. PICK i \in 1..(Len(r) - 1) : x = Tail(r)[i][1]
    BY <1>2 DEF Ops
  <2>2. x = r[i + 1][1] /\ i + 1 \in DOMAIN r
    BY <1>1, <1>2, <2>1
  <2> QED BY <2>2 DEF Ops
<1>4. r[1][1] \in Ops(r)
  BY <1>1 DEF Ops
<1> QED BY <1>1, <1>2, <1>3, <1>4

\* Functions and layout files say what the model calls InScripts and InFiles.
LEMMA SayingsAre ==
  /\ InScripts \cup InFiles = Sayings(setup)
  /\ \A i \in DOMAIN setup.scripts : Ops(setup.scripts[i]) \subseteq InScripts
  /\ \A i \in DOMAIN setup.files : Ops(setup.files[i]) \subseteq InFiles
  /\ \A i \in DOMAIN setup.rules : Ops(setup.scripts[setup.rules[i].run]) \subseteq InRules
<1>1. InScripts \cup InFiles = Sayings(setup)
  <2> DEFINE A == UNION {Ops(setup.scripts[i]) : i \in DOMAIN setup.scripts}
             B == UNION {Ops(setup.files[i]) : i \in DOMAIN setup.files}
  <2>1. InScripts = A
    BY Zenon DEF InScripts
  <2>2. InFiles = B
    BY Zenon DEF InFiles
  <2>3. Sayings(setup) = A \cup B
    BY Zenon DEF Sayings
  <2> HIDE DEF A, B
  <2> QED BY <2>1, <2>2, <2>3
<1>2. \A i \in DOMAIN setup.scripts : Ops(setup.scripts[i]) \subseteq InScripts
  BY DEF InScripts
<1>3. \A i \in DOMAIN setup.files : Ops(setup.files[i]) \subseteq InFiles
  BY DEF InFiles
<1>4. \A i \in DOMAIN setup.rules : Ops(setup.scripts[setup.rules[i].run]) \subseteq InRules
  BY DEF InRules
<1> QED BY <1>1, <1>2, <1>3, <1>4

-----------------------------------------------------------------------------
(* The stack of calls *)

\* A call in the place of the top, or some, or none.
LEMMA Replaced ==
  ASSUME NEW S, NEW s \in Seq(S), s # <<>>, NEW new \in Seq(S)
  PROVE  LET t == new \o Tail(s)
         IN  /\ t \in Seq(S) /\ Len(t) = Len(new) + Len(s) - 1
             /\ \A i \in 1..Len(new) : t[i] = new[i]
             /\ \A i \in (Len(new) + 1)..Len(t) :
                  i - Len(new) + 1 \in 2..Len(s) /\ t[i] = s[i - Len(new) + 1]
<1>1. Len(s) \in Nat /\ Len(s) >= 1 /\ Len(new) \in Nat
  OBVIOUS
<1>2. Tail(s) \in Seq(S) /\ Len(Tail(s)) = Len(s) - 1
      /\ \A i \in 1..(Len(s) - 1) : Tail(s)[i] = s[i + 1]
  OBVIOUS
<1> DEFINE u == Tail(s)
<1> HIDE DEF u
<1>3. u \in Seq(S) /\ Len(u) = Len(s) - 1 /\ \A i \in 1..(Len(s) - 1) : u[i] = s[i + 1]
  BY <1>2 DEF u
<1>4. /\ new \o u \in Seq(S) /\ Len(new \o u) = Len(new) + Len(s) - 1
      /\ \A i \in 1..Len(new) : (new \o u)[i] = new[i]
      /\ \A i \in (Len(new) + 1)..(Len(new) + Len(s) - 1) : (new \o u)[i] = u[i - Len(new)]
  BY <1>1, <1>3
<1>5. \A i \in (Len(new) + 1)..(Len(new) + Len(s) - 1) :
         /\ i - Len(new) + 1 \in 2..Len(s) /\ i - Len(new) \in 1..(Len(s) - 1)
         /\ u[i - Len(new)] = s[i - Len(new) + 1]
  BY <1>1, <1>3
<1> QED BY <1>4, <1>5 DEF u

\* The calls of new take the place of the top, and the pointers into the layouts of
\* the tags of gone point to nothing.
Same(c, d, gone) ==
  c.kind = d.kind /\ c.todo = d.todo /\ c.window = d.window /\ c.ptr = After(d.ptr, gone)

\* The calls that the step starts or changes are on top; below them are the others of
\* before, whose pointers to what is gone are freed.
Became(new, gone) ==
  /\ new \in Seq(CallOf(setup)) /\ Len(stack) >= 1
  /\ stack' \in Seq(CallOf(setup)) /\ Len(stack') = Len(new) + Len(stack) - 1
  /\ \A i \in 1..Len(new) : Same(stack'[i], new[i], gone)
  /\ \A i \in (Len(new) + 1)..Len(stack') :
       i - Len(new) + 1 \in 2..Len(stack) /\ Same(stack'[i], stack[i - Len(new) + 1], gone)

\* Nothing is gone.
LEMMA BecomesWithout ==
  ASSUME stack \in Seq(CallOf(setup)), stack # <<>>, NEW new \in Seq(CallOf(setup)),
         stack' = new \o Tail(stack)
  PROVE  Became(new, {})
<1> DEFINE S == CallOf(setup)
<1>1. \A c \in S : Same(c, c, {})
  BY DEF Same, After
<1> HIDE DEF S
<1>2. stack \in Seq(S) /\ new \in Seq(S) /\ Len(stack) >= 1 /\ Len(stack) \in Nat /\ Len(new) \in Nat
  BY DEF S
<1>3. /\ stack' \in Seq(S) /\ Len(stack') = Len(new) + Len(stack) - 1
      /\ \A i \in 1..Len(new) : stack'[i] = new[i]
      /\ \A i \in (Len(new) + 1)..Len(stack') :
           i - Len(new) + 1 \in 2..Len(stack) /\ stack'[i] = stack[i - Len(new) + 1]
  BY <1>2, Replaced
<1>4. \A i \in 1..Len(new) : Same(stack'[i], new[i], {})
  BY <1>1, <1>2, <1>3
<1>5. \A i \in (Len(new) + 1)..Len(stack') : Same(stack'[i], stack[i - Len(new) + 1], {})
  BY <1>1, <1>2, <1>3
<1> QED BY <1>2, <1>3, <1>4, <1>5 DEF Became, S

\* What points into layouts that are gone points to nothing.
LEMMA AfterTyped ==
  ASSUME NEW s, NEW p \in Pointers(s), NEW gone
  PROVE  After(p, gone) \in Pointers(s)
BY DEF After, Pointers

\* tag_remove_loaded_layouts frees what is pointed to.
LEMMA BecomesFreed ==
  ASSUME stack \in Seq(CallOf(setup)), stack # <<>>, NEW new \in Seq(CallOf(setup)),
         NEW gone, RemoveLayouts(gone, new \o Tail(stack))
  PROVE  Became(new, gone) /\ opt' = After(opt, gone)
<1> DEFINE S == CallOf(setup)
           P == Pointers(setup)
           calls == new \o Tail(stack)
<1>1. S = [kind : Kinds, todo : Steps, ptr : P, window : Nat]
  BY DEF CallOf
<1>2. \A p \in P : After(p, gone) \in P
  BY AfterTyped
<1> HIDE DEF P
<1>3. ASSUME NEW c \in S
      PROVE  /\ [c EXCEPT !.ptr = After(@, gone)] \in S
             /\ Same([c EXCEPT !.ptr = After(@, gone)], c, gone)
  <2> DEFINE p == After(c.ptr, gone)
  <2>1. p \in P /\ p = After(c.ptr, gone)
    BY <1>1, <1>2
  <2> HIDE DEF p
  <2>2. [c EXCEPT !.ptr = p] \in S
    BY <1>1, <2>1
  <2>3. Same([c EXCEPT !.ptr = p], c, gone)
    BY <1>1, <2>1 DEF Same
  <2> QED BY <2>1, <2>2, <2>3
<1> HIDE DEF S
<1>4. stack \in Seq(S) /\ new \in Seq(S) /\ Len(stack) >= 1 /\ Len(stack) \in Nat /\ Len(new) \in Nat
  BY DEF S
<1>5. /\ calls \in Seq(S) /\ Len(calls) = Len(new) + Len(stack) - 1
      /\ \A i \in 1..Len(new) : calls[i] = new[i]
      /\ \A i \in (Len(new) + 1)..Len(calls) :
           i - Len(new) + 1 \in 2..Len(stack) /\ calls[i] = stack[i - Len(new) + 1]
  BY <1>4, Replaced
<1>6. opt' = After(opt, gone)
      /\ stack' = [i \in DOMAIN calls |-> [calls[i] EXCEPT !.ptr = After(@, gone)]]
  BY DEF RemoveLayouts
<1> HIDE DEF calls
<1>7. DOMAIN calls = 1..Len(calls) /\ Len(calls) \in Nat
  BY <1>4, <1>5
<1>8. /\ stack' \in Seq(S) /\ Len(stack') = Len(calls)
      /\ \A i \in 1..Len(calls) : Same(stack'[i], calls[i], gone)
  <2> DEFINE f == [i \in 1..Len(calls) |-> [calls[i] EXCEPT !.ptr = After(@, gone)]]
  <2>1. stack' = f
    BY <1>6, <1>7
  <2>2. \A i \in 1..Len(calls) : f[i] \in S /\ Same(f[i], calls[i], gone)
    <3> SUFFICES ASSUME NEW i \in 1..Len(calls) PROVE f[i] \in S /\ Same(f[i], calls[i], gone)
      OBVIOUS
    <3>1. calls[i] \in S
      BY <1>5
    <3>2. f[i] = [calls[i] EXCEPT !.ptr = After(@, gone)]
      OBVIOUS
    <3> HIDE DEF f
    <3> QED BY <3>1, <3>2, <1>3
  <2>3. f \in [1..Len(calls) -> S]
    BY <2>2
  <2> HIDE DEF f
  <2>4. f \in Seq(S) /\ Len(f) = Len(calls)
    BY <1>7, <2>3
  <2> QED BY <2>1, <2>2, <2>4
<1>9. Len(stack') = Len(new) + Len(stack) - 1
  BY <1>5, <1>8
<1>10. \A i \in 1..Len(new) : Same(stack'[i], new[i], gone)
  BY <1>4, <1>5, <1>8
<1>11. \A i \in (Len(new) + 1)..Len(stack') :
         i - Len(new) + 1 \in 2..Len(stack) /\ Same(stack'[i], stack[i - Len(new) + 1], gone)
  BY <1>4, <1>5, <1>8
<1> QED BY <1>4, <1>6, <1>8, <1>9, <1>10, <1>11 DEF Became, S

-----------------------------------------------------------------------------
(* What a call of C has left to do *)

\* The tails of short sequences
LEMMA ShortTails ==
  /\ \A a : Tail(<<a>>) = <<>>
  /\ \A a, b : Tail(<<a, b>>) = <<b>>
  /\ \A a, b, c : Tail(<<a, b, c>>) = <<b, c>>
  /\ \A a, b, c, d : Tail(<<a, b, c, d>>) = <<b, c, d>>
  /\ \A a, b, c, d, e : Tail(<<a, b, c, d, e>>) = <<b, c, d, e>>
OBVIOUS

\* One or two elements before a sequence
LEMMA Consed ==
  ASSUME NEW S, NEW s \in Seq(S), NEW a \in S
  PROVE  LET r == <<a>> \o s
         IN  r \in Seq(S) /\ Len(r) = Len(s) + 1 /\ r # <<>> /\ r[1] = a /\ Tail(r) = s
<1> DEFINE r == <<a>> \o s
<1>1. <<a>> \in Seq(S) /\ Len(<<a>>) = 1 /\ <<a>>[1] = a
  OBVIOUS
<1>2. Len(s) \in Nat
  OBVIOUS
<1>3. r \in Seq(S) /\ Len(r) = 1 + Len(s)
      /\ \A i \in 1..(1 + Len(s)) : r[i] = IF i <= 1 THEN <<a>>[i] ELSE s[i - 1]
  BY <1>1, ConcatProperties
<1> HIDE DEF r
<1>4. r # <<>>
  BY <1>2, <1>3, EmptySeq
<1>5. r[1] = a
  BY <1>1, <1>2, <1>3
<1>6. Tail(r) \in Seq(S) /\ Len(Tail(r)) = Len(s) /\ \A i \in 1..Len(s) : Tail(r)[i] = r[i + 1]
  BY <1>2, <1>3, <1>4, HeadTailProperties
<1>7. \A i \in 1..Len(s) : Tail(r)[i] = s[i]
  BY <1>2, <1>3, <1>6
<1>8. Tail(r) = s
  BY <1>6, <1>7, SeqEqual
<1> QED BY <1>2, <1>3, <1>4, <1>5, <1>8 DEF r

\* Steps are joined one by one.
LEMMA Joined ==
  ASSUME NEW S, NEW s \in Seq(S), NEW a \in S, NEW b \in S
  PROVE  /\ <<a, b>> \o s = <<a>> \o (<<b>> \o s)
         /\ <<a>> \o <<>> = <<a>> /\ <<a>> \o <<b>> = <<a, b>>
<1>1. <<a>> \in Seq(S) /\ <<b>> \in Seq(S) /\ Len(<<a>>) = 1 /\ Len(<<b>>) = 1
  OBVIOUS
<1>2. <<a>> \o <<b>> = <<a, b>>
  <2> DEFINE u == <<a>> \o <<b>>
             v == <<a, b>>
  <2>1. /\ u \in Seq(S) /\ Len(u) = 2
        /\ \A i \in 1..2 : u[i] = IF i <= 1 THEN <<a>>[i] ELSE <<b>>[i - 1]
    BY <1>1, ConcatProperties
  <2>2. v \in Seq(S) /\ Len(v) = 2 /\ v[1] = a /\ v[2] = b
    OBVIOUS
  <2>3. u[1] = a /\ u[2] = b
    BY <2>1
  <2> HIDE DEF u, v
  <2>4. \A i \in 1..Len(u) : u[i] = v[i]
    BY <2>1, <2>2, <2>3
  <2>5. u = v
    BY <2>1, <2>2, <2>4, SeqEqual
  <2> QED BY <2>5 DEF u, v
<1>3. (<<a>> \o <<b>>) \o s = <<a>> \o (<<b>> \o s)
  BY <1>1, ConcatAssociative
<1>4. <<a>> \o <<>> = <<a>>
  BY <1>1, ConcatEmptySeq
<1> QED BY <1>2, <1>3, <1>4

\* A step that is left alone has nothing after it.
LEMMA NothingAfterOnly ==
  ASSUME NEW r \in Steps, NEW ops, NEW from, Only(r, ops, from)
  PROVE  Tail(r) = <<>> /\ r # <<>>
<1> DEFINE X == (Spoken \cup OfCore) \X Nat
<1>1. r \in Seq(X) /\ Len(r) = 1
  BY DEF Steps, Only
<1> HIDE DEF X
<1>2. r # <<>>
  BY <1>1, EmptySeq
<1>3. Tail(r) \in Seq(X) /\ Len(Tail(r)) = 0
  BY <1>1, <1>2, HeadTailProperties
<1>4. Tail(r) = <<>>
  BY <1>3, EmptySeq
<1> QED BY <1>2, <1>4

\* Steps have a name and a number.
LEMMA StepsTyped ==
  ASSUME NEW r \in Steps
  PROVE  /\ Len(r) \in Nat /\ (r # <<>> <=> Len(r) >= 1)
         /\ \A i \in 1..Len(r) : r[i][1] \in Spoken \cup OfCore /\ r[i][2] \in Nat
         /\ r # <<>> => Tail(r) \in Steps /\ Len(Tail(r)) = Len(r) - 1
<1> DEFINE X == (Spoken \cup OfCore) \X Nat
<1>1. \A x \in X : x[1] \in Spoken \cup OfCore /\ x[2] \in Nat
  OBVIOUS
<1>2. r \in Seq(X)
  BY DEF Steps
<1> HIDE DEF X
<1>3. Len(r) \in Nat /\ \A i \in 1..Len(r) : r[i] \in X
  BY <1>2
<1>4. r # <<>> <=> Len(r) >= 1
  BY <1>2, EmptySeq
<1>5. r # <<>> => Tail(r) \in Seq(X) /\ Len(Tail(r)) = Len(r) - 1
  BY <1>2, HeadTailProperties
<1> QED BY <1>1, <1>3, <1>4, <1>5 DEF Steps, X

\* What a call of C waits for is none of what scripts say, nor what only the top does.
LEMMA WaitsHeads ==
  ASSUME NEW s, NEW sh, NEW r \in Steps, NEW last, Waits(s, sh, r, last), Len(r) >= 1
  PROVE  r[1][1] \in {"focus", "get", "placed", "tags", "emit", "rules", "run", "allow",
                      "load_tags", "default_layouts"}
<1>1. r # <<>>
  BY StepsTyped
<1> QED BY <1>1 DEF Waits, Only, AfterNames, AfterFirst, AfterConfig

\* The steps that only the call at the top goes on with
LEMMA BeginsHeads ==
  ASSUME NEW s, NEW sh, NEW ts, NEW r, NEW last, Begins(s, sh, ts, r, last)
  PROVE  r[1][1] \in {"config", "name", "key", "title", "eval"}
BY DEF Begins, Only

\* When the layout of a tag is loaded, the call waits or goes on.
LEMMA FollowsOn ==
  ASSUME NEW s, NEW sh, NEW ts, NEW r, NEW last, NEW t \in Tags,
         Follows(s, sh, r, t, last), ts[t].loaded # <<>>
  PROVE  Waits(s, sh, r, last) \/ Begins(s, sh, ts, r, last)
<1>1. CASE r = <<>>
  BY <1>1 DEF Waits
<1>2. CASE r = << <<"name", t>>, <<"tags", t + 1>> >>
  BY <1>2 DEF Begins
<1>3. CASE r = << <<"tags", 0>> >>
  <2>1. Only(r, {"tags"}, 0)
    BY <1>3 DEF Only
  <2> QED BY <2>1 DEF Waits
<1>4. CASE t = sh /\ last /\ Only(r, {"key", "title"}, 0)
  BY <1>4 DEF Begins
<1>5. CASE t = sh /\ \E n \in DOMAIN s.scripts : r = << <<"eval", n>>, <<"focus", sh>> >>
  BY <1>5 DEF Begins
<1> QED BY <1>1, <1>2, <1>3, <1>4, <1>5 DEF Follows

\* What is after each step of C
GoesOn(s, sh, ts, r, last) ==
  /\ r[1][1] = "focus" => r[1][2] = sh /\ Follows(s, sh, Tail(r), sh, last)
  /\ r[1][1] = "get" => r[1][2] \in Tags /\ Follows(s, sh, Tail(r), r[1][2], last)
  /\ r[1][1] = "placed" =>
       /\ Len(r) >= 2 /\ r[1][2] >= 1
       /\ \E t \in Tags : r[2] = <<"front", t>> /\ Follows(s, sh, Tail(Tail(r)), t, last)
  /\ r[1][1] = "tags" => Tail(r) = <<>>
  /\ r[1][1] \in {"emit", "rules"} => Tail(r) = <<>> /\ r[1][2] >= 1
  /\ r[1][1] = "run" => r[1][2] \in DOMAIN s.scripts /\ Waits(s, sh, Tail(r), last)
  /\ r[1][1] = "allow" =>
       /\ last /\ Waits(s, sh, Tail(r), last)
       /\ Len(r) >= 2 => Tail(r) = << <<"default_layouts", 0>>, <<"focus", sh>> >>
  /\ r[1][1] = "load_tags" => last /\ sh = 0 /\ Tail(r) = AfterNames
  /\ r[1][1] = "default_layouts" =>
       Waits(s, sh, Tail(r), last) /\ Tail(r) # <<>> /\ Tail(r)[1] = <<"focus", sh>>
  /\ r[1][1] = "config" =>
       Tail(r) = AfterConfig(sh) \/ (last /\ sh = 0 /\ Tail(r) = AfterFirst)
  /\ r[1][1] = "name" =>
       r[1][2] \in Tags /\ ts[r[1][2]].loaded # <<>> /\ Tail(r) = << <<"tags", r[1][2] + 1>> >>
  /\ r[1][1] \in {"key", "title"} => last /\ ts[sh].loaded # <<>> /\ Tail(r) = <<>>
  /\ r[1][1] = "eval" =>
       /\ r[1][2] \in DOMAIN s.scripts /\ ts[sh].loaded # <<>>
       /\ Tail(r) = << <<"focus", sh>> >>

\* And this is what is left, whether the call waited or begins.
LEMMA CoreForms ==
  ASSUME NEW s, NEW sh, NEW ts, NEW r \in Steps, NEW last, r # <<>>,
         Waits(s, sh, r, last) \/ Begins(s, sh, ts, r, last)
  PROVE  GoesOn(s, sh, ts, r, last)
<1> DEFINE nothing == <<>>
           focused == << <<"focus", sh>> >>
           later == << <<"focus", sh>>, <<"tags", 0>> >>
           allowed == << <<"allow", 0>> >>
           both == << <<"default_layouts", 0>>, <<"focus", sh>> >>
<1>1. Waits(s, sh, nothing, last) /\ \A t : Follows(s, sh, nothing, t, last)
  BY DEF Waits, Follows
<1>2. Waits(s, sh, focused, last) /\ focused # <<>> /\ focused[1] = <<"focus", sh>>
  <2>1. focused # <<>> /\ focused[1] = <<"focus", sh>> /\ Len(focused) = 1 /\ Tail(focused) = <<>>
    OBVIOUS
  <2> QED BY <1>1, <2>1 DEF Waits
<1>3. Waits(s, sh, later, last) /\ later # <<>> /\ later[1] = <<"focus", sh>>
  <2>1. later # <<>> /\ later[1] = <<"focus", sh>> /\ Len(later) = 2
    OBVIOUS
  <2>2. Tail(later) = << <<"tags", 0>> >>
    BY ShortTails
  <2>3. Follows(s, sh, Tail(later), sh, last)
    BY <2>2 DEF Follows
  <2> QED BY <2>1, <2>3 DEF Waits
<1>4. Waits(s, sh, both, last)
  BY DEF Waits
<1>5. last => Waits(s, sh, allowed, last)
  BY DEF Waits
<1>6. ASSUME Begins(s, sh, ts, r, last) PROVE GoesOn(s, sh, ts, r, last)
  <2>1. CASE r = << <<"config", 0>>, <<"default_layouts", 0>>, <<"focus", sh>>, <<"tags", 0>> >>
    <3>1. Tail(r) = AfterConfig(sh) /\ r[1][1] = "config"
      BY <2>1, ShortTails DEF AfterConfig
    <3> QED BY <3>1 DEF GoesOn
  <2>2. CASE /\ last /\ sh = 0
             /\ r = << <<"config", 0>>, <<"load_tags", 0>>, <<"allow", 0>>, <<"default_layouts", 0>>,
                       <<"focus", 0>> >>
    <3>1. Tail(r) = AfterFirst /\ r[1][1] = "config"
      BY <2>2, ShortTails DEF AfterFirst
    <3> QED BY <3>1, <2>2 DEF GoesOn
  <2>3. CASE \E t \in Tags : r = << <<"name", t>>, <<"tags", t + 1>> >> /\ ts[t].loaded # <<>>
    <3>1. PICK t \in Tags : r = << <<"name", t>>, <<"tags", t + 1>> >> /\ ts[t].loaded # <<>>
      BY <2>3
    <3>2. Tail(r) = << <<"tags", t + 1>> >> /\ r[1] = <<"name", t>>
      BY <3>1, ShortTails
    <3> QED BY <3>1, <3>2 DEF GoesOn
  <2>4. CASE ts[sh].loaded # <<>> /\ last /\ Only(r, {"key", "title"}, 0)
    <3>1. Tail(r) = <<>> /\ r[1][1] \in {"key", "title"}
      BY <2>4, NothingAfterOnly DEF Only
    <3> QED BY <3>1, <2>4 DEF GoesOn
  <2>5. CASE /\ ts[sh].loaded # <<>>
             /\ \E n \in DOMAIN s.scripts : r = << <<"eval", n>>, <<"focus", sh>> >>
    <3>1. PICK n \in DOMAIN s.scripts : r = << <<"eval", n>>, <<"focus", sh>> >>
      BY <2>5
    <3>2. Tail(r) = << <<"focus", sh>> >> /\ r[1] = <<"eval", n>>
      BY <3>1, ShortTails
    <3> QED BY <3>2, <2>5 DEF GoesOn
  <2> QED BY <1>6, <2>1, <2>2, <2>3, <2>4, <2>5 DEF Begins
<1>7. ASSUME Waits(s, sh, r, last) PROVE GoesOn(s, sh, ts, r, last)
  <2>1. CASE r[1] = <<"focus", sh>> /\ Follows(s, sh, Tail(r), sh, last)
    BY <2>1 DEF GoesOn
  <2>2. CASE \E t \in Tags : r[1] = <<"get", t>> /\ Follows(s, sh, Tail(r), t, last)
    BY <2>2 DEF GoesOn
  <2>3. CASE /\ Len(r) >= 2 /\ r[1][1] = "placed" /\ r[1][2] >= 1
             /\ \E t \in Tags : r[2] = <<"front", t>> /\ Follows(s, sh, Tail(Tail(r)), t, last)
    BY <2>3 DEF GoesOn
  <2>4. CASE Only(r, {"tags"}, 0)
    <3>1. Tail(r) = <<>> /\ r[1][1] = "tags"
      BY <2>4, NothingAfterOnly DEF Only
    <3> QED BY <3>1 DEF GoesOn
  <2>5. CASE Only(r, {"emit", "rules"}, 1)
    <3>1. Tail(r) = <<>> /\ r[1][1] \in {"emit", "rules"} /\ r[1][2] >= 1
      BY <2>5, NothingAfterOnly DEF Only
    <3> QED BY <3>1 DEF GoesOn
  <2>6. CASE /\ Len(r) >= 1 /\ \E n \in DOMAIN s.scripts : r[1] = <<"run", n>>
             /\ (last /\ Tail(r) = allowed) \/ Only(Tail(r), {"emit"}, 1)
    <3>1. Waits(s, sh, Tail(r), last)
      <4>1. CASE last /\ Tail(r) = allowed
        BY <4>1, <1>5
      <4>2. CASE Only(Tail(r), {"emit"}, 1)
        <5>1. Only(Tail(r), {"emit", "rules"}, 1)
          BY <4>2 DEF Only
        <5> QED BY <5>1 DEF Waits
      <4> QED BY <2>6, <4>1, <4>2
    <3> QED BY <2>6, <3>1 DEF GoesOn
  <2>7. CASE last /\ r = allowed
    <3>1. Tail(r) = nothing /\ r[1][1] = "allow" /\ ~(Len(r) >= 2)
      BY <2>7, ShortTails
    <3> QED BY <3>1, <2>7, <1>1 DEF GoesOn
  <2>8. CASE last /\ sh = 0 /\ r = AfterNames
    <3>1. Tail(r) = both /\ r[1][1] = "allow"
      BY <2>8, ShortTails DEF AfterNames
    <3> QED BY <3>1, <2>8, <1>4 DEF GoesOn
  <2>9. CASE last /\ sh = 0 /\ r = AfterFirst
    <3>1. Tail(r) = AfterNames /\ r[1][1] = "load_tags"
      BY <2>9, ShortTails DEF AfterFirst, AfterNames
    <3> QED BY <3>1, <2>9 DEF GoesOn
  <2>10. CASE r = both
    <3>1. Tail(r) = focused /\ r[1][1] = "default_layouts"
      BY <2>10, ShortTails
    <3> HIDE DEF focused
    <3> QED BY <3>1, <1>2 DEF GoesOn
  <2>11. CASE r = AfterConfig(sh)
    <3>1. Tail(r) = later /\ r[1][1] = "default_layouts"
      BY <2>11, ShortTails DEF AfterConfig
    <3> HIDE DEF later
    <3> QED BY <3>1, <1>3 DEF GoesOn
  <2> HIDE DEF nothing
  <2> QED BY <1>7, <2>1, <2>2, <2>3, <2>4, <2>5, <2>6, <2>7, <2>8, <2>9, <2>10, <2>11 DEF Waits
<1> QED BY <1>6, <1>7

-----------------------------------------------------------------------------
(* The call at the top, and what is below it *)

\* The calls are calls.
LEMMA TopTyped ==
  ASSUME Typed
  PROVE  /\ stack \in Seq(CallOf(setup)) /\ Len(stack) \in Nat /\ (stack # <<>> <=> Len(stack) >= 1)
         /\ \A i \in 1..Len(stack) :
              /\ stack[i] \in CallOf(setup) /\ stack[i].kind \in Kinds /\ stack[i].todo \in Steps
              /\ stack[i].ptr \in Pointers(setup) /\ stack[i].window \in Nat
         /\ stack # <<>> => Top = stack[1] /\ Tail(stack) \in Seq(CallOf(setup))
<1> DEFINE S == CallOf(setup)
<1>1. stack \in Seq(S)
  BY DEF Typed
<1>2. \A c \in S : /\ c.kind \in Kinds /\ c.todo \in Steps /\ c.ptr \in Pointers(setup)
                   /\ c.window \in Nat
  BY DEF CallOf
<1> HIDE DEF S
<1>3. Len(stack) \in Nat /\ \A i \in 1..Len(stack) : stack[i] \in S
  BY <1>1
<1>4. stack # <<>> <=> Len(stack) >= 1
  BY <1>1, EmptySeq
<1>5. stack # <<>> => Top = stack[1] /\ Tail(stack) \in Seq(S)
  BY <1>1 DEF Top
<1> QED BY <1>1, <1>2, <1>3, <1>4, <1>5 DEF S

\* What is done next is a step of C or a statement.
LEMMA TopForms ==
  ASSUME Typed, Forms, NEW op, Ready(op)
  PROVE  /\ stack # <<>> /\ Len(stack) >= 1 /\ Live /\ Top = stack[1]
         /\ Top \in CallOf(setup) /\ Top.todo \in Steps /\ Top.todo # <<>> /\ Len(Top.todo) >= 1
         /\ Top.todo[1][1] = op /\ Arg = Top.todo[1][2] /\ Arg \in Nat
         /\ op \in OfCore =>
              /\ Top.kind = "core"
              /\ \/ Waits(setup, shown, Top.todo, Len(stack) = 1)
                 \/ Begins(setup, shown, tags, Top.todo, Len(stack) = 1)
         /\ op \in Spoken => Top.kind # "core" /\ Says(setup, Top) /\ Top.todo[1] \in Statements(setup)
<1>1. /\ stack # <<>> /\ Live /\ Top.todo # <<>> /\ Top.todo[1][1] = op
  BY DEF Ready
<1>2. /\ Len(stack) >= 1 /\ Len(stack) \in Nat /\ Top = stack[1] /\ Top \in CallOf(setup)
      /\ Top.todo \in Steps
  BY <1>1, TopTyped
<1>3. Len(Top.todo) >= 1 /\ Top.todo[1][2] \in Nat
  BY <1>1, <1>2, StepsTyped
<1>4. \/ Waiting(setup, shown, Top, Len(stack) = 1)
      \/ Top.kind = "core" /\ Begins(setup, shown, tags, Top.todo, Len(stack) = 1)
  <2>1. 1 \in 1..Len(stack) /\ ((1 = Len(stack)) <=> (Len(stack) = 1))
    BY <1>2
  <2> QED BY <1>2, <2>1 DEF Forms
<1>5. ASSUME Top.kind # "core" PROVE Says(setup, Top) /\ Top.todo[1] \in Statements(setup) /\ op \in Spoken
  <2>1. Says(setup, Top)
    BY <1>4, <1>5 DEF Waiting
  <2>2. Top.todo[1] \in Statements(setup)
    BY <1>1, <2>1, OpsOfRest DEF Says
  <2> QED BY <1>1, <2>1, <2>2, StatementTyped
<1>6. ASSUME Top.kind = "core"
      PROVE  /\ op \in OfCore
             /\ \/ Waits(setup, shown, Top.todo, Len(stack) = 1)
                \/ Begins(setup, shown, tags, Top.todo, Len(stack) = 1)
  <2>1. \/ Waits(setup, shown, Top.todo, Len(stack) = 1)
        \/ Begins(setup, shown, tags, Top.todo, Len(stack) = 1)
    BY <1>4, <1>6 DEF Waiting
  <2>2. op \in {"focus", "get", "placed", "tags", "emit", "rules", "run", "allow",
                "load_tags", "default_layouts", "config", "name", "key", "title", "eval"}
    BY <1>1, <1>2, <1>3, <2>1, WaitsHeads, BeginsHeads
  <2> QED BY <2>1, <2>2 DEF OfCore
<1>7. op \in OfCore => op \notin Spoken
  BY DEF OfCore, Spoken
<1> QED BY <1>1, <1>2, <1>3, <1>5, <1>6, <1>7 DEF Arg

\* What is below the top waits.
LEMMA BelowWaits ==
  ASSUME Typed, Forms, NEW i \in 2..Len(stack)
  PROVE  /\ Waiting(setup, shown, stack[i], i = Len(stack))
         /\ ~At(stack[i], "config")
<1>1. Waiting(setup, shown, stack[i], i = Len(stack)) /\ i \in 1..Len(stack)
  BY TopTyped DEF Forms
<1>2. ASSUME At(stack[i], "config") PROVE FALSE
  <2>1. /\ stack[i].kind = "core" /\ Len(stack[i].todo) >= 1 /\ stack[i].todo[1][1] = "config"
        /\ stack[i].todo \in Steps
    BY <1>1, <1>2, TopTyped DEF At
  <2>2. Waits(setup, shown, stack[i].todo, i = Len(stack))
    BY <1>1, <2>1 DEF Waiting
  <2> QED BY <2>1, <2>2, WaitsHeads
<1> QED BY <1>1, <1>2

\* What a call waits for does not depend on what it points to.
LEMMA SameWaits ==
  ASSUME NEW s, NEW sh, NEW last, NEW gone, NEW c, NEW d, Same(c, d, gone)
  PROVE  /\ Waiting(s, sh, c, last) <=> Waiting(s, sh, d, last)
         /\ \A op : At(c, op) <=> At(d, op)
         /\ Recovers(c) <=> Recovers(d)
         /\ Mild(c) <=> Mild(d)
BY DEF Same, Waiting, Says, At, Recovers, Mild

\* The calls below the top stay as they are.
LEMMA FormsKept ==
  ASSUME Typed, Forms, stack # <<>>, setup' = setup, shown' = shown,
         NEW new, NEW gone, Became(new, gone),
         \A i \in 1..Len(new) :
           \/ Waiting(setup, shown, new[i], i = Len(new) /\ Len(stack) = 1)
           \/ /\ i = 1 /\ new[i].kind = "core"
              /\ Begins(setup, shown, tags', new[i].todo, i = Len(new) /\ Len(stack) = 1)
  PROVE  Forms'
<1>1. Len(stack) \in Nat /\ Len(stack) >= 1 /\ Len(new) \in Nat
      /\ Len(stack') = Len(new) + Len(stack) - 1
  BY TopTyped DEF Became
<1>2. ASSUME NEW i \in 1..Len(stack')
      PROVE  \/ Waiting(setup, shown, stack'[i], i = Len(stack'))
             \/ /\ i = 1 /\ stack'[i].kind = "core"
                /\ Begins(setup, shown, tags', stack'[i].todo, i = Len(stack'))
  <2>1. CASE i <= Len(new)
    <3>1. Same(stack'[i], new[i], gone) /\ i \in 1..Len(new)
      BY <1>1, <2>1 DEF Became
    <3>2. (i = Len(new) /\ Len(stack) = 1) <=> (i = Len(stack'))
      <4>1. i \in Int
        OBVIOUS
      <4> DEFINE m == Len(new)
                 n == Len(stack)
                 l == Len(stack')
      <4>2. m \in Nat /\ n \in Nat /\ n >= 1 /\ l = m + n - 1 /\ i <= m
        BY <1>1, <2>1
      <4> HIDE DEF m, n, l
      <4>3. i = m /\ n = 1 => i = l
        BY <4>1, <4>2
      <4>4. i = l => i = m /\ n = 1
        BY <4>1, <4>2
      <4> QED BY <4>3, <4>4 DEF m, n, l
    <3>3. CASE Waiting(setup, shown, new[i], i = Len(new) /\ Len(stack) = 1)
      BY <3>1, <3>2, <3>3, SameWaits
    <3>4. CASE /\ i = 1 /\ new[i].kind = "core"
               /\ Begins(setup, shown, tags', new[i].todo, i = Len(new) /\ Len(stack) = 1)
      BY <3>1, <3>2, <3>4 DEF Same
    <3> QED BY <3>1, <3>3, <3>4
  <2>2. CASE i > Len(new)
    <3> DEFINE j == i - Len(new) + 1
    <3>1. j \in 2..Len(stack) /\ Same(stack'[i], stack[j], gone) /\ (j = Len(stack) <=> i = Len(stack'))
      BY <1>1, <2>2 DEF Became
    <3>2. Waiting(setup, shown, stack[j], j = Len(stack))
      BY <3>1, BelowWaits
    <3> HIDE DEF j
    <3> QED BY <3>1, <3>2, SameWaits
  <2> QED BY <1>1, <2>1, <2>2
<1> QED BY <1>2 DEF Forms

\* The config file goes on below what is at the top, or at the top.
LEMMA FlagsKept ==
  ASSUME Typed, Forms, Flags, stack # <<>>, NEW new, NEW gone, Became(new, gone),
         \A i \in 1..Len(new) :
           /\ new[i].kind = "config" => i = Len(new) /\ stack[1].kind = "config"
           /\ ~At(new[i], "config"),
         prohibited' \/ \A i \in 1..Len(stack) : stack[i].kind # "config"
  PROVE  Flags'
<1> DEFINE from(i) == i - Len(new) + 1
<1>1. Len(stack) \in Nat /\ Len(stack) >= 1 /\ Len(new) \in Nat
      /\ Len(stack') = Len(new) + Len(stack) - 1
  BY TopTyped DEF Became
<1>2. ASSUME NEW i \in 1..Len(stack')
      PROVE  /\ i \in 1..Len(new) => Same(stack'[i], new[i], gone)
             /\ i \notin 1..Len(new) => /\ from(i) \in 2..Len(stack)
                                        /\ Same(stack'[i], stack[from(i)], gone)
  BY <1>1 DEF Became
<1>3. ASSUME NEW i \in 1..Len(stack'), stack'[i].kind = "config"
      PROVE  /\ from(i) \in 1..Len(stack) /\ stack[from(i)].kind = "config"
             /\ i \in 1..Len(new) => i = Len(new)
  <2>1. CASE i \in 1..Len(new)
    <3>1. new[i].kind = "config"
      BY <1>2, <1>3, <2>1 DEF Same
    <3> QED BY <1>1, <2>1, <3>1
  <2>2. CASE i \notin 1..Len(new)
    BY <1>1, <1>2, <1>3, <2>2 DEF Same
  <2> QED BY <2>1, <2>2
<1>4. ASSUME NEW i \in 1..Len(stack') PROVE ~At(stack'[i], "config")
  <2>1. CASE i \in 1..Len(new)
    <3>1. Same(stack'[i], new[i], gone) /\ ~At(new[i], "config")
      BY <1>2, <2>1
    <3> QED BY <3>1 DEF Same, At
  <2>2. CASE i \notin 1..Len(new)
    <3> DEFINE j == from(i)
    <3>1. j \in 2..Len(stack) /\ Same(stack'[i], stack[j], gone)
      BY <1>2, <2>2
    <3> HIDE DEF j
    <3>2. ~At(stack[j], "config")
      BY <3>1, BelowWaits
    <3> QED BY <3>1, <3>2 DEF Same, At
  <2> QED BY <2>1, <2>2
<1>5. ASSUME NEW i \in 1..Len(stack'), stack'[i].kind = "config"
      PROVE  /\ prohibited' /\ i < Len(stack')
             /\ At(stack'[i + 1], "load_tags") \/ At(stack'[i + 1], "default_layouts")
  <2> DEFINE j == from(i)
  <2>1. j \in 1..Len(stack) /\ stack[j].kind = "config"
    BY <1>3, <1>5
  <2>2. j < Len(stack) /\ (At(stack[j + 1], "load_tags") \/ At(stack[j + 1], "default_layouts"))
    BY <2>1 DEF Flags
  <2>3. prohibited'
    BY <2>1
  <2>4. i < Len(stack') /\ i + 1 \in 1..Len(stack') /\ i + 1 \notin 1..Len(new)
        /\ from(i + 1) = j + 1
    BY <1>1, <1>3, <1>5, <2>1, <2>2
  <2>5. Same(stack'[i + 1], stack[j + 1], gone)
    BY <1>2, <2>4
  <2>6. \A op : At(stack'[i + 1], op) <=> At(stack[j + 1], op)
    BY <2>5 DEF Same, At
  <2> QED BY <2>2, <2>3, <2>4, <2>6
<1>6. ASSUME NEW i \in 1..Len(stack'), NEW j \in 1..Len(stack'),
             stack'[i].kind = "config", stack'[j].kind = "config"
      PROVE  i = j
  <2>1. from(i) = from(j)
    BY <1>3, <1>6 DEF Flags
  <2> QED BY <1>1, <2>1
<1> QED BY <1>4, <1>5, <1>6, Zenon DEF Flags

\* Layouts that stay are pointed to as before.
LEMMA PointsKept ==
  ASSUME NEW s, NEW ts, NEW us, NEW gone,
         \A t \in Tags \ gone : \A i \in 1..Len(ts[t].loaded) :
           \E j \in 1..Len(us[t].loaded) : us[t].loaded[j].name = ts[t].loaded[i].name,
         NEW p \in Pointers(s), Points(ts, p)
  PROVE  Points(us, After(p, gone))
<1> SUFFICES ASSUME p # OfDefault, p # Freed, p[1] \notin gone PROVE Points(us, p)
  BY DEF After, Points
<1>1. p \in Tags \X DOMAIN s.files
  BY DEF Pointers
<1>2. p[1] \in Tags
  BY <1>1
<1>3. PICK i \in 1..Len(ts[p[1]].loaded) : ts[p[1]].loaded[i].name = p[2]
  BY DEF Points
<1>4. \E j \in 1..Len(us[p[1]].loaded) : us[p[1]].loaded[j].name = p[2]
  BY <1>2, <1>3, Zenon
<1> QED BY <1>4 DEF Points

\* Every pointer points to options, or to nothing.
LEMMA PointedKept ==
  ASSUME Typed, Pointed, stack # <<>>, NEW new, NEW gone, Became(new, gone),
         Points(tags', opt'),
         \A i \in 1..Len(new) : Points(tags', After(new[i].ptr, gone)),
         \A t \in Tags \ gone : \A i \in 1..Len(tags[t].loaded) :
           \E j \in 1..Len(tags'[t].loaded) : tags'[t].loaded[j].name = tags[t].loaded[i].name
  PROVE  Pointed'
<1>1. Len(stack) \in Nat /\ Len(stack) >= 1 /\ Len(new) \in Nat
      /\ Len(stack') = Len(new) + Len(stack) - 1
  BY TopTyped DEF Became
<1>2. ASSUME NEW i \in 1..Len(stack') PROVE Points(tags', stack'[i].ptr)
  <2>1. CASE i \in 1..Len(new)
    <3>1. stack'[i].ptr = After(new[i].ptr, gone)
      BY <2>1 DEF Became, Same
    <3> QED BY <2>1, <3>1
  <2>2. CASE i \notin 1..Len(new)
    <3> DEFINE j == i - Len(new) + 1
    <3>1. j \in 1..Len(stack) /\ stack'[i].ptr = After(stack[j].ptr, gone)
      BY <1>1, <2>2 DEF Became, Same
    <3> HIDE DEF j
    <3>2. stack[j].ptr \in Pointers(setup) /\ Points(tags, stack[j].ptr)
      BY <3>1, TopTyped DEF Pointed
    <3>3. Points(tags', After(stack[j].ptr, gone))
      BY <3>2, PointsKept
    <3> QED BY <3>1, <3>3
  <2> QED BY <2>1, <2>2
<1> QED BY <1>2 DEF Pointed

-----------------------------------------------------------------------------
(* What a step has to keep *)

\* The calls that take the place of the top may be there.
Fit(new) ==
  \A i \in 1..Len(new) :
    \/ Waiting(setup, shown, new[i], i = Len(new) /\ Len(stack) = 1)
    \/ /\ i = 1 /\ new[i].kind = "core"
       /\ Begins(setup, shown, tags', new[i].todo, i = Len(new) /\ Len(stack) = 1)

\* The config file does not begin among them.
NoNewConfig(new) ==
  \A i \in 1..Len(new) :
    /\ new[i].kind = "config" => i = Len(new) /\ stack[1].kind = "config"
    /\ ~At(new[i], "config")

\* No config file runs.
NoConfig == \A i \in 1..Len(stack) : stack[i].kind # "config"

\* What a step has to show for the invariant: the types of what it changes, and that the
\* new calls have a form, point to something and begin no config file that runs already.
LEMMA StepKept ==
  ASSUME TInv, stack # <<>>, setup' = setup, shown' = shown,
         NEW new, NEW gone, Became(new, gone),
         opts' \in Options(setup), default' \in DOMAIN setup.files,
         tags' \in [Tags -> Tag(setup)], opt' \in Pointers(setup),
         listeners' \in Seq(DOMAIN setup.scripts), prohibited' \in BOOLEAN,
         error_file' \in BOOLEAN, fault' \in Faults,
         Distinct', Fit(new), Points(tags', opt'),
         Flags' \/ (NoNewConfig(new) /\ (prohibited' \/ NoConfig)),
         \A i \in 1..Len(new) : Points(tags', After(new[i].ptr, gone)),
         \A t \in Tags \ gone : \A i \in 1..Len(tags[t].loaded) :
           \E j \in 1..Len(tags'[t].loaded) : tags'[t].loaded[j].name = tags[t].loaded[i].name,
         OptAgrees'
  PROVE  TInv'
<1>1. Typed /\ Distinct /\ Pointed /\ Forms /\ Flags /\ OptAgrees
  BY DEF TInv
<1>2. Forms'
  BY <1>1, FormsKept DEF Fit
<1>3. Flags'
  BY <1>1, FlagsKept DEF NoNewConfig, NoConfig
<1>4. Pointed'
  BY <1>1, PointedKept
<1>5. Typed'
  <2>1. setup' \in Setups /\ shown' \in Tags /\ stack' \in Seq(CallOf(setup))
    BY <1>1 DEF Typed, Became
  <2> QED BY <2>1 DEF Typed
<1> QED BY <1>2, <1>3, <1>4, <1>5 DEF TInv

\* The tags have the same layouts, in the same order, loaded.
SameLayouts ==
  \A t \in Tags :
    /\ Len(tags'[t].loaded) = Len(tags[t].loaded)
    /\ \A i \in 1..Len(tags[t].loaded) : tags'[t].loaded[i].name = tags[t].loaded[i].name

\* What is loaded is a sequence of layouts.
LEMMA LoadedTyped ==
  ASSUME NEW s, NEW ts \in [Tags -> Tag(s)], NEW t \in Tags
  PROVE  /\ ts[t].loaded \in Seq(Layout(s)) /\ Len(ts[t].loaded) \in Nat
         /\ DOMAIN ts[t].loaded = 1..Len(ts[t].loaded)
         /\ ts[t].loaded = <<>> <=> Len(ts[t].loaded) = 0
         /\ ts[t].name \in DOMAIN s.names /\ ts[t].layout \in DOMAIN s.files
         /\ \A i \in 1..Len(ts[t].loaded) : /\ ts[t].loaded[i] \in Layout(s)
                                             /\ ts[t].loaded[i].name \in DOMAIN s.files
                                             /\ ts[t].loaded[i].options \in Options(s)
<1> DEFINE L == Layout(s)
<1>1. \A l \in L : l.name \in DOMAIN s.files /\ l.options \in Options(s)
  BY DEF Layout
<1> HIDE DEF L
<1>2. ts[t] \in [name : DOMAIN s.names, layout : DOMAIN s.files, loaded : Seq(L)]
  BY DEF Tag, L
<1>3. ts[t].loaded \in Seq(L) /\ ts[t].name \in DOMAIN s.names /\ ts[t].layout \in DOMAIN s.files
  BY <1>2
<1>4. /\ Len(ts[t].loaded) \in Nat /\ DOMAIN ts[t].loaded = 1..Len(ts[t].loaded)
      /\ \A i \in 1..Len(ts[t].loaded) : ts[t].loaded[i] \in L
  BY <1>3
<1>5. ts[t].loaded = <<>> <=> Len(ts[t].loaded) = 0
  BY <1>3, EmptySeq
<1> QED BY <1>1, <1>3, <1>4, <1>5 DEF L

\* The options are there, or the layout of the tag is loaded next.
Recovered(new) ==
  opt \in {OfDefault, Freed} =>
    \/ Len(new) >= 1 /\ (Recovers(new[1]) \/ (opt = OfDefault /\ new[1].kind = "config"))
    \/ Len(new) = 0 /\ Len(stack) >= 2 /\ Recovers(stack[2])

\* Where opt points to stays right when the layouts stay and the call at the top, if it was
\* going to load the layout of the shown tag, still is.
LEMMA OptAgreesKept ==
  ASSUME Typed, OptAgrees, stack # <<>>, setup' = setup, opt' = opt, shown' = shown,
         tags' \in [Tags -> Tag(setup)], SameLayouts,
         NEW new, NEW gone, Became(new, gone), Recovered(new)
  PROVE  OptAgrees'
<1>1. Len(stack) \in Nat /\ Len(stack) >= 1 /\ Len(new) \in Nat /\ shown \in Tags
      /\ Len(stack') = Len(new) + Len(stack) - 1
  BY TopTyped DEF Became, Typed
<1>2. opt' = OfDefault => Bare'
  <2>1. Bare => Bare'
    <3> SUFFICES ASSUME Bare, NEW t \in Tags PROVE tags'[t].loaded = <<>>
      BY DEF Bare
    <3>1. tags[t].loaded = <<>> /\ tags \in [Tags -> Tag(setup)]
      BY DEF Bare, Typed
    <3> QED BY <3>1, LoadedTyped DEF SameLayouts
  <2> QED BY <2>1 DEF OptAgrees
<1>3. ASSUME opt' \in {OfDefault, Freed}
      PROVE  /\ Len(stack') >= 1 /\ tags'[shown'].loaded = <<>>
             /\ Recovers(stack'[1]) \/ (opt' = OfDefault /\ stack'[1].kind = "config")
  <2>1. tags'[shown'].loaded = <<>>
    <3>1. tags[shown].loaded = <<>> /\ tags \in [Tags -> Tag(setup)]
      BY <1>1, <1>3 DEF OptAgrees, Typed
    <3> QED BY <1>1, <3>1, LoadedTyped DEF SameLayouts
  <2>2. CASE Len(new) >= 1 /\ (Recovers(new[1]) \/ (opt = OfDefault /\ new[1].kind = "config"))
    <3>1. Same(stack'[1], new[1], gone) /\ Len(stack') >= 1
      BY <1>1, <2>2 DEF Became
    <3>2. (Recovers(stack'[1]) <=> Recovers(new[1])) /\ stack'[1].kind = new[1].kind
      BY <3>1 DEF Same, Recovers
    <3> QED BY <2>1, <2>2, <3>1, <3>2
  <2>3. CASE Len(new) = 0 /\ Len(stack) >= 2 /\ Recovers(stack[2])
    <3>1. 1 \in (Len(new) + 1)..Len(stack') /\ 1 - Len(new) + 1 = 2 /\ Len(stack') >= 1
      BY <1>1, <2>3
    <3>2. Same(stack'[1], stack[2], gone)
      BY <3>1 DEF Became
    <3>3. Recovers(stack'[1])
      BY <2>3, <3>2 DEF Same, Recovers
    <3> QED BY <2>1, <3>1, <3>3
  <2> QED BY <1>3, <2>2, <2>3 DEF Recovered
<1> QED BY <1>2, <1>3 DEF OptAgrees

\* A step that leaves the layouts alone, and what opt points to.
LEMMA QuietKept ==
  ASSUME TInv, stack # <<>>, setup' = setup, shown' = shown, opt' = opt,
         tags' \in [Tags -> Tag(setup)], SameLayouts,
         opts' \in Options(setup), default' \in DOMAIN setup.files,
         listeners' \in Seq(DOMAIN setup.scripts), prohibited' \in BOOLEAN,
         error_file' \in BOOLEAN, fault' \in Faults,
         NEW new \in Seq(CallOf(setup)), stack' = new \o Tail(stack),
         Fit(new), NoNewConfig(new), prohibited' \/ NoConfig,
         \A i \in 1..Len(new) : Points(tags, new[i].ptr),
         Recovered(new)
  PROVE  TInv' /\ Became(new, {})
<1>1. Typed /\ Distinct /\ Pointed /\ Forms /\ Flags /\ OptAgrees
  BY DEF TInv
<1>2. Became(new, {})
  BY <1>1, BecomesWithout DEF Typed
<1>3. OptAgrees'
  BY <1>1, <1>2, OptAgreesKept
<1>4. \A t \in Tags : /\ 1..Len(tags'[t].loaded) = 1..Len(tags[t].loaded)
                      /\ \A i \in 1..Len(tags[t].loaded) :
                           tags'[t].loaded[i].name = tags[t].loaded[i].name
  BY DEF SameLayouts
<1>5. Distinct'
  BY <1>1, <1>4 DEF Distinct
<1>6. \A p \in Pointers(setup) : Points(tags, p) => Points(tags', p)
  <2> SUFFICES ASSUME NEW p \in Pointers(setup), Points(tags, p), p # OfDefault, p # Freed
               PROVE  Points(tags', p)
    BY DEF Points
  <2>1. p \in Tags \X DOMAIN setup.files
    BY DEF Pointers
  <2>2. p[1] \in Tags
    BY <2>1
  <2> QED BY <1>4, <2>2 DEF Points
<1>7. opt \in Pointers(setup) /\ Points(tags', opt')
  BY <1>1, <1>6 DEF Typed, Pointed
<1>8. \A i \in 1..Len(new) : Points(tags', After(new[i].ptr, {}))
  <2> SUFFICES ASSUME NEW i \in 1..Len(new) PROVE Points(tags', After(new[i].ptr, {}))
    OBVIOUS
  <2>1. new[i].ptr \in Pointers(setup)
    <3> DEFINE S == CallOf(setup)
    <3>1. \A c \in S : c.ptr \in Pointers(setup)
      BY DEF CallOf
    <3> HIDE DEF S
    <3> QED BY <3>1 DEF S
  <2>2. After(new[i].ptr, {}) = new[i].ptr
    BY DEF After
  <2> QED BY <1>6, <2>1, <2>2
<1>9. \A t \in Tags \ {} : \A i \in 1..Len(tags[t].loaded) :
        \E j \in 1..Len(tags'[t].loaded) : tags'[t].loaded[j].name = tags[t].loaded[i].name
  BY <1>4
<1> QED BY <1>2, <1>3, <1>5, <1>7, <1>8, <1>9, StepKept

\* What the top goes on with
Rest(steps) == [Top EXCEPT !.todo = steps \o Tail(@)]

\* The call at the top goes on with other steps instead of the first one.
LEMMA RestTyped ==
  ASSUME Typed, stack # <<>>, Top.todo # <<>>, NEW steps \in Steps
  PROVE  /\ Rest(steps) \in CallOf(setup) /\ Rest(steps).kind = Top.kind
         /\ Rest(steps).todo = steps \o Tail(Top.todo)
         /\ Rest(steps).ptr = Top.ptr /\ Rest(steps).window = Top.window
         /\ Instead(steps) = <<Rest(steps)>> \o Tail(stack)
<1> DEFINE P == Pointers(setup)
           X == (Spoken \cup OfCore) \X Nat
           T == Seq(X)
           t == steps \o Tail(Top.todo)
<1>1. Top \in [kind : Kinds, todo : T, ptr : P, window : Nat]
  BY TopTyped DEF CallOf, Steps
<1>2. Top.todo \in T /\ steps \in T
  BY <1>1 DEF Steps
<1> HIDE DEF P, X
<1>3. Tail(Top.todo) \in T
  BY <1>2
<1>4. t \in T /\ t = steps \o Tail(Top.todo)
  BY <1>2, <1>3
<1>5. Rest(steps) = [Top EXCEPT !.todo = t]
  BY DEF Rest
<1>6. CallOf(setup) = [kind : Kinds, todo : T, ptr : P, window : Nat]
  BY DEF CallOf, Steps, P, X
<1> HIDE DEF t, T
<1>7. /\ Rest(steps) \in CallOf(setup) /\ Rest(steps).kind = Top.kind /\ Rest(steps).todo = t
      /\ Rest(steps).ptr = Top.ptr /\ Rest(steps).window = Top.window
  BY <1>1, <1>4, <1>5, <1>6
<1>8. Instead(steps) = <<Rest(steps)>> \o Tail(stack)
  BY Zenon DEF Instead, Rest
<1> QED BY <1>4, <1>7, <1>8

\* The top is done with its step.
LEMMA DoneIs ==
  ASSUME Typed, stack # <<>>, Top.todo # <<>>
  PROVE  LET rest == Rest(<<>>)
         IN  /\ rest \in CallOf(setup) /\ rest.kind = Top.kind /\ rest.todo = Tail(Top.todo)
             /\ rest.ptr = Top.ptr /\ rest.window = Top.window
             /\ Done = <<rest>> \o Tail(stack)
<1> DEFINE X == (Spoken \cup OfCore) \X Nat
           none == <<>>
<1>1. none \in Steps /\ Top.todo \in Seq(X)
  BY TopTyped DEF Steps
<1> HIDE DEF X
<1>2. none \o Tail(Top.todo) = Tail(Top.todo)
  <2>1. Tail(Top.todo) \in Seq(X)
    BY <1>1
  <2> QED BY <2>1, ConcatEmptySeq
<1>3. Done = Instead(none)
  BY Zenon DEF Done
<1> HIDE DEF none
<1>4. /\ Rest(none) \in CallOf(setup) /\ Rest(none).kind = Top.kind
      /\ Rest(none).todo = none \o Tail(Top.todo)
      /\ Rest(none).ptr = Top.ptr /\ Rest(none).window = Top.window
      /\ Instead(none) = <<Rest(none)>> \o Tail(stack)
  BY <1>1, RestTyped
<1> QED BY <1>2, <1>3, <1>4 DEF none

\* A call on top of the others
LEMMA Pushed ==
  ASSUME Typed, stack # <<>>, NEW c \in CallOf(setup), NEW d \in CallOf(setup)
  PROVE  <<c>> \o (<<d>> \o Tail(stack)) = <<c, d>> \o Tail(stack)
<1> DEFINE S == CallOf(setup)
<1>1. Tail(stack) \in Seq(S) /\ c \in S /\ d \in S
  BY TopTyped
<1> HIDE DEF S
<1> QED BY <1>1, Joined

\* A script goes on with what it has left to say.
LEMMA SaysOn ==
  ASSUME Typed, Forms, NEW op \in Spoken, Ready(op)
  PROVE  LET rest == Rest(<<>>)
         IN  /\ rest \in CallOf(setup) /\ rest.kind # "core" /\ rest.kind = Top.kind
             /\ rest.ptr = Top.ptr /\ Done = <<rest>> \o Tail(stack)
             /\ rest.todo = Tail(Top.todo) /\ Ops(rest.todo) \subseteq Ops(Top.todo)
             /\ Says(setup, rest) /\ \A last : Waiting(setup, shown, rest, last)
<1> DEFINE rest == Rest(<<>>)
<1>1. stack # <<>> /\ Top.todo # <<>> /\ Top.kind # "core" /\ Says(setup, Top)
  BY TopForms
<1>2. /\ rest \in CallOf(setup) /\ rest.kind = Top.kind /\ rest.todo = Tail(Top.todo)
      /\ rest.ptr = Top.ptr /\ Done = <<rest>> \o Tail(stack)
  BY <1>1, DoneIs
<1> HIDE DEF rest
<1>3. Tail(Top.todo) \in Seq(Statements(setup)) /\ Ops(Tail(Top.todo)) \subseteq Ops(Top.todo)
  BY <1>1, OpsOfRest DEF Says
<1>4. Says(setup, rest)
  BY <1>1, <1>2, <1>3 DEF Says
<1> QED BY <1>1, <1>2, <1>3, <1>4 DEF Waiting, rest

-----------------------------------------------------------------------------
(* The steps of scripts *)

\* One call, or two, as a sequence of calls
LEMMA CallsTyped ==
  /\ \A c \in CallOf(setup) :
       <<c>> \in Seq(CallOf(setup)) /\ Len(<<c>>) = 1 /\ <<c>>[1] = c /\ 1..Len(<<c>>) = {1}
  /\ \A c, d \in CallOf(setup) :
       /\ <<c, d>> \in Seq(CallOf(setup)) /\ Len(<<c, d>>) = 2 /\ 1..Len(<<c, d>>) = {1, 2}
       /\ <<c, d>>[1] = c /\ <<c, d>>[2] = d
<1> DEFINE S == CallOf(setup)
<1> HIDE DEF S
<1>1. 1..1 = {1} /\ 1..2 = {1, 2}
  OBVIOUS
<1>2. \A c \in S : <<c>> \in Seq(S) /\ Len(<<c>>) = 1 /\ <<c>>[1] = c
  OBVIOUS
<1>3. \A c, d \in S : /\ <<c, d>> \in Seq(S) /\ Len(<<c, d>>) = 2
                      /\ <<c, d>>[1] = c /\ <<c, d>>[2] = d
  OBVIOUS
<1> QED BY <1>1, <1>2, <1>3 DEF S

\* A call that is made is a call.
LEMMA CallTyped ==
  ASSUME NEW kind \in Kinds, NEW todo \in Steps
  PROVE  /\ Call(kind, todo) \in CallOf(setup) /\ Call(kind, todo).kind = kind
         /\ Call(kind, todo).todo = todo /\ Call(kind, todo).ptr = OfDefault
         /\ Call(kind, todo).window = 0
         /\ \A ts, gone : /\ Points(ts, Call(kind, todo).ptr)
                          /\ Points(ts, After(Call(kind, todo).ptr, gone))
<1> DEFINE P == Pointers(setup)
<1>1. OfDefault \in P
  BY DEF Pointers
<1> HIDE DEF P
<1>2. CallOf(setup) = [kind : Kinds, todo : Steps, ptr : P, window : Nat]
  BY DEF CallOf, P
<1>3. /\ Call(kind, todo) \in CallOf(setup) /\ Call(kind, todo).kind = kind
      /\ Call(kind, todo).todo = todo /\ Call(kind, todo).ptr = OfDefault
      /\ Call(kind, todo).window = 0
  BY <1>1, <1>2 DEF Call
<1> QED BY <1>3 DEF Points, After

\* A script that says something is no call of C, and opt points to options, unless
\* it is the config file.
LEMMA SpokenFacts ==
  ASSUME TInv, NEW op \in Spoken, Ready(op)
  PROVE  /\ opt # Freed /\ (opt = OfDefault => Bare /\ Top.kind = "config")
         /\ prohibited \/ NoConfig
         /\ stack # <<>> /\ stack[1] = Top /\ Top.kind # "core" /\ Top.todo # <<>>
         /\ setup \in Setups /\ Top.todo[1] \in Statements(setup) /\ Top.todo[1][1] = op
         /\ Arg = Top.todo[1][2] /\ Points(tags, Top.ptr)
<1>1. Typed /\ Pointed /\ Forms /\ Flags /\ OptAgrees
  BY DEF TInv
<1>2. /\ stack # <<>> /\ stack[1] = Top /\ Top.kind # "core" /\ Top.todo # <<>> /\ Len(stack) >= 1
      /\ Top.todo[1] \in Statements(setup) /\ Top.todo[1][1] = op /\ Arg = Top.todo[1][2]
  BY <1>1, TopForms
<1>3. opt \in {OfDefault, Freed} => opt = OfDefault /\ Top.kind = "config" /\ Bare
  BY <1>1, <1>2 DEF OptAgrees, Recovers
<1>4. opt # Freed
  BY <1>3 DEF OfDefault, Freed
<1>5. prohibited \/ NoConfig
  BY <1>1 DEF Flags, NoConfig
<1>6. Points(tags, Top.ptr)
  <2>1. 1 \in 1..Len(stack)
    BY <1>1, <1>2, TopTyped
  <2> QED BY <1>1, <1>2, <2>1 DEF Pointed
<1> QED BY <1>1, <1>2, <1>3, <1>4, <1>5, <1>6 DEF Typed

\* A statement that leaves the layouts alone
LEMMA SpokenKept ==
  ASSUME TInv, NEW op \in Spoken, Ready(op), stack' = Done,
         setup' = setup, shown' = shown, opt' = opt,
         tags' \in [Tags -> Tag(setup)], SameLayouts,
         opts' \in Options(setup), default' \in DOMAIN setup.files,
         listeners' \in Seq(DOMAIN setup.scripts),
         prohibited' = prohibited, error_file' = error_file, fault' = fault
  PROVE  TInv'
<1> DEFINE rest == Rest(<<>>)
           new == <<rest>>
<1>1. Typed /\ Forms
  BY DEF TInv
<1>2. /\ rest \in CallOf(setup) /\ rest.kind = Top.kind /\ rest.kind # "core" /\ rest.ptr = Top.ptr
      /\ Done = new \o Tail(stack) /\ \A last : Waiting(setup, shown, rest, last)
  BY <1>1, SaysOn
<1> HIDE DEF rest
<1>3. new \in Seq(CallOf(setup)) /\ Len(new) = 1 /\ new[1] = rest /\ 1..Len(new) = {1}
  BY <1>2, CallsTyped
<1>4. /\ opt # Freed /\ (opt = OfDefault => Top.kind = "config") /\ (prohibited \/ NoConfig)
      /\ stack # <<>> /\ stack[1] = Top /\ Points(tags, Top.ptr)
  BY SpokenFacts
<1> HIDE DEF new
<1>5. Fit(new)
  BY <1>2, <1>3 DEF Fit
<1>6. NoNewConfig(new)
  BY <1>2, <1>3, <1>4 DEF NoNewConfig, At
<1>7. Recovered(new)
  BY <1>2, <1>3, <1>4 DEF Recovered
<1>8. \A i \in 1..Len(new) : Points(tags, new[i].ptr)
  BY <1>2, <1>3, <1>4
<1>9. prohibited' \in BOOLEAN /\ error_file' \in BOOLEAN /\ fault' \in Faults
      /\ (prohibited' \/ NoConfig)
  BY <1>1, <1>4 DEF Typed
<1>10. stack' = new \o Tail(stack)
  BY <1>2
<1> QED BY <1>3, <1>4, <1>5, <1>6, <1>7, <1>8, <1>9, <1>10, QuietKept

\* Tags that are as they were have the same layouts.
LEMMA SameAreSame == (\A t \in Tags : tags'[t].loaded = tags[t].loaded) => SameLayouts
BY DEF SameLayouts

\* lib_set_default_layout changes a name only.
LEMMA SetDefaultLayoutKeeps == TInv /\ SetDefaultLayout => TInv'
<1> SUFFICES ASSUME TInv, SetDefaultLayout PROVE TInv'
  OBVIOUS
<1>1. Ready("default_layout") /\ "default_layout" \in Spoken
  BY DEF SetDefaultLayout, Spoken
<1>2. Arg \in DOMAIN setup.files
  BY <1>1, SpokenFacts, StatementTyped
<1> QED BY <1>1, <1>2, SpokenKept, SameAreSame DEF SetDefaultLayout, TInv, Typed

\* A script adds a function to those called for events.
LEMMA AddListenerKeeps == TInv /\ AddListener => TInv'
<1> SUFFICES ASSUME TInv, AddListener PROVE TInv'
  OBVIOUS
<1>1. Ready("listen") /\ "listen" \in Spoken
  BY DEF AddListener, Spoken
<1>2. Arg \in DOMAIN setup.scripts
  BY <1>1, SpokenFacts, StatementTyped
<1>3. listeners' \in Seq(DOMAIN setup.scripts)
  BY <1>2 DEF AddListener, TInv, Typed
<1> QED BY <1>1, <1>3, SpokenKept, SameAreSame DEF AddListener, TInv, Typed

\* Options that are changed are options, of the same layout.
LEMMA ChangedInTyped ==
  ASSUME NEW lts \in Seq(Layout(setup)), NEW name, NEW op, NEW n,
         \A o \in Options(setup) : Changed(o, op, n) \in Options(setup)
  PROVE  LET c == ChangedIn(lts, name, op, n)
         IN  /\ c \in Seq(Layout(setup)) /\ Len(c) = Len(lts)
             /\ \A i \in 1..Len(lts) :
                  c[i] = IF lts[i].name = name
                         THEN [lts[i] EXCEPT !.options = Changed(lts[i].options, op, n)] ELSE lts[i]
             /\ \A i \in 1..Len(lts) : c[i].name = lts[i].name
<1> DEFINE F == DOMAIN setup.files
           O == Options(setup)
           L == [name : F, options : O]
           m == Len(lts)
           c == ChangedIn(lts, name, op, n)
<1>1. L = Layout(setup)
  BY DEF Layout
<1>2. lts \in Seq(L)
  BY <1>1
<1>3. c = [i \in DOMAIN lts |-> IF lts[i].name = name
             THEN [lts[i] EXCEPT !.options = Changed(lts[i].options, op, n)] ELSE lts[i]]
  BY Zenon DEF ChangedIn
<1> HIDE DEF c, O, F
<1>4. \A o \in O : Changed(o, op, n) \in O
  BY DEF O
<1>5. m \in Nat /\ DOMAIN lts = 1..m /\ \A i \in 1..m : lts[i] \in L
  <2> HIDE DEF L
  <2> QED BY <1>2
<1>6. ASSUME NEW i \in 1..m PROVE c[i] \in L /\ c[i].name = lts[i].name
  <2> DEFINE o == Changed(lts[i].options, op, n)
  <2>1. lts[i] \in L /\ o \in O
    BY <1>4, <1>5
  <2>2. c[i] = IF lts[i].name = name THEN [lts[i] EXCEPT !.options = o] ELSE lts[i]
    BY <1>3, <1>5
  <2> HIDE DEF o
  <2> QED BY <2>1, <2>2
<1> HIDE DEF L, m
<1>7. c \in [1..m -> L]
  BY <1>3, <1>5, <1>6
<1>8. c \in Seq(L) /\ Len(c) = m
  BY <1>5, <1>7
<1>9. \A i \in 1..m : c[i] = IF lts[i].name = name
        THEN [lts[i] EXCEPT !.options = Changed(lts[i].options, op, n)] ELSE lts[i]
  BY <1>3, <1>5
<1> QED BY <1>1, <1>6, <1>8, <1>9 DEF c, m

\* What a statement does to options leaves options.
LEMMA StatementChanges ==
  ASSUME TInv, NEW op \in Spoken, Ready(op)
  PROVE  \A o \in Options(setup) : Changed(o, op, Arg) \in Options(setup)
<1>1. Top.todo[1] \in Statements(setup) /\ Top.todo[1][1] = op /\ Arg = Top.todo[1][2]
      /\ setup \in Setups
  BY SpokenFacts
<1>2. /\ op \in {"gap", "mod", "entry", "fail", "reload"} => Arg \in Nat
      /\ op = "rule" => Arg \in DOMAIN setup.rules
      /\ op = "bind" => Arg \in DOMAIN setup.binds
      /\ op = "names" => Arg \in DOMAIN setup.names
  BY <1>1, StatementTyped
<1> QED BY <1>1, <1>2, ChangedTyped

\* A sequence of layouts in the place of what a tag has loaded
LEMMA LoadedReplaced ==
  ASSUME NEW s, NEW ts \in [Tags -> Tag(s)], NEW k \in Tags, NEW lts \in Seq(Layout(s))
  PROVE  LET us == [ts EXCEPT ![k].loaded = lts]
         IN  /\ us \in [Tags -> Tag(s)]
             /\ \A t \in Tags : /\ us[t].loaded = IF t = k THEN lts ELSE ts[t].loaded
                               /\ us[t].layout = ts[t].layout /\ us[t].name = ts[t].name
<1> DEFINE T == Seq(Layout(s))
           N == DOMAIN s.names
           F == DOMAIN s.files
<1>1. Tag(s) = [name : N, layout : F, loaded : T] /\ lts \in T
  BY DEF Tag
<1> HIDE DEF T, N, F
<1> QED BY <1>1

\* The options of a layout are set.
LEMMA SetOptionKeeps == TInv /\ SetOption => TInv'
<1> SUFFICES ASSUME TInv, NEW op \in Setters, Ready(op),
                    IF opt = Freed THEN Ends("options_freed")
                    ELSE /\ IF opt = OfDefault
                            THEN opts' = Changed(opts, op, Arg) /\ UNCHANGED tags
                            ELSE /\ tags' = [tags EXCEPT ![opt[1]].loaded =
                                                            ChangedIn(@, opt[2], op, Arg)]
                                 /\ UNCHANGED opts
                         /\ stack' = Done
                         /\ UNCHANGED <<setup, default, shown, opt, listeners, prohibited, error_file, fault>>
             PROVE  TInv'
  BY DEF SetOption
<1>1. op \in Spoken
  BY DEF Setters, Spoken
<1>2. opt # Freed
  BY <1>1, SpokenFacts
<1>3. \A o \in Options(setup) : Changed(o, op, Arg) \in Options(setup)
  BY <1>1, StatementChanges
<1>4. CASE opt = OfDefault
  <2>1. opts' \in Options(setup)
    BY <1>2, <1>3, <1>4 DEF TInv, Typed
  <2> QED BY <1>1, <1>2, <1>4, <2>1, SpokenKept, SameAreSame DEF TInv, Typed
<1>5. CASE opt # OfDefault
  <2> DEFINE k == opt[1]
             lts == tags[k].loaded
             set == ChangedIn(lts, opt[2], op, Arg)
  <2>1. tags \in [Tags -> Tag(setup)] /\ k \in Tags
    <3>1. opt \in Tags \X DOMAIN setup.files
      BY <1>2, <1>5 DEF TInv, Typed, Pointers
    <3> QED BY <3>1 DEF TInv, Typed
  <2>2. tags' = [tags EXCEPT ![k].loaded = set] /\ opts' = opts
    BY <1>2, <1>5
  <2> HIDE DEF k
  <2>3. lts \in Seq(Layout(setup)) /\ Len(lts) \in Nat
    BY <2>1, LoadedTyped
  <2> HIDE DEF lts
  <2>4. /\ set \in Seq(Layout(setup)) /\ Len(set) = Len(lts)
        /\ \A i \in 1..Len(lts) : set[i].name = lts[i].name
    BY <1>3, <2>3, ChangedInTyped
  <2> HIDE DEF set
  <2>5. tags' \in [Tags -> Tag(setup)]
        /\ \A t \in Tags : tags'[t].loaded = IF t = k THEN set ELSE tags[t].loaded
    BY <2>1, <2>4, <2>2, LoadedReplaced
  <2>6. SameLayouts
    BY <2>4, <2>5 DEF SameLayouts, lts
  <2>7. opts' \in Options(setup)
    BY <2>2 DEF TInv, Typed
  <2> QED BY <1>1, <1>2, <2>5, <2>6, <2>7, SpokenKept DEF TInv, Typed
<1> QED BY <1>4, <1>5

\* The step that loads the layout of the tag that is shown
LEMMA FocusCall ==
  ASSUME Typed
  PROVE  LET c == Core(<< <<"focus", shown>> >>)
         IN  /\ c \in CallOf(setup) /\ c.kind = "core" /\ c.todo = << <<"focus", shown>> >>
             /\ Recovers(c) /\ ~At(c, "config") /\ \A last : Waiting(setup, shown, c, last)
             /\ \A ts, gone : Points(ts, c.ptr) /\ Points(ts, After(c.ptr, gone))
<1> DEFINE todo == << <<"focus", shown>> >>
           c == Core(todo)
<1>1. shown \in Nat
  BY TagsAssumption DEF Typed
<1>2. todo \in Steps
  BY <1>1 DEF Steps, OfCore
<1>3. /\ c \in CallOf(setup) /\ c.kind = "core" /\ c.todo = todo
      /\ \A ts, gone : Points(ts, c.ptr) /\ Points(ts, After(c.ptr, gone))
  <2> HIDE DEF todo
  <2>1. "core" \in Kinds
    BY DEF Kinds
  <2> QED BY <1>2, <2>1, CallTyped DEF Core
<1>4. Len(todo) = 1 /\ todo[1] = <<"focus", shown>> /\ Tail(todo) = <<>>
  OBVIOUS
<1> HIDE DEF todo, c
<1>5. \A last : Waits(setup, shown, todo, last)
  BY <1>4 DEF Waits, Follows
<1>6. Recovers(c) /\ ~At(c, "config") /\ \A last : Waiting(setup, shown, c, last)
  BY <1>3, <1>4, <1>5 DEF Recovers, At, Waiting
<1> QED BY <1>3, <1>6 DEF c, todo

\* A layout is chosen and waits to be loaded.
LEMMA LoadKeeps == TInv /\ Load => TInv'
<1> SUFFICES ASSUME TInv, Load PROVE TInv'
  OBVIOUS
<1> DEFINE rest == Rest(<<>>)
           c == Core(<< <<"focus", shown>> >>)
           new == <<c, rest>>
<1>1. Ready("load") /\ "load" \in Spoken /\ Typed /\ Forms /\ stack # <<>>
  BY TopForms DEF Load, TInv, Spoken
<1>2. /\ rest \in CallOf(setup) /\ rest.kind = Top.kind /\ rest.kind # "core" /\ rest.ptr = Top.ptr
      /\ Done = <<rest>> \o Tail(stack) /\ \A last : Waiting(setup, shown, rest, last)
  BY <1>1, SaysOn
<1>3. /\ c \in CallOf(setup) /\ c.kind = "core" /\ Recovers(c) /\ ~At(c, "config")
      /\ \A last : Waiting(setup, shown, c, last)
      /\ \A ts : Points(ts, c.ptr)
  BY <1>1, FocusCall
<1>4. Arg \in DOMAIN setup.files /\ Points(tags, Top.ptr) /\ stack[1] = Top
      /\ (prohibited \/ NoConfig)
  BY <1>1, SpokenFacts, StatementTyped
<1>5. stack' = <<c>> \o (<<rest>> \o Tail(stack))
  <2>1. stack' = <<c>> \o Done
    BY Zenon DEF Load
  <2> QED BY <1>2, <2>1
<1> HIDE DEF c, rest
<1>6. stack' = new \o Tail(stack)
  BY <1>1, <1>2, <1>3, <1>5, Pushed
<1>7. /\ new \in Seq(CallOf(setup)) /\ Len(new) = 2 /\ new[1] = c /\ new[2] = rest
      /\ 1..Len(new) = {1, 2}
  BY <1>2, <1>3, CallsTyped
<1> HIDE DEF new
<1>8. Fit(new) /\ NoNewConfig(new) /\ Recovered(new)
  <2>1. Fit(new)
    BY <1>2, <1>3, <1>7 DEF Fit
  <2>2. NoNewConfig(new)
    BY <1>2, <1>3, <1>4, <1>7 DEF NoNewConfig, At
  <2>3. Recovered(new)
    BY <1>3, <1>7 DEF Recovered
  <2> QED BY <2>1, <2>2, <2>3
<1>9. \A i \in 1..Len(new) : Points(tags, new[i].ptr)
  BY <1>2, <1>3, <1>4, <1>7
<1>10. tags' \in [Tags -> Tag(setup)] /\ SameLayouts
  <2> DEFINE T == Seq(Layout(setup))
             N == DOMAIN setup.names
             F == DOMAIN setup.files
  <2>1. Tag(setup) = [name : N, layout : F, loaded : T] /\ Arg \in F /\ shown \in Tags
    BY <1>4 DEF Tag, TInv, Typed
  <2>2. tags \in [Tags -> Tag(setup)] /\ tags' = [tags EXCEPT ![shown].layout = Arg]
    BY DEF TInv, Typed, Load
  <2> HIDE DEF T, N, F
  <2>3. tags' \in [Tags -> Tag(setup)] /\ \A t \in Tags : tags'[t].loaded = tags[t].loaded
    BY <2>1, <2>2
  <2> QED BY <2>3, SameAreSame
<1> QED BY <1>1, <1>4, <1>6, <1>7, <1>8, <1>9, <1>10, QuietKept DEF Load, TInv, Typed

-----------------------------------------------------------------------------
(* Layouts that are removed *)

\* The tags of gone have no layouts any more, the others have theirs.
Cleared(gone) ==
  \A t \in Tags :
    /\ t \in gone => tags'[t].loaded = <<>>
    /\ t \notin gone =>
         /\ Len(tags'[t].loaded) = Len(tags[t].loaded)
         /\ \A i \in 1..Len(tags[t].loaded) : tags'[t].loaded[i].name = tags[t].loaded[i].name

\* What a step that frees layouts has to show: opt and the pointers of the calls that pointed
\* to one of them are freed, and opt is only when the layout of the shown tag is loaded next.
LEMMA FreedKept ==
  ASSUME TInv, stack # <<>>, setup' = setup, shown' = shown, NEW gone,
         tags' \in [Tags -> Tag(setup)], Cleared(gone),
         opts' \in Options(setup), default' \in DOMAIN setup.files,
         listeners' \in Seq(DOMAIN setup.scripts), prohibited' \in BOOLEAN,
         error_file' \in BOOLEAN, fault' \in Faults,
         NEW new \in Seq(CallOf(setup)), RemoveLayouts(gone, new \o Tail(stack)),
         Fit(new), Flags' \/ (NoNewConfig(new) /\ (prohibited' \/ NoConfig)),
         \A i \in 1..Len(new) : Points(tags, new[i].ptr),
         opt # OfDefault /\ opt # Freed /\ opt[1] \in gone => tags'[shown].loaded = <<>>,
         After(opt, gone) \in {OfDefault, Freed} =>
           Len(new) >= 1 /\ (Recovers(new[1]) \/ (opt = OfDefault /\ new[1].kind = "config"))
  PROVE  TInv' /\ Became(new, gone) /\ opt' = After(opt, gone)
<1>1. Typed /\ Distinct /\ Pointed /\ Forms /\ Flags /\ OptAgrees
  BY DEF TInv
<1>2. Became(new, gone) /\ opt' = After(opt, gone)
  BY <1>1, BecomesFreed DEF Typed
<1>3. ASSUME NEW t \in Tags, t \notin gone
      PROVE  /\ 1..Len(tags'[t].loaded) = 1..Len(tags[t].loaded)
             /\ \A i \in 1..Len(tags[t].loaded) :
                  tags'[t].loaded[i].name = tags[t].loaded[i].name
  BY <1>3 DEF Cleared
<1>4. ASSUME NEW t \in Tags, t \in gone \/ tags[t].loaded = <<>> PROVE tags'[t].loaded = <<>>
  <2>1. CASE t \in gone
    BY <2>1 DEF Cleared
  <2>2. CASE t \notin gone /\ tags[t].loaded = <<>>
    <3>1. Len(tags'[t].loaded) = 0
      BY <2>2 DEF Cleared
    <3> QED BY <3>1, LoadedTyped
  <2> QED BY <1>4, <2>1, <2>2
<1>5. Distinct'
  <2> SUFFICES ASSUME NEW t \in Tags, NEW i \in 1..Len(tags'[t].loaded),
                      NEW j \in 1..Len(tags'[t].loaded),
                      tags'[t].loaded[i].name = tags'[t].loaded[j].name
               PROVE  i = j
    BY DEF Distinct
  <2>1. t \notin gone
    <3>1. Len(<<>>) = 0
      OBVIOUS
    <3> QED BY <1>4, <3>1
  <2> QED BY <1>1, <1>3, <2>1 DEF Distinct
<1>6. \A t \in Tags \ gone : \A i \in 1..Len(tags[t].loaded) :
        \E j \in 1..Len(tags'[t].loaded) : tags'[t].loaded[j].name = tags[t].loaded[i].name
  BY <1>3
<1>7. \A p \in Pointers(setup) : Points(tags, p) => Points(tags', After(p, gone))
  BY <1>6, PointsKept
<1>8. opt \in Pointers(setup) /\ Points(tags, opt)
  BY <1>1 DEF Typed, Pointed
<1>9. opt' \in Pointers(setup) /\ Points(tags', opt')
  BY <1>2, <1>7, <1>8, AfterTyped
<1>10. \A i \in 1..Len(new) : Points(tags', After(new[i].ptr, gone))
  <2> DEFINE S == CallOf(setup)
  <2>1. \A c \in S : c.ptr \in Pointers(setup)
    BY DEF CallOf
  <2>2. new \in Seq(S)
    OBVIOUS
  <2> HIDE DEF S
  <2>3. \A i \in 1..Len(new) : new[i].ptr \in Pointers(setup)
    BY <2>1, <2>2
  <2> QED BY <1>7, <2>3
<1>11. OptAgrees'
  <2>1. opt' = OfDefault => opt = OfDefault
    BY <1>2 DEF After, OfDefault, Freed
  <2>2. opt' = OfDefault => Bare'
    BY <1>1, <1>4, <2>1 DEF OptAgrees, Bare
  <2>3. ASSUME opt' \in {OfDefault, Freed}
        PROVE  /\ Len(stack') >= 1 /\ tags'[shown'].loaded = <<>>
               /\ Recovers(stack'[1]) \/ (opt' = OfDefault /\ stack'[1].kind = "config")
    <3>1. Len(new) >= 1 /\ (Recovers(new[1]) \/ (opt = OfDefault /\ new[1].kind = "config"))
      BY <1>2, <2>3
    <3>2. Same(stack'[1], new[1], gone) /\ Len(stack') >= 1
      <4>1. Len(stack) \in Nat /\ Len(stack) >= 1 /\ Len(new) \in Nat
            /\ Len(stack') = Len(new) + Len(stack) - 1
        BY <1>1, <1>2, TopTyped DEF Became
      <4> QED BY <1>2, <3>1, <4>1 DEF Became
    <3>3. (Recovers(stack'[1]) <=> Recovers(new[1])) /\ stack'[1].kind = new[1].kind
      BY <3>2 DEF Same, Recovers
    <3>4. opt = OfDefault => opt' = OfDefault
      BY <1>2 DEF After
    <3>5. tags'[shown].loaded = <<>>
      <4>1. CASE opt \in {OfDefault, Freed}
        BY <1>1, <1>4, <4>1 DEF OptAgrees, Typed
      <4>2. CASE opt \notin {OfDefault, Freed}
        BY <1>2, <2>3, <4>2 DEF After
      <4> QED BY <4>1, <4>2
    <3> QED BY <3>1, <3>2, <3>3, <3>4, <3>5
  <2> QED BY <2>2, <2>3 DEF OptAgrees
<1> QED BY <1>2, <1>5, <1>6, <1>9, <1>10, <1>11, StepKept

\* What ends the program changes nothing else.
LEMMA EndsKeeps == ASSUME TInv, NEW reason \in Faults, Ends(reason) PROVE TInv'
<1>1. UNCHANGED <<setup, opts, default, tags, shown, opt, listeners, prohibited, error_file, stack>>
      /\ fault' \in Faults
  BY DEF Ends
<1>2. Typed'
  BY <1>1 DEF TInv, Typed
<1>3. Distinct' /\ Pointed'
  BY <1>1 DEF TInv, Distinct, Pointed
<1>4. Forms'
  BY <1>1 DEF TInv, Forms
<1>5. Bare' = Bare
  BY <1>1 DEF Bare
<1>6. Flags'
  BY <1>1, <1>5 DEF TInv, Flags
<1>7. OptAgrees'
  BY <1>1, <1>5 DEF TInv, OptAgrees
<1> QED BY <1>2, <1>3, <1>4, <1>6, <1>7 DEF TInv

\* A tag with another name, layout and layouts is a tag.
LEMMA TagTyped ==
  ASSUME NEW s, NEW n \in DOMAIN s.names, NEW l \in DOMAIN s.files
  PROVE  /\ [name |-> n, layout |-> l, loaded |-> <<>>] \in Tag(s)
         /\ \A t \in Tag(s) : /\ [t EXCEPT !.loaded = <<>>] \in Tag(s)
                              /\ [t EXCEPT !.loaded = <<>>].loaded = <<>>
                              /\ [t EXCEPT !.layout = l] \in Tag(s)
                              /\ [t EXCEPT !.layout = l].loaded = t.loaded
                              /\ [t EXCEPT !.name = n] \in Tag(s)
                              /\ [t EXCEPT !.name = n].loaded = t.loaded
<1> DEFINE T == Seq(Layout(s))
           N == DOMAIN s.names
           F == DOMAIN s.files
           none == <<>>
<1>1. Tag(s) = [name : N, layout : F, loaded : T] /\ none \in T /\ n \in N /\ l \in F
  BY DEF Tag
<1> HIDE DEF T, N, F, none
<1>2. [name |-> n, layout |-> l, loaded |-> none] \in Tag(s)
  BY <1>1
<1>3. ASSUME NEW t \in Tag(s)
      PROVE  /\ [t EXCEPT !.loaded = none] \in Tag(s)
             /\ [t EXCEPT !.loaded = none].loaded = none
             /\ [t EXCEPT !.layout = l] \in Tag(s)
             /\ [t EXCEPT !.layout = l].loaded = t.loaded
             /\ [t EXCEPT !.name = n] \in Tag(s)
             /\ [t EXCEPT !.name = n].loaded = t.loaded
  BY <1>1
<1> QED BY <1>2, <1>3 DEF none

\* The tags of a list get its names, the default layout, and no loaded one.
LEMMA RenamedTyped ==
  ASSUME Typed, NEW n \in DOMAIN setup.names
  PROVE  /\ Renamed(n) \in [Tags -> Tag(setup)]
         /\ \A t \in Listed(n) : t \in Tags /\ Renamed(n)[t].loaded = <<>>
         /\ \A t \in Tags \ Listed(n) : Renamed(n)[t] = tags[t]
         /\ \A t \in Listed(n) : Renamed(n)[t].layout = default
<1> DEFINE new == [name |-> n, layout |-> default, loaded |-> <<>>]
<1>1. Renamed(n) = [t \in Tags |-> IF t >= setup.names[n] THEN tags[t] ELSE new]
  BY Zenon DEF Renamed
<1>2. new \in Tag(setup) /\ new.loaded = <<>> /\ new.layout = default
  BY TagTyped DEF Typed
<1>3. tags \in [Tags -> Tag(setup)] /\ Tags \subseteq Nat /\ setup.names[n] \in Nat
  BY TagsAssumption, SetupFacts DEF Typed
<1> HIDE DEF new
<1>4. \A t \in Tags : t \in Listed(n) <=> ~(t >= setup.names[n])
  BY <1>3 DEF Listed
<1>5. \A t \in Listed(n) : t \in Tags
  BY DEF Listed
<1> QED BY <1>1, <1>2, <1>3, <1>4, <1>5

\* The defaults leave no loaded layout.
LEMMA DefaultsAreBare ==
  ASSUME Typed, NEW calls, LoadDefaults(calls)
  PROVE  tags' \in [Tags -> Tag(setup)] /\ \A t \in Tags : tags'[t].loaded = <<>>
<1>0. 0 \in DOMAIN setup.files /\ DefaultNames \in DOMAIN setup.names
  BY SetupFacts DEF Typed
<1> DEFINE r == Renamed(DefaultNames)
<1>1. tags' = [t \in Tags |-> [r[t] EXCEPT !.loaded = <<>>,
                 !.layout = IF t \in Listed(DefaultNames) THEN 0 ELSE @]]
  BY Zenon DEF LoadDefaults
<1>2. r \in [Tags -> Tag(setup)]
  BY <1>0, RenamedTyped
<1> HIDE DEF r
<1>3. ASSUME NEW t \in Tags PROVE tags'[t] \in Tag(setup) /\ tags'[t].loaded = <<>>
  <2> DEFINE l == IF t \in Listed(DefaultNames) THEN 0 ELSE r[t].layout
             T == Seq(Layout(setup))
             N == DOMAIN setup.names
             F == DOMAIN setup.files
             none == <<>>
  <2>1. Tag(setup) = [name : N, layout : F, loaded : T] /\ none \in T /\ 0 \in F
    BY <1>0 DEF Tag
  <2>2. r[t] \in Tag(setup)
    BY <1>2
  <2>3. tags'[t] = [r[t] EXCEPT !.loaded = none, !.layout = l]
    BY <1>1
  <2> HIDE DEF T, N, F, none
  <2>4. l \in F
    BY <2>1, <2>2
  <2> HIDE DEF l
  <2>5. \A o \in [name : N, layout : F, loaded : T] :
          LET p == [o EXCEPT !.loaded = none, !.layout = l]
          IN  p \in [name : N, layout : F, loaded : T] /\ p.loaded = none
    BY <2>1, <2>4
  <2>6. tags'[t] \in Tag(setup) /\ tags'[t].loaded = none
    BY <2>1, <2>2, <2>3, <2>5
  <2> QED BY <2>6 DEF none
<1>4. tags' \in [Tags -> Tag(setup)]
  BY <1>1, <1>3
<1> QED BY <1>3, <1>4

\* The defaults are loaded and what was loaded is gone.
LEMMA LoadDefaultsKeeps ==
  ASSUME TInv, stack # <<>>, LoadDefaults(Tail(stack)),
         UNCHANGED <<setup, shown, listeners, prohibited, error_file, fault>>,
         prohibited \/ NoConfig
  PROVE  TInv'
<1> DEFINE c == Core(<< <<"focus", shown>> >>)
           new == <<c>>
<1>1. Typed
  BY DEF TInv
<1>2. /\ c \in CallOf(setup) /\ c.kind = "core" /\ Recovers(c) /\ ~At(c, "config")
      /\ \A last : Waiting(setup, shown, c, last)
      /\ \A ts : Points(ts, c.ptr)
  BY <1>1, FocusCall
<1>3. RemoveLayouts(Tags, new \o Tail(stack))
  BY DEF LoadDefaults
<1>4. opts' \in Options(setup)
  BY <1>1, ResetTyped DEF LoadDefaults, Typed
<1>5. default' \in DOMAIN setup.files /\ 0 \in DOMAIN setup.files /\ DefaultNames \in DOMAIN setup.names
  <2>1. 0 \in DOMAIN setup.files /\ DefaultNames \in DOMAIN setup.names
    BY <1>1, SetupFacts DEF Typed
  <2> QED BY <2>1 DEF LoadDefaults
<1>6. tags' \in [Tags -> Tag(setup)] /\ \A t \in Tags : tags'[t].loaded = <<>>
  BY <1>1, DefaultsAreBare
<1>7. Cleared(Tags)
  BY <1>6 DEF Cleared
<1> HIDE DEF c
<1>8. new \in Seq(CallOf(setup)) /\ Len(new) = 1 /\ new[1] = c /\ 1..Len(new) = {1}
  BY <1>2, CallsTyped
<1> HIDE DEF new
<1>9. Fit(new) /\ NoNewConfig(new) /\ \A i \in 1..Len(new) : Points(tags, new[i].ptr)
  <2>1. Fit(new)
    BY <1>2, <1>8 DEF Fit
  <2>2. NoNewConfig(new)
    BY <1>2, <1>8 DEF NoNewConfig
  <2> QED BY <1>2, <1>8, <2>1, <2>2
<1>10. shown \in Tags /\ listeners' \in Seq(DOMAIN setup.scripts) /\ prohibited' \in BOOLEAN
       /\ error_file' \in BOOLEAN /\ fault' \in Faults
  BY <1>1 DEF Typed
<1> QED BY <1>2, <1>3, <1>4, <1>5, <1>6, <1>7, <1>8, <1>9, <1>10, FreedKept

\* The call at the top is gone.
LEMMA PoppedKeeps ==
  ASSUME TInv, stack # <<>>, stack' = Tail(stack),
         UNCHANGED <<setup, opts, default, tags, shown, opt, listeners, prohibited, error_file, fault>>,
         prohibited \/ NoConfig, Recovered(<<>>)
  PROVE  TInv'
<1> DEFINE new == <<>>
           S == CallOf(setup)
<1>1. new \in Seq(S) /\ Len(new) = 0 /\ 1..Len(new) = {}
  OBVIOUS
<1>2. stack' = new \o Tail(stack)
  <2>1. Tail(stack) \in Seq(S)
    BY TopTyped DEF TInv
  <2> HIDE DEF S
  <2> QED BY <2>1, ConcatEmptySeq
<1>3. Recovered(new)
  OBVIOUS
<1> HIDE DEF new
<1>4. Fit(new) /\ NoNewConfig(new) /\ \A i \in 1..Len(new) : Points(tags, new[i].ptr)
  BY <1>1 DEF Fit, NoNewConfig
<1>5. SameLayouts
  BY SameAreSame
<1> QED BY <1>1, <1>2, <1>3, <1>4, <1>5, QuietKept DEF TInv, Typed

\* A script ends with an error.
LEMMA ErrorKeeps ==
  ASSUME TInv, NEW op \in Spoken, Ready(op), Error,
         UNCHANGED <<setup, shown, listeners, prohibited, error_file, fault>>
  PROVE  TInv'
<1>1. /\ stack # <<>> /\ (prohibited \/ NoConfig) /\ opt # Freed
      /\ (opt = OfDefault => Top.kind = "config")
  BY SpokenFacts
<1>2. CASE Top.kind = "command"
  <2>1. stack' = Tail(stack) /\ UNCHANGED <<opts, default, tags, opt>>
    BY <1>2 DEF Error
  <2>2. Recovered(<<>>)
    BY <1>1, <1>2 DEF Recovered
  <2> QED BY <1>1, <2>1, <2>2, PoppedKeeps
<1>3. CASE Top.kind # "command"
  BY <1>1, <1>3, LoadDefaultsKeeps DEF Error
<1> QED BY <1>2, <1>3

\* An error in a script ends the calls above the last protected one.
LEMMA FailKeeps == TInv /\ Fail => TInv'
<1>1. "fail" \in Spoken
  BY DEF Spoken
<1> QED BY <1>1, ErrorKeeps DEF Fail

\* No config file runs, and none is begun.
LEMMA NoConfigKept ==
  ASSUME Typed, NoConfig, stack # <<>>, NEW new, NEW gone, Became(new, gone),
         \A i \in 1..Len(new) : new[i].kind # "config"
  PROVE  NoConfig'
<1>1. Len(stack) \in Nat /\ Len(stack) >= 1 /\ Len(new) \in Nat
      /\ Len(stack') = Len(new) + Len(stack) - 1
  BY TopTyped DEF Became
<1>2. ASSUME NEW i \in 1..Len(stack') PROVE stack'[i].kind # "config"
  <2>1. CASE i \in 1..Len(new)
    BY <2>1 DEF Became, Same
  <2>2. CASE i \notin 1..Len(new)
    <3> DEFINE j == i - Len(new) + 1
    <3>1. j \in 1..Len(stack) /\ stack'[i].kind = stack[j].kind
      BY <1>1, <2>2 DEF Became, Same
    <3> HIDE DEF j
    <3> QED BY <3>1 DEF NoConfig
  <2> QED BY <2>1, <2>2
<1> QED BY <1>2 DEF NoConfig

\* The configuration is read again.
LEMMA ReloadKeeps == TInv /\ Reload => TInv'
<1> SUFFICES ASSUME TInv, Reload PROVE TInv'
  OBVIOUS
<1>1. Ready("reload") /\ "reload" \in Spoken /\ Typed /\ Forms /\ stack # <<>>
  BY TopForms DEF Reload, TInv, Spoken
<1>2. CASE prohibited
  <2>1. Error /\ UNCHANGED <<setup, shown, listeners, prohibited, error_file, fault>>
    BY <1>2 DEF Reload
  <2> QED BY <1>1, <2>1, ErrorKeeps
<1>3. CASE ~prohibited /\ ~error_file
  <2>1. Ends("no_error_file") /\ "no_error_file" \in Faults
    BY <1>3 DEF Reload, Faults
  <2> QED BY <2>1, EndsKeeps
<1>4. CASE ~prohibited /\ error_file
  <2> DEFINE rest == Rest(<<>>)
             todo == RestOfReload
             c == Core(todo)
             new == <<c, rest>>
  <2>1. /\ prohibited' = TRUE /\ error_file' \in BOOLEAN /\ opts' = Reset(opts)
        /\ tags' = [t \in Tags |-> [tags[t] EXCEPT !.loaded = <<>>]]
        /\ RemoveLayouts(Tags, <<c>> \o Done)
        /\ UNCHANGED <<setup, default, shown, listeners, fault>>
    BY <1>4 DEF Reload
  <2>2. /\ rest \in CallOf(setup) /\ rest.kind = Top.kind /\ rest.kind # "core" /\ rest.ptr = Top.ptr
        /\ Done = <<rest>> \o Tail(stack) /\ \A last : Waiting(setup, shown, rest, last)
    BY <1>1, SaysOn
  <2>3. todo \in Steps /\ Len(todo) = 4 /\ todo[1] = <<"config", 0>>
        /\ \A s, ts, last : Begins(s, shown, ts, todo, last)
    <3>1. shown \in Nat
      BY <1>1, TagsAssumption DEF Typed
    <3>2. todo = << <<"config", 0>>, <<"default_layouts", 0>>, <<"focus", shown>>, <<"tags", 0>> >>
      BY Zenon DEF RestOfReload
    <3>3. todo \in Steps
      BY <3>1, <3>2 DEF Steps, OfCore
    <3> QED BY <3>2, <3>3 DEF Begins
  <2>4. /\ c \in CallOf(setup) /\ c.kind = "core" /\ c.todo = todo
        /\ \A ts : Points(ts, c.ptr)
    <3> HIDE DEF todo
    <3>1. "core" \in Kinds
      BY DEF Kinds
    <3> QED BY <2>3, <3>1, CallTyped DEF Core
  <2> HIDE DEF todo, c, rest
  <2>5. RemoveLayouts(Tags, new \o Tail(stack))
    <3>1. <<c>> \o Done = new \o Tail(stack)
      BY <1>1, <2>2, <2>4, Pushed
    <3> QED BY <2>1, <3>1
  <2>6. /\ new \in Seq(CallOf(setup)) /\ Len(new) = 2 /\ new[1] = c /\ new[2] = rest
        /\ 1..Len(new) = {1, 2}
    BY <2>2, <2>4, CallsTyped
  <2> HIDE DEF new
  <2>7. tags' \in [Tags -> Tag(setup)] /\ \A t \in Tags : tags'[t].loaded = <<>>
    <3>1. 0 \in DOMAIN setup.names /\ 0 \in DOMAIN setup.files
      BY <1>1, SetupFacts DEF Typed
    <3>2. \A t \in Tag(setup) : [t EXCEPT !.loaded = <<>>] \in Tag(setup)
                                /\ [t EXCEPT !.loaded = <<>>].loaded = <<>>
      BY <3>1, TagTyped
    <3>3. tags \in [Tags -> Tag(setup)]
      BY <1>1 DEF Typed
    <3> DEFINE us == [t \in Tags |-> [tags[t] EXCEPT !.loaded = <<>>]]
    <3>4. us \in [Tags -> Tag(setup)] /\ \A t \in Tags : us[t].loaded = <<>>
      BY <3>2, <3>3
    <3>5. tags' = us
      BY <2>1, Zenon
    <3> HIDE DEF us
    <3> QED BY <3>4, <3>5
  <2>8. Cleared(Tags)
    BY <2>7 DEF Cleared
  <2>9. Fit(new) /\ Recovers(new[1])
    <3>1. Fit(new)
      BY <2>2, <2>3, <2>4, <2>6 DEF Fit
    <3> QED BY <2>3, <2>4, <2>6, <3>1 DEF Recovers
  <2>10. \A i \in 1..Len(new) : Points(tags, new[i].ptr)
    BY <1>1, <2>2, <2>4, <2>6, SpokenFacts
  <2>11. opts' \in Options(setup) /\ default' \in DOMAIN setup.files /\ shown \in Tags
         /\ listeners' \in Seq(DOMAIN setup.scripts) /\ fault' \in Faults
    BY <1>1, <2>1, ResetTyped DEF Typed
  <2>12. Flags'
    <3>1. NoConfig /\ stack[1] = Top
      BY <1>1, <1>4, SpokenFacts
    <3>2. Became(new, Tags)
      BY <1>1, <2>5, <2>6, BecomesFreed DEF Typed
    <3>3. 1 \in 1..Len(stack)
      BY <1>1, TopTyped
    <3>4. \A i \in 1..Len(new) : new[i].kind # "config"
      BY <2>2, <2>4, <2>6, <3>1, <3>3 DEF NoConfig
    <3>5. NoConfig'
      BY <1>1, <3>1, <3>2, <3>4, NoConfigKept
    <3>6. Bare'
      BY <2>7 DEF Bare
    <3> QED BY <2>1, <3>5, <3>6 DEF Flags, NoConfig
  <2>13. /\ opt # OfDefault /\ opt # Freed /\ opt[1] \in Tags => tags'[shown].loaded = <<>>
         /\ After(opt, Tags) \in {OfDefault, Freed} =>
              Len(new) >= 1 /\ (Recovers(new[1]) \/ (opt = OfDefault /\ new[1].kind = "config"))
    BY <2>6, <2>7, <2>9, <2>11
  <2>14. setup' = setup /\ shown' = shown /\ prohibited' \in BOOLEAN /\ error_file' \in BOOLEAN
    BY <2>1
  <2> QED BY <1>1, <2>5, <2>6, <2>7, <2>8, <2>9, <2>10, <2>11, <2>12, <2>13, <2>14, FreedKept
<1> QED BY <1>2, <1>3, <1>4

\* The tags are named anew, and lose their layouts.
LEMMA SetNamesKeeps == TInv /\ SetNames => TInv'
<1> SUFFICES ASSUME TInv, SetNames PROVE TInv'
  OBVIOUS
<1>1. Ready("names") /\ "names" \in Spoken /\ Typed /\ Forms /\ stack # <<>>
  BY TopForms DEF SetNames, TInv, Spoken
<1>2. /\ opt # Freed /\ (opt = OfDefault => Top.kind = "config") /\ (prohibited \/ NoConfig)
      /\ stack[1] = Top /\ Arg \in DOMAIN setup.names /\ Points(tags, Top.ptr) /\ setup \in Setups
  BY <1>1, SpokenFacts, StatementTyped
<1>3. CASE opt # OfDefault /\ opt[1] \in Listed(Arg)
  <2>1. Ends("names_freed") /\ "names_freed" \in Faults
    BY <1>2, <1>3 DEF SetNames, Faults
  <2> QED BY <2>1, EndsKeeps
<1>4. CASE opt = OfDefault \/ opt[1] \notin Listed(Arg)
  <2> DEFINE rest == Rest(<<>>)
             new == <<rest>>
             gone == Listed(Arg)
             k == opt[1]
             lts == tags[k].loaded
             set == ChangedIn(lts, opt[2], "names", Arg)
  <2>1. /\ opts' = IF opt = OfDefault THEN Changed(opts, "names", Arg) ELSE opts
        /\ tags' = [t \in Tags |-> IF opt # OfDefault /\ t = k
                      THEN [tags[t] EXCEPT !.loaded = ChangedIn(@, opt[2], "names", Arg)]
                      ELSE Renamed(Arg)[t]]
        /\ RemoveLayouts(Listed(Arg), Done)
        /\ UNCHANGED <<setup, default, shown, listeners, prohibited, error_file, fault>>
    BY <1>2, <1>4 DEF SetNames
  <2>2. /\ rest \in CallOf(setup) /\ rest.kind = Top.kind /\ rest.kind # "core" /\ rest.ptr = Top.ptr
        /\ Done = new \o Tail(stack) /\ \A last : Waiting(setup, shown, rest, last)
    BY <1>1, SaysOn
  <2> HIDE DEF rest
  <2>3. new \in Seq(CallOf(setup)) /\ Len(new) = 1 /\ new[1] = rest /\ 1..Len(new) = {1}
    BY <2>2, CallsTyped
  <2>4. RemoveLayouts(gone, new \o Tail(stack))
    BY <2>1, <2>2
  <2> HIDE DEF new
  <2>5. \A o \in Options(setup) : Changed(o, "names", Arg) \in Options(setup)
    BY <1>1, StatementChanges
  <2>6. opts' \in Options(setup)
    BY <1>1, <2>1, <2>5 DEF Typed
  <2>7. /\ Renamed(Arg) \in [Tags -> Tag(setup)]
        /\ \A t \in gone : t \in Tags /\ Renamed(Arg)[t].loaded = <<>>
        /\ \A t \in Tags \ gone : Renamed(Arg)[t] = tags[t]
    BY <1>1, <1>2, RenamedTyped
  <2>8. ASSUME opt # OfDefault
        PROVE  /\ k \in Tags /\ [tags[k] EXCEPT !.loaded = set] \in Tag(setup)
               /\ [tags[k] EXCEPT !.loaded = set].loaded = set
               /\ Len(set) = Len(lts) /\ \A i \in 1..Len(lts) : set[i].name = lts[i].name
    <3>1. k \in Tags
      <4>1. opt \in Tags \X DOMAIN setup.files
        BY <1>1, <1>2, <2>8 DEF Typed, Pointers
      <4> QED BY <4>1
    <3> HIDE DEF k
    <3>2. tags \in [Tags -> Tag(setup)]
      BY <1>1 DEF Typed
    <3>3. lts \in Seq(Layout(setup))
      BY <3>1, <3>2, LoadedTyped
    <3>4. /\ set \in Seq(Layout(setup)) /\ Len(set) = Len(lts)
          /\ \A i \in 1..Len(lts) : set[i].name = lts[i].name
      <4> HIDE DEF lts
      <4> QED BY <2>5, <3>3, ChangedInTyped
    <3>5. [tags[k] EXCEPT !.loaded = set] \in Tag(setup)
          /\ [tags[k] EXCEPT !.loaded = set].loaded = set
      <4> DEFINE T == Seq(Layout(setup))
                 N == DOMAIN setup.names
                 F == DOMAIN setup.files
      <4>1. Tag(setup) = [name : N, layout : F, loaded : T] /\ set \in T
        BY <3>4 DEF Tag
      <4> HIDE DEF T, N, F, set
      <4>2. tags[k] \in Tag(setup)
        BY <3>1, <3>2
      <4> QED BY <4>1, <4>2
    <3> QED BY <3>1, <3>4, <3>5
  <2>9. ASSUME NEW t \in Tags
        PROVE  tags'[t] = IF opt # OfDefault /\ t = k
                          THEN [tags[k] EXCEPT !.loaded = set] ELSE Renamed(Arg)[t]
    <3> DEFINE u(x) == IF opt # OfDefault /\ x = k
                       THEN [tags[x] EXCEPT !.loaded = ChangedIn(@, opt[2], "names", Arg)]
                       ELSE Renamed(Arg)[x]
    <3>1. tags' = [x \in Tags |-> u(x)]
      BY <2>1, Zenon
    <3>2. tags'[t] = u(t)
      BY <3>1, Zenon
    <3>3. CASE opt # OfDefault /\ t = k
      <4>1. u(t) = [tags[t] EXCEPT !.loaded = ChangedIn(@, opt[2], "names", Arg)]
        BY <3>3, Zenon
      <4>2. tags'[t] = [tags[k] EXCEPT !.loaded = set]
        BY <3>2, <3>3, <4>1, Zenon
      <4> QED BY <3>3, <4>2
    <3>4. CASE ~(opt # OfDefault /\ t = k)
      <4>1. u(t) = Renamed(Arg)[t]
        BY <3>4, Zenon
      <4> QED BY <3>2, <3>4, <4>1
    <3> QED BY <3>3, <3>4
  <2>10. tags' \in [Tags -> Tag(setup)]
    <3> DEFINE us == [t \in Tags |-> tags'[t]]
    <3>1. tags' = us
      BY <2>1, Zenon
    <3>2. \A t \in Tags : tags'[t] \in Tag(setup)
      <4> SUFFICES ASSUME NEW t \in Tags PROVE tags'[t] \in Tag(setup)
        OBVIOUS
      <4>1. Renamed(Arg)[t] \in Tag(setup)
        BY <2>7
      <4> HIDE DEF k, set
      <4> QED BY <2>8, <2>9, <4>1
    <3> QED BY <3>1, <3>2
  <2> HIDE DEF set, gone
  <2>11. Cleared(gone)
    <3> SUFFICES ASSUME NEW t \in Tags
                 PROVE  /\ t \in gone => tags'[t].loaded = <<>>
                        /\ t \notin gone =>
                             /\ Len(tags'[t].loaded) = Len(tags[t].loaded)
                             /\ \A i \in 1..Len(tags[t].loaded) :
                                  tags'[t].loaded[i].name = tags[t].loaded[i].name
      BY DEF Cleared
    <3>1. CASE opt # OfDefault /\ t = k
      <4>1. tags'[t].loaded = set /\ t \notin gone
        BY <1>4, <2>8, <2>9, <3>1 DEF gone
      <4> QED BY <2>8, <3>1, <4>1
    <3>2. CASE ~(opt # OfDefault /\ t = k)
      <4>1. tags'[t] = Renamed(Arg)[t]
        BY <2>9, <3>2
      <4> QED BY <2>7, <4>1
    <3> QED BY <3>1, <3>2
  <2>12. Fit(new) /\ NoNewConfig(new) /\ \A i \in 1..Len(new) : Points(tags, new[i].ptr)
    <3>1. Fit(new)
      BY <2>2, <2>3 DEF Fit
    <3>2. NoNewConfig(new)
      BY <1>2, <2>2, <2>3 DEF NoNewConfig, At
    <3> QED BY <1>2, <2>2, <2>3, <3>1, <3>2
  <2>13. After(opt, gone) \in {OfDefault, Freed} =>
           Len(new) >= 1 /\ (Recovers(new[1]) \/ (opt = OfDefault /\ new[1].kind = "config"))
    BY <1>2, <1>4, <2>2, <2>3 DEF After, gone
  <2>14. opt # OfDefault /\ opt # Freed /\ opt[1] \in gone => tags'[shown].loaded = <<>>
    BY <1>4 DEF gone
  <2>15. /\ default' \in DOMAIN setup.files /\ shown \in Tags
         /\ listeners' \in Seq(DOMAIN setup.scripts) /\ fault' \in Faults
         /\ prohibited' \in BOOLEAN /\ error_file' \in BOOLEAN /\ (prohibited' \/ NoConfig)
    BY <1>1, <1>2, <2>1 DEF Typed
  <2> QED BY <1>1, <2>1, <2>3, <2>4, <2>6, <2>10, <2>11, <2>12, <2>13, <2>14, <2>15, FreedKept
<1> QED BY <1>3, <1>4

-----------------------------------------------------------------------------
(* The steps of C that leave the layouts alone *)

\* A step of C is one of a call of C, and what is left after it is none that begins.
LEMMA CoreFacts ==
  ASSUME TInv, NEW op \in OfCore, Ready(op)
  PROVE  /\ stack # <<>> /\ stack[1] = Top /\ Top.kind = "core" /\ Top.todo \in Steps
         /\ Top.todo # <<>> /\ Len(Top.todo) >= 1 /\ Tail(Top.todo) \in Steps
         /\ Top.todo[1][1] = op /\ Arg = Top.todo[1][2] /\ Arg \in Nat
         /\ \/ Waits(setup, shown, Top.todo, Len(stack) = 1)
            \/ Begins(setup, shown, tags, Top.todo, Len(stack) = 1)
         /\ (prohibited \/ NoConfig) /\ (opt \in {OfDefault, Freed} => Recovers(Top))
         /\ Points(tags, Top.ptr) /\ setup \in Setups /\ shown \in Tags /\ shown \in Nat
         /\ Typed /\ Forms
<1>1. Typed /\ Pointed /\ Forms /\ Flags /\ OptAgrees
  BY DEF TInv
<1>2. /\ stack # <<>> /\ stack[1] = Top /\ Top.kind = "core" /\ Top.todo # <<>> /\ Len(stack) >= 1
      /\ Top.todo \in Steps /\ Len(Top.todo) >= 1
      /\ Top.todo[1][1] = op /\ Arg = Top.todo[1][2] /\ Arg \in Nat
      /\ \/ Waits(setup, shown, Top.todo, Len(stack) = 1)
         \/ Begins(setup, shown, tags, Top.todo, Len(stack) = 1)
  BY <1>1, TopForms
<1>3. opt \in {OfDefault, Freed} => Recovers(Top)
  <2>1. Top.kind # "config"
    BY <1>2
  <2> QED BY <1>1, <1>2, <2>1 DEF OptAgrees
<1>4. prohibited \/ NoConfig
  BY <1>1 DEF Flags, NoConfig
<1>5. Points(tags, Top.ptr)
  <2>1. 1 \in 1..Len(stack)
    BY <1>1, <1>2, TopTyped
  <2> QED BY <1>1, <1>2, <2>1 DEF Pointed
<1>6. setup \in Setups /\ shown \in Tags /\ shown \in Nat
  BY <1>1, TagsAssumption DEF Typed
<1>7. Tail(Top.todo) \in Steps
  BY <1>2, StepsTyped
<1> QED BY <1>1, <1>2, <1>3, <1>4, <1>5, <1>6, <1>7

\* And this is what is left.
LEMMA CoreNext ==
  ASSUME TInv, NEW op \in OfCore, Ready(op)
  PROVE  GoesOn(setup, shown, tags, Top.todo, Len(stack) = 1)
BY CoreFacts, CoreForms

\* A call of C goes on.
LEMMA CoreRest ==
  ASSUME TInv, NEW op \in OfCore, Ready(op), NEW steps \in Steps
  PROVE  /\ Rest(steps) \in CallOf(setup) /\ Rest(steps).kind = "core"
         /\ Rest(steps).todo = steps \o Tail(Top.todo) /\ Points(tags, Rest(steps).ptr)
         /\ Rest(steps).ptr = Top.ptr
         /\ Instead(steps) = <<Rest(steps)>> \o Tail(stack)
BY CoreFacts, RestTyped

\* A call of C that is done with a step
LEMMA CoreDoneIs ==
  ASSUME TInv, NEW op \in OfCore, Ready(op)
  PROVE  LET rest == Rest(<<>>)
         IN  /\ rest \in CallOf(setup) /\ rest.kind = "core" /\ rest.todo = Tail(Top.todo)
             /\ rest.ptr = Top.ptr /\ Points(tags, rest.ptr)
             /\ Done = <<rest>> \o Tail(stack)
BY CoreFacts, DoneIs

\* A call of C may take the place of the top when it may wait, or begin.
Goes(c) ==
  /\ c.kind = "core" /\ ~At(c, "config")
  /\ \/ Waits(setup, shown, c.todo, Len(stack) = 1)
     \/ Begins(setup, shown, tags', c.todo, Len(stack) = 1)

\* Such a call keeps the form of the calls.
LEMMA OneGoes ==
  ASSUME NEW c \in CallOf(setup), Goes(c)
  PROVE  /\ <<c>> \in Seq(CallOf(setup)) /\ Len(<<c>>) = 1 /\ 1..Len(<<c>>) = {1} /\ <<c>>[1] = c
         /\ Fit(<<c>>) /\ NoNewConfig(<<c>>)
<1> DEFINE new == <<c>>
<1>1. new \in Seq(CallOf(setup)) /\ Len(new) = 1 /\ new[1] = c /\ 1..Len(new) = {1}
  BY CallsTyped
<1> HIDE DEF new
<1>2. Fit(new)
  BY <1>1 DEF Fit, Goes, Waiting
<1>3. NoNewConfig(new)
  BY <1>1 DEF NoNewConfig, Goes
<1> QED BY <1>1, <1>2, <1>3 DEF new

\* A script and, below it, the call of C that waits for it
LEMMA TwoGo ==
  ASSUME NEW d \in CallOf(setup), NEW c \in CallOf(setup),
         d.kind \in {"script", "command"}, \A last : Waiting(setup, shown, d, last),
         c.kind = "core", Waits(setup, shown, c.todo, Len(stack) = 1)
  PROVE  /\ <<d, c>> \in Seq(CallOf(setup)) /\ Len(<<d, c>>) = 2 /\ 1..Len(<<d, c>>) = {1, 2}
         /\ <<d, c>>[1] = d /\ <<d, c>>[2] = c
         /\ Fit(<<d, c>>) /\ NoNewConfig(<<d, c>>)
<1> DEFINE new == <<d, c>>
<1>1. /\ new \in Seq(CallOf(setup)) /\ Len(new) = 2 /\ new[1] = d /\ new[2] = c
      /\ 1..Len(new) = {1, 2}
  BY CallsTyped
<1>2. ~At(c, "config")
  <2>1. c.todo \in Steps
    BY DEF CallOf
  <2> QED BY <2>1, WaitsHeads DEF At
<1> HIDE DEF new
<1>3. Fit(new)
  BY <1>1 DEF Fit, Waiting
<1>4. NoNewConfig(new)
  BY <1>1, <1>2 DEF NoNewConfig, At
<1> QED BY <1>1, <1>3, <1>4 DEF new

\* A call that waits goes.
LEMMA WaitsGoes ==
  ASSUME NEW c \in CallOf(setup), c.kind = "core", Waits(setup, shown, c.todo, Len(stack) = 1)
  PROVE  Goes(c)
<1>1. c.todo \in Steps
  BY DEF CallOf
<1> QED BY <1>1, WaitsHeads DEF At, Goes

\* A step of C that leaves the layouts alone
LEMMA CoreKept ==
  ASSUME TInv, NEW op \in OfCore, Ready(op),
         setup' = setup, shown' = shown, opt' = opt,
         tags' \in [Tags -> Tag(setup)], SameLayouts,
         UNCHANGED <<opts, default, listeners, prohibited, error_file, fault>>,
         NEW new \in Seq(CallOf(setup)), stack' = new \o Tail(stack),
         Fit(new), NoNewConfig(new), \A i \in 1..Len(new) : Points(tags, new[i].ptr),
         Recovers(Top) => Len(new) >= 1 /\ Recovers(new[1])
  PROVE  TInv'
<1>1. Recovered(new)
  BY CoreFacts DEF Recovered
<1>2. stack # <<>> /\ (prohibited' \/ NoConfig)
  BY CoreFacts
<1>3. /\ opts' \in Options(setup) /\ default' \in DOMAIN setup.files
      /\ listeners' \in Seq(DOMAIN setup.scripts) /\ prohibited' \in BOOLEAN
      /\ error_file' \in BOOLEAN /\ fault' \in Faults
  BY DEF TInv, Typed
<1> QED BY <1>1, <1>2, <1>3, QuietKept

\* And one that changes nothing but the calls, and does not recover
LEMMA CoreStep ==
  ASSUME TInv, NEW op \in OfCore, Ready(op),
         UNCHANGED <<setup, opts, default, tags, shown, opt, listeners, prohibited, error_file, fault>>,
         op \notin {"config", "load_tags", "default_layouts", "focus", "allow"},
         NEW new \in Seq(CallOf(setup)), stack' = new \o Tail(stack),
         Fit(new), NoNewConfig(new), \A i \in 1..Len(new) : Points(tags, new[i].ptr)
  PROVE  TInv'
<1>1. ~Recovers(Top)
  BY CoreFacts DEF Recovers
<1>2. tags' \in [Tags -> Tag(setup)] /\ SameLayouts
  BY SameAreSame DEF TInv, Typed
<1> QED BY <1>1, <1>2, CoreKept

\* A function or a layout file is called.
LEMMA ScriptCall ==
  ASSUME Typed, NEW kind \in {"script", "command"}, NEW todo,
         \/ \E n \in DOMAIN setup.scripts : todo = setup.scripts[n]
         \/ \E n \in DOMAIN setup.files : todo = setup.files[n]
  PROVE  LET c == Call(kind, todo)
         IN  /\ c \in CallOf(setup) /\ c.kind = kind /\ c.todo = todo
             /\ \A last : Waiting(setup, shown, c, last)
             /\ \A ts, gone : Points(ts, c.ptr) /\ Points(ts, After(c.ptr, gone))
<1> DEFINE c == Call(kind, todo)
<1>1. setup \in Setups
  BY DEF Typed
<1>2. todo \in Seq(Statements(setup))
  <2>1. CASE \E n \in DOMAIN setup.scripts : todo = setup.scripts[n]
    BY <1>1, <2>1, SetupDomains
  <2>2. CASE \E n \in DOMAIN setup.files : todo = setup.files[n]
    BY <1>1, <2>2, SetupFacts
  <2> QED BY <2>1, <2>2
<1>3. Ops(todo) \subseteq Sayings(setup)
  BY SayingsAre
<1>4. todo \in Steps
  BY <1>1, <1>2, StatementsAreSteps
<1>5. kind \in Kinds
  BY DEF Kinds
<1>6. /\ c \in CallOf(setup) /\ c.kind = kind /\ c.todo = todo
      /\ \A ts, gone : Points(ts, c.ptr) /\ Points(ts, After(c.ptr, gone))
  BY <1>4, <1>5, CallTyped
<1> HIDE DEF c
<1>7. Says(setup, c)
  BY <1>2, <1>3, <1>6 DEF Says
<1> QED BY <1>6, <1>7 DEF Waiting, c

\* What is left when a step stands for the only one
LEMMA AloneIs ==
  ASSUME NEW steps \in Steps
  PROVE  steps \o <<>> = steps
<1> DEFINE X == (Spoken \cup OfCore) \X Nat
<1>1. steps \in Seq(X)
  BY DEF Steps
<1> HIDE DEF X
<1> QED BY <1>1, ConcatEmptySeq

\* tag_update_names goes on with a tag, or is done.
LEMMA NamesKeeps == TInv /\ Names => TInv'
<1> SUFFICES ASSUME TInv, Names PROVE TInv'
  OBVIOUS
<1>1. Ready("tags") /\ "tags" \in OfCore
      /\ UNCHANGED <<setup, opts, default, tags, shown, opt, listeners, prohibited, error_file, fault>>
  BY DEF Names, OfCore
<1>2. Tail(Top.todo) = <<>> /\ Arg \in Nat
  BY <1>1, CoreFacts, CoreNext DEF GoesOn
<1>3. CASE Arg \in Tags
  <2> DEFINE steps == << <<"get", Arg>>, <<"name", Arg>>, <<"tags", Arg + 1>> >>
             c == Rest(steps)
  <2>1. steps \in Steps
    BY <1>2 DEF Steps, OfCore
  <2>2. Len(steps) = 3 /\ steps[1] = <<"get", Arg>>
        /\ Tail(steps) = << <<"name", Arg>>, <<"tags", Arg + 1>> >>
    BY ShortTails
  <2>3. stack' = Instead(steps)
    BY <1>3 DEF Names
  <2> HIDE DEF steps
  <2>4. /\ c \in CallOf(setup) /\ c.kind = "core" /\ c.todo = steps \o Tail(Top.todo)
        /\ Points(tags, c.ptr) /\ Instead(steps) = <<c>> \o Tail(stack)
    BY <1>1, <2>1, CoreRest
  <2> HIDE DEF c
  <2>5. c.todo = steps
    BY <1>2, <2>1, <2>4, AloneIs
  <2>6. Waits(setup, shown, steps, Len(stack) = 1)
    BY <1>3, <2>2 DEF Waits, Follows
  <2>7. Goes(c)
    BY <2>4, <2>5, <2>6, WaitsGoes
  <2> QED BY <1>1, <2>3, <2>4, <2>7, OneGoes, CoreStep
<1>4. CASE Arg \notin Tags
  <2> DEFINE c == Rest(<<>>)
  <2>1. /\ c \in CallOf(setup) /\ c.kind = "core" /\ c.todo = Tail(Top.todo)
        /\ Points(tags, c.ptr) /\ Done = <<c>> \o Tail(stack)
    BY <1>1, CoreDoneIs
  <2> HIDE DEF c
  <2>2. Waits(setup, shown, c.todo, Len(stack) = 1)
    BY <1>2, <2>1 DEF Waits
  <2>3. Goes(c)
    BY <2>1, <2>2, WaitsGoes
  <2>4. stack' = Done
    BY <1>4 DEF Names
  <2> QED BY <1>1, <2>1, <2>3, <2>4, OneGoes, CoreStep
<1> QED BY <1>3, <1>4

\* A tag is named.
LEMMA NameKeeps == TInv /\ Name => TInv'
<1> SUFFICES ASSUME TInv, Name PROVE TInv'
  OBVIOUS
<1>1. Ready("name") /\ "name" \in OfCore
      /\ UNCHANGED <<setup, opts, default, shown, opt, listeners, prohibited, error_file, fault>>
  BY DEF Name, OfCore
<1>2. Arg \in Tags /\ tags[Arg].loaded # <<>> /\ Tail(Top.todo) = << <<"tags", Arg + 1>> >>
      /\ Arg \in Nat
  BY <1>1, CoreFacts, CoreNext DEF GoesOn
<1> DEFINE c == Rest(<<>>)
<1>3. /\ c \in CallOf(setup) /\ c.kind = "core" /\ c.todo = Tail(Top.todo)
      /\ Points(tags, c.ptr) /\ Done = <<c>> \o Tail(stack)
  BY <1>1, CoreDoneIs
<1> HIDE DEF c
<1>4. Waits(setup, shown, c.todo, Len(stack) = 1)
  <2> DEFINE a == Arg
  <2>1. a \in Nat /\ c.todo = << <<"tags", a + 1>> >>
    BY <1>2, <1>3
  <2> HIDE DEF a
  <2>2. Only(c.todo, {"tags"}, 0)
    BY <2>1 DEF Only
  <2> QED BY <2>2 DEF Waits
<1>5. Goes(c)
  BY <1>3, <1>4, WaitsGoes
<1>6. tags' \in [Tags -> Tag(setup)] /\ SameLayouts
  <2> DEFINE n == LET n == Head(tags[Arg].loaded).options.names IN IF Arg < setup.names[n] THEN n ELSE 0
             T == Seq(Layout(setup))
             N == DOMAIN setup.names
             F == DOMAIN setup.files
  <2>1. tags' = [tags EXCEPT ![Arg].name = n] /\ tags \in [Tags -> Tag(setup)]
    BY DEF Name, TInv, Typed
  <2>2. n \in N
    <3>1. 0 \in N
      BY <1>1, CoreFacts, SetupFacts
    <3>2. Head(tags[Arg].loaded) = tags[Arg].loaded[1]
          /\ tags[Arg].loaded[1].options \in Options(setup)
      <4>1. /\ tags[Arg].loaded \in Seq(Layout(setup)) /\ Len(tags[Arg].loaded) \in Nat
            /\ Len(tags[Arg].loaded) # 0
            /\ \A i \in 1..Len(tags[Arg].loaded) : tags[Arg].loaded[i].options \in Options(setup)
        BY <1>2, <2>1, LoadedTyped
      <4>2. 1 \in 1..Len(tags[Arg].loaded)
        BY <4>1
      <4> QED BY <1>2, <4>1, <4>2
    <3>3. \A o \in Options(setup) : o.names \in N
      BY DEF Options
    <3>4. Head(tags[Arg].loaded).options.names \in N
      BY <3>2, <3>3
    <3> HIDE DEF N
    <3> QED BY <3>1, <3>4
  <2> HIDE DEF n
  <2>3. Tag(setup) = [name : N, layout : F, loaded : T]
    BY DEF Tag
  <2> HIDE DEF T, N, F
  <2>4. tags' \in [Tags -> Tag(setup)] /\ \A t \in Tags : tags'[t].loaded = tags[t].loaded
    BY <1>2, <2>1, <2>2, <2>3
  <2> QED BY <2>4, SameAreSame
<1>7. stack' = <<c>> \o Tail(stack)
  BY <1>3 DEF Name
<1>8. ~Recovers(Top)
  BY <1>1, CoreFacts DEF Recovers
<1> QED BY <1>1, <1>3, <1>5, <1>6, <1>7, <1>8, OneGoes, CoreKept

\* The tags get the default layout, and then the layout of the tag that is shown.
LEMMA DefaultLayoutsKeeps == TInv /\ DefaultLayouts => TInv'
<1> SUFFICES ASSUME TInv, DefaultLayouts PROVE TInv'
  OBVIOUS
<1>1. Ready("default_layouts") /\ "default_layouts" \in OfCore
      /\ UNCHANGED <<setup, opts, default, shown, opt, listeners, prohibited, error_file, fault>>
  BY DEF DefaultLayouts, OfCore
<1>2. /\ Waits(setup, shown, Tail(Top.todo), Len(stack) = 1) /\ Tail(Top.todo) # <<>>
      /\ Tail(Top.todo)[1] = <<"focus", shown>> /\ Tail(Top.todo) \in Steps
  BY <1>1, CoreFacts, CoreNext DEF GoesOn
<1> DEFINE c == Rest(<<>>)
<1>3. /\ c \in CallOf(setup) /\ c.kind = "core" /\ c.todo = Tail(Top.todo)
      /\ Points(tags, c.ptr) /\ Done = <<c>> \o Tail(stack)
  BY <1>1, CoreDoneIs
<1> HIDE DEF c
<1>4. Goes(c)
  BY <1>2, <1>3, WaitsGoes
<1>5. Recovers(c)
  BY <1>2, <1>3, StepsTyped DEF Recovers
<1>6. tags' \in [Tags -> Tag(setup)] /\ SameLayouts
  <2> DEFINE us == [t \in Tags |-> [tags[t] EXCEPT !.layout = default]]
  <2>1. tags' = us
    BY Zenon DEF DefaultLayouts
  <2>2. tags \in [Tags -> Tag(setup)] /\ default \in DOMAIN setup.files
    BY DEF TInv, Typed
  <2> DEFINE l == default
  <2> HIDE DEF l
  <2>3. l \in DOMAIN setup.files
    BY <2>2 DEF l
  <2>4. \A t \in Tag(setup) : /\ [t EXCEPT !.layout = l] \in Tag(setup)
                              /\ [t EXCEPT !.layout = l].loaded = t.loaded
    <3> DEFINE T == Seq(Layout(setup))
               N == DOMAIN setup.names
               F == DOMAIN setup.files
    <3>1. Tag(setup) = [name : N, layout : F, loaded : T] /\ l \in F
      BY <2>3 DEF Tag
    <3> HIDE DEF T, N, F
    <3> QED BY <3>1
  <2>5. \A t \in Tag(setup) : /\ [t EXCEPT !.layout = default] \in Tag(setup)
                              /\ [t EXCEPT !.layout = default].loaded = t.loaded
    BY <2>4 DEF l
  <2>6. us \in [Tags -> Tag(setup)] /\ \A t \in Tags : us[t].loaded = tags[t].loaded
    BY <2>2, <2>5
  <2> HIDE DEF us
  <2> QED BY <2>1, <2>6, SameAreSame
<1>7. stack' = <<c>> \o Tail(stack)
  BY <1>3 DEF DefaultLayouts
<1>8. /\ <<c>> \in Seq(CallOf(setup)) /\ Len(<<c>>) >= 1 /\ Recovers(<<c>>[1])
      /\ Fit(<<c>>) /\ NoNewConfig(<<c>>)
      /\ \A i \in 1..Len(<<c>>) : Points(tags, <<c>>[i].ptr)
  <2>1. /\ <<c>> \in Seq(CallOf(setup)) /\ Len(<<c>>) = 1 /\ 1..Len(<<c>>) = {1} /\ <<c>>[1] = c
        /\ Fit(<<c>>) /\ NoNewConfig(<<c>>)
    BY <1>3, <1>4, OneGoes
  <2> QED BY <1>3, <1>5, <2>1
<1> DEFINE new == <<c>>
<1> HIDE DEF new
<1>9. /\ new \in Seq(CallOf(setup)) /\ Len(new) >= 1 /\ Recovers(new[1])
      /\ Fit(new) /\ NoNewConfig(new) /\ stack' = new \o Tail(stack)
      /\ \A i \in 1..Len(new) : Points(tags, new[i].ptr)
  BY <1>7, <1>8 DEF new
<1>10. setup' = setup /\ shown' = shown /\ opt' = opt
       /\ UNCHANGED <<opts, default, listeners, prohibited, error_file, fault>>
  BY <1>1
<1> QED BY <1>1, <1>6, <1>9, <1>10, CoreKept

\* Reloading is allowed again, by a call that no other waits for.
LEMMA AllowKeeps == TInv /\ Allow => TInv'
<1> SUFFICES ASSUME TInv, Allow PROVE TInv'
  OBVIOUS
<1>1. Ready("allow") /\ "allow" \in OfCore /\ prohibited' = FALSE
      /\ UNCHANGED <<setup, opts, default, tags, shown, opt, listeners, error_file, fault>>
  BY DEF Allow, OfCore
<1>2. /\ Len(stack) = 1 /\ Waits(setup, shown, Tail(Top.todo), Len(stack) = 1)
      /\ Tail(Top.todo) \in Steps /\ Len(Top.todo) >= 1
  BY <1>1, CoreFacts, CoreNext DEF GoesOn
<1> DEFINE c == Rest(<<>>)
           new == <<c>>
<1>3. /\ c \in CallOf(setup) /\ c.kind = "core" /\ c.todo = Tail(Top.todo)
      /\ Points(tags, c.ptr) /\ Done = <<c>> \o Tail(stack)
  BY <1>1, CoreDoneIs
<1> HIDE DEF c
<1>4. Goes(c)
  BY <1>2, <1>3, WaitsGoes
<1>5. /\ new \in Seq(CallOf(setup)) /\ Len(new) = 1 /\ 1..Len(new) = {1} /\ new[1] = c
      /\ Fit(new) /\ NoNewConfig(new)
  BY <1>3, <1>4, OneGoes
<1>6. Recovered(new)
  <2> SUFFICES ASSUME opt \in {OfDefault, Freed} PROVE Recovers(c)
    BY <1>5 DEF Recovered
  <2>1. Recovers(Top) /\ Top.todo[1][1] = "allow"
    BY <1>1, CoreFacts
  <2>2. Len(Top.todo) >= 2
    BY <2>1 DEF Recovers
  <2>3. c.todo = << <<"default_layouts", 0>>, <<"focus", shown>> >>
    BY <1>1, <1>3, <2>2, CoreFacts, CoreNext DEF GoesOn
  <2>4. Len(c.todo) = 2 /\ c.todo[1][1] = "default_layouts"
    BY <2>3
  <2>5. Len(c.todo) >= 1
    BY <2>4
  <2> QED BY <1>3, <2>4, <2>5 DEF Recovers
<1>7. NoConfig
  <2>1. stack[1] = Top /\ Top.kind = "core"
    BY <1>1, CoreFacts
  <2>2. 1..Len(stack) = {1}
    BY <1>2
  <2> QED BY <2>1, <2>2 DEF NoConfig
<1>8. stack' = new \o Tail(stack)
  BY <1>3 DEF Allow
<1>9. /\ opts' \in Options(setup) /\ default' \in DOMAIN setup.files
      /\ listeners' \in Seq(DOMAIN setup.scripts) /\ prohibited' \in BOOLEAN
      /\ error_file' \in BOOLEAN /\ fault' \in Faults /\ stack # <<>>
      /\ tags' \in [Tags -> Tag(setup)] /\ SameLayouts
  BY <1>1, CoreFacts, SameAreSame DEF TInv, Typed
<1>10. \A i \in 1..Len(new) : Points(tags, new[i].ptr)
  BY <1>3, <1>5
<1> HIDE DEF new
<1> QED BY <1>1, <1>5, <1>6, <1>7, <1>8, <1>9, <1>10, QuietKept

\* A function is called.
LEMMA RunKeeps == TInv /\ Run => TInv'
<1> SUFFICES ASSUME TInv, Run PROVE TInv'
  OBVIOUS
<1>1. Ready("run") /\ "run" \in OfCore
      /\ UNCHANGED <<setup, opts, default, tags, shown, opt, listeners, prohibited, error_file, fault>>
  BY DEF Run, OfCore
<1>2. Arg \in DOMAIN setup.scripts /\ Waits(setup, shown, Tail(Top.todo), Len(stack) = 1)
      /\ Typed /\ stack # <<>>
  BY <1>1, CoreFacts, CoreNext DEF GoesOn
<1> DEFINE c == Rest(<<>>)
           d == Call("script", setup.scripts[Arg])
           new == <<d, c>>
<1>3. /\ c \in CallOf(setup) /\ c.kind = "core" /\ c.todo = Tail(Top.todo)
      /\ Points(tags, c.ptr) /\ Done = <<c>> \o Tail(stack)
  BY <1>1, CoreDoneIs
<1>4. /\ d \in CallOf(setup) /\ d.kind = "script"
      /\ \A last : Waiting(setup, shown, d, last)
      /\ \A ts : Points(ts, d.ptr)
  BY <1>2, ScriptCall
<1>5. stack' = <<d>> \o Done
  BY DEF Run
<1> HIDE DEF c, d
<1>6. stack' = new \o Tail(stack)
  BY <1>2, <1>3, <1>4, <1>5, Pushed
<1>7. /\ new \in Seq(CallOf(setup)) /\ Len(new) = 2 /\ 1..Len(new) = {1, 2}
      /\ new[1] = d /\ new[2] = c /\ Fit(new) /\ NoNewConfig(new)
  BY <1>2, <1>3, <1>4, TwoGo
<1>8. \A i \in 1..Len(new) : Points(tags, new[i].ptr)
  BY <1>3, <1>4, <1>7
<1> HIDE DEF new
<1> QED BY <1>1, <1>6, <1>7, <1>8, CoreStep

\* A call of C goes on with other steps.
LEMMA InsteadKeeps ==
  ASSUME TInv, NEW op \in OfCore, Ready(op),
         UNCHANGED <<setup, opts, default, tags, shown, opt, listeners, prohibited, error_file, fault>>,
         op \notin {"config", "load_tags", "default_layouts", "focus", "allow"},
         Tail(Top.todo) = <<>>, NEW steps \in Steps, stack' = Instead(steps),
         Waits(setup, shown, steps, Len(stack) = 1)
  PROVE  TInv'
<1> DEFINE c == Rest(steps)
<1>1. /\ c \in CallOf(setup) /\ c.kind = "core" /\ c.todo = steps \o Tail(Top.todo)
      /\ Points(tags, c.ptr) /\ Instead(steps) = <<c>> \o Tail(stack)
  BY CoreRest
<1> HIDE DEF c
<1>2. c.todo = steps
  BY <1>1, AloneIs
<1>3. Goes(c)
  BY <1>1, <1>2, WaitsGoes
<1> QED BY <1>1, <1>3, OneGoes, CoreStep

\* A call of C is done with its last step.
LEMMA LastKeeps ==
  ASSUME TInv, NEW op \in OfCore, Ready(op),
         UNCHANGED <<setup, opts, default, tags, shown, opt, listeners, prohibited, error_file, fault>>,
         op \notin {"config", "load_tags", "default_layouts", "focus", "allow"},
         Tail(Top.todo) = <<>>, stack' = Done
  PROVE  TInv'
<1> DEFINE c == Rest(<<>>)
<1>1. /\ c \in CallOf(setup) /\ c.kind = "core" /\ c.todo = Tail(Top.todo)
      /\ Points(tags, c.ptr) /\ Done = <<c>> \o Tail(stack)
  BY CoreDoneIs
<1> HIDE DEF c
<1>2. Waits(setup, shown, c.todo, Len(stack) = 1)
  BY <1>1 DEF Waits
<1>3. Goes(c)
  BY <1>1, <1>2, WaitsGoes
<1> QED BY <1>1, <1>3, OneGoes, CoreStep

\* A function is called before the call goes on.
LEMMA CalledKeeps ==
  ASSUME TInv, NEW op \in OfCore, Ready(op),
         UNCHANGED <<setup, opts, default, tags, shown, opt, listeners, prohibited, error_file, fault>>,
         op \notin {"config", "load_tags", "default_layouts", "focus", "allow"},
         NEW d \in CallOf(setup), NEW c \in CallOf(setup), stack' = <<d>> \o (<<c>> \o Tail(stack)),
         d.kind \in {"script", "command"}, \A last : Waiting(setup, shown, d, last),
         Points(tags, d.ptr), Points(tags, c.ptr),
         c.kind = "core", Waits(setup, shown, c.todo, Len(stack) = 1)
  PROVE  TInv'
<1> DEFINE new == <<d, c>>
<1>1. Typed /\ stack # <<>>
  BY CoreFacts
<1>2. stack' = new \o Tail(stack)
  BY <1>1, Pushed
<1>3. /\ new \in Seq(CallOf(setup)) /\ Len(new) = 2 /\ 1..Len(new) = {1, 2}
      /\ new[1] = d /\ new[2] = c /\ Fit(new) /\ NoNewConfig(new)
  BY TwoGo
<1>4. \A i \in 1..Len(new) : Points(tags, new[i].ptr)
  BY <1>3
<1> HIDE DEF new
<1> QED BY <1>2, <1>3, <1>4, CoreStep

\* A key is looked up: a function is called, or none.
LEMMA KeyIs ==
  ASSUME TInv, Key
  PROVE  /\ Ready("key") /\ "key" \in OfCore /\ Tail(Top.todo) = <<>> /\ Len(stack) = 1
         /\ UNCHANGED <<setup, opts, default, tags, shown, opt, listeners, prohibited, error_file, fault>>
         /\ \/ stack' = Done
            \/ \E n \in DOMAIN setup.scripts : stack' = Instead(<< <<"run", n>>, <<"allow", 0>> >>)
<1> DEFINE keys == Head(tags[shown].loaded).options.keys
           i == GetMatchingKeybinding(keys, << <<Arg>> >>)
           n == keys[i].cmd
<1>1. Ready("key") /\ "key" \in OfCore
      /\ UNCHANGED <<setup, opts, default, tags, shown, opt, listeners, prohibited, error_file, fault>>
      /\ stack' = Instead(IF i = 0 THEN <<>> ELSE << <<"run", n>>, <<"allow", 0>> >>)
  BY Zenon DEF Key, OfCore
<1>2. /\ Len(stack) = 1 /\ tags[shown].loaded # <<>> /\ Tail(Top.todo) = <<>> /\ Arg \in Nat
      /\ shown \in Tags /\ setup \in Setups
  BY <1>1, CoreFacts, CoreNext DEF GoesOn
<1>3. keys \in OrderedLists(DOMAIN setup.scripts)
  <2>1. tags \in [Tags -> Tag(setup)]
    BY DEF TInv, Typed
  <2>2. /\ tags[shown].loaded \in Seq(Layout(setup)) /\ Len(tags[shown].loaded) \in Nat
        /\ Len(tags[shown].loaded) # 0
        /\ \A j \in 1..Len(tags[shown].loaded) : tags[shown].loaded[j].options \in Options(setup)
    BY <1>2, <2>1, LoadedTyped
  <2>3. 1 \in 1..Len(tags[shown].loaded) /\ Head(tags[shown].loaded) = tags[shown].loaded[1]
    BY <1>2, <2>2
  <2>4. \A o \in Options(setup) : o.keys \in OrderedLists(DOMAIN setup.scripts)
    BY DEF Options
  <2> QED BY <2>2, <2>3, <2>4
<1> HIDE DEF keys
<1>4. i \in 0..Len(keys)
  BY <1>2, <1>3, KeyIsChain, MatchingFinds
<1> HIDE DEF i
<1>5. CASE i = 0
  <2>1. stack' = Done
    BY <1>1, <1>5 DEF Done
  <2> QED BY <1>1, <1>2, <2>1
<1>6. CASE i # 0
  <2>1. n \in DOMAIN setup.scripts
    <3> DEFINE C == DOMAIN setup.scripts
    <3>1. keys \in Seq(BindingTo(C))
      BY <1>3 DEF OrderedLists
    <3>2. i \in 1..Len(keys)
      BY <1>4, <1>6, <3>1
    <3> DEFINE B == BindingTo(C)
    <3>3. \A b \in B : b.cmd \in C
      BY DEF BindingTo
    <3> HIDE DEF B
    <3>4. keys[i] \in B
      BY <3>1, <3>2 DEF B
    <3> QED BY <3>3, <3>4
  <2> HIDE DEF n
  <2>2. stack' = Instead(<< <<"run", n>>, <<"allow", 0>> >>)
    BY <1>1, <1>6
  <2> QED BY <1>1, <1>2, <2>1, <2>2
<1> QED BY <1>5, <1>6

\* A function is called, and then something is done.
LEMMA RunSteps ==
  ASSUME setup \in Setups, NEW n \in DOMAIN setup.scripts, NEW op \in OfCore, NEW a \in Nat
  PROVE  LET steps == << <<"run", n>>, <<op, a>> >>
         IN  /\ steps \in Steps /\ Len(steps) = 2 /\ steps[1] = <<"run", n>>
             /\ Tail(steps) = << <<op, a>> >>
<1> DEFINE steps == << <<"run", n>>, <<op, a>> >>
<1>1. n \in Nat
  BY SetupDomains
<1>2. steps \in Steps
  <2>1. "run" \in OfCore
    BY DEF OfCore
  <2> QED BY <1>1, <2>1 DEF Steps
<1>3. Len(steps) = 2 /\ steps[1] = <<"run", n>> /\ Tail(steps) = << <<op, a>> >>
  BY ShortTails
<1> QED BY <1>2, <1>3

\* A key binding calls its function.
LEMMA KeyKeeps == TInv /\ Key => TInv'
<1> SUFFICES ASSUME TInv, Key PROVE TInv'
  OBVIOUS
<1>1. /\ Ready("key") /\ "key" \in OfCore /\ Tail(Top.todo) = <<>> /\ Len(stack) = 1
      /\ UNCHANGED <<setup, opts, default, tags, shown, opt, listeners, prohibited, error_file, fault>>
      /\ \/ stack' = Done
         \/ \E n \in DOMAIN setup.scripts : stack' = Instead(<< <<"run", n>>, <<"allow", 0>> >>)
  BY KeyIs
<1>2. CASE stack' = Done
  BY <1>1, <1>2, LastKeeps
<1>3. ASSUME NEW n \in DOMAIN setup.scripts, stack' = Instead(<< <<"run", n>>, <<"allow", 0>> >>)
      PROVE  TInv'
  <2> DEFINE steps == << <<"run", n>>, <<"allow", 0>> >>
  <2>1. setup \in Setups /\ "allow" \in OfCore
    BY DEF TInv, Typed, OfCore
  <2>2. /\ steps \in Steps /\ Len(steps) = 2 /\ steps[1] = <<"run", n>>
        /\ Tail(steps) = << <<"allow", 0>> >>
    BY <2>1, RunSteps
  <2>3. stack' = Instead(steps)
    BY <1>3
  <2> HIDE DEF steps
  <2>4. Waits(setup, shown, steps, Len(stack) = 1)
    BY <1>1, <2>2 DEF Waits
  <2> QED BY <1>1, <2>2, <2>3, <2>4, InsteadKeeps
<1> QED BY <1>1, <1>2, <1>3

\* emit_signal calls the next listener, or is done.
LEMMA EmitIs ==
  ASSUME TInv, Emit
  PROVE  /\ Ready("emit") /\ "emit" \in OfCore /\ Tail(Top.todo) = <<>>
         /\ UNCHANGED <<setup, opts, default, tags, shown, opt, listeners, prohibited, error_file, fault>>
         /\ \/ stack' = Done
            \/ \E n \in DOMAIN setup.scripts : \E a \in Nat :
                 a >= 1 /\ stack' = Instead(<< <<"run", n>>, <<"emit", a>> >>)
<1>1. Ready("emit") /\ "emit" \in OfCore
      /\ UNCHANGED <<setup, opts, default, tags, shown, opt, listeners, prohibited, error_file, fault>>
  BY DEF Emit, OfCore
<1>2. Tail(Top.todo) = <<>> /\ Arg >= 1 /\ Arg \in Nat
  BY <1>1, CoreFacts, CoreNext DEF GoesOn
<1>3. CASE Arg > Len(listeners)
  <2>1. stack' = Done
    BY <1>3 DEF Emit
  <2> QED BY <1>1, <1>2, <2>1
<1>4. CASE ~(Arg > Len(listeners))
  <2> DEFINE n == listeners[Arg]
             a == Arg + 1
             C == DOMAIN setup.scripts
  <2>1. stack' = Instead(<< <<"run", n>>, <<"emit", a>> >>)
    BY <1>4 DEF Emit
  <2>2. n \in C
    <3>1. listeners \in Seq(C)
      BY DEF TInv, Typed
    <3> HIDE DEF C
    <3>2. Arg \in 1..Len(listeners)
      BY <1>2, <1>4, <3>1
    <3> QED BY <3>1, <3>2
  <2>3. a \in Nat /\ a >= 1
    BY <1>2
  <2> HIDE DEF n, a
  <2> QED BY <1>1, <1>2, <2>1, <2>2, <2>3
<1> QED BY <1>3, <1>4

\* The functions that wait for an event are called one after the other.
LEMMA EmitKeeps == TInv /\ Emit => TInv'
<1> SUFFICES ASSUME TInv, Emit PROVE TInv'
  OBVIOUS
<1>1. /\ Ready("emit") /\ "emit" \in OfCore /\ Tail(Top.todo) = <<>>
      /\ UNCHANGED <<setup, opts, default, tags, shown, opt, listeners, prohibited, error_file, fault>>
      /\ \/ stack' = Done
         \/ \E n \in DOMAIN setup.scripts : \E a \in Nat :
              a >= 1 /\ stack' = Instead(<< <<"run", n>>, <<"emit", a>> >>)
  BY EmitIs
<1>2. CASE stack' = Done
  BY <1>1, <1>2, LastKeeps
<1>3. ASSUME NEW n \in DOMAIN setup.scripts, NEW a \in Nat, a >= 1,
             stack' = Instead(<< <<"run", n>>, <<"emit", a>> >>)
      PROVE  TInv'
  <2> DEFINE steps == << <<"run", n>>, <<"emit", a>> >>
             u == << <<"emit", a>> >>
  <2>1. setup \in Setups
    BY DEF TInv, Typed
  <2>2. steps \in Steps /\ Len(steps) = 2 /\ steps[1] = <<"run", n>> /\ Tail(steps) = u
    BY <1>1, <2>1, RunSteps
  <2>3. stack' = Instead(steps)
    BY <1>3
  <2>4. Len(u) = 1 /\ u[1][1] = "emit" /\ u[1][2] = a
    OBVIOUS
  <2> HIDE DEF steps, u
  <2>5. Only(Tail(steps), {"emit"}, 1)
    BY <1>3, <2>2, <2>4 DEF Only
  <2>6. Waits(setup, shown, steps, Len(stack) = 1)
    BY <2>2, <2>5 DEF Waits
  <2> QED BY <1>1, <2>2, <2>3, <2>6, InsteadKeeps
<1> QED BY <1>1, <1>2, <1>3

\* A window has a title and the rules are applied.
LEMMA TitleIs ==
  ASSUME TInv, Title
  PROVE  /\ Ready("title") /\ "title" \in OfCore /\ Typed /\ stack # <<>>
         /\ UNCHANGED <<setup, opts, default, tags, shown, opt, listeners, prohibited, error_file, fault>>
         /\ \E d, c \in CallOf(setup) :
              /\ stack' = <<d, c>> \o Tail(stack)
              /\ d.kind = "core" /\ Len(d.todo) = 1 /\ d.todo[1] = <<"rules", 1>>
              /\ Points(tags, d.ptr) /\ d.ptr # Freed
              /\ c.kind = "core" /\ c.todo = <<>> /\ Points(tags, c.ptr)
<1> DEFINE p == <<shown, Head(tags[shown].loaded).name>>
           todo == << <<"rules", 1>> >>
           d == [Core(todo) EXCEPT !.ptr = p, !.window = Arg]
           c == Rest(<<>>)
           new == <<d, c>>
<1>1. Ready("title") /\ "title" \in OfCore
      /\ UNCHANGED <<setup, opts, default, tags, shown, opt, listeners, prohibited, error_file, fault>>
      /\ stack' = <<d>> \o Done
  BY DEF Title, OfCore
<1>2. /\ tags[shown].loaded # <<>> /\ Tail(Top.todo) = <<>> /\ Arg \in Nat
      /\ shown \in Tags /\ setup \in Setups /\ Typed /\ stack # <<>>
  BY <1>1, CoreFacts, CoreNext DEF GoesOn
<1>3. p \in Pointers(setup) /\ Points(tags, p) /\ p # Freed
  <2>1. tags \in [Tags -> Tag(setup)]
    BY DEF TInv, Typed
  <2>2. /\ tags[shown].loaded \in Seq(Layout(setup)) /\ Len(tags[shown].loaded) \in Nat
        /\ Len(tags[shown].loaded) # 0
        /\ \A j \in 1..Len(tags[shown].loaded) : tags[shown].loaded[j].name \in DOMAIN setup.files
    BY <1>2, <2>1, LoadedTyped
  <2>3. 1 \in 1..Len(tags[shown].loaded) /\ Head(tags[shown].loaded) = tags[shown].loaded[1]
    BY <1>2, <2>2
  <2>4. tags[shown].loaded[1].name \in DOMAIN setup.files
    BY <2>2, <2>3
  <2>5. p[1] = shown /\ p[2] = tags[shown].loaded[1].name
    BY <2>3
  <2>6. p \in Pointers(setup)
    BY <1>2, <2>3, <2>4 DEF Pointers
  <2>7. p # Freed
    <3>1. Len(p) = 2 /\ Len(Freed) = 1
      BY DEF Freed
    <3> QED BY <3>1
  <2> HIDE DEF p
  <2> QED BY <2>3, <2>5, <2>6, <2>7 DEF Points
<1>4. todo \in Steps /\ Len(todo) = 1 /\ todo[1] = <<"rules", 1>>
  BY DEF Steps, OfCore
<1> HIDE DEF p, todo
<1>5. /\ d \in CallOf(setup) /\ d.kind = "core" /\ d.todo = todo /\ d.ptr = p
  <2>1. /\ Core(todo) \in CallOf(setup) /\ Core(todo).kind = "core" /\ Core(todo).todo = todo
    <3>1. "core" \in Kinds
      BY DEF Kinds
    <3> QED BY <1>4, <3>1, CallTyped DEF Core
  <2> DEFINE P == Pointers(setup)
  <2>2. CallOf(setup) = [kind : Kinds, todo : Steps, ptr : P, window : Nat] /\ p \in P
    BY <1>3 DEF CallOf
  <2> DEFINE o == Core(todo)
             a == Arg
  <2>3. o \in [kind : Kinds, todo : Steps, ptr : P, window : Nat] /\ o.kind = "core" /\ o.todo = todo
        /\ a \in Nat
    BY <1>2, <2>1, <2>2
  <2>4. d = [o EXCEPT !.ptr = p, !.window = a]
    OBVIOUS
  <2> HIDE DEF P, o, a, d
  <2>5. /\ d \in [kind : Kinds, todo : Steps, ptr : P, window : Nat] /\ d.kind = "core"
        /\ d.todo = todo /\ d.ptr = p
    BY <2>2, <2>3, <2>4
  <2> QED BY <2>2, <2>5
<1>6. /\ c \in CallOf(setup) /\ c.kind = "core" /\ c.todo = <<>>
      /\ Points(tags, c.ptr) /\ Done = <<c>> \o Tail(stack)
  BY <1>1, <1>2, CoreDoneIs
<1> HIDE DEF c, d
<1>7. stack' = new \o Tail(stack)
  BY <1>1, <1>2, <1>5, <1>6, Pushed
<1> QED BY <1>1, <1>2, <1>3, <1>4, <1>5, <1>6, <1>7

\* The rules of the options opt points to are gone through for a window.
LEMMA TitleKeeps == TInv /\ Title => TInv'
<1> SUFFICES ASSUME TInv, Title PROVE TInv'
  OBVIOUS
<1>1. /\ Ready("title") /\ "title" \in OfCore
      /\ UNCHANGED <<setup, opts, default, tags, shown, opt, listeners, prohibited, error_file, fault>>
  BY TitleIs
<1> PICK d \in CallOf(setup), c \in CallOf(setup) :
           /\ stack' = <<d, c>> \o Tail(stack)
           /\ d.kind = "core" /\ Len(d.todo) = 1 /\ d.todo[1] = <<"rules", 1>>
           /\ Points(tags, d.ptr) /\ d.ptr # Freed
           /\ c.kind = "core" /\ c.todo = <<>> /\ Points(tags, c.ptr)
  BY TitleIs
<1> DEFINE new == <<d, c>>
<1>2. /\ new \in Seq(CallOf(setup)) /\ Len(new) = 2 /\ new[1] = d /\ new[2] = c
      /\ 1..Len(new) = {1, 2}
  BY CallsTyped
<1>3. stack' = new \o Tail(stack)
  OBVIOUS
<1> HIDE DEF new
<1>4. \A last : Waits(setup, shown, d.todo, last) /\ Waits(setup, shown, c.todo, last)
  <2>1. Only(d.todo, {"emit", "rules"}, 1)
    BY DEF Only
  <2> QED BY <2>1 DEF Waits
<1>5. Fit(new)
  BY <1>2, <1>4 DEF Fit, Waiting
<1>6. NoNewConfig(new)
  <2>1. Len(<<>>) = 0
    OBVIOUS
  <2> QED BY <1>2, <2>1 DEF NoNewConfig, At
<1>7. \A i \in 1..Len(new) : Points(tags, new[i].ptr)
  BY <1>2
<1> QED BY <1>1, <1>2, <1>3, <1>5, <1>6, <1>7, CoreStep

\* What is pointed to are options.
LEMMA OptionsAtTyped ==
  ASSUME Typed, NEW p \in Pointers(setup), p # Freed, Points(tags, p)
  PROVE  OptionsAt(p) \in Options(setup)
<1>1. CASE p = OfDefault
  BY <1>1 DEF OptionsAt, Typed
<1>2. CASE p # OfDefault
  <2> DEFINE lts == tags[p[1]].loaded
             lt == CHOOSE lt \in ToSet(lts) : lt.name = p[2]
  <2>1. p[1] \in Tags
    <3>1. p \in Tags \X DOMAIN setup.files
      BY <1>2 DEF Pointers
    <3> QED BY <3>1
  <2>2. tags \in [Tags -> Tag(setup)]
    BY DEF Typed
  <2>3. /\ DOMAIN lts = 1..Len(lts)
        /\ \A i \in 1..Len(lts) : lts[i].options \in Options(setup)
    BY <2>1, <2>2, LoadedTyped
  <2>4. \E i \in 1..Len(lts) : lts[i].name = p[2]
    BY <1>2 DEF Points
  <2>5. ToSet(lts) = {lts[i] : i \in 1..Len(lts)}
    BY <2>3 DEF ToSet
  <2>6. lt \in ToSet(lts)
    BY <2>4, <2>5
  <2>7. OptionsAt(p) = lt.options
    BY <1>2, Zenon DEF OptionsAt
  <2> HIDE DEF lt
  <2> QED BY <2>3, <2>5, <2>6, <2>7
<1> QED BY <1>1, <1>2

\* apply_rules goes on with a rule, which runs or not, or is done.
LEMMA RulesIs ==
  ASSUME TInv, Rules, Top.ptr # Freed
  PROVE  /\ UNCHANGED <<setup, opts, default, tags, shown, opt, listeners, prohibited, error_file, fault>>
         /\ \/ stack' = Done
            \/ \E a \in Nat : a >= 1 /\
                 \/ stack' = Instead(<< <<"rules", a>> >>)
                 \/ \E i \in DOMAIN setup.rules :
                      stack' = <<Call("script", setup.scripts[setup.rules[i].run])>>
                                 \o Instead(<< <<"rules", a>> >>)
<1> DEFINE list == OptionsAt(Top.ptr).rules
           D == DOMAIN setup.rules
           a == Arg + 1
           b == Arg
           r == setup.rules[list[b]]
           d == Call("script", setup.scripts[r.run])
           steps == << <<"rules", a>> >>
<1>1. Ready("rules") /\ "rules" \in OfCore
  BY DEF Rules, OfCore
<1>2. Arg >= 1 /\ Arg \in Nat /\ Points(tags, Top.ptr) /\ Typed /\ stack # <<>>
  BY <1>1, CoreFacts, CoreNext DEF GoesOn
<1>3. /\ stack' = IF Arg > Len(list) THEN Done
                  ELSE IF Top.window \in r.matches THEN <<d>> \o Instead(steps)
                  ELSE Instead(steps)
      /\ UNCHANGED <<setup, opts, default, tags, shown, opt, listeners, prohibited, error_file, fault>>
  BY Zenon DEF Rules
<1>4. list \in Seq(D)
  <2>1. Top.ptr \in Pointers(setup)
    BY <1>2, TopTyped
  <2>2. OptionsAt(Top.ptr) \in Options(setup)
    BY <1>2, <2>1, OptionsAtTyped
  <2>3. \A o \in Options(setup) : o.rules \in Seq(DOMAIN setup.rules)
    BY DEF Options
  <2> QED BY <2>2, <2>3
<1>5. a \in Nat /\ a >= 1
  BY <1>2
<1> HIDE DEF list, D
<1>6. ~(Arg > Len(list)) => list[b] \in D
  BY <1>2, <1>4
<1>7. CASE Arg > Len(list)
  BY <1>3, <1>7, Zenon
<1>8. CASE ~(Arg > Len(list)) /\ Top.window \notin r.matches
  <2>1. stack' = Instead(steps)
    BY <1>3, <1>8, Zenon
  <2> QED BY <1>3, <1>5, <2>1
<1>9. CASE ~(Arg > Len(list)) /\ Top.window \in r.matches
  <2>1. stack' = <<d>> \o Instead(steps)
    BY <1>3, <1>9, Zenon
  <2> QED BY <1>3, <1>5, <1>6, <1>9, <2>1 DEF D
<1> QED BY <1>7, <1>8, <1>9

\* One rule after the other calls its function.
LEMMA RulesKeeps == TInv /\ Rules => TInv'
<1> SUFFICES ASSUME TInv, Rules PROVE TInv'
  OBVIOUS
<1>1. Ready("rules") /\ "rules" \in OfCore
  BY DEF Rules, OfCore
<1>2. Tail(Top.todo) = <<>> /\ setup \in Setups /\ Typed /\ stack # <<>>
  BY <1>1, CoreFacts, CoreNext DEF GoesOn
<1>3. CASE Top.ptr = Freed
  <2>1. Ends("rules_freed") /\ "rules_freed" \in Faults
    BY <1>3 DEF Rules, Faults
  <2> QED BY <2>1, EndsKeeps
<1>4. CASE Top.ptr # Freed
  <2>1. UNCHANGED <<setup, opts, default, tags, shown, opt, listeners, prohibited, error_file, fault>>
    BY <1>4, RulesIs
  <2>2. CASE stack' = Done
    BY <1>1, <1>2, <2>1, <2>2, LastKeeps
  <2>3. ASSUME NEW a \in Nat, a >= 1,
               \/ stack' = Instead(<< <<"rules", a>> >>)
               \/ \E i \in DOMAIN setup.rules :
                    stack' = <<Call("script", setup.scripts[setup.rules[i].run])>>
                               \o Instead(<< <<"rules", a>> >>)
        PROVE  TInv'
    <3> DEFINE steps == << <<"rules", a>> >>
               c == Rest(steps)
    <3>1. steps \in Steps /\ Only(steps, {"emit", "rules"}, 1)
      BY <2>3 DEF Steps, OfCore, Only
    <3>2. \/ stack' = Instead(steps)
          \/ \E i \in DOMAIN setup.rules :
               stack' = <<Call("script", setup.scripts[setup.rules[i].run])>> \o Instead(steps)
      BY <2>3
    <3> HIDE DEF steps
    <3>3. Waits(setup, shown, steps, Len(stack) = 1)
      BY <3>1 DEF Waits
    <3>4. CASE stack' = Instead(steps)
      BY <1>1, <1>2, <2>1, <3>1, <3>3, <3>4, InsteadKeeps
    <3>5. ASSUME NEW i \in DOMAIN setup.rules,
                 stack' = <<Call("script", setup.scripts[setup.rules[i].run])>> \o Instead(steps)
          PROVE  TInv'
      <4> DEFINE d == Call("script", setup.scripts[setup.rules[i].run])
      <4>1. setup.rules[i].run \in DOMAIN setup.scripts
        BY <1>2, SetupDomains
      <4>2. /\ d \in CallOf(setup) /\ d.kind = "script"
            /\ \A last : Waiting(setup, shown, d, last)
            /\ Points(tags, d.ptr)
        BY <1>2, <4>1, ScriptCall
      <4>3. /\ c \in CallOf(setup) /\ c.kind = "core" /\ c.todo = steps \o Tail(Top.todo)
            /\ Points(tags, c.ptr) /\ Instead(steps) = <<c>> \o Tail(stack)
        BY <1>1, <3>1, CoreRest
      <4>4. stack' = <<d>> \o Instead(steps)
        BY <3>5
      <4> HIDE DEF c, d
      <4>5. c.todo = steps
        BY <1>2, <3>1, <4>3, AloneIs
      <4>6. stack' = <<d>> \o (<<c>> \o Tail(stack))
        BY <4>3, <4>4
      <4> QED BY <1>1, <2>1, <3>3, <4>2, <4>3, <4>5, <4>6, CalledKeeps
    <3> QED BY <3>2, <3>4, <3>5
  <2> QED BY <1>4, <2>2, <2>3, RulesIs
<1> QED BY <1>3, <1>4

-----------------------------------------------------------------------------
(* The steps of C that change what is loaded, or what opt points to *)

\* A call returns to the one below it.
LEMMA ReturnKeeps == TInv /\ Return => TInv'
<1> SUFFICES ASSUME TInv, Return PROVE TInv'
  OBVIOUS
<1>1. /\ stack # <<>> /\ Top.todo = <<>> /\ stack' = Tail(stack)
      /\ UNCHANGED <<setup, opts, default, tags, shown, opt, listeners, prohibited, error_file, fault>>
  BY DEF Return
<1>2. Typed /\ Flags /\ OptAgrees
  BY DEF TInv
<1>3. Top = stack[1] /\ Len(stack) >= 1 /\ Len(stack) \in Nat
  BY <1>1, <1>2, TopTyped
<1>4. Recovered(<<>>)
  <2> SUFFICES ASSUME opt \in {OfDefault, Freed} PROVE Len(stack) >= 2 /\ Recovers(stack[2])
    <3>1. Len(<<>>) = 0
      OBVIOUS
    <3> QED BY <3>1 DEF Recovered
  <2>1. ~Recovers(stack[1])
    <3>1. Len(<<>>) = 0
      OBVIOUS
    <3> QED BY <1>1, <1>3, <3>1 DEF Recovers
  <2>2. stack[1].kind = "config"
    BY <1>2, <2>1 DEF OptAgrees
  <2>3. 1 < Len(stack) /\ (At(stack[2], "load_tags") \/ At(stack[2], "default_layouts"))
    <3>1. 1 \in 1..Len(stack) /\ 1 + 1 = 2
      BY <1>3
    <3> QED BY <1>2, <2>2, <3>1 DEF Flags
  <2> QED BY <1>3, <2>3 DEF At, Recovers
<1>5. prohibited \/ NoConfig
  BY <1>2 DEF Flags, NoConfig
<1> QED BY <1>1, <1>4, <1>5, PoppedKeeps

\* A pointer to a loaded layout
LEMMA RealPointer ==
  ASSUME NEW s, NEW us \in [Tags -> Tag(s)], NEW t \in Tags, NEW i \in 1..Len(us[t].loaded)
  PROVE  LET p == <<t, us[t].loaded[i].name>>
         IN  /\ p \in Pointers(s) /\ p # OfDefault /\ p # Freed /\ Points(us, p)
             /\ \A gone : t \notin gone => After(p, gone) = p
<1> DEFINE p == <<t, us[t].loaded[i].name>>
<1>1. us[t].loaded[i].name \in DOMAIN s.files
  BY LoadedTyped
<1>2. p \in Pointers(s)
  BY <1>1 DEF Pointers
<1>3. Len(p) = 2 /\ Len(OfDefault) = 0 /\ Len(Freed) = 1 /\ p[1] = t /\ p[2] = us[t].loaded[i].name
  BY DEF OfDefault, Freed
<1> HIDE DEF p
<1>4. p # OfDefault /\ p # Freed
  BY <1>3
<1>5. Points(us, p)
  BY <1>3 DEF Points
<1> QED BY <1>2, <1>3, <1>4, <1>5 DEF After, p

\* What is loaded first
LEMMA FirstLoaded ==
  ASSUME NEW s, NEW us \in [Tags -> Tag(s)], NEW t \in Tags, us[t].loaded # <<>>
  PROVE  1 \in 1..Len(us[t].loaded) /\ Head(us[t].loaded) = us[t].loaded[1]
<1>1. us[t].loaded \in Seq(Layout(s)) /\ Len(us[t].loaded) \in Nat /\ Len(us[t].loaded) # 0
  BY LoadedTyped
<1> QED BY <1>1

\* Options are there when they are pointed to.
LEMMA RealAgrees ==
  ASSUME opt' # OfDefault, opt' # Freed
  PROVE  OptAgrees'
BY DEF OptAgrees

\* A command runs with the options of the layout.
LEMMA EvalKeeps == TInv /\ Eval => TInv'
<1> SUFFICES ASSUME TInv, Eval PROVE TInv'
  OBVIOUS
<1> DEFINE p == <<shown, Head(tags[shown].loaded).name>>
           d == Call("command", setup.scripts[Arg])
           c == Rest(<<>>)
           new == <<d, c>>
<1>1. Ready("eval") /\ "eval" \in OfCore /\ opt' = p /\ stack' = <<d>> \o Done
      /\ UNCHANGED <<setup, opts, default, tags, shown, listeners, prohibited, error_file, fault>>
  BY DEF Eval, OfCore
<1>2. /\ Arg \in DOMAIN setup.scripts /\ tags[shown].loaded # <<>>
      /\ Tail(Top.todo) = << <<"focus", shown>> >>
      /\ shown \in Tags /\ Typed /\ stack # <<>> /\ (prohibited \/ NoConfig)
      /\ tags \in [Tags -> Tag(setup)]
  BY <1>1, CoreFacts, CoreNext DEF GoesOn, Typed
<1>3. p \in Pointers(setup) /\ p # OfDefault /\ p # Freed /\ Points(tags, p)
  BY <1>2, FirstLoaded, RealPointer
<1> HIDE DEF p
<1>4. /\ d \in CallOf(setup) /\ d.kind = "command"
      /\ \A last : Waiting(setup, shown, d, last)
      /\ \A ts, gone : Points(ts, After(d.ptr, gone))
  BY <1>2, ScriptCall
<1>5. /\ c \in CallOf(setup) /\ c.kind = "core" /\ c.todo = << <<"focus", shown>> >>
      /\ Points(tags, c.ptr) /\ Done = <<c>> \o Tail(stack)
  BY <1>1, <1>2, CoreDoneIs
<1> HIDE DEF c, d
<1>6. stack' = new \o Tail(stack)
  BY <1>1, <1>2, <1>4, <1>5, Pushed
<1>7. Waits(setup, shown, c.todo, Len(stack) = 1)
  <2>1. Len(c.todo) = 1 /\ c.todo[1] = <<"focus", shown>> /\ Tail(c.todo) = <<>>
    BY <1>5, ShortTails
  <2> QED BY <2>1 DEF Waits, Follows
<1>8. /\ new \in Seq(CallOf(setup)) /\ Len(new) = 2 /\ 1..Len(new) = {1, 2}
      /\ new[1] = d /\ new[2] = c /\ Fit(new) /\ NoNewConfig(new)
  BY <1>4, <1>5, <1>7, TwoGo
<1> HIDE DEF new
<1>9. Became(new, {})
  BY <1>2, <1>6, <1>8, BecomesWithout DEF Typed
<1>10. \A i \in 1..Len(new) : Points(tags', After(new[i].ptr, {}))
  <2>1. After(c.ptr, {}) = c.ptr
    BY DEF After
  <2> QED BY <1>1, <1>4, <1>5, <1>8, <2>1
<1>11. /\ opts' \in Options(setup) /\ default' \in DOMAIN setup.files
       /\ tags' \in [Tags -> Tag(setup)] /\ opt' \in Pointers(setup) /\ Points(tags', opt')
       /\ listeners' \in Seq(DOMAIN setup.scripts) /\ prohibited' \in BOOLEAN
       /\ error_file' \in BOOLEAN /\ fault' \in Faults /\ (prohibited' \/ NoConfig)
       /\ setup' = setup /\ shown' = shown
  BY <1>1, <1>2, <1>3 DEF Typed
<1>12. Distinct' /\ OptAgrees'
  <2>1. Distinct'
    BY <1>1 DEF TInv, Distinct
  <2> QED BY <1>1, <1>3, <2>1, RealAgrees
<1>13. \A t \in Tags \ {} : \A i \in 1..Len(tags[t].loaded) :
         \E j \in 1..Len(tags'[t].loaded) : tags'[t].loaded[j].name = tags[t].loaded[i].name
  BY <1>1
<1> QED BY <1>2, <1>8, <1>9, <1>10, <1>11, <1>12, <1>13, StepKept

\* The config file is found and run.
LEMMA LoadConfigKeeps == TInv /\ LoadConfig => TInv'
<1> SUFFICES ASSUME TInv, LoadConfig PROVE TInv'
  OBVIOUS
<1>1. Ready("config") /\ "config" \in OfCore /\ opt' = OfDefault
      /\ UNCHANGED <<setup, opts, default, tags, shown, listeners, prohibited, error_file, fault>>
  BY DEF LoadConfig, OfCore
<1> PICK f \in setup.configs : stack' = <<Call("config", f)>> \o Done
  BY DEF LoadConfig
<1> DEFINE d == Call("config", f)
           c == Rest(<<>>)
           new == <<d, c>>
<1>2. /\ Tail(Top.todo) = AfterConfig(shown)
           \/ (Len(stack) = 1 /\ shown = 0 /\ Tail(Top.todo) = AfterFirst)
      /\ shown \in Tags /\ Typed /\ Forms /\ stack # <<>> /\ setup \in Setups
      /\ Top = stack[1] /\ At(stack[1], "config")
  BY <1>1, CoreFacts, CoreNext DEF GoesOn, At
<1>3. prohibited /\ Bare /\ NoConfig
  <2>1. 1 \in 1..Len(stack) /\ Flags
    BY <1>2, TopTyped DEF TInv
  <2> QED BY <1>2, <2>1 DEF Flags, NoConfig
<1>4. /\ d \in CallOf(setup) /\ d.kind = "config" /\ d.todo = f
      /\ \A ts, gone : Points(ts, d.ptr) /\ Points(ts, After(d.ptr, gone))
      /\ \A last : Waiting(setup, shown, d, last)
  <2>1. f \in Seq(Statements(setup))
    BY <1>2, SetupFacts
  <2>2. f \in Steps
    BY <1>2, <2>1, StatementsAreSteps
  <2>3. "config" \in Kinds
    BY DEF Kinds
  <2>4. /\ d \in CallOf(setup) /\ d.kind = "config" /\ d.todo = f
        /\ \A ts, gone : Points(ts, d.ptr) /\ Points(ts, After(d.ptr, gone))
    BY <2>2, <2>3, CallTyped
  <2> HIDE DEF d
  <2>5. Says(setup, d)
    BY <2>1, <2>4 DEF Says
  <2> QED BY <2>4, <2>5 DEF Waiting
<1>5. /\ c \in CallOf(setup) /\ c.kind = "core" /\ c.todo = Tail(Top.todo)
      /\ Points(tags, c.ptr) /\ Done = <<c>> \o Tail(stack)
  BY <1>1, CoreDoneIs
<1> HIDE DEF c, d
<1>6. stack' = new \o Tail(stack)
  BY <1>2, <1>4, <1>5, Pushed DEF d
<1>7. /\ new \in Seq(CallOf(setup)) /\ Len(new) = 2 /\ new[1] = d /\ new[2] = c
      /\ 1..Len(new) = {1, 2}
  BY <1>4, <1>5, CallsTyped
<1>8. Waits(setup, shown, c.todo, Len(stack) = 1)
      /\ (At(c, "load_tags") \/ At(c, "default_layouts")) /\ ~At(c, "config")
  <2> DEFINE a == AfterConfig(shown)
             b == AfterFirst
  <2>1. /\ Len(a) = 3 /\ a[1][1] = "default_layouts"
        /\ Len(b) = 4 /\ b[1][1] = "load_tags"
    BY DEF AfterConfig, AfterFirst
  <2>2. /\ \A last : Waits(setup, shown, a, last)
        /\ shown = 0 => Waits(setup, shown, b, TRUE)
    BY DEF Waits
  <2> HIDE DEF a, b
  <2>3. c.todo = Tail(Top.todo)
    BY <1>5
  <2>4. CASE Tail(Top.todo) = a
    <3>1. c.todo = a
      BY <2>4, <2>3, Zenon
    <3>2. Len(c.todo) = 3 /\ c.todo[1][1] = "default_layouts"
      BY <2>1, <3>1, Zenon
    <3>3. Waits(setup, shown, c.todo, Len(stack) = 1)
      BY <2>2, <2>4, <3>1, Zenon
    <3>4. Len(c.todo) >= 1
      BY <3>2
    <3> QED BY <1>5, <3>2, <3>3, <3>4 DEF At
  <2>5. CASE Len(stack) = 1 /\ shown = 0 /\ Tail(Top.todo) = b
    <3>1. c.todo = b
      BY <2>5, <2>3, Zenon
    <3>2. Len(c.todo) = 4 /\ c.todo[1][1] = "load_tags"
      BY <2>1, <3>1, Zenon
    <3>3. Waits(setup, shown, c.todo, Len(stack) = 1)
      BY <2>2, <2>5, <3>1, Zenon
    <3>4. Len(c.todo) >= 1
      BY <3>2
    <3> QED BY <1>5, <3>2, <3>3, <3>4 DEF At
  <2> QED BY <1>2, <2>4, <2>5 DEF a, b
<1> HIDE DEF new
<1>9. Fit(new)
  BY <1>4, <1>5, <1>7, <1>8 DEF Fit, Waiting
<1>10. Became(new, {})
  BY <1>2, <1>6, <1>7, BecomesWithout DEF Typed
<1>11. Len(stack') = Len(stack) + 1 /\ Len(stack) \in Nat /\ Len(stack) >= 1
       /\ Same(stack'[1], d, {}) /\ Same(stack'[2], c, {})
       /\ \A i \in 3..Len(stack') : i - 1 \in 2..Len(stack) /\ Same(stack'[i], stack[i - 1], {})
  BY <1>2, <1>7, <1>10, TopTyped DEF Became
<1>12. Flags'
  <2>1. stack'[1].kind = "config" /\ stack'[2].kind = "core" /\ ~At(stack'[1], "config")
        /\ ~At(stack'[2], "config")
        /\ (At(stack'[2], "load_tags") \/ At(stack'[2], "default_layouts"))
    <3>1. stack'[1].kind = "config" /\ stack'[2].kind = "core"
      BY <1>4, <1>5, <1>11 DEF Same
    <3>2. \A op : At(stack'[2], op) <=> At(c, op)
      BY <1>11 DEF Same, At
    <3> QED BY <1>8, <3>1, <3>2 DEF At
  <2>2. ASSUME NEW i \in 1..Len(stack'), i >= 3
        PROVE  stack'[i].kind # "config" /\ ~At(stack'[i], "config")
    <3> DEFINE j == i - 1
    <3>1. j \in 2..Len(stack) /\ j \in 1..Len(stack) /\ Same(stack'[i], stack[j], {})
      BY <1>11, <2>2
    <3> HIDE DEF j
    <3>2. stack[j].kind # "config" /\ ~At(stack[j], "config")
      BY <1>2, <1>3, <3>1, BelowWaits DEF NoConfig
    <3> QED BY <3>1, <3>2 DEF Same, At
  <2>3. \A i \in 1..Len(stack') : /\ stack'[i].kind = "config" => i = 1
                                  /\ ~At(stack'[i], "config")
    <3> SUFFICES ASSUME NEW i \in 1..Len(stack')
                 PROVE  (stack'[i].kind = "config" => i = 1) /\ ~At(stack'[i], "config")
      OBVIOUS
    <3>1. i = 1 \/ i = 2 \/ i >= 3
      BY <1>11
    <3> QED BY <2>1, <2>2, <3>1
  <2>4. prohibited' /\ 1 < Len(stack') /\ 1 + 1 = 2
    BY <1>1, <1>3, <1>11
  <2> QED BY <2>1, <2>3, <2>4 DEF Flags
<1>13. Bare' /\ Distinct' /\ tags'[shown'].loaded = <<>>
  BY <1>1, <1>2, <1>3 DEF Bare, TInv, Distinct
<1>14. OptAgrees'
  <2>1. stack'[1].kind = "config" /\ Len(stack') >= 1
    BY <1>4, <1>11 DEF Same
  <2> QED BY <1>1, <1>13, <2>1 DEF OptAgrees
<1>15. \A i \in 1..Len(new) : Points(tags', After(new[i].ptr, {}))
  <2>1. After(c.ptr, {}) = c.ptr
    BY DEF After
  <2> QED BY <1>1, <1>4, <1>5, <1>7, <2>1
<1>16. /\ opts' \in Options(setup) /\ default' \in DOMAIN setup.files
       /\ tags' \in [Tags -> Tag(setup)] /\ opt' \in Pointers(setup) /\ Points(tags', opt')
       /\ listeners' \in Seq(DOMAIN setup.scripts) /\ prohibited' \in BOOLEAN
       /\ error_file' \in BOOLEAN /\ fault' \in Faults
       /\ setup' = setup /\ shown' = shown
  BY <1>1, <1>2 DEF Typed, Pointers, Points
<1>17. \A t \in Tags \ {} : \A i \in 1..Len(tags[t].loaded) :
         \E j \in 1..Len(tags'[t].loaded) : tags'[t].loaded[j].name = tags[t].loaded[i].name
  BY <1>1
<1> QED BY <1>2, <1>9, <1>10, <1>12, <1>13, <1>14, <1>15, <1>16, <1>17, StepKept

\* The tags of the monitor are made.
LEMMA LoadTagsKeeps == TInv /\ LoadTags => TInv'
<1> SUFFICES ASSUME TInv, LoadTags PROVE TInv'
  OBVIOUS
<1> DEFINE n == opts.names
           gone == Listed(n)
           c == Rest(<<>>)
           new == <<c>>
<1>1. Ready("load_tags") /\ "load_tags" \in OfCore /\ tags' = Renamed(n)
      /\ RemoveLayouts(gone, Done)
      /\ UNCHANGED <<setup, opts, default, shown, listeners, prohibited, error_file, fault>>
  BY DEF LoadTags, OfCore
<1>2. /\ Len(stack) = 1 /\ shown = 0 /\ Tail(Top.todo) = AfterNames
      /\ Typed /\ stack # <<>> /\ setup \in Setups /\ (prohibited \/ NoConfig) /\ shown \in Tags
  BY <1>1, CoreFacts, CoreNext DEF GoesOn
<1>3. n \in DOMAIN setup.names /\ setup.names[n] \in Nat
  <2>1. opts \in Options(setup)
    BY <1>2 DEF Typed
  <2>2. \A o \in Options(setup) : o.names \in DOMAIN setup.names
    BY DEF Options
  <2> QED BY <1>2, <2>1, <2>2, SetupFacts
<1> HIDE DEF n
<1>4. /\ tags' \in [Tags -> Tag(setup)]
      /\ \A t \in gone : t \in Tags /\ tags'[t].loaded = <<>>
      /\ \A t \in Tags \ gone : tags'[t] = tags[t]
  BY <1>1, <1>2, <1>3, RenamedTyped
<1>5. Cleared(gone)
  BY <1>4 DEF Cleared
<1>6. opt[1] \in gone => tags'[shown].loaded = <<>>
  <2> SUFFICES ASSUME opt[1] \in gone PROVE shown \in gone
    BY <1>4
  <2>1. opt[1] \in Tags /\ opt[1] < setup.names[n]
    BY DEF Listed
  <2>2. opt[1] \in Nat
    BY <2>1, TagsAssumption
  <2>3. 0 < setup.names[n]
    BY <1>3, <2>1, <2>2
  <2> QED BY <1>2, <2>3 DEF Listed
<1>7. /\ c \in CallOf(setup) /\ c.kind = "core" /\ c.todo = AfterNames
      /\ Points(tags, c.ptr) /\ Done = new \o Tail(stack)
  BY <1>1, <1>2, CoreDoneIs
<1> HIDE DEF c, gone
<1>8. Waits(setup, shown, c.todo, Len(stack) = 1)
  BY <1>2, <1>7 DEF Waits
<1>9. Recovers(c)
  <2>1. Len(c.todo) = 3 /\ c.todo[1][1] = "allow"
    BY <1>7 DEF AfterNames
  <2> QED BY <1>7, <2>1 DEF Recovers
<1>10. Goes(c)
  BY <1>7, <1>8, WaitsGoes
<1>11. /\ new \in Seq(CallOf(setup)) /\ Len(new) = 1 /\ 1..Len(new) = {1} /\ new[1] = c
       /\ Fit(new) /\ NoNewConfig(new)
  BY <1>7, <1>10, OneGoes
<1> HIDE DEF new
<1>12. \A i \in 1..Len(new) : Points(tags, new[i].ptr)
  BY <1>7, <1>11
<1>13. RemoveLayouts(gone, new \o Tail(stack))
  BY <1>1, <1>7
<1>14. /\ opts' \in Options(setup) /\ default' \in DOMAIN setup.files
       /\ listeners' \in Seq(DOMAIN setup.scripts) /\ prohibited' \in BOOLEAN
       /\ error_file' \in BOOLEAN /\ fault' \in Faults /\ (prohibited' \/ NoConfig)
       /\ setup' = setup /\ shown' = shown
  BY <1>1, <1>2 DEF Typed
<1> QED BY <1>2, <1>4, <1>5, <1>6, <1>9, <1>11, <1>12, <1>13, <1>14, FreedKept

-----------------------------------------------------------------------------
(* The layouts of a tag are loaded and reordered *)

\* Where the element at position j was before that at position i came to the front
Was(i, j) == IF j = 1 THEN i ELSE IF j <= i THEN j - 1 ELSE j

\* Every place was one place before, and only one.
LEMMA WasBijective ==
  ASSUME NEW n \in Nat, NEW i \in 1..n
  PROVE  /\ \A j \in 1..n : Was(i, j) \in 1..n
         /\ \A j, k \in 1..n : Was(i, j) = Was(i, k) => j = k
         /\ \A k \in 1..n : \E j \in 1..n : Was(i, j) = k
<1>1. \A j \in 1..n : Was(i, j) \in 1..n
  BY DEF Was
<1>2. \A j, k \in 1..n : Was(i, j) = Was(i, k) => j = k
  BY DEF Was
<1>3. ASSUME NEW k \in 1..n PROVE \E j \in 1..n : Was(i, j) = k
  <2>1. CASE k = i
    <3>1. 1 \in 1..n /\ Was(i, 1) = k
      BY <2>1 DEF Was
    <3> QED BY <3>1
  <2>2. CASE k < i
    <3>1. k + 1 \in 1..n /\ Was(i, k + 1) = k
      BY <2>2 DEF Was
    <3> QED BY <3>1
  <2>3. CASE k > i
    <3>1. Was(i, k) = k
      BY <2>3 DEF Was
    <3> QED BY <3>1
  <2> QED BY <2>1, <2>2, <2>3
<1> QED BY <1>1, <1>2, <1>3

\* A list with one of its members moved to the front
LEMMA ToFront ==
  ASSUME NEW X, NEW s \in Seq(X), NEW i \in 1..Len(s)
  PROVE  LET f == <<s[i]>> \o RemoveAt(s, i)
         IN  /\ f \in Seq(X) /\ Len(f) = Len(s) /\ f # <<>>
             /\ \A j \in 1..Len(s) : f[j] = s[Was(i, j)]
<1> DEFINE one == <<s[i]>>
           r == RemoveAt(s, i)
           f == one \o r
<1>1. Len(s) \in Nat /\ s[i] \in X
  OBVIOUS
<1>2. one \in Seq(X) /\ Len(one) = 1 /\ one[1] = s[i]
  BY <1>1
<1>3. /\ r \in Seq(X) /\ Len(r) = Len(s) - 1
      /\ \A j \in 1..(Len(s) - 1) : r[j] = IF j < i THEN s[j] ELSE s[j + 1]
  BY Removed
<1> HIDE DEF one, r
<1>4. /\ f \in Seq(X) /\ Len(f) = Len(one) + Len(r)
      /\ \A j \in 1..(Len(one) + Len(r)) : f[j] = IF j <= Len(one) THEN one[j] ELSE r[j - Len(one)]
  BY <1>2, <1>3, ConcatProperties
<1> HIDE DEF f
<1>5. Len(f) = Len(s) /\ Len(s) >= 1
  BY <1>1, <1>2, <1>3, <1>4
<1>6. f # <<>>
  BY <1>4, <1>5, EmptySeq
<1>7. ASSUME NEW j \in 1..Len(s) PROVE f[j] = s[Was(i, j)]
  <2>1. CASE j = 1
    <3>1. f[j] = one[1]
      BY <1>2, <1>3, <1>4, <1>5, <2>1
    <3> QED BY <1>2, <2>1, <3>1 DEF Was
  <2>2. CASE j # 1
    <3>1. j - 1 \in 1..(Len(s) - 1) /\ j \in 1..(Len(one) + Len(r)) /\ ~(j <= Len(one))
      BY <1>1, <1>2, <1>3, <2>2
    <3>2. f[j] = r[j - 1]
      BY <1>2, <1>4, <3>1
    <3>3. r[j - 1] = IF j - 1 < i THEN s[j - 1] ELSE s[(j - 1) + 1]
      BY <1>3, <3>1
    <3>4. (j - 1 < i <=> j <= i) /\ (j - 1) + 1 = j
      BY <1>1
    <3> QED BY <2>2, <3>2, <3>3, <3>4 DEF Was
  <2> QED BY <2>1, <2>2
<1> QED BY <1>4, <1>5, <1>6, <1>7 DEF one, r, f

\* A layout of a tag comes to the front: it has the same layouts.
InFront(t, i) == [tags EXCEPT ![t].loaded = <<tags[t].loaded[i]>> \o RemoveAt(tags[t].loaded, i)]

\* The layouts of a tag in another order are typed and distinct, and none is lost.
LEMMA FrontTyped ==
  ASSUME Typed, Distinct, NEW t \in Tags, NEW i \in 1..Len(tags[t].loaded), tags' = InFront(t, i)
  PROVE  /\ tags' \in [Tags -> Tag(setup)] /\ Distinct' /\ tags'[t].loaded # <<>>
         /\ \A u \in Tags : /\ Len(tags'[u].loaded) = Len(tags[u].loaded)
                            /\ u # t => tags'[u].loaded = tags[u].loaded
         /\ \A j \in 1..Len(tags[t].loaded) : tags'[t].loaded[j] = tags[t].loaded[Was(i, j)]
         /\ \A u \in Tags : \A k \in 1..Len(tags[u].loaded) :
              \E j \in 1..Len(tags'[u].loaded) : tags'[u].loaded[j].name = tags[u].loaded[k].name
<1> DEFINE lts == tags[t].loaded
           f == <<lts[i]>> \o RemoveAt(lts, i)
<1>1. tags \in [Tags -> Tag(setup)] /\ lts \in Seq(Layout(setup)) /\ Len(lts) \in Nat
  BY LoadedTyped DEF Typed
<1>2. /\ f \in Seq(Layout(setup)) /\ Len(f) = Len(lts) /\ f # <<>>
      /\ \A j \in 1..Len(lts) : f[j] = lts[Was(i, j)]
  BY <1>1, ToFront
<1>3. tags' = [tags EXCEPT ![t].loaded = f]
  BY Zenon DEF InFront
<1> HIDE DEF f
<1>4. /\ tags' \in [Tags -> Tag(setup)]
      /\ \A u \in Tags : tags'[u].loaded = IF u = t THEN f ELSE tags[u].loaded
  BY <1>1, <1>2, <1>3, LoadedReplaced
<1> HIDE DEF lts
<1>5. /\ \A j \in 1..Len(lts) : Was(i, j) \in 1..Len(lts)
      /\ \A j, k \in 1..Len(lts) : Was(i, j) = Was(i, k) => j = k
      /\ \A k \in 1..Len(lts) : \E j \in 1..Len(lts) : Was(i, j) = k
  BY <1>1, WasBijective DEF lts
<1>6. Distinct'
  <2> SUFFICES ASSUME NEW u \in Tags, NEW j \in 1..Len(tags'[u].loaded),
                      NEW k \in 1..Len(tags'[u].loaded),
                      tags'[u].loaded[j].name = tags'[u].loaded[k].name
               PROVE  j = k
    BY DEF Distinct
  <2>1. CASE u = t
    <3>1. j \in 1..Len(lts) /\ k \in 1..Len(lts) /\ f[j].name = f[k].name
      BY <1>2, <1>4, <2>1
    <3>2. lts[Was(i, j)].name = lts[Was(i, k)].name
      BY <1>2, <3>1
    <3>3. Was(i, j) = Was(i, k)
      BY <1>5, <3>1, <3>2 DEF Distinct, lts
    <3> QED BY <1>5, <3>1, <3>3
  <2>2. CASE u # t
    BY <1>4, <2>2 DEF Distinct
  <2> QED BY <2>1, <2>2
<1>7. ASSUME NEW u \in Tags, NEW k \in 1..Len(tags[u].loaded)
      PROVE  \E j \in 1..Len(tags'[u].loaded) : tags'[u].loaded[j].name = tags[u].loaded[k].name
  <2>1. CASE u = t
    <3>1. PICK j \in 1..Len(lts) : Was(i, j) = k
      BY <1>5, <2>1 DEF lts
    <3>2. f[j] = lts[k] /\ j \in 1..Len(f)
      BY <1>2, <3>1
    <3> QED BY <1>4, <2>1, <3>2 DEF lts
  <2>2. CASE u # t
    BY <1>4, <2>2
  <2> QED BY <2>1, <2>2
<1> QED BY <1>2, <1>4, <1>6, <1>7 DEF lts

\* What follows when a layout is loaded is no run of the config file.
LEMMA FollowsHeads ==
  ASSUME NEW s, NEW sh, NEW r, NEW t, NEW last, Follows(s, sh, r, t, last), Len(r) >= 1
  PROVE  r[1][1] \in {"name", "tags", "key", "title", "eval"}
BY DEF Follows, Only

\* A layout comes to the front, and the call goes on.
LEMMA FrontKeeps ==
  ASSUME TInv, NEW op \in OfCore, Ready(op), op \in {"focus", "get", "placed"},
         NEW t \in Tags, op = "focus" => t = shown, NEW i \in 1..Len(tags[t].loaded),
         tags' = InFront(t, i),
         UNCHANGED <<setup, opts, default, shown, opt, listeners, prohibited, error_file, fault>>,
         NEW c \in CallOf(setup), c.kind = "core", c.ptr = Top.ptr,
         Follows(setup, shown, c.todo, t, Len(stack) = 1), stack' = <<c>> \o Tail(stack)
  PROVE  TInv' /\ opt # OfDefault /\ opt # Freed
<1> DEFINE new == <<c>>
<1>1. Typed /\ Distinct /\ stack # <<>> /\ (prohibited \/ NoConfig) /\ shown \in Tags
      /\ Points(tags, Top.ptr) /\ (opt \in {OfDefault, Freed} => Recovers(Top)) /\ OptAgrees
      /\ Top.todo[1][1] = op
  BY CoreFacts DEF TInv
<1>2. /\ tags' \in [Tags -> Tag(setup)] /\ Distinct' /\ tags'[t].loaded # <<>>
      /\ \A u \in Tags : \A k \in 1..Len(tags[u].loaded) :
           \E j \in 1..Len(tags'[u].loaded) : tags'[u].loaded[j].name = tags[u].loaded[k].name
  BY <1>1, FrontTyped
<1>3. opt # OfDefault /\ opt # Freed
  <2> SUFFICES ASSUME opt \in {OfDefault, Freed} PROVE FALSE
    OBVIOUS
  <2>1. op = "focus"
    BY <1>1 DEF Recovers
  <2>2. tags[shown].loaded = <<>> /\ t = shown
    BY <1>1, <2>1 DEF OptAgrees
  <2>3. Len(tags[shown].loaded) = 0 /\ tags \in [Tags -> Tag(setup)]
    BY <1>1, <2>2, LoadedTyped DEF Typed
  <2> QED BY <2>2, <2>3
<1>4. Goes(c)
  <2>1. ~At(c, "config")
    BY FollowsHeads DEF At
  <2>2. \/ Waits(setup, shown, c.todo, Len(stack) = 1)
        \/ Begins(setup, shown, tags', c.todo, Len(stack) = 1)
    BY <1>2, FollowsOn
  <2> QED BY <2>1, <2>2 DEF Goes
<1>5. /\ new \in Seq(CallOf(setup)) /\ Len(new) = 1 /\ 1..Len(new) = {1} /\ new[1] = c
      /\ Fit(new) /\ NoNewConfig(new) /\ stack' = new \o Tail(stack)
  BY <1>4, OneGoes
<1> HIDE DEF new
<1>6. Became(new, {})
  BY <1>1, <1>5, BecomesWithout DEF Typed
<1>7. \A p \in Pointers(setup) : Points(tags, p) => Points(tags', After(p, {}))
  BY <1>2, PointsKept
<1>8. opt \in Pointers(setup) /\ Points(tags', opt') /\ Top.ptr \in Pointers(setup)
  <2>1. opt \in Pointers(setup) /\ Points(tags, opt) /\ After(opt, {}) = opt
    BY DEF TInv, Typed, Pointed, After
  <2>2. Top.ptr \in Pointers(setup)
    <3>1. 1 \in 1..Len(stack) /\ Top = stack[1]
      BY <1>1, TopTyped
    <3> QED BY <1>1, <3>1, TopTyped
  <2> QED BY <1>7, <2>1, <2>2
<1>9. \A j \in 1..Len(new) : Points(tags', After(new[j].ptr, {}))
  BY <1>1, <1>5, <1>7, <1>8
<1>10. OptAgrees'
  BY <1>3, RealAgrees
<1>11. /\ opts' \in Options(setup) /\ default' \in DOMAIN setup.files /\ opt' \in Pointers(setup)
       /\ listeners' \in Seq(DOMAIN setup.scripts) /\ prohibited' \in BOOLEAN
       /\ error_file' \in BOOLEAN /\ fault' \in Faults /\ (prohibited' \/ NoConfig)
       /\ setup' = setup /\ shown' = shown
  BY <1>1, <1>8 DEF Typed
<1>12. \A u \in Tags \ {} : \A k \in 1..Len(tags[u].loaded) :
         \E j \in 1..Len(tags'[u].loaded) : tags'[u].loaded[j].name = tags[u].loaded[k].name
  BY <1>2
<1>13. TInv'
  BY <1>1, <1>2, <1>5, <1>6, <1>8, <1>9, <1>10, <1>11, <1>12, StepKept
<1> QED BY <1>3, <1>13

\* A layout is added to those of a tag.
Loading(t, l) == [tags EXCEPT ![t].loaded = Append(tags[t].loaded, l)]

\* A tag gets a layout it does not have: the layouts are distinct, and the others stay.
LEMMA LayoutAdded ==
  ASSUME Typed, Distinct, NEW t \in Tags, NEW l \in Layout(setup),
         \A i \in 1..Len(tags[t].loaded) : tags[t].loaded[i].name # l.name,
         tags' = Loading(t, l)
  PROVE  LET n == Len(tags[t].loaded) + 1
         IN  /\ tags' \in [Tags -> Tag(setup)] /\ Distinct'
             /\ Len(tags'[t].loaded) = n /\ n \in 1..Len(tags'[t].loaded)
             /\ tags'[t].loaded[n] = l
             /\ \A u \in Tags : \A k \in 1..Len(tags[u].loaded) :
                  k \in 1..Len(tags'[u].loaded) /\ tags'[u].loaded[k] = tags[u].loaded[k]
             /\ \A u \in Tags : u # t => tags'[u].loaded = tags[u].loaded
<1> DEFINE lts == tags[t].loaded
           m == Len(lts)
           f == Append(lts, l)
           L == Layout(setup)
<1>1. tags \in [Tags -> Tag(setup)] /\ lts \in Seq(L) /\ m \in Nat
  BY LoadedTyped DEF Typed
<1> HIDE DEF L
<1>2. /\ f \in Seq(L) /\ Len(f) = m + 1 /\ f[m + 1] = l
      /\ \A k \in 1..m : f[k] = lts[k]
  BY <1>1, AppendProperties DEF L
<1>3. tags' = [tags EXCEPT ![t].loaded = f] /\ f \in Seq(Layout(setup))
  BY <1>2, Zenon DEF L, Loading
<1>4. tags \in [Tags -> Tag(setup)]
  BY <1>1
<1> HIDE DEF f
<1>5. /\ tags' \in [Tags -> Tag(setup)]
      /\ \A u \in Tags : tags'[u].loaded = IF u = t THEN f ELSE tags[u].loaded
  BY <1>3, <1>4, LoadedReplaced
<1>6. \A k \in 1..m : lts[k].name # l.name
  OBVIOUS
<1> HIDE DEF lts, m
<1>7. Distinct'
  <2> SUFFICES ASSUME NEW u \in Tags, NEW j \in 1..Len(tags'[u].loaded),
                      NEW k \in 1..Len(tags'[u].loaded),
                      tags'[u].loaded[j].name = tags'[u].loaded[k].name
               PROVE  j = k
    BY DEF Distinct
  <2>1. CASE u = t
    <3>1. j \in 1..(m + 1) /\ k \in 1..(m + 1) /\ f[j].name = f[k].name
      BY <1>2, <1>5, <2>1
    <3>2. \A a, b \in 1..m : lts[a].name = lts[b].name => a = b
      BY DEF Distinct, lts, m
    <3>3. (j = m + 1 \/ j \in 1..m) /\ (k = m + 1 \/ k \in 1..m)
      BY <1>1, <3>1
    <3> QED BY <1>2, <1>6, <3>1, <3>2, <3>3
  <2>2. CASE u # t
    BY <1>5, <2>2 DEF Distinct
  <2> QED BY <2>1, <2>2
<1>8. ASSUME NEW u \in Tags, NEW k \in 1..Len(tags[u].loaded)
      PROVE  k \in 1..Len(tags'[u].loaded) /\ tags'[u].loaded[k] = tags[u].loaded[k]
  <2>1. CASE u = t
    <3>1. k \in 1..m /\ k \in 1..(m + 1)
      BY <1>1, <2>1 DEF lts, m
    <3> QED BY <1>2, <1>5, <2>1, <3>1 DEF lts
  <2>2. CASE u # t
    BY <1>5, <2>2
  <2> QED BY <2>1, <2>2
<1>9. m + 1 \in 1..(m + 1)
  BY <1>1
<1> QED BY <1>2, <1>5, <1>7, <1>8, <1>9 DEF lts, m

\* Two steps before others
LEMMA TwoSteps ==
  ASSUME NEW S, NEW r \in Seq(S), NEW a \in S, NEW b \in S
  PROVE  LET v == <<a, b>> \o r
         IN  /\ v \in Seq(S) /\ Len(v) = Len(r) + 2 /\ v[1] = a /\ v[2] = b
             /\ Tail(Tail(v)) = r
<1> DEFINE u == <<b>> \o r
           v == <<a>> \o u
<1>0. r \in Seq(S) /\ a \in S /\ b \in S
  OBVIOUS
<1>1. v = <<a, b>> \o r
  BY <1>0, Joined
<1>2. u \in Seq(S) /\ Len(u) = Len(r) + 1 /\ u # <<>> /\ u[1] = b /\ Tail(u) = r
  BY Consed
<1> HIDE DEF u
<1>3. v \in Seq(S) /\ Len(v) = Len(u) + 1 /\ v # <<>> /\ v[1] = a /\ Tail(v) = u
  BY <1>2, Consed
<1> HIDE DEF v
<1>4. Len(r) \in Nat
  OBVIOUS
<1>5. v[2] = Tail(v)[1]
  BY <1>2, <1>3, <1>4, HeadTailProperties
<1>6. v \in Seq(S) /\ Len(v) = Len(r) + 2 /\ v[1] = a /\ v[2] = b /\ Tail(Tail(v)) = r
  BY <1>2, <1>3, <1>4, <1>5
<1> QED BY <1>1, <1>6

\* What is left while the file of a layout runs
LEMMA PlacedWaits ==
  ASSUME NEW s, NEW sh, NEW t \in Tags, NEW n \in Nat, n >= 1, NEW r \in Steps, NEW last,
         Follows(s, sh, r, t, last)
  PROVE  LET steps == << <<"placed", n>>, <<"front", t>> >>
         IN  steps \in Steps /\ Waits(s, sh, steps \o r, last)
<1> DEFINE X == (Spoken \cup OfCore) \X Nat
           a == <<"placed", n>>
           b == <<"front", t>>
           steps == <<a, b>>
           v == steps \o r
<1>1. a \in X /\ b \in X /\ a[1] = "placed" /\ a[2] = n
  <2>1. t \in Nat
    BY TagsAssumption
  <2> QED BY <2>1 DEF OfCore
<1>2. b = <<"front", t>>
  OBVIOUS
<1>3. r \in Seq(X) /\ Len(r) \in Nat
  BY DEF Steps
<1> HIDE DEF X, a, b
<1>4. /\ v \in Seq(X) /\ Len(v) = Len(r) + 2 /\ v[1] = a /\ v[2] = b
      /\ Tail(Tail(v)) = r
  BY <1>1, <1>3, TwoSteps
<1>5. steps \in Steps
  <2>1. steps \in Seq(X)
    BY <1>1
  <2> QED BY <2>1 DEF X, Steps
<1> HIDE DEF v
<1>6. Len(v) >= 2
  BY <1>3, <1>4
<1>7. /\ Len(v) >= 2 /\ v[1][1] = "placed" /\ v[1][2] >= 1
      /\ v[2] = <<"front", t>> /\ Follows(s, sh, Tail(Tail(v)), t, last)
  BY <1>1, <1>2, <1>4, <1>6
<1>8. Waits(s, sh, v, last)
  BY <1>7 DEF Waits
<1> QED BY <1>5, <1>8 DEF a, b, v, steps

\* focus_layout finds the layout or runs its file.
LEMMA FocusLayoutKeeps ==
  ASSUME TInv, NEW op \in OfCore, Ready(op), op \in {"focus", "get"},
         NEW t \in Tags, op = "focus" => t = shown,
         Follows(setup, shown, Tail(Top.todo), t, Len(stack) = 1), FocusLayout(t),
         UNCHANGED <<setup, opts, default, shown, listeners, prohibited, error_file, fault>>
  PROVE  TInv'
<1> DEFINE lts == tags[t].loaded
           name == tags[t].layout
           at == {i \in DOMAIN lts : lts[i].name = name}
<1>1. /\ Typed /\ Distinct /\ stack # <<>> /\ (prohibited \/ NoConfig) /\ setup \in Setups
      /\ shown \in Tags /\ tags \in [Tags -> Tag(setup)] /\ Tail(Top.todo) \in Steps
  BY CoreFacts DEF TInv, Typed
<1>2. /\ Len(lts) \in Nat /\ DOMAIN lts = 1..Len(lts) /\ name \in DOMAIN setup.files
  BY <1>1, LoadedTyped
<1>3. CASE at # {}
  <2> DEFINE i == CHOOSE i \in at : TRUE
             c == Rest(<<>>)
  <2>1. stack' = Done /\ tags' = InFront(t, i) /\ opt' = opt
    BY <1>3 DEF FocusLayout, InFront
  <2>2. i \in 1..Len(lts)
    BY <1>2, <1>3
  <2>3. /\ c \in CallOf(setup) /\ c.kind = "core" /\ c.todo = Tail(Top.todo)
        /\ c.ptr = Top.ptr /\ Done = <<c>> \o Tail(stack)
    BY CoreDoneIs
  <2> HIDE DEF i, c
  <2> QED BY <2>1, <2>2, <2>3, FrontKeeps
<1>4. CASE at = {}
  <2> DEFINE n == Len(lts) + 1
             l == [name |-> name, options |-> Copied(opts)]
             steps == << <<"placed", n>>, <<"front", t>> >>
             c == Rest(steps)
             d == Call("script", setup.files[name])
             p == <<t, name>>
             new == <<d, c>>
  <2>1. /\ tags' = Loading(t, l) /\ opt' = p
        /\ stack' = <<d>> \o Instead(steps)
    BY <1>4 DEF FocusLayout, Loading
  <2>2. l \in Layout(setup) /\ l.name = name
    <3>1. Copied(opts) \in Options(setup)
      BY <1>1, ResetTyped DEF Typed
    <3> DEFINE O == Options(setup)
               F == DOMAIN setup.files
               o == Copied(opts)
    <3>2. o \in O /\ name \in F /\ Layout(setup) = [name : F, options : O]
      BY <1>2, <3>1 DEF Layout
    <3> HIDE DEF O, F, o
    <3> QED BY <3>2 DEF o
  <2>3. \A i \in 1..Len(lts) : lts[i].name # l.name
    BY <1>2, <1>4, <2>2
  <2> HIDE DEF l
  <2>4. /\ tags' \in [Tags -> Tag(setup)] /\ Distinct'
        /\ n \in 1..Len(tags'[t].loaded) /\ tags'[t].loaded[n] = l
        /\ \A u \in Tags : \A k \in 1..Len(tags[u].loaded) :
             k \in 1..Len(tags'[u].loaded) /\ tags'[u].loaded[k] = tags[u].loaded[k]
    BY <1>1, <2>1, <2>2, <2>3, LayoutAdded
  <2>5. p \in Pointers(setup) /\ p # OfDefault /\ p # Freed /\ Points(tags', p)
    <3> DEFINE us == tags'
    <3>1. us \in [Tags -> Tag(setup)] /\ n \in 1..Len(us[t].loaded) /\ us[t].loaded[n].name = name
      BY <2>2, <2>4
    <3> HIDE DEF us, p, n
    <3>2. LET q == <<t, us[t].loaded[n].name>>
          IN  q \in Pointers(setup) /\ q # OfDefault /\ q # Freed /\ Points(us, q)
      BY <3>1, RealPointer
    <3> QED BY <3>1, <3>2 DEF us, p
  <2>6. /\ steps \in Steps /\ n \in Nat
        /\ Waits(setup, shown, steps \o Tail(Top.todo), Len(stack) = 1)
    <3>1. n \in Nat /\ n >= 1
      BY <1>2
    <3> HIDE DEF n
    <3> QED BY <1>1, <3>1, PlacedWaits
  <2> HIDE DEF steps, p, n
  <2>7. /\ c \in CallOf(setup) /\ c.kind = "core" /\ c.todo = steps \o Tail(Top.todo)
        /\ Points(tags, c.ptr) /\ Instead(steps) = <<c>> \o Tail(stack)
    BY <2>6, CoreRest
  <2> HIDE DEF c
  <2>8. /\ d \in CallOf(setup) /\ d.kind = "script"
        /\ \A last : Waiting(setup, shown, d, last)
        /\ \A ts, gone : Points(ts, After(d.ptr, gone))
    BY <1>1, <1>2, ScriptCall
  <2> HIDE DEF d
  <2>9. stack' = new \o Tail(stack)
    BY <1>1, <2>1, <2>7, <2>8, Pushed
  <2>10. /\ new \in Seq(CallOf(setup)) /\ Len(new) = 2 /\ 1..Len(new) = {1, 2}
         /\ new[1] = d /\ new[2] = c /\ Fit(new) /\ NoNewConfig(new)
    <3>1. Waits(setup, shown, c.todo, Len(stack) = 1)
      BY <2>6, <2>7
    <3>2. d.kind \in {"script", "command"}
      BY <2>8
    <3> QED BY <2>7, <2>8, <3>1, <3>2, TwoGo
  <2> HIDE DEF new
  <2>11. Became(new, {})
    BY <1>1, <2>9, <2>10, BecomesWithout DEF Typed
  <2>12. \A u \in Tags \ {} : \A k \in 1..Len(tags[u].loaded) :
           \E j \in 1..Len(tags'[u].loaded) : tags'[u].loaded[j].name = tags[u].loaded[k].name
    BY <2>4
  <2>13. \A i \in 1..Len(new) : Points(tags', After(new[i].ptr, {}))
    <3>1. c.ptr \in Pointers(setup)
      <4> DEFINE S == CallOf(setup)
      <4>1. \A x \in S : x.ptr \in Pointers(setup)
        BY DEF CallOf
      <4> HIDE DEF S
      <4> QED BY <2>7, <4>1 DEF S
    <3>2. Points(tags', After(c.ptr, {}))
      BY <2>7, <2>12, <3>1, PointsKept
    <3> QED BY <2>8, <2>10, <3>2
  <2>14. /\ opts' \in Options(setup) /\ default' \in DOMAIN setup.files
         /\ opt' \in Pointers(setup) /\ Points(tags', opt') /\ OptAgrees'
         /\ listeners' \in Seq(DOMAIN setup.scripts) /\ prohibited' \in BOOLEAN
         /\ error_file' \in BOOLEAN /\ fault' \in Faults /\ (prohibited' \/ NoConfig)
         /\ setup' = setup /\ shown' = shown
    BY <1>1, <2>1, <2>5, RealAgrees DEF Typed
  <2> QED BY <1>1, <2>4, <2>10, <2>11, <2>12, <2>13, <2>14, StepKept
<1> QED BY <1>3, <1>4

\* arrange
LEMMA FocusKeeps == TInv /\ Focus => TInv'
<1> SUFFICES ASSUME TInv, Focus PROVE TInv'
  OBVIOUS
<1>1. Ready("focus") /\ "focus" \in OfCore /\ FocusLayout(Arg)
      /\ UNCHANGED <<setup, opts, default, shown, listeners, prohibited, error_file, fault>>
  BY DEF Focus, OfCore
<1>2. /\ Arg = shown /\ shown \in Tags
      /\ Follows(setup, shown, Tail(Top.todo), shown, Len(stack) = 1)
  BY <1>1, CoreFacts, CoreNext DEF GoesOn
<1> QED BY <1>1, <1>2, FocusLayoutKeeps

\* tag_get_layout
LEMMA GetKeeps == TInv /\ Get => TInv'
<1> SUFFICES ASSUME TInv, Get PROVE TInv'
  OBVIOUS
<1> DEFINE c == Rest(<<>>)
<1>1. Ready("get") /\ "get" \in OfCore
      /\ UNCHANGED <<setup, opts, default, shown, listeners, prohibited, error_file, fault>>
      /\ IF tags[Arg].loaded = <<>> THEN FocusLayout(Arg)
         ELSE stack' = Done /\ UNCHANGED <<tags, opt>>
  BY DEF Get, OfCore
<1>2. /\ Arg \in Tags /\ Follows(setup, shown, Tail(Top.todo), Arg, Len(stack) = 1)
  BY <1>1, CoreFacts, CoreNext DEF GoesOn
<1>3. CASE tags[Arg].loaded = <<>>
  <2>1. FocusLayout(Arg)
    BY <1>1, <1>3
  <2> QED BY <1>1, <1>2, <2>1, FocusLayoutKeeps
<1>4. CASE tags[Arg].loaded # <<>>
  <2>1. stack' = Done /\ UNCHANGED <<tags, opt>>
    BY <1>1, <1>4
  <2>2. /\ c \in CallOf(setup) /\ c.kind = "core" /\ c.todo = Tail(Top.todo)
        /\ Points(tags, c.ptr) /\ Done = <<c>> \o Tail(stack)
    BY <1>1, CoreDoneIs
  <2> HIDE DEF c
  <2>3. Goes(c)
    <3>1. ~At(c, "config")
      BY <1>2, <2>2, FollowsHeads DEF At
    <3>2. \/ Waits(setup, shown, c.todo, Len(stack) = 1)
          \/ Begins(setup, shown, tags', c.todo, Len(stack) = 1)
      <4>1. tags'[Arg].loaded # <<>>
        BY <1>4, <2>1
      <4> QED BY <1>2, <2>2, <4>1, FollowsOn
    <3> QED BY <2>2, <3>1, <3>2 DEF Goes
  <2>4. <<c>> \in Seq(CallOf(setup)) /\ 1..Len(<<c>>) = {1} /\ <<c>>[1] = c
        /\ Fit(<<c>>) /\ NoNewConfig(<<c>>)
    BY <2>2, <2>3, OneGoes
  <2>5. \A i \in 1..Len(<<c>>) : Points(tags, <<c>>[i].ptr)
    BY <2>2, <2>4
  <2> QED BY <1>1, <2>1, <2>2, <2>4, <2>5, CoreStep
<1> QED BY <1>3, <1>4

\* What is left of a call when its layout is in front
LEMMA PlacedRest ==
  ASSUME Typed, stack # <<>>, Top.todo # <<>>, Len(Top.todo) >= 2
  PROVE  LET rest == Tail(Tail(Top.todo))
             c == [Top EXCEPT !.todo = rest]
         IN  c \in CallOf(setup) /\ c.kind = Top.kind /\ c.todo = rest /\ c.ptr = Top.ptr
<1> DEFINE r == Tail(Tail(Top.todo))
           c == [Top EXCEPT !.todo = r]
           P == Pointers(setup)
           T == Steps
           K == Kinds
<1>1. Top.todo \in Steps
  BY TopTyped DEF CallOf
<1>2. r \in Steps
  <2>1. Tail(Top.todo) \in Steps /\ Len(Tail(Top.todo)) >= 1
    <3>1. Len(Top.todo) \in Nat
      BY <1>1, StepsTyped
    <3> QED BY <1>1, <3>1, StepsTyped
  <2>2. Tail(Top.todo) # <<>>
    BY <2>1, StepsTyped
  <2> QED BY <2>1, <2>2, StepsTyped
<1>3. Top \in [kind : K, todo : T, ptr : P, window : Nat] /\ r \in T
  BY <1>2, TopTyped DEF CallOf
<1>4. CallOf(setup) = [kind : K, todo : T, ptr : P, window : Nat]
  BY DEF CallOf
<1> HIDE DEF P, T, K, r
<1>5. c \in [kind : K, todo : T, ptr : P, window : Nat] /\ c.kind = Top.kind
      /\ c.todo = r /\ c.ptr = Top.ptr
  BY <1>3
<1> QED BY <1>4, <1>5 DEF r

\* focus_layout after the file has run
LEMMA PlacedKeeps == TInv /\ Placed => TInv'
<1> SUFFICES ASSUME TInv, Placed PROVE TInv'
  OBVIOUS
<1>1. Ready("placed") /\ "placed" \in OfCore
  BY DEF Placed, OfCore
<1>2. PICK t \in Tags : /\ Top.todo[2] = <<"front", t>>
                        /\ Follows(setup, shown, Tail(Tail(Top.todo)), t, Len(stack) = 1)
  BY <1>1, CoreFacts, CoreNext DEF GoesOn
<1>3. Len(Top.todo) >= 2 /\ Top.todo \in Steps /\ Typed /\ stack # <<>> /\ Top.todo # <<>>
  BY <1>1, CoreFacts, CoreNext DEF GoesOn
<1>4. Top.todo[2][2] = t
  BY <1>2
<1>5. tags \in [Tags -> Tag(setup)] /\ DOMAIN tags[t].loaded = 1..Len(tags[t].loaded)
  BY <1>3, LoadedTyped DEF Typed
<1>6. CASE Arg \notin DOMAIN tags[t].loaded
  <2>1. Ends("position") /\ "position" \in Faults
    BY <1>4, <1>6 DEF Placed, Faults
  <2> QED BY <2>1, EndsKeeps
<1>7. CASE Arg \in DOMAIN tags[t].loaded
  <2> DEFINE rest == Tail(Tail(Top.todo))
             c == [Top EXCEPT !.todo = rest]
             i == Arg
  <2>1. /\ tags' = InFront(t, i) /\ stack' = <<c>> \o Tail(stack) /\ i \in 1..Len(tags[t].loaded)
        /\ UNCHANGED <<setup, opts, default, shown, opt, listeners, prohibited, error_file, fault>>
    BY <1>4, <1>5, <1>7 DEF Placed, InFront
  <2>3. c \in CallOf(setup) /\ c.kind = Top.kind /\ c.todo = rest /\ c.ptr = Top.ptr
    BY <1>3, PlacedRest
  <2> HIDE DEF c, i
  <2>4. c.kind = "core" /\ Follows(setup, shown, c.todo, t, Len(stack) = 1)
    BY <1>1, <1>2, <2>3, CoreFacts
  <2> QED BY <1>1, <2>1, <2>3, <2>4, FrontKeeps
<1> QED BY <1>6, <1>7

-----------------------------------------------------------------------------
(* What happens to the program *)

\* One call of C is all there is.
LEMMA AloneTyped ==
  ASSUME NEW steps \in Steps, stack' = <<Core(steps)>>, setup' = setup
  PROVE  /\ stack' \in Seq(CallOf(setup)) /\ Len(stack') = 1 /\ 1..Len(stack') = {1}
         /\ stack'[1].kind = "core" /\ stack'[1].todo = steps /\ stack'[1].ptr = OfDefault
<1> DEFINE c == Core(steps)
<1>1. "core" \in Kinds
  BY DEF Kinds
<1>2. c \in CallOf(setup) /\ c.kind = "core" /\ c.todo = steps /\ c.ptr = OfDefault
  BY <1>1, CallTyped DEF Core
<1> HIDE DEF c
<1>3. <<c>> \in Seq(CallOf(setup)) /\ Len(<<c>>) = 1 /\ <<c>>[1] = c /\ 1..Len(<<c>>) = {1}
  BY <1>2, CallsTyped
<1>4. stack' = <<c>>
  BY DEF c
<1> QED BY <1>2, <1>3, <1>4

\* The core is called for a key, a command, a title, a signal or a view.
LEMMA CallKeeps ==
  ASSUME TInv, NEW steps \in Steps, Calls(steps), shown' \in Tags,
         Waits(setup, shown', steps, TRUE), Len(steps) >= 1
  PROVE  TInv'
<1>1. Typed /\ Distinct /\ Pointed /\ OptAgrees /\ stack = <<>> /\ stack' = <<Core(steps)>>
      /\ UNCHANGED <<setup, opts, default, tags, opt, listeners, prohibited, error_file, fault>>
  BY DEF TInv, Calls, Idle
<1>2. opt # OfDefault /\ opt # Freed
  <2>1. ~(Len(stack) >= 1)
    BY <1>1, TopTyped
  <2> QED BY <1>1, <2>1 DEF OptAgrees
<1>3. /\ stack' \in Seq(CallOf(setup)) /\ Len(stack') = 1 /\ 1..Len(stack') = {1}
      /\ stack'[1].kind = "core" /\ stack'[1].todo = steps /\ stack'[1].ptr = OfDefault
  BY <1>1, AloneTyped
<1>4. steps[1][1] # "config"
  BY WaitsHeads
<1>5. Typed'
  BY <1>1, <1>3 DEF Typed
<1>6. Distinct' /\ Pointed'
  <2>1. Distinct'
    BY <1>1 DEF Distinct
  <2>2. Pointed'
    BY <1>1, <1>3 DEF Pointed, Points
  <2> QED BY <2>1, <2>2
<1>7. Forms'
  <2>1. Waiting(setup', shown', stack'[1], 1 = Len(stack'))
    BY <1>1, <1>3 DEF Waiting
  <2> QED BY <1>3, <2>1 DEF Forms
<1>8. Flags'
  BY <1>3, <1>4 DEF Flags, At
<1>9. OptAgrees'
  BY <1>1, <1>2, RealAgrees
<1> QED BY <1>5, <1>6, <1>7, <1>8, <1>9 DEF TInv

\* What the calls do first may wait.
LEMMA PressKeeps == ASSUME TInv, NEW k \in setup.keys, Press(k) PROVE TInv'
<1> DEFINE a == <<"get", shown>>
           b == <<"key", k>>
           steps == <<a, b>>
<1>1. shown \in Tags /\ shown \in Nat /\ k \in Nat /\ shown' = shown /\ Calls(steps)
  BY TagsAssumption, SetupFacts DEF TInv, Typed, Press
<1>2. steps \in Steps /\ Len(steps) = 2 /\ steps[1] = <<"get", shown>>
  BY <1>1 DEF Steps, OfCore
<1>3. Only(Tail(steps), {"key", "title"}, 0)
  <2>1. Tail(steps) = <<b>>
    BY ShortTails
  <2>2. Len(<<b>>) = 1 /\ <<b>>[1][1] = "key" /\ <<b>>[1][2] >= 0
    BY <1>1
  <2> HIDE DEF b, steps
  <2> QED BY <2>1, <2>2 DEF Only
<1> HIDE DEF steps
<1>4. Waits(setup, shown', steps, TRUE)
  BY <1>1, <1>2, <1>3 DEF Waits, Follows
<1>5. shown' \in Tags /\ Len(steps) >= 1
  BY <1>1, <1>2
<1> QED BY <1>1, <1>2, <1>4, <1>5, CallKeeps, Zenon

\* A window has a new title.
LEMMA TitledKeeps == ASSUME TInv, NEW w \in Nat, Titled(w) PROVE TInv'
<1> DEFINE a == <<"get", shown>>
           b == <<"title", w>>
           steps == <<a, b>>
<1>1. shown \in Tags /\ shown \in Nat /\ shown' = shown /\ Calls(steps)
  BY TagsAssumption DEF TInv, Typed, Titled
<1>2. steps \in Steps /\ Len(steps) = 2 /\ steps[1] = <<"get", shown>>
  BY <1>1 DEF Steps, OfCore
<1>3. Only(Tail(steps), {"key", "title"}, 0)
  <2>1. Tail(steps) = <<b>>
    BY ShortTails
  <2>2. Len(<<b>>) = 1 /\ <<b>>[1][1] = "title" /\ <<b>>[1][2] >= 0
    OBVIOUS
  <2> HIDE DEF b, steps
  <2> QED BY <2>1, <2>2 DEF Only
<1> HIDE DEF steps
<1>4. Waits(setup, shown', steps, TRUE)
  BY <1>1, <1>2, <1>3 DEF Waits, Follows
<1>5. shown' \in Tags /\ Len(steps) >= 1
  BY <1>1, <1>2
<1> QED BY <1>1, <1>2, <1>4, <1>5, CallKeeps, Zenon

\* A client sends a script.
LEMMA CommandKeeps == ASSUME TInv, NEW s \in setup.commands, Command(s) PROVE TInv'
<1> DEFINE a == <<"get", shown>>
           rest == << <<"eval", s>>, <<"focus", shown>> >>
           steps == << <<"get", shown>>, <<"eval", s>>, <<"focus", shown>> >>
<1>1. shown \in Tags /\ shown \in Nat /\ shown' = shown /\ Calls(steps)
  BY TagsAssumption DEF TInv, Typed, Command
<1>2. s \in DOMAIN setup.scripts /\ s \in Nat
  <2>1. setup \in Setups
    BY DEF TInv, Typed
  <2>2. s \in DOMAIN setup.scripts
    BY <2>1, SetupFacts
  <2> QED BY <2>1, <2>2, SetupDomains
<1>3. steps \in Steps /\ Len(steps) = 3 /\ steps[1] = <<"get", shown>>
  BY <1>1, <1>2 DEF Steps, OfCore
<1>4. Tail(steps) = rest
  BY ShortTails
<1>5. Follows(setup, shown, rest, shown, TRUE)
  BY <1>2 DEF Follows
<1> HIDE DEF steps, rest
<1>6. shown' \in Tags /\ Len(steps) >= 1
  BY <1>1, <1>3
<1>7. \E t \in Tags : steps[1] = <<"get", t>> /\ Follows(setup, shown, Tail(steps), t, TRUE)
  BY <1>1, <1>3, <1>4, <1>5
<1>8. Waits(setup, shown', steps, TRUE)
  BY <1>1, <1>6, <1>7 DEF Waits
<1> QED BY <1>1, <1>3, <1>6, <1>8, CallKeeps, Zenon

\* An event of the program is sent.
LEMMA SignalKeeps == TInv /\ Signal => TInv'
<1> SUFFICES ASSUME TInv, Signal PROVE TInv'
  OBVIOUS
<1> DEFINE steps == << <<"emit", 1>> >>
<1>1. shown \in Tags /\ shown' = shown /\ Calls(steps)
  BY DEF TInv, Typed, Signal
<1>2. steps \in Steps /\ Len(steps) = 1 /\ Only(steps, {"emit", "rules"}, 1)
  BY DEF Steps, OfCore, Only
<1> HIDE DEF steps
<1>3. Waits(setup, shown', steps, TRUE)
  BY <1>2 DEF Waits
<1>4. shown' \in Tags /\ Len(steps) >= 1
  BY <1>1, <1>2
<1> QED BY <1>1, <1>2, <1>3, <1>4, CallKeeps, Zenon

\* Another tag is shown.
LEMMA ViewKeeps == ASSUME TInv, NEW t \in Tags, View(t) PROVE TInv'
<1> DEFINE steps == << <<"focus", t>> >>
<1>1. t \in Nat /\ shown' = t /\ Calls(steps)
  BY TagsAssumption DEF View
<1>2. steps \in Steps /\ Len(steps) = 1 /\ steps[1] = <<"focus", t>> /\ Tail(steps) = <<>>
  BY <1>1 DEF Steps, OfCore
<1> HIDE DEF steps
<1>3. Waits(setup, shown', steps, TRUE)
  BY <1>1, <1>2 DEF Waits, Follows
<1>4. shown' \in Tags /\ Len(steps) >= 1
  BY <1>1, <1>2
<1> QED BY <1>1, <1>2, <1>3, <1>4, CallKeeps, Zenon

\* Nothing happens.
LEMMA EndedKeeps == TInv /\ UNCHANGED vars => TInv'
<1> SUFFICES ASSUME TInv, UNCHANGED vars PROVE TInv'
  OBVIOUS
<1>1. UNCHANGED <<setup, opts, default, tags, shown, opt, listeners, prohibited, error_file, stack, fault>>
  BY DEF vars
<1>2. Typed' /\ Distinct' /\ Pointed' /\ Forms'
  BY <1>1 DEF TInv, Typed, Distinct, Pointed, Forms
<1>3. Bare' = Bare
  BY <1>1 DEF Bare
<1>4. Flags' /\ OptAgrees'
  BY <1>1, <1>3 DEF TInv, Flags, OptAgrees
<1> QED BY <1>2, <1>4 DEF TInv

\* The first output is made.
LEMMA TInvInit == Init => TInv
<1> SUFFICES ASSUME Init PROVE TInv
  OBVIOUS
<1> DEFINE steps == << <<"config", 0>>, <<"load_tags", 0>>, <<"allow", 0>>,
                       <<"default_layouts", 0>>, <<"focus", 0>> >>
           c == Core(steps)
           new == [name |-> 0, layout |-> FirstLayout, loaded |-> <<>>]
<1>1. /\ setup \in Setups /\ opts = Created /\ default = FirstLayout /\ shown = 0
      /\ opt = OfDefault /\ listeners = <<>> /\ prohibited = TRUE /\ error_file \in BOOLEAN
      /\ stack = <<c>> /\ fault = "none" /\ tags = [t \in Tags |-> new]
  BY DEF Init
<1>2. steps \in Steps /\ Len(steps) = 5 /\ steps[1][1] = "config"
      /\ \A ts : Begins(setup, 0, ts, steps, TRUE)
  BY DEF Steps, OfCore, Begins
<1> HIDE DEF steps
<1>3. "core" \in Kinds
  BY DEF Kinds
<1>4. c \in CallOf(setup) /\ c.kind = "core" /\ c.todo = steps /\ c.ptr = OfDefault
  BY <1>2, <1>3, CallTyped DEF Core
<1> HIDE DEF c
<1>5. /\ stack \in Seq(CallOf(setup)) /\ Len(stack) = 1 /\ 1..Len(stack) = {1} /\ stack[1] = c
  BY <1>1, <1>4, CallsTyped
<1>6. new \in Tag(setup) /\ new.loaded = <<>>
  <2>1. 0 \in DOMAIN setup.names /\ FirstLayout \in DOMAIN setup.files
    BY <1>1, SetupFacts
  <2> QED BY <2>1, TagTyped
<1> HIDE DEF new
<1>7. tags \in [Tags -> Tag(setup)] /\ \A t \in Tags : tags[t].loaded = <<>>
  BY <1>1, <1>6
<1>8. Typed
  <2>1. opts \in Options(setup) /\ default \in DOMAIN setup.files /\ shown \in Tags
    BY <1>1, ResetTyped, SetupFacts, TagsAssumption
  <2>2. opt \in Pointers(setup) /\ listeners \in Seq(DOMAIN setup.scripts) /\ fault \in Faults
    BY <1>1 DEF Pointers, Faults
  <2> QED BY <1>1, <1>5, <1>7, <2>1, <2>2 DEF Typed
<1>9. Distinct
  <2>1. 1..Len(<<>>) = {}
    OBVIOUS
  <2> QED BY <1>7, <2>1 DEF Distinct
<1>10. Pointed
  BY <1>1, <1>4, <1>5 DEF Pointed, Points
<1>11. Forms
  <2>1. Begins(setup, shown, tags, stack[1].todo, 1 = Len(stack))
    BY <1>1, <1>2, <1>4, <1>5
  <2> QED BY <1>4, <1>5, <2>1 DEF Forms
<1>12. Bare
  BY <1>7 DEF Bare
<1>13. Flags
  BY <1>1, <1>4, <1>5, <1>12 DEF Flags
<1>14. OptAgrees
  <2>1. Len(c.todo) >= 1 /\ c.todo[1][1] = "config"
    BY <1>2, <1>4
  <2>2. Recovers(c)
    BY <1>4, <2>1 DEF Recovers
  <2> QED BY <1>1, <1>5, <1>7, <1>8, <1>12, <2>2 DEF OptAgrees, Typed
<1> QED BY <1>8, <1>9, <1>10, <1>11, <1>13, <1>14 DEF TInv

\* Every step keeps the types, what there is to point to and what there is left to do.
LEMMA TInvNext == TInv /\ [Next]_vars => TInv'
<1> SUFFICES ASSUME TInv, [Next]_vars PROVE TInv'
  OBVIOUS
<1>1. CASE Step
  <2>1. CASE Focus
    BY <2>1, FocusKeeps
  <2>2. CASE Get
    BY <2>2, GetKeeps
  <2>3. CASE Placed
    BY <2>3, PlacedKeeps
  <2>4. CASE Load
    BY <2>4, LoadKeeps
  <2>5. CASE Names
    BY <2>5, NamesKeeps
  <2>6. CASE Name
    BY <2>6, NameKeeps
  <2>7. CASE SetOption
    BY <2>7, SetOptionKeeps
  <2>8. CASE SetNames
    BY <2>8, SetNamesKeeps
  <2>9. CASE SetDefaultLayout
    BY <2>9, SetDefaultLayoutKeeps
  <2>10. CASE AddListener
    BY <2>10, AddListenerKeeps
  <2>11. CASE Fail
    BY <2>11, FailKeeps
  <2>12. CASE Reload
    BY <2>12, ReloadKeeps
  <2>13. CASE LoadConfig
    BY <2>13, LoadConfigKeeps
  <2>14. CASE DefaultLayouts
    BY <2>14, DefaultLayoutsKeeps
  <2>15. CASE LoadTags
    BY <2>15, LoadTagsKeeps
  <2>16. CASE Allow
    BY <2>16, AllowKeeps
  <2>17. CASE Run
    BY <2>17, RunKeeps
  <2>18. CASE Key
    BY <2>18, KeyKeeps
  <2>19. CASE Eval
    BY <2>19, EvalKeeps
  <2>20. CASE Title
    BY <2>20, TitleKeeps
  <2>21. CASE Rules
    BY <2>21, RulesKeeps
  <2>22. CASE Emit
    BY <2>22, EmitKeeps
  <2>23. CASE Return
    BY <2>23, ReturnKeeps
  <2> QED BY <1>1, <2>1, <2>2, <2>3, <2>4, <2>5, <2>6, <2>7, <2>8, <2>9, <2>10, <2>11, <2>12,
             <2>13, <2>14, <2>15, <2>16, <2>17, <2>18, <2>19, <2>20, <2>21, <2>22, <2>23 DEF Step
<1>2. ASSUME NEW k \in setup.keys, Press(k) PROVE TInv'
  BY <1>2, PressKeeps
<1>3. ASSUME NEW s \in setup.commands, Command(s) PROVE TInv'
  BY <1>3, CommandKeeps
<1>4. ASSUME NEW i \in DOMAIN setup.rules, NEW w \in setup.rules[i].matches, Titled(w) PROVE TInv'
  <2>1. w \in Nat
    <3>1. setup \in Setups
      BY DEF TInv, Typed
    <3> QED BY <3>1, SetupDomains
  <2> QED BY <1>4, <2>1, TitledKeeps
<1>5. CASE Signal
  BY <1>5, SignalKeeps
<1>6. ASSUME NEW t \in Tags, View(t) PROVE TInv'
  BY <1>6, ViewKeeps
<1>7. CASE UNCHANGED vars
  BY <1>7, EndedKeeps
<1> QED BY <1>1, <1>2, <1>3, <1>4, <1>5, <1>6, <1>7 DEF Next, Ended

\* The types, what there is to point to and what there is left to do are always these.
THEOREM TInvAlways == Spec => []TInv
<1> QED BY TInvInit, TInvNext, PTL DEF Spec

-----------------------------------------------------------------------------
(* The options of the configuration *)

\* What a statement of a script does to options, for these bindings
ChangedBy(s, o, op, n) ==
  CASE op = "gap"   -> [o EXCEPT !.gap = n]
    [] op = "mod"   -> [o EXCEPT !.mod = n]
    [] op = "entry" -> [o EXCEPT !.entry = n]
    [] op = "rule"  -> [o EXCEPT !.rules = Append(@, n)]
    [] op = "bind"  -> [o EXCEPT !.keys = AddKeybinding(@, << <<s.binds[n].key>> >>, s.binds[n].run)]
    [] op = "names" -> [o EXCEPT !.names = n]
    [] OTHER        -> o

\* What a statement changes depends on the setup only.
LEMMA ChangedIsBy == \A o, op, n : Changed(o, op, n) = ChangedBy(setup, o, op, n)
<1> SUFFICES ASSUME NEW o, NEW op, NEW n PROVE Changed(o, op, n) = ChangedBy(setup, o, op, n)
  OBVIOUS
<1>1. CASE op = "gap"
  BY <1>1 DEF Changed, ChangedBy, Set
<1>2. CASE op = "mod"
  BY <1>2 DEF Changed, ChangedBy, Set
<1>3. CASE op = "entry"
  BY <1>3 DEF Changed, ChangedBy, SetEntry
<1>4. CASE op = "rule"
  BY <1>4 DEF Changed, ChangedBy, Added
<1>5. CASE op = "bind"
  BY <1>5 DEF Changed, ChangedBy, Added
<1>6. CASE op = "names"
  BY <1>6 DEF Changed, ChangedBy
<1>7. CASE op \notin {"gap", "mod", "entry", "rule", "bind", "names"}
  BY <1>7 DEF Changed, ChangedBy
<1> QED BY <1>1, <1>2, <1>3, <1>4, <1>5, <1>6, <1>7

\* The recursive function of SaidBy
SaidEq(s, c, f) ==
  f = [t \in SUBSET (DOMAIN c) |->
         IF t = {} THEN Created
         ELSE ChangedBy(s, f[t \ {Max(t)}], c[Max(t)][1], c[Max(t)][2])]

\* What the first k statements of a config file leave
SaidUpTo(s, c, k) == (CHOOSE f : SaidEq(s, c, f))[1..k]

\* What SaidBy folds over a config file, one statement after the other
SaidWith(c, f) ==
  f = [t \in SUBSET (DOMAIN c) |->
         IF t = {} THEN Created ELSE Changed(f[t \ {Max(t)}], c[Max(t)][1], c[Max(t)][2])]

\* What SaidBy folds over a config file, one statement after the other
LEMMA SaidIs ==
  ASSUME setup \in Setups, NEW c \in Seq(Statements(setup))
  PROVE  /\ SaidUpTo(setup, c, 0) = Created
         /\ \A k \in 1..Len(c) : SaidUpTo(setup, c, k)
                                   = ChangedBy(setup, SaidUpTo(setup, c, k - 1), c[k][1], c[k][2])
         /\ \A k \in 0..Len(c) : SaidUpTo(setup, c, k) \in Options(setup)
         /\ SaidBy(c) = Copied(SaidUpTo(setup, c, Len(c)))
<1> DEFINE V == Options(setup)
           n == Len(c)
           step == [i \in 1..n |-> [v \in V |-> ChangedBy(setup, v, c[i][1], c[i][2])]]
           f == CHOOSE f : SaidEq(setup, c, f)
<1>1. n \in Nat /\ DOMAIN c = 1..n /\ \A i \in 1..n : c[i] \in Statements(setup)
  <2> DEFINE X == Statements(setup)
  <2>1. c \in Seq(X)
    OBVIOUS
  <2> HIDE DEF X
  <2> QED BY <2>1 DEF X
<1>2. ASSUME NEW i \in 1..n, NEW v \in V PROVE ChangedBy(setup, v, c[i][1], c[i][2]) \in V
  <2>1. c[i] \in Statements(setup)
    BY <1>1
  <2>2. Changed(v, c[i][1], c[i][2]) \in V
    BY <2>1, StatementTyped, ChangedTyped
  <2> QED BY <2>2, ChangedIsBy
<1>3. Created \in V
  BY ResetTyped
<1> HIDE DEF n, V
<1>4. Folding(n, V, Created, step)
  BY <1>1, <1>2, <1>3 DEF Folding
<1>5. PICK g \in [SUBSET (1..n) -> V] : Folds(g, n, Created, step)
  BY <1>4, FoldExists
<1>6. SaidEq(setup, c, g)
  <2>1. \A t \in SUBSET (1..n) :
          g[t] = IF t = {} THEN Created
                 ELSE ChangedBy(setup, g[t \ {Max(t)}], c[Max(t)][1], c[Max(t)][2])
    BY <1>1, <1>5, MaxOfPositions DEF Folds
  <2>2. g = [t \in SUBSET (1..n) |-> g[t]]
    OBVIOUS
  <2> QED BY <2>1, <2>2, <1>1 DEF SaidEq
<1>7. SaidEq(setup, c, f)
  BY <1>6
<1> DEFINE h == CHOOSE h : SaidWith(c, h)
<1>8. SaidBy(c) = Copied(h[DOMAIN c])
  BY Zenon DEF SaidBy, FoldLeft, MapThenFoldSet, SaidWith
<1>9. SaidWith(c, h)
  <2>1. SaidWith(c, f)
    BY <1>7, ChangedIsBy DEF SaidEq, SaidWith
  <2> QED BY <2>1
<1> HIDE DEF f, h
<1>10. f[{}] = Created /\ h[{}] = Created
  BY <1>7, <1>9 DEF SaidEq, SaidWith
<1>11. \A t \in SUBSET (1..n) : t # {} =>
         /\ f[t] = ChangedBy(setup, f[t \ {Max(t)}], c[Max(t)][1], c[Max(t)][2])
         /\ h[t] = ChangedBy(setup, h[t \ {Max(t)}], c[Max(t)][1], c[Max(t)][2])
  BY <1>1, <1>7, <1>9, ChangedIsBy DEF SaidEq, SaidWith
<1>12. h[DOMAIN c] = f[DOMAIN c]
  <2> DEFINE T == {t \in SUBSET (1..n) : h[t] = f[t]}
  <2>1. {} \in T
    BY <1>10
  <2>2. \A t \in SUBSET (1..n) : t # {} /\ t \ {Max(t)} \in T => t \in T
    BY <1>11
  <2>3. \A t \in T : h[t] = f[t]
    OBVIOUS
  <2> HIDE DEF T
  <2>4. 1..n \in T
    BY <1>1, <2>1, <2>2, FoldInduction DEF KeptByFold
  <2> QED BY <1>1, <2>3, <2>4
<1>13. \A k \in 0..n : SaidUpTo(setup, c, k) = f[1..k]
  BY Zenon DEF SaidUpTo, f
<1>14. 1..0 = {} /\ 0 \in 0..n
  BY <1>1
<1>15. ASSUME NEW k \in 1..n
       PROVE  1..k \in SUBSET (1..n) /\ 1..k # {} /\ Max(1..k) = k /\ (1..k) \ {k} = 1..(k - 1)
  <2>1. 1..k \in SUBSET (1..n) /\ k \in 1..k /\ (1..k) \ {k} = 1..(k - 1)
    BY <1>1
  <2>2. Max(1..k) = k
    <3>1. k \in 1..k /\ \A y \in 1..k : k >= y
      BY <1>1
    <3>2. Max(1..k) \in 1..k /\ \A y \in 1..k : Max(1..k) >= y
      BY <3>1 DEF Max
    <3> QED BY <1>1, <2>1, <3>2
  <2> QED BY <2>1, <2>2
<1>16. \A k \in 1..n : SaidUpTo(setup, c, k)
                          = ChangedBy(setup, SaidUpTo(setup, c, k - 1), c[k][1], c[k][2])
  <2> SUFFICES ASSUME NEW k \in 1..n
               PROVE  SaidUpTo(setup, c, k)
                        = ChangedBy(setup, SaidUpTo(setup, c, k - 1), c[k][1], c[k][2])
    OBVIOUS
  <2>1. k \in 0..n /\ k - 1 \in 0..n
    BY <1>1
  <2>2. /\ 1..k \in SUBSET (1..n) /\ 1..k # {} /\ Max(1..k) = k
        /\ (1..k) \ {Max(1..k)} = 1..(k - 1)
    BY <1>15
  <2>3. f[1..k] = ChangedBy(setup, f[(1..k) \ {Max(1..k)}], c[Max(1..k)][1], c[Max(1..k)][2])
    BY <1>11, <2>2
  <2>4. f[1..k] = ChangedBy(setup, f[1..(k - 1)], c[k][1], c[k][2])
    BY <2>2, <2>3, Zenon
  <2>5. SaidUpTo(setup, c, k) = f[1..k] /\ SaidUpTo(setup, c, k - 1) = f[1..(k - 1)]
    BY <1>13, <2>1
  <2> QED BY <2>4, <2>5, Zenon
<1>17. \A k \in 0..n : SaidUpTo(setup, c, k) \in V
  <2> SUFFICES ASSUME NEW k \in 0..n PROVE f[1..k] \in V
    BY <1>13
  <2> DEFINE first == [i \in 1..k |-> step[i]]
  <2>1. k \in Nat /\ 1..k \subseteq 1..n
    BY <1>1
  <2>2. Folding(k, V, Created, first)
    BY <1>4, <2>1 DEF Folding
  <2>3. TakesSteps(f, k, V, Created, first)
    <3>1. ASSUME NEW t \in SUBSET (1..k), t # {}, f[t \ {Max(t)}] \in V
          PROVE  f[t] = first[Max(t)][f[t \ {Max(t)}]]
      <4>1. Max(t) \in 1..k /\ t \in SUBSET (1..n)
        BY <2>1, <3>1, MaxOfPositions
      <4> QED BY <1>11, <2>1, <3>1, <4>1
    <3> QED BY <1>10, <3>1 DEF TakesSteps
  <2> QED BY <2>2, <2>3, FoldTyped
<1>18. SaidUpTo(setup, c, 0) = Created
  BY <1>10, <1>13, <1>14
<1>19. SaidBy(c) = Copied(SaidUpTo(setup, c, n))
  <2>1. n \in 0..n
    BY <1>1
  <2> QED BY <1>1, <1>8, <1>12, <1>13, <2>1
<1> QED BY <1>16, <1>17, <1>18, <1>19 DEF n, V

-----------------------------------------------------------------------------
(* What else every step keeps *)

\* Two options agree on what functions and layout files do not set.
Agrees(s, o, p) ==
  /\ "gap" \notin Sayings(s) => o.gap = p.gap
  /\ "mod" \notin Sayings(s) => o.mod = p.mod
  /\ "names" \notin Sayings(s) => o.names = p.names
  /\ "rule" \notin Sayings(s) => o.rules = p.rules
  /\ "bind" \notin Sayings(s) => o.keys = p.keys

\* The config file runs at the top, with the options of the configuration; those of
\* the layouts agree with them.
Copies ==
  /\ \A i \in 1..Len(stack) : stack[i].kind = "config" => i = 1 /\ opt = OfDefault
  /\ \A t \in Tags : \A i \in 1..Len(tags[t].loaded) :
       Agrees(setup, tags[t].loaded[i].options, opts)

\* What config files that run to their end leave, and the built-in options
WholeOnes(s) ==
  {Copied(SaidUpTo(s, c, Len(c))) : c \in {d \in s.configs : Ops(d) \cap {"fail", "reload"} = {}}}
    \cup {DefaultOptions(Created)}

\* The first k statements of c are said, this is left, and these are the options.
Said(s, c, k, todo, o) ==
  /\ Len(todo) = Len(c) - k /\ \A i \in 1..Len(todo) : todo[i] = c[k + i]
  /\ \A i \in 1..k : c[i][1] \notin {"fail", "reload"}
  /\ Copied(o) = Copied(SaidUpTo(s, c, k))

\* The config file is about to run, or runs.
Beginning == Len(stack) >= 1 /\ At(stack[1], "config")

\* The call at the top runs the config file.
Reading == Len(stack) >= 1 /\ stack[1].kind = "config"

\* The options are those of one config file, so far.
WholeSoFar ==
  /\ Beginning => Copied(opts) = Created
  /\ Reading => \E c \in setup.configs : \E k \in 0..Len(c) :
                  Said(setup, c, k, stack[1].todo, opts)
  /\ ~Beginning /\ ~Reading => Copied(opts) \in WholeOnes(setup)

\* What holds for the setups that the properties are about
More == (Tame => Tamed) /\ (Plain => Copies /\ WholeSoFar)

\* The setup decides these.
LEMMA SetupDecides == ASSUME setup' = setup PROVE (Tame' <=> Tame) /\ (Plain' <=> Plain)
<1>1. InScripts' = InScripts /\ InFiles' = InFiles
  BY DEF InScripts, InFiles, Ops
<1>2. InRules' = InRules
  BY DEF InRules, Ops
<1>3. Tame' <=> Tame
  BY <1>1, <1>2 DEF Tame
<1>4. Plain' <=> Plain
  BY DEF Plain
<1> QED BY <1>3, <1>4

\* What Tame says of what is left to say
LEMMA TameSays ==
  ASSUME Tame, Typed, NEW c, Says(setup, c)
  PROVE  /\ c.kind # "config" => "names" \notin Ops(c.todo)
         /\ c.kind = "config" /\ "names" \in Ops(c.todo) => "load" \notin Ops(c.todo)
<1>1. c.kind # "config" => Ops(c.todo) \subseteq InScripts \cup InFiles
  BY SayingsAre DEF Says
<1>2. c.kind = "config" => \E f \in setup.configs : Ops(c.todo) \subseteq Ops(f)
  BY DEF Says
<1> QED BY <1>1, <1>2 DEF Tame

\* A call that waits to bring a layout to the front knows the tag.
LEMMA PlacedTag ==
  ASSUME TInv, NEW i \in 1..Len(stack), At(stack[i], "placed")
  PROVE  stack[i].todo[2][2] \in Tags /\ Len(stack[i].todo) >= 2 /\ stack[i].todo[1][2] >= 1
<1> DEFINE c == stack[i]
           last == (i = Len(stack))
<1>1. Typed /\ Forms
  BY DEF TInv
<1>2. c.kind = "core" /\ Len(c.todo) >= 1 /\ c.todo[1][1] = "placed" /\ c.todo \in Steps
      /\ c.todo # <<>>
  BY <1>1, TopTyped, StepsTyped DEF At
<1>3. Waits(setup, shown, c.todo, last) \/ Begins(setup, shown, tags, c.todo, last)
  BY <1>1, <1>2 DEF Forms, Waiting
<1> HIDE DEF c, last
<1>4. GoesOn(setup, shown, tags, c.todo, last)
  BY <1>2, <1>3, CoreForms
<1>5. Len(c.todo) >= 2 /\ c.todo[1][2] >= 1 /\ \E t \in Tags : c.todo[2] = <<"front", t>>
  BY <1>2, <1>4 DEF GoesOn
<1> QED BY <1>5 DEF c

\* No call below the top iterates rules or waits for the file of a layout.
Clear == \A i \in 2..Len(stack) : ~At(stack[i], "placed") /\ ~At(stack[i], "rules")

\* Nothing is being gone through when the call at the top is not a mild one.
LEMMA ClearWhen ==
  ASSUME Typed, Tamed, stack # <<>>, ~Mild(stack[1])
  PROVE  Clear
<1> SUFFICES ASSUME NEW i \in 2..Len(stack), At(stack[i], "placed") \/ At(stack[i], "rules")
             PROVE  FALSE
  BY DEF Clear
<1>1. i \in 1..Len(stack) /\ 1 \in 1..(i - 1)
  BY TopTyped
<1> QED BY <1>1 DEF Tamed

\* The layouts stay, and what comes to the top ends without removing them.
Gentle(new, gone) ==
  /\ gone = {} /\ \A t \in Tags : Len(tags'[t].loaded) >= Len(tags[t].loaded)
  /\ \A i \in 1..Len(new) : Mild(new[i])

\* What comes to the top finds the layouts and the rules that it goes on with.
Finds(new, gone) ==
  \A i \in 1..Len(new) :
    /\ At(new[i], "placed") => new[i].todo[1][2] <= Len(tags'[new[i].todo[2][2]].loaded)
    /\ At(new[i], "rules") => After(new[i].ptr, gone) # Freed
    /\ At(new[i], "placed") \/ At(new[i], "rules") => \A j \in 1..(i - 1) : Mild(new[j])
    /\ new[i].kind = "config" /\ "names" \in Ops(new[i].todo) => i = 1 /\ opt' = OfDefault

\* What a step has to show: it ends nothing, and is gentle to what calls below go through.
LEMMA TamedKept ==
  ASSUME TInv, TInv', Tamed, stack # <<>>, NEW new, NEW gone, Became(new, gone),
         fault' = fault, Clear \/ Gentle(new, gone), Finds(new, gone)
  PROVE  Tamed'
<1> DEFINE from(i) == i - Len(new) + 1
<1>1. Typed /\ Len(stack) \in Nat /\ Len(stack) >= 1 /\ Len(new) \in Nat
      /\ Len(stack') = Len(new) + Len(stack) - 1
  BY TopTyped DEF Became, TInv
<1>2. ASSUME NEW i \in 1..Len(stack')
      PROVE  /\ i \in 1..Len(new) => Same(stack'[i], new[i], gone)
             /\ i \notin 1..Len(new) => /\ from(i) \in 2..Len(stack) /\ from(i) \in 1..Len(stack)
                                        /\ Same(stack'[i], stack[from(i)], gone)
  BY <1>1 DEF Became
<1>3. ASSUME NEW i \in 1..Len(stack'), i \notin 1..Len(new),
             At(stack'[i], "placed") \/ At(stack'[i], "rules")
      PROVE  Gentle(new, gone)
  <2> DEFINE j == from(i)
  <2>1. j \in 2..Len(stack) /\ Same(stack'[i], stack[j], gone)
    BY <1>2, <1>3
  <2> HIDE DEF j
  <2>2. At(stack[j], "placed") \/ At(stack[j], "rules")
    BY <1>3, <2>1, SameWaits
  <2> QED BY <2>1, <2>2 DEF Clear
<1>4. ASSUME NEW i \in 1..Len(stack'), At(stack'[i], "placed")
      PROVE  stack'[i].todo[1][2] <= Len(tags'[stack'[i].todo[2][2]].loaded)
  <2>1. CASE i \in 1..Len(new)
    <3>1. Same(stack'[i], new[i], gone)
      BY <1>2, <2>1
    <3>2. At(new[i], "placed") /\ stack'[i].todo = new[i].todo
      BY <1>4, <3>1, SameWaits DEF Same
    <3> QED BY <2>1, <3>2 DEF Finds
  <2>2. CASE i \notin 1..Len(new)
    <3> DEFINE j == from(i)
    <3>1. j \in 1..Len(stack) /\ Same(stack'[i], stack[j], gone) /\ Gentle(new, gone)
      BY <1>2, <1>3, <1>4, <2>2
    <3> HIDE DEF j
    <3>2. At(stack[j], "placed") /\ stack'[i].todo = stack[j].todo
      BY <1>4, <3>1, SameWaits DEF Same
    <3> DEFINE t == stack[j].todo[2][2]
               n == stack[j].todo[1][2]
    <3>3. t \in Tags /\ n <= Len(tags[t].loaded)
      BY <3>1, <3>2, PlacedTag DEF Tamed
    <3>4. n \in Nat
      <4>1. stack[j].todo \in Steps /\ Len(stack[j].todo) >= 1
        BY <1>1, <3>1, <3>2, TopTyped DEF At
      <4> QED BY <4>1, StepsTyped
    <3>5. tags \in [Tags -> Tag(setup)] /\ tags' \in [Tags -> Tag(setup')]
      BY DEF TInv, Typed
    <3> HIDE DEF t, n
    <3>6. Len(tags[t].loaded) \in Nat /\ Len(tags'[t].loaded) \in Nat
          /\ Len(tags'[t].loaded) >= Len(tags[t].loaded)
      BY <3>1, <3>3, <3>5, LoadedTyped DEF Gentle
    <3>7. n <= Len(tags'[t].loaded)
      BY <3>3, <3>4, <3>6
    <3> QED BY <3>2, <3>7 DEF t, n
  <2> QED BY <2>1, <2>2
<1>5. ASSUME NEW i \in 1..Len(stack'), At(stack'[i], "rules")
      PROVE  stack'[i].ptr # Freed
  <2>1. CASE i \in 1..Len(new)
    <3>1. Same(stack'[i], new[i], gone)
      BY <1>2, <2>1
    <3>2. At(new[i], "rules") /\ stack'[i].ptr = After(new[i].ptr, gone)
      BY <1>5, <3>1, SameWaits DEF Same
    <3> QED BY <2>1, <3>2 DEF Finds
  <2>2. CASE i \notin 1..Len(new)
    <3> DEFINE j == from(i)
    <3>1. j \in 1..Len(stack) /\ Same(stack'[i], stack[j], gone) /\ gone = {}
      BY <1>2, <1>3, <1>5, <2>2 DEF Gentle
    <3> HIDE DEF j
    <3>2. At(stack[j], "rules") /\ stack'[i].ptr = stack[j].ptr
      BY <1>5, <3>1, SameWaits DEF Same, After
    <3> QED BY <3>1, <3>2 DEF Tamed
  <2> QED BY <2>1, <2>2
<1>6. ASSUME NEW i \in 1..Len(stack'), At(stack'[i], "placed") \/ At(stack'[i], "rules"),
             NEW m \in 1..(i - 1)
      PROVE  Mild(stack'[m])
  <2>0. m \in 1..Len(stack')
    BY <1>1
  <2>1. CASE i \in 1..Len(new)
    <3>1. Same(stack'[i], new[i], gone) /\ Same(stack'[m], new[m], gone)
      BY <1>1, <1>2, <2>0, <2>1
    <3>2. At(new[i], "placed") \/ At(new[i], "rules")
      BY <1>6, <3>1, SameWaits
    <3>3. Mild(new[m])
      BY <2>1, <3>2 DEF Finds
    <3> QED BY <3>1, <3>3, SameWaits
  <2>2. CASE i \notin 1..Len(new)
    <3>1. /\ from(i) \in 1..Len(stack) /\ Same(stack'[i], stack[from(i)], gone) /\ Gentle(new, gone)
      BY <1>2, <1>3, <1>6, <2>2
    <3>2. CASE m \in 1..Len(new)
      <4>1. Same(stack'[m], new[m], gone) /\ Mild(new[m])
        BY <1>2, <2>0, <3>1, <3>2 DEF Gentle
      <4> QED BY <4>1, SameWaits
    <3>3. CASE m \notin 1..Len(new)
      <4> DEFINE j == from(i)
                 k == from(m)
      <4>1. j \in 1..Len(stack) /\ k \in 1..(j - 1) /\ Same(stack'[m], stack[k], gone)
        BY <1>1, <1>2, <2>0, <3>1, <3>3
      <4>2. Same(stack'[i], stack[j], gone)
        BY <3>1
      <4> HIDE DEF j, k
      <4>3. At(stack[j], "placed") \/ At(stack[j], "rules")
        BY <1>6, <4>2, SameWaits
      <4>4. Mild(stack[k])
        BY <4>1, <4>3 DEF Tamed
      <4> QED BY <4>1, <4>4, SameWaits
    <3> QED BY <3>2, <3>3
  <2> QED BY <2>1, <2>2
<1>7. ASSUME NEW i \in 1..Len(stack'), stack'[i].kind = "config", "names" \in Ops(stack'[i].todo)
      PROVE  i = 1 /\ opt' = OfDefault
  <2>1. CASE i \in 1..Len(new)
    BY <1>2, <1>7, <2>1 DEF Same, Finds
  <2>2. CASE i \notin 1..Len(new)
    <3> DEFINE j == from(i)
    <3>1. j \in 2..Len(stack) /\ j \in 1..Len(stack) /\ Same(stack'[i], stack[j], gone)
      BY <1>2, <2>2
    <3> HIDE DEF j
    <3>2. j = 1
      BY <1>7, <3>1 DEF Same, Tamed
    <3> QED BY <1>1, <3>1, <3>2
  <2> QED BY <2>1, <2>2
<1>8. fault' \in {"none", "no_error_file"}
  BY DEF Tamed
<1> QED BY <1>4, <1>5, <1>6, <1>7, <1>8 DEF Tamed

\* The options of the layouts agree with those of the configuration.
LEMMA CopiesKept ==
  ASSUME TInv, Copies, stack # <<>>, setup' = setup, NEW new, NEW gone, Became(new, gone),
         \A i \in 1..Len(new) : new[i].kind = "config" => i = 1 /\ opt' = OfDefault,
         \A t \in Tags : \A i \in 1..Len(tags'[t].loaded) :
           Agrees(setup, tags'[t].loaded[i].options, opts')
  PROVE  Copies'
<1>1. Typed /\ Len(stack) \in Nat /\ Len(stack) >= 1 /\ Len(new) \in Nat
      /\ Len(stack') = Len(new) + Len(stack) - 1
  BY TopTyped DEF Became, TInv
<1>2. ASSUME NEW i \in 1..Len(stack'), stack'[i].kind = "config"
      PROVE  i = 1 /\ opt' = OfDefault
  <2>1. CASE i \in 1..Len(new)
    <3>1. Same(stack'[i], new[i], gone)
      BY <2>1 DEF Became
    <3> QED BY <1>2, <2>1, <3>1 DEF Same
  <2>2. CASE i \notin 1..Len(new)
    <3> DEFINE j == i - Len(new) + 1
    <3>1. j \in 2..Len(stack) /\ j \in 1..Len(stack) /\ Same(stack'[i], stack[j], gone)
      BY <1>1, <2>2 DEF Became
    <3> HIDE DEF j
    <3>2. j = 1
      BY <1>2, <3>1 DEF Same, Copies
    <3> QED BY <1>1, <3>1, <3>2
  <2> QED BY <2>1, <2>2
<1> QED BY <1>2 DEF Copies

\* A call that neither runs the config file nor is about to
Ordinary(c) == c.kind # "config" /\ ~At(c, "config")

\* The call at the top is ordinary, is going to read the config file, or reads it.
LEMMA OrdinaryTop ==
  ASSUME Len(stack) >= 1
  PROVE  Ordinary(stack[1]) <=> ~Beginning /\ ~Reading
BY DEF Ordinary, Beginning, Reading

\* The call at the top
LEMMA NewTop ==
  ASSUME Typed, stack # <<>>, NEW new, NEW gone, Became(new, gone), Len(new) >= 1
  PROVE  /\ Len(stack') >= 1 /\ Same(stack'[1], new[1], gone)
         /\ Ordinary(stack'[1]) <=> Ordinary(new[1])
<1>1. Len(stack) \in Nat /\ Len(stack) >= 1 /\ Len(new) \in Nat
      /\ Len(stack') = Len(new) + Len(stack) - 1
  BY TopTyped DEF Became
<1>2. Same(stack'[1], new[1], gone)
  BY <1>1 DEF Became
<1>3. At(stack'[1], "config") <=> At(new[1], "config")
  BY <1>2, SameWaits
<1>4. Len(stack') >= 1
  BY <1>1
<1> QED BY <1>2, <1>3, <1>4 DEF Same, Ordinary

\* No config file is at the top, and the options stay.
LEMMA WholeKept ==
  ASSUME WholeSoFar, setup' = setup, opts' = opts, ~Beginning, ~Reading, ~Beginning', ~Reading'
  PROVE  WholeSoFar'
BY DEF WholeSoFar

\* What is whole is whole for these options, too.
LEMMA WholeWith ==
  ASSUME setup' = setup, ~Beginning', ~Reading', Copied(opts') \in WholeOnes(setup)
  PROVE  WholeSoFar'
BY DEF WholeSoFar

\* The program ends, with a pointer that is freed when the setup is not tame.
LEMMA EndsMore ==
  ASSUME TInv, More, NEW reason, Ends(reason), Tame => reason \in {"none", "no_error_file"}
  PROVE  More'
<1>1. UNCHANGED <<setup, opts, default, tags, shown, opt, listeners, prohibited, error_file, stack>>
      /\ fault' = reason
  BY DEF Ends
<1>2. (Tame' <=> Tame) /\ (Plain' <=> Plain)
  BY <1>1, SetupDecides
<1>3. Tame => Tamed'
  BY <1>1 DEF More, Tamed
<1>4. Copies => Copies'
  BY <1>1 DEF Copies
<1>5. (Beginning' <=> Beginning) /\ (Reading' <=> Reading)
  BY <1>1 DEF Beginning, Reading
<1>6. WholeSoFar => WholeSoFar'
  BY <1>1, <1>5 DEF WholeSoFar
<1> QED BY <1>2, <1>3, <1>4, <1>6 DEF More

-----------------------------------------------------------------------------
(* The steps of C, and the configuration *)

\* After a step of C there is none that begins to wait for a file or for rules.
LEMMA HeadsAfter ==
  ASSUME NEW s, NEW sh, NEW ts, NEW r \in Steps, NEW last, r # <<>>, r[1][1] # "placed",
         Waits(s, sh, r, last) \/ Begins(s, sh, ts, r, last), Len(Tail(r)) >= 1
  PROVE  Tail(r)[1][1] \notin {"placed", "rules", "config"}
<1>1. CASE Waits(s, sh, r, last)
  <2>1. CASE Len(r) >= 1 /\ r[1] = <<"focus", sh>> /\ Follows(s, sh, Tail(r), sh, last)
    BY <2>1, FollowsHeads
  <2>2. CASE Len(r) >= 1 /\ \E t \in Tags : r[1] = <<"get", t>> /\ Follows(s, sh, Tail(r), t, last)
    BY <2>2, FollowsHeads
  <2>3. CASE Only(r, {"tags"}, 0) \/ Only(r, {"emit", "rules"}, 1)
    <3>1. Tail(r) = <<>>
      BY <2>3, NothingAfterOnly
    <3> QED BY <3>1
  <2>4. CASE /\ Len(r) >= 1 /\ \E n \in DOMAIN s.scripts : r[1] = <<"run", n>>
             /\ (last /\ Tail(r) = << <<"allow", 0>> >>) \/ Only(Tail(r), {"emit"}, 1)
    <3>1. CASE Tail(r) = << <<"allow", 0>> >>
      <4> DEFINE u == Tail(r)
      <4>1. u = << <<"allow", 0>> >>
        BY <3>1
      <4> HIDE DEF u
      <4>2. u[1] = <<"allow", 0>>
        BY <4>1
      <4>3. u[1][1] \notin {"placed", "rules", "config"}
        BY <4>2
      <4> QED BY <4>3 DEF u
    <3>2. CASE Only(Tail(r), {"emit"}, 1)
      BY <3>2 DEF Only
    <3> QED BY <2>4, <3>1, <3>2
  <2>5. CASE last /\ r = << <<"allow", 0>> >>
    BY <2>5
  <2>6. CASE r \in {AfterNames, AfterFirst}
    <3>1. CASE r = AfterNames
      BY <3>1 DEF AfterNames
    <3>2. CASE r = AfterFirst
      BY <3>2 DEF AfterFirst
    <3> QED BY <2>6, <3>1, <3>2
  <2>7. CASE r \in {<< <<"default_layouts", 0>>, <<"focus", sh>> >>, AfterConfig(sh)}
    <3>1. CASE r = << <<"default_layouts", 0>>, <<"focus", sh>> >>
      BY <3>1
    <3>2. CASE r = AfterConfig(sh)
      BY <3>2 DEF AfterConfig
    <3> QED BY <2>7, <3>1, <3>2
  <2> QED BY <1>1, <2>1, <2>2, <2>3, <2>4, <2>5, <2>6, <2>7 DEF Waits
<1>2. CASE Begins(s, sh, ts, r, last)
  <2>1. CASE r = << <<"config", 0>>, <<"default_layouts", 0>>, <<"focus", sh>>, <<"tags", 0>> >>
    BY <2>1
  <2>2. CASE r = << <<"config", 0>>, <<"load_tags", 0>>, <<"allow", 0>>, <<"default_layouts", 0>>,
                    <<"focus", 0>> >>
    BY <2>2
  <2>3. CASE \E t \in Tags : r = << <<"name", t>>, <<"tags", t + 1>> >>
    BY <2>3
  <2>4. CASE Only(r, {"key", "title"}, 0)
    <3>1. Tail(r) = <<>>
      BY <2>4, NothingAfterOnly
    <3> QED BY <3>1
  <2>5. CASE \E n \in DOMAIN s.scripts : r = << <<"eval", n>>, <<"focus", sh>> >>
    BY <2>5
  <2> QED BY <1>2, <2>1, <2>2, <2>3, <2>4, <2>5 DEF Begins
<1> QED BY <1>1, <1>2

\* What comes to the top begins nothing that waits for a file.
Plainly(c) == Ordinary(c) /\ ~At(c, "placed")

\* What is left of a call of C begins nothing.
LEMMA RestIsPlain ==
  ASSUME TInv, NEW op \in OfCore, Ready(op), op # "placed",
         NEW c, c.kind = "core", c.todo = Tail(Top.todo)
  PROVE  Plainly(c) /\ ~At(c, "rules")
<1>1. /\ Top.todo \in Steps /\ Top.todo # <<>> /\ Top.todo[1][1] = op
      /\ \/ Waits(setup, shown, Top.todo, Len(stack) = 1)
         \/ Begins(setup, shown, tags, Top.todo, Len(stack) = 1)
  BY CoreFacts
<1>2. Len(Tail(Top.todo)) >= 1 => Tail(Top.todo)[1][1] \notin {"placed", "rules", "config"}
  BY <1>1, HeadsAfter
<1> QED BY <1>2 DEF Plainly, Ordinary, At

\* A step of C that leaves the options alone, and the layouts that it does not remove
LEMMA CoreMore ==
  ASSUME TInv, TInv', More, NEW op \in OfCore, Ready(op), op \notin {"focus", "placed", "config"},
         setup' = setup, opts' = opts, fault' = fault,
         \A t \in Tags : tags'[t].loaded \in {tags[t].loaded, <<>>},
         NEW new, NEW gone, Became(new, gone), Len(new) >= 1,
         \A i \in 1..Len(new) : Plainly(new[i]),
         \A i \in 1..Len(new) : Tame /\ Tamed /\ At(new[i], "rules") =>
           After(new[i].ptr, gone) # Freed /\ \A j \in 1..(i - 1) : Mild(new[j])
  PROVE  More'
<1>1. /\ stack # <<>> /\ stack[1] = Top /\ Top.kind = "core" /\ Len(Top.todo) >= 1 /\ Typed
      /\ Top.todo[1][1] = op /\ Top.todo # <<>>
  BY CoreFacts
<1>2. ~Mild(stack[1]) /\ Ordinary(stack[1]) /\ Len(stack) >= 1 /\ Len(new) \in Nat
  <2>1. ~Mild(stack[1])
    BY <1>1 DEF Mild
  <2>2. Ordinary(stack[1])
    BY <1>1 DEF Ordinary, At
  <2> QED BY <1>1, <2>1, <2>2, TopTyped DEF Became
<1>3. (Tame' <=> Tame) /\ (Plain' <=> Plain)
  BY SetupDecides
<1>4. ASSUME Tame PROVE Tamed'
  <2>1. Tamed /\ Clear
    BY <1>1, <1>2, <1>4, ClearWhen DEF More
  <2>2. Finds(new, gone)
    BY <1>4, <2>1 DEF Finds, Plainly, Ordinary
  <2> QED BY <1>1, <2>1, <2>2, TamedKept
<1>5. ASSUME Plain PROVE Copies' /\ WholeSoFar'
  <2>1. Copies /\ WholeSoFar
    BY <1>5 DEF More
  <2>2. \A t \in Tags : \A i \in 1..Len(tags'[t].loaded) :
          Agrees(setup, tags'[t].loaded[i].options, opts')
    <3> SUFFICES ASSUME NEW t \in Tags, NEW i \in 1..Len(tags'[t].loaded)
                 PROVE  Agrees(setup, tags'[t].loaded[i].options, opts)
      OBVIOUS
    <3>1. Len(<<>>) = 0 /\ 1..0 = {}
      OBVIOUS
    <3>2. tags'[t].loaded = tags[t].loaded
      BY <3>1
    <3> QED BY <2>1, <3>2 DEF Copies
  <2>3. Copies'
    BY <1>1, <2>1, <2>2, CopiesKept DEF Plainly, Ordinary
  <2>4. Ordinary(stack'[1]) /\ Len(stack') >= 1
    BY <1>1, <1>2, NewTop DEF Plainly
  <2>5. ~Beginning' /\ ~Reading' /\ ~Beginning /\ ~Reading
    BY <1>2, <2>4 DEF Beginning, Reading, Ordinary, At
  <2> QED BY <2>1, <2>3, <2>5, WholeKept
<1> QED BY <1>3, <1>4, <1>5 DEF More

\* One that changes nothing but the calls and what opt points to
LEMMA CallsMore ==
  ASSUME TInv, TInv', More, NEW op \in OfCore, Ready(op), op \notin {"focus", "placed", "config"},
         UNCHANGED <<setup, opts, fault>>,
         \A t \in Tags : tags'[t].loaded = tags[t].loaded,
         NEW new \in Seq(CallOf(setup)), stack' = new \o Tail(stack), Len(new) >= 1,
         \A i \in 1..Len(new) : Plainly(new[i]) /\ ~At(new[i], "rules")
  PROVE  More'
<1>1. stack # <<>> /\ Typed
  BY CoreFacts
<1>2. Became(new, {})
  BY <1>1, BecomesWithout DEF Typed
<1> QED BY <1>2, CoreMore

\* A call of C is done with a step.
LEMMA DoneMore ==
  ASSUME TInv, TInv', More, NEW op \in OfCore, Ready(op), op \notin {"focus", "placed", "config"},
         UNCHANGED <<setup, opts, fault>>,
         \A t \in Tags : tags'[t].loaded = tags[t].loaded, stack' = Done
  PROVE  More'
<1> DEFINE c == Rest(<<>>)
           new == <<c>>
<1>1. /\ c \in CallOf(setup) /\ c.kind = "core" /\ c.todo = Tail(Top.todo)
      /\ Done = new \o Tail(stack)
  BY CoreDoneIs
<1> HIDE DEF c
<1>2. Plainly(c) /\ ~At(c, "rules")
  BY <1>1, RestIsPlain
<1>3. new \in Seq(CallOf(setup)) /\ Len(new) = 1 /\ new[1] = c /\ 1..Len(new) = {1}
  BY <1>1, CallsTyped
<1> HIDE DEF new
<1>4. \A i \in 1..Len(new) : Plainly(new[i]) /\ ~At(new[i], "rules")
  BY <1>2, <1>3
<1>5. stack' = new \o Tail(stack) /\ Len(new) >= 1
  BY <1>1, <1>3
<1> QED BY <1>3, <1>4, <1>5, CallsMore

\* It goes on with other steps.
LEMMA InsteadMore ==
  ASSUME TInv, TInv', More, NEW op \in OfCore, Ready(op), op \notin {"focus", "placed", "config"},
         UNCHANGED <<setup, opts, tags, fault>>, Tail(Top.todo) = <<>>,
         NEW steps \in Steps, steps[1][1] \notin {"placed", "rules", "config"},
         stack' = Instead(steps)
  PROVE  More'
<1> DEFINE c == Rest(steps)
           new == <<c>>
<1>1. /\ c \in CallOf(setup) /\ c.kind = "core" /\ c.todo = steps \o Tail(Top.todo)
      /\ Instead(steps) = new \o Tail(stack)
  BY CoreRest
<1> HIDE DEF c
<1>2. c.todo = steps
  BY <1>1, AloneIs
<1>3. Plainly(c) /\ ~At(c, "rules")
  BY <1>1, <1>2 DEF Plainly, Ordinary, At
<1>4. new \in Seq(CallOf(setup)) /\ Len(new) = 1 /\ new[1] = c /\ 1..Len(new) = {1}
  BY <1>1, CallsTyped
<1> HIDE DEF new
<1>5. \A i \in 1..Len(new) : Plainly(new[i]) /\ ~At(new[i], "rules")
  BY <1>3, <1>4
<1>6. stack' = new \o Tail(stack) /\ Len(new) >= 1
  BY <1>1, <1>4
<1> QED BY <1>4, <1>5, <1>6, CallsMore

\* It is done with a step that calls a function.
LEMMA CalledMore ==
  ASSUME TInv, TInv', More, NEW op \in OfCore, Ready(op), op \notin {"focus", "placed", "config"},
         UNCHANGED <<setup, opts, tags, fault>>,
         NEW kind \in {"script", "command"}, NEW n \in DOMAIN setup.scripts,
         stack' = <<Call(kind, setup.scripts[n])>> \o Done
  PROVE  More'
<1> DEFINE c == Rest(<<>>)
           d == Call(kind, setup.scripts[n])
           new == <<d, c>>
<1>0. Typed /\ stack # <<>>
  BY CoreFacts
<1>1. /\ c \in CallOf(setup) /\ c.kind = "core" /\ c.todo = Tail(Top.todo)
      /\ Done = <<c>> \o Tail(stack)
  BY CoreDoneIs
<1>2. d \in CallOf(setup) /\ d.kind = kind
  BY <1>0, ScriptCall
<1>3. stack' = <<d>> \o Done
  OBVIOUS
<1> HIDE DEF c, d
<1>4. Plainly(c) /\ ~At(c, "rules")
  BY <1>1, RestIsPlain
<1>5. Plainly(d) /\ ~At(d, "rules")
  BY <1>2 DEF Plainly, Ordinary, At
<1>6. /\ new \in Seq(CallOf(setup)) /\ Len(new) = 2 /\ new[1] = d /\ new[2] = c
      /\ 1..Len(new) = {1, 2}
  BY <1>1, <1>2, CallsTyped
<1>7. stack' = new \o Tail(stack)
  BY <1>0, <1>1, <1>2, <1>3, Pushed
<1> HIDE DEF new
<1>8. \A i \in 1..Len(new) : Plainly(new[i]) /\ ~At(new[i], "rules")
  BY <1>4, <1>5, <1>6
<1>9. Len(new) >= 1 /\ UNCHANGED <<setup, opts, fault>> /\ \A t \in Tags : tags'[t].loaded = tags[t].loaded
  BY <1>6
<1> QED BY <1>6, <1>7, <1>8, <1>9, CallsMore

\* tag_update_names goes on with a tag, or is done.
LEMMA NamesMore == TInv /\ TInv' /\ More /\ Names => More'
<1> SUFFICES ASSUME TInv, TInv', More, Names PROVE More'
  OBVIOUS
<1>1. Ready("tags") /\ "tags" \in OfCore
      /\ UNCHANGED <<setup, opts, default, tags, shown, opt, listeners, prohibited, error_file, fault>>
  BY DEF Names, OfCore
<1>2. Tail(Top.todo) = <<>> /\ Arg \in Nat
  BY <1>1, CoreFacts, CoreNext DEF GoesOn
<1>3. CASE Arg \in Tags
  <2> DEFINE steps == << <<"get", Arg>>, <<"name", Arg>>, <<"tags", Arg + 1>> >>
  <2>1. steps \in Steps
    BY <1>2 DEF Steps, OfCore
  <2>2. steps[1][1] = "get"
    OBVIOUS
  <2>3. stack' = Instead(steps)
    BY <1>3 DEF Names
  <2> HIDE DEF steps
  <2> QED BY <1>1, <1>2, <2>1, <2>2, <2>3, InsteadMore
<1>4. CASE Arg \notin Tags
  <2>1. stack' = Done
    BY <1>4 DEF Names
  <2> QED BY <1>1, <2>1, DoneMore
<1> QED BY <1>3, <1>4

\* The loaded layouts of a tag stay when it is named.
LEMMA NameMore == TInv /\ TInv' /\ More /\ Name => More'
<1> SUFFICES ASSUME TInv, TInv', More, Name PROVE More'
  OBVIOUS
<1>1. Ready("name") /\ "name" \in OfCore /\ stack' = Done /\ UNCHANGED <<setup, opts, fault>>
  BY DEF Name, OfCore
<1>2. \A t \in Tags : tags'[t].loaded = tags[t].loaded
  <2> DEFINE n == LET n == Head(tags[Arg].loaded).options.names IN IF Arg < setup.names[n] THEN n ELSE 0
             T == Seq(Layout(setup))
             N == DOMAIN setup.names
             F == DOMAIN setup.files
  <2>1. tags' = [tags EXCEPT ![Arg].name = n] /\ tags \in [Tags -> Tag(setup)]
    BY DEF Name, TInv, Typed
  <2>2. Tag(setup) = [name : N, layout : F, loaded : T]
    BY DEF Tag
  <2> HIDE DEF n, T, N, F
  <2> QED BY <2>1, <2>2
<1> QED BY <1>1, <1>2, DoneMore

\* The tags without a layout get the default one.
LEMMA DefaultLayoutsMore == TInv /\ TInv' /\ More /\ DefaultLayouts => More'
<1> SUFFICES ASSUME TInv, TInv', More, DefaultLayouts PROVE More'
  OBVIOUS
<1>1. Ready("default_layouts") /\ "default_layouts" \in OfCore /\ stack' = Done
      /\ UNCHANGED <<setup, opts, fault>>
  BY DEF DefaultLayouts, OfCore
<1>2. \A t \in Tags : tags'[t].loaded = tags[t].loaded
  <2> DEFINE T == Seq(Layout(setup))
             N == DOMAIN setup.names
             F == DOMAIN setup.files
             l == default
  <2>1. tags' = [t \in Tags |-> [tags[t] EXCEPT !.layout = l]] /\ tags \in [Tags -> Tag(setup)]
    BY DEF DefaultLayouts, TInv, Typed
  <2>2. Tag(setup) = [name : N, layout : F, loaded : T]
    BY DEF Tag
  <2> HIDE DEF T, N, F, l
  <2> QED BY <2>1, <2>2
<1> QED BY <1>1, <1>2, DoneMore

\* Reloading is allowed again.
LEMMA AllowMore == TInv /\ TInv' /\ More /\ Allow => More'
<1> SUFFICES ASSUME TInv, TInv', More, Allow PROVE More'
  OBVIOUS
<1>1. Ready("allow") /\ "allow" \in OfCore /\ stack' = Done
      /\ UNCHANGED <<setup, opts, tags, fault>>
  BY DEF Allow, OfCore
<1> QED BY <1>1, DoneMore

\* A function is called.
LEMMA RunMore == TInv /\ TInv' /\ More /\ Run => More'
<1> SUFFICES ASSUME TInv, TInv', More, Run PROVE More'
  OBVIOUS
<1>1. Ready("run") /\ "run" \in OfCore /\ UNCHANGED <<setup, opts, tags, fault>>
      /\ stack' = <<Call("script", setup.scripts[Arg])>> \o Done
  BY DEF Run, OfCore
<1>2. Arg \in DOMAIN setup.scripts
  BY <1>1, CoreNext, CoreFacts DEF GoesOn
<1> QED BY <1>1, <1>2, CalledMore

\* A script of a client is called.
LEMMA EvalMore == TInv /\ TInv' /\ More /\ Eval => More'
<1> SUFFICES ASSUME TInv, TInv', More, Eval PROVE More'
  OBVIOUS
<1>1. Ready("eval") /\ "eval" \in OfCore /\ UNCHANGED <<setup, opts, tags, fault>>
      /\ stack' = <<Call("command", setup.scripts[Arg])>> \o Done
  BY DEF Eval, OfCore
<1>2. Arg \in DOMAIN setup.scripts
  BY <1>1, CoreNext, CoreFacts DEF GoesOn
<1> QED BY <1>1, <1>2, CalledMore

\* A key binding calls its function.
LEMMA KeyMore == TInv /\ TInv' /\ More /\ Key => More'
<1> SUFFICES ASSUME TInv, TInv', More, Key PROVE More'
  OBVIOUS
<1>1. /\ Ready("key") /\ "key" \in OfCore /\ Tail(Top.todo) = <<>> /\ UNCHANGED <<setup, opts, tags, fault>>
      /\ \/ stack' = Done
         \/ \E n \in DOMAIN setup.scripts : stack' = Instead(<< <<"run", n>>, <<"allow", 0>> >>)
  BY KeyIs
<1>2. CASE stack' = Done
  BY <1>1, <1>2, DoneMore
<1>3. ASSUME NEW n \in DOMAIN setup.scripts, stack' = Instead(<< <<"run", n>>, <<"allow", 0>> >>)
      PROVE  More'
  <2> DEFINE steps == << <<"run", n>>, <<"allow", 0>> >>
  <2>1. setup \in Setups /\ "allow" \in OfCore
    BY DEF TInv, Typed, OfCore
  <2>2. steps \in Steps /\ steps[1] = <<"run", n>>
    BY <2>1, RunSteps
  <2>3. stack' = Instead(steps)
    BY <1>3
  <2> HIDE DEF steps
  <2>4. steps[1][1] \notin {"placed", "rules", "config"}
    BY <2>2
  <2> QED BY <1>1, <2>2, <2>3, <2>4, InsteadMore
<1> QED BY <1>1, <1>2, <1>3

\* The functions that wait for an event are called one after the other.
LEMMA EmitMore == TInv /\ TInv' /\ More /\ Emit => More'
<1> SUFFICES ASSUME TInv, TInv', More, Emit PROVE More'
  OBVIOUS
<1>1. /\ Ready("emit") /\ "emit" \in OfCore /\ Tail(Top.todo) = <<>> /\ UNCHANGED <<setup, opts, tags, fault>>
      /\ \/ stack' = Done
         \/ \E n \in DOMAIN setup.scripts : \E a \in Nat :
              a >= 1 /\ stack' = Instead(<< <<"run", n>>, <<"emit", a>> >>)
  BY EmitIs
<1>2. CASE stack' = Done
  BY <1>1, <1>2, DoneMore
<1>3. ASSUME NEW n \in DOMAIN setup.scripts, NEW a \in Nat,
             stack' = Instead(<< <<"run", n>>, <<"emit", a>> >>)
      PROVE  More'
  <2> DEFINE steps == << <<"run", n>>, <<"emit", a>> >>
  <2>1. setup \in Setups
    BY DEF TInv, Typed
  <2>2. steps \in Steps /\ steps[1] = <<"run", n>>
    BY <1>1, <2>1, RunSteps
  <2>3. stack' = Instead(steps)
    BY <1>3
  <2> HIDE DEF steps
  <2>4. steps[1][1] \notin {"placed", "rules", "config"}
    BY <2>2
  <2> QED BY <1>1, <2>2, <2>3, <2>4, InsteadMore
<1> QED BY <1>1, <1>2, <1>3

\* The rules that a title begins with are those of a loaded layout.
LEMMA TitleMore == TInv /\ TInv' /\ More /\ Title => More'
<1> SUFFICES ASSUME TInv, TInv', More, Title PROVE More'
  OBVIOUS
<1>1. /\ Ready("title") /\ "title" \in OfCore /\ UNCHANGED <<setup, opts, tags, fault>>
      /\ Typed /\ stack # <<>>
  BY TitleIs
<1> PICK d \in CallOf(setup), c \in CallOf(setup) :
           /\ stack' = <<d, c>> \o Tail(stack)
           /\ d.kind = "core" /\ Len(d.todo) = 1 /\ d.todo[1] = <<"rules", 1>>
           /\ Points(tags, d.ptr) /\ d.ptr # Freed
           /\ c.kind = "core" /\ c.todo = <<>> /\ Points(tags, c.ptr)
  BY TitleIs
<1> DEFINE new == <<d, c>>
<1>2. /\ new \in Seq(CallOf(setup)) /\ Len(new) = 2 /\ new[1] = d /\ new[2] = c
      /\ 1..Len(new) = {1, 2}
  BY CallsTyped
<1>3. stack' = new \o Tail(stack)
  OBVIOUS
<1> HIDE DEF new
<1>4. Became(new, {})
  BY <1>1, <1>2, <1>3, BecomesWithout DEF Typed
<1>5. Len(<<>>) = 0 /\ 1..(1 - 1) = {}
  OBVIOUS
<1>6. Plainly(d) /\ Plainly(c) /\ ~At(c, "rules")
  BY <1>5 DEF Plainly, Ordinary, At
<1>7. After(d.ptr, {}) # Freed
  BY DEF After
<1>8. ASSUME NEW i \in 1..Len(new), At(new[i], "rules")
      PROVE  After(new[i].ptr, {}) # Freed /\ \A j \in 1..(i - 1) : Mild(new[j])
  <2>1. i = 1
    BY <1>2, <1>6, <1>8
  <2> QED BY <1>2, <1>5, <1>7, <2>1
<1>9. \A i \in 1..Len(new) : Plainly(new[i])
  BY <1>2, <1>6
<1>10. setup' = setup /\ opts' = opts /\ fault' = fault
       /\ \A t \in Tags : tags'[t].loaded \in {tags[t].loaded, <<>>}
  BY <1>1
<1>11. Len(new) >= 1
  BY <1>2
<1> QED BY <1>1, <1>4, <1>8, <1>9, <1>10, <1>11, CoreMore

\* The function of a rule neither fails nor reloads, and names no tags.
LEMMA RuleIsMild ==
  ASSUME Tame, setup \in Setups, NEW i \in DOMAIN setup.rules, NEW c,
         c.kind = "script", c.todo = setup.scripts[setup.rules[i].run]
  PROVE  Mild(c)
<1>1. setup.rules[i].run \in DOMAIN setup.scripts
  BY SetupDomains
<1>2. Ops(c.todo) \subseteq InRules /\ Ops(c.todo) \subseteq InScripts
  BY <1>1, SayingsAre
<1>3. "names" \notin InScripts /\ InRules \cap {"fail", "reload"} = {}
  BY DEF Tame
<1> QED BY <1>2, <1>3 DEF Mild

\* Rules that are iterated are there, when the setup is tame.
LEMMA RulesMore == TInv /\ TInv' /\ More /\ Rules => More'
<1> SUFFICES ASSUME TInv, TInv', More, Rules PROVE More'
  OBVIOUS
<1>1. Ready("rules") /\ "rules" \in OfCore
  BY DEF Rules, OfCore
<1>2. /\ Tail(Top.todo) = <<>> /\ setup \in Setups /\ Typed /\ stack # <<>> /\ stack[1] = Top
      /\ At(stack[1], "rules")
  BY <1>1, CoreFacts, CoreNext DEF GoesOn, At
<1>3. CASE Top.ptr = Freed
  <2>1. Ends("rules_freed")
    BY <1>3 DEF Rules
  <2>2. ~Tame
    <3>1. 1 \in 1..Len(stack)
      BY <1>2, TopTyped
    <3> QED BY <1>2, <1>3, <3>1 DEF More, Tamed
  <2> QED BY <2>1, <2>2, EndsMore
<1>4. CASE Top.ptr # Freed
  <2>1. UNCHANGED <<setup, opts, default, tags, shown, opt, listeners, prohibited, error_file, fault>>
    BY <1>4, RulesIs
  <2>2. CASE stack' = Done
    BY <1>1, <2>1, <2>2, DoneMore
  <2>3. ASSUME NEW a \in Nat, a >= 1,
               \/ stack' = Instead(<< <<"rules", a>> >>)
               \/ \E i \in DOMAIN setup.rules :
                    stack' = <<Call("script", setup.scripts[setup.rules[i].run])>>
                               \o Instead(<< <<"rules", a>> >>)
        PROVE  More'
    <3> DEFINE steps == << <<"rules", a>> >>
               c == Rest(steps)
    <3>1. steps \in Steps /\ Len(steps) = 1 /\ steps[1][1] = "rules"
      BY <2>3 DEF Steps, OfCore
    <3>2. \/ stack' = Instead(steps)
          \/ \E i \in DOMAIN setup.rules :
               stack' = <<Call("script", setup.scripts[setup.rules[i].run])>> \o Instead(steps)
      BY <2>3
    <3> HIDE DEF steps
    <3>3. /\ c \in CallOf(setup) /\ c.kind = "core" /\ c.todo = steps \o Tail(Top.todo)
          /\ c.ptr = Top.ptr /\ Instead(steps) = <<c>> \o Tail(stack)
      BY <1>1, <3>1, CoreRest
    <3> HIDE DEF c
    <3>4. c.todo = steps
      BY <1>2, <3>1, <3>3, AloneIs
    <3>5. Plainly(c) /\ After(c.ptr, {}) # Freed
      BY <1>4, <3>1, <3>3, <3>4 DEF Plainly, Ordinary, At, After
    <3>6. setup' = setup /\ opts' = opts /\ fault' = fault
          /\ \A t \in Tags : tags'[t].loaded \in {tags[t].loaded, <<>>}
      BY <2>1
    <3>7. 1..(1 - 1) = {} /\ 1..(2 - 1) = {1}
      OBVIOUS
    <3>8. CASE stack' = Instead(steps)
      <4> DEFINE new == <<c>>
      <4>1. new \in Seq(CallOf(setup)) /\ Len(new) = 1 /\ new[1] = c /\ 1..Len(new) = {1}
        BY <3>3, CallsTyped
      <4>2. stack' = new \o Tail(stack)
        BY <3>3, <3>8
      <4> HIDE DEF new
      <4>3. Became(new, {})
        BY <1>2, <4>1, <4>2, BecomesWithout DEF Typed
      <4>4. \A i \in 1..Len(new) : Plainly(new[i])
        BY <3>5, <4>1
      <4>5. \A i \in 1..Len(new) : Tame /\ Tamed /\ At(new[i], "rules") =>
              After(new[i].ptr, {}) # Freed /\ \A j \in 1..(i - 1) : Mild(new[j])
        BY <3>5, <3>7, <4>1
      <4>6. Len(new) >= 1
        BY <4>1
      <4> QED BY <1>1, <3>6, <4>3, <4>4, <4>5, <4>6, CoreMore
    <3>9. ASSUME NEW i \in DOMAIN setup.rules,
                 stack' = <<Call("script", setup.scripts[setup.rules[i].run])>> \o Instead(steps)
          PROVE  More'
      <4> DEFINE d == Call("script", setup.scripts[setup.rules[i].run])
                 new == <<d, c>>
      <4>1. setup.rules[i].run \in DOMAIN setup.scripts
        BY <1>2, SetupDomains
      <4>2. d \in CallOf(setup) /\ d.kind = "script" /\ d.todo = setup.scripts[setup.rules[i].run]
        BY <1>2, <4>1, ScriptCall
      <4>3. stack' = <<d>> \o Instead(steps)
        BY <3>9
      <4> HIDE DEF d
      <4>4. stack' = new \o Tail(stack)
        BY <1>2, <3>3, <4>2, <4>3, Pushed
      <4>5. /\ new \in Seq(CallOf(setup)) /\ Len(new) = 2 /\ new[1] = d /\ new[2] = c
            /\ 1..Len(new) = {1, 2}
        BY <3>3, <4>2, CallsTyped
      <4> HIDE DEF new
      <4>6. Became(new, {})
        BY <1>2, <4>4, <4>5, BecomesWithout DEF Typed
      <4>7. Plainly(d) /\ ~At(d, "rules") /\ (Tame => Mild(d))
        BY <1>2, <4>2, RuleIsMild DEF Plainly, Ordinary, At
      <4>8. \A k \in 1..Len(new) : Plainly(new[k])
        BY <3>5, <4>5, <4>7
      <4>9. \A k \in 1..Len(new) : Tame /\ Tamed /\ At(new[k], "rules") =>
              After(new[k].ptr, {}) # Freed /\ \A j \in 1..(k - 1) : Mild(new[j])
        BY <3>5, <3>7, <4>5, <4>7
      <4>10. Len(new) >= 1
        BY <4>5
      <4> QED BY <1>1, <3>6, <4>6, <4>8, <4>9, <4>10, CoreMore
    <3> QED BY <3>2, <3>8, <3>9
  <2> QED BY <1>4, <2>2, <2>3, RulesIs
<1> QED BY <1>3, <1>4

\* The layouts of the tags that are made are gone.
LEMMA LoadTagsMore == TInv /\ TInv' /\ More /\ LoadTags => More'
<1> SUFFICES ASSUME TInv, TInv', More, LoadTags PROVE More'
  OBVIOUS
<1> DEFINE n == opts.names
           gone == Listed(n)
           c == Rest(<<>>)
           new == <<c>>
<1>1. Ready("load_tags") /\ "load_tags" \in OfCore /\ tags' = Renamed(n)
      /\ RemoveLayouts(gone, Done) /\ UNCHANGED <<setup, opts, fault>>
  BY DEF LoadTags, OfCore
<1>2. Typed /\ stack # <<>> /\ setup \in Setups
  BY <1>1, CoreFacts
<1>3. n \in DOMAIN setup.names
  <2>1. opts \in Options(setup)
    BY <1>2 DEF Typed
  <2>2. \A o \in Options(setup) : o.names \in DOMAIN setup.names
    BY DEF Options
  <2> QED BY <2>1, <2>2
<1> HIDE DEF n
<1>4. \A t \in Tags : tags'[t].loaded \in {tags[t].loaded, <<>>}
  <2>1. /\ \A t \in gone : tags'[t].loaded = <<>>
        /\ \A t \in Tags \ gone : tags'[t] = tags[t]
    BY <1>1, <1>2, <1>3, RenamedTyped
  <2> QED BY <2>1
<1>5. /\ c \in CallOf(setup) /\ c.kind = "core" /\ c.todo = Tail(Top.todo)
      /\ Done = new \o Tail(stack)
  BY <1>1, CoreDoneIs
<1> HIDE DEF c, gone
<1>6. Plainly(c) /\ ~At(c, "rules")
  BY <1>1, <1>5, RestIsPlain
<1>7. new \in Seq(CallOf(setup)) /\ Len(new) = 1 /\ new[1] = c /\ 1..Len(new) = {1}
  BY <1>5, CallsTyped
<1>8. RemoveLayouts(gone, new \o Tail(stack))
  BY <1>1, <1>5
<1> HIDE DEF new
<1>9. Became(new, gone)
  BY <1>2, <1>7, <1>8, BecomesFreed DEF Typed
<1>10. \A i \in 1..Len(new) : Plainly(new[i]) /\ ~At(new[i], "rules")
  BY <1>6, <1>7
<1>11. Len(new) >= 1 /\ setup' = setup /\ opts' = opts /\ fault' = fault
  BY <1>1, <1>7
<1> QED BY <1>1, <1>4, <1>9, <1>10, <1>11, CoreMore

-----------------------------------------------------------------------------
(* Options that are copied, and layouts that are loaded *)

\* Copies and resets differ in the position functions only.
LEMMA CopiedIs ==
  ASSUME NEW s \in Setups
  PROVE  /\ Copied(Created) = Created
         /\ \A o \in Options(s) :
              /\ Copied(Copied(o)) = Copied(o) /\ Copied(Reset(o)) = Created
              /\ Copied(DefaultOptions(o)) = DefaultOptions(Created)
              /\ \A r : Agrees(r, Copied(o), o)
<1> DEFINE keys == LoadDefaultKeybindings
           K == OrderedLists(DOMAIN s.scripts)
           R == Seq(DOMAIN s.rules)
           N == DOMAIN s.names
           none == <<>>
           e == Created.entry
           n == DefaultNames
           O == [gap : Nat, mod : Nat, names : N, rules : R, keys : K, entry : Nat]
           new == [gap |-> 0, mod |-> 0, names |-> 0, rules |-> none, keys |-> keys, entry |-> 0]
           old == [gap |-> 0, mod |-> 0, names |-> 0, rules |-> none, keys |-> none, entry |-> 0]
<1>1. Options(s) = O
  BY DEF Options
<1>2. \A o : Copied(o) = [o EXCEPT !.entry = e]
  BY Zenon DEF Copied
<1>3. e = 0
  BY ResetTyped
<1>4. \A o : Reset(o) = [o EXCEPT !.gap = 0, !.mod = 0, !.names = 0, !.rules = none, !.keys = keys]
  BY Zenon DEF Reset
<1>5. \A o : DefaultOptions(o) = [Reset(o) EXCEPT !.names = n]
  BY Zenon DEF DefaultOptions
<1>6. Created = Reset(old)
  BY Zenon DEF Created
<1> HIDE DEF keys, K, R, N, none, e, n
<1>7. Created = new
  BY <1>4, <1>6
<1>8. Copied(Created) = Created
  BY <1>2, <1>3, <1>7
<1>9. ASSUME NEW o \in O
      PROVE  /\ Copied(Copied(o)) = Copied(o) /\ Copied(Reset(o)) = Created
             /\ Copied(DefaultOptions(o)) = DefaultOptions(Created)
  <2>1. Copied(Copied(o)) = Copied(o)
    BY <1>2
  <2>2. Reset(o) = [gap |-> 0, mod |-> 0, names |-> 0, rules |-> none, keys |-> keys,
                    entry |-> o.entry]
    BY <1>4
  <2>3. Copied(Reset(o)) = Created
    BY <1>2, <1>3, <1>7, <2>2
  <2>4. DefaultOptions(o) = [gap |-> 0, mod |-> 0, names |-> n, rules |-> none, keys |-> keys,
                             entry |-> o.entry]
    BY <1>5, <2>2
  <2>5. Reset(Created) = new
    BY <1>4, <1>7
  <2>6. DefaultOptions(Created) = [gap |-> 0, mod |-> 0, names |-> n, rules |-> none,
                                   keys |-> keys, entry |-> 0]
    BY <1>5, <2>5
  <2>7. Copied(DefaultOptions(o)) = DefaultOptions(Created)
    BY <1>2, <1>3, <2>4, <2>6
  <2> QED BY <2>1, <2>3, <2>7
<1>10. ASSUME NEW o \in O, NEW r PROVE Agrees(r, Copied(o), o)
  <2>1. /\ Copied(o).gap = o.gap /\ Copied(o).mod = o.mod /\ Copied(o).names = o.names
        /\ Copied(o).rules = o.rules /\ Copied(o).keys = o.keys
    BY <1>2
  <2> QED BY <2>1 DEF Agrees
<1> QED BY <1>1, <1>8, <1>9, <1>10

\* A step of C that leaves the options alone and removes no layout
LEMMA GrowMore ==
  ASSUME TInv, TInv', More, NEW op \in {"focus", "get", "placed"}, Ready(op),
         setup' = setup, opts' = opts, fault' = fault,
         \A t \in Tags : Len(tags'[t].loaded) >= Len(tags[t].loaded),
         Copies => \A t \in Tags : \A i \in 1..Len(tags'[t].loaded) :
           Agrees(setup, tags'[t].loaded[i].options, opts),
         NEW new, Became(new, {}), Len(new) >= 1,
         \A i \in 1..Len(new) : Ordinary(new[i]),
         Tame => Finds(new, {}),
         Tame /\ Mild(stack[1]) => \A i \in 1..Len(new) : Mild(new[i])
  PROVE  More'
<1>0. op \in OfCore
  BY DEF OfCore
<1>1. /\ stack # <<>> /\ stack[1] = Top /\ Top.kind = "core" /\ Len(Top.todo) >= 1 /\ Typed
      /\ Top.todo[1][1] = op /\ Top.todo # <<>>
  BY <1>0, CoreFacts
<1>2. Ordinary(stack[1]) /\ Len(stack) >= 1 /\ Len(new) \in Nat
  <2>1. Ordinary(stack[1])
    BY <1>1 DEF Ordinary, At
  <2> QED BY <1>1, <2>1, TopTyped DEF Became
<1>3. (Tame' <=> Tame) /\ (Plain' <=> Plain)
  BY SetupDecides
<1>4. ASSUME Tame PROVE Tamed'
  <2>1. Tamed /\ (Clear \/ Mild(stack[1])) /\ Finds(new, {})
    BY <1>1, <1>4, ClearWhen DEF More
  <2>2. Mild(stack[1]) => Gentle(new, {})
    BY <1>4 DEF Gentle
  <2> QED BY <1>1, <2>1, <2>2, TamedKept
<1>5. ASSUME Plain PROVE Copies' /\ WholeSoFar'
  <2>1. Copies /\ WholeSoFar
    BY <1>5 DEF More
  <2>2. \A i \in 1..Len(new) : new[i].kind = "config" => i = 1 /\ opt' = OfDefault
    BY DEF Ordinary
  <2>3. \A t \in Tags : \A i \in 1..Len(tags'[t].loaded) :
          Agrees(setup, tags'[t].loaded[i].options, opts')
    BY <2>1
  <2>4. Copies'
    BY <1>1, <2>1, <2>2, <2>3, CopiesKept
  <2>5. Ordinary(stack'[1]) /\ Len(stack') >= 1
    BY <1>1, <1>2, NewTop
  <2>6. ~Beginning' /\ ~Reading' /\ ~Beginning /\ ~Reading
    BY <1>2, <2>5 DEF Beginning, Reading, Ordinary, At
  <2> QED BY <2>1, <2>4, <2>6, WholeKept
<1> QED BY <1>3, <1>4, <1>5 DEF More

\* A layout comes to the front.
LEMMA FrontMore ==
  ASSUME TInv, TInv', More, NEW op \in {"focus", "get", "placed"}, Ready(op),
         NEW t \in Tags, NEW i \in 1..Len(tags[t].loaded), tags' = InFront(t, i),
         setup' = setup, opts' = opts, fault' = fault,
         NEW c \in CallOf(setup), c.kind = "core", NEW last,
         Follows(setup, shown, c.todo, t, last), stack' = <<c>> \o Tail(stack),
         Mild(stack[1]) => c.todo = <<>>
  PROVE  More'
<1> DEFINE new == <<c>>
<1>1. op \in OfCore
  BY DEF OfCore
<1>2. Typed /\ Distinct /\ stack # <<>> /\ tags \in [Tags -> Tag(setup)]
  BY <1>1, CoreFacts DEF TInv, Typed
<1>3. /\ \A u \in Tags : /\ Len(tags'[u].loaded) = Len(tags[u].loaded)
                         /\ u # t => tags'[u].loaded = tags[u].loaded
      /\ \A j \in 1..Len(tags[t].loaded) : tags'[t].loaded[j] = tags[t].loaded[Was(i, j)]
  BY <1>2, FrontTyped
<1>4. \A u \in Tags : Len(tags'[u].loaded) >= Len(tags[u].loaded)
  BY <1>2, <1>3, LoadedTyped
<1>5. ASSUME Copies, NEW u \in Tags, NEW j \in 1..Len(tags'[u].loaded)
      PROVE  Agrees(setup, tags'[u].loaded[j].options, opts)
  <2>1. CASE u # t
    BY <1>3, <1>5, <2>1 DEF Copies
  <2>2. CASE u = t
    <3> DEFINE k == Was(i, j)
    <3>1. k \in 1..Len(tags[t].loaded) /\ tags'[u].loaded[j] = tags[t].loaded[k]
      <4>1. Len(tags[t].loaded) \in Nat /\ j \in 1..Len(tags[t].loaded)
        BY <1>2, <1>3, <2>2, LoadedTyped
      <4> QED BY <1>3, <2>2, <4>1, WasBijective
    <3> HIDE DEF k
    <3> QED BY <1>5, <3>1 DEF Copies
  <2> QED BY <2>1, <2>2
<1>6. new \in Seq(CallOf(setup)) /\ Len(new) = 1 /\ new[1] = c /\ 1..Len(new) = {1}
  BY CallsTyped
<1>7. stack' = new \o Tail(stack)
  OBVIOUS
<1> HIDE DEF new
<1>8. Became(new, {})
  BY <1>2, <1>6, <1>7, BecomesWithout DEF Typed
<1>9. Plainly(c) /\ ~At(c, "rules")
  BY FollowsHeads DEF Plainly, Ordinary, At
<1>10. \A k \in 1..Len(new) : Ordinary(new[k])
  BY <1>6, <1>9 DEF Plainly
<1>11. Finds(new, {})
  BY <1>6, <1>9 DEF Finds, Plainly, Ordinary
<1>12. Mild(stack[1]) => \A k \in 1..Len(new) : Mild(new[k])
  BY <1>6 DEF Mild
<1>13. Len(new) >= 1
  BY <1>6
<1> QED BY <1>4, <1>5, <1>8, <1>10, <1>11, <1>12, <1>13, GrowMore

\* The file of a layout neither fails nor reloads, and names no tags.
LEMMA FileIsMild ==
  ASSUME Tame, setup \in Setups, NEW n \in DOMAIN setup.files, NEW c,
         c.kind = "script", c.todo = setup.files[n]
  PROVE  Mild(c)
<1>1. Ops(c.todo) \subseteq InFiles
  BY SayingsAre
<1>2. "names" \notin InFiles /\ InFiles \cap {"fail", "reload"} = {}
  BY DEF Tame
<1> QED BY <1>1, <1>2 DEF Mild

\* One step, or two, have nothing after them.
LEMMA FewAreLeft ==
  ASSUME NEW r \in Steps
  PROVE  (Len(r) = 1 => Tail(r) = <<>>) /\ (Len(r) = 2 => Tail(Tail(r)) = <<>>)
<1> DEFINE X == (Spoken \cup OfCore) \X Nat
<1>1. r \in Seq(X)
  BY DEF Steps
<1> HIDE DEF X
<1>2. ASSUME NEW u \in Seq(X), Len(u) = 1 PROVE Tail(u) = <<>>
  <2>1. u # <<>>
    BY <1>2, EmptySeq
  <2>2. Tail(u) \in Seq(X) /\ Len(Tail(u)) = 0
    BY <1>2, <2>1, HeadTailProperties
  <2> QED BY <2>2, EmptySeq
<1>3. ASSUME Len(r) = 2 PROVE Tail(r) \in Seq(X) /\ Len(Tail(r)) = 1
  <2>1. r # <<>>
    BY <1>1, <1>3, EmptySeq
  <2> QED BY <1>1, <1>3, <2>1, HeadTailProperties
<1> QED BY <1>1, <1>2, <1>3

\* Only a call that loads a layout, and does nothing else, is mild at the top.
LEMMA MildFocus ==
  ASSUME TInv, NEW op \in {"focus", "get"}, Ready(op), Mild(stack[1])
  PROVE  op = "focus" /\ Tail(Top.todo) = <<>>
<1>1. /\ stack[1] = Top /\ Top.kind = "core" /\ Len(Top.todo) >= 1 /\ Top.todo \in Steps
      /\ Top.todo[1][1] = op /\ Top.todo # <<>> /\ op \in OfCore
  <2>1. op \in OfCore
    BY DEF OfCore
  <2> QED BY <2>1, CoreFacts
<1>2. Len(Top.todo) = 1 /\ op = "focus"
  BY <1>1 DEF Mild
<1>3. Tail(Top.todo) = <<>>
  BY <1>1, <1>2, FewAreLeft
<1> QED BY <1>2, <1>3

\* A layout is found, or its file runs with a copy of the options.
LEMMA FocusLayoutMore ==
  ASSUME TInv, TInv', More, NEW op \in {"focus", "get"}, Ready(op), NEW t \in Tags,
         NEW last, Follows(setup, shown, Tail(Top.todo), t, last), FocusLayout(t),
         UNCHANGED <<setup, opts, fault>>
  PROVE  More'
<1> DEFINE lts == tags[t].loaded
           name == tags[t].layout
           at == {i \in DOMAIN lts : lts[i].name = name}
<1>0. op \in OfCore /\ op \in {"focus", "get", "placed"}
  BY DEF OfCore
<1>1. /\ Typed /\ Distinct /\ stack # <<>> /\ setup \in Setups /\ opts \in Options(setup)
      /\ tags \in [Tags -> Tag(setup)] /\ Tail(Top.todo) \in Steps
  BY <1>0, CoreFacts DEF TInv, Typed
<1>2. /\ Len(lts) \in Nat /\ DOMAIN lts = 1..Len(lts) /\ name \in DOMAIN setup.files
  BY <1>1, LoadedTyped
<1>3. CASE at # {}
  <2> DEFINE i == CHOOSE i \in at : TRUE
             c == Rest(<<>>)
  <2>1. stack' = Done /\ tags' = InFront(t, i)
    BY <1>3 DEF FocusLayout, InFront
  <2>2. i \in 1..Len(lts)
    BY <1>2, <1>3
  <2>3. /\ c \in CallOf(setup) /\ c.kind = "core" /\ c.todo = Tail(Top.todo)
        /\ Done = <<c>> \o Tail(stack)
    BY <1>0, CoreDoneIs
  <2>4. Mild(stack[1]) => c.todo = <<>>
    BY <2>3, MildFocus
  <2> HIDE DEF i, c
  <2>5. stack' = <<c>> \o Tail(stack) /\ setup' = setup /\ opts' = opts /\ fault' = fault
        /\ Follows(setup, shown, c.todo, t, last)
    BY <2>1, <2>3
  <2> QED BY <1>0, <2>1, <2>2, <2>3, <2>4, <2>5, FrontMore
<1>4. CASE at = {}
  <2> DEFINE n == Len(lts) + 1
             l == [name |-> name, options |-> Copied(opts)]
             a == <<"placed", n>>
             b == <<"front", t>>
             steps == <<a, b>>
             r == Tail(Top.todo)
             c == Rest(steps)
             d == Call("script", setup.files[name])
             new == <<d, c>>
  <2>1. tags' = Loading(t, l) /\ stack' = <<d>> \o Instead(steps)
    BY <1>4 DEF FocusLayout, Loading
  <2>2. l \in Layout(setup) /\ l.name = name /\ l.options = Copied(opts)
    <3>1. Copied(opts) \in Options(setup)
      BY <1>1, ResetTyped
    <3> DEFINE O == Options(setup)
               F == DOMAIN setup.files
               o == Copied(opts)
    <3>2. o \in O /\ name \in F /\ Layout(setup) = [name : F, options : O]
      BY <1>2, <3>1 DEF Layout
    <3> HIDE DEF O, F, o
    <3> QED BY <3>2 DEF o
  <2>3. \A i \in 1..Len(lts) : lts[i].name # l.name
    BY <1>2, <1>4, <2>2
  <2> HIDE DEF l
  <2>4. /\ Len(tags'[t].loaded) = n /\ tags'[t].loaded[n] = l
        /\ \A u \in Tags : \A k \in 1..Len(tags[u].loaded) :
             k \in 1..Len(tags'[u].loaded) /\ tags'[u].loaded[k] = tags[u].loaded[k]
        /\ \A u \in Tags : u # t => tags'[u].loaded = tags[u].loaded
    BY <1>1, <2>1, <2>2, <2>3, LayoutAdded
  <2>5. \A u \in Tags : Len(tags'[u].loaded) >= Len(tags[u].loaded)
    <3> SUFFICES ASSUME NEW u \in Tags PROVE Len(tags'[u].loaded) >= Len(tags[u].loaded)
      OBVIOUS
    <3>1. Len(tags[u].loaded) \in Nat
      BY <1>1, LoadedTyped
    <3>2. CASE u = t
      BY <1>2, <2>4, <3>2
    <3>3. CASE u # t
      BY <2>4, <3>1, <3>3
    <3> QED BY <3>2, <3>3
  <2>6. ASSUME Copies, NEW u \in Tags, NEW k \in 1..Len(tags'[u].loaded)
        PROVE  Agrees(setup, tags'[u].loaded[k].options, opts)
    <3>1. CASE k \in 1..Len(tags[u].loaded)
      BY <2>4, <2>6, <3>1 DEF Copies
    <3>2. CASE k \notin 1..Len(tags[u].loaded)
      <4>1. u = t /\ k = n
        BY <1>2, <2>4, <3>2
      <4>2. Agrees(setup, Copied(opts), opts)
        BY <1>1, CopiedIs
      <4> QED BY <2>2, <2>4, <4>1, <4>2
    <3> QED BY <3>1, <3>2
  <2>7. a \in (Spoken \cup OfCore) \X Nat /\ b \in (Spoken \cup OfCore) \X Nat /\ n \in Nat
        /\ a[1] = "placed" /\ a[2] = n /\ b[2] = t
    <3>1. t \in Nat
      BY TagsAssumption
    <3> QED BY <1>2, <3>1 DEF OfCore
  <2> HIDE DEF a, b, n
  <2>8. steps \in Steps
    BY <2>7 DEF Steps
  <2>9. /\ c \in CallOf(setup) /\ c.kind = "core" /\ c.todo = steps \o r
        /\ Instead(steps) = <<c>> \o Tail(stack)
    BY <1>0, <2>8, CoreRest
  <2>10. /\ Len(steps \o r) = Len(r) + 2 /\ (steps \o r)[1] = a /\ (steps \o r)[2] = b
         /\ Len(r) \in Nat
    <3> DEFINE X == (Spoken \cup OfCore) \X Nat
    <3>1. r \in Seq(X) /\ a \in X /\ b \in X
      BY <1>1, <2>7 DEF Steps
    <3> HIDE DEF X, r
    <3> QED BY <3>1, TwoSteps
  <2> HIDE DEF c
  <2>11. d \in CallOf(setup) /\ d.kind = "script" /\ d.todo = setup.files[name]
    BY <1>1, <1>2, ScriptCall
  <2> HIDE DEF d
  <2>12. stack' = new \o Tail(stack)
    BY <1>1, <2>1, <2>9, <2>11, Pushed
  <2>13. /\ new \in Seq(CallOf(setup)) /\ Len(new) = 2 /\ 1..Len(new) = {1, 2}
         /\ new[1] = d /\ new[2] = c
    BY <2>9, <2>11, CallsTyped
  <2> HIDE DEF new
  <2>14. Became(new, {})
    BY <1>1, <2>12, <2>13, BecomesWithout DEF Typed
  <2>15. c.todo[1][1] = "placed" /\ c.todo[1][2] = n /\ c.todo[2][2] = t
    BY <2>7, <2>9, <2>10
  <2>16. Ordinary(c) /\ ~At(c, "rules")
    BY <2>9, <2>15 DEF Ordinary, At
  <2>17. Ordinary(d) /\ ~At(d, "rules") /\ ~At(d, "placed")
    BY <2>11 DEF Ordinary, At
  <2>18. Tame => Mild(d)
    BY <1>1, <1>2, <2>11, FileIsMild
  <2>19. Mild(stack[1]) => Mild(c)
    <3> SUFFICES ASSUME Mild(stack[1]) PROVE Mild(c)
      OBVIOUS
    <3>1. r = <<>> /\ Len(<<>>) = 0
      BY MildFocus
    <3> HIDE DEF r
    <3>2. Len(c.todo) = 2
      BY <2>9, <2>10, <3>1
    <3> QED BY <2>9, <2>15, <3>2 DEF Mild
  <2>20. ASSUME Tame PROVE Finds(new, {})
    <3>1. n <= Len(tags'[t].loaded) /\ 1..(2 - 1) = {1}
      BY <2>4, <2>7
    <3> QED BY <2>13, <2>15, <2>16, <2>17, <2>18, <2>20, <3>1 DEF Finds, Ordinary
  <2>21. \A i \in 1..Len(new) : Ordinary(new[i])
    BY <2>13, <2>16, <2>17
  <2>22. Tame /\ Mild(stack[1]) => \A i \in 1..Len(new) : Mild(new[i])
    BY <2>13, <2>18, <2>19
  <2>23. Len(new) >= 1 /\ setup' = setup /\ opts' = opts /\ fault' = fault
    BY <2>13
  <2> QED BY <1>0, <2>5, <2>6, <2>14, <2>20, <2>21, <2>22, <2>23, GrowMore
<1> QED BY <1>3, <1>4

\* The layout of the shown tag is loaded or focused.
LEMMA FocusMore == TInv /\ TInv' /\ More /\ Focus => More'
<1> SUFFICES ASSUME TInv, TInv', More, Focus PROVE More'
  OBVIOUS
<1>1. Ready("focus") /\ "focus" \in OfCore /\ FocusLayout(Arg) /\ UNCHANGED <<setup, opts, fault>>
  BY DEF Focus, OfCore
<1>2. /\ Arg = shown /\ shown \in Tags
      /\ Follows(setup, shown, Tail(Top.todo), Arg, Len(stack) = 1)
  BY <1>1, CoreFacts, CoreNext DEF GoesOn
<1> QED BY <1>1, <1>2, FocusLayoutMore

\* The layout of any tag is loaded or moved to the front.
LEMMA GetMore == TInv /\ TInv' /\ More /\ Get => More'
<1> SUFFICES ASSUME TInv, TInv', More, Get PROVE More'
  OBVIOUS
<1>1. Ready("get") /\ "get" \in OfCore /\ UNCHANGED <<setup, opts, fault>>
      /\ IF tags[Arg].loaded = <<>> THEN FocusLayout(Arg)
         ELSE stack' = Done /\ UNCHANGED <<tags, opt>>
  BY DEF Get, OfCore
<1>2. /\ Arg \in Tags /\ Follows(setup, shown, Tail(Top.todo), Arg, Len(stack) = 1)
  BY <1>1, CoreFacts, CoreNext DEF GoesOn
<1>3. CASE tags[Arg].loaded = <<>>
  <2>1. FocusLayout(Arg)
    BY <1>1, <1>3
  <2> QED BY <1>1, <1>2, <2>1, FocusLayoutMore
<1>4. CASE tags[Arg].loaded # <<>>
  <2>1. stack' = Done /\ \A t \in Tags : tags'[t].loaded = tags[t].loaded
    BY <1>1, <1>4
  <2> QED BY <1>1, <2>1, DoneMore
<1> QED BY <1>3, <1>4

\* The position where a layout was added is there when the setup is tame.
LEMMA PlacedMore == TInv /\ TInv' /\ More /\ Placed => More'
<1> SUFFICES ASSUME TInv, TInv', More, Placed PROVE More'
  OBVIOUS
<1> DEFINE a == Arg
           rest == Tail(Tail(Top.todo))
           c == [Top EXCEPT !.todo = rest]
<1>1. Ready("placed") /\ "placed" \in OfCore
  BY DEF Placed, OfCore
<1>2. PICK t \in Tags : /\ Top.todo[2] = <<"front", t>>
                        /\ Follows(setup, shown, Tail(Tail(Top.todo)), t, Len(stack) = 1)
  BY <1>1, CoreFacts, CoreNext DEF GoesOn
<1>3. /\ Len(Top.todo) >= 2 /\ Top.todo \in Steps /\ Typed /\ stack # <<>> /\ Top.todo # <<>>
      /\ Top.kind = "core" /\ stack[1] = Top /\ Top.todo[1][1] = "placed" /\ a = Top.todo[1][2]
      /\ a \in Nat /\ a >= 1
  BY <1>1, CoreFacts, CoreNext DEF GoesOn
<1>4. Top.todo[2][2] = t
  BY <1>2
<1>5. tags \in [Tags -> Tag(setup)] /\ DOMAIN tags[t].loaded = 1..Len(tags[t].loaded)
      /\ Len(tags[t].loaded) \in Nat
  BY <1>3, LoadedTyped DEF Typed
<1>6. CASE Arg \notin DOMAIN tags[t].loaded
  <2>1. Ends("position")
    BY <1>4, <1>6 DEF Placed
  <2>2. ~Tame
    <3> SUFFICES ASSUME Tame PROVE FALSE
      OBVIOUS
    <3>1. 1 \in 1..Len(stack) /\ Tamed
      BY <1>3, TopTyped DEF More
    <3>2. At(stack[1], "placed")
      BY <1>3 DEF At
    <3>3. a <= Len(tags[t].loaded)
      BY <1>3, <1>4, <3>1, <3>2 DEF Tamed
    <3> QED BY <1>3, <1>5, <1>6, <3>3
  <2> QED BY <2>1, <2>2, EndsMore
<1>7. CASE Arg \in DOMAIN tags[t].loaded
  <2>1. /\ tags' = InFront(t, a) /\ stack' = <<c>> \o Tail(stack) /\ a \in 1..Len(tags[t].loaded)
        /\ UNCHANGED <<setup, opts, default, shown, opt, listeners, prohibited, error_file, fault>>
    BY <1>4, <1>5, <1>7 DEF Placed, InFront
  <2>2. c \in CallOf(setup) /\ c.kind = Top.kind /\ c.todo = rest
    BY <1>3, PlacedRest
  <2>3. Mild(stack[1]) => rest = <<>>
    <3> SUFFICES ASSUME Mild(stack[1]) PROVE rest = <<>>
      OBVIOUS
    <3>1. Top.todo \in Steps /\ Len(Top.todo) = 2
      BY <1>3 DEF Mild
    <3> QED BY <3>1, FewAreLeft
  <2> HIDE DEF c, a, rest
  <2>4. /\ c.kind = "core" /\ Follows(setup, shown, c.todo, t, Len(stack) = 1)
        /\ (Mild(stack[1]) => c.todo = <<>>)
        /\ setup' = setup /\ opts' = opts /\ fault' = fault
    BY <1>2, <1>3, <2>1, <2>2, <2>3 DEF rest
  <2> QED BY <1>1, <2>1, <2>2, <2>4, FrontMore
<1> QED BY <1>6, <1>7

\* The config file begins with the options of a new configuration.
LEMMA LoadConfigMore == TInv /\ TInv' /\ More /\ LoadConfig => More'
<1> SUFFICES ASSUME TInv, TInv', More, LoadConfig PROVE More'
  OBVIOUS
<1>1. Ready("config") /\ "config" \in OfCore /\ opt' = OfDefault
      /\ setup' = setup /\ opts' = opts /\ tags' = tags /\ fault' = fault
  BY DEF LoadConfig, OfCore
<1> PICK f \in setup.configs : stack' = <<Call("config", f)>> \o Done
  BY DEF LoadConfig
<1> DEFINE d == Call("config", f)
           c == Rest(<<>>)
           new == <<d, c>>
<1>2. /\ Typed /\ stack # <<>> /\ setup \in Setups /\ Top = stack[1] /\ Len(Top.todo) >= 1
      /\ Top.kind = "core" /\ Top.todo[1][1] = "config" /\ Top.todo # <<>> /\ Len(stack) >= 1
  BY <1>1, CoreFacts, TopTyped
<1>3. At(stack[1], "config") /\ ~Mild(stack[1])
  BY <1>2 DEF At, Mild
<1>4. /\ d \in CallOf(setup) /\ d.kind = "config" /\ d.todo = f
      /\ f \in Seq(Statements(setup))
  <2>1. f \in Seq(Statements(setup)) /\ f \in Steps
    BY <1>2, SetupFacts, StatementsAreSteps
  <2>2. "config" \in Kinds
    BY DEF Kinds
  <2> QED BY <2>1, <2>2, CallTyped
<1>5. /\ c \in CallOf(setup) /\ c.kind = "core" /\ c.todo = Tail(Top.todo)
      /\ Done = <<c>> \o Tail(stack)
  BY <1>1, CoreDoneIs
<1>6. stack' = <<d>> \o (<<c>> \o Tail(stack))
  BY <1>5
<1> HIDE DEF c, d
<1>7. Plainly(c) /\ ~At(c, "rules")
  BY <1>1, <1>5, RestIsPlain
<1>8. stack' = new \o Tail(stack)
  BY <1>2, <1>4, <1>5, <1>6, Pushed
<1>9. /\ new \in Seq(CallOf(setup)) /\ Len(new) = 2 /\ new[1] = d /\ new[2] = c
      /\ 1..Len(new) = {1, 2}
  BY <1>4, <1>5, CallsTyped
<1> HIDE DEF new
<1>10. Became(new, {}) /\ Len(new) >= 1
  <2>1. Became(new, {})
    BY <1>2, <1>8, <1>9, BecomesWithout DEF Typed
  <2> QED BY <1>9, <2>1
<1>11. (Tame' <=> Tame) /\ (Plain' <=> Plain)
  BY <1>1, SetupDecides
<1>12. ASSUME Tame PROVE Tamed'
  <2>1. Tamed /\ Clear
    BY <1>2, <1>3, <1>12, ClearWhen DEF More
  <2>2. Finds(new, {})
    BY <1>1, <1>4, <1>7, <1>9 DEF Finds, Plainly, Ordinary, At
  <2> QED BY <1>1, <1>2, <1>10, <2>1, <2>2, TamedKept
<1>13. ASSUME Plain PROVE Copies' /\ WholeSoFar'
  <2>1. Copies /\ WholeSoFar
    BY <1>13 DEF More
  <2>2. \A i \in 1..Len(new) : new[i].kind = "config" => i = 1 /\ opt' = OfDefault
    BY <1>1, <1>5, <1>9
  <2>3. \A t \in Tags : \A i \in 1..Len(tags'[t].loaded) :
          Agrees(setup, tags'[t].loaded[i].options, opts')
    BY <1>1, <2>1 DEF Copies
  <2>4. Copies'
    BY <1>1, <1>2, <1>10, <2>1, <2>2, <2>3, CopiesKept
  <2>5. Same(stack'[1], d, {}) /\ Len(stack') >= 1
    BY <1>2, <1>9, <1>10, NewTop
  <2>6. Reading' /\ ~Beginning' /\ stack'[1].todo = f
    BY <1>4, <2>5 DEF Same, Reading, Beginning, At
  <2>7. Copied(opts) = Created
    BY <1>2, <1>3, <2>1 DEF WholeSoFar, Beginning
  <2>8. Said(setup, f, 0, f, opts) /\ 0 \in 0..Len(f)
    <3>1. Copied(Created) = Created /\ SaidUpTo(setup, f, 0) = Created
      BY <1>2, <1>4, CopiedIs, SaidIs
    <3>2. Len(f) \in Nat
      <4> DEFINE X == Statements(setup)
      <4>1. f \in Seq(X)
        BY <1>4
      <4> HIDE DEF X
      <4> QED BY <4>1
    <3>3. Len(f) = Len(f) - 0 /\ (\A i \in 1..Len(f) : f[i] = f[0 + i]) /\ 1..0 = {}
      BY <3>2
    <3> QED BY <2>7, <3>1, <3>2, <3>3 DEF Said
  <2>9. \E k \in 0..Len(f) : Said(setup', f, k, stack'[1].todo, opts')
    BY <1>1, <2>6, <2>8
  <2> QED BY <1>1, <2>4, <2>6, <2>9 DEF WholeSoFar
<1> QED BY <1>11, <1>12, <1>13 DEF More

-----------------------------------------------------------------------------
(* The steps of scripts, and the configuration *)

\* What a statement does to options is the same for a copy.
LEMMA CopiesChange ==
  ASSUME NEW s \in Setups, NEW o \in Options(s), NEW p \in Options(s), NEW op, NEW n,
         Copied(o) = Copied(p)
  PROVE  Copied(ChangedBy(s, o, op, n)) = Copied(ChangedBy(s, p, op, n))
<1> DEFINE e == Created.entry
           K == OrderedLists(DOMAIN s.scripts)
           R == Seq(DOMAIN s.rules)
           N == DOMAIN s.names
           O == [gap : Nat, mod : Nat, names : N, rules : R, keys : K, entry : Nat]
           k(x) == AddKeybinding(x.keys, << <<s.binds[n].key>> >>, s.binds[n].run)
           r(x) == Append(x.rules, n)
<1>1. o \in O /\ p \in O
  BY DEF Options
<1>2. \A x : Copied(x) = [x EXCEPT !.entry = e]
  BY Zenon DEF Copied
<1>3. \A x : /\ op = "rule" => ChangedBy(s, x, op, n) = [x EXCEPT !.rules = r(x)]
             /\ op = "bind" => ChangedBy(s, x, op, n) = [x EXCEPT !.keys = k(x)]
  BY DEF ChangedBy
<1> HIDE DEF e, K, R, N
<1>4. /\ o.gap = p.gap /\ o.mod = p.mod /\ o.names = p.names /\ o.rules = p.rules
      /\ o.keys = p.keys
  <2>1. \A x \in O : /\ Copied(x).gap = x.gap /\ Copied(x).mod = x.mod
                     /\ Copied(x).names = x.names /\ Copied(x).rules = x.rules
                     /\ Copied(x).keys = x.keys
    BY <1>2
  <2> QED BY <1>1, <2>1
<1>5. k(o) = k(p) /\ r(o) = r(p)
  BY <1>4
<1> DEFINE ko == k(o)
           kp == k(p)
           ro == r(o)
           rp == r(p)
<1>6. ko = kp /\ ro = rp
  BY <1>5
<1>7. /\ op = "rule" => /\ ChangedBy(s, o, op, n) = [o EXCEPT !.rules = ro]
                        /\ ChangedBy(s, p, op, n) = [p EXCEPT !.rules = rp]
      /\ op = "bind" => /\ ChangedBy(s, o, op, n) = [o EXCEPT !.keys = ko]
                        /\ ChangedBy(s, p, op, n) = [p EXCEPT !.keys = kp]
  BY <1>3
<1> HIDE DEF ko, kp, ro, rp
<1>8. CASE op \in {"rule", "bind"}
  BY <1>1, <1>2, <1>4, <1>6, <1>7, <1>8
<1>9. CASE op \in {"gap", "mod", "entry", "names"}
  BY <1>1, <1>2, <1>4, <1>9 DEF ChangedBy
<1>10. CASE op \notin {"rule", "bind", "gap", "mod", "entry", "names"}
  BY <1>10 DEF ChangedBy
<1> QED BY <1>8, <1>9, <1>10

\* What functions and layout files set, they may set.
LEMMA AgreesOn ==
  ASSUME NEW s \in Setups, NEW o \in Options(s), NEW p, NEW op \in Sayings(s), NEW n,
         Agrees(s, o, p)
  PROVE  Agrees(s, ChangedBy(s, o, op, n), p)
<1> DEFINE K == OrderedLists(DOMAIN s.scripts)
           R == Seq(DOMAIN s.rules)
           N == DOMAIN s.names
           O == [gap : Nat, mod : Nat, names : N, rules : R, keys : K, entry : Nat]
           k == AddKeybinding(o.keys, << <<s.binds[n].key>> >>, s.binds[n].run)
           r == Append(o.rules, n)
           c == ChangedBy(s, o, op, n)
<1>1. o \in O
  BY DEF Options
<1>2. /\ op = "gap" => c = [o EXCEPT !.gap = n]
      /\ op = "mod" => c = [o EXCEPT !.mod = n]
      /\ op = "entry" => c = [o EXCEPT !.entry = n]
      /\ op = "rule" => c = [o EXCEPT !.rules = r]
      /\ op = "bind" => c = [o EXCEPT !.keys = k]
      /\ op = "names" => c = [o EXCEPT !.names = n]
      /\ op \notin {"gap", "mod", "entry", "rule", "bind", "names"} => c = o
  BY DEF ChangedBy
<1> HIDE DEF K, R, N, k, r, c
<1>3. /\ op # "gap" => c.gap = o.gap
      /\ op # "mod" => c.mod = o.mod
      /\ op # "names" => c.names = o.names
      /\ op # "rule" => c.rules = o.rules
      /\ op # "bind" => c.keys = o.keys
  BY <1>1, <1>2
<1>4. Agrees(s, c, p)
  BY <1>3 DEF Agrees
<1> QED BY <1>4 DEF c

\* The config file goes on with its next statement.
LEMMA ConfigAdvances ==
  ASSUME Typed, Forms, WholeSoFar, NEW op \in Spoken, op \notin {"fail", "reload"}, Ready(op),
         Top.kind = "config", setup' = setup, opts' = Changed(opts, op, Arg),
         Len(stack') >= 1, stack'[1].kind = "config", stack'[1].todo = Tail(Top.todo)
  PROVE  WholeSoFar'
<1>1. /\ stack # <<>> /\ stack[1] = Top /\ Top.todo # <<>> /\ Len(stack) >= 1
      /\ Top.todo[1][1] = op /\ Arg = Top.todo[1][2] /\ Top.todo \in Seq(Statements(setup))
      /\ setup \in Setups /\ opts \in Options(setup)
  BY TopForms DEF Says, Typed
<1>2. Reading /\ Reading' /\ ~Beginning'
  BY <1>1 DEF Reading, Beginning, At
<1> PICK c \in setup.configs : \E k \in 0..Len(c) : Said(setup, c, k, stack[1].todo, opts)
  BY <1>2 DEF WholeSoFar
<1> PICK k \in 0..Len(c) : Said(setup, c, k, stack[1].todo, opts)
  OBVIOUS
<1> DEFINE X == Statements(setup)
           r == Top.todo
           n == Len(c)
<1>3. c \in Seq(X) /\ r \in Seq(X)
  BY <1>1, SetupFacts
<1>4. /\ Len(r) = n - k /\ \A i \in 1..Len(r) : r[i] = c[k + i]
      /\ \A i \in 1..k : c[i][1] \notin {"fail", "reload"}
      /\ Copied(opts) = Copied(SaidUpTo(setup, c, k))
  BY <1>1 DEF Said
<1> HIDE DEF X
<1>5. n \in Nat /\ Len(r) \in Nat /\ Len(r) >= 1
  BY <1>1, <1>3, EmptySeq
<1>6. Len(Tail(r)) = Len(r) - 1 /\ \A i \in 1..(Len(r) - 1) : Tail(r)[i] = r[i + 1]
  BY <1>1, <1>3, HeadTailProperties
<1>7. k + 1 \in 1..n /\ k + 1 \in 0..n /\ k \in 0..n /\ (k + 1) - 1 = k /\ r[1] = c[k + 1]
  BY <1>4, <1>5
<1>8. Len(Tail(r)) = n - (k + 1) /\ \A i \in 1..Len(Tail(r)) : Tail(r)[i] = c[(k + 1) + i]
  <2> DEFINE u == Tail(r)
             m == Len(r)
  <2>1. Len(u) = m - 1 /\ m = n - k /\ m \in Nat /\ \A i \in 1..(m - 1) : u[i] = r[i + 1]
    BY <1>4, <1>5, <1>6
  <2>2. \A i \in 1..m : r[i] = c[k + i]
    BY <1>4
  <2> HIDE DEF u, m
  <2>3. Len(u) = n - (k + 1)
    BY <1>5, <2>1
  <2>4. ASSUME NEW i \in 1..Len(u) PROVE u[i] = c[(k + 1) + i]
    <3>1. i \in 1..(m - 1) /\ i + 1 \in 1..m /\ k + (i + 1) = (k + 1) + i
      BY <2>1
    <3> QED BY <2>1, <2>2, <3>1
  <2> QED BY <2>3, <2>4 DEF u
<1>9. \A i \in 1..(k + 1) : c[i][1] \notin {"fail", "reload"}
  <2> SUFFICES ASSUME NEW i \in 1..(k + 1) PROVE c[i][1] \notin {"fail", "reload"}
    OBVIOUS
  <2>1. i \in 1..k \/ i = k + 1
    OBVIOUS
  <2> QED BY <1>1, <1>4, <1>7, <2>1
<1>10. Copied(opts') = Copied(SaidUpTo(setup, c, k + 1))
  <2> DEFINE S(i) == SaidUpTo(setup, c, i)
  <2>1. S(k + 1) = ChangedBy(setup, S((k + 1) - 1), c[k + 1][1], c[k + 1][2]) /\ S(k) \in Options(setup)
    BY <1>1, <1>3, <1>7, SaidIs DEF X
  <2>2. S(k + 1) = ChangedBy(setup, S(k), op, Arg)
    BY <1>1, <1>7, <2>1
  <2>3. opts' = ChangedBy(setup, opts, op, Arg)
    BY ChangedIsBy
  <2> HIDE DEF S
  <2>4. Copied(opts) = Copied(S(k))
    BY <1>4 DEF S
  <2>5. Copied(ChangedBy(setup, opts, op, Arg)) = Copied(ChangedBy(setup, S(k), op, Arg))
    BY <1>1, <2>1, <2>4, CopiesChange
  <2> QED BY <2>2, <2>3, <2>5 DEF S
<1>11. Said(setup, c, k + 1, Tail(r), opts')
  BY <1>8, <1>9, <1>10 DEF Said
<1>12. \E d \in setup'.configs : \E j \in 0..Len(d) : Said(setup', d, j, stack'[1].todo, opts')
  BY <1>7, <1>11
<1> QED BY <1>2, <1>12 DEF WholeSoFar

\* The layouts of the tags that are not the one opt points to stay as they were.
SetIn(op, n) ==
  \A t \in Tags :
    \/ tags'[t].loaded \in {tags[t].loaded, <<>>}
    \/ tags'[t].loaded = ChangedIn(tags[t].loaded, opt[2], op, n)

\* What scripts other than the config file set in a layout, they may set.
LEMMA SetInAgrees ==
  ASSUME TInv, Copies, NEW op \in Spoken, Ready(op), Top.kind # "config", SetIn(op, Arg)
  PROVE  \A t \in Tags : \A i \in 1..Len(tags'[t].loaded) :
           Agrees(setup, tags'[t].loaded[i].options, opts)
<1> SUFFICES ASSUME NEW t \in Tags, NEW i \in 1..Len(tags'[t].loaded)
             PROVE  Agrees(setup, tags'[t].loaded[i].options, opts)
  OBVIOUS
<1>1. /\ Typed /\ setup \in Setups /\ op \in Sayings(setup) /\ tags \in [Tags -> Tag(setup)]
      /\ \A o \in Options(setup) : Changed(o, op, Arg) \in Options(setup)
  <2>1. Typed /\ Forms /\ setup \in Setups /\ tags \in [Tags -> Tag(setup)]
    BY DEF TInv, Typed
  <2>2. Top.todo # <<>> /\ Top.todo[1][1] = op /\ Says(setup, Top)
    BY <2>1, TopForms
  <2>3. op \in Ops(Top.todo)
    <3> DEFINE X == Statements(setup)
    <3>1. Top.todo \in Seq(X)
      BY <2>2 DEF Says
    <3> HIDE DEF X
    <3> QED BY <2>2, <3>1, OpsOfRest
  <2>4. op \in Sayings(setup)
    BY <2>2, <2>3 DEF Says
  <2> QED BY <2>1, <2>4, StatementChanges
<1>2. Len(<<>>) = 0 /\ 1..0 = {}
  OBVIOUS
<1>3. CASE tags'[t].loaded = tags[t].loaded
  BY <1>3 DEF Copies
<1>4. CASE tags'[t].loaded = <<>>
  BY <1>2, <1>4
<1>5. CASE tags'[t].loaded = ChangedIn(tags[t].loaded, opt[2], op, Arg)
  <2> DEFINE lts == tags[t].loaded
             name == opt[2]
             l == lts[i]
             o == Changed(l.options, op, Arg)
  <2>1. lts \in Seq(Layout(setup))
    BY <1>1, LoadedTyped
  <2>2. tags'[t].loaded = ChangedIn(lts, name, op, Arg)
    BY <1>5
  <2> HIDE DEF lts, name
  <2>3. /\ Len(tags'[t].loaded) = Len(lts) /\ i \in 1..Len(lts)
        /\ tags'[t].loaded[i] = IF l.name = name THEN [l EXCEPT !.options = o] ELSE l
    BY <1>1, <2>1, <2>2, ChangedInTyped
  <2>4. Agrees(setup, l.options, opts)
    BY <2>3 DEF Copies, lts
  <2>5. l \in Layout(setup) /\ l.options \in Options(setup)
    <3>1. l \in Layout(setup)
      <4> DEFINE L == Layout(setup)
      <4> HIDE DEF L
      <4>1. lts \in Seq(L)
        BY <2>1 DEF L
      <4> QED BY <2>3, <4>1 DEF L
    <3> DEFINE O == Options(setup)
               F == DOMAIN setup.files
    <3>2. l \in [name : F, options : O]
      BY <3>1 DEF Layout
    <3> HIDE DEF O, F, l
    <3>3. l.options \in O
      BY <3>2
    <3> QED BY <3>1, <3>3 DEF O
  <2>6. Agrees(setup, o, opts)
    <3>1. o = ChangedBy(setup, l.options, op, Arg)
      BY ChangedIsBy
    <3> QED BY <1>1, <2>4, <2>5, <3>1, AgreesOn
  <2> HIDE DEF o
  <2>7. [l EXCEPT !.options = o].options = o
    <3> DEFINE O == Options(setup)
               F == DOMAIN setup.files
    <3>1. l \in [name : F, options : O]
      BY <2>5 DEF Layout
    <3> HIDE DEF O, F, l
    <3> QED BY <3>1
  <2> HIDE DEF l
  <2> QED BY <2>3, <2>4, <2>6, <2>7
<1> QED BY <1>3, <1>4, <1>5 DEF SetIn

\* A script says what names no tags, loads no layout, and does not fail or reload.
LEMMA SpokenMore ==
  ASSUME TInv, TInv', More, NEW op \in Spoken, op \notin {"fail", "reload", "names", "load"},
         Ready(op), stack' = Done, setup' = setup, opt' = opt, fault' = fault,
         \A t \in Tags : Len(tags'[t].loaded) = Len(tags[t].loaded),
         Top.kind = "config" /\ opt = OfDefault => opts' = Changed(opts, op, Arg),
         Top.kind # "config" => opts' = opts /\ SetIn(op, Arg)
  PROVE  More'
<1> DEFINE c == Rest(<<>>)
           new == <<c>>
<1>1. /\ Typed /\ Forms /\ stack # <<>> /\ stack[1] = Top /\ Top.kind # "core" /\ Len(stack) >= 1
      /\ Top.todo # <<>>
  BY TopForms DEF TInv
<1>2. /\ c \in CallOf(setup) /\ c.kind = Top.kind /\ c.todo = Tail(Top.todo)
      /\ Ops(c.todo) \subseteq Ops(Top.todo) /\ Done = <<c>> \o Tail(stack)
  BY <1>1, SaysOn
<1> HIDE DEF c
<1>3. new \in Seq(CallOf(setup)) /\ Len(new) = 1 /\ new[1] = c /\ 1..Len(new) = {1}
  BY <1>2, CallsTyped
<1>4. stack' = new \o Tail(stack)
  BY <1>2
<1> HIDE DEF new
<1>5. Became(new, {})
  BY <1>1, <1>3, <1>4, BecomesWithout DEF Typed
<1>6. (Tame' <=> Tame) /\ (Plain' <=> Plain)
  BY SetupDecides
<1>7. ASSUME Tame PROVE Tamed'
  <2>1. Tamed
    BY <1>7 DEF More
  <2>2. Finds(new, {})
    <3>1. Top.kind = "config" /\ "names" \in Ops(Top.todo) => opt = OfDefault
      <4>1. 1 \in 1..Len(stack)
        BY <1>1, TopTyped
      <4> QED BY <1>1, <2>1, <4>1 DEF Tamed
    <3> QED BY <1>1, <1>2, <1>3, <3>1 DEF Finds, At
  <2>3. CASE Mild(stack[1])
    <3>1. Mild(c)
      BY <1>1, <1>2, <2>3 DEF Mild
    <3>2. \A t \in Tags : Len(tags'[t].loaded) >= Len(tags[t].loaded)
      <4>1. tags \in [Tags -> Tag(setup)]
        BY <1>1 DEF Typed
      <4> QED BY <4>1, LoadedTyped
    <3>3. Gentle(new, {})
      BY <1>3, <3>1, <3>2 DEF Gentle
    <3> QED BY <1>1, <1>5, <2>1, <2>2, <3>3, TamedKept
  <2>4. CASE ~Mild(stack[1])
    <3>1. Clear
      BY <1>1, <2>1, <2>4, ClearWhen
    <3> QED BY <1>1, <1>5, <2>1, <2>2, <3>1, TamedKept
  <2> QED BY <2>3, <2>4
<1>8. ASSUME Plain PROVE Copies' /\ WholeSoFar'
  <2>1. Copies /\ WholeSoFar
    BY <1>8 DEF More
  <2>2. Same(stack'[1], c, {}) /\ Len(stack') >= 1
    BY <1>1, <1>3, <1>5, NewTop
  <2>3. stack'[1].kind = Top.kind /\ stack'[1].todo = Tail(Top.todo)
    BY <1>2, <2>2 DEF Same
  <2>4. CASE Top.kind = "config"
    <3>1. opt = OfDefault /\ Bare /\ opts' = Changed(opts, op, Arg)
      <4>1. 1 \in 1..Len(stack)
        BY <1>1, TopTyped
      <4> QED BY <1>1, <2>1, <2>4, <4>1 DEF Copies, TInv, OptAgrees
    <3>2. \A t \in Tags : \A i \in 1..Len(tags'[t].loaded) :
            Agrees(setup, tags'[t].loaded[i].options, opts')
      <4>1. Len(<<>>) = 0 /\ 1..0 = {}
        OBVIOUS
      <4> QED BY <3>1, <4>1 DEF Bare
    <3>3. \A i \in 1..Len(new) : new[i].kind = "config" => i = 1 /\ opt' = OfDefault
      BY <1>3, <3>1
    <3>4. Copies'
      BY <1>1, <1>5, <2>1, <3>2, <3>3, CopiesKept
    <3>5. WholeSoFar'
      BY <1>1, <2>1, <2>2, <2>3, <2>4, <3>1, ConfigAdvances
    <3> QED BY <3>4, <3>5
  <2>5. CASE Top.kind # "config"
    <3>1. \A t \in Tags : \A i \in 1..Len(tags'[t].loaded) :
            Agrees(setup, tags'[t].loaded[i].options, opts')
      BY <2>1, <2>5, SetInAgrees
    <3>2. \A i \in 1..Len(new) : new[i].kind = "config" => i = 1 /\ opt' = OfDefault
      BY <1>2, <1>3, <2>5
    <3>3. Copies'
      BY <1>1, <1>5, <2>1, <3>1, <3>2, CopiesKept
    <3>4. ~Beginning /\ ~Reading /\ ~Beginning' /\ ~Reading'
      BY <1>1, <2>3, <2>5 DEF Beginning, Reading, At
    <3> QED BY <2>1, <2>5, <3>3, <3>4, WholeKept
  <2> QED BY <2>4, <2>5
<1> QED BY <1>6, <1>7, <1>8 DEF More

\* A name only
LEMMA SetDefaultLayoutMore == TInv /\ TInv' /\ More /\ SetDefaultLayout => More'
<1> SUFFICES ASSUME TInv, TInv', More, SetDefaultLayout PROVE More'
  OBVIOUS
<1>1. /\ Ready("default_layout") /\ "default_layout" \in Spoken /\ stack' = Done
      /\ setup' = setup /\ opts' = opts /\ tags' = tags /\ opt' = opt /\ fault' = fault
  BY DEF SetDefaultLayout, Spoken
<1>2. opts' = Changed(opts, "default_layout", Arg)
  BY <1>1 DEF Changed
<1>3. SetIn("default_layout", Arg) /\ \A t \in Tags : Len(tags'[t].loaded) = Len(tags[t].loaded)
  BY <1>1 DEF SetIn
<1> QED BY <1>1, <1>2, <1>3, SpokenMore

\* A script adds a function to those called for events.
LEMMA AddListenerMore == TInv /\ TInv' /\ More /\ AddListener => More'
<1> SUFFICES ASSUME TInv, TInv', More, AddListener PROVE More'
  OBVIOUS
<1>1. /\ Ready("listen") /\ "listen" \in Spoken /\ stack' = Done
      /\ setup' = setup /\ opts' = opts /\ tags' = tags /\ opt' = opt /\ fault' = fault
  BY DEF AddListener, Spoken
<1>2. opts' = Changed(opts, "listen", Arg)
  BY <1>1 DEF Changed
<1>3. SetIn("listen", Arg) /\ \A t \in Tags : Len(tags'[t].loaded) = Len(tags[t].loaded)
  BY <1>1 DEF SetIn
<1> QED BY <1>1, <1>2, <1>3, SpokenMore

\* An option is set where opt points.
LEMMA SetOptionMore == TInv /\ TInv' /\ More /\ SetOption => More'
<1> SUFFICES ASSUME TInv, TInv', More, NEW op \in Setters, Ready(op),
                    IF opt = Freed THEN Ends("options_freed")
                    ELSE /\ IF opt = OfDefault
                            THEN opts' = Changed(opts, op, Arg) /\ UNCHANGED tags
                            ELSE /\ tags' = [tags EXCEPT ![opt[1]].loaded =
                                                            ChangedIn(@, opt[2], op, Arg)]
                                 /\ UNCHANGED opts
                         /\ stack' = Done
                         /\ UNCHANGED <<setup, default, shown, opt, listeners, prohibited, error_file, fault>>
             PROVE  More'
  BY DEF SetOption
<1>1. op \in Spoken /\ op \notin {"fail", "reload", "names", "load"}
  BY DEF Setters, Spoken
<1>2. opt # Freed /\ (opt = OfDefault => Top.kind = "config") /\ Typed
  BY <1>1, SpokenFacts DEF TInv
<1>3. stack' = Done /\ setup' = setup /\ opt' = opt /\ fault' = fault
  BY <1>2
<1>4. CASE opt = OfDefault
  <2>1. opts' = Changed(opts, op, Arg) /\ tags' = tags
    BY <1>2, <1>4
  <2>2. \A t \in Tags : Len(tags'[t].loaded) = Len(tags[t].loaded)
    BY <2>1
  <2> QED BY <1>1, <1>2, <1>3, <1>4, <2>1, <2>2, SpokenMore
<1>5. CASE opt # OfDefault
  <2> DEFINE k == opt[1]
             lts == tags[k].loaded
             set == ChangedIn(lts, opt[2], op, Arg)
  <2>1. tags \in [Tags -> Tag(setup)] /\ k \in Tags
    <3>1. opt \in Tags \X DOMAIN setup.files
      BY <1>2, <1>5 DEF Typed, Pointers
    <3> QED BY <1>2, <3>1 DEF Typed
  <2>2. tags' = [tags EXCEPT ![k].loaded = set] /\ opts' = opts
    BY <1>2, <1>5
  <2> HIDE DEF k
  <2>3. lts \in Seq(Layout(setup)) /\ \A o \in Options(setup) : Changed(o, op, Arg) \in Options(setup)
    BY <1>1, <2>1, LoadedTyped, StatementChanges
  <2> HIDE DEF lts
  <2>4. set \in Seq(Layout(setup)) /\ Len(set) = Len(lts)
    BY <2>3, ChangedInTyped
  <2> HIDE DEF set
  <2>5. \A t \in Tags : tags'[t].loaded = IF t = k THEN set ELSE tags[t].loaded
    BY <2>1, <2>2, <2>4, LoadedReplaced
  <2>6. \A t \in Tags : Len(tags'[t].loaded) = Len(tags[t].loaded)
    BY <2>4, <2>5 DEF lts
  <2>7. SetIn(op, Arg)
    BY <2>5 DEF SetIn, set, lts
  <2> QED BY <1>1, <1>3, <1>5, <2>2, <2>6, <2>7, SpokenMore
<1> QED BY <1>4, <1>5

\* What is said is one of the statements that are left.
LEMMA SaidIsLeft ==
  ASSUME TInv, NEW op \in Spoken, Ready(op)
  PROVE  op \in Ops(Top.todo) /\ Says(setup, Top)
<1> DEFINE X == Statements(setup)
<1>1. Top.todo # <<>> /\ Top.todo[1][1] = op /\ Says(setup, Top)
  BY TopForms DEF TInv
<1>2. Top.todo \in Seq(X)
  BY <1>1 DEF Says
<1> HIDE DEF X
<1> QED BY <1>1, <1>2, OpsOfRest

\* A layout is loaded by no config file that names tags, and by none when all are plain.
LEMMA LoadMore == TInv /\ TInv' /\ More /\ Load => More'
<1> SUFFICES ASSUME TInv, TInv', More, Load PROVE More'
  OBVIOUS
<1> DEFINE rest == Rest(<<>>)
           c == Core(<< <<"focus", shown>> >>)
           new == <<c, rest>>
<1>1. /\ Ready("load") /\ "load" \in Spoken /\ stack' = <<c>> \o Done
      /\ tags' = [tags EXCEPT ![shown].layout = Arg]
      /\ setup' = setup /\ opts' = opts /\ opt' = opt /\ fault' = fault
  BY DEF Load, Spoken
<1>2. /\ Typed /\ Forms /\ stack # <<>> /\ stack[1] = Top /\ Top.kind # "core" /\ Len(stack) >= 1
      /\ Says(setup, Top) /\ "load" \in Ops(Top.todo)
  BY <1>1, TopForms, SaidIsLeft DEF TInv
<1>3. /\ rest \in CallOf(setup) /\ rest.kind = Top.kind /\ Done = <<rest>> \o Tail(stack)
      /\ Ops(rest.todo) \subseteq Ops(Top.todo)
  BY <1>1, <1>2, SaysOn
<1>4. /\ c \in CallOf(setup) /\ c.kind = "core" /\ Len(c.todo) = 1 /\ c.todo[1][1] = "focus"
  <2>1. c \in CallOf(setup) /\ c.kind = "core" /\ c.todo = << <<"focus", shown>> >>
    BY <1>2, FocusCall
  <2>2. Len(<< <<"focus", shown>> >>) = 1 /\ << <<"focus", shown>> >>[1][1] = "focus"
    OBVIOUS
  <2> QED BY <2>1, <2>2
<1> HIDE DEF c, rest
<1>5. stack' = new \o Tail(stack)
  BY <1>1, <1>2, <1>3, <1>4, Pushed
<1>6. /\ new \in Seq(CallOf(setup)) /\ Len(new) = 2 /\ new[1] = c /\ new[2] = rest
      /\ 1..Len(new) = {1, 2}
  BY <1>3, <1>4, CallsTyped
<1> HIDE DEF new
<1>7. Became(new, {}) /\ Len(new) >= 1
  <2>1. Became(new, {})
    BY <1>2, <1>5, <1>6, BecomesWithout DEF Typed
  <2> QED BY <1>6, <2>1
<1>8. \A t \in Tags : tags'[t].loaded = tags[t].loaded
  <2> DEFINE T == Seq(Layout(setup))
             N == DOMAIN setup.names
             F == DOMAIN setup.files
  <2>1. tags \in [Tags -> Tag(setup)] /\ Tag(setup) = [name : N, layout : F, loaded : T]
    BY <1>2 DEF Typed, Tag
  <2> HIDE DEF T, N, F
  <2> QED BY <1>1, <2>1
<1>9. (Tame' <=> Tame) /\ (Plain' <=> Plain)
  BY <1>1, SetupDecides
<1>10. Ordinary(c) /\ ~At(c, "placed") /\ ~At(c, "rules") /\ Mild(c)
  BY <1>4 DEF Ordinary, At, Mild
<1>11. ASSUME Tame PROVE Tamed'
  <2>1. Tamed
    BY <1>11 DEF More
  <2>2. ~(rest.kind = "config" /\ "names" \in Ops(rest.todo))
    BY <1>2, <1>3, <1>11, TameSays
  <2>3. Finds(new, {})
    BY <1>2, <1>3, <1>6, <1>10, <2>2 DEF Finds, At, Ordinary
  <2>4. CASE Mild(stack[1])
    <3>1. Mild(rest)
      BY <1>2, <1>3, <2>4 DEF Mild
    <3>2. \A t \in Tags : Len(tags'[t].loaded) >= Len(tags[t].loaded)
      <4>1. tags \in [Tags -> Tag(setup)]
        BY <1>2 DEF Typed
      <4> QED BY <1>8, <4>1, LoadedTyped
    <3>3. Gentle(new, {})
      BY <1>6, <1>10, <3>1, <3>2 DEF Gentle
    <3> QED BY <1>1, <1>2, <1>7, <2>1, <2>3, <3>3, TamedKept
  <2>5. CASE ~Mild(stack[1])
    <3>1. Clear
      BY <1>2, <2>1, <2>5, ClearWhen
    <3> QED BY <1>1, <1>2, <1>7, <2>1, <2>3, <3>1, TamedKept
  <2> QED BY <2>4, <2>5
<1>12. ASSUME Plain PROVE Copies' /\ WholeSoFar'
  <2>1. Copies /\ WholeSoFar
    BY <1>12 DEF More
  <2>2. Top.kind # "config"
    BY <1>2, <1>12 DEF Says, Plain
  <2>3. \A i \in 1..Len(new) : new[i].kind = "config" => i = 1 /\ opt' = OfDefault
    BY <1>3, <1>4, <1>6, <2>2
  <2>4. \A t \in Tags : \A i \in 1..Len(tags'[t].loaded) :
          Agrees(setup, tags'[t].loaded[i].options, opts')
    BY <1>1, <1>8, <2>1 DEF Copies
  <2>5. Copies'
    BY <1>1, <1>2, <1>7, <2>1, <2>3, <2>4, CopiesKept
  <2>6. Ordinary(stack'[1]) /\ Len(stack') >= 1
    BY <1>2, <1>6, <1>7, <1>10, NewTop
  <2>7. ~Beginning /\ ~Reading /\ ~Beginning' /\ ~Reading'
    BY <1>2, <2>2, <2>6 DEF Beginning, Reading, Ordinary, At
  <2> QED BY <1>1, <2>1, <2>5, <2>7, WholeKept
<1> QED BY <1>9, <1>11, <1>12 DEF More

\* The list of names is that of the configuration when the setup is tame.
LEMMA SetNamesMore == TInv /\ TInv' /\ More /\ SetNames => More'
<1> SUFFICES ASSUME TInv, TInv', More, SetNames PROVE More'
  OBVIOUS
<1>1. Ready("names") /\ "names" \in Spoken
  BY DEF SetNames, Spoken
<1>2. /\ Typed /\ Forms /\ stack # <<>> /\ stack[1] = Top /\ Top.kind # "core" /\ Len(stack) >= 1
      /\ Says(setup, Top) /\ "names" \in Ops(Top.todo) /\ opt # Freed /\ setup \in Setups
      /\ (opt = OfDefault => Top.kind = "config" /\ Bare) /\ Arg \in DOMAIN setup.names
  BY <1>1, TopForms, SaidIsLeft, SpokenFacts, StatementTyped DEF TInv
<1>3. ASSUME Tame PROVE Tamed /\ Top.kind = "config" /\ opt = OfDefault
  <2>1. Tamed /\ Top.kind = "config"
    BY <1>2, <1>3, TameSays DEF More
  <2>2. 1 \in 1..Len(stack)
    BY <1>2, TopTyped
  <2> QED BY <1>2, <2>1, <2>2 DEF Tamed
<1>4. CASE opt # OfDefault /\ opt[1] \in Listed(Arg)
  <2>1. Ends("names_freed") /\ ~Tame
    BY <1>2, <1>3, <1>4 DEF SetNames
  <2> QED BY <2>1, EndsMore
<1>5. CASE opt = OfDefault \/ opt[1] \notin Listed(Arg)
  <2> DEFINE c == Rest(<<>>)
             new == <<c>>
             gone == Listed(Arg)
             k == opt[1]
  <2>1. /\ opts' = IF opt = OfDefault THEN Changed(opts, "names", Arg) ELSE opts
        /\ tags' = [t \in Tags |-> IF opt # OfDefault /\ t = k
                      THEN [tags[t] EXCEPT !.loaded = ChangedIn(@, opt[2], "names", Arg)]
                      ELSE Renamed(Arg)[t]]
        /\ RemoveLayouts(Listed(Arg), Done)
        /\ setup' = setup /\ fault' = fault
    BY <1>2, <1>5 DEF SetNames
  <2>2. /\ c \in CallOf(setup) /\ c.kind = Top.kind /\ c.todo = Tail(Top.todo)
        /\ Ops(c.todo) \subseteq Ops(Top.todo) /\ Done = new \o Tail(stack)
    BY <1>1, <1>2, SaysOn
  <2> HIDE DEF c
  <2>3. new \in Seq(CallOf(setup)) /\ Len(new) = 1 /\ new[1] = c /\ 1..Len(new) = {1}
    BY <2>2, CallsTyped
  <2>4. RemoveLayouts(gone, new \o Tail(stack))
    BY <2>1, <2>2
  <2> HIDE DEF new
  <2>5. Became(new, gone) /\ opt' = After(opt, gone) /\ Len(new) >= 1
    <3>1. Became(new, gone) /\ opt' = After(opt, gone)
      BY <1>2, <2>3, <2>4, BecomesFreed DEF Typed
    <3> QED BY <2>3, <3>1
  <2>6. opt = OfDefault => opt' = OfDefault
    BY <2>5 DEF After
  <2>7. \A t \in Tags : (opt = OfDefault \/ t # k) => tags'[t].loaded \in {tags[t].loaded, <<>>}
    <3> SUFFICES ASSUME NEW t \in Tags, opt = OfDefault \/ t # k
                 PROVE  tags'[t].loaded \in {tags[t].loaded, <<>>}
      OBVIOUS
    <3>1. /\ \A u \in gone : u \in Tags /\ Renamed(Arg)[u].loaded = <<>>
          /\ \A u \in Tags \ gone : Renamed(Arg)[u] = tags[u]
      BY <1>2, RenamedTyped
    <3>2. tags'[t] = Renamed(Arg)[t]
      <4> DEFINE u(x) == IF opt # OfDefault /\ x = k
                         THEN [tags[x] EXCEPT !.loaded = ChangedIn(@, opt[2], "names", Arg)]
                         ELSE Renamed(Arg)[x]
      <4>1. tags' = [x \in Tags |-> u(x)]
        BY <2>1, Zenon
      <4>2. tags'[t] = u(t)
        BY <4>1, Zenon
      <4>3. u(t) = Renamed(Arg)[t]
        BY Zenon
      <4> QED BY <4>2, <4>3, Zenon
    <3> HIDE DEF gone
    <3> QED BY <3>1, <3>2
  <2>8. ASSUME opt # OfDefault PROVE SetIn("names", Arg)
    <3> SUFFICES ASSUME NEW t \in Tags
                 PROVE  \/ tags'[t].loaded \in {tags[t].loaded, <<>>}
                        \/ tags'[t].loaded = ChangedIn(tags[t].loaded, opt[2], "names", Arg)
      BY DEF SetIn
    <3>1. CASE t # k
      BY <2>7, <3>1
    <3>2. CASE t = k
      <4> DEFINE u(x) == IF opt # OfDefault /\ x = k
                         THEN [tags[x] EXCEPT !.loaded = ChangedIn(@, opt[2], "names", Arg)]
                         ELSE Renamed(Arg)[x]
                 l == ChangedIn(tags[t].loaded, opt[2], "names", Arg)
                 T == Seq(Layout(setup))
                 N == DOMAIN setup.names
                 F == DOMAIN setup.files
      <4>1. tags' = [x \in Tags |-> u(x)]
        BY <2>1, Zenon
      <4>2. tags'[t] = u(t)
        BY <4>1, Zenon
      <4>3. u(t) = [tags[t] EXCEPT !.loaded = l]
        BY <2>8, <3>2, Zenon
      <4>4. tags'[t] = [tags[t] EXCEPT !.loaded = l]
        BY <4>2, <4>3, Zenon
      <4>5. tags[t] \in [name : N, layout : F, loaded : T]
        BY <1>2 DEF Typed, Tag
      <4> HIDE DEF l, T, N, F
      <4>6. tags'[t].loaded = l
        BY <4>4, <4>5
      <4> QED BY <4>6 DEF l
    <3> QED BY <3>1, <3>2
  <2> HIDE DEF gone
  <2>9. (Tame' <=> Tame) /\ (Plain' <=> Plain)
    BY <2>1, SetupDecides
  <2>10. ASSUME Tame PROVE Tamed'
    <3>1. Tamed /\ Top.kind = "config" /\ opt = OfDefault
      BY <1>3, <2>10
    <3>2. Clear
      BY <1>2, <3>1, ClearWhen DEF Mild
    <3>3. Finds(new, gone)
      BY <2>2, <2>3, <2>6, <3>1 DEF Finds, At
    <3> QED BY <1>2, <2>1, <2>5, <3>1, <3>2, <3>3, TamedKept
  <2>11. ASSUME Plain PROVE Copies' /\ WholeSoFar'
    <3>1. Copies /\ WholeSoFar
      BY <2>11 DEF More
    <3>2. Same(stack'[1], c, gone) /\ Len(stack') >= 1
      BY <1>2, <2>3, <2>5, NewTop
    <3>3. stack'[1].kind = Top.kind /\ stack'[1].todo = Tail(Top.todo)
      BY <2>2, <3>2 DEF Same
    <3>4. Top.kind = "config" <=> opt = OfDefault
      <4>1. 1 \in 1..Len(stack)
        BY <1>2, TopTyped
      <4> QED BY <1>2, <3>1, <4>1 DEF Copies
    <3>5. \A i \in 1..Len(new) : new[i].kind = "config" => i = 1 /\ opt' = OfDefault
      BY <2>2, <2>3, <2>6, <3>4
    <3>6. CASE opt = OfDefault
      <4>1. opts' = Changed(opts, "names", Arg) /\ Bare
        BY <1>2, <2>1, <3>6
      <4>2. \A t \in Tags : \A i \in 1..Len(tags'[t].loaded) :
              Agrees(setup, tags'[t].loaded[i].options, opts')
        <5>1. Len(<<>>) = 0 /\ 1..0 = {}
          OBVIOUS
        <5>2. \A t \in Tags : tags'[t].loaded = <<>>
          BY <2>7, <3>6, <4>1 DEF Bare
        <5> QED BY <5>1, <5>2
      <4>3. Copies'
        BY <1>2, <2>1, <2>5, <3>1, <3>5, <4>2, CopiesKept
      <4>4. WholeSoFar'
        BY <1>1, <1>2, <2>1, <3>1, <3>2, <3>3, <3>4, <3>6, <4>1, ConfigAdvances
      <4> QED BY <4>3, <4>4
    <3>7. CASE opt # OfDefault
      <4>1. opts' = opts /\ Top.kind # "config"
        BY <2>1, <3>4, <3>7
      <4>2. \A t \in Tags : \A i \in 1..Len(tags'[t].loaded) :
              Agrees(setup, tags'[t].loaded[i].options, opts')
        BY <1>1, <2>8, <3>1, <3>7, <4>1, SetInAgrees
      <4>3. Copies'
        BY <1>2, <2>1, <2>5, <3>1, <3>5, <4>2, CopiesKept
      <4>4. ~Beginning /\ ~Reading /\ ~Beginning' /\ ~Reading'
        BY <1>2, <3>3, <4>1 DEF Beginning, Reading, At
      <4> QED BY <2>1, <3>1, <4>1, <4>3, <4>4, WholeKept
    <3> QED BY <3>6, <3>7
  <2> QED BY <2>9, <2>10, <2>11 DEF More
<1> QED BY <1>4, <1>5

-----------------------------------------------------------------------------
(* Errors, reloads and returns, and the configuration *)

\* The call at the top is gone, and the one below it runs no config file.
LEMMA Popped ==
  ASSUME TInv, stack # <<>>, stack' = Tail(stack), setup' = setup
  PROVE  Became(<<>>, {}) /\ (Copies => ~Beginning' /\ ~Reading')
<1> DEFINE new == <<>>
           S == CallOf(setup)
<1>1. new \in Seq(S) /\ Len(new) = 0 /\ Typed /\ Forms
  BY DEF TInv
<1>2. stack' = new \o Tail(stack)
  <2>1. Tail(stack) \in Seq(S)
    BY TopTyped DEF TInv
  <2> HIDE DEF S
  <2> QED BY <2>1, ConcatEmptySeq
<1> HIDE DEF new
<1>3. Became(new, {})
  BY <1>1, <1>2, BecomesWithout DEF Typed
<1>4. ASSUME Copies, Len(stack') >= 1 PROVE ~At(stack'[1], "config") /\ stack'[1].kind # "config"
  <2>1. Len(stack) \in Nat /\ Len(stack') = Len(stack) - 1
    BY <1>1, <1>3, TopTyped DEF Became
  <2>2. 1 \in (Len(new) + 1)..Len(stack') /\ 1 - Len(new) + 1 = 2
    BY <1>1, <1>4, <2>1
  <2>3. 2 \in 2..Len(stack) /\ 2 \in 1..Len(stack) /\ Same(stack'[1], stack[2], {})
    BY <1>3, <1>4, <2>1, <2>2 DEF Became
  <2>4. ~At(stack[2], "config")
    BY <1>1, <2>3, BelowWaits
  <2>5. stack[2].kind # "config"
    BY <1>4, <2>3 DEF Copies
  <2> QED BY <2>3, <2>4, <2>5, SameWaits DEF Same
<1> QED BY <1>3, <1>4 DEF Beginning, Reading, new

\* What goes on after a call is whole when what the call has left is whole.
LEMMA PoppedMore ==
  ASSUME TInv, TInv', More, stack # <<>>, stack' = Tail(stack),
         UNCHANGED <<setup, opts, tags, fault>>,
         Plain /\ WholeSoFar => (~Beginning /\ ~Reading) \/ Copied(opts) \in WholeOnes(setup)
  PROVE  More'
<1> DEFINE new == <<>>
<1>1. Len(new) = 0 /\ 1..Len(new) = {} /\ Typed
  BY DEF TInv
<1>2. Became(new, {}) /\ (Copies => ~Beginning' /\ ~Reading')
  BY Popped
<1> HIDE DEF new
<1>3. (Tame' <=> Tame) /\ (Plain' <=> Plain)
  BY SetupDecides
<1>4. ASSUME Tame PROVE Tamed'
  <2>1. \A t \in Tags : Len(tags'[t].loaded) >= Len(tags[t].loaded)
    <3>1. tags \in [Tags -> Tag(setup)]
      BY <1>1 DEF Typed
    <3> QED BY <3>1, LoadedTyped
  <2>2. Gentle(new, {}) /\ Finds(new, {})
    BY <1>1, <2>1 DEF Gentle, Finds
  <2> QED BY <1>2, <1>4, <2>2, TamedKept DEF More
<1>5. ASSUME Plain PROVE Copies' /\ WholeSoFar'
  <2>1. Copies /\ WholeSoFar
    BY <1>5 DEF More
  <2>2. \A i \in 1..Len(new) : new[i].kind = "config" => i = 1 /\ opt' = OfDefault
    BY <1>1
  <2>3. \A t \in Tags : \A i \in 1..Len(tags'[t].loaded) :
          Agrees(setup, tags'[t].loaded[i].options, opts')
    BY <2>1 DEF Copies
  <2>4. Copies'
    BY <1>2, <2>1, <2>2, <2>3, CopiesKept
  <2>5. Copied(opts) \in WholeOnes(setup)
    BY <1>5, <2>1 DEF WholeSoFar
  <2> QED BY <1>2, <2>1, <2>4, <2>5, WholeWith
<1> QED BY <1>3, <1>4, <1>5 DEF More

\* All layouts are gone, and what comes to the top reads a config file or needs none.
LEMMA FreshMore ==
  ASSUME TInv, TInv', More, stack # <<>>, ~Mild(stack[1]), setup' = setup, fault' = fault,
         NEW new, Became(new, Tags), Len(new) >= 1, \A t \in Tags : tags'[t].loaded = <<>>,
         \A i \in 1..Len(new) : /\ new[i].kind # "config"
                                /\ ~At(new[i], "placed") /\ ~At(new[i], "rules"),
         Plain => \/ Ordinary(new[1]) /\ Copied(opts') \in WholeOnes(setup)
                  \/ At(new[1], "config") /\ Copied(opts') = Created
  PROVE  More'
<1>1. Typed
  BY DEF TInv
<1>2. (Tame' <=> Tame) /\ (Plain' <=> Plain)
  BY SetupDecides
<1>3. ASSUME Tame PROVE Tamed'
  <2>1. Tamed /\ Clear
    BY <1>1, <1>3, ClearWhen DEF More
  <2>2. Finds(new, Tags)
    BY DEF Finds
  <2> QED BY <2>1, <2>2, TamedKept
<1>4. ASSUME Plain PROVE Copies' /\ WholeSoFar'
  <2>1. Copies
    BY <1>4 DEF More
  <2>2. \A t \in Tags : \A i \in 1..Len(tags'[t].loaded) :
          Agrees(setup, tags'[t].loaded[i].options, opts')
    <3>1. Len(<<>>) = 0 /\ 1..0 = {}
      OBVIOUS
    <3> QED BY <3>1
  <2>3. Copies'
    BY <2>1, <2>2, CopiesKept
  <2>4. /\ Len(stack') >= 1 /\ Same(stack'[1], new[1], Tags)
        /\ Ordinary(stack'[1]) <=> Ordinary(new[1])
    BY <1>1, NewTop
  <2>5. CASE Ordinary(new[1]) /\ Copied(opts') \in WholeOnes(setup)
    <3>1. ~Beginning' /\ ~Reading'
      BY <2>4, <2>5 DEF Ordinary, Beginning, Reading
    <3> QED BY <2>3, <2>5, <3>1, WholeWith
  <2>6. CASE At(new[1], "config") /\ Copied(opts') = Created
    <3>1. Beginning' /\ ~Reading'
      <4>1. At(stack'[1], "config")
        BY <2>4, <2>6, SameWaits
      <4> QED BY <2>4, <4>1 DEF At, Beginning, Reading
    <3> QED BY <2>3, <2>6, <3>1 DEF WholeSoFar
  <2> QED BY <1>4, <2>5, <2>6
<1> QED BY <1>2, <1>3, <1>4 DEF More

\* A script that ends with an error leaves the built-in options, one of a command what it has set.
LEMMA ErrorMore ==
  ASSUME TInv, TInv', More, NEW op \in {"fail", "reload"}, Ready(op), Error,
         UNCHANGED <<setup, shown, listeners, prohibited, error_file, fault>>
  PROVE  More'
<1>1. op \in Spoken
  BY DEF Spoken
<1>2. /\ stack # <<>> /\ stack[1] = Top /\ Top.kind # "core" /\ op \in Ops(Top.todo) /\ Typed
      /\ setup \in Setups
  BY <1>1, SpokenFacts, SaidIsLeft DEF TInv
<1>3. ~Mild(stack[1])
  BY <1>2 DEF Mild
<1>4. CASE Top.kind = "command"
  <2>1. stack' = Tail(stack) /\ UNCHANGED <<setup, opts, tags, fault>>
    BY <1>4 DEF Error
  <2>2. ~Beginning /\ ~Reading
    BY <1>2, <1>4 DEF Beginning, Reading, At
  <2> QED BY <1>2, <2>1, <2>2, PoppedMore
<1>5. CASE Top.kind # "command"
  <2> DEFINE c == Core(<< <<"focus", shown>> >>)
             new == <<c>>
  <2>1. LoadDefaults(Tail(stack))
    BY <1>5 DEF Error
  <2>2. RemoveLayouts(Tags, new \o Tail(stack)) /\ opts' = DefaultOptions(opts)
    BY <2>1 DEF LoadDefaults
  <2>3. \A t \in Tags : tags'[t].loaded = <<>>
    BY <1>2, <2>1, DefaultsAreBare
  <2>4. c \in CallOf(setup) /\ c.kind = "core" /\ c.todo = << <<"focus", shown>> >>
    BY <1>2, FocusCall
  <2> HIDE DEF c
  <2>5. c.kind # "config" /\ ~At(c, "placed") /\ ~At(c, "rules") /\ Ordinary(c)
    <3>1. << <<"focus", shown>> >>[1][1] = "focus"
      OBVIOUS
    <3> QED BY <2>4, <3>1 DEF At, Ordinary
  <2>6. new \in Seq(CallOf(setup)) /\ Len(new) = 1 /\ new[1] = c /\ 1..Len(new) = {1}
    BY <2>4, CallsTyped
  <2> HIDE DEF new
  <2>7. Became(new, Tags)
    BY <1>2, <2>2, <2>6, BecomesFreed DEF Typed
  <2>8. Copied(opts') \in WholeOnes(setup)
    <3>1. opts \in Options(setup)
      BY <1>2 DEF Typed
    <3>2. Copied(opts') = DefaultOptions(Created)
      BY <1>2, <2>2, <3>1, CopiedIs
    <3> QED BY <3>2 DEF WholeOnes
  <2>9. \A i \in 1..Len(new) : new[i].kind # "config" /\ ~At(new[i], "placed") /\ ~At(new[i], "rules")
    BY <2>5, <2>6
  <2>10. Ordinary(new[1]) /\ Len(new) >= 1
    BY <2>5, <2>6
  <2> QED BY <1>2, <1>3, <2>3, <2>7, <2>8, <2>9, <2>10, FreshMore
<1> QED BY <1>4, <1>5

\* An error in a script ends the calls above the last protected one.
LEMMA FailMore == TInv /\ TInv' /\ More /\ Fail => More'
BY ErrorMore DEF Fail

\* A reload begins with the options of a new configuration.
LEMMA ReloadMore == TInv /\ TInv' /\ More /\ Reload => More'
<1> SUFFICES ASSUME TInv, TInv', More, Reload PROVE More'
  OBVIOUS
<1>1. Ready("reload") /\ "reload" \in Spoken
  BY DEF Reload, Spoken
<1>2. /\ stack # <<>> /\ stack[1] = Top /\ Top.kind # "core" /\ "reload" \in Ops(Top.todo) /\ Typed
      /\ setup \in Setups /\ Forms /\ (prohibited \/ NoConfig)
  BY <1>1, SpokenFacts, SaidIsLeft DEF TInv
<1>3. ~Mild(stack[1])
  BY <1>2 DEF Mild
<1>4. CASE prohibited
  <2>1. Error /\ UNCHANGED <<setup, shown, listeners, prohibited, error_file, fault>>
    BY <1>4 DEF Reload
  <2> QED BY <1>1, <2>1, ErrorMore
<1>5. CASE ~prohibited /\ ~error_file
  <2>1. Ends("no_error_file")
    BY <1>5 DEF Reload
  <2> QED BY <2>1, EndsMore
<1>6. CASE ~prohibited /\ error_file
  <2> DEFINE rest == Rest(<<>>)
             todo == RestOfReload
             c == Core(todo)
             new == <<c, rest>>
  <2>1. /\ opts' = Reset(opts) /\ setup' = setup /\ fault' = fault
        /\ tags' = [t \in Tags |-> [tags[t] EXCEPT !.loaded = <<>>]]
        /\ RemoveLayouts(Tags, <<c>> \o Done)
    BY <1>6 DEF Reload
  <2>2. /\ rest \in CallOf(setup) /\ rest.kind = Top.kind /\ Done = <<rest>> \o Tail(stack)
    BY <1>1, <1>2, SaysOn
  <2>3. Top.kind # "config"
    <3>1. NoConfig /\ 1 \in 1..Len(stack)
      BY <1>2, <1>6, TopTyped
    <3> QED BY <1>2, <3>1 DEF NoConfig
  <2>4. todo \in Steps /\ Len(todo) >= 1 /\ todo[1][1] = "config"
    <3>1. shown \in Nat
      BY <1>2, TagsAssumption DEF Typed
    <3>2. todo = << <<"config", 0>>, <<"default_layouts", 0>>, <<"focus", shown>>, <<"tags", 0>> >>
      BY Zenon DEF RestOfReload
    <3> QED BY <3>1, <3>2 DEF Steps, OfCore
  <2>5. c \in CallOf(setup) /\ c.kind = "core" /\ c.todo = todo
    <3> HIDE DEF todo
    <3>1. "core" \in Kinds
      BY DEF Kinds
    <3> QED BY <2>4, <3>1, CallTyped DEF Core
  <2> HIDE DEF todo, c, rest
  <2>6. /\ new \in Seq(CallOf(setup)) /\ Len(new) = 2 /\ new[1] = c /\ new[2] = rest
        /\ 1..Len(new) = {1, 2}
    BY <2>2, <2>5, CallsTyped
  <2>7. RemoveLayouts(Tags, new \o Tail(stack))
    <3>1. <<c>> \o Done = new \o Tail(stack)
      BY <1>2, <2>2, <2>5, Pushed
    <3> QED BY <2>1, <3>1
  <2> HIDE DEF new
  <2>8. Became(new, Tags)
    BY <1>2, <2>6, <2>7, BecomesFreed DEF Typed
  <2>9. \A t \in Tags : tags'[t].loaded = <<>>
    <3>1. 0 \in DOMAIN setup.names /\ 0 \in DOMAIN setup.files
      BY <1>2, SetupFacts
    <3>2. \A t \in Tag(setup) : [t EXCEPT !.loaded = <<>>].loaded = <<>>
      BY <3>1, TagTyped
    <3>3. tags \in [Tags -> Tag(setup)]
      BY <1>2 DEF Typed
    <3> DEFINE us == [t \in Tags |-> [tags[t] EXCEPT !.loaded = <<>>]]
    <3>4. \A t \in Tags : us[t].loaded = <<>>
      BY <3>2, <3>3
    <3>5. tags' = us
      BY <2>1, Zenon
    <3> HIDE DEF us
    <3> QED BY <3>4, <3>5
  <2>10. At(c, "config") /\ ~At(c, "placed") /\ ~At(c, "rules")
    BY <2>4, <2>5 DEF At
  <2>11. ~At(rest, "placed") /\ ~At(rest, "rules") /\ rest.kind # "config"
    BY <1>2, <2>2, <2>3 DEF At
  <2>12. Copied(opts') = Created
    <3>1. opts \in Options(setup)
      BY <1>2 DEF Typed
    <3> QED BY <1>2, <2>1, <3>1, CopiedIs
  <2>13. \A i \in 1..Len(new) : new[i].kind # "config" /\ ~At(new[i], "placed") /\ ~At(new[i], "rules")
    BY <2>5, <2>6, <2>10, <2>11
  <2>14. At(new[1], "config") /\ Len(new) >= 1
    BY <2>6, <2>10
  <2> QED BY <1>2, <1>3, <2>1, <2>8, <2>9, <2>12, <2>13, <2>14, FreshMore
<1> QED BY <1>4, <1>5, <1>6

\* A config file that has come to its end leaves what it says.
LEMMA ReturnMore == TInv /\ TInv' /\ More /\ Return => More'
<1> SUFFICES ASSUME TInv, TInv', More, Return PROVE More'
  OBVIOUS
<1>1. /\ stack # <<>> /\ Top.todo = <<>> /\ stack' = Tail(stack) /\ UNCHANGED <<setup, opts, tags, fault>>
  BY DEF Return
<1>2. Typed /\ stack[1] = Top /\ Len(stack) >= 1 /\ Len(<<>>) = 0 /\ setup \in Setups
  BY <1>1, TopTyped DEF TInv, Typed
<1>3. ASSUME Plain, WholeSoFar, Beginning \/ Reading PROVE Copied(opts) \in WholeOnes(setup)
  <2>1. Reading
    BY <1>1, <1>2, <1>3 DEF Beginning, At
  <2> PICK c \in setup.configs : \E k \in 0..Len(c) : Said(setup, c, k, stack[1].todo, opts)
    BY <1>3, <2>1 DEF WholeSoFar
  <2> PICK k \in 0..Len(c) : Said(setup, c, k, stack[1].todo, opts)
    OBVIOUS
  <2>2. c \in Seq(Statements(setup))
    BY <1>2, SetupFacts
  <2>3. Len(c) \in Nat /\ DOMAIN c = 1..Len(c)
    <3> DEFINE X == Statements(setup)
    <3>1. c \in Seq(X)
      BY <2>2
    <3> HIDE DEF X
    <3> QED BY <3>1
  <2>4. /\ 0 = Len(c) - k /\ \A i \in 1..k : c[i][1] \notin {"fail", "reload"}
        /\ Copied(opts) = Copied(SaidUpTo(setup, c, k))
    BY <1>1, <1>2 DEF Said
  <2>5. k = Len(c)
    BY <2>3, <2>4
  <2>6. Ops(c) \cap {"fail", "reload"} = {}
    BY <2>3, <2>4, <2>5 DEF Ops
  <2> QED BY <2>4, <2>5, <2>6 DEF WholeOnes
<1> QED BY <1>1, <1>3, PoppedMore

-----------------------------------------------------------------------------
(* What happens to the program, and the configuration *)

\* A call of C when nothing runs begins with no file and no rules.
LEMMA CallMore ==
  ASSUME TInv, More, NEW steps \in Steps, Calls(steps), Len(steps) >= 1,
         steps[1][1] \in {"get", "emit", "focus"}
  PROVE  More'
<1>1. /\ stack = <<>> /\ fault = "none" /\ stack' = <<Core(steps)>>
      /\ UNCHANGED <<setup, opts, tags, opt, fault>>
  BY DEF Calls, Idle, Live
<1>2. /\ Len(stack') = 1 /\ 1..Len(stack') = {1} /\ stack'[1].kind = "core"
      /\ stack'[1].todo = steps
  BY <1>1, AloneTyped
<1>3. ~At(stack'[1], "placed") /\ ~At(stack'[1], "rules") /\ ~At(stack'[1], "config")
  BY <1>2 DEF At
<1>4. (Tame' <=> Tame) /\ (Plain' <=> Plain)
  BY <1>1, SetupDecides
<1>5. Tamed'
  BY <1>1, <1>2, <1>3 DEF Tamed
<1>6. ASSUME Plain PROVE Copies' /\ WholeSoFar'
  <2>1. Copies /\ WholeSoFar
    BY <1>6 DEF More
  <2>2. Copies'
    BY <1>1, <1>2, <2>1 DEF Copies
  <2>3. ~Beginning /\ ~Reading
    <3>1. ~(Len(stack) >= 1)
      BY <1>1, TopTyped DEF TInv
    <3> QED BY <3>1 DEF Beginning, Reading
  <2>4. ~Beginning' /\ ~Reading'
    BY <1>2, <1>3 DEF Beginning, Reading
  <2> QED BY <1>1, <2>1, <2>2, <2>3, <2>4, WholeKept
<1> QED BY <1>4, <1>5, <1>6 DEF More

\* So do the calls for a key, a command, a title, a signal and a view.
LEMMA CallsForMore ==
  ASSUME TInv, More,
         \/ \E k \in setup.keys : Press(k)
         \/ \E s \in setup.commands : Command(s)
         \/ \E i \in DOMAIN setup.rules : \E w \in setup.rules[i].matches : Titled(w)
         \/ Signal
         \/ \E t \in Tags : View(t)
  PROVE  More'
<1>1. setup \in Setups /\ shown \in Tags /\ shown \in Nat /\ Tags \subseteq Nat
  BY TagsAssumption DEF TInv, Typed
<1>2. ASSUME NEW k \in setup.keys, Press(k) PROVE More'
  <2> DEFINE steps == << <<"get", shown>>, <<"key", k>> >>
  <2>1. k \in Nat /\ Calls(steps)
    BY <1>1, <1>2, SetupFacts DEF Press
  <2>2. steps \in Steps /\ Len(steps) >= 1 /\ steps[1][1] = "get"
    BY <1>1, <2>1 DEF Steps, OfCore
  <2> HIDE DEF steps
  <2> QED BY <2>1, <2>2, CallMore
<1>3. ASSUME NEW s \in setup.commands, Command(s) PROVE More'
  <2> DEFINE steps == << <<"get", shown>>, <<"eval", s>>, <<"focus", shown>> >>
  <2>1. s \in Nat /\ Calls(steps)
    <3>1. s \in DOMAIN setup.scripts
      BY <1>1, SetupFacts
    <3> QED BY <1>1, <1>3, <3>1, SetupDomains DEF Command
  <2>2. steps \in Steps /\ Len(steps) >= 1 /\ steps[1][1] = "get"
    BY <1>1, <2>1 DEF Steps, OfCore
  <2> HIDE DEF steps
  <2> QED BY <2>1, <2>2, CallMore
<1>4. ASSUME NEW i \in DOMAIN setup.rules, NEW w \in setup.rules[i].matches, Titled(w) PROVE More'
  <2> DEFINE steps == << <<"get", shown>>, <<"title", w>> >>
  <2>1. w \in Nat /\ Calls(steps)
    BY <1>1, <1>4, SetupDomains DEF Titled
  <2>2. steps \in Steps /\ Len(steps) >= 1 /\ steps[1][1] = "get"
    BY <1>1, <2>1 DEF Steps, OfCore
  <2> HIDE DEF steps
  <2> QED BY <2>1, <2>2, CallMore
<1>5. ASSUME Signal PROVE More'
  <2> DEFINE steps == << <<"emit", 1>> >>
  <2>1. Calls(steps)
    BY <1>5 DEF Signal
  <2>2. steps \in Steps /\ Len(steps) >= 1 /\ steps[1][1] = "emit"
    BY DEF Steps, OfCore
  <2> HIDE DEF steps
  <2> QED BY <2>1, <2>2, CallMore
<1>6. ASSUME NEW t \in Tags, View(t) PROVE More'
  <2> DEFINE steps == << <<"focus", t>> >>
  <2>1. Calls(steps)
    BY <1>6 DEF View
  <2>2. steps \in Steps /\ Len(steps) >= 1 /\ steps[1][1] = "focus"
    BY <1>1 DEF Steps, OfCore
  <2> HIDE DEF steps
  <2> QED BY <2>1, <2>2, CallMore
<1> QED BY <1>2, <1>3, <1>4, <1>5, <1>6

\* Nothing happens.
LEMMA EndedMore == More /\ UNCHANGED vars => More'
<1> SUFFICES ASSUME More, UNCHANGED vars PROVE More'
  OBVIOUS
<1>1. UNCHANGED <<setup, opts, default, tags, shown, opt, listeners, prohibited, error_file, stack, fault>>
  BY DEF vars
<1>2. (Tame' <=> Tame) /\ (Plain' <=> Plain)
  BY <1>1, SetupDecides
<1>3. (Tamed => Tamed') /\ (Copies => Copies')
  BY <1>1 DEF Tamed, Copies
<1>4. (Beginning' <=> Beginning) /\ (Reading' <=> Reading)
  BY <1>1 DEF Beginning, Reading
<1>5. WholeSoFar => WholeSoFar'
  BY <1>1, <1>4 DEF WholeSoFar
<1> QED BY <1>2, <1>3, <1>5 DEF More

\* The first config file begins with a new configuration.
LEMMA MoreInit == Init => More
<1> SUFFICES ASSUME Init PROVE More
  OBVIOUS
<1> DEFINE steps == << <<"config", 0>>, <<"load_tags", 0>>, <<"allow", 0>>,
                       <<"default_layouts", 0>>, <<"focus", 0>> >>
           c == Core(steps)
           new == [name |-> 0, layout |-> FirstLayout, loaded |-> <<>>]
<1>1. /\ setup \in Setups /\ opts = Created /\ stack = <<c>> /\ fault = "none"
      /\ tags = [t \in Tags |-> new]
  BY DEF Init
<1>2. steps \in Steps /\ Len(steps) >= 1 /\ steps[1][1] = "config"
  BY DEF Steps, OfCore
<1> HIDE DEF steps
<1>3. "core" \in Kinds
  BY DEF Kinds
<1>4. c \in CallOf(setup) /\ c.kind = "core" /\ c.todo = steps
  BY <1>2, <1>3, CallTyped DEF Core
<1> HIDE DEF c
<1>5. Len(stack) = 1 /\ 1..Len(stack) = {1} /\ stack[1] = c
  BY <1>1, <1>4, CallsTyped
<1>6. \A t \in Tags : tags[t].loaded = <<>>
  BY <1>1
<1>7. At(c, "config") /\ ~At(c, "placed") /\ ~At(c, "rules") /\ c.kind # "config"
  BY <1>2, <1>4 DEF At
<1>8. Tamed
  BY <1>1, <1>5, <1>7 DEF Tamed
<1>9. Copies
  <2>1. Len(<<>>) = 0 /\ 1..0 = {}
    OBVIOUS
  <2> QED BY <1>5, <1>6, <1>7, <2>1 DEF Copies
<1>10. WholeSoFar
  <2>1. Copied(opts) = Created
    BY <1>1, CopiedIs
  <2>2. Beginning /\ ~Reading
    BY <1>5, <1>7 DEF Beginning, Reading
  <2> QED BY <2>1, <2>2 DEF WholeSoFar
<1> QED BY <1>8, <1>9, <1>10 DEF More

\* Every step keeps what the setup promises.
LEMMA MoreNext == TInv /\ TInv' /\ More /\ [Next]_vars => More'
<1> SUFFICES ASSUME TInv, TInv', More, [Next]_vars PROVE More'
  OBVIOUS
<1>1. CASE Step
  <2>1. CASE Focus
    BY <2>1, FocusMore
  <2>2. CASE Get
    BY <2>2, GetMore
  <2>3. CASE Placed
    BY <2>3, PlacedMore
  <2>4. CASE Load
    BY <2>4, LoadMore
  <2>5. CASE Names
    BY <2>5, NamesMore
  <2>6. CASE Name
    BY <2>6, NameMore
  <2>7. CASE SetOption
    BY <2>7, SetOptionMore
  <2>8. CASE SetNames
    BY <2>8, SetNamesMore
  <2>9. CASE SetDefaultLayout
    BY <2>9, SetDefaultLayoutMore
  <2>10. CASE AddListener
    BY <2>10, AddListenerMore
  <2>11. CASE Fail
    BY <2>11, FailMore
  <2>12. CASE Reload
    BY <2>12, ReloadMore
  <2>13. CASE LoadConfig
    BY <2>13, LoadConfigMore
  <2>14. CASE DefaultLayouts
    BY <2>14, DefaultLayoutsMore
  <2>15. CASE LoadTags
    BY <2>15, LoadTagsMore
  <2>16. CASE Allow
    BY <2>16, AllowMore
  <2>17. CASE Run
    BY <2>17, RunMore
  <2>18. CASE Key
    BY <2>18, KeyMore
  <2>19. CASE Eval
    BY <2>19, EvalMore
  <2>20. CASE Title
    BY <2>20, TitleMore
  <2>21. CASE Rules
    BY <2>21, RulesMore
  <2>22. CASE Emit
    BY <2>22, EmitMore
  <2>23. CASE Return
    BY <2>23, ReturnMore
  <2> QED BY <1>1, <2>1, <2>2, <2>3, <2>4, <2>5, <2>6, <2>7, <2>8, <2>9, <2>10, <2>11, <2>12,
             <2>13, <2>14, <2>15, <2>16, <2>17, <2>18, <2>19, <2>20, <2>21, <2>22, <2>23 DEF Step
<1>2. CASE UNCHANGED vars
  BY <1>2, EndedMore
<1> QED BY <1>1, <1>2, CallsForMore DEF Next, Ended

-----------------------------------------------------------------------------
(* What always holds *)

\* The inductive invariant
IInv == TInv /\ More

\* It holds, whatever is called, fails or is reloaded, in whatever order.
THEOREM IInvAlways == Spec => []IInv
<1>1. Init => IInv
  BY TInvInit, MoreInit DEF IInv
<1>2. IInv /\ [Next]_vars => IInv'
  BY TInvNext, MoreNext DEF IInv
<1> QED BY <1>1, <1>2, PTL DEF Spec

\* Every pointer that is not freed points to options, and none that is freed is used
\* when the setup is tame (lua_call_safe, handle_error, apply_rules, tag_load_layout).
THEOREM PointersAlwaysSound == Spec => []PointersSound
<1>1. ASSUME IInv PROVE PointersSound
  <2>1. Typed /\ Distinct /\ Pointed /\ More
    BY <1>1 DEF IInv, TInv
  <2>2. ASSUME NEW t \in Tags
        PROVE  /\ tags[t].layout \in DOMAIN setup.files /\ tags[t].name \in DOMAIN setup.names
               /\ IsInjective([i \in DOMAIN tags[t].loaded |-> tags[t].loaded[i].name])
    <3>1. tags \in [Tags -> Tag(setup)]
      BY <2>1 DEF Typed
    <3>2. /\ DOMAIN tags[t].loaded = 1..Len(tags[t].loaded)
          /\ tags[t].name \in DOMAIN setup.names /\ tags[t].layout \in DOMAIN setup.files
      BY <3>1, LoadedTyped
    <3> QED BY <2>1, <3>2 DEF Distinct, IsInjective
  <2>3. ToSet(listeners) \subseteq DOMAIN setup.scripts
    <3> DEFINE S == DOMAIN setup.scripts
    <3>1. listeners \in Seq(S)
      BY <2>1 DEF Typed
    <3> HIDE DEF S
    <3> QED BY <3>1 DEF ToSet, S
  <2>4. ASSUME NEW p \in {opt} \cup {stack[i].ptr : i \in DOMAIN stack}
        PROVE  p \in {OfDefault, Freed} \/ \E lt \in ToSet(tags[p[1]].loaded) : lt.name = p[2]
    <3>1. DOMAIN stack = 1..Len(stack)
      <4> DEFINE S == CallOf(setup)
      <4>1. stack \in Seq(S)
        BY <2>1 DEF Typed
      <4> HIDE DEF S
      <4> QED BY <4>1
    <3>2. Points(tags, p) /\ p \in Pointers(setup)
      <4>1. CASE p = opt
        BY <2>1, <4>1 DEF Pointed, Typed
      <4>2. ASSUME NEW i \in 1..Len(stack), p = stack[i].ptr
            PROVE  Points(tags, p) /\ p \in Pointers(setup)
        BY <2>1, <4>2, TopTyped DEF Pointed
      <4> QED BY <3>1, <4>1, <4>2
    <3>3. CASE p \notin {OfDefault, Freed}
      <4>1. tags \in [Tags -> Tag(setup)] /\ p \in Tags \X DOMAIN setup.files
        BY <2>1, <3>2, <3>3 DEF Typed, Pointers
      <4>2. p[1] \in Tags
        BY <4>1
      <4>3. DOMAIN tags[p[1]].loaded = 1..Len(tags[p[1]].loaded)
        BY <4>1, <4>2, LoadedTyped
      <4>4. \E i \in DOMAIN tags[p[1]].loaded : tags[p[1]].loaded[i].name = p[2]
        BY <3>2, <3>3, <4>3 DEF Points
      <4> QED BY <4>4 DEF ToSet
    <3> QED BY <3>3
  <2>5. TypeOK
    BY <2>1, <2>2, <2>3, <2>4 DEF TypeOK, Typed, Faults
  <2>6. NothingFreedIsUsed
    BY <2>1 DEF More, Tamed, NothingFreedIsUsed
  <2> QED BY <2>5, <2>6 DEF PointersSound
<1>2. IInv => PointersSound
  BY <1>1
<1> QED BY <1>2, IInvAlways, PTL

\* The options of the layouts agree with the configuration after every reload and every
\* fall back to the defaults (copy_options, tags_remove_loaded_layouts).
THEOREM CopiesAlwaysAgree == Spec => []CopiesAgree
<1>1. ASSUME IInv PROVE CopiesAgree
  <2> SUFFICES ASSUME Plain, NEW t \in Tags, NEW lt \in ToSet(tags[t].loaded),
                      NEW f \in {<<"gap", "gap">>, <<"mod", "mod">>, <<"names", "names">>,
                                 <<"rule", "rules">>, <<"bind", "keys">>},
                      f[1] \notin InScripts \cup InFiles
               PROVE  lt.options[f[2]] = opts[f[2]]
    BY DEF CopiesAgree
  <2>1. Copies /\ Typed
    BY <1>1 DEF IInv, TInv, More
  <2>2. PICK i \in 1..Len(tags[t].loaded) : lt = tags[t].loaded[i]
    <3>1. tags \in [Tags -> Tag(setup)]
      BY <2>1 DEF Typed
    <3>2. DOMAIN tags[t].loaded = 1..Len(tags[t].loaded)
      BY <3>1, LoadedTyped
    <3> QED BY <3>2 DEF ToSet
  <2>3. Agrees(setup, lt.options, opts)
    BY <2>1, <2>2 DEF Copies
  <2>4. f[1] \notin Sayings(setup)
    BY SayingsAre
  <2> QED BY <2>3, <2>4 DEF Agrees
<1>2. IInv => CopiesAgree
  BY <1>1
<1> QED BY <1>2, IInvAlways, PTL

\* The configuration is always that of one file that ran to its end, or the built-in
\* one, and the file never runs within a run of it (lib_reload, server_prohibit_reloading_config).
THEOREM ConfigurationAlwaysSound == Spec => []ConfigurationSound
<1>1. ASSUME IInv PROVE ConfigurationIsWhole
  <2> SUFFICES ASSUME Idle, Plain
               PROVE  Copied(opts) \in {SaidBy(c) : c \in {c \in setup.configs :
                                                             Ops(c) \cap {"fail", "reload"} = {}}}
                                       \cup {DefaultOptions(Created)}
    BY DEF ConfigurationIsWhole
  <2>1. WholeSoFar /\ Typed /\ stack = <<>>
    BY <1>1 DEF IInv, TInv, More, Idle
  <2>2. ~(Len(stack) >= 1) /\ setup \in Setups
    BY <2>1, TopTyped DEF Typed
  <2>3. Copied(opts) \in WholeOnes(setup)
    BY <2>1, <2>2 DEF WholeSoFar, Beginning, Reading
  <2>4. ASSUME NEW c \in setup.configs PROVE SaidBy(c) = Copied(SaidUpTo(setup, c, Len(c)))
    <3>1. c \in Seq(Statements(setup))
      BY <2>2, SetupFacts
    <3> QED BY <2>2, <3>1, SaidIs
  <2> HIDE DEF Idle, Plain
  <2> QED BY <2>3, <2>4 DEF WholeOnes
<1>2. ASSUME IInv PROVE OneConfigAtATime
  <2> DEFINE S == {i \in DOMAIN stack : stack[i].kind = "config"}
  <2>1. \A i, j \in S : i = j
    <3> DEFINE C == CallOf(setup)
    <3>1. stack \in Seq(C) /\ Flags
      BY <1>2 DEF IInv, TInv, Typed
    <3> HIDE DEF C
    <3>2. DOMAIN stack = 1..Len(stack)
      BY <3>1
    <3> QED BY <3>1, <3>2 DEF Flags
  <2>2. CASE S = {}
    <3>1. Cardinality(S) = 0
      BY <2>2, FS_EmptySet
    <3> QED BY <3>1 DEF OneConfigAtATime
  <2>3. ASSUME NEW i \in S PROVE OneConfigAtATime
    <3> HIDE DEF S
    <3>1. S = {i}
      BY <2>1, <2>3
    <3>2. Cardinality(S) = 1
      BY <3>1, FS_Singleton
    <3> QED BY <3>2 DEF OneConfigAtATime, S
  <2> QED BY <2>2, <2>3
<1>3. IInv => ConfigurationSound
  BY <1>1, <1>2 DEF ConfigurationSound
<1> QED BY <1>3, IInvAlways, PTL
=============================================================================
