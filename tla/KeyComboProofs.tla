--------------------------- MODULE KeyComboProofs ---------------------------
(***************************************************************************)
(* Proofs about KeyCombo, for every set of keys, texts, commands and       *)
(* configurations: pending chords have a timer, only held keys repeat, the *)
(* bindings stay in the order of the search however they are added, every  *)
(* binding is found by its chords, and a complete chain runs its command.  *)
(***************************************************************************)
EXTENDS KeyCombo, KeybindingsProofs

-----------------------------------------------------------------------------
(* The timer and the repetition *)

\* Whatever the bindings are, a command or the lack of one forgets the pending
\* chords.
LEMMA ProcessingForgets ==
  ASSUME NEW combos, NEW last, ProcessBinding(combos, last)
  PROVE  registered' = <<>>
BY DEF ProcessBinding, ExecuteBinding

\* A press of any device arms the timer.
LEMMA PressArms ==
  ASSUME NEW bind, HandleKeyboardKey(bind)
  PROVE  timer'
BY DEF HandleKeyboardKey, ResetKeycomboTimer

\* Chords are pending only while the timer is armed: every step that leaves
\* chords pending is a press, and the timer is disarmed only by processing them.
THEOREM PendingAlwaysTimed == Spec => []PendingIsTimed
<1>1. Init => PendingIsTimed
  BY DEF Init, PendingIsTimed
<1>2. ASSUME PendingIsTimed, [Next]_vars PROVE PendingIsTimed'
  <2>1. ASSUME NEW key \in Keys, Press(key) PROVE PendingIsTimed'
    BY <2>1, PressArms DEF Press, PendingIsTimed
  <2>2. ASSUME NEW key \in Keys, Release(key) PROVE PendingIsTimed'
    BY <1>2, <2>2 DEF Release, PendingIsTimed
  <2>3. CASE Repeat
    BY <2>3, PressArms DEF Repeat, PendingIsTimed
  <2>4. ASSUME NEW button \in Buttons, Click(button) PROVE PendingIsTimed'
    BY <2>4, PressArms DEF Click, PendingIsTimed
  <2>5. CASE Timeout
    BY <2>5, ProcessingForgets DEF Timeout, PendingIsTimed
  <2>6. ASSUME NEW text \in Texts, NEW cmd \in Commands, BindKey(text, cmd)
        PROVE  PendingIsTimed'
    BY <1>2, <2>6 DEF BindKey, PendingIsTimed
  <2>7. CASE ReloadByScript
    BY <1>2, <2>7 DEF ReloadByScript, PendingIsTimed
  <2>8. CASE UNCHANGED vars
    BY <1>2, <2>8 DEF vars, PendingIsTimed
  <2> QED BY <1>2, <2>1, <2>2, <2>3, <2>4, <2>5, <2>6, <2>7, <2>8 DEF Next
<1> QED BY <1>1, <1>2, PTL DEF Spec

\* Only a key that is held down repeats: a press of another key and any release
\* end the repetition, and a reload of the bindings does not start one.
THEOREM OnlyHeldKeysEverRepeat == Spec => []OnlyHeldKeysRepeat
<1>1. Init => OnlyHeldKeysRepeat
  BY DEF Init, OnlyHeldKeysRepeat
<1>2. ASSUME OnlyHeldKeysRepeat, [Next]_vars PROVE OnlyHeldKeysRepeat'
  <2>1. ASSUME NEW key \in Keys, Press(key) PROVE OnlyHeldKeysRepeat'
    <3>1. key \in held' /\ repeat' \in {key, None}
      BY <2>1 DEF Press, StopRepeat
    <3> QED BY <3>1 DEF OnlyHeldKeysRepeat
  <2>2. ASSUME NEW key \in Keys, Release(key) PROVE OnlyHeldKeysRepeat'
    <3>1. repeat' = None
      BY <2>2 DEF Release, StopRepeat
    <3> QED BY <3>1 DEF OnlyHeldKeysRepeat
  <2>3. ASSUME UNCHANGED <<held, repeat>> PROVE OnlyHeldKeysRepeat'
    BY <1>2, <2>3 DEF OnlyHeldKeysRepeat
  <2> QED BY <1>2, <2>1, <2>2, <2>3
          DEF Next, Repeat, Click, Timeout, BindKey, ReloadByScript, vars
<1> QED BY <1>1, <1>2, PTL DEF Spec

\* No chord is pending for ever and no key repeats that is not held down.
THEOREM TimersAlwaysSound == Spec => []TimersSound
BY PendingAlwaysTimed, OnlyHeldKeysEverRepeat, PTL DEF TimersSound

-----------------------------------------------------------------------------
(* Loading, running and the theorems *)

\* The recursive function of Loaded.
LoadEq(f, config) ==
  f = [s \in SUBSET (DOMAIN config) |->
         IF s = {} THEN <<>> ELSE BindEntry(f[s \ {Max(s)}], config[Max(s)])]

\* A configuration is loaded into a list in order.
LEMMA LoadedInOrder ==
  ASSUME NEW config \in Seq(Seq(Chord) \X Commands)
  PROVE  Loaded(config) \in OrderedLists(Commands)
<1> DEFINE V == OrderedLists(Commands)
           n == Len(config)
           step == [i \in 1..n |-> [v \in V |-> BindEntry(v, config[i])]]
           f == CHOOSE f : LoadEq(f, config)
<1>1. n \in Nat /\ DOMAIN config = 1..n
  OBVIOUS
<1>2. <<>> \in V
  BY DEF OrderedLists
<1>3. Loaded(config) = f[DOMAIN config]
  BY Zenon DEF Loaded, FoldLeft, MapThenFoldSet, LoadEq
<1>4. ASSUME NEW i \in 1..n, NEW v \in V PROVE BindEntry(v, config[i]) \in V
  <2>1. config[i] \in Seq(Chord) \X Commands
    OBVIOUS
  <2>2. config[i][1] \in Seq(Chord) /\ config[i][2] \in Commands
    BY <2>1
  <2>3. BindEntry(v, config[i]) \in OrderedLists(Commands)
    BY <2>2, AddKeepsOrder DEF BindEntry
  <2> QED BY <2>3
<1> HIDE DEF n, V
<1>5. Folding(n, V, <<>>, step)
  BY <1>1, <1>2, <1>4 DEF Folding
<1>6. PICK g \in [SUBSET (1..n) -> V] : Folds(g, n, <<>>, step)
  BY <1>5, FoldExists
<1>7. LoadEq(g, config)
  <2>1. \A s \in SUBSET (1..n) :
          g[s] = IF s = {} THEN <<>> ELSE BindEntry(g[s \ {Max(s)}], config[Max(s)])
    BY <1>1, <1>6, MaxOfPositions DEF Folds
  <2>2. g = [s \in SUBSET (1..n) |-> g[s]]
    OBVIOUS
  <2> QED BY <2>1, <2>2, <1>1 DEF LoadEq
<1>8. LoadEq(f, config)
  BY <1>7
<1> HIDE DEF f
<1>9. TakesSteps(f, n, V, <<>>, step)
  BY <1>1, <1>8, MaxOfPositions DEF LoadEq, TakesSteps
<1>10. f[1..n] \in V
  BY <1>5, <1>9, FoldTyped
<1> QED BY <1>1, <1>3, <1>10 DEF V

\* The inductive invariant: the types and the order of the list.
BindingsInv == TypeOK /\ keybindings \in OrderedLists(Commands)

\* The pending presses are a chain that can be searched.
LEMMA PressesAreChords ==
  /\ Seq(Keys \cup Buttons) \subseteq Seq(Chord)
  /\ \A bind \in Keys \cup Buttons, combos \in Seq(Keys \cup Buttons) :
       /\ Append(combos, bind) \in Seq(Keys \cup Buttons)
       /\ <<bind>> \in Seq(Chord)
<1>1. Keys \cup Buttons \subseteq Chord
  BY TextsAssumption
<1> DEFINE B == Keys \cup Buttons
<1> HIDE DEF B
<1>2. B \subseteq Chord
  BY <1>1 DEF B
<1>3. Seq(B) \subseteq Seq(Chord)
  BY <1>2
<1>4. \A bind \in B, combos \in Seq(B) : Append(combos, bind) \in Seq(B) /\ <<bind>> \in Seq(Chord)
  BY <1>2
<1> QED BY <1>3, <1>4 DEF B

\* No press is pending.
LEMMA EmptyIsPending == <<>> \in Seq(Keys \cup Buttons)
OBVIOUS

\* process_binding finds a binding of the whole chain if there is one.
LEMMA MatchIsBinding ==
  ASSUME BindingsInv, NEW combos \in Seq(Chord), NEW last \in Seq(Chord)
  PROVE  /\ MatchOf(combos, last) \in 0..Len(keybindings)
         /\ MatchOf(combos, last) # 0 =>
              keybindings[MatchOf(combos, last)].cmd \in Commands
         /\ Bound(combos) # {} =>
              /\ MatchOf(combos, last) # 0
              /\ keybindings[MatchOf(combos, last)].cmd \in Bound(combos)
<1>1. /\ keybindings \in OrderedLists(Commands) /\ keybindings \in Seq(BindingTo(Commands))
      /\ Len(keybindings) \in Nat
  BY DEF BindingsInv, OrderedLists
<1> DEFINE whole == GetMatchingKeybinding(keybindings, combos)
           alone == GetMatchingKeybinding(keybindings, last)
           k == MatchOf(combos, last)
<1>2. /\ whole \in 0..Len(keybindings)
      /\ whole # 0 => keybindings[whole].binding = combos
      /\ (\E i \in 1..Len(keybindings) : keybindings[i].binding = combos) => whole # 0
  BY <1>1, MatchingFinds
<1>3. alone \in 0..Len(keybindings)
  BY <1>1, MatchingFinds
<1>4. k = IF whole # 0 THEN whole ELSE alone
  BY DEF MatchOf
<1> HIDE DEF whole, alone, k
<1>5. k \in 0..Len(keybindings)
  BY <1>2, <1>3, <1>4
<1>6. k # 0 => keybindings[k].cmd \in Commands
  <2>1. k # 0 => k \in 1..Len(keybindings)
    BY <1>1, <1>5
  <2> QED BY <1>1, <2>1, BindingsTyped
<1>7. ASSUME Bound(combos) # {} PROVE k # 0 /\ keybindings[k].cmd \in Bound(combos)
  <2>1. \E i \in DOMAIN keybindings : keybindings[i].binding = combos
    BY <1>7 DEF Bound
  <2>2. whole # 0 /\ k = whole /\ whole \in 1..Len(keybindings) /\ keybindings[whole].binding = combos
    BY <1>1, <1>2, <1>4, <2>1
  <2> QED BY <1>1, <2>2 DEF Bound
<1> QED BY <1>5, <1>6, <1>7 DEF k

\* lib_reload leaves the list in order, whether it is refused or not.
LEMMA ReloadKeepsOrder ==
  ASSUME BindingsInv, Reload
  PROVE  keybindings' \in OrderedLists(Commands)
<1>1. Configs \subseteq Seq(Seq(Chord) \X Commands)
  BY TextsAssumption
<1>2. CASE UNCHANGED keybindings
  BY <1>2 DEF BindingsInv, OrderedLists
<1>3. ASSUME NEW config \in Configs, keybindings' = Loaded(config)
      PROVE  keybindings' \in OrderedLists(Commands)
  BY <1>1, <1>3, LoadedInOrder
<1> QED BY <1>2, <1>3 DEF Reload

\* The part of TypeOK that processing a press or a timeout changes.
LEMMA ProcessKeepsInv ==
  ASSUME BindingsInv, NEW combos \in Seq(Chord), NEW last \in Seq(Chord),
         ProcessBinding(combos, last)
  PROVE  /\ keybindings' \in OrderedLists(Commands)
         /\ registered' = <<>>
         /\ named' \in BOOLEAN /\ prohibited' \in BOOLEAN
         /\ ran' \in Commands \cup {None}
         /\ Bound(combos) # {} => ran' \in Bound(combos)
<1> DEFINE k == MatchOf(combos, last)
<1>1. /\ k # 0 => keybindings[k].cmd \in Commands
      /\ Bound(combos) # {} => k # 0 /\ keybindings[k].cmd \in Bound(combos)
  BY MatchIsBinding
<1>2. ProcessBinding(combos, last) <=>
        IF k # 0 THEN ExecuteBinding(keybindings[k].cmd) ELSE registered' = <<>> /\ NoCommand
  BY DEF ProcessBinding
<1> HIDE DEF k
<1>3. CASE k # 0
  <2>1. ExecuteBinding(keybindings[k].cmd)
    BY <1>2, <1>3
  <2>2. keybindings' \in OrderedLists(Commands)
    <3>1. CASE Reload
      BY <3>1, ReloadKeepsOrder
    <3>2. CASE UNCHANGED keybindings
      BY <3>2 DEF BindingsInv, OrderedLists
    <3> QED BY <2>1, <3>1, <3>2 DEF ExecuteBinding
  <2>3. registered' = <<>> /\ ran' = keybindings[k].cmd /\ prohibited' = FALSE
        /\ named' = (named \/ keybindings[k].cmd \in StartCommands)
    BY <2>1 DEF ExecuteBinding
  <2> QED BY <1>1, <1>3, <2>2, <2>3
<1>4. CASE k = 0
  <2>1. registered' = <<>> /\ ran' = None /\ UNCHANGED <<keybindings, named, prohibited>>
    BY <1>2, <1>4 DEF NoCommand
  <2>2. keybindings' \in OrderedLists(Commands)
    BY <2>1 DEF BindingsInv, OrderedLists
  <2> QED BY <1>1, <1>4, <2>1, <2>2 DEF BindingsInv, TypeOK
<1> QED BY <1>3, <1>4

\* What a press does to the bindings and the pending chords.
LEMMA HandlingKeepsInv ==
  ASSUME BindingsInv, NEW bind \in Keys \cup Buttons, HandleKeyboardKey(bind)
  PROVE  /\ keybindings' \in OrderedLists(Commands)
         /\ registered' \in Seq(Keys \cup Buttons)
         /\ timer' \in BOOLEAN /\ named' \in BOOLEAN /\ prohibited' \in BOOLEAN
         /\ ran' \in Commands \cup {None}
         /\ registered' = <<>> /\ Bound(Append(registered, bind)) # {} =>
              ran' \in Bound(Append(registered, bind))
<1> DEFINE combos == Append(registered, bind)
           partly == HasPartlyMatchingKeybinding(keybindings, combos)
<1>1. registered \in Seq(Keys \cup Buttons)
  BY DEF BindingsInv, TypeOK
<1>2. combos \in Seq(Keys \cup Buttons) /\ combos \in Seq(Chord) /\ <<bind>> \in Seq(Chord)
  BY <1>1, PressesAreChords
<1>3. combos # <<>>
  <2>1. Len(combos) = Len(registered) + 1 /\ Len(registered) \in Nat /\ Len(<<>>) = 0
    BY <1>1
  <2> QED BY <2>1
<1>4. timer' = TRUE /\ IF partly THEN registered' = combos /\ NoCommand
                       ELSE ProcessBinding(combos, <<bind>>)
  BY DEF HandleKeyboardKey, ResetKeycomboTimer
<1> HIDE DEF combos, partly
<1>5. CASE partly
  <2>1. registered' = combos /\ ran' = None /\ UNCHANGED <<keybindings, named, prohibited>>
    BY <1>4, <1>5 DEF NoCommand
  <2>2. keybindings' \in OrderedLists(Commands)
    BY <2>1 DEF BindingsInv, OrderedLists
  <2> QED BY <1>2, <1>3, <1>4, <2>1, <2>2 DEF BindingsInv, TypeOK
<1>6. CASE ~partly
  <2>1. ProcessBinding(combos, <<bind>>)
    BY <1>4, <1>6
  <2> QED BY <1>2, <1>4, <2>1, ProcessKeepsInv, EmptyIsPending DEF combos
<1> QED BY <1>5, <1>6

\* The invariant holds of the list a configuration is loaded into.
LEMMA BindingsInvInitially == Init => BindingsInv
<1> SUFFICES ASSUME Init PROVE BindingsInv
  OBVIOUS
<1>1. PICK config \in Configs : keybindings = Loaded(config)
  BY DEF Init
<1>2. keybindings \in OrderedLists(Commands)
  BY <1>1, LoadedInOrder, TextsAssumption
<1> QED BY <1>2, EmptyIsPending DEF Init, BindingsInv, TypeOK, OrderedLists

\* Every event keeps it.
LEMMA BindingsInvKept ==
  ASSUME BindingsInv, [Next]_vars
  PROVE  BindingsInv'
<1> DEFINE Kept == /\ keybindings' \in OrderedLists(Commands)
                   /\ registered' \in Seq(Keys \cup Buttons)
                   /\ timer' \in BOOLEAN /\ named' \in BOOLEAN /\ prohibited' \in BOOLEAN
                   /\ ran' \in Commands \cup {None}
<1>1. ASSUME Kept, held' \subseteq Keys, repeat' \in Keys \cup {None} PROVE BindingsInv'
  BY <1>1 DEF BindingsInv, TypeOK, OrderedLists
<1>2. /\ keybindings \in OrderedLists(Commands)
      /\ registered \in Seq(Keys \cup Buttons) /\ timer \in BOOLEAN
      /\ named \in BOOLEAN /\ prohibited \in BOOLEAN /\ held \subseteq Keys
      /\ repeat \in Keys \cup {None} /\ ran \in Commands \cup {None}
  BY DEF BindingsInv, TypeOK
<1>3. UNCHANGED keybindings => keybindings' \in OrderedLists(Commands)
  BY <1>2 DEF OrderedLists
<1>4. ASSUME NEW key \in Keys, Press(key) PROVE BindingsInv'
  <2>1. HandleKeyboardKey(key) /\ held' = held \cup {key} /\ repeat' \in {key, None}
    BY <1>4 DEF Press, StopRepeat
  <2>2. Kept
    BY <2>1, HandlingKeepsInv
  <2> QED BY <1>1, <1>2, <2>1, <2>2
<1>5. ASSUME NEW key \in Keys, Release(key) PROVE BindingsInv'
  <2>1. /\ held' = held \ {key} /\ repeat' = None /\ ran' = None
        /\ named' = (named /\ registered # <<>>)
        /\ UNCHANGED <<keybindings, registered, timer, prohibited>>
    BY <1>5 DEF Release, StopRepeat
  <2>2. Kept
    BY <1>2, <1>3, <2>1
  <2> QED BY <1>1, <1>2, <2>1, <2>2
<1>6. CASE Repeat
  <2>1. repeat \in Keys /\ HandleKeyboardKey(repeat) /\ UNCHANGED <<held, repeat>>
    BY <1>2, <1>6 DEF Repeat
  <2>2. Kept
    BY <2>1, HandlingKeepsInv
  <2> QED BY <1>1, <1>2, <2>1, <2>2
<1>7. ASSUME NEW button \in Buttons, Click(button) PROVE BindingsInv'
  <2>1. HandleKeyboardKey(button) /\ UNCHANGED <<held, repeat>>
    BY <1>7 DEF Click
  <2>2. Kept
    BY <2>1, HandlingKeepsInv
  <2> QED BY <1>1, <1>2, <2>1, <2>2
<1>8. CASE Timeout
  <2>1. timer' = FALSE /\ ProcessBinding(registered, registered) /\ UNCHANGED <<held, repeat>>
    BY <1>8 DEF Timeout
  <2>2. registered \in Seq(Chord)
    BY <1>2, PressesAreChords
  <2>3. Kept
    BY <2>1, <2>2, ProcessKeepsInv, EmptyIsPending
  <2> QED BY <1>1, <1>2, <2>1, <2>3
<1>9. ASSUME NEW text \in Texts, NEW cmd \in Commands, BindKey(text, cmd) PROVE BindingsInv'
  <2>1. /\ keybindings' = AddKeybinding(keybindings, text, cmd) /\ ran' = None
        /\ UNCHANGED <<registered, timer, named, held, repeat, prohibited>>
    BY <1>9 DEF BindKey
  <2>2. AddKeybinding(keybindings, text, cmd) \in OrderedLists(Commands)
    BY <1>2, AddKeepsOrder, TextsAssumption
  <2>3. keybindings' \in OrderedLists(Commands)
    BY <2>1, <2>2
  <2>4. Kept
    BY <1>2, <2>1, <2>3
  <2> QED BY <1>1, <1>2, <2>1, <2>4
<1>10. CASE ReloadByScript
  <2>1. /\ Reload /\ prohibited' = TRUE /\ ran' = None
        /\ UNCHANGED <<registered, timer, named, held, repeat>>
    BY <1>10 DEF ReloadByScript
  <2>2. Kept
    BY <1>2, <2>1, ReloadKeepsOrder
  <2> QED BY <1>1, <1>2, <2>1, <2>2
<1>11. CASE UNCHANGED vars
  <2>1. UNCHANGED <<keybindings, registered, timer, named, held, repeat, prohibited, ran>>
    BY <1>11 DEF vars
  <2>2. Kept
    BY <1>2, <1>3, <2>1
  <2> QED BY <1>1, <1>2, <2>1, <2>2
<1> HIDE DEF Kept
<1> QED BY <1>4, <1>5, <1>6, <1>7, <1>8, <1>9, <1>10, <1>11 DEF Next

\* The list of bindings is always in the order of the search (options_add_keybinding).
THEOREM BindingsAlwaysInOrder == Spec => []BindingsInv
<1>1. BindingsInv /\ [Next]_vars => BindingsInv'
  BY BindingsInvKept
<1> QED BY BindingsInvInitially, <1>1, PTL DEF Spec

\* Every binding is found by its chords, in whatever order configurations, scripts and
\* reloads add them (get_matching_keybinding).
THEOREM BindingsAlwaysSound == Spec => []BindingsSound
<1>1. BindingsInv => BindingsSound
  <2> SUFFICES ASSUME BindingsInv PROVE EveryBindingIsFound
    BY DEF BindingsSound, BindingsInv
  <2>1. keybindings \in OrderedLists(Commands) /\ keybindings \in Seq(BindingTo(Commands))
    BY DEF BindingsInv, OrderedLists
  <2>2. DOMAIN keybindings = 1..Len(keybindings)
    BY <2>1
  <2>3. ASSUME NEW k \in 1..Len(keybindings)
        PROVE  LET found == GetMatchingKeybinding(keybindings, keybindings[k].binding)
               IN  found # 0 /\ keybindings[found].binding = keybindings[k].binding
    BY <2>1, BindingsTyped, MatchingFinds
  <2> QED BY <2>2, <2>3 DEF EveryBindingIsFound
<1> QED BY <1>1, BindingsAlwaysInOrder, PTL

\* A complete chain that no longer one continues runs its own command, never the one of
\* its last chord (process_binding).
THEOREM CompleteChainAlwaysRuns == Spec => CompleteChainRuns
<1> DEFINE Runs == \A bind \in Keys \cup Buttons :
       LET combos == Append(registered, bind)
       IN  (Press(bind) \/ Click(bind)) /\ registered' = <<>> /\ Bound(combos) # {} =>
             ran' \in Bound(combos)
<1>1. BindingsInv /\ [Next]_vars => [Runs]_vars
  <2> SUFFICES ASSUME BindingsInv, NEW bind \in Keys \cup Buttons, Press(bind) \/ Click(bind),
                      registered' = <<>>, Bound(Append(registered, bind)) # {}
               PROVE  ran' \in Bound(Append(registered, bind))
    OBVIOUS
  <2>1. HandleKeyboardKey(bind)
    BY DEF Press, Click
  <2> QED BY <2>1, HandlingKeepsInv
<1> QED BY <1>1, BindingsAlwaysInOrder, PTL DEF Spec, CompleteChainRuns

\* When the timer fires, the chain that is pending runs its own command
\* (clear_key_combo_timer_callback).
THEOREM WaitingAlwaysRunsTheShorter == Spec => WaitingRunsTheShorter
<1> DEFINE Runs == timer /\ ~timer' /\ Bound(registered) # {} => ran' \in Bound(registered)
<1>1. BindingsInv /\ [Next]_vars => [Runs]_vars
  <2> SUFFICES ASSUME BindingsInv, [Next]_vars, timer, ~timer', Bound(registered) # {}
               PROVE  ran' \in Bound(registered)
    OBVIOUS
  <2>1. Timeout
    BY PressArms DEF Next, Press, Release, Repeat, Click, BindKey, ReloadByScript, vars
  <2>2. ProcessBinding(registered, registered)
    BY <2>1 DEF Timeout
  <2>3. registered \in Seq(Chord)
    BY PressesAreChords DEF BindingsInv, TypeOK
  <2> QED BY <2>2, <2>3, ProcessKeepsInv
<1> QED BY <1>1, BindingsAlwaysInOrder, PTL DEF Spec, WaitingRunsTheShorter

=============================================================================
