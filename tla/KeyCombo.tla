------------------------------ MODULE KeyCombo ------------------------------
(***************************************************************************)
(* How key presses become commands (src/src/keybinding.c, keyboard.c,      *)
(* server.c, lib/lib_options.c).                                           *)
(*                                                                         *)
(* A press is appended to the chords that are pending.  If a longer chain  *)
(* may follow, the compositor waits for the next press or for a timer; if  *)
(* not, it runs the command bound to the chords and forgets them.  Presses *)
(* come from a keyboard, from the repeat timer of a held key, and from     *)
(* mouse buttons.  Commands change the state the next press meets: they    *)
(* start named combos, which a key release ends, and reload the bindings.  *)
(***************************************************************************)
EXTENDS Keybindings

CONSTANTS
  Keys,            \* the chords the keyboard can produce, normalised
  Buttons,         \* the chords of mouse buttons
  Texts,           \* the binding texts that configurations and scripts use
  Commands,        \* the functions bound to them
  StartCommands,   \* those that call start_keycombo
  ReloadCommands,  \* those that call opt.reload
  Configs,         \* what a configuration file binds: sequences of <<text, command>>
  None,            \* no command, no key
  MaxBindings      \* bound: the length up to which scripts add bindings

ASSUME CommandsAssumption ==
  StartCommands \subseteq Commands /\ ReloadCommands \subseteq Commands /\ None \notin Commands
ASSUME TextsAssumption ==
  Keys \cup Buttons \subseteq Chord /\ Texts \subseteq Seq(Chord)
    /\ Configs \subseteq Seq(Seq(Chord) \X Commands)
ASSUME MaxBindingsAssumption == MaxBindings \in Nat

VARIABLES
  keybindings,   \* options->keybindings
  registered,    \* server.registered_key_combos, the pending chords
  timer,         \* server.combo_timer_source is armed
  named,         \* server.named_key_combos is not empty
  held,          \* the keys that are physically held down
  repeat,        \* keyboard->repeat_binding, None if disarmed
  prohibited,    \* server.prohibit_reload_config
  ran            \* the command the last step ran, None if none

vars == <<keybindings, registered, timer, named, held, repeat, prohibited, ran>>

BindEntry(list, entry) == AddKeybinding(list, entry[1], entry[2])

Loaded(config) == FoldLeft(BindEntry, <<>>, config)

-----------------------------------------------------------------------------
(* Running commands *)

\* lib_reload: refused while the flag is up ("infinit recursion detected"), else
\* it replaces the bindings.
Reload ==
  IF prohibited THEN UNCHANGED keybindings
  ELSE \E config \in Configs : keybindings' = Loaded(config)

\* execute_binding
ExecuteBinding(cmd) ==
  /\ registered' = <<>>
  /\ ran' = cmd
  /\ named' = (named \/ cmd \in StartCommands)
  /\ IF cmd \in ReloadCommands THEN Reload ELSE UNCHANGED keybindings
  /\ prohibited' = FALSE

\* Nothing is run.
NoCommand ==
  /\ ran' = None
  /\ UNCHANGED <<keybindings, named, prohibited>>

\* Mutant: the last press is looked up before the whole chain.
LastPressFirst(combos, last) ==
  LET alone == GetMatchingKeybinding(keybindings, last)
  IN  IF alone # 0 THEN alone ELSE GetMatchingKeybinding(keybindings, combos)

\* The binding process_binding finds: of the pending chords, or of the last
\* press alone.  0 if none.
MatchOf(combos, last) ==
  LET whole == GetMatchingKeybinding(keybindings, combos)
  IN  IF whole # 0 THEN whole ELSE GetMatchingKeybinding(keybindings, last)

\* process_binding
ProcessBinding(combos, last) ==
  LET k == MatchOf(combos, last)
  IN  IF k # 0 THEN ExecuteBinding(keybindings[k].cmd)
      ELSE registered' = <<>> /\ NoCommand

\* Mutant: the timer is armed only if a chain was pending already.
ArmIfPending == timer' = (timer \/ registered # <<>>)

\* reset_keycombo_timer
ResetKeycomboTimer == timer' = TRUE

\* handle_keyboard_key
HandleKeyboardKey(bind) ==
  LET combos == Append(registered, bind)
  IN  /\ ResetKeycomboTimer
      /\ IF HasPartlyMatchingKeybinding(keybindings, combos)
         THEN registered' = combos /\ NoCommand
         ELSE ProcessBinding(combos, <<bind>>)

\* What handle_keyboard_key returns: the press is not passed on to a client.
Handled(bind) ==
  LET combos == Append(registered, bind)
  IN  HasPartlyMatchingKeybinding(keybindings, combos) \/ MatchOf(combos, <<bind>>) # 0

-----------------------------------------------------------------------------
(* Events *)

\* Mutant: only releasing the last key stops the repetition.
StopRepeatWithLastKey(key) == IF held = {key} THEN None ELSE repeat

\* Any event of a key that is not handled stops the repetition.
StopRepeat(key) == None

\* handle_key_event, a press
Press(key) ==
  /\ key \in Keys \ held
  /\ HandleKeyboardKey(key)
  /\ held' = held \cup {key}
  /\ repeat' = IF Handled(key) THEN key ELSE StopRepeat(key)

\* handle_key_event, a release: named combos end unless chords are pending.
Release(key) ==
  /\ key \in held
  /\ held' = held \ {key}
  /\ named' = (named /\ registered # <<>>)
  /\ repeat' = StopRepeat(key)
  /\ ran' = None
  /\ UNCHANGED <<keybindings, registered, timer, prohibited>>

\* handle_keyboard_repeat
Repeat ==
  /\ repeat # None
  /\ HandleKeyboardKey(repeat)
  /\ UNCHANGED <<held, repeat>>

\* handle_cursor_button, a press
Click(button) ==
  /\ HandleKeyboardKey(button)
  /\ UNCHANGED <<held, repeat>>

\* Mutant: the timer only forgets the pending chords.
TimeoutForgets ==
  /\ timer
  /\ timer' = FALSE
  /\ registered' = <<>>
  /\ NoCommand
  /\ UNCHANGED <<held, repeat>>

\* clear_key_combo_timer_callback
Timeout ==
  /\ timer
  /\ timer' = FALSE
  /\ ProcessBinding(registered, registered)
  /\ UNCHANGED <<held, repeat>>

\* opt:bind_key, from a configuration file or a script
BindKey(text, cmd) ==
  /\ Len(keybindings) < MaxBindings
  /\ keybindings' = AddKeybinding(keybindings, text, cmd)
  /\ ran' = None
  /\ UNCHANGED <<registered, timer, named, held, repeat, prohibited>>

\* opt.reload from a script that no key binding runs, such as one an IPC client
\* sends: nothing lowers the flag afterwards.
ReloadByScript ==
  /\ Reload
  /\ prohibited' = TRUE
  /\ ran' = None
  /\ UNCHANGED <<registered, timer, named, held, repeat>>

-----------------------------------------------------------------------------
Init ==
  /\ \E config \in Configs : keybindings = Loaded(config)
  /\ registered = <<>>
  /\ timer = FALSE
  /\ named = FALSE
  /\ held = {}
  /\ repeat = None
  /\ prohibited = FALSE
  /\ ran = None

Next ==
  \/ \E key \in Keys : Press(key) \/ Release(key)
  \/ Repeat
  \/ \E button \in Buttons : Click(button)
  \/ Timeout
  \/ \E text \in Texts, cmd \in Commands : BindKey(text, cmd)
  \/ ReloadByScript

Spec == Init /\ [][Next]_vars

\* The event loop serves a timer that is due.
FairSpec == Spec /\ WF_vars(Timeout)

-----------------------------------------------------------------------------
TypeOK ==
  /\ keybindings \in Seq(BindingTo(Commands))
  /\ registered \in Seq(Keys \cup Buttons)
  /\ timer \in BOOLEAN
  /\ named \in BOOLEAN
  /\ held \subseteq Keys
  /\ repeat \in Keys \cup {None}
  /\ prohibited \in BOOLEAN
  /\ ran \in Commands \cup {None}

\* Chords are pending only while the timer is armed, so that they cannot get
\* stuck and swallow the presses that follow.
PendingIsTimed == registered # <<>> => timer

\* Every binding of the list is found by the chords it consists of: the list is
\* in the order of the search, whatever the order the bindings were added in.
EveryBindingIsFound ==
  \A k \in DOMAIN keybindings :
    LET found == GetMatchingKeybinding(keybindings, keybindings[k].binding)
    IN  found # 0 /\ keybindings[found].binding = keybindings[k].binding

\* The list of bindings can be searched (options_add_keybinding, get_matching_keybinding).
BindingsSound == TypeOK /\ keybindings \in OrderedLists(Commands) /\ EveryBindingIsFound

\* Only a key that is held down repeats, whichever keys were released and
\* bindings reloaded since it was pressed.
OnlyHeldKeysRepeat == repeat # None => repeat \in held

\* Nothing gets stuck between two events: neither pending chords nor the repetition
\* of a key that is not held any more (reset_keycombo_timer, keyboard_disarm_key_repeat).
TimersSound == PendingIsTimed /\ OnlyHeldKeysRepeat

\* The commands bound to these chords.
Bound(combos) ==
  {keybindings[k].cmd : k \in {k \in DOMAIN keybindings : keybindings[k].binding = combos}}

\* A chain that is complete and that no longer one continues runs its own
\* command, whatever is bound to its last chord alone.
CompleteChainRuns ==
  [][\A bind \in Keys \cup Buttons :
       LET combos == Append(registered, bind)
       IN  (Press(bind) \/ Click(bind)) /\ registered' = <<>> /\ Bound(combos) # {} =>
             ran' \in Bound(combos)]_vars

\* Of two bindings of which one continues the other, the shorter one runs when
\* the user waits (man/japokwm-options.5.scd).
WaitingRunsTheShorter ==
  [][timer /\ ~timer' /\ Bound(registered) # {} => ran' \in Bound(registered)]_vars

\* Pending chords are used up or dropped in the end.
PendingEnds == registered # <<>> ~> registered = <<>>

=============================================================================
