--------------------------- MODULE Configuration ---------------------------
(***************************************************************************)
(* The configuration and the scripts that read and change it               *)
(* (src/src/utils/parseConfigUtils.c, options.c, lib/lib_options.c,        *)
(* translationLayer.c, event_handler.c, rules/rule.c, command.c).          *)
(*                                                                         *)
(* One interpreter runs the config file, the files of the layouts and the  *)
(* functions that these have left for keys, rules and events, each within  *)
(* a call of the core, and any of them may call back into the core, which  *)
(* may run another file before it goes on.  So there is a stack of calls,  *)
(* and what is below the top goes on with what the top has left.  A script *)
(* that fails is replaced by the built-in defaults (handle_error), and     *)
(* this destroys every loaded layout, whatever still refers to one.        *)
(*                                                                         *)
(* A statement is a name with a number; statements of scripts and steps of *)
(* C functions are executed alike.  Layouts, rules, scripts, lists of      *)
(* names, keys and windows are numbers, layout 0 being the one named "".   *)
(***************************************************************************)
EXTENDS Keybindings, FiniteSets

CONSTANTS
  Tags,          \* the ids of the tags, from 0
  FirstLayout,   \* the layout that create_layout names
  DefaultKeys,   \* the keys of load_default_keybindings with their scripts
  DefaultNames,  \* the list of names that load_default_lua_config sets
  MaxListeners,  \* bound: commands are given while there are no more listeners
  Setups         \* what an instance starts with, see setup

\* What scripts may say: set an option, add a rule, bind a key, name the tags,
\* choose a layout for new tags, load one, listen to the signal, fail, reload.
Statements(s) ==
  ({"gap", "mod", "entry", "fail", "reload"} \X Nat)
    \cup ({"rule"} \X DOMAIN s.rules) \cup ({"bind"} \X DOMAIN s.binds)
    \cup ({"names"} \X DOMAIN s.names) \cup ({"default_layout", "load"} \X DOMAIN s.files)
    \cup ({"listen"} \X DOMAIN s.scripts)

ASSUME SetupsAssumption ==
  \A s \in Setups :
    /\ DOMAIN s.names \cup DOMAIN s.files \cup s.keys \subseteq Nat /\ s.full \in BOOLEAN
    /\ {0, DefaultNames} \subseteq DOMAIN s.names
    /\ \A n \in DOMAIN s.names : s.names[n] \in Nat  \* how many names a list has
    /\ s.scripts \in Seq(Seq(Statements(s))) /\ s.commands \subseteq DOMAIN s.scripts
    /\ s.rules \in Seq([matches : SUBSET Nat, run : DOMAIN s.scripts])
    /\ s.binds \in Seq([key : s.keys, run : DOMAIN s.scripts])
    /\ {0, FirstLayout} \subseteq DOMAIN s.files /\ s.files[0] = <<>>
    /\ \A n \in DOMAIN s.files : s.files[n] \in Seq(Statements(s))
    /\ s.configs \subseteq Seq(Statements(s))
ASSUME TagsAssumption == Tags \subseteq Nat /\ 0 \in Tags
ASSUME DefaultKeysAssumption ==
  \A s \in Setups : DefaultKeys \in Seq(Nat \X DOMAIN s.scripts)

VARIABLES
  setup,      \* never changes: the scripts, bindings, rules, lists of names and
              \* layout files, the config files that may be found, the keys and the
              \* commands that are used, and whether the disk may be full
  opts,       \* server.default_layout->options
  default,    \* server.default_layout->name
  tags,       \* per tag its name, current_layout and loaded_layouts, each with
              \* its own options
  shown,      \* the tag of the output
  opt,        \* what the global variable opt of the scripts points to
  listeners,  \* the functions of one of the signals of server.event_handler
  prohibited, \* server.prohibit_reload_config
  error_file, \* error_fd >= 0
  stack,      \* the calls that have not returned, the last one first
  fault       \* "none", or what ended the program

vars == <<setup, opts, default, tags, shown, opt, listeners, prohibited,
          error_file, stack, fault>>

-----------------------------------------------------------------------------
(* Options                                                                   *)

\* load_default_keybindings
LoadDefaultKeybindings ==
  FoldLeft(LAMBDA l, k : AddKeybinding(l, << <<k[1]>> >>, k[2]), <<>>, DefaultKeys)

\* Mutant: the rules stay
ResetButRules(o) ==
  [o EXCEPT !.gap = 0, !.mod = 0, !.names = 0,
            !.keys = LoadDefaultKeybindings]

\* options_reset with load_default_keybindings: all but the position functions.
\* The gap stands for every option that is only set, reset and copied.
Reset(o) ==
  [o EXCEPT !.gap = 0, !.mod = 0, !.names = 0, !.rules = <<>>,
            !.keys = LoadDefaultKeybindings]

\* create_options
Created == Reset([gap |-> 0, mod |-> 0, names |-> 0, rules |-> <<>>, keys |-> <<>>, entry |-> 0])

\* copy_options into new ones: all but the position functions
Copied(o) == [o EXCEPT !.entry = Created.entry]

\* What scripts set in place: lib_set_inner_gaps and its like
Set(o, op, n) == IF op = "gap" THEN [o EXCEPT !.gap = n] ELSE [o EXCEPT !.mod = n]

\* lib_set_entry_position_function
SetEntry(o, n) == [o EXCEPT !.entry = n]

\* lib_add_rule and lib_bind_key add to what there is.
Added(o, op, n) ==
  IF op = "rule" THEN [o EXCEPT !.rules = Append(@, n)]
  ELSE [o EXCEPT !.keys = AddKeybinding(@, << <<setup.binds[n].key>> >>, setup.binds[n].run)]

\* The setters and methods that only change the options
Setters == {"gap", "mod", "entry", "rule", "bind"}
Changed(o, op, n) ==
  CASE op \in {"gap", "mod"}   -> Set(o, op, n)
    [] op = "entry"            -> SetEntry(o, n)
    [] op \in {"rule", "bind"} -> Added(o, op, n)
    [] op = "names"            -> [o EXCEPT !.names = n]
    [] OTHER                   -> o

\* The layout of this name among these changes its options.
ChangedIn(lts, name, op, n) ==
  [i \in DOMAIN lts |-> IF lts[i].name = name
                        THEN [lts[i] EXCEPT !.options = Changed(lts[i].options, op, n)] ELSE lts[i]]

-----------------------------------------------------------------------------
(* Calls and what they point to                                              *)

\* What a pointer to options points to: those of the default layout, those of
\* layout n of tag t, <<t, n>>, or nothing any more.
OfDefault == <<>>
Freed == <<-1>>

\* A call: of a script that is protected (lua_call_safe), of the config file, of
\* a command (lua_pcall) or of C; what is left to do; the options whose rules it
\* iterates, and for which window.
Call(kind, todo) == [kind |-> kind, todo |-> todo, ptr |-> OfDefault, window |-> 0]
Core(todo) == Call("core", todo)

Live == fault = "none"
Top == Head(stack)
Ready(op) == Live /\ stack # <<>> /\ Top.todo # <<>> /\ Top.todo[1][1] = op
Arg == Top.todo[1][2]

\* The top goes on with these steps instead of the first of its steps.
Instead(steps) == <<[Top EXCEPT !.todo = steps \o Tail(@)]>> \o Tail(stack)
Done == Instead(<<>>)

OptionsAt(p) ==
  IF p = OfDefault THEN opts
  ELSE (CHOOSE lt \in ToSet(tags[p[1]].loaded) : lt.name = p[2]).options

\* What a pointer into the layouts of these tags points to when they are gone
After(p, gone) == IF p # Freed /\ p # OfDefault /\ p[1] \in gone THEN Freed ELSE p
\* tag_remove_loaded_layouts for these tags: what pointed into their layouts
\* points to nothing, in these calls, too.
RemoveLayouts(gone, calls) ==
  /\ opt' = After(opt, gone)
  /\ stack' = [i \in DOMAIN calls |-> [calls[i] EXCEPT !.ptr = After(@, gone)]]

\* What the program does with memory that is freed is undefined, and ends the model.
Ends(reason) ==
  /\ fault' = reason
  /\ UNCHANGED <<setup, opts, default, tags, shown, opt, listeners, prohibited, error_file, stack>>

-----------------------------------------------------------------------------
(* Layouts                                                                   *)

\* focus_layout(t, current_layout): a layout that is not loaded gets a copy of the
\* options, its file runs with opt pointing to it, and then it is looked for at
\* the position where it was added.
FocusLayout(t) ==
  LET lts == tags[t].loaded
      name == tags[t].layout
      at == {i \in DOMAIN lts : lts[i].name = name}
  IN  IF at # {}
      THEN /\ stack' = Done
           /\ tags' = [tags EXCEPT ![t].loaded =
                         LET i == CHOOSE i \in at : TRUE IN <<@[i]>> \o RemoveAt(@, i)]
           /\ UNCHANGED opt
      ELSE /\ tags' = [tags EXCEPT ![t].loaded = Append(@, [name |-> name, options |-> Copied(opts)])]
           /\ opt' = <<t, name>>
           /\ stack' = <<Call("script", setup.files[name])>>
                         \o Instead(<< <<"placed", Len(lts) + 1>>, <<"front", t>> >>)

\* arrange()
Focus ==
  /\ Ready("focus")
  /\ FocusLayout(Arg)
  /\ UNCHANGED <<setup, opts, default, shown, listeners, prohibited, error_file, fault>>

\* tag_get_layout
Get ==
  /\ Ready("get")
  /\ IF tags[Arg].loaded = <<>> THEN FocusLayout(Arg)
     ELSE stack' = Done /\ UNCHANGED <<tags, opt>>
  /\ UNCHANGED <<setup, opts, default, shown, listeners, prohibited, error_file, fault>>

\* tag_load_layout and focus_layout after the file of the layout has run
Placed ==
  /\ Ready("placed")
  /\ LET t == Top.todo[2][2] IN
     IF Arg \notin DOMAIN tags[t].loaded THEN Ends("position")
     ELSE /\ tags' = [tags EXCEPT ![t].loaded = <<@[Arg]>> \o RemoveAt(@, Arg)]
          /\ stack' = <<[Top EXCEPT !.todo = Tail(Tail(@))]>> \o Tail(stack)
          /\ UNCHANGED <<setup, opts, default, shown, opt, listeners, prohibited, error_file, fault>>

\* Layout.load: push_layout and arrange()
Load ==
  /\ Ready("load")
  /\ tags' = [tags EXCEPT ![shown].layout = Arg]
  /\ stack' = <<Core(<< <<"focus", shown>> >>)>> \o Done
  /\ UNCHANGED <<setup, opts, default, shown, opt, listeners, prohibited, error_file, fault>>

\* tag_update_names, for one tag after the other
Names ==
  /\ Ready("tags")
  /\ stack' = IF Arg \in Tags
              THEN Instead(<< <<"get", Arg>>, <<"name", Arg>>, <<"tags", Arg + 1>> >>) ELSE Done
  /\ UNCHANGED <<setup, opts, default, tags, shown, opt, listeners, prohibited, error_file, fault>>

\* tag_update_name for a tag without windows; a list of n names is numbered n
Name ==
  /\ Ready("name")
  /\ tags' = [tags EXCEPT ![Arg].name =
       LET n == Head(tags[Arg].loaded).options.names IN IF Arg < setup.names[n] THEN n ELSE 0]
  /\ stack' = Done
  /\ UNCHANGED <<setup, opts, default, shown, opt, listeners, prohibited, error_file, fault>>

-----------------------------------------------------------------------------
(* What scripts do to the options                                            *)

\* set_lua_value and the methods, for what opt points to
SetOption ==
  \E op \in Setters :
    /\ Ready(op)
    /\ IF opt = Freed THEN Ends("options_freed")
       ELSE /\ IF opt = OfDefault
               THEN opts' = Changed(opts, op, Arg) /\ UNCHANGED tags
               ELSE /\ tags' = [tags EXCEPT ![opt[1]].loaded = ChangedIn(@, opt[2], op, Arg)]
                    /\ UNCHANGED opts
            /\ stack' = Done
            /\ UNCHANGED <<setup, default, shown, opt, listeners, prohibited, error_file, fault>>

\* load_tags for a list of names
Renamed(n) ==
  [t \in Tags |-> IF t >= setup.names[n] THEN tags[t]
                  ELSE [name |-> n, layout |-> default, loaded |-> <<>>]]
Listed(n) == {t \in Tags : t < setup.names[n]}

\* lib_create_tags: load_tags goes through the list of the options, and if they
\* are those of a layout of a listed tag, it is freed on the way.
SetNames ==
  /\ Ready("names")
  /\ IF opt = Freed THEN Ends("options_freed")
     ELSE IF opt # OfDefault /\ opt[1] \in Listed(Arg) THEN Ends("names_freed")
     ELSE /\ opts' = IF opt = OfDefault THEN Changed(opts, "names", Arg) ELSE opts
          /\ tags' = [t \in Tags |-> IF opt # OfDefault /\ t = opt[1]
               THEN [tags[t] EXCEPT !.loaded = ChangedIn(@, opt[2], "names", Arg)]
               ELSE Renamed(Arg)[t]]
          /\ RemoveLayouts(Listed(Arg), Done)
          /\ UNCHANGED <<setup, default, shown, listeners, prohibited, error_file, fault>>

\* lib_set_default_layout
SetDefaultLayout ==
  /\ Ready("default_layout")
  /\ default' = Arg
  /\ stack' = Done
  /\ UNCHANGED <<setup, opts, tags, shown, opt, listeners, prohibited, error_file, fault>>

\* lib_add_listener
AddListener ==
  /\ Ready("listen")
  /\ listeners' = Append(listeners, Arg)
  /\ stack' = Done
  /\ UNCHANGED <<setup, opts, default, tags, shown, opt, prohibited, error_file, fault>>

-----------------------------------------------------------------------------
(* Errors, the config file and its reload                                    *)

\* load_default_lua_config up to its arrange(): only the tags that it lists get
\* its layout, but no tag keeps a loaded one.
DefaultOptions(o) == [Reset(o) EXCEPT !.names = DefaultNames]
LoadDefaults(calls) ==
  /\ opts' = DefaultOptions(opts)
  /\ default' = 0
  /\ tags' = [t \in Tags |-> [Renamed(DefaultNames)[t] EXCEPT !.loaded = <<>>,
                !.layout = IF t \in Listed(DefaultNames) THEN 0 ELSE @]]
  /\ RemoveLayouts(Tags, <<Core(<< <<"focus", shown>> >>)>> \o calls)

\* A script ends with an error: lua_call_safe and load_file call handle_error,
\* cmd_eval tells the client.
Error ==
  IF Top.kind = "command"
  THEN stack' = Tail(stack) /\ UNCHANGED <<opts, default, tags, opt>>
  ELSE LoadDefaults(Tail(stack))

Fail ==
  /\ Ready("fail")
  /\ Error
  /\ UNCHANGED <<setup, shown, listeners, prohibited, error_file, fault>>

\* lib_reload up to the config file, and what it does after it
RestOfReload ==
  << <<"config", 0>>, <<"default_layouts", 0>>, <<"focus", shown>>, <<"tags", 0>> >>

\* Mutant: the loaded layouts stay
ReloadKeepingLayouts ==
  /\ Ready("reload")
  /\ IF prohibited THEN Error /\ UNCHANGED <<setup, shown, listeners, prohibited, error_file, fault>>
     ELSE /\ prohibited' = TRUE
          /\ opts' = Reset(opts)
          /\ stack' = <<Core(RestOfReload)>> \o Done
          /\ UNCHANGED <<setup, default, tags, shown, opt, listeners, error_file, fault>>

\* lib_reload: an error while it is prohibited; else the error file is opened
\* again, which may fail and makes the next reload abort (close_error_file).
Reload ==
  /\ Ready("reload")
  /\ IF prohibited THEN Error /\ UNCHANGED <<setup, shown, listeners, prohibited, error_file, fault>>
     ELSE IF ~error_file THEN Ends("no_error_file")
     ELSE /\ prohibited' = TRUE
          /\ error_file' \in IF setup.full THEN BOOLEAN ELSE {TRUE}
          /\ opts' = Reset(opts)
          /\ tags' = [t \in Tags |-> [tags[t] EXCEPT !.loaded = <<>>]]
          /\ RemoveLayouts(Tags, <<Core(RestOfReload)>> \o Done)
          /\ UNCHANGED <<setup, default, shown, listeners, fault>>

\* Mutant: opt is left as it was
LoadConfigForOldOpt ==
  /\ Ready("config")
  /\ \E c \in setup.configs : stack' = <<Call("config", c)>> \o Done
  /\ UNCHANGED <<setup, opts, default, tags, shown, opt, listeners, prohibited, error_file, fault>>

\* load_config with the file that is found now; without one it is empty
LoadConfig ==
  /\ Ready("config")
  /\ opt' = OfDefault
  /\ \E c \in setup.configs : stack' = <<Call("config", c)>> \o Done
  /\ UNCHANGED <<setup, opts, default, tags, shown, listeners, prohibited, error_file, fault>>

\* set_default_layout for all tags
DefaultLayouts ==
  /\ Ready("default_layouts")
  /\ tags' = [t \in Tags |-> [tags[t] EXCEPT !.layout = default]]
  /\ stack' = Done
  /\ UNCHANGED <<setup, opts, default, shown, opt, listeners, prohibited, error_file, fault>>

\* load_tags in create_monitor, for the names of the options of the default layout
LoadTags ==
  /\ Ready("load_tags")
  /\ tags' = Renamed(opts.names)
  /\ RemoveLayouts(Listed(opts.names), Done)
  /\ UNCHANGED <<setup, opts, default, shown, listeners, prohibited, error_file, fault>>

\* server_allow_reloading_config
Allow ==
  /\ Ready("allow")
  /\ prohibited' = FALSE
  /\ stack' = Done
  /\ UNCHANGED <<setup, opts, default, tags, shown, opt, listeners, error_file, fault>>

-----------------------------------------------------------------------------
(* Who runs scripts                                                          *)

\* execute_binding and its like: a protected call of a script
Run ==
  /\ Ready("run")
  /\ stack' = <<Call("script", setup.scripts[Arg])>> \o Done
  /\ UNCHANGED <<setup, opts, default, tags, shown, opt, listeners, prohibited, error_file, fault>>

\* handle_keyboard_key and process_binding: the bindings of the focused layout;
\* after its function reloading is allowed (execute_binding).
Key ==
  /\ Ready("key")
  /\ LET keys == Head(tags[shown].loaded).options.keys
         i == GetMatchingKeybinding(keys, << <<Arg>> >>)
     IN  stack' = Instead(IF i = 0 THEN <<>> ELSE << <<"run", keys[i].cmd>>, <<"allow", 0>> >>)
  /\ UNCHANGED <<setup, opts, default, tags, shown, opt, listeners, prohibited, error_file, fault>>

\* cmd_eval: opt becomes the focused layout's; execute_command arranges
Eval ==
  /\ Ready("eval")
  /\ opt' = <<shown, Head(tags[shown].loaded).name>>
  /\ stack' = <<Call("command", setup.scripts[Arg])>> \o Done
  /\ UNCHANGED <<setup, opts, default, tags, shown, listeners, prohibited, error_file, fault>>

\* client_handle_set_title, client_handle_set_app_id: the rules of the layout
Title ==
  /\ Ready("title")
  /\ stack' = <<[Core(<< <<"rules", 1>> >>) EXCEPT
                   !.ptr = <<shown, Head(tags[shown].loaded).name>>, !.window = Arg]>> \o Done
  /\ UNCHANGED <<setup, opts, default, tags, shown, opt, listeners, prohibited, error_file, fault>>

\* apply_rules: the loop reads the list before each rule and at the end.
Rules ==
  /\ Ready("rules")
  /\ IF Top.ptr = Freed THEN Ends("rules_freed")
     ELSE LET list == OptionsAt(Top.ptr).rules IN
          /\ stack' = IF Arg > Len(list) THEN Done
                      ELSE IF Top.window \in setup.rules[list[Arg]].matches
                      THEN <<Call("script", setup.scripts[setup.rules[list[Arg]].run])>>
                             \o Instead(<< <<"rules", Arg + 1>> >>)
                      ELSE Instead(<< <<"rules", Arg + 1>> >>)
          /\ UNCHANGED <<setup, opts, default, tags, shown, opt, listeners, prohibited, error_file, fault>>

\* Mutant: the next listener is the same one
EmitAgain ==
  /\ Ready("emit")
  /\ stack' = IF Arg > Len(listeners) THEN Done
              ELSE Instead(<< <<"run", listeners[Arg]>>, <<"emit", Arg>> >>)
  /\ UNCHANGED <<setup, opts, default, tags, shown, opt, listeners, prohibited, error_file, fault>>

\* emit_signal
Emit ==
  /\ Ready("emit")
  /\ stack' = IF Arg > Len(listeners) THEN Done
              ELSE Instead(<< <<"run", listeners[Arg]>>, <<"emit", Arg + 1>> >>)
  /\ UNCHANGED <<setup, opts, default, tags, shown, opt, listeners, prohibited, error_file, fault>>

\* The call at the top has nothing left to do.
Return ==
  /\ Live /\ stack # <<>> /\ Top.todo = <<>>
  /\ stack' = Tail(stack)
  /\ UNCHANGED <<setup, opts, default, tags, shown, opt, listeners, prohibited, error_file, fault>>

Step ==
  \/ Focus \/ Get \/ Placed \/ Load \/ Names \/ Name
  \/ SetOption \/ SetNames \/ SetDefaultLayout \/ AddListener
  \/ Fail \/ Reload \/ LoadConfig \/ DefaultLayouts \/ LoadTags \/ Allow
  \/ Run \/ Key \/ Eval \/ Title \/ Rules \/ Emit \/ Return

-----------------------------------------------------------------------------
(* What happens to the program                                               *)

Idle == Live /\ stack = <<>>
Calls(steps) ==
  /\ Idle /\ Len(listeners) <= MaxListeners
  /\ stack' = <<Core(steps)>>
  /\ UNCHANGED <<setup, opts, default, tags, opt, listeners, prohibited, error_file, fault>>

Press(k) == Calls(<< <<"get", shown>>, <<"key", k>> >>) /\ UNCHANGED shown
Command(s) ==
  Calls(<< <<"get", shown>>, <<"eval", s>>, <<"focus", shown>> >>) /\ UNCHANGED shown
Titled(w) == Calls(<< <<"get", shown>>, <<"title", w>> >>) /\ UNCHANGED shown
Signal == Calls(<< <<"emit", 1>> >>) /\ UNCHANGED shown
View(t) == shown' = t /\ Calls(<< <<"focus", t>> >>)

\* Nothing more happens.
Ended == (~Live \/ (stack = <<>> /\ Len(listeners) > MaxListeners)) /\ UNCHANGED vars

\* init_server has made the options of the default layout and prohibited to reload;
\* create_monitor goes on for the first output.
Init ==
  /\ setup \in Setups
  /\ opts = Created
  /\ default = FirstLayout
  /\ tags = [t \in Tags |-> [name |-> 0, layout |-> FirstLayout, loaded |-> <<>>]]
  /\ shown = 0
  /\ opt = OfDefault
  /\ listeners = <<>>
  /\ prohibited = TRUE
  /\ error_file \in IF setup.full THEN BOOLEAN ELSE {TRUE}
  /\ stack = <<Core(<< <<"config", 0>>, <<"load_tags", 0>>, <<"allow", 0>>,
                       <<"default_layouts", 0>>, <<"focus", 0>> >>)>>
  /\ fault = "none"

Next ==
  \/ Step
  \/ \E k \in setup.keys : Press(k)
  \/ \E s \in setup.commands : Command(s)
  \/ \E i \in DOMAIN setup.rules : \E w \in setup.rules[i].matches : Titled(w)
  \/ Signal
  \/ \E t \in Tags : View(t)
  \/ Ended

\* The core goes on with what it does; nobody has to give it more to do.
Spec == Init /\ [][Next]_vars /\ WF_vars(Step)

-----------------------------------------------------------------------------
(* What holds                                                                *)

\* Types; no tag has a layout twice, and a pointer that is not freed points to
\* options.
TypeOK ==
  /\ setup \in Setups /\ shown \in Tags
  /\ default \in DOMAIN setup.files
  /\ \A t \in Tags : /\ tags[t].layout \in DOMAIN setup.files
                     /\ tags[t].name \in DOMAIN setup.names
                     /\ IsInjective([i \in DOMAIN tags[t].loaded |-> tags[t].loaded[i].name])
  /\ ToSet(listeners) \subseteq DOMAIN setup.scripts
  /\ prohibited \in BOOLEAN /\ error_file \in BOOLEAN
  /\ \A p \in {opt} \cup {stack[i].ptr : i \in DOMAIN stack} :
       p \in {OfDefault, Freed} \/ \E lt \in ToSet(tags[p[1]].loaded) : lt.name = p[2]
  /\ fault \in {"none", "position", "options_freed", "names_freed", "rules_freed", "no_error_file"}

Ops(script) == {script[i][1] : i \in DOMAIN script}
InScripts == UNION {Ops(setup.scripts[i]) : i \in DOMAIN setup.scripts}
InFiles == UNION {Ops(setup.files[i]) : i \in DOMAIN setup.files}
InRules == UNION {Ops(setup.scripts[setup.rules[i].run]) : i \in DOMAIN setup.rules}

\* No config file loads a layout, which turns opt to that layout.
Plain == \A c \in setup.configs : "load" \notin Ops(c)

\* What a config file says, read on its own, but for the position functions,
\* which the next file inherits (options_reset).
SaidBy(c) == Copied(FoldLeft(LAMBDA o, s : Changed(o, s[1], s[2]), Created, c))

\* When no script runs, the options are all those of one config file that ran to
\* its end, or all the built-in ones: a reload leaves nothing of the file of before,
\* and a file or a function that fails nothing of what it had set (lib_reload,
\* load_default_lua_config).
ConfigurationIsWhole ==
  Idle /\ Plain =>
    Copied(opts) \in {SaidBy(c) : c \in {c \in setup.configs : Ops(c) \cap {"fail", "reload"} = {}}}
                     \cup {DefaultOptions(Created)}

\* The options of the loaded layouts, which the keys, the rules and the borders
\* are taken from, are those of the configuration, unless a layout file or a
\* function sets them: no layout survives a reload or the fall back to the defaults
\* with the options of before (copy_options, tags_remove_loaded_layouts).
CopiesAgree ==
  Idle /\ Plain =>
    \A t \in Tags : \A lt \in ToSet(tags[t].loaded) :
      \A f \in {<<"gap", "gap">>, <<"mod", "mod">>, <<"names", "names">>,
                <<"rule", "rules">>, <<"bind", "keys">>} :
        f[1] \notin InScripts \cup InFiles => lt.options[f[2]] = opts[f[2]]

\* The config file never runs within a run of it, whatever it calls and whatever
\* that calls (server_prohibit_reloading_config).
OneConfigAtATime == Cardinality({i \in DOMAIN stack : stack[i].kind = "config"}) <= 1

\* The configuration is that of one file, run once (lib_reload).
ConfigurationSound == ConfigurationIsWhole /\ OneConfigAtATime

\* The files of the layouts and the functions of the rules neither fail nor reload,
\* and tags are only named in config files, which then load no layout.
Tame ==
  /\ "names" \notin InScripts \cup InFiles /\ (InFiles \cup InRules) \cap {"fail", "reload"} = {}
  /\ \A c \in setup.configs : ~({"load", "names"} \subseteq Ops(c))

\* Then scripts use no options, and the core no list and no position, that the
\* removal of the layouts has taken away, although all other scripts may fail or
\* reload at any place (apply_rules, tag_load_layout, lib_create_tags).
NothingFreedIsUsed == Tame => fault \in {"none", "no_error_file"}

\* What the core and the scripts refer to is there when they use it.
PointersSound == TypeOK /\ NothingFreedIsUsed

\* Every call of a script returns, whatever the scripts call: layouts that load
\* each other, files that reload, functions that fail within functions.
EveryCallReturns == []<>(stack = <<>> \/ ~Live)
=============================================================================
