-------------------------- MODULE MCConfiguration --------------------------
(* Two tags, two keys, two lists of names and short scripts. *)
EXTENDS Configuration

MCDefaultKeys == << <<2, 2>>, <<1, 1>> >>
MCNames == 0 :> 0 @@ 1 :> 2 @@ 2 :> 1

\* Scripts 1 to 3 are bound to keys or given as commands.
MCBinds == << [key |-> 2, run |-> 3], [key |-> 1, run |-> 3] >>
MCReload == << <<"reload", 0>> >>
MCGap == << <<"gap", 3>> >>

MCFull == << <<"gap", 1>>, <<"mod", 2>>, <<"names", 2>>, <<"rule", 1>>, <<"bind", 1>>,
             <<"default_layout", 2>> >>
MCSetups == {
  \* Config files that set all, fail half way, reload themselves or are empty, and
  \* the disk may be full
  [scripts |-> <<MCReload, MCGap, << <<"gap", 4>>, <<"fail", 0>> >> >>,
   binds |-> MCBinds, rules |-> <<[matches |-> {1}, run |-> 2]>>, names |-> MCNames,
   files |-> 0 :> <<>> @@ 1 :> <<>> @@ 2 :> << <<"gap", 5>> >>,
   configs |-> {<<>>, MCFull, << <<"mod", 1>>, <<"rule", 1>>, <<"entry", 2>>, <<"fail", 0>> >>,
                << <<"bind", 2>>, <<"reload", 0>>, <<"gap", 2>> >>},
   keys |-> {1, 2}, commands |-> {1, 3}, full |-> TRUE],
  \* Layouts that load each other or reload, and listeners that load and fail
  [scripts |-> <<MCReload, << <<"load", 2>> >>, << <<"load", 1>>, <<"fail", 0>> >> >>,
   binds |-> MCBinds, rules |-> <<[matches |-> {1}, run |-> 2]>>, names |-> MCNames,
   files |-> 0 :> <<>> @@ 1 :> << <<"load", 2>> >> @@ 2 :> << <<"load", 1>>, <<"reload", 0>> >>,
   configs |-> {<< <<"names", 1>>, <<"listen", 2>>, <<"listen", 3>>, <<"rule", 1>> >>,
                << <<"load", 2>>, <<"gap", 1>>, <<"bind", 1>> >>},
   keys |-> {1, 2}, commands |-> {1, 2}, full |-> FALSE],
  \* Functions that use what they have taken away
  [scripts |-> <<MCReload, << <<"names", 2>>, <<"gap", 1>> >>, << <<"fail", 0>> >> >>,
   binds |-> MCBinds, names |-> MCNames,
   rules |-> <<[matches |-> {1}, run |-> 3], [matches |-> {2}, run |-> 1]>>,
   files |-> 0 :> <<>> @@ 1 :> <<>> @@ 2 :> << <<"fail", 0>> >>,
   configs |-> {<< <<"rule", 1>>, <<"rule", 2>> >>, << <<"default_layout", 2>>, <<"names", 1>> >>},
   keys |-> {1, 2}, commands |-> {2}, full |-> FALSE],
  \* Listeners that reload, load and fail, and layouts that load each other
  [scripts |-> <<MCReload, << <<"load", 2>> >>, << <<"gap", 4>>, <<"fail", 0>> >> >>,
   binds |-> MCBinds, rules |-> <<[matches |-> {1}, run |-> 2]>>, names |-> MCNames,
   files |-> 0 :> <<>> @@ 1 :> << <<"load", 2>> >> @@ 2 :> << <<"load", 1>> >>,
   configs |-> {<< <<"names", 1>>, <<"listen", 2>>, <<"listen", 1>>, <<"listen", 3>> >>},
   keys |-> {1, 2}, commands |-> {1}, full |-> FALSE] }
=============================================================================
