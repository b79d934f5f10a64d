----------------------------- MODULE MCKeyCombo -----------------------------
(* Small instances of KeyCombo for TLC.                                    *)
EXTENDS KeyCombo

\* Two modifiers and two keys, in the order of strcmp.
S == 1
mod == 2
a == 3
b == 4
MCModifiers == {S, mod}

MCKeys == {<<a>>, <<b>>}
MCButtons == {<<mod, a>>}

\* What scripts bind: chains of one, two and three chords.
MCTexts == { << <<a>> >>, << <<a>>, <<b>> >>, << <<a>>, <<a>>, <<b>> >> }

\* What configuration files bind, in the order they do.
MCConfigs ==
  { <<>>,
    << << << <<a>> >>, "view">>,
       << << <<a>>, <<b>> >>, "reload">>,
       << << <<b>> >>, "view">>,
       << << <<b>>, <<mod, a>> >>, "view">> >>,
    << << << <<mod, a>> >>, "view">>,
       << << <<b>>, <<mod, a>> >>, "view">>,
       << << <<S, mod, a>> >>, "reload">> >> }
=============================================================================
