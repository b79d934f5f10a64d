----------------------------- MODULE MCLayouts -----------------------------
(* Small instances of Layouts for TLC: which layout has the focus, the       *)
(* places in a layout, and files that give commands while they are loaded.   *)
EXTENDS Layouts

CONSTANTS tile, monocle, two_pane

MCRing == <<tile, monocle>>

Plain(data, master, links) == [data |-> data, master |-> master, links |-> links, n_area |-> {}]

\* Two of the layouts link each other, and one of them a third.
Files ==
  tile :> Plain(3, 3, <<two_pane, monocle>>) @@ monocle :> Plain(1, 2, <<>>) @@
  two_pane :> Plain(2, 2, <<tile>>)

\* monocle and tile set n_area.
FilesThatArrange == [Files EXCEPT ![monocle].n_area = {1}, ![tile].n_area = {2}]

NoConfig == [tags |-> FALSE, layout |-> {}, ring |-> {}]
Full == [tags |-> TRUE, layout |-> {two_pane}, ring |-> {<<tile, two_pane, monocle>>}]
OnlyLayout == [tags |-> FALSE, layout |-> {monocle}, ring |-> {}]

MCSetups ==
  {[keys |-> {"load", "look", "view", "reload"}, files |-> f, room |-> 0,
    configs |-> {NoConfig, OnlyLayout}] : f \in {Files, FilesThatArrange}}
  \cup
  {[keys |-> {"ring", "reload"}, files |-> Files, room |-> 0, configs |-> {NoConfig, Full}],
   [keys |-> {"windows", "masters", "data"}, files |-> Files, room |-> 4,
    configs |-> {NoConfig}],
   [keys |-> {"windows", "load", "view"}, files |-> FilesThatArrange, room |-> 2,
    configs |-> {OnlyLayout}]}

MCAreaLimits == {-1, 0, 1, 2}
=============================================================================
