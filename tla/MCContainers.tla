---------------------------- MODULE MCContainers ----------------------------
(* Small instances of Containers for TLC: groups of commands that meet, on  *)
(* one or two windows and, for the orders of lists, on three.               *)
EXTENDS Containers

MCSetups ==
  {[keys |-> {"sets"},                   areas |-> 1, room |-> 2],
   [keys |-> {"order", "swap"},          areas |-> 1, room |-> 2],
   [keys |-> {"order", "float", "move"}, areas |-> 1, room |-> 2],
   [keys |-> {"move", "pad"},            areas |-> 1, room |-> 2],
   [keys |-> {"sets", "pad"},            areas |-> 1, room |-> 1],
   [keys |-> {"drag"},                   areas |-> 1, room |-> 2],
   [keys |-> {"order"},                  areas |-> 1, room |-> 3],
   [keys |-> {"order"},                  areas |-> 2, room |-> 3]}

MCShownSets == {{}, {0, 1}}

WindowSymmetry == Permutations(Windows)
=============================================================================
