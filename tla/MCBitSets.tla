----------------------------- MODULE MCBitSets -----------------------------
(* Two sets with bits within and beyond a byte of two bits.                 *)
EXTENDS BitSets

CONSTANTS s1, s2

MCBits == {0, 1, 2}
MCSetups ==
  { [ops |-> {"assign", "and", "or", "xor", "flip"}, owned |-> {}],
    [ops |-> {"assign", "clear", "copy", "mask", "move", "toggle"}, owned |-> {}],
    [ops |-> {"move", "mask", "swap"}, owned |-> {}],
    [ops |-> {"move", "add_sticky"}, owned |-> {}],
    [ops |-> {"move", "reverse"}, owned |-> {}],
    [ops |-> {"newindex", "_and", "_or", "_xor", "_not"}, owned |-> {s1}],
    [ops |-> {"newindex", "meta_and", "meta_or", "meta_xor", "meta_not"}, owned |-> {s1}],
    [ops |-> {"integer"}, owned |-> {s1}] }
=============================================================================
