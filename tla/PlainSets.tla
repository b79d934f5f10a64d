------------------------------ MODULE PlainSets ------------------------------
(***************************************************************************)
(* What the bit sets promise those who use them (src/include/bitset/       *)
(* bitset.h, src/man/japokwm-bitset.5.scd): a bit set is a set of numbers, *)
(* and a call does to it, at once, what its name says.  Where the code     *)
(* keeps less than the name says, the promise is what is left.             *)
(***************************************************************************)
EXTENDS Integers

CONSTANTS
  Sets,      \* the bit sets
  Calls,     \* the calls: [op, dest, left, right, bit, value, bits, owned], the
             \* last of which says that left belongs to a tag or a window
  ByteLen,   \* the bits that reset_all, set_all and not know: 8
  NoCall

VARIABLES
  sets,   \* the members of every set
  call    \* the call that is being executed, or NoCall

Byte == 0..(ByteLen - 1)
SymDiff(S, T)    == (S \ T) \cup (T \ S)
Reversed(S, end) == {i \in S : i >= end} \cup {end - 1 - i : i \in S \cap 0..(end - 1)}
AssignBit(S, i, value) == IF value THEN S \cup {i} ELSE S \ {i}

Combined(op, S, T) ==
  CASE op \in {"and", "meta_and", "_and"} -> S \cap T
    [] op \in {"or", "meta_or", "_or"}    -> S \cup T
    [] op \in {"xor", "meta_xor", "_xor", "add_sticky"} -> SymDiff(S, T)

\* What a call gives to its destination: left for most, a new set for the meta
\* methods.  A method of the script API changes the sets of tags and windows;
\* what it does to a set that the script made itself gets lost.
Result(c) ==
  LET S == sets[c.left]
      T == sets[c.right]
  IN  CASE c.op = "assign"     -> AssignBit(S, c.bit, c.value)
        [] c.op = "newindex"   -> IF c.owned THEN AssignBit(S, c.bit, c.value) ELSE S
        [] c.op = "toggle"     -> S
        [] c.op \in {"and", "or", "xor", "meta_and", "meta_or", "meta_xor", "add_sticky"} ->
             Combined(c.op, S, T)
        [] c.op \in {"_and", "_or", "_xor"} -> IF c.owned THEN Combined(c.op, S, T) ELSE S
        [] c.op \in {"flip", "meta_not"} -> SymDiff(S, Byte)
        [] c.op = "_not"       -> IF c.owned THEN SymDiff(S, Byte) ELSE S
        [] c.op = "mask"       -> (S \ Byte) \cup (c.bits \cap Byte)
        [] c.op = "move"       -> (S \ Byte) \cup {c.bit}
        [] c.op = "clear"      -> {}
        [] c.op = "reverse"    -> Reversed(S, c.bit)
        [] c.op \in {"copy", "swap"} -> T
        [] c.op = "integer"    -> c.bits

Init == sets = [a \in Sets |-> {}] /\ call = NoCall

Call == call = NoCall /\ call' \in Calls /\ UNCHANGED sets

Return ==
  /\ call # NoCall
  /\ call' = NoCall
  /\ sets' = [a \in Sets |-> CASE a = call.dest -> Result(call)
                               [] a = call.right /\ call.op = "swap" -> sets[call.left]
                               [] a = call.right /\ call.op = "add_sticky" -> Result(call)
                               [] OTHER -> sets[a]]

Next == Call \/ Return

Spec == Init /\ [][Next]_<<sets, call>>
=============================================================================
