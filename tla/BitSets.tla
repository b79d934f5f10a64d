------------------------------- MODULE BitSets -------------------------------
(***************************************************************************)
(* The bit sets that tags and windows are kept in (src/src/bitset/         *)
(* bitset.c, src/src/lib/lib_bitset.c).  A bit set is a hash table from    *)
(* numbers to booleans with two numbers, low and high, that bound the      *)
(* numbers that are in it: loops run from low to high, so a bound that is  *)
(* too narrow loses members.  Every assignment of a bit searches the       *)
(* bounds anew; removing everything leaves them where they were.           *)
(*                                                                         *)
(* A call is executed turn by turn: a call is a program of loops, each     *)
(* loop assigns one bit of its destination a turn.                         *)
(***************************************************************************)
EXTENDS Integers, FiniteSets, Sequences

CONSTANTS
  Sets,       \* the bit sets of tags, windows and scripts
  tmp,        \* server.tmp_bitset
  local_tmp,  \* server.local_tmp_bitset
  Bits,       \* bound: the bits that calls name
  ByteLen,    \* the bits that reset_all, set_all and not know: 8
  WordLen,    \* the bits of an integer: 64
  NoCall,     \* there is none
  Setups      \* what an instance may start with: [ops, owned]

Ops == {"assign", "newindex", "toggle", "and", "or", "xor", "meta_and", "meta_or",
        "meta_xor", "_and", "_or", "_xor", "flip", "meta_not", "_not", "mask", "move",
        "clear", "reverse", "copy", "swap", "add_sticky", "integer"}

MetaOps == {"meta_and", "meta_or", "meta_xor", "meta_not"}

ASSUME BitsAssumption == Bits \subseteq Nat
ASSUME LengthsAssumption == ByteLen \in Nat /\ WordLen \in Nat
ASSUME TemporariesAssumption == tmp \notin Sets /\ local_tmp \notin Sets /\ tmp # local_tmp
ASSUME SetupsAssumption == Setups \subseteq [ops : SUBSET Ops, owned : SUBSET Sets]

AllSets == Sets \cup {tmp, local_tmp}
Byte == 0..(ByteLen - 1)
Word == 0..(WordLen - 1)

VARIABLES
  setup,    \* the calls of this instance, and which sets have an owner
  bitsets,  \* the struct BitSet of each set
  call,     \* the call that is being executed, or NoCall
  program,  \* the loops that are left of it, the first of which runs
  todo,     \* the bits that the running loop has not assigned yet
  was       \* what was in each set before the call: the call ends in the same
            \* turn of the event loop, nobody sees the sets in between

bitsetVars == <<setup, bitsets, call, program, todo, was>>

\* bytes is split into the numbers that have an entry and those that it holds.
BitSet == [keys : SUBSET Nat, on : SUBSET Nat, low : Nat, high : Nat]

\* bitset_create
Empty == [keys |-> {}, on |-> {}, low |-> 0, high |-> 0]

\* g_hash_table_remove_all
RemovedAll(b) == [b EXCEPT !.keys = {}, !.on = {}]

Smaller(i, j) == IF i < j THEN i ELSE j
Larger(i, j)  == IF i > j THEN i ELSE j
Least(S)      == CHOOSE i \in S : \A j \in S : i <= j
Greatest(S)   == CHOOSE i \in S : \A j \in S : j <= i

-----------------------------------------------------------------------------
(* Assigning one bit *)

\* Mutant: the search for the new high starts at the bit and not at the high.
NewHighFromIndex(b, index) ==
  LET found == {i \in b.on : b.low <= i /\ i <= index}
  IN  IF found = {} THEN b.low ELSE Greatest(found)

\* bitset_set_new_high
NewHigh(b, index) ==
  LET found == {i \in b.on : b.low <= i /\ i <= Larger(index, b.high)}
  IN  IF found = {} THEN b.low ELSE Greatest(found)

\* bitset_set_new_low
NewLow(b, index) ==
  LET found == {i \in b.on : Smaller(index, b.low) <= i /\ i <= b.high}
  IN  IF found = {} THEN b.high ELSE Least(found)

\* bitset_assign.  A bit that is not in the table stays out of it when it is
\* assigned false.
Assigned(b, index, value) ==
  LET keys == IF value THEN b.keys \cup {index} ELSE b.keys
      on   == IF value THEN b.on \cup {index} ELSE b.on \ {index}
      high == NewHigh([b EXCEPT !.on = on], index)
  IN  IF index \notin keys THEN b
      ELSE [keys |-> keys, on |-> on, high |-> high,
            low |-> NewLow([b EXCEPT !.on = on, !.high = high], index)]

\* Mutant: two sets with the same bounds are taken for equal.
EqualBounds(a, b) == a.low = b.low /\ a.high = b.high

\* bitset_equals
Equals(a, b) ==
  /\ a.low = b.low
  /\ a.high = b.high
  /\ \A i \in a.low..b.high : i \in a.on <=> i \in b.on

-----------------------------------------------------------------------------
(* Loops over bits: [loop, dest, src, bits].  The bits are the ones to go   *)
(* through in flip, the ones to set in mask and integer.                    *)

Loop(name, dest, src, bits) == [loop |-> name, dest |-> dest, src |-> src, bits |-> bits]

\* Mutant: the loop of and, or and xor runs over the bounds of one set.
BitsOfDestination(l) ==
  CASE l.loop \in {"and", "or", "xor"} -> bitsets[l.dest].low..bitsets[l.dest].high
    [] l.loop \in {"copy"}             -> bitsets[l.src].keys
    [] l.loop \in {"clear", "create"}  -> {}
    [] l.loop = "mask"                 -> Byte
    [] l.loop = "integer"              -> Word
    [] OTHER                           -> l.bits

\* The bits a loop goes through: bit_wise_operation, bitset_assign_bitset,
\* bitset_set_all_to_mask, bitset_from_value, bitset_flip, bitset_reverse.
BitsOf(l) ==
  CASE l.loop \in {"and", "or", "xor"} ->
         Smaller(bitsets[l.dest].low, bitsets[l.src].low)
           ..Larger(bitsets[l.dest].high, bitsets[l.src].high)
    [] l.loop \in {"copy"}             -> bitsets[l.src].keys
    [] l.loop \in {"clear", "create"}  -> {}
    [] l.loop = "mask"                 -> Byte
    [] l.loop = "integer"              -> Word
    [] OTHER                           -> l.bits

\* The set before the first turn of a loop.
Prepared(l) ==
  CASE l.loop \in {"copy", "clear"} -> RemovedAll(bitsets[l.dest])
    [] l.loop = "create"            -> Empty
    [] OTHER                        -> bitsets[l.dest]

\* What a turn assigns to bit i.  An integer is read from its last bit, and
\* reverse exchanges the ends of 0..end - 1, which are its bits.
Value(l, i) ==
  LET first  == i \in bitsets[l.dest].on
      second == i \in bitsets[l.src].on
  IN  CASE l.loop = "and"     -> first /\ second
        [] l.loop = "or"      -> first \/ second
        [] l.loop = "xor"     -> first # second
        [] l.loop = "copy"    -> second
        [] l.loop = "flip"    -> ~first
        [] l.loop = "set"     -> TRUE
        [] l.loop = "reset"   -> FALSE
        [] l.loop = "mask"    -> i \in l.bits
        [] l.loop = "integer" -> WordLen - 1 - i \in l.bits
        [] l.loop = "reverse" -> Cardinality(l.bits) - 1 - i \in bitsets[l.src].on
        [] OTHER              -> first

-----------------------------------------------------------------------------
(* The calls *)

\* bitset_assign_bitset; server_bitset_get_tmp_copy when dest is a temporary.
Copy(dest, src) == IF dest = src THEN <<>> ELSE <<Loop("copy", dest, src, {})>>

\* bitset_reverse from 0 to end
BitsetReverse(a, end) == Copy(local_tmp, a) \o <<Loop("reverse", a, local_tmp, 0..(end - 1))>>

\* bitset_swap
Swap(a, b) == Copy(local_tmp, a) \o Copy(a, b) \o Copy(b, local_tmp)

\* lib_container_toggle_add_sticky: the set that the script gives is the one that
\* is changed, and the window gets a copy.
AddSticky(given, sticky) == <<Loop("xor", given, sticky, {})>> \o Copy(sticky, given)

\* bitset_assign
AssignOne(a, c) == <<Loop(IF c.value THEN "set" ELSE "reset", a, a, {c.bit})>>

\* call_bitset_func: the method works on a temporary.  A tag is given what it
\* made by tagset_set_tags, a window by client_setsticky; for a set that belongs
\* to nobody it is forgotten.
CallBitsetFunc(self, owned, loops) ==
  Copy(tmp, self) \o loops \o (IF owned THEN Copy(self, tmp) ELSE <<>>)

\* lib_bitset_meta_*: a new set.
Meta(c, loops) == <<Loop("create", c.dest, c.dest, {})>> \o Copy(c.dest, c.left) \o loops

Operator(op) ==
  CASE op \in {"and", "meta_and", "_and"} -> "and"
    [] op \in {"or", "meta_or", "_or"}    -> "or"
    [] op \in {"xor", "meta_xor", "_xor"} -> "xor"

ProgramOf(c) ==
  CASE c.op = "assign"   -> AssignOne(c.left, c)
    [] c.op = "newindex" -> CallBitsetFunc(c.left, c.owned, AssignOne(tmp, c))
    [] c.op = "toggle"   -> <<Loop("keep", c.left, c.left, {c.bit})>>
    [] c.op \in {"and", "or", "xor"} -> <<Loop(c.op, c.left, c.right, {})>>
    [] c.op \in {"_and", "_or", "_xor"} ->
         CallBitsetFunc(c.left, c.owned, <<Loop(Operator(c.op), tmp, c.right, {})>>)
    [] c.op \in {"meta_and", "meta_or", "meta_xor"} ->
         Meta(c, <<Loop(Operator(c.op), c.dest, c.right, {})>>)
    [] c.op = "flip"     -> <<Loop("flip", c.left, c.left, Byte)>>
    [] c.op = "_not"     -> CallBitsetFunc(c.left, c.owned, <<Loop("flip", tmp, tmp, Byte)>>)
    [] c.op = "meta_not" -> Meta(c, <<Loop("flip", c.dest, c.dest, Byte)>>)
    [] c.op = "mask"     -> <<Loop("mask", c.left, c.left, c.bits)>>
    [] c.op = "move"     -> <<Loop("mask", c.left, c.left, {}),
                              Loop("set", c.left, c.left, {c.bit})>>
    [] c.op = "clear"    -> <<Loop("clear", c.left, c.left, {})>>
    [] c.op = "reverse"  -> BitsetReverse(c.left, c.bit)
    [] c.op = "copy"     -> Copy(c.left, c.right)
    [] c.op = "swap"     -> Swap(c.left, c.right)
    [] c.op = "add_sticky" -> AddSticky(c.left, c.right)
    [] c.op = "integer"  -> <<Loop("create", c.dest, c.dest, {}),
                              Loop("integer", c.dest, c.dest, c.bits)>>
                            \o BitsetReverse(c.dest, WordLen)

NewCall(op, owned, dest, left, right, bit, value, bits) ==
  [op |-> op, owned |-> owned, dest |-> dest, left |-> left, right |-> right,
   bit |-> bit, value |-> value, bits |-> bits]

\* The calls of an operation, with what it takes.
CallsOf(op, owned) ==
  LET c(dest, left, right) == NewCall(op, owned, dest, left, right, 0, FALSE, {})
      b(a, bit, value)     == NewCall(op, owned, a, a, a, bit, value, {})
      w(a, bits)           == NewCall(op, owned, a, a, a, 0, FALSE, bits)
  IN  CASE op \in {"assign", "newindex"} -> {b(a, i, v) : a \in Sets, i \in Bits, v \in BOOLEAN}
        [] op \in {"toggle", "move"} -> {b(a, i, FALSE) : a \in Sets, i \in Bits}
        [] op = "reverse" -> {b(a, i + 1, FALSE) : a \in Sets, i \in Bits}
        [] op \in {"and", "or", "xor", "_and", "_or", "_xor", "copy", "swap", "add_sticky"} ->
             {c(l, l, r) : l \in Sets, r \in Sets}
        [] op \in {"flip", "_not", "clear"} -> {c(a, a, a) : a \in Sets}
        [] op = "mask" -> {w(a, m) : a \in Sets, m \in {{}, Byte}}
        [] op \in {"meta_and", "meta_or", "meta_xor"} -> {c(d, l, r) : d, l, r \in Sets}
        [] op = "meta_not" -> {c(d, l, l) : d, l \in Sets}
        [] op = "integer"  -> {w(a, m) : a \in Sets, m \in SUBSET Word}

AllCalls == UNION {CallsOf(op, owned) : op \in Ops, owned \in BOOLEAN}

\* The new set of a meta method has no owner and is none of its operands.
Calls ==
  {c \in AllCalls :
     /\ c.op \in setup.ops
     /\ c.owned = (c.left \in setup.owned)
     /\ c.op \in MetaOps => c.dest \notin setup.owned \cup {c.left, c.right}
     /\ c.op = "integer" => ~c.owned}

Members == [a \in Sets |-> bitsets[a].on]

BitSetsInit ==
  /\ setup \in Setups
  /\ bitsets = [a \in AllSets |-> Empty]
  /\ call = NoCall
  /\ program = <<>>
  /\ todo = {}
  /\ was = Members

\* A call is made, and its first loop prepared.
Start(p) ==
  /\ program' = p
  /\ bitsets' = IF p = <<>> THEN bitsets ELSE [bitsets EXCEPT ![p[1].dest] = Prepared(p[1])]
  /\ todo' = IF p = <<>> THEN {} ELSE BitsOf(p[1])

Call ==
  /\ call = NoCall
  /\ call' \in Calls
  /\ Start(ProgramOf(call'))
  /\ UNCHANGED <<setup, was>>

\* One turn of the running loop.  The entries of a hash table come in any order,
\* numbers in theirs.
Turn ==
  /\ todo # {}
  /\ \E i \in (IF program[1].loop = "copy" THEN todo ELSE {Least(todo)}) :
       /\ bitsets' = [bitsets EXCEPT ![program[1].dest] = Assigned(@, i, Value(program[1], i))]
       /\ todo' = todo \ {i}
  /\ UNCHANGED <<setup, call, program, was>>

\* The running loop is done; the next one is prepared.
NextLoop ==
  /\ program # <<>>
  /\ todo = {}
  /\ Start(Tail(program))
  /\ UNCHANGED <<setup, call, was>>

Return ==
  /\ call # NoCall
  /\ program = <<>>
  /\ call' = NoCall
  /\ was' = Members
  /\ UNCHANGED <<setup, bitsets, program, todo>>

BitSetsNext == Call \/ Turn \/ NextLoop \/ Return

BitSetsSpec == BitSetsInit /\ [][BitSetsNext]_bitsetVars

-----------------------------------------------------------------------------
BitSetsTypeOK ==
  /\ setup \in Setups
  /\ \A a \in AllSets : /\ bitsets[a].keys \subseteq Nat /\ bitsets[a].on \subseteq bitsets[a].keys
                        /\ bitsets[a].low \in Nat /\ bitsets[a].high \in Nat
  /\ call \in Calls \cup {NoCall}
  /\ todo \subseteq Nat /\ (program = <<>> => todo = {})
  /\ was \in [Sets -> SUBSET Nat]

Tight(b) ==
  /\ b.low <= b.high
  /\ b.on \subseteq b.low..b.high
  /\ b.on # {} => b.low \in b.on
  /\ b.on # {} => b.high \in b.on \/ b.on = {b.low}

\* No member is outside of low..high, between any two assignments; the bounds
\* are members themselves as soon as there are two of them.  After everything
\* was removed the bounds are stale, and stay so when one bit comes back.
RangeIsTight == \A a \in AllSets : Tight(bitsets[a])

\* Loops find every member between the bounds (bit_wise_operation, bitset_equals).
BoundsSound == BitSetsTypeOK /\ RangeIsTight

\* bitset_equals, which compares the bounds and then up to the high of only one
\* set, is right about every two sets that it calls equal and about every two
\* that have two members.
EqualsIsExact ==
  \A a, b \in AllSets :
    LET S == bitsets[a].on
    IN  /\ Equals(bitsets[a], bitsets[b]) => S = bitsets[b].on
        /\ S = bitsets[b].on /\ (\E i, j \in S : i # j) => Equals(bitsets[a], bitsets[b])

Plain == INSTANCE PlainSets WITH
  Calls <- AllCalls, sets <- was

\* Every call, through the loops over stale bounds, the shared temporaries and
\* the orders of hash tables, ends with what PlainSets gives at once.
CallsAreExact == Plain!Spec
=============================================================================
