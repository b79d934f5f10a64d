---------------------------- MODULE Keybindings ----------------------------
(***************************************************************************)
(* The list of key bindings (src/src/keybinding.c, src/src/options.c):     *)
(* how the text of a binding is normalised, where it is inserted, and the  *)
(* two binary searches that look for a binding and for a longer one.       *)
(*                                                                         *)
(* The text "mod-a S-b" is a chain of two chords of two keys each, here    *)
(* << <<mod, a>>, <<S, b>> >>.  Keys are numbers in the order of strcmp.   *)
(* The space that separates chords sorts below the dash that separates     *)
(* keys, and both below the letters, so strcmp of two texts compares chord *)
(* by chord and key by key, and a beginning comes before its continuations.*)
(***************************************************************************)
EXTENDS Integers, FiniteSets, SequencesExt

CONSTANT Modifiers  \* the keys that sym_is_modifier accepts

Chord == Seq(Int) \ {<<>>}

\* strcmp of two chords.
ChordLess(a, b) ==
  \/ IsStrictPrefix(a, b)
  \/ \E i \in DOMAIN a \cap DOMAIN b : a[i] < b[i] /\ \A j \in 1..(i - 1) : a[j] = b[j]

\* strcmp of two texts.
TextLess(a, b) ==
  \/ IsStrictPrefix(a, b)
  \/ \E i \in DOMAIN a \cap DOMAIN b :
       ChordLess(a[i], b[i]) /\ \A j \in 1..(i - 1) : a[j] = b[j]

CmpStr(a, b) == IF a = b THEN 0 ELSE IF TextLess(a, b) THEN -1 ELSE 1

-----------------------------------------------------------------------------
(* Normalisation *)

Singles(keys) == [i \in DOMAIN keys |-> <<keys[i]>>]

\* split_string at the dashes: the runs of keys between them.  The last key of a
\* chord and the first of the next are one run, as only a space is between them.
AddChord(runs, chord) ==
  IF runs = <<>> THEN Singles(chord)
  ELSE Front(runs) \o <<Append(Last(runs), chord[1])>> \o Singles(Tail(chord))

SplitAtDashes(text) == FoldLeft(AddChord, <<>>, text)

\* join_string with dashes: a new chord begins within a run of several keys.
AddRun(text, run) ==
  (IF text = <<>> THEN << <<run[1]>> >>
   ELSE Front(text) \o <<Append(Last(text), run[1])>>) \o Singles(Tail(run))

JoinWithDashes(runs) == FoldLeft(AddRun, <<>>, runs)

\* g_ptr_array_sort; runs that are equal cannot be told apart.
InsertRun(sorted, run) ==
  InsertAt(sorted, 1 + Cardinality({j \in DOMAIN sorted : ChordLess(sorted[j], run)}), run)

SortRuns(runs) == FoldLeft(InsertRun, <<>>, runs)

\* sort_keybinding_element: the last run that is no modifier moves to the end,
\* the others are sorted.
SortElement(text) ==
  LET runs == SplitAtDashes(text)
      keys == {i \in DOMAIN runs : runs[i] \notin {<<m>> : m \in Modifiers}}
      last == Max(keys)
  IN  JoinWithDashes(IF keys = {} THEN SortRuns(runs)
                     ELSE Append(SortRuns(RemoveAt(runs, last)), runs[last]))

-----------------------------------------------------------------------------
(* The order of the list, and the order the search for a longer chain uses *)

\* cmp_keybinding_strings: shorter chains first.
CmpKeybindingStrings(a, b) ==
  IF Len(a) < Len(b) THEN -1 ELSE IF Len(a) > Len(b) THEN 1 ELSE CmpStr(a, b)

\* cmp_partly_keybinding_strings: equal when b is a longer chain that begins
\* with the chords of a.
CmpPartlyKeybindingStrings(a, b) ==
  IF Len(a) >= Len(b) THEN 1 ELSE IF IsPrefix(a, b) THEN 0 ELSE -1

-----------------------------------------------------------------------------
(* The list: a sequence of records with a binding and its command.  The     *)
(* searches know the list by cmp, how the key compares with each element.   *)

\* Bindings to commands of C.
BindingTo(C) == [binding : Seq(Chord), cmd : C]

\* Mutant: every binding is added at the end.
LowerBoundAtTheEnd(cmp) == Len(cmp) - 1

\* lower_bound: the last index, counted from 0, whose element is smaller than
\* the key, -1 if there is none.  It lies from s[1] on and below s[2].
LowerBound(cmp) ==
  LET n == Len(cmp)
      low[s \in (-1..n) \X (-1..n)] ==
        LET mid == s[1] + (s[2] - s[1]) \div 2
        IN  IF s[1] >= s[2] - 1 THEN s[1]
            ELSE IF cmp[mid + 1] <= 0 THEN low[<<s[1], mid>>]
            ELSE low[<<mid, s[2]>>]
  IN  low[<<-1, n>>]

\* bsearch of the C library: the position of an element that compares equal, 0
\* if the search meets none.
Bsearch(cmp) ==
  LET n == Len(cmp)
      found[s \in (0..n) \X (0..n)] ==
        LET mid == (s[1] + s[2]) \div 2
            c   == cmp[mid + 1]
        IN  IF s[1] >= s[2] THEN 0
            ELSE IF c < 0 THEN found[<<s[1], mid>>]
            ELSE IF c > 0 THEN found[<<mid + 1, s[2]>>]
            ELSE mid + 1
  IN  found[<<0, n>>]

\* How a key compares with each element of the list.
Compared(combos, list) == [i \in DOMAIN list |-> CmpKeybindingStrings(combos, list[i].binding)]

\* options_add_keybinding
AddKeybinding(list, text, cmd) ==
  LET sorted == SortElement(text)
      lb     == LowerBound(Compared(sorted, list))
      pos    == lb + 2
      same   == lb >= 0 /\ lb + 1 < Len(list) /\ list[pos].binding = sorted
  IN  InsertAt(IF same THEN RemoveAt(list, pos) ELSE list, pos,
               [binding |-> sorted, cmd |-> cmd])

\* get_matching_keybinding: the position of the binding of these chords, or 0.
GetMatchingKeybinding(list, combos) ==
  Bsearch(Compared(combos, list))

\* has_partly_matching_keybinding
HasPartlyMatchingKeybinding(list, combos) ==
  Bsearch([i \in DOMAIN list |-> CmpPartlyKeybindingStrings(combos, list[i].binding)]) # 0

-----------------------------------------------------------------------------
(* What holds of lists that are only made by adding bindings *)

AtMost(a, b) == CmpKeybindingStrings(b, a) # -1

\* The lists in the order of cmp_keybinding_strings; only bindings that are equal
\* may be there twice.
OrderedLists(C) ==
  {list \in Seq(BindingTo(C)) :
     \A i, j \in DOMAIN list : i < j => AtMost(list[i].binding, list[j].binding)}

=============================================================================
