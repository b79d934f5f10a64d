---------------------------- MODULE WindowLists ----------------------------
(***************************************************************************)
(* The list operations that the window lists of a tag are kept with        *)
(* (src/src/list_sets, src/src/utils/coreUtils.c, src/src/ring_buffer.c).  *)
(* A list of container pointers is a sequence.                             *)
(***************************************************************************)
EXTENDS Integers, FiniteSets, SequencesExt

\* The index, from 1, of an element in a list.
Position(s, e) == CHOOSE i \in DOMAIN s : s[i] = e

\* list_insert: a position past the end appends, a negative one prepends.
ListInsert(s, pos, e) ==
  InsertAt(s, IF pos < 0 THEN 1 ELSE IF pos > Len(s) THEN Len(s) + 1 ELSE pos + 1, e)

\* relative_index_to_absolute_index, from 0; a list without elements has none.
RelativeIndex(i, j, length) == (i + j) % length

\* lists_append_list_under_condition into a cleared list; the places that
\* find_insert_position looks up keep the order of the source.
Members(s, S) ==
  LET upTo[n \in 0..Len(s)] ==
        IF n = 0 THEN <<>>
        ELSE IF s[n] \in S THEN Append(upTo[n - 1], s[n]) ELSE upTo[n - 1]
  IN  upTo[Len(s)]

\* g_ptr_array_remove; no list holds a container twice.
Without(s, e) == Members(s, ToSet(s) \ {e})

\* The elements of the child are put into the places that they have in the
\* parent, in the order of the child; the rest of the parent stays.
WriteToParent(parent, child) ==
  LET shared == ToSet(parent) \cap ToSet(child)
      order == Members(child, shared)
      rank(i) == Len(Members(SubSeq(parent, 1, i), shared))
  IN  [i \in DOMAIN parent |-> IF parent[i] \in shared THEN order[rank(i)] ELSE parent[i]]
=============================================================================
