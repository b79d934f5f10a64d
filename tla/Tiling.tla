------------------------------- MODULE Tiling -------------------------------
(***************************************************************************)
(* How a layout divides the tiled windows of a tag among its places        *)
(* (src/src/tile/tileUtils.c).                                             *)
(*                                                                         *)
(* The first n_master windows share the first area of a layout: where they *)
(* go is in the master data, which has a group of n places for n masters.  *)
(* Every other window has an area of its own: the layout data has, for n   *)
(* areas, a table of n places.  Windows are counted from 1, and the        *)
(* settings of a layout are a record                                       *)
(*    n_master   the number of masters that the user wants                 *)
(*    max_area   current_max_area, the most areas; none if negative        *)
(*    data       the length of the layout data                             *)
(*    master     the length of the master data                             *)
(*    places     the length of the table that lua_layout_ref refers to, 0  *)
(*               before there is one                                       *)
(***************************************************************************)
EXTENDS Integers

MIN(a, b) == IF a < b THEN a ELSE b
MAX(a, b) == IF a > b THEN a ELSE b

\* get_slave_container_count
Slaves(s, tiled) == MAX(tiled - s.n_master, 0)

\* get_master_container_count, the n_master_abs of the layout
Masters(s, tiled) == MAX(tiled - Slaves(s, tiled), 0)

\* Mutant: the area of the masters is not counted
AreasWithoutMaster(s, tiled) ==
  LET n == MAX(MIN(s.data, Slaves(s, tiled)), 0)
  IN  IF s.max_area >= 0 THEN MIN(n, s.max_area) ELSE n

\* get_layout_container_area_count, the n_area of the layout
Areas(s, tiled) ==
  LET n == MAX(MIN(s.data, Slaves(s, tiled) + 1), 0)
  IN  IF s.max_area >= 0 THEN MIN(n, s.max_area) ELSE n

\* update_layout_counters: n_tiled, the number of windows that are not hidden
Shown(s, tiled) == Areas(s, tiled) - 1 + Masters(s, tiled)

\* set_layout_ref: a layout without areas keeps the table that it had.
SetLayoutRef(s, tiled) ==
  [s EXCEPT !.places = IF Areas(s, tiled) > 0 THEN Areas(s, tiled) ELSE @]

\* apply_nmaster_layout: the group of the master data that is used
MasterGroup(s, tiled) == MAX(MIN(s.master, MIN(Masters(s, tiled), s.n_master)), 1)

\* get_nth_geom_in_layout: the area of the i-th window and, in the area of the
\* masters, its place there
Place(s, tiled, i) ==
  [area |-> MAX(0, i - s.n_master) + 1,
   master |-> IF i > s.n_master THEN 0 ELSE MIN(i, MasterGroup(s, tiled))]

\* arrange_containers: the places of the windows that are shown
Places(s, tiled) == [i \in 1..Shown(s, tiled) |-> Place(s, tiled, i)]

\* lua_unbox_layout_geom indexes a table with an area that it does not have.
PlaceMissing(s, tiled) ==
  \E i \in 1..Shown(s, tiled) : Place(s, tiled, i).area > s.places
=============================================================================
