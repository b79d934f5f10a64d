------------------------------- MODULE Frames -------------------------------
(***************************************************************************)
(* Where the windows of a tag are, how large, and which borders are drawn  *)
(* around them, while they are tiled, floated, moved and resized with the  *)
(* pointer (src/src/container.c, tile/tileUtils.c, cursor.c).              *)
(*                                                                         *)
(* A tiled window has a place of the layout, in ten thousandths of the     *)
(* area that bars leave, which single precision turns into pixels; a       *)
(* floating one has a box in pixels, which keeps being bounded by that     *)
(* area.  What is drawn is set by container_update_size only, so whatever  *)
(* changes a geometry, a border or the area has to end there for every     *)
(* window that this concerns.                                              *)
(*                                                                         *)
(* One monitor shows one tag, the layout has a place for every window and  *)
(* does not arrange by focus.  Which of two windows that overlap is above  *)
(* the other is for Containers.                                            *)
(***************************************************************************)
EXTENDS Integers, FiniteSets, Sequences, SequencesExt, SinglePrecision

CONSTANTS
  Windows,   \* toplevels, with borders
  None,      \* the null pointer
  Places,    \* the layout: for n windows the places of n, relative boxes
  Screen,    \* the box of the monitor
  Areas,     \* m->root->geom: the areas that bars may leave
  Spots,     \* bound: the points that the pointer is moved to
  Boxes,     \* bound: the geometries that scripts set
  Ratios,    \* bound: the ratios that scripts set, floats of SinglePrecision
  Setups     \* what an instance starts with, see setup

SCALE == 10000   \* PERCENT_TO_INTEGER_SCALE
MIN_CONTAINER_WIDTH == 30
MIN_CONTAINER_HEIGHT == 30

Box == [x : Int, y : Int, width : Int, height : Int]
Place == [x : Nat, y : Nat, width : Nat, height : Nat]
Edges == {"top", "bottom", "left", "right"}

Point == [x : Int, y : Int]

ASSUME WindowsAssumption == IsFiniteSet(Windows) /\ None \notin Windows
ASSUME BoxesAssumption == Boxes \subseteq Box /\ Areas \subseteq Box /\ Screen \in Box
ASSUME AreasAssumption == \A a \in Areas : a.width > 0 /\ a.height > 0
ASSUME SpotsAssumption == Spots \subseteq Point
ASSUME PlacesAssumption == \A n \in 1..Cardinality(Windows) : Places[n] \in [1..n -> Place]
ASSUME RatiosAssumption == Ratios \subseteq Nat \X (Nat \ {0})
ASSUME SetupsAssumption ==
  \A s \in Setups :
    /\ s.windows \subseteq Windows /\ s.hidden \subseteq Edges /\ s.smart \in BOOLEAN
    /\ {s.tile, s.float, s.inner} \subseteq Nat

VARIABLES
  setup,   \* never changes: the windows that open, the groups of events that happen
           \* (bounds), and the options smart_hidden_edges, hidden_edges, the
           \* border widths tile and float, and the gap inner; an outer gap
           \* shrinks a box that get_nth_geom_in_layout does not look at
  area,    \* m->root->geom
  order,   \* tag->visible_con_set->tiled_containers, floating windows included
  wins,    \* per window its property at the tag: floating, geom (place),
           \* floating_geom (box), border_width (border), and hidden_edges
           \* (edges), ratio and what the scene graph draws (drawn)
  cursor,  \* where the pointer is
  mode,    \* cursor->cursor_mode
  grab,    \* server.grab_c
  offset   \* offsetx and offsety of cursor.c

vars == <<setup, area, order, wins, cursor, mode, grab, offset>>

MIN(a, b) == IF a < b THEN a ELSE b
MAX(a, b) == IF a > b THEN a ELSE b
NoBox == [x |-> 0, y |-> 0, width |-> 0, height |-> 0]

-----------------------------------------------------------------------------
(* Geometry                                                                  *)

\* scale_integer_to_percent, times a width or a height
Scaled(n, len) == Times(Single(n, SCALE), len)

\* get_absolute_box
Absolute(ref, a) ==
  [x |-> PlusTruncated(Scaled(ref.x, a.width), a.x), width |-> Truncated(Scaled(ref.width, a.width)),
   y |-> PlusTruncated(Scaled(ref.y, a.height), a.y), height |-> Truncated(Scaled(ref.height, a.height))]

\* apply_bounds, along one axis
Moved(x, w, from, len) ==
  IF x >= from + len THEN from + len - w ELSE IF x + w <= from THEN from ELSE x

\* Mutant: only what lies on the left of the area is brought back
BoundOnTheLeft(g, a) ==
  LET w == MAX(MIN_CONTAINER_WIDTH, g.width)
      h == MAX(MIN_CONTAINER_HEIGHT, g.height)
  IN  [x |-> IF g.x + w <= a.x THEN a.x ELSE g.x,
       y |-> IF g.y + h <= a.y THEN a.y ELSE g.y, width |-> w, height |-> h]

\* apply_bounds
ApplyBounds(g, a) ==
  LET w == MAX(MIN_CONTAINER_WIDTH, g.width)
      h == MAX(MIN_CONTAINER_HEIGHT, g.height)
  IN  [x |-> Moved(g.x, w, a.x, a.width), y |-> Moved(g.y, h, a.y, a.height),
       width |-> w, height |-> h]

\* container_surround_gaps: half of the gap on each side
Surrounded(g, gap) ==
  LET less(w) == (2 * w - gap) \div 2
  IN  [x |-> g.x + gap \div 2, y |-> g.y + gap \div 2,
       width |-> MAX(1, less(less(g.width))), height |-> MAX(1, less(less(g.height)))]

\* Mutant: the ratio is applied to the width alone
WidenedTo(g, r) ==
  IF r[1] = 0 THEN g ELSE [g EXCEPT !.width = Truncated(Times(Single(r[2], r[1]), g.height))]

\* container_set_tiled_geom: the largest box of this ratio, height by width, in
\* the middle of the place
WithRatio(g, r) ==
  LET h == Truncated(Times(r, g.width))
      w == Truncated(Times(Single(r[2], r[1]), g.height))
      size == IF r[1] = 0 THEN <<g.width, g.height>>
              ELSE IF r[1] <= r[2]
              THEN IF h > g.height THEN <<MIN(w, g.width), g.height>>
                                   ELSE <<g.width, MIN(h, g.height)>>
              ELSE IF w > g.width THEN <<g.width, MIN(h, g.height)>>
                                  ELSE <<MIN(w, g.width), g.height>>
  IN  [x |-> g.x + g.width \div 2 - size[1] \div 2, y |-> g.y + g.height \div 2 - size[2] \div 2,
       width |-> size[1], height |-> size[2]]

\* container_get_current_geom of a window with this state
Current(r, a) == IF r.floating THEN r.box ELSE Absolute(r.place, a)

\* container_get_current_border_geom
BorderGeom(g, d, e) ==
  CASE e = "top"    -> [g EXCEPT !.height = d]
    [] e = "bottom" -> [g EXCEPT !.y = @ + g.height - d, !.height = d]
    [] e = "left"   -> [g EXCEPT !.width = d]
    [] e = "right"  -> [g EXCEPT !.x = @ + g.width - d, !.width = d]

\* container_update_hidden_edges: the edges at the edge of the area
AtEdge(g, a) ==
  {e \in Edges :
     CASE e = "left"   -> g.x = a.x
       [] e = "top"    -> g.y = a.y
       [] e = "right"  -> (g.x + g.width) - (a.x + a.width) \in -2..2
       [] e = "bottom" -> (g.y + g.height) - (a.y + a.height) \in -2..2}

\* container_box_to_content_geometry: where popups of the window are placed
Content(g, d, hidden) ==
  LET at(e) == IF e \in hidden THEN 0 ELSE d
  IN  [x |-> g.x + at("left"), y |-> g.y + at("top"),
       width |-> g.width - at("left") - at("right"), height |-> g.height - at("top") - at("bottom")]

-----------------------------------------------------------------------------
(* One window is drawn                                                       *)

\* container_update_border_visibility: with smart_hidden_edges the edges of the
\* window are left as they are while there are others.
HiddenNow(g, a, n) == IF setup.smart /\ n > 1 THEN {} ELSE AtEdge(g, a) \cap setup.hidden

\* container_update_border_geometry
UpdateBorder(r, g, a, n) ==
  [r EXCEPT !.edges = IF setup.smart /\ n > 1 THEN @ ELSE HiddenNow(g, a, n),
            !.drawn = [box |-> g, borders |-> [e \in Edges |-> BorderGeom(g, r.border, e)],
                       shown |-> Edges \ HiddenNow(g, a, n)]]

\* container_update_size, in the area a with n windows; a change of the hidden
\* edges runs it again, which finds all as it is.
Bounded(r, a) == IF r.floating THEN [r EXCEPT !.box = ApplyBounds(@, a)] ELSE r
UpdateSize(r, a, n) == UpdateBorder(Bounded(r, a), Current(Bounded(r, a), a), a, n)

\* container_property_set_floating
PropertySetFloating(r, f, a, n) ==
  UpdateSize(IF f THEN [r EXCEPT !.floating = TRUE, !.box = Absolute(r.place, a)]
             ELSE [r EXCEPT !.floating = FALSE], a, n)

\* container_set_floating
SetFloating(r, a, n) == IF r.floating THEN r ELSE PropertySetFloating(r, TRUE, a, n)

\* arrange_container, for a place of the layout
Tile(r, place, a, n) ==
  UpdateSize([r EXCEPT !.border = setup.tile,
                       !.place = WithRatio(Surrounded(place, setup.inner \div 2), r.ratio)], a, n)

\* The place of a tiled window of the list, whose tiled windows are counted in its
\* order.
Tiled(ws, list) == {i \in DOMAIN list : ~ws[list[i]].floating}
PlaceOf(ws, list, w) ==
  LET tiled == Tiled(ws, list)
      upTo  == {i \in tiled : \E j \in tiled : i <= j /\ list[j] = w}
  IN  Places[Cardinality(tiled)][Cardinality(upTo)]

\* Mutant: the windows that float are not bounded again
ArrangeTiled(ws, list, a) ==
  [w \in Windows |->
     IF w \notin ToSet(list) \/ ws[w].floating THEN ws[w]
     ELSE Tile(ws[w], PlaceOf(ws, list, w), a, Len(list))]

\* arrange
Arrange(ws, list, a) ==
  [w \in Windows |->
     IF w \notin ToSet(list) THEN ws[w]
     ELSE IF ws[w].floating THEN UpdateSize([ws[w] EXCEPT !.border = setup.float], a, Len(list))
     ELSE Tile(ws[w], PlaceOf(ws, list, w), a, Len(list))]

-----------------------------------------------------------------------------
(* Windows, scripts and bars                                                 *)

Blank == [floating |-> FALSE, place |-> NoBox, box |-> NoBox, border |-> 0, edges |-> {},
          ratio |-> <<0, 1>>,
          drawn |-> [box |-> NoBox, borders |-> [e \in Edges |-> NoBox], shown |-> Edges]]

\* map_request, at the position that the layout gives it
Map(w) ==
  /\ w \notin ToSet(order)
  /\ \E i \in 1..(Len(order) + 1) : order' = InsertAt(order, i, w)
  /\ wins' = Arrange(wins, order', area)
  /\ UNCHANGED <<setup, area, cursor, mode, grab, offset>>

\* unmap_notify and destroy_container
Close(w) ==
  /\ w \in ToSet(order)
  /\ order' = RemoveAt(order, CHOOSE i \in DOMAIN order : order[i] = w)
  /\ wins' = Arrange([wins EXCEPT ![w] = Blank], order', area)
  /\ grab' = IF grab = w THEN None ELSE grab
  /\ UNCHANGED <<setup, area, cursor, mode, offset>>

\* lib_container_property_set_floating
ToggleFloating(w) ==
  /\ w \in ToSet(order)
  /\ wins' = Arrange([wins EXCEPT ![w] = PropertySetFloating(@, ~@.floating, area, Len(order))],
                     order, area)
  /\ UNCHANGED <<setup, area, order, cursor, mode, grab, offset>>

\* lib_container_property_set_geom
SetGeom(w, b) ==
  /\ w \in ToSet(order)
  /\ wins' = Arrange([wins EXCEPT ![w].box = b], order, area)
  /\ UNCHANGED <<setup, area, order, cursor, mode, grab, offset>>

\* lib_container_set_ratio: nothing is arranged.
SetRatio(w, r) ==
  /\ w \in ToSet(order)
  /\ wins' = [wins EXCEPT ![w].ratio = r]
  /\ UNCHANGED <<setup, area, order, cursor, mode, grab, offset>>

\* set_root_geom: a bar takes room or gives it back, and all is arranged.
SetRootGeom(a) ==
  /\ area' = a
  /\ wins' = Arrange(wins, order, a)
  /\ UNCHANGED <<setup, order, cursor, mode, grab, offset>>

-----------------------------------------------------------------------------
(* The pointer                                                               *)

ContainsPoint(b, p) == p.x \in b.x..(b.x + b.width - 1) /\ p.y \in b.y..(b.y + b.height - 1)

\* xy_to_container: a window under the pointer, or none
UnderCursor ==
  LET here == {w \in ToSet(order) : ContainsPoint(Current(wins[w], area), cursor)}
  IN  IF here = {} THEN {None} ELSE here

\* wlr_cursor_warp_closest
Closest(p) ==
  [x |-> MAX(Screen.x, MIN(p.x, Screen.x + Screen.width - 1)),
   y |-> MAX(Screen.y, MIN(p.y, Screen.y + Screen.height - 1))]

\* move_resize: the window floats and is taken at the pointer, or at its corner.
Grab(m) ==
  \E w \in UnderCursor :
    /\ grab' = w
    /\ IF w = None THEN UNCHANGED <<wins, cursor, mode, offset>>
       ELSE LET r == SetFloating(wins[w], area, Len(order)) IN
            /\ mode' = m
            /\ offset' = IF m = "move" THEN [x |-> cursor.x - r.box.x, y |-> cursor.y - r.box.y]
                         ELSE offset
            /\ cursor' = IF m = "move" THEN cursor
                         ELSE Closest([x |-> r.box.x + r.box.width, y |-> r.box.y + r.box.height])
            /\ wins' = Arrange([wins EXCEPT ![w] = r], order, area)
    /\ UNCHANGED <<setup, area, order>>

\* A window that was tiled meanwhile floats again, and the others close up.
Floated(w) ==
  IF wins[w].floating THEN wins
  ELSE Arrange([wins EXCEPT ![w] = SetFloating(@, area, Len(order))], order, area)

\* container_set_floating_geom, container_set_border_width, container_update_size
PutAt(ws, w, g) ==
  [ws EXCEPT ![w] = UpdateSize([@ EXCEPT !.box = g, !.border = setup.float], area, Len(order))]

\* Mutant: the box is that of the window once it floats
MoveContainerOnceFloated(w, p) ==
  PutAt(Floated(w), w, [wins[w].box EXCEPT !.x = p.x - offset.x, !.y = p.y - offset.y])

\* move_container, resize_container: the box is read before the window floats.
MoveContainer(w, p) ==
  PutAt(Floated(w), w, [Current(wins[w], area) EXCEPT !.x = p.x - offset.x, !.y = p.y - offset.y])
ResizeContainer(w, p) ==
  LET g == Current(wins[w], area)
  IN  PutAt(Floated(w), w, [g EXCEPT !.width = p.x - g.x, !.height = p.y - g.y])

\* motion_notify with handle_move_resize
Motion(p) ==
  /\ cursor' = p
  /\ wins' = CASE grab = None \/ mode = "normal" -> wins
               [] grab # None /\ mode = "move"   -> MoveContainer(grab, p)
               [] grab # None /\ mode = "resize" -> ResizeContainer(grab, p)
  /\ UNCHANGED <<setup, area, order, mode, grab, offset>>

\* handle_cursor_button: a button is released.
Release ==
  /\ mode # "normal"
  /\ mode' = "normal"
  /\ UNCHANGED <<setup, area, order, wins, cursor, grab, offset>>

-----------------------------------------------------------------------------
Init ==
  /\ setup \in Setups
  /\ area \in Areas
  /\ order = <<>>
  /\ wins = [w \in Windows |-> Blank]
  /\ cursor \in Spots
  /\ mode = "normal"
  /\ grab = None
  /\ offset = [x |-> 0, y |-> 0]

Shown == ToSet(order)
Happens(event) == event \in setup.events

Next ==
  \/ \E w \in setup.windows : Map(w) \/ Close(w) \/ ToggleFloating(w)
  \/ Happens("geometry") /\ \E w \in Shown, b \in Boxes : SetGeom(w, b)
  \/ Happens("ratio") /\ \E w \in Shown, r \in Ratios : SetRatio(w, r)
  \/ Happens("bars") /\ \E a \in Areas : SetRootGeom(a)
  \/ \E m \in {"move", "resize"} : Happens(m) /\ Grab(m)
  \/ \E p \in Spots : Motion(p)
  \/ Release

Spec == Init /\ [][Next]_vars

-----------------------------------------------------------------------------
(* What holds                                                                *)

Window ==
  [floating : BOOLEAN, place : Place, box : Box, border : Int, edges : SUBSET Edges,
   ratio : Nat \X (Nat \ {0}),
   drawn : [box : Box, borders : [Edges -> Box], shown : SUBSET Edges]]

TypeOK ==
  /\ setup \in Setups /\ area \in Areas
  /\ order \in Seq(Windows) /\ IsInjective(order)
  /\ wins \in [Windows -> Window]
  /\ cursor \in Point /\ offset \in Point
  /\ mode \in {"normal", "move", "resize"}
  /\ grab \in Shown \cup {None}

\* What is drawn of a window is what its geometry, its border and its edges are by
\* now.  Popups lie within the borders that are drawn, unless smart_hidden_edges has
\* left the edges as they were.
Agrees(r, a, n) ==
  LET g == Current(r, a)
      d == IF r.floating THEN setup.float ELSE setup.tile
  IN  /\ r.drawn.box = g
      /\ r.drawn.borders = [e \in Edges |-> BorderGeom(g, d, e)]
      /\ r.drawn.shown = Edges \ HiddenNow(g, a, n)
      /\ ~setup.smart => Content(g, d, r.edges) = Content(g, d, Edges \ r.drawn.shown)

\* Nothing changes a geometry, a border, the number of windows or the area without
\* container_update_size for all the windows that this concerns.
SceneAgrees == \A w \in Shown : Agrees(wins[w], area, Len(order))

\* A floating window reaches into the area that bars leave and has a size that can
\* be grabbed, wherever it is dragged, resized or put and whatever bars come and go
\* (apply_bounds).
Reaches(b, a) ==
  /\ b.width >= MIN_CONTAINER_WIDTH /\ b.height >= MIN_CONTAINER_HEIGHT
  /\ b.x < a.x + a.width /\ a.x < b.x + b.width
  /\ b.y < a.y + a.height /\ a.y < b.y + b.height
FloatingReachable == \A w \in Shown : wins[w].floating => Reaches(wins[w].box, area)

\* The geometries stay boxes, the one that is grabbed is shown, and what floats can
\* be grabbed again (unmap_notify, apply_bounds).
GeometrySound == TypeOK /\ FloatingReachable

\* Two boxes are apart, or overlap by no more than n along x or m along y.
ApartBut(n, m, b, c) ==
  \/ b.x + b.width <= c.x + n \/ c.x + c.width <= b.x + n
  \/ b.y + b.height <= c.y + m \/ c.y + c.height <= b.y + m

\* The places of the layout lie within the area and apart from each other, but for
\* the SLACK that is left where the fractions of a layout become ten thousandths
\* (lua_unbox_layout_geom) and once more in the master area (apply_nmaster_layout),
\* and the gap leaves something of each.  Layouts whose places overlap, as monocle's
\* do, show windows above each other.
SLACK == 2
PlacesFit ==
  \A n \in 1..Cardinality(Windows) : \A i \in 1..n :
    LET p == Places[n][i] IN
    /\ p.x + p.width <= SCALE + SLACK /\ p.y + p.height <= SCALE + SLACK
    /\ \A j \in (1..n) \ {i} : ApartBut(SLACK, SLACK, p, Places[n][j])
    /\ \A s \in Setups : (s.inner \div 2) \div 2 < MIN(p.width, p.height)

\* Monitors are not larger than LONGEST and not farther from the origin than
\* FARTHEST, in pixels, so that single precision is off by less than a pixel.
LONGEST == 4096
FARTHEST == 32768
AreasFit ==
  \A a \in Areas :
    /\ a.width <= LONGEST /\ a.height <= LONGEST
    /\ -FARTHEST <= a.x /\ a.x <= FARTHEST /\ -FARTHEST <= a.y /\ a.y <= FARTHEST

\* On the left of the origin and above it truncation rounds up, by a pixel.
Up(from) == IF from < 0 THEN 1 ELSE 0

\* Tiled windows lie in the area and overlap by one pixel at most, whatever their
\* ratios, the gaps and the rounding (get_absolute_box, container_set_tiled_geom).
\* That pixel is not excluded: of the places 2500 to 5300 and 5300 to 10000 of 100
\* pixels the first ends at 53, and the second starts at 52, to which 0.53f * 100 is
\* truncated.
TiledApart ==
  \A w \in Shown : ~wins[w].floating =>
    LET b == wins[w].drawn.box IN
    /\ area.x <= b.x /\ b.x + b.width <= area.x + area.width + Up(area.x)
    /\ area.y <= b.y /\ b.y + b.height <= area.y + area.height + Up(area.y)
    /\ \A v \in Shown \ {w} :
         ~wins[v].floating => ApartBut(1 + Up(area.x), 1 + Up(area.y), b, wins[v].drawn.box)

\* A window that is moved with the pointer keeps its size, also when it was tiled
\* in between, and one that is resized keeps its upper left corner, unless it would
\* leave the area (move_container, resize_container).
DragIsRigid ==
  [][\A w \in Shown : grab = w /\ grab' = w /\ mode' = mode /\ cursor' # cursor /\ mode # "normal" =>
       LET b == wins[w].drawn.box
           c == wins'[w].drawn.box
       IN  IF mode = "move"
           THEN c.width = MAX(b.width, MIN_CONTAINER_WIDTH)
                /\ c.height = MAX(b.height, MIN_CONTAINER_HEIGHT)
           ELSE Reaches([c EXCEPT !.x = b.x, !.y = b.y], area) => c.x = b.x /\ c.y = b.y]_vars
=============================================================================
