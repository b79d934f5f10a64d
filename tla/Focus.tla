-------------------------------- MODULE Focus --------------------------------
(***************************************************************************)
(* Who has the focus, the keyboard and the pointer: what the layer shell,  *)
(* the pointer and the seat of the compositor share (src/src/client.c,     *)
(* tag.c, container.c, tile/tileUtils.c, cursor.c).                        *)
(*                                                                         *)
(* The state is one record, and a function maps a desk to the next one,    *)
(* because a handler calls functions that read what the one before wrote.  *)
(* Windows do not come and go here, they stay tiled where they are and     *)
(* every tag shows itself only: Containers and MonitorTags are about that. *)
(***************************************************************************)
EXTENDS WindowLists

CONSTANTS
  Mons,          \* server.mons, a sequence
  MonitorBox,    \* where each of them is in the output layout
  Windows,       \* the mapped windows of the tags
  WindowTag,     \* the tag of each
  WindowBox,     \* its place, relative to the monitor that shows the tag
  Surfaces,      \* addresses of the containers of layer surfaces, used again
  Constraints,   \* pointer constraints that clients may ask for
  Constraint,    \* of each [surface, type, oneshot, region]
  Devices,       \* input devices
  DeviceType,    \* of each
  Spots,         \* bound: the points that the pointer is moved to
  MaxTag,        \* bound: the tags are 0..MaxTag
  Setups,        \* what an instance may start with, see desk.setup
  None           \* the null pointer

Tags     == 0..MaxTag
Monitors == ToSet(Mons)
Edges    == {"top", "bottom", "left", "right"}
Layers   == {"overlay", "top", "bottom", "background"}
Box(x, y, width, height) == [x |-> x, y |-> y, width |-> width, height |-> height]
NoBox    == Box(0, 0, 0, 0)

Points == UNION {[x : b.x..(b.x + b.width - 1), y : b.y..(b.y + b.height - 1)] :
                   b \in {MonitorBox[m] : m \in Monitors}}

ASSUME MonitorsAssumption == Mons # <<>> /\ Cardinality(Monitors) = Len(Mons)
ASSUME WindowsAssumption ==
  WindowTag \in [Windows -> Tags] /\ Windows \cap Surfaces = {} /\ None \notin Windows \cup Surfaces
ASSUME SpotsAssumption == Spots \subseteq Points
ASSUME DevicesAssumption == DeviceType \in [Devices -> {"keyboard", "pointer"}]

VARIABLE desk

(***************************************************************************)
(* desk.setup      what never changes: the groups of events that happen,   *)
(*                 the states that each layer surface may commit, the      *)
(*                 monitors it is on, the tags that commands name, and the *)
(*                 option sloppy_focus                                     *)
(* desk.selected   server.selected_monitor                                 *)
(* desk.shown      the tag of each monitor                                 *)
(* desk.current_m  tag->current_m                                          *)
(* desk.stack      the windows on the focus stack of each tag              *)
(* desk.top_focus  visible_focus_set->focus_stack_layer_top of each tag;   *)
(*                 the stacks of the other layers are not looked at        *)
(* desk.keyboard   who the seat sends keys to                              *)
(*                                                                         *)
(* desk.lists      server.layer_visual_stack_lists                         *)
(* desk.state      the state that each layer surface has committed         *)
(* desk.mapped     surface->mapped                                         *)
(* desk.m          client->m of a layer surface, None when there is none   *)
(* desk.geom       container->global_geom of a layer surface               *)
(* desk.hidden     the tags at which a layer surface is hidden             *)
(* desk.unfocusable  layer surfaces that are not container->focusable      *)
(* desk.bars       tag->visible_bar_edges                                  *)
(* desk.root       m->root->geom, the area that windows are tiled in       *)
(*                                                                         *)
(* desk.spot       where the pointer is                                    *)
(* desk.hides      cursor->hidden                                          *)
(* desk.pointer_focus  the surface that pointer events are sent to         *)
(* desk.old_xy_container, xy_container_is_locked   as in server            *)
(* desk.constraints  the constraints that exist; desk.activated, the ones  *)
(*                 whose clients were told that they have the pointer      *)
(* desk.active_constraint, confine, requires_warp   as in struct cursor    *)
(* desk.constraint_commit  the constraint whose surface it listens to      *)
(*                                                                         *)
(* desk.devices    seat->devices                                           *)
(* desk.kb         the keyboard of the seat, the last one that was used    *)
(* desk.fault      "none", or the undefined behaviour that was reached     *)
(***************************************************************************)

-----------------------------------------------------------------------------
(* Boxes *)

Covers(box, p) ==
  /\ box.x <= p.x /\ p.x < box.x + box.width
  /\ box.y <= p.y /\ p.y < box.y + box.height

\* wlr_box_intersection
Intersects(a, b) ==
  /\ a.width > 0 /\ a.height > 0 /\ b.width > 0 /\ b.height > 0
  /\ a.x < b.x + b.width /\ b.x < a.x + a.width
  /\ a.y < b.y + b.height /\ b.y < a.y + a.height

MonitorAt(p) == CHOOSE m \in Monitors : Covers(MonitorBox[m], p)

-----------------------------------------------------------------------------
(* Questions about a window or a layer surface *)

SelectedTag(d) == d.shown[d.selected]
First(list) == IF list = <<>> THEN None ELSE list[1]

\* container_get_monitor
MonitorOf(d, c) == IF c \in Surfaces THEN d.m[c] ELSE d.current_m[WindowTag[c]]

\* container_get_current_geom
Geom(d, c) ==
  IF c \in Surfaces THEN d.geom[c]
  ELSE LET at == MonitorBox[MonitorOf(d, c)]
       IN  [WindowBox[c] EXCEPT !.x = @ + at.x, !.y = @ + at.y]

\* exist_on: a layer surface is on any tag of its monitor.
ExistsOn(d, m, c) ==
  MonitorOf(d, c) = m /\ m # None /\ (c \in Surfaces \/ WindowTag[c] = d.shown[m])

\* container_get_current_tag and container_get_hidden; only bars hide here.
GetHidden(d, c) == c \in Surfaces /\ d.m[c] # None /\ d.shown[d.m[c]] \in d.hidden[c]

\* tagset_visible_on
VisibleOn(d, m, c) == ExistsOn(d, m, c) /\ ~GetHidden(d, c)

\* container_viewable_on_monitor
Viewable(d, m, c) ==
  /\ ~(ExistsOn(d, d.selected, c) /\ GetHidden(d, c))
  /\ ExistsOn(d, m, c)
  /\ Intersects(Geom(d, c), MonitorBox[m])

\* monitor_get_focused_container
FocusedOn(d, m) == IF m = None THEN None ELSE First(d.top_focus[d.shown[m]] \o d.stack[d.shown[m]])
Focused(d) == FocusedOn(d, d.selected)

\* xy_to_container, in the order of tag_get_complete_stack_copy
ContainerAt(d, p) ==
  LET m == MonitorAt(p)
  IN  First(SelectSeq(d.lists.overlay \o d.lists.top \o d.stack[d.shown[m]]
                        \o d.lists.bottom \o d.lists.background,
                      LAMBDA c : /\ c \notin d.unfocusable
                                 /\ Viewable(d, m, c)
                                 /\ Covers(Geom(d, c), p)))

-----------------------------------------------------------------------------
(* The pointer: constraints, and giving up the focus of the pointer *)

\* cursor_rebase: the pointer has no client until it moves again.
CursorRebase(d) == [d EXCEPT !.pointer_focus = None]

\* cursor_hide
CursorHide(d) == CursorRebase([d EXCEPT !.hides = TRUE])

\* The part of check_constraint_region that moves the pointer: when it is outside
\* of the region it jumps to a point of it, where the x of the window is added to
\* the second coordinate, too.
JumpInto(d, region, at) ==
  LET goals == {p \in Points : [x |-> p.x - at.x, y |-> p.y - at.x] \in region}
  IN  IF [x |-> d.spot.x - at.x, y |-> d.spot.y - at.y] \in region \/ goals = {} THEN d
      ELSE CursorRebase([d EXCEPT !.spot = CHOOSE p \in goals : TRUE])

\* check_constraint_region
CheckConstraintRegion(d) ==
  LET k     == Constraint[d.active_constraint]
      con   == Focused(d)
      warps == d.requires_warp /\ con # None
  IN  [(IF warps THEN JumpInto(d, k.region, Geom(d, con)) ELSE d) EXCEPT
        !.requires_warp = @ /\ ~warps,
        !.confine = IF k.type = "confined" THEN k.region ELSE {}]

\* handle_constraint_destroy, when wlroots frees a constraint
ConstraintDestroyed(d, k) ==
  [d EXCEPT !.constraints = @ \ {k}, !.activated = @ \ {k},
            !.constraint_commit = IF d.active_constraint = k THEN None ELSE @,
            !.active_constraint = IF @ = k THEN None ELSE @]

\* wlr_pointer_constraint_v1_send_deactivated: one that is meant to be used
\* once is destroyed.
SendDeactivated(d, k) ==
  IF Constraint[k].oneshot THEN ConstraintDestroyed(d, k) ELSE [d EXCEPT !.activated = @ \ {k}]

Deactivated(d) ==
  IF d.active_constraint = None THEN d ELSE SendDeactivated(d, d.active_constraint)

InForce(d, k) ==
  IF k = None THEN [d EXCEPT !.active_constraint = None, !.constraint_commit = None]
  ELSE [CheckConstraintRegion([d EXCEPT !.active_constraint = k, !.requires_warp = TRUE,
                                        !.constraint_commit = k])
          EXCEPT !.activated = @ \cup {k}]

\* Mutant: the client that had the pointer is not told
ConstrainSilently(d, k) == IF d.active_constraint = k THEN d ELSE InForce(d, k)

\* cursor_constrain
CursorConstrain(d, k) == IF d.active_constraint = k THEN d ELSE InForce(Deactivated(d), k)

-----------------------------------------------------------------------------
(* The focus *)

\* focus_surface: without a keyboard nothing gets it.
FocusSurface(d, c) == IF d.kb = None THEN d ELSE [d EXCEPT !.keyboard = c]

\* focus_client: the pointer is freed when another surface gets the focus.
GiveKeyboard(d, c) ==
  CASE c = None -> [d EXCEPT !.keyboard = None]
    [] c # None /\ Viewable(d, d.selected, c) -> FocusSurface(d, c)
    [] OTHER -> d

FocusClient(d, old, c) ==
  GiveKeyboard(IF old # None /\ old # c THEN CursorConstrain(d, None) ELSE d, c)

\* tag_repush_on_focus_stack at 0
RepushOnFocusStack(d, t, c) ==
  IF c \in Surfaces
  THEN [d EXCEPT !.top_focus[t] =
          (IF d.state[c].layer = "top" THEN <<c>> ELSE <<>>) \o Remove(@, c)]
  ELSE [d EXCEPT !.stack[t] = <<c>> \o Remove(@, c)]

\* tag_focus_container; the window that was focused before may not be any more.
Refocus(d, old, m) == FocusClient(d, old, FocusedOn(d, m))

FocusContainer(d, t, c) ==
  IF c = None \/ c \in d.unfocusable \/ GetHidden(d, c) THEN d
  ELSE Refocus(RepushOnFocusStack(d, t, c), FocusedOn(d, d.current_m[t]), d.current_m[t])

\* tag_focus_most_recent_container
FocusMostRecent(d, t) == FocusContainer(d, t, First(d.top_focus[t] \o d.stack[t]))

\* Mutant: a layer surface stays on the reduced stack
KeepTopFocus(d, t) == d

\* update_reduced_focus_stack: layer surfaces are on no stack that it reads.
UpdateReducedFocusStack(d, t) == [d EXCEPT !.top_focus[t] = <<>>]

\* arrange, monitor by monitor
Arrange(d) ==
  FoldLeft(LAMBDA e, m : FocusMostRecent(UpdateReducedFocusStack(e, e.shown[m]), e.shown[m]), d, Mons)
=============================================================================
