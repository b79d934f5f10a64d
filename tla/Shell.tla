-------------------------------- MODULE Shell --------------------------------
(***************************************************************************)
(* Layer surfaces, the pointer and the devices of the seat together: all   *)
(* of them move the focus and the keyboard, and each reads what another    *)
(* has left behind.                                                        *)
(***************************************************************************)
EXTENDS Pointer

Init ==
 \E s \in Setups : \E shown \in {[m \in Monitors |-> Position(Mons, m) - 1]} :
  desk = [setup |-> s,
          selected |-> Mons[1], shown |-> shown,
          current_m |-> [t \in Tags |-> IF t < Len(Mons) THEN Mons[t + 1] ELSE Mons[1]],
          stack |-> [t \in Tags |-> SetToSeq({w \in Windows : WindowTag[w] = t})],
          top_focus |-> [t \in Tags |-> <<>>],
          keyboard |-> First(SetToSeq({w \in Windows : WindowTag[w] = 0})),
          lists |-> [l \in Layers |-> <<>>],
          state |-> [c \in Surfaces |-> BlankState("top")], mapped |-> {},
          m |-> [c \in Surfaces |-> None], geom |-> [c \in Surfaces |-> NoBox],
          hidden |-> [c \in Surfaces |-> {}], unfocusable |-> {},
          bars |-> [t \in Tags |-> Edges], root |-> MonitorBox,
          spot |-> CHOOSE p \in Spots : MonitorAt(p) = Mons[1], hides |-> FALSE,
          pointer_focus |-> None, old_xy_container |-> None, xy_container_is_locked |-> FALSE,
          constraints |-> {}, activated |-> {}, active_constraint |-> None, confine |-> {},
          requires_warp |-> FALSE, constraint_commit |-> None,
          devices |-> Devices,
          kb |-> First(SetToSeq({dev \in Devices : DeviceType[dev] = "keyboard"})),
          fault |-> "none"]

\* The sets of edges that commands name.
EdgeSets == {Edges, {"top"}}

\* A null pointer that is dereferenced ends the program.
Ended == desk.fault # "none" /\ UNCHANGED desk

Next ==
  \/ \E s \in Surfaces :
       \/ \E m \in desk.setup.outputs, st \in desk.setup.states[s] : CreateSurface(s, m, st.layer)
       \/ \E st \in desk.setup.states[s], mapped \in BOOLEAN : CommitSurface(s, st, mapped)
       \/ CloseSurface(s)
  \/ \E t \in desk.setup.tags :
       \/ FocusTag(t)
       \/ \E edges \in EdgeSets : SetBars(t, edges) \/ ToggleBars(t, edges)
  \/ ToggleAllBars
  \/ ArrangeAll
  \/ \E w \in Windows : FocusWindow(w)
  \/ \E q \in Spots : Motion(q)
  \/ \E k \in Constraints : NewConstraint(k) \/ DestroyConstraint(k)
  \/ SetRegion
  \/ ConstraintCommit
  \/ \E dev \in Devices : AddDevice(dev) \/ RemoveDevice(dev) \/ PressKey(dev)
  \/ Ended

vars == <<desk>>
Spec == Init /\ [][Next]_vars

-----------------------------------------------------------------------------
(* Properties *)

\* Every container and constraint that a list or a pointer names is one.
TypeOK ==
  /\ desk.setup \in Setups
  /\ desk.selected \in Monitors
  /\ desk.shown \in [Monitors -> Tags]
  /\ desk.current_m \in [Tags -> Monitors]
  /\ \A t \in Tags : /\ ToSet(desk.stack[t]) = {w \in Windows : WindowTag[w] = t}
                     /\ ToSet(desk.top_focus[t]) \subseteq Surfaces
  /\ desk.keyboard \in Windows \cup Surfaces \cup {None}
  /\ \A l \in Layers : ToSet(desk.lists[l]) \subseteq Surfaces
  /\ desk.state \in [Surfaces -> SurfaceState]
  /\ desk.mapped \subseteq Surfaces
  /\ desk.m \in [Surfaces -> Monitors \cup {None}]
  /\ desk.bars \in [Tags -> SUBSET Edges]
  /\ desk.spot \in Points
  /\ desk.pointer_focus \in Windows \cup Surfaces \cup {None}
  /\ desk.activated \subseteq desk.constraints
  /\ desk.constraints \subseteq Constraints
  /\ {desk.active_constraint, desk.constraint_commit} \subseteq desk.constraints \cup {None}
  /\ desk.kb \in desk.devices \cup {None}
  /\ desk.fault \in {"none", "null"}

\* The exclusive surfaces that a user sees on a monitor
ExclusiveOn(m) == {s \in Surfaces : desk.state[s].zone > 0 /\ VisibleOn(desk, m, s)}

Reserved(m, edge) ==
  MapThenSumSet(LAMBDA s : desk.state[s].zone + desk.state[s].margin,
                {s \in ExclusiveOn(m) : AnchoredTo(desk.state[s].anchor) = edge})

\* The area that windows are tiled in is the monitor less what the exclusive
\* surfaces that are visible on its tag reserve, whatever was committed, closed,
\* toggled or focused in between (arrange_layers after every such change).
RootLeavesBars ==
  \A m \in Monitors :
    LET full == MonitorBox[m]
    IN  desk.root[m] = Box(full.x + Reserved(m, "left"), full.y + Reserved(m, "top"),
                           full.width - Reserved(m, "left") - Reserved(m, "right"),
                           full.height - Reserved(m, "top") - Reserved(m, "bottom"))

\* While there is room, exclusive surfaces of one monitor neither cover each
\* other nor the area of the windows (layer_shell_arrange_container).
BarsUncovered ==
  \A m \in Monitors :
    desk.root[m].width > 0 /\ desk.root[m].height > 0 =>
      \A s \in ExclusiveOn(m) :
        /\ ~Intersects(desk.geom[s], desk.root[m])
        /\ \A r \in ExclusiveOn(m) \ {s} : ~Intersects(desk.geom[s], desk.geom[r])

\* Bars and windows share each monitor, whatever bars do (arrange_layers).
RoomIsShared == RootLeavesBars /\ BarsUncovered

Interactive(d) ==
  {s \in d.mapped : d.state[s].interactive /\ d.state[s].layer \in {"overlay", "top"}}

\* When the last launcher goes away, by unmapping, by a commit that gives up the
\* keyboard or with its client, the focused window of the selected tag has the
\* keyboard again, if the seat has one (unmap_layer_surface, arrange_layers).
KeyboardComesBack ==
  [][/\ Interactive(desk) # {} /\ Interactive(desk') = {}
     /\ desk'.fault = "none" /\ desk'.kb # None
     /\ desk'.stack[SelectedTag(desk')] # <<>>
     => desk'.keyboard = desk'.stack[SelectedTag(desk')][1]]_vars

\* At most one client believes that it has the pointer, the one whose constraint
\* is in force, and the commits that are listened to are that client's
\* (cursor_constrain, handle_constraint_destroy).
ConstraintsAgree ==
  /\ desk.activated \subseteq {desk.active_constraint}
  /\ desk.constraint_commit \in {None, desk.active_constraint}

\* What the cursor refers to is alive and agrees (cursor_constrain).
ConstraintsSound == TypeOK /\ ConstraintsAgree

\* With sloppy focus a motion within the window of the last motion never moves
\* the focus, so that one given by a key stays, and a motion onto another window
\* always puts that window first (focus_under_cursor).
SloppyFollows ==
  [][\A q \in Spots :
       LET c == ContainerAt(desk', desk'.spot)
           t == SelectedTag(desk')
       IN  /\ desk.setup.sloppy
           /\ c \in Windows
           /\ desk.selected = desk'.selected
           /\ desk'.old_xy_container = c
           /\ Motion(q)
           => IF c = desk.old_xy_container /\ c # Focused(desk)
              THEN desk'.stack = desk.stack
              ELSE desk'.stack[t][1] = c]_vars

\* Pointer events never go to a window of a tag that no monitor shows any more
\* (cursor_rebase in focus_tagset).
PointerFocusIsShown ==
  desk.pointer_focus \in Windows =>
    \E m \in Monitors : desk.shown[m] = WindowTag[desk.pointer_focus]
=============================================================================
