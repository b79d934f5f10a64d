------------------------------- MODULE Pointer -------------------------------
(***************************************************************************)
(* The pointer: what a motion does, pointer constraints of clients, sloppy *)
(* focus, and the devices of the seat (src/src/cursor.c, seat.c,           *)
(* input_manager.c, keyboard.c).  No window is being dragged here, that is *)
(* in Containers; there are no popups.                                     *)
(***************************************************************************)
EXTENDS LayerShell

\* wlr_pointer_constraints_v1_constraint_for_surface
ConstraintOf(d, c) ==
  LET all == {k \in d.constraints : Constraint[k].surface = c}
  IN  IF all = {} THEN None ELSE CHOOSE k \in all : TRUE

\* cursor_unhide
CursorUnhide(d) == IF d.hides THEN CursorRebase([d EXCEPT !.hides = FALSE]) ELSE d

\* motion_notify: the constraint of the focused window comes into force, though
\* its client is not told.
TakeConstraint(d) ==
  IF d.active_constraint = None /\ Focused(d) # None
  THEN [d EXCEPT !.active_constraint = ConstraintOf(d, Focused(d))] ELSE d

\* wlr_region_confine, with a region without holes: where a pointer that is
\* pushed to q may stop.  One that is outside of the region goes where it likes.
Stops(d, q) ==
  LET con    == ContainerAt(d, d.spot)
      origin == IF con = None THEN [x |-> 0, y |-> 0] ELSE Geom(d, con)
      inside(p) == [x |-> p.x - origin.x, y |-> p.y - origin.y] \in d.confine
  IN  IF d.active_constraint = None \/ ~inside(d.spot) \/ inside(q) THEN {q}
      ELSE {d.spot} \cup {p \in Spots : inside(p)}

\* focus_monitor
FocusMonitor(d, m) == IF m = d.selected THEN d ELSE FocusTagset(d, d.shown[m])

\* pointer_focus; a surface that is not mapped is not found at any point.
PointerFocus(d, c) ==
  CASE c = None \/ (c \in Surfaces /\ c \notin d.mapped) -> [d EXCEPT !.pointer_focus = None]
    [] c # None /\ c = d.pointer_focus -> d
    [] OTHER -> [CursorConstrain(d, None) EXCEPT !.pointer_focus = c]

\* Mutant: the lock is taken after the test that lifts it
LockLast(d, c) ==
  LET locked == c # Focused(d) \/ (d.old_xy_container = c /\ d.xy_container_is_locked)
      e      == [d EXCEPT !.old_xy_container = c, !.xy_container_is_locked = locked]
  IN  IF locked THEN e ELSE FocusContainer(e, SelectedTag(d), c)

\* focus_under_cursor, its last part: the window under the pointer gets the
\* focus when it was not under it at the last motion.
SloppyFocus(d, c) ==
  LET locked == d.old_xy_container = c /\ (d.xy_container_is_locked \/ c # Focused(d))
      e      == [d EXCEPT !.old_xy_container = c, !.xy_container_is_locked = locked]
  IN  IF locked THEN e ELSE FocusContainer(e, SelectedTag(d), c)

FocusAt(d, c) ==
  IF c # None /\ d.setup.sloppy THEN SloppyFocus(PointerFocus(d, c), c) ELSE PointerFocus(d, c)

UnderCursor(d) == FocusAt(d, ContainerAt(d, d.spot))

\* focus_under_cursor
FocusUnderCursor(d) == UnderCursor(FocusMonitor(d, MonitorAt(d.spot)))

-----------------------------------------------------------------------------
(* The handlers *)

\* handle_motion_relative and handle_motion_absolute, pushed to q
Motion(q) ==
  /\ Runs("pointer")
  /\ \E d \in {TakeConstraint(CursorUnhide(desk))} :
       \E p \in Stops(d, q) : desk' = FocusUnderCursor([d EXCEPT !.spot = p])

\* handle_new_pointer_constraint; wlroots allows one for each surface.
NewConstraint(k) ==
  /\ Runs("constraints")
  /\ k \notin desk.constraints
  /\ ConstraintOf(desk, Constraint[k].surface) = None
  /\ LET d == [desk EXCEPT !.constraints = @ \cup {k}]
     IN  desk' = IF Focused(d) = Constraint[k].surface THEN CursorConstrain(d, k) ELSE d

\* handle_constraint_destroy, when the client is done with it
DestroyConstraint(k) ==
  /\ Runs("constraints")
  /\ k \in desk.constraints
  /\ desk' = ConstraintDestroyed(desk, k)

\* handle_pointer_constraint_set_region: whichever constraint it is
SetRegion ==
  /\ Runs("constraints")
  /\ desk.constraints # {}
  /\ desk' = [desk EXCEPT !.requires_warp = TRUE]

\* handle_constraint_commit
ConstraintCommit ==
  /\ Runs("constraints")
  /\ desk.constraint_commit # None
  /\ desk' = IF desk.active_constraint = None THEN [desk EXCEPT !.fault = "null"]
             ELSE CheckConstraintRegion(CursorHide(desk))

\* handle_new_input, seat_add_device, seat_configure_device
AddDevice(dev) ==
  /\ Runs("devices")
  /\ dev \notin desk.devices
  /\ desk' = [desk EXCEPT !.devices = @ \cup {dev},
                          !.kb = IF DeviceType[dev] = "keyboard" THEN dev ELSE @]

\* handle_device_destroy, seat_remove_device; wlroots forgets the keyboard.
RemoveDevice(dev) ==
  /\ Runs("devices")
  /\ dev \in desk.devices
  /\ desk' = [desk EXCEPT !.devices = @ \ {dev}, !.kb = IF @ = dev THEN None ELSE @]

\* keypressmod, and handle_key_event with a key that has no binding
PressKey(dev) ==
  /\ Runs("devices")
  /\ dev \in desk.devices
  /\ DeviceType[dev] = "keyboard"
  /\ desk' = [desk EXCEPT !.kb = dev]
=============================================================================
