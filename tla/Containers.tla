----------------------------- MODULE Containers -----------------------------
(***************************************************************************)
(* The windows of one output: the lists that every tag keeps of them, the  *)
(* focus stacks, hidden and floating windows and the scratchpad            *)
(* (src/src/container.c, tag.c, tagset.c, scratchpad.c, tile/tileUtils.c). *)
(*                                                                         *)
(* Every tag has two pairs of lists: con_set and focus_set hold all the    *)
(* windows there are, visible_con_set and visible_focus_set the ones that  *)
(* the tag shows.  Commands reorder the small lists and write the order    *)
(* back to the large ones.  Nothing but the handlers keeps the four, the   *)
(* tag of each window, the scratchpad and the keyboard in agreement.       *)
(*                                                                         *)
(* A handler calls functions that read what the one before has written, so *)
(* the state is one record and a function maps a desk to the next one.     *)
(* The event loop runs one handler at a time: a handler is an action.      *)
(***************************************************************************)
EXTENDS WindowLists

CONSTANTS
  Windows,       \* the addresses of containers; a freed one may be used again
  None,          \* the null pointer
  MaxTag,        \* bound: the tags 0..MaxTag exist from the start
  ShownSets,     \* bound: the sets of tags that commands make a tag show
  NewPositions,  \* what the option new_position may return; 0 by default
  Setups         \* what an instance may start with, see desk.setup

ASSUME MaxTagAssumption == MaxTag \in Nat
ASSUME NoneAssumption == None \notin Windows
ASSUME NewPositionsAssumption == NewPositions \subseteq Int
ASSUME SetupsAssumption ==
  Setups \subseteq [keys : SUBSET {"sets", "move", "swap", "order", "float", "drag", "pad"},
                    areas : Nat \ {0}, room : Nat]

INVALID_TAG_ID == -1
Tags == 0..MaxTag

ASSUME ShownSetsAssumption == ShownSets \subseteq SUBSET Tags

VARIABLE desk

(***************************************************************************)
(* desk.created        containers that are allocated                       *)
(* desk.mapped         container->is_on_tile                               *)
(* desk.selected       the tag of the output                               *)
(* desk.tags           tag->tags, the tags whose windows a tag shows       *)
(* desk.on_output      tags with a monitor: tag->m or tag->current_m       *)
(* desk.tag_id         container->tag_id; the sticky tags are always {it}  *)
(* desk.floating       per window, the tags at which its property says so  *)
(* desk.hidden         likewise                                            *)
(* desk.on_scratchpad  container->on_scratchpad                            *)
(* desk.scratchpad     server.scratchpad                                   *)
(* desk.con_set, visible_con_set, focus_set   per tag                      *)
(* desk.visible_focus_set   of the selected tag; the others bring theirs   *)
(*                     up to date whenever they use it                     *)
(* desk.keyboard       the window whose surface has the keyboard           *)
(* desk.grab_c         the window that is dragged with the cursor          *)
(* desk.fault          "none", or the undefined behaviour that was reached *)
(* desk.setup          what never changes: the groups of commands that the *)
(*                     user has keys for, how many windows the layout has  *)
(*                     a place for, and (bound) how many there may be      *)
(***************************************************************************)

Init ==
 \E s \in Setups :
  desk = [setup |-> s,
          created |-> {}, mapped |-> {},
          selected |-> 0, tags |-> [t \in Tags |-> {t}], on_output |-> {0},
          tag_id |-> [w \in Windows |-> 0],
          floating |-> [w \in Windows |-> {}], hidden |-> [w \in Windows |-> {}],
          on_scratchpad |-> {}, scratchpad |-> <<>>,
          con_set |-> [t \in Tags |-> <<>>], visible_con_set |-> [t \in Tags |-> <<>>],
          focus_set |-> [t \in Tags |-> <<>>], visible_focus_set |-> <<>>,
          keyboard |-> None, grab_c |-> None, fault |-> "none"]

-----------------------------------------------------------------------------
(* Questions about a window *)

\* exist_on: the window is on the output and the tag shows it.
ExistsOn(d, t, w) == d.tag_id[w] \in d.on_output /\ d.tag_id[w] \in d.tags[t]

\* container_get_current_tag: whose property of the window counts.
CurrentTag(d, w) == IF ExistsOn(d, d.selected, w) THEN d.selected ELSE d.tag_id[w]

IsFloating(d, w) == CurrentTag(d, w) \in d.floating[w]
GetHidden(d, w)  == CurrentTag(d, w) \in d.hidden[w]

\* container_potentially_viewable_on_monitor
PotentiallyViewable(d, w) ==
  \/ ExistsOn(d, d.selected, w)
  \/ IsFloating(d, w) /\ d.tag_id[w] \in d.tags[d.selected]

\* container_viewable_on_monitor; windows stay within their output.
Viewable(d, w) == PotentiallyViewable(d, w) /\ ~GetHidden(d, w)

First(list) == IF list = <<>> THEN None ELSE list[1]

\* monitor_get_focused_container
Focused(d) == First(d.visible_focus_set)

\* tag_get_tiled_list_copy of the selected tag
TiledList(d) == Members(d.visible_con_set[d.selected], {w \in Windows : ~IsFloating(d, w)})

-----------------------------------------------------------------------------
(* The functions that handlers are made of *)

\* tagset_reload: the selected tag looks up what it shows.
Reload(d, t) ==
  IF t = INVALID_TAG_ID THEN d
  ELSE [d EXCEPT !.visible_con_set[d.selected] =
          Members(d.con_set[d.selected], {w \in Windows : ExistsOn(d, d.selected, w)})]

\* _is_reduced_focus_stack: the windows of focus_set that belong to the reduced
\* stack of a tag
ReducedFocusStack(d, t) ==
  IF t \in d.on_output
  THEN Members(d.focus_set[t], {w \in Windows : Viewable(d, w) \/ ExistsOn(d, t, w)})
  ELSE <<>>

\* update_reduced_focus_stack, for the selected tag
UpdateReducedFocusStack(d) ==
  [d EXCEPT !.visible_focus_set = ReducedFocusStack(d, d.selected)]

\* Mutant: the order stays in the stack of the tag
RepushWithoutWriting(d, w) ==
  [d EXCEPT !.visible_focus_set = <<w>> \o Without(@, w)]

\* tag_repush_on_focus_stack at 0
RepushOnFocusStack(d, w) ==
  LET stack == <<w>> \o Without(d.visible_focus_set, w)
  IN  [d EXCEPT !.visible_focus_set = stack,
                !.focus_set[d.selected] = WriteToParent(@, stack)]

\* focus_client: the keyboard follows the new focus, but only to a window that
\* can be seen.
FocusClient(d, w) ==
  IF w = None \/ Viewable(d, w) THEN [d EXCEPT !.keyboard = w] ELSE d

\* tag_focus_container.  A tag that is not selected focuses the first window of
\* its stack, whose order that does not change.
FocusContainer(d, t, w) ==
  LET e == IF t = d.selected THEN RepushOnFocusStack(d, w) ELSE d
  IN  IF w = None THEN d
      ELSE IF w \notin d.created THEN [d EXCEPT !.fault = "use_after_free"]
      ELSE IF GetHidden(d, w) THEN d
      ELSE FocusClient(e, IF t \in d.on_output THEN Focused(e) ELSE None)

\* tag_focus_most_recent_container; without one, tag_focus_first_container,
\* whose list only Reload brings up to date, for the tag selected by then.
FocusMostRecent(d, t) ==
  LET stack == IF t = d.selected THEN d.visible_focus_set ELSE ReducedFocusStack(d, t)
  IN  IF t = INVALID_TAG_ID THEN d
      ELSE FocusContainer(d, t, First(IF stack = <<>> THEN d.visible_con_set[t] ELSE stack))

\* update_hidden_status_of_containers: the layout has a place for the first
\* tiled windows, the rest are hidden at the selected tag; and floating windows
\* never are (arrange).
UpdateHidden(d) ==
  LET tiled == TiledList(d)
      sel == d.selected
      fits == {tiled[i] : i \in {j \in DOMAIN tiled : j <= d.setup.areas}}
      shown == fits \cup {w \in ToSet(d.con_set[sel]) : IsFloating(d, w)}
  IN  [d EXCEPT !.hidden = [w \in Windows |->
         IF w \in shown THEN @[w] \ {sel}
         ELSE IF w \in ToSet(tiled) THEN @[w] \cup {sel} ELSE @[w]]]

Arrange(d) ==
  LET e == UpdateReducedFocusStack(UpdateHidden(d))
  IN  FocusMostRecent(e, e.selected)

\* container_set_tag_id: what the selected tag shows is looked up again, except
\* when the window comes from the scratchpad.
SetTagId(d, w, t) ==
  Reload([d EXCEPT !.tag_id[w] = t, !.on_output = @ \cup {t}], d.tag_id[w])

RemoveFromScratchpad(d, w) ==
  IF w \in d.on_scratchpad
  THEN [d EXCEPT !.scratchpad = Without(@, w), !.on_scratchpad = @ \ {w}]
  ELSE d

\* tag_write_to_tags and tag_write_to_focus_stacks, for the selected tag
WriteToTags(d) ==
  [d EXCEPT !.con_set[d.selected] = WriteToParent(@, d.visible_con_set[d.selected])]
WriteToFocusStacks(d) ==
  [d EXCEPT !.focus_set[d.selected] = WriteToParent(@, d.visible_focus_set)]

\* container_fix_position; it moves the window in a copy that it throws away.
FixPosition(d, w) ==
  IF d.tag_id[w] \in d.on_output THEN WriteToFocusStacks(WriteToTags(d)) ELSE d

\* container_property_set_floating; a window without a tag has no property.
PropertySetFloating(d, w, floating) ==
  LET at == CurrentTag(d, w)
      away == d.tag_id[w] \notin d.on_output \/ w \in d.on_scratchpad
      moved == IF away THEN SetTagId([d EXCEPT !.floating[w] = @ \ {at}], w, d.selected)
                       ELSE [d EXCEPT !.floating[w] = @ \ {at}]
      e == [d EXCEPT !.floating[w] = @ \cup {at}]
  IN  IF at = INVALID_TAG_ID THEN d
      ELSE IF floating
      THEN [e EXCEPT !.hidden[w] = @ \ {d.selected}]
      ELSE RemoveFromScratchpad(moved, w)

\* container_set_floating; only some callers ask to fix the position.
SetFloating(d, w, fix, floating) ==
  IF IsFloating(d, w) = floating THEN d
  ELSE PropertySetFloating(IF fix THEN FixPosition(d, w) ELSE d, w, floating)

-----------------------------------------------------------------------------
(* Windows come and go.  An action does nothing after undefined behaviour.  *)

Live == desk.fault = "none"

\* create_container, for a new toplevel
Create(w) ==
  /\ Live
  /\ w \notin desk.created /\ Cardinality(desk.created) < desk.setup.room
  /\ desk' = SetTagId([desk EXCEPT !.created = @ \cup {w}], w, desk.selected)

\* add_container_to_tag: the window goes to the selected tag and into the lists
\* of all tags, on top of their focus stacks.
AddContainerToTag(d, w, pos) ==
  LET e == IF d.tag_id[w] = d.selected THEN d ELSE SetTagId(d, w, d.selected)
  IN  UpdateReducedFocusStack(
        [e EXCEPT !.con_set = [t \in Tags |-> ListInsert(@[t], pos, w)],
                  !.visible_con_set[e.selected] = ListInsert(@, pos, w),
                  !.focus_set = [t \in Tags |-> ListInsert(@[t], 0, w)]])

\* map_request; a window that lost its tag to the scratchpad gets into no list.
Map(w) ==
  /\ Live
  /\ w \in desk.created \ desk.mapped
  /\ \E pos \in NewPositions :
       LET tag == desk.tag_id[w]
           d == IF tag = INVALID_TAG_ID THEN desk ELSE AddContainerToTag(desk, w, pos)
       IN  desk' = FocusMostRecent(Arrange([d EXCEPT !.mapped = @ \cup {w}]), tag)

\* Mutant: the scratchpad keeps the window
RemoveFromListsOnly(d, w) ==
  LET without(lists) == [t \in Tags |-> Without(lists[t], w)]
  IN  [d EXCEPT !.mapped = @ \ {w}, !.con_set = without(@), !.focus_set = without(@),
                !.visible_focus_set = Without(@, w),
                !.visible_con_set[d.selected] = Without(@, w)]

\* remove_container_from_tile: out of every list but the visible_con_set of the
\* tags that are not selected.
RemoveFromTile(d, w) ==
  LET e == RemoveFromScratchpad(d, w)
      without(lists) == [t \in Tags |-> Without(lists[t], w)]
  IN  [e EXCEPT
         !.mapped = @ \ {w},
         !.con_set = without(@),
         !.focus_set = without(@),
         !.visible_focus_set = Without(@, w),
         !.visible_con_set[e.selected] =
            IF e.tag_id[w] \in e.on_output THEN Without(@, w) ELSE @]

\* unmap_notify
Unmap(w) ==
  /\ Live
  /\ w \in desk.mapped
  /\ desk' = FocusMostRecent(Arrange(RemoveFromTile(desk, w)), desk.selected)

\* destroy_notify, destroy_container; a surface that is destroyed loses the
\* keyboard.  The next container at the address starts zeroed.
Destroy(w) ==
  /\ Live
  /\ w \in desk.created \ desk.mapped
  /\ desk' = [desk EXCEPT !.created = @ \ {w},
                          !.tag_id[w] = 0, !.floating[w] = {}, !.hidden[w] = {},
                          !.keyboard = IF @ = w THEN None ELSE @,
                          !.grab_c = IF @ = w THEN None ELSE @]

-----------------------------------------------------------------------------
(* Tags *)

\* monitor_set_selected_tag on one output
Select(d, t) == [d EXCEPT !.selected = t, !.on_output = @ \cup {t}]

\* tagset_set_tags, and focus_tagset on one output: the selected tag shows the
\* tags of bits, which are connected to its output.
ShowTags(d, bits) ==
  LET sel == d.selected
      e == [d EXCEPT !.tags[sel] = bits, !.on_output = @ \cup bits]
  IN  FocusMostRecent(Arrange(UpdateReducedFocusStack(Reload(e, sel))), sel)

\* lib_view, lib_view_or_tag, lib_toggle_tag
ViewTag(d, t) == ShowTags(Select(d, t), d.tags[t])

View(t) ==
  /\ Live
  /\ desk' = ViewTag(desk, t)

\* lib_set_tags on the selected tag, lib_toggle_tags, and lib_view_or_tag while
\* its combo is pending
SetTags(bits) ==
  /\ Live
  /\ desk' = ShowTags(desk, bits)

\* move_container_to_tag.  The code repeats the last calls, which changes
\* nothing more.
MoveToTag(w, t) ==
  /\ Live
  /\ w # None
  /\ LET moved == IF desk.tag_id[w] = t THEN desk ELSE SetTagId(desk, w, t)
         old == CurrentTag(moved, w)
         shown == Reload(Arrange(moved), t)
         stacks == IF shown.selected \in {old, t} THEN UpdateReducedFocusStack(shown) ELSE shown
     IN  desk' = FocusMostRecent(FocusMostRecent(stacks, old), t)

\* The tag that t becomes when t1 and t2 change places.
Other(t, t1, t2) == IF t = t1 THEN t2 ELSE IF t = t2 THEN t1 ELSE t

\* tag_swap: the windows of the two tags change places.
SwapWindows(d, t1, t2) ==
  [d EXCEPT !.tag_id = [w \in Windows |->
     IF w \in ToSet(d.con_set[t1]) THEN Other(@[w], t1, t2) ELSE @[w]]]

\* tag_swap_tags_smart: so do the tags wherever they are shown, except that a
\* tag goes on showing itself or not.
SwapBits(d, t1, t2) ==
  [d EXCEPT !.tags = [t \in Tags |->
     {u \in Tags : IF u = t THEN t \in @[t]
                   ELSE Other(u, t1, t2) \in @[Other(t, t1, t2)]}]]

\* lib_tag_swap_smart on the selected tag
SwapSmart(t) ==
  /\ Live
  /\ LET sel == desk.selected
         d == SwapBits(SwapWindows(desk, sel, t), sel, t)
         e == UpdateReducedFocusStack(Arrange(Reload(d, sel)))
     IN  desk' = FocusMostRecent(FocusMostRecent(FocusMostRecent(e, sel), t), sel)

-----------------------------------------------------------------------------
(* Focus and order *)

\* lib_container_focus, and the pointer with sloppy focus, for a window that can
\* be seen
FocusWindow(w) ==
  /\ Live
  /\ w \in desk.mapped /\ Viewable(desk, w)
  /\ desk' = FocusContainer(desk, desk.selected, w)

\* lib_arrange and lib_toggle_view, which first focuses what is focused
ArrangeAgain ==
  /\ Live
  /\ desk' \in {Arrange(desk), Arrange(FocusMostRecent(desk, desk.selected))}

\* focus_on_stack.  When the focused window is not in the list its index is not
\* initialised, and any window of the list may be next.
FocusOnStack(i) ==
  LET list == Members(desk.con_set[desk.selected], {w \in Windows : Viewable(desk, w)})
      starts == IF Contains(list, Focused(desk)) THEN {Position(list, Focused(desk)) - 1}
                ELSE 0..(Len(list) - 1)
  IN  /\ Live
      /\ Focused(desk) # None
      /\ \E start \in starts :
           desk' = FocusContainer(desk, desk.selected,
                                  list[RelativeIndex(start, i, Len(list)) + 1])

HiddenList(d) ==
  Members(d.visible_con_set[d.selected],
          {w \in Windows : PotentiallyViewable(d, w) /\ GetHidden(d, w)})
VisibleList(d) ==
  Members(d.visible_con_set[d.selected], {w \in Windows : Viewable(d, w)})

\* A floating window changes with a hidden one: that one floats instead.
ExchangeFloating(d, sel, con) ==
  IF IsFloating(d, sel)
  THEN SetFloating(SetFloating(d, con, FALSE, TRUE), sel, FALSE, FALSE)
  ELSE d

\* The order of the result is written to the list of the tag, and from there to
\* con_set; then con has the focus.
WriteOrder(d, result, con) ==
  LET sel == d.selected
      e == [d EXCEPT !.visible_con_set[sel] = WriteToParent(@, result)]
  IN  FocusContainer(Arrange(WriteToFocusStacks(WriteToTags(e))), sel, con)

\* Mutant: the focused window goes to the end of the hidden ones, whichever way
\* the hidden window came from
OnHiddenStackAppending(d, i, rotate) ==
  LET hidden == HiddenList(d)
      visible == VisibleList(d)
      sel == Focused(d)
      con == hidden[RelativeIndex(0, i, Len(hidden)) + 1]
  IN  IF sel = None \/ hidden = <<>> \/ ~Contains(visible, sel) THEN d
      ELSE WriteOrder(ExchangeFloating(d, sel, con),
                      ReplaceAt(visible, Position(visible, sel), con)
                        \o Append(Without(hidden, con), sel), con)

\* What focus_on_hidden_stack (rotate) and swap_on_hidden_stack make of the
\* desk: the hidden window at i takes the place of the focused one, which goes
\* to the end of the hidden ones that i comes from or takes the place of the
\* other.
OnHiddenStack(d, i, rotate) ==
  LET hidden == HiddenList(d)
      visible == VisibleList(d)
      sel == Focused(d)
      at == RelativeIndex(0, i, Len(hidden)) + 1
      con == hidden[at]
      e == ExchangeFloating(d, sel, con)
      rest == Without(hidden, con)
      hidden2 == IF ~rotate THEN ReplaceAt(hidden, at, sel)
                 ELSE IF i < 0 THEN <<sel>> \o rest ELSE Append(rest, sel)
  IN  IF sel = None \/ hidden = <<>> THEN d
      ELSE IF ~Contains(visible, sel) THEN e
      ELSE WriteOrder(e, ReplaceAt(visible, Position(visible, sel), con) \o hidden2, con)

FocusOnHiddenStack(i) ==
  /\ Live
  /\ desk' = OnHiddenStack(desk, i, TRUE)

SwapOnHiddenStack(i) ==
  /\ Live
  /\ desk' = OnHiddenStack(desk, i, FALSE)

\* Mutant: con_set does not learn of the order
RepushShownOnly(d, pos) ==
  LET tiled == TiledList(d)
      result == <<tiled[pos]>> \o Without(tiled, tiled[pos])
  IN  IF pos > Len(tiled) THEN d
      ELSE Arrange([d EXCEPT !.visible_con_set[d.selected] = WriteToParent(@, result)])

\* repush, tag_repush_tag: the tiled window at pos goes to the front.
Repush(d, pos) ==
  LET tiled == TiledList(d)
      result == <<tiled[pos]>> \o Without(tiled, tiled[pos])
      e == [d EXCEPT !.visible_con_set[d.selected] = WriteToParent(@, result)]
  IN  IF pos > Len(tiled) THEN d ELSE Arrange(WriteToTags(e))

\* lib_zoom: the focused window becomes the master, or the next one if it is.
Zoom ==
  LET tiled == TiledList(desk)
      sel == Focused(desk)
      d == Arrange(Repush(desk, IF sel = tiled[1] THEN 2 ELSE Position(tiled, sel)))
  IN  /\ Live
      /\ Contains(tiled, sel)
      /\ desk' = FocusContainer(d, d.selected, TiledList(d)[1])

-----------------------------------------------------------------------------
(* Floating windows, dragging, the scratchpad *)

\* lib_container_property_set_floating on the property of the focused window
ToggleFloating ==
  LET sel == Focused(desk)
  IN  /\ Live
      /\ sel # None
      /\ desk' = Arrange(PropertySetFloating(desk, sel, ~IsFloating(desk, sel)))

\* move_resize: the window under the cursor floats from now on.
Grab(w) ==
  /\ Live
  /\ w \in desk.mapped /\ Viewable(desk, w)
  /\ desk' = [Arrange(SetFloating(desk, w, TRUE, TRUE)) EXCEPT !.grab_c = w]

\* move_container, at each motion of the cursor while the button is down
Drag ==
  LET w == desk.grab_c
      d == RemoveFromScratchpad(desk, w)
  IN  /\ Live
      /\ w # None
      /\ desk' = IF IsFloating(d, w) THEN d ELSE Arrange(SetFloating(d, w, TRUE, TRUE))

\* handle_cursor_button: the button is released.
Release ==
  /\ Live
  /\ desk.grab_c # None
  /\ desk' = [desk EXCEPT !.grab_c = None]

\* move_to_scratchpad
ToScratchpad(d, w, pos) ==
  LET tiled == SetFloating(RemoveFromScratchpad(d, w), w, TRUE, FALSE)
      len == Len(tiled.scratchpad)
      at == IF len = 0 THEN 0 ELSE RelativeIndex(0, pos, len + 1)
      e == [tiled EXCEPT !.tag_id[w] = INVALID_TAG_ID,
                         !.on_scratchpad = @ \cup {w},
                         !.scratchpad = ListInsert(@, at, w)]
      tag == IF d.tag_id[w] \in d.on_output THEN d.selected ELSE INVALID_TAG_ID
  IN  FocusMostRecent(Arrange(Reload(e, tag)), tag)

\* lib_move_to_scratchpad, on the focused window
MoveToScratchpad ==
  /\ Live
  /\ Focused(desk) # None
  /\ desk' = ToScratchpad(desk, Focused(desk), 0)

\* Mutant: the window floats before it has a tag to float at
BringTooLate(d, w) ==
  LET e == SetTagId(SetFloating(d, w, TRUE, TRUE), w, d.selected)
  IN  Arrange(FocusContainer(e, e.selected, w))

\* What show_scratchpad does with a window that comes to the selected tag.
Bring(d, w) ==
  LET e == SetFloating(SetTagId(d, w, d.selected), w, TRUE, TRUE)
  IN  Arrange(FocusContainer(e, e.selected, w))

\* hide_container: unless a window of the scratchpad is focused the window is
\* only focused.  The focused window is used without a check.
HideContainer(d, w) ==
  IF Focused(d) = None THEN [d EXCEPT !.fault = "null"]
  ELSE IF Focused(d) \in d.on_scratchpad THEN ToScratchpad(d, w, -1)
  ELSE FocusContainer(d, d.selected, w)

\* show_scratchpad: the first window of the scratchpad comes, or hides again.
ShowScratchpad ==
  LET w == Head(desk.scratchpad)
      sel == desk.selected
  IN  /\ Live
      /\ desk.scratchpad # <<>>
      /\ desk' = CASE GetHidden(desk, w) ->
                        Bring([desk EXCEPT !.hidden[w] = @ \ {sel}], w)
                   [] ~GetHidden(desk, w) /\ desk.tag_id[w] # sel -> Bring(desk, w)
                   [] OTHER -> HideContainer(desk, w)

-----------------------------------------------------------------------------
Bound(group) == group \in desk.setup.keys

Next ==
  \/ \E w \in Windows : Create(w) \/ Map(w) \/ Unmap(w) \/ Destroy(w) \/ FocusWindow(w)
  \/ \E t \in Tags : View(t)
  \/ ArrangeAgain
  \/ Bound("sets") /\ \E bits \in ShownSets : SetTags(bits)
  \/ Bound("move") /\ \E t \in Tags : MoveToTag(Focused(desk), t)
  \/ Bound("swap") /\ \E t \in Tags : SwapSmart(t)
  \/ Bound("order") /\ \E i \in {1, -1} : FocusOnStack(i)
  \/ Bound("order") /\ \E i \in {0, -1} : FocusOnHiddenStack(i) \/ SwapOnHiddenStack(i)
  \/ Bound("order") /\ Zoom
  \/ Bound("float") /\ ToggleFloating
  \/ Bound("drag") /\ (Drag \/ Release \/ \E w \in Windows : Grab(w))
  \/ Bound("pad") /\ (MoveToScratchpad \/ ShowScratchpad)

Spec == Init /\ [][Next]_desk

-----------------------------------------------------------------------------
(* What holds after every handler.  Undefined behaviour ends what can be    *)
(* said, and a tag need not show itself: what then holds is less.          *)

Desks ==
  [setup : Setups, created : SUBSET Windows, mapped : SUBSET Windows,
   selected : Tags, tags : [Tags -> SUBSET Tags], on_output : SUBSET Tags,
   tag_id : [Windows -> Tags \cup {INVALID_TAG_ID}],
   floating : [Windows -> SUBSET Tags], hidden : [Windows -> SUBSET Tags],
   on_scratchpad : SUBSET Windows, scratchpad : Seq(Windows),
   con_set : [Tags -> Seq(Windows)], visible_con_set : [Tags -> Seq(Windows)],
   focus_set : [Tags -> Seq(Windows)], visible_focus_set : Seq(Windows),
   keyboard : Windows \cup {None}, grab_c : Windows \cup {None},
   fault : {"none", "null", "use_after_free"}]

\* Types of the desk; the lists hold no window twice.
TypeOK ==
  /\ desk \in Desks
  /\ desk.mapped \subseteq desk.created
  /\ IsInjective(desk.scratchpad) /\ IsInjective(desk.visible_focus_set)
  /\ \A t \in Tags : /\ IsInjective(desk.con_set[t])
                     /\ IsInjective(desk.visible_con_set[t])
                     /\ IsInjective(desk.focus_set[t])
  /\ {desk.keyboard, desk.grab_c} \subseteq desk.created \cup {None}

\* All tags list the same windows, in con_set as in focus_set, and none that is
\* unmapped: handlers update the lists of every tag or of the selected one, and
\* the orders are written back from lists that hold only some of the windows
\* (DO_ACTION_GLOBALLY, sub_list_write_to_parent_list).
ListsAgree ==
  \A t \in Tags :
    /\ ToSet(desk.con_set[t]) \subseteq desk.mapped
    /\ ToSet(desk.con_set[t]) = ToSet(desk.con_set[0])
    /\ ToSet(desk.focus_set[t]) = ToSet(desk.con_set[0])

Here(t) == {w \in Windows : ExistsOn(desk, t, w)}
ShowsItself == Live /\ desk.selected \in desk.tags[desk.selected]

\* What the selected tag shows is in the order of its con_set, whatever was
\* reordered while other tags were selected; and as long as nothing comes back
\* from the scratchpad it is all that is there (container_set_append,
\* tag_write_to_tags).
ShownInOrder ==
  LET shown == desk.visible_con_set[desk.selected]
      all == desk.con_set[desk.selected]
  IN  /\ Live => shown = Members(all, ToSet(shown))
      /\ ShowsItself /\ ~Bound("pad") => shown = Members(all, Here(desk.selected))

\* The lists can be followed from every tag (src/src/list_sets/list_set.c).
ListsSound == TypeOK /\ ListsAgree /\ ShownInOrder

\* The focus stack that focus follows holds the windows of the selected tag, in
\* the order of its focus_set (update_reduced_focus_stack after every change of
\* a tag_id or of a tag set).  Swapped tags may show one that was never on the
\* output, whose windows can be seen and focused there only while they float.
FocusStackIsWhatIsHere ==
  ShowsItself /\ desk.tags[desk.selected] \subseteq desk.on_output =>
    desk.visible_focus_set = Members(desk.focus_set[desk.selected], Here(desk.selected))

\* The focused window has the keyboard if it can be seen: no handler ends
\* with the two apart (focus_client after every repush).
KeyboardAtFocus ==
  ShowsItself /\ Focused(desk) # None /\ Viewable(desk, Focused(desk)) =>
    desk.keyboard = Focused(desk)

\* Focus is one thing, although a stack, a copy of it and the seat hold it.
FocusSound == FocusStackIsWhatIsHere /\ KeyboardAtFocus

\* The scratchpad and the mark in the container agree, and it holds no window
\* that is unmapped or destroyed (remove_container_from_scratchpad).
ScratchpadAgrees ==
  /\ ToSet(desk.scratchpad) = desk.on_scratchpad
  /\ desk.on_scratchpad \subseteq desk.mapped

\* Viewing another tag and coming back leaves the focus where it was
\* (lib_view; the visits repush windows on shared stacks).  Coming back connects
\* the tags that the tag shows to the output; a tag that never was there brings
\* its windows, and one of them may be the focus then.
ViewAndBackKeepsFocus ==
  ShowsItself /\ desk.tags[desk.selected] \subseteq desk.on_output =>
    \A t \in Tags \ {desk.selected} :
      Focused(ViewTag(ViewTag(desk, t), desk.selected)) = Focused(desk)

\* Bringing the first hidden window to the focused one and then the last one
\* undoes itself (focus_on_hidden_stack).  A tag that does not show itself shows
\* windows whose properties are those of another tag.
HiddenCycleReturns ==
  ShowsItself /\ Focused(desk) # None /\ ~IsFloating(desk, Focused(desk)) =>
    LET d == OnHiddenStack(OnHiddenStack(desk, 0, TRUE), -1, TRUE)
    IN  TiledList(d) = TiledList(desk) /\ Focused(d) = Focused(desk)

\* Commands that undo each other do, in every state (lib_view, lib_focus_on_hidden_stack).
CommandsUndo == ViewAndBackKeepsFocus /\ HiddenCycleReturns

\* Zoom makes the focused window the master, or the one behind the master if
\* that was focused, and focuses the new master if it can (lib_zoom).
ZoomMakesMaster ==
  [][Zoom /\ Len(TiledList(desk)) > 1 =>
       LET tiled == TiledList(desk)
           master == IF Focused(desk) = tiled[1] THEN tiled[2] ELSE Focused(desk)
       IN  TiledList(desk')[1] = master /\ Focused(desk') = master]_desk

\* Whatever state a window of the scratchpad is in, asking for it shows it or
\* puts it away (show_scratchpad), on a tag that shows itself: on another one the
\* window would have to come to a tag that nobody looks at.
ShowScratchpadShows ==
  [][ShowScratchpad /\ ShowsItself =>
       LET w == Head(desk.scratchpad)
       IN  /\ desk'.fault = "none"
           /\ Viewable(desk', w) \/ desk'.tag_id[w] = INVALID_TAG_ID]_desk

\* Commands do what their names say, in every state that they are given in.
CommandsDeliver == ZoomMakesMaster /\ ShowScratchpadShows
=============================================================================
