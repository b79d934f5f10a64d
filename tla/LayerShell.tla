----------------------------- MODULE LayerShell -----------------------------
(***************************************************************************)
(* Panels, wallpapers, launchers and notifications: surfaces in one of     *)
(* four layers around the windows (src/src/layer_shell.c, root.c, tag.c).  *)
(* Those with an exclusive zone shrink the area that windows are tiled in, *)
(* the ones that are bars can be hidden tag by tag, and an interactive one *)
(* above the windows takes the keyboard.                                   *)
(***************************************************************************)
EXTENDS Focus, FiniteSetsExt

\* What a client commits; its margin is the same on all sides.
SurfaceState == [layer : Layers, anchor : SUBSET Edges, zone : Int, width : Nat, height : Nat,
                 margin : Int, interactive : BOOLEAN]

\* What is known of a surface before its first commit.
BlankState(l) == [layer |-> l, anchor |-> {}, zone |-> 0, width |-> 0, height |-> 0,
                  margin |-> 0, interactive |-> FALSE]

LayersDown == <<"overlay", "top", "bottom", "background">>

Opposite == [top |-> "bottom", bottom |-> "top", left |-> "right", right |-> "left"]

\* The edge that a surface is anchored to, alone or together with both others
\* that meet it.
AnchoredTo(anchor) ==
  LET at == {e \in Edges : anchor = {e} \/ anchor = Edges \ {Opposite[e]}}
  IN  IF at = {} THEN None ELSE CHOOSE e \in at : TRUE

\* layer_shell_is_bar
IsBar(st) == st.zone >= 0 /\ Cardinality(st.anchor) \in {1, 3}

\* bar_get_direction: a bar at the bottom counts as one at the top.
BarDirection(st) == IF AnchoredTo(st.anchor) = "bottom" THEN "top" ELSE AnchoredTo(st.anchor)

-----------------------------------------------------------------------------
(* Where a surface goes *)

\* The division of C
Half(n) == IF n >= 0 THEN n \div 2 ELSE -((-n) \div 2)

\* One axis of the box: from and length of the bounds, the desired size, whether
\* the surface is anchored to the lower and the higher edge, the margin.
Axis(from, length, desired, lower, higher, margin) ==
  LET size == IF (lower \/ higher) /\ desired = 0 THEN length ELSE desired
      at   == CASE lower \/ (higher /\ desired = 0) -> from
                [] higher /\ ~lower /\ desired # 0  -> from + (length - size)
                [] OTHER -> from + (Half(length) - Half(size))
  IN  CASE lower /\ higher -> <<at + margin, size - 2 * margin>>
        [] lower /\ ~higher -> <<at + margin, size>>
        [] higher /\ ~lower -> <<at - margin, size>>
        [] OTHER -> <<at, size>>

Bounds(st, full, usable) == IF st.zone = -1 THEN full ELSE usable

\* layer_shell_arrange_container: the box
SurfaceBox(st, bounds) ==
  LET h == Axis(bounds.x, bounds.width, st.width, "left" \in st.anchor, "right" \in st.anchor, st.margin)
      v == Axis(bounds.y, bounds.height, st.height, "top" \in st.anchor, "bottom" \in st.anchor, st.margin)
  IN  Box(h[1], v[1], h[2], v[2])

\* apply_exclusive
Shrunk(usable, st) ==
  LET by   == st.zone + st.margin
      edge == IF by > 0 THEN AnchoredTo(st.anchor) ELSE None
  IN  CASE edge = "top"    -> [usable EXCEPT !.y = @ + by, !.height = @ - by]
        [] edge = "bottom" -> [usable EXCEPT !.height = @ - by]
        [] edge = "left"   -> [usable EXCEPT !.x = @ + by, !.width = @ - by]
        [] edge = "right"  -> [usable EXCEPT !.width = @ - by]
        [] OTHER -> usable

-----------------------------------------------------------------------------
(* Arranging.  A surface that does not fit is destroyed on the spot, which *)
(* arranges the monitor anew within the arrangement.                       *)

\* remove_in_composed_list
Unlisted(d, s) == [d EXCEPT !.lists = [l \in Layers |-> Remove(@[l], s)]]

\* add_container_to_layer_stack
Listed(d, s) == [d EXCEPT !.lists[d.state[s].layer] = <<s>> \o @]

\* unmap_layer_surface: if it has the focus, it gets it once more.
UnmapLayerSurface(d, s) ==
  LET e == [d EXCEPT !.mapped = @ \ {s}]
  IN  IF s = Focused(d) THEN FocusContainer(e, SelectedTag(e), s) ELSE e

\* arrange_layers at its end: the last one of the list of overlays that wants
\* the keyboard, or else of the top layer, gets it.
FocusInteractive(d) ==
  LET wanting(l) == Reverse(SelectSeq(d.lists[l], LAMBDA s : d.state[s].interactive /\ s \in d.mapped))
      s == First(wanting("overlay") \o wanting("top"))
  IN  CASE s = None -> d
        [] s # None /\ d.kb = None -> [d EXCEPT !.fault = "null"]
        [] OTHER -> [FocusContainer(d, SelectedTag(d), s) EXCEPT !.keyboard = s]

RECURSIVE ArrangeLayers(_, _), ArrangeFrom(_, _, _, _, _), DestroySurface(_, _)

\* A round through the layers has the desk and the area that is still usable.
\* layer_shell_arrange_container: the end of it
Placed(r, s, box) ==
  LET zone == r.desk.state[s].zone
  IN  IF box.width < 0 \/ box.height < 0
      THEN [r EXCEPT !.desk = DestroySurface(@, s)]
      ELSE [desk |-> [r.desk EXCEPT !.geom[s] = box],
            usable |-> IF zone > 0 THEN Shrunk(r.usable, r.desk.state[s]) ELSE r.usable]

ArrangeContainer(r, m, s, exclusive) ==
  LET st == r.desk.state[s]
  IN  IF ~VisibleOn(r.desk, m, s) \/ exclusive # (st.zone > 0) THEN r
      ELSE Placed(r, s, SurfaceBox(st, Bounds(st, MonitorBox[m], r.usable)))

\* arrangelayer, from the i-th surface on; the list may get shorter meanwhile.
ArrangeFrom(r, m, l, i, exclusive) ==
  IF i > Len(r.desk.lists[l]) THEN r
  ELSE ArrangeFrom(ArrangeContainer(r, m, r.desk.lists[l][i], exclusive), m, l, i + 1, exclusive)

\* All layers from top to bottom
ArrangePass(r, m, exclusive) ==
  FoldLeft(LAMBDA e, l : ArrangeFrom(e, m, l, 1, exclusive), r, LayersDown)

\* arrange_layers
WindowsArranged(r, m) == [r EXCEPT !.desk = Arrange([@ EXCEPT !.root[m] = r.usable])]

ArrangeLayers(d, m) ==
  IF m = None THEN d
  ELSE FocusInteractive(
         ArrangePass(WindowsArranged(ArrangePass([desk |-> d, usable |-> MonitorBox[m]], m, TRUE), m),
                     m, FALSE).desk)

\* remove_container_from_tile, destroy_container; wlroots takes the keyboard and
\* the pointer from a surface that is gone.
Freed(d, s) ==
  [d EXCEPT !.top_focus = [t \in Tags |-> Remove(@[t], s)],
            !.m[s] = None, !.state[s] = BlankState("top"), !.geom[s] = NoBox, !.hidden[s] = {},
            !.unfocusable = @ \ {s},
            !.keyboard = IF @ = s THEN None ELSE @,
            !.pointer_focus = IF @ = s THEN None ELSE @]

\* wlr_layer_surface_v1_destroy and destroy_layer_surface_notify
DestroySurface(d, s) ==
  Freed(ArrangeLayers(Unlisted(IF s \in d.mapped THEN UnmapLayerSurface(d, s) ELSE d, s), d.m[s]), s)

-----------------------------------------------------------------------------
(* Tags and bars *)

\* Mutant: the bars are hidden, the area is not looked at
HideBarsOnly(d, t) ==
  [d EXCEPT !.hidden = [s \in Surfaces |->
     CASE d.m[s] = None \/ ~IsBar(d.state[s]) -> @[s]
       [] BarDirection(d.state[s]) \in d.bars[t] -> @[s] \ {t}
       [] OTHER -> @[s] \cup {t}]]

\* bars_update_visiblitiy
UpdateBars(d, t) ==
  ArrangeLayers([d EXCEPT !.hidden = [s \in Surfaces |->
     CASE d.m[s] = None \/ ~IsBar(d.state[s]) -> @[s]
       [] d.m[s] # None /\ IsBar(d.state[s]) /\ BarDirection(d.state[s]) \in d.bars[t] -> @[s] \ {t}
       [] OTHER -> @[s] \cup {t}]], d.current_m[t])

\* set_bars_visible, and toggle_bars_visible with the difference of the edges
SetBarsVisible(d, t, edges) == UpdateBars([d EXCEPT !.bars[t] = edges], t)

\* A tag is shown on the monitor that has it, or on the selected one.
MonitorFor(d, t) ==
  IF \E m \in Monitors : d.shown[m] = t THEN CHOOSE m \in Monitors : d.shown[m] = t ELSE d.selected

ShowTag(d, t, m) ==
  UpdateReducedFocusStack([d EXCEPT !.shown[m] = t, !.selected = m, !.current_m[t] = m], t)

\* Mutant: the pointer keeps its client
FocusTagsetOnly(d, t) ==
  FocusMostRecent(ArrangeLayers(ShowTag(d, t, MonitorFor(d, t)), MonitorFor(d, t)), t)

\* focus_tagset
FocusTagset(d, t) ==
  CursorRebase(FocusMostRecent(ArrangeLayers(ShowTag(d, t, MonitorFor(d, t)), MonitorFor(d, t)), t))

-----------------------------------------------------------------------------
(* The handlers *)

Runs(group) == desk.fault = "none" /\ group \in desk.setup.keys

\* create_notify_layer_shell; a surface without an output gets the selected one.
CreateSurface(s, m, l) ==
  /\ Runs("layers")
  /\ desk.m[s] = None
  /\ desk' = Listed([desk EXCEPT !.m[s] = m, !.state[s] = BlankState(l),
                                 !.unfocusable = IF l = "background" THEN @ \cup {s} ELSE @], s)

\* unmap_layer_surface_notify comes first when the commit has no buffer.
Updated(d, s, st, mapped) ==
  [(IF s \in d.mapped /\ ~mapped THEN UnmapLayerSurface(d, s) ELSE d) EXCEPT
    !.state[s] = st, !.mapped = IF mapped THEN @ \cup {s} ELSE @]

\* commit_layer_surface_notify, when the layer is another one
Relisted(d, s) ==
  IF s \in ToSet(d.lists[d.state[s].layer]) THEN d ELSE Listed(Unlisted(d, s), s)

\* A client commits a state, with a buffer once it has been configured.
CommitSurface(s, st, mapped) ==
  /\ Runs("layers")
  /\ desk.m[s] # None
  /\ mapped => desk.state[s] \in desk.setup.states[s]
  /\ st # desk.state[s] \/ mapped # (s \in desk.mapped)
  /\ desk' = ArrangeLayers(Relisted(Updated(desk, s, st, mapped), s), desk.m[s])

\* destroy_layer_surface_notify, when the client is done with it
CloseSurface(s) ==
  /\ Runs("layers")
  /\ desk.m[s] # None
  /\ desk' = DestroySurface(desk, s)

\* lib_tag_set_bars_visibility
SetBars(t, edges) ==
  /\ Runs("bars")
  /\ desk' = SetBarsVisible(desk, t, edges)

\* lib_tag_toggle_bars
ToggleBars(t, edges) ==
  /\ Runs("bars")
  /\ desk' = SetBarsVisible(desk, t, SymDiff(desk.bars[t], edges))

\* lib_toggle_all_bars: what the selected tag shows decides for every tag.
ToggleAllBars ==
  /\ Runs("bars")
  /\ LET edges == IF desk.bars[SelectedTag(desk)] = {} THEN Edges ELSE {}
     IN  desk' = FoldLeft(LAMBDA d, t : SetBarsVisible(d, t - 1, edges), desk,
                          [i \in 1..(MaxTag + 1) |-> i])

\* tagset_focus_tag
FocusTag(t) ==
  /\ Runs("tags")
  /\ desk' = FocusTagset(desk, t)

\* tag_this_focus_container by a command, or arrange by one that changes the layout
FocusWindow(w) ==
  /\ Runs("windows")
  /\ WindowTag[w] = SelectedTag(desk)
  /\ desk' = FocusContainer(desk, SelectedTag(desk), w)

ArrangeAll ==
  /\ Runs("windows")
  /\ desk' = Arrange(desk)
=============================================================================
