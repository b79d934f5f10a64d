------------------------------ MODULE Layouts ------------------------------
(***************************************************************************)
(* The layouts of the tags of one output (src/src/layout.c, tag.c,         *)
(* lib/lib_layout.c, ring_buffer.c, tile/tileUtils.c, lib/lib_options.c).  *)
(*                                                                         *)
(* A tag loads a layout when it first needs it: that runs the file of the  *)
(* layout, which may link others, to be loaded too, and may give commands  *)
(* itself.  The loaded layouts are a list with the focused one at its      *)
(* front; the tag knows the one that the user asked for by name and every  *)
(* arrange() brings that to the front.  So "the layout of the tag" is kept *)
(* twice, and what the files do in between can tell the two apart.         *)
(***************************************************************************)
EXTENDS Tiling, SequencesExt, Functions

CONSTANTS
  Tags,           \* the ids of the tags, from 0
  Names,          \* the names of layouts
  BuiltinRing,    \* the names that server_reset_layout_ring puts in the ring
  BuiltinLayout,  \* the name that create_layout gives to the default layout
  AreaLimits,     \* bound: what n_area is set to
  Setups          \* what an instance starts with, see setup

\* What running the file of a layout has done in the end: the length of its data
\* and of its master data, the layouts it links and, if it sets one, the n_area.
File == [data : Nat \ {0}, master : Nat \ {0}, links : Seq(Names), n_area : SUBSET Int]

\* What running the config file does: whether it lists the tags, and the layout
\* and the ring that it sets, if it does.  An empty or a broken file does nothing.
Config == [tags : BOOLEAN, layout : SUBSET Names, ring : SUBSET (Seq(Names) \ {<<>>})]

ASSUME NamesAssumption == IsFiniteSet(Names)
ASSUME BuiltinAssumption ==
  BuiltinRing \in Seq(Names) \ {<<>>} /\ BuiltinLayout \in Names
ASSUME TagsAssumption == Tags \subseteq Nat /\ 0 \in Tags
ASSUME AreaLimitsAssumption == AreaLimits \subseteq Int
ASSUME SetupsAssumption ==
  \A s \in Setups :
    /\ s.room \in Nat
    /\ s.keys \subseteq {"load", "ring", "look", "view", "windows", "masters", "data", "reload"}
    /\ \A n \in Names : s.files[n] \in File
    /\ \A c \in s.configs : c \in Config

VARIABLES
  setup,      \* never changes: the commands that the user gives, the layout
              \* files, the config files that a reload may find, and (bound)
              \* how many windows are tiled
  selected,   \* the tag that the output shows
  loaded,     \* per tag, tag->loaded_layouts
  current,    \* tag->current_layout
  previous,   \* tag->previous_layout
  settings,   \* per tag and layout, the settings of Tiling
  tiled,      \* the number of tiled windows that the selected tag shows
  spots,      \* the places that the last arrange() gave to the shown ones
  default,    \* server.default_layout->name
  ring,       \* server.default_layout_ring, its index from 0
  fault       \* "none", or the lookup outside of a table that was reached

vars == <<setup, selected, loaded, current, previous, settings, tiled, spots,
          default, ring, fault>>

Live == fault = "none"

\* Bound: the commands of this instance.
Bound(k) == Live /\ k \in setup.keys

\* The one element of a set of at most one, or what there was.
Either(option, old) == IF option = {} THEN old ELSE CHOOSE x \in option : TRUE

Focused == Head(loaded[selected])

-----------------------------------------------------------------------------
(* Loading and focusing                                                      *)

\* create_layout with what its file makes of it
Fresh(file) ==
  [n_master |-> 1, max_area |-> Either(file.n_area, -1),
   data |-> file.data, master |-> file.master, places |-> 0]

ToFront(list, i) == <<list[i]>> \o RemoveAt(list, i)

\* Mutant: the links of a linked layout are not loaded
LoadOwnLinksOnly(list, x, asked) ==
  IF x \in ToSet(list) THEN list
  ELSE list \o SelectSeq(<<x>> \o setup.files[x].links, LAMBDA n : n \notin ToSet(list))

\* arrange() by the file of the layout n, with the list l loaded
ArrangedByFile(l, n, asked) ==
  IF setup.files[n].n_area # {} /\ asked # {} /\ asked \subseteq ToSet(l)
  THEN ToFront(l, CHOOSE i \in DOMAIN l : l[i] \in asked) ELSE l

\* tag_load_layout: a layout that is not loaded is added to the list before its
\* file runs, then come the layouts it links, depth first.  A file that sets
\* n_area calls arrange(), which brings the layout that was asked for to the
\* front if the tag is the selected one; the links are then read from the layout
\* that has got the position.  asked is empty for the other tags.  s[1] is what
\* is loaded, s[2] what is still to be loaded.
LoadLayout(list, x, asked) ==
  LET load[s \in Seq(Names) \X Seq(Names)] ==
        IF s[2] = <<>> THEN s[1]
        ELSE IF Head(s[2]) \in ToSet(s[1]) THEN load[<<s[1], Tail(s[2])>>]
        ELSE LET m == ArrangedByFile(Append(s[1], Head(s[2])), Head(s[2]), asked)
             IN  load[<<m, setup.files[m[Len(s[1]) + 1]].links \o Tail(s[2])>>]
  IN  load[<<list, <<x>>>>]

\* Mutant: the layout changes places with the focused one
SwapWithFront(list, x, asked) ==
  LET all == LoadLayout(list, x, asked)
      i == CHOOSE j \in DOMAIN all : all[j] = x
  IN  [all EXCEPT ![1] = all[i], ![i] = all[1]]

\* focus_layout: to the front with the position that tag_load_layout returned.
FocusLayout(list, x, asked) ==
  LET all == LoadLayout(list, x, asked)
      i == IF x \in ToSet(list) THEN CHOOSE j \in DOMAIN list : list[j] = x
                                ELSE Len(list) + 1
  IN  ToFront(all, i)

\* arrange() for the selected tag t, with these lists, names, settings and tiled
\* windows
ArrangeTag(t, lists, names, sets, n) ==
  /\ loaded' = [lists EXCEPT ![t] = FocusLayout(@, names[t], {names[t]})]
  /\ settings' = [sets EXCEPT ![t][Head(loaded'[t])] = SetLayoutRef(@, n)]
  /\ LET lt == settings'[t][Head(loaded'[t])]
     IN  /\ spots' = IF PlaceMissing(lt, n) THEN <<>> ELSE Places(lt, n)
         /\ fault' = IF PlaceMissing(lt, n) THEN "no_place" ELSE "none"
  /\ tiled' = n

Arrange == ArrangeTag(selected, loaded, current, settings, tiled)

\* tag_get_layout for a tag that has none loaded
LoadedBy(t) ==
  IF loaded[t] = <<>> THEN FocusLayout(<<>>, current[t], {}) ELSE loaded[t]

-----------------------------------------------------------------------------
(* Layout.load, Layout.toggle and the ring                                   *)

\* push_layout and arrange()
Push(x) ==
  /\ previous' = [previous EXCEPT ![selected] = current[selected]]
  /\ current' = [current EXCEPT ![selected] = x]
  /\ ArrangeTag(selected, loaded, current', settings, tiled)

\* A position outside of a list: what it reads is undefined, and ends the model.
Stop(reason) ==
  /\ fault' = reason
  /\ UNCHANGED <<selected, loaded, current, previous, settings, tiled, spots, default>>

\* lib_layout_load
Load(x) ==
  /\ Bound("load")
  /\ Push(x)
  /\ UNCHANGED <<setup, selected, default, ring>>

\* lib_layout_toggle: a layout that is not focused is loaded; for the focused one
\* tag_get_previous_layout takes the second of the list, whether there is one or
\* not.
Toggle(x) ==
  /\ Bound("load")
  /\ IF x # Focused THEN Push(x)
     ELSE IF Len(loaded[selected]) < 2 THEN Stop("no_previous")
     ELSE Push(loaded[selected][2])
  /\ UNCHANGED <<setup, selected, default, ring>>

\* Mutant: the ring does not close
RotateToTheEnd(r, k) == [r EXCEPT !.index = @ + k]

\* ring_buffer_rotate
Rotate(r, k) == [r EXCEPT !.index = (@ + k) % Len(r.names)]

\* ring:next(), ring:prev() and, with 0, ring:get(), the name going to Layout.load.
\* The index of a ring that a reload has shortened is looked up as it is by get.
RingStep(k) ==
  /\ Bound("ring")
  /\ ring' = IF k = 0 THEN ring ELSE Rotate(ring, k)
  /\ IF ring'.index \in 0..(Len(ring.names) - 1)
     THEN Push(ring.names[ring'.index + 1]) ELSE Stop("no_name")
  /\ UNCHANGED <<setup, selected, default>>

-----------------------------------------------------------------------------
(* The settings of the focused layout                                        *)

Set(s) == [settings EXCEPT ![selected][Focused] = s]
Lt == settings[selected][Focused]

\* lib_increase_n_master
IncreaseMaster ==
  /\ Bound("masters")
  /\ ArrangeTag(selected, loaded, current,
                Set([Lt EXCEPT !.n_master = MIN(@ + 1, Lt.master)]), tiled)
  /\ UNCHANGED <<setup, selected, current, previous, default, ring>>

\* lib_decrease_n_master
DecreaseMaster ==
  /\ Bound("masters")
  /\ ArrangeTag(selected, loaded, current,
                Set([Lt EXCEPT !.n_master = MAX(@ - 1, 1)]), tiled)
  /\ UNCHANGED <<setup, selected, current, previous, default, ring>>

\* lib_layout_set_n_area, which assigning to n_master calls as well
SetArea(n) ==
  /\ Bound("masters")
  /\ ArrangeTag(selected, loaded, current, Set([Lt EXCEPT !.max_area = n]), tiled)
  /\ UNCHANGED <<setup, selected, current, previous, default, ring>>

\* lib_layout_set_layout: other data, for the next arrange()
SetData(n) ==
  /\ Bound("data")
  /\ settings' = Set([Lt EXCEPT !.data = n])
  /\ UNCHANGED <<setup, selected, loaded, current, previous, tiled, spots, default, ring, fault>>

\* lib_layout_set_master_layout_data, likewise
SetMasterData(n) ==
  /\ Bound("data")
  /\ settings' = Set([Lt EXCEPT !.master = n])
  /\ UNCHANGED <<setup, selected, loaded, current, previous, tiled, spots, default, ring, fault>>

-----------------------------------------------------------------------------
(* Windows, tags and the reload of the configuration                         *)

\* The windows that the tag shows become more or fewer: map_request, unmap_notify,
\* container_property_set_floating and the like all end in arrange().  Before
\* it, a change of the focus has every tag look up its layout (tag_update_names).
ChangeTiled(n, names) ==
  /\ Bound("windows")
  /\ ArrangeTag(selected, IF names THEN [t \in Tags |-> LoadedBy(t)] ELSE loaded,
                current, settings, n)
  /\ UNCHANGED <<setup, selected, current, previous, default, ring>>

\* arrange() after any other command (execute_command)
ArrangeAgain ==
  /\ Live
  /\ Arrange
  /\ UNCHANGED <<setup, selected, current, previous, default, ring>>

\* tag.layout for a tag that is not shown; a file that sets n_area arranges the
\* one that is
Look(t) ==
  /\ Bound("look")
  /\ t # selected /\ loaded[t] = <<>>
  /\ IF \E n \in ToSet(LoadedBy(t)) : setup.files[n].n_area # {}
     THEN ArrangeTag(selected, [loaded EXCEPT ![t] = LoadedBy(t)], current, settings, tiled)
     ELSE /\ loaded' = [loaded EXCEPT ![t] = LoadedBy(t)]
          /\ UNCHANGED <<settings, tiled, spots, fault>>
  /\ UNCHANGED <<setup, selected, current, previous, default, ring>>

\* tag.prev_layout, tag_get_previous_layout: a tag with no layout loads the one
\* that it had before.
LookBack(t) ==
  /\ Bound("look")
  /\ t # selected
  /\ LET lists == [loaded EXCEPT ![t] =
                     IF @ = <<>> THEN LoadLayout(<<>>, previous[t], {}) ELSE @]
     IN  IF Len(lists[t]) < 2 THEN Stop("no_previous")
         ELSE IF \E n \in ToSet(lists[t]) \ ToSet(loaded[t]) : setup.files[n].n_area # {}
         THEN /\ ArrangeTag(selected, lists, current, settings, tiled)
              /\ UNCHANGED <<selected, current, previous, default>>
         ELSE /\ loaded' = lists
              /\ UNCHANGED <<selected, current, previous, settings, tiled, spots, default, fault>>
  /\ UNCHANGED <<setup, ring>>

\* focus_tagset: the output shows another tag.
View(t, n) ==
  /\ Bound("view")
  /\ selected' = t
  /\ ArrangeTag(t, loaded, current, settings, n)
  /\ UNCHANGED <<setup, current, previous, default, ring>>

AllFresh == [t \in Tags |-> [n \in Names |-> Fresh(setup.files[n])]]
FreshRing(c) == [names |-> Either(c.ring, BuiltinRing), index |-> 0]

\* lib_reload: no layout is loaded any more; the config file runs, which gives the
\* tags the default layout of before if it lists them (load_tags); then all tags
\* get the default layout of now, and load it (tag_update_names).  A ring that
\* the config does not set gets its first names, not its first index.
Reload(c) ==
  /\ Bound("reload")
  /\ default' = Either(c.layout, default)
  /\ ring' = IF c.ring = {} THEN [ring EXCEPT !.names = BuiltinRing] ELSE FreshRing(c)
  /\ previous' = IF c.tags THEN [t \in Tags |-> default] ELSE current
  /\ current' = [t \in Tags |-> default']
  /\ ArrangeTag(selected,
                [t \in Tags |-> IF t = selected THEN <<>> ELSE FocusLayout(<<>>, default', {})],
                current', AllFresh, tiled)
  /\ UNCHANGED <<setup, selected>>

-----------------------------------------------------------------------------
\* create_monitor for the first output: the config has run, the tags have their
\* default layout, and the one that is shown is arranged without windows.
Init ==
  /\ setup \in Setups
  /\ selected = 0
  /\ \E c \in setup.configs : /\ default = Either(c.layout, BuiltinLayout)
                              /\ ring = FreshRing(c)
  /\ current = [t \in Tags |-> default]
  /\ previous = [t \in Tags |-> default]
  /\ loaded = [t \in Tags |->
                 IF t = selected THEN FocusLayout(<<>>, default, {default}) ELSE <<>>]
  /\ settings = [t \in Tags |-> [n \in Names |->
       IF t = selected /\ n = Head(loaded[t])
       THEN SetLayoutRef(Fresh(setup.files[n]), 0) ELSE Fresh(setup.files[n])]]
  /\ tiled = 0
  /\ spots = <<>>
  /\ fault = "none"

Next ==
  \/ \E x \in Names : Load(x) \/ Toggle(x)
  \/ \E k \in {-1, 0, 1} : RingStep(k)
  \/ IncreaseMaster \/ DecreaseMaster
  \/ \E n \in AreaLimits : SetArea(n)
  \/ \E n \in 1..setup.room : SetData(n) \/ SetMasterData(n)
  \/ \E n \in 0..setup.room, names \in BOOLEAN : ChangeTiled(n, names)
  \/ ArrangeAgain
  \/ \E t \in Tags : Look(t) \/ LookBack(t) \/ \E n \in 0..setup.room : View(t, n)
  \/ \E c \in setup.configs : Reload(c)

Spec == Init /\ [][Next]_vars

-----------------------------------------------------------------------------
(* What holds after every command                                            *)

Settings == [n_master : Nat \ {0}, max_area : Int, data : Nat \ {0},
             master : Nat \ {0}, places : Nat]

\* Types; a tag loads no layout twice, the one that is shown has a layout, and
\* there is a place for no more windows than there are.
TypeOK ==
  /\ setup \in Setups /\ selected \in Tags
  /\ \A t \in Tags : ToSet(loaded[t]) \subseteq Names /\ IsInjective(loaded[t])
  /\ loaded[selected] # <<>>
  /\ current \in [Tags -> Names] /\ previous \in [Tags -> Names]
  /\ settings \in [Tags -> [Names -> Settings]]
  /\ tiled \in 0..setup.room /\ DOMAIN spots \subseteq 1..tiled
  /\ default \in Names
  /\ ToSet(ring.names) \subseteq Names /\ ring.index \in Nat
  /\ fault \in {"none", "no_previous", "no_name", "no_place"}

\* No file gives commands that arrange().
Quiet == \A n \in Names : setup.files[n].n_area = {}

\* The layout at the front of the list is the one that the tag was asked for,
\* for every tag that has layouts: after a reload, a look at a tag that is not
\* shown, whatever the order (focus_layout, tag_get_layout, load_tags).  If a
\* file arranges it is at least loaded, for the next arrange() to bring it
\* to the front.
FocusedIsCurrent ==
  \A t \in Tags : loaded[t] # <<>> =>
    /\ current[t] \in ToSet(loaded[t])
    /\ Quiet => Head(loaded[t]) = current[t]

\* A tag that has loaded a layout has loaded the layouts that it links, and those
\* that they link: lib_resize_main looks for them in the list, and passes over
\* the ones it does not find (tag_load_layout).
LinkedAreLoaded ==
  Quiet => \A t \in Tags : \A n \in ToSet(loaded[t]) :
             ToSet(setup.files[n].links) \subseteq ToSet(loaded[t])

\* Unless a file sets n_area to 0, every shown window finds its area in the table
\* that the layout refers to (set_layout_ref keeps an older one for 0 areas).
FilesGiveAreas == \A n \in Names : 0 \notin setup.files[n].n_area
NoPlaceIsMissing == FilesGiveAreas => fault # "no_place"

\* Which layout is focused, which are loaded and which table they refer to never
\* contradict what the tag was asked for (focus_layout).
LayoutsSound == TypeOK /\ FocusedIsCurrent /\ LinkedAreLoaded /\ NoPlaceIsMissing

\* When another layout gets the focus, the one that had it is the second of the
\* list, where tag_get_previous_layout takes it from; loading links does not come
\* between them.
PreviousIsSecond ==
  [][\A t \in Tags :
       Quiet /\ loaded[t] # <<>> /\ Head(loaded'[t]) # Head(loaded[t])
         /\ ~(\E c \in setup.configs : Reload(c))
       => loaded'[t][2] = Head(loaded[t])]_vars

\* arrange() has given out places.
Arranged == tiled' # tiled \/ spots' # spots

\* No two windows that are shown get the same place, as long as the master data
\* has a group for all masters (get_nth_geom_in_layout, apply_nmaster_layout).
OwnPlaces ==
  [][\A n \in Names : LET lt == settings'[selected'][n] IN
       Arranged /\ n = Head(loaded'[selected']) /\ lt.n_master <= lt.master
       => \A i, j \in DOMAIN spots' : spots'[i] = spots'[j] => i = j]_vars

\* A window is hidden only if the layout is full: all are shown if the masters
\* and the areas behind them are as many (update_layout_counters, whose counts
\* of areas include the one of the masters).
ShowsAsManyAsFit ==
  [][\A n \in Names :
       LET lt == settings'[selected'][n]
           areas == IF lt.max_area < 0 THEN lt.data ELSE MIN(lt.data, lt.max_area)
       IN  Arranged /\ fault' = "none" /\ n = Head(loaded'[selected']) /\ areas > 0
           => DOMAIN spots' = 1..MIN(tiled', lt.n_master + areas - 1)]_vars

\* Places are given out one to a window and to as many as there is room for
\* (arrange_containers).
PlacesSound == OwnPlaces /\ ShowsAsManyAsFit

\* The next and the previous layout of the ring are in the ring, also after a
\* reload that has made it shorter than its index (ring_buffer_rotate).
RingStaysInside == [][\A k \in {-1, 1} : RingStep(k) => fault' # "no_name"]_vars
=============================================================================
