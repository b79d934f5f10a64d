---------------------------- MODULE MonitorTags ----------------------------
(***************************************************************************)
(* Which monitor shows which tag (src/src/monitor.c, src/src/tagset.c and  *)
(* the commands of src/src/lib that call them).                            *)
(*                                                                         *)
(* A monitor is linked to one tag (monitor->tag_id) and the tag is linked  *)
(* back (tag->m); the two links are separate fields that every handler has *)
(* to keep in agreement.  A tag also names the tags whose windows it shows *)
(* (tag->tags), and each tag names the monitor it is on at the moment      *)
(* (tag->current_m), which differs from tag->m while another monitor's tag *)
(* shows it.  The event loop runs one handler at a time, so a handler is   *)
(* one action.                                                             *)
(***************************************************************************)
EXTENDS Integers, SequencesExt

CONSTANTS
  Monitors,    \* the outputs that may be plugged in
  NoMonitor,   \* the null monitor pointer
  Windows,     \* the windows that may be opened
  MaxTag,      \* bound: the code creates tags without end, here 0..MaxTag
  EditedTags   \* bound: the tags whose sets the commands edit

ASSUME MaxTagAssumption == MaxTag \in Nat
ASSUME EditedTagsAssumption == EditedTags \subseteq 0..MaxTag
ASSUME NoMonitorAssumption == NoMonitor \notin Monitors

INVALID_TAG_ID == -1
Tags == 0..MaxTag

VARIABLES
  mons,          \* server.mons, in the order the outputs were plugged in
  selected,      \* server.selected_monitor
  tag_id,        \* monitor->tag_id
  locked_m,      \* tag->m, "the monitor the tag is locked to"
  current_m,     \* tag->current_m, "the monitor the tag is currently on"
  tags,          \* tag->tags: the bits that are set
  false_keys,    \* tag->tags: the keys of its hash table that hold false
  prev_tags,     \* tag->prev_tags
  previous_tag,  \* server.previous_tag
  con_tag,       \* container->tag_id of every window, INVALID_TAG_ID if none
  combo,         \* "_lib_view_or_tag_combo" is in server.named_key_combos
  status         \* "running", or how the process ended

vars == <<mons, selected, tag_id, locked_m, current_m, tags, false_keys,
          prev_tags, previous_tag, con_tag, combo, status>>

linkVars == <<mons, selected, tag_id, locked_m>>
bitVars  == <<tags, false_keys, prev_tags>>

Plugged == {mons[i] : i \in DOMAIN mons}
SelTag  == IF selected = NoMonitor THEN INVALID_TAG_ID ELSE tag_id[selected]

-----------------------------------------------------------------------------
(* Queries *)

IsTagEmpty(t) == \A w \in Windows : con_tag[w] # t

TagMonitor(t) == IF current_m[t] # NoMonitor THEN current_m[t] ELSE locked_m[t]

TagIsVisible(t, mon) ==
  LET sel == tag_id[mon]
  IN  /\ sel # INVALID_TAG_ID
      /\ \/ t = sel
         \/ t \in tags[sel]
         \/ current_m[t] # NoMonitor /\ ~IsTagEmpty(t)

IsTagOccupied(t) ==
  /\ TagMonitor(t) # NoMonitor
  /\ TagIsVisible(t, TagMonitor(t))

\* u is the first unoccupied tag from t on.
IsNextUnoccupied(u, t) ==
  /\ u >= t
  /\ ~IsTagOccupied(u)
  /\ \A v \in Tags : t <= v /\ v < u => IsTagOccupied(v)

-----------------------------------------------------------------------------
(* The tagset operations.  Each returns the new value of one field.        *)

\* The tags of keys that another monitor than sel is locked to: the ones that
\* tagset_tag_disconnect sends home and whose bit it sets.
Foreign(keys, lm, sel) == {t \in keys : lm[t] \notin {NoMonitor, sel}}

\* tagset_tags_disconnect tests the pointer the hash table returns, so a key
\* that holds false counts as a bit.
Keys(s) == {s} \cup tags[s] \cup false_keys[s]

Disconnect(cur, back, lm) ==
  [t \in Tags |-> IF t \in back THEN lm[t] ELSE cur[t]]

\* Mutant: a tag that is on a monitor already is not pulled over.
ConnectUnclaimed(cur, bits, mon) ==
  [t \in Tags |-> IF t \in bits /\ cur[t] = NoMonitor THEN mon ELSE cur[t]]

Connect(cur, bits, mon) ==
  [t \in Tags |-> IF t \in bits THEN mon ELSE cur[t]]

\* Where the tags are after the old set goes home and the new one is shown.
Reconnect(cur, back, lm, bits, mon) == Connect(Disconnect(cur, back, lm), bits, mon)

\* Mutant: the other monitor keeps its tag when two monitors swap.
SwapLinksOneSided(mon, t) ==
  [id |-> [tag_id EXCEPT ![mon] = t],
   lm |-> [locked_m EXCEPT ![tag_id[mon]] = locked_m[t], ![t] = mon]]

\* The links after monitor_set_selected_tag(mon, t): the two monitors swap, or
\* mon leaves its own tag for t.  The third case of that function, a monitor
\* without a tag, occurs only when it is plugged in (PlugTag).
SwapLinks(mon, t) ==
  LET other == locked_m[t]
      own   == tag_id[mon]
  IN  [id |-> [tag_id EXCEPT ![mon] = t, ![other] = IF other = mon THEN t ELSE own],
       lm |-> [locked_m EXCEPT ![own] = other, ![t] = mon]]

ReparentLinks(mon, t) ==
  [id |-> [tag_id EXCEPT ![mon] = t],
   lm |-> [locked_m EXCEPT ![tag_id[mon]] = NoMonitor, ![t] = mon]]

SetSelectedTag(mon, t) ==
  IF locked_m[t] # NoMonitor THEN SwapLinks(mon, t) ELSE ReparentLinks(mon, t)

\* Mutant: a tag always comes to the selected monitor.
AlwaysSelected(t) == selected

\* A tag that a monitor has is shown there, any other on the selected monitor.
TargetMonitor(t) == IF locked_m[t] # NoMonitor THEN locked_m[t] ELSE selected

\* Mutant: the tag is recorded after the focus changed.
RecordedLate(old, t) == t

\* server.previous_tag once t is focused and old was.
PreviousAfter(old, t) == IF old # t THEN old ELSE previous_tag

\* push_tagset and the focus_tagset it calls: show t with these bits.
PushTagset(t, bits) ==
  LET mon   == TargetMonitor(t)
      old   == SelTag
      links == SetSelectedTag(mon, t)
      back  == IF mon = selected /\ old # t
               THEN Foreign(Keys(old), links.lm, mon) ELSE {}
  IN  /\ tag_id' = links.id
      /\ locked_m' = links.lm
      /\ selected' = mon
      /\ current_m' = Reconnect(current_m, back, links.lm, bits, mon)
      /\ tags' = [tags EXCEPT ![t] = bits, ![old] = IF old = t THEN bits ELSE @ \cup back]
      /\ false_keys' = [false_keys EXCEPT ![t] = {},
                                          ![old] = IF old = t THEN {} ELSE @ \ back]
      /\ previous_tag' = PreviousAfter(old, t)
      /\ UNCHANGED <<mons, prev_tags, con_tag, status>>

-----------------------------------------------------------------------------
(* Commands a key binding runs *)

Running == status = "running" /\ mons # <<>>

\* Action.view
View(t) ==
  /\ Running
  /\ PushTagset(t, tags[t])
  /\ UNCHANGED combo

\* Action.view_or_tag outside a combo views the tag ...
ViewOrTag(t) ==
  /\ Running
  /\ ~combo
  /\ PushTagset(t, tags[t])
  /\ combo' = TRUE

Xor(S, t) == IF t \in S THEN S \ {t} ELSE S \cup {t}

\* ... and within one flips a bit of the selected tag's own set.
ViewOrTagCombo(t) ==
  /\ Running
  /\ combo
  /\ PushTagset(SelTag, Xor(tags[SelTag], t))
  /\ UNCHANGED combo

\* Every key is released: server.named_key_combos is cleared.
EndCombo ==
  /\ status = "running"
  /\ combo
  /\ combo' = FALSE
  /\ UNCHANGED <<linkVars, bitVars, current_m, previous_tag, con_tag, status>>

\* Action.toggle_tag
ToggleTag ==
  /\ Running
  /\ PushTagset(previous_tag, tags[previous_tag])
  /\ UNCHANGED combo

\* focus_monitor: the pointer moved to another monitor.
FocusMonitor(mon) ==
  /\ Running
  /\ mon \in Plugged \ {selected}
  /\ PushTagset(tag_id[mon], tags[tag_id[mon]])
  /\ UNCHANGED combo

\* tagset_set_tags: tag.tags = bits, the operators of a tag's bitset, and
\* Action.toggle_tags.
TagsetSetTags(s, bits) ==
  LET back == Foreign(Keys(s), locked_m, selected)
  IN  /\ prev_tags' = [prev_tags EXCEPT ![s] = tags[s]]
      /\ tags' = [tags EXCEPT ![s] = bits]
      /\ false_keys' = [false_keys EXCEPT ![s] = {}]
      /\ current_m' = Reconnect(current_m, back, locked_m, bits, locked_m[s])
      /\ UNCHANGED <<linkVars, previous_tag, con_tag, combo, status>>

SetTags(s, bits) == Running /\ TagsetSetTags(s, bits)

ToggleTags == Running /\ TagsetSetTags(SelTag, prev_tags[SelTag])

\* The bits of t1 and t2 change places in every other tag's set; t1 and t2
\* swap the rest of their sets.
SwappedBits(t, t1, t2) ==
  LET bits == tags[t]
      Bit(b, S, x) == IF x \in S THEN {b} ELSE {}
  IN  CASE t = t1 -> (tags[t2] \ {t1, t2}) \cup Bit(t1, tags[t1], t1) \cup Bit(t2, tags[t2], t1)
        [] t = t2 /\ t # t1 ->
                     (tags[t1] \ {t1, t2}) \cup Bit(t2, tags[t2], t2) \cup Bit(t1, tags[t1], t2)
        [] OTHER  -> (bits \ {t1, t2}) \cup Bit(t1, bits, t2) \cup Bit(t2, bits, t1)

\* bitset_assign(bits, i, false) leaves a key that holds false behind.
KeysAfterSwap(t, t1, t2) ==
  CASE t = t1 -> tags[t2]
    [] t = t2 /\ t # t1 -> tags[t1]
    [] OTHER  -> tags[t] \cup false_keys[t]

\* Tag.swap_smart: the windows, the links and the bits of t1 and t2 swap.
SwapSmart(t1, t2) ==
  LET links == SetSelectedTag(selected, t1)
  IN  /\ Running
      /\ con_tag' = [w \in Windows |-> CASE con_tag[w] = t1 -> t2
                                         [] con_tag[w] = t2 /\ t2 # t1 -> t1
                                         [] OTHER -> con_tag[w]]
      /\ tag_id' = links.id
      /\ locked_m' = links.lm
      /\ tags' = [t \in Tags |-> SwappedBits(t, t1, t2)]
      /\ false_keys' = [t \in Tags |-> KeysAfterSwap(t, t1, t2) \ SwappedBits(t, t1, t2)]
      /\ UNCHANGED <<mons, selected, current_m, prev_tags, previous_tag, combo, status>>

\* opt.reload: show on every monitor, in their order, its tag with the tag's
\* previous bits.  A tag that several of them show ends on the last.
ReloadOptions ==
  LET Shows(i)  == prev_tags[tag_id[mons[i]]]
      Showing(t) == {i \in DOMAIN mons : t \in Shows(i)}
      n == Len(mons)
  IN  /\ Running
      /\ selected' = mons[n]
      /\ current_m' = [t \in Tags |-> IF Showing(t) = {} THEN current_m[t]
                                      ELSE mons[Max(Showing(t))]]
      /\ tags' = [t \in Tags |-> IF locked_m[t] = NoMonitor THEN tags[t] ELSE prev_tags[t]]
      /\ false_keys' = [t \in Tags |-> IF locked_m[t] = NoMonitor THEN false_keys[t] ELSE {}]
      /\ previous_tag' = IF n > 1 THEN tag_id[mons[n - 1]] ELSE previous_tag
      /\ UNCHANGED <<mons, tag_id, locked_m, prev_tags, con_tag, combo, status>>

-----------------------------------------------------------------------------
(* Outputs *)

\* The tag a new monitor gets: tag 0, or the first that looks unoccupied when
\* another monitor has tag 0 (monitor_use_the_next_empty_tag).
PlugTag(t) ==
  IF locked_m[0] = NoMonitor THEN t = 0 ELSE IsNextUnoccupied(t, 0)

\* The tag a plugged monitor takes the focus from.
LeftTag == IF mons = <<>> THEN previous_tag ELSE SelTag

\* create_monitor
HotPlug(mon) ==
  /\ status = "running"
  /\ mon \in Monitors \ Plugged
  /\ \E t \in Tags :
       /\ PlugTag(t)
       /\ locked_m[t] = NoMonitor
       /\ mons' = Append(mons, mon)
       /\ selected' = mon
       /\ tag_id' = [tag_id EXCEPT ![mon] = t]
       /\ locked_m' = [locked_m EXCEPT ![t] = mon]
       /\ current_m' = Connect(current_m, tags[t], mon)
       /\ false_keys' = [false_keys EXCEPT ![t] = {}]
       /\ previous_tag' = LeftTag
  /\ UNCHANGED <<tags, prev_tags, con_tag, combo, status>>

\* create_monitor when the tag it finds is locked to another monitor: the
\* assertion in monitor_get_active_tag ends the process within the handler.
HotPlugAbort(mon) ==
  /\ status = "running"
  /\ mon \in Monitors \ Plugged
  /\ \E t \in Tags : PlugTag(t) /\ locked_m[t] # NoMonitor
  /\ status' = "assertion_failed"
  /\ UNCHANGED <<linkVars, bitVars, current_m, previous_tag, con_tag, combo>>

\* No tag keeps a link to a monitor that is destroyed.
Forget(links, mon) == [t \in Tags |-> IF links[t] = mon THEN NoMonitor ELSE links[t]]

\* handle_destroy_monitor of the i-th monitor.  After the last one it returns
\* before it selects another, and server.selected_monitor dangles.
Unplug(i) ==
  LET mon == mons[i]
      rest == RemoveAt(mons, i)
  IN  /\ status = "running"
      /\ mons' = rest
      /\ selected' = IF rest = <<>> THEN selected ELSE rest[1]
      /\ tag_id' = [tag_id EXCEPT ![mon] = INVALID_TAG_ID]
      /\ locked_m' = Forget(locked_m, mon)
      /\ current_m' = Forget(current_m, mon)
      /\ UNCHANGED <<bitVars, previous_tag, con_tag, combo, status>>

\* Pointer motion reads server.selected_monitor whether or not it still exists.
InputWithoutMonitor ==
  /\ status = "running"
  /\ mons = <<>>
  /\ selected # NoMonitor
  /\ status' = "dangling_monitor"
  /\ UNCHANGED <<linkVars, bitVars, current_m, previous_tag, con_tag, combo>>

-----------------------------------------------------------------------------
(* Windows *)

\* A window is mapped on the tag that was selected when it was created.
OpenWindow(w, t) ==
  /\ Running
  /\ con_tag[w] = INVALID_TAG_ID
  /\ con_tag' = [con_tag EXCEPT ![w] = t]
  /\ UNCHANGED <<linkVars, bitVars, current_m, previous_tag, combo, status>>

CloseWindow(w) ==
  /\ status = "running"
  /\ con_tag[w] # INVALID_TAG_ID
  /\ con_tag' = [con_tag EXCEPT ![w] = INVALID_TAG_ID]
  /\ UNCHANGED <<linkVars, bitVars, current_m, previous_tag, combo, status>>

\* container_set_tag_id: a tag that is on no monitor comes to the selected one.
MoveWindow(w, t) ==
  /\ Running
  /\ con_tag[w] \notin {INVALID_TAG_ID, t}
  /\ con_tag' = [con_tag EXCEPT ![w] = t]
  /\ current_m' = IF TagMonitor(t) = NoMonitor
                  THEN [current_m EXCEPT ![t] = selected] ELSE current_m
  /\ UNCHANGED <<linkVars, bitVars, previous_tag, combo, status>>

-----------------------------------------------------------------------------
Init ==
  /\ mons = <<>>
  /\ selected = NoMonitor
  /\ tag_id = [mon \in Monitors |-> INVALID_TAG_ID]
  /\ locked_m = [t \in Tags |-> NoMonitor]
  /\ current_m = [t \in Tags |-> NoMonitor]
  /\ tags = [t \in Tags |-> {t}]
  /\ false_keys = [t \in Tags |-> {}]
  /\ prev_tags = [t \in Tags |-> {t}]
  /\ previous_tag = 0
  /\ con_tag = [w \in Windows |-> INVALID_TAG_ID]
  /\ combo = FALSE
  /\ status = "running"

Next ==
  \/ \E t \in Tags : View(t) \/ ViewOrTag(t)
  \/ \E t \in Tags : SelTag \in EditedTags /\ ViewOrTagCombo(t)
  \/ EndCombo
  \/ ToggleTag
  \/ ToggleTags
  \/ \E s \in EditedTags, bits \in SUBSET Tags : SetTags(s, bits)
  \/ \E t1, t2 \in EditedTags : SwapSmart(t1, t2)
  \/ ReloadOptions
  \/ \E mon \in Monitors : FocusMonitor(mon) \/ HotPlug(mon) \/ HotPlugAbort(mon)
  \/ \E i \in DOMAIN mons : Unplug(i)
  \/ InputWithoutMonitor
  \/ \E w \in Windows, t \in Tags : OpenWindow(w, t) \/ MoveWindow(w, t)
  \/ \E w \in Windows : CloseWindow(w)

Spec == Init /\ [][Next]_vars

-----------------------------------------------------------------------------
TypeOK ==
  /\ mons \in Seq(Monitors)
  /\ selected \in Monitors \cup {NoMonitor}
  /\ tag_id \in [Monitors -> Tags \cup {INVALID_TAG_ID}]
  /\ locked_m \in [Tags -> Monitors \cup {NoMonitor}]
  /\ current_m \in [Tags -> Monitors \cup {NoMonitor}]
  /\ tags \in [Tags -> SUBSET Tags]
  /\ false_keys \in [Tags -> SUBSET Tags]
  /\ prev_tags \in [Tags -> SUBSET Tags]
  /\ previous_tag \in Tags
  /\ con_tag \in [Windows -> Tags \cup {INVALID_TAG_ID}]
  /\ combo \in BOOLEAN
  /\ status \in {"running", "assertion_failed", "dangling_monitor"}

\* monitor->tag_id and tag->m agree, from both sides: every monitor has a tag
\* that is locked to it, and a tag is locked only to the monitor that has it.
LinksAgree ==
  /\ \A mon \in Plugged : tag_id[mon] \in Tags /\ locked_m[tag_id[mon]] = mon
  /\ \A t \in Tags : locked_m[t] # NoMonitor =>
       locked_m[t] \in Plugged /\ tag_id[locked_m[t]] = t

\* No tag is left on a monitor that is gone, and as long as there is a monitor
\* the selected one is among them (handle_destroy_monitor).
NoDanglingMonitor ==
  /\ \A t \in Tags : current_m[t] \in Plugged \cup {NoMonitor}
  /\ mons # <<>> => selected \in Plugged

\* The links between monitors and tags can be followed from wherever a handler
\* starts: from a monitor to its tag, from a tag to the monitor it is locked to or
\* shown on, and from server.selected_monitor (monitor.c, tagset.c).
LinksSound == TypeOK /\ LinksAgree /\ NoDanglingMonitor

\* Only swap_smart makes a monitor that is not selected change its tag: viewing
\* a tag that another monitor shows goes there instead of taking it, and a new
\* or a lost output leaves the tags of the others alone.
OthersKeepTheirTag ==
  [][\A mon \in Plugged :
       tag_id'[mon] # tag_id[mon] =>
         \/ mon = selected
         \/ mon \notin Plugged'
         \/ \E t1, t2 \in Tags : SwapSmart(t1, t2)]_vars

\* toggle_tag goes to the previous tag and makes the one it leaves the previous
\* one, whatever monitors came, went or swapped in between, so that toggling
\* again returns.
ToggleReturns ==
  [][ToggleTag /\ previous_tag # SelTag =>
       /\ tag_id'[selected'] = previous_tag
       /\ previous_tag' = SelTag]_vars

\* After a tag is viewed every tag of its set is on the selected monitor, also
\* the ones pulled over from another monitor: a step that leaves one elsewhere is
\* no view.  (With three tags or more it also says that connecting the new set
\* comes after disconnecting the old one.)
ViewShowsWholeSet ==
  [][mons' # <<>> /\ (\E t \in tags'[tag_id'[selected']] : current_m'[t] # selected') =>
       ~ToggleTag /\ \A t \in Tags : ~View(t) /\ ~ViewOrTag(t) /\ ~ViewOrTagCombo(t)]_vars

\* Stated by the comment in monitor_get_active_tag and asserted there: the tag
\* of a monitor is never locked to another monitor.
NeverAborts == status # "assertion_failed"

=============================================================================
