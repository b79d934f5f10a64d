---------------------------- MODULE ServerProofs ----------------------------
(***************************************************************************)
(* Proofs about what struct server (src/include/server.h) keeps for the    *)
(* whole program: the monitors and the tags they show (MonitorTags), the   *)
(* bit sets that tags, windows and scripts are made of, with the server's  *)
(* temporaries (BitSets), and the slot through which threads hand results  *)
(* to the event loop (AsyncExec).  The three share no state: each part     *)
(* below is about one of them.                                             *)
(***************************************************************************)
EXTENDS MonitorTags, BitSets, AsyncExec, SequenceTheorems, WellFoundedInduction, TLAPS

(***************************************************************************)
(* MonitorTags, for every set of monitors, windows and tags.               *)
(*                                                                         *)
(* The invariants are inductive together with one fact more: an output is  *)
(* plugged in at most once, so that removing it from server.mons removes   *)
(* it from the plugged ones.                                               *)
(***************************************************************************)

PluggedOnce == \A i, j \in DOMAIN mons : mons[i] = mons[j] => i = j

IInv == TypeOK /\ LinksAgree /\ NoDanglingMonitor /\ PluggedOnce

-----------------------------------------------------------------------------
(* The list of monitors *)

\* Removing one output keeps a list of outputs, with no output twice, that has
\* all the others and no longer that one.
LEMMA Unplugging ==
  ASSUME mons \in Seq(Monitors), PluggedOnce, NEW i \in DOMAIN mons
  PROVE  LET rest == RemoveAt(mons, i)
         IN  /\ rest \in Seq(Monitors)
             /\ DOMAIN rest = 1..(Len(mons) - 1)
             /\ {rest[j] : j \in DOMAIN rest} = Plugged \ {mons[i]}
             /\ \A j, k \in DOMAIN rest : rest[j] = rest[k] => j = k
             /\ rest # <<>> => rest[1] \in Plugged \ {mons[i]}
<1> DEFINE n == Len(mons)
           rest == RemoveAt(mons, i)
<1>1. n \in Nat /\ DOMAIN mons = 1..n /\ i \in 1..n /\ \A j \in 1..n : mons[j] \in Monitors
  BY LenProperties, ElementOfSeq
<1> DEFINE front == SubSeq(mons, 1, i - 1)
           back == SubSeq(mons, i + 1, n)
<1>2. /\ front \in Seq(Monitors) /\ Len(front) = i - 1
      /\ \A j \in 1..(i - 1) : front[j] = mons[j]
  <2>1. i - 1 \in Int /\ \A j \in 1..(i - 1) : mons[j] \in Monitors /\ 1 + j - 1 = j
    BY <1>1
  <2>2. (i - 1) - 1 + 1 = i - 1 /\ (IF 1 <= i - 1 THEN (i - 1) - 1 + 1 ELSE 0) = i - 1
    BY <1>1
  <2> QED BY <2>1, <2>2, SubSeqProperties
<1>3. /\ back \in Seq(Monitors) /\ Len(back) = n - i
      /\ \A j \in 1..(n - i) : back[j] = mons[i + j]
  <2>1. /\ i + 1 \in Int /\ n \in Int
        /\ \A j \in (i + 1)..n : mons[j] \in Monitors
        /\ \A j \in 1..(n - i) : (i + 1) + j - 1 = i + j
    BY <1>1
  <2>2. n - (i + 1) + 1 = n - i /\ (IF i + 1 <= n THEN n - (i + 1) + 1 ELSE 0) = n - i
    BY <1>1
  <2> QED BY <2>1, <2>2, SubSeqProperties
<1>4. /\ rest \in Seq(Monitors) /\ Len(rest) = (i - 1) + (n - i)
      /\ \A j \in 1..((i - 1) + (n - i)) :
           rest[j] = IF j <= i - 1 THEN front[j] ELSE back[j - (i - 1)]
  <2>1. rest = front \o back
    BY DEF RemoveAt
  <2> HIDE DEF rest, front, back
  <2>2. /\ rest \in Seq(Monitors) /\ Len(rest) = Len(front) + Len(back)
        /\ \A j \in 1..(Len(front) + Len(back)) :
             rest[j] = IF j <= Len(front) THEN front[j] ELSE back[j - Len(front)]
    BY <1>2, <1>3, <2>1, ConcatProperties
  <2> QED BY <1>1, <1>2, <1>3, <2>2
<1> HIDE DEF rest, front, back
<1>5. DOMAIN rest = 1..(n - 1)
  BY <1>1, <1>4, LenProperties
<1>6. \A j \in 1..(n - 1) : rest[j] = IF j < i THEN mons[j] ELSE mons[j + 1]
  <2> SUFFICES ASSUME NEW j \in 1..(n - 1)
               PROVE  rest[j] = IF j < i THEN mons[j] ELSE mons[j + 1]
    OBVIOUS
  <2>1. CASE j < i
    BY <1>1, <1>2, <1>4, <2>1
  <2>2. CASE ~(j < i)
    <3>1. j - (i - 1) \in 1..(n - i) /\ i + (j - (i - 1)) = j + 1 /\ ~(j <= i - 1)
      BY <1>1, <2>2
    <3>2. rest[j] = back[j - (i - 1)]
      BY <1>1, <1>4, <3>1
    <3> QED BY <1>3, <2>2, <3>1, <3>2
  <2> QED BY <2>1, <2>2
<1>7. \A j \in 1..(n - 1) : rest[j] \in Plugged \ {mons[i]}
  BY <1>1, <1>6 DEF Plugged, PluggedOnce
<1>8. ASSUME NEW mon \in Plugged \ {mons[i]}
      PROVE  \E j \in 1..(n - 1) : rest[j] = mon
  <2>1. PICK k \in 1..n : mons[k] = mon /\ k # i
    BY <1>1 DEF Plugged
  <2>2. CASE k < i
    <3>1. k \in 1..(n - 1) /\ rest[k] = mon
      BY <1>1, <1>6, <2>1, <2>2
    <3> QED BY <3>1
  <2>3. CASE k > i
    <3>1. k - 1 \in 1..(n - 1) /\ ~(k - 1 < i) /\ (k - 1) + 1 = k
      BY <1>1, <2>3
    <3>2. rest[k - 1] = mon
      BY <1>6, <2>1, <3>1
    <3> QED BY <3>1, <3>2
  <2> QED BY <1>1, <2>1, <2>2, <2>3
<1>9. {rest[j] : j \in DOMAIN rest} = Plugged \ {mons[i]}
  BY <1>5, <1>7, <1>8
<1>10. \A j, k \in DOMAIN rest : rest[j] = rest[k] => j = k
  BY <1>1, <1>5, <1>6 DEF PluggedOnce
<1>11. ASSUME rest # <<>>
       PROVE  rest[1] \in Plugged \ {mons[i]}
  <2>1. Len(rest) \in Nat \ {0}
    BY <1>4, <1>11, EmptySeq
  <2>2. 1 \in 1..(n - 1)
    BY <1>1, <1>4, <2>1
  <2> QED BY <1>7, <2>2
<1> QED BY <1>4, <1>5, <1>9, <1>10, <1>11 DEF rest

\* Adding an output that is not plugged in.
LEMMA PluggingIn ==
  ASSUME mons \in Seq(Monitors), PluggedOnce, NEW mon \in Monitors \ Plugged
  PROVE  LET more == Append(mons, mon)
         IN  /\ more \in Seq(Monitors)
             /\ more # <<>>
             /\ {more[j] : j \in DOMAIN more} = Plugged \cup {mon}
             /\ \A j, k \in DOMAIN more : more[j] = more[k] => j = k
<1> DEFINE n == Len(mons)
           more == Append(mons, mon)
<1>1. n \in Nat /\ DOMAIN mons = 1..n
  BY LenProperties
<1>2. /\ more \in Seq(Monitors)
      /\ Len(more) = n + 1
      /\ DOMAIN more = 1..(n + 1)
      /\ \A j \in 1..n : more[j] = mons[j]
      /\ more[n + 1] = mon
  BY <1>1
<1>3. \A j \in 1..(n + 1) : j \in 1..n \/ j = n + 1
  BY <1>1
<1>4. 1..n \subseteq 1..(n + 1) /\ n + 1 \in 1..(n + 1)
  BY <1>1
<1> HIDE DEF more
<1>5. {more[j] : j \in DOMAIN more} = Plugged \cup {mon}
  BY <1>1, <1>2, <1>3, <1>4 DEF Plugged
<1>6. \A j, k \in DOMAIN more : more[j] = more[k] => j = k
  BY <1>1, <1>2, <1>3 DEF Plugged, PluggedOnce
<1>7. more # <<>>
  BY <1>1, <1>2, EmptySeq
<1> QED BY <1>2, <1>5, <1>6, <1>7 DEF more

-----------------------------------------------------------------------------
(* The links *)

\* LinksAgree of any pair of links.
Agree(id, lm) ==
  /\ \A mon \in Plugged : id[mon] \in Tags /\ lm[id[mon]] = mon
  /\ \A t \in Tags : lm[t] # NoMonitor => lm[t] \in Plugged /\ id[lm[t]] = t

Types(id, lm) ==
  /\ id \in [Monitors -> Tags \cup {INVALID_TAG_ID}]
  /\ lm \in [Tags -> Monitors \cup {NoMonitor}]

\* The tag of a monitor is a tag, and a plugged monitor is not the null one.
LEMMA PluggedMonitors ==
  ASSUME TypeOK, LinksAgree
  PROVE  /\ Plugged \subseteq Monitors
         /\ NoMonitor \notin Plugged
         /\ \A mon \in Plugged : tag_id[mon] \in Tags /\ locked_m[tag_id[mon]] = mon
<1>1. \A i \in DOMAIN mons : mons[i] \in Monitors
  BY ElementOfSeq, LenProperties DEF TypeOK
<1> QED BY <1>1, NoMonitorAssumption DEF Plugged, LinksAgree

\* monitor_set_selected_tag gives the monitor the tag and keeps the links in
\* agreement, whether the tag has a monitor or not (monitor.c:310-321).
LEMMA SelectedTagAgrees ==
  ASSUME TypeOK, LinksAgree, NEW mon \in Plugged, NEW t \in Tags
  PROVE  LET links == SetSelectedTag(mon, t)
         IN  /\ Types(links.id, links.lm)
             /\ Agree(links.id, links.lm)
             /\ links.id[mon] = t
             /\ links.lm[t] = mon
<1> DEFINE links == SetSelectedTag(mon, t)
           own == tag_id[mon]
           other == locked_m[t]
<1>1. /\ mon \in Monitors /\ mon # NoMonitor
      /\ own \in Tags /\ locked_m[own] = mon
      /\ tag_id \in [Monitors -> Tags \cup {INVALID_TAG_ID}]
      /\ locked_m \in [Tags -> Monitors \cup {NoMonitor}]
  BY PluggedMonitors DEF TypeOK
<1>2. CASE other # NoMonitor
  <2>1. other \in Plugged /\ other \in Monitors /\ tag_id[other] = t
    BY <1>2, PluggedMonitors DEF LinksAgree
  <2>2. /\ links.id = [tag_id EXCEPT ![mon] = t, ![other] = IF other = mon THEN t ELSE own]
        /\ links.lm = [locked_m EXCEPT ![own] = other, ![t] = mon]
    BY <1>2 DEF SetSelectedTag, SwapLinks
  <2> HIDE DEF links
  <2>3. links.id[mon] = t /\ links.lm[t] = mon
    BY <1>1, <2>1, <2>2
  <2>4. Types(links.id, links.lm)
    BY <1>1, <2>1, <2>2 DEF Types
  <2>5. ASSUME NEW m \in Plugged
        PROVE  links.id[m] \in Tags /\ links.lm[links.id[m]] = m
    BY <1>1, <2>1, <2>2, PluggedMonitors
  <2>6. ASSUME NEW u \in Tags, links.lm[u] # NoMonitor
        PROVE  links.lm[u] \in Plugged /\ links.id[links.lm[u]] = u
    <3>1. CASE u = t
      BY <1>1, <2>3, <3>1
    <3>2. CASE u = own /\ u # t
      BY <1>1, <2>1, <2>2, <3>2
    <3>3. CASE u # own /\ u # t
      <4>1. links.lm[u] = locked_m[u] /\ locked_m[u] \in Plugged /\ tag_id[locked_m[u]] = u
        BY <1>1, <2>2, <2>6, <3>3 DEF LinksAgree
      <4>2. locked_m[u] # mon /\ locked_m[u] # other
        BY <2>1, <3>3, <4>1
      <4> QED BY <1>1, <2>2, <4>1, <4>2, PluggedMonitors
    <3> QED BY <3>1, <3>2, <3>3
  <2> QED BY <2>3, <2>4, <2>5, <2>6 DEF Agree, links
<1>3. CASE other = NoMonitor
  <2>1. /\ links.id = [tag_id EXCEPT ![mon] = t]
        /\ links.lm = [locked_m EXCEPT ![own] = NoMonitor, ![t] = mon]
    BY <1>3 DEF SetSelectedTag, ReparentLinks
  <2> HIDE DEF links
  <2>2. links.id[mon] = t /\ links.lm[t] = mon
    BY <1>1, <2>1
  <2>3. Types(links.id, links.lm)
    BY <1>1, <2>1 DEF Types
  <2>4. ASSUME NEW m \in Plugged
        PROVE  links.id[m] \in Tags /\ links.lm[links.id[m]] = m
    <3>1. CASE m = mon
      BY <2>2, <3>1
    <3>2. CASE m # mon
      <4>1. links.id[m] = tag_id[m] /\ tag_id[m] \in Tags /\ locked_m[tag_id[m]] = m
        BY <1>1, <2>1, <3>2, PluggedMonitors
      <4>2. tag_id[m] # own /\ tag_id[m] # t
        BY <1>1, <1>3, <3>2, <4>1, PluggedMonitors
      <4> QED BY <1>1, <2>1, <4>1, <4>2
    <3> QED BY <3>1, <3>2
  <2>5. ASSUME NEW u \in Tags, links.lm[u] # NoMonitor
        PROVE  links.lm[u] \in Plugged /\ links.id[links.lm[u]] = u
    <3>1. CASE u = t
      BY <2>2, <3>1
    <3>2. CASE u # t
      <4>1. u # own /\ links.lm[u] = locked_m[u]
        BY <1>1, <2>1, <2>5, <3>2
      <4>2. locked_m[u] \in Plugged /\ tag_id[locked_m[u]] = u /\ locked_m[u] # mon
        BY <2>5, <4>1 DEF LinksAgree
      <4> QED BY <1>1, <2>1, <4>1, <4>2
    <3> QED BY <3>1, <3>2
  <2> QED BY <2>2, <2>3, <2>4, <2>5 DEF Agree, links
<1> QED BY <1>2, <1>3

-----------------------------------------------------------------------------
(* The inductive invariant *)

\* Disconnecting and connecting tags puts them on plugged monitors or on none.
LEMMA ReconnectType ==
  ASSUME NEW P, NEW cur \in [Tags -> P \cup {NoMonitor}], NEW lm \in [Tags -> P \cup {NoMonitor}],
         NEW back, NEW bits, NEW mon \in P \cup {NoMonitor}
  PROVE  Reconnect(cur, back, lm, bits, mon) \in [Tags -> P \cup {NoMonitor}]
BY DEF Reconnect, Connect, Disconnect

\* While a monitor is plugged in, the selected one has a tag.
LEMMA SelectedHasTag ==
  ASSUME IInv, mons # <<>>
  PROVE  selected \in Plugged /\ selected # NoMonitor /\ SelTag \in Tags /\ SelTag = tag_id[selected]
BY PluggedMonitors DEF IInv, NoDanglingMonitor, SelTag

LEMMA CurrentPlugged ==
  ASSUME IInv
  PROVE  /\ current_m \in [Tags -> Plugged \cup {NoMonitor}]
         /\ locked_m \in [Tags -> Plugged \cup {NoMonitor}]
BY DEF IInv, TypeOK, NoDanglingMonitor, LinksAgree

\* Steps that leave the outputs and the links alone and show tags only on
\* plugged monitors.
LEMMA LinksUnchanged ==
  ASSUME IInv, TypeOK', UNCHANGED <<mons, selected, tag_id, locked_m>>,
         current_m' \in [Tags -> Plugged \cup {NoMonitor}]
  PROVE  IInv'
<1>1. Plugged' = Plugged /\ PluggedOnce'
  BY DEF Plugged, PluggedOnce, IInv
<1>2. LinksAgree'
  BY <1>1 DEF LinksAgree, IInv
<1>3. NoDanglingMonitor'
  BY <1>1 DEF NoDanglingMonitor, IInv
<1> QED BY <1>1, <1>2, <1>3 DEF IInv

\* Showing a tag, by whatever command, keeps the invariant.
LEMMA PushTagsetKeeps ==
  ASSUME IInv, mons # <<>>, NEW t \in Tags, NEW bits \in SUBSET Tags,
         PushTagset(t, bits), combo' \in BOOLEAN
  PROVE  IInv'
<1> DEFINE mon == TargetMonitor(t)
           old == SelTag
           links == SetSelectedTag(mon, t)
           back == IF mon = selected /\ old # t THEN Foreign(Keys(old), links.lm, mon) ELSE {}
<1>1. old \in Tags /\ selected \in Plugged
  BY SelectedHasTag
<1>2. mon \in Plugged
  BY <1>1 DEF TargetMonitor, IInv, LinksAgree
<1>3. /\ Types(links.id, links.lm)
      /\ Agree(links.id, links.lm)
  BY <1>2, SelectedTagAgrees DEF IInv
<1>4. /\ tag_id' = links.id
      /\ locked_m' = links.lm
      /\ selected' = mon
      /\ current_m' = Reconnect(current_m, back, links.lm, bits, mon)
      /\ tags' = [tags EXCEPT ![t] = bits, ![old] = IF old = t THEN bits ELSE @ \cup back]
      /\ false_keys' = [false_keys EXCEPT ![t] = {},
                                          ![old] = IF old = t THEN {} ELSE @ \ back]
      /\ previous_tag' = PreviousAfter(old, t)
      /\ UNCHANGED <<mons, prev_tags, con_tag, status>>
  BY DEF PushTagset
<1>5. back \subseteq Tags
  <2>1. Keys(old) \subseteq Tags
    BY <1>1 DEF Keys, IInv, TypeOK
  <2> QED BY <2>1 DEF Foreign
<1> HIDE DEF mon, old, links, back
<1>6. Plugged' = Plugged /\ PluggedOnce'
  BY <1>4 DEF Plugged, PluggedOnce, IInv
<1>7. LinksAgree'
  BY <1>3, <1>4, <1>6 DEF Agree, LinksAgree
<1>8. links.lm \in [Tags -> Plugged \cup {NoMonitor}]
  BY <1>3 DEF Types, Agree
<1>9. current_m' \in [Tags -> Plugged \cup {NoMonitor}]
  BY <1>2, <1>4, <1>8, CurrentPlugged, ReconnectType
<1>10. NoDanglingMonitor'
  BY <1>2, <1>4, <1>6, <1>9 DEF NoDanglingMonitor
<1>11. TypeOK'
  <2>1. tags' \in [Tags -> SUBSET Tags] /\ false_keys' \in [Tags -> SUBSET Tags]
    BY <1>1, <1>4, <1>5 DEF IInv, TypeOK
  <2>2. previous_tag' \in Tags
    BY <1>1, <1>4 DEF PreviousAfter, IInv, TypeOK
  <2>3. current_m' \in [Tags -> Monitors \cup {NoMonitor}] /\ selected' \in Monitors
    BY <1>2, <1>4, <1>9, PluggedMonitors DEF IInv
  <2> QED BY <1>3, <1>4, <2>1, <2>2, <2>3 DEF Types, IInv, TypeOK
<1> QED BY <1>6, <1>7, <1>10, <1>11 DEF IInv

LEMMA InitHolds == Init => IInv
<1> SUFFICES ASSUME Init PROVE IInv
  OBVIOUS
<1>1. DOMAIN mons = {} /\ mons \in Seq(Monitors)
  BY EmptySeq DEF Init
<1>2. 0 \in Tags /\ \A t \in Tags : {t} \subseteq Tags
  BY MaxTagAssumption DEF Tags
<1>3. TypeOK
  BY <1>1, <1>2 DEF Init, TypeOK
<1>4. LinksAgree /\ NoDanglingMonitor /\ PluggedOnce
  BY <1>1 DEF Init, LinksAgree, NoDanglingMonitor, PluggedOnce, Plugged
<1> QED BY <1>3, <1>4 DEF IInv

-----------------------------------------------------------------------------
(* One lemma per group of actions *)

\* The commands that focus a tag.
LEMMA FocusStep ==
  ASSUME IInv,
         \/ \E t \in Tags : View(t) \/ ViewOrTag(t) \/ ViewOrTagCombo(t)
         \/ ToggleTag
         \/ \E mon \in Monitors : FocusMonitor(mon)
  PROVE  IInv'
<1>1. /\ \A t \in Tags : tags[t] \in SUBSET Tags
      /\ combo \in BOOLEAN /\ previous_tag \in Tags
  BY DEF IInv, TypeOK
<1>2. ASSUME NEW t \in Tags, View(t)
      PROVE  IInv'
  BY <1>1, <1>2, PushTagsetKeeps DEF View, Running
<1>3. ASSUME NEW t \in Tags, ViewOrTag(t)
      PROVE  IInv'
  BY <1>1, <1>3, PushTagsetKeeps DEF ViewOrTag, Running
<1>4. ASSUME NEW t \in Tags, ViewOrTagCombo(t)
      PROVE  IInv'
  <2>1. SelTag \in Tags /\ mons # <<>>
    BY <1>4, SelectedHasTag DEF ViewOrTagCombo, Running
  <2>2. Xor(tags[SelTag], t) \in SUBSET Tags
    BY <1>1, <2>1 DEF Xor
  <2> QED BY <1>1, <1>4, <2>1, <2>2, PushTagsetKeeps DEF ViewOrTagCombo
<1>5. ASSUME ToggleTag
      PROVE  IInv'
  BY <1>1, <1>5, PushTagsetKeeps DEF ToggleTag, Running
<1>6. ASSUME NEW mon \in Monitors, FocusMonitor(mon)
      PROVE  IInv'
  <2>1. tag_id[mon] \in Tags
    BY <1>6, PluggedMonitors DEF FocusMonitor, IInv
  <2> QED BY <1>1, <1>6, <2>1, PushTagsetKeeps DEF FocusMonitor, Running
<1> QED BY <1>2, <1>3, <1>4, <1>5, <1>6

\* The commands that change a tag's own set.
LEMMA SetTagsStep ==
  ASSUME IInv,
         \/ \E s \in Tags, bits \in SUBSET Tags : SetTags(s, bits)
         \/ ToggleTags
  PROVE  IInv'
<1>1. PICK s \in Tags, bits \in SUBSET Tags : TagsetSetTags(s, bits)
  <2>1. CASE ToggleTags
    <3>1. SelTag \in Tags
      BY <2>1, SelectedHasTag DEF ToggleTags, Running
    <3>2. prev_tags[SelTag] \in SUBSET Tags
      BY <3>1 DEF IInv, TypeOK
    <3> QED BY <2>1, <3>1, <3>2 DEF ToggleTags
  <2> QED BY <2>1 DEF SetTags
<1>2. UNCHANGED <<mons, selected, tag_id, locked_m>>
  BY <1>1 DEF TagsetSetTags, linkVars
<1>3. current_m' \in [Tags -> Plugged \cup {NoMonitor}]
  BY <1>1, CurrentPlugged, ReconnectType DEF TagsetSetTags
<1>4. TypeOK'
  <2>1. current_m' \in [Tags -> Monitors \cup {NoMonitor}]
    BY <1>3, PluggedMonitors DEF IInv
  <2> QED BY <1>1, <1>2, <2>1 DEF TagsetSetTags, IInv, TypeOK
<1> QED BY <1>2, <1>3, <1>4, LinksUnchanged

\* Tag.swap_smart
LEMMA SwapStep ==
  ASSUME IInv, NEW t1 \in Tags, NEW t2 \in Tags, SwapSmart(t1, t2)
  PROVE  IInv'
<1> DEFINE links == SetSelectedTag(selected, t1)
<1>1. selected \in Plugged
  BY SelectedHasTag DEF SwapSmart, Running
<1>2. Types(links.id, links.lm) /\ Agree(links.id, links.lm)
  BY <1>1, SelectedTagAgrees DEF IInv
<1>3. tag_id' = links.id /\ locked_m' = links.lm
  BY DEF SwapSmart
<1> HIDE DEF links
<1>4. UNCHANGED <<mons, selected, current_m, prev_tags, previous_tag, combo, status>>
  BY DEF SwapSmart
<1>5. Plugged' = Plugged /\ PluggedOnce'
  BY <1>4 DEF Plugged, PluggedOnce, IInv
<1>6. LinksAgree' /\ NoDanglingMonitor'
  BY <1>2, <1>3, <1>4, <1>5 DEF Agree, LinksAgree, NoDanglingMonitor, IInv
<1>7. con_tag' \in [Windows -> Tags \cup {INVALID_TAG_ID}]
  BY DEF SwapSmart, IInv, TypeOK
<1>8. \A t \in Tags : SwappedBits(t, t1, t2) \subseteq Tags /\ KeysAfterSwap(t, t1, t2) \subseteq Tags
  <2>1. \A t \in Tags : tags[t] \subseteq Tags /\ false_keys[t] \subseteq Tags
    BY DEF IInv, TypeOK
  <2>2. ASSUME NEW t \in Tags
        PROVE  SwappedBits(t, t1, t2) \subseteq Tags
    BY <2>1 DEF SwappedBits
  <2>3. ASSUME NEW t \in Tags
        PROVE  KeysAfterSwap(t, t1, t2) \subseteq Tags
    BY <2>1 DEF KeysAfterSwap
  <2> QED BY <2>2, <2>3
<1>9. tags' \in [Tags -> SUBSET Tags] /\ false_keys' \in [Tags -> SUBSET Tags]
  BY <1>8 DEF SwapSmart
<1>10. TypeOK'
  BY <1>2, <1>3, <1>4, <1>7, <1>9 DEF Types, IInv, TypeOK
<1> QED BY <1>5, <1>6, <1>10 DEF IInv

\* A set of positions that is not empty has a last one.
LEMMA LastPosition ==
  ASSUME NEW n \in Nat, NEW S, S \subseteq 1..n, S # {}
  PROVE  \E i \in S : \A j \in S : i >= j
<1> DEFINE R == {ss \in Nat \X Nat : ss[1] < ss[2]}
           T == {k \in 0..n : n - k \in S}
<1>1. IsWellFoundedOn(R, Nat)
  BY NatLessThanWellFounded DEF OpToRel
<1>2. \A i \in S : n - i \in T /\ n - (n - i) = i
  OBVIOUS
<1>3. T \subseteq Nat /\ T # {}
  <2>1. PICK i \in S : TRUE
    OBVIOUS
  <2>2. n - i \in T
    BY <1>2
  <2>3. T \subseteq Nat
    OBVIOUS
  <2> HIDE DEF T
  <2> QED BY <2>2, <2>3
<1> HIDE DEF R
<1>4. PICK k \in T : \A l \in T : <<l, k>> \notin R
  BY <1>1, <1>3, WFMin
<1>5. ASSUME NEW j \in S
      PROVE  n - k >= j
  <2>1. n - j \in T /\ n - j \in Nat /\ k \in Nat
    BY <1>2, <1>3
  <2>2. ~(n - j < k)
    BY <1>4, <2>1 DEF R
  <2> QED BY <2>1, <2>2
<1>6. n - k \in S
  OBVIOUS
<1> QED BY <1>5, <1>6

\* opt.reload
LEMMA ReloadStep ==
  ASSUME IInv, ReloadOptions
  PROVE  IInv'
<1> DEFINE n == Len(mons)
           Showing(t) == {i \in DOMAIN mons : t \in prev_tags[tag_id[mons[i]]]}
<1>1. n \in Nat \ {0} /\ DOMAIN mons = 1..n /\ \A i \in 1..n : mons[i] \in Plugged
  BY EmptySeq, LenProperties DEF ReloadOptions, Running, IInv, TypeOK, Plugged
<1>2. \A mon \in Plugged : mon \in Monitors /\ tag_id[mon] \in Tags
  BY PluggedMonitors DEF IInv
<1>3. \A t \in Tags : current_m'[t] \in Plugged \cup {NoMonitor}
  <2> SUFFICES ASSUME NEW t \in Tags
               PROVE  current_m'[t] \in Plugged \cup {NoMonitor}
    OBVIOUS
  <2>1. CASE Showing(t) = {}
    BY <2>1, CurrentPlugged DEF ReloadOptions
  <2>2. CASE Showing(t) # {}
    <3>1. Showing(t) \subseteq 1..n
      BY <1>1
    <3>2. \E i \in Showing(t) : \A j \in Showing(t) : i >= j
      BY <1>1, <2>2, <3>1, LastPosition
    <3>3. Max(Showing(t)) \in 1..n
      BY <3>1, <3>2 DEF Max
    <3>4. current_m'[t] = mons[Max(Showing(t))]
      BY <2>2 DEF ReloadOptions
    <3> QED BY <1>1, <3>3, <3>4
  <2> QED BY <2>1, <2>2
<1> HIDE DEF Showing
<1>4. /\ selected' = mons[n]
      /\ UNCHANGED <<mons, tag_id, locked_m, prev_tags, con_tag, combo, status>>
  BY DEF ReloadOptions
<1>5. Plugged' = Plugged /\ PluggedOnce'
  BY <1>4 DEF Plugged, PluggedOnce, IInv
<1>6. selected' \in Plugged
  BY <1>1, <1>4
<1>7. LinksAgree' /\ NoDanglingMonitor'
  BY <1>3, <1>4, <1>5, <1>6 DEF LinksAgree, NoDanglingMonitor, IInv
<1>8. tags' \in [Tags -> SUBSET Tags] /\ false_keys' \in [Tags -> SUBSET Tags]
  BY DEF ReloadOptions, IInv, TypeOK
<1>9. previous_tag' \in Tags
  <2>1. n > 1 => n - 1 \in 1..n
    BY <1>1
  <2>2. n > 1 => tag_id[mons[n - 1]] \in Tags
    BY <1>1, <1>2, <2>1
  <2> QED BY <2>2 DEF ReloadOptions, IInv, TypeOK
<1>10. current_m' \in [Tags -> Monitors \cup {NoMonitor}]
  BY <1>2, <1>3 DEF ReloadOptions
<1>11. TypeOK'
  BY <1>2, <1>4, <1>6, <1>8, <1>9, <1>10 DEF IInv, TypeOK
<1> QED BY <1>5, <1>7, <1>11 DEF IInv

\* create_monitor: the branch in which the tag it finds is free.
LEMMA HotPlugStep ==
  ASSUME IInv, NEW mon \in Monitors, HotPlug(mon)
  PROVE  IInv'
<1>1. PICK t \in Tags :
        /\ locked_m[t] = NoMonitor
        /\ mons' = Append(mons, mon)
        /\ selected' = mon
        /\ tag_id' = [tag_id EXCEPT ![mon] = t]
        /\ locked_m' = [locked_m EXCEPT ![t] = mon]
        /\ current_m' = Connect(current_m, tags[t], mon)
        /\ false_keys' = [false_keys EXCEPT ![t] = {}]
        /\ previous_tag' = LeftTag
  BY DEF HotPlug
<1>2. mon \notin Plugged /\ UNCHANGED <<tags, prev_tags, con_tag, combo, status>>
  BY DEF HotPlug
<1>3. /\ mons' \in Seq(Monitors)
      /\ Plugged' = Plugged \cup {mon}
      /\ PluggedOnce'
  <2> DEFINE more == Append(mons, mon)
  <2>1. /\ more \in Seq(Monitors)
        /\ {more[j] : j \in DOMAIN more} = Plugged \cup {mon}
        /\ \A j, k \in DOMAIN more : more[j] = more[k] => j = k
    BY <1>2, PluggingIn DEF IInv, TypeOK
  <2>2. mons' = more
    BY <1>1
  <2> HIDE DEF more
  <2> QED BY <2>1, <2>2 DEF Plugged, PluggedOnce
<1>4. LinksAgree'
  <2>1. ASSUME NEW m \in Plugged'
        PROVE  tag_id'[m] \in Tags /\ locked_m'[tag_id'[m]] = m
    BY <1>1, <1>2, <1>3, <2>1, PluggedMonitors DEF IInv, TypeOK
  <2>2. ASSUME NEW u \in Tags, locked_m'[u] # NoMonitor
        PROVE  locked_m'[u] \in Plugged' /\ tag_id'[locked_m'[u]] = u
    <3>1. CASE u = t
      BY <1>1, <1>3, <3>1 DEF IInv, TypeOK
    <3>2. CASE u # t
      <4>1. locked_m'[u] = locked_m[u]
        BY <1>1, <3>2 DEF IInv, TypeOK
      <4>2. locked_m[u] \in Plugged /\ tag_id[locked_m[u]] = u /\ locked_m[u] # mon
        BY <1>2, <2>2, <4>1 DEF IInv, LinksAgree
      <4> QED BY <1>1, <1>3, <4>1, <4>2, PluggedMonitors DEF IInv, TypeOK
    <3> QED BY <3>1, <3>2
  <2> QED BY <2>1, <2>2 DEF LinksAgree
<1>5. current_m' \in [Tags -> Plugged' \cup {NoMonitor}]
  BY <1>1, <1>3, CurrentPlugged DEF Connect
<1>6. NoDanglingMonitor'
  BY <1>1, <1>3, <1>5 DEF NoDanglingMonitor
<1>7. LeftTag \in Tags
  BY SelectedHasTag DEF LeftTag, IInv, TypeOK
<1>8. TypeOK'
  <2>1. current_m' \in [Tags -> Monitors \cup {NoMonitor}]
    BY <1>3, <1>5, PluggedMonitors DEF IInv
  <2> QED BY <1>1, <1>2, <1>3, <1>7, <2>1 DEF IInv, TypeOK
<1> QED BY <1>3, <1>4, <1>6, <1>8 DEF IInv

\* handle_destroy_monitor
LEMMA UnplugStep ==
  ASSUME IInv, NEW i \in DOMAIN mons, Unplug(i)
  PROVE  IInv'
<1> DEFINE mon == mons[i]
           rest == RemoveAt(mons, i)
<1>1. /\ mons' = rest
      /\ selected' = IF rest = <<>> THEN selected ELSE rest[1]
      /\ tag_id' = [tag_id EXCEPT ![mon] = INVALID_TAG_ID]
      /\ locked_m' = Forget(locked_m, mon)
      /\ current_m' = Forget(current_m, mon)
      /\ UNCHANGED <<tags, false_keys, prev_tags, previous_tag, con_tag, combo, status>>
  BY DEF Unplug, bitVars
<1>2. /\ rest \in Seq(Monitors)
      /\ {rest[j] : j \in DOMAIN rest} = Plugged \ {mon}
      /\ \A j, k \in DOMAIN rest : rest[j] = rest[k] => j = k
      /\ rest # <<>> => rest[1] \in Plugged \ {mon}
  BY Unplugging DEF IInv, TypeOK
<1>3. mon \in Plugged
  BY DEF Plugged
<1> HIDE DEF mon, rest
<1>4. Plugged' = Plugged \ {mon} /\ PluggedOnce'
  BY <1>1, <1>2 DEF Plugged, PluggedOnce
<1>5. LinksAgree'
  <2>1. ASSUME NEW m \in Plugged'
        PROVE  tag_id'[m] \in Tags /\ locked_m'[tag_id'[m]] = m
    BY <1>1, <1>4, <2>1, PluggedMonitors DEF Forget, IInv, TypeOK
  <2>2. ASSUME NEW u \in Tags, locked_m'[u] # NoMonitor
        PROVE  locked_m'[u] \in Plugged' /\ tag_id'[locked_m'[u]] = u
    <3>1. locked_m[u] # mon /\ locked_m'[u] = locked_m[u]
      BY <1>1, <2>2 DEF Forget
    <3>2. locked_m[u] \in Plugged /\ tag_id[locked_m[u]] = u
      BY <2>2, <3>1 DEF IInv, LinksAgree
    <3> QED BY <1>1, <1>4, <3>1, <3>2, PluggedMonitors DEF IInv, TypeOK
  <2> QED BY <2>1, <2>2 DEF LinksAgree
<1>6. \A t \in Tags : current_m'[t] \in Plugged' \cup {NoMonitor}
  BY <1>1, <1>4, CurrentPlugged DEF Forget
<1>7. NoDanglingMonitor'
  BY <1>1, <1>2, <1>4, <1>6 DEF NoDanglingMonitor
<1>8. TypeOK'
  <2>1. selected' \in Monitors \cup {NoMonitor}
    BY <1>1, <1>2, PluggedMonitors DEF IInv, TypeOK
  <2> QED BY <1>1, <1>2, <2>1 DEF Forget, IInv, TypeOK
<1> QED BY <1>4, <1>5, <1>7, <1>8 DEF IInv

\* The steps that leave the tags where they are.
LEMMA OtherStep ==
  ASSUME IInv,
         \/ EndCombo
         \/ \E mon \in Monitors : HotPlugAbort(mon)
         \/ InputWithoutMonitor
         \/ \E w \in Windows, t \in Tags : OpenWindow(w, t) \/ MoveWindow(w, t)
         \/ \E w \in Windows : CloseWindow(w)
         \/ UNCHANGED vars
  PROVE  IInv'
<1>1. UNCHANGED <<mons, selected, tag_id, locked_m>>
  BY DEF EndCombo, HotPlugAbort, InputWithoutMonitor, OpenWindow, MoveWindow, CloseWindow,
         linkVars, vars
<1>2. current_m' \in [Tags -> Plugged \cup {NoMonitor}]
  <2>1. CASE \E w \in Windows, t \in Tags : MoveWindow(w, t)
    BY <2>1, CurrentPlugged, SelectedHasTag DEF MoveWindow, Running
  <2>2. CASE UNCHANGED current_m
    BY <2>2, CurrentPlugged
  <2> QED BY <2>1, <2>2
         DEF EndCombo, HotPlugAbort, InputWithoutMonitor, OpenWindow, CloseWindow, vars
<1>3. TypeOK'
  <2>1. current_m' \in [Tags -> Monitors \cup {NoMonitor}]
    BY <1>2, PluggedMonitors DEF IInv
  <2>2. UNCHANGED bitVars /\ UNCHANGED previous_tag
    BY DEF EndCombo, HotPlugAbort, InputWithoutMonitor, OpenWindow, MoveWindow, CloseWindow,
           bitVars, vars
  <2>3. con_tag' \in [Windows -> Tags \cup {INVALID_TAG_ID}]
    BY DEF EndCombo, HotPlugAbort, InputWithoutMonitor, OpenWindow, MoveWindow, CloseWindow,
           vars, IInv, TypeOK
  <2>4. combo' \in BOOLEAN
    BY DEF EndCombo, HotPlugAbort, InputWithoutMonitor, OpenWindow, MoveWindow, CloseWindow,
           vars, IInv, TypeOK
  <2>5. status' \in {"running", "assertion_failed", "dangling_monitor"}
    BY DEF EndCombo, HotPlugAbort, InputWithoutMonitor, OpenWindow, MoveWindow, CloseWindow,
           vars, IInv, TypeOK
  <2> QED BY <1>1, <2>1, <2>2, <2>3, <2>4, <2>5 DEF bitVars, IInv, TypeOK
<1> QED BY <1>1, <1>2, <1>3, LinksUnchanged

LEMMA StepHolds == IInv /\ [Next]_vars => IInv'
<1> SUFFICES ASSUME IInv, [Next]_vars PROVE IInv'
  OBVIOUS
<1>1. ASSUME NEW s \in EditedTags
      PROVE  s \in Tags
  BY EditedTagsAssumption DEF Tags
<1> QED BY <1>1, FocusStep, SetTagsStep, SwapStep, ReloadStep, HotPlugStep, UnplugStep, OtherStep
        DEF Next

-----------------------------------------------------------------------------
(* The theorems *)

THEOREM Invariance == Spec => []IInv
BY InitHolds, StepHolds, PTL DEF Spec

\* Every variable keeps its type, whatever the number of outputs and tags.
THEOREM TypeCorrect == Spec => []TypeOK
<1>1. IInv => TypeOK
  BY DEF IInv
<1> QED BY <1>1, Invariance, PTL

\* monitor->tag_id and tag->m agree in every reachable state, so the assertion
\* at the head of monitor_set_selected_tag never fails (monitor.c:312).
THEOREM LinksAlwaysAgree == Spec => []LinksAgree
<1>1. IInv => LinksAgree
  BY DEF IInv
<1> QED BY <1>1, Invariance, PTL

\* No tag is on a monitor that was destroyed, and the selected monitor is a
\* plugged one as long as there is one (handle_destroy_monitor).
THEOREM NoneDangles == Spec => []NoDanglingMonitor
<1>1. IInv => NoDanglingMonitor
  BY DEF IInv
<1> QED BY <1>1, Invariance, PTL

\* All links can be followed, whatever commands are given and outputs come and go:
\* what the handlers of monitor.c and tagset.c rely on when they follow them.
THEOREM LinksAlwaysSound == Spec => []LinksSound
BY TypeCorrect, LinksAlwaysAgree, NoneDangles, PTL DEF LinksSound

-----------------------------------------------------------------------------
(* The action properties *)

\* What push_tagset shows and what it leaves alone.
LEMMA PushTagsetEffect ==
  ASSUME IInv, mons # <<>>, NEW t \in Tags, NEW bits \in SUBSET Tags, PushTagset(t, bits)
  PROVE  /\ tag_id'[selected'] = t
         /\ tags'[t] = bits
         /\ previous_tag' = PreviousAfter(SelTag, t)
         /\ \A b \in bits : current_m'[b] = selected'
         /\ \A m \in Plugged : tag_id'[m] # tag_id[m] => m = selected
<1> DEFINE mon == TargetMonitor(t)
           links == SetSelectedTag(mon, t)
           back == IF mon = selected /\ SelTag # t THEN Foreign(Keys(SelTag), links.lm, mon) ELSE {}
<1>1. mon \in Plugged /\ selected \in Plugged /\ mon \in Monitors
  BY SelectedHasTag, PluggedMonitors DEF TargetMonitor, IInv, LinksAgree
<1>2. links.id[mon] = t
  BY <1>1, SelectedTagAgrees DEF IInv
<1>3. /\ tag_id' = links.id
      /\ selected' = mon
      /\ current_m' = Reconnect(current_m, back, links.lm, bits, mon)
      /\ tags' = [tags EXCEPT ![t] = bits, ![SelTag] = IF SelTag = t THEN bits ELSE @ \cup back]
      /\ previous_tag' = PreviousAfter(SelTag, t)
  BY DEF PushTagset
<1>4. ASSUME NEW m \in Plugged, m # selected
      PROVE  links.id[m] = tag_id[m]
  <2>1. m \in Monitors /\ tag_id \in [Monitors -> Tags \cup {INVALID_TAG_ID}]
    BY PluggedMonitors DEF IInv, TypeOK
  <2>2. CASE locked_m[t] # NoMonitor
    <3>1. mon = locked_m[t] /\ tag_id[mon] = t
      BY <2>2 DEF TargetMonitor, IInv, LinksAgree
    <3>2. links.id = [tag_id EXCEPT ![mon] = t, ![mon] = t]
      BY <2>2, <3>1 DEF SetSelectedTag, SwapLinks
    <3> HIDE DEF links, mon
    <3> QED BY <1>1, <2>1, <3>1, <3>2
  <2>3. CASE locked_m[t] = NoMonitor
    BY <1>4, <2>1, <2>3 DEF TargetMonitor, SetSelectedTag, ReparentLinks
  <2> QED BY <2>2, <2>3
<1> HIDE DEF mon, links, back
<1>5. tags'[t] = bits
  BY <1>3, SelectedHasTag DEF IInv, TypeOK
<1>6. \A b \in bits : current_m'[b] = selected'
  BY <1>3 DEF Reconnect, Connect
<1> QED BY <1>2, <1>3, <1>4, <1>5, <1>6

\* Each command that shows a tag is a push_tagset of some tag and bits.
LEMMA FocusCommands ==
  ASSUME IInv,
         \/ \E t \in Tags : View(t) \/ ViewOrTag(t) \/ ViewOrTagCombo(t)
         \/ ToggleTag
         \/ \E mon \in Monitors : FocusMonitor(mon)
  PROVE  mons # <<>> /\ \E t \in Tags, bits \in SUBSET Tags : PushTagset(t, bits)
<1>1. mons # <<>>
  BY DEF View, ViewOrTag, ViewOrTagCombo, ToggleTag, FocusMonitor, Running
<1>2. (\A t \in Tags : tags[t] \in SUBSET Tags) /\ previous_tag \in Tags /\ SelTag \in Tags
  BY <1>1, SelectedHasTag DEF IInv, TypeOK
<1>3. \A t \in Tags : Xor(tags[SelTag], t) \in SUBSET Tags
  BY <1>2 DEF Xor
<1>4. \A mon \in Plugged : tag_id[mon] \in Tags
  BY PluggedMonitors DEF IInv
<1> QED BY <1>1, <1>2, <1>3, <1>4 DEF View, ViewOrTag, ViewOrTagCombo, ToggleTag, FocusMonitor

\* Only swap_smart makes a monitor that is not selected change its tag.
THEOREM OthersKeep == Spec => OthersKeepTheirTag
<1>1. ASSUME IInv, [Next]_vars, NEW mon \in Plugged,
             tag_id'[mon] # tag_id[mon], mon # selected, mon \in Plugged'
      PROVE  \E t1, t2 \in Tags : SwapSmart(t1, t2)
  <2>1. CASE \/ \E t \in Tags : View(t) \/ ViewOrTag(t) \/ ViewOrTagCombo(t)
             \/ ToggleTag
             \/ \E m \in Monitors : FocusMonitor(m)
    BY <1>1, <2>1, FocusCommands, PushTagsetEffect
  <2>2. CASE \E m \in Monitors : HotPlug(m)
    <3>1. PICK m \in Monitors \ Plugged, t \in Tags : tag_id' = [tag_id EXCEPT ![m] = t]
      BY <2>2 DEF HotPlug
    <3> QED BY <1>1, <3>1, PluggedMonitors DEF IInv, TypeOK
  <2>3. CASE \E i \in DOMAIN mons : Unplug(i)
    <3>1. PICK i \in DOMAIN mons : Unplug(i)
      BY <2>3
    <3>2. mons' = RemoveAt(mons, i) /\ tag_id' = [tag_id EXCEPT ![mons[i]] = INVALID_TAG_ID]
      BY <3>1 DEF Unplug
    <3>3. Plugged' = Plugged \ {mons[i]}
      <4> DEFINE rest == RemoveAt(mons, i)
      <4>1. {rest[j] : j \in DOMAIN rest} = Plugged \ {mons[i]}
        BY <1>1, Unplugging DEF IInv, TypeOK
      <4>2. mons' = rest
        BY <3>2
      <4> HIDE DEF rest
      <4> QED BY <4>1, <4>2 DEF Plugged
    <3> QED BY <1>1, <3>2, <3>3, PluggedMonitors DEF IInv, TypeOK
  <2>4. CASE \E t1, t2 \in EditedTags : SwapSmart(t1, t2)
    BY <2>4, EditedTagsAssumption DEF Tags
  <2>5. CASE tag_id' = tag_id
    BY <1>1, <2>5
  <2>6. CASE \/ EndCombo \/ ToggleTags \/ ReloadOptions \/ InputWithoutMonitor
             \/ \E s \in EditedTags, bits \in SUBSET Tags : SetTags(s, bits)
             \/ \E m \in Monitors : HotPlugAbort(m)
             \/ \E w \in Windows, t \in Tags : OpenWindow(w, t) \/ MoveWindow(w, t)
             \/ \E w \in Windows : CloseWindow(w)
             \/ UNCHANGED vars
    <3>1. tag_id' = tag_id
      BY <2>6 DEF vars, linkVars, EndCombo, SetTags, ToggleTags, TagsetSetTags, ReloadOptions,
                  HotPlugAbort, InputWithoutMonitor, OpenWindow, MoveWindow, CloseWindow
    <3> QED BY <2>5, <3>1
  <2> QED BY <1>1, <2>1, <2>2, <2>3, <2>4, <2>6 DEF Next
<1>2. IInv /\ [Next]_vars =>
        [\A mon \in Plugged :
           tag_id'[mon] # tag_id[mon] =>
             \/ mon = selected
             \/ mon \notin Plugged'
             \/ \E t1, t2 \in Tags : SwapSmart(t1, t2)]_vars
  BY <1>1
<1> QED BY <1>2, Invariance, PTL DEF Spec, OthersKeepTheirTag

\* After a tag is viewed, its whole set is on the selected monitor: in
\* focus_tagset the connect comes after the disconnect (tagset.c:300-303).
THEOREM WholeSetShown == Spec => ViewShowsWholeSet
<1>1. ASSUME IInv,
             (\E t \in Tags : View(t) \/ ViewOrTag(t) \/ ViewOrTagCombo(t)) \/ ToggleTag
      PROVE  \A t \in tags'[tag_id'[selected']] : current_m'[t] = selected'
  BY <1>1, FocusCommands, PushTagsetEffect
<1>2. IInv /\ [Next]_vars =>
        [mons' # <<>> /\ (\E t \in tags'[tag_id'[selected']] : current_m'[t] # selected') =>
           ~ToggleTag /\ \A t \in Tags : ~View(t) /\ ~ViewOrTag(t) /\ ~ViewOrTagCombo(t)]_vars
  BY <1>1
<1> QED BY <1>2, Invariance, PTL DEF Spec, ViewShowsWholeSet

\* toggle_tag goes to the previous tag and remembers the one it leaves.
THEOREM ToggleTagReturns == Spec => ToggleReturns
<1>1. ASSUME IInv, ToggleTag, previous_tag # SelTag
      PROVE  tag_id'[selected'] = previous_tag /\ previous_tag' = SelTag
  <2>1. mons # <<>> /\ previous_tag \in Tags /\ tags[previous_tag] \in SUBSET Tags
    BY <1>1 DEF ToggleTag, Running, IInv, TypeOK
  <2> QED BY <1>1, <2>1, PushTagsetEffect DEF ToggleTag, PreviousAfter
<1>2. IInv /\ [Next]_vars =>
        [ToggleTag /\ previous_tag # SelTag =>
           /\ tag_id'[selected'] = previous_tag
           /\ previous_tag' = SelTag]_vars
  BY <1>1
<1> QED BY <1>2, Invariance, PTL DEF Spec, ToggleReturns

(***************************************************************************)
(* BitSets: for any number of sets, bits and calls the bounds of a bit set *)
(* never lose a member, whatever order its bits are assigned in and        *)
(* however often it is emptied and filled again.                           *)
(***************************************************************************)

-----------------------------------------------------------------------------
(* Least and greatest members *)

\* A set of natural numbers with a member has a least one, which the search from
\* below finds.
LEMMA LeastExists ==
  ASSUME NEW S \in SUBSET Nat, S # {}
  PROVE  Least(S) \in S /\ \A j \in S : Least(S) <= j
<1>1. PICK x \in S : \A y \in S : ~ (<<y, x>> \in OpToRel(<, Nat))
  BY NatLessThanWellFounded, WFMin
<1>2. \A y \in S : ~(y < x)
  BY <1>1, Zenon DEF OpToRel
<1>3. \A y \in S : x <= y
  BY <1>2
<1>4. \E i \in S : \A j \in S : i <= j
  BY <1>3
<1> QED BY <1>4 DEF Least

\* A bounded one has a greatest one, which the search from above finds.
LEMMA GreatestExists ==
  ASSUME NEW S \in SUBSET Nat, S # {}, NEW k \in Nat, \A i \in S : i <= k
  PROVE  Greatest(S) \in S /\ \A j \in S : j <= Greatest(S)
<1> DEFINE T == {k - i : i \in S}
<1>1. \A i \in S : i \in Nat /\ k - i \in Nat
  OBVIOUS
<1>2. T \subseteq Nat /\ T # {}
  BY <1>1
<1>3. Least(T) \in T /\ \A j \in T : Least(T) <= j
  BY <1>2, LeastExists
<1>4. PICK x \in S : \A j \in S : k - x <= k - j
  BY <1>3
<1>5. \E i \in S : \A j \in S : j <= i
  BY <1>1, <1>4
<1> QED BY <1>5 DEF Greatest

-----------------------------------------------------------------------------
(* One assignment *)

\* The two searches after one bit has changed (bitset_set_new_high, then
\* bitset_set_new_low) find bounds of all members, if the old ones were bounds
\* of all but that bit.
LEMMA SearchesFindBounds ==
  ASSUME NEW b \in BitSet, NEW i \in Nat, b.low <= b.high,
         \A j \in b.on : j # i => b.low <= j /\ j <= b.high
  PROVE  LET c == [b EXCEPT !.high = NewHigh(b, i)]
             d == [c EXCEPT !.low = NewLow(c, i)]
         IN  d \in BitSet /\ Tight(d)
<1> DEFINE c == [b EXCEPT !.high = NewHigh(b, i)]
           d == [c EXCEPT !.low = NewLow(c, i)]
           above == {j \in b.on : b.low <= j /\ j <= Larger(i, b.high)}
           below == {j \in b.on : Smaller(i, b.low) <= j /\ j <= c.high}
<1>1. b.on \in SUBSET Nat /\ b.low \in Nat /\ b.high \in Nat /\ b.keys \in SUBSET Nat
  BY DEF BitSet
<1>2. above \in SUBSET Nat /\ Larger(i, b.high) \in Nat /\ Smaller(i, b.low) \in Nat
  BY <1>1 DEF Larger, Smaller
<1>3. above = {} => c.high = b.low
  BY DEF NewHigh, BitSet
<1>4. above # {} => c.high \in above /\ \A j \in above : j <= c.high
  <2>1. above # {} => c.high = Greatest(above)
    BY DEF NewHigh, BitSet
  <2>2. \A j \in above : j <= Larger(i, b.high)
    OBVIOUS
  <2> QED BY <2>1, <2>2, <1>2, GreatestExists
<1>5. c \in BitSet /\ c.on = b.on /\ c.low = b.low /\ c.high \in Nat /\ b.low <= c.high
  <2>1. c.high \in Nat /\ b.low <= c.high
    BY <1>1, <1>2, <1>3, <1>4
  <2> QED BY <2>1, <1>1 DEF BitSet
<1>6. \A j \in b.on : j <= c.high
  <2> SUFFICES ASSUME NEW j \in b.on PROVE j <= c.high
    OBVIOUS
  <2>1. CASE j \in above
    BY <2>1, <1>4
  <2>2. CASE j \notin above
    BY <2>2, <1>1, <1>5 DEF Larger
  <2> QED BY <2>1, <2>2
<1>7. below = b.on
  BY <1>1, <1>6 DEF Smaller
<1>8. b.on = {} => d.low = c.high /\ d.high = c.high
  BY <1>5, <1>7 DEF NewLow, BitSet
<1>9. b.on # {} => d.low \in b.on /\ \A j \in b.on : d.low <= j
  <2>1. b.on # {} => d.low = Least(b.on)
    BY <1>5, <1>7 DEF NewLow, BitSet
  <2> QED BY <2>1, <1>1, LeastExists
<1>10. d \in BitSet /\ d.on = b.on /\ d.high = c.high /\ d.low \in Nat
  <2>1. d.low \in Nat
    BY <1>1, <1>5, <1>8, <1>9
  <2> QED BY <2>1, <1>5 DEF BitSet
<1>11. b.on # {} => c.high \in b.on \/ b.on = {d.low}
  <2>1. CASE above # {}
    BY <2>1, <1>4
  <2>2. CASE above = {}
    <3>1. \A j \in b.on : j = i
      BY <2>2, <1>1 DEF Larger
    <3> QED BY <3>1, <1>9
  <2> QED BY <2>1, <2>2
<1>12. d.low <= d.high
  BY <1>1, <1>5, <1>6, <1>8, <1>9, <1>10
<1>13. d.on \subseteq d.low..d.high
  BY <1>1, <1>6, <1>9, <1>10
<1> QED BY <1>9, <1>10, <1>11, <1>12, <1>13 DEF Tight

\* bitset_assign keeps the bounds, whatever it assigns.
LEMMA AssignedKeepsBounds ==
  ASSUME NEW b \in BitSet, b.on \subseteq b.keys, Tight(b), NEW i \in Nat, NEW value \in BOOLEAN
  PROVE  LET d == Assigned(b, i, value)
         IN  d \in BitSet /\ d.on \subseteq d.keys /\ Tight(d)
<1> DEFINE keys == IF value THEN b.keys \cup {i} ELSE b.keys
           on == IF value THEN b.on \cup {i} ELSE b.on \ {i}
           e == [b EXCEPT !.on = on]
           c == [e EXCEPT !.high = NewHigh(e, i)]
           d == [c EXCEPT !.low = NewLow(c, i)]
<1>1. CASE i \notin keys
  BY <1>1 DEF Assigned
<1>2. CASE i \in keys
  <2>1. keys \in SUBSET Nat /\ on \in SUBSET Nat /\ on \subseteq keys
    BY <1>2 DEF BitSet
  <2>2. e \in BitSet /\ e.on = on /\ e.low = b.low /\ e.high = b.high
    BY <2>1 DEF BitSet
  <2>3. \A j \in e.on : j # i => e.low <= j /\ j <= e.high
    BY <2>2 DEF Tight
  <2>4. e.low <= e.high
    BY <2>2 DEF Tight
  <2> HIDE DEF e, keys, on
  <2>5. d \in BitSet /\ Tight(d)
    BY <2>2, <2>3, <2>4, SearchesFindBounds
  <2>6. NewHigh(e, i) = c.high /\ d.high = c.high /\ d.on = on
    BY <2>2 DEF BitSet
  <2>7. c = [b EXCEPT !.on = on, !.high = NewHigh(e, i)]
    BY DEF e
  <2>8. d.low = NewLow(c, i)
    BY <2>2 DEF BitSet
  <2>9. Assigned(b, i, value) = [keys |-> keys, on |-> on, high |-> d.high, low |-> d.low]
    BY <1>2, <2>6, <2>7, <2>8 DEF Assigned, e, keys, on
  <2> HIDE DEF d
  <2>10. d.high \in Nat /\ d.low \in Nat
    BY <2>5 DEF BitSet
  <2>11. Assigned(b, i, value) \in BitSet
    BY <2>1, <2>9, <2>10 DEF BitSet, keys, on
  <2> QED BY <2>1, <2>5, <2>6, <2>9, <2>11 DEF Tight
<1> QED BY <1>1, <1>2

-----------------------------------------------------------------------------
(* Programs *)

LoopNames == {"and", "or", "xor", "copy", "flip", "keep", "set", "reset", "mask", "integer",
              "reverse", "clear", "create"}

LoopType == [loop : LoopNames, dest : AllSets, src : AllSets, bits : SUBSET Nat]

IsTypedCall(c) ==
  /\ c.op \in Ops /\ c.dest \in Sets /\ c.left \in Sets /\ c.right \in Sets
  /\ c.bit \in Nat /\ c.bits \subseteq Nat /\ c.value \in BOOLEAN /\ c.owned \in BOOLEAN

\* The calls have the types of the C functions.
LEMMA CallsAreTyped == \A c \in AllCalls : IsTypedCall(c)
<1> SUFFICES ASSUME NEW op \in Ops, NEW owned \in BOOLEAN, NEW c \in CallsOf(op, owned)
             PROVE  IsTypedCall(c)
  BY DEF AllCalls
<1>1. Byte \in SUBSET Nat /\ Word \in SUBSET Nat /\ FALSE \in BOOLEAN /\ {} \in SUBSET Nat
        /\ 0 \in Nat /\ \A m \in SUBSET Word : m \in SUBSET Nat
  BY LengthsAssumption DEF Byte, Word
<1>2. \A i \in Bits : i \in Nat /\ i + 1 \in Nat
  BY BitsAssumption
<1>3. \A d, l, r \in Sets, i \in Nat, v \in BOOLEAN, m \in SUBSET Nat :
        IsTypedCall(NewCall(op, owned, d, l, r, i, v, m))
  BY DEF IsTypedCall, NewCall
<1>4. CASE op \in {"assign", "newindex"}
  <2>1. PICK a \in Sets, i \in Bits, v \in BOOLEAN : c = NewCall(op, owned, a, a, a, i, v, {})
    BY <1>4 DEF CallsOf, NewCall
  <2> QED BY <2>1, <1>1, <1>2, <1>3
<1>5. CASE op \in {"toggle", "move"}
  <2>1. PICK a \in Sets, i \in Bits : c = NewCall(op, owned, a, a, a, i, FALSE, {})
    BY <1>5 DEF CallsOf, NewCall
  <2> QED BY <2>1, <1>1, <1>2, <1>3
<1>6. CASE op = "reverse"
  <2>1. PICK a \in Sets, i \in Bits : c = NewCall(op, owned, a, a, a, i + 1, FALSE, {})
    BY <1>6 DEF CallsOf, NewCall
  <2> QED BY <2>1, <1>1, <1>2, <1>3
<1>7. CASE op \in {"and", "or", "xor", "_and", "_or", "_xor", "copy", "swap", "add_sticky"}
  <2>1. PICK l \in Sets, r \in Sets : c = NewCall(op, owned, l, l, r, 0, FALSE, {})
    BY <1>7 DEF CallsOf, NewCall
  <2> QED BY <2>1, <1>1, <1>2, <1>3
<1>8. CASE op \in {"flip", "_not", "clear"}
  <2>1. PICK a \in Sets : c = NewCall(op, owned, a, a, a, 0, FALSE, {})
    BY <1>8 DEF CallsOf, NewCall
  <2> QED BY <2>1, <1>1, <1>2, <1>3
<1>9. CASE op = "mask"
  <2>1. PICK a \in Sets, m \in {{}, Byte} : c = NewCall(op, owned, a, a, a, 0, FALSE, m)
    BY <1>9 DEF CallsOf, NewCall
  <2> QED BY <2>1, <1>1, <1>2, <1>3
<1>10. CASE op \in {"meta_and", "meta_or", "meta_xor"}
  <2>1. PICK d \in Sets, l \in Sets, r \in Sets : c = NewCall(op, owned, d, l, r, 0, FALSE, {})
    BY <1>10 DEF CallsOf, NewCall
  <2> QED BY <2>1, <1>1, <1>2, <1>3
<1>11. CASE op = "meta_not"
  <2>1. PICK d \in Sets, l \in Sets : c = NewCall(op, owned, d, l, l, 0, FALSE, {})
    BY <1>11 DEF CallsOf, NewCall
  <2> QED BY <2>1, <1>1, <1>2, <1>3
<1>12. CASE op = "integer"
  <2>1. PICK a \in Sets, m \in SUBSET Word : c = NewCall(op, owned, a, a, a, 0, FALSE, m)
    BY <1>12 DEF CallsOf, NewCall
  <2> QED BY <2>1, <1>1, <1>2, <1>3
<1> QED BY <1>4, <1>5, <1>6, <1>7, <1>8, <1>9, <1>10, <1>11, <1>12 DEF Ops

\* A loop over sets that exist, and a copy of one.
LEMMA LoopIsTyped ==
  ASSUME NEW name \in LoopNames, NEW d \in AllSets, NEW s \in AllSets, NEW bits \in SUBSET Nat
  PROVE  /\ Loop(name, d, s, bits) \in LoopType
         /\ <<Loop(name, d, s, bits)>> \in Seq(LoopType)
<1>1. Loop(name, d, s, bits) \in LoopType
  BY DEF Loop, LoopType
<1> QED BY <1>1

\* bitset_assign_bitset is a loop over sets that exist.
LEMMA CopyIsTyped ==
  ASSUME NEW d \in AllSets, NEW s \in AllSets
  PROVE  Copy(d, s) \in Seq(LoopType)
<1>1. "copy" \in LoopNames /\ {} \in SUBSET Nat
  BY DEF LoopNames
<1>2. <<Loop("copy", d, s, {})>> \in Seq(LoopType)
  BY <1>1, LoopIsTyped
<1>3. <<>> \in Seq(LoopType)
  OBVIOUS
<1> QED BY <1>2, <1>3 DEF Copy

\* call_bitset_func copies there and back, around loops over sets that exist.
LEMMA ScriptCallIsTyped ==
  ASSUME NEW self \in AllSets, NEW owned \in BOOLEAN, NEW loops \in Seq(LoopType)
  PROVE  CallBitsetFunc(self, owned, loops) \in Seq(LoopType)
<1>1. Copy(tmp, self) \in Seq(LoopType) /\ Copy(self, tmp) \in Seq(LoopType)
  BY CopyIsTyped DEF AllSets
<1> QED BY <1>1 DEF CallBitsetFunc

\* A call is a sequence of loops over sets that exist.
LEMMA ProgramsAreTyped ==
  ASSUME NEW c, IsTypedCall(c)
  PROVE  ProgramOf(c) \in Seq(LoopType)
<1>1. c.left \in AllSets /\ c.right \in AllSets /\ c.dest \in AllSets
        /\ tmp \in AllSets /\ local_tmp \in AllSets
  BY DEF IsTypedCall, AllSets
<1>2. c.bit \in Nat /\ {c.bit} \in SUBSET Nat /\ c.bits \in SUBSET Nat /\ {} \in SUBSET Nat
        /\ c.owned \in BOOLEAN /\ c.value \in BOOLEAN
  BY DEF IsTypedCall
<1>3. Byte \in SUBSET Nat /\ WordLen \in Nat
  BY LengthsAssumption DEF Byte
<1>7. \A name \in LoopNames, d, s \in AllSets, bits \in SUBSET Nat :
        Loop(name, d, s, bits) \in LoopType /\ <<Loop(name, d, s, bits)>> \in Seq(LoopType)
  BY LoopIsTyped
<1>4. \A a \in AllSets : AssignOne(a, c) \in Seq(LoopType)
  BY <1>2, <1>7 DEF AssignOne, LoopNames
<1>5. \A a \in AllSets, end \in Nat : BitsetReverse(a, end) \in Seq(LoopType)
  <2> SUFFICES ASSUME NEW a \in AllSets, NEW end \in Nat PROVE BitsetReverse(a, end) \in Seq(LoopType)
    OBVIOUS
  <2>1. 0..(end - 1) \in SUBSET Nat
    OBVIOUS
  <2>2. <<Loop("reverse", a, local_tmp, 0..(end - 1))>> \in Seq(LoopType)
    BY <1>1, <2>1, <1>7 DEF LoopNames
  <2>3. Copy(local_tmp, a) \in Seq(LoopType)
    BY <1>1, CopyIsTyped
  <2> QED BY <2>2, <2>3 DEF BitsetReverse
<1>6. \A loops \in Seq(LoopType) : Meta(c, loops) \in Seq(LoopType)
  <2>1. <<Loop("create", c.dest, c.dest, {})>> \in Seq(LoopType)
    BY <1>1, <1>2, <1>7 DEF LoopNames
  <2>2. Copy(c.dest, c.left) \in Seq(LoopType)
    BY <1>1, CopyIsTyped
  <2> QED BY <2>1, <2>2 DEF Meta
<1>8. CASE c.op \in {"assign", "toggle", "and", "or", "xor", "flip", "mask", "clear"}
  <2>1. CASE c.op = "assign"
    BY <2>1, <1>1, <1>4 DEF ProgramOf
  <2>2. CASE c.op \in {"and", "or", "xor"}
    <3>1. ProgramOf(c) = <<Loop(c.op, c.left, c.right, {})>>
      BY <2>2 DEF ProgramOf
    <3> QED BY <3>1, <2>2, <1>1, <1>2, <1>7 DEF LoopNames
  <2>3. CASE c.op = "toggle"
    <3>1. ProgramOf(c) = <<Loop("keep", c.left, c.left, {c.bit})>>
      BY <2>3 DEF ProgramOf
    <3> QED BY <3>1, <1>1, <1>2, <1>7 DEF LoopNames
  <2>4. CASE c.op = "flip"
    <3>1. ProgramOf(c) = <<Loop("flip", c.left, c.left, Byte)>>
      BY <2>4 DEF ProgramOf
    <3> QED BY <3>1, <1>1, <1>3, <1>7 DEF LoopNames
  <2>5. CASE c.op = "mask"
    <3>1. ProgramOf(c) = <<Loop("mask", c.left, c.left, c.bits)>>
      BY <2>5 DEF ProgramOf
    <3> QED BY <3>1, <1>1, <1>2, <1>7 DEF LoopNames
  <2>6. CASE c.op = "clear"
    <3>1. ProgramOf(c) = <<Loop("clear", c.left, c.left, {})>>
      BY <2>6 DEF ProgramOf
    <3> QED BY <3>1, <1>1, <1>2, <1>7 DEF LoopNames
  <2> QED BY <1>8, <2>1, <2>2, <2>3, <2>4, <2>5, <2>6
<1>9. CASE c.op \in {"newindex", "_and", "_or", "_xor", "_not"}
  <2>1. PICK loops : loops \in Seq(LoopType) /\ ProgramOf(c) = CallBitsetFunc(c.left, c.owned, loops)
    <3>1. <<Loop("and", tmp, c.right, {})>> \in Seq(LoopType)
            /\ <<Loop("or", tmp, c.right, {})>> \in Seq(LoopType)
            /\ <<Loop("xor", tmp, c.right, {})>> \in Seq(LoopType)
            /\ <<Loop("flip", tmp, tmp, Byte)>> \in Seq(LoopType)
            /\ AssignOne(tmp, c) \in Seq(LoopType)
      BY <1>1, <1>2, <1>3, <1>4, <1>7 DEF LoopNames
    <3>2. CASE c.op = "newindex"
      BY <3>1, <3>2 DEF ProgramOf
    <3>3. CASE c.op = "_not"
      BY <3>1, <3>3 DEF ProgramOf
    <3>4. CASE c.op \in {"_and", "_or", "_xor"}
      BY <3>1, <3>4 DEF ProgramOf, Operator
    <3> QED BY <1>9, <3>2, <3>3, <3>4
  <2> QED BY <2>1, <1>1, <1>2, ScriptCallIsTyped
<1>10. CASE c.op \in MetaOps
  <2>1. PICK loops : loops \in Seq(LoopType) /\ ProgramOf(c) = Meta(c, loops)
    <3>1. <<Loop("and", c.dest, c.right, {})>> \in Seq(LoopType)
            /\ <<Loop("or", c.dest, c.right, {})>> \in Seq(LoopType)
            /\ <<Loop("xor", c.dest, c.right, {})>> \in Seq(LoopType)
            /\ <<Loop("flip", c.dest, c.dest, Byte)>> \in Seq(LoopType)
      BY <1>1, <1>2, <1>3, <1>7 DEF LoopNames
    <3>2. CASE c.op = "meta_not"
      BY <3>1, <3>2 DEF ProgramOf
    <3>3. CASE c.op \in {"meta_and", "meta_or", "meta_xor"}
      BY <3>1, <3>3 DEF ProgramOf, Operator
    <3> QED BY <1>10, <3>2, <3>3 DEF MetaOps
  <2> QED BY <2>1, <1>6
<1>11. CASE c.op = "move"
  <2>1. <<Loop("mask", c.left, c.left, {}), Loop("set", c.left, c.left, {c.bit})>>
          \in Seq(LoopType)
    <3>1. Loop("mask", c.left, c.left, {}) \in LoopType
            /\ Loop("set", c.left, c.left, {c.bit}) \in LoopType
      BY <1>1, <1>2, <1>7 DEF LoopNames
    <3> QED BY <3>1
  <2> QED BY <2>1, <1>11 DEF ProgramOf
<1>12. CASE c.op = "reverse"
  BY <1>1, <1>2, <1>5, <1>12 DEF ProgramOf
<1>13. CASE c.op = "copy"
  BY <1>1, <1>13, CopyIsTyped DEF ProgramOf
<1>14. CASE c.op = "swap"
  <2>1. Copy(local_tmp, c.left) \in Seq(LoopType) /\ Copy(c.left, c.right) \in Seq(LoopType)
          /\ Copy(c.right, local_tmp) \in Seq(LoopType)
    BY <1>1, CopyIsTyped
  <2> QED BY <2>1, <1>14 DEF ProgramOf, Swap
<1>15. CASE c.op = "add_sticky"
  <2>1. <<Loop("xor", c.left, c.right, {})>> \in Seq(LoopType) /\ Copy(c.right, c.left) \in Seq(LoopType)
    <3>1. <<Loop("xor", c.left, c.right, {})>> \in Seq(LoopType)
      BY <1>1, <1>2, <1>7 DEF LoopNames
    <3> QED BY <3>1, <1>1, CopyIsTyped
  <2> QED BY <2>1, <1>15 DEF ProgramOf, AddSticky
<1>16. CASE c.op = "integer"
  <2>1. <<Loop("create", c.dest, c.dest, {}), Loop("integer", c.dest, c.dest, c.bits)>>
          \in Seq(LoopType)
    <3>1. Loop("create", c.dest, c.dest, {}) \in LoopType
            /\ Loop("integer", c.dest, c.dest, c.bits) \in LoopType
      BY <1>1, <1>2, <1>7 DEF LoopNames
    <3> QED BY <3>1
  <2>2. BitsetReverse(c.dest, WordLen) \in Seq(LoopType)
    BY <1>1, <1>3, <1>5
  <2> QED BY <2>1, <2>2, <1>16 DEF ProgramOf
<1> QED BY <1>8, <1>9, <1>10, <1>11, <1>12, <1>13, <1>14, <1>15, <1>16 DEF IsTypedCall, Ops, MetaOps

-----------------------------------------------------------------------------
(* The invariant *)

Bounded(b) == b \in BitSet /\ b.on \subseteq b.keys /\ Tight(b)

\* What holds between any two turns: the bounds hold the members, and what is
\* left of the call is made of loops over sets that exist.
BitSetsInv ==
  /\ setup \in Setups
  /\ bitsets \in [AllSets -> BitSet]
  /\ \A a \in AllSets : Bounded(bitsets[a])
  /\ call \in Calls \cup {NoCall}
  /\ program \in Seq(LoopType)
  /\ todo \subseteq Nat
  /\ program = <<>> => todo = {}
  /\ was \in [Sets -> SUBSET Nat]

\* The bits of a loop are numbers.
LEMMA BitsAreNumbers ==
  ASSUME BitSetsInv, NEW l \in LoopType
  PROVE  BitsOf(l) \subseteq Nat
<1>1. l.dest \in AllSets /\ l.src \in AllSets /\ l.bits \subseteq Nat
  BY DEF LoopType
<1>2. /\ bitsets[l.dest].low \in Nat /\ bitsets[l.dest].high \in Nat
      /\ bitsets[l.src].low \in Nat /\ bitsets[l.src].high \in Nat
      /\ bitsets[l.src].keys \subseteq Nat
  BY <1>1 DEF BitSetsInv, BitSet
<1>3. Byte \subseteq Nat /\ Word \subseteq Nat
  BY LengthsAssumption DEF Byte, Word
<1>4. Smaller(bitsets[l.dest].low, bitsets[l.src].low)
        ..Larger(bitsets[l.dest].high, bitsets[l.src].high) \subseteq Nat
  BY <1>2 DEF Smaller, Larger
<1>5. CASE l.loop \in {"and", "or", "xor"}
  BY <1>4, <1>5 DEF BitsOf
<1>6. CASE l.loop \in {"copy", "clear", "create", "mask", "integer"}
  BY <1>2, <1>3, <1>6 DEF BitsOf
<1>7. CASE l.loop \notin {"and", "or", "xor", "copy", "clear", "create", "mask", "integer"}
  BY <1>1, <1>7 DEF BitsOf
<1> QED BY <1>5, <1>6, <1>7

\* A loop that empties its destination first leaves stale bounds, which are bounds
\* all the same.
LEMMA PreparedIsBounded ==
  ASSUME BitSetsInv, NEW l \in LoopType
  PROVE  Bounded(Prepared(l))
<1>1. Bounded(bitsets[l.dest])
  BY DEF BitSetsInv, LoopType
<1>2. Bounded(Empty)
  BY DEF Bounded, Empty, BitSet, Tight
<1>3. Bounded(RemovedAll(bitsets[l.dest]))
  BY <1>1 DEF Bounded, RemovedAll, BitSet, Tight
<1> QED BY <1>1, <1>2, <1>3 DEF Prepared

\* A turn assigns true or false.
LEMMA ValueIsBoolean ==
  ASSUME NEW l, NEW i
  PROVE  Value(l, i) \in BOOLEAN
<1>1. CASE l.loop = "and"
  BY <1>1 DEF Value
<1>2. CASE l.loop = "or"
  BY <1>2 DEF Value
<1>3. CASE l.loop = "xor"
  BY <1>3 DEF Value
<1>4. CASE l.loop = "copy"
  BY <1>4 DEF Value
<1>5. CASE l.loop = "flip"
  BY <1>5 DEF Value
<1>6. CASE l.loop = "set"
  BY <1>6 DEF Value
<1>7. CASE l.loop = "reset"
  BY <1>7 DEF Value
<1>8. CASE l.loop = "mask"
  BY <1>8 DEF Value
<1>9. CASE l.loop = "integer"
  BY <1>9 DEF Value
<1>10. CASE l.loop = "reverse"
  BY <1>10 DEF Value
<1>11. CASE l.loop \notin {"and", "or", "xor", "copy", "flip", "set", "reset", "mask", "integer", "reverse"}
  <2>1. /\ l.loop # "and" /\ l.loop # "or" /\ l.loop # "xor" /\ l.loop # "copy"
        /\ l.loop # "flip" /\ l.loop # "set" /\ l.loop # "reset" /\ l.loop # "mask"
        /\ l.loop # "integer" /\ l.loop # "reverse"
    BY <1>11
  <2>2. Value(l, i) = (i \in bitsets[l.dest].on)
    BY <2>1, Zenon DEF Value
  <2> QED BY <2>2
<1> QED BY <1>1, <1>2, <1>3, <1>4, <1>5, <1>6, <1>7, <1>8, <1>9, <1>10, <1>11

\* Preparing the next loop leaves bounds of the members and numbers to go through.
LEMMA StartKeepsBitSetsInv ==
  ASSUME BitSetsInv, NEW p \in Seq(LoopType), Start(p)
  PROVE  /\ bitsets' \in [AllSets -> BitSet] /\ \A a \in AllSets : Bounded(bitsets'[a])
         /\ program' \in Seq(LoopType) /\ todo' \subseteq Nat
         /\ program' = <<>> => todo' = {}
<1>1. CASE p = <<>>
  BY <1>1 DEF Start, BitSetsInv
<1>2. CASE p # <<>>
  <2>1. p[1] \in LoopType /\ p[1].dest \in AllSets
    <3>1. p[1] \in LoopType
      BY <1>2
    <3> QED BY <3>1 DEF LoopType
  <2>2. bitsets' = [bitsets EXCEPT ![p[1].dest] = Prepared(p[1])] /\ todo' = BitsOf(p[1])
          /\ program' = p
    BY <1>2 DEF Start
  <2>3. Bounded(Prepared(p[1])) /\ BitsOf(p[1]) \subseteq Nat
    BY <2>1, PreparedIsBounded, BitsAreNumbers
  <2> HIDE DEF Prepared
  <2>4. Prepared(p[1]) \in BitSet
    BY <2>3 DEF Bounded
  <2> QED BY <1>2, <2>1, <2>2, <2>3, <2>4 DEF BitSetsInv
<1> QED BY <1>1, <1>2

\* Sets that nobody has assigned to are empty, with bounds 0 and 0.
LEMMA InitEstablishesBitSetsInv == BitSetsInit => BitSetsInv
<1> SUFFICES ASSUME BitSetsInit PROVE BitSetsInv
  OBVIOUS
<1>1. Empty \in BitSet /\ Bounded(Empty)
  BY DEF Bounded, Empty, BitSet, Tight
<1>2. bitsets \in [AllSets -> BitSet] /\ \A a \in AllSets : Bounded(bitsets[a])
  BY <1>1 DEF BitSetsInit
<1>3. was \in [Sets -> SUBSET Nat]
  BY DEF BitSetsInit, Members, AllSets, Empty
<1> QED BY <1>2, <1>3 DEF BitSetsInit, BitSetsInv

\* Every call, turn and return keeps the invariant.
LEMMA StepKeepsBitSetsInv == BitSetsInv /\ [BitSetsNext]_bitsetVars => BitSetsInv'
<1> SUFFICES ASSUME BitSetsInv, [BitSetsNext]_bitsetVars PROVE BitSetsInv'
  OBVIOUS
<1>1. CASE Call
  <2>1. call' \in Calls /\ setup' = setup /\ was' = was /\ Start(ProgramOf(call'))
    BY <1>1 DEF Call
  <2>2. call' \in AllCalls
    BY <2>1 DEF Calls
  <2>3. ProgramOf(call') \in Seq(LoopType)
    BY <2>2, CallsAreTyped, ProgramsAreTyped
  <2>4. Calls' = Calls
    BY <2>1 DEF Calls
  <2> QED BY <2>1, <2>3, <2>4, StartKeepsBitSetsInv DEF BitSetsInv
<1>2. CASE Turn
  <2>1. PICK i \in todo :
          /\ bitsets' = [bitsets EXCEPT
               ![program[1].dest] = Assigned(bitsets[program[1].dest], i, Value(program[1], i))]
          /\ todo' = todo \ {i}
    <3>1. todo # {} /\ todo \in SUBSET Nat
      BY <1>2 DEF Turn, BitSetsInv
    <3>2. Least(todo) \in todo
      BY <3>1, LeastExists
    <3> QED BY <1>2, <3>2 DEF Turn
  <2>2. setup' = setup /\ call' = call /\ program' = program /\ was' = was
    BY <1>2 DEF Turn
  <2>3. program # <<>> /\ program \in Seq(LoopType)
    BY <2>1 DEF BitSetsInv
  <2> DEFINE d == program[1].dest
             v == Value(program[1], i)
             e == Assigned(bitsets[d], i, v)
  <2>4. d \in AllSets
    <3>1. program[1] \in LoopType
      BY <2>3
    <3> QED BY <3>1 DEF LoopType
  <2>5. v \in BOOLEAN
    BY ValueIsBoolean
  <2>6. bitsets[d] \in BitSet /\ bitsets[d].on \subseteq bitsets[d].keys /\ Tight(bitsets[d])
          /\ i \in Nat
    BY <2>4 DEF BitSetsInv, Bounded
  <2> HIDE DEF v
  <2>7. e \in BitSet /\ e.on \subseteq e.keys /\ Tight(e)
    BY <2>5, <2>6, AssignedKeepsBounds
  <2>8. bitsets' = [bitsets EXCEPT ![d] = e]
    BY <2>1 DEF v
  <2> HIDE DEF d, e
  <2>9. bitsets' \in [AllSets -> BitSet]
    BY <2>7, <2>8 DEF BitSetsInv
  <2>10. \A a \in AllSets : Bounded(bitsets'[a])
    BY <2>7, <2>8 DEF BitSetsInv, Bounded
  <2>11. Calls' = Calls
    BY <2>2 DEF Calls
  <2> QED BY <2>1, <2>2, <2>3, <2>9, <2>10, <2>11 DEF BitSetsInv
<1>3. CASE NextLoop
  <2>1. program # <<>> /\ program \in Seq(LoopType) /\ Start(Tail(program))
          /\ setup' = setup /\ call' = call /\ was' = was
    BY <1>3 DEF NextLoop, BitSetsInv
  <2>2. Tail(program) \in Seq(LoopType)
    BY <2>1
  <2>3. Calls' = Calls
    BY <2>1 DEF Calls
  <2> QED BY <2>1, <2>2, <2>3, StartKeepsBitSetsInv DEF BitSetsInv
<1>4. CASE Return
  <2>1. Members \in [Sets -> SUBSET Nat]
    BY DEF Members, BitSetsInv, BitSet, AllSets
  <2>2. Calls' = Calls
    BY <1>4 DEF Calls, Return
  <2> QED BY <1>4, <2>1, <2>2 DEF Return, BitSetsInv
<1>5. CASE UNCHANGED bitsetVars
  <2>1. Calls' = Calls
    BY <1>5 DEF Calls, bitsetVars
  <2> QED BY <1>5, <2>1 DEF bitsetVars, BitSetsInv
<1> QED BY <1>1, <1>2, <1>3, <1>4, <1>5 DEF BitSetsNext

\* So the invariant holds between any two assignments of any calls.
LEMMA BitSetsInvHolds == BitSetsSpec => []BitSetsInv
<1> QED BY InitEstablishesBitSetsInv, StepKeepsBitSetsInv, PTL DEF BitSetsSpec

-----------------------------------------------------------------------------
(* The theorems *)

\* Every set has entries for its members, and every loop bits to go through.
THEOREM BitSetsTypeCorrect == BitSetsSpec => []BitSetsTypeOK
<1>1. BitSetsInv => BitSetsTypeOK
  BY DEF BitSetsInv, BitSetsTypeOK, Bounded, BitSet
<1> QED BY <1>1, BitSetsInvHolds, PTL

\* Between any two assignments of any calls, the bounds of a set hold its
\* members, and are members themselves when there are two of them: no loop from
\* low to high (bit_wise_operation, bitset_equals) misses a bit.
THEOREM BoundsHoldMembers == BitSetsSpec => []RangeIsTight
<1>1. BitSetsInv => RangeIsTight
  BY DEF BitSetsInv, RangeIsTight, Bounded
<1> QED BY <1>1, BitSetsInvHolds, PTL

\* Whatever is called, loops find every member between the bounds.
THEOREM BoundsAlwaysSound == BitSetsSpec => []BoundsSound
BY BitSetsTypeCorrect, BoundsHoldMembers, PTL DEF BoundsSound

\* bitset_equals never calls two different sets equal, and finds every two equal
\* sets with two members to be so.
THEOREM EqualityIsExact == BitSetsSpec => []EqualsIsExact
<1>1. ASSUME BitSetsInv PROVE EqualsIsExact
  <2> SUFFICES ASSUME NEW a \in AllSets, NEW b \in AllSets
               PROVE  /\ Equals(bitsets[a], bitsets[b]) => bitsets[a].on = bitsets[b].on
                      /\ bitsets[a].on = bitsets[b].on
                           /\ (\E i, j \in bitsets[a].on : i # j)
                           => Equals(bitsets[a], bitsets[b])
    BY DEF EqualsIsExact
  <2> DEFINE A == bitsets[a]
             B == bitsets[b]
  <2>1. /\ A.on \subseteq Nat /\ B.on \subseteq Nat
        /\ A.low \in Nat /\ A.high \in Nat /\ B.low \in Nat /\ B.high \in Nat
        /\ Tight(A) /\ Tight(B)
    BY <1>1 DEF BitSetsInv, Bounded, BitSet
  <2> HIDE DEF A, B
  <2>2. ASSUME Equals(A, B) PROVE A.on = B.on
    <3>1. A.on \subseteq A.low..B.high /\ B.on \subseteq A.low..B.high
      BY <2>1, <2>2 DEF Tight, Equals
    <3> QED BY <3>1, <2>2 DEF Equals
  <2>3. ASSUME A.on = B.on, NEW i \in A.on, NEW j \in A.on, i # j PROVE Equals(A, B)
    <3>1. /\ A.low \in A.on /\ A.high \in A.on /\ B.low \in A.on /\ B.high \in A.on
      BY <2>1, <2>3 DEF Tight
    <3>2. A.low = B.low /\ A.high = B.high
      BY <2>1, <2>3, <3>1 DEF Tight
    <3> QED BY <2>3, <3>2 DEF Equals
  <2> QED BY <2>2, <2>3 DEF A, B
<1> QED BY <1>1, BitSetsInvHolds, PTL

(***************************************************************************)
(* AsyncExec: the slot is never empty when the handler reads it, and as    *)
(* long as scripts wait for each result the hand-over implements what the  *)
(* manual promises.                                                        *)
(***************************************************************************)

-----------------------------------------------------------------------------
(* Any scripts *)

\* A thread that is about to wake the loop has filled the slot.
SlotFilled ==
  /\ AsyncTypeOK
  /\ HandlerHasData
  /\ \A j \in Jobs : stage[j] = "stored" => slot # NoJob
  /\ loop \in {"taken", "called"} => data # NoJob
  /\ \A j \in Jobs : stage[j] = "new" => j # slot /\ j # data

\* The invariant holds initially and every step of a thread or of the event
\* loop keeps it.
LEMMA SlotStaysFilled == AsyncSpec => []SlotFilled
<1>1. ASSUME AsyncInit PROVE SlotFilled
  <2>1. AsyncTypeOK
    BY <1>1 DEF AsyncInit, AsyncTypeOK
  <2>2. HandlerHasData /\ loop = "idle"
    BY <1>1 DEF AsyncInit, HandlerHasData
  <2>3. \A j \in Jobs : stage[j] # "stored"
    BY <1>1 DEF AsyncInit
  <2>4. slot \notin Jobs /\ data \notin Jobs
    BY <1>1, NoJobAssumption DEF AsyncInit
  <2> QED BY <2>1, <2>2, <2>3, <2>4 DEF SlotFilled
<1>2. SlotFilled /\ [AsyncNext]_asyncVars => SlotFilled'
  <2> SUFFICES ASSUME SlotFilled, [AsyncNext]_asyncVars PROVE SlotFilled'
    OBVIOUS
  <2> USE NoJobAssumption, WithFunctionAssumption DEF SlotFilled, AsyncTypeOK, HandlerHasData
  <2>1. ASSUME NEW j \in Jobs, LibExec(j) PROVE SlotFilled'
    BY <2>1 DEF LibExec
  <2>2. ASSUME NEW j \in Jobs, PopenFails(j) PROVE SlotFilled'
    BY <2>2 DEF PopenFails
  <2>3. ASSUME NEW j \in Jobs, Store(j) PROVE SlotFilled'
    BY <2>3 DEF Store
  <2>4. ASSUME NEW j \in Jobs, Send(j) PROVE SlotFilled'
    BY <2>4 DEF Send
  <2>5. CASE Wake
    BY <2>5 DEF Wake
  <2>6. CASE Take
    BY <2>6 DEF Take
  <2>7. CASE CallFunction
    <3>1. calls' \in [Jobs -> Nat]
      BY <2>7 DEF CallFunction, Callees
    <3> QED BY <2>7, <3>1 DEF CallFunction
  <2>8. CASE Free
    BY <2>8 DEF Free
  <2>9. CASE UNCHANGED asyncVars
    BY <2>9 DEF asyncVars
  <2> QED BY <2>1, <2>2, <2>3, <2>4, <2>5, <2>6, <2>7, <2>8, <2>9 DEF AsyncNext, Thread, EventLoop
<1> QED BY <1>1, <1>2, PTL DEF AsyncSpec

\* Type correctness of the threads, the slot and the handler.
THEOREM AsyncTypeCorrect == AsyncSpec => []AsyncTypeOK
<1>1. SlotFilled => AsyncTypeOK
  BY DEF SlotFilled
<1> QED BY <1>1, SlotStaysFilled, PTL

\* The handler never dereferences the null pointer the slot starts with,
\* however many commands overlap.
THEOREM HandlerAlwaysHasData == AsyncSpec => []HandlerHasData
<1>1. SlotFilled => HandlerHasData
  BY DEF SlotFilled
<1> QED BY <1>1, SlotStaysFilled, PTL

-----------------------------------------------------------------------------
(* Scripts that wait for each result, until the first overlap *)

\* The job has a result that nobody has called for yet.
Fresh(j) ==
  /\ j \in WithFunction
  /\ stage[j] = "done"
  /\ calls[j] = 0
  /\ j \notin freed

\* At most one result is outstanding, and the slot and the handler hold it.
OneAtATime ==
  /\ \A i, j \in Jobs : Outstanding(i) /\ Outstanding(j) => i = j
  /\ \A j \in Jobs : stage[j] = "stored" => j \in WithFunction /\ slot = j /\ ~pending
  /\ pending => Fresh(slot) /\ loop \in {"idle", "called"}
  /\ loop = "woken" => Fresh(slot)
  /\ loop = "taken" => Fresh(data)
  /\ loop = "called" => data \in WithFunction /\ calls[data] = 1
  /\ \A j \in freed : calls[j] = 1
  /\ \A j \in Jobs : calls[j] # 0 => calls[j] = 1 /\ stage[j] = "done" /\ j \in WithFunction

SerialInv == SlotFilled /\ (~overlapped => OneAtATime)

\* Until the first overlap a command starts only when no other result is
\* outstanding, so every step keeps the single result in its place.
LEMMA SerialStep ==
  ASSUME SerialInv, [AsyncNext]_asyncVars, SlotFilled', ~overlapped'
  PROVE  OneAtATime'
<1>0. ~overlapped /\ OneAtATime /\ SlotFilled
  <2>1. overlapped \in BOOLEAN
    BY DEF SerialInv, SlotFilled, AsyncTypeOK
  <2>2. overlapped => overlapped'
    BY <2>1 DEF AsyncNext, Thread, EventLoop, LibExec, PopenFails, Store, Send, Wake, Take, CallFunction, Free, asyncVars
  <2> QED BY <2>1, <2>2 DEF SerialInv
<1> USE <1>0, NoJobAssumption, WithFunctionAssumption
    DEF SlotFilled, AsyncTypeOK, OneAtATime, Fresh, Outstanding
<1>1. ASSUME NEW j \in Jobs, LibExec(j) PROVE OneAtATime'
  <2>1. \A i \in Jobs : ~Outstanding(i)
    BY <1>1 DEF LibExec
  <2> QED BY <1>1, <2>1 DEF LibExec
<1>2. ASSUME NEW j \in Jobs, PopenFails(j) PROVE OneAtATime'
  BY <1>2 DEF PopenFails
<1>3. ASSUME NEW j \in Jobs, Store(j) PROVE OneAtATime'
  BY <1>3 DEF Store
<1>4. ASSUME NEW j \in Jobs, Send(j) PROVE OneAtATime'
  BY <1>4 DEF Send
<1>5. CASE Wake
  BY <1>5 DEF Wake
<1>6. CASE Take
  BY <1>6 DEF Take
<1>7. CASE CallFunction
  <2>1. Callees = {data} /\ data \in WithFunction
    BY <1>7 DEF CallFunction, Callees
  <2>2. calls' = [calls EXCEPT ![data] = 1]
    BY <1>7, <2>1 DEF CallFunction
  <2> QED BY <1>7, <2>2 DEF CallFunction
<1>8. CASE Free
  BY <1>8 DEF Free
<1>9. CASE UNCHANGED asyncVars
  BY <1>9 DEF asyncVars
<1> QED BY <1>1, <1>2, <1>3, <1>4, <1>5, <1>6, <1>7, <1>8, <1>9 DEF AsyncNext, Thread, EventLoop

\* The strengthened invariant.
LEMMA SerialInvariance == AsyncSpec => []SerialInv
<1>1. AsyncInit => OneAtATime
  BY NoJobAssumption DEF AsyncInit, OneAtATime, Fresh, Outstanding
<1>2. SerialInv /\ [AsyncNext]_asyncVars /\ SlotFilled' => SerialInv'
  BY SerialStep DEF SerialInv
<1>3. SerialInv <=> SlotFilled /\ (~overlapped => OneAtATime)
  BY DEF SerialInv
<1> QED BY <1>1, <1>2, <1>3, SlotStaysFilled, PTL DEF AsyncSpec

\* As long as scripts wait for each result, the handler never reads one that
\* was freed, so a wake-up is never served twice.
THEOREM FreedNeverUsed == AsyncSpec => []NoUseAfterFree
<1>1. SerialInv => NoUseAfterFree
  BY DEF SerialInv, OneAtATime, Fresh, NoUseAfterFree
<1> QED BY <1>1, SerialInvariance, PTL

\* What the handler of the event loop follows is there and not freed.
THEOREM HandlerAlwaysSound == AsyncSpec => []HandlerSound
BY AsyncTypeCorrect, HandlerAlwaysHasData, FreedNeverUsed, PTL DEF HandlerSound

\* The phases and the outstanding results of the promise, in terms of the
\* threads.
LEMMA Mapped ==
  ASSUME SlotFilled
  PROVE  /\ \A j \in Jobs : stage[j] \in {"new", "failed"} => Phase(j) = stage[j]
         /\ \A j \in Jobs : stage[j] = "command" => Phase(j) = "running"
         /\ \A j \in Jobs : stage[j] \in {"stored", "done"} => Phase(j) = "ended"
BY DEF Phase, SlotFilled, AsyncTypeOK

\* Every step of the threads and of the event loop is a step of what the manual
\* promises, or changes nothing of it: whatever scripts do, each function is
\* called once and only after its command has ended, until commands overlap.
THEOREM PromiseIsKept == AsyncSpec => Promise!Safety
<1>1. ASSUME AsyncInit PROVE Promise!Init
  <2>1. [j \in Jobs |-> Phase(j)] = [j \in Jobs |-> "new"]
    BY <1>1 DEF AsyncInit, Phase
  <2> QED BY <1>1, <2>1 DEF AsyncInit, Promise!Init
<1>2. ASSUME SerialInv, SerialInv', [AsyncNext]_asyncVars PROVE [Promise!Next]_(Promise!vars)
  <2> DEFINE ph == [j \in Jobs |-> Phase(j)]
  <2> USE WithFunctionAssumption, NoJobAssumption
  <2>0. SlotFilled /\ SlotFilled' /\ (~overlapped => OneAtATime) /\ AsyncTypeOK
    BY <1>2 DEF SerialInv, SlotFilled
  <2>a. /\ \A j \in Jobs : stage[j] \in {"new", "failed"} => ph[j] = stage[j]
        /\ \A j \in Jobs : stage[j] = "command" => ph[j] = "running"
        /\ \A j \in Jobs : stage[j] \in {"stored", "done"} => ph[j] = "ended"
    BY <2>0, Mapped
  <2>1. ASSUME NEW j \in Jobs, LibExec(j) PROVE Promise!Start(j)
    <3>1. ph[j] = "new" /\ ph' = [ph EXCEPT ![j] = "running"]
      BY <2>0, <2>1 DEF LibExec, Phase, AsyncTypeOK
    <3>2. ASSUME ~overlapped, NEW i \in Jobs
          PROVE  Promise!Outstanding(i) <=> Outstanding(i)
      <4>1. stage[i] \in {"new", "command", "stored", "done", "failed"}
        BY <2>0 DEF AsyncTypeOK
      <4>2. stage[i] = "stored" => i \in WithFunction /\ calls[i] = 0
        BY <2>0, <3>2 DEF OneAtATime
      <4> QED BY <2>a, <4>1, <4>2 DEF Promise!Outstanding, Outstanding
    <3>3. overlapped' = (overlapped \/ \E i \in Jobs : Promise!Outstanding(i))
      BY <2>0, <2>1, <3>2 DEF LibExec, AsyncTypeOK
    <3> QED BY <2>1, <3>1, <3>3 DEF Promise!Start, LibExec
  <2>2. ASSUME NEW j \in Jobs, PopenFails(j) PROVE Promise!End(j, "failed")
    <3>1. ph[j] = "running" /\ ph' = [ph EXCEPT ![j] = "failed"]
      BY <2>0, <2>2 DEF PopenFails, Phase, AsyncTypeOK
    <3> QED BY <2>2, <3>1 DEF Promise!End, PopenFails
  <2>3. ASSUME NEW j \in Jobs, Store(j) PROVE Promise!End(j, "ended")
    <3>1. ph[j] = "running" /\ ph' = [ph EXCEPT ![j] = "ended"]
      BY <2>0, <2>3 DEF Store, Phase, AsyncTypeOK
    <3> QED BY <2>3, <3>1 DEF Promise!End, Store
  <2>4. ASSUME NEW j \in Jobs, Send(j) PROVE UNCHANGED Promise!vars
    <3>1. ph' = ph
      BY <2>0, <2>4 DEF Send, Phase, AsyncTypeOK
    <3> QED BY <2>4, <3>1 DEF Promise!vars, Send
  <2>5. ASSUME Wake \/ Take \/ Free \/ UNCHANGED asyncVars PROVE UNCHANGED Promise!vars
    <3>1. stage' = stage /\ calls' = calls /\ overlapped' = overlapped
      BY <2>5 DEF Wake, Take, Free, asyncVars
    <3> QED BY <3>1 DEF Promise!vars, Phase
  <2>6. CASE CallFunction
    <3>1. ph' = ph /\ overlapped' = overlapped
      BY <2>6 DEF CallFunction, Phase
    <3>2. CASE overlapped
      <4>1. PICK j \in Callees :
              calls' = IF j \in WithFunction THEN [calls EXCEPT ![j] = @ + 1] ELSE calls
        BY <2>6 DEF CallFunction
      <4>2. CASE j \in WithFunction
        <5>1. stage[j] # "new"
          BY <2>0, <2>6, <4>2 DEF CallFunction, Callees, SlotFilled
        <5>2. ph[j] # "new" /\ j \in Jobs
          BY <5>1, <2>0, <2>a, <4>2 DEF AsyncTypeOK
        <5> QED BY <3>1, <3>2, <4>1, <4>2, <5>2 DEF Promise!Stray, Promise!Next
      <4>3. CASE j \notin WithFunction
        BY <3>1, <4>1, <4>3 DEF Promise!vars
      <4> QED BY <4>2, <4>3
    <3>3. CASE ~overlapped
      <4>1. data \in WithFunction /\ stage[data] = "done" /\ calls[data] = 0 /\ data \notin freed
        BY <2>0, <3>3, <2>6 DEF OneAtATime, Fresh, CallFunction
      <4>2. Callees = {data}
        BY <4>1 DEF Callees
      <4>3. calls' = [calls EXCEPT ![data] = calls[data] + 1]
        BY <4>1, <4>2, <2>6 DEF CallFunction
      <4>4. calls' = [calls EXCEPT ![data] = 1]
        BY <4>1, <4>3
      <4>5. Promise!Deliver(data)
        BY <2>a, <3>1, <4>1, <4>4 DEF Promise!Deliver
      <4> QED BY <4>1, <4>5 DEF Promise!Next
    <3> QED BY <3>2, <3>3
  <2> QED BY <1>2, <2>1, <2>2, <2>3, <2>4, <2>5, <2>6
          DEF AsyncNext, Thread, EventLoop, Promise!Next
<1> QED BY <1>1, <1>2, SerialInvariance, PTL DEF AsyncSpec, Promise!Safety

==============================================================================
