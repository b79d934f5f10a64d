--------------------------- MODULE LayoutsProofs ---------------------------
(***************************************************************************)
(* Proofs about Tiling and Layouts, for all layouts, settings and numbers  *)
(* of windows.  The recursion by which a layout is loaded with all that it *)
(* links, and those with all that they link, ends because each layout is   *)
(* loaded once: what has then been loaded is the base of the rest.         *)
(***************************************************************************)
EXTENDS Layouts, SequenceTheorems, FiniteSetTheorems, WellFoundedInduction, TLAPS

-----------------------------------------------------------------------------
(* Counting *)

\* No more windows are shown than there are, and all masters that are there come
\* before the others.
LEMMA Counts ==
  ASSUME NEW s \in Settings, NEW n \in Nat
  PROVE  /\ Masters(s, n) = MIN(n, s.n_master)
         /\ Areas(s, n) \in Nat /\ Areas(s, n) <= s.data
         /\ Shown(s, n) \in Int /\ Shown(s, n) <= n
         /\ s.max_area # 0 => Areas(s, n) > 0
BY DEF Settings, Masters, Slaves, Areas, Shown, MIN, MAX

\* A layout that has at least one area shows as many windows as it has masters
\* and areas behind the one of the masters, or all of them (update_layout_counters).
LEMMA FullOrAll ==
  ASSUME NEW s \in Settings, NEW n \in Nat,
         NEW areas \in Nat \ {0},
         areas = IF s.max_area < 0 THEN s.data ELSE MIN(s.data, s.max_area)
  PROVE  Shown(s, n) = MIN(n, s.n_master + areas - 1)
BY DEF Settings, Masters, Slaves, Areas, Shown, MIN, MAX

\* Two windows that are shown have different places if the master data has a
\* group for all masters (get_nth_geom_in_layout).
LEMMA DifferentPlaces ==
  ASSUME NEW s \in Settings, NEW n \in Nat, s.n_master <= s.master,
         NEW i \in 1..Shown(s, n), NEW j \in 1..Shown(s, n),
         Place(s, n, i) = Place(s, n, j)
  PROVE  i = j
<1>1. i \in Nat /\ j \in Nat /\ 1 <= i /\ 1 <= j /\ i <= n /\ j <= n
  BY Counts
<1>2. /\ MAX(0, i - s.n_master) = MAX(0, j - s.n_master)
      /\ (IF i > s.n_master THEN 0 ELSE MIN(i, MasterGroup(s, n)))
           = (IF j > s.n_master THEN 0 ELSE MIN(j, MasterGroup(s, n)))
  BY <1>1 DEF Place, Settings, MAX
<1>3. \A k \in Nat : 1 <= k /\ k <= n /\ k <= s.n_master => k <= MasterGroup(s, n)
  BY Counts DEF MasterGroup, Settings, MIN, MAX
<1>4. MasterGroup(s, n) \in Nat /\ s.n_master \in Nat
  BY Counts DEF MasterGroup, Settings, MIN, MAX
<1> QED
  BY <1>1, <1>2, <1>3, <1>4 DEF MIN, MAX

\* Every shown window finds its area in the table of the layout, if that was set
\* for these counts or, without areas, at some time before (set_layout_ref).
THEOREM AreasExist ==
  ASSUME NEW s \in Settings, NEW n \in Nat, s.max_area = 0 => s.places > 0
  PROVE  ~PlaceMissing(SetLayoutRef(s, n), n)
<1> DEFINE r == SetLayoutRef(s, n)
<1>1. /\ r \in Settings
      /\ r.n_master = s.n_master /\ r.data = s.data /\ r.max_area = s.max_area
      /\ r.places = IF Areas(s, n) > 0 THEN Areas(s, n) ELSE s.places
  BY Counts DEF SetLayoutRef, Settings
<1>2. Areas(r, n) = Areas(s, n) /\ Masters(r, n) = Masters(s, n) /\ Shown(r, n) = Shown(s, n)
  BY <1>1 DEF Areas, Masters, Slaves, Shown
<1>3. SUFFICES ASSUME NEW i \in 1..Shown(r, n)
               PROVE  Place(r, n, i).area <= r.places
  BY <1>1, Counts DEF PlaceMissing, Place, Settings, MAX
<1>4. Place(r, n, i).area = MAX(0, i - s.n_master) + 1
  BY <1>1 DEF Place
<1>5. /\ i \in Nat /\ 1 <= i /\ i <= n /\ i <= Areas(s, n) - 1 + Masters(s, n)
      /\ Masters(s, n) = MIN(n, s.n_master) /\ s.n_master \in Nat \ {0}
      /\ Areas(s, n) \in Nat /\ (Areas(s, n) = 0 => s.places > 0)
  BY <1>2, Counts DEF Shown, Settings
<1> QED
  BY <1>1, <1>4, <1>5 DEF MIN, MAX, Settings

-----------------------------------------------------------------------------
(* What every step keeps *)

\* The invariant: counts are counts, whatever the commands do to them.
SettingsOK ==
  /\ setup \in Setups /\ setup.room \in Nat /\ (\A n \in Names : setup.files[n] \in File)
  /\ selected \in Tags
  /\ settings \in [Tags -> [Names -> Settings]]
  /\ tiled \in Nat

\* What ArrangeTag does, in terms of the layout that has the focus after it.
Arranges(t, sets, n) ==
  /\ settings' = [sets EXCEPT ![t][Head(loaded'[t])] = SetLayoutRef(@, n)]
  /\ LET lt == settings'[t][Head(loaded'[t])]
     IN  /\ spots' = IF PlaceMissing(lt, n) THEN <<>> ELSE Places(lt, n)
         /\ fault' = IF PlaceMissing(lt, n) THEN "no_place" ELSE "none"
  /\ tiled' = n

\* What every step does: arrange with some settings and number of windows, or
\* leave the places alone.
Steps ==
  \/ \E sets \in [Tags -> [Names -> Settings]], n \in Nat : Arranges(selected', sets, n)
  \/ tiled' = tiled /\ spots' = spots /\ settings' \in [Tags -> [Names -> Settings]]

LEMMA SetLayoutRefType ==
  ASSUME NEW s \in Settings, NEW n \in Nat
  PROVE  SetLayoutRef(s, n) \in Settings
BY Counts DEF SetLayoutRef, Settings

LEMMA ArrangesType ==
  ASSUME NEW t \in Tags, NEW sets \in [Tags -> [Names -> Settings]], NEW n \in Nat,
         Arranges(t, sets, n)
  PROVE  settings' \in [Tags -> [Names -> Settings]] /\ tiled' = n
<1> DEFINE f == Head(loaded'[t])
<1>1. CASE f \in Names
  <2>1. SetLayoutRef(sets[t][f], n) \in Settings
    BY <1>1, SetLayoutRefType
  <2> QED
    BY <1>1, <2>1 DEF Arranges
<1>2. CASE f \notin Names
  BY <1>2 DEF Arranges
<1> QED
  BY <1>1, <1>2

\* The settings of the focused layout, replaced
LEMMA SetType ==
  ASSUME SettingsOK, NEW s, Focused \in Names => s \in Settings
  PROVE  Set(s) \in [Tags -> [Names -> Settings]]
<1>1. CASE Focused \in Names
  BY <1>1 DEF Set, SettingsOK
<1>2. CASE Focused \notin Names
  BY <1>2 DEF Set, SettingsOK
<1> QED
  BY <1>1, <1>2

LEMMA FreshType ==
  ASSUME SettingsOK
  PROVE  AllFresh \in [Tags -> [Names -> Settings]]
<1>1. ASSUME NEW n \in Names PROVE Fresh(setup.files[n]) \in Settings
  <2> DEFINE file == setup.files[n]
  <2>1. file \in File
    BY DEF SettingsOK
  <2>2. Either(file.n_area, -1) \in Int
    BY <2>1 DEF File, Either
  <2> QED
    BY <2>1, <2>2 DEF Fresh, File, Settings
<1> QED
  BY <1>1 DEF AllFresh

LEMMA NextSteps ==
  ASSUME SettingsOK, [Next]_vars
  PROVE  Steps /\ SettingsOK'
<1> DEFINE AllSettings == [Tags -> [Names -> Settings]]
<1>0. ASSUME setup' = setup, selected' \in Tags, Steps
      PROVE  SettingsOK'
  BY <1>0, ArrangesType DEF SettingsOK, Steps
<1>a. ASSUME NEW sets \in AllSettings, NEW n \in Nat, Arranges(selected', sets, n)
      PROVE  Steps
  BY <1>a DEF Steps
<1>b. settings \in AllSettings /\ tiled \in Nat
  BY DEF SettingsOK
<1>p. ASSUME NEW x, Push(x), selected' = selected
      PROVE  Steps
  <2>1. Arranges(selected', settings, tiled)
    BY <1>p DEF Push, ArrangeTag, Arranges
  <2> QED
    BY <2>1, <1>a, <1>b
<1>s. ASSUME NEW reason, Stop(reason)
      PROVE  Steps /\ selected' = selected
  BY <1>s DEF Stop, Steps, SettingsOK
<1>1. ASSUME NEW x \in Names, Load(x) PROVE Steps /\ SettingsOK'
  BY <1>1, <1>0, <1>p DEF Load, SettingsOK
<1>2. ASSUME NEW x \in Names, Toggle(x) PROVE Steps /\ SettingsOK'
  BY <1>2, <1>0, <1>p, <1>s DEF Toggle, SettingsOK
<1>3. ASSUME NEW k \in {-1, 0, 1}, RingStep(k) PROVE Steps /\ SettingsOK'
  BY <1>3, <1>0, <1>p, <1>s DEF RingStep, SettingsOK
<1>4. Focused \in Names => Lt \in Settings
  BY DEF Lt, SettingsOK
<1>5. ASSUME IncreaseMaster PROVE Steps /\ SettingsOK'
  <2>1. Focused \in Names => [Lt EXCEPT !.n_master = MIN(@ + 1, Lt.master)] \in Settings
    BY <1>4 DEF Settings, MIN
  <2>2. Set([Lt EXCEPT !.n_master = MIN(@ + 1, Lt.master)]) \in AllSettings
    BY <2>1, SetType
  <2>3. /\ Arranges(selected', Set([Lt EXCEPT !.n_master = MIN(@ + 1, Lt.master)]), tiled)
        /\ selected' \in Tags /\ setup' = setup
    BY <1>5 DEF IncreaseMaster, ArrangeTag, Arranges, SettingsOK
  <2> QED
    BY <2>2, <2>3, <1>a, <1>b, <1>0
<1>6. ASSUME DecreaseMaster PROVE Steps /\ SettingsOK'
  <2>1. Focused \in Names => [Lt EXCEPT !.n_master = MAX(@ - 1, 1)] \in Settings
    BY <1>4 DEF Settings, MAX
  <2>2. Set([Lt EXCEPT !.n_master = MAX(@ - 1, 1)]) \in AllSettings
    BY <2>1, SetType
  <2>3. /\ Arranges(selected', Set([Lt EXCEPT !.n_master = MAX(@ - 1, 1)]), tiled)
        /\ selected' \in Tags /\ setup' = setup
    BY <1>6 DEF DecreaseMaster, ArrangeTag, Arranges, SettingsOK
  <2> QED
    BY <2>2, <2>3, <1>a, <1>b, <1>0
<1>7. ASSUME NEW n \in AreaLimits, SetArea(n) PROVE Steps /\ SettingsOK'
  <2>1. Focused \in Names => [Lt EXCEPT !.max_area = n] \in Settings
    BY <1>4, AreaLimitsAssumption DEF Settings
  <2>2. Set([Lt EXCEPT !.max_area = n]) \in AllSettings
    BY <2>1, SetType
  <2>3. /\ Arranges(selected', Set([Lt EXCEPT !.max_area = n]), tiled)
        /\ selected' \in Tags /\ setup' = setup
    BY <1>7 DEF SetArea, ArrangeTag, Arranges, SettingsOK
  <2> QED
    BY <2>2, <2>3, <1>a, <1>b, <1>0
<1>8. ASSUME NEW n \in 1..setup.room, SetData(n) PROVE Steps /\ SettingsOK'
  <2>0. n \in Nat \ {0}
    BY DEF SettingsOK
  <2>1. Focused \in Names => [Lt EXCEPT !.data = n] \in Settings
    BY <1>4, <2>0 DEF Settings
  <2>2. Set([Lt EXCEPT !.data = n]) \in AllSettings
    BY <2>1, SetType
  <2> QED
    BY <2>2, <1>8, <1>0 DEF SetData, Steps, SettingsOK
<1>9. ASSUME NEW n \in 1..setup.room, SetMasterData(n) PROVE Steps /\ SettingsOK'
  <2>0. n \in Nat \ {0}
    BY DEF SettingsOK
  <2>1. Focused \in Names => [Lt EXCEPT !.master = n] \in Settings
    BY <1>4, <2>0 DEF Settings
  <2>2. Set([Lt EXCEPT !.master = n]) \in AllSettings
    BY <2>1, SetType
  <2> QED
    BY <2>2, <1>9, <1>0 DEF SetMasterData, Steps, SettingsOK
<1>10. ASSUME NEW n \in 0..setup.room, NEW names \in BOOLEAN, ChangeTiled(n, names)
       PROVE  Steps /\ SettingsOK'
  <2>1. n \in Nat
    BY DEF SettingsOK
  <2>2. Arranges(selected', settings, n) /\ selected' \in Tags /\ setup' = setup
    BY <1>10 DEF ChangeTiled, ArrangeTag, Arranges, SettingsOK
  <2> QED
    BY <2>1, <2>2, <1>a, <1>b, <1>0
<1>11. ASSUME ArrangeAgain PROVE Steps /\ SettingsOK'
  <2>1. Arranges(selected', settings, tiled) /\ selected' \in Tags /\ setup' = setup
    BY <1>11 DEF ArrangeAgain, Arrange, ArrangeTag, Arranges, SettingsOK
  <2> QED
    BY <2>1, <1>a, <1>b, <1>0
<1>12. ASSUME NEW t \in Tags, Look(t) PROVE Steps /\ SettingsOK'
  <2>1. setup' = setup /\ selected' = selected
    BY <1>12 DEF Look
  <2>2. \/ Arranges(selected', settings, tiled)
        \/ settings' = settings /\ tiled' = tiled /\ spots' = spots
    BY <2>1, <1>12 DEF Look, ArrangeTag, Arranges
  <2>3. Steps
    BY <2>2, <1>a, <1>b DEF Steps
  <2> QED
    BY <2>1, <2>3, <1>0 DEF SettingsOK
<1>13. ASSUME NEW t \in Tags, LookBack(t) PROVE Steps /\ SettingsOK'
  <2>1. setup' = setup /\ selected' = selected
    BY <1>13 DEF LookBack, Stop
  <2>2. \/ Arranges(selected', settings, tiled)
        \/ settings' = settings /\ tiled' = tiled /\ spots' = spots
    BY <2>1, <1>13 DEF LookBack, Stop, ArrangeTag, Arranges
  <2>3. Steps
    BY <2>2, <1>a, <1>b DEF Steps
  <2> QED
    BY <2>1, <2>3, <1>0 DEF SettingsOK
<1>14. ASSUME NEW t \in Tags, NEW n \in 0..setup.room, View(t, n)
       PROVE  Steps /\ SettingsOK'
  <2>1. n \in Nat
    BY DEF SettingsOK
  <2>2. Arranges(selected', settings, n) /\ selected' \in Tags /\ setup' = setup
    BY <1>14 DEF View, ArrangeTag, Arranges
  <2> QED
    BY <2>1, <2>2, <1>a, <1>b, <1>0
<1>15. ASSUME NEW c \in setup.configs, Reload(c) PROVE Steps /\ SettingsOK'
  <2>1. selected' = selected /\ setup' = setup /\ Arranges(selected, AllFresh, tiled)
    BY <1>15 DEF Reload, ArrangeTag, Arranges
  <2> QED
    BY <2>1, <1>a, <1>b, <1>0, FreshType DEF SettingsOK
<1>16. CASE UNCHANGED vars
  BY <1>16, <1>0 DEF vars, Steps, SettingsOK
<1> QED
  BY <1>1, <1>2, <1>3, <1>5, <1>6, <1>7, <1>8, <1>9, <1>10, <1>11, <1>12, <1>13, <1>14,
     <1>15, <1>16 DEF Next

LEMMA InitSettings == Init => SettingsOK
<1> SUFFICES ASSUME Init PROVE SettingsOK
  OBVIOUS
<1>1. /\ setup \in Setups /\ setup.room \in Nat
      /\ (\A n \in Names : setup.files[n] \in File)
      /\ selected \in Tags /\ tiled \in Nat
  BY SetupsAssumption, TagsAssumption DEF Init
<1>2. ASSUME NEW n \in Names
      PROVE  /\ Fresh(setup.files[n]) \in Settings
             /\ SetLayoutRef(Fresh(setup.files[n]), 0) \in Settings
  <2>1. setup.files[n] \in File
    BY <1>1
  <2>2. Either(setup.files[n].n_area, -1) \in Int
    BY <2>1 DEF File, Either
  <2>3. Fresh(setup.files[n]) \in Settings
    BY <2>1, <2>2 DEF Fresh, File, Settings
  <2> QED
    BY <2>3, SetLayoutRefType
<1>3. settings \in [Tags -> [Names -> Settings]]
  BY <1>2 DEF Init
<1> QED
  BY <1>1, <1>3 DEF SettingsOK

-----------------------------------------------------------------------------
(* The theorems *)

\* What a user can do keeps the settings of all layouts of all tags in range: at
\* least one master, never a negative table.
THEOREM SettingsStayInRange == Spec => []SettingsOK
<1>1. SettingsOK /\ [Next]_vars => SettingsOK'
  BY NextSteps
<1> QED
  BY InitSettings, <1>1, PTL DEF Spec

\* A step that arranges the windows that are shown, with the settings that the
\* focused layout has before and after
LEMMA ArrangedBy ==
  ASSUME SettingsOK, SettingsOK', Steps, Arranged,
         NEW f \in Names, f = Head(loaded'[selected'])
  PROVE  LET lt == settings'[selected'][f]
         IN  /\ lt \in Settings /\ tiled' \in Nat
             /\ spots' = IF PlaceMissing(lt, tiled') THEN <<>> ELSE Places(lt, tiled')
             /\ fault' = IF PlaceMissing(lt, tiled') THEN "no_place" ELSE "none"
BY DEF Steps, Arranges, Arranged, SettingsOK

\* Every arrangement gives each window that it shows a place of its own, as long as
\* the master data has a group for all masters: for all layouts, whatever was
\* loaded, set or reloaded before.
THEOREM PlacesAreOwn == Spec => OwnPlaces
<1>1. ASSUME SettingsOK, [Next]_vars, NEW f \in Names,
             Arranged, f = Head(loaded'[selected']),
             settings'[selected'][f].n_master <= settings'[selected'][f].master,
             NEW i \in DOMAIN spots', NEW j \in DOMAIN spots', spots'[i] = spots'[j]
      PROVE  i = j
  <2> DEFINE lt == settings'[selected'][f]
  <2>1. /\ lt \in Settings /\ tiled' \in Nat
        /\ spots' = IF PlaceMissing(lt, tiled') THEN <<>> ELSE Places(lt, tiled')
    BY <1>1, NextSteps, ArrangedBy
  <2>2. CASE spots' = <<>>
    BY <1>1, <2>2
  <2>3. CASE spots' = Places(lt, tiled')
    <3>1. /\ i \in 1..Shown(lt, tiled') /\ j \in 1..Shown(lt, tiled')
          /\ Place(lt, tiled', i) = Place(lt, tiled', j)
      BY <1>1, <2>3 DEF Places
    <3> QED
      BY <3>1, <2>1, <1>1, DifferentPlaces
  <2> QED
    BY <2>1, <2>2, <2>3
<1>2. SettingsOK /\ [Next]_vars =>
        [\A n \in Names : LET lt == settings'[selected'][n] IN
           Arranged /\ n = Head(loaded'[selected']) /\ lt.n_master <= lt.master
           => \A i, j \in DOMAIN spots' : spots'[i] = spots'[j] => i = j]_vars
  BY <1>1
<1> QED
  BY SettingsStayInRange, <1>2, PTL DEF Spec, OwnPlaces

\* Every arrangement hides no window while the layout has a place for it.
THEOREM NoneIsHiddenTooEarly == Spec => ShowsAsManyAsFit
<1> DEFINE Limit(lt) == IF lt.max_area < 0 THEN lt.data ELSE MIN(lt.data, lt.max_area)
<1>1. ASSUME SettingsOK, [Next]_vars, NEW f \in Names,
             Arranged, fault' = "none", f = Head(loaded'[selected']),
             Limit(settings'[selected'][f]) > 0
      PROVE  DOMAIN spots' = 1..MIN(tiled', settings'[selected'][f].n_master
                                              + Limit(settings'[selected'][f]) - 1)
  <2> DEFINE lt == settings'[selected'][f]
  <2>1. /\ lt \in Settings /\ tiled' \in Nat
        /\ spots' = Places(lt, tiled')
    BY <1>1, NextSteps, ArrangedBy
  <2>2. Limit(lt) \in Nat \ {0}
    BY <1>1, <2>1 DEF Settings, MIN
  <2>3. Shown(lt, tiled') = MIN(tiled', lt.n_master + Limit(lt) - 1)
    BY <2>1, <2>2, FullOrAll
  <2> QED
    BY <2>1, <2>3 DEF Places
<1>2. SettingsOK /\ [Next]_vars =>
        [\A n \in Names :
           LET lt == settings'[selected'][n]
               areas == IF lt.max_area < 0 THEN lt.data ELSE MIN(lt.data, lt.max_area)
           IN  Arranged /\ fault' = "none" /\ n = Head(loaded'[selected']) /\ areas > 0
               => DOMAIN spots' = 1..MIN(tiled', lt.n_master + areas - 1)]_vars
  BY <1>1
<1> QED
  BY SettingsStayInRange, <1>2, PTL DEF Spec, ShowsAsManyAsFit

\* Whenever arrange() gives out places, each window that is shown has one of its
\* own and none is hidden that has room.
THEOREM PlacesAlwaysSound == Spec => PlacesSound
BY PlacesAreOwn, NoneIsHiddenTooEarly, PTL DEF PlacesSound

-----------------------------------------------------------------------------
(* The ring *)

\* The invariant: the ring has names, and its index counts from 0.  The index need
\* not be one of the list: a reload leaves it and may shorten the list.
RingOK ==
  /\ \A c \in setup.configs : c \in Config
  /\ ring \in [names : Seq(Names) \ {<<>>}, index : Nat]

\* ring_buffer_rotate goes to an index of the list from wherever it was.
LEMMA RotateStaysInside ==
  ASSUME RingOK, NEW k \in Int
  PROVE  /\ Rotate(ring, k) \in [names : Seq(Names) \ {<<>>}, index : Nat]
         /\ Rotate(ring, k).names = ring.names
         /\ Rotate(ring, k).index \in 0..(Len(ring.names) - 1)
<1>1. ring.names \in Seq(Names) \ {<<>>} /\ ring.index \in Nat
  BY DEF RingOK
<1>2. Len(ring.names) \in Nat /\ Len(ring.names) > 0
  BY <1>1
<1>3. (ring.index + k) % Len(ring.names) \in 0..(Len(ring.names) - 1)
  BY <1>1, <1>2
<1>4. (ring.index + k) % Len(ring.names) \in Nat
  BY <1>2, <1>3
<1>5. Rotate(ring, k) = [names |-> ring.names,
                         index |-> (ring.index + k) % Len(ring.names)]
  BY DEF Rotate, RingOK
<1> QED
  BY <1>1, <1>3, <1>4, <1>5

\* The ring of a config that sets one, and the one that a reset puts there
LEMMA FreshRingType ==
  ASSUME NEW c \in Config
  PROVE  FreshRing(c) \in [names : Seq(Names) \ {<<>>}, index : Nat]
<1>1. Either(c.ring, BuiltinRing) \in Seq(Names) \ {<<>>}
  BY BuiltinAssumption DEF Either, Config
<1> QED
  BY <1>1 DEF FreshRing

LEMMA InitRing == Init => RingOK
<1> SUFFICES ASSUME Init PROVE RingOK
  OBVIOUS
<1>1. \A c \in setup.configs : c \in Config
  BY SetupsAssumption DEF Init
<1>2. PICK c \in setup.configs : ring = FreshRing(c)
  BY DEF Init
<1> QED
  BY <1>1, <1>2, FreshRingType DEF RingOK

\* Only rotating it and a reload change the ring.
LEMMA NextRing ==
  ASSUME RingOK, [Next]_vars
  PROVE  RingOK'
<1> DEFINE Rings == [names : Seq(Names) \ {<<>>}, index : Nat]
<1>1. ASSUME NEW k \in {-1, 0, 1}, RingStep(k) PROVE ring' \in Rings /\ setup' = setup
  BY <1>1, RotateStaysInside DEF RingStep, RingOK
<1>2. ASSUME NEW c \in setup.configs, Reload(c) PROVE ring' \in Rings /\ setup' = setup
  <2>1. [ring EXCEPT !.names = BuiltinRing] \in Rings
    BY BuiltinAssumption DEF RingOK
  <2> QED
    BY <1>2, <2>1, FreshRingType DEF Reload, RingOK
<1>3. CASE UNCHANGED <<ring, setup>>
  BY <1>3 DEF RingOK
<1>4. ASSUME ring' \in Rings, setup' = setup PROVE RingOK'
  BY <1>4 DEF RingOK
<1>5. ASSUME NEW x \in Names, Load(x) \/ Toggle(x) PROVE UNCHANGED <<ring, setup>>
  BY <1>5 DEF Load, Toggle
<1>6. ASSUME IncreaseMaster \/ DecreaseMaster \/ ArrangeAgain PROVE UNCHANGED <<ring, setup>>
  BY <1>6 DEF IncreaseMaster, DecreaseMaster, ArrangeAgain
<1>7. ASSUME NEW n, SetArea(n) \/ SetData(n) \/ SetMasterData(n)
      PROVE  UNCHANGED <<ring, setup>>
  BY <1>7 DEF SetArea, SetData, SetMasterData
<1>8. ASSUME NEW n, NEW names, ChangeTiled(n, names) PROVE UNCHANGED <<ring, setup>>
  BY <1>8 DEF ChangeTiled
<1>9. ASSUME NEW t, Look(t) \/ LookBack(t) \/ \E n \in 0..setup.room : View(t, n)
      PROVE  UNCHANGED <<ring, setup>>
  BY <1>9 DEF Look, LookBack, View
<1>10. CASE UNCHANGED vars
  BY <1>10, <1>3 DEF vars
<1> QED
  BY <1>1, <1>2, <1>3, <1>4, <1>5, <1>6, <1>7, <1>8, <1>9, <1>10 DEF Next

\* ring:next() and ring:prev() never look up a name that the ring does not have,
\* however often it was rotated and replaced by shorter ones before.
THEOREM RingNeverLeft == Spec => RingStaysInside
<1>1. RingOK /\ [Next]_vars => RingOK'
  BY NextRing
<1>2. ASSUME RingOK, NEW k \in {-1, 1}, RingStep(k)
      PROVE  fault' # "no_name"
  <2>1. /\ ring' = Rotate(ring, k)
        /\ ring'.index \in 0..(Len(ring.names) - 1)
    BY <1>2, RotateStaysInside DEF RingStep
  <2>2. Push(ring.names[ring'.index + 1])
    BY <2>1, <1>2 DEF RingStep
  <2> QED
    BY <2>2 DEF Push, ArrangeTag
<1>3. RingOK => [\A k \in {-1, 1} : RingStep(k) => fault' # "no_name"]_vars
  BY <1>2
<1> QED
  BY InitRing, <1>1, <1>3, PTL DEF Spec, RingStaysInside

\* Induction on the natural numbers, for a set of them.
LEMMA NaturalsInduct ==
  ASSUME NEW S, 0 \in S, \A n \in Nat : n \in S => n + 1 \in S
  PROVE  Nat \subseteq S
<1> SUFFICES ASSUME NEW n \in Nat, n \notin S PROVE FALSE
  OBVIOUS
<1> DEFINE T == {k \in Nat : k \notin S}
<1>1. PICK x \in T : \A y \in T : ~ (<<y, x>> \in OpToRel(<, Nat))
  BY NatLessThanWellFounded, WFMin
<1>2. \A y \in T : ~(y < x)
  BY <1>1, Zenon DEF OpToRel
<1>3. x # 0 /\ x - 1 \in Nat /\ x - 1 < x
  OBVIOUS
<1> QED BY <1>2, <1>3

\* The recursion f[x] = IF x \in Final THEN stop[x] ELSE step[x][f[next[x]]] on D
\* has its values in V and calls itself with a smaller measure.
Recursion(D, V, Final, stop, next, step, m) ==
  /\ Final \subseteq D /\ stop \in [D -> V] /\ next \in [D -> D]
  /\ step \in [D -> [V -> V]] /\ m \in [D -> Nat]
  /\ \A x \in D \ Final : m[next[x]] < m[x]

\* f is a solution of that recursion.
SolvesRecursion(f, D, Final, stop, next, step) ==
  \A x \in D : f[x] = IF x \in Final THEN stop[x] ELSE step[x][f[next[x]]]

\* A function that such a recursion defines exists.
LEMMA RecursionExists ==
  ASSUME NEW D, NEW V, NEW Final, NEW stop, NEW next, NEW step, NEW m,
         Recursion(D, V, Final, stop, next, step, m)
  PROVE  \E f \in [D -> V] : SolvesRecursion(f, D, Final, stop, next, step)
<1> USE DEF Recursion
<1> DEFINE
      Solves(f, k) == \A x \in D : m[x] < k =>
                        f[x] = IF x \in Final THEN stop[x] ELSE step[x][f[next[x]]]
      S == {k \in Nat : \E f \in [D -> V] : Solves(f, k)}
<1>1. 0 \in S
  OBVIOUS
<1>2. ASSUME NEW k \in Nat, k \in S PROVE k + 1 \in S
  <2>1. PICK f \in [D -> V] : Solves(f, k)
    BY <1>2
  <2> DEFINE g == [x \in D |-> IF x \in Final THEN stop[x] ELSE step[x][f[next[x]]]]
  <2>2. g \in [D -> V]
    OBVIOUS
  <2>3. \A x \in D : m[x] < k => g[x] = f[x]
    BY <2>1
  <2>4. \A x \in D \ Final : m[x] < k + 1 => m[next[x]] < k
    OBVIOUS
  <2>5. Solves(g, k + 1)
    BY <2>3, <2>4
  <2>6. k + 1 \in Nat /\ \E e \in [D -> V] : Solves(e, k + 1)
    <3> HIDE DEF g, Solves
    <3> QED BY <2>2, <2>5
  <2> QED BY <2>6
<1>3. Nat \subseteq S
  BY <1>1, <1>2, NaturalsInduct
<1> DEFINE fs == [k \in Nat |-> CHOOSE f \in [D -> V] : Solves(f, k)]
<1>4. \A k \in Nat : fs[k] \in [D -> V] /\ Solves(fs[k], k)
  BY <1>3
\* Two solutions agree where both are one.
<1> DEFINE A == {n \in Nat : \A x \in D : m[x] < n =>
                   \A k, l \in Nat : m[x] < k /\ m[x] < l => fs[k][x] = fs[l][x]}
<1>5. 0 \in A
  OBVIOUS
<1>6. ASSUME NEW n \in Nat, n \in A PROVE n + 1 \in A
  <2> SUFFICES ASSUME NEW x \in D, m[x] < n + 1, NEW k \in Nat, NEW l \in Nat,
                      m[x] < k, m[x] < l
               PROVE  fs[k][x] = fs[l][x]
    <3> HIDE DEF fs
    <3> QED OBVIOUS
  <2>0. \A y \in D : m[y] < n =>
          \A i, j \in Nat : m[y] < i /\ m[y] < j => fs[i][y] = fs[j][y]
    <3> HIDE DEF fs
    <3> QED BY <1>6
  <2> HIDE DEF fs, A
  <2>1. fs[k][x] = IF x \in Final THEN stop[x] ELSE step[x][fs[k][next[x]]]
    BY <1>4
  <2>2. fs[l][x] = IF x \in Final THEN stop[x] ELSE step[x][fs[l][next[x]]]
    BY <1>4
  <2>3. CASE x \in Final
    BY <2>1, <2>2, <2>3
  <2>4. CASE x \notin Final
    <3>1. next[x] \in D /\ m[next[x]] < m[x] /\ m[x] \in Nat /\ m[next[x]] \in Nat
      BY <2>4
    <3>2. m[next[x]] < n /\ m[next[x]] < k /\ m[next[x]] < l
      BY <3>1
    <3>3. fs[k][next[x]] = fs[l][next[x]]
      BY <2>0, <3>1, <3>2
    <3> QED BY <2>1, <2>2, <2>4, <3>3
  <2> QED BY <2>3, <2>4
<1>7. Nat \subseteq A
  <2> HIDE DEF A
  <2> QED BY <1>5, <1>6, NaturalsInduct
<1>8. \A x \in D : \A k, l \in Nat : m[x] < k /\ m[x] < l => fs[k][x] = fs[l][x]
  <2> TAKE x \in D
  <2>1. m[x] \in Nat /\ m[x] + 1 \in Nat /\ m[x] < m[x] + 1
    OBVIOUS
  <2>2. m[x] + 1 \in A
    BY <1>7, <2>1
  <2> QED BY <2>1, <2>2
<1> DEFINE h == [x \in D |-> fs[m[x] + 1][x]]
<1> HIDE DEF fs, A, S
<1>9. h \in [D -> V]
  BY <1>4
<1>10. ASSUME NEW x \in D PROVE h[x] = IF x \in Final THEN stop[x] ELSE step[x][h[next[x]]]
  <2>0. m[x] \in Nat /\ m[x] + 1 \in Nat /\ m[x] < m[x] + 1
    OBVIOUS
  <2>1. h[x] = IF x \in Final THEN stop[x] ELSE step[x][fs[m[x] + 1][next[x]]]
    BY <1>4, <2>0
  <2>2. CASE x \in Final
    BY <2>1, <2>2
  <2>3. CASE x \notin Final
    <3>1. next[x] \in D /\ m[next[x]] < m[x] /\ m[next[x]] \in Nat /\ m[next[x]] + 1 \in Nat
      BY <2>3
    <3>2. fs[m[x] + 1][next[x]] = fs[m[next[x]] + 1][next[x]]
      BY <3>1, <2>0, <1>8
    <3> QED BY <2>1, <2>3, <3>1, <3>2
  <2> QED BY <2>2, <2>3
<1> QED BY <1>9, <1>10 DEF SolvesRecursion

\* T holds where a recursion ends and where its call holds.
PassedBack(D, T, Final, next, m) ==
  /\ next \in [D -> D] /\ m \in [D -> Nat]
  /\ \A x \in D \ Final : m[next[x]] < m[x]
  /\ \A x \in D : x \in Final \/ next[x] \in T => x \in T

\* What is passed back by every call holds everywhere.
LEMMA RecursionInduction ==
  ASSUME NEW D, NEW T, NEW Final, NEW next, NEW m, PassedBack(D, T, Final, next, m)
  PROVE  D \subseteq T
<1> USE DEF PassedBack
<1> DEFINE S == {n \in Nat : \A x \in D : m[x] < n => x \in T}
<1>1. 0 \in S
  OBVIOUS
<1>2. ASSUME NEW n \in Nat, n \in S PROVE n + 1 \in S
  <2> SUFFICES ASSUME NEW x \in D, m[x] < n + 1, x \notin Final PROVE x \in T
    OBVIOUS
  <2>1. next[x] \in D /\ m[next[x]] < n
    OBVIOUS
  <2> QED BY <1>2, <2>1
<1>3. Nat \subseteq S
  <2> HIDE DEF S
  <2> QED BY <1>1, <1>2, NaturalsInduct
<1>4. ASSUME NEW x \in D PROVE x \in T
  <2>1. m[x] \in Nat /\ m[x] + 1 \in Nat /\ m[x] < m[x] + 1
    OBVIOUS
  <2> QED BY <1>3, <2>1
<1> QED BY <1>4

\* A finite set of numbers has an upper bound.
LEMMA FiniteBounded ==
  ASSUME NEW T \in SUBSET Nat, IsFiniteSet(T)
  PROVE  \E b \in Nat : \A x \in T : x <= b
<1> DEFINE Bounded(U) == \E b \in Nat : \A x \in U : x <= b
           S == {n \in Nat : \A U \in SUBSET Nat :
                   IsFiniteSet(U) /\ Cardinality(U) = n => Bounded(U)}
<1>1. 0 \in S
  <2>1. ASSUME NEW U \in SUBSET Nat, IsFiniteSet(U), Cardinality(U) = 0 PROVE Bounded(U)
    <3>1. U = {}
      BY <2>1, FS_EmptySet
    <3> QED BY <3>1
  <2> QED BY <2>1
<1>2. ASSUME NEW n \in Nat, n \in S PROVE n + 1 \in S
  <2>1. ASSUME NEW U \in SUBSET Nat, IsFiniteSet(U), Cardinality(U) = n + 1 PROVE Bounded(U)
    <3>1. U # {}
      BY <2>1, FS_EmptySet
    <3>2. PICK y \in U : TRUE
      BY <3>1
    <3>3. IsFiniteSet(U \ {y}) /\ Cardinality(U \ {y}) = n
      <4>1. IsFiniteSet(U \ {y}) /\ Cardinality(U \ {y}) = Cardinality(U) - 1
        BY <2>1, <3>2, FS_RemoveElement
      <4> QED BY <2>1, <4>1
    <3>4. PICK b \in Nat : \A x \in U \ {y} : x <= b
      BY <1>2, <3>3
    <3>5. b + y \in Nat /\ \A x \in U : x <= b + y
      BY <3>4
    <3> QED BY <3>5
  <2> HIDE DEF Bounded
  <2> QED BY <2>1
<1>3. Nat \subseteq S
  <2> HIDE DEF S
  <2> QED BY <1>1, <1>2, NaturalsInduct
<1>4. Cardinality(T) \in Nat
  BY FS_CardinalityType
<1> QED BY <1>3, <1>4

-----------------------------------------------------------------------------
(* Lists without duplicates *)

\* What RemoveAt leaves at each position.
LEMMA Removed ==
  ASSUME NEW X, NEW s \in Seq(X), NEW i \in 1..Len(s)
  PROVE  /\ RemoveAt(s, i) \in Seq(X)
         /\ Len(RemoveAt(s, i)) = Len(s) - 1
         /\ \A j \in 1..(Len(s) - 1) :
              RemoveAt(s, i)[j] = IF j < i THEN s[j] ELSE s[j + 1]
<1> DEFINE h == SubSeq(s, 1, i - 1)
           t == SubSeq(s, i + 1, Len(s))
<1>1. h \in Seq(X) /\ Len(h) = i - 1 /\ \A j \in 1..(i - 1) : h[j] = s[j]
  OBVIOUS
<1>2. t \in Seq(X) /\ Len(t) = Len(s) - i /\ \A j \in 1..(Len(s) - i) : t[j] = s[i + j]
  OBVIOUS
<1>3. RemoveAt(s, i) = h \o t
  BY DEF RemoveAt
<1> DEFINE r == h \o t
<1> HIDE DEF h, t
<1>4. r \in Seq(X) /\ Len(r) = Len(s) - 1
  <2>0. h \in Seq(X) /\ t \in Seq(X)
    BY <1>1, <1>2
  <2>1. r \in Seq(X)
    BY <2>0
  <2>2. Len(r) = Len(h) + Len(t)
    BY <2>0
  <2> HIDE DEF r
  <2> QED BY <2>1, <2>2, <1>1, <1>2
<1>5. \A j \in 1..(Len(s) - 1) : r[j] = IF j < i THEN h[j] ELSE t[j - (i - 1)]
  BY <1>1, <1>2
<1>6. ASSUME NEW j \in 1..(Len(s) - 1)
      PROVE  r[j] = IF j < i THEN s[j] ELSE s[j + 1]
  <2> HIDE DEF r
  <2>1. CASE j < i
    BY <1>1, <1>5, <2>1
  <2>2. CASE j >= i
    <3>1. j - (i - 1) \in 1..(Len(s) - i) /\ i + (j - (i - 1)) = j + 1 /\ ~(j < i)
      BY <2>2
    <3>2. r[j] = t[j - (i - 1)]
      BY <1>5, <3>1
    <3>3. t[j - (i - 1)] = s[i + (j - (i - 1))]
      BY <1>2, <3>1
    <3> QED BY <3>1, <3>2, <3>3
  <2> QED BY <2>1, <2>2
<1>7. RemoveAt(s, i) = r
  BY <1>3
<1> HIDE DEF r
<1> QED BY <1>4, <1>6, <1>7


\* What ToSet is for a list
LEMMA ToSetIs ==
  ASSUME NEW l \in Seq(Names)
  PROVE  ToSet(l) = {l[j] : j \in 1..Len(l)}
BY DEF ToSet

\* What is in two lists together
LEMMA ConcatMembers ==
  ASSUME NEW a \in Seq(Names), NEW b \in Seq(Names)
  PROVE  ToSet(a \o b) = ToSet(a) \cup ToSet(b)
<1>1. /\ a \o b \in Seq(Names) /\ Len(a \o b) = Len(a) + Len(b)
      /\ Len(a) \in Nat /\ Len(b) \in Nat
      /\ \A j \in 1..(Len(a) + Len(b)) :
           (a \o b)[j] = IF j <= Len(a) THEN a[j] ELSE b[j - Len(a)]
  OBVIOUS
<1> DEFINE c == a \o b
<1> HIDE DEF c
<1>2. /\ ToSet(c) = {c[j] : j \in 1..(Len(a) + Len(b))}
      /\ ToSet(a) = {a[j] : j \in 1..Len(a)} /\ ToSet(b) = {b[j] : j \in 1..Len(b)}
  BY <1>1, ToSetIs DEF c
<1>3. ASSUME NEW j \in 1..Len(a) PROVE c[j] = a[j] /\ j \in 1..(Len(a) + Len(b))
  BY <1>1 DEF c
<1>4. ASSUME NEW j \in 1..Len(b) PROVE c[j + Len(a)] = b[j] /\ j + Len(a) \in 1..(Len(a) + Len(b))
  BY <1>1 DEF c
<1>5. ASSUME NEW j \in 1..(Len(a) + Len(b))
      PROVE  \/ j \in 1..Len(a) /\ c[j] = a[j]
             \/ j - Len(a) \in 1..Len(b) /\ c[j] = b[j - Len(a)]
  BY <1>1 DEF c
<1>6. ToSet(c) \subseteq ToSet(a) \cup ToSet(b)
  BY <1>2, <1>5
<1>7. ToSet(a) \cup ToSet(b) \subseteq ToSet(c)
  BY <1>2, <1>3, <1>4
<1> QED BY <1>6, <1>7 DEF c

\* What is in the list after its i-th element was brought to the front
LEMMA ToFrontKeeps ==
  ASSUME NEW l \in Seq(Names), NEW i \in 1..Len(l)
  PROVE  LET r == ToFront(l, i)
         IN  /\ r \in Seq(Names) /\ r # <<>> /\ Len(r) = Len(l)
             /\ ToSet(r) = ToSet(l)
             /\ Head(r) = l[i] /\ r[1] = l[i]
             /\ i # 1 => Len(r) >= 2 /\ r[2] = l[1]
             /\ IsInjective(l) => IsInjective(r)
<1> DEFINE r == ToFront(l, i)
           old(j) == IF j = 1 THEN i ELSE IF j <= i THEN j - 1 ELSE j
           new(j) == IF j = i THEN 1 ELSE IF j < i THEN j + 1 ELSE j
<1>1. RemoveAt(l, i) \in Seq(Names) /\ Len(RemoveAt(l, i)) = Len(l) - 1
      /\ \A j \in 1..(Len(l) - 1) : RemoveAt(l, i)[j] = IF j < i THEN l[j] ELSE l[j + 1]
  BY Removed
<1>2. /\ r \in Seq(Names) /\ Len(r) = Len(l)
      /\ \A j \in 1..Len(l) : r[j] = l[old(j)]
  BY <1>1 DEF ToFront
<1> HIDE DEF r
<1>3. \A j \in 1..Len(l) : old(j) \in 1..Len(l) /\ new(j) \in 1..Len(l) /\ old(new(j)) = j
  OBVIOUS
<1>4. ToSet(r) = ToSet(l)
  <2>1. ToSet(r) = {r[j] : j \in 1..Len(l)} /\ ToSet(l) = {l[j] : j \in 1..Len(l)}
    BY <1>2, ToSetIs
  <2>2. ASSUME NEW j \in 1..Len(l) PROVE \E k \in 1..Len(l) : r[j] = l[k]
    BY <1>2, <1>3
  <2>3. ASSUME NEW j \in 1..Len(l) PROVE \E k \in 1..Len(l) : l[j] = r[k]
    BY <1>2, <1>3
  <2> QED BY <2>1, <2>2, <2>3
<1>5. \A j, k \in 1..Len(l) : old(j) = old(k) => j = k
  OBVIOUS
<1>6. IsInjective(l) => IsInjective(r)
  <2> SUFFICES ASSUME IsInjective(l), NEW j \in 1..Len(l), NEW k \in 1..Len(l), r[j] = r[k]
               PROVE  j = k
    BY <1>2 DEF IsInjective
  <2>1. old(j) \in 1..Len(l) /\ old(k) \in 1..Len(l) /\ l[old(j)] = l[old(k)]
    BY <1>2, <1>3
  <2>2. old(j) = old(k)
    <3> HIDE DEF old
    <3> QED BY <2>1 DEF IsInjective
  <2> QED BY <1>5, <2>2
<1>7. Len(l) >= 1 /\ r[1] = l[i] /\ (i # 1 => Len(l) >= 2 /\ r[2] = l[1])
  BY <1>2
<1>8. r # <<>> /\ Head(r) = r[1]
  BY <1>2, <1>7
<1> QED BY <1>2, <1>4, <1>6, <1>7, <1>8 DEF r

\* A layout that is not in the list, at its end
LEMMA AppendKeeps ==
  ASSUME NEW l \in Seq(Names), NEW x \in Names
  PROVE  LET r == Append(l, x)
         IN  /\ r \in Seq(Names) /\ Len(r) = Len(l) + 1 /\ r[Len(l) + 1] = x
             /\ ToSet(r) = ToSet(l) \cup {x}
             /\ \A i \in 1..Len(l) : r[i] = l[i]
             /\ IsInjective(l) /\ x \notin ToSet(l) => IsInjective(r)
<1> DEFINE r == Append(l, x)
<1>1. /\ r \in Seq(Names) /\ Len(r) = Len(l) + 1 /\ r[Len(l) + 1] = x
      /\ \A i \in 1..Len(l) : r[i] = l[i]
  OBVIOUS
<1> HIDE DEF r
<1>2. ToSet(r) = ToSet(l) \cup {x}
  BY <1>1 DEF ToSet
<1>3. IsInjective(l) /\ x \notin ToSet(l) => IsInjective(r)
  BY <1>1 DEF ToSet, IsInjective
<1> QED BY <1>1, <1>2, <1>3 DEF r

\* The file of a layout orders the list anew at most.
LEMMA ArrangedKeeps ==
  ASSUME NEW l \in Seq(Names), NEW n, NEW asked \in SUBSET Names
  PROVE  LET r == ArrangedByFile(l, n, asked)
         IN  /\ r \in Seq(Names) /\ Len(r) = Len(l) /\ ToSet(r) = ToSet(l)
             /\ IsInjective(l) => IsInjective(r)
             /\ Quiet /\ n \in Names => r = l
<1>1. CASE setup.files[n].n_area # {} /\ asked # {} /\ asked \subseteq ToSet(l)
  <2> DEFINE i == CHOOSE j \in DOMAIN l : l[j] \in asked
  <2>1. \E j \in DOMAIN l : l[j] \in asked
    BY <1>1 DEF ToSet
  <2>2. i \in 1..Len(l)
    BY <2>1
  <2>3. ArrangedByFile(l, n, asked) = ToFront(l, i)
    BY <1>1 DEF ArrangedByFile
  <2> HIDE DEF i
  <2> QED BY <1>1, <2>2, <2>3, ToFrontKeeps DEF Quiet
<1>2. CASE ~(setup.files[n].n_area # {} /\ asked # {} /\ asked \subseteq ToSet(l))
  BY <1>2 DEF ArrangedByFile
<1> QED BY <1>1, <1>2

-----------------------------------------------------------------------------
(* Loading a layout with all that it links *)

\* What is loaded and what is still to be loaded
Loads == Seq(Names) \X Seq(Names)

\* The files of the layouts link layouts.
FilesOK == \A n \in Names : setup.files[n].links \in Seq(Names)

\* The list after a layout that it has not was added
Extended(s, asked) == ArrangedByFile(Append(s[1], Head(s[2])), Head(s[2]), asked)

\* The next call of the recursion in LoadLayout
LoadNext(s, asked) ==
  IF s[2] = <<>> THEN s
  ELSE IF Head(s[2]) \in ToSet(s[1]) THEN <<s[1], Tail(s[2])>>
  ELSE <<Extended(s, asked),
         setup.files[Extended(s, asked)[Len(s[1]) + 1]].links \o Tail(s[2])>>

\* f is the function that LoadLayout defines.
LoadEq(f, asked) ==
  f = [s \in Seq(Names) \X Seq(Names) |->
        IF s[2] = <<>> THEN s[1]
        ELSE IF Head(s[2]) \in ToSet(s[1]) THEN f[<<s[1], Tail(s[2])>>]
        ELSE LET m == ArrangedByFile(Append(s[1], Head(s[2])), Head(s[2]), asked)
             IN  f[<<m, setup.files[m[Len(s[1]) + 1]].links \o Tail(s[2])>>]]

\* What a call adds to the list and what it leaves to be loaded
LEMMA LoadNextKeeps ==
  ASSUME FilesOK, NEW s \in Loads, NEW asked \in SUBSET Names, s[2] # <<>>
  PROVE  LET x == Head(s[2])
             t == LoadNext(s, asked)
         IN  /\ x \in Names /\ t \in Loads
             /\ x \in ToSet(s[1]) => t = <<s[1], Tail(s[2])>> /\ t[1] = s[1] /\ Len(t[2]) = Len(s[2]) - 1
             /\ x \notin ToSet(s[1]) =>
                  /\ ToSet(t[1]) = ToSet(s[1]) \cup {x} /\ Len(t[1]) = Len(s[1]) + 1
                  /\ IsInjective(s[1]) => IsInjective(t[1])
                  /\ \E y \in Names :
                       /\ Len(t[2]) = Len(setup.files[y].links) + Len(s[2]) - 1
                       /\ Quiet => y = x
                       /\ t[2] = setup.files[y].links \o Tail(s[2])
                  /\ Quiet => t[1] = Append(s[1], x)
<1> DEFINE x == Head(s[2])
           l == s[1]
           m == Extended(s, asked)
           t == LoadNext(s, asked)
<1>1. l \in Seq(Names) /\ s[2] \in Seq(Names)
  BY DEF Loads
<1>2. x \in Names /\ Tail(s[2]) \in Seq(Names) /\ Len(Tail(s[2])) = Len(s[2]) - 1
  BY <1>1
<1>3. ASSUME x \in ToSet(l)
      PROVE  t \in Loads /\ t = <<l, Tail(s[2])>> /\ t[1] = l /\ Len(t[2]) = Len(s[2]) - 1
  <2>1. t = <<l, Tail(s[2])>>
    BY <1>3 DEF LoadNext
  <2> HIDE DEF t, x, l
  <2> QED BY <1>1, <1>2, <2>1 DEF Loads
<1>4. ASSUME x \notin ToSet(l)
      PROVE  /\ t \in Loads
             /\ ToSet(t[1]) = ToSet(l) \cup {x} /\ Len(t[1]) = Len(l) + 1
             /\ IsInjective(l) => IsInjective(t[1])
             /\ Quiet => t[1] = Append(l, x)
             /\ \E y \in Names :
                  /\ Len(t[2]) = Len(setup.files[y].links) + Len(s[2]) - 1
                  /\ Quiet => y = x
                  /\ t[2] = setup.files[y].links \o Tail(s[2])
  <2> DEFINE y == m[Len(l) + 1]
  <2>5. t = <<m, setup.files[y].links \o Tail(s[2])>>
    BY <1>4 DEF LoadNext
  <2>2. m = ArrangedByFile(Append(l, x), x, asked)
    BY DEF Extended
  <2> HIDE DEF x, l, t, m
  <2>1. /\ Append(l, x) \in Seq(Names) /\ Len(Append(l, x)) = Len(l) + 1
        /\ Append(l, x)[Len(l) + 1] = x
        /\ ToSet(Append(l, x)) = ToSet(l) \cup {x}
        /\ IsInjective(l) => IsInjective(Append(l, x))
    BY <1>1, <1>2, <1>4, AppendKeeps
  <2>3. /\ m \in Seq(Names) /\ Len(m) = Len(l) + 1 /\ ToSet(m) = ToSet(l) \cup {x}
        /\ IsInjective(l) => IsInjective(m)
        /\ Quiet => m = Append(l, x)
    BY <1>2, <2>1, <2>2, ArrangedKeeps
  <2>4. y \in Names /\ (Quiet => y = x)
    BY <1>1, <2>1, <2>3
  <2> HIDE DEF y
  <2>6. setup.files[y].links \in Seq(Names)
    BY <2>4 DEF FilesOK
  <2>7. /\ setup.files[y].links \o Tail(s[2]) \in Seq(Names)
        /\ Len(setup.files[y].links \o Tail(s[2])) = Len(setup.files[y].links) + Len(s[2]) - 1
    <3>1. \A a, b \in Seq(Names) : a \o b \in Seq(Names) /\ Len(a \o b) = Len(a) + Len(b)
      OBVIOUS
    <3> QED BY <1>1, <1>2, <2>6, <3>1
  <2>8. t[1] = m /\ t[2] = setup.files[y].links \o Tail(s[2]) /\ t \in Loads
    BY <2>3, <2>5, <2>7 DEF Loads
  <2> QED BY <2>3, <2>4, <2>7, <2>8
<1> HIDE DEF t
<1> QED BY <1>2, <1>3, <1>4 DEF t

\* How much the recursion has still to do: every layout that is not loaded adds
\* at most b links, and itself.
Todo(s, b) == Cardinality(Names \ ToSet(s[1])) * (b + 1) + Len(s[2])

LEMMA TodoShrinks ==
  ASSUME FilesOK, NEW s \in Loads, NEW asked \in SUBSET Names, s[2] # <<>>,
         NEW b \in Nat, \A n \in Names : Len(setup.files[n].links) <= b
  PROVE  Todo(LoadNext(s, asked), b) < Todo(s, b)
<1>0. LET x == Head(s[2])
          t == LoadNext(s, asked)
      IN  /\ x \in Names /\ t \in Loads
          /\ x \in ToSet(s[1]) => t[1] = s[1] /\ Len(t[2]) = Len(s[2]) - 1
          /\ x \notin ToSet(s[1]) => /\ ToSet(t[1]) = ToSet(s[1]) \cup {x}
               /\ \E y \in Names : Len(t[2]) = Len(setup.files[y].links) + Len(s[2]) - 1
  BY LoadNextKeeps
<1> DEFINE x == Head(s[2])
           t == LoadNext(s, asked)
           c == Cardinality(Names \ ToSet(s[1]))
           d == Cardinality(Names \ ToSet(t[1]))
<1>1. s[2] \in Seq(Names) /\ Len(s[2]) \in Nat /\ x \in Names /\ t \in Loads
  BY <1>0 DEF Loads
<1>2. IsFiniteSet(Names \ ToSet(s[1])) /\ c \in Nat
  BY NamesAssumption, FS_Subset, FS_CardinalityType
<1>3. CASE x \in ToSet(s[1])
  <2>1. t[1] = s[1] /\ Len(t[2]) = Len(s[2]) - 1
    BY <1>3, <1>0
  <2> HIDE DEF t
  <2>2. c * (b + 1) \in Nat
    BY <1>2
  <2> HIDE DEF c
  <2>3. Todo(t, b) = c * (b + 1) + (Len(s[2]) - 1) /\ Todo(s, b) = c * (b + 1) + Len(s[2])
    BY <2>1 DEF Todo, c
  <2> QED BY <1>1, <2>2, <2>3 DEF t
<1>4. CASE x \notin ToSet(s[1])
  <2>1. PICK y \in Names : ToSet(t[1]) = ToSet(s[1]) \cup {x}
                           /\ Len(t[2]) = Len(setup.files[y].links) + Len(s[2]) - 1
    BY <1>4, <1>0
  <2> HIDE DEF t
  <2>2. Names \ ToSet(t[1]) = (Names \ ToSet(s[1])) \ {x} /\ x \in Names \ ToSet(s[1])
    BY <1>1, <1>4, <2>1
  <2>3. d = c - 1
    <3> DEFINE U == Names \ ToSet(s[1])
    <3>1. IsFiniteSet(U) /\ x \in U
      BY <1>2, <2>2
    <3> HIDE DEF U, x
    <3>2. Cardinality(U \ {x}) = Cardinality(U) - 1
      BY <3>1, FS_RemoveElement
    <3> QED BY <2>2, <3>2 DEF U
  <2>4. Len(setup.files[y].links) \in Nat /\ Len(setup.files[y].links) <= b
    BY DEF FilesOK
  <2>5. Todo(t, b) = d * (b + 1) + Len(t[2]) /\ Todo(s, b) = c * (b + 1) + Len(s[2])
    BY DEF Todo
  <2> HIDE DEF c, d
  <2>6. d * (b + 1) = c * (b + 1) - (b + 1) /\ c * (b + 1) \in Nat
    BY <1>2, <2>3
  <2> DEFINE e == c * (b + 1)
             g == d * (b + 1)
  <2>7. g = e - (b + 1) /\ e \in Nat /\ Todo(t, b) = g + Len(t[2]) /\ Todo(s, b) = e + Len(s[2])
    BY <2>5, <2>6
  <2> HIDE DEF e, g
  <2> DEFINE k == Len(setup.files[y].links)
  <2>8. Len(t[2]) = k + Len(s[2]) - 1 /\ k \in Nat /\ k <= b
    BY <2>1, <2>4
  <2> HIDE DEF k
  <2>9. Todo(t, b) < Todo(s, b)
    BY <1>1, <2>7, <2>8
  <2> QED BY <2>9 DEF t
<1> QED BY <1>3, <1>4

\* What a call of the recursion returns: a list with what was loaded and with what
\* was to be loaded, each layout once if each was there once, and unless a file
\* arranges, what was loaded comes first, and each new layout has its links.
Loaded(s, r) ==
  /\ r \in Seq(Names)
  /\ ToSet(s[1]) \cup ToSet(s[2]) \subseteq ToSet(r)
  /\ IsInjective(s[1]) => IsInjective(r)
  /\ Len(s[1]) <= Len(r)
  /\ Quiet => /\ \A i \in 1..Len(s[1]) : r[i] = s[1][i]
              /\ \A n \in ToSet(r) \ ToSet(s[1]) : ToSet(setup.files[n].links) \subseteq ToSet(r)

\* What the next call returns is what this one returns.
LEMMA LoadedBack ==
  ASSUME FilesOK, NEW s \in Loads, NEW asked \in SUBSET Names, s[2] # <<>>, NEW r,
         Loaded(LoadNext(s, asked), r)
  PROVE  Loaded(s, r)
<1> DEFINE x == Head(s[2])
           l == s[1]
           t == LoadNext(s, asked)
<1>1. /\ l \in Seq(Names) /\ s[2] \in Seq(Names) /\ t \in Loads /\ x \in Names
      /\ t[1] \in Seq(Names) /\ t[2] \in Seq(Names)
  BY LoadNextKeeps DEF Loads
<1>2. ToSet(s[2]) = {x} \cup ToSet(Tail(s[2]))
  <2>1. /\ Tail(s[2]) \in Seq(Names) /\ x = s[2][1] /\ Len(s[2]) >= 1
        /\ Len(Tail(s[2])) = Len(s[2]) - 1
        /\ \A j \in 1..(Len(s[2]) - 1) : Tail(s[2])[j] = s[2][j + 1]
    BY <1>1
  <2>2. /\ ToSet(Tail(s[2])) = {Tail(s[2])[j] : j \in 1..(Len(s[2]) - 1)}
        /\ ToSet(s[2]) = {s[2][j] : j \in 1..Len(s[2])}
    BY <1>1, <2>1, ToSetIs
  <2>3. ASSUME NEW j \in 1..Len(s[2]), j # 1 PROVE s[2][j] = Tail(s[2])[j - 1] /\ j - 1 \in 1..(Len(s[2]) - 1)
    BY <1>1, <2>1, <2>3
  <2>4. ASSUME NEW j \in 1..(Len(s[2]) - 1) PROVE Tail(s[2])[j] = s[2][j + 1] /\ j + 1 \in 1..Len(s[2])
    BY <1>1, <2>1, <2>4
  <2>5. 1 \in 1..Len(s[2])
    BY <1>1, <2>1
  <2> HIDE DEF x
  <2>6. ToSet(s[2]) \subseteq {x} \cup ToSet(Tail(s[2]))
    <3> SUFFICES ASSUME NEW j \in 1..Len(s[2]) PROVE s[2][j] \in {x} \cup ToSet(Tail(s[2]))
      BY <2>2
    <3>1. CASE j = 1
      BY <2>1, <3>1
    <3>2. CASE j # 1
      <4>1. s[2][j] = Tail(s[2])[j - 1] /\ j - 1 \in 1..(Len(s[2]) - 1)
        BY <2>3, <3>2
      <4> QED BY <2>2, <4>1
    <3> QED BY <3>1, <3>2
  <2>7. {x} \cup ToSet(Tail(s[2])) \subseteq ToSet(s[2])
    BY <2>1, <2>2, <2>4, <2>5
  <2> QED BY <2>6, <2>7
<1>3. Loaded(t, r)
  OBVIOUS
<1>4. CASE x \in ToSet(l)
  <2>1. t[1] = l /\ t[2] = Tail(s[2])
    <3>1. t = <<l, Tail(s[2])>>
      BY <1>4, LoadNextKeeps
    <3> HIDE DEF t
    <3> QED BY <3>1
  <2> HIDE DEF t, x
  <2> QED BY <1>2, <1>3, <1>4, <2>1 DEF Loaded
<1>5. CASE x \notin ToSet(l)
  <2>1. PICK y \in Names :
          /\ ToSet(t[1]) = ToSet(l) \cup {x} /\ Len(t[1]) = Len(l) + 1
          /\ IsInjective(l) => IsInjective(t[1])
          /\ Quiet => y = x /\ t[1] = Append(l, x)
          /\ t[2] = setup.files[y].links \o Tail(s[2])
    BY <1>5, LoadNextKeeps
  <2> HIDE DEF t, x
  <2>2. ToSet(t[2]) = ToSet(setup.files[y].links) \cup ToSet(Tail(s[2]))
    <3>1. \A a, b \in Seq(Names) : ToSet(a \o b) = ToSet(a) \cup ToSet(b)
      BY ConcatMembers
    <3>2. setup.files[y].links \in Seq(Names) /\ Tail(s[2]) \in Seq(Names)
      BY <1>1 DEF FilesOK
    <3> QED BY <2>1, <3>1, <3>2
  <2>3. r \in Seq(Names) /\ ToSet(s[1]) \cup ToSet(s[2]) \subseteq ToSet(r)
    BY <1>2, <1>3, <2>1, <2>2 DEF Loaded
  <2>4. (IsInjective(l) => IsInjective(r)) /\ Len(l) <= Len(r)
    BY <1>1, <1>3, <2>1 DEF Loaded
  <2>5. ASSUME Quiet, NEW i \in 1..Len(l) PROVE r[i] = l[i]
    <3>1. t[1] = Append(l, x) /\ i \in 1..Len(t[1])
      BY <1>1, <2>1, <2>5
    <3>2. t[1][i] = l[i]
      BY <1>1, <3>1, AppendKeeps
    <3> QED BY <1>3, <2>5, <3>1, <3>2 DEF Loaded
  <2>6. ASSUME Quiet, NEW n \in ToSet(r) \ ToSet(l)
        PROVE  ToSet(setup.files[n].links) \subseteq ToSet(r)
    <3>1. CASE n = x
      <4>1. ToSet(setup.files[n].links) \subseteq ToSet(t[2])
        BY <2>1, <2>2, <2>6, <3>1
      <4> QED BY <1>3, <4>1 DEF Loaded
    <3>2. CASE n # x
      BY <1>3, <2>1, <2>6, <3>2 DEF Loaded
    <3> QED BY <3>1, <3>2
  <2> QED BY <2>3, <2>4, <2>5, <2>6 DEF Loaded
<1> QED BY <1>4, <1>5

\* LoadLayout is defined, by a recursion that ends because there are only so many
\* layouts, and returns what it should.
LEMMA LoadLayoutLoads ==
  ASSUME FilesOK, NEW list \in Seq(Names), NEW x \in Names, NEW asked \in SUBSET Names
  PROVE  /\ Loaded(<<list, <<x>>>>, LoadLayout(list, x, asked))
         /\ x \in ToSet(list) => LoadLayout(list, x, asked) = list
         /\ x \notin ToSet(list) =>
              Loaded(LoadNext(<<list, <<x>>>>, asked), LoadLayout(list, x, asked))
<1> DEFINE
      D == Loads
      V == Seq(Names)
      Final == {s \in D : s[2] = <<>>}
      stop == [s \in D |-> s[1]]
      next == [s \in D |-> LoadNext(s, asked)]
      step == [s \in D |-> [v \in V |-> v]]
      f == CHOOSE f : LoadEq(f, asked)
<1>1. LoadLayout(list, x, asked) = f[<<list, <<x>>>>]
  BY Zenon DEF LoadLayout, LoadEq
<1>2. PICK b \in Nat : \A n \in Names : Len(setup.files[n].links) <= b
  <2> DEFINE T == {Len(setup.files[n].links) : n \in Names}
  <2>1. T \in SUBSET Nat
    BY DEF FilesOK
  <2>2. IsFiniteSet(T)
    <3> DEFINE h == [n \in Names |-> Len(setup.files[n].links)]
    <3>1. h \in Surjection(Names, T)
      BY DEF Surjection
    <3> HIDE DEF h, T
    <3> QED BY <3>1, NamesAssumption, FS_Surjection
  <2>3. \E b \in Nat : \A n \in T : n <= b
    <3> HIDE DEF T
    <3> QED BY <2>1, <2>2, FiniteBounded
  <2> QED BY <2>3
<1> DEFINE m == [s \in D |-> Todo(s, b)]
<1>3. ASSUME NEW s \in D
      PROVE  /\ next[s] \in D /\ m[s] \in Nat /\ stop[s] \in V
             /\ s \notin Final => m[next[s]] < m[s]
  <2>1. s[1] \in Seq(Names) /\ s[2] \in Seq(Names)
    BY DEF Loads
  <2>2. m[s] \in Nat
    <3> DEFINE c == Cardinality(Names \ ToSet(s[1]))
    <3>1. c \in Nat
      BY NamesAssumption, FS_Subset, FS_CardinalityType
    <3> HIDE DEF c
    <3>2. c * (b + 1) \in Nat /\ Len(s[2]) \in Nat
      BY <2>1, <3>1
    <3>3. Todo(s, b) = c * (b + 1) + Len(s[2])
      BY DEF Todo, c
    <3> QED BY <3>2, <3>3
  <2>3. CASE s[2] = <<>>
    BY <2>1, <2>2, <2>3 DEF LoadNext
  <2>4. CASE s[2] # <<>>
    <3>1. LoadNext(s, asked) \in D
      BY <2>4, LoadNextKeeps
    <3>2. Todo(LoadNext(s, asked), b) < Todo(s, b)
      BY <1>2, <2>4, TodoShrinks
    <3> QED BY <2>1, <2>2, <2>4, <3>1, <3>2
  <2> QED BY <2>3, <2>4
<1>4. Recursion(D, V, Final, stop, next, step, m)
  <2>1. step \in [D -> [V -> V]] /\ Final \subseteq D
    OBVIOUS
  <2>2. stop \in [D -> V] /\ next \in [D -> D] /\ m \in [D -> Nat]
    BY <1>3
  <2> HIDE DEF D, Final, stop, next, step, m, V
  <2> QED BY <1>3, <2>1, <2>2 DEF Recursion
<1>5. PICK g \in [D -> V] : SolvesRecursion(g, D, Final, stop, next, step)
  <2> HIDE DEF D, V, Final, stop, next, step, m
  <2> QED BY <1>4, RecursionExists
<1>6. ASSUME NEW s \in D
      PROVE  g[s] = IF s[2] = <<>> THEN s[1]
                    ELSE IF Head(s[2]) \in ToSet(s[1]) THEN g[<<s[1], Tail(s[2])>>]
                    ELSE LET n == ArrangedByFile(Append(s[1], Head(s[2])), Head(s[2]), asked)
                         IN  g[<<n, setup.files[n[Len(s[1]) + 1]].links \o Tail(s[2])>>]
  <2>1. g[s] = IF s \in Final THEN stop[s] ELSE step[s][g[next[s]]]
    BY <1>5 DEF SolvesRecursion
  <2>2. g[next[s]] \in V
    BY <1>3
  <2>3. g[s] = IF s[2] = <<>> THEN s[1] ELSE g[LoadNext(s, asked)]
    BY <2>1, <2>2
  <2> HIDE DEF D, V, Final, stop, next, step, m
  <2> QED BY <2>3 DEF LoadNext, Extended
<1>7. LoadEq(f, asked)
  <2>1. g = [s \in D |-> g[s]]
    OBVIOUS
  <2>2. LoadEq(g, asked)
    BY <1>6, <2>1 DEF LoadEq, Loads
  <2> QED BY <2>2
<1> HIDE DEF f, m
<1>8. ASSUME NEW s \in D
      PROVE  f[s] = IF s[2] = <<>> THEN s[1] ELSE f[LoadNext(s, asked)]
  BY <1>7 DEF LoadEq, LoadNext, Extended, Loads
<1> DEFINE T == {s \in D : Loaded(s, f[s])}
<1>9. ASSUME NEW s \in D, s \in Final \/ next[s] \in T PROVE s \in T
  <2>1. CASE s[2] = <<>>
    <3>1. f[s] = s[1] /\ s[1] \in Seq(Names) /\ ToSet(s[2]) = {}
      BY <1>8, <2>1 DEF Loads, ToSet
    <3>2. Len(s[1]) \in Nat
      BY <3>1
    <3> QED BY <3>1, <3>2 DEF Loaded
  <2>2. CASE s[2] # <<>>
    <3>1. Loaded(LoadNext(s, asked), f[LoadNext(s, asked)])
      BY <1>9, <2>2
    <3>2. f[s] = f[LoadNext(s, asked)]
      BY <1>8, <2>2
    <3> QED BY <2>2, <3>1, <3>2, LoadedBack
  <2> QED BY <2>1, <2>2
<1>10. PassedBack(D, T, Final, next, m)
  <2> HIDE DEF T, D, Final, next
  <2> QED BY <1>4, <1>9 DEF PassedBack, Recursion
<1>11. D \subseteq T
  <2> HIDE DEF T, D, Final, next
  <2> QED BY <1>10, RecursionInduction
<1> DEFINE s == <<list, <<x>>>>
<1>12. s \in D /\ s[1] = list /\ s[2] = <<x>> /\ s[2] # <<>> /\ Head(s[2]) = x
       /\ Tail(s[2]) = <<>>
  <2>1. <<x>> \in Seq(Names) /\ Len(<<x>>) = 1 /\ Head(<<x>>) = x /\ <<x>> # <<>>
    OBVIOUS
  <2>2. Tail(<<x>>) \in Seq(Names) /\ Len(Tail(<<x>>)) = 0
    BY <2>1
  <2>3. Tail(<<x>>) = <<>>
    BY <2>2
  <2> QED BY <2>1, <2>3 DEF Loads
<1>13. x \in ToSet(list) => f[s] = list
  <2> SUFFICES ASSUME x \in ToSet(list) PROVE f[s] = list
    OBVIOUS
  <2>1. LoadNext(s, asked) = <<list, <<>>>>
    BY <1>12 DEF LoadNext
  <2>2. LoadNext(s, asked) \in D
    BY <1>12, LoadNextKeeps
  <2>3. f[<<list, <<>>>>] = list
    BY <1>8, <2>1, <2>2
  <2> QED BY <1>8, <1>12, <2>1, <2>3
<1>14. LoadNext(s, asked) \in D /\ f[s] = f[LoadNext(s, asked)]
  BY <1>8, <1>12, LoadNextKeeps
<1> QED BY <1>1, <1>11, <1>12, <1>13, <1>14

-----------------------------------------------------------------------------
(* Which layout has the focus *)

\* A list of layouts without duplicates that has the links of each
ListOK(l) ==
  /\ l \in Seq(Names) /\ IsInjective(l)
  /\ Quiet => \A n \in ToSet(l) : ToSet(setup.files[n].links) \subseteq ToSet(l)

\* A list has the layout x, and has it first unless a file arranges.
Asked(l, x) == l # <<>> => x \in ToSet(l) /\ (Quiet => Head(l) = x)

\* tag_load_layout keeps the list in order, and the position that focus_layout
\* takes the layout from is one of the list.
LEMMA LoadLayoutKeeps ==
  ASSUME FilesOK, NEW list, ListOK(list), NEW x \in Names, NEW asked \in SUBSET Names
  PROVE  LET r == LoadLayout(list, x, asked)
             i == IF x \in ToSet(list) THEN CHOOSE j \in DOMAIN list : list[j] = x
                                       ELSE Len(list) + 1
         IN  /\ ListOK(r) /\ x \in ToSet(r) /\ ToSet(list) \subseteq ToSet(r)
             /\ i \in 1..Len(r)
             /\ Quiet => r[i] = x
             /\ Quiet /\ list # <<>> => r[1] = Head(list)
<1> DEFINE r == LoadLayout(list, x, asked)
           s == <<list, <<x>>>>
           t == LoadNext(s, asked)
           i == IF x \in ToSet(list) THEN CHOOSE j \in DOMAIN list : list[j] = x
                                     ELSE Len(list) + 1
<1>1. list \in Seq(Names) /\ Len(list) \in Nat
  BY DEF ListOK
<1>2. /\ Loaded(s, r) /\ (x \in ToSet(list) => r = list)
      /\ x \notin ToSet(list) => Loaded(t, r)
  BY <1>1, LoadLayoutLoads
<1>3. s \in Loads /\ s[1] = list /\ s[2] = <<x>> /\ s[2] # <<>> /\ Head(s[2]) = x /\ x \in ToSet(<<x>>)
  BY <1>1 DEF Loads, ToSet
<1> HIDE DEF r, s
<1>4. ListOK(r) /\ x \in ToSet(r) /\ ToSet(list) \subseteq ToSet(r)
  <2>1. r \in Seq(Names) /\ ToSet(list) \subseteq ToSet(r) /\ x \in ToSet(r) /\ IsInjective(r)
    BY <1>2, <1>3 DEF Loaded, ListOK
  <2>2. ASSUME Quiet, NEW n \in ToSet(r) PROVE ToSet(setup.files[n].links) \subseteq ToSet(r)
    <3>1. CASE n \in ToSet(list)
      BY <2>1, <2>2, <3>1 DEF ListOK
    <3>2. CASE n \notin ToSet(list)
      BY <1>2, <1>3, <2>2, <3>2 DEF Loaded
    <3> QED BY <3>1, <3>2
  <2> QED BY <2>1, <2>2 DEF ListOK
<1>5. CASE x \in ToSet(list)
  <2>1. i \in DOMAIN list /\ list[i] = x
    <3>1. \E j \in DOMAIN list : list[j] = x
      BY <1>5 DEF ToSet
    <3> QED BY <1>5, <3>1
  <2> HIDE DEF i
  <2>2. i \in 1..Len(r) /\ r[i] = x /\ (list # <<>> => r[1] = Head(list))
    BY <1>1, <1>2, <1>5, <2>1
  <2> QED BY <1>4, <2>2 DEF r, s, i
<1>6. CASE x \notin ToSet(list)
  <2>1. i = Len(list) + 1
    BY <1>6
  <2>2. t \in Loads /\ Len(t[1]) = Len(list) + 1 /\ (Quiet => t[1] = Append(list, x))
    BY <1>3, <1>6, LoadNextKeeps
  <2> HIDE DEF t, i
  <2>3. Loaded(t, r) /\ r \in Seq(Names)
    BY <1>2, <1>6 DEF Loaded
  <2>4. i \in 1..Len(r)
    BY <1>1, <2>1, <2>2, <2>3 DEF Loaded
  <2>5. ASSUME Quiet PROVE r[i] = x /\ (list # <<>> => r[1] = Head(list))
    <3>1. \A j \in 1..(Len(list) + 1) : r[j] = Append(list, x)[j]
      BY <1>1, <2>2, <2>3, <2>5 DEF Loaded
    <3>2. Append(list, x)[Len(list) + 1] = x /\ (list # <<>> => Append(list, x)[1] = Head(list))
      BY <1>1
    <3> QED BY <1>1, <2>1, <3>1, <3>2
  <2> QED BY <1>4, <2>4, <2>5 DEF r, s, i
<1> QED BY <1>5, <1>6

\* What is loaded into an empty list starts with what was asked for.
LEMMA FirstLoaded ==
  ASSUME FilesOK, NEW list, list = <<>>, NEW x \in Names, NEW asked \in SUBSET Names
  PROVE  LET r == LoadLayout(list, x, asked)
         IN  ListOK(r) /\ x \in ToSet(r) /\ (Quiet => r[1] = x)
<1> DEFINE i == IF x \in ToSet(list) THEN CHOOSE j \in DOMAIN list : list[j] = x
                                     ELSE Len(list) + 1
           r == LoadLayout(list, x, asked)
<1>1. ListOK(list) /\ x \notin ToSet(list) /\ Len(list) = 0
  BY DEF ListOK, IsInjective, ToSet
<1>2. i = 1
  BY <1>1
<1>3. ListOK(r) /\ x \in ToSet(r) /\ (Quiet => r[i] = x)
  BY <1>1, LoadLayoutKeeps
<1> HIDE DEF i, r
<1> QED BY <1>2, <1>3 DEF r

\* focus_layout brings the layout that it is given to the front, and what was there
\* is behind it.
LEMMA FocusLayoutFocuses ==
  ASSUME FilesOK, NEW list, ListOK(list), NEW x \in Names, NEW asked \in SUBSET Names
  PROVE  LET r == FocusLayout(list, x, asked)
         IN  /\ ListOK(r) /\ r # <<>> /\ Asked(r, x)
             /\ Quiet /\ list # <<>> /\ Head(r) # Head(list) => r[2] = Head(list)
<1> DEFINE all == LoadLayout(list, x, asked)
           i == IF x \in ToSet(list) THEN CHOOSE j \in DOMAIN list : list[j] = x
                                     ELSE Len(list) + 1
           r == ToFront(all, i)
<1>1. FocusLayout(list, x, asked) = r
  BY DEF FocusLayout
<1>2. /\ ListOK(all) /\ x \in ToSet(all) /\ i \in 1..Len(all)
      /\ Quiet => all[i] = x
      /\ Quiet /\ list # <<>> => all[1] = Head(list)
  BY LoadLayoutKeeps
<1> HIDE DEF all, i
<1>3. /\ r \in Seq(Names) /\ r # <<>> /\ ToSet(r) = ToSet(all) /\ Head(r) = all[i]
      /\ i # 1 => r[2] = all[1]
      /\ IsInjective(r)
  BY <1>2, ToFrontKeeps DEF ListOK
<1> HIDE DEF r
<1>4. ListOK(r)
  BY <1>2, <1>3 DEF ListOK
<1>5. Asked(r, x)
  BY <1>2, <1>3 DEF Asked
<1>6. Quiet /\ list # <<>> /\ Head(r) # Head(list) => r[2] = Head(list)
  BY <1>2, <1>3
<1> QED BY <1>1, <1>3, <1>4, <1>5, <1>6

\* The empty list, and the list of a tag that may have none yet
LEMMA LoadedByOK ==
  ASSUME FilesOK, NEW t \in Tags, ListOK(loaded[t]), current[t] \in Names,
         Asked(loaded[t], current[t])
  PROVE  /\ ListOK(LoadedBy(t)) /\ Asked(LoadedBy(t), current[t]) /\ LoadedBy(t) # <<>>
         /\ loaded[t] # <<>> => LoadedBy(t) = loaded[t]
<1>1. ListOK(<<>>)
  BY DEF ListOK, IsInjective, ToSet
<1> QED BY <1>1, FocusLayoutFocuses DEF LoadedBy

-----------------------------------------------------------------------------
(* The invariant *)

\* Each tag has a list in order, led by the layout that it was asked for; a tag that
\* has no layout yet has not been asked for another one.
ListsFollow(lists, asked, before) ==
  /\ lists \in [Tags -> Seq(Names)] /\ asked \in [Tags -> Names] /\ before \in [Tags -> Names]
  /\ \A t \in Tags : /\ ListOK(lists[t]) /\ Asked(lists[t], asked[t])
                     /\ lists[t] = <<>> => before[t] = asked[t]

ChosenOK ==
  /\ ListsFollow(loaded, current, previous)
  /\ loaded[selected] # <<>> /\ default \in Names

\* A layout without areas has the table of an earlier arrangement.
TablesKept(sets) ==
  FilesGiveAreas =>
    \A t \in Tags : \A n \in Names : sets[t][n].max_area = 0 => sets[t][n].places > 0

TablesOK ==
  /\ TablesKept(settings)
  /\ FilesGiveAreas => fault # "no_place" /\ settings[selected][Focused].places > 0

\* No more windows have places than there are.
RoomOK ==
  /\ tiled \in 0..setup.room /\ DOMAIN spots \subseteq 1..tiled
  /\ fault \in {"none", "no_previous", "no_name", "no_place"}

Chosen == ChosenOK /\ TablesOK /\ RoomOK

\* A table stays or gets as many places as there are areas.
LEMMA SetLayoutRefKeeps ==
  ASSUME NEW s \in Settings, NEW n \in Nat, s.max_area = 0 => s.places > 0
  PROVE  SetLayoutRef(s, n).places > 0 /\ SetLayoutRef(s, n).max_area = s.max_area
BY Counts DEF SetLayoutRef, Settings

\* Every tag but t is as in ListsFollow.
OthersFollow(t, lists, asked, before) ==
  \A u \in Tags : /\ ListOK(lists[u])
                  /\ u # t => /\ Asked(lists[u], asked[u])
                              /\ lists[u] = <<>> => before[u] = asked[u]

\* What arrange() does to the lists, the tables and the places
LEMMA ArrangeTagChosen ==
  ASSUME FilesOK, NEW t \in Tags, NEW lists, NEW names \in [Tags -> Names],
         NEW before \in [Tags -> Names],
         lists \in [Tags -> Seq(Names)], OthersFollow(t, lists, names, before),
         NEW sets \in [Tags -> [Names -> Settings]], TablesKept(sets),
         NEW n \in Nat, ArrangeTag(t, lists, names, sets, n)
  PROVE  /\ ListsFollow(loaded', names, before)
         /\ loaded'[t] # <<>> /\ \A u \in Tags \ {t} : loaded'[u] = lists[u]
         /\ Quiet /\ lists[t] # <<>> /\ Head(loaded'[t]) # Head(lists[t]) =>
              loaded'[t][2] = Head(lists[t])
         /\ TablesKept(settings')
         /\ FilesGiveAreas => fault' # "no_place" /\ settings'[t][Head(loaded'[t])].places > 0
         /\ tiled' = n /\ DOMAIN spots' \subseteq 1..n /\ fault' \in {"none", "no_place"}
<1> DEFINE r == FocusLayout(lists[t], names[t], {names[t]})
           h == Head(r)
           s == SetLayoutRef(sets[t][h], n)
<1>1. /\ ListOK(r) /\ r # <<>> /\ Asked(r, names[t])
      /\ Quiet /\ lists[t] # <<>> /\ Head(r) # Head(lists[t]) => r[2] = Head(lists[t])
  BY FocusLayoutFocuses DEF OthersFollow
<1>2. loaded' = [lists EXCEPT ![t] = r]
  BY DEF ArrangeTag
<1> HIDE DEF r
<1>3. r \in Seq(Names) /\ h \in Names
  BY <1>1 DEF ListOK
<1>4. loaded' \in [Tags -> Seq(Names)] /\ loaded'[t] = r /\ \A u \in Tags \ {t} : loaded'[u] = lists[u]
  BY <1>2, <1>3
<1>5. ListsFollow(loaded', names, before)
  BY <1>1, <1>4 DEF ListsFollow, OthersFollow
<1>6. /\ settings' = [sets EXCEPT ![t][h] = s]
      /\ spots' = IF PlaceMissing(settings'[t][h], n) THEN <<>> ELSE Places(settings'[t][h], n)
      /\ fault' = IF PlaceMissing(settings'[t][h], n) THEN "no_place" ELSE "none"
      /\ tiled' = n
  <2> DEFINE k == Head(loaded'[t])
  <2>1. /\ settings' = [sets EXCEPT ![t][k] = SetLayoutRef(@, n)]
        /\ spots' = IF PlaceMissing(settings'[t][k], n) THEN <<>> ELSE Places(settings'[t][k], n)
        /\ fault' = IF PlaceMissing(settings'[t][k], n) THEN "no_place" ELSE "none"
        /\ tiled' = n
    BY DEF ArrangeTag
  <2>2. k = h
    BY <1>4
  <2> HIDE DEF k, h
  <2>3. [sets EXCEPT ![t][h] = SetLayoutRef(@, n)] = [sets EXCEPT ![t][h] = s]
    OBVIOUS
  <2> QED BY <2>1, <2>2, <2>3
<1>7. sets[t][h] \in Settings
  BY <1>3
<1>8. s \in Settings
  BY <1>7, SetLayoutRefType
<1> HIDE DEF h
<1>9. FilesGiveAreas => s.places > 0 /\ s.max_area = sets[t][h].max_area /\ ~PlaceMissing(s, n)
  BY <1>3, <1>7, SetLayoutRefKeeps, AreasExist DEF TablesKept
<1> HIDE DEF s
<1>10. settings'[t][h] = s
  BY <1>3, <1>6
<1>11. \A u \in Tags : \A m \in Names : <<u, m>> # <<t, h>> => settings'[u][m] = sets[u][m]
  BY <1>3, <1>6
<1>12. TablesKept(settings')
  BY <1>9, <1>10, <1>11 DEF TablesKept
<1>13. FilesGiveAreas => fault' # "no_place" /\ settings'[t][h].places > 0
  BY <1>6, <1>9, <1>10
<1>14. DOMAIN spots' \subseteq 1..n
  <2>1. Shown(s, n) \in Int /\ Shown(s, n) <= n
    BY <1>8, Counts
  <2>2. DOMAIN Places(s, n) = 1..Shown(s, n)
    BY DEF Places
  <2>3. DOMAIN <<>> = {}
    OBVIOUS
  <2> QED BY <1>6, <1>10, <2>1, <2>2, <2>3
<1> QED BY <1>1, <1>4, <1>5, <1>6, <1>12, <1>13, <1>14 DEF h

\* A step that ends in arrange() for the tag that is selected after it
LEMMA ArrangeKeepsChosen ==
  ASSUME SettingsOK, setup' = setup, selected' \in Tags, default' \in Names,
         current' \in [Tags -> Names], previous' \in [Tags -> Names],
         NEW lists \in [Tags -> Seq(Names)],
         \A u \in Tags : /\ ListOK(lists[u])
                         /\ u # selected' => /\ Asked(lists[u], current'[u])
                                             /\ lists[u] = <<>> => previous'[u] = current'[u],
         NEW sets \in [Tags -> [Names -> Settings]], TablesKept(sets),
         NEW n \in 0..setup.room, ArrangeTag(selected', lists, current', sets, n)
  PROVE  Chosen'
<1>1. FilesOK /\ n \in Nat /\ selected' \in Tags
  BY DEF SettingsOK, FilesOK, File
<1> DEFINE t == selected'
           names == current'
           before == previous'
<1>0. /\ t \in Tags /\ names \in [Tags -> Names] /\ before \in [Tags -> Names]
      /\ OthersFollow(t, lists, names, before) /\ ArrangeTag(t, lists, names, sets, n)
  BY <1>1 DEF OthersFollow
<1>2. /\ ListsFollow(loaded', current', previous')
      /\ loaded'[t] # <<>>
      /\ TablesKept(settings')
      /\ FilesGiveAreas => fault' # "no_place" /\ settings'[t][Head(loaded'[t])].places > 0
      /\ tiled' = n /\ DOMAIN spots' \subseteq 1..n /\ fault' \in {"none", "no_place"}
  <2> HIDE DEF t, names, before
  <2>1. /\ lists \in [Tags -> Seq(Names)] /\ sets \in [Tags -> [Names -> Settings]]
        /\ TablesKept(sets)
    OBVIOUS
  <2>2. /\ ListsFollow(loaded', names, before)
        /\ loaded'[t] # <<>>
        /\ TablesKept(settings')
        /\ FilesGiveAreas => fault' # "no_place" /\ settings'[t][Head(loaded'[t])].places > 0
        /\ tiled' = n /\ DOMAIN spots' \subseteq 1..n /\ fault' \in {"none", "no_place"}
    BY ONLY <1>0, <1>1, <2>1, ArrangeTagChosen
  <2> QED BY <2>2 DEF names, before
<1>3. ChosenOK'
  BY <1>2 DEF ChosenOK, ListsFollow, ListOK, Asked, Quiet
<1>4. TablesOK'
  BY <1>2 DEF TablesOK, TablesKept, FilesGiveAreas, Focused
<1>5. RoomOK'
  BY <1>2 DEF RoomOK
<1> QED BY <1>3, <1>4, <1>5 DEF Chosen

\* Settings of one layout of a tag, replaced
LEMMA SetKeepsTables ==
  ASSUME SettingsOK, TablesKept(settings), NEW s,
         FilesGiveAreas => (s.max_area = 0 => s.places > 0)
  PROVE  TablesKept(Set(s))
<1>1. ASSUME NEW t \in Tags, NEW n \in Names
      PROVE  Set(s)[t][n] \in {s, settings[t][n]}
  BY DEF Set, SettingsOK
<1> QED BY <1>1 DEF TablesKept

\* The focused layout is one of Names, with its settings.
LEMMA FocusedIsOne ==
  ASSUME SettingsOK, Chosen
  PROVE  /\ Focused \in Names /\ Lt \in Settings
         /\ FilesGiveAreas => Lt.places > 0 /\ (Lt.max_area = 0 => Lt.places > 0)
<1>1. loaded[selected] \in Seq(Names) /\ loaded[selected] # <<>>
  BY DEF Chosen, ChosenOK, ListsFollow, SettingsOK
<1>2. Focused \in Names
  BY <1>1 DEF Focused
<1> QED BY <1>2 DEF Chosen, TablesOK, Lt, SettingsOK

\* The settings of a layout that was just created
LEMMA FreshTables ==
  ASSUME SettingsOK
  PROVE  TablesKept(AllFresh)
<1>1. ASSUME NEW n \in Names, FilesGiveAreas PROVE Fresh(setup.files[n]).max_area # 0
  <2>1. setup.files[n].n_area \in SUBSET Int /\ 0 \notin setup.files[n].n_area
    BY <1>1 DEF SettingsOK, File, FilesGiveAreas
  <2> QED BY <2>1 DEF Fresh, Either
<1> QED BY <1>1 DEF TablesKept, AllFresh

\* Asking for another layout: Layout.load, Layout.toggle, the ring
LEMMA PushKeepsChosen ==
  ASSUME SettingsOK, Chosen, setup' = setup, selected' = selected, default' = default,
         NEW x \in Names, Push(x)
  PROVE  Chosen'
<1>1. /\ current' = [current EXCEPT ![selected] = x]
      /\ previous' = [previous EXCEPT ![selected] = current[selected]]
      /\ ArrangeTag(selected', loaded, current', settings, tiled)
  BY DEF Push
<1>2. /\ ListsFollow(loaded, current, previous) /\ loaded[selected] # <<>> /\ default \in Names
      /\ TablesKept(settings) /\ tiled \in 0..setup.room
  BY DEF Chosen, ChosenOK, TablesOK, RoomOK
<1>3. selected \in Tags /\ settings \in [Tags -> [Names -> Settings]]
  BY DEF SettingsOK
<1>4. /\ loaded \in [Tags -> Seq(Names)] /\ current' \in [Tags -> Names]
      /\ previous' \in [Tags -> Names]
      /\ \A u \in Tags : /\ ListOK(loaded[u])
                         /\ u # selected' => /\ Asked(loaded[u], current'[u])
                                             /\ loaded[u] = <<>> => previous'[u] = current'[u]
  BY <1>1, <1>2, <1>3 DEF ListsFollow
<1> QED BY <1>1, <1>2, <1>3, <1>4, ArrangeKeepsChosen

\* A position outside of a list
LEMMA StopKeepsChosen ==
  ASSUME Chosen, setup' = setup, NEW reason \in {"no_previous", "no_name"}, Stop(reason)
  PROVE  Chosen'
BY DEF Stop, Chosen, ChosenOK, TablesOK, RoomOK, ListsFollow, ListOK, Asked, Quiet,
       TablesKept, FilesGiveAreas, Focused

\* Arranging the selected tag with other settings or another number of windows
LEMMA ArrangeAnewKeepsChosen ==
  ASSUME SettingsOK, Chosen, setup' = setup, UNCHANGED <<selected, current, previous, default>>,
         NEW lists \in [Tags -> Seq(Names)],
         \A u \in Tags : /\ ListOK(lists[u]) /\ Asked(lists[u], current[u])
                         /\ lists[u] = <<>> => loaded[u] = <<>>,
         NEW sets \in [Tags -> [Names -> Settings]], TablesKept(sets),
         NEW n \in 0..setup.room, ArrangeTag(selected, lists, current, sets, n)
  PROVE  Chosen'
<1>1. ListsFollow(loaded, current, previous) /\ default \in Names /\ selected \in Tags
  BY DEF Chosen, ChosenOK, SettingsOK
<1> QED BY <1>1, ArrangeKeepsChosen DEF ListsFollow

\* Only the lists of tags that are not shown change.
LEMMA LookKeepsChosen ==
  ASSUME SettingsOK, Chosen, setup' = setup,
         UNCHANGED <<selected, current, previous, settings, tiled, spots, default, fault>>,
         loaded' \in [Tags -> Seq(Names)], loaded'[selected] = loaded[selected],
         \A u \in Tags : /\ ListOK(loaded'[u]) /\ Asked(loaded'[u], current[u])
                         /\ loaded'[u] = <<>> => loaded[u] = <<>>
  PROVE  Chosen'
<1>1. ChosenOK'
  BY DEF Chosen, ChosenOK, ListsFollow, ListOK, Asked, Quiet
<1>2. TablesOK'
  BY DEF Chosen, TablesOK, TablesKept, FilesGiveAreas, Focused
<1>3. RoomOK'
  BY DEF Chosen, RoomOK
<1> QED BY <1>1, <1>2, <1>3 DEF Chosen

-----------------------------------------------------------------------------
(* Every step keeps it *)

\* What a tag has loaded when it was looked at
LEMMA LookedAt ==
  ASSUME SettingsOK, Chosen, NEW t \in Tags
  PROVE  /\ ListOK(LoadedBy(t)) /\ Asked(LoadedBy(t), current[t]) /\ LoadedBy(t) # <<>>
         /\ loaded[t] # <<>> => LoadedBy(t) = loaded[t]
         /\ loaded[t] = <<>> => /\ ListOK(LoadLayout(<<>>, previous[t], {}))
                                /\ Asked(LoadLayout(<<>>, previous[t], {}), current[t])
<1>1. FilesOK
  BY DEF SettingsOK, FilesOK, File
<1>2. /\ ListOK(loaded[t]) /\ Asked(loaded[t], current[t]) /\ current[t] \in Names
      /\ previous[t] \in Names /\ (loaded[t] = <<>> => previous[t] = current[t])
  BY DEF Chosen, ChosenOK, ListsFollow
<1>3. ASSUME loaded[t] = <<>>
      PROVE  /\ ListOK(LoadLayout(<<>>, previous[t], {}))
             /\ Asked(LoadLayout(<<>>, previous[t], {}), current[t])
  <2> DEFINE r == LoadLayout(<<>>, current[t], {})
  <2>2. ListOK(r) /\ current[t] \in ToSet(r) /\ (Quiet => r[1] = current[t])
    BY <1>1, <1>2, FirstLoaded
  <2> HIDE DEF r
  <2>3. r # <<>> => Head(r) = r[1]
    BY <2>2 DEF ListOK
  <2>4. Asked(r, current[t])
    BY <2>2, <2>3 DEF Asked
  <2> QED BY <1>2, <1>3, <2>2, <2>4 DEF r
<1> QED BY <1>1, <1>2, <1>3, LoadedByOK

\* The lists that tags have after all were looked at, or one was
LEMMA LookedAtLists ==
  ASSUME SettingsOK, Chosen, NEW lists, NEW t \in Tags,
         \/ lists = loaded
         \/ lists = [u \in Tags |-> LoadedBy(u)]
         \/ lists = [loaded EXCEPT ![t] = LoadedBy(t)]
         \/ lists = [loaded EXCEPT ![t] = IF @ = <<>> THEN LoadLayout(<<>>, previous[t], {}) ELSE @]
  PROVE  /\ lists \in [Tags -> Seq(Names)]
         /\ \A u \in Tags : /\ ListOK(lists[u]) /\ Asked(lists[u], current[u])
                            /\ lists[u] = <<>> => loaded[u] = <<>>
                            /\ loaded[u] # <<>> => lists[u] = loaded[u]
<1>1. loaded \in [Tags -> Seq(Names)] /\ \A u \in Tags : ListOK(loaded[u]) /\ Asked(loaded[u], current[u])
  BY DEF Chosen, ChosenOK, ListsFollow
<1>2. \A u \in Tags : /\ ListOK(LoadedBy(u)) /\ Asked(LoadedBy(u), current[u]) /\ LoadedBy(u) # <<>>
                      /\ loaded[u] # <<>> => LoadedBy(u) = loaded[u]
                      /\ loaded[u] = <<>> => /\ ListOK(LoadLayout(<<>>, previous[u], {}))
                                             /\ Asked(LoadLayout(<<>>, previous[u], {}), current[u])
  BY LookedAt
<1>3. \A l : ListOK(l) => l \in Seq(Names)
  BY DEF ListOK
<1>4. CASE lists = loaded
  BY <1>1, <1>4
<1>5. CASE lists = [u \in Tags |-> LoadedBy(u)]
  BY <1>2, <1>3, <1>5
<1>6. CASE lists = [loaded EXCEPT ![t] = LoadedBy(t)]
  BY <1>1, <1>2, <1>3, <1>6
<1>7. CASE lists = [loaded EXCEPT ![t] = IF @ = <<>> THEN LoadLayout(<<>>, previous[t], {}) ELSE @]
  <2>1. lists = [loaded EXCEPT ![t] = IF loaded[t] = <<>> THEN LoadLayout(<<>>, previous[t], {}) ELSE loaded[t]]
    BY <1>7
  <2>2. CASE loaded[t] = <<>>
    BY <1>1, <1>2, <1>3, <2>1, <2>2
  <2>3. CASE loaded[t] # <<>>
    <3>1. lists = loaded
      BY <1>1, <2>1, <2>3
    <3> QED BY <1>1, <3>1
  <2> QED BY <2>2, <2>3
<1> QED BY <1>4, <1>5, <1>6, <1>7

LEMMA NextChosen ==
  ASSUME SettingsOK, RingOK, Chosen, [Next]_vars
  PROVE  Chosen'
<1>1. /\ selected \in Tags /\ settings \in [Tags -> [Names -> Settings]] /\ TablesKept(settings)
      /\ tiled \in 0..setup.room /\ setup.room \in Nat
  BY DEF SettingsOK, Chosen, RoomOK, TablesOK
<1>2. /\ loaded \in [Tags -> Seq(Names)]
      /\ \A u \in Tags : /\ ListOK(loaded[u]) /\ Asked(loaded[u], current[u])
      /\ loaded[selected] # <<>> /\ default \in Names
      /\ current \in [Tags -> Names] /\ previous \in [Tags -> Names]
  BY DEF Chosen, ChosenOK, ListsFollow
<1>3. /\ Focused \in Names /\ Lt \in Settings
      /\ FilesGiveAreas => Lt.places > 0 /\ (Lt.max_area = 0 => Lt.places > 0)
  BY FocusedIsOne
<1>s. ASSUME NEW s \in Settings, FilesGiveAreas => (s.max_area = 0 => s.places > 0)
      PROVE  Set(s) \in [Tags -> [Names -> Settings]] /\ TablesKept(Set(s))
  BY <1>1, <1>s, SetType, SetKeepsTables
<1>a. ASSUME setup' = setup, UNCHANGED <<selected, current, previous, default>>,
             NEW s \in Settings, FilesGiveAreas => (s.max_area = 0 => s.places > 0),
             ArrangeTag(selected, loaded, current, Set(s), tiled)
      PROVE  Chosen'
  BY <1>1, <1>2, <1>a, <1>s, ArrangeAnewKeepsChosen
<1>4. ASSUME NEW x \in Names, Load(x) PROVE Chosen'
  BY <1>4, PushKeepsChosen DEF Load
<1>5. ASSUME NEW x \in Names, Toggle(x) PROVE Chosen'
  <2>1. setup' = setup /\ selected' = selected /\ default' = default
    BY <1>5 DEF Toggle
  <2>2. CASE x # Focused
    BY <1>5, <2>1, <2>2, PushKeepsChosen DEF Toggle
  <2>3. CASE x = Focused /\ Len(loaded[selected]) < 2
    BY <1>5, <2>1, <2>3, StopKeepsChosen DEF Toggle
  <2>4. CASE x = Focused /\ ~(Len(loaded[selected]) < 2)
    <3>1. Push(loaded[selected][2]) /\ loaded[selected][2] \in Names
      BY <1>1, <1>2, <1>5, <2>4 DEF Toggle
    <3> QED BY <2>1, <3>1, PushKeepsChosen
  <2> QED BY <2>2, <2>3, <2>4
<1>6. ASSUME NEW k \in {-1, 0, 1}, RingStep(k) PROVE Chosen'
  <2>1. setup' = setup /\ selected' = selected /\ default' = default
    BY <1>6 DEF RingStep
  <2>2. CASE ring'.index \in 0..(Len(ring.names) - 1)
    <3>1. Push(ring.names[ring'.index + 1]) /\ ring.names[ring'.index + 1] \in Names
      BY <1>6, <2>2 DEF RingStep, RingOK
    <3> QED BY <2>1, <3>1, PushKeepsChosen
  <2>3. CASE ring'.index \notin 0..(Len(ring.names) - 1)
    BY <1>6, <2>1, <2>3, StopKeepsChosen DEF RingStep
  <2> QED BY <2>2, <2>3
<1>7. ASSUME IncreaseMaster PROVE Chosen'
  <2> DEFINE s == [Lt EXCEPT !.n_master = MIN(@ + 1, Lt.master)]
  <2>1. s \in Settings /\ s.max_area = Lt.max_area /\ s.places = Lt.places
    BY <1>3 DEF Settings, MIN
  <2>2. ArrangeTag(selected, loaded, current, Set(s), tiled)
    BY <1>7 DEF IncreaseMaster
  <2> HIDE DEF s
  <2> QED BY <1>a, <1>3, <1>7, <2>1, <2>2 DEF IncreaseMaster
<1>8. ASSUME DecreaseMaster PROVE Chosen'
  <2> DEFINE s == [Lt EXCEPT !.n_master = MAX(@ - 1, 1)]
  <2>1. s \in Settings /\ s.max_area = Lt.max_area /\ s.places = Lt.places
    BY <1>3 DEF Settings, MAX
  <2>2. ArrangeTag(selected, loaded, current, Set(s), tiled)
    BY <1>8 DEF DecreaseMaster
  <2> HIDE DEF s
  <2> QED BY <1>a, <1>3, <1>8, <2>1, <2>2 DEF DecreaseMaster
<1>9. ASSUME NEW n \in AreaLimits, SetArea(n) PROVE Chosen'
  <2> DEFINE s == [Lt EXCEPT !.max_area = n]
  <2>1. s \in Settings /\ s.places = Lt.places
    BY <1>3, AreaLimitsAssumption DEF Settings
  <2>2. ArrangeTag(selected, loaded, current, Set(s), tiled)
    BY <1>9 DEF SetArea
  <2> HIDE DEF s
  <2> QED BY <1>a, <1>3, <1>9, <2>1, <2>2 DEF SetArea
<1>d. ASSUME NEW s \in Settings, s.max_area = Lt.max_area, s.places = Lt.places,
             settings' = Set(s), setup' = setup,
             UNCHANGED <<selected, loaded, current, previous, tiled, spots, default, fault>>
      PROVE  Chosen'
  <2>1. TablesKept(settings')
    BY <1>3, <1>d, <1>s
  <2>2. settings'[selected][Focused].places = Lt.places
    BY <1>1, <1>3, <1>d DEF Set
  <2>3. TablesOK'
    BY <1>3, <1>d, <2>1, <2>2 DEF Chosen, TablesOK, TablesKept, FilesGiveAreas, Focused
  <2>4. ChosenOK'
    BY <1>d DEF Chosen, ChosenOK, ListsFollow, ListOK, Asked, Quiet
  <2>5. RoomOK'
    BY <1>d DEF Chosen, RoomOK
  <2> QED BY <2>3, <2>4, <2>5 DEF Chosen
<1>10. ASSUME NEW n \in 1..setup.room, SetData(n) PROVE Chosen'
  <2> DEFINE s == [Lt EXCEPT !.data = n]
  <2>1. s \in Settings /\ s.max_area = Lt.max_area /\ s.places = Lt.places
    BY <1>1, <1>3 DEF Settings
  <2>2. settings' = Set(s)
    BY <1>10 DEF SetData
  <2> HIDE DEF s
  <2> QED BY <1>d, <1>10, <2>1, <2>2 DEF SetData
<1>11. ASSUME NEW n \in 1..setup.room, SetMasterData(n) PROVE Chosen'
  <2> DEFINE s == [Lt EXCEPT !.master = n]
  <2>1. s \in Settings /\ s.max_area = Lt.max_area /\ s.places = Lt.places
    BY <1>1, <1>3 DEF Settings
  <2>2. settings' = Set(s)
    BY <1>11 DEF SetMasterData
  <2> HIDE DEF s
  <2> QED BY <1>d, <1>11, <2>1, <2>2 DEF SetMasterData
<1>12. ASSUME NEW n \in 0..setup.room, NEW names \in BOOLEAN, ChangeTiled(n, names) PROVE Chosen'
  <2> DEFINE lists == IF names THEN [t \in Tags |-> LoadedBy(t)] ELSE loaded
  <2>1. ArrangeTag(selected, lists, current, settings, n)
    BY <1>12 DEF ChangeTiled
  <2>2. /\ lists \in [Tags -> Seq(Names)]
        /\ \A u \in Tags : /\ ListOK(lists[u]) /\ Asked(lists[u], current[u])
                           /\ lists[u] = <<>> => loaded[u] = <<>>
    BY <1>1, LookedAtLists
  <2> HIDE DEF lists
  <2> QED BY <1>1, <1>12, <2>1, <2>2, ArrangeAnewKeepsChosen DEF ChangeTiled
<1>13. ASSUME ArrangeAgain PROVE Chosen'
  BY <1>1, <1>2, <1>13, ArrangeAnewKeepsChosen DEF ArrangeAgain, Arrange
<1>14. ASSUME NEW t \in Tags, Look(t) PROVE Chosen'
  <2> DEFINE lists == [loaded EXCEPT ![t] = LoadedBy(t)]
  <2>1. /\ lists \in [Tags -> Seq(Names)]
        /\ \A u \in Tags : /\ ListOK(lists[u]) /\ Asked(lists[u], current[u])
                           /\ lists[u] = <<>> => loaded[u] = <<>>
                           /\ loaded[u] # <<>> => lists[u] = loaded[u]
    BY LookedAtLists
  <2>2. \/ ArrangeTag(selected, lists, current, settings, tiled)
        \/ loaded' = lists /\ UNCHANGED <<settings, tiled, spots, fault>>
    BY <1>14 DEF Look
  <2> HIDE DEF lists
  <2>3. UNCHANGED <<setup, selected, current, previous, default>>
    BY <1>14 DEF Look
  <2> QED BY <1>1, <1>2, <2>1, <2>2, <2>3, ArrangeAnewKeepsChosen, LookKeepsChosen
<1>15. ASSUME NEW t \in Tags, LookBack(t) PROVE Chosen'
  <2> DEFINE lists == [loaded EXCEPT ![t] = IF @ = <<>> THEN LoadLayout(<<>>, previous[t], {}) ELSE @]
  <2>1. /\ lists \in [Tags -> Seq(Names)]
        /\ \A u \in Tags : /\ ListOK(lists[u]) /\ Asked(lists[u], current[u])
                           /\ lists[u] = <<>> => loaded[u] = <<>>
                           /\ loaded[u] # <<>> => lists[u] = loaded[u]
    BY LookedAtLists
  <2>2. \/ Stop("no_previous")
        \/ /\ ArrangeTag(selected, lists, current, settings, tiled)
           /\ UNCHANGED <<selected, current, previous, default>>
        \/ /\ loaded' = lists
           /\ UNCHANGED <<selected, current, previous, settings, tiled, spots, default, fault>>
    BY <1>15 DEF LookBack
  <2>3. setup' = setup
    BY <1>15 DEF LookBack
  <2> HIDE DEF lists
  <2> QED BY <1>1, <1>2, <2>1, <2>2, <2>3, StopKeepsChosen, ArrangeAnewKeepsChosen, LookKeepsChosen
<1>16. ASSUME NEW t \in Tags, NEW n \in 0..setup.room, View(t, n) PROVE Chosen'
  <2>1. /\ setup' = setup /\ selected' = t /\ UNCHANGED <<current, previous, default>>
        /\ ArrangeTag(selected', loaded, current', settings, n)
    BY <1>16 DEF View
  <2>2. \A u \in Tags : loaded[u] = <<>> => previous[u] = current[u]
    BY DEF Chosen, ChosenOK, ListsFollow
  <2> QED BY <1>1, <1>2, <2>1, <2>2, ArrangeKeepsChosen
<1>17. ASSUME NEW c \in setup.configs, Reload(c) PROVE Chosen'
  <2> DEFINE lists == [t \in Tags |-> IF t = selected THEN <<>> ELSE FocusLayout(<<>>, default', {})]
  <2>1. /\ default' = Either(c.layout, default) /\ setup' = setup /\ selected' = selected
        /\ previous' = IF c.tags THEN [t \in Tags |-> default] ELSE current
        /\ current' = [t \in Tags |-> default']
        /\ ArrangeTag(selected', lists, current', AllFresh, tiled)
    BY <1>17 DEF Reload
  <2>2. default' \in Names
    BY <1>2, <2>1 DEF RingOK, Config, Either
  <2>3. ListOK(<<>>)
    BY DEF ListOK, IsInjective, ToSet
  <2>4. /\ ListOK(FocusLayout(<<>>, default', {})) /\ Asked(FocusLayout(<<>>, default', {}), default')
        /\ FocusLayout(<<>>, default', {}) # <<>>
    <3>1. FilesOK
      BY DEF SettingsOK, FilesOK, File
    <3> QED BY <2>2, <2>3, <3>1, FocusLayoutFocuses
  <2>5. AllFresh \in [Tags -> [Names -> Settings]] /\ TablesKept(AllFresh)
    BY FreshType, FreshTables
  <2>6. /\ lists \in [Tags -> Seq(Names)]
        /\ \A u \in Tags : /\ ListOK(lists[u])
                           /\ u # selected' => Asked(lists[u], current'[u]) /\ lists[u] # <<>>
    <3>1. \A l : ListOK(l) => l \in Seq(Names)
      BY DEF ListOK
    <3> QED BY <2>1, <2>3, <2>4, <3>1
  <2> HIDE DEF lists
  <2>7. current' \in [Tags -> Names] /\ previous' \in [Tags -> Names]
    BY <1>2, <2>1, <2>2
  <2> QED BY <1>1, <2>1, <2>2, <2>5, <2>6, <2>7, ArrangeKeepsChosen
<1>18. CASE UNCHANGED vars
  <2>1. ChosenOK'
    BY <1>18 DEF vars, Chosen, ChosenOK, ListsFollow, ListOK, Asked, Quiet
  <2>2. TablesOK' /\ RoomOK'
    BY <1>18 DEF vars, Chosen, TablesOK, TablesKept, FilesGiveAreas, Focused, RoomOK
  <2> QED BY <2>1, <2>2 DEF Chosen
<1> QED
  BY <1>4, <1>5, <1>6, <1>7, <1>8, <1>9, <1>10, <1>11, <1>12, <1>13, <1>14, <1>15, <1>16,
     <1>17, <1>18 DEF Next

LEMMA InitChosen == Init => Chosen
<1> SUFFICES ASSUME Init PROVE Chosen
  OBVIOUS
<1>1. SettingsOK /\ RingOK
  BY InitSettings, InitRing
<1>2. FilesOK /\ selected \in Tags /\ setup.room \in Nat
  BY <1>1 DEF SettingsOK, FilesOK, File
<1>3. default \in Names
  <2>1. PICK c \in setup.configs : default = Either(c.layout, BuiltinLayout)
    BY DEF Init
  <2>2. c \in Config
    BY <1>1, <2>1 DEF RingOK
  <2> QED BY <2>1, <2>2, BuiltinAssumption DEF Config, Either
<1> DEFINE r == FocusLayout(<<>>, default, {default})
<1>4. ListOK(<<>>)
  BY DEF ListOK, IsInjective, ToSet
<1>5. ListOK(r) /\ r # <<>> /\ Asked(r, default)
  BY <1>2, <1>3, <1>4, FocusLayoutFocuses
<1>6. loaded = [t \in Tags |-> IF t = selected THEN r ELSE <<>>]
  BY DEF Init
<1>7. current = [t \in Tags |-> default] /\ previous = [t \in Tags |-> default]
      /\ tiled = 0 /\ spots = <<>> /\ fault = "none"
      /\ settings = [t \in Tags |-> [n \in Names |->
           IF t = selected /\ n = Head(loaded[t])
           THEN SetLayoutRef(Fresh(setup.files[n]), 0) ELSE Fresh(setup.files[n])]]
  BY DEF Init
<1> HIDE DEF r
<1>8. r \in Seq(Names) /\ Head(r) \in Names /\ Asked(<<>>, default)
  BY <1>5 DEF ListOK, Asked
<1>9. ChosenOK
  BY <1>2, <1>3, <1>4, <1>5, <1>6, <1>7, <1>8 DEF ChosenOK, ListsFollow
<1>10. ASSUME NEW n \in Names, FilesGiveAreas
       PROVE  LET s == Fresh(setup.files[n])
              IN  /\ s.max_area # 0
                  /\ SetLayoutRef(s, 0).max_area = s.max_area /\ SetLayoutRef(s, 0).places > 0
  <2> DEFINE s == Fresh(setup.files[n])
  <2>1. AllFresh \in [Tags -> [Names -> Settings]]
    BY <1>1, FreshType
  <2>2. AllFresh[selected][n] = s
    BY <1>2 DEF AllFresh
  <2>3. s \in Settings
    BY <1>2, <2>1, <2>2
  <2>4. s.max_area # 0
    <3>1. setup.files[n].n_area \in SUBSET Int /\ 0 \notin setup.files[n].n_area
      BY <1>1, <1>10 DEF SettingsOK, File, FilesGiveAreas
    <3> QED BY <3>1 DEF Fresh, Either
  <2> HIDE DEF s
  <2>5. SetLayoutRef(s, 0).max_area = s.max_area /\ SetLayoutRef(s, 0).places > 0
    BY <2>3, <2>4, SetLayoutRefKeeps
  <2> QED BY <2>4, <2>5 DEF s
<1>11. loaded[selected] = r /\ Focused = Head(r)
  BY <1>2, <1>6 DEF Focused
<1>12. FilesGiveAreas => settings[selected][Focused].places > 0
  BY <1>2, <1>7, <1>8, <1>10, <1>11
<1>13. TablesKept(settings)
  BY <1>7, <1>10 DEF TablesKept
<1>14. TablesOK
  BY <1>7, <1>12, <1>13 DEF TablesOK
<1>15. RoomOK
  BY <1>2, <1>7 DEF RoomOK
<1> QED BY <1>9, <1>14, <1>15 DEF Chosen

\* The layout at the front of the list of every tag is the one that it was asked for,
\* every layout in it has its links there, and no window that is shown is without
\* a place: for any files, whatever they link and however they link each other.
THEOREM LayoutsAlwaysSound == Spec => []LayoutsSound
<1>1. SettingsOK /\ RingOK /\ Chosen /\ [Next]_vars => (SettingsOK /\ RingOK /\ Chosen)'
  BY NextSteps, NextRing, NextChosen
<1>2. SettingsOK /\ RingOK /\ Chosen => LayoutsSound
  <2> SUFFICES ASSUME SettingsOK, RingOK, Chosen PROVE LayoutsSound
    OBVIOUS
  <2>1. \A t \in Tags : /\ ListOK(loaded[t]) /\ Asked(loaded[t], current[t])
                        /\ loaded[t] \in Seq(Names)
    BY DEF Chosen, ChosenOK, ListsFollow
  <2>2. \A l \in Seq(Names) : ToSet(l) \subseteq Names
    BY ToSetIs
  <2>3. TypeOK
    <3>1. \A t \in Tags : ToSet(loaded[t]) \subseteq Names /\ IsInjective(loaded[t])
      BY <2>1, <2>2 DEF ListOK
    <3>2. ring.names \in Seq(Names) /\ ring.index \in Nat
      BY DEF RingOK
    <3> QED BY <2>2, <3>1, <3>2 DEF TypeOK, SettingsOK, Chosen, ChosenOK, ListsFollow, RoomOK
  <2>4. FocusedIsCurrent
    BY <2>1 DEF FocusedIsCurrent, Asked
  <2>5. LinkedAreLoaded
    BY <2>1 DEF LinkedAreLoaded, ListOK
  <2>6. NoPlaceIsMissing
    BY DEF NoPlaceIsMissing, Chosen, TablesOK
  <2> QED BY <2>3, <2>4, <2>5, <2>6 DEF LayoutsSound
<1> QED BY InitSettings, InitRing, InitChosen, <1>1, <1>2, PTL DEF Spec

\* When a tag gets another layout at its front, the one before is the second.
SecondIsBefore(lists) ==
  \A t \in Tags : Quiet /\ loaded[t] # <<>> /\ Head(lists[t]) # Head(loaded[t])
                  => lists[t][2] = Head(loaded[t])

LEMMA ArrangeTagSecond ==
  ASSUME SettingsOK, NEW t \in Tags, NEW names \in [Tags -> Names],
         NEW lists \in [Tags -> Seq(Names)],
         \A u \in Tags : ListOK(lists[u]) /\ (loaded[u] # <<>> => lists[u] = loaded[u]),
         NEW sets, NEW n, ArrangeTag(t, lists, names, sets, n)
  PROVE  SecondIsBefore(loaded')
<1>1. FilesOK
  BY DEF SettingsOK, FilesOK, File
<1> DEFINE r == FocusLayout(lists[t], names[t], {names[t]})
<1>2. Quiet /\ lists[t] # <<>> /\ Head(r) # Head(lists[t]) => r[2] = Head(lists[t])
  BY <1>1, FocusLayoutFocuses
<1>3. loaded' = [lists EXCEPT ![t] = r]
  BY DEF ArrangeTag
<1> HIDE DEF r
<1>4. loaded'[t] = r /\ \A u \in Tags \ {t} : loaded'[u] = lists[u]
  BY <1>3
<1> QED BY <1>2, <1>4 DEF SecondIsBefore

\* The layout that a tag had before the last change is the second of its list: there
\* tag_get_previous_layout takes it from, and links that were loaded in
\* between do not come before it.
THEOREM PreviousAlwaysSecond == Spec => PreviousIsSecond
<1>1. SettingsOK /\ RingOK /\ Chosen /\ [Next]_vars => (SettingsOK /\ RingOK /\ Chosen)'
  BY NextSteps, NextRing, NextChosen
<1>2. ASSUME SettingsOK, RingOK, Chosen, [Next]_vars, ~(\E c \in setup.configs : Reload(c))
      PROVE  SecondIsBefore(loaded')
  <2>1. /\ loaded \in [Tags -> Seq(Names)] /\ \A u \in Tags : ListOK(loaded[u])
        /\ current \in [Tags -> Names] /\ selected \in Tags
    BY <1>2 DEF Chosen, ChosenOK, ListsFollow, SettingsOK
  <2>2. ASSUME NEW t \in Tags, NEW names \in [Tags -> Names], NEW sets, NEW n,
               ArrangeTag(t, loaded, names, sets, n)
        PROVE  SecondIsBefore(loaded')
    BY <1>2, <2>1, <2>2, ArrangeTagSecond
  <2>3. ASSUME loaded' = loaded PROVE SecondIsBefore(loaded')
    BY <2>3 DEF SecondIsBefore
  <2>4. ASSUME NEW x \in Names, Push(x) PROVE SecondIsBefore(loaded')
    <3>1. ArrangeTag(selected, loaded, current', settings, tiled) /\ current' \in [Tags -> Names]
      BY <2>1, <2>4 DEF Push
    <3> QED BY <2>1, <2>2, <3>1
  <2>5. ASSUME NEW x \in Names, Load(x) \/ Toggle(x) PROVE SecondIsBefore(loaded')
    <3>1. CASE Len(loaded[selected]) < 2
      BY <2>3, <2>4, <2>5, <3>1 DEF Load, Toggle, Stop
    <3>2. CASE ~(Len(loaded[selected]) < 2)
      <4>1. loaded[selected][2] \in Names
        BY <2>1, <3>2
      <4> QED BY <2>4, <2>5, <3>2, <4>1 DEF Load, Toggle
    <3> QED BY <3>1, <3>2
  <2>6. ASSUME NEW k \in {-1, 0, 1}, RingStep(k) PROVE SecondIsBefore(loaded')
    <3>1. CASE ring'.index \in 0..(Len(ring.names) - 1)
      <4>1. ring.names[ring'.index + 1] \in Names
        BY <1>2, <3>1 DEF RingOK
      <4> QED BY <2>4, <2>6, <3>1, <4>1 DEF RingStep
    <3>2. CASE ring'.index \notin 0..(Len(ring.names) - 1)
      BY <2>3, <2>6, <3>2 DEF RingStep, Stop
    <3> QED BY <3>1, <3>2
  <2>7. ASSUME IncreaseMaster \/ DecreaseMaster \/ ArrangeAgain PROVE SecondIsBefore(loaded')
    BY <2>1, <2>2, <2>7 DEF IncreaseMaster, DecreaseMaster, ArrangeAgain, Arrange
  <2>8. ASSUME NEW n, SetArea(n) \/ SetData(n) \/ SetMasterData(n) PROVE SecondIsBefore(loaded')
    BY <2>1, <2>2, <2>3, <2>8 DEF SetArea, SetData, SetMasterData
  <2>9. ASSUME NEW lists, NEW t \in Tags,
               \/ lists = [u \in Tags |-> LoadedBy(u)]
               \/ lists = [loaded EXCEPT ![t] = LoadedBy(t)]
               \/ lists = [loaded EXCEPT ![t] = IF @ = <<>> THEN LoadLayout(<<>>, previous[t], {}) ELSE @],
               NEW n, loaded' = lists \/ ArrangeTag(selected, lists, current, settings, n)
        PROVE  SecondIsBefore(loaded')
    <3>1. /\ lists \in [Tags -> Seq(Names)]
          /\ \A u \in Tags : ListOK(lists[u]) /\ (loaded[u] # <<>> => lists[u] = loaded[u])
      BY <1>2, <2>9, LookedAtLists
    <3>2. CASE loaded' = lists
      BY <3>1, <3>2 DEF SecondIsBefore
    <3>3. CASE ArrangeTag(selected, lists, current, settings, n)
      BY <1>2, <2>1, <3>1, <3>3, ArrangeTagSecond
    <3> QED BY <2>9, <3>2, <3>3
  <2>10. ASSUME NEW n, NEW names \in BOOLEAN, ChangeTiled(n, names) PROVE SecondIsBefore(loaded')
    <3>1. CASE names
      <4>1. ArrangeTag(selected, [u \in Tags |-> LoadedBy(u)], current, settings, n)
        BY <2>10, <3>1 DEF ChangeTiled
      <4> QED BY <2>1, <2>9, <4>1
    <3>2. CASE ~names
      <4>1. ArrangeTag(selected, loaded, current, settings, n)
        BY <2>10, <3>2 DEF ChangeTiled
      <4> QED BY <2>1, <2>2, <4>1
    <3> QED BY <3>1, <3>2
  <2>11. ASSUME NEW t \in Tags, Look(t) PROVE SecondIsBefore(loaded')
    <3> DEFINE lists == [loaded EXCEPT ![t] = LoadedBy(t)]
    <3>1. loaded' = lists \/ ArrangeTag(selected, lists, current, settings, tiled)
      BY <2>11 DEF Look
    <3> QED BY <2>9, <3>1
  <2>12. ASSUME NEW t \in Tags, LookBack(t) PROVE SecondIsBefore(loaded')
    <3> DEFINE lists == [loaded EXCEPT ![t] = IF @ = <<>> THEN LoadLayout(<<>>, previous[t], {}) ELSE @]
    <3>1. loaded' = loaded \/ loaded' = lists \/ ArrangeTag(selected, lists, current, settings, tiled)
      BY <2>12 DEF LookBack, Stop
    <3> HIDE DEF lists
    <3> QED BY <2>3, <2>9, <3>1 DEF lists
  <2>13. ASSUME NEW t \in Tags, NEW n, View(t, n) PROVE SecondIsBefore(loaded')
    BY <2>1, <2>2, <2>13 DEF View
  <2>14. CASE UNCHANGED vars
    BY <2>3, <2>14 DEF vars
  <2> QED BY <1>2, <2>5, <2>6, <2>7, <2>8, <2>10, <2>11, <2>12, <2>13, <2>14 DEF Next
<1>3. SettingsOK /\ RingOK /\ Chosen /\ [Next]_vars =>
        [\A t \in Tags :
           Quiet /\ loaded[t] # <<>> /\ Head(loaded'[t]) # Head(loaded[t])
             /\ ~(\E c \in setup.configs : Reload(c))
           => loaded'[t][2] = Head(loaded[t])]_vars
  BY <1>2 DEF SecondIsBefore
<1> QED BY InitSettings, InitRing, InitChosen, <1>1, <1>3, PTL DEF Spec, PreviousIsSecond

====
