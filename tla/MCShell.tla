------------------------------- MODULE MCShell -------------------------------
(* Small instances of Shell for TLC: two monitors of 4 by 3, two windows on  *)
(* the first tag and one on the second.                                      *)
EXTENDS Shell

CONSTANTS m1, m2, w1, w2, w3, s1, s2, k1, k2, kb1, kb2

MCMons == <<m1, m2>>
MCMonitorBox == (m1 :> Box(0, 0, 4, 3)) @@ (m2 :> Box(4, 0, 4, 3))
MCWindowTag == (w1 :> 0) @@ (w2 :> 0) @@ (w3 :> 1)
MCWindowBox == (w1 :> Box(0, 1, 2, 2)) @@ (w2 :> Box(2, 1, 2, 2)) @@ (w3 :> Box(0, 1, 4, 2))
MCConstraint ==
  (k1 :> [surface |-> w1, type |-> "locked",   oneshot |-> FALSE, region |-> {}]) @@
  (k2 :> [surface |-> w2, type |-> "confined", oneshot |-> TRUE,
          region |-> {[x |-> 0, y |-> 0], [x |-> 0, y |-> 1]}])
MCDeviceType == (kb1 :> "keyboard") @@ (kb2 :> "keyboard")
MCSpots == {[x |-> x, y |-> y] : x \in {0, 2}, y \in {1, 2}} \cup {[x |-> 1, y |-> 0], [x |-> 5, y |-> 2]}

LOCAL Bar(edge, zone, margin) ==
  [layer |-> "top", anchor |-> Edges \ {Opposite[edge]}, zone |-> zone,
   width  |-> IF edge \in {"left", "right"} THEN zone ELSE 0,
   height |-> IF edge \in {"top", "bottom"} THEN zone ELSE 0,
   margin |-> margin, interactive |-> FALSE]
LOCAL Launcher(l, size) ==
  [layer |-> l, anchor |-> {}, zone |-> 0, width |-> size, height |-> size,
   margin |-> 0, interactive |-> TRUE]
LOCAL Wallpaper ==
  [layer |-> "background", anchor |-> Edges, zone |-> -1, width |-> 0, height |-> 0,
   margin |-> 0, interactive |-> FALSE]

LOCAL Misfit == [Launcher("top", 0) EXCEPT !.anchor = Edges, !.margin = 2]
LOCAL BottomBar == [Bar("bottom", 1, 0) EXCEPT !.layer = "bottom"]
LOCAL Dialog    == [Launcher("top", 2) EXCEPT !.interactive = FALSE]

MCSetups ==
  {[keys |-> {"layers", "bars", "tags"}, sloppy |-> FALSE, outputs |-> {m1}, tags |-> {0, 2},
    states |-> (s1 :> {BottomBar}) @@ (s2 :> {Bar("left", 1, 0)})],
   [keys |-> {"layers"}, sloppy |-> FALSE, outputs |-> {m1}, tags |-> {},
    states |-> (s1 :> {Bar("top", 1, 0), Bar("left", 1, 1), Bar("right", 1, 0), Wallpaper})
               @@ (s2 :> {Bar("top", 1, 0), BottomBar, Misfit})],
   [keys |-> {"layers", "tags", "windows", "devices"}, sloppy |-> FALSE, outputs |-> Monitors,
    tags |-> {0, 1},
    states |-> (s1 :> {Launcher("overlay", 2), Launcher("top", 2), Dialog}) @@ (s2 :> {})],
   [keys |-> {"layers", "tags", "windows", "pointer"}, sloppy |-> TRUE, outputs |-> {m1},
    tags |-> {0, 2},
    states |-> (s1 :> {Bar("top", 1, 0)}) @@ (s2 :> {})],
   [keys |-> {"pointer", "constraints", "tags", "windows"}, sloppy |-> TRUE, outputs |-> {},
    tags |-> {0, 1},
    states |-> (s1 :> {}) @@ (s2 :> {})]}
=============================================================================
