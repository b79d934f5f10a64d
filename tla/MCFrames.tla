------------------------------ MODULE MCFrames ------------------------------
(* Two windows on a screen of 120 x 60 that lies on both sides of the origin. *)
EXTENDS Frames

MCBox(x, y, w, h) == [x |-> x, y |-> y, width |-> w, height |-> h]
\* Of two windows, with the bar on the left, the second starts on the last pixel of
\* the first.
MCPlaces == << <<MCBox(0, 0, 10000, 10000)>>,
               <<MCBox(2500, 0, 2800, 10000), MCBox(5300, 0, 4700, 10000)>> >>
MCScreen == MCBox(-20, 0, 120, 60)
\* With a bar at the top, and with one on the left
MCAreas == {MCBox(-20, 20, 120, 40), MCBox(0, 0, 100, 60)}
MCSpots == {[x |-> 10, y |-> 25], [x |-> 60, y |-> 50]}
\* Far to the left, and too small
MCBoxes == {MCBox(-90, 10, 60, 40), MCBox(110, 50, 10, 10)}
MCRatios == {<<1, 2>>, <<4, 1>>}
MCEdges == {"top", "bottom", "left", "right"}
MCSetups == {
  \* One window, bars, drags and scripts
  [windows |-> {"a"}, events |-> {"geometry", "bars", "resize"},
   smart |-> TRUE, hidden |-> {"left", "right"}, tile |-> 2, float |-> 1, inner |-> 0],
  [windows |-> {"a"}, events |-> {"geometry", "bars", "move"},
   smart |-> FALSE, hidden |-> MCEdges, tile |-> 1, float |-> 1, inner |-> 400],
  \* Two windows, scripts, and bars
  [windows |-> {"a", "b"}, events |-> {"ratio"},
   smart |-> FALSE, hidden |-> MCEdges, tile |-> 1, float |-> 3, inner |-> 800],
  [windows |-> {"a", "b"}, events |-> {"bars"},
   smart |-> TRUE, hidden |-> MCEdges, tile |-> 1, float |-> 3, inner |-> 0],
  \* Two windows that are dragged
  [windows |-> {"a", "b"}, events |-> {"move"},
   smart |-> FALSE, hidden |-> {}, tile |-> 1, float |-> 2, inner |-> 0]}

\* The layout of this instance is one whose windows TiledApart speaks of.
ASSUME InstanceAssumption == PlacesFit /\ AreasFit
=============================================================================
