--------------------------- MODULE SurfacesMC ---------------------------
(***************************************************************************)
(* The surfaces of the clients and the devices of the seat that meet them: *)
(* popups and the grabs of the focus, regions, and the parts of InputMC.   *)
(* The parts are checked one at a time.  (Buffers are in FramesMC.)        *)
(***************************************************************************)
EXTENDS InputMC, FiniteSets, TLC

CONSTANTS
  w1, s1, s2,                      \* a window and two popups
  OfSecond                         \* what the second of two clients owns

Box(x, y, w, h) == [x |-> x, y |-> y, w |-> w, h |-> h]

MCTouchOwner(z) == IF z \in OfSecond THEN 2 ELSE 1

Pop == INSTANCE Popups WITH
  obj <- v1, seat <- v2, torn <- v3,
  Windows <- {w1}, PopupIds <- {s1, s2}, Layers <- {}
Lop == INSTANCE Popups WITH
  obj <- v1, seat <- v2, torn <- v3,
  Windows <- {w1}, PopupIds <- {s1}, Layers <- {ls}
Reg == INSTANCE Regions WITH
  rects <- v1, points <- v2, input <- v3, surf <- v4, area <- v5, pending <- v6,
  at <- v7,
  Rects <- {Box(0, 0, 3, 3), Box(1, 1, 1, 2)},
  Inputs <- {<<Box(0, 0, 2, 1), Box(0, 1, 1, 2)>>}, Sizes <- {<<3, 3>>},
  Places <- {<<0, 0>>, <<3, 2>>}, MaxRects <- 3

Above3 == <<v4, v5, v6, v7, v8, v9, v10>>

MCInit ==
  \/ InputInit
  \/ part = "popups" /\ Pop!Init /\ v4 = 0 /\ v5 = 0 /\ v6 = 0 /\ v7 = 0 /\ v8 = 0 /\ v9 = 0 /\ v10 = 0
  \/ part = "layer popups" /\ Lop!Init /\ v4 = 0 /\ v5 = 0 /\ v6 = 0 /\ v7 = 0 /\ v8 = 0 /\ v9 = 0 /\ v10 = 0
  \/ part = "regions" /\ Reg!Init /\ v8 = 0 /\ v9 = 0 /\ v10 = 0

MCNext ==
  \/ InputNext
  \/ part = "popups" /\ Pop!Next /\ UNCHANGED <<part, Above3>>
  \/ part = "layer popups" /\ Lop!Next /\ UNCHANGED <<part, Above3>>
  \/ part = "regions" /\ Reg!Next /\ UNCHANGED <<part, Above7>>

MCSpec == MCInit /\ [][MCNext]_allVars

\* The state of every part has its type.
TypesOK ==
  /\ InputTypes
  /\ part = "popups" => Pop!TypeOK
  /\ part = "layer popups" => Lop!TypeOK
  /\ part = "regions" => Reg!TypeOK

\* Surfaces and what hangs on them.  A popup closes with what it stands on, none hangs
\* below a surface that is gone, in whatever order a client destroys them, and the
\* focus and the popup grab are not on one (xdg.cpp, grabs.cpp); a region is the
\* points it was given, and a confined pointer stays in it.
SurfacesSound ==
  /\ part = "popups" =>
       Pop!ParentsAlive /\ Pop!PopupsFollow /\ Pop!FocusAlive /\ Pop!GrabAlive
  /\ part = "layer popups" =>
       Lop!ParentsAlive /\ Lop!PopupsFollow /\ Lop!FocusAlive /\ Lop!GrabAlive
  /\ part = "regions" => Reg!RegionExact /\ Reg!PointerConfined /\ Reg!MotionsFollowed
=============================================================================
