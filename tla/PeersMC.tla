--------------------------- MODULE PeersMC ---------------------------
(***************************************************************************)
(* Where things are on the screen, and what the compositor arranges with   *)
(* other programs: the globals that clients see, the data they exchange,   *)
(* the X clients, the programs that manage windows, and the portal with    *)
(* the programs it captures for.  The parts are checked one at a time: a   *)
(* behaviour is one of `part`, whose variables are the first of v1 .. v10, *)
(* in the order in which its module declares them.                         *)
(***************************************************************************)
EXTENDS PartnersMC, TLC

CONSTANTS
  Other,
  w1, w2, w3, s1, s2,  \* windows, surfaces
  c1, c2, m,           \* clients, or sessions; a clipboard manager
  x1, x2,              \* sources of a selection; a portal session
  h1, o1               \* a portal request; a monitor

\* Layer surfaces: panels that ask for a zone, one that covers the screen, and two
\* that want the keyboard for themselves.
LayerShape(n, anchor, width, height, zone, margin, keyboard) ==
  [layer |-> n, anchor |-> anchor, width |-> width, height |-> height, zone |-> zone,
   margin |-> margin, keyboard |-> keyboard]
LayerShapes ==
  (s1 :> {LayerShape(2, {"top", "left", "right"}, 0, 2, 2, 1, "none"),
          LayerShape(2, {}, 3, 3, 0, 0, "exclusive")}) @@
  (s2 :> {LayerShape(3, {"left", "top"}, 2, 3, 2, 0, "exclusive"),
          LayerShape(2, {"left", "right", "top", "bottom"}, 0, 0, -1, 0, "on_demand")})

TiledArea(x, y, w, h) == [x |-> x, y |-> y, w |-> w, h |-> h]
TiledLayout(kind, masters, ratio, outer, inner, smart) ==
  [kind |-> kind, masters |-> masters, ratio |-> ratio, outer |-> outer, inner |-> inner,
   smart |-> smart]
TiledLayouts ==
  {TiledLayout("master", 1, 60, 1, 2, FALSE), TiledLayout("master", 2, 90, 0, 1, TRUE),
   TiledLayout("fibonacci", 1, 60, 1, 1, TRUE)}

Work(pos, len) == [pos |-> pos, len |-> len]
Hint(min, max) == [min |-> min, max |-> max]

Lay == INSTANCE Layers WITH
  layer <- v1, output <- v2, mapped <- v3, seat <- v4,
  Surfaces <- {s1, s2}, Window <- w1, Shapes <- LayerShapes, Edges <- (s1 :> {}) @@
  (s2 :> {"left"}), Priorities <- {0}, Screen <- <<9, 8>>
Sel == INSTANCE Selections WITH
  src <- v1, sel <- v2, focus <- v3, devices <- v4, offers <- v5, drag <- v6,
  lost <- v7,
  Clients <- {c1, c2, m}, Managers <- {m}, Sources <- {x1, x2}
Xwl == INSTANCE Xwayland WITH
  srv <- v1, win <- v2, role <- v3, focus <- v4, xw <- v5,
  Windows <- {w1}, Surfaces <- {s1, s2}, MaxSerial <- 2, MaxQueue <- 3
Xse == INSTANCE XSelection WITH
  sel <- v1, src <- v2, offers <- v3, run <- v4, owner <- v5, asked <- v6,
  queue <- v7, reqs <- v8, recv <- v9, open <- v10,
  SourceIds <- {x1, x2}, Requests <- {w1}, Fds <- {4}, MaxQueue <- 3, MaxAsked <- 2
Til == INSTANCE Tiling WITH
  shown <- v1, focused <- v2, leaves <- v3, weights <- v4, layout <- v5, area <- v6,
  Order <- <<w1, w2, w3>>, Layouts <- TiledLayouts,
  Areas <- {TiledArea(0, 0, 17, 11), TiledArea(3, 2, 4, 5)}
Flo == INSTANCE Floating WITH
  kind <- v1, win <- v2, work <- v3, pointer <- v4, drag <- v5, thin <- v6,
  Works <- {Work(0, 10), Work(3, 6)}, Hints <- {Hint(0, 0), Hint(3, 5), Hint(7, 0)},
  Natural <- 4, Ruled <- {0, 12}, Pointers <- {0, 3, 8}, Border <- 1

\* The portal again, where there are windows to share.
Pow == INSTANCE Portal WITH
  calls <- v1, owed <- v2, wrong <- v3, sessions <- v4, frames <- v5, timers <- v6,
  source <- v7, up <- v8,
  Handles <- {h1}, Paths <- {x1}, Screens <- {o1}, Windows <- {w1}

Glo == INSTANCE Clients WITH
  st <- v1, regs <- v2, globals <- v3, portal <- v4, idles <- v5, up <- v6, down <- v7,
  view <- v8, denied <- v9,
  Members <- {c1, c2}, Registries <- {1}, MaxName <- 2, Restricted <- {2}, MaxRequests <- 1,
  MaxEvents <- 2
Glr == INSTANCE Clients WITH
  st <- v1, regs <- v2, globals <- v3, portal <- v4, idles <- v5, up <- v6, down <- v7,
  view <- v8, denied <- v9,
  Members <- {c1}, Registries <- {1, 2}, MaxName <- 2, Restricted <- {2}, MaxRequests <- 2,
  MaxEvents <- 2

Above6 == <<v7, v8, v9, v10>>
Above7 == <<v8, v9, v10>>

MCInit ==
  \/ PartnersInit
  \/ part = "layers" /\ Lay!Init /\ v5 = 0 /\ v6 = 0 /\ v7 = 0 /\ v8 = 0 /\ v9 = 0 /\ v10 = 0
  \/ part = "selections" /\ Sel!Init /\ v8 = 0 /\ v9 = 0 /\ v10 = 0
  \/ part = "xwayland" /\ Xwl!Init /\ v6 = 0 /\ v7 = 0 /\ v8 = 0 /\ v9 = 0 /\ v10 = 0
  \/ part = "x selection" /\ Xse!Init
  \/ part = "tiling" /\ Til!Init /\ v7 = 0 /\ v8 = 0 /\ v9 = 0 /\ v10 = 0
  \/ part = "floating" /\ Flo!Init /\ v7 = 0 /\ v8 = 0 /\ v9 = 0 /\ v10 = 0
  \/ part = "portal of windows" /\ Pow!Init /\ v9 = 0 /\ v10 = 0
  \/ part = "globals" /\ Glo!Init /\ v10 = 0
  \/ part = "registries" /\ Glr!Init /\ v10 = 0

MCNext ==
  \/ PartnersNext
  \/ part = "layers" /\ Lay!Next /\ UNCHANGED <<part, Above4>>
  \/ part = "selections" /\ Sel!Next /\ UNCHANGED <<part, Above7>>
  \/ part = "xwayland" /\ Xwl!Next /\ UNCHANGED <<part, Above5>>
  \/ part = "x selection" /\ Xse!Next /\ UNCHANGED part
  \/ part = "tiling" /\ Til!Next /\ UNCHANGED <<part, Above6>>
  \/ part = "floating" /\ Flo!Next /\ UNCHANGED <<part, Above6>>
  \/ part = "portal of windows" /\ Pow!Next /\ UNCHANGED <<part, Above8>>
  \/ part = "globals" /\ Glo!Next /\ UNCHANGED <<part, v10>>
  \/ part = "registries" /\ Glr!Next /\ UNCHANGED <<part, v10>>

MCSpec == MCInit /\ [][MCNext]_allVars

\* The state of every part has its type.
TypesOK ==
  /\ PartnersTypes
  /\ part = "layers" => Lay!TypeOK
  /\ part = "selections" => Sel!TypeOK
  /\ part = "xwayland" => Xwl!TypeOK
  /\ part = "x selection" => Xse!TypeOK
  /\ part = "tiling" => Til!TypeOK
  /\ part = "floating" => Flo!TypeOK
  /\ part = "portal of windows" => Pow!TypeOK
  /\ part = "globals" => Glo!TypeOK
  /\ part = "registries" => Glr!TypeOK

\* What goes between clients, and between Wayland and X.  A selection, an offer and a
\* transfer end with their source and nothing is left unanswered; the compositor and
\* Xwayland agree about windows, surfaces and focus however the events of the two
\* sockets meet; two sessions never serve the same display; the portal shares a window
\* as it shares a monitor; a registry comes to show what there is; a program that
\* manages windows never rests on an old state.  The parts' modules name the exceptions:
\* a receiver that loses the focus during a drag, and a source selected again.
ExchangesSound ==
  /\ part = "selections" =>
       /\ Sel!SelectionServes /\ Sel!OffersServed /\ Sel!ClipboardFollowsFocus
       /\ Sel!DragsEnd
  /\ part = "xwayland" =>
       /\ Xwl!LinksMutual /\ Xwl!SerialsMeet /\ Xwl!XFocusFollows /\ Xwl!NothingSurvives
       /\ Xwl!AgreesWithX
  /\ part = "x selection" =>
       /\ Xse!NoDanglingSource /\ Xse!RequestsAnswered /\ Xse!DescriptorsEnd
  /\ part = "x display" => Xdi!OneHolder
  /\ part = "portal of windows" => Pow!AnsweredOnce /\ Pow!FramesOwned /\ Pow!Consented
  /\ part = "globals" =>
       /\ Glo!RegistriesCurrent /\ Glo!OnlyForgottenDenied /\ Glo!RemovedOnce
  /\ part = "registries" =>
       /\ Glr!RegistriesCurrent /\ Glr!OnlyForgottenDenied /\ Glr!RemovedOnce
  /\ part = "managers" => Wms!NoChangeLost /\ Wms!PolicyHasOwner /\ Wms!SerialsGrow

\* Where things are.  Layer surfaces are configured before they are shown, are where
\* the others leave room now and keep the space they reserve; tiles do not overlap and
\* fill their area; a floating window is in the work area and does not creep.  And by
\* which steps: the tiles that a change does not concern stay (CONFIG.md 401-407), a
\* drag keeps the edge it does not move, and an exclusive layer surface loses the
\* keyboard only by a change of its own or to another one.
PlacesSound ==
  /\ [](/\ part = "layers" =>
             /\ Lay!LayersCurrent /\ Lay!ReservationsKept
             /\ Lay!ConfigureExchanged /\ Lay!LayerFocusShown
        /\ part = "tiling" => Til!LeavesWhole /\ Til!TilesApart
        /\ part = "floating" => Flo!WindowPlaced /\ Flo!NothingCreeps)
  /\ [][/\ part = "layers" => Lay!ExclusiveKept
        /\ part = "tiling" => Til!OthersStayed
        /\ part = "floating" => Flo!EdgeStayed]_allVars
=============================================================================
