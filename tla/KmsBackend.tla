---------------------------- MODULE KmsBackend ----------------------------
(***************************************************************************)
(* The direct backend and one DRM card: the outputs it builds from the     *)
(* connected monitors, the frame each of them has in flight, the page-flip *)
(* events that come back from the kernel, monitors and the card coming and *)
(* going, and the seat that is taken away and given back on a VT switch.   *)
(*                                                                         *)
(* A handler may redraw several outputs and rebuild the list of outputs,   *)
(* and each of these may fail half-way: the operators below take a state   *)
(* of the card and give the set of states it may leave behind.             *)
(***************************************************************************)
EXTENDS CrtcAssignment

CONSTANTS
  Connectors,   \* 1 .. k, in the order of their keys
  Possible,     \* CRTCs each connector can use
  Crtcs,        \* 0 .. n-1
  Modes,        \* display modes a monitor may ask for
  Objects,      \* DrmOutput objects alive at once: a bound
  MaxUdev       \* bound: udev events waiting

ASSUME KmsAssumption ==
  /\ IsFiniteSet(Connectors) /\ Connectors = 1 .. Cardinality(Connectors)
  /\ IsFiniteSet(Crtcs) /\ Crtcs = 0 .. Cardinality(Crtcs) - 1
  /\ Possible \in [Connectors -> SUBSET Crtcs]
  /\ Objects \subseteq Nat
  /\ 0 \notin Modes /\ MaxUdev \in Nat

VARIABLES
  monitor,   \* hardware: the mode of the monitor on each connector, or 0
  card,      \* hardware: the card is there
  udev,      \* udev events not read yet
  dev        \* active_, the DrmDevice, its outputs and the kernel's side

vars == <<monitor, card, udev, dev>>

\* modeset, due, hold: needs_modeset, needs_repaint, *_preparing.  stale is
\* not in the code: something the output shows has changed since its last
\* frame was drawn or given up.
Free == [st |-> "free", conn |-> 0, crtc |-> 0, mode |-> 0, modeset |-> FALSE,
         flip |-> FALSE, due |-> FALSE, hold |-> FALSE, stale |-> FALSE]

\* flying: the outputs the kernel holds a page-flip event for.
Closed == [active |-> FALSE, open |-> FALSE, obj |-> [i \in Objects |-> Free], flying |-> {}]

Init == /\ monitor \in [Connectors -> Modes \cup {0}]
        /\ card = TRUE /\ udev = <<>> /\ dev = Closed

Live(d) == {i \in Objects : d.obj[i].st = "live"}
Retired(d) == {i \in Objects : d.obj[i].st = "retired"}

---------------------------------------------------------------------------
\* The outputs in the domain of `change` become what it says, the others stay.
Changed(d, change) ==
  [d EXCEPT !.obj = [i \in Objects |-> IF i \in DOMAIN change THEN change[i] ELSE d.obj[i]]]

\* commit_atomic_output() without a modeset, after the frame was drawn; the
\* kernel may refuse it.
PageFlip(o, moving) ==
  LET drawn == [o EXCEPT !.stale = FALSE, !.due = moving]
  IN  {drawn, [drawn EXCEPT !.flip = TRUE]}

Modeset(o) == [o EXCEPT !.modeset = FALSE, !.due = FALSE, !.stale = FALSE]

\* The frame is given up: no renderer or context, a failed draw or swap, no framebuffer,
\* or a refused modeset.
GivenUp(o) == [o EXCEPT !.stale = FALSE]

\* mutant: what is asked for while a frame is in flight is dropped
RepaintNow(o, active) ==
  IF ~active \/ o.st # "live" \/ o.hold \/ o.flip THEN {o}
  ELSE {GivenUp(o)} \cup
       (IF o.modeset THEN {Modeset(o)} \cup PageFlip(Modeset(o), FALSE) ELSE PageFlip(o, FALSE))

(***************************************************************************)
(* repaint(), what it may leave of an output: deferred while the           *)
(* compositor prepares a batch or a frame is in flight.  An animation that *)
(* is still moving makes a frame ask for the next one.                     *)
(***************************************************************************)
Repaint(o, active) ==
  IF ~active \/ o.st # "live" THEN {o}
  ELSE IF o.hold \/ o.flip THEN {[o EXCEPT !.due = TRUE]}
  ELSE LET ready == IF o.modeset THEN Modeset(o) ELSE o
       IN  {GivenUp(o)} \cup (IF o.modeset THEN {ready} ELSE {})
             \cup PageFlip(ready, TRUE) \cup PageFlip(ready, FALSE)

\* repaint() of the outputs of S: none of them touches another.  The kernel
\* holds an event for each frame it has accepted.
RepaintAll(d, S) ==
  LET drawings == {p \in [S -> UNION {Repaint(d.obj[i], d.active) : i \in S}] :
                     \A i \in S : p[i] \in Repaint(d.obj[i], d.active)}
  IN  {[Changed(d, p) EXCEPT
          !.flying = @ \cup {i \in S : p[i].flip /\ ~d.obj[i].flip}] : p \in drawings}

\* Something the outputs of S show has changed.
Soil(d, S) == Changed(d, [i \in S \cap Live(d) |-> [d.obj[i] EXCEPT !.stale = TRUE]])

---------------------------------------------------------------------------
\* close_drm_output(): the CRTC is turned off, every buffer given back.
Close(d, i) == Changed(d, [j \in {i} |-> Free])

\* The connectors rescan_drm_device() may use.
Usable == {k \in Connectors : monitor[k] # 0 /\ Possible[k] # {}}

Matches(o) == o.conn \in Usable /\ o.mode = monitor[o.conn]

\* mutant: retired outputs are forgotten
BusyLive(d) == {d.obj[i].crtc : i \in {j \in Live(d) : d.obj[j].flip /\ ~Matches(d.obj[j])}}

\* CRTCs no other connector may take: a flip is outstanding on them and
\* their output is about to go.
BusyCrtcs(d) ==
  {d.obj[i].crtc : i \in {j \in Retired(d) : d.obj[j].flip}
                   \cup {j \in Live(d) : d.obj[j].flip /\ ~Matches(d.obj[j])}}

\* The CRTCs that stay with the connectors they drive.
Kept(d, busy) ==
  [k \in Usable |->
     LET same == {i \in Live(d) : /\ d.obj[i].conn = k /\ Matches(d.obj[i])
                                  /\ d.obj[i].crtc \in Possible[k] \ busy}
     IN  IF same = {} THEN Unassigned ELSE d.obj[CHOOSE i \in same : TRUE].crtc]

\* New outputs for connectors of `new`, each in a free object or, when making it
\* fails, in none: at[i] is the connector whose output object i becomes, or 0.
\* Objects are given out in the order of the connectors.
Placements(free, new) ==
  {at \in [free -> new \cup {0}] :
     \A i, j \in free : i < j /\ at[j] # 0 => at[i] \in 1 .. at[j] - 1}

NewOutput(k, crtc) ==
  [Free EXCEPT !.st = "live", !.conn = k, !.crtc = crtc, !.mode = monitor[k],
               !.modeset = TRUE, !.stale = TRUE]

\* Outputs that still match the assignment m are kept, the others closed, or
\* retired while a flip is outstanding.
Staying(d, m) == {i \in Live(d) : Matches(d.obj[i]) /\ d.obj[i].crtc = m[d.obj[i].conn]}
Left(d, m) ==
  Changed(d, [i \in Live(d) \ Staying(d, m) |->
                IF d.obj[i].flip THEN [d.obj[i] EXCEPT !.st = "retired"] ELSE Free])
Rebuilt(d, m) ==
  LET left == Left(d, m)
      new == {k \in Usable : m[k] # Unassigned /\ ~\E i \in Staying(d, m) : d.obj[i].conn = k}
      free == {i \in Objects : left.obj[i].st = "free"}
  IN  {Changed(left, [i \in {j \in free : at[j] # 0} |-> NewOutput(at[i], m[at[i]])]) :
         at \in Placements(free, new)}

\* rescan_drm_device().  CrtcAssignment shows that the search it makes gives
\* one of these assignments.
Rescan(d) ==
  IF card THEN UNION {Rebuilt(d, m) : m \in
                        Maximum(Crtcs, [k \in Usable |-> Possible[k]],
                                Kept(d, BusyCrtcs(d)), BusyCrtcs(d))}
  ELSE {d}

\* rescan, publish_outputs(), then a redraw of every output.
RescanAndRepaint(d) == UNION {RepaintAll(w, Live(w)) : w \in Rescan(d)}

\* add_drm_device(): any step of it may fail and close the card again.
AddDevice(d) ==
  IF d.open THEN {d}
  ELSE {d} \cup (IF card THEN RescanAndRepaint([d EXCEPT !.open = TRUE])
                 ELSE {})

---------------------------------------------------------------------------
\* The compositor has something to show on the outputs of S: a surface, an
\* overview, a cursor, a configuration, an error message.
Present(S) ==
  /\ S \subseteq Live(dev) /\ S # {}
  /\ dev' \in RepaintAll(Soil(dev, S), S)
  /\ UNCHANGED <<monitor, card, udev>>

\* A camera frame or a tag transition is being prepared, and is ready.
Prepare(S) ==
  /\ S \subseteq Live(dev) /\ S # {} /\ \A i \in S : ~dev.obj[i].hold
  /\ dev' = Changed(dev, [i \in S |-> [dev.obj[i] EXCEPT !.hold = TRUE]])
  /\ UNCHANGED <<monitor, card, udev>>

Ready ==
  LET S == {i \in Live(dev) : dev.obj[i].hold}
      go == Changed(dev, [i \in S |-> [dev.obj[i] EXCEPT !.hold = FALSE, !.stale = TRUE]])
  IN  /\ S # {}
      /\ dev' \in RepaintAll(go, S)
      /\ UNCHANGED <<monitor, card, udev>>

\* mutant: a retired output stays
FlippedKept(d, i) ==
  LET o == d.obj[i]
      shown == [d EXCEPT !.obj[i].flip = FALSE]
  IN  IF o.flip /\ o.st # "retired" /\ o.due THEN RepaintAll(shown, {i}) ELSE {shown}

\* page_flip_complete(), from the event the kernel sends for output i.
Flipped(d, i) ==
  LET o == d.obj[i]
      shown == [d EXCEPT !.obj[i].flip = FALSE]
  IN  IF ~o.flip THEN {d}
      ELSE IF o.st = "retired" THEN RescanAndRepaint(Close(shown, i))
      ELSE IF o.due THEN RepaintAll(shown, {i}) ELSE {shown}

PageFlipComplete(i) ==
  /\ dev.open /\ dev.active /\ i \in dev.flying
  /\ dev' \in Flipped([dev EXCEPT !.flying = @ \ {i}], i)
  /\ UNCHANGED <<monitor, card, udev>>

\* enable_seat(): the card is watched again, every output needs a modeset,
\* and a card that is not known yet is added.
EnableSeat ==
  /\ ~dev.active
  /\ LET on == Changed([dev EXCEPT !.active = TRUE],
                       [i \in Live(dev) |-> [dev.obj[i] EXCEPT !.modeset = TRUE]])
     IN  dev' \in UNION {AddDevice(w) : w \in RepaintAll(on, Live(on))}
  /\ UNCHANGED <<monitor, card, udev>>

\* disable_seat(): another session owns the screens from now on.
DisableSeat ==
  /\ dev.active
  /\ dev' = [dev EXCEPT !.active = FALSE]
  /\ UNCHANGED <<monitor, card, udev>>

---------------------------------------------------------------------------
\* A monitor is plugged, unplugged or asks for another mode; the card goes
\* or comes back.  The kernel tells udev.
Monitor(k, m) ==
  /\ card /\ monitor[k] # m /\ Len(udev) < MaxUdev
  /\ monitor' = [monitor EXCEPT ![k] = m]
  /\ udev' = Append(udev, "change")
  /\ UNCHANGED <<card, dev>>

Card ==
  /\ Len(udev) < MaxUdev
  /\ card' = ~card
  /\ udev' = Append(udev, IF card THEN "remove" ELSE "add")
  /\ UNCHANGED <<monitor, dev>>

\* dispatch_udev(): while the seat is inactive only a removal is acted on.
DispatchUdev ==
  /\ udev # <<>> /\ udev' = Tail(udev)
  /\ dev' \in CASE Head(udev) = "remove" -> {[Closed EXCEPT !.active = dev.active]}
              [] ~dev.active -> {dev}
              [] Head(udev) = "add" -> AddDevice(dev)
              [] OTHER -> IF dev.open THEN RescanAndRepaint(dev) ELSE AddDevice(dev)
  /\ UNCHANGED <<monitor, card>>

Next ==
  \/ \E S \in SUBSET Live(dev) : Present(S) \/ Prepare(S)
  \/ Ready
  \/ \E i \in Objects : PageFlipComplete(i)
  \/ EnableSeat \/ DisableSeat
  \/ \E k \in Connectors, m \in Modes \cup {0} : Monitor(k, m)
  \/ Card \/ DispatchUdev

\* The hardware finishes every flip, and the loop reads what is readable.
Fairness == /\ \A i \in Objects : WF_vars(PageFlipComplete(i))
            /\ WF_vars(DispatchUdev)

Spec == Init /\ [][Next]_vars /\ Fairness

---------------------------------------------------------------------------
TypeOK ==
  /\ monitor \in [Connectors -> Modes \cup {0}] /\ card \in BOOLEAN
  /\ udev \in BoundedSeq({"add", "remove", "change"}, MaxUdev)
  /\ dev.flying \subseteq Objects
  /\ \A i \in Objects :
       /\ dev.obj[i].st \in {"free", "live", "retired"}
       /\ dev.obj[i].conn \in Connectors \cup {0} /\ dev.obj[i].crtc \in Crtcs \cup {0}
       /\ dev.obj[i].mode \in Modes \cup {0}

\* A page-flip event carries a pointer to its DrmOutput: as long as the
\* event may come the output exists and waits for it, whatever hotplugs,
\* seat switches and other flips happened in between.
FlipsHaveOutputs ==
  \A i \in dev.flying : dev.obj[i].st # "free" /\ dev.obj[i].flip

\* No two outputs, retired ones included, drive the same CRTC or, retired
\* ones excluded, the same connector.
CrtcsExclusive ==
  \A i, j \in Live(dev) \cup Retired(dev) :
    i # j => /\ dev.obj[i].crtc # dev.obj[j].crtc
             /\ {i, j} \subseteq Live(dev) => dev.obj[i].conn # dev.obj[j].conn

\* What the compositor asked to be drawn is never forgotten: as long as the
\* frame was neither drawn nor given up, the output owes it and something
\* that will draw it is still to come.
NothingForgotten ==
  \A i \in Live(dev) :
    LET o == dev.obj[i] IN
    dev.active /\ o.stale =>
      o.hold \/ (o.due /\ o.flip /\ i \in dev.flying)

\* An output whose monitor went away is closed, unless the session is away.
RetiredGo ==
  \A i \in Objects : dev.obj[i].st = "retired" ~> dev.obj[i].st # "retired" \/ ~dev.active
===========================================================================
