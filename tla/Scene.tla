------------------------------ MODULE Scene -------------------------------
(***************************************************************************)
(* What one output of the direct backend keeps of the surfaces it shows:   *)
(* an item per surface with its texture, the DMA-BUF imports of the card,  *)
(* and the animation of each window.  A window that closes stays on screen *)
(* as a copy until its animation is over; a tag that is left stays until   *)
(* its slide is over.  When a frame is drawn is the matter of KmsBackend:  *)
(* here a redraw happens at once or is owed.                               *)
(***************************************************************************)
EXTENDS Integers, FiniteSets

CONSTANTS Window,   \* a toplevel
          Parts     \* surfaces of its tree

Surfaces == {Window} \cup Parts

VARIABLES
  sc,       \* the scene: shm_textures, dmabuf_textures, animations, flags
  fade,     \* configuration: closing windows are animated
  shown,    \* compositor: the surfaces that have a buffer and may be seen
  locked    \* compositor: the session is locked, windows are not presented

sceneVars == <<sc, fade, shown, locked>>

\* tex: none, a texture of the item's own, or the import of the surface.
NoItem == [on |-> FALSE, tex |-> "none", gone |-> FALSE, out |-> FALSE]

SceneInit ==
  /\ sc = [item |-> [s \in Surfaces |-> NoItem],
           imports |-> [s \in Surfaces |-> "no"],     \* no, ok, failed
           anim |-> "no",                             \* no, present, closing, ended
           tag |-> "no",                              \* no, preparing, sliding, over
           hold |-> FALSE, owed |-> FALSE]
  /\ fade \in BOOLEAN /\ shown = {} /\ locked = FALSE

Held(d) == d.hold \/ d.tag = "preparing"

---------------------------------------------------------------------------
(***************************************************************************)
(* AnimationSystem, for the state of one window.  prune() forgets a closed *)
(* window whose time is over; update() is given the windows that are drawn *)
(* and starts the closing of the ones that are not any more.               *)
(***************************************************************************)
Updated(anim, target) ==
  LET kept == IF anim = "ended" THEN "no" ELSE anim
  IN  IF target THEN "present"
      ELSE IF kept # "present" THEN kept
      ELSE IF fade THEN "closing" ELSE "no"

\* The scene part of repaint(): outgoing items whose slide is over, the
\* animation targets, and the removed items that nothing retains.  While a
\* tag slides a window outside the output (`outside`) is no target.
Painted(d, outside) ==
  LET slide == d.tag = "sliding" /\ fade
      left == ~slide /\ \E s \in Surfaces : d.item[s].on /\ d.item[s].out
      item == [s \in Surfaces |->
                 IF ~slide /\ d.item[s].out THEN [d.item[s] EXCEPT !.gone = TRUE]
                 ELSE d.item[s]]
      away == slide /\ outside
      target == /\ item[Window].on /\ ~item[Window].gone
                /\ item[Window].tex # "none" /\ ~away
      anim == Updated(IF left \/ (away /\ item[Window].on) THEN "no" ELSE d.anim, target)
      dead == {s \in Surfaces : item[s].on /\ item[s].gone /\ anim = "no"}
  IN  [d EXCEPT !.item = [s \in Surfaces |-> IF s \in dead THEN NoItem ELSE item[s]],
                !.imports = [s \in Surfaces |-> IF s \in dead THEN "no" ELSE d.imports[s]],
                !.anim = anim,
                !.owed = slide \/ anim = "closing"]

\* repaint(): now, or later when a frame is in flight or in preparation.
Repaints(d) ==
  {[d EXCEPT !.owed = TRUE]} \cup
  (IF Held(d) THEN {} ELSE {Painted(d, b) : b \in BOOLEAN})

\* Batches that do not redraw while the next scene is prepared.
UnlessHeld(d) == IF Held(d) THEN {d} ELSE Repaints(d)

---------------------------------------------------------------------------
\* snapshot_texture() of every item of the window's tree that shows an
\* import; the copy may fail.  The import is released.
Copies(d, on) ==
  {[d EXCEPT !.item = [s \in Surfaces |->
                IF ~d.item[s].on THEN NoItem
                ELSE [d.item[s] EXCEPT
                        !.gone = TRUE,
                        !.out = @ /\ s \notin on,
                        !.tex = IF @ = "import" THEN (IF s \in lost THEN "none" ELSE "own")
                                ELSE @]],
             !.imports = [s \in Surfaces |->
                IF d.item[s].on /\ d.item[s].tex = "import" THEN "no" ELSE d.imports[s]]] :
     lost \in SUBSET Surfaces}

\* present() of a window without a buffer that has a place in the layout:
\* its content stays, or closes with it when the window is unmapped.
KeepContent(unmapped) ==
  LET it == sc.item[Window]
      kept == it.on /\ it.tex # "none"
      placed == [sc EXCEPT !.item[Window] =
                   [NoItem EXCEPT !.on = TRUE, !.tex = IF kept THEN it.tex ELSE "none"]]
  IN  IF it.on /\ it.gone THEN {sc}
      ELSE UNION {UnlessHeld(d) : d \in
                    IF kept /\ unmapped THEN Copies(placed, {Window}) ELSE {placed}}

\* present() of any other surface without a buffer.  An item of a tag that
\* slides out, or of a window that closes, is left alone.
DropContent(s) ==
  LET it == sc.item[s]
      rootGone == sc.item[Window].on /\ sc.item[Window].gone
      drop == IF ~it.on \/ it.out \/ rootGone THEN {sc}
              ELSE IF s = Window /\ fade THEN Copies(sc, {})
              ELSE {[sc EXCEPT !.item[s] = NoItem]}
  IN  IF it.on /\ it.gone THEN {sc} ELSE UNION {UnlessHeld(d) : d \in drop}

\* mutant: also of an item that still slides or closes
ForgetImportAlways(d, s) == [d EXCEPT !.imports[s] = "no"]

\* The end of present(): a surface that is no toplevel loses its import,
\* unless an item of it is still sliding or closing.
ForgetImport(d, s) ==
  IF s = Window \/ (d.item[s].on /\ (d.item[s].out \/ d.item[s].gone)) THEN d
  ELSE [d EXCEPT !.imports[s] = "no"]

\* A surface loses its buffer.
Withdraw(s, placed, unmapped) ==
  /\ ~locked
  /\ placed => s = Window
  /\ unmapped => s \in shown
  /\ shown' = IF unmapped THEN shown \ {s} ELSE shown
  /\ placed \/ unmapped
  /\ sc' \in {ForgetImport(d, s) : d \in IF placed THEN KeepContent(unmapped) ELSE DropContent(s)}
  /\ UNCHANGED <<fade, locked>>

\* present() of shared memory: the texture is the item's own.
PresentPixels(s) ==
  LET d == [sc EXCEPT !.imports[s] = "no",
                      !.item[s] = [NoItem EXCEPT !.on = TRUE, !.tex = "own"]]
  IN  /\ ~locked /\ (s = Window \/ Window \in shown)
      /\ shown' = shown \cup {s}
      /\ sc' \in UnlessHeld(d) /\ UNCHANGED <<fade, locked>>

\* present() of a DMA-BUF: imported again when it is another buffer.
PresentDmabuf(s, other, works) ==
  LET entry == IF sc.imports[s] = "no" \/ other THEN (IF works THEN "ok" ELSE "failed")
               ELSE sc.imports[s]
      d == [sc EXCEPT !.imports[s] = entry,
                      !.item[s] = [NoItem EXCEPT !.on = TRUE,
                                     !.tex = IF entry = "ok" THEN "import" ELSE "none"]]
  IN  /\ ~locked /\ (s = Window \/ Window \in shown)
      /\ shown' = shown \cup {s}
      /\ sc' \in UnlessHeld(d) /\ UNCHANGED <<fade, locked>>

\* scene_reset: the session is locked and the window leaves the scene without
\* an animation.
SceneReset ==
  /\ ~locked /\ locked' = TRUE
  /\ sc' \in LET d == [sc EXCEPT !.anim = "no",
                                 !.item = [s \in Surfaces |->
                                    IF sc.item[s].on THEN [sc.item[s] EXCEPT !.gone = TRUE]
                                    ELSE NoItem]]
             IN  IF d.hold THEN {d} ELSE Repaints(d)
  /\ UNCHANGED <<fade, shown>>

\* The lock is over: what may be seen is presented again, as it was.
SceneRestored ==
  /\ locked /\ locked' = FALSE
  /\ sc' \in LET back == IF Window \in shown THEN shown ELSE {}
             IN  UnlessHeld([sc EXCEPT !.item = [s \in Surfaces |->
                   IF s \in back
                   THEN [NoItem EXCEPT !.on = TRUE,
                           !.tex = IF sc.imports[s] = "ok" THEN "import" ELSE "own"]
                   ELSE sc.item[s]]])
  /\ UNCHANGED <<fade, shown>>

\* tag_transition: what is shown slides out, once the next tag is ready.
TagTransition ==
  /\ sc.tag # "preparing"
  /\ sc' = [sc EXCEPT !.tag = "preparing",
                      !.item = [s \in Surfaces |->
                         IF sc.item[s].on /\ sc.item[Window].on
                         THEN [sc.item[s] EXCEPT !.out = TRUE] ELSE sc.item[s]]]
  /\ UNCHANGED <<fade, shown, locked>>

TagReady ==
  /\ sc.tag = "preparing"
  /\ sc' \in Repaints([sc EXCEPT !.tag = "sliding"])
  /\ UNCHANGED <<fade, shown, locked>>

CameraFrame(preparing) ==
  /\ sc' \in LET d == [sc EXCEPT !.hold = preparing]
             IN  IF preparing THEN {d} ELSE Repaints(d)
  /\ UNCHANGED <<fade, shown, locked>>

\* Time passes: a closing or a slide is over.
Elapse ==
  /\ sc' \in (IF sc.anim = "closing" THEN {[sc EXCEPT !.anim = "ended"]} ELSE {})
             \cup (IF sc.tag = "sliding" THEN {[sc EXCEPT !.tag = "over"]} ELSE {})
  /\ UNCHANGED <<fade, shown, locked>>

\* The frame that is owed is drawn.
Frame == /\ sc.owed /\ ~Held(sc)
         /\ sc' \in {Painted(sc, b) : b \in BOOLEAN}
         /\ UNCHANGED <<fade, shown, locked>>

\* set_config(): without animations nothing is left closing.
SetAnimations ==
  /\ fade' = ~fade
  /\ sc' \in Repaints([sc EXCEPT !.anim = IF fade /\ @ \in {"closing", "ended"} THEN "no" ELSE @])
  /\ UNCHANGED <<shown, locked>>

SceneNext ==
  \/ \E s \in Surfaces, p, u \in BOOLEAN : Withdraw(s, p, u)
  \/ \E s \in Surfaces : PresentPixels(s)
  \/ \E s \in Surfaces, o, w \in BOOLEAN : PresentDmabuf(s, o, w)
  \/ SceneReset \/ SceneRestored \/ TagTransition \/ TagReady
  \/ \E b \in BOOLEAN : CameraFrame(b)
  \/ Elapse \/ Frame \/ SetAnimations

SceneSpec == SceneInit /\ [][SceneNext]_sceneVars

---------------------------------------------------------------------------
SceneTypeOK ==
  /\ sc.item \in [Surfaces -> [on : BOOLEAN, tex : {"none", "own", "import"},
                               gone : BOOLEAN, out : BOOLEAN]]
  /\ sc.imports \in [Surfaces -> {"no", "ok", "failed"}]
  /\ sc.anim \in {"no", "present", "closing", "ended"}
  /\ sc.tag \in {"no", "preparing", "sliding", "over"}
  /\ {sc.hold, sc.owed, fade, locked} \subseteq BOOLEAN /\ shown \subseteq Surfaces

\* An item never draws an import that has been released: a closing window
\* draws copies, a sliding one keeps its imports.
NoDeadTexture ==
  \A s \in Surfaces : sc.item[s].tex = "import" => sc.imports[s] = "ok"

\* A window that is closing or leaving is on its way out: the frame that
\* will drop it is owed, or the compositor still prepares one.
GoneIsOwed == sc.item[Window].gone => sc.owed \/ Held(sc)
===========================================================================
