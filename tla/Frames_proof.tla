--------------------------- MODULE Frames_proof ---------------------------
(***************************************************************************)
(* The backends side by side, for every number of connectors, CRTCs,       *)
(* outputs and surfaces.                                                   *)
(***************************************************************************)
EXTENDS FramesMC, TLAPS, FiniteSetTheorems

---------------------------------------------------------------------------
(* The scene of one output. *)

ItemType == [on : BOOLEAN, tex : {"none", "own", "import"}, gone : BOOLEAN, out : BOOLEAN]
Anims == {"no", "present", "closing", "ended"}
SceneType ==
  [item : [Surfaces -> ItemType], imports : [Surfaces -> {"no", "ok", "failed"}],
   anim : Anims, tag : {"no", "preparing", "sliding", "over"}, hold : BOOLEAN, owed : BOOLEAN]

Drawable(d) == \A s \in Surfaces : d.item[s].tex = "import" => d.imports[s] = "ok"
\* An item that is off keeps nothing.
OffIsEmpty(d) == \A s \in Surfaces : ~d.item[s].on => d.item[s] = NoItem
\* With the window goes its tree.
TreeGone(d) == d.item[Window].gone => \A s \in Surfaces : d.item[s].on => d.item[s].gone
Owing(d) == d.item[Window].gone => d.owed \/ Held(d)

\* What every batch leaves of the scene, whether or not it redraws at once.
Sound(d) == d \in SceneType /\ Drawable(d) /\ OffIsEmpty(d) /\ TreeGone(d)

SceneInv ==
  /\ Sound(sc) /\ Owing(sc)
  /\ fade \in BOOLEAN /\ locked \in BOOLEAN /\ shown \subseteq Surfaces
  \* A window that is gone is not shown, unless the lock took it away.
  /\ sc.item[Window].gone /\ ~locked => Window \notin shown

LEMMA SceneInitially == SceneInit => SceneInv
<1> SUFFICES ASSUME SceneInit PROVE SceneInv
  OBVIOUS
<1>1. /\ Window \in Surfaces /\ NoItem \in ItemType /\ ~NoItem.gone /\ NoItem.tex = "none"
  BY DEF Surfaces, NoItem, ItemType
<1>2. /\ sc \in SceneType /\ sc.item = [s \in Surfaces |-> NoItem]
  BY <1>1 DEF SceneInit, SceneType, Anims
<1>3. fade \in BOOLEAN /\ locked \in BOOLEAN /\ shown = {}
  BY DEF SceneInit
<1> QED BY <1>1, <1>2, <1>3 DEF SceneInv, Sound, Drawable, OffIsEmpty, TreeGone, Owing

\* A redraw keeps what is sound; whatever is gone after it was, and is closing.
\* An item that closes or slides away.
Leaving(d, s) == d.item[s].on /\ (d.item[s].gone \/ d.item[s].out)

LEMMA PaintedSound ==
  ASSUME NEW d, Sound(d), NEW b \in BOOLEAN, fade \in BOOLEAN
  PROVE  /\ Sound(Painted(d, b)) /\ Owing(Painted(d, b))
         /\ Painted(d, b).item[Window].gone => d.item[Window].gone
         /\ \A s \in Surfaces :
              Painted(d, b).item[s].tex = "import" =>
                /\ d.item[s].on /\ d.item[s].tex = "import"
                /\ d.item[s].gone \/ d.item[s].out => Leaving(Painted(d, b), s)
<1> DEFINE slide == d.tag = "sliding" /\ fade
           left == ~slide /\ \E s \in Surfaces : d.item[s].on /\ d.item[s].out
           item == [s \in Surfaces |->
                 IF ~slide /\ d.item[s].out THEN [d.item[s] EXCEPT !.gone = TRUE]
                 ELSE d.item[s]]
           away == slide /\ b
           target == /\ item[Window].on /\ ~item[Window].gone
                     /\ item[Window].tex # "none" /\ ~away
           anim == Updated(IF left \/ (away /\ item[Window].on) THEN "no" ELSE d.anim, target)
           over == {s \in Surfaces : item[s].on /\ item[s].gone /\ anim = "no"}
           e == Painted(d, b)
<1>0. /\ Window \in Surfaces /\ d \in SceneType
      /\ \A s \in Surfaces : d.item[s] \in ItemType
  BY DEF Surfaces, Sound, SceneType
<1>1. e = [d EXCEPT !.item = [s \in Surfaces |-> IF s \in over THEN NoItem ELSE item[s]],
                    !.imports = [s \in Surfaces |-> IF s \in over THEN "no" ELSE d.imports[s]],
                    !.anim = anim,
                    !.owed = slide \/ anim = "closing"]
  BY DEF Painted
<1>2. anim \in {"no", "present", "closing"} /\ (anim = "present" <=> target)
  BY <1>0 DEF Updated, SceneType, Anims
<1>3. /\ e.item = [s \in Surfaces |-> IF s \in over THEN NoItem ELSE item[s]]
      /\ e.imports = [s \in Surfaces |-> IF s \in over THEN "no" ELSE d.imports[s]]
      /\ e.anim = anim /\ e.tag = d.tag /\ e.hold = d.hold
      /\ e.owed = (slide \/ anim = "closing")
  BY <1>0, <1>1 DEF SceneType
<1>4. \A s \in Surfaces :
        /\ item[s] \in ItemType /\ item[s].on = d.item[s].on /\ item[s].tex = d.item[s].tex
        /\ item[s].out = d.item[s].out
        /\ item[s].gone = (d.item[s].gone \/ (~slide /\ d.item[s].out))
  BY <1>0 DEF ItemType
<1>5. left /\ item[Window].gone => anim = "no"
  BY <1>0 DEF Updated
<1>6. e \in SceneType
  <2>1. NoItem \in ItemType
    BY DEF NoItem, ItemType
  <2>2. /\ [s \in Surfaces |-> IF s \in over THEN NoItem ELSE item[s]] \in [Surfaces -> ItemType]
        /\ [s \in Surfaces |-> IF s \in over THEN "no" ELSE d.imports[s]]
              \in [Surfaces -> {"no", "ok", "failed"}]
        /\ anim \in Anims /\ (slide \/ anim = "closing") \in BOOLEAN
    BY <1>0, <1>2, <1>4, <2>1 DEF SceneType, Anims
  <2> HIDE DEF item, over, anim, target, slide
  <2> QED BY <1>0, <1>1, <2>2 DEF SceneType
<1>7. /\ \A s \in Surfaces : /\ s \in over => e.item[s] = NoItem
                             /\ s \notin over => e.item[s] = item[s] /\ e.imports[s] = d.imports[s]
      /\ ~NoItem.gone /\ ~NoItem.on /\ NoItem.tex = "none"
  BY <1>3 DEF NoItem
<1>8. \A s \in Surfaces : ~d.item[s].on => item[s] = NoItem /\ s \notin over
  <2> SUFFICES ASSUME NEW s \in Surfaces, ~d.item[s].on PROVE item[s] = NoItem /\ s \notin over
    OBVIOUS
  <2>1. d.item[s] = NoItem /\ NoItem.out = FALSE /\ NoItem.on = FALSE
    BY DEF Sound, OffIsEmpty, NoItem
  <2>2. item[s] = NoItem
    BY <2>1
  <2> QED BY <2>1, <2>2
<1> HIDE DEF e, item, over, anim, target
<1>9. Drawable(e)
  BY <1>4, <1>7 DEF Sound, Drawable
<1>10. OffIsEmpty(e)
  BY <1>4, <1>7, <1>8 DEF OffIsEmpty
<1>11. e.item[Window].gone => d.item[Window].gone /\ anim = "closing"
  <2> SUFFICES ASSUME e.item[Window].gone PROVE d.item[Window].gone /\ anim = "closing"
    OBVIOUS
  <2>1. Window \notin over /\ item[Window].gone
    BY <1>0, <1>7
  <2>2. item[Window].on /\ d.item[Window].on
    BY <1>0, <1>4, <1>7, <1>8, <2>1
  <2>3. anim # "no"
    BY <1>0, <2>1, <2>2 DEF over
  <2>4. anim = "closing"
    BY <1>2, <2>1, <2>3 DEF target
  <2>5. ~left
    BY <1>5, <2>1, <2>3
  <2> QED BY <1>0, <1>4, <2>1, <2>2, <2>4, <2>5
<1>12. TreeGone(e)
  BY <1>0, <1>4, <1>7, <1>11 DEF Sound, TreeGone
<1>13. Owing(e)
  BY <1>3, <1>11 DEF Owing
<1>14. ASSUME NEW s \in Surfaces, e.item[s].tex = "import"
       PROVE  /\ d.item[s].on /\ d.item[s].tex = "import"
              /\ d.item[s].gone \/ d.item[s].out => Leaving(e, s)
  BY <1>4, <1>7, <1>8, <1>14 DEF Leaving
<1> QED BY <1>6, <1>9, <1>10, <1>11, <1>12, <1>13, <1>14 DEF e, Sound

\* A batch redraws, or leaves it to a frame to come.
LEMMA BatchSound ==
  ASSUME NEW d, Sound(d), fade \in BOOLEAN, NEW e \in Repaints(d) \cup UnlessHeld(d)
  PROVE  /\ Sound(e) /\ Owing(e)
         /\ e.item[Window].gone => d.item[Window].gone
         /\ \A s \in Surfaces :
              e.item[s].tex = "import" =>
                /\ d.item[s].on /\ d.item[s].tex = "import"
                /\ d.item[s].gone \/ d.item[s].out => Leaving(e, s)
<1> DEFINE o == [d EXCEPT !.owed = TRUE]
<1>0. d \in SceneType
  BY DEF Sound
<1>1. \A s \in Surfaces : d.item[s].tex = "import" => d.item[s].on
  BY DEF Sound, OffIsEmpty, NoItem
<1>2. CASE e = o
  <2>1. /\ e.item = d.item /\ e.imports = d.imports /\ e.owed = TRUE /\ e \in SceneType
    BY <1>0, <1>2 DEF SceneType
  <2> QED BY <1>1, <2>1 DEF Sound, Drawable, OffIsEmpty, TreeGone, Owing, Leaving
<1>3. CASE e = d /\ Held(d)
  BY <1>1, <1>3 DEF Owing, Leaving
<1>4. CASE \E b \in BOOLEAN : e = Painted(d, b)
  BY <1>4, PaintedSound
<1> QED BY <1>2, <1>3, <1>4 DEF Repaints, UnlessHeld

\* The item of s becomes x and its import k; what was known of the others stays.
Kinds == {"no", "ok", "failed"}
WithItem(d, s, k, x) == [d EXCEPT !.imports[s] = k, !.item[s] = x]

LEMMA ItemSetSound ==
  ASSUME NEW d, Sound(d), NEW s \in Surfaces, NEW x \in ItemType, NEW k \in Kinds,
         NEW e, e = WithItem(d, s, k, x),
         x.tex = "import" => k = "ok", x.on \/ x = NoItem,
         ~x.gone, s = Window \/ ~d.item[Window].gone
  PROVE  Sound(e) /\ ~e.item[Window].gone
<1>0. d \in SceneType
  BY DEF Sound
<1>1. /\ e \in SceneType /\ e.item[s] = x /\ e.imports[s] = k
      /\ \A t \in Surfaces : t # s => e.item[t] = d.item[t] /\ e.imports[t] = d.imports[t]
  BY <1>0 DEF SceneType, WithItem, Kinds
<1>2. Window \in Surfaces
  BY DEF Surfaces
<1> QED BY <1>1, <1>2 DEF Sound, Drawable, OffIsEmpty, TreeGone

\* The copies of a closing window: what could be copied is drawn without its import.
LEMMA CopiesSound ==
  ASSUME NEW d, Sound(d), NEW on \in SUBSET Surfaces, NEW e \in Copies(d, on)
  PROVE  Sound(e)
<1> PICK failing \in SUBSET Surfaces :
      e = [d EXCEPT !.item = [s \in Surfaces |->
                IF ~d.item[s].on THEN NoItem
                ELSE [d.item[s] EXCEPT
                        !.gone = TRUE,
                        !.out = @ /\ s \notin on,
                        !.tex = IF @ = "import" THEN (IF s \in failing THEN "none" ELSE "own")
                                ELSE @]],
             !.imports = [s \in Surfaces |->
                IF d.item[s].on /\ d.item[s].tex = "import" THEN "no" ELSE d.imports[s]]]
  BY DEF Copies
<1> DEFINE item == [s \in Surfaces |->
                IF ~d.item[s].on THEN NoItem
                ELSE [d.item[s] EXCEPT
                        !.gone = TRUE,
                        !.out = @ /\ s \notin on,
                        !.tex = IF @ = "import" THEN (IF s \in failing THEN "none" ELSE "own")
                                ELSE @]]
           imports == [s \in Surfaces |->
                IF d.item[s].on /\ d.item[s].tex = "import" THEN "no" ELSE d.imports[s]]
<1>1. d \in SceneType /\ \A s \in Surfaces : d.item[s] \in ItemType
  BY DEF Sound, SceneType
<1>2. \A s \in Surfaces : /\ item[s] \in ItemType /\ item[s].tex # "import"
                          /\ ~item[s].on => item[s] = NoItem
                          /\ item[s].on => item[s].gone
  BY <1>1 DEF ItemType, NoItem
<1>3. imports \in [Surfaces -> {"no", "ok", "failed"}] /\ item \in [Surfaces -> ItemType]
  BY <1>1, <1>2 DEF SceneType
<1> HIDE DEF item, imports
<1>4. e.item = item /\ e.imports = imports /\ e \in SceneType
  BY <1>1, <1>3 DEF SceneType, item, imports
<1> QED BY <1>2, <1>4 DEF Sound, Drawable, OffIsEmpty, TreeGone

LEMMA KeepContentSound ==
  ASSUME SceneInv, NEW unmapped \in BOOLEAN, NEW e \in KeepContent(unmapped)
  PROVE  Sound(e) /\ Owing(e) /\ (e.item[Window].gone => sc.item[Window].gone \/ unmapped)
<1> DEFINE it == sc.item[Window]
           kept == it.on /\ it.tex # "none"
           x == [NoItem EXCEPT !.on = TRUE, !.tex = IF kept THEN it.tex ELSE "none"]
           placed == [sc EXCEPT !.item[Window] = x]
<1>0. /\ Sound(sc) /\ Owing(sc) /\ fade \in BOOLEAN
      /\ Window \in Surfaces /\ sc \in SceneType /\ it \in ItemType
      /\ sc.imports[Window] \in Kinds
  BY DEF SceneInv, Surfaces, Sound, SceneType, Kinds
<1>1. CASE it.on /\ it.gone
  BY <1>0, <1>1 DEF KeepContent
<1>2. CASE ~(it.on /\ it.gone)
  <2>1. x \in ItemType /\ x.on /\ ~x.gone /\ (x.tex = "import" => sc.imports[Window] = "ok")
    BY <1>0 DEF ItemType, NoItem, Sound, Drawable
  <2>2. placed = WithItem(sc, Window, sc.imports[Window], x)
    BY <1>0 DEF WithItem, SceneType
  <2> HIDE DEF x, placed
  <2>3. Sound(placed) /\ ~placed.item[Window].gone
    BY <1>0, <2>1, <2>2, ItemSetSound
  <2>4. PICK d \in IF kept /\ unmapped THEN Copies(placed, {Window}) ELSE {placed} : e \in UnlessHeld(d)
    BY <1>2 DEF KeepContent, placed, x
  <2>5. Sound(d) /\ (d.item[Window].gone => unmapped)
    BY <1>0, <2>3, <2>4, CopiesSound
  <2> QED BY <1>0, <2>4, <2>5, BatchSound
<1> QED BY <1>1, <1>2

LEMMA DropContentSound ==
  ASSUME SceneInv, NEW s \in Surfaces, NEW e \in DropContent(s)
  PROVE  /\ Sound(e) /\ Owing(e) /\ (e.item[Window].gone => sc.item[Window].gone \/ s = Window)
         /\ s # Window /\ e.item[s].tex = "import" => Leaving(e, s)
<1> DEFINE it == sc.item[s]
           gone == [sc EXCEPT !.item[s] = NoItem]
           rootGone == sc.item[Window].on /\ sc.item[Window].gone
<1>0. /\ Sound(sc) /\ Owing(sc) /\ fade \in BOOLEAN
      /\ Window \in Surfaces /\ sc \in SceneType /\ it \in ItemType /\ sc.item[Window] \in ItemType
      /\ sc.imports[s] \in Kinds
      /\ NoItem \in ItemType /\ ~NoItem.gone /\ NoItem.tex = "none"
  BY DEF SceneInv, Surfaces, Sound, SceneType, Kinds, NoItem, ItemType
<1>1. CASE it.on /\ it.gone
  BY <1>0, <1>1 DEF DropContent, Leaving
<1>2. CASE ~(it.on /\ it.gone)
  <2>1. PICK d \in IF ~it.on \/ it.out \/ rootGone THEN {sc}
                   ELSE IF s = Window /\ fade THEN Copies(sc, {}) ELSE {gone} : e \in UnlessHeld(d)
    BY <1>2 DEF DropContent
  <2>2. CASE d = sc /\ (~it.on \/ it.out \/ rootGone)
    <3>1. rootGone => ~it.on
      BY <1>0, <1>2 DEF Sound, TreeGone
    <3>2. it.tex = "import" => it.on
      BY <1>0 DEF Sound, OffIsEmpty
    <3> QED BY <1>0, <2>1, <2>2, <3>1, <3>2, BatchSound
  <2>3. CASE s = Window /\ d \in Copies(sc, {})
    <3>1. Sound(d)
      BY <1>0, <2>3, CopiesSound
    <3> QED BY <1>0, <2>1, <2>3, <3>1, BatchSound
  <2>4. CASE d = gone /\ ~(~it.on \/ it.out \/ rootGone)
    <3>1. ~sc.item[Window].gone
      BY <1>0, <2>4 DEF Sound, OffIsEmpty
    <3>2. gone = WithItem(sc, s, sc.imports[s], NoItem)
      BY <1>0 DEF WithItem, SceneType
    <3>3. gone.item[s] = NoItem
      BY <1>0 DEF SceneType
    <3> HIDE DEF gone
    <3>4. Sound(d) /\ ~d.item[Window].gone
      BY <1>0, <2>4, <3>1, <3>2, ItemSetSound
    <3> QED BY <1>0, <2>1, <2>4, <3>3, <3>4, BatchSound
  <2> QED BY <2>1, <2>2, <2>3, <2>4
<1> QED BY <1>1, <1>2

LEMMA ForgetImportSound ==
  ASSUME NEW d, NEW s \in Surfaces, Sound(d), Owing(d),
         s # Window /\ d.item[s].tex = "import" => Leaving(d, s)
  PROVE  Sound(ForgetImport(d, s)) /\ Owing(ForgetImport(d, s)) /\ ForgetImport(d, s).item = d.item
<1> DEFINE e == [d EXCEPT !.imports[s] = "no"]
<1>1. CASE ForgetImport(d, s) = d
  BY <1>1
<1>2. CASE ForgetImport(d, s) = e /\ s # Window /\ ~Leaving(d, s)
  <2>1. d \in SceneType
    BY DEF Sound
  <2>2. /\ e \in SceneType /\ e.item = d.item /\ e.owed = d.owed /\ e.hold = d.hold /\ e.tag = d.tag
        /\ \A t \in Surfaces : t # s => e.imports[t] = d.imports[t]
    BY <2>1 DEF SceneType
  <2> HIDE DEF e
  <2> QED BY <1>2, <2>2 DEF Sound, Drawable, OffIsEmpty, TreeGone, Owing, Held
<1> QED BY <1>1, <1>2 DEF ForgetImport, Leaving

LEMMA WithdrawStep ==
  ASSUME SceneInv, NEW s \in Surfaces, NEW placed \in BOOLEAN, NEW unmapped \in BOOLEAN,
         Withdraw(s, placed, unmapped)
  PROVE  SceneInv'
<1>1. PICK d \in IF placed THEN KeepContent(unmapped) ELSE DropContent(s) : sc' = ForgetImport(d, s)
  BY DEF Withdraw
<1>2. /\ Sound(d) /\ Owing(d) /\ (d.item[Window].gone => sc.item[Window].gone \/ (s = Window /\ unmapped))
      /\ s # Window /\ d.item[s].tex = "import" => Leaving(d, s)
  <2>1. CASE placed
    BY <1>1, <2>1, KeepContentSound DEF Withdraw
  <2>2. CASE ~placed
    BY <1>1, <2>2, DropContentSound DEF Withdraw
  <2> QED BY <2>1, <2>2
<1>3. Sound(sc') /\ Owing(sc') /\ sc'.item = d.item
  BY <1>1, <1>2, ForgetImportSound
<1> QED BY <1>2, <1>3 DEF Withdraw, SceneInv, Sound, Owing, Held, Drawable, OffIsEmpty, TreeGone

\* A surface is presented while the window is shown, so the window is not gone.
LEMMA PresentStep ==
  ASSUME SceneInv, NEW s \in Surfaces, NEW k \in Kinds, NEW x \in ItemType, x.on, ~x.gone,
         x.tex = "import" => k = "ok", ~locked, s = Window \/ Window \in shown,
         shown' = shown \cup {s}, sc' \in UnlessHeld(WithItem(sc, s, k, x)),
         UNCHANGED <<fade, locked>>
  PROVE  SceneInv'
<1> DEFINE d == WithItem(sc, s, k, x)
<1>1. Sound(sc) /\ fade \in BOOLEAN /\ (s = Window \/ ~sc.item[Window].gone)
  BY DEF SceneInv
<1> HIDE DEF d
<1>2. Sound(d) /\ ~d.item[Window].gone
  BY <1>1, ItemSetSound DEF d
<1>3. Sound(sc') /\ Owing(sc') /\ ~sc'.item[Window].gone
  BY <1>1, <1>2, BatchSound DEF d
<1> QED BY <1>3 DEF SceneInv, Sound, Owing, Held, Drawable, OffIsEmpty, TreeGone

LEMMA PresentPixelsStep == ASSUME SceneInv, NEW s \in Surfaces, PresentPixels(s) PROVE SceneInv'
<1> DEFINE x == [NoItem EXCEPT !.on = TRUE, !.tex = "own"]
<1>1. x \in ItemType /\ x.on /\ ~x.gone /\ x.tex = "own"
  BY DEF NoItem, ItemType
<1>2. sc' \in UnlessHeld(WithItem(sc, s, "no", x))
  BY DEF PresentPixels, WithItem
<1> HIDE DEF x
<1>3. "no" \in Kinds
  BY DEF Kinds
<1> QED BY <1>1, <1>2, <1>3, PresentStep DEF PresentPixels

LEMMA PresentDmabufStep ==
  ASSUME SceneInv, NEW s \in Surfaces, NEW o \in BOOLEAN, NEW w \in BOOLEAN, PresentDmabuf(s, o, w)
  PROVE  SceneInv'
<1> DEFINE entry == IF sc.imports[s] = "no" \/ o THEN (IF w THEN "ok" ELSE "failed")
                    ELSE sc.imports[s]
           x == [NoItem EXCEPT !.on = TRUE, !.tex = IF entry = "ok" THEN "import" ELSE "none"]
<1>1. x \in ItemType /\ x.on /\ ~x.gone /\ (x.tex = "import" => entry = "ok")
  BY DEF NoItem, ItemType
<1>2. sc' \in UnlessHeld(WithItem(sc, s, entry, x))
  BY DEF PresentDmabuf, WithItem
<1>3. entry \in Kinds
  BY DEF Kinds, SceneInv, Sound, SceneType
<1> HIDE DEF x, entry
<1> QED BY <1>1, <1>2, <1>3, PresentStep DEF PresentDmabuf

LEMMA SceneResetStep == ASSUME SceneInv, SceneReset PROVE SceneInv'
<1> DEFINE item == [s \in Surfaces |-> IF sc.item[s].on THEN [sc.item[s] EXCEPT !.gone = TRUE]
                                       ELSE NoItem]
           d == [sc EXCEPT !.anim = "no", !.item = item]
<1>0. sc \in SceneType /\ fade \in BOOLEAN /\ \A s \in Surfaces : sc.item[s] \in ItemType
  BY DEF SceneInv, Sound, SceneType
<1>1. \A s \in Surfaces : /\ item[s] \in ItemType /\ (item[s].tex = "import" => sc.item[s].tex = "import")
                          /\ ~item[s].on => item[s] = NoItem
                          /\ item[s].on => item[s].gone
  BY <1>0 DEF ItemType, NoItem
<1>2. item \in [Surfaces -> ItemType]
  BY <1>1
<1>3. sc' \in IF d.hold THEN {d} ELSE Repaints(d)
  BY DEF SceneReset
<1> HIDE DEF item
<1>4. d \in SceneType /\ d.item = item /\ d.imports = sc.imports
  BY <1>0, <1>2 DEF SceneType, Anims
<1> HIDE DEF d
<1>5. Sound(d)
  BY <1>1, <1>4 DEF SceneInv, Sound, Drawable, OffIsEmpty, TreeGone
<1>6. Sound(sc') /\ Owing(sc')
  BY <1>0, <1>3, <1>5, BatchSound DEF Owing, Held
<1> QED BY <1>6 DEF SceneReset, SceneInv, Sound, Owing, Held, Drawable, OffIsEmpty, TreeGone

LEMMA SceneRestoredStep == ASSUME SceneInv, SceneRestored PROVE SceneInv'
<1> DEFINE back == IF Window \in shown THEN shown ELSE {}
           item == [s \in Surfaces |->
                     IF s \in back
                     THEN [NoItem EXCEPT !.on = TRUE,
                             !.tex = IF sc.imports[s] = "ok" THEN "import" ELSE "own"]
                     ELSE sc.item[s]]
           d == [sc EXCEPT !.item = item]
<1>0. /\ Sound(sc) /\ sc \in SceneType /\ fade \in BOOLEAN /\ Window \in Surfaces
      /\ \A s \in Surfaces : sc.item[s] \in ItemType
  BY DEF SceneInv, Sound, SceneType, Surfaces
<1>1. \A s \in Surfaces : /\ s \in back => /\ item[s] \in ItemType /\ item[s].on /\ ~item[s].gone
                                           /\ item[s].tex = "import" => sc.imports[s] = "ok"
                          /\ s \notin back => item[s] = sc.item[s]
  BY <1>0 DEF ItemType, NoItem
<1>2. item \in [Surfaces -> ItemType]
  BY <1>0, <1>1
<1>3. sc' \in UnlessHeld(d)
  BY DEF SceneRestored
<1> HIDE DEF item
<1>4. d \in SceneType /\ d.item = item /\ d.imports = sc.imports
  BY <1>0, <1>2 DEF SceneType
<1> HIDE DEF d
<1>5. Sound(d) /\ (d.item[Window].gone => Window \notin shown)
  <2>1. CASE Window \in shown
    BY <1>0, <1>1, <1>4, <2>1 DEF Sound, Drawable, OffIsEmpty, TreeGone
  <2>2. CASE Window \notin shown
    BY <1>0, <1>1, <1>4, <2>2 DEF Sound, Drawable, OffIsEmpty, TreeGone
  <2> QED BY <2>1, <2>2
<1>6. Sound(sc') /\ Owing(sc') /\ (sc'.item[Window].gone => Window \notin shown)
  BY <1>0, <1>3, <1>5, BatchSound
<1> QED BY <1>6 DEF SceneRestored, SceneInv, Sound, Owing, Held, Drawable, OffIsEmpty, TreeGone

\* Batches that change no item but the mark of what slides out.
LEMMA MarkedSound ==
  ASSUME SceneInv, NEW d, d \in SceneType, d.imports = sc.imports,
         \A s \in Surfaces : /\ d.item[s].on = sc.item[s].on /\ d.item[s].gone = sc.item[s].gone
                             /\ d.item[s].tex = sc.item[s].tex
                             /\ ~sc.item[s].on => d.item[s] = sc.item[s],
         sc' \in Repaints(d) \/ (sc' = d /\ Owing(d)),
         UNCHANGED <<shown, locked>>, fade' \in BOOLEAN
  PROVE  SceneInv'
<1>1. /\ Sound(sc) /\ fade \in BOOLEAN /\ Window \in Surfaces
      /\ \A s \in Surfaces : sc.item[s] \in ItemType
  BY DEF SceneInv, Sound, SceneType, Surfaces
<1>3. Sound(d) /\ d.item[Window].gone = sc.item[Window].gone
  BY <1>1 DEF Sound, Drawable, OffIsEmpty, TreeGone
<1>4. Sound(sc') /\ Owing(sc') /\ (sc'.item[Window].gone => sc.item[Window].gone)
  BY <1>1, <1>3, BatchSound
<1> QED BY <1>4 DEF SceneInv, Sound, Owing, Held, Drawable, OffIsEmpty, TreeGone

LEMMA SceneStep == SceneInv /\ [SceneNext]_sceneVars => SceneInv'
<1> SUFFICES ASSUME SceneInv, [SceneNext]_sceneVars PROVE SceneInv'
  OBVIOUS
<1>0. /\ sc \in SceneType /\ fade \in BOOLEAN /\ Owing(sc) /\ Sound(sc)
      /\ \A s \in Surfaces : sc.item[s] \in ItemType
  BY DEF SceneInv, Sound, SceneType
<1>1. ASSUME NEW s \in Surfaces, NEW p \in BOOLEAN, NEW u \in BOOLEAN, Withdraw(s, p, u) PROVE SceneInv'
  BY <1>1, WithdrawStep
<1>2. ASSUME NEW s \in Surfaces, PresentPixels(s) PROVE SceneInv'
  BY <1>2, PresentPixelsStep
<1>3. ASSUME NEW s \in Surfaces, NEW o \in BOOLEAN, NEW w \in BOOLEAN, PresentDmabuf(s, o, w) PROVE SceneInv'
  BY <1>3, PresentDmabufStep
<1>4. CASE TagTransition
  <2> DEFINE item == [s \in Surfaces |-> IF sc.item[s].on /\ sc.item[Window].on
                                         THEN [sc.item[s] EXCEPT !.out = TRUE] ELSE sc.item[s]]
  <2>1. sc' = [sc EXCEPT !.tag = "preparing", !.item = item]
    BY <1>4 DEF TagTransition
  <2>2. \A s \in Surfaces : /\ item[s].on = sc.item[s].on /\ item[s].gone = sc.item[s].gone
                            /\ item[s].tex = sc.item[s].tex
                            /\ ~sc.item[s].on => item[s] = sc.item[s]
    BY <1>0 DEF ItemType
  <2>3. item \in [Surfaces -> ItemType]
    BY <1>0 DEF ItemType
  <2> HIDE DEF item
  <2>4. sc' \in SceneType /\ sc'.imports = sc.imports /\ sc'.item = item /\ sc'.tag = "preparing"
    BY <1>0, <2>1, <2>3 DEF SceneType
  <2>5. Owing(sc')
    BY <2>4 DEF Owing, Held
  <2> QED BY <1>0, <1>4, <2>2, <2>4, <2>5, MarkedSound DEF TagTransition
<1>5. CASE TagReady
  <2> DEFINE d == [sc EXCEPT !.tag = "sliding"]
  <2>1. d \in SceneType /\ d.imports = sc.imports /\ d.item = sc.item
    BY <1>0 DEF SceneType
  <2>2. sc' \in Repaints(d)
    BY <1>5 DEF TagReady
  <2> HIDE DEF d
  <2> QED BY <1>0, <1>5, <2>1, <2>2, MarkedSound DEF TagReady
<1>6. ASSUME NEW b \in BOOLEAN, CameraFrame(b) PROVE SceneInv'
  <2> DEFINE d == [sc EXCEPT !.hold = b]
  <2>1. d \in SceneType /\ d.imports = sc.imports /\ d.item = sc.item /\ d.hold = b
    BY <1>0 DEF SceneType
  <2>2. sc' \in IF b THEN {d} ELSE Repaints(d)
    BY <1>6 DEF CameraFrame
  <2> HIDE DEF d
  <2>3. b => Owing(d)
    BY <2>1 DEF Owing, Held
  <2> QED BY <1>0, <1>6, <2>1, <2>2, <2>3, MarkedSound DEF CameraFrame
<1>7. CASE Elapse
  <2>1. PICK d : /\ sc' = d
                 /\ \/ d = [sc EXCEPT !.anim = "ended"]
                    \/ sc.tag = "sliding" /\ d = [sc EXCEPT !.tag = "over"]
    BY <1>7 DEF Elapse
  <2>2. /\ d \in SceneType /\ d.imports = sc.imports /\ d.item = sc.item /\ d.owed = sc.owed
        /\ d.hold = sc.hold /\ (sc.tag = "preparing" => d.tag = "preparing")
    BY <1>0, <2>1 DEF SceneType, Anims
  <2>3. Owing(d)
    BY <1>0, <2>2 DEF Owing, Held
  <2> QED BY <1>0, <1>7, <2>1, <2>2, <2>3, MarkedSound DEF Elapse
<1>8. CASE Frame
  <2>1. PICK b \in BOOLEAN : sc' = Painted(sc, b)
    BY <1>8 DEF Frame
  <2>2. Sound(sc') /\ Owing(sc') /\ (sc'.item[Window].gone => sc.item[Window].gone)
    BY <1>0, <2>1, PaintedSound
  <2> QED BY <1>8, <2>2 DEF Frame, SceneInv, Sound, Owing, Held, Drawable, OffIsEmpty, TreeGone
<1>9. CASE SetAnimations
  <2> DEFINE d == [sc EXCEPT !.anim = IF fade /\ @ \in {"closing", "ended"} THEN "no" ELSE @]
  <2>1. d \in SceneType /\ d.imports = sc.imports /\ d.item = sc.item
    BY <1>0 DEF SceneType, Anims
  <2>2. sc' \in Repaints(d)
    BY <1>9 DEF SetAnimations
  <2> HIDE DEF d
  <2> QED BY <1>0, <1>9, <2>1, <2>2, MarkedSound DEF SetAnimations
<1>10. CASE UNCHANGED sceneVars
  BY <1>10 DEF sceneVars, SceneInv, Sound, Owing, Held, Drawable, OffIsEmpty, TreeGone
<1> QED BY <1>1, <1>2, <1>3, <1>4, <1>5, <1>6, <1>7, <1>8, <1>9, <1>10, SceneResetStep,
           SceneRestoredStep DEF SceneNext

---------------------------------------------------------------------------
(* The nested backend. *)

NbType ==
  [tried : BOOLEAN, gpu : {"none", "gl", "shm"}, attached : BOOLEAN, flight : BOOLEAN,
   frame : BOOLEAN, owed : BOOLEAN, hold : BOOLEAN, cap : {"no", "pending", "ready"},
   anim : Anims, stale : BOOLEAN]
WinType == [on : BOOLEAN, tex : {"none", "upload", "import"}, upload : BOOLEAN, gone : BOOLEAN]
ParentType == [release : BOOLEAN, imports : Int, attach : BOOLEAN]
SeatType == [devices : SUBSET N!Devices, pressed : SUBSET N!Devices, axes : BOOLEAN]

\* What a handler leaves: the import is counted, there is something to draw
\* with or nothing attached, and only a renderer has imports.
Whole(n, w, p) ==
  /\ n \in NbType /\ w \in WinType /\ p \in ParentType
  /\ p.imports = (IF w.tex = "import" THEN 1 ELSE 0)
  /\ n.gpu # "none" => n.attached
  /\ w.tex = "import" => n.gpu = "gl"
Asked(n) == n.stale /\ n.gpu # "none" => n.hold \/ n.owed
Awaited(n) == n.stale /\ n.gpu # "none" => n.hold \/ (n.owed /\ (n.frame \/ n.flight))

NestedInv ==
  /\ link \in {"off", "on", "lost"} /\ Whole(nb, win, parent) /\ Awaited(nb)
  /\ seat \in SeatType /\ N!DevicesAccounted

LEMMA NestedInitially == N!NestedInit => NestedInv
BY DEF N!NestedInit, NestedInv, Whole, Awaited, NbType, WinType, ParentType, SeatType, Anims,
       N!Fresh, N!NoWin, N!NoSeat, N!DevicesAccounted, N!Devices

\* A redraw that cannot be made now is awaited, one that is made releases what it drops.
LEMMA RepaintsWhole ==
  ASSUME NEW n, NEW w, NEW p, Whole(n, w, p), Asked(n), N!Repaints(n, w, p)
  PROVE  Whole(nb', win', parent') /\ Awaited(nb')
<1> DEFINE anim == N!Advance(n, w)
           over == w.on /\ w.gone /\ anim = "no"
           v == IF over THEN N!NoWin ELSE w
           q == IF over /\ w.tex = "import" THEN [p EXCEPT !.imports = @ - 1] ELSE p
           tried == [n EXCEPT !.anim = anim, !.stale = FALSE]
           drawn == [tried EXCEPT !.frame = TRUE, !.cap = "pending",
                                  !.owed = anim = "closing"]
<1>0. n \in NbType /\ w \in WinType /\ p \in ParentType
  BY DEF Whole
<1>1. CASE N!Busy(n) /\ nb' = n /\ win' = w /\ parent' = p
  BY <1>0, <1>1 DEF N!Busy, Whole, Asked, Awaited, NbType
<1>2. CASE \/ nb' \in {tried, drawn, [tried EXCEPT !.frame = TRUE]} /\ win' = v /\ parent' = q
           \/ /\ nb' = [drawn EXCEPT !.flight = TRUE] /\ win' = v
              /\ parent' = [q EXCEPT !.attach = FALSE, !.release = @ \/ q.attach]
  <2>1. anim \in Anims
    BY <1>0 DEF N!Advance, Anims, NbType
  <2>2. /\ v \in WinType /\ q \in ParentType /\ q.imports = (IF v.tex = "import" THEN 1 ELSE 0)
        /\ v.tex = "import" => w.tex = "import"
    BY <1>0 DEF WinType, ParentType, N!NoWin, Whole
  <2> HIDE DEF anim, v, q
  <2>3. /\ tried \in NbType /\ ~tried.stale /\ tried.gpu = n.gpu /\ tried.attached = n.attached
    BY <1>0, <2>1 DEF NbType
  <2>4. drawn \in NbType /\ ~drawn.stale /\ drawn.gpu = n.gpu /\ drawn.attached = n.attached
    BY <2>3 DEF NbType
  <2> HIDE DEF tried, drawn
  <2>5. nb' \in NbType /\ ~nb'.stale /\ nb'.gpu = n.gpu /\ nb'.attached = n.attached /\ win' = v
    BY <1>2, <2>3, <2>4 DEF NbType
  <2>6. parent' \in ParentType /\ parent'.imports = q.imports
    BY <1>2, <2>2 DEF ParentType
  <2> QED BY <2>2, <2>5, <2>6 DEF Whole, Awaited
<1>3. \E r \in N!Repainted(n, w, p) : nb' = r[1] /\ win' = r[2] /\ parent' = r[3]
  BY DEF N!Repaints
<1> QED BY <1>1, <1>2, <1>3 DEF N!Repainted

\* The same when the redraw may be left to the end of a preparation.
LEMMA NestedInvFrom ==
  ASSUME NestedInv, Whole(nb', win', parent'), Awaited(nb'), UNCHANGED <<link, seat>>
  PROVE  NestedInv'
BY DEF NestedInv, Whole, Awaited, N!DevicesAccounted, SeatType, N!Devices

\* A change of the window, drawn now or when the preparation is over.
LEMMA ChangeStep ==
  ASSUME NestedInv, NEW n, NEW w, NEW p, n \in {N!Soiled, [N!Soiled EXCEPT !.anim = "no"]},
         Whole(n, w, p), UNCHANGED <<link, seat>>,
         (nb.hold /\ nb' = n /\ win' = w /\ parent' = p) \/ N!Repaints(n, w, p)
  PROVE  NestedInv'
<1>0. nb \in NbType
  BY DEF NestedInv, Whole
<1>1. /\ n \in NbType /\ n.owed /\ n.hold = nb.hold
  BY <1>0 DEF N!Soiled, NbType, Anims
<1>2. CASE nb.hold /\ nb' = n /\ win' = w /\ parent' = p
  <2>1. Whole(nb', win', parent') /\ Awaited(nb')
    BY <1>1, <1>2 DEF Awaited
  <2> QED BY <2>1, NestedInvFrom
<1>3. CASE N!Repaints(n, w, p)
  <2>1. Whole(nb', win', parent') /\ Awaited(nb')
    BY <1>1, <1>3, RepaintsWhole DEF Asked
  <2> QED BY <2>1, NestedInvFrom
<1> QED BY <1>2, <1>3

LEMMA SoiledWhole ==
  ASSUME NestedInv, NEW w \in WinType, NEW p \in ParentType,
         p.imports = (IF w.tex = "import" THEN 1 ELSE 0), w.tex = "import" => nb.gpu = "gl"
  PROVE  Whole(N!Soiled, w, p) /\ Whole([N!Soiled EXCEPT !.anim = "no"], w, p)
<1>1. nb \in NbType /\ (nb.gpu # "none" => nb.attached)
  BY DEF NestedInv, Whole
<1>2. /\ N!Soiled \in NbType /\ N!Soiled.gpu = nb.gpu /\ N!Soiled.attached = nb.attached
  BY <1>1 DEF N!Soiled, NbType
<1>3. LET n == [N!Soiled EXCEPT !.anim = "no"]
      IN  n \in NbType /\ n.gpu = nb.gpu /\ n.attached = nb.attached
  BY <1>1, <1>2 DEF NbType, Anims
<1> QED BY <1>1, <1>2, <1>3 DEF Whole

LEMMA ConfigureStep ==
  ASSUME NestedInv, NEW egl \in BOOLEAN, NEW attached \in BOOLEAN, N!Configure(egl, attached)
  PROVE  NestedInv'
<1> DEFINE n == [nb EXCEPT !.tried = TRUE]
           gl == [n EXCEPT !.gpu = "gl", !.attached = TRUE, !.owed = TRUE, !.stale = TRUE]
           shm == [n EXCEPT !.gpu = "shm", !.attached = TRUE, !.owed = TRUE, !.stale = TRUE]
<1>0. Whole(nb, win, parent) /\ Awaited(nb) /\ nb \in NbType /\ win \in WinType /\ parent \in ParentType
  BY DEF NestedInv, Whole
<1>1. UNCHANGED <<link, seat>>
  BY DEF N!Configure
<1>2. CASE ~nb.tried /\ N!Repaints(gl, win, parent)
  <2>1. gl \in NbType /\ gl.gpu = "gl" /\ gl.attached /\ gl.owed
    BY <1>0 DEF NbType
  <2> HIDE DEF gl
  <2>2. Whole(gl, win, parent) /\ Asked(gl)
    BY <1>0, <2>1 DEF Whole, Asked
  <2>3. Whole(nb', win', parent') /\ Awaited(nb')
    BY <1>2, <2>2, RepaintsWhole
  <2> QED BY <1>1, <2>3, NestedInvFrom
<1>3. CASE ~nb.attached /\ N!Repaints(shm, win, [parent EXCEPT !.attach = TRUE])
  <2>1. shm \in NbType /\ shm.gpu = "shm" /\ shm.attached /\ shm.owed
    BY <1>0 DEF NbType
  <2> HIDE DEF shm
  <2>2. win.tex # "import"
    BY <1>0, <1>3 DEF Whole
  <2>3. LET p == [parent EXCEPT !.attach = TRUE] IN p \in ParentType /\ p.imports = parent.imports
    BY <1>0 DEF ParentType
  <2>4. Whole(shm, win, [parent EXCEPT !.attach = TRUE]) /\ Asked(shm)
    BY <1>0, <2>1, <2>2, <2>3 DEF Whole, Asked
  <2>5. Whole(nb', win', parent') /\ Awaited(nb')
    BY <1>3, <2>4, RepaintsWhole
  <2> QED BY <1>1, <2>5, NestedInvFrom
<1>4. CASE ~nb.attached /\ nb' = [n EXCEPT !.owed = FALSE, !.cap = "no"] /\ win' = N!NoWin /\ parent' = parent
  <2>1. nb' \in NbType /\ nb'.gpu = nb.gpu /\ nb'.attached = nb.attached
    BY <1>0, <1>4 DEF NbType
  <2>2. nb.gpu = "none" /\ win.tex # "import"
    BY <1>0, <1>4 DEF Whole
  <2>3. win' \in WinType /\ win'.tex # "import"
    BY <1>4 DEF N!NoWin, WinType
  <2>4. Whole(nb', win', parent') /\ Awaited(nb')
    BY <1>0, <1>4, <2>1, <2>2, <2>3 DEF Whole, Awaited
  <2> QED BY <1>1, <2>4, NestedInvFrom
<1>5. CASE nb' = n /\ UNCHANGED <<win, parent>>
  <2>1. n \in NbType /\ n.gpu = nb.gpu /\ n.attached = nb.attached /\ n.stale = nb.stale
        /\ n.hold = nb.hold /\ n.owed = nb.owed /\ n.frame = nb.frame /\ n.flight = nb.flight
    BY <1>0 DEF NbType
  <2> HIDE DEF n
  <2>2. Whole(nb', win', parent') /\ Awaited(nb')
    BY <1>0, <1>5, <2>1 DEF Whole, Awaited
  <2> QED BY <1>1, <2>2, NestedInvFrom
<1> QED BY <1>2, <1>3, <1>4, <1>5 DEF N!Configure

LEMMA NestedStep == NestedInv /\ [N!NestedNext]_nestedState => NestedInv'
<1> SUFFICES ASSUME NestedInv, [N!NestedNext]_nestedState PROVE NestedInv'
  OBVIOUS
<1>0. /\ Whole(nb, win, parent) /\ Awaited(nb) /\ nb \in NbType /\ win \in WinType
      /\ parent \in ParentType /\ seat \in SeatType
      /\ parent.imports = (IF win.tex = "import" THEN 1 ELSE 0)
      /\ win.tex = "import" => nb.gpu = "gl"
  BY DEF NestedInv, Whole
<1> DEFINE released == [parent EXCEPT !.imports = @ - 1]
<1>1. /\ win.tex = "import" => released \in ParentType /\ released.imports = 0
      /\ win.tex # "import" => parent.imports = 0
  BY <1>0 DEF ParentType
<1> HIDE DEF released
<1>2. CASE N!Start \/ N!ParentGone
  BY <1>2 DEF N!Start, N!ParentGone, NestedInv, Whole, Awaited, N!DevicesAccounted
<1>3. CASE N!Stop
  BY <1>3 DEF N!Stop, NestedInv, Whole, Awaited, NbType, WinType, ParentType, SeatType, Anims,
       N!Fresh, N!NoWin, N!NoSeat, N!DevicesAccounted, N!Devices
<1>4. ASSUME NEW e \in BOOLEAN, NEW b \in BOOLEAN, N!Configure(e, b) PROVE NestedInv'
  BY <1>4, ConfigureStep
<1>5. CASE N!BufferRelease
  <2> DEFINE n == [nb EXCEPT !.flight = FALSE]
             p == [parent EXCEPT !.release = FALSE]
  <2>1. n \in NbType /\ n.gpu = nb.gpu /\ n.attached = nb.attached /\ n.stale = nb.stale
        /\ n.hold = nb.hold /\ n.owed = nb.owed
    BY <1>0 DEF NbType
  <2>2. p \in ParentType /\ p.imports = parent.imports
    BY <1>0 DEF ParentType
  <2>3. N!Repaints(n, win, p) /\ UNCHANGED <<link, seat>>
    BY <1>5 DEF N!BufferRelease
  <2> HIDE DEF n, p
  <2>4. Whole(n, win, p) /\ Asked(n)
    BY <1>0, <2>1, <2>2 DEF Whole, Asked, Awaited
  <2>5. Whole(nb', win', parent') /\ Awaited(nb')
    BY <2>3, <2>4, RepaintsWhole
  <2> QED BY <2>3, <2>5, NestedInvFrom
<1>6. CASE N!FrameDone
  <2> DEFINE n == [nb EXCEPT !.frame = FALSE, !.cap = IF @ = "pending" THEN "ready" ELSE @]
  <2>1. n \in NbType /\ n.gpu = nb.gpu /\ n.attached = nb.attached /\ n.stale = nb.stale
        /\ n.hold = nb.hold /\ n.owed = nb.owed
    BY <1>0 DEF NbType
  <2>2. /\ IF n.owed THEN N!Repaints(n, win, parent) ELSE nb' = n /\ UNCHANGED <<win, parent>>
        /\ UNCHANGED <<link, seat>>
    BY <1>6 DEF N!FrameDone
  <2> HIDE DEF n
  <2>3. Whole(n, win, parent) /\ Asked(n)
    BY <1>0, <2>1 DEF Whole, Asked, Awaited
  <2>4. Whole(nb', win', parent') /\ Awaited(nb')
    <3>1. CASE n.owed
      BY <2>2, <2>3, <3>1, RepaintsWhole
    <3>2. CASE ~n.owed
      BY <1>0, <2>1, <2>2, <2>3, <3>2 DEF Awaited
    <3> QED BY <3>1, <3>2
  <2> QED BY <2>2, <2>4, NestedInvFrom
<1>7. CASE N!PresentPixels
  <2> DEFINE w == [win EXCEPT !.on = TRUE, !.gone = FALSE, !.tex = "upload", !.upload = (nb.gpu = "gl")]
             p == IF win.tex = "import" THEN released ELSE parent
  <2>1. w \in WinType /\ w.tex # "import" /\ p \in ParentType /\ p.imports = 0
    BY <1>0, <1>1 DEF WinType
  <2>2. IF nb.hold THEN nb' = N!Soiled /\ win' = w /\ parent' = p ELSE N!Repaints(N!Soiled, w, p)
    BY <1>7 DEF N!PresentPixels, released
  <2> HIDE DEF w, p
  <2> QED BY <1>7, <2>1, <2>2, SoiledWhole, ChangeStep DEF N!PresentPixels
<1>8. ASSUME NEW works \in BOOLEAN, N!PresentDmabuf(works) PROVE NestedInv'
  <2> DEFINE w == [win EXCEPT !.on = TRUE, !.gone = FALSE, !.tex = IF works THEN "import" ELSE "none"]
             p == [parent EXCEPT !.imports =
                 @ - (IF win.tex = "import" THEN 1 ELSE 0) + (IF works THEN 1 ELSE 0)]
  <2>1. w \in WinType /\ (w.tex = "import" <=> works)
    BY <1>0 DEF WinType
  <2>2. p \in ParentType /\ p.imports = (IF works THEN 1 ELSE 0)
    BY <1>0 DEF ParentType
  <2>3. /\ IF nb.hold THEN nb' = N!Soiled /\ win' = w /\ parent' = p ELSE N!Repaints(N!Soiled, w, p)
        /\ nb.gpu = "gl"
    BY <1>8 DEF N!PresentDmabuf
  <2> HIDE DEF w, p
  <2> QED BY <1>8, <2>1, <2>2, <2>3, SoiledWhole, ChangeStep DEF N!PresentDmabuf
<1>9. ASSUME NEW unmapped \in BOOLEAN, NEW copied \in BOOLEAN, N!KeepContent(unmapped, copied)
      PROVE  NestedInv'
  <2> DEFINE closing == win.tex # "none" /\ unmapped
             copies == closing /\ nb.gpu = "gl" /\ ~win.upload /\ copied
             w == IF copies THEN [win EXCEPT !.gone = TRUE, !.tex = "upload", !.upload = TRUE]
                  ELSE [win EXCEPT !.on = TRUE, !.gone = closing]
             p == IF win.tex = "import" /\ copies THEN released ELSE parent
  <2>1. w \in WinType /\ w.tex = IF copies THEN "upload" ELSE win.tex
    BY <1>0 DEF WinType
  <2>2. p \in ParentType /\ p.imports = (IF w.tex = "import" THEN 1 ELSE 0)
    BY <1>0, <1>1, <2>1
  <2>3. IF nb.hold THEN nb' = [nb EXCEPT !.stale = TRUE] /\ win' = w /\ parent' = p
        ELSE N!Repaints(N!Soiled, w, p)
    BY <1>9 DEF N!KeepContent, released
  <2>4. w.tex = "import" => nb.gpu = "gl"
    BY <1>0, <2>1
  <2> HIDE DEF w, p, copies, closing
  <2>5. CASE nb.hold
    <3>1. /\ nb' \in NbType /\ nb'.hold /\ nb'.gpu = nb.gpu /\ nb'.attached = nb.attached
      BY <1>0, <2>3, <2>5 DEF NbType
    <3>2. Whole(nb', win', parent') /\ Awaited(nb')
      BY <1>0, <2>1, <2>2, <2>3, <2>4, <2>5, <3>1 DEF Whole, Awaited
    <3> QED BY <1>9, <3>2, NestedInvFrom DEF N!KeepContent
  <2> QED BY <1>9, <2>1, <2>2, <2>3, <2>4, <2>5, SoiledWhole, ChangeStep DEF N!KeepContent
<1>10. ASSUME NEW fade_ \in BOOLEAN, NEW copied \in BOOLEAN, N!PresentNothing(fade_, copied)
       PROVE  NestedInv'
  <2> DEFINE copies == nb.gpu = "gl" /\ win.tex # "none" /\ ~win.upload /\ copied
             w == IF ~fade_ THEN N!NoWin
                  ELSE IF copies THEN [win EXCEPT !.gone = TRUE, !.tex = "upload", !.upload = TRUE]
                  ELSE [win EXCEPT !.gone = TRUE]
             p == IF win.tex = "import" /\ (~fade_ \/ copies) THEN released ELSE parent
  <2>1. w \in WinType /\ w.tex = IF ~fade_ THEN "none" ELSE IF copies THEN "upload" ELSE win.tex
    BY <1>0 DEF WinType, N!NoWin
  <2>2. p \in ParentType /\ p.imports = (IF w.tex = "import" THEN 1 ELSE 0)
    BY <1>0, <1>1, <2>1
  <2>3. IF nb.hold THEN nb' = N!Soiled /\ win' = w /\ parent' = p ELSE N!Repaints(N!Soiled, w, p)
    BY <1>10 DEF N!PresentNothing, released
  <2>4. w.tex = "import" => nb.gpu = "gl"
    BY <1>0, <2>1
  <2> HIDE DEF w, p, copies
  <2> QED BY <1>10, <2>1, <2>2, <2>3, <2>4, SoiledWhole, ChangeStep DEF N!PresentNothing
<1>11. CASE N!SceneReset
  <2> DEFINE w == [win EXCEPT !.gone = TRUE]
             n == [N!Soiled EXCEPT !.anim = "no"]
  <2>1. w \in WinType /\ w.tex = win.tex
    BY <1>0 DEF WinType
  <2>2. IF nb.hold THEN nb' = n /\ win' = w /\ parent' = parent ELSE N!Repaints(n, w, parent)
    BY <1>11 DEF N!SceneReset
  <2> HIDE DEF w
  <2>3. Whole(n, w, parent)
    BY <1>0, <2>1, SoiledWhole
  <2> QED BY <1>11, <2>2, <2>3, ChangeStep DEF N!SceneReset
<1>12. CASE N!Prepare
  <2>1. nb' \in NbType /\ nb'.hold /\ nb'.gpu = nb.gpu /\ nb'.attached = nb.attached
    BY <1>0, <1>12 DEF N!Prepare, NbType
  <2>2. Whole(nb', win', parent') /\ Awaited(nb')
    BY <1>0, <1>12, <2>1 DEF N!Prepare, Whole, Awaited
  <2> QED BY <1>12, <2>2, NestedInvFrom DEF N!Prepare
<1>13. CASE N!Ready
  <2> DEFINE n == [N!Soiled EXCEPT !.hold = FALSE]
  <2>1. n \in NbType /\ n.owed /\ n.gpu = nb.gpu /\ n.attached = nb.attached
    BY <1>0 DEF N!Soiled, NbType
  <2>2. N!Repaints(n, win, parent)
    BY <1>13 DEF N!Ready
  <2> HIDE DEF n
  <2>3. Whole(n, win, parent) /\ Asked(n)
    BY <1>0, <2>1 DEF Whole, Asked
  <2>4. Whole(nb', win', parent') /\ Awaited(nb')
    BY <2>2, <2>3, RepaintsWhole
  <2> QED BY <1>13, <2>4, NestedInvFrom DEF N!Ready
<1>14. CASE N!Redraw
  BY <1>0, <1>14, SoiledWhole, ChangeStep DEF N!Redraw
<1>15. CASE N!Elapse
  <2>1. /\ nb' \in NbType /\ nb'.hold = nb.hold /\ nb'.gpu = nb.gpu /\ nb'.attached = nb.attached
        /\ nb'.stale = nb.stale /\ nb'.owed = nb.owed /\ nb'.frame = nb.frame /\ nb'.flight = nb.flight
    BY <1>0, <1>15 DEF N!Elapse, NbType, Anims
  <2>2. Whole(nb', win', parent') /\ Awaited(nb')
    BY <1>0, <1>15, <2>1 DEF N!Elapse, Whole, Awaited
  <2> QED BY <1>15, <2>2, NestedInvFrom DEF N!Elapse
<1>16. ASSUME seat' \in SeatType, N!DevicesAccounted', UNCHANGED <<link, nb, win, parent>>
       PROVE  NestedInv'
  BY <1>16 DEF NestedInv, Whole, Awaited
<1>17. ASSUME NEW c \in SUBSET N!Devices, N!Capabilities(c) PROVE NestedInv'
  <2>1. seat' \in SeatType /\ N!DevicesAccounted'
    BY <1>0, <1>17 DEF N!Capabilities, SeatType, N!DevicesAccounted, N!Devices, NestedInv
  <2> QED BY <1>16, <1>17, <2>1 DEF N!Capabilities
<1>18. ASSUME NEW d \in N!Devices, NEW b \in BOOLEAN, N!Press(d, b) PROVE NestedInv'
  <2>1. seat' \in SeatType /\ N!DevicesAccounted'
    BY <1>0, <1>18 DEF N!Press, SeatType, N!DevicesAccounted, N!Devices, NestedInv
  <2> QED BY <1>16, <1>18, <2>1 DEF N!Press
<1>19. CASE N!KeyboardLeave \/ N!Axis
  <2>1. seat' \in SeatType /\ N!DevicesAccounted'
    BY <1>0, <1>19 DEF N!KeyboardLeave, N!Axis, SeatType, N!DevicesAccounted, N!Devices, NestedInv
  <2> QED BY <1>16, <1>19, <2>1 DEF N!KeyboardLeave, N!Axis
<1>20. CASE UNCHANGED nestedState
  BY <1>20 DEF nestedState, NestedInv, Whole, Awaited, N!DevicesAccounted
<1> QED BY <1>2, <1>3, <1>4, <1>5, <1>6, <1>7, <1>8, <1>9, <1>10, <1>11, <1>12, <1>13, <1>14,
           <1>15, <1>17, <1>18, <1>19, <1>20 DEF N!NestedNext

---------------------------------------------------------------------------
(* The direct backend. *)

OutputType ==
  [st : {"free", "live", "retired"}, conn : Connectors \cup {0}, crtc : Crtcs \cup {0},
   mode : Modes \cup {0}, modeset : BOOLEAN, flip : BOOLEAN, due : BOOLEAN, hold : BOOLEAN,
   stale : BOOLEAN]
DevType == [active : BOOLEAN, open : BOOLEAN, obj : [Objects -> OutputType], flying : SUBSET Objects]

Used(d) == {i \in Objects : d.obj[i].st # "free"}

\* The kernel holds an event exactly for the outputs that wait for one.
EventsMeet(d) == \A i \in Objects : (i \in d.flying <=> d.obj[i].flip) /\ (d.obj[i].flip => i \in Used(d))
\* An output is retired only to wait for its last flip.
RetiredWait(d) == \A i \in Objects : d.obj[i].st = "retired" => d.obj[i].flip
\* A live output drives one of the CRTCs its connector can use.
Placed(d) ==
  \A i \in Live(d) : d.obj[i].conn \in Connectors /\ d.obj[i].crtc \in Possible[d.obj[i].conn]
Apart(d) ==
  \A i, j \in Used(d) :
    i # j => /\ d.obj[i].crtc # d.obj[j].crtc
             /\ i \in Live(d) /\ j \in Live(d) => d.obj[i].conn # d.obj[j].conn
CardInv(d) == d \in DevType /\ EventsMeet(d) /\ RetiredWait(d) /\ Placed(d) /\ Apart(d)

Drawn(o) == o.stale => o.hold \/ (o.due /\ o.flip)
AllDrawn(d) == d.active => \A i \in Live(d) : Drawn(d.obj[i])

LEMMA ConnectorsCrtcs ==
  /\ Connectors \subseteq Int /\ Crtcs \subseteq Int /\ 0 \notin Connectors /\ Unassigned \notin Crtcs
  /\ \A k \in Connectors : k > 0
  /\ \A k \in Connectors : Possible[k] \subseteq Crtcs
<1>1. Cardinality(Connectors) \in Nat /\ Cardinality(Crtcs) \in Nat
  BY KmsAssumption, FS_CardinalityType
<1>2. Connectors = 1 .. Cardinality(Connectors) /\ Crtcs = 0 .. Cardinality(Crtcs) - 1
  BY KmsAssumption
<1>3. \A k \in Connectors : Possible[k] \subseteq Crtcs
  BY KmsAssumption
<1> QED BY <1>1, <1>2, <1>3 DEF Unassigned

LEMMA FreeTyped == Free \in OutputType /\ Free.st = "free" /\ ~Free.flip
BY DEF Free, OutputType

\* A change of some outputs and of nothing else.
LEMMA ChangedFields ==
  ASSUME NEW d \in DevType, NEW change, DOMAIN change \subseteq Objects,
         \A i \in DOMAIN change : change[i] \in OutputType
  PROVE  /\ Changed(d, change) \in DevType
         /\ Changed(d, change).active = d.active /\ Changed(d, change).open = d.open
         /\ Changed(d, change).flying = d.flying
         /\ \A i \in Objects :
              Changed(d, change).obj[i] = IF i \in DOMAIN change THEN change[i] ELSE d.obj[i]
<1>1. [i \in Objects |-> IF i \in DOMAIN change THEN change[i] ELSE d.obj[i]] \in [Objects -> OutputType]
  BY DEF DevType
<1> QED BY <1>1 DEF Changed, DevType

\* What repaint() makes of an output, whatever fails.
LEMMA RepaintOutput ==
  ASSUME NEW o \in OutputType, NEW active \in BOOLEAN, NEW p \in Repaint(o, active)
  PROVE  /\ p \in OutputType
         /\ p.st = o.st /\ p.conn = o.conn /\ p.crtc = o.crtc /\ p.mode = o.mode
         /\ o.flip => p.flip
         /\ p.flip /\ ~o.flip => o.st = "live"
         /\ active /\ o.st = "live" => Drawn(p)
<1>1. CASE p = o /\ (~active \/ o.st # "live")
  BY <1>1
<1>2. CASE (o.hold \/ o.flip) /\ p = [o EXCEPT !.due = TRUE]
  BY <1>2 DEF OutputType, Drawn
<1>3. CASE /\ o.st = "live" /\ ~o.flip
           /\ p \in LET ready == IF o.modeset THEN Modeset(o) ELSE o
                    IN  {GivenUp(o)} \cup (IF o.modeset THEN {ready} ELSE {})
                          \cup PageFlip(ready, TRUE) \cup PageFlip(ready, FALSE)
  <2>1. CASE p = GivenUp(o)
    BY <1>3, <2>1 DEF GivenUp, OutputType, Drawn
  <2>2. CASE p = Modeset(o)
    BY <1>3, <2>2 DEF Modeset, OutputType, Drawn
  <2>3. ASSUME NEW r \in {o, Modeset(o)}, NEW b \in BOOLEAN, p \in PageFlip(r, b)
        PROVE  /\ p \in OutputType /\ p.st = o.st /\ p.conn = o.conn /\ p.crtc = o.crtc
               /\ p.mode = o.mode /\ Drawn(p)
    <3>1. r \in OutputType /\ r.st = o.st /\ r.conn = o.conn /\ r.crtc = o.crtc /\ r.mode = o.mode
      BY <2>3 DEF Modeset, OutputType
    <3> QED BY <2>3, <3>1 DEF PageFlip, OutputType, Drawn
  <2> QED BY <1>3, <2>1, <2>2, <2>3
<1> QED BY <1>1, <1>2, <1>3 DEF Repaint

\* The outputs of S are repainted: what is owed of them afterwards will be drawn.
LEMMA RepaintAllKeeps ==
  ASSUME NEW d, CardInv(d), NEW S \in SUBSET Objects, NEW e \in RepaintAll(d, S),
         \A i \in Live(d) \ S : d.active => Drawn(d.obj[i])
  PROVE  CardInv(e) /\ AllDrawn(e) /\ e.active = d.active /\ e.open = d.open
<1>1. PICK p \in [S -> UNION {Repaint(d.obj[i], d.active) : i \in S}] :
        /\ \A i \in S : p[i] \in Repaint(d.obj[i], d.active)
        /\ e = [Changed(d, p) EXCEPT !.flying = @ \cup {i \in S : p[i].flip /\ ~d.obj[i].flip}]
  BY DEF RepaintAll
<1>0. d \in DevType /\ d.active \in BOOLEAN /\ \A i \in Objects : d.obj[i] \in OutputType
  BY DEF CardInv, DevType
<1>2. ASSUME NEW i \in S
      PROVE  /\ p[i] \in OutputType
             /\ p[i].st = d.obj[i].st /\ p[i].conn = d.obj[i].conn /\ p[i].crtc = d.obj[i].crtc
             /\ d.obj[i].flip => p[i].flip
             /\ p[i].flip /\ ~d.obj[i].flip => d.obj[i].st = "live"
             /\ d.active /\ d.obj[i].st = "live" => Drawn(p[i])
  BY <1>0, <1>1, RepaintOutput
<1>3. DOMAIN p = S
  BY <1>1
<1>4. /\ Changed(d, p) \in DevType
      /\ Changed(d, p).active = d.active /\ Changed(d, p).open = d.open
      /\ Changed(d, p).flying = d.flying
      /\ \A i \in Objects : Changed(d, p).obj[i] = IF i \in S THEN p[i] ELSE d.obj[i]
  BY <1>0, <1>2, <1>3, ChangedFields
<1>5. /\ e \in DevType /\ e.active = d.active /\ e.open = d.open
      /\ e.flying = d.flying \cup {i \in S : p[i].flip /\ ~d.obj[i].flip}
      /\ \A i \in Objects : e.obj[i] = IF i \in S THEN p[i] ELSE d.obj[i]
  BY <1>1, <1>4 DEF DevType
<1>6. \A i \in Objects : /\ e.obj[i].st = d.obj[i].st /\ e.obj[i].conn = d.obj[i].conn
                         /\ e.obj[i].crtc = d.obj[i].crtc
  BY <1>2, <1>5
<1>7. Live(e) = Live(d) /\ Used(e) = Used(d)
  BY <1>6 DEF Live, Used
<1>8. EventsMeet(e)
  BY <1>2, <1>5, <1>7 DEF CardInv, EventsMeet, Used
<1>9. RetiredWait(e)
  BY <1>2, <1>5, <1>6 DEF CardInv, RetiredWait
<1>10. Placed(e) /\ Apart(e)
  BY <1>6, <1>7 DEF CardInv, Placed, Apart, Live, Used
<1>11. AllDrawn(e)
  BY <1>2, <1>5, <1>7 DEF AllDrawn, Live
<1> QED BY <1>5, <1>8, <1>9, <1>10, <1>11 DEF CardInv

\* Marks on outputs change nothing of what they are and wait for.
LEMMA MarkedKeeps ==
  ASSUME NEW d, CardInv(d), NEW change, DOMAIN change \subseteq Objects,
         \A i \in DOMAIN change :
            /\ change[i] \in OutputType
            /\ change[i].st = d.obj[i].st /\ change[i].conn = d.obj[i].conn
            /\ change[i].crtc = d.obj[i].crtc /\ change[i].flip = d.obj[i].flip
  PROVE  /\ CardInv(Changed(d, change)) /\ Live(Changed(d, change)) = Live(d)
         /\ Changed(d, change).active = d.active
         /\ \A i \in Objects :
              Changed(d, change).obj[i] = IF i \in DOMAIN change THEN change[i] ELSE d.obj[i]
<1> DEFINE e == Changed(d, change)
<1>0. d \in DevType
  BY DEF CardInv
<1>1. /\ e \in DevType /\ e.active = d.active /\ e.flying = d.flying
      /\ \A i \in Objects : e.obj[i] = IF i \in DOMAIN change THEN change[i] ELSE d.obj[i]
  BY <1>0, ChangedFields
<1> HIDE DEF e
<1>2. \A i \in Objects : /\ e.obj[i].st = d.obj[i].st /\ e.obj[i].conn = d.obj[i].conn
                         /\ e.obj[i].crtc = d.obj[i].crtc /\ e.obj[i].flip = d.obj[i].flip
  BY <1>1
<1>3. Live(e) = Live(d) /\ Used(e) = Used(d)
  BY <1>2 DEF Live, Used
<1>4. EventsMeet(e) /\ RetiredWait(e) /\ Placed(e) /\ Apart(e)
  BY <1>1, <1>2, <1>3 DEF CardInv, EventsMeet, RetiredWait, Placed, Apart, Live, Used
<1> QED BY <1>1, <1>3, <1>4 DEF CardInv, e

---------------------------------------------------------------------------
(* A rescan. *)

\* The assignments a rescan may choose from.
Choosable(d) ==
  Assignments(Crtcs, [k \in Usable |-> Possible[k]], Kept(d, BusyCrtcs(d)), BusyCrtcs(d))

\* No connector is given a CRTC on which a flip of a leaving output is outstanding.
LEMMA ChoiceFacts ==
  ASSUME NEW d, CardInv(d), NEW m \in Choosable(d)
  PROVE  /\ m \in [Usable -> Crtcs \cup {Unassigned}]
         /\ \A k \in Usable : m[k] # Unassigned => m[k] \in Possible[k] /\ m[k] \notin BusyCrtcs(d)
         /\ \A k, l \in Usable : k # l /\ m[k] # Unassigned => m[k] # m[l]
         /\ \A k \in Usable : Kept(d, BusyCrtcs(d))[k] # Unassigned => m[k] = Kept(d, BusyCrtcs(d))[k]
<1> DEFINE kept == Kept(d, BusyCrtcs(d))
<1>1. /\ m \in [Usable -> Crtcs \cup {Unassigned}]
      /\ \A k \in Usable : /\ kept[k] # Unassigned => m[k] = kept[k]
                           /\ m[k] # Unassigned => m[k] \in Possible[k]
                           /\ kept[k] = Unassigned => m[k] \notin BusyCrtcs(d)
      /\ \A k, l \in Usable : k # l /\ m[k] # Unassigned => m[k] # m[l]
  BY DEF Choosable, Assignments
<1>2. \A k \in Usable : kept[k] # Unassigned => kept[k] \notin BusyCrtcs(d)
  BY DEF Kept
<1> HIDE DEF kept
<1> QED BY <1>1, <1>2 DEF kept

\* An output that still matches its monitor stays.
LEMMA MatchingStay ==
  ASSUME NEW d, CardInv(d), NEW m \in Choosable(d), NEW i \in Live(d), Matches(d.obj[i])
  PROVE  i \in Staying(d, m)
<1> DEFINE k == d.obj[i].conn
           taken == BusyCrtcs(d)
           same == {j \in Live(d) : /\ d.obj[j].conn = k /\ Matches(d.obj[j])
                                    /\ d.obj[j].crtc \in Possible[k] \ taken}
<1>0. /\ k \in Usable /\ i \in Used(d) /\ d.obj[i].crtc \in Possible[k] /\ k \in Connectors
      /\ \A j \in Live(d) : j \in Used(d)
  BY DEF Matches, Live, Used, CardInv, Placed
<1>1. d.obj[i].crtc \notin taken
  BY <1>0 DEF BusyCrtcs, CardInv, Apart, Live, Retired, Used
<1>2. same = {i}
  BY <1>0, <1>1 DEF CardInv, Apart
<1>3. Kept(d, taken)[k] = IF same = {} THEN Unassigned ELSE d.obj[CHOOSE j \in same : TRUE].crtc
  BY <1>0 DEF Kept
<1>4. (CHOOSE j \in same : TRUE) = i
  BY <1>2
<1> HIDE DEF same
<1>5. Kept(d, taken)[k] = d.obj[i].crtc
  BY <1>2, <1>3, <1>4
<1>6. d.obj[i].crtc # Unassigned
  BY <1>0, ConnectorsCrtcs
<1> QED BY <1>0, <1>5, <1>6, ChoiceFacts DEF Staying

\* Whatever is closed or retired, the CRTCs of the retired outputs are busy.
LEMMA LeftKeeps ==
  ASSUME NEW d, CardInv(d), NEW m \in Choosable(d)
  PROVE  /\ CardInv(Left(d, m)) /\ Left(d, m).active = d.active
         /\ Live(Left(d, m)) = Staying(d, m)
         /\ \A i \in Staying(d, m) : Left(d, m).obj[i] = d.obj[i]
         /\ \A i \in Retired(Left(d, m)) : Left(d, m).obj[i].crtc \in BusyCrtcs(d)
<1> DEFINE e == Left(d, m)
           go == Live(d) \ Staying(d, m)
           change == [i \in go |-> IF d.obj[i].flip THEN [d.obj[i] EXCEPT !.st = "retired"] ELSE Free]
<1>0. /\ d \in DevType /\ (\A i \in Objects : d.obj[i] \in OutputType)
      /\ go \subseteq Objects /\ Staying(d, m) \subseteq Live(d)
  BY DEF CardInv, DevType, Live, Staying
<1>1. \A i \in go : /\ change[i] \in OutputType
                    /\ d.obj[i].flip => /\ change[i].st = "retired" /\ change[i].flip
                                        /\ change[i].crtc = d.obj[i].crtc
                    /\ ~d.obj[i].flip => change[i] = Free
  BY <1>0, FreeTyped DEF OutputType
<1>2. DOMAIN change = go /\ e = Changed(d, change)
  BY DEF Left
<1> HIDE DEF change, e
<1>3. /\ e \in DevType /\ e.active = d.active /\ e.flying = d.flying
      /\ \A i \in Objects : e.obj[i] = IF i \in go THEN change[i] ELSE d.obj[i]
  BY <1>0, <1>1, <1>2, ChangedFields
<1>4. \A i \in go : ~Matches(d.obj[i])
  BY MatchingStay
<1>5. \A i \in Objects : \/ i \notin go /\ e.obj[i] = d.obj[i]
                         \/ /\ i \in go /\ d.obj[i].flip
                            /\ e.obj[i].st = "retired" /\ e.obj[i].flip /\ e.obj[i].crtc = d.obj[i].crtc
                         \/ i \in go /\ ~d.obj[i].flip /\ e.obj[i] = Free
  BY <1>0, <1>1, <1>3
<1> HIDE DEF go
<1>6. Live(e) = Staying(d, m)
  BY <1>0, <1>5, FreeTyped DEF Live, go
<1>7. Retired(e) = Retired(d) \cup {i \in go : d.obj[i].flip}
  BY <1>0, <1>5, FreeTyped DEF Retired, Live, go
<1>8. EventsMeet(e) /\ RetiredWait(e)
  BY <1>3, <1>5, FreeTyped DEF CardInv, EventsMeet, RetiredWait, Used
<1>9. Placed(e)
  BY <1>0, <1>5, <1>6 DEF CardInv, Placed, Live, go
<1>10. Apart(e)
  <2>1. \A i \in Used(e) : i \in Used(d) /\ e.obj[i].crtc = d.obj[i].crtc
    BY <1>0, <1>5, FreeTyped DEF Used, go, Live
  <2>2. \A i \in Live(e) : i \in Live(d) /\ e.obj[i] = d.obj[i]
    BY <1>0, <1>5, <1>6 DEF go, Live
  <2> QED BY <2>1, <2>2 DEF CardInv, Apart
<1>11. \A i \in Retired(e) : e.obj[i].crtc \in BusyCrtcs(d)
  <2>1. \A i \in Retired(d) : i \notin go /\ d.obj[i].flip /\ i \in Objects
    BY DEF CardInv, RetiredWait, Retired, Live, go
  <2>2. \A i \in Retired(e) : e.obj[i].crtc = d.obj[i].crtc
    BY <1>0, <1>5, <1>7, <2>1
  <2>3. \A i \in Retired(e) : i \in {j \in Retired(d) : d.obj[j].flip}
                                  \cup {j \in Live(d) : d.obj[j].flip /\ ~Matches(d.obj[j])}
    BY <1>4, <1>7, <2>1 DEF go
  <2> QED BY <2>2, <2>3 DEF BusyCrtcs
<1>12. \A i \in Staying(d, m) : e.obj[i] = d.obj[i]
  BY <1>0, <1>5 DEF go, Live
<1> QED BY <1>3, <1>6, <1>8, <1>9, <1>10, <1>11, <1>12 DEF CardInv, e

\* New outputs get CRTCs that nobody drives, and connectors that have no output.
LEMMA RebuiltKeeps ==
  ASSUME NEW d, CardInv(d), monitor \in [Connectors -> Modes \cup {0}],
         NEW m \in Choosable(d), NEW e \in Rebuilt(d, m)
  PROVE  CardInv(e) /\ e.active = d.active
<1> DEFINE l == Left(d, m)
           new == {k \in Usable : m[k] # Unassigned /\ ~\E i \in Staying(d, m) : d.obj[i].conn = k}
           free == {i \in Objects : l.obj[i].st = "free"}
<1>1. PICK at \in Placements(free, new) :
        e = Changed(l, [i \in {j \in free : at[j] # 0} |-> NewOutput(at[i], m[at[i]])])
  BY DEF Rebuilt
<1> DEFINE made == {j \in free : at[j] # 0}
           change == [i \in made |-> NewOutput(at[i], m[at[i]])]
<1>2. /\ CardInv(l) /\ l.active = d.active /\ Live(l) = Staying(d, m)
      /\ \A i \in Staying(d, m) : l.obj[i] = d.obj[i]
      /\ \A i \in Retired(l) : l.obj[i].crtc \in BusyCrtcs(d)
      /\ l \in DevType
  BY LeftKeeps DEF CardInv
<1> HIDE DEF l
<1>3. /\ m \in [Usable -> Crtcs \cup {Unassigned}]
      /\ \A k \in Usable : m[k] # Unassigned => m[k] \in Possible[k] /\ m[k] \notin BusyCrtcs(d)
      /\ \A k, j \in Usable : k # j /\ m[k] # Unassigned => m[k] # m[j]
  BY ChoiceFacts
<1>4. \A i \in made : at[i] \in new /\ at[i] \in Usable /\ at[i] \in Connectors
  BY DEF Placements, Usable
<1>5. \A i, j \in made : i # j => at[i] # at[j]
  <2>1. \A i \in made : i \in Int /\ at[i] \in Int /\ at[i] # 0
    <3>1. \A i \in made : i \in Objects /\ at[i] \in Connectors
      BY <1>4
    <3>2. Objects \subseteq Nat
      BY KmsAssumption
    <3>3. \A k \in Connectors : k \in Int /\ k # 0
      BY ConnectorsCrtcs
    <3>4. \A j \in Objects : j \in Int
      BY <3>2
    <3> HIDE DEF made
    <3> QED BY <3>1, <3>3, <3>4
  <2>2. \A i, j \in made : i < j => at[i] \in 1 .. at[j] - 1
    BY DEF Placements
  <2>3. \A i, j \in made : i < j => at[i] < at[j]
    BY <2>1, <2>2
  <2> QED BY <2>1, <2>3
<1>6. ASSUME NEW i \in made
      PROVE  /\ change[i] \in OutputType /\ change[i].st = "live" /\ ~change[i].flip
             /\ change[i].conn = at[i] /\ change[i].crtc = m[at[i]]
             /\ change[i].conn \in Connectors /\ change[i].crtc \in Possible[at[i]]
             /\ l.obj[i].st = "free" /\ i \in Objects
  <2>1. at[i] \in Connectors /\ m[at[i]] \in Possible[at[i]] /\ m[at[i]] \in Crtcs
        /\ monitor[at[i]] \in Modes \cup {0}
    BY <1>3, <1>4, ConnectorsCrtcs
  <2>2. change[i] = NewOutput(at[i], m[at[i]])
    OBVIOUS
  <2>3. LET o == NewOutput(at[i], m[at[i]])
        IN  /\ o \in OutputType /\ o.st = "live" /\ ~o.flip /\ o.conn = at[i] /\ o.crtc = m[at[i]]
    BY <2>1, FreeTyped DEF NewOutput, OutputType, Free
  <2> QED BY <2>1, <2>2, <2>3
<1>7. DOMAIN change = made /\ made \subseteq Objects
  OBVIOUS
<1>8. /\ e \in DevType /\ e.active = l.active /\ e.flying = l.flying
      /\ \A i \in Objects : e.obj[i] = IF i \in made THEN change[i] ELSE l.obj[i]
  <2>1. e = Changed(l, change) /\ l \in DevType
    BY <1>1, <1>2
  <2>2. DOMAIN change \subseteq Objects /\ \A i \in DOMAIN change : change[i] \in OutputType
    BY <1>6, <1>7
  <2> HIDE DEF change, made
  <2>3. /\ Changed(l, change) \in DevType
        /\ Changed(l, change).active = l.active
        /\ Changed(l, change).flying = l.flying
        /\ \A i \in Objects :
              Changed(l, change).obj[i] = IF i \in DOMAIN change THEN change[i] ELSE l.obj[i]
    BY <2>1, <2>2, ChangedFields
  <2> QED BY <1>7, <2>1, <2>3
<1> HIDE DEF change
<1>9. ASSUME NEW i \in Used(e), i \notin made
      PROVE  /\ i \in Used(l) /\ e.obj[i] = l.obj[i]
             /\ \A j \in made : /\ m[at[j]] # l.obj[i].crtc
                                /\ i \in Live(l) => at[j] # l.obj[i].conn
  <2>1. i \in Used(l) /\ e.obj[i] = l.obj[i] /\ i \in Objects
    BY <1>8, <1>9 DEF Used
  <2>2. CASE i \in Live(l)
    <3>1. i \in Staying(d, m) /\ l.obj[i] = d.obj[i] /\ d.obj[i].conn \in Usable
          /\ d.obj[i].crtc = m[d.obj[i].conn]
      BY <1>2, <2>2 DEF Staying, Matches
    <3>2. ASSUME NEW j \in made PROVE at[j] # d.obj[i].conn /\ m[at[j]] # Unassigned /\ at[j] \in Usable
      BY <1>4, <3>1
    <3> QED BY <1>3, <2>1, <3>1, <3>2
  <2>3. CASE i \notin Live(l)
    <3>1. i \in Retired(l)
      BY <1>2, <2>1, <2>3 DEF Used, Live, Retired, DevType, OutputType
    <3> QED BY <1>2, <1>3, <1>4, <2>1, <2>3, <3>1
  <2> QED BY <2>2, <2>3
<1>10. \A i \in Objects : e.obj[i].st = "live" <=> i \in made \/ i \in Live(l)
  BY <1>6, <1>8 DEF Live
<1>11. EventsMeet(e)
  BY <1>2, <1>6, <1>8 DEF CardInv, EventsMeet, Used
<1>12. RetiredWait(e)
  BY <1>2, <1>6, <1>8 DEF CardInv, RetiredWait
<1>13. Placed(e)
  BY <1>2, <1>6, <1>8, <1>10 DEF CardInv, Placed, Live
<1>14. Apart(e)
  <2> SUFFICES ASSUME NEW i \in Used(e), NEW j \in Used(e), i # j
               PROVE  /\ e.obj[i].crtc # e.obj[j].crtc
                      /\ i \in Live(e) /\ j \in Live(e) => e.obj[i].conn # e.obj[j].conn
    BY DEF Apart
  <2>0. i \in Objects /\ j \in Objects
    BY DEF Used
  <2>1. CASE i \in made /\ j \in made
    <3>1. at[i] # at[j] /\ m[at[i]] # m[at[j]]
      BY <1>3, <1>4, <1>5, <2>1
    <3> QED BY <1>6, <1>8, <2>0, <2>1, <3>1
  <2>2. CASE i \in made /\ j \notin made
    BY <1>6, <1>8, <1>9, <1>10, <2>0, <2>2 DEF Live
  <2>3. CASE i \notin made /\ j \in made
    BY <1>6, <1>8, <1>9, <1>10, <2>0, <2>3 DEF Live
  <2>4. CASE i \notin made /\ j \notin made
    BY <1>2, <1>9, <1>10, <2>0, <2>4 DEF CardInv, Apart, Live
  <2> QED BY <2>1, <2>2, <2>3, <2>4
<1> QED BY <1>2, <1>8, <1>11, <1>12, <1>13, <1>14 DEF CardInv

LEMMA RescanKeeps ==
  ASSUME NEW d, CardInv(d), monitor \in [Connectors -> Modes \cup {0}],
         NEW e \in RescanAndRepaint(d)
  PROVE  CardInv(e) /\ AllDrawn(e) /\ e.active = d.active
<1>1. PICK w \in Rescan(d) : e \in RepaintAll(w, Live(w))
  BY DEF RescanAndRepaint
<1>2. CardInv(w) /\ w.active = d.active
  <2>1. CASE w = d
    BY <2>1
  <2>2. CASE \E m \in Choosable(d) : w \in Rebuilt(d, m)
    BY <2>2, RebuiltKeeps
  <2>3. Maximum(Crtcs, [k \in Usable |-> Possible[k]], Kept(d, BusyCrtcs(d)), BusyCrtcs(d))
          \subseteq Choosable(d)
    BY DEF Maximum, Choosable
  <2> QED BY <1>1, <2>1, <2>2, <2>3 DEF Rescan
<1>3. Live(w) \in SUBSET Objects
  BY DEF Live
<1>4. CardInv(e) /\ AllDrawn(e) /\ e.active = w.active /\ e.open = w.open
  BY <1>1, <1>2, <1>3, RepaintAllKeeps
<1> QED BY <1>2, <1>4

---------------------------------------------------------------------------
(* The handlers of the direct backend. *)

KmsInv ==
  /\ monitor \in [Connectors -> Modes \cup {0}] /\ card \in BOOLEAN
  /\ udev \in Seq({"add", "remove", "change"}) /\ Len(udev) <= MaxUdev
  /\ CardInv(dev) /\ AllDrawn(dev)

LEMMA ClosedKeeps ==
  ASSUME NEW e \in DevType, e.flying = {}, \A i \in Objects : e.obj[i] = Free
  PROVE  CardInv(e) /\ AllDrawn(e)
<1>2. Live(e) = {} /\ Used(e) = {}
  BY FreeTyped DEF Live, Used
<1>3. EventsMeet(e) /\ RetiredWait(e)
  BY FreeTyped DEF EventsMeet, RetiredWait
<1> QED BY <1>2, <1>3 DEF CardInv, AllDrawn, Placed, Apart

LEMMA ClosedTyped ==
  ASSUME NEW b \in BOOLEAN, NEW e \in {Closed, [Closed EXCEPT !.active = b]}
  PROVE  CardInv(e) /\ AllDrawn(e)
<1>1. e \in DevType /\ e.flying = {} /\ \A i \in Objects : e.obj[i] = Free
  <2>1. [i \in Objects |-> Free] \in [Objects -> OutputType]
    BY FreeTyped
  <2>2. /\ Closed \in DevType /\ Closed.flying = {} /\ Closed.obj = [i \in Objects |-> Free]
    BY <2>1 DEF Closed, DevType
  <2>3. /\ e \in DevType /\ e.flying = {} /\ e.obj = [i \in Objects |-> Free]
    BY <2>2 DEF DevType
  <2> QED BY <2>3
<1> QED BY <1>1, ClosedKeeps

LEMMA KmsInitially == Init => KmsInv
<1> SUFFICES ASSUME Init PROVE KmsInv
  OBVIOUS
<1>2. CardInv(Closed) /\ AllDrawn(Closed)
  BY ClosedTyped
<1> QED BY <1>2, KmsAssumption DEF Init, KmsInv

\* Outputs are marked and repainted.
LEMMA MarkAndRepaint ==
  ASSUME NEW d, CardInv(d), AllDrawn(d), NEW S, S \subseteq Live(d), NEW change, DOMAIN change = S,
         \A i \in S :
            /\ change[i] \in OutputType
            /\ change[i].st = d.obj[i].st /\ change[i].conn = d.obj[i].conn
            /\ change[i].crtc = d.obj[i].crtc /\ change[i].flip = d.obj[i].flip,
         NEW e \in RepaintAll(Changed(d, change), S)
  PROVE  CardInv(e) /\ AllDrawn(e) /\ e.active = d.active
<1> DEFINE w == Changed(d, change)
<1>1. S \in SUBSET Objects
  BY DEF Live
<1>2. /\ CardInv(w) /\ Live(w) = Live(d) /\ w.active = d.active
      /\ \A i \in Objects : w.obj[i] = IF i \in S THEN change[i] ELSE d.obj[i]
  BY <1>1, MarkedKeeps
<1> HIDE DEF w
<1>3. \A i \in Live(w) \ S : w.active => Drawn(w.obj[i])
  BY <1>2 DEF AllDrawn, Live
<1>4. CardInv(e) /\ AllDrawn(e) /\ e.active = w.active
  BY <1>1, <1>2, <1>3, RepaintAllKeeps DEF w
<1> QED BY <1>2, <1>4

LEMMA AddDeviceKeeps ==
  ASSUME NEW d, CardInv(d), AllDrawn(d), monitor \in [Connectors -> Modes \cup {0}],
         NEW e \in AddDevice(d)
  PROVE  CardInv(e) /\ AllDrawn(e) /\ e.active = d.active
<1> DEFINE w == [d EXCEPT !.open = TRUE]
<1>1. CASE e = d
  BY <1>1
<1>2. CASE e \in RescanAndRepaint(w)
  <2>1. w \in DevType /\ w.obj = d.obj /\ w.flying = d.flying /\ w.active = d.active
    BY DEF CardInv, DevType
  <2> HIDE DEF w
  <2>2. Live(w) = Live(d) /\ Used(w) = Used(d)
    BY <2>1 DEF Live, Used
  <2>3. CardInv(w)
    BY <2>1, <2>2 DEF CardInv, EventsMeet, RetiredWait, Placed, Apart
  <2> QED BY <1>2, <2>1, <2>3, RescanKeeps
<1> QED BY <1>1, <1>2 DEF AddDevice

\* The end of a flip: the event is used up, a retired output goes with it.
LEMMA FlippedKeeps ==
  ASSUME NEW d, CardInv(d), AllDrawn(d), monitor \in [Connectors -> Modes \cup {0}],
         NEW i \in d.flying, NEW e \in Flipped([d EXCEPT !.flying = @ \ {i}], i)
  PROVE  CardInv(e) /\ AllDrawn(e) /\ e.active = d.active
<1> DEFINE o == d.obj[i]
           c == [d EXCEPT !.flying = @ \ {i}]
           flipped == [c EXCEPT !.obj[i].flip = FALSE]
<1>0. /\ d \in DevType /\ i \in Objects /\ o.flip /\ i \in Used(d) /\ o \in OutputType
      /\ \A j \in Objects : d.obj[j] \in OutputType
  BY DEF CardInv, DevType, EventsMeet
<1>1. /\ c \in DevType /\ c.obj = d.obj /\ c.flying = d.flying \ {i} /\ c.active = d.active
  BY <1>0 DEF DevType
<1> HIDE DEF c
<1> DEFINE ended == [o EXCEPT !.flip = FALSE]
           objs == [d.obj EXCEPT ![i] = ended]
<1>a. /\ ended \in OutputType /\ ended.st = o.st /\ ended.conn = o.conn
      /\ ended.crtc = o.crtc /\ ~ended.flip
      /\ ended.due = o.due /\ ended.hold = o.hold /\ ended.stale = o.stale
  BY <1>0 DEF OutputType
<1>b. flipped = [c EXCEPT !.obj = objs]
  BY <1>0, <1>1 DEF DevType
<1> HIDE DEF ended, flipped
<1>c. /\ objs \in [Objects -> OutputType] /\ objs[i] = ended
      /\ \A j \in Objects : j # i => objs[j] = d.obj[j]
  BY <1>0, <1>a DEF DevType
<1> HIDE DEF objs
<1>2. /\ flipped \in DevType /\ flipped.flying = d.flying \ {i} /\ flipped.active = d.active
      /\ flipped.obj = objs
  BY <1>1, <1>b, <1>c DEF DevType
<1>3. /\ flipped.obj[i] \in OutputType /\ flipped.obj[i].st = o.st /\ flipped.obj[i].conn = o.conn
      /\ flipped.obj[i].crtc = o.crtc /\ ~flipped.obj[i].flip
      /\ flipped.obj[i].due = o.due /\ flipped.obj[i].hold = o.hold /\ flipped.obj[i].stale = o.stale
      /\ \A j \in Objects : j # i => flipped.obj[j] = d.obj[j]
  BY <1>2, <1>a, <1>c
<1>4. e \in IF o.st = "retired" THEN RescanAndRepaint(Close(flipped, i))
            ELSE IF o.due THEN RepaintAll(flipped, {i}) ELSE {flipped}
  BY <1>0, <1>1 DEF Flipped, c, flipped
<1>5. \A j \in Objects : /\ flipped.obj[j].st = d.obj[j].st /\ flipped.obj[j].conn = d.obj[j].conn
                         /\ flipped.obj[j].crtc = d.obj[j].crtc
  BY <1>3
<1>6. Live(flipped) = Live(d) /\ Used(flipped) = Used(d)
  BY <1>5 DEF Live, Used
<1>7. EventsMeet(flipped) /\ Placed(flipped) /\ Apart(flipped)
      /\ \A j \in Objects : j # i /\ flipped.obj[j].st = "retired" => flipped.obj[j].flip
  BY <1>2, <1>3, <1>5, <1>6 DEF CardInv, EventsMeet, RetiredWait, Placed, Apart, Live, Used
<1>8. CASE o.st = "retired"
  <2> DEFINE w == Close(flipped, i)
             change == [j \in {i} |-> Free]
  <2>1. w = Changed(flipped, change) /\ DOMAIN change = {i} /\ change[i] = Free
    BY DEF Close
  <2> HIDE DEF w, change
  <2>2. /\ w \in DevType /\ w.active = d.active /\ w.flying = d.flying \ {i}
        /\ \A j \in Objects : w.obj[j] = IF j = i THEN Free ELSE flipped.obj[j]
    <3>1. DOMAIN change \subseteq Objects /\ \A j \in DOMAIN change : change[j] \in OutputType
      BY <1>0, <2>1, FreeTyped
    <3>2. /\ w \in DevType /\ w.active = flipped.active /\ w.flying = flipped.flying
          /\ \A j \in Objects : w.obj[j] = IF j \in DOMAIN change THEN change[j] ELSE flipped.obj[j]
      BY <1>2, <2>1, <3>1, ChangedFields
    <3> QED BY <1>2, <2>1, <3>2
  <2>3. \A j \in Used(w) : j # i /\ j \in Used(flipped) /\ w.obj[j] = flipped.obj[j]
    BY <2>2, FreeTyped DEF Used
  <2>4. \A j \in Live(w) : j \in Live(flipped) /\ j \in Used(w)
    BY <2>2, FreeTyped DEF Live, Used
  <2>5. EventsMeet(w) /\ RetiredWait(w) /\ Placed(w) /\ Apart(w)
    <3>1. EventsMeet(w)
      BY <1>2, <1>7, <2>2, FreeTyped DEF EventsMeet, Used
    <3>2. RetiredWait(w)
      BY <1>7, <2>2, FreeTyped DEF RetiredWait
    <3>3. Placed(w)
      BY <1>7, <2>3, <2>4 DEF Placed
    <3>4. Apart(w)
      BY <1>7, <2>3, <2>4 DEF Apart
    <3> QED BY <3>1, <3>2, <3>3, <3>4
  <2>6. e \in RescanAndRepaint(w) /\ CardInv(w)
    BY <1>4, <1>8, <2>2, <2>5 DEF CardInv, w
  <2> QED BY <2>2, <2>6, RescanKeeps
<1>9. CASE o.st = "live"
  <2>1. CardInv(flipped)
    BY <1>2, <1>3, <1>7, <1>9 DEF CardInv, RetiredWait
  <2>2. \A j \in Live(flipped) \ {i} : flipped.active => Drawn(flipped.obj[j])
    BY <1>2, <1>3, <1>6 DEF AllDrawn, Live
  <2>3. CASE o.due
    <3>1. e \in RepaintAll(flipped, {i}) /\ {i} \in SUBSET Objects
      BY <1>0, <1>4, <1>9, <2>3
    <3>2. CardInv(e) /\ AllDrawn(e) /\ e.active = flipped.active
      BY <2>1, <2>2, <3>1, RepaintAllKeeps
    <3> QED BY <1>2, <3>2
  <2>4. CASE ~o.due
    <3>1. e = flipped
      BY <1>4, <1>9, <2>4
    <3>2. d.active => Drawn(flipped.obj[i])
      BY <1>0, <1>3, <1>9, <2>4 DEF AllDrawn, Live, Drawn
    <3> QED BY <1>2, <2>1, <2>2, <3>1, <3>2 DEF AllDrawn
  <2> QED BY <2>3, <2>4
<1> QED BY <1>0, <1>8, <1>9 DEF Used, OutputType

LEMMA UdevStep ==
  ASSUME KmsInv
  PROVE  /\ \A e \in {"add", "remove", "change"} :
               Len(udev) < MaxUdev => /\ Append(udev, e) \in Seq({"add", "remove", "change"})
                                      /\ Len(Append(udev, e)) <= MaxUdev
         /\ udev # <<>> => /\ Tail(udev) \in Seq({"add", "remove", "change"})
                           /\ Len(Tail(udev)) <= MaxUdev
BY KmsAssumption DEF KmsInv

LEMMA KmsStep == KmsInv /\ [Next]_kmsVars => KmsInv'
<1> SUFFICES ASSUME KmsInv, [Next]_kmsVars PROVE KmsInv'
  OBVIOUS
<1>0. /\ CardInv(dev) /\ AllDrawn(dev) /\ dev \in DevType
      /\ monitor \in [Connectors -> Modes \cup {0}] /\ card \in BOOLEAN
      /\ \A i \in Objects : dev.obj[i] \in OutputType
      /\ \A i \in Live(dev) : i \in Objects
  BY DEF KmsInv, CardInv, DevType, Live
<1>1. ASSUME CardInv(dev'), AllDrawn(dev'), UNCHANGED <<monitor, card, udev>> PROVE KmsInv'
  BY <1>1 DEF KmsInv, CardInv, AllDrawn, EventsMeet, RetiredWait, Placed, Apart, Live, Used
<1>2. ASSUME NEW S \in SUBSET Live(dev), Present(S) PROVE KmsInv'
  <2> DEFINE T == S \cap Live(dev)
             change == [i \in T |-> [dev.obj[i] EXCEPT !.stale = TRUE]]
  <2>1. dev' \in RepaintAll(Changed(dev, change), S) /\ T = S
    BY <1>2 DEF Present, Soil
  <2>2. /\ DOMAIN change = S
        /\ \A i \in S :
            /\ change[i] \in OutputType
            /\ change[i].st = dev.obj[i].st /\ change[i].conn = dev.obj[i].conn
            /\ change[i].crtc = dev.obj[i].crtc /\ change[i].flip = dev.obj[i].flip
    <3>1. DOMAIN change = S
      BY <2>1
    <3>2. SUFFICES ASSUME NEW i \in S
                   PROVE  /\ change[i] \in OutputType
                          /\ change[i].st = dev.obj[i].st /\ change[i].conn = dev.obj[i].conn
                          /\ change[i].crtc = dev.obj[i].crtc /\ change[i].flip = dev.obj[i].flip
      BY <3>1
    <3>3. /\ dev.obj[i] \in OutputType
          /\ change[i] = [dev.obj[i] EXCEPT !.stale = TRUE]
      BY <1>0, <2>1
    <3> HIDE DEF change
    <3> QED BY <3>3 DEF OutputType
  <2> HIDE DEF change
  <2>3. CardInv(dev') /\ AllDrawn(dev')
    BY <1>0, <2>1, <2>2, MarkAndRepaint
  <2> QED BY <1>1, <1>2, <2>3 DEF Present
<1>3. ASSUME NEW S \in SUBSET Live(dev), Prepare(S) PROVE KmsInv'
  <2> DEFINE change == [i \in S |-> [dev.obj[i] EXCEPT !.hold = TRUE]]
  <2>1. dev' = Changed(dev, change)
    BY <1>3 DEF Prepare
  <2>2. /\ DOMAIN change = S
        /\ \A i \in S :
            /\ change[i] \in OutputType /\ change[i].hold
            /\ change[i].st = dev.obj[i].st /\ change[i].conn = dev.obj[i].conn
            /\ change[i].crtc = dev.obj[i].crtc /\ change[i].flip = dev.obj[i].flip
    <3>1. DOMAIN change = S
      OBVIOUS
    <3>2. SUFFICES ASSUME NEW i \in S
                   PROVE  /\ change[i] \in OutputType /\ change[i].hold
                          /\ change[i].st = dev.obj[i].st /\ change[i].conn = dev.obj[i].conn
                          /\ change[i].crtc = dev.obj[i].crtc /\ change[i].flip = dev.obj[i].flip
      BY <3>1
    <3>3. /\ dev.obj[i] \in OutputType
          /\ change[i] = [dev.obj[i] EXCEPT !.hold = TRUE]
      BY <1>0
    <3> HIDE DEF change
    <3> QED BY <3>3 DEF OutputType
  <2> HIDE DEF change
  <2>3. /\ CardInv(dev') /\ Live(dev') = Live(dev) /\ dev'.active = dev.active
        /\ \A i \in Objects : dev'.obj[i] = IF i \in S THEN change[i] ELSE dev.obj[i]
    BY <1>0, <2>1, <2>2, MarkedKeeps
  <2>4. AllDrawn(dev')
    BY <1>0, <2>2, <2>3 DEF AllDrawn, Drawn
  <2> QED BY <1>1, <1>3, <2>3, <2>4 DEF Prepare
<1>4. CASE Ready
  <2> DEFINE S == {i \in Live(dev) : dev.obj[i].hold}
             change == [i \in S |-> [dev.obj[i] EXCEPT !.hold = FALSE, !.stale = TRUE]]
  <2>1. dev' \in RepaintAll(Changed(dev, change), S)
    BY <1>4 DEF Ready
  <2>2. /\ DOMAIN change = S
        /\ \A i \in S :
            /\ change[i] \in OutputType
            /\ change[i].st = dev.obj[i].st /\ change[i].conn = dev.obj[i].conn
            /\ change[i].crtc = dev.obj[i].crtc /\ change[i].flip = dev.obj[i].flip
    <3>1. DOMAIN change = S
      OBVIOUS
    <3>2. SUFFICES ASSUME NEW i \in S
                   PROVE  /\ change[i] \in OutputType
                          /\ change[i].st = dev.obj[i].st /\ change[i].conn = dev.obj[i].conn
                          /\ change[i].crtc = dev.obj[i].crtc /\ change[i].flip = dev.obj[i].flip
      BY <3>1
    <3>3. /\ dev.obj[i] \in OutputType
          /\ change[i] = [dev.obj[i] EXCEPT !.hold = FALSE, !.stale = TRUE]
      BY <1>0
    <3> HIDE DEF change, S
    <3> QED BY <3>3 DEF OutputType
  <2>3. S \subseteq Live(dev)
    OBVIOUS
  <2> HIDE DEF change, S
  <2>4. CardInv(dev') /\ AllDrawn(dev')
    BY <1>0, <2>1, <2>2, <2>3, MarkAndRepaint
  <2> QED BY <1>1, <1>4, <2>4 DEF Ready
<1>5. ASSUME NEW i \in Objects, PageFlipComplete(i) PROVE KmsInv'
  <2>1. CardInv(dev') /\ AllDrawn(dev')
    BY <1>0, <1>5, FlippedKeeps DEF PageFlipComplete
  <2> QED BY <1>1, <1>5, <2>1 DEF PageFlipComplete
<1>6. CASE EnableSeat
  <2> DEFINE d == [dev EXCEPT !.active = TRUE]
             change == [i \in Live(dev) |-> [dev.obj[i] EXCEPT !.modeset = TRUE]]
  <2>1. PICK w \in RepaintAll(Changed(d, change), Live(Changed(d, change))) : dev' \in AddDevice(w)
    BY <1>6 DEF EnableSeat
  <2>2. /\ d \in DevType /\ d.active = TRUE /\ d.obj = dev.obj /\ d.flying = dev.flying
    BY <1>0 DEF DevType
  <2>3. /\ DOMAIN change = Live(dev)
        /\ \A i \in Live(dev) :
            /\ change[i] \in OutputType
            /\ change[i].st = dev.obj[i].st /\ change[i].conn = dev.obj[i].conn
            /\ change[i].crtc = dev.obj[i].crtc /\ change[i].flip = dev.obj[i].flip
    <3>1. DOMAIN change = Live(dev)
      OBVIOUS
    <3>2. SUFFICES ASSUME NEW i \in Live(dev)
                   PROVE  /\ change[i] \in OutputType
                          /\ change[i].st = dev.obj[i].st /\ change[i].conn = dev.obj[i].conn
                          /\ change[i].crtc = dev.obj[i].crtc /\ change[i].flip = dev.obj[i].flip
      BY <3>1
    <3>3. /\ dev.obj[i] \in OutputType
          /\ change[i] = [dev.obj[i] EXCEPT !.modeset = TRUE]
      BY <1>0
    <3> HIDE DEF change
    <3> QED BY <3>3 DEF OutputType
  <2> HIDE DEF change, d
  <2>4. Live(d) = Live(dev) /\ Used(d) = Used(dev)
    BY <2>2 DEF Live, Used
  <2>5. CardInv(d)
    BY <1>0, <2>2, <2>4 DEF CardInv, EventsMeet, RetiredWait, Placed, Apart
  <2>6. DOMAIN change \subseteq Objects
    BY <1>0, <2>3
  <2>7. CardInv(Changed(d, change)) /\ Live(Changed(d, change)) = Live(d)
        /\ Changed(d, change).active = d.active
    BY <2>2, <2>3, <2>5, <2>6, MarkedKeeps
  <2>8. CardInv(w) /\ AllDrawn(w)
    <3>1. Live(Changed(d, change)) \in SUBSET Objects
      BY <1>0, <2>4, <2>7
    <3> QED BY <2>1, <2>7, <3>1, RepaintAllKeeps
  <2>9. CardInv(dev') /\ AllDrawn(dev')
    BY <1>0, <2>1, <2>8, AddDeviceKeeps
  <2> QED BY <1>1, <1>6, <2>9 DEF EnableSeat
<1>7. CASE DisableSeat
  <2>1. /\ dev' \in DevType /\ dev'.active = FALSE /\ dev'.obj = dev.obj /\ dev'.flying = dev.flying
    BY <1>0, <1>7 DEF DisableSeat, DevType
  <2>2. Live(dev') = Live(dev) /\ Used(dev') = Used(dev)
    BY <2>1 DEF Live, Used
  <2>3. CardInv(dev') /\ AllDrawn(dev')
    BY <1>0, <2>1, <2>2 DEF CardInv, EventsMeet, RetiredWait, Placed, Apart, AllDrawn
  <2> QED BY <1>1, <1>7, <2>3 DEF DisableSeat
<1>8. ASSUME monitor' \in [Connectors -> Modes \cup {0}], card' \in BOOLEAN,
             udev' \in Seq({"add", "remove", "change"}), Len(udev') <= MaxUdev,
             CardInv(dev'), AllDrawn(dev')
      PROVE  KmsInv'
  BY <1>8 DEF KmsInv, CardInv, AllDrawn, EventsMeet, RetiredWait, Placed, Apart, Live, Used
<1>9. ASSUME NEW k \in Connectors, NEW m \in Modes \cup {0}, Monitor(k, m) PROVE KmsInv'
  <2>1. monitor' \in [Connectors -> Modes \cup {0}]
    BY <1>0, <1>9 DEF Monitor
  <2> QED BY <1>0, <1>8, <1>9, <2>1, UdevStep DEF Monitor
<1>10. CASE Card
  BY <1>0, <1>8, <1>10, UdevStep DEF Card
<1>11. CASE DispatchUdev
  <2>1. CardInv(dev') /\ AllDrawn(dev')
    <3>1. CASE dev' = [Closed EXCEPT !.active = dev.active]
      <4>1. dev.active \in BOOLEAN
        BY <1>0 DEF DevType
      <4> QED BY <3>1, <4>1, ClosedTyped
    <3>2. CASE dev' = dev
      BY <1>0, <3>2
    <3>3. CASE dev' \in AddDevice(dev)
      BY <1>0, <3>3, AddDeviceKeeps
    <3>4. CASE dev' \in RescanAndRepaint(dev)
      BY <1>0, <3>4, RescanKeeps
    <3> QED BY <1>11, <3>1, <3>2, <3>3, <3>4 DEF DispatchUdev
  <2> QED BY <1>0, <1>8, <1>11, <2>1, UdevStep DEF DispatchUdev
<1>12. CASE UNCHANGED kmsVars
  BY <1>0, <1>1, <1>12 DEF kmsVars, vars
<1> QED BY <1>2, <1>3, <1>4, <1>5, <1>6, <1>7, <1>9, <1>10, <1>11, <1>12 DEF Next

-----------------------------------------------------------------------------
(* Buffers: what is counted.                                                *)

PoolRecords ==
  [exists : BOOLEAN, object : BOOLEAN, size : 0 .. MaxSize, buffers : Nat, writable : BOOLEAN]
BufferRecords ==
  [exists : BOOLEAN, object : BOOLEAN, refs : Nat, pool : Pools \cup {None}, fds : SUBSET Fds, end : Nat]
ParamsRecords == [state : {"none", "open", "used"}, fds : SUBSET Fds]
SurfaceRecords ==
  [alive : BOOLEAN, pending : ClientBuffers \cup {None}, current : ClientBuffers \cup {None},
   changed : BOOLEAN, released : BOOLEAN]

\* A store `st` holds what an unref may touch: [buffer, pool, open].
Stored(st) ==
  /\ DOMAIN st = {"buffer", "pool", "open"}
  /\ st.pool \in [Pools -> PoolRecords] /\ st.buffer \in [ClientBuffers -> BufferRecords]
  /\ st.open \subseteq Fds

\* The buffers of a pool: they are counted, their rows lie in it, and it exists
\* while there is one.
Mine(st, p) == {b \in ClientBuffers : st.buffer[b].exists /\ st.buffer[b].pool = p}
PoolKept(st, p) ==
  /\ st.pool[p].buffers = Cardinality(Mine(st, p))
  /\ st.pool[p].exists <=> st.pool[p].object \/ Mine(st, p) # {}
  /\ ~st.pool[p].exists => st.pool[p] = Buf!NoPool
  /\ \A b \in Mine(st, p) : st.buffer[b].end <= st.pool[p].size
PoolsKept(st) == \A p \in Pools : PoolKept(st, p)

\* The planes of the buffers and of the params `ps`: each is one's alone.
FdsKept(st, ps) ==
  /\ \A f \in Fds : f \in st.open <=> \/ \E q \in Params : f \in ps[q].fds
                                      \/ \E b \in ClientBuffers : f \in st.buffer[b].fds
  /\ \A b, c \in ClientBuffers : b # c => st.buffer[b].fds \cap st.buffer[c].fds = {}
  /\ \A b \in ClientBuffers, q \in Params : st.buffer[b].fds \cap ps[q].fds = {}
  /\ \A q, r \in Params : q # r => ps[q].fds \cap ps[r].fds = {}

\* The references of every buffer are those of `n`.
Counted(st, n) ==
  \A b \in ClientBuffers :
    /\ st.buffer[b].refs = n[b] /\ (st.buffer[b].exists <=> n[b] > 0)
    /\ ~st.buffer[b].exists => st.buffer[b] = Buf!NoBuffer

StoreInv(st, ps, n) == Stored(st) /\ PoolsKept(st) /\ FdsKept(st, ps) /\ Counted(st, n)

\* What is expected: a reference for each surface that holds the buffer, one for
\* its object, and one that is lost.
HoldersOf(sf, b) == {s \in ClientSurfaces : b \in {sf[s].pending, sf[s].current}}
One(x) == IF x THEN 1 ELSE 0
Expected(sf, os, ls) ==
  [b \in ClientBuffers |-> Cardinality(HoldersOf(sf, b)) + One(b \in os) + One(b \in ls)]
ObjectsIn(bf) == {b \in ClientBuffers : bf[b].object}

BufferTypes ==
  /\ params \in [Params -> ParamsRecords] /\ surface \in [ClientSurfaces -> SurfaceRecords]
  /\ busy \subseteq ClientBuffers /\ shared \subseteq ClientBuffers /\ lost \subseteq ClientBuffers
  /\ dead \in BOOLEAN /\ faulted \in BOOLEAN
\* A surface that is gone holds nothing.
GoneHoldsNothing ==
  \A s \in ClientSurfaces : ~surface[s].alive => surface[s].pending = None /\ surface[s].current = None
\* Only a client that is torn down has lost something.
LostLate == lost # {} => dead
\* Who waits for a buffer has its object, and a surface that will release it.
Waiting ==
  /\ \A b \in busy : buffer[b].object
  /\ \A b \in busy \ lost : \E s \in ClientSurfaces : surface[s].current = b /\ ~surface[s].released
\* A buffer that two surfaces show was committed on both.
SharedKnown ==
  \A s, t \in ClientSurfaces :
    s # t /\ surface[s].current = surface[t].current /\ surface[s].current # None
      /\ buffer[surface[s].current].object => surface[s].current \in shared
ShownWaits ==
  \A s \in ClientSurfaces :
    surface[s].current # None /\ buffer[surface[s].current].object /\ buffer[surface[s].current].pool = None
      => surface[s].current \in busy \cup shared

BuffersInv ==
  /\ BufferTypes /\ StoreInv(Buf!Store, params, Expected(surface, ObjectsIn(buffer), lost))
  /\ GoneHoldsNothing /\ LostLate /\ Waiting /\ SharedKnown /\ ShownWaits

-----------------------------------------------------------------------------
LEMMA MineFinite ==
  ASSUME BuffersAssumption, NEW st, NEW p
  PROVE  IsFiniteSet(Mine(st, p)) /\ Cardinality(Mine(st, p)) \in Nat
         /\ (Cardinality(Mine(st, p)) = 0 <=> Mine(st, p) = {})
<1>1. IsFiniteSet(ClientBuffers)
  BY DEF BuffersAssumption
<1>2. Mine(st, p) \subseteq ClientBuffers
  BY DEF Mine
<1>3. IsFiniteSet(Mine(st, p))
  BY <1>1, <1>2, FS_Subset
<1> QED BY <1>3, FS_CardinalityType, FS_EmptySet

\* Of which a store is made: two with the same parts are as good as each other.
LEMMA SameStore ==
  ASSUME NEW st, NEW to, NEW ps, NEW n, NEW k, StoreInv(st, ps, n),
         DOMAIN to = {"buffer", "pool", "open"}, to.buffer = st.buffer, to.pool = st.pool, to.open = st.open,
         \A b \in ClientBuffers : k[b] = n[b]
  PROVE  StoreInv(to, ps, k)
<1>1. \A p : Mine(to, p) = Mine(st, p)
  BY DEF Mine
<1>2. \A p \in Pools : PoolKept(to, p)
  BY <1>1 DEF PoolKept, StoreInv, PoolsKept
<1>3. FdsKept(to, ps)
  BY DEF FdsKept, StoreInv
<1>4. Counted(to, k)
  BY DEF Counted, StoreInv
<1> QED BY <1>2, <1>3, <1>4 DEF StoreInv, Stored, PoolsKept

\* A reference more, or one less that is not the last.
RefsChanged(st, ps, n, b, r) ==
  /\ StoreInv([st EXCEPT !.buffer[b].refs = r], ps, [n EXCEPT ![b] = r])
  /\ \A c \in ClientBuffers :
       /\ [st EXCEPT !.buffer[b].refs = r].buffer[c].object = st.buffer[c].object
       /\ [st EXCEPT !.buffer[b].refs = r].buffer[c].pool = st.buffer[c].pool

LEMMA RefsChange ==
  ASSUME NEW st, NEW ps, NEW n \in [ClientBuffers -> Nat], StoreInv(st, ps, n),
         NEW b \in ClientBuffers, NEW r \in Nat, r > 0, n[b] > 0
  PROVE  RefsChanged(st, ps, n, b, r)
<1> DEFINE to == [st EXCEPT !.buffer[b].refs = r]
<1>1. st.buffer \in [ClientBuffers -> BufferRecords] /\ DOMAIN st = {"buffer", "pool", "open"}
  BY DEF StoreInv, Stored
<1> DEFINE x == [st.buffer[b] EXCEPT !.refs = r]
<1>2. /\ x \in BufferRecords /\ x.refs = r /\ x.exists = st.buffer[b].exists /\ x.object = st.buffer[b].object
      /\ x.pool = st.buffer[b].pool /\ x.fds = st.buffer[b].fds /\ x.end = st.buffer[b].end
  BY <1>1 DEF BufferRecords
<1>3. /\ DOMAIN to = {"buffer", "pool", "open"} /\ to.pool = st.pool /\ to.open = st.open
      /\ to.buffer = [st.buffer EXCEPT ![b] = x]
  BY <1>1
<1> HIDE DEF x, to
<1>4. \A c \in ClientBuffers : to.buffer[c] = IF c = b THEN x ELSE st.buffer[c]
  BY <1>1, <1>3
<1>5. \A c \in ClientBuffers :
        /\ to.buffer[c].exists = st.buffer[c].exists /\ to.buffer[c].object = st.buffer[c].object
        /\ to.buffer[c].pool = st.buffer[c].pool /\ to.buffer[c].fds = st.buffer[c].fds
        /\ to.buffer[c].end = st.buffer[c].end
  BY <1>2, <1>4
<1>6. Stored(to)
  BY <1>1, <1>2, <1>3 DEF Stored, StoreInv
<1>7. \A p : Mine(to, p) = Mine(st, p)
  BY <1>5 DEF Mine
<1>8. \A p \in Pools : PoolKept(to, p)
  <2> TAKE p \in Pools
  <2>1. PoolKept(st, p) /\ Mine(to, p) = Mine(st, p) /\ \A c \in Mine(st, p) : c \in ClientBuffers
    BY <1>7 DEF StoreInv, PoolsKept, Mine
  <2> QED BY <1>3, <1>5, <2>1 DEF PoolKept
<1>9. FdsKept(to, ps)
  BY <1>3, <1>5 DEF FdsKept, StoreInv
<1>10. Counted(to, [n EXCEPT ![b] = r])
  <2>1. st.buffer[b].exists
    BY DEF StoreInv, Counted
  <2>2. ASSUME NEW c \in ClientBuffers, c # b
        PROVE  to.buffer[c] = st.buffer[c] /\ [n EXCEPT ![b] = r][c] = n[c]
    BY <1>4, <2>2
  <2> QED BY <1>2, <1>4, <2>1, <2>2 DEF StoreInv, Counted
<1> QED BY <1>5, <1>6, <1>8, <1>9, <1>10 DEF StoreInv, PoolsKept, to, RefsChanged

\* Whatever the last reference frees.
LEMMA FreeIs ==
  ASSUME NEW st, Stored(st), NEW b \in ClientBuffers
  PROVE  LET to == Buf!FreeBuffer(st, b)
             p == st.buffer[b].pool
         IN /\ DOMAIN to = {"buffer", "pool", "open"}
            /\ to.buffer = [st.buffer EXCEPT ![b] = Buf!NoBuffer]
            /\ to.open = st.open \ st.buffer[b].fds
            /\ p = None => to.pool = st.pool
            /\ p # None /\ st.pool[p].buffers = 1 /\ ~st.pool[p].object =>
                 to.pool = [st.pool EXCEPT ![p] = Buf!NoPool]
            /\ p # None /\ ~(st.pool[p].buffers = 1 /\ ~st.pool[p].object) =>
                 to.pool = [st.pool EXCEPT ![p].buffers = @ - 1]
<1> DEFINE p == st.buffer[b].pool
           freed == [st EXCEPT !.buffer[b] = Buf!NoBuffer, !.open = @ \ st.buffer[b].fds]
           counted == [freed EXCEPT !.pool[p].buffers = @ - 1]
           to == Buf!FreeBuffer(st, b)
<1>0. /\ DOMAIN st = {"buffer", "pool", "open"} /\ st.pool \in [Pools -> PoolRecords]
      /\ st.buffer \in [ClientBuffers -> BufferRecords] /\ p \in Pools \cup {None}
  BY DEF Stored, BufferRecords
<1>1. /\ DOMAIN freed = {"buffer", "pool", "open"} /\ freed.pool = st.pool
      /\ freed.buffer = [st.buffer EXCEPT ![b] = Buf!NoBuffer] /\ freed.open = st.open \ st.buffer[b].fds
  BY <1>0
<1>2. to = IF p # None /\ (IF p = None THEN freed ELSE counted).pool[p].buffers = 0
              /\ ~(IF p = None THEN freed ELSE counted).pool[p].object
           THEN Buf!DestroyPool(IF p = None THEN freed ELSE counted, p)
           ELSE IF p = None THEN freed ELSE counted
  BY DEF Buf!FreeBuffer
<1>3. CASE p = None
  <2>1. to = freed
    BY <1>2, <1>3
  <2> QED BY <1>1, <1>3, <2>1
<1>4. CASE p # None
  <2> HIDE DEF freed, p
  <2>1. p \in Pools /\ st.pool[p] \in PoolRecords
    BY <1>0, <1>4
  <2>2. /\ DOMAIN counted = {"buffer", "pool", "open"} /\ counted.buffer = freed.buffer
        /\ counted.open = freed.open /\ counted.pool = [st.pool EXCEPT ![p].buffers = @ - 1]
    BY <1>1
  <2>3. to = IF counted.pool[p].buffers = 0 /\ ~counted.pool[p].object
             THEN Buf!DestroyPool(counted, p) ELSE counted
    BY <1>2, <1>4
  <2> HIDE DEF counted, to
  <2>4. counted.pool[p].buffers = st.pool[p].buffers - 1 /\ counted.pool[p].object = st.pool[p].object
    BY <1>0, <2>1, <2>2 DEF PoolRecords
  <2>5. counted.pool[p].buffers = 0 <=> st.pool[p].buffers = 1
    BY <2>1, <2>4 DEF PoolRecords
  <2>6. CASE st.pool[p].buffers = 1 /\ ~st.pool[p].object
    <3>1. to = [counted EXCEPT !.pool[p] = Buf!NoPool]
      BY <2>3, <2>4, <2>5, <2>6 DEF Buf!DestroyPool
    <3>2. /\ DOMAIN to = {"buffer", "pool", "open"} /\ to.buffer = counted.buffer /\ to.open = counted.open
          /\ to.pool = [counted.pool EXCEPT ![p] = Buf!NoPool]
      BY <2>2, <3>1
    <3>3. to.pool = [st.pool EXCEPT ![p] = Buf!NoPool]
      BY <1>0, <2>2, <3>2
    <3> QED BY <1>1, <1>4, <2>2, <2>6, <3>2, <3>3 DEF p, to
  <2>7. CASE ~(st.pool[p].buffers = 1 /\ ~st.pool[p].object)
    <3>1. to = counted
      BY <2>3, <2>4, <2>5, <2>7
    <3> QED BY <1>1, <1>4, <2>2, <2>7, <3>1 DEF p, to
  <2> QED BY <2>6, <2>7
<1> QED BY <1>3, <1>4

\* The last reference goes.
FreeKept(st, ps, n, b) ==
  /\ StoreInv(Buf!FreeBuffer(st, b), ps, [n EXCEPT ![b] = 0])
  /\ Buf!FreeBuffer(st, b).buffer = [st.buffer EXCEPT ![b] = Buf!NoBuffer]

LEMMA FreeKeeps ==
  ASSUME BuffersAssumption, NEW st, NEW ps, NEW n \in [ClientBuffers -> Nat], StoreInv(st, ps, n),
         NEW b \in ClientBuffers, n[b] = 1, ps \in [Params -> ParamsRecords]
  PROVE  FreeKept(st, ps, n, b)
<1> DEFINE to == Buf!FreeBuffer(st, b)
           p == st.buffer[b].pool
<1>0. /\ Stored(st) /\ PoolsKept(st) /\ FdsKept(st, ps) /\ Counted(st, n)
      /\ st.buffer \in [ClientBuffers -> BufferRecords] /\ st.pool \in [Pools -> PoolRecords]
      /\ p \in Pools \cup {None} /\ st.open \subseteq Fds
  BY DEF StoreInv, Stored, BufferRecords
<1>1. /\ DOMAIN to = {"buffer", "pool", "open"} /\ to.buffer = [st.buffer EXCEPT ![b] = Buf!NoBuffer]
      /\ to.open = st.open \ st.buffer[b].fds
      /\ p = None => to.pool = st.pool
      /\ p # None /\ st.pool[p].buffers = 1 /\ ~st.pool[p].object =>
           to.pool = [st.pool EXCEPT ![p] = Buf!NoPool]
      /\ p # None /\ ~(st.pool[p].buffers = 1 /\ ~st.pool[p].object) =>
           to.pool = [st.pool EXCEPT ![p].buffers = @ - 1]
  BY <1>0, FreeIs
<1> HIDE DEF to, p
<1>2. /\ Buf!NoBuffer \in BufferRecords /\ ~Buf!NoBuffer.exists /\ Buf!NoBuffer.fds = {} /\ Buf!NoBuffer.refs = 0
  BY DEF Buf!NoBuffer, BufferRecords
<1>3. \A c \in ClientBuffers : to.buffer[c] = IF c = b THEN Buf!NoBuffer ELSE st.buffer[c]
  BY <1>0, <1>1
<1>4. \A r : Mine(to, r) = Mine(st, r) \ {b}
  BY <1>2, <1>3 DEF Mine
<1>5. st.buffer[b].exists
  BY <1>0 DEF Counted
<1>6. /\ p # None => b \in Mine(st, p)
      /\ \A r \in Pools : r # p => Mine(to, r) = Mine(st, r)
  BY <1>4, <1>5 DEF Mine, p
<1>7. ASSUME p # None
      PROVE  /\ Cardinality(Mine(to, p)) = Cardinality(Mine(st, p)) - 1
             /\ st.pool[p].exists /\ st.pool[p].buffers = Cardinality(Mine(st, p)) /\ p \in Pools
             /\ PoolKept(st, p)
  <2>1. IsFiniteSet(Mine(st, p)) /\ b \in Mine(st, p)
    BY <1>6, <1>7, MineFinite
  <2>2. Cardinality(Mine(st, p) \ {b}) = Cardinality(Mine(st, p)) - 1
    BY <2>1, FS_RemoveElement
  <2>3. p \in Pools /\ PoolKept(st, p)
    BY <1>0, <1>7 DEF PoolsKept
  <2> QED BY <1>4, <2>1, <2>2, <2>3 DEF PoolKept
<1>8. Stored(to)
  <2>1. to.buffer \in [ClientBuffers -> BufferRecords] /\ to.open \subseteq Fds
    BY <1>0, <1>1, <1>2
  <2>2. to.pool \in [Pools -> PoolRecords]
    <3>1. Buf!NoPool \in PoolRecords
      BY DEF Buf!NoPool, PoolRecords, BuffersAssumption
    <3>2. ASSUME p # None PROVE [st.pool[p] EXCEPT !.buffers = @ - 1] \in PoolRecords
      <4>1. st.pool[p] \in PoolRecords /\ st.pool[p].buffers - 1 \in Nat
        BY <1>0, <1>7, <3>2, MineFinite
      <4> QED BY <4>1 DEF PoolRecords
    <3> QED BY <1>0, <1>1, <1>7, <3>1, <3>2
  <2> QED BY <1>1, <2>1, <2>2 DEF Stored
<1>9. ASSUME NEW r \in Pools PROVE PoolKept(to, r)
  <2>1. CASE r # p
    <3>1. to.pool[r] = st.pool[r]
      BY <1>0, <1>1, <2>1
    <3>2. \A c \in Mine(to, r) : to.buffer[c] = st.buffer[c] /\ c \in Mine(st, r)
      BY <1>3, <1>4 DEF Mine
    <3>3. PoolKept(st, r)
      BY <1>0 DEF PoolsKept
    <3> QED BY <1>6, <2>1, <3>1, <3>2, <3>3 DEF PoolKept
  <2>2. CASE r = p /\ p # None
    <3>1. \A c \in Mine(to, p) : to.buffer[c] = st.buffer[c] /\ c \in Mine(st, p)
      BY <1>3, <1>4 DEF Mine
    <3>2. Mine(to, p) = {} <=> Cardinality(Mine(to, p)) = 0
      BY MineFinite
    <3>3. CASE st.pool[p].buffers = 1 /\ ~st.pool[p].object
      <4>1. to.pool[p] = Buf!NoPool
        BY <1>0, <1>1, <1>7, <2>2, <3>3
      <4>2. Mine(to, p) = {} /\ Cardinality(Mine(to, p)) = 0
        BY <1>7, <2>2, <3>2, <3>3
      <4> QED BY <2>2, <4>1, <4>2 DEF PoolKept, Buf!NoPool
    <3>4. CASE ~(st.pool[p].buffers = 1 /\ ~st.pool[p].object)
      <4>1. to.pool[p] = [st.pool[p] EXCEPT !.buffers = @ - 1]
        BY <1>0, <1>1, <1>7, <2>2, <3>4
      <4>2. /\ to.pool[p].buffers = st.pool[p].buffers - 1 /\ to.pool[p].exists = st.pool[p].exists
            /\ to.pool[p].object = st.pool[p].object /\ to.pool[p].size = st.pool[p].size
        BY <1>0, <1>7, <2>2, <4>1 DEF PoolRecords
      <4>3. st.pool[p].object \/ Mine(to, p) # {}
        BY <1>7, <2>2, <3>2, <3>4
      <4> QED BY <1>7, <2>2, <3>1, <4>2, <4>3 DEF PoolKept
    <3> QED BY <3>3, <3>4
  <2>3. p # None \/ r # p
    BY <1>0 DEF BuffersAssumption
  <2> QED BY <2>1, <2>2, <2>3
<1>10. FdsKept(to, ps)
  <2>1. \A c \in ClientBuffers : to.buffer[c].fds = IF c = b THEN {} ELSE st.buffer[c].fds
    BY <1>2, <1>3
  <2> QED BY <1>0, <1>1, <2>1 DEF FdsKept
<1>11. Counted(to, [n EXCEPT ![b] = 0])
  <2>1. ASSUME NEW c \in ClientBuffers, c # b PROVE to.buffer[c] = st.buffer[c] /\ [n EXCEPT ![b] = 0][c] = n[c]
    BY <1>3, <2>1
  <2> QED BY <1>0, <1>2, <1>3, <2>1 DEF Counted
<1> QED BY <1>1, <1>8, <1>9, <1>10, <1>11 DEF StoreInv, PoolsKept, to, FreeKept

\* n without one reference to b, which may be none.
Less(n, b) == IF b = None THEN n ELSE [n EXCEPT ![b] = n[b] - 1]

\* unref: where the last reference goes, the object was gone.
DropKept(st, ps, n, b) ==
  /\ StoreInv(Buf!UnrefBuffer(st, b), ps, Less(n, b)) /\ Less(n, b) \in [ClientBuffers -> Nat]
  /\ \A c \in ClientBuffers :
       /\ Buf!UnrefBuffer(st, b).buffer[c].object = st.buffer[c].object
       /\ st.buffer[c].object => Buf!UnrefBuffer(st, b).buffer[c].pool = st.buffer[c].pool

LEMMA DropKeeps ==
  ASSUME BuffersAssumption, NEW st, NEW ps, NEW n \in [ClientBuffers -> Nat], StoreInv(st, ps, n),
         NEW b \in ClientBuffers \cup {None}, ps \in [Params -> ParamsRecords],
         b # None => n[b] > 0 /\ (n[b] = 1 => ~st.buffer[b].object)
  PROVE  DropKept(st, ps, n, b)
<1> DEFINE to == Buf!UnrefBuffer(st, b)
<1>1. CASE b = None
  BY <1>1 DEF Buf!UnrefBuffer, Less, DropKept
<1>2. CASE b # None
  <2>0. b \in ClientBuffers /\ n[b] \in Nat /\ n[b] > 0 /\ st.buffer[b].refs = n[b]
    BY <1>2 DEF StoreInv, Counted
  <2>1. CASE n[b] = 1
    <3>1. to = Buf!FreeBuffer(st, b) /\ Less(n, b) = [n EXCEPT ![b] = 0]
      BY <1>2, <2>0, <2>1 DEF Buf!UnrefBuffer, Less
    <3>0. /\ StoreInv(Buf!FreeBuffer(st, b), ps, [n EXCEPT ![b] = 0])
          /\ Buf!FreeBuffer(st, b).buffer = [st.buffer EXCEPT ![b] = Buf!NoBuffer]
      <4>1. FreeKept(st, ps, n, b)
        BY <2>0, <2>1, FreeKeeps
      <4> QED BY <4>1 DEF FreeKept
    <3> HIDE DEF to
    <3>2. StoreInv(to, ps, Less(n, b)) /\ to.buffer = [st.buffer EXCEPT ![b] = Buf!NoBuffer]
      BY <3>0, <3>1
    <3>3. ~st.buffer[b].object /\ Buf!NoBuffer.object = FALSE
      BY <1>2, <2>1 DEF Buf!NoBuffer
    <3>4. st.buffer \in [ClientBuffers -> BufferRecords]
      BY DEF StoreInv, Stored
    <3>5. \A c \in ClientBuffers : to.buffer[c] = IF c = b THEN Buf!NoBuffer ELSE st.buffer[c]
      BY <3>2, <3>4
    <3>6. st.buffer[b].object = FALSE
      BY <2>0, <3>3, <3>4 DEF BufferRecords
    <3>7. Less(n, b) \in [ClientBuffers -> Nat]
      BY <2>0, <3>1
    <3> QED BY <3>2, <3>3, <3>5, <3>6, <3>7 DEF to, DropKept
  <2>2. CASE n[b] # 1
    <3> DEFINE r == n[b] - 1
    <3>1. r \in Nat /\ r > 0
      BY <2>0, <2>2
    <3>2. to = [st EXCEPT !.buffer[b].refs = r] /\ Less(n, b) = [n EXCEPT ![b] = r]
      BY <1>2, <2>0, <2>2 DEF Buf!UnrefBuffer, Less, StoreInv, Stored
    <3> HIDE DEF r
    <3>3. /\ StoreInv(to, ps, [n EXCEPT ![b] = r])
          /\ \A c \in ClientBuffers : to.buffer[c].object = st.buffer[c].object /\ to.buffer[c].pool = st.buffer[c].pool
      <4>1. RefsChanged(st, ps, n, b, r)
        BY <2>0, <3>1, RefsChange
      <4> QED BY <3>2, <4>1 DEF RefsChanged
    <3>4. Less(n, b) \in [ClientBuffers -> Nat]
      BY <3>1, <3>2
    <3> QED BY <3>2, <3>3, <3>4 DEF DropKept
  <2> QED BY <2>1, <2>2
<1> QED BY <1>1, <1>2

-----------------------------------------------------------------------------
(* Who holds a buffer.                                                      *)

LEMMA HoldersFinite ==
  ASSUME BuffersAssumption, NEW sf, NEW b
  PROVE  /\ IsFiniteSet(HoldersOf(sf, b)) /\ Cardinality(HoldersOf(sf, b)) \in Nat
         /\ (Cardinality(HoldersOf(sf, b)) = 0 <=> HoldersOf(sf, b) = {})
<1>1. IsFiniteSet(ClientSurfaces)
  BY DEF BuffersAssumption
<1>2. HoldersOf(sf, b) \subseteq ClientSurfaces
  BY DEF HoldersOf
<1>3. IsFiniteSet(HoldersOf(sf, b))
  BY <1>1, <1>2, FS_Subset
<1> QED BY <1>3, FS_CardinalityType, FS_EmptySet

LEMMA ExpectedIs ==
  ASSUME BuffersAssumption, NEW sf, NEW os, NEW ls
  PROVE  /\ Expected(sf, os, ls) \in [ClientBuffers -> Nat]
         /\ \A b \in ClientBuffers :
              /\ Expected(sf, os, ls)[b] = Cardinality(HoldersOf(sf, b)) + One(b \in os) + One(b \in ls)
              /\ Cardinality(HoldersOf(sf, b)) \in Nat
              /\ Expected(sf, os, ls)[b] = 0 => HoldersOf(sf, b) = {} /\ b \notin os /\ b \notin ls
<1>1. \A b : Cardinality(HoldersOf(sf, b)) \in Nat /\ (Cardinality(HoldersOf(sf, b)) = 0 <=> HoldersOf(sf, b) = {})
  BY HoldersFinite
<1>2. \A x : One(x) \in {0, 1} /\ (One(x) = 0 => ~x)
  BY DEF One
<1> DEFINE n == Expected(sf, os, ls)
<1>3. \A b \in ClientBuffers : n[b] = Cardinality(HoldersOf(sf, b)) + One(b \in os) + One(b \in ls)
  BY DEF Expected
<1>4. \A b \in ClientBuffers : Cardinality(HoldersOf(sf, b)) + One(b \in os) + One(b \in ls) \in Nat
  BY <1>1, <1>2
<1>5. n \in [ClientBuffers -> Nat]
  BY <1>4 DEF Expected
<1>6. ASSUME NEW b \in ClientBuffers, n[b] = 0 PROVE HoldersOf(sf, b) = {} /\ b \notin os /\ b \notin ls
  <2>1. Cardinality(HoldersOf(sf, b)) = 0 /\ One(b \in os) = 0 /\ One(b \in ls) = 0
    <3> HIDE DEF n
    <3>1. Cardinality(HoldersOf(sf, b)) \in Nat /\ One(b \in os) \in {0, 1} /\ One(b \in ls) \in {0, 1}
      BY <1>1, <1>2
    <3>2. Cardinality(HoldersOf(sf, b)) + One(b \in os) + One(b \in ls) = 0
      BY <1>3, <1>6
    <3> QED BY ONLY <3>1, <3>2
  <2> QED BY <1>1, <1>2, <2>1
<1> QED BY <1>1, <1>3, <1>5, <1>6

\* A surface that holds something else.
HolderMoved(sf, to, s, u, b) ==
  /\ Cardinality(HoldersOf(sf, b)) \in Nat
  /\ Cardinality(HoldersOf(to, b)) = Cardinality(HoldersOf(sf, b)) + One(b \in {u.pending, u.current})
                                       - One(b \in {sf[s].pending, sf[s].current})
  /\ b \in {sf[s].pending, sf[s].current} => Cardinality(HoldersOf(sf, b)) >= 1

LEMMA HolderMoves ==
  ASSUME BuffersAssumption, NEW sf \in [ClientSurfaces -> SurfaceRecords], NEW s \in ClientSurfaces, NEW u,
         NEW to, to = [sf EXCEPT ![s] = u], NEW b
  PROVE  HolderMoved(sf, to, s, u, b)
<1> DEFINE H == HoldersOf(sf, b)
           G == HoldersOf(to, b)
<1>1. IsFiniteSet(H) /\ Cardinality(H) \in Nat /\ (Cardinality(H) = 0 <=> H = {})
  BY HoldersFinite
<1>2. /\ s \in H <=> b \in {sf[s].pending, sf[s].current}
      /\ s \in G <=> b \in {u.pending, u.current}
      /\ \A t : t # s => (t \in G <=> t \in H)
  BY DEF HoldersOf
<1> HIDE DEF H, G
<1>3. CASE s \in H /\ s \in G
  <2>1. G = H
    BY <1>2, <1>3
  <2> QED BY <1>1, <1>2, <1>3, <2>1 DEF One, H, G, HolderMoved
<1>4. CASE s \notin H /\ s \notin G
  <2>1. G = H
    BY <1>2, <1>4
  <2> QED BY <1>1, <1>2, <1>4, <2>1 DEF One, H, G, HolderMoved
<1>5. CASE s \notin H /\ s \in G
  <2>1. G = H \cup {s}
    BY <1>2, <1>5
  <2>2. Cardinality(G) = Cardinality(H) + 1
    BY <1>1, <1>5, <2>1, FS_AddElement
  <2> QED BY <1>1, <1>2, <1>5, <2>2 DEF One, H, G, HolderMoved
<1>6. CASE s \in H /\ s \notin G
  <2>1. G = H \ {s}
    BY <1>2, <1>6
  <2>2. Cardinality(G) = Cardinality(H) - 1
    BY <1>1, <1>6, <2>1, FS_RemoveElement
  <2>3. H # {}
    BY <1>6
  <2> QED BY <1>1, <1>2, <1>6, <2>2, <2>3 DEF One, H, G, HolderMoved
<1> QED BY <1>3, <1>4, <1>5, <1>6

-----------------------------------------------------------------------------
(* The steps.                                                               *)

\* What the invariant says of every buffer.
LEMMA BufferFacts ==
  ASSUME BuffersAssumption, BuffersInv
  PROVE  LET n == Expected(surface, ObjectsIn(buffer), lost)
         IN /\ pool \in [Pools -> PoolRecords] /\ buffer \in [ClientBuffers -> BufferRecords] /\ open \subseteq Fds
            /\ n \in [ClientBuffers -> Nat]
            /\ \A b \in ClientBuffers :
                 /\ buffer[b].refs = n[b] /\ (buffer[b].exists <=> n[b] > 0)
                 /\ ~buffer[b].exists => buffer[b] = Buf!NoBuffer
                 /\ Cardinality(HoldersOf(surface, b)) \in Nat
                 /\ n[b] = Cardinality(HoldersOf(surface, b)) + One(buffer[b].object) + One(b \in lost)
                 /\ buffer[b].object => buffer[b].exists
            /\ Buf!Store.buffer = buffer /\ Buf!Store.pool = pool /\ Buf!Store.open = open
            /\ DOMAIN Buf!Store = {"buffer", "pool", "open"}
<1> DEFINE n == Expected(surface, ObjectsIn(buffer), lost)
<1>1. /\ Buf!Store.buffer = buffer /\ Buf!Store.pool = pool /\ Buf!Store.open = open
      /\ DOMAIN Buf!Store = {"buffer", "pool", "open"}
  BY DEF Buf!Store
<1>2. StoreInv(Buf!Store, params, n)
  BY DEF BuffersInv
<1>3. /\ n \in [ClientBuffers -> Nat]
      /\ \A b \in ClientBuffers :
           /\ n[b] = Cardinality(HoldersOf(surface, b)) + One(b \in ObjectsIn(buffer)) + One(b \in lost)
           /\ Cardinality(HoldersOf(surface, b)) \in Nat
           /\ n[b] = 0 => b \notin ObjectsIn(buffer)
  BY ExpectedIs
<1> HIDE DEF n
<1>4. /\ pool \in [Pools -> PoolRecords] /\ buffer \in [ClientBuffers -> BufferRecords] /\ open \subseteq Fds
      /\ \A b \in ClientBuffers :
           /\ buffer[b].refs = n[b] /\ (buffer[b].exists <=> n[b] > 0)
           /\ ~buffer[b].exists => buffer[b] = Buf!NoBuffer
  BY <1>1, <1>2 DEF StoreInv, Stored, Counted
<1>5. \A b \in ClientBuffers : (b \in ObjectsIn(buffer)) <=> buffer[b].object
  BY DEF ObjectsIn
<1>6. \A b \in ClientBuffers : One(b \in ObjectsIn(buffer)) = One(buffer[b].object)
  BY <1>5 DEF One
<1>7. \A b \in ClientBuffers : buffer[b].object => buffer[b].exists
  <2> TAKE b \in ClientBuffers
  <2>1. n[b] \in Nat /\ (n[b] = 0 => ~buffer[b].object)
    BY <1>3, <1>5
  <2> QED BY <1>4, <2>1
<1> QED BY <1>1, <1>3, <1>4, <1>6, <1>7 DEF n

\* A step after which the objects that are waited for and shown are as before.
LEMMA ViewKept ==
  ASSUME BuffersInv, surface' = surface, busy' = busy, shared' = shared, lost' = lost, dead => dead',
         \A b \in ClientBuffers : b \in busy \/ (\E s \in ClientSurfaces : surface[s].current = b) =>
           buffer'[b].object = buffer[b].object /\ buffer'[b].pool = buffer[b].pool
  PROVE  GoneHoldsNothing' /\ LostLate' /\ Waiting' /\ SharedKnown' /\ ShownWaits'
<1>0. /\ surface \in [ClientSurfaces -> SurfaceRecords] /\ busy \subseteq ClientBuffers
      /\ \A s \in ClientSurfaces : surface[s].current \in ClientBuffers \cup {None}
  BY DEF BuffersInv, BufferTypes, SurfaceRecords
<1>1. GoneHoldsNothing' /\ LostLate'
  BY DEF BuffersInv, GoneHoldsNothing, LostLate
<1>2. Waiting'
  BY <1>0 DEF BuffersInv, Waiting
<1>3. SharedKnown'
  BY <1>0 DEF BuffersInv, SharedKnown
<1>4. ShownWaits'
  BY <1>0 DEF BuffersInv, ShownWaits
<1> QED BY <1>1, <1>2, <1>3, <1>4

\* The store after a step, if the references are those expected now.
LEMMA StoreSet ==
  ASSUME NEW to, NEW n, StoreInv(to, params', n),
         Buf!SetStore(to),
         \A b \in ClientBuffers : Expected(surface, ObjectsIn(buffer), lost)'[b] = n[b]
  PROVE  StoreInv(Buf!Store, params, Expected(surface, ObjectsIn(buffer), lost))'
<1>1. /\ DOMAIN Buf!Store' = {"buffer", "pool", "open"}
      /\ Buf!Store'.buffer = to.buffer /\ Buf!Store'.pool = to.pool /\ Buf!Store'.open = to.open
  BY DEF Buf!Store, Buf!SetStore
<1> DEFINE st == Buf!Store'
           k == Expected(surface, ObjectsIn(buffer), lost)'
           ps == params'
<1>2. StoreInv(to, ps, n) /\ \A b \in ClientBuffers : k[b] = n[b]
  OBVIOUS
<1>3. st = Buf!Store' /\ k = Expected(surface, ObjectsIn(buffer), lost)' /\ ps = params'
  OBVIOUS
<1> HIDE DEF st, k, ps
<1>4. StoreInv(st, ps, k)
  BY <1>1, <1>2, <1>3, SameStore
<1> QED BY <1>4 DEF st, k, ps

\* Nothing is there at the start, nor after a fault.
LEMMA NothingThere ==
  ASSUME BuffersAssumption, NEW st, NEW sf, DOMAIN st = {"buffer", "pool", "open"},
         st.pool = [p \in Pools |-> Buf!NoPool], st.buffer = [b \in ClientBuffers |-> Buf!NoBuffer],
         st.open = {}, sf = [s \in ClientSurfaces |-> Buf!NewSurface]
  PROVE  StoreInv(st, Buf!NoParams, Expected(sf, ObjectsIn(st.buffer), {}))
<1> DEFINE ps == Buf!NoParams
           n == Expected(sf, ObjectsIn(st.buffer), {})
<1>1. /\ Buf!NoPool \in PoolRecords /\ Buf!NoBuffer \in BufferRecords
      /\ Buf!NoPool.buffers = 0 /\ ~Buf!NoPool.exists /\ ~Buf!NoPool.object
      /\ ~Buf!NoBuffer.exists /\ ~Buf!NoBuffer.object /\ Buf!NoBuffer.refs = 0 /\ Buf!NoBuffer.fds = {}
  BY DEF Buf!NoPool, Buf!NoBuffer, PoolRecords, BufferRecords, BuffersAssumption
<1>2. Stored(st)
  BY <1>1 DEF Stored
<1>3. \A p : Mine(st, p) = {} /\ Cardinality(Mine(st, p)) = 0
  <2> TAKE p
  <2>1. Mine(st, p) = {}
    BY <1>1 DEF Mine
  <2> QED BY <2>1, MineFinite
<1>4. PoolsKept(st)
  BY <1>1, <1>3 DEF PoolsKept, PoolKept
<1>5. FdsKept(st, ps)
  BY <1>1 DEF FdsKept, Buf!NoParams
<1>6. \A b \in ClientBuffers : n[b] = 0
  <2> TAKE b \in ClientBuffers
  <2>1. HoldersOf(sf, b) = {}
    <3>1. b # None /\ \A s \in ClientSurfaces : sf[s].pending = None /\ sf[s].current = None
      BY DEF Buf!NewSurface, BuffersAssumption
    <3> QED BY <3>1 DEF HoldersOf
  <2>2. b \notin ObjectsIn(st.buffer) /\ b \notin {}
    BY <1>1 DEF ObjectsIn
  <2>3. One(b \in ObjectsIn(st.buffer)) = 0 /\ One(b \in {}) = 0
    BY <2>2 DEF One
  <2>4. Cardinality(HoldersOf(sf, b)) = 0
    BY <2>1, HoldersFinite
  <2>5. n[b] = Cardinality(HoldersOf(sf, b)) + One(b \in ObjectsIn(st.buffer)) + One(b \in {})
    BY DEF Expected
  <2> HIDE DEF n
  <2> QED BY <2>3, <2>4, <2>5
<1>7. Counted(st, n)
  <2> HIDE DEF n
  <2> QED BY <1>1, <1>6 DEF Counted
<1> QED BY <1>2, <1>4, <1>5, <1>7 DEF StoreInv

LEMMA BuffersInitially == BuffersAssumption /\ Buf!Init => BuffersInv
<1> SUFFICES ASSUME BuffersAssumption, Buf!Init PROVE BuffersInv
  OBVIOUS
<1>1. /\ params = Buf!NoParams /\ lost = {} /\ busy = {} /\ shared = {} /\ dead = FALSE /\ faulted = FALSE
      /\ surface = [s \in ClientSurfaces |-> Buf!NewSurface]
  BY DEF Buf!Init
<1>2. StoreInv(Buf!Store, params, Expected(surface, ObjectsIn(buffer), lost))
  <2>1. /\ DOMAIN Buf!Store = {"buffer", "pool", "open"} /\ Buf!Store.buffer = buffer
        /\ Buf!Store.pool = [p \in Pools |-> Buf!NoPool] /\ Buf!Store.open = {}
        /\ Buf!Store.buffer = [b \in ClientBuffers |-> Buf!NoBuffer]
    BY DEF Buf!Init, Buf!Store
  <2> DEFINE st == Buf!Store
  <2>2. StoreInv(st, Buf!NoParams, Expected(surface, ObjectsIn(st.buffer), {}))
    <3>1. st = Buf!Store
      OBVIOUS
    <3> HIDE DEF st
    <3> QED BY <1>1, <2>1, <3>1, NothingThere
  <2> QED BY <1>1, <2>1, <2>2
<1>3. BufferTypes
  BY <1>1 DEF BufferTypes, Buf!NoParams, ParamsRecords, SurfaceRecords, Buf!NewSurface
<1>4. \A s \in ClientSurfaces : surface[s].pending = None /\ surface[s].current = None
  BY <1>1 DEF Buf!NewSurface
<1> QED BY <1>1, <1>2, <1>3, <1>4
        DEF BuffersInv, GoneHoldsNothing, LostLate, Waiting, SharedKnown, ShownWaits

LEMMA FaultStep ==
  ASSUME BuffersAssumption, BuffersInv, Buf!Fault
  PROVE  BuffersInv'
<1>1. /\ params' = Buf!NoParams /\ lost' = {} /\ busy' = {} /\ shared' = {} /\ dead' = FALSE /\ faulted' = TRUE
      /\ surface' = [s \in ClientSurfaces |-> Buf!NewSurface]
  BY DEF Buf!Fault
<1>2. StoreInv(Buf!Store, params, Expected(surface, ObjectsIn(buffer), lost))'
  <2>1. /\ DOMAIN Buf!Store' = {"buffer", "pool", "open"} /\ Buf!Store'.buffer = buffer'
        /\ Buf!Store'.pool = [p \in Pools |-> Buf!NoPool] /\ Buf!Store'.open = {}
        /\ Buf!Store'.buffer = [b \in ClientBuffers |-> Buf!NoBuffer]
    BY DEF Buf!Fault, Buf!Store
  <2> DEFINE st == Buf!Store'
             sf == surface'
             bf == buffer'
             ps == params'
             ls == lost'
  <2>2. /\ st = Buf!Store' /\ sf = [s \in ClientSurfaces |-> Buf!NewSurface] /\ st.buffer = bf
        /\ ps = Buf!NoParams /\ ls = {}
    BY <1>1, <2>1
  <2>3. StoreInv(st, ps, Expected(sf, ObjectsIn(bf), ls))
    <3> HIDE DEF st, sf, bf, ps, ls
    <3>1. StoreInv(st, Buf!NoParams, Expected(sf, ObjectsIn(st.buffer), {}))
      BY <2>1, <2>2, NothingThere
    <3> QED BY <2>2, <3>1
  <2> QED BY <2>3
<1>3. BufferTypes'
  BY <1>1 DEF BufferTypes, Buf!NoParams, ParamsRecords, SurfaceRecords, Buf!NewSurface
<1>4. \A s \in ClientSurfaces : surface'[s].pending = None /\ surface'[s].current = None
  BY <1>1 DEF Buf!NewSurface
<1>5. GoneHoldsNothing' /\ LostLate' /\ Waiting' /\ SharedKnown' /\ ShownWaits'
  BY <1>1, <1>4 DEF GoneHoldsNothing, LostLate, Waiting, SharedKnown, ShownWaits
<1> QED BY <1>2, <1>3, <1>5 DEF BuffersInv

-----------------------------------------------------------------------------
(* Pools.                                                                   *)

\* One pool is another, with as many buffers as before.
LEMMA PoolChange ==
  ASSUME NEW st, NEW to, NEW ps, NEW n, StoreInv(st, ps, n), NEW p \in Pools, NEW x \in PoolRecords,
         DOMAIN to = {"buffer", "pool", "open"}, to.buffer = st.buffer, to.open = st.open,
         to.pool = [st.pool EXCEPT ![p] = x], x.buffers = st.pool[p].buffers,
         x.exists <=> x.object \/ Mine(st, p) # {}, ~x.exists => x = Buf!NoPool,
         Mine(st, p) # {} => st.pool[p].size <= x.size
  PROVE  StoreInv(to, ps, n)
<1>1. /\ Stored(st) /\ PoolsKept(st) /\ FdsKept(st, ps) /\ Counted(st, n)
      /\ st.pool \in [Pools -> PoolRecords] /\ st.buffer \in [ClientBuffers -> BufferRecords]
  BY DEF StoreInv, Stored
<1>2. Stored(to)
  BY <1>1 DEF Stored
<1>3. \A r : Mine(to, r) = Mine(st, r)
  BY DEF Mine
<1>4. ASSUME NEW r \in Pools PROVE PoolKept(to, r)
  <2>1. PoolKept(st, r)
    BY <1>1 DEF PoolsKept
  <2>2. CASE r # p
    <3>1. to.pool[r] = st.pool[r]
      BY <1>1, <2>2
    <3> QED BY <1>3, <2>1, <3>1 DEF PoolKept
  <2>3. CASE r = p
    <3>1. to.pool[r] = x
      BY <1>1, <2>3
    <3>2. ASSUME NEW b \in Mine(st, r) PROVE st.buffer[b].end <= x.size
      <4>1. st.buffer[b].end \in Nat /\ st.pool[p].size \in 0 .. MaxSize /\ x.size \in 0 .. MaxSize
        BY <1>1, <3>2 DEF Mine, BufferRecords, PoolRecords
      <4>2. st.buffer[b].end <= st.pool[p].size /\ st.pool[p].size <= x.size
        BY <2>1, <2>3, <3>2 DEF PoolKept
      <4> QED BY <4>1, <4>2
    <3> QED BY <1>3, <2>1, <2>3, <3>1, <3>2 DEF PoolKept
  <2> QED BY <2>2, <2>3
<1>5. FdsKept(to, ps)
  BY <1>1 DEF FdsKept
<1>6. Counted(to, n)
  BY <1>1 DEF Counted
<1> QED BY <1>2, <1>4, <1>5, <1>6 DEF StoreInv, PoolsKept

\* What a step does that changes one pool only.
LEMMA PoolMoves ==
  ASSUME BuffersAssumption, BuffersInv, NEW p \in Pools, NEW x \in PoolRecords,
         pool' = [pool EXCEPT ![p] = x], x.buffers = pool[p].buffers,
         x.exists <=> x.object \/ Mine(Buf!Store, p) # {}, ~x.exists => x = Buf!NoPool,
         Mine(Buf!Store, p) # {} => pool[p].size <= x.size,
         UNCHANGED <<buffer, params, surface, open, busy, shared, lost, dead, faulted>>
  PROVE  BuffersInv'
<1> DEFINE n == Expected(surface, ObjectsIn(buffer), lost)
           to == [buffer |-> buffer, pool |-> pool', open |-> open]
           ps == params
           st == Buf!Store
<1>1. StoreInv(st, ps, n) /\ st.buffer = buffer /\ st.pool = pool /\ st.open = open
  BY BufferFacts DEF BuffersInv
<1>2. /\ DOMAIN to = {"buffer", "pool", "open"} /\ to.buffer = st.buffer /\ to.open = st.open
      /\ to.pool = [st.pool EXCEPT ![p] = x] /\ x.buffers = st.pool[p].buffers
      /\ (x.exists <=> x.object \/ Mine(st, p) # {}) /\ (~x.exists => x = Buf!NoPool)
      /\ (Mine(st, p) # {} => st.pool[p].size <= x.size)
  BY <1>1
<1>3. Buf!SetStore(to)
  BY DEF Buf!SetStore
<1>4. StoreInv(to, ps, n)
  <2> HIDE DEF n, to, ps, st
  <2> QED BY <1>1, <1>2, PoolChange
<1>5. Expected(surface, ObjectsIn(buffer), lost)' = n /\ params' = ps
  BY DEF Expected, ObjectsIn, HoldersOf
<1>6. StoreInv(to, params', n) /\ \A b \in ClientBuffers : Expected(surface, ObjectsIn(buffer), lost)'[b] = n[b]
  BY <1>4, <1>5
<1>7. StoreInv(Buf!Store, params, Expected(surface, ObjectsIn(buffer), lost))'
  <2> HIDE DEF n, to, ps, st
  <2> QED BY <1>3, <1>6, StoreSet
<1>8. BufferTypes'
  BY DEF BuffersInv, BufferTypes
<1>9. GoneHoldsNothing' /\ LostLate' /\ Waiting' /\ SharedKnown' /\ ShownWaits'
  BY ViewKept
<1> QED BY <1>7, <1>8, <1>9 DEF BuffersInv

LEMMA PoolFacts ==
  ASSUME BuffersAssumption, BuffersInv, NEW p \in Pools
  PROVE  /\ pool[p] \in PoolRecords /\ pool[p].buffers \in Nat
         /\ (pool[p].buffers = 0 <=> Mine(Buf!Store, p) = {})
         /\ (pool[p].exists <=> pool[p].object \/ Mine(Buf!Store, p) # {})
         /\ (~pool[p].exists => pool[p] = Buf!NoPool)
<1> DEFINE st == Buf!Store
<1>1. st.pool = pool /\ pool \in [Pools -> PoolRecords] /\ StoreInv(st, params, Expected(surface, ObjectsIn(buffer), lost))
  BY BufferFacts DEF BuffersInv
<1> HIDE DEF st
<1>2. PoolKept(st, p)
  BY <1>1 DEF StoreInv, PoolsKept
<1>3. Cardinality(Mine(st, p)) \in Nat /\ (Cardinality(Mine(st, p)) = 0 <=> Mine(st, p) = {})
  BY MineFinite
<1> QED BY <1>1, <1>2, <1>3 DEF PoolKept, st

LEMMA CreatePoolStep ==
  ASSUME BuffersAssumption, BuffersInv, NEW p \in Pools, Buf!CreatePool(p)
  PROVE  BuffersInv'
<1>1. PICK k \in 1 .. MaxSize :
        pool' = [pool EXCEPT ![p] = [exists |-> TRUE, object |-> TRUE, size |-> k,
                                     buffers |-> 0, writable |-> TRUE]]
  BY DEF Buf!CreatePool
<1> DEFINE x == [exists |-> TRUE, object |-> TRUE, size |-> k, buffers |-> 0, writable |-> TRUE]
<1>2. x \in PoolRecords /\ x.exists /\ x.object /\ x.buffers = 0
  BY BuffersAssumption DEF PoolRecords
<1>3. pool[p].buffers = 0 /\ Mine(Buf!Store, p) = {}
  BY PoolFacts DEF Buf!CreatePool, Buf!NoPool
<1>4. UNCHANGED <<buffer, params, surface, open, busy, shared, lost, dead, faulted>>
  BY DEF Buf!CreatePool
<1>5. pool' = [pool EXCEPT ![p] = x]
  BY <1>1
<1> HIDE DEF x
<1> QED BY <1>2, <1>3, <1>4, <1>5, PoolMoves

LEMMA ResizePoolStep ==
  ASSUME BuffersAssumption, BuffersInv, NEW p \in Pools, Buf!ResizePool(p)
  PROVE  BuffersInv'
<1>0. pool[p] \in PoolRecords /\ pool \in [Pools -> PoolRecords]
  BY BufferFacts
<1>1. PICK k \in pool[p].size + 1 .. MaxSize : pool' = [pool EXCEPT ![p].size = k, ![p].writable = FALSE]
  BY DEF Buf!ResizePool
<1> DEFINE x == [pool[p] EXCEPT !.size = k, !.writable = FALSE]
<1>2. k \in 0 .. MaxSize /\ pool[p].size <= k
  BY <1>0, BuffersAssumption DEF PoolRecords
<1>3. /\ x \in PoolRecords /\ x.exists = pool[p].exists /\ x.object = pool[p].object
      /\ x.buffers = pool[p].buffers /\ x.size = k
  BY <1>0, <1>2 DEF PoolRecords
<1>4. pool' = [pool EXCEPT ![p] = x]
  BY <1>0, <1>1
<1>5. pool[p].object /\ UNCHANGED <<buffer, params, surface, open, busy, shared, lost, dead, faulted>>
  BY DEF Buf!ResizePool
<1> HIDE DEF x
<1>6. x.exists
  BY <1>3, <1>5, PoolFacts
<1> QED BY <1>2, <1>3, <1>4, <1>5, <1>6, PoolMoves

LEMMA PoolDestroyedStep ==
  ASSUME BuffersAssumption, BuffersInv, NEW p \in Pools, Buf!PoolDestroyed(p)
  PROVE  BuffersInv'
<1>0. /\ pool[p] \in PoolRecords /\ pool \in [Pools -> PoolRecords] /\ Buf!Store.buffer = buffer
      /\ Buf!Store.pool = pool /\ Buf!Store.open = open /\ DOMAIN Buf!Store = {"buffer", "pool", "open"}
  BY BufferFacts
<1>1. /\ pool[p].object /\ UNCHANGED <<params, surface, busy, shared, lost, dead, faulted>>
      /\ Buf!SetStore(IF pool[p].buffers = 0 THEN Buf!DestroyPool(Buf!Store, p)
                      ELSE [Buf!Store EXCEPT !.pool[p].object = FALSE])
  BY DEF Buf!PoolDestroyed
<1>2. CASE pool[p].buffers = 0
  <2>1. Buf!SetStore([Buf!Store EXCEPT !.pool[p] = Buf!NoPool])
    BY <1>1, <1>2 DEF Buf!DestroyPool
  <2>2. pool' = [pool EXCEPT ![p] = Buf!NoPool] /\ UNCHANGED <<buffer, open>>
    BY <1>0, <2>1 DEF Buf!SetStore
  <2>3. Buf!NoPool \in PoolRecords /\ ~Buf!NoPool.exists /\ ~Buf!NoPool.object /\ Buf!NoPool.buffers = 0
    BY BuffersAssumption DEF Buf!NoPool, PoolRecords
  <2>4. Mine(Buf!Store, p) = {}
    BY <1>2, PoolFacts
  <2> QED BY <1>1, <1>2, <2>2, <2>3, <2>4, PoolMoves
<1>3. CASE pool[p].buffers # 0
  <2> DEFINE x == [pool[p] EXCEPT !.object = FALSE]
  <2>1. Buf!SetStore([Buf!Store EXCEPT !.pool[p].object = FALSE])
    BY <1>1, <1>3
  <2>2. pool' = [pool EXCEPT ![p] = x] /\ UNCHANGED <<buffer, open>>
    BY <1>0, <2>1 DEF Buf!SetStore
  <2>3. /\ x \in PoolRecords /\ x.exists = pool[p].exists /\ x.object = FALSE /\ x.size = pool[p].size
        /\ x.buffers = pool[p].buffers
    BY <1>0 DEF PoolRecords
  <2> HIDE DEF x
  <2>4. Mine(Buf!Store, p) # {} /\ pool[p].exists
    BY <1>1, <1>3, PoolFacts
  <2>5. pool[p].size <= x.size
    BY <1>0, <2>3 DEF PoolRecords
  <2> QED BY <1>1, <2>2, <2>3, <2>4, <2>5, PoolMoves
<1> QED BY <1>2, <1>3

-----------------------------------------------------------------------------
(* Buffers that come.                                                       *)

\* A buffer that was not there: counted in its pool, if it has one, and held by
\* its object alone.
NewRecord(st, x) ==
  /\ x \in BufferRecords /\ x.exists /\ x.object /\ x.refs = 1
  /\ x.pool # None => st.pool[x.pool].object /\ x.end <= st.pool[x.pool].size

NewKept(st, to, qs, n, b) == StoreInv(to, qs, [n EXCEPT ![b] = 1])

LEMMA NewBuffer ==
  ASSUME BuffersAssumption, NEW st, NEW to, NEW ps, NEW qs, NEW n \in [ClientBuffers -> Nat], StoreInv(st, ps, n),
         NEW b \in ClientBuffers, ~st.buffer[b].exists, NEW x, NewRecord(st, x),
         DOMAIN to = {"buffer", "pool", "open"}, to.buffer = [st.buffer EXCEPT ![b] = x], to.open \subseteq Fds,
         to.pool = IF x.pool = None THEN st.pool ELSE [st.pool EXCEPT ![x.pool].buffers = @ + 1],
         FdsKept(to, qs)
  PROVE  NewKept(st, to, qs, n, b)
<1> DEFINE p == x.pool
<1>0. /\ Stored(st) /\ PoolsKept(st) /\ Counted(st, n)
      /\ st.buffer \in [ClientBuffers -> BufferRecords] /\ st.pool \in [Pools -> PoolRecords]
      /\ p \in Pools \cup {None}
  BY DEF StoreInv, Stored, BufferRecords, NewRecord
<1>1. /\ x \in BufferRecords /\ x.exists /\ x.object /\ x.refs = 1
      /\ p # None => st.pool[p].object /\ x.end <= st.pool[p].size
  BY DEF NewRecord
<1>2. /\ p = None => to.pool = st.pool
      /\ p # None => to.pool = [st.pool EXCEPT ![p].buffers = @ + 1]
  OBVIOUS
<1>3. \A c \in ClientBuffers : to.buffer[c] = IF c = b THEN x ELSE st.buffer[c]
  BY <1>0
<1>4. /\ \A r : r # p => Mine(to, r) = Mine(st, r)
      /\ Mine(to, p) = Mine(st, p) \cup {b} /\ b \notin Mine(st, p)
  BY <1>1, <1>3 DEF Mine
<1> HIDE DEF p
<1>5. Cardinality(Mine(to, p)) = Cardinality(Mine(st, p)) + 1 /\ Cardinality(Mine(st, p)) \in Nat
  BY <1>4, MineFinite, FS_AddElement
<1>6. ASSUME p # None
      PROVE  /\ p \in Pools /\ PoolKept(st, p) /\ st.pool[p] \in PoolRecords
             /\ to.pool[p] = [st.pool[p] EXCEPT !.buffers = @ + 1]
             /\ [st.pool[p] EXCEPT !.buffers = @ + 1] \in PoolRecords
  <2>1. p \in Pools /\ PoolKept(st, p) /\ st.pool[p] \in PoolRecords
    BY <1>0, <1>6 DEF PoolsKept
  <2> QED BY <1>0, <1>2, <1>6, <2>1 DEF PoolRecords
<1>7. Stored(to)
  <2>1. to.pool \in [Pools -> PoolRecords]
    <3>1. CASE p = None
      BY <1>0, <1>2, <3>1
    <3>2. CASE p # None
      <4> DEFINE y == [st.pool[p] EXCEPT !.buffers = @ + 1]
      <4>1. y \in PoolRecords /\ to.pool = [st.pool EXCEPT ![p] = y]
        BY <1>0, <1>2, <1>6, <3>2
      <4> HIDE DEF y
      <4> QED BY <1>0, <4>1
    <3> QED BY <3>1, <3>2
  <2>2. to.buffer \in [ClientBuffers -> BufferRecords]
    BY <1>0, <1>1
  <2> QED BY <2>1, <2>2 DEF Stored
<1>8. ASSUME NEW r \in Pools PROVE PoolKept(to, r)
  <2>1. CASE r # p
    <3>1. to.pool[r] = st.pool[r] /\ PoolKept(st, r) /\ Mine(to, r) = Mine(st, r)
      BY <1>0, <1>2, <1>4, <2>1 DEF PoolsKept
    <3>2. \A c \in Mine(st, r) : to.buffer[c] = st.buffer[c]
      BY <1>3, <1>1, <1>0 DEF Mine
    <3> QED BY <3>1, <3>2 DEF PoolKept
  <2>2. CASE r = p /\ p # None
    <3>1. /\ to.pool[p].buffers = st.pool[p].buffers + 1 /\ to.pool[p].exists = st.pool[p].exists
          /\ to.pool[p].object = st.pool[p].object /\ to.pool[p].size = st.pool[p].size
      BY <1>6, <2>2 DEF PoolRecords
    <3>2. \A c \in Mine(to, p) : c = b \/ (c \in Mine(st, p) /\ to.buffer[c] = st.buffer[c])
      BY <1>3, <1>4 DEF Mine
    <3>3. to.buffer[b] = x /\ st.pool[p].object /\ x.end <= st.pool[p].size
      BY <1>1, <1>3, <2>2
    <3>4. st.pool[p].exists /\ to.pool[p].object /\ to.pool[p].buffers = Cardinality(Mine(to, p))
          /\ \A c \in Mine(st, p) : st.buffer[c].end <= st.pool[p].size
      BY <1>5, <1>6, <2>2, <3>1, <3>3 DEF PoolKept
    <3> QED BY <2>2, <3>1, <3>2, <3>3, <3>4 DEF PoolKept
  <2>3. p # None \/ r # p
    BY <1>0 DEF BuffersAssumption
  <2> QED BY <2>1, <2>2, <2>3
<1>9. Counted(to, [n EXCEPT ![b] = 1])
  <2>1. ASSUME NEW c \in ClientBuffers, c # b PROVE to.buffer[c] = st.buffer[c] /\ [n EXCEPT ![b] = 1][c] = n[c]
    BY <1>3, <2>1
  <2> QED BY <1>0, <1>1, <1>3, <2>1 DEF Counted
<1> QED BY <1>7, <1>8, <1>9 DEF StoreInv, PoolsKept, NewKept

\* What a step does by which a buffer comes.
LEMMA BufferComes ==
  ASSUME BuffersAssumption, BuffersInv, NEW b \in ClientBuffers, ~buffer[b].exists, NEW x, NewRecord(Buf!Store, x),
         buffer' = [buffer EXCEPT ![b] = x], open' \subseteq Fds,
         pool' = IF x.pool = None THEN pool ELSE [pool EXCEPT ![x.pool].buffers = @ + 1],
         FdsKept([buffer |-> buffer', pool |-> pool', open |-> open'], params'), params' \in [Params -> ParamsRecords],
         UNCHANGED <<surface, busy, shared, lost, dead, faulted>>
  PROVE  BuffersInv'
<1> DEFINE n == Expected(surface, ObjectsIn(buffer), lost)
           k == Expected(surface, ObjectsIn(buffer), lost)'
           to == [buffer |-> buffer', pool |-> pool', open |-> open']
           st == Buf!Store
           qs == params'
<1>1. /\ StoreInv(st, params, n) /\ st.buffer = buffer /\ st.pool = pool /\ st.open = open
      /\ n \in [ClientBuffers -> Nat] /\ buffer \in [ClientBuffers -> BufferRecords]
      /\ \A c \in ClientBuffers :
           /\ (buffer[c].exists <=> n[c] > 0)
           /\ Cardinality(HoldersOf(surface, c)) \in Nat
           /\ n[c] = Cardinality(HoldersOf(surface, c)) + One(buffer[c].object) + One(c \in lost)
           /\ buffer[c].object => buffer[c].exists
  BY BufferFacts DEF BuffersInv
<1>2. /\ DOMAIN to = {"buffer", "pool", "open"} /\ to.buffer = [st.buffer EXCEPT ![b] = x] /\ to.open \subseteq Fds
      /\ to.pool = (IF x.pool = None THEN st.pool ELSE [st.pool EXCEPT ![x.pool].buffers = @ + 1])
      /\ FdsKept(to, qs) /\ ~st.buffer[b].exists /\ NewRecord(st, x)
  BY <1>1
<1>3. Buf!SetStore(to)
  BY DEF Buf!SetStore
<1>4. x.object /\ \A c \in ClientBuffers : buffer'[c] = IF c = b THEN x ELSE buffer[c]
  BY <1>1 DEF NewRecord
<1>5. \A c \in ClientBuffers :
        k[c] = Cardinality(HoldersOf(surface, c)) + One(buffer'[c].object) + One(c \in lost)
  <2> TAKE c \in ClientBuffers
  <2>1. HoldersOf(surface, c)' = HoldersOf(surface, c)
    BY DEF HoldersOf
  <2>2. (c \in ObjectsIn(buffer)') <=> buffer'[c].object
    BY DEF ObjectsIn
  <2>3. One(c \in ObjectsIn(buffer))' = One(buffer'[c].object)
    BY <2>2 DEF One
  <2> QED BY <2>1, <2>3 DEF Expected
<1> HIDE DEF n, to, st, k, qs
<1>6. NewKept(st, to, qs, n, b)
  BY <1>1, <1>2, NewBuffer
<1>7. n[b] = 0 /\ ~buffer[b].object /\ HoldersOf(surface, b) = {} /\ One(b \in lost) = 0
  <2>1. n[b] = 0 /\ ~buffer[b].object
    BY <1>1
  <2>2. One(buffer[b].object) \in {0, 1} /\ One(b \in lost) \in {0, 1}
    BY DEF One
  <2>3. Cardinality(HoldersOf(surface, b)) = 0 /\ One(b \in lost) = 0
    BY <1>1, <2>1, <2>2
  <2> QED BY <2>1, <2>3, HoldersFinite
<1>8. \A c \in ClientBuffers : k[c] = [n EXCEPT ![b] = 1][c]
  <2> TAKE c \in ClientBuffers
  <2>1. CASE c = b
    <3>1. Cardinality(HoldersOf(surface, b)) = 0 /\ One(buffer'[b].object) = 1
      BY <1>4, <1>7, HoldersFinite DEF One
    <3>2. k[b] = Cardinality(HoldersOf(surface, b)) + One(buffer'[b].object) + One(b \in lost)
      BY <1>5
    <3>3. k[b] = 1
      BY <1>7, <3>1, <3>2
    <3>4. [n EXCEPT ![b] = 1][b] = 1
      BY <1>1
    <3> QED BY <2>1, <3>3, <3>4
  <2>2. CASE c # b
    BY <1>1, <1>4, <1>5, <2>2
  <2> QED BY <2>1, <2>2
<1>9. StoreInv(Buf!Store, params, Expected(surface, ObjectsIn(buffer), lost))'
  <2> DEFINE h == [n EXCEPT ![b] = 1]
  <2>1. StoreInv(to, params', h) /\ \A c \in ClientBuffers : Expected(surface, ObjectsIn(buffer), lost)'[c] = h[c]
    BY <1>6, <1>8 DEF NewKept, qs, k
  <2> HIDE DEF h
  <2> QED BY <1>3, <2>1, StoreSet
<1>10. BufferTypes'
  BY DEF BuffersInv, BufferTypes
<1>11. ASSUME NEW c \in ClientBuffers, c \in busy \/ \E s \in ClientSurfaces : surface[s].current = c
       PROVE  buffer'[c].object = buffer[c].object /\ buffer'[c].pool = buffer[c].pool
  <2>1. c # b
    BY <1>7, <1>11 DEF BuffersInv, Waiting, HoldersOf
  <2> QED BY <1>4, <2>1
<1>12. GoneHoldsNothing' /\ LostLate' /\ Waiting' /\ SharedKnown' /\ ShownWaits'
  BY <1>11, ViewKept
<1> QED BY <1>9, <1>10, <1>12 DEF BuffersInv

LEMMA CreateShmBufferStep ==
  ASSUME BuffersAssumption, BuffersInv, NEW b \in ClientBuffers, NEW p \in Pools, Buf!CreateShmBuffer(b, p)
  PROVE  BuffersInv'
<1>0. /\ pool[p] \in PoolRecords /\ pool \in [Pools -> PoolRecords] /\ buffer \in [ClientBuffers -> BufferRecords]
      /\ Buf!Store.buffer = buffer /\ Buf!Store.pool = pool /\ Buf!Store.open = open
      /\ \A c \in ClientBuffers : ~buffer[c].exists => buffer[c] = Buf!NoBuffer
  BY BufferFacts
<1>1. PICK end \in 1 .. pool[p].size :
        buffer' = [buffer EXCEPT ![b] = [exists |-> TRUE, object |-> TRUE, refs |-> 1,
                                         pool |-> p, fds |-> {}, end |-> end]]
  BY DEF Buf!CreateShmBuffer
<1> DEFINE x == [exists |-> TRUE, object |-> TRUE, refs |-> 1, pool |-> p, fds |-> {}, end |-> end]
<1>2. /\ pool[p].object /\ ~buffer[b].exists /\ pool' = [pool EXCEPT ![p].buffers = @ + 1]
      /\ UNCHANGED <<params, surface, open, busy, shared, lost, dead, faulted>>
  BY DEF Buf!CreateShmBuffer
<1>3. end \in Nat /\ end <= pool[p].size
  BY <1>0 DEF PoolRecords
<1>4. x \in BufferRecords /\ x.exists /\ x.object /\ x.refs = 1 /\ x.pool = p /\ x.fds = {} /\ x.end = end /\ p # None
  BY <1>3, BuffersAssumption DEF BufferRecords
<1>5. buffer' = [buffer EXCEPT ![b] = x]
  BY <1>1
<1> HIDE DEF x
<1>6. NewRecord(Buf!Store, x)
  BY <1>0, <1>2, <1>3, <1>4 DEF NewRecord
<1>7. FdsKept(Buf!Store, params) /\ open' \subseteq Fds /\ params' \in [Params -> ParamsRecords]
  BY <1>2, BufferFacts DEF BuffersInv, StoreInv, BufferTypes
<1>8. FdsKept([buffer |-> buffer', pool |-> pool', open |-> open'], params')
  <2>1. \A c \in ClientBuffers : buffer'[c].fds = buffer[c].fds
    <3>1. buffer[b].fds = {} /\ buffer'[b] = x
      BY <1>0, <1>2, <1>5 DEF Buf!NoBuffer
    <3>2. \A c \in ClientBuffers : c # b => buffer'[c] = buffer[c]
      BY <1>0, <1>5
    <3> QED BY <1>4, <3>1, <3>2
  <2>2. open' = open /\ params' = params
    BY <1>2
  <2> QED BY <1>0, <1>7, <2>1, <2>2 DEF FdsKept
<1> QED BY <1>2, <1>4, <1>5, <1>6, <1>7, <1>8, BufferComes

-----------------------------------------------------------------------------
(* Planes.                                                                  *)

\* What a step does that changes the params, and what descriptors are open.
LEMMA ParamsMove ==
  ASSUME BuffersAssumption, BuffersInv, params' \in [Params -> ParamsRecords], open' \subseteq Fds,
         FdsKept([buffer |-> buffer, pool |-> pool, open |-> open'], params'),
         dead => dead', dead' \in BOOLEAN,
         UNCHANGED <<pool, buffer, surface, busy, shared, lost, faulted>>
  PROVE  BuffersInv'
<1> DEFINE n == Expected(surface, ObjectsIn(buffer), lost)
           to == [buffer |-> buffer, pool |-> pool, open |-> open']
           st == Buf!Store
           qs == params'
<1>1. StoreInv(st, params, n) /\ st.buffer = buffer /\ st.pool = pool /\ st.open = open
  BY BufferFacts DEF BuffersInv
<1>2. /\ DOMAIN to = {"buffer", "pool", "open"} /\ to.buffer = st.buffer /\ to.open \subseteq Fds
      /\ to.pool = st.pool /\ FdsKept(to, qs)
  BY <1>1
<1>3. Buf!SetStore(to)
  BY DEF Buf!SetStore
<1>4. StoreInv(to, qs, n)
  <2> HIDE DEF n, to, st, qs
  <2>1. \A p : Mine(to, p) = Mine(st, p)
    BY <1>2 DEF Mine
  <2>2. \A p \in Pools : PoolKept(to, p)
    BY <1>1, <1>2, <2>1 DEF PoolKept, StoreInv, PoolsKept
  <2>3. Stored(to) /\ Counted(to, n)
    BY <1>1, <1>2 DEF StoreInv, Stored, Counted
  <2> QED BY <1>2, <2>2, <2>3 DEF StoreInv, PoolsKept
<1>5. Expected(surface, ObjectsIn(buffer), lost)' = n
  BY DEF Expected, ObjectsIn, HoldersOf
<1>6. StoreInv(to, params', n) /\ \A b \in ClientBuffers : Expected(surface, ObjectsIn(buffer), lost)'[b] = n[b]
  BY <1>4, <1>5
<1>7. StoreInv(Buf!Store, params, Expected(surface, ObjectsIn(buffer), lost))'
  <2> HIDE DEF n, to, st, qs
  <2> QED BY <1>3, <1>6, StoreSet
<1>8. BufferTypes'
  BY DEF BuffersInv, BufferTypes
<1>9. GoneHoldsNothing' /\ LostLate' /\ Waiting' /\ SharedKnown' /\ ShownWaits'
  BY ViewKept
<1> QED BY <1>7, <1>8, <1>9 DEF BuffersInv

LEMMA PlaneFacts ==
  ASSUME BuffersAssumption, BuffersInv
  PROVE  /\ params \in [Params -> ParamsRecords] /\ open \subseteq Fds /\ dead \in BOOLEAN
         /\ buffer \in [ClientBuffers -> BufferRecords]
         /\ \A f \in Fds : f \in open <=> \/ \E q \in Params : f \in params[q].fds
                                          \/ \E b \in ClientBuffers : f \in buffer[b].fds
         /\ \A b, c \in ClientBuffers : b # c => buffer[b].fds \cap buffer[c].fds = {}
         /\ \A b \in ClientBuffers, q \in Params : buffer[b].fds \cap params[q].fds = {}
         /\ \A q, r \in Params : q # r => params[q].fds \cap params[r].fds = {}
<1> DEFINE st == Buf!Store
<1>1. FdsKept(st, params) /\ st.buffer = buffer /\ st.open = open
  BY BufferFacts DEF BuffersInv, StoreInv
<1>2. /\ params \in [Params -> ParamsRecords] /\ open \subseteq Fds /\ dead \in BOOLEAN
      /\ buffer \in [ClientBuffers -> BufferRecords]
  BY BufferFacts DEF BuffersInv, BufferTypes
<1> HIDE DEF st
<1> QED BY <1>1, <1>2 DEF FdsKept

\* Params that hold as many planes as before, whatever became of their state.
LEMMA StateMoves ==
  ASSUME BuffersAssumption, BuffersInv, NEW q \in Params, NEW v \in {"none", "open", "used"},
         params' = [params EXCEPT ![q].state = v], dead => dead', dead' \in BOOLEAN,
         UNCHANGED <<pool, buffer, surface, open, busy, shared, lost, faulted>>
  PROVE  BuffersInv'
<1> DEFINE to == [buffer |-> buffer, pool |-> pool, open |-> open']
           qs == params'
<1>1. params \in [Params -> ParamsRecords]
  BY PlaneFacts
<1>2. /\ qs \in [Params -> ParamsRecords]
      /\ \A r \in Params : qs[r].fds = params[r].fds
  BY <1>1 DEF ParamsRecords
<1>3. to.buffer = buffer /\ to.open = open
  OBVIOUS
<1>4. FdsKept(to, qs)
  <2> HIDE DEF to, qs
  <2> QED BY <1>2, <1>3, PlaneFacts DEF FdsKept
<1>5. open' \subseteq Fds
  BY PlaneFacts
<1> QED BY <1>2, <1>4, <1>5, ParamsMove

LEMMA CreateParamsStep ==
  ASSUME BuffersAssumption, BuffersInv, NEW q \in Params, Buf!CreateParams(q)
  PROVE  BuffersInv'
<1>1. /\ params' = [params EXCEPT ![q].state = "open"]
      /\ UNCHANGED <<pool, buffer, surface, open, busy, shared, lost, dead, faulted>>
  BY DEF Buf!CreateParams
<1> QED BY <1>1, StateMoves, PlaneFacts

LEMMA AddPlaneStep ==
  ASSUME BuffersAssumption, BuffersInv, NEW q \in Params, NEW f \in Fds, Buf!AddPlane(q, f)
  PROVE  BuffersInv'
<1> DEFINE to == [buffer |-> buffer, pool |-> pool, open |-> open']
           qs == params'
<1>1. /\ f \notin open /\ open' = open \cup {f} /\ params' = [params EXCEPT ![q].fds = @ \cup {f}]
      /\ UNCHANGED <<pool, buffer, surface, busy, shared, lost, dead, faulted>>
  BY DEF Buf!AddPlane
<1>2. params \in [Params -> ParamsRecords]
  BY PlaneFacts
<1>3. /\ qs \in [Params -> ParamsRecords]
      /\ \A r \in Params : qs[r].fds = IF r = q THEN params[r].fds \cup {f} ELSE params[r].fds
  BY <1>1, <1>2 DEF ParamsRecords
<1>4. to.buffer = buffer /\ to.open = open \cup {f}
  BY <1>1
<1>5. /\ \A r \in Params : f \notin params[r].fds
      /\ \A b \in ClientBuffers : f \notin buffer[b].fds
  BY <1>1, PlaneFacts
<1>6. FdsKept(to, qs)
  <2> HIDE DEF to, qs
  <2>1. \A g \in Fds : g \in to.open <=> \/ \E r \in Params : g \in qs[r].fds
                                         \/ \E b \in ClientBuffers : g \in to.buffer[b].fds
    BY <1>3, <1>4, PlaneFacts
  <2>2. \A b \in ClientBuffers, r \in Params : to.buffer[b].fds \cap qs[r].fds = {}
    <3> TAKE b \in ClientBuffers, r \in Params
    <3>1. buffer[b].fds \cap params[r].fds = {} /\ f \notin buffer[b].fds
      BY <1>5, PlaneFacts
    <3> QED BY <1>3, <1>4, <3>1
  <2>3. \A r, s \in Params : r # s => qs[r].fds \cap qs[s].fds = {}
    <3> TAKE r, s \in Params
    <3>1. /\ r # s => params[r].fds \cap params[s].fds = {}
          /\ f \notin params[r].fds /\ f \notin params[s].fds
      BY <1>5, PlaneFacts
    <3> QED BY <1>3, <3>1
  <2> QED BY <1>4, <2>1, <2>2, <2>3, PlaneFacts DEF FdsKept
<1>7. open' \subseteq Fds /\ dead' = dead /\ dead \in BOOLEAN
  BY <1>1, PlaneFacts
<1> QED BY <1>1, <1>3, <1>6, <1>7, ParamsMove

\* Params that give up their planes, which are closed.
LEMMA PlanesClosed ==
  ASSUME BuffersAssumption, BuffersInv, NEW q \in Params, NEW v \in {"none", "open", "used"},
         params' = [params EXCEPT ![q] = [state |-> v, fds |-> {}]], open' = open \ params[q].fds,
         dead => dead', dead' \in BOOLEAN,
         UNCHANGED <<pool, buffer, surface, busy, shared, lost, faulted>>
  PROVE  BuffersInv'
<1> DEFINE to == [buffer |-> buffer, pool |-> pool, open |-> open']
           qs == params'
<1>1. params \in [Params -> ParamsRecords]
  BY PlaneFacts
<1>2. /\ qs \in [Params -> ParamsRecords]
      /\ \A r \in Params : qs[r].fds = IF r = q THEN {} ELSE params[r].fds
  BY <1>1 DEF ParamsRecords
<1>3. to.buffer = buffer /\ to.open = open \ params[q].fds
  OBVIOUS
<1>4. FdsKept(to, qs)
  <2> HIDE DEF to, qs
  <2>1. \A g \in Fds : g \in to.open <=> \/ \E r \in Params : g \in qs[r].fds
                                         \/ \E b \in ClientBuffers : g \in to.buffer[b].fds
    BY <1>2, <1>3, PlaneFacts
  <2>2. \A b \in ClientBuffers, r \in Params : to.buffer[b].fds \cap qs[r].fds = {}
    BY <1>2, <1>3, PlaneFacts
  <2>3. \A r, s \in Params : r # s => qs[r].fds \cap qs[s].fds = {}
    BY <1>2, PlaneFacts
  <2> QED BY <1>3, <2>1, <2>2, <2>3, PlaneFacts DEF FdsKept
<1>5. open' \subseteq Fds
  BY PlaneFacts
<1> QED BY <1>2, <1>4, <1>5, ParamsMove

LEMMA ParamsDestroyedStep ==
  ASSUME BuffersAssumption, BuffersInv, NEW q \in Params, Buf!ParamsDestroyed(q)
  PROVE  BuffersInv'
<1>1. /\ params' = [params EXCEPT ![q] = [state |-> "none", fds |-> {}]] /\ open' = open \ params[q].fds
      /\ UNCHANGED <<pool, buffer, surface, busy, shared, lost, dead, faulted>>
  BY DEF Buf!ParamsDestroyed
<1> QED BY <1>1, PlanesClosed, PlaneFacts

LEMMA ParamsCreateStep ==
  ASSUME BuffersAssumption, BuffersInv, NEW q \in Params, NEW b \in ClientBuffers, Buf!ParamsCreate(q, b)
  PROVE  BuffersInv'
<1>1. ~buffer[b].exists /\ ~dead /\ UNCHANGED <<pool, surface, busy, shared, lost, faulted>>
  BY DEF Buf!ParamsCreate, Buf!Alive
<1>2. CASE Buf!Import(q, b) /\ UNCHANGED <<open, dead>>
  <2> DEFINE x == [exists |-> TRUE, object |-> TRUE, refs |-> 1, pool |-> None, fds |-> params[q].fds, end |-> 0]
             to == [buffer |-> buffer', pool |-> pool', open |-> open']
             qs == params'
  <2>1. /\ params' = [params EXCEPT ![q] = [state |-> "used", fds |-> {}]]
        /\ buffer' = [buffer EXCEPT ![b] = x] /\ open' = open /\ dead' = dead
    BY <1>2 DEF Buf!Import
  <2>2. /\ params \in [Params -> ParamsRecords] /\ buffer \in [ClientBuffers -> BufferRecords] /\ params[q].fds \subseteq Fds
        /\ open \subseteq Fds
    BY PlaneFacts DEF ParamsRecords
  <2>3. x \in BufferRecords /\ x.exists /\ x.object /\ x.refs = 1 /\ x.pool = None /\ x.fds = params[q].fds
    BY <2>2 DEF BufferRecords
  <2> HIDE DEF x
  <2>4. /\ qs \in [Params -> ParamsRecords]
        /\ \A r \in Params : qs[r].fds = IF r = q THEN {} ELSE params[r].fds
    BY <2>1, <2>2 DEF ParamsRecords
  <2>5. /\ buffer[b].fds = {}
        /\ \A c \in ClientBuffers : buffer'[c].fds = IF c = b THEN params[q].fds ELSE buffer[c].fds
    BY <1>1, <2>1, <2>2, <2>3, BufferFacts DEF Buf!NoBuffer
  <2>6. to.buffer = buffer' /\ to.open = open
    BY <2>1
  <2>7. FdsKept(to, qs)
    <3> HIDE DEF to, qs
    <3>1. \A g \in Fds : g \in to.open <=> \/ \E r \in Params : g \in qs[r].fds
                                           \/ \E c \in ClientBuffers : g \in to.buffer[c].fds
      BY <2>4, <2>5, <2>6, PlaneFacts
    <3>2. \A c \in ClientBuffers, r \in Params : to.buffer[c].fds \cap qs[r].fds = {}
      BY <2>4, <2>5, <2>6, PlaneFacts
    <3>3. \A r, s \in Params : r # s => qs[r].fds \cap qs[s].fds = {}
      BY <2>4, PlaneFacts
    <3>4. \A c, e \in ClientBuffers : c # e => to.buffer[c].fds \cap to.buffer[e].fds = {}
      BY <2>5, <2>6, PlaneFacts
    <3> QED BY <3>1, <3>2, <3>3, <3>4 DEF FdsKept
  <2>8. NewRecord(Buf!Store, x)
    BY <2>3 DEF NewRecord
  <2> QED BY <1>1, <2>1, <2>2, <2>3, <2>4, <2>7, <2>8, BufferComes
<1>3. CASE /\ params' = [params EXCEPT ![q] = [state |-> "used", fds |-> {}]]
           /\ open' = open \ params[q].fds /\ Buf!PostError /\ UNCHANGED buffer
  <2>1. dead' = TRUE
    BY <1>3 DEF Buf!PostError
  <2> QED BY <1>1, <1>3, <2>1, PlanesClosed
<1>4. CASE /\ params' = [params EXCEPT ![q].state = "used"]
           /\ dead' \in (IF params[q].state = "open" /\ params[q].fds # {} THEN BOOLEAN ELSE {TRUE})
           /\ UNCHANGED <<buffer, open>>
  BY <1>1, <1>4, StateMoves
<1> QED BY <1>2, <1>3, <1>4 DEF Buf!ParamsCreate

LEMMA BuffersStutter ==
  ASSUME BuffersInv, UNCHANGED Buf!bufferVars
  PROVE  BuffersInv'
<1>1. UNCHANGED <<pool, buffer, params, surface, open, busy, shared, lost, dead, faulted>>
  BY DEF Buf!bufferVars
<1>2. Buf!Store' = Buf!Store
  BY <1>1 DEF Buf!Store
<1>3. Expected(surface, ObjectsIn(buffer), lost)' = Expected(surface, ObjectsIn(buffer), lost)
  BY <1>1 DEF Expected, HoldersOf, ObjectsIn
<1>4. BufferTypes' /\ GoneHoldsNothing' /\ LostLate' /\ Waiting' /\ SharedKnown' /\ ShownWaits'
  BY <1>1 DEF BuffersInv, BufferTypes, GoneHoldsNothing, LostLate, Waiting, SharedKnown, ShownWaits
<1>5. StoreInv(Buf!Store, params, Expected(surface, ObjectsIn(buffer), lost))'
  <2> DEFINE st == Buf!Store
             k == Expected(surface, ObjectsIn(buffer), lost)
             to == Buf!Store'
             l == Expected(surface, ObjectsIn(buffer), lost)'
             qs == params'
  <2>1. StoreInv(st, params, k) /\ to = st /\ l = k /\ qs = params
    BY <1>1, <1>2, <1>3 DEF BuffersInv
  <2>2. StoreInv(to, qs, l)
    <3> HIDE DEF st, k, to, l, qs
    <3> QED BY <2>1
  <2> QED BY <2>2
<1> QED BY <1>4, <1>5 DEF BuffersInv

LEMMA CopyCaptureStep ==
  ASSUME BuffersAssumption, BuffersInv, NEW b \in ClientBuffers, Buf!CopyCapture(b)
  PROVE  BuffersInv'
BY BuffersStutter, FaultStep DEF Buf!CopyCapture

-----------------------------------------------------------------------------
(* References that go.                                                      *)

LEMMA ExpectedAfter ==
  \A c \in ClientBuffers :
    Expected(surface, ObjectsIn(buffer), lost)'[c] =
      Cardinality(HoldersOf(surface, c)') + One(buffer'[c].object) + One(c \in lost')
<1> TAKE c \in ClientBuffers
<1>1. (c \in ObjectsIn(buffer)') <=> buffer'[c].object
  BY DEF ObjectsIn
<1>2. One(c \in ObjectsIn(buffer))' = One(buffer'[c].object)
  BY <1>1 DEF One
<1> QED BY <1>2 DEF Expected

LEMMA HoldersAfter ==
  ASSUME BuffersAssumption, BuffersInv, NEW s \in ClientSurfaces, NEW u, surface' = [surface EXCEPT ![s] = u], NEW b
  PROVE  Cardinality(HoldersOf(surface, b)') =
           Cardinality(HoldersOf(surface, b)) + One(b \in {u.pending, u.current})
             - One(b \in {surface[s].pending, surface[s].current})
<1> DEFINE to == surface'
<1>1. surface \in [ClientSurfaces -> SurfaceRecords]
  BY DEF BuffersInv, BufferTypes
<1>2. to = [surface EXCEPT ![s] = u]
  OBVIOUS
<1>3. Cardinality(HoldersOf(to, b)) =
        Cardinality(HoldersOf(surface, b)) + One(b \in {u.pending, u.current})
          - One(b \in {surface[s].pending, surface[s].current})
  <2> HIDE DEF to
  <2>1. HolderMoved(surface, to, s, u, b)
    BY <1>1, <1>2, HolderMoves
  <2> QED BY <2>1 DEF HolderMoved
<1>4. HoldersOf(surface, b)' = HoldersOf(to, b)
  BY DEF HoldersOf
<1> QED BY <1>3, <1>4

\* Who holds a buffer is counted, and whose object is there too is counted twice.
LEMMA HeldCounts ==
  ASSUME BuffersAssumption, BuffersInv, NEW s \in ClientSurfaces, NEW b \in ClientBuffers,
         b \in {surface[s].pending, surface[s].current}
  PROVE  LET n == Expected(surface, ObjectsIn(buffer), lost)
         IN n[b] > 0 /\ (n[b] = 1 => ~buffer[b].object)
<1> DEFINE n == Expected(surface, ObjectsIn(buffer), lost)
<1>1. /\ Cardinality(HoldersOf(surface, b)) \in Nat
      /\ n[b] = Cardinality(HoldersOf(surface, b)) + One(buffer[b].object) + One(b \in lost)
  BY BufferFacts
<1>2. s \in HoldersOf(surface, b)
  BY DEF HoldersOf
<1>3. Cardinality(HoldersOf(surface, b)) # 0
  BY <1>2, HoldersFinite
<1>4. /\ One(buffer[b].object) \in {0, 1} /\ One(b \in lost) \in {0, 1}
      /\ buffer[b].object => One(buffer[b].object) = 1
  BY DEF One
<1> HIDE DEF n
<1>5. n[b] > 0
  BY <1>1, <1>3, <1>4
<1>6. n[b] = 1 => ~buffer[b].object
  <2> SUFFICES ASSUME n[b] = 1, buffer[b].object PROVE FALSE
    OBVIOUS
  <2>1. One(buffer[b].object) = 1
    BY <1>4
  <2> DEFINE o == One(buffer[b].object)
             l == One(b \in lost)
             h == Cardinality(HoldersOf(surface, b))
  <2>2. o = 1 /\ l \in {0, 1} /\ h \in Nat /\ h # 0 /\ n[b] = h + o + l /\ n[b] = 1
    BY <1>1, <1>3, <1>4, <2>1
  <2> HIDE DEF o, l, h
  <2> QED BY ONLY <2>2
<1> QED BY <1>5, <1>6 DEF n

ObjectGone(st, b) == [st EXCEPT !.buffer[b].object = FALSE]

LEMMA ObjectGoes ==
  ASSUME NEW st, NEW ps, NEW n, StoreInv(st, ps, n), NEW b \in ClientBuffers, st.buffer[b].exists
  PROVE  /\ StoreInv(ObjectGone(st, b), ps, n)
         /\ ~ObjectGone(st, b).buffer[b].object
         /\ \A c \in ClientBuffers : c # b => ObjectGone(st, b).buffer[c] = st.buffer[c]
<1> DEFINE to == ObjectGone(st, b)
           x == [st.buffer[b] EXCEPT !.object = FALSE]
<1>1. st.buffer \in [ClientBuffers -> BufferRecords] /\ DOMAIN st = {"buffer", "pool", "open"}
  BY DEF StoreInv, Stored
<1>2. /\ x \in BufferRecords /\ x.refs = st.buffer[b].refs /\ x.exists = st.buffer[b].exists /\ x.object = FALSE
      /\ x.pool = st.buffer[b].pool /\ x.fds = st.buffer[b].fds /\ x.end = st.buffer[b].end
  BY <1>1 DEF BufferRecords
<1>3. /\ DOMAIN to = {"buffer", "pool", "open"} /\ to.pool = st.pool /\ to.open = st.open
      /\ to.buffer = [st.buffer EXCEPT ![b] = x]
  BY <1>1 DEF ObjectGone
<1> HIDE DEF x, to
<1>4. \A c \in ClientBuffers : to.buffer[c] = IF c = b THEN x ELSE st.buffer[c]
  BY <1>1, <1>3
<1>5. \A c \in ClientBuffers :
        /\ to.buffer[c].exists = st.buffer[c].exists /\ to.buffer[c].refs = st.buffer[c].refs
        /\ to.buffer[c].pool = st.buffer[c].pool /\ to.buffer[c].fds = st.buffer[c].fds
        /\ to.buffer[c].end = st.buffer[c].end
  BY <1>2, <1>4
<1>6. Stored(to)
  BY <1>1, <1>2, <1>3 DEF Stored, StoreInv
<1>7. \A p : Mine(to, p) = Mine(st, p)
  BY <1>5 DEF Mine
<1>8. \A p \in Pools : PoolKept(to, p)
  <2> TAKE p \in Pools
  <2>1. PoolKept(st, p) /\ Mine(to, p) = Mine(st, p) /\ \A c \in Mine(st, p) : c \in ClientBuffers
    BY <1>7 DEF StoreInv, PoolsKept, Mine
  <2> QED BY <1>3, <1>5, <2>1 DEF PoolKept
<1>9. FdsKept(to, ps)
  BY <1>3, <1>5 DEF FdsKept, StoreInv
<1>10. Counted(to, n)
  BY <1>4, <1>5 DEF StoreInv, Counted
<1> QED BY <1>2, <1>4, <1>6, <1>8, <1>9, <1>10 DEF StoreInv, PoolsKept, to

LEMMA BufferDestroyedStep ==
  ASSUME BuffersAssumption, BuffersInv, NEW b \in ClientBuffers, Buf!BufferDestroyed(b)
  PROVE  BuffersInv'
<1> DEFINE n == Expected(surface, ObjectsIn(buffer), lost)
           k == Expected(surface, ObjectsIn(buffer), lost)'
           st == Buf!Store
           sg == ObjectGone(st, b)
           to == Buf!UnrefBuffer(sg, b)
<1>1. /\ StoreInv(st, params, n) /\ st.buffer = buffer /\ n \in [ClientBuffers -> Nat]
      /\ params \in [Params -> ParamsRecords]
      /\ \A c \in ClientBuffers :
           /\ (buffer[c].exists <=> n[c] > 0)
           /\ Cardinality(HoldersOf(surface, c)) \in Nat
           /\ n[c] = Cardinality(HoldersOf(surface, c)) + One(buffer[c].object) + One(c \in lost)
           /\ buffer[c].object => buffer[c].exists
  BY BufferFacts DEF BuffersInv, BufferTypes
<1>2. /\ buffer[b].object /\ busy' = busy \ {b} /\ shared' = shared \ {b}
      /\ UNCHANGED <<params, surface, lost, dead, faulted>> /\ Buf!SetStore(to)
  BY DEF Buf!BufferDestroyed, ObjectGone
<1>3. buffer' = to.buffer
  BY <1>2 DEF Buf!SetStore
<1>4. \A c \in ClientBuffers :
        k[c] = Cardinality(HoldersOf(surface, c)) + One(buffer'[c].object) + One(c \in lost)
  <2>1. \A c : HoldersOf(surface, c)' = HoldersOf(surface, c)
    BY <1>2 DEF HoldersOf
  <2>2. lost' = lost
    BY <1>2
  <2> QED BY <2>1, <2>2, ExpectedAfter
<1> HIDE DEF n, st, sg, to, k
<1>5. /\ StoreInv(sg, params, n) /\ ~sg.buffer[b].object
      /\ \A c \in ClientBuffers : c # b => sg.buffer[c] = buffer[c]
  <2>1. st.buffer[b].exists
    BY <1>1, <1>2
  <2> QED BY <1>1, <2>1, ObjectGoes DEF sg
<1>6. DropKept(sg, params, n, b)
  BY <1>1, <1>2, <1>5, DropKeeps
<1>7. /\ StoreInv(to, params, Less(n, b)) /\ Less(n, b) \in [ClientBuffers -> Nat]
      /\ \A c \in ClientBuffers :
           /\ buffer'[c].object = sg.buffer[c].object
           /\ sg.buffer[c].object => buffer'[c].pool = sg.buffer[c].pool
  BY <1>3, <1>6 DEF DropKept, to
<1>8. /\ ~buffer'[b].object
      /\ \A c \in ClientBuffers : c # b =>
           /\ buffer'[c].object = buffer[c].object
           /\ buffer[c].object => buffer'[c].pool = buffer[c].pool
  BY <1>5, <1>7
<1>9. \A c \in ClientBuffers : k[c] = Less(n, b)[c]
  <2> TAKE c \in ClientBuffers
  <2>0. b # None
    BY BuffersAssumption
  <2>1. CASE c = b
    <3>1. One(buffer'[b].object) = 0 /\ One(buffer[b].object) = 1 /\ One(b \in lost) \in {0, 1}
      BY <1>2, <1>8 DEF One
    <3>2. k[b] = Cardinality(HoldersOf(surface, b)) + One(buffer'[b].object) + One(b \in lost)
      BY <1>4
    <3>3. n[b] = Cardinality(HoldersOf(surface, b)) + One(buffer[b].object) + One(b \in lost)
          /\ Cardinality(HoldersOf(surface, b)) \in Nat
      BY <1>1
    <3>4. k[b] = n[b] - 1
      BY <3>1, <3>2, <3>3
    <3> QED BY <1>1, <2>0, <2>1, <3>4 DEF Less
  <2>2. CASE c # b
    <3>1. Less(n, b)[c] = n[c]
      BY <1>1, <2>0, <2>2 DEF Less
    <3> QED BY <1>1, <1>4, <1>8, <2>2, <3>1
  <2> QED BY <2>1, <2>2
<1>10. StoreInv(Buf!Store, params, Expected(surface, ObjectsIn(buffer), lost))'
  <2> DEFINE h == Less(n, b)
  <2>1. StoreInv(to, params', h) /\ \A c \in ClientBuffers : Expected(surface, ObjectsIn(buffer), lost)'[c] = h[c]
    BY <1>2, <1>7, <1>9 DEF k
  <2> HIDE DEF h
  <2> QED BY <1>2, <2>1, StoreSet
<1>11. BufferTypes'
  BY <1>2 DEF BuffersInv, BufferTypes
<1>12. GoneHoldsNothing' /\ LostLate'
  BY <1>2 DEF BuffersInv, GoneHoldsNothing, LostLate
<1>13. /\ surface \in [ClientSurfaces -> SurfaceRecords] /\ busy \subseteq ClientBuffers
       /\ \A s \in ClientSurfaces : surface[s].current \in ClientBuffers \cup {None}
  BY DEF BuffersInv, BufferTypes, SurfaceRecords
<1>14. Waiting'
  <2>1. \A c \in busy' : c # b /\ c \in busy /\ buffer'[c].object
    BY <1>2, <1>8, <1>13 DEF BuffersInv, Waiting
  <2>2. \A c \in busy' \ lost' : \E s \in ClientSurfaces : surface'[s].current = c /\ ~surface'[s].released
    BY <1>2, <2>1 DEF BuffersInv, Waiting
  <2> QED BY <2>1, <2>2 DEF Waiting
<1>15. SharedKnown'
  BY <1>2, <1>8, <1>13 DEF BuffersInv, SharedKnown
<1>16. ShownWaits'
  BY <1>2, <1>8, <1>13 DEF BuffersInv, ShownWaits
<1> QED BY <1>10, <1>11, <1>12, <1>14, <1>15, <1>16 DEF BuffersInv

-----------------------------------------------------------------------------
(* Surfaces.                                                                *)

LEMMA SurfaceFacts ==
  ASSUME BuffersAssumption, BuffersInv, NEW s \in ClientSurfaces
  PROVE  /\ surface \in [ClientSurfaces -> SurfaceRecords] /\ surface[s] \in SurfaceRecords
         /\ surface[s].pending \in ClientBuffers \cup {None} /\ surface[s].current \in ClientBuffers \cup {None}
         /\ params \in [Params -> ParamsRecords] /\ None \notin ClientBuffers
         /\ busy \subseteq ClientBuffers /\ shared \subseteq ClientBuffers /\ lost \subseteq ClientBuffers
BY DEF BuffersInv, BufferTypes, SurfaceRecords, BuffersAssumption

\* A step after which every surface shows what it showed.
LEMMA ShownAsBefore ==
  ASSUME BuffersInv, busy' = busy, shared' = shared, lost' = lost, dead' = dead,
         \A s \in ClientSurfaces :
           /\ surface'[s].current = surface[s].current
           /\ surface[s].current # None => surface'[s].released = surface[s].released,
         \A b \in ClientBuffers :
           /\ buffer'[b].object = buffer[b].object
           /\ buffer[b].object => buffer'[b].pool = buffer[b].pool,
         None \notin ClientBuffers
  PROVE  LostLate' /\ Waiting' /\ SharedKnown' /\ ShownWaits'
<1>0. /\ surface \in [ClientSurfaces -> SurfaceRecords] /\ busy \subseteq ClientBuffers
      /\ \A s \in ClientSurfaces : surface[s].current \in ClientBuffers \cup {None}
  BY DEF BuffersInv, BufferTypes, SurfaceRecords
<1>1. LostLate'
  BY DEF BuffersInv, LostLate
<1>2. Waiting'
  <2>1. \A b \in busy' : buffer'[b].object
    BY <1>0 DEF BuffersInv, Waiting
  <2>2. \A b \in busy' \ lost' : \E s \in ClientSurfaces : surface'[s].current = b /\ ~surface'[s].released
    <3> TAKE b \in busy' \ lost'
    <3>1. PICK s \in ClientSurfaces : surface[s].current = b /\ ~surface[s].released
      BY DEF BuffersInv, Waiting
    <3>2. b # None
      BY <1>0
    <3> QED BY <3>1, <3>2
  <2> QED BY <2>1, <2>2 DEF Waiting
<1>3. SharedKnown'
  BY <1>0 DEF BuffersInv, SharedKnown
<1>4. ShownWaits'
  BY <1>0 DEF BuffersInv, ShownWaits
<1> QED BY <1>1, <1>2, <1>3, <1>4

More(n, b) == IF b = None THEN n ELSE [n EXCEPT ![b] = n[b] + 1]
OneMore(st, b) == IF b = None THEN st ELSE [st EXCEPT !.buffer[b].refs = @ + 1]
HoldKept(st, ps, n, b) ==
  /\ StoreInv(OneMore(st, b), ps, More(n, b))
  /\ \A c \in ClientBuffers :
       OneMore(st, b).buffer[c].object = st.buffer[c].object /\ OneMore(st, b).buffer[c].pool = st.buffer[c].pool

\* A surface takes a buffer whose object is there.
LEMMA HoldKeeps ==
  ASSUME BuffersAssumption, NEW st, NEW ps, NEW n \in [ClientBuffers -> Nat], StoreInv(st, ps, n),
         NEW b \in ClientBuffers \cup {None}, b # None => st.buffer[b].object
  PROVE  HoldKept(st, ps, n, b)
<1>1. CASE b = None
  BY <1>1 DEF HoldKept, OneMore, More
<1>2. CASE b # None
  <2> DEFINE r == n[b] + 1
  <2>1. b \in ClientBuffers /\ st.buffer[b].object /\ Buf!NoBuffer.object = FALSE
    BY <1>2 DEF Buf!NoBuffer
  <2>2. n[b] > 0 /\ n[b] \in Nat /\ st.buffer[b].refs = n[b]
    BY <2>1 DEF StoreInv, Counted
  <2>3. r \in Nat /\ r > 0
    BY <2>2
  <2>4. OneMore(st, b) = [st EXCEPT !.buffer[b].refs = r] /\ More(n, b) = [n EXCEPT ![b] = r]
    BY <1>2, <2>2 DEF OneMore, More, StoreInv, Stored
  <2> HIDE DEF r
  <2>5. RefsChanged(st, ps, n, b, r)
    BY <2>1, <2>2, <2>3, RefsChange
  <2> QED BY <2>4, <2>5 DEF RefsChanged, HoldKept
<1> QED BY <1>1, <1>2

LEMMA AttachStep ==
  ASSUME BuffersAssumption, BuffersInv, NEW s \in ClientSurfaces, NEW next \in ClientBuffers \cup {None},
         Buf!Attach(s, next)
  PROVE  BuffersInv'
<1> DEFINE n == Expected(surface, ObjectsIn(buffer), lost)
           k == Expected(surface, ObjectsIn(buffer), lost)'
           st == Buf!Store
           before == surface[s].pending
           cur == surface[s].current
           d == IF before = cur \/ before = next THEN None ELSE before
           h == IF next = cur \/ before = next THEN None ELSE next
           dr == Buf!UnrefBuffer(st, d)
           to == OneMore(dr, h)
           u == [surface[s] EXCEPT !.pending = next, !.changed = TRUE]
<1>1. /\ StoreInv(st, params, n) /\ st.buffer = buffer /\ n \in [ClientBuffers -> Nat]
      /\ \A c \in ClientBuffers :
           /\ Cardinality(HoldersOf(surface, c)) \in Nat
           /\ n[c] = Cardinality(HoldersOf(surface, c)) + One(buffer[c].object) + One(c \in lost)
  BY BufferFacts DEF BuffersInv
<1>2. /\ surface \in [ClientSurfaces -> SurfaceRecords] /\ surface[s] \in SurfaceRecords
      /\ before \in ClientBuffers \cup {None} /\ cur \in ClientBuffers \cup {None}
      /\ params \in [Params -> ParamsRecords] /\ None \notin ClientBuffers
  BY SurfaceFacts
<1>3. /\ surface[s].alive /\ (next # None => buffer[next].object)
      /\ surface' = [surface EXCEPT ![s].pending = next, ![s].changed = TRUE]
      /\ UNCHANGED <<params, busy, shared, lost, dead, faulted>>
  BY DEF Buf!Attach
<1>4. Buf!SetStore(to)
  <2>1. Buf!SetStore(IF before = next THEN st
                     ELSE Buf!Hold(IF before = cur THEN st ELSE Buf!UnrefBuffer(st, before), s, next))
    BY DEF Buf!Attach
  <2>2. CASE before = next
    BY <2>1, <2>2 DEF Buf!UnrefBuffer, OneMore
  <2>3. CASE before # next
    <3>1. dr = IF before = cur THEN st ELSE Buf!UnrefBuffer(st, before)
      BY <2>3 DEF Buf!UnrefBuffer
    <3>2. Buf!SetStore(Buf!Hold(dr, s, next))
      BY <2>1, <2>3, <3>1
    <3>3. Buf!Hold(dr, s, next) = OneMore(dr, h)
      <4> HIDE DEF dr
      <4> QED BY <2>3 DEF Buf!Hold, OneMore
    <3> QED BY <3>2, <3>3
  <2> QED BY <2>2, <2>3
<1>5. /\ surface' = [surface EXCEPT ![s] = u] /\ u \in SurfaceRecords
      /\ u.pending = next /\ u.current = cur /\ u.released = surface[s].released /\ u.alive
  BY <1>2, <1>3 DEF SurfaceRecords
<1>6. d \in ClientBuffers \cup {None} /\ h \in ClientBuffers \cup {None}
  BY <1>2
<1> HIDE DEF u
<1>7. d # None => n[d] > 0 /\ (n[d] = 1 => ~st.buffer[d].object)
  <2> SUFFICES ASSUME d # None PROVE n[d] > 0 /\ (n[d] = 1 => ~buffer[d].object)
    BY <1>1
  <2>1. d \in ClientBuffers /\ d \in {surface[s].pending, surface[s].current}
    BY <1>6
  <2> QED BY <2>1, HeldCounts
<1>8. DropKept(st, params, n, d)
  <2> HIDE DEF n, st, d, h, to, k, dr
  <2> QED BY <1>1, <1>2, <1>6, <1>7, DropKeeps
<1>9. /\ StoreInv(dr, params, Less(n, d)) /\ Less(n, d) \in [ClientBuffers -> Nat]
      /\ \A c \in ClientBuffers :
           /\ dr.buffer[c].object = buffer[c].object
           /\ buffer[c].object => dr.buffer[c].pool = buffer[c].pool
  BY <1>1, <1>8 DEF DropKept
<1>10. h # None => dr.buffer[h].object
  BY <1>3, <1>6, <1>9
<1>11. HoldKept(dr, params, Less(n, d), h)
  <2> HIDE DEF n, st, d, h, to, k, dr
  <2> QED BY <1>6, <1>9, <1>10, HoldKeeps
<1>12. StoreInv(to, params, More(Less(n, d), h)) /\ buffer' = to.buffer
       /\ \A c \in ClientBuffers :
            /\ buffer'[c].object = buffer[c].object
            /\ buffer[c].object => buffer'[c].pool = buffer[c].pool
  <2>1. buffer' = to.buffer
    BY <1>4 DEF Buf!SetStore
  <2> QED BY <1>9, <1>11, <2>1 DEF HoldKept
<1>13. \A c \in ClientBuffers : k[c] = More(Less(n, d), h)[c]
  <2> TAKE c \in ClientBuffers
  <2>1. Cardinality(HoldersOf(surface, c)') = Cardinality(HoldersOf(surface, c)) + One(c \in {next, cur}) - One(c \in {before, cur})
    BY <1>5, HoldersAfter
  <2>2. k[c] = Cardinality(HoldersOf(surface, c)') + One(buffer'[c].object) + One(c \in lost')
    BY ExpectedAfter
  <2>3. One(buffer'[c].object) = One(buffer[c].object) /\ One(c \in lost') = One(c \in lost)
    BY <1>3, <1>12
  <2>4. n[c] = Cardinality(HoldersOf(surface, c)) + One(buffer[c].object) + One(c \in lost)
    BY <1>1
  <2>5. One(buffer[c].object) \in {0, 1} /\ One(c \in lost) \in {0, 1} /\ Cardinality(HoldersOf(surface, c)) \in Nat
    BY <1>1 DEF One
  <2>6. k[c] = n[c] + One(c \in {next, cur}) - One(c \in {before, cur})
    <3> DEFINE a == One(buffer[c].object)
               l == One(c \in lost)
               v == Cardinality(HoldersOf(surface, c))
               x == One(c \in {next, cur})
               y == One(c \in {before, cur})
    <3>1. k[c] = v + x - y + a + l /\ n[c] = v + a + l /\ a \in Nat /\ l \in Nat /\ v \in Nat
      BY <2>1, <2>2, <2>3, <2>4, <2>5
    <3>2. x \in Nat /\ y \in Nat
      BY DEF One
    <3>3. k[c] = n[c] + x - y
      <4> HIDE DEF a, l, v, x, y, k, n
      <4> QED BY ONLY <3>1, <3>2
    <3> QED BY <3>3
  <2> HIDE DEF n, k, d, h
  <2>7. n[c] \in Nat /\ c # None
    BY <1>1, <1>2
  <2>8. Less(n, d)[c] = n[c] - One(c = d)
    BY <1>1, <1>6, <2>7 DEF Less, One
  <2>9. More(Less(n, d), h)[c] = Less(n, d)[c] + One(c = h)
    BY <1>6, <1>9, <2>7 DEF More, One
  <2>10. One(c \in {next, cur}) - One(c \in {before, cur}) = One(c = h) - One(c = d)
    BY <2>7 DEF One, d, h
  <2>11. One(c = h) \in {0, 1} /\ One(c = d) \in {0, 1} /\ One(c \in {next, cur}) \in {0, 1} /\ One(c \in {before, cur}) \in {0, 1}
    BY DEF One
  <2> DEFINE x == One(c \in {next, cur})
             y == One(c \in {before, cur})
             i == One(c = h)
             j == One(c = d)
  <2>12. k[c] = n[c] + x - y /\ More(Less(n, d), h)[c] = n[c] - j + i /\ x - y = i - j /\ n[c] \in Nat
         /\ i \in {0, 1} /\ j \in {0, 1} /\ x \in {0, 1} /\ y \in {0, 1}
    BY <2>6, <2>7, <2>8, <2>9, <2>10, <2>11
  <2> HIDE DEF x, y, i, j
  <2> QED BY ONLY <2>12
<1>14. StoreInv(Buf!Store, params, Expected(surface, ObjectsIn(buffer), lost))'
  <2> DEFINE m == More(Less(n, d), h)
  <2>1. StoreInv(to, params', m) /\ \A c \in ClientBuffers : Expected(surface, ObjectsIn(buffer), lost)'[c] = m[c]
    BY <1>3, <1>12, <1>13
  <2> HIDE DEF m, to
  <2> QED BY <1>4, <2>1, StoreSet
<1>15. surface' \in [ClientSurfaces -> SurfaceRecords] /\ \A t \in ClientSurfaces : surface'[t] = IF t = s THEN u ELSE surface[t]
  BY <1>2, <1>5
<1>16. BufferTypes'
  BY <1>3, <1>15 DEF BuffersInv, BufferTypes
<1>17. GoneHoldsNothing'
  BY <1>5, <1>15 DEF BuffersInv, GoneHoldsNothing
<1>18. LostLate' /\ Waiting' /\ SharedKnown' /\ ShownWaits'
  <2>1. \A t \in ClientSurfaces : surface'[t].current = surface[t].current /\ surface'[t].released = surface[t].released
    BY <1>5, <1>15
  <2> HIDE DEF n, k, d, h, dr, to, st
  <2> QED BY <1>2, <1>3, <1>12, <2>1, ShownAsBefore
<1> QED BY <1>14, <1>16, <1>17, <1>18 DEF BuffersInv

LEMMA CreateSurfaceStep ==
  ASSUME BuffersAssumption, BuffersInv, NEW s \in ClientSurfaces, Buf!CreateSurface(s)
  PROVE  BuffersInv'
<1> DEFINE u == Buf!NewSurface
           n == Expected(surface, ObjectsIn(buffer), lost)
           k == Expected(surface, ObjectsIn(buffer), lost)'
<1>1. /\ ~surface[s].alive /\ surface' = [surface EXCEPT ![s] = u]
      /\ UNCHANGED <<pool, buffer, params, open, busy, shared, lost, dead, faulted>>
  BY DEF Buf!CreateSurface
<1>2. u \in SurfaceRecords /\ u.pending = None /\ u.current = None /\ u.alive
  BY DEF Buf!NewSurface, SurfaceRecords
<1>3. surface[s].pending = None /\ surface[s].current = None
  BY <1>1 DEF BuffersInv, GoneHoldsNothing
<1>4. surface \in [ClientSurfaces -> SurfaceRecords] /\ None \notin ClientBuffers
  BY SurfaceFacts
<1> HIDE DEF u
<1>5. surface' \in [ClientSurfaces -> SurfaceRecords] /\ \A t \in ClientSurfaces : surface'[t] = IF t = s THEN u ELSE surface[t]
  BY <1>1, <1>2, <1>4
<1>6. \A c : HoldersOf(surface, c)' = HoldersOf(surface, c)
  BY <1>2, <1>3, <1>5 DEF HoldersOf
<1>7. k = n
  BY <1>1, <1>6 DEF Expected, ObjectsIn
<1>8. StoreInv(Buf!Store, params, Expected(surface, ObjectsIn(buffer), lost))'
  <2> DEFINE st == Buf!Store
  <2>1. Buf!SetStore(st)
    BY <1>1 DEF Buf!SetStore, Buf!Store
  <2>2. StoreInv(st, params', n) /\ \A c \in ClientBuffers : Expected(surface, ObjectsIn(buffer), lost)'[c] = n[c]
    BY <1>1, <1>7 DEF BuffersInv
  <2> HIDE DEF n, st
  <2> QED BY <2>1, <2>2, StoreSet
<1>9. BufferTypes'
  BY <1>1, <1>5 DEF BuffersInv, BufferTypes
<1>10. GoneHoldsNothing'
  BY <1>2, <1>5 DEF BuffersInv, GoneHoldsNothing
<1>11. LostLate' /\ Waiting' /\ SharedKnown' /\ ShownWaits'
  <2>1. \A t \in ClientSurfaces :
          /\ surface'[t].current = surface[t].current
          /\ surface[t].current # None => surface'[t].released = surface[t].released
    BY <1>2, <1>3, <1>5
  <2> HIDE DEF n, k
  <2> QED BY <1>1, <1>4, <2>1, ShownAsBefore
<1> QED BY <1>8, <1>9, <1>10, <1>11 DEF BuffersInv

\* What a surface's new record does to what is expected.
CountMoved(w, s, c) ==
  Expected(surface, ObjectsIn(buffer), lost)'[c] =
    Expected(surface, ObjectsIn(buffer), lost)[c] + One(c \in {w.pending, w.current})
      - One(c \in {surface[s].pending, surface[s].current}) + One(c \in lost') - One(c \in lost)

LEMMA CountMoves ==
  ASSUME BuffersAssumption, BuffersInv, NEW s \in ClientSurfaces, NEW w, surface' = [surface EXCEPT ![s] = w],
         NEW c \in ClientBuffers, buffer'[c].object = buffer[c].object
  PROVE  CountMoved(w, s, c)
<1> DEFINE n == Expected(surface, ObjectsIn(buffer), lost)
           k == Expected(surface, ObjectsIn(buffer), lost)'
           p == surface[s].pending
           cur == surface[s].current
           a == One(buffer[c].object)
           l == One(c \in lost)
           m == One(c \in lost')
           v == Cardinality(HoldersOf(surface, c))
           x == One(c \in {w.pending, w.current})
           y == One(c \in {p, cur})
<1>1. Cardinality(HoldersOf(surface, c)') = v + x - y
  BY HoldersAfter
<1>2. k[c] = Cardinality(HoldersOf(surface, c)') + One(buffer'[c].object) + m
  BY ExpectedAfter
<1>3. One(buffer'[c].object) = a
  OBVIOUS
<1>4. n[c] = v + a + l /\ v \in Nat
  BY BufferFacts
<1>5. a \in Nat /\ l \in Nat /\ m \in Nat /\ x \in Nat /\ y \in Nat
  BY DEF One
<1>6. k[c] = v + x - y + a + m
  BY <1>1, <1>2, <1>3
<1>7. k[c] = n[c] + x - y + m - l
  <2> HIDE DEF n, k, a, l, m, v, x, y
  <2> QED BY ONLY <1>4, <1>5, <1>6
<1> QED BY <1>7 DEF CountMoved

\* What the commit makes of a surface.
LEMMA SwapFacts ==
  ASSUME BuffersAssumption, BuffersInv, NEW s \in ClientSurfaces
  PROVE  /\ Buf!Swapped(s) \in SurfaceRecords /\ Buf!Swapped(s).alive = surface[s].alive
         /\ Buf!Swapped(s).pending = surface[s].pending
         /\ surface[s].changed => Buf!Swapped(s).current = surface[s].pending /\ Buf!Swapped(s).released = FALSE
         /\ ~surface[s].changed => Buf!Swapped(s) = surface[s] /\ Buf!Previous(s) = None /\ Buf!Committed(s) = {}
         /\ Buf!Previous(s) \in ClientBuffers \cup {None} /\ Buf!Committed(s) \subseteq ClientBuffers
         /\ Buf!Previous(s) # None => surface[s].changed /\ Buf!Previous(s) = surface[s].current
                                      /\ surface[s].current # surface[s].pending
         /\ surface[s].changed /\ surface[s].current # surface[s].pending => Buf!Previous(s) = surface[s].current
         /\ surface[s].changed /\ surface[s].pending # None => Buf!Committed(s) = {surface[s].pending}
<1>1. surface[s] \in SurfaceRecords
  BY SurfaceFacts
<1>2. /\ Buf!Swapped(s) \in SurfaceRecords /\ Buf!Swapped(s).alive = surface[s].alive
      /\ Buf!Swapped(s).pending = surface[s].pending
      /\ surface[s].changed => Buf!Swapped(s).current = surface[s].pending /\ Buf!Swapped(s).released = FALSE
      /\ ~surface[s].changed => Buf!Swapped(s) = surface[s]
  BY <1>1 DEF Buf!Swapped, SurfaceRecords
<1>3. /\ ~surface[s].changed => Buf!Previous(s) = None /\ Buf!Committed(s) = {}
      /\ Buf!Previous(s) \in ClientBuffers \cup {None} /\ Buf!Committed(s) \subseteq ClientBuffers
      /\ Buf!Previous(s) # None => surface[s].changed /\ Buf!Previous(s) = surface[s].current
                                   /\ surface[s].current # surface[s].pending
      /\ surface[s].changed /\ surface[s].current # surface[s].pending => Buf!Previous(s) = surface[s].current
      /\ surface[s].changed /\ surface[s].pending # None => Buf!Committed(s) = {surface[s].pending}
  BY <1>1 DEF Buf!Previous, Buf!Committed, SurfaceRecords
<1> QED BY <1>2, <1>3

\* One reference goes, and the surface has a record w that shows so.
LEMMA CommitStore ==
  ASSUME BuffersAssumption, BuffersInv, NEW s \in ClientSurfaces, NEW w, surface' = [surface EXCEPT ![s] = w],
         w.pending = surface[s].pending, w.current = Buf!Swapped(s).current,
         Buf!SetStore(Buf!UnrefBuffer(Buf!Store, Buf!Previous(s))),
         UNCHANGED <<params, lost>>
  PROVE  /\ StoreInv(Buf!Store, params, Expected(surface, ObjectsIn(buffer), lost))'
         /\ \A c \in ClientBuffers :
              /\ buffer'[c].object = buffer[c].object
              /\ buffer[c].object => buffer'[c].pool = buffer[c].pool
<1> DEFINE n == Expected(surface, ObjectsIn(buffer), lost)
           k == Expected(surface, ObjectsIn(buffer), lost)'
           st == Buf!Store
           d == Buf!Previous(s)
           to == Buf!UnrefBuffer(st, d)
           pd == surface[s].pending
           cur == surface[s].current
<1>1. StoreInv(st, params, n) /\ st.buffer = buffer /\ n \in [ClientBuffers -> Nat]
  BY BufferFacts DEF BuffersInv
<1>2. /\ params \in [Params -> ParamsRecords] /\ None \notin ClientBuffers
      /\ pd \in ClientBuffers \cup {None} /\ cur \in ClientBuffers \cup {None}
  BY SurfaceFacts
<1>3. /\ d \in ClientBuffers \cup {None}
      /\ d # None => surface[s].changed /\ d = cur /\ cur # pd
      /\ surface[s].changed => w.current = pd
      /\ ~surface[s].changed => w.current = cur /\ d = None
      /\ surface[s].changed /\ cur # pd => d = cur
  BY SwapFacts
<1>4. d # None => n[d] > 0 /\ (n[d] = 1 => ~buffer[d].object)
  <2> SUFFICES ASSUME d # None PROVE n[d] > 0 /\ (n[d] = 1 => ~buffer[d].object)
    OBVIOUS
  <2>1. d \in ClientBuffers /\ d \in {surface[s].pending, surface[s].current}
    BY <1>3
  <2> QED BY <2>1, HeldCounts
<1>5. DropKept(st, params, n, d)
  <2> HIDE DEF n, st, d
  <2> QED BY <1>1, <1>2, <1>3, <1>4, DropKeeps
<1>6. /\ StoreInv(to, params, Less(n, d)) /\ buffer' = to.buffer
      /\ \A c \in ClientBuffers :
           /\ buffer'[c].object = buffer[c].object
           /\ buffer[c].object => buffer'[c].pool = buffer[c].pool
  BY <1>1, <1>5 DEF DropKept, Buf!SetStore
<1>7. \A c \in ClientBuffers : k[c] = Less(n, d)[c]
  <2> TAKE c \in ClientBuffers
  <2> DEFINE x == One(c \in {w.pending, w.current})
             y == One(c \in {pd, cur})
             j == One(c = d)
             l == One(c \in lost)
  <2>1. CountMoved(w, s, c)
    BY <1>6, CountMoves
  <2>2. k[c] = n[c] + x - y + l - l
    BY <2>1 DEF CountMoved
  <2>3. n[c] \in Nat /\ c # None
    BY <1>1, <1>2
  <2>4. x - y = 0 - j /\ x \in {0, 1} /\ y \in {0, 1} /\ j \in {0, 1} /\ l \in {0, 1}
    <3> HIDE DEF d
    <3> QED BY <1>2, <1>3, <2>3 DEF One
  <2>5. Less(n, d)[c] = n[c] - j
    <3> HIDE DEF d, n
    <3> QED BY <1>1, <1>3, <2>3 DEF Less, One
  <2> HIDE DEF x, y, j, n, k, l, d
  <2> QED BY ONLY <2>2, <2>3, <2>4, <2>5
<1>8. StoreInv(Buf!Store, params, Expected(surface, ObjectsIn(buffer), lost))'
  <2> DEFINE m == Less(n, d)
  <2>1. /\ StoreInv(to, params', m) /\ Buf!SetStore(to)
        /\ \A c \in ClientBuffers : Expected(surface, ObjectsIn(buffer), lost)'[c] = m[c]
    BY <1>6, <1>7
  <2> HIDE DEF m, to
  <2> QED BY <2>1, StoreSet
<1> QED BY <1>6, <1>8

LEMMA CommitStep ==
  ASSUME BuffersAssumption, BuffersInv, NEW s \in ClientSurfaces, Buf!Commit(s)
  PROVE  BuffersInv'
<1> DEFINE v == Buf!Swapped(s)
           u == surface[s]
           before == IF u.released THEN {} ELSE Buf!Released(Buf!Previous(s))
           atOnce == v.current # None /\ ~v.released /\ Buf!IsShm(v.current)
           now == before \cup (IF atOnce THEN Buf!Released(v.current) ELSE {})
           w == IF atOnce THEN [v EXCEPT !.released = TRUE] ELSE v
           newly == {b \in Buf!Committed(s) : buffer[b].object}
           twice == {b \in Buf!Committed(s) : Buf!OnOtherSurface(s, b)}
<1>1. /\ u.alive /\ surface' = [surface EXCEPT ![s] = w]
      /\ busy' = (busy \cup newly) \ now /\ shared' = shared \cup twice
      /\ Buf!SetStore(Buf!UnrefBuffer(Buf!Store, Buf!Previous(s)))
      /\ UNCHANGED <<params, lost, dead, faulted>>
  BY DEF Buf!Commit
<1>2. /\ surface \in [ClientSurfaces -> SurfaceRecords] /\ u \in SurfaceRecords
      /\ u.pending \in ClientBuffers \cup {None} /\ u.current \in ClientBuffers \cup {None}
      /\ None \notin ClientBuffers /\ busy \subseteq ClientBuffers /\ shared \subseteq ClientBuffers
  BY SurfaceFacts
<1>3. /\ v \in SurfaceRecords /\ v.alive = u.alive /\ v.pending = u.pending
      /\ u.changed => v.current = u.pending /\ v.released = FALSE
      /\ ~u.changed => v = u /\ Buf!Previous(s) = None /\ Buf!Committed(s) = {}
      /\ Buf!Previous(s) \in ClientBuffers \cup {None} /\ Buf!Committed(s) \subseteq ClientBuffers
      /\ Buf!Previous(s) # None => u.changed /\ Buf!Previous(s) = u.current /\ u.current # u.pending
      /\ u.changed /\ u.current # u.pending => Buf!Previous(s) = u.current
      /\ u.changed /\ u.pending # None => Buf!Committed(s) = {u.pending}
  BY SwapFacts
<1>4. /\ w \in SurfaceRecords /\ w.alive /\ w.pending = u.pending /\ w.current = v.current
      /\ ~atOnce => w.released = v.released
  <2> HIDE DEF v
  <2> QED BY <1>1, <1>3 DEF SurfaceRecords
<1>5. /\ StoreInv(Buf!Store, params, Expected(surface, ObjectsIn(buffer), lost))'
      /\ \A c \in ClientBuffers :
           /\ buffer'[c].object = buffer[c].object
           /\ buffer[c].object => buffer'[c].pool = buffer[c].pool
  <2> HIDE DEF w
  <2> QED BY <1>1, <1>4, CommitStore
<1>6. /\ surface' \in [ClientSurfaces -> SurfaceRecords]
      /\ surface'[s] = w /\ \A t \in ClientSurfaces : t # s => surface'[t] = surface[t]
  <2> HIDE DEF w
  <2> QED BY <1>1, <1>2, <1>4
<1>7. /\ \A b \in ClientBuffers : b \in before <=> ~u.released /\ b = Buf!Previous(s) /\ buffer[b].object
      /\ \A b \in ClientBuffers : b \in now <=>
           \/ ~u.released /\ b = Buf!Previous(s) /\ buffer[b].object
           \/ atOnce /\ b = v.current /\ buffer[b].object
      /\ v.current \in ClientBuffers \cup {None}
      /\ \A b \in ClientBuffers : atOnce /\ b = v.current => buffer[b].pool # None
  <2> HIDE DEF v
  <2> QED BY <1>2, <1>3 DEF Buf!Released, Buf!IsShm, SurfaceRecords
<1>8. BufferTypes'
  BY <1>1, <1>2, <1>3, <1>6 DEF BuffersInv, BufferTypes
<1>9. GoneHoldsNothing' /\ LostLate'
  BY <1>1, <1>4, <1>6 DEF BuffersInv, GoneHoldsNothing, LostLate
<1> HIDE DEF v, w, before, now
<1>10. Waiting'
  <2>1. \A b \in busy' : b \in ClientBuffers /\ buffer'[b].object
    BY <1>1, <1>2, <1>3, <1>5 DEF BuffersInv, Waiting
  <2>2. ASSUME NEW b \in busy' \ lost'
        PROVE  \E t \in ClientSurfaces : surface'[t].current = b /\ ~surface'[t].released
    <3>1. b \in ClientBuffers /\ buffer[b].object /\ b \notin now /\ b \notin lost /\ b # None
      BY <1>1, <1>2, <1>5, <2>1
    <3>2. CASE b \in newly
      <4>1. u.changed /\ b = u.pending
        BY <1>3, <3>2 DEF Buf!Committed
      <4>2. v.current = b /\ v.released = FALSE
        BY <1>3, <4>1
      <4>3. ~atOnce
        BY <1>7, <3>1, <4>2
      <4> QED BY <1>4, <1>6, <4>2, <4>3
    <3>3. CASE b \in busy
      <4>1. PICK t \in ClientSurfaces : surface[t].current = b /\ ~surface[t].released
        BY <3>1, <3>3 DEF BuffersInv, Waiting
      <4>2. CASE t # s
        BY <1>6, <4>1, <4>2
      <4>3. CASE t = s /\ ~u.changed
        <5>1. v = u /\ v.current = b /\ ~v.released
          BY <1>3, <4>1, <4>3
        <5>2. ~atOnce
          BY <1>7, <3>1, <5>1
        <5> QED BY <1>4, <1>6, <5>1, <5>2
      <4>4. CASE t = s /\ u.changed /\ u.pending = b
        <5>1. v.current = b /\ v.released = FALSE
          BY <1>3, <4>4
        <5>2. ~atOnce
          BY <1>7, <3>1, <5>1
        <5> QED BY <1>4, <1>6, <5>1, <5>2
      <4>5. CASE t = s /\ u.changed /\ u.pending # b
        <5>1. b = Buf!Previous(s) /\ ~u.released
          BY <1>3, <4>1, <4>5
        <5> QED BY <1>7, <3>1, <5>1
      <4> QED BY <4>2, <4>3, <4>4, <4>5
    <3> QED BY <1>1, <3>2, <3>3
  <2> QED BY <2>1, <2>2 DEF Waiting
<1>11. SharedKnown'
  <2> SUFFICES ASSUME NEW t \in ClientSurfaces, NEW r \in ClientSurfaces, t # r,
                      surface'[t].current = surface'[r].current, surface'[t].current # None,
                      buffer'[surface'[t].current].object
               PROVE  surface'[t].current \in shared'
    BY DEF SharedKnown
  <2>1. ASSUME NEW y \in ClientSurfaces, y # s, surface[y].current = v.current, v.current # None,
               buffer'[v.current].object
        PROVE  v.current \in shared'
    <3>1. v.current \in ClientBuffers /\ buffer[v.current].object
      BY <1>5, <1>7, <2>1
    <3>2. CASE u.changed
      <4>1. Buf!Committed(s) = {v.current}
        BY <1>3, <2>1, <3>2
      <4>2. surface[y].alive
        BY <2>1 DEF BuffersInv, GoneHoldsNothing
      <4>3. Buf!OnOtherSurface(s, v.current)
        BY <2>1, <4>2 DEF Buf!OnOtherSurface
      <4> QED BY <1>1, <4>1, <4>3
    <3>3. CASE ~u.changed
      <4>1. v.current = surface[s].current
        BY <1>3, <3>3
      <4> QED BY <1>1, <2>1, <3>1, <4>1 DEF BuffersInv, SharedKnown
    <3> QED BY <3>2, <3>3
  <2>2. CASE t = s
    <3>1. surface'[t].current = v.current /\ surface[r].current = v.current
      BY <1>4, <1>6, <2>2
    <3> QED BY <2>1, <2>2, <3>1
  <2>3. CASE r = s
    <3>1. surface'[t].current = v.current /\ surface[t].current = v.current
      BY <1>4, <1>6, <2>3
    <3> QED BY <2>1, <2>3, <3>1
  <2>4. CASE t # s /\ r # s
    <3>1. surface'[t] = surface[t] /\ surface'[r] = surface[r] /\ surface[t].current \in ClientBuffers \cup {None}
      BY <1>2, <1>6, <2>4 DEF SurfaceRecords
    <3> QED BY <1>1, <1>5, <3>1 DEF BuffersInv, SharedKnown
  <2> QED BY <2>2, <2>3, <2>4
<1>12. ShownWaits'
  <2> SUFFICES ASSUME NEW t \in ClientSurfaces, surface'[t].current # None, buffer'[surface'[t].current].object,
                      buffer'[surface'[t].current].pool = None
               PROVE  surface'[t].current \in busy' \cup shared'
    BY DEF ShownWaits
  <2> DEFINE b == surface'[t].current
  <2>1. b \in ClientBuffers /\ buffer[b].object /\ buffer[b].pool = None
    BY <1>5, <1>6, <1>2, <1>4, <1>7 DEF SurfaceRecords
  <2>2. b \in now => ~u.released /\ b = Buf!Previous(s)
    BY <1>7, <2>1
  <2>3. CASE t = s /\ u.changed
    <3>1. b = u.pending
      BY <1>3, <1>4, <1>6, <2>3
    <3>2. b \in newly
      BY <1>3, <2>1, <2>3, <3>1, <1>2
    <3>3. b # Buf!Previous(s)
      BY <1>2, <1>3, <2>1, <3>1
    <3> QED BY <1>1, <2>2, <3>2, <3>3
  <2>4. CASE t = s /\ ~u.changed
    <3>1. b = u.current /\ Buf!Previous(s) = None
      BY <1>3, <1>4, <1>6, <2>4
    <3>2. b \notin now /\ b \in busy \cup shared
      BY <1>2, <2>1, <2>2, <3>1 DEF BuffersInv, ShownWaits
    <3> QED BY <1>1, <3>2
  <2>5. CASE t # s
    <3>1. b = surface[t].current /\ b # None
      BY <1>6, <2>5, <2>1, <1>2
    <3>2. b \in busy \cup shared
      BY <2>1, <3>1 DEF BuffersInv, ShownWaits
    <3>3. b \in now => b \in shared
      <4> SUFFICES ASSUME b \in now PROVE b \in shared
        OBVIOUS
      <4>1. b = surface[s].current
        BY <1>3, <2>2, <3>1
      <4> QED BY <2>1, <2>5, <3>1, <4>1 DEF BuffersInv, SharedKnown
    <3> QED BY <1>1, <3>2, <3>3
  <2> QED BY <2>3, <2>4, <2>5
<1> QED BY <1>5, <1>8, <1>9, <1>10, <1>11, <1>12 DEF BuffersInv

LEMMA CommitRefusedLateStep ==
  ASSUME BuffersAssumption, BuffersInv, NEW s \in ClientSurfaces, Buf!CommitRefusedLate(s)
  PROVE  BuffersInv'
<1> DEFINE v == Buf!Swapped(s)
           u == surface[s]
           d == Buf!Previous(s)
           n == Expected(surface, ObjectsIn(buffer), lost)
           k == Expected(surface, ObjectsIn(buffer), lost)'
           newly == {b \in Buf!Committed(s) : buffer[b].object}
           twice == {b \in Buf!Committed(s) : Buf!OnOtherSurface(s, b)}
<1>1. /\ u.alive /\ surface' = [surface EXCEPT ![s] = v] /\ lost' = lost \cup (IF d = None THEN {} ELSE {d})
      /\ busy' = busy \cup newly /\ shared' = shared \cup twice /\ dead' = TRUE /\ ~dead
      /\ UNCHANGED <<pool, buffer, params, open, faulted>>
  BY DEF Buf!CommitRefusedLate, Buf!PostError, Buf!Alive
<1>2. /\ surface \in [ClientSurfaces -> SurfaceRecords] /\ u \in SurfaceRecords
      /\ u.pending \in ClientBuffers \cup {None} /\ u.current \in ClientBuffers \cup {None}
      /\ None \notin ClientBuffers /\ busy \subseteq ClientBuffers /\ shared \subseteq ClientBuffers
      /\ lost \subseteq ClientBuffers
  BY SurfaceFacts
<1>3. /\ v \in SurfaceRecords /\ v.alive = u.alive /\ v.pending = u.pending
      /\ u.changed => v.current = u.pending /\ v.released = FALSE
      /\ ~u.changed => v = u /\ d = None /\ Buf!Committed(s) = {}
      /\ d \in ClientBuffers \cup {None} /\ Buf!Committed(s) \subseteq ClientBuffers
      /\ d # None => u.changed /\ d = u.current /\ u.current # u.pending
      /\ u.changed /\ u.current # u.pending => d = u.current
      /\ u.changed /\ u.pending # None => Buf!Committed(s) = {u.pending}
  BY SwapFacts
<1>4. lost = {}
  BY <1>1 DEF BuffersInv, LostLate
<1> HIDE DEF v, d
<1>5. /\ surface' \in [ClientSurfaces -> SurfaceRecords]
      /\ surface'[s] = v /\ \A t \in ClientSurfaces : t # s => surface'[t] = surface[t]
  BY <1>1, <1>2, <1>3
<1>6. \A c \in ClientBuffers : k[c] = n[c]
  <2> TAKE c \in ClientBuffers
  <2> DEFINE x == One(c \in {v.pending, v.current})
             y == One(c \in {u.pending, u.current})
             l == One(c \in lost)
             m == One(c \in lost')
  <2>1. CountMoved(v, s, c)
    BY <1>1, CountMoves
  <2>2. k[c] = n[c] + x - y + m - l
    BY <2>1 DEF CountMoved
  <2>3. n[c] \in Nat /\ c # None
    BY <1>2, BufferFacts
  <2>4. x - y + m = 0 /\ l = 0 /\ x \in {0, 1} /\ y \in {0, 1} /\ m \in {0, 1}
    BY <1>1, <1>2, <1>3, <1>4, <2>3 DEF One
  <2> HIDE DEF x, y, m, n, k, l
  <2> QED BY ONLY <2>2, <2>3, <2>4
<1>7. StoreInv(Buf!Store, params, Expected(surface, ObjectsIn(buffer), lost))'
  <2> DEFINE st == Buf!Store
  <2>1. Buf!SetStore(st)
    BY <1>1 DEF Buf!SetStore, Buf!Store
  <2>2. StoreInv(st, params', n) /\ \A c \in ClientBuffers : Expected(surface, ObjectsIn(buffer), lost)'[c] = n[c]
    BY <1>1, <1>6 DEF BuffersInv
  <2> HIDE DEF n, st
  <2> QED BY <2>1, <2>2, StoreSet
<1>8. BufferTypes'
  BY <1>1, <1>2, <1>3, <1>5 DEF BuffersInv, BufferTypes
<1>9. GoneHoldsNothing' /\ LostLate'
  BY <1>1, <1>3, <1>5 DEF BuffersInv, GoneHoldsNothing, LostLate
<1>10. Waiting'
  <2>1. \A b \in busy' : b \in ClientBuffers /\ buffer'[b].object
    BY <1>1, <1>2, <1>3 DEF BuffersInv, Waiting
  <2>2. ASSUME NEW b \in busy' \ lost'
        PROVE  \E t \in ClientSurfaces : surface'[t].current = b /\ ~surface'[t].released
    <3>1. b \in ClientBuffers /\ b \notin lost' /\ b # None /\ (d # None => b # d)
      BY <1>1, <1>2, <2>1
    <3>2. CASE b \in newly
      <4>1. u.changed /\ b = u.pending
        BY <1>3, <3>2 DEF Buf!Committed
      <4> QED BY <1>3, <1>5, <4>1
    <3>3. CASE b \in busy
      <4>1. PICK t \in ClientSurfaces : surface[t].current = b /\ ~surface[t].released
        BY <1>4, <3>1, <3>3 DEF BuffersInv, Waiting
      <4>2. CASE t # s
        BY <1>5, <4>1, <4>2
      <4>3. CASE t = s
        BY <1>3, <1>5, <3>1, <4>1, <4>3
      <4> QED BY <4>2, <4>3
    <3> QED BY <1>1, <3>2, <3>3
  <2> QED BY <2>1, <2>2 DEF Waiting
<1>11. SharedKnown'
  <2> SUFFICES ASSUME NEW t \in ClientSurfaces, NEW r \in ClientSurfaces, t # r,
                      surface'[t].current = surface'[r].current, surface'[t].current # None,
                      buffer'[surface'[t].current].object
               PROVE  surface'[t].current \in shared'
    BY DEF SharedKnown
  <2>1. ASSUME NEW y \in ClientSurfaces, y # s, surface[y].current = v.current, v.current # None,
               buffer'[v.current].object
        PROVE  v.current \in shared'
    <3>2. CASE u.changed
      <4>1. Buf!Committed(s) = {v.current}
        BY <1>3, <2>1, <3>2
      <4>2. surface[y].alive
        BY <2>1 DEF BuffersInv, GoneHoldsNothing
      <4>3. Buf!OnOtherSurface(s, v.current)
        BY <2>1, <4>2 DEF Buf!OnOtherSurface
      <4> QED BY <1>1, <4>1, <4>3
    <3>3. CASE ~u.changed
      <4>1. v.current = surface[s].current
        BY <1>3, <3>3
      <4> QED BY <1>1, <2>1, <4>1 DEF BuffersInv, SharedKnown
    <3> QED BY <3>2, <3>3
  <2>2. CASE t = s
    <3>1. surface'[t].current = v.current /\ surface[r].current = v.current
      BY <1>5, <2>2
    <3> QED BY <2>1, <2>2, <3>1
  <2>3. CASE r = s
    <3>1. surface'[t].current = v.current /\ surface[t].current = v.current
      BY <1>5, <2>3
    <3> QED BY <2>1, <2>3, <3>1
  <2>4. CASE t # s /\ r # s
    <3>1. surface'[t] = surface[t] /\ surface'[r] = surface[r]
      BY <1>5, <2>4
    <3> QED BY <1>1, <3>1 DEF BuffersInv, SharedKnown
  <2> QED BY <2>2, <2>3, <2>4
<1>12. ShownWaits'
  <2> SUFFICES ASSUME NEW t \in ClientSurfaces, surface'[t].current # None, buffer'[surface'[t].current].object,
                      buffer'[surface'[t].current].pool = None
               PROVE  surface'[t].current \in busy' \cup shared'
    BY DEF ShownWaits
  <2>1. CASE t = s /\ u.changed
    <3>1. surface'[t].current = u.pending /\ u.pending \in newly
      BY <1>1, <1>3, <1>5, <2>1
    <3> QED BY <1>1, <3>1
  <2>2. CASE t # s \/ ~u.changed
    <3>1. surface'[t] = surface[t]
      BY <1>3, <1>5, <2>2
    <3> QED BY <1>1, <3>1 DEF BuffersInv, ShownWaits
  <2> QED BY <2>1, <2>2
<1> QED BY <1>7, <1>8, <1>9, <1>10, <1>11, <1>12 DEF BuffersInv

LEMMA SurfaceDestroyedStep ==
  ASSUME BuffersAssumption, BuffersInv, NEW s \in ClientSurfaces, Buf!SurfaceDestroyed(s)
  PROVE  BuffersInv'
<1> DEFINE u == surface[s]
           n == Expected(surface, ObjectsIn(buffer), lost)
           k == Expected(surface, ObjectsIn(buffer), lost)'
           st == Buf!Store
           pd == u.pending
           cur == u.current
           d == IF pd = cur THEN None ELSE pd
           dr == Buf!UnrefBuffer(st, d)
           n1 == Less(n, d)
           to == Buf!UnrefBuffer(dr, cur)
           w == [Buf!NewSurface EXCEPT !.alive = FALSE]
<1>1. /\ u.alive /\ surface' = [surface EXCEPT ![s] = w]
      /\ busy' = (IF u.released THEN busy ELSE busy \ Buf!Released(cur))
      /\ UNCHANGED <<params, shared, lost, dead, faulted>>
  BY DEF Buf!SurfaceDestroyed
<1>2. Buf!SetStore(to)
  <2>1. Buf!SetStore(Buf!UnrefBuffer(IF pd = cur THEN st ELSE Buf!UnrefBuffer(st, pd), cur))
    BY DEF Buf!SurfaceDestroyed
  <2>2. dr = IF pd = cur THEN st ELSE Buf!UnrefBuffer(st, pd)
    BY DEF Buf!UnrefBuffer
  <2> QED BY <2>1, <2>2
<1>3. /\ StoreInv(st, params, n) /\ st.buffer = buffer /\ n \in [ClientBuffers -> Nat]
  BY BufferFacts DEF BuffersInv
<1>4. /\ surface \in [ClientSurfaces -> SurfaceRecords] /\ params \in [Params -> ParamsRecords]
      /\ pd \in ClientBuffers \cup {None} /\ cur \in ClientBuffers \cup {None}
      /\ None \notin ClientBuffers /\ busy \subseteq ClientBuffers
  BY SurfaceFacts
<1>5. w \in SurfaceRecords /\ ~w.alive /\ w.pending = None /\ w.current = None
  BY DEF Buf!NewSurface, SurfaceRecords
<1> HIDE DEF w
<1>6. /\ surface' \in [ClientSurfaces -> SurfaceRecords]
      /\ surface'[s] = w /\ \A t \in ClientSurfaces : t # s => surface'[t] = surface[t]
  BY <1>1, <1>4, <1>5
<1>7. d \in ClientBuffers \cup {None} /\ (cur # None => d # cur)
  BY <1>4
<1>8. \A b \in ClientBuffers : b \in {pd, cur} => n[b] > 0 /\ (n[b] = 1 => ~buffer[b].object)
  BY HeldCounts
<1>9. DropKept(st, params, n, d)
  <2>1. d # None => n[d] > 0 /\ (n[d] = 1 => ~st.buffer[d].object)
    BY <1>3, <1>7, <1>8
  <2> HIDE DEF n, st, d
  <2> QED BY <1>3, <1>4, <1>7, <2>1, DropKeeps
<1>10. /\ StoreInv(dr, params, n1) /\ n1 \in [ClientBuffers -> Nat]
       /\ \A c \in ClientBuffers :
            /\ dr.buffer[c].object = buffer[c].object
            /\ buffer[c].object => dr.buffer[c].pool = buffer[c].pool
  BY <1>3, <1>9 DEF DropKept
<1>11. cur # None => n1[cur] = n[cur]
  <2> HIDE DEF d, n
  <2> QED BY <1>3, <1>4, <1>7 DEF Less
<1>12. DropKept(dr, params, n1, cur)
  <2>1. cur # None => n1[cur] > 0 /\ (n1[cur] = 1 => ~dr.buffer[cur].object)
    BY <1>4, <1>8, <1>10, <1>11
  <2> HIDE DEF n, st, d, dr, n1
  <2> QED BY <1>4, <1>10, <2>1, DropKeeps
<1>13. /\ StoreInv(to, params, Less(n1, cur)) /\ buffer' = to.buffer
       /\ \A c \in ClientBuffers :
            /\ buffer'[c].object = buffer[c].object
            /\ buffer[c].object => buffer'[c].pool = buffer[c].pool
  <2> HIDE DEF n, st, d, dr, n1
  <2>1. buffer' = to.buffer
    BY <1>2 DEF Buf!SetStore
  <2>2. /\ StoreInv(to, params, Less(n1, cur))
        /\ \A c \in ClientBuffers :
             /\ to.buffer[c].object = dr.buffer[c].object
             /\ dr.buffer[c].object => to.buffer[c].pool = dr.buffer[c].pool
    BY <1>12 DEF DropKept
  <2> HIDE DEF to
  <2> QED BY <1>10, <2>1, <2>2
<1>14. \A c \in ClientBuffers : k[c] = Less(n1, cur)[c]
  <2> TAKE c \in ClientBuffers
  <2> DEFINE x == One(c \in {w.pending, w.current})
             y == One(c \in {pd, cur})
             i == One(c = d)
             j == One(c = cur)
             l == One(c \in lost)
  <2>1. CountMoved(w, s, c)
    BY <1>1, <1>13, CountMoves
  <2>2. k[c] = n[c] + x - y + l - l
    BY <1>1, <2>1 DEF CountMoved
  <2>3. n[c] \in Nat /\ c # None
    BY <1>3, <1>4
  <2>4. x = 0 /\ y = i + j /\ i \in {0, 1} /\ j \in {0, 1} /\ l \in {0, 1}
    BY <1>4, <1>5, <2>3 DEF One
  <2>5. n1[c] = n[c] - i
    <3> HIDE DEF d, n
    <3> QED BY <1>3, <1>7, <2>3 DEF Less, One
  <2>6. Less(n1, cur)[c] = n1[c] - j
    <3> HIDE DEF n1
    <3> QED BY <1>4, <1>10, <2>3 DEF Less, One
  <2> HIDE DEF x, y, i, j, n, k, l, d, n1
  <2> QED BY ONLY <2>2, <2>3, <2>4, <2>5, <2>6
<1>15. StoreInv(Buf!Store, params, Expected(surface, ObjectsIn(buffer), lost))'
  <2> DEFINE m == Less(n1, cur)
  <2>1. /\ StoreInv(to, params', m) /\ \A c \in ClientBuffers : Expected(surface, ObjectsIn(buffer), lost)'[c] = m[c]
    BY <1>1, <1>13, <1>14
  <2> HIDE DEF m, to
  <2> QED BY <1>2, <2>1, StoreSet
<1> HIDE DEF n, k, st, d, dr, n1, to
<1>16. BufferTypes'
  BY <1>1, <1>4, <1>6 DEF BuffersInv, BufferTypes
<1>17. GoneHoldsNothing' /\ LostLate'
  BY <1>1, <1>5, <1>6 DEF BuffersInv, GoneHoldsNothing, LostLate
<1>18. \A b \in ClientBuffers : b \in busy' <=> b \in busy /\ (u.released \/ b # cur \/ ~buffer[b].object)
  BY <1>1, <1>4 DEF Buf!Released
<1>19. Waiting'
  <2>1. \A b \in busy' : b \in ClientBuffers /\ buffer'[b].object /\ b \in busy
    BY <1>1, <1>4, <1>13 DEF BuffersInv, Waiting
  <2>2. ASSUME NEW b \in busy' \ lost'
        PROVE  \E t \in ClientSurfaces : surface'[t].current = b /\ ~surface'[t].released
    <3>1. PICK t \in ClientSurfaces : surface[t].current = b /\ ~surface[t].released
      BY <1>1, <2>1 DEF BuffersInv, Waiting
    <3>2. t # s
      BY <1>13, <1>18, <2>1, <3>1
    <3> QED BY <1>6, <3>1, <3>2
  <2> QED BY <2>1, <2>2 DEF Waiting
<1>20. SharedKnown'
  <2> SUFFICES ASSUME NEW t \in ClientSurfaces, NEW r \in ClientSurfaces, t # r,
                      surface'[t].current = surface'[r].current, surface'[t].current # None,
                      buffer'[surface'[t].current].object
               PROVE  surface'[t].current \in shared'
    BY DEF SharedKnown
  <2>1. t # s /\ r # s
    BY <1>5, <1>6
  <2>2. surface'[t] = surface[t] /\ surface'[r] = surface[r] /\ surface[t].current \in ClientBuffers \cup {None}
    BY <1>4, <1>6, <2>1 DEF SurfaceRecords
  <2> QED BY <1>1, <1>13, <2>2 DEF BuffersInv, SharedKnown
<1>21. ShownWaits'
  <2> SUFFICES ASSUME NEW t \in ClientSurfaces, surface'[t].current # None, buffer'[surface'[t].current].object,
                      buffer'[surface'[t].current].pool = None
               PROVE  surface'[t].current \in busy' \cup shared'
    BY DEF ShownWaits
  <2> DEFINE b == surface[t].current
  <2>1. t # s /\ surface'[t] = surface[t] /\ b \in ClientBuffers
    BY <1>4, <1>5, <1>6 DEF SurfaceRecords
  <2>2. buffer[b].object /\ b \in busy \cup shared
    BY <1>13, <2>1 DEF BuffersInv, ShownWaits
  <2>3. b \notin busy' /\ b \in busy => b \in shared
    <3> SUFFICES ASSUME b \notin busy', b \in busy PROVE b \in shared
      OBVIOUS
    <3>1. b = surface[s].current
      BY <1>18, <2>1
    <3> QED BY <1>4, <2>1, <2>2, <3>1 DEF BuffersInv, SharedKnown
  <2> QED BY <1>1, <2>1, <2>2, <2>3
<1> QED BY <1>15, <1>16, <1>17, <1>19, <1>20, <1>21 DEF BuffersInv

LEMMA BuffersStep ==
  ASSUME BuffersAssumption, BuffersInv, [Buf!Next]_bufferState
  PROVE  BuffersInv'
<1>1. ASSUME NEW p \in Pools, Buf!PoolStep(p) PROVE BuffersInv'
  BY <1>1, CreatePoolStep, ResizePoolStep, PoolDestroyedStep DEF Buf!PoolStep
<1>2. ASSUME NEW b \in ClientBuffers, Buf!BufferStep(b) PROVE BuffersInv'
  <2>1. ASSUME NEW p \in Pools, Buf!CreateShmBuffer(b, p) PROVE BuffersInv'
    BY <2>1, CreateShmBufferStep
  <2>2. ASSUME NEW q \in Params, Buf!ParamsCreate(q, b) PROVE BuffersInv'
    BY <2>2, ParamsCreateStep
  <2>3. ASSUME NEW q \in Params, Buf!ParamsCreateImmed(q, b) PROVE BuffersInv'
    BY <2>2, <2>3 DEF Buf!ParamsCreateImmed
  <2>4. CASE Buf!BufferDestroyed(b)
    BY <2>4, BufferDestroyedStep
  <2>5. CASE Buf!CopyCapture(b)
    BY <2>5, CopyCaptureStep
  <2> QED BY <1>2, <2>1, <2>2, <2>3, <2>4, <2>5 DEF Buf!BufferStep
<1>3. ASSUME NEW q \in Params, Buf!ParamsStep(q) PROVE BuffersInv'
  BY <1>3, CreateParamsStep, ParamsDestroyedStep, AddPlaneStep DEF Buf!ParamsStep
<1>4. ASSUME NEW s \in ClientSurfaces, Buf!SurfaceStep(s) PROVE BuffersInv'
  <2>1. ASSUME NEW b \in ClientBuffers \cup {None}, Buf!Attach(s, b) PROVE BuffersInv'
    BY <2>1, AttachStep
  <2>2. CASE Buf!Commit(s)
    BY <2>2, CommitStep
  <2>3. CASE Buf!CommitRefusedLate(s)
    BY <2>3, CommitRefusedLateStep
  <2>4. CASE Buf!SurfaceDestroyed(s)
    BY <2>4, SurfaceDestroyedStep
  <2>5. CASE Buf!CreateSurface(s)
    BY <2>5, CreateSurfaceStep
  <2> QED BY <1>4, <2>1, <2>2, <2>3, <2>4, <2>5 DEF Buf!SurfaceStep
<1>5. CASE UNCHANGED bufferState
  BY <1>5, BuffersStutter DEF bufferState, Buf!bufferVars
<1> QED BY <1>1, <1>2, <1>3, <1>4, <1>5 DEF Buf!Next

-----------------------------------------------------------------------------
(* What follows from it.                                                    *)

\* The slots in which surfaces hold a buffer are as many as the surfaces.
LEMMA SlotsCounted ==
  ASSUME BuffersAssumption, BuffersInv, NEW b \in ClientBuffers
  PROVE  Cardinality(Buf!Slots(b)) = Cardinality(HoldersOf(surface, b))
<1> DEFINE H == HoldersOf(surface, b)
           S == Buf!Slots(b)
           f == [s \in H |-> <<s, IF surface[s].current = b THEN "current" ELSE "pending">>]
<1>1. IsFiniteSet(H)
  BY HoldersFinite
<1>2. Buf!Holders(b) = H
  BY DEF BuffersInv, GoneHoldsNothing, BuffersAssumption, HoldersOf, Buf!Holders
<1>3. S = {<<s, "pending">> : s \in {t \in H : surface[t].pending = b /\ surface[t].current # b}}
            \cup {<<s, "current">> : s \in {t \in H : surface[t].current = b}}
  BY <1>2 DEF Buf!Slots
<1>4. \A s \in H : surface[s].current # b => surface[s].pending = b
  BY DEF HoldersOf
<1>5. f \in [H -> S]
  <2>1. \A s \in H : f[s] \in S
    BY <1>3, <1>4
  <2> QED BY <2>1
<1>6. \A s, t \in H : f[s] = f[t] => s = t
  OBVIOUS
<1>7. \A x \in S : \E s \in H : f[s] = x
  BY <1>3
<1> HIDE DEF f, S, H
<1>8. f \in Bijection(H, S)
  <2>1. f \in Injection(H, S)
    BY <1>5, <1>6 DEF Injection, IsInjective
  <2>2. f \in Surjection(H, S)
    BY <1>5, <1>7 DEF Surjection
  <2> QED BY <2>1, <2>2 DEF Bijection
<1>9. Cardinality(S) = Cardinality(H)
  BY <1>1, <1>8, FS_Bijection DEF ExistsBijection
<1> QED BY <1>9 DEF S, H

\* The instance counts as everyone does.
LEMMA SameCount == \A S : Buf!Cardinality(S) = Cardinality(S)
BY DEF Buf!Cardinality, Cardinality

LEMMA BuffersTyped ==
  ASSUME BuffersAssumption, BuffersInv
  PROVE  Buf!TypeOK
<1>1. /\ pool \in [Pools -> PoolRecords] /\ buffer \in [ClientBuffers -> BufferRecords] /\ open \subseteq Fds
  BY BufferFacts
<1>2. ASSUME NEW p \in Pools PROVE pool[p].buffers \in 0 .. Cardinality(ClientBuffers)
  <2> DEFINE st == Buf!Store
  <2>1. st.pool = pool /\ StoreInv(st, params, Expected(surface, ObjectsIn(buffer), lost))
    BY BufferFacts DEF BuffersInv
  <2> HIDE DEF st
  <2>2. pool[p].buffers = Cardinality(Mine(st, p))
    BY <2>1 DEF StoreInv, PoolsKept, PoolKept
  <2>3. Mine(st, p) \subseteq ClientBuffers /\ IsFiniteSet(ClientBuffers)
    BY DEF Mine, BuffersAssumption
  <2>4. Cardinality(Mine(st, p)) <= Cardinality(ClientBuffers) /\ Cardinality(Mine(st, p)) \in Nat
        /\ Cardinality(ClientBuffers) \in Nat
    BY <2>3, FS_Subset, FS_CardinalityType
  <2> QED BY <2>2, <2>4
<1>3. \A p \in Pools : pool[p].size \in 0 .. MaxSize
  BY <1>1 DEF PoolRecords
<1>4. \A b \in ClientBuffers : buffer[b].pool \in Pools \cup {None} /\ buffer[b].fds \subseteq Fds
  BY <1>1 DEF BufferRecords
<1>5. /\ \A q \in Params : params[q].state \in {"none", "open", "used"} /\ params[q].fds \subseteq Fds
      /\ \A s \in ClientSurfaces : {surface[s].pending, surface[s].current} \subseteq ClientBuffers \cup {None}
      /\ busy \subseteq ClientBuffers /\ shared \subseteq ClientBuffers /\ lost \subseteq ClientBuffers
      /\ dead \in BOOLEAN /\ faulted \in BOOLEAN
  BY DEF BuffersInv, BufferTypes, ParamsRecords, SurfaceRecords
<1>6. \A p \in Pools : pool[p].buffers \in 0 .. Cardinality(ClientBuffers) /\ pool[p].size \in 0 .. MaxSize
  BY <1>2, <1>3
<1> QED BY ONLY <1>1, <1>4, <1>5, <1>6, SameCount DEF Buf!TypeOK

LEMMA ReferencesAreExact ==
  ASSUME BuffersAssumption, BuffersInv
  PROVE  Buf!ReferencesExact
<1>1. ASSUME NEW b \in ClientBuffers \ lost
      PROVE  /\ buffer[b].refs = Cardinality(Buf!Slots(b)) + (IF buffer[b].object THEN 1 ELSE 0)
             /\ buffer[b].exists = (Cardinality(Buf!Slots(b)) + (IF buffer[b].object THEN 1 ELSE 0) > 0)
  <2> DEFINE n == Expected(surface, ObjectsIn(buffer), lost)
             h == Cardinality(HoldersOf(surface, b))
  <2>1. /\ buffer[b].refs = n[b] /\ (buffer[b].exists <=> n[b] > 0) /\ n[b] = h + One(buffer[b].object) + One(b \in lost)
        /\ h \in Nat /\ buffer[b] \in BufferRecords
    BY BufferFacts
  <2>2. One(buffer[b].object) = (IF buffer[b].object THEN 1 ELSE 0) /\ One(b \in lost) = 0
    BY DEF One
  <2>3. Cardinality(Buf!Slots(b)) = h
    BY SlotsCounted
  <2> HIDE DEF n, h
  <2>4. n[b] = Cardinality(Buf!Slots(b)) + (IF buffer[b].object THEN 1 ELSE 0)
    BY <2>1, <2>2, <2>3
  <2>5. buffer[b].exists \in BOOLEAN
    BY <2>1 DEF BufferRecords
  <2> QED BY <2>1, <2>4, <2>5
<1> QED BY <1>1, SameCount DEF Buf!ReferencesExact

LEMMA MappingsAreKept ==
  ASSUME BuffersAssumption, BuffersInv
  PROVE  Buf!MappingsKept
<1> DEFINE mine(p) == {b \in ClientBuffers : buffer[b].exists /\ buffer[b].pool = p}
<1>1. ASSUME NEW p \in Pools
      PROVE  /\ \A b \in mine(p) : pool[p].exists /\ buffer[b].end <= pool[p].size
             /\ pool[p].buffers = Cardinality(mine(p))
             /\ pool[p].exists => (pool[p].object \/ mine(p) # {})
  <2> DEFINE st == Buf!Store
  <2>1. st.pool = pool /\ st.buffer = buffer /\ StoreInv(st, params, Expected(surface, ObjectsIn(buffer), lost))
    BY BufferFacts DEF BuffersInv
  <2> HIDE DEF st
  <2>2. PoolKept(st, p)
    BY <2>1 DEF StoreInv, PoolsKept
  <2>3. Mine(st, p) = mine(p)
    BY <2>1 DEF Mine
  <2> HIDE DEF mine
  <2> QED BY <2>1, <2>2, <2>3 DEF PoolKept
<1> QED BY <1>1, SameCount DEF Buf!MappingsKept

LEMMA DescriptorsAreOwned ==
  ASSUME BuffersAssumption, BuffersInv
  PROVE  Buf!DescriptorsOwned
<1> DEFINE held == [o \in Params \cup ClientBuffers |-> IF o \in Params THEN params[o].fds ELSE buffer[o].fds]
<1>1. Params \cap ClientBuffers = {}
  BY DEF BuffersAssumption
<1>2. /\ \A q \in Params : held[q] = params[q].fds
      /\ \A b \in ClientBuffers : held[b] = buffer[b].fds
  BY <1>1
<1>3. /\ \A q \in Params : params[q].fds \subseteq Fds
      /\ \A b \in ClientBuffers : buffer[b].fds \subseteq Fds
      /\ open \subseteq Fds
  BY PlaneFacts DEF ParamsRecords, BufferRecords
<1> HIDE DEF held
<1>4. open = UNION {held[o] : o \in Params \cup ClientBuffers}
  <2>1. \A f \in open : \E o \in Params \cup ClientBuffers : f \in held[o]
    BY <1>2, <1>3, PlaneFacts
  <2>2. \A o \in Params \cup ClientBuffers : \A f \in held[o] : f \in open
    BY <1>2, <1>3, PlaneFacts
  <2> QED BY <2>1, <2>2
<1>5. \A o, u \in Params \cup ClientBuffers : o # u => held[o] \cap held[u] = {}
  BY <1>2, PlaneFacts
<1> QED BY <1>4, <1>5 DEF Buf!DescriptorsOwned, held

LEMMA BuffersSafe ==
  ASSUME BuffersAssumption, BuffersInv
  PROVE  /\ Buf!ReferencesExact /\ Buf!MappingsKept /\ Buf!DescriptorsOwned
         /\ Buf!EveryReleaseComes /\ Buf!NotReleasedWhileShown
<1>1. Buf!EveryReleaseComes
  BY DEF BuffersInv, Waiting, Buf!EveryReleaseComes
<1>2. Buf!NotReleasedWhileShown
  <2> SUFFICES ASSUME NEW s \in ClientSurfaces, NEW b \in ClientBuffers, surface[s].current = b, buffer[b].object,
                      ~Buf!IsShm(b)
               PROVE  b \in busy \/ b \in shared
    BY DEF Buf!NotReleasedWhileShown
  <2>1. b # None
    BY DEF BuffersAssumption
  <2> QED BY <2>1 DEF BuffersInv, ShownWaits, Buf!IsShm
<1> QED BY <1>1, <1>2, ReferencesAreExact, MappingsAreKept, DescriptorsAreOwned

---------------------------------------------------------------------------
(* The four of them together. *)

FramesInv == KmsInv /\ SceneInv /\ NestedInv /\ BuffersInv

LEMMA FramesInitially == MCInit => FramesInv
<1> SUFFICES ASSUME MCInit PROVE FramesInv
  OBVIOUS
<1>1. KmsInv
  <2>1. CASE part = "kms"
    BY <2>1, KmsInitially DEF MCInit
  <2>2. CASE part # "kms"
    <3>1. CardInv(Closed) /\ AllDrawn(Closed)
      BY ClosedTyped
    <3>2. /\ monitor = [k \in Connectors |-> 0] /\ card = FALSE /\ udev = <<>> /\ dev = Closed
      BY <2>2 DEF MCInit
    <3>3. monitor \in [Connectors -> Modes \cup {0}] /\ card \in BOOLEAN
      BY <3>2
    <3>4. udev \in Seq({"add", "remove", "change"}) /\ Len(udev) <= MaxUdev
      BY <3>2, KmsAssumption
    <3> QED BY <3>1, <3>2, <3>3, <3>4 DEF KmsInv
  <2> QED BY <2>1, <2>2
<1>2. SceneInv
  BY SceneInitially DEF MCInit
<1>3. NestedInv
  BY NestedInitially DEF MCInit
<1>4. BuffersInv
  BY BuffersInitially, BuffersAssumption DEF MCInit
<1> QED BY <1>1, <1>2, <1>3, <1>4 DEF FramesInv

\* Each of the four moves alone, so each keeps its own invariant.
LEMMA FramesStep == FramesInv /\ [MCNext]_all => FramesInv'
<1> SUFFICES ASSUME FramesInv, [MCNext]_all PROVE FramesInv'
  OBVIOUS
<1>1. /\ [Next]_kmsVars /\ [SceneNext]_sceneVars /\ [N!NestedNext]_nestedState /\ [Buf!Next]_bufferState
  BY DEF MCNext, all
<1>2. BuffersInv'
  BY <1>1, BuffersStep, BuffersAssumption DEF FramesInv
<1> QED BY <1>1, <1>2, KmsStep, SceneStep, NestedStep DEF FramesInv

\* The direct backend, the scene of its outputs, the nested backend and the
\* buffers of a client keep their invariants in every behaviour.
THEOREM FramesInvariance == MCSpec => []FramesInv
BY FramesInitially, FramesStep, PTL DEF MCSpec

\* Every state of the three backends, and of the buffers, has its type.
THEOREM FramesTypes == MCSpec => []TypesOK
<1>1. KmsInv => TypeOK
  <2> SUFFICES ASSUME KmsInv PROVE TypeOK
    OBVIOUS
  <2>1. udev \in BoundedSeq({"add", "remove", "change"}, MaxUdev)
    <3> DEFINE S == {"add", "remove", "change"}
    <3>1. udev \in [1 .. Len(udev) -> S] /\ Len(udev) \in 0 .. MaxUdev
      BY KmsAssumption DEF KmsInv
    <3> HIDE DEF S
    <3>2. udev \in BoundedSeq(S, MaxUdev)
      BY <3>1 DEF BoundedSeq, SeqOf
    <3> QED BY <3>2 DEF S
  <2>2. dev \in DevType /\ monitor \in [Connectors -> Modes \cup {0}] /\ card \in BOOLEAN
    BY DEF KmsInv, CardInv
  <2>3. \A i \in Objects : dev.obj[i] \in OutputType
    BY <2>2 DEF DevType
  <2> QED BY <2>1, <2>2, <2>3 DEF TypeOK, DevType, OutputType
<1>2. SceneInv => SceneTypeOK
  BY DEF SceneInv, Sound, SceneType, SceneTypeOK, ItemType, Anims
<1>3. NestedInv => N!TypeOK
  BY DEF NestedInv, Whole, NbType, WinType, ParentType, SeatType, Anims, N!TypeOK
<1>4. BuffersInv => Buf!TypeOK
  BY BuffersTyped, BuffersAssumption
<1>5. FramesInv => TypesOK
  BY <1>1, <1>2, <1>3, <1>4 DEF FramesInv, TypesOK
<1> QED BY <1>5, FramesInvariance, PTL

\* A page-flip event of the kernel finds the output it was asked for, and no
\* two outputs share a CRTC, whatever hotplugs and seat switches came between.
THEOREM FlipsAccounted == MCSpec => []OutputsAccounted
<1>1. ASSUME FramesInv PROVE OutputsAccounted
  <2>1. CardInv(dev) /\ dev \in DevType
    BY <1>1 DEF FramesInv, KmsInv, CardInv
  <2>2. FlipsHaveOutputs
    BY <2>1 DEF CardInv, EventsMeet, Used, FlipsHaveOutputs, DevType
  <2>3. Live(dev) \cup Retired(dev) \subseteq Used(dev) /\ Live(dev) \subseteq Objects
    BY DEF Live, Retired, Used
  <2>4. CrtcsExclusive
    BY <2>1, <2>3 DEF CardInv, Apart, CrtcsExclusive
  <2> QED BY <2>2, <2>4 DEF OutputsAccounted
<1> QED BY <1>1, FramesInvariance, PTL

\* Neither backend forgets a change that no frame has taken up: it is owed and
\* the page flip, the frame callback, the release of the buffer or the end of
\* the preparation that draws it is to come.
THEOREM NothingLeftUndrawn == MCSpec => []ChangesAreDrawn
<1>1. ASSUME FramesInv PROVE ChangesAreDrawn
  <2>1. CardInv(dev) /\ AllDrawn(dev) /\ Awaited(nb)
    BY <1>1 DEF FramesInv, KmsInv, NestedInv
  <2>2. NothingForgotten
    BY <2>1 DEF CardInv, EventsMeet, AllDrawn, Drawn, Live, NothingForgotten
  <2>3. N!ChangeIsOwed
    BY <2>1 DEF Awaited, N!ChangeIsOwed
  <2> QED BY <2>2, <2>3 DEF ChangesAreDrawn
<1> QED BY <1>1, FramesInvariance, PTL

\* No item draws an import that has been released, no import is lost or released
\* twice, a window on its way out is drawn until it is gone, and nothing stays
\* pressed on a device of the parent that is gone.  A wl_buffer has exactly the
\* references of its object and its surfaces, its mapping and its descriptors stay
\* while it needs them and go with it, and the client gets it back, not too early.
THEOREM NothingHeldInVain == MCSpec => []HoldingsAccounted
<1>1. ASSUME FramesInv PROVE HoldingsAccounted
  <2>1. SceneInv /\ NestedInv
    BY <1>1 DEF FramesInv
  <2>2. NoDeadTexture /\ GoneIsOwed
    BY <2>1 DEF SceneInv, Sound, Drawable, Owing, NoDeadTexture, GoneIsOwed
  <2>3. N!ImportsAccounted /\ N!DevicesAccounted
    BY <2>1 DEF NestedInv, Whole, N!ImportsAccounted
  <2>4. /\ Buf!ReferencesExact /\ Buf!MappingsKept /\ Buf!DescriptorsOwned
        /\ Buf!EveryReleaseComes /\ Buf!NotReleasedWhileShown
    BY <1>1, BuffersSafe, BuffersAssumption DEF FramesInv
  <2> QED BY <2>2, <2>3, <2>4 DEF HoldingsAccounted
<1> QED BY <1>1, FramesInvariance, PTL
===========================================================================
