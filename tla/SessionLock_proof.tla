------------------------- MODULE SessionLock_proof -------------------------
(* What holds of SessionLock for every number of clients, locks, surfaces, *)
(* windows and outputs.                                                    *)
EXTENDS SessionLock, TLAPS

\* The conjuncts of TypeOK, by the part of the state they are about.
LockType == [state : {"free", "live", "deleted"}, client : Clients \cup {None},
             alive : BOOLEAN, accepted : BOOLEAN, sent : BOOLEAN]
SurfaceType ==
  [client : Clients \cup {None}, surface : BOOLEAN, role : BOOLEAN,
   lock : Locks \cup {None}, output : Outputs \cup {None}, size : Sizes \cup {0},
   serials : Seq(Sizes), acked : Sizes \cup {0}, mapped : BOOLEAN, presented : BOOLEAN]
SessionTyped == session \in Locks \cup {None} /\ lock \in [Locks -> LockType]
SurfacesTyped ==
  /\ lsurf \in [LockSurfaces -> SurfaceType]
  /\ \A s \in LockSurfaces : lsurf[s].lock # None => lsurf[s].output \in Outputs
OutputsTyped == size \in [Outputs -> Sizes \cup {0}]
WindowsTyped == mapped \subseteq Windows /\ at \in [Windows -> Outputs \cup {None}]
FocusTyped == focus \in Windows \cup LockSurfaces \cup {None} /\ regular \in Windows \cup {None}
DisplayTyped ==
  /\ scene \subseteq Windows \cup LockSurfaces
  /\ flip \in [Outputs -> {"none", "normal", "clean"}] /\ due \subseteq Outputs
  /\ front \in [Outputs -> {"normal", "clean"}]
RestTyped == dying \in Clients \cup {None} /\ crashed \in BOOLEAN

LEMMA TypeParts ==
  TypeOK <=> /\ SessionTyped /\ SurfacesTyped /\ OutputsTyped /\ WindowsTyped
             /\ FocusTyped /\ DisplayTyped /\ RestTyped
BY DEF TypeOK, LockType, SurfaceType, SessionTyped, SurfacesTyped, OutputsTyped, WindowsTyped,
       FocusTyped, DisplayTyped, RestTyped

LEMMA NullTypes == NoSurface \in SurfaceType /\ NoLock \in LockType /\ NoSurface.lock = None
<1>1. <<>> \in Seq(Sizes)
  OBVIOUS
<1> QED BY <1>1 DEF NoSurface, SurfaceType, NoLock, LockType

LEMMA InitType == Init => TypeOK
<1> SUFFICES ASSUME Init PROVE TypeOK
  OBVIOUS
<1>1. SessionTyped /\ SurfacesTyped /\ OutputsTyped /\ WindowsTyped /\ FocusTyped
  BY NullTypes DEF Init, SessionTyped, SurfacesTyped, OutputsTyped, WindowsTyped, FocusTyped
<1>2. DisplayTyped /\ RestTyped
  BY DEF Init, DisplayTyped, RestTyped
<1> QED BY <1>1, <1>2, TypeParts

LEMMA PaintType ==
  ASSUME DisplayTyped, NEW P \in SUBSET Outputs, NEW sc \in SUBSET (Windows \cup LockSurfaces),
         NEW pos, PaintAt(P, sc, pos)
  PROVE  DisplayTyped'
<1>1. \A o : Frame(sc, pos, o) \in {"normal", "clean"}
  BY DEF Frame
<1> QED BY <1>1 DEF PaintAt, DisplayTyped

\* The seat, the surfaces and the display after the helpers of the actions.
Typed == SessionTyped /\ SurfacesTyped /\ WindowsTyped /\ FocusTyped /\ DisplayTyped /\ OutputsTyped
TouchedTyped == SessionTyped /\ SurfacesTyped /\ FocusTyped /\ DisplayTyped

LEMMA PaintPresentType ==
  ASSUME DisplayTyped, NEW P, NEW sc \in SUBSET (Windows \cup LockSurfaces),
         Paint(P \cap Present, sc) \/ Paint(Present, sc)
  PROVE  DisplayTyped'
BY PaintType DEF Paint, Present

LEMMA DeleteType ==
  ASSUME SessionTyped, NEW l \in Locks, Delete(l)
  PROVE  lock' \in [Locks -> LockType]
<1>1. NoLock \in LockType /\ [NoLock EXCEPT !.state = "deleted"] \in LockType
  BY NullTypes DEF LockType
<1> QED BY <1>1 DEF Delete, SessionTyped

LEMMA RestoreType ==
  ASSUME Typed, NEW l \in Locks, Restore(l), Delete(l)
  PROVE  TouchedTyped'
<1>1. SessionTyped'
  BY DeleteType DEF Typed, Restore, SessionTyped
<1>2. SurfacesTyped'
  BY ZenonT(40) DEF Typed, Restore, SurfacesTyped, SurfaceType
<1>3. FocusTyped'
  BY DEF Typed, Restore, FocusTyped, WindowsTyped
<1>4. DisplayTyped'
  <2>1. (scene \ SurfacesOf(l)) \cup Placed \in SUBSET (Windows \cup LockSurfaces)
    BY DEF Typed, DisplayTyped, Placed, WindowsTyped
  <2> QED BY <2>1, PaintPresentType DEF Restore, Typed
<1> QED BY <1>1, <1>2, <1>3, <1>4 DEF TouchedTyped

LEMMA LockDestroyedType ==
  ASSUME Typed, NEW l \in Locks, LockResourceDestroyed(l)
  PROVE  TouchedTyped'
<1>0. lock[l] \in LockType
  BY DEF Typed, SessionTyped
<1>1. CASE lock[l].accepted /\ ~lock[l].sent
  BY <1>1, RestoreType DEF LockResourceDestroyed
<1>2. CASE lock[l].accepted /\ lock[l].sent
  <2>1. UNCHANGED <<session, lsurf, focus, regular, scene, flip, due, front>>
    BY <1>2 DEF LockResourceDestroyed, seatVars, display
  <2>2. lock' \in [Locks -> LockType]
    <3>1. lock' = [lock EXCEPT ![l].alive = FALSE, ![l].client = None]
      BY <1>2 DEF LockResourceDestroyed
    <3>2. [lock[l] EXCEPT !.alive = FALSE, !.client = None] \in LockType
      BY <1>0 DEF LockType
    <3>3. lock \in [Locks -> LockType]
      BY DEF Typed, SessionTyped
    <3>4. lock' = [lock EXCEPT ![l] = [lock[l] EXCEPT !.alive = FALSE, !.client = None]]
      BY <3>1, <3>3
    <3> QED BY <3>2, <3>3, <3>4
  <2> QED BY <2>1, <2>2 DEF Typed, TouchedTyped, SessionTyped, SurfacesTyped, FocusTyped, DisplayTyped
<1>3. CASE ~lock[l].accepted
  <2>1. UNCHANGED <<session, lsurf, focus, regular, scene, flip, due, front>> /\ Delete(l)
    BY <1>3 DEF LockResourceDestroyed, seatVars, display
  <2> QED BY <2>1, DeleteType DEF Typed, TouchedTyped, SessionTyped, SurfacesTyped, FocusTyped, DisplayTyped
<1> QED BY <1>1, <1>2, <1>3

LEMMA RoleDestroyedType ==
  ASSUME Typed, NEW s \in LockSurfaces, RoleDestroyed(s)
  PROVE  TouchedTyped'
<1>0. lsurf[s] \in SurfaceType
  BY DEF Typed, SurfacesTyped
<1>1. SessionTyped'
  BY DEF RoleDestroyed, Typed, SessionTyped
<1>2. SurfacesTyped'
  <2>1. [NoSurface EXCEPT !.client = lsurf[s].client, !.surface = TRUE] \in SurfaceType
    BY <1>0, NullTypes DEF SurfaceType
  <2> QED BY <2>1, NullTypes DEF RoleDestroyed, Typed, SurfacesTyped
<1>3. FocusTyped'
  BY DEF RoleDestroyed, Typed, FocusTyped
<1>4. DisplayTyped'
  <2>1. UNCHANGED display \/ Paint({lsurf[s].output} \cap Present, scene \ {s})
    BY DEF RoleDestroyed
  <2>2. scene \ {s} \in SUBSET (Windows \cup LockSurfaces)
    BY DEF Typed, DisplayTyped
  <2>3. CASE UNCHANGED display
    BY <2>3 DEF display, Typed, DisplayTyped
  <2> QED BY <2>1, <2>2, <2>3, PaintPresentType DEF Typed
<1> QED BY <1>1, <1>2, <1>3, <1>4 DEF TouchedTyped

LEMMA FallbackType ==
  ASSUME WindowsTyped, FocusTyped, NEW x
  PROVE  Fallbacks(x) \subseteq mapped \cup {None}
BY DEF Fallbacks

LEMMA SurfaceDestroyedType ==
  ASSUME Typed, NEW s \in LockSurfaces, SurfaceDestroyed(s)
  PROVE  TouchedTyped'
<1>0. lsurf[s] \in SurfaceType
  BY DEF Typed, SurfacesTyped
<1>1. SessionTyped'
  BY DEF SurfaceDestroyed, Typed, SessionTyped
<1>2. SurfacesTyped'
  BY ZenonT(40), <1>0, NullTypes DEF SurfaceDestroyed, Typed, SurfacesTyped, SurfaceType
<1>3. FocusTyped'
  BY FallbackType DEF SurfaceDestroyed, SetFocus, Typed, FocusTyped, WindowsTyped
<1>4. DisplayTyped'
  <2>1. scene \ {s} \in SUBSET (Windows \cup LockSurfaces)
    BY DEF Typed, DisplayTyped
  <2> QED BY <2>1, PaintPresentType DEF SurfaceDestroyed, Typed
<1> QED BY <1>1, <1>2, <1>3, <1>4 DEF TouchedTyped

LEMMA NextType == TypeOK /\ [Next]_vars => TypeOK'
<1> SUFFICES ASSUME TypeOK, [Next]_vars PROVE TypeOK'
  OBVIOUS
<1>0. Typed /\ RestTyped
  BY TypeParts DEF Typed
<1>T. ASSUME TouchedTyped', OutputsTyped', WindowsTyped', RestTyped' PROVE TypeOK'
  BY <1>T DEF TouchedTyped, SessionTyped, SurfacesTyped, OutputsTyped, WindowsTyped,
     FocusTyped, DisplayTyped, RestTyped, TypeOK, LockType, SurfaceType
<1>U. /\ UNCHANGED <<session, lock>> => SessionTyped'
      /\ UNCHANGED lsurf => SurfacesTyped'
      /\ UNCHANGED size => OutputsTyped'
      /\ UNCHANGED windowVars => WindowsTyped'
      /\ UNCHANGED seatVars => FocusTyped'
      /\ UNCHANGED display => DisplayTyped'
      /\ UNCHANGED <<dying, crashed>> => RestTyped'
  BY <1>0 DEF Typed, SessionTyped, SurfacesTyped, OutputsTyped, WindowsTyped, FocusTyped,
     DisplayTyped, RestTyped, windowVars, seatVars, display
<1>V. UNCHANGED <<session, lock, lsurf, seatVars, display>> => TouchedTyped'
  BY <1>U DEF TouchedTyped
<1>1. ASSUME NEW c \in Clients, NEW l \in Locks, LockSession(c, l) PROVE TypeOK'
  <2> DEFINE new(ok) == [NoLock EXCEPT !.state = "live", !.client = c, !.alive = TRUE,
                                       !.accepted = ok]
  <2>1. new(TRUE) \in LockType /\ new(FALSE) \in LockType
    BY NullTypes DEF LockType
  <2>2. SurfacesTyped' /\ OutputsTyped' /\ WindowsTyped' /\ RestTyped'
    BY <1>1, <1>U DEF LockSession
  <2>3. CASE session # None
    <3>1. lock' = [lock EXCEPT ![l] = new(FALSE)] /\ UNCHANGED <<session, focus, regular, display>>
      BY <1>1, <2>3 DEF LockSession
    <3> HIDE DEF new
    <3>2. SessionTyped'
      BY <3>1, <2>1, <1>0 DEF Typed, SessionTyped
    <3> QED BY <3>1, <3>2, <2>2, <1>U, <1>T DEF seatVars, TouchedTyped
  <2>4. CASE session = None
    <3>1. /\ lock' = [lock EXCEPT ![l] = new(TRUE)]
          /\ session' = l /\ focus' = None /\ regular' = regular
          /\ Paint(Present, scene \ Windows)
      BY <1>1, <2>4 DEF LockSession
    <3> HIDE DEF new
    <3>2. SessionTyped' /\ FocusTyped'
      BY <3>1, <2>1, <1>0 DEF Typed, SessionTyped, FocusTyped
    <3>3. scene \ Windows \in SUBSET (Windows \cup LockSurfaces)
      BY <1>0 DEF Typed, DisplayTyped
    <3>4. DisplayTyped'
      BY <3>1, <3>3, <1>0, PaintPresentType DEF Typed
    <3> QED BY <3>2, <3>4, <2>2, <1>T DEF TouchedTyped
  <2> QED BY <2>3, <2>4
<1>K. ASSUME NEW l \in Locks, Kill(lock[l].client), UNCHANGED crashed PROVE RestTyped'
  BY <1>K, <1>0 DEF Kill, Typed, SessionTyped, LockType, RestTyped
<1>2. ASSUME NEW l \in Locks, DestroyLock(l) PROVE TypeOK'
  <2>1. OutputsTyped' /\ WindowsTyped'
    BY <1>2, <1>U DEF DestroyLock
  <2>2. RestTyped'
    BY <1>2, <1>K, <1>U DEF DestroyLock
  <2>3. TouchedTyped'
    BY <1>2, <1>0, <1>V, LockDestroyedType DEF DestroyLock
  <2> QED BY <2>1, <2>2, <2>3, <1>T
<1>3. ASSUME NEW l \in Locks, UnlockAndDestroy(l) PROVE TypeOK'
  <2>1. OutputsTyped' /\ WindowsTyped'
    BY <1>3, <1>U DEF UnlockAndDestroy
  <2>2. RestTyped'
    BY <1>3, <1>K, <1>U DEF UnlockAndDestroy
  <2>3. TouchedTyped'
    BY <1>3, <1>0, <1>V, RestoreType DEF UnlockAndDestroy
  <2> QED BY <2>1, <2>2, <2>3, <1>T
<1>4. ASSUME NEW l \in Locks, NEW s \in LockSurfaces, NEW o \in Outputs, GetLockSurface(l, s, o)
      PROVE  TypeOK'
  <2> DEFINE new == [NoSurface EXCEPT !.client = lock[l].client, !.surface = TRUE, !.role = TRUE,
                        !.lock = l, !.output = o, !.size = size[o], !.serials = <<size[o]>>]
  <2>1. OutputsTyped' /\ WindowsTyped' /\ SessionTyped' /\ FocusTyped' /\ DisplayTyped'
    BY <1>4, <1>U DEF GetLockSurface
  <2>2. RestTyped'
    BY <1>4, <1>K, <1>U DEF GetLockSurface
  <2>3. UNCHANGED lsurf \/ (o \in Present /\ lsurf' = [lsurf EXCEPT ![s] = new])
    BY <1>4 DEF GetLockSurface
  <2>4. o \in Present => size[o] \in Sizes
    BY <1>0 DEF Typed, OutputsTyped, Present
  <2>5. o \in Present => <<size[o]>> \in Seq(Sizes)
    BY <2>4
  <2>6. lock[l].client \in Clients \cup {None}
    BY <1>0 DEF Typed, SessionTyped, LockType
  <2>7. o \in Present => new \in SurfaceType /\ new.output = o
    BY <2>4, <2>5, <2>6, NullTypes DEF SurfaceType
  <2> HIDE DEF new
  <2>8. SurfacesTyped'
    BY <2>3, <2>7, <1>0 DEF Typed, SurfacesTyped
  <2> QED BY <2>1, <2>2, <2>8, <1>T DEF TouchedTyped
<1>5. ASSUME NEW s \in LockSurfaces, NEW n \in 1 .. Len(lsurf[s].serials), Ack(s, n) PROVE TypeOK'
  <2> DEFINE q == lsurf[s].serials
             new == [lsurf[s] EXCEPT !.acked = q[n], !.serials = SubSeq(q, n + 1, Len(q))]
  <2>1. lsurf[s] \in SurfaceType /\ q \in Seq(Sizes)
    BY <1>0 DEF Typed, SurfacesTyped, SurfaceType
  <2>2. q[n] \in Sizes /\ SubSeq(q, n + 1, Len(q)) \in Seq(Sizes)
    <3> HIDE DEF q
    <3>1. n \in 1 .. Len(q)
      BY DEF q
    <3> QED BY <2>1, <3>1
  <2>3. lsurf' = [lsurf EXCEPT ![s] = new]
    <3>1. lsurf' = [lsurf EXCEPT ![s].acked = q[n], ![s].serials = SubSeq(q, n + 1, Len(q))]
      BY <1>5 DEF Ack
    <3>2. lsurf \in [LockSurfaces -> SurfaceType]
      BY <1>0 DEF Typed, SurfacesTyped
    <3> HIDE DEF q
    <3> QED BY <3>1, <3>2
  <2>4. new \in SurfaceType /\ new.lock = lsurf[s].lock /\ new.output = lsurf[s].output
    <3> HIDE DEF q
    <3> QED BY <2>1, <2>2 DEF SurfaceType
  <2> HIDE DEF new
  <2>5. SurfacesTyped'
    BY <2>3, <2>4, <1>0 DEF Typed, SurfacesTyped
  <2> QED BY <1>5, <2>5, <1>U, <1>T DEF Ack, TouchedTyped
<1>6. ASSUME NEW s \in LockSurfaces, NEW b \in Sizes, CommitLockSurface(s, b) PROVE TypeOK'
  <2>0. lsurf[s] \in SurfaceType
    BY <1>0 DEF Typed, SurfacesTyped
  <2>1. OutputsTyped' /\ WindowsTyped' /\ SessionTyped'
    BY <1>6, <1>U DEF CommitLockSurface
  <2>2. SurfacesTyped'
    <3>1. UNCHANGED lsurf \/ lsurf' = [lsurf EXCEPT ![s] = [lsurf[s] EXCEPT !.mapped = TRUE, !.presented = FALSE]]
      <4>1. lsurf \in [LockSurfaces -> SurfaceType]
        BY <1>0 DEF Typed, SurfacesTyped
      <4>2. UNCHANGED lsurf \/ lsurf' = [lsurf EXCEPT ![s].mapped = TRUE, ![s].presented = FALSE]
        BY <1>6 DEF CommitLockSurface
      <4> QED BY <4>1, <4>2
    <3>2. [lsurf[s] EXCEPT !.mapped = TRUE, !.presented = FALSE] \in SurfaceType
      BY <2>0 DEF SurfaceType
    <3> QED BY ZenonT(40), <3>1, <3>2, <2>0, <1>0 DEF Typed, SurfacesTyped, SurfaceType
  <2>3. FocusTyped'
    BY <1>6, <1>0 DEF CommitLockSurface, Typed, FocusTyped
  <2>4. RestTyped'
    <3>1. dying' \in {dying, lsurf[s].client} /\ crashed' = crashed
      BY <1>6, <1>0 DEF CommitLockSurface, Kill, RestTyped
    <3> QED BY <3>1, <2>0, <1>0 DEF RestTyped, SurfaceType
  <2>5. DisplayTyped'
    <3>1. scene \cup {s} \in SUBSET (Windows \cup LockSurfaces)
      BY <1>0 DEF Typed, DisplayTyped
    <3>2. UNCHANGED display \/ Paint({lsurf[s].output} \cap Present, scene \cup {s})
      <4>1. lsurf[s].output \in Present => {lsurf[s].output} \cap Present = {lsurf[s].output}
        OBVIOUS
      <4> QED BY <1>6, <4>1 DEF CommitLockSurface, NotifyLockSurface
    <3> QED BY <3>1, <3>2, <1>0, <1>U, PaintPresentType DEF Typed
  <2> QED BY <2>1, <2>2, <2>3, <2>4, <2>5, <1>T DEF TouchedTyped
<1>7. ASSUME NEW s \in LockSurfaces, DestroyLockSurface(s) PROVE TypeOK'
  <2>1. OutputsTyped' /\ WindowsTyped' /\ TouchedTyped'
    BY <1>7, <1>0, <1>U, RoleDestroyedType DEF DestroyLockSurface
  <2>2. RestTyped'
    BY <1>7, <1>0 DEF DestroyLockSurface, RestTyped
  <2> QED BY <2>1, <2>2, <1>T
<1>8. ASSUME NEW s \in LockSurfaces, DestroySurface(s) PROVE TypeOK'
  BY <1>8, <1>0, <1>U, <1>T, SurfaceDestroyedType DEF DestroySurface
<1>9. ASSUME NEW c \in Clients, Disconnect(c) PROVE TypeOK'
  <2>1. RestTyped'
    BY <1>9, <1>0 DEF Disconnect, Kill, RestTyped
  <2> QED BY <2>1, <1>9, <1>U, <1>V, <1>T DEF Disconnect
<1>10. CASE TearDown
  <2>1. OutputsTyped' /\ WindowsTyped'
    BY <1>10, <1>U DEF TearDown
  <2>2. RestTyped'
    BY <1>10, <1>0 DEF TearDown, RestTyped
  <2>3. TouchedTyped'
    BY <1>10, <1>0, <1>V, LockDestroyedType, RoleDestroyedType, SurfaceDestroyedType DEF TearDown
  <2> QED BY <2>1, <2>2, <2>3, <1>T
<1>11. ASSUME NEW w \in Windows, NEW o \in Outputs \cup {None}, CommitWindow(w, o) PROVE TypeOK'
  <2>1. SessionTyped' /\ SurfacesTyped' /\ OutputsTyped' /\ RestTyped'
    BY <1>11, <1>U DEF CommitWindow
  <2>2. WindowsTyped' /\ FocusTyped'
    BY <1>11, <1>0 DEF CommitWindow, SetFocus, seatVars, Typed, WindowsTyped, FocusTyped
  <2>3. DisplayTyped'
    <3>1. scene \cup {w} \in SUBSET (Windows \cup LockSurfaces)
      BY <1>0 DEF Typed, DisplayTyped
    <3>2. UNCHANGED display \/ (o # None /\ PaintAt({o}, scene \cup {w}, [at EXCEPT ![w] = o]))
      BY <1>11 DEF CommitWindow, NotifyWindow
    <3>3. o # None => {o} \in SUBSET Outputs
      OBVIOUS
    <3> QED BY <3>1, <3>2, <3>3, <1>0, <1>U, PaintType DEF Typed
  <2> QED BY <2>1, <2>2, <2>3, <1>T DEF TouchedTyped
<1>12. ASSUME NEW w \in Windows, UnmapWindow(w) PROVE TypeOK'
  <2>1. SessionTyped' /\ SurfacesTyped' /\ OutputsTyped' /\ RestTyped'
    BY <1>12, <1>U DEF UnmapWindow
  <2>2. WindowsTyped'
    BY <1>12, <1>0 DEF UnmapWindow, Typed, WindowsTyped
  <2>3. FocusTyped'
    BY <1>12, <1>0, FallbackType DEF UnmapWindow, FocusLost, Typed, WindowsTyped, FocusTyped
  <2>4. DisplayTyped'
    <3>1. scene \ {w} \in SUBSET (Windows \cup LockSurfaces)
      BY <1>0 DEF Typed, DisplayTyped
    <3> QED BY <3>1, <1>12, <1>0, PaintPresentType DEF UnmapWindow, Typed
  <2> QED BY <2>1, <2>2, <2>3, <2>4, <1>T DEF TouchedTyped
<1>13. ASSUME NEW o \in Outputs, NEW b \in Sizes \cup {0}, SetOutput(o, b) PROVE TypeOK'
  <2>1. SessionTyped' /\ FocusTyped' /\ RestTyped'
    BY <1>13, <1>U DEF SetOutput
  <2>2. OutputsTyped'
    BY <1>13, <1>0 DEF SetOutput, Typed, OutputsTyped
  <2>3. SurfacesTyped'
    <3>1. ASSUME NEW s \in LockSurfaces PROVE Configured(s, size') \in SurfaceType
      <4>1. lsurf[s] \in SurfaceType /\ lsurf[s].serials \in Seq(Sizes)
        BY <1>0 DEF Typed, SurfacesTyped, SurfaceType
      <4>2. CASE session = None \/ lsurf[s].lock # session \/ size'[lsurf[s].output] = 0
        BY ZenonT(40), <4>1, <4>2 DEF Configured, SurfaceType
      <4>3. CASE ~(session = None \/ lsurf[s].lock # session \/ size'[lsurf[s].output] = 0)
        <5>0. lsurf[s].output \in Outputs
          BY <4>1, <4>3, <1>0 DEF Typed, SurfacesTyped, SessionTyped
        <5>1. size'[lsurf[s].output] \in Sizes
          BY <4>3, <5>0, <2>2 DEF OutputsTyped
        <5>2. Append(lsurf[s].serials, size'[lsurf[s].output]) \in Seq(Sizes)
          BY <4>1, <5>1
        <5> QED BY <4>1, <4>3, <5>1, <5>2 DEF Configured, SurfaceType
      <4> QED BY <4>1, <4>2, <4>3
    <3>2. \A s \in LockSurfaces : Configured(s, size').lock = lsurf[s].lock
                                  /\ Configured(s, size').output = lsurf[s].output
      <4>1. \A s \in LockSurfaces : lsurf[s] \in SurfaceType
        BY <1>0 DEF Typed, SurfacesTyped
      <4> QED BY <4>1 DEF Configured, SurfaceType
    <3>3. lsurf' = [s \in LockSurfaces |-> Configured(s, size')]
      BY <1>13 DEF SetOutput
    <3> QED BY <3>1, <3>2, <3>3, <1>0 DEF SurfacesTyped, Typed
  <2>4. WindowsTyped'
    BY <1>13, <1>0 DEF SetOutput, Typed, WindowsTyped
  <2>5. DisplayTyped'
    <3>1. scene' \subseteq Windows \cup LockSurfaces
      BY <1>13, <1>0 DEF SetOutput, Typed, DisplayTyped, WindowsTyped
    <3>2. \A p \in Outputs : Frame(scene', at', p) \in {"none", "normal", "clean"}
      BY DEF Frame
    <3>3. flip' \in [Outputs -> {"none", "normal", "clean"}]
      <4>1. flip' = [p \in Outputs |-> IF p = o /\ b = 0 THEN "none"
                                      ELSE IF p \in {q \in Outputs : size'[q] # 0}
                                               /\ (flip[p] = "none" \/ (p = o /\ (size[o] = 0 \/ b = 0)))
                                             THEN Frame(scene', at', p)
                                      ELSE flip[p]]
        BY <1>13 DEF SetOutput
      <4> QED BY <4>1, <3>2, <1>0 DEF Typed, DisplayTyped
    <3>4. due' \subseteq Outputs /\ front' \in [Outputs -> {"normal", "clean"}]
      BY <1>13, <1>0 DEF SetOutput, Typed, DisplayTyped
    <3> QED BY <3>1, <3>3, <3>4 DEF DisplayTyped
  <2> QED BY <2>1, <2>2, <2>3, <2>4, <2>5, <1>T DEF TouchedTyped
<1>F. \A o \in Outputs : Frame(scene, at, o) \in {"normal", "clean"}
  BY DEF Frame
<1>14. ASSUME NEW o \in Outputs, PageFlip(o) PROVE TypeOK'
  <2>1. OutputsTyped' /\ WindowsTyped' /\ FocusTyped' /\ RestTyped'
    BY <1>14, <1>U DEF PageFlip
  <2>2. SessionTyped'
    <3>1. UNCHANGED lock \/ (session \in Locks /\ lock' = [lock EXCEPT ![session].sent = TRUE])
      BY <1>14, <1>0 DEF PageFlip, Typed, SessionTyped
    <3> QED BY ZenonT(40), <3>1, <1>14, <1>0 DEF PageFlip, Typed, SessionTyped, LockType
  <2>3. SurfacesTyped'
    <3>1. \A s \in LockSurfaces : lsurf[s] \in SurfaceType
      BY <1>0 DEF Typed, SurfacesTyped
    <3>2. \A s \in LockSurfaces :
            LET new == [lsurf[s] EXCEPT !.presented = TRUE] IN
            new \in SurfaceType /\ new.lock = lsurf[s].lock /\ new.output = lsurf[s].output
      BY <3>1 DEF SurfaceType
    <3> QED BY <3>1, <3>2, <1>14, <1>0 DEF PageFlip, SurfacesPresented, SurfacesTyped, Typed
  <2>4. DisplayTyped'
    BY <1>14, <1>F, <1>0 DEF PageFlip, Typed, DisplayTyped
  <2> QED BY <2>1, <2>2, <2>3, <2>4, <1>T DEF TouchedTyped
<1>15. ASSUME NEW o \in Outputs, Repaint(o) PROVE TypeOK'
  <2>1. OutputsTyped' /\ WindowsTyped' /\ FocusTyped' /\ RestTyped' /\ SessionTyped' /\ SurfacesTyped'
    BY <1>15, <1>U DEF Repaint
  <2>2. DisplayTyped'
    BY <1>15, <1>F, <1>0 DEF Repaint, Typed, DisplayTyped
  <2> QED BY <2>1, <2>2, <1>T DEF TouchedTyped
<1>16. CASE UNCHANGED vars
  BY <1>16, <1>U, <1>V, <1>T DEF vars
<1> QED
  BY <1>1, <1>2, <1>3, <1>4, <1>5, <1>6, <1>7, <1>8, <1>9, <1>10, <1>11, <1>12, <1>13, <1>14,
     <1>15, <1>16
  DEF Next, ClientStep, WindowStep, OutputStep

\* The lock the session has is the only one that was accepted or sent `locked`.
Holder == \A l \in Locks : lock[l].accepted \/ lock[l].sent => l = session

LEMMA InitHolder == Init => Holder
BY DEF Init, Holder, NoLock

LEMMA NextHolder == TypeOK /\ Holder /\ [Next]_vars => Holder'
<1> SUFFICES ASSUME TypeOK, Holder, [Next]_vars PROVE Holder'
  OBVIOUS
<1>0. /\ session \in Locks \cup {None}
      /\ lock \in [Locks -> [state : {"free", "live", "deleted"}, client : Clients \cup {None},
                          alive : BOOLEAN, accepted : BOOLEAN, sent : BOOLEAN]]
  BY DEF TypeOK
<1> USE <1>0
<1>a. None \notin Locks
  BY SessionLockAssumption
<1>D. ASSUME NEW l \in Locks, Delete(l), session' = session \/ Restore(l) PROVE Holder'
  <2>1. /\ lock' \in [Locks -> [state : {"free", "live", "deleted"}, client : Clients \cup {None},
                                accepted : BOOLEAN, sent : BOOLEAN, alive : BOOLEAN]]
        /\ ~lock'[l].accepted /\ ~lock'[l].sent
        /\ \A m \in Locks : m # l => lock'[m] = lock[m]
    BY <1>D DEF Delete, NoLock
  <2>2. session' = session \/ session' = IF session = l THEN None ELSE session
    BY <1>D DEF Restore
  <2> QED BY <2>1, <2>2 DEF Holder
<1>R. ASSUME NEW l \in Locks, LockResourceDestroyed(l) PROVE Holder'
  <2>1. CASE lock[l].accepted /\ ~lock[l].sent
    BY <2>1, <1>R, <1>D DEF LockResourceDestroyed
  <2>2. CASE lock[l].accepted /\ lock[l].sent
    BY <2>2, <1>R DEF LockResourceDestroyed, Holder
  <2>3. CASE ~lock[l].accepted
    BY <2>3, <1>R, <1>D DEF LockResourceDestroyed
  <2> QED BY <2>1, <2>2, <2>3
<1>1. ASSUME NEW c \in Clients, NEW l \in Locks, LockSession(c, l) PROVE Holder'
  <2>1. CASE session # None
    <3>1. /\ session' = session
          /\ ~lock'[l].accepted /\ ~lock'[l].sent
          /\ \A m \in Locks : m # l => lock'[m] = lock[m]
      <4> DEFINE refused == [NoLock EXCEPT !.state = "live", !.client = c, !.alive = TRUE,
                                           !.accepted = FALSE]
      <4>1. session' = session /\ lock' = [lock EXCEPT ![l] = refused]
        BY <2>1, <1>1 DEF LockSession
      <4>2. ~refused.accepted /\ ~refused.sent
        BY DEF NoLock
      <4> HIDE DEF refused
      <4> QED BY <4>1, <4>2
    <3> QED BY <3>1 DEF Holder
  <2>2. CASE session = None
    <3>1. /\ session' = l
          /\ \A m \in Locks : m # l => lock'[m] = lock[m]
      BY <2>2, <1>1 DEF LockSession, NoLock
    <3>2. \A m \in Locks : ~lock[m].accepted /\ ~lock[m].sent
      BY <2>2, <1>a DEF Holder
    <3> QED BY <3>1, <3>2 DEF Holder
  <2> QED BY <2>1, <2>2
<1>2. ASSUME NEW l \in Locks, DestroyLock(l) PROVE Holder'
  BY <1>2, <1>R DEF DestroyLock, Holder
<1>3. ASSUME NEW l \in Locks, UnlockAndDestroy(l) PROVE Holder'
  BY <1>3, <1>D DEF UnlockAndDestroy, Holder
<1>4. ASSUME NEW o \in Outputs, PageFlip(o) PROVE Holder'
  BY <1>4 DEF PageFlip, Holder
<1>5. CASE UNCHANGED <<session, lock>>
  BY <1>5 DEF Holder
<1>6. CASE TearDown
  <2>1. (\E l \in Locks : LockResourceDestroyed(l)) \/ UNCHANGED <<session, lock>>
    BY <1>6 DEF TearDown, RoleDestroyed, SurfaceDestroyed
  <2> QED BY <2>1, <1>R, <1>5
<1>7. CASE \E l \in Locks, s \in LockSurfaces, o \in Outputs : GetLockSurface(l, s, o)
  BY <1>7, <1>5 DEF GetLockSurface
<1>8. CASE \E s \in LockSurfaces : \E n \in 1 .. Len(lsurf[s].serials) : Ack(s, n)
  BY <1>8, <1>5 DEF Ack
<1>9. CASE \E s \in LockSurfaces, b \in Sizes : CommitLockSurface(s, b)
  BY <1>9, <1>5 DEF CommitLockSurface
<1>10. CASE \E s \in LockSurfaces : DestroyLockSurface(s) \/ DestroySurface(s)
  BY <1>10, <1>5 DEF DestroyLockSurface, DestroySurface, RoleDestroyed, SurfaceDestroyed
<1>11. CASE \E c \in Clients : Disconnect(c)
  BY <1>11, <1>5 DEF Disconnect
<1>12. CASE WindowStep
  BY <1>12, <1>5 DEF WindowStep, CommitWindow, UnmapWindow
<1>13. CASE \E o \in Outputs : (\E b \in Sizes \cup {0} : SetOutput(o, b)) \/ Repaint(o)
  BY <1>13, <1>5 DEF SetOutput, Repaint
<1>14. CASE UNCHANGED vars
  BY <1>14, <1>5 DEF vars
<1> QED
  BY <1>1, <1>2, <1>3, <1>4, <1>6, <1>7, <1>8, <1>9, <1>10, <1>11, <1>12, <1>13, <1>14
  DEF Next, ClientStep, OutputStep

----------------------------------------------------------------------------
\* What takes part in hiding the windows: the scene and the frames.
Shown == scene \subseteq Windows \cup LockSurfaces /\ flip \in [Outputs -> {"none", "normal", "clean"}]

\* While the session stays locked only lock surfaces come into the scene, and
\* a frame that starts is clean.
StaysHidden ==
  /\ scene' \cap Windows = {}
  /\ \A o \in Outputs : flip'[o] = "normal" => flip[o] = "normal" /\ front'[o] = front[o]

\* Painting a scene without windows starts clean frames only.
LEMMA PaintClean ==
  ASSUME Shown, NEW P, NEW sc, NEW pos, sc \cap Windows = {}, PaintAt(P, sc, pos)
  PROVE  StaysHidden
<1>1. \A o \in Outputs : Frame(sc, pos, o) = "clean"
  BY DEF Frame
<1> QED BY <1>1 DEF PaintAt, StaysHidden, Shown

LEMMA NextHidden ==
  ASSUME TypeOK, Holder, Next, session # None, NormalHidden, session' # None
  PROVE  StaysHidden
<1>0. Shown /\ scene \cap Windows = {} /\ LockSurfaces \cap Windows = {}
  BY SessionLockAssumption DEF TypeOK, NormalHidden, Shown
<1>S. CASE UNCHANGED display
  BY <1>0, <1>S DEF display, StaysHidden
<1>P. ASSUME NEW P, NEW S \in SUBSET LockSurfaces, Paint(P, scene \cup S) PROVE StaysHidden
  BY <1>0, <1>P, PaintClean DEF Paint
<1>M. ASSUME NEW P, NEW S, Paint(P, scene \ S) PROVE StaysHidden
  BY <1>0, <1>M, PaintClean DEF Paint
<1>1. ASSUME NEW c \in Clients, NEW l \in Locks, LockSession(c, l) PROVE StaysHidden
  BY <1>1, <1>S DEF LockSession
<1>R. ASSUME NEW l \in Locks, LockResourceDestroyed(l) PROVE StaysHidden
  <2>1. ~Restore(l) \/ ~lock[l].accepted
    BY DEF Restore, Holder
  <2> QED BY <2>1, <1>R, <1>S DEF LockResourceDestroyed
<1>L. ASSUME NEW s \in LockSurfaces, RoleDestroyed(s) \/ SurfaceDestroyed(s) PROVE StaysHidden
  BY <1>L, <1>M, <1>S DEF RoleDestroyed, SurfaceDestroyed
<1>2. ASSUME NEW l \in Locks, DestroyLock(l) \/ UnlockAndDestroy(l) PROVE StaysHidden
  <2>1. CASE DestroyLock(l)
    BY <2>1, <1>R, <1>S DEF DestroyLock
  <2>2. CASE UnlockAndDestroy(l)
    <3>1. ~(lock[l].sent /\ Restore(l))
      BY DEF Restore, Holder
    <3> QED BY <3>1, <2>2, <1>S DEF UnlockAndDestroy
  <2> QED BY <1>2, <2>1, <2>2
<1>3. ASSUME NEW l \in Locks, NEW s \in LockSurfaces, NEW o \in Outputs, GetLockSurface(l, s, o)
      PROVE  StaysHidden
  BY <1>3, <1>S DEF GetLockSurface
<1>4. ASSUME NEW s \in LockSurfaces, NEW n \in 1 .. Len(lsurf[s].serials), Ack(s, n) PROVE StaysHidden
  BY <1>4, <1>S DEF Ack
<1>5. ASSUME NEW s \in LockSurfaces, NEW b \in Sizes, CommitLockSurface(s, b) PROVE StaysHidden
  <2>1. ASSUME NEW P, Paint(P, scene \cup {s}) PROVE StaysHidden
    BY <2>1, <1>P
  <2> QED BY <1>5, <2>1, <1>S DEF CommitLockSurface, NotifyLockSurface
<1>6. ASSUME NEW s \in LockSurfaces, DestroyLockSurface(s) \/ DestroySurface(s) PROVE StaysHidden
  BY <1>6, <1>L DEF DestroyLockSurface, DestroySurface
<1>7. ASSUME NEW c \in Clients, Disconnect(c) PROVE StaysHidden
  BY <1>7, <1>S DEF Disconnect
<1>8. CASE TearDown
  BY <1>8, <1>R, <1>L, <1>S DEF TearDown
<1>9. ASSUME NEW w \in Windows, NEW o \in Outputs \cup {None}, CommitWindow(w, o) PROVE StaysHidden
  BY <1>9, <1>S DEF CommitWindow, NotifyWindow
<1>10. ASSUME NEW w \in Windows, UnmapWindow(w) PROVE StaysHidden
  BY <1>10, <1>M DEF UnmapWindow
<1>11. ASSUME NEW o \in Outputs, NEW b \in Sizes \cup {0}, SetOutput(o, b) PROVE StaysHidden
  <2>1. scene' \subseteq scene
    BY <1>11 DEF SetOutput
  <2>2. \A p \in Outputs : Frame(scene', at', p) = "clean"
    BY <2>1, <1>0 DEF Frame
  <2>3. \A p \in Outputs : flip'[p] \in {"none", Frame(scene', at', p)} \/ (flip'[p] = flip[p] /\ front'[p] = front[p])
    <3> DEFINE replug == size[o] = 0 \/ b = 0
    <3>1. flip' = [p \in Outputs |-> IF p = o /\ b = 0 THEN "none"
                                    ELSE IF p \in {q \in Outputs : size'[q] # 0}
                                             /\ (flip[p] = "none" \/ (p = o /\ (size[o] = 0 \/ b = 0)))
                                           THEN Frame(scene', at', p)
                                    ELSE flip[p]]
      BY <1>11 DEF SetOutput
    <3>2. front' = IF replug THEN [front EXCEPT ![o] = "clean"] ELSE front
      BY <1>11 DEF SetOutput
    <3>3. \A p \in Outputs : p # o \/ ~replug => front'[p] = front[p]
      BY <3>2 DEF TypeOK
    <3>4. replug => size' = [size EXCEPT ![o] = b]
      BY <1>11 DEF SetOutput
    <3>5. replug /\ b # 0 => size'[o] # 0
      BY <3>4 DEF TypeOK
    <3> HIDE DEF replug
    <3>6. ASSUME NEW p \in Outputs
          PROVE  flip'[p] \in {"none", Frame(scene', at', p)} \/ (flip'[p] = flip[p] /\ front'[p] = front[p])
      <4>1. CASE p # o \/ ~replug
        BY <3>1, <3>3, <4>1
      <4>2. CASE p = o /\ replug
        BY <3>1, <3>5, <4>2 DEF replug
      <4> QED BY <4>1, <4>2
    <3> QED BY <3>6
  <2> QED BY <2>1, <2>2, <2>3, <1>0 DEF StaysHidden
<1>12. ASSUME NEW o \in Outputs, PageFlip(o) \/ Repaint(o) PROVE StaysHidden
  <2>1. \A p \in Outputs : Frame(scene, at, p) = "clean"
    BY <1>0 DEF Frame
  <2>2. scene' = scene /\ flip' \in [Outputs -> {"none", "normal", "clean"}]
    BY <1>12, <2>1, <1>0 DEF PageFlip, Repaint, Shown
  <2>3. flip'[o] # "normal"
    BY <1>12, <2>1, <1>0 DEF PageFlip, Repaint, Shown
  <2>4. \A p \in Outputs : p # o => flip'[p] = flip[p] /\ front'[p] = front[p]
    BY <1>12, <1>0 DEF PageFlip, Repaint, Shown, TypeOK
  <2> QED BY <2>2, <2>3, <2>4, <1>0 DEF StaysHidden
<1> QED
  BY <1>1, <1>2, <1>3, <1>4, <1>5, <1>6, <1>7, <1>8, <1>9, <1>10, <1>11, <1>12
  DEF Next, ClientStep, WindowStep, OutputStep

----------------------------------------------------------------------------
\* No wl_surface goes in a step.
SurfacesKept == \A s \in LockSurfaces : lsurf[s].surface => lsurf'[s].surface

LEMMA NextFocus == TypeOK /\ FocusAlive /\ [Next]_vars => FocusAlive'
<1> SUFFICES ASSUME TypeOK, FocusAlive, [Next]_vars PROVE FocusAlive'
  OBVIOUS
<1>0. /\ SessionTyped /\ SurfacesTyped /\ WindowsTyped /\ FocusTyped
      /\ None \notin Windows \cup LockSurfaces /\ LockSurfaces \cap Windows = {}
  BY TypeParts, SessionLockAssumption
<1>K. ASSUME UNCHANGED <<mapped, regular>>, focus' \in {focus, None}, SurfacesKept PROVE FocusAlive'
  BY <1>0, <1>K DEF FocusAlive, SurfacesKept
<1>S. UNCHANGED lsurf => SurfacesKept
  BY DEF SurfacesKept
<1>U. UNCHANGED <<mapped, focus, regular, lsurf>> => FocusAlive'
  BY <1>K, <1>S
<1>R. ASSUME NEW l \in Locks, Restore(l), UNCHANGED mapped PROVE FocusAlive'
  <2>1. SurfacesKept
    BY <1>0, <1>R DEF Restore, SurfacesKept, SurfacesTyped, SurfaceType
  <2>2. regular' # None => regular' \in mapped
    BY <1>R DEF Restore
  <2>3. focus' \in {regular', focus, None}
    BY <1>R DEF Restore
  <2> QED BY <1>0, <1>R, <2>1, <2>2, <2>3 DEF FocusAlive, SurfacesKept, WindowsTyped
<1>D. ASSUME NEW l \in Locks, LockResourceDestroyed(l), UNCHANGED mapped PROVE FocusAlive'
  BY <1>D, <1>R, <1>U DEF LockResourceDestroyed, seatVars
<1>L. ASSUME NEW s \in LockSurfaces, RoleDestroyed(s), UNCHANGED mapped PROVE FocusAlive'
  <2>1. SurfacesKept
    BY <1>0, <1>L DEF RoleDestroyed, SurfacesKept, SurfacesTyped, NoSurface
  <2> QED BY <2>1, <1>L, <1>K DEF RoleDestroyed
<1>X. ASSUME NEW s \in LockSurfaces, SurfaceDestroyed(s), UNCHANGED mapped PROVE FocusAlive'
  <2>1. \A t \in LockSurfaces : t # s => lsurf'[t] = lsurf[t]
    BY <1>X, <1>0 DEF SurfaceDestroyed, SurfacesTyped
  <2>2. CASE focus = s
    <3>1. PICK next \in Fallbacks(s) : SetFocus(next)
      BY <1>X, <2>2 DEF SurfaceDestroyed
    <3>2. next \in mapped \cup {None}
      BY <1>0, FallbackType
    <3> QED BY <3>1, <3>2, <1>0, <1>X DEF SetFocus, FocusAlive, WindowsTyped
  <2>3. CASE focus # s
    BY <2>1, <2>3, <1>0, <1>X DEF SurfaceDestroyed, FocusAlive
  <2> QED BY <2>2, <2>3
<1>1. ASSUME NEW c \in Clients, NEW l \in Locks, LockSession(c, l) PROVE FocusAlive'
  BY <1>1, <1>K, <1>S DEF LockSession, windowVars
<1>2. ASSUME NEW l \in Locks, DestroyLock(l) \/ UnlockAndDestroy(l) PROVE FocusAlive'
  <2>1. CASE DestroyLock(l)
    BY <2>1, <1>D, <1>U DEF DestroyLock, windowVars, seatVars
  <2>2. CASE UnlockAndDestroy(l)
    BY <2>2, <1>R, <1>U DEF UnlockAndDestroy, windowVars, seatVars
  <2> QED BY <1>2, <2>1, <2>2
<1>3. ASSUME NEW l \in Locks, NEW s \in LockSurfaces, NEW o \in Outputs, GetLockSurface(l, s, o)
      PROVE  FocusAlive'
  <2>1. \A t \in LockSurfaces : t # s => lsurf'[t] = lsurf[t]
    BY <1>3, <1>0 DEF GetLockSurface, SurfacesTyped
  <2>2. SurfacesKept
    BY <1>3, <2>1 DEF GetLockSurface, SurfacesKept
  <2> QED BY <1>3, <2>2, <1>K DEF GetLockSurface, windowVars, seatVars
<1>4. ASSUME NEW s \in LockSurfaces, NEW n \in 1 .. Len(lsurf[s].serials), Ack(s, n) PROVE FocusAlive'
  <2>1. lsurf[s] \in SurfaceType /\ \A t \in LockSurfaces : t # s => lsurf'[t] = lsurf[t]
    BY <1>4, <1>0 DEF Ack, SurfacesTyped
  <2>2. lsurf'[s].surface = lsurf[s].surface
    BY <1>4, <1>0, <2>1 DEF Ack, SurfacesTyped, SurfaceType
  <2>3. SurfacesKept
    BY <2>1, <2>2 DEF SurfacesKept
  <2> QED BY <1>4, <2>3, <1>K DEF Ack, windowVars, seatVars
<1>5. ASSUME NEW s \in LockSurfaces, NEW b \in Sizes, CommitLockSurface(s, b) PROVE FocusAlive'
  <2>1. SurfacesKept
    <3>1. lsurf \in [LockSurfaces -> SurfaceType]
      BY <1>0 DEF SurfacesTyped
    <3>2. UNCHANGED lsurf \/ lsurf' = [lsurf EXCEPT ![s].mapped = TRUE, ![s].presented = FALSE]
      BY <1>5 DEF CommitLockSurface
    <3>3. \A t \in LockSurfaces : lsurf'[t].surface = lsurf[t].surface
      <4>1. CASE lsurf' = [lsurf EXCEPT ![s].mapped = TRUE, ![s].presented = FALSE]
        <5>1. lsurf' = [lsurf EXCEPT ![s] = [lsurf[s] EXCEPT !.mapped = TRUE, !.presented = FALSE]]
          BY <3>1, <4>1
        <5> QED BY <3>1, <5>1 DEF SurfaceType
      <4> QED BY <3>2, <4>1
    <3> QED BY <3>3 DEF SurfacesKept
  <2>2. UNCHANGED <<mapped, regular>> /\ focus' \in {focus, s} /\ lsurf[s].surface
    BY <1>5 DEF CommitLockSurface, windowVars
  <2> QED BY <2>1, <2>2, <1>0 DEF FocusAlive, SurfacesKept
<1>6. ASSUME NEW s \in LockSurfaces, DestroyLockSurface(s) \/ DestroySurface(s) PROVE FocusAlive'
  BY <1>6, <1>L, <1>X DEF DestroyLockSurface, DestroySurface, windowVars
<1>7. ASSUME NEW c \in Clients, Disconnect(c) PROVE FocusAlive'
  BY <1>7, <1>U DEF Disconnect, windowVars, seatVars
<1>8. CASE TearDown
  BY <1>8, <1>D, <1>L, <1>X, <1>U DEF TearDown, windowVars, seatVars
<1>9. ASSUME NEW w \in Windows, NEW o \in Outputs \cup {None}, CommitWindow(w, o) PROVE FocusAlive'
  <2>1. UNCHANGED lsurf /\ mapped' = mapped \cup {w}
    BY <1>9 DEF CommitWindow
  <2>2. UNCHANGED <<focus, regular>> \/ (focus' = w /\ regular' = w)
    BY <1>9 DEF CommitWindow, SetFocus, seatVars
  <2> QED BY <2>1, <2>2, <1>0 DEF FocusAlive
<1>10. ASSUME NEW w \in Windows, UnmapWindow(w) PROVE FocusAlive'
  <2>1. UNCHANGED lsurf /\ mapped' = mapped \ {w} /\ FocusLost(w)
    BY <1>10 DEF UnmapWindow
  <2>2. CASE focus = w
    <3>1. focus' \in Fallbacks(w)
      BY <2>1, <2>2 DEF FocusLost
    <3>2. focus' \in (mapped \ {w}) \cup {None}
      BY <3>1 DEF Fallbacks
    <3>3. regular' = focus' \/ (focus' = None /\ regular' = IF regular = w THEN None ELSE regular)
      BY <2>1, <2>2, <3>2, <1>0 DEF FocusLost, WindowsTyped
    <3> QED BY <2>1, <3>2, <3>3, <1>0 DEF FocusAlive, WindowsTyped
  <2>3. CASE focus # w
    <3>1. focus' = focus /\ regular' = IF regular = w THEN None ELSE regular
      BY <2>1, <2>3 DEF FocusLost
    <3> QED BY <2>1, <2>3, <3>1, <1>0 DEF FocusAlive
  <2> QED BY <2>2, <2>3
<1>11. ASSUME NEW o \in Outputs, NEW b \in Sizes \cup {0}, SetOutput(o, b) PROVE FocusAlive'
  <2>1. \A s \in LockSurfaces : lsurf[s] \in SurfaceType
    BY <1>0 DEF SurfacesTyped
  <2>2. \A s \in LockSurfaces : Configured(s, size').surface = lsurf[s].surface
    BY <2>1 DEF Configured, SurfaceType
  <2>3. SurfacesKept
    BY <2>2, <1>11 DEF SetOutput, SurfacesKept
  <2> QED BY <1>11, <2>3, <1>K DEF SetOutput, seatVars
<1>12. ASSUME NEW o \in Outputs, PageFlip(o) \/ Repaint(o) PROVE FocusAlive'
  <2>1. \A s \in LockSurfaces : lsurf[s] \in SurfaceType
    BY <1>0 DEF SurfacesTyped
  <2>2. SurfacesKept
    <3>1. UNCHANGED lsurf \/ \A s \in LockSurfaces : lsurf'[s] \in {lsurf[s], [lsurf[s] EXCEPT !.presented = TRUE]}
      BY <1>12 DEF PageFlip, Repaint, SurfacesPresented
    <3> QED BY <2>1, <3>1 DEF SurfacesKept, SurfaceType
  <2> QED BY <1>12, <2>2, <1>K DEF PageFlip, Repaint, windowVars, seatVars
<1>13. CASE UNCHANGED vars
  BY <1>13, <1>U DEF vars, windowVars, seatVars
<1> QED
  BY <1>1, <1>2, <1>3, <1>4, <1>5, <1>6, <1>7, <1>8, <1>9, <1>10, <1>11, <1>12, <1>13
  DEF Next, ClientStep, WindowStep, OutputStep

----------------------------------------------------------------------------
(* What is drawn.  A lock surface that lost its lock is not, and neither is *)
(* one that lost its wl_surface: that one is not taken out of the scene     *)
(* again when its role goes.                                                *)

SurfacesDrawn == \A s \in LockSurfaces : s \in scene => lsurf[s].lock # None /\ lsurf[s].surface
\* No lock surface changes what SurfacesDrawn says of it.
RolesKept ==
  \A s \in LockSurfaces :
    lsurf'[s].lock = lsurf[s].lock /\ lsurf'[s].surface = lsurf[s].surface

LEMMA NextDrawn ==
  TypeOK /\ SurfacesDrawn /\ NothingLost /\ [Next]_vars => SurfacesDrawn' /\ NothingLost'
<1> SUFFICES ASSUME TypeOK, SurfacesDrawn, NothingLost, [Next]_vars
             PROVE  SurfacesDrawn' /\ NothingLost'
  OBVIOUS
<1>0. /\ SessionTyped /\ SurfacesTyped /\ WindowsTyped /\ DisplayTyped /\ OutputsTyped
      /\ None \notin Windows \cup LockSurfaces \cup Locks \cup Outputs
      /\ LockSurfaces \cap Windows = {}
  BY TypeParts, SessionLockAssumption
<1>S. \A s \in LockSurfaces : lsurf[s] \in SurfaceType
  BY <1>0 DEF SurfacesTyped
<1>K. ASSUME RolesKept, scene' \cap LockSurfaces \subseteq scene PROVE SurfacesDrawn'
  BY <1>K DEF RolesKept, SurfacesDrawn
<1>L. ASSUME session' # None \/ session' = session, UNCHANGED windowVars,
             session = None => scene \cap Windows \subseteq scene'
      PROVE  NothingLost'
  BY <1>L, <1>0 DEF NothingLost, Placed, windowVars, WindowsTyped
<1>U. UNCHANGED <<session, lsurf, windowVars, scene>> => SurfacesDrawn' /\ NothingLost'
  BY <1>K, <1>L DEF RolesKept
<1>R. ASSUME NEW l \in Locks, Restore(l), UNCHANGED windowVars PROVE SurfacesDrawn' /\ NothingLost'
  <2>1. scene' = (scene \ SurfacesOf(l)) \cup Placed
    BY <1>R DEF Restore, Paint, PaintAt
  <2>2. NothingLost'
    BY <1>R, <2>1 DEF NothingLost, Placed, windowVars
  <2>3. \A s \in LockSurfaces : s \notin SurfacesOf(l) => lsurf'[s] = lsurf[s]
    BY <1>R DEF Restore
  <2>4. \A s \in LockSurfaces : s \in scene' => s \in scene /\ s \notin SurfacesOf(l)
    BY <2>1, <1>0 DEF Placed, WindowsTyped
  <2> QED BY <2>2, <2>3, <2>4 DEF SurfacesDrawn
<1>D. ASSUME NEW l \in Locks, LockResourceDestroyed(l), UNCHANGED windowVars
      PROVE  SurfacesDrawn' /\ NothingLost'
  BY <1>D, <1>R, <1>U DEF LockResourceDestroyed, display
<1>O. ASSUME NEW s \in LockSurfaces, RoleDestroyed(s), UNCHANGED windowVars
      PROVE  SurfacesDrawn' /\ NothingLost'
  <2>1. \A t \in LockSurfaces : t # s => lsurf'[t] = lsurf[t]
    BY <1>O, <1>0 DEF RoleDestroyed, SurfacesTyped
  <2>2. s \notin scene' /\ scene' \in {scene, scene \ {s}}
    BY <1>O DEF RoleDestroyed, SurfacesDrawn, display, Paint, PaintAt
  <2>3. SurfacesDrawn'
    BY <2>1, <2>2 DEF SurfacesDrawn
  <2> QED BY <2>2, <2>3, <1>0, <1>O, <1>L DEF RoleDestroyed
<1>X. ASSUME NEW s \in LockSurfaces, SurfaceDestroyed(s), UNCHANGED windowVars
      PROVE  SurfacesDrawn' /\ NothingLost'
  <2>1. \A t \in LockSurfaces : t # s => lsurf'[t] = lsurf[t]
    BY <1>X, <1>0 DEF SurfaceDestroyed, SurfacesTyped
  <2>2. scene' = scene \ {s}
    BY <1>X DEF SurfaceDestroyed, Paint, PaintAt
  <2>3. SurfacesDrawn'
    BY <2>1, <2>2 DEF SurfacesDrawn
  <2> QED BY <2>2, <2>3, <1>0, <1>X, <1>L DEF SurfaceDestroyed
<1>1. ASSUME NEW c \in Clients, NEW l \in Locks, LockSession(c, l)
      PROVE  SurfacesDrawn' /\ NothingLost'
  <2>1. UNCHANGED <<lsurf, windowVars>> /\ scene' \subseteq scene
    BY <1>1 DEF LockSession, display, Paint, PaintAt
  <2>2. session' # None
    BY <1>1, <1>0 DEF LockSession
  <2>3. session = None => session' # None
    BY <2>2
  <2>4. NothingLost'
    BY <2>2 DEF NothingLost
  <2> QED BY <2>1, <2>4, <1>K DEF RolesKept
<1>2. ASSUME NEW l \in Locks, DestroyLock(l) \/ UnlockAndDestroy(l)
      PROVE  SurfacesDrawn' /\ NothingLost'
  <2>1. CASE DestroyLock(l)
    BY <2>1, <1>D, <1>U DEF DestroyLock, display
  <2>2. CASE UnlockAndDestroy(l)
    BY <2>2, <1>R, <1>U DEF UnlockAndDestroy, display
  <2> QED BY <1>2, <2>1, <2>2
<1>3. ASSUME NEW l \in Locks, NEW s \in LockSurfaces, NEW o \in Outputs, GetLockSurface(l, s, o)
      PROVE  SurfacesDrawn' /\ NothingLost'
  <2>1. UNCHANGED <<session, windowVars, scene>> /\ ~lsurf[s].surface
    BY <1>3 DEF GetLockSurface, display
  <2>2. \A t \in LockSurfaces : t # s => lsurf'[t] = lsurf[t]
    BY <1>3, <1>0 DEF GetLockSurface, SurfacesTyped
  <2>3. SurfacesDrawn'
    BY <2>1, <2>2 DEF SurfacesDrawn
  <2> QED BY <2>1, <2>3, <1>L
<1>4. ASSUME NEW s \in LockSurfaces, NEW n \in 1 .. Len(lsurf[s].serials), Ack(s, n)
      PROVE  SurfacesDrawn' /\ NothingLost'
  <2>1. \A t \in LockSurfaces : t # s => lsurf'[t] = lsurf[t]
    BY <1>4, <1>0 DEF Ack, SurfacesTyped
  <2>2. lsurf'[s].surface = lsurf[s].surface /\ lsurf'[s].lock = lsurf[s].lock
    BY <1>4, <1>0, <1>S DEF Ack, SurfacesTyped, SurfaceType
  <2>3. RolesKept
    BY <2>1, <2>2 DEF RolesKept
  <2> QED BY <1>4, <2>3, <1>K, <1>L DEF Ack, display
<1>5. ASSUME NEW s \in LockSurfaces, NEW b \in Sizes, CommitLockSurface(s, b)
      PROVE  SurfacesDrawn' /\ NothingLost'
  <2>1. RolesKept
    <3>1. lsurf \in [LockSurfaces -> SurfaceType]
      BY <1>0 DEF SurfacesTyped
    <3>2. UNCHANGED lsurf \/ lsurf' = [lsurf EXCEPT ![s].mapped = TRUE, ![s].presented = FALSE]
      BY <1>5 DEF CommitLockSurface
    <3>3. CASE lsurf' = [lsurf EXCEPT ![s].mapped = TRUE, ![s].presented = FALSE]
      <4>1. lsurf' = [lsurf EXCEPT ![s] = [lsurf[s] EXCEPT !.mapped = TRUE, !.presented = FALSE]]
        BY <3>1, <3>3
      <4> QED BY <3>1, <4>1 DEF SurfaceType, RolesKept
    <3> QED BY <3>2, <3>3 DEF RolesKept
  <2>2. scene' = scene \/ (lsurf[s].lock # None /\ scene' = scene \cup {s})
    BY <1>5 DEF CommitLockSurface, NotifyLockSurface, display, Paint, PaintAt
  <2>3. lsurf[s].surface /\ UNCHANGED <<session, windowVars>>
    BY <1>5 DEF CommitLockSurface
  <2>4. SurfacesDrawn'
    BY <2>1, <2>2, <2>3 DEF SurfacesDrawn, RolesKept
  <2> QED BY <2>2, <2>3, <2>4, <1>L
<1>6. ASSUME NEW s \in LockSurfaces, DestroyLockSurface(s) \/ DestroySurface(s)
      PROVE  SurfacesDrawn' /\ NothingLost'
  BY <1>6, <1>O, <1>X DEF DestroyLockSurface, DestroySurface
<1>7. ASSUME NEW c \in Clients, Disconnect(c) PROVE SurfacesDrawn' /\ NothingLost'
  BY <1>7, <1>U DEF Disconnect, display
<1>8. CASE TearDown
  BY <1>8, <1>D, <1>O, <1>X, <1>U DEF TearDown, display
<1>9. ASSUME NEW w \in Windows, NEW o \in Outputs \cup {None}, CommitWindow(w, o)
      PROVE  SurfacesDrawn' /\ NothingLost'
  <2>1. /\ UNCHANGED <<lsurf, session>> /\ at' = [at EXCEPT ![w] = o]
        /\ mapped' \in {mapped, mapped \cup {w}}
    BY <1>9 DEF CommitWindow
  <2>2. scene' = IF session # None \/ o = None THEN scene ELSE scene \cup {w}
    BY <1>9 DEF CommitWindow, NotifyWindow, display, PaintAt
  <2>3. SurfacesDrawn'
    BY <2>1, <2>2, <1>0, <1>K DEF RolesKept
  <2>4. NothingLost'
    BY <2>1, <2>2, <1>0 DEF NothingLost, Placed, WindowsTyped
  <2> QED BY <2>3, <2>4
<1>10. ASSUME NEW w \in Windows, UnmapWindow(w) PROVE SurfacesDrawn' /\ NothingLost'
  <2>1. /\ UNCHANGED <<lsurf, session>> /\ mapped' = mapped \ {w}
        /\ at' = [at EXCEPT ![w] = None] /\ scene' = scene \ {w}
    BY <1>10 DEF UnmapWindow, Paint, PaintAt
  <2>2. NothingLost'
    BY <2>1, <1>0 DEF NothingLost, Placed, WindowsTyped
  <2> QED BY <2>1, <2>2, <1>K DEF RolesKept
<1>11. ASSUME NEW o \in Outputs, NEW b \in Sizes \cup {0}, SetOutput(o, b)
       PROVE  SurfacesDrawn' /\ NothingLost'
  <2> DEFINE left == {p \in Outputs : size'[p] # 0}
             moved == {w \in mapped : at[w] \notin left}
             gone == moved \cup {s \in LockSurfaces : lsurf[s].output \notin left}
  <2>1. /\ session' = session /\ mapped' = mapped
        /\ scene' = (scene \ gone) \cup IF session = None /\ left # {} THEN moved ELSE {}
        /\ lsurf' = [s \in LockSurfaces |-> Configured(s, size')]
    BY <1>11 DEF SetOutput
  <2>2. PICK active \in IF left = {} THEN {None} ELSE left :
          at' = [w \in Windows |-> IF w \in moved THEN active ELSE at[w]]
    BY <1>11 DEF SetOutput
  <2>3. moved \subseteq Windows
    BY <1>0 DEF WindowsTyped
  <2>4. RolesKept
    <3>1. \A s \in LockSurfaces : /\ Configured(s, size').lock = lsurf[s].lock
                                  /\ Configured(s, size').surface = lsurf[s].surface
      BY <1>S DEF Configured, SurfaceType
    <3> QED BY <3>1, <2>1 DEF RolesKept
  <2>5. SurfacesDrawn'
    BY <2>1, <2>3, <2>4, <1>0, <1>K
  <2>6. ASSUME session = None, NEW w \in mapped, at'[w] # None PROVE w \in scene'
    <3>0. w \in Windows /\ w \notin LockSurfaces /\ None \notin left
      BY <1>0 DEF WindowsTyped
    <3>1. CASE left = {}
      <4>1. w \in moved /\ at'[w] = None
        BY <3>0, <3>1, <2>2
      <4> QED BY <4>1, <2>6
    <3>2. CASE left # {} /\ w \in moved
      BY <3>2, <2>1, <2>6
    <3>3. CASE left # {} /\ w \notin moved
      <4>1. at[w] # None /\ w \in scene /\ w \notin gone
        BY <3>0, <3>3, <2>6 DEF NothingLost, Placed
      <4> QED BY <4>1, <2>1
    <3> QED BY <3>1, <3>2, <3>3
  <2>7. NothingLost'
    BY <2>1, <2>6 DEF NothingLost, Placed
  <2> QED BY <2>5, <2>7
<1>12. ASSUME NEW o \in Outputs, PageFlip(o) \/ Repaint(o) PROVE SurfacesDrawn' /\ NothingLost'
  <2>1. RolesKept
    <3>1. UNCHANGED lsurf \/ \A s \in LockSurfaces : lsurf'[s] \in {lsurf[s], [lsurf[s] EXCEPT !.presented = TRUE]}
      BY <1>12 DEF PageFlip, Repaint, SurfacesPresented
    <3> QED BY <1>S, <3>1 DEF RolesKept, SurfaceType
  <2> QED BY <1>12, <2>1, <1>K, <1>L DEF PageFlip, Repaint
<1>13. CASE UNCHANGED vars
  BY <1>13, <1>U DEF vars, display
<1> QED
  BY <1>1, <1>2, <1>3, <1>4, <1>5, <1>6, <1>7, <1>8, <1>9, <1>10, <1>11, <1>12, <1>13
  DEF Next, ClientStep, WindowStep, OutputStep

----------------------------------------------------------------------------
(* The theorems.                                                           *)

\* Every variable keeps its type.
THEOREM TypeCorrect == Spec => []TypeOK
<1> QED BY InitType, NextType, PTL DEF Spec

\* At most one lock holds the session.
THEOREM SingleHolder == Spec => []Holder
<1> QED BY InitHolder, NextHolder, TypeCorrect, PTL DEF Spec

\* The keyboard focus never dangles, neither the one the seat has nor the one
\* it would return to, whatever maps, unmaps and dies around a lock.
THEOREM FocusSafe == Spec => []FocusAlive
<1>1. Init => FocusAlive
  BY SessionLockAssumption DEF Init, FocusAlive
<1> QED BY <1>1, NextFocus, TypeCorrect, PTL DEF Spec

LEMMA NextNormalHidden == TypeOK /\ Holder /\ NormalHidden /\ [Next]_vars => NormalHidden'
<1> SUFFICES ASSUME TypeOK, Holder, NormalHidden, [Next]_vars, session' # None PROVE scene' \cap Windows = {}
  BY DEF NormalHidden
<1>1. CASE UNCHANGED vars
  BY <1>1 DEF vars, display, NormalHidden
<1>2. CASE Next /\ session # None
  BY <1>2, NextHidden DEF StaysHidden
<1>3. CASE Next /\ session = None
  <2>1. PICK c \in Clients, l \in Locks : LockSession(c, l)
    <3>1. ~ \E l \in Locks : Restore(l)
      BY <1>3 DEF Restore
    <3> USE <1>3
    <3>2. ~ \E l \in Locks : LockResourceDestroyed(l)
      BY <3>1 DEF LockResourceDestroyed
    <3>3. ~ \E l \in Locks : DestroyLock(l) \/ UnlockAndDestroy(l)
      BY <3>1, <3>2 DEF DestroyLock, UnlockAndDestroy
    <3>4. ~ TearDown
      BY <3>2 DEF TearDown, RoleDestroyed, SurfaceDestroyed
    <3>5. ~ WindowStep /\ ~ OutputStep
      BY DEF WindowStep, OutputStep, CommitWindow, UnmapWindow, SetOutput, PageFlip, Repaint
    <3>6. \A s \in LockSurfaces : ~DestroyLockSurface(s) /\ ~DestroySurface(s)
      BY DEF DestroyLockSurface, DestroySurface, RoleDestroyed, SurfaceDestroyed
    <3> QED BY <3>3, <3>4, <3>5, <3>6 DEF Next, ClientStep, GetLockSurface, Ack, CommitLockSurface, Disconnect
  <2> QED BY <2>1, <1>3 DEF LockSession, Paint, PaintAt
<1> QED BY <1>1, <1>2, <1>3

\* While the session is locked nothing of a window is in the scene.
THEOREM HiddenWhileLocked == Spec => []NormalHidden
<1>1. Init => NormalHidden
  BY DEF Init, NormalHidden
<1> QED BY <1>1, NextNormalHidden, TypeCorrect, SingleHolder, PTL DEF Spec

\* Whatever windows and lock clients do and outputs come and go, the scene has every
\* window with content while the session is unlocked, none while it is locked, and no
\* lock surface whose lock is over (blank_unlocked_scene, restore_unlocked_scene).
THEOREM SceneIsRight == Spec => []SceneFollowsLock
<1>1. Init => SurfacesDrawn /\ NothingLost
  BY DEF Init, SurfacesDrawn, NothingLost, Placed
<1>2. NormalHidden /\ SurfacesDrawn /\ NothingLost => SceneFollowsLock
  BY DEF SurfacesDrawn, OrphansHidden, SceneFollowsLock
<1> QED BY <1>1, <1>2, NextDrawn, TypeCorrect, HiddenWhileLocked, PTL DEF Spec

\* No frame that shows a window is started while the session is locked.
THEOREM NoNormalFrame == Spec => NoNewNormalFrame
<1>1. ASSUME TypeOK, Holder, NormalHidden, [Next]_vars
      PROVE  [session # None /\ session' # None =>
               \A o \in Outputs : flip'[o] = "normal" => flip[o] = "normal" /\ front'[o] = front[o]]_vars
  BY <1>1, NextHidden DEF StaysHidden
<1> QED BY <1>1, TypeCorrect, SingleHolder, HiddenWhileLocked, PTL DEF Spec, NoNewNormalFrame

\* Once `locked` was sent only a request of the client that holds the lock
\* unlocks the session.
THEOREM HolderUnlocks == Spec => OnlyHolderUnlocks
<1>1. ASSUME TypeOK, Holder, Next, session # None, lock[session].sent, session' # session
      PROVE  session' = None /\ dying = None /\ lock[session].alive
  <2>0. session \in Locks
    BY <1>1 DEF TypeOK
  <2>1. \A l \in Locks : LockResourceDestroyed(l) => UNCHANGED session
    BY <1>1 DEF Holder, LockResourceDestroyed, Restore
  <2>2. ~ TearDown
    BY <1>1, <2>1 DEF TearDown, RoleDestroyed, SurfaceDestroyed
  <2>3. \A l \in Locks : ~DestroyLock(l)
    BY <1>1, <2>1 DEF DestroyLock
  <2>4. ~ WindowStep /\ ~ OutputStep
    BY <1>1 DEF WindowStep, OutputStep, CommitWindow, UnmapWindow, SetOutput, PageFlip, Repaint
  <2>5. \A s \in LockSurfaces : ~DestroyLockSurface(s) /\ ~DestroySurface(s)
    BY <1>1 DEF DestroyLockSurface, DestroySurface, RoleDestroyed, SurfaceDestroyed
  <2>6. \A c \in Clients, l \in Locks : ~LockSession(c, l)
    BY <1>1 DEF LockSession
  <2>7. PICK l \in Locks : UnlockAndDestroy(l)
    BY <1>1, <2>2, <2>3, <2>4, <2>5, <2>6
    DEF Next, ClientStep, GetLockSurface, Ack, CommitLockSurface, Disconnect
  <2> QED BY <1>1, <2>7 DEF UnlockAndDestroy, Restore, Idle
<1>2. ASSUME TypeOK, Holder, [Next]_vars
      PROVE  [session # None /\ lock[session].sent /\ session' # session
               => session' = None /\ dying = None /\ lock[session].alive]_vars
  BY <1>1, <1>2
<1> QED BY <1>2, TypeCorrect, SingleHolder, PTL DEF Spec, OnlyHolderUnlocks
=============================================================================
