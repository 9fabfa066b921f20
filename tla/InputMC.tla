----------------------------- MODULE InputMC -----------------------------
(***************************************************************************)
(* The devices of the seat: the pointer with one button over several       *)
(* windows and with several over one, the keyboards and the touches.       *)
(* SurfacesMC adds the other parts; the parts are checked one at a time: a *)
(* behaviour is one of `part`, whose variables are the first of v1 .. v10, *)
(* in the order in which its module declares them.                         *)
(***************************************************************************)
EXTENDS Integers, Sequences

CONSTANTS
  None,
  ls,                              \* a layer surface, or a surface of the lock
  Windows, OneWindow,              \* windows with the pointer: for one button, for several
  OneButton, Buttons, LeftButton, RightButton, PanButtons, Constrainable,
  Clients, Virtuals, Keys, EscKey, FocusKeys, ExternalKeys,  \* of the keyboards
  Timeout,                         \* bound: of an idle notification
  Touched, LockTouched, TouchObjects, Fingers,
  TouchOwner(_)                    \* the client of a surface or of a wl_touch object

ASSUME InputAssumption ==
  /\ "physical" \notin Virtuals /\ None \notin Clients /\ Timeout \in Nat \ {0}
  /\ None \notin Touched \cup Windows \cup {ls} \cup Buttons /\ ls \notin Windows
  /\ OneWindow \subseteq Windows /\ OneButton \cup PanButtons \subseteq Buttons
  /\ Constrainable \subseteq Windows

VARIABLES part, v1, v2, v3, v4, v5, v6, v7, v8, v9, v10

allVars == <<part, v1, v2, v3, v4, v5, v6, v7, v8, v9, v10>>

Ptr(W, B, P, C) == INSTANCE Pointer WITH
  ptr <- v1, mapped <- v2, cons <- v3, told <- v4, held <- v5, cut <- v6,
  Windows <- W, LockSurface <- ls, Buttons <- B, PanButtons <- P, Constrainable <- C
Key == INSTANCE Keyboards WITH
  keys <- v1, told <- v2, kbd <- v3, ov <- v4, seat <- v5, note <- v6
Tou == INSTANCE Touch WITH
  contacts <- v1, live <- v2, owed <- v3, told <- v4, fresh <- v5, surf <- v6,
  mode <- v7,
  Surfaces <- Touched, LockSurfaces <- LockTouched, Objects <- TouchObjects,
  Owner <- TouchOwner, Ids <- Fingers

Above6 == <<v7, v8, v9, v10>>
Above7 == <<v8, v9, v10>>

InputInit ==
  \/ part = "pointer" /\ Ptr(Windows, OneButton, {}, Constrainable)!Init /\ v7 = 0 /\ v8 = 0 /\ v9 = 0 /\ v10 = 0
  \/ part = "buttons" /\ Ptr(OneWindow, Buttons, PanButtons, {})!Init /\ v7 = 0 /\ v8 = 0 /\ v9 = 0 /\ v10 = 0
  \/ part = "keyboards" /\ Key!Init /\ v7 = 0 /\ v8 = 0 /\ v9 = 0 /\ v10 = 0
  \/ part = "touch" /\ Tou!Init /\ v8 = 0 /\ v9 = 0 /\ v10 = 0

InputNext ==
  \/ part = "pointer" /\ Ptr(Windows, OneButton, {}, Constrainable)!Next /\ UNCHANGED <<part, Above6>>
  \/ part = "buttons" /\ Ptr(OneWindow, Buttons, PanButtons, {})!Next /\ UNCHANGED <<part, Above6>>
  \/ part = "keyboards" /\ Key!Next /\ UNCHANGED <<part, Above6>>
  \/ part = "touch" /\ Tou!Next /\ UNCHANGED <<part, Above7>>

InputSpec == InputInit /\ [][InputNext]_allVars

\* The state of every device has its type.
InputTypes ==
  /\ part = "pointer" => Ptr(Windows, OneButton, {}, Constrainable)!TypeOK
  /\ part = "buttons" => Ptr(OneWindow, Buttons, PanButtons, {})!TypeOK
  /\ part = "keyboards" => Key!TypeOK
  /\ part = "touch" => Tou!TypeOK

PointerSound(W, B, P, C) ==
  /\ Ptr(W, B, P, C)!ButtonsHeld /\ Ptr(W, B, P, C)!GestureHeld /\ Ptr(W, B, P, C)!GrabKept
  /\ Ptr(W, B, P, C)!ConstraintSound /\ Ptr(W, B, P, C)!DragAlone

\* Input goes where it should: a button that a client saw pressed is released there,
\* unless something took the grab away in between (an unmap, a lock, a drag: `cut`); a
\* gesture ends with its button, but for a move during which a drag was begun
\* (`crossed`); one constraint is active, where the pointer is; and no key or contact
\* stays down in a client when a surface, a device or the scene goes away.
InputSound ==
  /\ part = "pointer" => PointerSound(Windows, OneButton, {}, Constrainable)
  /\ part = "buttons" => PointerSound(OneWindow, Buttons, PanButtons, {})
  /\ part = "keyboards" =>
       /\ Key!KeysBalanced /\ Key!ClientsKeys /\ Key!TakenKeys /\ Key!OverviewEnds
       /\ Key!IdleHonest
  /\ part = "touch" => Tou!ContactsKnown /\ Tou!FramesOwed /\ Tou!TouchedVisible
=============================================================================
