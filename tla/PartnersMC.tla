--------------------------- MODULE PartnersMC ---------------------------
(***************************************************************************)
(* What the compositor arranges with the programs it captures for, with    *)
(* those that manage its windows, and with other sessions: the portal's    *)
(* child, the portal and its streams, the managers, and the X display.     *)
(* PeersMC adds the other parts; the parts are checked one at a time: a     *)
(* behaviour is one of `part`, whose variables are the first of v1 .. v10, *)
(* in the order in which its module declares them.                         *)
(***************************************************************************)
EXTENDS Integers, Sequences, FiniteSets

CONSTANTS
  None, Screen,
  Sessions, LastDisplay,              \* that look for an X display, and the last one
  CaptureWindows, CaptureFrames,      \* windows, and frames of the portal's child
  MaxQueue,                           \* bound: messages under way each way
  Handles, Paths, Screens, Toplevels, \* of portal requests, of sessions; what is shared
  Buffers, MaxPosted,                 \* PipeWire's buffers; bound: calls posted
  Managers, Kinds,                    \* of windows; of changes
  MaxSerial, MaxInFlight              \* bounds: changes, and messages under way to a manager

\* What the portal keeps of a call and of a session.
CallRecords ==
  [kind : {"create", "select", "start", "shot", "access", "file"}, path : Paths \cup {None},
   stage : {None, "chooser", "quick", "capture", "preview", "selector", "confirmation", "saving"},
   dialog : BOOLEAN]
SessionRecords ==
  [stage : {"created", "selected", "starting", "active"}, source : Screens \cup Toplevels \cup {None},
   capture : ((Paths \cup Handles) \X {0, 1}) \cup {None}, request : Handles \cup {None},
   stream : BOOLEAN, first : BOOLEAN, again : BOOLEAN]

\* None is no value of any kind, the screen no window, and no path a call's.
ASSUME PartnersAssumption ==
  /\ LastDisplay \in Nat /\ None \notin Sessions
  /\ MaxSerial \in Nat \ {0} /\ None \notin Managers
  /\ None \notin {"free", "shown", "memfd", "bo", "open", "closed"} /\ Screen \notin CaptureWindows
  /\ IsFiniteSet(CaptureWindows) /\ IsFiniteSet(CaptureFrames)
  /\ \A t \in CaptureWindows \cup {Screen} :
       /\ \A terminal \in BOOLEAN : None # [target |-> t, terminal |-> terminal]
       /\ \A state \in {"asked", "copying"} : None # [target |-> t, state |-> state]
  /\ None \notin {"created", "selected", "starting", "active"}
  /\ Paths \cap Handles = {} /\ None \notin Paths \cup Handles \cup Screens \cup Toplevels
  /\ None \notin CallRecords /\ None \notin SessionRecords /\ None \notin (Paths \cup Handles) \X {0, 1}
  /\ None \notin [target : Screens \cup Toplevels, copying : BOOLEAN, again : BOOLEAN]

VARIABLES part, v1, v2, v3, v4, v5, v6, v7, v8, v9, v10

allVars == <<part, v1, v2, v3, v4, v5, v6, v7, v8, v9, v10>>

Xdi == INSTANCE XDisplay WITH
  at <- v1, lock <- v2, path <- v3, abstract <- v4, raced <- v5,
  Last <- LastDisplay
Cap == INSTANCE PortalCapture WITH
  child <- v1, window <- v2, handles <- v3, frames <- v4, up <- v5, down <- v6,
  known <- v7, asked <- v8,
  Windows <- CaptureWindows, Frames <- CaptureFrames
Por == INSTANCE Portal WITH
  calls <- v1, owed <- v2, wrong <- v3, sessions <- v4, frames <- v5, timers <- v6,
  source <- v7, up <- v8,
  Windows <- Toplevels
Str == INSTANCE PipeWireStream WITH
  stream <- v1, pool <- v2, memory <- v3, posted <- v4
Wms == INSTANCE WindowManagers WITH
  managers <- v1, policy <- v2, notice <- v3, asked <- v4, down <- v5, heard <- v6,
  got <- v7, since <- v8

Above4 == <<v5, v6, v7, v8, v9, v10>>
Above5 == <<v6, v7, v8, v9, v10>>
Above8 == <<v9, v10>>

PartnersInit ==
  \/ part = "x display" /\ Xdi!Init /\ v6 = 0 /\ v7 = 0 /\ v8 = 0 /\ v9 = 0 /\ v10 = 0
  \/ part = "capture" /\ Cap!Init /\ v9 = 0 /\ v10 = 0
  \/ part = "portal" /\ Por!Init /\ v9 = 0 /\ v10 = 0
  \/ part = "stream" /\ Str!Init /\ v5 = 0 /\ v6 = 0 /\ v7 = 0 /\ v8 = 0 /\ v9 = 0 /\ v10 = 0
  \/ part = "managers" /\ Wms!Init /\ v9 = 0 /\ v10 = 0

PartnersNext ==
  \/ part = "x display" /\ Xdi!Next /\ UNCHANGED <<part, Above5>>
  \/ part = "capture" /\ Cap!Next /\ UNCHANGED <<part, Above8>>
  \/ part = "portal" /\ Por!Next /\ UNCHANGED <<part, Above8>>
  \/ part = "stream" /\ Str!Next /\ UNCHANGED <<part, Above4>>
  \/ part = "managers" /\ Wms!Next /\ UNCHANGED <<part, Above8>>

PartnersSpec == PartnersInit /\ [][PartnersNext]_allVars

\* The state of these parts has its type.
PartnersTypes ==
  /\ part = "x display" => Xdi!TypeOK
  /\ part = "capture" => Cap!TypeOK
  /\ part = "portal" => Por!TypeOK
  /\ part = "stream" => Str!TypeOK
  /\ part = "managers" => Wms!TypeOK

\* The portal: every call is answered once, a frame ends once and belongs to the one
\* that waits for it, nothing is captured without consent (but for a session made again
\* under its path while a timer of the earlier one runs: see Portal), the child process
\* is restarted, and the stream's memory is that of PipeWire's buffers, whichever of
\* the threads and processes is first.
PortalSound ==
  /\ part = "capture" =>
       /\ Cap!EndsOnce /\ Cap!GoneIsOver /\ Cap!Supervised /\ Cap!WindowsKnown
  /\ part = "portal" => Por!AnsweredOnce /\ Por!FramesOwned /\ Por!Consented
  /\ part = "stream" => Str!ReadyFirst /\ Str!MemoryOwned
=============================================================================
