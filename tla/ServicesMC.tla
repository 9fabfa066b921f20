----------------------------- MODULE ServicesMC -----------------------------
(***************************************************************************)
(* Two services of the libraries side by side: the event loop, and the     *)
(* object ids of one connection.  A behaviour is one of `part`.            *)
(***************************************************************************)
EXTENDS EventLoop, Sequences

CONSTANTS ClientIds, ServerIds, MaxObjects, MaxInFlight

VARIABLES
  part, kind, proxies, zombies, deletedIds, resources, requests, events, refused, skew, broken

I == INSTANCE ObjectIds

\* What ObjectIds takes for granted of its constants.
ASSUME IdsAssumption == ClientIds \cap ServerIds = {} /\ MaxObjects \in Nat

idVars == <<kind, proxies, zombies, deletedIds, resources, requests, events, refused, skew, broken>>
OthersOfLoop == UNCHANGED <<part, idVars>>
OthersOfIds == UNCHANGED <<part, vars>>

MCInit == part \in {"loop", "ids"} /\ Init /\ I!Init

MCNext ==
  \/ part = "loop" /\ Next /\ OthersOfLoop
  \/ part = "ids" /\ I!Next /\ OthersOfIds

\* The fairness of each part: the loop is run and goes on, and callbacks
\* return; both ends of the connection keep dispatching.
MCSpec ==
  /\ MCInit /\ [][MCNext]_<<part, vars, idVars>>
  /\ WF_vars(part = "loop" /\ Run /\ OthersOfLoop)
  /\ WF_vars(part = "loop" /\ LoopStep /\ OthersOfLoop)
  /\ WF_vars(part = "loop" /\ Return /\ OthersOfLoop)
  /\ WF_idVars(part = "ids" /\ I!DispatchEvent /\ OthersOfIds)
  /\ WF_idVars(part = "ids" /\ I!HandleRequest /\ OthersOfIds)

\* The state of both parts has its type.
TypesOK == TypeOK /\ I!TypeOK

\* Returning false gives up the callback's own registration only, and an idle is
\* run unless it is removed or the loop is stopped.
CallbacksKept == OthersKept /\ IdlesRun

\* An event or a request never meets another object than the one it was made
\* for, and descriptors of events for destroyed objects are taken off the
\* stream, however often ids are reused (client display.cpp 131-143, 213-226):
\* an id is held back exactly while the server may still know it.
MessagesReachTheirObject ==
  /\ I!EventsReachTheirObject /\ I!RequestsReachTheirObject
  /\ I!NoDescriptorLeftOver /\ I!ZombiesAreOwed

\* The id of an object destroyed by request can be used again, unless the
\* client gives up.
IdsComeBack ==
  \A i \in ClientIds, o \in 1 .. MaxObjects :
    (zombies[i] = o /\ kind[o] = "normal") ~> (zombies[i] # o \/ broken)
=============================================================================
