----------------------------- MODULE ObjectIds -----------------------------
(***************************************************************************)
(* Object ids of one connection: the proxies of a client Display, the      *)
(* resources of the server's Client, and the requests and events that are  *)
(* on their way between them.  An id outlives its object on either side,   *)
(* so each object is numbered (its incarnation) to tell whether an event   *)
(* or request reaches the object it was sent for.  The channels are those  *)
(* of WireChannel: in order and loss-free.                                 *)
(***************************************************************************)
EXTENDS Integers, Sequences

CONSTANTS
  ClientIds,    \* ids the client allocates
  ServerIds,    \* ids from 0xff000000, allocated by the server
  MaxObjects,   \* bound: objects ever created
  MaxInFlight   \* bound: messages under way in one direction

\* Assumed: ClientIds \cap ServerIds = {}

Ids == ClientIds \cup ServerIds
Objects == 1 .. MaxObjects

VARIABLES
  kind,       \* "normal", or "once": the server ends it with its only event
  proxies,    \* client proxies_: id -> object, 0 for none
  zombies,    \* client zombies_: id -> object destroyed here, 0 for none
  deletedIds, \* client deleted_ids_
  resources,  \* server resources_: id -> object, 0 for none
  requests,   \* client to server
  events,     \* server to client
  refused,    \* the server posted a protocol error
  skew,       \* descriptors that arrived and were neither used nor closed
  broken      \* the client gave up the connection: dispatch() returned false

clientVars == <<proxies, zombies, deletedIds>>
vars == <<kind, clientVars, resources, requests, events, refused, skew, broken>>

Made == Len(kind)
Room(queue) == Len(queue) < MaxInFlight

Init ==
  /\ kind = <<>>
  /\ proxies = [i \in Ids |-> 0]
  /\ zombies = [i \in ClientIds |-> 0] /\ deletedIds = {}
  /\ resources = [i \in Ids |-> 0]
  /\ requests = <<>> /\ events = <<>>
  /\ refused = FALSE /\ skew = 0 /\ broken = FALSE

----------------------------------------------------------------------------
(* Messages. *)

Request(op, i, obj) == [op |-> op, id |-> i, obj |-> obj]
\* other: the object a "new" event creates or a "mention" event refers to.
EventMsg(op, i, obj, fd, other) ==
  [op |-> op, id |-> i, obj |-> obj, fd |-> fd, other |-> other]
NoOther == [id |-> 0, obj |-> 0]
\* delete_id carries only the id; obj is kept for the properties.
DeleteMsg(i) == EventMsg("delete", i, resources[i], FALSE, NoOther)

----------------------------------------------------------------------------
(* The client. *)

AllocAnyUnused(i) == proxies[i] = 0                       \* mutant
\* alloc_id() and create_proxy() skip what is live, destroyed but not yet
\* acknowledged, or acknowledged while the proxy is still there.
Allocatable(i) == proxies[i] = 0 /\ zombies[i] = 0 /\ i \notin deletedIds

Create(i, k) ==
  /\ ~broken /\ Made < MaxObjects /\ Room(requests)
  /\ Allocatable(i)
  /\ kind' = Append(kind, k)
  /\ proxies' = [proxies EXCEPT ![i] = Made + 1]
  /\ requests' = Append(requests, Request("new", i, Made + 1))
  /\ UNCHANGED <<zombies, deletedIds, resources, events, refused, skew, broken>>

DestroyProxy(i) ==
  /\ proxies' = [proxies EXCEPT ![i] = 0]
  /\ deletedIds' = deletedIds \ {i}
  /\ IF i \in ClientIds /\ i \notin deletedIds
       THEN zombies' = [zombies EXCEPT ![i] = proxies[i]]
       ELSE UNCHANGED zombies

\* A destructor request (generated code: send_request, then destroy_proxy).
Destroy(i) ==
  /\ ~broken /\ Room(requests)
  /\ proxies[i] # 0 /\ kind[proxies[i]] = "normal"
  /\ requests' = Append(requests, Request("destroy", i, proxies[i]))
  /\ DestroyProxy(i)
  /\ UNCHANGED <<kind, resources, events, refused, skew, broken>>

\* A callback has no destructor: its proxy is dropped locally, before or after
\* its event (roundtrip(), frame callbacks).
Drop(i) ==
  /\ ~broken
  /\ proxies[i] # 0 /\ kind[proxies[i]] = "once"
  /\ DestroyProxy(i)
  /\ UNCHANGED <<kind, resources, requests, events, refused, skew, broken>>

Use(i) ==
  /\ ~broken /\ Room(requests)
  /\ proxies[i] # 0 /\ kind[proxies[i]] = "normal"
  /\ requests' = Append(requests, Request("use", i, proxies[i]))
  /\ UNCHANGED <<kind, clientVars, resources, events, refused, skew, broken>>

\* delete_id: the zombie goes; an id whose proxy is still live is remembered.
Acknowledge(i) ==
  /\ zombies' = [zombies EXCEPT ![i] = 0]
  /\ deletedIds' = IF zombies[i] = 0 /\ proxies[i] # 0
                     THEN deletedIds \cup {i} ELSE deletedIds
  /\ UNCHANGED <<proxies, skew, broken>>

\* An event for an id without a proxy: a zombie's is parsed and its descriptor
\* closed, any other is dropped without looking at descriptors.
DropEvent(e) ==
  /\ skew' = IF e.fd /\ (e.id \in ServerIds \/ zombies[e.id] = 0) THEN skew + 1 ELSE skew
  /\ UNCHANGED <<clientVars, broken>>

\* The generated observer creates the proxy of a new object, and gives up when
\* a new id is taken or a mentioned object is not known any more.
ObserveNew(o) ==
  IF proxies[o.id] = 0
    THEN proxies' = [proxies EXCEPT ![o.id] = o.obj] /\ UNCHANGED <<zombies, deletedIds, broken>>
    ELSE broken' = TRUE /\ UNCHANGED clientVars

ObserveMention(o) ==
  /\ broken' = (proxies[o.id] = 0)
  /\ UNCHANGED clientVars

DispatchEvent ==
  /\ ~broken /\ events # <<>>
  /\ LET e == Head(events) IN
       \/ e.op = "delete" /\ Acknowledge(e.id)
       \/ e.op # "delete" /\ proxies[e.id] = 0 /\ DropEvent(e)
       \/ /\ e.op # "delete" /\ proxies[e.id] # 0
          /\ UNCHANGED skew
          /\ CASE e.op = "new" -> ObserveNew(e.other)
               [] e.op = "mention" -> ObserveMention(e.other)
               [] OTHER -> UNCHANGED <<clientVars, broken>>
  /\ events' = Tail(events)
  /\ UNCHANGED <<kind, resources, requests, refused>>

----------------------------------------------------------------------------
(* The server. *)

DestroyResource(i) == resources' = [resources EXCEPT ![i] = 0]
NeverAcknowledge(i) == <<>>                               \* mutant
Acknowledgement(i) == IF i \in ClientIds THEN <<DeleteMsg(i)>> ELSE <<>>

HandleNew(r) ==
  IF resources[r.id] = 0
    THEN resources' = [resources EXCEPT ![r.id] = r.obj] /\ UNCHANGED <<events, refused>>
    ELSE refused' = TRUE /\ UNCHANGED <<resources, events>>

\* dispatch_available(): an id without a resource is a protocol error.
HandleOther(r) ==
  CASE resources[r.id] = 0 -> refused' = TRUE /\ UNCHANGED <<resources, events>>
    [] resources[r.id] # 0 /\ r.op = "destroy" ->
         /\ DestroyResource(r.id)
         /\ events' = events \o Acknowledgement(r.id)
         /\ UNCHANGED refused
    [] OTHER -> UNCHANGED <<resources, events, refused>>

HandleRequest ==
  /\ ~refused /\ requests # <<>>
  /\ LET r == Head(requests) IN IF r.op = "new" THEN HandleNew(r) ELSE HandleOther(r)
  /\ requests' = Tail(requests)
  /\ UNCHANGED <<kind, clientVars, skew, broken>>

Send(msgs) ==
  /\ ~refused /\ Room(events)
  /\ events' = events \o msgs
  /\ UNCHANGED <<clientVars, requests, refused, skew, broken>>

\* Only objects the client created have events with descriptors.
SendEvent(i, fd) ==
  /\ resources[i] # 0 /\ kind[resources[i]] = "normal"
  /\ fd => i \in ClientIds
  /\ Send(<<EventMsg("event", i, resources[i], fd, NoOther)>>)
  /\ UNCHANGED <<kind, resources>>

ServerAllocatable(j) == resources[j] = 0

\* alloc_id() hands out a server-side id that no resource has; the event that
\* announces the object follows at once.
SendNew(i, j) ==
  /\ Made < MaxObjects
  /\ resources[i] # 0 /\ kind[resources[i]] = "normal" /\ ServerAllocatable(j)
  /\ kind' = Append(kind, "normal")
  /\ resources' = [resources EXCEPT ![j] = Made + 1]
  /\ Send(<<EventMsg("new", i, resources[i], FALSE, [id |-> j, obj |-> Made + 1])>>)

\* An event that refers to another object of the client (wl_pointer.enter).
SendMention(i, j) ==
  /\ resources[i] # 0 /\ kind[resources[i]] = "normal"
  /\ resources[j] # 0 /\ kind[resources[j]] = "normal" /\ i # j
  /\ Send(<<EventMsg("mention", i, resources[i], FALSE, [id |-> j, obj |-> resources[j]])>>)
  /\ UNCHANGED <<kind, resources>>

\* wl_callback: done, and the resource is destroyed with it.
Finish(i) ==
  /\ resources[i] # 0 /\ kind[resources[i]] = "once"
  /\ DestroyResource(i)
  /\ Send(<<EventMsg("done", i, resources[i], FALSE, NoOther)>> \o Acknowledgement(i))
  /\ UNCHANGED kind

----------------------------------------------------------------------------
ClientStep ==
  \/ \E i \in ClientIds, k \in {"normal", "once"} : Create(i, k)
  \/ \E i \in Ids : Destroy(i) \/ Drop(i) \/ Use(i)
  \/ DispatchEvent

ServerStep ==
  \/ HandleRequest
  \/ \E i \in Ids, fd \in BOOLEAN : SendEvent(i, fd)
  \/ \E i \in ClientIds, j \in ServerIds : SendNew(i, j)
  \/ \E i, j \in ClientIds : SendMention(i, j)
  \/ \E i \in Ids : Finish(i)

Next == ClientStep \/ ServerStep
Spec == Init /\ [][Next]_vars

\* Both sides keep dispatching.
FairSpec == Spec /\ WF_vars(DispatchEvent) /\ WF_vars(HandleRequest)

----------------------------------------------------------------------------
Id0 == Objects \cup {0}
\* Types of the tables of both sides (client display.hpp 124-128).
TypeOK ==
  /\ kind \in Seq({"normal", "once"}) /\ Made <= MaxObjects
  /\ proxies \in [Ids -> Id0] /\ zombies \in [ClientIds -> Id0]
  /\ deletedIds \subseteq ClientIds /\ resources \in [Ids -> Id0]
  /\ refused \in BOOLEAN /\ broken \in BOOLEAN /\ skew \in Nat

InFlight(queue) == {queue[n] : n \in 1 .. Len(queue)}

\* An event never meets another object's proxy under its id, however often ids
\* are reused: while it is under way for an object the client created
\* (alloc_id 213-221, create_proxy 225-226), and when its turn comes for one
\* the server created.
EventsReachTheirObject ==
  /\ \A e \in InFlight(events) :
       e.id \in ClientIds => proxies[e.id] \in {0, e.obj}
  /\ events # <<>> => proxies[Head(events).id] \in {0, Head(events).obj}

\* A client that follows the protocol is never told "invalid object", nor that
\* a new id is taken: its requests find the resource they were made for.
RequestsReachTheirObject ==
  /\ ~refused
  /\ requests # <<>> =>
       LET r == Head(requests) IN
       resources[r.id] = IF r.op = "new" THEN 0 ELSE r.obj

\* Descriptors of events for destroyed objects are taken off the stream, so
\* that later ones reach the right event (dispatch_messages 131-143).
NoDescriptorLeftOver == skew = 0

\* An id is held back exactly while the server may still know it: a zombie's
\* object is alive at the server, or its acknowledgement is under way.
ZombiesAreOwed ==
  \A i \in ClientIds :
    zombies[i] # 0 =>
      \/ resources[i] = zombies[i]
      \/ \E r \in InFlight(requests) : r.op = "new" /\ r.obj = zombies[i]
      \/ \E e \in InFlight(events) : e.op = "delete" /\ e.obj = zombies[i]

\* The id of an object destroyed by request can be used again, unless the
\* client gives up: an event that mentions an object it has destroyed since
\* makes it do so.
IdsComeBack ==
  \A i \in ClientIds, o \in Objects :
    (zombies[i] = o /\ kind[o] = "normal") ~> (zombies[i] # o \/ broken)
=============================================================================
