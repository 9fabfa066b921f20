------------------------------- MODULE Clients -------------------------------
(***************************************************************************)
(* zwayland::server::Display: its clients from accept to removal, and the  *)
(* globals they see through their registries (display.cpp).  A global may  *)
(* be withdrawn, or withdrawn and forgotten at once, while its name is on  *)
(* the way to a client or a bind of it is on the way back.  Some globals   *)
(* are for the portal's client only (portal_capture.cpp 554-558).  Events  *)
(* and requests travel in order (WireChannel); what a bind creates is the  *)
(* matter of other modules.                                                *)
(*                                                                         *)
(* The client's end (view) is external: any program may be there.          *)
(***************************************************************************)
EXTENDS Naturals, Sequences, SequencesExt

CONSTANTS
  Members, None, \* clients
  Registries,    \* bound: wl_registry objects of one client
  MaxName,       \* bound: globals are named 1..MaxName (next_global_name_)
  Restricted,    \* the globals that only the portal's client may see
  MaxRequests,   \* bound: requests of one client under way
  MaxEvents      \* bound: events under way to one client

VARIABLES
  st,        \* "none", "live", "dead" (dead_), "destroyed" (waits for its idle), "gone"
  regs,      \* Client::registry_ids
  globals,   \* "unmade", "live", "removed" (Global::removed) or "destroyed"
  portal,    \* PortalCapture::client, or None
  idles,     \* idles of schedule_remove_client that are to run, by client
  up, down,  \* requests and events under way, by client
  view,      \* the globals that each registry of the client's shows
  denied     \* history: the name whose bind was refused, by client; 0 for none

clientVars == <<st, regs, globals, portal, idles, up, down, view, denied>>

Names == 1..MaxName
Made == {n \in Names : globals[n] # "unmade"}
Known(c) == st[c] \in {"live", "dead", "destroyed"}      \* is in clients_
\* global_visible() with the filter of the portal.
Visible(c, n) == n \notin Restricted \/ c = portal

Init ==
  /\ st = [c \in Members |-> "none"] /\ regs = [c \in Members |-> {}]
  /\ globals = [n \in Names |-> "unmade"] /\ portal = None /\ idles = [c \in Members |-> 0]
  /\ up = [c \in Members |-> <<>>] /\ down = [c \in Members |-> <<>>]
  /\ view = [c \in Members |-> [r \in Registries |-> {}]]
  /\ denied = [c \in Members |-> 0]

Event(op, r, n) == [op |-> op, reg |-> r, name |-> n]
Events(op, R, n) == [i \in DOMAIN SetToSeq(R) |-> Event(op, SetToSeq(R)[i], n)]
Requested(c) == {up[c][i].reg : i \in {j \in DOMAIN up[c] : up[c][j].op = "get_registry"}}

----------------------------------------------------------------------------
(* Clients.  send_event() drops what is for a dead client; destroy() is done *)
(* once, however often it is called.                                         *)

Destroyed(c) ==
  IF st[c] = "destroyed" THEN UNCHANGED <<st, regs, idles>>
  ELSE /\ st' = [st EXCEPT ![c] = "destroyed"] /\ regs' = [regs EXCEPT ![c] = {}]
       /\ idles' = [idles EXCEPT ![c] = @ + 1]

Connect(c) ==
  /\ st[c] = "none" /\ st' = [st EXCEPT ![c] = "live"]
  /\ UNCHANGED <<regs, globals, idles, up, down, view, denied>>
\* accept_client()
Accept(c) == Connect(c) /\ UNCHANGED portal
\* handle_capture: the portal's child attaches a connection of its own
Attach(c) == portal = None /\ Connect(c) /\ portal' = c

\* A handler of another client's request, or a protocol error found outside
\* of dispatch, marks the client; it is destroyed at its next event.
PostErrorElsewhere(c) ==
  /\ st[c] = "live" /\ st' = [st EXCEPT ![c] = "dead"]
  /\ UNCHANGED <<regs, globals, portal, idles, up, down, view, denied>>
\* Its end was closed: what it sent last is not read.
Hangup(c) ==
  /\ Known(c) /\ Destroyed(c) /\ up' = [up EXCEPT ![c] = <<>>]
  /\ portal' = IF portal = c THEN None ELSE portal
  /\ UNCHANGED <<globals, down, view, denied>>
\* PortalCapture::close_channel(true): from the child's socket or its exit
CloseChannel ==
  /\ portal # None /\ Destroyed(portal) /\ portal' = None
  /\ UNCHANGED <<globals, up, down, view, denied>>
\* The idle of schedule_remove_client(): the descriptor is closed with it.
RemoveClient(c) ==
  /\ idles[c] > 0 /\ idles' = [idles EXCEPT ![c] = @ - 1]
  /\ st' = [st EXCEPT ![c] = "gone"]
  /\ UNCHANGED <<regs, globals, portal, up, down, view, denied>>

----------------------------------------------------------------------------
(* Globals. *)

\* notify_global() and remove_global(): to every registry of those who may see it
Tell(op, n) ==
  /\ \A c \in Members : st[c] = "live" => Len(down[c]) + Cardinality(regs[c]) <= MaxEvents
  /\ down' = [c \in Members |-> IF st[c] = "live" /\ Visible(c, n)
                                THEN down[c] \o Events(op, regs[c], n) ELSE down[c]]
AddGlobal(n) ==
  /\ globals[n] = "unmade" /\ \A k \in 1..n - 1 : globals[k] # "unmade"
  /\ globals' = [globals EXCEPT ![n] = "live"] /\ Tell("global", n)
  /\ UNCHANGED <<st, regs, portal, idles, up, view, denied>>
RemoveGlobal(n) ==
  /\ globals[n] = "live" /\ globals' = [globals EXCEPT ![n] = "removed"]
  /\ Tell("remove", n)
  /\ UNCHANGED <<st, regs, portal, idles, up, view, denied>>
DestroyGlobal(n) ==
  /\ globals[n] \in {"live", "removed"} /\ globals' = [globals EXCEPT ![n] = "destroyed"]
  /\ IF globals[n] = "live" THEN Tell("remove", n) ELSE down' = down
  /\ UNCHANGED <<st, regs, portal, idles, up, view, denied>>

----------------------------------------------------------------------------
(* The client's end. *)

Send(c, op, r, n) ==
  /\ st[c] # "none" /\ Len(up[c]) < MaxRequests
  /\ up' = [up EXCEPT ![c] = Append(@, Event(op, r, n))]
  /\ UNCHANGED <<st, regs, globals, portal, idles, down, view, denied>>
GetRegistry(c, r) ==
  /\ st[c] \in {"live", "dead"} /\ r \notin regs[c] \cup Requested(c)
  /\ Send(c, "get_registry", r, 0)
Bind(c, r, n) == st[c] \in {"live", "dead"} /\ n \in view[c][r] /\ Send(c, "bind", r, n)
ReadEvent(c) ==
  /\ down[c] # <<>> /\ down' = [down EXCEPT ![c] = Tail(@)]
  /\ LET e == Head(down[c])
     IN view' = [view EXCEPT ![c][e.reg] =
                   IF e.op = "global" THEN @ \cup {e.name} ELSE @ \ {e.name}]
  /\ UNCHANGED <<st, regs, globals, portal, idles, up, denied>>

----------------------------------------------------------------------------
(* Client::dispatch_available(): one request. *)

\* notify_registry()
Announced(c) == {n \in Made : globals[n] = "live" /\ Visible(c, n)}
\* The handler of get_registry, then the client's death if it was marked.
HandleGetRegistry(c, r) ==
  /\ Len(down[c]) + Cardinality(Announced(c)) <= MaxEvents
  /\ down' = IF st[c] # "live" THEN down
             ELSE [down EXCEPT ![c] =
                     @ \o [i \in 1..Cardinality(Announced(c)) |->
                             Event("global", r, SetToSortSeq(Announced(c), <)[i])]]
  /\ IF st[c] = "live" THEN regs' = [regs EXCEPT ![c] = @ \cup {r}] /\ UNCHANGED <<st, idles>>
     ELSE Destroyed(c)
  /\ UNCHANGED denied
\* The handler of bind: an unknown name is a protocol error.
HandleBind(c, n) ==
  /\ IF globals[n] \in {"live", "removed"} /\ Visible(c, n)
     THEN /\ denied' = denied
          /\ IF st[c] = "live" THEN UNCHANGED <<st, regs, idles>> ELSE Destroyed(c)
     ELSE denied' = [denied EXCEPT ![c] = n] /\ Destroyed(c)
  /\ UNCHANGED down
\* A destroyed client has no objects left, not even its wl_display.
HandleRequest(c) ==
  /\ Known(c) /\ up[c] # <<>> /\ up' = [up EXCEPT ![c] = Tail(@)]
  /\ LET q == Head(up[c])
     IN CASE st[c] = "destroyed" -> Destroyed(c) /\ UNCHANGED <<down, denied>>
          [] q.op = "get_registry" -> HandleGetRegistry(c, q.reg)
          [] OTHER -> HandleBind(c, q.name)
  /\ portal' = IF portal = c /\ st'[c] = "destroyed" THEN None ELSE portal
  /\ UNCHANGED <<globals, view>>

Next ==
  \/ CloseChannel
  \/ \E n \in Names : AddGlobal(n) \/ RemoveGlobal(n) \/ DestroyGlobal(n)
  \/ \E c \in Members :
       \/ Accept(c) \/ Attach(c) \/ PostErrorElsewhere(c) \/ Hangup(c) \/ RemoveClient(c)
       \/ ReadEvent(c) \/ HandleRequest(c)
       \/ \E r \in Registries : GetRegistry(c, r) \/ \E n \in Names : Bind(c, r, n)

----------------------------------------------------------------------------
(* Properties. *)

TypeOK ==
  /\ st \in [Members -> {"none", "live", "dead", "destroyed", "gone"}]
  /\ regs \in [Members -> SUBSET Registries] /\ portal \in Members \cup {None}
  /\ globals \in [Names -> {"unmade", "live", "removed", "destroyed"}]
  /\ idles \in [Members -> Nat] /\ denied \in [Members -> Names \cup {0}]
  /\ view \in [Members -> [Registries -> SUBSET Names]]
  /\ \A c \in Members : up[c] \in Seq([op : {"get_registry", "bind"}, reg : Registries,
                                       name : Names \cup {0}])
  /\ \A c \in Members : down[c] \in Seq([op : {"global", "remove"}, reg : Registries,
                                         name : Names])

\* What a registry shows once the client has read everything.
Shown(c, r) ==
  FoldLeft(LAMBDA seen, e : IF e.reg # r THEN seen
                            ELSE IF e.op = "global" THEN seen \cup {e.name} ELSE seen \ {e.name},
           view[c][r], down[c])
\* Each registry comes to show the globals there are, whether they were added
\* or withdrawn before or after it (notify_registry, notify_global,
\* remove_global); the others' globals are never among them.
RegistriesCurrent ==
  \A c \in Members, r \in Registries :
    /\ st[c] = "live" =>
         Shown(c, r) = IF r \in regs[c] THEN Announced(c) ELSE {}
    /\ c # portal /\ st[c] = "live" => view[c][r] \cap Restricted = {}
\* Only a bind that met the end of its global ends a client that binds what it
\* was told; a global that is only withdrawn can still be bound (display.cpp 461-485).
OnlyForgottenDenied == \A c \in Members : denied[c] # 0 => globals[denied[c]] = "destroyed"
\* A client leaves clients_ by one idle, though its descriptor may report
\* events until then and the portal's channel may end it too: after that idle
\* nothing refers to it (destroying_, 185-201, 463-476).
RemovedOnce ==
  \A c \in Members : /\ idles[c] = (IF st[c] = "destroyed" THEN 1 ELSE 0)
                     /\ portal = c => st[c] \in {"live", "dead"}
                     /\ st[c] = "destroyed" => regs[c] = {}
=============================================================================
