------------------------------ MODULE Buffers ------------------------------
(***************************************************************************)
(* The buffers of one client (compositor_server_buffers.cpp) and the way   *)
(* surfaces hold them (surface_attach, surface_commit, surface_destroyed). *)
(* A wl_buffer is an object of the client and, apart from that, a counted  *)
(* structure of the compositor: the object holds one reference, and each   *)
(* surface one for its pending and one for its current buffer, a single    *)
(* one when both name the same buffer.  A shm buffer keeps the mapping of  *)
(* its pool alive; a DMA-BUF buffer owns the descriptors of its planes,    *)
(* which it took over from a params object.                                *)
(*                                                                         *)
(* `busy` is the client's side: the buffers it committed and waits to have *)
(* released.  `shared` and `lost` are histories: buffers committed on two  *)
(* surfaces, and references dropped by a lock surface's late error.  A     *)
(* request that is refused and changes nothing is no step: the teardown of *)
(* the client that follows is the destruction of its objects in some       *)
(* order, and `dead` says so where the refused request did change state.   *)
(***************************************************************************)
EXTENDS Integers, FiniteSets

CONSTANTS
  Surfaces,      \* the client's surfaces
  LockSurfaces,  \* those with the lock role
  Buffers, Pools, Params, Fds,
  None,
  MaxSize        \* bound: size of a pool, in buffers

VARIABLES
  pool,      \* pool[p]: exists, its object is alive, size, buffers, writable
  buffer,    \* buffer[b]: exists, object alive, references, pool, fds, end
  params,    \* params[q]: "none", "open" or "used"; the planes it holds
  surface,   \* surface[s]: alive, pending, current, changed, released
  open,      \* descriptors received and not closed
  busy, shared, lost,
  dead,      \* the client got a protocol error and is being torn down
  faulted    \* the compositor wrote through a read-only mapping

bufferVars == <<pool, buffer, params, surface, open, busy, shared, lost, dead, faulted>>

NoPool == [exists |-> FALSE, object |-> FALSE, size |-> 0, buffers |-> 0, writable |-> FALSE]
NoBuffer == [exists |-> FALSE, object |-> FALSE, refs |-> 0, pool |-> None, fds |-> {}, end |-> 0]
NewSurface == [alive |-> TRUE, pending |-> None, current |-> None, changed |-> FALSE, released |-> FALSE]

NoParams == [q \in Params |-> [state |-> "none", fds |-> {}]]

Init ==
  /\ pool = [p \in Pools |-> NoPool] /\ buffer = [b \in Buffers |-> NoBuffer]
  /\ params = NoParams /\ surface = [s \in Surfaces |-> NewSurface]
  /\ open = {} /\ busy = {} /\ shared = {} /\ lost = {} /\ dead = FALSE /\ faulted = FALSE

\* The compositor dies of a fault, and everything it holds with it.
Fault ==
  /\ pool' = [p \in Pools |-> NoPool] /\ buffer' = [b \in Buffers |-> NoBuffer]
  /\ params' = NoParams /\ surface' = [s \in Surfaces |-> NewSurface]
  /\ open' = {} /\ busy' = {} /\ shared' = {} /\ lost' = {} /\ dead' = FALSE /\ faulted' = TRUE

Alive == ~dead /\ ~faulted
IsShm(b) == buffer[b].pool # None

-----------------------------------------------------------------------------
(* Counting.  The operators take and give the whole of what an unref may   *)
(* touch: [buffer, pool, open].                                            *)

Store == [buffer |-> buffer, pool |-> pool, open |-> open]

DestroyPool(st, p) == [st EXCEPT !.pool[p] = NoPool]

\* The last reference frees the buffer: one buffer less in its pool, whose
\* mapping goes when the pool object is gone too, or its planes are closed.
FreeBuffer(st, b) ==
  LET p == st.buffer[b].pool
      freed == [st EXCEPT !.buffer[b] = NoBuffer, !.open = @ \ st.buffer[b].fds]
      counted == IF p = None THEN freed ELSE [freed EXCEPT !.pool[p].buffers = @ - 1]
  IN IF p # None /\ counted.pool[p].buffers = 0 /\ ~counted.pool[p].object
     THEN DestroyPool(counted, p) ELSE counted

UnrefBuffer(st, b) ==
  IF b = None THEN st
  ELSE IF st.buffer[b].refs = 1 THEN FreeBuffer(st, b)
  ELSE [st EXCEPT !.buffer[b].refs = @ - 1]

SetStore(st) == buffer' = st.buffer /\ pool' = st.pool /\ open' = st.open

\* A release reaches the client only through a live object.
Released(b) == IF b # None /\ buffer[b].object THEN {b} ELSE {}

PostError == dead' = TRUE

-----------------------------------------------------------------------------
(* Pools and shm buffers                                                   *)

\* create_pool(): mapped for reading and writing.
CreatePool(p) ==
  /\ Alive /\ ~pool[p].exists
  /\ \E n \in 1 .. MaxSize :
       pool' = [pool EXCEPT ![p] = [exists |-> TRUE, object |-> TRUE, size |-> n,
                                    buffers |-> 0, writable |-> TRUE]]
  /\ UNCHANGED <<buffer, params, surface, open, busy, shared, lost, dead, faulted>>

\* pool_resize(): never shrinks; the new mapping is made for reading only.
ResizePool(p) ==
  /\ Alive /\ pool[p].object
  /\ \E n \in pool[p].size + 1 .. MaxSize :
       pool' = [pool EXCEPT ![p].size = n, ![p].writable = FALSE]
  /\ UNCHANGED <<buffer, params, surface, open, busy, shared, lost, dead, faulted>>

PoolDestroyedAtOnce(p) ==    \* mutant: the pool goes with its object
  /\ pool[p].object /\ ~faulted
  /\ SetStore(DestroyPool(Store, p))
  /\ UNCHANGED <<params, surface, busy, shared, lost, dead, faulted>>

\* pool_destroyed(): the mapping stays while buffers need it.
PoolDestroyed(p) ==
  /\ pool[p].object /\ ~faulted
  /\ SetStore(IF pool[p].buffers = 0 THEN DestroyPool(Store, p)
              ELSE [Store EXCEPT !.pool[p].object = FALSE])
  /\ UNCHANGED <<params, surface, busy, shared, lost, dead, faulted>>

\* create_buffer(): the rows must lie in the pool.
CreateShmBuffer(b, p) ==
  /\ Alive /\ pool[p].object /\ ~buffer[b].exists
  /\ \E end \in 1 .. pool[p].size :
       buffer' = [buffer EXCEPT ![b] = [exists |-> TRUE, object |-> TRUE, refs |-> 1,
                                        pool |-> p, fds |-> {}, end |-> end]]
  /\ pool' = [pool EXCEPT ![p].buffers = @ + 1]
  /\ UNCHANGED <<params, surface, open, busy, shared, lost, dead, faulted>>

\* buffer_destroyed(): surfaces keep what they hold.
BufferDestroyed(b) ==
  /\ buffer[b].object /\ ~faulted
  /\ SetStore(UnrefBuffer([Store EXCEPT !.buffer[b].object = FALSE], b))
  /\ busy' = busy \ {b} /\ shared' = shared \ {b}
  /\ UNCHANGED <<params, surface, lost, dead, faulted>>

\* copy_shm_capture_buffer(): a screen copy is written into a shm buffer of the
\* client, whose rows must lie in the pool: a fault where a resize left it
\* mapped for reading only.
CopyCapture(b) ==
  /\ Alive /\ buffer[b].object /\ IsShm(b) /\ buffer[b].end <= pool[buffer[b].pool].size
  /\ IF pool[buffer[b].pool].writable THEN UNCHANGED bufferVars ELSE Fault

-----------------------------------------------------------------------------
(* DMA-BUF buffers                                                         *)

CreateParams(q) ==
  /\ Alive /\ params[q].state = "none"
  /\ params' = [params EXCEPT ![q].state = "open"]
  /\ UNCHANGED <<pool, buffer, surface, open, busy, shared, lost, dead, faulted>>

\* params_add(): a descriptor of a refused plane is closed at once.
AddPlane(q, f) ==
  /\ Alive /\ params[q].state = "open" /\ f \notin open
  /\ params' = [params EXCEPT ![q].fds = @ \cup {f}]
  /\ open' = open \cup {f}
  /\ UNCHANGED <<pool, buffer, surface, busy, shared, lost, dead, faulted>>

\* import_params(): the buffer takes the planes over.
Import(q, b) ==
  /\ params' = [params EXCEPT ![q] = [state |-> "used", fds |-> {}]]
  /\ buffer' = [buffer EXCEPT ![b] = [exists |-> TRUE, object |-> TRUE, refs |-> 1, pool |-> None,
                                      fds |-> params[q].fds, end |-> 0]]

\* params_create(): params are used up whatever comes of it.  Refused
\* dimensions, formats and a second use are errors; an import that fails
\* without one is answered by `failed`.  If there is no object to be had, the
\* buffer is dropped again with the planes it took.
ParamsCreate(q, b) ==
  /\ Alive /\ params[q].state # "none" /\ ~buffer[b].exists
  /\ \/ /\ params[q].state = "open" /\ params[q].fds # {}
        /\ Import(q, b) /\ UNCHANGED <<open, dead>>
     \/ /\ params[q].state = "open" /\ params[q].fds # {}
        /\ params' = [params EXCEPT ![q] = [state |-> "used", fds |-> {}]]
        /\ open' = open \ params[q].fds
        /\ PostError /\ UNCHANGED buffer
     \/ /\ params' = [params EXCEPT ![q].state = "used"]
        /\ dead' \in (IF params[q].state = "open" /\ params[q].fds # {} THEN BOOLEAN ELSE {TRUE})
        /\ UNCHANGED <<buffer, open>>
  /\ UNCHANGED <<pool, surface, busy, shared, lost, faulted>>

\* params_create_immed(): here every failure is an error.
ParamsCreateImmed(q, b) ==
  /\ ParamsCreate(q, b)
  /\ dead' = ~buffer'[b].exists

\* params_destroyed(): closes the planes nobody took.
ParamsDestroyed(q) ==
  /\ params[q].state # "none" /\ ~faulted
  /\ open' = open \ params[q].fds
  /\ params' = [params EXCEPT ![q] = [state |-> "none", fds |-> {}]]
  /\ UNCHANGED <<pool, buffer, surface, busy, shared, lost, dead, faulted>>

-----------------------------------------------------------------------------
(* Surfaces                                                                *)

\* "Pending and current share one reference when they name the same buffer."
Hold(st, s, next) ==
  IF next = None \/ next = surface[s].current THEN st
  ELSE [st EXCEPT !.buffer[next].refs = @ + 1]

\* surface_attach()
Attach(s, next) ==
  /\ Alive /\ surface[s].alive
  /\ next # None => buffer[next].object
  /\ LET before == surface[s].pending
         dropped == IF before = surface[s].current THEN Store ELSE UnrefBuffer(Store, before)
     IN SetStore(IF before = next THEN Store ELSE Hold(dropped, s, next))
  /\ surface' = [surface EXCEPT ![s].pending = next, ![s].changed = TRUE]
  /\ UNCHANGED <<params, busy, shared, lost, dead, faulted>>

\* What surface_commit() does first: the pending buffer becomes the current one.
Swapped(s) ==
  LET u == surface[s]
  IN IF ~u.changed THEN u
     ELSE [u EXCEPT !.current = u.pending, !.released = FALSE, !.changed = FALSE]

\* The buffer that the commit replaces, and whether it is still to be released.
Previous(s) == IF surface[s].changed /\ surface[s].current # surface[s].pending
               THEN surface[s].current ELSE None

\* The client's view: what it commits it must not touch until the release.
Committed(s) == IF surface[s].changed /\ surface[s].pending # None THEN {surface[s].pending} ELSE {}

OnOtherSurface(s, b) == \E t \in Surfaces \ {s} : surface[t].alive /\ surface[t].current = b

\* surface_commit(), to the end: the replaced buffer is released unless it was
\* before, and given up; a shm buffer is copied by then, and released at once.
Commit(s) ==
  /\ Alive /\ surface[s].alive
  /\ LET v == Swapped(s)
         before == IF surface[s].released THEN {} ELSE Released(Previous(s))
         atOnce == v.current # None /\ ~v.released /\ IsShm(v.current)
         now == before \cup (IF atOnce THEN Released(v.current) ELSE {})
     IN /\ surface' = [surface EXCEPT ![s] = IF atOnce THEN [v EXCEPT !.released = TRUE] ELSE v]
        /\ busy' = (busy \cup {b \in Committed(s) : buffer[b].object}) \ now
        /\ shared' = shared \cup {b \in Committed(s) : OnOtherSurface(s, b)}
        /\ SetStore(UnrefBuffer(Store, Previous(s)))
  /\ UNCHANGED <<params, lost, dead, faulted>>

\* A lock surface's commit of no buffer, or of one of the wrong size, is refused
\* after the swap: the handler returns, and the replaced buffer is neither
\* released nor given up.
CommitRefusedLate(s) ==
  /\ Alive /\ surface[s].alive /\ s \in LockSurfaces
  /\ surface[s].pending # None \/ surface[s].current # None
  /\ surface' = [surface EXCEPT ![s] = Swapped(s)]
  /\ lost' = lost \cup (IF Previous(s) = None THEN {} ELSE {Previous(s)})
  /\ busy' = busy \cup {b \in Committed(s) : buffer[b].object}
  /\ shared' = shared \cup {b \in Committed(s) : OnOtherSurface(s, b)}
  /\ PostError
  /\ UNCHANGED <<pool, buffer, params, open, faulted>>

\* surface_destroyed(), its last lines.
SurfaceDestroyed(s) ==
  /\ surface[s].alive /\ ~faulted
  /\ LET u == surface[s]
         dropped == IF u.pending = u.current THEN Store ELSE UnrefBuffer(Store, u.pending)
     IN /\ SetStore(UnrefBuffer(dropped, u.current))
        /\ busy' = IF u.released THEN busy ELSE busy \ Released(u.current)
  /\ surface' = [surface EXCEPT ![s] = [NewSurface EXCEPT !.alive = FALSE]]
  /\ UNCHANGED <<params, shared, lost, dead, faulted>>

\* create_surface()
CreateSurface(s) ==
  /\ Alive /\ ~surface[s].alive
  /\ surface' = [surface EXCEPT ![s] = NewSurface]
  /\ UNCHANGED <<pool, buffer, params, open, busy, shared, lost, dead, faulted>>

PoolStep(p) == CreatePool(p) \/ ResizePool(p) \/ PoolDestroyed(p)
BufferStep(b) ==
  \/ \E p \in Pools : CreateShmBuffer(b, p)
  \/ \E q \in Params : ParamsCreate(q, b) \/ ParamsCreateImmed(q, b)
  \/ BufferDestroyed(b) \/ CopyCapture(b)
ParamsStep(q) == CreateParams(q) \/ ParamsDestroyed(q) \/ \E f \in Fds : AddPlane(q, f)
SurfaceStep(s) ==
  \/ \E b \in Buffers \cup {None} : Attach(s, b)
  \/ Commit(s) \/ CommitRefusedLate(s)
  \/ SurfaceDestroyed(s) \/ CreateSurface(s)

Next ==
  \/ \E p \in Pools : PoolStep(p)
  \/ \E b \in Buffers : BufferStep(b)
  \/ \E q \in Params : ParamsStep(q)
  \/ \E s \in Surfaces : SurfaceStep(s)

Spec == Init /\ [][Next]_bufferVars

-----------------------------------------------------------------------------
(* Properties                                                              *)

TypeOK ==
  /\ \A p \in Pools : pool[p].buffers \in 0 .. Cardinality(Buffers) /\ pool[p].size \in 0 .. MaxSize
  /\ \A b \in Buffers : buffer[b].pool \in Pools \cup {None} /\ buffer[b].fds \subseteq Fds
  /\ \A q \in Params : params[q].state \in {"none", "open", "used"} /\ params[q].fds \subseteq Fds
  /\ \A s \in Surfaces : {surface[s].pending, surface[s].current} \subseteq Buffers \cup {None}
  /\ open \subseteq Fds /\ busy \subseteq Buffers /\ shared \subseteq Buffers /\ lost \subseteq Buffers
  /\ dead \in BOOLEAN /\ faulted \in BOOLEAN

\* The surfaces that hold b.
Holders(b) == {s \in Surfaces : surface[s].alive /\ b \in {surface[s].pending, surface[s].current}}
Slots(b) ==
  {<<s, "pending">> : s \in {t \in Holders(b) : surface[t].pending = b /\ surface[t].current # b}}
    \cup {<<s, "current">> : s \in {t \in Holders(b) : surface[t].current = b}}

\* A buffer has as many references as it has an object and surfaces that hold
\* it, and exists exactly while there are any: nothing is used after it was
\* freed, nothing is kept that nobody holds, whatever is attached, committed
\* and destroyed in whatever order.  The one exception is what the late error of
\* a lock surface loses.
ReferencesExact ==
  \A b \in Buffers \ lost :
    LET n == Cardinality(Slots(b)) + (IF buffer[b].object THEN 1 ELSE 0)
    IN buffer[b].refs = n /\ buffer[b].exists = (n > 0)

\* The rows of a buffer lie in a mapping that exists, and a pool whose object is
\* gone goes with its last buffer.
MappingsKept ==
  \A p \in Pools :
    LET mine == {b \in Buffers : buffer[b].exists /\ buffer[b].pool = p}
    IN /\ \A b \in mine : pool[p].exists /\ buffer[b].end <= pool[p].size
       /\ pool[p].buffers = Cardinality(mine)
       /\ pool[p].exists => (pool[p].object \/ mine # {})

\* A received descriptor has one owner, which closes it.
DescriptorsOwned ==
  LET held == [o \in Params \cup Buffers |->
             IF o \in Params THEN params[o].fds ELSE buffer[o].fds]
  IN /\ open = UNION {held[o] : o \in Params \cup Buffers}
     /\ \A o, u \in Params \cup Buffers : o # u => held[o] \cap held[u] = {}

\* The client gets every buffer back: it waits only for one that a surface still
\* shows and will release.
EveryReleaseComes ==
  \A b \in busy \ lost : \E s \in Surfaces : surface[s].current = b /\ ~surface[s].released

\* And not too early: a DMA-BUF buffer on a surface is not released, unless it
\* was committed on two surfaces and the other one is done with it.
NotReleasedWhileShown ==
  \A s \in Surfaces, b \in Buffers :
    (surface[s].current = b /\ buffer[b].object /\ ~IsShm(b)) => (b \in busy \/ b \in shared)
=============================================================================
