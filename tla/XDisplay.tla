------------------------------ MODULE XDisplay ------------------------------
(***************************************************************************)
(* The X display number of a compositor's Xwayland                         *)
(* (xwayland_spawn.cpp, XwaylandRuntime::start() and reset_server()).       *)
(* Several sessions on a machine take numbers from the same directory: a    *)
(* lock file with the owner's pid, a socket in the file system and one in   *)
(* the abstract namespace.  Each line below is a system call or a few of    *)
(* them; sessions run in parallel and may crash, which leaves their files   *)
(* behind.  Once Xwayland runs only it listens: its name goes with it, and  *)
(* the session keeps the number until it has noticed.                       *)
(*                                                                         *)
(* The files, the kernel's sockets (lock, path, abstract) and Xwayland are  *)
(* external.                                                                *)
(***************************************************************************)
EXTENDS Naturals

CONSTANTS Sessions, Last, None   \* display numbers are 0..Last (kMaximumDisplay)

VARIABLES
  at,       \* at[p]: where create_xwayland_display() is, and for which number
  lock,     \* lock[n]: whose lock file, whether its pid is written, whether that process died
  path,     \* path[n]: who bound the socket file last
  abstract, \* abstract[n]: which session, or its Xwayland, listens on the abstract socket
  raced     \* (history) numbers where a lock was removed that was stale only when looked at

displayVars == <<at, lock, path, abstract, raced>>

Numbers == 0..Last
NoLock == [by |-> None, pid |-> FALSE, dead |-> FALSE]
Idle == [pc |-> "idle", n |-> 0]

Init ==
  /\ at = [p \in Sessions |-> Idle] /\ lock = [n \in Numbers |-> NoLock]
  /\ path = [n \in Numbers |-> None] /\ abstract = [n \in Numbers |-> None] /\ raced = {}

Go(p, pc, n) == at' = [at EXCEPT ![p] = [pc |-> pc, n |-> n]]
TryNext(p, n) == IF n = Last THEN Go(p, "idle", 0) ELSE Go(p, "open", n + 1)

\* create_xwayland_display(), and a restart of the server
Begin(p) ==
  /\ at[p].pc = "idle" /\ Go(p, "open", 0)
  /\ UNCHANGED <<lock, path, abstract, raced>>

\* open(O_EXCL) of the lock file; an existing one may be stale: stale_lock()
OpenLock(p) ==
  LET n == at[p].n
  IN /\ at[p].pc = "open"
     /\ IF lock[n].by = None
        THEN lock' = [lock EXCEPT ![n] = [NoLock EXCEPT !.by = p]] /\ Go(p, "bind", n)
        ELSE /\ IF lock[n].pid /\ lock[n].dead THEN Go(p, "unlink", n) ELSE TryNext(p, n)
             /\ lock' = lock
     /\ UNCHANGED <<path, abstract, raced>>
\* It is removed, whoever owns it by now.
UnlinkStale(p) ==
  LET n == at[p].n
  IN /\ at[p].pc = "unlink"
     /\ lock' = [lock EXCEPT ![n] = NoLock]
     /\ raced' = IF lock[n].pid /\ lock[n].dead THEN raced ELSE raced \cup {n}
     /\ IF lock[n].by = None THEN TryNext(p, n) ELSE Go(p, "open", n)
     /\ UNCHANGED <<path, abstract>>

\* create_socket() twice: the file is replaced, the abstract name must be free.
Bind(p) ==
  LET n == at[p].n
  IN /\ at[p].pc = "bind"
     /\ IF abstract[n] = None
        THEN /\ abstract' = [abstract EXCEPT ![n] = p] /\ path' = [path EXCEPT ![n] = p]
             /\ Go(p, "pid", n) /\ lock' = lock
        ELSE /\ path' = [path EXCEPT ![n] = None] /\ lock' = [lock EXCEPT ![n] = NoLock]
             /\ TryNext(p, n) /\ abstract' = abstract
     /\ raced' = raced
\* The pid is written to the descriptor, even when the file was unlinked.
WritePid(p) ==
  LET n == at[p].n
  IN /\ at[p].pc = "pid" /\ Go(p, "made", n)
     /\ lock' = IF lock[n].by = p THEN [lock EXCEPT ![n].pid = TRUE] ELSE lock
     /\ UNCHANGED <<path, abstract, raced>>

\* start(): fork() fails or not, and the session closes its copies of the sockets.  It
\* returns without, and keeps them, when it has no pair of sockets for the new server.
Spawn(p) ==
  LET n == at[p].n
  IN /\ at[p].pc = "made"
     /\ \/ Go(p, "have", n) /\ abstract' = abstract
        \/ Go(p, "gone", n) /\ abstract' = [abstract EXCEPT ![n] = None]
     /\ UNCHANGED <<lock, path, raced>>

\* The session itself listens, and not a server of its own.
Listens(p, n) == at[p].n = n /\ at[p].pc \in {"pid", "made"}

\* A server of the session exits, the one it has or one it told to.
ServerEnds(p, n) ==
  /\ abstract[n] = p /\ ~Listens(p, n) /\ abstract' = [abstract EXCEPT ![n] = None]
  /\ at' = IF at[p] = [pc |-> "have", n |-> n] THEN [at EXCEPT ![p].pc = "gone"] ELSE at
  /\ UNCHANGED <<lock, path, raced>>

Freed(p) == [n \in Numbers |-> IF Listens(p, n) THEN None ELSE abstract[n]]

\* reset_server(), destroy_xwayland_display(): the server is told to exit, and has the
\* socket until it does.
Destroy(p) ==
  LET n == at[p].n
  IN /\ at[p].pc \in {"made", "have", "gone"} /\ Go(p, "idle", 0)
     /\ abstract' = Freed(p)
     /\ path' = [path EXCEPT ![n] = None] /\ lock' = [lock EXCEPT ![n] = NoLock]
     /\ raced' = raced

\* The session dies; its files stay, with a pid that no longer runs, and its server
\* until it notices.
Crash(p) ==
  /\ at[p].pc # "idle" /\ Go(p, "idle", 0)
  /\ abstract' = Freed(p)
  /\ lock' = [n \in Numbers |-> IF lock[n].by = p THEN [lock[n] EXCEPT !.dead = TRUE] ELSE lock[n]]
  /\ UNCHANGED <<path, raced>>

Next ==
  \E p \in Sessions :
    \/ Begin(p) \/ OpenLock(p) \/ UnlinkStale(p) \/ Bind(p) \/ WritePid(p) \/ Spawn(p)
    \/ Destroy(p) \/ Crash(p) \/ \E n \in Numbers : ServerEnds(p, n)

-----------------------------------------------------------------------------
\* The types of the variables.
TypeOK ==
  /\ \A p \in Sessions :
       /\ at[p].pc \in {"idle", "open", "unlink", "bind", "pid", "made", "have", "gone"}
       /\ at[p].n \in Numbers
  /\ abstract \in [Numbers -> Sessions \cup {None}] /\ path \in [Numbers -> Sessions \cup {None}]
  /\ raced \subseteq Numbers

Serves(p) == at[p].pc \in {"pid", "made", "have"}
Keeps(p) == Serves(p) \/ at[p].pc \in {"bind", "gone"}

\* Two sessions never serve the same display, even when both found the same stale lock
\* file and one removed the fresh lock of the other: the abstract socket decides.  And
\* the lock file of a number that a session keeps, also after its server ended, is its
\* own, so that no other session takes the number, unless there was that race.
OneHolder ==
  /\ \A p \in Sessions : Serves(p) => abstract[at[p].n] = p
  /\ \A p \in Sessions : Keeps(p) =>
       at[p].n \in raced \/ (lock[at[p].n].by = p /\ ~lock[at[p].n].dead)
  /\ \A p, q \in Sessions : p # q /\ at[p].n = at[q].n =>
       /\ ~(Serves(p) /\ Serves(q))
       /\ Keeps(p) /\ Keeps(q) => at[p].n \in raced
=============================================================================
