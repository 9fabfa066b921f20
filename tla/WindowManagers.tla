---------------------------- MODULE WindowManagers ----------------------------
(***************************************************************************)
(* WindowManagerProtocol: the programs that watch the compositor's windows *)
(* and the one that decides in its place (window_manager_protocol.cpp      *)
(* 95-128, 411-445, 475-525, main.cpp 275-290).  Notices of changes are    *)
(* gathered by one idle; a manager reads the state by a request of its     *)
(* own, so changes happen between the notice, the request and the answer.  *)
(* Transactions are in RuntimeConfiguration, the effect of actions and of  *)
(* the policy on windows in Desktop, the owner's bindings in Keyboards;    *)
(* what a request is answered besides, and input events to the owner, keep *)
(* nothing.                                                                *)
(*                                                                         *)
(* What a manager does with its events is external: it asks for the state  *)
(* when it heard of a change.                                              *)
(***************************************************************************)
EXTENDS Naturals, Sequences

CONSTANTS
  Managers, None, \* zwwm_window_manager_v1 objects
  Kinds,          \* bits of the change bitfield
  MaxSerial,      \* bound: serial
  MaxInFlight     \* bound: events under way to one manager

VARIABLES
  managers,   \* managers: bound objects
  policy,     \* [owner |-> policy_owner, external |-> Observer::external_policy]
  notice,     \* [serial, changes, pending] as in Impl
  asked,      \* managers whose get_state is under way
  down,       \* "changed" and "state" events under way, by manager
  heard,      \* the newest serial a manager knows of, 0 before it asked for the state
  got,        \* the changes a manager was told of since it last asked
  since       \* history: the kinds of changes made since its last answer was sent

managerVars == <<managers, policy, notice, asked, down, heard, got, since>>

Nobody == [owner |-> None, external |-> FALSE]
Init ==
  /\ managers = {} /\ policy = Nobody /\ asked = {}
  /\ notice = [serial |-> 1, changes |-> {}, pending |-> FALSE]
  /\ down = [m \in Managers |-> <<>>] /\ heard = [m \in Managers |-> 0]
  /\ got = [m \in Managers |-> {}] /\ since = [m \in Managers |-> {}]

Msg(op, serial, kinds) == [op |-> op, serial |-> serial, kinds |-> kinds]
Room(m) == Len(down[m]) < MaxInFlight

----------------------------------------------------------------------------
(* The compositor. *)

\* emit(): for every event of the compositor that has a bit
Emit(k) ==
  [serial |-> notice.serial + 1, changes |-> notice.changes \cup {k}, pending |-> TRUE]
Change(k) ==
  /\ notice.serial < MaxSerial /\ notice' = Emit(k)
  /\ since' = [m \in Managers |-> IF m \in managers THEN since[m] \cup {k} ELSE {}]
  /\ UNCHANGED <<managers, policy, asked, down, heard, got>>

\* The idle of emit(): the bits are taken, and every manager is told the newest serial.
Notify ==
  /\ notice.pending /\ \A m \in managers : Room(m)
  /\ notice' = [notice EXCEPT !.changes = {}, !.pending = FALSE]
  /\ down' = [m \in Managers |->
                IF m \in managers
                THEN Append(down[m], Msg("changed", notice.serial, notice.changes))
                ELSE down[m]]
  /\ UNCHANGED <<managers, policy, asked, heard, got, since>>

----------------------------------------------------------------------------
(* Managers: their requests and their end. *)

\* The bind handler: it is told the configuration's revision, and changes from now on.
Bind(m) ==
  /\ m \notin managers /\ managers' = managers \cup {m}
  /\ UNCHANGED <<policy, notice, asked, down, heard, got, since>>

\* release_policy(), by request and from the object's destroy handler
Release(m) == IF policy.owner = m THEN Nobody ELSE policy
ReleasePolicy(m) ==
  /\ policy' = Release(m)
  /\ UNCHANGED <<managers, notice, asked, down, heard, got, since>>
\* claim_policy(): for nobody else's
Claim(m) ==
  /\ policy.owner \in {None, m} /\ policy' = [owner |-> m, external |-> TRUE]
  /\ UNCHANGED <<managers, notice, asked, down, heard, got, since>>
\* The request destroy, or the end of its client
Gone(m) ==
  /\ managers' = managers \ {m} /\ policy' = Release(m) /\ asked' = asked \ {m}
  /\ down' = [down EXCEPT ![m] = <<>>] /\ heard' = [heard EXCEPT ![m] = 0]
  /\ got' = [got EXCEPT ![m] = {}] /\ since' = [since EXCEPT ![m] = {}]
  /\ UNCHANGED notice

AskState(m) ==
  /\ m \notin asked /\ (heard[m] = 0 \/ got[m] # {})
  /\ asked' = asked \cup {m} /\ got' = [got EXCEPT ![m] = {}]
  /\ heard' = IF heard[m] = 0 THEN [heard EXCEPT ![m] = 1] ELSE heard
  /\ UNCHANGED <<managers, policy, notice, down, since>>
\* get_state(): the windows, tags and outputs of now, and the serial
GetState(m) ==
  /\ m \in asked /\ Room(m) /\ asked' = asked \ {m}
  /\ down' = [down EXCEPT ![m] = Append(@, Msg("state", notice.serial, {}))]
  /\ since' = [since EXCEPT ![m] = {}]
  /\ UNCHANGED <<managers, policy, notice, heard, got>>
Hear(m) ==
  /\ down[m] # <<>> /\ down' = [down EXCEPT ![m] = Tail(@)]
  /\ LET e == Head(down[m])
     IN /\ heard' = IF heard[m] # 0 THEN [heard EXCEPT ![m] = e.serial] ELSE heard
        /\ got' = [got EXCEPT ![m] = @ \cup e.kinds]
  /\ UNCHANGED <<managers, policy, notice, asked, since>>

Next ==
  \/ Notify \/ \E k \in Kinds : Change(k)
  \/ \E m \in Managers : Bind(m)
  \/ \E m \in managers :
       Gone(m) \/ Claim(m) \/ ReleasePolicy(m) \/ AskState(m) \/ GetState(m) \/ Hear(m)

----------------------------------------------------------------------------
(* Properties. *)

TypeOK ==
  /\ managers \subseteq Managers /\ asked \subseteq managers
  /\ policy \in [owner : Managers \cup {None}, external : BOOLEAN]
  /\ notice \in [serial : 1..MaxSerial, changes : SUBSET Kinds, pending : BOOLEAN]
  /\ heard \in [Managers -> 0..MaxSerial]
  /\ got \in [Managers -> SUBSET Kinds] /\ since \in [Managers -> SUBSET Kinds]
  /\ \A m \in Managers : down[m] \in Seq([op : {"changed", "state"}, serial : 1..MaxSerial,
                                          kinds : SUBSET Kinds])

\* The newest serial that a manager will know when it has read everything.
LastSerial(m) == IF down[m] = <<>> THEN heard[m] ELSE down[m][Len(down[m])].serial
Told(m) == got[m] \cup UNION {down[m][i].kinds : i \in DOMAIN down[m]}
\* A manager that asked for the state once and asks again when it hears of a
\* change never rests on an old one: unless a notice is pending or its question
\* is on the way, the newest serial and every kind of change made since the
\* state it was sent have reached it or are under way (get_state, emit).
NoChangeLost ==
  \A m \in managers :
    heard[m] # 0 /\ m \notin asked /\ ~notice.pending =>
      LastSerial(m) = notice.serial /\ since[m] \subseteq Told(m)
\* The compositor leaves decisions to a program exactly while there is one: the
\* owner is bound, and its release or death gives the policy back.
PolicyHasOwner ==
  /\ policy.external = (policy.owner # None)
  /\ policy.owner # None => policy.owner \in managers
\* What a manager reads never goes back in time: an answer is not overtaken by
\* the notice of an older change.
SerialsGrow ==
  \A m \in managers : \A i, j \in DOMAIN down[m] :
    i < j => heard[m] <= down[m][i].serial /\ down[m][i].serial <= down[m][j].serial
=============================================================================
