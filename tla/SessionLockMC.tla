--------------------------- MODULE SessionLockMC ---------------------------
(***************************************************************************)
(* SessionLock twice: one client on a session of several outputs, and      *)
(* several clients that contend for a session of one output.               *)
(***************************************************************************)
EXTENDS SessionLock

VARIABLE part

Alone == CHOOSE c \in Clients : TRUE
Only == CHOOSE l \in Locks : TRUE
One == CHOOSE o \in Outputs : TRUE

MCInit ==
  /\ part \in {"outputs", "clients"}
  /\ Init
  /\ IF part = "outputs" THEN \A o \in Outputs : size[o] = 1
     ELSE \A o \in Outputs : (size[o] = 0) = (o # One)

\* What stays out of the part under way.
Within ==
  IF part = "outputs"
  THEN /\ \A o \in Outputs : size'[o] <= 1
       /\ \A l \in Locks : IF l = Only THEN lock'[l].client \in {None, Alone}
                           ELSE lock'[l].state = "free"
  ELSE \A o \in Outputs : o # One => size'[o] = 0

MCNext == Next /\ Within /\ UNCHANGED part
MCSpec == /\ MCInit /\ [][MCNext]_<<vars, part>>
          /\ WF_vars(TearDown) /\ \A o \in Outputs : SF_vars(PageFlip(o))
=============================================================================
