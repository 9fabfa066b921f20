---------------------------- MODULE WireChannel ----------------------------
(***************************************************************************)
(* What one direction of a zwayland connection promises: the messages that *)
(* were queued are handled in order, each once and each with exactly the   *)
(* descriptors it was queued with, until one of the two ends gives up.     *)
(* Descriptors are numbered in the order in which they are queued.         *)
(***************************************************************************)
EXTENDS Naturals, Sequences

CONSTANT Counts   \* the descriptor counts a message may have

VARIABLES
  fdEnd,      \* fdEnd[i]: number of descriptors of the messages 1..i
  handled,    \* handled[i]: the descriptors message i was handled with
  open        \* FALSE once an end has given up

channelVars == <<fdEnd, handled, open>>

FdsBefore(i) == IF i = 1 THEN 0 ELSE fdEnd[i - 1]

Init == fdEnd = <<>> /\ handled = <<>> /\ open = TRUE

Send == \E n \in Counts :
  /\ fdEnd' = Append(fdEnd, FdsBefore(Len(fdEnd) + 1) + n)
  /\ UNCHANGED <<handled, open>>

Handle == LET i == Len(handled) + 1 IN
  /\ i <= Len(fdEnd)
  /\ handled' = Append(handled, (FdsBefore(i) + 1) .. fdEnd[i])
  /\ UNCHANGED fdEnd
  /\ open' \in {open, FALSE}      \* the handler may refuse the message

GiveUp == open /\ open' = FALSE /\ UNCHANGED <<fdEnd, handled>>

Next == Send \/ Handle \/ GiveUp

Spec == Init /\ [][Next]_channelVars
=============================================================================
