------------------------------- MODULE Admission -------------------------------
(***************************************************************************)
(* What both relays of evade-proxy promise about load, whatever happens to *)
(* a job once it is admitted: never more than Max jobs at once, a job is   *)
(* turned away only when all Max places are taken, an admitted job ends    *)
(* once, and no job is forgotten.  A job is a UDP query or a TCP client    *)
(* connection; Max is EVADE_MAX_INFLIGHT_UDP or _TCP.                      *)
(***************************************************************************)
EXTENDS Integers, FiniteSets

CONSTANTS Jobs, Max

VARIABLE status    \* what became of each job

Status == {"new", "inflight", "finished", "dropped"}

Inflight == {j \in Jobs : status[j] = "inflight"}

Init == status = [j \in Jobs |-> "new"]

Admit(j) ==
  /\ status[j] = "new" /\ Cardinality(Inflight) < Max
  /\ status' = [status EXCEPT ![j] = "inflight"]

TurnAway(j) ==
  /\ status[j] = "new" /\ Cardinality(Inflight) = Max
  /\ status' = [status EXCEPT ![j] = "dropped"]

Finish(j) ==
  /\ status[j] = "inflight"
  /\ status' = [status EXCEPT ![j] = "finished"]

Next == \E j \in Jobs : Admit(j) \/ TurnAway(j) \/ Finish(j)

Spec == Init /\ [][Next]_status

Fairness == \A j \in Jobs : WF_status(Finish(j))

LiveSpec == Spec /\ Fairness
===============================================================================
