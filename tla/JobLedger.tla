----------------------------- MODULE JobLedger ------------------------------
(***************************************************************************)
(* What the pipeline promises about a job, with no broker, no worker and   *)
(* no transaction in sight.  A job's ticket is opened once, by the upload  *)
(* that creates it, and closed once: "done" when its result is on record,  *)
(* "dropped" when the system gave it up.  Its entry in the books only      *)
(* moves forward, and the result of an inference is entered together with  *)
(* the status that announces it.                                           *)
(*                                                                         *)
(* What it does not promise: that a ticket is done rather than dropped, or *)
(* that a job has one result; a redelivered message is recorded again, and *)
(* a worker cut off from the broker may record after the ticket is closed. *)
(***************************************************************************)
EXTENDS Naturals

CONSTANT Jobs

VARIABLES ticket, entry, results

vars == <<ticket, entry, results>>

Init ==
  /\ ticket = [j \in Jobs |-> "none"]
  /\ entry = [j \in Jobs |-> "absent"]
  /\ results = [j \in Jobs |-> 0]

(* An upload is answered: its job is in the queue, or already lost.        *)
Submit(j) ==
  /\ ticket[j] = "none"
  /\ \E t \in {"open", "dropped"} : ticket' = [ticket EXCEPT ![j] = t]
  /\ UNCHANGED <<entry, results>>

OpenEntry(j) ==
  /\ ticket[j] # "none" /\ entry[j] = "absent"
  /\ entry' = [entry EXCEPT ![j] = "pending"]
  /\ UNCHANGED <<ticket, results>>

Record(j) ==
  /\ entry[j] # "absent"
  /\ entry' = [entry EXCEPT ![j] = "completed"]
  /\ results' = [results EXCEPT ![j] = @ + 1]
  /\ UNCHANGED ticket

Complete(j) ==
  /\ ticket[j] = "open" /\ entry[j] = "completed"
  /\ ticket' = [ticket EXCEPT ![j] = "done"]
  /\ UNCHANGED <<entry, results>>

(* Any number of open tickets may be given up at once (a broker restart).  *)
Drop(S) ==
  /\ \A j \in S : ticket[j] = "open"
  /\ ticket' = [j \in Jobs |-> IF j \in S THEN "dropped" ELSE ticket[j]]
  /\ UNCHANGED <<entry, results>>

Next ==
  \/ \E j \in Jobs : Submit(j) \/ OpenEntry(j) \/ Record(j) \/ Complete(j)
  \/ \E S \in SUBSET Jobs : Drop(S)

Spec == Init /\ [][Next]_vars
=============================================================================
