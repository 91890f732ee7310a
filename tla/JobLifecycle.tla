---------------------------- MODULE JobLifecycle ----------------------------
(***************************************************************************)
(* What the job store promises of ONE durable job, whatever its workers,   *)
(* leases and requests do: the life cycle of docs/phase-5-spec.md:68-74,   *)
(* with every step that the code takes.  A job waits, is worked on by one  *)
(* attempt at a time, consumes one unit of its budget for each attempt,    *)
(* and ends in exactly one of three ways; the result of a completed job is *)
(* that of its last attempt.  DurableJobs implements this module for every *)
(* job it stores.                                                          *)
(***************************************************************************)
EXTENDS Naturals

CONSTANT
  Budget        \* max_attempts: how many times the job may be claimed

VARIABLES
  phase,        \* where the job stands; "None" before it is stored
  tries,        \* attempts begun so far
  winner        \* the attempt whose result was accepted, 0 while there is none

vars == <<phase, tries, winner>>

Terminal == {"Completed", "Failed", "Cancelled"}

Init ==
  /\ phase = "None"
  /\ tries = 0
  /\ winner = 0

Submit ==
  /\ phase = "None"
  /\ phase' = "Queued"
  /\ UNCHANGED <<tries, winner>>

(* An attempt begins: the first one, a retry, or one that takes over from  *)
(* an attempt that was abandoned.                                          *)
Begin ==
  /\ phase \in {"Queued", "Running"}
  /\ tries < Budget
  /\ phase' = "Running"
  /\ tries' = tries + 1
  /\ UNCHANGED winner

(* A failure that may be tried again, which needs an attempt in hand.      *)
Retry ==
  /\ phase = "Running"
  /\ tries < Budget
  /\ phase' = "Queued"
  /\ UNCHANGED <<tries, winner>>

Succeed ==
  /\ phase = "Running"
  /\ phase' = "Completed"
  /\ winner' = tries
  /\ UNCHANGED tries

GiveUp ==
  /\ phase = "Running"
  /\ phase' = "Failed"
  /\ UNCHANGED <<tries, winner>>

(* A job is withdrawn only while nobody works on it.                       *)
Withdraw ==
  /\ phase = "Queued"
  /\ phase' = "Cancelled"
  /\ UNCHANGED <<tries, winner>>

Next == Submit \/ Begin \/ Retry \/ Succeed \/ GiveUp \/ Withdraw

Spec == Init /\ [][Next]_vars
=============================================================================
