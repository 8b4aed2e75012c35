----------------------------- MODULE LeasedWork -----------------------------
(***************************************************************************)
(* What the organizer promises about a captured item, whatever its leases, *)
(* conflicts and crashes: at-least-once execution, a bounded number of      *)
(* tries per life, and one committed effect (ADR-0005).  An item waits, is *)
(* leased, and is then done, waiting again, or dead until its owner        *)
(* submits it again; the owner may withdraw it at any time.                *)
(***************************************************************************)
EXTENDS Naturals

CONSTANTS Items, MaxTries

VARIABLES phase, tries, effects

workVars == <<phase, tries, effects>>

WorkInit ==
  /\ phase = [i \in Items |-> "new"]
  /\ tries = [i \in Items |-> 0]
  /\ effects = [i \in Items |-> 0]

Submit(i) ==
  /\ phase[i] = "new"
  /\ phase' = [phase EXCEPT ![i] = "waiting"]
  /\ UNCHANGED <<tries, effects>>

Lease(i) ==
  /\ phase[i] = "waiting" /\ tries[i] < MaxTries
  /\ phase' = [phase EXCEPT ![i] = "leased"]
  /\ tries' = [tries EXCEPT ![i] = @ + 1]
  /\ UNCHANGED effects

\* The only step with an effect, and only the lease holder takes it.
Complete(i) ==
  /\ phase[i] = "leased" /\ effects[i] = 0
  /\ phase' = [phase EXCEPT ![i] = "done"]
  /\ effects' = [effects EXCEPT ![i] = 1]
  /\ UNCHANGED tries

\* The lease is lost or given back; a spent budget does not wait again.
Release(i) ==
  /\ phase[i] = "leased"
  /\ \/ tries[i] < MaxTries /\ phase' = [phase EXCEPT ![i] = "waiting"]
     \/ phase' = [phase EXCEPT ![i] = "dead"]
  /\ UNCHANGED <<tries, effects>>

Resubmit(i) ==
  /\ phase[i] = "dead" /\ effects[i] = 0
  /\ phase' = [phase EXCEPT ![i] = "waiting"]
  /\ tries' = [tries EXCEPT ![i] = 0]
  /\ UNCHANGED effects

Withdraw(i) ==
  /\ phase[i] \notin {"new", "withdrawn"}
  /\ phase' = [phase EXCEPT ![i] = "withdrawn"]
  /\ UNCHANGED <<tries, effects>>

WorkStep(i) ==
  Submit(i) \/ Lease(i) \/ Complete(i) \/ Release(i) \/ Resubmit(i) \/ Withdraw(i)
WorkNext == \E i \in Items : WorkStep(i)

WorkSpec == WorkInit /\ [][WorkNext]_workVars

=============================================================================
