----------------------- MODULE OrganizerJobRefinement -----------------------
(* The store implements LeasedWork: the refinement mapping.                *)
EXTENDS OrganizerJob

\* The phase the owner can observe.
Phase(j) ==
  IF capture[j] = "deleted" THEN "withdrawn"
  ELSE CASE job[j].state = "absent" -> "new"
         [] job[j].state \in {"created", "awaiting_retry"} -> "waiting"
         [] job[j].state = "running" -> "leased"
         [] job[j].state = "succeeded" -> "done"
         [] OTHER -> "dead"

Work == INSTANCE LeasedWork WITH
  Items <- Jobs, MaxTries <- MaxAttempts,
  phase <- [j \in Jobs |-> Phase(j)],
  tries <- [j \in Jobs |-> job[j].attempt],
  effects <- published

\* Every behaviour of the store is one of the abstract leased work: one effect,
\* from a lease, within the tries of a life, never after the owner withdrew.
ImplementsLeasedWork == Work!WorkSpec
=============================================================================
