------------------------------- MODULE JobStates -------------------------------
(***************************************************************************)
(* The statuses of a workflow job and the transitions that UpdateJob        *)
(* allows (workflow/state_machine.go).  A status with no row in the table,  *)
(* such as "sleeping", can be neither left nor entered through UpdateJob.    *)
(***************************************************************************)

JobStatus == {"queued", "running", "paused", "done", "failed", "sleeping"}

ValidWorkflowJobTransitions ==
    [queued  |-> {"running", "failed"},
     running |-> {"paused", "done", "failed", "queued"},
     paused  |-> {"running", "queued", "failed", "done"},
     done    |-> {},
     failed  |-> {}]

ValidJobTransition(from, to) ==
    \/ from = to
    \/ /\ from \in DOMAIN ValidWorkflowJobTransitions
       /\ to \in ValidWorkflowJobTransitions[from]

================================================================================
