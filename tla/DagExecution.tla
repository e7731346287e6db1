----------------------------- MODULE DagExecution -----------------------------
(***************************************************************************)
(* What the workflow engine promises its owner, without batches, goroutines *)
(* or channels: a call works on one plan; a step is taken up only when all  *)
(* the steps it depends on are done; at most Limit steps are in hand at a   *)
(* time; a finished step is finished for the rest of the call; nothing new  *)
(* is taken up after a step has stopped; and a call is reported complete    *)
(* only when the whole plan is done.                                        *)
(***************************************************************************)
EXTENDS Integers, FiniteSets

CONSTANTS Steps, Plans, Limit

Phase == {"todo", "doing", "done", "stopped"}

VARIABLES
    plan,     \* the plan of the current or last call
    phase,    \* how far each step is
    open,     \* a call is in progress
    verdict   \* "complete" or "aborted": how the last call ended

absVars == <<plan, phase, open, verdict>>

Doing(ph) == {s \in Steps : ph[s] = "doing"}

AbsInit ==
    /\ plan \in Plans
    /\ phase = [s \in Steps |-> "todo"]
    /\ open = FALSE
    /\ verdict = "complete"

\* A new call: steps done earlier may be taken over, nothing is in hand.
Begin ==
    /\ ~open
    /\ plan' \in Plans
    /\ phase' \in [Steps -> {"todo", "done"}]
    /\ \/ open' = TRUE /\ verdict' = verdict
       \/ open' = FALSE /\ verdict' = "aborted"

\* The call goes on, or is cut short together with the step's own change.
GoOnOrAbort ==
    \/ open' = TRUE /\ verdict' = verdict
    \/ open' = FALSE /\ verdict' = "aborted"

TakeUp(s) ==
    /\ open
    /\ s \in plan.steps
    /\ phase[s] = "todo"
    /\ \A t \in plan.dependsOn[s] : phase[t] = "done"
    /\ Cardinality(Doing(phase)) < Limit
    /\ \A t \in Steps : phase[t] # "stopped"
    /\ phase' = [phase EXCEPT ![s] = "doing"]
    /\ plan' = plan
    /\ GoOnOrAbort

Settle(s) ==
    /\ open
    /\ phase[s] = "doing"
    /\ \E p \in {"done", "stopped"} : phase' = [phase EXCEPT ![s] = p]
    /\ plan' = plan
    /\ GoOnOrAbort

Close ==
    /\ open
    /\ open' = FALSE
    /\ \/ /\ verdict' = "complete"
          /\ \A s \in plan.steps : phase[s] = "done"
       \/ /\ verdict' = "aborted"
          /\ \E s \in plan.steps : phase[s] = "stopped"
    /\ UNCHANGED <<plan, phase>>

AbsNext == Begin \/ (\E s \in Steps : TakeUp(s) \/ Settle(s)) \/ Close

AbsSpec == AbsInit /\ [][AbsNext]_absVars

===============================================================================
