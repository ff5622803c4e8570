---------------------------- MODULE MachineScale ----------------------------
(***************************************************************************)
(* The two operations of AKSMachineClient, create_machine_agentpool and    *)
(* scale_machine, from the command line to the recorded outcome: submit    *)
(* the PUTs (MachineSubmit), wait for the agentpool, wait for the nodes    *)
(* (MachineReadiness), record one operation (crud/operation.py).           *)
(***************************************************************************)
EXTENDS MachineSubmit, MachineReadiness

CONSTANTS
    PoolTimeout,    \* timeout of _wait_for_agentpool_provisioning
    PoolPoll        \* _POLL_INTERVAL_SECONDS

ASSUME PoolAssumption == PoolTimeout \in Nat /\ PoolPoll \in Nat \ {0}

VARIABLES
    pc,             \* step of the operation
    poolClock,      \* time since the agentpool wait began
    poolWakeAt,     \* end of its current sleep; 0 when awake
    agentpool_ok,   \* what the agentpool wait returned
    outcome         \* "none", "success", or the error the record carries

opVars == <<pc, poolClock, poolWakeAt, agentpool_ok, outcome>>
vars   == <<opVars, envVars, submitVars, watchVars>>

Steps == {"put", "snapshot", "submit", "pool", "readiness", "finish", "done"}

Errors == {"PutFailed", "ValueError", "PartialLanding", "PoolGet",
           "PoolNotSucceeded", "MachineProvisioningFailed", "P100Missed",
           "ClusterData"}

Scaling == req.cmd = "scale-machine"

TypeOK ==
    /\ EnvTypeOK /\ SubmitTypeOK /\ ReadinessTypeOK
    /\ pc \in Steps
    /\ poolClock \in 0 .. PoolTimeout
    /\ poolWakeAt \in Nat
    /\ agentpool_ok \in BOOLEAN
    /\ outcome \in {"none", "success"} \cup Errors

Init ==
    /\ EnvInit /\ SubmitInit /\ ReadinessInitAt({0})
    /\ pc = IF Scaling THEN "snapshot" ELSE "put"
    /\ poolClock = 0 /\ poolWakeAt = 0
    /\ agentpool_ok = FALSE
    /\ outcome = "none"

(***************************************************************************)
(* OperationContext.__exit__: the record succeeds iff no exception left    *)
(* the block.                                                              *)
(***************************************************************************)
Record(result) ==
    /\ pc' = "done"
    /\ outcome' = result

---------------------------------------------------------------------------
(* create_machine_agentpool *)

PutAgentpool ==
    /\ pc = "put"
    /\ \/ /\ pc' = "pool"
          /\ pool' = "Updating"
          /\ UNCHANGED outcome
       \/ /\ Record("PutFailed")
          /\ UNCHANGED pool
    /\ UNCHANGED <<poolClock, poolWakeAt, agentpool_ok, submitVars, watchVars,
                   req, existing, arm, late, oldReady, newReady>>

---------------------------------------------------------------------------
(* scale_machine *)

(***************************************************************************)
(* len(get_ready_nodes(agentpool)) before any PUT; 0 when the list fails.  *)
(***************************************************************************)
SnapshotBaseline ==
    /\ pc = "snapshot"
    /\ baseline' \in {oldReady, 0}
    /\ pc' = "submit"
    /\ UNCHANGED <<poolClock, poolWakeAt, agentpool_ok, outcome, envVars,
                   submitVars, watch, clock, wakeAt, checkAt, counting, ready,
                   listing, readiness_times, failed_machines, histVars>>

SubmitStep ==
    /\ pc = "submit"
    /\ SubmitNext
    /\ UNCHANGED <<opVars, watchVars>>

(* Mutant: no check that every machine landed.                             *)
SubmitReturnsPartial ==
    /\ pc = "submit"
    /\ AllReturned
    /\ \/ Rejected /\ Record("ValueError")
       \/ ~Rejected /\ pc' = "pool" /\ UNCHANGED outcome
    /\ UNCHANGED <<poolClock, poolWakeAt, agentpool_ok, envVars, submitVars,
                   watchVars>>

(***************************************************************************)
(* Every future has returned: a batch that cannot be sliced never had any  *)
(* and raises ValueError; fewer machines than requested raise as well.     *)
(***************************************************************************)
SubmitReturns ==
    /\ pc = "submit"
    /\ AllReturned
    /\ \/ /\ Rejected
          /\ Record("ValueError")
       \/ /\ ~Rejected
          /\ Cardinality(successful) # req.count
          /\ Record("PartialLanding")
       \/ /\ ~Rejected
          /\ Cardinality(successful) = req.count
          /\ pc' = "pool"
          /\ UNCHANGED outcome
    /\ UNCHANGED <<poolClock, poolWakeAt, agentpool_ok, envVars, submitVars,
                   watchVars>>

---------------------------------------------------------------------------
(* _wait_for_agentpool_provisioning, shared by both operations *)

(***************************************************************************)
(* What follows the wait: scale_machine waits for the nodes in any case,   *)
(* create_machine_agentpool raises unless it returned True.                *)
(***************************************************************************)
PoolWaitReturns(ok) ==
    /\ agentpool_ok' = ok
    /\ poolClock' = 0 /\ poolWakeAt' = 0
    /\ IF Scaling
       THEN pc' = "readiness" /\ UNCHANGED outcome
       ELSE IF ok THEN pc' = "finish" /\ UNCHANGED outcome
                  ELSE Record("PoolNotSucceeded")

(***************************************************************************)
(* One GET.  A 4xx, and an exception of the request itself, propagate; any *)
(* other status but 200, and a body that is not JSON, are retried; a 200   *)
(* without provisioningState is a failure.                                 *)
(***************************************************************************)
PoolSleeps ==
    /\ poolWakeAt' = poolClock + PoolPoll
    /\ UNCHANGED <<pc, poolClock, agentpool_ok, outcome>>

PoolGet ==
    /\ pc = "pool"
    /\ poolWakeAt <= poolClock
    /\ poolClock < PoolTimeout
    /\ \/ Record("PoolGet") /\ UNCHANGED <<poolClock, poolWakeAt, agentpool_ok>>
       \/ PoolSleeps
       \/ pool = "Succeeded" /\ PoolWaitReturns(TRUE)
       \/ pool = "Failed" /\ PoolWaitReturns(FALSE)
       \/ PoolWaitReturns(FALSE)
    /\ UNCHANGED <<envVars, submitVars, watchVars>>

PoolTimesOut ==
    /\ pc = "pool"
    /\ poolClock = PoolTimeout
    /\ PoolWaitReturns(FALSE)
    /\ UNCHANGED <<envVars, submitVars, watchVars>>

PoolTick ==
    /\ pc = "pool"
    /\ poolClock < PoolTimeout
    /\ poolClock' = poolClock + 1
    /\ UNCHANGED <<pc, poolWakeAt, agentpool_ok, outcome, envVars, submitVars,
                   watchVars>>

---------------------------------------------------------------------------
(* the readiness wait and the end of the operation *)

ReadinessStep ==
    /\ pc = "readiness"
    /\ WatchStep
    /\ UNCHANGED <<opVars, submitVars>>

ReadinessTick ==
    /\ pc = "readiness"
    /\ WatchTick
    /\ UNCHANGED <<opVars, submitVars>>

(***************************************************************************)
(* The wait returns an envelope or raises MachineProvisioningFailed, whose *)
(* envelope and failed machines go into the metadata.                      *)
(***************************************************************************)
ReadinessReturns ==
    /\ pc = "readiness"
    /\ watch \in {"returned", "raised"}
    /\ pc' = "finish"
    /\ UNCHANGED <<poolClock, poolWakeAt, agentpool_ok, outcome, envVars,
                   submitVars, watchVars>>

(* Mutant: P100 does not decide the record.                                *)
VerdictIgnoresP100 ==
    CASE ~Scaling           -> "success"
      [] watch = "raised"   -> "MachineProvisioningFailed"
      [] watch = "returned" /\ ~agentpool_ok -> "PoolNotSucceeded"
      [] OTHER              -> "success"

(***************************************************************************)
(* get_cluster_data may raise and then decides the record; after it come   *)
(* the readiness failure, the agentpool and P100, in this order.           *)
(***************************************************************************)
Verdict ==
    CASE ~Scaling           -> "success"
      [] watch = "raised"   -> "MachineProvisioningFailed"
      [] watch = "returned" /\ ~agentpool_ok          -> "PoolNotSucceeded"
      [] watch = "returned" /\ agentpool_ok /\ ~Hit(100) -> "P100Missed"
      [] OTHER              -> "success"

Finish ==
    /\ pc = "finish"
    /\ Record("ClusterData") \/ Record(Verdict)
    /\ UNCHANGED <<poolClock, poolWakeAt, agentpool_ok, envVars, submitVars,
                   watchVars>>

(***************************************************************************)
(* Only what a later step can read is interleaved: nodes are counted by    *)
(* the snapshot (Init lets any number of old ones be Ready) and by the     *)
(* readiness wait, the agentpool is read until its wait is over.           *)
(***************************************************************************)
Environment ==
    /\ \/ pc \in {"submit", "pool"} /\ ProvisioningEnv
       \/ pc = "readiness" /\ ReadinessEnv
    /\ UNCHANGED <<opVars, submitVars, watchVars>>

Next ==
    \/ PutAgentpool \/ SnapshotBaseline \/ SubmitStep \/ SubmitReturns
    \/ PoolGet \/ PoolTimesOut \/ PoolTick
    \/ ReadinessStep \/ ReadinessTick \/ ReadinessReturns \/ Finish
    \/ Environment

Spec == Init /\ [][Next]_vars

(***************************************************************************)
(* The client's threads run, its clock advances and a call of ARM comes    *)
(* back: make_request passes a timeout.  The list of nodes has none, so    *)
(* SnapshotBaseline and CountReady are not fair.  Nothing is assumed of    *)
(* what ARM answers or of the nodes.                                       *)
(***************************************************************************)
Fairness ==
    /\ WF_vars(PutAgentpool)
    /\ WF_vars(SubmitStep) /\ WF_vars(SubmitReturns)
    /\ WF_vars(PoolGet \/ PoolTimesOut) /\ WF_vars(PoolTick)
    /\ WF_vars(ReadinessStep /\ BoundedStep) /\ WF_vars(ReadinessTick)
    /\ WF_vars(ReadinessReturns) /\ WF_vars(Finish)

FairSpec == Spec /\ Fairness

---------------------------------------------------------------------------
(* Properties *)

(***************************************************************************)
(* A scale-machine recorded as successful created every machine it names:  *)
(* had an earlier run left one of the names behind, the PUT would have     *)
(* been a no-op and P100 out of reach.                                     *)
(***************************************************************************)
SuccessMeansAllNew ==
    (outcome = "success" /\ Scaling /\ baseline = OldNodes) =>
        hitSet[100] = Names /\ existing = {}

(***************************************************************************)
(* A wait never starts while a PUT may still be applied: when the          *)
(* agentpool is polled or the nodes are counted, no worker is running and  *)
(* no request given up on is outstanding, so nothing but the expected      *)
(* Machines is provisioning.                                               *)
(***************************************************************************)
NothingOutstanding ==
    (Scaling /\ pc \in {"pool", "readiness", "finish"}) =>
        late = {} /\ AllReturned

(***************************************************************************)
(* A list of nodes is outstanding: the snapshot's, or that of a round of   *)
(* the readiness wait.                                                     *)
(***************************************************************************)
NodeListPending ==
    \/ pc = "snapshot"
    \/ pc = "readiness" /\ watch \in {"count", "check"} /\ counting = "running"

(***************************************************************************)
(* Every operation ends with a record, whatever ARM and the nodes do, or   *)
(* hangs in one list_node that never answers: that call has no timeout,    *)
(* and no deadline of the wait interrupts it.                              *)
(***************************************************************************)
EndsOrNodeListHangs == <>(pc = "done") \/ <>[]NodeListPending

---------------------------------------------------------------------------
(***************************************************************************)
(* What each command is measured for.                                      *)
(***************************************************************************)
Goal ==
    IF Scaling
    THEN /\ successful = Names
         /\ agentpool_ok
         /\ watch = "returned" /\ AllHit
    ELSE agentpool_ok

RecordStatus ==
    CASE outcome = "none"    -> "open"
      [] outcome = "success" -> "success"
      [] OTHER               -> "failure"

Measured == INSTANCE MeasuredOperation WITH goal <- Goal, record <- RecordStatus

(***************************************************************************)
(* create-machine and scale-machine implement MeasuredOperation: one       *)
(* record each, a success only if the goal holds when it is written.       *)
(***************************************************************************)
ImplementsMeasured == Measured!Spec

===========================================================================
