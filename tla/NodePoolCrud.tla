---------------------------- MODULE NodePoolCrud ----------------------------
(***************************************************************************)
(* One process of crud/main.py that runs a node pool command on Azure:     *)
(* main() installs the GPU device plugin when it has to, and calls         *)
(* NodePoolCRUD.create_node_pool, scale_node_pool, delete_node_pool or     *)
(* all(), which goes through the four operations in turn.                  *)
(***************************************************************************)
EXTENDS AksNodePool

VARIABLES
    phase,      \* the operation main() or all() is at
    results,    \* results of all(): one per operation; FALSE until it returns
    plugin,     \* the install_gpu_plugin operation: is it valid, what is recorded
    exit_code,  \* what main() computes
    status      \* what the process exits with

crudVars == <<phase, results, plugin, exit_code, status>>
vars     == <<crudVars, poolVars>>

Phases == {"create", "scale_up", "scale_down", "delete"}

TypeOK ==
    /\ ProvTypeOK /\ CallTypeOK
    /\ phase \in Phases \cup {"start", "done"}
    /\ results \in [Phases -> BOOLEAN]
    /\ plugin \in [valid: BOOLEAN, recorded: {"none", "success", "failure"}]
    /\ exit_code \in {0, 1} /\ status \in {0, 1}

Init ==
    /\ ProvInit /\ CallInit
    /\ phase = "start"
    /\ results = [p \in Phases |-> FALSE]
    /\ plugin = [valid |-> TRUE, recorded |-> "none"]
    /\ exit_code = 0 /\ status = 0

(***************************************************************************)
(* args.func: the first operation of the command, as an AKSClient call.    *)
(***************************************************************************)
Enter(p) ==
    /\ phase' = p
    /\ pc' = CASE p \in {"scale_up", "scale_down"} -> "scale" [] OTHER -> p
    /\ result' = "none"
    /\ UNCHANGED <<args, kind, from, plan, records, provVars>>

FirstPhase ==
    CASE args.cmd \in {"create", "all"} -> "create"
      [] args.cmd = "scale"             -> "scale_up"
      [] args.cmd = "delete"            -> "delete"

(***************************************************************************)
(* main() up to the command.  A client that cannot be made, and a device   *)
(* plugin that cannot be installed, end the process; a plugin that cannot  *)
(* be verified sets op.success to False, which Operation.end overwrites    *)
(* when the context is left.                                               *)
(***************************************************************************)
NeedsPlugin == args.gpu /\ ~args.managed

Start ==
    /\ phase = "start"
    /\ \/ /\ \/ UNCHANGED plugin
             \/ NeedsPlugin /\ plugin' = [valid |-> FALSE, recorded |-> "failure"]
          /\ phase' = "done" /\ exit_code' = 1 /\ status' = 1
          /\ UNCHANGED <<results, poolVars>>
       \/ /\ IF NeedsPlugin
             THEN \E valid \in BOOLEAN :
                    plugin' = [valid |-> valid, recorded |-> "success"]
             ELSE UNCHANGED plugin
          /\ Enter(FirstPhase)
          /\ UNCHANGED <<results, exit_code, status>>

(***************************************************************************)
(* scale_node_pool's count: target_count, and node_count on the way down.  *)
(***************************************************************************)
Scale ==
    /\ ScaleCall(IF phase = "scale_down" THEN args.node_count ELSE args.target_count)
    /\ UNCHANGED crudVars

(* Mutant: a failed scale-up ends all() as a failed create does.           *)
NextPhaseGivesUp ==
    CASE args.cmd # "all" \/ result = "raised" -> "done"
      [] args.cmd = "all" /\ phase = "create" /\ result # "raised" -> "scale_up"
      [] phase = "scale_up" /\ args.cmd = "all"   /\ result # "raised" -> "scale_down"
      [] phase = "scale_down" /\ result # "raised" -> "delete"
      [] OTHER -> "done"

(***************************************************************************)
(* What follows an operation: nothing for a single command or after a      *)
(* failed create; all() goes on after a failed scaling "to clean up".      *)
(***************************************************************************)
NextPhase ==
    CASE args.cmd # "all" -> "done"
      [] args.cmd = "all" /\ phase = "create" ->
             IF result = "raised" THEN "done" ELSE "scale_up"
      [] args.cmd = "all" /\ phase = "scale_up"   -> "scale_down"
      [] args.cmd = "all" /\ phase = "scale_down" -> "delete"
      [] OTHER -> "done"

(* Mutant: all() reports what its last operation did.                      *)
FailedLast == result = "raised"

(***************************************************************************)
(* The command's verdict: the result of the one operation, or of all().    *)
(***************************************************************************)
Failed ==
    IF args.cmd = "all" THEN \E p \in Phases : ~results'[p] ELSE result = "raised"

(***************************************************************************)
(* NodePoolCRUD turns an exception into False; main() turns False into     *)
(* exit code 1, logs it and falls off its end.                             *)
(***************************************************************************)
Returned ==
    /\ pc = "returned"
    /\ results' = [results EXCEPT ![phase] = (result # "raised")]
    /\ IF NextPhase = "done"
       THEN /\ phase' = "done" /\ pc' = "idle"
            /\ exit_code' = IF Failed THEN 1 ELSE 0
            /\ UNCHANGED <<args, kind, from, plan, result, records, provVars>>
       ELSE Enter(NextPhase) /\ UNCHANGED exit_code
    /\ UNCHANGED <<plugin, status>>

Call == (OperationStep \/ Threads) /\ UNCHANGED crudVars

ServiceStep == phase # "done" /\ Service /\ UNCHANGED <<crudVars, callVars>>

Next == Start \/ Scale \/ Returned \/ Call \/ ServiceStep

Spec == Init /\ [][Next]_vars

(***************************************************************************)
(* The process waits on a call without a timeout: the result of a delete,  *)
(* the az CLI, the list of nodes, or the Kubernetes calls that verify a    *)
(* GPU pool and install its device plugin.                                 *)
(***************************************************************************)
WaitsOnCli == pc = "provision" /\ k8s = "idle" /\ arm \notin {"ok", "raised"}

Unbounded ==
    \/ phase = "start" /\ NeedsPlugin
    \/ pc = "deleting" /\ answer = "running"
    \/ WaitsOnCli
    \/ pc = "provision" /\ k8s = "list"
    \/ pc = "verify" /\ Checks # {}

(***************************************************************************)
(* The threads run while what they call answers.  Each round of the node   *)
(* wait sleeps, so a wait that goes on has its deadline behind it in the   *)
(* end: hence the strong fairness.  Nothing is assumed of the service: a   *)
(* PUT it never finishes runs into the poll limit.                         *)
(***************************************************************************)
Fairness ==
    /\ WF_vars(Start /\ ~NeedsPlugin) /\ WF_vars(Scale) /\ WF_vars(Returned)
    /\ WF_vars(OperationStep /\ ~Unbounded /\ UNCHANGED crudVars)
    /\ WF_vars(ArmStep /\ ~WaitsOnCli /\ UNCHANGED <<callVars, crudVars>>)
    /\ WF_vars(WaitAfterCli /\ UNCHANGED <<callVars, crudVars>>)
    /\ SF_vars(k8s = "sleep" /\ WaitTimesOut /\ UNCHANGED <<callVars, crudVars>>)

FairSpec == Spec /\ Fairness

---------------------------------------------------------------------------
(* Properties *)

Last == records[Len(records)]

(***************************************************************************)
(* A success recorded in this step is true of the service: the pool has    *)
(* the recorded count and no request of this process is under way; after a *)
(* delete there is no pool.                                                *)
(***************************************************************************)
RecordIsTrue ==
    (Len(records') > Len(records) /\ Last'.ok) =>
        IF Last'.kind = "delete" THEN poolCount = NoPool
        ELSE /\ poolCount = Last'.target
             /\ answer = "succeeded" /\ inflight # "put"

(***************************************************************************)
(* A record written as successful (OperationContext.__exit__ without an    *)
(* exception) is true of the service at that moment, although the record   *)
(* is written after two threads were joined and verifications were run.    *)
(***************************************************************************)
RecordsAreTrue == [][RecordIsTrue]_vars

(***************************************************************************)
(* The node readiness that is measured next to the ARM request belongs to  *)
(* that request: when the pool was settled at another count at the start   *)
(* and no Ready node got lost, wait_for_nodes_ready saw its count only     *)
(* after the service had taken the new one, however often the request was  *)
(* retried meanwhile.                                                      *)
(***************************************************************************)
ReadinessIsFresh == (k8s = "ok" /\ calm) => seenApplied

(***************************************************************************)
(* A progressive scaling is a chain: a step starts only after the one      *)
(* before it succeeded, from the count that one reached, moves towards the *)
(* target and by no more than scale_step_size.                             *)
(***************************************************************************)
StepsChain ==
    \A i \in 1 .. Len(records) :
        LET r == records[i]
        IN  /\ r.kind = "scale_up"   => r.target > r.from
            /\ r.kind = "scale_down" => r.target < r.from
            /\ (r.kind \in {"scale_up", "scale_down"} /\ Progressive
                  /\ args.scale_step_size > 0) =>
                    r.target - r.from \in (- args.scale_step_size) .. args.scale_step_size
            /\ (i > 1 /\ records[i - 1].kind = r.kind) =>
                    records[i - 1].ok /\ r.from = records[i - 1].target

(***************************************************************************)
(* scale_node_pool returns the pool or True only when the pool has the     *)
(* requested count, whatever the steps were.                               *)
(***************************************************************************)
ScaledToTarget ==
    (pc = "returned" /\ result # "raised" /\ phase \in {"scale_up", "scale_down"}) =>
        poolCount = IF phase = "scale_down" THEN args.node_count
                                            ELSE args.target_count

(***************************************************************************)
(* all() "continues to delete to clean up resources": once the pool has    *)
(* been created a delete is tried whatever happened in between, and a      *)
(* delete that succeeded leaves no pool behind.                            *)
(***************************************************************************)
AllCleansUp ==
    (phase = "done" /\ args.cmd = "all" /\ results["create"]) =>
        /\ Last.kind = "delete"
        /\ results["delete"] => poolCount = NoPool

(***************************************************************************)
(* The exit code main() computes is 0 only if every operation recorded by  *)
(* the command succeeded.                                                  *)
(***************************************************************************)
ExitCodeIsHonest ==
    (phase = "done" /\ exit_code = 0) => \A i \in 1 .. Len(records) : records[i].ok

(***************************************************************************)
(* Every command ends, whatever the service and the nodes do, through all  *)
(* its retries, polls and deadlines, or hangs in one of the calls that     *)
(* have no timeout: operation.result() of a delete, the az CLI, a call of  *)
(* the Kubernetes API.                                                     *)
(***************************************************************************)
EndsOrHangs == <>(phase = "done") \/ <>[]Unbounded

(***************************************************************************)
(* What the comment "Return the explicit exit code" in main() promises.    *)
(***************************************************************************)
ExitCodeIsReturned == phase = "done" => status = exit_code

===========================================================================
