---------------------------- MODULE AksNodePool ----------------------------
(***************************************************************************)
(* The node pool operations of AKSClient (clients/aks_client.py):          *)
(* create_node_pool, scale_node_pool with _progressive_scale, and          *)
(* delete_node_pool.  A call starts with pc at its name and ends with pc   *)
(* at "returned"; each OperationContext it leaves appends one record.      *)
(***************************************************************************)
EXTENDS NodePoolProvision, ScaleSteps

CONSTANT Commands   \* the command lines

ASSUME CommandAssumption ==
    Commands \subseteq [cmd: {"create", "scale", "delete", "all"},
                        node_count: Counts, target_count: Counts,
                        scale_step_size: Int, gpu: BOOLEAN, managed: BOOLEAN,
                        mig: BOOLEAN]

VARIABLES
    args,       \* the command line
    pc,         \* where the call is
    kind,       \* operation_type of the context that is open
    from,       \* current_count, then previous_count of each step
    plan,       \* the targets still to be reached, the current one first
    result,     \* what the call returned
    records     \* the operations recorded so far

callVars == <<args, pc, kind, from, plan, result, records>>
poolVars == <<callVars, provVars>>

Kinds   == {"create", "scale_up", "scale_down", "delete"}
Results == {"none", "True", "unchanged", "raised"}
PCs     == {"idle", "create", "scale", "step", "provision", "verify", "delete",
            "deleting", "returned"}

CallTypeOK ==
    /\ args \in Commands
    /\ pc \in PCs
    /\ kind \in Kinds
    /\ from \in Counts
    /\ plan \in Seq(Counts)
    /\ result \in Results
    /\ records \in Seq([kind: Kinds, from: Counts, target: Counts, ok: BOOLEAN])

CallInit ==
    /\ args \in Commands
    /\ pc = "idle"
    /\ kind = "create"
    /\ from = 0 /\ plan = <<>>
    /\ result = "none"
    /\ records = <<>>

(***************************************************************************)
(* Leaving an OperationContext, with or without an exception.              *)
(***************************************************************************)
RecordOf(k, f, t, ok) ==
    records' = Append(records, [kind |-> k, from |-> f, target |-> t, ok |-> ok])

Record(ok) == RecordOf(kind, from, want, ok)

Return(value) ==
    /\ pc' = "returned"
    /\ result' = value
    /\ plan' = <<>>

(***************************************************************************)
(* check_for_progressive_scaling, from the arguments of the command line.  *)
(***************************************************************************)
Progressive == args.scale_step_size # args.target_count

---------------------------------------------------------------------------
(* create_node_pool *)

CreateCall ==
    /\ pc = "create"
    /\ pc' = "provision"
    /\ kind' = "create" /\ from' = 0
    /\ plan' = <<args.node_count>>
    /\ StartProvision(args.node_count, args.managed)
    /\ UNCHANGED <<args, result, records>>

(***************************************************************************)
(* The cluster's name is not to be had, or _gpu_mode_metadata refuses the  *)
(* MIG strategy: raised before the context is opened, so without a record. *)
(***************************************************************************)
CreateRefused ==
    /\ pc = "create"
    /\ Return("raised")
    /\ UNCHANGED <<args, kind, from, records, provVars>>

---------------------------------------------------------------------------
(* scale_node_pool *)

(***************************************************************************)
(* get_node_pool may fail, and does when there is no pool; with the count  *)
(* unchanged the pool is returned.  Neither leaves a record, nor does a    *)
(* step size of 0 (range() raises).                                        *)
(***************************************************************************)
ScaleCall(node_count) ==
    /\ pc = "scale"
    /\ \/ Return("raised") /\ UNCHANGED <<kind, from>>
       \/ poolCount = node_count /\ Return("unchanged") /\ UNCHANGED <<kind, from>>
       \/ /\ poolCount \notin {NoPool, node_count}
          /\ Progressive => args.scale_step_size # 0
          /\ kind' = IF node_count > poolCount THEN "scale_up" ELSE "scale_down"
          /\ from' = poolCount
          /\ plan' = IF Progressive
                     THEN Steps(poolCount, node_count, args.scale_step_size)
                     ELSE <<node_count>>
          /\ pc' = "step"
          /\ UNCHANGED result
    /\ UNCHANGED <<args, records, provVars>>

(***************************************************************************)
(* A step opens its context, reads the pool and the cluster for the        *)
(* metadata, sets node_pool.count and provisions.                          *)
(***************************************************************************)
StepStart ==
    /\ pc = "step"
    /\ pc' = "provision"
    /\ StartProvision(Head(plan), FALSE)
    /\ UNCHANGED <<args, kind, from, plan, result, records>>

StepReadFails ==
    /\ pc = "step"
    /\ want' = Head(plan)
    /\ RecordOf(kind, from, Head(plan), FALSE)
    /\ Return("raised")
    /\ UNCHANGED <<args, kind, from, svcVars, arm, attempt, elapsed, k8s, seenVars>>

---------------------------------------------------------------------------
(* what create and scale share *)

ThreadsIdle ==
    /\ arm' = "idle" /\ k8s' = "idle"
    /\ attempt' = 0 /\ elapsed' = 0
    /\ UNCHANGED <<want, svcVars, seenVars>>

(* Mutant: a failed step does not end a progressive scaling.               *)
JoinGoesOn ==
    /\ pc = "provision"
    /\ Joined
    /\ \/ Provisioned /\ pc' = "verify" /\ UNCHANGED <<from, result, plan, records, provVars>>
       \/ /\ ~Provisioned /\ Record(FALSE) /\ ThreadsIdle
          /\ IF Len(plan) > 1
             THEN pc' = "step" /\ plan' = Tail(plan) /\ from' = want /\ UNCHANGED result
             ELSE Return("raised") /\ UNCHANGED from
    /\ UNCHANGED <<args, kind>>

(***************************************************************************)
(* Both threads have ended.                                                *)
(***************************************************************************)
Join ==
    /\ pc = "provision"
    /\ Joined
    /\ \/ Provisioned /\ pc' = "verify" /\ UNCHANGED <<result, plan, records, provVars>>
       \/ ~Provisioned /\ Record(FALSE) /\ Return("raised") /\ ThreadsIdle
    /\ UNCHANGED <<args, kind, from>>

(***************************************************************************)
(* The GPU verifications each path makes; what they find goes into the     *)
(* metadata, only an exception fails the operation.  A create also reads   *)
(* the pool and the cluster once more.                                     *)
(***************************************************************************)
Checks ==
    IF want = 0 \/ kind = "scale_down" THEN {}
    ELSE IF kind = "create" \/ ~Progressive
    THEN (IF args.managed THEN {"systemd", "smi"} ELSE {})
         \cup (IF args.gpu /\ ~args.managed THEN {"smi"} ELSE {})
         \cup (IF args.managed /\ args.mig /\ kind = "scale_up" THEN {"mig"} ELSE {})
    ELSE IF Len(plan) > 1 THEN {}
    ELSE (IF args.gpu THEN {"smi"} ELSE {})
         \cup (IF args.managed THEN {"systemd"} ELSE {})
         \cup (IF args.mig THEN {"mig"} ELSE {})

(***************************************************************************)
(* The verifications, the pause before the next step (still inside the     *)
(* context) and the record; then the next step, or the end of the call.    *)
(***************************************************************************)
Verify ==
    /\ pc = "verify"
    /\ \E ok \in BOOLEAN :
         /\ ok \/ Checks # {} \/ kind = "create"
         /\ Record(ok)
         /\ IF ok /\ Len(plan) > 1
            THEN /\ pc' = "step" /\ plan' = Tail(plan) /\ from' = want
                 /\ UNCHANGED result
            ELSE /\ Return(IF ok THEN "True" ELSE "raised") /\ UNCHANGED from
    /\ ThreadsIdle
    /\ UNCHANGED <<args, kind>>

---------------------------------------------------------------------------
(* delete_node_pool *)

(***************************************************************************)
(* begin_delete, without a retry: accepted, refused (always while another  *)
(* operation holds the cluster), or lost on the way back.  Deleting a pool *)
(* that is not there succeeds at once.                                     *)
(***************************************************************************)
DeleteCall ==
    /\ pc = "delete"
    /\ kind' = "delete"
    /\ from' = 0
    /\ want' = 0
    /\ \/ /\ inflight = "none" /\ poolCount # NoPool
          /\ inflight' = "delete" /\ answer' = "running"
          /\ \/ pc' = "deleting" /\ UNCHANGED <<result, plan, records>>
             \/ RecordOf("delete", 0, 0, FALSE) /\ Return("raised")
       \/ /\ \E ok \in BOOLEAN :
               /\ ok => inflight = "none" /\ poolCount = NoPool
               /\ RecordOf("delete", 0, 0, ok)
               /\ Return(IF ok THEN "True" ELSE "raised")
          /\ UNCHANGED <<inflight, answer>>
    /\ UNCHANGED <<args, poolCount, readyNodes, arm, attempt, elapsed, k8s, seenVars>>

DeleteResult ==
    /\ pc = "deleting"
    /\ \E ok \in BOOLEAN :
         /\ ok => answer = "succeeded"
         /\ Record(ok)
         /\ Return(IF ok THEN "True" ELSE "raised")
    /\ UNCHANGED <<args, kind, from, provVars>>

Threads == (ArmStep \/ WaitStep) /\ UNCHANGED callVars

OperationStep ==
    CreateCall \/ CreateRefused \/ StepStart \/ StepReadFails \/ Join \/ Verify
    \/ DeleteCall \/ DeleteResult

===========================================================================
