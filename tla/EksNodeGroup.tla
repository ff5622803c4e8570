---------------------------- MODULE EksNodeGroup ----------------------------
(***************************************************************************)
(* EKSClient (clients/eks_client.py): its constructor, which duplicates an *)
(* IAM role and creates an access entry, and create_node_group,            *)
(* scale_node_group with _progressive_scale, and delete_node_group.  Every *)
(* call to AWS may fail; a failed call raises.                             *)
(***************************************************************************)
EXTENDS EksCloud, ScaleSteps

CONSTANTS
    Commands,   \* the command lines
    Retries     \* max_retries of execute_with_retries

ASSUME CommandAssumption ==
    /\ Retries \in Nat
    /\ Commands \subseteq [cmd: {"create", "scale", "delete", "all"},
                           node_count: Counts, target_count: Counts,
                           scale_step_size: Int, block: BOOLEAN, gpu: BOOLEAN]

VARIABLES
    args,       \* the command line
    pc,         \* where the process is
    phase,      \* the operation main() or all() is at
    client,     \* attributes and loop variables of the EKSClient
    op,         \* the operation that is open
    result,     \* what the last operation returned: True or False
    records,    \* the operations recorded so far, by all processes
    status      \* exit status of the process, when SystemExit set it

clientVars == <<args, pc, phase, client, op, result, records, status>>

Phases == {"create", "scale_up", "scale_down", "delete"}
Kinds  == {"create", "scale", "scale_up", "scale_down", "delete"}
PCs    == {"off", "connect", "role", "create_role", "attach", "get_role", "entry",
           "create_entry", "plugin", "call", "reserve", "template", "new_template",
           "group", "active", "nodes", "finish", "step", "update", "delete_template",
           "delete_group", "deleted", "returned"}

ClientTypeOK ==
    /\ args \in Commands
    /\ pc \in PCs
    /\ phase \in Phases
    /\ client \in [template_id: 0 .. MaxTemplates, todo: SUBSET Policies, tries: 0 .. Retries]
    /\ op \in [kind: Kinds, from: Counts, plan: Seq(Counts),
               reservation: Reservations \cup {NoRes}]
    /\ result \in BOOLEAN
    /\ records \in Seq([kind: Kinds, from: Counts, target: Counts, ok: BOOLEAN])
    /\ status \in {0, 1}

ClientInit ==
    /\ args \in Commands
    /\ pc = "off" /\ phase = "create"
    /\ client = [template_id |-> 0, todo |-> {}, tries |-> 0]
    /\ op = [kind |-> "create", from |-> 0, plan |-> <<>>, reservation |-> NoRes]
    /\ result = TRUE
    /\ records = <<>>
    /\ status = 0

(***************************************************************************)
(* Where control goes.  Die is an exception, or SystemExit, that reaches   *)
(* main(); Raise one that NodePoolCRUD turns into False, after the context *)
(* of the operation has recorded a failure.                                *)
(***************************************************************************)
Goto(l) ==
    /\ pc' = l
    /\ UNCHANGED <<args, phase, client, op, result, records, status>>

Die ==
    /\ pc' = "off" /\ status' = 1
    /\ UNCHANGED <<args, phase, client, op, result, records>>

Leave(ok) ==
    records' = Append(records, [kind |-> op.kind, from |-> op.from,
                                target |-> Head(op.plan), ok |-> ok])

Return(ok) ==
    /\ pc' = "returned" /\ result' = ok
    /\ UNCHANGED <<args, phase, client, op, status>>

Raise == Leave(FALSE) /\ Return(FALSE)

SystemExit ==
    /\ Leave(FALSE)
    /\ pc' = "off" /\ status' = 1
    /\ UNCHANGED <<args, phase, client, op, result>>

---------------------------------------------------------------------------
(* The constructor *)

(***************************************************************************)
(* The reads: the cluster tagged with the run, its subnets, the first node *)
(* group's role with its trust policy and policies.                        *)
(***************************************************************************)
Connect ==
    /\ pc = "connect"
    /\ Goto("role") \/ Die
    /\ UNCHANGED cloudVars

(***************************************************************************)
(* get_role(new_role_name): an existing role is taken as it is.            *)
(***************************************************************************)
CheckRole ==
    /\ pc = "role"
    /\ Goto(IF role.made THEN "get_role" ELSE "create_role") \/ Die
    /\ UNCHANGED cloudVars

(***************************************************************************)
(* create_role.  It may take effect although its answer is lost; a request *)
(* sent again is then refused, which raises.                               *)
(***************************************************************************)
CreateRole ==
    /\ pc = "create_role"
    /\ \/ /\ role' = [made |-> TRUE, policies |-> {}]
          /\ \/ /\ pc' = "attach"
                /\ client' = [client EXCEPT !.todo = Policies]
                /\ UNCHANGED <<args, phase, op, result, records, status>>
             \/ Die
       \/ Die /\ UNCHANGED role
    /\ UNCHANGED <<entry, template, group, ready, free>>

(* Mutant: a policy that cannot be attached is skipped.                    *)
AttachPolicySkips ==
    /\ pc = "attach" /\ client.todo # {}
    /\ \E p \in client.todo, q \in BOOLEAN :
          /\ role' = [role EXCEPT !.policies = IF q THEN @ \cup {p} ELSE @]
          /\ client' = [client EXCEPT !.todo = @ \ {p}]
    /\ UNCHANGED <<entry, template, group, ready, free>>
    /\ UNCHANGED <<args, pc, phase, op, result, records, status>>

(***************************************************************************)
(* attach_role_policy for the managed policies and put_role_policy for the *)
(* inline ones, one after the other; each may fail before or after it took *)
(* effect.                                                                 *)
(***************************************************************************)
AttachPolicy ==
    /\ pc = "attach" /\ client.todo # {}
    /\ \/ \E p \in client.todo :
             /\ role' = [role EXCEPT !.policies = @ \cup {p}]
             /\ \/ /\ client' = [client EXCEPT !.todo = @ \ {p}]
                   /\ UNCHANGED <<args, pc, phase, op, result, records, status>>
                \/ Die
       \/ Die /\ UNCHANGED role
    /\ UNCHANGED <<entry, template, group, ready, free>>

Attached ==
    /\ pc = "attach" /\ client.todo = {}
    /\ Goto("get_role")
    /\ UNCHANGED cloudVars

(* Mutant: a failed attempt is not counted.                               *)
AttemptFailsUncounted == Goto(pc)

(***************************************************************************)
(* execute_with_retries around one call: a failed attempt is repeated, the *)
(* last one raises.                                                        *)
(***************************************************************************)
AttemptFails ==
    \/ /\ client.tries < Retries
       /\ client' = [client EXCEPT !.tries = @ + 1]
       /\ UNCHANGED <<args, pc, phase, op, result, records, status>>
    \/ /\ client.tries = Retries /\ Die

AttemptSucceeds(l) ==
    /\ pc' = l
    /\ client' = [client EXCEPT !.tries = 0]
    /\ UNCHANGED <<args, phase, op, result, records, status>>

(***************************************************************************)
(* _create_access_entry: IAM is asked for the role until it answers, ...   *)
(***************************************************************************)
GetRole ==
    /\ pc = "get_role"
    /\ AttemptSucceeds("entry") \/ AttemptFails
    /\ UNCHANGED cloudVars

(***************************************************************************)
(* ... an existing entry is taken, ...                                     *)
(***************************************************************************)
CheckEntry ==
    /\ pc = "entry"
    /\ Goto(IF entry THEN "plugin" ELSE "create_entry") \/ Die
    /\ UNCHANGED cloudVars

(***************************************************************************)
(* ... and create_access_entry is retried.  It may take effect although    *)
(* its answer is lost, and is refused from then on.                        *)
(***************************************************************************)
CreateEntry ==
    /\ pc = "create_entry"
    /\ \/ /\ ~entry /\ entry' = TRUE
          /\ AttemptSucceeds("plugin") \/ AttemptFails
       \/ UNCHANGED entry /\ AttemptFails
    /\ UNCHANGED <<role, template, group, ready, free>>

---------------------------------------------------------------------------
(* create_node_group *)

Enter(kind, plan, l) ==
    /\ pc' = l
    /\ op' = [kind |-> kind, from |-> 0, plan |-> plan, reservation |-> NoRes]
    /\ UNCHANGED <<args, phase, client, result, records, status>>

(***************************************************************************)
(* maxSize of the request: all() passes target_count, create nothing.      *)
(***************************************************************************)
MaxSize == IF args.cmd = "all" /\ args.target_count > 1 THEN args.target_count ELSE 1

(***************************************************************************)
(* get_ami_type_with_k8s_version: a version that is not set or not a       *)
(* semantic version raises inside the context.                             *)
(***************************************************************************)
AmiUnknown ==
    /\ pc = "call" /\ phase = "create"
    /\ records' = Append(records, [kind |-> "create", from |-> 0,
                                   target |-> args.node_count, ok |-> FALSE])
    /\ Return(FALSE)
    /\ UNCHANGED cloudVars

(***************************************************************************)
(* The request is prepared with the private subnets; a capacity block      *)
(* needs its reservation first.                                            *)
(***************************************************************************)
CreateCall ==
    /\ pc = "call" /\ phase = "create"
    /\ Enter("create", <<args.node_count>>, IF args.block THEN "reserve" ELSE "template")
    /\ UNCHANGED cloudVars

(***************************************************************************)
(* _get_capacity_reservation_id: an active reservation with as many free   *)
(* instances as maxSize asks for.                                          *)
(***************************************************************************)
Suitable(r) ==
    free[r] >= 0 /\ free[r] >= (IF args.cmd = "all" THEN args.target_count ELSE 1)

(***************************************************************************)
(* The first suitable one of the listing is taken; its zone needs a        *)
(* private subnet.  Without one, or when the listing fails, the process    *)
(* exits.                                                                  *)
(***************************************************************************)
Reserve ==
    /\ pc = "reserve"
    /\ \/ \E r \in Reservations :
             /\ Suitable(r)
             /\ \/ /\ r \in Placeable
                   /\ op' = [op EXCEPT !.reservation = r]
                   /\ pc' = "template"
                   /\ UNCHANGED <<args, phase, client, result, records, status>>
                \/ r \notin Placeable /\ Raise
       \/ SystemExit
    /\ UNCHANGED cloudVars

(***************************************************************************)
(* _check_launch_template_exists: a template of that name is taken.        *)
(***************************************************************************)
CheckTemplate ==
    /\ pc = "template"
    /\ \/ /\ template.id # 0
          /\ client' = [client EXCEPT !.template_id = template.id]
          /\ pc' = "group"
          /\ UNCHANGED <<args, phase, op, result, records, status>>
       \/ template.id = 0 /\ Goto("new_template")
       \/ SystemExit
    /\ UNCHANGED cloudVars

(* Mutant: the reservation is left out of the launch template.             *)
CreateTemplateOpen ==
    /\ pc = "new_template"
    /\ template.next <= MaxTemplates
    /\ template' = [id |-> template.next, next |-> template.next + 1, reservation |-> NoRes]
    /\ client' = [client EXCEPT !.template_id = template.next]
    /\ pc' = "group"
    /\ UNCHANGED <<args, phase, op, result, records, status, role, entry, group, ready, free>>

(***************************************************************************)
(* _create_default_launch_template, with the reservation as its target.    *)
(* Any exception in it becomes sys.exit(1), also that of a request which   *)
(* took effect and whose answer is lost; so below for the node group.      *)
(***************************************************************************)
CreateTemplate ==
    /\ pc = "new_template"
    /\ \/ /\ template.next <= MaxTemplates
          /\ template' = [id |-> template.next, next |-> template.next + 1,
                          reservation |-> op.reservation]
          /\ \/ /\ client' = [client EXCEPT !.template_id = template.next]
                /\ pc' = "group"
                /\ UNCHANGED <<args, phase, op, result, records, status>>
             \/ SystemExit
       \/ SystemExit /\ UNCHANGED template
    /\ UNCHANGED <<role, entry, group, ready, free>>

(***************************************************************************)
(* create_nodegroup.  EKS refuses a group that exists and a desired size   *)
(* above the maximum.                                                      *)
(***************************************************************************)
CreateGroup ==
    /\ pc = "group"
    /\ \/ /\ group.status = "none" /\ args.node_count <= MaxSize
          /\ group' = [status |-> "creating", min |-> args.node_count, max |-> MaxSize,
                       desired |-> args.node_count, template |-> client.template_id]
          /\ Goto("active") \/ Raise
       \/ Raise /\ UNCHANGED group
    /\ UNCHANGED <<role, entry, template, ready, free>>

(***************************************************************************)
(* _wait_for_node_group_active: the waiter raises on CREATE_FAILED and     *)
(* when it has used its attempts.                                          *)
(***************************************************************************)
WaitActive ==
    /\ pc = "active"
    /\ (group.status = "active" /\ Goto("nodes")) \/ Raise
    /\ UNCHANGED cloudVars

(***************************************************************************)
(* wait_for_nodes_ready: the exact number of Ready nodes, or the deadline. *)
(***************************************************************************)
WaitNodes ==
    /\ pc = "nodes"
    /\ (ready = Head(op.plan) /\ Goto("finish")) \/ Raise
    /\ UNCHANGED cloudVars

(***************************************************************************)
(* get_node_group finds the group.                                         *)
(***************************************************************************)
Described == group.status # "none"

(***************************************************************************)
(* nvidia-smi is run on GPU nodes, its outcome is metadata; the metadata   *)
(* read back from EKS end the context.                                     *)
(***************************************************************************)
FinishCreate ==
    /\ pc = "finish" /\ op.kind = "create"
    /\ (Described /\ Leave(TRUE) /\ Return(TRUE)) \/ Raise
    /\ UNCHANGED cloudVars

---------------------------------------------------------------------------
(* scale_node_group *)

(***************************************************************************)
(* scale_node_pool's count, and check_for_progressive_scaling.             *)
(***************************************************************************)
Wanted == IF phase = "scale_down" THEN args.node_count ELSE args.target_count

Progressive == args.scale_step_size # args.target_count

Distance(m, n) == IF m > n THEN m - n ELSE n - m

KindOf(current, count) ==
    IF count > current THEN "scale_up" ELSE IF count < current THEN "scale_down" ELSE "scale"

(***************************************************************************)
(* _progressive_scale; a range() with step 0, or an empty one, raises.     *)
(***************************************************************************)
PlanOf(current) == Steps(current, Wanted, args.scale_step_size)

(***************************************************************************)
(* get_node_group runs before any context is opened.                       *)
(***************************************************************************)
ScaleCall ==
    /\ pc = "call" /\ phase \in {"scale_up", "scale_down"}
    /\ \/ /\ Described
          /\ IF Progressive /\ Distance(Wanted, group.desired) > args.scale_step_size
             THEN /\ args.scale_step_size > 0
                  /\ Enter("scale", PlanOf(group.desired), "step")
             ELSE Enter("scale", <<Wanted>>, "step")
       \/ Return(FALSE) /\ UNCHANGED records
    /\ UNCHANGED cloudVars

(***************************************************************************)
(* scale_node_group of one count; a step of _progressive_scale reads the   *)
(* node group again.                                                       *)
(***************************************************************************)
Step ==
    /\ pc = "step"
    /\ \/ /\ Described
          /\ op' = [op EXCEPT !.kind = KindOf(group.desired, Head(op.plan)),
                              !.from = group.desired]
          /\ pc' = "update"
          /\ UNCHANGED <<args, phase, client, result, records, status>>
       \/ Return(FALSE) /\ UNCHANGED records
    /\ UNCHANGED cloudVars

(***************************************************************************)
(* update_nodegroup_config with maxSize raised to the count.  EKS refuses  *)
(* a desired size below the minimum and an update during another one; the  *)
(* first answer of the waiter may be the status before the update.         *)
(***************************************************************************)
Update ==
    /\ pc = "update"
    /\ \/ /\ group.status = "active" /\ Head(op.plan) >= group.min
          /\ \E s \in {"updating", "active"} :
                group' = [group EXCEPT !.status = s, !.desired = Head(op.plan),
                                       !.max = IF @ < Head(op.plan) THEN Head(op.plan) ELSE @]
          /\ Goto("active") \/ Raise
       \/ Raise /\ UNCHANGED group
    /\ UNCHANGED <<role, entry, template, ready, free>>

(***************************************************************************)
(* The end of a step, like that of a creation; _progressive_scale goes on  *)
(* with its next one.                                                      *)
(***************************************************************************)
FinishStep ==
    /\ pc = "finish" /\ op.kind # "create"
    /\ \/ /\ Described
          /\ Leave(TRUE)
          /\ IF Len(op.plan) > 1
             THEN /\ pc' = "step"
                  /\ op' = [op EXCEPT !.plan = Tail(@)]
                  /\ UNCHANGED <<args, phase, client, result, status>>
             ELSE Return(TRUE)
       \/ Raise
    /\ UNCHANGED cloudVars

---------------------------------------------------------------------------
(* delete_node_group *)

(***************************************************************************)
(* The first read of the node group is allowed to fail, the second, inside *)
(* the context, is not.                                                    *)
(***************************************************************************)
DeleteCall ==
    /\ pc = "call" /\ phase = "delete"
    /\ Enter("delete", <<0>>, "delete_template")
    /\ UNCHANGED cloudVars

(* Mutant: the launch template is left to somebody else.                   *)
DeleteTemplateNever ==
    /\ pc = "delete_template"
    /\ Described /\ Goto("delete_group")
    /\ UNCHANGED cloudVars

(***************************************************************************)
(* _delete_launch_template: by id; an id that is gone raises.              *)
(***************************************************************************)
DropTemplate ==
    /\ template.id = client.template_id
    /\ template' = [template EXCEPT !.id = 0, !.reservation = NoRes]
    /\ UNCHANGED <<role, entry, group, ready, free>>

(***************************************************************************)
(* The launch template goes first, and only if this client knows its id.   *)
(***************************************************************************)
DeleteTemplate ==
    /\ pc = "delete_template"
    /\ \/ /\ Described
          /\ IF client.template_id = 0 THEN UNCHANGED cloudVars ELSE DropTemplate
          /\ Goto("delete_group") \/ Raise
       \/ Raise /\ UNCHANGED cloudVars

(* Mutant: the deletion counts once it was accepted.                       *)
DeleteGroupAtOnce ==
    /\ pc = "delete_group"
    /\ \/ /\ group.status \in {"active", "failed"}
          /\ group' = [group EXCEPT !.status = "deleting"]
          /\ Leave(TRUE) /\ Return(TRUE)
          /\ UNCHANGED <<role, entry, template, ready, free>>
       \/ Raise /\ UNCHANGED cloudVars

(***************************************************************************)
(* delete_nodegroup, refused while another operation is under way.         *)
(***************************************************************************)
DeleteGroup ==
    /\ pc = "delete_group"
    /\ \/ /\ group.status \in {"active", "failed"}
          /\ group' = [group EXCEPT !.status = "deleting"]
          /\ Goto("deleted") \/ Raise
       \/ Raise /\ UNCHANGED group
    /\ UNCHANGED <<role, entry, template, ready, free>>

(***************************************************************************)
(* _wait_for_node_group_deleted, with as many attempts.                    *)
(***************************************************************************)
WaitDeleted ==
    /\ pc = "deleted"
    /\ (group.status = "none" /\ Leave(TRUE) /\ Return(TRUE)) \/ Raise
    /\ UNCHANGED cloudVars

---------------------------------------------------------------------------
Construct == \/ Connect \/ CheckRole \/ CreateRole \/ AttachPolicy \/ Attached
             \/ GetRole \/ CheckEntry \/ CreateEntry

Operate == \/ AmiUnknown \/ CreateCall \/ Reserve \/ CheckTemplate \/ CreateTemplate
           \/ CreateGroup \/ WaitActive \/ WaitNodes \/ FinishCreate
           \/ ScaleCall \/ Step \/ Update \/ FinishStep
           \/ DeleteCall \/ DeleteTemplate \/ DeleteGroup \/ WaitDeleted

===========================================================================
