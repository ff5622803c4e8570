------------------------------ MODULE EksCrud ------------------------------
(***************************************************************************)
(* Processes of crud/main.py for AWS, one after the other: each builds an  *)
(* EKSClient and runs create, scale, delete or all() of                    *)
(* crud/aws/node_pool_crud.py.  What one leaves in AWS the next one finds. *)
(***************************************************************************)
EXTENDS EksNodeGroup

CONSTANT MaxRuns    \* bound on the processes

ASSUME RunAssumption == MaxRuns \in Nat

VARIABLES
    runs,       \* processes started
    results,    \* results of all(): one per operation; FALSE until it returns
    exit_code,  \* what main() computes
    found       \* history: role, launch template and number of records at the start of the process

runVars == <<runs, results, exit_code, found>>
vars    == <<cloudVars, clientVars, runVars>>

Findings == [role: [made: BOOLEAN, policies: SUBSET Policies], template: 0 .. MaxTemplates,
             reservation: Reservations \cup {NoRes}, records: Nat]

TypeOK ==
    /\ CloudTypeOK /\ ClientTypeOK
    /\ runs \in 0 .. MaxRuns
    /\ results \in [Phases -> BOOLEAN]
    /\ exit_code \in {0, 1}
    /\ found \in Findings

Init ==
    /\ CloudInit /\ ClientInit
    /\ runs = 0
    /\ results = [p \in Phases |-> FALSE]
    /\ exit_code = 0
    /\ found = [role |-> role, template |-> 0, reservation |-> NoRes, records |-> 0]

FirstPhase(cmd) ==
    CASE cmd \in {"create", "all"} -> "create"
      [] cmd = "scale"             -> "scale_up"
      [] cmd = "delete"            -> "delete"

(***************************************************************************)
(* A process starts and builds its NodePoolCRUD.                           *)
(***************************************************************************)
Begin ==
    /\ pc = "off" /\ runs < MaxRuns
    /\ runs' = runs + 1
    /\ args' \in Commands
    /\ pc' = "connect" /\ phase' = FirstPhase(args'.cmd)
    /\ client' = [template_id |-> 0, todo |-> {}, tries |-> 0]
    /\ op' = [kind |-> "create", from |-> 0, plan |-> <<>>, reservation |-> NoRes]
    /\ result' = TRUE /\ status' = 0 /\ exit_code' = 0
    /\ results' = [p \in Phases |-> FALSE]
    /\ found' = [role |-> role, template |-> template.id,
                 reservation |-> template.reservation, records |-> Len(records)]
    /\ UNCHANGED <<cloudVars, records>>

(***************************************************************************)
(* main() installs the GPU device plugin; that may end the process.        *)
(***************************************************************************)
Plugin ==
    /\ pc = "plugin"
    /\ Goto("call") \/ (args.gpu /\ Die)
    /\ UNCHANGED <<cloudVars, runVars>>

(***************************************************************************)
(* all(): a failed create ends it, a failed scaling does not.              *)
(***************************************************************************)
NextPhase ==
    CASE args.cmd # "all" \/ (phase = "create" /\ ~result) -> "done"
      [] args.cmd = "all" /\ phase = "create" /\ result -> "scale_up"
      [] args.cmd = "all" /\ phase = "scale_up"         -> "scale_down"
      [] args.cmd = "all" /\ phase = "scale_down"       -> "delete"
      [] OTHER -> "done"

(* Mutant: all() reports what its last operation did.                      *)
FailedLast == ~result

(***************************************************************************)
(* The verdict: of the one operation, or of the four of all().             *)
(***************************************************************************)
Failed == IF args.cmd = "all" THEN \E p \in Phases : ~results'[p] ELSE ~result

(***************************************************************************)
(* NodePoolCRUD has turned an exception into False; main() computes the    *)
(* exit code and falls off its end.                                        *)
(***************************************************************************)
Returned ==
    /\ pc = "returned"
    /\ results' = [results EXCEPT ![phase] = result]
    /\ IF NextPhase = "done"
       THEN /\ pc' = "off" /\ exit_code' = (IF Failed THEN 1 ELSE 0)
            /\ UNCHANGED phase
       ELSE /\ pc' = "call" /\ phase' = NextPhase
            /\ UNCHANGED exit_code
    /\ UNCHANGED <<cloudVars, args, client, op, result, records, status, runs, found>>

ClientStep ==
    /\ Construct \/ Operate
    /\ UNCHANGED runVars

CloudStep == Cloud /\ UNCHANGED <<clientVars, runVars>>

Process == Plugin \/ Returned \/ ClientStep

Next == Begin \/ Process \/ CloudStep

Spec == Init /\ [][Next]_vars

(***************************************************************************)
(* The process runs; its waits have deadlines and its retries a bound.     *)
(* Nothing is assumed of AWS.                                              *)
(***************************************************************************)
FairSpec == Spec /\ WF_vars(Process)

---------------------------------------------------------------------------
(* Properties *)

Constructed == pc \notin {"off", "connect", "role", "create_role", "attach", "get_role",
                          "entry", "create_entry"}

(***************************************************************************)
(* A client that got through its constructor has a role and an access      *)
(* entry, whatever answers got lost on the way.  The role has all policies *)
(* if the process found none at its start; one it found, it took as it     *)
(* was: what an earlier process left half built is never completed.        *)
(***************************************************************************)
NodesCanJoin ==
    Constructed =>
        /\ role.made /\ entry
        /\ role.policies = IF found.role.made THEN found.role.policies ELSE Policies

Last == records[Len(records)]

(***************************************************************************)
(* A success is true of EKS when it is recorded: the group has the size    *)
(* and the template the operation was about, or is gone after a delete.    *)
(***************************************************************************)
RecordIsTrue ==
    (Len(records') > Len(records) /\ Last'.ok) =>
        CASE Last'.kind = "delete" -> group.status = "none"
          [] Last'.kind = "create" ->
                 group.desired = Last'.target /\ group.template = template.id
          [] OTHER -> group.desired = Last'.target /\ group.max >= Last'.target

(***************************************************************************)
(* Every record written as a success by EKSClient is true at that moment.  *)
(***************************************************************************)
RecordsAreTrue == [][RecordIsTrue]_vars

(***************************************************************************)
(* The reservation a new node group launches from: the one that            *)
(* create_node_group found and records, if the process found no launch     *)
(* template at its start, and else the one an earlier process wrote into   *)
(* the template that was left, whatever this process found and records.    *)
(***************************************************************************)
ReservationIsLaunched ==
    (pc = "finish" /\ op.kind = "create") =>
        template.reservation = IF found.template = 0 THEN op.reservation ELSE found.reservation

(***************************************************************************)
(* all() that succeeded leaves neither the node group nor the launch       *)
(* template; once the group was created it tries to delete it, whatever    *)
(* became of the scalings.                                                 *)
(***************************************************************************)
AllLeavesNothing ==
    (pc = "off" /\ args.cmd = "all" /\ results["create"]) =>
        /\ Last.kind = "delete"
        /\ results["delete"] => group.status = "none" /\ template.id = 0

(***************************************************************************)
(* The exit code is 0 only if every operation the process recorded was a   *)
(* success; a process that SystemExit ended has status 1 and its operation *)
(* on record as failed.                                                    *)
(***************************************************************************)
ExitCodeIsHonest ==
    pc = "off" =>
        LET recorded == {records[i].ok : i \in found.records + 1 .. Len(records)}
        IN  FALSE \in recorded => exit_code = 1 \/ status = 1

(***************************************************************************)
(* Every process ends.                                                     *)
(***************************************************************************)
ProcessEnds == [](pc # "off" => <>(pc = "off"))

===========================================================================
