----------------------------- MODULE Workloads -----------------------------
(***************************************************************************)
(* The deployment, statefulset and job commands of crud/main.py:           *)
(* NodePoolCRUD._create_workloads (crud/azure/node_pool_crud.py) applies   *)
(* one instance after the other, waits for each with                       *)
(* KubernetesClient.wait_for_condition and counts those it could verify.   *)
(* Commands follow each other on one cluster; what the controllers do to   *)
(* the instances goes on at the same time.                                 *)
(***************************************************************************)
EXTENDS Naturals, FiniteSets

CONSTANTS
    Pools,          \* node pools
    Types,          \* the workload types of the commands
    Counts,         \* replicas, or completions of a job
    MaxNumber,      \* bound on the instances of one command
    Commands,       \* the command lines
    MaxCommands,    \* bound on the commands
    None

(***************************************************************************)
(* WORKLOAD_CONFIG: the types differ in the condition that is waited for,  *)
(* and the pods of a job are not verified.                                 *)
(***************************************************************************)
TypeNames == {"deployment", "statefulset", "job"}

(***************************************************************************)
(* The arguments of the workload commands.                                 *)
(***************************************************************************)
Arguments == [type: Types, pool: Pools, count: Counts, number: 0 .. MaxNumber]

(***************************************************************************)
(* An instance in the cluster: what its spec asks for, its ready pods or   *)
(* succeeded completions, the command that created it, whether it is a     *)
(* failed job, and what its controller last wrote into the status.         *)
(***************************************************************************)
Snapshots == [want: Counts, ready: Nat, failed: BOOLEAN]
Objects   == [want: Counts, ready: Nat, failed: BOOLEAN,
              born: 1 .. MaxCommands, seen: Snapshots \cup {None}]
Keys      == Types \X Pools \X (1 .. MaxNumber)

(***************************************************************************)
(* What is assumed of the constants; None is a value of its own.           *)
(***************************************************************************)
ASSUME WorkloadAssumption ==
    /\ Commands \subseteq Arguments
    /\ Types \subseteq TypeNames
    /\ Counts \subseteq Nat
    /\ MaxNumber \in Nat \ {0} /\ MaxCommands \in Nat
    /\ None \notin Objects /\ None \notin {0, 1}

VARIABLES
    instance,   \* the instances in the cluster
    command,    \* the command under way or, after it, the last one
    pc,         \* where it is
    index,      \* the instance it works on
    successes,
    refused,    \* deleting the old job of this index failed
    exitcode,   \* of the last command
    commands    \* commands begun

cluster      == <<instance>>
client       == <<command, pc, index, successes, refused, exitcode, commands>>
workloadVars == <<instance, command, pc, index, successes, refused, exitcode, commands>>

WorkloadTypeOK ==
    /\ instance \in [Keys -> Objects \cup {None}]
    /\ command \in Commands \cup {None}
    /\ pc \in {"idle", "next", "render", "delete", "apply", "service", "wait", "pods"}
    /\ index \in 0 .. MaxNumber
    /\ successes \in 0 .. index
    /\ refused \in BOOLEAN
    /\ exitcode \in {None, 0, 1}
    /\ commands \in 0 .. MaxCommands

WorkloadInit ==
    /\ instance = [k \in Keys |-> None]
    /\ command = None /\ pc = "idle"
    /\ index = 0 /\ successes = 0
    /\ refused = FALSE
    /\ exitcode = None
    /\ commands = 0

Key == <<command.type, command.pool, index>>

---------------------------------------------------------------------------
(* handle_workload_operations and create_deployment, _statefulset, _job *)

Begin ==
    /\ pc = "idle" /\ commands < MaxCommands
    /\ command' \in Commands
    /\ pc' = "next" /\ index' = 0 /\ successes' = 0
    /\ refused' = FALSE
    /\ exitcode' = None
    /\ commands' = commands + 1
    /\ UNCHANGED cluster

(***************************************************************************)
(* The cloud has no such command, or the client has no connection.         *)
(***************************************************************************)
Unavailable ==
    /\ pc = "next" /\ index = 0
    /\ pc' = "idle" /\ exitcode' = 1
    /\ UNCHANGED <<instance, command, index, successes, refused, commands>>

(***************************************************************************)
(* The loop of _create_workloads: an instance that raises is only logged.  *)
(***************************************************************************)
Goto(l) ==
    /\ pc' = l
    /\ UNCHANGED <<command, index, successes, refused, exitcode, commands>>

NextWorkload ==
    /\ pc = "next" /\ index < command.number
    /\ pc' = "render" /\ index' = index + 1
    /\ refused' = FALSE
    /\ UNCHANGED <<instance, command, successes, exitcode, commands>>

(* Mutant: the instances that were attempted are counted.                  *)
FinishAttempted ==
    /\ pc = "next" /\ index = command.number
    /\ pc' = "idle"
    /\ exitcode' = 0
    /\ UNCHANGED <<instance, command, index, successes, refused, commands>>

Finish ==
    /\ pc = "next" /\ index = command.number
    /\ pc' = "idle"
    /\ exitcode' = IF successes = command.number THEN 0 ELSE 1
    /\ UNCHANGED <<instance, command, index, successes, refused, commands>>

Fail == Goto("next")

Succeed ==
    /\ pc' = "next" /\ successes' = successes + 1
    /\ UNCHANGED <<command, index, refused, exitcode, commands>>

---------------------------------------------------------------------------
(* _apply_workload *)

Render ==
    /\ pc = "render"
    /\ \/ Fail
       \/ Goto(IF command.type = "job" THEN "delete" ELSE "apply")
    /\ UNCHANGED cluster

(* Mutant: the old job is left where it is.                                *)
DeleteJobNever ==
    /\ pc = "delete"
    /\ Goto("apply") /\ UNCHANGED cluster

(***************************************************************************)
(* delete_namespaced_job with Background propagation removes the job at    *)
(* once; every exception is taken for a job that does not exist.           *)
(***************************************************************************)
DeleteJob ==
    /\ pc = "delete"
    /\ \/ /\ instance' = [instance EXCEPT ![Key] = None]
          /\ Goto("apply")
       \/ /\ instance[Key] # None
          /\ pc' = "apply" /\ refused' = TRUE
          /\ UNCHANGED <<instance, command, index, successes, exitcode, commands>>

(***************************************************************************)
(* The first document of the template: created, or patched when it exists; *)
(* the completions of a job cannot be changed by a patch.                  *)
(***************************************************************************)
Apply ==
    /\ pc = "apply"
    /\ \/ /\ instance[Key] = None
          /\ instance' = [instance EXCEPT ![Key] =
                [want |-> command.count, ready |-> 0, failed |-> FALSE,
                 born |-> commands, seen |-> None]]
          /\ Goto("service") \/ Fail
       \/ /\ instance[Key] # None
          /\ command.type = "job" => instance[Key].want = command.count
          /\ instance' = [instance EXCEPT ![Key].want = command.count]
          /\ Goto("service") \/ Fail
       \/ Fail /\ UNCHANGED cluster

(***************************************************************************)
(* The second document, the service of a deployment or a statefulset.      *)
(***************************************************************************)
ApplyService ==
    /\ pc = "service"
    /\ \/ Goto("wait")
       \/ command.type # "job" /\ Fail
    /\ UNCHANGED cluster

(***************************************************************************)
(* The Available condition: at most a quarter of the pods is missing.      *)
(***************************************************************************)
MinAvailable(n) == n - n \div 4

DeploymentConditionMet(o) == o.seen # None /\ o.seen.ready >= MinAvailable(o.seen.want)

(***************************************************************************)
(* ready_replicas is left out of the status, hence None, when it is zero.  *)
(***************************************************************************)
StatefulsetReady(o) == o.seen # None /\ o.seen.ready > 0 /\ o.seen.ready = o.want

(***************************************************************************)
(* The Complete condition, or the succeeded counter that entails it.       *)
(***************************************************************************)
JobConditionMet(o) == o.seen # None /\ o.seen.ready >= o.seen.want

ConditionMet ==
    LET o == instance[Key]
    IN /\ o # None
       /\ CASE command.type = "deployment"  -> DeploymentConditionMet(o)
            [] command.type = "statefulset" -> StatefulsetReady(o)
            [] command.type = "job"         -> JobConditionMet(o)

VerifyPodsReady == command.type # "job"

(***************************************************************************)
(* wait_for_condition; a poll that fails or is too early changes nothing.  *)
(***************************************************************************)
WaitForCondition ==
    /\ pc = "wait" /\ ConditionMet
    /\ IF VerifyPodsReady THEN Goto("pods") ELSE Succeed
    /\ UNCHANGED cluster

WaitTimesOut ==
    /\ pc = "wait"
    /\ Fail /\ UNCHANGED cluster

(***************************************************************************)
(* get_ready_pods_by_namespace for the label <selector>-<type>-<index>,    *)
(* which does not name the node pool.                                      *)
(***************************************************************************)
PodsOf(k) == IF instance[k] = None THEN {} ELSE {k} \X (1 .. instance[k].ready)

ReadyPods(t, i) == Cardinality(UNION {PodsOf(<<t, p, i>>) : p \in Pools})

(***************************************************************************)
(* wait_for_pods_ready wants exactly the count.                            *)
(***************************************************************************)
WaitForPods ==
    /\ pc = "pods" /\ ReadyPods(command.type, index) = command.count
    /\ Succeed
    /\ UNCHANGED cluster

(* Mutant: the deadline is not looked at while no pod is ready.            *)
PodsNeverTimeOut ==
    /\ pc = "pods" /\ ReadyPods(command.type, index) > 0
    /\ Fail /\ UNCHANGED cluster

PodsTimeOut ==
    /\ pc = "pods"
    /\ Fail /\ UNCHANGED cluster

---------------------------------------------------------------------------
(* The controllers *)

PodReady(k) ==
    /\ instance[k] # None /\ ~instance[k].failed
    /\ instance[k].ready < instance[k].want
    /\ instance' = [instance EXCEPT ![k].ready = @ + 1]
    /\ UNCHANGED client

(***************************************************************************)
(* A pod is stopped, or fails; a succeeded completion stays.               *)
(***************************************************************************)
PodGone(k) ==
    /\ instance[k] # None /\ k[1] # "job" /\ instance[k].ready > 0
    /\ instance' = [instance EXCEPT ![k].ready = @ - 1]
    /\ UNCHANGED client

JobFails(k) ==
    /\ instance[k] # None /\ k[1] = "job"
    /\ ~instance[k].failed /\ instance[k].ready < instance[k].want
    /\ instance' = [instance EXCEPT ![k].failed = TRUE]
    /\ UNCHANGED client

StatusWritten(k) ==
    /\ instance[k] # None
    /\ LET o == instance[k]
           s == [want |-> o.want, ready |-> o.ready, failed |-> o.failed]
       IN o.seen # s /\ instance' = [instance EXCEPT ![k].seen = s]
    /\ UNCHANGED client

Controllers ==
    \E k \in Keys : PodReady(k) \/ PodGone(k) \/ JobFails(k) \/ StatusWritten(k)

---------------------------------------------------------------------------
Client == \/ Unavailable \/ NextWorkload \/ Finish
          \/ Render \/ DeleteJob \/ Apply \/ ApplyService
          \/ WaitForCondition \/ WaitTimesOut \/ WaitForPods \/ PodsTimeOut

WorkloadNext == Begin \/ Client \/ Controllers

(***************************************************************************)
(* The client runs on, and its deadlines pass.                             *)
(***************************************************************************)
WorkloadSpec == WorkloadInit /\ [][WorkloadNext]_workloadVars /\ WF_workloadVars(Client)

---------------------------------------------------------------------------
(* Properties *)

Verified == successes' = successes + 1

Alone ==
    \A p \in Pools \ {command.pool} : instance[<<command.type, p, index>>] = None

CountedReady ==
    Verified =>
        LET o == instance[Key]
        IN  IF command.type = "job"
            THEN ~refused => o.born = commands /\ o.ready >= command.count
            ELSE Alone => o.ready = command.count /\ o.want = command.count

(***************************************************************************)
(* An instance that is counted is ready at that moment.  A job was created *)
(* by this command ("delete any existing job first to avoid reusing        *)
(* completed jobs") and has all its completions, whatever an earlier       *)
(* command left, unless deleting the old one failed.  Any other instance   *)
(* has all its pods ready, although the condition that was awaited first   *)
(* may be one of an earlier spec, provided that no other pool has an       *)
(* instance of this label.                                                 *)
(***************************************************************************)
CountedIsReady == [][CountedReady]_workloadVars

(***************************************************************************)
(* "True if all ... creations were successful": after exit code 0 the      *)
(* cluster has every instance of the command, with the count it asked for, *)
(* although a failed one does not end the loop.                            *)
(***************************************************************************)
AllInstancesExist ==
    exitcode = 0 =>
        \A i \in 1 .. command.number :
            LET o == instance[<<command.type, command.pool, i>>]
            IN o # None /\ o.want = command.count

(***************************************************************************)
(* Every command ends, also when an instance never becomes ready.          *)
(***************************************************************************)
CommandEnds == (pc # "idle") ~> (pc = "idle")

===========================================================================
