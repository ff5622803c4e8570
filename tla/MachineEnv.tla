---------------------------- MODULE MachineEnv ----------------------------
(***************************************************************************)
(* What the Machine API client of modules/python/clients/                  *)
(* aks_machine_client.py acts upon: the ARM Machine resources of one       *)
(* agentpool, the agentpool's provisioningState, and the Kubernetes nodes  *)
(* labelled agentpool=<pool>.  None of this is code of the repository; it  *)
(* is modelled from how the client uses it (see the comments the client    *)
(* keeps about the service).                                               *)
(*                                                                         *)
(* A Machine name is the number i of "<prefix>-machine-<i>".               *)
(***************************************************************************)
EXTENDS Integers, FiniteSets

CONSTANTS
    Requests,   \* the command lines: create-machine and scale-machine calls
    OldNodes    \* labelled nodes that are in the pool before the operation

ASSUME EnvAssumption ==
    /\ Requests \subseteq [cmd: {"create-machine", "scale-machine"},
                           count: Nat, workers: Int, batch: BOOLEAN]
    /\ OldNodes \in Nat

VARIABLES
    req,        \* the command line that is executed
    existing,   \* names a previous scale-machine of the same count created
    arm,        \* [Names -> MachineStates], the Machine resources
    late,       \* names whose PUT timed out and may still be applied
    pool,       \* the agentpool's provisioningState
    oldReady,   \* how many of the OldNodes are Ready now
    newReady    \* names whose node has joined and is Ready now

envVars == <<req, existing, arm, late, pool, oldReady, newReady>>

Names == 1 .. req.count

FailureStates  == {"Failed", "Canceled"}
TerminalStates == {"Succeeded"} \cup FailureStates
MachineStates  == {"Absent", "Creating"} \cup TerminalStates
PoolStates     == {"Updating", "Succeeded", "Failed", "Canceled"}

EnvTypeOK ==
    /\ req \in Requests
    /\ existing \subseteq Names
    /\ arm \in [Names -> MachineStates]
    /\ late \subseteq Names
    /\ pool \in PoolStates
    /\ oldReady \in 0 .. OldNodes
    /\ newReady \subseteq Names \ existing

(***************************************************************************)
(* Before the operation the pool is settled.  A Machine of a previous      *)
(* scale-machine is there with its node, one of the OldNodes; the node     *)
(* need not be Ready.                                                      *)
(***************************************************************************)
EnvInit ==
    /\ req \in Requests
    /\ existing \in {S \in SUBSET Names : Cardinality(S) <= OldNodes}
    /\ arm = [n \in Names |-> IF n \in existing THEN "Succeeded" ELSE "Absent"]
    /\ late = {}
    /\ pool = "Succeeded"
    /\ oldReady \in 0 .. OldNodes
    /\ newReady = {}

(***************************************************************************)
(* The service admits a PUT of the names in C.                             *)
(***************************************************************************)
Provision(C) ==
    /\ arm' = [n \in Names |-> IF n \in C THEN "Creating" ELSE arm[n]]
    /\ pool' = "Updating"

(***************************************************************************)
(* A Machine reaches a terminal state once; one whose node is Ready does   *)
(* not fail.                                                               *)
(***************************************************************************)
MachineSettles(n) ==
    /\ arm[n] = "Creating"
    /\ \E s \in TerminalStates :
          /\ s \in FailureStates => n \notin newReady
          /\ arm' = [arm EXCEPT ![n] = s]
    /\ UNCHANGED <<req, existing, late, pool, oldReady, newReady>>

(***************************************************************************)
(* "The AKS RP reports per-machine Succeeded as soon as the agentpool      *)
(* admits the request": the node joins before or after that, but never for *)
(* a failed Machine.                                                       *)
(***************************************************************************)
NodeJoins(n) ==
    /\ arm[n] \in {"Creating", "Succeeded"}
    /\ n \notin existing \cup newReady
    /\ newReady' = newReady \cup {n}
    /\ UNCHANGED <<req, existing, arm, late, pool, oldReady>>

(***************************************************************************)
(* Nodes stop being Ready and come back: a new one once its Machine has    *)
(* Succeeded, a pre-existing one at any time.                              *)
(***************************************************************************)
NodeLost(n) ==
    /\ n \in newReady
    /\ arm[n] = "Succeeded"
    /\ newReady' = newReady \ {n}
    /\ UNCHANGED <<req, existing, arm, late, pool, oldReady>>

OldNodesFlap ==
    /\ oldReady' \in {oldReady - 1, oldReady + 1} \cap (0 .. OldNodes)
    /\ UNCHANGED <<req, existing, arm, late, pool, newReady>>

PoolSettles ==
    /\ pool = "Updating"
    /\ pool' \in {"Succeeded", "Failed", "Canceled"}
    /\ UNCHANGED <<req, existing, arm, late, oldReady, newReady>>

(***************************************************************************)
(* A PUT the client gave up on reaches the service after all.              *)
(***************************************************************************)
LateApply(n) ==
    /\ n \in late
    /\ late' = late \ {n}
    /\ Provision({n})
    /\ UNCHANGED <<req, existing, oldReady, newReady>>

ProvisioningEnv ==
    \/ PoolSettles
    \/ \E n \in Names : MachineSettles(n) \/ LateApply(n)

ReadinessEnv ==
    \/ OldNodesFlap
    \/ \E n \in Names : MachineSettles(n) \/ NodeJoins(n) \/ NodeLost(n)

===========================================================================
