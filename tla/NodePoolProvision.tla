------------------------- MODULE NodePoolProvision -------------------------
(***************************************************************************)
(* One provisioning of an AKS node pool: utils/provisioning_               *)
(* instrumentation.py runs the ARM request (with its retries) and          *)
(* KubernetesClient.wait_for_nodes_ready in two threads, joins both and    *)
(* raises the ARM error, else the Kubernetes error.                        *)
(*                                                                         *)
(* The service and the nodes are not code of the repository; they are      *)
(* modelled from how the client uses them.                                 *)
(***************************************************************************)
EXTENDS Integers

CONSTANTS
    MaxCount,   \* the largest node count a command line asks for
    Retries,    \* retries of begin_create_or_update_with_retry: attempts
    MaxPolls    \* timeout / poll_interval: polls until TimeoutError

ASSUME ProvisionAssumption ==
    MaxCount \in Nat /\ Retries \in Nat \ {0} /\ MaxPolls \in Nat \ {0}

VARIABLES
    \* the service and the cluster
    poolCount,  \* count of the AgentPool resource, NoPool when there is none
    inflight,   \* the operation that holds the cluster
    answer,     \* state of the last request of ours the service accepted
    readyNodes, \* labelled nodes that are Ready
    \* the two threads
    want,       \* the node count of this provisioning
    arm,        \* begin_create_or_update_with_retry, or the az CLI
    attempt,    \* its attempt, from 0
    elapsed,    \* polls of the accepted request
    k8s,        \* wait_for_nodes_ready
    \* History, read by properties only:
    calm,       \* the pool was settled at the start and no Ready node was lost
    seenApplied \* poolCount was already want when the wait saw want nodes

svcVars    == <<poolCount, inflight, answer, readyNodes>>
threadVars == <<want, arm, attempt, elapsed, k8s>>
seenVars   == <<calm, seenApplied>>
provVars   == <<svcVars, threadVars, seenVars>>

NoPool     == -1
Counts     == 0 .. MaxCount
ArmStates  == {"idle", "call", "poll", "backoff", "ok", "raised"}
WaitStates == {"idle", "list", "sleep", "ok", "raised"}

ProvTypeOK ==
    /\ poolCount \in Counts \cup {NoPool}
    /\ inflight \in {"none", "put", "delete", "foreign"}
    /\ answer \in {"running", "succeeded", "failed"}
    /\ readyNodes \in Counts
    /\ want \in Counts
    /\ arm \in ArmStates
    /\ attempt \in 0 .. (Retries - 1)
    /\ elapsed \in 0 .. (MaxPolls - 1)
    /\ k8s \in WaitStates
    /\ calm \in BOOLEAN /\ seenApplied \in BOOLEAN

ProvInit ==
    /\ poolCount \in Counts \cup {NoPool}
    /\ inflight = "none" /\ answer = "succeeded"
    /\ readyNodes = IF poolCount = NoPool THEN 0 ELSE poolCount
    /\ want = 0
    /\ arm = "idle" /\ attempt = 0 /\ elapsed = 0
    /\ k8s = "idle"
    /\ calm = FALSE /\ seenApplied = FALSE

---------------------------------------------------------------------------
(* The service and the nodes *)

(***************************************************************************)
(* Another operation holds the cluster for a while.                        *)
(***************************************************************************)
ForeignStarts ==
    /\ inflight = "none"
    /\ inflight' = "foreign"
    /\ UNCHANGED <<poolCount, answer, readyNodes, threadVars, seenVars>>

ForeignEnds ==
    /\ inflight = "foreign"
    /\ inflight' = "none"
    /\ UNCHANGED <<poolCount, answer, readyNodes, threadVars, seenVars>>

(***************************************************************************)
(* An accepted PUT or DELETE ends; only a successful DELETE removes the    *)
(* AgentPool resource.                                                     *)
(***************************************************************************)
RequestSettles ==
    /\ inflight \in {"put", "delete"}
    /\ inflight' = "none"
    /\ answer' \in {"succeeded", "failed"}
    /\ poolCount' = IF inflight = "delete" /\ answer' = "succeeded"
                    THEN NoPool ELSE poolCount
    /\ UNCHANGED <<readyNodes, threadVars, seenVars>>

(***************************************************************************)
(* Nodes follow the resource's count, and a Ready node may get lost.       *)
(***************************************************************************)
NodeComes ==
    /\ readyNodes < poolCount
    /\ readyNodes' = readyNodes + 1
    /\ UNCHANGED <<poolCount, inflight, answer, threadVars, seenVars>>

NodeGoes ==
    /\ readyNodes > 0
    /\ readyNodes' = readyNodes - 1
    /\ calm' = (calm /\ readyNodes > poolCount)
    /\ UNCHANGED <<poolCount, inflight, answer, threadVars, seenApplied>>

Service ==
    \/ ForeignStarts \/ ForeignEnds \/ RequestSettles \/ NodeComes \/ NodeGoes

---------------------------------------------------------------------------
(* The two threads *)

Settled ==
    readyNodes = (IF poolCount = NoPool THEN 0 ELSE poolCount)

(***************************************************************************)
(* Both futures are submitted; sequential = TRUE starts the wait only      *)
(* after the request (the az CLI path of a fully managed GPU pool).        *)
(***************************************************************************)
StartProvision(count, sequential) ==
    /\ want' = count
    /\ arm' = "call" /\ attempt' = 0 /\ elapsed' = 0
    /\ k8s' = IF sequential THEN "idle" ELSE "list"
    /\ calm' = (Settled /\ readyNodes # count)
    /\ seenApplied' = FALSE
    /\ UNCHANGED svcVars

(* Mutants: one attempt more than the loop makes, and attempts without end.*)
ArmRejectedOnceMore ==
    /\ IF attempt <= Retries - 1
       THEN arm' = "backoff" /\ attempt' = attempt + 1
       ELSE arm' = "raised" /\ UNCHANGED attempt
    /\ elapsed' = 0

ArmRejectedForever ==
    /\ arm' = "backoff"
    /\ UNCHANGED attempt
    /\ elapsed' = 0

(***************************************************************************)
(* OperationNotAllowed or EtagMismatch, from the call or from the result:  *)
(* back off unless this was the last attempt.                              *)
(***************************************************************************)
ArmRejected ==
    /\ IF attempt < Retries - 1
       THEN arm' = "backoff" /\ attempt' = attempt + 1
       ELSE arm' = "raised" /\ UNCHANGED attempt
    /\ elapsed' = 0

(***************************************************************************)
(* begin_create_or_update: accepted, rejected (always while another        *)
(* operation holds the cluster), refused for good, or lost on the way back.*)
(***************************************************************************)
ArmCall ==
    /\ arm = "call"
    /\ \/ /\ inflight = "none"
          /\ inflight' = "put" /\ answer' = "running" /\ poolCount' = want
          /\ arm' \in {"poll", "raised"}
          /\ UNCHANGED <<attempt, elapsed>>
       \/ ArmRejected /\ UNCHANGED <<poolCount, inflight, answer>>
       \/ arm' = "raised" /\ UNCHANGED <<poolCount, inflight, answer, attempt, elapsed>>
    /\ UNCHANGED <<readyNodes, want, k8s, seenVars>>

(***************************************************************************)
(* poller.done() is False: count the poll, TimeoutError when it was one    *)
(* too many.  The request itself goes on.  The az CLI waits for ever.      *)
(***************************************************************************)
ArmWaits ==
    /\ arm = "poll"
    /\ k8s # "idle"
    /\ answer = "running"
    /\ IF elapsed + 1 >= MaxPolls
       THEN arm' = "raised" /\ elapsed' = 0
       ELSE elapsed' = elapsed + 1 /\ UNCHANGED arm
    /\ UNCHANGED <<svcVars, want, attempt, k8s, seenVars>>

(***************************************************************************)
(* The poll itself fails, or poller.result() returns or raises.            *)
(***************************************************************************)
ArmResult ==
    /\ arm = "poll"
    /\ \/ answer = "succeeded" /\ arm' = "ok" /\ UNCHANGED <<attempt, elapsed>>
       \/ answer = "failed" /\ ArmRejected
       \/ arm' = "raised" /\ UNCHANGED <<attempt, elapsed>>
    /\ UNCHANGED <<svcVars, want, k8s, seenVars>>

ArmBackoffOver ==
    /\ arm = "backoff"
    /\ arm' = "call"
    /\ UNCHANGED <<svcVars, want, attempt, elapsed, k8s, seenVars>>

(* Mutant: at least the wanted count.                                      *)
WaitListsAtLeast ==
    /\ k8s = "list"
    /\ \/ /\ readyNodes >= want
          /\ k8s' = "ok"
          /\ seenApplied' = (poolCount = want)
       \/ readyNodes < want /\ k8s' = "sleep" /\ UNCHANGED seenApplied
       \/ k8s' = "raised" /\ UNCHANGED seenApplied
    /\ UNCHANGED <<svcVars, want, arm, attempt, elapsed, calm>>

(***************************************************************************)
(* One round of wait_for_nodes_ready: the count must match exactly; an     *)
(* error of the list is not caught.                                        *)
(***************************************************************************)
WaitLists ==
    /\ k8s = "list"
    /\ \/ /\ readyNodes = want
          /\ k8s' = "ok"
          /\ seenApplied' = (poolCount = want)
       \/ readyNodes # want /\ k8s' = "sleep" /\ UNCHANGED seenApplied
       \/ k8s' = "raised" /\ UNCHANGED seenApplied
    /\ UNCHANGED <<svcVars, want, arm, attempt, elapsed, calm>>

WaitWakes ==
    /\ k8s = "sleep"
    /\ k8s' = "list"
    /\ UNCHANGED <<svcVars, want, arm, attempt, elapsed, seenVars>>

(***************************************************************************)
(* The loop finds its deadline passed.                                     *)
(***************************************************************************)
WaitTimesOut ==
    /\ k8s \in {"list", "sleep"}
    /\ k8s' = "raised"
    /\ UNCHANGED <<svcVars, want, arm, attempt, elapsed, seenVars>>

(***************************************************************************)
(* add_managed_gpu_node_pool has returned: only now the wait begins.       *)
(***************************************************************************)
WaitAfterCli ==
    /\ arm = "ok"
    /\ k8s = "idle"
    /\ k8s' = "list"
    /\ UNCHANGED <<svcVars, want, arm, attempt, elapsed, seenVars>>

ArmStep == ArmCall \/ ArmWaits \/ ArmResult \/ ArmBackoffOver

WaitStep == WaitAfterCli \/ WaitLists \/ WaitWakes \/ WaitTimesOut

(***************************************************************************)
(* The executor's exit joins both threads; the az CLI path has only one    *)
(* thing running at a time and gives up when the request failed.           *)
(***************************************************************************)
Joined ==
    \/ arm \in {"ok", "raised"} /\ k8s \in {"ok", "raised"}
    \/ arm = "raised" /\ k8s = "idle"

(* Mutant: the ARM error is forgotten.                                     *)
ProvisionedByNodes == k8s = "ok"

Provisioned == arm = "ok" /\ k8s = "ok"

===========================================================================
