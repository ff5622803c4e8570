-------------------------- MODULE MachineReadiness --------------------------
(***************************************************************************)
(* AKSMachineClient._wait_for_machine_node_readiness: poll the Ready nodes *)
(* of the pool, record when each percentile of the target is first met,    *)
(* and from time to time list the Machine resources to find out that no    *)
(* more nodes will come.                                                   *)
(*                                                                         *)
(* Time is discrete, counted from the start of the wait; the clock         *)
(* stops at ReadyTimeout, which stands for every later instant.            *)
(***************************************************************************)
EXTENDS MachineEnv

CONSTANTS
    ReadyTimeout,           \* readiness_wait_timeout
    NodePoll,               \* _NODE_READINESS_POLL_INTERVAL_SECONDS
    FailureCheckInterval,   \* _MACHINE_FAILURE_CHECK_INTERVAL_SECONDS
    FailureDetailLimit,     \* _MACHINE_FAILURE_DETAIL_LIMIT
    MaxPages                \* _LIST_MACHINES_MAX_PAGES

ASSUME ReadinessAssumption ==
    /\ ReadyTimeout \in Nat /\ NodePoll \in Nat \ {0}
    /\ FailureCheckInterval \in Nat \ {0}
    /\ FailureDetailLimit \in Nat \ {0} /\ MaxPages \in Nat \ {0}

VARIABLES
    watch,      \* where the wait is: see WatchStates
    baseline,   \* baseline_count
    clock,      \* time.time() - start
    wakeAt,     \* end of the current sleep
    checkAt,    \* next_machine_failure_check_at
    counting,   \* the node-count thread
    ready,      \* the Ready count it returned
    listing,    \* the ListMachines thread: status, pages and machines so far
    readiness_times,  \* [Percentiles -> elapsed time or None]
    failed_machines,  \* what MachineProvisioningFailed carries
    \* History, read by properties only:
    readySet,   \* the new nodes that were Ready when ready was read
    hitSet      \* [Percentiles -> readySet when the percentile was met]

histVars  == <<readySet, hitSet>>
watchVars == <<watch, baseline, clock, wakeAt, checkAt, counting, ready,
               listing, readiness_times, failed_machines, histVars>>

Percentiles == {50, 70, 90, 99, 100}
None        == -1

WatchStates == {"idle", "loop", "count", "check", "apply", "sleep",
                "returned", "raised"}

ListStates  == {"running", "done", "error"}

(* Mutants of Target: no clamp, and percentiles of the new nodes only.     *)
TargetUnclamped(p) == (p * (baseline + req.count) + 99) \div 100

TargetOfNew(p) ==
    LET ceil == (p * req.count + 99) \div 100
    IN  IF ceil > baseline + 1 THEN ceil ELSE baseline + 1

(***************************************************************************)
(* max(baseline_count + 1, ceil(p / 100 * target_total)).                  *)
(***************************************************************************)
CeilPercent(p, total) == (p * total + 99) \div 100

Target(p) ==
    LET ceil == CeilPercent(p, baseline + req.count)
    IN  IF ceil > baseline + 1 THEN ceil ELSE baseline + 1

Hit(p) == readiness_times[p] # None

AllHit == \A p \in Percentiles : Hit(p)

(* Mutant: report the first failure instead of waiting for all Machines.   *)
FirstFailures(seen) == {n \in Names : seen[n] \in FailureStates}

(***************************************************************************)
(* _get_terminal_machine_provisioning_failures on a listing: nothing until *)
(* every expected name is listed in a terminal state, then the first       *)
(* FailureDetailLimit failed names.                                        *)
(***************************************************************************)
TerminalFailures(seen) ==
    LET failed == {n \in Names : seen[n] \in FailureStates}
    IN  IF \A n \in Names : seen[n] \in TerminalStates
        THEN {n \in failed :
                Cardinality({m \in failed : m < n}) < FailureDetailLimit}
        ELSE {}

Unlisted == [status |-> "running", page |-> 0,
             seen |-> [n \in Names |-> "Absent"]]

ReadinessTypeOK ==
    /\ watch \in WatchStates
    /\ baseline \in 0 .. OldNodes
    /\ clock \in 0 .. ReadyTimeout
    /\ wakeAt \in 0 .. ReadyTimeout
    /\ checkAt \in Nat
    /\ counting \in {"running", "done"}
    /\ ready \in Nat
    /\ listing \in [status: ListStates, page: Nat,
                    seen: [Names -> MachineStates]]
    /\ readiness_times \in [Percentiles -> 0 .. ReadyTimeout \cup {None}]
    /\ failed_machines \subseteq Names
    /\ readySet \subseteq Names \ existing
    /\ hitSet \in [Percentiles -> SUBSET (Names \ existing)]

ReadinessInitAt(baselines) ==
    /\ watch = "idle"
    /\ baseline \in baselines
    /\ clock = 0 /\ wakeAt = 0 /\ checkAt = 0
    /\ counting = "running"
    /\ ready = 0
    /\ listing = Unlisted
    /\ readiness_times = [p \in Percentiles |-> None]
    /\ failed_machines = {}
    /\ readySet = {}
    /\ hitSet = [p \in Percentiles |-> {}]

(***************************************************************************)
(* The call: an expected count of 0 returns the empty envelope at once;    *)
(* otherwise the first failure check is due immediately.                   *)
(***************************************************************************)
WatchStart ==
    /\ watch = "idle"
    /\ watch' = IF req.count = 0 THEN "returned" ELSE "loop"
    /\ UNCHANGED <<baseline, clock, wakeAt, checkAt, counting, ready, listing,
                   readiness_times, failed_machines, histVars, envVars>>

(* Mutant: the loop forgets its deadline.                                  *)
WatchLoopForever ==
    /\ watch = "loop"
    /\ watch' = IF ~AllHit
                THEN IF clock >= checkAt THEN "check" ELSE "count"
                ELSE "returned"
    /\ UNCHANGED <<baseline, clock, wakeAt, checkAt, counting, ready, listing,
                   readiness_times, failed_machines, histVars, envVars>>

(***************************************************************************)
(* The loop's condition, and whether a failure check is due.               *)
(***************************************************************************)
WatchLoop ==
    /\ watch = "loop"
    /\ watch' = IF clock < ReadyTimeout /\ ~AllHit
                THEN IF clock >= checkAt THEN "check" ELSE "count"
                ELSE "returned"
    /\ UNCHANGED <<baseline, clock, wakeAt, checkAt, counting, ready, listing,
                   readiness_times, failed_machines, histVars, envVars>>

(***************************************************************************)
(* _get_ready_node_count: a failing list counts as 0 ready nodes.          *)
(***************************************************************************)
CountReady ==
    /\ watch \in {"count", "check"}
    /\ counting = "running"
    /\ counting' = "done"
    /\ watch' = IF watch = "count" THEN "apply" ELSE watch
    /\ \/ /\ ready' = oldReady + Cardinality(newReady)
          /\ readySet' = newReady
       \/ /\ ready' = 0
          /\ readySet' = {}
    /\ UNCHANGED <<baseline, clock, wakeAt, checkAt, listing, readiness_times,
                   failed_machines, hitSet, envVars>>

(***************************************************************************)
(* _list_machines reads one page: some of the names not listed yet, at     *)
(* their state of this moment.  The last page leaves no existing Machine   *)
(* out; a page after the MaxPages-th is an error, as is any status but 200 *)
(* or a body that is not JSON.                                             *)
(***************************************************************************)
ListPage ==
    /\ watch = "check"
    /\ listing.status = "running"
    /\ \E P \in SUBSET {n \in Names : listing.seen[n] = "Absent"} :
         LET seen == [n \in Names |-> IF n \in P THEN arm[n] ELSE listing.seen[n]]
         IN  \E last \in BOOLEAN :
               /\ last => \A n \in Names : arm[n] # "Absent" => seen[n] # "Absent"
               /\ listing' = [status |-> IF last THEN "done"
                                         ELSE IF listing.page + 1 = MaxPages
                                         THEN "error" ELSE "running",
                              page   |-> listing.page + 1,
                              seen   |-> seen]
    /\ UNCHANGED <<watch, baseline, clock, wakeAt, checkAt, counting, ready,
                   readiness_times, failed_machines, histVars, envVars>>

ListFails ==
    /\ watch = "check"
    /\ listing.status = "running"
    /\ listing' = [listing EXCEPT !.status = "error"]
    /\ UNCHANGED <<watch, baseline, clock, wakeAt, checkAt, counting, ready,
                   readiness_times, failed_machines, histVars, envVars>>

(***************************************************************************)
(* Both threads are joined.  A failed listing is retried on the next       *)
(* cadence.  Terminal failures raise MachineProvisioningFailed with the    *)
(* timings recorded in earlier rounds: the count that was just read is not *)
(* applied first.                                                          *)
(***************************************************************************)
JoinCheck ==
    /\ watch = "check"
    /\ counting = "done"
    /\ listing.status # "running"
    /\ checkAt' = clock + FailureCheckInterval
    /\ failed_machines' = IF listing.status = "done"
                          THEN TerminalFailures(listing.seen) ELSE {}
    /\ watch' = IF failed_machines' # {} THEN "raised" ELSE "apply"
    /\ UNCHANGED <<baseline, clock, wakeAt, counting, ready, listing,
                   readiness_times, histVars, envVars>>

MinOf(a, b) == IF a < b THEN a ELSE b

(* Mutant: only an exact match counts.                                     *)
HitExactly == {p \in Percentiles : ~Hit(p) /\ ready = Target(p)}

(***************************************************************************)
(* Record the percentiles met by this count, then sleep until the next     *)
(* poll, the next failure check or the deadline, whichever is first.       *)
(***************************************************************************)
NewlyHit == {p \in Percentiles : ~Hit(p) /\ ready >= Target(p)}

WakeTime == MinOf(MinOf(clock + NodePoll, ReadyTimeout), checkAt)

(* The round's local variables: the next round assigns them anew.          *)
EndRound ==
    /\ counting' = "running"
    /\ ready' = 0
    /\ readySet' = {}
    /\ listing' = Unlisted

ApplyCount ==
    /\ watch = "apply"
    /\ readiness_times' = [p \in Percentiles |->
                             IF p \in NewlyHit THEN clock ELSE readiness_times[p]]
    /\ hitSet' = [p \in Percentiles |->
                    IF p \in NewlyHit THEN readySet ELSE hitSet[p]]
    /\ LET sleeps == (\E p \in Percentiles : readiness_times'[p] = None)
                       /\ WakeTime > clock
       IN  /\ watch' = IF sleeps THEN "sleep" ELSE "loop"
           /\ wakeAt' = IF sleeps THEN WakeTime ELSE 0
    /\ EndRound
    /\ UNCHANGED <<baseline, clock, checkAt, failed_machines, envVars>>

WatchWakes ==
    /\ watch = "sleep"
    /\ clock >= wakeAt
    /\ watch' = "loop"
    /\ wakeAt' = 0
    /\ UNCHANGED <<baseline, clock, checkAt, counting, ready, listing,
                   readiness_times, failed_machines, histVars, envVars>>

(***************************************************************************)
(* Time passes at every point of the wait: calls may be slow.              *)
(***************************************************************************)
WatchTick ==
    /\ watch \notin {"idle", "returned", "raised"}
    /\ clock < ReadyTimeout
    /\ clock' = clock + 1
    /\ UNCHANGED <<watch, baseline, wakeAt, checkAt, counting, ready, listing,
                   readiness_times, failed_machines, histVars, envVars>>

(***************************************************************************)
(* All steps but CountReady end by themselves: the ListMachines requests   *)
(* carry a timeout, list_node does not.                                    *)
(***************************************************************************)
BoundedStep ==
    \/ WatchStart \/ WatchLoop \/ ListPage \/ ListFails
    \/ JoinCheck \/ ApplyCount \/ WatchWakes

WatchStep == CountReady \/ BoundedStep

---------------------------------------------------------------------------
(***************************************************************************)
(* The wait on its own: every PUT has been accepted, the snapshot counted  *)
(* some of the pre-existing nodes or failed.                               *)
(***************************************************************************)
readVars == <<envVars, watchVars>>

Landed ==
    /\ req \in Requests
    /\ req.cmd = "scale-machine"
    /\ existing \in {S \in SUBSET Names : Cardinality(S) <= OldNodes}
    /\ arm = [n \in Names |-> "Creating"]
    /\ late = {}
    /\ pool = "Updating"
    /\ oldReady \in 0 .. OldNodes
    /\ newReady = {}

ReadinessSpecInit ==
    /\ Landed
    /\ ReadinessInitAt(0 .. OldNodes)

ReadinessNext ==
    \/ WatchStep
    \/ WatchTick
    \/ /\ watch \notin {"returned", "raised"}
       /\ ReadinessEnv
       /\ UNCHANGED watchVars

ReadinessSpec == ReadinessSpecInit /\ [][ReadinessNext]_readVars

---------------------------------------------------------------------------
(* Properties *)

(***************************************************************************)
(* Types of the wait.                                                      *)
(***************************************************************************)
ReadinessOK == EnvTypeOK /\ ReadinessTypeOK

(***************************************************************************)
(* The recorded timings are consistent: a percentile is met no later than  *)
(* any higher one that is met, whatever counts the polls return, in which  *)
(* order nodes come and go, and whichever list calls fail.                 *)
(***************************************************************************)
TimingsMonotone ==
    \A p, q \in Percentiles :
        (p < q /\ Hit(q)) => Hit(p) /\ readiness_times[p] <= readiness_times[q]

(***************************************************************************)
(* A percentile is met by new nodes that were Ready in one and the same    *)
(* poll: all of its target but as many as there are pre-existing nodes,    *)
(* whatever the snapshot counted.  A snapshot that missed k of those (the  *)
(* list failed, a node was NotReady) lets k of them pass for new; one that *)
(* counted all lets none, and then at least one new node is needed         *)
(* ("pre-existing Ready nodes never satisfy a new-node threshold").        *)
(***************************************************************************)
OnlyNewNodesCount ==
    \A p \in Percentiles :
        Hit(p) => /\ Cardinality(hitSet[p]) >= Target(p) - OldNodes
                  /\ baseline = OldNodes => hitSet[p] # {}

(***************************************************************************)
(* MachineProvisioningFailed is raised only when it is final: the listing  *)
(* is not a snapshot (pages are read one after the other while Machines    *)
(* settle), yet every expected Machine is terminal and the reported ones    *)
(* have failed.                                                            *)
(***************************************************************************)
FailureIsFinal ==
    watch = "raised" =>
        /\ failed_machines # {}
        /\ \A n \in Names : arm[n] \in TerminalStates
        /\ \A n \in failed_machines : arm[n] \in FailureStates

===========================================================================
