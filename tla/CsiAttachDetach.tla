-------------------------- MODULE CsiAttachDetach --------------------------
(***************************************************************************)
(* The execute and collect commands of csi/csi.py.  execute creates a      *)
(* StatefulSet with a volume per pod, lets two threads log when the        *)
(* percentiles of claims are bound and of pods are ready, deletes it all   *)
(* and logs when the volumes are detached.  The threads poll without a     *)
(* deadline.  collect reads the log, to which every run appends.           *)
(***************************************************************************)
EXTENDS Naturals, Sequences, SequencesExt

CONSTANTS
    DiskNumbers,    \* values of disk_number
    MaxRuns,        \* bound on the runs
    MaxRestarts,    \* bound on the pods that become unready again
    None

ASSUME CsiAssumption ==
    DiskNumbers \subseteq Nat /\ MaxRuns \in Nat /\ MaxRestarts \in Nat

(***************************************************************************)
(* The descriptions of the monitoring threads, without their prefix.       *)
(***************************************************************************)
Attaching    == {"creation", "attachment"}
Descriptions == Attaching \cup {"detachment"}
Keys         == Descriptions \X (1 .. 4)    \* p50, p90, p99, p100

VARIABLES
    disks,      \* disk_number of the run
    bound,      \* bound claims of its namespace
    attached,   \* its attached volumes
    ready,      \* its ready pods
    peak,       \* history: the most of bound and of ready there have been
    foreign,    \* attached volumes of others, earlier runs included
    pc,         \* where execute is
    at,         \* the threshold every thread is at
    raised,     \* the threads that ended with an exception
    log,        \* attachdetach-<n>.txt: the runs that wrote a line of each key
    metrics,    \* what collect made of them
    outcome,    \* of the last run
    runs, restarts

volumes == <<disks, bound, attached, ready, peak, foreign, restarts>>
process == <<pc, at, raised, log, metrics, outcome, runs>>
vars    == <<disks, bound, attached, ready, peak, foreign, restarts,
             pc, at, raised, log, metrics, outcome, runs>>

TypeOK ==
    /\ disks \in DiskNumbers \cup {0}
    /\ ready \in 0 .. attached /\ attached \in 0 .. bound /\ bound \in 0 .. disks
    /\ peak \in [Attaching -> 0 .. disks]
    /\ foreign \in Nat
    /\ pc \in {"idle", "attach", "detach"}
    /\ at \in [Descriptions -> 1 .. 5]
    /\ raised \subseteq Descriptions
    /\ log \in [DiskNumbers -> [Keys -> Seq(1 .. MaxRuns)]]
    /\ metrics \in [disks : DiskNumbers, result : [Keys -> 0 .. MaxRuns]] \cup {None}
    /\ outcome \in {"none", "running", "success", "failure"}
    /\ runs \in 0 .. MaxRuns /\ restarts \in 0 .. MaxRestarts

Init ==
    /\ disks = 0 /\ bound = 0 /\ attached = 0 /\ ready = 0
    /\ peak = [t \in Attaching |-> 0]
    /\ foreign \in 0 .. 1
    /\ pc = "idle" /\ at = [t \in Descriptions |-> 1] /\ raised = {}
    /\ log = [n \in DiskNumbers |-> [k \in Keys |-> <<>>]] /\ metrics = None
    /\ outcome = "none"
    /\ runs = 0 /\ restarts = 0

---------------------------------------------------------------------------
(* Thresholds *)

(***************************************************************************)
(* calculate_percentiles: p50, p90, p99 and p100.                          *)
(***************************************************************************)
Percentiles(n) == <<n \div 2, (n * 9) \div 10, (n * 99) \div 100, n>>

DetachThresholds(n) == [k \in 1 .. 4 |-> n - Percentiles(n)[k]]

(***************************************************************************)
(* What the check functions count; attachments are those of the cluster.   *)
(***************************************************************************)
Reached(t) ==
    CASE t = "creation"   -> bound >= Percentiles(disks)[at[t]]
      [] t = "attachment" -> ready >= Percentiles(disks)[at[t]]
      [] t = "detachment" -> attached + foreign <= DetachThresholds(disks)[at[t]]

Threads == IF pc = "attach" THEN Attaching
           ELSE IF pc = "detach" THEN {"detachment"} ELSE {}

Running(t) == t \in Threads \ raised /\ at[t] <= 4

---------------------------------------------------------------------------
(* execute_attach_detach *)

(***************************************************************************)
(* Namespace and StatefulSet are created, or the run ends.                 *)
(***************************************************************************)
Start ==
    /\ pc = "idle" /\ runs < MaxRuns
    /\ disks' \in DiskNumbers
    /\ bound' = 0 /\ attached' = 0 /\ ready' = 0
    /\ peak' = [t \in Attaching |-> 0]
    /\ \/ pc' = "attach" /\ outcome' = "running"
       \/ pc' = "idle" /\ outcome' = "failure"
    /\ at' = [t \in Descriptions |-> 1] /\ raised' = {}
    /\ runs' = runs + 1
    /\ UNCHANGED <<foreign, log, metrics, restarts>>

(***************************************************************************)
(* monitor_thresholds: wait_for_condition, then log_duration.              *)
(***************************************************************************)
Poll(t) ==
    /\ Running(t) /\ Reached(t)
    /\ log' = [log EXCEPT ![disks][<<t, at[t]>>] = Append(@, runs)]
    /\ at' = [at EXCEPT ![t] = @ + 1]
    /\ UNCHANGED <<pc, raised, metrics, outcome, runs, volumes>>

PollRaises(t) ==
    /\ Running(t)
    /\ raised' = raised \cup {t}
    /\ UNCHANGED <<pc, at, log, metrics, outcome, runs, volumes>>

(***************************************************************************)
(* The process dies and leaves what it has in the cluster.                 *)
(***************************************************************************)
Die(left) ==
    /\ pc' = "idle" /\ outcome' = "failure"
    /\ foreign' = foreign + left
    /\ disks' = 0 /\ bound' = 0 /\ attached' = 0 /\ ready' = 0
    /\ peak' = [t \in Attaching |-> 0]
    /\ UNCHANGED <<at, raised, log, metrics, runs, restarts>>

(* Mutant: a thread that raised is waited for.                             *)
StartDeletionWaits ==
    /\ pc = "attach" /\ \A t \in Attaching : at[t] = 5
    /\ pc' = "detach"
    /\ UNCHANGED <<at, raised, log, metrics, outcome, runs, volumes>>

(* Mutant: the first thread that ends is enough.                           *)
StartDeletionEarly ==
    /\ pc = "attach" /\ \E t \in Attaching : at[t] = 5
    /\ pc' = "detach"
    /\ UNCHANGED <<at, raised, log, metrics, outcome, runs, volumes>>

(***************************************************************************)
(* The executor waits for both threads; then the StatefulSet and the       *)
(* claims are deleted.                                                     *)
(***************************************************************************)
StartDeletion ==
    /\ pc = "attach" /\ \A t \in Attaching : ~Running(t)
    /\ \/ /\ raised = {} /\ pc' = "detach"
          /\ UNCHANGED <<at, raised, log, metrics, outcome, runs, volumes>>
       \/ Die(disks)

(***************************************************************************)
(* The namespace is deleted last.                                          *)
(***************************************************************************)
Finish ==
    /\ pc = "detach" /\ ~Running("detachment")
    /\ \/ /\ raised = {} /\ pc' = "idle" /\ outcome' = "success"
          /\ UNCHANGED <<at, raised, log, metrics, runs, volumes>>
       \/ Die(attached)

---------------------------------------------------------------------------
(* collect_attach_detach *)

(* Mutant: the first line of a key is kept.                                *)
ParseFirst(lines) ==
    [k \in Keys |-> IF lines[k] = <<>> THEN 0 ELSE Head(lines[k])]

(***************************************************************************)
(* The lines become a dictionary: a later line of the same key wins.       *)
(***************************************************************************)
Parse(lines) ==
    [k \in Keys |-> IF lines[k] = <<>> THEN 0 ELSE Last(lines[k])]

(***************************************************************************)
(* The file is there once a line was written.                              *)
(***************************************************************************)
Collect ==
    /\ pc = "idle"
    /\ \E n \in DiskNumbers :
        /\ \E k \in Keys : log[n][k] # <<>>
        /\ metrics' = [disks |-> n, result |-> Parse(log[n])]
    /\ UNCHANGED <<pc, at, raised, log, outcome, runs, volumes>>

---------------------------------------------------------------------------
(* The cluster *)

Observed(t, n) == [peak EXCEPT ![t] = IF n > @ THEN n ELSE @]

ClaimBound ==
    /\ pc = "attach" /\ bound < disks
    /\ bound' = bound + 1
    /\ peak' = Observed("creation", bound + 1)
    /\ UNCHANGED <<disks, attached, ready, foreign, restarts, process>>

VolumeAttached ==
    /\ pc = "attach" /\ attached < bound
    /\ attached' = attached + 1
    /\ UNCHANGED <<disks, bound, ready, peak, foreign, restarts, process>>

PodReady ==
    /\ pc = "attach" /\ ready < attached
    /\ ready' = ready + 1
    /\ peak' = Observed("attachment", ready + 1)
    /\ UNCHANGED <<disks, bound, attached, foreign, restarts, process>>

PodRestarts ==
    /\ pc = "attach" /\ ready > 0 /\ restarts < MaxRestarts
    /\ ready' = ready - 1 /\ restarts' = restarts + 1
    /\ UNCHANGED <<disks, bound, attached, peak, foreign, process>>

PodGone ==
    /\ pc = "detach" /\ ready > 0
    /\ ready' = ready - 1
    /\ UNCHANGED <<disks, bound, attached, peak, foreign, restarts, process>>

VolumeDetached ==
    /\ pc = "detach" /\ attached > ready
    /\ attached' = attached - 1
    /\ UNCHANGED <<disks, bound, ready, peak, foreign, restarts, process>>

(***************************************************************************)
(* Somebody cleans up behind an earlier run, or not.                       *)
(***************************************************************************)
ForeignDetached ==
    /\ foreign > 0
    /\ foreign' = foreign - 1
    /\ UNCHANGED <<disks, bound, attached, ready, peak, restarts, process>>

Monitors == \E t \in Descriptions : Poll(t) \/ PollRaises(t)
Volumes  == ClaimBound \/ VolumeAttached \/ PodReady \/ PodGone \/ VolumeDetached
Next     == \/ Start \/ StartDeletion \/ Finish \/ Collect \/ Monitors
            \/ Volumes \/ PodRestarts \/ ForeignDetached

(***************************************************************************)
(* Threads and main program run on; the storage does its work in the end.  *)
(***************************************************************************)
Spec ==
    /\ Init /\ [][Next]_vars
    /\ \A t \in Descriptions : WF_vars(Poll(t))
    /\ WF_vars(StartDeletion) /\ WF_vars(Finish)
    /\ WF_vars(Volumes)

---------------------------------------------------------------------------
(* Properties *)

(***************************************************************************)
(* The deletion does not begin before every claim has been bound and every *)
(* pod has been ready, though two threads watch and pods may restart; and  *)
(* a run that succeeded has no volume left in the cluster, although it     *)
(* counts those of the whole cluster.                                      *)
(***************************************************************************)
PhasesAreComplete ==
    /\ pc = "detach" => \A t \in Attaching : peak[t] = disks
    /\ outcome = "success" => attached = 0

(***************************************************************************)
(* collect after a run that succeeded reports that run under every key,    *)
(* whatever lines earlier runs left in the same file.                      *)
(***************************************************************************)
CollectedIsLastRun ==
    [][(metrics' # metrics /\ outcome = "success" /\ metrics'.disks = disks)
          => \A k \in Keys : metrics'.result[k] = runs]_vars

(***************************************************************************)
(* The threads have no deadline: a run hangs only if volumes of others,    *)
(* such as a run that died, stay attached for ever.                        *)
(***************************************************************************)
HangsOnlyOnForeignVolumes ==
    ((outcome = "running") ~> (outcome # "running")) \/ <>[](foreign > 0)

===========================================================================
