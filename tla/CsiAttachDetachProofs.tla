----------------------- MODULE CsiAttachDetachProofs -----------------------
(***************************************************************************)
(* Proofs about CsiAttachDetach for every number of disks, any number of   *)
(* runs and of restarting pods.                                            *)
(***************************************************************************)
EXTENDS CsiAttachDetach, TLAPS

---------------------------------------------------------------------------
(* The inductive invariant *)

Detaching == "detachment"

(***************************************************************************)
(* A run that is under way, or that has just succeeded, has a disk number. *)
(***************************************************************************)
RunSound ==
    /\ pc # "idle" => outcome = "running"
    /\ outcome \in {"running", "success"} => disks \in DiskNumbers /\ runs > 0

(***************************************************************************)
(* The history is not behind the cluster, and a thread that is past its    *)
(* last threshold saw all of the claims or pods.                           *)
(***************************************************************************)
PeakSound ==
    /\ bound <= peak["creation"] /\ ready <= peak["attachment"]
    /\ pc # "idle" => \A t \in Attaching : at[t] = 5 => peak[t] = disks

(***************************************************************************)
(* The phases follow each other: nobody waits for the detachment before    *)
(* the deletion, which begins when both threads are through; and the       *)
(* detachment is through when no volume is left.                           *)
(***************************************************************************)
PhaseSound ==
    /\ pc = "attach" => at[Detaching] = 1
    /\ (pc = "detach" \/ outcome = "success") => \A t \in Attaching : at[t] = 5
    /\ pc = "detach" /\ at[Detaching] = 5 => attached = 0
    /\ outcome = "success" => pc = "idle" /\ at[Detaching] = 5 /\ attached = 0

(***************************************************************************)
(* The run has the last line under every key it has passed.                *)
(***************************************************************************)
Lined(t, i) ==
    log[disks][<<t, i>>] # <<>> /\ Last(log[disks][<<t, i>>]) = runs

LogSound ==
    outcome \in {"running", "success"} =>
        \A t \in Descriptions : \A i \in 1 .. 4 : i < at[t] => Lined(t, i)

Inv == TypeOK /\ RunSound /\ PeakSound /\ PhaseSound /\ LogSound

---------------------------------------------------------------------------
(* Thresholds and threads *)

(***************************************************************************)
(* The last percentile is all of them, and the last detachment threshold   *)
(* none.                                                                   *)
(***************************************************************************)
LEMMA LastThreshold ==
    ASSUME NEW n \in Nat
    PROVE  Percentiles(n)[4] = n /\ DetachThresholds(n)[4] = 0
BY DEF Percentiles, DetachThresholds

LEMMA ThreadFacts ==
    /\ pc = "idle" => Threads = {}
    /\ pc = "attach" => Threads = Attaching
    /\ pc = "detach" => Threads = {Detaching}
BY DEF Threads, Detaching

LEMMA ReachedLast ==
    ASSUME TypeOK, NEW t \in Descriptions, at[t] = 4, Reached(t)
    PROVE  /\ t = "creation" => bound = disks
           /\ t = "attachment" => ready = disks
           /\ t = Detaching => attached = 0
<1>1. /\ disks \in Nat /\ bound \in Nat /\ ready \in Nat /\ attached \in Nat /\ foreign \in Nat
      /\ bound <= disks /\ ready <= disks
  BY CsiAssumption DEF TypeOK
<1>2. Percentiles(disks)[4] = disks /\ DetachThresholds(disks)[4] = 0
  BY <1>1, LastThreshold
<1>3. CASE t = "creation"
  BY <1>1, <1>2, <1>3 DEF Reached, Detaching
<1>4. CASE t = "attachment"
  BY <1>1, <1>2, <1>4 DEF Reached, Detaching
<1>5. CASE t = Detaching
  <2>1. attached + foreign <= 0
    BY <1>2, <1>5 DEF Reached, Detaching
  <2> QED BY <1>1, <1>5, <2>1 DEF Detaching
<1> QED BY <1>3, <1>4, <1>5 DEF Descriptions, Attaching, Detaching

---------------------------------------------------------------------------
(* The run *)

LEMMA StartInv ==
    ASSUME Inv, Start
    PROVE  Inv'
<1> USE CsiAssumption DEF Inv, Start
<1>1. TypeOK'
  BY DEF TypeOK, Descriptions, Attaching
<1>2. RunSound'
  BY DEF RunSound, TypeOK
<1>3. PeakSound'
  BY DEF PeakSound, Attaching, Descriptions
<1>4. PhaseSound'
  BY DEF PhaseSound, Descriptions, Detaching
<1>5. LogSound'
  BY DEF LogSound, Descriptions
<1> QED BY <1>1, <1>2, <1>3, <1>4, <1>5

(***************************************************************************)
(* The process dies: whatever it leaves counts as foreign from now on.     *)
(***************************************************************************)
LEMMA DieInv ==
    ASSUME Inv, NEW left \in Nat, Die(left)
    PROVE  Inv'
<1> USE CsiAssumption DEF Inv, Die
<1>1. TypeOK'
  BY DEF TypeOK, Attaching
<1>2. RunSound' /\ PhaseSound' /\ LogSound'
  BY DEF RunSound, PhaseSound, LogSound
<1>3. PeakSound'
  BY DEF PeakSound, Attaching
<1> QED BY <1>1, <1>2, <1>3

(***************************************************************************)
(* A poll that passes a threshold: the line it writes is the last of its   *)
(* key, and the last threshold is passed only when everything was seen.    *)
(***************************************************************************)
LEMMA PollInv ==
    ASSUME Inv, NEW t \in Descriptions, Poll(t)
    PROVE  Inv'
<1> USE CsiAssumption DEF Inv
<1>0. /\ t \in Threads /\ at[t] \in 1 .. 4 /\ Reached(t) /\ pc # "idle"
      /\ outcome = "running" /\ disks \in DiskNumbers /\ runs \in 1 .. MaxRuns
      /\ <<t, at[t]>> \in Keys
      /\ (pc = "attach" /\ t \in Attaching) \/ (pc = "detach" /\ t = Detaching)
  <2>1. t \in Threads /\ at[t] <= 4 /\ Reached(t)
    BY DEF Poll, Running
  <2>2. at[t] \in 1 .. 4
    BY <2>1 DEF TypeOK
  <2>3. pc # "idle" /\ ((pc = "attach" /\ t \in Attaching) \/ (pc = "detach" /\ t = Detaching))
    BY <2>1, ThreadFacts DEF TypeOK
  <2> QED BY <2>1, <2>2, <2>3 DEF RunSound, TypeOK, Keys
<1>1. /\ log' = [log EXCEPT ![disks][<<t, at[t]>>] = Append(@, runs)]
      /\ at' = [at EXCEPT ![t] = @ + 1]
      /\ UNCHANGED <<pc, raised, metrics, outcome, runs>>
      /\ UNCHANGED <<disks, bound, attached, ready, peak, foreign, restarts>>
  BY DEF Poll, volumes
<1>2. /\ at' \in [Descriptions -> 1 .. 5] /\ at'[t] = at[t] + 1
      /\ \A u \in Descriptions : u # t => at'[u] = at[u]
  BY <1>0, <1>1 DEF TypeOK
<1>3. log' \in [DiskNumbers -> [Keys -> Seq(1 .. MaxRuns)]]
  <2>1. Append(log[disks][<<t, at[t]>>], runs) \in Seq(1 .. MaxRuns)
    BY <1>0 DEF TypeOK
  <2> QED BY <1>0, <1>1, <2>1 DEF TypeOK
<1>4. TypeOK'
  BY <1>1, <1>2, <1>3 DEF TypeOK
<1>5. RunSound'
  BY <1>1 DEF RunSound
<1>6. PeakSound'
  <2>1. at[t] = 4 => /\ t = "creation" => bound = disks
                     /\ t = "attachment" => ready = disks
    BY <1>0, ReachedLast
  <2>2. /\ disks \in Nat /\ bound \in Nat /\ ready \in Nat
        /\ peak["creation"] \in 0 .. disks /\ peak["attachment"] \in 0 .. disks
    BY DEF TypeOK, Attaching
  <2>3. \A u \in Attaching : at'[u] = 5 => peak[u] = disks
    <3> SUFFICES ASSUME NEW u \in Attaching, at'[u] = 5 PROVE peak[u] = disks
      OBVIOUS
    <3>1. CASE u # t
      BY <3>1, <1>0, <1>2 DEF PeakSound, Descriptions
    <3>2. CASE u = t
      <4>1. at[t] = 4
        BY <3>2, <1>0, <1>2
      <4> QED BY <4>1, <3>2, <2>1, <2>2 DEF PeakSound, Attaching
    <3> QED BY <3>1, <3>2
  <2> QED BY <1>1, <2>3 DEF PeakSound
<1>7. PhaseSound'
  <2>1. t = Detaching /\ at[t] = 4 => attached = 0
    BY <1>0, ReachedLast
  <2>2. Detaching \notin Attaching /\ Detaching \in Descriptions /\ Attaching \subseteq Descriptions
    BY DEF Attaching, Descriptions, Detaching
  <2>3. at'[Detaching] = 5 /\ pc = "detach" => attached = 0
    BY <1>0, <1>2, <2>1, <2>2 DEF PhaseSound
  <2>4. pc = "attach" => at'[Detaching] = 1
    BY <1>0, <1>2, <2>2 DEF PhaseSound
  <2>5. pc = "detach" => \A u \in Attaching : at'[u] = 5
    BY <1>0, <1>2, <2>2 DEF PhaseSound
  <2> QED BY <1>0, <1>1, <2>3, <2>4, <2>5 DEF PhaseSound
<1>8. LogSound'
  <2> SUFFICES ASSUME NEW u \in Descriptions, NEW i \in 1 .. 4, i < at'[u]
               PROVE  Lined(u, i)'
    BY DEF LogSound
  <2>1. <<u, i>> \in Keys /\ log[disks] \in [Keys -> Seq(1 .. MaxRuns)]
    BY <1>0 DEF Keys, TypeOK
  <2>2. CASE <<u, i>> # <<t, at[t]>>
    <3>1. log'[disks][<<u, i>>] = log[disks][<<u, i>>]
      BY <1>0, <1>1, <2>1, <2>2 DEF TypeOK
    <3>2. i < at[u]
      BY <1>0, <1>2, <2>2
    <3>3. Lined(u, i)
      BY <1>0, <3>2 DEF LogSound
    <3> QED BY <1>1, <3>1, <3>3 DEF Lined
  <2>3. CASE <<u, i>> = <<t, at[t]>>
    <3> PICK s : s = log[disks][<<u, i>>]
      OBVIOUS
    <3>1. log'[disks][<<u, i>>] = Append(s, runs)
      BY <1>0, <1>1, <2>1, <2>3 DEF TypeOK
    <3>2. s \in Seq(1 .. MaxRuns)
      BY <2>1
    <3>3. Append(s, runs) # <<>> /\ Last(Append(s, runs)) = runs
      <4>1. Len(Append(s, runs)) = Len(s) + 1 /\ Append(s, runs)[Len(s) + 1] = runs
        BY <1>0, <3>2
      <4>2. Append(s, runs) # <<>>
        <5>1. Len(Append(s, runs)) # 0 /\ Len(<<>>) = 0
          BY <3>2, <4>1
        <5> QED BY <5>1
      <4> QED BY <4>1, <4>2 DEF Last
    <3> QED BY <1>1, <3>1, <3>3 DEF Lined
  <2> QED BY <2>2, <2>3
<1> QED BY <1>4, <1>5, <1>6, <1>7, <1>8

LEMMA PollRaisesInv ==
    ASSUME Inv, NEW t \in Descriptions, PollRaises(t)
    PROVE  Inv'
<1> USE DEF Inv, PollRaises, volumes
<1>1. TypeOK'
  BY DEF TypeOK
<1>2. RunSound' /\ PeakSound' /\ PhaseSound' /\ LogSound'
  BY DEF RunSound, PeakSound, PhaseSound, LogSound, Lined
<1> QED BY <1>1, <1>2

LEMMA StartDeletionInv ==
    ASSUME Inv, StartDeletion
    PROVE  Inv'
<1>1. CASE Die(disks)
  BY <1>1, DieInv, CsiAssumption DEF Inv, TypeOK
<1>2. CASE ~Die(disks)
  <2> USE DEF Inv
  <2>1. /\ pc = "attach" /\ pc' = "detach" /\ raised = {}
        /\ \A t \in Attaching : ~Running(t)
        /\ UNCHANGED <<at, raised, log, metrics, outcome, runs>>
        /\ UNCHANGED <<disks, bound, attached, ready, peak, foreign, restarts>>
    BY <1>2 DEF StartDeletion, volumes
  <2>2. \A t \in Attaching : at[t] = 5
    <3> SUFFICES ASSUME NEW t \in Attaching PROVE at[t] = 5
      OBVIOUS
    <3>1. at[t] \in 1 .. 5 /\ ~(at[t] <= 4)
      BY <2>1, ThreadFacts DEF Running, TypeOK, Descriptions
    <3> QED BY <3>1
  <2>3. TypeOK'
    BY <2>1 DEF TypeOK
  <2>4. RunSound' /\ PeakSound' /\ LogSound'
    BY <2>1 DEF RunSound, PeakSound, LogSound, Lined
  <2>5. PhaseSound'
    BY <2>1, <2>2 DEF PhaseSound, RunSound
  <2> QED BY <2>3, <2>4, <2>5
<1> QED BY <1>1, <1>2

LEMMA FinishInv ==
    ASSUME Inv, Finish
    PROVE  Inv'
<1>1. CASE Die(attached)
  BY <1>1, DieInv, CsiAssumption DEF Inv, TypeOK
<1>2. CASE ~Die(attached)
  <2> USE DEF Inv
  <2>1. /\ pc = "detach" /\ pc' = "idle" /\ raised = {} /\ outcome' = "success"
        /\ ~Running(Detaching)
        /\ UNCHANGED <<at, raised, log, metrics, runs>>
        /\ UNCHANGED <<disks, bound, attached, ready, peak, foreign, restarts>>
    BY <1>2 DEF Finish, volumes, Detaching
  <2>2. at[Detaching] = 5
    <3>1. at[Detaching] \in 1 .. 5 /\ ~(at[Detaching] <= 4)
      BY <2>1, ThreadFacts DEF Running, TypeOK, Descriptions, Detaching
    <3> QED BY <3>1
  <2>3. TypeOK'
    BY <2>1 DEF TypeOK
  <2>4. RunSound' /\ PeakSound' /\ LogSound'
    BY <2>1 DEF RunSound, PeakSound, LogSound, Lined
  <2>5. PhaseSound'
    BY <2>1, <2>2 DEF PhaseSound
  <2> QED BY <2>3, <2>4, <2>5
<1> QED BY <1>1, <1>2

LEMMA ParseType ==
    ASSUME NEW lines \in [Keys -> Seq(1 .. MaxRuns)]
    PROVE  Parse(lines) \in [Keys -> 0 .. MaxRuns]
<1> SUFFICES ASSUME NEW k \in Keys
             PROVE  (IF lines[k] = <<>> THEN 0 ELSE Last(lines[k])) \in 0 .. MaxRuns
  BY DEF Parse
<1>1. lines[k] \in Seq(1 .. MaxRuns) /\ MaxRuns \in Nat
  BY CsiAssumption
<1>2. CASE lines[k] # <<>>
  <2>1. Len(lines[k]) \in 1 .. Len(lines[k])
    BY <1>1, <1>2
  <2> QED BY <1>1, <1>2, <2>1 DEF Last
<1> QED BY <1>1, <1>2

LEMMA CollectInv ==
    ASSUME Inv, Collect
    PROVE  Inv'
<1> USE DEF Inv
<1>1. /\ UNCHANGED <<pc, at, raised, log, outcome, runs>>
      /\ UNCHANGED <<disks, bound, attached, ready, peak, foreign, restarts>>
  BY DEF Collect, volumes
<1>2. PICK n \in DiskNumbers : metrics' = [disks |-> n, result |-> Parse(log[n])]
  BY DEF Collect
<1>3. Parse(log[n]) \in [Keys -> 0 .. MaxRuns]
  BY ParseType DEF TypeOK
<1>4. TypeOK'
  BY <1>1, <1>2, <1>3 DEF TypeOK
<1>5. RunSound' /\ PeakSound' /\ PhaseSound' /\ LogSound'
  BY <1>1 DEF RunSound, PeakSound, PhaseSound, LogSound, Lined
<1> QED BY <1>4, <1>5

---------------------------------------------------------------------------
(* The cluster *)

(***************************************************************************)
(* A step of the cluster leaves the process alone: what it has to keep is  *)
(* the counts, and that nothing is attached once the detachment is over.   *)
(***************************************************************************)
LEMMA ClusterInv ==
    ASSUME Inv, UNCHANGED <<disks, process>>,
           ready' \in 0 .. attached', attached' \in 0 .. bound', bound' \in 0 .. disks,
           foreign' \in Nat, restarts' \in 0 .. MaxRestarts,
           peak' \in [Attaching -> 0 .. disks],
           \A t \in Attaching : peak[t] <= peak'[t],
           bound' <= peak'["creation"], ready' <= peak'["attachment"],
           pc # "attach" => attached' <= attached
    PROVE  Inv'
<1> USE DEF Inv, process
<1>1. TypeOK'
  BY DEF TypeOK
<1>2. RunSound' /\ LogSound'
  BY DEF RunSound, LogSound, Lined
<1>3. PeakSound'
  <2>1. ASSUME NEW t \in Attaching, peak[t] = disks PROVE peak'[t] = disks
    <3>1. peak'[t] \in 0 .. disks /\ disks \in Nat /\ disks <= peak'[t]
      BY <2>1, CsiAssumption DEF TypeOK
    <3> QED BY <3>1
  <2> QED BY <2>1 DEF PeakSound
<1>4. PhaseSound'
  <2>1. attached = 0 /\ pc # "attach" => attached' = 0
    BY DEF TypeOK
  <2> QED BY <2>1 DEF PhaseSound
<1> QED BY <1>1, <1>2, <1>3, <1>4

LEMMA CountFacts ==
    ASSUME Inv
    PROVE  /\ disks \in Nat /\ bound \in Nat /\ attached \in Nat /\ ready \in Nat
           /\ foreign \in Nat /\ restarts \in Nat /\ MaxRestarts \in Nat
           /\ ready <= attached /\ attached <= bound /\ bound <= disks
           /\ restarts <= MaxRestarts
           /\ peak \in [Attaching -> 0 .. disks]
           /\ \A t \in Attaching : peak[t] \in Nat /\ peak[t] <= disks
           /\ bound <= peak["creation"] /\ ready <= peak["attachment"]
BY CsiAssumption DEF Inv, TypeOK, PeakSound

LEMMA ObservedFacts ==
    ASSUME Inv, NEW t \in Attaching, NEW n \in 0 .. disks
    PROVE  /\ Observed(t, n) \in [Attaching -> 0 .. disks]
           /\ \A u \in Attaching : peak[u] <= Observed(t, n)[u]
           /\ n <= Observed(t, n)[t]
BY CountFacts DEF Observed

LEMMA VolumeStepsInv ==
    ASSUME Inv, Volumes \/ PodRestarts \/ ForeignDetached
    PROVE  Inv'
<1> USE CountFacts
<1>1. CASE ClaimBound
  <2>1. bound + 1 \in 0 .. disks /\ "creation" \in Attaching /\ "attachment" \in Attaching
    BY <1>1 DEF ClaimBound, Attaching
  <2>2. /\ peak' \in [Attaching -> 0 .. disks]
        /\ \A t \in Attaching : peak[t] <= peak'[t]
        /\ bound' <= peak'["creation"]
    BY <1>1, <2>1, ObservedFacts DEF ClaimBound
  <2>3. ready' <= peak'["attachment"]
    BY <1>1, <2>1, <2>2 DEF ClaimBound
  <2> QED BY <1>1, <2>1, <2>2, <2>3, ClusterInv DEF ClaimBound
<1>2. CASE VolumeAttached
  BY <1>2, ClusterInv DEF VolumeAttached
<1>3. CASE PodReady
  <2>1. ready + 1 \in 0 .. disks /\ "creation" \in Attaching /\ "attachment" \in Attaching
    BY <1>3 DEF PodReady, Attaching
  <2>2. /\ peak' \in [Attaching -> 0 .. disks]
        /\ \A t \in Attaching : peak[t] <= peak'[t]
        /\ ready' <= peak'["attachment"]
    BY <1>3, <2>1, ObservedFacts DEF PodReady
  <2>3. bound' <= peak'["creation"]
    BY <1>3, <2>1, <2>2 DEF PodReady
  <2> QED BY <1>3, <2>1, <2>2, <2>3, ClusterInv DEF PodReady
<1>4. CASE PodGone
  <2>1. ready' \in 0 .. attached' /\ ready' <= peak'["attachment"]
    BY <1>4 DEF PodGone, Attaching
  <2> QED BY <1>4, <2>1, ClusterInv DEF PodGone
<1>5. CASE VolumeDetached
  BY <1>5, ClusterInv DEF VolumeDetached
<1>6. CASE PodRestarts
  <2>1. ready' \in 0 .. attached' /\ ready' <= peak'["attachment"]
    BY <1>6 DEF PodRestarts, Attaching
  <2> QED BY <1>6, <2>1, ClusterInv DEF PodRestarts
<1>7. CASE ForeignDetached
  BY <1>7, ClusterInv DEF ForeignDetached
<1> QED BY <1>1, <1>2, <1>3, <1>4, <1>5, <1>6, <1>7 DEF Volumes

---------------------------------------------------------------------------
(* The theorems *)

LEMMA InitInv == Init => Inv
<1> SUFFICES ASSUME Init PROVE Inv
  OBVIOUS
<1> USE CsiAssumption DEF Init
<1>1. TypeOK
  BY DEF TypeOK, Attaching, Descriptions
<1>2. RunSound /\ LogSound /\ PhaseSound
  BY DEF RunSound, LogSound, PhaseSound
<1>3. PeakSound
  BY DEF PeakSound, Attaching
<1> QED BY <1>1, <1>2, <1>3 DEF Inv

LEMMA NextInv == Inv /\ [Next]_vars => Inv'
<1> SUFFICES ASSUME Inv, [Next]_vars PROVE Inv'
  OBVIOUS
<1>1. CASE UNCHANGED vars
  BY <1>1 DEF vars, Inv, TypeOK, RunSound, PeakSound, PhaseSound, LogSound, Lined
<1>2. CASE Monitors
  BY <1>2, PollInv, PollRaisesInv DEF Monitors
<1> QED BY <1>1, <1>2, StartInv, StartDeletionInv, FinishInv, CollectInv, VolumeStepsInv
        DEF Next

(***************************************************************************)
(* The inductive invariant: how far a thread is and what the log says of   *)
(* this run belong together, and the history is never behind the cluster.  *)
(***************************************************************************)
THEOREM CsiInvariant == Spec => []Inv
BY InitInv, NextInv, PTL DEF Spec

(***************************************************************************)
(* For every number of disks and any restarts of pods: execute does not    *)
(* delete before every claim was bound and every pod ready, and a run that *)
(* succeeded has no volume attached.                                       *)
(***************************************************************************)
THEOREM CompletePhases == Spec => []PhasesAreComplete
<1>1. Inv => PhasesAreComplete
  BY DEF Inv, PhasesAreComplete, PhaseSound, PeakSound
<1> QED BY <1>1, CsiInvariant, PTL

(***************************************************************************)
(* Whatever earlier runs left in the log, collect after a run that         *)
(* succeeded reports that run under each of the twelve keys.               *)
(***************************************************************************)
THEOREM CollectsLastRun == Spec => CollectedIsLastRun
<1> DEFINE A == (metrics' # metrics /\ outcome = "success" /\ metrics'.disks = disks)
                   => \A k \in Keys : metrics'.result[k] = runs
<1>1. Inv /\ [Next]_vars => [A]_vars
  <2> SUFFICES ASSUME Inv, Next, metrics' # metrics, outcome = "success",
                      metrics'.disks = disks, NEW k \in Keys
               PROVE  metrics'.result[k] = runs
    OBVIOUS
  <2> USE DEF Inv
  <2>1. Collect
    BY DEF Next, Start, StartDeletion, Finish, Die, Monitors, Poll, PollRaises, Volumes,
           ClaimBound, VolumeAttached, PodReady, PodGone, VolumeDetached, PodRestarts,
           ForeignDetached, process
  <2>2. metrics'.result = Parse(log[disks])
    BY <2>1 DEF Collect
  <2>3. PICK t \in Descriptions, i \in 1 .. 4 : k = <<t, i>>
    BY DEF Keys
  <2>4. i < at[t]
    BY DEF PhaseSound, Descriptions, Detaching
  <2>5. Lined(t, i)
    BY <2>4 DEF LogSound
  <2> QED BY <2>2, <2>3, <2>5 DEF Lined, Parse
<1> QED BY <1>1, CsiInvariant, PTL DEF Spec, CollectedIsLastRun

===========================================================================
