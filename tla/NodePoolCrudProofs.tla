------------------------ MODULE NodePoolCrudProofs ------------------------
(***************************************************************************)
(* NodePoolCrud: types, the truth of its success records, the freshness of *)
(* the measured readiness, the count a scaling ends with, and what the     *)
(* records of a whole command say: that the steps of a scaling are a       *)
(* chain, that all() cleans up and that the exit code is honest.           *)
(***************************************************************************)
EXTENDS NodePoolCrud, TLAPS

---------------------------------------------------------------------------
(* ScaleSteps: the steps for every current count, target and step size *)

(***************************************************************************)
(* The count a step starts from: previous_count of _progressive_scale.     *)
(***************************************************************************)
Previous(steps, current, i) == IF i = 1 THEN current ELSE steps[i - 1]

(***************************************************************************)
(* Each step adds at least one and at most size nodes and the last one     *)
(* reaches the target; likewise downwards.                                 *)
(***************************************************************************)
ClimbsTo(steps, current, target, size) ==
    /\ steps \in Seq(Int) /\ Len(steps) > 0
    /\ steps[Len(steps)] = target
    /\ \A i \in 1 .. Len(steps) :
          steps[i] - Previous(steps, current, i) \in 1 .. size

DescendsTo(steps, current, target, size) ==
    /\ steps \in Seq(Int) /\ Len(steps) > 0
    /\ steps[Len(steps)] = target
    /\ \A i \in 1 .. Len(steps) :
          Previous(steps, current, i) - steps[i] \in 1 .. size

(***************************************************************************)
(* Only counts from l to m, and the target is the last one.                *)
(***************************************************************************)
StaysWithin(steps, l, m, target) ==
    /\ steps \in Seq(l .. m) /\ Len(steps) > 0
    /\ steps[Len(steps)] = target

(***************************************************************************)
(* Integer division by a variable.                                         *)
(***************************************************************************)
LEMMA DivFacts ==
    ASSUME NEW a \in Nat, NEW b \in Nat, b > 0
    PROVE  /\ a \div b \in Nat
           /\ b * (a \div b) <= a
           /\ a < b * (a \div b) + b
BY SMT

(***************************************************************************)
(* Dividing what is smaller than the divisor.                              *)
(***************************************************************************)
LEMMA DivSmall ==
    ASSUME NEW a \in Nat, NEW b \in Nat, a < b
    PROVE  a \div b = 0
<1>1. a \div b \in Nat /\ b * (a \div b) <= a
  BY DivFacts
<1>2. ASSUME a \div b >= 1 PROVE FALSE
  <2>1. b * (a \div b) >= b
    BY <1>1, <1>2
  <2> QED
    BY <1>1, <2>1
<1> QED
  BY <1>1, <1>2

(***************************************************************************)
(* range(current + size, target + 1, size) is current + size,              *)
(* current + 2 * size, ... as far as the target.                           *)
(***************************************************************************)
LEMMA PlannedUp ==
    ASSUME NEW current \in Nat, NEW target \in Nat, NEW size \in Nat,
           size > 0, current < target
    PROVE  Planned(current, target, size) =
             [i \in 1 .. ((target - current) \div size) |-> current + i * size]
<1> DEFINE n == (target - current) \div size
<1>1. RangeLen(current + size, target + 1, size) = n
  <2>1. CASE current + size < target + 1
    <3>1. (target + 1) - (current + size) + size - 1 = target - current
      OBVIOUS
    <3> QED
      BY <2>1, <3>1 DEF RangeLen
  <2>2. CASE ~(current + size < target + 1)
    <3>1. target - current \in Nat /\ target - current < size
      BY <2>2
    <3>2. n = 0
      BY <3>1, DivSmall
    <3> QED
      BY <2>2, <3>2 DEF RangeLen
  <2> QED
    BY <2>1, <2>2
<1>2. n \in Nat
  BY DivFacts
<1>3. \A i \in 1 .. n : (current + size) + (i - 1) * size = current + i * size
  BY <1>2
<1>4. Planned(current, target, size) =
        [i \in 1 .. n |-> (current + size) + (i - 1) * size]
  BY <1>1 DEF Planned, PyRange
<1> QED
  BY <1>3, <1>4

(***************************************************************************)
(* range(current - size, target - 1, -size), likewise.                     *)
(***************************************************************************)
LEMMA PlannedDown ==
    ASSUME NEW current \in Nat, NEW target \in Nat, NEW size \in Nat,
           size > 0, target < current
    PROVE  Planned(current, target, size) =
             [i \in 1 .. ((current - target) \div size) |-> current - i * size]
<1> DEFINE n == (current - target) \div size
<1>0. -size \in Int /\ -size < 0 /\ -(-size) = size /\ ~(-size > 0)
  OBVIOUS
<1>1. RangeLen(current - size, target - 1, -size) = n
  <2>1. CASE current - size > target - 1
    <3>1. (current - size) - (target - 1) - (-size) - 1 = current - target
      OBVIOUS
    <3> QED
      BY <1>0, <2>1, <3>1 DEF RangeLen
  <2>2. CASE ~(current - size > target - 1)
    <3>1. current - target \in Nat /\ current - target < size
      BY <2>2
    <3>2. n = 0
      BY <3>1, DivSmall
    <3> QED
      BY <1>0, <2>2, <3>2 DEF RangeLen
  <2> QED
    BY <2>1, <2>2
<1>2. n \in Nat
  BY DivFacts
<1>3. \A i \in 1 .. n : (current - size) + (i - 1) * (-size) = current - i * size
  BY <1>2
<1>4. Planned(current, target, size) =
        [i \in 1 .. n |-> (current - size) + (i - 1) * (-size)]
  BY <1>1 DEF Planned, PyRange
<1> QED
  BY <1>3, <1>4

(***************************************************************************)
(* A progressive scale-up of AKSClient reaches its target without          *)
(* overshooting, in steps of at least one and at most scale_step_size      *)
(* nodes.                                                                  *)
(***************************************************************************)
THEOREM StepsClimb ==
    ASSUME NEW current \in Nat, NEW target \in Nat, NEW size \in Nat,
           size > 0, current < target
    PROVE  ClimbsTo(Steps(current, target, size), current, target, size)
<1> DEFINE n == (target - current) \div size
           planned == Planned(current, target, size)
<1>1. n \in Nat /\ size * n <= target - current /\ target - current < size * n + size
  BY DivFacts
<1>2. planned = [i \in 1 .. n |-> current + i * size]
  BY PlannedUp
<1>3. /\ n * size = size * n /\ n * size \in Nat
      /\ \A i \in 1 .. n : i * size \in Nat /\ i * size <= n * size
  BY <1>1
<1>4. planned \in Seq(Int) /\ Len(planned) = n
  BY <1>1, <1>2, <1>3
<1>5. CASE n = 0
  <2>1. Steps(current, target, size) = <<target>>
    BY <1>4, <1>5 DEF Steps
  <2>2. target - current \in 1 .. size
    BY <1>1, <1>5
  <2> QED
    BY <2>1, <2>2 DEF ClimbsTo, Previous
<1>6. CASE n > 0 /\ planned[n] = target
  <2>1. Steps(current, target, size) = planned
    BY <1>4, <1>6 DEF Steps
  <2>2. ASSUME NEW i \in 1 .. n
        PROVE  planned[i] - Previous(planned, current, i) = size
    <3>1. CASE i = 1
      BY <1>2, <2>2, <3>1 DEF Previous
    <3>2. CASE i # 1
      <4>1. i - 1 \in 1 .. n
        BY <1>1, <2>2, <3>2
      <4>2. (i - 1) * size = i * size - size
        BY <2>2
      <4>3. planned[i] = current + i * size
            /\ planned[i - 1] = current + (i - 1) * size
        BY <1>2, <2>2, <4>1
      <4> QED
        BY <1>3, <3>2, <4>2, <4>3 DEF Previous
    <3> QED
      BY <3>1, <3>2
  <2> QED
    BY <1>1, <1>4, <1>6, <2>1, <2>2 DEF ClimbsTo
<1>7. CASE n > 0 /\ planned[n] # target
  <2>1. \A i \in 1 .. n : planned[i] # target
    <3>1. planned[n] = current + n * size /\ n * size < target - current
      BY <1>1, <1>2, <1>3, <1>7
    <3> SUFFICES ASSUME NEW i \in 1 .. n PROVE planned[i] # target
      OBVIOUS
    <3>2. planned[i] = current + i * size
      BY <1>2
    <3>3. i * size \in Nat /\ i * size <= n * size
      BY <1>3
    <3> HIDE DEF n, planned
    <3> QED
      BY <1>3, <3>1, <3>2, <3>3
  <2>2. Steps(current, target, size) = Append(planned, target)
    BY <1>4, <1>7, <2>1 DEF Steps
  <2> DEFINE steps == Append(planned, target)
  <2>3. /\ steps \in Seq(Int) /\ Len(steps) = n + 1 /\ steps[n + 1] = target
        /\ \A i \in 1 .. n : steps[i] = current + i * size
    BY <1>1, <1>2, <1>4
  <2>4. ASSUME NEW i \in 1 .. (n + 1)
        PROVE  steps[i] - Previous(steps, current, i) \in 1 .. size
    <3>1. CASE i = 1
      <4>1. steps[1] = current + 1 * size
        BY <1>1, <1>7, <2>3
      <4> QED
        BY <3>1, <4>1 DEF Previous
    <3>2. CASE i # 1 /\ i \in 1 .. n
      <4>1. (i - 1) * size = i * size - size /\ i - 1 \in 1 .. n
        BY <1>1, <3>2
      <4>2. steps[i] = current + i * size /\ steps[i - 1] = current + (i - 1) * size
        BY <2>3, <3>2, <4>1
      <4>3. steps[i] - steps[i - 1] = size
        BY <1>3, <3>2, <4>1, <4>2
      <4> HIDE DEF steps
      <4> QED
        BY <3>2, <4>3 DEF Previous
    <3>3. CASE i = n + 1
      <4>0. i - 1 = n /\ n \in 1 .. n
        BY <1>1, <1>7, <3>3
      <4>1. steps[i] = target /\ steps[i - 1] = current + n * size
        <5> HIDE DEF steps, n
        <5> QED
          BY <2>3, <3>3, <4>0
      <4>2. n * size # target - current /\ n * size = size * n /\ n * size \in Nat
        BY <1>1, <1>2, <1>3, <1>7
      <4>3. target - (current + n * size) \in 1 .. size
        BY <1>1, <4>2
      <4>4. i # 1
        BY <1>1, <1>7, <3>3
      <4> HIDE DEF steps
      <4> QED
        BY <4>1, <4>3, <4>4 DEF Previous
    <3>4. i = 1 \/ (i # 1 /\ i \in 1 .. n) \/ i = n + 1
      <4> HIDE DEF n
      <4> QED
        BY <1>1, <2>4
    <3> HIDE DEF steps, n
    <3> QED
      BY <3>1, <3>2, <3>3, <3>4
  <2> QED
    BY <1>1, <2>2, <2>3, <2>4 DEF ClimbsTo
<1> QED
  BY <1>1, <1>5, <1>6, <1>7

(***************************************************************************)
(* A progressive scale-down of AKSClient: the same, downwards.             *)
(***************************************************************************)
THEOREM StepsDescend ==
    ASSUME NEW current \in Nat, NEW target \in Nat, NEW size \in Nat,
           size > 0, target < current
    PROVE  DescendsTo(Steps(current, target, size), current, target, size)
<1> DEFINE n == (current - target) \div size
           planned == Planned(current, target, size)
<1>1. n \in Nat /\ size * n <= current - target /\ current - target < size * n + size
  BY DivFacts
<1>2. planned = [i \in 1 .. n |-> current - i * size]
  BY PlannedDown
<1>3. /\ n * size = size * n /\ n * size \in Nat
      /\ \A i \in 1 .. n : i * size \in Nat /\ i * size <= n * size
  BY <1>1
<1>4. planned \in Seq(Int) /\ Len(planned) = n
  BY <1>1, <1>2, <1>3
<1>5. CASE n = 0
  <2>1. Steps(current, target, size) = <<target>>
    BY <1>4, <1>5 DEF Steps
  <2>2. current - target \in 1 .. size
    BY <1>1, <1>5
  <2> QED
    BY <2>1, <2>2 DEF DescendsTo, Previous
<1>6. CASE n > 0 /\ planned[n] = target
  <2>1. Steps(current, target, size) = planned
    BY <1>4, <1>6 DEF Steps
  <2>2. ASSUME NEW i \in 1 .. n
        PROVE  Previous(planned, current, i) - planned[i] = size
    <3>1. CASE i = 1
      BY <1>2, <2>2, <3>1 DEF Previous
    <3>2. CASE i # 1
      <4>1. i - 1 \in 1 .. n
        BY <1>1, <2>2, <3>2
      <4>2. (i - 1) * size = i * size - size
        BY <2>2
      <4>3. planned[i] = current - i * size
            /\ planned[i - 1] = current - (i - 1) * size
        BY <1>2, <2>2, <4>1
      <4> QED
        BY <1>3, <3>2, <4>2, <4>3 DEF Previous
    <3> QED
      BY <3>1, <3>2
  <2> QED
    BY <1>1, <1>4, <1>6, <2>1, <2>2 DEF DescendsTo
<1>7. CASE n > 0 /\ planned[n] # target
  <2>1. \A i \in 1 .. n : planned[i] # target
    <3>1. planned[n] = current - n * size /\ n * size < current - target
      BY <1>1, <1>2, <1>3, <1>7
    <3> SUFFICES ASSUME NEW i \in 1 .. n PROVE planned[i] # target
      OBVIOUS
    <3>2. planned[i] = current - i * size
      BY <1>2
    <3>3. i * size \in Nat /\ i * size <= n * size
      BY <1>3
    <3> HIDE DEF n, planned
    <3> QED
      BY <1>3, <3>1, <3>2, <3>3
  <2>2. Steps(current, target, size) = Append(planned, target)
    BY <1>4, <1>7, <2>1 DEF Steps
  <2> DEFINE steps == Append(planned, target)
  <2>3. /\ steps \in Seq(Int) /\ Len(steps) = n + 1 /\ steps[n + 1] = target
        /\ \A i \in 1 .. n : steps[i] = current - i * size
    BY <1>1, <1>2, <1>4
  <2>4. ASSUME NEW i \in 1 .. (n + 1)
        PROVE  Previous(steps, current, i) - steps[i] \in 1 .. size
    <3>1. CASE i = 1
      <4>1. steps[1] = current - 1 * size
        BY <1>1, <1>7, <2>3
      <4> QED
        BY <3>1, <4>1 DEF Previous
    <3>2. CASE i # 1 /\ i \in 1 .. n
      <4>1. (i - 1) * size = i * size - size /\ i - 1 \in 1 .. n
        BY <1>1, <3>2
      <4>2. steps[i] = current - i * size /\ steps[i - 1] = current - (i - 1) * size
        BY <2>3, <3>2, <4>1
      <4>3. steps[i - 1] - steps[i] = size
        BY <1>3, <3>2, <4>1, <4>2
      <4> HIDE DEF steps
      <4> QED
        BY <3>2, <4>3 DEF Previous
    <3>3. CASE i = n + 1
      <4>0. i - 1 = n /\ n \in 1 .. n
        BY <1>1, <1>7, <3>3
      <4>1. steps[i] = target /\ steps[i - 1] = current - n * size
        <5> HIDE DEF steps, n
        <5> QED
          BY <2>3, <3>3, <4>0
      <4>2. n * size # current - target /\ n * size = size * n /\ n * size \in Nat
        BY <1>1, <1>2, <1>3, <1>7
      <4>3. (current - n * size) - target \in 1 .. size
        BY <1>1, <4>2
      <4>4. i # 1
        BY <1>1, <1>7, <3>3
      <4> HIDE DEF steps
      <4> QED
        BY <4>1, <4>3, <4>4 DEF Previous
    <3>4. i = 1 \/ (i # 1 /\ i \in 1 .. n) \/ i = n + 1
      <4> HIDE DEF n
      <4> QED
        BY <1>1, <2>4
    <3> HIDE DEF steps, n
    <3> QED
      BY <3>1, <3>2, <3>3, <3>4
  <2> QED
    BY <1>1, <2>2, <2>3, <2>4 DEF DescendsTo
<1> QED
  BY <1>1, <1>5, <1>6, <1>7

(***************************************************************************)
(* With a negative size range() is empty, in both directions.              *)
(***************************************************************************)
LEMMA NegativeSize ==
    ASSUME NEW current \in Nat, NEW target \in Nat, NEW size \in Int,
           size < 0, current # target
    PROVE  Planned(current, target, size) = <<>>
<1>1. CASE current < target
  <2>1. RangeLen(current + size, target + 1, size) = 0
    BY <1>1 DEF RangeLen
  <2> QED
    BY <1>1, <2>1 DEF Planned, PyRange
<1>2. CASE target < current
  <2>1. RangeLen(current - size, target - 1, -size) = 0
    BY <1>2 DEF RangeLen
  <2> QED
    BY <1>2, <2>1 DEF Planned, PyRange
<1> QED
  BY <1>1, <1>2

(***************************************************************************)
(* Whatever the step size, range() stays between the current count and the *)
(* target, and a negative size gives an empty range: the plan has a last   *)
(* count, which is the target, and asks for no count out of bounds.        *)
(***************************************************************************)
THEOREM StepsWithin ==
    ASSUME NEW l \in Nat, NEW m \in Nat,
           NEW current \in l .. m, NEW target \in l .. m,
           NEW size \in Int, size # 0, current # target
    PROVE  StaysWithin(Steps(current, target, size), l, m, target)
<1> DEFINE planned == Planned(current, target, size)
           steps   == Steps(current, target, size)
<1>0. ASSUME size < 0 PROVE planned = <<>>
  BY <1>0, NegativeSize
<1>1. planned \in Seq(l .. m)
  <2>1. CASE size > 0 /\ current < target
    <3> DEFINE n == (target - current) \div size
    <3>1. n \in Nat /\ size * n <= target - current
      BY <2>1, DivFacts
    <3>2. \A i \in 1 .. n : i * size \in Nat /\ i * size <= size * n
      BY <2>1, <3>1
    <3>3. planned = [i \in 1 .. n |-> current + i * size]
      BY <2>1, PlannedUp
    <3> HIDE DEF n, planned
    <3>4. \A i \in 1 .. n : current + i * size \in l .. m
      BY <2>1, <3>1, <3>2
    <3> QED
      BY <3>1, <3>3, <3>4
  <2>2. CASE size > 0 /\ target < current
    <3> DEFINE n == (current - target) \div size
    <3>1. n \in Nat /\ size * n <= current - target
      BY <2>2, DivFacts
    <3>2. \A i \in 1 .. n : i * size \in Nat /\ i * size <= size * n
      BY <2>2, <3>1
    <3>3. planned = [i \in 1 .. n |-> current - i * size]
      <4>1. current \in Nat /\ target \in Nat /\ size \in Nat
        BY <2>2
      <4> QED
        BY <2>2, <4>1, PlannedDown
    <3> HIDE DEF n, planned
    <3>4. \A i \in 1 .. n : current - i * size \in l .. m
      BY <2>2, <3>1, <3>2
    <3> QED
      BY <3>1, <3>3, <3>4
  <2>3. CASE size < 0
    BY <2>3, <1>0
  <2> QED
    BY <2>1, <2>2, <2>3
<1>2. steps = <<target>> \/ steps = planned \/ steps = Append(planned, target)
  BY DEF Steps
<1>3. steps \in Seq(l .. m)
  <2> DEFINE S == l .. m
  <2>1. planned \in Seq(S) /\ target \in S
    BY <1>1
  <2> HIDE DEF planned, steps, S
  <2>2. <<target>> \in Seq(S) /\ Append(planned, target) \in Seq(S)
    BY <2>1
  <2>3. steps \in Seq(S)
    BY <1>2, <2>1, <2>2
  <2> QED
    BY <2>3 DEF S
<1>4. Len(steps) > 0 /\ steps[Len(steps)] = target
  <2>0. current \in Nat /\ target \in Nat
    OBVIOUS
  <2>1. CASE size > 0 /\ current < target
    <3>1. ClimbsTo(steps, current, target, size)
      BY <2>0, <2>1, StepsClimb
    <3> HIDE DEF steps
    <3> QED
      BY <3>1 DEF ClimbsTo
  <2>2. CASE size > 0 /\ target < current
    <3>1. DescendsTo(steps, current, target, size)
      BY <2>0, <2>2, StepsDescend
    <3> HIDE DEF steps
    <3> QED
      BY <3>1 DEF DescendsTo
  <2>3. CASE size < 0
    BY <2>3, <1>0 DEF Steps
  <2> QED
    BY <2>1, <2>2, <2>3
<1> QED
  BY <1>3, <1>4 DEF StaysWithin

---------------------------------------------------------------------------
(* The inductive invariant *)

ScalePhases == {"scale_up", "scale_down"}

(***************************************************************************)
(* The count the scaling of a phase was asked for.                         *)
(***************************************************************************)
Goal == IF phase = "scale_down" THEN args.node_count ELSE args.target_count

(***************************************************************************)
(* Where the call is, in which phase, and what its threads do meanwhile.   *)
(***************************************************************************)
PcSound ==
    /\ pc \in {"provision", "verify"} <=> arm # "idle"
    /\ k8s # "idle" => arm # "idle"
    /\ pc = "verify" => arm = "ok" /\ k8s = "ok"
    /\ phase \in {"start", "done"} => pc = "idle"
    /\ pc = "create" => phase = "create"
    /\ pc = "scale" => phase \in ScalePhases
    /\ pc \in {"delete", "deleting"} => phase = "delete"
    /\ phase = "delete" => pc \in {"delete", "deleting", "returned"}
    /\ pc = "deleting" => kind = "delete"
    /\ pc \in {"step", "provision", "verify"} => kind # "delete"

(***************************************************************************)
(* The plan of the call ends with the requested count; the provisioning    *)
(* is for its first count.                                                 *)
(***************************************************************************)
PlanSound ==
    /\ pc \in {"step", "provision", "verify"} =>
         /\ Len(plan) > 0
         /\ phase \in ScalePhases => plan[Len(plan)] = Goal
    /\ pc \in {"provision", "verify"} => want = Head(plan)

(***************************************************************************)
(* What the client knows of the service: the pool has the wanted count     *)
(* from the moment the PUT is accepted, a DELETE is under way only in the  *)
(* last phase, and an answer belongs to the request under way.             *)
(***************************************************************************)
ServiceSound ==
    /\ arm \in {"poll", "ok"} => poolCount = want
    /\ arm = "ok" => answer = "succeeded"
    /\ inflight \in {"put", "delete"} => answer = "running"
    /\ inflight = "delete" => phase \in {"delete", "done"}
    /\ pc = "deleting" => /\ answer = "running" => inflight = "delete"
                          /\ answer = "succeeded" => poolCount = NoPool

(***************************************************************************)
(* A settled pool stays at its old count until the PUT is accepted.        *)
(***************************************************************************)
FreshSound ==
    (arm # "idle" /\ calm) => poolCount = want \/ (Settled /\ readyNodes # want)

Inv ==
    /\ TypeOK /\ PcSound /\ PlanSound /\ ServiceSound
    /\ FreshSound /\ ReadinessIsFresh /\ ScaledToTarget

---------------------------------------------------------------------------
(* The service and the threads *)

(***************************************************************************)
(* The service and the nodes keep the invariant: in particular a node that *)
(* comes or goes while the pool is settled at its old count ends the calm. *)
(***************************************************************************)
LEMMA ServiceInv ==
    ASSUME Inv, ServiceStep
    PROVE  Inv'
<1> USE ProvisionAssumption
<1>1. UNCHANGED <<crudVars, callVars, threadVars, seenApplied>>
  BY DEF ServiceStep, Service, ForeignStarts, ForeignEnds, RequestSettles, NodeComes,
         NodeGoes, seenVars
<1>2. /\ phase' = phase /\ pc' = pc /\ kind' = kind /\ plan' = plan /\ args' = args
      /\ arm' = arm /\ k8s' = k8s /\ want' = want /\ result' = result
      /\ seenApplied' = seenApplied
  BY <1>1 DEF crudVars, callVars, threadVars
<1>3. PcSound' /\ PlanSound'
  BY <1>2 DEF Inv, PcSound, PlanSound, Goal
<1>4. TypeOK'
  <2>1. CallTypeOK'
    BY <1>1 DEF Inv, TypeOK, CallTypeOK, callVars
  <2>2. /\ poolCount' \in Counts \cup {NoPool}
        /\ inflight' \in {"none", "put", "delete", "foreign"}
        /\ answer' \in {"running", "succeeded", "failed"}
        /\ readyNodes' \in Counts
    BY DEF Inv, TypeOK, ProvTypeOK, Counts, NoPool, ServiceStep, Service, ForeignStarts,
           ForeignEnds, RequestSettles, NodeComes, NodeGoes
  <2>3. calm' \in BOOLEAN
    BY DEF Inv, TypeOK, ProvTypeOK, ServiceStep, Service, ForeignStarts, ForeignEnds,
           RequestSettles, NodeComes, NodeGoes, seenVars
  <2> QED
    BY <1>1, <2>1, <2>2, <2>3 DEF Inv, TypeOK, ProvTypeOK, crudVars, threadVars
<1>5. ServiceSound'
  BY <1>2 DEF Inv, TypeOK, ProvTypeOK, PcSound, ServiceSound, ServiceStep, Service,
              ForeignStarts, ForeignEnds, RequestSettles, NodeComes, NodeGoes
<1>6. ScaledToTarget'
  <2>1. poolCount' = poolCount \/ phase \in {"delete", "done"}
    BY DEF Inv, ServiceSound, ServiceStep, Service, ForeignStarts, ForeignEnds,
           RequestSettles, NodeComes, NodeGoes
  <2> QED
    BY <1>2, <2>1 DEF Inv, ScaledToTarget
<1>7. calm' => calm
  BY DEF Inv, TypeOK, ProvTypeOK, ServiceStep, Service, ForeignStarts, ForeignEnds,
         RequestSettles, NodeComes, NodeGoes, seenVars
<1>8. ReadinessIsFresh'
  BY <1>2, <1>7 DEF Inv, ReadinessIsFresh
<1>9. FreshSound'
  <2> SUFFICES ASSUME arm # "idle", calm', poolCount' # want
               PROVE  Settled' /\ readyNodes' # want
    BY <1>2 DEF FreshSound
  <2>1. poolCount' = poolCount
    <3>1. inflight # "delete"
      BY DEF Inv, PcSound, ServiceSound
    <3> QED
      BY <3>1 DEF ServiceStep, Service, ForeignStarts, ForeignEnds, RequestSettles,
                  NodeComes, NodeGoes
  <2>2. Settled /\ readyNodes # want
    BY <1>7, <2>1 DEF Inv, FreshSound
  <2>3. readyNodes' = readyNodes
    <3>1. ~NodeComes
      BY <2>2 DEF NodeComes, Settled, NoPool, Inv, TypeOK, ProvTypeOK, Counts
    <3>2. ASSUME NodeGoes PROVE FALSE
      <4>1. readyNodes > 0 /\ readyNodes > poolCount
        BY <3>2, Zenon DEF NodeGoes
      <4> QED
        BY <2>2, <4>1 DEF Settled, NoPool, Inv, TypeOK, ProvTypeOK, Counts
    <3> QED
      BY <3>1, <3>2 DEF ServiceStep, Service, ForeignStarts, ForeignEnds, RequestSettles
  <2> QED
    BY <1>2, <2>1, <2>2, <2>3 DEF Settled
<1> QED
  BY <1>3, <1>4, <1>5, <1>6, <1>8, <1>9 DEF Inv

(***************************************************************************)
(* ArmRejected stays within the attempts of begin_create_or_update_with_   *)
(* retry and leaves the request thread in a backoff or with an error.      *)
(***************************************************************************)
LEMMA RejectedFacts ==
    ASSUME ProvTypeOK, ArmRejected
    PROVE  /\ attempt' \in 0 .. (Retries - 1) /\ elapsed' = 0
           /\ arm' \in {"backoff", "raised"}
BY ProvisionAssumption DEF ProvTypeOK, ArmRejected

(***************************************************************************)
(* A step of the request thread: the PUT gives the pool the wanted count   *)
(* in the same step in which the thread begins to poll.                    *)
(***************************************************************************)
LEMMA ArmInv ==
    ASSUME Inv, ArmStep, UNCHANGED callVars, UNCHANGED crudVars
    PROVE  Inv'
<1> USE ProvisionAssumption
<1>0. ProvTypeOK
  BY DEF Inv, TypeOK
<1>1. /\ phase' = phase /\ pc' = pc /\ kind' = kind /\ plan' = plan /\ args' = args
      /\ k8s' = k8s /\ want' = want /\ result' = result /\ readyNodes' = readyNodes
      /\ seenApplied' = seenApplied /\ calm' = calm
  BY DEF crudVars, callVars, seenVars, svcVars, ArmStep, ArmCall, ArmWaits, ArmResult,
         ArmBackoffOver
<1>2. /\ arm \in {"call", "poll", "backoff"}
      /\ arm' \in ArmStates \ {"idle"}
      /\ attempt' \in 0 .. (Retries - 1)
      /\ elapsed' \in 0 .. (MaxPolls - 1)
  BY <1>0, RejectedFacts
     DEF ArmStep, ArmCall, ArmWaits, ArmResult, ArmBackoffOver, ProvTypeOK, ArmStates
<1>3. \/ UNCHANGED <<poolCount, inflight, answer>>
      \/ /\ inflight = "none" /\ poolCount' = want /\ inflight' = "put"
         /\ answer' = "running"
  BY DEF ArmStep, ArmCall, ArmWaits, ArmResult, ArmBackoffOver, svcVars
<1>4. pc = "provision"
  BY <1>2 DEF Inv, PcSound
<1>5. TypeOK'
  <2>1. CallTypeOK'
    BY DEF Inv, TypeOK, CallTypeOK, callVars
  <2> QED
    BY <1>0, <1>1, <1>2, <1>3, <2>1 DEF Inv, TypeOK, ProvTypeOK, crudVars
<1>6. PcSound' /\ PlanSound'
  BY <1>1, <1>2, <1>4 DEF Inv, PcSound, PlanSound, Goal, ArmStates
<1>7. ServiceSound'
  <2>1. arm' \in {"poll", "ok"} => poolCount' = want
    BY RejectedFacts, <1>0
       DEF Inv, ServiceSound, ArmStep, ArmCall, ArmWaits, ArmResult, ArmBackoffOver,
           svcVars
  <2>2. arm' = "ok" => answer' = "succeeded"
    BY RejectedFacts, <1>0
       DEF ArmStep, ArmCall, ArmWaits, ArmResult, ArmBackoffOver, svcVars
  <2> QED
    BY <1>1, <1>3, <1>4, <2>1, <2>2 DEF Inv, ServiceSound
<1>8. FreshSound'
  <2>1. CASE UNCHANGED <<poolCount, inflight, answer>>
    BY <1>1, <1>2, <2>1 DEF Inv, FreshSound, Settled
  <2>2. CASE poolCount' = want
    BY <1>1, <2>2 DEF FreshSound
  <2> QED
    BY <1>3, <2>1, <2>2
<1>9. ReadinessIsFresh' /\ ScaledToTarget'
  BY <1>1, <1>4 DEF Inv, ReadinessIsFresh, ScaledToTarget
<1> QED
  BY <1>5, <1>6, <1>7, <1>8, <1>9 DEF Inv

(***************************************************************************)
(* A step of the waiting thread: what it sees is fresh by FreshSound.      *)
(***************************************************************************)
LEMMA WaitInv ==
    ASSUME Inv, WaitStep, UNCHANGED callVars, UNCHANGED crudVars
    PROVE  Inv'
<1>1. /\ phase' = phase /\ pc' = pc /\ kind' = kind /\ plan' = plan /\ args' = args
      /\ arm' = arm /\ want' = want /\ result' = result
      /\ attempt' = attempt /\ elapsed' = elapsed /\ calm' = calm
      /\ UNCHANGED svcVars
  BY DEF crudVars, callVars, seenVars, WaitStep, WaitAfterCli, WaitLists, WaitWakes,
         WaitTimesOut
<1>2. UNCHANGED <<poolCount, inflight, answer, readyNodes>>
  BY <1>1 DEF svcVars
<1>3. k8s' \in WaitStates /\ k8s # "ok" /\ arm # "idle"
  BY DEF Inv, PcSound, WaitStep, WaitAfterCli, WaitLists, WaitWakes, WaitTimesOut,
         WaitStates
<1>4. seenApplied' \in BOOLEAN
  BY DEF Inv, TypeOK, ProvTypeOK, WaitStep, WaitAfterCli, WaitLists, WaitWakes,
         WaitTimesOut, seenVars
<1>5. TypeOK'
  <2>1. CallTypeOK'
    BY DEF Inv, TypeOK, CallTypeOK, callVars
  <2> QED
    BY <1>1, <1>2, <1>3, <1>4, <2>1 DEF Inv, TypeOK, ProvTypeOK, crudVars
<1>6. pc # "verify"
  BY <1>3 DEF Inv, PcSound
<1>7. PcSound' /\ PlanSound'
  BY <1>1, <1>3, <1>6 DEF Inv, PcSound, PlanSound, Goal
<1>8. ServiceSound' /\ ScaledToTarget'
  BY <1>1, <1>2 DEF Inv, ServiceSound, ScaledToTarget
<1>9. FreshSound'
  BY <1>1, <1>2 DEF Inv, FreshSound, Settled
<1>10. ReadinessIsFresh'
  <2> SUFFICES ASSUME k8s' = "ok", calm PROVE seenApplied'
    BY <1>1 DEF ReadinessIsFresh
  <2>1. readyNodes = want /\ seenApplied' = (poolCount = want)
    BY <1>3 DEF WaitStep, WaitAfterCli, WaitLists, WaitWakes, WaitTimesOut
  <2>2. poolCount = want
    <3>1. poolCount = want \/ (Settled /\ readyNodes # want)
      BY <1>3 DEF Inv, FreshSound
    <3> QED
      BY <2>1, <3>1
  <2> QED
    BY <2>1, <2>2, Zenon
<1> QED
  BY <1>5, <1>7, <1>8, <1>9, <1>10 DEF Inv

---------------------------------------------------------------------------
(* The operations *)

(***************************************************************************)
(* The counts of a command line.                                           *)
(***************************************************************************)
LEMMA CommandFacts ==
    ASSUME TypeOK
    PROVE  /\ args.node_count \in Counts /\ args.target_count \in Counts
           /\ args.scale_step_size \in Int
           /\ args.cmd \in {"create", "scale", "delete", "all"}
BY CommandAssumption DEF TypeOK, CallTypeOK

(***************************************************************************)
(* A record of the open context has the types of a record.                 *)
(***************************************************************************)
LEMMA RecordType ==
    ASSUME NEW k \in Kinds, NEW f \in Counts, NEW t \in Counts, NEW ok \in BOOLEAN,
           CallTypeOK, RecordOf(k, f, t, ok)
    PROVE  /\ records' \in Seq([kind: Kinds, from: Counts, target: Counts, ok: BOOLEAN])
           /\ Len(records') = Len(records) + 1
           /\ records'[Len(records')] = [kind |-> k, from |-> f, target |-> t, ok |-> ok]
<1> DEFINE R == [kind: Kinds, from: Counts, target: Counts, ok: BOOLEAN]
           r == [kind |-> k, from |-> f, target |-> t, ok |-> ok]
<1>1. r \in R /\ records \in Seq(R) /\ records' = Append(records, r)
  BY DEF CallTypeOK, RecordOf
<1> HIDE DEF R, r
<1>2. records' \in Seq(R) /\ Len(records') = Len(records) + 1
      /\ records'[Len(records')] = r
  BY <1>1
<1> QED
  BY <1>2 DEF R, r

(***************************************************************************)
(* Starting the two threads: the calm that FreshSound speaks of begins.    *)
(***************************************************************************)
LEMMA StartFacts ==
    ASSUME NEW count \in Counts, NEW sequential \in BOOLEAN,
           ProvTypeOK, StartProvision(count, sequential)
    PROVE  /\ ProvTypeOK' /\ FreshSound' /\ ReadinessIsFresh'
           /\ want' = count /\ arm' = "call" /\ k8s' \in {"idle", "list"}
           /\ UNCHANGED <<poolCount, inflight, answer>>
<1>1. /\ want' = count /\ arm' = "call" /\ k8s' \in {"idle", "list"}
      /\ attempt' = 0 /\ elapsed' = 0
      /\ poolCount' = poolCount /\ inflight' = inflight /\ answer' = answer
      /\ readyNodes' = readyNodes
  BY DEF StartProvision, svcVars
<1>2. calm' \in BOOLEAN /\ seenApplied' \in BOOLEAN
  BY DEF StartProvision
<1>3. calm' => Settled /\ readyNodes # count
  BY DEF StartProvision
<1>4. FreshSound' /\ ReadinessIsFresh'
  BY <1>1, <1>3 DEF FreshSound, ReadinessIsFresh, Settled
<1>5. ProvTypeOK'
  BY <1>1, <1>2, ProvisionAssumption DEF ProvTypeOK, ArmStates, WaitStates
<1> QED
  BY <1>1, <1>4, <1>5

(***************************************************************************)
(* create_node_pool, and a step of scale_node_pool, start their threads.   *)
(***************************************************************************)
LEMMA CreateCallInv ==
    ASSUME Inv, CreateCall, UNCHANGED crudVars
    PROVE  Inv'
<1>0. /\ TypeOK /\ PcSound /\ ServiceSound
  BY DEF Inv
<1>1. args.node_count \in Counts /\ args.managed \in BOOLEAN /\ ProvTypeOK
  BY <1>0, CommandFacts, CommandAssumption DEF TypeOK, CallTypeOK
<1>2. /\ ProvTypeOK' /\ FreshSound' /\ ReadinessIsFresh'
      /\ want' = args.node_count /\ arm' = "call" /\ k8s' \in {"idle", "list"}
      /\ UNCHANGED <<poolCount, inflight, answer>>
  BY <1>1, StartFacts DEF CreateCall
<1>3. /\ pc = "create" /\ pc' = "provision" /\ kind' = "create" /\ from' = 0
      /\ plan' = <<args.node_count>> /\ UNCHANGED <<args, result, records>>
      /\ phase' = phase /\ phase = "create"
  BY <1>0 DEF CreateCall, crudVars, PcSound
<1>4. plan' \in Seq(Counts) /\ Len(plan') = 1 /\ Head(plan') = args.node_count
  BY <1>1, <1>3
<1>5. TypeOK'
  <2>1. CallTypeOK'
    BY <1>0, <1>3, <1>4, ProvisionAssumption
       DEF TypeOK, CallTypeOK, PCs, Kinds, Counts
  <2> QED
    BY <1>0, <1>2, <2>1 DEF TypeOK, crudVars
<1>6. PcSound'
  BY <1>0, <1>2, <1>3 DEF PcSound
<1>7. PlanSound'
  BY <1>2, <1>3, <1>4 DEF PlanSound, ScalePhases
<1>8. ServiceSound' /\ ScaledToTarget'
  BY <1>0, <1>2, <1>3 DEF ServiceSound, ScaledToTarget
<1> QED
  BY <1>2, <1>5, <1>6, <1>7, <1>8 DEF Inv

(***************************************************************************)
(* A step of _progressive_scale starts the threads for the first count of  *)
(* the plan.                                                               *)
(***************************************************************************)
LEMMA StepStartInv ==
    ASSUME Inv, StepStart, UNCHANGED crudVars
    PROVE  Inv'
<1>0. TypeOK /\ PcSound /\ PlanSound /\ ServiceSound
  BY DEF Inv
<1>1. /\ pc = "step" /\ pc' = "provision"
      /\ UNCHANGED <<args, kind, from, plan, result, records>> /\ phase' = phase
  BY DEF StepStart, crudVars
<1>2. Head(plan) \in Counts /\ ProvTypeOK
  BY <1>0, <1>1 DEF TypeOK, CallTypeOK, PlanSound
<1>3. /\ ProvTypeOK' /\ FreshSound' /\ ReadinessIsFresh'
      /\ want' = Head(plan) /\ arm' = "call" /\ k8s' \in {"idle", "list"}
      /\ UNCHANGED <<poolCount, inflight, answer>>
  BY <1>2, StartFacts DEF StepStart
<1>4. TypeOK'
  BY <1>0, <1>1, <1>3 DEF TypeOK, CallTypeOK, PCs, crudVars
<1>5. PcSound'
  BY <1>0, <1>1, <1>3 DEF PcSound
<1>6. PlanSound'
  BY <1>0, <1>1, <1>3 DEF PlanSound, Goal
<1>7. ServiceSound' /\ ScaledToTarget'
  BY <1>0, <1>1, <1>3 DEF ServiceSound, ScaledToTarget
<1> QED
  BY <1>3, <1>4, <1>5, <1>6, <1>7 DEF Inv

(***************************************************************************)
(* A call that returns with its threads idle.                              *)
(***************************************************************************)
LEMMA ReturnFacts ==
    ASSUME Inv, pc # "idle", pc' = "returned", arm' = "idle", k8s' = "idle",
           phase' = phase, UNCHANGED <<poolCount, inflight, answer>>
    PROVE  PcSound' /\ PlanSound' /\ ServiceSound' /\ FreshSound' /\ ReadinessIsFresh'
BY DEF Inv, PcSound, PlanSound, ServiceSound, FreshSound, ReadinessIsFresh

(***************************************************************************)
(* A create that is refused before its context returns at once.            *)
(***************************************************************************)
LEMMA CreateRefusedInv ==
    ASSUME Inv, CreateRefused, UNCHANGED crudVars
    PROVE  Inv'
<1>0. TypeOK /\ PcSound
  BY DEF Inv
<1>1. /\ pc = "create" /\ pc' = "returned" /\ result' = "raised" /\ plan' = <<>>
      /\ UNCHANGED <<args, kind, from, records>> /\ phase' = phase
      /\ UNCHANGED provVars
  BY DEF CreateRefused, Return, crudVars
<1>2. /\ UNCHANGED <<poolCount, inflight, answer, readyNodes, want, arm, k8s>>
      /\ calm' = calm /\ seenApplied' = seenApplied /\ arm = "idle" /\ k8s = "idle"
      /\ ProvTypeOK'
  BY <1>0, <1>1 DEF provVars, svcVars, threadVars, seenVars, PcSound, TypeOK, ProvTypeOK
<1>3. TypeOK'
  BY <1>0, <1>1, <1>2 DEF TypeOK, CallTypeOK, PCs, Results, crudVars
<1>4. ScaledToTarget'
  BY <1>1 DEF ScaledToTarget
<1> QED
  BY <1>1, <1>2, <1>3, <1>4, ReturnFacts DEF Inv

(***************************************************************************)
(* scale_node_pool up to its first step.                                   *)
(***************************************************************************)
LEMMA ScaleInv ==
    ASSUME Inv, Scale
    PROVE  Inv'
<1>0. TypeOK /\ PcSound /\ ServiceSound
  BY DEF Inv
<1>1. /\ pc = "scale" /\ phase \in ScalePhases /\ phase' = phase
      /\ UNCHANGED <<args, records, provVars, crudVars>>
  BY <1>0 DEF Scale, ScaleCall, PcSound, crudVars
<1>2. /\ UNCHANGED <<poolCount, inflight, answer, readyNodes, want, arm, k8s>>
      /\ calm' = calm /\ seenApplied' = seenApplied /\ arm = "idle" /\ k8s = "idle"
      /\ ProvTypeOK'
  BY <1>0, <1>1 DEF provVars, svcVars, threadVars, seenVars, PcSound, TypeOK, ProvTypeOK
<1>3. ScaleCall(Goal) /\ Goal \in Counts
  BY <1>0, CommandFacts DEF Scale, Goal
<1>4. CASE pc' = "returned"
  <2>1. /\ plan' = <<>> /\ UNCHANGED <<kind, from>>
        /\ \/ result' = "raised"
           \/ result' = "unchanged" /\ poolCount = Goal
    BY <1>3, <1>4 DEF ScaleCall, Return
  <2>2. TypeOK'
    BY <1>0, <1>1, <1>2, <1>4, <2>1 DEF TypeOK, CallTypeOK, PCs, Results, crudVars
  <2>3. ScaledToTarget'
    BY <1>1, <1>2, <2>1 DEF ScaledToTarget, Goal
  <2> QED
    BY <1>1, <1>2, <1>4, <2>2, <2>3, ReturnFacts DEF Inv
<1>5. CASE pc' # "returned"
  <2>1. /\ poolCount \in Counts /\ poolCount # Goal
        /\ Progressive => args.scale_step_size # 0
        /\ kind' \in {"scale_up", "scale_down"} /\ from' = poolCount
        /\ plan' = IF Progressive THEN Steps(poolCount, Goal, args.scale_step_size)
                                  ELSE <<Goal>>
        /\ pc' = "step" /\ result' = result
    BY <1>0, <1>3, <1>5 DEF ScaleCall, Return, TypeOK, ProvTypeOK
  <2>2. plan' \in Seq(Counts) /\ Len(plan') > 0 /\ plan'[Len(plan')] = Goal
    <3>1. CASE Progressive
      <4>1. /\ MaxCount \in Nat /\ poolCount \in 0 .. MaxCount /\ Goal \in 0 .. MaxCount
            /\ args.scale_step_size \in Int /\ args.scale_step_size # 0
        BY <1>0, <1>3, <2>1, <3>1, CommandFacts, ProvisionAssumption DEF Counts
      <4>2. plan' = Steps(poolCount, Goal, args.scale_step_size)
        BY <2>1, <3>1
      <4>3. StaysWithin(Steps(poolCount, Goal, args.scale_step_size), 0, MaxCount, Goal)
        BY <2>1, <4>1, StepsWithin
      <4> QED
        BY <4>2, <4>3 DEF StaysWithin, Counts
    <3>2. CASE ~Progressive
      BY <1>3, <2>1, <3>2
    <3> QED
      BY <3>1, <3>2
  <2>3. TypeOK'
    BY <1>0, <1>1, <1>2, <2>1, <2>2 DEF TypeOK, CallTypeOK, PCs, Kinds, crudVars
  <2>4. Goal' = Goal
    BY <1>1 DEF Goal
  <2>5. PcSound' /\ PlanSound'
    BY <1>0, <1>1, <1>2, <2>1, <2>2, <2>4 DEF PcSound, PlanSound, ScalePhases
  <2>6. ServiceSound' /\ FreshSound' /\ ReadinessIsFresh' /\ ScaledToTarget'
    BY <1>0, <1>1, <1>2, <2>1
       DEF ServiceSound, FreshSound, ReadinessIsFresh, ScaledToTarget
  <2> QED
    BY <2>3, <2>5, <2>6 DEF Inv
<1> QED
  BY <1>4, <1>5

(***************************************************************************)
(* A step whose reads of the pool or the cluster fail.                     *)
(***************************************************************************)
LEMMA StepReadFailsInv ==
    ASSUME Inv, StepReadFails, UNCHANGED crudVars
    PROVE  Inv'
<1>0. TypeOK /\ PcSound /\ PlanSound
  BY DEF Inv
<1>1. /\ pc = "step" /\ pc' = "returned" /\ result' = "raised" /\ plan' = <<>>
      /\ UNCHANGED <<args, kind, from>> /\ phase' = phase /\ want' = Head(plan)
      /\ UNCHANGED <<poolCount, inflight, answer, readyNodes, arm, attempt, elapsed, k8s>>
      /\ calm' = calm /\ seenApplied' = seenApplied
  BY DEF StepReadFails, Return, crudVars, svcVars, seenVars
<1>2. arm' = "idle" /\ k8s' = "idle"
  BY <1>0, <1>1 DEF PcSound
<1>3. TypeOK'
  <2>1. Head(plan) \in Counts
    BY <1>0, <1>1 DEF PlanSound, TypeOK, CallTypeOK
  <2>2. kind \in Kinds /\ from \in Counts /\ CallTypeOK
    BY <1>0 DEF TypeOK, CallTypeOK
  <2>3. records' \in Seq([kind: Kinds, from: Counts, target: Counts, ok: BOOLEAN])
    BY <2>1, <2>2, RecordType DEF StepReadFails
  <2>4. CallTypeOK'
    BY <1>1, <2>2, <2>3 DEF CallTypeOK, PCs, Results
  <2>5. ProvTypeOK'
    BY <1>0, <1>1, <2>1 DEF TypeOK, ProvTypeOK
  <2> QED
    BY <1>0, <2>4, <2>5 DEF TypeOK, crudVars
<1>4. ScaledToTarget'
  BY <1>1 DEF ScaledToTarget
<1> QED
  BY <1>1, <1>2, <1>3, <1>4, ReturnFacts DEF Inv

(***************************************************************************)
(* Leaving a context of a provisioning with its threads idle.              *)
(***************************************************************************)
LEMMA IdleFacts ==
    ASSUME TypeOK, ThreadsIdle, UNCHANGED crudVars, NEW ok \in BOOLEAN, Record(ok)
    PROVE  /\ ProvTypeOK' /\ arm' = "idle" /\ k8s' = "idle" /\ phase' = phase
           /\ UNCHANGED <<poolCount, inflight, answer, want>>
           /\ records' \in Seq([kind: Kinds, from: Counts, target: Counts, ok: BOOLEAN])
           /\ Len(records') = Len(records) + 1
           /\ records'[Len(records')] =
                [kind |-> kind, from |-> from, target |-> want, ok |-> ok]
<1>1. kind \in Kinds /\ from \in Counts /\ want \in Counts /\ CallTypeOK
  BY DEF TypeOK, CallTypeOK, ProvTypeOK
<1>2. RecordOf(kind, from, want, ok)
  BY DEF Record
<1>3. /\ arm' = "idle" /\ k8s' = "idle" /\ attempt' = 0 /\ elapsed' = 0 /\ phase' = phase
      /\ UNCHANGED <<poolCount, inflight, answer, readyNodes, want>>
      /\ calm' = calm /\ seenApplied' = seenApplied
  BY DEF ThreadsIdle, svcVars, seenVars, crudVars
<1>4. ProvTypeOK'
  BY <1>3, ProvisionAssumption DEF TypeOK, ProvTypeOK, ArmStates, WaitStates
<1> QED
  BY <1>1, <1>2, <1>3, <1>4, RecordType

(***************************************************************************)
(* The two threads are joined.                                             *)
(***************************************************************************)
LEMMA JoinInv ==
    ASSUME Inv, Join, UNCHANGED crudVars
    PROVE  Inv'
<1>0. TypeOK /\ PcSound /\ PlanSound /\ ServiceSound
  BY DEF Inv
<1>1. pc = "provision" /\ UNCHANGED <<args, kind, from>> /\ phase' = phase
  BY DEF Join, crudVars
<1>2. CASE Provisioned /\ pc' = "verify" /\ UNCHANGED <<result, plan, records, provVars>>
  <2>1. /\ arm = "ok" /\ k8s = "ok"
        /\ UNCHANGED <<poolCount, inflight, answer, readyNodes, want, arm, k8s>>
        /\ calm' = calm /\ seenApplied' = seenApplied /\ ProvTypeOK'
    BY <1>0, <1>2
       DEF Provisioned, provVars, svcVars, threadVars, seenVars, TypeOK, ProvTypeOK
  <2>2. TypeOK'
    BY <1>0, <1>1, <1>2, <2>1 DEF TypeOK, CallTypeOK, PCs, crudVars
  <2>3. PcSound' /\ PlanSound' /\ ServiceSound'
    BY <1>0, <1>1, <1>2, <2>1 DEF PcSound, PlanSound, ServiceSound, Goal
  <2>4. FreshSound' /\ ReadinessIsFresh' /\ ScaledToTarget'
    BY <1>1, <1>2, <2>1 DEF Inv, FreshSound, ReadinessIsFresh, ScaledToTarget, Settled
  <2> QED
    BY <2>2, <2>3, <2>4 DEF Inv
<1>3. CASE Record(FALSE) /\ Return("raised") /\ ThreadsIdle
  <2>1. pc' = "returned" /\ result' = "raised" /\ plan' = <<>>
    BY <1>3 DEF Return
  <2>2. /\ ProvTypeOK' /\ arm' = "idle" /\ k8s' = "idle"
        /\ UNCHANGED <<poolCount, inflight, answer>>
        /\ records' \in Seq([kind: Kinds, from: Counts, target: Counts, ok: BOOLEAN])
    BY <1>0, <1>3, IdleFacts
  <2>3. TypeOK'
    BY <1>0, <1>1, <2>1, <2>2 DEF TypeOK, CallTypeOK, PCs, Results, crudVars
  <2>4. ScaledToTarget'
    BY <2>1 DEF ScaledToTarget
  <2> QED
    BY <1>1, <2>1, <2>2, <2>3, <2>4, ReturnFacts DEF Inv
<1> QED
  BY <1>2, <1>3 DEF Join

(***************************************************************************)
(* The record of a step, and the next step or the end of the call: after   *)
(* the last count of the plan the pool has the requested one.              *)
(***************************************************************************)
LEMMA VerifyInv ==
    ASSUME Inv, Verify, UNCHANGED crudVars
    PROVE  Inv'
<1>0. TypeOK /\ PcSound /\ PlanSound /\ ServiceSound
  BY DEF Inv
<1>1. PICK ok \in BOOLEAN :
        /\ Record(ok)
        /\ IF ok /\ Len(plan) > 1
           THEN /\ pc' = "step" /\ plan' = Tail(plan) /\ from' = want
                /\ UNCHANGED result
           ELSE /\ Return(IF ok THEN "True" ELSE "raised") /\ UNCHANGED from
  BY DEF Verify
<1>2. /\ pc = "verify" /\ ThreadsIdle /\ UNCHANGED <<args, kind>> /\ phase' = phase
      /\ poolCount = want /\ Len(plan) > 0 /\ want = Head(plan)
      /\ plan \in Seq(Counts) /\ want \in Counts
  BY <1>0 DEF Verify, crudVars, PcSound, PlanSound, ServiceSound, TypeOK, CallTypeOK,
              ProvTypeOK
<1>3. /\ ProvTypeOK' /\ arm' = "idle" /\ k8s' = "idle"
      /\ UNCHANGED <<poolCount, inflight, answer, want>>
      /\ records' \in Seq([kind: Kinds, from: Counts, target: Counts, ok: BOOLEAN])
  BY <1>0, <1>1, <1>2, IdleFacts
<1>4. CASE ok /\ Len(plan) > 1
  <2>1. pc' = "step" /\ plan' = Tail(plan) /\ from' = want /\ result' = result
    BY <1>1, <1>4
  <2>2. /\ plan' \in Seq(Counts) /\ Len(plan') = Len(plan) - 1
        /\ plan'[Len(plan')] = plan[Len(plan)]
    BY <1>2, <1>4, <2>1
  <2>3. TypeOK'
    BY <1>0, <1>2, <1>3, <2>1, <2>2 DEF TypeOK, CallTypeOK, PCs, crudVars
  <2>4. PcSound'
    BY <1>0, <1>2, <1>3, <2>1 DEF PcSound
  <2>5. PlanSound'
    <3>1. Len(plan') > 0 /\ (phase \in ScalePhases => plan'[Len(plan')] = Goal)
      BY <1>0, <1>2, <1>4, <2>2 DEF PlanSound
    <3> QED
      BY <1>2, <2>1, <3>1 DEF PlanSound, Goal
  <2>6. ServiceSound' /\ FreshSound' /\ ReadinessIsFresh' /\ ScaledToTarget'
    BY <1>0, <1>2, <1>3, <2>1
       DEF ServiceSound, FreshSound, ReadinessIsFresh, ScaledToTarget
  <2> QED
    BY <2>3, <2>4, <2>5, <2>6 DEF Inv
<1>5. CASE ~(ok /\ Len(plan) > 1)
  <2>1. /\ pc' = "returned" /\ plan' = <<>> /\ from' = from
        /\ \/ result' = "raised"
           \/ result' = "True" /\ Len(plan) = 1
    <3>1. Return(IF ok THEN "True" ELSE "raised") /\ UNCHANGED from
      BY <1>1, <1>5
    <3>2. CASE ok
      <4>1. ~(Len(plan) > 1)
        BY <1>5, <3>2, Zenon
      <4>2. Len(plan) \in Nat /\ Len(plan) > 0
        BY <1>2
      <4>3. ASSUME NEW n \in Nat, n > 0, ~(n > 1) PROVE n = 1
        BY <4>3
      <4>4. Len(plan) = 1
        BY <4>1, <4>2, <4>3
      <4> QED
        BY <3>1, <3>2, <4>4 DEF Return
    <3>3. CASE ~ok
      BY <3>1, <3>3 DEF Return
    <3> QED
      BY <3>2, <3>3
  <2>2. TypeOK'
    BY <1>0, <1>2, <1>3, <2>1 DEF TypeOK, CallTypeOK, PCs, Results, crudVars
  <2>3. ScaledToTarget'
    <3> SUFFICES ASSUME result' # "raised", phase \in ScalePhases
                 PROVE  poolCount' = Goal'
      BY <1>2 DEF ScaledToTarget, ScalePhases, Goal
    <3>1. plan[Len(plan)] = Goal /\ Head(plan) = plan[Len(plan)]
      BY <1>0, <1>2, <2>1 DEF PlanSound
    <3> QED
      BY <1>2, <1>3, <3>1 DEF Goal
  <2> QED
    BY <1>2, <1>3, <2>1, <2>2, <2>3, ReturnFacts DEF Inv
<1> QED
  BY <1>4, <1>5

(***************************************************************************)
(* delete_node_pool: the DELETE is the request whose answer is awaited.    *)
(***************************************************************************)
LEMMA DeleteCallInv ==
    ASSUME Inv, DeleteCall, UNCHANGED crudVars
    PROVE  Inv'
<1>0. TypeOK /\ PcSound /\ PlanSound /\ ServiceSound
  BY DEF Inv
<1>1. /\ pc = "delete" /\ phase = "delete" /\ phase' = phase
      /\ kind' = "delete" /\ from' = 0 /\ want' = 0 /\ args' = args
      /\ UNCHANGED <<poolCount, readyNodes, arm, attempt, elapsed, k8s>>
      /\ calm' = calm /\ seenApplied' = seenApplied /\ arm = "idle" /\ k8s = "idle"
  BY <1>0 DEF DeleteCall, PcSound, crudVars, seenVars
<1>2. "delete" \in Kinds /\ 0 \in Counts /\ CallTypeOK /\ ProvTypeOK
  BY <1>0, ProvisionAssumption DEF TypeOK, Kinds, Counts
<1>3. ASSUME inflight' \in {"none", "put", "delete", "foreign"},
             answer' \in {"running", "succeeded", "failed"}
      PROVE  ProvTypeOK'
  BY <1>1, <1>2, <1>3 DEF ProvTypeOK
<1>4. CASE /\ inflight' = "delete" /\ answer' = "running"
           /\ pc' = "deleting" /\ UNCHANGED <<result, plan, records>>
  <2>1. TypeOK'
    <3>1. CallTypeOK'
      BY <1>1, <1>2, <1>4 DEF CallTypeOK, PCs
    <3> QED
      BY <1>0, <1>3, <1>4, <3>1 DEF TypeOK, crudVars
  <2> QED
    BY <1>0, <1>1, <1>4, <2>1
       DEF Inv, PcSound, PlanSound, ServiceSound, FreshSound, ReadinessIsFresh,
           ScaledToTarget
<1>5. ASSUME NEW ok \in BOOLEAN, RecordOf("delete", 0, 0, ok), NEW v \in Results,
             Return(v),
             \/ inflight' = "delete" /\ answer' = "running"
             \/ UNCHANGED <<inflight, answer>>
      PROVE  Inv'
  <2>1. pc' = "returned" /\ result' = v /\ plan' = <<>>
    BY <1>5 DEF Return
  <2>2. records' \in Seq([kind: Kinds, from: Counts, target: Counts, ok: BOOLEAN])
    BY <1>2, <1>5, RecordType
  <2>3. TypeOK'
    <3>1. CallTypeOK'
      BY <1>1, <1>2, <1>5, <2>1, <2>2 DEF CallTypeOK, PCs
    <3>2. ProvTypeOK'
      BY <1>2, <1>3, <1>5 DEF ProvTypeOK
    <3> QED
      BY <1>0, <3>1, <3>2 DEF TypeOK, crudVars
  <2> QED
    BY <1>0, <1>1, <1>5, <2>1, <2>3
       DEF Inv, PcSound, PlanSound, ServiceSound, FreshSound, ReadinessIsFresh,
           ScaledToTarget
<1>6. CASE /\ inflight' = "delete" /\ answer' = "running"
           /\ RecordOf("delete", 0, 0, FALSE) /\ Return("raised")
  BY <1>5, <1>6 DEF Results
<1>7. CASE /\ \E ok \in BOOLEAN : /\ RecordOf("delete", 0, 0, ok)
                                 /\ Return(IF ok THEN "True" ELSE "raised")
           /\ UNCHANGED <<inflight, answer>>
  <2>1. PICK ok \in BOOLEAN : /\ RecordOf("delete", 0, 0, ok)
                              /\ Return(IF ok THEN "True" ELSE "raised")
    BY <1>7
  <2>2. (IF ok THEN "True" ELSE "raised") \in Results
    BY DEF Results
  <2> QED
    BY <1>5, <1>7, <2>1, <2>2
<1> QED
  BY <1>4, <1>6, <1>7 DEF DeleteCall

(***************************************************************************)
(* operation.result() of the DELETE returns or raises.                     *)
(***************************************************************************)
LEMMA DeleteResultInv ==
    ASSUME Inv, DeleteResult, UNCHANGED crudVars
    PROVE  Inv'
<1>0. TypeOK /\ PcSound
  BY DEF Inv
<1>1. PICK ok \in BOOLEAN : Record(ok) /\ Return(IF ok THEN "True" ELSE "raised")
  BY DEF DeleteResult
<1>2. /\ pc = "deleting" /\ phase = "delete" /\ phase' = phase
      /\ UNCHANGED <<args, kind, from, poolCount, inflight, answer, arm, k8s>>
      /\ arm = "idle" /\ k8s = "idle" /\ ProvTypeOK'
  BY <1>0 DEF DeleteResult, PcSound, crudVars, provVars, svcVars, threadVars, seenVars,
              TypeOK, ProvTypeOK
<1>3. pc' = "returned" /\ result' \in Results /\ plan' = <<>>
  BY <1>1 DEF Return, Results
<1>4. TypeOK'
  <2>1. kind \in Kinds /\ from \in Counts /\ want \in Counts /\ CallTypeOK
    BY <1>0 DEF TypeOK, CallTypeOK, ProvTypeOK
  <2>2. records' \in Seq([kind: Kinds, from: Counts, target: Counts, ok: BOOLEAN])
    BY <1>1, <2>1, RecordType DEF Record
  <2>3. CallTypeOK'
    BY <1>2, <1>3, <2>1, <2>2 DEF CallTypeOK, PCs
  <2> QED
    BY <1>0, <1>2, <2>3 DEF TypeOK, crudVars
<1>5. ScaledToTarget'
  BY <1>2 DEF ScaledToTarget
<1> QED
  BY <1>2, <1>3, <1>4, <1>5, ReturnFacts DEF Inv

---------------------------------------------------------------------------
(* main() and NodePoolCRUD *)

(***************************************************************************)
(* Entering an operation: no thread runs, and no DELETE is under way       *)
(* before the last one.                                                    *)
(***************************************************************************)
LEMMA EnterInv ==
    ASSUME Inv, NEW p \in Phases, Enter(p), arm = "idle",
           inflight = "delete" => p = "delete",
           results' \in [Phases -> BOOLEAN],
           plugin' \in [valid: BOOLEAN, recorded: {"none", "success", "failure"}],
           UNCHANGED <<exit_code, status>>
    PROVE  Inv'
<1>0. TypeOK /\ PcSound /\ ServiceSound
  BY DEF Inv
<1>1. /\ phase' = p
      /\ pc' = (CASE p \in {"scale_up", "scale_down"} -> "scale" [] OTHER -> p)
      /\ result' = "none" /\ UNCHANGED <<args, kind, from, plan, records>>
      /\ UNCHANGED <<poolCount, inflight, answer, readyNodes>>
      /\ UNCHANGED <<want, arm, attempt, elapsed, k8s>>
      /\ calm' = calm /\ seenApplied' = seenApplied
  BY DEF Enter, provVars, svcVars, threadVars, seenVars
<1>2. /\ pc' \in {"create", "scale", "delete"}
      /\ pc' = "create" => p = "create"
      /\ pc' = "scale" <=> p \in {"scale_up", "scale_down"}
      /\ pc' = "delete" <=> p = "delete"
  BY <1>1 DEF Phases
<1>3. arm' = "idle" /\ k8s' = "idle"
  BY <1>0, <1>1 DEF PcSound
<1>4. TypeOK'
  <2>1. CallTypeOK'
    BY <1>0, <1>1, <1>2 DEF TypeOK, CallTypeOK, PCs, Results
  <2>2. ProvTypeOK'
    BY <1>0, <1>1 DEF TypeOK, ProvTypeOK
  <2> QED
    BY <1>0, <1>1, <2>1, <2>2 DEF TypeOK
<1>5. PcSound'
  BY <1>1, <1>2, <1>3 DEF PcSound, ScalePhases, Phases
<1>6. PlanSound' /\ FreshSound' /\ ReadinessIsFresh' /\ ScaledToTarget'
  BY <1>2, <1>3 DEF PlanSound, FreshSound, ReadinessIsFresh, ScaledToTarget
<1>7. ServiceSound'
  BY <1>0, <1>1, <1>2, <1>3 DEF ServiceSound
<1> QED
  BY <1>4, <1>5, <1>6, <1>7 DEF Inv

(***************************************************************************)
(* The end of the process.                                                 *)
(***************************************************************************)
LEMMA DoneInv ==
    ASSUME Inv, phase' = "done", pc' = "idle", arm = "idle", UNCHANGED provVars,
           UNCHANGED <<args, kind, from, plan, result, records>>,
           results' \in [Phases -> BOOLEAN],
           plugin' \in [valid: BOOLEAN, recorded: {"none", "success", "failure"}],
           exit_code' \in {0, 1}, status' \in {0, 1}
    PROVE  Inv'
<1>0. TypeOK /\ PcSound /\ ServiceSound
  BY DEF Inv
<1>1. /\ UNCHANGED <<poolCount, inflight, answer, readyNodes>>
      /\ UNCHANGED <<want, arm, attempt, elapsed, k8s>>
      /\ calm' = calm /\ seenApplied' = seenApplied
  BY DEF provVars, svcVars, threadVars, seenVars
<1>2. TypeOK'
  BY <1>0, <1>1 DEF TypeOK, CallTypeOK, ProvTypeOK, PCs
<1>3. PcSound' /\ PlanSound' /\ ServiceSound'
  BY <1>0, <1>1 DEF PcSound, PlanSound, ServiceSound
<1>4. FreshSound' /\ ReadinessIsFresh' /\ ScaledToTarget'
  BY <1>0, <1>1 DEF PcSound, FreshSound, ReadinessIsFresh, ScaledToTarget
<1> QED
  BY <1>2, <1>3, <1>4 DEF Inv

(***************************************************************************)
(* main() up to the command: nothing of this process is under way.         *)
(***************************************************************************)
LEMMA StartInv ==
    ASSUME Inv, Start
    PROVE  Inv'
<1>0. TypeOK /\ PcSound /\ ServiceSound
  BY DEF Inv
<1>1. /\ phase = "start" /\ pc = "idle" /\ arm = "idle" /\ inflight # "delete"
      /\ results \in [Phases -> BOOLEAN] /\ exit_code \in {0, 1} /\ status \in {0, 1}
      /\ plugin \in [valid: BOOLEAN, recorded: {"none", "success", "failure"}]
  BY <1>0 DEF Start, TypeOK, PcSound, ServiceSound
<1>2. results' = results /\ exit_code' \in {0, 1} /\ status' \in {0, 1}
  BY <1>1 DEF Start
<1>3. plugin' \in [valid: BOOLEAN, recorded: {"none", "success", "failure"}]
  <2>1. \/ plugin' = plugin
        \/ \E valid \in BOOLEAN, r \in {"none", "success", "failure"} :
             plugin' = [valid |-> valid, recorded |-> r]
    BY DEF Start
  <2> QED
    BY <1>1, <2>1
<1>4. CASE phase' = "done" /\ UNCHANGED poolVars
  <2>1. UNCHANGED provVars /\ UNCHANGED <<args, kind, from, plan, result, records>>
        /\ pc' = pc
    BY <1>4 DEF poolVars, callVars
  <2> QED
    BY <1>1, <1>2, <1>3, <1>4, <2>1, DoneInv
<1>5. CASE Enter(FirstPhase) /\ UNCHANGED <<exit_code, status>>
  <2>1. FirstPhase \in Phases
    BY <1>0, CommandFacts DEF FirstPhase, Phases
  <2> QED
    BY <1>1, <1>2, <1>3, <1>5, <2>1, EnterInv
<1> QED
  BY <1>4, <1>5 DEF Start

(***************************************************************************)
(* An operation has returned: the next one, or the end of the command.     *)
(***************************************************************************)
LEMMA ReturnedInv ==
    ASSUME Inv, Returned
    PROVE  Inv'
<1>0. TypeOK /\ PcSound /\ ServiceSound
  BY DEF Inv
<1>1. /\ pc = "returned" /\ arm = "idle" /\ phase \in Phases
      /\ plugin' = plugin /\ status' = status
  BY <1>0 DEF Returned, TypeOK, PcSound
<1>2. results' \in [Phases -> BOOLEAN]
  BY <1>0, <1>1 DEF Returned, TypeOK
<1>3. CASE NextPhase = "done"
  <2>1. /\ phase' = "done" /\ pc' = "idle" /\ exit_code' \in {0, 1}
        /\ UNCHANGED <<args, kind, from, plan, result, records, provVars>>
    BY <1>3 DEF Returned
  <2> QED
    BY <1>0, <1>1, <1>2, <2>1, DoneInv DEF TypeOK
<1>4. CASE NextPhase # "done"
  <2>1. Enter(NextPhase) /\ exit_code' = exit_code
    BY <1>4 DEF Returned
  <2>2. NextPhase \in Phases /\ phase # "delete"
    BY <1>0, <1>1, <1>4, CommandFacts DEF NextPhase, Phases
  <2>3. inflight # "delete"
    BY <1>0, <1>1, <2>2 DEF ServiceSound, Phases
  <2> QED
    BY <1>0, <1>1, <1>2, <2>1, <2>2, <2>3, EnterInv DEF TypeOK
<1> QED
  BY <1>3, <1>4

---------------------------------------------------------------------------
(* The theorems *)

(***************************************************************************)
(* A process starts with no thread and no request, whatever the pool is.   *)
(***************************************************************************)
LEMMA InitInv ==
    ASSUME Init
    PROVE  Inv
<1> USE ProvisionAssumption DEF Init, ProvInit, CallInit
<1>1. ProvTypeOK
  <2>1. poolCount \in Counts \cup {NoPool} /\ readyNodes \in Counts /\ 0 \in Counts
    BY DEF Counts, NoPool
  <2>2. 0 \in 0 .. (Retries - 1) /\ 0 \in 0 .. (MaxPolls - 1)
    OBVIOUS
  <2>3. calm \in BOOLEAN /\ seenApplied \in BOOLEAN
    OBVIOUS
  <2> QED
    BY <2>1, <2>2, <2>3 DEF ProvTypeOK, ArmStates, WaitStates
<1>2. CallTypeOK
  BY DEF CallTypeOK, PCs, Kinds, Counts, Results
<1>3. TypeOK
  BY <1>1, <1>2 DEF TypeOK, Phases
<1>4. PcSound /\ PlanSound /\ ServiceSound
  BY DEF PcSound, PlanSound, ServiceSound
<1>5. FreshSound /\ ReadinessIsFresh /\ ScaledToTarget
  BY DEF FreshSound, ReadinessIsFresh, ScaledToTarget
<1> QED
  BY <1>3, <1>4, <1>5 DEF Inv

(***************************************************************************)
(* Every step of the process and of the service keeps the invariant.       *)
(***************************************************************************)
LEMMA NextInv ==
    ASSUME Inv, [Next]_vars
    PROVE  Inv'
<1>1. CASE Call
  BY <1>1, ArmInv, WaitInv, CreateCallInv, CreateRefusedInv, StepStartInv,
     StepReadFailsInv, JoinInv, VerifyInv, DeleteCallInv, DeleteResultInv DEF Call, OperationStep, Threads
<1>2. CASE UNCHANGED vars
  <2>1. /\ UNCHANGED <<crudVars, callVars, svcVars, threadVars, seenVars>>
        /\ TypeOK /\ PcSound /\ PlanSound /\ ServiceSound
        /\ FreshSound /\ ReadinessIsFresh /\ ScaledToTarget
    BY <1>2 DEF vars, poolVars, provVars, Inv
  <2>2. ProvTypeOK'
    BY <2>1 DEF svcVars, threadVars, seenVars, TypeOK, ProvTypeOK
  <2>3. CallTypeOK'
    BY <2>1 DEF callVars, TypeOK, CallTypeOK
  <2>4. TypeOK'
    BY <2>1, <2>2, <2>3 DEF crudVars, TypeOK
  <2>5. PcSound' /\ PlanSound'
    BY <2>1 DEF crudVars, callVars, threadVars, PcSound, PlanSound, Goal
  <2>6. ServiceSound' /\ ScaledToTarget'
    BY <2>1 DEF crudVars, callVars, svcVars, threadVars, ServiceSound, ScaledToTarget
  <2>7. FreshSound' /\ ReadinessIsFresh'
    BY <2>1 DEF svcVars, threadVars, seenVars, FreshSound, Settled, ReadinessIsFresh
  <2> QED
    BY <2>4, <2>5, <2>6, <2>7 DEF Inv
<1> QED
  BY <1>1, <1>2, StartInv, ScaleInv, ReturnedInv, ServiceInv DEF Next

(***************************************************************************)
(* The invariant holds in every state of every process.                    *)
(***************************************************************************)
THEOREM CrudInvariant == Spec => []Inv
<1>1. Init => Inv
  BY InitInv
<1>2. Inv /\ [Next]_vars => Inv'
  BY NextInv
<1> QED
  BY <1>1, <1>2, PTL DEF Spec

(***************************************************************************)
(* Types; in particular a progressive scaling asks for no negative count   *)
(* and none above both ends, and a request is tried at most Retries times. *)
(***************************************************************************)
THEOREM CrudTypes == Spec => []TypeOK
<1>1. Inv => TypeOK
  BY DEF Inv
<1> QED
  BY <1>1, CrudInvariant, PTL

(***************************************************************************)
(* instrument_nodepool_provisioning measures the readiness of its own      *)
(* request, for every count, number of retries and timeout.                *)
(***************************************************************************)
THEOREM MeasuredReadinessIsFresh == Spec => []ReadinessIsFresh
<1>1. Inv => ReadinessIsFresh
  BY DEF Inv
<1> QED
  BY <1>1, CrudInvariant, PTL

(***************************************************************************)
(* A scale_node_pool that reports success left the pool at the requested   *)
(* count, for every step size.                                             *)
(***************************************************************************)
THEOREM ScalingReachesTarget == Spec => []ScaledToTarget
<1>1. Inv => ScaledToTarget
  BY DEF Inv
<1> QED
  BY <1>1, CrudInvariant, PTL

(***************************************************************************)
(* A success that OperationContext.__exit__ records is true of the         *)
(* service, for every command line.                                        *)
(***************************************************************************)
THEOREM SuccessRecordsAreTrue == Spec => RecordsAreTrue
<1>1. ASSUME Inv, [Next]_vars
      PROVE  [RecordIsTrue]_vars
  <2>0. TypeOK /\ PcSound /\ ServiceSound /\ CallTypeOK
    BY <1>1 DEF Inv, TypeOK
  <2> SUFFICES ASSUME Next, Len(records') > Len(records), records'[Len(records')].ok
               PROVE  IF records'[Len(records')].kind = "delete" THEN poolCount = NoPool
                      ELSE /\ poolCount = records'[Len(records')].target
                           /\ answer = "succeeded" /\ inflight # "put"
    BY <1>1 DEF RecordIsTrue, Last
  <2>1. OperationStep /\ UNCHANGED crudVars
    <3>1. records' # records
      BY <2>0 DEF CallTypeOK
    <3> QED
      BY <3>1 DEF Next, Start, Enter, Scale, ScaleCall, Returned, Call, Threads,
                  ServiceStep, poolVars, callVars
  <2>2. CASE Verify
    <3>1. PICK ok \in BOOLEAN : Record(ok)
      BY <2>2 DEF Verify
    <3>2. records'[Len(records')] =
            [kind |-> kind, from |-> from, target |-> want, ok |-> ok]
      BY <2>0, <2>1, <2>2, <3>1, IdleFacts DEF Verify
    <3>3. pc = "verify" /\ kind # "delete" /\ arm = "ok"
      BY <2>0, <2>2 DEF Verify, PcSound
    <3> QED
      BY <2>0, <3>2, <3>3 DEF ServiceSound
  <2>3. CASE DeleteResult
    <3>1. PICK ok \in BOOLEAN : (ok => answer = "succeeded") /\ Record(ok)
      BY <2>3 DEF DeleteResult
    <3>2. kind \in Kinds /\ from \in Counts /\ want \in Counts
      BY <2>0 DEF TypeOK, CallTypeOK, ProvTypeOK
    <3>3. records'[Len(records')] =
            [kind |-> kind, from |-> from, target |-> want, ok |-> ok]
      BY <2>0, <3>1, <3>2, RecordType DEF Record
    <3>4. pc = "deleting" /\ kind = "delete"
      BY <2>0, <2>3 DEF DeleteResult, PcSound
    <3> QED
      BY <2>0, <3>1, <3>3, <3>4 DEF ServiceSound
  <2>4. CASE DeleteCall
    <3>1. PICK ok \in BOOLEAN : (ok => poolCount = NoPool) /\ RecordOf("delete", 0, 0, ok)
      <4>1. records' # records
        BY <2>0 DEF CallTypeOK
      <4> QED
        BY <2>4, <4>1 DEF DeleteCall
    <3>2. "delete" \in Kinds /\ 0 \in Counts
      BY ProvisionAssumption DEF Kinds, Counts
    <3>3. records'[Len(records')] =
            [kind |-> "delete", from |-> 0, target |-> 0, ok |-> ok]
      BY <2>0, <3>1, <3>2, RecordType
    <3> QED
      BY <3>1, <3>3
  <2>5. CASE StepReadFails
    <3>1. Head(plan) \in Counts /\ kind \in Kinds /\ from \in Counts
      BY <1>1, <2>0, <2>5 DEF Inv, PlanSound, StepReadFails, CallTypeOK
    <3>2. records'[Len(records')] =
            [kind |-> kind, from |-> from, target |-> Head(plan), ok |-> FALSE]
      BY <2>0, <2>5, <3>1, RecordType DEF StepReadFails
    <3> QED
      BY <3>2
  <2>6. CASE Join
    <3>1. records' # records
      BY <2>0 DEF CallTypeOK
    <3>2. Record(FALSE) /\ ThreadsIdle
      BY <2>6, <3>1 DEF Join
    <3>3. records'[Len(records')] =
            [kind |-> kind, from |-> from, target |-> want, ok |-> FALSE]
      BY <2>0, <2>1, <3>2, IdleFacts
    <3> QED
      BY <3>3
  <2>7. ~CreateCall /\ ~CreateRefused /\ ~StepStart
    <3>1. records' # records
      BY <2>0 DEF CallTypeOK
    <3> QED
      BY <3>1 DEF CreateCall, CreateRefused, StepStart
  <2> QED
    BY <2>1, <2>2, <2>3, <2>4, <2>5, <2>6, <2>7 DEF OperationStep
<1> QED
  BY <1>1, CrudInvariant, PTL DEF Spec, RecordsAreTrue

---------------------------------------------------------------------------
(* The records of a whole command *)

(***************************************************************************)
(* The operation type of a scaling from a to b nodes.                      *)
(***************************************************************************)
Direction(a, b) == IF b > a THEN "scale_up" ELSE "scale_down"

(***************************************************************************)
(* all() moves the pool from node_count to target_count and back, so it is *)
(* never outside these two.                                                *)
(***************************************************************************)
InBounds(c) ==
    \/ args.node_count <= c /\ c <= args.target_count
    \/ args.target_count <= c /\ c <= args.node_count

Outwards == Direction(args.node_count, args.target_count)
Back     == Direction(args.target_count, args.node_count)

(***************************************************************************)
(* What StepsChain asks of one record, and of a record after another.      *)
(***************************************************************************)
Step(k, f, t) ==
    /\ k = "scale_up"   => t > f
    /\ k = "scale_down" => t < f
    /\ (k \in ScalePhases /\ Progressive /\ args.scale_step_size > 0) =>
          t - f \in (- args.scale_step_size) .. args.scale_step_size

(***************************************************************************)
(* The rest of the plan goes on from the count reached so far, in the      *)
(* direction of the open context.                                          *)
(***************************************************************************)
PlanMoves ==
    /\ (pc \in {"step", "provision", "verify"} /\ phase \in ScalePhases) =>
         /\ kind \in ScalePhases
         /\ \A i \in 1 .. Len(plan) : Step(kind, Previous(plan, from, i), plan[i])
         /\ args.cmd = "all" =>
              /\ \A i \in 1 .. Len(plan) : InBounds(plan[i])
              /\ args.node_count # args.target_count
              /\ kind = IF phase = "scale_up" THEN Outwards ELSE Back
    /\ (pc \in {"provision", "verify"} /\ phase = "create") =>
         kind = "create" /\ plan = <<args.node_count>>
    /\ pc = "step" => phase \in ScalePhases

(***************************************************************************)
(* Where the pool is when all() scales.                                    *)
(***************************************************************************)
PoolInBounds ==
    /\ (phase = "create" /\ pc = "returned" /\ result # "raised") =>
          poolCount = args.node_count
    /\ (args.cmd = "all" /\ phase = "scale_up" /\ pc = "scale") =>
          poolCount = args.node_count
    /\ (args.cmd = "all" /\ phase \in ScalePhases) => InBounds(poolCount)

(***************************************************************************)
(* What the last record can be when an operation begins or ends; a record  *)
(* of the open context's type is its previous step, and succeeded.         *)
(***************************************************************************)
LastSound ==
    /\ phase = "start" => records = <<>>
    /\ (phase = "create" /\ pc # "returned") => records = <<>>
    /\ (args.cmd # "all" /\ pc \in {"scale", "delete", "deleting"}) => records = <<>>
    /\ (args.cmd = "all" /\ phase \in ScalePhases) => Len(records) > 0
    /\ (phase = "create" /\ pc = "returned" /\ result # "raised") =>
          Len(records) > 0 /\ Last.kind = "create"
    /\ (args.cmd = "all" /\ pc = "scale") =>
          Last.kind \in (IF phase = "scale_up" THEN {"create"} ELSE {"create", Outwards})
    /\ (args.cmd = "all" /\ phase = "scale_up" /\ pc = "returned") =>
          Last.kind \in {"create", Outwards}
    /\ (phase \in ScalePhases \/ pc \in {"delete", "deleting"}) =>
          records = <<>> \/ Last.kind # "delete"
    /\ (pc \in {"step", "provision", "verify"} /\ Len(records) > 0
          /\ Last.kind = kind) => Last.ok /\ from = Last.target

(***************************************************************************)
(* A failed operation is remembered: by the call until it has returned,    *)
(* then by the results of the phases that are over.                        *)
(***************************************************************************)
Past ==
    CASE phase = "scale_up"   -> {"create"}
      [] phase = "scale_down" -> {"create", "scale_up"}
      [] phase = "delete"     -> {"create", "scale_up", "scale_down"}
      [] OTHER                -> {}

FailureKept ==
    phase # "done" =>
        \/ \A i \in 1 .. Len(records) : records[i].ok
        \/ pc = "returned" /\ result = "raised"
        \/ args.cmd = "all" /\ \E p \in Past : ~results[p]

(***************************************************************************)
(* The delete of the last phase is recorded, and true when it succeeded.   *)
(***************************************************************************)
DeleteSound ==
    /\ phase = "start" => ~results["create"]
    /\ (phase = "delete" /\ pc = "returned") =>
         /\ Len(records) > 0 /\ Last.kind = "delete"
         /\ result # "raised" => poolCount = NoPool

History ==
    /\ PlanMoves /\ PoolInBounds /\ LastSound /\ FailureKept /\ DeleteSound
    /\ StepsChain /\ AllCleansUp /\ ExitCodeIsHonest

---------------------------------------------------------------------------
(* Appending a record *)

(***************************************************************************)
(* A sequence with one more element.                                       *)
(***************************************************************************)
LEMMA AppendFacts ==
    ASSUME NEW R, NEW s \in Seq(R), NEW r \in R
    PROVE  /\ Len(Append(s, r)) = Len(s) + 1 /\ Len(s) \in Nat
           /\ Append(s, r)[Len(s) + 1] = r
           /\ \A i \in 1 .. Len(s) : Append(s, r)[i] = s[i] /\ s[i] \in R
OBVIOUS

(***************************************************************************)
(* A record that is a step of its own and continues the one before it      *)
(* keeps the chain.                                                        *)
(***************************************************************************)
LEMMA ChainGrows ==
    ASSUME TypeOK, StepsChain, args' = args,
           NEW k \in Kinds, NEW f \in Counts, NEW t \in Counts, NEW ok \in BOOLEAN,
           RecordOf(k, f, t, ok), Step(k, f, t),
           (Len(records) > 0 /\ Last.kind = k) => Last.ok /\ f = Last.target
    PROVE  StepsChain'
<1> DEFINE R == [kind: Kinds, from: Counts, target: Counts, ok: BOOLEAN]
           r == [kind |-> k, from |-> f, target |-> t, ok |-> ok]
<1>1. r \in R /\ records \in Seq(R) /\ records' = Append(records, r)
  BY DEF TypeOK, CallTypeOK, RecordOf
<1>2. r.kind = k /\ r.from = f /\ r.target = t
  OBVIOUS
<1> HIDE DEF R, r
<1>3. /\ Len(records) \in Nat /\ Len(records') = Len(records) + 1
      /\ records'[Len(records) + 1] = r
      /\ \A i \in 1 .. Len(records) : records'[i] = records[i]
  BY <1>1, AppendFacts
<1> DEFINE n == Len(records)
<1>4. Progressive' = Progressive
  BY DEF Progressive
<1> SUFFICES ASSUME NEW i \in 1 .. n + 1
             PROVE  LET q == records'[i]
                    IN  /\ q.kind = "scale_up"   => q.target > q.from
                        /\ q.kind = "scale_down" => q.target < q.from
                        /\ (q.kind \in {"scale_up", "scale_down"} /\ Progressive
                              /\ args.scale_step_size > 0) =>
                             q.target - q.from \in
                                (- args.scale_step_size) .. args.scale_step_size
                        /\ (i > 1 /\ records'[i - 1].kind = q.kind) =>
                             records'[i - 1].ok /\ q.from = records'[i - 1].target
  BY <1>3, <1>4 DEF StepsChain
<1>5. CASE i \in 1 .. n
  <2>1. i > 1 => i - 1 \in 1 .. n
    BY <1>3, <1>5
  <2>2. records'[i] = records[i] /\ (i > 1 => records'[i - 1] = records[i - 1])
    BY <1>3, <1>5, <2>1
  <2> QED
    BY <1>5, <2>2 DEF StepsChain
<1>6. CASE i = n + 1
  <2>1. records'[i] = r /\ (i > 1 => n > 0 /\ records'[i - 1] = Last)
    <3>1. i > 1 => n > 0 /\ i - 1 = n /\ n \in 1 .. n
      BY <1>3, <1>6
    <3> QED
      BY <1>3, <1>6, <3>1 DEF Last
  <2> HIDE DEF n
  <2> QED
    BY <1>2, <2>1 DEF Step, ScalePhases, n
<1> QED
  BY <1>3, <1>5, <1>6

(***************************************************************************)
(* The last record after an append, and whether every record is a success. *)
(***************************************************************************)
LEMMA LastGrows ==
    ASSUME TypeOK,
           NEW k \in Kinds, NEW f \in Counts, NEW t \in Counts, NEW ok \in BOOLEAN,
           RecordOf(k, f, t, ok)
    PROVE  /\ Len(records') > 0 /\ records' # <<>>
           /\ Last'.kind = k /\ Last'.ok = ok /\ Last'.target = t
           /\ (ok /\ \A i \in 1 .. Len(records) : records[i].ok)
                => \A i \in 1 .. Len(records') : records'[i].ok
<1> DEFINE R == [kind: Kinds, from: Counts, target: Counts, ok: BOOLEAN]
           r == [kind |-> k, from |-> f, target |-> t, ok |-> ok]
<1>1. r \in R /\ records \in Seq(R) /\ records' = Append(records, r)
  BY DEF TypeOK, CallTypeOK, RecordOf
<1>2. r.kind = k /\ r.ok = ok /\ r.target = t
  OBVIOUS
<1> HIDE DEF R, r
<1>3. /\ Len(records) \in Nat /\ Len(records') = Len(records) + 1
      /\ records'[Len(records) + 1] = r
      /\ \A i \in 1 .. Len(records) : records'[i] = records[i]
  BY <1>1, AppendFacts
<1>4. Len(records') > 0 /\ records' # <<>> /\ Last' = r
  BY <1>3 DEF Last
<1>5. \A i \in 1 .. Len(records') : i \in 1 .. Len(records) \/ i = Len(records) + 1
  BY <1>3
<1> QED
  BY <1>2, <1>3, <1>4, <1>5

---------------------------------------------------------------------------
(* The history, one lemma per operation *)

(***************************************************************************)
(* The service and the two threads: only the pool's count may change, to   *)
(* the count of the step under way, or to none when a DELETE succeeds.     *)
(***************************************************************************)
LEMMA QuietHistory ==
    ASSUME Inv, History, UNCHANGED <<crudVars, callVars>>,
           \/ poolCount' = poolCount
           \/ pc = "provision" /\ poolCount' = Head(plan)
           \/ phase = "delete" /\ poolCount' = NoPool
    PROVE  History'
<1>1. /\ UNCHANGED <<phase, results, plugin, exit_code, status>>
      /\ UNCHANGED <<args, pc, kind, from, plan, result, records>>
  BY DEF crudVars, callVars
<1>2. /\ PlanMoves' /\ LastSound' /\ FailureKept' /\ StepsChain' /\ ExitCodeIsHonest'
  BY <1>1 DEF History, PlanMoves, LastSound, FailureKept, StepsChain,
       ExitCodeIsHonest, Step, InBounds, Outwards, Back, Last, Past, Progressive
<1>3. pc = "provision" => Head(plan) = plan[1] /\ 1 \in 1 .. Len(plan)
  BY DEF Inv, TypeOK, CallTypeOK, PlanSound
<1>4. phase \in {"create", "scale_up", "scale_down", "start", "done"} => phase # "delete"
  OBVIOUS
<1>5. PoolInBounds'
  <2>1. (args.cmd = "all" /\ phase \in ScalePhases) => InBounds(poolCount)'
    <3> SUFFICES ASSUME args.cmd = "all", phase \in ScalePhases PROVE InBounds(poolCount)'
      OBVIOUS
    <3>1. InBounds(poolCount)
      BY DEF History, PoolInBounds
    <3>2. pc = "provision" => InBounds(plan[1])
      BY <1>3 DEF History, PlanMoves
    <3>3. poolCount' = poolCount \/ (pc = "provision" /\ poolCount' = plan[1])
      BY <1>3 DEF ScalePhases
    <3> QED
      BY <1>1, <3>1, <3>2, <3>3 DEF InBounds
  <2>2. pc \in {"returned", "scale"} /\ phase # "delete" => poolCount' = poolCount
    OBVIOUS
  <2> QED
    BY <1>1, <2>1, <2>2 DEF History, PoolInBounds
<1>6. DeleteSound' /\ AllCleansUp'
  <2>1. phase = "done" => pc = "idle"
    BY DEF Inv, PcSound
  <2>2. pc = "returned" /\ phase = "delete" => poolCount' \in {poolCount, NoPool}
    OBVIOUS
  <2>3. phase = "done" => poolCount' = poolCount
    BY <2>1
  <2> QED
    BY <1>1, <2>2, <2>3 DEF History, DeleteSound, AllCleansUp, Last
<1> QED
  BY <1>2, <1>5, <1>6 DEF History

(***************************************************************************)
(* The threads of a provisioning and the service are such steps.           *)
(***************************************************************************)
LEMMA ThreadsHistory ==
    ASSUME Inv, History, ServiceStep \/ (Threads /\ UNCHANGED crudVars)
    PROVE  History'
<1>1. UNCHANGED <<crudVars, callVars>>
  BY DEF ServiceStep, Threads
<1>2. CASE ServiceStep
  <2>1. \/ poolCount' = poolCount
        \/ inflight = "delete" /\ poolCount' = NoPool
    BY <1>2 DEF ServiceStep, Service, ForeignStarts, ForeignEnds, RequestSettles,
                NodeComes, NodeGoes
  <2>2. inflight = "delete" => phase = "delete"
    BY <1>2 DEF ServiceStep, Inv, ServiceSound
  <2> QED
    BY <1>1, <2>1, <2>2, QuietHistory
<1>3. CASE Threads
  <2>1. \/ poolCount' = poolCount
        \/ arm = "call" /\ poolCount' = want
    BY <1>3 DEF Threads, ArmStep, WaitStep, ArmCall, ArmWaits, ArmResult,
         ArmBackoffOver, WaitAfterCli, WaitLists, WaitWakes, WaitTimesOut, svcVars
  <2>2. arm = "call" => pc = "provision" /\ want = Head(plan)
    BY DEF Inv, PcSound, PlanSound
  <2> QED
    BY <1>1, <2>1, <2>2, QuietHistory
<1> QED
  BY <1>2, <1>3

(***************************************************************************)
(* A step that leaves the records alone and stays within a provisioning.   *)
(***************************************************************************)
LEMMA ProvisionHistory ==
    ASSUME Inv, History, UNCHANGED crudVars,
           CreateCall \/ StepStart \/ (Join /\ records' = records)
    PROVE  History'
<1>0. TypeOK /\ PcSound
  BY DEF Inv
<1>1. UNCHANGED <<phase, results, exit_code, args, records, poolCount, result>>
  BY <1>0 DEF CreateCall, StepStart, Join, StartProvision, svcVars, crudVars, Record,
         RecordOf, TypeOK, CallTypeOK, provVars, ThreadsIdle, Return
<1>2. \/ /\ pc = "create" /\ phase = "create" /\ pc' = "provision"
         /\ kind' = "create" /\ plan' = <<args.node_count>>
      \/ /\ pc = "step" /\ pc' = "provision" /\ UNCHANGED <<kind, from, plan>>
      \/ /\ pc = "provision" /\ pc' = "verify" /\ UNCHANGED <<kind, from, plan>>
  <2>1. CASE CreateCall
    BY <1>0, <2>1 DEF CreateCall, PcSound
  <2>2. CASE StepStart
    BY <2>2 DEF StepStart
  <2>3. CASE Join /\ records' = records
    <3>1. ~Record(FALSE)
      <4> DEFINE R == [kind: Kinds, from: Counts, target: Counts, ok: BOOLEAN]
      <4>1. records \in Seq(R)
        BY <1>0 DEF TypeOK, CallTypeOK
      <4>2. \A r : Len(Append(records, r)) = Len(records) + 1 /\ Len(records) \in Nat
        BY <4>1
      <4> QED
        BY <2>3, <4>2 DEF Record, RecordOf
    <3> QED
      BY <2>3, <3>1 DEF Join
  <2> QED
    BY <2>1, <2>2, <2>3
<1>3. PlanMoves'
  BY <1>1, <1>2 DEF History, PlanMoves, Step, InBounds, Outwards, Back, Progressive,
                    ScalePhases
<1>4. PoolInBounds' /\ DeleteSound'
  BY <1>1, <1>2 DEF History, PoolInBounds, DeleteSound, InBounds
<1>5. LastSound'
  BY <1>1, <1>2 DEF History, LastSound, Last, ScalePhases
<1>6. FailureKept'
  BY <1>1, <1>2 DEF History, FailureKept, Past
<1>7. StepsChain' /\ AllCleansUp' /\ ExitCodeIsHonest'
  BY <1>1 DEF History, StepsChain, Progressive, AllCleansUp, Last, ExitCodeIsHonest
<1> QED
  BY <1>3, <1>4, <1>5, <1>6, <1>7 DEF History

(***************************************************************************)
(* The plan of a scaling from c to g nodes moves towards g with every      *)
(* step, by at most the step size, and stays between the two.              *)
(***************************************************************************)
LEMMA PlanFacts ==
    ASSUME TypeOK, NEW c \in Counts, NEW g \in Counts, c # g, NEW steps,
           Progressive => args.scale_step_size # 0,
           steps = IF Progressive THEN Steps(c, g, args.scale_step_size) ELSE <<g>>
    PROVE  /\ \A j \in 1 .. Len(steps) :
                Step(Direction(c, g), Previous(steps, c, j), steps[j])
           /\ \A l, m \in Nat : c \in l .. m /\ g \in l .. m =>
                \A j \in 1 .. Len(steps) : steps[j] \in l .. m
<1> DEFINE size == args.scale_step_size
<1>0. size \in Int /\ c \in Nat /\ g \in Nat
  BY CommandFacts, ProvisionAssumption DEF Counts
<1> HIDE DEF size
<1>1. CASE steps = <<g>> /\ (size > 0 /\ Progressive => FALSE)
  <2>1. \A j \in 1 .. Len(steps) : j = 1 /\ steps[j] = g /\ Previous(steps, c, j) = c
    BY <1>1 DEF Previous
  <2> QED
    BY <1>0, <1>1, <2>1 DEF Step, Direction, ScalePhases, size
<1>2. CASE size > 0 /\ Progressive
  <2>0. steps = Steps(c, g, size) /\ size \in Nat
    BY <1>0, <1>2 DEF size
  <2>1. \A l, m \in Nat : c \in l .. m /\ g \in l .. m =>
          \A j \in 1 .. Len(steps) : steps[j] \in l .. m
    <3> SUFFICES ASSUME NEW l \in Nat, NEW m \in Nat, c \in l .. m, g \in l .. m
                 PROVE  \A j \in 1 .. Len(steps) : steps[j] \in l .. m
      OBVIOUS
    <3>1. StaysWithin(steps, l, m, g)
      BY <1>0, <1>2, <2>0, StepsWithin
    <3>2. steps \in Seq(l .. m)
      BY <3>1 DEF StaysWithin
    <3> DEFINE S == l .. m
    <3> HIDE DEF S
    <3>3. \A j \in 1 .. Len(steps) : steps[j] \in S
      <4>1. steps \in Seq(S)
        BY <3>2 DEF S
      <4> QED
        BY <4>1
    <3> QED
      BY <3>3 DEF S
  <2>2. CASE c < g
    <3>1. ClimbsTo(steps, c, g, size)
      BY <1>0, <1>2, <2>0, <2>2, StepsClimb
    <3>2. \A j \in 1 .. Len(steps) : steps[j] - Previous(steps, c, j) \in 1 .. size
      BY <3>1 DEF ClimbsTo
    <3>3. \A j \in 1 .. Len(steps) : steps[j] \in Int /\ Previous(steps, c, j) \in Int
      BY <1>0, <3>1 DEF ClimbsTo, Previous
    <3>4. ASSUME NEW a \in Int, NEW b \in Int, b - a \in 1 .. size
          PROVE  b > a /\ b - a \in (- size) .. size
      BY <1>0, <2>0, <3>4
    <3>5. Direction(c, g) = "scale_up"
      BY <2>2 DEF Direction
    <3> QED
      BY <2>1, <3>2, <3>3, <3>4, <3>5 DEF Step, size
  <2>3. CASE g < c
    <3>1. DescendsTo(steps, c, g, size)
      BY <1>0, <1>2, <2>0, <2>3, StepsDescend
    <3>2. \A j \in 1 .. Len(steps) : Previous(steps, c, j) - steps[j] \in 1 .. size
      BY <3>1 DEF DescendsTo
    <3>3. \A j \in 1 .. Len(steps) : steps[j] \in Int /\ Previous(steps, c, j) \in Int
      BY <1>0, <3>1 DEF DescendsTo, Previous
    <3>4. ASSUME NEW a \in Int, NEW b \in Int, a - b \in 1 .. size
          PROVE  b < a /\ b - a \in (- size) .. size
      BY <1>0, <2>0, <3>4
    <3>5. Direction(c, g) = "scale_down"
      BY <1>0, <2>3 DEF Direction
    <3> QED
      BY <2>1, <3>2, <3>3, <3>4, <3>5 DEF Step, size
  <2> QED
    BY <1>0, <2>2, <2>3
<1>3. CASE size < 0 /\ Progressive
  <2>1. Planned(c, g, size) = <<>>
    BY <1>0, <1>3, NegativeSize
  <2>2. steps = <<g>>
    BY <1>3, <2>1 DEF Steps, size
  <2> QED
    BY <1>0, <1>1, <1>3, <2>2
<1>4. ~Progressive => steps = <<g>>
  OBVIOUS
<1>5. Progressive => size # 0
  BY DEF size
<1> QED
  BY <1>0, <1>1, <1>2, <1>3, <1>4, <1>5

(***************************************************************************)
(* A refused create leaves no record; its failure is what it returned.     *)
(***************************************************************************)
LEMMA CreateRefusedHistory ==
    ASSUME Inv, History, CreateRefused, UNCHANGED crudVars
    PROVE  History'
<1>0. PcSound
  BY DEF Inv
<1>1. /\ pc = "create" /\ phase = "create" /\ pc' = "returned" /\ result' = "raised"
      /\ UNCHANGED <<phase, results, exit_code, args, records, poolCount>>
  BY <1>0 DEF CreateRefused, Return, PcSound, crudVars, provVars, svcVars
<1>2. StepsChain' /\ AllCleansUp' /\ ExitCodeIsHonest'
  BY <1>1 DEF History, StepsChain, Progressive, AllCleansUp, Last, ExitCodeIsHonest
<1>3. PlanMoves' /\ PoolInBounds' /\ DeleteSound' /\ FailureKept'
  BY <1>1 DEF History, PlanMoves, PoolInBounds, InBounds, DeleteSound, FailureKept
<1>4. LastSound'
  BY <1>1 DEF History, LastSound, Last, ScalePhases
<1> QED
  BY <1>2, <1>3, <1>4 DEF History

(***************************************************************************)
(* scale_node_pool up to its first step: the direction follows from where  *)
(* all() has left the pool, so it differs from the last record's.          *)
(***************************************************************************)
LEMMA ScaleHistory ==
    ASSUME Inv, History, Scale
    PROVE  History'
<1>0. TypeOK /\ PcSound
  BY DEF Inv
<1>1. /\ pc = "scale" /\ phase \in ScalePhases
      /\ UNCHANGED <<phase, results, exit_code, args, records, poolCount>>
  BY <1>0 DEF Scale, ScaleCall, PcSound, crudVars, provVars, svcVars
<1>2. ScaleCall(Goal) /\ Goal \in Counts
  BY <1>0, CommandFacts DEF Scale, Goal
<1>3. StepsChain' /\ AllCleansUp' /\ ExitCodeIsHonest'
  BY <1>1 DEF History, StepsChain, Progressive, AllCleansUp, Last, ExitCodeIsHonest
<1>4. pc' \in {"returned", "step"}
  BY <1>2 DEF ScaleCall, Return
<1>5. PoolInBounds' /\ DeleteSound'
  BY <1>1, <1>4 DEF History, PoolInBounds, DeleteSound, InBounds, ScalePhases
<1>6. FailureKept'
  BY <1>1, <1>4 DEF History, FailureKept, Past
<1>7. CASE pc' = "returned"
  <2>1. PlanMoves'
    BY <1>7 DEF PlanMoves
  <2>2. LastSound'
    BY <1>1, <1>7 DEF History, LastSound, Last, ScalePhases, Outwards, Direction
  <2> QED
    BY <1>3, <1>5, <1>6, <2>1, <2>2 DEF History
<1>8. CASE pc' = "step"
  <2>1. /\ poolCount \in Counts /\ poolCount # Goal
        /\ Progressive => args.scale_step_size # 0
        /\ kind' = Direction(poolCount, Goal) /\ from' = poolCount
        /\ plan' = IF Progressive THEN Steps(poolCount, Goal, args.scale_step_size)
                                  ELSE <<Goal>>
    BY <1>0, <1>2, <1>8 DEF ScaleCall, Return, TypeOK, ProvTypeOK, Direction
  <2>2. PlanMoves'
    <3>1. /\ \A j \in 1 .. Len(plan') : Step(kind', Previous(plan', from', j), plan'[j])
          /\ \A l, m \in Nat : poolCount \in l .. m /\ Goal \in l .. m =>
                \A j \in 1 .. Len(plan') : plan'[j] \in l .. m
      BY <1>0, <1>2, <2>1, PlanFacts
    <3>2. ASSUME args.cmd = "all"
          PROVE  /\ \A j \in 1 .. Len(plan') : InBounds(plan'[j])
                 /\ args.node_count # args.target_count
                 /\ kind' = IF phase = "scale_up" THEN Outwards ELSE Back
      <4>1. /\ args.node_count \in Nat /\ args.target_count \in Nat /\ poolCount \in Nat
            /\ InBounds(poolCount) /\ Goal \in {args.node_count, args.target_count}
            /\ phase = "scale_up" => Goal = args.target_count /\ poolCount = args.node_count
            /\ phase = "scale_down" => Goal = args.node_count
        BY <1>0, <1>1, <2>1, <3>2, CommandFacts, ProvisionAssumption
           DEF History, PoolInBounds, Counts, Goal
      <4>2. CASE args.node_count <= args.target_count
        <5>1. \A j \in 1 .. Len(plan') : plan'[j] \in args.node_count .. args.target_count
          BY <3>1, <4>1, <4>2 DEF InBounds
        <5> QED
          BY <1>1, <2>1, <4>1, <4>2, <5>1
             DEF InBounds, Outwards, Back, Direction, ScalePhases
      <4>3. CASE args.target_count < args.node_count
        <5>1. \A j \in 1 .. Len(plan') : plan'[j] \in args.target_count .. args.node_count
          BY <3>1, <4>1, <4>3 DEF InBounds
        <5> QED
          BY <1>1, <2>1, <4>1, <4>3, <5>1
             DEF InBounds, Outwards, Back, Direction, ScalePhases
      <4> QED
        BY <4>1, <4>2, <4>3
    <3>3. kind' \in ScalePhases
      BY <2>1 DEF Direction, ScalePhases
    <3> QED
      BY <1>1, <1>8, <3>1, <3>2, <3>3 DEF PlanMoves, Step, Progressive, InBounds,
         Outwards, Back, ScalePhases, Direction
  <2>3. LastSound'
    <3>1. args.cmd # "all" => records = <<>>
      BY <1>1 DEF History, LastSound
    <3>2. args.cmd = "all" => Last.kind # kind'
      <4> SUFFICES ASSUME args.cmd = "all" PROVE Last.kind # kind'
        OBVIOUS
      <4>1. /\ Last.kind \in (IF phase = "scale_up" THEN {"create"} ELSE {"create", Outwards})
            /\ args'.node_count # args'.target_count
            /\ kind' = (IF phase = "scale_up" THEN Outwards ELSE Back)'
        BY <1>1, <1>8, <2>2 DEF History, LastSound, PlanMoves
      <4>2. args.node_count \in Nat /\ args.target_count \in Nat
        BY <1>0, CommandFacts, ProvisionAssumption DEF Counts
      <4> QED
        BY <1>1, <4>1, <4>2 DEF Outwards, Back, Direction, ScalePhases
    <3>3. args.cmd = "all" => Len(records) > 0
      BY <1>1 DEF History, LastSound
    <3> QED
      BY <1>1, <1>8, <3>1, <3>2, <3>3 DEF History, LastSound, Last, ScalePhases
  <2> QED
    BY <1>3, <1>5, <1>6, <2>2, <2>3 DEF History
<1> QED
  BY <1>4, <1>7, <1>8

(***************************************************************************)
(* An operation leaves its last context and returns: a failed record goes  *)
(* with an exception.                                                      *)
(***************************************************************************)
LEMMA RecordReturnHistory ==
    ASSUME Inv, History, UNCHANGED crudVars, args' = args, poolCount' = poolCount,
           NEW k \in Kinds, NEW f \in Counts, NEW t \in Counts, NEW ok \in BOOLEAN,
           RecordOf(k, f, t, ok), Step(k, f, t),
           (Len(records) > 0 /\ Last.kind = k) => Last.ok /\ f = Last.target,
           pc # "returned", phase \in Phases,
           pc' = "returned", ok \/ result' = "raised",
           phase = "create" => k = "create" /\ (ok => poolCount = args.node_count),
           phase \in ScalePhases => k \in ScalePhases,
           (args.cmd = "all" /\ phase = "scale_up") => k = Outwards,
           phase = "delete" => k = "delete" /\ (ok => poolCount = NoPool)
    PROVE  History'
<1>0. TypeOK
  BY DEF Inv
<1>1. UNCHANGED <<phase, results, exit_code>>
  BY DEF crudVars
<1>2. /\ Len(records') > 0 /\ records' # <<>>
      /\ Last'.kind = k /\ Last'.ok = ok /\ Last'.target = t
      /\ (ok /\ \A i \in 1 .. Len(records) : records[i].ok)
           => \A i \in 1 .. Len(records') : records'[i].ok
  BY <1>0, LastGrows
<1>3. StepsChain'
  BY <1>0, ChainGrows DEF History
<1>4. PlanMoves'
  BY DEF PlanMoves
<1>5. PoolInBounds'
  BY <1>1 DEF History, PoolInBounds, InBounds
<1>6. LastSound'
  <2>1. Outwards' = Outwards /\ Outwards \in {"scale_up", "scale_down"}
    BY DEF Outwards, Direction
  <2> QED
    BY <1>1, <1>2, <2>1 DEF LastSound, ScalePhases, Phases
<1>7. FailureKept'
  <2>1. CASE ok
    BY <1>1, <1>2, <2>1 DEF History, FailureKept, Past
  <2>2. CASE ~ok
    BY <2>2 DEF FailureKept
  <2> QED
    BY <2>1, <2>2
<1>8. DeleteSound'
  BY <1>1, <1>2 DEF History, DeleteSound, Phases
<1>9. AllCleansUp' /\ ExitCodeIsHonest'
  BY <1>1 DEF AllCleansUp, ExitCodeIsHonest, Phases
<1> QED
  BY <1>3, <1>4, <1>5, <1>6, <1>7, <1>8, <1>9 DEF History

(***************************************************************************)
(* The facts about the open context of a step that the record needs.       *)
(***************************************************************************)
LEMMA ContextFacts ==
    ASSUME Inv, History, pc \in {"step", "provision", "verify"}
    PROVE  /\ kind \in Kinds /\ from \in Counts /\ Head(plan) \in Counts
           /\ Step(kind, from, Head(plan))
           /\ (Len(records) > 0 /\ Last.kind = kind) => Last.ok /\ from = Last.target
           /\ phase \in {"create", "scale_up", "scale_down"}
           /\ phase = "create" => kind = "create" /\ Head(plan) = args.node_count
           /\ phase \in ScalePhases => kind \in ScalePhases
           /\ (args.cmd = "all" /\ phase = "scale_up") => kind = Outwards
<1>0. TypeOK /\ PcSound /\ PlanSound
  BY DEF Inv
<1>1. /\ kind \in Kinds /\ from \in Counts /\ plan \in Seq(Counts) /\ Len(plan) > 0
      /\ phase \in Phases \cup {"start", "done"}
  BY <1>0 DEF TypeOK, CallTypeOK, PlanSound
<1>2. Head(plan) = plan[1] /\ 1 \in 1 .. Len(plan) /\ Head(plan) \in Counts
  BY <1>1
<1>3. phase \in {"create", "scale_up", "scale_down"}
  BY <1>0, <1>1 DEF PcSound, Phases
<1>4. (Len(records) > 0 /\ Last.kind = kind) => Last.ok /\ from = Last.target
  BY DEF History, LastSound
<1>5. phase = "create" => pc \in {"provision", "verify"}
  BY DEF History, PlanMoves, ScalePhases
<1>6. phase = "create" => kind = "create" /\ Head(plan) = args.node_count
  BY <1>5 DEF History, PlanMoves
<1>7. phase \in ScalePhases =>
        /\ kind \in ScalePhases
        /\ Step(kind, Previous(plan, from, 1), plan[1])
        /\ (args.cmd = "all" /\ phase = "scale_up") => kind = Outwards
  BY <1>2 DEF History, PlanMoves
<1>8. Step(kind, from, Head(plan))
  <2>1. CASE phase = "create"
    BY <1>6, <2>1 DEF Step, ScalePhases
  <2>2. CASE phase # "create"
    <3>1. Previous(plan, from, 1) = from
      BY DEF Previous
    <3>2. phase \in ScalePhases
      BY <1>3, <2>2 DEF ScalePhases
    <3>3. Step(kind, Previous(plan, from, 1), plan[1])
      BY <1>7, <3>2, Zenon
    <3> QED
      BY <1>2, <3>1, <3>3, Zenon
  <2> QED
    BY <2>1, <2>2
<1>9. phase = "scale_up" => phase \in ScalePhases
  BY DEF ScalePhases
<1> QED
  BY <1>1, <1>2, <1>3, <1>4, <1>6, <1>7, <1>8, <1>9

(***************************************************************************)
(* A step that cannot read the pool, or whose request or wait failed.      *)
(***************************************************************************)
LEMMA StepFailsHistory ==
    ASSUME Inv, History, UNCHANGED crudVars,
           StepReadFails \/ (Join /\ records' # records)
    PROVE  History'
<1>0. TypeOK /\ PcSound /\ PlanSound
  BY DEF Inv
<1>1. /\ pc \in {"step", "provision"} /\ args' = args /\ poolCount' = poolCount
      /\ RecordOf(kind, from, Head(plan), FALSE)
      /\ pc' = "returned" /\ result' = "raised"
  BY <1>0 DEF StepReadFails, Join, Return, Record, ThreadsIdle, svcVars, PlanSound
<1>2. /\ kind \in Kinds /\ from \in Counts /\ Head(plan) \in Counts
      /\ Step(kind, from, Head(plan))
      /\ (Len(records) > 0 /\ Last.kind = kind) => Last.ok /\ from = Last.target
      /\ phase \in {"create", "scale_up", "scale_down"}
      /\ phase = "create" => kind = "create"
      /\ phase \in ScalePhases => kind \in ScalePhases
      /\ (args.cmd = "all" /\ phase = "scale_up") => kind = Outwards
  BY <1>1, ContextFacts
<1>3. phase \in Phases /\ phase # "delete" /\ pc # "returned"
  BY <1>1, <1>2 DEF Phases
<1> QED
  BY <1>1, <1>2, <1>3, RecordReturnHistory

(***************************************************************************)
(* A step that went well: the next one starts from the count it reached.   *)
(***************************************************************************)
LEMMA VerifyHistory ==
    ASSUME Inv, History, UNCHANGED crudVars, Verify
    PROVE  History'
<1>0. TypeOK /\ PcSound /\ PlanSound /\ ServiceSound
  BY DEF Inv
<1>1. PICK ok \in BOOLEAN :
        /\ Record(ok)
        /\ IF ok /\ Len(plan) > 1
           THEN /\ pc' = "step" /\ plan' = Tail(plan) /\ from' = want
                /\ UNCHANGED result
           ELSE /\ Return(IF ok THEN "True" ELSE "raised") /\ UNCHANGED from
  BY DEF Verify
<1>2. /\ pc = "verify" /\ args' = args /\ kind' = kind /\ poolCount' = poolCount
      /\ poolCount = Head(plan) /\ want = Head(plan) /\ Len(plan) > 0
      /\ plan \in Seq(Counts)
  BY <1>0 DEF Verify, ThreadsIdle, svcVars, PcSound, PlanSound, ServiceSound, TypeOK,
              CallTypeOK
<1>3. /\ kind \in Kinds /\ from \in Counts /\ Head(plan) \in Counts
      /\ Step(kind, from, Head(plan))
      /\ (Len(records) > 0 /\ Last.kind = kind) => Last.ok /\ from = Last.target
      /\ phase \in {"create", "scale_up", "scale_down"}
      /\ phase = "create" => kind = "create" /\ Head(plan) = args.node_count
      /\ phase \in ScalePhases => kind \in ScalePhases
      /\ (args.cmd = "all" /\ phase = "scale_up") => kind = Outwards
  BY <1>2, ContextFacts
<1>4. RecordOf(kind, from, Head(plan), ok)
  BY <1>1, <1>2 DEF Record
<1>5. CASE ~(ok /\ Len(plan) > 1)
  <2>1. pc' = "returned" /\ (ok \/ result' = "raised")
    BY <1>1, <1>5 DEF Return
  <2>2. phase \in Phases /\ phase # "delete" /\ pc # "returned"
    BY <1>2, <1>3 DEF Phases
  <2> QED
    BY <1>2, <1>3, <1>4, <2>1, <2>2, RecordReturnHistory
<1>6. CASE ok /\ Len(plan) > 1
  <2>1. /\ pc' = "step" /\ plan' = Tail(plan) /\ from' = Head(plan) /\ result' = result
        /\ UNCHANGED <<phase, results, exit_code>>
    BY <1>1, <1>2, <1>6 DEF crudVars
  <2>2. /\ Len(records') > 0 /\ records' # <<>>
        /\ Last'.kind = kind /\ Last'.ok = ok /\ Last'.target = Head(plan)
        /\ (ok /\ \A i \in 1 .. Len(records) : records[i].ok)
             => \A i \in 1 .. Len(records') : records'[i].ok
    BY <1>0, <1>3, <1>4, LastGrows
  <2>3. StepsChain'
    BY <1>0, <1>2, <1>3, <1>4, ChainGrows DEF History
  <2>4. phase \in ScalePhases
    <3>1. phase = "create" => plan = <<args.node_count>>
      BY <1>2 DEF History, PlanMoves
    <3>2. phase = "create" => Len(plan) = 1
      BY <3>1
    <3>3. phase # "create"
      <4>1. Len(plan) > 1
        BY <1>6, Zenon
      <4>2. ASSUME NEW n \in Nat, n > 1
            PROVE  n # 1
        BY <4>2
      <4>3. Len(plan) \in Nat
        BY <1>2
      <4> QED
        BY <3>2, <4>1, <4>2, <4>3, Zenon
    <3> QED
      BY <1>3, <3>3 DEF ScalePhases
  <2>5. /\ Len(plan') = Len(plan) - 1
        /\ \A j \in 1 .. Len(plan') : /\ plan'[j] = plan[j + 1]
                                      /\ j + 1 \in 1 .. Len(plan)
                                      /\ Previous(plan', from', j) = Previous(plan, from, j + 1)
    <3>1. /\ Len(plan') = Len(plan) - 1 /\ Len(plan) \in Nat
          /\ \A j \in 1 .. Len(plan') : plan'[j] = plan[j + 1]
      BY <1>2, <1>6, <2>1
    <3>2. Head(plan) = plan[1]
      BY <1>2
    <3>3. ASSUME NEW j \in 1 .. Len(plan')
          PROVE  /\ j + 1 \in 1 .. Len(plan)
                 /\ Previous(plan', from', j) = Previous(plan, from, j + 1)
      <4>1. j \in Nat /\ j >= 1 /\ j + 1 \in 1 .. Len(plan) /\ j + 1 # 1 /\ j + 1 - 1 = j
        BY <3>1
      <4>2. j # 1 => j - 1 \in 1 .. Len(plan') /\ j - 1 + 1 = j
        BY <3>1
      <4> QED
        BY <2>1, <3>1, <3>2, <4>1, <4>2 DEF Previous
    <3> QED
      BY <3>1, <3>3
  <2>6. PlanMoves'
    <3>1. \A j \in 1 .. Len(plan) : Step(kind, Previous(plan, from, j), plan[j])
      BY <1>2, <2>4 DEF History, PlanMoves
    <3>2. \A j \in 1 .. Len(plan') : Step(kind, Previous(plan', from', j), plan'[j])
      BY <2>5, <3>1
    <3>3. args.cmd = "all" => /\ \A j \in 1 .. Len(plan') : InBounds(plan'[j])
                              /\ args.node_count # args.target_count
                              /\ kind = IF phase = "scale_up" THEN Outwards ELSE Back
      BY <1>2, <2>4, <2>5 DEF History, PlanMoves
    <3> QED
      BY <1>2, <1>3, <2>1, <2>4, <3>2, <3>3
         DEF PlanMoves, Step, Progressive, InBounds, Outwards, Back, ScalePhases
  <2>7. PoolInBounds'
    BY <1>2, <2>1 DEF History, PoolInBounds, InBounds
  <2>8. LastSound'
    BY <1>2, <1>3, <1>6, <2>1, <2>2, <2>4 DEF LastSound, ScalePhases
  <2>9. FailureKept'
    BY <1>2, <1>6, <2>1, <2>2 DEF History, FailureKept, Past
  <2>10. DeleteSound' /\ AllCleansUp' /\ ExitCodeIsHonest'
    BY <2>1, <2>4 DEF DeleteSound, AllCleansUp, ExitCodeIsHonest, ScalePhases
  <2> QED
    BY <2>3, <2>6, <2>7, <2>8, <2>9, <2>10 DEF History
<1> QED
  BY <1>5, <1>6

(***************************************************************************)
(* delete_node_pool: the request, and its answer.                          *)
(***************************************************************************)
LEMMA DeleteHistory ==
    ASSUME Inv, History, UNCHANGED crudVars, DeleteCall \/ DeleteResult
    PROVE  History'
<1>0. TypeOK /\ PcSound /\ ServiceSound
  BY DEF Inv
<1>1. /\ pc \in {"delete", "deleting"} /\ phase = "delete" /\ args' = args
      /\ poolCount' = poolCount /\ phase \in Phases
  BY <1>0 DEF DeleteCall, DeleteResult, PcSound, provVars, svcVars, Phases
<1>2. "delete" \in Kinds /\ 0 \in Counts
  BY ProvisionAssumption DEF Kinds, Counts
<1>3. Len(records) > 0 => Last.kind # "delete"
  <2>1. records = <<>> => Len(records) = 0
    OBVIOUS
  <2> QED
    BY <1>1, <2>1 DEF History, LastSound
<1>4. ASSUME NEW ok \in BOOLEAN, NEW f \in Counts, NEW t \in Counts,
             RecordOf("delete", f, t, ok), ok => poolCount = NoPool,
             pc' = "returned", ok \/ result' = "raised"
      PROVE  History'
  <2>1. Step("delete", f, t)
    BY DEF Step, ScalePhases
  <2>2. /\ phase # "create" /\ phase \notin ScalePhases
        /\ ~(args.cmd = "all" /\ phase = "scale_up") /\ pc # "returned"
    BY <1>1 DEF ScalePhases
  <2> QED
    BY <1>1, <1>2, <1>3, <1>4, <2>1, <2>2, RecordReturnHistory
<1>5. CASE DeleteResult
  <2>1. PICK ok \in BOOLEAN : /\ ok => answer = "succeeded"
                              /\ Record(ok)
                              /\ Return(IF ok THEN "True" ELSE "raised")
    BY <1>5 DEF DeleteResult
  <2>2. kind = "delete" /\ (answer = "succeeded" => poolCount = NoPool)
        /\ from \in Counts /\ want \in Counts
    BY <1>0, <1>5 DEF DeleteResult, PcSound, ServiceSound, TypeOK, CallTypeOK, ProvTypeOK
  <2>3. RecordOf("delete", from, want, ok) /\ pc' = "returned"
        /\ (ok \/ result' = "raised")
    BY <2>1, <2>2 DEF Record, Return
  <2> QED
    BY <1>4, <2>1, <2>2, <2>3
<1>6. CASE DeleteCall /\ pc' = "returned"
  <2>1. PICK ok \in BOOLEAN : /\ ok => poolCount = NoPool
                              /\ RecordOf("delete", 0, 0, ok)
                              /\ ok \/ result' = "raised"
    BY <1>6 DEF DeleteCall, Return
  <2> QED
    BY <1>2, <1>4, <1>6, <2>1
<1>7. CASE DeleteCall /\ pc' = "deleting" /\ UNCHANGED <<result, plan, records>>
  <2>1. UNCHANGED <<phase, results, exit_code>>
    BY DEF crudVars
  <2>2. PlanMoves' /\ PoolInBounds' /\ DeleteSound' /\ AllCleansUp' /\ ExitCodeIsHonest'
    BY <1>1, <1>7, <2>1 DEF PlanMoves, PoolInBounds, DeleteSound, AllCleansUp,
       ExitCodeIsHonest, ScalePhases
  <2>3. LastSound'
    BY <1>1, <1>7, <2>1 DEF History, LastSound, Last, ScalePhases
  <2>4. FailureKept' /\ StepsChain'
    BY <1>1, <1>7, <2>1 DEF History, FailureKept, Past, StepsChain, Progressive
  <2> QED
    BY <2>2, <2>3, <2>4 DEF History
<1>8. DeleteCall => \/ pc' = "returned"
                    \/ pc' = "deleting" /\ UNCHANGED <<result, plan, records>>
  BY DEF DeleteCall, Return
<1> QED
  BY <1>5, <1>6, <1>7, <1>8

(***************************************************************************)
(* main() up to the command: no operation has been recorded.               *)
(***************************************************************************)
LEMMA StartHistory ==
    ASSUME Inv, History, Start
    PROVE  History'
<1>0. /\ phase = "start" /\ records = <<>> /\ ~results["create"] /\ pc = "idle"
      /\ args.cmd \in {"create", "scale", "delete", "all"}
  BY CommandFacts DEF Start, Inv, PcSound, History, LastSound, DeleteSound
<1>1. UNCHANGED <<args, records, results, poolCount>>
  BY DEF Start, Enter, poolVars, callVars, provVars, svcVars
<1>2. StepsChain' /\ (\A i \in 1 .. Len(records') : records'[i].ok)
  BY <1>0, <1>1 DEF StepsChain
<1>3. FailureKept' /\ ExitCodeIsHonest'
  BY <1>2 DEF FailureKept, ExitCodeIsHonest
<1>4. AllCleansUp'
  BY <1>0, <1>1 DEF AllCleansUp
<1>5. CASE phase' = "done" /\ pc' = "idle"
  BY <1>2, <1>3, <1>4, <1>5
     DEF History, PlanMoves, PoolInBounds, LastSound, DeleteSound, ScalePhases
<1>6. CASE Enter(FirstPhase)
  <2>1. \/ args.cmd \in {"create", "all"} /\ phase' = "create" /\ pc' = "create"
        \/ args.cmd = "scale" /\ phase' = "scale_up" /\ pc' = "scale"
        \/ args.cmd = "delete" /\ phase' = "delete" /\ pc' = "delete"
    BY <1>0, <1>6 DEF Enter, FirstPhase
  <2>2. PlanMoves' /\ PoolInBounds' /\ DeleteSound'
    BY <1>1, <2>1 DEF PlanMoves, PoolInBounds, DeleteSound, ScalePhases
  <2>3. LastSound'
    BY <1>0, <1>1, <2>1 DEF LastSound, ScalePhases
  <2> QED
    BY <1>2, <1>3, <1>4, <2>2, <2>3 DEF History
<1>7. (phase' = "done" /\ pc' = "idle") \/ Enter(FirstPhase)
  BY <1>0 DEF Start, poolVars, callVars
<1> QED
  BY <1>5, <1>6, <1>7

(***************************************************************************)
(* An operation is over: what failed is now kept by results, or decides    *)
(* the exit code; all() reaches its end only by a failed create or through *)
(* the delete.                                                             *)
(***************************************************************************)
LEMMA ReturnedHistory ==
    ASSUME Inv, History, Returned
    PROVE  History'
<1>0. /\ TypeOK /\ pc = "returned" /\ phase \in Phases
      /\ args.cmd \in {"create", "scale", "delete", "all"}
  BY CommandFacts DEF Returned, Inv, TypeOK, PcSound
<1>1. UNCHANGED <<args, records, poolCount>>
  BY DEF Returned, Enter, provVars, svcVars
<1>2. /\ results'[phase] = (result # "raised")
      /\ \A p \in Phases : p # phase => results'[p] = results[p]
  BY <1>0 DEF Returned, TypeOK
<1>3. phase \notin Past /\ Past \subseteq Phases
  BY <1>0 DEF Past, Phases
<1>4. \/ \A i \in 1 .. Len(records) : records[i].ok
      \/ result = "raised"
      \/ args.cmd = "all" /\ \E p \in Past : ~results[p]
  BY <1>0 DEF History, FailureKept, Phases
<1>5. StepsChain'
  BY <1>1 DEF History, StepsChain, Progressive
<1>6. CASE NextPhase = "done"
  <2>1. /\ phase' = "done" /\ pc' = "idle" /\ exit_code' = IF Failed THEN 1 ELSE 0
    BY <1>6 DEF Returned
  <2>2. ExitCodeIsHonest'
    <3> SUFFICES ASSUME exit_code' = 0
                 PROVE  \A i \in 1 .. Len(records) : records[i].ok
      BY <1>1 DEF ExitCodeIsHonest
    <3>1. ~Failed
      BY <2>1
    <3>2. CASE args.cmd = "all"
      <4>1. \A p \in Phases : results'[p]
        BY <3>1, <3>2 DEF Failed
      <4>2. result # "raised"
        BY <1>0, <1>2, <4>1
      <4>3. \A p \in Past : results[p]
        BY <1>2, <1>3, <4>1
      <4> QED
        BY <1>4, <4>2, <4>3
    <3>3. CASE args.cmd # "all"
      BY <1>4, <3>1, <3>3 DEF Failed
    <3> QED
      BY <3>2, <3>3
  <2>3. AllCleansUp'
    <3> SUFFICES ASSUME args.cmd = "all", results'["create"]
                 PROVE  /\ Last.kind = "delete"
                        /\ results'["delete"] => poolCount = NoPool
      BY <1>1 DEF AllCleansUp, Last
    <3>1. phase = "create" => result # "raised"
      BY <1>2
    <3>2. phase = "delete"
      BY <1>0, <1>6, <3>1 DEF NextPhase, Phases
    <3> QED
      BY <1>0, <1>2, <3>2 DEF History, DeleteSound
  <2>4. PlanMoves' /\ PoolInBounds' /\ LastSound' /\ FailureKept' /\ DeleteSound'
    BY <2>1 DEF PlanMoves, PoolInBounds, LastSound, FailureKept, DeleteSound, ScalePhases
  <2> QED
    BY <1>5, <2>2, <2>3, <2>4 DEF History
<1>7. CASE NextPhase # "done"
  <2>1. /\ args.cmd = "all" /\ phase' = NextPhase
        /\ pc' = CASE NextPhase \in {"scale_up", "scale_down"} -> "scale"
                   [] OTHER -> NextPhase
    <3>1. Enter(NextPhase)
      BY <1>7 DEF Returned
    <3> QED
      BY <1>7, <3>1 DEF Enter, NextPhase
  <2>2. \/ /\ phase = "create" /\ result # "raised"
           /\ phase' = "scale_up" /\ pc' = "scale"
        \/ phase = "scale_up" /\ phase' = "scale_down" /\ pc' = "scale"
        \/ phase = "scale_down" /\ phase' = "delete" /\ pc' = "delete"
    BY <1>0, <1>7, <2>1 DEF NextPhase, Phases
  <2>3. PlanMoves' /\ DeleteSound' /\ AllCleansUp' /\ ExitCodeIsHonest'
    BY <2>2 DEF PlanMoves, DeleteSound, AllCleansUp, ExitCodeIsHonest, ScalePhases
  <2>4. PoolInBounds'
    <3>1. args.node_count \in Nat /\ args.target_count \in Nat
      BY <1>0, CommandFacts, ProvisionAssumption DEF Counts
    <3>2. phase = "create" => poolCount = args.node_count
      BY <1>0, <2>2 DEF History, PoolInBounds
    <3>3. phase = "scale_up" => InBounds(poolCount)
      BY <2>1 DEF History, PoolInBounds, ScalePhases
    <3> QED
      BY <1>1, <2>1, <2>2, <3>1, <3>2, <3>3 DEF PoolInBounds, InBounds, ScalePhases
  <2>5. LastSound'
    <3>1. phase = "create" => Len(records) > 0 /\ Last.kind = "create"
      BY <1>0, <2>2 DEF History, LastSound
    <3>2. phase = "scale_up" => Len(records) > 0 /\ Last.kind \in {"create", Outwards}
      BY <1>0, <2>1 DEF History, LastSound, ScalePhases
    <3>3. phase \in ScalePhases => records = <<>> \/ Last.kind # "delete"
      BY DEF History, LastSound
    <3>4. Outwards' = Outwards /\ Last' = Last
      BY <1>1 DEF Outwards, Last
    <3> QED
      BY <1>1, <2>1, <2>2, <3>1, <3>2, <3>3, <3>4 DEF LastSound, ScalePhases
  <2>6. FailureKept'
    <3>1. Past' = Past \cup {phase}
      BY <2>2 DEF Past
    <3>2. result = "raised" => ~results'[phase]
      BY <1>2
    <3>3. \A p \in Past : results'[p] = results[p]
      BY <1>2, <1>3
    <3> QED
      BY <1>1, <1>4, <2>1, <3>1, <3>2, <3>3 DEF FailureKept
  <2> QED
    BY <1>5, <2>3, <2>4, <2>5, <2>6 DEF History
<1> QED
  BY <1>6, <1>7

(***************************************************************************)
(* Every step keeps the history.                                           *)
(***************************************************************************)
LEMMA NextHistory ==
    Inv /\ History /\ [Next]_vars => History'
<1> SUFFICES ASSUME Inv, History, [Next]_vars PROVE History'
  OBVIOUS
<1>1. CASE UNCHANGED vars
  <2>1. UNCHANGED <<crudVars, callVars>> /\ poolCount' = poolCount
    BY <1>1 DEF vars, poolVars, provVars, svcVars
  <2> QED
    BY <2>1, QuietHistory
<1>2. CASE Call
  <2>1. CASE OperationStep /\ UNCHANGED crudVars
    BY <2>1, ProvisionHistory, CreateRefusedHistory, StepFailsHistory,
       VerifyHistory, DeleteHistory
       DEF OperationStep
  <2>2. CASE Threads /\ UNCHANGED crudVars
    BY <2>2, ThreadsHistory
  <2> QED
    BY <1>2, <2>1, <2>2 DEF Call
<1> QED
  BY <1>1, <1>2, StartHistory, ScaleHistory, ReturnedHistory, ThreadsHistory DEF Next

(***************************************************************************)
(* The invariant and the history hold in every state of every process.     *)
(***************************************************************************)
THEOREM CrudHistory == Spec => [](Inv /\ History)
<1>1. Init => History
  <2> SUFFICES ASSUME Init PROVE History
    OBVIOUS
  <2>1. /\ phase = "start" /\ pc = "idle" /\ records = <<>> /\ ~results["create"]
    BY DEF Init, CallInit, Phases
  <2>2. StepsChain /\ (\A i \in 1 .. Len(records) : records[i].ok)
    BY <2>1 DEF StepsChain
  <2> QED
    BY <2>1, <2>2 DEF History, PlanMoves, PoolInBounds, LastSound, FailureKept,
       DeleteSound, AllCleansUp, ExitCodeIsHonest, ScalePhases
<1>2. Init => Inv
  BY InitInv
<1>3. Inv /\ [Next]_vars => Inv'
  BY NextInv
<1>4. Inv /\ History /\ [Next]_vars => History'
  BY NextHistory
<1> QED
  BY <1>1, <1>2, <1>3, <1>4, PTL DEF Spec

(***************************************************************************)
(* A progressive scaling is a chain of steps, for every pair of counts and *)
(* every step size: each starts where the one before it ended.             *)
(***************************************************************************)
THEOREM StepsAreChained == Spec => []StepsChain
<1>1. History => StepsChain
  BY DEF History
<1> QED
  BY <1>1, CrudHistory, PTL

(***************************************************************************)
(* all() tries the delete of every pool it created, and a delete that it   *)
(* reports as successful leaves no pool.                                   *)
(***************************************************************************)
THEOREM AllIsCleanedUp == Spec => []AllCleansUp
<1>1. History => AllCleansUp
  BY DEF History
<1> QED
  BY <1>1, CrudHistory, PTL

(***************************************************************************)
(* main() computes exit code 0 only if every operation it recorded went    *)
(* well.                                                                   *)
(***************************************************************************)
THEOREM ExitCodesAreHonest == Spec => []ExitCodeIsHonest
<1>1. History => ExitCodeIsHonest
  BY DEF History
<1> QED
  BY <1>1, CrudHistory, PTL

---------------------------------------------------------------------------
(* The steps a process has left *)

(***************************************************************************)
(* Six measures, each of which only matters while those before it stay:    *)
(* the operations main() or all() has left; whether a call is ahead, under *)
(* way or over; the steps of its plan; the attempts of the request thread, *)
(* its polls; and the rest of the node wait.                               *)
(***************************************************************************)
PhasesFrom(p) ==
    CASE p = "start"      -> 5
      [] p = "create"     -> 4
      [] p = "scale_up"   -> 3
      [] p = "scale_down" -> 2
      [] p = "delete"     -> 1
      [] p = "done"       -> 0

Stage ==
    CASE pc \in {"create", "scale", "delete"}               -> 2
      [] pc \in {"step", "provision", "verify", "deleting"} -> 1
      [] pc \in {"idle", "returned"}                        -> 0

StepsAhead ==
    CASE pc = "step"      -> 4 * Len(plan) + 3
      [] pc = "provision" -> 4 * Len(plan) + 2
      [] pc = "verify"    -> 4 * Len(plan) + 1
      [] OTHER            -> 0

AttemptsAhead ==
    CASE arm = "backoff" -> 3 * (Retries - attempt) + 3
      [] arm = "call"    -> 3 * (Retries - attempt) + 2
      [] arm = "poll"    -> 3 * (Retries - attempt) + 1
      [] OTHER           -> 0

PollsAhead == IF arm = "poll" THEN MaxPolls - elapsed ELSE 0

WaitAhead ==
    CASE k8s = "idle"             -> 2
      [] k8s \in {"list", "sleep"} -> 1
      [] k8s \in {"ok", "raised"}  -> 0

measures == <<PhasesFrom(phase), Stage, StepsAhead, AttemptsAhead, PollsAhead, WaitAhead>>

Measured ==
    {PhasesFrom(phase), Stage, StepsAhead, AttemptsAhead, PollsAhead, WaitAhead} \subseteq Nat

(***************************************************************************)
(* In the order of the measures, the process is nearer to its end: because *)
(* the call is, or because one of the threads of its provisioning is.      *)
(***************************************************************************)
CallNearer ==
    \/ PhasesFrom(phase)' < PhasesFrom(phase)
    \/ PhasesFrom(phase)' = PhasesFrom(phase) /\ Stage' < Stage
    \/ PhasesFrom(phase)' = PhasesFrom(phase) /\ Stage' = Stage /\ StepsAhead' < StepsAhead

ThreadNearer ==
    /\ UNCHANGED <<PhasesFrom(phase), Stage, StepsAhead>>
    /\ \/ AttemptsAhead' < AttemptsAhead
       \/ AttemptsAhead' = AttemptsAhead /\ PollsAhead' < PollsAhead
       \/ AttemptsAhead' = AttemptsAhead /\ PollsAhead' = PollsAhead /\ WaitAhead' < WaitAhead

Nearer == CallNearer \/ ThreadNearer

LEMMA MeasuresAreNat == Inv => Measured
<1> SUFFICES ASSUME Inv PROVE Measured
  OBVIOUS
<1>0. TypeOK /\ ProvTypeOK /\ CallTypeOK
  BY DEF Inv, TypeOK
<1>1. PhasesFrom(phase) \in Nat
  BY <1>0 DEF TypeOK, PhasesFrom, Phases
<1>2. Stage \in Nat
  BY <1>0 DEF CallTypeOK, Stage, PCs
<1>3. StepsAhead \in Nat
  <2>1. Len(plan) \in Nat
    BY <1>0 DEF CallTypeOK
  <2> QED BY <2>1 DEF StepsAhead
<1>4. AttemptsAhead \in Nat /\ PollsAhead \in Nat
  <2>1. Retries - attempt \in Nat /\ MaxPolls - elapsed \in Nat
    BY <1>0, ProvisionAssumption DEF ProvTypeOK
  <2> QED BY <2>1 DEF AttemptsAhead, PollsAhead
<1>5. WaitAhead \in Nat
  BY <1>0 DEF ProvTypeOK, WaitAhead, WaitStates
<1> QED BY <1>1, <1>2, <1>3, <1>4, <1>5 DEF Measured

(***************************************************************************)
(* main() and all(): the next phase is a later one.                        *)
(***************************************************************************)
LEMMA PhaseIsNearer ==
    ASSUME Inv, Start \/ Returned
    PROVE  Nearer
<1>0. /\ phase \in Phases \cup {"start", "done"}
      /\ args.cmd \in {"create", "scale", "delete", "all"}
  BY CommandAssumption DEF Inv, TypeOK, CallTypeOK
<1>1. CASE Start
  <2>1. phase = "start" /\ phase' \in Phases \cup {"done"}
    BY <1>0, <1>1 DEF Start, Enter, FirstPhase, Phases
  <2>2. PhasesFrom(phase)' < PhasesFrom(phase)
    BY <2>1 DEF PhasesFrom, Phases
  <2> QED BY <2>2 DEF Nearer, CallNearer
<1>2. CASE Returned
  <2>1. pc = "returned" /\ phase \in Phases
    BY <1>0, <1>2 DEF Returned, Inv, PcSound
  <2>2. phase' = NextPhase
    BY <1>2 DEF Returned, Enter
  <2>3. \/ NextPhase = "done"
        \/ phase = "create" /\ NextPhase = "scale_up"
        \/ phase = "scale_up" /\ NextPhase = "scale_down"
        \/ phase = "scale_down" /\ NextPhase = "delete"
    BY <2>1 DEF NextPhase, Phases
  <2>4. PhasesFrom(phase)' < PhasesFrom(phase)
    BY <2>1, <2>2, <2>3 DEF PhasesFrom, Phases
  <2> QED BY <2>4 DEF Nearer, CallNearer
<1> QED BY <1>1, <1>2

(***************************************************************************)
(* A call begins, ends, or goes on with the next step of its plan.         *)
(***************************************************************************)
LEMMA OperationIsNearer ==
    ASSUME Inv, Scale \/ (OperationStep /\ UNCHANGED crudVars)
    PROVE  Nearer
<1>0. phase' = phase
  BY DEF Scale, crudVars
<1>1. PhasesFrom(phase)' = PhasesFrom(phase)
  BY <1>0
<1>2. CASE \/ pc \in {"create", "scale", "delete"} /\ pc' \in {"step", "provision", "deleting", "returned"}
           \/ pc \in {"step", "provision", "verify", "deleting"} /\ pc' = "returned"
  <2>1. Stage' < Stage
    BY <1>2 DEF Stage
  <2> QED BY <1>1, <2>1 DEF Nearer, CallNearer
<1>3. ASSUME \/ pc = "step" /\ pc' = "provision" /\ plan' = plan
             \/ pc = "provision" /\ pc' = "verify" /\ plan' = plan
             \/ pc = "verify" /\ pc' = "step" /\ plan' = Tail(plan) /\ Len(plan) > 1
      PROVE  Nearer
  <2>1. Stage' = Stage
    BY <1>3 DEF Stage
  <2>2. Len(plan) \in Nat /\ (Len(plan) > 1 => Len(Tail(plan)) = Len(plan) - 1)
    BY DEF Inv, TypeOK, CallTypeOK
  <2>3. StepsAhead' < StepsAhead
    BY <1>3, <2>2 DEF StepsAhead
  <2> QED BY <1>1, <2>1, <2>3 DEF Nearer, CallNearer
<1>4. CASE Scale
  BY <1>2, <1>4 DEF Scale, ScaleCall, Return
<1>5. CASE \/ CreateCall \/ CreateRefused \/ StepReadFails
           \/ DeleteCall \/ DeleteResult
  BY <1>2, <1>5 DEF CreateCall, CreateRefused, StepReadFails, DeleteCall, DeleteResult, Return
<1>6. CASE StepStart \/ Join \/ Verify
  BY <1>2, <1>3, <1>6 DEF StepStart, Join, Verify, Return
<1> QED BY <1>4, <1>5, <1>6 DEF OperationStep

(***************************************************************************)
(* The request thread uses up its attempts and its polls.                  *)
(***************************************************************************)
LEMMA ArmIsNearer ==
    ASSUME Inv, ArmStep, UNCHANGED <<callVars, crudVars>>
    PROVE  Nearer
<1>1. UNCHANGED <<PhasesFrom(phase), Stage, StepsAhead>>
  <2>1. UNCHANGED <<phase, pc, plan>>
    BY DEF callVars, crudVars
  <2>2. Stage' = Stage /\ StepsAhead' = StepsAhead
    BY <2>1, Zenon DEF Stage, StepsAhead
  <2> QED BY <2>1, <2>2
<1>2. /\ Retries \in Nat /\ attempt \in 0 .. (Retries - 1)
      /\ MaxPolls \in Nat /\ elapsed \in 0 .. (MaxPolls - 1)
  BY ProvisionAssumption DEF Inv, TypeOK, ProvTypeOK
<1>3. ASSUME arm \in {"call", "poll"},
             ArmRejected \/ arm' = "raised" \/ arm' = "ok" \/ (arm = "call" /\ arm' = "poll" /\ attempt' = attempt)
      PROVE  AttemptsAhead' < AttemptsAhead
  BY <1>2, <1>3 DEF ArmRejected, AttemptsAhead
<1>4. CASE ArmCall
  <2>1. AttemptsAhead' < AttemptsAhead
    BY <1>3, <1>4 DEF ArmCall
  <2> QED BY <1>1, <2>1 DEF Nearer, ThreadNearer
<1>5. CASE ArmWaits
  <2>1. CASE arm' = "raised"
    <3>1. AttemptsAhead' < AttemptsAhead
      BY <1>3, <1>5, <2>1 DEF ArmWaits
    <3> QED BY <1>1, <3>1 DEF Nearer, ThreadNearer
  <2>2. CASE arm' # "raised"
    <3>1. arm = "poll" /\ arm' = arm /\ attempt' = attempt /\ elapsed' = elapsed + 1
      BY <1>5, <2>2 DEF ArmWaits
    <3>2. AttemptsAhead' = AttemptsAhead /\ PollsAhead' < PollsAhead
      BY <1>2, <3>1 DEF AttemptsAhead, PollsAhead
    <3> QED BY <1>1, <3>2 DEF Nearer, ThreadNearer
  <2> QED BY <2>1, <2>2
<1>6. CASE ArmResult
  <2>1. AttemptsAhead' < AttemptsAhead
    BY <1>3, <1>6 DEF ArmResult
  <2> QED BY <1>1, <2>1 DEF Nearer, ThreadNearer
<1>7. CASE ArmBackoffOver
  <2>1. AttemptsAhead' < AttemptsAhead
    BY <1>2, <1>7 DEF ArmBackoffOver, AttemptsAhead
  <2> QED BY <1>1, <2>1 DEF Nearer, ThreadNearer
<1> QED BY <1>4, <1>5, <1>6, <1>7 DEF ArmStep

(***************************************************************************)
(* The node wait begins or ends; a round of its loop changes nothing.      *)
(***************************************************************************)
LEMMA WaitIsNearer ==
    ASSUME Inv, WaitStep, UNCHANGED <<callVars, crudVars>>
    PROVE  /\ WaitAfterCli \/ WaitTimesOut => Nearer
           /\ Nearer \/ UNCHANGED measures
<1>1. UNCHANGED <<PhasesFrom(phase), Stage, StepsAhead>>
  <2>1. UNCHANGED <<phase, pc, plan>>
    BY DEF callVars, crudVars
  <2>2. Stage' = Stage /\ StepsAhead' = StepsAhead
    BY <2>1, Zenon DEF Stage, StepsAhead
  <2> QED BY <2>1, <2>2
<1>2. AttemptsAhead' = AttemptsAhead /\ PollsAhead' = PollsAhead
  <2>1. UNCHANGED <<arm, attempt, elapsed>>
    BY DEF WaitStep, WaitAfterCli, WaitLists, WaitWakes, WaitTimesOut
  <2> QED BY <2>1, Zenon DEF AttemptsAhead, PollsAhead
<1>3. \/ WaitAhead' < WaitAhead
      \/ k8s = "list" /\ k8s' = "sleep"
      \/ k8s = "sleep" /\ k8s' = "list"
  BY DEF WaitStep, WaitAfterCli, WaitLists, WaitWakes, WaitTimesOut, WaitAhead
<1>4. CASE WaitAhead' < WaitAhead
  BY <1>1, <1>2, <1>4 DEF Nearer, ThreadNearer
<1>5. CASE \/ k8s = "list" /\ k8s' = "sleep"
           \/ k8s = "sleep" /\ k8s' = "list"
  <2>1. WaitAhead' = WaitAhead
    BY <1>5 DEF WaitAhead
  <2>2. ~WaitAfterCli /\ ~WaitTimesOut
    BY <1>5 DEF WaitAfterCli, WaitTimesOut
  <2> QED BY <1>1, <1>2, <2>1, <2>2 DEF measures
<1> QED BY <1>3, <1>4, <1>5

(***************************************************************************)
(* Every step the process has to take brings it nearer to its end: those   *)
(* of main() and all(), of the open operation, of the request thread, and  *)
(* the beginning and the deadline of the node wait.  Nothing else, neither *)
(* a round of that wait nor the service nor the nodes, takes it back.      *)
(***************************************************************************)
Descends ==
    /\ \/ Start \/ Scale \/ Returned
       \/ OperationStep /\ UNCHANGED crudVars
       \/ ArmStep /\ UNCHANGED <<callVars, crudVars>>
       \/ (WaitAfterCli \/ WaitTimesOut) /\ UNCHANGED <<callVars, crudVars>>
       => Nearer
    /\ Nearer \/ UNCHANGED measures

(***************************************************************************)
(* A process takes finitely many steps, rounds of the node wait aside,     *)
(* whatever fails and however often a request is refused, for any number   *)
(* of retries, polls and steps of a scaling: the measures are natural      *)
(* numbers, and their lexicographic order has no infinite descent.  What   *)
(* EndsOrHangs needs besides is Fairness: that these steps are taken as    *)
(* long as what they call answers.                                         *)
(***************************************************************************)
THEOREM ProcessesAreFinite == Spec => []Measured /\ [][Descends]_vars
<1>1. Inv /\ [Next]_vars => [Descends]_vars
  <2> SUFFICES ASSUME Inv, Next PROVE Descends
    OBVIOUS
  <2>1. CASE Start \/ Scale \/ Returned
    BY <2>1, PhaseIsNearer, OperationIsNearer DEF Descends
  <2>2. CASE OperationStep /\ UNCHANGED crudVars
    BY <2>2, OperationIsNearer DEF Descends
  <2>3. CASE Threads /\ UNCHANGED crudVars
    BY <2>3, ArmIsNearer, WaitIsNearer, OperationIsNearer, PhaseIsNearer DEF Descends, Threads
  <2>4. CASE ServiceStep
    <3>1. UNCHANGED <<phase, pc, plan, arm, attempt, elapsed, k8s>>
      BY <2>4 DEF ServiceStep, Service, ForeignStarts, ForeignEnds, RequestSettles, NodeComes,
                  NodeGoes, crudVars, callVars, threadVars
    <3>2. UNCHANGED measures
      BY <3>1, Zenon DEF measures, PhasesFrom, Stage, StepsAhead, AttemptsAhead, PollsAhead, WaitAhead
    <3> QED BY <2>4, <3>2, PhaseIsNearer, OperationIsNearer, ArmIsNearer, WaitIsNearer DEF Descends, WaitStep
  <2> QED BY <2>1, <2>2, <2>3, <2>4 DEF Next, Call
<1> QED BY <1>1, CrudInvariant, MeasuresAreNat, PTL DEF Spec

===========================================================================
