------------------------- MODULE MachineScaleProofs -------------------------
(***************************************************************************)
(* Proofs about MachineScale: the whole of create_machine_agentpool and    *)
(* scale_machine, for every request, pool size, timeout and interval.      *)
(* The first part is about the readiness wait of MachineReadiness by       *)
(* itself; the second adds the submission before it and the record after.  *)
(***************************************************************************)
EXTENDS MachineScale, FiniteSetTheorems, TLAPS


---------------------------------------------------------------------------
(* The targets *)

(***************************************************************************)
(* The rounded-up percentage grows with the percentage.                    *)
(***************************************************************************)
LEMMA CeilPercentMonotone ==
    ASSUME NEW p \in Nat, NEW q \in Nat, NEW total \in Nat, p <= q
    PROVE  CeilPercent(p, total) <= CeilPercent(q, total)
<1>1. p * total <= q * total
  OBVIOUS
<1>2. p * total \in Nat /\ q * total \in Nat
  OBVIOUS
<1> QED
  BY <1>1, <1>2 DEF CeilPercent

(***************************************************************************)
(* Targets are numbers above the baseline, a higher percentile has the     *)
(* higher target, and P100 asks for all new nodes on top of the baseline.  *)
(***************************************************************************)
LEMMA TargetFacts ==
    ASSUME ReadinessOK
    PROVE  /\ \A p \in Percentiles : Target(p) \in Nat /\ Target(p) > baseline
           /\ \A p, q \in Percentiles : p < q => Target(p) <= Target(q)
           /\ req.count > 0 => Target(100) = baseline + req.count
<1>1. baseline \in Nat /\ req.count \in Nat
  BY EnvAssumption DEF ReadinessOK, EnvTypeOK, ReadinessTypeOK
<1> DEFINE total == baseline + req.count
<1>2. total \in Nat
  BY <1>1
<1>3. \A p \in Percentiles : CeilPercent(p, total) \in Nat
  BY <1>2 DEF CeilPercent, Percentiles
<1>4. ASSUME NEW p \in Percentiles, NEW q \in Percentiles, p < q
      PROVE  CeilPercent(p, total) <= CeilPercent(q, total)
  <2>1. p \in Nat /\ q \in Nat /\ p <= q
    BY <1>4 DEF Percentiles
  <2> QED
    BY <2>1, <1>2, CeilPercentMonotone
<1>5. CeilPercent(100, total) = total
  BY <1>2 DEF CeilPercent
<1>6. \A p \in Percentiles : Target(p) \in Nat /\ Target(p) > baseline
  BY <1>1, <1>3 DEF Target
<1>7. \A p, q \in Percentiles : p < q => Target(p) <= Target(q)
  BY <1>1, <1>3, <1>4 DEF Target
<1>8. req.count > 0 => Target(100) = baseline + req.count
  BY <1>1, <1>5 DEF Target
<1> QED
  BY <1>6, <1>7, <1>8

---------------------------------------------------------------------------
(* The inductive invariant of the readiness wait *)

(***************************************************************************)
(* A count never exceeds the pre-existing nodes and the new ones it saw.   *)
(***************************************************************************)
CountSound == ready <= OldNodes + Cardinality(readySet)

(***************************************************************************)
(* Nor did the count that met a percentile; it was read in the past.       *)
(***************************************************************************)
HitSound ==
    \A p \in Percentiles :
        /\ Hit(p) => Target(p) <= OldNodes + Cardinality(hitSet[p])
        /\ readiness_times[p] <= clock

(***************************************************************************)
(* What is met so far is closed downwards.                                 *)
(***************************************************************************)
Inv ==
    /\ ReadinessOK
    /\ CountSound
    /\ HitSound
    /\ TimingsMonotone

(***************************************************************************)
(* The new nodes that are Ready are a finite set.                          *)
(***************************************************************************)
LEMMA NewNodesFinite ==
    ASSUME ReadinessOK
    PROVE  /\ IsFiniteSet(Names) /\ Cardinality(Names) = req.count
           /\ \A S \in SUBSET Names : IsFiniteSet(S) /\ Cardinality(S) \in Nat
<1>1. req.count \in Nat
  BY EnvAssumption DEF ReadinessOK, EnvTypeOK
<1>2. IsFiniteSet(Names) /\ Cardinality(Names) = req.count
  <2> DEFINE n == req.count
  <2>1. 1 \in Int /\ n \in Int
    BY <1>1
  <2>2. (IF 1 > n THEN 0 ELSE n - 1 + 1) = n
    BY <1>1
  <2> HIDE DEF n
  <2>3. IsFiniteSet(1 .. n) /\ Cardinality(1 .. n) = IF 1 > n THEN 0 ELSE n - 1 + 1
    BY <2>1, FS_Interval
  <2>4. IsFiniteSet(1 .. n) /\ Cardinality(1 .. n) = n
    BY <2>2, <2>3
  <2> QED
    BY <2>4 DEF n, Names
<1> QED
  BY <1>2, FS_Subset, FS_CardinalityType

(***************************************************************************)
(* Moves of the nodes and the service leave the wait's variables alone.    *)
(***************************************************************************)
LEMMA ReadinessEnvInv ==
    ASSUME Inv, ReadinessEnv, UNCHANGED watchVars
    PROVE  Inv'
<1> USE DEF Inv
<1>1. ReadinessOK'
  <2>1. CASE OldNodesFlap
    BY <2>1 DEF OldNodesFlap, ReadinessOK, EnvTypeOK, ReadinessTypeOK, Names,
                watchVars, histVars
  <2>2. ASSUME NEW n \in Names, MachineSettles(n)
        PROVE  ReadinessOK'
    BY <2>2 DEF MachineSettles, ReadinessOK, EnvTypeOK, ReadinessTypeOK, Names,
                watchVars, histVars, MachineStates, TerminalStates
  <2>3. ASSUME NEW n \in Names, NodeJoins(n)
        PROVE  ReadinessOK'
    BY <2>3 DEF NodeJoins, ReadinessOK, EnvTypeOK, ReadinessTypeOK, Names,
                watchVars, histVars
  <2>4. ASSUME NEW n \in Names, NodeLost(n)
        PROVE  ReadinessOK'
    BY <2>4 DEF NodeLost, ReadinessOK, EnvTypeOK, ReadinessTypeOK, Names,
                watchVars, histVars
  <2> QED
    BY <2>1, <2>2, <2>3, <2>4 DEF ReadinessEnv
<1>2. req' = req
  BY DEF ReadinessEnv, OldNodesFlap, MachineSettles, NodeJoins, NodeLost
<1>3. CountSound' /\ HitSound' /\ TimingsMonotone'
  BY <1>2 DEF watchVars, histVars, CountSound, HitSound, TimingsMonotone,
              Hit, Target
<1> QED
  BY <1>1, <1>3

(***************************************************************************)
(* Every step of the wait preserves the invariant.                         *)
(***************************************************************************)
LEMMA WatchStepInv ==
    ASSUME Inv, WatchStep \/ WatchTick
    PROVE  Inv'
<1> USE EnvAssumption, ReadinessAssumption DEF Inv
<1>0. /\ \A p \in Percentiles : readiness_times[p] \in Int
      /\ clock \in Nat
  BY DEF ReadinessOK, ReadinessTypeOK, None
<1>1. CASE WatchStart
  <2>1. ReadinessOK'
    BY <1>1 DEF WatchStart, ReadinessOK, EnvTypeOK, ReadinessTypeOK, Names,
                histVars, envVars, WatchStates
  <2>2. CountSound' /\ HitSound' /\ TimingsMonotone'
    BY <1>1 DEF WatchStart, CountSound, HitSound, TimingsMonotone, Hit, Target,
                histVars, envVars
  <2> QED
    BY <2>1, <2>2
<1>2. CASE WatchLoop
  <2>1. ReadinessOK'
    BY <1>2 DEF WatchLoop, ReadinessOK, EnvTypeOK, ReadinessTypeOK, Names,
                histVars, envVars, WatchStates
  <2>2. CountSound' /\ HitSound' /\ TimingsMonotone'
    BY <1>2 DEF WatchLoop, CountSound, HitSound, TimingsMonotone, Hit, Target,
                histVars, envVars
  <2> QED
    BY <2>1, <2>2
<1>3. CASE CountReady
  <2>1. Cardinality(newReady) \in Nat /\ Cardinality({}) = 0
    BY NewNodesFinite, FS_EmptySet DEF ReadinessOK, EnvTypeOK
  <2>2. /\ ready' \in Nat /\ readySet' \subseteq Names \ existing
        /\ ready' <= OldNodes + Cardinality(readySet')
    <3>1. CASE ready' = oldReady + Cardinality(newReady) /\ readySet' = newReady
      <4>1. oldReady \in Nat /\ oldReady <= OldNodes /\ OldNodes \in Nat
        BY DEF ReadinessOK, EnvTypeOK
      <4> QED
        BY <2>1, <3>1, <4>1 DEF ReadinessOK, EnvTypeOK
    <3>2. CASE ready' = 0 /\ readySet' = {}
      BY <2>1, <3>2
    <3> QED
      BY <1>3, <3>1, <3>2 DEF CountReady
  <2>3. ReadinessOK' /\ CountSound'
    <3>1. watch' \in WatchStates
      BY <1>3 DEF CountReady, WatchStates
    <3> QED
      BY <1>3, <2>2, <3>1 DEF CountReady, ReadinessOK, EnvTypeOK, ReadinessTypeOK,
                  Names, envVars, CountSound
  <2>4. HitSound' /\ TimingsMonotone'
    BY <1>3 DEF CountReady, HitSound, TimingsMonotone, Hit, Target, envVars
  <2> QED
    BY <2>3, <2>4
<1>4. CASE ListPage
  <2>1. ReadinessOK'
    <3>1. PICK P \in SUBSET {n \in Names : listing.seen[n] = "Absent"},
               last \in BOOLEAN :
            listing' = [status |-> IF last THEN "done"
                                   ELSE IF listing.page + 1 = MaxPages
                                   THEN "error" ELSE "running",
                        page   |-> listing.page + 1,
                        seen   |-> [n \in Names |-> IF n \in P THEN arm[n]
                                                   ELSE listing.seen[n]]]
      BY <1>4 DEF ListPage
    <3>2. listing.page + 1 \in Nat
      BY DEF ReadinessOK, ReadinessTypeOK
    <3>3. listing' \in [status: ListStates, page: Nat,
                        seen: [Names -> MachineStates]]
      BY <3>1, <3>2 DEF ReadinessOK, ReadinessTypeOK, EnvTypeOK, ListStates
    <3> QED
      BY <1>4, <3>3 DEF ListPage, ReadinessOK, EnvTypeOK, ReadinessTypeOK, Names,
                  histVars, envVars
  <2>2. CountSound' /\ HitSound' /\ TimingsMonotone'
    BY <1>4 DEF ListPage, CountSound, HitSound, TimingsMonotone, Hit, Target,
                histVars, envVars
  <2> QED
    BY <2>1, <2>2
<1>5. CASE ListFails
  <2>1. ReadinessOK'
    BY <1>5 DEF ListFails, ReadinessOK, EnvTypeOK, ReadinessTypeOK, Names,
                histVars, envVars, ListStates
  <2>2. CountSound' /\ HitSound' /\ TimingsMonotone'
    BY <1>5 DEF ListFails, CountSound, HitSound, TimingsMonotone, Hit, Target,
                histVars, envVars
  <2> QED
    BY <2>1, <2>2
<1>6. CASE JoinCheck
  <2>1. TerminalFailures(listing.seen) \subseteq Names
    BY DEF TerminalFailures
  <2>2. ReadinessOK'
    BY <1>6, <2>1 DEF JoinCheck, ReadinessOK, EnvTypeOK, ReadinessTypeOK, Names,
                histVars, envVars, WatchStates
  <2>3. CountSound' /\ HitSound' /\ TimingsMonotone'
    BY <1>6 DEF JoinCheck, CountSound, HitSound, TimingsMonotone, Hit, Target,
                histVars, envVars
  <2> QED
    BY <2>2, <2>3
<1>7. CASE ApplyCount
  <2>1. ReadinessOK'
    <3>1. WakeTime \in 0 .. ReadyTimeout
      BY DEF WakeTime, MinOf, ReadinessOK, ReadinessTypeOK
    <3>2. Unlisted \in [status: ListStates, page: Nat,
                        seen: [Names -> MachineStates]]
      BY DEF Unlisted, ListStates, MachineStates
    <3>3. req' = req /\ existing' = existing
      BY <1>7 DEF ApplyCount, envVars
    <3> QED
      BY <1>7, <3>1, <3>2, <3>3 DEF ApplyCount, EndRound, ReadinessOK, EnvTypeOK,
                  ReadinessTypeOK, Names, envVars, WatchStates
  <2>2. CountSound'
    BY <1>7, FS_EmptySet DEF ApplyCount, EndRound, CountSound
  <2>3. /\ \A p \in Percentiles : Target(p) \in Nat
        /\ \A p, q \in Percentiles : p < q => Target(p) <= Target(q)
    BY TargetFacts
  <2>4. \A p \in Percentiles : Target(p)' = Target(p)
    BY <1>7 DEF ApplyCount, Target, envVars
  <2>5. HitSound'
    <3>1. Cardinality(readySet) \in Nat /\ ready \in Nat /\ OldNodes \in Nat
      BY NewNodesFinite DEF ReadinessOK, ReadinessTypeOK
    <3>2. \A p \in NewlyHit : Target(p) <= OldNodes + Cardinality(readySet)
      BY <2>3, <3>1 DEF NewlyHit, CountSound
    <3> QED
      BY <1>7, <1>0, <2>4, <3>2 DEF ApplyCount, HitSound, Hit, NewlyHit
  <2>6. TimingsMonotone'
    <3> SUFFICES ASSUME NEW p \in Percentiles, NEW q \in Percentiles, p < q,
                        Hit(q)'
                 PROVE  Hit(p)' /\ readiness_times'[p] <= readiness_times'[q]
      BY DEF TimingsMonotone
    <3>1. Target(p) \in Nat /\ Target(q) \in Nat /\ Target(p) <= Target(q)
      BY <2>3
    <3>2. readiness_times' = [r \in Percentiles |->
                 IF r \in NewlyHit THEN clock ELSE readiness_times[r]]
      BY <1>7 DEF ApplyCount
    <3>3. clock # None /\ ready \in Nat
      BY <1>0 DEF None, ReadinessOK, ReadinessTypeOK
    <3>4. CASE q \in NewlyHit
      <4>1. p \in NewlyHit \/ Hit(p)
        BY <3>1, <3>3, <3>4 DEF NewlyHit
      <4> QED
        BY <1>0, <3>2, <3>3, <3>4, <4>1 DEF HitSound, Hit, NewlyHit
    <3>5. CASE q \notin NewlyHit
      <4>1. Hit(q)
        BY <3>2, <3>5 DEF Hit
      <4>2. Hit(p) /\ readiness_times[p] <= readiness_times[q]
        BY <4>1 DEF TimingsMonotone
      <4> QED
        BY <3>2, <3>5, <4>2 DEF Hit, NewlyHit
    <3> QED
      BY <3>4, <3>5
  <2> QED
    BY <2>1, <2>2, <2>5, <2>6
<1>8. CASE WatchWakes
  <2>1. ReadinessOK'
    BY <1>8 DEF WatchWakes, ReadinessOK, EnvTypeOK, ReadinessTypeOK, Names,
                histVars, envVars, WatchStates
  <2>2. CountSound' /\ HitSound' /\ TimingsMonotone'
    BY <1>8 DEF WatchWakes, CountSound, HitSound, TimingsMonotone, Hit, Target,
                histVars, envVars
  <2> QED
    BY <2>1, <2>2
<1>9. CASE WatchTick
  <2>1. ReadinessOK'
    BY <1>9 DEF WatchTick, ReadinessOK, EnvTypeOK, ReadinessTypeOK, Names,
                histVars, envVars
  <2>2. CountSound' /\ HitSound' /\ TimingsMonotone'
    BY <1>9, <1>0 DEF WatchTick, CountSound, HitSound, TimingsMonotone, Hit,
                Target, histVars, envVars
  <2> QED
    BY <2>1, <2>2
<1> QED
  BY <1>1, <1>2, <1>3, <1>4, <1>5, <1>6, <1>7, <1>8, <1>9
     DEF WatchStep, BoundedStep

---------------------------------------------------------------------------
(* Terminal failures *)

(***************************************************************************)
(* A page that was read earlier is still right about the Machines it       *)
(* listed as terminal.                                                     *)
(***************************************************************************)
ListSound ==
    \A n \in Names :
        listing.seen[n] \in TerminalStates => arm[n] = listing.seen[n]

(***************************************************************************)
(* No move of the environment takes a Machine out of a terminal state.     *)
(***************************************************************************)
LEMMA ReadinessEnvFinal ==
    ASSUME ReadinessOK, ListSound, FailureIsFinal, ReadinessEnv,
           UNCHANGED watchVars
    PROVE  ListSound' /\ FailureIsFinal'
<1>1. Names' = Names /\ listing' = listing /\ watch' = watch
      /\ failed_machines' = failed_machines
  BY DEF ReadinessEnv, OldNodesFlap, MachineSettles, NodeJoins, NodeLost, Names,
         watchVars
<1>2. \A n \in Names : arm[n] \in TerminalStates => arm'[n] = arm[n]
  BY DEF ReadinessEnv, OldNodesFlap, MachineSettles, NodeJoins, NodeLost,
         ReadinessOK, EnvTypeOK, TerminalStates, FailureStates
<1>3. failed_machines \subseteq Names
  BY DEF ReadinessOK, ReadinessTypeOK
<1> QED
  BY <1>1, <1>2, <1>3 DEF ListSound, FailureIsFinal

(***************************************************************************)
(* A step of the wait keeps what a listing says of terminal Machines, and  *)
(* JoinCheck raises only on a listing in which every Machine is terminal.  *)
(***************************************************************************)
LEMMA WatchStepFinal ==
    ASSUME ReadinessOK, ListSound, FailureIsFinal, WatchStep \/ WatchTick
    PROVE  ListSound' /\ FailureIsFinal'
<1>1. Names' = Names /\ arm' = arm
  BY DEF WatchStep, BoundedStep, WatchTick, WatchStart, WatchLoop, CountReady, ListPage,
         ListFails, JoinCheck, ApplyCount, WatchWakes, envVars, Names
<1>2. CASE WatchStart \/ WatchLoop \/ CountReady \/ WatchWakes \/ WatchTick
  <2>1. listing' = listing /\ watch' # "raised"
    BY <1>2 DEF WatchStart, WatchLoop, CountReady, WatchWakes, WatchTick
  <2> QED
    BY <1>1, <2>1 DEF ListSound, FailureIsFinal
<1>3. CASE ListPage
  <2>1. PICK P \in SUBSET {n \in Names : listing.seen[n] = "Absent"} :
          listing'.seen = [n \in Names |-> IF n \in P THEN arm[n]
                                          ELSE listing.seen[n]]
    BY <1>3 DEF ListPage
  <2>2. watch' # "raised"
    BY <1>3 DEF ListPage
  <2> QED
    BY <1>1, <2>1, <2>2 DEF ListSound, FailureIsFinal
<1>4. CASE ListFails
  <2>1. listing'.seen = listing.seen /\ watch' # "raised"
    BY <1>4 DEF ListFails, ReadinessOK, ReadinessTypeOK
  <2> QED
    BY <1>1, <2>1 DEF ListSound, FailureIsFinal
<1>5. CASE JoinCheck
  <2>1. listing' = listing
    BY <1>5 DEF JoinCheck
  <2>2. ASSUME watch' = "raised" PROVE FailureIsFinal'
    <3>1. failed_machines' # {} /\ failed_machines' = TerminalFailures(listing.seen)
      BY <1>5, <2>2 DEF JoinCheck
    <3>2. \A n \in Names : listing.seen[n] \in TerminalStates
      BY <3>1 DEF TerminalFailures
    <3>3. \A n \in failed_machines' : n \in Names
                                     /\ listing.seen[n] \in FailureStates
      BY <3>1 DEF TerminalFailures
    <3> QED
      BY <1>1, <3>1, <3>2, <3>3 DEF ListSound, FailureIsFinal
  <2> QED
    BY <1>1, <2>1, <2>2 DEF ListSound, FailureIsFinal
<1>6. CASE ApplyCount
  <2>1. listing'.seen = [n \in Names |-> "Absent"] /\ watch' # "raised"
    BY <1>6 DEF ApplyCount, EndRound, Unlisted
  <2> QED
    BY <1>1, <2>1 DEF ListSound, FailureIsFinal, TerminalStates, FailureStates
<1> QED
  BY <1>2, <1>3, <1>4, <1>5, <1>6 DEF WatchStep, BoundedStep

---------------------------------------------------------------------------
(* The theorems *)

(***************************************************************************)
(* The wait starts in a state of the invariant ...                         *)
(***************************************************************************)
LEMMA ReadinessInitInv ==
    ASSUME ReadinessSpecInit
    PROVE  Inv /\ ListSound /\ FailureIsFinal
<1> USE EnvAssumption, ReadinessAssumption
        DEF ReadinessSpecInit, Landed, ReadinessInitAt
<1>1. ReadinessOK
  BY DEF ReadinessOK, EnvTypeOK, ReadinessTypeOK, MachineStates, PoolStates,
         WatchStates, Unlisted, ListStates
<1>2. CountSound
  BY FS_EmptySet DEF CountSound
<1>3. HitSound /\ TimingsMonotone
  BY DEF HitSound, TimingsMonotone, Hit, None
<1>4. ListSound /\ FailureIsFinal
  BY DEF ListSound, FailureIsFinal, Unlisted, TerminalStates, FailureStates
<1> QED
  BY <1>1, <1>2, <1>3, <1>4 DEF Inv

(***************************************************************************)
(* ... and never leaves it.                                                *)
(***************************************************************************)
THEOREM ReadinessInvariant ==
    ReadinessSpec => [](Inv /\ ListSound /\ FailureIsFinal)
<1>1. ReadinessSpecInit => Inv /\ ListSound /\ FailureIsFinal
  BY ReadinessInitInv
<1>2. Inv /\ ListSound /\ FailureIsFinal /\ [ReadinessNext]_readVars
        => (Inv /\ ListSound /\ FailureIsFinal)'
  <2> SUFFICES ASSUME Inv, ListSound, FailureIsFinal, [ReadinessNext]_readVars
               PROVE  (Inv /\ ListSound /\ FailureIsFinal)'
    OBVIOUS
  <2>1. ReadinessOK
    BY DEF Inv
  <2>2. CASE WatchStep \/ WatchTick
    BY <2>1, <2>2, WatchStepInv, WatchStepFinal
  <2>3. CASE ReadinessEnv /\ UNCHANGED watchVars
    BY <2>1, <2>3, ReadinessEnvInv, ReadinessEnvFinal
  <2>4. CASE UNCHANGED readVars
    BY <2>4 DEF readVars, envVars, watchVars, histVars, Inv, ReadinessOK,
            EnvTypeOK, ReadinessTypeOK, Names, CountSound, HitSound, Hit, Target,
            TimingsMonotone, ListSound, FailureIsFinal
  <2> QED
    BY <2>2, <2>3, <2>4 DEF ReadinessNext
<1> QED
  BY <1>1, <1>2, PTL DEF ReadinessSpec

(***************************************************************************)
(* Types.                                                                  *)
(***************************************************************************)
THEOREM ReadinessTypes == ReadinessSpec => []ReadinessOK
<1>1. Inv => ReadinessOK
  BY DEF Inv
<1> QED
  BY <1>1, ReadinessInvariant, PTL

(***************************************************************************)
(* The percentile timings _wait_for_machine_node_readiness records are     *)
(* monotone, for every request, baseline, timeout and interval.            *)
(***************************************************************************)
THEOREM TimingsAreMonotone == ReadinessSpec => []TimingsMonotone
<1>1. Inv => TimingsMonotone
  BY DEF Inv
<1> QED
  BY <1>1, ReadinessInvariant, PTL

(***************************************************************************)
(* Old nodes make up at most OldNodes of a count: the rest of the target   *)
(* is new, and with an exact baseline there is such a rest.                *)
(***************************************************************************)
LEMMA InvOnlyNew == Inv => OnlyNewNodesCount
<1> SUFFICES ASSUME Inv, NEW p \in Percentiles, Hit(p)
             PROVE  /\ Cardinality(hitSet[p]) >= Target(p) - OldNodes
                    /\ baseline = OldNodes => hitSet[p] # {}
  BY DEF OnlyNewNodesCount
<1>1. ReadinessOK /\ Target(p) <= OldNodes + Cardinality(hitSet[p])
  BY DEF Inv, HitSound
<1>2. Target(p) \in Nat /\ Target(p) > baseline
  BY <1>1, TargetFacts
<1>3. hitSet[p] \in SUBSET Names /\ OldNodes \in Nat
  BY <1>1, EnvAssumption DEF ReadinessOK, ReadinessTypeOK
<1>4. Cardinality(hitSet[p]) \in Nat
  BY <1>1, <1>3, NewNodesFinite
<1>5. /\ Cardinality(hitSet[p]) >= Target(p) - OldNodes
      /\ baseline = OldNodes => Cardinality(hitSet[p]) > 0
  BY <1>1, <1>2, <1>3, <1>4
<1>6. Cardinality(hitSet[p]) > 0 => hitSet[p] # {}
  BY FS_EmptySet
<1> QED
  BY <1>5, <1>6

(***************************************************************************)
(* _wait_for_machine_node_readiness counts no percentile as met unless     *)
(* enough new nodes were Ready at one moment: the target less the nodes    *)
(* there were, and at least one after an exact snapshot.                   *)
(***************************************************************************)
THEOREM OnlyNewNodes == ReadinessSpec => []OnlyNewNodesCount
BY InvOnlyNew, ReadinessInvariant, PTL

(***************************************************************************)
(* MachineProvisioningFailed is only raised when every expected Machine is *)
(* terminal, although the listing reads its pages at different times.      *)
(***************************************************************************)
THEOREM FailuresAreFinal == ReadinessSpec => []FailureIsFinal
BY ReadinessInvariant, PTL

---------------------------------------------------------------------------
(* The inductive invariant of the whole operation *)

(***************************************************************************)
(* A PUT that may still be applied belongs to a task that was given up on. *)
(***************************************************************************)
LateIsFailed ==
    \A n \in late : \E t \in Tasks : task[t] = "failed" /\ n \in Chunk(t)

(***************************************************************************)
(* Until the readiness wait is entered it has no timing and no listing.    *)
(***************************************************************************)
WaitUntouched ==
    pc \in {"put", "snapshot", "submit", "pool"} =>
        /\ watch = "idle"
        /\ \A p \in Percentiles : ~Hit(p)
        /\ \A n \in Names : listing.seen[n] = "Absent"

(***************************************************************************)
(* Where each command can be, and that the record is written at the end.   *)
(***************************************************************************)
PcSound ==
    /\ pc = "put" => ~Scaling
    /\ pc \in {"snapshot", "submit", "readiness"} => Scaling
    /\ outcome = "none" <=> pc # "done"
    /\ pc = "finish" => IF Scaling THEN watch \in {"returned", "raised"}
                                   ELSE agentpool_ok

(***************************************************************************)
(* scale_machine leaves the submission only when all machines landed.      *)
(***************************************************************************)
Submitted ==
    (Scaling /\ pc \in {"pool", "readiness", "finish"}) =>
        AllReturned /\ successful = Names

(***************************************************************************)
(* A record says success only of an operation that reached its goal.       *)
(***************************************************************************)
SuccessIsGoal == outcome = "success" => Goal

ScaleInv ==
    /\ TypeOK
    /\ Inv /\ ListSound /\ FailureIsFinal
    /\ LateIsFailed
    /\ WaitUntouched
    /\ PcSound
    /\ Submitted
    /\ SuccessIsGoal

---------------------------------------------------------------------------
(* Tasks and chunks *)

(***************************************************************************)
(* The fields of a command line.                                           *)
(***************************************************************************)
LEMMA RequestFields ==
    ASSUME EnvTypeOK
    PROVE  req.count \in Nat /\ req.workers \in Int /\ req.batch \in BOOLEAN
BY EnvAssumption DEF EnvTypeOK

(***************************************************************************)
(* A batch of equal slices leaves no remainder.                            *)
(***************************************************************************)
LEMMA ExactDivision ==
    ASSUME NEW n \in Nat, NEW w \in Nat, w > 0, n % w = 0
    PROVE  n \div w \in Nat /\ w * (n \div w) = n
<1>1. n \div w \in Nat
  OBVIOUS
<1>2. n = w * (n \div w) + (n % w)
  BY Z3
<1> QED
  BY <1>1, <1>2

(***************************************************************************)
(* Slices of equal length laid side by side do not meet.                   *)
(***************************************************************************)
LEMMA SlicesApart ==
    ASSUME NEW len \in Nat, NEW t \in Nat, NEW u \in Nat, t < u
    PROVE  t * len + len <= u * len
<1>1. PICK d \in Nat : u = t + 1 + d
  <2>1. u - t - 1 \in Nat /\ u = t + 1 + (u - t - 1)
    OBVIOUS
  <2> QED
    BY <2>1
<1>2. u * len = t * len + len + d * len
  BY <1>1
<1>3. d * len \in Nat /\ t * len \in Nat
  BY <1>1
<1> QED
  BY <1>2, <1>3

(***************************************************************************)
(* names[start : start + per_worker] cuts the requested names into         *)
(* disjoint slices: no name is PUT twice and none is invented.             *)
(***************************************************************************)
LEMMA ChunksPartition ==
    ASSUME EnvTypeOK
    PROVE  /\ \A t \in Tasks : Chunk(t) \subseteq Names
           /\ \A t, u \in Tasks : t # u => Chunk(t) \cap Chunk(u) = {}
<1> DEFINE count == req.count
           workers == req.workers
           len == count \div workers
<1>0. count \in Nat /\ workers \in Int /\ req.batch \in BOOLEAN
  BY RequestFields
<1>1. CASE ~req.batch
  <2>1. Tasks = 0 .. (count - 1) /\ \A t : Chunk(t) = {t + 1}
    BY <1>1 DEF Tasks, Chunk
  <2> QED
    BY <1>0, <2>1 DEF Names
<1>2. CASE req.batch /\ BatchRejected
  BY <1>2 DEF Tasks
<1>3. CASE req.batch /\ ~BatchRejected
  <2>1. workers > 0 /\ count % workers = 0
    BY <1>3 DEF BatchRejected
  <2>2. len \in Nat /\ count = workers * len
    BY <1>0, <2>1, ExactDivision
  <2>3. Tasks = 0 .. (workers - 1)
        /\ \A t : Chunk(t) = (t * len + 1) .. (t * len + len)
    BY <1>3 DEF Tasks, Chunk
  <2> HIDE DEF len
  <2>4. \A t \in Tasks : t \in Nat /\ t < workers /\ t * len \in Nat
    BY <1>0, <2>1, <2>2, <2>3
  <2>5. ASSUME NEW t \in Tasks PROVE Chunk(t) \subseteq Names
    <3>1. t * len + len <= workers * len
      BY <1>0, <2>1, <2>2, <2>4, SlicesApart
    <3>2. Names = 1 .. count
      BY DEF Names
    <3>3. t * len + len <= count /\ t * len \in Nat
      BY <2>2, <2>4, <3>1
    <3> HIDE DEF count
    <3> QED
      BY <1>0, <2>2, <2>3, <3>2, <3>3
  <2>6. ASSUME NEW t \in Tasks, NEW u \in Tasks, t < u
        PROVE  Chunk(t) \cap Chunk(u) = {}
    <3>1. t * len + len <= u * len
      BY <2>2, <2>4, <2>6, SlicesApart
    <3> QED
      BY <2>2, <2>3, <2>4, <3>1
  <2>7. \A t, u \in Tasks : t # u => t < u \/ u < t
    BY <2>4
  <2> QED
    BY <2>5, <2>6, <2>7
<1> QED
  BY <1>0, <1>1, <1>2, <1>3

---------------------------------------------------------------------------
(* The submission *)

(***************************************************************************)
(* Before the readiness wait starts, nothing ARM does to the Machines      *)
(* touches what the wait's invariant speaks of.                            *)
(***************************************************************************)
LEMMA UntouchedInv ==
    ASSUME Inv, ListSound, FailureIsFinal,
           watch = "idle", \A n \in Names : listing.seen[n] = "Absent",
           EnvTypeOK', req' = req, existing' = existing, UNCHANGED watchVars
    PROVE  Inv' /\ ListSound' /\ FailureIsFinal'
<1>1. Names' = Names
  BY DEF Names
<1>2. ReadinessOK'
  BY <1>1 DEF Inv, ReadinessOK, ReadinessTypeOK, watchVars, histVars
<1>3. CountSound' /\ HitSound' /\ TimingsMonotone'
  BY DEF Inv, CountSound, HitSound, TimingsMonotone, Hit, Target, watchVars,
         histVars
<1>4. ListSound' /\ FailureIsFinal'
  BY <1>1 DEF ListSound, FailureIsFinal, watchVars, TerminalStates, FailureStates
<1> QED
  BY <1>2, <1>3, <1>4 DEF Inv

(***************************************************************************)
(* What a step of the thread pool may do: types are kept, a returned PUT   *)
(* stays as it is and a request given up on is one of a failed task.       *)
(***************************************************************************)
LEMMA SubmitStepFacts ==
    ASSUME EnvTypeOK, SubmitTypeOK, SubmitNext
    PROVE  /\ EnvTypeOK' /\ SubmitTypeOK'
           /\ UNCHANGED <<req, existing, oldReady, newReady>>
           /\ LateIsFailed => LateIsFailed'
<1> USE SubmitAssumption DEF EnvTypeOK, SubmitTypeOK
<1>1. PICK t \in Tasks :
         \/ StartTask(t) \/ PutAccepted(t) \/ PutThrottled(t)
         \/ BackoffOver(t) \/ PutRejected(t) \/ PutLost(t)
  BY DEF SubmitNext
<1>2. UNCHANGED <<req, existing, oldReady, newReady>>
  BY <1>1 DEF StartTask, PutAccepted, PutThrottled, BackoffOver, PutRejected,
              PutLost, envVars
<1>3. /\ Names' = Names /\ Tasks' = Tasks
      /\ \A u \in Tasks : Chunk(u)' = Chunk(u)
  BY <1>2 DEF Names, Tasks, BatchRejected, Chunk
<1>4. Chunk(t) \subseteq Names
  BY ChunksPartition
<1>5. SubmitTypeOK'
  <2>1. task' \in [Tasks -> TaskStates]
    BY <1>1 DEF StartTask, PutAccepted, PutThrottled, BackoffOver, PutRejected,
                PutLost, TaskStates
  <2>2. attempt' \in [Tasks -> 0 .. (BatchMaxRetries - 1)]
    <3>1. 0 \in 0 .. (BatchMaxRetries - 1)
      OBVIOUS
    <3>2. CASE PutThrottled(t)
      <4>1. attempt[t] + 1 < BatchMaxRetries
              => attempt[t] + 1 \in 0 .. (BatchMaxRetries - 1)
        OBVIOUS
      <4> QED
        BY <3>1, <3>2, <4>1 DEF PutThrottled
    <3> QED
      BY <1>1, <3>1, <3>2 DEF StartTask, PutAccepted, BackoffOver, PutRejected,
                 PutLost
  <2> QED
    BY <1>3, <2>1, <2>2
<1>6. EnvTypeOK'
  <2>1. CASE PutAccepted(t)
    <3>1. arm' \in [Names -> MachineStates] /\ pool' \in PoolStates
      BY <2>1 DEF PutAccepted, Provision, MachineStates, PoolStates
    <3> QED
      BY <1>2, <1>3, <2>1, <3>1 DEF PutAccepted
  <2>2. CASE PutLost(t)
    BY <1>2, <1>3, <1>4, <2>2 DEF PutLost
  <2>3. CASE StartTask(t) \/ PutThrottled(t) \/ BackoffOver(t) \/ PutRejected(t)
    BY <1>3, <2>3 DEF StartTask, PutThrottled, BackoffOver, PutRejected, envVars
  <2> QED
    BY <1>1, <2>1, <2>2, <2>3
<1>7. ASSUME LateIsFailed PROVE LateIsFailed'
  <2>1. \A u \in Tasks : task[u] = "failed" => task'[u] = "failed"
    BY <1>1 DEF StartTask, PutAccepted, PutThrottled, BackoffOver, PutRejected,
                PutLost
  <2>2. CASE PutLost(t)
    <3>1. late' = late \cup Chunk(t) /\ task'[t] = "failed"
      BY <2>2 DEF PutLost
    <3> QED
      BY <1>3, <1>7, <2>1, <3>1 DEF LateIsFailed
  <2>3. CASE ~PutLost(t)
    <3>1. late' = late
      BY <1>1, <2>3 DEF StartTask, PutAccepted, PutThrottled, BackoffOver,
                PutRejected, envVars
    <3> QED
      BY <1>3, <1>7, <2>1, <3>1 DEF LateIsFailed
  <2> QED
    BY <2>2, <2>3
<1> QED
  BY <1>2, <1>5, <1>6, <1>7

(***************************************************************************)
(* Machines keep settling and late PUTs are applied while the client       *)
(* submits or polls the agentpool.                                         *)
(***************************************************************************)
LEMMA ProvisioningFacts ==
    ASSUME EnvTypeOK, ProvisioningEnv
    PROVE  /\ EnvTypeOK'
           /\ UNCHANGED <<req, existing, oldReady, newReady>>
           /\ late' \subseteq late
<1>1. UNCHANGED <<req, existing, oldReady, newReady>> /\ late' \subseteq late
  BY DEF ProvisioningEnv, PoolSettles, MachineSettles, LateApply
<1>2. arm' \in [Names -> MachineStates] /\ pool' \in PoolStates
  BY DEF ProvisioningEnv, PoolSettles, MachineSettles, LateApply, Provision,
         EnvTypeOK, MachineStates, TerminalStates, PoolStates
<1> QED
  BY <1>1, <1>2 DEF EnvTypeOK, Names

(***************************************************************************)
(* As many successful names as requested are all the names.                *)
(***************************************************************************)
LEMMA AllLanded ==
    ASSUME EnvTypeOK, Cardinality(successful) = req.count
    PROVE  successful = Names
<1>1. successful \in SUBSET Names
  BY ChunksPartition DEF successful
<1>2. req.count \in Nat
  BY RequestFields
<1>3. IsFiniteSet(Names) /\ Cardinality(Names) = req.count
  <2>1. 1 \in Int /\ req.count \in Int
        /\ (IF 1 > req.count THEN 0 ELSE req.count - 1 + 1) = req.count
    BY <1>2
  <2> QED
    BY <2>1, FS_Interval DEF Names
<1> QED
  BY <1>1, <1>3, FS_Subset

(***************************************************************************)
(* A name that landed is in no slice that failed.                          *)
(***************************************************************************)
LEMMA LandedMeansNoneLate ==
    ASSUME EnvTypeOK, LateIsFailed, successful = Names
    PROVE  late = {}
<1> SUFFICES ASSUME NEW n \in late PROVE FALSE
  OBVIOUS
<1>1. PICK t \in Tasks : task[t] = "failed" /\ n \in Chunk(t)
  BY DEF LateIsFailed
<1>2. n \in Names
  BY DEF EnvTypeOK
<1>3. PICK u \in Tasks : task[u] = "ok" /\ n \in Chunk(u)
  BY <1>2 DEF successful
<1>4. t # u
  BY <1>1, <1>3
<1> QED
  BY <1>1, <1>3, <1>4, ChunksPartition

---------------------------------------------------------------------------
(* Preservation, one lemma per action *)

(***************************************************************************)
(* The derived sets depend only on the request and on the futures.         *)
(***************************************************************************)
LEMMA DerivedUnchanged ==
    ASSUME req' = req
    PROVE  /\ Names' = Names /\ Tasks' = Tasks /\ PoolSize' = PoolSize
           /\ Rejected' = Rejected /\ Scaling' = Scaling
           /\ \A t : Chunk(t)' = Chunk(t)
           /\ task' = task => /\ Busy' = Busy /\ successful' = successful
                              /\ AllReturned' = AllReturned
<1>1. /\ Names' = Names /\ Tasks' = Tasks /\ PoolSize' = PoolSize
      /\ Rejected' = Rejected /\ Scaling' = Scaling
      /\ \A t : Chunk(t)' = Chunk(t)
  BY DEF Names, Tasks, PoolSize, Rejected, BatchRejected, Scaling, Chunk
<1>2. task' = task => /\ Busy' = Busy /\ successful' = successful
                      /\ AllReturned' = AllReturned
  BY <1>1 DEF Busy, successful, AllReturned
<1> QED
  BY <1>1, <1>2

(***************************************************************************)
(* A step that only moves the operation along.                             *)
(***************************************************************************)
LEMMA FrameInv ==
    ASSUME ScaleInv, UNCHANGED <<envVars, submitVars, watchVars>>
    PROVE  /\ EnvTypeOK' /\ SubmitTypeOK' /\ ReadinessTypeOK'
           /\ Inv' /\ ListSound' /\ FailureIsFinal'
           /\ LateIsFailed'
           /\ Names' = Names /\ Scaling' = Scaling /\ AllHit' = AllHit
           /\ AllReturned' = AllReturned /\ successful' = successful
           /\ \A p \in Percentiles : Hit(p)' = Hit(p)
<1>1. req' = req /\ task' = task
  BY DEF envVars, submitVars
<1>2. /\ Names' = Names /\ Tasks' = Tasks /\ Scaling' = Scaling
      /\ AllReturned' = AllReturned /\ successful' = successful
      /\ Rejected' = Rejected /\ PoolSize' = PoolSize /\ Busy' = Busy
      /\ \A t : Chunk(t)' = Chunk(t)
  BY <1>1, DerivedUnchanged
<1>3. AllHit' = AllHit /\ \A p \in Percentiles : Hit(p)' = Hit(p)
  BY DEF AllHit, Hit, watchVars
<1>4. EnvTypeOK' /\ SubmitTypeOK' /\ ReadinessTypeOK'
  BY <1>2 DEF ScaleInv, TypeOK, EnvTypeOK, SubmitTypeOK, ReadinessTypeOK,
              envVars, submitVars, watchVars, histVars
<1>5. CountSound' /\ HitSound' /\ TimingsMonotone'
  BY DEF ScaleInv, Inv, CountSound, HitSound, TimingsMonotone, Hit, Target,
         envVars, watchVars, histVars
<1>6. ListSound' /\ FailureIsFinal'
  BY <1>2 DEF ScaleInv, ListSound, FailureIsFinal, envVars, watchVars
<1>7. LateIsFailed'
  BY <1>2 DEF ScaleInv, LateIsFailed, envVars, submitVars
<1> QED
  BY <1>2, <1>3, <1>4, <1>5, <1>6, <1>7 DEF Inv, ReadinessOK

(***************************************************************************)
(* PutAgentpool: create_machine_agentpool leaves the Machines alone.       *)
(***************************************************************************)
LEMMA PutAgentpoolInv ==
    ASSUME ScaleInv, PutAgentpool
    PROVE  ScaleInv'
<1> USE DEF ScaleInv
<1>1. /\ req' = req /\ task' = task /\ UNCHANGED <<existing, late, watchVars>>
      /\ pc = "put"
  BY DEF PutAgentpool, submitVars
<1>2. /\ Names' = Names /\ Tasks' = Tasks /\ Scaling' = Scaling
      /\ AllReturned' = AllReturned /\ successful' = successful
      /\ Rejected' = Rejected /\ PoolSize' = PoolSize /\ Busy' = Busy
      /\ \A t : Chunk(t)' = Chunk(t)
  BY <1>1, DerivedUnchanged
<1>3. EnvTypeOK' /\ SubmitTypeOK'
  BY <1>2 DEF PutAgentpool, TypeOK, EnvTypeOK, SubmitTypeOK, submitVars, PoolStates
<1>4. watch = "idle" /\ \A n \in Names : listing.seen[n] = "Absent"
  BY <1>1 DEF WaitUntouched
<1>5. Inv' /\ ListSound' /\ FailureIsFinal'
  BY <1>1, <1>3, <1>4, UntouchedInv
<1>6. TypeOK'
  BY <1>3, <1>5 DEF PutAgentpool, Record, TypeOK, Inv, ReadinessOK, Steps, Errors
<1>7. LateIsFailed'
  BY <1>1, <1>2 DEF LateIsFailed
<1>8. WaitUntouched'
  BY <1>1, <1>2 DEF WaitUntouched, Hit, watchVars
<1>9. ~Scaling
  BY <1>1 DEF PcSound
<1>10. PcSound' /\ Submitted' /\ SuccessIsGoal'
  BY <1>1, <1>2, <1>9 DEF PutAgentpool, Record, PcSound, Submitted, SuccessIsGoal
<1> QED
  BY <1>5, <1>6, <1>7, <1>8, <1>10

(***************************************************************************)
(* SnapshotBaseline: the baseline is set while no percentile is met, so    *)
(* what the invariant says of targets still holds.                         *)
(***************************************************************************)
LEMMA SnapshotBaselineInv ==
    ASSUME ScaleInv, SnapshotBaseline
    PROVE  ScaleInv'
<1> USE DEF ScaleInv
<1>1. /\ UNCHANGED <<envVars, submitVars>> /\ req' = req /\ task' = task
      /\ UNCHANGED <<watch, clock, wakeAt, checkAt, counting, ready, listing,
                     readiness_times, failed_machines, readySet, hitSet>>
      /\ pc = "snapshot" /\ pc' = "submit" /\ baseline' \in {oldReady, 0}
      /\ UNCHANGED <<poolClock, poolWakeAt, agentpool_ok, outcome>>
  BY DEF SnapshotBaseline, envVars, submitVars, histVars
<1>2. /\ Names' = Names /\ Tasks' = Tasks /\ Scaling' = Scaling
      /\ Rejected' = Rejected /\ PoolSize' = PoolSize /\ Busy' = Busy
      /\ \A t : Chunk(t)' = Chunk(t)
  BY <1>1, DerivedUnchanged
<1>3. EnvTypeOK' /\ SubmitTypeOK'
  BY <1>1, <1>2 DEF TypeOK, EnvTypeOK, SubmitTypeOK, submitVars, envVars
<1>4. ReadinessTypeOK'
  <2>1. baseline' \in 0 .. OldNodes
    BY <1>1, EnvAssumption DEF TypeOK, EnvTypeOK
  <2> QED
    BY <1>1, <1>2, <2>1 DEF TypeOK, ReadinessTypeOK, envVars
<1>5. \A p \in Percentiles : ~Hit(p) /\ ~Hit(p)'
  BY <1>1 DEF WaitUntouched, Hit
<1>6. CountSound' /\ HitSound' /\ TimingsMonotone'
  BY <1>1, <1>5 DEF Inv, CountSound, HitSound, TimingsMonotone
<1>7. ListSound' /\ FailureIsFinal'
  BY <1>1, <1>2 DEF ListSound, FailureIsFinal, envVars
<1>8. LateIsFailed'
  BY <1>1, <1>2 DEF LateIsFailed, envVars
<1>9. TypeOK'
  BY <1>1, <1>3, <1>4 DEF TypeOK, Steps
<1>10. WaitUntouched'
  BY <1>1, <1>2, <1>5 DEF WaitUntouched
<1>11. PcSound' /\ Submitted' /\ SuccessIsGoal'
  BY <1>1, <1>2 DEF PcSound, Submitted, SuccessIsGoal
<1> QED
  BY <1>3, <1>4, <1>6, <1>7, <1>8, <1>9, <1>10, <1>11 DEF Inv, ReadinessOK

(***************************************************************************)
(* SubmitStep: the futures move, the wait has not begun.                   *)
(***************************************************************************)
LEMMA SubmitStepInv ==
    ASSUME ScaleInv, SubmitStep
    PROVE  ScaleInv'
<1> USE DEF ScaleInv
<1>1. /\ SubmitNext /\ UNCHANGED watchVars /\ pc = "submit"
      /\ UNCHANGED <<pc, poolClock, poolWakeAt, agentpool_ok, outcome>>
  BY DEF SubmitStep, opVars
<1>2. EnvTypeOK /\ SubmitTypeOK
  BY DEF TypeOK
<1>3. /\ EnvTypeOK' /\ SubmitTypeOK' /\ LateIsFailed'
      /\ UNCHANGED <<req, existing>>
  BY <1>1, <1>2, SubmitStepFacts
<1>4. Names' = Names /\ Scaling' = Scaling
  BY <1>3, DerivedUnchanged
<1>5. watch = "idle" /\ \A n \in Names : listing.seen[n] = "Absent"
  BY <1>1 DEF WaitUntouched
<1>6. Inv' /\ ListSound' /\ FailureIsFinal'
  BY <1>1, <1>3, <1>5, UntouchedInv
<1>7. TypeOK'
  BY <1>1, <1>3, <1>6 DEF TypeOK, Inv, ReadinessOK
<1>8. WaitUntouched'
  BY <1>1, <1>4 DEF WaitUntouched, Hit, watchVars
<1>9. PcSound' /\ Submitted' /\ SuccessIsGoal'
  BY <1>1, <1>4 DEF PcSound, Submitted, SuccessIsGoal
<1> QED
  BY <1>3, <1>6, <1>7, <1>8, <1>9

(***************************************************************************)
(* SubmitReturns: the operation goes on only when every machine landed.    *)
(***************************************************************************)
LEMMA SubmitReturnsInv ==
    ASSUME ScaleInv, SubmitReturns
    PROVE  ScaleInv'
<1> USE DEF ScaleInv
<1>1. /\ UNCHANGED <<envVars, submitVars, watchVars>> /\ pc = "submit"
      /\ UNCHANGED <<poolClock, poolWakeAt, agentpool_ok>> /\ AllReturned
  BY DEF SubmitReturns
<1>2. /\ EnvTypeOK' /\ SubmitTypeOK' /\ ReadinessTypeOK'
      /\ Inv' /\ ListSound' /\ FailureIsFinal' /\ LateIsFailed'
      /\ Names' = Names /\ Scaling' = Scaling
      /\ AllReturned' = AllReturned /\ successful' = successful
      /\ \A p \in Percentiles : Hit(p)' = Hit(p)
  BY <1>1, FrameInv
<1>3. \/ pc' = "done" /\ outcome' \in {"ValueError", "PartialLanding"}
      \/ pc' = "pool" /\ outcome' = outcome /\ Cardinality(successful) = req.count
  BY DEF SubmitReturns, Record
<1>4. TypeOK'
  BY <1>1, <1>2, <1>3 DEF TypeOK, Steps, Errors
<1>5. WaitUntouched'
  BY <1>1, <1>2, <1>3 DEF WaitUntouched, watchVars
<1>6. PcSound' /\ SuccessIsGoal'
  BY <1>1, <1>2, <1>3 DEF PcSound, SuccessIsGoal
<1>7. Submitted'
  <2>1. pc' = "pool" => successful = Names
    BY <1>3, AllLanded DEF TypeOK
  <2> QED
    BY <1>1, <1>2, <1>3, <2>1 DEF Submitted
<1> QED
  BY <1>2, <1>4, <1>5, <1>6, <1>7

(***************************************************************************)
(* The agentpool wait: it may go on, fail the operation or hand over.      *)
(***************************************************************************)
LEMMA PoolWaitInv ==
    ASSUME ScaleInv, PoolGet \/ PoolTimesOut \/ PoolTick
    PROVE  ScaleInv'
<1> USE PoolAssumption DEF ScaleInv
<1>1. UNCHANGED <<envVars, submitVars, watchVars>> /\ pc = "pool"
  BY DEF PoolGet, PoolTimesOut, PoolTick
<1>2. /\ EnvTypeOK' /\ SubmitTypeOK' /\ ReadinessTypeOK'
      /\ Inv' /\ ListSound' /\ FailureIsFinal' /\ LateIsFailed'
      /\ Names' = Names /\ Scaling' = Scaling
      /\ AllReturned' = AllReturned /\ successful' = successful
      /\ \A p \in Percentiles : Hit(p)' = Hit(p)
  BY <1>1, FrameInv
<1>3. /\ poolClock' \in 0 .. PoolTimeout /\ poolWakeAt' \in Nat
      /\ agentpool_ok' \in BOOLEAN
  <2>1. poolClock \in 0 .. PoolTimeout /\ poolWakeAt \in Nat
        /\ 0 \in 0 .. PoolTimeout /\ agentpool_ok \in BOOLEAN
    BY DEF TypeOK
  <2>3. CASE PoolTick
    BY <2>1, <2>3 DEF PoolTick
  <2>4. CASE PoolWaitReturns(TRUE)
    BY <2>1, <2>4, Zenon DEF PoolWaitReturns
  <2>5. CASE PoolWaitReturns(FALSE)
    BY <2>1, <2>5, Zenon DEF PoolWaitReturns
  <2>6. CASE PoolSleeps
    BY <2>1, <2>6 DEF PoolSleeps
  <2>7. CASE UNCHANGED <<poolClock, poolWakeAt, agentpool_ok>>
    BY <2>1, <2>7
  <2> QED
    BY <2>3, <2>4, <2>5, <2>6, <2>7 DEF PoolGet, PoolTimesOut
<1>4. \/ pc' = "pool" /\ outcome' = outcome
      \/ pc' = "done" /\ outcome' \in {"PoolGet", "PoolNotSucceeded"}
      \/ pc' = "readiness" /\ Scaling /\ outcome' = outcome
      \/ pc' = "finish" /\ ~Scaling /\ agentpool_ok' /\ outcome' = outcome
  BY <1>1 DEF PoolGet, PoolTimesOut, PoolTick, PoolSleeps, PoolWaitReturns, Record
<1>5. TypeOK'
  <2>1. pc' \in Steps /\ outcome' \in {"none", "success"} \cup Errors
    BY <1>4 DEF TypeOK, Steps, Errors
  <2> QED
    BY <1>2, <1>3, <2>1 DEF TypeOK
<1>6. WaitUntouched'
  BY <1>1, <1>2, <1>4 DEF WaitUntouched, watchVars
<1>7. PcSound' /\ SuccessIsGoal'
  BY <1>1, <1>2, <1>4 DEF PcSound, SuccessIsGoal
<1>8. Submitted'
  BY <1>1, <1>2, <1>4 DEF Submitted
<1> QED
  BY <1>2, <1>5, <1>6, <1>7, <1>8

(***************************************************************************)
(* The readiness wait, its clock, and the nodes and Machines meanwhile.    *)
(***************************************************************************)
LEMMA ReadinessPhaseInv ==
    ASSUME ScaleInv, pc = "readiness", UNCHANGED <<opVars, submitVars>>,
           \/ WatchStep \/ WatchTick
           \/ ReadinessEnv /\ UNCHANGED watchVars
    PROVE  ScaleInv'
<1> USE DEF ScaleInv
<1>1. req' = req /\ existing' = existing /\ late' = late
  BY DEF ReadinessEnv, OldNodesFlap, MachineSettles, NodeJoins, NodeLost,
         WatchStep, BoundedStep, WatchTick, WatchStart, WatchLoop, CountReady, ListPage,
         ListFails, JoinCheck, ApplyCount, WatchWakes, envVars
<1>2. UNCHANGED <<pc, poolClock, poolWakeAt, agentpool_ok, outcome, task, attempt>>
  BY DEF opVars, submitVars
<1>3. /\ Names' = Names /\ Tasks' = Tasks /\ Scaling' = Scaling
      /\ AllReturned' = AllReturned /\ successful' = successful
      /\ Rejected' = Rejected /\ PoolSize' = PoolSize /\ Busy' = Busy
      /\ \A t : Chunk(t)' = Chunk(t)
  BY <1>1, <1>2, DerivedUnchanged
<1>4. ReadinessOK
  BY DEF Inv
<1>5. Inv' /\ ListSound' /\ FailureIsFinal'
  BY <1>4, WatchStepInv, WatchStepFinal, ReadinessEnvInv, ReadinessEnvFinal
<1>6. TypeOK'
  BY <1>2, <1>3, <1>5 DEF TypeOK, SubmitTypeOK, Inv, ReadinessOK
<1>7. LateIsFailed'
  BY <1>1, <1>2, <1>3 DEF LateIsFailed
<1>8. WaitUntouched' /\ PcSound' /\ Submitted'
  BY <1>2, <1>3 DEF WaitUntouched, PcSound, Submitted
<1>9. SuccessIsGoal'
  BY <1>2 DEF PcSound, SuccessIsGoal
<1> QED
  BY <1>5, <1>6, <1>7, <1>8, <1>9

(***************************************************************************)
(* ReadinessReturns: the wait is over, with an envelope or an exception.   *)
(***************************************************************************)
LEMMA ReadinessReturnsInv ==
    ASSUME ScaleInv, ReadinessReturns
    PROVE  ScaleInv'
<1> USE DEF ScaleInv
<1>1. /\ UNCHANGED <<envVars, submitVars, watchVars>>
      /\ UNCHANGED <<poolClock, poolWakeAt, agentpool_ok, outcome>>
      /\ pc = "readiness" /\ pc' = "finish" /\ watch \in {"returned", "raised"}
      /\ watch' = watch
  BY DEF ReadinessReturns, watchVars
<1>2. /\ EnvTypeOK' /\ SubmitTypeOK' /\ ReadinessTypeOK'
      /\ Inv' /\ ListSound' /\ FailureIsFinal' /\ LateIsFailed'
      /\ Names' = Names /\ Scaling' = Scaling
      /\ AllReturned' = AllReturned /\ successful' = successful
  BY <1>1, FrameInv
<1>3. TypeOK'
  BY <1>1, <1>2 DEF TypeOK, Steps
<1>4. WaitUntouched' /\ PcSound' /\ Submitted' /\ SuccessIsGoal'
  BY <1>1, <1>2 DEF WaitUntouched, PcSound, Submitted, SuccessIsGoal
<1> QED
  BY <1>2, <1>3, <1>4

(***************************************************************************)
(* P100 is met only when every lower percentile is.                        *)
(***************************************************************************)
LEMMA LastHitIsAll ==
    ASSUME TimingsMonotone, Hit(100)
    PROVE  AllHit
BY DEF TimingsMonotone, AllHit, Percentiles

(***************************************************************************)
(* Finish: the verdict says success only if the goal is reached.           *)
(***************************************************************************)
LEMMA FinishInv ==
    ASSUME ScaleInv, Finish
    PROVE  ScaleInv'
<1> USE DEF ScaleInv
<1>1. /\ UNCHANGED <<envVars, submitVars, watchVars>>
      /\ UNCHANGED <<poolClock, poolWakeAt, agentpool_ok>>
      /\ pc = "finish" /\ pc' = "done" /\ outcome' \in {"ClusterData", Verdict}
      /\ watch' = watch
  BY DEF Finish, Record, watchVars
<1>2. /\ EnvTypeOK' /\ SubmitTypeOK' /\ ReadinessTypeOK'
      /\ Inv' /\ ListSound' /\ FailureIsFinal' /\ LateIsFailed'
      /\ Names' = Names /\ Scaling' = Scaling /\ AllHit' = AllHit
      /\ AllReturned' = AllReturned /\ successful' = successful
  BY <1>1, FrameInv
<1>3. Verdict \in {"success", "MachineProvisioningFailed", "PoolNotSucceeded",
                   "P100Missed"}
  BY DEF Verdict
<1>4. TypeOK'
  BY <1>1, <1>2, <1>3 DEF TypeOK, Steps, Errors
<1>5. WaitUntouched' /\ PcSound' /\ Submitted'
  BY <1>1, <1>2, <1>3 DEF WaitUntouched, PcSound, Submitted
<1>6. ASSUME outcome' = "success" PROVE Goal'
  <2>1. Verdict = "success"
    BY <1>1, <1>6
  <2>2. CASE ~Scaling
    BY <1>1, <1>2, <2>2 DEF PcSound, Goal
  <2>3. CASE Scaling
    <3>1. watch \in {"returned", "raised"} /\ successful = Names
      BY <1>1, <2>3 DEF PcSound, Submitted
    <3>2. watch = "returned" /\ agentpool_ok /\ Hit(100)
      BY <2>1, <2>3, <3>1 DEF Verdict
    <3>3. AllHit
      BY <3>2, LastHitIsAll DEF Inv
    <3> QED
      BY <1>1, <1>2, <2>3, <3>1, <3>2, <3>3 DEF Goal
  <2> QED
    BY <2>2, <2>3
<1> QED
  BY <1>2, <1>4, <1>5, <1>6 DEF SuccessIsGoal

(***************************************************************************)
(* Environment: before the readiness wait and during it.                   *)
(***************************************************************************)
LEMMA EnvironmentInv ==
    ASSUME ScaleInv, Environment
    PROVE  ScaleInv'
<1> USE DEF ScaleInv
<1>1. /\ UNCHANGED <<pc, poolClock, poolWakeAt, agentpool_ok, outcome, task,
                     attempt, watchVars>>
      /\ UNCHANGED <<opVars, submitVars>>
  BY DEF Environment, opVars, submitVars
<1>2. CASE pc = "readiness" /\ ReadinessEnv
  BY <1>1, <1>2, ReadinessPhaseInv
<1>3. CASE pc \in {"submit", "pool"} /\ ProvisioningEnv
  <2>1. EnvTypeOK' /\ UNCHANGED <<req, existing>> /\ late' \subseteq late
    BY <1>3, ProvisioningFacts DEF TypeOK
  <2>2. /\ Names' = Names /\ Tasks' = Tasks /\ Scaling' = Scaling
        /\ AllReturned' = AllReturned /\ successful' = successful
        /\ Rejected' = Rejected /\ PoolSize' = PoolSize /\ Busy' = Busy
        /\ \A t : Chunk(t)' = Chunk(t)
    BY <1>1, <2>1, DerivedUnchanged
  <2>3. watch = "idle" /\ \A n \in Names : listing.seen[n] = "Absent"
    BY <1>3 DEF WaitUntouched
  <2>4. Inv' /\ ListSound' /\ FailureIsFinal'
    BY <1>1, <2>1, <2>3, UntouchedInv
  <2>5. TypeOK'
    BY <1>1, <2>1, <2>2, <2>4 DEF TypeOK, SubmitTypeOK, Inv, ReadinessOK
  <2>6. LateIsFailed'
    BY <1>1, <2>1, <2>2 DEF LateIsFailed
  <2>7. WaitUntouched'
    BY <1>1, <2>2 DEF WaitUntouched, Hit, watchVars
  <2>8. PcSound' /\ Submitted'
    BY <1>1, <2>2, <1>3 DEF PcSound, Submitted
  <2>9. SuccessIsGoal'
    BY <1>1, <1>3 DEF PcSound, SuccessIsGoal
  <2> QED
    BY <2>4, <2>5, <2>6, <2>7, <2>8, <2>9
<1> QED
  BY <1>2, <1>3 DEF Environment

---------------------------------------------------------------------------
(* The theorems *)

(***************************************************************************)
(* Both commands start in a state of the invariant ...                     *)
(***************************************************************************)
LEMMA ScaleInitInv == Init => ScaleInv
<1> SUFFICES ASSUME Init PROVE ScaleInv
  OBVIOUS
<1> USE EnvAssumption, SubmitAssumption, ReadinessAssumption, PoolAssumption
        DEF Init
<1>1. EnvTypeOK
  BY DEF EnvInit, EnvTypeOK, MachineStates, TerminalStates, PoolStates
<1>2. SubmitTypeOK
  BY DEF SubmitInit, SubmitTypeOK, TaskStates
<1>3. ReadinessTypeOK
  <2>1. Unlisted \in [status: ListStates, page: Nat, seen: [Names -> MachineStates]]
    BY DEF Unlisted, ListStates, MachineStates
  <2> QED
    BY <2>1 DEF ReadinessInitAt, ReadinessTypeOK, WatchStates
<1>4. TypeOK
  <2>1. agentpool_ok \in BOOLEAN
    BY Zenon
  <2>2. pc \in Steps /\ poolClock \in 0 .. PoolTimeout /\ poolWakeAt \in Nat
    BY DEF Steps
  <2> QED
    BY <1>1, <1>2, <1>3, <2>1, <2>2 DEF TypeOK
<1>5. CountSound /\ HitSound /\ TimingsMonotone
  BY FS_EmptySet DEF ReadinessInitAt, CountSound, HitSound, TimingsMonotone, Hit,
                     None
<1>6. ListSound /\ FailureIsFinal /\ WaitUntouched
  BY DEF ReadinessInitAt, ListSound, FailureIsFinal, WaitUntouched, Unlisted,
         TerminalStates, FailureStates, Hit
<1>7. LateIsFailed
  BY DEF EnvInit, LateIsFailed
<1>8. PcSound /\ Submitted /\ SuccessIsGoal
  BY DEF PcSound, Submitted, SuccessIsGoal
<1> QED
  BY <1>1, <1>3, <1>4, <1>5, <1>6, <1>7, <1>8 DEF ScaleInv, Inv, ReadinessOK

(***************************************************************************)
(* ... and no step of the client, of ARM or of the nodes leaves it.        *)
(***************************************************************************)
LEMMA ScaleNextInv == ScaleInv /\ [Next]_vars => ScaleInv'
<1> SUFFICES ASSUME ScaleInv, [Next]_vars PROVE ScaleInv'
  OBVIOUS
<1>1. CASE PutAgentpool
  BY <1>1, PutAgentpoolInv
<1>2. CASE SnapshotBaseline
  BY <1>2, SnapshotBaselineInv
<1>3. CASE SubmitStep
  BY <1>3, SubmitStepInv
<1>4. CASE SubmitReturns
  BY <1>4, SubmitReturnsInv
<1>5. CASE PoolGet \/ PoolTimesOut \/ PoolTick
  BY <1>5, PoolWaitInv
<1>6. CASE ReadinessStep \/ ReadinessTick
  BY <1>6, ReadinessPhaseInv DEF ReadinessStep, ReadinessTick
<1>7. CASE ReadinessReturns
  BY <1>7, ReadinessReturnsInv
<1>8. CASE Finish
  BY <1>8, FinishInv
<1>9. CASE Environment
  BY <1>9, EnvironmentInv
<1>10. CASE UNCHANGED vars
  <2>1. UNCHANGED <<envVars, submitVars, watchVars>> /\ watch' = watch
        /\ listing' = listing
        /\ UNCHANGED <<pc, poolClock, poolWakeAt, agentpool_ok, outcome>>
    BY <1>10 DEF vars, opVars, watchVars
  <2>2. /\ EnvTypeOK' /\ SubmitTypeOK' /\ ReadinessTypeOK'
        /\ Inv' /\ ListSound' /\ FailureIsFinal' /\ LateIsFailed'
        /\ Names' = Names /\ Scaling' = Scaling /\ AllHit' = AllHit
        /\ AllReturned' = AllReturned /\ successful' = successful
        /\ \A p \in Percentiles : Hit(p)' = Hit(p)
    BY <2>1, FrameInv
  <2>3. TypeOK' /\ WaitUntouched' /\ PcSound' /\ Submitted'
    BY <2>1, <2>2 DEF ScaleInv, TypeOK, WaitUntouched, PcSound, Submitted
  <2>4. Goal' = Goal
    BY <2>1, <2>2 DEF Goal
  <2> QED
    BY <2>1, <2>2, <2>3, <2>4 DEF ScaleInv, SuccessIsGoal
<1> QED
  BY <1>1, <1>2, <1>3, <1>4, <1>5, <1>6, <1>7, <1>8, <1>9, <1>10 DEF Next

(***************************************************************************)
(* The invariant of create_machine_agentpool and scale_machine.            *)
(***************************************************************************)
THEOREM ScaleInvariant == Spec => []ScaleInv
BY ScaleInitInv, ScaleNextInv, PTL DEF Spec

(***************************************************************************)
(* What the readiness wait promises on its own it keeps as a part of       *)
(* scale_machine, where the Machines and the baseline come from the steps  *)
(* before it: monotone timings, only new nodes counted, final failures.    *)
(***************************************************************************)
THEOREM WaitPromisesKept ==
    Spec => [](TimingsMonotone /\ OnlyNewNodesCount /\ FailureIsFinal)
<1>1. ScaleInv => TimingsMonotone /\ OnlyNewNodesCount /\ FailureIsFinal
  BY InvOnlyNew DEF ScaleInv, Inv
<1> QED
  BY <1>1, ScaleInvariant, PTL

(***************************************************************************)
(* When scale_machine polls the agentpool or counts nodes, every future    *)
(* has returned and no PUT it gave up on can still be applied.             *)
(***************************************************************************)
THEOREM NoneOutstanding == Spec => []NothingOutstanding
<1>1. ScaleInv => NothingOutstanding
  BY LandedMeansNoneLate DEF ScaleInv, TypeOK, Submitted, NothingOutstanding
<1> QED
  BY <1>1, ScaleInvariant, PTL

(***************************************************************************)
(* A successful scale_machine after an exact snapshot created every        *)
(* machine it names: P100 asks for as many new nodes as there are names.   *)
(***************************************************************************)
LEMMA GoalIsAllNew == ScaleInv => SuccessMeansAllNew
<1> SUFFICES ASSUME ScaleInv, outcome = "success", Scaling, baseline = OldNodes
             PROVE  hitSet[100] = Names /\ existing = {}
  BY DEF SuccessMeansAllNew
<1>1. Inv /\ ReadinessOK /\ AllHit
  BY DEF ScaleInv, Inv, SuccessIsGoal, Goal
<1>2. 100 \in Percentiles
  BY DEF Percentiles
<1>3. hitSet[100] \in SUBSET (Names \ existing) /\ existing \subseteq Names
  BY <1>1, <1>2 DEF ReadinessOK, ReadinessTypeOK, EnvTypeOK
<1>4. req.count \in Nat /\ baseline \in Nat
  BY <1>1, EnvAssumption DEF ReadinessOK, EnvTypeOK, ReadinessTypeOK
<1>5. hitSet[100] = Names
  <2>1. CASE req.count = 0
    BY <1>3, <2>1 DEF Names
  <2>2. CASE req.count > 0
    <3>1. Target(100) = baseline + req.count
      BY <1>1, <2>2, TargetFacts
    <3>2. Cardinality(hitSet[100]) >= Target(100) - baseline
      BY <1>1, <1>2, InvOnlyNew DEF OnlyNewNodesCount, AllHit
    <3>3. /\ IsFiniteSet(Names) /\ Cardinality(Names) = req.count
          /\ Cardinality(hitSet[100]) \in Nat
      BY <1>1, <1>3, NewNodesFinite
    <3>4. hitSet[100] \in SUBSET Names
      BY <1>3
    <3>5. Cardinality(hitSet[100]) <= Cardinality(Names)
      BY <3>3, <3>4, FS_Subset
    <3>6. Cardinality(hitSet[100]) = Cardinality(Names)
      BY <1>4, <3>1, <3>2, <3>3, <3>5
    <3> QED
      BY <3>3, <3>4, <3>6, FS_Subset
  <2> QED
    BY <1>4, <2>1, <2>2
<1> QED
  BY <1>3, <1>5

(***************************************************************************)
(* scale_machine records success after an exact snapshot only if every     *)
(* machine it names is new and its node was Ready when P100 was met.       *)
(***************************************************************************)
THEOREM SuccessIsAllNew == Spec => []SuccessMeansAllNew
BY GoalIsAllNew, ScaleInvariant, PTL

---------------------------------------------------------------------------
(* The refinement *)

(***************************************************************************)
(* Whether the goal is reached is always determined.                       *)
(***************************************************************************)
LEMMA GoalBoolean == TypeOK => Goal \in BOOLEAN
BY DEF TypeOK, Goal, AllHit

(***************************************************************************)
(* Initial states map to initial states of MeasuredOperation ...           *)
(***************************************************************************)
LEMMA MeasuredInit == Init => Measured!Init
<1> SUFFICES ASSUME Init PROVE Measured!Init
  OBVIOUS
<1>1. Goal \in BOOLEAN
  BY ScaleInitInv, GoalBoolean DEF ScaleInv
<1>2. RecordStatus = "open"
  BY DEF Init, RecordStatus
<1> QED
  BY <1>1, <1>2 DEF Measured!Init

(***************************************************************************)
(* ... and every step maps to Work, to the end of the record or to a       *)
(* stutter: the record is written once, and success only with the goal.    *)
(***************************************************************************)
LEMMA MeasuredNext ==
    ScaleInv /\ ScaleInv' /\ [Next]_vars
        => [Measured!Next]_<<Goal, RecordStatus>>
<1> SUFFICES ASSUME ScaleInv, ScaleInv', [Next]_vars
             PROVE  [Measured!Next]_<<Goal, RecordStatus>>
  OBVIOUS
<1>1. Goal \in BOOLEAN /\ Goal' \in BOOLEAN
  BY DEF ScaleInv, TypeOK, Goal, AllHit
<1>2. RecordStatus \in {"open", "success", "failure"}
  BY DEF RecordStatus
<1>3. CASE outcome' = outcome
  <2>1. RecordStatus' = RecordStatus
    BY <1>3 DEF RecordStatus
  <2> QED
    BY <1>1, <1>2, <2>1 DEF Measured!Next, Measured!Work, Measured!Afterwards
<1>4. CASE outcome' # outcome
  <2>1. PutAgentpool \/ SubmitReturns \/ PoolGet \/ PoolTimesOut \/ Finish
    BY <1>4 DEF Next, vars, opVars, SnapshotBaseline, SubmitStep, PoolTick,
                ReadinessStep, ReadinessTick, ReadinessReturns, Environment
  <2>2. pc # "done"
    BY <2>1 DEF PutAgentpool, SubmitReturns, PoolGet, PoolTimesOut, Finish
  <2>3. RecordStatus = "open" /\ outcome' # "none"
    BY <1>4, <2>2 DEF ScaleInv, PcSound, RecordStatus
  <2>4. CASE outcome' # "success"
    <3>1. RecordStatus' = "failure"
      BY <2>3, <2>4 DEF RecordStatus
    <3> QED
      BY <1>1, <2>3, <3>1 DEF Measured!Next, Measured!EndFailure
  <2>5. CASE outcome' = "success"
    <3>1. Finish
      BY <1>4, <2>1, <2>5 DEF PutAgentpool, SubmitReturns, PoolGet, PoolTimesOut,
                PoolSleeps, PoolWaitReturns, Record
    <3>2. Goal' = Goal
      <4>1. UNCHANGED <<envVars, submitVars, watchVars>> /\ watch' = watch
            /\ agentpool_ok' = agentpool_ok
        BY <3>1 DEF Finish, watchVars
      <4>2. /\ Names' = Names /\ Scaling' = Scaling /\ AllHit' = AllHit
            /\ successful' = successful
        BY <4>1, FrameInv
      <4> QED
        BY <4>1, <4>2 DEF Goal
    <3>3. Goal
      BY <2>5, <3>2 DEF ScaleInv, SuccessIsGoal
    <3>4. RecordStatus' = "success"
      BY <2>5 DEF RecordStatus
    <3> QED
      BY <1>1, <2>3, <3>3, <3>4 DEF Measured!Next, Measured!EndSuccess
  <2> QED
    BY <2>4, <2>5
<1> QED
  BY <1>3, <1>4

(***************************************************************************)
(* create_machine_agentpool and scale_machine implement MeasuredOperation: *)
(* one record, and success only if what was measured was reached.          *)
(***************************************************************************)
THEOREM ScaleImplementsMeasured == Spec => ImplementsMeasured
<1>1. Init => Measured!Init
  BY MeasuredInit
<1>2. ScaleInv /\ ScaleInv' /\ [Next]_vars => [Measured!Next]_<<Goal, RecordStatus>>
  BY MeasuredNext
<1> QED
  BY <1>1, <1>2, ScaleInvariant, PTL DEF Spec, ImplementsMeasured, Measured!Spec

===========================================================================
