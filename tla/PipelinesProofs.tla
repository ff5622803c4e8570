-------------------------- MODULE PipelinesProofs --------------------------
(***************************************************************************)
(* Proofs about Pipelines for any finite set of pipelines, any number of   *)
(* runs and any number of edits.                                           *)
(***************************************************************************)
EXTENDS Pipelines, FiniteSetTheorems, TLAPS

Definition == [id : Ids, queue : {"enabled", "disabled"}, skip : BOOLEAN, revision : Nat]
Build      == Ids \X Branches

Types ==
    /\ server \in [Ids -> Definition]
    /\ \A i \in Ids : server[i].id = i
    /\ branch \in [Ids -> Branches]
    /\ wanted \in [Ids -> BOOLEAN]
    /\ todo \in Seq(Build)
    /\ chosen \in Seq(Definition)

(***************************************************************************)
(* A copy the script holds is no newer than the server's definition, and   *)
(* one of the same revision agrees with it.                                *)
(***************************************************************************)
IsCopy(s, d) ==
    /\ d.id \notin Excluded
    /\ d.revision <= s[d.id].revision
    /\ d.revision = s[d.id].revision => d.skip = s[d.id].skip

Copies == \A k \in DOMAIN chosen : IsCopy(server, chosen[k])

Passes ==
    /\ pc = "collect" => byScript = {}
    /\ unread => pc = "idle" /\ byScript = {}

IInv == Types /\ Copies /\ Passes /\ EditsSurvive /\ ExcludedIsUntouched

---------------------------------------------------------------------------
(* Sequences *)

(***************************************************************************)
(* The scheduled pipelines are finitely many, so their orders are          *)
(* sequences of builds.                                                    *)
(***************************************************************************)
LEMMA OrdersAreSequences ==
    ASSUME branch \in [Ids -> Branches]
    PROVE  SetToSeqs(Scheduled) \subseteq Seq(Build)
<1>1. IsFiniteSet({"main"}) /\ IsFiniteSet({"other"}) /\ IsFiniteSet({"none"})
  BY FS_Singleton
<1>2. IsFiniteSet({"main"} \cup {"other"} \cup {"none"})
  BY <1>1, FS_Union
<1>3. Branches = {"main"} \cup {"other"} \cup {"none"}
  BY DEF Branches
<1>4. IsFiniteSet(Ids \X Branches)
  BY <1>2, <1>3, FS_Product, PipelinesAssumption
<1>5. Scheduled \subseteq Ids \X Branches
  BY DEF Scheduled
<1>6. Cardinality(Scheduled) \in Nat
  BY <1>4, <1>5, FS_Subset, FS_CardinalityType
<1>7. [1 .. Cardinality(Scheduled) -> Scheduled] \subseteq Seq(Build)
  BY <1>5, <1>6 DEF Build
<1> QED
  BY <1>7 DEF SetToSeqs

(***************************************************************************)
(* What remains of a sequence of copies after its head is a sequence of    *)
(* copies.                                                                 *)
(***************************************************************************)
LEMMA TailElements ==
    ASSUME NEW S, NEW s \in Seq(S), s # <<>>
    PROVE  /\ Head(s) \in S /\ Head(s) = s[1] /\ 1 \in DOMAIN s
           /\ Tail(s) \in Seq(S)
           /\ \A k \in DOMAIN Tail(s) : k + 1 \in DOMAIN s /\ Tail(s)[k] = s[k + 1]
  OBVIOUS

---------------------------------------------------------------------------
(* Steps *)

LEMMA InitInv == Init => IInv
<1> SUFFICES ASSUME Init PROVE IInv
  OBVIOUS
<1>1. PICK skips \in [Ids -> BOOLEAN] :
        /\ server = [i \in Ids |-> [id |-> i, queue |-> "enabled",
                                    skip |-> skips[i], revision |-> 0]]
        /\ wanted = skips
  BY DEF Init
<1>2. Types
  BY <1>1 DEF Init, Types, Definition, Build
<1>3. EditsSurvive
  BY <1>1 DEF EditsSurvive
<1> QED
  BY <1>2, <1>3 DEF Init, IInv, Copies, Passes, ExcludedIsUntouched

LEMMA BeginInv == IInv /\ Begin => IInv'
<1> SUFFICES ASSUME IInv, Begin PROVE IInv'
  OBVIOUS
<1>0. SetToSeqs(Scheduled) \subseteq Seq(Build)
  <2>1. branch \in [Ids -> Branches]
    BY DEF IInv, Types
  <2> QED
    BY <2>1, OrdersAreSequences
<1>1. todo' \in Seq(Build)
  <2>1. todo' \in SetToSeqs(Scheduled) \/ todo' = <<>>
    BY DEF Begin, Exit
  <2>2. <<>> \in Seq(Build)
    OBVIOUS
  <2> QED
    BY <1>0, <2>1, <2>2
<1>2. Types'
  BY <1>1 DEF IInv, Types, Begin
<1> QED
  BY <1>2 DEF IInv, Begin, Copies, Passes, EditsSurvive, ExcludedIsUntouched

LEMMA CollectInv == IInv /\ Collect => IInv'
<1> SUFFICES ASSUME IInv, Collect PROVE IInv'
  OBVIOUS
<1> DEFINE i == Head(todo)[1]
<1>1. i \in Ids /\ todo' \in Seq(Build)
  BY TailElements DEF IInv, Types, Collect, Build
<1>2. server[i] \in Definition /\ server[i].id = i
  BY <1>1 DEF IInv, Types
<1>3. chosen' = chosen \/ (chosen' = Append(chosen, server[i]) /\ i \notin Excluded)
  BY <1>2 DEF Collect, ShouldDisable
<1>4. Types'
  BY <1>1, <1>2, <1>3 DEF IInv, Types, Collect
<1>5. i \notin Excluded => IsCopy(server', server[i])
  BY <1>2 DEF IsCopy, Collect, Definition
<1>6. \A k \in DOMAIN chosen : IsCopy(server', chosen[k])
  BY DEF IInv, Copies, IsCopy, Collect
<1>7. Copies'
  <2>1. CASE chosen' = chosen
    BY <1>6, <2>1 DEF Copies
  <2>2. CASE chosen' = Append(chosen, server[i]) /\ i \notin Excluded
    <3>1. \A k \in DOMAIN chosen' : chosen'[k] = server[i] \/ (k \in DOMAIN chosen /\ chosen'[k] = chosen[k])
      BY <1>2, <2>2 DEF IInv, Types
    <3> QED
      BY <1>5, <1>6, <2>2, <3>1 DEF Copies
  <2> QED
    BY <1>3, <2>1, <2>2
<1> QED
  BY <1>4, <1>7 DEF IInv, Collect, Passes, EditsSurvive, ExcludedIsUntouched

(***************************************************************************)
(* A put of a copy that the server takes changes the queue alone, and      *)
(* makes every other copy of that definition old.                          *)
(***************************************************************************)
LEMMA PutInv ==
    ASSUME IInv, NEW d \in Definition, IsCopy(server, d), Put(d), UNCHANGED wanted
    PROVE  /\ server' \in [Ids -> Definition]
           /\ \A i \in Ids : server'[i].id = i
           /\ EditsSurvive'
           /\ \A e \in Definition : IsCopy(server, e) => IsCopy(server', e)
<1> DEFINE n == [d EXCEPT !.queue = "disabled", !.revision = @ + 1]
<1>1. /\ server \in [Ids -> Definition] /\ \A i \in Ids : server[i].id = i
  BY DEF IInv, Types
<1>2. /\ n \in Definition /\ n.id = d.id /\ n.skip = d.skip /\ n.revision = d.revision + 1
      /\ d.id \in Ids /\ d.revision \in Nat
  <2>1. d.id \in Ids /\ d.revision \in Nat
    BY DEF Definition
  <2>2. n.id = d.id /\ n.skip = d.skip
    BY DEF Definition
  <2>3. n.revision = d.revision + 1
    BY DEF Definition
  <2>4. n \in Definition
    <3> DEFINE q == [d EXCEPT !.queue = "disabled"]
    <3>1. q \in Definition /\ q.revision = d.revision
      BY DEF Definition
    <3>2. ASSUME NEW x \in Definition, NEW r \in Nat
          PROVE  [x EXCEPT !.revision = r] \in Definition
      BY DEF Definition
    <3>3. n = [q EXCEPT !.revision = d.revision + 1]
      BY DEF Definition
    <3>4. d.revision + 1 \in Nat
      BY <2>1
    <3> HIDE DEF q, n
    <3>5. [q EXCEPT !.revision = d.revision + 1] \in Definition
      BY <3>1, <3>2, <3>4
    <3> QED
      BY <3>3, <3>5
  <2> QED
    BY <2>1, <2>2, <2>3, <2>4
<1>3. server' = [server EXCEPT ![d.id] = n] /\ server[d.id].revision = d.revision
  BY DEF Put
<1>4. server[d.id].skip = d.skip
  BY <1>3 DEF IsCopy
<1> HIDE DEF n
<1>5. server' \in [Ids -> Definition] /\ \A i \in Ids : server'[i].id = i
  BY <1>1, <1>2, <1>3
<1>6. EditsSurvive'
  BY <1>1, <1>2, <1>3, <1>4 DEF EditsSurvive, IInv
<1>7. ASSUME NEW e \in Definition, IsCopy(server, e) PROVE IsCopy(server', e)
  <2>1. e.id \in Ids /\ e.revision \in Nat
    BY DEF Definition
  <2>2. CASE e.id = d.id
    BY <1>1, <1>2, <1>3, <1>7, <2>1, <2>2 DEF IsCopy
  <2>3. CASE e.id # d.id
    BY <1>1, <1>3, <1>7, <2>1, <2>3 DEF IsCopy
  <2> QED
    BY <2>2, <2>3
<1> QED
  BY <1>5, <1>6, <1>7

LEMMA DisableInv == IInv /\ Disable => IInv'
<1> SUFFICES ASSUME IInv, Disable PROVE IInv'
  OBVIOUS
<1> DEFINE d == Head(chosen)
<1>1. /\ d \in Definition /\ chosen' \in Seq(Definition) /\ d = chosen[1] /\ 1 \in DOMAIN chosen
      /\ \A k \in DOMAIN chosen' : k + 1 \in DOMAIN chosen /\ chosen'[k] = chosen[k + 1]
  BY TailElements DEF IInv, Types, Disable
<1>2. IsCopy(server, d)
  BY <1>1 DEF IInv, Copies
<1> HIDE DEF d
<1>3. Put(d) /\ UNCHANGED wanted
  BY DEF Disable, d
<1>4. /\ server' \in [Ids -> Definition] /\ \A i \in Ids : server'[i].id = i
      /\ EditsSurvive'
      /\ \A e \in Definition : IsCopy(server, e) => IsCopy(server', e)
  BY <1>1, <1>2, <1>3, PutInv
<1>5. Types'
  BY <1>1, <1>4 DEF IInv, Types, Disable
<1>6. \A k \in DOMAIN chosen : chosen[k] \in Definition /\ IsCopy(server, chosen[k])
  BY DEF IInv, Types, Copies
<1>7. \A k \in DOMAIN chosen' : IsCopy(server', chosen[k + 1])
  BY <1>1, <1>4, <1>6
<1>8. Copies'
  BY <1>1, <1>7 DEF Copies, IsCopy
<1>9. ExcludedIsUntouched'
  <2>1. byScript' = byScript \cup {d.id}
    BY DEF Disable, d
  <2> QED
    BY <1>2, <2>1 DEF IInv, IsCopy, ExcludedIsUntouched
<1>10. Passes'
  BY DEF IInv, Passes, Disable
<1> QED
  BY <1>4, <1>5, <1>8, <1>9, <1>10 DEF IInv

LEMMA DisableFailsInv == IInv /\ DisableFails => IInv'
<1> SUFFICES ASSUME IInv, DisableFails PROVE IInv'
  OBVIOUS
<1> DEFINE d == Head(chosen)
<1>1. d \in Definition /\ d = chosen[1] /\ 1 \in DOMAIN chosen
  BY TailElements DEF IInv, Types, DisableFails
<1>2. IsCopy(server, d)
  BY <1>1 DEF IInv, Copies
<1>3. todo' = <<>> /\ chosen' = <<>> /\ pc' = "idle" /\ UNCHANGED <<branch, wanted, unread>>
  BY DEF DisableFails, Exit
<1>4. Copies' /\ Passes'
  BY <1>3 DEF IInv, Copies, Passes, DisableFails
<1>5. CASE UNCHANGED <<server, byScript>>
  BY <1>3, <1>4, <1>5 DEF IInv, Types, EditsSurvive, ExcludedIsUntouched
<1>6. CASE Put(d) /\ byScript' = byScript \cup {d.id}
  <2>1. server' \in [Ids -> Definition] /\ (\A i \in Ids : server'[i].id = i) /\ EditsSurvive'
    BY <1>1, <1>2, <1>3, <1>6, PutInv
  <2>2. ExcludedIsUntouched'
    BY <1>2, <1>6 DEF IInv, IsCopy, ExcludedIsUntouched
  <2> QED
    BY <1>3, <1>4, <2>1, <2>2 DEF IInv, Types
<1> QED
  BY <1>5, <1>6 DEF DisableFails

LEMMA EditInv == ASSUME NEW i \in Ids PROVE IInv /\ Edit(i) => IInv'
<1> SUFFICES ASSUME IInv, Edit(i) PROVE IInv'
  OBVIOUS
<1>1. PICK skip \in BOOLEAN, queue \in {"enabled", "disabled"} :
        /\ server' = [server EXCEPT ![i].skip = skip, ![i].queue = queue,
                                    ![i].revision = @ + 1]
        /\ wanted' = [wanted EXCEPT ![i] = skip]
  BY DEF Edit
<1>2. server \in [Ids -> Definition] /\ wanted \in [Ids -> BOOLEAN]
  BY DEF IInv, Types
<1>3. /\ server' \in [Ids -> Definition]
      /\ server'[i].id = server[i].id /\ server'[i].skip = skip
      /\ server'[i].revision = server[i].revision + 1
      /\ \A j \in Ids \ {i} : server'[j] = server[j]
  BY <1>1, <1>2 DEF Definition
<1>4. Types'
  BY <1>1, <1>3 DEF IInv, Types, Edit, script
<1>5. EditsSurvive'
  BY <1>1, <1>2, <1>3 DEF IInv, EditsSurvive
<1>6. ASSUME NEW e \in Definition, IsCopy(server, e) PROVE IsCopy(server', e)
  <2>1. e.id \in Ids /\ e.revision \in Nat /\ server[i].revision \in Nat
    BY <1>2 DEF Definition
  <2> QED
    BY <1>3, <1>6, <2>1 DEF IsCopy
<1>7. Copies'
  <2>1. chosen' = chosen
    BY DEF Edit, script
  <2>2. \A k \in DOMAIN chosen : chosen[k] \in Definition /\ IsCopy(server, chosen[k])
    BY DEF IInv, Types, Copies
  <2> QED
    BY <1>6, <2>1, <2>2 DEF Copies
<1> QED
  BY <1>4, <1>5, <1>7 DEF IInv, Passes, ExcludedIsUntouched, Edit, script

LEMMA NextInv == IInv /\ [Next]_vars => IInv'
<1> SUFFICES ASSUME IInv, [Next]_vars PROVE IInv'
  OBVIOUS
<1>1. CASE Begin
  BY <1>1, BeginInv
<1>2. CASE Collect
  BY <1>2, CollectInv
<1>3. CASE CollectFails
  BY <1>3 DEF IInv, CollectFails, Exit, Types, Copies, Passes, EditsSurvive, ExcludedIsUntouched
<1>4. CASE CollectEnds
  BY <1>4 DEF IInv, CollectEnds, Types, Copies, IsCopy, Passes, EditsSurvive, ExcludedIsUntouched
<1>5. CASE Disable
  BY <1>5, DisableInv
<1>6. CASE DisableFails
  BY <1>6, DisableFailsInv
<1>7. CASE DisableEnds
  BY <1>7 DEF IInv, DisableEnds, Exit, Types, Copies, Passes, EditsSurvive, ExcludedIsUntouched
<1>8. ASSUME NEW i \in Ids, Edit(i) PROVE IInv'
  BY <1>8, EditInv
<1>9. ASSUME NEW i \in Ids, ScheduledBuild(i) PROVE IInv'
  <2>1. branch' \in [Ids -> Branches]
    BY <1>9 DEF IInv, Types, ScheduledBuild, Branches
  <2> QED
    BY <1>9, <2>1 DEF IInv, ScheduledBuild, script, Types, Copies, IsCopy, Passes,
                      EditsSurvive, ExcludedIsUntouched
<1>10. CASE UNCHANGED vars
  BY <1>10 DEF IInv, vars, Types, Copies, IsCopy, Passes, EditsSurvive, ExcludedIsUntouched
<1> QED
  BY <1>1, <1>2, <1>3, <1>4, <1>5, <1>6, <1>7, <1>8, <1>9, <1>10 DEF Next

---------------------------------------------------------------------------
(* Theorems *)

LEMMA Invariance == Spec => []IInv
  BY InitInv, NextInv, PTL DEF Spec

(***************************************************************************)
(* disable_pipeline never reverts what an owner set after the definition   *)
(* was read.                                                               *)
(***************************************************************************)
THEOREM EditsAreSafe == Spec => []EditsSurvive
<1>1. IInv => EditsSurvive
  BY DEF IInv
<1> QED
  BY Invariance, <1>1, PTL

(***************************************************************************)
(* should_disable_pipeline keeps every excluded pipeline out of both       *)
(* passes.                                                                 *)
(***************************************************************************)
THEOREM ExclusionHolds == Spec => []ExcludedIsUntouched
<1>1. IInv => ExcludedIsUntouched
  BY DEF IInv
<1> QED
  BY Invariance, <1>1, PTL

(***************************************************************************)
(* A definition that cannot be read keeps the run from disabling any.      *)
(***************************************************************************)
THEOREM FirstPassComesFirst == Spec => []UnreadMeansUntouched
<1>1. IInv => UnreadMeansUntouched
  BY DEF IInv, Passes, UnreadMeansUntouched
<1> QED
  BY Invariance, <1>1, PTL

---------------------------------------------------------------------------
(* A run that exits with 0 is complete *)

(***************************************************************************)
(* What is asked of the pipeline of a scheduled build.                     *)
(***************************************************************************)
Due(b) == b[1] \notin Excluded /\ (server[b[1]].skip \/ b[2] = "other")

Pending(b)  == \E k \in DOMAIN todo : todo[k] = b
IsChosen(i) == \E k \in DOMAIN chosen : chosen[k].id = i

(***************************************************************************)
(* The builds a run was told: one for every pipeline.                      *)
(***************************************************************************)
ListSound ==
    /\ listed \subseteq Builds
    /\ \A b, c \in listed : b[1] = c[1] => b = c
    /\ pc = "collect" => \A k \in DOMAIN todo : todo[k] \in listed

(***************************************************************************)
(* Every due pipeline is yet to be looked at, chosen, or disabled.         *)
(***************************************************************************)
CompleteSoFar ==
    (quiet /\ pc # "idle") =>
        \A b \in listed : \/ pc = "collect" /\ Pending(b)
                          \/ Due(b) => server[b[1]].queue = "disabled" \/ IsChosen(b[1])

(***************************************************************************)
(* What was chosen or disabled is due.                                     *)
(***************************************************************************)
HasReason(i) == \E b \in listed : b[1] = i /\ Due(b)

Justified ==
    quiet => /\ \A k \in DOMAIN chosen : /\ chosen[k].skip = server[chosen[k].id].skip
                                         /\ HasReason(chosen[k].id)
             /\ \A i \in byScript : HasReason(i)

RunInv == ListSound /\ CompleteSoFar /\ Justified

(***************************************************************************)
(* The order of the builds holds every one of them.                        *)
(***************************************************************************)
LEMMA OrdersAreComplete ==
    ASSUME branch \in [Ids -> Branches], NEW f \in SetToSeqs(Scheduled)
    PROVE  /\ \A b \in Scheduled : \E k \in DOMAIN f : f[k] = b
           /\ \A k \in DOMAIN f : f[k] \in Scheduled
<1> DEFINE D == 1 .. Cardinality(Scheduled)
<1>1. IsFiniteSet(Scheduled)
  <2>1. IsFiniteSet({"main"}) /\ IsFiniteSet({"other"}) /\ IsFiniteSet({"none"})
    BY FS_Singleton
  <2>2. IsFiniteSet({"main"} \cup {"other"} \cup {"none"})
    BY <2>1, FS_Union
  <2>3. Branches = {"main"} \cup {"other"} \cup {"none"}
    BY DEF Branches
  <2>4. IsFiniteSet(Ids \X Branches)
    BY <2>2, <2>3, FS_Product, PipelinesAssumption
  <2>5. Scheduled \subseteq Ids \X Branches
    BY DEF Scheduled
  <2> QED
    BY <2>4, <2>5, FS_Subset
<1>2. Cardinality(Scheduled) \in Nat
  BY <1>1, FS_CardinalityType
<1>3. f \in [D -> Scheduled] /\ \A i, j \in D : i # j => f[i] # f[j]
  BY DEF SetToSeqs
<1>4. Cardinality(D) = Cardinality(Scheduled)
  <2>1. Cardinality(1 .. Cardinality(Scheduled)) =
          IF 1 > Cardinality(Scheduled) THEN 0 ELSE Cardinality(Scheduled) - 1 + 1
    BY <1>2, FS_Interval
  <2> QED
    BY <1>2, <2>1
<1> HIDE DEF D
<1>5. f \in Injection(D, Scheduled)
  BY <1>3 DEF Injection, IsInjective
<1>6. f \in Surjection(D, Scheduled)
  BY <1>1, <1>4, <1>5, FS_Injection
<1> QED
  BY <1>3, <1>6 DEF Surjection

(***************************************************************************)
(* A run begins.                                                           *)
(***************************************************************************)
LEMMA BeginRun ==
    ASSUME IInv, RunInv, Begin
    PROVE  RunInv'
<1>1. /\ chosen' = <<>> /\ byScript' = {} /\ UNCHANGED <<server, branch>>
      /\ branch \in [Ids -> Branches]
  BY DEF Begin, IInv, Types
<1>2. Justified'
  BY <1>1 DEF Justified
<1>3. CASE pc' = "idle" /\ listed' = {}
  BY <1>2, <1>3 DEF RunInv, ListSound, CompleteSoFar
<1>4. CASE pc' = "collect" /\ todo' \in SetToSeqs(Scheduled) /\ listed' = Scheduled
  <2>1. /\ \A b \in listed' : Pending(b)'
        /\ \A k \in DOMAIN todo' : todo'[k] \in listed'
    BY <1>1, <1>4, OrdersAreComplete DEF Pending
  <2>2. /\ Scheduled \subseteq Builds /\ \A b, c \in Scheduled : b[1] = c[1] => b = c
    BY <1>1 DEF Scheduled, Builds, Branches
  <2>3. ListSound'
    BY <1>4, <2>1, <2>2 DEF ListSound, Builds
  <2>4. CompleteSoFar'
    BY <1>4, <2>1 DEF CompleteSoFar
  <2> QED
    BY <1>2, <2>3, <2>4 DEF RunInv
<1> QED
  BY <1>3, <1>4 DEF Begin, Exit

(***************************************************************************)
(* A definition is read; it is chosen if it is due and not yet disabled.   *)
(***************************************************************************)
LEMMA CollectRun ==
    ASSUME IInv, RunInv, Collect
    PROVE  RunInv'
<1> PICK b : b = Head(todo)
  OBVIOUS
<1> PICK d : d = server[b[1]]
  OBVIOUS
<1>0. /\ pc = "collect" /\ pc' = "collect" /\ todo # <<>> /\ todo' = Tail(todo)
      /\ UNCHANGED <<server, quiet, byScript, listed>>
      /\ todo \in Seq(Build) /\ chosen \in Seq(Definition)
  BY DEF Collect, IInv, Types
<1>1. /\ b = todo[1] /\ 1 \in DOMAIN todo
      /\ \A k \in DOMAIN todo' : k + 1 \in DOMAIN todo /\ todo'[k] = todo[k + 1]
      /\ \A k \in DOMAIN todo : k # 1 => k - 1 \in DOMAIN todo' /\ todo'[k - 1] = todo[k]
  BY <1>0
<1>2. b \in listed /\ b[1] \in Ids /\ b[2] \in {"main", "other"}
  BY <1>0, <1>1 DEF RunInv, ListSound, Builds
<1>3. d \in Definition /\ d.id = b[1]
  BY <1>2 DEF IInv, Types
<1>4. ShouldDisable(d, b[2]) <=> Due(b)
  BY <1>2, <1>3 DEF ShouldDisable, Due
<1>5. \/ chosen' = Append(chosen, d) /\ Due(b)
      \/ chosen' = chosen /\ (Due(b) => d.queue = "disabled")
  BY <1>4 DEF Collect
<1>6. /\ chosen' = Append(chosen, d) =>
           /\ IsChosen(b[1])'
           /\ \A k \in DOMAIN chosen' : chosen'[k] = d \/ (k \in DOMAIN chosen /\ chosen'[k] = chosen[k])
      /\ \A i : IsChosen(i) => IsChosen(i)'
  <2>1. CASE chosen' = Append(chosen, d)
    <3>1. /\ Len(chosen) + 1 \in DOMAIN chosen' /\ chosen'[Len(chosen) + 1] = d
          /\ \A k \in DOMAIN chosen : k \in DOMAIN chosen' /\ chosen'[k] = chosen[k]
          /\ \A k \in DOMAIN chosen' : chosen'[k] = d \/ (k \in DOMAIN chosen /\ chosen'[k] = chosen[k])
      BY <1>0, <1>3, <2>1
    <3> QED
      BY <1>3, <3>1 DEF IsChosen
  <2>2. CASE chosen' = chosen
    BY <1>5, <2>2 DEF IsChosen
  <2> QED
    BY <1>5, <2>1, <2>2
<1>7. ListSound'
  BY <1>0, <1>1 DEF RunInv, ListSound
<1>8. \A c : (Due(c)' <=> Due(c)) /\ (Pending(c) => c = b \/ Pending(c)')
  <2>1. \A c : Due(c)' <=> Due(c)
    BY <1>0 DEF Due
  <2>2. ASSUME NEW c, Pending(c), c # b PROVE Pending(c)'
    <3>1. PICK k \in DOMAIN todo : todo[k] = c
      BY <2>2 DEF Pending
    <3>2. k # 1
      BY <1>1, <2>2, <3>1
    <3>3. k - 1 \in DOMAIN todo' /\ todo'[k - 1] = c
      BY <1>1, <3>1, <3>2
    <3> QED
      BY <3>3 DEF Pending
  <2> QED
    BY <2>1, <2>2
<1>9. CompleteSoFar'
  <2> SUFFICES ASSUME quiet, NEW c \in listed
               PROVE  \/ Pending(c)'
                      \/ Due(c) => server[c[1]].queue = "disabled" \/ IsChosen(c[1])'
    BY <1>0, <1>8 DEF CompleteSoFar
  <2>1. CASE c = b
    BY <1>5, <1>6, <2>1
  <2>2. CASE c # b
    BY <1>0, <1>6, <1>8, <2>2 DEF RunInv, CompleteSoFar
  <2> QED
    BY <2>1, <2>2
<1>10. Justified'
  <2> SUFFICES ASSUME quiet PROVE /\ \A k \in DOMAIN chosen' :
                                        /\ chosen'[k].skip = server[chosen'[k].id].skip
                                        /\ HasReason(chosen[k].id)'
                                  /\ \A i \in byScript : HasReason(i)'
    BY <1>0 DEF Justified
  <2>1. \A i : HasReason(i)' <=> HasReason(i)
    BY <1>0, <1>8 DEF HasReason
  <2>2. Due(b) => d.skip = server[d.id].skip /\ HasReason(d.id)
    BY <1>2, <1>3 DEF HasReason
  <2>3. /\ \A k \in DOMAIN chosen : /\ chosen[k].skip = server[chosen[k].id].skip
                                    /\ HasReason(chosen[k].id)
        /\ \A i \in byScript : HasReason(i)
    BY DEF RunInv, Justified
  <2> QED
    BY <1>5, <1>6, <2>1, <2>2, <2>3
<1> QED
  BY <1>7, <1>9, <1>10 DEF RunInv

(***************************************************************************)
(* A definition is put back: it is disabled, as due as it was before, and  *)
(* nothing else changes.                                                   *)
(***************************************************************************)
LEMMA PutRun ==
    ASSUME IInv, NEW d \in Definition, Put(d), d.skip = server[d.id].skip
    PROVE  \A i \in Ids :
             /\ server'[i].skip = server[i].skip
             /\ server'[i].queue = IF i = d.id THEN "disabled" ELSE server[i].queue
<1> DEFINE n == [d EXCEPT !.queue = "disabled", !.revision = @ + 1]
<1>1. n.skip = d.skip /\ n.queue = "disabled" /\ d.id \in Ids
  BY DEF Definition
<1>2. server' = [server EXCEPT ![d.id] = n]
  BY DEF Put
<1>3. server \in [Ids -> Definition]
  BY DEF IInv, Types
<1> HIDE DEF n
<1> QED
  BY <1>1, <1>2, <1>3

(***************************************************************************)
(* A run disables what it has chosen, one after the other.                 *)
(***************************************************************************)
LEMMA DisableRun ==
    ASSUME IInv, RunInv, Disable
    PROVE  RunInv'
<1> DEFINE d == Head(chosen)
<1>0. /\ pc = "disable" /\ pc' = "disable" /\ Put(d) /\ chosen' = Tail(chosen)
      /\ byScript' = byScript \cup {d.id} /\ UNCHANGED <<quiet, listed>>
      /\ chosen \in Seq(Definition) /\ chosen # <<>>
  BY DEF Disable, IInv, Types
<1>1. /\ d \in Definition /\ d = chosen[1] /\ 1 \in DOMAIN chosen
      /\ \A k \in DOMAIN chosen' : k + 1 \in DOMAIN chosen /\ chosen'[k] = chosen[k + 1]
      /\ \A k \in DOMAIN chosen : k # 1 => k - 1 \in DOMAIN chosen' /\ chosen'[k - 1] = chosen[k]
  BY <1>0
<1> HIDE DEF d
<1>2. ListSound'
  BY <1>0 DEF RunInv, ListSound
<1>3. CASE ~quiet
  BY <1>0, <1>2, <1>3 DEF RunInv, CompleteSoFar, Justified
<1>4. CASE quiet
  <2>1. /\ \A k \in DOMAIN chosen : /\ chosen[k].skip = server[chosen[k].id].skip
                                    /\ HasReason(chosen[k].id)
        /\ \A i \in byScript : HasReason(i)
    BY <1>4 DEF RunInv, Justified
  <2>2. \A i \in Ids : /\ server'[i].skip = server[i].skip
                       /\ server'[i].queue = IF i = d.id THEN "disabled" ELSE server[i].queue
    BY <1>0, <1>1, <2>1, PutRun
  <2>3. \A b \in listed : b[1] \in Ids /\ (Due(b)' <=> Due(b))
    BY <2>2 DEF RunInv, ListSound, Builds, Due
  <2>4. \A i : HasReason(i) => HasReason(i)'
    BY <1>0, <2>3 DEF HasReason
  <2>5. \A i : IsChosen(i) => i = d.id \/ IsChosen(i)'
    BY <1>1 DEF IsChosen
  <2>6. CompleteSoFar'
    <3> SUFFICES ASSUME NEW b \in listed, Due(b)
                 PROVE  server'[b[1]].queue = "disabled" \/ IsChosen(b[1])'
      BY <1>0, <2>3 DEF CompleteSoFar
    <3>1. server[b[1]].queue = "disabled" \/ IsChosen(b[1])
      BY <1>0, <1>4 DEF RunInv, CompleteSoFar
    <3> QED
      BY <2>2, <2>3, <2>5, <3>1
  <2>7. Justified'
    <3>1. \A k \in DOMAIN chosen' : /\ chosen'[k].skip = server'[chosen'[k].id].skip
                                    /\ HasReason(chosen[k].id)'
      <4>1. \A k \in DOMAIN chosen : chosen[k] \in Definition
        BY <1>0
      <4>2. \A k \in DOMAIN chosen : chosen[k].id \in Ids
        BY <4>1 DEF Definition
      <4>3. \A k \in DOMAIN chosen : /\ chosen[k].skip = server'[chosen[k].id].skip
                                     /\ (HasReason(chosen[k].id) => \E c : c = chosen[k].id /\ HasReason(c)')
        BY <2>1, <2>2, <2>4, <4>2
      <4> SUFFICES ASSUME NEW k \in DOMAIN chosen'
                   PROVE  /\ chosen'[k].skip = server'[chosen'[k].id].skip
                          /\ HasReason(chosen[k].id)'
        OBVIOUS
      <4>4. k + 1 \in DOMAIN chosen /\ chosen'[k] = chosen[k + 1]
        BY <1>1
      <4> QED
        BY <2>1, <4>3, <4>4
    <3>2. \A i \in byScript' : HasReason(i)'
      BY <1>0, <1>1, <2>1, <2>4
    <3> QED
      BY <3>1, <3>2 DEF Justified
  <2> QED
    BY <1>2, <2>6, <2>7 DEF RunInv
<1> QED
  BY <1>3, <1>4

(***************************************************************************)
(* A run ends, whether or not its last put was done.                       *)
(***************************************************************************)
LEMMA EndRun ==
    ASSUME IInv, RunInv, CollectFails \/ DisableFails \/ DisableEnds
    PROVE  RunInv'
<1>0. /\ pc' = "idle" /\ chosen' = <<>> /\ UNCHANGED <<quiet, listed>>
  BY DEF CollectFails, DisableFails, DisableEnds, Exit
<1>1. ListSound' /\ CompleteSoFar'
  BY <1>0 DEF RunInv, ListSound, CompleteSoFar
<1>2. CASE UNCHANGED <<server, byScript>>
  BY <1>0, <1>1, <1>2 DEF RunInv, Justified, HasReason, Due
<1>3. CASE ~quiet
  BY <1>0, <1>1, <1>3 DEF RunInv, Justified
<1>4. CASE /\ quiet /\ chosen # <<>>
           /\ Put(Head(chosen)) /\ byScript' = byScript \cup {Head(chosen).id}
  <2> DEFINE d == Head(chosen)
  <2>1. d \in Definition /\ d = chosen[1] /\ 1 \in DOMAIN chosen
    BY <1>4, TailElements DEF IInv, Types
  <2>2. d.skip = server[d.id].skip /\ HasReason(d.id) /\ \A i \in byScript : HasReason(i)
    BY <1>4, <2>1 DEF RunInv, Justified
  <2> HIDE DEF d
  <2>3. \A i \in Ids : server'[i].skip = server[i].skip
    <3>1. Put(d)
      BY <1>4 DEF d
    <3> QED
      BY <2>1, <2>2, <3>1, PutRun
  <2>4. \A b \in listed : Due(b)' <=> Due(b)
    BY <2>3 DEF RunInv, ListSound, Builds, Due
  <2>5. \A i : HasReason(i) => HasReason(i)'
    BY <1>0, <2>4 DEF HasReason
  <2>6. Justified'
    BY <1>0, <1>4, <2>2, <2>5 DEF Justified, d
  <2> QED
    BY <1>1, <2>6 DEF RunInv
<1> QED
  BY <1>2, <1>3, <1>4 DEF CollectFails, DisableFails, DisableEnds

(***************************************************************************)
(* Every step keeps what is said about the run.                            *)
(***************************************************************************)
LEMMA NextRun == IInv /\ RunInv /\ [Next]_vars => RunInv'
<1> SUFFICES ASSUME IInv, RunInv, [Next]_vars PROVE RunInv'
  OBVIOUS
<1>1. CASE CollectEnds
  <2>1. /\ pc = "collect" /\ pc' = "disable" /\ todo = <<>>
        /\ UNCHANGED <<server, quiet, chosen, byScript, listed>>
    BY <1>1 DEF CollectEnds
  <2>2. \A b : ~Pending(b)
    BY <2>1 DEF Pending
  <2> QED
    BY <2>1, <2>2 DEF RunInv, ListSound, CompleteSoFar, Justified, Due, IsChosen, HasReason
<1>2. ASSUME NEW i \in Ids, Edit(i) PROVE RunInv'
  <2>1. ~quiet' /\ UNCHANGED <<pc, todo, listed>>
    <3>1. ~quiet'
      BY <1>2, Zenon DEF Edit
    <3> QED
      BY <1>2, <3>1 DEF Edit, script
  <2> QED
    BY <2>1 DEF RunInv, ListSound, CompleteSoFar, Justified
<1>3. ASSUME UNCHANGED <<server, quiet, script>> PROVE RunInv'
  BY <1>3 DEF script, RunInv, ListSound, CompleteSoFar, Justified, Due, Pending, IsChosen,
              HasReason
<1>4. ASSUME NEW i \in Ids, ScheduledBuild(i) PROVE RunInv'
  BY <1>3, <1>4 DEF ScheduledBuild
<1>5. CASE UNCHANGED vars
  BY <1>3, <1>5 DEF vars, script
<1> QED
  BY <1>1, <1>2, <1>4, <1>5, BeginRun, CollectRun, DisableRun, EndRun DEF Next

(***************************************************************************)
(* A run that exits with 0 while nobody edited has disabled every pipeline *)
(* it should and no other, for any set of pipelines and any order of them. *)
(***************************************************************************)
THEOREM ExitZeroRunsAreComplete == Spec => ExitZeroIsComplete
<1>1. Init => RunInv
  <2> SUFFICES ASSUME Init PROVE RunInv
    OBVIOUS
  <2>1. pc = "idle" /\ chosen = <<>> /\ byScript = {} /\ listed = {}
    BY DEF Init
  <2> QED
    BY <2>1 DEF RunInv, ListSound, CompleteSoFar, Justified
<1>2. ASSUME IInv, RunInv, [Next]_vars
      PROVE  [(pc = "disable" /\ exit' = 0 /\ pc' = "idle" /\ quiet) =>
                \A b \in listed :
                   LET d == server[b[1]]
                   IN /\ (b[1] \notin Excluded /\ (d.skip \/ b[2] = "other")) => d.queue = "disabled"
                      /\ b[1] \in byScript => b[1] \notin Excluded /\ (d.skip \/ b[2] = "other")]_vars
  <2> SUFFICES ASSUME pc = "disable", exit' = 0, pc' = "idle", quiet, NEW b \in listed, Next
               PROVE  /\ Due(b) => server[b[1]].queue = "disabled"
                      /\ b[1] \in byScript => Due(b)
    BY <1>2 DEF Due
  <2>1. DisableEnds
    BY DEF Next, Begin, Collect, CollectFails, CollectEnds, Disable, DisableFails, Edit,
           ScheduledBuild, script, Exit
  <2>2. \A i : ~IsChosen(i)
    BY <2>1 DEF DisableEnds, IsChosen
  <2>3. Due(b) => server[b[1]].queue = "disabled"
    BY <1>2, <2>2 DEF RunInv, CompleteSoFar
  <2>4. b[1] \in byScript => Due(b)
    BY <1>2 DEF RunInv, Justified, HasReason, ListSound
  <2> QED
    BY <2>3, <2>4
<1> QED
  BY <1>1, <1>2, InitInv, NextInv, NextRun, PTL DEF Spec, ExitZeroIsComplete

===========================================================================
