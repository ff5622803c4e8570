--------------------------- MODULE CommandProofs ---------------------------
(***************************************************************************)
(* The parts that the commands of crud/main.py share: the manifests that   *)
(* are applied and deleted, the workloads that are created from them, and  *)
(* the result files that are collected.  Each is a specification with      *)
(* variables of its own.                                                   *)
(***************************************************************************)
EXTENDS Manifests, Workloads, ResultFiles, FunctionTheorems, FiniteSetTheorems, TLAPS

---------------------------------------------------------------------------
(* The inductive invariant *)

Indices  == 1 .. Len(source)
Deleting == call \in {"delete", "delete_strict"}

(***************************************************************************)
(* Where a call is: an outcome belongs to a call that is over.             *)
(***************************************************************************)
CallSound ==
    /\ call = "apply" => at >= 1
    /\ Deleting => at <= Len(source)
    /\ conflict => call = "apply" /\ at <= Len(source)
    /\ outcome # "none" => call = "none"

(***************************************************************************)
(* Skipped and nameless documents have no object.                          *)
(***************************************************************************)
ObjectsAreReal == \A i \in Indices : object[i] # "absent" => Real(source[i])

(***************************************************************************)
(* The objects that an apply has gone through are alive, and none of the   *)
(* source is on its way out: that is what clean is about.                  *)
(***************************************************************************)
AppliedSoFar ==
    (call = "apply" /\ clean) =>
        \A i \in Indices : /\ object[i] # "terminating"
                           /\ (i < at /\ Real(source[i])) => object[i] = "live"

(***************************************************************************)
(* A delete comes from the end: none behind it is alive.                   *)
(***************************************************************************)
DeletedSoFar == Deleting => \A i \in Indices : i > at => object[i] # "live"

Inv ==
    /\ TypeOK /\ CallSound /\ ObjectsAreReal /\ AppliedSoFar /\ DeletedSoFar
    /\ LiveIsPrefix /\ ReturnMeansDone

---------------------------------------------------------------------------
(* The two ways on *)

(***************************************************************************)
(* Types are kept whatever a document does, when only its own object       *)
(* changes.                                                                *)
(***************************************************************************)
LEMMA ObjectType ==
    ASSUME TypeOK, NEW i \in Indices, NEW v \in {"absent", "live", "terminating"},
           object' = [object EXCEPT ![i] = v]
    PROVE  /\ object' \in [Indices -> {"absent", "live", "terminating"}]
           /\ object'[i] = v
           /\ \A j \in Indices : j # i => object'[j] = object[j]
  BY DEF TypeOK, Indices

(***************************************************************************)
(* The lengths and positions are numbers.                                  *)
(***************************************************************************)
LEMMA Numbers ==
    ASSUME TypeOK
    PROVE  Len(source) \in Nat /\ at \in Nat /\ source \in Seq(Documents)
<1>1. source \in Seq(Documents)
  BY ManifestAssumption DEF TypeOK
<1>2. Len(source) \in Nat
  BY <1>1
<1> QED
  BY <1>1, <1>2 DEF TypeOK

(***************************************************************************)
(* A call that raises leaves nothing to be said about its progress.  The   *)
(* object of its document is as it was, or created, or being deleted.      *)
(***************************************************************************)
LEMMA EndInv ==
    ASSUME Inv, call # "none", ObjectsAreReal', LiveIsPrefix',
           object' \in [Indices -> {"absent", "live", "terminating"}],
           NEW why \in {"api", "gone", "no_namespace", "no_name", "not_found"},
           End("error", why)
    PROVE  Inv'
<1>0. UNCHANGED <<source, override, at, clean, calls>>
  BY DEF End
<1>1. TypeOK'
  BY <1>0 DEF Inv, TypeOK, End, Indices
<1>2. CallSound' /\ AppliedSoFar' /\ DeletedSoFar' /\ ReturnMeansDone'
  BY DEF End, CallSound, AppliedSoFar, DeletedSoFar, ReturnMeansDone, Deleting
<1> QED
  BY <1>1, <1>2 DEF Inv

(***************************************************************************)
(* A call that goes on to the next document.                               *)
(***************************************************************************)
LEMMA ContinueInv ==
    ASSUME Inv, call # "none", ObjectsAreReal', LiveIsPrefix', AppliedSoFar', DeletedSoFar',
           object' \in [Indices -> {"absent", "live", "terminating"}],
           NEW i, Continue(i),
           call = "apply" => i \in 1 .. Len(source) + 1,
           Deleting => i \in 0 .. Len(source)
    PROVE  Inv'
<1>0. /\ UNCHANGED <<source, override, call, outcome, cause, clean, calls>>
      /\ at' = i /\ conflict' = FALSE
  BY DEF Continue
<1>1. Len(source) \in Nat /\ (call = "apply" \/ Deleting)
  BY Numbers DEF Inv, TypeOK, Deleting
<1>2. i \in 0 .. Len(source) + 1 /\ (call = "apply" => i >= 1)
      /\ (Deleting => i <= Len(source))
  BY <1>1
<1>3. TypeOK'
  BY <1>0, <1>2 DEF Inv, TypeOK, Indices
<1>4. CallSound'
  BY <1>0, <1>2 DEF Inv, CallSound, Deleting
<1>5. outcome' = "none"
  BY <1>0 DEF Inv, CallSound
<1>6. ReturnMeansDone'
  BY <1>5 DEF ReturnMeansDone
<1> QED
  BY <1>3, <1>4, <1>6 DEF Inv

---------------------------------------------------------------------------
(* One lemma per action *)

(***************************************************************************)
(* A call begins: nothing lies behind it yet, and a clean apply meets no   *)
(* object on its way out.                                                  *)
(***************************************************************************)
LEMMA StartInv ==
    ASSUME Inv, StartApply \/ StartDelete \/ SourceFails
    PROVE  Inv'
<1>0. Len(source) \in Nat /\ at \in Nat
  BY Numbers DEF Inv
<1>1. UNCHANGED <<source, override, object, conflict>> /\ call = "none"
  BY DEF StartApply, StartDelete, SourceFails
<1>2. TypeOK'
  <2>1. calls' \in 0 .. MaxCalls
    BY ManifestAssumption DEF Inv, TypeOK, StartApply, StartDelete, SourceFails
  <2>2. clean' \in BOOLEAN
    <3>1. CASE UNCHANGED clean
      BY <3>1 DEF Inv, TypeOK
    <3>2. CASE StartApply
      BY <3>2 DEF StartApply
    <3> QED
      BY <3>1, <3>2 DEF StartDelete, SourceFails
  <2>3. at' \in 0 .. Len(source) + 1
    BY <1>0 DEF Inv, TypeOK, StartApply, StartDelete, SourceFails
  <2>4. /\ call' \in {"none", "apply", "delete", "delete_strict"}
        /\ outcome' \in {"none", "error"} /\ cause' \in {"none", "source"}
    BY <1>1 DEF StartApply, StartDelete, SourceFails
  <2> QED
    BY <1>1, <2>1, <2>2, <2>3, <2>4 DEF Inv, TypeOK
<1>3. CallSound'
  BY <1>0, <1>1 DEF Inv, CallSound, StartApply, StartDelete, SourceFails, Deleting
<1>4. ObjectsAreReal'
  BY <1>1 DEF Inv, ObjectsAreReal, Indices
<1>5. clean' => clean
  BY DEF StartApply, StartDelete, SourceFails
<1>6. LiveIsPrefix'
  BY <1>1, <1>5 DEF Inv, LiveIsPrefix
<1>7. ReturnMeansDone'
  BY DEF ReturnMeansDone, StartApply, StartDelete, SourceFails
<1>8. AppliedSoFar'
  <2> SUFFICES ASSUME call' = "apply", clean', NEW i \in Indices
               PROVE  object[i] # "terminating" /\ ~(i < at')
    BY <1>1 DEF AppliedSoFar, Indices
  <2>1. StartApply
    BY <1>1 DEF StartDelete, SourceFails
  <2>2. at' = 1 /\ (clean /\ \A j \in 1 .. Len(source) : object[j] # "terminating")
    BY <2>1, Zenon DEF StartApply
  <2> QED
    BY <1>0, <2>2 DEF Indices
<1>9. DeletedSoFar'
  <2> SUFFICES ASSUME Deleting', NEW i \in Indices PROVE ~(i > at')
    BY <1>1 DEF DeletedSoFar, Indices
  <2>1. at' = Len(source)
    BY <1>1 DEF Deleting, StartDelete, StartApply, SourceFails
  <2> QED
    BY <1>0, <2>1 DEF Indices
<1> QED
  BY <1>2, <1>3, <1>4, <1>6, <1>7, <1>8, <1>9 DEF Inv

(***************************************************************************)
(* A document is applied.  Its object is created only behind the ones      *)
(* before it, which are alive if they were not on their way out.           *)
(***************************************************************************)
LEMMA ApplySingleInv ==
    ASSUME Inv, ApplySingle
    PROVE  Inv'
<1>0. /\ TypeOK /\ CallSound /\ ObjectsAreReal /\ AppliedSoFar /\ LiveIsPrefix
      /\ Len(source) \in Nat /\ at \in Nat
  BY Numbers DEF Inv
<1>1. call = "apply" /\ at \in Indices /\ ~conflict
  BY <1>0 DEF ApplySingle, CallSound, Indices
<1>2. object \in [Indices -> {"absent", "live", "terminating"}]
  BY <1>0 DEF TypeOK, Indices
<1>3. ASSUME UNCHANGED <<source, clean, object>>
      PROVE  ObjectsAreReal' /\ LiveIsPrefix'
  BY <1>0, <1>3 DEF ObjectsAreReal, LiveIsPrefix, Indices
<1>4. CASE /\ Real(source[at]) /\ object[at] # "absent" /\ conflict' = TRUE
           /\ UNCHANGED <<source, override, object, call, at, outcome, cause, clean, calls>>
  <2>1. TypeOK'
    <3>1. conflict' \in BOOLEAN
      BY <1>4, Zenon
    <3> QED
      BY <1>0, <1>4, <3>1 DEF TypeOK
  <2>2. CallSound'
    BY <1>0, <1>1, <1>4 DEF CallSound, Deleting, Indices
  <2>3. AppliedSoFar' /\ DeletedSoFar' /\ ReturnMeansDone'
    BY <1>4 DEF Inv, AppliedSoFar, DeletedSoFar, ReturnMeansDone, Deleting, Indices
  <2> QED
    BY <1>3, <1>4, <2>1, <2>2, <2>3 DEF Inv
<1>5. CASE \E why \in {"api", "no_name"} : End("error", why) /\ UNCHANGED object
  <2>1. PICK why \in {"api", "no_name"} : End("error", why) /\ UNCHANGED object
    BY <1>5
  <2>2. UNCHANGED <<source, clean, object>>
    BY <2>1 DEF End
  <2> QED
    BY <1>1, <1>2, <1>3, <2>1, <2>2, EndInv
<1>6. at + 1 \in 1 .. Len(source) + 1 /\ ~Deleting
  BY <1>0, <1>1 DEF Indices, Deleting
<1>7. CASE source[at].scope = "skipped" /\ Continue(at + 1) /\ UNCHANGED object
  <2>1. UNCHANGED <<source, call, clean, object>> /\ at' = at + 1
    BY <1>7 DEF Continue
  <2>2. ~Real(source[at])
    BY <1>7 DEF Real
  <2>3. \A i \in Indices : i < at + 1 => i < at \/ i = at
    BY <1>0 DEF Indices
  <2>4. AppliedSoFar' /\ DeletedSoFar'
    BY <1>0, <1>1, <2>1, <2>2, <2>3 DEF AppliedSoFar, DeletedSoFar, Deleting, Indices
  <2> QED
    BY <1>1, <1>2, <1>3, <1>6, <1>7, <2>1, <2>4, ContinueInv
<1>8. CASE /\ Real(source[at]) /\ object[at] = "absent"
           /\ object' = [object EXCEPT ![at] = "live"]
           /\ Continue(at + 1) \/ End("error", "api")
  <2>1. UNCHANGED <<source, clean>>
    BY <1>8 DEF Continue, End
  <2>2. /\ object' \in [Indices -> {"absent", "live", "terminating"}]
        /\ object'[at] = "live" /\ \A j \in Indices : j # at => object'[j] = object[j]
    BY <1>0, <1>1, <1>8, ObjectType
  <2>3. ObjectsAreReal'
    BY <1>0, <1>8, <2>1, <2>2 DEF ObjectsAreReal, Indices
  <2>4. LiveIsPrefix'
    <3> SUFFICES ASSUME clean, NEW i \in Indices, NEW j \in Indices,
                        i < j, Real(source[i]), object'[j] = "live"
                 PROVE  object'[i] = "live"
      BY <2>1 DEF LiveIsPrefix, Indices
    <3>1. CASE j = at
      <4>1. object[i] = "live" /\ i # at
        BY <1>0, <1>1, <3>1 DEF AppliedSoFar, Indices
      <4> QED
        BY <2>2, <4>1
    <3>2. CASE j # at
      <4>1. object[i] = "live"
        BY <1>0, <2>2, <3>2 DEF LiveIsPrefix, Indices
      <4> QED
        BY <2>2, <4>1
    <3> QED
      BY <3>1, <3>2
  <2>5. CASE Continue(at + 1)
    <3>1. UNCHANGED call /\ at' = at + 1
      BY <2>5 DEF Continue
    <3>2. \A i \in Indices : i < at + 1 => i < at \/ i = at
      BY <1>0 DEF Indices
    <3>3. AppliedSoFar' /\ DeletedSoFar'
      BY <1>0, <1>1, <2>1, <2>2, <3>1, <3>2
         DEF AppliedSoFar, DeletedSoFar, Deleting, Indices
    <3> QED
      BY <1>1, <1>6, <2>2, <2>3, <2>4, <2>5, <3>3, ContinueInv
  <2>6. CASE End("error", "api")
    BY <1>1, <2>2, <2>3, <2>4, <2>6, EndInv
  <2> QED
    BY <1>8, <2>5, <2>6
<1> QED
  BY <1>4, <1>5, <1>7, <1>8 DEF ApplySingle

(***************************************************************************)
(* A document whose object exists is patched: in a clean apply it is not   *)
(* on its way out.                                                         *)
(***************************************************************************)
LEMMA UpdateSingleInv ==
    ASSUME Inv, UpdateSingle
    PROVE  Inv'
<1>0. /\ TypeOK /\ CallSound /\ ObjectsAreReal /\ AppliedSoFar /\ LiveIsPrefix
      /\ Len(source) \in Nat /\ at \in Nat
  BY Numbers DEF Inv
<1>1. call = "apply" /\ at \in Indices
  BY <1>0 DEF UpdateSingle, CallSound, Indices
<1>2. object \in [Indices -> {"absent", "live", "terminating"}] /\ UNCHANGED object
  BY <1>0 DEF TypeOK, Indices, UpdateSingle
<1>3. UNCHANGED <<source, clean>>
  BY DEF UpdateSingle, Continue, End
<1>4. ObjectsAreReal' /\ LiveIsPrefix'
  BY <1>0, <1>2, <1>3 DEF ObjectsAreReal, LiveIsPrefix, Indices
<1>5. CASE object[at] # "absent" /\ Continue(at + 1)
  <2>1. UNCHANGED call /\ at' = at + 1
    BY <1>5 DEF Continue
  <2>2. \A i \in Indices : i < at + 1 => i < at \/ i = at
    BY <1>0 DEF Indices
  <2>3. AppliedSoFar' /\ DeletedSoFar'
    BY <1>0, <1>1, <1>2, <1>3, <1>5, <2>1, <2>2
       DEF AppliedSoFar, DeletedSoFar, Deleting, Indices
  <2>4. at + 1 \in 1 .. Len(source) + 1 /\ ~Deleting
    BY <1>0, <1>1 DEF Indices, Deleting
  <2> QED
    BY <1>1, <1>2, <1>4, <1>5, <2>3, <2>4, ContinueInv
<1>6. CASE \E why \in {"api", "gone"} : End("error", why)
  <2>1. PICK why \in {"api", "gone"} : End("error", why)
    BY <1>6
  <2> QED
    BY <1>1, <1>2, <1>4, <2>1, EndInv
<1> QED
  BY <1>5, <1>6 DEF UpdateSingle

(***************************************************************************)
(* A document is deleted: those behind it have no live object any more.    *)
(***************************************************************************)
LEMMA DeleteSingleInv ==
    ASSUME Inv, DeleteSingle
    PROVE  Inv'
<1>0. /\ TypeOK /\ CallSound /\ ObjectsAreReal /\ DeletedSoFar /\ LiveIsPrefix
      /\ Len(source) \in Nat /\ at \in Nat
  BY Numbers DEF Inv
<1>1. /\ Deleting /\ call # "none" /\ call # "apply" /\ at \in Indices
  BY <1>0 DEF DeleteSingle, CallSound, Indices, Deleting
<1>2. object \in [Indices -> {"absent", "live", "terminating"}]
  BY <1>0 DEF TypeOK, Indices
<1>3. at - 1 \in 0 .. Len(source) /\ \A i \in Indices : i > at - 1 => i > at \/ i = at
  BY <1>0, <1>1 DEF Indices
<1>4. UNCHANGED <<source, clean>>
  BY DEF DeleteSingle, DeleteObject, Continue, End
<1>5. ASSUME UNCHANGED object
      PROVE  ObjectsAreReal' /\ LiveIsPrefix'
  BY <1>0, <1>4, <1>5 DEF ObjectsAreReal, LiveIsPrefix, Indices
<1>6. ASSUME Continue(at - 1), object'[at] # "live",
             object' \in [Indices -> {"absent", "live", "terminating"}],
             \A j \in Indices : j # at => object'[j] = object[j],
             ObjectsAreReal', LiveIsPrefix'
      PROVE  Inv'
  <2>1. UNCHANGED call /\ at' = at - 1
    BY <1>6 DEF Continue
  <2>2. AppliedSoFar' /\ DeletedSoFar'
    BY <1>0, <1>1, <1>3, <1>4, <1>6, <2>1
       DEF AppliedSoFar, DeletedSoFar, Deleting, Indices
  <2> QED
    BY <1>1, <1>3, <1>6, <2>2, ContinueInv
<1>7. CASE /\ Continue(at - 1) /\ UNCHANGED object
           /\ object[at] = "absent" \/ source[at].scope \in {"skipped", "nameless"}
  <2>1. source[at].scope \in {"skipped", "nameless"} => ~Real(source[at])
    BY DEF Real
  <2>2. object[at] # "live"
    BY <1>0, <1>1, <1>7, <2>1 DEF ObjectsAreReal
  <2> QED
    BY <1>2, <1>5, <1>6, <1>7, <2>2
<1>8. CASE \E why \in {"api", "not_found", "no_namespace"} :
             End("error", why) /\ UNCHANGED object
  <2>1. PICK why \in {"api", "not_found", "no_namespace"} :
             End("error", why) /\ UNCHANGED object
    BY <1>8
  <2> QED
    BY <1>1, <1>2, <1>5, <2>1, EndInv
<1>9. CASE /\ object[at] # "absent" /\ object' = [object EXCEPT ![at] = "terminating"]
           /\ Continue(at - 1) \/ End("error", "api")
  <2>1. /\ object' \in [Indices -> {"absent", "live", "terminating"}]
        /\ object'[at] = "terminating"
        /\ \A j \in Indices : j # at => object'[j] = object[j]
    BY <1>0, <1>1, <1>9, ObjectType
  <2>2. ObjectsAreReal'
    BY <1>0, <1>1, <1>4, <1>9, <2>1 DEF ObjectsAreReal, Indices
  <2>3. LiveIsPrefix'
    <3> SUFFICES ASSUME clean, NEW i \in Indices, NEW j \in Indices,
                        i < j, Real(source[i]), object'[j] = "live"
                 PROVE  object'[i] = "live"
      BY <1>4 DEF LiveIsPrefix, Indices
    <3>1. j # at /\ object[j] = "live"
      BY <2>1
    <3>2. object[i] = "live" /\ ~(j > at)
      BY <1>0, <1>1, <3>1 DEF LiveIsPrefix, DeletedSoFar, Indices
    <3>3. i # at
      BY <1>0, <3>2 DEF Indices
    <3> QED
      BY <2>1, <3>2, <3>3
  <2>4. CASE Continue(at - 1)
    BY <1>6, <2>1, <2>2, <2>3, <2>4
  <2>5. CASE End("error", "api")
    BY <1>1, <2>1, <2>2, <2>3, <2>5, EndInv
  <2> QED
    BY <1>9, <2>4, <2>5
<1> QED
  BY <1>7, <1>8, <1>9 DEF DeleteSingle, DeleteObject

(***************************************************************************)
(* A call returns when it has been through all documents.                  *)
(***************************************************************************)
LEMMA EndsInv ==
    ASSUME Inv, ApplyEnds \/ DeleteEnds
    PROVE  Inv'
<1>0. /\ TypeOK /\ CallSound /\ AppliedSoFar /\ DeletedSoFar
      /\ Len(source) \in Nat /\ at \in Nat
  BY Numbers DEF Inv
<1>1. /\ UNCHANGED <<source, override, at, clean, calls, object>>
      /\ call' = "none" /\ conflict' = FALSE /\ cause' = "none"
      /\ outcome' \in {"applied", "deleted"}
  BY DEF ApplyEnds, DeleteEnds, End
<1>2. TypeOK'
  BY <1>0, <1>1 DEF TypeOK
<1>3. CallSound' /\ AppliedSoFar' /\ DeletedSoFar'
  BY <1>1 DEF CallSound, AppliedSoFar, DeletedSoFar, Deleting
<1>4. ObjectsAreReal' /\ LiveIsPrefix'
  BY <1>1 DEF Inv, ObjectsAreReal, LiveIsPrefix, Indices
<1>5. ReturnMeansDone'
  <2>1. CASE ApplyEnds
    <3>1. outcome' = "applied" /\ call = "apply" /\ \A i \in Indices : i < at
      BY <1>0, <2>1 DEF ApplyEnds, End, Indices
    <3> QED
      BY <1>0, <1>1, <3>1 DEF AppliedSoFar, ReturnMeansDone, Indices
  <2>2. CASE DeleteEnds
    <3>1. outcome' = "deleted" /\ Deleting /\ \A i \in Indices : i > at
      BY <1>0, <2>2 DEF DeleteEnds, End, Indices, Deleting
    <3> QED
      BY <1>0, <1>1, <3>1 DEF DeletedSoFar, ReturnMeansDone, Indices
  <2> QED
    BY <2>1, <2>2
<1> QED
  BY <1>2, <1>3, <1>4, <1>5 DEF Inv

(***************************************************************************)
(* An object that was being deleted is gone: it was not alive before.      *)
(***************************************************************************)
LEMMA VanishesInv ==
    ASSUME Inv, Vanishes
    PROVE  Inv'
<1>0. TypeOK /\ Len(source) \in Nat
  BY Numbers DEF Inv
<1>1. UNCHANGED <<source, override, call, at, conflict, outcome, cause, clean, calls>>
  BY DEF Vanishes
<1>2. PICK i \in Indices : /\ object[i] = "terminating"
                           /\ object' = [object EXCEPT ![i] = "absent"]
  BY DEF Vanishes, Indices
<1>3. /\ object' \in [Indices -> {"absent", "live", "terminating"}]
      /\ object'[i] = "absent" /\ \A j \in Indices : j # i => object'[j] = object[j]
  BY <1>0, <1>2, ObjectType
<1>4. \A j \in Indices : /\ object'[j] = "live" <=> object[j] = "live"
                         /\ object[j] # "terminating" => object'[j] # "terminating"
                         /\ object'[j] # "absent" => object[j] # "absent"
  BY <1>2, <1>3
<1>5. TypeOK' /\ CallSound'
  BY <1>0, <1>1, <1>3 DEF Inv, TypeOK, CallSound, Deleting, Indices
<1>6. ObjectsAreReal' /\ AppliedSoFar' /\ DeletedSoFar'
  BY <1>1, <1>4 DEF Inv, ObjectsAreReal, AppliedSoFar, DeletedSoFar, Deleting, Indices
<1>7. LiveIsPrefix' /\ ReturnMeansDone'
  BY <1>1, <1>4 DEF Inv, LiveIsPrefix, ReturnMeansDone, Indices
<1> QED
  BY <1>5, <1>6, <1>7 DEF Inv

---------------------------------------------------------------------------
(* The theorems *)

(***************************************************************************)
(* The invariant holds in every state.                                     *)
(***************************************************************************)
THEOREM ManifestsInvariant == Spec => []Inv
<1>1. Init => Inv
  <2> SUFFICES ASSUME Init PROVE Inv
    OBVIOUS
  <2>1. Len(source) \in Nat
    BY ManifestAssumption DEF Init
  <2>2. TypeOK
    <3>1. clean \in BOOLEAN /\ conflict \in BOOLEAN
      BY Zenon DEF Init
    <3>2. /\ source \in Sources /\ override \in Namespaces \cup {NoNamespace}
          /\ at \in 0 .. Len(source) + 1 /\ calls \in 0 .. MaxCalls
          /\ object \in [1 .. Len(source) -> {"absent", "live", "terminating"}]
      BY <2>1, ManifestAssumption DEF Init
    <3>3. call = "none" /\ outcome = "none" /\ cause = "none"
      BY DEF Init
    <3> QED
      BY <3>1, <3>2, <3>3 DEF TypeOK
  <2>3. CallSound /\ AppliedSoFar /\ DeletedSoFar /\ ReturnMeansDone
    BY DEF Init, CallSound, AppliedSoFar, DeletedSoFar, ReturnMeansDone, Deleting
  <2>4. \A i \in Indices : object[i] = "absent"
    BY DEF Init, Indices
  <2>5. ObjectsAreReal /\ LiveIsPrefix
    BY <2>4 DEF ObjectsAreReal, LiveIsPrefix, Indices
  <2> QED
    BY <2>2, <2>3, <2>5 DEF Inv
<1>2. Inv /\ [Next]_vars => Inv'
  <2> SUFFICES ASSUME Inv, [Next]_vars PROVE Inv'
    OBVIOUS
  <2>1. CASE UNCHANGED vars
    <3>1. TypeOK' /\ CallSound' /\ ObjectsAreReal'
      BY <2>1 DEF vars, Inv, TypeOK, CallSound, ObjectsAreReal, Deleting, Indices
    <3>2. AppliedSoFar' /\ DeletedSoFar' /\ LiveIsPrefix' /\ ReturnMeansDone'
      BY <2>1 DEF vars, Inv, AppliedSoFar, DeletedSoFar, LiveIsPrefix, ReturnMeansDone,
                  Deleting, Indices
    <3> QED
      BY <3>1, <3>2 DEF Inv
  <2> QED
    BY <2>1, StartInv, ApplySingleInv, UpdateSingleInv, DeleteSingleInv, EndsInv,
       VanishesInv DEF Next
<1> QED
  BY <1>1, <1>2, PTL DEF Spec

(***************************************************************************)
(* Deleting in reverse order handles the dependencies, for every manifest: *)
(* no object outlives one that an earlier document stands for.             *)
(***************************************************************************)
THEOREM DependenciesLive == Spec => []LiveIsPrefix
<1>1. Inv => LiveIsPrefix
  BY DEF Inv
<1> QED
  BY <1>1, ManifestsInvariant, PTL

(***************************************************************************)
(* A call that returned did its work, for every manifest.                  *)
(***************************************************************************)
THEOREM ReturnedCallsAreDone == Spec => []ReturnMeansDone
<1>1. Inv => ReturnMeansDone
  BY DEF Inv
<1> QED
  BY <1>1, ManifestsInvariant, PTL


---------------------------------------------------------------------------
(* Workloads: any number of commands of any size, on one cluster *)

(***************************************************************************)
(* The instance of index i of the command, and that it is in the cluster   *)
(* with the count that was asked for.                                      *)
(***************************************************************************)
Instance(i) == <<command.type, command.pool, i>>

InCluster(i) ==
    instance[Instance(i)] # None /\ instance[Instance(i)].want = command.count

(***************************************************************************)
(* The instances the loop of _create_workloads is through with.            *)
(***************************************************************************)
Through == IF pc \in {"idle", "next"} THEN index ELSE index - 1

LoopSound ==
    /\ successes <= Through
    /\ pc # "idle" => command \in Commands /\ index <= command.number
    /\ pc \notin {"idle", "next"} => index > 0
    /\ exitcode = 0 => /\ command \in Commands /\ pc = "idle"
                       /\ index = command.number /\ successes = index

(***************************************************************************)
(* As long as every instance counted, all of them are there; the one that  *)
(* is waited for always is.                                                *)
(***************************************************************************)
CountedSoFar ==
    /\ index > 0 => command \in Commands /\ index <= command.number
    /\ (index > 0 /\ successes = Through) => \A i \in 1 .. Through : InCluster(i)
    /\ pc \in {"service", "wait", "pods"} => InCluster(index)

(***************************************************************************)
(* The completions of a job are never changed and never lost, so what its  *)
(* status says still holds when it is read.                                *)
(***************************************************************************)
JobStatusHolds ==
    \A k \in Keys :
        (k[1] = "job" /\ instance[k] # None /\ instance[k].seen # None) =>
            /\ instance[k].seen.want = instance[k].want
            /\ instance[k].seen.ready <= instance[k].ready

(***************************************************************************)
(* Unless deleting the old job failed, the command's own one is awaited.   *)
(***************************************************************************)
JobIsOwn ==
    (pc # "idle" /\ command.type = "job" /\ ~refused) =>
        /\ pc = "apply" => instance[Key] = None
        /\ pc \in {"service", "wait"} => instance[Key].born = commands

WorkloadTypes ==
    /\ instance \in [Keys -> Objects \cup {None}]
    /\ command \in Commands \cup {None} /\ exitcode \in {None, 0, 1}
    /\ pc \in {"idle", "next", "render", "delete", "apply", "service", "wait", "pods"}
    /\ pc = "delete" => command.type = "job"
    /\ index \in 0 .. MaxNumber
    /\ successes \in Nat
    /\ refused \in BOOLEAN
    /\ commands \in 0 .. MaxCommands
    /\ pc # "idle" => commands > 0
    /\ pc = "pods" => command.type # "job"

WorkloadInv ==
    /\ WorkloadTypes /\ LoopSound /\ CountedSoFar /\ JobStatusHolds /\ JobIsOwn
---------------------------------------------------------------------------
(* Keys and instances *)

LEMMA CommandFields ==
    ASSUME command \in Commands
    PROVE  /\ command.type \in Types /\ command.pool \in Pools
           /\ command.count \in Counts /\ command.count \in Nat
           /\ command.number \in 0 .. MaxNumber /\ command.number \in Nat
<1>1. command \in Arguments /\ Counts \subseteq Nat /\ MaxNumber \in Nat
  BY WorkloadAssumption
<1>2. /\ command.type \in Types /\ command.pool \in Pools
      /\ command.count \in Counts /\ command.number \in 0 .. MaxNumber
  BY <1>1 DEF Arguments
<1>3. command.count \in Nat
  BY <1>1, <1>2
<1>4. command.number \in Nat
  BY <1>1, <1>2
<1> QED BY <1>2, <1>3, <1>4

LEMMA InstanceIsKey ==
    ASSUME command \in Commands, NEW i \in 1 .. command.number
    PROVE  Instance(i) \in Keys
BY CommandFields, WorkloadAssumption DEF Instance, Keys

LEMMA KeyOfIndex ==
    ASSUME WorkloadInv, pc \notin {"idle", "next"}
    PROVE  /\ command \in Commands /\ index \in 1 .. command.number
           /\ Key = Instance(index) /\ Key \in Keys
           /\ Key[1] = command.type
<1>1. command \in Commands /\ index <= command.number /\ index > 0
  BY DEF WorkloadInv, LoopSound
<1>2. command.number \in Nat /\ index \in Nat
  BY <1>1, CommandFields, WorkloadAssumption DEF WorkloadInv, WorkloadTypes
<1>3. index \in 1 .. command.number
  BY <1>1, <1>2
<1>4. Key = Instance(index)
  BY DEF Key, Instance
<1> QED BY <1>1, <1>3, <1>4, InstanceIsKey DEF Instance

(***************************************************************************)
(* One instance of the cluster is replaced.                                *)
(***************************************************************************)
LEMMA OneChanges ==
    ASSUME WorkloadInv, NEW k \in Keys, NEW v \in Objects \cup {None},
           instance' = [instance EXCEPT ![k] = v]
    PROVE  /\ instance' \in [Keys -> Objects \cup {None}]
           /\ instance'[k] = v
           /\ \A j \in Keys : j # k => instance'[j] = instance[j]
BY DEF WorkloadInv, WorkloadTypes

---------------------------------------------------------------------------
(* Steps of the client that leave the cluster alone *)

LEMMA BeginKeeps ==
    ASSUME WorkloadInv, Begin
    PROVE  WorkloadInv'
<1>1. /\ pc' = "next" /\ index' = 0 /\ successes' = 0 /\ exitcode' = None
      /\ refused' = FALSE /\ command' \in Commands
      /\ commands' = commands + 1 /\ commands < MaxCommands
      /\ instance' = instance
  BY DEF Begin, cluster
<1>2. None # 0 /\ MaxNumber \in Nat /\ MaxCommands \in Nat
  BY WorkloadAssumption
<1>3. command'.number \in Nat
  BY <1>1, WorkloadAssumption DEF Arguments
<1>4. WorkloadTypes'
  <2>1. commands' \in 0 .. MaxCommands /\ commands' > 0 /\ 0 \in 0 .. MaxNumber
    BY <1>1, <1>2 DEF WorkloadInv, WorkloadTypes
  <2>2. instance' \in [Keys -> Objects \cup {None}]'
    BY <1>1 DEF WorkloadInv, WorkloadTypes, Keys, Objects, Snapshots
  <2> QED BY <1>1, <2>1, <2>2 DEF WorkloadTypes
<1>5. LoopSound'
  BY <1>1, <1>2, <1>3 DEF LoopSound, Through
<1>6. CountedSoFar'
  BY <1>1 DEF CountedSoFar
<1>7. JobStatusHolds' /\ JobIsOwn'
  BY <1>1 DEF WorkloadInv, JobStatusHolds, JobIsOwn, Keys
<1> QED BY <1>4, <1>5, <1>6, <1>7 DEF WorkloadInv

(***************************************************************************)
(* The loop goes on with the next instance, or ends.                       *)
(***************************************************************************)
LEMMA LoopKeeps ==
    ASSUME WorkloadInv, Unavailable \/ NextWorkload \/ Finish
    PROVE  WorkloadInv'
<1>1. /\ pc = "next" /\ command \in Commands /\ index <= command.number
      /\ index \in 0 .. MaxNumber /\ index \in Nat /\ successes \in Nat /\ successes <= index
      /\ exitcode # 0
      /\ UNCHANGED <<instance, command, successes, commands>>
  BY WorkloadAssumption DEF Unavailable, NextWorkload, Finish, WorkloadInv, LoopSound,
                            WorkloadTypes, Through
<1>2. /\ command.number \in 0 .. MaxNumber /\ command.number \in Nat
      /\ MaxNumber \in Nat /\ command' \in Commands /\ command'.number = command.number
  BY <1>1, CommandFields, WorkloadAssumption
<1>3. Through' = Through /\ Through = index
  BY <1>1 DEF Unavailable, NextWorkload, Finish, Through
<1>4. \A i : InCluster(i)' <=> InCluster(i)
  BY <1>1 DEF InCluster, Instance
<1>5. JobStatusHolds'
  BY <1>1 DEF WorkloadInv, JobStatusHolds, Keys
<1>6. JobIsOwn'
  BY <1>1 DEF JobIsOwn, Unavailable, NextWorkload, Finish
<1>7. CASE NextWorkload
  <2>1. /\ pc' = "render" /\ index' = index + 1 /\ index < command.number
        /\ refused' = FALSE /\ exitcode' = exitcode
    BY <1>7 DEF NextWorkload
  <2>2. WorkloadTypes'
    <3>1. index' \in 0 .. MaxNumber
      BY <1>1, <1>2, <2>1
    <3>2. instance' \in [Keys -> Objects \cup {None}]'
      BY <1>1 DEF WorkloadInv, WorkloadTypes, Keys, Objects, Snapshots
    <3> QED BY <1>1, <2>1, <3>1, <3>2 DEF WorkloadInv, WorkloadTypes
  <2>3. LoopSound'
    BY <1>1, <1>2, <1>3, <2>1 DEF LoopSound
  <2>4. (successes' = Through') => \A i \in 1 .. Through' : InCluster(i)'
    BY <1>1, <1>3, <1>4 DEF WorkloadInv, CountedSoFar
  <2>5. CountedSoFar'
    BY <1>1, <1>2, <2>1, <2>4 DEF CountedSoFar
  <2> QED BY <1>5, <1>6, <2>2, <2>3, <2>5 DEF WorkloadInv
<1>8. CASE Unavailable \/ Finish
  <2>1. pc' = "idle" /\ index' = index /\ refused' = refused
    BY <1>8 DEF Unavailable, Finish
  <2>2. /\ exitcode' = 0 => index = command.number /\ successes = command.number
        /\ exitcode' \in {0, 1}
    BY <1>8 DEF Unavailable, Finish
  <2>3. WorkloadTypes'
    BY <1>1, <1>2, <2>1, <2>2 DEF WorkloadInv, WorkloadTypes, Keys, Objects, Snapshots
  <2>4. LoopSound'
    BY <1>1, <1>2, <1>3, <2>1, <2>2 DEF LoopSound
  <2>5. (index' > 0 /\ successes' = Through') => \A i \in 1 .. Through' : InCluster(i)'
    BY <1>1, <1>3, <1>4, <2>1 DEF WorkloadInv, CountedSoFar
  <2>6. CountedSoFar'
    BY <1>1, <1>2, <2>1, <2>5 DEF CountedSoFar
  <2> QED BY <1>5, <1>6, <2>3, <2>4, <2>6 DEF WorkloadInv
<1> QED BY <1>7, <1>8

(***************************************************************************)
(* An instance fails: it is not counted, whatever happened to it.          *)
(***************************************************************************)
LEMMA FailKeeps ==
    ASSUME WorkloadInv, pc \notin {"idle", "next"}, Fail,
           instance' \in [Keys -> Objects \cup {None}], JobStatusHolds'
    PROVE  WorkloadInv'
<1>1. pc' = "next" /\ UNCHANGED <<command, index, successes, refused, exitcode, commands>>
  BY DEF Fail, Goto
<1>2. command \in Commands /\ index \in 1 .. command.number
  BY KeyOfIndex
<1>3. /\ command.number \in Nat /\ index \in Nat /\ index > 0 /\ index <= command.number
      /\ successes \in Nat /\ Through = index - 1 /\ successes <= Through /\ exitcode # 0
  BY <1>2, CommandFields DEF WorkloadInv, WorkloadTypes, LoopSound, Through
<1>4. Through' = index
  BY <1>1 DEF Through
<1>5. WorkloadTypes'
  BY <1>1 DEF WorkloadInv, WorkloadTypes, Keys, Objects, Snapshots
<1>6. LoopSound'
  BY <1>1, <1>2, <1>3, <1>4 DEF LoopSound
<1>7. CountedSoFar'
  BY <1>1, <1>2, <1>3, <1>4 DEF CountedSoFar
<1>8. JobIsOwn'
  BY <1>1 DEF JobIsOwn
<1> QED BY <1>5, <1>6, <1>7, <1>8 DEF WorkloadInv

LEMMA FailQuietly ==
    ASSUME WorkloadInv, pc \notin {"idle", "next"}, Fail, instance' = instance
    PROVE  WorkloadInv'
<1>1. instance' \in [Keys -> Objects \cup {None}] /\ JobStatusHolds'
  BY DEF WorkloadInv, WorkloadTypes, JobStatusHolds, Keys, Objects, Snapshots
<1> QED BY <1>1, FailKeeps

(***************************************************************************)
(* The next call about the same instance.                                  *)
(***************************************************************************)
LEMMA GotoKeeps ==
    ASSUME WorkloadInv, pc \notin {"idle", "next"}, instance' = instance,
           NEW l \in {"delete", "apply", "service", "wait", "pods"}, Goto(l),
           l \in {"service", "wait", "pods"} => pc \in {"service", "wait", "pods"},
           l = "delete" => command.type = "job",
           l = "apply" => command.type # "job",
           l = "pods" => command.type # "job"
    PROVE  WorkloadInv'
<1>1. pc' = l /\ UNCHANGED <<command, index, successes, refused, exitcode, commands>>
  BY DEF Goto
<1>2. Through' = Through
  BY <1>1 DEF Through
<1>3. \A i : InCluster(i)' <=> InCluster(i)
  BY <1>1 DEF InCluster, Instance
<1>4. WorkloadTypes'
  BY <1>1 DEF WorkloadInv, WorkloadTypes, Keys, Objects, Snapshots
<1>5. LoopSound'
  BY <1>1, <1>2 DEF WorkloadInv, LoopSound
<1>6. CountedSoFar'
  BY <1>1, <1>2, <1>3 DEF WorkloadInv, CountedSoFar
<1>7. JobStatusHolds'
  BY <1>1 DEF WorkloadInv, JobStatusHolds, Keys
<1>8. JobIsOwn'
  BY <1>1 DEF WorkloadInv, WorkloadTypes, JobIsOwn, Key
<1> QED BY <1>4, <1>5, <1>6, <1>7, <1>8 DEF WorkloadInv

(***************************************************************************)
(* An instance counts: the one that was waited for, which is there.        *)
(***************************************************************************)
LEMMA SucceedKeeps ==
    ASSUME WorkloadInv, pc \in {"wait", "pods"}, Succeed, instance' = instance
    PROVE  WorkloadInv'
<1>1. /\ pc' = "next" /\ successes' = successes + 1
      /\ UNCHANGED <<command, index, refused, exitcode, commands>>
  BY DEF Succeed
<1>2. command \in Commands /\ index \in 1 .. command.number
  BY KeyOfIndex
<1>3. /\ command.number \in Nat /\ index \in Nat /\ index > 0 /\ index <= command.number
      /\ successes \in Nat /\ Through = index - 1 /\ successes <= Through /\ exitcode # 0
  BY <1>2, CommandFields DEF WorkloadInv, WorkloadTypes, LoopSound, Through
<1>4. Through' = index
  BY <1>1 DEF Through
<1>5. \A i : InCluster(i)' <=> InCluster(i)
  BY <1>1 DEF InCluster, Instance
<1>6. WorkloadTypes'
  BY <1>1, <1>3 DEF WorkloadInv, WorkloadTypes, Keys, Objects, Snapshots
<1>7. LoopSound'
  BY <1>1, <1>2, <1>3, <1>4 DEF LoopSound
<1>8. ASSUME successes' = Through', NEW i \in 1 .. Through'
      PROVE  InCluster(i)'
  <2>1. CASE i = index
    BY <1>5, <2>1 DEF WorkloadInv, CountedSoFar
  <2>2. CASE i # index
    <3>1. successes = Through /\ i \in 1 .. Through
      BY <1>1, <1>3, <1>4, <1>8, <2>2
    <3> QED BY <1>3, <1>5, <3>1 DEF WorkloadInv, CountedSoFar
  <2> QED BY <2>1, <2>2
<1>9. CountedSoFar'
  BY <1>1, <1>2, <1>3, <1>8 DEF CountedSoFar
<1>10. JobStatusHolds' /\ JobIsOwn'
  BY <1>1 DEF WorkloadInv, JobStatusHolds, JobIsOwn, Keys
<1> QED BY <1>6, <1>7, <1>9, <1>10 DEF WorkloadInv

LEMMA QuietKeeps ==
    ASSUME WorkloadInv,
           \/ Render \/ ApplyService
           \/ WaitForCondition \/ WaitTimesOut \/ WaitForPods \/ PodsTimeOut
    PROVE  WorkloadInv'
<1>1. CASE Render
  BY <1>1, FailQuietly, GotoKeeps DEF Render, cluster
<1>2. CASE ApplyService
  BY <1>2, FailQuietly, GotoKeeps DEF ApplyService, cluster
<1>3. CASE WaitForCondition
  BY <1>3, SucceedKeeps, GotoKeeps DEF WaitForCondition, VerifyPodsReady, cluster
<1>4. CASE WaitTimesOut \/ PodsTimeOut
  BY <1>4, FailQuietly DEF WaitTimesOut, PodsTimeOut, cluster
<1>5. CASE WaitForPods
  BY <1>5, SucceedKeeps DEF WaitForPods, cluster
<1> QED BY <1>1, <1>2, <1>3, <1>4, <1>5

---------------------------------------------------------------------------
(* DeleteJob and Apply: the instance of the command changes *)

LEMMA DeleteJobKeeps ==
    ASSUME WorkloadInv, DeleteJob
    PROVE  WorkloadInv'
<1>1. /\ pc = "delete" /\ pc' = "apply" /\ command.type = "job"
      /\ UNCHANGED <<command, index, successes, exitcode, commands>>
      /\ refused \in BOOLEAN /\ refused' \in BOOLEAN
  BY DEF DeleteJob, Goto, WorkloadInv, WorkloadTypes
<1>2. /\ command \in Commands /\ index \in 1 .. command.number
      /\ Key = Instance(index) /\ Key \in Keys
  BY <1>1, KeyOfIndex
<1>3. /\ instance' \in [Keys -> Objects \cup {None}]
      /\ \/ instance'[Key] = None
         \/ refused' = TRUE /\ instance'[Key] = instance[Key]
      /\ \A j \in Keys : j # Key => instance'[j] = instance[j]
  BY <1>2, OneChanges DEF DeleteJob, Goto, WorkloadInv, WorkloadTypes
<1>4. Through' = Through /\ Through = index - 1
  BY <1>1 DEF Through
<1>5. command.number \in Nat /\ index \in Nat
  BY <1>2, CommandFields
<1>6. \A i \in 1 .. Through : InCluster(i)' <=> InCluster(i)
  <2> SUFFICES ASSUME NEW i \in 1 .. Through PROVE InCluster(i)' <=> InCluster(i)
    OBVIOUS
  <2>1. i # index /\ i \in 1 .. command.number
    BY <1>2, <1>4, <1>5
  <2>2. Instance(i) \in Keys /\ Instance(i) # Key /\ Instance(i)' = Instance(i)
    BY <1>1, <1>2, <2>1, InstanceIsKey DEF Instance
  <2> QED BY <1>1, <1>3, <2>2 DEF InCluster
<1>7. WorkloadTypes'
  BY <1>1, <1>3 DEF WorkloadInv, WorkloadTypes, Keys, Objects, Snapshots
<1>8. LoopSound'
  BY <1>1, <1>4 DEF WorkloadInv, LoopSound
<1>9. CountedSoFar'
  BY <1>1, <1>4, <1>6 DEF WorkloadInv, CountedSoFar
<1>10. JobStatusHolds'
  BY <1>2, <1>3 DEF WorkloadInv, JobStatusHolds, Keys
<1>11. Key' = Key
  BY <1>1 DEF Key
<1>12. JobIsOwn'
  BY <1>1, <1>3, <1>11 DEF JobIsOwn
<1> QED BY <1>7, <1>8, <1>9, <1>10, <1>12 DEF WorkloadInv

(***************************************************************************)
(* What an apply leaves: the count that was asked for, and a job whose     *)
(* status, if it had any, still holds.                                     *)
(***************************************************************************)
LEMMA ApplyLeaves ==
    ASSUME WorkloadInv, Apply, instance' # instance
    PROVE  \E v \in Objects :
              /\ instance' = [instance EXCEPT ![Key] = v]
              /\ v.want = command.count
              /\ (command.type = "job" /\ v.seen # None) =>
                    v.seen.want = v.want /\ v.seen.ready <= v.ready
              /\ instance[Key] = None => v.born = commands
<1>1. pc = "apply"
  BY DEF Apply
<1>2. /\ command \in Commands /\ index \in 1 .. command.number
      /\ Key \in Keys /\ Key[1] = command.type
  BY <1>1, KeyOfIndex
<1>3. command.count \in Counts /\ commands \in 1 .. MaxCommands
  BY <1>1, <1>2, CommandFields DEF WorkloadInv, WorkloadTypes
<1>4. CASE instance[Key] = None
  <2> DEFINE v == [want |-> command.count, ready |-> 0, failed |-> FALSE,
                   born |-> commands, seen |-> None]
  <2>1. instance' = [instance EXCEPT ![Key] = v]
    BY <1>4 DEF Apply, cluster
  <2>2. v \in Objects
    BY <1>3 DEF Objects
  <2> QED BY <2>1, <2>2
<1>5. CASE instance[Key] # None
  <2> DEFINE o == instance[Key]
             v == [o EXCEPT !.want = command.count]
  <2>1. o \in Objects
    BY <1>2, <1>5 DEF WorkloadInv, WorkloadTypes
  <2>2. /\ instance' = [instance EXCEPT ![Key].want = command.count]
        /\ command.type = "job" => o.want = command.count
    BY <1>5 DEF Apply, cluster
  <2>3. instance' = [instance EXCEPT ![Key] = v]
    BY <1>2, <2>2 DEF WorkloadInv, WorkloadTypes
  <2>4. /\ v \in Objects /\ v.want = command.count
        /\ v.seen = o.seen /\ v.ready = o.ready
    BY <1>3, <2>1 DEF Objects
  <2>5. (command.type = "job" /\ o.seen # None) =>
            o.seen.want = o.want /\ o.seen.ready <= o.ready
    BY <1>2, <1>5 DEF WorkloadInv, JobStatusHolds
  <2> HIDE DEF v
  <2> QED BY <1>5, <2>2, <2>3, <2>4, <2>5
<1> QED BY <1>4, <1>5

LEMMA ApplyKeeps ==
    ASSUME WorkloadInv, Apply
    PROVE  WorkloadInv'
<1>1. pc = "apply" /\ (Goto("service") \/ Fail)
  BY DEF Apply
<1>2. /\ command \in Commands /\ index \in 1 .. command.number
      /\ Key = Instance(index) /\ Key \in Keys /\ Key[1] = command.type
  BY <1>1, KeyOfIndex
<1>3. CASE instance' = instance
  <2>1. CASE Fail
    BY <1>1, <1>3, <2>1, FailQuietly
  <2>2. CASE Goto("service") /\ ~Fail
    <3>1. instance[Key] # None /\ instance[Key].want = command.count
      <4>1. CASE instance[Key] = None
        <5> DEFINE v == [want |-> command.count, ready |-> 0, failed |-> FALSE,
                         born |-> commands, seen |-> None]
        <5>1. instance' = [instance EXCEPT ![Key] = v]
          BY <2>2, <4>1 DEF Apply
        <5>2. commands \in 1 .. MaxCommands /\ command.count \in Counts
          BY <1>1, <1>2, CommandFields DEF WorkloadInv, WorkloadTypes
        <5>3. v \in Objects
          BY <5>2 DEF Objects
        <5>4. v # None
          BY <5>3, WorkloadAssumption
        <5>5. instance'[Key] = v
          BY <1>2, <5>1 DEF WorkloadInv, WorkloadTypes
        <5> QED BY <1>3, <4>1, <5>4, <5>5
      <4>2. CASE instance[Key] # None
        <5>1. instance' = [instance EXCEPT ![Key].want = command.count]
          BY <2>2, <4>2 DEF Apply
        <5>2. instance[Key] \in Objects
          BY <1>2, <4>2 DEF WorkloadInv, WorkloadTypes
        <5>3. instance'[Key].want = command.count
          BY <1>2, <5>1, <5>2 DEF WorkloadInv, WorkloadTypes, Objects
        <5> QED BY <1>3, <4>2, <5>3
      <4> QED BY <4>1, <4>2
    <3>2. instance[Key] # None => command.type # "job" \/ refused
      BY <1>1 DEF WorkloadInv, JobIsOwn
    <3>3. pc' = "service" /\ UNCHANGED <<command, index, successes, refused, exitcode, commands>>
      BY <2>2 DEF Goto
    <3>4. Through' = Through
      BY <1>1, <3>3 DEF Through
    <3>5. \A i : InCluster(i)' <=> InCluster(i)
      BY <1>3, <3>3 DEF InCluster, Instance
    <3>6. InCluster(index)'
      BY <1>2, <1>3, <3>1, <3>3 DEF InCluster, Instance
    <3>7. WorkloadTypes'
      BY <1>1, <1>3, <3>3 DEF WorkloadInv, WorkloadTypes, Keys, Objects, Snapshots
    <3>8. LoopSound'
      BY <1>1, <3>3, <3>4 DEF WorkloadInv, LoopSound
    <3>9. CountedSoFar'
      BY <3>3, <3>4, <3>5, <3>6 DEF WorkloadInv, CountedSoFar
    <3>10. JobStatusHolds'
      BY <1>3 DEF WorkloadInv, JobStatusHolds, Keys
    <3>11. JobIsOwn'
      BY <3>1, <3>2, <3>3 DEF JobIsOwn
    <3> QED BY <3>7, <3>8, <3>9, <3>10, <3>11 DEF WorkloadInv
  <2> QED BY <1>1, <2>1, <2>2
<1>4. CASE instance' # instance
  <2>1. PICK v \in Objects :
              /\ instance' = [instance EXCEPT ![Key] = v]
              /\ v.want = command.count
              /\ (command.type = "job" /\ v.seen # None) =>
                    v.seen.want = v.want /\ v.seen.ready <= v.ready
              /\ instance[Key] = None => v.born = commands
    BY <1>4, ApplyLeaves
  <2>2. /\ instance' \in [Keys -> Objects \cup {None}]
        /\ instance'[Key] = v /\ v # None
        /\ \A j \in Keys : j # Key => instance'[j] = instance[j]
    BY <1>2, <2>1, OneChanges, WorkloadAssumption
  <2>3. JobStatusHolds'
    BY <1>2, <2>1, <2>2 DEF WorkloadInv, JobStatusHolds, Keys
  <2>4. CASE Fail
    BY <1>1, <2>2, <2>3, <2>4, FailKeeps
  <2>5. CASE Goto("service")
    <3>1. pc' = "service" /\ UNCHANGED <<command, index, successes, refused, exitcode, commands>>
      BY <2>5 DEF Goto
    <3>2. Through' = Through /\ Through = index - 1
      BY <1>1, <3>1 DEF Through
    <3>3. command.number \in Nat /\ index \in Nat
      BY <1>2, CommandFields
    <3>4. \A i \in 1 .. Through : InCluster(i)' <=> InCluster(i)
      <4> SUFFICES ASSUME NEW i \in 1 .. Through PROVE InCluster(i)' <=> InCluster(i)
        OBVIOUS
      <4>1. i # index /\ i \in 1 .. command.number
        BY <1>2, <3>2, <3>3
      <4>2. Instance(i) \in Keys /\ Instance(i) # Key /\ Instance(i)' = Instance(i)
        BY <1>2, <3>1, <4>1, InstanceIsKey DEF Instance
      <4> QED BY <2>2, <3>1, <4>2 DEF InCluster
    <3>5. Key' = Key /\ Instance(index)' = Key
      BY <1>2, <3>1 DEF Key, Instance
    <3>6. InCluster(index)'
      BY <2>1, <2>2, <3>1, <3>5 DEF InCluster
    <3>7. WorkloadTypes'
      BY <1>1, <2>2, <3>1 DEF WorkloadInv, WorkloadTypes, Keys, Objects, Snapshots
    <3>8. LoopSound'
      BY <1>1, <3>1, <3>2 DEF WorkloadInv, LoopSound
    <3>9. CountedSoFar'
      BY <3>1, <3>2, <3>4, <3>6 DEF WorkloadInv, CountedSoFar
    <3>10. JobIsOwn'
      BY <1>1, <2>1, <2>2, <3>1, <3>5 DEF WorkloadInv, JobIsOwn
    <3> QED BY <2>3, <3>7, <3>8, <3>9, <3>10 DEF WorkloadInv
  <2> QED BY <1>1, <2>4, <2>5
<1> QED BY <1>3, <1>4

---------------------------------------------------------------------------
(* The controllers *)

(***************************************************************************)
(* A controller changes one instance, never what its spec asks for nor who *)
(* created it, and the status of a job it writes holds.                    *)
(***************************************************************************)
ByController(k, v) ==
    /\ instance[k] # None /\ instance' = [instance EXCEPT ![k] = v]
    /\ v.want = instance[k].want /\ v.born = instance[k].born
    /\ (k[1] = "job" /\ v.seen # None) =>
          v.seen.want = v.want /\ v.seen.ready <= v.ready

LEMMA ControllerChanges ==
    ASSUME WorkloadInv, NEW k \in Keys,
           PodReady(k) \/ PodGone(k) \/ JobFails(k) \/ StatusWritten(k)
    PROVE  \E v \in Objects : ByController(k, v)
<1> DEFINE o == instance[k]
<1>1. o # None /\ o \in Objects
  BY DEF PodReady, PodGone, JobFails, StatusWritten, WorkloadInv, WorkloadTypes
<1>2. /\ o.want \in Counts /\ o.ready \in Nat /\ o.failed \in BOOLEAN
      /\ o.seen \in Snapshots \cup {None}
  BY <1>1 DEF Objects
<1>3. (k[1] = "job" /\ o.seen # None) => o.seen.want = o.want /\ o.seen.ready <= o.ready
  BY <1>1 DEF WorkloadInv, JobStatusHolds
<1>4. o.seen # None => o.seen.ready \in Nat
  BY <1>2 DEF Snapshots
<1>5. CASE PodReady(k)
  <2> DEFINE v == [o EXCEPT !.ready = @ + 1]
  <2>1. instance' = [instance EXCEPT ![k] = v]
    BY <1>5 DEF PodReady, WorkloadInv, WorkloadTypes
  <2>2. /\ v \in Objects /\ v.want = o.want /\ v.born = o.born
        /\ v.seen = o.seen /\ v.ready = o.ready + 1
    BY <1>1, <1>2 DEF Objects
  <2>3. (k[1] = "job" /\ o.seen # None) => o.seen.ready <= o.ready + 1
    BY <1>2, <1>3, <1>4
  <2> HIDE DEF v
  <2>4. (k[1] = "job" /\ v.seen # None) => v.seen.want = v.want /\ v.seen.ready <= v.ready
    BY <1>3, <2>2, <2>3
  <2> QED BY <1>1, <2>1, <2>2, <2>4 DEF ByController
<1>6. CASE PodGone(k)
  <2> DEFINE v == [o EXCEPT !.ready = @ - 1]
  <2>1. instance' = [instance EXCEPT ![k] = v] /\ k[1] # "job" /\ o.ready > 0
    BY <1>6 DEF PodGone, WorkloadInv, WorkloadTypes
  <2>2. v \in Objects /\ v.want = o.want /\ v.born = o.born
    BY <1>1, <1>2, <2>1 DEF Objects
  <2> HIDE DEF v
  <2> QED BY <1>1, <2>1, <2>2 DEF ByController
<1>7. CASE JobFails(k)
  <2> DEFINE v == [o EXCEPT !.failed = TRUE]
  <2>1. instance' = [instance EXCEPT ![k] = v]
    BY <1>7 DEF JobFails, WorkloadInv, WorkloadTypes
  <2>2. /\ v \in Objects /\ v.want = o.want /\ v.born = o.born
        /\ v.seen = o.seen /\ v.ready = o.ready
    BY <1>1, <1>2 DEF Objects
  <2> HIDE DEF v
  <2> QED BY <1>1, <1>3, <2>1, <2>2 DEF ByController
<1>8. CASE StatusWritten(k)
  <2> DEFINE s == [want |-> o.want, ready |-> o.ready, failed |-> o.failed]
             v == [o EXCEPT !.seen = s]
  <2>1. instance' = [instance EXCEPT ![k] = v]
    BY <1>8 DEF StatusWritten, WorkloadInv, WorkloadTypes
  <2>2. s \in Snapshots /\ s.want = o.want /\ s.ready = o.ready
    BY <1>2 DEF Snapshots
  <2>3. /\ v \in Objects /\ v.want = o.want /\ v.born = o.born
        /\ v.seen = s /\ v.ready = o.ready
    <3> HIDE DEF s
    <3> QED BY <1>1, <2>2 DEF Objects
  <2> HIDE DEF v, s
  <2>4. s.ready <= o.ready
    BY <1>2, <2>2
  <2>5. v.seen.want = v.want /\ v.seen.ready <= v.ready
    BY <2>2, <2>3, <2>4
  <2> QED BY <1>1, <2>1, <2>3, <2>5 DEF ByController
<1> QED BY <1>5, <1>6, <1>7, <1>8

LEMMA ControllersKeep ==
    ASSUME WorkloadInv, Controllers
    PROVE  WorkloadInv'
<1>1. PICK k \in Keys :
         PodReady(k) \/ PodGone(k) \/ JobFails(k) \/ StatusWritten(k)
  BY DEF Controllers
<1>2. PICK v \in Objects : ByController(k, v)
  BY <1>1, ControllerChanges
<1>3. UNCHANGED <<command, pc, index, successes, refused, exitcode, commands>>
  BY <1>1 DEF PodReady, PodGone, JobFails, StatusWritten, client
<1>4. /\ instance' \in [Keys -> Objects \cup {None}]
      /\ instance'[k] = v /\ v # None
      /\ \A j \in Keys : j # k => instance'[j] = instance[j]
  BY <1>2, OneChanges, WorkloadAssumption DEF ByController
<1>5. /\ instance[k] # None
      /\ v.want = instance[k].want /\ v.born = instance[k].born
      /\ (k[1] = "job" /\ v.seen # None) =>
            v.seen.want = v.want /\ v.seen.ready <= v.ready
  BY <1>2 DEF ByController
<1>6. \A j \in Keys :
         /\ instance'[j] = None <=> instance[j] = None
         /\ instance[j] # None => /\ instance'[j].want = instance[j].want
                                  /\ instance'[j].born = instance[j].born
  BY <1>4, <1>5
<1>7. ASSUME command \in Commands, NEW i \in 1 .. command.number
      PROVE  InCluster(i)' <=> InCluster(i)
  BY <1>3, <1>6, <1>7, InstanceIsKey DEF InCluster, Instance
<1>8. Through' = Through
  BY <1>3 DEF Through
<1>9. WorkloadTypes'
  BY <1>3, <1>4 DEF WorkloadInv, WorkloadTypes, Keys, Objects, Snapshots
<1>10. LoopSound'
  BY <1>3, <1>8 DEF WorkloadInv, LoopSound
<1>11. CountedSoFar'
  <2>1. ASSUME index > 0
        PROVE  /\ command \in Commands /\ index \in 1 .. command.number
               /\ Through \in 0 .. command.number
    <3>1. command \in Commands /\ index <= command.number /\ index \in 0 .. MaxNumber
      BY <2>1 DEF WorkloadInv, CountedSoFar, WorkloadTypes
    <3>2. command.number \in Nat /\ MaxNumber \in Nat
      BY <3>1, CommandFields, WorkloadAssumption
    <3> QED BY <2>1, <3>1, <3>2 DEF Through
  <2>2. ASSUME index > 0, successes = Through, NEW i \in 1 .. Through
        PROVE  InCluster(i)'
    <3>1. command.number \in Nat /\ i \in 1 .. command.number
      BY <2>1, <2>2, CommandFields
    <3> QED BY <1>7, <2>1, <2>2, <3>1 DEF WorkloadInv, CountedSoFar
  <2>3. ASSUME pc \in {"service", "wait", "pods"}
        PROVE  InCluster(index)' /\ index > 0
    <3>1. command \in Commands /\ index \in 1 .. command.number /\ InCluster(index)
      BY <2>3, KeyOfIndex DEF WorkloadInv, CountedSoFar
    <3>2. InCluster(index)' <=> (instance'[Instance(index)] # None
                                   /\ instance'[Instance(index)].want = command.count)
      BY <1>3 DEF InCluster, Instance
    <3>3. Instance(index) \in Keys
      BY <3>1, InstanceIsKey
    <3> QED BY <1>6, <2>3, <3>1, <3>2, <3>3 DEF InCluster, WorkloadInv, LoopSound
  <2> QED BY <1>3, <1>8, <2>1, <2>2, <2>3 DEF WorkloadInv, CountedSoFar
<1>12. JobStatusHolds'
  BY <1>4, <1>5 DEF WorkloadInv, JobStatusHolds, Keys
<1>13. JobIsOwn'
  <2> SUFFICES ASSUME pc # "idle", command.type = "job", ~refused
               PROVE  /\ pc = "apply" => instance'[Key] = None
                      /\ pc \in {"service", "wait"} => instance'[Key].born = commands
    BY <1>3 DEF JobIsOwn, Key
  <2>1. CASE pc \in {"apply", "service", "wait"}
    <3>1. Key \in Keys
      BY <2>1, KeyOfIndex
    <3>2. pc \in {"service", "wait"} => instance[Key] # None
      BY <2>1, KeyOfIndex DEF WorkloadInv, CountedSoFar, InCluster
    <3> QED BY <1>6, <2>1, <3>1, <3>2 DEF WorkloadInv, JobIsOwn
  <2> QED BY <2>1
<1> QED BY <1>9, <1>10, <1>11, <1>12, <1>13 DEF WorkloadInv

---------------------------------------------------------------------------
(* Theorems about the workload commands *)

LEMMA WorkloadInitially ==
    ASSUME WorkloadInit
    PROVE  WorkloadInv
<1>1. None # 0 /\ MaxNumber \in Nat /\ MaxCommands \in Nat
  BY WorkloadAssumption
<1>2. WorkloadTypes
  <2>1. 0 \in 0 .. MaxNumber /\ 0 \in 0 .. MaxCommands
    BY <1>1
  <2> QED BY <2>1 DEF WorkloadInit, WorkloadTypes
<1>3. LoopSound /\ CountedSoFar
  BY <1>1 DEF WorkloadInit, LoopSound, CountedSoFar, Through
<1>4. JobStatusHolds /\ JobIsOwn
  BY DEF WorkloadInit, JobStatusHolds, JobIsOwn
<1> QED BY <1>2, <1>3, <1>4 DEF WorkloadInv

LEMMA WorkloadStep ==
    ASSUME WorkloadInv, [WorkloadNext]_workloadVars
    PROVE  WorkloadInv'
<1>1. CASE UNCHANGED workloadVars
  BY <1>1 DEF workloadVars, WorkloadInv, WorkloadTypes, LoopSound, CountedSoFar, JobStatusHolds,
              JobIsOwn, Through, InCluster, Instance, Key, Keys, Objects, Snapshots
<1>2. CASE WorkloadNext
  BY <1>2, BeginKeeps, LoopKeeps, QuietKeeps, DeleteJobKeeps, ApplyKeeps, ControllersKeep
  DEF WorkloadNext, Client
<1> QED BY <1>1, <1>2

(***************************************************************************)
(* The inductive invariant of the workload commands.                       *)
(***************************************************************************)
THEOREM WorkloadInvariant == WorkloadSpec => []WorkloadInv
<1>1. WorkloadInit => WorkloadInv
  BY WorkloadInitially
<1>2. WorkloadInv /\ [WorkloadNext]_workloadVars => WorkloadInv'
  BY WorkloadStep
<1> QED BY <1>1, <1>2, PTL DEF WorkloadSpec

(***************************************************************************)
(* After exit code 0 every instance of a workload command is in the        *)
(* cluster with its count, for any number of instances, although           *)
(* _create_workloads goes on after a failed one and controllers and        *)
(* earlier commands have been at work.                                     *)
(***************************************************************************)
THEOREM EveryInstanceExists == WorkloadSpec => []AllInstancesExist
<1>1. WorkloadInv => AllInstancesExist
  <2> SUFFICES ASSUME WorkloadInv, exitcode = 0, NEW i \in 1 .. command.number
               PROVE  InCluster(i)
    BY DEF AllInstancesExist, InCluster, Instance
  <2>1. /\ command \in Commands /\ pc = "idle"
        /\ index = command.number /\ successes = index
    BY DEF WorkloadInv, LoopSound
  <2>2. command.number \in Nat
    BY <2>1, CommandFields
  <2>3. index > 0 /\ Through = index
    BY <2>1, <2>2 DEF Through
  <2> QED BY <2>1, <2>3 DEF WorkloadInv, CountedSoFar
<1> QED BY <1>1, WorkloadInvariant, PTL

(***************************************************************************)
(* With the label to itself, an instance has as many ready pods as the     *)
(* selector returns.                                                       *)
(***************************************************************************)
LEMMA AlonePodsCount ==
    ASSUME WorkloadInv, pc = "pods", Alone
    PROVE  ReadyPods(command.type, index) = instance[Key].ready
<1> DEFINE o == instance[Key]
           n == o.ready
           Of(p) == PodsOf(<<command.type, p, index>>)
<1>1. command \in Commands /\ Key \in Keys /\ Key = Instance(index) /\ o # None
  BY KeyOfIndex DEF WorkloadInv, CountedSoFar, InCluster
<1>2. n \in Nat
  <2>1. o \in Objects
    BY <1>1 DEF WorkloadInv, WorkloadTypes
  <2> QED BY <2>1 DEF Objects
<1>3. \A p \in Pools \ {command.pool} : Of(p) = {}
  BY DEF Alone, PodsOf
<1>4. command.pool \in Pools /\ Of(command.pool) = {Key} \X (1 .. n)
  BY <1>1, CommandFields DEF PodsOf, Key
<1>5. UNION {Of(p) : p \in Pools} = {Key} \X (1 .. n)
  <2> HIDE DEF Of, n
  <2> QED BY <1>3, <1>4
<1>6. Cardinality({Key} \X (1 .. n)) = n
  <2> HIDE DEF n
  <2> DEFINE h == [j \in 1 .. n |-> <<Key, j>>]
             S == {Key} \X (1 .. n)
  <2>1. h \in [1 .. n -> S]
    OBVIOUS
  <2>2. \A i, j \in 1 .. n : h[i] = h[j] => i = j
    OBVIOUS
  <2>3. \A x \in S : \E j \in 1 .. n : h[j] = x
    OBVIOUS
  <2>4. ExistsBijection(1 .. n, S)
    <3> HIDE DEF h, S
    <3>1. h \in Bijection(1 .. n, S)
      BY <2>1, <2>2, <2>3 DEF Bijection, Injection, Surjection, IsInjective
    <3> QED BY <3>1 DEF ExistsBijection
  <2>5. IsFiniteSet(1 .. n) /\ Cardinality(1 .. n) = n
    BY <1>2, FS_Interval
  <2> QED BY <2>4, <2>5, FS_Bijection
<1>7. ReadyPods(command.type, index) = Cardinality(UNION {Of(p) : p \in Pools})
  BY DEF ReadyPods
<1> QED BY <1>5, <1>6, <1>7

LEMMA CountedStep ==
    ASSUME WorkloadInv, WorkloadNext, Verified
    PROVE  LET o == instance[Key]
           IN  IF command.type = "job"
               THEN ~refused => o.born = commands /\ o.ready >= command.count
               ELSE Alone => o.ready = command.count /\ o.want = command.count
<1>1. successes \in Nat /\ successes' = successes + 1
  BY DEF Verified, WorkloadInv, WorkloadTypes
<1>2. \/ pc = "wait" /\ ConditionMet /\ command.type = "job"
      \/ WaitForPods
  <2>1. successes' # successes /\ successes' # 0
    BY <1>1
  <2>2. ~Begin
    BY <2>1 DEF Begin
  <2>3. ~Controllers
    BY <2>1 DEF Controllers, PodReady, PodGone, JobFails, StatusWritten, client
  <2>4. ~Fail /\ ~Goto("delete") /\ ~Goto("apply") /\ ~Goto("service")
        /\ ~Goto("wait") /\ ~Goto("pods")
    BY <2>1 DEF Fail, Goto
  <2>5. ~(Unavailable \/ NextWorkload \/ Finish)
    BY <2>1 DEF Unavailable, NextWorkload, Finish
  <2>6. ~(Render \/ ApplyService \/ WaitTimesOut \/ PodsTimeOut)
    BY <2>4 DEF Render, ApplyService, WaitTimesOut, PodsTimeOut
  <2>7. ~(DeleteJob \/ Apply)
    BY <2>1, <2>4 DEF DeleteJob, Apply
  <2>8. WaitForCondition \/ WaitForPods
    BY <2>2, <2>3, <2>5, <2>6, <2>7 DEF WorkloadNext, Client
  <2> QED BY <2>4, <2>8 DEF WaitForCondition, VerifyPodsReady
<1>3. CASE pc = "wait" /\ ConditionMet /\ command.type = "job"
  <2> DEFINE o == instance[Key]
  <2>1. Key \in Keys /\ Key[1] = "job" /\ o # None /\ o.want = command.count
    BY <1>3, KeyOfIndex DEF WorkloadInv, CountedSoFar, InCluster
  <2>2. o.seen # None /\ o.seen.ready >= o.seen.want
    BY <1>3 DEF ConditionMet, JobConditionMet
  <2>3. o.seen.want = o.want /\ o.seen.ready <= o.ready
    BY <2>1, <2>2 DEF WorkloadInv, JobStatusHolds
  <2>4. o \in Objects
    BY <2>1 DEF WorkloadInv, WorkloadTypes
  <2>5. o.seen \in Snapshots /\ o.ready \in Nat
    BY <2>2, <2>4 DEF Objects
  <2>6. o.seen.ready \in Nat /\ o.seen.want \in Nat
    BY <2>5, WorkloadAssumption DEF Snapshots
  <2>7. o.ready >= command.count
    BY <2>1, <2>2, <2>3, <2>5, <2>6
  <2>8. ~refused => o.born = commands
    BY <1>3 DEF WorkloadInv, JobIsOwn
  <2> QED BY <1>3, <2>7, <2>8
<1>4. CASE WaitForPods
  <2>1. /\ pc = "pods" /\ command.type # "job"
        /\ ReadyPods(command.type, index) = command.count
    BY <1>4 DEF WaitForPods, WorkloadInv, WorkloadTypes
  <2>2. instance[Key].want = command.count
    BY <2>1, KeyOfIndex DEF WorkloadInv, CountedSoFar, InCluster
  <2> QED BY <2>1, <2>2, AlonePodsCount
<1> QED BY <1>2, <1>3, <1>4

(***************************************************************************)
(* What _create_workloads counts is ready: a job is the command's own and  *)
(* complete, unless deleting the old one failed; any other instance has    *)
(* all its pods, unless another pool has an instance of the same label.    *)
(***************************************************************************)
THEOREM CountedInstancesAreReady == WorkloadSpec => CountedIsReady
<1>1. WorkloadInv /\ [WorkloadNext]_workloadVars => [CountedReady]_workloadVars
  <2> SUFFICES ASSUME WorkloadInv, WorkloadNext, Verified
               PROVE  CountedReady
    BY DEF CountedReady
  <2> QED BY CountedStep DEF CountedReady
<1> QED BY <1>1, WorkloadInvariant, PTL DEF WorkloadSpec, CountedIsReady

(***************************************************************************)
(* Types, for commands of any size: no command works on more instances     *)
(* than it was asked for, and none is counted twice.                       *)
(***************************************************************************)
THEOREM WorkloadTypesHold == WorkloadSpec => []WorkloadTypeOK
<1>1. WorkloadInv => WorkloadTypeOK
  <2> SUFFICES ASSUME WorkloadInv PROVE WorkloadTypeOK
    OBVIOUS
  <2>1. successes \in 0 .. index
    BY WorkloadAssumption DEF WorkloadInv, WorkloadTypes, LoopSound, Through
  <2> QED BY <2>1 DEF WorkloadInv, WorkloadTypes, WorkloadTypeOK
<1> QED BY <1>1, WorkloadInvariant, PTL

---------------------------------------------------------------------------
(* The steps a command has left *)

(***************************************************************************)
(* Steps left in the iteration of _create_workloads, the one that leaves   *)
(* the loop included.                                                      *)
(***************************************************************************)
StepsHere ==
    CASE pc = "idle"    -> 0
      [] pc = "next"    -> 1
      [] pc = "pods"    -> 2
      [] pc = "wait"    -> 3
      [] pc = "service" -> 4
      [] pc = "apply"   -> 5
      [] pc = "delete"  -> 6
      [] pc = "render"  -> 7

StepsLeft == IF pc = "idle" THEN 0 ELSE 7 * (command.number - index) + StepsHere

(***************************************************************************)
(* Every step of the client brings the command nearer to its end, whatever *)
(* fails, and nothing the controllers do takes it back.                    *)
(***************************************************************************)
BringsEndNearer ==
    /\ Begin => StepsLeft' = 7 * command'.number + 1
    /\ Client => StepsLeft' < StepsLeft
    /\ Controllers => StepsLeft' = StepsLeft

LEMMA StepsLeftType ==
    ASSUME WorkloadInv
    PROVE  StepsLeft \in Nat
<1>1. CASE pc = "idle"
  BY <1>1 DEF StepsLeft
<1>2. CASE pc # "idle"
  <2>1. command \in Commands /\ index <= command.number /\ index \in Nat
    BY <1>2, WorkloadAssumption DEF WorkloadInv, WorkloadTypes, LoopSound
  <2>2. command.number \in Nat
    BY <2>1, CommandFields
  <2>3. StepsHere \in Nat
    BY DEF StepsHere, WorkloadInv, WorkloadTypes
  <2> HIDE DEF StepsHere
  <2> QED BY <1>2, <2>1, <2>2, <2>3 DEF StepsLeft
<1> QED BY <1>1, <1>2

LEMMA ClientIsNearer ==
    ASSUME WorkloadInv, Client
    PROVE  StepsLeft' < StepsLeft
<1>1. /\ pc # "idle" /\ command \in Commands /\ index \in Nat /\ index <= command.number
      /\ command' = command
  <2>1. pc # "idle"
    BY DEF Client, Unavailable, NextWorkload, Finish, Render, DeleteJob, Apply,
           ApplyService, WaitForCondition, WaitTimesOut, WaitForPods, PodsTimeOut
  <2>2. command' = command
    BY DEF Client, Unavailable, NextWorkload, Finish, Render, DeleteJob, Apply,
           ApplyService, WaitForCondition, WaitTimesOut, WaitForPods, PodsTimeOut,
           Goto, Fail, Succeed
  <2> QED BY <2>1, <2>2, WorkloadAssumption DEF WorkloadInv, WorkloadTypes, LoopSound
<1>2. command.number \in Nat
  BY <1>1, CommandFields
<1>3. CASE Unavailable \/ Finish
  BY <1>1, <1>2, <1>3 DEF Unavailable, Finish, StepsLeft, StepsHere
<1>4. CASE NextWorkload
  BY <1>1, <1>2, <1>4 DEF NextWorkload, StepsLeft, StepsHere
<1>5. ASSUME index' = index, pc' # "idle", StepsHere' < StepsHere,
             StepsHere \in Nat, StepsHere' \in Nat
      PROVE  StepsLeft' < StepsLeft
  BY <1>1, <1>2, <1>5 DEF StepsLeft
<1>6. CASE Render \/ DeleteJob
  BY <1>5, <1>6 DEF Render, DeleteJob, Fail, Goto, StepsHere
<1>7. CASE Apply \/ ApplyService
  BY <1>5, <1>7 DEF Apply, ApplyService, Fail, Goto, StepsHere
<1>8. CASE WaitForCondition \/ WaitTimesOut \/ WaitForPods \/ PodsTimeOut
  BY <1>5, <1>8 DEF WaitForCondition, WaitTimesOut, WaitForPods, PodsTimeOut,
                    Fail, Goto, Succeed, StepsHere
<1> QED BY <1>3, <1>4, <1>6, <1>7, <1>8 DEF Client

(***************************************************************************)
(* A command of n instances takes at most 7 * n + 1 steps, polls that      *)
(* change nothing aside, for every n and whatever fails: _create_workloads *)
(* never works on an instance again.  What CommandEnds needs besides is    *)
(* that the client runs on and that the deadlines of its waits pass.       *)
(***************************************************************************)
THEOREM CommandsAreFinite ==
    WorkloadSpec => [](StepsLeft \in Nat) /\ [][BringsEndNearer]_workloadVars
<1>1. WorkloadInv => StepsLeft \in Nat
  BY StepsLeftType
<1>2. WorkloadInv /\ [WorkloadNext]_workloadVars => [BringsEndNearer]_workloadVars
  <2> SUFFICES ASSUME WorkloadInv, WorkloadNext PROVE BringsEndNearer
    OBVIOUS
  <2>1. Controllers => StepsLeft' = StepsLeft
    <3>1. Controllers => UNCHANGED <<command, pc, index>>
      BY DEF Controllers, PodReady, PodGone, JobFails, StatusWritten, client
    <3>2. ASSUME pc' = pc PROVE StepsHere' = StepsHere
      BY <3>2, Zenon DEF StepsHere
    <3> HIDE DEF StepsHere
    <3> QED BY <3>1, <3>2 DEF StepsLeft
  <2>2. Begin => StepsLeft' = 7 * command'.number + 1
    <3> SUFFICES ASSUME Begin PROVE StepsLeft' = 7 * command'.number + 1
      OBVIOUS
    <3>1. command'.number \in Nat /\ pc' = "next" /\ index' = 0
      BY WorkloadAssumption DEF Begin, Arguments
    <3> QED BY <3>1 DEF StepsLeft, StepsHere
  <2> QED BY <2>1, <2>2, ClientIsNearer DEF BringsEndNearer
<1> QED BY <1>1, <1>2, WorkloadInvariant, PTL DEF WorkloadSpec

---------------------------------------------------------------------------
(* Result files: any operations and any collect commands *)

Collecting == todo # Nothing

FileTypes ==
    /\ clock \in 0 .. MaxClock
    /\ current \in Names \cup {Nothing}
    /\ DOMAIN files \subseteq FileNames /\ IsFiniteSet(DOMAIN files)
    /\ ended \in Seq(Endings)
    /\ results \in Seq(Nat) /\ before \in Seq(Nat)
    /\ todo \in (SUBSET FileNames) \cup {Nothing}
    /\ collects \in Nat

(***************************************************************************)
(* A file holds the record of the operation it is named after, and that    *)
(* record was not written over.                                            *)
(***************************************************************************)
FilesHoldRecords ==
    \A f \in DOMAIN files : files[f] # Torn =>
        files[f] \in Survivors /\ ended[files[f]].file = f

(***************************************************************************)
(* collect has appended one line for each file it is through with, and     *)
(* nothing is written meanwhile.                                           *)
(***************************************************************************)
Appended == DOMAIN files \ todo

CollectedSoFar ==
    Collecting =>
        /\ current = Nothing /\ status = "running" /\ todo \subseteq DOMAIN files
        /\ Len(before) + Cardinality(Appended) = Len(results)
        /\ \A f \in Appended :
              /\ files[f] # Torn
              /\ \E k \in Len(before) + 1 .. Len(results) : results[k] = files[f]

(***************************************************************************)
(* A record that collect has still to come to has a line less.             *)
(***************************************************************************)
LinesSoFar ==
    /\ \A i \in Nat : Cardinality(Lines(i)) <= collects
    /\ Collecting => \A f \in todo : files[f] # Torn => Cardinality(Lines(files[f])) < collects

FilesInv ==
    /\ FileTypes /\ FilesHoldRecords /\ NoRecordLost /\ CollectedSoFar /\ LinesSoFar

---------------------------------------------------------------------------
(* Steps that leave the files alone *)

frameFiles == <<files, ended>>

(***************************************************************************)
(* What only depends on the files stays as it is.                          *)
(***************************************************************************)
LEMMA FilesKept ==
    ASSUME FilesInv, UNCHANGED frameFiles
    PROVE  FilesHoldRecords' /\ NoRecordLost'
BY DEF FilesInv, FilesHoldRecords, NoRecordLost, Survivors, Torn, frameFiles

(***************************************************************************)
(* The lines stay as they are while results.json does.                     *)
(***************************************************************************)
LEMMA LinesKept ==
    ASSUME FilesInv, UNCHANGED <<results, files, todo, collects>>
    PROVE  LinesSoFar'
BY DEF FilesInv, LinesSoFar, Lines, Collecting, Torn

LEMMA TickKeeps ==
    ASSUME FilesInv, Tick
    PROVE  FilesInv'
<1>1. FilesHoldRecords' /\ NoRecordLost' /\ LinesSoFar'
  BY FilesKept, LinesKept DEF Tick, frameFiles
<1>2. FileTypes'
  BY ResultFilesAssumption DEF Tick, FilesInv, FileTypes, FileNames
<1>3. CollectedSoFar'
  BY DEF Tick, FilesInv, CollectedSoFar, Collecting, Appended, Torn
<1> QED BY <1>1, <1>2, <1>3 DEF FilesInv

LEMMA EnterKeeps ==
    ASSUME FilesInv, NEW n \in Names, Enter(n)
    PROVE  FilesInv'
<1>1. FilesHoldRecords' /\ NoRecordLost' /\ LinesSoFar'
  BY FilesKept, LinesKept DEF Enter, frameFiles
<1>2. FileTypes'
  BY DEF Enter, FilesInv, FileTypes, FileNames
<1>3. CollectedSoFar'
  BY DEF Enter, CollectedSoFar, Collecting
<1> QED BY <1>1, <1>2, <1>3 DEF FilesInv

---------------------------------------------------------------------------
(* The file of an operation *)

(***************************************************************************)
(* Writing a file keeps the others.                                        *)
(***************************************************************************)
LEMMA WriteFacts ==
    ASSUME NEW f, NEW c, Write(f, c)
    PROVE  /\ DOMAIN files' = DOMAIN files \cup {f}
           /\ files'[f] = c
           /\ \A g \in DOMAIN files : g # f => files'[g] = files[g]
BY DEF Write

(***************************************************************************)
(* An operation that ends takes from the records that are left those of    *)
(* its name and second, if it opens the file, and adds its own, if it      *)
(* writes it.                                                              *)
(***************************************************************************)
LEMMA SurvivorsAfter ==
    ASSUME ended \in Seq(Endings), NEW e \in Endings, ended' = Append(ended, e)
    PROVE  /\ Len(ended) \in Nat /\ Len(ended') = Len(ended) + 1 /\ ended' \in Seq(Endings)
           /\ DOMAIN ended = 1 .. Len(ended)
           /\ ended'[Len(ended')] = e /\ \A i \in DOMAIN ended : ended'[i] = ended[i]
           /\ \A i \in DOMAIN ended : i \in Survivors' <=>
                 i \in Survivors /\ (ended[i].file = e.file => e.save = "unopened")
           /\ Len(ended') \in Survivors' <=> e.save = "written"
           /\ Survivors' \subseteq DOMAIN ended \cup {Len(ended')}
<1>1. /\ Len(ended) \in Nat /\ Len(ended') = Len(ended) + 1 /\ ended' \in Seq(Endings)
      /\ DOMAIN ended = 1 .. Len(ended) /\ DOMAIN ended' = 1 .. Len(ended')
      /\ ended'[Len(ended')] = e /\ \A i \in DOMAIN ended : ended'[i] = ended[i]
  OBVIOUS
<1>2. ASSUME NEW i \in DOMAIN ended
      PROVE  i \in Survivors' <=>
                i \in Survivors /\ (ended[i].file = e.file => e.save = "unopened")
  <2>1. i + 1 .. Len(ended') = (i + 1 .. Len(ended)) \cup {Len(ended')}
    BY <1>1
  <2>2. \A j \in i + 1 .. Len(ended) : ended'[j] = ended[j]
    BY <1>1
  <2>3. i \in DOMAIN ended' /\ ended'[i] = ended[i]
    BY <1>1
  <2> QED BY <1>1, <2>1, <2>2, <2>3 DEF Survivors
<1>3. Len(ended') \in Survivors' <=> e.save = "written"
  <2>1. Len(ended') + 1 .. Len(ended') = {}
    BY <1>1
  <2> QED BY <1>1, <2>1 DEF Survivors
<1>4. Survivors' \subseteq DOMAIN ended \cup {Len(ended')}
  BY <1>1 DEF Survivors
<1> QED BY <1>1, <1>2, <1>3, <1>4

LEMMA LeaveKeeps ==
    ASSUME FilesInv, Leave
    PROVE  FilesInv'
<1>1. PICK save \in {"written", "torn", "unopened"} :
         /\ ended' = Append(ended, [file |-> <<current, clock>>, save |-> save])
         /\ CASE save = "written"  -> Write(FileName, Len(ended'))
              [] save = "torn"     -> Write(FileName, Torn)
              [] save = "unopened" -> UNCHANGED files
  BY DEF Leave
<1> DEFINE f == FileName
           e == [file |-> f, save |-> save]
<1>2. /\ current' = Nothing /\ UNCHANGED <<clock, results, before, todo, status, collects>>
      /\ f \in FileNames /\ e \in Endings /\ e.file = f /\ e.save = save
      /\ ended' = Append(ended, e) /\ ended \in Seq(Endings)
  BY <1>1 DEF Leave, FilesInv, FileTypes, FileName, FileNames, Endings
<1>3. todo = Nothing
  BY DEF Leave, FilesInv, CollectedSoFar, Collecting
<1>4. CollectedSoFar' /\ LinesSoFar'
  BY <1>2, <1>3 DEF FilesInv, CollectedSoFar, LinesSoFar, Lines, Collecting
<1> HIDE DEF f, e
<1> DEFINE n == Len(ended')
<1>5. /\ Len(ended) \in Nat /\ n = Len(ended) + 1 /\ ended' \in Seq(Endings)
      /\ DOMAIN ended = 1 .. Len(ended) /\ n # Torn
      /\ ended'[n] = e /\ \A i \in DOMAIN ended : ended'[i] = ended[i]
      /\ \A i \in DOMAIN ended : i \in Survivors' <=>
            i \in Survivors /\ (ended[i].file = f => save = "unopened")
      /\ n \in Survivors' <=> save = "written"
      /\ Survivors' \subseteq DOMAIN ended \cup {n}
      /\ Survivors \subseteq DOMAIN ended
  BY <1>2, SurvivorsAfter DEF Survivors, Torn
<1> HIDE DEF n
<1>6. CASE save = "unopened"
  <2>1. files' = files /\ Survivors' = Survivors
    BY <1>1, <1>5, <1>6
  <2>2. FileTypes'
    BY <1>2, <1>5, <2>1 DEF FilesInv, FileTypes, FileNames
  <2>3. FilesHoldRecords' /\ NoRecordLost'
    BY <1>5, <2>1 DEF FilesInv, FilesHoldRecords, NoRecordLost, Torn
  <2> QED BY <1>4, <2>2, <2>3 DEF FilesInv
<1>7. CASE save # "unopened"
  <2> DEFINE c == IF save = "written" THEN n ELSE Torn
  <2>1. Write(f, c)
    BY <1>1, <1>7 DEF f, n
  <2>2. /\ DOMAIN files' = DOMAIN files \cup {f}
        /\ files'[f] = c
        /\ \A g \in DOMAIN files : g # f => files'[g] = files[g]
    <3> HIDE DEF c
    <3> QED BY <2>1, WriteFacts
  <2>3. IsFiniteSet(DOMAIN files')
    <3>1. IsFiniteSet(DOMAIN files)
      BY DEF FilesInv, FileTypes
    <3>2. IsFiniteSet(DOMAIN files \cup {f})
      BY <3>1, FS_AddElement
    <3> QED BY <2>2, <3>2
  <2>4. FileTypes'
    BY <1>2, <1>5, <2>2, <2>3 DEF FilesInv, FileTypes, FileNames
  <2>5. FilesHoldRecords'
    <3> SUFFICES ASSUME NEW g \in DOMAIN files', files'[g] # Torn
                 PROVE  files'[g] \in Survivors' /\ ended'[files'[g]].file = g
      BY DEF FilesHoldRecords, Torn
    <3>1. CASE g = f
      BY <1>2, <1>5, <2>2, <3>1
    <3>2. CASE g # f
      <4>1. g \in DOMAIN files /\ files'[g] = files[g]
        BY <2>2, <3>2
      <4>2. files[g] \in Survivors /\ ended[files[g]].file = g
        BY <4>1 DEF FilesInv, FilesHoldRecords, Torn
      <4> QED BY <1>5, <3>2, <4>1, <4>2
    <3> QED BY <3>1, <3>2
  <2>6. NoRecordLost'
    <3> SUFFICES ASSUME NEW i \in Survivors'
                 PROVE  ended'[i].file \in DOMAIN files' /\ files'[ended'[i].file] = i
      BY DEF NoRecordLost
    <3>1. CASE i = n
      BY <1>2, <1>5, <2>2, <3>1
    <3>2. CASE i # n
      <4>1. i \in DOMAIN ended /\ i \in Survivors /\ ended[i].file # f /\ ended'[i] = ended[i]
        BY <1>5, <1>7, <3>2
      <4>2. ended[i].file \in DOMAIN files /\ files[ended[i].file] = i
        BY <4>1 DEF FilesInv, NoRecordLost
      <4> QED BY <2>2, <4>1, <4>2
    <3> QED BY <3>1, <3>2
  <2> QED BY <1>4, <2>4, <2>5, <2>6 DEF FilesInv
<1> QED BY <1>6, <1>7

---------------------------------------------------------------------------
(* collect *)

(***************************************************************************)
(* What a file holds is the number of an operation.                        *)
(***************************************************************************)
LEMMA RecordsAreNumbers ==
    ASSUME FileTypes, FilesHoldRecords
    PROVE  \A f \in DOMAIN files : files[f] # Torn => files[f] \in Nat
<1>1. Survivors \subseteq Nat
  BY DEF Survivors, FileTypes
<1> QED BY <1>1 DEF FilesHoldRecords

(***************************************************************************)
(* The lines of a record are finitely many.                                *)
(***************************************************************************)
LEMMA LinesFinite ==
    ASSUME results \in Seq(Nat), NEW i
    PROVE  IsFiniteSet(Lines(i)) /\ Cardinality(Lines(i)) \in Nat
<1>1. IsFiniteSet(1 .. Len(results)) /\ DOMAIN results = 1 .. Len(results)
  <2>1. Len(results) \in Nat /\ DOMAIN results = 1 .. Len(results)
    OBVIOUS
  <2> QED BY <2>1, FS_Interval
<1>2. Lines(i) \subseteq 1 .. Len(results)
  BY <1>1 DEF Lines
<1> QED BY <1>1, <1>2, FS_Subset, FS_CardinalityType

LEMMA CollectBeginKeeps ==
    ASSUME FilesInv, CollectBegin
    PROVE  FilesInv'
<1>1. FilesHoldRecords' /\ NoRecordLost'
  BY FilesKept DEF CollectBegin, frameFiles
<1>2. FileTypes'
  BY DEF CollectBegin, FilesInv, FileTypes, FileNames
<1>3. Appended' = {}
  BY DEF CollectBegin, Appended
<1>4. Cardinality(Appended') = 0
  BY <1>3, FS_EmptySet
<1>5. Len(before') + 0 = Len(results')
  BY DEF CollectBegin, FilesInv, FileTypes
<1>6. CollectedSoFar'
  BY <1>3, <1>4, <1>5 DEF CollectBegin, CollectedSoFar
<1>7. LinesSoFar'
  <2>1. ASSUME NEW i \in Nat PROVE Cardinality(Lines(i)') < collects'
    <3>1. Lines(i)' = Lines(i) /\ collects' = collects + 1
      BY DEF Lines, CollectBegin
    <3>2. Cardinality(Lines(i)) \in Nat /\ collects \in Nat
      BY LinesFinite DEF FilesInv, FileTypes
    <3>3. Cardinality(Lines(i)) <= collects
      BY DEF FilesInv, LinesSoFar
    <3> QED BY <3>1, <3>2, <3>3
  <2>2. ASSUME NEW i \in Nat PROVE Cardinality(Lines(i)') <= collects'
    <3>1. Cardinality(Lines(i)') \in Nat /\ collects' \in Nat
      BY <1>2, LinesFinite DEF FileTypes, Lines, CollectBegin, FilesInv
    <3> QED BY <2>1, <3>1
  <2>3. \A f \in DOMAIN files : files[f] # Torn => files[f] \in Nat
    BY RecordsAreNumbers DEF FilesInv
  <2> QED BY <2>1, <2>2, <2>3 DEF LinesSoFar, Collecting, CollectBegin, Torn
<1> QED BY <1>1, <1>2, <1>6, <1>7 DEF FilesInv

LEMMA CollectFileKeeps ==
    ASSUME FilesInv, CollectFile
    PROVE  FilesInv'
<1>1. PICK f \in todo : /\ files[f] # Torn
                        /\ results' = Append(results, files[f])
                        /\ todo' = todo \ {f}
  BY DEF CollectFile
<1>2. /\ todo # Nothing
      /\ UNCHANGED <<clock, current, files, ended, before, status, collects>>
  BY DEF CollectFile
<1>3. FilesHoldRecords' /\ NoRecordLost'
  BY <1>2, FilesKept DEF frameFiles
<1>4. /\ current = Nothing /\ status = "running" /\ todo \subseteq DOMAIN files
      /\ todo \subseteq FileNames
      /\ Len(before) + Cardinality(Appended) = Len(results)
      /\ \A g \in Appended :
            /\ files[g] # Torn
            /\ \E k \in Len(before) + 1 .. Len(results) : results[k] = files[g]
  BY <1>2 DEF FilesInv, CollectedSoFar, Collecting, FileTypes
<1>5. \A g \in todo : files[g] # Torn => files[g] \in Nat
  BY <1>4, RecordsAreNumbers DEF FilesInv
<1>6. /\ Len(results) \in Nat /\ Len(before) \in Nat /\ results' \in Seq(Nat)
      /\ Len(results') = Len(results) + 1
      /\ results'[Len(results) + 1] = files[f]
      /\ \A k \in 1 .. Len(results) : results'[k] = results[k]
  BY <1>1, <1>5 DEF FilesInv, FileTypes
<1>7. FileTypes'
  <2>1. todo' \in SUBSET FileNames
    BY <1>1, <1>4
  <2> QED BY <1>2, <1>6, <2>1 DEF FilesInv, FileTypes, FileNames
<1>8. Appended' = Appended \cup {f} /\ f \notin Appended
  BY <1>1, <1>2, <1>4 DEF Appended
<1>9. IsFiniteSet(Appended) /\ Cardinality(Appended) \in Nat
  BY FS_Subset, FS_CardinalityType DEF FilesInv, FileTypes, Appended
<1>10. Cardinality(Appended') = Cardinality(Appended) + 1
  BY <1>8, <1>9, FS_AddElement
<1>11. Len(before') + Cardinality(Appended') = Len(results')
  <2>1. Len(before') = Len(before)
    BY <1>2
  <2>2. Len(before) + Cardinality(Appended) = Len(results)
    BY <1>4
  <2>3. Len(results') = Len(results) + 1 /\ Len(results) \in Nat /\ Len(before) \in Nat
    BY <1>6
  <2> QED BY <2>1, <2>2, <2>3, <1>9, <1>10
<1>12. ASSUME NEW g \in Appended'
       PROVE  /\ files'[g] # Torn
              /\ \E k \in Len(before') + 1 .. Len(results') : results'[k] = files'[g]
  <2>1. CASE g = f
    <3>1. Len(results) + 1 \in Len(before') + 1 .. Len(results')
      BY <1>2, <1>4, <1>6, <1>9
    <3> QED BY <1>1, <1>2, <1>6, <2>1, <3>1
  <2>2. CASE g \in Appended
    <3>1. PICK k \in Len(before) + 1 .. Len(results) : results[k] = files[g]
      BY <1>4, <2>2
    <3>2. k \in 1 .. Len(results) /\ k \in Len(before') + 1 .. Len(results')
      BY <1>2, <1>6, <3>1
    <3> QED BY <1>2, <1>4, <1>6, <2>2, <3>1, <3>2
  <2> QED BY <1>8, <1>12, <2>1, <2>2
<1>13. CollectedSoFar'
  BY <1>1, <1>2, <1>4, <1>11, <1>12 DEF CollectedSoFar, Torn
<1>14. ASSUME NEW i \in Nat
       PROVE  /\ i # files[f] => Lines(i)' = Lines(i)
              /\ i = files[f] => Cardinality(Lines(i)') = Cardinality(Lines(i)) + 1
  <2>1. DOMAIN results = 1 .. Len(results) /\ DOMAIN results' = 1 .. Len(results) + 1
    BY <1>6 DEF FilesInv, FileTypes
  <2>2. CASE i # files[f]
    BY <1>6, <2>1, <2>2 DEF Lines
  <2>3. CASE i = files[f]
    <3>1. Lines(i)' = Lines(i) \cup {Len(results) + 1} /\ Len(results) + 1 \notin Lines(i)
      BY <1>6, <2>1, <2>3 DEF Lines
    <3> QED BY <2>3, <3>1, LinesFinite, FS_AddElement DEF FilesInv, FileTypes
  <2> QED BY <2>2, <2>3
<1>15. LinesSoFar'
  <2>1. collects' = collects /\ collects \in Nat /\ files' = files /\ files[f] \in Nat
    BY <1>1, <1>2, <1>5 DEF FilesInv, FileTypes
  <2>2. ASSUME NEW i \in Nat PROVE Cardinality(Lines(i)') <= collects
    <3>1. Cardinality(Lines(i)) \in Nat /\ Cardinality(Lines(i)) <= collects
      BY LinesFinite DEF FilesInv, FileTypes, LinesSoFar
    <3>2. i = files[f] => Cardinality(Lines(i)) < collects
      BY <1>1, <1>2 DEF FilesInv, LinesSoFar, Collecting
    <3> QED BY <1>14, <2>1, <3>1, <3>2
  <2>3. ASSUME NEW g \in todo', files[g] # Torn
        PROVE  Cardinality(Lines(files[g])') < collects
    <3>1. g \in todo /\ g # f /\ files[g] \in Nat
      BY <1>1, <1>5, <2>3
    <3>2. files[g] # files[f]
      BY <1>1, <1>4, <2>3, <3>1 DEF FilesInv, FilesHoldRecords
    <3>3. Lines(files[g])' = Lines(files[g])
      BY <1>14, <2>1, <3>1, <3>2 DEF Lines
    <3>4. Cardinality(Lines(files[g])) < collects
      BY <1>2, <2>3, <3>1 DEF FilesInv, LinesSoFar, Collecting
    <3> QED BY <3>3, <3>4
  <2> QED BY <2>1, <2>2, <2>3 DEF LinesSoFar, Torn
<1> QED BY <1>3, <1>7, <1>13, <1>15 DEF FilesInv

LEMMA CollectOverKeeps ==
    ASSUME FilesInv, CollectTorn \/ CollectEnd
    PROVE  FilesInv'
<1>1. todo' = Nothing /\ UNCHANGED <<clock, current, files, ended, results, before, collects>>
  BY DEF CollectTorn, CollectEnd
<1>2. FilesHoldRecords' /\ NoRecordLost'
  BY <1>1, FilesKept DEF frameFiles
<1>3. FileTypes'
  BY <1>1 DEF FilesInv, FileTypes, FileNames
<1>4. CollectedSoFar' /\ LinesSoFar'
  BY <1>1 DEF FilesInv, CollectedSoFar, LinesSoFar, Lines, Collecting
<1> QED BY <1>2, <1>3, <1>4 DEF FilesInv

---------------------------------------------------------------------------
(* Theorems about the result files *)

LEMMA FilesInitially ==
    ASSUME FilesInit
    PROVE  FilesInv
<1>1. /\ DOMAIN files = {} /\ IsFiniteSet({}) /\ Cardinality({}) = 0
      /\ Survivors = {} /\ \A i : Lines(i) = {}
  BY FS_EmptySet DEF FilesInit, Survivors, Lines
<1>2. FileTypes
  BY <1>1, ResultFilesAssumption DEF FilesInit, FileTypes
<1>3. FilesHoldRecords /\ CollectedSoFar /\ NoRecordLost
  BY <1>1 DEF FilesInit, FilesHoldRecords, CollectedSoFar, Collecting, NoRecordLost
<1>4. LinesSoFar
  BY <1>1 DEF FilesInit, LinesSoFar, Collecting
<1> QED BY <1>2, <1>3, <1>4 DEF FilesInv

LEMMA FilesStep ==
    ASSUME FilesInv, [FilesNext]_filesVars
    PROVE  FilesInv'
<1>1. CASE UNCHANGED filesVars
  <2> USE <1>1 DEF filesVars
  <2>1. FilesHoldRecords' /\ NoRecordLost' /\ LinesSoFar'
    BY FilesKept, LinesKept DEF frameFiles
  <2>2. FileTypes' /\ CollectedSoFar'
    BY DEF FilesInv, FileTypes, CollectedSoFar, Collecting, Appended, Torn, FileNames
  <2> QED BY <2>1, <2>2 DEF FilesInv
<1>2. CASE FilesNext
  BY <1>2, TickKeeps, EnterKeeps, LeaveKeeps, CollectBeginKeeps, CollectFileKeeps,
     CollectOverKeeps DEF FilesNext
<1> QED BY <1>1, <1>2

(***************************************************************************)
(* The inductive invariant of the result directory: the file of a name and *)
(* a second holds the record of the last operation that opened it.         *)
(***************************************************************************)
THEOREM FilesInvariant == FilesSpec => []FilesInv
<1>1. FilesInit => FilesInv
  BY FilesInitially
<1>2. FilesInv /\ [FilesNext]_filesVars => FilesInv'
  BY FilesStep
<1> QED BY <1>1, <1>2, PTL DEF FilesSpec

(***************************************************************************)
(* OperationContext.__exit__ overwrites the record of an earlier operation *)
(* only if that one has the same name and ended in the same second, for    *)
(* any number of operations of any names and any duration.                 *)
(***************************************************************************)
THEOREM NoRecordIsLost == FilesSpec => []NoRecordLost
<1>1. FilesInv => NoRecordLost
  BY DEF FilesInv
<1> QED BY <1>1, FilesInvariant, PTL

(***************************************************************************)
(* No operation has more lines in results.json than there were collects,   *)
(* for any number of files, of collects and of failures among them.        *)
(***************************************************************************)
THEOREM CollectsCountOnce == FilesSpec => []LinesPerCollect
<1>1. FilesInv => LinesPerCollect
  BY DEF FilesInv, FileTypes, LinesSoFar, LinesPerCollect
<1> QED BY <1>1, FilesInvariant, PTL

(***************************************************************************)
(* When no file is torn, the files are in one-to-one correspondence with   *)
(* the records that are left.                                              *)
(***************************************************************************)
LEMMA FilesCountRecords ==
    ASSUME FilesInv, \A f \in DOMAIN files : files[f] # Torn
    PROVE  Cardinality(DOMAIN files) = Cardinality(Survivors)
<1> DEFINE h == [f \in DOMAIN files |-> files[f]]
<1>1. h \in [DOMAIN files -> Survivors]
  BY DEF FilesInv, FilesHoldRecords
<1>2. \A f, g \in DOMAIN files : h[f] = h[g] => f = g
  BY DEF FilesInv, FilesHoldRecords
<1>3. \A i \in Survivors : \E f \in DOMAIN files : h[f] = i
  BY DEF FilesInv, NoRecordLost
<1>4. h \in Bijection(DOMAIN files, Survivors)
  <2> HIDE DEF h
  <2> QED BY <1>1, <1>2, <1>3 DEF Bijection, Injection, Surjection, IsInjective
<1>5. ExistsBijection(DOMAIN files, Survivors)
  BY <1>4 DEF ExistsBijection
<1> QED BY <1>5, FS_Bijection DEF FilesInv, FileTypes

LEMMA CollectsAllStep ==
    ASSUME FilesInv, [FilesNext]_filesVars, todo # Nothing, status' = "success"
    PROVE  /\ \A i \in Survivors : \E k \in DOMAIN New : New[k] = i
           /\ Len(New) = Cardinality(Survivors)
<1> DEFINE n == Len(results) - Len(before)
<1>1. /\ status = "running"
      /\ Len(before) + Cardinality(Appended) = Len(results)
      /\ \A f \in Appended :
            /\ files[f] # Torn
            /\ \E k \in Len(before) + 1 .. Len(results) : results[k] = files[f]
  BY DEF FilesInv, CollectedSoFar, Collecting
<1>2. CollectEnd
  BY <1>1 DEF FilesNext, filesVars, Tick, Enter, Leave, CollectBegin, CollectFile,
              CollectTorn
<1>3. Appended = DOMAIN files
  BY <1>2 DEF CollectEnd, Appended
<1>4. /\ Len(before) \in Nat /\ Len(results) \in Nat /\ results \in Seq(Nat)
      /\ Cardinality(Appended) \in Nat
  BY <1>3, FS_CardinalityType DEF FilesInv, FileTypes
<1>5. /\ Len(New) = n
      /\ DOMAIN New = 1 .. n
      /\ \A k \in 1 .. n : New[k] = results[Len(before) + k]
  BY <1>1, <1>4, SMTT(30) DEF New
<1>6. Len(New) = Cardinality(Survivors)
  <2>1. n = Cardinality(Appended)
    BY <1>1, <1>4
  <2>2. Cardinality(DOMAIN files) = Cardinality(Survivors)
    BY <1>1, <1>3, FilesCountRecords
  <2> QED BY <1>3, <1>5, <2>1, <2>2
<1>7. ASSUME NEW i \in Survivors
      PROVE  \E k \in DOMAIN New : New[k] = i
  <2>1. PICK f \in DOMAIN files : files[f] = i
    BY <1>7 DEF FilesInv, NoRecordLost
  <2>2. PICK k \in Len(before) + 1 .. Len(results) : results[k] = i
    BY <1>1, <1>3, <2>1
  <2>3. k - Len(before) \in 1 .. n /\ Len(before) + (k - Len(before)) = k
    BY <1>4, <2>2
  <2>4. New[k - Len(before)] = i
    BY <1>5, <2>2, <2>3
  <2> QED BY <1>5, <2>3, <2>4
<1> QED BY <1>6, <1>7

(***************************************************************************)
(* A collect_benchmark_results that succeeds has appended every record     *)
(* that is left to results.json, each once, for any number of files and in *)
(* whichever order glob returns them.                                      *)
(***************************************************************************)
THEOREM CollectsEveryRecord == FilesSpec => SuccessCollectsAll
<1>1. FilesInv /\ [FilesNext]_filesVars => [CollectedAll]_filesVars
  <2> SUFFICES ASSUME FilesInv, [FilesNext]_filesVars, todo # Nothing, status' = "success"
               PROVE  CollectedAll
    BY DEF CollectedAll
  <2> QED BY CollectsAllStep DEF CollectedAll
<1> QED BY <1>1, FilesInvariant, PTL DEF FilesSpec, SuccessCollectsAll
===========================================================================
