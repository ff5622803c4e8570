----------------------------- MODULE Manifests -----------------------------
(***************************************************************************)
(* Applying and deleting the objects of a manifest source with             *)
(* KubernetesClient (clients/kubernetes_client.py): apply_manifest_from_*  *)
(* goes through the documents one by one and patches what exists already,  *)
(* delete_manifest_from_* goes through them backwards.  Both stop at the   *)
(* first error.  Calls follow each other on the same source, as the        *)
(* benchmarks and their retries make them.                                 *)
(***************************************************************************)
EXTENDS Naturals, Sequences

CONSTANTS
    Sources,        \* sequences of documents, List documents expanded
    Namespaces,     \* the namespaces a caller may pass
    NoNamespace,    \* no namespace argument, or none in the document
    MaxCalls        \* bound on the calls

(***************************************************************************)
(* A document: its kind is namespaced, cluster-scoped, or skipped (not     *)
(* supported, or a FlowSchema of the exempt level), or it has no name.     *)
(***************************************************************************)
Scopes    == {"namespaced", "cluster", "skipped", "nameless"}
Documents == [scope: Scopes, namespace: Namespaces \cup {NoNamespace}]

ASSUME ManifestAssumption ==
    /\ Sources \subseteq Seq(Documents)
    /\ NoNamespace \notin Namespaces /\ "default" \in Namespaces
    /\ MaxCalls \in Nat

VARIABLES
    source,     \* the documents
    override,   \* the namespace argument of the calls, or NoNamespace
    object,     \* the object of every document
    call,       \* the call under way, with ignore_not_found
    at,         \* the document it is at
    conflict,   \* creating the object was answered with 409
    outcome,    \* how the last call ended
    cause,      \* why it failed
    clean,      \* history: no apply has begun while an object was terminating
    calls

vars == <<source, override, object, call, at, conflict, outcome, cause, clean, calls>>

TypeOK ==
    /\ source \in Sources
    /\ override \in Namespaces \cup {NoNamespace}
    /\ object \in [1 .. Len(source) -> {"absent", "live", "terminating"}]
    /\ call \in {"none", "apply", "delete", "delete_strict"}
    /\ at \in 0 .. Len(source) + 1
    /\ conflict \in BOOLEAN
    /\ outcome \in {"none", "applied", "deleted", "error"}
    /\ cause \in {"none", "api", "gone", "no_namespace", "no_name", "not_found", "source"}
    /\ clean \in BOOLEAN
    /\ calls \in 0 .. MaxCalls

Init ==
    /\ source \in Sources
    /\ override \in Namespaces \cup {NoNamespace}
    /\ object = [i \in 1 .. Len(source) |-> "absent"]
    /\ call = "none" /\ at = 0 /\ conflict = FALSE
    /\ outcome = "none" /\ cause = "none"
    /\ clean = TRUE
    /\ calls = 0

Real(d) == d.scope \in {"namespaced", "cluster"}

End(how, why) ==
    /\ call' = "none"
    /\ outcome' = how /\ cause' = why
    /\ conflict' = FALSE
    /\ UNCHANGED <<source, override, at, clean, calls>>

Continue(i) ==
    /\ at' = i
    /\ conflict' = FALSE
    /\ UNCHANGED <<source, override, call, outcome, cause, clean, calls>>

---------------------------------------------------------------------------
(* apply_manifest_from_file, apply_manifest_from_url *)

(***************************************************************************)
(* The documents are loaded and List documents expanded.                   *)
(***************************************************************************)
StartApply ==
    /\ call = "none" /\ calls < MaxCalls
    /\ call' = "apply" /\ at' = 1
    /\ clean' = (clean /\ \A i \in 1 .. Len(source) : object[i] # "terminating")
    /\ calls' = calls + 1
    /\ outcome' = "none" /\ cause' = "none"
    /\ UNCHANGED <<source, override, object, conflict>>

(***************************************************************************)
(* A source that cannot be fetched, read or parsed, or a directory without *)
(* YAML files, ends either call before it has changed anything.            *)
(***************************************************************************)
SourceFails ==
    /\ call = "none" /\ calls < MaxCalls
    /\ calls' = calls + 1
    /\ outcome' = "error" /\ cause' = "source"
    /\ UNCHANGED <<source, override, object, call, at, conflict, clean>>

(* Mutant: an object that cannot be created is passed over.                *)
ApplySkipsErrors ==
    /\ call = "apply" /\ at <= Len(source) /\ ~conflict
    /\ Continue(at + 1)
    /\ \/ object' = [object EXCEPT ![at] = "live"]
       \/ UNCHANGED object

(***************************************************************************)
(* _apply_single_manifest.  A call that fails may have created the object  *)
(* all the same.                                                           *)
(***************************************************************************)
ApplySingle ==
    /\ call = "apply" /\ at <= Len(source) /\ ~conflict
    /\ LET d == source[at]
       IN \/ /\ d.scope = "skipped"
             /\ Continue(at + 1) /\ UNCHANGED object
          \/ /\ Real(d) /\ object[at] = "absent"
             /\ object' = [object EXCEPT ![at] = "live"]
             /\ Continue(at + 1) \/ End("error", "api")
          \/ /\ Real(d) /\ object[at] # "absent"
             /\ conflict' = TRUE
             /\ UNCHANGED <<source, override, object, call, at, outcome, cause, clean, calls>>
          \/ d.scope = "nameless" /\ End("error", "no_name") /\ UNCHANGED object
          \/ Real(d) /\ End("error", "api") /\ UNCHANGED object

(***************************************************************************)
(* _update_single_manifest after the 409, with the namespace that the      *)
(* creation resolved, so that it never lacks one.  The object may be on    *)
(* its way out, which a patch does not notice, or gone by now.             *)
(***************************************************************************)
UpdateSingle ==
    /\ call = "apply" /\ conflict
    /\ \/ object[at] # "absent" /\ Continue(at + 1)
       \/ object[at] = "absent" /\ End("error", "gone")
       \/ End("error", "api")
    /\ UNCHANGED object

ApplyEnds ==
    /\ call = "apply" /\ at > Len(source)
    /\ End("applied", "none")
    /\ UNCHANGED object

---------------------------------------------------------------------------
(* delete_manifest_from_file, delete_manifest_from_url *)

StartDelete ==
    /\ call = "none" /\ calls < MaxCalls
    /\ call' \in {"delete", "delete_strict"} /\ at' = Len(source)
    /\ calls' = calls + 1
    /\ outcome' = "none" /\ cause' = "none"
    /\ UNCHANGED <<source, override, object, conflict, clean>>

(***************************************************************************)
(* _delete_single_manifest needs a namespace for a namespaced kind, from   *)
(* the caller or from the document.  Applying falls back to "default",     *)
(* deleting does not.                                                      *)
(***************************************************************************)
Deletable(d) ==
    \/ d.scope = "cluster"
    \/ d.scope = "namespaced" /\ (override # NoNamespace \/ d.namespace # NoNamespace)

(***************************************************************************)
(* The deletion itself is in the foreground: the object is terminating     *)
(* until its dependents are gone.                                          *)
(***************************************************************************)
DeleteObject ==
    \/ /\ object[at] # "absent"
       /\ object' = [object EXCEPT ![at] = "terminating"]
       /\ Continue(at - 1) \/ End("error", "api")
    \/ /\ object[at] = "absent"
       /\ IF call = "delete" THEN Continue(at - 1) ELSE End("error", "not_found")
       /\ UNCHANGED object
    \/ End("error", "api") /\ UNCHANGED object

(* Mutant: an object that cannot be deleted is passed over.                *)
DeleteGoesOn ==
    /\ call \in {"delete", "delete_strict"} /\ at > 0
    /\ Continue(at - 1)
    /\ \/ object[at] # "absent" /\ object' = [object EXCEPT ![at] = "terminating"]
       \/ UNCHANGED object

DeleteSingle ==
    /\ call \in {"delete", "delete_strict"} /\ at > 0
    /\ LET d == source[at]
       IN \/ /\ d.scope \in {"skipped", "nameless"}
             /\ Continue(at - 1) /\ UNCHANGED object
          \/ Deletable(d) /\ DeleteObject
          \/ /\ d.scope = "namespaced" /\ ~Deletable(d)
             /\ End("error", "no_namespace") /\ UNCHANGED object

DeleteEnds ==
    /\ call \in {"delete", "delete_strict"} /\ at = 0
    /\ End("deleted", "none")
    /\ UNCHANGED object

---------------------------------------------------------------------------
(***************************************************************************)
(* The API server removes an object once its dependents are gone.          *)
(***************************************************************************)
Vanishes ==
    /\ \E i \in 1 .. Len(source) :
          /\ object[i] = "terminating"
          /\ object' = [object EXCEPT ![i] = "absent"]
    /\ UNCHANGED <<source, override, call, at, conflict, outcome, cause, clean, calls>>

Next == \/ StartApply \/ SourceFails \/ ApplySingle \/ UpdateSingle \/ ApplyEnds
        \/ StartDelete \/ DeleteSingle \/ DeleteEnds
        \/ Vanishes

Spec == Init /\ [][Next]_vars

---------------------------------------------------------------------------
(* Properties *)

(***************************************************************************)
(* "Delete all manifests in reverse order (to handle dependencies)": an    *)
(* object is alive only if those of the documents before it are, at every  *)
(* moment of every call and however earlier calls ended, as long as every  *)
(* apply waited until the objects deleted before it were gone.             *)
(***************************************************************************)
LiveIsPrefix ==
    clean => \A i, j \in 1 .. Len(source) :
                (i < j /\ Real(source[i]) /\ object[j] = "live") => object[i] = "live"


(***************************************************************************)
(* A call that returned did its work: after an apply every object is alive *)
(* although it only patches those that exist, unless it met a terminating  *)
(* one; after a delete none is.                                            *)
(***************************************************************************)
ReturnMeansDone ==
    /\ (outcome = "applied" /\ clean) =>
           \A i \in 1 .. Len(source) : Real(source[i]) => object[i] = "live"
    /\ outcome = "deleted" => \A i \in 1 .. Len(source) : object[i] # "live"

===========================================================================
