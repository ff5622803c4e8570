----------------------------- MODULE Pipelines -----------------------------
(***************************************************************************)
(* pipelines/pipelines.py disables the scheduled pipelines that do not run *)
(* on main or skip resource management.  It first reads every definition   *)
(* and decides, then puts the changed definitions back one by one, while   *)
(* their owners go on editing them.                                        *)
(***************************************************************************)
EXTENDS Naturals, Sequences, FiniteSets, SequencesExt

CONSTANTS
    Ids,        \* the pipelines
    Excluded,   \* --exclude-pipelines
    MaxEdits,   \* bound on the edits of the owners
    MaxRuns     \* bound on the runs of the script

ASSUME PipelinesAssumption ==
    IsFiniteSet(Ids) /\ Excluded \subseteq Ids /\ MaxEdits \in Nat /\ MaxRuns \in Nat

VARIABLES
    server,     \* the definitions Azure DevOps holds
    branch,     \* where the last scheduled build of six hours ran
    wanted,     \* history: the SKIP_RESOURCE_MANAGEMENT every owner set last
    edits,      \* number of edits so far
    pc,         \* "idle", "collect" or "disable"
    todo,       \* scheduled_pipelines still to look at: id and branch
    chosen,     \* pipelines_to_disable: the definitions as they were read
    byScript,   \* history: what this run disabled
    quiet,      \* history: no owner edited a definition during this run
    unread,     \* history: this run could not read a definition
    listed,     \* history: the builds this run was told
    exit,       \* exit code of the last run, 2 before the first ends
    runs

script == <<pc, todo, chosen, byScript, unread, listed, exit, runs>>
vars   == <<server, branch, wanted, edits, quiet,
            pc, todo, chosen, byScript, unread, listed, exit, runs>>

Branches    == {"main", "other", "none"}
Definitions == [id : Ids, queue : {"enabled", "disabled"}, skip : BOOLEAN,
                revision : 0 .. MaxEdits + MaxRuns]
Builds      == Ids \X {"main", "other"}

TypeOK ==
    /\ server \in [Ids -> Definitions] /\ \A i \in Ids : server[i].id = i
    /\ branch \in [Ids -> Branches]
    /\ wanted \in [Ids -> BOOLEAN]
    /\ edits \in 0 .. MaxEdits
    /\ pc \in {"idle", "collect", "disable"}
    /\ todo \in Seq(Builds) /\ chosen \in Seq(Definitions)
    /\ byScript \subseteq Ids /\ listed \subseteq Builds
    /\ quiet \in BOOLEAN /\ unread \in BOOLEAN
    /\ exit \in 0 .. 2
    /\ runs \in 0 .. MaxRuns

Init ==
    /\ \E skips \in [Ids -> BOOLEAN] :
        /\ server = [i \in Ids |-> [id |-> i, queue |-> "enabled",
                                    skip |-> skips[i], revision |-> 0]]
        /\ wanted = skips
    /\ branch \in [Ids -> Branches]
    /\ edits = 0 /\ quiet = TRUE
    /\ pc = "idle" /\ todo = <<>> /\ chosen = <<>>
    /\ byScript = {} /\ unread = FALSE /\ listed = {} /\ exit = 2 /\ runs = 0

---------------------------------------------------------------------------
(* The first pass *)

(* Mutant: the exclusion is looked at last.                                *)
ShouldDisableSkipFirst(d, b) == d.skip \/ (d.id \notin Excluded /\ b # "main")

(***************************************************************************)
(* should_disable_pipeline.                                                *)
(***************************************************************************)
ShouldDisable(d, b) == d.id \notin Excluded /\ (d.skip \/ b # "main")

(***************************************************************************)
(* get_scheduled_pipelines: the last scheduled build of each definition.   *)
(***************************************************************************)
Scheduled == {<<i, branch[i]>> : i \in {j \in Ids : branch[j] # "none"}}

Exit(code) == pc' = "idle" /\ exit' = code /\ todo' = <<>> /\ chosen' = <<>>

Begin ==
    /\ pc = "idle" /\ runs < MaxRuns
    /\ runs' = runs + 1
    /\ byScript' = {} /\ chosen' = <<>> /\ quiet' = TRUE /\ unread' = FALSE
    /\ \/ /\ pc' = "collect" /\ todo' \in SetToSeqs(Scheduled) /\ listed' = Scheduled
          /\ UNCHANGED exit
       \/ Exit(1) /\ listed' = {}
    /\ UNCHANGED <<server, branch, wanted, edits>>

Collect ==
    /\ pc = "collect" /\ todo # <<>>
    /\ LET d == server[Head(todo)[1]]
       IN chosen' = IF ShouldDisable(d, Head(todo)[2]) /\ d.queue # "disabled"
                    THEN Append(chosen, d) ELSE chosen
    /\ todo' = Tail(todo)
    /\ UNCHANGED <<server, branch, wanted, edits, quiet, pc, byScript, unread, listed, exit, runs>>

(* Mutant: a definition that cannot be read ends the first pass only.      *)
CollectFailsGoesOn ==
    /\ pc = "collect" /\ todo # <<>>
    /\ pc' = "disable" /\ todo' = <<>> /\ exit' = 1 /\ unread' = TRUE
    /\ UNCHANGED <<server, branch, wanted, edits, quiet, chosen, byScript, listed, runs>>

CollectFails ==
    /\ pc = "collect" /\ todo # <<>>
    /\ Exit(1) /\ unread' = TRUE
    /\ UNCHANGED <<server, branch, wanted, edits, quiet, byScript, listed, runs>>

CollectEnds ==
    /\ pc = "collect" /\ todo = <<>>
    /\ pc' = "disable"
    /\ UNCHANGED <<server, branch, wanted, edits, quiet, todo, chosen, byScript, unread, listed, exit, runs>>

---------------------------------------------------------------------------
(* The second pass *)

(* Mutant: the definition is put back whatever became of it.               *)
PutForced(d) ==
    server' = [server EXCEPT ![d.id] = [d EXCEPT !.queue = "disabled",
                                                 !.revision = server[d.id].revision + 1]]

(***************************************************************************)
(* disable_pipeline puts the whole definition; the service takes it only   *)
(* with the revision it has.                                               *)
(***************************************************************************)
Put(d) ==
    /\ server[d.id].revision = d.revision
    /\ server' = [server EXCEPT ![d.id] = [d EXCEPT !.queue = "disabled",
                                                    !.revision = @ + 1]]

Disable ==
    /\ pc = "disable" /\ chosen # <<>>
    /\ Put(Head(chosen))
    /\ chosen' = Tail(chosen)
    /\ byScript' = byScript \cup {Head(chosen).id}
    /\ UNCHANGED <<branch, wanted, edits, quiet, pc, todo, unread, listed, exit, runs>>

(* Mutant: the next pipeline is tried and the failure forgotten.           *)
DisableFailsGoesOn ==
    /\ pc = "disable" /\ chosen # <<>>
    /\ chosen' = Tail(chosen)
    /\ UNCHANGED <<server, branch, wanted, edits, quiet, pc, todo, byScript, unread, listed, exit, runs>>

(***************************************************************************)
(* The put is refused, or done and its answer lost: the others stay as     *)
(* they are.                                                               *)
(***************************************************************************)
DisableFails ==
    /\ pc = "disable" /\ chosen # <<>>
    /\ \/ UNCHANGED <<server, byScript>>
       \/ Put(Head(chosen)) /\ byScript' = byScript \cup {Head(chosen).id}
    /\ Exit(1)
    /\ UNCHANGED <<branch, wanted, edits, quiet, unread, listed, runs>>

DisableEnds ==
    /\ pc = "disable" /\ chosen = <<>>
    /\ Exit(0)
    /\ UNCHANGED <<server, branch, wanted, edits, quiet, byScript, unread, listed, runs>>

---------------------------------------------------------------------------
(* Azure DevOps and the owners *)

Edit(i) ==
    /\ edits < MaxEdits
    /\ edits' = edits + 1
    /\ quiet' = FALSE
    /\ \E skip \in BOOLEAN, queue \in {"enabled", "disabled"} :
        /\ server' = [server EXCEPT ![i].skip = skip, ![i].queue = queue,
                                    ![i].revision = @ + 1]
        /\ wanted' = [wanted EXCEPT ![i] = skip]
    /\ UNCHANGED <<branch, script>>

ScheduledBuild(i) ==
    /\ edits < MaxEdits
    /\ edits' = edits + 1
    /\ server[i].queue = "enabled"
    /\ \E b \in {"main", "other"} : branch' = [branch EXCEPT ![i] = b]
    /\ UNCHANGED <<server, wanted, quiet, script>>

Next ==
    \/ Begin \/ Collect \/ CollectFails \/ CollectEnds
    \/ Disable \/ DisableFails \/ DisableEnds
    \/ \E i \in Ids : Edit(i) \/ ScheduledBuild(i)

Spec == Init /\ [][Next]_vars

---------------------------------------------------------------------------
(* Properties *)

(***************************************************************************)
(* What an owner set while the script held an older copy of the definition *)
(* is never put back to what it was.                                       *)
(***************************************************************************)
EditsSurvive == \A i \in Ids : server[i].skip = wanted[i]

(***************************************************************************)
(* A run that exits with 0 while nobody edited has disabled every pipeline *)
(* it was told of that skips resource management or ran off main, and no   *)
(* other.                                                                  *)
(***************************************************************************)
ExitZeroIsComplete ==
    [][(pc = "disable" /\ exit' = 0 /\ pc' = "idle" /\ quiet) =>
         \A b \in listed :
            LET d == server[b[1]]
            IN /\ (b[1] \notin Excluded /\ (d.skip \/ b[2] = "other")) => d.queue = "disabled"
               /\ b[1] \in byScript => b[1] \notin Excluded /\ (d.skip \/ b[2] = "other")]_vars

(***************************************************************************)
(* A run that cannot read a definition disables nothing, also not what it  *)
(* had chosen before.                                                      *)
(***************************************************************************)
UnreadMeansUntouched == unread => byScript = {}

(***************************************************************************)
(* The script never changes an excluded pipeline, whatever its variables   *)
(* say.                                                                    *)
(***************************************************************************)
ExcludedIsUntouched == byScript \cap Excluded = {}

===========================================================================
