---------------------------- MODULE ResultFiles ----------------------------
(***************************************************************************)
(* How the records of measured operations reach results.json.  Every       *)
(* operation leaves a file named after it and the second it ended in       *)
(* (crud/operation.py); the collect command of crud/main.py appends one    *)
(* line per file, and dies at a file that is no JSON.                      *)
(***************************************************************************)
EXTENDS Naturals, Sequences, FiniteSets

CONSTANTS
    Names,          \* names of operations
    MaxClock,       \* bound on the clock
    MaxOps,         \* bound on the operations
    MaxCollects,    \* bound on the collect commands
    Nothing

FileNames == Names \X (0 .. MaxClock)
Torn      == 0    \* a file that was opened and not written
Contents  == (1 .. MaxOps) \cup {Torn}
Endings   == [file : FileNames, save : {"written", "torn", "unopened"}]

(***************************************************************************)
(* What is assumed of the constants; Nothing is a value of its own.        *)
(***************************************************************************)
ASSUME ResultFilesAssumption ==
    /\ {MaxClock, MaxOps, MaxCollects} \subseteq Nat
    /\ \A s \in SUBSET FileNames : Nothing # s
    /\ Nothing \notin Names

VARIABLES
    clock,      \* seconds
    current,    \* name of the operation being measured
    files,      \* the JSON files of the result directory but results.json
    ended,      \* history: name, second and saving of every operation that ended
    results,    \* the lines of results.json
    before,     \* history: those lines when the command started
    todo,       \* the files collect has still to read, Nothing outside of it
    status,     \* of the last collect
    collects

filesVars == <<clock, current, files, ended, results, before, todo, status, collects>>

FilesTypeOK ==
    /\ clock \in 0 .. MaxClock
    /\ current \in Names \cup {Nothing}
    /\ DOMAIN files \subseteq FileNames /\ \A f \in DOMAIN files : files[f] \in Contents
    /\ ended \in Seq(Endings) /\ Len(ended) <= MaxOps
    /\ results \in Seq(1 .. MaxOps)
    /\ Len(before) <= Len(results) /\ before = SubSeq(results, 1, Len(before))
    /\ todo \in (SUBSET FileNames) \cup {Nothing}
    /\ status \in {"none", "running", "success", "failure"}
    /\ collects \in 0 .. MaxCollects

FilesInit ==
    /\ clock = 0 /\ current = Nothing
    /\ files = [f \in {} |-> 0]
    /\ ended = <<>>
    /\ results = <<>> /\ before = <<>>
    /\ todo = Nothing /\ status = "none" /\ collects = 0

---------------------------------------------------------------------------
(* Operations *)

Tick ==
    /\ clock < MaxClock
    /\ clock' = clock + 1
    /\ UNCHANGED <<current, files, ended, results, before, todo, status, collects>>

Enter(n) ==
    /\ current = Nothing /\ todo = Nothing /\ Len(ended) < MaxOps
    /\ current' = n
    /\ UNCHANGED <<clock, files, ended, results, before, todo, status, collects>>

Write(f, content) == files' = [g \in DOMAIN files \cup {f} |-> IF g = f THEN content ELSE files[g]]

(* Mutant: the file is named after the operation only.                     *)
FileNameUntimed == <<current, 0>>

FileName == <<current, clock>>

(***************************************************************************)
(* __exit__ writes the file, over one of that name if there is one.  An    *)
(* error there is only logged: the file was not opened, or opened, which   *)
(* empties it, and not written.  An operation may end in the second it     *)
(* began in, as a step does whose first read raises.                       *)
(***************************************************************************)
Leave ==
    /\ current # Nothing
    /\ current' = Nothing
    /\ \E save \in {"written", "torn", "unopened"} :
          /\ ended' = Append(ended, [file |-> <<current, clock>>, save |-> save])
          /\ CASE save = "written"  -> Write(FileName, Len(ended'))
               [] save = "torn"     -> Write(FileName, Torn)
               [] save = "unopened" -> UNCHANGED files
    /\ UNCHANGED <<clock, results, before, todo, status, collects>>

---------------------------------------------------------------------------
(* collect_benchmark_results *)

CollectBegin ==
    /\ current = Nothing /\ todo = Nothing /\ collects < MaxCollects
    /\ collects' = collects + 1
    /\ todo' = DOMAIN files /\ status' = "running"
    /\ before' = results
    /\ UNCHANGED <<clock, current, files, ended, results>>

(***************************************************************************)
(* glob returns the files in any order.                                    *)
(***************************************************************************)
CollectFile ==
    /\ todo # Nothing
    /\ \E f \in todo :
        /\ files[f] # Torn
        /\ results' = Append(results, files[f])
        /\ todo' = todo \ {f}
    /\ UNCHANGED <<clock, current, files, ended, before, status, collects>>

(* Mutant: a file that is no JSON is passed over and ends the loop.        *)
CollectTornQuietly ==
    /\ todo # Nothing
    /\ \E f \in todo : files[f] = Torn
    /\ todo' = Nothing /\ status' = "success"
    /\ UNCHANGED <<clock, current, files, ended, results, before, collects>>

(* Mutant: a file that is no JSON is passed over and the loop begins anew. *)
CollectTornAnew ==
    /\ todo # Nothing
    /\ \E f \in todo : files[f] = Torn
    /\ todo' = {f \in DOMAIN files : files[f] # Torn}
    /\ UNCHANGED <<clock, current, files, ended, results, before, status, collects>>

CollectTorn ==
    /\ todo # Nothing
    /\ \E f \in todo : files[f] = Torn
    /\ todo' = Nothing /\ status' = "failure"
    /\ UNCHANGED <<clock, current, files, ended, results, before, collects>>

CollectEnd ==
    /\ todo = {}
    /\ todo' = Nothing /\ status' = "success"
    /\ UNCHANGED <<clock, current, files, ended, results, before, collects>>

FilesNext ==
    \/ Tick \/ Leave \/ CollectBegin \/ CollectFile \/ CollectTorn \/ CollectEnd
    \/ \E n \in Names : Enter(n)

FilesSpec == FilesInit /\ [][FilesNext]_filesVars

---------------------------------------------------------------------------
(* Properties *)

(***************************************************************************)
(* The records that were written and not written over: no later operation  *)
(* of the same name ended in the same second and opened its file.          *)
(***************************************************************************)
Survivors ==
    {i \in DOMAIN ended :
        /\ ended[i].save = "written"
        /\ \A j \in i + 1 .. Len(ended) :
              ended[j].file = ended[i].file => ended[j].save = "unopened"}

(***************************************************************************)
(* A record is lost in one way only: to a later operation of its name that *)
(* ended in the same second, as a failing step of a progressive scaling    *)
(* may after the step before it.  All others are in the directory.         *)
(***************************************************************************)
NoRecordLost ==
    \A i \in Survivors : ended[i].file \in DOMAIN files /\ files[ended[i].file] = i

New == SubSeq(results, Len(before) + 1, Len(results))

CollectedAll ==
    (todo # Nothing /\ status' = "success") =>
        /\ \A i \in Survivors : \E k \in DOMAIN New : New[k] = i
        /\ Len(New) = Cardinality(Survivors)

(***************************************************************************)
(* A collect that succeeds has appended every record that is left, each    *)
(* once, and nothing else, whatever files an operation left half written   *)
(* and whatever an earlier collect appended.                               *)
(***************************************************************************)
SuccessCollectsAll == [][CollectedAll]_filesVars

Lines(i) == {k \in DOMAIN results : results[k] = i}

(***************************************************************************)
(* collect appends again what an earlier one did, also one that failed: a  *)
(* record has as many lines in results.json as there were collects, at     *)
(* most, so a single collect never counts an operation twice.              *)
(***************************************************************************)
LinesPerCollect == \A i \in DOMAIN ended : Cardinality(Lines(i)) <= collects

===========================================================================
