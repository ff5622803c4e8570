------------------------- MODULE MeasuredOperation -------------------------
(***************************************************************************)
(* What every measured operation of the repository promises through        *)
(* crud/operation.py: one record, written when the operation ends and      *)
(* never changed afterwards, which says success only if the operation has  *)
(* reached its goal.  The result files are uploaded as they are, so a      *)
(* record that claims more than was reached is a wrong measurement.        *)
(***************************************************************************)
VARIABLES
    goal,       \* the operation has reached what it is measured for
    record      \* "open" until the context manager is left

TypeOK ==
    /\ goal \in BOOLEAN
    /\ record \in {"open", "success", "failure"}

Init ==
    /\ goal \in BOOLEAN
    /\ record = "open"

(***************************************************************************)
(* While the operation runs the goal may be reached, and lost again.       *)
(***************************************************************************)
Work ==
    /\ record = "open"
    /\ goal' \in BOOLEAN
    /\ UNCHANGED record

(***************************************************************************)
(* OperationContext.__exit__ without an exception ...                      *)
(***************************************************************************)
EndSuccess ==
    /\ record = "open"
    /\ goal
    /\ record' = "success"
    /\ goal' \in BOOLEAN

(***************************************************************************)
(* ... and with one, whether or not the goal was reached.                  *)
(***************************************************************************)
EndFailure ==
    /\ record = "open"
    /\ record' = "failure"
    /\ goal' \in BOOLEAN

(***************************************************************************)
(* The system lives on; the record does not change.                        *)
(***************************************************************************)
Afterwards ==
    /\ record # "open"
    /\ goal' \in BOOLEAN
    /\ UNCHANGED record

Next == Work \/ EndSuccess \/ EndFailure \/ Afterwards

Spec == Init /\ [][Next]_<<goal, record>>

===========================================================================
