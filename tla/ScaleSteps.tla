----------------------------- MODULE ScaleSteps -----------------------------
(***************************************************************************)
(* The steps of a progressive scaling, as AKSClient._progressive_scale     *)
(* plans them: Python's range() from the current count towards the target, *)
(* with the target appended when the range misses it.                      *)
(***************************************************************************)
EXTENDS Integers, Sequences

(***************************************************************************)
(* len(range(start, stop, step)) and the range itself, step # 0.           *)
(***************************************************************************)
RangeLen(start, stop, step) ==
    IF step > 0 /\ start < stop THEN (stop - start + step - 1) \div step
    ELSE IF step < 0 /\ start > stop THEN (start - stop - step - 1) \div (-step)
    ELSE 0

PyRange(start, stop, step) ==
    [i \in 1 .. RangeLen(start, stop, step) |-> start + (i - 1) * step]

(***************************************************************************)
(* "Calculate the steps".                                                  *)
(***************************************************************************)
Planned(current, target, size) ==
    IF current < target THEN PyRange(current + size, target + 1, size)
                        ELSE PyRange(current - size, target - 1, -size)

(* Mutant: the target is not appended.                                     *)
StepsNoTail(current, target, size) ==
    LET planned == Planned(current, target, size)
    IN  IF Len(planned) = 0 THEN <<target>> ELSE planned

(***************************************************************************)
(* "Ensure the final step is exactly the target count"; "if there are no   *)
(* intermediate steps, just add the target directly".                      *)
(***************************************************************************)
Steps(current, target, size) ==
    LET planned == Planned(current, target, size)
    IN  IF Len(planned) = 0 THEN <<target>>
        ELSE IF /\ planned[Len(planned)] # target
                /\ \A i \in 1 .. Len(planned) : planned[i] # target
             THEN Append(planned, target)
             ELSE planned

===========================================================================
