--------------------------- MODULE CapacityBlocks ---------------------------
(***************************************************************************)
(* cloud/aws/managers/capacity_reservation_manager.py: a command that      *)
(* looks for capacity blocks, buys the cheapest one and describes the      *)
(* reservation.  Commands follow each other, as when a pipeline runs the   *)
(* step again; other customers buy from the same offerings.                *)
(***************************************************************************)
EXTENDS Integers, Sequences, FiniteSets

CONSTANTS
    Offerings,      \* [id, fee, hours, count]: what EC2 has on offer
    Durations,      \* values of --duration-hours
    InstanceCounts, \* values of --instance-count
    Resends,        \* how often botocore sends a request again
    MaxRuns,        \* bound on the commands
    None

ASSUME OfferingAssumption ==
    /\ \A o \in Offerings : o.fee \in Nat /\ o.hours \in Nat /\ o.count \in Nat
    /\ \A o, p \in Offerings : o.id = p.id => o = p
    /\ Durations \subseteq Int /\ InstanceCounts \subseteq Int
    /\ Resends \in Nat /\ MaxRuns \in Nat
    /\ None \notin Offerings /\ None \notin {0, 1}

Arguments == [hours: Durations, count: InstanceCounts, dry_run: BOOLEAN]

VARIABLES
    onOffer,    \* EC2: what can be bought
    sold,       \* EC2: the reservations of this account, with the command that paid
    args,       \* the arguments of the command
    pc,
    best,       \* the offering it chose
    answered,   \* the offerings it was told of
    resent,     \* how often the purchase was sent again
    mine,       \* the reservation of the answer, a place in sold; 0 before it
    exitcode,
    cause,      \* why it failed
    runs,
    lost        \* history: the purchases of this command whose answer was lost

ec2     == <<onOffer, sold>>
process == <<args, pc, best, answered, resent, mine, exitcode, cause, runs, lost>>
vars    == <<onOffer, sold, args, pc, best, answered, resent, mine, exitcode, cause, runs, lost>>

TypeOK ==
    /\ onOffer \subseteq Offerings
    /\ sold \in Seq([block: Offerings, run: 1 .. MaxRuns, listed: BOOLEAN])
    /\ args \in Arguments \cup {None}
    /\ pc \in {"idle", "search", "choose", "purchase", "summary"}
    /\ best \in Offerings \cup {None}
    /\ answered \subseteq Offerings
    /\ resent \in 0 .. Resends
    /\ mine \in Nat /\ mine <= Len(sold)
    /\ exitcode \in {None, 0, 1}
    /\ cause \in {"none", "none_found", "invalid_input", "api"}
    /\ runs \in 0 .. MaxRuns
    /\ lost \in Nat

Init ==
    /\ onOffer \in SUBSET Offerings
    /\ sold = <<>>
    /\ args = None /\ pc = "idle" /\ best = None /\ answered = {}
    /\ resent = 0 /\ mine = 0
    /\ exitcode = None /\ cause = "none"
    /\ runs = 0 /\ lost = 0

Exit(code, why) ==
    /\ pc' = "idle" /\ exitcode' = code /\ cause' = why
    /\ UNCHANGED <<args, best, answered, resent, mine, runs>>

Goto(l) ==
    /\ pc' = l
    /\ UNCHANGED <<args, resent, exitcode, cause, runs>>

---------------------------------------------------------------------------
(* main *)

(***************************************************************************)
(* The start date is parsed and the client built; both may fail.           *)
(***************************************************************************)
Begin ==
    /\ pc = "idle" /\ runs < MaxRuns
    /\ args' \in Arguments
    /\ \/ pc' = "search" /\ exitcode' = None /\ cause' = "none"
       \/ pc' = "idle" /\ exitcode' = 1 /\ cause' \in {"invalid_input", "api"}
    /\ best' = None /\ answered' = {} /\ resent' = 0 /\ mine' = 0
    /\ runs' = runs + 1 /\ lost' = 0
    /\ UNCHANGED ec2

(***************************************************************************)
(* At least a day; zero leaves the parameter out.                          *)
(***************************************************************************)
CapacityDuration(h) == IF h = 0 THEN 0 ELSE IF h < 24 THEN 24 ELSE h

(***************************************************************************)
(* describe_capacity_block_offerings.  EC2 has the offerings of exactly    *)
(* this duration and instance count, or of any duration; the code reads    *)
(* the first page of its answer, which need not hold all of them.          *)
(***************************************************************************)
Search ==
    /\ pc = "search"
    /\ \/ args.count <= 0 /\ Exit(1, "invalid_input")
       \/ Exit(1, "api")
       \/ /\ args.count > 0
          /\ LET h == CapacityDuration(args.hours)
             IN \E page \in SUBSET {o \in onOffer : o.count = args.count /\ (h = 0 \/ o.hours = h)} :
                   IF page = {} THEN Exit(1, "none_found")
                   ELSE Goto("choose") /\ answered' = page /\ UNCHANGED <<best, mine>>
    /\ UNCHANGED <<ec2, lost>>

(***************************************************************************)
(* The offerings are sorted by their fee.                                  *)
(***************************************************************************)
Choose ==
    /\ pc = "choose"
    /\ best' \in {o \in answered : \A p \in answered : o.fee <= p.fee}
    /\ Goto("purchase")
    /\ UNCHANGED <<answered, mine, ec2, lost>>

DryRun ==
    /\ pc = "purchase" /\ args.dry_run
    /\ Exit(0, "none") /\ UNCHANGED <<ec2, lost>>

(***************************************************************************)
(* EC2 sells the chosen offering.  It may have more of the same.           *)
(***************************************************************************)
Sold ==
    /\ best \in onOffer /\ onOffer' \in {onOffer, onOffer \ {best}}
    /\ sold' = Append(sold, [block |-> best, run |-> runs, listed |-> FALSE])

(***************************************************************************)
(* No answer: botocore sends the request again, up to its limit, or the    *)
(* exception ends the command.                                             *)
(***************************************************************************)
NoAnswer ==
    \/ Exit(1, "api")
    \/ /\ resent < Resends /\ resent' = resent + 1
       /\ UNCHANGED <<args, pc, best, answered, mine, exitcode, cause, runs>>

(***************************************************************************)
(* purchase_capacity_block.  The request has no token that would let EC2   *)
(* recognise one that is sent again.                                       *)
(***************************************************************************)
Purchase ==
    /\ pc = "purchase" /\ ~args.dry_run
    /\ \/ /\ Sold /\ Goto("summary") /\ mine' = Len(sold')
          /\ UNCHANGED <<best, answered, lost>>
       \/ Sold /\ NoAnswer /\ lost' = lost + 1
       \/ NoAnswer /\ UNCHANGED <<ec2, lost>>

(* Mutant: a reservation that is not listed is bought again.               *)
SummaryBuysAgain ==
    /\ pc = "summary"
    /\ IF sold[mine].listed THEN Exit(0, "none")
       ELSE Goto("purchase") /\ UNCHANGED <<best, answered, mine>>
    /\ UNCHANGED <<ec2, lost>>

(* Mutant: a reservation that is not found is no reason to fail.           *)
SummaryOptional ==
    /\ pc = "summary"
    /\ Exit(0, "none") /\ UNCHANGED <<ec2, lost>>

(***************************************************************************)
(* get_capacity_reservation_summary: the reservation, in whatever state,   *)
(* is read back; one that is not listed yet is a ValueError, which main    *)
(* takes for invalid input.                                                *)
(***************************************************************************)
Summary ==
    /\ pc = "summary"
    /\ \/ sold[mine].listed /\ Exit(0, "none")
       \/ ~sold[mine].listed /\ Exit(1, "invalid_input")
       \/ Exit(1, "api")
    /\ UNCHANGED <<ec2, lost>>

---------------------------------------------------------------------------
(* EC2 *)

Listed ==
    /\ \E i \in DOMAIN sold : ~sold[i].listed /\ sold' = [sold EXCEPT ![i].listed = TRUE]
    /\ UNCHANGED <<onOffer, process>>

(***************************************************************************)
(* Another customer buys, or an offering comes up.                         *)
(***************************************************************************)
Market ==
    /\ \/ \E o \in onOffer : onOffer' = onOffer \ {o}
       \/ \E o \in Offerings \ onOffer : onOffer' = onOffer \cup {o}
    /\ UNCHANGED <<sold, process>>

Next == \/ Begin \/ Search \/ Choose \/ DryRun \/ Purchase \/ Summary
        \/ Listed \/ Market

Spec == Init /\ [][Next]_vars

---------------------------------------------------------------------------
(* Properties *)

(***************************************************************************)
(* The reservations this command paid for.                                 *)
(***************************************************************************)
Own == {i \in DOMAIN sold : sold[i].run = runs}

(***************************************************************************)
(* "Only search for offerings, do not purchase": a dry run pays nothing.   *)
(* Every block a command pays for fits its arguments and was the cheapest  *)
(* of the page it was told of, whatever the market did since, and a second *)
(* one is bought only after a purchase whose answer was lost: never        *)
(* because a later step failed.                                            *)
(***************************************************************************)
BoughtAsAsked ==
    /\ Cardinality(Own) <= 1 + lost
    /\ \A i \in Own : /\ ~args.dry_run
                      /\ sold[i].block.count = args.count
                      /\ sold[i].block.hours >= args.hours
                      /\ \A other \in answered : sold[i].block.fee <= other.fee

(***************************************************************************)
(* What the end of a command says of the money.  Success of a real run:    *)
(* the reservation it reports is its own and EC2 lists it.  A failure may  *)
(* have paid too; its cause "invalid input" then means that the reported   *)
(* reservation was not listed, and a block it never reports is one whose   *)
(* answer was lost.                                                        *)
(***************************************************************************)
PaidIsReported ==
    pc = "idle" =>
        /\ (exitcode = 0 /\ ~args.dry_run) => mine \in Own /\ sold[mine].listed
        /\ cause = "none_found" => Own = {}
        /\ (cause = "invalid_input" /\ Own # {}) => mine \in Own
        /\ Own \subseteq {mine} \/ lost > 0

===========================================================================
