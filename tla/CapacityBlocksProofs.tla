------------------------ MODULE CapacityBlocksProofs ------------------------
(***************************************************************************)
(* What the capacity reservation command buys and what its end says of it, *)
(* for every market, every arguments, any number of commands and of        *)
(* requests that are sent again.                                           *)
(***************************************************************************)
EXTENDS CapacityBlocks, FiniteSetTheorems, TLAPS

Reservation == [block: Offerings, run: 1 .. MaxRuns, listed: BOOLEAN]

(***************************************************************************)
(* A command that is under way has arguments.                              *)
(***************************************************************************)
CommandSound ==
    pc # "idle" => args \in Arguments /\ runs > 0

(***************************************************************************)
(* EC2 told the command only of what it asked for.                         *)
(***************************************************************************)
AnswersFit ==
    \A o \in answered : o.count = args.count /\ o.hours >= args.hours

Cheapest ==
    best \in answered /\ \A o \in answered : best.fee <= o.fee

(***************************************************************************)
(* The choice, once made, stands until the next command.                   *)
(***************************************************************************)
ChoiceSound ==
    /\ pc \in {"purchase", "summary"} => Cheapest
    /\ pc \in {"search", "choose"} => Own = {}
    /\ pc \in {"search", "choose", "purchase"} => mine = 0
    /\ pc = "summary" => mine # 0

(***************************************************************************)
(* What this command has bought is its choice, and was bought on purpose.  *)
(***************************************************************************)
SalesSound ==
    \A i \in DOMAIN sold :
        /\ sold[i].run <= runs
        /\ sold[i].run = runs => sold[i].block = best /\ Cheapest /\ ~args.dry_run

(***************************************************************************)
(* The books: every block this command paid for is the one of its answer   *)
(* or one whose answer was lost.                                           *)
(***************************************************************************)
BooksSound ==
    /\ IsFiniteSet(Own)
    /\ Cardinality(Own) <= lost + (IF mine = 0 THEN 0 ELSE 1)
    /\ mine # 0 => mine \in Own
    /\ Own \subseteq {mine} \/ lost > 0

Inv ==
    /\ TypeOK /\ CommandSound /\ AnswersFit /\ ChoiceSound /\ SalesSound /\ BooksSound
    /\ PaidIsReported

---------------------------------------------------------------------------
(* The operators *)

(***************************************************************************)
(* The duration sent to EC2 is zero, for any duration, or at least the one *)
(* that was asked for.                                                     *)
(***************************************************************************)
LEMMA DurationCovers ==
    ASSUME NEW h \in Int
    PROVE  /\ CapacityDuration(h) \in Nat
           /\ CapacityDuration(h) >= h
           /\ CapacityDuration(h) = 0 => h = 0
BY DEF CapacityDuration

(***************************************************************************)
(* The reservations, one by one.                                           *)
(***************************************************************************)
LEMMA SoldTypes ==
    ASSUME TypeOK
    PROVE  /\ sold \in Seq(Reservation) /\ Len(sold) \in Nat /\ DOMAIN sold = 1 .. Len(sold)
           /\ \A i \in DOMAIN sold : sold[i] \in Reservation /\ sold[i].run \in Nat
<1>1. sold \in Seq(Reservation)
  BY DEF TypeOK, Reservation
<1>2. Len(sold) \in Nat /\ DOMAIN sold = 1 .. Len(sold)
  BY <1>1
<1>3. \A i \in DOMAIN sold : sold[i] \in Reservation
  BY <1>1, <1>2
<1> QED BY <1>1, <1>2, <1>3 DEF Reservation

(***************************************************************************)
(* A step that leaves the reservations and the command's number alone has  *)
(* no effect on what the command owns.                                     *)
(***************************************************************************)
LEMMA OwnStays ==
    ASSUME UNCHANGED <<sold, runs>>
    PROVE  Own' = Own
BY DEF Own

(***************************************************************************)
(* Ending a command with a failure preserves the invariant wherever EC2 is *)
(* as it was; where it found nothing, nothing has been paid.               *)
(***************************************************************************)
LEMMA FailurePreservesInv ==
    ASSUME Inv, NEW why \in {"none_found", "invalid_input", "api"},
           Exit(1, why), UNCHANGED <<ec2, lost>>,
           why = "none_found" => Own = {},
           why = "invalid_input" => Own = {} \/ mine # 0
    PROVE  Inv'
<1> USE OfferingAssumption DEF Inv, Exit, ec2
<1>0. Own' = Own
  BY OwnStays
<1>1. TypeOK'
  BY DEF TypeOK
<1>2. CommandSound' /\ AnswersFit' /\ ChoiceSound'
  BY DEF CommandSound, AnswersFit, ChoiceSound
<1>3. SalesSound' /\ BooksSound'
  BY <1>0 DEF SalesSound, Cheapest, BooksSound
<1>4. PaidIsReported'
  BY <1>0 DEF PaidIsReported, BooksSound
<1> QED BY <1>1, <1>2, <1>3, <1>4

---------------------------------------------------------------------------
(* The command *)

LEMMA BeginPreservesInv ==
    ASSUME Inv, Begin
    PROVE  Inv'
<1> USE OfferingAssumption DEF Inv, Begin, ec2
<1>1. TypeOK'
  <2>1. runs' \in 0 .. MaxRuns /\ pc' \in {"idle", "search"} /\ exitcode' \in {None, 1}
    BY DEF TypeOK
  <2>2. cause' \in {"none", "invalid_input", "api"}
    BY Zenon DEF TypeOK
  <2>3. mine' \in Nat /\ mine' <= Len(sold') /\ lost' \in Nat /\ resent' \in 0 .. Resends
    BY DEF TypeOK
  <2> QED BY <2>1, <2>2, <2>3 DEF TypeOK
<1>2. ASSUME NEW i \in DOMAIN sold PROVE sold[i].run < runs'
  <2>1. sold[i].run \in Nat /\ runs \in Nat /\ sold[i].run <= runs
    BY SoldTypes DEF SalesSound, TypeOK
  <2> QED BY <2>1
<1>3. Own' = {}
  BY <1>2 DEF Own, TypeOK
<1>4. CommandSound' /\ AnswersFit' /\ ChoiceSound'
  BY <1>3 DEF CommandSound, AnswersFit, ChoiceSound, TypeOK
<1>5. SalesSound'
  <2> SUFFICES ASSUME NEW i \in DOMAIN sold PROVE sold[i].run <= runs' /\ sold[i].run # runs'
    BY DEF SalesSound
  <2>1. sold[i].run \in Nat /\ runs' \in Nat
    BY <1>1, SoldTypes DEF TypeOK
  <2> QED BY <1>2, <2>1
<1>6. BooksSound'
  BY <1>3, FS_EmptySet DEF BooksSound
<1>7. PaidIsReported'
  BY <1>3 DEF PaidIsReported
<1> QED BY <1>1, <1>4, <1>5, <1>6, <1>7

LEMMA SearchPreservesInv ==
    ASSUME Inv, Search
    PROVE  Inv'
<1> DEFINE h == CapacityDuration(args.hours)
           found == {o \in onOffer : o.count = args.count /\ (h = 0 \/ o.hours = h)}
<1>0. pc = "search" /\ UNCHANGED <<ec2, lost>> /\ Own = {}
  BY DEF Search, Inv, ChoiceSound
<1>1. CASE \E why \in {"none_found", "invalid_input", "api"} : Exit(1, why)
  BY <1>0, <1>1, FailurePreservesInv
<1>2. ASSUME NEW page \in SUBSET found, Goto("choose"), answered' = page, UNCHANGED <<best, mine>>
      PROVE  Inv'
  <2> USE <1>0, <1>2, OfferingAssumption DEF Inv, Goto, ec2
  <2>0. Own' = {}
    BY OwnStays
  <2>1. TypeOK'
    <3>1. page \subseteq Offerings
      BY DEF TypeOK
    <3> QED BY <3>1 DEF TypeOK
  <2>2. CommandSound' /\ ChoiceSound'
    BY <2>0 DEF CommandSound, ChoiceSound
  <2>3. AnswersFit'
    <3> SUFFICES ASSUME NEW o \in page
                 PROVE  o.count = args.count /\ o.hours >= args.hours
      BY DEF AnswersFit
    <3>1. args.hours \in Int /\ o.hours \in Nat /\ (h = 0 \/ o.hours = h) /\ o.count = args.count
      BY DEF CommandSound, Arguments, TypeOK
    <3> HIDE DEF h, found
    <3>2. h \in Nat /\ h >= args.hours /\ (h = 0 => args.hours = 0)
      BY <3>1, DurationCovers DEF h
    <3> QED BY <3>1, <3>2
  <2>4. SalesSound'
    BY DEF SalesSound, Own
  <2>5. BooksSound' /\ PaidIsReported'
    BY <2>0 DEF BooksSound, PaidIsReported
  <2> QED BY <2>1, <2>2, <2>3, <2>4, <2>5
<1> QED BY <1>1, <1>2 DEF Search

LEMMA ChoosePreservesInv ==
    ASSUME Inv, Choose
    PROVE  Inv'
<1> USE OfferingAssumption DEF Inv, Choose, Goto, ec2
<1>0. Own = {} /\ Own' = {}
  BY OwnStays DEF ChoiceSound
<1>1. TypeOK'
  BY DEF TypeOK
<1>2. CommandSound' /\ AnswersFit'
  BY DEF CommandSound, AnswersFit
<1>3. ChoiceSound'
  BY DEF ChoiceSound, Cheapest
<1>4. SalesSound'
  BY <1>0 DEF SalesSound, Own
<1>5. BooksSound' /\ PaidIsReported'
  BY <1>0 DEF BooksSound, PaidIsReported
<1> QED BY <1>1, <1>2, <1>3, <1>4, <1>5

(***************************************************************************)
(* A dry run ends with success and has bought nothing.                     *)
(***************************************************************************)
LEMMA DryRunPreservesInv ==
    ASSUME Inv, DryRun
    PROVE  Inv'
<1> USE OfferingAssumption DEF Inv, DryRun, Exit, ec2
<1>0. Own' = Own
  BY OwnStays
<1>1. TypeOK'
  BY DEF TypeOK
<1>2. CommandSound' /\ AnswersFit' /\ ChoiceSound'
  BY DEF CommandSound, AnswersFit, ChoiceSound
<1>3. SalesSound' /\ BooksSound'
  BY <1>0 DEF SalesSound, Cheapest, BooksSound
<1>4. PaidIsReported'
  BY <1>0 DEF PaidIsReported, BooksSound
<1> QED BY <1>1, <1>2, <1>3, <1>4

(***************************************************************************)
(* The sale itself: one more reservation, of this command and its choice.  *)
(***************************************************************************)
LEMMA SoldFacts ==
    ASSUME Inv, pc = "purchase", ~args.dry_run, Sold,
           UNCHANGED <<args, best, answered, runs>>
    PROVE  /\ onOffer' \subseteq Offerings
           /\ sold' \in Seq(Reservation)
           /\ Len(sold) \in Nat /\ Len(sold') = Len(sold) + 1
           /\ Own' = Own \cup {Len(sold')} /\ Len(sold') \notin Own
           /\ SalesSound'
<1> USE DEF Inv, Sold
<1> DEFINE new == [block |-> best, run |-> runs, listed |-> FALSE]
<1>1. sold \in Seq(Reservation)
  BY DEF TypeOK, Reservation
<1>2. new \in Reservation /\ new.run = runs /\ new.block = best
  <2>1. FALSE \in BOOLEAN
    BY Zenon
  <2>2. runs \in 1 .. MaxRuns /\ best \in Offerings
    BY DEF TypeOK, CommandSound
  <2> QED BY <2>1, <2>2 DEF Reservation
<1> HIDE DEF new
<1>3. sold' = Append(sold, new)
  BY DEF new
<1>4. /\ sold' \in Seq(Reservation)
      /\ Len(sold) \in Nat /\ Len(sold') = Len(sold) + 1
      /\ DOMAIN sold = 1 .. Len(sold) /\ DOMAIN sold' = 1 .. Len(sold')
      /\ \A i \in DOMAIN sold : sold'[i] = sold[i]
      /\ sold'[Len(sold')] = new
  BY <1>1, <1>2, <1>3
<1>5. Own' = Own \cup {Len(sold')} /\ Len(sold') \notin Own
  BY <1>2, <1>4 DEF Own
<1>6. SalesSound'
  <2>1. Cheapest /\ runs \in Nat
    BY DEF ChoiceSound, TypeOK
  <2> SUFFICES ASSUME NEW i \in DOMAIN sold'
               PROVE  sold'[i].run <= runs /\ (sold'[i].run = runs => sold'[i].block = best)
    BY <2>1 DEF SalesSound, Cheapest
  <2>2. CASE i \in DOMAIN sold
    BY <1>4, <2>2 DEF SalesSound
  <2>3. CASE i = Len(sold')
    BY <1>2, <1>4, <2>1, <2>3
  <2> QED BY <1>4, <2>2, <2>3
<1> QED BY <1>4, <1>5, <1>6 DEF TypeOK

(***************************************************************************)
(* A purchase with its answer, and one without.                            *)
(***************************************************************************)
LEMMA PurchasePreservesInv ==
    ASSUME Inv, Purchase
    PROVE  Inv'
<1>0. pc = "purchase" /\ ~args.dry_run
  BY DEF Purchase
<1>a. mine = 0 /\ lost \in Nat /\ resent \in 0 .. Resends
  BY <1>0 DEF Inv, ChoiceSound, TypeOK
<1>b. ASSUME NoAnswer
      PROVE  /\ UNCHANGED <<args, best, answered, mine, runs>> /\ resent' \in 0 .. Resends
             /\ \/ pc' = "idle" /\ exitcode' = 1 /\ cause' = "api"
                \/ pc' = "purchase" /\ UNCHANGED <<exitcode, cause>>
  BY <1>0, <1>a, <1>b, OfferingAssumption DEF NoAnswer, Exit
<1>1. CASE Sold /\ Goto("summary") /\ mine' = Len(sold') /\ UNCHANGED <<best, answered, lost>>
  <2> USE <1>0, <1>1 DEF Inv, Goto
  <2>1. /\ onOffer' \subseteq Offerings /\ sold' \in Seq(Reservation)
        /\ Len(sold) \in Nat /\ Len(sold') = Len(sold) + 1
        /\ Own' = Own \cup {Len(sold')} /\ Len(sold') \notin Own /\ SalesSound'
    BY SoldFacts
  <2>2. TypeOK'
    BY <2>1 DEF TypeOK, Reservation
  <2>3. CommandSound' /\ AnswersFit' /\ ChoiceSound'
    BY <2>1 DEF CommandSound, AnswersFit, ChoiceSound, Cheapest
  <2>4. IsFiniteSet(Own') /\ Cardinality(Own') = Cardinality(Own) + 1
    BY <2>1, FS_AddElement DEF BooksSound
  <2>5. Cardinality(Own) \in Nat
    BY FS_CardinalityType DEF BooksSound
  <2>6. Own = {} \/ lost > 0
    BY <1>a, <2>1 DEF BooksSound, Own, TypeOK
  <2>7. BooksSound'
    BY <1>a, <2>1, <2>4, <2>5, <2>6 DEF BooksSound
  <2>8. PaidIsReported'
    BY DEF PaidIsReported
  <2> QED BY <2>1, <2>2, <2>3, <2>7, <2>8
<1>2. CASE Sold /\ NoAnswer /\ lost' = lost + 1
  <2> USE <1>0, <1>2, <1>b DEF Inv
  <2>1. /\ onOffer' \subseteq Offerings /\ sold' \in Seq(Reservation)
        /\ Len(sold) \in Nat /\ Len(sold') = Len(sold) + 1
        /\ Own' = Own \cup {Len(sold')} /\ Len(sold') \notin Own /\ SalesSound'
    BY SoldFacts
  <2>2. TypeOK'
    BY <1>a, <2>1 DEF TypeOK, Reservation
  <2>3. CommandSound' /\ AnswersFit' /\ ChoiceSound'
    BY <1>a DEF CommandSound, AnswersFit, ChoiceSound, Cheapest
  <2>4. IsFiniteSet(Own') /\ Cardinality(Own') = Cardinality(Own) + 1
    BY <2>1, FS_AddElement DEF BooksSound
  <2>5. Cardinality(Own) \in Nat
    BY FS_CardinalityType DEF BooksSound
  <2>6. BooksSound'
    BY <1>a, <2>4, <2>5 DEF BooksSound
  <2>7. PaidIsReported'
    BY <1>a, OfferingAssumption DEF PaidIsReported
  <2> QED BY <2>1, <2>2, <2>3, <2>6, <2>7
<1>3. CASE NoAnswer /\ UNCHANGED <<ec2, lost>>
  <2> USE <1>0, <1>3, <1>b DEF Inv, ec2
  <2>0. Own' = Own
    BY OwnStays
  <2>1. TypeOK'
    BY DEF TypeOK
  <2>2. CommandSound' /\ AnswersFit' /\ ChoiceSound'
    BY <1>a DEF CommandSound, AnswersFit, ChoiceSound, Cheapest
  <2>3. SalesSound' /\ BooksSound'
    BY <2>0 DEF SalesSound, Cheapest, BooksSound
  <2>4. PaidIsReported'
    BY <2>0, OfferingAssumption DEF PaidIsReported, BooksSound
  <2> QED BY <2>1, <2>2, <2>3, <2>4
<1> QED BY <1>0, <1>1, <1>2, <1>3 DEF Purchase

LEMMA SummaryPreservesInv ==
    ASSUME Inv, Summary
    PROVE  Inv'
<1>0. pc = "summary" /\ UNCHANGED <<ec2, lost>> /\ mine # 0
  BY DEF Summary, Inv, ChoiceSound
<1>1. CASE \E why \in {"invalid_input", "api"} : Exit(1, why)
  BY <1>0, <1>1, FailurePreservesInv
<1>2. CASE sold[mine].listed /\ Exit(0, "none")
  <2> USE <1>0, <1>2 DEF Inv, Exit, ec2
  <2>0. Own' = Own
    BY OwnStays
  <2>1. TypeOK'
    BY DEF TypeOK
  <2>2. CommandSound' /\ AnswersFit' /\ ChoiceSound'
    BY DEF CommandSound, AnswersFit, ChoiceSound
  <2>3. SalesSound' /\ BooksSound'
    BY <2>0 DEF SalesSound, Cheapest, BooksSound
  <2>4. PaidIsReported'
    BY <2>0 DEF PaidIsReported, BooksSound
  <2> QED BY <2>1, <2>2, <2>3, <2>4
<1> QED BY <1>1, <1>2 DEF Summary

---------------------------------------------------------------------------
(* EC2 and the other customers *)

LEMMA ListedPreservesInv ==
    ASSUME Inv, Listed
    PROVE  Inv'
<1> USE DEF Inv, process
<1>1. PICK k \in DOMAIN sold : sold' = [sold EXCEPT ![k].listed = TRUE]
  BY DEF Listed
<1>2. UNCHANGED <<onOffer, process>>
  BY DEF Listed
<1>3. /\ sold \in Seq(Reservation) /\ Len(sold) \in Nat /\ DOMAIN sold = 1 .. Len(sold)
      /\ \A i \in DOMAIN sold : sold[i] \in Reservation
  BY SoldTypes
<1>4. /\ DOMAIN sold' = DOMAIN sold
      /\ \A i \in DOMAIN sold :
            /\ sold'[i] \in Reservation
            /\ sold'[i].run = sold[i].run /\ sold'[i].block = sold[i].block
            /\ sold[i].listed => sold'[i].listed
  <2>1. TRUE \in BOOLEAN
    BY Zenon
  <2>2. sold'[k] = [sold[k] EXCEPT !.listed = TRUE]
    BY <1>1, <1>3
  <2>3. sold'[k] \in Reservation
    BY <1>3, <2>1, <2>2 DEF Reservation
  <2>4. /\ sold'[k].run = sold[k].run /\ sold'[k].block = sold[k].block
        /\ sold'[k].listed = TRUE
    BY <1>3, <2>2 DEF Reservation
  <2>5. \A i \in DOMAIN sold : i # k => sold'[i] = sold[i]
    BY <1>1, <1>3
  <2> QED BY <1>1, <1>3, <2>3, <2>4, <2>5
<1>5. sold' \in Seq(Reservation) /\ Len(sold') = Len(sold)
  <2>1. sold' \in [1 .. Len(sold) -> Reservation]
    BY <1>1, <1>3, <1>4
  <2> QED BY <1>3, <2>1
<1>6. Own' = Own
  BY <1>2, <1>4 DEF Own
<1>7. TypeOK'
  BY <1>2, <1>5 DEF TypeOK, Reservation
<1>8. CommandSound' /\ AnswersFit' /\ ChoiceSound'
  BY <1>2, <1>6 DEF CommandSound, AnswersFit, ChoiceSound, Cheapest
<1>9. SalesSound' /\ BooksSound'
  BY <1>2, <1>4, <1>6 DEF SalesSound, Cheapest, BooksSound
<1>10. PaidIsReported'
  BY <1>2, <1>4, <1>6 DEF PaidIsReported, Own
<1> QED BY <1>7, <1>8, <1>9, <1>10

LEMMA MarketPreservesInv ==
    ASSUME Inv, Market
    PROVE  Inv'
<1> USE DEF Inv, Market, process
<1>0. Own' = Own
  BY OwnStays
<1>1. TypeOK'
  BY DEF TypeOK
<1>2. CommandSound' /\ AnswersFit' /\ ChoiceSound'
  BY <1>0 DEF CommandSound, AnswersFit, ChoiceSound, Cheapest
<1>3. SalesSound' /\ BooksSound'
  BY <1>0 DEF SalesSound, Cheapest, BooksSound
<1>4. PaidIsReported'
  BY <1>0 DEF PaidIsReported
<1> QED BY <1>1, <1>2, <1>3, <1>4

---------------------------------------------------------------------------
(* The theorems *)

(***************************************************************************)
(* The inductive invariant: the purchases of the command under way are its *)
(* choice, and each is the one of its answer or one whose answer was lost. *)
(***************************************************************************)
THEOREM CapacityInvariant == Spec => []Inv
<1>1. Init => Inv
  <2> SUFFICES ASSUME Init PROVE Inv
    OBVIOUS
  <2>1. Own = {}
    BY DEF Init, Own
  <2>2. TypeOK
    BY OfferingAssumption DEF Init, TypeOK
  <2>3. /\ CommandSound /\ AnswersFit /\ ChoiceSound /\ SalesSound
        /\ PaidIsReported
    BY <2>1, OfferingAssumption
    DEF Init, CommandSound, AnswersFit, ChoiceSound, SalesSound, PaidIsReported
  <2>4. BooksSound
    BY <2>1, FS_EmptySet DEF Init, BooksSound
  <2> QED BY <2>2, <2>3, <2>4 DEF Inv
<1>2. Inv /\ [Next]_vars => Inv'
  <2> SUFFICES ASSUME Inv, [Next]_vars PROVE Inv'
    OBVIOUS
  <2>1. CASE UNCHANGED vars
    BY <2>1 DEF vars, Inv, TypeOK, CommandSound, AnswersFit, ChoiceSound, SalesSound,
                Cheapest, BooksSound, PaidIsReported, Own
  <2> QED BY <2>1, BeginPreservesInv, SearchPreservesInv, ChoosePreservesInv,
             DryRunPreservesInv, PurchasePreservesInv, SummaryPreservesInv,
             ListedPreservesInv, MarketPreservesInv DEF Next
<1> QED BY <1>1, <1>2, PTL DEF Spec

(***************************************************************************)
(* A dry run pays nothing; what another command pays for fits its          *)
(* arguments and was the cheapest of the page it was told of, and it buys  *)
(* a further block only after a purchase whose answer was lost, for any    *)
(* number of requests that botocore sends again and any market.            *)
(***************************************************************************)
THEOREM PurchasesAreAsAsked == Spec => []BoughtAsAsked
<1>1. Inv => BoughtAsAsked
  <2> SUFFICES ASSUME Inv PROVE BoughtAsAsked
    OBVIOUS
  <2> USE DEF Inv
  <2>1. ASSUME NEW i \in Own
        PROVE  /\ ~args.dry_run
               /\ sold[i].block.count = args.count /\ sold[i].block.hours >= args.hours
               /\ \A other \in answered : sold[i].block.fee <= other.fee
    BY <2>1 DEF Own, SalesSound, Cheapest, AnswersFit
  <2>2. Cardinality(Own) <= 1 + lost
    <3>1. Cardinality(Own) \in Nat /\ lost \in Nat
      BY FS_CardinalityType DEF BooksSound, TypeOK
    <3> QED BY <3>1 DEF BooksSound
  <2> QED BY <2>1, <2>2 DEF BoughtAsAsked
<1> QED BY <1>1, CapacityInvariant, PTL

(***************************************************************************)
(* What the end of a command says of the money: success reports a listed   *)
(* reservation of its own, and every block that is paid for is reported or *)
(* has lost its answer.                                                    *)
(***************************************************************************)
THEOREM PaymentsAreReported == Spec => []PaidIsReported
<1>1. Inv => PaidIsReported
  BY DEF Inv
<1> QED BY <1>1, CapacityInvariant, PTL

===========================================================================
