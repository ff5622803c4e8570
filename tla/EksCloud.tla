------------------------------ MODULE EksCloud ------------------------------
(***************************************************************************)
(* What AWS keeps between the processes of a benchmark: the IAM role and   *)
(* access entry of the nodes, the launch template, the node group with its *)
(* nodes, and the capacity reservations.  All of it is external: only what *)
(* clients/eks_client.py relies on is modelled.                            *)
(***************************************************************************)
EXTENDS Integers, FiniteSets

CONSTANTS
    Policies,       \* policies of the role that is duplicated
    Reservations,   \* capacity block reservations of the instance type
    Placeable,      \* those whose zone has a private subnet of the run
    MaxCount,       \* bound on the nodes
    MaxTemplates    \* bound on the launch templates ever created

ASSUME CloudAssumption ==
    /\ MaxCount \in Nat /\ MaxTemplates \in Nat
    /\ Placeable \subseteq Reservations
    /\ Policies # {} /\ IsFiniteSet(Policies)

VARIABLES
    role,       \* the duplicated IAM role
    entry,      \* its EKS access entry exists
    template,   \* the launch template under the name the client computes
    group,      \* the node group
    ready,      \* its Ready, schedulable nodes
    free        \* available instances of every active reservation, else -1

cloudVars == <<role, entry, template, group, ready, free>>

Counts   == 0 .. MaxCount
NoRes    == "none"
Statuses == {"none", "creating", "active", "updating", "deleting", "failed"}

CloudTypeOK ==
    /\ role \in [made: BOOLEAN, policies: SUBSET Policies]
    /\ entry \in BOOLEAN
    /\ template \in [id: 0 .. MaxTemplates, next: 1 .. MaxTemplates + 1,
                     reservation: Reservations \cup {NoRes}]
    /\ group \in [status: Statuses, min: Counts, max: Nat, desired: Counts,
                  template: 0 .. MaxTemplates]
    /\ ready \in Counts
    /\ free \in [Reservations -> {-1} \cup Counts]

NoGroup == [status |-> "none", min |-> 0, max |-> 0, desired |-> 0, template |-> 0]

CloudInit ==
    /\ role = [made |-> FALSE, policies |-> {}]
    /\ entry = FALSE
    /\ template = [id |-> 0, next |-> 1, reservation |-> NoRes]
    /\ group = NoGroup
    /\ ready = 0
    /\ free \in [Reservations -> Counts]

(***************************************************************************)
(* A long-running operation of the node group ends.  A creation may end in *)
(* CREATE_FAILED.                                                          *)
(***************************************************************************)
GroupSettles ==
    /\ \/ /\ group.status = "creating"
          /\ group' = [group EXCEPT !.status = "failed"]
          /\ UNCHANGED ready
       \/ /\ group.status \in {"creating", "updating"}
          /\ group' = [group EXCEPT !.status = "active"]
          /\ UNCHANGED ready
       \/ /\ group.status = "deleting"
          /\ group' = NoGroup /\ ready' = 0
    /\ UNCHANGED <<role, entry, template, free>>

NodeComes ==
    /\ group.status \in {"creating", "active", "updating"}
    /\ ready < group.desired
    /\ ready' = ready + 1
    /\ UNCHANGED <<role, entry, template, group, free>>

(***************************************************************************)
(* A node leaves: scaled in, deleted, or reclaimed.                        *)
(***************************************************************************)
NodeGoes ==
    /\ ready > 0
    /\ ready' = ready - 1
    /\ UNCHANGED <<role, entry, template, group, free>>

(***************************************************************************)
(* A capacity block ends.                                                  *)
(***************************************************************************)
ReservationEnds ==
    /\ \E r \in Reservations :
          free[r] >= 0 /\ free' = [free EXCEPT ![r] = -1]
    /\ UNCHANGED <<role, entry, template, group, ready>>

Cloud == GroupSettles \/ NodeComes \/ NodeGoes \/ ReservationEnds

===========================================================================
