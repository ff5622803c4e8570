--------------------------- MODULE EksCrudProofs ---------------------------
(***************************************************************************)
(* Proofs about EksCrud: what its processes leave in AWS, and what their   *)
(* records and exit codes say of it, for every sequence of commands, any   *)
(* number of policies, reservations, nodes and retries.                    *)
(***************************************************************************)
EXTENDS EksCrud, FiniteSetTheorems, TLAPS

---------------------------------------------------------------------------
(* The inductive invariant *)

Building == {"connect", "role", "create_role", "attach", "get_role", "entry", "create_entry"}
Creating == {"reserve", "template", "new_template", "group"}
Scaling  == {"step", "update"}
Awaiting == {"active", "nodes", "finish"}
Deleting == {"delete_template", "delete_group", "deleted"}
Open     == Creating \cup Scaling \cup Awaiting \cup Deleting

ScaleKinds  == {"scale", "scale_up", "scale_down"}
ScalePhases == {"scale_up", "scale_down"}
Records     == [kind: Kinds, from: Int, target: Int, ok: BOOLEAN]

(***************************************************************************)
(* What the argument needs of the types.                                   *)
(***************************************************************************)
CloudTypes ==
    /\ role \in [made: BOOLEAN, policies: SUBSET Policies]
    /\ entry \in BOOLEAN
    /\ template \in [id: 0 .. MaxTemplates, next: 1 .. MaxTemplates + 1,
                     reservation: Reservations \cup {NoRes}]
    /\ group \in [status: Statuses, min: Int, max: Int, desired: Int,
                  template: 0 .. MaxTemplates]

ClientTypes ==
    /\ args \in Commands
    /\ pc \in PCs
    /\ phase \in Phases
    /\ client \in [template_id: 0 .. MaxTemplates, todo: SUBSET Policies, tries: Int]
    /\ op \in [kind: Kinds, from: Int, plan: Seq(Int),
               reservation: Reservations \cup {NoRes}]
    /\ result \in BOOLEAN
    /\ records \in Seq(Records)

RunTypes ==
    /\ results \in [Phases -> BOOLEAN]
    /\ found \in Findings

Types == CloudTypes /\ ClientTypes /\ RunTypes

(***************************************************************************)
(* Where the process is, the phase it is in and the operation it has open. *)
(***************************************************************************)
PcSound ==
    /\ pc \in Building \cup {"plugin"} /\ args.cmd = "all" => phase = "create"
    /\ pc \in Creating => phase = "create" /\ op.kind = "create"
    /\ pc \in Scaling => phase \in ScalePhases /\ op.kind \in ScaleKinds
    /\ pc \in Awaiting => \/ phase = "create" /\ op.kind = "create"
                          \/ phase \in ScalePhases /\ op.kind \in ScaleKinds
    /\ pc \in Deleting => phase = "delete" /\ op.kind = "delete"
    /\ pc \in Open => op.plan # <<>>

(***************************************************************************)
(* The role is the one the process found until it creates one; that one    *)
(* lacks only the policies the constructor still has to attach.            *)
(***************************************************************************)
RoleSound ==
    /\ pc \notin {"off", "connect", "role", "create_role"} => role.made
    /\ Constructed => entry
    /\ pc \in {"connect", "role", "create_role"} => role = found.role
    /\ pc \in {"create_role", "attach"} => ~found.role.made
    /\ pc = "attach" => Policies \subseteq role.policies \cup client.todo
    /\ pc \notin {"off", "connect", "role", "create_role", "attach"} =>
          role.policies = IF found.role.made THEN found.role.policies ELSE Policies

(***************************************************************************)
(* Until the process checks for a launch template there is the one it      *)
(* found at its start, or none; afterwards the client has the id of the    *)
(* one there is, and all() keeps it up to its deletion.                    *)
(***************************************************************************)
KnowsTemplate == client.template_id = template.id /\ template.id # 0

TemplateSound ==
    /\ \/ pc \in Building \cup {"plugin", "reserve", "template", "new_template"}
       \/ pc = "call" /\ phase = "create"
       => template.id = found.template /\ template.reservation = found.reservation
    /\ pc = "new_template" => template.id = 0
    /\ (pc = "group" \/ (pc \in Awaiting /\ op.kind = "create")) =>
          /\ KnowsTemplate
          /\ template.reservation =
                IF found.template = 0 THEN op.reservation ELSE found.reservation
    /\ args.cmd = "all" =>
          /\ (pc = "returned" /\ phase = "create" /\ result) => KnowsTemplate
          /\ (pc # "off" /\ phase \in ScalePhases) => KnowsTemplate
          /\ (phase = "delete" /\ pc \in {"call", "delete_template"}) => KnowsTemplate
          /\ (phase = "delete" /\ pc \in {"delete_group", "deleted"}) => template.id = 0

(***************************************************************************)
(* While an operation is waited for, the group is not on its way out, and  *)
(* it is the one the operation asked for.                                  *)
(***************************************************************************)
GroupSound ==
    /\ pc \in Creating => Head(op.plan) = args.node_count
    /\ pc \in Awaiting =>
          /\ group.status \notin {"none", "deleting"}
          /\ group.desired = Head(op.plan)
          /\ op.kind = "create" => group.template = template.id
          /\ op.kind # "create" => group.max >= Head(op.plan)

(***************************************************************************)
(* all(): what its results say.                                            *)
(***************************************************************************)
AllSound ==
    args.cmd = "all" =>
        /\ (pc # "off" /\ phase = "create") => ~results["create"]
        /\ (pc = "returned" /\ phase = "delete") =>
              /\ records # <<>> /\ Last.kind = "delete"
              /\ result => group.status = "none" /\ template.id = 0
        /\ (pc = "off" /\ results["create"]) =>
              /\ records # <<>> /\ Last.kind = "delete"
              /\ results["delete"] => group.status = "none" /\ template.id = 0

(***************************************************************************)
(* A failure the process has recorded is in the result of an operation     *)
(* that returned, or that is about to.                                     *)
(***************************************************************************)
Before(p) ==
    CASE p = "create"     -> {}
      [] p = "scale_up"   -> {"create"}
      [] p = "scale_down" -> {"create", "scale_up"}
      [] p = "delete"     -> {"create", "scale_up", "scale_down"}

FailureRecorded == \E i \in found.records + 1 .. Len(records) : ~records[i].ok

FailureKept ==
    \/ pc = "off" /\ (exit_code = 1 \/ status = 1)
    \/ pc = "returned" /\ ~result
    \/ pc # "off" /\ args.cmd = "all" /\ \E p \in Before(phase) : ~results[p]

HonestSoFar ==
    /\ found.records <= Len(records)
    /\ FailureRecorded => FailureKept

Inv ==
    /\ Types /\ PcSound /\ RoleSound /\ TemplateSound
    /\ GroupSound /\ AllSound /\ HonestSoFar

---------------------------------------------------------------------------
(* Records *)

(***************************************************************************)
(* A record is appended: nothing earlier changes, and only a failure adds  *)
(* to the failures on record.                                              *)
(***************************************************************************)
LEMMA AppendFacts ==
    ASSUME Types, NEW r \in Records, records' = Append(records, r)
    PROVE  /\ records' \in Seq(Records) /\ records' # <<>>
           /\ Len(records) \in Nat /\ Len(records') = Len(records) + 1
           /\ Last' = r
           /\ \A i \in 1 .. Len(records) : records'[i] = records[i]
<1>1. records \in Seq(Records)
  BY DEF Types, ClientTypes
<1>2. /\ records' \in Seq(Records)
      /\ Len(records) \in Nat /\ Len(records') = Len(records) + 1
      /\ records'[Len(records) + 1] = r
      /\ \A i \in 1 .. Len(records) : records'[i] = records[i]
  BY <1>1
<1>3. records' # <<>>
  <2>1. Len(records') # 0 /\ Len(<<>>) = 0
    BY <1>2
  <2> QED BY <2>1
<1> QED BY <1>2, <1>3 DEF Last

LEMMA FailureAppended ==
    ASSUME Inv, NEW r \in Records, records' = Append(records, r), found' = found
    PROVE  /\ found'.records <= Len(records')
           /\ FailureRecorded' => FailureRecorded \/ ~r.ok
<1>1. /\ Len(records) \in Nat /\ Len(records') = Len(records) + 1
      /\ records'[Len(records')] = r
      /\ \A i \in 1 .. Len(records) : records'[i] = records[i]
  BY AppendFacts DEF Inv, Last
<1>2. found.records \in Nat /\ found.records <= Len(records)
  BY DEF Inv, Types, RunTypes, Findings, HonestSoFar
<1>3. ASSUME FailureRecorded' PROVE FailureRecorded \/ ~r.ok
  <2>1. PICK i \in found.records + 1 .. Len(records') : ~records'[i].ok
    BY <1>3 DEF FailureRecorded
  <2>2. CASE i = Len(records')
    BY <1>1, <2>1, <2>2
  <2>3. CASE i # Len(records')
    <3>1. i \in found.records + 1 .. Len(records) /\ i \in 1 .. Len(records)
      BY <1>1, <1>2, <2>3
    <3> QED BY <1>1, <2>1, <3>1 DEF FailureRecorded
  <2> QED BY <2>2, <2>3
<1> QED BY <1>1, <1>2, <1>3

LEMMA HeadType ==
    ASSUME NEW s \in Seq(Int), s # <<>>
    PROVE  Head(s) \in Int /\ Len(s) \in Nat \ {0} /\ Tail(s) \in Seq(Int)
OBVIOUS

(***************************************************************************)
(* The record of the open operation.                                       *)
(***************************************************************************)
LEMMA LeaveFacts ==
    ASSUME Inv, pc \in Open, NEW ok \in BOOLEAN, Leave(ok), found' = found
    PROVE  /\ records' \in Seq(Records) /\ records' # <<>>
           /\ Last'.kind = op.kind /\ Last'.ok = ok /\ Last'.target = Head(op.plan)
           /\ found'.records <= Len(records')
           /\ FailureRecorded' => FailureRecorded \/ ~ok
<1> PICK r : r = [kind |-> op.kind, from |-> op.from, target |-> Head(op.plan), ok |-> ok]
  OBVIOUS
<1>1. Head(op.plan) \in Int
  BY HeadType DEF Inv, Types, ClientTypes, PcSound
<1>2. r \in Records
  BY <1>1 DEF Inv, Types, ClientTypes, Records
<1>3. records' = Append(records, r)
  BY DEF Leave
<1>4. r.kind = op.kind /\ r.ok = ok /\ r.target = Head(op.plan)
  OBVIOUS
<1>5. records' \in Seq(Records) /\ records' # <<>> /\ Last' = r
  BY <1>2, <1>3, AppendFacts DEF Inv
<1>6. found'.records <= Len(records') /\ (FailureRecorded' => FailureRecorded \/ ~r.ok)
  BY <1>2, <1>3, FailureAppended
<1> QED BY <1>4, <1>5, <1>6

---------------------------------------------------------------------------
(* Ends of an operation and of a process *)

runFrame == <<runs, results, exit_code, found>>

(***************************************************************************)
(* An open operation fails, after a request that may have taken effect:    *)
(* all() has it among its results afterwards.                              *)
(***************************************************************************)
LEMMA LateRaiseInv ==
    ASSUME Inv, pc \in Open, Raise, UNCHANGED <<role, entry, runFrame>>, CloudTypes',
           phase \in ScalePhases => UNCHANGED template
    PROVE  Inv'
<1> USE DEF Inv, Raise, Return, runFrame
<1>1. /\ records' \in Seq(Records) /\ records' # <<>> /\ Last'.kind = op.kind
      /\ found'.records <= Len(records')
  BY LeaveFacts
<1>2. result' \in BOOLEAN /\ ~result'
  BY Zenon
<1>3. Types'
  BY <1>1, <1>2 DEF Types, CloudTypes, ClientTypes, RunTypes, PCs
<1>4. PcSound'
  BY DEF PcSound, Building, Creating, Scaling, Awaiting, Deleting, Open
<1>5. RoleSound'
  BY DEF RoleSound, Constructed, Open, Creating, Scaling, Awaiting, Deleting
<1>6. TemplateSound'
  BY <1>2 DEF TemplateSound, KnowsTemplate, Building, Awaiting, Open, Creating, Scaling, Deleting
<1>7. GroupSound'
  BY DEF GroupSound, Creating, Awaiting
<1>8. AllSound'
  BY <1>1, <1>2 DEF AllSound, PcSound, Open, Creating, Scaling, Awaiting, Deleting, ScalePhases
<1>9. HonestSoFar'
  BY <1>1, <1>2 DEF HonestSoFar, FailureKept
<1> QED BY <1>3, <1>4, <1>5, <1>6, <1>7, <1>8, <1>9

LEMMA RaiseInv ==
    ASSUME Inv, pc \in Open, Raise, UNCHANGED <<cloudVars, runFrame>>
    PROVE  Inv'
<1>1. CloudTypes'
  BY DEF Inv, Types, CloudTypes, cloudVars
<1> QED BY <1>1, LateRaiseInv DEF cloudVars

(***************************************************************************)
(* sys.exit() inside create_node_group, after a launch template that may   *)
(* have been created.                                                      *)
(***************************************************************************)
LEMMA SystemExitInv ==
    ASSUME Inv, pc \in {"reserve", "template", "new_template"}, SystemExit,
           UNCHANGED <<role, entry, group, runFrame>>,
           template' \in [id: 0 .. MaxTemplates, next: 1 .. MaxTemplates + 1,
                          reservation: Reservations \cup {NoRes}]
    PROVE  Inv'
<1> USE DEF Inv, SystemExit, runFrame
<1>1. records' \in Seq(Records) /\ found'.records <= Len(records')
  BY LeaveFacts DEF Open, Creating
<1>3. Types'
  BY <1>1 DEF Types, CloudTypes, ClientTypes, RunTypes, PCs
<1>4. PcSound'
  BY DEF PcSound, Building, Creating, Scaling, Awaiting, Deleting, Open
<1>5. RoleSound'
  BY DEF RoleSound, Constructed
<1>6. TemplateSound'
  BY DEF TemplateSound, Building, Awaiting
<1>7. GroupSound'
  BY DEF GroupSound, Creating, Awaiting
<1>8. AllSound'
  BY DEF AllSound, PcSound, Creating
<1>9. HonestSoFar'
  BY <1>1 DEF HonestSoFar, FailureKept
<1> QED BY <1>3, <1>4, <1>5, <1>6, <1>7, <1>8, <1>9

(***************************************************************************)
(* An exception in the constructor, or of the plugin, ends the process and *)
(* leaves the role as it is.                                               *)
(***************************************************************************)
LEMMA DieInv ==
    ASSUME Inv, pc \in Building \cup {"plugin"}, Die,
           UNCHANGED <<template, group, runFrame>>, entry' \in BOOLEAN,
           role' \in [made: BOOLEAN, policies: SUBSET Policies]
    PROVE  Inv'
<1> USE DEF Inv, Die, runFrame
<1>3. Types'
  BY DEF Types, CloudTypes, ClientTypes, RunTypes, PCs
<1>4. PcSound'
  BY DEF PcSound, Building, Creating, Scaling, Awaiting, Deleting, Open
<1>5. RoleSound'
  BY DEF RoleSound, Constructed
<1>6. TemplateSound'
  BY DEF TemplateSound, Building, Awaiting
<1>7. GroupSound'
  BY DEF GroupSound, Creating, Awaiting
<1>8. AllSound'
  BY DEF AllSound, PcSound, Building
<1>9. HonestSoFar'
  BY DEF HonestSoFar, FailureKept
<1> QED BY <1>3, <1>4, <1>5, <1>6, <1>7, <1>8, <1>9

---------------------------------------------------------------------------
(* The constructor *)

(***************************************************************************)
(* A step inside the constructor has to care for the role only.            *)
(***************************************************************************)
LEMMA BuildInv ==
    ASSUME Inv, pc \in Building, pc' \in Building \cup {"plugin"},
           UNCHANGED <<args, phase, op, result, records, status, template, group>>,
           UNCHANGED runFrame,
           client' \in [template_id: 0 .. MaxTemplates, todo: SUBSET Policies, tries: Int],
           role' \in [made: BOOLEAN, policies: SUBSET Policies], entry' \in BOOLEAN,
           RoleSound'
    PROVE  Inv'
<1> USE DEF Inv, runFrame
<1>3. Types'
  BY DEF Types, CloudTypes, ClientTypes, RunTypes, PCs, Building
<1>4. PcSound'
  BY DEF PcSound, Building, Creating, Scaling, Awaiting, Deleting, Open
<1>6. TemplateSound'
  <2>1. template.id = found.template
    BY DEF TemplateSound
  <2>2. args.cmd = "all" => phase = "create"
    BY DEF PcSound
  <2> QED BY <2>1, <2>2 DEF TemplateSound, Building, Awaiting, ScalePhases
<1>7. GroupSound'
  BY DEF GroupSound, Creating, Awaiting, Building
<1>8. AllSound'
  BY DEF AllSound, PcSound, Building
<1>9. HonestSoFar'
  BY DEF HonestSoFar, FailureKept, FailureRecorded, Building
<1> QED BY <1>3, <1>4, <1>6, <1>7, <1>8, <1>9

LEMMA ConstructInv ==
    ASSUME Inv, Construct, UNCHANGED runFrame
    PROVE  Inv'
<1> USE DEF cloudVars, runFrame
<1>0. /\ role \in [made: BOOLEAN, policies: SUBSET Policies] /\ entry \in BOOLEAN
      /\ client \in [template_id: 0 .. MaxTemplates, todo: SUBSET Policies, tries: Int]
      /\ RoleSound
  BY DEF Inv, Types, CloudTypes, ClientTypes
<1>a. CASE /\ Die /\ UNCHANGED <<template, group>> /\ entry' \in BOOLEAN
           /\ role' \in [made: BOOLEAN, policies: SUBSET Policies]
  <2>1. pc \in Building
    BY DEF Construct, Connect, CheckRole, CreateRole, AttachPolicy, Attached, GetRole,
           CheckEntry, CreateEntry, Building
  <2> QED BY <1>a, <2>1, DieInv
<1>1. CASE Connect
  BY <1>0, <1>1, <1>a, BuildInv
  DEF Connect, Goto, RoleSound, Constructed, Building
<1>2. CASE CheckRole
  BY <1>0, <1>2, <1>a, BuildInv
  DEF CheckRole, Goto, RoleSound, Constructed, Building
<1>3. CASE CreateRole
  <2>1. /\ role' = [made |-> TRUE, policies |-> {}] \/ role' = role
        /\ pc = "create_role" /\ UNCHANGED <<entry, template, group>>
    BY <1>3 DEF CreateRole
  <2>2. role' \in [made: BOOLEAN, policies: SUBSET Policies]
    <3>1. TRUE \in BOOLEAN
      BY Zenon
    <3>2. [made |-> TRUE, policies |-> {}] \in [made: BOOLEAN, policies: SUBSET Policies]
      BY <3>1
    <3> QED BY <1>0, <2>1, <3>2
  <2> SUFFICES ASSUME ~Die PROVE Inv'
    BY <1>0, <2>1, <2>2, <1>a
  <2>3. /\ role' = [made |-> TRUE, policies |-> {}]
        /\ client' = [client EXCEPT !.todo = Policies]
        /\ pc' = "attach"
        /\ UNCHANGED <<args, phase, op, result, records, status>>
    BY <1>3 DEF CreateRole
  <2>4. /\ client' \in [template_id: 0 .. MaxTemplates, todo: SUBSET Policies, tries: Int]
        /\ client'.todo = Policies /\ role'.made
    BY <1>0, <2>3
  <2>5. RoleSound'
    BY <1>0, <2>1, <2>3, <2>4 DEF RoleSound, Constructed
  <2> QED BY <1>0, <2>1, <2>2, <2>3, <2>4, <2>5, BuildInv DEF Building
<1>4. CASE AttachPolicy
  <2>1. pc = "attach" /\ UNCHANGED <<entry, template, group>>
    BY <1>4 DEF AttachPolicy
  <2>2. role' \in [made: BOOLEAN, policies: SUBSET Policies]
    BY <1>0, <1>4 DEF AttachPolicy
  <2> SUFFICES ASSUME ~Die PROVE Inv'
    BY <1>0, <2>1, <2>2, <1>a
  <2>3. PICK p \in client.todo :
           /\ role' = [role EXCEPT !.policies = @ \cup {p}]
           /\ client' = [client EXCEPT !.todo = @ \ {p}]
           /\ UNCHANGED <<args, pc, phase, op, result, records, status>>
    BY <1>4 DEF AttachPolicy
  <2>4. /\ client' \in [template_id: 0 .. MaxTemplates, todo: SUBSET Policies, tries: Int]
        /\ role'.made = role.made /\ role'.policies = role.policies \cup {p}
        /\ client'.todo = client.todo \ {p}
    BY <1>0, <2>3
  <2>5. RoleSound'
    BY <1>0, <2>1, <2>3, <2>4 DEF RoleSound, Constructed
  <2> QED BY <1>0, <2>1, <2>2, <2>3, <2>4, <2>5, BuildInv DEF Building
<1>5. CASE Attached
  BY <1>0, <1>5, BuildInv
  DEF Attached, Goto, RoleSound, Constructed, Building
<1>6. CASE GetRole
  BY <1>0, <1>6, <1>a, BuildInv
  DEF GetRole, AttemptSucceeds, AttemptFails, RoleSound, Constructed, Building
<1>7. CASE CheckEntry
  BY <1>0, <1>7, <1>a, BuildInv
  DEF CheckEntry, Goto, RoleSound, Constructed, Building
<1>8. CASE CreateEntry
  <2>1. entry' \in BOOLEAN /\ (pc' = "plugin" => entry')
    BY <1>0, <1>8, Zenon DEF CreateEntry, AttemptFails, Die
  <2>2. pc = "create_entry" /\ UNCHANGED <<role, template, group>>
    BY <1>8 DEF CreateEntry
  <2>3. AttemptSucceeds("plugin") \/ AttemptFails
    BY <1>8 DEF CreateEntry
  <2> QED BY <1>0, <2>1, <2>2, <2>3, <1>a, BuildInv
          DEF AttemptSucceeds, AttemptFails, RoleSound, Constructed, Building
<1> QED BY <1>1, <1>2, <1>3, <1>4, <1>5, <1>6, <1>7, <1>8 DEF Construct

---------------------------------------------------------------------------
(* Steps of an operation *)

(***************************************************************************)
(* A step that neither ends the operation nor records anything.            *)
(***************************************************************************)
LEMMA MoveInv ==
    ASSUME Inv, pc \in Open \cup {"call"}, pc' \in Open,
           UNCHANGED <<args, phase, result, records, status, role, entry>>,
           UNCHANGED runFrame,
           template' \in [id: 0 .. MaxTemplates, next: 1 .. MaxTemplates + 1,
                          reservation: Reservations \cup {NoRes}],
           group' \in [status: Statuses, min: Int, max: Int, desired: Int,
                       template: 0 .. MaxTemplates],
           client' \in [template_id: 0 .. MaxTemplates, todo: SUBSET Policies, tries: Int],
           op' \in [kind: Kinds, from: Int, plan: Seq(Int),
                    reservation: Reservations \cup {NoRes}],
           PcSound', TemplateSound', GroupSound'
    PROVE  Inv'
<1> USE DEF Inv, runFrame
<1>0. pc \notin {"off", "returned", "attach"} /\ pc' \notin {"off", "returned", "attach"} /\ pc' \in PCs
  BY DEF Open, Creating, Scaling, Awaiting, Deleting, PCs
<1>1. Types'
  BY <1>0 DEF Types, CloudTypes, ClientTypes, RunTypes
<1>2. RoleSound'
  BY <1>0 DEF RoleSound, Constructed, Open, Creating, Scaling, Awaiting, Deleting
<1>3. AllSound'
  BY <1>0 DEF AllSound
<1>4. HonestSoFar'
  BY <1>0 DEF HonestSoFar, FailureKept, FailureRecorded
<1> QED BY <1>1, <1>2, <1>3, <1>4

(***************************************************************************)
(* An operation that succeeds.                                             *)
(***************************************************************************)
LEMMA SuccessInv ==
    ASSUME Inv, pc \in Open, Leave(TRUE), Return(TRUE),
           UNCHANGED <<cloudVars, runFrame>>,
           phase = "create" => KnowsTemplate,
           phase = "delete" => group.status = "none" /\ (args.cmd = "all" => template.id = 0)
    PROVE  Inv'
<1> USE DEF Inv, Return, cloudVars, runFrame
<1>0. pc \notin {"off", "returned", "attach"} /\ Constructed /\ TRUE \in BOOLEAN
  BY DEF Open, Creating, Scaling, Awaiting, Deleting, Constructed
<1>1. /\ records' \in Seq(Records) /\ records' # <<>> /\ Last'.kind = op.kind
      /\ found'.records <= Len(records')
      /\ FailureRecorded' => FailureRecorded
  BY <1>0, LeaveFacts
<1>2. result' \in BOOLEAN
  BY Zenon
<1>3. Types'
  BY <1>1, <1>2 DEF Types, CloudTypes, ClientTypes, RunTypes, PCs
<1>4. PcSound'
  BY DEF PcSound, Building, Creating, Scaling, Awaiting, Deleting, Open
<1>5. RoleSound'
  BY <1>0 DEF RoleSound, Constructed
<1>6. TemplateSound'
  BY <1>0 DEF TemplateSound, KnowsTemplate, Building, Awaiting
<1>7. GroupSound'
  BY DEF GroupSound, Creating, Awaiting
<1>8. AllSound'
  BY <1>0, <1>1 DEF AllSound, PcSound, Open, Creating, Scaling, Awaiting, Deleting, ScalePhases
<1>9. HonestSoFar'
  BY <1>0, <1>1 DEF HonestSoFar, FailureKept
<1> QED BY <1>3, <1>4, <1>5, <1>6, <1>7, <1>8, <1>9

(***************************************************************************)
(* An exception before any context is opened: nothing is recorded.         *)
(***************************************************************************)
LEMMA QuietFailureInv ==
    ASSUME Inv, pc \in {"call", "step"}, phase \in ScalePhases, Return(FALSE),
           UNCHANGED <<cloudVars, records, runFrame>>
    PROVE  Inv'
<1> USE DEF Inv, Return, cloudVars, runFrame
<1>2. result' \in BOOLEAN /\ ~result'
  BY Zenon
<1>3. Types'
  BY <1>2 DEF Types, CloudTypes, ClientTypes, RunTypes, PCs
<1>4. PcSound'
  BY DEF PcSound, Building, Creating, Scaling, Awaiting, Deleting, Open
<1>5. RoleSound'
  BY DEF RoleSound, Constructed
<1>6. TemplateSound'
  BY <1>2 DEF TemplateSound, KnowsTemplate, Building, Awaiting, ScalePhases
<1>7. GroupSound'
  BY DEF GroupSound, Creating, Awaiting
<1>8. AllSound'
  BY <1>2 DEF AllSound, ScalePhases
<1>9. HonestSoFar'
  BY <1>2 DEF HonestSoFar, FailureKept
<1> QED BY <1>3, <1>4, <1>5, <1>6, <1>7, <1>8, <1>9

---------------------------------------------------------------------------
(* create_node_group *)

(***************************************************************************)
(* The types of the fields, for the steps below.                           *)
(***************************************************************************)
LEMMA Fields ==
    ASSUME Inv
    PROVE  /\ args.node_count \in Int /\ args.target_count \in Int
           /\ args.scale_step_size \in Int
           /\ template \in [id: 0 .. MaxTemplates, next: 1 .. MaxTemplates + 1,
                            reservation: Reservations \cup {NoRes}]
           /\ group \in [status: Statuses, min: Int, max: Int, desired: Int,
                         template: 0 .. MaxTemplates]
           /\ client \in [template_id: 0 .. MaxTemplates, todo: SUBSET Policies, tries: Int]
           /\ op \in [kind: Kinds, from: Int, plan: Seq(Int),
                      reservation: Reservations \cup {NoRes}]
           /\ pc \in Open => Head(op.plan) \in Int
<1>1. pc \in Open => Head(op.plan) \in Int
  BY HeadType DEF Inv, Types, ClientTypes, PcSound
<1>2. args.node_count \in Counts /\ args.target_count \in Counts /\ args.scale_step_size \in Int
  BY CommandAssumption DEF Inv, Types, ClientTypes
<1>3. Counts \subseteq Int
  BY CloudAssumption DEF Counts
<1> QED BY <1>1, <1>2, <1>3 DEF Inv, Types, CloudTypes, ClientTypes

LEMMA AmiUnknownInv ==
    ASSUME Inv, AmiUnknown, UNCHANGED runFrame
    PROVE  Inv'
<1> USE DEF Inv, AmiUnknown, Return, cloudVars, runFrame
<1> PICK r : r = [kind |-> "create", from |-> 0, target |-> args.node_count, ok |-> FALSE]
  OBVIOUS
<1>0. FALSE \in BOOLEAN
  OBVIOUS
<1>1. r \in Records
  BY <1>0, Fields DEF Records, Kinds
<1>2. records' \in Seq(Records) /\ found'.records <= Len(records')
  BY <1>1, AppendFacts, FailureAppended
<1>3. result' \in BOOLEAN /\ ~result'
  BY Zenon
<1>4. Types'
  BY <1>2, <1>3 DEF Types, CloudTypes, ClientTypes, RunTypes, PCs
<1>5. PcSound'
  BY DEF PcSound, Building, Creating, Scaling, Awaiting, Deleting, Open
<1>6. RoleSound'
  BY DEF RoleSound, Constructed
<1>7. TemplateSound'
  BY <1>3 DEF TemplateSound, KnowsTemplate, Building, Awaiting, ScalePhases
<1>8. GroupSound'
  BY DEF GroupSound, Creating, Awaiting
<1>9. AllSound'
  BY <1>3 DEF AllSound
<1>10. HonestSoFar'
  BY <1>2, <1>3 DEF HonestSoFar, FailureKept
<1> QED BY <1>4, <1>5, <1>6, <1>7, <1>8, <1>9, <1>10

LEMMA CreateCallInv ==
    ASSUME Inv, CreateCall, UNCHANGED runFrame
    PROVE  Inv'
<1> USE DEF cloudVars, runFrame
<1>1. /\ pc = "call" /\ phase = "create" /\ pc' \in {"reserve", "template"}
      /\ op' = [kind |-> "create", from |-> 0, plan |-> <<args.node_count>>, reservation |-> NoRes]
      /\ UNCHANGED <<args, phase, client, result, records, status>>
      /\ UNCHANGED cloudVars
  BY DEF CreateCall, Enter
<1>2. <<args.node_count>> \in Seq(Int) /\ <<args.node_count>> # <<>>
  BY Fields
<1>3. op' \in [kind: Kinds, from: Int, plan: Seq(Int), reservation: Reservations \cup {NoRes}]
  BY <1>1, <1>2 DEF Kinds
<1>4. PcSound'
  BY <1>1, <1>2 DEF PcSound, Building, Creating, Scaling, Awaiting, Deleting, Open
<1>5. TemplateSound' /\ GroupSound'
  BY <1>1 DEF Inv, TemplateSound, GroupSound, Building, Awaiting, ScalePhases
<1> QED BY <1>1, <1>3, <1>4, <1>5, Fields, MoveInv DEF Open, Creating

LEMMA ReserveInv ==
    ASSUME Inv, Reserve, UNCHANGED runFrame
    PROVE  Inv'
<1>0. pc = "reserve" /\ UNCHANGED cloudVars
  BY DEF Reserve
<1>1. CASE SystemExit
  BY <1>0, <1>1, Fields, SystemExitInv DEF cloudVars
<1>2. CASE Raise
  BY <1>0, <1>2, RaiseInv DEF Open, Creating
<1>3. CASE ~SystemExit /\ ~Raise
  <2> USE DEF cloudVars, runFrame
  <2>1. PICK r \in Reservations : op' = [op EXCEPT !.reservation = r]
    BY <1>3 DEF Reserve
  <2>2. pc' = "template" /\ UNCHANGED <<args, phase, client, result, records, status>>
    BY <1>3 DEF Reserve
  <2>3. /\ op' \in [kind: Kinds, from: Int, plan: Seq(Int),
                    reservation: Reservations \cup {NoRes}]
        /\ op'.kind = op.kind /\ op'.plan = op.plan
    BY <2>1, Fields
  <2>4. PcSound'
    BY <1>0, <2>2, <2>3
    DEF Inv, PcSound, Building, Creating, Scaling, Awaiting, Deleting, Open
  <2>5. TemplateSound' /\ GroupSound'
    BY <1>0, <2>2, <2>3 DEF Inv, PcSound, Creating, TemplateSound, GroupSound, Building, Awaiting, ScalePhases
  <2> QED BY <1>0, <2>2, <2>3, <2>4, <2>5, Fields, MoveInv DEF Open, Creating
<1> QED BY <1>1, <1>2, <1>3

LEMMA CheckTemplateInv ==
    ASSUME Inv, CheckTemplate, UNCHANGED runFrame
    PROVE  Inv'
<1>0. pc = "template" /\ UNCHANGED cloudVars
  BY DEF CheckTemplate
<1>1. CASE SystemExit
  BY <1>0, <1>1, Fields, SystemExitInv DEF cloudVars
<1> USE DEF cloudVars, runFrame
<1>2. CASE template.id = 0 /\ Goto("new_template")
  <2>1. pc' = "new_template" /\ UNCHANGED <<args, phase, client, op, result, records, status>>
    BY <1>2 DEF Goto
  <2>2. PcSound'
    BY <1>0, <2>1 DEF Inv, PcSound, Building, Creating, Scaling, Awaiting, Deleting, Open
  <2>3. TemplateSound' /\ GroupSound'
    BY <1>0, <1>2, <2>1
    DEF Inv, PcSound, Creating, TemplateSound, GroupSound, Building, Awaiting, ScalePhases
  <2> QED BY <1>0, <2>1, <2>2, <2>3, Fields, MoveInv DEF Open, Creating
<1>3. CASE /\ template.id # 0
           /\ client' = [client EXCEPT !.template_id = template.id]
           /\ pc' = "group"
           /\ UNCHANGED <<args, phase, op, result, records, status>>
  <2>1. /\ client' \in [template_id: 0 .. MaxTemplates, todo: SUBSET Policies, tries: Int]
        /\ client'.template_id = template.id
    BY <1>3, Fields
  <2>2. PcSound'
    BY <1>0, <1>3 DEF Inv, PcSound, Building, Creating, Scaling, Awaiting, Deleting, Open
  <2>3. found.template # 0 /\ phase = "create"
    BY <1>0, <1>3 DEF Inv, TemplateSound, PcSound, Creating
  <2>4. TemplateSound' /\ GroupSound'
    BY <1>0, <1>3, <2>1, <2>3
    DEF Inv, TemplateSound, KnowsTemplate, GroupSound, Building, Creating, Awaiting, ScalePhases
  <2> QED BY <1>0, <1>3, <2>1, <2>2, <2>4, Fields, MoveInv DEF Open, Creating
<1> QED BY <1>1, <1>2, <1>3 DEF CheckTemplate

LEMMA CreateTemplateInv ==
    ASSUME Inv, CreateTemplate, UNCHANGED runFrame
    PROVE  Inv'
<1>0. pc = "new_template" /\ UNCHANGED <<role, entry, group>>
  BY DEF CreateTemplate
<1>1. CASE SystemExit /\ UNCHANGED template
  BY <1>0, <1>1, Fields, SystemExitInv
<1>2. CASE ~(SystemExit /\ UNCHANGED template)
  <2> USE DEF runFrame
  <2>1. /\ template.next <= MaxTemplates
        /\ template' = [id |-> template.next, next |-> template.next + 1,
                        reservation |-> op.reservation]
    BY <1>2 DEF CreateTemplate
  <2>2. template.next \in 1 .. MaxTemplates /\ template.next + 1 \in 1 .. MaxTemplates + 1
    BY <2>1, Fields, CloudAssumption
  <2>3. /\ template' \in [id: 0 .. MaxTemplates, next: 1 .. MaxTemplates + 1,
                          reservation: Reservations \cup {NoRes}]
        /\ template'.id = template.next /\ template'.id # 0
        /\ template'.reservation = op.reservation
    BY <2>1, <2>2, Fields, CloudAssumption
  <2>4. CASE SystemExit
    BY <1>0, <2>3, <2>4, SystemExitInv
  <2>5. CASE ~SystemExit
    <3>1. /\ client' = [client EXCEPT !.template_id = template.next]
          /\ pc' = "group"
          /\ UNCHANGED <<args, phase, op, result, records, status>>
      BY <2>5 DEF CreateTemplate
    <3>2. /\ client' \in [template_id: 0 .. MaxTemplates, todo: SUBSET Policies, tries: Int]
          /\ client'.template_id = template'.id
      BY <2>2, <2>3, <3>1, Fields, CloudAssumption
    <3>3. PcSound'
      BY <1>0, <3>1 DEF Inv, PcSound, Building, Creating, Scaling, Awaiting, Deleting, Open
    <3>4. phase = "create" /\ found.template = 0
      BY <1>0 DEF Inv, PcSound, TemplateSound, Creating
    <3>5. TemplateSound' /\ GroupSound'
      BY <1>0, <2>3, <3>1, <3>2, <3>4
      DEF Inv, TemplateSound, KnowsTemplate, GroupSound, Building, Creating, Awaiting, ScalePhases
    <3> QED BY <1>0, <2>3, <3>1, <3>2, <3>3, <3>5, Fields, MoveInv DEF Open, Creating
  <2> QED BY <2>4, <2>5
<1> QED BY <1>1, <1>2

LEMMA CreateGroupInv ==
    ASSUME Inv, CreateGroup, UNCHANGED runFrame
    PROVE  Inv'
<1>0. pc = "group" /\ pc \in Open /\ UNCHANGED <<role, entry, template>>
  BY DEF CreateGroup, Open, Creating
<1>1. CASE Raise /\ UNCHANGED group
  BY <1>0, <1>1, LateRaiseInv DEF Inv, Types, CloudTypes
<1>2. CASE ~(Raise /\ UNCHANGED group)
  <2> USE DEF runFrame
  <2>1. /\ group' = [status |-> "creating", min |-> args.node_count, max |-> MaxSize,
                     desired |-> args.node_count, template |-> client.template_id]
    BY <1>2 DEF CreateGroup
  <2>2. MaxSize \in Int /\ client.template_id \in 0 .. MaxTemplates
    BY Fields DEF MaxSize
  <2>3. /\ group' \in [status: Statuses, min: Int, max: Int, desired: Int,
                       template: 0 .. MaxTemplates]
        /\ group'.status = "creating" /\ group'.desired = args.node_count
        /\ group'.template = client.template_id
    BY <2>1, <2>2, Fields DEF Statuses
  <2>4. CASE Raise
    BY <1>0, <2>3, <2>4, LateRaiseInv DEF Inv, Types, CloudTypes
  <2>5. CASE ~Raise
    <3>1. pc' = "active" /\ UNCHANGED <<args, phase, client, op, result, records, status>>
      BY <2>5 DEF CreateGroup, Goto
    <3>2. PcSound' /\ op.kind = "create" /\ phase = "create"
      BY <1>0, <3>1 DEF Inv, PcSound, Building, Creating, Scaling, Awaiting, Deleting, Open
    <3>3. /\ KnowsTemplate
          /\ template.reservation =
                IF found.template = 0 THEN op.reservation ELSE found.reservation
      BY <1>0 DEF Inv, TemplateSound
    <3>4. TemplateSound'
      BY <1>0, <3>1, <3>2, <3>3 DEF TemplateSound, KnowsTemplate, Building, Awaiting, ScalePhases
    <3>5. Head(op.plan) = args.node_count
      BY <1>0 DEF Inv, GroupSound, Creating
    <3>6. GroupSound'
      BY <1>0, <2>3, <3>1, <3>2, <3>3, <3>5 DEF GroupSound, KnowsTemplate, Creating
    <3> QED BY <1>0, <2>3, <3>1, <3>2, <3>4, <3>6, Fields, MoveInv DEF Open, Awaiting
  <2> QED BY <2>4, <2>5
<1> QED BY <1>1, <1>2

(***************************************************************************)
(* The waits for the group and for its nodes, of a creation or of a step.  *)
(***************************************************************************)
LEMMA WaitInv ==
    ASSUME Inv, WaitActive \/ WaitNodes, UNCHANGED runFrame
    PROVE  Inv'
<1>0. pc \in {"active", "nodes"} /\ UNCHANGED cloudVars
  BY DEF WaitActive, WaitNodes
<1>1. CASE Raise
  BY <1>0, <1>1, RaiseInv DEF Open, Awaiting
<1>2. CASE ~Raise
  <2> USE DEF cloudVars, runFrame
  <2>1. /\ pc' \in {"nodes", "finish"}
        /\ UNCHANGED <<args, phase, client, op, result, records, status>>
    BY <1>2 DEF WaitActive, WaitNodes, Goto
  <2>2. PcSound'
    BY <1>0, <2>1 DEF Inv, PcSound, Building, Creating, Scaling, Awaiting, Deleting, Open
  <2>3. TemplateSound'
    BY <1>0, <2>1 DEF Inv, PcSound, TemplateSound, KnowsTemplate, Building, Awaiting, ScalePhases
  <2>4. GroupSound'
    BY <1>0, <2>1 DEF Inv, GroupSound, Creating, Awaiting
  <2> QED BY <1>0, <2>1, <2>2, <2>3, <2>4, Fields, MoveInv DEF Open, Awaiting
<1> QED BY <1>1, <1>2

LEMMA FinishCreateInv ==
    ASSUME Inv, FinishCreate, UNCHANGED runFrame
    PROVE  Inv'
<1>0. pc = "finish" /\ op.kind = "create" /\ UNCHANGED cloudVars
  BY DEF FinishCreate
<1>1. CASE Raise
  BY <1>0, <1>1, RaiseInv DEF Open, Awaiting
<1>2. CASE Leave(TRUE) /\ Return(TRUE)
  <2>1. KnowsTemplate
    BY <1>0 DEF Inv, TemplateSound, Awaiting
  <2>2. phase = "create"
    BY <1>0 DEF Inv, PcSound, Awaiting, ScaleKinds
  <2> QED BY <1>0, <1>2, <2>1, <2>2, SuccessInv DEF Open, Awaiting
<1> QED BY <1>1, <1>2 DEF FinishCreate

---------------------------------------------------------------------------
(* scale_node_group *)

LEMMA DivNat ==
    ASSUME NEW n \in Nat, NEW d \in Nat, d > 0
    PROVE  n \div d \in Nat
BY SMT

LEMMA RangeIsSeq ==
    ASSUME NEW start \in Int, NEW stop \in Int, NEW step \in Int
    PROVE  PyRange(start, stop, step) \in Seq(Int)
<1>1. RangeLen(start, stop, step) \in Nat
  <2>1. CASE step > 0 /\ start < stop
    <3>1. stop - start + step - 1 \in Nat /\ step \in Nat
      BY <2>1
    <3>2. (stop - start + step - 1) \div step \in Nat
      BY <2>1, <3>1, DivNat
    <3> QED BY <2>1, <3>2 DEF RangeLen
  <2>2. CASE step < 0 /\ start > stop
    <3>1. start - stop - step - 1 \in Nat /\ -step \in Nat /\ -step > 0
      BY <2>2
    <3>2. (start - stop - step - 1) \div (-step) \in Nat
      BY <3>1, DivNat
    <3> QED BY <2>2, <3>2 DEF RangeLen
  <2> QED BY <2>1, <2>2 DEF RangeLen
<1>2. \A i \in 1 .. RangeLen(start, stop, step) : start + (i - 1) * step \in Int
  BY <1>1
<1> HIDE DEF RangeLen
<1> QED BY <1>1, <1>2 DEF PyRange

(***************************************************************************)
(* The plan of a progressive scaling has at least one step.                *)
(***************************************************************************)
LEMMA PlanFacts ==
    ASSUME NEW current \in Int, NEW target \in Int, NEW size \in Int
    PROVE  /\ Steps(current, target, size) \in Seq(Int)
           /\ Steps(current, target, size) # <<>>
<1> PICK planned : planned = Planned(current, target, size)
  OBVIOUS
<1>1. planned \in Seq(Int)
  BY RangeIsSeq DEF Planned
<1>2. CASE Len(planned) = 0
  BY <1>2 DEF Steps
<1>3. CASE Len(planned) # 0
  <2>1. Append(planned, target) \in Seq(Int) /\ Len(Append(planned, target)) # 0
    BY <1>1
  <2>2. /\ Steps(current, target, size) \in {planned, Append(planned, target)}
    BY <1>3 DEF Steps
  <2>3. Len(<<>>) = 0
    OBVIOUS
  <2> QED BY <1>1, <1>3, <2>1, <2>2, <2>3
<1> QED BY <1>2, <1>3

LEMMA ScaleCallInv ==
    ASSUME Inv, ScaleCall, UNCHANGED runFrame
    PROVE  Inv'
<1>0. pc = "call" /\ phase \in ScalePhases /\ UNCHANGED cloudVars
  BY DEF ScaleCall, ScalePhases
<1>1. CASE Return(FALSE) /\ UNCHANGED records
  BY <1>0, <1>1, QuietFailureInv
<1>2. CASE ~(Return(FALSE) /\ UNCHANGED records)
  <2> USE DEF cloudVars, runFrame
  <2>0. Wanted \in Int /\ group.desired \in Int /\ args.scale_step_size \in Int
    BY Fields DEF Wanted
  <2>1. PICK plan \in Seq(Int) : plan # <<>> /\ Enter("scale", plan, "step")
    <3>1. /\ <<Wanted>> \in Seq(Int) /\ <<Wanted>> # <<>>
          /\ PlanOf(group.desired) \in Seq(Int) /\ PlanOf(group.desired) # <<>>
      <4>1. PlanOf(group.desired) \in Seq(Int) /\ PlanOf(group.desired) # <<>>
        BY <2>0, PlanFacts DEF PlanOf
      <4> QED BY <2>0, <4>1
    <3> QED BY <1>2, <3>1 DEF ScaleCall
  <2>2. /\ pc' = "step"
        /\ op' = [kind |-> "scale", from |-> 0, plan |-> plan, reservation |-> NoRes]
        /\ UNCHANGED <<args, phase, client, result, records, status>>
    BY <2>1 DEF Enter
  <2>3. /\ op' \in [kind: Kinds, from: Int, plan: Seq(Int),
                    reservation: Reservations \cup {NoRes}]
        /\ op'.kind = "scale" /\ op'.plan # <<>>
    BY <2>1, <2>2 DEF Kinds
  <2>4. PcSound'
    BY <1>0, <2>2, <2>3
    DEF PcSound, Building, Creating, Scaling, Awaiting, Deleting, Open, ScaleKinds
  <2>5. TemplateSound' /\ GroupSound'
    BY <1>0, <2>2
    DEF Inv, TemplateSound, KnowsTemplate, GroupSound, Building, Creating, Awaiting, ScalePhases
  <2> QED BY <1>0, <2>2, <2>3, <2>4, <2>5, Fields, MoveInv DEF Open, Scaling
<1> QED BY <1>1, <1>2

LEMMA StepInv ==
    ASSUME Inv, Step, UNCHANGED runFrame
    PROVE  Inv'
<1>0. pc = "step" /\ phase \in ScalePhases /\ UNCHANGED cloudVars
  BY DEF Step, Inv, PcSound, Scaling
<1>1. CASE Return(FALSE) /\ UNCHANGED records
  BY <1>0, <1>1, QuietFailureInv
<1>2. CASE ~(Return(FALSE) /\ UNCHANGED records)
  <2> USE DEF cloudVars, runFrame
  <2> PICK k : k = KindOf(group.desired, Head(op.plan))
    OBVIOUS
  <2>1. /\ op' = [op EXCEPT !.kind = k, !.from = group.desired]
        /\ pc' = "update"
        /\ UNCHANGED <<args, phase, client, result, records, status>>
    BY <1>2 DEF Step
  <2>2. k \in ScaleKinds /\ k \in Kinds
    BY DEF KindOf, ScaleKinds, Kinds
  <2>3. /\ op' \in [kind: Kinds, from: Int, plan: Seq(Int),
                    reservation: Reservations \cup {NoRes}]
        /\ op'.kind = k /\ op'.plan = op.plan
    BY <2>1, <2>2, Fields
  <2>4. PcSound'
    BY <1>0, <2>1, <2>2, <2>3
    DEF Inv, PcSound, Building, Creating, Scaling, Awaiting, Deleting, Open
  <2>5. TemplateSound' /\ GroupSound'
    BY <1>0, <2>1
    DEF Inv, TemplateSound, KnowsTemplate, GroupSound, Building, Creating, Awaiting, ScalePhases
  <2> QED BY <1>0, <2>1, <2>3, <2>4, <2>5, Fields, MoveInv DEF Open, Scaling
<1> QED BY <1>1, <1>2

LEMMA UpdateInv ==
    ASSUME Inv, Update, UNCHANGED runFrame
    PROVE  Inv'
<1>0. /\ pc = "update" /\ phase \in ScalePhases /\ op.kind \in ScaleKinds /\ pc \in Open
      /\ UNCHANGED <<role, entry, template>>
  BY DEF Update, Inv, PcSound, Scaling, Open
<1>1. CASE Raise /\ UNCHANGED group
  BY <1>0, <1>1, LateRaiseInv DEF Inv, Types, CloudTypes
<1>2. CASE ~(Raise /\ UNCHANGED group)
  <2> USE DEF runFrame
  <2> PICK count : count = Head(op.plan)
    OBVIOUS
  <2>0. count \in Int
    BY <1>0, Fields
  <2>1. PICK s \in {"updating", "active"} :
           group' = [group EXCEPT !.status = s, !.desired = count,
                                  !.max = IF @ < count THEN count ELSE @]
    BY <1>2 DEF Update
  <2>2. /\ group' \in [status: Statuses, min: Int, max: Int, desired: Int,
                       template: 0 .. MaxTemplates]
        /\ group'.status \in {"updating", "active"}
        /\ group'.desired = count /\ group'.max >= count
    <3> PICK m : m = IF group.max < count THEN count ELSE group.max
      OBVIOUS
    <3>1. m \in Int /\ m >= count
      BY <2>0, Fields
    <3>2. group' = [group EXCEPT !.status = s, !.desired = count, !.max = m]
      BY <2>1, Fields
    <3>3. s \in Statuses
      BY DEF Statuses
    <3> QED BY <2>0, <3>1, <3>2, <3>3, Fields
  <2>3. CASE Raise
    BY <1>0, <2>2, <2>3, LateRaiseInv DEF Inv, Types, CloudTypes
  <2>4. CASE ~Raise
    <3>1. pc' = "active" /\ UNCHANGED <<args, phase, client, op, result, records, status>>
      BY <2>4 DEF Update, Goto
    <3>2. PcSound'
      BY <1>0, <3>1
      DEF Inv, PcSound, Building, Creating, Scaling, Awaiting, Deleting, Open
    <3>3. TemplateSound'
      BY <1>0, <3>1
      DEF Inv, TemplateSound, KnowsTemplate, Building, Awaiting, ScalePhases, ScaleKinds
    <3>4. GroupSound'
      BY <1>0, <2>2, <3>1 DEF GroupSound, Creating, ScaleKinds
    <3> QED BY <1>0, <2>2, <3>1, <3>2, <3>3, <3>4, Fields, MoveInv DEF Open, Awaiting
  <2> QED BY <2>3, <2>4
<1> QED BY <1>1, <1>2

(***************************************************************************)
(* The end of a step that is not the last one: it is on record and the     *)
(* next one begins.                                                        *)
(***************************************************************************)
LEMMA NextStepInv ==
    ASSUME Inv, pc = "finish", op.kind # "create", Leave(TRUE), Len(op.plan) > 1,
           pc' = "step", op' = [op EXCEPT !.plan = Tail(@)],
           UNCHANGED <<args, phase, client, result, status>>,
           UNCHANGED <<cloudVars, runFrame>>
    PROVE  Inv'
<1> USE DEF Inv, cloudVars, runFrame
<1>0. phase \in ScalePhases /\ op.kind \in ScaleKinds /\ pc \in Open
  BY DEF PcSound, Awaiting, Open
<1>1. /\ records' \in Seq(Records) /\ found'.records <= Len(records')
      /\ FailureRecorded' => FailureRecorded
  <2>1. TRUE \in BOOLEAN
    OBVIOUS
  <2> QED BY <1>0, <2>1, LeaveFacts
<1>2. Tail(op.plan) \in Seq(Int) /\ Tail(op.plan) # <<>>
  <2>1. op.plan \in Seq(Int)
    BY Fields
  <2>2. Tail(op.plan) \in Seq(Int) /\ Len(Tail(op.plan)) = Len(op.plan) - 1 /\ Len(op.plan) \in Nat
    BY <2>1
  <2>3. Len(Tail(op.plan)) # 0 /\ Len(<<>>) = 0
    <3>1. ASSUME NEW n \in Nat, n > 1 PROVE n - 1 # 0
      BY <3>1
    <3> QED BY <2>2, <3>1
  <2> QED BY <2>2, <2>3
<1>3. /\ op' \in [kind: Kinds, from: Int, plan: Seq(Int),
                  reservation: Reservations \cup {NoRes}]
      /\ op'.kind = op.kind /\ op'.plan = Tail(op.plan)
  BY <1>2, Fields
<1>4. Types'
  BY <1>1, <1>3 DEF Types, CloudTypes, ClientTypes, RunTypes, PCs
<1>5. PcSound'
  BY <1>0, <1>2, <1>3 DEF PcSound, Building, Creating, Scaling, Awaiting, Deleting, Open
<1>6. RoleSound'
  BY DEF RoleSound, Constructed
<1>7. TemplateSound'
  BY <1>0 DEF TemplateSound, KnowsTemplate, Building, Awaiting, ScalePhases
<1>8. GroupSound'
  BY DEF GroupSound, Creating, Awaiting
<1>9. AllSound'
  BY DEF AllSound
<1>10. HonestSoFar'
  BY <1>1 DEF HonestSoFar, FailureKept
<1> QED BY <1>4, <1>5, <1>6, <1>7, <1>8, <1>9, <1>10

LEMMA FinishStepInv ==
    ASSUME Inv, FinishStep, UNCHANGED runFrame
    PROVE  Inv'
<1>0. pc = "finish" /\ op.kind # "create" /\ UNCHANGED cloudVars
  BY DEF FinishStep
<1>1. CASE Raise
  BY <1>0, <1>1, RaiseInv DEF Open, Awaiting
<1>2. CASE Leave(TRUE) /\ Return(TRUE)
  <2>1. phase \in ScalePhases
    BY <1>0 DEF Inv, PcSound, Awaiting
  <2> QED BY <1>0, <1>2, <2>1, SuccessInv DEF Open, Awaiting, ScalePhases
<1>3. CASE /\ Leave(TRUE) /\ Len(op.plan) > 1
           /\ pc' = "step" /\ op' = [op EXCEPT !.plan = Tail(@)]
           /\ UNCHANGED <<args, phase, client, result, status>>
  BY <1>0, <1>3, NextStepInv
<1> QED BY <1>1, <1>2, <1>3 DEF FinishStep

---------------------------------------------------------------------------
(* delete_node_group *)

LEMMA DeleteCallInv ==
    ASSUME Inv, DeleteCall, UNCHANGED runFrame
    PROVE  Inv'
<1> USE DEF cloudVars, runFrame
<1>1. /\ pc = "call" /\ phase = "delete" /\ pc' = "delete_template"
      /\ op' = [kind |-> "delete", from |-> 0, plan |-> <<0>>, reservation |-> NoRes]
      /\ UNCHANGED <<args, phase, client, result, records, status>>
      /\ UNCHANGED cloudVars
  BY DEF DeleteCall, Enter
<1>2. <<0>> \in Seq(Int) /\ <<0>> # <<>>
  OBVIOUS
<1>3. op' \in [kind: Kinds, from: Int, plan: Seq(Int), reservation: Reservations \cup {NoRes}]
  BY <1>1, <1>2 DEF Kinds
<1>4. PcSound'
  BY <1>1, <1>2 DEF PcSound, Building, Creating, Scaling, Awaiting, Deleting, Open
<1>5. TemplateSound' /\ GroupSound'
  BY <1>1
  DEF Inv, TemplateSound, KnowsTemplate, GroupSound, Building, Creating, Awaiting, ScalePhases
<1> QED BY <1>1, <1>3, <1>4, <1>5, Fields, MoveInv DEF Open, Deleting

LEMMA DeleteTemplateInv ==
    ASSUME Inv, DeleteTemplate, UNCHANGED runFrame
    PROVE  Inv'
<1>0. /\ pc = "delete_template" /\ phase = "delete" /\ pc \in Open
      /\ UNCHANGED <<role, entry, group>>
  BY DEF DeleteTemplate, DropTemplate, cloudVars, Inv, PcSound, Deleting, Open
<1>1. CASE Raise /\ UNCHANGED cloudVars
  BY <1>0, <1>1, RaiseInv
<1>2. CASE ~(Raise /\ UNCHANGED cloudVars)
  <2> USE DEF runFrame
  <2>1. IF client.template_id = 0 THEN UNCHANGED template ELSE DropTemplate
    BY <1>2 DEF DeleteTemplate, cloudVars
  <2>2. /\ template' \in [id: 0 .. MaxTemplates, next: 1 .. MaxTemplates + 1,
                          reservation: Reservations \cup {NoRes}]
        /\ client.template_id # 0 => template'.id = 0
    <3>1. CASE client.template_id = 0
      BY <2>1, <3>1, Fields
    <3>2. CASE client.template_id # 0
      <4>1. template' = [template EXCEPT !.id = 0, !.reservation = NoRes]
        BY <2>1, <3>2 DEF DropTemplate
      <4>2. 0 \in 0 .. MaxTemplates
        BY CloudAssumption
      <4> QED BY <4>1, <4>2, Fields
    <3> QED BY <3>1, <3>2
  <2>3. CASE Raise
    BY <1>0, <2>2, <2>3, LateRaiseInv DEF Inv, Types, CloudTypes, ScalePhases
  <2>4. CASE ~Raise
    <3>1. /\ pc' = "delete_group"
          /\ UNCHANGED <<args, phase, client, op, result, records, status>>
      BY <2>4 DEF DeleteTemplate, Goto
    <3>2. PcSound'
      BY <1>0, <3>1
      DEF Inv, PcSound, Building, Creating, Scaling, Awaiting, Deleting, Open
    <3>3. args.cmd = "all" => template'.id = 0
      BY <1>0, <2>2 DEF Inv, TemplateSound, KnowsTemplate
    <3>4. TemplateSound'
      BY <1>0, <3>1, <3>3 DEF TemplateSound, Building, Awaiting, ScalePhases
    <3>5. GroupSound'
      BY <3>1 DEF GroupSound, Creating, Awaiting
    <3> QED BY <1>0, <2>2, <3>1, <3>2, <3>4, <3>5, Fields, MoveInv DEF Open, Deleting
  <2> QED BY <2>3, <2>4
<1> QED BY <1>1, <1>2

LEMMA DeleteGroupInv ==
    ASSUME Inv, DeleteGroup, UNCHANGED runFrame
    PROVE  Inv'
<1>0. pc = "delete_group" /\ pc \in Open /\ UNCHANGED <<role, entry, template>>
  BY DEF DeleteGroup, Open, Deleting
<1>1. group' \in [status: Statuses, min: Int, max: Int, desired: Int,
                  template: 0 .. MaxTemplates]
  <2>1. group' \in {group, [group EXCEPT !.status = "deleting"]}
    BY DEF DeleteGroup
  <2> QED BY <2>1, Fields DEF Statuses
<1>2. CASE Raise
  BY <1>0, <1>1, <1>2, LateRaiseInv DEF Inv, Types, CloudTypes
<1>3. CASE ~Raise
  <2> USE DEF runFrame
  <2>1. pc' = "deleted" /\ UNCHANGED <<args, phase, client, op, result, records, status>>
    BY <1>3 DEF DeleteGroup, Goto
  <2>2. PcSound'
    BY <1>0, <2>1
    DEF Inv, PcSound, Building, Creating, Scaling, Awaiting, Deleting, Open
  <2>3. TemplateSound' /\ GroupSound'
    BY <1>0, <2>1
    DEF Inv, PcSound, TemplateSound, KnowsTemplate, GroupSound, Building, Creating, Awaiting,
        Deleting, ScalePhases
  <2> QED BY <1>0, <1>1, <2>1, <2>2, <2>3, Fields, MoveInv DEF Open, Deleting
<1> QED BY <1>2, <1>3

LEMMA WaitDeletedInv ==
    ASSUME Inv, WaitDeleted, UNCHANGED runFrame
    PROVE  Inv'
<1>0. pc = "deleted" /\ phase = "delete" /\ UNCHANGED cloudVars
  BY DEF WaitDeleted, Inv, PcSound, Deleting
<1>1. CASE Raise
  BY <1>0, <1>1, RaiseInv DEF Open, Deleting
<1>2. CASE group.status = "none" /\ Leave(TRUE) /\ Return(TRUE)
  <2>1. args.cmd = "all" => template.id = 0
    BY <1>0 DEF Inv, TemplateSound
  <2> QED BY <1>0, <1>2, <2>1, SuccessInv DEF Open, Deleting
<1> QED BY <1>1, <1>2 DEF WaitDeleted

LEMMA OperateInv ==
    ASSUME Inv, Operate, UNCHANGED runFrame
    PROVE  Inv'
BY AmiUnknownInv, CreateCallInv, ReserveInv, CheckTemplateInv, CreateTemplateInv,
   CreateGroupInv, WaitInv, FinishCreateInv, ScaleCallInv, StepInv, UpdateInv,
   FinishStepInv, DeleteCallInv, DeleteTemplateInv, DeleteGroupInv, WaitDeletedInv
DEF Operate

---------------------------------------------------------------------------
(* The processes *)

LEMMA BeginInv ==
    ASSUME Inv, Begin
    PROVE  Inv'
<1> USE DEF Inv, Begin, cloudVars
<1>1. phase' \in Phases /\ (args'.cmd = "all" => phase' = "create")
  <2>1. args'.cmd \in {"create", "scale", "delete", "all"}
    BY CommandAssumption
  <2> QED BY <2>1 DEF FirstPhase, Phases
<1>2. Types'
  <2>1. result' \in BOOLEAN /\ results' \in [Phases -> BOOLEAN]
    BY Zenon
  <2>2. /\ client' \in [template_id: 0 .. MaxTemplates, todo: SUBSET Policies, tries: Int]
        /\ op' \in [kind: Kinds, from: Int, plan: Seq(Int), reservation: Reservations \cup {NoRes}]
    BY CloudAssumption DEF Kinds
  <2>3. found' \in Findings
    BY DEF Types, CloudTypes, ClientTypes, Findings
  <2> QED BY <1>1, <2>1, <2>2, <2>3 DEF Types, CloudTypes, ClientTypes, RunTypes, PCs
<1>3. PcSound'
  BY <1>1 DEF PcSound, Building, Creating, Scaling, Awaiting, Deleting, Open
<1>4. RoleSound'
  BY DEF RoleSound, Constructed
<1>5. TemplateSound'
  BY <1>1 DEF TemplateSound, Building, Awaiting, ScalePhases
<1>6. GroupSound'
  BY DEF GroupSound, Creating, Awaiting
<1>7. AllSound'
  BY DEF AllSound, Phases
<1>8. HonestSoFar'
  <2>1. Len(records) \in Nat /\ found'.records = Len(records) /\ records' = records
    BY DEF Types, ClientTypes
  <2> QED BY <2>1 DEF HonestSoFar, FailureRecorded
<1> QED BY <1>2, <1>3, <1>4, <1>5, <1>6, <1>7, <1>8

LEMMA PluginInv ==
    ASSUME Inv, Plugin
    PROVE  Inv'
<1>0. pc = "plugin" /\ UNCHANGED <<cloudVars, runVars>>
  BY DEF Plugin
<1>1. CASE Die
  <2>1. entry \in BOOLEAN /\ role \in [made: BOOLEAN, policies: SUBSET Policies]
    BY DEF Inv, Types, CloudTypes
  <2> QED BY <1>0, <1>1, <2>1, DieInv DEF cloudVars, runVars, runFrame
<1>2. CASE Goto("call")
  <2> USE <1>0, <1>2 DEF Inv, Goto, cloudVars, runVars
  <2>1. Types'
    BY DEF Types, CloudTypes, ClientTypes, RunTypes, PCs
  <2>2. PcSound'
    BY DEF PcSound, Building, Creating, Scaling, Awaiting, Deleting, Open
  <2>3. RoleSound'
    BY DEF RoleSound, Constructed
  <2>4. TemplateSound'
    BY DEF TemplateSound, PcSound, Building, Awaiting, ScalePhases
  <2>5. GroupSound'
    BY DEF GroupSound, Creating, Awaiting
  <2>6. AllSound' /\ HonestSoFar'
    BY DEF AllSound, HonestSoFar, FailureKept, FailureRecorded
  <2> QED BY <2>1, <2>2, <2>3, <2>4, <2>5, <2>6
<1> QED BY <1>1, <1>2 DEF Plugin

(***************************************************************************)
(* What follows an operation.                                              *)
(***************************************************************************)
LEMMA NextPhaseFacts ==
    ASSUME Inv
    PROVE  \/ NextPhase = "done" /\ args.cmd # "all"
           \/ NextPhase = "done" /\ args.cmd = "all" /\ phase = "create" /\ ~result
           \/ NextPhase = "done" /\ args.cmd = "all" /\ phase = "delete"
           \/ NextPhase = "scale_up" /\ args.cmd = "all" /\ phase = "create" /\ result
           \/ NextPhase = "scale_down" /\ args.cmd = "all" /\ phase = "scale_up"
           \/ NextPhase = "delete" /\ args.cmd = "all" /\ phase = "scale_down"
<1>1. phase \in {"create", "scale_up", "scale_down", "delete"}
  BY DEF Inv, Types, ClientTypes, Phases
<1>2. CASE args.cmd # "all"
  BY <1>2 DEF NextPhase
<1>3. CASE args.cmd = "all" /\ phase = "create"
  BY <1>3 DEF NextPhase
<1>4. CASE args.cmd = "all" /\ phase # "create"
  BY <1>1, <1>4 DEF NextPhase
<1> QED BY <1>2, <1>3, <1>4

LEMMA ReturnedInv ==
    ASSUME Inv, Returned
    PROVE  Inv'
<1> USE DEF Inv, cloudVars
<1>1. /\ pc = "returned" /\ results' = [results EXCEPT ![phase] = result]
      /\ UNCHANGED <<role, entry, template, group, args, client, op, result, records, status, found>>
      /\ NextPhase = "done" => /\ pc' = "off" /\ phase' = phase
                               /\ exit_code' = (IF Failed THEN 1 ELSE 0)
      /\ NextPhase # "done" => pc' = "call" /\ phase' = NextPhase
  BY DEF Returned
<1>2. /\ results \in [Phases -> BOOLEAN] /\ phase \in Phases /\ result \in BOOLEAN
      /\ results' \in [Phases -> BOOLEAN]
      /\ results'[phase] = result
      /\ \A p \in Phases : p # phase => results'[p] = results[p]
  BY <1>1 DEF Types, ClientTypes, RunTypes
<1>3. Types'
  <2>1. phase' \in Phases /\ pc' \in PCs
    BY <1>1, <1>2, NextPhaseFacts DEF Phases, PCs
  <2> QED BY <1>1, <1>2, <2>1 DEF Types, CloudTypes, ClientTypes, RunTypes
<1>4. PcSound'
  BY <1>1 DEF PcSound, Building, Creating, Scaling, Awaiting, Deleting, Open
<1>5. RoleSound'
  BY <1>1 DEF RoleSound, Constructed
<1>6. TemplateSound'
  BY <1>1, NextPhaseFacts DEF TemplateSound, KnowsTemplate, Building, Awaiting, ScalePhases
<1>7. GroupSound'
  BY <1>1 DEF GroupSound, Creating, Awaiting
<1>8. AllSound'
  <2>1. Last' = Last
    BY <1>1 DEF Last
  <2>2. "create" \in Phases /\ "delete" \in Phases
    BY DEF Phases
  <2>3. CASE NextPhase = "done"
    BY <1>1, <1>2, <2>1, <2>2, <2>3, NextPhaseFacts DEF AllSound
  <2>4. CASE NextPhase # "done"
    BY <1>1, <2>4, NextPhaseFacts DEF AllSound
  <2> QED BY <2>3, <2>4
<1>9. HonestSoFar'
  <2>1. found'.records <= Len(records') /\ (FailureRecorded' => FailureRecorded)
    BY <1>1 DEF HonestSoFar, FailureRecorded
  <2> SUFFICES ASSUME FailureRecorded PROVE FailureKept'
    BY <2>1 DEF HonestSoFar
  <2>2. ~result \/ (args.cmd = "all" /\ \E p \in Before(phase) : ~results[p])
    BY <1>1 DEF HonestSoFar, FailureKept
  <2>3. \A p \in Before(phase) : p \in Phases /\ p # phase
    BY <1>2 DEF Before, Phases
  <2>4. \E p \in Before(phase) \cup {phase} : ~results'[p]
    BY <1>2, <2>2, <2>3
  <2>5. CASE NextPhase = "done"
    <3>1. Failed
      BY <1>1, <1>2, <2>2, <2>3, <2>4 DEF Failed
    <3> QED BY <1>1, <2>5, <3>1 DEF FailureKept
  <2>6. CASE NextPhase # "done"
    <3>1. Before(phase) \cup {phase} \subseteq Before(phase') /\ args.cmd = "all"
      BY <1>1, <2>6, NextPhaseFacts DEF Before
    <3> QED BY <1>1, <2>4, <2>6, <3>1 DEF FailureKept
  <2> QED BY <2>5, <2>6
<1> QED BY <1>3, <1>4, <1>5, <1>6, <1>7, <1>8, <1>9

LEMMA ClientStepInv ==
    ASSUME Inv, ClientStep
    PROVE  Inv'
<1>1. UNCHANGED runFrame
  BY DEF ClientStep, runVars, runFrame
<1> QED BY <1>1, ConstructInv, OperateInv DEF ClientStep

(***************************************************************************)
(* AWS goes on by itself.  Only a deletion takes the group away, and no    *)
(* process waits for an operation during one.                              *)
(***************************************************************************)
LEMMA CloudStepInv ==
    ASSUME Inv, CloudStep
    PROVE  Inv'
<1> USE DEF Inv
<1>1. /\ UNCHANGED <<role, entry, template, args, pc, phase, client, op, result, records, status>>
      /\ UNCHANGED <<results, exit_code, found>>
  BY DEF CloudStep, clientVars, runVars, Cloud, GroupSettles, NodeComes, NodeGoes, ReservationEnds
<1>2. \/ UNCHANGED group
      \/ \E s \in {"failed", "active"} :
            group.status \in {"creating", "updating"} /\ group' = [group EXCEPT !.status = s]
      \/ group.status = "deleting" /\ group' = NoGroup
  BY DEF CloudStep, Cloud, GroupSettles, NodeComes, NodeGoes, ReservationEnds
<1>3. /\ group' \in [status: Statuses, min: Int, max: Int, desired: Int,
                     template: 0 .. MaxTemplates]
      /\ group.status = "none" => group'.status = "none"
      /\ group.status \notin {"none", "deleting"} =>
            /\ group'.status \notin {"none", "deleting"}
            /\ group'.desired = group.desired /\ group'.max = group.max
            /\ group'.template = group.template
  <2>1. CASE UNCHANGED group
    BY <2>1, Fields
  <2>2. CASE \E s \in {"failed", "active"} :
                group.status \in {"creating", "updating"} /\ group' = [group EXCEPT !.status = s]
    BY <2>2, Fields DEF Statuses
  <2>3. CASE group.status = "deleting" /\ group' = NoGroup
    BY <2>3, CloudAssumption DEF NoGroup, Statuses
  <2> QED BY <1>2, <2>1, <2>2, <2>3
<1>4. Types'
  BY <1>1, <1>3 DEF Types, CloudTypes, ClientTypes, RunTypes
<1>5. PcSound' /\ RoleSound'
  BY <1>1 DEF PcSound, RoleSound, Constructed
<1>6. TemplateSound'
  BY <1>1 DEF TemplateSound, KnowsTemplate
<1>7. GroupSound'
  BY <1>1, <1>3 DEF GroupSound
<1>8. AllSound'
  BY <1>1, <1>3 DEF AllSound, Last
<1>9. HonestSoFar'
  BY <1>1 DEF HonestSoFar, FailureKept, FailureRecorded
<1> QED BY <1>4, <1>5, <1>6, <1>7, <1>8, <1>9

---------------------------------------------------------------------------
(* The theorems *)

LEMMA InitInv == Init => Inv
<1> SUFFICES ASSUME Init PROVE Inv
  OBVIOUS
<1> USE DEF Init, CloudInit, ClientInit
<1>1. /\ result \in BOOLEAN /\ entry \in BOOLEAN
      /\ results \in [Phases -> BOOLEAN] /\ ~role.made
  <2>1. role.made = FALSE
    BY SMT
  <2> QED BY <2>1, Zenon
<1>2. CloudTypes
  <2>1. role \in [made: BOOLEAN, policies: SUBSET Policies]
    <3>1. FALSE \in BOOLEAN
      OBVIOUS
    <3> QED BY <3>1
  <2>2. /\ template \in [id: 0 .. MaxTemplates, next: 1 .. MaxTemplates + 1,
                         reservation: Reservations \cup {NoRes}]
        /\ group \in [status: Statuses, min: Int, max: Int, desired: Int,
                      template: 0 .. MaxTemplates]
    BY CloudAssumption DEF NoGroup, Statuses
  <2> QED BY <1>1, <2>1, <2>2 DEF CloudTypes
<1>3. ClientTypes /\ RunTypes
  <2>1. /\ client \in [template_id: 0 .. MaxTemplates, todo: SUBSET Policies, tries: Int]
        /\ op \in [kind: Kinds, from: Int, plan: Seq(Int), reservation: Reservations \cup {NoRes}]
    BY CloudAssumption DEF Kinds
  <2>2. found \in Findings
    BY <1>2, CloudAssumption DEF CloudTypes, Findings
  <2> QED BY <1>1, <2>1, <2>2 DEF ClientTypes, RunTypes, PCs, Phases
<1>4. PcSound /\ TemplateSound /\ GroupSound
  BY DEF PcSound, TemplateSound, GroupSound, Building, Creating, Scaling, Awaiting, Deleting, Open
<1>5. RoleSound
  BY <1>1 DEF RoleSound, Constructed
<1>6. AllSound
  BY DEF AllSound, Phases
<1>7. HonestSoFar
  BY DEF HonestSoFar, FailureRecorded
<1> QED BY <1>2, <1>3, <1>4, <1>5, <1>6, <1>7 DEF Inv, Types

LEMMA NextInv == Inv /\ [Next]_vars => Inv'
<1> SUFFICES ASSUME Inv, [Next]_vars PROVE Inv'
  OBVIOUS
<1>1. CASE UNCHANGED vars
  <2> USE <1>1 DEF vars, cloudVars, clientVars, runVars, Inv
  <2>1. Types'
    BY DEF Types, CloudTypes, ClientTypes, RunTypes
  <2>2. PcSound' /\ RoleSound' /\ TemplateSound' /\ GroupSound'
    BY DEF PcSound, RoleSound, Constructed, TemplateSound, KnowsTemplate, GroupSound
  <2>3. AllSound' /\ HonestSoFar'
    BY DEF AllSound, Last, HonestSoFar, FailureKept, FailureRecorded
  <2> QED BY <2>1, <2>2, <2>3
<1> QED BY <1>1, BeginInv, PluginInv, ReturnedInv, ClientStepInv, CloudStepInv
        DEF Next, Process

(***************************************************************************)
(* The inductive invariant: what the process knows of AWS, what it has     *)
(* recorded and what its results say belong together at every step.        *)
(***************************************************************************)
THEOREM EksInvariant == Spec => []Inv
BY InitInv, NextInv, PTL DEF Spec

(***************************************************************************)
(* A client that got through its constructor has an access entry and a     *)
(* role: a complete one if there was none when the process started, else   *)
(* the one there was, complete or not; for any number of policies, of      *)
(* retries and of lost answers.                                            *)
(***************************************************************************)
THEOREM NodesJoin == Spec => []NodesCanJoin
<1>1. Inv => NodesCanJoin
  BY DEF Inv, NodesCanJoin, RoleSound, Constructed
<1> QED BY <1>1, EksInvariant, PTL

(***************************************************************************)
(* A node group launches from the reservation its operation found, or from *)
(* the one of the launch template that was there when the process started. *)
(***************************************************************************)
THEOREM ReservationsAreLaunched == Spec => []ReservationIsLaunched
<1>1. Inv => ReservationIsLaunched
  BY DEF Inv, ReservationIsLaunched, TemplateSound, Awaiting
<1> QED BY <1>1, EksInvariant, PTL

(***************************************************************************)
(* all() that created a group has deleted it or recorded that it could     *)
(* not; when it succeeded neither group nor launch template is left.       *)
(***************************************************************************)
THEOREM AllLeavesNothingBehind == Spec => []AllLeavesNothing
<1>1. Inv => AllLeavesNothing
  BY DEF Inv, AllLeavesNothing, AllSound
<1> QED BY <1>1, EksInvariant, PTL

(***************************************************************************)
(* No failure the process recorded is lost on the way to its exit code.    *)
(***************************************************************************)
THEOREM ExitCodesAreHonest == Spec => []ExitCodeIsHonest
<1>1. Inv => ExitCodeIsHonest
  <2> SUFFICES ASSUME Inv, pc = "off",
                      NEW i \in found.records + 1 .. Len(records), records[i].ok = FALSE
               PROVE  exit_code = 1 \/ status = 1
    BY DEF ExitCodeIsHonest
  <2>1. ~records[i].ok
    BY Zenon
  <2> QED BY <2>1 DEF Inv, HonestSoFar, FailureRecorded, FailureKept
<1> QED BY <1>1, EksInvariant, PTL

(***************************************************************************)
(* Every success EKSClient records is true of EKS at that moment: the      *)
(* group has the size and the template of the operation, or is gone.       *)
(***************************************************************************)
THEOREM SuccessRecordsAreTrue == Spec => RecordsAreTrue
<1>1. Inv /\ [Next]_vars => [RecordIsTrue]_vars
  <2> SUFFICES ASSUME Inv, Next, Len(records') > Len(records), Last'.ok
               PROVE  RecordIsTrue
    BY DEF RecordIsTrue
  <2>0. records' # records
    BY DEF Inv, Types, ClientTypes
  <2>1. ClientStep /\ found' = found
    BY <2>0 DEF Next, Process, Begin, Plugin, Goto, Die, Returned, ClientStep, CloudStep, clientVars,
       runVars
  <2>2. Operate
    BY <2>0, <2>1 DEF ClientStep, Construct, Connect, CheckRole, CreateRole, AttachPolicy, Attached,
       GetRole, CheckEntry, CreateEntry, AttemptSucceeds, AttemptFails, Goto, Die
  <2>3. ASSUME pc \in Open, NEW ok \in BOOLEAN, Leave(ok)
        PROVE  Last'.kind = op.kind /\ Last'.target = Head(op.plan) /\ (Last'.ok <=> ok)
    BY <2>1, <2>3, LeaveFacts
  <2>4. ~AmiUnknown
    <3> SUFFICES ASSUME AmiUnknown PROVE FALSE
      OBVIOUS
    <3> PICK r : r = [kind |-> "create", from |-> 0, target |-> args.node_count, ok |-> FALSE]
      OBVIOUS
    <3>1. FALSE \in BOOLEAN /\ ~r.ok
      OBVIOUS
    <3>2. r \in Records
      BY <3>1, Fields DEF Records, Kinds
    <3>3. Last' = r
      BY <3>2, AppendFacts DEF AmiUnknown, Inv
    <3> QED BY <3>1, <3>3
  <2>5. ~(pc \in Open /\ Leave(FALSE))
    BY <2>3
  <2>6. \/ FinishCreate /\ Leave(TRUE)
        \/ FinishStep /\ Leave(TRUE)
        \/ WaitDeleted /\ Leave(TRUE) /\ group.status = "none"
    BY <2>0, <2>2, <2>4, <2>5
    DEF Operate, CreateCall, Reserve, CheckTemplate, CreateTemplate,
        CreateGroup, WaitActive, WaitNodes, FinishCreate, ScaleCall, Step, Update, FinishStep,
        DeleteCall, DeleteTemplate, DeleteGroup, WaitDeleted, Goto, Enter, Raise, SystemExit,
        Open, Creating, Scaling, Awaiting, Deleting
  <2>7. TRUE \in BOOLEAN
    OBVIOUS
  <2>8. CASE FinishCreate /\ Leave(TRUE)
    <3>1. pc = "finish" /\ op.kind = "create" /\ pc \in Open /\ pc \in Awaiting
      BY <2>8 DEF FinishCreate, Open, Awaiting
    <3> QED BY <2>3, <2>7, <2>8, <3>1 DEF RecordIsTrue, Inv, GroupSound
  <2>9. CASE FinishStep /\ Leave(TRUE)
    <3>1. pc = "finish" /\ op.kind # "create" /\ pc \in Open /\ pc \in Awaiting
      BY <2>9 DEF FinishStep, Open, Awaiting
    <3>2. op.kind # "delete"
      BY <3>1 DEF Inv, PcSound, ScaleKinds
    <3> QED BY <2>3, <2>7, <2>9, <3>1, <3>2 DEF RecordIsTrue, Inv, GroupSound
  <2>10. CASE WaitDeleted /\ Leave(TRUE) /\ group.status = "none"
    <3>1. pc = "deleted" /\ pc \in Open /\ op.kind = "delete"
      BY <2>10 DEF WaitDeleted, Inv, PcSound, Open, Deleting
    <3> QED BY <2>3, <2>7, <2>10, <3>1 DEF RecordIsTrue
  <2> QED BY <2>6, <2>8, <2>9, <2>10
<1> QED BY <1>1, EksInvariant, PTL DEF Spec, RecordsAreTrue


---------------------------------------------------------------------------
(* The bounds: the full type invariant *)

SizedRecords == [kind: Kinds, from: Counts, target: Counts, ok: BOOLEAN]

(***************************************************************************)
(* No count that is planned, asked for or recorded is negative or above    *)
(* the largest count of a command line, and no retry loop exceeds its      *)
(* limit.                                                                  *)
(***************************************************************************)
CloudSizes ==
    /\ group.min \in Counts /\ group.desired \in Counts /\ group.max \in Nat
    /\ ready \in Counts
    /\ free \in [Reservations -> {-1} \cup Counts]

ClientSizes ==
    /\ client.tries \in 0 .. Retries
    /\ op.from \in Counts /\ op.plan \in Seq(Counts)
    /\ records \in Seq(SizedRecords)
    /\ status \in {0, 1} /\ exit_code \in {0, 1}
    /\ runs \in 0 .. MaxRuns

Sizes == CloudSizes /\ ClientSizes

LEMMA SizesAreTypes == Inv /\ Sizes => TypeOK
<1> SUFFICES ASSUME Inv, Sizes PROVE TypeOK
  OBVIOUS
<1> USE DEF Inv, Types, CloudTypes, ClientTypes, RunTypes, Sizes, CloudSizes, ClientSizes
<1>1. group \in [status: Statuses, min: Counts, max: Nat, desired: Counts,
                 template: 0 .. MaxTemplates]
  OBVIOUS
<1>2. client \in [template_id: 0 .. MaxTemplates, todo: SUBSET Policies, tries: 0 .. Retries]
  OBVIOUS
<1>3. op \in [kind: Kinds, from: Counts, plan: Seq(Counts), reservation: Reservations \cup {NoRes}]
  OBVIOUS
<1> QED BY <1>1, <1>2, <1>3 DEF TypeOK, CloudTypeOK, ClientTypeOK, SizedRecords

LEMMA CountFacts ==
    /\ 0 \in Counts /\ Counts \subseteq Nat
    /\ \A c \in Commands : /\ c.node_count \in Counts /\ c.target_count \in Counts
                           /\ c.scale_step_size \in Int
<1>1. MaxCount \in Nat
  BY CloudAssumption
<1> QED BY <1>1, CommandAssumption DEF Counts

(***************************************************************************)
(* Leaving an operation records counts of its plan.                        *)
(***************************************************************************)
LEMMA LeaveSizes ==
    ASSUME Inv, Sizes, pc \in Open, NEW ok \in BOOLEAN, Leave(ok)
    PROVE  records' \in Seq(SizedRecords)
<1> PICK r : r = [kind |-> op.kind, from |-> op.from, target |-> Head(op.plan), ok |-> ok]
  OBVIOUS
<1>1. op.plan \in Seq(Counts) /\ op.plan # <<>> /\ op.from \in Counts /\ op.kind \in Kinds
  BY DEF Inv, PcSound, Types, ClientTypes, Sizes, ClientSizes
<1>2. Head(op.plan) \in Counts
  BY <1>1
<1>3. r \in SizedRecords
  BY <1>1, <1>2 DEF SizedRecords
<1> QED BY <1>3 DEF Leave, Sizes, ClientSizes

LEMMA BooleanValues == TRUE \in BOOLEAN /\ FALSE \in BOOLEAN
OBVIOUS

(***************************************************************************)
(* A progressive scaling plans no count beyond the two it goes between.    *)
(***************************************************************************)
LEMMA PlanSizes ==
    ASSUME NEW current \in Counts, NEW target \in Counts, NEW size \in Nat, size > 0,
           current # target
    PROVE  Steps(current, target, size) \in Seq(Counts)
<1> PICK planned : planned = Planned(current, target, size)
  OBVIOUS
<1>0. current \in Nat /\ target \in Nat /\ MaxCount \in Nat /\ current <= MaxCount /\ target <= MaxCount
  BY CloudAssumption DEF Counts
<1>1. ASSUME NEW d \in Nat, NEW n \in Nat, n * size <= d, NEW i \in 1 .. n
      PROVE  i * size \in Nat /\ i * size <= d
  <2>1. i \in Nat /\ n - i \in Nat
    BY <1>1
  <2>2. i * size \in Nat /\ (n - i) * size \in Nat
    BY <2>1
  <2>3. n * size = i * size + (n - i) * size
    BY <2>1
  <2> QED BY <1>1, <2>2, <2>3
<1>2. planned \in Seq(Counts)
  <2>1. CASE current < target
    <3>1. CASE target - current < size
      <4>1. RangeLen(current + size, target + 1, size) = 0
        BY <1>0, <3>1 DEF RangeLen
      <4> QED BY <2>1, <4>1 DEF Planned, PyRange
    <3>2. CASE ~(target - current < size)
      <4> PICK d : d = target - current
        OBVIOUS
      <4> PICK n : n = d \div size
        OBVIOUS
      <4>1. d \in Nat /\ n \in Nat /\ n * size <= d
        <5>1. d \in Nat
          BY <1>0, <2>1
        <5>2. n \in Nat
          BY <5>1, DivNat
        <5> QED BY <5>1, <5>2, SMT
      <4>2. RangeLen(current + size, target + 1, size) = n
        <5>1. (target + 1) - (current + size) + size - 1 = d /\ current + size < target + 1
          BY <1>0, <3>2
        <5> QED BY <5>1 DEF RangeLen
      <4>3. ASSUME NEW i \in 1 .. n
            PROVE  (current + size) + (i - 1) * size \in Counts
        <5>1. i * size \in Nat /\ i * size <= d
          BY <1>1, <4>1
        <5>2. (current + size) + (i - 1) * size = current + i * size
          BY <1>0, <4>1
        <5> QED BY <1>0, <5>1, <5>2 DEF Counts
      <4>4. planned = [i \in 1 .. n |-> (current + size) + (i - 1) * size]
        BY <2>1, <4>2 DEF Planned, PyRange
      <4> QED BY <4>1, <4>3, <4>4
    <3> QED BY <3>1, <3>2
  <2>2. CASE target < current
    <3>0. -size \in Int /\ -size < 0 /\ -(-size) = size /\ ~(-size > 0)
      OBVIOUS
    <3>1. CASE current - target < size
      <4>1. RangeLen(current - size, target - 1, -size) = 0
        BY <1>0, <3>0, <3>1 DEF RangeLen
      <4> QED BY <1>0, <2>2, <4>1 DEF Planned, PyRange
    <3>2. CASE ~(current - target < size)
      <4> PICK d : d = current - target
        OBVIOUS
      <4> PICK n : n = d \div size
        OBVIOUS
      <4>1. d \in Nat /\ n \in Nat /\ n * size <= d
        <5>1. d \in Nat
          BY <1>0, <2>2
        <5>2. n \in Nat
          BY <5>1, DivNat
        <5> QED BY <5>1, <5>2, SMT
      <4>2. RangeLen(current - size, target - 1, -size) = n
        <5>1. (current - size) - (target - 1) - (-size) - 1 = d /\ current - size > target - 1
          BY <1>0, <3>2
        <5> QED BY <3>0, <5>1 DEF RangeLen
      <4>3. ASSUME NEW i \in 1 .. n
            PROVE  (current - size) + (i - 1) * (-size) \in Counts
        <5>1. i * size \in Nat /\ i * size <= d
          BY <1>1, <4>1
        <5>2. (current - size) + (i - 1) * (-size) = current - i * size
          BY <1>0, <4>1
        <5> QED BY <1>0, <5>1, <5>2 DEF Counts
      <4>4. planned = [i \in 1 .. n |-> (current - size) + (i - 1) * (-size)]
        BY <1>0, <2>2, <4>2 DEF Planned, PyRange
      <4> QED BY <4>1, <4>3, <4>4
    <3> QED BY <3>1, <3>2
  <2> QED BY <1>0, <2>1, <2>2
<1>3. Steps(current, target, size) \in {<<target>>, planned, Append(planned, target)}
  BY DEF Steps
<1>4. <<target>> \in Seq(Counts) /\ Append(planned, target) \in Seq(Counts)
  BY <1>2
<1> QED BY <1>2, <1>3, <1>4

cloudCounts == <<group, ready, free>>

(***************************************************************************)
(* AWS changes its own part only.                                          *)
(***************************************************************************)
LEMMA CloudStepSizes ==
    ASSUME Inv, Sizes, CloudStep
    PROVE  Sizes'
<1> USE DEF Sizes
<1>0. MaxCount \in Nat
  BY CloudAssumption
<1>1. ClientSizes'
  BY DEF CloudStep, clientVars, runVars, ClientSizes
<1>2. CASE GroupSettles
  <2>1. \/ /\ \E s \in {"failed", "active"} : group' = [group EXCEPT !.status = s]
           /\ ready' = ready
        \/ group' = NoGroup /\ ready' = 0
    BY <1>2 DEF GroupSettles
  <2>2. free' = free
    BY <1>2 DEF GroupSettles
  <2>3. group'.min \in Counts /\ group'.desired \in Counts /\ group'.max \in Nat
    <3>1. CASE group' = NoGroup
      BY <3>1, CountFacts DEF NoGroup
    <3>2. CASE \E s \in {"failed", "active"} : group' = [group EXCEPT !.status = s]
      BY <3>2, Fields DEF CloudSizes
    <3> QED BY <2>1, <3>1, <3>2
  <2> QED BY <1>1, <2>1, <2>2, <2>3, CountFacts DEF CloudSizes
<1>3. CASE NodeComes \/ NodeGoes
  <2>1. ready' \in Counts
    BY <1>0, <1>3 DEF NodeComes, NodeGoes, CloudSizes, Counts
  <2> QED BY <1>1, <1>3, <2>1 DEF CloudSizes, NodeComes, NodeGoes
<1>4. CASE ReservationEnds
  <2>1. free' \in [Reservations -> {-1} \cup Counts]
    BY <1>4 DEF ReservationEnds, CloudSizes
  <2> QED BY <1>1, <1>4, <2>1 DEF CloudSizes, ReservationEnds
<1> QED BY <1>2, <1>3, <1>4 DEF CloudStep, Cloud

(***************************************************************************)
(* The ways an operation or a process ends.                                *)
(***************************************************************************)
LEMMA LateEndSizes ==
    ASSUME Inv, Sizes, CloudSizes', UNCHANGED <<runs, exit_code>>,
           \/ Die
           \/ pc \in Open /\ (Raise \/ SystemExit)
           \/ pc \in Open /\ Leave(TRUE) /\ Return(TRUE)
           \/ Return(FALSE) /\ UNCHANGED records
           \/ \E l \in PCs : Goto(l)
    PROVE  Sizes'
<1>1. records' \in Seq(SizedRecords)
  <2>1. CASE pc \in Open /\ \E ok \in BOOLEAN : Leave(ok)
    BY <2>1, LeaveSizes
  <2>2. CASE UNCHANGED records
    BY <2>2 DEF Sizes, ClientSizes
  <2> QED BY <2>1, <2>2, BooleanValues DEF Die, Raise, SystemExit, Goto
<1>2. /\ UNCHANGED <<client, op>> /\ status' \in {status, 1}
  BY DEF Die, Raise, Return, SystemExit, Goto
<1> QED BY <1>1, <1>2 DEF Sizes, ClientSizes

LEMMA EndSizes ==
    ASSUME Inv, Sizes, UNCHANGED cloudCounts, UNCHANGED <<runs, exit_code>>,
           \/ Die
           \/ pc \in Open /\ (Raise \/ SystemExit)
           \/ pc \in Open /\ Leave(TRUE) /\ Return(TRUE)
           \/ Return(FALSE) /\ UNCHANGED records
           \/ \E l \in PCs : Goto(l)
    PROVE  Sizes'
<1>1. CloudSizes'
  BY DEF Sizes, CloudSizes, cloudCounts
<1> QED BY <1>1, LateEndSizes

LEMMA ConstructSizes ==
    ASSUME Inv, Sizes, Construct, UNCHANGED <<runs, exit_code>>
    PROVE  Sizes'
<1>1. UNCHANGED cloudCounts
  BY DEF Construct, Connect, CheckRole, CreateRole, AttachPolicy, Attached, GetRole, CheckEntry,
         CreateEntry, cloudVars, cloudCounts
<1>2. \/ Die \/ \E l \in PCs : Goto(l)
      \/ /\ UNCHANGED <<op, records, status>>
         /\ client' \in {[client EXCEPT !.todo = t] : t \in SUBSET Policies}
                          \cup {[client EXCEPT !.tries = n] : n \in 0 .. Retries}
  <2>0. Retries \in Nat /\ client.tries \in 0 .. Retries /\ client.todo \subseteq Policies
    BY CommandAssumption, Fields DEF Sizes, ClientSizes
  <2>1. CASE Connect \/ CheckRole \/ Attached \/ CheckEntry
    BY <2>1 DEF Connect, CheckRole, Attached, CheckEntry, PCs
  <2>2. CASE CreateRole \/ AttachPolicy
    BY <2>0, <2>2 DEF CreateRole, AttachPolicy
  <2>3. CASE GetRole \/ CreateEntry
    <3>1. AttemptFails \/ \E l \in PCs : AttemptSucceeds(l)
      BY <2>3 DEF GetRole, CreateEntry, PCs
    <3>2. 0 \in 0 .. Retries /\ (client.tries < Retries => client.tries + 1 \in 0 .. Retries)
      BY <2>0
    <3> QED BY <3>1, <3>2 DEF AttemptFails, AttemptSucceeds
  <2> QED BY <2>1, <2>2, <2>3 DEF Construct
<1>3. CASE Die \/ \E l \in PCs : Goto(l)
  BY <1>1, <1>3, EndSizes
<1>4. CASE /\ UNCHANGED <<op, records, status>>
           /\ client' \in {[client EXCEPT !.todo = t] : t \in SUBSET Policies}
                            \cup {[client EXCEPT !.tries = n] : n \in 0 .. Retries}
  <2>1. client'.tries \in 0 .. Retries
    BY <1>4, Fields DEF Sizes, ClientSizes
  <2> QED BY <1>1, <1>4, <2>1 DEF Sizes, CloudSizes, ClientSizes, cloudCounts
<1> QED BY <1>2, <1>3, <1>4

---------------------------------------------------------------------------
(* Operations that change a count *)

LEMMA CallSizes ==
    ASSUME Inv, Sizes, AmiUnknown \/ CreateCall \/ ScaleCall \/ DeleteCall,
           UNCHANGED <<runs, exit_code>>
    PROVE  Sizes'
<1>1. UNCHANGED cloudCounts
  BY DEF AmiUnknown, CreateCall, ScaleCall, DeleteCall, cloudVars, cloudCounts
<1>2. /\ args \in Commands
      /\ args.node_count \in Counts /\ args.target_count \in Counts /\ 0 \in Counts
      /\ args.scale_step_size \in Int
  BY CountFacts DEF Inv, Types, ClientTypes
<1>3. CASE AmiUnknown
  <2> PICK r : r = [kind |-> "create", from |-> 0, target |-> args.node_count, ok |-> FALSE]
    OBVIOUS
  <2>1. r \in SizedRecords
    BY <1>2, BooleanValues DEF SizedRecords, Kinds
  <2>2. records' \in Seq(SizedRecords)
    BY <1>3, <2>1 DEF AmiUnknown, Sizes, ClientSizes
  <2>3. UNCHANGED <<client, op, status>>
    BY <1>3 DEF AmiUnknown, Return
  <2> QED BY <1>1, <2>2, <2>3 DEF Sizes, CloudSizes, ClientSizes, cloudCounts
<1>4. ASSUME NEW plan \in Seq(Counts), NEW kind, NEW l, Enter(kind, plan, l)
      PROVE  Sizes'
  BY <1>1, <1>2, <1>4 DEF Enter, Sizes, CloudSizes, ClientSizes, cloudCounts
<1>5. CASE CreateCall
  <2>1. <<args.node_count>> \in Seq(Counts)
    BY <1>2
  <2> QED BY <1>4, <1>5, <2>1 DEF CreateCall
<1>6. CASE DeleteCall
  <2>1. <<0>> \in Seq(Counts)
    BY <1>2
  <2> QED BY <1>4, <1>6, <2>1 DEF DeleteCall
<1>7. CASE ScaleCall
  <2>1. Wanted \in Counts /\ group.desired \in Counts
    BY <1>2 DEF Wanted, Sizes, CloudSizes
  <2>2. CASE Return(FALSE) /\ UNCHANGED records
    BY <1>1, <2>2, EndSizes
  <2>3. CASE Enter("scale", <<Wanted>>, "step")
    <3>1. <<Wanted>> \in Seq(Counts)
      BY <2>1
    <3> QED BY <1>4, <2>3, <3>1
  <2>4. CASE /\ Distance(Wanted, group.desired) > args.scale_step_size
             /\ args.scale_step_size > 0
             /\ Enter("scale", PlanOf(group.desired), "step")
    <3>1. Wanted \in Nat /\ group.desired \in Nat /\ args.scale_step_size \in Nat
      <4>1. Counts \subseteq Nat
        BY CountFacts
      <4>2. args.scale_step_size \in Nat
        BY <1>2, <2>4
      <4> QED BY <2>1, <4>1, <4>2
    <3>2. Wanted # group.desired
      BY <2>4, <3>1 DEF Distance
    <3>3. PlanOf(group.desired) \in Seq(Counts)
      BY <2>1, <2>4, <3>1, <3>2, PlanSizes DEF PlanOf
    <3> QED BY <1>4, <2>4, <3>3
  <2> QED BY <1>7, <2>2, <2>3, <2>4 DEF ScaleCall
<1> QED BY <1>3, <1>5, <1>6, <1>7

LEMMA CreateSizes ==
    ASSUME Inv, Sizes, Reserve \/ CheckTemplate \/ CreateTemplate \/ CreateGroup,
           UNCHANGED <<runs, exit_code>>
    PROVE  Sizes'
<1>1. pc \in Open
  BY DEF Reserve, CheckTemplate, CreateTemplate, CreateGroup, Open, Creating
<1>2. CASE CreateGroup
  <2>1. /\ args.node_count \in Counts /\ args.target_count \in Counts
        /\ MaxSize \in Nat
    BY CountFacts DEF Inv, Types, ClientTypes, MaxSize
  <2>2. /\ group' \in {group, [status |-> "creating", min |-> args.node_count, max |-> MaxSize,
                               desired |-> args.node_count, template |-> client.template_id]}
        /\ UNCHANGED <<ready, free>>
    BY <1>2 DEF CreateGroup
  <2>3. CloudSizes'
    BY <2>1, <2>2 DEF Sizes, CloudSizes
  <2>4. Raise \/ \E l \in PCs : Goto(l)
    BY <1>2 DEF CreateGroup, PCs
  <2> QED BY <1>1, <2>3, <2>4, LateEndSizes
<1>3. CASE Reserve \/ CheckTemplate \/ CreateTemplate
  <2>1. UNCHANGED cloudCounts
    BY <1>3 DEF Reserve, CheckTemplate, CreateTemplate, cloudVars, cloudCounts
  <2>2. \/ Raise \/ SystemExit \/ \E l \in PCs : Goto(l)
        \/ /\ UNCHANGED <<records, status>>
           /\ op' = op \/ \E r : op' = [op EXCEPT !.reservation = r]
           /\ client' = client \/ \E t : client' = [client EXCEPT !.template_id = t]
    BY <1>3 DEF Reserve, CheckTemplate, CreateTemplate, PCs
  <2>3. CASE Raise \/ SystemExit \/ \E l \in PCs : Goto(l)
    BY <1>1, <2>1, <2>3, EndSizes
  <2>4. CASE /\ UNCHANGED <<records, status>>
             /\ op' = op \/ \E r : op' = [op EXCEPT !.reservation = r]
             /\ client' = client \/ \E t : client' = [client EXCEPT !.template_id = t]
    <3>1. op'.from = op.from /\ op'.plan = op.plan /\ client'.tries = client.tries
      BY <2>4, Fields
    <3> QED BY <2>1, <2>4, <3>1 DEF Sizes, CloudSizes, ClientSizes, cloudCounts
  <2> QED BY <2>2, <2>3, <2>4
<1> QED BY <1>2, <1>3

LEMMA ScaleSizes ==
    ASSUME Inv, Sizes, Step \/ Update \/ FinishStep, UNCHANGED <<runs, exit_code>>
    PROVE  Sizes'
<1>1. pc \in Open /\ op.plan # <<>> /\ op.plan \in Seq(Counts)
  BY DEF Step, Update, FinishStep, Open, Scaling, Awaiting, Inv, PcSound, Sizes, ClientSizes
<1>2. Head(op.plan) \in Counts /\ Head(op.plan) \in Nat /\ Tail(op.plan) \in Seq(Counts)
  <2>1. Head(op.plan) \in Counts /\ Tail(op.plan) \in Seq(Counts)
    BY <1>1
  <2> QED BY <2>1, CountFacts
<1>3. CASE Step
  <2>1. UNCHANGED cloudCounts
    BY <1>3 DEF Step, cloudVars, cloudCounts
  <2>2. CASE Return(FALSE) /\ UNCHANGED records
    BY <2>1, <2>2, EndSizes
  <2>3. CASE ~(Return(FALSE) /\ UNCHANGED records)
    <3>1. /\ \E k : op' = [op EXCEPT !.kind = k, !.from = group.desired]
          /\ UNCHANGED <<client, records, status>>
      BY <1>3, <2>3 DEF Step
    <3>2. op'.from = group.desired /\ op'.plan = op.plan
      BY <3>1, Fields
    <3> QED BY <2>1, <3>1, <3>2 DEF Sizes, CloudSizes, ClientSizes, cloudCounts
  <2> QED BY <2>2, <2>3
<1>4. CASE Update
  <2>1. CloudSizes'
    <3>1. CASE UNCHANGED group
      BY <1>4, <3>1 DEF Update, Sizes, CloudSizes
    <3>2. CASE ~UNCHANGED group
      <4>1. /\ \E s \in {"updating", "active"} :
                  group' = [group EXCEPT !.status = s, !.desired = Head(op.plan),
                                         !.max = IF @ < Head(op.plan) THEN Head(op.plan) ELSE @]
            /\ UNCHANGED <<ready, free>>
        BY <1>4, <3>2 DEF Update
      <4>2. group'.desired = Head(op.plan) /\ group'.min = group.min /\ group'.max \in Nat
        BY <1>2, <4>1, Fields DEF Sizes, CloudSizes
      <4> QED BY <1>2, <4>1, <4>2 DEF Sizes, CloudSizes
    <3> QED BY <3>1, <3>2
  <2>2. Raise \/ \E l \in PCs : Goto(l)
    BY <1>4 DEF Update, PCs
  <2> QED BY <1>1, <2>1, <2>2, LateEndSizes
<1>5. CASE FinishStep
  <2>1. UNCHANGED cloudCounts
    BY <1>5 DEF FinishStep, cloudVars, cloudCounts
  <2>2. CASE Raise \/ (Leave(TRUE) /\ Return(TRUE))
    BY <1>1, <2>1, <2>2, EndSizes
  <2>3. CASE /\ Leave(TRUE) /\ op' = [op EXCEPT !.plan = Tail(@)]
             /\ UNCHANGED <<args, phase, client, result, status>>
    <3>1. op'.from = op.from /\ op'.plan = Tail(op.plan)
      BY <2>3, Fields
    <3>2. records' \in Seq(SizedRecords)
      BY <1>1, <2>3, LeaveSizes, BooleanValues
    <3> QED BY <1>2, <2>1, <2>3, <3>1, <3>2 DEF Sizes, CloudSizes, ClientSizes, cloudCounts
  <2> QED BY <1>5, <2>2, <2>3 DEF FinishStep
<1> QED BY <1>3, <1>4, <1>5

LEMMA WaitSizes ==
    ASSUME Inv, Sizes, UNCHANGED <<runs, exit_code>>,
           \/ WaitActive \/ WaitNodes \/ FinishCreate
           \/ DeleteTemplate \/ DeleteGroup \/ WaitDeleted
    PROVE  Sizes'
<1>1. pc \in Open
  BY DEF WaitActive, WaitNodes, FinishCreate, DeleteTemplate, DeleteGroup, WaitDeleted,
         Open, Awaiting, Deleting
<1>2. CASE DeleteGroup
  <2>1. /\ group' \in {group, [group EXCEPT !.status = "deleting"]}
        /\ UNCHANGED <<ready, free>>
    BY <1>2 DEF DeleteGroup
  <2>2. group'.min = group.min /\ group'.max = group.max /\ group'.desired = group.desired
    BY <2>1, Fields
  <2>3. CloudSizes'
    BY <2>1, <2>2 DEF Sizes, CloudSizes
  <2>4. Raise \/ \E l \in PCs : Goto(l)
    BY <1>2 DEF DeleteGroup, PCs
  <2> QED BY <1>1, <2>3, <2>4, LateEndSizes
<1>3. CASE WaitActive \/ WaitNodes \/ FinishCreate \/ DeleteTemplate \/ WaitDeleted
  <2>1. UNCHANGED cloudCounts
    BY <1>3 DEF WaitActive, WaitNodes, FinishCreate, DeleteTemplate, DropTemplate,
           WaitDeleted, cloudVars, cloudCounts
  <2>2. Raise \/ (Leave(TRUE) /\ Return(TRUE)) \/ \E l \in PCs : Goto(l)
    BY <1>3 DEF WaitActive, WaitNodes, FinishCreate, DeleteTemplate, WaitDeleted, PCs
  <2> QED BY <1>1, <2>1, <2>2, EndSizes
<1> QED BY <1>2, <1>3

LEMMA ProcessSizes ==
    ASSUME Inv, Sizes, Begin \/ Process
    PROVE  Sizes'
<1>1. CASE Begin
  <2>1. /\ UNCHANGED <<group, ready, free, records>> /\ status' = 0 /\ exit_code' = 0
        /\ client'.tries = 0 /\ op'.from = 0 /\ op'.plan = <<>>
        /\ runs' = runs + 1 /\ runs < MaxRuns
    BY <1>1 DEF Begin, cloudVars
  <2>2. 0 \in 0 .. Retries /\ 0 \in Counts /\ <<>> \in Seq(Counts) /\ runs' \in 0 .. MaxRuns
    BY <2>1, CountFacts, CommandAssumption, RunAssumption DEF Sizes, ClientSizes
  <2> QED BY <2>1, <2>2 DEF Sizes, CloudSizes, ClientSizes
<1>2. CASE Plugin
  BY <1>2, EndSizes DEF Plugin, runVars, cloudVars, cloudCounts, PCs
<1>3. CASE Returned
  BY <1>3 DEF Returned, cloudVars, Sizes, CloudSizes, ClientSizes
<1>4. CASE ClientStep
  <2>1. UNCHANGED <<runs, exit_code>> /\ (Construct \/ Operate)
    BY <1>4 DEF ClientStep, runVars
  <2> QED BY <2>1, ConstructSizes, CallSizes, CreateSizes, ScaleSizes, WaitSizes DEF Operate
<1> QED BY <1>1, <1>2, <1>3, <1>4 DEF Process

LEMMA SizesInvariant == Spec => [](Inv /\ Sizes)
<1>1. Init => Inv /\ Sizes
  <2> SUFFICES ASSUME Init PROVE Sizes
    BY InitInv
  <2>1. 0 \in 0 .. Retries /\ 0 \in Counts /\ <<>> \in Seq(Counts) /\ 0 \in 0 .. MaxRuns
        /\ <<>> \in Seq(SizedRecords)
    BY CountFacts, CommandAssumption, RunAssumption
  <2>2. CloudSizes
    BY <2>1 DEF Init, CloudInit, NoGroup, CloudSizes
  <2>3. ClientSizes
    BY <2>1 DEF Init, ClientInit, ClientSizes
  <2> QED BY <2>2, <2>3 DEF Sizes
<1>2. Inv /\ Sizes /\ [Next]_vars => (Inv /\ Sizes)'
  <2> SUFFICES ASSUME Inv, Sizes, [Next]_vars PROVE Sizes'
    BY NextInv
  <2>1. CASE UNCHANGED vars
    BY <2>1 DEF vars, cloudVars, clientVars, runVars, Sizes, CloudSizes, ClientSizes
  <2> QED BY <2>1, CloudStepSizes, ProcessSizes DEF Next
<1> QED BY <1>1, <1>2, PTL DEF Spec

(***************************************************************************)
(* Types with their bounds, for every set of command lines and every step  *)
(* size: EKSClient never asks for, and EKS never has, a count out of the   *)
(* range of those on the command line, also while _progressive_scale is    *)
(* between two of them, and execute_with_retries stops at its limit.       *)
(***************************************************************************)
THEOREM EksTypes == Spec => []TypeOK
BY SizesInvariant, SizesAreTypes, PTL

---------------------------------------------------------------------------
(* The steps a process has left *)

(***************************************************************************)
(* Four measures, each of which only matters while those before it stay:   *)
(* the operations main() or all() has left; whether the process still      *)
(* builds its client, is about to call, in an operation or behind it; how  *)
(* far it is there, step by step of the plan; and the policies and retries *)
(* that are left.                                                          *)
(***************************************************************************)
PhasesFrom(p) ==
    CASE p = "create"     -> 4
      [] p = "scale_up"   -> 3
      [] p = "scale_down" -> 2
      [] p = "delete"     -> 1

PhasesLeft == IF pc = "off" THEN 0 ELSE PhasesFrom(phase)

Stage ==
    CASE pc \in Building \cup {"plugin"} -> 3
      [] pc = "call"                     -> 2
      [] pc \in Open                     -> 1
      [] pc \in {"returned", "off"}      -> 0

Place ==
    CASE pc = "connect" -> 8
      [] pc \in {"role", "reserve"} -> 7
      [] pc \in {"create_role", "template"} -> 6
      [] pc \in {"attach", "new_template", "step"} -> 5
      [] pc \in {"get_role", "group", "update"} -> 4
      [] pc \in {"entry", "active", "delete_template"} -> 3
      [] pc \in {"create_entry", "nodes", "delete_group"} -> 2
      [] pc \in {"plugin", "finish", "deleted"} -> 1
      [] pc \in {"call", "returned", "off"} -> 0

WayLeft == IF pc \in Open THEN 8 * Len(op.plan) + Place ELSE Place

Repeats ==
    CASE pc = "attach" -> Cardinality(client.todo)
      [] pc \in {"get_role", "create_entry"} -> Retries - client.tries
      [] OTHER -> 0

(***************************************************************************)
(* In the order of the measures, the process is nearer to its end.         *)
(***************************************************************************)
Nearer ==
    \/ PhasesLeft' < PhasesLeft
    \/ PhasesLeft' = PhasesLeft /\ Stage' < Stage
    \/ PhasesLeft' = PhasesLeft /\ Stage' = Stage /\ WayLeft' < WayLeft
    \/ PhasesLeft' = PhasesLeft /\ Stage' = Stage /\ WayLeft' = WayLeft /\ Repeats' < Repeats

Measured == {PhasesLeft, Stage, WayLeft, Repeats} \subseteq Nat

LEMMA MeasuresAreNat == Inv /\ Sizes => Measured
<1> SUFFICES ASSUME Inv, Sizes PROVE Measured
  OBVIOUS
<1>0. pc \in PCs /\ phase \in Phases
  BY DEF Inv, Types, ClientTypes
<1>1. PhasesLeft \in Nat
  BY <1>0 DEF PhasesLeft, PhasesFrom, Phases
<1>2. Stage \in Nat
  BY <1>0 DEF Stage, Building, Open, Creating, Scaling, Awaiting, Deleting, PCs
<1>3. Place \in Nat
  BY <1>0 DEF Place, PCs
<1>4. WayLeft \in Nat
  <2>1. Len(op.plan) \in Nat
    BY Fields
  <2> QED BY <1>3, <2>1 DEF WayLeft
<1>5. Repeats \in Nat
  <2>1. Cardinality(client.todo) \in Nat
    BY Fields, CloudAssumption, FS_Subset, FS_CardinalityType
  <2>2. Retries - client.tries \in Nat
    BY CommandAssumption DEF Sizes, ClientSizes
  <2> QED BY <2>1, <2>2 DEF Repeats
<1> QED BY <1>1, <1>2, <1>4, <1>5 DEF Measured

(***************************************************************************)
(* The end of the process, or of the operation.                            *)
(***************************************************************************)
LEMMA OffIsNearer ==
    ASSUME Inv, pc # "off", pc' = "off"
    PROVE  Nearer
<1>1. phase \in Phases
  BY DEF Inv, Types, ClientTypes
<1>2. PhasesLeft \in {1, 2, 3, 4} /\ PhasesLeft' = 0
  BY <1>1 DEF PhasesLeft, PhasesFrom, Phases
<1> QED BY <1>2 DEF Nearer

LEMMA StageIsNearer ==
    ASSUME Inv, pc # "off", phase' = phase,
           \/ pc \in Building \cup {"plugin"} /\ pc' = "call"
           \/ pc = "call" /\ pc' \in Open \cup {"returned"}
           \/ pc \in Open /\ pc' = "returned"
    PROVE  Nearer
<1>1. PhasesLeft' = PhasesLeft
  BY DEF PhasesLeft, Building, Open, Creating, Scaling, Awaiting, Deleting
<1>2. Stage' < Stage
  BY DEF Stage, Building, Open, Creating, Scaling, Awaiting, Deleting
<1> QED BY <1>1, <1>2 DEF Nearer

(***************************************************************************)
(* A move on within the constructor or within an operation.                *)
(***************************************************************************)
LEMMA PlaceIsNearer ==
    ASSUME Inv, phase' = phase, Place' < Place,
           \/ pc \in Building /\ pc' \in Building \cup {"plugin"}
           \/ pc \in Open /\ pc' \in Open /\ op'.plan = op.plan
    PROVE  Nearer
<1>0. pc \in PCs /\ pc' \in PCs
  BY DEF PCs, Building, Open, Creating, Scaling, Awaiting, Deleting
<1>1. pc # "off" /\ pc' # "off"
  BY DEF Building, Open, Creating, Scaling, Awaiting, Deleting
<1>2. PhasesLeft' = PhasesLeft
  BY <1>1 DEF PhasesLeft
<1>3. Stage' = Stage
  BY DEF Stage, Building, Open, Creating, Scaling, Awaiting, Deleting
<1>4. WayLeft' < WayLeft
  <2>1. Place \in Nat /\ Place' \in Nat
    BY <1>0 DEF Place, PCs
  <2>2. Len(op.plan) \in Nat
    BY Fields
  <2>3. pc \in Building => pc \notin Open /\ pc' \notin Open
    BY DEF Building, Open, Creating, Scaling, Awaiting, Deleting
  <2> QED BY <2>1, <2>2, <2>3 DEF WayLeft
<1> QED BY <1>2, <1>3, <1>4 DEF Nearer

(***************************************************************************)
(* One policy less to attach, or one retry less.                           *)
(***************************************************************************)
LEMMA RepeatIsNearer ==
    ASSUME Inv, Sizes, phase' = phase, op' = op, pc' = pc,
           \/ pc = "attach" /\ \E p \in client.todo : client'.todo = client.todo \ {p}
           \/ pc \in {"get_role", "create_entry"} /\ client'.tries = client.tries + 1
    PROVE  Nearer
<1>1. PhasesLeft' = PhasesLeft /\ Stage' = Stage /\ WayLeft' = WayLeft
  <2>1. PhasesLeft' = PhasesLeft
    BY DEF PhasesLeft
  <2>2. Stage' = Stage
    BY DEF Stage, Building, Open, Creating, Scaling, Awaiting, Deleting
  <2>3. pc \notin Open /\ pc' \notin Open /\ Place' = Place
    BY DEF Place, Open, Creating, Scaling, Awaiting, Deleting
  <2> QED BY <2>1, <2>2, <2>3 DEF WayLeft
<1>2. CASE pc = "attach"
  <2>1. PICK p \in client.todo : client'.todo = client.todo \ {p}
    BY <1>2
  <2>2. IsFiniteSet(client.todo)
    BY Fields, CloudAssumption, FS_Subset
  <2>3. /\ Cardinality(client.todo) \in Nat
        /\ Cardinality(client.todo \ {p}) = Cardinality(client.todo) - 1
    BY <2>2, FS_CardinalityType, FS_RemoveElement
  <2>4. Repeats' < Repeats
    BY <1>2, <2>1, <2>3 DEF Repeats
  <2> QED BY <1>1, <2>4 DEF Nearer
<1>3. CASE pc # "attach"
  <2>1. Retries \in Nat /\ client.tries \in Nat
    BY CommandAssumption DEF Sizes, ClientSizes
  <2>2. Repeats' < Repeats
    BY <1>3, <2>1 DEF Repeats
  <2> QED BY <1>1, <2>2 DEF Nearer
<1> QED BY <1>2, <1>3

LEMMA ConstructIsNearer ==
    ASSUME Inv, Sizes, Construct
    PROVE  Nearer
<1>1. pc # "off" /\ pc \in Building
  BY DEF Construct, Connect, CheckRole, CreateRole, AttachPolicy, Attached, GetRole, CheckEntry,
         CreateEntry, Building
<1>2. phase' = phase
  BY DEF Construct, Connect, CheckRole, CreateRole, AttachPolicy, Attached, GetRole, CheckEntry,
         CreateEntry, AttemptFails, AttemptSucceeds, Goto, Die
<1>3. CASE pc' = "off"
  BY <1>1, <1>3, OffIsNearer
<1>4. CASE pc' # "off" /\ pc' # pc
  <2>1. \/ pc = "connect" /\ pc' = "role"
        \/ pc = "role" /\ pc' \in {"create_role", "get_role"}
        \/ pc = "create_role" /\ pc' = "attach"
        \/ pc = "attach" /\ pc' = "get_role"
        \/ pc = "get_role" /\ pc' = "entry"
        \/ pc = "entry" /\ pc' \in {"create_entry", "plugin"}
        \/ pc = "create_entry" /\ pc' = "plugin"
    BY <1>4 DEF Construct, Connect, CheckRole, CreateRole, AttachPolicy, Attached, GetRole,
       CheckEntry, CreateEntry, AttemptFails, AttemptSucceeds, Goto, Die
  <2>2. Place' < Place /\ pc' \in Building \cup {"plugin"}
    BY <2>1 DEF Place, Building
  <2> QED BY <1>1, <1>2, <2>2, PlaceIsNearer
<1>5. CASE pc' # "off" /\ pc' = pc
  <2>1. /\ op' = op
        /\ \/ /\ pc = "attach"
              /\ \E p \in client.todo : client' = [client EXCEPT !.todo = @ \ {p}]
           \/ /\ pc \in {"get_role", "create_entry"}
              /\ client' = [client EXCEPT !.tries = @ + 1]
    BY <1>5 DEF Construct, Connect, CheckRole, CreateRole, AttachPolicy, Attached, GetRole,
       CheckEntry, CreateEntry, AttemptFails, AttemptSucceeds, Goto, Die
  <2>2. \/ pc = "attach" /\ \E p \in client.todo : client'.todo = client.todo \ {p}
        \/ pc \in {"get_role", "create_entry"} /\ client'.tries = client.tries + 1
    BY <2>1, Fields
  <2> QED BY <1>2, <1>5, <2>1, <2>2, RepeatIsNearer
<1> QED BY <1>3, <1>4, <1>5

(***************************************************************************)
(* The next step of _progressive_scale: the plan is shorter.               *)
(***************************************************************************)
LEMMA NextStepIsNearer ==
    ASSUME Inv, pc = "finish", pc' = "step", phase' = phase, Len(op.plan) > 1,
           op' = [op EXCEPT !.plan = Tail(@)]
    PROVE  Nearer
<1>1. PhasesLeft' = PhasesLeft /\ Stage' = Stage
  BY DEF PhasesLeft, Stage, Building, Open, Creating, Scaling, Awaiting, Deleting
<1>2. /\ op.plan \in Seq(Int) /\ op'.plan = Tail(op.plan)
      /\ Len(op.plan) \in Nat
  BY Fields
<1>3. Len(op'.plan) = Len(op.plan) - 1
  BY <1>2
<1>4. Place = 1 /\ Place' = 5 /\ pc \in Open /\ pc' \in Open
  BY DEF Place, Open, Scaling, Awaiting
<1>5. WayLeft = 8 * Len(op.plan) + 1 /\ WayLeft' = 8 * Len(op'.plan) + 5
  BY <1>4 DEF WayLeft
<1>6. WayLeft' < WayLeft
  BY <1>2, <1>3, <1>5
<1> QED BY <1>1, <1>6 DEF Nearer

LEMMA OperateIsNearer ==
    ASSUME Inv, Operate
    PROVE  Nearer
<1> USE DEF Operate, AmiUnknown, CreateCall, Reserve, CheckTemplate, CreateTemplate,
        CreateGroup, WaitActive, WaitNodes, FinishCreate, ScaleCall, Step, Update, FinishStep,
        DeleteCall, DeleteTemplate, DeleteGroup, WaitDeleted, Goto, Enter, Raise, Return,
        SystemExit
<1>1. pc \in Open \cup {"call"} /\ pc # "off"
  BY DEF Open, Creating, Scaling, Awaiting, Deleting
<1>2. phase' = phase
  OBVIOUS
<1>3. CASE pc' = "off"
  BY <1>1, <1>3, OffIsNearer
<1>4. CASE pc' = "returned"
  BY <1>1, <1>2, <1>4, StageIsNearer
<1>5. CASE pc = "call" /\ pc' \notin {"off", "returned"}
  <2>1. pc' \in Open
    BY <1>5 DEF Open, Creating, Scaling, Deleting
  <2> QED BY <1>1, <1>2, <1>5, <2>1, StageIsNearer
<1>6. CASE pc # "call" /\ pc' \notin {"off", "returned"}
  <2>1. CASE pc = "finish"
    <3>1. Len(op.plan) > 1 /\ pc' = "step" /\ op' = [op EXCEPT !.plan = Tail(@)]
      BY <1>6, <2>1
    <3> QED BY <1>2, <2>1, <3>1, NextStepIsNearer
  <2>2. CASE pc # "finish"
    <3>1. \/ pc = "reserve" /\ pc' = "template"
          \/ pc = "template" /\ pc' \in {"group", "new_template"}
          \/ pc = "new_template" /\ pc' = "group"
          \/ pc = "group" /\ pc' = "active"
          \/ pc = "active" /\ pc' = "nodes"
          \/ pc = "nodes" /\ pc' = "finish"
          \/ pc = "step" /\ pc' = "update"
          \/ pc = "update" /\ pc' = "active"
          \/ pc = "delete_template" /\ pc' = "delete_group"
          \/ pc = "delete_group" /\ pc' = "deleted"
      BY <1>6, <2>2
    <3>2. Place' < Place /\ pc \in Open /\ pc' \in Open
      BY <3>1 DEF Place, Open, Creating, Scaling, Awaiting, Deleting
    <3>3. op'.plan = op.plan
      <4>1. \/ op' = op \/ \E r : op' = [op EXCEPT !.reservation = r]
            \/ \E k, n : op' = [op EXCEPT !.kind = k, !.from = n]
        BY <1>6, <2>2
      <4> QED BY <4>1, Fields
    <3> QED BY <1>2, <3>2, <3>3, PlaceIsNearer
  <2> QED BY <2>1, <2>2
<1> QED BY <1>1, <1>3, <1>4, <1>5, <1>6

LEMMA ReturnedIsNearer ==
    ASSUME Inv, Returned
    PROVE  Nearer
<1>1. pc = "returned" /\ pc # "off"
  BY DEF Returned
<1>2. CASE NextPhase = "done"
  BY <1>1, <1>2, OffIsNearer DEF Returned
<1>3. CASE NextPhase # "done"
  <2>1. pc' = "call" /\ phase' = NextPhase
    BY <1>3 DEF Returned
  <2>2. PhasesLeft' < PhasesLeft
    BY <1>1, <1>3, <2>1, NextPhaseFacts DEF PhasesLeft, PhasesFrom
  <2> QED BY <2>2 DEF Nearer
<1> QED BY <1>2, <1>3

(***************************************************************************)
(* Every step of a process brings it nearer to its end and no step of AWS  *)
(* takes it back.                                                          *)
(***************************************************************************)
Descends ==
    /\ Process => Nearer
    /\ CloudStep => UNCHANGED <<PhasesLeft, Stage, WayLeft, Repeats>>

(***************************************************************************)
(* A process takes finitely many steps, whatever calls to AWS fail, with   *)
(* any number of policies, retries and steps of a scaling: the measures    *)
(* are natural numbers, and every step makes them smaller in their         *)
(* lexicographic order.  What ProcessEnds needs besides is that the        *)
(* process runs on and that its waits come to an end.                      *)
(***************************************************************************)
THEOREM ProcessesAreFinite == Spec => []Measured /\ [][Descends]_vars
<1>1. Inv /\ Sizes /\ [Next]_vars => [Descends]_vars
  <2> SUFFICES ASSUME Inv, Sizes PROVE Descends
    OBVIOUS
  <2>1. Plugin => Nearer
    <3> SUFFICES ASSUME Plugin PROVE Nearer
      OBVIOUS
    <3>1. pc = "plugin" /\ phase' = phase /\ pc' \in {"call", "off"}
      BY DEF Plugin, Goto, Die
    <3> QED BY <3>1, OffIsNearer, StageIsNearer
  <2>2. CloudStep => UNCHANGED <<PhasesLeft, Stage, WayLeft, Repeats>>
    <3> SUFFICES ASSUME CloudStep PROVE UNCHANGED <<PhasesLeft, Stage, WayLeft, Repeats>>
      OBVIOUS
    <3>1. UNCHANGED <<pc, phase, client, op>>
      BY DEF CloudStep, clientVars
    <3>2. PhasesLeft' = PhasesLeft
      BY <3>1 DEF PhasesLeft
    <3>3. Stage' = Stage /\ Place' = Place
      BY <3>1, Zenon DEF Stage, Place
    <3>4. WayLeft' = WayLeft
      BY <3>1, <3>3 DEF WayLeft
    <3>5. Repeats' = Repeats
      BY <3>1, Zenon DEF Repeats
    <3> QED BY <3>2, <3>3, <3>4, <3>5
  <2> QED BY <2>1, <2>2, ReturnedIsNearer, ConstructIsNearer, OperateIsNearer
          DEF Descends, Process, ClientStep
<1> QED BY <1>1, SizesInvariant, MeasuresAreNat, PTL DEF Spec
===========================================================================
