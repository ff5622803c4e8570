------------------------- MODULE KwokNodesProofs -------------------------
(***************************************************************************)
(* The addresses of the KWOK nodes are right for every base address and    *)
(* every number of nodes, and a command that succeeded did all its work.   *)
(***************************************************************************)
EXTENDS KwokNodes, TLAPS

(***************************************************************************)
(* Division by 256, as SMT has to know it.                                 *)
(***************************************************************************)
LEMMA DivMod ==
    ASSUME NEW n \in Nat
    PROVE  /\ n \div 256 \in Nat /\ n % 256 \in Octet
           /\ n = 256 * (n \div 256) + (n % 256)
<1>1. n \div 256 \in Nat
  OBVIOUS
<1>2. n % 256 \in 0 .. 255
  OBVIOUS
<1>3. n = 256 * (n \div 256) + (n % 256)
  OBVIOUS
<1> QED
  BY <1>1, <1>2, <1>3 DEF Octet

(***************************************************************************)
(* A number that _generate_node_ip does not refuse is an octet.            *)
(***************************************************************************)
LEMMA IsOctet ==
    ASSUME NEW n \in Nat, n <= 255
    PROVE  n \in Octet
  BY DEF Octet

(***************************************************************************)
(* The carries of _generate_node_ip, one octet after the other.            *)
(***************************************************************************)
LEMMA Carries ==
    ASSUME NEW b \in Octet \X Octet \X Octet \X Octet, NEW i \in Nat
    PROVE  /\ C(b, i) \in Nat /\ B(b, i) \in Nat /\ A(b, i) \in Nat
           /\ b[4] + i = 256 * (C(b, i) - b[3]) + ((b[4] + i) % 256)
           /\ C(b, i) = 256 * (B(b, i) - b[2]) + (C(b, i) % 256)
           /\ B(b, i) = 256 * (A(b, i) - b[1]) + (B(b, i) % 256)
           /\ (b[4] + i) % 256 \in Octet /\ C(b, i) % 256 \in Octet /\ B(b, i) % 256 \in Octet
<1>1. b[1] \in Nat /\ b[2] \in Nat /\ b[3] \in Nat /\ b[4] \in Nat
  BY DEF Octet
<1>2. b[4] + i \in Nat
  BY <1>1
<1>3. (b[4] + i) \div 256 \in Nat /\ (b[4] + i) % 256 \in Octet
      /\ b[4] + i = 256 * ((b[4] + i) \div 256) + ((b[4] + i) % 256)
  BY <1>2, DivMod
<1>4. C(b, i) \in Nat /\ (b[4] + i) \div 256 = C(b, i) - b[3]
  BY <1>1, <1>3 DEF C
<1>5. C(b, i) \div 256 \in Nat /\ C(b, i) % 256 \in Octet
      /\ C(b, i) = 256 * (C(b, i) \div 256) + (C(b, i) % 256)
  BY <1>4, DivMod
<1>6. B(b, i) \in Nat /\ C(b, i) \div 256 = B(b, i) - b[2]
  BY <1>1, <1>4, <1>5 DEF B
<1>7. B(b, i) \div 256 \in Nat /\ B(b, i) % 256 \in Octet
      /\ B(b, i) = 256 * (B(b, i) \div 256) + (B(b, i) % 256)
  BY <1>6, DivMod
<1>8. A(b, i) \in Nat /\ B(b, i) \div 256 = A(b, i) - b[1]
  BY <1>1, <1>6, <1>7 DEF A
<1> QED
  BY <1>3, <1>4, <1>5, <1>6, <1>7, <1>8

(***************************************************************************)
(* The sum of base and index, written in octets.                           *)
(***************************************************************************)
LEMMA SumInOctets ==
    ASSUME NEW b \in Octet \X Octet \X Octet \X Octet, NEW i \in Nat
    PROVE  Offset(b, Generate(b, i)) = Offset(b, b) + i
<1> DEFINE d == (b[4] + i) % 256
           c == C(b, i) % 256
           e == B(b, i) % 256
<1>1. b[1] \in Nat /\ b[2] \in Nat /\ b[3] \in Nat /\ b[4] \in Nat
  BY DEF Octet
<1>2. d \in Nat /\ c \in Nat /\ e \in Nat
  <2>1. d \in Octet /\ c \in Octet /\ e \in Octet
    BY Carries
  <2> HIDE DEF d, c, e
  <2> QED
    BY <2>1 DEF Octet
<1>3. /\ C(b, i) \in Nat /\ B(b, i) \in Nat /\ A(b, i) \in Nat
      /\ b[4] + i = 256 * (C(b, i) - b[3]) + d
      /\ C(b, i) = 256 * (B(b, i) - b[2]) + c
      /\ B(b, i) = 256 * (A(b, i) - b[1]) + e
  BY Carries
<1>4. Offset(b, Generate(b, i)) = (((A(b, i) - b[1]) * 256 + e) * 256 + c) * 256 + d
  BY DEF Offset, Generate
<1>5. Offset(b, b) = (b[2] * 256 + b[3]) * 256 + b[4]
  BY <1>1 DEF Offset
<1> HIDE DEF d, c, e
<1> QED
  BY <1>1, <1>2, <1>3, <1>4, <1>5

(***************************************************************************)
(* A number that is written in octets loses the last one when divided.     *)
(***************************************************************************)
LEMMA DropOctet ==
    ASSUME NEW q \in Nat, NEW r \in Octet
    PROVE  (q * 256 + r) \div 256 = q
  BY DEF Octet

(***************************************************************************)
(* The first octet is what is left of the sum above the other three.       *)
(***************************************************************************)
LEMMA FirstOctet ==
    ASSUME NEW b \in Octet \X Octet \X Octet \X Octet, NEW i \in Nat
    PROVE  (((Offset(b, b) + i) \div 256) \div 256) \div 256 = A(b, i) - b[1]
<1> DEFINE d == (b[4] + i) % 256
           c == C(b, i) % 256
           e == B(b, i) % 256
           q == A(b, i) - b[1]
<1>1. d \in Octet /\ c \in Octet /\ e \in Octet
  BY Carries
<1>2. q \in Nat
  <2>1. B(b, i) \in Nat /\ B(b, i) = 256 * q + e /\ A(b, i) \in Nat
    BY Carries
  <2>2. b[1] \in Nat
    BY DEF Octet
  <2>3. q \in Int
    BY <2>1, <2>2
  <2> HIDE DEF e, q
  <2>4. e \in 0 .. 255
    BY <1>1 DEF Octet
  <2> QED
    BY <2>1, <2>3, <2>4
<1>3. Offset(b, b) + i = ((q * 256 + e) * 256 + c) * 256 + d
  BY SumInOctets DEF Offset, Generate
<1> HIDE DEF d, c, e, q
<1>4. q * 256 + e \in Nat /\ (q * 256 + e) * 256 + c \in Nat
  BY <1>1, <1>2 DEF Octet
<1>5. (Offset(b, b) + i) \div 256 = (q * 256 + e) * 256 + c
  BY <1>1, <1>3, <1>4, DropOctet
<1>6. ((q * 256 + e) * 256 + c) \div 256 = q * 256 + e
  BY <1>1, <1>4, DropOctet
<1>7. (q * 256 + e) \div 256 = q
  BY <1>1, <1>2, DropOctet
<1> QED
  BY <1>5, <1>6, <1>7 DEF q

(***************************************************************************)
(* _generate_node_ip raises only when base plus index is no IPv4 address,  *)
(* for every base address and every index: the first octet it checks is    *)
(* what the sum leaves above the other three.                              *)
(***************************************************************************)
THEOREM RaisesOnlyBeyondRange ==
    ASSUME NEW b \in Octet \X Octet \X Octet \X Octet, NEW i \in Nat
    PROVE  InRange(b, i) <=>
               (((Offset(b, b) + i) \div 256) \div 256) \div 256 <= 255 - b[1]
<1>1. A(b, i) \in Nat
  BY Carries
<1>2. b[1] \in Nat
  BY DEF Octet
<1> QED
  BY <1>1, <1>2, FirstOctet DEF InRange

(***************************************************************************)
(* An address that is returned is valid and base plus index.               *)
(***************************************************************************)
LEMMA GeneratedIsSum ==
    ASSUME NEW b \in Octet \X Octet \X Octet \X Octet, NEW i \in Nat, InRange(b, i)
    PROVE  /\ Generate(b, i) \in Octet \X Octet \X Octet \X Octet
           /\ Offset(b, Generate(b, i)) = Offset(b, b) + i
<1>1. /\ A(b, i) \in Nat
      /\ B(b, i) % 256 \in Octet /\ C(b, i) % 256 \in Octet
      /\ (b[4] + i) % 256 \in Octet
  BY Carries
<1>2. A(b, i) \in Octet
  BY <1>1, IsOctet DEF InRange
<1> QED
  BY <1>1, <1>2, SumInOctets DEF Generate

(***************************************************************************)
(* What a call of a command does to the nodes: it leaves them alone,       *)
(* removes one, or creates one under the address generated for it.         *)
(***************************************************************************)
LEMMA EffectOnNodes ==
    ASSUME NEW c, Effect(c)
    PROVE  \/ node' = node
           \/ node' = [node EXCEPT ![c.node] = None]
           \/ c.op = "node" /\ node' = [node EXCEPT ![c.node] = Generate(base_ip, c.node)]
  BY DEF Effect, ApplyManifest, DeleteConfigMap, ApplyConfigMap, CreateNode, DeleteNode,
         CreateResourceSlice, DeleteResourceSlice, cluster

(***************************************************************************)
(* Indices of nodes are natural numbers.                                   *)
(***************************************************************************)
LEMMA NodesAreNat == Nodes \subseteq Nat
  BY KwokAssumption DEF Nodes

(***************************************************************************)
(* The inductive invariant: the addresses, and what they are stored in.    *)
(***************************************************************************)
Addressed ==
    /\ base_ip \in Octet \X Octet \X Octet \X Octet
    /\ DOMAIN node = Nodes
    /\ node = [i \in Nodes |-> node[i]]
    /\ AddressIsSum

(***************************************************************************)
(* A call that was allowed to start keeps the addresses.                   *)
(***************************************************************************)
LEMMA CallKeepsAddresses ==
    ASSUME Addressed, Addressable, Effect(Head(todo)), UNCHANGED base_ip
    PROVE  Addressed'
<1> DEFINE c == Head(todo)
<1>1. CASE node' = node
  BY <1>1 DEF Addressed, AddressIsSum
<1>2. CASE node' = [node EXCEPT ![c.node] = None]
  BY <1>2 DEF Addressed, AddressIsSum
<1>3. CASE c.op = "node" /\ node' = [node EXCEPT ![c.node] = Generate(base_ip, c.node)]
  <2>1. InRange(base_ip, c.node)
    BY <1>3 DEF Addressable
  <2>2. DOMAIN node' = Nodes /\ node' = [i \in Nodes |-> node'[i]]
    BY <1>3 DEF Addressed
  <2>3. ASSUME NEW i \in Nodes, node'[i] # None
        PROVE  /\ node'[i] \in Octet \X Octet \X Octet \X Octet
               /\ Offset(base_ip, node'[i]) = Offset(base_ip, base_ip) + i
    <3>1. CASE i = c.node
      <4>1. node'[i] = Generate(base_ip, i)
        BY <1>3, <3>1 DEF Addressed
      <4>2. i \in Nat /\ InRange(base_ip, i)
        BY <2>1, <3>1, NodesAreNat
      <4> QED
        BY <4>1, <4>2, GeneratedIsSum DEF Addressed
    <3>2. CASE i # c.node
      <4>1. node'[i] = node[i]
        BY <1>3, <3>2 DEF Addressed
      <4> QED
        BY <2>3, <4>1 DEF Addressed, AddressIsSum
    <3> QED
      BY <3>1, <3>2
  <2> QED
    BY <2>2, <2>3 DEF Addressed, AddressIsSum
<1> QED
  BY <1>1, <1>2, <1>3, EffectOnNodes

(***************************************************************************)
(* Every node create() leaves in the cluster has the valid address that is *)
(* base plus index, for every base address, any number of nodes, retries   *)
(* and commands, and wherever a command was interrupted.                   *)
(***************************************************************************)
THEOREM AddressesAreSums == Spec => []AddressIsSum
<1>1. Init => Addressed
  BY KwokAssumption DEF Init, Addressed, AddressIsSum
<1>2. Addressed /\ [Next]_vars => Addressed'
  <2> SUFFICES ASSUME Addressed, [Next]_vars PROVE Addressed'
    OBVIOUS
  <2>1. ASSUME UNCHANGED <<base_ip, node>> PROVE Addressed'
    BY <2>1 DEF Addressed, AddressIsSum
  <2>2. CASE UNCHANGED vars
    BY <2>1, <2>2 DEF vars
  <2>3. CASE Begin /\ UNCHANGED base_ip
    BY <2>1, <2>3 DEF Begin, cluster
  <2>4. CASE (Finish \/ OutOfAddresses) /\ UNCHANGED base_ip
    BY <2>1, <2>4 DEF Finish, OutOfAddresses, cluster
  <2>5. CASE CallSucceeds /\ UNCHANGED base_ip
    BY <2>5, CallKeepsAddresses DEF CallSucceeds
  <2>6. CASE CallFails /\ UNCHANGED base_ip
    <3>1. CASE UNCHANGED cluster
      BY <2>1, <2>6, <3>1 DEF cluster
    <3>2. CASE Effect(Head(todo))
      BY <2>6, <3>2, CallKeepsAddresses DEF CallFails
    <3> QED
      BY <2>6, <3>1, <3>2 DEF CallFails
  <2>7. CASE Cluster
    BY <2>1, <2>7 DEF Cluster, ConfigMapGone, ControllerChanges, NodeReady
  <2> QED
    BY <2>2, <2>3, <2>4, <2>5, <2>6, <2>7 DEF Next, Client
<1>3. Addressed => AddressIsSum
  BY DEF Addressed
<1> QED
  BY <1>1, <1>2, <1>3, PTL DEF Spec

---------------------------------------------------------------------------
(* What the calls of a command are *)

Ops     == {"kwok", "stage", "patch", "metrics", "class", "config_delete", "config_absent",
            "config_apply", "node", "slice", "delete_node", "delete_slice", "check_config",
            "check_controller", "check_nodes"}
CallSet == [op: Ops, node: Nat \cup {None}]

(***************************************************************************)
(* The parts of a call.                                                    *)
(***************************************************************************)
LEMMA CallParts ==
    ASSUME NEW op \in Ops, NEW i \in Nat
    PROVE  /\ Call(op) \in CallSet /\ Call(op).op = op
           /\ CallOn(op, i) \in CallSet /\ CallOn(op, i).op = op /\ CallOn(op, i).node = i
  BY DEF Call, CallOn, CallSet

(***************************************************************************)
(* A call for one of the first n nodes, or a manifest that comes late.     *)
(***************************************************************************)
LateCall(c, n) ==
    \/ c.op \in {"metrics", "class"}
    \/ c.op \in {"node", "slice"} /\ c.node \in 0 .. n - 1

(***************************************************************************)
(* create begins with six calls on manifests; what follows never touches   *)
(* the config map.                                                         *)
(***************************************************************************)
CreateShape(s, n) ==
    /\ s \in Seq(CallSet) /\ Len(s) >= 6
    /\ s[1].op = "kwok" /\ s[2].op = "stage" /\ s[3].op = "config_delete"
    /\ s[4].op = "config_absent" /\ s[5].op = "config_apply" /\ s[6].op = "patch"
    /\ \A k \in 7 .. Len(s) : LateCall(s[k], n)

Contains(s, c) == \E k \in 1 .. Len(s) : s[k] = c

(***************************************************************************)
(* Two lists of calls, one after the other.                                *)
(***************************************************************************)
LEMMA Concatenation ==
    ASSUME NEW R, NEW s \in Seq(R), NEW t \in Seq(R)
    PROVE  /\ s \o t \in Seq(R)
           /\ Len(s) \in Nat /\ Len(t) \in Nat /\ Len(s \o t) = Len(s) + Len(t)
           /\ \A k \in 1 .. Len(s) : (s \o t)[k] = s[k]
           /\ \A k \in 1 .. Len(t) : (s \o t)[Len(s) + k] = t[k]
           /\ \A k \in Len(s) + 1 .. Len(s) + Len(t) :
                 k - Len(s) \in 1 .. Len(t) /\ (s \o t)[k] = t[k - Len(s)]
OBVIOUS

(***************************************************************************)
(* Calls of the late kind may be appended.                                 *)
(***************************************************************************)
LEMMA ShapeGrows ==
    ASSUME NEW n \in Nat, NEW s, CreateShape(s, n), NEW t \in Seq(CallSet),
           \A k \in 1 .. Len(t) : LateCall(t[k], n)
    PROVE  /\ CreateShape(s \o t, n)
           /\ \A c : Contains(t, c) => Contains(s \o t, c)
<1> DEFINE u == s \o t
<1>0. s \in Seq(CallSet) /\ Len(s) >= 6
  BY DEF CreateShape
<1>1. /\ u \in Seq(CallSet)
      /\ Len(s) \in Nat /\ Len(t) \in Nat /\ Len(u) = Len(s) + Len(t)
      /\ \A k \in 1 .. Len(s) : u[k] = s[k]
      /\ \A k \in 1 .. Len(t) : u[Len(s) + k] = t[k]
      /\ \A k \in Len(s) + 1 .. Len(s) + Len(t) :
            k - Len(s) \in 1 .. Len(t) /\ u[k] = t[k - Len(s)]
  BY <1>0, Concatenation
<1> HIDE DEF u
<1>2. \A k \in 1 .. 6 : k \in 1 .. Len(s)
  BY <1>0, <1>1
<1>3. u[1] = s[1] /\ u[2] = s[2] /\ u[3] = s[3] /\ u[4] = s[4] /\ u[5] = s[5] /\ u[6] = s[6]
  BY <1>1, <1>2
<1>4. ASSUME NEW k \in 7 .. Len(u) PROVE LateCall(u[k], n)
  <2>1. k \in 7 .. Len(s) \/ k \in Len(s) + 1 .. Len(s) + Len(t)
    BY <1>1
  <2>2. CASE k \in 7 .. Len(s)
    BY <1>1, <2>2 DEF CreateShape
  <2>3. CASE k \in Len(s) + 1 .. Len(s) + Len(t)
    BY <1>1, <2>3
  <2> QED
    BY <2>1, <2>2, <2>3
<1>5. Len(u) >= 6
  BY <1>0, <1>1
<1>6. CreateShape(u, n)
  BY <1>1, <1>3, <1>4, <1>5 DEF CreateShape
<1>7. ASSUME NEW c, Contains(t, c) PROVE Contains(u, c)
  <2>1. PICK k \in 1 .. Len(t) : t[k] = c
    BY <1>7 DEF Contains
  <2>2. Len(s) + k \in 1 .. Len(u) /\ u[Len(s) + k] = c
    BY <1>1, <2>1
  <2> QED
    BY <2>2 DEF Contains
<1> QED
  BY <1>6, <1>7 DEF u

(***************************************************************************)
(* The calls per node: one of each kind for every node, and no other.      *)
(***************************************************************************)
LEMMA PerNodeFacts ==
    ASSUME NEW n \in Nat, NEW dra \in BOOLEAN, NEW op1 \in Ops, NEW op2 \in Ops
    PROVE  LET p == PerNode(op1, op2, n, dra)
           IN  /\ p \in Seq(CallSet)
               /\ \A k \in 1 .. Len(p) : p[k].op \in {op1, op2} /\ p[k].node \in 0 .. n - 1
               /\ \A i \in 0 .. n - 1 : Contains(p, CallOn(op1, i))
               /\ dra => \A i \in 0 .. n - 1 : Contains(p, CallOn(op2, i))
<1> DEFINE p == PerNode(op1, op2, n, dra)
<1>1. CASE dra
  <2>1. p = [k \in 1 .. 2 * n |-> CallOn(IF k % 2 = 1 THEN op1 ELSE op2, (k - 1) \div 2)]
    BY <1>1 DEF PerNode
  <2>2. \A k \in 1 .. 2 * n : (k - 1) \div 2 \in 0 .. n - 1
    OBVIOUS
  <2>3. \A k \in 1 .. 2 * n :
           p[k] = CallOn(IF k % 2 = 1 THEN op1 ELSE op2, (k - 1) \div 2)
    BY <2>1
  <2>4. ASSUME NEW k \in 1 .. 2 * n
        PROVE  /\ p[k] \in CallSet
               /\ p[k].op \in {op1, op2} /\ p[k].node \in 0 .. n - 1
    <3> DEFINE i == (k - 1) \div 2
    <3>1. i \in 0 .. n - 1 /\ i \in Nat
      BY <2>2
    <3>2. p[k] = CallOn(op1, i) \/ p[k] = CallOn(op2, i)
      BY <2>3
    <3> HIDE DEF p, i
    <3> QED
      BY <3>1, <3>2, CallParts
  <2>5. p \in Seq(CallSet) /\ Len(p) = 2 * n
    <3>1. 2 * n \in Nat
      OBVIOUS
    <3>2. p = [k \in 1 .. 2 * n |-> p[k]]
      BY <2>1
    <3> HIDE DEF p
    <3> QED
      BY <2>4, <3>1, <3>2
  <2>6. ASSUME NEW i \in 0 .. n - 1
        PROVE  Contains(p, CallOn(op1, i)) /\ Contains(p, CallOn(op2, i))
    <3>1. /\ 2 * i + 1 \in 1 .. 2 * n /\ (2 * i + 1) % 2 = 1 /\ (2 * i + 1 - 1) \div 2 = i
          /\ 2 * i + 2 \in 1 .. 2 * n /\ (2 * i + 2) % 2 # 1 /\ (2 * i + 2 - 1) \div 2 = i
      OBVIOUS
    <3>2. p[2 * i + 1] = CallOn(op1, i) /\ p[2 * i + 2] = CallOn(op2, i)
      BY <2>3, <3>1
    <3> QED
      BY <2>5, <3>1, <3>2 DEF Contains
  <2> QED
    BY <2>4, <2>5, <2>6
<1>2. CASE ~dra
  <2>1. p = [k \in 1 .. n |-> CallOn(op1, k - 1)]
    BY <1>2 DEF PerNode
  <2>2. \A k \in 1 .. n : p[k] = CallOn(op1, k - 1) /\ k - 1 \in 0 .. n - 1 /\ k - 1 \in Nat
    BY <2>1
  <2>3. ASSUME NEW k \in 1 .. n
        PROVE  /\ p[k] \in CallSet
               /\ p[k].op \in {op1, op2} /\ p[k].node \in 0 .. n - 1
    <3> HIDE DEF p
    <3> QED
      BY <2>2, CallParts
  <2>4. p \in Seq(CallSet) /\ Len(p) = n
    <3>1. p = [k \in 1 .. n |-> p[k]]
      BY <2>1
    <3> HIDE DEF p
    <3> QED
      BY <2>3, <3>1
  <2>5. ASSUME NEW i \in 0 .. n - 1 PROVE Contains(p, CallOn(op1, i))
    <3>1. i + 1 \in 1 .. n /\ i + 1 - 1 = i
      OBVIOUS
    <3>2. p[i + 1] = CallOn(op1, i)
      BY <2>2, <3>1
    <3> QED
      BY <2>4, <3>1, <3>2 DEF Contains
  <2> QED
    BY <1>2, <2>3, <2>4, <2>5
<1> QED
  BY <1>1, <1>2

(***************************************************************************)
(* The calls of create: the six, then one for every node and, with DRA,    *)
(* one for every resource slice.                                           *)
(***************************************************************************)
LEMMA CreateFacts ==
    ASSUME NEW c \in Commands, c.action = "create"
    PROVE  /\ CreateShape(Calls(c), c.count)
           /\ \A i \in 0 .. c.count - 1 :
                 /\ Contains(Calls(c), CallOn("node", i))
                 /\ c.dra => Contains(Calls(c), CallOn("slice", i))
<1> DEFINE head   == <<Call("kwok"), Call("stage"), Call("config_delete"),
                       Call("config_absent"), Call("config_apply"), Call("patch")>>
           metric == IF c.metrics THEN <<Call("metrics")>> ELSE <<>>
           class  == IF c.dra THEN <<Call("class")>> ELSE <<>>
           nodes  == PerNode("node", "slice", c.count, c.dra)
<1>0. c.count \in Nat /\ c.dra \in BOOLEAN
  BY KwokAssumption DEF Commands
<1>1. Calls(c) = ((head \o metric) \o class) \o nodes
  BY DEF Calls, CreateCalls, ApplyKwokManifests, ReplaceConfigMap
<1>2. \A op \in Ops : Call(op) \in CallSet /\ Call(op).op = op
  BY CallParts
<1>3. CreateShape(head, c.count)
  <2>1. \A op \in {"kwok", "stage", "config_delete", "config_absent", "config_apply", "patch"} :
           Call(op) \in CallSet /\ Call(op).op = op
    BY <1>2 DEF Ops
  <2>2. head \in Seq(CallSet)
    BY <2>1
  <2>3. /\ Len(head) = 6
        /\ head[1] = Call("kwok") /\ head[2] = Call("stage")
        /\ head[3] = Call("config_delete") /\ head[4] = Call("config_absent")
        /\ head[5] = Call("config_apply") /\ head[6] = Call("patch")
    OBVIOUS
  <2> HIDE DEF head
  <2> QED
    BY <2>1, <2>2, <2>3 DEF CreateShape
<1>4. metric \in Seq(CallSet) /\ \A k \in 1 .. Len(metric) : LateCall(metric[k], c.count)
  <2>1. Call("metrics") \in CallSet /\ LateCall(Call("metrics"), c.count)
    BY <1>2 DEF LateCall, Ops
  <2> QED
    BY <2>1
<1>5. class \in Seq(CallSet) /\ \A k \in 1 .. Len(class) : LateCall(class[k], c.count)
  <2>1. Call("class") \in CallSet /\ LateCall(Call("class"), c.count)
    BY <1>2 DEF LateCall, Ops
  <2> QED
    BY <2>1
<1>6. /\ nodes \in Seq(CallSet) /\ \A k \in 1 .. Len(nodes) : LateCall(nodes[k], c.count)
      /\ \A i \in 0 .. c.count - 1 : Contains(nodes, CallOn("node", i))
      /\ c.dra => \A i \in 0 .. c.count - 1 : Contains(nodes, CallOn("slice", i))
  <2>1. "node" \in Ops /\ "slice" \in Ops
    BY DEF Ops
  <2>2. \A k \in 1 .. Len(nodes) :
           nodes[k].op \in {"node", "slice"} /\ nodes[k].node \in 0 .. c.count - 1
    BY <1>0, <2>1, PerNodeFacts
  <2>3. /\ nodes \in Seq(CallSet)
        /\ \A i \in 0 .. c.count - 1 : Contains(nodes, CallOn("node", i))
        /\ c.dra => \A i \in 0 .. c.count - 1 : Contains(nodes, CallOn("slice", i))
    BY <1>0, <2>1, PerNodeFacts
  <2> HIDE DEF nodes
  <2> QED
    BY <2>2, <2>3 DEF LateCall
<1> HIDE DEF head, metric, class, nodes
<1>7. CreateShape(head \o metric, c.count)
  BY <1>0, <1>3, <1>4, ShapeGrows
<1>8. CreateShape((head \o metric) \o class, c.count)
  BY <1>0, <1>5, <1>7, ShapeGrows
<1>9. /\ CreateShape(((head \o metric) \o class) \o nodes, c.count)
      /\ \A d : Contains(nodes, d) => Contains(((head \o metric) \o class) \o nodes, d)
  BY <1>0, <1>6, <1>8, ShapeGrows
<1> QED
  BY <1>1, <1>6, <1>9

(***************************************************************************)
(* The calls of tear_down: every node is deleted.                          *)
(***************************************************************************)
LEMMA TearDownFacts ==
    ASSUME NEW c \in Commands, c.action = "tear_down"
    PROVE  /\ Calls(c) \in Seq(CallSet)
           /\ \A k \in 1 .. Len(Calls(c)) :
                 /\ Calls(c)[k].op \in {"delete_node", "delete_slice"}
                 /\ Calls(c)[k].node \in 0 .. c.count - 1
           /\ \A i \in 0 .. c.count - 1 : Contains(Calls(c), CallOn("delete_node", i))
<1>0. c.count \in Nat /\ c.dra \in BOOLEAN
  BY KwokAssumption DEF Commands
<1>1. Calls(c) = PerNode("delete_node", "delete_slice", c.count, c.dra)
  BY DEF Calls, TearDownCalls
<1>2. "delete_node" \in Ops /\ "delete_slice" \in Ops
  BY DEF Ops
<1> DEFINE p == PerNode("delete_node", "delete_slice", c.count, c.dra)
<1>3. \A k \in 1 .. Len(p) : /\ p[k].op \in {"delete_node", "delete_slice"}
                             /\ p[k].node \in 0 .. c.count - 1
  BY <1>0, <1>2, PerNodeFacts
<1>4. p \in Seq(CallSet) /\ \A i \in 0 .. c.count - 1 : Contains(p, CallOn("delete_node", i))
  BY <1>0, <1>2, PerNodeFacts
<1> HIDE DEF p
<1> QED
  BY <1>1, <1>3, <1>4 DEF p

---------------------------------------------------------------------------
(* A command that succeeded did its work *)

Plan == Calls(command)

(***************************************************************************)
(* The command has made d of its calls: the rest is what it has to do.     *)
(***************************************************************************)
At(d) ==
    /\ d \in Nat
    /\ Len(todo) \in Nat /\ Len(Plan) = d + Len(todo)
    /\ \A j \in 1 .. Len(todo) : todo[j] = Plan[d + j]

(***************************************************************************)
(* What a call of create leaves behind.                                    *)
(***************************************************************************)
InPlace(c) ==
    /\ c.op \in {"kwok", "stage", "patch"} => c.op \in manifests
    /\ c.op = "node" => node[c.node] = Generate(base_ip, c.node)
    /\ c.op = "slice" => c.node \in slices

(***************************************************************************)
(* What the first d calls have left behind.  Once the config map is gone   *)
(* nothing is about to take it away, and the one that is applied then is   *)
(* the last one.                                                           *)
(***************************************************************************)
Achieved(d) ==
    /\ command.action = "create" => /\ \A k \in 1 .. d : InPlace(Plan[k])
                                    /\ d >= 4 => ~doomed
                                    /\ d >= 5 => config = "own"
    /\ command.action = "tear_down" =>
          \A k \in 1 .. d : Plan[k].op = "delete_node" => node[Plan[k].node] = None

Underway ==
    outcome = "running" =>
        command \in Commands /\ todo \in Seq(CallSet) /\ \E d \in Nat : At(d) /\ Achieved(d)

ClusterSound == DOMAIN node = Nodes /\ (doomed => config # "absent")

DoneInv == ClusterSound /\ Underway /\ SuccessMeansDone

(***************************************************************************)
(* The calls of every command are calls.                                   *)
(***************************************************************************)
LEMMA CallsType ==
    ASSUME NEW c \in Commands
    PROVE  Calls(c) \in Seq(CallSet)
<1>1. CASE c.action = "create"
  BY <1>1, CreateFacts DEF CreateShape
<1>2. CASE c.action = "tear_down"
  BY <1>2, TearDownFacts
<1>3. CASE c.action = "validate"
  <2>1. \A op \in {"check_config", "check_controller", "check_nodes"} : Call(op) \in CallSet
    <3>1. 0 \in Nat /\ {"check_config", "check_controller", "check_nodes"} \subseteq Ops
      BY DEF Ops
    <3> QED
      BY <3>1, CallParts
  <2>2. Calls(c) = ValidateCalls
    BY <1>3 DEF Calls
  <2>3. ValidateCalls \in Seq(CallSet)
    BY <2>1 DEF ValidateCalls
  <2> QED
    BY <2>2, <2>3
<1> QED
  BY <1>1, <1>2, <1>3 DEF Commands

(***************************************************************************)
(* A call, by its name: what it changes and what it leaves alone.          *)
(***************************************************************************)
LEMMA EffectFacts ==
    ASSUME ClusterSound, NEW c, Effect(c), UNCHANGED base_ip
    PROVE  /\ ClusterSound'
           /\ c.op \in {"kwok", "stage", "patch"} => manifests' = manifests \cup {c.op}
           /\ manifests \subseteq manifests'
           /\ c.op = "slice" => slices' = slices \cup {c.node}
           /\ c.op # "delete_slice" => slices \subseteq slices'
           /\ c.op = "node" => node' = [node EXCEPT ![c.node] = Generate(base_ip, c.node)]
           /\ c.op = "delete_node" => node' = [node EXCEPT ![c.node] = None]
           /\ c.op \notin {"node", "delete_node"} => node' = node
           /\ c.op = "config_absent" => config = "absent" /\ UNCHANGED <<config, doomed>>
           /\ c.op # "config_delete" => doomed' = doomed
           /\ c.op = "config_apply" => config' = "own"
           /\ c.op \notin {"kwok", "config_apply"} => config' = config
<1> USE DEF Effect, ApplyManifest, DeleteConfigMap, ApplyConfigMap, CreateNode, DeleteNode,
            CreateResourceSlice, DeleteResourceSlice, cluster
<1>1. DOMAIN node' = Nodes
  BY DEF ClusterSound
<1>2. doomed' => config' # "absent"
  <2>1. CASE c.op = "config_delete" /\ DeleteConfigMap
    <3>1. config' = config /\ (doomed' => config # "absent")
      BY <2>1, Zenon
    <3> QED
      BY <3>1
  <2>2. CASE ~DeleteConfigMap
    <3>1. doomed' = doomed /\ (config' = config \/ config' \in {"default", "own"})
      BY <2>2
    <3> QED
      BY <3>1 DEF ClusterSound
  <2> QED
    BY <2>1, <2>2
<1>3. /\ c.op \in {"kwok", "stage", "patch"} => manifests' = manifests \cup {c.op}
      /\ manifests \subseteq manifests'
      /\ c.op = "slice" => slices' = slices \cup {c.node}
      /\ c.op # "delete_slice" => slices \subseteq slices'
  OBVIOUS
<1>4. /\ c.op = "node" => node' = [node EXCEPT ![c.node] = Generate(base_ip, c.node)]
      /\ c.op = "delete_node" => node' = [node EXCEPT ![c.node] = None]
      /\ c.op \notin {"node", "delete_node"} => node' = node
  OBVIOUS
<1>5. /\ c.op = "config_absent" => config = "absent" /\ UNCHANGED <<config, doomed>>
      /\ c.op # "config_delete" => doomed' = doomed
      /\ c.op = "config_apply" => config' = "own"
      /\ c.op \notin {"kwok", "config_apply"} => config' = config
  OBVIOUS
<1> QED
  BY <1>1, <1>2, <1>3, <1>4, <1>5 DEF ClusterSound

(***************************************************************************)
(* A call of create leaves its result, and those of the calls before it.   *)
(***************************************************************************)
LEMMA CreateGoesOn ==
    ASSUME ClusterSound, command \in Commands, command.action = "create",
           NEW d \in Nat, d + 1 <= Len(Plan), Achieved(d), Effect(Plan[d + 1]),
           UNCHANGED <<base_ip, command>>
    PROVE  Achieved(d + 1)'
<1> DEFINE c == Plan[d + 1]
<1>0. /\ CreateShape(Plan, command.count) /\ Plan \in Seq(CallSet) /\ Len(Plan) \in Nat
      /\ d + 1 \in 1 .. Len(Plan) /\ Plan' = Plan
  <2>1. CreateShape(Plan, command.count)
    BY CreateFacts DEF Plan
  <2>2. Plan \in Seq(CallSet)
    BY <2>1 DEF CreateShape
  <2>3. Plan' = Plan
    BY DEF Plan
  <2> QED
    BY <2>1, <2>2, <2>3
<1>1. /\ d + 1 = 1 => c.op = "kwok"
      /\ d + 1 = 2 => c.op = "stage"
      /\ d + 1 = 3 => c.op = "config_delete"
      /\ d + 1 = 4 => c.op = "config_absent"
      /\ d + 1 = 5 => c.op = "config_apply"
      /\ d + 1 = 6 => c.op = "patch"
      /\ d + 1 >= 7 => LateCall(c, command.count)
  BY <1>0 DEF CreateShape
<1>2. /\ c.op \notin {"delete_node", "delete_slice"}
      /\ c.op = "node" => c.node \in Nodes
  <2>1. \A i \in 0 .. command.count - 1 : i \in Nodes
    BY DEF Commands, Nodes
  <2>2. d + 1 \in {1, 2, 3, 4, 5, 6} \/ d + 1 >= 7
    BY <1>0
  <2> HIDE DEF c
  <2> QED
    BY <1>1, <2>1, <2>2 DEF LateCall
<1>3. /\ c.op \in {"kwok", "stage", "patch"} => manifests' = manifests \cup {c.op}
      /\ manifests \subseteq manifests'
      /\ c.op = "slice" => slices' = slices \cup {c.node}
      /\ c.op # "delete_slice" => slices \subseteq slices'
      /\ c.op = "node" => node' = [node EXCEPT ![c.node] = Generate(base_ip, c.node)]
      /\ c.op \notin {"node", "delete_node"} => node' = node
      /\ c.op = "config_absent" => config = "absent" /\ UNCHANGED <<config, doomed>>
      /\ c.op # "config_delete" => doomed' = doomed
      /\ c.op = "config_apply" => config' = "own"
      /\ c.op \notin {"kwok", "config_apply"} => config' = config
  BY EffectFacts
<1>4. ASSUME NEW k \in 1 .. d + 1 PROVE InPlace(Plan[k])'
  <2>1. CASE k = d + 1
    <3>1. DOMAIN node = Nodes
      BY DEF ClusterSound
    <3>2. Plan[k] = c /\ Plan'[k] = c
      BY <1>0, <2>1
    <3> HIDE DEF c
    <3> QED
      BY <1>2, <1>3, <3>1, <3>2 DEF InPlace
  <2>2. CASE k # d + 1
    <3>1. k \in 1 .. d
      BY <2>2
    <3>2. InPlace(Plan[k])
      BY <3>1 DEF Achieved
    <3>3. \A i \in Nodes : node[i] = Generate(base_ip, i) => node'[i] = Generate(base_ip, i)
      <4> HIDE DEF c
      <4> QED
        BY <1>2, <1>3 DEF ClusterSound
    <3>4. Plan[k].op = "node" => Plan[k].node \in Nodes
      <4>1. \A i \in 0 .. command.count - 1 : i \in Nodes
        BY DEF Commands, Nodes
      <4>2. k \in {1, 2, 3, 4, 5, 6} \/ k \in 7 .. Len(Plan)
        BY <1>0
      <4>3. CASE k \in {1, 2, 3, 4, 5, 6}
        BY <1>0, <4>3 DEF CreateShape
      <4>4. CASE k \in 7 .. Len(Plan)
        BY <1>0, <4>1, <4>4 DEF CreateShape, LateCall
      <4> QED
        BY <4>2, <4>3, <4>4
    <3> HIDE DEF c
    <3>5. slices \subseteq slices' /\ manifests \subseteq manifests'
      BY <1>2, <1>3
    <3> QED
      BY <1>0, <3>2, <3>3, <3>4, <3>5 DEF InPlace
  <2> QED
    BY <2>1, <2>2
<1>5. d + 1 >= 4 => ~doomed'
  <2>1. CASE d + 1 = 4
    BY <1>1, <1>3, <2>1 DEF ClusterSound
  <2>2. CASE d + 1 > 4
    <3>1. ~doomed
      BY <2>2 DEF Achieved
    <3>2. c.op # "config_delete"
      <4>1. d + 1 \in {5, 6} \/ d + 1 >= 7
        BY <2>2
      <4> HIDE DEF c
      <4> QED
        BY <1>1, <4>1 DEF LateCall
    <3> QED
      BY <1>3, <3>1, <3>2
  <2> QED
    BY <2>1, <2>2
<1>6. d + 1 >= 5 => config' = "own"
  <2>1. CASE d + 1 = 5
    BY <1>1, <1>3, <2>1
  <2>2. CASE d + 1 > 5
    <3>1. config = "own"
      BY <2>2 DEF Achieved
    <3>2. c.op \notin {"kwok", "config_apply"}
      <4>1. d + 1 = 6 \/ d + 1 >= 7
        BY <2>2
      <4> HIDE DEF c
      <4> QED
        BY <1>1, <4>1 DEF LateCall
    <3> QED
      BY <1>3, <3>1, <3>2
  <2> QED
    BY <2>1, <2>2
<1> QED
  BY <1>4, <1>5, <1>6 DEF Achieved

(***************************************************************************)
(* A call of tear_down deletes its node, and no call brings one back.      *)
(***************************************************************************)
LEMMA TearDownGoesOn ==
    ASSUME ClusterSound, command \in Commands, command.action = "tear_down",
           NEW d \in Nat, d + 1 <= Len(Plan), Achieved(d),
           \/ Effect(Plan[d + 1])
           \/ Plan[d + 1].op = "delete_slice" /\ UNCHANGED node,
           UNCHANGED <<base_ip, command>>
    PROVE  Achieved(d + 1)'
<1> DEFINE c == Plan[d + 1]
<1>0. /\ Plan \in Seq(CallSet) /\ Len(Plan) \in Nat /\ d + 1 \in 1 .. Len(Plan)
      /\ Plan' = Plan
      /\ \A k \in 1 .. Len(Plan) : /\ Plan[k].op \in {"delete_node", "delete_slice"}
                                   /\ Plan[k].node \in Nodes
  <2>1. \A i \in 0 .. command.count - 1 : i \in Nodes
    BY DEF Commands, Nodes
  <2>2. Plan' = Plan
    BY DEF Plan
  <2>3. /\ Plan \in Seq(CallSet)
        /\ \A k \in 1 .. Len(Plan) : /\ Plan[k].op \in {"delete_node", "delete_slice"}
                                     /\ Plan[k].node \in 0 .. command.count - 1
    BY TearDownFacts DEF Plan
  <2> QED
    BY <2>1, <2>2, <2>3
<1>1. /\ c.op = "delete_node" => node' = [node EXCEPT ![c.node] = None]
      /\ c.op = "delete_slice" => node' = node
  BY EffectFacts
<1>2. c.op \in {"delete_node", "delete_slice"} /\ c.node \in Nodes
  BY <1>0
<1>3. \A i \in Nodes : node[i] = None => node'[i] = None
  <2> HIDE DEF c
  <2> QED
    BY <1>1, <1>2 DEF ClusterSound
<1>4. ASSUME NEW k \in 1 .. d + 1, Plan[k].op = "delete_node"
      PROVE  node'[Plan[k].node] = None
  <2>1. CASE k = d + 1
    <3>1. c.op = "delete_node" /\ Plan[k].node = c.node
      BY <1>4, <2>1
    <3> HIDE DEF c
    <3> QED
      BY <1>1, <1>2, <3>1 DEF ClusterSound
  <2>2. CASE k # d + 1
    <3>1. k \in 1 .. d /\ k \in 1 .. Len(Plan)
      BY <1>0, <2>2
    <3> QED
      BY <1>0, <1>3, <1>4, <3>1 DEF Achieved
  <2> QED
    BY <2>1, <2>2
<1> QED
  BY <1>0, <1>4 DEF Achieved

(***************************************************************************)
(* The next call of a command that is under way.                           *)
(***************************************************************************)
LEMMA HeadIsNext ==
    ASSUME NEW d, At(d), todo \in Seq(CallSet), todo # <<>>
    PROVE  /\ d + 1 <= Len(Plan) /\ Head(todo) = Plan[d + 1]
           /\ Tail(todo) \in Seq(CallSet) /\ Len(Tail(todo)) = Len(todo) - 1
           /\ Len(todo) \in Nat /\ Len(todo) >= 1
           /\ \A j \in 1 .. Len(Tail(todo)) : Tail(todo)[j] = Plan[d + 1 + j]
<1>1. /\ Len(todo) \in Nat /\ Len(todo) >= 1 /\ Head(todo) = todo[1]
      /\ Tail(todo) \in Seq(CallSet) /\ Len(Tail(todo)) = Len(todo) - 1
      /\ \A j \in 1 .. Len(todo) - 1 : Tail(todo)[j] = todo[j + 1]
  OBVIOUS
<1>2. d \in Nat /\ Len(Plan) = d + Len(todo) /\ \A j \in 1 .. Len(todo) : todo[j] = Plan[d + j]
  BY DEF At
<1>3. d + 1 <= Len(Plan) /\ Head(todo) = Plan[d + 1]
  BY <1>1, <1>2
<1>4. ASSUME NEW j \in 1 .. Len(Tail(todo)) PROVE Tail(todo)[j] = Plan[d + 1 + j]
  <2>1. j + 1 \in 1 .. Len(todo) /\ d + (j + 1) = d + 1 + j
    BY <1>1, <1>2
  <2> QED
    BY <1>1, <1>2, <2>1
<1> QED
  BY <1>1, <1>3, <1>4

(***************************************************************************)
(* A call of any command that had its effect, or a resource slice that     *)
(* tear_down could not delete.                                             *)
(***************************************************************************)
LEMMA CallGoesOn ==
    ASSUME ClusterSound, command \in Commands,
           NEW d \in Nat, d + 1 <= Len(Plan), Achieved(d), UNCHANGED <<base_ip, command>>,
           \/ Effect(Plan[d + 1])
           \/ Plan[d + 1].op = "delete_slice" /\ UNCHANGED cluster
    PROVE  Achieved(d + 1)'
<1>1. CASE command.action = "create"
  <2>1. Plan[d + 1].op # "delete_slice"
    <3>1. CreateShape(Plan, command.count)
      BY <1>1, CreateFacts DEF Plan
    <3>2. Len(Plan) \in Nat
      BY <3>1 DEF CreateShape
    <3>3. d + 1 \in {1, 2, 3, 4, 5, 6} \/ d + 1 \in 7 .. Len(Plan)
      BY <3>2
    <3>4. CASE d + 1 \in {1, 2, 3, 4, 5, 6}
      BY <3>1, <3>4 DEF CreateShape
    <3>5. CASE d + 1 \in 7 .. Len(Plan)
      BY <3>1, <3>5 DEF CreateShape, LateCall
    <3> QED
      BY <3>3, <3>4, <3>5
  <2> QED
    BY <1>1, <2>1, CreateGoesOn
<1>2. CASE command.action = "tear_down"
  <2>1. UNCHANGED cluster => UNCHANGED node
    BY DEF cluster
  <2> QED
    BY <1>2, <2>1, TearDownGoesOn
<1>3. CASE command.action \notin {"create", "tear_down"}
  BY <1>3 DEF Achieved
<1> QED
  BY <1>1, <1>2, <1>3

(***************************************************************************)
(* What more calls have left behind, fewer have.                           *)
(***************************************************************************)
LEMMA AchievedBefore ==
    ASSUME NEW d \in Nat, Achieved(d + 1)'
    PROVE  Achieved(d)'
<1>1. \A k \in 1 .. d : k \in 1 .. d + 1
  OBVIOUS
<1>2. (d >= 4 => d + 1 >= 4) /\ (d >= 5 => d + 1 >= 5)
  OBVIOUS
<1> QED
  BY <1>1, <1>2 DEF Achieved

(***************************************************************************)
(* Nothing that a command has achieved depends on what the cluster does by *)
(* itself: a config map is only taken away where it is doomed.             *)
(***************************************************************************)
LEMMA ClusterKeeps ==
    ASSUME DoneInv, Cluster \/ UNCHANGED vars
    PROVE  DoneInv'
<1>0. UNCHANGED <<base_ip, process, manifests, node, slices>>
  BY DEF Cluster, ConfigMapGone, ControllerChanges, NodeReady, vars, process
<1>1. UNCHANGED <<command, todo, outcome>> /\ Plan' = Plan
  BY <1>0 DEF process, Plan
<1>2. ~doomed => UNCHANGED <<config, doomed>>
  BY DEF Cluster, ConfigMapGone, ControllerChanges, NodeReady, vars
<1>3. ClusterSound'
  <2>1. CASE ConfigMapGone
    <3>1. ~doomed'
      BY <2>1, Zenon DEF ConfigMapGone
    <3> QED
      BY <1>0, <3>1 DEF DoneInv, ClusterSound
  <2>2. CASE ~ConfigMapGone
    BY <1>0, <2>2 DEF DoneInv, ClusterSound, Cluster, ControllerChanges, NodeReady, vars
  <2> QED
    BY <2>1, <2>2
<1>4. Underway'
  <2> SUFFICES ASSUME outcome = "running"
               PROVE  /\ command \in Commands /\ todo \in Seq(CallSet)
                      /\ \E d \in Nat : At(d)' /\ Achieved(d)'
    BY <1>1 DEF Underway
  <2>1. PICK d \in Nat : At(d) /\ Achieved(d)
    BY DEF DoneInv, Underway
  <2>2. At(d)'
    BY <1>1, <2>1 DEF At
  <2>3. \A c : InPlace(c) => InPlace(c)'
    BY <1>0 DEF InPlace
  <2>4. Achieved(d)'
    BY <1>0, <1>1, <1>2, <2>1, <2>3 DEF Achieved
  <2> QED
    BY <2>1, <2>2, <2>4 DEF DoneInv, Underway
<1>5. SuccessMeansDone'
  BY <1>0, <1>1, <1>2 DEF DoneInv, SuccessMeansDone, Succeeded
<1> QED
  BY <1>3, <1>4, <1>5 DEF DoneInv

(***************************************************************************)
(* A command begins: none of its calls is made.                            *)
(***************************************************************************)
LEMMA BeginKeeps ==
    ASSUME DoneInv, Begin, UNCHANGED base_ip
    PROVE  DoneInv'
<1>1. ClusterSound'
  BY DEF DoneInv, Begin, cluster, ClusterSound
<1>2. outcome' \in {"running", "failure"}
  BY DEF Begin
<1>3. SuccessMeansDone'
  BY <1>2 DEF SuccessMeansDone, Succeeded
<1>4. ASSUME outcome' = "running"
      PROVE  command' \in Commands /\ todo' \in Seq(CallSet) /\ At(0)' /\ Achieved(0)'
  <2>1. command' \in Commands /\ todo' = Calls(command')
    BY <1>4 DEF Begin
  <2>2. Plan' = todo' /\ todo' \in Seq(CallSet)
    BY <2>1, CallsType DEF Plan
  <2>3. At(0)'
    <3>1. Len(todo') \in Nat /\ Len(todo') = 0 + Len(todo') /\ \A j \in 1 .. Len(todo') : 0 + j = j
      BY <2>2
    <3> QED
      BY <2>2, <3>1 DEF At
  <2>4. Achieved(0)'
    BY DEF Achieved
  <2> QED
    BY <2>1, <2>2, <2>3, <2>4
<1>5. Underway'
  BY <1>4 DEF Underway
<1> QED
  BY <1>1, <1>3, <1>5 DEF DoneInv

(***************************************************************************)
(* A command ends with an exception: it promises nothing.                  *)
(***************************************************************************)
LEMMA FailureKeeps ==
    ASSUME DoneInv, ClusterSound', outcome' = "failure"
    PROVE  DoneInv'
  BY DEF DoneInv, Underway, SuccessMeansDone, Succeeded

(***************************************************************************)
(* A command goes on, or repeats a call.                                   *)
(***************************************************************************)
LEMMA RunningKeeps ==
    ASSUME ClusterSound', outcome' = "running", command' \in Commands,
           todo' \in Seq(CallSet), NEW d \in Nat, At(d)', Achieved(d)'
    PROVE  DoneInv'
  BY DEF DoneInv, Underway, SuccessMeansDone, Succeeded

(***************************************************************************)
(* A call is made: it succeeds, or raises before or after its effect.      *)
(***************************************************************************)
LEMMA CallKeeps ==
    ASSUME DoneInv, CallSucceeds \/ CallFails, UNCHANGED base_ip
    PROVE  DoneInv'
<1>0. /\ outcome = "running" /\ todo # <<>> /\ UNCHANGED command
      /\ UNCHANGED cluster \/ Effect(Head(todo))
  BY DEF CallSucceeds, CallFails, GiveUp
<1>1. /\ ClusterSound /\ command \in Commands /\ todo \in Seq(CallSet) /\ Plan' = Plan
  BY <1>0 DEF DoneInv, Underway, Plan
<1>2. PICK d \in Nat : At(d) /\ Achieved(d)
  BY <1>0 DEF DoneInv, Underway
<1>3. /\ d + 1 <= Len(Plan) /\ Head(todo) = Plan[d + 1]
      /\ Tail(todo) \in Seq(CallSet) /\ Len(Tail(todo)) = Len(todo) - 1
      /\ Len(todo) \in Nat /\ Len(todo) >= 1
      /\ \A j \in 1 .. Len(Tail(todo)) : Tail(todo)[j] = Plan[d + 1 + j]
  BY <1>0, <1>1, <1>2, HeadIsNext
<1>4. ClusterSound'
  <2>1. CASE UNCHANGED cluster
    BY <1>1, <2>1 DEF ClusterSound, cluster
  <2>2. CASE Effect(Head(todo))
    BY <1>1, <2>2, EffectFacts
  <2> QED
    BY <1>0, <2>1, <2>2
<1>5. ASSUME \/ Effect(Head(todo))
             \/ Head(todo).op = "delete_slice" /\ UNCHANGED cluster
      PROVE  Achieved(d + 1)'
  BY <1>0, <1>1, <1>2, <1>3, <1>5, CallGoesOn
<1>6. CASE /\ todo' = Tail(todo) /\ UNCHANGED outcome
           /\ \/ Effect(Head(todo))
              \/ Head(todo).op = "delete_slice" /\ UNCHANGED cluster
  <2>1. At(d + 1)'
    <3>1. d + 1 \in Nat /\ Len(Tail(todo)) \in Nat /\ Len(Plan) = d + 1 + Len(Tail(todo))
      BY <1>2, <1>3 DEF At
    <3> QED
      BY <1>1, <1>3, <1>6, <3>1 DEF At
  <2>2. Achieved(d + 1)'
    BY <1>5, <1>6
  <2>3. d + 1 \in Nat /\ outcome' = "running" /\ command' \in Commands
        /\ todo' \in Seq(CallSet)
    BY <1>0, <1>1, <1>3, <1>6
  <2> QED
    BY <1>4, <2>1, <2>2, <2>3, RunningKeeps
<1>7. CASE UNCHANGED <<todo, outcome>>
  <2>1. At(d)'
    BY <1>1, <1>2, <1>7 DEF At
  <2>2. CASE UNCHANGED cluster
    <3>1. Achieved(d)'
      BY <1>0, <1>1, <1>2, <2>2 DEF Achieved, InPlace, cluster
    <3> QED
      BY <1>0, <1>1, <1>4, <1>7, <2>1, <3>1, RunningKeeps
  <2>3. CASE Effect(Head(todo))
    <3>1. Achieved(d)'
      BY <1>2, <1>5, <2>3, AchievedBefore
    <3> QED
      BY <1>0, <1>1, <1>4, <1>7, <2>1, <3>1, RunningKeeps
  <2> QED
    BY <1>0, <2>2, <2>3
<1>8. CASE outcome' = "failure"
  BY <1>4, <1>8, FailureKeeps
<1> QED
  BY <1>0, <1>6, <1>7, <1>8 DEF CallSucceeds, CallFails, GiveUp

(***************************************************************************)
(* A command has made all its calls.                                       *)
(***************************************************************************)
LEMMA FinishKeeps ==
    ASSUME DoneInv, Finish, UNCHANGED base_ip
    PROVE  DoneInv'
<1>0. /\ outcome = "running" /\ todo = <<>> /\ outcome' = "success"
      /\ UNCHANGED <<cluster, command, base_ip>>
  BY DEF Finish
<1>1. UNCHANGED <<config, doomed, manifests, node, slices>>
  BY <1>0 DEF cluster
<1>2. PICK d \in Nat : At(d) /\ Achieved(d)
  BY <1>0 DEF DoneInv, Underway
<1>3. command \in Commands /\ Len(Plan) = d
  BY <1>0, <1>2 DEF DoneInv, Underway, At
<1>4. ClusterSound' /\ Underway'
  BY <1>0, <1>1 DEF DoneInv, ClusterSound, Underway
<1>5. CASE command.action = "create"
  <2>1. /\ CreateShape(Plan, command.count)
        /\ \A i \in 0 .. command.count - 1 :
              /\ Contains(Plan, CallOn("node", i))
              /\ command.dra => Contains(Plan, CallOn("slice", i))
    BY <1>3, <1>5, CreateFacts DEF Plan
  <2>2. /\ d >= 6 /\ (\A k \in 1 .. d : InPlace(Plan[k])) /\ ~doomed /\ config = "own"
    BY <1>2, <1>3, <1>5, <2>1 DEF Achieved, CreateShape
  <2>3. {"kwok", "stage", "patch"} \subseteq manifests
    <3>1. InPlace(Plan[1]) /\ InPlace(Plan[2]) /\ InPlace(Plan[6])
      BY <1>2, <2>2
    <3> QED
      BY <2>1, <3>1 DEF CreateShape, InPlace
  <2>4. ASSUME NEW i \in 0 .. command.count - 1
        PROVE  node[i] = Generate(base_ip, i) /\ (command.dra => i \in slices)
    <3>1. \A op \in {"node", "slice"} : /\ CallOn(op, i).op = op /\ CallOn(op, i).node = i
      BY DEF CallOn
    <3>2. \A c : Contains(Plan, c) => InPlace(c)
      BY <1>3, <2>2 DEF Contains
    <3> QED
      BY <2>1, <3>1, <3>2 DEF InPlace
  <2>5. SuccessMeansDone'
    BY <1>0, <1>1, <1>5, <2>2, <2>3, <2>4 DEF SuccessMeansDone, Succeeded
  <2> QED
    BY <1>4, <2>5 DEF DoneInv
<1>6. CASE command.action = "tear_down"
  <2>1. \A i \in 0 .. command.count - 1 : Contains(Plan, CallOn("delete_node", i))
    BY <1>3, <1>6, TearDownFacts DEF Plan
  <2>2. \A k \in 1 .. d : Plan[k].op = "delete_node" => node[Plan[k].node] = None
    BY <1>2, <1>6 DEF Achieved
  <2>3. ASSUME NEW i \in 0 .. command.count - 1 PROVE node[i] = None
    <3>1. CallOn("delete_node", i).op = "delete_node" /\ CallOn("delete_node", i).node = i
      BY DEF CallOn
    <3> QED
      BY <1>3, <2>1, <2>2, <3>1 DEF Contains
  <2>4. SuccessMeansDone'
    BY <1>0, <1>1, <1>6, <2>3 DEF SuccessMeansDone, Succeeded
  <2> QED
    BY <1>4, <2>4 DEF DoneInv
<1>7. CASE command.action \notin {"create", "tear_down"}
  BY <1>0, <1>4, <1>7 DEF DoneInv, SuccessMeansDone, Succeeded
<1> QED
  BY <1>5, <1>6, <1>7

(***************************************************************************)
(* A command that succeeded did its work, for every number of nodes,       *)
(* retries and commands, whatever earlier commands left and wherever they  *)
(* were interrupted.                                                       *)
(***************************************************************************)
THEOREM SuccessesAreDone == Spec => []SuccessMeansDone
<1>1. Init => DoneInv
  BY DEF Init, DoneInv, ClusterSound, Underway, SuccessMeansDone, Succeeded
<1>2. DoneInv /\ [Next]_vars => DoneInv'
  <2> SUFFICES ASSUME DoneInv, [Next]_vars PROVE DoneInv'
    OBVIOUS
  <2>1. CASE OutOfAddresses
    <3>1. ClusterSound' /\ outcome' = "failure"
      BY <2>1 DEF OutOfAddresses, cluster, DoneInv, ClusterSound
    <3> QED
      BY <3>1, FailureKeeps
  <2> QED
    BY <2>1, ClusterKeeps, BeginKeeps, CallKeeps, FinishKeeps DEF Next, Client
<1>3. DoneInv => SuccessMeansDone
  BY DEF DoneInv
<1> QED
  BY <1>1, <1>2, <1>3, PTL DEF Spec

===========================================================================
