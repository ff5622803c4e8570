----------------------------- MODULE KwokNodes -----------------------------
(***************************************************************************)
(* The create, validate and tear_down commands of kwok/kwok.py: each is a  *)
(* list of calls, every one of them repeated by execute_with_retries.  The *)
(* commands of a pipeline follow each other on one cluster, each with      *)
(* arguments of its own.                                                   *)
(***************************************************************************)
EXTENDS Sequences, FiniteSets, NodeIp

CONSTANTS
    NodeCounts,     \* values of --node-count
    BaseIps,        \* values of base_ip
    MaxRetries,     \* max_retries of execute_with_retries
    MaxCommands,    \* bound on the commands
    None

ASSUME KwokAssumption ==
    /\ NodeCounts \subseteq Nat
    /\ BaseIps \subseteq Octet \X Octet \X Octet \X Octet
    /\ MaxRetries \in Nat /\ MaxCommands \in Nat

Nodes    == UNION {0 .. n - 1 : n \in NodeCounts}
Commands == [action: {"create", "validate", "tear_down"}, count: NodeCounts,
             dra: BOOLEAN, metrics: BOOLEAN]

VARIABLES
    base_ip,    \* the parameter of _generate_node_ip, the same for all commands
    config,     \* content of the config map "kwok", or "absent"
    doomed,     \* the config map is being deleted
    manifests,  \* what was applied of the rest
    controller, \* available replicas of kwok-controller
    node,       \* the address of every node, or None
    ready,      \* the nodes that are ready
    slices,     \* the nodes with a resource slice
    command,    \* the command under way or, after it, the last one
    todo,       \* the calls it has yet to make
    retry,      \* retry_count of the call under way
    outcome,    \* how it ended
    commands

cluster == <<config, doomed, manifests, controller, node, ready, slices>>
process == <<command, todo, retry, outcome, commands>>
vars    == <<base_ip, config, doomed, manifests, controller, node, ready, slices,
             command, todo, retry, outcome, commands>>

Call(op)      == [op |-> op, node |-> None]
CallOn(op, i) == [op |-> op, node |-> i]

TypeOK ==
    /\ base_ip \in BaseIps
    /\ config \in {"absent", "default", "own"}
    /\ doomed \in BOOLEAN /\ (doomed => config # "absent")
    /\ manifests \subseteq {"kwok", "stage", "patch", "metrics", "class"}
    /\ controller \in 0 .. 1
    /\ DOMAIN node = Nodes
    /\ ready \subseteq {i \in Nodes : node[i] # None}
    /\ slices \subseteq Nodes
    /\ command \in Commands \cup {None}
    /\ retry \in 0 .. MaxRetries
    /\ outcome \in {"none", "running", "success", "failure"}
    /\ commands \in 0 .. MaxCommands

Init ==
    /\ base_ip \in BaseIps
    /\ config = "absent" /\ doomed = FALSE
    /\ manifests = {} /\ controller = 0
    /\ node = [i \in Nodes |-> None]
    /\ ready = {} /\ slices = {}
    /\ command = None /\ todo = <<>> /\ retry = 0
    /\ outcome = "none"
    /\ commands = 0

---------------------------------------------------------------------------
(* The calls of a command *)

(***************************************************************************)
(* The calls for the nodes 0 .. n - 1, one node after the other: one or,   *)
(* with DRA, two for each.                                                 *)
(***************************************************************************)
PerNode(op1, op2, n, dra) ==
    IF dra THEN [k \in 1 .. 2 * n |-> CallOn(IF k % 2 = 1 THEN op1 ELSE op2, (k - 1) \div 2)]
           ELSE [k \in 1 .. n |-> CallOn(op1, k - 1)]

(* Mutant: the old config map is not waited for.                           *)
ReplaceConfigMapAtOnce == <<Call("config_delete"), Call("config_apply")>>

ReplaceConfigMap ==
    <<Call("config_delete"), Call("config_absent"), Call("config_apply")>>

ApplyKwokManifests(metrics) ==
    <<Call("kwok"), Call("stage")>> \o ReplaceConfigMap \o <<Call("patch")>>
        \o (IF metrics THEN <<Call("metrics")>> ELSE <<>>)

CreateCalls(c) ==
    ApplyKwokManifests(c.metrics)
        \o (IF c.dra THEN <<Call("class")>> ELSE <<>>)
        \o PerNode("node", "slice", c.count, c.dra)

ValidateCalls == <<Call("check_config"), Call("check_controller"), Call("check_nodes")>>

TearDownCalls(c) == PerNode("delete_node", "delete_slice", c.count, c.dra)

Calls(c) == CASE c.action = "create"    -> CreateCalls(c)
              [] c.action = "validate"  -> ValidateCalls
              [] c.action = "tear_down" -> TearDownCalls(c)

(***************************************************************************)
(* main; create asks GitHub for the latest release first, once.            *)
(***************************************************************************)
Begin ==
    /\ outcome # "running" /\ commands < MaxCommands
    /\ command' \in Commands
    /\ \/ todo' = Calls(command') /\ outcome' = "running"
       \/ command'.action = "create" /\ todo' = <<>> /\ outcome' = "failure"
    /\ retry' = 0
    /\ commands' = commands + 1
    /\ UNCHANGED cluster

Finish ==
    /\ outcome = "running" /\ todo = <<>>
    /\ outcome' = "success"
    /\ UNCHANGED <<cluster, command, todo, retry, commands>>

---------------------------------------------------------------------------
(* What a call does to the cluster *)

(***************************************************************************)
(* kwok.yaml has a config map of its own; whether an object is created or  *)
(* patched, one that is being deleted goes all the same.                   *)
(***************************************************************************)
ApplyManifest(m) ==
    /\ manifests' = manifests \cup {m}
    /\ config' = IF m = "kwok" THEN "default" ELSE config
    /\ UNCHANGED <<doomed, controller, node, ready, slices>>

DeleteConfigMap ==
    /\ doomed' = (config # "absent")
    /\ UNCHANGED <<config, manifests, controller, node, ready, slices>>

ApplyConfigMap ==
    /\ config' = "own"
    /\ UNCHANGED <<doomed, manifests, controller, node, ready, slices>>

(***************************************************************************)
(* create_node: a node that exists is replaced.                            *)
(***************************************************************************)
CreateNode(i) ==
    /\ node' = [node EXCEPT ![i] = Generate(base_ip, i)]
    /\ UNCHANGED <<config, doomed, manifests, controller, ready, slices>>

DeleteNode(i) ==
    /\ node' = [node EXCEPT ![i] = None]
    /\ ready' = ready \ {i}
    /\ UNCHANGED <<config, doomed, manifests, controller, slices>>

CreateResourceSlice(i) ==
    /\ slices' = slices \cup {i}
    /\ UNCHANGED <<config, doomed, manifests, controller, node, ready>>

DeleteResourceSlice(i) ==
    /\ slices' = slices \ {i}
    /\ UNCHANGED <<config, doomed, manifests, controller, node, ready>>

(***************************************************************************)
(* The Ready condition.  That a node can be scheduled and has resources is *)
(* checked as well; both come from the manifest and hold for all nodes.    *)
(***************************************************************************)
NodeIsValid(i) == i \in ready

(***************************************************************************)
(* All KWOK nodes are looked at, those of other commands too.              *)
(***************************************************************************)
ValidNodes ==
    LET present == {i \in Nodes : node[i] # None}
    IN /\ Cardinality(present) >= command.count
       /\ \A i \in present : NodeIsValid(i)

Effect(c) ==
    \/ c.op \in {"kwok", "stage", "patch", "metrics", "class"} /\ ApplyManifest(c.op)
    \/ c.op = "config_delete" /\ DeleteConfigMap
    \/ c.op = "config_apply" /\ ApplyConfigMap
    \/ c.op = "node" /\ CreateNode(c.node)
    \/ c.op = "slice" /\ CreateResourceSlice(c.node)
    \/ c.op = "delete_node" /\ DeleteNode(c.node)
    \/ c.op = "delete_slice" /\ DeleteResourceSlice(c.node)
    \/ /\ \/ c.op = "config_absent" /\ config = "absent"
          \/ c.op = "check_config" /\ config # "absent"
          \/ c.op = "check_controller" /\ controller = 1
          \/ c.op = "check_nodes" /\ ValidNodes
       /\ UNCHANGED cluster

---------------------------------------------------------------------------
(* execute_with_retries *)

(***************************************************************************)
(* The address is generated before the node is created.                    *)
(***************************************************************************)
Addressable == Head(todo).op = "node" => InRange(base_ip, Head(todo).node)

(***************************************************************************)
(* "Exceeded valid IPv4 address range" is raised outside of the retries.   *)
(***************************************************************************)
OutOfAddresses ==
    /\ outcome = "running" /\ todo # <<>> /\ ~Addressable
    /\ todo' = <<>> /\ outcome' = "failure"
    /\ UNCHANGED <<cluster, command, retry, commands>>

CallSucceeds ==
    /\ outcome = "running" /\ todo # <<>> /\ Addressable
    /\ Effect(Head(todo))
    /\ todo' = Tail(todo) /\ retry' = 0
    /\ UNCHANGED <<command, outcome, commands>>

(***************************************************************************)
(* The last failure is raised and ends the command, except that tear_down  *)
(* only warns about a resource slice.                                      *)
(***************************************************************************)
GiveUp ==
    /\ retry' = 0
    /\ \/ /\ Head(todo).op = "delete_slice"
          /\ todo' = Tail(todo) /\ UNCHANGED outcome
       \/ /\ Head(todo).op # "delete_slice"
          /\ todo' = <<>> /\ outcome' = "failure"
    /\ UNCHANGED <<command, commands>>

(***************************************************************************)
(* An attempt raises, before or after it has had its effect.               *)
(***************************************************************************)
CallFails ==
    /\ outcome = "running" /\ todo # <<>> /\ Addressable
    /\ UNCHANGED cluster \/ Effect(Head(todo))
    /\ \/ /\ retry < MaxRetries
          /\ retry' = retry + 1
          /\ UNCHANGED <<command, todo, outcome, commands>>
       \/ retry = MaxRetries /\ GiveUp

---------------------------------------------------------------------------
(* The cluster *)

ConfigMapGone ==
    /\ doomed
    /\ config' = "absent" /\ doomed' = FALSE
    /\ UNCHANGED <<manifests, controller, node, ready, slices, process>>

ControllerChanges ==
    /\ "kwok" \in manifests
    /\ controller' = 1 - controller
    /\ UNCHANGED <<config, doomed, manifests, node, ready, slices, process>>

NodeReady ==
    /\ controller = 1
    /\ \E i \in Nodes : node[i] # None /\ i \notin ready /\ ready' = ready \cup {i}
    /\ UNCHANGED <<config, doomed, manifests, controller, node, slices, process>>

Client  == (Finish \/ OutOfAddresses \/ CallSucceeds \/ CallFails) /\ UNCHANGED base_ip
Cluster == (ConfigMapGone \/ ControllerChanges \/ NodeReady) /\ UNCHANGED base_ip
Next    == (Begin /\ UNCHANGED base_ip) \/ Client \/ Cluster

Spec == Init /\ [][Next]_vars

---------------------------------------------------------------------------
(* Properties *)

Succeeded(action) == outcome = "success" /\ command.action = action

(***************************************************************************)
(* A create that succeeded leaves everything in place: the config map of   *)
(* the repository, which nothing is about to take away again, the patched  *)
(* controller, every node under its address and every resource slice; a    *)
(* tear_down that succeeded leaves none of its nodes.  Both whatever       *)
(* earlier commands left and however often calls were repeated.            *)
(***************************************************************************)
SuccessMeansDone ==
    /\ Succeeded("create") =>
           /\ config = "own" /\ ~doomed
           /\ {"kwok", "stage", "patch"} \subseteq manifests
           /\ \A i \in 0 .. command.count - 1 :
                 node[i] = Generate(base_ip, i) /\ (command.dra => i \in slices)
    /\ Succeeded("tear_down") => \A i \in 0 .. command.count - 1 : node[i] = None

(***************************************************************************)
(* "Generate a valid IPv4 address, rolling over octets as needed": every   *)
(* node in the cluster has a valid address, which is the base plus its     *)
(* index and so a different one for every node, however the commands that  *)
(* created them overlapped and where they were interrupted.                *)
(***************************************************************************)
AddressIsSum ==
    \A i \in Nodes : node[i] # None =>
        /\ node[i] \in Octet \X Octet \X Octet \X Octet
        /\ Offset(base_ip, node[i]) = Offset(base_ip, base_ip) + i

===========================================================================
