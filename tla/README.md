# TLA+ models of Telescope

Telescope provisions Kubernetes clusters, runs benchmark operations against them
and uploads one JSON record per measured operation. This directory holds TLA+
specifications of the parts of it that keep state or act on a cluster, TLC
configurations that model-check them on small instances, and TLAPS proofs for every
instance. Paths below are relative to `modules/python/` unless they say otherwise.

## 1. Inventory

| Component | State | Operations | Hard parts | Modules |
|---|---|---|---|---|
| Machine API client, `clients/aks_machine_client.py` | thread pool of PUTs, token cache, percentile timings, baseline of Ready nodes | `create_machine_agentpool`, `scale_machine` | concurrent PUTs with retries, paged listing read while Machines settle, baseline read once, three nested deadlines | `Machine*` |
| AKS node pool client, `clients/aks_client.py`, `utils/provisioning_instrumentation.py`, `wait_for_nodes_ready` in `clients/kubernetes_client.py` | two threads per provisioning, node pool object reused by the steps | `create_node_pool`, `scale_node_pool`, `_progressive_scale`, `delete_node_pool` | ARM request with retries next to a node wait with its own deadline, partial progress | `NodePoolProvision`, `AksNodePool`, `ScaleSteps` |
| Azure NodePoolCRUD and `crud/main.py` | results per operation, exit code | `create`, `scale`, `delete`, `all` | clean-up after failures, exit status | `NodePoolCrud` |
| Azure workload commands | instances of a Deployment, StatefulSet or Job | `deployment`, `statefulset`, `job` | status of an earlier spec, leftovers of an earlier command, shared labels | `Workloads` |
| Operation records and `collect`, `crud/operation.py` | one `Operation` per `with` block, one file per record | `start`, `end`, `__exit__`, `collect` | what decides `success`, file names with a resolution of a second, half-written files, a repeated `collect` | `MeasuredOperation`, `ResultFiles` |
| Kubernetes client: manifests | objects in the cluster | apply, delete | one object of several fails, namespaces, objects in deletion | `Manifests` |
| EKS node group client, `clients/eks_client.py`, `crud/aws/node_pool_crud.py` | launch template id, role ARN | constructor, create, scale, delete, `all` | resources created in several calls, reuse by name, processes that follow each other | `EksCloud`, `EksNodeGroup`, `EksCrud` |
| Capacity reservation manager, `cloud/aws/managers/` | none | search, purchase, summarise | a failure after the purchase, a lost answer, a stale offering | `CapacityBlocks` |
| KWOK, `kwok/kwok.py`, with the retry helper `utils/retries.py` | simulated nodes | create, validate, tear down | retried calls, partial creation, addresses | `KwokNodes`, `NodeIp` |
| CSI benchmark, `csi/csi.py` | two monitor threads, a log file | execute, collect | no deadline, one thread failing, volumes of others | `CsiAttachDetach` |
| Pipeline scheduler, `pipelines/pipelines.py` | definitions read in the first pass | two passes | definitions edited in between, partial failure | `Pipelines` |
| Kubernetes client: GPU checks | none | nvidia-smi, systemd and MIG checks | parse what a command in a pod prints | |
| Autoscaler benchmark, ClusterLoader2 drivers, GPU, FIO, iperf3, store demo, Docker, Terraform and Kusto helpers | none | run a tool, reformat its output | | |

How they interact: `crud/main.py` builds one CRUD object per process and calls one
method; CRUD objects call the cloud client; the cloud client opens an
`OperationContext` per measured operation, starts threads that talk to ARM, AWS and
the Kubernetes API, and joins them before the context is left. Nothing is shared
between processes but the cluster, the cloud account and the result directory, so the
models of commands let commands follow each other on what earlier ones left.

What makes each of them correct:

* a record says `success` only if the operation reached what it is measured for,
  and the timings in it belong to that operation;
* every operation ends with a record, whatever the service does, as far as the calls it
  makes have a timeout;
* a failure of one of several requests is never lost;
* clean-up is attempted once something was created;
* a command that is repeated, or follows one that died, does what it says on what it
  finds;
* records reach `results.json`, each once per `collect`.

## 2. Modules

| Module | Models |
|---|---|
| `MachineEnv` | the Machine resources, the agentpool and the nodes (external), with the names `scale_machine` generates |
| `MachineSubmit` | the two submission modes: tasks of a thread pool, HTTP 429 retries, lost answers |
| `MachineReadiness` | `_wait_for_machine_node_readiness` with `_list_machines` and `_get_terminal_machine_provisioning_failures`; a specification of its own and part of the next |
| `MachineScale` | `create_machine_agentpool` and `scale_machine` end to end: composes the two above with the agentpool wait and the record |
| `MeasuredOperation` | abstract: one record, written once, success only if the goal is reached |
| `ResultFiles` | the files records are saved to, and `collect_benchmark_results` |
| `ScaleSteps` | the steps of a progressive scaling, as operators; used by both clouds |
| `NodePoolProvision` | the service, the nodes, and the two threads of `instrument_nodepool_provisioning` |
| `AksNodePool` | the operations of `AKSClient` and their records |
| `NodePoolCrud` | one process of `crud/main.py`: GPU device plugin, command, `all()`, exit code and status |
| `EksCloud` | what AWS keeps between processes: role, access entry, launch template, node group, nodes, reservations (external) |
| `EksNodeGroup` | `EKSClient`: the constructor and the three operations, one action per AWS call |
| `EksCrud` | processes of `crud/main.py` for AWS, one after the other on one account |
| `Manifests` | `apply_manifest_from_*` and `delete_manifest_from_*`, document by document, call after call |
| `Workloads` | `_create_workloads` and `_apply_workload` with `wait_for_condition` and `wait_for_pods_ready`, next to the controllers |
| `CapacityBlocks` | `capacity_reservation_manager.main` on a market that changes |
| `KwokNodes` | the KWOK commands as lists of calls, each inside `execute_with_retries` |
| `NodeIp` | `_generate_node_ip` as operators |
| `CsiAttachDetach` | `execute_attach_detach` with its threads, `collect_attach_detach`, and the storage |
| `Pipelines` | both passes of `pipelines.main`, and the owners of the pipelines |
| `MC*` | values for the constants of a run |
| `MachineScaleProofs`, `NodePoolCrudProofs`, `EksCrudProofs`, `CapacityBlocksProofs`, `KwokNodesProofs`, `CsiAttachDetachProofs`, `PipelinesProofs` | theorems about the component of that name |
| `CommandProofs` | theorems about `Manifests`, `Workloads` and `ResultFiles` |

Correspondence of state and code. In `MachineSubmit`, `task[t]` is the future of
one PUT and `attempt[t]` the local `attempt` of `_make_batch_request`. In
`MachineReadiness`, `watch` is the program counter of the loop, `counting` and
`listing` are the two futures of a round, `readiness_times`, `checkAt` and
`baseline` are the variables of the same name in the code
(`next_machine_failure_check_at`, `baseline_count`); `readySet` and `hitSet` are
history variables for the properties. In `NodePoolProvision`, `arm` and `k8s` are
the two futures, `attempt` and `elapsed` the locals of
`begin_create_or_update_with_retry`. In `AksNodePool`, `plan` is what is left of
`steps` and `from` is `previous_count`. In `EksNodeGroup`, `client` holds
`launch_template_id` and the loop variables of the constructor, `op` the open
`OperationContext`, and `pc` names the next AWS call; `found` of `EksCrud` is the role, the
launch template with its reservation and the number of records when the process started.
Every call that changes something in AWS may take effect and still raise. In `Manifests`,
`at` is the position in `manifests` and `conflict` says that the create was answered with
409. In `Workloads`, an instance's `seen` is the status its controller wrote last, which may be
that of an earlier spec. In `CapacityBlocks`, `answered` and `best` are the offerings of
the page returned and the one chosen, `sold` what EC2 sold to this account, one entry per
purchase that took effect, `mine` the reservation of the answer, and `lost` counts the
purchases whose answer got lost. In `KwokNodes`, `todo` is the list of calls a command
still has to make and `retry` the `retry_count` of the current one. In
`CsiAttachDetach`, `at[t]` is the position of a monitor thread in its thresholds. In
`Pipelines`, `todo` and `chosen` are `scheduled_pipelines` and `pipelines_to_disable`.
In `ResultFiles`, a file's key is its name, the operation and the second, and `ended`
remembers of every operation its file and whether that was written, torn or not opened.

Abstractions. URLs, headers, bodies and log lines are left out; HTTP answers are
reduced to the classes the code distinguishes. Time in the Machine waits is a
discrete clock, since the code computes with it; the other waits only compare with a
deadline, so there the deadline simply may pass at any moment. The bearer token cache
is part of "a request fails". The findings of GPU verifications are metadata; only
that they may raise matters to the record. The 30 seconds between two steps lie inside
the context of the first, which is why they are part of `Verify`. The node pool's etag
is not tracked: a request may be rejected as out of date at any time. Manifests are
reduced to what the branches distinguish: namespaced, cluster-scoped, skipped,
nameless. Templates of workloads are reduced to the count they carry. The log of the
CSI benchmark keeps the order of the lines per key only, which is all a dictionary
shows. Azure DevOps takes a definition only with the revision it holds.

## 3. Runs

| Run | Configuration | Question |
|---|---|---|
| `machine` | `MachineScale.cfg` | Are the percentile timings monotone and met by new nodes but for those the snapshot missed, is a reported failure final although pages, counts and clock belong to different moments; is nothing outstanding when the waits start, are all machines new after a success; do both operations implement `MeasuredOperation`? |
| `machine_live` | `MachineScaleLive.cfg` | Does every operation end with a record, unless one list of nodes never answers? |
| `node_pool` | `NodePoolCrud.cfg` | Is a success record true of the service, is the measured readiness that of this request, are steps a chain that ends at the target, does `all()` clean up, is the computed exit code honest, does every command end unless a call without a timeout never answers? |
| `eks` | `EksCrud.cfg` | Do nodes find an access entry and a role that is complete, or exactly what an earlier process left; does a group launch from the reservation that was recorded, or from that of the template it found; is a success record true of EKS, does `all()` leave neither group nor template, is no failure lost, does every process end, although any call may fail, also after it took effect? |
| `manifests` | `Manifests.cfg` | Calls that stop anywhere: do objects only depend on live ones, does a returned apply mean all live and a returned delete none? |
| `workloads` | `Workloads.cfg` | Is what a command counts as created there, ready, and a job the command's own; does every command end? |
| `capacity_blocks` | `CapacityBlocks.cfg` | Is every block paid for as asked and the cheapest of the page, bought a second time only after a lost answer, and reported unless its answer was lost; what does each exit say of the money? |
| `kwok` | `KwokNodes.cfg` | Does a create that succeeds leave everything in place, and a tear-down that succeeds no node, whatever earlier commands left and however often a call took effect; has every node the address of its index, up to the last address there is? |
| `csi` | `CsiAttachDetach.cfg` | Is everything attached before the deletion begins, everything detached at success, does `collect` report the run that succeeded, and does `execute` end unless volumes of others stay attached for ever? |
| `pipelines` | `Pipelines.cfg` | Is no edit of an owner lost, no excluded pipeline touched, nothing disabled when a definition could not be read, and everything when the exit code is 0? |
| `result_files` | `ResultFiles.cfg` | Is a record lost only to a later one of its name and second, does a `collect` that succeeds append all that are left, and does a record have no more lines than there were collects? |
| `crud_exit_status` | `ExitCodeIsReturned.cfg` | Expects a violation: see section 5. |

Every property has a mutant in `PROJECT.json`, a plausible mistake in one definition that
makes TLC report it. `TypeOK` is a property of the `node_pool` run, where it bounds the
attempts of a request; in the other modules it states the types for the reader and for
proofs, holds on the instances above, and is not kept as a property of the runs.

Deadlock is not checked: every one of these systems ends.

Bounds. Up to two machines are waited for (three are submitted in the rejected batches),
which gives percentile targets that coincide and targets that differ; one pre-existing
node is enough for a baseline that is exact, too low or stale. A clock of 2 with a poll of
1 and a check interval of 2 contains a check that is due, one that is not, and a deadline
that cuts a sleep short. Two pages and two attempts are the smallest numbers with a retry
and a last try. Node counts up to 3 with step sizes 1, 2 and 0 give even, uneven and
impossible plans; the proofs of `NodePoolCrudProofs` cover the rest. Two policies give a
role that is half built; two processes one that finds what the other left; a create
without a capacity block next to an `all()` on one gives a template of another reservation
than the one found; one of two reservations lies in a zone without a private subnet. Four
calls on one manifest source contain apply, failed delete, apply, delete. Two instances,
two pools and two commands out of seven give an instance that is new, one that is patched,
one whose job is deleted first and one that shares its label with another pool. Two
commands on the capacity market are a step and its repetition; one re-sent request makes a
purchase that took effect and is made again. Three KWOK commands with two node counts let
a tear-down meet more and fewer nodes than it was told of; the base addresses are chosen
so that the second node needs a carry through all octets, or has no address, which takes
millions of nodes from 10.0.0.10. One and two disks make the percentiles collapse to zero
and to each other. Two edits in two runs of the pipeline scheduler put an edit before,
between and after read and put. Three operations in three seconds give names that collide
and names that do not; two collects one that repeats another.

Fairness. `MachineScale!Fairness` and `NodePoolCrud!Fairness` assume that the threads of
the process run, that its clocks advance and that a call with a timeout comes back; nothing
is assumed of what the services answer. Some calls have no timeout, and no deadline
interrupts them: `list_node` (`clients/kubernetes_client.py:67`) in both clients, and in the
node pool client also `operation.result()` of a delete, the `az` command and the Kubernetes
calls that verify a GPU pool and install its device plugin. Those are not fair, and the
properties say so: `EndsOrNodeListHangs` and `EndsOrHangs`, an end or one such call that is
outstanding for ever. `EksCrud` and `Workloads` assume that the process runs on and that API
calls return: waits there have deadlines, waiters a maximal number of attempts. Nothing is
assumed of nodes, controllers or other operations on the cluster. `CsiAttachDetach` is the
exception: its threads have no deadline, so its liveness also needs storage that binds,
attaches and detaches in the end; a claim that never binds keeps `execute` waiting.

## 4. Proofs

Every theorem about a specification is of the form `Spec => []P` or `Spec => P` and holds
for every value of the constants that satisfies the named `ASSUME`s of its module.
`CommandProofs` extends three modules with a specification each, `Spec` of `Manifests`,
`WorkloadSpec` and `FilesSpec`, which is why definitions of the latter two have such
prefixes. Where a property is not
inductive by itself, the proof modules define the invariant that is, as a conjunction of
named parts; each was checked by TLC on the instance of the run before it was proved.
One lemma per action shows that the invariant is kept, and a last step with `PTL` lifts
it to the specification.

`MachineScaleProofs`, first part: the readiness wait alone. The inductive invariant `Inv`
adds two facts to the types and to `TimingsMonotone`: `CountSound`, a count never exceeds
the pre-existing nodes plus the new ones it saw, and `HitSound`, the same for the counts
that met a percentile, which were read in the past. Monotone targets (`TargetFacts`, from
`CeilPercentMonotone`) make a poll that meets a percentile meet every lower one.
`FailureIsFinal` needs `ListSound`: a page read earlier is still right about the Machines
it listed as terminal, since no Machine leaves a terminal state. Theorems:
`ReadinessTypes`, `TimingsAreMonotone`, `OnlyNewNodes`, `FailuresAreFinal`.

`MachineScaleProofs`, second part: both operations end to end. `ScaleInv` joins the
invariant of the wait with what the steps before it establish: `WaitUntouched`, the wait
has no timing and no listing before it is entered; `LateIsFailed`, a PUT that may still be
applied belongs to a task that was given up; `Submitted`, the submission is left only when
every future returned and every machine landed; `PcSound` and `SuccessIsGoal`. The
submission does not disturb the wait and the wait does not disturb the submission, so each
part keeps its own invariant. `SuccessMeansAllNew` needs a counting argument: P100 asks for
as many new nodes as there are names, and a subset of a finite set of the same size is the
set. `ChunksPartition` says that the requests
name disjoint sets of the machines asked for, in either submission mode.
`ScaleImplementsMeasured` is the refinement: every step of either operation is a
step of `MeasuredOperation` or leaves its variables alone. Theorems: `ScaleInvariant`,
`WaitPromisesKept`, `NoneOutstanding`, `SuccessIsAllNew`,
`ScaleImplementsMeasured`.

`NodePoolCrudProofs`, the operators: `StepsClimb` and `StepsDescend`, for every current
count, target and positive step size: no step is empty or larger than the step size, and
the last one is the target. The argument is the division lemma `DivFacts` and the closed
form of `range()` (`PlannedUp`, `PlannedDown`). `StepsWithin` adds what holds for every
step size but 0, negative ones too (the range is then empty): only counts within bounds,
the target last.

`NodePoolCrudProofs`, the process (assumptions: `ProvisionAssumption`,
`CommandAssumption`). `Inv` consists of the types, of two of the properties
(`ReadinessIsFresh`, `ScaledToTarget`) and of four facts that make them inductive:
`PcSound`, which phase, call position and threads go together; `PlanSound`, the plan
ends with the requested count and the provisioning is for its first one;
`ServiceSound`, the pool has the wanted count from the moment a PUT is accepted, and
only the last phase has a DELETE under way; `FreshSound`, a pool that was settled at
another count stays there until the PUT is accepted, unless a node was lost. The
last one is what makes the readiness of the second thread trustworthy: it sees the
wanted number of nodes only after the first thread's request was taken. `RecordsAreTrue`
follows from the two actions that record a success. `History` is the second layer, about
the records of a whole process: `PlanMoves`, what is left of the plan goes on from the
count reached, in the direction of the open context (the operators' theorems enter
here); `PoolInBounds`, `all()` keeps the pool between its two counts; `LastSound`, what
the last record can be when an operation begins; `FailureKept`, a recorded failure is
still in a result; `DeleteSound`. `LastSound` is the part that is easy to miss: a new
scaling may start with a record of its own kind only if that is its previous step.
Theorems: `CrudTypes`, `MeasuredReadinessIsFresh`, `ScalingReachesTarget`,
`SuccessRecordsAreTrue`, `CrudHistory`, `StepsAreChained`, `AllIsCleanedUp`,
`ExitCodesAreHonest`.

`NodePoolCrudProofs`, the end of a process. `ProcessesAreFinite` is the part of
`EndsOrHangs` that needs no fairness: six measures in lexicographic order (operations
left, stage of the call, steps of the plan, attempts of the request, its polls, rest of
the node wait) are natural numbers; every step of the process that `Fairness` names makes
them smaller, and no other step makes them larger: neither a round of the node wait nor
anything the service or the nodes do. A step that starts over what an earlier measure
counts, such as an attempt that starts polling again, pays with that earlier measure.

`EksCrudProofs`, for any number of processes on one account. Beside weak types, `Inv` has
`PcSound`, phase and open operation by call; `RoleSound`, up to
`create_role` there is the role the process found, a role it creates lacks no policy but
those still to be attached, and one it found stays as it was; `TemplateSound`, up to the
check for a launch template there is the one the process found, afterwards the client knows
the one there is, with the reservation found with it or else the one recorded, and `all()`
keeps it up to its deletion;
`GroupSound`, a group that is waited for is the one that was asked for and not on its way
out; `AllSound` and `HonestSoFar`, what the results of `all()` say of AWS and of the
failures recorded by this process. Theorems: `EksInvariant`, `NodesJoin`,
`ReservationsAreLaunched`, `AllLeavesNothingBehind`, `ExitCodesAreHonest`,
`SuccessRecordsAreTrue`.

A second invariant, `Sizes`, adds the bounds: what AWS holds (`CloudSizes`) and what the
client is about to ask for (`ClientSizes`) stay within the counts of the command lines.
The steps of a progressive scaling lie between its ends by `PlanSizes`, for every step
size. It gives the full type invariant, `EksTypes`. `ProcessesAreFinite` has four
measures, operations left, stage, way left in the stage, and policies or retries left:
every step of a process makes them smaller in lexicographic order and AWS leaves them
alone. It needs a finite set of policies (`CloudAssumption`).

`CommandProofs`, manifests, for every source. `AppliedSoFar`: what an apply has gone
through is live; `DeletedSoFar`: nothing behind a delete, which comes from the end, is
live. With the positions (`CallSound`) and `ObjectsAreReal` these make `LiveIsPrefix` and
`ReturnMeansDone` inductive. Theorems: `ManifestsInvariant`, `DependenciesLive`,
`ReturnedCallsAreDone`.

`CommandProofs`, workloads, for any number of types, pools, counts and instances.
`WorkloadInv` has beside weak types `LoopSound`, no more instances are counted than the
loop is through with; `CountedSoFar`, as long as all of these were counted, each is in the
cluster with its count, and so is the one waited for; `JobStatusHolds`, what the status of
a job says still holds when it is read, since completions are neither changed nor lost;
`JobIsOwn`, the awaited job was created by this command unless deleting the old one
failed. The first two give `AllInstancesExist`, the others `CountedIsReady` for jobs; for
the other types the count of ready pods over all pools is that of the instance if no other
pool has one of its label (`AlonePodsCount`). `CommandsAreFinite`: `StepsLeft` starts at
`7 * number + 1`, every step of the client makes it smaller, and the controllers leave it
alone. Theorems: `WorkloadInvariant`, `EveryInstanceExists`, `CountedInstancesAreReady`,
`WorkloadTypesHold`, `CommandsAreFinite`.

`CommandProofs`, result files, for any number of operations, names and collects, and with
no assumption on how long an operation takes. `FilesHoldRecords`: a file that is not torn
holds a record that nothing was written over, under its own name; `CollectedSoFar`:
`collect` has appended one line per file it is through with, so their number is that of the
records left (`FilesCountRecords`); `LinesSoFar`: a record this `collect` has still to come
to has a line less than there were collects. Theorems: `FilesInvariant`, `NoRecordIsLost`,
`CollectsEveryRecord`, `CollectsCountOnce`.

`CapacityBlocksProofs` (assumption: `OfferingAssumption`). `SalesSound`: what the current
command bought is its choice, however often it was sold; `BooksSound`: it has no more
reservations than lost answers and the one it was told of, which is its own. `AnswersFit`
and `ChoiceSound` tie the choice to the arguments although the market goes on. Theorems:
`CapacityInvariant`, `PurchasesAreAsAsked`, `PaymentsAreReported`.

`KwokNodesProofs` (assumption: `KwokAssumption`). `AddressesAreSums`: `Carries` states
the three divisions of the code as equations, `SumInOctets` adds them up to the base plus
the index; the invariant `Addressed` adds the domain of `node`; only the calls that create
and delete a node touch it (`EffectOnNodes`), and a creating call starts only with an
address in range. `RaisesOnlyBeyondRange`: `FirstOctet` turns the code's test of the first
octet into the bound on the sum. `SuccessesAreDone`: `DoneInv` says that the command has
made some number `d` of its calls and that what those should leave is in place
(`Achieved(d)`); `CreateShape` shows that nothing after the config map's own steps touches
it again, and a call that took effect before its answer was lost is repeated without harm.

`CsiAttachDetachProofs`, for every set of disk numbers. `PeakSound`: a thread past its
last threshold saw all claims or pods, even if a pod is not ready any more;
`PhaseSound`: the phases follow each other; `LogSound`: this run has the last line under
every key it has passed. Theorems: `CsiInvariant`, `CompletePhases`, `CollectsLastRun`.

`PipelinesProofs` (assumption: finitely many pipelines). `Copies`: a definition the script
holds is no newer than the server's, and one of the same revision agrees with it; hence a
put the server takes reverts nothing, and it makes every other copy of that definition old
(`PutInv`). `Passes` says that no definition is disabled while another is still to be
read. For the exit code, `RunInv`: while nobody edited, every due pipeline is yet to be
looked at, chosen or disabled (`CompleteSoFar`), and what was chosen or disabled was due
(`Justified`). Theorems: `EditsAreSafe`, `ExclusionHolds`, `FirstPassComesFirst`,
`ExitZeroRunsAreComplete`.

Model-checked only: liveness under fairness (`EndsOrNodeListHangs`, `EndsOrHangs`,
`ProcessEnds`, `CommandEnds`, `HangsOnlyOnForeignVolumes`), which is out of the prover's
reach. For `EndsOrHangs`, `ProcessEnds` and `CommandEnds` the finite descent is proved,
as above; that a fair step is enabled as long as a process has not ended is what TLC alone
shows. `ExitCodeIsReturned` does not hold (section 5). Every other property of the runs is
a theorem.

## 5. Findings

One run keeps a counterexample. `crud_exit_status`: `main()` computes the exit code of a
node pool or workload command under the comment "Return the explicit exit code"
(`crud/main.py:737`), logs it and returns, so the process exits with 0 after a failure and
the script of `steps/engine/crud/k8s/execute.yml` goes on.

Other places where the code and what it says of itself differ, met while modelling. The
models follow the code, and the properties are stated with the exception named here.

| Place | What the code says | What it does |
|---|---|---|
| `clients/aks_machine_client.py:361` | "Preserve lower-percentile timings before failing" | the count read together with the failing listing is dropped |
| `clients/aks_machine_client.py:515` | "pre-existing labeled Ready nodes alone must never satisfy any threshold" | they do after a snapshot that failed or missed some; `OnlyNewNodesCount` says for how many nodes of the target they can stand |
| `crud/operation.py:78` | "operation was marked as failed" (`tests/crud/test_main.py:1033`) | `Operation.end` overwrites the `op.success` that `main()` set when the device plugin fails |
| `clients/eks_client.py:262` | "creates a duplicate role with the same attributes" | a role left half built, or created by a call that raised, is used as it is; `found` in `NodesCanJoin` |
| `clients/eks_client.py:857` | "If a launch template was created, delete it" | a delete command does not know the template of the create command; `AllLeavesNothing` is about `all()` |
| `clients/eks_client.py:1164` | "capacity reservation ID to use" | a template left by an earlier process, also one that a delete command did not know of, ties the group to its reservation; `found` in `ReservationIsLaunched` |
| `clients/eks_client.py:694` | "No change in node count, return the node pool as is" | the node group is updated |
| `clients/eks_client.py:478` | "Number of nodes to create" | a create of more than one node exceeds the maximum size |
| `clients/kubernetes_client.py:1695` | "Equivalent to 'kubectl delete -f'" | a document without namespace, applied to `default`, is refused |
| `crud/azure/node_pool_crud.py:548` | "avoid reusing completed jobs" | a failed delete is ignored and the old job counted; `refused` in `CountedIsReady` |
| `crud/azure/node_pool_crud.py:526` | "apply and verify a single workload instance" | pods of another pool's instance are counted; `Alone` in `CountedIsReady` |
| `clients/kubernetes_client.py:1496` | "Resource already exists, update it instead" | an object on its way out accepts the update and vanishes; `clean` in `LiveIsPrefix` and `ReturnMeansDone` |
| `crud/operation.py:225` | "Create a filename based on the operation name and timestamp" | a step that raises at its first read (`clients/aks_client.py:896`) may end in the second the step before it did and overwrite its file; `Survivors` in `NoRecordLost` |
| `crud/main.py:83` | "process Cluster Crud benchmark results" | a second `collect` appends every record again, and one that failed has appended some; `LinesPerCollect` |
| `clients/kubernetes_client.py:1254` | "including scale-to-zero" | a StatefulSet of zero replicas is never ready |
| `cloud/aws/managers/capacity_reservation_manager.py:446` | "Invalid input" | also printed when a block was bought and is not listed yet; `PaidIsReported` |
| `cloud/aws/managers/capacity_reservation_manager.py:191` | "Purchase a capacity block from an offering" | the request has no token: one sent again after a lost answer buys again; `lost` in `BoughtAsAsked` |
| `cloud/aws/managers/capacity_reservation_manager.py:310` | "Dictionary with summarized reservation details" | a reservation in any state is a success; the next step looks for state `active` in its zones only (`clients/eks_client.py:1056`), so a success is no promise that it finds the block |
| `kwok/kwok.py:266` | "if DRA was enabled" | a tear-down without the flag leaves the slices of a create that had it |

## 6. What comes next

1. Proofs: the full type invariants of `KwokNodes`, `Pipelines` and `ResultFiles`, of which the
   invariants above contain what the arguments need; the finite descent behind
   `EndsOrNodeListHangs`, where the clocks of three waits have to be measured.
2. The crud pipeline of `steps/engine/crud/k8s/execute.yml` as a sequence of
   `NodePoolCrud` processes, as `EksCrud` has it for AWS.

## 7. Not modelled

See `components` in `PROJECT.json`. The GPU verifications of the Kubernetes client
parse what a command in a pod prints; whether they raise is part of the models that
call them. The autoscaler benchmark and the ClusterLoader2 drivers write configuration
files, run a container and reformat its reports; GPU, FIO, iperf3 and store demo
benchmarks run external tools and reformat their output; the Docker client and the
Terraform and Kusto helpers keep no state; Terraform modules, scenarios and pipelines
are declarative.
