--------------------------- MODULE MachineSubmit ---------------------------
(***************************************************************************)
(* Submission of the machine PUTs: AKSMachineClient.                       *)
(* _scale_machine_individually and _scale_machine_batch, each a            *)
(* ThreadPoolExecutor over tasks.  A task is one PUT: of one machine, or   *)
(* of a contiguous slice of the names with a BatchPutMachine header.       *)
(***************************************************************************)
EXTENDS MachineEnv

CONSTANTS
    BatchMaxRetries,    \* _BATCH_429_MAX_RETRIES, total attempts on HTTP 429
    BatchMaxMachines    \* _BATCH_MAX_MACHINES_PER_REQUEST

ASSUME SubmitAssumption ==
    BatchMaxRetries \in Nat \ {0} /\ BatchMaxMachines \in Nat \ {0}

VARIABLES
    task,       \* [Tasks -> TaskStates], the future of each PUT
    attempt     \* [Tasks -> Nat], 429 answers the running PUT has had

submitVars == <<task, attempt>>

TaskStates == {"queued", "sent", "backoff", "ok", "failed"}

(***************************************************************************)
(* The three ValueErrors that precede any batch submission.                *)
(***************************************************************************)
BatchRejected ==
    req.workers > 0 => \/ req.count % req.workers # 0
                       \/ req.count \div req.workers > BatchMaxMachines

Rejected == req.batch /\ BatchRejected

Tasks ==
    IF req.batch
      THEN IF BatchRejected THEN {} ELSE 0 .. (req.workers - 1)
      ELSE 0 .. (req.count - 1)

(***************************************************************************)
(* names[start : start + per_worker] for batch worker t; the name itself   *)
(* for an individual PUT.                                                  *)
(***************************************************************************)
Chunk(t) ==
    LET per_worker == req.count \div req.workers
        start      == t * per_worker
    IN  IF req.batch THEN (start + 1) .. (start + per_worker) ELSE {t + 1}

PoolSize ==
    IF req.batch THEN req.workers
    ELSE IF req.workers > 1 THEN req.workers ELSE 1

Busy == {t \in Tasks : task[t] \in {"sent", "backoff"}}

successful == UNION {Chunk(t) : t \in {u \in Tasks : task[u] = "ok"}}

AllReturned == \A t \in Tasks : task[t] \in {"ok", "failed"}

SubmitTypeOK ==
    /\ task \in [Tasks -> TaskStates]
    /\ attempt \in [Tasks -> 0 .. (BatchMaxRetries - 1)]

SubmitInit ==
    /\ task = [t \in Tasks |-> "queued"]
    /\ attempt = [t \in Tasks |-> 0]

(***************************************************************************)
(* An idle worker takes the oldest queued task.  An empty chunk returns [] *)
(* without a request.                                                      *)
(***************************************************************************)
StartTask(t) ==
    /\ task[t] = "queued"
    /\ \A u \in Tasks : u < t => task[u] # "queued"
    /\ Cardinality(Busy) < PoolSize
    /\ task' = [task EXCEPT ![t] = IF Chunk(t) = {} THEN "ok" ELSE "sent"]
    /\ UNCHANGED <<attempt, envVars>>

(***************************************************************************)
(* 200, 201 or 202; a batch PUT also takes 204 for an answer.              *)
(***************************************************************************)
PutAccepted(t) ==
    /\ task[t] = "sent"
    /\ \E status \in {"2xx", "204"} :
          task' = [task EXCEPT ![t] =
                     IF status = "2xx" \/ req.batch THEN "ok" ELSE "failed"]
    /\ attempt' = [attempt EXCEPT ![t] = 0]
    /\ Provision(Chunk(t))
    /\ UNCHANGED <<req, existing, late, oldReady, newReady>>

(***************************************************************************)
(* HTTP 429: an individual PUT returns False; a batch PUT backs off until  *)
(* its attempts are used up.                                               *)
(***************************************************************************)
PutThrottled(t) ==
    /\ task[t] = "sent"
    /\ LET retry == req.batch /\ attempt[t] + 1 < BatchMaxRetries
       IN  /\ attempt' = [attempt EXCEPT ![t] = IF retry THEN @ + 1 ELSE 0]
           /\ task' = [task EXCEPT ![t] = IF retry THEN "backoff" ELSE "failed"]
    /\ UNCHANGED envVars

BackoffOver(t) ==
    /\ task[t] = "backoff"
    /\ task' = [task EXCEPT ![t] = "sent"]
    /\ UNCHANGED <<attempt, envVars>>

(***************************************************************************)
(* Any other status: False, or a RuntimeError that run_worker swallows.    *)
(***************************************************************************)
PutRejected(t) ==
    /\ task[t] = "sent"
    /\ task' = [task EXCEPT ![t] = "failed"]
    /\ attempt' = [attempt EXCEPT ![t] = 0]
    /\ UNCHANGED envVars

(***************************************************************************)
(* The request times out or the connection breaks: the exception is logged *)
(* and the names are left out, yet the service may still act on them.      *)
(***************************************************************************)
PutLost(t) ==
    /\ task[t] = "sent"
    /\ task' = [task EXCEPT ![t] = "failed"]
    /\ attempt' = [attempt EXCEPT ![t] = 0]
    /\ late' = late \cup Chunk(t)
    /\ UNCHANGED <<req, existing, arm, pool, oldReady, newReady>>

SubmitNext ==
    \E t \in Tasks :
       \/ StartTask(t) \/ PutAccepted(t) \/ PutThrottled(t)
       \/ BackoffOver(t) \/ PutRejected(t) \/ PutLost(t)

===========================================================================
