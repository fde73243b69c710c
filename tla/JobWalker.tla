----------------------------- MODULE JobWalker -----------------------------
(***************************************************************************)
(* The job walker of pkg/internal/jobwalker (serial and parallel modes),   *)
(* which drives the query handler.  Its code is not among the sources, so  *)
(* it is modelled from spec.md 4.1 and 5:                                  *)
(*   - a FIFO work queue, seeded with the initial jobs;                    *)
(*   - a pool of workers (one worker = serial mode, N = parallel mode),    *)
(*     each taking the head of the queue and running the handler on it;    *)
(*   - spawn appends to the queue and never blocks;                        *)
(*   - completion when every worker is idle and the queue is empty;        *)
(*   - the first handler error cancels the walk: no further job is taken, *)
(*     the handlers already running observe the cancellation at their next *)
(*     I/O call and return, and Walk then returns the error with the state  *)
(*     accumulated so far ("in-flight handlers observe cancellation and    *)
(*     must return promptly"); the remaining jobs are abandoned.           *)
(* The handler itself is written by the module that extends this one: it   *)
(* moves a worker from HandlerEntry through its own program counter values *)
(* and back to Idle with ReturnNil, or ends the walk with ReturnErr.       *)
(***************************************************************************)
EXTENDS Naturals, Sequences, FiniteSets

CONSTANTS
  Workers,   \* worker goroutines of the pool; a single one is serial mode, and
             \* WithConcurrency(n) asks for n of them, n any int (none if n <= 0)
  MaxQueue,  \* bound on the length of the work queue (the real one is unbounded)
  NoJob      \* what a worker holds when it holds no job

ASSUME IsFiniteSet(Workers)
ASSUME MaxQueue \in Nat \ {0}

VARIABLES
  queue,     \* the work queue: a sequence of jobs
  wpc,       \* wpc[w]: where worker w is; Idle or a handler location
  wjob,      \* wjob[w]: the job worker w is running
  status     \* "running", "cancelling" (an error occurred, handlers still
             \* running), "done" (quiescent) or "failed" (the error returned)

walkerVars == <<queue, wpc, wjob, status>>

Idle == "idle"
HandlerEntry == "dedup"
WalkStatus == {"running", "cancelling", "done", "failed"}

WalkerInit(initialJobs) ==
  /\ queue = initialJobs
  /\ wpc = [w \in Workers |-> Idle]
  /\ wjob = [w \in Workers |-> NoJob]
  /\ status = "running"

Running == status = "running"
Cancelling == status = "cancelling"

(* The walk's context is cancelled: an error occurred. *)
Cancelled == status \in {"cancelling", "failed"}

(* Seeded fault: a worker only receives a job while another one waits    *)
(* behind it (off by one in the queue check).                              *)
TakeOffByOne(w) ==
  /\ Running
  /\ wpc[w] = Idle
  /\ Len(queue) > 1
  /\ wjob' = [wjob EXCEPT ![w] = Head(queue)]
  /\ queue' = Tail(queue)
  /\ wpc' = [wpc EXCEPT ![w] = HandlerEntry]
  /\ UNCHANGED status

(* An idle worker receives the job at the head of the queue. *)
Take(w) ==
  /\ Running
  /\ wpc[w] = Idle
  /\ queue # << >>
  /\ wjob' = [wjob EXCEPT ![w] = Head(queue)]
  /\ queue' = Tail(queue)
  /\ wpc' = [wpc EXCEPT ![w] = HandlerEntry]
  /\ UNCHANGED status

(* spawn: append jobs to the queue (non-blocking). *)
Spawn(jobs) ==
  /\ Len(queue) + Len(jobs) <= MaxQueue
  /\ queue' = queue \o jobs

(* The handler of worker w returns nil: the worker becomes idle. *)
ReturnNil(w) ==
  /\ wpc' = [wpc EXCEPT ![w] = Idle]
  /\ wjob' = [wjob EXCEPT ![w] = NoJob]

(* The handler of worker w returns an error: the walk is cancelled (the   *)
(* first error is the one Walk returns) and the worker stops.              *)
ReturnErr(w) ==
  /\ status' = IF Running THEN "cancelling" ELSE status
  /\ wpc' = [wpc EXCEPT ![w] = Idle]
  /\ wjob' = [wjob EXCEPT ![w] = NoJob]
  /\ UNCHANGED queue

(* Seeded fault: Walk returns on the first error without waiting for the  *)
(* handlers still running.                                                  *)
ReturnCancelledEarly ==
  /\ Cancelling
  /\ status' = "failed"
  /\ UNCHANGED <<queue, wpc, wjob>>

(* Every handler has returned: Walk returns the first error and the       *)
(* partial state.                                                          *)
ReturnCancelled ==
  /\ Cancelling
  /\ \A w \in Workers : wpc[w] = Idle
  /\ status' = "failed"
  /\ UNCHANGED <<queue, wpc, wjob>>

Quiescent == queue = << >> /\ \A w \in Workers : wpc[w] = Idle

(* Seeded fault: completion is signalled as soon as the queue is empty,  *)
(* while a worker may still be running a handler that will spawn.          *)
FinishQueueEmpty ==
  /\ Running
  /\ queue = << >>
  /\ status' = "done"
  /\ UNCHANGED <<queue, wpc, wjob>>

(* Completion: all workers idle and the queue drained. *)
Finish ==
  /\ Running
  /\ Quiescent
  /\ status' = "done"
  /\ UNCHANGED <<queue, wpc, wjob>>

=============================================================================
