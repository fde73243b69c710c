---------------------------- MODULE GenericWalk ----------------------------
(***************************************************************************)
(* JobWalker driving a handler of the shape spec.md 4.1 allows: given a    *)
(* job, it does I/O, spawns the jobs it finds one at a time between I/O    *)
(* calls, and returns nil, or returns an error from any of its I/O calls   *)
(* (which fail, too, once the walk's context is cancelled).  What a job    *)
(* spawns is a constant; the query handler of QueryEngine is one such      *)
(* handler.                                                                *)
(*                                                                         *)
(* The walker is shown to implement WalkSpec under the mapping that counts *)
(* as outstanding the jobs in the queue (while the walk runs; once it is   *)
(* cancelled they are abandoned), the jobs held by workers that have not   *)
(* started them, and the jobs the started handlers have still to spawn.    *)
(***************************************************************************)
EXTENDS JobWalker, SequencesExt, Bags

CONSTANTS
  JobIds,      \* the jobs
  Spawns,      \* Spawns[j]: the jobs the handler of j spawns, in order
  Initial,     \* the initial jobs, a sequence
  CanFail      \* whether the handler's I/O calls may fail

ASSUME Spawns \in [JobIds -> Seq(JobIds)] /\ Initial \in Seq(JobIds)

VARIABLE spawned   \* spawned[w]: how many jobs the handler of w has spawned

vars == <<walkerVars, spawned>>

Init ==
  /\ WalkerInit(Initial)
  /\ spawned = [w \in Workers |-> 0]

(* The handler starts on its job (dedup, the first I/O call). *)
Begin(w) ==
  /\ wpc[w] = HandlerEntry
  /\ wpc' = [wpc EXCEPT ![w] = "spawning"]
  /\ UNCHANGED <<queue, wjob, status, spawned>>

(* It spawns the next job it has found. *)
SpawnNext(w) ==
  LET s == Spawns[wjob[w]] IN
  /\ wpc[w] = "spawning"
  /\ spawned[w] < Len(s)
  /\ Spawn(<<s[spawned[w] + 1]>>)
  /\ spawned' = [spawned EXCEPT ![w] = @ + 1]
  /\ UNCHANGED <<wpc, wjob, status>>

(* An I/O call between two spawns fails, or observes the cancellation. *)
Fails(w) ==
  /\ wpc[w] = "spawning"
  /\ CanFail \/ Cancelled
  /\ ReturnErr(w)
  /\ spawned' = [spawned EXCEPT ![w] = 0]

(* Everything spawned: the handler returns nil. *)
Returns(w) ==
  /\ wpc[w] = "spawning"
  /\ spawned[w] = Len(Spawns[wjob[w]])
  /\ ReturnNil(w)
  /\ spawned' = [spawned EXCEPT ![w] = 0]
  /\ UNCHANGED <<queue, status>>

Worker(w) ==
  \/ Take(w) /\ UNCHANGED spawned
  \/ Begin(w) \/ SpawnNext(w) \/ Fails(w) \/ Returns(w)

Next ==
  \/ \E w \in Workers : Worker(w)
  \/ (Finish \/ ReturnCancelled) /\ UNCHANGED spawned

Spec ==
  /\ Init /\ [][Next]_vars
  /\ \A w \in Workers : WF_vars(Worker(w))
  /\ WF_vars(Finish /\ UNCHANGED spawned)
  /\ WF_vars(ReturnCancelled /\ UNCHANGED spawned)

-----------------------------------------------------------------------------
(* The refinement mapping *)

(* The bag of the elements of a sequence. *)
SeqBag(s) == [x \in ToSet(s) |-> Cardinality({i \in DOMAIN s : s[i] = x})]

(* What worker w has still to do of the job it holds. *)
Remaining(w) ==
  CASE wpc[w] = HandlerEntry -> <<wjob[w]>>
    [] wpc[w] = "spawning" -> SubSeq(Spawns[wjob[w]], spawned[w] + 1, Len(Spawns[wjob[w]]))
    [] OTHER -> << >>

Outstanding ==
  FoldFunctionOnSet(LAMBDA a, b : a (+) b, IF Running THEN SeqBag(queue) ELSE EmptyBag,
                    [w \in Workers |-> SeqBag(Remaining(w))], Workers)

(* The walker implements WalkSpec: no job is lost or run twice while the  *)
(* walk runs, completion is signalled only at quiescence, the first error  *)
(* is returned only once the handlers in flight have returned, and the     *)
(* walk always returns.                                                    *)
W == INSTANCE WalkSpec WITH InitialJobs <- SeqBag(Initial),
                            Children <- [j \in JobIds |-> SeqBag(Spawns[j])],
                            pending <- Outstanding, status <- status

WalkSpecRefined == W!Spec

=============================================================================
