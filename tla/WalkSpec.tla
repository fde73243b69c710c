------------------------------ MODULE WalkSpec ------------------------------
(***************************************************************************)
(* What JobWalker.Walk promises its caller (spec.md 4.1 and 5), with the   *)
(* queue, the workers and the scheduling left out.  The walk keeps a bag   *)
(* of outstanding jobs: the initial ones, and every job a handled job      *)
(* spawns.                                                                 *)
(*   - a job is handled only while it is outstanding, and handling it      *)
(*     replaces it by the jobs it spawns: no job is lost or run twice;     *)
(*   - the walk completes only when nothing is outstanding (quiescence);   *)
(*   - an error cancels the walk: outstanding work may be abandoned, but   *)
(*     Walk returns the error only once no handler is still running;       *)
(*   - the walk returns.                                                   *)
(***************************************************************************)
EXTENDS Bags

CONSTANTS
  InitialJobs,  \* the bag of initial jobs
  Children      \* Children[j]: the bag of jobs the handler of j spawns

VARIABLES
  pending,  \* the bag of outstanding jobs
  status    \* "running", "cancelling", "done" or "failed"

vars == <<pending, status>>

Init ==
  /\ pending = InitialJobs
  /\ status = "running"

Active == status \in {"running", "cancelling"}

(* A job is handled: it leaves the bag and the jobs it spawns enter it. *)
Handle(j) ==
  /\ Active
  /\ BagIn(j, pending)
  /\ pending' = (pending (-) SetToBag({j})) (+) Children[j]
  /\ UNCHANGED status

(* The first error: part of the outstanding work is abandoned. *)
Cancel ==
  /\ status = "running"
  /\ pending' \in SubBag(pending)
  /\ status' = "cancelling"

(* While cancelled, outstanding work may be abandoned. *)
Abandon ==
  /\ status = "cancelling"
  /\ pending' \in SubBag(pending)
  /\ UNCHANGED status

(* Quiescence: Walk returns the accumulated state. *)
Complete ==
  /\ status = "running"
  /\ pending = EmptyBag
  /\ status' = "done"
  /\ UNCHANGED pending

(* Every handler in flight has returned: Walk returns the first error. *)
Return ==
  /\ status = "cancelling"
  /\ pending = EmptyBag
  /\ status' = "failed"
  /\ UNCHANGED pending

Next ==
  \/ \E j \in BagToSet(pending) : Handle(j)
  \/ Cancel \/ Abandon \/ Complete \/ Return

(* The walk does not stop before it has returned. *)
Spec == Init /\ [][Next]_vars /\ WF_vars(Next)

=============================================================================
