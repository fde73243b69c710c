----------------------------- MODULE QuerySpec -----------------------------
(***************************************************************************)
(* What IndexingService.Query promises its caller (the doc comment on      *)
(* Query in src/pkg/service/service.go, spec.md 4.5 and 7), with the       *)
(* walker, the jobs and the I/O left out:                                  *)
(*   - the result only grows, by claims and indexes the steps of the query *)
(*     lead to; an index, once in the result, is never replaced;           *)
(*   - the query ends, either completing with every promised claim and     *)
(*     index, or failing with whatever part of them it had gathered;       *)
(*   - after it has ended the result does not change.                      *)
(* QueryEngine implements this specification under a refinement mapping    *)
(* that takes Promised and PromisedIndexes from the backend.               *)
(***************************************************************************)
CONSTANTS
  Promised,         \* the claims the steps of the query lead to
  PromisedIndexes   \* the <<context ID, index>> pairs they lead to

VARIABLES
  claims,   \* the claims of the result
  indexes,  \* the indexes of the result: context ID -> index
  status    \* "running", "done" or "failed"

vars == <<claims, indexes, status>>

Init ==
  /\ claims = {}
  /\ indexes = [c \in {} |-> {}]
  /\ status = "running"

(* The claims after a step extend those before, with promised claims. *)
ClaimsGrow ==
  /\ claims' \in SUBSET Promised
  /\ claims \subseteq claims'

(* The indexes after a step extend those before, with promised indexes. *)
IndexesGrow ==
  /\ DOMAIN indexes \subseteq DOMAIN indexes'
  /\ \A c \in DOMAIN indexes : indexes'[c] = indexes[c]
  /\ \A c \in DOMAIN indexes' : <<c, indexes'[c]>> \in PromisedIndexes

(* Steps of the query gather part of the result. *)
Gather ==
  /\ status = "running"
  /\ ClaimsGrow
  /\ IndexesGrow
  /\ UNCHANGED status

(* The query fails: the error is returned with the partial result, which *)
(* may include the claim whose follow-up call failed.                     *)
Fail ==
  /\ status = "running"
  /\ ClaimsGrow
  /\ UNCHANGED indexes
  /\ status' = "failed"

(* The query completes: the result holds everything promised. *)
Complete ==
  /\ status = "running"
  /\ Promised \subseteq claims
  /\ \A ci \in PromisedIndexes : ci[1] \in DOMAIN indexes /\ indexes[ci[1]] = ci[2]
  /\ status' = "done"
  /\ UNCHANGED <<claims, indexes>>

Next == Gather \/ Fail \/ Complete

(* A query always returns: while it runs, it eventually fails or completes. *)
Spec == Init /\ [][Next]_vars /\ WF_vars(Fail \/ Complete)

=============================================================================
