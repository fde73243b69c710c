---------------------------- MODULE AdvertEntries ----------------------------
(***************************************************************************)
(* Entries of src/pkg/service/providerindex/publisher/store.go: the        *)
(* iterator over the multihashes of an advertisement's entries chain, a    *)
(* linked list of entry chunks read from the datastore.  The iterator is a *)
(* Go range-over-func sequence: it calls yield(mh, nil) for every entry,   *)
(* chunk after chunk, and yield(nil, err) once when a chunk cannot be read *)
(* or decoded; the range loop's body (the consumer) may stop early, which  *)
(* makes yield return false.                                               *)
(*                                                                         *)
(* The datastore is an input: it is chosen in Init among all the stores of *)
(* the MC module and never changes during an iteration.  Each link is      *)
(* bound to a chunk, to Missing (ds.Get fails) or to Corrupt               *)
(* (BytesToEntryChunk fails).                                              *)
(***************************************************************************)
EXTENDS Naturals, Sequences, SequencesExt

CONSTANTS
  Links,       \* links (CIDs) of entry chunks
  Multihashes, \* multihashes listed in entry chunks
  None,        \* the nil link
  Missing,     \* the datastore has no block under the link
  Corrupt,     \* the block under the link is not an entry chunk
  Stores,      \* the datastores to iterate over: [Links -> chunk, Missing or Corrupt]
  MaxYields    \* bound on the yield calls of one iteration

Chunks == [entries : Seq(Multihashes), next : Links \cup {None}]
Err == "err"
(* What one call of yield receives: (mh, nil) or (nil, err). *)
Item(mh) == <<mh, None>>
ErrItem == <<None, Err>>

VARIABLES
  ds,       \* the datastore
  root,     \* the root link Entries was called with
  cur,      \* cur: the link of the chunk to read next
  buf,      \* entries of the current chunk not yet yielded
  pc,       \* "load" (top of the for loop), "yield" (inside it) or "done"
  out,      \* history: the arguments of every yield call, in order
  stopped   \* the consumer has made yield return false

vars == <<ds, root, cur, buf, pc, out, stopped>>

Init ==
  /\ ds \in Stores
  /\ root \in Links
  /\ cur = root
  /\ buf = << >>
  /\ pc = "load"
  /\ out = << >>
  /\ stopped = FALSE

(* cur == nil: the chain is exhausted and the iterator returns. *)
EndOfChain ==
  /\ pc = "load"
  /\ cur = None
  /\ pc' = "done"
  /\ UNCHANGED <<ds, root, cur, buf, out, stopped>>

(* Seeded fault: a failed read returns without reporting the error. *)
ReadFailsSilently ==
  /\ pc = "load"
  /\ cur # None
  /\ ds[cur] \in {Missing, Corrupt}
  /\ pc' = "done"
  /\ UNCHANGED <<ds, root, cur, buf, out, stopped>>

(* ds.Get or BytesToEntryChunk fails: yield(nil, err), then return. *)
ReadFails ==
  /\ pc = "load"
  /\ cur # None
  /\ ds[cur] \in {Missing, Corrupt}
  /\ out' = Append(out, ErrItem)
  /\ stopped' \in BOOLEAN
  /\ pc' = "done"
  /\ UNCHANGED <<ds, root, cur, buf>>

(* The chunk is read and decoded. *)
ReadChunk ==
  /\ pc = "load"
  /\ cur # None
  /\ ds[cur] \in Chunks
  /\ buf' = ds[cur].entries
  /\ pc' = "yield"
  /\ UNCHANGED <<ds, root, cur, out, stopped>>

(* Seeded fault: the result of yield is ignored. *)
YieldEntryIgnoringStop ==
  /\ pc = "yield"
  /\ buf # << >>
  /\ Len(out) < MaxYields
  /\ out' = Append(out, Item(Head(buf)))
  /\ buf' = Tail(buf)
  /\ stopped' \in BOOLEAN
  /\ UNCHANGED <<ds, root, cur, pc>>

(* yield(d, nil) for the next entry; if the consumer stops, return. *)
YieldEntry ==
  /\ pc = "yield"
  /\ buf # << >>
  /\ Len(out) < MaxYields
  /\ out' = Append(out, Item(Head(buf)))
  /\ buf' = Tail(buf)
  /\ \/ stopped' = FALSE /\ UNCHANGED pc
     \/ stopped' = TRUE /\ pc' = "done"
  /\ UNCHANGED <<ds, root, cur>>

(* Seeded fault: the loop does not move on to ent.Next. *)
NextChunkStuck ==
  /\ pc = "yield"
  /\ buf = << >>
  /\ pc' = "load"
  /\ UNCHANGED <<ds, root, cur, buf, out, stopped>>

(* The chunk is exhausted: cur = ent.Next. *)
NextChunk ==
  /\ pc = "yield"
  /\ buf = << >>
  /\ cur' = ds[cur].next
  /\ pc' = "load"
  /\ UNCHANGED <<ds, root, buf, out, stopped>>

Next == EndOfChain \/ ReadFails \/ ReadChunk \/ YieldEntry \/ NextChunk

(* The iterator runs on the consumer's goroutine; nothing else is waited for. *)
Spec == Init /\ [][Next]_vars /\ WF_vars(Next)

-----------------------------------------------------------------------------
(* Properties *)

(* The variables keep their types (holds by construction; not a run property). *)
TypeOK ==
  /\ ds \in Stores
  /\ root \in Links
  /\ cur \in Links \cup {None}
  /\ buf \in Seq(Multihashes)
  /\ pc \in {"load", "yield", "done"}
  /\ out \in Seq((Multihashes \X {None}) \cup {ErrItem})
  /\ stopped \in BOOLEAN

(* Reference: what iterating the chain from link l yields, computed by     *)
(* recursion over the chain (which the MC module keeps acyclic).           *)
RECURSIVE ChainItems(_, _)
ChainItems(store, l) ==
  IF l = None THEN << >>
  ELSE IF store[l] \in {Missing, Corrupt} THEN <<ErrItem>>
  ELSE [i \in DOMAIN store[l].entries |-> Item(store[l].entries[i])] \o ChainItems(store, store[l].next)

(* The entries are yielded in chain order, with the error last if a chunk *)
(* is unreadable; a consumer that never stops receives all of them.        *)
EntriesMatchChain ==
  /\ IsPrefix(out, ChainItems(ds, root))
  /\ (pc = "done" /\ ~stopped) => out = ChainItems(ds, root)

(* Once yield has returned false it is never called again (Go panics if a *)
(* range-over-func iterator continues after its loop body has stopped).   *)
NoYieldAfterStop == [][stopped => UNCHANGED out]_vars

(* Iterating a finite chain returns. *)
Termination == <>(pc = "done")

=============================================================================
