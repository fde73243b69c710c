-------------------------- MODULE MCAdvertEntries --------------------------
(***************************************************************************)
(* Every datastore over three links and two multihashes in which a link's *)
(* chunk lists up to two entries and points only to a later link: chains   *)
(* of one to three chunks, empty chunks, repeated entries, and a missing   *)
(* or corrupt block at any position.  Links of an entries chain are CIDs   *)
(* of their chunks, which include the next link, so a chain has no cycle.  *)
(***************************************************************************)
EXTENDS AdvertEntries

CONSTANTS M1, M2

MCLinks == 1..3
MCMultihashes == {M1, M2}

ChunksAt(l) ==
  [entries : BoundedSeq(MCMultihashes, 2), next : (l+1..3) \cup {None}] \cup {Missing, Corrupt}

MCStores == {st \in [MCLinks -> UNION {ChunksAt(l) : l \in MCLinks}] : \A l \in MCLinks : st[l] \in ChunksAt(l)}

=============================================================================
