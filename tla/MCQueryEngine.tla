--------------------------- MODULE MCQueryEngine ---------------------------
(***************************************************************************)
(* A backend for QueryEngine that combines the scenarios of spec.md 8:     *)
(*  - H1 has a record listing its location commitment (C1) with an equals *)
(*    claim H1 = H2 (C2), and an index claim (C3) pointing at the index    *)
(*    blob HI;                                                             *)
(*  - the equals claim is also published under H2, with H1 as context ID   *)
(*    (the publisher's convention), in a record that also lists H2's       *)
(*    location commitment C4; and an index claim C9 for H2 points at the   *)
(*    same index blob HI, so HI is located twice and the second lookup can *)
(*    hit the index cache;                                                 *)
(*  - HI is located by C5 (no shard: the blob is HI itself), in a result   *)
(*    that also lists a non-claim protocol; its index holds H1 in shards   *)
(*    S1 and S3 and H2 in shards S2 and S3;                                *)
(*  - S1, S2 and S3 have location commitments C6, C7 and C8.               *)
(* Querying H1, H2, H1 exercises dedup, equals from both sides, the index  *)
(* path, and a shard (S2) that must not be visited for H1.  The job graph  *)
(* has a cycle: a location job for H2 finds the record listing C4 and C2,  *)
(* follows the equals claim (the handler acts on every protocol of the     *)
(* record) and spawns a location job for H1, whose record lists C1 and C2  *)
(* and spawns a location job for H2 again; only dedup ends it.             *)
(***************************************************************************)
EXTENDS QueryEngine

CONSTANTS H1, H2, HI, S1, S2, S3, C1, C2, C3, C4, C5, C6, C7, C8, C9, Sp1, w1, w2

Loc(c, shard) == [type |-> "location", claim |-> c, shard |-> shard]
Eq(c, content, equals) == [type |-> "equals", claim |-> c, equals |-> equals, content |-> content]
Idx(c, blob) == [type |-> "index", claim |-> c, index |-> blob]
Other == [type |-> "other"]
Rec(ctx, blocks) == [ctx |-> ctx, blocks |-> blocks]

MCMultihashes == {H1, H2, HI, S1, S2, S3}
MCClaimCids == {C1, C2, C3, C4, C5, C6, C7, C8, C9}

(* Records published without a space: the context ID is the content hash. *)
MCRecords ==
  [h \in MCMultihashes |->
     CASE h = H1 -> << Rec(H1, <<Loc(C1, None), Eq(C2, H1, H2)>>), Rec(H1, <<Idx(C3, HI)>>) >>
       [] h = H2 -> << Rec(H1, <<Eq(C2, H1, H2), Loc(C4, None)>>), Rec(H2, <<Idx(C9, HI)>>) >>
       [] h = HI -> << Rec(HI, <<Loc(C5, None), Other>>) >>
       [] h = S1 -> << Rec(S1, <<Loc(C6, None)>>) >>
       [] h = S2 -> << Rec(S2, <<Loc(C7, None)>>) >>
       [] h = S3 -> << Rec(S3, <<Loc(C8, None)>>) >>]

(* Records published in space Sp1: the context ID is H(Sp1, h). *)
MCSpaceRecords ==
  [h \in MCMultihashes |->
     CASE h = H1 -> << Rec(EncodedContextID(Sp1, H1), <<Loc(C1, None)>>),
                       Rec(EncodedContextID(Sp1, H1), <<Eq(C2, H1, H2)>>) >>
       [] h = H2 -> << Rec(EncodedContextID(Sp1, H2), <<Eq(C2, H1, H2)>>),
                       Rec(EncodedContextID(Sp1, H2), <<Loc(C4, None)>>) >>
       [] OTHER -> << >>]

(* A record for H2 that lists a location commitment and an index claim   *)
(* (C9) together: the location job spawned from the equals claim finds it. *)
MCMixedRecords ==
  [MCRecords EXCEPT ![H2] = << Rec(H2, <<Loc(C4, None), Idx(C9, HI)>>) >>]

(* The backend without C9, for the runs with two workers: HI is located   *)
(* once, which keeps the interleavings of the other paths within reach.  *)
MCParallelRecords ==
  [MCRecords EXCEPT ![H2] = << Rec(H1, <<Eq(C2, H1, H2), Loc(C4, None)>>) >>]

MCBlobs == HI :> (S1 :> {H1} @@ S2 :> {H2} @@ S3 :> {H1, H2})

MCQueryHashes == <<H1, H2, H1>>
MCSpaceQueryHashes == <<H2>>
MCKindQueryHashes == <<H1>>

=============================================================================
