--------------------------- MODULE MCProviderCache ---------------------------
(***************************************************************************)
(* Two multihashes K1, K2.  IPNI starts with a content-claim record R0 and *)
(* a record RX without content claims for K1, and nothing for K2.  Publish *)
(* P1 publishes R1 for K1 and K2, Publish P2 publishes R2 for K1; Find F1  *)
(* looks up K1 and Find F2 looks up K2, all at once.                       *)
(***************************************************************************)
EXTENDS ProviderCache, TLC

CONSTANTS K1, K2, R0, R1, R2, RX, P1, P2, F1, F2

MCKeys == {K1, K2}
MCRecords == {R0, R1, R2, RX}
MCClaimRecords == {R0, R1, R2}
MCIpniInit == K1 :> {R0, RX} @@ K2 :> {}
MCPubs == P1 :> [keys |-> {K1, K2}, record |-> R1] @@ P2 :> [keys |-> {K1}, record |-> R2]
(* A single Publish, of R1 for K1 and K2. *)
MCOnePub == P1 :> [keys |-> {K1, K2}, record |-> R1]

MCFinds == F1 :> K1 @@ F2 :> K2

=============================================================================
