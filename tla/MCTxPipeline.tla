---------------------------- MODULE MCTxPipeline ----------------------------
(* Small instances of TxPipeline for TLC. *)
EXTENDS TxPipeline, TLC

CONSTANTS alice, bob, h1, h2, h3, h4, h5, h6, h7, t1, t2

\* Addresses of the contracts alice and bob create are pairs.
MCCreateAddress(a, n) == <<a, n>>
MCAddr == {alice, bob} \cup ({alice, bob} \X {0, 1})
MCCallTargets == {<<alice, 0>>, None}
Sym == Permutations(Threads)

Common == [valid |-> TRUE, chain_id |-> 1, from |-> alice, nonce |-> 0,
           to |-> None, data |-> <<0, 7>>, gas_limit |-> 21020]

\* alice creates a contract (two rival creations with different code), then
\* calls it with her second nonce; bob calls it.  Three more are refused: one
\* does not decode, one is for another chain, one cannot pay for its data.
AllTxs ==
  h1 :> Common
  @@ h2 :> [Common EXCEPT !.data = <<7>>, !.chain_id = 0]
  @@ h3 :> [Common EXCEPT !.nonce = 1, !.to = <<alice, 0>>]
  @@ h4 :> [Common EXCEPT !.from = bob, !.to = <<alice, 0>>]
  @@ h5 :> [Common EXCEPT !.valid = FALSE]
  @@ h6 :> [Common EXCEPT !.chain_id = 2]
  @@ h7 :> [Common EXCEPT !.from = bob, !.gas_limit = 21019]
Txs == [h \in Hashes |-> AllTxs[h]]
=============================================================================
