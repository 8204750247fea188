----------------------------- MODULE MCReadApi -----------------------------
(* Small instances of ReadApi for TLC. *)
EXTENDS MCTxPipeline, ReadApi

MCWatched == {alice, <<alice, 0>>}
=============================================================================
