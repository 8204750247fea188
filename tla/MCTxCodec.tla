----------------------------- MODULE MCTxCodec -----------------------------
(* Wallet transactions at the widths where RLP changes its form. *)
EXTENDS TxCodec

Fill(n, b) == [i \in 1 .. n |-> b]
Full32 == Fill(32, 200)

\* Empty, one byte below and at 128, two lengths of length, all 8 bytes.
Nonces == {<<>>, <<127>>, <<128>>, Fill(8, 255)}
Datas == {<<>>, <<0>>, <<128>>, Fill(55, 3), Fill(56, 3), Fill(256, 3)}
\* No chain id, chain 1 and the default chain of config.c.
Chains == {<<>>, <<1>>, Bytes[100100]}
AccessLists == {<<>>, <<Fill(20, 9)>>, <<Fill(20, 0), Fill(20, 1)>>}

Style(prefix, even, odd) == [prefix |-> prefix, capital |-> (0 :> even @@ 1 :> odd)]
\* 0x and small letters, no prefix and capitals, 0X and both.
MCStyles == {Style(<<48, 120>>, FALSE, FALSE), Style(<<>>, TRUE, TRUE),
             Style(<<48, 88>>, TRUE, FALSE)}
MCSigner == <<0, 10, 171, 205, 239>> \o Fill(15, 190)

MCWalletTxs ==
  {w \in [type : {LEGACY, EIP2930, EIP1559}, chain_id : Chains, nonce : Nonces,
          tip : {<<1>>}, fee : {<<59, 154, 202, 0>>}, gas_limit : {<<82, 8>>},
          to : {<<>>, Fill(19, 0) \o <<5>>}, value : {<<>>, Fill(32, 255)},
          data : Datas, accessList : AccessLists, parity : {0, 1},
          r : {Full32, Fill(31, 200)}, s : {Full32}] :
     /\ w.type = LEGACY => w.accessList = <<>>
     /\ w.type # LEGACY => w.chain_id # <<>>}
=============================================================================
