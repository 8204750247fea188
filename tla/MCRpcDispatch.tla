--------------------------- MODULE MCRpcDispatch ---------------------------
(* Requests the README and the tests of the repository send, their members  *)
(* in every order, compact or pretty-printed, alone and in batches.         *)
EXTENDS RpcDispatch

Address == Str("0xaddr", 42)
Word32 == Str("0xword", 66)
Data == Str("0xdata", 74)
Latest == Str("latest", 6)
Raw1 == Str("0xraw1", 220)
Raw2 == Str("0xraw2", 600)

Field(name, value) == [name |-> name, value |-> <<value>>]

Request(id, method, params) ==
  [members |-> Names, id |-> id, method |-> method, params |-> params]
Texts(tokens) == [i \in DOMAIN tokens |-> Scalar(tokens[i])]

Ids == {Num("42", 2), Str("id", 29)}

chain == [members |-> {"jsonrpc", "method"}, id |-> Num("1", 1),
          method |-> "eth_chainId", params |-> <<>>]
height == Request(Num("2", 1), "eth_blockNumber", <<>>)
balance(id) == Request(id, "eth_getBalance", Texts(<<Address, Latest>>))
storage == Request(Num("7", 1), "eth_getStorageAt", Texts(<<Address, Word32, Latest>>))
receipt == Request(Str("uuid", 36), "eth_getTransactionReceipt", Texts(<<Word32>>))
raw(id, r) == Request(id, "eth_sendRawTransaction", Texts(<<r>>))
call(id) == Request(id, "eth_call",
  <<Object(<<Field("data", Data), Field("to", Address), Field("gas", Str("0xgas", 6))>>),
    Scalar(Latest)>>)
bare_call == Request(Num("8", 1), "eth_call",
  <<Object(<<Field("to", Address), Field("from", Address)>>)>>)
estimate == Request(Num("9", 1), "eth_estimateGas", <<Object(<<Field("data", Data)>>)>>)
block == Request(Num("3", 1), "eth_getBlockByNumber", Texts(<<Latest, P("word")>>))
logs == Request(Num("4", 1), "eth_getLogs",
  <<Object(<<[name |-> "topics",
              value |-> <<P("["), P("word"), P(","), P("["), Word32, P("]"), P("]")>>]>>)>>)
short == Request(Num("5", 1), "eth_getCode", Texts(<<Str("0xshort", 40)>>))
missing == Request(Num("6", 1), "eth_getStorageAt", Texts(<<Address>>))
unknown == Request(Str("x", 1), "eth_subscribe", Texts(<<Latest>>))
junk == [Request(Num("0", 1), "none", <<>>) EXCEPT !.members = {}]

Singles ==
  {chain, height, storage, receipt, bare_call, estimate, block, logs, short, missing, unknown}
  \cup UNION {{balance(id), raw(id, Raw1), raw(id, Raw2), call(id)} : id \in Ids}
raw1 == raw(Num("42", 2), Raw1)
raw2 == raw(Str("id", 29), Raw2)
Pairs == {<<raw1, raw2>>, <<raw1, raw1>>, <<raw1, call(Num("43", 2))>>,
          <<call(Num("43", 2)), raw1>>, <<junk, raw2>>}

MCBatches == {<<r>> : r \in Singles} \cup Pairs

\* Members in every order without blanks, and pretty-printed.
Ordered(names) ==
  [members \in SUBSET Names |-> SelectSeq(names, LAMBDA name : name \in members)]
Orders == {<<"jsonrpc">> \o o : o \in SetToSeqs({"id", "method", "params"})}
Usual == <<"jsonrpc", "method", "params", "id">>
MCLayouts == {[order |-> Ordered(o), colon |-> <<>>, gap |-> <<>>] : o \in Orders}
  \cup {[order |-> Ordered(Usual), colon |-> <<P("sp")>>, gap |-> <<P("nl"), P("sp")>>]}
=============================================================================
