------------------------------ MODULE JsonRpc ------------------------------
(***************************************************************************)
(* How the server reads one JSON-RPC request: the pattern matching of      *)
(* src/src/rpc/json.c, the parameter extraction and the method table of    *)
(* src/src/rpc/handlers.c.                                                 *)
(*                                                                         *)
(* A text is a sequence of tokens: punctuation, "sp" (blank, tab), "nl"    *)
(* (line end), strings with their length, numbers with their digits, and   *)
(* words (null, true, false).  "open" is a string whose closing quote is   *)
(* cut off.  Strings hold no quote, backslash, bracket or brace, so that   *)
(* what strstr finds and what a scan for a bracket stops at are tokens.    *)
(* The end of the text, the terminating zero, is the token Nul.            *)
(***************************************************************************)
EXTENDS Integers, Sequences, SequencesExt

P(c) == [k |-> c, v |-> "", len |-> 1]
Str(v, n) == [k |-> "str", v |-> v, len |-> n]
Num(v, n) == [k |-> "num", v |-> v, len |-> n]
Nul == [k |-> "nul", v |-> "", len |-> 0]
Empty == Str("", 0)

Blank == {"sp"}
Space == {"sp", "nl"}
Quoted == {"str", "open"}

At(text, p) == IF p \in DOMAIN text THEN text[p] ELSE Nul

\* Where a loop from p on stops: at the first of the hits, or at the end.
FirstOf(hits, text, p) ==
  IF hits # {} THEN Min(hits) ELSE IF p > Len(text) THEN p ELSE Len(text) + 1
SkipAll(text, p, kinds) ==
  FirstOf({q \in p .. Len(text) : text[q].k \notin kinds}, text, p)
SkipTo(text, p, kinds) ==
  FirstOf({q \in p .. Len(text) : text[q].k \in kinds}, text, p)

\* The variable depth behind the token at q when counting begins at p.
Depth(text, p, q) ==
  Cardinality({i \in p .. q : text[i].k = "{"}) - Cardinality({i \in p .. q : text[i].k = "}"})

\* The position behind the } that closes the { at p, or the end.
PastObject(text, p) ==
  LET closing == {q \in p .. Len(text) : text[q].k = "}" /\ Depth(text, p, q) = 0}
  IN IF closing = {} THEN Len(text) + 1 ELSE Min(closing) + 1

\* A token copied into a buffer that takes n characters.
Cut(s, n) == IF s.len <= n THEN [s EXCEPT !.k = "str"] ELSE Str("cut", n)

----------------------------------------------------------------------------
\* strstr for the quoted key, from position p on, then blanks and colons are
\* skipped: the position of the value, or 0.  A line end is not skipped.
find_value(text, p, key) ==
  LET hits == {q \in p .. Len(text) : text[q].k = "str" /\ text[q].v = key}
  IN IF hits = {} THEN 0 ELSE SkipAll(text, Min(hits) + 1, Blank \cup {":"})

\* The first member called key wins, at any depth.
json_extract_string(text, key, n) ==
  LET p == find_value(text, 1, key)
  IN IF p # 0 /\ At(text, p).k \in Quoted THEN Cut(text[p], n) ELSE Empty

json_extract_id_number_only(text) ==
  LET p == find_value(text, 1, "id")
  IN CASE p = 0 -> Num("1", 1)
       [] At(text, p).k = "num" -> text[p]
       [] OTHER -> Empty

\* A string id keeps its quotes in a buffer of 32 characters; a number its
\* digits; of anything else nothing is left.
json_extract_id(text) ==
  LET p == find_value(text, 1, "id")
  IN CASE p = 0 -> Num("1", 1)
       [] At(text, p).k \in Quoted -> Cut(text[p], 29)
       [] At(text, p).k = "num" -> IF text[p].len <= 31 THEN text[p] ELSE Num("cut", 31)
       [] OTHER -> Empty

\* Where the elements of the params array start, or 0.
find_params_array(text) ==
  LET p == find_value(text, 1, "params")
  IN IF p # 0 /\ At(text, p).k = "[" THEN p + 1 ELSE 0

\* One element as a string: an object is a fixed text, null and the like are
\* empty, and a string above 255 characters is cut, what is left of it being
\* taken for one more element.
next_param(text, before) ==
  LET q == SkipAll(text, before.pos, Space \cup {","})
      t == At(text, q)
      next == SkipTo(text, q, {",", "]"})
      Param(params, pos) == [params |-> before.params \o params, pos |-> pos]
  IN IF At(text, before.pos).k \in {"nul", "]"} \/ t.k = "]" THEN before
     ELSE CASE t.k \in Quoted /\ t.len <= 255 -> Param(<<Cut(t, 255)>>, q + 1)
            [] t.k \in Quoted /\ t.len > 255 -> Param(<<Cut(t, 255), Empty>>, next)
            [] t.k = "{" -> Param(<<Str("{object}", 8)>>, PastObject(text, q))
            [] t.k = "num" -> Param(<<Cut(t, 255)>>, next)
            [] OTHER -> Param(<<Empty>>, next)

evmdb_json_parse_params(text, max_params) ==
  LET start == find_params_array(text)
      parsed[i \in 0 .. max_params] ==
        IF i = 0 THEN [params |-> <<>>, pos |-> start]
        ELSE LET before == parsed[i - 1] IN next_param(text, before)
      all == parsed[max_params].params
  IN IF start = 0 THEN <<>>
     ELSE SubSeq(all, 1, IF Len(all) < max_params THEN Len(all) ELSE max_params)

\* The string at p, which must be closed, or Nul; the memory for its copy is in
\* dispatch_single.
extract_quoted_string(text, p) == IF At(text, p).k = "str" THEN text[p] ELSE Nul

extract_first_param_string(text) ==
  LET p == find_params_array(text)
  IN IF p = 0 THEN Nul
     ELSE extract_quoted_string(text, SkipAll(text, p, Space \cup {","}))

\* The first member called key behind the start of the params.
extract_param_field_string(text, key) ==
  LET p == find_params_array(text)
      q == find_value(text, p, key)
  IN IF p = 0 \/ q = 0 THEN Nul ELSE extract_quoted_string(text, q)

\* evmdb_hex_decode of a 0x string: how many bytes it gives, or -1.
byte_len(s, out_len) ==
  IF s.len < 2 THEN IF s.len = 0 THEN 0 ELSE -1
  ELSE IF s.len % 2 # 0 \/ (s.len - 2) \div 2 > out_len THEN -1
  ELSE (s.len - 2) \div 2

----------------------------------------------------------------------------
(* The method table and what each handler takes from the request.          *)

\* The methods whose handler reads parameters or Redis; the others of the
\* table answer a constant.
Handlers ==
  [eth_blockNumber |-> "handle_block_number",
   eth_getBalance |-> "handle_get_balance",
   eth_getTransactionCount |-> "handle_get_transaction_count",
   eth_getCode |-> "handle_get_code",
   eth_sendRawTransaction |-> "handle_send_raw_transaction",
   eth_call |-> "handle_call",
   eth_estimateGas |-> "handle_estimate_gas",
   eth_getBlockByNumber |-> "handle_get_block_by_number",
   eth_getBlockByHash |-> "handle_get_block_by_number",
   eth_getTransactionReceipt |-> "handle_get_transaction_receipt",
   eth_feeHistory |-> "handle_fee_history",
   eth_getStorageAt |-> "handle_get_storage_at"]

Constants ==
  {"eth_chainId", "eth_gasPrice", "net_version", "web3_clientVersion",
   "eth_getTransactionByHash", "eth_getLogs", "eth_maxPriorityFeePerGas",
   "eth_accounts", "eth_syncing", "eth_mining", "eth_hashrate",
   "eth_getBlockTransactionCountByNumber", "eth_protocolVersion"}

\* The positional parameters of a handler: their widths in bytes.
Widths ==
  [handle_get_balance |-> <<20>>, handle_get_transaction_count |-> <<20>>,
   handle_get_code |-> <<20>>, handle_get_storage_at |-> <<20, 32>>,
   handle_get_transaction_receipt |-> <<32>>]

Call(handler, args) == [handler |-> handler, args |-> args]
Error == Call("make_error", <<>>)

positional(handler, params) ==
  LET w == Widths[handler]
  IN IF /\ Len(params) >= Len(w)
        /\ \A i \in DOMAIN w : byte_len(params[i], w[i]) = w[i]
     THEN Call(handler, SubSeq(params, 1, Len(w))) ELSE Error

\* decode_hex_bytes takes a text of fewer than two characters as no data.
call_fields(f) ==
  IF /\ byte_len(f["to"], 20) = 20
     /\ f["from"] # Nul => byte_len(f["from"], 20) = 20
     /\ f["data"].len < 2 \/ byte_len(f["data"], f["data"].len) # -1
  THEN Call("handle_call", <<f["to"], f["from"], f["data"], f["gas"]>>)
  ELSE Error

estimate_fields(f) ==
  IF f["data"] # Nul /\ byte_len(f["data"], f["data"].len) = -1 THEN Error
  ELSE Call("handle_estimate_gas", <<f["data"]>>)

raw_transaction(raw) ==
  IF byte_len(raw, raw.len) <= 0 THEN Error
  ELSE Call("handle_send_raw_transaction", <<raw>>)

Fields == {"to", "from", "data", "gas"}

HandlerOf(method) == IF method \in DOMAIN Handlers THEN Handlers[method] ELSE "none"

\* What the handler of a method does with what was extracted: the first
\* parameter, the named fields, the parameters.
handle(method, first, f, params) ==
  LET handler == HandlerOf(method)
  IN CASE handler = "handle_send_raw_transaction" -> raw_transaction(first)
       [] handler = "handle_call" -> call_fields(f)
       [] handler = "handle_estimate_gas" -> estimate_fields(f)
       [] handler \in DOMAIN Widths -> positional(handler, params)
       [] handler \notin DOMAIN Widths \cup {"none", "handle_send_raw_transaction",
                            "handle_call", "handle_estimate_gas"} -> Call(handler, <<>>)
       [] handler = "none" /\ method \in Constants -> Call("make_response", <<>>)
       [] OTHER -> Error

\* What a handler allocates before it acts: copies of the first parameter or of
\* fields, and the bytes it decodes one of them to.
Allocations ==
  [handle_send_raw_transaction |-> {"first", "bytes"},
   handle_call |-> Fields \cup {"bytes"},
   handle_estimate_gas |-> {"data", "bytes"}]

\* Without memory for the bytes the handler answers an error.
decoded(call, lost) ==
  LET data == CASE call.handler = "handle_call" -> call.args[3]
                [] call.handler \in {"handle_send_raw_transaction", "handle_estimate_gas"} ->
                     call.args[1]
                [] OTHER -> Nul
  IN IF "bytes" \in lost /\ data.len > 1 THEN Error ELSE call

\* What a request may make the server do, and the id of the answer: one outcome
\* for each set of allocations that fail, none of them unless oom.  A string
\* that cannot be copied is taken for one that is not there.
dispatch_single(text, oom) ==
  LET method == json_extract_string(text, "method", 63).v
      first == extract_first_param_string(text)
      f == [key \in Fields |-> extract_param_field_string(text, key)]
      params == evmdb_json_parse_params(text, 8)
      id == json_extract_id(text)
      losses == IF oom /\ HandlerOf(method) \in DOMAIN Allocations
                THEN SUBSET Allocations[HandlerOf(method)] ELSE {{}}
      copied(s, name, lost) == IF name \in lost THEN Nul ELSE s
      call(lost) == handle(method, copied(first, "first", lost),
                           [key \in Fields |-> copied(f[key], key, lost)], params)
  IN {[id |-> id, call |-> decoded(call(lost), lost)] : lost \in losses}

=============================================================================
