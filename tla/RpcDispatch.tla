---------------------------- MODULE RpcDispatch ----------------------------
(***************************************************************************)
(* evmdb_rpc_handle_request (src/src/rpc/handlers.c): one request, or a    *)
(* batch whose objects are dispatched one after the other, their answers   *)
(* collected in a buffer that is doubled when they do not fit.  Every      *)
(* allocation may fail; what has been dispatched by then stays done.       *)
(*                                                                         *)
(* The text is what handle_client hands over: all of what the client sent  *)
(* or, when a read came up short (see RpcServer), the part before a cut.   *)
(* What dispatch_single makes of a text is in JsonRpc and what the handler *)
(* then does in TxPipeline and ReadApi; here a call is kept as its text.   *)
(***************************************************************************)
EXTENDS JsonRpc

CONSTANTS
  Batches,     \* what clients send as one text: sequences of requests
  Layouts,     \* how clients order members and set blanks
  AnswerLens   \* lengths an answer may have

ASSUME DispatchAssumption == AnswerLens \subseteq Nat

VARIABLES
  sent,        \* what the client meant: [batch, requests, whole]
  text,        \* what the server was handed
  oom,         \* allocations may fail in this behaviour
  pc,          \* "start", "loop", "append" or "done"
  p,           \* the read position in the text
  buf_cap, buf_len,
  single_resp, \* the answer to append: the text it is for, its length
  ran,         \* history: the texts handed to dispatch_single
  answers,     \* the answers in the response: the texts they are for
  response     \* "none" so far, "null", or "sent"

vars == <<sent, text, oom, pc, p, buf_cap, buf_len, single_resp, ran, answers,
          response>>

----------------------------------------------------------------------------
(* The client.                                                             *)
(*                                                                         *)
(* A request is [members, id, method, params]: the members its object has, *)
(* and their values.  A parameter is a token or an object with fields, each*)
(* a name and the tokens of its value.  A request without members stands   *)
(* for an element of a batch that is no object: a lone token.              *)

Names == {"jsonrpc", "id", "method", "params"}

Scalar(t) == [token |-> t, fields |-> <<>>]
Object(fields) == [token |-> Nul, fields |-> fields]

\* Items between brackets or braces, with commas and blanks.
Enclosed(opening, items, closing, layout) ==
  <<P(opening)>>
  \o FlattenSeq([i \in DOMAIN items |->
       (IF i > 1 THEN <<P(",")>> ELSE <<>>) \o layout.gap \o items[i]])
  \o layout.gap \o <<P(closing)>>

Member(name, value, layout) == <<Str(name, 0), P(":")>> \o layout.colon \o value

RenderParam(e, layout) ==
  IF e.token # Nul THEN <<e.token>>
  ELSE Enclosed("{", [i \in DOMAIN e.fields |->
                        Member(e.fields[i].name, e.fields[i].value, layout)], "}", layout)

Value(r, name, layout) ==
  CASE name = "jsonrpc" -> <<Str("2.0", 3)>>
    [] name = "id" -> <<r.id>>
    [] name = "method" -> <<Str(r.method, 20)>>
    [] name = "params" ->
         Enclosed("[", [i \in DOMAIN r.params |-> RenderParam(r.params[i], layout)], "]", layout)

Render(r, layout) ==
  LET order == layout.order[r.members]
  IN IF r.members = {} THEN <<r.id>>
     ELSE Enclosed("{", [i \in DOMAIN order |->
                           Member(order[i], Value(r, order[i], layout), layout)], "}", layout)

RenderBatch(rs, layout) ==
  Enclosed("[", [i \in DOMAIN rs |-> Render(rs[i], layout)], "]", layout)

\* The first n tokens; of a string at the end all, all but the closing quote,
\* or less may be there.
Truncated(full, n) ==
  LET begun(v) == [k |-> "open", v |-> v, len |-> 3]
      first == SubSeq(full, 1, n)
  IN {first} \cup {[first EXCEPT ![n] = begun(v)] :
                     v \in IF full[n].k = "str" THEN {full[n].v, "cut"} ELSE {}}

\* What the client wants to happen, told from the parts of its request less the
\* fields in lost.
Meaning(r, lost) ==
  LET params == IF "params" \in r.members THEN r.params ELSE <<>>
      arg(i) == IF i \in DOMAIN params /\ params[i].token.k = "str"
                THEN params[i].token ELSE Nul
      given == {x \in UNION {Range(params[i].fields) : i \in DOMAIN params} :
                  x.name \notin lost}
      field(name) == LET texts == {x \in given : x.name = name /\ x.value[1].k = "str"}
                     IN IF texts = {} THEN Nul ELSE (CHOOSE x \in texts : TRUE).value[1]
  IN handle(IF "method" \in r.members THEN r.method ELSE "", arg(1),
            [name \in Fields |-> field(name)], [i \in DOMAIN params |-> arg(i)])

Meant(r, lost) ==
  [id |-> IF "id" \in r.members THEN r.id ELSE Num("1", 1), call |-> Meaning(r, lost)]

----------------------------------------------------------------------------
(* What is assumed of clients: JSON as the libraries of this server's      *)
(* clients write it.  The server takes the first string that reads like a  *)
(* name for that name, so no value reads like one.                         *)

Blanks == {P("sp"), P("nl")}
Token == [k : {"[", "]", "{", "}", ",", ":", "sp", "nl", "str", "num", "word"},
          v : STRING, len : Nat]

Strings(tokens) == {tokens[q].v : q \in {x \in DOMAIN tokens : tokens[x].k = "str"}}

Balanced(tokens) ==
  /\ \A q \in DOMAIN tokens : Depth(tokens, 1, q) >= 0
  /\ Depth(tokens, 1, Len(tokens)) = 0

IsField(f) ==
  /\ f.name \in STRING \ Names
  /\ f.value \in Seq(Token) \ {<<>>} /\ f.value[1].k \notin {"sp", ":"}
  /\ Balanced(f.value) /\ Strings(f.value) \cap (Names \cup Fields) = {}

IsSeq(s) == Len(s) \in Nat /\ s = [i \in 1 .. Len(s) |-> s[i]]

IsParam(e) ==
  \/ /\ e.token \in Token /\ e.token.k \in {"str", "num", "word"} /\ e.fields = <<>>
     /\ Strings(<<e.token>>) \cap (Names \cup Fields) = {}
     /\ e.token.k = "num" => e.token.len <= 31
  \/ /\ e.token = Nul /\ IsSeq(e.fields)
     /\ \A i \in DOMAIN e.fields : IsField(e.fields[i])

\* Among the parameters no field is named twice; a parameter that a handler
\* takes by its position is at most 255 characters long.
AreParams(params, method) ==
  /\ IsSeq(params)
  /\ \A i \in DOMAIN params : IsParam(params[i])
  /\ \A i, j \in DOMAIN params :
       \A x \in DOMAIN params[i].fields, y \in DOMAIN params[j].fields :
         params[i].fields[x].name = params[j].fields[y].name => i = j /\ x = y
  /\ method \in DOMAIN Handlers /\ Handlers[method] \in DOMAIN Widths =>
       \A i \in DOMAIN params : params[i].token.len <= 255

IsRequest(r) ==
  /\ r.members \subseteq Names
  /\ r.id \in Token /\ r.id.k \in {"str", "num"}
  /\ Strings(<<r.id>>) \cap ((Names \cup Fields) \ {"id"}) = {}
  /\ r.id.k = "num" => r.id.len <= 31
  /\ r.method \in STRING \ (Names \cup Fields)
  /\ AreParams(r.params, r.method)

\* Between a colon and the value there is no line end.
IsLayout(layout) ==
  /\ layout.gap \in Seq(Blanks) /\ layout.colon \in Seq({P("sp")})
  /\ \A members \in SUBSET Names :
       LET order == layout.order[members]
       IN /\ order \in Seq(members) /\ members = {order[i] : i \in DOMAIN order}
          /\ \A i, j \in DOMAIN order : order[i] = order[j] => i = j

ASSUME RequestAssumption ==
  \A rs \in Batches : IsSeq(rs) /\ \A i \in DOMAIN rs : IsRequest(rs[i])

ASSUME LayoutAssumption == \A layout \in Layouts : IsLayout(layout)

----------------------------------------------------------------------------
NoResp == [item |-> <<>>, len |-> 0]

Init ==
  /\ \E layout \in Layouts, rs \in Batches, batch \in BOOLEAN :
       /\ batch \/ (Len(rs) = 1 /\ rs[1].members # {})
       /\ LET full == IF batch THEN RenderBatch(rs, layout) ELSE Render(rs[1], layout)
          IN \E n \in 1 .. Len(full) :
               /\ text \in Truncated(full, n)
               /\ sent = [batch |-> batch, requests |-> rs, whole |-> text = full]
  /\ oom \in BOOLEAN
  /\ pc = "start" /\ p = 1
  /\ buf_cap = 0 /\ buf_len = 0 /\ single_resp = NoResp
  /\ ran = <<>> /\ answers = <<>> /\ response = "none"

Finish(outcome) == pc' = "done" /\ response' = outcome

\* A text that is not a batch is one request.
handle_single ==
  LET start == SkipAll(text, 1, Space)
  IN /\ pc = "start" /\ At(text, start).k # "["
     /\ ran' = <<SubSeq(text, start, Len(text))>>
     /\ \/ answers' = ran' /\ Finish("sent")
        \/ oom /\ UNCHANGED answers /\ Finish("null")
     /\ UNCHANGED <<sent, text, oom, p, buf_cap, buf_len, single_resp>>

batch_begin ==
  LET start == SkipAll(text, 1, Space)
  IN /\ pc = "start" /\ At(text, start).k = "["
     /\ \/ /\ pc' = "loop" /\ p' = start + 1
           /\ buf_cap' = 4096 /\ buf_len' = 1
           /\ UNCHANGED response
        \/ oom /\ Finish("null") /\ UNCHANGED <<p, buf_cap, buf_len>>
     /\ UNCHANGED <<sent, text, oom, single_resp, ran, answers>>

\* The next token that is neither a blank nor a comma.
Ahead == SkipAll(text, p, Space \cup {","})

batch_other_stays ==
  /\ pc = "loop" /\ At(text, Ahead).k \notin {"{", "]", "nul"}
  /\ p' = Ahead
  /\ UNCHANGED <<sent, text, oom, pc, buf_cap, buf_len, single_resp, ran, answers,
                 response>>

\* Anything but an object is skipped.
batch_other ==
  /\ pc = "loop" /\ At(text, Ahead).k \notin {"{", "]", "nul"}
  /\ p' = Ahead + 1
  /\ UNCHANGED <<sent, text, oom, pc, buf_cap, buf_len, single_resp, ran, answers,
                 response>>

\* The object ahead, from its { to its }.
NextItem == SubSeq(text, Ahead, PastObject(text, Ahead) - 1)

\* dispatch_single has returned an answer of some length to the item.
answered(item) ==
  /\ pc' = "append"
  /\ \E n \in AnswerLens : single_resp' = [item |-> item, len |-> n]

batch_item_retries ==
  /\ pc = "loop" /\ At(text, Ahead).k = "{" /\ Len(ran) < 5
  /\ \E item \in {NextItem} :
       /\ ran' = Append(ran, item)
       /\ \/ p' = Ahead + Len(item) /\ answered(item)
          \/ oom /\ UNCHANGED <<p, pc, single_resp>>
  /\ UNCHANGED <<sent, text, oom, buf_cap, buf_len, answers, response>>

\* An object is copied and dispatched; without memory for the copy it is
\* skipped, without an answer there is nothing to append.
batch_item ==
  /\ pc = "loop" /\ At(text, Ahead).k = "{"
  /\ \E item \in {NextItem} :
       /\ p' = Ahead + Len(item)
       /\ \/ ran' = Append(ran, item) /\ answered(item)
          \/ /\ oom /\ ran' \in {ran, Append(ran, item)}
             /\ UNCHANGED <<pc, single_resp>>
  /\ UNCHANGED <<sent, text, oom, buf_cap, buf_len, answers, response>>

fits_exactly == buf_len + single_resp.len <= buf_cap

\* There is room for the answer, a comma, the closing bracket and the
\* terminating zero.
fits == buf_len + single_resp.len + 4 <= buf_cap

\* One round of the doubling loop.
batch_grow ==
  /\ pc = "append" /\ ~fits
  /\ \/ buf_cap' = 2 * buf_cap /\ UNCHANGED <<pc, response>>
     \/ oom /\ Finish("null") /\ UNCHANGED buf_cap
  /\ UNCHANGED <<sent, text, oom, p, buf_len, single_resp, ran, answers>>

\* A comma unless it is the first, and the answer.
batch_append ==
  /\ pc = "append" /\ fits
  /\ buf_len' = buf_len + single_resp.len + IF answers = <<>> THEN 0 ELSE 1
  /\ answers' = Append(answers, single_resp.item)
  /\ pc' = "loop" /\ single_resp' = NoResp
  /\ UNCHANGED <<sent, text, oom, p, buf_cap, ran, response>>

\* The closing bracket and the terminating zero.
batch_end ==
  /\ pc = "loop" /\ At(text, Ahead).k \in {"]", "nul"}
  /\ buf_len' = buf_len + 1
  /\ Finish("sent")
  /\ UNCHANGED <<sent, text, oom, p, buf_cap, single_resp, ran, answers>>

Next ==
  \/ handle_single
  \/ batch_begin \/ batch_other \/ batch_item \/ batch_grow \/ batch_append \/ batch_end

\* The thread runs on: nothing in this code waits.
Spec == Init /\ [][Next]_vars /\ WF_vars(Next)

----------------------------------------------------------------------------
\* f maps each of the positions in its domain to a request, in order and none
\* twice.
InOrder(f, requests) ==
  /\ \A i \in DOMAIN f : f[i] \in requests
  /\ \A i, j \in DOMAIN f : i < j => f[i] < f[j]

\* No write of evmdb_rpc_handle_request leaves the response buffer: between
\* two objects there is room for the closing bracket and the terminating
\* zero, so the realloc at the end of the batch, whose result nobody checks,
\* is never reached, and what is sent ends in a zero inside the buffer.
WritesStayInside ==
  /\ pc = "loop" => buf_len + 3 <= buf_cap
  /\ pc = "done" /\ response = "sent" /\ buf_cap > 0 => buf_len < buf_cap

\* A client gets what it meant; without memory an error, or what it meant less
\* some of the fields.
Answers(d, r) ==
  \/ \E lost \in IF oom THEN SUBSET Fields ELSE {{}} : d = Meant(r, lost)
  \/ oom /\ d = [Meant(r, {}) EXCEPT !.call = Error]

\* JSON-RPC: every request of a complete text is answered with its own id and
\* with what its method and parameters ask for, in the order of the batch,
\* however the client orders members and sets blanks.  Without memory an
\* answer may be missing or an error, and an eth_call or eth_estimateGas is
\* answered as if it had been asked without the fields that could not be
\* copied; with anything of another request it is not.  (A string id above 29
\* characters comes back cut.)
EachItsOwnAnswer ==
  LET rs == sent.requests
      objects == {i \in DOMAIN rs : rs[i].members # {}}
  IN sent.whole /\ (\A i \in DOMAIN rs : rs[i].id.len <= 29) =>
       \E f \in [DOMAIN answers -> DOMAIN rs] :
         /\ InOrder(f, objects)
         /\ \A i \in DOMAIN answers :
              \A d \in dispatch_single(answers[i], oom) : Answers(d, rs[f[i]])
         /\ pc = "done" /\ ~oom => \A j \in objects : \E i \in DOMAIN answers : f[i] = j

\* The raw transactions handed to the write path are transactions of the
\* client's text, each at most once and in its order, also when the text is
\* cut short at any point or memory runs out in the middle of a batch or of a
\* request.
TransactionsRunOnce ==
  LET rs == sent.requests
      runs == [i \in DOMAIN ran |->
                 {c \in {d.call : d \in dispatch_single(ran[i], oom)} :
                    c.handler = "handle_send_raw_transaction"}]
      raws == {i \in DOMAIN ran : runs[i] # {}}
  IN \E f \in [raws -> DOMAIN rs] :
       InOrder(f, DOMAIN rs) /\ \A i \in raws : runs[i] = {Meaning(rs[f[i]], {})}

\* Every text, complete or cut short, is dealt with: the loop over the objects
\* of a batch and the doubling of its buffer always come to an end.  (The loops
\* inside json.c are those of ParamScan.)
EveryTextEnds == <>(pc = "done")

=============================================================================
