-------------------------- MODULE RpcServerProofs --------------------------
(***************************************************************************)
(* Safety proofs about RpcServer, for any number of connections, any       *)
(* requests and any size of the buffer: what two reads are enough for, and *)
(* how long rpc lives.                                                     *)
(***************************************************************************)
EXTENDS RpcServer, TLAPS

ConnTypes ==
  [pc : {"none", "queued", "read", "extra", "handle", "handled", "closed"},
   req : RequestTypes, sent : Nat, cuts : 0 .. 3, got : Nat, start : Nat,
   want : Nat, answer : {"none", "small", "large"}, taken : BOOLEAN,
   gone : BOOLEAN, fd : BOOLEAN]

\* A thread has read no more than its client sent, and the client sends no
\* more than its request; pieces that were counted did arrive, the first of
\* two with all the headers.
SentOK(k) ==
  /\ k.got <= k.sent /\ k.sent <= Total(k.req) /\ k.req.mark <= k.req.head
  /\ k.cuts = 0 => k.sent = 0
  /\ k.cuts \in {1, 2} => k.req.head <= k.sent
  /\ k.pc \in {"extra", "handle", "handled"} => 0 < k.got

\* The requests TwoReadsSuffice is about.
Fits(k) == k.req.kind = "sized" /\ Total(k.req) < BufSize /\ k.cuts <= 2

\* A second read asks for exactly what is missing, and while it waits for a
\* second piece nothing else has arrived; after the reads nothing that has
\* arrived is left behind, and a single piece was the whole request.
ReadOK(k) ==
  /\ k.pc = "extra" /\ Fits(k) =>
       /\ k.start = k.req.head /\ k.want = Total(k.req) - k.got
       /\ k.cuts = 1 => k.sent = k.got
  /\ k.pc \in {"handle", "handled"} /\ Fits(k) =>
       \/ k.gone
       \/ /\ k.start = k.req.head /\ k.got = k.sent
          /\ k.cuts = 1 => k.got = Total(k.req)

ConnOK(k) == SentOK(k) /\ ReadOK(k)

ReadsInv == \A c \in Conns : ConnOK(conn[c])

\* Until somebody calls evmdb_rpc_stop the accept loop cannot be left, so the
\* server is only destroyed when it has never listened.
LifeInv ==
  /\ main \in {"loop", "accept"} /\ stop = "no" => running
  /\ main \in {"socket", "bind"} => \A c \in Conns : conn[c].pc = "none"
  /\ main \in {"destroy", "freed"} /\ stop = "no" =>
       \A c \in Conns : conn[c].pc = "none"

ServerInv == TypeOK /\ ReadsInv /\ LifeInv

----------------------------------------------------------------------------
(* What a step can do to the connections.                                  *)

\* A connection that begins and one that is closed are in order.
LEMMA FreshOK == Fresh \in ConnTypes /\ ConnOK(Fresh) /\ Closed \in ConnTypes /\ ConnOK(Closed)
<1>1. NoRequest \in RequestTypes /\ Total(NoRequest) = 0 /\ NoRequest.mark <= NoRequest.head
  BY DEF NoRequest, RequestTypes, Total
<1>2. Fresh \in ConnTypes /\ Closed \in ConnTypes
  <2>1. 0 \in 0 .. 3 /\ 0 \in Nat
    OBVIOUS
  <2>2. Fresh \in ConnTypes
    BY <1>1, <2>1 DEF Fresh, ConnTypes
  <2>. QED
    BY <2>2 DEF Closed, ConnTypes
<1>3. ConnOK(Fresh)
  BY <1>1 DEF Fresh, ConnOK, SentOK, ReadOK
<1>4. /\ Closed.pc = "closed" /\ Closed.req = NoRequest /\ Closed.sent = 0
      /\ Closed.cuts = 0 /\ Closed.got = 0
  BY DEF Fresh, Closed
<1>5. ConnOK(Closed)
  BY <1>1, <1>4 DEF ConnOK, SentOK, ReadOK
<1>. QED
  BY <1>2, <1>3, <1>5

\* Sizes are numbers.
LEMMA Sizes ==
  ASSUME NEW k \in ConnTypes
  PROVE  /\ k.req.head \in Nat /\ k.req.body \in Nat /\ k.req.mark \in Nat
         /\ Total(k.req) = k.req.head + k.req.body /\ Total(k.req) \in Nat
         /\ k.sent \in Nat /\ k.got \in Nat /\ k.want \in Nat /\ k.start \in Nat
         /\ k.cuts \in 0 .. 3 /\ BufSize \in Nat /\ BufSize > 1
BY ServerAssumption DEF ConnTypes, RequestTypes, Total

\* One connection moves on, to a state that is in order.
Moves(c, r) ==
  /\ conn' = [conn EXCEPT ![c] = r]
  /\ r \in ConnTypes /\ ConnOK(r)
  /\ conn[c].pc = "none" => r.pc = "none" \/ main \in {"loop", "accept"}

\* A step of one connection leaves the others alone.
LEMMA MoveConn ==
  ASSUME TypeOK, ReadsInv, NEW c \in Conns, NEW r, Moves(c, r)
  PROVE  /\ conn' \in [Conns -> ConnTypes]
         /\ ReadsInv'
         /\ \A k \in Conns : conn'[k].pc = conn[k].pc \/ (k = c /\ conn'[k].pc = r.pc)
<1>1. conn \in [Conns -> ConnTypes]
  BY DEF TypeOK, ConnTypes
<1>2. /\ conn' \in [Conns -> ConnTypes]
      /\ \A k \in Conns : conn'[k] = IF k = c THEN r ELSE conn[k]
  BY <1>1 DEF Moves
<1>3. ReadsInv'
  BY <1>2 DEF ReadsInv, Moves
<1>. QED
  BY <1>2, <1>3

\* A connection moves while the main thread and the flags stay.
LEMMA MoveKeeps ==
  ASSUME ServerInv, NEW c \in Conns, NEW r, Moves(c, r),
         UNCHANGED <<main, running, server_fd, stopVars, g_running>>
  PROVE  ServerInv'
<1>1. /\ conn' \in [Conns -> ConnTypes] /\ ReadsInv'
      /\ \A k \in Conns : conn'[k].pc = conn[k].pc \/ (k = c /\ conn'[k].pc = r.pc)
  BY MoveConn DEF ServerInv
<1>2. TypeOK'
  BY <1>1 DEF ServerInv, TypeOK, ConnTypes, stopVars
<1>3. LifeInv'
  BY <1>1 DEF ServerInv, LifeInv, Moves, stopVars
<1>. QED
  BY <1>1, <1>2, <1>3 DEF ServerInv

\* The process ends.
LEMMA ExitKeeps == ASSUME ServerInv, Exit PROVE ServerInv'
<1>1. conn' \in [Conns -> ConnTypes] /\ ReadsInv'
  BY FreshOK DEF Exit, ReadsInv
<1>2. TypeOK'
  BY <1>1 DEF ServerInv, TypeOK, ConnTypes, Exit, stopVars
<1>3. LifeInv'
  BY DEF LifeInv, Exit
<1>. QED
  BY <1>1, <1>2, <1>3 DEF ServerInv

\* A step of handle_client that leaves its connection in order.
LEMMA HandlerKeeps ==
  ASSUME ServerInv, NEW c \in Conns, NEW r, Handler(c, r),
         r \in ConnTypes, ConnOK(r), conn[c].pc # "none"
  PROVE  ServerInv'
<1>1. Moves(c, r)
  BY DEF Handler, Moves
<1>. QED
  BY <1>1, MoveKeeps DEF Handler

\* The answer and the close.
LEMMA AnswerKeeps ==
  ASSUME ServerInv, NEW c \in Conns, AnswerAndClose(c), conn[c].pc # "none"
  PROVE  ServerInv'
BY HandlerKeeps, ExitKeeps, FreshOK DEF AnswerAndClose

----------------------------------------------------------------------------
(* The threads.                                                            *)

\* The steps of main, the accept loop among them.
LEMMA MainKeeps == ASSUME ServerInv, MainThread PROVE ServerInv'
<1>. USE DEF ServerInv
<1>1. CASE listen_socket
  BY <1>1 DEF listen_socket, TypeOK, ReadsInv, LifeInv, stopVars
<1>2. CASE listen_bind
  BY <1>2 DEF listen_bind, TypeOK, ReadsInv, LifeInv, stopVars
<1>3. CASE listen_loop
  BY <1>3 DEF listen_loop, TypeOK, ReadsInv, LifeInv, stopVars
<1>4. CASE listen_accept
  <2>1. CASE UNCHANGED conn
    BY <1>4, <2>1 DEF listen_accept, TypeOK, ReadsInv, LifeInv, stopVars
  <2>2. ASSUME NEW c \in Conns, NEW r, conn' = [conn EXCEPT ![c] = r],
               r \in ConnTypes, ConnOK(r)
        PROVE  ServerInv'
    <3>1. Moves(c, r)
      BY <1>4, <2>2 DEF Moves, listen_accept
    <3>2. conn' \in [Conns -> ConnTypes] /\ ReadsInv'
      BY <3>1, MoveConn
    <3>3. TypeOK'
      BY <1>4, <3>2 DEF listen_accept, TypeOK, ConnTypes, stopVars
    <3>4. LifeInv'
      BY <1>4 DEF listen_accept, LifeInv, stopVars
    <3>. QED
      BY <3>2, <3>3, <3>4
  <2>3. ASSUME NEW c \in Conns, conn[c].pc = "queued",
               conn' = [conn EXCEPT ![c].pc = "read", ![c].fd = TRUE]
        PROVE  ServerInv'
    <3>. DEFINE r == [[conn[c] EXCEPT !.pc = "read"] EXCEPT !.fd = TRUE]
    <3>1. conn[c] \in ConnTypes /\ ConnOK(conn[c])
      BY DEF TypeOK, ReadsInv, ConnTypes
    <3>2. r \in ConnTypes
      BY <3>1 DEF ConnTypes
    <3>4. /\ r.pc = "read" /\ r.req = conn[c].req /\ r.sent = conn[c].sent
          /\ r.cuts = conn[c].cuts /\ r.got = conn[c].got
      BY <3>1 DEF ConnTypes
    <3>3. conn' = [conn EXCEPT ![c] = r]
      BY <2>3 DEF TypeOK
    <3>. HIDE DEF r
    <3>5. ConnOK(r)
      BY <3>1, <3>4 DEF ConnOK, SentOK, ReadOK
    <3>. QED
      BY <2>2, <3>2, <3>3, <3>5
  <2>. QED
    BY <1>4, <2>1, <2>2, <2>3, FreshOK DEF listen_accept
<1>5. CASE evmdb_rpc_destroy
  BY <1>5 DEF evmdb_rpc_destroy, TypeOK, ReadsInv, LifeInv, stopVars
<1>6. CASE main_return
  BY <1>6, ExitKeeps DEF main_return
<1>. QED
  BY <1>1, <1>2, <1>3, <1>4, <1>5, <1>6 DEF MainThread

\* The steps of evmdb_rpc_stop and of the signal handler.
LEMMA StopKeeps ==
  ASSUME ServerInv, rpc_stop_running \/ rpc_stop_shutdown \/ signal_handler
  PROVE  ServerInv'
BY ZenonT(60) DEF ServerInv, rpc_stop_running, rpc_stop_shutdown, signal_handler, TypeOK,
       ReadsInv, LifeInv, stopVars

\* The next n characters arrive.
Sent(k, n) ==
  [k EXCEPT !.sent = k.sent + n,
            !.cuts = CASE k.cuts = 0 /\ n >= k.req.head -> 1
                       [] k.cuts = 1 -> 2
                       [] OTHER -> 3]

\* They leave a connection in order.
LEMMA SendOK ==
  ASSUME NEW k \in ConnTypes, ConnOK(k), NEW n \in Nat, 1 <= n,
         k.sent + n <= Total(k.req)
  PROVE  Sent(k, n) \in ConnTypes /\ ConnOK(Sent(k, n))
<1>. DEFINE more == CASE k.cuts = 0 /\ n >= k.req.head -> 1
                      [] k.cuts = 1 -> 2
                      [] OTHER -> 3
            r == [k EXCEPT !.sent = k.sent + n, !.cuts = more]
<1>0. /\ k.req.head \in Nat /\ Total(k.req) \in Nat /\ k.sent \in Nat /\ k.got \in Nat
      /\ k.cuts \in 0 .. 3
  BY Sizes
<1>1. more \in 1 .. 3
  BY <1>0
<1>2. /\ more = 1 => k.cuts = 0 /\ n >= k.req.head
      /\ more = 2 => k.cuts = 1
  BY <1>0
<1>10. Sent(k, n) = r
  BY DEF Sent
<1>. HIDE DEF more
<1>3. /\ r.pc = k.pc /\ r.req = k.req /\ r.sent = k.sent + n /\ r.cuts = more
      /\ r.got = k.got /\ r.start = k.start /\ r.want = k.want /\ r.gone = k.gone
  BY DEF ConnTypes
<1>4. r \in ConnTypes
  <2>1. more \in 0 .. 3 /\ k.sent + n \in Nat
    BY <1>0, <1>1
  <2>. QED
    BY <2>1 DEF ConnTypes
<1>. HIDE DEF r
<1>5. /\ k.got <= k.sent /\ k.sent <= Total(k.req) /\ k.req.mark <= k.req.head
      /\ k.cuts = 0 => k.sent = 0
      /\ k.cuts \in {1, 2} => k.req.head <= k.sent
      /\ k.pc \in {"extra", "handle", "handled"} => 0 < k.got
  BY DEF ConnOK, SentOK
<1>6. SentOK(r)
  <2>1. r.got <= r.sent /\ r.sent <= Total(r.req)
    BY <1>0, <1>3, <1>5
  <2>2. r.cuts \in {1, 2} => r.req.head <= r.sent
    BY <1>0, <1>2, <1>3, <1>5
  <2>. QED
    BY <1>1, <1>3, <1>5, <2>1, <2>2 DEF SentOK
<1>7. k.pc \in {"extra", "handle", "handled"} => more # 1
  BY <1>0, <1>2, <1>5
<1>8. ASSUME Fits(r), r.pc = "extra"
      PROVE  /\ r.start = r.req.head /\ r.want = Total(r.req) - r.got
             /\ r.cuts # 1
  <2>1. k.cuts = 1
    BY <1>0, <1>1, <1>2, <1>3, <1>7, <1>8 DEF Fits
  <2>2. Fits(k)
    BY <1>3, <1>8, <2>1 DEF Fits
  <2>. QED
    BY <1>3, <1>7, <1>8, <2>2 DEF ConnOK, ReadOK
<1>9. ASSUME Fits(r), r.pc \in {"handle", "handled"}
      PROVE  r.gone
  <2>1. k.cuts = 1
    BY <1>0, <1>1, <1>2, <1>3, <1>7, <1>9 DEF Fits
  <2>2. Fits(k)
    BY <1>3, <1>9, <2>1 DEF Fits
  <2>3. k.gone \/ k.got = Total(k.req)
    BY <1>3, <1>9, <2>1, <2>2 DEF ConnOK, ReadOK
  <2>4. k.got # Total(k.req)
    BY <1>0, <1>5
  <2>. QED
    BY <1>3, <2>3, <2>4
<1>. QED
  BY <1>4, <1>6, <1>8, <1>9, <1>10 DEF ConnOK, ReadOK

\* The steps of a client.
LEMMA ClientKeeps ==
  ASSUME ServerInv, NEW c \in Conns,
         \/ \E r \in Requests[c] : client_connect(c, r)
         \/ \E n \in 1 .. Total(conn[c].req) : client_send(c, n)
         \/ client_receive(c) \/ client_leave(c)
  PROVE  ServerInv'
<1>0. conn[c] \in ConnTypes /\ ConnOK(conn[c])
  BY DEF ServerInv, TypeOK, ReadsInv, ConnTypes
<1>1. ASSUME NEW q \in Requests[c], client_connect(c, q)
      PROVE  ServerInv'
  <2>. DEFINE r == [Fresh EXCEPT !.pc = "queued", !.req = q]
  <2>1. /\ q \in RequestTypes /\ q.mark <= q.head /\ Total(q) \in Nat
    BY ServerAssumption DEF RequestTypes, Total
  <2>2. r \in ConnTypes
    BY <2>1, FreshOK DEF ConnTypes
  <2>3. r.pc = "queued" /\ r.req = q /\ r.got = 0 /\ r.sent = 0 /\ r.cuts = 0
    BY DEF Fresh
  <2>4. ConnOK(r)
    <3>. HIDE DEF r
    <3>. QED
      BY <2>1, <2>3 DEF ConnOK, SentOK, ReadOK
  <2>5. Moves(c, r)
    BY <1>1, <2>2, <2>4 DEF Moves, client_connect
  <2>. QED
    BY <1>1, <2>5, MoveKeeps DEF client_connect
<1>2. ASSUME NEW n \in 1 .. Total(conn[c].req), client_send(c, n)
      PROVE  ServerInv'
  <2>. DEFINE r == Sent(conn[c], n)
  <2>1. n \in Nat /\ 1 <= n /\ conn[c].sent + n <= Total(conn[c].req)
    BY <1>0, <1>2, Sizes DEF client_send
  <2>2. r \in ConnTypes /\ ConnOK(r)
    BY <1>0, <2>1, SendOK
  <2>3. conn' = [conn EXCEPT ![c] = r]
    BY <1>0, <1>2 DEF client_send, Sent, ServerInv, TypeOK, ConnTypes
  <2>. HIDE DEF r
  <2>4. Moves(c, r)
    BY <1>2, <2>2, <2>3 DEF Moves, client_send
  <2>. QED
    BY <1>2, <2>4, MoveKeeps DEF client_send
<1>3. CASE client_receive(c)
  <2>. DEFINE r == [conn[c] EXCEPT !.taken = TRUE]
  <2>1. /\ r \in ConnTypes
        /\ r.pc = conn[c].pc /\ r.req = conn[c].req /\ r.sent = conn[c].sent
        /\ r.cuts = conn[c].cuts /\ r.got = conn[c].got /\ r.start = conn[c].start
        /\ r.want = conn[c].want /\ (conn[c].gone => r.gone)
    BY <1>0 DEF ConnTypes
  <2>3. conn' = [conn EXCEPT ![c] = r]
    BY <1>3 DEF client_receive, ServerInv, TypeOK
  <2>. HIDE DEF r
  <2>4. SentOK(r)
    BY <1>0, <2>1 DEF ConnOK, SentOK
  <2>5. ReadOK(r)
    <3>1. Fits(r) <=> Fits(conn[c])
      BY <2>1 DEF Fits
    <3>. QED
      BY <1>0, <2>1, <3>1, Zenon DEF ConnOK, ReadOK
  <2>2. Moves(c, r)
    BY <1>3, <2>1, <2>3, <2>4, <2>5 DEF Moves, ConnOK, client_receive
  <2>. QED
    BY <1>3, <2>2, MoveKeeps DEF client_receive
<1>4. CASE client_leave(c)
  <2>. DEFINE r == [conn[c] EXCEPT !.gone = TRUE]
  <2>1. /\ r \in ConnTypes
        /\ r.pc = conn[c].pc /\ r.req = conn[c].req /\ r.sent = conn[c].sent
        /\ r.cuts = conn[c].cuts /\ r.got = conn[c].got /\ r.start = conn[c].start
        /\ r.want = conn[c].want /\ (conn[c].gone => r.gone)
    BY <1>0 DEF ConnTypes
  <2>3. conn' = [conn EXCEPT ![c] = r]
    BY <1>4 DEF client_leave, ServerInv, TypeOK
  <2>. HIDE DEF r
  <2>4. SentOK(r)
    BY <1>0, <2>1 DEF ConnOK, SentOK
  <2>5. ReadOK(r)
    <3>1. Fits(r) <=> Fits(conn[c])
      BY <2>1 DEF Fits
    <3>. QED
      BY <1>0, <2>1, <3>1, Zenon DEF ConnOK, ReadOK
  <2>2. Moves(c, r)
    BY <1>4, <2>1, <2>3, <2>4, <2>5 DEF Moves, ConnOK, client_leave
  <2>. QED
    BY <1>4, <2>2, MoveKeeps DEF client_leave
<1>. QED
  BY <1>1, <1>2, <1>3, <1>4

\* What the first read makes of a connection: n characters are read, the body
\* is taken to begin at start and to have content_length characters.
ReadTo(k, n, start, content_length) ==
  LET again == content_length > n - start /\ content_length < BufSize
  IN [k EXCEPT !.got = n, !.start = start,
               !.pc = IF again THEN "extra" ELSE "handle",
               !.want = IF again THEN content_length - (n - start) ELSE 0]

\* A first read leaves a connection in order.
LEMMA ReadKeepsOrder ==
  ASSUME NEW k \in ConnTypes, ConnOK(k), k.pc = "read",
         NEW n \in Nat, n = Least(k.sent, BufSize - 1), n > 0,
         NEW start \in Nat, start = IF n >= k.req.head THEN k.req.head ELSE 0,
         NEW content_length \in Nat,
         k.req.kind = "sized" /\ n >= k.req.mark => content_length = k.req.body
  PROVE  /\ ReadTo(k, n, start, content_length) \in ConnTypes
         /\ ConnOK(ReadTo(k, n, start, content_length))
<1>. DEFINE again == content_length > n - start /\ content_length < BufSize
            want == IF again THEN content_length - (n - start) ELSE 0
            r == ReadTo(k, n, start, content_length)
<1>0. /\ k.req.head \in Nat /\ k.req.body \in Nat /\ k.req.mark \in Nat
      /\ Total(k.req) = k.req.head + k.req.body /\ Total(k.req) \in Nat
      /\ k.sent \in Nat /\ k.cuts \in 0 .. 3 /\ BufSize \in Nat /\ BufSize > 1
  BY Sizes
<1>1. want \in Nat /\ (again => want = content_length - (n - start))
  BY <1>0
<1>2. /\ r.pc = (IF again THEN "extra" ELSE "handle") /\ r.req = k.req
      /\ r.sent = k.sent /\ r.cuts = k.cuts /\ r.got = n /\ r.start = start
      /\ r.want = want /\ r.gone = k.gone
  BY DEF ConnTypes, ReadTo
<1>3. r \in ConnTypes
  BY <1>1 DEF ConnTypes, ReadTo
<1>4. /\ k.sent <= Total(k.req) /\ k.req.mark <= k.req.head
      /\ k.cuts = 0 => k.sent = 0
      /\ k.cuts \in {1, 2} => k.req.head <= k.sent
  BY DEF ConnOK, SentOK
<1>5. n <= k.sent
  BY <1>0 DEF Least
<1>6. ASSUME Fits(k)
      PROVE  /\ n = k.sent /\ start = k.req.head /\ content_length = k.req.body
             /\ again => want = Total(k.req) - n
             /\ ~again => n = Total(k.req)
  <2>1. Total(k.req) < BufSize /\ k.req.kind = "sized" /\ k.cuts <= 2
    BY <1>6 DEF Fits
  <2>2. n = k.sent
    BY <1>0, <1>4, <2>1 DEF Least
  <2>3. k.req.head <= n
    BY <1>0, <1>4, <2>1, <2>2
  <2>4. start = k.req.head /\ content_length = k.req.body
    BY <1>0, <1>4, <2>1, <2>3
  <2>5. again => want = Total(k.req) - n
    BY <1>0, <1>1, <2>4
  <2>6. ~again => n = Total(k.req)
    BY <1>0, <1>4, <2>1, <2>2, <2>4
  <2>. QED
    BY <2>2, <2>4, <2>5, <2>6
<1>. HIDE DEF again, want, r
<1>7. SentOK(r)
  BY <1>2, <1>4, <1>5 DEF SentOK
<1>8. Fits(r) => Fits(k)
  BY <1>2 DEF Fits
<1>9. ReadOK(r)
  BY <1>2, <1>6, <1>8 DEF ReadOK
<1>. QED
  BY <1>3, <1>7, <1>9 DEF ConnOK, r

\* So does the second.
LEMMA ExtraKeepsOrder ==
  ASSUME NEW k \in ConnTypes, ConnOK(k), k.pc = "extra",
         NEW all, all = k.got + Least(k.want, k.sent - k.got),
         Least(k.want, k.sent - k.got) > 0 \/ k.gone,
         NEW n \in IF all < BufSize THEN {all} ELSE {k.got, all}
  PROVE  /\ [k EXCEPT !.pc = "handle", !.got = n] \in ConnTypes
         /\ ConnOK([k EXCEPT !.pc = "handle", !.got = n])
<1>. DEFINE r == [k EXCEPT !.pc = "handle", !.got = n]
<1>0. /\ Total(k.req) \in Nat /\ k.sent \in Nat /\ k.got \in Nat /\ k.want \in Nat
      /\ k.cuts \in 0 .. 3 /\ BufSize \in Nat
  BY Sizes
<1>1. /\ k.got <= k.sent /\ k.sent <= Total(k.req) /\ k.req.mark <= k.req.head
      /\ k.cuts = 0 => k.sent = 0
      /\ k.cuts \in {1, 2} => k.req.head <= k.sent
      /\ 0 < k.got
  BY DEF ConnOK, SentOK
<1>2. all \in Nat /\ k.got <= all /\ all <= k.sent
  BY <1>0, <1>1 DEF Least
<1>3. n \in Nat /\ 0 < n /\ n <= k.sent
  BY <1>0, <1>1, <1>2
<1>4. /\ r.pc = "handle" /\ r.req = k.req /\ r.sent = k.sent /\ r.cuts = k.cuts
      /\ r.got = n /\ r.start = k.start /\ r.gone = k.gone
  BY DEF ConnTypes
<1>5. r \in ConnTypes
  BY <1>3 DEF ConnTypes
<1>6. ASSUME Fits(k)
      PROVE  k.gone \/ (k.start = k.req.head /\ n = k.sent /\ k.cuts # 1)
  <2>1. /\ k.start = k.req.head /\ k.want = Total(k.req) - k.got
        /\ k.cuts = 1 => k.sent = k.got
    BY <1>6 DEF ConnOK, ReadOK
  <2>2. Least(k.want, k.sent - k.got) = k.sent - k.got
    BY <1>0, <1>1, <2>1 DEF Least
  <2>3. all = k.sent /\ all < BufSize
    BY <1>0, <1>1, <1>6, <2>2 DEF Fits
  <2>4. n = k.sent
    BY <2>3
  <2>5. k.gone \/ k.cuts # 1
    BY <1>0, <2>1, <2>2
  <2>. QED
    BY <2>1, <2>4, <2>5
<1>. HIDE DEF r
<1>7. SentOK(r)
  BY <1>1, <1>3, <1>4 DEF SentOK
<1>8. Fits(r) => Fits(k)
  BY <1>4 DEF Fits
<1>9. ReadOK(r)
  BY <1>4, <1>6, <1>8 DEF ReadOK
<1>. QED
  BY <1>5, <1>7, <1>9 DEF ConnOK, r

\* The steps of a client's thread.
LEMMA ServeKeeps ==
  ASSUME ServerInv, NEW c \in Conns, Serve(c)
  PROVE  ServerInv'
<1>. PICK k : k = conn[c]
  OBVIOUS
<1>0. k \in ConnTypes /\ ConnOK(k)
  BY DEF ServerInv, TypeOK, ReadsInv, ConnTypes
<1>1. CASE client_read(c)
  <2>. PICK n : n = Least(k.sent, BufSize - 1)
    OBVIOUS
  <2>. PICK start : start = IF n >= k.req.head THEN k.req.head ELSE 0
    OBVIOUS
  <2>0. n \in Nat /\ start \in Nat
    BY <1>0, Sizes DEF Least
  <2>1. ASSUME NEW content_length \in IF k.req.kind # "sized" THEN {0}
                      ELSE IF n >= k.req.mark THEN {k.req.body} ELSE 0 .. k.req.body,
               n > 0, Handler(c, ReadTo(k, n, start, content_length))
        PROVE  ServerInv'
    <3>1. /\ content_length \in Nat
          /\ k.req.kind = "sized" /\ n >= k.req.mark => content_length = k.req.body
      BY <1>0, Sizes
    <3>2. k.pc = "read"
      BY <1>1 DEF client_read
    <3>3. /\ ReadTo(k, n, start, content_length) \in ConnTypes
          /\ ConnOK(ReadTo(k, n, start, content_length))
      BY <1>0, <2>0, <2>1, <3>1, <3>2, ReadKeepsOrder
    <3>. QED
      BY <2>1, <3>2, <3>3, HandlerKeeps
  <2>2. CASE AnswerAndClose(c)
    BY <1>1, <2>2, AnswerKeeps DEF client_read
  <2>3. CASE Handler(c, Closed)
    BY <1>1, <2>3, HandlerKeeps, FreshOK DEF client_read
  <2>. QED
    BY <1>1, <2>1, <2>2, <2>3 DEF client_read, ReadTo
<1>2. CASE client_read_extra(c)
  <2>. PICK all : all = k.got + Least(k.want, k.sent - k.got)
    OBVIOUS
  <2>1. ASSUME NEW n \in IF all < BufSize THEN {all} ELSE {k.got, all},
               Handler(c, [k EXCEPT !.pc = "handle", !.got = n])
        PROVE  ServerInv'
    <3>1. k.pc = "extra" /\ (Least(k.want, k.sent - k.got) > 0 \/ k.gone)
      BY <1>2 DEF client_read_extra
    <3>2. /\ [k EXCEPT !.pc = "handle", !.got = n] \in ConnTypes
          /\ ConnOK([k EXCEPT !.pc = "handle", !.got = n])
      BY <1>0, <3>1, ExtraKeepsOrder
    <3>. QED
      BY <2>1, <3>1, <3>2, HandlerKeeps
  <2>. QED
    BY <1>2, <2>1, ExitKeeps DEF client_read_extra
<1>3. CASE client_handle(c)
  <2>1. PICK a \in {"none", "small", "large"} :
               Handler(c, [k EXCEPT !.pc = "handled", !.answer = a])
    BY <1>3 DEF client_handle
  <2>. DEFINE r == [k EXCEPT !.pc = "handled", !.answer = a]
  <2>2. k.pc = "handle"
    BY <1>3 DEF client_handle
  <2>3. r \in ConnTypes
    BY <1>0 DEF ConnTypes
  <2>4. /\ r.pc = "handled" /\ r.req = k.req /\ r.sent = k.sent /\ r.cuts = k.cuts
        /\ r.got = k.got /\ r.start = k.start /\ r.gone = k.gone
    BY <1>0 DEF ConnTypes
  <2>5. ConnOK(r)
    <3>. HIDE DEF r
    <3>. QED
      BY <1>0, <2>2, <2>4 DEF ConnOK, SentOK, ReadOK, Fits
  <2>. QED
    BY <2>1, <2>2, <2>3, <2>5, HandlerKeeps
<1>4. CASE client_close(c)
  BY <1>4, AnswerKeeps, HandlerKeeps, FreshOK DEF client_close
<1>. QED
  BY <1>1, <1>2, <1>3, <1>4 DEF Serve

\* No connection and no thread at the start.
LEMMA InitServer == Init => ServerInv
<1>. SUFFICES ASSUME Init PROVE ServerInv
  OBVIOUS
<1>1. conn \in [Conns -> ConnTypes] /\ ReadsInv
  BY FreshOK DEF Init, ReadsInv
<1>2. TypeOK
  BY <1>1 DEF Init, TypeOK, ConnTypes
<1>3. LifeInv
  BY DEF Init, LifeInv, Fresh
<1>. QED
  BY <1>1, <1>2, <1>3 DEF ServerInv

\* Every step keeps ServerInv.
LEMMA NextServer == ServerInv /\ [Next]_vars => ServerInv'
<1>1. ServerInv /\ UNCHANGED vars => ServerInv'
  BY DEF ServerInv, TypeOK, ReadsInv, LifeInv, vars
<1>. QED
  BY <1>1, MainKeeps, StopKeeps, ClientKeeps, ServeKeeps DEF Next

\* ServerInv holds throughout.
LEMMA ServerInvariant == Spec => []ServerInv
BY InitServer, NextServer, PTL DEF Spec

----------------------------------------------------------------------------
\* No step of main, of a client or of a client thread leaves the types.
THEOREM ServerTypeCorrect == Spec => []TypeOK
BY ServerInvariant, PTL DEF ServerInv

\* A request that fits the buffer with its headers and comes in at most two
\* pieces, the first with all the headers, is read whole and its body found,
\* however the pieces meet the reads of handle_client, for any sizes and any
\* number of connections.
THEOREM TwoPiecesAreRead == Spec => []TwoReadsSuffice
<1>1. ServerInv => TwoReadsSuffice
  <2>. SUFFICES ASSUME ServerInv, NEW c \in Conns,
                       conn[c].pc \in {"handle", "handled"}, Fits(conn[c]),
                       conn[c].sent = Total(conn[c].req)
                PROVE  \/ conn[c].got = Total(conn[c].req) /\ conn[c].start = conn[c].req.head
                       \/ conn[c].gone
    BY DEF TwoReadsSuffice, Fits
  <2>. QED
    BY DEF ServerInv, ReadsInv, ConnOK, ReadOK
<1>. QED
  BY <1>1, ServerInvariant, PTL

\* Without a call of evmdb_rpc_stop, evmdb_rpc_destroy frees rpc only when no
\* client thread runs.
THEOREM RpcIsNotFreedUnderThreads == Spec => []RpcOutlivesThreads
<1>1. ServerInv => RpcOutlivesThreads
  BY DEF ServerInv, LifeInv, RpcOutlivesThreads
<1>. QED
  BY <1>1, ServerInvariant, PTL

=============================================================================
