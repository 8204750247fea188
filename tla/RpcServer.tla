----------------------------- MODULE RpcServer -----------------------------
(***************************************************************************)
(* The process and its HTTP server: run in src/src/main.c, evmdb_rpc_*     *)
(* and handle_client in src/src/rpc/server.c.  The main thread creates the *)
(* server, binds, and loops on accept; every accepted connection gets a    *)
(* detached thread that reads one request, handles it, answers and closes. *)
(* evmdb_rpc_stop is public API that main never calls; the signal handler  *)
(* clears g_running, which nothing reads.                                  *)
(*                                                                         *)
(* A request is a number of characters that arrive in pieces, cut anywhere *)
(* and also inside the headers; read returns whatever has arrived.  write  *)
(* blocks on an answer above the socket's buffer until the client takes    *)
(* it.  Nothing ignores SIGPIPE, so an answer written to a client that has *)
(* gone may end the process.                                               *)
(***************************************************************************)
EXTENDS Integers

CONSTANTS
  Conns,         \* connections clients open
  Requests,      \* the requests the client of each may send, see RequestTypes
  BufSize,       \* RPC_MAX_REQUEST_SIZE
  Stops,         \* whether somebody calls evmdb_rpc_stop
  Signals        \* whether SIGINT or SIGTERM arrives

\* Headers of head characters, then a body.  mark: how far a first read must
\* come to understand them, up to the last digit of the Content-Length or, for
\* a preflight, to the end of the method name.  "plain" has no Content-Length.
RequestTypes ==
  [kind : {"none", "options", "sized", "plain"}, mark : Nat, head : Nat, body : Nat]

ASSUME ServerAssumption ==
  /\ Stops \in BOOLEAN /\ Signals \in BOOLEAN /\ BufSize \in Nat \ {0, 1}
  /\ Requests \in [Conns -> SUBSET RequestTypes]
  /\ \A c \in Conns : \A r \in Requests[c] : 0 < r.mark /\ r.mark <= r.head

VARIABLES
  main,          \* where the main thread is
  running,       \* rpc->running
  server_fd,     \* "none", "open", "shut" by shutdown, or "closed"
  stop,          \* evmdb_rpc_stop: "no", "cleared" running, or "done"
  heard,         \* history: the stop came after listen had set running
  g_running,     \* the flag the signal handler clears
  conn           \* each connection and the thread that handles it

vars == <<main, running, server_fd, stop, heard, g_running, conn>>
stopVars == <<stop, heard>>

\* sent, got: characters sent by the client and read by the thread; cuts:
\* history, the pieces they came in, 3 if they were more than two or the first
\* did not hold the headers; start: where body points to; want: what the second
\* read asks for; answer: its size against the socket's buffer; taken: a large
\* one was received; gone: the client has left; fd: the server has the socket.
NoRequest == [kind |-> "none", mark |-> 0, head |-> 0, body |-> 0]
Fresh == [pc |-> "none", req |-> NoRequest, sent |-> 0, cuts |-> 0, got |-> 0,
          start |-> 0, want |-> 0, answer |-> "none", taken |-> FALSE,
          gone |-> FALSE, fd |-> FALSE]
Closed == [Fresh EXCEPT !.pc = "closed"]

Total(r) == r.head + r.body
Least(a, b) == IF a <= b THEN a ELSE b

TypeOK ==
  /\ main \in {"socket", "bind", "loop", "accept", "destroy", "freed", "exit"}
  /\ running \in BOOLEAN /\ g_running \in BOOLEAN /\ heard \in BOOLEAN
  /\ server_fd \in {"none", "open", "shut", "closed"}
  /\ stop \in {"no", "cleared", "done"}
  /\ conn \in [Conns ->
       [pc : {"none", "queued", "read", "extra", "handle", "handled", "closed"},
        req : RequestTypes, sent : Nat, cuts : 0 .. 3, got : Nat, start : Nat,
        want : Nat, answer : {"none", "small", "large"}, taken : BOOLEAN,
        gone : BOOLEAN, fd : BOOLEAN]]

\* The state after evmdb_rpc_create.
Init ==
  /\ main = "socket" /\ running = FALSE /\ server_fd = "none"
  /\ stop = "no" /\ heard = FALSE /\ g_running = TRUE
  /\ conn = [c \in Conns |-> Fresh]

----------------------------------------------------------------------------
(* The main thread.                                                        *)

listen_socket ==
  /\ main = "socket"
  /\ \/ main' = "bind" /\ server_fd' = "open"
     \/ main' = "destroy" /\ UNCHANGED server_fd
  /\ UNCHANGED <<running, stopVars, g_running, conn>>

\* bind and listen; on failure the socket is closed.
listen_bind ==
  /\ main = "bind"
  /\ \/ main' = "loop" /\ running' = TRUE /\ UNCHANGED server_fd
     \/ main' = "destroy" /\ server_fd' = "closed" /\ UNCHANGED running
  /\ UNCHANGED <<stopVars, g_running, conn>>

listen_loop ==
  /\ main = "loop"
  /\ main' = IF running THEN "accept" ELSE "destroy"
  /\ UNCHANGED <<running, server_fd, stopVars, g_running, conn>>

listen_accept_gives_up ==
  /\ main = "accept"
  /\ \/ /\ server_fd = "open" /\ main' = "loop"
        /\ \E c \in Conns :
             /\ conn[c].pc = "queued"
             /\ conn' = [conn EXCEPT ![c].pc = "read", ![c].fd = TRUE]
     \/ /\ server_fd = "shut" \/ \E c \in Conns : conn[c].pc = "queued"
        /\ main' = "destroy" /\ UNCHANGED conn
  /\ UNCHANGED <<running, server_fd, stopVars, g_running>>

\* A connection is accepted and its thread started, or closed again when
\* threads or memory, also that for the thread's buffer, run out; after
\* shutdown, or on an error, accept fails and the loop goes on.  SIGINT does
\* not interrupt accept: signal() restarts it.
listen_accept ==
  /\ main = "accept"
  /\ \/ /\ server_fd = "open"
        /\ \E c \in Conns :
             /\ conn[c].pc = "queued"
             /\ \/ conn' = [conn EXCEPT ![c].pc = "read", ![c].fd = TRUE]
                \/ conn' = [conn EXCEPT ![c] = Closed]
     \/ server_fd = "shut" /\ UNCHANGED conn
     \/ /\ server_fd = "open" /\ \E c \in Conns : conn[c].pc = "queued"
        /\ UNCHANGED conn
  /\ main' = "loop"
  /\ UNCHANGED <<running, server_fd, stopVars, g_running>>

\* The socket is closed and rpc freed; client threads are not waited for.
evmdb_rpc_destroy ==
  /\ main = "destroy"
  /\ main' = "freed"
  /\ server_fd' = IF server_fd = "none" THEN "none" ELSE "closed"
  /\ UNCHANGED <<running, stopVars, g_running, conn>>

\* The process ends with every thread in it; the kernel closes what is open.
Exit ==
  /\ main' = "exit"
  /\ conn' = [c \in Conns |-> IF conn[c].pc = "none" THEN Fresh ELSE Closed]
  /\ UNCHANGED <<running, server_fd, stopVars, g_running>>

main_return == main = "freed" /\ Exit

----------------------------------------------------------------------------
(* evmdb_rpc_stop, in its caller's thread, and the signal handler.         *)

rpc_stop_running ==
  /\ Stops /\ stop = "no" /\ main \notin {"destroy", "freed", "exit"}
  /\ stop' = "cleared" /\ running' = FALSE /\ heard' = running
  /\ UNCHANGED <<main, server_fd, g_running, conn>>

rpc_stop_no_shutdown ==
  stop = "cleared" /\ stop' = "done"
  /\ UNCHANGED <<main, running, server_fd, heard, g_running, conn>>

\* shutdown of a socket that does not listen yet has no effect on it.
rpc_stop_shutdown ==
  /\ stop = "cleared" /\ main # "exit"
  /\ stop' = "done"
  /\ server_fd' = IF server_fd = "open" /\ main # "bind" THEN "shut" ELSE server_fd
  /\ UNCHANGED <<main, running, heard, g_running, conn>>

signal_handler ==
  /\ Signals /\ g_running /\ main # "exit"
  /\ g_running' = FALSE
  /\ UNCHANGED <<main, running, server_fd, stopVars, conn>>

----------------------------------------------------------------------------
(* Clients.                                                                *)

client_connect(c, r) ==
  /\ conn[c].pc = "none" /\ server_fd = "open" /\ main \in {"loop", "accept"}
  /\ conn' = [conn EXCEPT ![c] = [Fresh EXCEPT !.pc = "queued", !.req = r]]
  /\ UNCHANGED <<main, running, server_fd, stopVars, g_running>>

\* The next n characters arrive.
client_send(c, n) ==
  /\ conn[c].pc \notin {"none", "closed"} /\ ~conn[c].gone /\ main # "exit"
  /\ conn[c].sent + n <= Total(conn[c].req)
  /\ LET more == CASE conn[c].cuts = 0 /\ n >= conn[c].req.head -> 1
                   [] conn[c].cuts = 1 -> 2
                   [] OTHER -> 3
     IN conn' = [conn EXCEPT ![c].sent = @ + n, ![c].cuts = more]
  /\ UNCHANGED <<main, running, server_fd, stopVars, g_running>>

\* A client may take its time, or for ever, to receive a large answer.
client_receive(c) ==
  /\ conn[c].pc = "handled" /\ conn[c].answer = "large" /\ main # "exit"
  /\ ~conn[c].gone /\ ~conn[c].taken
  /\ conn' = [conn EXCEPT ![c].taken = TRUE]
  /\ UNCHANGED <<main, running, server_fd, stopVars, g_running>>

client_leave(c) ==
  /\ conn[c].pc \notin {"none", "closed"} /\ ~conn[c].gone
  /\ conn' = [conn EXCEPT ![c].gone = TRUE]
  /\ UNCHANGED <<main, running, server_fd, stopVars, g_running>>

----------------------------------------------------------------------------
(* client_thread_fn and handle_client.                                     *)

Handler(c, r) ==
  /\ main # "exit"
  /\ conn' = [conn EXCEPT ![c] = r]
  /\ UNCHANGED <<main, running, server_fd, stopVars, g_running>>

\* An answer that does not block is written and the socket closed; writing to
\* a client that has gone may raise SIGPIPE, which kills the process.
AnswerAndClose(c) ==
  \/ Handler(c, Closed)
  \/ conn[c].gone /\ main # "exit" /\ Exit

client_read_once(c) ==
  LET n == Least(conn[c].sent, BufSize - 1)
      start == IF n >= conn[c].req.head THEN conn[c].req.head ELSE 0
  IN /\ conn[c].pc = "read" /\ (n > 0 \/ conn[c].gone)
     /\ \/ n = 0 /\ Handler(c, Closed)
        \/ n > 0 /\ Handler(c, [conn[c] EXCEPT !.pc = "handle", !.got = n,
                                               !.start = start])

client_read_always_twice(c) ==
  LET n == Least(conn[c].sent, BufSize - 1)
      start == IF n >= conn[c].req.head THEN conn[c].req.head ELSE 0
  IN /\ conn[c].pc = "read" /\ n > 0 /\ conn[c].req.kind = "sized"
     /\ Handler(c, [conn[c] EXCEPT !.pc = "extra", !.got = n, !.start = start,
                      !.want = conn[c].req.body - (n - start)])

\* The first read.  End of file closes; a preflight is answered at once if its
\* method has arrived.  Without the end of the headers the body is taken to
\* start with them; a Content-Length that has not arrived is 0, and one of
\* which some digits have is a smaller number.  A second read is needed for a
\* body shorter than the Content-Length, and made if that alone is below the
\* size of the buffer.
client_read(c) ==
  LET q == conn[c].req
      n == Least(conn[c].sent, BufSize - 1)
      start == IF n >= q.head THEN q.head ELSE 0
      body_received == n - start
      preflight == q.kind = "options" /\ n >= q.mark
      lengths == IF q.kind # "sized" THEN {0}
                 ELSE IF n >= q.mark THEN {q.body} ELSE 0 .. q.body
  IN /\ conn[c].pc = "read" /\ (n > 0 \/ conn[c].gone)
     /\ \/ n = 0 /\ Handler(c, Closed)
        \/ n > 0 /\ preflight /\ AnswerAndClose(c)
        \/ /\ n > 0 /\ ~preflight
           /\ \E content_length \in lengths :
                LET again == content_length > body_received /\ content_length < BufSize
                IN Handler(c, [conn[c] EXCEPT !.got = n, !.start = start,
                     !.pc = IF again THEN "extra" ELSE "handle",
                     !.want = IF again THEN content_length - body_received ELSE 0])

\* The second and last read.  Headers and body together may exceed the buffer;
\* what is then written behind it is undefined: the thread goes on, with what
\* it read or, if the kernel refused, without, or the process ends.
client_read_extra(c) ==
  LET extra == Least(conn[c].want, conn[c].sent - conn[c].got)
      all == conn[c].got + extra
  IN /\ conn[c].pc = "extra" /\ (extra > 0 \/ conn[c].gone)
     /\ \/ \E n \in IF all < BufSize THEN {all} ELSE {conn[c].got, all} :
             Handler(c, [conn[c] EXCEPT !.pc = "handle", !.got = n])
        \/ all >= BufSize /\ main # "exit" /\ Exit

\* evmdb_rpc_handle_request; there is no answer when its text finds no memory.
client_handle(c) ==
  /\ conn[c].pc = "handle"
  /\ \E a \in {"none", "small", "large"} :
       Handler(c, [conn[c] EXCEPT !.pc = "handled", !.answer = a])

client_close_leak(c) ==
  conn[c].pc = "handled" /\ Handler(c, [conn[c] EXCEPT !.pc = "closed"])

\* The answer is written, if there is one, and the socket closed.
client_close(c) ==
  /\ conn[c].pc = "handled"
  /\ \/ conn[c].answer = "none" /\ Handler(c, Closed)
     \/ conn[c].answer = "small" /\ AnswerAndClose(c)
     \/ /\ conn[c].answer = "large" /\ (conn[c].taken \/ conn[c].gone)
        /\ AnswerAndClose(c)

Serve(c) ==
  client_read(c) \/ client_read_extra(c) \/ client_handle(c) \/ client_close(c)

MainThread ==
  \/ listen_socket \/ listen_bind \/ listen_loop \/ listen_accept
  \/ evmdb_rpc_destroy \/ main_return

Next ==
  \/ MainThread
  \/ rpc_stop_running \/ rpc_stop_shutdown \/ signal_handler
  \/ \E c \in Conns :
       \/ \E r \in Requests[c] : client_connect(c, r)
       \/ \E n \in 1 .. Total(conn[c].req) : client_send(c, n)
       \/ client_receive(c) \/ client_leave(c) \/ Serve(c)

\* Threads that can run do run; nothing is assumed of clients or signals.
Spec ==
  /\ Init /\ [][Next]_vars
  /\ WF_vars(MainThread) /\ WF_vars(rpc_stop_shutdown)
  /\ \A c \in Conns : WF_vars(Serve(c))

----------------------------------------------------------------------------
\* A request with a Content-Length that fits the buffer together with its
\* headers, sent in at most two pieces of which the first holds the headers, is
\* handed over whole and without the headers, unless its client left early:
\* one read or two, whichever way they meet the pieces.
TwoReadsSuffice ==
  \A c \in Conns :
    LET k == conn[c]
    IN (/\ k.pc \in {"handle", "handled"} /\ k.req.kind = "sized"
        /\ Total(k.req) < BufSize /\ k.cuts <= 2 /\ k.sent = Total(k.req))
         => (k.got = Total(k.req) /\ k.start = k.req.head) \/ k.gone

\* Threads of clients use rpc until they end, and evmdb_rpc_destroy waits for
\* none of them: what keeps it from freeing rpc under them is only that the
\* accept loop goes on through every error.  As long as nobody calls
\* evmdb_rpc_stop, rpc outlives its threads.
RpcOutlivesThreads ==
  main = "freed" /\ stop = "no" =>
    \A c \in Conns : conn[c].pc \notin {"read", "extra", "handle", "handled"}

\* server.c, 108: "Read remaining body if we haven't received it all".  What
\* reaches the dispatcher of a request the buffer holds is the whole request,
\* unless the client left early.
HandlesWholeRequest ==
  \A c \in Conns :
    LET k == conn[c]
    IN (/\ k.pc \in {"handle", "handled"} /\ k.req.kind = "sized"
        /\ Total(k.req) < BufSize)
         => k.got = Total(k.req) \/ k.gone

\* An accepted socket is closed once the client has sent its request or has
\* left, on every path of handle_client, even while the server stops; only a
\* client that stays and does not receive a large answer holds thread and
\* socket for as long as it likes, for the write has no timeout.
ConnectionsAreClosed ==
  \A c \in Conns :
    (conn[c].fd /\ (conn[c].sent = Total(conn[c].req) \/ conn[c].gone))
      ~> \/ ~conn[c].fd
         \/ /\ conn[c].pc = "handled" /\ conn[c].answer = "large"
            /\ ~conn[c].taken /\ ~conn[c].gone

\* rpc.h, 19: "Blocks until evmdb_rpc_stop() is called".  A stop that finds
\* the server listening ends the process, even one that races accept.
StopIsHeard == (stop = "done" /\ heard) ~> (main = "exit")

\* main.c, 68: "Blocks until evmdb_rpc_stop() or SIGINT".
SignalStops == (~g_running) ~> (main = "exit")

=============================================================================
