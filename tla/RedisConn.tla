----------------------------- MODULE RedisConn -----------------------------
(***************************************************************************)
(* One evmdb_state_* call in detail (src/src/state/redis_state.c): take    *)
(* state->lock, let redisCommand send a request and wait for a reply on    *)
(* the one hiredis context all threads share, release the lock.  hiredis   *)
(* does not tag replies: redisCommand returns the next reply on the        *)
(* socket, whoever asked for it.  Redis executes requests in the order     *)
(* they arrive.  This module shows why RedisState may treat a call as one  *)
(* atomic step; the command is a read or a write of one key.               *)
(***************************************************************************)
EXTENDS Integers, Sequences

CONSTANTS
  Threads,     \* client threads
  Values,      \* values of the key; 0 is what a missing key reads as
  None,        \* no holder
  CanLose,     \* whether the connection may break
  MaxCalls     \* bound on the calls of one thread

ASSUME ConnAssumption ==
  /\ None \notin Threads /\ Values \subseteq Nat /\ 0 \in Values
  /\ CanLose \in BOOLEAN /\ MaxCalls \in Nat

VARIABLES
  lock,        \* the holder of state->lock
  pc,          \* where each thread is in its call
  cmd,         \* the command of each thread's call
  out,         \* requests on the way to Redis
  in,          \* replies on the way back
  key,         \* the value Redis holds
  err,         \* ctx->err: set by the first I/O error, never cleared
  calls,       \* calls made per thread
  reply,       \* what each thread's last call returned
  due          \* history: the reply Redis gave to each thread's last command

vars == <<lock, pc, cmd, out, in, key, err, calls, reply, due>>

Cmds == [op : {"get", "set"}, v : Values]
Get == [op |-> "get", v |-> 0]
Lost == [op |-> "lost", v |-> 0]
Requests == [from : Threads, cmd : Cmds]

TypeOK ==
  /\ lock \in Threads \cup {None}
  /\ pc \in [Threads -> {"idle", "lock", "send", "wait", "unlock"}]
  /\ cmd \in [Threads -> Cmds]
  /\ out \in Seq(Requests)
  /\ in \in Seq(Cmds)
  /\ key \in Values
  /\ err \in BOOLEAN
  /\ calls \in [Threads -> Nat]
  /\ reply \in [Threads -> Cmds \cup {Lost}]
  /\ due \in [Threads -> Cmds \cup {Lost}]

Init ==
  /\ lock = None
  /\ pc = [t \in Threads |-> "idle"]
  /\ cmd = [t \in Threads |-> Get]
  /\ out = <<>> /\ in = <<>>
  /\ key = 0 /\ err = FALSE
  /\ calls = [t \in Threads |-> 0]
  /\ reply = [t \in Threads |-> Lost]
  /\ due = [t \in Threads |-> Lost]

At(t, from, to) == pc[t] = from /\ pc' = [pc EXCEPT ![t] = to]

\* A handler calls a getter or a setter.
evmdb_state_call(t, c) ==
  /\ At(t, "idle", "lock") /\ calls[t] < MaxCalls
  /\ calls' = [calls EXCEPT ![t] = @ + 1]
  /\ cmd' = [cmd EXCEPT ![t] = c]
  /\ reply' = [reply EXCEPT ![t] = Lost] /\ due' = [due EXCEPT ![t] = Lost]
  /\ UNCHANGED <<lock, out, in, key, err>>

pthread_mutex_lock_missing(t) ==
  /\ At(t, "lock", "send")
  /\ lock' = t
  /\ UNCHANGED <<cmd, out, in, key, err, calls, reply, due>>

pthread_mutex_lock(t) ==
  /\ At(t, "lock", "send")
  /\ lock = None
  /\ lock' = t
  /\ UNCHANGED <<cmd, out, in, key, err, calls, reply, due>>

redis_send_unlocks(t) ==
  /\ ~err /\ At(t, "send", "wait") /\ lock' = None
  /\ out' = Append(out, [from |-> t, cmd |-> cmd[t]])
  /\ UNCHANGED <<cmd, in, key, err, calls, reply, due>>

\* The first half of redisCommand; a context in error sends nothing and
\* returns NULL.
redis_send(t) ==
  /\ \/ ~err /\ At(t, "send", "wait")
        /\ out' = Append(out, [from |-> t, cmd |-> cmd[t]])
     \/ err /\ At(t, "send", "unlock") /\ UNCHANGED out
  /\ UNCHANGED <<lock, cmd, in, key, err, calls, reply, due>>

\* Redis executes the oldest request and sends the reply, to no one when the
\* connection is gone.
redis_server ==
  /\ out # <<>>
  /\ LET r == Head(out)
         answer == IF r.cmd.op = "get" THEN [op |-> "get", v |-> key] ELSE r.cmd
     IN /\ key' = answer.v
        /\ in' = IF err THEN in ELSE Append(in, answer)
        /\ due' = [due EXCEPT ![r.from] = answer]
  /\ out' = Tail(out)
  /\ UNCHANGED <<lock, pc, cmd, err, calls, reply>>

redis_receive_status(t) ==
  /\ At(t, "wait", "unlock")
  /\ in # <<>>
  /\ reply' = [reply EXCEPT ![t] = [op |-> "status", v |-> Head(in).v]]
  /\ in' = Tail(in)
  /\ UNCHANGED <<lock, cmd, out, key, err, calls, due>>

\* The second half of redisCommand: the next reply on the socket.
redis_receive(t) ==
  /\ At(t, "wait", "unlock")
  /\ in # <<>>
  /\ reply' = [reply EXCEPT ![t] = Head(in)]
  /\ in' = Tail(in)
  /\ UNCHANGED <<lock, cmd, out, key, err, calls, due>>

redis_break_forgotten(t) ==
  /\ CanLose /\ ~err
  /\ At(t, "wait", "unlock")
  /\ UNCHANGED <<lock, cmd, out, in, key, err, calls, reply, due>>

\* Or NULL when the connection breaks; the request may be lost with it, or
\* still reach Redis.
redis_break(t) ==
  /\ CanLose /\ ~err
  /\ At(t, "wait", "unlock")
  /\ err' = TRUE /\ out' \in {out, <<>>} /\ in' = <<>>
  /\ UNCHANGED <<lock, cmd, key, calls, reply, due>>

pthread_mutex_unlock_missing(t) ==
  /\ At(t, "unlock", "idle")
  /\ UNCHANGED <<lock, cmd, out, in, key, err, calls, reply, due>>

pthread_mutex_unlock(t) ==
  /\ At(t, "unlock", "idle")
  /\ lock' = None
  /\ UNCHANGED <<cmd, out, in, key, err, calls, reply, due>>

Quiet ==
  /\ \A t \in Threads : pc[t] = "idle" /\ calls[t] = MaxCalls
  /\ UNCHANGED vars

Locked(t) ==
  \/ pthread_mutex_lock(t) \/ redis_send(t) \/ redis_receive(t)
  \/ pthread_mutex_unlock(t)

Next ==
  \/ \E t \in Threads :
       \/ \E c \in {Get} \cup [op : {"set"}, v : Values] : evmdb_state_call(t, c)
       \/ Locked(t)
       \/ redis_break(t)
  \/ redis_server
  \/ Quiet

Spec == Init /\ [][Next]_vars

\* The kernel runs every thread that can run, and Redis answers.
FairSpec == Spec /\ WF_vars(redis_server) /\ \A t \in Threads : WF_vars(Locked(t))

----------------------------------------------------------------------------
\* Between two calls nothing of the finished ones is left on the shared
\* context, and a call returns the reply Redis gave to that very command,
\* or a failure; it never takes the reply to another thread's command.
OwnReply ==
  /\ \A t \in Threads : pc[t] \in {"idle", "unlock"} /\ reply[t] # Lost =>
       reply[t] = due[t] /\ reply[t].op = cmd[t].op
  /\ lock = None /\ ~err => out = <<>> /\ in = <<>>

\* There is never more than one request or reply on the connection, and a
\* request Redis is about to execute is the lock holder's, which waits for
\* it: commands of different calls take effect one whole call at a time.
OneCommandAtATime ==
  /\ Len(out) + Len(in) <= 1
  /\ ~err => \A i \in DOMAIN out : out[i].from = lock /\ pc[out[i].from] = "wait"

\* Where each call is for its caller: a call has come to its end once the lock
\* is about to be released.
phaseBar == [t \in Threads |->
  CASE pc[t] \in {"lock", "send"} -> "pending"
    [] pc[t] = "wait" -> IF due[t] = Lost THEN "pending" ELSE "applied"
    [] OTHER -> "idle"]
answerBar == [t \in Threads |-> IF pc[t] = "wait" THEN due[t] ELSE Lost]
lateBar == IF err THEN {out[i].cmd : i \in DOMAIN out} ELSE {}

\* The calls of all threads together behave as one atomic store: each takes
\* effect at one instant, which is when Redis executes it, and the reply its
\* thread gets is the one from that instant, whoever else is calling.
Store == INSTANCE AtomicStore WITH
  phase <- phaseBar, answer <- answerBar, broken <- err, late <- lateBar
ImplementsAtomicStore == Store!Spec

\* Every call returns: no thread waits for ever on the lock or on a reply.
EveryCallReturns == \A t \in Threads : (pc[t] = "lock") ~> (pc[t] = "idle")

=============================================================================
