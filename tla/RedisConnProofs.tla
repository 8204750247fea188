-------------------------- MODULE RedisConnProofs --------------------------
(***************************************************************************)
(* Proofs about RedisConn, for any number of threads, values and calls:    *)
(* the lock gives every thread its own reply, and the connection as a      *)
(* whole implements the atomic store.                                      *)
(***************************************************************************)
EXTENDS RedisConn, TLAPS

----------------------------------------------------------------------------
(* The inductive invariant.                                                *)

\* The thread between the lock and the unlock is the holder of the lock.
Exclusive ==
  \A t \in Threads : pc[t] \in {"send", "wait", "unlock"} <=> lock = t

Request(t) == [from |-> t, cmd |-> cmd[t]]

\* Nothing of a call is on the connection.
Clear == out = <<>> /\ in = <<>>

\* The request of a call is under way, or its reply.
Asked(t) == out = <<Request(t)>> /\ in = <<>> /\ due[t] = Lost
Replied(t) ==
  out = <<>> /\ in = <<due[t]>> /\ due[t] # Lost /\ due[t].op = cmd[t].op

\* While the context is in order the connection holds what the waiting thread
\* is waiting for and nothing else.
InOrder ==
  ~err =>
    /\ (\A t \in Threads : pc[t] # "wait") => Clear
    /\ \A t \in Threads : pc[t] = "wait" => Asked(t) \/ Replied(t)

\* Once it is in error nobody waits; the one request that may be left is that
\* of a thread whose calls fail from then on.
InError ==
  err =>
    /\ \A t \in Threads : pc[t] # "wait"
    /\ in = <<>>
    /\ out # <<>> => \E t \in Threads, c \in Cmds :
         out = <<[from |-> t, cmd |-> c]>> /\ reply[t] = Lost

\* What a thread holds of its call before and after the reply.
Results ==
  \A t \in Threads :
    /\ pc[t] \in {"lock", "send", "wait"} => reply[t] = Lost
    /\ pc[t] \in {"lock", "send"} /\ ~err => due[t] = Lost
    /\ pc[t] \in {"idle", "unlock"} /\ reply[t] # Lost =>
         reply[t] = due[t] /\ reply[t].op = cmd[t].op

ConnInv == TypeOK /\ Exclusive /\ InOrder /\ InError /\ Results

\* A queue of one.
LEMMA AppendOne == ASSUME NEW x PROVE Append(<<>>, x) = <<x>>
OBVIOUS

\* Taking from a queue of one.
LEMMA TakeOne ==
  ASSUME NEW x
  PROVE  Head(<<x>>) = x /\ Tail(<<x>>) = <<>> /\ <<x>> # <<>>
OBVIOUS

\* The types of queues.
LEMMA EmptyType == ASSUME NEW S PROVE <<>> \in Seq(S)
OBVIOUS

\* A queue of one is a queue.
LEMMA OneType == ASSUME NEW S, NEW x \in S PROVE <<x>> \in Seq(S)
OBVIOUS

\* A queue stays one when it grows.
LEMMA AppendType ==
  ASSUME NEW S, NEW q \in Seq(S), NEW x \in S PROVE Append(q, x) \in Seq(S)
OBVIOUS

\* A command other than Lost names what it is an answer to.
LEMMA CmdNotLost == \A c \in Cmds : c # Lost /\ c.op \in {"get", "set"} /\ c.v \in Values
BY DEF Cmds, Lost

\* Nothing is sent or owed at the start.
LEMMA InitConn == Init => ConnInv
<1>. SUFFICES ASSUME Init PROVE ConnInv
  OBVIOUS
<1>0. Get \in Cmds /\ Lost \in Cmds \cup {Lost}
  BY ConnAssumption DEF Cmds, Get
<1>1. TypeOK
  BY <1>0, EmptyType, ConnAssumption DEF Init, TypeOK
<1>2. Exclusive
  BY ConnAssumption DEF Init, Exclusive
<1>3. InOrder /\ InError /\ Results
  BY DEF Init, InOrder, InError, Results, Clear
<1>. QED
  BY <1>1, <1>2, <1>3 DEF ConnInv

\* A call begins: the connection is not touched.
LEMMA CallConn ==
  ASSUME ConnInv, NEW t \in Threads, NEW c \in {Get} \cup [op : {"set"}, v : Values],
         evmdb_state_call(t, c)
  PROVE  ConnInv'
<1>. USE DEF ConnInv, evmdb_state_call, At
<1>0. c \in Cmds
  BY ConnAssumption DEF Cmds, Get
<1>1. TypeOK'
  BY <1>0 DEF TypeOK
<1>2. Exclusive'
  BY DEF TypeOK, Exclusive
<1>3. InOrder'
  BY DEF TypeOK, InOrder, Clear, Asked, Replied, Request
<1>4. InError'
  BY DEF TypeOK, InError
<1>5. Results'
  BY DEF TypeOK, Results
<1>. QED
  BY <1>1, <1>2, <1>3, <1>4, <1>5

\* The mutex goes to a thread only when no one holds it.
LEMMA LockConn ==
  ASSUME ConnInv, NEW t \in Threads, pthread_mutex_lock(t)
  PROVE  ConnInv'
<1>. USE DEF ConnInv, pthread_mutex_lock, At
<1>1. TypeOK'
  BY DEF TypeOK
<1>2. Exclusive'
  BY ConnAssumption DEF TypeOK, Exclusive
<1>3. InOrder'
  BY DEF TypeOK, InOrder, Clear, Asked, Replied, Request
<1>4. InError'
  BY DEF TypeOK, InError
<1>5. Results'
  BY DEF TypeOK, Results
<1>. QED
  BY <1>1, <1>2, <1>3, <1>4, <1>5

\* The holder's command is the only one under way.
LEMMA SendConn ==
  ASSUME ConnInv, NEW t \in Threads, redis_send(t)
  PROVE  ConnInv'
<1>. USE DEF ConnInv, redis_send, At
<1>0. pc[t] = "send" /\ lock = t /\ \A u \in Threads : pc[u] # "wait"
  BY DEF TypeOK, Exclusive
<1>1. TypeOK'
  <2>1. Request(t) \in Requests
    BY DEF TypeOK, Request, Requests
  <2>2. out' = out \/ out' = Append(out, Request(t))
    BY DEF Request
  <2>3. out \in Seq(Requests)
    BY DEF TypeOK
  <2>4. Append(out, Request(t)) \in Seq(Requests)
    BY <2>1, <2>3, AppendType, Zenon
  <2>5. out' \in Seq(Requests)
    BY <2>2, <2>3, <2>4
  <2>. QED
    BY <2>5 DEF TypeOK
<1>2. Exclusive'
  BY <1>0 DEF TypeOK, Exclusive
<1>3. InOrder'
  <2>1. CASE err
    BY <2>1 DEF InOrder
  <2>2. CASE ~err
    <3>1. out' = <<Request(t)>> /\ in' = <<>>
      BY <1>0, <2>2, AppendOne DEF InOrder, Clear, Request
    <3>2. due[t] = Lost
      BY <1>0, <2>2 DEF Results
    <3>3. pc'[t] = "wait" /\ \A u \in Threads : pc'[u] = "wait" => u = t
      BY <1>0, <2>2 DEF TypeOK
    <3>. QED
      BY <3>1, <3>2, <3>3 DEF InOrder, Asked, Request
  <2>. QED
    BY <2>1, <2>2
<1>4. InError'
  BY <1>0 DEF TypeOK, InError
<1>5. Results'
  BY <1>0 DEF TypeOK, Results
<1>. QED
  BY <1>1, <1>2, <1>3, <1>4, <1>5

\* Redis executes a request: the one a thread waits for, or the one left behind
\* by the call that broke the connection.
LEMMA ServerConn ==
  ASSUME ConnInv, redis_server
  PROVE  ConnInv'
<1>. DEFINE r == Head(out)
            answer == IF r.cmd.op = "get" THEN [op |-> "get", v |-> key] ELSE r.cmd
<1>0. /\ out # <<>> /\ out' = Tail(out)
      /\ key' = answer.v
      /\ in' = IF err THEN in ELSE Append(in, answer)
      /\ due' = [due EXCEPT ![r.from] = answer]
      /\ UNCHANGED <<lock, pc, cmd, err, calls, reply>>
  BY DEF redis_server
<1>1. PICK t \in Threads, c \in Cmds :
        /\ out = <<[from |-> t, cmd |-> c]>> /\ reply[t] = Lost /\ in = <<>>
        /\ ~err => pc[t] = "wait" /\ c = cmd[t]
  <2>1. CASE err
    BY <1>0, <2>1 DEF ConnInv, InError
  <2>2. CASE ~err
    <3>1. PICK t \in Threads : pc[t] = "wait"
      BY <1>0, <2>2 DEF ConnInv, InOrder, Clear
    <3>2. Asked(t)
      BY <1>0, <2>2, <3>1 DEF ConnInv, InOrder, Replied
    <3>3. cmd[t] \in Cmds /\ reply[t] = Lost
      BY <3>1 DEF ConnInv, TypeOK, Results
    <3>. QED
      BY <3>1, <3>2, <3>3, <2>2 DEF Asked, Request
  <2>. QED
    BY <2>1, <2>2
<1>2. r = [from |-> t, cmd |-> c] /\ out' = <<>>
  BY <1>0, <1>1, TakeOne
<1>3. r.from = t /\ r.cmd = c
  BY <1>2
<1>4. answer \in Cmds /\ answer.op = c.op /\ answer # Lost /\ answer.v \in Values
  BY <1>3, CmdNotLost DEF ConnInv, TypeOK, Cmds
<1>. HIDE DEF answer
<1>5. in' = IF err THEN <<>> ELSE <<answer>>
  BY <1>0, <1>1, AppendOne
<1>6. due' = [due EXCEPT ![t] = answer]
  BY <1>0, <1>3
<1>. HIDE DEF r
<1>7. TypeOK'
  <2>1. out' \in Seq(Requests)
    BY <1>2, EmptyType
  <2>2. in' \in Seq(Cmds)
    BY <1>4, <1>5, EmptyType, OneType
  <2>. QED
    BY <2>1, <2>2, <1>0, <1>4, <1>6 DEF ConnInv, TypeOK
<1>8. Exclusive'
  BY <1>0 DEF ConnInv, Exclusive
<1>9. InOrder'
  <2>. SUFFICES ASSUME ~err'
                PROVE  InOrder'
    BY DEF InOrder
  <2>1. pc'[t] = "wait" /\ c = cmd'[t]
    BY <1>0, <1>1
  <2>2. \A u \in Threads : pc[u] = "wait" => u = t
    BY <2>1, <1>0 DEF ConnInv, Exclusive
  <2>3. due'[t] = answer
    BY <1>6 DEF ConnInv, TypeOK
  <2>4. Replied(t)'
    BY <2>1, <2>3, <1>0, <1>2, <1>4, <1>5 DEF Replied
  <2>. QED
    BY <2>1, <2>2, <2>4, <1>0 DEF InOrder
<1>10. InError'
  BY <1>0, <1>2, <1>5 DEF ConnInv, InError
<1>11. Results'
  <2>. SUFFICES ASSUME NEW u \in Threads
                PROVE  /\ pc'[u] \in {"lock", "send", "wait"} => reply'[u] = Lost
                       /\ pc'[u] \in {"lock", "send"} /\ ~err' => due'[u] = Lost
                       /\ pc'[u] \in {"idle", "unlock"} /\ reply'[u] # Lost =>
                            reply'[u] = due'[u] /\ reply'[u].op = cmd'[u].op
    BY DEF Results
  <2>1. CASE u = t
    BY <2>1, <1>0, <1>1 DEF ConnInv, Results
  <2>2. CASE u # t
    <3>1. due'[u] = due[u]
      BY <2>2, <1>6 DEF ConnInv, TypeOK
    <3>. QED
      BY <3>1, <1>0 DEF ConnInv, Results
  <2>. QED
    BY <2>1, <2>2
<1>. QED
  BY <1>7, <1>8, <1>9, <1>10, <1>11 DEF ConnInv

\* A waiting thread takes its own reply.
LEMMA ReceiveConn ==
  ASSUME ConnInv, NEW t \in Threads, redis_receive(t)
  PROVE  ConnInv' /\ Replied(t) /\ ~err
<1>. USE DEF ConnInv, redis_receive, At
<1>0. /\ pc[t] = "wait" /\ ~err /\ lock = t
      /\ \A u \in Threads : pc[u] = "wait" => u = t
  BY DEF InError, Exclusive
<1>1. Replied(t)
  BY <1>0 DEF InOrder, Asked
<1>2. in' = <<>> /\ out' = <<>> /\ reply' = [reply EXCEPT ![t] = due[t]]
  BY <1>1, TakeOne DEF Replied
<1>3. TypeOK'
  BY <1>2, EmptyType DEF TypeOK
<1>4. Exclusive'
  BY <1>0 DEF TypeOK, Exclusive
<1>5. InOrder' /\ InError'
  BY <1>0, <1>2 DEF TypeOK, InOrder, InError, Clear
<1>6. Results'
  BY <1>0, <1>1, <1>2 DEF TypeOK, Results, Replied
<1>. QED
  BY <1>0, <1>1, <1>3, <1>4, <1>5, <1>6

\* The connection breaks under the waiting thread.
LEMMA BreakConn ==
  ASSUME ConnInv, NEW t \in Threads, redis_break(t)
  PROVE  ConnInv' /\ (Asked(t) \/ Replied(t))
<1>. USE DEF ConnInv, redis_break, At
<1>0. /\ pc[t] = "wait" /\ ~err /\ lock = t
      /\ \A u \in Threads : pc[u] = "wait" => u = t
  BY DEF Exclusive
<1>1. Asked(t) \/ Replied(t)
  BY <1>0 DEF InOrder
<1>2. UNCHANGED reply /\ (out' = <<>> \/ out' = <<Request(t)>>)
  BY <1>1 DEF Asked, Replied
<1>3. TypeOK'
  BY EmptyType DEF TypeOK
<1>4. Exclusive'
  BY <1>0 DEF TypeOK, Exclusive
<1>5. InOrder'
  BY <1>0 DEF InOrder
<1>6. InError'
  <2>1. \A u \in Threads : pc'[u] # "wait"
    BY <1>0 DEF TypeOK
  <2>2. reply'[t] = Lost /\ cmd[t] \in Cmds
    BY <1>0 DEF TypeOK, Results
  <2>. QED
    BY <2>1, <2>2, <1>2 DEF InError, Request
<1>7. Results'
  BY <1>0 DEF TypeOK, Results
<1>. QED
  BY <1>1, <1>3, <1>4, <1>5, <1>6, <1>7

\* The mutex is given back with nothing under way.
LEMMA UnlockConn ==
  ASSUME ConnInv, NEW t \in Threads, pthread_mutex_unlock(t)
  PROVE  ConnInv'
<1>. USE DEF ConnInv, pthread_mutex_unlock, At
<1>1. TypeOK'
  BY DEF TypeOK
<1>2. Exclusive'
  BY ConnAssumption DEF TypeOK, Exclusive
<1>3. InOrder'
  BY DEF TypeOK, InOrder, Clear, Asked, Replied, Request
<1>4. InError'
  BY DEF TypeOK, InError
<1>5. Results'
  BY DEF TypeOK, Results
<1>. QED
  BY <1>1, <1>2, <1>3, <1>4, <1>5

\* Every step keeps ConnInv.
LEMMA NextConn == ConnInv /\ [Next]_vars => ConnInv'
<1>. SUFFICES ASSUME ConnInv, [Next]_vars PROVE ConnInv'
  OBVIOUS
<1>1. CASE UNCHANGED vars
  BY <1>1 DEF vars, ConnInv, TypeOK, Exclusive, InOrder, InError, Results, Clear,
              Asked, Replied, Request
<1>2. CASE Quiet
  BY <1>1, <1>2 DEF Quiet
<1>3. ASSUME NEW t \in Threads, Locked(t)
      PROVE  ConnInv'
  BY <1>3, LockConn, SendConn, ReceiveConn, UnlockConn DEF Locked
<1>. QED
  BY <1>1, <1>2, <1>3, CallConn, ServerConn, BreakConn DEF Next

\* ConnInv holds throughout.
LEMMA ConnInvariant == Spec => []ConnInv
BY InitConn, NextConn, PTL DEF Spec

----------------------------------------------------------------------------
\* No step leaves the types of the connection's state, whatever breaks.
THEOREM ConnTypeCorrect == Spec => []TypeOK
BY ConnInvariant, PTL DEF ConnInv

\* A call returns Redis's reply to its own command or a failure, and leaves
\* nothing on the context, however many threads share it (redis_state.c).
THEOREM EachCallItsReply == Spec => []OwnReply
<1>1. ConnInv => OwnReply
  <2>. SUFFICES ASSUME ConnInv PROVE OwnReply
    OBVIOUS
  <2>1. lock = None /\ ~err => out = <<>> /\ in = <<>>
    BY ConnAssumption DEF ConnInv, Exclusive, InOrder, Clear
  <2>. QED
    BY <2>1 DEF ConnInv, Results, OwnReply
<1>. QED
  BY <1>1, ConnInvariant, PTL

\* At most one command is on the connection, and it is the lock holder's: the
\* calls of all threads take effect one after the other.
THEOREM CommandsAreSerial == Spec => []OneCommandAtATime
<1>1. ConnInv => OneCommandAtATime
  <2>. SUFFICES ASSUME ConnInv PROVE OneCommandAtATime
    OBVIOUS
  <2>1. CASE err
    <3>1. in = <<>> /\ (out = <<>> \/ \E x \in Requests : out = <<x>>)
      BY <2>1 DEF ConnInv, InError, Requests
    <3>2. Len(in) = 0 /\ (Len(out) = 0 \/ Len(out) = 1)
      BY <3>1
    <3>3. Len(out) + Len(in) <= 1
      <4>1. \A m, n : n = 0 /\ (m = 0 \/ m = 1) => m + n <= 1
        OBVIOUS
      <4>. QED
        BY <3>2, <4>1, Zenon
    <3>. QED
      BY <3>3, <2>1, Zenon DEF OneCommandAtATime
  <2>2. CASE ~err /\ Clear
    BY <2>2 DEF OneCommandAtATime, Clear
  <2>3. ASSUME NEW t \in Threads, pc[t] = "wait", ~err
        PROVE  OneCommandAtATime
    <3>1. lock = t
      BY <2>3 DEF ConnInv, Exclusive
    <3>2. CASE Asked(t)
      <4>1. DOMAIN out = {1} /\ out[1] = Request(t) /\ Len(out) = 1 /\ Len(in) = 0
        BY <3>2 DEF Asked
      <4>. QED
        BY <4>1, <3>1, <2>3 DEF OneCommandAtATime, Request
    <3>3. CASE Replied(t)
      <4>1. DOMAIN out = {} /\ Len(out) = 0 /\ Len(in) = 1
        BY <3>3 DEF Replied
      <4>. QED
        BY <4>1 DEF OneCommandAtATime
    <3>. QED
      BY <3>2, <3>3, <2>3 DEF ConnInv, InOrder
  <2>. QED
    BY <2>1, <2>2, <2>3 DEF ConnInv, InOrder
<1>. QED
  BY <1>1, ConnInvariant, PTL

----------------------------------------------------------------------------
(* The atomic store, step by step.                                         *)

Bars == <<key, phaseBar, cmd, answerBar, reply, err, lateBar>>

\* What the mapping says of one thread.
PhaseOf(t) ==
  CASE pc[t] \in {"lock", "send"} -> "pending"
    [] pc[t] = "wait" -> IF due[t] = Lost THEN "pending" ELSE "applied"
    [] OTHER -> "idle"

\* A step that moves one thread moves the mapped phase of that thread only.
LEMMA PhaseStep ==
  ASSUME NEW t \in Threads, NEW to, PhaseOf(t)' = to,
         \A u \in Threads \ {t} : PhaseOf(u)' = PhaseOf(u)
  PROVE  phaseBar' = [phaseBar EXCEPT ![t] = to]
BY DEF phaseBar, PhaseOf

AnswerOf(t) == IF pc[t] = "wait" THEN due[t] ELSE Lost

\* How the mapped answer of one thread changes.
LEMMA AnswerStep ==
  ASSUME NEW t \in Threads, NEW to, AnswerOf(t)' = to,
         \A u \in Threads \ {t} : AnswerOf(u)' = AnswerOf(u)
  PROVE  answerBar' = [answerBar EXCEPT ![t] = to]
BY DEF answerBar, AnswerOf

\* The threads a step does not touch keep their place in the mapping.
LEMMA OthersKeep ==
  ASSUME NEW t \in Threads, TypeOK,
         \E to : pc' = [pc EXCEPT ![t] = to],
         UNCHANGED due \/ (\E d : due' = [due EXCEPT ![t] = d])
  PROVE  \A u \in Threads \ {t} : PhaseOf(u)' = PhaseOf(u) /\ AnswerOf(u)' = AnswerOf(u)
<1>1. ASSUME NEW u \in Threads \ {t}
      PROVE  pc'[u] = pc[u] /\ due'[u] = due[u]
  BY DEF TypeOK
<1>. QED
  BY <1>1 DEF PhaseOf, AnswerOf

\* The initial states map to initial states.
LEMMA InitStore == Init => Store!Init
BY DEF Init, Store!Init, Store!Get, Store!Failure, Get, Lost, phaseBar, answerBar, lateBar

\* A new call.
LEMMA CallStore ==
  ASSUME ConnInv, NEW t \in Threads, NEW c \in {Get} \cup [op : {"set"}, v : Values],
         evmdb_state_call(t, c)
  PROVE  Store!Next
<1>1. c \in Store!Cmds
  BY DEF Store!Cmds, Store!Get, Get
<1>2. /\ pc[t] = "idle" /\ pc'[t] = "lock"
      /\ \A u \in Threads \ {t} : PhaseOf(u)' = PhaseOf(u) /\ AnswerOf(u)' = AnswerOf(u)
  BY OthersKeep DEF ConnInv, TypeOK, evmdb_state_call, At
<1>3. phaseBar[t] = "idle" /\ phaseBar' = [phaseBar EXCEPT ![t] = "pending"]
  BY <1>2, PhaseStep DEF phaseBar, PhaseOf
<1>4. answerBar' = answerBar
  BY <1>2 DEF answerBar, AnswerOf
<1>5. lateBar' = lateBar
  BY DEF lateBar, evmdb_state_call
<1>6. Store!Call(t, c)
  BY <1>3, <1>4, <1>5 DEF Store!Call, Store!Failure, Lost, evmdb_state_call
<1>. QED
  BY <1>1, <1>6 DEF Store!Next

\* Taking and releasing the lock, and sending, cannot be seen.
LEMMA LockStore ==
  ASSUME ConnInv, NEW t \in Threads, pthread_mutex_lock(t) \/ pthread_mutex_unlock(t)
  PROVE  UNCHANGED Bars
<1>1. /\ \/ pc[t] = "lock" /\ pc'[t] = "send"
         \/ pc[t] = "unlock" /\ pc'[t] = "idle"
      /\ UNCHANGED <<cmd, out, in, key, err, calls, reply, due>>
      /\ \A u \in Threads \ {t} : PhaseOf(u)' = PhaseOf(u) /\ AnswerOf(u)' = AnswerOf(u)
  BY OthersKeep DEF ConnInv, TypeOK, pthread_mutex_lock, pthread_mutex_unlock, At
<1>2. phaseBar' = phaseBar
  BY <1>1 DEF phaseBar, PhaseOf
<1>3. answerBar' = answerBar
  BY <1>1 DEF answerBar, AnswerOf
<1>. QED
  BY <1>1, <1>2, <1>3 DEF Bars, lateBar

\* Sending maps to a step of AtomicStore or to none.
LEMMA SendStore ==
  ASSUME ConnInv, NEW t \in Threads, redis_send(t)
  PROVE  Store!Next \/ UNCHANGED Bars
<1>0. /\ pc[t] = "send" /\ UNCHANGED <<lock, cmd, in, key, err, calls, reply, due>>
      /\ \A u \in Threads \ {t} : PhaseOf(u)' = PhaseOf(u) /\ AnswerOf(u)' = AnswerOf(u)
  BY OthersKeep DEF ConnInv, TypeOK, redis_send, At
<1>1. CASE ~err
  <2>1. pc'[t] = "wait" /\ due[t] = Lost
    BY <1>0, <1>1 DEF ConnInv, TypeOK, Results, redis_send, At
  <2>2. phaseBar' = phaseBar
    BY <1>0, <2>1 DEF phaseBar, PhaseOf
  <2>3. answerBar' = answerBar
    BY <1>0, <2>1 DEF answerBar, AnswerOf
  <2>. QED
    BY <1>0, <1>1, <2>2, <2>3 DEF Bars, lateBar
<1>2. CASE err
  <2>1. pc'[t] = "unlock" /\ UNCHANGED out
    BY <1>2 DEF ConnInv, TypeOK, redis_send, At
  <2>2. phaseBar[t] = "pending" /\ phaseBar' = [phaseBar EXCEPT ![t] = "idle"]
    BY <1>0, <2>1, PhaseStep DEF phaseBar, PhaseOf
  <2>3. answerBar' = [answerBar EXCEPT ![t] = Lost]
    BY <1>0, <2>1, AnswerStep DEF AnswerOf
  <2>4. lateBar' = lateBar
    BY <1>0, <2>1 DEF lateBar
  <2>5. Store!Fail(t)
    BY <1>0, <1>2, <2>2, <2>3, <2>4 DEF Store!Fail, Store!Failure, Lost, ConnInv, TypeOK
  <2>. QED
    BY <2>5 DEF Store!Next
<1>. QED
  BY <1>1, <1>2

\* The instant a call takes effect is when Redis executes its command.
LEMMA ServerStore ==
  ASSUME ConnInv, redis_server
  PROVE  Store!Next
<1>. DEFINE r == Head(out)
<1>0. /\ out # <<>> /\ out' = Tail(out)
      /\ key' = Store!Result(r.cmd).v
      /\ due' = [due EXCEPT ![r.from] = Store!Result(r.cmd)]
      /\ UNCHANGED <<lock, pc, cmd, err, calls, reply>>
  BY DEF redis_server, Store!Result
<1>1. CASE err
  <2>1. PICK t \in Threads, c \in Cmds : out = <<[from |-> t, cmd |-> c]>>
    BY <1>0, <1>1 DEF ConnInv, InError
  <2>2. r = [from |-> t, cmd |-> c] /\ out' = <<>>
    BY <1>0, <2>1, TakeOne
  <2>3. c \in lateBar /\ lateBar' = {}
    BY <1>0, <1>1, <2>1, <2>2 DEF lateBar
  <2>4. \A u \in Threads : pc[u] # "wait"
    BY <1>1 DEF ConnInv, InError
  <2>5. phaseBar' = phaseBar /\ answerBar' = answerBar
    BY <1>0, <2>4 DEF phaseBar, answerBar
  <2>6. key' = Store!Result(c).v
    BY <1>0, <2>2
  <2>7. Store!LateEffect
    BY <1>0, <2>3, <2>5, <2>6 DEF Store!LateEffect
  <2>. QED
    BY <2>7 DEF Store!Next
<1>2. CASE ~err
  <2>1. PICK t \in Threads : pc[t] = "wait"
    BY <1>0, <1>2 DEF ConnInv, InOrder, Clear
  <2>2. Asked(t)
    BY <1>0, <1>2, <2>1 DEF ConnInv, InOrder, Replied
  <2>3. r = Request(t)
    BY <2>2, TakeOne DEF Asked
  <2>4. r.from = t /\ r.cmd = cmd[t]
    BY <2>3 DEF Request
  <2>. DEFINE a == Store!Result(cmd[t])
  <2>5. a # Lost
    BY DEF Store!Result, ConnInv, TypeOK, Cmds, Lost
  <2>. HIDE DEF a
  <2>6. due' = [due EXCEPT ![t] = a] /\ due'[t] = a /\ key' = a.v
    BY <1>0, <2>4 DEF a, ConnInv, TypeOK
  <2>. HIDE DEF r
  <2>7. \A u \in Threads \ {t} : PhaseOf(u)' = PhaseOf(u) /\ AnswerOf(u)' = AnswerOf(u)
    <3>1. pc' = [pc EXCEPT ![t] = "wait"]
      BY <1>0, <2>1 DEF ConnInv, TypeOK
    <3>. QED
      BY <3>1, <2>6, OthersKeep DEF ConnInv
  <2>8. phaseBar[t] = "pending" /\ phaseBar' = [phaseBar EXCEPT ![t] = "applied"]
    BY <1>0, <2>1, <2>2, <2>5, <2>6, <2>7, PhaseStep DEF phaseBar, PhaseOf, Asked
  <2>9. answerBar' = [answerBar EXCEPT ![t] = a]
    BY <1>0, <2>1, <2>6, <2>7, AnswerStep DEF AnswerOf
  <2>10. lateBar' = lateBar
    BY <1>0, <1>2 DEF lateBar
  <2>11. Store!Apply(t)
    BY <1>0, <1>2, <2>6, <2>8, <2>9, <2>10 DEF Store!Apply, a
  <2>. QED
    BY <2>11 DEF Store!Next
<1>. QED
  BY <1>1, <1>2

\* Receiving a reply maps to a step of AtomicStore.
LEMMA ReceiveStore ==
  ASSUME ConnInv, NEW t \in Threads, redis_receive(t)
  PROVE  Store!Next
<1>1. /\ pc[t] = "wait" /\ pc'[t] = "unlock" /\ ~err
      /\ UNCHANGED <<lock, cmd, out, key, err, calls, due>>
      /\ \A u \in Threads \ {t} : PhaseOf(u)' = PhaseOf(u) /\ AnswerOf(u)' = AnswerOf(u)
  BY OthersKeep, ReceiveConn DEF ConnInv, TypeOK, redis_receive, At
<1>2. due[t] # Lost /\ reply' = [reply EXCEPT ![t] = due[t]]
  <2>1. Replied(t)
    BY ReceiveConn
  <2>. QED
    BY <2>1, TakeOne DEF Replied, redis_receive
<1>3. phaseBar[t] = "applied" /\ phaseBar' = [phaseBar EXCEPT ![t] = "idle"]
  BY <1>1, <1>2, PhaseStep DEF phaseBar, PhaseOf
<1>4. answerBar[t] = due[t] /\ answerBar' = [answerBar EXCEPT ![t] = Lost]
  BY <1>1, AnswerStep DEF answerBar, AnswerOf
<1>5. lateBar' = lateBar
  BY <1>1 DEF lateBar
<1>6. Store!Return(t)
  BY <1>1, <1>2, <1>3, <1>4, <1>5 DEF Store!Return, Store!Failure, Lost
<1>. QED
  BY <1>6 DEF Store!Next

\* A break fails the call; its command may be left behind.
LEMMA BreakStore ==
  ASSUME ConnInv, NEW t \in Threads, redis_break(t)
  PROVE  Store!Next
<1>1. /\ pc[t] = "wait" /\ pc'[t] = "unlock" /\ ~err /\ err' = TRUE /\ CanLose
      /\ UNCHANGED <<lock, cmd, key, calls, reply, due>> /\ out' \in {out, <<>>}
      /\ \A u \in Threads \ {t} : PhaseOf(u)' = PhaseOf(u) /\ AnswerOf(u)' = AnswerOf(u)
  BY OthersKeep DEF ConnInv, TypeOK, redis_break, At
<1>2. phaseBar[t] # "idle" /\ phaseBar' = [phaseBar EXCEPT ![t] = "idle"]
  BY <1>1, PhaseStep DEF phaseBar, PhaseOf
<1>3. answerBar' = [answerBar EXCEPT ![t] = Lost]
  BY <1>1, AnswerStep DEF AnswerOf
<1>4. lateBar = {}
  BY <1>1 DEF lateBar
<1>5. CASE Asked(t)
  <2>1. phaseBar[t] = "pending"
    BY <1>1, <1>5 DEF Asked, phaseBar
  <2>2. lateBar' \in {{}, {cmd[t]}}
    <3>1. CASE out' = <<>>
      BY <1>1, <3>1 DEF lateBar
    <3>2. CASE out' = <<Request(t)>>
      <4>1. DOMAIN out' = {1} /\ out'[1].cmd = cmd[t]
        BY <3>2 DEF Request
      <4>. QED
        BY <1>1, <4>1 DEF lateBar
    <3>. QED
      BY <3>1, <3>2, <1>1, <1>5 DEF Asked
  <2>3. Store!Fail(t)
    BY <1>1, <1>2, <1>3, <2>1, <2>2 DEF Store!Fail, Store!Failure, Lost
  <2>. QED
    BY <2>3 DEF Store!Next
<1>6. CASE Replied(t)
  <2>1. phaseBar[t] = "applied"
    BY <1>1, <1>6 DEF Replied, phaseBar
  <2>2. lateBar' = {}
    BY <1>1, <1>6 DEF Replied, lateBar
  <2>3. Store!Fail(t)
    BY <1>1, <1>2, <1>3, <1>4, <2>1, <2>2 DEF Store!Fail, Store!Failure, Lost
  <2>. QED
    BY <2>3 DEF Store!Next
<1>. QED
  BY <1>5, <1>6, BreakConn

\* The one shared connection with its lock implements the atomic store, for
\* any number of threads: a getter or setter of redis_state.c takes effect at
\* one instant and returns what the store held then, or fails for good.
THEOREM ConnImplementsStore == Spec => ImplementsAtomicStore
<1>1. ConnInv /\ [Next]_vars => [Store!Next]_Bars
  <2>. SUFFICES ASSUME ConnInv, [Next]_vars
                PROVE  Store!Next \/ UNCHANGED Bars
    OBVIOUS
  <2>1. CASE UNCHANGED vars
    BY <2>1 DEF vars, Bars, phaseBar, answerBar, lateBar
  <2>2. CASE Quiet
    BY <2>1, <2>2 DEF Quiet
  <2>3. ASSUME NEW t \in Threads, Locked(t)
        PROVE  Store!Next \/ UNCHANGED Bars
    BY <2>3, LockStore, SendStore, ReceiveStore DEF Locked
  <2>. QED
    BY <2>1, <2>2, <2>3, CallStore, ServerStore, BreakStore DEF Next
<1>. QED
  BY <1>1, InitStore, ConnInvariant, PTL
     DEF Spec, ImplementsAtomicStore, Store!Spec, Store!vars, Bars

=============================================================================
