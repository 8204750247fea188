-------------------------- MODULE TxPipelineProofs --------------------------
(***************************************************************************)
(* Proofs about TxPipeline for every set of threads, senders and           *)
(* transactions and every bound: first that state and locals agree; then   *)
(* what holds in every environment; last what holds for senders that keep  *)
(* one transaction in flight, on a Redis that does not fail, through       *)
(* crashes and retries.                                                    *)
(***************************************************************************)
EXTENDS TxPipeline, TLAPS

----------------------------------------------------------------------------
(* The locals of a thread agree with its program counter.                  *)

WithTx == {"get_nonce", "set_code", "commit", "set_nonce", "set_block_number",
           "set_receipt"}
WithTarget == {"get_code", "evm"}
Checked == {"set_code", "get_code", "evm", "commit", "set_nonce",
            "set_block_number", "set_receipt"}
Bumped == {"set_block_number", "set_receipt"}
Uncommitted == {"make_block_context", "get_nonce", "get_code", "evm"}

LocalOK(r) ==
  /\ r.pc = "idle" => r.tx = None
  /\ r.pc \in WithTx => r.tx \in Hashes
  /\ r.pc \in WithTarget => r.to \in Addr
  /\ r.tx # None => r.to = Tx[r.tx].to
  /\ r.pc \in Uncommitted => r.next = 1
  /\ r.pc = "commit" => r.next <= Len(r.writes)
  /\ (r.tx # None /\ r.pc \in Checked) => r.current_nonce = Tx[r.tx].nonce

LocalInv == \A t \in Threads : LocalOK(th[t])

\* A thread between two requests, or of a new process, is well formed.
LEMMA IdleOK == Idle \in ThreadTypes /\ LocalOK(Idle)
BY PipelineAssumption DEF Idle, ThreadTypes, PCs, Writes, Reads, LocalOK, WithTx,
   WithTarget, Checked, Uncommitted

\* A thread that moves to a well-formed record leaves all threads well formed.
LEMMA MoveOK ==
  ASSUME th \in [Threads -> ThreadTypes], LocalInv,
         NEW t \in Threads, NEW r \in ThreadTypes, LocalOK(r),
         th' = [th EXCEPT ![t] = r]
  PROVE  th' \in [Threads -> ThreadTypes] /\ LocalInv'
BY DEF LocalInv

\* Replacing one element keeps a sequence over S a sequence over S.
LEMMA ExceptKeepsSeq ==
  ASSUME NEW S, NEW w \in Seq(S), NEW i, NEW x \in S
  PROVE  [w EXCEPT ![i] = x] \in Seq(S)
<1>1. w \in [1 .. Len(w) -> S] /\ Len(w) \in Nat
  OBVIOUS
<1>2. [w EXCEPT ![i] = x] \in [1 .. Len(w) -> S]
  BY <1>1
<1>3. \A n \in Nat : \A f \in [1 .. n -> S] : f \in Seq(S)
  OBVIOUS
<1>. QED
  BY <1>1, <1>2, <1>3

\* Counting one more of x.
LEMMA CountUp ==
  ASSUME NEW S, NEW f \in [S -> Nat], NEW x
  PROVE  [f EXCEPT ![x] = f[x] + 1] \in [S -> Nat]
<1>. DEFINE g == [f EXCEPT ![x] = f[x] + 1]
<1>1. DOMAIN g = S
  OBVIOUS
<1>2. \A y \in S : g[y] = IF y = x THEN f[y] + 1 ELSE f[y]
  OBVIOUS
<1>3. \A y \in S : g[y] \in Nat
  BY <1>2
<1>4. g = [y \in S |-> g[y]]
  OBVIOUS
<1>. QED
  BY <1>3, <1>4

\* An index that a loop has not run past names an element.
LEMMA SeqElement ==
  ASSUME NEW S, NEW q \in Seq(S), NEW i \in Nat \ {0}, i <= Len(q)
  PROVE  q[i] \in S /\ i \in 1 .. Len(q) /\ Len(q) \in Nat
OBVIOUS

\* exec_context_set_write keeps the overlay a sequence of writes.
LEMMA SetWriteType ==
  ASSUME NEW w \in Writes, NEW slot \in Slot, NEW v \in Values
  PROVE  exec_context_set_write(w, slot, v) \in Writes
<1>1. Write(slot, v) \in [slot : Slot, value : Values]
  BY DEF Write
<1>2. Append(w, Write(slot, v)) \in Writes
  BY <1>1 DEF Writes
<1>. QED
  BY <1>1, <1>2, ExceptKeepsSeq DEF exec_context_set_write, Writes

\* What every action of a thread has to show about the thread's own record.
LEMMA MoveType ==
  ASSUME TypeOK, LocalInv, NEW t \in Threads,
         NEW r \in ThreadTypes, LocalOK(r), Goto(t, r)
  PROVE  /\ th' \in [Threads -> ThreadTypes] /\ LocalInv'
         /\ answered' \in SUBSET Answers
BY MoveOK DEF TypeOK, Goto

\* A host call updates one buffer and counts itself.
LEMMA HostCallType ==
  ASSUME NEW r \in ThreadTypes, NEW w \in Writes, NEW x \in Reads
  PROVE  /\ [r EXCEPT !.ops = @ + 1] \in ThreadTypes
         /\ [r EXCEPT !.ops = @ + 1, !.writes = w] \in ThreadTypes
         /\ [r EXCEPT !.ops = @ + 1, !.reads = x] \in ThreadTypes
<1>1. r.ops + 1 \in Nat
  BY DEF ThreadTypes
<1>. DEFINE n == r.ops + 1
<1>. HIDE DEF n
<1>2. [r EXCEPT !.ops = n] \in ThreadTypes
  BY <1>1 DEF ThreadTypes, n
<1>3. [r EXCEPT !.ops = n, !.writes = w] \in ThreadTypes
  BY <1>1 DEF ThreadTypes, n
<1>4. [r EXCEPT !.ops = n, !.reads = x] \in ThreadTypes
  BY <1>1 DEF ThreadTypes, n
<1>. QED
  BY <1>2, <1>3, <1>4 DEF n

\* Answering a request is a move to Idle.
LEMMA AnswerType ==
  ASSUME TypeOK, LocalInv, NEW t \in Threads, NEW ok \in BOOLEAN, Answer(t, ok)
  PROVE  /\ th' \in [Threads -> ThreadTypes] /\ LocalInv'
         /\ answered' \in SUBSET Answers
<1>1. th \in [Threads -> ThreadTypes] /\ answered \in SUBSET Answers
  BY DEF TypeOK
<1>2. th' \in [Threads -> ThreadTypes] /\ LocalInv'
  BY <1>1, MoveOK, IdleOK DEF Answer
<1>3. th[t].tx \in Hashes \cup {None} /\ th[t].wrote \in BOOLEAN
  BY <1>1 DEF ThreadTypes
<1>4. [tx |-> th[t].tx, ok |-> ok, wrote |-> th[t].wrote] \in Answers
  BY <1>3 DEF Answers
<1>. QED
  BY <1>1, <1>2, <1>4 DEF Answer, Reply

\* A Redis read changes nothing but, at most, the state of the connection.
LEMMA ReadType ==
  ASSUME TypeOK, RedisUnwritten, link' \in {"up", "down"}
  PROVE  RedisTypeOK'
BY DEF TypeOK, RedisTypeOK, RedisUnwritten

\* History and environment counters that a step leaves alone keep their types.
LEMMA CountersType ==
  ASSUME TypeOK, UNCHANGED <<envVars, historyVars>>
  PROVE  /\ requests' \in Nat /\ crashes' \in Nat /\ bumps' \in [Addr -> Nat]
         /\ exec' \in [Hashes -> Nat] /\ mined' \in Nat
BY DEF TypeOK, envVars, historyVars

\* The type invariant and the agreement of locals with the program counter
\* are preserved by every step of one thread.
LEMMA StepType ==
  ASSUME TypeOK, LocalInv, NEW t \in Threads, Step(t)
  PROVE  TypeOK' /\ LocalInv'
<1>0. th[t] \in ThreadTypes /\ LocalOK(th[t]) /\ RedisTypeOK
  BY DEF TypeOK, LocalInv
<1>1. CASE make_block_context(t)
  <2>0. th[t].pc = "make_block_context"
    BY <1>1 DEF make_block_context
  <2>1. PICK n \in {latest, 0} :
          /\ evmdb_state_get_block_number(n)
          /\ \/ /\ th[t].tx # None
                /\ Goto(t, [[th[t] EXCEPT !.number = n] EXCEPT !.pc = "get_nonce"])
             \/ /\ th[t].tx = None /\ th[t].to # None
                /\ Goto(t, [[th[t] EXCEPT !.number = n] EXCEPT !.pc = "get_code"])
             \/ Answer(t, FALSE)
    BY <1>1 DEF make_block_context
  <2>2. RedisTypeOK'
    BY <1>1, <2>1, ReadType DEF make_block_context, evmdb_state_get_block_number,
       redis_get
  <2>3. n \in Nat
    BY <1>0 DEF RedisTypeOK
  <2>4. /\ th' \in [Threads -> ThreadTypes] /\ LocalInv'
        /\ answered' \in SUBSET Answers
    <3>1. CASE /\ th[t].tx # None
               /\ Goto(t, [[th[t] EXCEPT !.number = n] EXCEPT !.pc = "get_nonce"])
      <4>. DEFINE r == [[th[t] EXCEPT !.number = n] EXCEPT !.pc = "get_nonce"]
      <4>1. r \in ThreadTypes
        BY <1>0, <2>3 DEF ThreadTypes, PCs
      <4>2. LocalOK(r)
        BY <1>0, <2>0, <3>1, PipelineAssumption DEF ThreadTypes, LocalOK, WithTx,
           WithTarget, Checked, Uncommitted
      <4>. QED
        BY <4>1, <4>2, <3>1, MoveType
    <3>2. CASE /\ th[t].tx = None /\ th[t].to # None
               /\ Goto(t, [[th[t] EXCEPT !.number = n] EXCEPT !.pc = "get_code"])
      <4>. DEFINE r == [[th[t] EXCEPT !.number = n] EXCEPT !.pc = "get_code"]
      <4>1. r \in ThreadTypes
        BY <1>0, <2>3 DEF ThreadTypes, PCs
      <4>2. LocalOK(r)
        BY <1>0, <2>0, <3>2, PipelineAssumption DEF ThreadTypes, LocalOK, WithTx,
           WithTarget, Checked, Uncommitted
      <4>. QED
        BY <4>1, <4>2, <3>2, MoveType
    <3>. QED
      BY <2>1, <3>1, <3>2, AnswerType
  <2>. QED
    BY <1>1, <2>2, <2>4, CountersType DEF TypeOK, make_block_context
<1>2. CASE get_nonce(t)
  <2>. DEFINE tx == Tx[th[t].tx]
              r(n) == [th[t] EXCEPT !.current_nonce = n,
                         !.pc = IF tx.to = None THEN "set_code" ELSE "get_code"]
  <2>1. PICK n \in {nonce[tx.from], 0} :
          /\ evmdb_state_get_nonce(tx.from, n)
          /\ \/ tx.nonce = n /\ Goto(t, r(n))
             \/ Answer(t, FALSE)
    BY <1>2 DEF get_nonce, accepts
  <2>2. RedisTypeOK'
    BY <1>2, <2>1, ReadType DEF get_nonce, evmdb_state_get_nonce, redis_get
  <2>3. th[t].tx \in Hashes /\ tx \in Transactions
    BY <1>0, <1>2, PipelineAssumption DEF get_nonce, LocalOK, WithTx
  <2>4. n \in Nat
    BY <1>0, <2>3 DEF RedisTypeOK, Transactions
  <2>5. r(n) \in ThreadTypes
    BY <1>0, <2>4 DEF ThreadTypes, PCs
  <2>6. tx.nonce = n => LocalOK(r(n))
    <3>1. th[t].pc = "get_nonce" /\ tx.to \in Addr \cup {None}
      BY <1>2, <2>3 DEF get_nonce, Transactions
    <3>. QED
      BY <1>0, <2>3, <3>1, PipelineAssumption DEF ThreadTypes, LocalOK, WithTx,
         WithTarget, Checked, Uncommitted
  <2>. QED
    BY <1>2, <2>1, <2>2, <2>5, <2>6, MoveType, AnswerType, CountersType
       DEF TypeOK, get_nonce
<1>3. CASE set_code(t)
  <2>. DEFINE r == [th[t] EXCEPT !.pc = "set_nonce", !.success = TRUE,
                                 !.wrote = TRUE]
  <2>1. th[t].tx \in Hashes /\ Tx[th[t].tx].data \in Seq(Nat)
    BY <1>0, <1>3, PipelineAssumption DEF set_code, LocalOK, WithTx, Transactions
  <2>2. RedisTypeOK'
    BY <1>0, <1>3, <2>1 DEF RedisTypeOK, set_code, evmdb_state_set_code, redis_set
  <2>3. r \in ThreadTypes /\ LocalOK(r)
    BY <1>0, <1>3, <2>1 DEF set_code, ThreadTypes, PCs, LocalOK, WithTx,
       WithTarget, Checked, Uncommitted
  <2>. QED
    BY <1>3, <2>2, <2>3, MoveType, CountersType DEF TypeOK, set_code
<1>4. CASE get_code(t)
  <2>. DEFINE r1 == [th[t] EXCEPT !.pc = "evm"]
              r2 == [th[t] EXCEPT !.pc = "set_nonce", !.success = TRUE]
  <2>1. PICK bytes \in {code[th[t].to], <<>>} :
          /\ evmdb_state_get_code(th[t].to, bytes)
          /\ \/ Goto(t, r1)
             \/ th[t].tx # None /\ Goto(t, r2)
             \/ Answer(t, TRUE)
    BY <1>4 DEF get_code
  <2>2. RedisTypeOK'
    BY <1>4, <2>1, ReadType DEF get_code, evmdb_state_get_code, redis_get
  <2>3. r1 \in ThreadTypes /\ LocalOK(r1)
    BY <1>0, <1>4 DEF get_code, ThreadTypes, PCs, LocalOK, WithTx, WithTarget,
       Checked, Uncommitted
  <2>4. th[t].tx # None => r2 \in ThreadTypes /\ LocalOK(r2)
    BY <1>0, <1>4 DEF get_code, ThreadTypes, PCs, LocalOK, WithTx, WithTarget,
       Checked, Uncommitted
  <2>. QED
    BY <1>4, <2>1, <2>2, <2>3, <2>4, MoveType, AnswerType, CountersType
       DEF TypeOK, get_code
<1>5. ASSUME NEW k \in Keys, host_get_storage(t, k)
      PROVE  TypeOK' /\ LocalInv'
  <2>. DEFINE slot == <<th[t].to, k>>
              r1 == [th[t] EXCEPT !.ops = @ + 1]
              r2(v) == [th[t] EXCEPT !.ops = @ + 1,
                                     !.reads = @ \cup {<<slot, v>>}]
  <2>0. th[t].pc = "evm"
    BY <1>5 DEF host_get_storage
  <2>1. slot \in Slot
    BY <1>0, <2>0 DEF LocalOK, WithTarget, Slot
  <2>2. \/ Goto(t, r1) /\ link' = link
        \/ \E v \in {storage[slot], 0} :
             evmdb_state_get_storage(slot, v) /\ Goto(t, r2(v))
    BY <1>5 DEF host_get_storage
  <2>3. RedisTypeOK'
    <3>1. link' \in {"up", "down"}
      BY <1>0, <2>2 DEF RedisTypeOK, evmdb_state_get_storage, redis_get
    <3>. QED
      BY <3>1, <1>5, ReadType DEF host_get_storage
  <2>4. r1 \in ThreadTypes /\ LocalOK(r1)
    BY <1>0, <2>0 DEF ThreadTypes, LocalOK, WithTx, WithTarget,
       Checked, Uncommitted
  <2>5. \A v \in {storage[slot], 0} : r2(v) \in ThreadTypes /\ LocalOK(r2(v))
    <3>. SUFFICES ASSUME NEW v \in {storage[slot], 0}
                  PROVE  r2(v) \in ThreadTypes /\ LocalOK(r2(v))
      OBVIOUS
    <3>1. v \in Values
      BY <1>0, <2>1, RedisAssumption DEF RedisTypeOK
    <3>. DEFINE more == th[t].reads \cup {<<slot, v>>}
    <3>2. more \in Reads
      BY <1>0, <2>1, <3>1 DEF ThreadTypes, Reads
    <3>. HIDE DEF slot, more
    <3>3. r2(v) \in ThreadTypes
      BY <1>0, <3>2, HostCallType DEF more, ThreadTypes
    <3>4. LocalOK(r2(v))
      BY <1>0, <2>0 DEF ThreadTypes, LocalOK, WithTx, WithTarget, Checked,
         Uncommitted
    <3>. QED
      BY <3>3, <3>4
  <2>6. /\ th' \in [Threads -> ThreadTypes] /\ LocalInv'
        /\ answered' \in SUBSET Answers
    BY <2>2, <2>4, <2>5, MoveType
  <2>. QED
    BY <1>5, <2>3, <2>6, CountersType DEF TypeOK, host_get_storage
<1>14. ASSUME NEW a \in Addr,
              \/ host_account_exists(t, a) \/ host_get_balance(t, a)
              \/ host_copy_code(t, a)
       PROVE  TypeOK' /\ LocalInv'
  <2>. DEFINE r == [th[t] EXCEPT !.ops = @ + 1]
  <2>1. HostRead(t) /\ link' \in {"up", "down"}
    BY <1>14 DEF host_account_exists, host_get_balance, host_copy_code,
       evmdb_state_get_nonce, evmdb_state_get_balance, evmdb_state_get_code,
       redis_get
  <2>2. RedisTypeOK'
    BY <2>1, ReadType DEF HostRead
  <2>3. r \in ThreadTypes /\ LocalOK(r)
    BY <1>0, <2>1 DEF HostRead, ThreadTypes, LocalOK, WithTx, WithTarget,
       Checked, Uncommitted
  <2>. QED
    BY <2>1, <2>2, <2>3, MoveType, CountersType DEF TypeOK, HostRead
<1>6. ASSUME NEW k \in Keys, NEW v \in Values, host_set_storage(t, k, v)
      PROVE  TypeOK' /\ LocalInv'
  <2>. DEFINE slot == <<th[t].to, k>>
              new == exec_context_set_write(th[t].writes, slot, v)
              r1 == [th[t] EXCEPT !.ops = @ + 1]
              r2 == [th[t] EXCEPT !.ops = @ + 1, !.writes = new]
  <2>0. th[t].pc = "evm"
    BY <1>6 DEF host_set_storage
  <2>1. slot \in Slot
    BY <1>0, <2>0 DEF LocalOK, WithTarget, Slot
  <2>2. /\ link' \in {"up", "down"}
        /\ Goto(t, r1) \/ Goto(t, r2)
    BY <1>0, <1>6 DEF host_set_storage, RedisTypeOK, evmdb_state_get_storage,
       redis_get
  <2>3. RedisTypeOK'
    BY <1>6, <2>2, ReadType DEF host_set_storage
  <2>4. new \in Writes
    BY <1>0, <2>1, SetWriteType DEF ThreadTypes
  <2>. HIDE DEF new
  <2>5. r1 \in ThreadTypes /\ LocalOK(r1)
    BY <1>0, <2>0 DEF ThreadTypes, LocalOK, WithTx, WithTarget,
       Checked, Uncommitted
  <2>6. r2 \in ThreadTypes /\ LocalOK(r2)
    <3>1. r2 \in ThreadTypes
      BY <1>0, <2>4, HostCallType DEF ThreadTypes
    <3>2. LocalOK(r2)
      BY <1>0, <2>0 DEF ThreadTypes, LocalOK, WithTx, WithTarget, Checked,
         Uncommitted
    <3>. QED
      BY <3>1, <3>2
  <2>7. /\ th' \in [Threads -> ThreadTypes] /\ LocalInv'
        /\ answered' \in SUBSET Answers
    BY <2>2, <2>5, <2>6, MoveType
  <2>. QED
    BY <1>6, <2>3, <2>7, CountersType DEF TypeOK, host_set_storage
<1>7. CASE evm_internal_error(t)
  BY <1>7, <1>0, AnswerType, CountersType
     DEF TypeOK, RedisTypeOK, evm_internal_error, redisVars
<1>8. CASE evm_revert(t)
  <2>. DEFINE r == [th[t] EXCEPT !.pc = "set_nonce", !.writes = <<>>]
  <2>0. th[t].pc = "evm"
    BY <1>8 DEF evm_revert
  <2>1. th[t].tx # None => r \in ThreadTypes /\ LocalOK(r)
    <3>0. <<>> \in Writes
      BY DEF Writes
    <3>1. r \in ThreadTypes
      BY <1>0, <3>0 DEF ThreadTypes, PCs
    <3>2. th[t].tx # None => LocalOK(r)
      BY <1>0, <2>0 DEF ThreadTypes, Writes, LocalOK, WithTx, WithTarget, Checked,
         Uncommitted
    <3>. QED
      BY <3>1, <3>2
  <2>2. /\ th' \in [Threads -> ThreadTypes] /\ LocalInv'
        /\ answered' \in SUBSET Answers
    BY <1>8, <2>1, MoveType, AnswerType DEF evm_revert
  <2>. QED
    BY <1>8, <1>0, <2>2, CountersType DEF TypeOK, RedisTypeOK, evm_revert, redisVars
<1>9. CASE evm_success(t)
  <2>. DEFINE r == [th[t] EXCEPT !.success = TRUE,
                 !.pc = IF th[t].writes = <<>> THEN "set_nonce" ELSE "commit"]
  <2>0. th[t].pc = "evm"
    BY <1>9 DEF evm_success
  <2>1. th[t].tx # None => r \in ThreadTypes /\ LocalOK(r)
    <3>0. <<>> \in Writes
      BY DEF Writes
    <3>1. r \in ThreadTypes
      BY <1>0, <3>0 DEF ThreadTypes, PCs
    <3>2. th[t].tx # None => LocalOK(r)
      BY <1>0, <2>0 DEF ThreadTypes, Writes, LocalOK, WithTx, WithTarget, Checked,
         Uncommitted
    <3>. QED
      BY <3>1, <3>2
  <2>2. /\ th' \in [Threads -> ThreadTypes] /\ LocalInv'
        /\ answered' \in SUBSET Answers
    BY <1>9, <2>1, MoveType, AnswerType DEF evm_success
  <2>. QED
    BY <1>9, <1>0, <2>2, CountersType
       DEF TypeOK, RedisTypeOK, evm_success, redisVars
<1>10. CASE exec_context_commit(t)
  <2>. DEFINE w == th[t].writes[th[t].next]
              r == [th[t] EXCEPT !.wrote = TRUE, !.next = @ + 1,
                      !.pc = IF th[t].next = Len(th[t].writes) THEN "set_nonce"
                                                               ELSE "commit"]
  <2>0. th[t].pc = "commit"
    BY <1>10 DEF exec_context_commit
  <2>1. /\ th[t].next \in 1 .. Len(th[t].writes) /\ Len(th[t].writes) \in Nat
        /\ w \in [slot : Slot, value : Values]
    <3>1. th[t].writes \in Seq([slot : Slot, value : Values]) /\ th[t].next \in Nat \ {0}
      BY <1>0 DEF ThreadTypes, Writes
    <3>2. th[t].next <= Len(th[t].writes)
      BY <1>0, <2>0 DEF LocalOK
    <3>3. w \in [slot : Slot, value : Values]
      BY <3>1, <3>2, SeqElement, Zenon
    <3>. QED
      BY <3>1, <3>2, <3>3
  <2>2. RedisTypeOK'
    BY <1>0, <1>10, <2>1 DEF RedisTypeOK, exec_context_commit,
       evmdb_state_set_storage, redis_set
  <2>3. r \in ThreadTypes
    <3>. DEFINE n == th[t].next + 1
                q == IF th[t].next = Len(th[t].writes) THEN "set_nonce" ELSE "commit"
    <3>1. n \in Nat \ {0} /\ q \in PCs
      BY <2>1 DEF PCs
    <3>. HIDE DEF n, q
    <3>2. [th[t] EXCEPT !.wrote = TRUE, !.next = n, !.pc = q] \in ThreadTypes
      BY <1>0, <3>1 DEF ThreadTypes
    <3>. QED
      BY <3>2 DEF n, q
  <2>4. LocalOK(r)
    BY <1>0, <2>0, <2>1 DEF ThreadTypes, LocalOK, WithTx, WithTarget, Checked,
       Uncommitted
  <2>. QED
    BY <1>10, <2>2, <2>3, <2>4, MoveType, CountersType
       DEF TypeOK, exec_context_commit
<1>11. CASE set_nonce(t)
  <2>. DEFINE r == [th[t] EXCEPT !.pc = "set_block_number", !.wrote = TRUE]
  <2>0. th[t].pc = "set_nonce"
    BY <1>11 DEF set_nonce
  <2>1. th[t].current_nonce + 1 \in Nat
    BY <1>0 DEF ThreadTypes
  <2>2. RedisTypeOK'
    BY <1>0, <1>11, <2>1 DEF RedisTypeOK, set_nonce, evmdb_state_set_nonce, redis_set
  <2>3. r \in ThreadTypes
    BY <1>0 DEF ThreadTypes, PCs
  <2>4. LocalOK(r)
    BY <1>0, <2>0 DEF ThreadTypes, LocalOK, WithTx, WithTarget, Checked, Uncommitted
  <2>5. /\ requests' \in Nat /\ crashes' \in Nat /\ bumps' \in [Addr -> Nat]
        /\ exec' \in [Hashes -> Nat] /\ mined' \in Nat
    <3>. DEFINE h == th[t].tx
                s == Tx[h].from
    <3>1. /\ bumps' = [bumps EXCEPT ![s] = bumps[s] + 1]
          /\ exec' = [exec EXCEPT ![h] = exec[h] + 1]
          /\ mined' = mined + 1 /\ requests' = requests /\ crashes' = crashes
      BY <1>11 DEF set_nonce, envVars
    <3>2. /\ bumps \in [Addr -> Nat] /\ exec \in [Hashes -> Nat] /\ mined \in Nat
          /\ requests \in Nat /\ crashes \in Nat
      BY DEF TypeOK
    <3>. HIDE DEF h, s
    <3>3. bumps' \in [Addr -> Nat]
      BY <3>1, <3>2, CountUp
    <3>4. exec' \in [Hashes -> Nat]
      BY <3>1, <3>2, CountUp
    <3>. QED
      BY <3>1, <3>2, <3>3, <3>4
  <2>. QED
    BY <1>11, <2>2, <2>3, <2>4, <2>5, MoveType DEF TypeOK, set_nonce
<1>12. CASE set_block_number(t)
  <2>. DEFINE r == [th[t] EXCEPT !.pc = "set_receipt"]
  <2>0. th[t].pc = "set_block_number"
    BY <1>12 DEF set_block_number
  <2>1. th[t].number + 1 \in Nat
    BY <1>0 DEF ThreadTypes
  <2>2. RedisTypeOK'
    BY <1>0, <1>12, <2>1 DEF RedisTypeOK, set_block_number,
       evmdb_state_set_block_number, redis_set
  <2>3. r \in ThreadTypes
    BY <1>0 DEF ThreadTypes, PCs
  <2>4. LocalOK(r)
    BY <1>0, <2>0 DEF ThreadTypes, LocalOK, WithTx, WithTarget, Checked, Uncommitted
  <2>. QED
    BY <1>12, <2>2, <2>3, <2>4, MoveType, AnswerType, CountersType
       DEF TypeOK, set_block_number
<1>13. CASE set_receipt(t)
  <2>. DEFINE new == [blockNumber |-> th[t].number + 1, status |-> th[t].success]
  <2>1. new \in Receipts
    BY <1>0 DEF ThreadTypes, Receipts
  <2>. HIDE DEF new
  <2>2. /\ receipt' \in {receipt, [receipt EXCEPT ![th[t].tx] = new]}
        /\ link' \in {"up", "down"}
        /\ UNCHANGED <<nonce, code, storage, latest>>
    BY <1>13 DEF set_receipt, evmdb_state_set_receipt, redis_set, new
  <2>3. RedisTypeOK'
    BY <1>0, <2>1, <2>2 DEF RedisTypeOK
  <2>. QED
    BY <1>13, <2>3, AnswerType, CountersType DEF TypeOK, set_receipt
<1>. QED
  BY <1>1, <1>2, <1>3, <1>4, <1>5, <1>6, <1>7, <1>8, <1>9, <1>10, <1>11, <1>12,
     <1>13, <1>14 DEF Step

\* Every step of the system preserves the type invariant.
LEMMA NextType ==
  ASSUME TypeOK, LocalInv, [Next]_vars
  PROVE  TypeOK' /\ LocalInv'
<1>1. ASSUME NEW t \in Threads, NEW h \in Hashes,
             handle_send_raw_transaction(t, h)
      PROVE  TypeOK' /\ LocalInv'
  <2>. DEFINE r == [Idle EXCEPT !.pc = "make_block_context", !.tx = h,
                                !.to = Tx[h].to]
  <2>1. Tx[h].to \in Addr \cup {None}
    BY PipelineAssumption DEF Transactions
  <2>2. r \in ThreadTypes
    BY <2>1, IdleOK DEF ThreadTypes, PCs
  <2>3. LocalOK(r)
    BY DEF Idle, LocalOK, WithTx, WithTarget, Checked, Uncommitted
  <2>4. /\ th' \in [Threads -> ThreadTypes] /\ LocalInv'
        /\ answered' \in SUBSET Answers
    <3>1. CASE Goto(t, r)
      BY <3>1, <2>2, <2>3, MoveType
    <3>2. CASE /\ Reply([tx |-> h, ok |-> FALSE, wrote |-> FALSE])
               /\ UNCHANGED th
      <4>1. [tx |-> h, ok |-> FALSE, wrote |-> FALSE] \in Answers
        BY DEF Answers
      <4>. QED
        BY <3>2, <4>1 DEF TypeOK, LocalInv, Reply
    <3>. QED
      BY <1>1, <3>1, <3>2 DEF handle_send_raw_transaction
  <2>. QED
    BY <1>1, <2>4 DEF handle_send_raw_transaction, TypeOK, RedisTypeOK, redisVars,
       historyVars
<1>2. ASSUME NEW t \in Threads, NEW a \in CallTargets, handle_call(t, a)
      PROVE  TypeOK' /\ LocalInv'
  <2>. DEFINE r == [Idle EXCEPT !.pc = "make_block_context", !.to = a]
  <2>1. r \in ThreadTypes
    BY PipelineAssumption, IdleOK DEF ThreadTypes, PCs
  <2>2. LocalOK(r)
    BY DEF Idle, LocalOK, WithTx, WithTarget, Checked, Uncommitted
  <2>3. /\ th' \in [Threads -> ThreadTypes] /\ LocalInv'
        /\ answered' \in SUBSET Answers
    BY <1>2, <2>1, <2>2, MoveType DEF handle_call
  <2>. QED
    BY <1>2, <2>3 DEF handle_call, TypeOK, RedisTypeOK, redisVars, historyVars
<1>3. ASSUME NEW t \in Threads, Step(t)
      PROVE  TypeOK' /\ LocalInv'
  BY <1>3, StepType
<1>4. CASE Crash
  <2>1. th' \in [Threads -> ThreadTypes] /\ LocalInv'
    BY <1>4, IdleOK DEF Crash, LocalInv
  <2>. QED
    BY <1>4, <2>1 DEF Crash, evmdb_state_init, TypeOK, RedisTypeOK, historyVars
<1>5. CASE UNCHANGED vars
  BY <1>5 DEF vars, redisVars, envVars, historyVars, TypeOK, RedisTypeOK, LocalInv
<1>. QED
  BY <1>1, <1>2, <1>3, <1>4, <1>5 DEF Next, Quiet

\* Initially every thread is idle and Redis empty.
LEMMA InitType ==
  ASSUME Init
  PROVE  TypeOK /\ LocalInv
<1>1. RedisTypeOK
  BY RedisAssumption DEF Init, RedisInit, RedisTypeOK
<1>2. th \in [Threads -> ThreadTypes] /\ LocalInv
  BY IdleOK DEF Init, LocalInv
<1>. QED
  BY <1>1, <1>2 DEF Init, TypeOK

\* The variables of the write path (handlers.c, executor.c, redis_state.c)
\* keep their types, for any threads, transactions, faults and bounds.
THEOREM TypeCorrect == Spec => []TypeOK
<1>1. Init => TypeOK /\ LocalInv
  BY InitType
<1>2. TypeOK /\ LocalInv /\ [Next]_vars => (TypeOK /\ LocalInv)'
  BY NextType
<1>. QED
  BY <1>1, <1>2, PTL DEF Spec

----------------------------------------------------------------------------
(* What a step of a thread can be, as the invariants need to know it.      *)

\* The thread goes on with r, the same request at a later point, and neither
\* Redis nor the history has changed.
Same(r, q) ==
  /\ r.tx = q.tx /\ r.to = q.to /\ r.number = q.number
  /\ r.current_nonce = q.current_nonce /\ r.wrote = q.wrote

Unwritten == RedisUnwritten /\ UNCHANGED historyVars

GivesUp(t) ==
  /\ Unwritten /\ th[t].pc \in Uncommitted
  /\ \E ok \in BOOLEAN : Answer(t, ok) /\ (ok => th[t].tx = None)

GetsContext(t) ==
  /\ Unwritten /\ th[t].pc = "make_block_context"
  /\ \E n \in {latest, 0}, p \in {"get_nonce", "get_code"} :
       /\ p = "get_code" => th[t].tx = None
       /\ Goto(t, [[th[t] EXCEPT !.number = n] EXCEPT !.pc = p])

PassesCheck(t) ==
  /\ Unwritten /\ th[t].pc = "get_nonce"
  /\ \E n \in {nonce[Tx[th[t].tx].from], 0}, p \in {"set_code", "get_code"} :
       /\ evmdb_state_get_nonce(Tx[th[t].tx].from, n)
       /\ n = Tx[th[t].tx].nonce
       /\ Goto(t, [th[t] EXCEPT !.current_nonce = n, !.pc = p])

Runs(t) ==
  /\ Unwritten /\ th[t].pc \in WithTarget
  /\ \E r \in ThreadTypes :
       /\ Same(r, th[t]) /\ r.pc \in {"evm", "commit", "set_nonce"}
       /\ r.pc # "evm" => r.tx # None
       /\ Goto(t, r)

\* Every step of a thread has one of these shapes or is one of the five
\* actions that write to Redis.
LEMMA StepShape ==
  ASSUME TypeOK, LocalInv, NEW t \in Threads, Step(t)
  PROVE  \/ GivesUp(t) \/ GetsContext(t) \/ PassesCheck(t) \/ Runs(t)
         \/ set_code(t) \/ exec_context_commit(t) \/ set_nonce(t)
         \/ set_block_number(t) \/ set_receipt(t)
<1>0. th[t] \in ThreadTypes /\ LocalOK(th[t])
  BY DEF TypeOK, LocalInv
<1>1. CASE make_block_context(t)
  <2>1. Unwritten /\ th[t].pc = "make_block_context"
    BY <1>1 DEF make_block_context, Unwritten
  <2>2. PICK n \in {latest, 0} :
          \/ /\ th[t].tx # None
             /\ Goto(t, [[th[t] EXCEPT !.number = n] EXCEPT !.pc = "get_nonce"])
          \/ /\ th[t].tx = None
             /\ Goto(t, [[th[t] EXCEPT !.number = n] EXCEPT !.pc = "get_code"])
          \/ Answer(t, FALSE)
    BY <1>1 DEF make_block_context
  <2>3. CASE Answer(t, FALSE)
    BY <2>1, <2>3 DEF GivesUp, Uncommitted
  <2>4. CASE \/ /\ th[t].tx # None
                /\ Goto(t, [[th[t] EXCEPT !.number = n] EXCEPT !.pc = "get_nonce"])
             \/ /\ th[t].tx = None
                /\ Goto(t, [[th[t] EXCEPT !.number = n] EXCEPT !.pc = "get_code"])
    BY <2>1, <2>4, Zenon DEF GetsContext
  <2>. QED
    BY <2>2, <2>3, <2>4
<1>2. CASE get_nonce(t)
  <2>1. Unwritten /\ th[t].pc = "get_nonce"
    BY <1>2 DEF get_nonce, Unwritten
  <2>. DEFINE tx == Tx[th[t].tx]
              p == IF tx.to = None THEN "set_code" ELSE "get_code"
  <2>2. PICK n \in {nonce[tx.from], 0} :
          /\ evmdb_state_get_nonce(tx.from, n)
          /\ \/ /\ tx.nonce = n
                /\ Goto(t, [th[t] EXCEPT !.current_nonce = n, !.pc = p])
             \/ Answer(t, FALSE)
    BY <1>2 DEF get_nonce, accepts
  <2>3. p \in {"set_code", "get_code"}
    OBVIOUS
  <2>. HIDE DEF p
  <2>4. CASE Answer(t, FALSE)
    BY <2>1, <2>4 DEF GivesUp, Uncommitted
  <2>5. CASE tx.nonce = n /\ Goto(t, [th[t] EXCEPT !.current_nonce = n, !.pc = p])
    BY <2>1, <2>2, <2>3, <2>5, Zenon DEF PassesCheck
  <2>. QED
    BY <2>2, <2>4, <2>5
<1>3. CASE get_code(t)
  <2>1. Unwritten /\ th[t].pc = "get_code"
    BY <1>3 DEF get_code, Unwritten
  <2>. DEFINE r1 == [th[t] EXCEPT !.pc = "evm"]
              r2 == [th[t] EXCEPT !.pc = "set_nonce", !.success = TRUE]
  <2>2. \/ Goto(t, r1)
        \/ th[t].tx # None /\ Goto(t, r2)
        \/ th[t].tx = None /\ Answer(t, TRUE)
    BY <1>3 DEF get_code
  <2>3. /\ r1 \in ThreadTypes /\ Same(r1, th[t]) /\ r1.pc = "evm"
        /\ r2 \in ThreadTypes /\ Same(r2, th[t]) /\ r2.pc = "set_nonce"
        /\ r2.tx = th[t].tx
    BY <1>0 DEF ThreadTypes, PCs, Same
  <2>. HIDE DEF r1, r2
  <2>. QED
    BY <2>1, <2>2, <2>3 DEF GivesUp, Runs, WithTarget, Uncommitted
<1>4. ASSUME NEW k \in Keys, host_get_storage(t, k)
      PROVE  Runs(t)
  <2>1. Unwritten /\ th[t].pc = "evm"
    BY <1>4 DEF host_get_storage, Unwritten
  <2>2. PICK r : /\ Goto(t, r)
                 /\ \/ r = [th[t] EXCEPT !.ops = @ + 1]
                    \/ \E x : r = [th[t] EXCEPT !.ops = @ + 1, !.reads = x]
    BY <1>4 DEF host_get_storage
  <2>3. Same(r, th[t]) /\ r.pc = "evm"
    BY <1>0, <2>1, <2>2 DEF ThreadTypes, Same
  <2>4. r \in ThreadTypes
    BY <2>2, StepType DEF TypeOK, Goto
  <2>. QED
    BY <2>1, <2>2, <2>3, <2>4 DEF Runs, WithTarget
<1>5. ASSUME NEW k \in Keys, NEW v \in Values, host_set_storage(t, k, v)
      PROVE  Runs(t)
  <2>1. Unwritten /\ th[t].pc = "evm"
    BY <1>5 DEF host_set_storage, Unwritten
  <2>2. PICK r : /\ Goto(t, r)
                 /\ \/ r = [th[t] EXCEPT !.ops = @ + 1]
                    \/ \E x : r = [th[t] EXCEPT !.ops = @ + 1, !.writes = x]
    BY <1>5 DEF host_set_storage
  <2>3. Same(r, th[t]) /\ r.pc = "evm"
    BY <1>0, <2>1, <2>2 DEF ThreadTypes, Same
  <2>4. r \in ThreadTypes
    BY <2>2, StepType DEF TypeOK, Goto
  <2>. QED
    BY <2>1, <2>2, <2>3, <2>4 DEF Runs, WithTarget
<1>6. CASE evm_internal_error(t)
  BY <1>6 DEF evm_internal_error, GivesUp, Unwritten, RedisUnwritten, redisVars,
     Uncommitted
<1>7. CASE evm_revert(t)
  <2>1. Unwritten /\ th[t].pc = "evm"
    BY <1>7 DEF evm_revert, Unwritten, RedisUnwritten, redisVars
  <2>. DEFINE r == [th[t] EXCEPT !.pc = "set_nonce", !.writes = <<>>]
  <2>2. Same(r, th[t]) /\ r.pc = "set_nonce" /\ r.tx = th[t].tx
    BY <1>0 DEF ThreadTypes, Same
  <2>3. Goto(t, r) => r \in ThreadTypes
    BY StepType DEF TypeOK, Goto
  <2>. HIDE DEF r
  <2>4. \/ th[t].tx # None /\ Goto(t, r)
        \/ th[t].tx = None /\ Answer(t, FALSE)
    BY <1>7 DEF evm_revert, r
  <2>. QED
    BY <2>1, <2>2, <2>3, <2>4 DEF Runs, GivesUp, WithTarget, Uncommitted
<1>8. CASE evm_success(t)
  <2>1. Unwritten /\ th[t].pc = "evm"
    BY <1>8 DEF evm_success, Unwritten, RedisUnwritten, redisVars
  <2>. DEFINE r == [th[t] EXCEPT !.success = TRUE,
                 !.pc = IF th[t].writes = <<>> THEN "set_nonce" ELSE "commit"]
  <2>2. Same(r, th[t]) /\ r.pc \in {"set_nonce", "commit"} /\ r.tx = th[t].tx
    BY <1>0 DEF ThreadTypes, Same
  <2>3. Goto(t, r) => r \in ThreadTypes
    BY StepType DEF TypeOK, Goto
  <2>. HIDE DEF r
  <2>4. \/ th[t].tx # None /\ Goto(t, r)
        \/ th[t].tx = None /\ \E ok \in BOOLEAN : Answer(t, ok)
    BY <1>8 DEF evm_success, r
  <2>. QED
    BY <2>1, <2>2, <2>3, <2>4 DEF Runs, GivesUp, WithTarget, Uncommitted
<1>9. ASSUME NEW a \in Addr,
             \/ host_account_exists(t, a) \/ host_get_balance(t, a)
             \/ host_copy_code(t, a)
      PROVE  Runs(t)
  <2>. DEFINE r == [th[t] EXCEPT !.ops = @ + 1]
  <2>1. Unwritten /\ th[t].pc = "evm" /\ Goto(t, r)
    BY <1>9 DEF host_account_exists, host_get_balance, host_copy_code, HostRead,
       Unwritten
  <2>2. Same(r, th[t]) /\ r.pc = "evm"
    BY <1>0, <2>1 DEF ThreadTypes, Same
  <2>3. r \in ThreadTypes
    BY <2>1, StepType DEF TypeOK, Goto
  <2>. QED
    BY <2>1, <2>2, <2>3 DEF Runs, WithTarget
<1>. QED
  BY <1>1, <1>2, <1>3, <1>4, <1>5, <1>6, <1>7, <1>8, <1>9 DEF Step

----------------------------------------------------------------------------
(* What a step does to the threads and to each kind of data.               *)

\* The points of a request from which the next one, p, is reached.
Before(p) ==
  CASE p \in {"make_block_context", "get_nonce"} -> {"make_block_context"}
    [] p = "set_code" -> {"get_nonce"}
    [] p = "commit" -> WithTarget \cup {"commit"}
    [] p = "set_nonce" -> WithTarget \cup {"commit", "set_code"}
    [] p = "set_block_number" -> {"set_nonce"}
    [] p = "set_receipt" -> {"set_block_number"}
    [] OTHER -> PCs

\* Thread t ends its request or goes on with it.
Advances(t) ==
  \/ th'[t].tx = None
  \/ th'[t].tx = th[t].tx /\ th[t].pc \in Before(th'[t].pc)

\* Only thread t moves, and each kind of data has one step that writes it.
LEMMA StepEffect ==
  ASSUME TypeOK, LocalInv, NEW t \in Threads, Step(t)
  PROVE  /\ \A u \in Threads : u # t => th'[u] = th[u]
         /\ Advances(t)
         /\ set_code(t) \/ UNCHANGED code
         /\ set_nonce(t) \/ UNCHANGED <<nonce, exec>>
         /\ set_receipt(t) \/ UNCHANGED receipt
<1>0. th[t] \in ThreadTypes /\ th \in [Threads -> ThreadTypes]
  BY DEF TypeOK
<1>1. ASSUME NEW r, th' = [th EXCEPT ![t] = r], r.tx = th[t].tx,
             th[t].pc \in Before(r.pc)
      PROVE  (\A u \in Threads : u # t => th'[u] = th[u]) /\ Advances(t)
  BY <1>0, <1>1 DEF Advances
<1>2. ASSUME NEW ok, Answer(t, ok)
      PROVE  (\A u \in Threads : u # t => th'[u] = th[u]) /\ Advances(t)
  BY <1>0, <1>2 DEF Answer, Advances, Idle
<1>3. CASE GivesUp(t)
  BY <1>2, <1>3 DEF GivesUp, Unwritten, RedisUnwritten, historyVars
<1>4. CASE GetsContext(t)
  <2>1. PICK n \in {latest, 0}, p \in {"get_nonce", "get_code"} :
          th' = [th EXCEPT ![t] = [[th[t] EXCEPT !.number = n] EXCEPT !.pc = p]]
    BY <1>4 DEF GetsContext, Goto
  <2>. DEFINE r == [[th[t] EXCEPT !.number = n] EXCEPT !.pc = p]
  <2>2. r.tx = th[t].tx /\ r.pc = p
    BY <1>0 DEF ThreadTypes
  <2>3. th[t].pc \in Before(p)
    BY <1>4 DEF GetsContext, Before, PCs
  <2>4. th' = [th EXCEPT ![t] = r]
    BY <2>1
  <2>5. UNCHANGED <<nonce, exec, code, receipt>>
    BY <1>4 DEF GetsContext, Unwritten, RedisUnwritten, historyVars
  <2>. HIDE DEF r
  <2>. QED
    BY <1>1, <2>2, <2>3, <2>4, <2>5
<1>5. CASE PassesCheck(t)
  <2>1. PICK n \in {nonce[Tx[th[t].tx].from], 0}, p \in {"set_code", "get_code"} :
          th' = [th EXCEPT ![t] = [th[t] EXCEPT !.current_nonce = n, !.pc = p]]
    BY <1>5 DEF PassesCheck, Goto
  <2>. DEFINE r == [th[t] EXCEPT !.current_nonce = n, !.pc = p]
  <2>2. r.tx = th[t].tx /\ r.pc = p
    BY <1>0 DEF ThreadTypes
  <2>3. th[t].pc \in Before(p)
    BY <1>5 DEF PassesCheck, Before, PCs
  <2>4. th' = [th EXCEPT ![t] = r]
    BY <2>1
  <2>5. UNCHANGED <<nonce, exec, code, receipt>>
    BY <1>5 DEF PassesCheck, Unwritten, RedisUnwritten, historyVars
  <2>. HIDE DEF r
  <2>. QED
    BY <1>1, <2>2, <2>3, <2>4, <2>5
<1>6. CASE Runs(t)
  <2>1. PICK r \in ThreadTypes :
          /\ Same(r, th[t]) /\ r.pc \in {"evm", "commit", "set_nonce"}
          /\ th' = [th EXCEPT ![t] = r]
    BY <1>6 DEF Runs, Goto
  <2>2. th[t].pc \in Before(r.pc)
    BY <1>0, <1>6, <2>1 DEF Runs, Before, ThreadTypes
  <2>. QED
    BY <1>1, <1>6, <2>1, <2>2 DEF Same, Runs, Unwritten, RedisUnwritten, historyVars
<1>7. CASE set_code(t)
  <2>. DEFINE r == [th[t] EXCEPT !.pc = "set_nonce", !.success = TRUE, !.wrote = TRUE]
  <2>1. r.tx = th[t].tx /\ r.pc = "set_nonce"
    BY <1>0 DEF ThreadTypes
  <2>2. th' = [th EXCEPT ![t] = r] /\ th[t].pc = "set_code"
    BY <1>7 DEF set_code, Goto
  <2>3. UNCHANGED <<nonce, exec, receipt>>
    BY <1>7 DEF set_code, evmdb_state_set_code, historyVars
  <2>. HIDE DEF r
  <2>4. th[t].pc \in Before(r.pc)
    BY <2>1, <2>2 DEF Before
  <2>. QED
    BY <1>1, <1>7, <2>1, <2>2, <2>3, <2>4
<1>8. CASE exec_context_commit(t)
  <2>. DEFINE p == IF th[t].next = Len(th[t].writes) THEN "set_nonce" ELSE "commit"
              r == [th[t] EXCEPT !.wrote = TRUE, !.next = @ + 1, !.pc = p]
  <2>1. r.tx = th[t].tx /\ r.pc \in {"commit", "set_nonce"}
    BY <1>0 DEF ThreadTypes
  <2>2. th' = [th EXCEPT ![t] = r] /\ th[t].pc = "commit"
    BY <1>8 DEF exec_context_commit, Goto
  <2>3. UNCHANGED <<nonce, exec, code, receipt>>
    BY <1>8 DEF exec_context_commit, evmdb_state_set_storage, historyVars
  <2>. HIDE DEF r
  <2>4. th[t].pc \in Before(r.pc)
    BY <2>1, <2>2 DEF Before
  <2>. QED
    BY <1>1, <2>1, <2>2, <2>3, <2>4
<1>9. CASE set_nonce(t)
  <2>. DEFINE r == [th[t] EXCEPT !.pc = "set_block_number", !.wrote = TRUE]
  <2>1. r.tx = th[t].tx /\ r.pc = "set_block_number"
    BY <1>0 DEF ThreadTypes
  <2>2. th' = [th EXCEPT ![t] = r] /\ th[t].pc = "set_nonce"
    BY <1>9 DEF set_nonce, Goto
  <2>3. UNCHANGED <<code, receipt>>
    BY <1>9 DEF set_nonce, evmdb_state_set_nonce
  <2>. HIDE DEF r
  <2>4. th[t].pc \in Before(r.pc)
    BY <2>1, <2>2 DEF Before
  <2>. QED
    BY <1>1, <1>9, <2>1, <2>2, <2>3, <2>4
<1>10. CASE set_block_number(t)
  <2>. DEFINE r == [th[t] EXCEPT !.pc = "set_receipt"]
  <2>1. r.tx = th[t].tx /\ r.pc = "set_receipt"
    BY <1>0 DEF ThreadTypes
  <2>2. /\ th[t].pc = "set_block_number"
        /\ th' = [th EXCEPT ![t] = r] \/ Answer(t, FALSE)
    BY <1>10 DEF set_block_number, Goto
  <2>3. UNCHANGED <<nonce, exec, code, receipt>>
    BY <1>10 DEF set_block_number, evmdb_state_set_block_number, historyVars
  <2>. HIDE DEF r
  <2>4. th[t].pc \in Before(r.pc)
    BY <2>1, <2>2 DEF Before
  <2>. QED
    BY <1>1, <1>2, <2>1, <2>2, <2>3, <2>4
<1>11. CASE set_receipt(t)
  BY <1>2, <1>11 DEF set_receipt, evmdb_state_set_receipt, historyVars
<1>. QED
  BY <1>3, <1>4, <1>5, <1>6, <1>7, <1>8, <1>9, <1>10, <1>11, StepShape

\* A step of a client or of the environment: it writes nothing, and a thread
\* stays where it is, has no transaction or has just taken one.
Outside ==
  /\ UNCHANGED <<nonce, exec, code, receipt>>
  /\ \A u \in Threads : \/ th'[u] = th[u] \/ th'[u].tx = None
                        \/ th'[u].pc = "make_block_context"

\* A step is a thread's, or it happens outside the requests.
LEMMA NextEffect ==
  ASSUME TypeOK, [Next]_vars
  PROVE  (\E t \in Threads : Step(t)) \/ Outside
<1>0. th \in [Threads -> ThreadTypes]
  BY DEF TypeOK
<1>1. ASSUME NEW t \in Threads, NEW h \in Hashes, handle_send_raw_transaction(t, h)
      PROVE  Outside
  <2>. DEFINE r == [Idle EXCEPT !.pc = "make_block_context", !.tx = h, !.to = Tx[h].to]
  <2>1. r.pc = "make_block_context"
    BY DEF Idle
  <2>2. th' = [th EXCEPT ![t] = r] \/ UNCHANGED th
    BY <1>1 DEF handle_send_raw_transaction, Goto
  <2>3. UNCHANGED <<nonce, exec, code, receipt>>
    BY <1>1 DEF handle_send_raw_transaction, redisVars, historyVars
  <2>. HIDE DEF r
  <2>. QED
    BY <1>0, <2>1, <2>2, <2>3 DEF Outside
<1>2. ASSUME NEW t \in Threads, NEW a \in CallTargets, handle_call(t, a)
      PROVE  Outside
  <2>. DEFINE r == [Idle EXCEPT !.pc = "make_block_context", !.to = a]
  <2>1. r.tx = None
    BY DEF Idle
  <2>2. th' = [th EXCEPT ![t] = r]
    BY <1>2 DEF handle_call, Goto
  <2>3. UNCHANGED <<nonce, exec, code, receipt>>
    BY <1>2 DEF handle_call, redisVars, historyVars
  <2>. HIDE DEF r
  <2>. QED
    BY <1>0, <2>1, <2>2, <2>3 DEF Outside
<1>3. CASE Crash
  BY <1>3 DEF Crash, Outside, evmdb_state_init, historyVars, Idle
<1>4. CASE UNCHANGED vars
  BY <1>4 DEF vars, redisVars, historyVars, Outside
<1>. QED
  BY <1>1, <1>2, <1>3, <1>4 DEF Next, Quiet

----------------------------------------------------------------------------
(* Part one: every environment.                                            *)

\* What a thread has read is bounded by the history, and a thread that has
\* stored its nonce is itself part of that history.
ThreadBound(r) ==
  /\ r.number <= mined
  /\ r.pc \in Bumped => r.number < mined
  /\ (r.tx # None /\ r.pc \in Checked) => r.current_nonce <= bumps[Tx[r.tx].from]
  /\ r.pc \in Bumped => /\ r.current_nonce < bumps[Tx[r.tx].from]
                        /\ exec[r.tx] > 0

BoundInv ==
  /\ HeightBounded /\ NonceBounded /\ ReceiptImpliesExecuted
  /\ \A t \in Threads : ThreadBound(th[t])

\* Until a thread issues its first write its request has left no trace.
TraceInv ==
  /\ \A t \in Threads :
       th[t].pc \in Uncommitted \cup {"idle", "set_code"} => ~th[t].wrote
  /\ ErrorLeavesNoTrace

\* The history never loses a transaction.
HistoryGrows ==
  /\ mined <= mined'
  /\ \A a \in Addr : bumps[a] <= bumps'[a]
  /\ \A h \in Hashes : exec[h] <= exec'[h]

\* The sender and the hash of a request under way are known ones.
LEMMA TxKnown ==
  ASSUME TypeOK, LocalInv, NEW t \in Threads
  PROVE  /\ th[t].tx # None => /\ th[t].tx \in Hashes
                               /\ Tx[th[t].tx].from \in Addr
                               /\ Tx[th[t].tx].nonce \in Nat
         /\ th[t].pc \in WithTx => th[t].tx # None
<1>1. th[t] \in ThreadTypes /\ LocalOK(th[t])
  BY DEF TypeOK, LocalInv
<1>2. th[t].tx # None => th[t].tx \in Hashes
  BY <1>1 DEF ThreadTypes
<1>3. \A h \in Hashes : Tx[h].from \in Addr /\ Tx[h].nonce \in Nat
  BY PipelineAssumption DEF Transactions
<1>. QED
  BY <1>1, <1>2, <1>3, PipelineAssumption DEF LocalOK

\* A thread that does not move keeps its bounds when the history grows.
LEMMA FrameBound ==
  ASSUME TypeOK, LocalInv, TypeOK', HistoryGrows, NEW u \in Threads,
         th'[u] = th[u], ThreadBound(th[u])
  PROVE  ThreadBound(th[u])'
<1>. DEFINE r == th[u]
            s == Tx[r.tx].from
<1>1. /\ r \in ThreadTypes /\ (r.tx # None => r.tx \in Hashes /\ s \in Addr)
      /\ r.pc \in Bumped => r.tx # None
  BY TxKnown DEF TypeOK, Bumped, WithTx
<1>2. /\ mined \in Nat /\ mined' \in Nat /\ mined <= mined'
      /\ r.number \in Nat /\ r.current_nonce \in Nat
      /\ r.tx # None => /\ bumps[s] \in Nat /\ bumps'[s] \in Nat
                        /\ bumps[s] <= bumps'[s]
                        /\ exec[r.tx] \in Nat /\ exec'[r.tx] \in Nat
                        /\ exec[r.tx] <= exec'[r.tx]
  BY <1>1 DEF TypeOK, HistoryGrows, ThreadTypes
<1>. QED
  BY <1>1, <1>2 DEF ThreadBound

\* An idle thread is bounded by any history.
LEMMA IdleBound ==
  ASSUME TypeOK
  PROVE  ThreadBound(Idle)
BY DEF TypeOK, ThreadBound, Idle, Bumped, Checked

\* A step that writes nothing and leaves the moved thread bounded keeps
\* BoundInv.
LEMMA UnwrittenBound ==
  ASSUME TypeOK, LocalInv, BoundInv, TypeOK', Unwritten, NEW t \in Threads,
         NEW r, th' = [th EXCEPT ![t] = r], ThreadBound(r)
  PROVE  BoundInv'
<1>1. HistoryGrows
  BY DEF TypeOK, Unwritten, historyVars, HistoryGrows
<1>2. HeightBounded' /\ NonceBounded' /\ ReceiptImpliesExecuted'
  BY DEF BoundInv, HeightBounded, NonceBounded, ReceiptImpliesExecuted, Unwritten,
     RedisUnwritten, historyVars
<1>3. ASSUME NEW u \in Threads
      PROVE  ThreadBound(th[u])'
  <2>1. CASE u = t
    <3>1. th'[u] = r
      BY <2>1 DEF TypeOK
    <3>. QED
      BY <3>1 DEF ThreadBound, Unwritten, historyVars
  <2>2. CASE u # t
    BY <2>2, <1>1, FrameBound DEF BoundInv, TypeOK
  <2>. QED
    BY <2>1, <2>2
<1>. QED
  BY <1>2, <1>3 DEF BoundInv

\* Every step of a thread preserves BoundInv.
LEMMA StepBound ==
  ASSUME TypeOK, LocalInv, BoundInv, NEW t \in Threads, Step(t)
  PROVE  BoundInv'
<1>0. TypeOK' /\ LocalInv'
  BY StepType
<1>1. th[t] \in ThreadTypes /\ LocalOK(th[t]) /\ ThreadBound(th[t])
  BY DEF TypeOK, LocalInv, BoundInv
<1>2. /\ latest \in Nat /\ mined \in Nat /\ nonce \in [Addr -> Nat]
      /\ bumps \in [Addr -> Nat] /\ exec \in [Hashes -> Nat]
      /\ th \in [Threads -> ThreadTypes]
  BY DEF TypeOK, RedisTypeOK
<1>. DEFINE h == th[t].tx
            s == Tx[h].from
<1>3. h # None => h \in Hashes /\ s \in Addr /\ Tx[h].nonce \in Nat
  BY TxKnown
<1>4. CASE GivesUp(t)
  BY <1>0, <1>4, IdleBound, UnwrittenBound DEF GivesUp, Answer
<1>5. CASE GetsContext(t)
  <2>1. PICK n \in {latest, 0}, p \in {"get_nonce", "get_code"} :
          /\ p = "get_code" => th[t].tx = None
          /\ th' = [th EXCEPT ![t] = [[th[t] EXCEPT !.number = n] EXCEPT !.pc = p]]
    BY <1>5 DEF GetsContext, Goto
  <2>. DEFINE r == [[th[t] EXCEPT !.number = n] EXCEPT !.pc = p]
  <2>2. n <= mined
    BY <1>2 DEF BoundInv, HeightBounded
  <2>3. r.number = n /\ r.pc = p /\ r.tx = th[t].tx
    BY <1>1 DEF ThreadTypes
  <2>. HIDE DEF r
  <2>4. ThreadBound(r)
    BY <2>1, <2>2, <2>3 DEF ThreadBound, Bumped, Checked
  <2>. QED
    BY <1>0, <1>5, <2>1, <2>4, UnwrittenBound DEF GetsContext, r
<1>6. CASE PassesCheck(t)
  <2>1. PICK n \in {nonce[s], 0}, p \in {"set_code", "get_code"} :
          th' = [th EXCEPT ![t] = [th[t] EXCEPT !.current_nonce = n, !.pc = p]]
    BY <1>6 DEF PassesCheck, Goto
  <2>. DEFINE r == [th[t] EXCEPT !.current_nonce = n, !.pc = p]
  <2>2. h # None
    BY <1>6, TxKnown DEF PassesCheck, WithTx
  <2>3. n <= bumps[s]
    BY <1>2, <1>3, <2>2 DEF BoundInv, NonceBounded
  <2>4. /\ r.number = th[t].number /\ r.current_nonce = n /\ r.pc = p
        /\ r.tx = h
    BY <1>1 DEF ThreadTypes
  <2>. HIDE DEF r
  <2>5. ThreadBound(r)
    BY <1>1, <2>3, <2>4 DEF ThreadBound, Bumped, Checked
  <2>. QED
    BY <1>0, <1>6, <2>1, <2>5, UnwrittenBound DEF PassesCheck, r
<1>7. CASE Runs(t)
  <2>1. PICK r \in ThreadTypes :
          /\ Same(r, th[t]) /\ r.pc \in {"evm", "commit", "set_nonce"}
          /\ th' = [th EXCEPT ![t] = r]
    BY <1>7 DEF Runs, Goto
  <2>2. ThreadBound(r)
    BY <1>1, <1>7, <2>1 DEF Runs, ThreadBound, Same, Bumped, Checked, WithTarget
  <2>. QED
    BY <1>0, <1>7, <2>1, <2>2, UnwrittenBound DEF Runs
<1>8. CASE set_code(t) \/ exec_context_commit(t)
  <2>1. /\ UNCHANGED <<nonce, receipt, latest>> /\ UNCHANGED historyVars
        /\ \E r : /\ th' = [th EXCEPT ![t] = r]
                  /\ r.tx = th[t].tx /\ r.number = th[t].number
                  /\ r.current_nonce = th[t].current_nonce
                  /\ r.pc \in {"commit", "set_nonce"}
    <3>1. CASE set_code(t)
      <4>. DEFINE r == [th[t] EXCEPT !.pc = "set_nonce", !.success = TRUE,
                                     !.wrote = TRUE]
      <4>1. /\ r.tx = th[t].tx /\ r.number = th[t].number
            /\ r.current_nonce = th[t].current_nonce /\ r.pc = "set_nonce"
        BY <1>1 DEF ThreadTypes
      <4>2. /\ UNCHANGED <<nonce, receipt, latest>> /\ UNCHANGED historyVars
            /\ th' = [th EXCEPT ![t] = r]
        BY <3>1 DEF set_code, evmdb_state_set_code, Goto
      <4>. QED
        BY <4>1, <4>2
    <3>2. CASE exec_context_commit(t)
      <4>. DEFINE p == IF th[t].next = Len(th[t].writes) THEN "set_nonce"
                                                         ELSE "commit"
                  r == [th[t] EXCEPT !.wrote = TRUE, !.next = @ + 1, !.pc = p]
      <4>1. /\ r.tx = th[t].tx /\ r.number = th[t].number
            /\ r.current_nonce = th[t].current_nonce
            /\ r.pc \in {"commit", "set_nonce"}
        BY <1>1 DEF ThreadTypes
      <4>2. /\ UNCHANGED <<nonce, receipt, latest>> /\ UNCHANGED historyVars
            /\ th' = [th EXCEPT ![t] = r]
        BY <3>2 DEF exec_context_commit, evmdb_state_set_storage, Goto
      <4>. QED
        BY <4>1, <4>2
    <3>. QED
      BY <1>8, <3>1, <3>2
  <2>2. HistoryGrows
    BY <1>2, <2>1 DEF historyVars, HistoryGrows
  <2>3. HeightBounded' /\ NonceBounded' /\ ReceiptImpliesExecuted'
    BY <2>1 DEF BoundInv, HeightBounded, NonceBounded, ReceiptImpliesExecuted,
       historyVars
  <2>4. ThreadBound(th[t])'
    <3>1. th[t].pc \in {"set_code", "commit"}
      BY <1>8 DEF set_code, exec_context_commit
    <3>2. /\ th'[t].tx = th[t].tx /\ th'[t].number = th[t].number
          /\ th'[t].current_nonce = th[t].current_nonce
          /\ th'[t].pc \in {"commit", "set_nonce"}
      BY <1>2, <2>1
    <3>. QED
      BY <1>1, <2>1, <3>1, <3>2 DEF ThreadBound, historyVars, Bumped, Checked
  <2>5. \A u \in Threads : u # t => th'[u] = th[u]
    BY <1>2, <2>1
  <2>. QED
    BY <1>0, <2>2, <2>3, <2>4, <2>5, FrameBound DEF BoundInv
<1>9. CASE set_nonce(t)
  <2>0. th[t].pc = "set_nonce" /\ h \in Hashes /\ s \in Addr /\ h # None
    BY <1>3, <1>9, TxKnown DEF set_nonce, WithTx
  <2>1. /\ nonce' \in {nonce, [nonce EXCEPT ![s] = th[t].current_nonce + 1]}
        /\ UNCHANGED <<receipt, latest>>
        /\ bumps' = [bumps EXCEPT ![s] = bumps[s] + 1]
        /\ exec' = [exec EXCEPT ![h] = exec[h] + 1]
        /\ mined' = mined + 1
        /\ th' = [th EXCEPT ![t] = [th[t] EXCEPT !.pc = "set_block_number",
                                                 !.wrote = TRUE]]
    BY <1>9 DEF set_nonce, evmdb_state_set_nonce, redis_set, Goto
  <2>. HIDE DEF s, h
  <2>2. HistoryGrows
    BY <1>2, <2>1 DEF HistoryGrows
  <2>3. th[t].current_nonce <= bumps[s] /\ th[t].current_nonce \in Nat
    BY <1>1, <2>0 DEF ThreadBound, Checked, ThreadTypes, s, h
  <2>4. HeightBounded'
    <3>1. \A g \in Hashes : receipt[g].blockNumber \in Nat
      BY DEF TypeOK, RedisTypeOK, Receipts, NoReceipt
    <3>. QED
      BY <1>2, <2>1, <3>1 DEF BoundInv, HeightBounded
  <2>5. NonceBounded'
    BY <1>2, <2>0, <2>1, <2>3 DEF BoundInv, NonceBounded
  <2>6. ReceiptImpliesExecuted'
    <3>1. \A g \in Hashes : Tx[g].from \in Addr /\ Tx[g].nonce \in Nat
      BY PipelineAssumption DEF Transactions
    <3>2. \A g \in Hashes : /\ exec[g] \in Nat /\ exec'[g] \in Nat
                            /\ exec[g] <= exec'[g]
                            /\ bumps[Tx[g].from] \in Nat
                            /\ bumps'[Tx[g].from] \in Nat
                            /\ bumps[Tx[g].from] <= bumps'[Tx[g].from]
      BY <1>0, <1>2, <2>2, <3>1 DEF HistoryGrows, TypeOK
    <3>. QED
      BY <2>1, <3>1, <3>2 DEF BoundInv, ReceiptImpliesExecuted
  <2>7. ThreadBound(th[t])'
    <3>1. /\ th'[t].tx = h /\ th'[t].number = th[t].number
          /\ th'[t].current_nonce = th[t].current_nonce
          /\ th'[t].pc = "set_block_number"
      BY <1>1, <1>2, <2>1 DEF ThreadTypes, h
    <3>2. /\ bumps'[s] = bumps[s] + 1 /\ bumps[s] \in Nat
          /\ exec'[h] = exec[h] + 1 /\ exec[h] \in Nat
      BY <1>2, <2>0, <2>1
    <3>3. Tx[th'[t].tx].from = s
      BY <3>1 DEF s
    <3>4. th[t].number <= mined /\ th[t].number \in Nat
      BY <1>1 DEF ThreadBound, ThreadTypes
    <3>. QED
      BY <1>2, <2>1, <2>3, <3>1, <3>2, <3>3, <3>4 DEF ThreadBound, Bumped
  <2>8. \A u \in Threads : u # t => th'[u] = th[u]
    BY <1>2, <2>1
  <2>. QED
    BY <1>0, <2>2, <2>4, <2>5, <2>6, <2>7, <2>8, FrameBound DEF BoundInv
<1>10. CASE set_block_number(t)
  <2>0. th[t].pc = "set_block_number"
    BY <1>10 DEF set_block_number
  <2>1. /\ latest' \in {latest, th[t].number + 1}
        /\ UNCHANGED <<nonce, receipt>> /\ UNCHANGED historyVars
        /\ \/ th' = [th EXCEPT ![t] = [th[t] EXCEPT !.pc = "set_receipt"]]
           \/ th' = [th EXCEPT ![t] = Idle]
    BY <1>10 DEF set_block_number, evmdb_state_set_block_number, redis_set, Goto,
       Answer
  <2>2. HistoryGrows
    BY <1>2, <2>1 DEF historyVars, HistoryGrows
  <2>3. HeightBounded'
    BY <1>1, <1>2, <2>0, <2>1 DEF ThreadBound, Bumped, ThreadTypes, BoundInv,
       HeightBounded, historyVars
  <2>4. NonceBounded' /\ ReceiptImpliesExecuted'
    BY <2>1 DEF BoundInv, NonceBounded, ReceiptImpliesExecuted, historyVars
  <2>5. ThreadBound(th[t])'
    <3>1. CASE th' = [th EXCEPT ![t] = Idle]
      <4>1. th'[t] = Idle
        BY <1>2, <3>1
      <4>. QED
        BY <4>1, <1>2, <2>1 DEF ThreadBound, Idle, Bumped, Checked, historyVars
    <3>2. CASE th' = [th EXCEPT ![t] = [th[t] EXCEPT !.pc = "set_receipt"]]
      <4>1. /\ th'[t].tx = th[t].tx /\ th'[t].number = th[t].number
            /\ th'[t].current_nonce = th[t].current_nonce
            /\ th'[t].pc = "set_receipt"
        BY <1>1, <1>2, <3>2 DEF ThreadTypes
      <4>. QED
        BY <1>1, <2>0, <2>1, <4>1 DEF ThreadBound, Bumped, Checked, historyVars
    <3>. QED
      BY <2>1, <3>1, <3>2
  <2>6. \A u \in Threads : u # t => th'[u] = th[u]
    BY <1>2, <2>1
  <2>. QED
    BY <1>0, <2>2, <2>3, <2>4, <2>5, <2>6, FrameBound DEF BoundInv
<1>11. CASE set_receipt(t)
  <2>. DEFINE new == [blockNumber |-> th[t].number + 1, status |-> th[t].success]
  <2>0. th[t].pc = "set_receipt" /\ h \in Hashes /\ s \in Addr /\ h # None
    BY <1>3, <1>11, TxKnown DEF set_receipt, WithTx
  <2>1. /\ receipt' \in {receipt, [receipt EXCEPT ![h] = new]}
        /\ UNCHANGED <<nonce, latest>> /\ UNCHANGED historyVars
        /\ th' = [th EXCEPT ![t] = Idle]
    BY <1>11 DEF set_receipt, evmdb_state_set_receipt, redis_set, Answer
  <2>2. /\ th[t].number < mined /\ th[t].number \in Nat
        /\ exec[h] > 0 /\ Tx[h].nonce < bumps[s]
    BY <1>1, <2>0 DEF ThreadBound, LocalOK, Bumped, Checked, ThreadTypes
  <2>3. new.blockNumber <= mined
    BY <1>2, <2>2
  <2>. HIDE DEF new, h
  <2>4. \A g \in Hashes : receipt'[g] = receipt[g] \/ (g = h /\ receipt'[g] = new)
    BY <2>1 DEF TypeOK, RedisTypeOK
  <2>5. HistoryGrows
    BY <1>2, <2>1 DEF historyVars, HistoryGrows
  <2>6. HeightBounded'
    BY <2>1, <2>3, <2>4 DEF BoundInv, HeightBounded, historyVars
  <2>7. NonceBounded'
    BY <2>1 DEF BoundInv, NonceBounded, historyVars
  <2>8. ReceiptImpliesExecuted'
    BY <2>1, <2>2, <2>4 DEF BoundInv, ReceiptImpliesExecuted, historyVars
  <2>9. ThreadBound(th[t])'
    <3>1. th'[t] = Idle
      BY <1>2, <2>1
    <3>. QED
      BY <3>1, <1>2, <2>1 DEF ThreadBound, Idle, Bumped, Checked, historyVars
  <2>10. \A u \in Threads : u # t => th'[u] = th[u]
    BY <1>2, <2>1
  <2>. QED
    BY <1>0, <2>5, <2>6, <2>7, <2>8, <2>9, <2>10, FrameBound DEF BoundInv
<1>. QED
  BY <1>4, <1>5, <1>6, <1>7, <1>8, <1>9, <1>10, <1>11, StepShape

\* Every step of the system preserves BoundInv.
LEMMA NextBound ==
  ASSUME TypeOK, LocalInv, BoundInv, [Next]_vars
  PROVE  BoundInv'
<1>0. TypeOK' /\ LocalInv'
  BY NextType
<1>1. ASSUME NEW t \in Threads, NEW h \in Hashes,
             handle_send_raw_transaction(t, h)
      PROVE  BoundInv'
  <2>. DEFINE r == [Idle EXCEPT !.pc = "make_block_context", !.tx = h,
                                !.to = Tx[h].to]
  <2>1. Unwritten
    BY <1>1 DEF handle_send_raw_transaction, Unwritten, RedisUnwritten, redisVars
  <2>2. ThreadBound(r)
    BY DEF TypeOK, ThreadBound, Idle, Bumped, Checked
  <2>3. CASE th' = [th EXCEPT ![t] = r]
    BY <1>0, <2>1, <2>2, <2>3, UnwrittenBound
  <2>4. CASE UNCHANGED th
    <3>1. th' = [th EXCEPT ![t] = th[t]] /\ ThreadBound(th[t])
      BY <2>4 DEF TypeOK, BoundInv
    <3>. QED
      BY <1>0, <2>1, <3>1, UnwrittenBound
  <2>. QED
    BY <1>1, <2>3, <2>4 DEF handle_send_raw_transaction, Goto
<1>2. ASSUME NEW t \in Threads, NEW a \in CallTargets, handle_call(t, a)
      PROVE  BoundInv'
  <2>. DEFINE r == [Idle EXCEPT !.pc = "make_block_context", !.to = a]
  <2>1. Unwritten /\ th' = [th EXCEPT ![t] = r]
    BY <1>2 DEF handle_call, Goto, Unwritten, RedisUnwritten, redisVars
  <2>2. ThreadBound(r)
    BY DEF TypeOK, ThreadBound, Idle, Bumped, Checked
  <2>. QED
    BY <1>0, <2>1, <2>2, UnwrittenBound
<1>3. ASSUME NEW t \in Threads, Step(t)
      PROVE  BoundInv'
  BY <1>3, StepBound
<1>4. CASE Crash
  <2>1. /\ \A u \in Threads : th'[u] = Idle
        /\ UNCHANGED <<nonce, receipt, latest>> /\ UNCHANGED historyVars
    BY <1>4 DEF Crash, evmdb_state_init
  <2>2. HeightBounded' /\ NonceBounded' /\ ReceiptImpliesExecuted'
    BY <2>1 DEF BoundInv, HeightBounded, NonceBounded, ReceiptImpliesExecuted,
       historyVars
  <2>3. \A u \in Threads : ThreadBound(th[u])'
    BY <2>1 DEF TypeOK, ThreadBound, Idle, Bumped, Checked, historyVars
  <2>. QED
    BY <2>2, <2>3 DEF BoundInv
<1>5. CASE UNCHANGED vars
  BY <1>5 DEF vars, redisVars, historyVars, BoundInv, HeightBounded, NonceBounded,
     ReceiptImpliesExecuted, ThreadBound
<1>. QED
  BY <1>1, <1>2, <1>3, <1>4, <1>5 DEF Next, Quiet

\* A store without history is within its bounds.
LEMMA InitBound ==
  ASSUME Init
  PROVE  BoundInv
<1>1. HeightBounded /\ NonceBounded /\ ReceiptImpliesExecuted
  BY DEF Init, RedisInit, NoReceipt, HeightBounded, NonceBounded,
     ReceiptImpliesExecuted
<1>2. \A t \in Threads : ThreadBound(th[t])
  BY InitType, IdleBound DEF Init
<1>. QED
  BY <1>1, <1>2 DEF BoundInv

\* In every environment - racing clients, crashes, retries, error replies, a
\* lost Redis connection - the stored height and the block numbers of the
\* receipts stay within the number of executed transactions, stored nonces
\* stay within their senders' executions, and receipts belong to executed
\* transactions (handle_send_raw_transaction and evmdb_evm_execute_tx).
THEOREM BoundsHold ==
  Spec => [](HeightBounded /\ NonceBounded /\ ReceiptImpliesExecuted)
<1>. DEFINE Inv == TypeOK /\ LocalInv /\ BoundInv
<1>1. Init => Inv
  BY InitType, InitBound
<1>2. Inv /\ [Next]_vars => Inv'
  BY NextType, NextBound
<1>3. Inv => HeightBounded /\ NonceBounded /\ ReceiptImpliesExecuted
  BY DEF BoundInv
<1>. QED
  BY <1>1, <1>2, <1>3, PTL DEF Spec

\* A stored nonce never runs ahead of the executions that stored it, though
\* evmdb_evm_execute_tx checks it and stores it in two separate commands.
COROLLARY NonceStaysBounded == Spec => []NonceBounded
BY BoundsHold, PTL

\* handle_send_raw_transaction stores a receipt only for a transaction that
\* evmdb_evm_execute_tx executed.
COROLLARY ReceiptsAreEarned == Spec => []ReceiptImpliesExecuted
BY BoundsHold, PTL

\* A transaction that was executed stays executed.
LEMMA StaysExecuted ==
  ASSUME TypeOK, LocalInv, [Next]_vars, NEW h \in Hashes, exec[h] > 0
  PROVE  exec'[h] > 0
<1>1. exec \in [Hashes -> Nat]
  BY DEF TypeOK
<1>2. ASSUME NEW t \in Threads, Step(t)
      PROVE  exec'[h] > 0
  <2>1. CASE set_nonce(t)
    <3>1. PICK g : exec' = [exec EXCEPT ![g] = exec[g] + 1]
      BY <2>1 DEF set_nonce
    <3>2. exec[h] \in Nat
      BY <1>1
    <3>3. exec'[h] = exec[h] + 1 \/ exec'[h] = exec[h]
      BY <1>1, <3>1
    <3>. QED
      BY <3>2, <3>3
  <2>2. CASE UNCHANGED exec
    BY <2>2
  <2>. QED
    BY <1>2, <2>1, <2>2, StepEffect
<1>. QED
  BY <1>2, NextEffect DEF Outside

\* What was answered before stays as it was.
LEMMA TraceKept ==
  ASSUME TypeOK, LocalInv, TraceInv, [Next]_vars, NEW r \in answered
  PROVE  /\ r.tx = None => ~r.wrote
         /\ ~r.ok /\ r.wrote => "oom" \in Faults /\ exec'[r.tx] > 0
<1>1. /\ r.tx = None => ~r.wrote
      /\ ~r.ok /\ r.wrote => "oom" \in Faults /\ exec[r.tx] > 0
  BY DEF TraceInv, ErrorLeavesNoTrace
<1>2. r.tx # None => r.tx \in Hashes
  BY DEF TypeOK, Answers
<1>. QED
  BY <1>1, <1>2, StaysExecuted

\* Every step of the system preserves TraceInv.
LEMMA NextTrace ==
  ASSUME TypeOK, LocalInv, BoundInv, TraceInv, [Next]_vars
  PROVE  TraceInv'
<1>. DEFINE Early == Uncommitted \cup {"idle", "set_code"}
            Clean(r) == r.pc \in Early => ~r.wrote
<1>0. th \in [Threads -> ThreadTypes] /\ \A u \in Threads : Clean(th[u])
  BY DEF TypeOK, TraceInv
<1>1. Clean(Idle)
  BY DEF Idle
<1>2. ASSUME NEW t \in Threads, NEW r, Goto(t, r), Clean(r)
      PROVE  TraceInv'
  <2>1. \A u \in Threads : Clean(th'[u])
    BY <1>0, <1>2 DEF Goto
  <2>2. answered' = answered
    BY <1>2 DEF Goto
  <2>. QED
    BY <2>1, <2>2, TraceKept DEF TraceInv, ErrorLeavesNoTrace
<1>3. ASSUME NEW t \in Threads, NEW ok \in BOOLEAN, Answer(t, ok),
             \/ ~th[t].wrote
             \/ /\ th[t].tx \in Hashes
                /\ ok \/ ("oom" \in Faults /\ exec[th[t].tx] > 0)
      PROVE  TraceInv'
  <2>1. \A u \in Threads : Clean(th'[u])
    BY <1>0, <1>1, <1>3 DEF Answer
  <2>. DEFINE a == [tx |-> th[t].tx, ok |-> ok, wrote |-> th[t].wrote]
  <2>2. /\ a.tx = None => ~a.wrote
        /\ ~a.ok /\ a.wrote => "oom" \in Faults /\ exec'[a.tx] > 0
    BY <1>3, StaysExecuted, PipelineAssumption
  <2>3. \A r \in answered' : r \in answered \/ r = a
    BY <1>3 DEF Answer, Reply
  <2>. HIDE DEF a
  <2>4. ErrorLeavesNoTrace'
    BY <2>2, <2>3, TraceKept DEF ErrorLeavesNoTrace
  <2>. QED
    BY <2>1, <2>4 DEF TraceInv
<1>4. ASSUME NEW t \in Threads, Step(t)
      PROVE  TraceInv'
  <2>0. th[t] \in ThreadTypes /\ Clean(th[t])
    BY <1>0
  <2>1. CASE GivesUp(t)
    BY <2>0, <2>1, <1>3 DEF GivesUp
  <2>2. CASE GetsContext(t)
    <3>1. PICK n \in {latest, 0}, p \in {"get_nonce", "get_code"} :
            Goto(t, [[th[t] EXCEPT !.number = n] EXCEPT !.pc = p])
      BY <2>2 DEF GetsContext
    <3>. DEFINE r == [[th[t] EXCEPT !.number = n] EXCEPT !.pc = p]
    <3>2. ~r.wrote
      BY <2>0, <2>2 DEF GetsContext, ThreadTypes, Uncommitted
    <3>. QED
      BY <3>1, <3>2, <1>2
  <2>3. CASE PassesCheck(t)
    <3>1. PICK n \in {nonce[Tx[th[t].tx].from], 0}, p \in {"set_code", "get_code"} :
            Goto(t, [th[t] EXCEPT !.current_nonce = n, !.pc = p])
      BY <2>3 DEF PassesCheck
    <3>. DEFINE r == [th[t] EXCEPT !.current_nonce = n, !.pc = p]
    <3>2. ~r.wrote
      BY <2>0, <2>3 DEF PassesCheck, ThreadTypes, Uncommitted
    <3>. QED
      BY <3>1, <3>2, <1>2
  <2>4. CASE Runs(t)
    <3>1. PICK r : Same(r, th[t]) /\ Goto(t, r)
      BY <2>4 DEF Runs
    <3>2. ~r.wrote
      BY <2>0, <2>4, <3>1 DEF Runs, Same, Uncommitted, WithTarget
    <3>. QED
      BY <3>1, <3>2, <1>2
  <2>5. CASE set_code(t)
    <3>. DEFINE r == [th[t] EXCEPT !.pc = "set_nonce", !.success = TRUE,
                                   !.wrote = TRUE]
    <3>1. r.pc = "set_nonce"
      BY <2>0 DEF ThreadTypes
    <3>2. Goto(t, r)
      BY <2>5 DEF set_code
    <3>. QED
      BY <3>1, <3>2, <1>2 DEF Uncommitted
  <2>6. CASE exec_context_commit(t)
    <3>. DEFINE p == IF th[t].next = Len(th[t].writes) THEN "set_nonce"
                                                       ELSE "commit"
                r == [th[t] EXCEPT !.wrote = TRUE, !.next = @ + 1, !.pc = p]
    <3>1. r.pc \in {"set_nonce", "commit"}
      BY <2>0 DEF ThreadTypes
    <3>2. Goto(t, r)
      BY <2>6 DEF exec_context_commit
    <3>. QED
      BY <3>1, <3>2, <1>2 DEF Uncommitted
  <2>7. CASE set_nonce(t)
    <3>. DEFINE r == [th[t] EXCEPT !.pc = "set_block_number", !.wrote = TRUE]
    <3>1. r.pc = "set_block_number"
      BY <2>0 DEF ThreadTypes
    <3>2. Goto(t, r)
      BY <2>7 DEF set_nonce
    <3>. QED
      BY <3>1, <3>2, <1>2 DEF Uncommitted
  <2>8. CASE set_block_number(t)
    <3>. DEFINE r == [th[t] EXCEPT !.pc = "set_receipt"]
    <3>1. r.pc = "set_receipt"
      BY <2>0 DEF ThreadTypes
    <3>2. Goto(t, r) \/ ("oom" \in Faults /\ Answer(t, FALSE))
      BY <2>8 DEF set_block_number
    <3>3. CASE Goto(t, r)
      BY <3>1, <3>3, <1>2 DEF Uncommitted
    <3>4. CASE "oom" \in Faults /\ Answer(t, FALSE)
      <4>1. th[t].tx # None /\ th[t].tx \in Hashes
        BY <2>8, TxKnown DEF set_block_number, WithTx
      <4>2. exec[th[t].tx] > 0
        BY <2>8 DEF BoundInv, ThreadBound, set_block_number, Bumped
      <4>. QED
        BY <3>4, <4>1, <4>2, <1>3
    <3>. QED
      BY <3>2, <3>3, <3>4
  <2>9. CASE set_receipt(t)
    <3>1. th[t].tx \in Hashes
      BY <2>9, TxKnown DEF set_receipt, WithTx
    <3>. QED
      BY <2>9, <3>1, <1>3 DEF set_receipt
  <2>. QED
    BY <1>4, <2>1, <2>2, <2>3, <2>4, <2>5, <2>6, <2>7, <2>8, <2>9, StepShape
<1>5. ASSUME NEW t \in Threads, NEW h \in Hashes,
             handle_send_raw_transaction(t, h)
      PROVE  TraceInv'
  <2>. DEFINE r == [Idle EXCEPT !.pc = "make_block_context", !.tx = h,
                                !.to = Tx[h].to]
  <2>1. ~r.wrote
    BY DEF Idle
  <2>2. CASE Goto(t, r)
    BY <2>1, <2>2, <1>2
  <2>3. CASE /\ Reply([tx |-> h, ok |-> FALSE, wrote |-> FALSE])
             /\ UNCHANGED th
    <3>. DEFINE a == [tx |-> h, ok |-> FALSE, wrote |-> FALSE]
    <3>1. ~a.wrote /\ \A q \in answered' : q \in answered \/ q = a
      BY <2>3 DEF Reply
    <3>. HIDE DEF a
    <3>. QED
      BY <1>0, <2>3, <3>1, TraceKept DEF TraceInv, ErrorLeavesNoTrace
  <2>. QED
    BY <1>5, <2>2, <2>3 DEF handle_send_raw_transaction
<1>6. ASSUME NEW t \in Threads, NEW a \in CallTargets, handle_call(t, a)
      PROVE  TraceInv'
  <2>. DEFINE r == [Idle EXCEPT !.pc = "make_block_context", !.to = a]
  <2>1. ~r.wrote /\ Goto(t, r)
    BY <1>6 DEF handle_call, Idle
  <2>. QED
    BY <2>1, <1>2
<1>7. CASE Crash
  BY <1>7, <1>1, TraceKept DEF Crash, TraceInv, ErrorLeavesNoTrace
<1>8. CASE UNCHANGED vars
  BY <1>8, TraceKept DEF vars, TraceInv, ErrorLeavesNoTrace
<1>. QED
  BY <1>4, <1>5, <1>6, <1>7, <1>8 DEF Next, Quiet

\* In every environment, an eth_call and a request answered with an error (the
\* early returns of evmdb_evm_execute_tx and execute_contract) have left no
\* trace in Redis, but for the error about a receipt that handlers.c has no
\* memory to format, which only an executed transaction can get.
THEOREM ErrorsLeaveNoTrace == Spec => []ErrorLeavesNoTrace
<1>. DEFINE Inv == TypeOK /\ LocalInv /\ BoundInv /\ TraceInv
<1>1. Init => Inv
  <2>. SUFFICES ASSUME Init PROVE TraceInv
    BY InitType, InitBound
  <2>. QED
    BY DEF Init, Idle, TraceInv, ErrorLeavesNoTrace
<1>2. Inv /\ [Next]_vars => Inv'
  BY NextType, NextBound, NextTrace
<1>3. Inv => ErrorLeavesNoTrace
  BY DEF TraceInv
<1>. QED
  BY <1>1, <1>2, <1>3, PTL DEF Spec

----------------------------------------------------------------------------
(* The overlay: what exec_context_commit stores.                           *)

\* The overlay buffers each slot once, and only slots of the contract at a:
\* then the two scans of ExecContext find the same entry.
Fits(w, a) == NoDuplicates(w) /\ \A i \in DOMAIN w : w[i].slot \in {a} \X Keys

\* The overlay is empty until the execution starts, fits while it lasts, and
\* is committed only for one that succeeded.
OverlayOK(r) ==
  /\ r.pc \in Uncommitted \ {"evm"} => r.writes = <<>>
  /\ r.pc \in {"evm", "commit"} => Fits(r.writes, r.to)
  /\ r.pc = "commit" => r.success

OverlayInv == \A t \in Threads : OverlayOK(th[t])

\* An empty overlay fits every contract.
LEMMA EmptyFits ==
  ASSUME NEW a
  PROVE  Fits(<<>>, a)
BY DEF Fits, NoDuplicates

\* Buffering a write keeps the overlay in order.
LEMMA FitsSetWrite ==
  ASSUME NEW w \in Writes, NEW a, Fits(w, a), NEW k \in Keys, NEW v \in Values
  PROVE  Fits(exec_context_set_write(w, <<a, k>>, v), a)
<1>. DEFINE slot == <<a, k>>
            e == Write(slot, v)
<1>1. e.slot = slot /\ slot \in {a} \X Keys
  BY DEF Write
<1>. HIDE DEF slot, e
<1>2. w \in Seq([slot : Slot, value : Values])
  BY DEF Writes
<1>3. CASE Overlays(w, slot)
  <2>1. FirstIndex(w, slot) \in DOMAIN w /\ w[FirstIndex(w, slot)].slot = slot
    <3>1. \E i \in DOMAIN w : /\ w[i].slot = slot
                              /\ \A j \in DOMAIN w : w[j].slot = slot => i <= j
      <4>1. PICK i \in DOMAIN w : w[i].slot = slot
        BY <1>3 DEF Overlays
      <4>2. \A j \in DOMAIN w : w[j].slot = slot => j = i
        BY <4>1 DEF Fits, NoDuplicates
      <4>3. i \in Nat
        BY <1>2, <4>1
      <4>. QED
        BY <4>1, <4>2, <4>3
    <3>. QED
      BY <3>1 DEF FirstIndex
  <2>. DEFINE j == FirstIndex(w, slot)
              z == [w EXCEPT ![j] = e]
  <2>. HIDE DEF j
  <2>2. DOMAIN z = DOMAIN w /\ \A i \in DOMAIN w : z[i].slot = w[i].slot
    BY <1>1, <2>1 DEF j
  <2>. HIDE DEF z
  <2>3. Fits(z, a)
    BY <2>2 DEF Fits, NoDuplicates
  <2>. QED
    BY <1>3, <2>3 DEF exec_context_set_write, z, j, e, slot
<1>4. CASE ~Overlays(w, slot)
  <2>. DEFINE z == Append(w, e)
  <2>1. /\ DOMAIN w = 1 .. Len(w) /\ DOMAIN z = 1 .. Len(w) + 1 /\ Len(w) \in Nat
        /\ z[Len(w) + 1] = e /\ \A i \in 1 .. Len(w) : z[i] = w[i]
    BY <1>2
  <2>. HIDE DEF z
  <2>2. \A i \in DOMAIN z : i \in DOMAIN w \/ i = Len(w) + 1
    BY <2>1
  <2>3. \A i \in DOMAIN w : w[i].slot # slot
    BY <1>4 DEF Overlays
  <2>4. Fits(z, a)
    BY <1>1, <2>1, <2>2, <2>3 DEF Fits, NoDuplicates
  <2>. QED
    BY <1>4, <2>4 DEF exec_context_set_write, z, e, slot
<1>. QED
  BY <1>3, <1>4

\* In an overlay without duplicates the scan from the end finds the entry.
LEMMA ScanFinds ==
  ASSUME NEW w \in Writes, NEW a, Fits(w, a), NEW i \in DOMAIN w
  PROVE  exec_context_get_write(w, w[i].slot) = w[i].value
<1>1. DOMAIN w \subseteq Nat
  BY DEF Writes
<1>2. \E k \in DOMAIN w : /\ w[k].slot = w[i].slot
                          /\ \A j \in DOMAIN w : w[j].slot = w[i].slot => j <= k
  BY <1>1 DEF Fits, NoDuplicates
<1>3. LastIndex(w, w[i].slot) \in DOMAIN w /\ w[LastIndex(w, w[i].slot)].slot = w[i].slot
  BY <1>2 DEF LastIndex
<1>4. LastIndex(w, w[i].slot) = i
  BY <1>3 DEF Fits, NoDuplicates
<1>. QED
  BY <1>4 DEF exec_context_get_write

\* Every step of a thread preserves OverlayInv.
LEMMA StepOverlay ==
  ASSUME TypeOK, LocalInv, OverlayInv, NEW t \in Threads, Step(t)
  PROVE  OverlayInv'
<1>0. /\ th \in [Threads -> ThreadTypes] /\ th[t] \in ThreadTypes
      /\ OverlayOK(th[t])
  BY DEF TypeOK, OverlayInv
<1>1. ASSUME NEW r, Goto(t, r), OverlayOK(r)
      PROVE  OverlayInv'
  BY <1>0, <1>1 DEF Goto, OverlayInv
<1>2. ASSUME NEW ok, Answer(t, ok)
      PROVE  OverlayInv'
  <2>1. OverlayOK(Idle)
    BY DEF OverlayOK, Idle, Uncommitted
  <2>. QED
    BY <1>0, <1>2, <2>1 DEF Answer, OverlayInv
\* A step to a point where the overlay is done with.
<1>3. ASSUME NEW r, Goto(t, r), r.pc \notin Uncommitted \cup {"commit"}
      PROVE  OverlayInv'
  BY <1>1, <1>3 DEF OverlayOK, Uncommitted
<1>4. CASE GetsContext(t)
  <2>1. PICK n \in {latest, 0}, p \in {"get_nonce", "get_code"} :
          Goto(t, [[th[t] EXCEPT !.number = n] EXCEPT !.pc = p])
    BY <1>4 DEF GetsContext
  <2>. DEFINE r == [[th[t] EXCEPT !.number = n] EXCEPT !.pc = p]
  <2>2. r.pc = p /\ r.writes = th[t].writes
    BY <1>0 DEF ThreadTypes
  <2>3. th[t].writes = <<>>
    BY <1>0, <1>4 DEF GetsContext, OverlayOK, Uncommitted
  <2>4. Goto(t, r)
    BY <2>1
  <2>. HIDE DEF r
  <2>5. OverlayOK(r)
    BY <2>2, <2>3 DEF OverlayOK
  <2>. QED
    BY <1>1, <2>4, <2>5
<1>5. CASE PassesCheck(t)
  <2>1. PICK n \in {nonce[Tx[th[t].tx].from], 0}, p \in {"set_code", "get_code"} :
          Goto(t, [th[t] EXCEPT !.current_nonce = n, !.pc = p])
    BY <1>5 DEF PassesCheck
  <2>. DEFINE r == [th[t] EXCEPT !.current_nonce = n, !.pc = p]
  <2>2. r.pc = p /\ r.writes = th[t].writes
    BY <1>0 DEF ThreadTypes
  <2>3. th[t].writes = <<>>
    BY <1>0, <1>5 DEF PassesCheck, OverlayOK, Uncommitted
  <2>4. Goto(t, r)
    BY <2>1
  <2>. HIDE DEF r
  <2>5. OverlayOK(r)
    BY <2>2, <2>3 DEF OverlayOK
  <2>. QED
    BY <1>1, <2>4, <2>5
<1>6. CASE get_code(t)
  <2>. DEFINE r1 == [th[t] EXCEPT !.pc = "evm"]
              r2 == [th[t] EXCEPT !.pc = "set_nonce", !.success = TRUE]
  <2>1. Goto(t, r1) \/ Goto(t, r2) \/ Answer(t, TRUE)
    BY <1>6 DEF get_code
  <2>2. th[t].writes = <<>>
    BY <1>0, <1>6 DEF get_code, OverlayOK, Uncommitted
  <2>3. r1.pc = "evm" /\ r1.writes = th[t].writes /\ r2.pc = "set_nonce"
    BY <1>0 DEF ThreadTypes
  <2>. HIDE DEF r1, r2
  <2>4. OverlayOK(r1)
    BY <2>2, <2>3, EmptyFits DEF OverlayOK, Uncommitted
  <2>. QED
    BY <1>1, <1>2, <1>3, <2>1, <2>3, <2>4 DEF Uncommitted
\* A host call that leaves the overlay alone.
<1>7. ASSUME NEW r, Goto(t, r), th[t].pc = "evm", r.pc = "evm",
             r.writes = th[t].writes, r.to = th[t].to
      PROVE  OverlayInv'
  BY <1>0, <1>1, <1>7 DEF OverlayOK, Uncommitted
<1>8. ASSUME NEW k \in Keys, host_get_storage(t, k)
      PROVE  OverlayInv'
  <2>1. th[t].pc = "evm"
    BY <1>8 DEF host_get_storage
  <2>2. PICK r : /\ Goto(t, r)
                 /\ \/ r = [th[t] EXCEPT !.ops = @ + 1]
                    \/ \E x : r = [th[t] EXCEPT !.ops = @ + 1, !.reads = x]
    BY <1>8 DEF host_get_storage
  <2>3. r.pc = "evm" /\ r.writes = th[t].writes /\ r.to = th[t].to
    BY <1>0, <2>1, <2>2 DEF ThreadTypes
  <2>. QED
    BY <1>7, <2>1, <2>2, <2>3
<1>9. ASSUME NEW k \in Keys, NEW v \in Values, host_set_storage(t, k, v)
      PROVE  OverlayInv'
  <2>. DEFINE w == exec_context_set_write(th[t].writes, <<th[t].to, k>>, v)
              r1 == [th[t] EXCEPT !.ops = @ + 1]
              r2 == [th[t] EXCEPT !.ops = @ + 1, !.writes = w]
  <2>1. th[t].pc = "evm" /\ (Goto(t, r1) \/ Goto(t, r2))
    BY <1>9 DEF host_set_storage
  <2>2. Fits(th[t].writes, th[t].to) /\ th[t].writes \in Writes
    BY <1>0, <2>1 DEF OverlayOK, ThreadTypes
  <2>3. Fits(w, th[t].to)
    BY <2>2, FitsSetWrite
  <2>. HIDE DEF w
  <2>4. /\ r1.pc = "evm" /\ r1.writes = th[t].writes /\ r1.to = th[t].to
        /\ r2.pc = "evm" /\ r2.writes = w /\ r2.to = th[t].to
    BY <1>0, <2>1 DEF ThreadTypes
  <2>. HIDE DEF r1, r2
  <2>5. OverlayOK(r2)
    BY <2>3, <2>4 DEF OverlayOK, Uncommitted
  <2>. QED
    BY <1>1, <1>7, <2>1, <2>4, <2>5
<1>10. ASSUME HostRead(t)
       PROVE  OverlayInv'
  <2>. DEFINE r == [th[t] EXCEPT !.ops = @ + 1]
  <2>1. th[t].pc = "evm" /\ Goto(t, r)
    BY <1>10 DEF HostRead
  <2>2. r.pc = th[t].pc /\ r.writes = th[t].writes /\ r.to = th[t].to
    BY <1>0 DEF ThreadTypes
  <2>. HIDE DEF r
  <2>. QED
    BY <1>7, <2>1, <2>2
<1>11. CASE evm_revert(t)
  <2>. DEFINE r == [th[t] EXCEPT !.pc = "set_nonce", !.writes = <<>>]
  <2>1. r.pc = "set_nonce"
    BY <1>0 DEF ThreadTypes
  <2>2. Goto(t, r) \/ Answer(t, FALSE)
    BY <1>11 DEF evm_revert
  <2>. HIDE DEF r
  <2>. QED
    BY <1>2, <1>3, <2>1, <2>2 DEF Uncommitted
<1>12. CASE evm_success(t)
  <2>. DEFINE p == IF th[t].writes = <<>> THEN "set_nonce" ELSE "commit"
              r == [th[t] EXCEPT !.success = TRUE, !.pc = p]
  <2>1. th[t].pc = "evm" /\ (Goto(t, r) \/ \E ok \in BOOLEAN : Answer(t, ok))
    BY <1>12 DEF evm_success
  <2>2. p \in {"set_nonce", "commit"}
    OBVIOUS
  <2>. HIDE DEF p
  <2>3. r.pc = p /\ r.writes = th[t].writes /\ r.to = th[t].to /\ r.success
    BY <1>0 DEF ThreadTypes
  <2>. HIDE DEF r
  <2>4. OverlayOK(r)
    BY <1>0, <2>1, <2>2, <2>3 DEF OverlayOK, Uncommitted
  <2>. QED
    BY <1>1, <1>2, <2>1, <2>4
<1>13. CASE exec_context_commit(t)
  <2>. DEFINE p == IF th[t].next = Len(th[t].writes) THEN "set_nonce" ELSE "commit"
              r == [th[t] EXCEPT !.wrote = TRUE, !.next = @ + 1, !.pc = p]
  <2>1. th[t].pc = "commit" /\ Goto(t, r)
    BY <1>13 DEF exec_context_commit
  <2>2. p \in {"set_nonce", "commit"}
    OBVIOUS
  <2>. HIDE DEF p
  <2>3. /\ r.pc = p /\ r.writes = th[t].writes /\ r.to = th[t].to
        /\ r.success = th[t].success
    BY <1>0 DEF ThreadTypes
  <2>. HIDE DEF r
  <2>4. OverlayOK(r)
    BY <1>0, <2>1, <2>2, <2>3 DEF OverlayOK, Uncommitted
  <2>. QED
    BY <1>1, <2>1, <2>4
<1>14. CASE set_code(t)
  <2>. DEFINE r == [th[t] EXCEPT !.pc = "set_nonce", !.success = TRUE, !.wrote = TRUE]
  <2>1. r.pc = "set_nonce" /\ Goto(t, r)
    BY <1>0, <1>14 DEF ThreadTypes, set_code
  <2>. HIDE DEF r
  <2>. QED
    BY <1>3, <2>1 DEF Uncommitted
<1>15. CASE set_nonce(t)
  <2>. DEFINE r == [th[t] EXCEPT !.pc = "set_block_number", !.wrote = TRUE]
  <2>1. r.pc = "set_block_number" /\ Goto(t, r)
    BY <1>0, <1>15 DEF ThreadTypes, set_nonce
  <2>. HIDE DEF r
  <2>. QED
    BY <1>3, <2>1 DEF Uncommitted
<1>16. CASE set_block_number(t)
  <2>. DEFINE r == [th[t] EXCEPT !.pc = "set_receipt"]
  <2>1. r.pc = "set_receipt" /\ (Goto(t, r) \/ Answer(t, FALSE))
    BY <1>0, <1>16 DEF ThreadTypes, set_block_number
  <2>. HIDE DEF r
  <2>. QED
    BY <1>2, <1>3, <2>1 DEF Uncommitted
<1>17. CASE set_receipt(t) \/ evm_internal_error(t) \/ GivesUp(t)
  BY <1>2, <1>17 DEF set_receipt, evm_internal_error, GivesUp
<1>18. CASE make_block_context(t) \/ get_nonce(t)
  <2>1. th[t].pc \in {"make_block_context", "get_nonce"}
    BY <1>18 DEF make_block_context, get_nonce
  <2>2. GivesUp(t) \/ GetsContext(t) \/ PassesCheck(t)
    BY <2>1, StepShape DEF Runs, WithTarget, set_code, exec_context_commit, set_nonce,
       set_block_number, set_receipt
  <2>. QED
    BY <1>4, <1>5, <1>17, <2>2
<1>. QED
  BY <1>6, <1>8, <1>9, <1>10, <1>11, <1>12, <1>13, <1>14, <1>15, <1>16, <1>17, <1>18
     DEF Step, host_account_exists, host_get_balance, host_copy_code

\* Every step of the system preserves OverlayInv.
LEMMA NextOverlay ==
  ASSUME TypeOK, LocalInv, OverlayInv, [Next]_vars
  PROVE  OverlayInv'
<1>0. th \in [Threads -> ThreadTypes] /\ OverlayOK(Idle)
  BY DEF TypeOK, OverlayOK, Idle, Uncommitted
<1>1. ASSUME NEW t \in Threads, NEW r, Goto(t, r), r.pc = "make_block_context",
             r.writes = <<>>
      PROVE  OverlayInv'
  <2>1. OverlayOK(r)
    BY <1>1 DEF OverlayOK
  <2>. QED
    BY <1>0, <1>1, <2>1 DEF OverlayInv, Goto
<1>2. ASSUME NEW t \in Threads, NEW h \in Hashes, handle_send_raw_transaction(t, h)
      PROVE  OverlayInv'
  <2>. DEFINE r == [Idle EXCEPT !.pc = "make_block_context", !.tx = h, !.to = Tx[h].to]
  <2>1. r.pc = "make_block_context" /\ r.writes = <<>>
    BY DEF Idle
  <2>2. Goto(t, r) \/ UNCHANGED th
    BY <1>2 DEF handle_send_raw_transaction
  <2>. HIDE DEF r
  <2>. QED
    BY <1>1, <2>1, <2>2 DEF OverlayInv
<1>3. ASSUME NEW t \in Threads, NEW a \in CallTargets, handle_call(t, a)
      PROVE  OverlayInv'
  <2>. DEFINE r == [Idle EXCEPT !.pc = "make_block_context", !.to = a]
  <2>1. r.pc = "make_block_context" /\ r.writes = <<>>
    BY DEF Idle
  <2>2. Goto(t, r)
    BY <1>3 DEF handle_call
  <2>. HIDE DEF r
  <2>. QED
    BY <1>1, <2>1, <2>2
<1>4. CASE Crash
  BY <1>0, <1>4 DEF Crash, OverlayInv
<1>5. CASE UNCHANGED vars
  BY <1>5 DEF vars, OverlayInv
<1>. QED
  BY <1>2, <1>3, <1>4, <1>5, StepOverlay DEF Next, Quiet

\* Thread t may store the word v in slot s: it runs a transaction that
\* succeeded, in that contract, and v is its last word for the slot.
FinalWord(t, s, v) ==
  /\ th[t].tx # None /\ th[t].success /\ s[1] = Tx[th[t].tx].to
  /\ Overlays(th[t].writes, s)
  /\ v = exec_context_get_write(th[t].writes, s)

\* One turn of exec_context_commit stores a final word or nothing.
LEMMA CommitStoresFinalWord ==
  ASSUME TypeOK, LocalInv, OverlayInv, NEW t \in Threads, exec_context_commit(t),
         NEW s \in Slot, storage'[s] # storage[s]
  PROVE  FinalWord(t, s, storage'[s])
<1>. DEFINE i == th[t].next
            w == th[t].writes
            e == w[i]
<1>0. th[t] \in ThreadTypes /\ LocalOK(th[t]) /\ OverlayOK(th[t]) /\ th[t].pc = "commit"
  BY DEF TypeOK, LocalInv, OverlayInv, exec_context_commit
<1>1. /\ w \in Writes /\ Fits(w, th[t].to) /\ th[t].success /\ i \in Nat \ {0}
      /\ i <= Len(w)
  BY <1>0 DEF ThreadTypes, OverlayOK, LocalOK
<1>2. th[t].tx # None /\ th[t].to = Tx[th[t].tx].to
  BY <1>0, TxKnown DEF WithTx, LocalOK
<1>3. storage \in [Slot -> Values]
  BY DEF TypeOK, RedisTypeOK
<1>4. evmdb_state_set_storage(e.slot, e.value)
  BY DEF exec_context_commit
<1>. HIDE DEF w, i
<1>5. i \in DOMAIN w
  BY <1>1 DEF Writes
<1>. HIDE DEF e
<1>6. storage' = storage \/ storage' = [storage EXCEPT ![e.slot] = e.value]
  BY <1>4 DEF evmdb_state_set_storage, redis_set
<1>7. s = e.slot /\ storage'[s] = e.value
  BY <1>3, <1>6
<1>8. s \in {th[t].to} \X Keys
  BY <1>1, <1>5, <1>7 DEF Fits, e
<1>9. s[1] = th[t].to
  BY <1>8
<1>10. exec_context_get_write(w, s) = e.value
  BY <1>1, <1>5, <1>7, ScanFinds DEF e
<1>11. Overlays(w, s)
  BY <1>5, <1>7 DEF Overlays, e
<1>. QED
  BY <1>1, <1>2, <1>7, <1>9, <1>10, <1>11 DEF FinalWord, w

\* Only exec_context_commit writes storage.
LEMMA StorageStep ==
  ASSUME TypeOK, LocalInv, Next
  PROVE  (\E t \in Threads : exec_context_commit(t)) \/ UNCHANGED storage
<1>1. ASSUME NEW t \in Threads, Step(t)
      PROVE  exec_context_commit(t) \/ UNCHANGED storage
  BY <1>1, StepShape DEF GivesUp, GetsContext, PassesCheck, Runs, Unwritten,
     RedisUnwritten, set_code, set_nonce, set_block_number, set_receipt,
     evmdb_state_set_code, evmdb_state_set_nonce, evmdb_state_set_block_number,
     evmdb_state_set_receipt
<1>. QED
  BY <1>1 DEF Next, handle_send_raw_transaction, handle_call, Crash, evmdb_state_init,
     Quiet, vars, redisVars

\* In every environment a word in Redis changes only when a transaction that
\* succeeded stores it, in the contract it called and with the last value it
\* wrote there: the two scans of the overlay in executor.c, from its end and
\* from its start, agree, and a failed execution or an eth_call stores nothing.
THEOREM OnlyFinalWordsAreStored == Spec => StoresOnlyFinalWords
<1>. DEFINE Inv == TypeOK /\ LocalInv /\ OverlayInv
            Stores == \A s \in Slot : storage'[s] # storage[s] =>
              \E t \in Threads :
                /\ th[t].tx # None /\ th[t].success /\ s[1] = Tx[th[t].tx].to
                /\ Overlays(th[t].writes, s)
                /\ storage'[s] = exec_context_get_write(th[t].writes, s)
<1>1. Init => Inv
  <2>. SUFFICES ASSUME Init PROVE OverlayInv
    BY InitType
  <2>. QED
    BY DEF Init, Idle, OverlayInv, OverlayOK, Uncommitted
<1>2. Inv /\ [Next]_vars => Inv'
  BY NextType, NextOverlay
<1>3. Inv /\ [Next]_vars => [Stores]_vars
  <2>. SUFFICES ASSUME Inv, Next, NEW s \in Slot, storage'[s] # storage[s]
                PROVE  \E t \in Threads : FinalWord(t, s, storage'[s])
    BY DEF FinalWord
  <2>. QED
    BY StorageStep, CommitStoresFinalWord
<1>. QED
  BY <1>1, <1>2, <1>3, PTL DEF Spec, StoresOnlyFinalWords

----------------------------------------------------------------------------
(* Part two: serial senders and a Redis that does not fail.                *)

FromSerial(r) == r.tx # None /\ Tx[r.tx].from \in Serial

ThreadSerial(r) ==
  FromSerial(r) =>
    LET s == Tx[r.tx].from
    IN /\ r.pc \in Checked \ Bumped => nonce[s] = r.current_nonce
       /\ r.pc \in Bumped => nonce[s] = r.current_nonce + 1

OneInFlight ==
  \A t, u \in Threads :
    (FromSerial(th[t]) /\ th[u].tx # None
       /\ Tx[th[u].tx].from = Tx[th[t].tx].from) => t = u

CountsSerial ==
  /\ \A s \in Serial : nonce[s] = bumps[s]
  /\ \A h \in Hashes : Tx[h].from \in Serial =>
       exec[h] <= 1 /\ (exec[h] > 0 => nonce[Tx[h].from] > Tx[h].nonce)

\* A stored answer is durable: the conclusion of AnsweredIsDurable.
Durable(r) ==
  (r.ok /\ r.tx # None) =>
    /\ receipt[r.tx] # NoReceipt
    /\ Tx[r.tx].from \in Serial => nonce[Tx[r.tx].from] > Tx[r.tx].nonce

SerialInv ==
  /\ link = "up" /\ OneInFlight /\ CountsSerial
  /\ \A t \in Threads : ThreadSerial(th[t])
  /\ \A r \in answered : Durable(r)

\* Without Redis failures the connection of a process stays up.
LEMMA LinkStaysUp ==
  ASSUME Reliable, link = "up", [Next]_vars
  PROVE  link' = "up"
<1>0. "error" \notin Faults /\ "lost" \notin Faults
  BY DEF Reliable
<1>1. ASSUME NEW t \in Threads, Step(t)
      PROVE  link' = "up"
  <2>1. CASE make_block_context(t)
    BY <1>0, <2>1 DEF make_block_context, evmdb_state_get_block_number, redis_get
  <2>2. CASE get_nonce(t)
    BY <1>0, <2>2 DEF get_nonce, evmdb_state_get_nonce, redis_get
  <2>3. CASE set_code(t)
    BY <1>0, <2>3 DEF set_code, evmdb_state_set_code, redis_set
  <2>4. CASE get_code(t)
    BY <1>0, <2>4 DEF get_code, evmdb_state_get_code, redis_get
  <2>5. CASE \E k \in Keys : host_get_storage(t, k)
    BY <1>0, <2>5 DEF host_get_storage, evmdb_state_get_storage, redis_get
  <2>6. CASE \E k \in Keys, v \in Values : host_set_storage(t, k, v)
    BY <1>0, <2>6 DEF host_set_storage, evmdb_state_get_storage, redis_get
  <2>7. CASE evm_internal_error(t) \/ evm_revert(t) \/ evm_success(t)
    BY <2>7 DEF evm_internal_error, evm_revert, evm_success, redisVars
  <2>8. CASE exec_context_commit(t)
    BY <1>0, <2>8 DEF exec_context_commit, evmdb_state_set_storage, redis_set
  <2>9. CASE set_nonce(t)
    BY <1>0, <2>9 DEF set_nonce, evmdb_state_set_nonce, redis_set
  <2>10. CASE set_block_number(t)
    BY <1>0, <2>10 DEF set_block_number, evmdb_state_set_block_number, redis_set
  <2>11. CASE set_receipt(t)
    BY <1>0, <2>11 DEF set_receipt, evmdb_state_set_receipt, redis_set
  <2>12. CASE \E a \in Addr : \/ host_account_exists(t, a)
                              \/ host_get_balance(t, a) \/ host_copy_code(t, a)
    BY <1>0, <2>12 DEF host_account_exists, host_get_balance, host_copy_code,
       evmdb_state_get_nonce, evmdb_state_get_balance, evmdb_state_get_code,
       redis_get
  <2>. QED
    BY <1>1, <2>1, <2>2, <2>3, <2>4, <2>5, <2>6, <2>7, <2>8, <2>9, <2>10, <2>11,
       <2>12
       DEF Step
<1>2. ASSUME NEW t \in Threads, \E h \in Hashes : handle_send_raw_transaction(t, h)
      PROVE  link' = "up"
  BY <1>2 DEF handle_send_raw_transaction, redisVars
<1>3. ASSUME NEW t \in Threads, \E a \in CallTargets : handle_call(t, a)
      PROVE  link' = "up"
  BY <1>3 DEF handle_call, redisVars
<1>4. CASE Crash
  BY <1>4 DEF Crash, evmdb_state_init
<1>5. CASE UNCHANGED vars
  BY <1>5 DEF vars, redisVars
<1>. QED
  BY <1>1, <1>2, <1>3, <1>4, <1>5 DEF Next, Quiet

\* A request that ends or goes on does not put a second one in flight.
LEMMA FrameOneInFlight ==
  ASSUME th \in [Threads -> ThreadTypes], OneInFlight, NEW t \in Threads, NEW r,
         th' = [th EXCEPT ![t] = r], r.tx = th[t].tx \/ r.tx = None
  PROVE  OneInFlight'
<1>1. \A u \in Threads : th'[u].tx = th[u].tx \/ th'[u].tx = None
  OBVIOUS
<1>. QED
  BY <1>1 DEF OneInFlight, FromSerial

\* A step of thread t that stores no nonce keeps SerialInv, given that it
\* leaves t itself in order and that new answers are durable.
LEMMA CalmSerial ==
  ASSUME TypeOK, SerialInv, link' = "up", UNCHANGED <<nonce, bumps, exec>>,
         NEW t \in Threads, NEW r, th' = [th EXCEPT ![t] = r],
         OneInFlight', ThreadSerial(r),
         \A h \in Hashes : receipt[h] # NoReceipt => receipt'[h] # NoReceipt,
         \A a \in answered' : a \in answered \/ Durable(a)'
  PROVE  SerialInv'
<1>1. CountsSerial'
  BY DEF SerialInv, CountsSerial
<1>2. \A u \in Threads : ThreadSerial(th[u])'
  <2>1. \A u \in Threads : th'[u] = r \/ th'[u] = th[u]
    BY DEF TypeOK
  <2>. QED
    BY <2>1 DEF SerialInv, ThreadSerial, FromSerial
<1>3. \A a \in answered' : Durable(a)'
  <2>1. ASSUME NEW a \in answered
        PROVE  Durable(a)'
    <3>1. a.tx # None => a.tx \in Hashes
      BY DEF TypeOK, Answers
    <3>. QED
      BY <3>1 DEF SerialInv, Durable
  <2>. QED
    BY <2>1
<1>. QED
  BY <1>1, <1>2, <1>3 DEF SerialInv

\* Every step of a thread preserves SerialInv.
LEMMA StepSerial ==
  ASSUME Reliable, TypeOK, LocalInv, BoundInv, SerialInv, NEW t \in Threads, Step(t)
  PROVE  SerialInv'
<1>0. link' = "up" /\ link = "up"
  BY LinkStaysUp DEF SerialInv, Next
<1>1. /\ th[t] \in ThreadTypes /\ LocalOK(th[t]) /\ ThreadSerial(th[t])
      /\ th \in [Threads -> ThreadTypes] /\ OneInFlight
      /\ nonce \in [Addr -> Nat] /\ bumps \in [Addr -> Nat]
      /\ exec \in [Hashes -> Nat]
      /\ receipt \in [Hashes -> Receipts \cup {NoReceipt}]
  BY DEF TypeOK, RedisTypeOK, LocalInv, SerialInv
<1>. DEFINE h == th[t].tx
            s == Tx[h].from
<1>2. h # None => h \in Hashes /\ s \in Addr /\ Tx[h].nonce \in Nat
  BY TxKnown
<1>3. ThreadSerial(Idle) /\ Idle.tx = None
  BY DEF ThreadSerial, FromSerial, Idle
<1>4. "error" \notin Faults /\ "lost" \notin Faults
  BY DEF Reliable
<1>5. ASSUME UNCHANGED <<nonce, bumps, exec, receipt>>, NEW r, Goto(t, r),
             r.tx = th[t].tx, ThreadSerial(r)
      PROVE  SerialInv'
  <2>1. OneInFlight'
    BY <1>1, <1>5, FrameOneInFlight DEF Goto
  <2>. QED
    BY <1>0, <1>5, <2>1, CalmSerial DEF Goto
<1>6. CASE GivesUp(t)
  <2>1. OneInFlight'
    BY <1>1, <1>3, <1>6, FrameOneInFlight DEF GivesUp, Answer
  <2>2. \A a \in answered' : a \in answered \/ Durable(a)'
    BY <1>6 DEF GivesUp, Answer, Reply, Durable
  <2>. QED
    BY <1>0, <1>3, <1>6, <2>1, <2>2, CalmSerial
       DEF GivesUp, Answer, Unwritten, RedisUnwritten, historyVars
<1>7. CASE GetsContext(t)
  <2>1. PICK n \in {latest, 0}, p \in {"get_nonce", "get_code"} :
          /\ p = "get_code" => th[t].tx = None
          /\ Goto(t, [[th[t] EXCEPT !.number = n] EXCEPT !.pc = p])
    BY <1>7 DEF GetsContext
  <2>. DEFINE r == [[th[t] EXCEPT !.number = n] EXCEPT !.pc = p]
  <2>2. r.pc = p /\ r.tx = h
    BY <1>1 DEF ThreadTypes
  <2>3. Goto(t, r)
    BY <2>1
  <2>. HIDE DEF r
  <2>4. ThreadSerial(r)
    BY <2>1, <2>2 DEF ThreadSerial, FromSerial, Checked, Bumped
  <2>. QED
    BY <1>5, <1>7, <2>2, <2>3, <2>4
       DEF GetsContext, Unwritten, RedisUnwritten, historyVars
<1>8. CASE PassesCheck(t)
  <2>1. PICK n \in {nonce[s], 0}, p \in {"set_code", "get_code"} :
          /\ evmdb_state_get_nonce(s, n)
          /\ Goto(t, [th[t] EXCEPT !.current_nonce = n, !.pc = p])
    BY <1>8 DEF PassesCheck
  <2>. DEFINE r == [th[t] EXCEPT !.current_nonce = n, !.pc = p]
  <2>2. r.pc = p /\ r.tx = h /\ r.current_nonce = n
    BY <1>1 DEF ThreadTypes
  <2>3. Goto(t, r) /\ n = nonce[s]
    BY <1>0, <1>4, <2>1 DEF evmdb_state_get_nonce, redis_get
  <2>. HIDE DEF r
  <2>4. ThreadSerial(r)
    BY <2>1, <2>2, <2>3 DEF ThreadSerial, FromSerial, Checked, Bumped
  <2>. QED
    BY <1>5, <1>8, <2>2, <2>3, <2>4
       DEF PassesCheck, Unwritten, RedisUnwritten, historyVars
<1>9. CASE Runs(t)
  <2>1. PICK r \in ThreadTypes :
          /\ Same(r, th[t]) /\ r.pc \in {"evm", "commit", "set_nonce"}
          /\ Goto(t, r)
    BY <1>9 DEF Runs
  <2>2. ThreadSerial(r)
    BY <1>1, <1>9, <2>1 DEF Runs, ThreadSerial, FromSerial, Same, Bumped, Checked,
       WithTarget
  <2>. QED
    BY <1>5, <1>9, <2>1, <2>2 DEF Runs, Same, Unwritten, RedisUnwritten, historyVars
<1>10. CASE set_code(t)
  <2>. DEFINE r == [th[t] EXCEPT !.pc = "set_nonce", !.success = TRUE,
                                 !.wrote = TRUE]
  <2>1. r.pc = "set_nonce" /\ r.tx = h /\ r.current_nonce = th[t].current_nonce
    BY <1>1 DEF ThreadTypes
  <2>2. Goto(t, r) /\ th[t].pc = "set_code" /\ UNCHANGED <<nonce, bumps, exec, receipt>>
    BY <1>10 DEF set_code, evmdb_state_set_code, historyVars
  <2>. HIDE DEF r
  <2>3. ThreadSerial(r)
    BY <1>1, <2>1, <2>2 DEF ThreadSerial, FromSerial, Checked, Bumped
  <2>. QED
    BY <1>5, <2>1, <2>2, <2>3
<1>11. CASE exec_context_commit(t)
  <2>. DEFINE p == IF th[t].next = Len(th[t].writes) THEN "set_nonce" ELSE "commit"
              r == [th[t] EXCEPT !.wrote = TRUE, !.next = @ + 1, !.pc = p]
  <2>1. /\ r.pc \in {"set_nonce", "commit"} /\ r.tx = h
        /\ r.current_nonce = th[t].current_nonce
    BY <1>1 DEF ThreadTypes
  <2>2. Goto(t, r) /\ th[t].pc = "commit" /\ UNCHANGED <<nonce, bumps, exec, receipt>>
    BY <1>11 DEF exec_context_commit, evmdb_state_set_storage, historyVars
  <2>. HIDE DEF r
  <2>3. ThreadSerial(r)
    BY <1>1, <2>1, <2>2 DEF ThreadSerial, FromSerial, Checked, Bumped
  <2>. QED
    BY <1>5, <2>1, <2>2, <2>3
<1>12. CASE set_nonce(t)
  <2>. DEFINE r == [th[t] EXCEPT !.pc = "set_block_number", !.wrote = TRUE]
              c == th[t].current_nonce
  <2>1. r.pc = "set_block_number" /\ r.tx = h /\ r.current_nonce = c
    BY <1>1 DEF ThreadTypes
  <2>2. /\ Goto(t, r) /\ th[t].pc = "set_nonce" /\ UNCHANGED receipt
        /\ nonce' = [nonce EXCEPT ![s] = c + 1]
        /\ bumps' = [bumps EXCEPT ![s] = @ + 1]
        /\ exec' = [exec EXCEPT ![h] = @ + 1]
    BY <1>0, <1>4, <1>12 DEF set_nonce, evmdb_state_set_nonce, redis_set
  <2>3. h # None /\ h \in Hashes /\ s \in Addr /\ c = Tx[h].nonce /\ c \in Nat
    BY <1>1, <1>2, <2>2, TxKnown DEF WithTx, LocalOK, Checked, ThreadTypes
  <2>. HIDE DEF r
  <2>4. th' = [th EXCEPT ![t] = r] /\ UNCHANGED answered
    BY <2>2 DEF Goto
  <2>5. OneInFlight'
    BY <1>1, <2>1, <2>4, FrameOneInFlight
  <2>6. s \in Serial => nonce[s] = c
    BY <1>1, <2>2, <2>3 DEF ThreadSerial, FromSerial, Checked, Bumped
  <2>7. CountsSerial'
    <3>1. ASSUME NEW a \in Serial PROVE nonce'[a] = bumps'[a]
      BY <1>1, <2>2, <2>3, <2>6, PipelineAssumption DEF SerialInv, CountsSerial
    <3>2. ASSUME NEW g \in Hashes, Tx[g].from \in Serial
          PROVE  exec'[g] <= 1 /\ (exec'[g] > 0 => nonce'[Tx[g].from] > Tx[g].nonce)
      <4>1. /\ exec[g] <= 1 /\ (exec[g] > 0 => nonce[Tx[g].from] > Tx[g].nonce)
            /\ exec[g] \in Nat /\ Tx[g].nonce \in Nat /\ Tx[g].from \in Addr
        BY <1>1, <3>2, PipelineAssumption DEF SerialInv, CountsSerial, Transactions
      <4>2. CASE g = h
        BY <1>1, <2>2, <2>3, <2>6, <3>2, <4>1, <4>2
      <4>3. CASE g # h
        <5>1. exec'[g] = exec[g]
          BY <1>1, <2>2, <2>3, <4>3
        <5>2. nonce'[Tx[g].from] >= nonce[Tx[g].from]
          BY <1>1, <2>2, <2>3, <2>6, <3>2, <4>1
        <5>. QED
          BY <1>1, <2>2, <2>3, <4>1, <5>1, <5>2
      <4>. QED
        BY <4>2, <4>3
    <3>. QED
      BY <3>1, <3>2 DEF CountsSerial
  <2>8. ASSUME NEW u \in Threads PROVE ThreadSerial(th[u])'
    <3>1. CASE u = t
      <4>1. th'[u] = r
        BY <1>1, <2>4, <3>1
      <4>. QED
        BY <1>1, <2>1, <2>2, <2>3, <4>1
           DEF ThreadSerial, FromSerial, Checked, Bumped
    <3>2. CASE u # t
      <4>1. th'[u] = th[u] /\ ThreadSerial(th[u])
        BY <1>1, <2>4, <3>2 DEF SerialInv
      <4>2. FromSerial(th[u]) => Tx[th[u].tx].from # s
        BY <1>1, <2>3, <3>2 DEF OneInFlight
      <4>3. FromSerial(th[u]) => Tx[th[u].tx].from \in Addr
        BY TxKnown DEF FromSerial
      <4>4. FromSerial(th[u]) => nonce'[Tx[th[u].tx].from] = nonce[Tx[th[u].tx].from]
        BY <1>1, <2>2, <4>2, <4>3
      <4>. QED
        BY <4>1, <4>4 DEF ThreadSerial, FromSerial
    <3>. QED
      BY <3>1, <3>2
  <2>9. ASSUME NEW a \in answered PROVE Durable(a)'
    <3>1. a.tx # None => a.tx \in Hashes /\ Tx[a.tx].from \in Addr /\ Tx[a.tx].nonce \in Nat
      BY PipelineAssumption DEF TypeOK, Answers, Transactions
    <3>2. Durable(a)
      BY DEF SerialInv
    <3>3. (a.tx # None /\ Tx[a.tx].from \in Serial)
            => nonce'[Tx[a.tx].from] >= nonce[Tx[a.tx].from]
      BY <1>1, <2>2, <2>3, <2>6, <3>1
    <3>4. a.tx # None => nonce[Tx[a.tx].from] \in Nat /\ nonce'[Tx[a.tx].from] \in Nat
      BY <1>1, <2>2, <2>3, <3>1
    <3>. QED
      BY <2>2, <3>1, <3>2, <3>3, <3>4 DEF Durable
  <2>. QED
    BY <1>0, <2>4, <2>5, <2>7, <2>8, <2>9 DEF SerialInv
<1>13. CASE set_block_number(t)
  <2>. DEFINE r == [th[t] EXCEPT !.pc = "set_receipt"]
  <2>1. r.pc = "set_receipt" /\ r.tx = h /\ r.current_nonce = th[t].current_nonce
    BY <1>1 DEF ThreadTypes
  <2>2. /\ Goto(t, r) \/ Answer(t, FALSE)
        /\ th[t].pc = "set_block_number" /\ UNCHANGED <<nonce, bumps, exec, receipt>>
    BY <1>13 DEF set_block_number, evmdb_state_set_block_number, historyVars
  <2>. HIDE DEF r
  <2>3. ThreadSerial(r)
    BY <1>1, <2>1, <2>2 DEF ThreadSerial, FromSerial, Checked, Bumped
  <2>4. CASE Goto(t, r)
    BY <1>5, <2>1, <2>2, <2>3, <2>4
  <2>5. CASE Answer(t, FALSE)
    <3>1. OneInFlight'
      BY <1>1, <1>3, <2>5, FrameOneInFlight DEF Answer
    <3>2. \A a \in answered' : a \in answered \/ Durable(a)'
      BY <2>5 DEF Answer, Reply, Durable
    <3>. QED
      BY <1>0, <1>3, <2>2, <2>5, <3>1, <3>2, CalmSerial DEF Answer
  <2>. QED
    BY <2>2, <2>4, <2>5
<1>14. CASE set_receipt(t)
  <2>. DEFINE new == [blockNumber |-> th[t].number + 1, status |-> th[t].success]
  <2>1. /\ Answer(t, TRUE) /\ th[t].pc = "set_receipt"
        /\ UNCHANGED <<nonce, bumps, exec>>
        /\ receipt' = [receipt EXCEPT ![h] = new]
    BY <1>0, <1>4, <1>14 DEF set_receipt, evmdb_state_set_receipt, redis_set,
       historyVars
  <2>2. h # None /\ h \in Hashes /\ th[t].current_nonce = Tx[h].nonce
    BY <1>1, <1>2, <2>1, TxKnown DEF WithTx, LocalOK, Checked
  <2>3. new # NoReceipt
    <3>1. th[t].number \in Nat /\ new.blockNumber = th[t].number + 1
      BY <1>1 DEF ThreadTypes
    <3>. QED
      BY <3>1 DEF NoReceipt
  <2>. HIDE DEF new
  <2>4. OneInFlight'
    BY <1>1, <1>3, <2>1, FrameOneInFlight DEF Answer
  <2>5. receipt'[h] # NoReceipt
    BY <1>1, <2>1, <2>2, <2>3
  <2>6. s \in Serial => nonce[s] > Tx[h].nonce
    BY <1>1, <1>2, <2>1, <2>2 DEF ThreadSerial, FromSerial, Bumped
  <2>7. \A a \in answered' : a \in answered \/ Durable(a)'
    BY <2>1, <2>5, <2>6 DEF Answer, Reply, Durable
  <2>8. \A g \in Hashes : receipt[g] # NoReceipt => receipt'[g] # NoReceipt
    BY <1>1, <2>1, <2>2, <2>3
  <2>. QED
    BY <1>0, <1>3, <2>1, <2>4, <2>7, <2>8, CalmSerial DEF Answer
<1>. QED
  BY <1>6, <1>7, <1>8, <1>9, <1>10, <1>11, <1>12, <1>13, <1>14, StepShape

\* Every step, of a thread, a client or the environment, preserves SerialInv.
LEMMA NextSerial ==
  ASSUME Reliable, TypeOK, LocalInv, BoundInv, SerialInv, [Next]_vars
  PROVE  SerialInv'
<1>0. link' = "up" /\ th \in [Threads -> ThreadTypes] /\ OneInFlight
  BY LinkStaysUp DEF SerialInv, TypeOK
<1>1. CASE \E t \in Threads : Step(t)
  BY <1>1, StepSerial
<1>2. ASSUME NEW t \in Threads, NEW h \in Hashes,
             handle_send_raw_transaction(t, h)
      PROVE  SerialInv'
  <2>. DEFINE r == [Idle EXCEPT !.pc = "make_block_context", !.tx = h,
                                !.to = Tx[h].to]
  <2>1. r.pc = "make_block_context" /\ r.tx = h
    BY DEF Idle
  <2>2. /\ UNCHANGED <<nonce, bumps, exec, receipt>>
        /\ Tx[h].from \in Serial => ~InFlight(Tx[h].from)
        /\ \/ Goto(t, r)
           \/ /\ Reply([tx |-> h, ok |-> FALSE, wrote |-> FALSE])
              /\ UNCHANGED th
    BY <1>2 DEF handle_send_raw_transaction, redisVars, historyVars
  <2>. HIDE DEF r
  <2>3. ThreadSerial(r)
    BY <2>1 DEF ThreadSerial, Checked, Bumped
  <2>4. CASE Goto(t, r)
    <3>1. \A u \in Threads : th'[u] = IF u = t THEN r ELSE th[u]
      BY <1>0, <2>4 DEF Goto
    <3>2. ASSUME NEW u \in Threads, NEW v \in Threads, FromSerial(th'[u]),
                 th'[v].tx # None, Tx[th'[v].tx].from = Tx[th'[u].tx].from, u # v
          PROVE  FALSE
      <4>1. CASE u = t
        BY <2>1, <2>2, <3>1, <3>2, <4>1 DEF FromSerial, InFlight
      <4>2. CASE v = t
        BY <2>1, <2>2, <3>1, <3>2, <4>2 DEF FromSerial, InFlight
      <4>3. CASE u # t /\ v # t
        BY <1>0, <3>1, <3>2, <4>3 DEF OneInFlight
      <4>. QED
        BY <4>1, <4>2, <4>3
    <3>3. OneInFlight'
      BY <3>2 DEF OneInFlight, FromSerial
    <3>. QED
      BY <1>0, <2>2, <2>3, <2>4, <3>3, CalmSerial DEF Goto
  <2>5. CASE /\ Reply([tx |-> h, ok |-> FALSE, wrote |-> FALSE])
             /\ UNCHANGED th
    <3>1. th' = [th EXCEPT ![t] = th[t]]
      BY <1>0, <2>5
    <3>2. OneInFlight' /\ ThreadSerial(th[t])
      BY <2>5 DEF SerialInv, OneInFlight, FromSerial
    <3>3. \A a \in answered' : a \in answered \/ Durable(a)'
      BY <2>5 DEF Reply, Durable
    <3>. QED
      BY <1>0, <2>2, <3>1, <3>2, <3>3, CalmSerial
  <2>. QED
    BY <2>2, <2>4, <2>5
<1>3. ASSUME NEW t \in Threads, NEW a \in CallTargets, handle_call(t, a)
      PROVE  SerialInv'
  <2>. DEFINE r == [Idle EXCEPT !.pc = "make_block_context", !.to = a]
  <2>1. r.tx = None /\ ThreadSerial(r)
    BY DEF Idle, ThreadSerial, FromSerial
  <2>2. Goto(t, r) /\ UNCHANGED <<nonce, bumps, exec, receipt>>
    BY <1>3 DEF handle_call, redisVars, historyVars
  <2>. HIDE DEF r
  <2>3. OneInFlight'
    BY <1>0, <2>1, <2>2, FrameOneInFlight DEF Goto
  <2>. QED
    BY <1>0, <2>1, <2>2, <2>3, CalmSerial DEF Goto
<1>4. CASE Crash
  <2>1. \A t \in Threads : th'[t].tx = None
    BY <1>4 DEF Crash, Idle
  <2>2. OneInFlight' /\ \A t \in Threads : ThreadSerial(th[t])'
    BY <2>1 DEF OneInFlight, ThreadSerial, FromSerial
  <2>3. UNCHANGED <<nonce, bumps, exec, receipt, answered>>
    BY <1>4 DEF Crash, evmdb_state_init, historyVars
  <2>4. CountsSerial' /\ \A a \in answered' : Durable(a)'
    BY <2>3 DEF SerialInv, CountsSerial, Durable
  <2>. QED
    BY <1>0, <2>2, <2>4 DEF SerialInv
<1>5. CASE UNCHANGED vars
  BY <1>5 DEF vars, redisVars, historyVars, SerialInv, OneInFlight, FromSerial,
     CountsSerial, ThreadSerial, Durable
<1>. QED
  BY <1>1, <1>2, <1>3, <1>4, <1>5 DEF Next, Quiet

\* With Redis reliable, everything the serial theorems rest on holds always.
LEMMA SerialInvariant ==
  Spec => [](TypeOK /\ LocalInv /\ BoundInv /\ (Reliable => SerialInv))
<1>. DEFINE Inv == TypeOK /\ LocalInv /\ BoundInv /\ (Reliable => SerialInv)
<1>1. Init => Inv
  <2>. SUFFICES ASSUME Init PROVE BoundInv /\ SerialInv
    BY InitType
  <2>1. BoundInv
    BY PipelineAssumption
       DEF Init, RedisInit, Idle, BoundInv, HeightBounded, NonceBounded,
           ReceiptImpliesExecuted, ThreadBound, NoReceipt, Bumped, Checked
  <2>2. \A t \in Threads : th[t] = Idle /\ th[t].tx = None
    BY DEF Init, Idle
  <2>3. OneInFlight /\ \A t \in Threads : ThreadSerial(th[t])
    BY <2>2 DEF OneInFlight, ThreadSerial, FromSerial
  <2>4. link = "up" /\ CountsSerial /\ \A r \in answered : Durable(r)
    BY PipelineAssumption DEF Init, RedisInit, CountsSerial
  <2>. QED
    BY <2>1, <2>3, <2>4 DEF SerialInv
<1>2. Inv /\ [Next]_vars => Inv'
  BY NextType, NextBound, NextSerial DEF Reliable
<1>. QED
  BY <1>1, <1>2, PTL DEF Spec

\* For a sender whose clients keep one transaction in flight, on a Redis that
\* does not fail: the stored nonce counts the executions, no transaction is
\* executed twice, and an answered transaction stays done, through any number
\* of crashes, retries and requests of other senders (the nonce check and the
\* nonce store of evmdb_evm_execute_tx).
THEOREM SerialSafe ==
  Spec => [](NonceCountsExecutions /\ AtMostOnce /\ AnsweredIsDurable)
<1>1. (Reliable => SerialInv)
        => NonceCountsExecutions /\ AtMostOnce /\ AnsweredIsDurable
  BY DEF SerialInv, CountsSerial, Durable, NonceCountsExecutions, AtMostOnce,
     AnsweredIsDurable
<1>. QED
  BY <1>1, SerialInvariant, PTL

\* The stored nonce of a serial sender counts its executions: the check of
\* evmdb_evm_execute_tx accepts each nonce once.
COROLLARY NonceCounts == Spec => []NonceCountsExecutions
BY SerialSafe, PTL

\* A transaction of a serial sender that was answered with its hash stays
\* done, through every later crash, retry and request.
COROLLARY AnswersAreDurable == Spec => []AnsweredIsDurable
BY SerialSafe, PTL

\* A created contract whose creating nonce is used up keeps its code: no
\* thread can be about to store code for that nonce again.
LEMMA FrozenStep ==
  ASSUME TypeOK, LocalInv, Reliable, SerialInv, Next, NEW h \in Hashes,
         Tx[h].from \in Serial, nonce[Tx[h].from] > Tx[h].nonce
  PROVE  code'[CreatedBy(h)] = code[CreatedBy(h)]
<1>1. CASE \E t \in Threads : Step(t)
  <2>1. PICK t \in Threads : Step(t)
    BY <1>1
  <2>2. CASE UNCHANGED code
    BY <2>2
  <2>3. CASE set_code(t)
    <3>. DEFINE g == th[t].tx
                s == Tx[g].from
                a == CreateAddress(s, th[t].current_nonce)
    <3>1. th[t].pc = "set_code" /\ g # None /\ g \in Hashes
      BY <2>3, TxKnown DEF set_code, WithTx
    <3>2. th[t].current_nonce = Tx[g].nonce
      BY <3>1 DEF LocalInv, LocalOK, Checked
    <3>3. a = CreatedBy(g)
      BY <3>2 DEF CreatedBy
    <3>4. CASE a = CreatedBy(h)
      <4>0. CreatedBy(g) = CreatedBy(h)
        BY <3>3, <3>4
      <4>. HIDE DEF a
      <4>1. s = Tx[h].from /\ Tx[g].nonce = Tx[h].nonce
        BY <3>1, <4>0, PipelineAssumption, Zenon
      <4>2. nonce[s] = th[t].current_nonce
        BY <3>1, <4>1
           DEF SerialInv, ThreadSerial, FromSerial, Checked, Bumped
      <4>3. Tx[h].nonce \in Nat
        BY PipelineAssumption DEF Transactions
      <4>. QED
        BY <3>2, <4>1, <4>2, <4>3
    <3>5. CASE a # CreatedBy(h)
      <4>1. code' = code \/ code' = [code EXCEPT ![a] = Tx[g].data]
        BY <2>3 DEF set_code, evmdb_state_set_code, redis_set
      <4>2. CreatedBy(h) \in Addr /\ code \in [Addr -> Seq(Nat)]
        BY PipelineAssumption DEF TypeOK, RedisTypeOK
      <4>. HIDE DEF a
      <4>. QED
        BY <3>5, <4>1, <4>2
    <3>. QED
      BY <3>4, <3>5
  <2>. QED
    BY <2>1, <2>2, <2>3, StepShape
       DEF GivesUp, GetsContext, PassesCheck, Runs, Unwritten, RedisUnwritten,
           exec_context_commit, evmdb_state_set_storage, set_nonce,
           evmdb_state_set_nonce, set_block_number,
           evmdb_state_set_block_number, set_receipt, evmdb_state_set_receipt
<1>2. CASE UNCHANGED code
  BY <1>2
<1>. QED
  BY <1>1, <1>2 DEF Next, handle_send_raw_transaction, handle_call, Crash,
     evmdb_state_init, Quiet, vars, redisVars

\* Under the same conditions the code of a created contract never changes
\* once the creating nonce is used up: a retried or re-sent creation fails
\* the nonce check before it reaches evmdb_state_set_code.
THEOREM CodeStaysFrozen == Spec => CodeIsFrozen
<1>. DEFINE Inv == TypeOK /\ LocalInv /\ BoundInv /\ (Reliable => SerialInv)
            Frozen == Reliable => \A h \in Hashes :
              (Tx[h].from \in Serial /\ nonce[Tx[h].from] > Tx[h].nonce)
                => code'[CreatedBy(h)] = code[CreatedBy(h)]
<1>1. Inv /\ [Next]_vars => [Frozen]_vars
  <2>. SUFFICES ASSUME Inv, Next, Reliable, NEW h \in Hashes,
                       Tx[h].from \in Serial, nonce[Tx[h].from] > Tx[h].nonce
                PROVE  code'[CreatedBy(h)] = code[CreatedBy(h)]
    OBVIOUS
  <2>. QED
    BY FrozenStep
<1>. QED
  BY <1>1, SerialInvariant, PTL DEF Spec, CodeIsFrozen

=============================================================================
