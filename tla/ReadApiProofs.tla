--------------------------- MODULE ReadApiProofs ---------------------------
(***************************************************************************)
(* The read-only methods leave the write path alone: unless a read loses   *)
(* the Redis connection, every behaviour of ReadApi is one of TxPipeline,  *)
(* so what TxPipelineProofs proves holds among readers as well.            *)
(***************************************************************************)
EXTENDS ReadApi, TxPipelineProofs

\* A read that does not lose the connection leaves the link as it is.
LEMMA ReadKeepsLink ==
  ASSUME "lost" \notin Faults, NEW stored, NEW missing, NEW v,
         redis_get(stored, missing, v)
  PROVE  link' = link
BY DEF redis_get

\* Every method of ReadPath is invisible to the write path.
LEMMA ReadIsInvisible ==
  ASSUME "lost" \notin Faults, ReadPath
  PROVE  UNCHANGED vars
<1>1. Read => UNCHANGED <<nonce, code, storage, receipt, latest, th, envVars,
                          historyVars, answered>>
  BY DEF Read, RedisUnwritten
<1>2. CASE answer_without_redis
  BY <1>1, <1>2 DEF answer_without_redis, vars, redisVars
<1>3. CASE handle_block_number \/ handle_get_block_by_number \/ handle_fee_history
  BY <1>1, <1>3, ReadKeepsLink
     DEF handle_block_number, handle_get_block_by_number, handle_fee_history,
         AnswerHeight, evmdb_state_get_block_number, vars, redisVars
<1>4. ASSUME NEW a \in Watched, handle_get_balance(a)
      PROVE  UNCHANGED vars
  BY <1>1, <1>4, ReadKeepsLink
     DEF handle_get_balance, evmdb_state_get_balance, vars, redisVars
<1>5. ASSUME NEW a \in Watched, handle_get_transaction_count(a)
      PROVE  UNCHANGED vars
  BY <1>1, <1>5, ReadKeepsLink
     DEF handle_get_transaction_count, evmdb_state_get_nonce, vars, redisVars
<1>6. ASSUME NEW a \in Watched, handle_get_code(a)
      PROVE  UNCHANGED vars
  BY <1>1, <1>6, ReadKeepsLink
     DEF handle_get_code, evmdb_state_get_code, vars, redisVars
<1>7. ASSUME NEW a \in Watched, NEW k \in Keys, handle_get_storage_at(a, k)
      PROVE  UNCHANGED vars
  BY <1>1, <1>7, ReadKeepsLink
     DEF handle_get_storage_at, evmdb_state_get_storage, vars, redisVars
<1>8. ASSUME NEW h \in Hashes, handle_get_transaction_receipt(h)
      PROVE  UNCHANGED vars
  BY <1>1, <1>8, ReadKeepsLink
     DEF handle_get_transaction_receipt, evmdb_state_get_receipt, vars, redisVars
<1>. QED
  BY <1>2, <1>3, <1>4, <1>5, <1>6, <1>7, <1>8 DEF ReadPath

\* Readers do not disturb the write path: as long as no read breaks the Redis
\* connection, the server with all its methods implements TxPipeline, whatever
\* is asked between two steps of a transaction.
THEOREM ReadersImplementPipeline ==
  ASSUME "lost" \notin Faults
  PROVE  ReadSpec => Spec
<1>1. ReadInit => Init
  BY DEF ReadInit
<1>2. ReadNext => [Next]_vars
  <2>1. ASSUME NEW t \in Threads, NEW h \in Hashes, SendRaw(t, h)
        PROVE  Next
    BY <2>1 DEF SendRaw, Next
  <2>2. WritePath => Next
    BY DEF WritePath, Next
  <2>3. ReadPath => UNCHANGED vars
    BY ReadIsInvisible
  <2>. QED
    BY <2>1, <2>2, <2>3 DEF ReadNext, readVars
<1>3. UNCHANGED readVars => UNCHANGED vars
  BY DEF readVars
<1>. QED
  BY <1>1, <1>2, <1>3, PTL DEF ReadSpec, Spec

\* What a serial sender may rely on, with readers beside the write path.
COROLLARY SerialSafeAmongReaders ==
  ASSUME "lost" \notin Faults
  PROVE  ReadSpec => [](NonceCountsExecutions /\ AtMostOnce /\ AnsweredIsDurable)
BY ReadersImplementPipeline, SerialSafe, PTL

----------------------------------------------------------------------------
(* Every environment, a lost connection included.                          *)

\* Whatever Redis does to it, a read leaves all but the link alone.
LEMMA ReadFrame == ASSUME ReadPath PROVE Read
BY DEF ReadPath, answer_without_redis, handle_block_number,
   handle_get_block_by_number, handle_fee_history, AnswerHeight,
   handle_get_balance, handle_get_transaction_count, handle_get_code,
   handle_get_storage_at, handle_get_transaction_receipt

\* A read leaves the connection up or down.
LEMMA GetLink ==
  ASSUME NEW stored, NEW missing, NEW v, redis_get(stored, missing, v)
  PROVE  link' \in {"up", "down"}
BY DEF redis_get

\* So does every read-only method.
LEMMA ReadLink ==
  ASSUME link \in {"up", "down"}, ReadPath
  PROVE  link' \in {"up", "down"}
BY GetLink
   DEF ReadPath, answer_without_redis, handle_block_number,
       handle_get_block_by_number, handle_fee_history, AnswerHeight,
       handle_get_balance, handle_get_transaction_count, handle_get_code,
       handle_get_storage_at, handle_get_transaction_receipt,
       evmdb_state_get_block_number, evmdb_state_get_balance,
       evmdb_state_get_nonce, evmdb_state_get_code, evmdb_state_get_storage,
       evmdb_state_get_receipt

\* A step of the server is a step of the write path or a read.
LEMMA ReadNextSplits ==
  ASSUME [ReadNext]_readVars
  PROVE  [Next]_vars \/ ReadPath
BY DEF ReadNext, readVars, SendRaw, WritePath, Next

\* The bounds survive the steps of readers as well.
LEMMA ReadKeepsBounds ==
  ASSUME TypeOK, LocalInv, BoundInv, [ReadNext]_readVars
  PROVE  TypeOK' /\ LocalInv' /\ BoundInv'
<1>1. CASE [Next]_vars
  BY <1>1, NextType, NextBound
<1>2. CASE ReadPath
  <2>1. /\ UNCHANGED <<nonce, code, storage, receipt, latest, th>>
        /\ UNCHANGED <<requests, crashes, bumps, exec, mined, answered>>
    BY <1>2, ReadFrame DEF Read, RedisUnwritten, envVars, historyVars
  <2>2. TypeOK'
    BY <1>2, <2>1, ReadLink DEF TypeOK, RedisTypeOK
  <2>3. LocalInv' /\ BoundInv'
    BY <2>1 DEF LocalInv, BoundInv, HeightBounded, NonceBounded,
       ReceiptImpliesExecuted, ThreadBound
  <2>. QED
    BY <2>2, <2>3
<1>. QED
  BY <1>1, <1>2, ReadNextSplits

\* The bounds hold throughout, faults of every kind included.
LEMMA ReadBoundInvariant == ReadSpec => [](TypeOK /\ LocalInv /\ BoundInv)
<1>1. ReadInit => TypeOK /\ LocalInv /\ BoundInv
  BY InitType, InitBound DEF ReadInit
<1>. QED
  BY <1>1, ReadKeepsBounds, PTL DEF ReadSpec

\* The bounds of the write path hold among readers in every environment, also
\* when it is a read that loses the connection for all of them.
THEOREM BoundsHoldAmongReaders ==
  ReadSpec => [](HeightBounded /\ NonceBounded /\ ReceiptImpliesExecuted)
BY ReadBoundInvariant, PTL DEF BoundInv

----------------------------------------------------------------------------
(* What a read tells clients.                                              *)

ToldSame == UNCHANGED <<told, fresh>>

ToldCount(a) ==
  \E n \in {nonce[a], 0} : evmdb_state_get_nonce(a, n) /\ TellCount(a, n)

\* A read-only method tells a count, a code or a receipt, or nothing new.
LEMMA ReadShape ==
  ASSUME ReadPath
  PROVE  \/ ToldSame
         \/ \E a \in Watched : ToldCount(a) \/ handle_get_code(a)
         \/ \E h \in Hashes : handle_get_transaction_receipt(h)
BY DEF ReadPath, answer_without_redis, handle_block_number,
   handle_get_block_by_number, handle_fee_history, AnswerHeight,
   handle_get_balance, handle_get_transaction_count, handle_get_storage_at,
   ToldSame, ToldCount

\* The three parts of told, each after the read that adds to it.
LEMMA TellCountEffect ==
  ASSUME told \in Told, NEW a \in Addr, NEW n \in Nat, TellCount(a, n)
  PROVE  /\ told' \in Told
         /\ told'.receipt = told.receipt /\ told'.code = told.code
         /\ \A b \in Addr : told'.count[b] =
              IF b = a /\ n > told.count[a] THEN n ELSE told.count[b]
<1>. DEFINE c == [told.count EXCEPT ![a] = IF n > @ THEN n ELSE @]
<1>1. c \in [Addr -> Nat]
  BY DEF Told
<1>2. told' = [told EXCEPT !.count = c]
  BY DEF TellCount, Told
<1>3. \A b \in Addr : c[b] = IF b = a /\ n > told.count[a] THEN n ELSE told.count[b]
  BY DEF Told
<1>. HIDE DEF c
<1>. QED
  BY <1>1, <1>2, <1>3 DEF Told

\* What handle_get_code adds to told.
LEMMA TellCodeEffect ==
  ASSUME TypeOK, told \in Told, NEW a \in Addr, handle_get_code(a)
  PROVE  /\ told' \in Told
         /\ told'.receipt = told.receipt /\ told'.count = told.count
         /\ \A b \in Addr :
              \/ told'.code[b] = told.code[b]
              \/ b = a /\ Settled(a) /\ \E bytes \in {code[a], <<>>} :
                   evmdb_state_get_code(a, bytes) /\ told'.code[b] = bytes
<1>1. PICK bytes \in {code[a], <<>>} :
        /\ evmdb_state_get_code(a, bytes)
        /\ LET now == IF Settled(a) /\ told.code[a] = <<>> THEN bytes
                      ELSE told.code[a]
               lost == IF "oom" \in Faults THEN {told} ELSE {}
           IN told' \in {[told EXCEPT !.code[a] = now]} \cup lost
  BY DEF handle_get_code
<1>. DEFINE now == IF Settled(a) /\ told.code[a] = <<>> THEN bytes ELSE told.code[a]
            c == [told.code EXCEPT ![a] = now]
<1>2. bytes \in Seq(Nat) /\ told.code \in [Addr -> Seq(Nat)]
  <2>1. code[a] \in Seq(Nat)
    BY DEF TypeOK, RedisTypeOK
  <2>2. <<>> \in Seq(Nat)
    OBVIOUS
  <2>. QED
    BY <2>1, <2>2 DEF Told
<1>3. now \in Seq(Nat)
  BY <1>2
<1>4. told' = told \/ told' = [told EXCEPT !.code = c]
  BY <1>1 DEF Told
<1>5. \A b \in Addr : c[b] = IF b = a THEN now ELSE told.code[b]
  BY <1>2
<1>6. now = told.code[a] \/ (Settled(a) /\ now = bytes)
  OBVIOUS
<1>. HIDE DEF now
<1>7. c \in [Addr -> Seq(Nat)]
  BY <1>2, <1>3
<1>. HIDE DEF c
<1>8. CASE told' = told
  BY <1>8
<1>9. CASE told' = [told EXCEPT !.code = c]
  <2>1. /\ told' \in Told /\ told'.code = c
        /\ told'.receipt = told.receipt /\ told'.count = told.count
    BY <1>7, <1>9 DEF Told
  <2>. QED
    BY <2>1, <1>1, <1>5, <1>6
<1>. QED
  BY <1>4, <1>8, <1>9

\* What handle_get_transaction_receipt adds to told.
LEMMA TellReceiptEffect ==
  ASSUME TypeOK, told \in Told, NEW h \in Hashes, handle_get_transaction_receipt(h)
  PROVE  /\ told' \in Told
         /\ told'.code = told.code /\ told'.count = told.count
         /\ \A g \in Hashes : told'.receipt[g] = told.receipt[g]
                               \/ (g = h /\ told'.receipt[g] = receipt[h])
<1>1. PICK r \in {receipt[h], NoReceipt} :
        told' = [told EXCEPT !.receipt[h] = IF r = NoReceipt THEN @ ELSE r]
  BY DEF handle_get_transaction_receipt
<1>. DEFINE c == [told.receipt EXCEPT ![h] = IF r = NoReceipt THEN @ ELSE r]
<1>2. told' = [told EXCEPT !.receipt = c]
  BY <1>1 DEF Told
<1>3. c \in [Hashes -> Receipts \cup {NoReceipt}]
  BY DEF Told, TypeOK, RedisTypeOK
<1>4. \A g \in Hashes : c[g] = told.receipt[g] \/ (g = h /\ c[g] = receipt[h])
  BY DEF Told
<1>. HIDE DEF c
<1>. QED
  BY <1>2, <1>3, <1>4 DEF Told

\* What readers were told and what was signed stay well typed.
LEMMA ReadTypeStep ==
  ASSUME TypeOK, TypeOK', ReadTypeOK, [ReadNext]_readVars
  PROVE  ReadTypeOK'
<1>. USE DEF ReadTypeOK
<1>1. CASE UNCHANGED <<told, fresh, signed>>
  BY <1>1
<1>2. ASSUME NEW t \in Threads, NEW h \in Hashes, SendRaw(t, h)
      PROVE  ReadTypeOK'
  BY <1>2 DEF SendRaw
<1>3. CASE ReadPath
  <2>1. UNCHANGED signed
    BY <1>3, ReadFrame DEF Read
  <2>2. CASE ToldSame
    BY <2>1, <2>2 DEF ToldSame
  <2>3. ASSUME NEW a \in Watched, ToldCount(a)
        PROVE  ReadTypeOK'
    <3>1. PICK n \in {nonce[a], 0} : TellCount(a, n)
      BY <2>3 DEF ToldCount
    <3>2. a \in Addr /\ n \in Nat
      BY ReadAssumption DEF TypeOK, RedisTypeOK
    <3>3. told' \in Told
      BY <3>1, <3>2, TellCountEffect
    <3>4. fresh' \in [Serial -> Nat \cup {None}]
      BY <3>1, <3>2 DEF TellCount
    <3>. QED
      BY <2>1, <3>3, <3>4
  <2>4. ASSUME NEW a \in Watched, handle_get_code(a)
        PROVE  ReadTypeOK'
    BY <2>1, <2>4, TellCodeEffect, ReadAssumption DEF handle_get_code
  <2>5. ASSUME NEW h \in Hashes, handle_get_transaction_receipt(h)
        PROVE  ReadTypeOK'
    BY <2>1, <2>5, TellReceiptEffect DEF handle_get_transaction_receipt
  <2>. QED
    BY <1>3, <2>2, <2>3, <2>4, <2>5, ReadShape
<1>. QED
  BY <1>1, <1>2, <1>3 DEF ReadNext, readVars, WritePath

\* No request, read or write, leaves the types, in every environment.
THEOREM ReadTypeCorrect == ReadSpec => []ReadTypeOK
<1>. DEFINE Inv == TypeOK /\ LocalInv /\ BoundInv
<1>1. ReadInit => ReadTypeOK
  <2>. SUFFICES ASSUME ReadInit PROVE ReadTypeOK
    OBVIOUS
  <2>1. TypeOK
    BY InitType DEF ReadInit
  <2>2. told \in Told
    <3>1. [a \in Addr |-> <<>>] \in [Addr -> Seq(Nat)]
      OBVIOUS
    <3>. QED
      BY <3>1 DEF ReadInit, Told
  <2>. QED
    BY <2>1, <2>2 DEF ReadInit, ReadTypeOK
<1>2. Inv /\ Inv' /\ ReadTypeOK /\ [ReadNext]_readVars => ReadTypeOK'
  BY ReadTypeStep
<1>. QED
  BY <1>1, <1>2, ReadBoundInvariant, PTL DEF ReadSpec

----------------------------------------------------------------------------
(* The write path as readers see it, Redis reliable.                       *)

\* The three steps of a thread that others can see, when Redis answers.
LEMMA SetCodeEffect ==
  ASSUME Reliable, link = "up", TypeOK, LocalInv, NEW t \in Threads, set_code(t)
  PROVE  /\ th[t].tx \in Hashes /\ th[t].tx # None
         /\ code' = [code EXCEPT ![CreatedBy(th[t].tx)] = Tx[th[t].tx].data]
<1>1. th[t].pc = "set_code" /\ th[t].tx \in Hashes /\ th[t].tx # None
  BY TxKnown DEF set_code, WithTx
<1>2. th[t].current_nonce = Tx[th[t].tx].nonce
  BY <1>1 DEF LocalInv, LocalOK, Checked
<1>. QED
  BY <1>1, <1>2
     DEF set_code, evmdb_state_set_code, redis_set, Reliable, CreatedBy

\* Storing the nonce counts the execution, on a reliable Redis.
LEMMA SetNonceEffect ==
  ASSUME Reliable, link = "up", TypeOK, LocalInv, NEW t \in Threads, set_nonce(t)
  PROVE  /\ th[t].tx \in Hashes /\ th[t].tx # None /\ th[t].pc = "set_nonce"
         /\ Tx[th[t].tx].nonce \in Nat
         /\ nonce' = [nonce EXCEPT ![Tx[th[t].tx].from] = Tx[th[t].tx].nonce + 1]
         /\ exec' = [exec EXCEPT ![th[t].tx] = @ + 1]
<1>1. th[t].pc = "set_nonce" /\ th[t].tx \in Hashes /\ th[t].tx # None
  BY TxKnown DEF set_nonce, WithTx
<1>2. th[t].current_nonce = Tx[th[t].tx].nonce /\ Tx[th[t].tx].nonce \in Nat
  BY <1>1, TxKnown DEF LocalInv, LocalOK, Checked
<1>. QED
  BY <1>1, <1>2 DEF set_nonce, evmdb_state_set_nonce, redis_set, Reliable

\* What storing the receipt changes.
LEMMA SetReceiptEffect ==
  ASSUME TypeOK, LocalInv, NEW t \in Threads, set_receipt(t)
  PROVE  /\ th[t].tx \in Hashes /\ th[t].tx # None /\ th[t].pc = "set_receipt"
         /\ \A h \in Hashes : h # th[t].tx => receipt'[h] = receipt[h]
<1>1. th[t].pc = "set_receipt" /\ th[t].tx \in Hashes /\ th[t].tx # None
  BY TxKnown DEF set_receipt, WithTx
<1>. DEFINE new == [blockNumber |-> th[t].number + 1, status |-> th[t].success]
<1>2. receipt' = receipt \/ receipt' = [receipt EXCEPT ![th[t].tx] = new]
  BY DEF set_receipt, evmdb_state_set_receipt, redis_set
<1>. HIDE DEF new
<1>. QED
  BY <1>1, <1>2 DEF TypeOK, RedisTypeOK

\* A thread about to store code stores it with its next step.
LEMMA CreationStores ==
  ASSUME NEW t \in Threads, Step(t), th[t].pc = "set_code"
  PROVE  set_code(t)
BY DEF Step, make_block_context, get_nonce, get_code, host_get_storage,
   host_set_storage, host_account_exists, host_get_balance, host_copy_code,
   HostRead, evm_internal_error, evm_revert, evm_success, exec_context_commit,
   set_nonce, set_block_number, set_receipt

----------------------------------------------------------------------------
(* What a serial sender's transaction has stored by which point.           *)

ThreadStored(r) ==
  FromSerial(r) =>
    /\ r.pc \in Bumped => receipt[r.tx] = NoReceipt
    /\ r.pc = "commit" => Tx[r.tx].to # None
    /\ (r.pc = "set_nonce" /\ Tx[r.tx].to = None) =>
         code[CreatedBy(r.tx)] = Tx[r.tx].data

CodeStored(h) ==
  (Tx[h].from \in Serial /\ exec[h] > 0 /\ Tx[h].to = None) =>
    code[CreatedBy(h)] = Tx[h].data

StoredInv ==
  /\ \A t \in Threads : ThreadStored(th[t])
  /\ \A h \in Hashes : CodeStored(h)

\* Another thread, that of a serial sender, is not disturbed.
LEMMA OtherStored ==
  ASSUME Reliable, TypeOK, LocalInv, SerialInv, StoredInv,
         NEW t \in Threads, Step(t), NEW u \in Threads, u # t
  PROVE  ThreadStored(th[u])'
<1>. SUFFICES ASSUME FromSerial(th[u]) PROVE ThreadStored(th[u])'
  BY StepEffect DEF ThreadStored, FromSerial
<1>. DEFINE h == th[u].tx
<1>1. th'[u] = th[u] /\ h \in Hashes /\ link = "up" /\ OneInFlight
  BY StepEffect, TxKnown DEF FromSerial, SerialInv
<1>2. receipt'[h] = receipt[h]
  <2>1. CASE UNCHANGED receipt
    BY <2>1
  <2>2. CASE set_receipt(t)
    BY <1>1, <2>2, SetReceiptEffect DEF OneInFlight
  <2>. QED
    BY <2>1, <2>2, StepEffect
<1>3. code'[CreatedBy(h)] = code[CreatedBy(h)]
  <2>1. CASE UNCHANGED code
    BY <2>1
  <2>2. CASE set_code(t)
    <3>. DEFINE g == th[t].tx
    <3>1. g \in Hashes /\ g # None /\ code' = [code EXCEPT ![CreatedBy(g)] = Tx[g].data]
      BY <1>1, <2>2, SetCodeEffect
    <3>2. Tx[g].from # Tx[h].from
      BY <1>1, <3>1 DEF OneInFlight
    <3>3. CreatedBy(g) # CreatedBy(h) /\ CreatedBy(h) \in Addr
      BY <1>1, <3>1, <3>2, PipelineAssumption, Zenon
    <3>. QED
      BY <3>1, <3>3 DEF TypeOK, RedisTypeOK
  <2>. QED
    BY <2>1, <2>2, StepEffect
<1>. QED
  BY <1>1, <1>2, <1>3 DEF StoredInv, ThreadStored, FromSerial

\* The thread that moves has stored what its point says.
LEMMA MoverStored ==
  ASSUME Reliable, TypeOK, LocalInv, BoundInv, SerialInv, StoredInv,
         NEW t \in Threads, Step(t)
  PROVE  ThreadStored(th[t])'
<1>. DEFINE h == th[t].tx
            s == Tx[h].from
<1>. SUFFICES ASSUME th'[t].tx = h, h # None, s \in Serial,
                     th[t].pc \in Before(th'[t].pc)
              PROVE  ThreadStored(th[t])'
  BY StepEffect DEF Advances, ThreadStored, FromSerial
<1>1. /\ h \in Hashes /\ LocalOK(th[t]) /\ ThreadStored(th[t]) /\ FromSerial(th[t])
      /\ Tx[h].nonce \in Nat /\ link = "up"
  BY TxKnown DEF LocalInv, StoredInv, FromSerial, SerialInv
<1>2. th'[t].pc \in Bumped => receipt'[h] = NoReceipt
  <2>. SUFFICES ASSUME th'[t].pc \in Bumped PROVE receipt'[h] = NoReceipt
    OBVIOUS
  <2>1. th[t].pc \in {"set_nonce", "set_block_number"}
    BY DEF Before, Bumped
  <2>2. UNCHANGED receipt
    BY <2>1, StepEffect, SetReceiptEffect
  <2>3. CASE th[t].pc = "set_block_number"
    BY <1>1, <2>2, <2>3 DEF ThreadStored, Bumped
  <2>4. CASE th[t].pc = "set_nonce"
    <3>1. nonce[s] = Tx[h].nonce
      BY <1>1, <2>4 DEF SerialInv, ThreadSerial, LocalOK, Checked, Bumped
    <3>2. ~(exec[h] > 0)
      BY <1>1, <3>1 DEF SerialInv, CountsSerial
    <3>. QED
      BY <1>1, <2>2, <3>2 DEF BoundInv, ReceiptImpliesExecuted
  <2>. QED
    BY <2>1, <2>3, <2>4
<1>3. th[t].pc \in WithTarget => Tx[h].to # None
  BY <1>1, PipelineAssumption DEF LocalOK
<1>4. th'[t].pc = "commit" => Tx[h].to # None
  BY <1>1, <1>3 DEF Before, ThreadStored
<1>5. ASSUME th'[t].pc = "set_nonce", Tx[h].to = None
      PROVE  code'[CreatedBy(h)] = Tx[h].data
  <2>1. th[t].pc = "set_code"
    BY <1>1, <1>3, <1>5 DEF Before, ThreadStored
  <2>2. code' = [code EXCEPT ![CreatedBy(h)] = Tx[h].data]
    BY <1>1, <2>1, CreationStores, SetCodeEffect
  <2>3. CreatedBy(h) \in Addr
    BY <1>1, PipelineAssumption
  <2>. QED
    BY <2>2, <2>3 DEF TypeOK, RedisTypeOK
<1>. QED
  BY <1>2, <1>4, <1>5 DEF ThreadStored, FromSerial

\* StoredInv is preserved by every step.
LEMMA NextStored ==
  ASSUME Reliable, TypeOK, LocalInv, BoundInv, SerialInv, StoredInv, [Next]_vars
  PROVE  StoredInv'
<1>1. CASE Outside
  <2>1. \A t \in Threads : ThreadStored(th[t])'
    BY <1>1 DEF Outside, StoredInv, ThreadStored, FromSerial, Bumped
  <2>2. \A h \in Hashes : CodeStored(h)'
    BY <1>1 DEF Outside, StoredInv, CodeStored
  <2>. QED
    BY <2>1, <2>2 DEF StoredInv
<1>2. ASSUME NEW t \in Threads, Step(t)
      PROVE  StoredInv'
  <2>1. \A u \in Threads : ThreadStored(th[u])'
    BY <1>2, OtherStored, MoverStored
  <2>2. ASSUME NEW h \in Hashes, Tx[h].from \in Serial, exec'[h] > 0, Tx[h].to = None
        PROVE  code'[CreatedBy(h)] = Tx[h].data
    <3>1. CASE exec[h] > 0
      <4>1. nonce[Tx[h].from] > Tx[h].nonce /\ code[CreatedBy(h)] = Tx[h].data
        BY <2>2, <3>1 DEF SerialInv, CountsSerial, StoredInv, CodeStored
      <4>. QED
        BY <1>2, <2>2, <4>1, FrozenStep DEF Next
    <3>2. CASE ~(exec[h] > 0)
      <4>1. set_nonce(t)
        BY <1>2, <2>2, <3>2, StepEffect
      <4>2. /\ th[t].tx \in Hashes /\ th[t].tx # None /\ th[t].pc = "set_nonce"
            /\ exec' = [exec EXCEPT ![th[t].tx] = @ + 1]
        BY <4>1, SetNonceEffect DEF SerialInv
      <4>3. h = th[t].tx
        BY <2>2, <3>2, <4>2 DEF TypeOK
      <4>4. UNCHANGED code
        BY <4>1 DEF set_nonce, evmdb_state_set_nonce
      <4>. QED
        BY <2>2, <4>2, <4>3, <4>4 DEF StoredInv, ThreadStored, FromSerial
    <3>. QED
      BY <3>1, <3>2
  <2>. QED
    BY <2>1, <2>2 DEF StoredInv, CodeStored
<1>. QED
  BY <1>1, <1>2, NextEffect

----------------------------------------------------------------------------
(* What clients were told, and what wallets sign with it.                  *)

ToldInv ==
  /\ \A s \in Serial : told.count[s] <= nonce[s]
  /\ \A h \in Hashes :
       (Tx[h].from \in Serial /\ told.receipt[h] # NoReceipt) =>
         receipt[h] = told.receipt[h]
  /\ \A h \in Hashes :
       (Tx[h].from \in Serial /\ told.code[CreatedBy(h)] # <<>>) =>
         /\ nonce[Tx[h].from] > Tx[h].nonce
         /\ code[CreatedBy(h)] = told.code[CreatedBy(h)]

\* A fresh count is the stored one until its sender signs with it, and a
\* transaction signed with it passes the checks it has still to pass.
FreshInv ==
  /\ \A s \in Serial : fresh[s] # None => ~InFlight(s) /\ fresh[s] = nonce[s]
  /\ \A t \in Threads :
       (/\ FromSerial(th[t]) /\ Tx[th[t].tx].from \in signed
        /\ th[t].pc \in {"make_block_context", "get_nonce"})
         => accepts(Tx[th[t].tx], nonce[Tx[th[t].tx].from])

\* A transaction of s is about to store its nonce.
Storing(s) ==
  \E t \in Threads : /\ th[t].pc = "set_nonce"
                     /\ th[t].tx # None /\ Tx[th[t].tx].from = s

\* The stored nonce of a serial sender never falls, and it stays what it is
\* unless a transaction of the sender stores it.
LEMMA SerialNonceGrows ==
  ASSUME Reliable, TypeOK, LocalInv, SerialInv, [Next]_vars, NEW s \in Serial
  PROVE  nonce[s] <= nonce'[s] /\ (Storing(s) \/ nonce'[s] = nonce[s])
<1>0. s \in Addr /\ nonce \in [Addr -> Nat] /\ link = "up"
  BY PipelineAssumption DEF TypeOK, RedisTypeOK, SerialInv
<1>1. CASE UNCHANGED nonce
  BY <1>0, <1>1
<1>2. ASSUME NEW t \in Threads, set_nonce(t)
      PROVE  nonce[s] <= nonce'[s] /\ (Storing(s) \/ nonce'[s] = nonce[s])
  <2>. DEFINE h == th[t].tx
  <2>1. /\ h \in Hashes /\ h # None /\ th[t].pc = "set_nonce" /\ Tx[h].nonce \in Nat
        /\ nonce' = [nonce EXCEPT ![Tx[h].from] = Tx[h].nonce + 1]
    BY <1>0, <1>2, SetNonceEffect
  <2>2. CASE Tx[h].from = s
    <3>1. nonce[s] = Tx[h].nonce
      BY <2>1, <2>2
         DEF SerialInv, ThreadSerial, FromSerial, LocalInv, LocalOK, Checked, Bumped
    <3>2. Storing(s)
      BY <2>1, <2>2 DEF Storing
    <3>. QED
      BY <1>0, <2>1, <2>2, <3>1, <3>2
  <2>3. CASE Tx[h].from # s
    BY <1>0, <2>1, <2>3
  <2>. QED
    BY <2>2, <2>3
<1>. QED
  BY <1>1, <1>2, NextEffect, StepEffect DEF Outside

\* A stored receipt of a serial sender is never written again.
LEMMA SerialReceiptStays ==
  ASSUME TypeOK, LocalInv, StoredInv, [Next]_vars, NEW h \in Hashes,
         Tx[h].from \in Serial, receipt[h] # NoReceipt
  PROVE  receipt'[h] = receipt[h]
<1>1. CASE UNCHANGED receipt
  BY <1>1
<1>2. ASSUME NEW t \in Threads, set_receipt(t)
      PROVE  receipt'[h] = receipt[h]
  BY <1>2, SetReceiptEffect DEF StoredInv, ThreadStored, FromSerial, Bumped
<1>. QED
  BY <1>1, <1>2, NextEffect, StepEffect DEF Outside

\* What was told stays true while the write path goes on.
LEMMA WriteKeepsTold ==
  ASSUME Reliable, TypeOK, TypeOK', LocalInv, SerialInv, StoredInv, ToldInv,
         told \in Told, [Next]_vars, UNCHANGED told
  PROVE  ToldInv'
<1>0. /\ Serial \subseteq Addr
      /\ \A h \in Hashes : Tx[h].from \in Addr /\ Tx[h].nonce \in Nat
      /\ \A a \in Addr : /\ nonce[a] \in Nat /\ nonce'[a] \in Nat
                         /\ told.count[a] \in Nat
  BY PipelineAssumption DEF Transactions, TypeOK, RedisTypeOK, Told
<1>1. \A s \in Serial : nonce[s] <= nonce'[s]
  BY SerialNonceGrows
<1>2. \A s \in Serial : told'.count[s] <= nonce'[s]
  BY <1>0, <1>1 DEF ToldInv
<1>3. ASSUME NEW h \in Hashes, Tx[h].from \in Serial, told'.receipt[h] # NoReceipt
      PROVE  receipt'[h] = told'.receipt[h]
  BY <1>3, SerialReceiptStays DEF ToldInv
<1>4. ASSUME NEW h \in Hashes, Tx[h].from \in Serial, told'.code[CreatedBy(h)] # <<>>
      PROVE  /\ nonce'[Tx[h].from] > Tx[h].nonce
             /\ code'[CreatedBy(h)] = told'.code[CreatedBy(h)]
  <2>1. /\ nonce[Tx[h].from] > Tx[h].nonce
        /\ code[CreatedBy(h)] = told'.code[CreatedBy(h)]
    BY <1>4 DEF ToldInv
  <2>2. code'[CreatedBy(h)] = code[CreatedBy(h)]
    BY <1>4, <2>1, FrozenStep DEF vars, redisVars
  <2>. QED
    BY <1>0, <1>1, <1>4, <2>1, <2>2
<1>. QED
  BY <1>2, <1>3, <1>4 DEF ToldInv

\* A read tells the truth: it answers what is stored, and the code of a
\* contract only counts once the creation is known to be over.
LEMMA ReadKeepsTold ==
  ASSUME Reliable, TypeOK, link = "up", ToldInv, told \in Told, ReadPath
  PROVE  ToldInv'
<1>0. UNCHANGED <<nonce, code, receipt>>
  BY ReadFrame DEF Read, RedisUnwritten
<1>1. CASE ToldSame
  BY <1>0, <1>1 DEF ToldInv, ToldSame
<1>2. ASSUME NEW a \in Watched, ToldCount(a)
      PROVE  ToldInv'
  <2>1. TellCount(a, nonce[a])
    BY <1>2 DEF ToldCount, evmdb_state_get_nonce, redis_get, Reliable
  <2>2. a \in Addr /\ nonce[a] \in Nat
    BY ReadAssumption DEF TypeOK, RedisTypeOK
  <2>3. /\ told'.receipt = told.receipt /\ told'.code = told.code
        /\ \A b \in Addr : told'.count[b] =
             IF b = a /\ nonce[a] > told.count[a] THEN nonce[a] ELSE told.count[b]
    BY <2>1, <2>2, TellCountEffect
  <2>4. \A s \in Serial : told'.count[s] <= nonce[s]
    BY <2>2, <2>3, PipelineAssumption DEF ToldInv
  <2>. QED
    BY <1>0, <2>3, <2>4 DEF ToldInv
<1>3. ASSUME NEW a \in Watched, handle_get_code(a)
      PROVE  ToldInv'
  <2>1. a \in Addr
    BY ReadAssumption
  <2>2. /\ told'.receipt = told.receipt /\ told'.count = told.count
        /\ \A b \in Addr :
             \/ told'.code[b] = told.code[b]
             \/ b = a /\ Settled(a) /\ told'.code[b] = code[a]
    BY <1>3, <2>1, TellCodeEffect DEF evmdb_state_get_code, redis_get, Reliable
  <2>3. ASSUME NEW h \in Hashes, Tx[h].from \in Serial,
               told'.code[CreatedBy(h)] # <<>>
        PROVE  /\ nonce[Tx[h].from] > Tx[h].nonce
               /\ code[CreatedBy(h)] = told'.code[CreatedBy(h)]
    <3>1. CreatedBy(h) \in Addr
      BY PipelineAssumption
    <3>2. CASE told'.code[CreatedBy(h)] = told.code[CreatedBy(h)]
      BY <2>3, <3>2 DEF ToldInv
    <3>3. CASE CreatedBy(h) = a /\ Settled(a) /\ told'.code[CreatedBy(h)] = code[a]
      <4>1. PICK g \in Hashes : CreatedBy(g) = a /\ told.count[Tx[g].from] > Tx[g].nonce
        BY <3>3 DEF Settled
      <4>2. Tx[g].from = Tx[h].from /\ Tx[g].nonce = Tx[h].nonce
        <5>1. CreatedBy(g) = CreatedBy(h)
          BY <3>3, <4>1
        <5>. QED
          BY <5>1, PipelineAssumption, Zenon
      <4>3. told.count[Tx[h].from] <= nonce[Tx[h].from]
        BY <2>3 DEF ToldInv
      <4>4. /\ Tx[h].nonce \in Nat /\ nonce[Tx[h].from] \in Nat
            /\ told.count[Tx[h].from] \in Nat
        BY PipelineAssumption DEF Transactions, TypeOK, RedisTypeOK, Told
      <4>. QED
        BY <3>3, <4>1, <4>2, <4>3, <4>4
    <3>. QED
      BY <2>2, <3>1, <3>2, <3>3
  <2>. QED
    BY <1>0, <2>2, <2>3 DEF ToldInv
<1>4. ASSUME NEW h \in Hashes, handle_get_transaction_receipt(h)
      PROVE  ToldInv'
  <2>1. /\ told'.code = told.code /\ told'.count = told.count
        /\ \A g \in Hashes : told'.receipt[g] = told.receipt[g]
                              \/ (g = h /\ told'.receipt[g] = receipt[h])
    BY <1>4, TellReceiptEffect
  <2>2. \A g \in Hashes : (Tx[g].from \in Serial /\ told'.receipt[g] # NoReceipt) =>
                             receipt[g] = told'.receipt[g]
    BY <2>1 DEF ToldInv
  <2>. QED
    BY <1>0, <2>1, <2>2 DEF ToldInv
<1>. QED
  BY <1>1, <1>2, <1>3, <1>4, ReadShape

\* No thread takes a transaction: each stays, ends its request or goes on.
Continues == \A u \in Threads : th'[u] = th[u] \/ Advances(u)

\* A step of the write path takes no new transaction.
LEMMA WriteContinues ==
  ASSUME TypeOK, LocalInv, WritePath
  PROVE  Continues
<1>0. th \in [Threads -> ThreadTypes]
  BY DEF TypeOK
<1>1. ASSUME NEW t \in Threads, Step(t)
      PROVE  Continues
  BY <1>1, StepEffect DEF Continues
<1>2. ASSUME NEW t \in Threads, NEW a \in CallTargets, handle_call(t, a)
      PROVE  Continues
  <2>. DEFINE r == [Idle EXCEPT !.pc = "make_block_context", !.to = a]
  <2>1. r.tx = None
    BY DEF Idle
  <2>2. th' = [th EXCEPT ![t] = r]
    BY <1>2 DEF handle_call, Goto
  <2>. HIDE DEF r
  <2>. QED
    BY <1>0, <2>1, <2>2 DEF Continues, Advances
<1>3. CASE Crash
  BY <1>3 DEF Crash, Continues, Advances, Idle
<1>. QED
  BY <1>1, <1>2, <1>3 DEF WritePath

\* As long as no client sends a transaction, nothing a wallet relies on moves.
LEMMA WriteKeepsFresh ==
  ASSUME Reliable, TypeOK, LocalInv, SerialInv, FreshInv, [Next]_vars,
         Continues, UNCHANGED <<fresh, signed>>
  PROVE  FreshInv'
<1>1. \A s \in Serial : nonce'[s] = nonce[s] \/ Storing(s)
  BY SerialNonceGrows
<1>2. ASSUME NEW s \in Serial, fresh'[s] # None
      PROVE  ~InFlight(s)' /\ fresh'[s] = nonce'[s]
  <2>1. ~InFlight(s) /\ fresh[s] = nonce[s]
    BY <1>2 DEF FreshInv
  <2>. QED
    BY <1>1, <2>1 DEF Storing, InFlight, Continues, Advances
<1>3. ASSUME NEW t \in Threads, FromSerial(th'[t]), Tx[th'[t].tx].from \in signed',
             th'[t].pc \in {"make_block_context", "get_nonce"}
      PROVE  accepts(Tx[th'[t].tx], nonce'[Tx[th'[t].tx].from])
  <2>. DEFINE s == Tx[th[t].tx].from
  <2>1. /\ th'[t].tx = th[t].tx
        /\ th[t].pc \in {"make_block_context", "get_nonce"}
    BY <1>3 DEF Continues, Advances, Before, FromSerial
  <2>2. FromSerial(th[t]) /\ s \in Serial /\ accepts(Tx[th[t].tx], nonce[s])
    BY <1>3, <2>1 DEF FreshInv, FromSerial
  <2>3. ~Storing(s)
    BY <2>1, <2>2 DEF Storing, SerialInv, OneInFlight
  <2>. QED
    BY <1>1, <2>1, <2>2, <2>3
<1>. QED
  BY <1>2, <1>3 DEF FreshInv, FromSerial

\* eth_getTransactionCount hands out the stored count.
LEMMA ReadKeepsFresh ==
  ASSUME Reliable, TypeOK, link = "up", ReadTypeOK, FreshInv, ReadPath
  PROVE  FreshInv'
<1>0. UNCHANGED <<nonce, th, signed>>
  BY ReadFrame DEF Read, RedisUnwritten
<1>1. CASE UNCHANGED fresh
  BY <1>0, <1>1 DEF FreshInv, FromSerial, InFlight
<1>2. ASSUME NEW a \in Watched, ToldCount(a)
      PROVE  FreshInv'
  <2>1. TellCount(a, nonce[a])
    BY <1>2 DEF ToldCount, evmdb_state_get_nonce, redis_get, Reliable
  <2>2. \A s \in Serial : \/ fresh'[s] = fresh[s]
                          \/ ~InFlight(s) /\ fresh'[s] = nonce[s]
    BY <2>1 DEF TellCount, ReadTypeOK
  <2>3. \A s \in Serial : fresh'[s] # None => ~InFlight(s) /\ fresh'[s] = nonce[s]
    BY <2>2 DEF FreshInv
  <2>. QED
    BY <1>0, <2>3 DEF FreshInv, FromSerial, InFlight
<1>. QED
  BY <1>1, <1>2, ReadShape
     DEF ToldSame, handle_get_code, handle_get_transaction_receipt

\* The two copies of the intrinsic gas rule agree.
LEMMA SameGas == \A data : intrinsic_gas_for_data(data) = intrinsic_gas(data)
BY DEF intrinsic_gas_for_data, intrinsic_gas

\* A wallet that signs with a fresh count and an estimate is accepted.
LEMMA SendKeepsFresh ==
  ASSUME TypeOK, SerialInv, ReadTypeOK, FreshInv,
         NEW t \in Threads, NEW h \in Hashes, SendRaw(t, h)
  PROVE  FreshInv'
<1>. DEFINE s == Tx[h].from
            r == [Idle EXCEPT !.pc = "make_block_context", !.tx = h, !.to = Tx[h].to]
<1>1. r.tx = h
  BY DEF Idle
<1>2. /\ UNCHANGED nonce /\ (s \in Serial => ~InFlight(s))
      /\ th' = [th EXCEPT ![t] = r] \/ UNCHANGED th
  BY DEF SendRaw, handle_send_raw_transaction, Goto, redisVars
<1>. HIDE DEF r
<1>3. \A u \in Threads : th'[u] = th[u] \/ (u = t /\ th'[u].tx = h)
  BY <1>1, <1>2 DEF TypeOK
<1>4. ASSUME NEW q \in Serial, fresh'[q] # None
      PROVE  ~InFlight(q)' /\ fresh'[q] = nonce'[q]
  <2>1. q # s /\ fresh'[q] = fresh[q]
    BY <1>4 DEF SendRaw, ReadTypeOK
  <2>. QED
    BY <1>2, <1>3, <1>4, <2>1 DEF FreshInv, InFlight
<1>5. ASSUME NEW u \in Threads, FromSerial(th'[u]), Tx[th'[u].tx].from \in signed',
             th'[u].pc \in {"make_block_context", "get_nonce"}
      PROVE  accepts(Tx[th'[u].tx], nonce'[Tx[th'[u].tx].from])
  <2>. DEFINE q == Tx[th'[u].tx].from
  <2>1. CASE q = s
    <3>1. s \in Serial /\ u = t /\ th'[u].tx = h
      BY <1>2, <1>3, <1>5, <2>1 DEF FromSerial, InFlight
    <3>2. fresh[s] = Tx[h].nonce /\ intrinsic_gas_for_data(Tx[h].data) <= Tx[h].gas_limit
      BY <1>5, <2>1, <3>1 DEF SendRaw
    <3>3. fresh[s] # None
      BY <3>2, ReadAssumption, PipelineAssumption DEF Transactions
    <3>4. Tx[h].nonce = nonce[s]
      BY <3>1, <3>2, <3>3 DEF FreshInv
    <3>. QED
      BY <1>2, <3>1, <3>2, <3>4, SameGas DEF accepts
  <2>2. CASE q # s
    <3>1. th'[u] = th[u]
      BY <1>3, <2>2
    <3>2. q \in signed
      BY <1>5, <2>2 DEF SendRaw
    <3>. QED
      BY <1>2, <1>5, <3>1, <3>2 DEF FreshInv
  <2>. QED
    BY <2>1, <2>2
<1>. QED
  BY <1>4, <1>5 DEF FreshInv, FromSerial

----------------------------------------------------------------------------
\* Everything the two promises rest on.
ReaderInv == SerialInv /\ StoredInv /\ ToldInv /\ FreshInv

\* On a reliable Redis every step is one of the write path or a stutter of it.
LEMMA ReadNextIsNext ==
  ASSUME Reliable, [ReadNext]_readVars
  PROVE  [Next]_vars
BY ReadNextSplits, ReadIsInvisible DEF Reliable

\* Every step, reading or writing, keeps the invariant.
LEMMA ReadKeepsInv ==
  ASSUME Reliable, TypeOK, TypeOK', LocalInv, BoundInv, ReadTypeOK, ReaderInv,
         [ReadNext]_readVars
  PROVE  ReaderInv'
<1>0. /\ [Next]_vars /\ link = "up" /\ told \in Told
      /\ SerialInv /\ StoredInv /\ ToldInv /\ FreshInv
  BY ReadNextIsNext DEF ReaderInv, SerialInv, ReadTypeOK
<1>1. SerialInv' /\ StoredInv'
  BY <1>0, NextSerial, NextStored
<1>2. ASSUME NEW t \in Threads, NEW h \in Hashes, SendRaw(t, h)
      PROVE  ReaderInv'
  <2>1. UNCHANGED told
    BY <1>2 DEF SendRaw
  <2>. QED
    BY <1>0, <1>1, <1>2, <2>1, WriteKeepsTold, SendKeepsFresh DEF ReaderInv
<1>3. CASE WritePath
  <2>1. UNCHANGED <<told, fresh, signed>>
    BY <1>3 DEF WritePath
  <2>2. Continues
    BY <1>3, WriteContinues
  <2>3. ToldInv'
    BY <1>0, <2>1, WriteKeepsTold
  <2>4. FreshInv'
    <3>1. UNCHANGED <<fresh, signed>>
      BY <2>1
    <3>. QED
      BY <1>0, <2>2, <3>1, WriteKeepsFresh
  <2>. QED
    BY <1>1, <2>3, <2>4 DEF ReaderInv
<1>4. CASE ReadPath
  <2>1. ToldInv'
    BY <1>0, <1>4, ReadKeepsTold
  <2>2. FreshInv'
    BY <1>0, <1>4, ReadKeepsFresh
  <2>. QED
    BY <1>1, <2>1, <2>2 DEF ReaderInv
<1>5. CASE UNCHANGED readVars
  <2>1. UNCHANGED <<told, fresh, signed, th>> /\ UNCHANGED vars
    BY <1>5 DEF readVars, vars
  <2>2. Continues
    BY <2>1 DEF Continues
  <2>3. ToldInv'
    BY <1>0, <2>1, WriteKeepsTold
  <2>4. FreshInv'
    <3>1. UNCHANGED <<fresh, signed>>
      BY <2>1
    <3>. QED
      BY <1>0, <2>2, <3>1, WriteKeepsFresh
  <2>. QED
    BY <1>1, <2>3, <2>4 DEF ReaderInv
<1>. QED
  BY <1>2, <1>3, <1>4, <1>5 DEF ReadNext

\* On a reliable Redis the invariant holds throughout.
LEMMA ReaderInvariant ==
  ReadSpec => [](TypeOK /\ BoundInv /\ LocalInv /\ (Reliable => ReaderInv))
<1>. DEFINE Inv == TypeOK /\ LocalInv /\ BoundInv
            All == Inv /\ ReadTypeOK /\ (Reliable => ReaderInv)
<1>1. ReadInit => (Reliable => ReaderInv)
  <2>. SUFFICES ASSUME ReadInit PROVE ReaderInv
    OBVIOUS
  <2>1. Init
    BY DEF ReadInit
  <2>2. \A t \in Threads : th[t].tx = None
    BY <2>1 DEF Init, Idle
  <2>3. SerialInv
    <3>1. OneInFlight /\ \A t \in Threads : ThreadSerial(th[t])
      BY <2>2 DEF OneInFlight, ThreadSerial, FromSerial
    <3>. QED
      BY <2>1, <3>1, PipelineAssumption DEF Init, RedisInit, SerialInv, CountsSerial
  <2>4. StoredInv
    BY <2>1, <2>2 DEF Init, StoredInv, ThreadStored, CodeStored, FromSerial
  <2>5. ToldInv
    BY <2>1, PipelineAssumption DEF ReadInit, Init, RedisInit, ToldInv
  <2>6. FreshInv
    BY <2>2 DEF ReadInit, FreshInv, FromSerial
  <2>. QED
    BY <2>3, <2>4, <2>5, <2>6 DEF ReaderInv
<1>2. ReadInit => Inv
  BY InitType, InitBound DEF ReadInit
<1>3. Inv /\ Inv' /\ ReadTypeOK /\ (Reliable => ReaderInv) /\ [ReadNext]_readVars
        => (Reliable => ReaderInv)'
  BY ReadKeepsInv DEF Reliable
<1>. QED
  BY <1>1, <1>2, <1>3, ReadBoundInvariant, ReadTypeCorrect, PTL DEF ReadSpec

\* What clients were told is never taken back: with Redis healthy, whatever
\* the threads do between two requests and whenever the server is restarted,
\* counts are not lowered, receipts do not change, and the code of a contract
\* known to be created stays what it was (the one Redis command each of the
\* read handlers of handlers.c makes, beside evmdb_evm_execute_tx).
THEOREM ClientsAreToldTheTruth == ReadSpec => []ToldStaysTrue
<1>1. BoundInv /\ (Reliable => ReaderInv) => ToldStaysTrue
  <2>. SUFFICES ASSUME Reliable, BoundInv, ReaderInv PROVE ToldStaysTrue
    BY DEF ToldStaysTrue
  <2>1. ASSUME NEW h \in Hashes, Tx[h].from \in Serial, told.receipt[h] # NoReceipt
        PROVE  /\ receipt[h] = told.receipt[h]
               /\ nonce[Tx[h].from] > Tx[h].nonce
               /\ Tx[h].to = None => code[CreatedBy(h)] = Tx[h].data
    <3>1. receipt[h] = told.receipt[h] /\ exec[h] > 0
      BY <2>1 DEF ReaderInv, ToldInv, BoundInv, ReceiptImpliesExecuted
    <3>. QED
      BY <2>1, <3>1 DEF ReaderInv, SerialInv, CountsSerial, StoredInv, CodeStored
  <2>. QED
    BY <2>1 DEF ReaderInv, ToldInv, ToldStaysTrue
<1>. QED
  BY <1>1, ReaderInvariant, PTL

\* The count a wallet asks for when it has nothing in flight, with the gas of
\* eth_estimateGas, is accepted by the checks of evmdb_evm_execute_tx, through
\* crashes, lost answers and the requests of other senders.
THEOREM FreshCountsAreAccepted == ReadSpec => []FreshCountIsAccepted
<1>1. TypeOK /\ LocalInv /\ (Reliable => ReaderInv) => FreshCountIsAccepted
  <2>. SUFFICES ASSUME Reliable, TypeOK, LocalInv, FreshInv, NEW t \in Threads,
                       th[t].pc = "get_nonce",
                       Tx[th[t].tx].from \in Serial \cap signed
                PROVE  accepts(Tx[th[t].tx], nonce[Tx[th[t].tx].from])
    BY DEF FreshCountIsAccepted, ReaderInv
  <2>1. th[t].tx # None
    BY TxKnown DEF WithTx
  <2>. QED
    BY <2>1 DEF FreshInv, FromSerial
<1>. QED
  BY <1>1, ReaderInvariant, PTL

----------------------------------------------------------------------------
(* The server implements the accounts of serial senders.                   *)

\* The checks a transaction has passed by which point.
Admitted(r) ==
  r.tx # None =>
    /\ Tx[r.tx].valid
    /\ r.pc # "make_block_context" => Tx[r.tx].chain_id \in {0, ChainId}
    /\ r.pc \in Checked => intrinsic_gas(Tx[r.tx].data) <= Tx[r.tx].gas_limit

AdmittedInv == \A t \in Threads : Admitted(th[t])

\* The two checking steps are the only ones that leave their points.
LEMMA CheckSteps ==
  ASSUME NEW t \in Threads, Step(t)
  PROVE  /\ th[t].pc = "make_block_context" => make_block_context(t)
         /\ th[t].pc = "get_nonce" => get_nonce(t)
         /\ th[t].pc # "idle"
BY DEF Step, make_block_context, get_nonce, set_code, get_code, host_get_storage,
   host_set_storage, host_account_exists, host_get_balance, host_copy_code,
   HostRead, evm_internal_error, evm_revert, evm_success, exec_context_commit,
   set_nonce, set_block_number, set_receipt

\* No thread passes a check it should not.
LEMMA StepAdmitted ==
  ASSUME TypeOK, LocalInv, AdmittedInv, NEW t \in Threads, Step(t)
  PROVE  AdmittedInv'
<1>0. th \in [Threads -> ThreadTypes] /\ th[t] \in ThreadTypes /\ Admitted(th[t])
  BY DEF TypeOK, AdmittedInv
<1>1. SUFFICES Admitted(th'[t])
  BY StepEffect DEF AdmittedInv, Admitted
<1>2. SUFFICES ASSUME th[t].tx # None, th'[t].tx = th[t].tx
               PROVE  Admitted(th'[t])
  BY StepEffect DEF Advances, Admitted
<1>3. Idle.tx = None
  BY DEF Idle
<1>4. CASE th[t].pc = "make_block_context"
  <2>1. PICK n \in {latest, 0} :
          \/ /\ Tx[th[t].tx].chain_id \in {0, ChainId}
             /\ Goto(t, [[th[t] EXCEPT !.number = n] EXCEPT !.pc = "get_nonce"])
          \/ Answer(t, FALSE)
    BY <1>2, <1>4, CheckSteps DEF make_block_context
  <2>2. ~Answer(t, FALSE)
    BY <1>0, <1>2, <1>3 DEF Answer
  <2>3. th'[t].pc = "get_nonce"
    BY <1>0, <2>1, <2>2 DEF Goto, ThreadTypes
  <2>. QED
    BY <1>0, <1>2, <2>1, <2>2, <2>3 DEF Admitted, Checked
<1>5. CASE th[t].pc = "get_nonce"
  <2>1. accepts(Tx[th[t].tx], Tx[th[t].tx].nonce) \/ Answer(t, FALSE)
    BY <1>5, CheckSteps DEF get_nonce, accepts
  <2>2. ~Answer(t, FALSE)
    BY <1>0, <1>2, <1>3 DEF Answer
  <2>3. intrinsic_gas(Tx[th[t].tx].data) <= Tx[th[t].tx].gas_limit
    BY <2>1, <2>2 DEF accepts
  <2>. QED
    BY <1>0, <1>2, <1>5, <2>3 DEF Admitted
<1>6. CASE th[t].pc \notin {"make_block_context", "get_nonce"}
  <2>1. th[t].pc \in Checked
    BY <1>0, <1>6, CheckSteps DEF ThreadTypes, PCs, Checked
  <2>. QED
    BY <1>0, <1>2, <1>6, <2>1 DEF Admitted
<1>. QED
  BY <1>4, <1>5, <1>6

\* Every step keeps the checks.
LEMMA NextAdmitted ==
  ASSUME TypeOK, LocalInv, AdmittedInv, [Next]_vars
  PROVE  AdmittedInv'
<1>0. th \in [Threads -> ThreadTypes]
  BY DEF TypeOK
<1>1. ASSUME NEW t \in Threads, NEW h \in Hashes, handle_send_raw_transaction(t, h)
      PROVE  AdmittedInv'
  <2>. DEFINE r == [Idle EXCEPT !.pc = "make_block_context", !.tx = h, !.to = Tx[h].to]
  <2>1. r.pc = "make_block_context" /\ r.tx = h
    BY DEF Idle
  <2>2. (th' = [th EXCEPT ![t] = r] /\ Tx[h].valid) \/ UNCHANGED th
    BY <1>1 DEF handle_send_raw_transaction, Goto
  <2>. HIDE DEF r
  <2>3. Tx[h].valid => Admitted(r)
    BY <2>1 DEF Admitted, Checked
  <2>. QED
    BY <1>0, <2>2, <2>3 DEF AdmittedInv
<1>2. ASSUME NEW t \in Threads, NEW a \in CallTargets, handle_call(t, a)
      PROVE  AdmittedInv'
  <2>. DEFINE r == [Idle EXCEPT !.pc = "make_block_context", !.to = a]
  <2>1. r.tx = None
    BY DEF Idle
  <2>2. th' = [th EXCEPT ![t] = r]
    BY <1>2 DEF handle_call, Goto
  <2>. HIDE DEF r
  <2>. QED
    BY <1>0, <2>1, <2>2 DEF AdmittedInv, Admitted
<1>3. CASE Crash
  BY <1>3 DEF Crash, AdmittedInv, Admitted, Idle
<1>4. CASE UNCHANGED vars
  BY <1>4 DEF vars, AdmittedInv, Admitted
<1>. QED
  BY <1>1, <1>2, <1>3, <1>4, StepAdmitted DEF Next, Quiet

\* The code of the creations that took effect.
Left == [h \in {g \in Done : Tx[g].to = None} |-> code[CreatedBy(h)]]
Counts == [s \in Serial |-> nonce[s]]

\* No step changes the code of a creation that took effect.
LEMMA LeftStays ==
  ASSUME Reliable, TypeOK, LocalInv, SerialInv, NEW t \in Threads, Step(t),
         NEW h \in Done
  PROVE  code'[CreatedBy(h)] = code[CreatedBy(h)]
BY FrozenStep DEF Next, Done, SerialInv, CountsSerial

\* The step that stores the nonce is the step of the accounts.
LEMMA NonceIsExecute ==
  ASSUME Reliable, TypeOK, LocalInv, SerialInv, StoredInv, AdmittedInv,
         NEW t \in Threads, Step(t), set_nonce(t)
  PROVE  Abstract!Next \/ UNCHANGED <<Counts, Done, Left, Certified>>
<1>0. PICK h : h = th[t].tx
  OBVIOUS
<1>. DEFINE s == Tx[h].from
<1>1. /\ h \in Hashes /\ h # None /\ th[t].pc = "set_nonce" /\ Tx[h].nonce \in Nat
      /\ nonce' = [nonce EXCEPT ![s] = Tx[h].nonce + 1]
      /\ exec' = [exec EXCEPT ![h] = @ + 1]
  BY <1>0, SetNonceEffect DEF SerialInv
<1>2. UNCHANGED <<code, receipt>>
  BY DEF set_nonce, evmdb_state_set_nonce
<1>3. UNCHANGED Certified
  BY <1>2 DEF Certified
<1>4. /\ nonce \in [Addr -> Nat] /\ exec \in [Hashes -> Nat] /\ Serial \subseteq Addr
      /\ s \in Addr
  BY <1>1, PipelineAssumption DEF TypeOK, RedisTypeOK, Transactions
<1>5. CASE s \notin Serial
  <2>1. UNCHANGED Counts
    BY <1>1, <1>4, <1>5 DEF Counts
  <2>2. UNCHANGED Done
    BY <1>1, <1>4, <1>5 DEF Done
  <2>3. UNCHANGED Left
    BY <1>2, <2>2 DEF Left
  <2>. QED
    BY <1>3, <2>1, <2>2, <2>3
<1>6. CASE s \in Serial
  <2>1. nonce[s] = Tx[h].nonce
    BY <1>0, <1>1, <1>6
       DEF SerialInv, ThreadSerial, FromSerial, LocalInv, LocalOK, Checked, Bumped
  <2>2. h \notin Done
    BY <1>1, <1>4, <1>6, <2>1 DEF Done, SerialInv, CountsSerial
  <2>3. h \in Admissible
    BY <1>0, <1>1 DEF Admissible, AdmittedInv, Admitted, Checked
  <2>4. Counts' = [Counts EXCEPT ![s] = @ + 1] /\ Counts[s] = Tx[h].nonce
    BY <1>1, <1>4, <1>6, <2>1 DEF Counts
  <2>5. Done' = Done \cup {h}
    BY <1>1, <1>4, <1>6 DEF Done
  <2>6. Tx[h].to # None => UNCHANGED Left
    BY <1>2, <2>5 DEF Left
  <2>7. Tx[h].to = None =>
          Left' = [g \in DOMAIN Left \cup {h} |-> IF g = h THEN Tx[h].data ELSE Left[g]]
    <3>. SUFFICES ASSUME Tx[h].to = None
                  PROVE  Left' = [g \in DOMAIN Left \cup {h} |->
                                    IF g = h THEN Tx[h].data ELSE Left[g]]
      OBVIOUS
    <3>1. code[CreatedBy(h)] = Tx[h].data
      BY <1>0, <1>1, <1>6 DEF StoredInv, ThreadStored, FromSerial
    <3>. QED
      BY <1>2, <2>5, <3>1 DEF Left
  <2>8. Abstract!Execute(h)
    BY <1>3, <1>6, <2>2, <2>3, <2>4, <2>5, <2>6, <2>7
       DEF Abstract!Execute, Counts, Left
  <2>. QED
    BY <1>1, <2>8 DEF Abstract!Next
<1>. QED
  BY <1>5, <1>6

\* The step that stores the receipt certifies a transaction that took effect.
LEMMA ReceiptIsCertify ==
  ASSUME Reliable, TypeOK, TypeOK', LocalInv, BoundInv, SerialInv, StoredInv,
         NEW t \in Threads, Step(t), set_receipt(t)
  PROVE  Abstract!Next \/ UNCHANGED <<Counts, Done, Left, Certified>>
<1>. DEFINE h == th[t].tx
            new == [blockNumber |-> th[t].number + 1, status |-> th[t].success]
<1>1. /\ h \in Hashes /\ h # None /\ th[t].pc = "set_receipt"
      /\ \A g \in Hashes : g # h => receipt'[g] = receipt[g]
  BY SetReceiptEffect
<1>2. UNCHANGED <<nonce, code, exec>>
  BY DEF set_receipt, evmdb_state_set_receipt, historyVars
<1>3. UNCHANGED <<Counts, Done, Left>>
  BY <1>2 DEF Counts, Done, Left
<1>4. CASE Tx[h].from \notin Serial
  <2>1. UNCHANGED Certified
    BY <1>1, <1>4 DEF Certified
  <2>. QED
    BY <1>3, <2>1
<1>5. CASE Tx[h].from \in Serial
  <2>1. receipt[h] = NoReceipt /\ exec[h] > 0
    BY <1>1, <1>5
       DEF StoredInv, ThreadStored, FromSerial, Bumped, BoundInv, ThreadBound
  <2>2. receipt'[h] # NoReceipt
    <3>1. receipt' = [receipt EXCEPT ![h] = new]
      BY DEF set_receipt, evmdb_state_set_receipt, redis_set, Reliable, SerialInv
    <3>2. th[t].number \in Nat /\ new.blockNumber = th[t].number + 1
      BY DEF TypeOK, ThreadTypes
    <3>3. new # NoReceipt
      BY <3>2 DEF NoReceipt
    <3>. HIDE DEF new
    <3>. QED
      BY <1>1, <3>1, <3>3 DEF TypeOK, RedisTypeOK
  <2>3. Certified' = Certified \cup {h} /\ h \in Done \ Certified
    BY <1>1, <1>5, <2>1, <2>2 DEF Certified, Done
  <2>4. Abstract!Certify(h)
    BY <1>3, <2>3 DEF Abstract!Certify, Counts, Left
  <2>. QED
    BY <1>1, <2>4 DEF Abstract!Next
<1>. QED
  BY <1>4, <1>5

\* Every step of the server is a step of the accounts or none.
LEMMA AccountsStep ==
  ASSUME Reliable, TypeOK, TypeOK', LocalInv, BoundInv, SerialInv, StoredInv,
         AdmittedInv, [Next]_vars
  PROVE  Abstract!Next \/ UNCHANGED <<Counts, Done, Left, Certified>>
<1>1. CASE Outside
  BY <1>1 DEF Outside, Counts, Done, Left, Certified
<1>2. ASSUME NEW t \in Threads, Step(t), ~set_nonce(t), ~set_receipt(t)
      PROVE  UNCHANGED <<Counts, Done, Left, Certified>>
  <2>1. UNCHANGED <<nonce, exec, receipt>>
    BY <1>2, StepEffect
  <2>2. UNCHANGED <<Counts, Done, Certified>>
    BY <2>1 DEF Counts, Done, Certified
  <2>3. UNCHANGED Left
    BY <1>2, <2>2, LeftStays DEF Left
  <2>. QED
    BY <2>2, <2>3
<1>. QED
  BY <1>1, <1>2, NonceIsExecute, ReceiptIsCertify, NextEffect

\* On a Redis that does not fail the server implements the accounts of the
\* serial senders, for any number of threads, readers, other senders and
\* restarts: storing the nonce in evmdb_evm_execute_tx is the one step in which
\* a transaction takes effect, and everything around it is invisible.
THEOREM ServerImplementsAccounts ==
  ASSUME Reliable
  PROVE  ReadSpec => ImplementsAccounts
<1>. DEFINE Inv == TypeOK /\ BoundInv /\ LocalInv /\ (Reliable => ReaderInv)
<1>1. ReadInit => Abstract!Init
  <2>. SUFFICES ASSUME ReadInit PROVE Abstract!Init
    OBVIOUS
  <2>1. /\ nonce = [a \in Addr |-> 0] /\ Done = {} /\ Certified = {}
    BY DEF ReadInit, Init, RedisInit, Done, Certified
  <2>2. [s \in Serial |-> nonce[s]] = [s \in Serial |-> 0]
    BY <2>1, PipelineAssumption
  <2>3. [h \in {g \in Done : Tx[g].to = None} |-> code[CreatedBy(h)]]
          = [h \in {} |-> <<>>]
    BY <2>1
  <2>. QED
    BY <2>1, <2>2, <2>3 DEF Abstract!Init
<1>2. ReadInit => AdmittedInv
  BY DEF ReadInit, Init, Idle, AdmittedInv, Admitted
<1>3. Inv /\ AdmittedInv /\ [ReadNext]_readVars => AdmittedInv'
  BY ReadNextIsNext, NextAdmitted
<1>4. Inv /\ Inv' /\ AdmittedInv /\ [ReadNext]_readVars
        => [Abstract!Next]_(Abstract!accountVars)
  <2>. SUFFICES ASSUME Inv, Inv', AdmittedInv, [ReadNext]_readVars
                PROVE  Abstract!Next \/ UNCHANGED Abstract!accountVars
    OBVIOUS
  <2>1. Abstract!Next \/ UNCHANGED <<Counts, Done, Left, Certified>>
    BY AccountsStep, ReadNextIsNext DEF ReaderInv
  <2>. QED
    BY <2>1 DEF Abstract!accountVars, Counts, Left
<1>. QED
  BY <1>1, <1>2, <1>3, <1>4, ReaderInvariant, PTL
     DEF ReadSpec, ImplementsAccounts, Abstract!Spec

=============================================================================
