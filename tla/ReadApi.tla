------------------------------ MODULE ReadApi ------------------------------
(***************************************************************************)
(* The read-only methods of src/src/rpc/handlers.c beside the write path:  *)
(* any thread may answer one between any two steps of TxPipeline.  Each    *)
(* makes at most one Redis command, so each is one action.  told and fresh *)
(* are history: what clients have learned, and what they build on it.      *)
(***************************************************************************)
EXTENDS TxPipeline

CONSTANT Watched   \* the addresses clients ask about

ASSUME ReadAssumption == Watched \subseteq Addr /\ None \notin Nat

VARIABLES
  told,       \* history: what clients were told
  fresh,      \* history: the count each serial sender's wallet will sign with
  signed      \* history: senders whose last transaction was signed with it

readVars == <<vars, told, fresh, signed>>

\* count: the highest answer of eth_getTransactionCount.  receipt: the last
\* answer of eth_getTransactionReceipt that was not null.  code: the first
\* answer of eth_getCode after a client was told a count above the nonce that
\* created the contract.
Told == [count : [Addr -> Nat], receipt : [Hashes -> Receipts \cup {NoReceipt}],
         code : [Addr -> Seq(Nat)]]

ReadTypeOK ==
  /\ TypeOK
  /\ told \in Told
  /\ fresh \in [Serial -> Nat \cup {None}]
  /\ signed \subseteq Serial

ReadInit ==
  /\ Init
  /\ told = [count |-> [a \in Addr |-> 0],
             receipt |-> [h \in Hashes |-> NoReceipt],
             code |-> [a \in Addr |-> <<>>]]
  /\ fresh = [s \in Serial |-> None]
  /\ signed = {}

\* One read-only request: Redis keeps its data, the write path goes on.
Read == RedisUnwritten /\ UNCHANGED <<th, envVars, historyVars, answered, signed>>

----------------------------------------------------------------------------
\* Requests that are answered without a Redis command: those whose parameters
\* a handler rejects, eth_estimateGas (SendRaw has what a wallet does with its
\* answer) and the methods that answer a constant.
answer_without_redis == Read /\ UNCHANGED <<link, told, fresh>>

\* The stored height; a block is reported at it whatever was asked for.
AnswerHeight ==
  /\ Read /\ UNCHANGED <<told, fresh>>
  /\ \E n \in {latest, 0} : evmdb_state_get_block_number(n)

handle_block_number == AnswerHeight
handle_get_block_by_number == AnswerHeight
handle_fee_history == AnswerHeight

handle_get_balance(a) ==
  /\ Read /\ UNCHANGED <<told, fresh>>
  /\ evmdb_state_get_balance(a, 0)

\* A client is told that a's count is n.  The wallet of a serial sender that
\* has nothing in flight will sign its next transaction with it.
TellCount(a, n) ==
  /\ told' = [told EXCEPT !.count[a] = IF n > @ THEN n ELSE @]
  /\ fresh' = IF a \in Serial /\ ~InFlight(a)
              THEN [fresh EXCEPT ![a] = n] ELSE fresh

handle_get_transaction_count_of_height(a) ==
  /\ Read
  /\ \E n \in {latest, 0} : evmdb_state_get_block_number(n) /\ TellCount(a, n)

handle_get_transaction_count_pending(a) ==
  LET pending == IF InFlight(a) THEN 1 ELSE 0
  IN /\ Read
     /\ evmdb_state_get_nonce(a, nonce[a]) /\ TellCount(a, nonce[a] + pending)

handle_get_transaction_count_last_used(a) ==
  /\ Read
  /\ evmdb_state_get_nonce(a, nonce[a]) /\ TellCount(a, nonce[a] - 1)

handle_get_transaction_count(a) ==
  /\ Read
  /\ \E n \in {nonce[a], 0} : evmdb_state_get_nonce(a, n) /\ TellCount(a, n)

\* A client knows that the creation of the contract at a is over.
Settled(a) ==
  \E h \in Hashes : /\ Tx[h].to = None /\ CreatedBy(h) = a
                    /\ told.count[Tx[h].from] > Tx[h].nonce

\* The answer is the code, or an error when it cannot be allocated.
handle_get_code(a) ==
  /\ Read /\ UNCHANGED fresh
  /\ \E bytes \in {code[a], <<>>} :
       /\ evmdb_state_get_code(a, bytes)
       /\ LET now == IF Settled(a) /\ told.code[a] = <<>> THEN bytes
                     ELSE told.code[a]
              lost == IF "oom" \in Faults THEN {told} ELSE {}
          IN told' \in {[told EXCEPT !.code[a] = now]} \cup lost

handle_get_storage_at(a, k) ==
  /\ Read /\ UNCHANGED <<told, fresh>>
  /\ \E v \in {storage[<<a, k>>], 0} : evmdb_state_get_storage(<<a, k>>, v)

\* eth_getTransactionReceipt: null, or the stored text.  The copy made by
\* evmdb_state_get_receipt has no terminator and is printed as a string, so
\* whatever bytes follow it up to the next zero may be printed after it;
\* told holds the part that was stored.
handle_get_transaction_receipt(h) ==
  /\ Read /\ UNCHANGED fresh
  /\ \E r \in {receipt[h], NoReceipt} :
       /\ evmdb_state_get_receipt(h, r)
       /\ told' = [told EXCEPT !.receipt[h] = IF r = NoReceipt THEN @ ELSE r]

\* The second copy of the intrinsic gas rule: what eth_estimateGas answers.
intrinsic_gas_for_data(data) ==
  21000 + 4 * Cardinality({i \in DOMAIN data : data[i] = 0})
        + 16 * Cardinality({i \in DOMAIN data : data[i] # 0})

----------------------------------------------------------------------------
SendRaw(t, h) ==
  LET s == Tx[h].from
  IN /\ handle_send_raw_transaction(t, h)
     /\ fresh' = IF s \in Serial THEN [fresh EXCEPT ![s] = None] ELSE fresh
     /\ signed' = IF /\ s \in Serial /\ fresh[s] = Tx[h].nonce
                     /\ intrinsic_gas_for_data(Tx[h].data) <= Tx[h].gas_limit
                  THEN signed \cup {s} ELSE signed \ {s}
     /\ UNCHANGED told

WritePath ==
  /\ \/ \E t \in Threads, a \in CallTargets : handle_call(t, a)
     \/ \E t \in Threads : Step(t)
     \/ Crash
  /\ UNCHANGED <<told, fresh, signed>>

ReadPath ==
  \/ answer_without_redis
  \/ handle_block_number \/ handle_get_block_by_number \/ handle_fee_history
  \/ \E a \in Watched : \/ handle_get_balance(a)
                        \/ handle_get_transaction_count(a)
                        \/ handle_get_code(a)
                        \/ \E k \in Keys : handle_get_storage_at(a, k)
  \/ \E h \in Hashes : handle_get_transaction_receipt(h)

ReadNext ==
  \/ \E t \in Threads, h \in Hashes : SendRaw(t, h)
  \/ WritePath
  \/ ReadPath
  \/ Quiet /\ UNCHANGED readVars

ReadSpec == ReadInit /\ [][ReadNext]_readVars

----------------------------------------------------------------------------
\* What clients were told is never taken back, whichever threads answer them
\* and whenever the server is restarted (Redis healthy, senders serial): a
\* count is never lowered, a receipt never changes or disappears, the
\* transaction it is for has used up its nonce and left its code, and the code
\* of a contract whose creation a client knows to be over stays what it was.
ToldStaysTrue ==
  Reliable =>
    /\ \A s \in Serial : told.count[s] <= nonce[s]
    /\ \A h \in Hashes :
         (Tx[h].from \in Serial /\ told.receipt[h] # NoReceipt) =>
           /\ receipt[h] = told.receipt[h]
           /\ nonce[Tx[h].from] > Tx[h].nonce
           /\ Tx[h].to = None => code[CreatedBy(h)] = Tx[h].data
    /\ \A h \in Hashes :
         (Tx[h].from \in Serial /\ told.code[CreatedBy(h)] # <<>>) =>
           code[CreatedBy(h)] = told.code[CreatedBy(h)]

\* A wallet that asks for its count when it has nothing in flight, signs its
\* next transaction with the answer and gives it the gas eth_estimateGas asks
\* for is never refused by the checks of evmdb_evm_execute_tx: not after a
\* crash, and not when it never saw the answer to the transaction before.
FreshCountIsAccepted ==
  Reliable =>
    \A t \in Threads :
      LET tx == Tx[th[t].tx]
      IN th[t].pc = "get_nonce" /\ tx.from \in Serial \cap signed =>
           accepts(tx, nonce[tx.from])

----------------------------------------------------------------------------
(* The server as a serial sender sees it, Redis healthy.                   *)

\* The checks of handle_send_raw_transaction and evmdb_evm_execute_tx that do
\* not depend on the state.
Admissible ==
  {h \in Hashes : /\ Tx[h].valid /\ Tx[h].chain_id \in {0, ChainId}
                  /\ intrinsic_gas(Tx[h].data) <= Tx[h].gas_limit}

\* A transaction takes effect when its nonce is stored; what a creation had
\* stored before a crash that came sooner does not count.
Done == {h \in Hashes : Tx[h].from \in Serial /\ exec[h] > 0}
Certified == {h \in Hashes : Tx[h].from \in Serial /\ receipt[h] # NoReceipt}

Abstract == INSTANCE Accounts WITH
  nonce <- [s \in Serial |-> nonce[s]],
  done <- Done,
  code <- [h \in {g \in Done : Tx[g].to = None} |-> code[CreatedBy(h)]],
  certified <- Certified

\* To a serial sender the server is the abstract one, whatever the threads of
\* other connections, its readers, its own retries and the restarts of the
\* process do between any two Redis commands of its transaction: the effect is
\* one step (evmdb_state_set_nonce), only of an admissible transaction, in the
\* order of the nonces, and never undone or repeated.
ImplementsAccounts == Abstract!Spec

=============================================================================
