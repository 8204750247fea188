----------------------------- MODULE TxPipeline -----------------------------
(***************************************************************************)
(* The write path of the server: eth_sendRawTransaction from the decoded   *)
(* request to the answer (handle_send_raw_transaction in                   *)
(* src/src/rpc/handlers.c, evmdb_evm_execute_tx and execute_contract in    *)
(* src/src/evm/executor.c), and eth_call, which shares execute_contract.   *)
(*                                                                         *)
(* The server runs one thread per connection and nothing but the Redis     *)
(* lock synchronises them, so the model interleaves the threads at the     *)
(* granularity of one Redis command: an action is one evmdb_state_* call   *)
(* with all of the thread's own computation up to the next one.            *)
(*                                                                         *)
(* evmone is external: it may call the storage host functions in any       *)
(* order, with any key and value, at most MaxHostOps times (gas), and end  *)
(* with any status.                                                        *)
(***************************************************************************)
EXTENDS RedisState, ExecContext, FiniteSets

CONSTANTS
  Threads,       \* client threads
  Tx,            \* the decoded transaction behind each hash
  CreateAddress(_, _), \* keccak(rlp(sender, nonce)), external
  ChainId,       \* rpc->chain_id
  CallTargets,   \* the addresses clients send an eth_call to
  Serial,        \* senders whose clients keep one transaction in flight
  None,          \* no transaction, no address
  MaxHostOps,    \* bound on the host calls of one execution
  MaxRequests,   \* bound on the requests clients send
  MaxCrashes     \* bound on the restarts of the process

\* valid: hex decoding, RLP decoding and sender recovery all succeed.
Transactions ==
  [valid : BOOLEAN, chain_id : Nat, from : Addr, nonce : Nat,
   to : Addr \cup {None}, data : Seq(Nat), gas_limit : Nat]

CreatedBy(h) == CreateAddress(Tx[h].from, Tx[h].nonce)

ASSUME PipelineAssumption ==
  /\ DOMAIN Tx = Hashes
  /\ \A h \in Hashes : Tx[h] \in Transactions
  /\ \A h \in Hashes : CreatedBy(h) \in Addr
  /\ \A g, h \in Hashes : CreatedBy(g) = CreatedBy(h) =>
       Tx[g].from = Tx[h].from /\ Tx[g].nonce = Tx[h].nonce
  /\ None \notin Addr /\ None \notin Hashes
  /\ CallTargets \subseteq Addr \cup {None} /\ Serial \subseteq Addr
  /\ MaxHostOps \in Nat /\ MaxRequests \in Nat /\ MaxCrashes \in Nat

VARIABLES
  th,         \* the locals of each thread's request
  requests,   \* requests sent so far
  crashes,    \* restarts so far
  bumps,      \* history: set_nonce commands issued per sender
  exec,       \* history: set_nonce commands issued per transaction
  mined,      \* history: set_nonce commands issued in all
  answered    \* history: the answers clients got

historyVars == <<bumps, exec, mined>>
envVars == <<requests, crashes>>
vars == <<redisVars, th, envVars, historyVars, answered>>

\* A thread between two requests.  tx is None for eth_call; wrote is history:
\* this request has issued a Redis write.
Idle == [pc |-> "idle", tx |-> None, to |-> None, number |-> 0,
         current_nonce |-> 0, writes |-> <<>>, reads |-> {}, next |-> 1,
         success |-> FALSE, ops |-> 0, wrote |-> FALSE]

PCs == {"idle", "make_block_context", "get_nonce", "set_code", "get_code",
        "evm", "commit", "set_nonce", "set_block_number", "set_receipt"}

Writes == Seq([slot : Slot, value : Values])
Reads == SUBSET (Slot \X Values)

ThreadTypes ==
  [pc : PCs, tx : Hashes \cup {None}, to : Addr \cup {None}, number : Nat,
   current_nonce : Nat, writes : Writes, reads : Reads,
   next : Nat \ {0}, success : BOOLEAN, ops : Nat, wrote : BOOLEAN]

Answers == [tx : Hashes \cup {None}, ok : BOOLEAN, wrote : BOOLEAN]

TypeOK ==
  /\ RedisTypeOK
  /\ th \in [Threads -> ThreadTypes]
  /\ requests \in Nat /\ crashes \in Nat
  /\ bumps \in [Addr -> Nat] /\ exec \in [Hashes -> Nat] /\ mined \in Nat
  /\ answered \in SUBSET Answers

Init ==
  /\ RedisInit
  /\ th = [t \in Threads |-> Idle]
  /\ requests = 0 /\ crashes = 0
  /\ bumps = [a \in Addr |-> 0] /\ exec = [h \in Hashes |-> 0] /\ mined = 0
  /\ answered = {}

----------------------------------------------------------------------------
\* 21000 and 4 or 16 per byte of calldata (EIP-2028), also for creations.
intrinsic_gas(data) ==
  21000 + 4 * Cardinality({i \in DOMAIN data : data[i] = 0})
        + 16 * Cardinality({i \in DOMAIN data : data[i] # 0})

Goto(t, local) == th' = [th EXCEPT ![t] = local] /\ UNCHANGED answered

\* make_response and make_error: the client hears answer r, or, when there is
\* no memory for its text, the connection is closed without one.
Reply(r) ==
  \/ answered' = answered \cup {r}
  \/ "oom" \in Faults /\ UNCHANGED answered

\* The thread's request is over.
Answer(t, ok) ==
  /\ Reply([tx |-> th[t].tx, ok |-> ok, wrote |-> th[t].wrote])
  /\ th' = [th EXCEPT ![t] = Idle]

InFlight(s) == \E t \in Threads : th[t].tx # None /\ Tx[th[t].tx].from = s

\* A client sends raw transaction h: a first time, again after an answer or a
\* crash, or, unless the sender is serial, while it is still being handled.
handle_send_raw_transaction(t, h) ==
  /\ th[t].pc = "idle" /\ requests < MaxRequests
  /\ Tx[h].from \in Serial => ~InFlight(Tx[h].from)
  /\ requests' = requests + 1
  /\ \/ /\ Tx[h].valid
        /\ Goto(t, [Idle EXCEPT !.pc = "make_block_context", !.tx = h,
                                !.to = Tx[h].to])
     \/ /\ ~Tx[h].valid \/ "oom" \in Faults
        /\ Reply([tx |-> h, ok |-> FALSE, wrote |-> FALSE])
        /\ UNCHANGED th
  /\ UNCHANGED <<redisVars, crashes, historyVars>>

\* eth_call to address a; None stands for parameters handle_call rejects.
handle_call(t, a) ==
  /\ th[t].pc = "idle" /\ requests < MaxRequests
  /\ requests' = requests + 1
  /\ Goto(t, [Idle EXCEPT !.pc = "make_block_context", !.to = a])
  /\ UNCHANGED <<redisVars, crashes, historyVars>>

\* GET block:latest, then the chain id check of evmdb_evm_execute_tx or the
\* parameter checks of handle_call.
make_block_context(t) ==
  /\ th[t].pc = "make_block_context"
  /\ \E n \in {latest, 0} :
       /\ evmdb_state_get_block_number(n)
       /\ LET local == [th[t] EXCEPT !.number = n]
              h == th[t].tx
          IN \/ /\ h # None /\ Tx[h].chain_id \in {0, ChainId}
                /\ Goto(t, [local EXCEPT !.pc = "get_nonce"])
             \/ /\ h # None /\ Tx[h].chain_id \notin {0, ChainId}
                /\ Answer(t, FALSE)
             \/ /\ h = None /\ th[t].to # None
                /\ Goto(t, [local EXCEPT !.pc = "get_code"])
             \/ /\ h = None /\ th[t].to = None
                /\ Answer(t, FALSE)
  /\ RedisUnwritten /\ UNCHANGED <<envVars, historyVars>>

accepts_used_nonce(tx, n) ==
  tx.nonce <= n /\ intrinsic_gas(tx.data) <= tx.gas_limit

\* The nonce and the intrinsic gas checks of evmdb_evm_execute_tx.
accepts(tx, n) == tx.nonce = n /\ intrinsic_gas(tx.data) <= tx.gas_limit

\* HGET nonce, then the checks.
get_nonce(t) ==
  /\ th[t].pc = "get_nonce"
  /\ LET tx == Tx[th[t].tx]
     IN \E n \in {nonce[tx.from], 0} :
          /\ evmdb_state_get_nonce(tx.from, n)
          /\ \/ /\ accepts(tx, n)
                /\ Goto(t, [th[t] EXCEPT !.current_nonce = n,
                     !.pc = IF tx.to = None THEN "set_code" ELSE "get_code"])
             \/ ~accepts(tx, n) /\ Answer(t, FALSE)
  /\ RedisUnwritten /\ UNCHANGED <<envVars, historyVars>>

\* A creation stores the call data itself as the code: no init code is run.
set_code(t) ==
  /\ th[t].pc = "set_code"
  /\ LET tx == Tx[th[t].tx]
     IN evmdb_state_set_code(CreateAddress(tx.from, th[t].current_nonce), tx.data)
  /\ Goto(t, [th[t] EXCEPT !.pc = "set_nonce", !.success = TRUE, !.wrote = TRUE])
  /\ UNCHANGED <<envVars, historyVars>>

\* An account without code runs nothing and succeeds.
get_code(t) ==
  /\ th[t].pc = "get_code"
  /\ \E bytes \in {code[th[t].to], <<>>} :
       /\ evmdb_state_get_code(th[t].to, bytes)
       /\ \/ bytes # <<>> /\ Goto(t, [th[t] EXCEPT !.pc = "evm"])
          \/ /\ bytes = <<>> /\ th[t].tx # None
             /\ Goto(t, [th[t] EXCEPT !.pc = "set_nonce", !.success = TRUE])
          \/ bytes = <<>> /\ th[t].tx = None /\ Answer(t, TRUE)
  /\ RedisUnwritten /\ UNCHANGED <<envVars, historyVars>>

\* SLOAD: the overlay first, Redis otherwise.
host_get_storage(t, k) ==
  LET slot == <<th[t].to, k>>
  IN /\ th[t].pc = "evm" /\ th[t].ops < MaxHostOps
     /\ \/ /\ Overlays(th[t].writes, slot)
           /\ Goto(t, [th[t] EXCEPT !.ops = @ + 1])
           /\ UNCHANGED link
        \/ /\ ~Overlays(th[t].writes, slot)
           /\ \E v \in {storage[slot], 0} :
                /\ evmdb_state_get_storage(slot, v)
                /\ Goto(t, [th[t] EXCEPT !.ops = @ + 1,
                                         !.reads = @ \cup {<<slot, v>>}])
     /\ RedisUnwritten /\ UNCHANGED <<envVars, historyVars>>

\* SSTORE, refused by evmone in a static call: the current value decides the
\* status evmone is told; the write goes to the overlay, or nowhere when the
\* array cannot grow.
host_set_storage(t, k, v) ==
  LET slot == <<th[t].to, k>>
  IN /\ th[t].pc = "evm" /\ th[t].ops < MaxHostOps /\ th[t].tx # None
     /\ \/ Overlays(th[t].writes, slot) /\ UNCHANGED link
        \/ /\ ~Overlays(th[t].writes, slot)
           /\ \E c \in {storage[slot], 0} : evmdb_state_get_storage(slot, c)
     /\ \/ Goto(t, [th[t] EXCEPT !.ops = @ + 1,
                      !.writes = exec_context_set_write(@, slot, v)])
        \/ /\ "oom" \in Faults /\ ~Overlays(th[t].writes, slot)
           /\ Goto(t, [th[t] EXCEPT !.ops = @ + 1])
     /\ RedisUnwritten /\ UNCHANGED <<envVars, historyVars>>

\* An instruction of the contract that looks at an account: what it sees stays
\* in evmone, whose next move is free in this model anyway.
HostRead(t) ==
  /\ th[t].pc = "evm" /\ th[t].ops < MaxHostOps
  /\ Goto(t, [th[t] EXCEPT !.ops = @ + 1])
  /\ RedisUnwritten /\ UNCHANGED <<envVars, historyVars>>

\* Nonce, balance and code are read; the first stands for all three.
host_account_exists(t, a) ==
  HostRead(t) /\ \E n \in {nonce[a], 0} : evmdb_state_get_nonce(a, n)

host_get_balance(t, a) == HostRead(t) /\ evmdb_state_get_balance(a, 0)

\* EXTCODESIZE, EXTCODEHASH and EXTCODECOPY.
host_copy_code(t, a) ==
  HostRead(t) /\ \E bytes \in {code[a], <<>>} : evmdb_state_get_code(a, bytes)

\* evmc_execute returns a negative status: execute_contract gives up.
evm_internal_error(t) ==
  /\ th[t].pc = "evm"
  /\ Answer(t, FALSE)
  /\ UNCHANGED <<redisVars, envVars, historyVars>>

evm_revert_commits(t) ==
  /\ th[t].pc = "evm"
  /\ \/ /\ th[t].tx # None
        /\ Goto(t, [th[t] EXCEPT
             !.pc = IF th[t].writes = <<>> THEN "set_nonce" ELSE "commit"])
     \/ th[t].tx = None /\ Answer(t, FALSE)
  /\ UNCHANGED <<redisVars, envVars, historyVars>>

evm_revert_keeps_nonce(t) ==
  /\ th[t].pc = "evm"
  /\ \/ /\ th[t].tx # None
        /\ Goto(t, [th[t] EXCEPT !.pc = "set_block_number", !.writes = <<>>])
     \/ th[t].tx = None /\ Answer(t, FALSE)
  /\ UNCHANGED <<redisVars, envVars, historyVars>>

\* A revert or any other failure drops the overlay; a transaction still
\* counts, a call is answered with an error.
evm_revert(t) ==
  /\ th[t].pc = "evm"
  /\ \/ /\ th[t].tx # None
        /\ Goto(t, [th[t] EXCEPT !.pc = "set_nonce", !.writes = <<>>])
     \/ th[t].tx = None /\ Answer(t, FALSE)
  /\ UNCHANGED <<redisVars, envVars, historyVars>>

\* Only a transaction commits its overlay (commit_state); the answer to a
\* call is formatted, which needs memory.
evm_success(t) ==
  /\ th[t].pc = "evm"
  /\ \/ /\ th[t].tx # None
        /\ Goto(t, [th[t] EXCEPT !.success = TRUE,
             !.pc = IF th[t].writes = <<>> THEN "set_nonce" ELSE "commit"])
     \/ th[t].tx = None /\ Answer(t, TRUE)
     \/ th[t].tx = None /\ "oom" \in Faults /\ Answer(t, FALSE)
  /\ UNCHANGED <<redisVars, envVars, historyVars>>

exec_context_commit_stuck(t) ==
  /\ th[t].pc = "commit"
  /\ LET w == th[t].writes[th[t].next]
     IN evmdb_state_set_storage(w.slot, w.value)
  /\ Goto(t, [th[t] EXCEPT !.wrote = TRUE])
  /\ UNCHANGED <<envVars, historyVars>>

\* One turn of the loop of exec_context_commit.
exec_context_commit(t) ==
  /\ th[t].pc = "commit"
  /\ LET w == th[t].writes[th[t].next]
     IN evmdb_state_set_storage(w.slot, w.value)
  /\ Goto(t, [th[t] EXCEPT !.wrote = TRUE, !.next = @ + 1,
       !.pc = IF th[t].next = Len(th[t].writes) THEN "set_nonce" ELSE "commit"])
  /\ UNCHANGED <<envVars, historyVars>>

set_nonce_reports_error(t) ==
  /\ th[t].pc = "set_nonce"
  /\ Answer(t, FALSE)
  /\ UNCHANGED <<redisVars, envVars, historyVars>>

\* The last step of evmdb_evm_execute_tx, for reverted transactions too.
set_nonce(t) ==
  LET h == th[t].tx
      s == Tx[h].from
  IN /\ th[t].pc = "set_nonce"
     /\ evmdb_state_set_nonce(s, th[t].current_nonce + 1)
     /\ Goto(t, [th[t] EXCEPT !.pc = "set_block_number", !.wrote = TRUE])
     /\ bumps' = [bumps EXCEPT ![s] = @ + 1]
     /\ exec' = [exec EXCEPT ![h] = @ + 1]
     /\ mined' = mined + 1
     /\ UNCHANGED envVars

set_block_number_answers(t) ==
  /\ th[t].pc = "set_block_number"
  /\ evmdb_state_set_block_number(th[t].number + 1)
  /\ Answer(t, TRUE)
  /\ UNCHANGED <<envVars, historyVars>>

\* Then the receipt is formatted, which needs memory.
set_block_number(t) ==
  /\ th[t].pc = "set_block_number"
  /\ evmdb_state_set_block_number(th[t].number + 1)
  /\ \/ Goto(t, [th[t] EXCEPT !.pc = "set_receipt"])
     \/ "oom" \in Faults /\ Answer(t, FALSE)
  /\ UNCHANGED <<envVars, historyVars>>

\* The receipt is stored last; the client is answered with the hash.
set_receipt(t) ==
  /\ th[t].pc = "set_receipt"
  /\ evmdb_state_set_receipt(th[t].tx,
       [blockNumber |-> th[t].number + 1, status |-> th[t].success])
  /\ Answer(t, TRUE)
  /\ UNCHANGED <<envVars, historyVars>>

\* The process dies, at any point of any request, and is started again.  The
\* server has no orderly shutdown, so this is how every run of it ends.
Crash ==
  /\ crashes < MaxCrashes
  /\ crashes' = crashes + 1
  /\ th' = [t \in Threads |-> Idle]
  /\ evmdb_state_init
  /\ UNCHANGED <<requests, historyVars, answered>>

\* Every request has been sent and answered.
Quiet ==
  /\ requests = MaxRequests /\ \A t \in Threads : th[t].pc = "idle"
  /\ UNCHANGED vars

Step(t) ==
  \/ make_block_context(t) \/ get_nonce(t) \/ set_code(t) \/ get_code(t)
  \/ \E k \in Keys : host_get_storage(t, k)
  \/ \E k \in Keys, v \in Values : host_set_storage(t, k, v)
  \/ \E a \in Addr : \/ host_account_exists(t, a) \/ host_get_balance(t, a)
                     \/ host_copy_code(t, a)
  \/ evm_internal_error(t) \/ evm_revert(t) \/ evm_success(t)
  \/ exec_context_commit(t)
  \/ set_nonce(t) \/ set_block_number(t) \/ set_receipt(t)

Next ==
  \/ \E t \in Threads, h \in Hashes : handle_send_raw_transaction(t, h)
  \/ \E t \in Threads, a \in CallTargets : handle_call(t, a)
  \/ \E t \in Threads : Step(t)
  \/ Crash
  \/ Quiet

Spec == Init /\ [][Next]_vars

\* The kernel schedules every runnable thread and Redis answers or fails.
Fairness == \A t \in Threads : WF_vars(Step(t))
FairSpec == Spec /\ Fairness

----------------------------------------------------------------------------
(* Safety in every environment: races, crashes, retries, Redis failures.   *)

\* The stored height never exceeds the number of executed transactions, and
\* no receipt names a block beyond it, although every thread computes its
\* block number from a height it read long before (handlers.c, 591 and 637).
HeightBounded ==
  /\ latest <= mined
  /\ \A h \in Hashes : receipt[h].blockNumber <= mined

\* A sender's stored nonce never runs ahead of the transactions executed for
\* it, although the check and the store of evmdb_evm_execute_tx are apart.
NonceBounded == \A a \in Addr : nonce[a] <= bumps[a]

\* A receipt exists only for a transaction that was executed, and only under
\* a hash whose nonce the stored nonces once reached.
ReceiptImpliesExecuted ==
  \A h \in Hashes : receipt[h] # NoReceipt =>
    exec[h] > 0 /\ Tx[h].nonce < bumps[Tx[h].from]

\* An eth_call has written nothing to Redis, and neither has a transaction that
\* is answered with an error, not even one whose execution failed half way: the
\* one error told of a transaction that did write is about its receipt, which
\* found no memory after everything else was done.
ErrorLeavesNoTrace ==
  \A r \in answered :
    /\ r.tx = None => ~r.wrote
    /\ ~r.ok /\ r.wrote => "oom" \in Faults /\ exec[r.tx] > 0

\* A word in Redis changes only when a transaction that succeeded stores it, in
\* the contract it called, and only to the last value it wrote there: whatever
\* other threads and crashes do, no word of an execution that failed, of an
\* eth_call or from the middle of an execution gets through the overlay.
StoresOnlyFinalWords ==
  [][\A s \in Slot : storage'[s] # storage[s] =>
       \E t \in Threads :
         /\ th[t].tx # None /\ th[t].success /\ s[1] = Tx[th[t].tx].to
         /\ Overlays(th[t].writes, s)
         /\ storage'[s] = exec_context_get_write(th[t].writes, s)]_vars

----------------------------------------------------------------------------
(* Safety when Redis does not fail and the sender is serial: it never has  *)
(* two transactions in flight.  Crashes and retries remain.                *)

Reliable == Faults \cap {"error", "lost"} = {}

\* The stored nonce counts the sender's executed transactions, none twice.
NonceCountsExecutions ==
  Reliable => \A s \in Serial : nonce[s] = bumps[s]

\* A transaction is executed to the end at most once, however often a client
\* sends it again and whenever the process dies.
AtMostOnce ==
  Reliable => \A h \in Hashes : Tx[h].from \in Serial => exec[h] <= 1

\* A transaction answered with its hash stays done: its receipt can be read
\* and its nonce is used up.
AnsweredIsDurable ==
  Reliable => \A r \in answered : r.ok /\ r.tx # None =>
    /\ receipt[r.tx] # NoReceipt
    /\ Tx[r.tx].from \in Serial => nonce[Tx[r.tx].from] > Tx[r.tx].nonce

\* Once a creating transaction's nonce is used up, no step changes the code
\* at the address it created.
CodeIsFrozen ==
  [][Reliable => \A h \in Hashes :
       (Tx[h].from \in Serial /\ nonce[Tx[h].from] > Tx[h].nonce)
         => code'[CreatedBy(h)] = code[CreatedBy(h)]]_vars

----------------------------------------------------------------------------
(* Liveness, whatever fails.                                               *)

\* Every request a thread has accepted comes to its end in handlers.c and
\* executor.c, whatever Redis and the allocator do to it on the way: with an
\* answer, or without one where make_response finds no memory.
EveryRequestEnds ==
  \A t \in Threads : (th[t].pc # "idle") ~> (th[t].pc = "idle")

----------------------------------------------------------------------------
(* What the sources say and threads, or a failing Redis, do not keep.      *)

\* handlers.c, 636: "each tx = one block".  No two receipts share a block.
EachTxOneBlock ==
  \A g, h \in Hashes :
    (g # h /\ receipt[g] # NoReceipt /\ receipt[h] # NoReceipt)
      => receipt[g].blockNumber # receipt[h].blockNumber

\* executor.c, 519: "failed to commit state changes".  An execution that goes
\* on after exec_context_commit without that error has all its writes stored.
CommitIsComplete ==
  \A t \in Threads : (th[t].pc = "set_nonce" /\ th[t].success) =>
    \A i \in DOMAIN th[t].writes :
      storage[th[t].writes[i].slot] = th[t].writes[i].value

\* evm.h, 22: "Execute a transaction against the current state".  When an
\* execution succeeds, every storage word it read is still the stored one: no
\* other transaction has committed a new word since.
ExecutesOnCurrentState ==
  [][\A t \in Threads :
       (th[t].pc = "evm" /\ th'[t].pc \in {"commit", "set_nonce"} /\ th'[t].success)
         => \A r \in th[t].reads : storage[r[1]] = r[2]]_vars

=============================================================================
