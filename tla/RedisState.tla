----------------------------- MODULE RedisState -----------------------------
(***************************************************************************)
(* The Redis state backend (src/src/state/redis_state.c) as the rest of    *)
(* the server sees it: every evmdb_state_* call takes the lock, sends one  *)
(* command on the one shared hiredis context, waits for the reply and      *)
(* releases the lock, so one call is one atomic step on the data.          *)
(*                                                                         *)
(* A key that does not exist reads as zero or empty.  So does a key whose  *)
(* command failed: the getters test only for a string reply, the setters   *)
(* look at no reply at all, and both always return 0.  The context is      *)
(* never reopened, so once the connection is lost every later read of the  *)
(* process is zero and every later write is dropped.                       *)
(***************************************************************************)
EXTENDS Integers, Sequences

CONSTANTS
  Addr,        \* account and contract addresses
  Keys,        \* storage keys
  Values,      \* storage words; 0 is the word of an unset slot
  Hashes,      \* transaction hashes
  Faults       \* the failures the environment may inject, see FaultKinds

\* "error": Redis answers one command with an error reply (LOADING, OOM,
\* READONLY).  "lost": the connection breaks during a command.  "oom": an
\* allocation whose failure the server handles fails (see TxPipeline).
FaultKinds == {"error", "lost", "oom"}

ASSUME RedisAssumption ==
  /\ Values \subseteq Nat /\ 0 \in Values
  /\ Faults \subseteq FaultKinds

VARIABLES
  nonce,       \* account:<addr> nonce
  code,        \* code:<addr>, a sequence of bytes
  storage,     \* storage:<addr> <key>
  receipt,     \* receipt:<hash>, NoReceipt when the key is missing
  latest,      \* block:latest
  link         \* "up" or "down": the hiredis context of this process

redisVars == <<nonce, code, storage, receipt, latest, link>>

Slot == Addr \X Keys
NoReceipt == [blockNumber |-> 0, status |-> FALSE]
Receipts == [blockNumber : Nat \ {0}, status : BOOLEAN]

RedisTypeOK ==
  /\ nonce \in [Addr -> Nat]
  /\ code \in [Addr -> Seq(Nat)]
  /\ storage \in [Slot -> Values]
  /\ receipt \in [Hashes -> Receipts \cup {NoReceipt}]
  /\ latest \in Nat
  /\ link \in {"up", "down"}

\* An empty database and a fresh connection.
RedisInit ==
  /\ nonce = [a \in Addr |-> 0]
  /\ code = [a \in Addr |-> <<>>]
  /\ storage = [s \in Slot |-> 0]
  /\ receipt = [h \in Hashes |-> NoReceipt]
  /\ latest = 0
  /\ link = "up"

----------------------------------------------------------------------------
\* redisCommand for a read: v is what the getter stores in *out.
redis_get(stored, missing, v) ==
  \/ link = "up" /\ v = stored /\ link' = "up"
  \/ link = "up" /\ "error" \in Faults /\ v = missing /\ link' = "up"
  \/ link = "up" /\ "lost" \in Faults /\ v = missing /\ link' = "down"
  \/ link = "down" /\ v = missing /\ link' = "down"

\* redisCommand for a write of key x: a lost connection may break before or
\* after Redis applied the command.
redis_set(x, new) ==
  \/ link = "up" /\ x' = new /\ link' = "up"
  \/ link = "up" /\ "error" \in Faults /\ x' = x /\ link' = "up"
  \/ link = "up" /\ "lost" \in Faults /\ x' \in {x, new} /\ link' = "down"
  \/ link = "down" /\ x' = x /\ link' = "down"

evmdb_state_get_nonce_wrong_key(a, v) == redis_get(0, 0, v)

evmdb_state_get_nonce(a, v) == redis_get(nonce[a], 0, v)
evmdb_state_get_storage(s, v) == redis_get(storage[s], 0, v)
evmdb_state_get_code(a, v) == redis_get(code[a], <<>>, v)
evmdb_state_get_block_number(v) == redis_get(latest, 0, v)
evmdb_state_get_receipt(h, v) == redis_get(receipt[h], NoReceipt, v)

\* No code of the server stores a balance, so the field is always missing.
evmdb_state_get_balance(a, v) == redis_get(0, 0, v)

evmdb_state_set_nonce_dropped(a, n) ==
  UNCHANGED <<nonce, code, storage, receipt, latest, link>>

evmdb_state_set_nonce_skips_one(a, n) ==
  /\ redis_set(nonce, [nonce EXCEPT ![a] = n + 1])
  /\ UNCHANGED <<code, storage, receipt, latest>>

evmdb_state_set_nonce(a, n) ==
  /\ redis_set(nonce, [nonce EXCEPT ![a] = n])
  /\ UNCHANGED <<code, storage, receipt, latest>>

evmdb_state_set_storage(s, v) ==
  /\ redis_set(storage, [storage EXCEPT ![s] = v])
  /\ UNCHANGED <<nonce, code, receipt, latest>>

evmdb_state_set_code(a, bytes) ==
  /\ redis_set(code, [code EXCEPT ![a] = bytes])
  /\ UNCHANGED <<nonce, storage, receipt, latest>>

evmdb_state_set_receipt(h, r) ==
  /\ redis_set(receipt, [receipt EXCEPT ![h] = r])
  /\ UNCHANGED <<nonce, code, storage, latest>>

evmdb_state_set_block_number_skips_one(n) ==
  /\ redis_set(latest, n + 1)
  /\ UNCHANGED <<nonce, code, storage, receipt>>

evmdb_state_set_block_number(n) ==
  /\ redis_set(latest, n)
  /\ UNCHANGED <<nonce, code, storage, receipt>>

\* A new process connects; Redis kept its data.
evmdb_state_init ==
  /\ link' = "up"
  /\ UNCHANGED <<nonce, code, storage, receipt, latest>>

\* A step that sends Redis no write.
RedisUnwritten == UNCHANGED <<nonce, code, storage, receipt, latest>>

=============================================================================
