------------------------------ MODULE TxCodec ------------------------------
(***************************************************************************)
(* The bytes of a raw transaction (src/src/block/tx.c, hex.c, executor.c): *)
(* evmdb_hex_decode turns the wallet's text into bytes, evmdb_tx_decode    *)
(* reads the fields out of their RLP, evmdb_tx_recover_sender encodes them *)
(* again to rebuild the digest the wallet signed and recovers the sender.  *)
(* The sender is right only if the decoder and the second encoder agree on *)
(* every byte.  A third encoder gives a created contract its address, and  *)
(* hex texts name the account, in Redis and in what a client asks about.   *)
(*                                                                         *)
(* A number is its big-endian bytes without leading zeros, so that 64 and  *)
(* 256 bit fields keep their width; an address is its 20 bytes, <<>> when  *)
(* to_is_null.  The wallet, Keccak and secp256k1 are external.             *)
(***************************************************************************)
EXTENDS Integers, Sequences, SequencesExt, Hex

CONSTANTS
  WalletTxs,      \* the transactions wallets sign
  Styles,         \* ways to write hex: its prefix and which digits are capitals
  Signer          \* the 20 bytes of the signing wallet's address

Byte == 0 .. 255

\* A number below 256^n: big-endian bytes without leading zeros.
Numbers(n) == {s \in Seq(Byte) : Len(s) <= n /\ (s # <<>> => s[1] # 0)}

MaxRequest == 1024 * 1024   \* RPC_MAX_REQUEST_SIZE

ASSUME SignerAssumption == Signer \in [1 .. 20 -> Byte]
\* What evmdb_hex_decode takes: either prefix or none, digits of any case.
ASSUME StyleAssumption ==
  \A st \in Styles : /\ st.prefix \in {<<>>, <<48, 120>>, <<48, 88>>}
                      /\ st.capital \in [0 .. 1 -> BOOLEAN]

VARIABLES
  wallet,    \* the transaction a wallet signed and sent
  style,     \* the wallet's way to write hex
  pc,        \* "text", "raw", "decoded", "recovered", "executed", "rejected"
  raw,       \* the decoded bytes
  tx,        \* evmdb_tx_t
  from,      \* tx->from: "none", the "signer", or some "other" address
  created,   \* the bytes hashed for the address of the new contract
  key,       \* the text that names the sender's account in Redis
  asked      \* the accounts eth_getTransactionCount read, <<>> for an error

vars == <<wallet, style, pc, raw, tx, from, created, key, asked>>

LEGACY == 0
EIP2930 == 1
EIP1559 == 2

First(n, s) == SubSeq(s, 1, IF Len(s) < n THEN Len(s) ELSE n)
Strip(s) == LET i == SelectInSeq(s, LAMBDA b : b # 0)
            IN IF i = 0 THEN <<>> ELSE SubSeq(s, i, Len(s))
Number(s) ==
  LET value[i \in 0 .. Len(s)] == IF i = 0 THEN 0 ELSE 256 * value[i - 1] + s[i]
  IN value[Len(s)]
Bytes[n \in Nat] == IF n = 0 THEN <<>> ELSE Append(Bytes[n \div 256], n % 256)

----------------------------------------------------------------------------
(* The wallet: RLP by its definition.                                      *)

RlpPrefix(n, base) ==
  IF n < 56 THEN <<base + n>> ELSE <<base + 55 + Len(Bytes[n])>> \o Bytes[n]
RlpString(s) ==
  IF Len(s) = 1 /\ s[1] < 128 THEN s ELSE RlpPrefix(Len(s), 128) \o s
RlpList(items) ==
  LET payload == FlattenSeq(items) IN RlpPrefix(Len(payload), 192) \o payload

\* An access list entry: an address and no storage keys.
AccessEntry(address) == RlpList(<<RlpString(address), RlpPrefix(0, 192)>>)
AccessList(w) == LET entries == [i \in DOMAIN w.accessList |-> AccessEntry(w.accessList[i])]
                 IN IF entries = <<>> THEN RlpPrefix(0, 192) ELSE RlpList(entries)

Body(w) ==
  IF w.type = LEGACY
  THEN <<RlpString(w.nonce), RlpString(w.fee), RlpString(w.gas_limit),
         RlpString(w.to), RlpString(w.value), RlpString(w.data)>>
  ELSE <<RlpString(w.chain_id), RlpString(w.nonce)>>
       \o (IF w.type = EIP1559 THEN <<RlpString(w.tip)>> ELSE <<>>)
       \o <<RlpString(w.fee), RlpString(w.gas_limit), RlpString(w.to),
            RlpString(w.value), RlpString(w.data), AccessList(w)>>

TypeByte(w) == IF w.type = LEGACY THEN <<>> ELSE <<w.type>>

\* v is the parity, or encodes the chain as well (EIP-155, or 27 and 28).
WalletV(w) ==
  IF w.type # LEGACY THEN Bytes[w.parity]
  ELSE IF w.chain_id = <<>> THEN <<27 + w.parity>>
  ELSE Bytes[35 + 2 * Number(w.chain_id) + w.parity]

\* What the wallet hashes and signs, and what it sends.
Signed(w) ==
  TypeByte(w) \o
    RlpList(Body(w) \o IF w.type = LEGACY /\ w.chain_id # <<>>
                       THEN <<RlpString(w.chain_id), RlpString(<<>>), RlpString(<<>>)>>
                       ELSE <<>>)
Raw(w) ==
  TypeByte(w) \o
    RlpList(Body(w) \o <<RlpString(WalletV(w)), RlpString(w.r), RlpString(w.s)>>)

\* What wallets can send: the fields have their widths, the text of data and
\* access list fits into a request (RPC_MAX_REQUEST_SIZE) and v into 64 bits
\* (EIP-2294).
ASSUME WalletAssumption ==
  \A w \in WalletTxs :
    /\ w.type \in {LEGACY, EIP2930, EIP1559} /\ w.parity \in {0, 1}
    /\ {w.chain_id, w.nonce, w.gas_limit} \subseteq Numbers(8)
    /\ {w.tip, w.fee, w.value, w.r, w.s} \subseteq Numbers(32)
    /\ w.to \in Seq(Byte) /\ Len(w.to) \in {0, 20}
    /\ w.data \in Seq(Byte)
    /\ w.accessList \in Seq([1 .. 20 -> Byte])
    /\ w.type = LEGACY => w.accessList = <<>>
    /\ Len(WalletV(w)) <= 8
    /\ Len(w.data) < MaxRequest /\ Len(AccessList(w)) < MaxRequest

\* The text of some bytes in a style; an EIP-55 address mixes the capitals.
Written(bytes, st) ==
  LET digits == evmdb_hex_encode(bytes)
  IN st.prefix \o [i \in 1 .. Len(digits) - 2 |->
                     LET c == digits[i + 2]
                     IN IF c > 96 /\ st.capital[i % 2] THEN c - 32 ELSE c]

----------------------------------------------------------------------------
(* The decoder.                                                            *)

Failed == [ok |-> FALSE, item |-> <<>>, pos |-> 0]
Item(data, pos, n, next) ==
  [ok |-> TRUE, item |-> SubSeq(data, pos + 1, pos + n), pos |-> next]

\* A string of n bytes at pos.  A list is only entered: the next item is its
\* first element.
StringAt(data, pos, n) ==
  IF pos + n > Len(data) THEN Failed ELSE Item(data, pos, n, pos + n)
ListAt(data, pos, n) == Item(data, pos, n, pos)

\* The item at pos and the position after it; above 55 bytes the length is in
\* the k bytes behind the first.
rlp_decode_item(data, pos) ==
  LET prefix == data[pos + 1]
      k == prefix - IF prefix <= 191 THEN 183 ELSE 247
      long == Number(SubSeq(data, pos + 2, pos + 1 + k))
  IN IF pos >= Len(data) THEN Failed
     ELSE IF prefix <= 127 THEN Item(data, pos, 1, pos + 1)
     ELSE IF prefix <= 183 THEN StringAt(data, pos + 1, prefix - 128)
     ELSE IF prefix \in 192 .. 247 THEN ListAt(data, pos + 1, prefix - 192)
     ELSE IF pos + 1 + k > Len(data) THEN Failed
     ELSE IF prefix <= 191 THEN StringAt(data, pos + 1 + k, long)
     ELSE ListAt(data, pos + 1 + k, long)

rlp_to_uint64_seven(item) == Strip(First(7, item))
rlp_to_uint64(item) == Strip(First(8, item))
rlp_to_bytes32(item) == Strip(First(32, item))
rlp_to_address(item) == [i \in 1 .. (20 - Len(First(20, item))) |-> 0] \o First(20, item)

\* The fields in the order they are read; EIP-2930 reads none of them.
Fields(type) ==
  IF type = EIP1559
  THEN <<"chain_id", "nonce", "tip", "fee", "gas_limit", "to", "value", "data",
         "accessList", "v", "r", "s">>
  ELSE IF type = LEGACY
  THEN <<"nonce", "fee", "gas_limit", "to", "value", "data", "v", "r", "s">>
  ELSE <<>>

Convert(field, item) ==
  IF field \in {"chain_id", "nonce", "gas_limit", "v"} THEN rlp_to_uint64(item)
  ELSE IF field = "to" THEN (IF item = <<>> THEN <<>> ELSE rlp_to_address(item))
  ELSE IF field = "data" THEN item
  ELSE rlp_to_bytes32(item)

\* evmdb_tx_t: fee is gas_price or max_fee_per_gas, tip max_priority_fee.
Zeroed == [f \in {"chain_id", "nonce", "tip", "fee", "gas_limit", "to", "value",
                  "data", "v", "r", "s"} |-> <<>>]

\* Where a field is among the ones read, 0 when it is not read.
Position(names, field) == SelectInSeq(names, LAMBDA n : n = field)

AtLeast35(v) == Len(v) > 1 \/ (Len(v) = 1 /\ v[1] >= 35)

\* The first n items of a list, each where the one before it ended.
read_items(list, n) ==
  LET read[i \in 0 .. n] ==
        IF i = 0 THEN [list EXCEPT !.pos = 0]
        ELSE LET before == read[i - 1]
             IN IF before.ok THEN rlp_decode_item(list.item, before.pos) ELSE Failed
  IN read

\* What is stored of the items; a field that is not read stays zero.
stored(names, read) ==
  [f \in DOMAIN Zeroed |-> IF Position(names, f) = 0 THEN Zeroed[f]
                           ELSE Convert(f, read[Position(names, f)].item)]

decode(b) ==
  LET type == IF b[1] \in {EIP2930, EIP1559} THEN b[1] ELSE LEGACY
      list == rlp_decode_item(IF type = LEGACY THEN b ELSE Tail(b), 0)
      names == Fields(type)
      read == read_items(list, Len(names))
      fields == stored(names, read)
  IN [ok |-> read[Len(names)].ok, type |-> type, f |->
        IF type = LEGACY /\ AtLeast35(fields.v)
        THEN [fields EXCEPT !.chain_id = Bytes[(Number(fields.v) - 35) \div 2]]
        ELSE fields]

----------------------------------------------------------------------------
(* The second encoder and the recovery of the sender.                      *)

rlp_append_length_off_by_one(n, short_base, long_base) ==
  IF n <= 56 THEN <<short_base + n>>
             ELSE <<long_base + Len(Bytes[n])>> \o Bytes[n]

rlp_append_length(n, short_base, long_base) ==
  IF n <= 55 THEN <<short_base + n>>
             ELSE <<long_base + Len(Bytes[n])>> \o Bytes[n]

rlp_append_bytes(s) ==
  IF Len(s) = 1 /\ s[1] <= 127 THEN s
  ELSE rlp_append_length(Len(s), 128, 183) \o s

rlp_wrap_list(payload) == rlp_append_length(Len(payload), 192, 247) \o payload

\* The bytes evmdb_tx_signing_hash hashes.  The access list is always encoded
\* as empty.
signing_bytes(d) ==
  LET enc(names) == FlattenSeq([i \in DOMAIN names |-> rlp_append_bytes(d.f[names[i]])])
  IN IF d.type = EIP1559
     THEN <<2>> \o rlp_wrap_list(enc(<<"chain_id", "nonce", "tip", "fee",
                                       "gas_limit", "to", "value", "data">>) \o <<192>>)
     ELSE rlp_wrap_list(enc(<<"nonce", "fee", "gas_limit", "to", "value", "data">>)
            \o IF d.f.chain_id = <<>> THEN <<>>
               ELSE rlp_append_bytes(d.f.chain_id) \o <<128, 128>>)

\* The recovery id v stands for, or -1.
recid_eip155_only(d) ==
  IF d.type # LEGACY THEN (IF d.f.v \in {<<>>, <<1>>} THEN Number(d.f.v) ELSE -1)
  ELSE IF AtLeast35(d.f.v) THEN (Number(d.f.v) - 35) % 2
  ELSE -1

recid(d) ==
  IF d.type # LEGACY THEN (IF d.f.v \in {<<>>, <<1>>} THEN Number(d.f.v) ELSE -1)
  ELSE IF d.f.v \in {<<27>>, <<28>>} THEN d.f.v[1] - 27
  ELSE IF AtLeast35(d.f.v) THEN (Number(d.f.v) - 35) % 2
  ELSE -1

\* secp256k1 recovers the signer from the signed digest and signature only.
ecdsa_recover(w, d) ==
  IF /\ signing_bytes(d) = Signed(w) /\ recid(d) = w.parity
     /\ d.f.r = w.r /\ d.f.s = w.s
  THEN "signer" ELSE "other"

----------------------------------------------------------------------------
(* The address of a new contract and the key of an account.                *)

\* A plausible slip: RLP's single byte form for 128 as well.
rlp_encode_bytes_off_by_one(data) ==
  IF Len(data) = 1 /\ data[1] <= 128 THEN data ELSE <<128 + Len(data)>> \o data

rlp_encode_bytes(data) ==
  IF Len(data) = 1 /\ data[1] <= 127 THEN data ELSE <<128 + Len(data)>> \o data

rlp_encode_uint64(value) ==
  IF value = <<>> THEN <<128>> ELSE rlp_encode_bytes(value)

rlp_encode_list(payload) == <<192 + Len(payload)>> \o payload

\* The bytes evmdb_evm_compute_create_address hashes.
evmdb_evm_compute_create_address(sender, nonce) ==
  rlp_encode_list(rlp_encode_bytes(sender) \o rlp_encode_uint64(nonce))

addr_to_hex(addr) == evmdb_hex_encode(addr)

\* The 20 bytes in tx->from.
Address(f) == IF f = "signer" THEN Signer ELSE [i \in 1 .. 20 |-> 255]

----------------------------------------------------------------------------
Init ==
  /\ wallet \in WalletTxs /\ style \in Styles
  /\ pc = "text" /\ from = "none" /\ raw = <<>>
  /\ tx = [ok |-> FALSE, type |-> LEGACY, f |-> Zeroed]
  /\ created = <<>> /\ key = <<>> /\ asked = {}

decode_raw_hex ==
  /\ pc = "text"
  /\ \E text \in {Written(Raw(wallet), style)} :
     \E d \in {evmdb_hex_decode(text, Len(text) \div 2)} :
       /\ raw' = d.bytes
       /\ pc' = IF d.bytes # <<>> THEN "raw" ELSE "rejected"
  /\ UNCHANGED <<wallet, style, tx, from, created, key, asked>>

evmdb_tx_decode ==
  /\ pc = "raw"
  /\ tx' = decode(raw)
  /\ pc' = IF tx'.ok THEN "decoded" ELSE "rejected"
  /\ UNCHANGED <<wallet, style, raw, from, created, key, asked>>

evmdb_tx_recover_sender ==
  /\ pc = "decoded"
  /\ \/ /\ tx.type # EIP2930 /\ recid(tx) # -1
        /\ pc' = "recovered" /\ from' = ecdsa_recover(wallet, tx)
     \/ /\ tx.type = EIP2930 \/ recid(tx) = -1
        /\ pc' = "rejected" /\ UNCHANGED from
  /\ UNCHANGED <<wallet, style, raw, tx, created, key, asked>>

\* evmdb_evm_execute_tx accepts the transaction (TxPipeline has its checks): the
\* contract's address is computed and the nonce stored under the sender's key.
evmdb_evm_execute_tx ==
  /\ pc = "recovered"
  /\ pc' = "executed"
  /\ created' = IF tx.f.to = <<>>
                THEN evmdb_evm_compute_create_address(Address(from), tx.f.nonce)
                ELSE <<>>
  /\ key' = addr_to_hex(Address(from))
  /\ UNCHANGED <<wallet, style, raw, tx, from, asked>>

\* eth_getTransactionCount for the wallet's own address, in any style; <<>> is
\* the answer "invalid address", for which nothing is read.
handle_get_transaction_count ==
  /\ pc = "executed"
  /\ \E st \in Styles :
     \E addr \in {evmdb_hex_decode(Written(Signer, st), 20)} :
       asked' = asked \cup
         {IF Len(addr.bytes) = 20 THEN addr_to_hex(addr.bytes) ELSE <<>>}
  /\ UNCHANGED <<wallet, style, pc, raw, tx, from, created, key>>

Next ==
  \/ decode_raw_hex \/ evmdb_tx_decode \/ evmdb_tx_recover_sender
  \/ evmdb_evm_execute_tx \/ handle_get_transaction_count

Spec == Init /\ [][Next]_vars

----------------------------------------------------------------------------
\* No transaction is ever executed for an address that did not sign it: when
\* evmdb_tx_recover_sender succeeds, the digest it rebuilt is byte for byte
\* the one the wallet signed, whatever the type and the field widths.
SenderIsSigner == pc \in {"recovered", "executed"} => from = "signer"

\* What the executor will act on is what was signed: every field
\* evmdb_tx_decode stores has the wallet's value, at every width.
DecodesAsSigned ==
  pc \in {"recovered", "executed"} =>
    /\ tx.type = wallet.type
    /\ \A f \in {"chain_id", "nonce", "fee", "gas_limit", "to", "value", "data"} :
         tx.f[f] = wallet[f]
    /\ tx.type = EIP1559 => tx.f.tip = wallet.tip

\* Legacy transactions, with and without a chain id, and EIP-1559 ones
\* without an access list get through the decoder and the recovery.
SupportedIsAccepted ==
  (wallet.type = LEGACY \/ (wallet.type = EIP1559 /\ wallet.accessList = <<>>))
    => pc # "rejected"

\* The contract a transaction creates is where its sender expects it: the
\* bytes evmdb_evm_compute_create_address hashes are the RLP of the pair
\* (sender, nonce) the wallet signed, for every width of the nonce, though
\* executor.c has RLP routines of its own.
ContractAddressIsStandard ==
  pc = "executed" /\ wallet.to = <<>> =>
    created = RlpList(<<RlpString(Signer), RlpString(wallet.nonce)>>)

\* A client finds the account its transaction changed however it writes the
\* address: with and without prefix, in small letters, in capitals or in the
\* mixed case of EIP-55, eth_getTransactionCount does not call it invalid and
\* reads the Redis key that evmdb_evm_execute_tx wrote.
EveryWritingNamesTheAccount == asked \subseteq {key}
=============================================================================
