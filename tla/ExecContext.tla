---------------------------- MODULE ExecContext ----------------------------
(***************************************************************************)
(* The storage overlay of one execution (evm_exec_context_t in             *)
(* src/src/evm/executor.c): an array of writes, scanned linearly, that     *)
(* buffers SSTOREs until the execution has succeeded.                      *)
(***************************************************************************)
EXTENDS Integers, Sequences

\* storage_write_t: <<address, key>> as one slot, and the value.
Write(slot, value) == [slot |-> slot, value |-> value]

Overlays(writes, slot) == \E i \in DOMAIN writes : writes[i].slot = slot

\* The scan of exec_context_get_write runs from the last write down.
LastIndex(writes, slot) ==
  CHOOSE i \in DOMAIN writes :
    /\ writes[i].slot = slot
    /\ \A j \in DOMAIN writes : writes[j].slot = slot => j <= i

\* The scan of exec_context_set_write runs from the first write up.
FirstIndex(writes, slot) ==
  CHOOSE i \in DOMAIN writes :
    /\ writes[i].slot = slot
    /\ \A j \in DOMAIN writes : writes[j].slot = slot => i <= j

\* The value found; only meaningful when Overlays(writes, slot).
exec_context_get_write(writes, slot) == writes[LastIndex(writes, slot)].value

exec_context_set_write_no_key(writes, slot, value) ==
  Append(writes, Write(<<slot[1], 0>>, value))

exec_context_set_write(writes, slot, value) ==
  IF Overlays(writes, slot)
    THEN [writes EXCEPT ![FirstIndex(writes, slot)] = Write(slot, value)]
    ELSE Append(writes, Write(slot, value))

\* No slot is buffered twice: what makes the two scans agree.
NoDuplicates(writes) ==
  \A i, j \in DOMAIN writes : writes[i].slot = writes[j].slot => i = j

=============================================================================
