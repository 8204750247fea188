------------------------------ MODULE Accounts ------------------------------
(***************************************************************************)
(* What the server promises the senders that keep one transaction in       *)
(* flight, whatever the threads of other connections do and whenever the   *)
(* process is restarted: an admissible transaction with the sender's next  *)
(* nonce takes effect once and for all, a creation leaves its code, and    *)
(* its receipt follows or, after a crash, never comes.                     *)
(***************************************************************************)
EXTENDS Integers

CONSTANTS
  Hashes, Tx, None,
  Serial,      \* the senders the promise is made to
  Admissible   \* the transactions the checks other than the nonce let pass

VARIABLES
  nonce,       \* the next nonce of each sender
  done,        \* the transactions that took effect
  code,        \* the code each creation among them left
  certified    \* the transactions with a receipt

accountVars == <<nonce, done, code, certified>>

Init ==
  /\ nonce = [s \in Serial |-> 0]
  /\ done = {} /\ code = [h \in {} |-> <<>>] /\ certified = {}

Execute(h) ==
  LET s == Tx[h].from
  IN /\ h \in Admissible \ done /\ s \in Serial /\ Tx[h].nonce = nonce[s]
     /\ nonce' = [nonce EXCEPT ![s] = @ + 1]
     /\ done' = done \cup {h}
     /\ code' = IF Tx[h].to # None THEN code
                ELSE [g \in DOMAIN code \cup {h} |->
                        IF g = h THEN Tx[h].data ELSE code[g]]
     /\ UNCHANGED certified

Certify(h) ==
  /\ h \in done \ certified
  /\ certified' = certified \cup {h}
  /\ UNCHANGED <<nonce, done, code>>

Next == \E h \in Hashes : Execute(h) \/ Certify(h)

Spec == Init /\ [][Next]_accountVars
=============================================================================
