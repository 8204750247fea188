---------------------------- MODULE AtomicStore ----------------------------
(***************************************************************************)
(* What the Redis state backend promises its callers, and what RedisState  *)
(* takes for granted: every call takes effect at one instant between its   *)
(* start and its end and returns what the store held at that instant, or   *)
(* it fails.  The first failure breaks the store for good: from then on    *)
(* calls fail without an effect, except that the command that was under    *)
(* way may still take effect once, later.                                  *)
(***************************************************************************)
EXTENDS Naturals

CONSTANTS Threads, Values, CanLose

VARIABLES
  key,         \* the stored value
  phase,       \* of each thread's call: "idle", "pending" or "applied"
  cmd,         \* the command of each thread's call
  answer,      \* the result of an applied call that has not returned
  reply,       \* what each thread's last call returned
  broken,      \* a call has failed
  late         \* the command that may still take effect after the failure

vars == <<key, phase, cmd, answer, reply, broken, late>>

Get == [op |-> "get", v |-> 0]
Cmds == {Get} \cup [op : {"set"}, v : Values]
Failure == [op |-> "lost", v |-> 0]

Init ==
  /\ key = 0 /\ broken = FALSE /\ late = {}
  /\ phase = [t \in Threads |-> "idle"]
  /\ cmd = [t \in Threads |-> Get]
  /\ answer = [t \in Threads |-> Failure]
  /\ reply = [t \in Threads |-> Failure]

Result(c) == IF c.op = "get" THEN [op |-> "get", v |-> key] ELSE c

Call(t, c) ==
  /\ phase[t] = "idle" /\ phase' = [phase EXCEPT ![t] = "pending"]
  /\ cmd' = [cmd EXCEPT ![t] = c]
  /\ reply' = [reply EXCEPT ![t] = Failure]
  /\ UNCHANGED <<key, answer, broken, late>>

Apply(t) ==
  /\ phase[t] = "pending" /\ ~broken
  /\ phase' = [phase EXCEPT ![t] = "applied"]
  /\ answer' = [answer EXCEPT ![t] = Result(cmd[t])]
  /\ key' = Result(cmd[t]).v
  /\ UNCHANGED <<cmd, reply, broken, late>>

Return(t) ==
  /\ phase[t] = "applied" /\ phase' = [phase EXCEPT ![t] = "idle"]
  /\ reply' = [reply EXCEPT ![t] = answer[t]]
  /\ answer' = [answer EXCEPT ![t] = Failure]
  /\ UNCHANGED <<key, cmd, broken, late>>

Fail(t) ==
  /\ phase[t] # "idle" /\ (broken \/ CanLose)
  /\ phase' = [phase EXCEPT ![t] = "idle"]
  /\ answer' = [answer EXCEPT ![t] = Failure]
  /\ broken' = TRUE
  /\ late' \in IF phase[t] = "pending" /\ ~broken THEN {{}, {cmd[t]}} ELSE {late}
  /\ UNCHANGED <<key, cmd, reply>>

LateEffect ==
  /\ \E c \in late : key' = Result(c).v
  /\ late' = {}
  /\ UNCHANGED <<phase, cmd, answer, reply, broken>>

Next ==
  \/ \E t \in Threads :
       \/ \E c \in Cmds : Call(t, c)
       \/ Apply(t) \/ Return(t) \/ Fail(t)
  \/ LateEffect

Spec == Init /\ [][Next]_vars

=============================================================================
