---------------------------- MODULE MCRpcServer ----------------------------
(* Small instances of RpcServer for TLC. *)
EXTENDS RpcServer
CONSTANTS c1, c2

Request(kind, mark, head, body) ==
  [kind |-> kind, mark |-> mark, head |-> head, body |-> body]

\* With a buffer of 5: a request that fits it, one that does so only without
\* its headers, one whose headers are longer than its body, one without a
\* Content-Length and a preflight.
Various ==
  {Request("sized", 1, 2, 2), Request("sized", 1, 2, 3), Request("sized", 1, 3, 1),
   Request("plain", 1, 1, 1), Request("options", 2, 2, 0)}
Preflight == {Request("options", 1, 1, 0)}
\* Whose headers cannot be split.
OneSized == {Request("sized", 1, 1, 3)}

\* One client sends any of the requests, the other a preflight.
MCRequests == [c \in Conns |-> IF c = c1 THEN Various ELSE Preflight]
MCOneSized == [c \in Conns |-> OneSized]
=============================================================================
