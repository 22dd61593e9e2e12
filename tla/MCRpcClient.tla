---------------------------- MODULE MCRpcClient ----------------------------
(***************************************************************************)
(* Instances of RpcClient: endpoints that may do anything, and a pool with *)
(* one endpoint that answers.  A time unit stands for one request timeout. *)
(***************************************************************************)
EXTENDS RpcClient

\* The weights of the README's example, in its order.
MCWeight == [e \in Endpoints |-> <<10, 8, 5>>[e + 1]]

AllFlaky == [e \in Endpoints |-> Outcomes]

\* The last endpoint answers, the others are dead.
OnlyLastAnswers ==
    [e \in Endpoints |-> IF e = N - 1 THEN {"ok"} ELSE {"network", "other"}]

MCPatterns == {AllFlaky, OnlyLastAnswers}

=============================================================================
