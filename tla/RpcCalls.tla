------------------------------ MODULE RpcCalls ------------------------------
(***************************************************************************)
(* What the keeper may rely on when it calls execute of the RPC client:    *)
(* the operation is invoked at least once and at most MaxRetries times,    *)
(* one invocation after the other, and the call settles.  It is rejected   *)
(* only when every allowed invocation has been tried.                      *)
(***************************************************************************)
EXTENDS Integers

CONSTANTS Callers, MaxRetries

VARIABLES
    phase,    \* caller -> where its call is
    invoked   \* caller -> how often the operation of its call was invoked

callVars == <<phase, invoked>>

Init ==
    /\ phase = [c \in Callers |-> "idle"]
    /\ invoked = [c \in Callers |-> 0]

Begin(c) ==
    /\ phase[c] # "pending"
    /\ phase' = [phase EXCEPT ![c] = "pending"]
    /\ invoked' = [invoked EXCEPT ![c] = 1]

InvokeAgain(c) ==
    /\ phase[c] = "pending"
    /\ invoked[c] < MaxRetries
    /\ invoked' = [invoked EXCEPT ![c] = @ + 1]
    /\ UNCHANGED phase

Resolve(c) ==
    /\ phase[c] = "pending"
    /\ phase' = [phase EXCEPT ![c] = "resolved"]
    /\ UNCHANGED invoked

Reject(c) ==
    /\ phase[c] = "pending"
    /\ invoked[c] = MaxRetries
    /\ phase' = [phase EXCEPT ![c] = "rejected"]
    /\ UNCHANGED invoked

Progress(c) == InvokeAgain(c) \/ Resolve(c) \/ Reject(c)

Next == \E c \in Callers : Begin(c) \/ Progress(c)

SpecSafety == Init /\ [][Next]_callVars

Spec == SpecSafety /\ \A c \in Callers : WF_callVars(Progress(c))

=============================================================================
