------------------------------ MODULE RequestLog ------------------------------
(***************************************************************************)
(* What the inference ledger promises of each request to a model: at most  *)
(* one call is open at any time, a call may be given up, and once a call   *)
(* was answered the answer stays and the request is never sent again.      *)
(***************************************************************************)
EXTENDS Naturals

CONSTANT Requests

VARIABLES
    calls,    \* how often the request was sent
    phase     \* "idle", "open" or "answered"

logVars == <<calls, phase>>

Init ==
    /\ calls = [q \in Requests |-> 0]
    /\ phase = [q \in Requests |-> "idle"]

Send(q) ==
    /\ phase[q] = "idle"
    /\ calls' = [calls EXCEPT ![q] = @ + 1]
    /\ phase' = [phase EXCEPT ![q] = "open"]

GiveUp(q) ==
    /\ phase[q] = "open"
    /\ phase' = [phase EXCEPT ![q] = "idle"]
    /\ UNCHANGED calls

Answer(q) ==
    /\ phase[q] = "open"
    /\ phase' = [phase EXCEPT ![q] = "answered"]
    /\ UNCHANGED calls

Next == \E q \in Requests : Send(q) \/ GiveUp(q) \/ Answer(q)

Spec == Init /\ [][Next]_logVars
==============================================================================
