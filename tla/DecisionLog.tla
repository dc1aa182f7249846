----------------------------- MODULE DecisionLog ------------------------------
(***************************************************************************)
(* What the review ledger promises: the decisions about an assessment are  *)
(* a log that only ever grows at its end, and an entry is made by somebody *)
(* who is a reviewer of the project at that moment.                        *)
(***************************************************************************)
EXTENDS Sequences

CONSTANTS Assessments, Users, Contents

VARIABLES
    log,       \* the decisions about each assessment, oldest first
    allowed    \* the present reviewers

logVars == <<log, allowed>>

Init ==
    /\ log = [a \in Assessments |-> << >>]
    /\ allowed \subseteq Users

Decide(a, user, content) ==
    /\ user \in allowed
    /\ log' = [log EXCEPT ![a] = Append(@, [actor |-> user, content |-> content])]
    /\ UNCHANGED allowed

Reappoint ==
    /\ allowed' \in SUBSET Users
    /\ UNCHANGED log

Next ==
    \/ \E a \in Assessments, user \in Users, content \in Contents :
         Decide(a, user, content)
    \/ Reappoint

Spec == Init /\ [][Next]_logVars
==============================================================================
