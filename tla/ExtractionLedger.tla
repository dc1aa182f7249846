-------------------------- MODULE ExtractionLedger ---------------------------
(***************************************************************************)
(* The promise of the processing job table of one revision, without        *)
(* workers, leases or requests: attempts are opened one after the other,   *)
(* at most one is active, a closed attempt is never opened again, and a    *)
(* result enters the append-only list of results together with the         *)
(* completion of the active attempt that produced it.                      *)
(***************************************************************************)
EXTENDS Naturals, Sequences

CONSTANTS MaxAttempts, Outcomes

VARIABLES
    opened,    \* the number of attempts so far
    entry,     \* their state
    results    \* outcomes delivered, oldest first

ledgerVars == <<opened, entry, results>>

Numbers == 1..MaxAttempts
Active  == {a \in Numbers : entry[a] = "active"}

Init ==
    /\ opened = 0
    /\ entry = [a \in Numbers |-> "absent"]
    /\ results = << >>

\* A new attempt takes the next number.  One that is still active is given up
\* in the same step.
GivenUp == [a \in Numbers |-> IF a \in Active THEN "failed" ELSE entry[a]]

Open ==
    /\ opened < MaxAttempts
    /\ opened' = opened + 1
    /\ entry' = [GivenUp EXCEPT ![opened + 1] = "active"]
    /\ UNCHANGED results

GiveUp(a) ==
    /\ a \in Active
    /\ entry' = [entry EXCEPT ![a] = "failed"]
    /\ UNCHANGED <<opened, results>>

Deliver(a) ==
    /\ a \in Active
    /\ entry' = [entry EXCEPT ![a] = "completed"]
    /\ \E outcome \in Outcomes : results' = Append(results, outcome)
    /\ UNCHANGED opened

Next == Open \/ \E a \in Numbers : GiveUp(a) \/ Deliver(a)

Spec == Init /\ [][Next]_ledgerVars
==============================================================================
