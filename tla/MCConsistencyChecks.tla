-------------------------- MODULE MCConsistencyChecks --------------------------
(* Two callers; five values of three facts from two batches.  Facts 1 and 2    *)
(* have values that differ between the batches; the values of fact 3 agree.    *)
EXTENDS ConsistencyChecks

Value(id, fact, batch, key) ==
    [id |-> id, fact |-> fact, batch |-> batch, key |-> key, links |-> {id}, chars |-> 2]
Conflicting ==
    {Value(1, 1, 1, 1), Value(2, 1, 2, 2), Value(3, 2, 1, 1), Value(4, 2, 2, 2),
     Value(5, 3, 1, 1), Value(6, 3, 2, 1)}
(* ... and an extraction whose values all agree: its plan is one empty batch.   *)
MCExtracted == {Conflicting, {v \in Conflicting : v.fact = 3}}
MCConfig == [candidates |-> 1, chars |-> 6]
==============================================================================
