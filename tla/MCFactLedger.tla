---------------------------- MODULE MCFactLedger ----------------------------
(* Instances of FactLedger for TLC.                                            *)
EXTENDS FactLedger

P(m, h, e) == [mention |-> m, hash |-> h, evidence |-> e]
(* Two runs that mention two subjects in opposite order, or one of them the    *)
(* same subject twice: both entities may come to be called x.                  *)
MCResponses == [run \in {"run1", "run2"} |->
    IF run = "run1" THEN <<P("a", "h1", "e1"), P("b", "h1", "e1")>>
    ELSE <<P("b", "h1", "e1"), P("x", "h1", "e1")>>]
MCEntities == {[name |-> "a", alias |-> "x"], [name |-> "b", alias |-> "x"]}
=============================================================================
