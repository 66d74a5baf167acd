---------------------------- MODULE MCFactLedger ----------------------------
(* Instances of FactLedger for TLC: what the candidates are about. *)
EXTENDS FactLedger, TLC

CONSTANTS f1, f2, f3, f4, t1, t2

\* Every candidate is about the same topic.
SameTopic == [f \in Facts |-> t1]

\* The last candidate is about another topic than the rest.
OtherTopic == [f \in Facts |-> IF f = f4 THEN t2 ELSE t1]
=============================================================================
