-------------------------- MODULE MCDepositPipeline --------------------------
(* Instances of DepositPipeline for TLC.                                    *)
EXTENDS DepositPipeline

CONSTANTS d1, d2, n1, n2, n3, c1, c2

(* Files 1 and 2 are deposited together, file 3 by itself.                  *)
TwoDeposits == [f \in Files |-> IF f <= 2 THEN d1 ELSE d2]

(* Every file has a node and a content of its own.                          *)
OwnNodes == [f \in Files |-> CASE f = 1 -> n1 [] f = 2 -> n2 [] OTHER -> n3]
OwnContents == [f \in Files |-> IF f = 1 THEN c1 ELSE c2]

(* File 3 goes where file 1 is, with another content.                       *)
Replacing == [f \in Files |-> IF f = 2 THEN n2 ELSE n1]
=============================================================================
