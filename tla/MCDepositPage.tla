--------------------------- MODULE MCDepositPage ---------------------------
(* Files 1 and 2 are not in a folder, 3 and 4 are in one each; all but the  *)
(* second exist already.                                                    *)
EXTENDS DepositPage

MCFolder == [p \in Paths |-> IF p = 3 THEN <<1>> ELSE IF p = 4 THEN <<2>> ELSE <<>>]
MCName == [p \in Paths |-> p + 10]
=============================================================================
