---------------------------- MODULE MCFiatReceipt ----------------------------
(* An instance of FiatReceipt for TLC.                                     *)
EXTENDS FiatReceipt

CONSTANTS i1, t2

OneIntent == [e \in Executions |-> i1]
SameAmount == [t \in Transfers |-> 4]

\* The bank keeps a fee on one of the transfers.
OneFee == [t \in Transfers |-> IF t = t2 THEN 3 ELSE 4]
=============================================================================
