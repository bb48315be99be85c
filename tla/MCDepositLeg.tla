---------------------------- MODULE MCDepositLeg ----------------------------
(* An instance of DepositLeg for TLC.                                      *)
EXTENDS DepositLeg

CONSTANTS i1, i2, d1, d2, e1, q1

\* A sale settled on-chain and one settled in fiat.
OneOnChainOneFiat ==
    [i \in Intents |->
       IF i = i1 THEN Unset
       ELSE [quoteId |-> q1, fxRate |-> 4, local |-> [value |-> 4, currency |-> "COP"]]]
SameExecution == [i \in Intents |-> e1]
\* A deposit in the right amount and one that is short.
RightAndShort == [d \in Deposits |-> IF d = d1 THEN 2 ELSE 1]
\* The issuer may decline the first; it overlooks that the second is short.
DeclineOrOverlook ==
    [d \in Deposits |->
       {Authorized} \cup
         IF d = d1 THEN {[case |-> "unprocessable", disposition |-> "RETURNED_TO_SENDER",
                          reason |-> "ISSUER_DECLINED"]}
                   ELSE {}]
EthAndBsc == [d \in Deposits |-> IF d = d1 THEN "ETH" ELSE "BSC"]
=============================================================================
