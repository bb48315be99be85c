---------------------------- MODULE SalePromise ----------------------------
(***************************************************************************)
(* What a sale promises its customer and its shop, whoever reports what to *)
(* whom and however often: a transfer pays for one sale at most, and what  *)
(* was transferred either goes on to settle the sale it paid for or goes   *)
(* back to its sender, never both.                                         *)
(***************************************************************************)
CONSTANTS
    Sales,
    Transferred,
    NoTransfer     \* stands for none of Transferred

VARIABLES
    stage,   \* stage[i]: what has become of sale i
    paidBy,  \* paidBy[i]: the transfer put down to sale i, or NoTransfer
    money    \* money[d]: where the amount of transfer d is

vars == <<stage, paidBy, money>>

Init ==
    /\ stage = [i \in Sales |-> "none"]
    /\ paidBy = [i \in Sales |-> NoTransfer]
    /\ money = [d \in Transferred |-> "held"]

Settling(i) == stage[i] = "authorized" \/ stage[i] = "settled"

\* The customer is shown where to pay, or never will be.
Offer(i) ==
    /\ stage[i] = "none"
    /\ \E answer \in {"offered", "declined"} : stage' = [stage EXCEPT ![i] = answer]
    /\ UNCHANGED <<paidBy, money>>

Expire(i) ==
    /\ stage[i] = "offered"
    /\ stage' = [stage EXCEPT ![i] = "expired"]
    /\ UNCHANGED <<paidBy, money>>

\* A transfer still held, and put down to no other sale, decides the sale.
Pay(i, d) ==
    /\ stage[i] = "offered"
    /\ money[d] = "held"
    /\ \A j \in Sales : paidBy[j] # d
    /\ \E verdict \in {"authorized", "failed"} : stage' = [stage EXCEPT ![i] = verdict]
    /\ paidBy' = [paidBy EXCEPT ![i] = d]
    /\ UNCHANGED money

\* Some sales' transfers go on together.
Forward(S) ==
    /\ S # {}
    /\ \A i \in S : Settling(i) /\ money[paidBy[i]] = "held"
    /\ money' = [d \in Transferred |-> IF \E i \in S : paidBy[i] = d
                                         THEN "forwarded" ELSE money[d]]
    /\ UNCHANGED <<stage, paidBy>>

\* A transfer that settles no sale goes back.
Return(d) ==
    /\ money[d] = "held"
    /\ \A i \in Sales : paidBy[i] = d => ~Settling(i)
    /\ money' = [money EXCEPT ![d] = "returned"]
    /\ UNCHANGED <<stage, paidBy>>

\* The sales whose transfers went on together are settled.
Settle(S) ==
    /\ S # {}
    /\ \A i \in S : stage[i] = "authorized" /\ money[paidBy[i]] = "forwarded"
    /\ stage' = [i \in Sales |-> IF i \in S THEN "settled" ELSE stage[i]]
    /\ UNCHANGED <<paidBy, money>>

Next ==
    \/ \E i \in Sales : Offer(i) \/ Expire(i) \/ \E d \in Transferred : Pay(i, d)
    \/ \E S \in SUBSET Sales : Forward(S) \/ Settle(S)
    \/ \E d \in Transferred : Return(d)

Spec == Init /\ [][Next]_vars

-----------------------------------------------------------------------------
\* Every variable holds what a sale can come to, and what settles was paid.
TypeOK ==
    /\ stage \in [Sales -> {"none", "offered", "declined", "expired",
                            "authorized", "failed", "settled"}]
    /\ paidBy \in [Sales -> Transferred \cup {NoTransfer}]
    /\ money \in [Transferred -> {"held", "forwarded", "returned"}]
    /\ \A i \in Sales : Settling(i) => paidBy[i] \in Transferred

\* What customer and shop may count on: a transfer pays for one sale, a settled
\* sale's transfer went on, and none went on but for a sale it settles.
MoneyIsWhereItBelongs ==
    /\ \A i, j \in Sales : i # j /\ paidBy[i] = paidBy[j] => paidBy[i] = NoTransfer
    /\ \A i \in Sales : stage[i] = "settled" => money[paidBy[i]] = "forwarded"
    /\ \A d \in Transferred : money[d] = "forwarded" =>
          \E i \in Sales : paidBy[i] = d /\ Settling(i)
=============================================================================
