---------------------------- MODULE FeeCollector ----------------------------
(* The fee collector (fee-collector/src/lib.rs): pools the admin authorized  *)
(* push protocol fees while the switch is on, the admin withdraws them. Each *)
(* token's contract moves the amounts; anyone may also send it to the        *)
(* collector without a deposit.                                              *)
EXTENDS Integers

CONSTANTS FeePools, FeeTokens,
          Collector,        \* the contract's own address
          Treasury,
          MaxFee            \* bound: what a pool holds of a token at first

Holders == FeePools \cup {Collector, Treasury}

ASSUME FeeAssumption == /\ MaxFee \in Nat
                        /\ Collector \notin FeePools /\ Treasury \notin FeePools
                        /\ Collector # Treasury

VARIABLES feeOn,          \* FEE_ON
          authorized,     \* AuthorizedPool
          book,           \* Balance(token)
          wallet          \* what each holder has of each token

feeVars == <<feeOn, authorized, book, wallet>>

FeeInit ==
    /\ feeOn = FALSE
    /\ authorized = {}
    /\ book = [t \in FeeTokens |-> 0]
    /\ wallet = [h \in Holders |-> [t \in FeeTokens |-> IF h \in FeePools THEN MaxFee ELSE 0]]

\* The token contract's transfer.
Moved(from, to, t, amount) ==
    IF from = to THEN wallet
    ELSE [wallet EXCEPT ![from][t] = @ - amount, ![to][t] = @ + amount]

SetFeeSwitch == /\ feeOn' = ~feeOn
                /\ UNCHANGED <<authorized, book, wallet>>

SetAuthorizedPool(p) ==
    /\ authorized' = IF p \in authorized THEN authorized \ {p} ELSE authorized \cup {p}
    /\ UNCHANGED <<feeOn, book, wallet>>

\* A deposit is a no-op while the switch is off.
DepositProtocolFees(t, from, amount) ==
    /\ amount > 0
    /\ from \in authorized
    /\ feeOn
    /\ amount <= wallet[from][t]
    /\ wallet' = Moved(from, Collector, t, amount)
    /\ book' = [book EXCEPT ![t] = @ + amount]
    /\ UNCHANGED <<feeOn, authorized>>

\* A withdrawal that leaves the book as it was.
CollectKeepsBook(t, to) ==
    /\ book[t] > 0
    /\ book[t] <= wallet[Collector][t]
    /\ wallet' = Moved(Collector, to, t, book[t])
    /\ UNCHANGED <<feeOn, authorized, book>>

CollectProtocolFees(t, to) ==
    /\ book[t] > 0
    /\ book[t] <= wallet[Collector][t]
    /\ wallet' = Moved(Collector, to, t, book[t])
    /\ book' = [book EXCEPT ![t] = 0]
    /\ UNCHANGED <<feeOn, authorized>>

\* A transfer to the collector that is no deposit.
Donate(t, from, amount) ==
    /\ amount > 0 /\ amount <= wallet[from][t]
    /\ wallet' = Moved(from, Collector, t, amount)
    /\ UNCHANGED <<feeOn, authorized, book>>

FeeNext ==
    \/ SetFeeSwitch
    \/ \E p \in FeePools : SetAuthorizedPool(p)
    \/ \E t \in FeeTokens, p \in FeePools, n \in 1..MaxFee :
          DepositProtocolFees(t, p, n) \/ Donate(t, p, n)
    \/ \E t \in FeeTokens, to \in Holders : CollectProtocolFees(t, to)

FeeSpec == FeeInit /\ [][FeeNext]_feeVars

\* Whatever the order of deposits, donations, withdrawals (to the collector
\* itself too), revocations and switches, the collector holds what its books
\* promise the admin, so that collect_protocol_fees never fails in the token.
BooksCovered == \A t \in FeeTokens : book[t] <= wallet[Collector][t]

\* Balances and books are amounts.
FeeTypeOK ==
    /\ feeOn \in BOOLEAN
    /\ authorized \subseteq FeePools
    /\ book \in [FeeTokens -> Nat]
    /\ wallet \in [Holders -> [FeeTokens -> Nat]]
=============================================================================
