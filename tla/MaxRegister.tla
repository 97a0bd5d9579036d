---------------------------- MODULE MaxRegister ----------------------------
(***************************************************************************)
(* What a reader of the ledger checkpoint may rely on, apart from how      *)
(* IndexerCursorService keeps it: one register that holds a value somebody *)
(* offered, or nothing, and that only ever replaces it by a larger one.    *)
(* The register is volatile: it may forget.                                *)
(***************************************************************************)
EXTENDS Integers

CONSTANTS Ledgers, NoLedger

VARIABLES value, offered

registerVars == <<value, offered>>

RegisterInit ==
    /\ offered \subseteq Ledgers
    /\ value \in offered \cup {NoLedger}

Offer(ledger) ==
    /\ offered' = offered \cup {ledger}
    /\ UNCHANGED value

\* The register may skip a value that was offered, it never invents one.
Raise(ledger) ==
    /\ ledger \in offered
    /\ ledger > value
    /\ value' = ledger
    /\ UNCHANGED offered

Forget ==
    /\ value' = NoLedger
    /\ UNCHANGED offered

RegisterNext == Forget \/ \E ledger \in Ledgers : Offer(ledger) \/ Raise(ledger)

RegisterSpec == RegisterInit /\ [][RegisterNext]_registerVars
=============================================================================
