------------------------------ MODULE TxStatus -------------------------------
(* A transaction of the web application, from the wallet to the ledger, and  *)
(* the one indicator all of them report to: context/TransactionStatusContext *)
(* .tsx, the submit of hooks/useAddLiquidity.ts, lib/mev-submission.ts and   *)
(* the API's transactions.service.ts. The other hooks that submit have the   *)
(* same shape, but for useRerangeLiquidity.ts: its catch reads an undefined  *)
(* msg (:135) and throws before it reports, so a failure there stays on the  *)
(* indicator as it was. The signer, Horizon and the Soroban RPC node answer  *)
(* from outside.                                                             *)
EXTENDS FiniteSets, Naturals

CONSTANTS ApiFlows, \* transactions sent through the API
          MevFlows, \* transactions sent to the protected RPC node
          MaxReloads \* bound: reloads of the page

ASSUME TxAssumption == ApiFlows \cap MevFlows = {} /\ MaxReloads \in Nat

TxFlows == ApiFlows \cup MevFlows
NoTx == [status |-> "none"]

VARIABLES stage,  \* where the code of a flow is
          ledger, \* what became of its transaction
          answer, \* the response on its way back, of Horizon or of the RPC node
          shown,  \* pendingTx: NoTx or [flow, status]
          kept,   \* the same in sessionStorage
          polls,  \* confirmations waited for
          reloads

txVars == <<stage, ledger, answer, shown, kept, polls, reloads>>

TxInit ==
    /\ stage = [f \in TxFlows |-> "idle"]
    /\ ledger = [f \in TxFlows |-> "absent"]
    /\ answer = [f \in TxFlows |-> "none"]
    /\ shown = NoTx
    /\ kept = NoTx
    /\ polls = {}
    /\ reloads = 0

\* The poll effect: every report disposes of the poll before it, and a pending
\* transaction starts its own.
Polling(tx) == IF tx.status = "pending" THEN {tx.flow} ELSE {}

\* reportTx, with the effect it brings about.
Report(tx) == shown' = tx /\ kept' = tx /\ polls' = Polling(tx)

Status(f, status) == [flow |-> f, status |-> status]

-----------------------------------------------------------------------------
(* A flow *)

Start(f) ==
    /\ stage[f] = "idle"
    /\ stage' = [stage EXCEPT ![f] = "signing"]
    /\ Report(Status(f, "signing"))
    /\ UNCHANGED <<ledger, answer, reloads>>

\* The wallet signs: the envelope is sent. It may not reach the ledger.
Sign(f) ==
    /\ stage[f] = "signing"
    /\ stage' = [stage EXCEPT ![f] = "submitting"]
    /\ answer' = [answer EXCEPT ![f] = "due"]
    /\ Report(Status(f, "submitting"))
    /\ UNCHANGED <<ledger, reloads>>

\* The wallet refuses or throws, before anything was sent.
Refuse(f) ==
    /\ stage[f] = "signing"
    /\ stage' = [stage EXCEPT ![f] = "done"]
    /\ Report(Status(f, "error"))
    /\ UNCHANGED <<ledger, answer, reloads>>

\* Horizon answers once the transaction is in a ledger, successful or not, or
\* refuses it; the RPC node answers as soon as it has the envelope. Either may
\* take it and the response be lost.
Remote(f) ==
    /\ answer[f] = "due"
    /\ \E outcome \in {"refused", "applied", "failed", "held"} :
        /\ outcome = "held" => f \in MevFlows
        /\ outcome \in {"applied", "failed"} => f \in ApiFlows
        /\ ledger' = [ledger EXCEPT ![f] = IF outcome = "refused" THEN @ ELSE outcome]
        /\ \E reply \in {outcome, "lost"} : answer' = [answer EXCEPT ![f] = reply]
    /\ UNCHANGED <<stage, shown, kept, polls, reloads>>

\* A ledger takes the envelope the RPC node held, which may never happen.
Include(f) ==
    /\ ledger[f] = "held"
    /\ \E outcome \in {"applied", "failed"} : ledger' = [ledger EXCEPT ![f] = outcome]
    /\ UNCHANGED <<stage, answer, shown, kept, polls, reloads>>

\* A bug: any 2xx answer counts as a confirmation.
AcceptedLoosely(reply) == IF reply \in {"applied", "failed"} THEN "success" ELSE "error"

\* submitTransaction: success needs `successful: true` of the API.
Accepted(reply) == IF reply = "applied" THEN "success" ELSE "error"

\* The response arrives. A transaction the RPC node holds is pending (onPending).
Answered(f) ==
    /\ stage[f] = "submitting"
    /\ answer[f] \notin {"none", "due"}
    /\ stage' = [stage EXCEPT ![f] = "done"]
    /\ Report(Status(f, IF answer[f] = "held" THEN "pending" ELSE Accepted(answer[f])))
    /\ UNCHANGED <<ledger, answer, reloads>>

-----------------------------------------------------------------------------
(* The indicator *)

\* waitForRpcConfirmation asks until the transaction is found, through failures.
Confirmed(f) ==
    /\ f \in polls
    /\ ledger[f] \in {"applied", "failed"}
    /\ Report([shown EXCEPT !.status = Accepted(ledger[f])])
    /\ UNCHANGED <<stage, ledger, answer, reloads>>

\* The user, or twelve seconds after the end.
Dismiss ==
    /\ shown # NoTx
    /\ shown.status \in {"success", "error"}
    /\ Report(NoTx)
    /\ UNCHANGED <<stage, ledger, answer, reloads>>

\* A bug: whatever was shown is shown again.
RestoreAll(tx) == tx

\* Restored: an end, or a wait that the poll takes up; never a signature or a
\* submission, whose promise is gone.
Restored(tx) == IF tx.status \in {"success", "error", "pending"} THEN tx ELSE NoTx

\* The page is loaded again: the code of the flows is gone.
Reload ==
    /\ reloads < MaxReloads
    /\ reloads' = reloads + 1
    /\ stage' = [f \in TxFlows |-> IF stage[f] = "idle" THEN "idle" ELSE "done"]
    /\ shown' = Restored(kept)
    /\ kept' = Restored(kept)
    /\ polls' = Polling(shown')
    /\ UNCHANGED <<ledger, answer>>

TxNext ==
    \/ \E f \in TxFlows : Start(f) \/ Sign(f) \/ Refuse(f) \/ Remote(f) \/ Include(f)
                          \/ Answered(f) \/ Confirmed(f)
    \/ Dismiss
    \/ Reload

Statuses == {"signing", "submitting", "pending", "success", "error"}

TxTypeOK ==
    /\ stage \in [TxFlows -> {"idle", "signing", "submitting", "done"}]
    /\ ledger \in [TxFlows -> {"absent", "held", "applied", "failed"}]
    /\ answer \in [TxFlows -> {"none", "due", "refused", "applied", "failed", "held", "lost"}]
    /\ {shown, kept} \subseteq [flow : TxFlows, status : Statuses] \cup {NoTx}
    /\ polls \subseteq TxFlows
    /\ reloads \in 0..MaxReloads

-----------------------------------------------------------------------------
\* What the indicator says is so, over concurrent flows, reloads and lost answers:
\* a confirmed transaction is in the ledger, and one that is being signed, sent or
\* waited for has code running that will end it, so that the spinner cannot stay
\* (TransactionStatusContext.tsx 51-117, mev-submission.ts 205-221). An error says
\* less: a transaction whose answer was lost may have been applied.
IndicatorTrue ==
    /\ shown.status = "success" => ledger[shown.flow] = "applied"
    /\ shown.status \in {"signing", "submitting"} => stage[shown.flow] = shown.status
    /\ shown.status = "pending" => polls = {shown.flow}

=============================================================================
