----------------------------- MODULE WalletAuth -----------------------------
(* The nonce challenge of one wallet (auth/nonce.controller.ts and           *)
(* auth/auth.service.ts). Two Redis keys, the nonce and the failed attempts, *)
(* are shared by the requests in flight; a request runs alone between two    *)
(* awaits, so each Redis command is a step. Wallets share no key.            *)
EXTENDS Naturals, FiniteSets

CONSTANTS Nonces,        \* the values randomBytes returns
          Requests,      \* POST /auth/verify in flight at a time
          MaxNonceAttempts, \* AUTH_MAX_NONCE_ATTEMPTS
          MaxSubmits     \* bound: requests submitted

ASSUME AuthAssumption ==
    /\ MaxNonceAttempts \in Nat \ {0}
    /\ MaxSubmits \in Nat

VARIABLES issued,    \* nonces handed out so far; each is fresh
          stored,    \* auth:nonce:<wallet>: empty, or the current nonce
          attempts,  \* auth:nonce:attempts:<wallet>, and whether it has a TTL
          request,   \* where each request is
          submits,
          tokens     \* history: JWTs issued against each nonce

authVars == <<issued, stored, attempts, request, submits, tokens>>

Pcs == {"idle", "get", "incr", "expire", "lock", "unlock", "consume", "reset"}
Fresh == [pc |-> "idle", nonce |-> {}, signed |-> FALSE, count |-> 0]
NoCount == [n |-> 0, ttl |-> FALSE]

AuthInit ==
    /\ issued = {}
    /\ stored = {}
    /\ attempts = NoCount
    /\ request = [r \in Requests |-> Fresh]
    /\ submits = 0
    /\ tokens = [n \in Nonces |-> 0]

AtPc(r, pc) == request[r].pc = pc
GotoPc(r, pc) == request' = [request EXCEPT ![r].pc = pc]

\* The response is sent, whichever it is.
Answer(r) == request' = [request EXCEPT ![r] = Fresh]

-----------------------------------------------------------------------------
(* The store *)

\* issueNonce: the new nonce replaces the one before it; its attempts stay.
IssueNonce(n) ==
    /\ n \notin issued
    /\ issued' = issued \cup {n}
    /\ stored' = {n}
    /\ UNCHANGED <<attempts, request, submits, tokens>>

NonceExpires ==
    /\ stored # {}
    /\ stored' = {}
    /\ UNCHANGED <<issued, attempts, request, submits, tokens>>

AttemptsExpire ==
    /\ attempts.ttl
    /\ attempts' = NoCount
    /\ UNCHANGED <<issued, stored, request, submits, tokens>>

-----------------------------------------------------------------------------
(* verifyWallet *)

\* A request arrives, with the nonce it claims and a signature that fits or not.
Submit(r, n, signed) ==
    /\ submits < MaxSubmits
    /\ submits' = submits + 1
    /\ AtPc(r, "idle")
    /\ request' = [request EXCEPT ![r] = [Fresh EXCEPT !.pc = "get", !.nonce = {n}, !.signed = signed]]
    /\ UNCHANGED <<issued, stored, attempts, tokens>>

\* GET: 401 without a nonce; a wrong nonce or signature is a failed attempt.
Lookup(r) ==
    /\ AtPc(r, "get")
    /\ \/ stored = {} /\ Answer(r)
       \/ stored # {} /\ (stored # request[r].nonce \/ ~request[r].signed) /\ GotoPc(r, "incr")
       \/ stored # {} /\ stored = request[r].nonce /\ request[r].signed /\ GotoPc(r, "consume")
    /\ UNCHANGED <<issued, stored, attempts, submits, tokens>>

\* After the attempt is counted: nonce and counter go when it is the last one.
Counted(r, n) ==
    request' = [request EXCEPT ![r] =
                   IF n >= MaxNonceAttempts THEN [@ EXCEPT !.pc = "lock", !.count = n] ELSE Fresh]

\* INCR of registerFailedAttempt: the first attempt goes on to set the TTL.
CountAttempt(r) ==
    /\ AtPc(r, "incr")
    /\ attempts' = [attempts EXCEPT !.n = @ + 1]
    /\ IF attempts.n = 0 THEN request' = [request EXCEPT ![r].pc = "expire", ![r].count = 1]
                         ELSE Counted(r, attempts.n + 1)
    /\ UNCHANGED <<issued, stored, submits, tokens>>

\* TTL of the nonce and EXPIRE of the counter, which may be gone by now.
ExpireAttempts(r) ==
    /\ AtPc(r, "expire")
    /\ attempts' = [attempts EXCEPT !.ttl = attempts.n > 0]
    /\ Counted(r, request[r].count)
    /\ UNCHANGED <<issued, stored, submits, tokens>>

\* DEL of the nonce, whichever is stored now.
Lock(r) ==
    /\ AtPc(r, "lock")
    /\ stored' = {}
    /\ GotoPc(r, "unlock")
    /\ UNCHANGED <<issued, attempts, submits, tokens>>

\* DEL of the counter, then 401.
Unlock(r) ==
    /\ AtPc(r, "unlock")
    /\ attempts' = NoCount
    /\ Answer(r)
    /\ UNCHANGED <<issued, stored, submits, tokens>>

\* A consume that trusts the comparison made when the nonce was looked up.
ConsumeUnchecked(r) ==
    /\ AtPc(r, "consume")
    /\ stored' = stored \ request[r].nonce
    /\ GotoPc(r, "reset")
    /\ UNCHANGED <<issued, attempts, submits, tokens>>

\* EVAL of the script: compare with what is stored now, and delete.
Consume(r) ==
    /\ AtPc(r, "consume")
    /\ IF stored = request[r].nonce THEN stored' = {} /\ GotoPc(r, "reset")
                                    ELSE stored' = stored /\ Answer(r)
    /\ UNCHANGED <<issued, attempts, submits, tokens>>

\* DEL of the counter, then the JWT.
IssueToken(r) ==
    /\ AtPc(r, "reset")
    /\ attempts' = NoCount
    /\ tokens' = [n \in Nonces |-> tokens[n] + (IF n \in request[r].nonce THEN 1 ELSE 0)]
    /\ Answer(r)
    /\ UNCHANGED <<issued, stored, submits>>

\* Redis does not answer the command (503 or 500), or the process dies.
Abort(r) ==
    /\ ~AtPc(r, "idle")
    /\ Answer(r)
    /\ UNCHANGED <<issued, stored, attempts, submits, tokens>>

AuthNext ==
    \/ \E n \in Nonces : IssueNonce(n)
    \/ NonceExpires
    \/ AttemptsExpire
    \/ \E r \in Requests, n \in Nonces, signed \in BOOLEAN : Submit(r, n, signed)
    \/ \E r \in Requests : \/ Lookup(r) \/ CountAttempt(r) \/ ExpireAttempts(r)
                           \/ Lock(r) \/ Unlock(r) \/ Consume(r) \/ IssueToken(r) \/ Abort(r)

AuthSpec == AuthInit /\ [][AuthNext]_authVars

-----------------------------------------------------------------------------
AuthTypeOK ==
    /\ issued \subseteq Nonces
    /\ stored \in {{}} \cup {{n} : n \in issued}
    /\ attempts \in [n : Nat, ttl : BOOLEAN]
    /\ request \in [Requests -> [pc : Pcs, nonce : {{}} \cup {{n} : n \in Nonces},
                                 signed : BOOLEAN, count : Nat]]
    /\ submits \in Nat
    /\ tokens \in [Nonces -> Nat]

\* A nonce buys one token at most, and only one the server issued, however the
\* requests that present it interleave with each other, with a new nonce and
\* with failures (step 4 of verifyWallet, auth.service.ts:147-175).
NonceSingleUse ==
    \A n \in Nonces : tokens[n] <= (IF n \in issued \ stored THEN 1 ELSE 0)
=============================================================================
