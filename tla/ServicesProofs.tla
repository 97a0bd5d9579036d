---------------------------- MODULE ServicesProofs ----------------------------
(* The services of the API that MCServices runs one at a time, each for any   *)
(* values of its constants.                                                   *)
EXTENDS MCServices, ReadProofs

-----------------------------------------------------------------------------
(* WalletAuth: a nonce buys one token. The count of tokens alone is not       *)
(* inductive: between the script that deletes a nonce and its token, the      *)
(* right to the token is in the request that deleted it, and no other         *)
(* request, nor the store, may have the nonce then.                           *)


\* A request between the script and its token has a nonce that was issued, is
\* gone from the store and has bought nothing; no other has it.
RightIsUnique ==
    /\ \A r \in Requests : AtPc(r, "reset") =>
          \A n \in request[r].nonce : n \in issued /\ n \notin stored /\ tokens[n] = 0
    /\ \A r, q \in Requests :
          AtPc(r, "reset") /\ AtPc(q, "reset") /\ request[r].nonce = request[q].nonce => r = q

\* Nothing was bought with a nonce that is stored or was not issued.
BoughtIsGone ==
    /\ \A n \in Nonces : tokens[n] > 0 => n \in issued /\ n \notin stored
    /\ \A n \in Nonces : tokens[n] <= 1

\* A request under way has a nonce.
ClaimsNonce == \A r \in Requests : ~AtPc(r, "idle") => request[r].nonce # {}

AuthInv == AuthTypeOK /\ RightIsUnique /\ BoughtIsGone /\ ClaimsNonce

\* The counter of no attempts is a counter.
LEMMA NoCountTyped == NoCount \in [n : Nat, ttl : BOOLEAN]
  BY DEF NoCount

\* A request that moves keeps the types, and its nonce unless it is answered.
LEMMA Moves ==
    ASSUME AuthTypeOK, NEW r \in Requests
    PROVE  /\ \A pc \in Pcs : GotoPc(r, pc) =>
                 /\ request' \in [Requests -> [pc : Pcs, nonce : {{}} \cup {{n} : n \in Nonces},
                                               signed : BOOLEAN, count : Nat]]
                 /\ request'[r].pc = pc /\ request'[r].nonce = request[r].nonce
                 /\ \A q \in Requests : q # r => request'[q] = request[q]
           /\ Answer(r) =>
                 /\ request' \in [Requests -> [pc : Pcs, nonce : {{}} \cup {{n} : n \in Nonces},
                                               signed : BOOLEAN, count : Nat]]
                 /\ request'[r].pc = "idle"
                 /\ \A q \in Requests : q # r => request'[q] = request[q]
  <1> DEFINE R == [pc : Pcs, nonce : {{}} \cup {{n} : n \in Nonces}, signed : BOOLEAN, count : Nat]
  <1>1. request \in [Requests -> R]
    BY DEF AuthTypeOK
  <1>2. Fresh \in R /\ Fresh.pc = "idle"
    BY DEF Fresh, Pcs
  <1>3. ASSUME NEW pc \in Pcs, GotoPc(r, pc)
        PROVE  /\ request' \in [Requests -> R]
               /\ request'[r].pc = pc /\ request'[r].nonce = request[r].nonce
               /\ \A q \in Requests : q # r => request'[q] = request[q]
    BY <1>1, <1>3 DEF GotoPc
  <1>4. ASSUME Answer(r)
        PROVE  /\ request' \in [Requests -> R]
               /\ request'[r].pc = "idle"
               /\ \A q \in Requests : q # r => request'[q] = request[q]
    <2> HIDE DEF R
    <2> QED BY <1>1, <1>2, <1>4 DEF Answer
  <1> QED BY <1>3, <1>4

\* A step by which no nonce is issued, stored or bought with, and a request may
\* move, but not to "reset", keeps the invariant.
LEMMA QuietStep ==
    ASSUME AuthInv, AuthTypeOK',
           issued' = issued, stored' \subseteq stored, tokens' = tokens,
           NEW r \in Requests,
           request'[r].pc # "reset" \/ request'[r] = request[r],
           request'[r].pc # "idle" => request'[r].nonce # {},
           \A q \in Requests : q # r => request'[q] = request[q]
    PROVE  AuthInv'
  <1>1. \A q \in Requests : request'[q].pc = "reset" => request'[q] = request[q]
    OBVIOUS
  <1>2. RightIsUnique'
    BY <1>1 DEF AuthInv, RightIsUnique, AtPc
  <1>3. BoughtIsGone'
    BY DEF AuthInv, BoughtIsGone
  <1>4. ClaimsNonce'
    BY DEF AuthInv, ClaimsNonce, AtPc
  <1> QED BY <1>2, <1>3, <1>4 DEF AuthInv

\* Every step of the controller, the service, the store and the clock keeps it.
THEOREM AuthInductive == AuthInv /\ [AuthNext]_authVars => AuthInv'
  <1> SUFFICES ASSUME AuthInv, [AuthNext]_authVars PROVE AuthInv'
    OBVIOUS
  <1> USE AuthAssumption
  <1>1. AuthTypeOK /\ RightIsUnique /\ BoughtIsGone /\ ClaimsNonce
    BY DEF AuthInv
  <1>2. ASSUME NEW n \in Nonces, IssueNonce(n) PROVE AuthInv'
    <2>1. AuthTypeOK'
      BY <1>1, <1>2 DEF IssueNonce, AuthTypeOK
    <2>2. RightIsUnique'
      BY <1>1, <1>2 DEF IssueNonce, RightIsUnique, AtPc
    <2>3. BoughtIsGone'
      BY <1>1, <1>2 DEF IssueNonce, BoughtIsGone, AuthTypeOK
    <2>4. ClaimsNonce'
      BY <1>1, <1>2 DEF IssueNonce, ClaimsNonce, AtPc
    <2> QED BY <2>1, <2>2, <2>3, <2>4 DEF AuthInv
  <1>3. CASE NonceExpires \/ AttemptsExpire \/ UNCHANGED authVars
    <2>1. /\ stored' \in {{}, stored} /\ attempts' \in {NoCount, attempts}
          /\ UNCHANGED <<issued, request, submits, tokens>>
      BY <1>3 DEF NonceExpires, AttemptsExpire, authVars
    <2>4. AuthTypeOK'
      BY <1>1, <2>1, NoCountTyped DEF AuthTypeOK
    <2>2. /\ issued' = issued /\ stored' \subseteq stored /\ tokens' = tokens
          /\ request' = request
      BY <2>1
    <2>3. RightIsUnique' /\ BoughtIsGone' /\ ClaimsNonce'
      BY <1>1, <2>2 DEF RightIsUnique, BoughtIsGone, ClaimsNonce, AtPc
    <2> QED BY <2>4, <2>3 DEF AuthInv
  <1>4. ASSUME NEW r \in Requests, NEW n \in Nonces, NEW signed \in BOOLEAN, Submit(r, n, signed)
        PROVE  AuthInv'
    <2> DEFINE new == [Fresh EXCEPT !.pc = "get", !.nonce = {n}, !.signed = signed]
    <2>1. /\ new \in [pc : Pcs, nonce : {{}} \cup {{k} : k \in Nonces},
                      signed : BOOLEAN, count : Nat]
          /\ new.pc = "get" /\ new.nonce = {n}
      BY DEF Fresh, Pcs
    <2>2. request' = [request EXCEPT ![r] = new]
      BY <1>4 DEF Submit
    <2> HIDE DEF new
    <2>3. AuthTypeOK'
      <3>1. submits' = submits + 1 /\ UNCHANGED <<issued, stored, attempts, tokens>>
        BY <1>4 DEF Submit
      <3>2. request' \in [Requests -> [pc : Pcs, nonce : {{}} \cup {{k} : k \in Nonces},
                                       signed : BOOLEAN, count : Nat]]
        BY <1>1, <2>1, <2>2 DEF AuthTypeOK
      <3> QED BY <1>1, <3>1, <3>2 DEF AuthTypeOK
    <2>4. request'[r] = new /\ \A q \in Requests : q # r => request'[q] = request[q]
      BY <1>1, <2>2 DEF AuthTypeOK
    <2>5. issued' = issued /\ stored' = stored /\ tokens' = tokens
      BY <1>4 DEF Submit
    <2> QED BY <2>1, <2>3, <2>4, <2>5, QuietStep
  <1>5. ASSUME NEW r \in Requests, Lookup(r) PROVE AuthInv'
    <2>1. Answer(r) \/ GotoPc(r, "incr") \/ GotoPc(r, "consume")
      BY <1>5 DEF Lookup
    <2>2. request[r].nonce # {}
      BY <1>1, <1>5 DEF Lookup, AtPc, ClaimsNonce
    <2>3. /\ request' \in [Requests -> [pc : Pcs, nonce : {{}} \cup {{k} : k \in Nonces},
                                        signed : BOOLEAN, count : Nat]]
          /\ request'[r].pc # "reset" /\ (request'[r].pc # "idle" => request'[r].nonce # {})
          /\ \A q \in Requests : q # r => request'[q] = request[q]
      BY <1>1, <2>1, <2>2, Moves DEF Pcs
    <2>4. UNCHANGED <<issued, stored, attempts, submits, tokens>>
      BY <1>5 DEF Lookup
    <2>5. AuthTypeOK'
      BY <1>1, <2>3, <2>4 DEF AuthTypeOK
    <2> QED BY <2>3, <2>4, <2>5, QuietStep
  <1>6. ASSUME NEW r \in Requests, CountAttempt(r) \/ ExpireAttempts(r) PROVE AuthInv'
    <2> DEFINE R == [pc : Pcs, nonce : {{}} \cup {{k} : k \in Nonces}, signed : BOOLEAN, count : Nat]
    <2>1. request \in [Requests -> R] /\ attempts \in [n : Nat, ttl : BOOLEAN]
      BY <1>1 DEF AuthTypeOK
    <2>2. Fresh \in R /\ Fresh.pc = "idle" /\ "expire" \in Pcs /\ "lock" \in Pcs
      BY DEF Fresh, Pcs
    <2>3. request[r] \in R /\ request[r].nonce # {}
      BY <1>1, <1>6, <2>1 DEF CountAttempt, ExpireAttempts, AtPc, ClaimsNonce
    <2>4. attempts.n + 1 \in Nat /\ request[r].count \in Nat
      BY <2>1, <2>3
    <2>10. \A n \in Nat : Counted(r, n) =>
             \E new \in R : /\ request' = [request EXCEPT ![r] = new]
                            /\ new.pc \in {"idle", "lock"}
                            /\ new.pc = "lock" => new.nonce = request[r].nonce
      <3> SUFFICES ASSUME NEW n \in Nat, Counted(r, n)
                   PROVE  \E new \in R : /\ request' = [request EXCEPT ![r] = new]
                                         /\ new.pc \in {"idle", "lock"}
                                         /\ new.pc = "lock" => new.nonce = request[r].nonce
        OBVIOUS
      <3> DEFINE last == [request[r] EXCEPT !.pc = "lock", !.count = n]
      <3>1. last \in R /\ last.pc = "lock" /\ last.nonce = request[r].nonce
        BY <2>2, <2>3
      <3>2. CASE n >= MaxNonceAttempts
        <4>1. request' = [request EXCEPT ![r] = last]
          BY <3>2 DEF Counted
        <4> HIDE DEF last, R
        <4> QED BY <3>1, <4>1
      <3>3. CASE ~(n >= MaxNonceAttempts)
        <4>1. request' = [request EXCEPT ![r] = Fresh]
          BY <3>3 DEF Counted
        <4> HIDE DEF last, R
        <4> QED BY <2>2, <4>1
      <3> QED BY <3>2, <3>3
    <2>5. \E new \in R : /\ request' = [request EXCEPT ![r] = new]
                         /\ new.pc # "reset" /\ (new.pc # "idle" => new.nonce # {})
      <3>1. CASE ExpireAttempts(r)
        <4>1. Counted(r, request[r].count)
          BY <3>1 DEF ExpireAttempts
        <4> HIDE DEF R
        <4> QED BY <2>3, <2>4, <2>10, <4>1
      <3>2. CASE CountAttempt(r) /\ attempts.n = 0
        <4> DEFINE first == [request[r] EXCEPT !.pc = "expire", !.count = 1]
        <4>1. first \in R /\ first.pc = "expire" /\ first.nonce = request[r].nonce
          BY <2>2, <2>3
        <4>2. request' = [request EXCEPT ![r].pc = "expire", ![r].count = 1]
          BY <3>2 DEF CountAttempt
        <4>3. request' = [request EXCEPT ![r] = first]
          BY <2>1, <4>2
        <4> HIDE DEF first, R
        <4> QED BY <2>3, <4>1, <4>3
      <3>3. CASE CountAttempt(r) /\ attempts.n # 0
        <4>1. Counted(r, attempts.n + 1)
          BY <3>3 DEF CountAttempt
        <4> HIDE DEF R
        <4> QED BY <2>3, <2>4, <2>10, <4>1
      <3> QED BY <1>6, <3>1, <3>2, <3>3
    <2>6. PICK new \in R : /\ request' = [request EXCEPT ![r] = new]
                           /\ new.pc # "reset" /\ (new.pc # "idle" => new.nonce # {})
      BY <2>5
    <2>7. /\ UNCHANGED <<issued, stored, submits, tokens>>
          /\ attempts' \in [n : Nat, ttl : BOOLEAN]
      <3>1. CASE CountAttempt(r)
        <4>1. attempts' = [attempts EXCEPT !.n = attempts.n + 1]
          BY <3>1 DEF CountAttempt
        <4> QED BY <2>1, <2>4, <3>1, <4>1 DEF CountAttempt
      <3>2. CASE ExpireAttempts(r)
        <4>1. attempts' = [attempts EXCEPT !.ttl = attempts.n > 0]
          BY <3>2 DEF ExpireAttempts
        <4>2. (attempts.n > 0) \in BOOLEAN
          OBVIOUS
        <4>3. attempts' \in [n : Nat, ttl : BOOLEAN]
          BY <2>1, <4>1, <4>2
        <4> QED BY <3>2, <4>3 DEF ExpireAttempts
      <3> QED BY <1>6, <3>1, <3>2
    <2>8. /\ request' \in [Requests -> R] /\ request'[r] = new
          /\ \A q \in Requests : q # r => request'[q] = request[q]
      <3> HIDE DEF R
      <3> QED BY <2>1, <2>6
    <2>9. AuthTypeOK'
      BY <1>1, <2>7, <2>8 DEF AuthTypeOK
    <2> QED BY <2>6, <2>7, <2>8, <2>9, QuietStep
  <1>7. ASSUME NEW r \in Requests, Lock(r) PROVE AuthInv'
    <2>1. request[r].nonce # {}
      BY <1>1, <1>7 DEF Lock, AtPc, ClaimsNonce
    <2>2. /\ request' \in [Requests -> [pc : Pcs, nonce : {{}} \cup {{k} : k \in Nonces},
                                        signed : BOOLEAN, count : Nat]]
          /\ request'[r].pc # "reset" /\ request'[r].nonce # {}
          /\ \A q \in Requests : q # r => request'[q] = request[q]
      BY <1>1, <1>7, <2>1, Moves DEF Lock, Pcs
    <2>3. stored' = {} /\ UNCHANGED <<issued, attempts, submits, tokens>>
      BY <1>7 DEF Lock
    <2>4. AuthTypeOK'
      BY <1>1, <2>2, <2>3 DEF AuthTypeOK
    <2> QED BY <2>2, <2>3, <2>4, QuietStep
  <1>8. ASSUME NEW r \in Requests, Unlock(r) \/ Abort(r) PROVE AuthInv'
    <2>1. /\ request' \in [Requests -> [pc : Pcs, nonce : {{}} \cup {{k} : k \in Nonces},
                                        signed : BOOLEAN, count : Nat]]
          /\ request'[r].pc = "idle"
          /\ \A q \in Requests : q # r => request'[q] = request[q]
      BY <1>1, <1>8, Moves DEF Unlock, Abort
    <2>2. /\ UNCHANGED <<issued, stored, submits, tokens>>
          /\ attempts' \in [n : Nat, ttl : BOOLEAN]
      BY <1>1, <1>8, NoCountTyped DEF Unlock, Abort, AuthTypeOK
    <2>3. AuthTypeOK'
      BY <1>1, <2>1, <2>2 DEF AuthTypeOK
    <2> QED BY <2>1, <2>2, <2>3, QuietStep
  <1>9. ASSUME NEW r \in Requests, Consume(r) PROVE AuthInv'
    <2>1. CASE stored # request[r].nonce
      <3>1. Answer(r) /\ UNCHANGED <<issued, stored, attempts, submits, tokens>>
        BY <1>9, <2>1 DEF Consume
      <3>2. /\ request' \in [Requests -> [pc : Pcs, nonce : {{}} \cup {{k} : k \in Nonces},
                                          signed : BOOLEAN, count : Nat]]
            /\ request'[r].pc = "idle"
            /\ \A q \in Requests : q # r => request'[q] = request[q]
        BY <1>1, <3>1, Moves
      <3>3. AuthTypeOK'
        BY <1>1, <3>1, <3>2 DEF AuthTypeOK
      <3> QED BY <3>1, <3>2, <3>3, QuietStep
    <2>2. CASE stored = request[r].nonce
      <3>1. GotoPc(r, "reset") /\ stored' = {} /\ UNCHANGED <<issued, attempts, submits, tokens>>
        BY <1>9, <2>2 DEF Consume
      <3>2. /\ request' \in [Requests -> [pc : Pcs, nonce : {{}} \cup {{k} : k \in Nonces},
                                          signed : BOOLEAN, count : Nat]]
            /\ request'[r].pc = "reset" /\ request'[r].nonce = request[r].nonce
            /\ \A q \in Requests : q # r => request'[q] = request[q]
        BY <1>1, <3>1, Moves DEF Pcs
      <3>3. AuthTypeOK'
        BY <1>1, <3>1, <3>2 DEF AuthTypeOK
      <3>4. PICK n \in issued : stored = {n} /\ request[r].nonce = {n} /\ n \in Nonces
        BY <1>1, <1>9, <2>2 DEF Consume, AtPc, ClaimsNonce, AuthTypeOK
      <3>5. tokens[n] = 0
        BY <1>1, <3>4 DEF BoughtIsGone, AuthTypeOK
      <3>6. \A q \in Requests : AtPc(q, "reset") => n \notin request[q].nonce
        BY <1>1, <3>4 DEF RightIsUnique
      <3>7. RightIsUnique'
        <4>1. ASSUME NEW q \in Requests, AtPc(q, "reset")', NEW k \in request'[q].nonce
              PROVE  k \in issued' /\ k \notin stored' /\ tokens'[k] = 0
          <5>1. CASE q = r
            BY <3>1, <3>2, <3>4, <3>5, <4>1, <5>1
          <5>2. CASE q # r
            BY <1>1, <3>1, <3>2, <4>1, <5>2 DEF RightIsUnique, AtPc
          <5> QED BY <5>1, <5>2
        <4>2. ASSUME NEW q \in Requests, NEW s \in Requests, AtPc(q, "reset")', AtPc(s, "reset")',
                     request'[q].nonce = request'[s].nonce
              PROVE  q = s
          <5>1. CASE q # r /\ s # r
            BY <1>1, <3>2, <4>2, <5>1 DEF RightIsUnique, AtPc
          <5>2. CASE q = r /\ s # r
            BY <3>2, <3>4, <3>6, <4>2, <5>2 DEF AtPc
          <5>3. CASE q # r /\ s = r
            BY <3>2, <3>4, <3>6, <4>2, <5>3 DEF AtPc
          <5> QED BY <5>1, <5>2, <5>3
        <4> QED BY <4>1, <4>2 DEF RightIsUnique
      <3>8. BoughtIsGone'
        BY <1>1, <3>1 DEF BoughtIsGone
      <3>9. ClaimsNonce'
        BY <1>1, <3>2, <3>4 DEF ClaimsNonce, AtPc
      <3> QED BY <3>3, <3>7, <3>8, <3>9 DEF AuthInv
    <2> QED BY <2>1, <2>2
  <1>10. ASSUME NEW r \in Requests, IssueToken(r) PROVE AuthInv'
    <2>1. /\ AtPc(r, "reset") /\ Answer(r) /\ attempts' = NoCount
          /\ UNCHANGED <<issued, stored, submits>>
          /\ tokens' = [n \in Nonces |-> tokens[n] + (IF n \in request[r].nonce THEN 1 ELSE 0)]
      BY <1>10 DEF IssueToken
    <2>2. /\ request' \in [Requests -> [pc : Pcs, nonce : {{}} \cup {{k} : k \in Nonces},
                                        signed : BOOLEAN, count : Nat]]
          /\ request'[r].pc = "idle"
          /\ \A q \in Requests : q # r => request'[q] = request[q]
      BY <1>1, <2>1, Moves
    <2>3. tokens \in [Nonces -> Nat]
      BY <1>1 DEF AuthTypeOK
    <2>4. /\ tokens' \in [Nonces -> Nat]
          /\ \A n \in Nonces : tokens'[n] = IF n \in request[r].nonce THEN tokens[n] + 1 ELSE tokens[n]
      BY <2>1, <2>3
    <2>5. AuthTypeOK'
      BY <1>1, <2>1, <2>2, <2>4 DEF AuthTypeOK, NoCount
    <2>6. PICK m \in Nonces : request[r].nonce = {m}
      BY <1>1, <2>1 DEF AtPc, ClaimsNonce, AuthTypeOK
    <2>7. m \in issued /\ m \notin stored /\ tokens[m] = 0
      BY <1>1, <2>1, <2>6 DEF RightIsUnique
    <2>8. BoughtIsGone'
      <3> SUFFICES ASSUME NEW n \in Nonces
                   PROVE (tokens'[n] > 0 => n \in issued' /\ n \notin stored') /\ tokens'[n] <= 1
        BY DEF BoughtIsGone
      <3> QED BY <1>1, <2>1, <2>4, <2>6, <2>7 DEF BoughtIsGone
    <2>9. RightIsUnique'
      <3>1. ASSUME NEW q \in Requests, AtPc(q, "reset")'
            PROVE  q # r /\ AtPc(q, "reset") /\ request'[q] = request[q]
        BY <2>2, <3>1 DEF AtPc
      <3>2. ASSUME NEW q \in Requests, AtPc(q, "reset")', NEW k \in request'[q].nonce
            PROVE  k \in issued' /\ k \notin stored' /\ tokens'[k] = 0
        <4>1. q # r /\ AtPc(q, "reset") /\ request'[q].nonce = request[q].nonce
          BY <3>1, <3>2
        <4>2. k \in issued /\ k \notin stored /\ tokens[k] = 0 /\ k \in Nonces
          BY <1>1, <3>2, <4>1 DEF RightIsUnique, AuthTypeOK
        <4>3. request[q].nonce = {k}
          BY <1>1, <3>2, <4>1 DEF AuthTypeOK
        <4>4. k # m
          BY <1>1, <2>1, <2>6, <4>1, <4>3 DEF RightIsUnique
        <4> QED BY <2>1, <2>4, <2>6, <4>2, <4>4
      <3>3. ASSUME NEW q \in Requests, NEW s \in Requests, AtPc(q, "reset")', AtPc(s, "reset")',
                   request'[q].nonce = request'[s].nonce
            PROVE  q = s
        BY <1>1, <3>1, <3>3 DEF RightIsUnique
      <3> QED BY <3>2, <3>3 DEF RightIsUnique
    <2>10. ClaimsNonce'
      BY <1>1, <2>2 DEF ClaimsNonce, AtPc
    <2> QED BY <2>5, <2>8, <2>9, <2>10 DEF AuthInv
  <1> QED BY <1>2, <1>3, <1>4, <1>5, <1>6, <1>7, <1>8, <1>9, <1>10 DEF AuthNext

LEMMA AuthInitial == AuthInit => AuthInv
  <1> SUFFICES ASSUME AuthInit PROVE AuthInv
    OBVIOUS
  <1>1. AuthTypeOK
    BY DEF AuthInit, AuthTypeOK, Fresh, NoCount, Pcs
  <1>2. \A r \in Requests : request[r].pc = "idle"
    BY DEF AuthInit, Fresh
  <1>3. \A n \in Nonces : tokens[n] = 0
    BY DEF AuthInit
  <1>4. RightIsUnique /\ ClaimsNonce
    BY <1>2 DEF RightIsUnique, ClaimsNonce, AtPc
  <1>5. BoughtIsGone
    BY <1>3 DEF BoughtIsGone
  <1> QED BY <1>1, <1>4, <1>5 DEF AuthInv

\* The invariant of every behaviour of the challenge.
THEOREM AuthInvariant == AuthSpec => []AuthInv
  <1> QED BY AuthInitial, AuthInductive, PTL DEF AuthSpec

\* A nonce buys one token at most, and only one that was issued and is gone,
\* however many requests present it (auth.service.ts:147-175).
THEOREM NonceSingleUseCorrect == AuthSpec => []NonceSingleUse
  <1>1. AuthInv => NonceSingleUse
    <2> SUFFICES ASSUME AuthInv, NEW n \in Nonces
                 PROVE tokens[n] <= (IF n \in issued \ stored THEN 1 ELSE 0)
      BY DEF NonceSingleUse
    <2>1. tokens[n] \in Nat
      BY DEF AuthInv, AuthTypeOK
    <2> QED BY <2>1 DEF AuthInv, BoughtIsGone
  <1> QED BY <1>1, AuthInvariant, PTL

\* Nonce, attempts and requests keep their types.
THEOREM AuthTypeCorrect == AuthSpec => []AuthTypeOK
  <1>1. AuthInv => AuthTypeOK
    BY DEF AuthInv
  <1> QED BY <1>1, AuthInvariant, PTL

-----------------------------------------------------------------------------
(* DirectIngest: an event that is stored has been written by a delivery that *)
(* began before it was, so a delivery that begins later is told so by the    *)
(* sink: what it may still do depends on where it is.                        *)

DeliveryState ==
    [pc : {"idle", "has", "persist", "ok", "duplicate", "UNAUTHORIZED",
           "INVALID_EVENT", "UNSUPPORTED_EVENT", "DEPENDENCY_UNAVAILABLE"},
     id : EventIds \cup {"none"}, late : BOOLEAN, wrote : BOOLEAN]

IngestTyped == delivery \in [Deliveries -> DeliveryState] /\ persisted \subseteq EventIds

\* What a delivery is allowed to be beside a sink that has S.
DeliveryTrue(r, S) ==
    /\ r.late => r.id \in S
    /\ r.pc \in {"idle", "has", "persist"} => ~r.wrote
    /\ r.pc \in {"has", "persist"} => r.id \in EventIds
    /\ r.pc = "persist" => ~r.late
    /\ r.pc \in {"ok", "duplicate"} => r.id \in S
    /\ r.wrote => ~r.late /\ r.id \in S

IngestInv ==
    /\ IngestTyped
    /\ \A d \in Deliveries : DeliveryTrue(delivery[d], persisted)
    /\ \A i \in persisted : \E d \in Deliveries : delivery[d].wrote /\ delivery[d].id = i

\* One delivery goes on, and what it writes is all that the sink gets.
LEMMA DeliveryGoesOn ==
    ASSUME IngestInv, NEW d \in Deliveries, NEW r \in DeliveryState,
           delivery' = [delivery EXCEPT ![d] = r], ~delivery[d].wrote,
           persisted' = IF r.wrote THEN persisted \cup {r.id} ELSE persisted,
           r.wrote => r.id \in EventIds, DeliveryTrue(r, persisted')
    PROVE  IngestInv'
  <1>1. /\ \A e \in Deliveries : delivery'[e] = IF e = d THEN r ELSE delivery[e]
        /\ persisted \subseteq persisted'
    BY DEF IngestInv, IngestTyped
  <1>2. IngestTyped'
    BY DEF IngestInv, IngestTyped
  <1>3. \A e \in Deliveries : DeliveryTrue(delivery'[e], persisted')
    BY <1>1 DEF IngestInv, DeliveryTrue
  <1>4. \A i \in persisted' : \E e \in Deliveries : delivery'[e].wrote /\ delivery'[e].id = i
    <2> SUFFICES ASSUME NEW i \in persisted'
                 PROVE \E e \in Deliveries : delivery'[e].wrote /\ delivery'[e].id = i
      OBVIOUS
    <2>1. CASE i \in persisted
      <3>1. PICK e \in Deliveries : delivery[e].wrote /\ delivery[e].id = i
        BY <2>1 DEF IngestInv
      <3>2. e # d
        BY <3>1
      <3> QED BY <1>1, <3>1, <3>2
    <2>2. CASE i \notin persisted
      <3>1. r.wrote /\ i = r.id
        BY <2>2
      <3> QED BY <1>1, <3>1
    <2> QED BY <2>1, <2>2
  <1> QED BY <1>2, <1>3, <1>4 DEF IngestInv

LEMMA IngestStep == IngestInv /\ [IngestNext]_ingestVars => IngestInv'
  <1> SUFFICES ASSUME IngestInv, [IngestNext]_ingestVars PROVE IngestInv'
    OBVIOUS
  <1>1. ASSUME NEW d \in Deliveries
        PROVE delivery[d] \in DeliveryState /\ DeliveryTrue(delivery[d], persisted)
    BY DEF IngestInv, IngestTyped
  <1>2. ASSUME NEW d \in Deliveries, NEW id \in EventIds, NEW role, NEW topic,
               NEW complete \in BOOLEAN, Deliver(d, id, role, topic, complete)
        PROVE IngestInv'
    <2> DEFINE p == IF role \in {"indexer", "admin"} THEN Parsed(topic, complete)
                    ELSE "UNAUTHORIZED"
               r == [pc |-> p, id |-> id, late |-> id \in persisted, wrote |-> FALSE]
    <2>1. p \in {"has", "UNAUTHORIZED", "INVALID_EVENT", "UNSUPPORTED_EVENT"}
      BY DEF Parsed
    <2>2. /\ delivery[d].pc = "idle" /\ delivery' = [delivery EXCEPT ![d] = r]
          /\ persisted' = persisted
      BY <1>2 DEF Deliver
    <2> HIDE DEF p
    <2>3. /\ r \in DeliveryState /\ r.wrote = FALSE /\ r.id = id
          /\ r.pc = p /\ r.late = (id \in persisted)
      BY <2>1 DEF DeliveryState
    <2>4. ~delivery[d].wrote
      BY <1>1, <2>2 DEF DeliveryTrue
    <2> HIDE DEF r
    <2>5. DeliveryTrue(r, persisted)
      BY <2>1, <2>3 DEF DeliveryTrue
    <2> QED BY <2>2, <2>3, <2>4, <2>5, DeliveryGoesOn
  <1>3. ASSUME NEW d \in Deliveries, Has(d) PROVE IngestInv'
    <2> DEFINE p == Looked(delivery[d].id \in persisted)
               r == [delivery[d] EXCEPT !.pc = p]
    <2>1. /\ delivery[d].pc = "has" /\ delivery' = [delivery EXCEPT ![d] = r]
          /\ persisted' = persisted
      BY <1>3 DEF Has, IngestInv, IngestTyped
    <2>2. /\ p \in {"duplicate", "persist"}
          /\ p = "duplicate" <=> delivery[d].id \in persisted
      BY DEF Looked
    <2> HIDE DEF p
    <2>3. /\ r \in DeliveryState /\ r.wrote = delivery[d].wrote /\ r.pc = p
          /\ r.id = delivery[d].id /\ r.late = delivery[d].late
      BY <1>1, <2>2 DEF DeliveryState
    <2> HIDE DEF r
    <2>4. ~delivery[d].wrote
      BY <1>1, <2>1 DEF DeliveryTrue
    <2>5. DeliveryTrue(r, persisted)
      BY <1>1, <2>1, <2>2, <2>3, <2>4 DEF DeliveryTrue
    <2> QED BY <2>1, <2>3, <2>4, <2>5, DeliveryGoesOn
  <1>4. ASSUME NEW d \in Deliveries, Persist(d) PROVE IngestInv'
    <2> DEFINE s == [delivery[d] EXCEPT !.pc = "ok"]
               r == [s EXCEPT !.wrote = TRUE]
    <2>1. /\ delivery[d].pc = "persist"
          /\ delivery' = [delivery EXCEPT ![d] = r]
          /\ persisted' = persisted \cup {delivery[d].id}
      BY <1>4 DEF Persist, IngestInv, IngestTyped
    <2>2. s \in DeliveryState /\ s.pc = "ok" /\ s.id = delivery[d].id /\ s.late = delivery[d].late
      BY <1>1 DEF DeliveryState
    <2> HIDE DEF s
    <2>3. /\ r \in DeliveryState /\ r.pc = "ok" /\ r.id = delivery[d].id
          /\ r.late = delivery[d].late /\ r.wrote = TRUE
      BY <2>2 DEF DeliveryState
    <2> HIDE DEF r
    <2>4. /\ ~delivery[d].wrote /\ ~delivery[d].late /\ delivery[d].id \in EventIds
      BY <1>1, <2>1 DEF DeliveryTrue
    <2>5. persisted' = (IF r.wrote THEN persisted \cup {r.id} ELSE persisted)
      BY <2>1, <2>3
    <2>6. DeliveryTrue(r, persisted')
      BY <2>1, <2>3, <2>4 DEF DeliveryTrue
    <2> QED BY <2>1, <2>3, <2>4, <2>5, <2>6, DeliveryGoesOn
  <1>5. ASSUME NEW d \in Deliveries, SinkFails(d) PROVE IngestInv'
    <2>1. PICK done \in BOOLEAN :
             /\ done => delivery[d].pc = "persist"
             /\ delivery' = [delivery EXCEPT ![d].pc = "DEPENDENCY_UNAVAILABLE",
                                             ![d].wrote = done]
             /\ persisted' = IF done THEN persisted \cup {delivery[d].id} ELSE persisted
      BY <1>5 DEF SinkFails
    <2> DEFINE s == [delivery[d] EXCEPT !.pc = "DEPENDENCY_UNAVAILABLE"]
               r == [s EXCEPT !.wrote = done]
    <2>2. delivery' = [delivery EXCEPT ![d] = r]
      BY <2>1 DEF IngestInv, IngestTyped
    <2>3. /\ s \in DeliveryState /\ s.pc = "DEPENDENCY_UNAVAILABLE"
          /\ s.id = delivery[d].id /\ s.late = delivery[d].late
      BY <1>1 DEF DeliveryState
    <2> HIDE DEF s
    <2>4. /\ r \in DeliveryState /\ r.pc = "DEPENDENCY_UNAVAILABLE"
          /\ r.id = delivery[d].id /\ r.late = delivery[d].late /\ r.wrote = done
      BY <2>3 DEF DeliveryState
    <2> HIDE DEF r
    <2>5. delivery[d].pc \in {"has", "persist"}
      BY <1>5 DEF SinkFails
    <2>6. /\ ~delivery[d].wrote /\ delivery[d].id \in EventIds
          /\ done => ~delivery[d].late
      BY <1>1, <2>1, <2>5 DEF DeliveryTrue
    <2>7. persisted' = (IF r.wrote THEN persisted \cup {r.id} ELSE persisted)
      BY <2>1, <2>4
    <2>8. DeliveryTrue(r, persisted')
      BY <1>1, <2>1, <2>4, <2>6 DEF DeliveryTrue
    <2> QED BY <2>2, <2>4, <2>6, <2>7, <2>8, DeliveryGoesOn
  <1>6. CASE UNCHANGED ingestVars
    BY <1>6 DEF ingestVars, IngestInv, IngestTyped
  <1> QED BY <1>2, <1>3, <1>4, <1>5, <1>6 DEF IngestNext

LEMMA IngestInitial == IngestInit => IngestInv
  BY DEF IngestInit, Undelivered, IngestInv, IngestTyped, DeliveryState, DeliveryTrue

LEMMA IngestMeans == IngestInv => IngestedOnce
  <1> SUFFICES ASSUME IngestInv PROVE IngestedOnce
    OBVIOUS
  <1>1. \A d \in Deliveries : DeliveryTrue(delivery[d], persisted)
    BY DEF IngestInv
  <1>2. \A i \in persisted : \E d \in Deliveries : delivery[d].wrote /\ delivery[d].id = i
    BY DEF IngestInv
  <1>3. persisted = {delivery[d].id : d \in {e \in Deliveries : delivery[e].wrote}}
    BY <1>1, <1>2 DEF DeliveryTrue
  <1> QED BY <1>1, <1>3 DEF IngestedOnce, DeliveryTrue

-----------------------------------------------------------------------------
(* TokenEnrichment: what a pass has read of a token with real metadata is    *)
(* what is stored, as long as no other pass has written it since.            *)

Symbols == {Unstored, Unknown, Prefix} \cup Found

PassState == [todo : Seq(Assets), listed : SUBSET Assets, alone : BOOLEAN,
              read : Symbols \cup {Nothing}, ran : BOOLEAN]

KnownTokens == {a \in Assets : symbol[a] # Unstored}

\* What a pass has in hand.
PassTrue(q) ==
    q.read # Nothing =>
        /\ q.todo # <<>>
        /\ q.alone /\ symbol[Head(q.todo)] \in Found => q.read = symbol[Head(q.todo)]

EnrichInv ==
    /\ symbol \in [Assets -> Symbols]
    /\ pass \in [Passes -> PassState]
    /\ IsFiniteSet(KnownTokens)
    /\ \A p \in Passes : PassTrue(pass[p])
    /\ enriched \subseteq Assets
    /\ EnrichmentKeeps

\* A step that stores nothing and puts one pass elsewhere.
LEMMA PassGoesOn ==
    ASSUME EnrichInv, NEW p \in Passes, NEW r \in PassState,
           pass' = [pass EXCEPT ![p] = r], PassTrue(r),
           UNCHANGED <<symbol, enriched, overtaken>>
    PROVE  EnrichInv'
  <1>1. \A q \in Passes : pass'[q] = IF q = p THEN r ELSE pass[q]
    BY DEF EnrichInv
  <1>2. symbol' \in [Assets -> Symbols] /\ pass' \in [Passes -> PassState]
    BY DEF EnrichInv
  <1>3. KnownTokens' = KnownTokens
    BY DEF KnownTokens
  <1>4. \A q \in Passes : PassTrue(pass[q])'
    BY <1>1 DEF EnrichInv, PassTrue
  <1>5. EnrichmentKeeps' /\ enriched' \subseteq Assets
    BY DEF EnrichInv, EnrichmentKeeps
  <1> QED BY <1>2, <1>3, <1>4, <1>5 DEF EnrichInv

\* The sequences of finitely many tokens are sequences.
LEMMA OrderTyped ==
    ASSUME NEW S, IsFiniteSet(S), S \subseteq Assets, NEW order \in SetToSeqs(S)
    PROVE  order \in Seq(Assets)
  <1>1. Cardinality(S) \in Nat
    BY FS_CardinalityType
  <1>2. order \in [1..Cardinality(S) -> S]
    BY DEF SetToSeqs
  <1> QED BY <1>1, <1>2

LEMMA FirstTyped == \A s \in Seq(Assets) : s # <<>> => Head(s) \in Assets
  OBVIOUS

LEMMA StartedKeeps ==
    ASSUME EnrichInv, NEW p \in Passes, NEW ahead \in Seq(Assets), NEW listed \in SUBSET Assets,
           Started(p, ahead, listed)
    PROVE  EnrichInv'
  <1> DEFINE s == [Awaiting EXCEPT !.todo = ahead]
             t == [s EXCEPT !.listed = listed]
             r == [t EXCEPT !.ran = TRUE]
  <1>1. pass' = [pass EXCEPT ![p] = r] /\ UNCHANGED <<symbol, enriched, overtaken>>
    BY DEF Started
  <1>2. s \in PassState /\ s.read = Nothing
    BY DEF Awaiting, PassState
  <1> HIDE DEF s
  <1>3. t \in PassState /\ t.read = Nothing
    BY <1>2 DEF PassState
  <1> HIDE DEF t
  <1>4. r \in PassState /\ r.read = Nothing
    BY <1>3 DEF PassState
  <1> HIDE DEF r
  <1> QED BY <1>1, <1>4, PassGoesOn DEF PassTrue

\* The pass is done with a token.
LEMMA OnwardsTyped ==
    ASSUME NEW q \in PassState, q.todo # <<>>
    PROVE  /\ Onwards(q) \in PassState /\ PassTrue(Onwards(q)) /\ Onwards(q).read = Nothing
  <1> DEFINE s == [q EXCEPT !.todo = Tail(q.todo)]
  <1>1. Tail(q.todo) \in Seq(Assets)
    BY DEF PassState
  <1>2. s \in PassState
    BY <1>1 DEF PassState
  <1>3. Onwards(q) = [s EXCEPT !.read = Nothing]
    BY DEF Onwards, PassState
  <1> HIDE DEF s
  <1> QED BY <1>2, <1>3 DEF PassState, PassTrue

\* A pass that is alone keeps real metadata; one that is not is remembered.
LEMMA UpsertKeeps ==
    ASSUME EnrichInv, NEW p \in Passes, UpsertToken(p)
    PROVE  EnrichInv'
  <1> DEFINE a == Head(pass[p].todo)
             listed == IF a \in pass[p].listed THEN "of the list" ELSE Nothing
  <1>1. pass[p] \in PassState /\ pass[p].read # Nothing /\ pass[p].todo # <<>>
    BY DEF EnrichInv, PassTrue, UpsertToken
  <1>2. a \in Assets /\ pass[p].read \in Symbols
    BY <1>1 DEF PassState
  <1>3. PICK onChain \in {Nothing, "of the chain"} :
          symbol' = [symbol EXCEPT ![a] = Chosen(onChain, listed, pass[p].read)]
    BY DEF UpsertToken
  <1>4. /\ pass' = [q \in Passes |->
                      IF q = p THEN Onwards(pass[p])
                      ELSE IF pass[q].read # Nothing /\ Head(pass[q].todo) = a
                           THEN [pass[q] EXCEPT !.alone = FALSE] ELSE pass[q]]
        /\ enriched' = IF symbol'[a] \in Found THEN enriched \cup {a} ELSE enriched
        /\ overtaken' = IF pass[p].alone THEN overtaken ELSE overtaken \cup {a}
    BY DEF UpsertToken
  <1> DEFINE new == Chosen(onChain, listed, pass[p].read)
  <1>5. /\ new \in Symbols
        /\ pass[p].read \in Found => new \in Found
    BY <1>1, <1>2 DEF Chosen, Symbols, Found, Nothing, Unstored, Unknown, Prefix
  <1> HIDE DEF new
  <1>6. \A b \in Assets : symbol'[b] = IF b = a THEN new ELSE symbol[b]
    BY <1>3 DEF new, EnrichInv
  <1>7. symbol' \in [Assets -> Symbols]
    BY <1>2, <1>3, <1>5 DEF new, EnrichInv
  <1>8. Onwards(pass[p]) \in PassState /\ Onwards(pass[p]).read = Nothing
    BY <1>1, OnwardsTyped
  <1>9. \A q \in Passes : /\ pass[q] \in PassState
                          /\ [pass[q] EXCEPT !.alone = FALSE] \in PassState
                          /\ [pass[q] EXCEPT !.alone = FALSE].alone = FALSE
                          /\ [pass[q] EXCEPT !.alone = FALSE].read = pass[q].read
                          /\ [pass[q] EXCEPT !.alone = FALSE].todo = pass[q].todo
    BY DEF EnrichInv, PassState
  <1>10. pass' \in [Passes -> PassState]
    BY <1>4, <1>8, <1>9
  <1>11. IsFiniteSet(KnownTokens)'
    <2>1. KnownTokens' \in SUBSET (KnownTokens \cup {a})
      BY <1>6 DEF KnownTokens
    <2>2. IsFiniteSet(KnownTokens \cup {a})
      BY FS_AddElement DEF EnrichInv
    <2> QED BY <2>1, <2>2, FS_Subset
  <1>12. ASSUME NEW q \in Passes PROVE PassTrue(pass[q])'
    <2>1. PassTrue(pass[q])
      BY DEF EnrichInv
    <2>2. CASE q = p
      BY <1>4, <1>8, <2>2 DEF PassTrue
    <2>3. CASE q # p /\ pass[q].read # Nothing /\ Head(pass[q].todo) = a
      <3>1. pass'[q] = [pass[q] EXCEPT !.alone = FALSE]
        BY <1>4, <2>3
      <3> QED BY <1>9, <2>1, <2>3, <3>1 DEF PassTrue
    <2>4. CASE q # p /\ ~(pass[q].read # Nothing /\ Head(pass[q].todo) = a)
      <3>1. pass'[q] = pass[q]
        BY <1>4, <2>4
      <3>2. pass[q].todo # <<>> => Head(pass[q].todo) \in Assets
        <4>1. pass[q] \in PassState
          BY <1>9
        <4>2. pass[q].todo \in Seq(Assets)
          BY <4>1 DEF PassState
        <4> QED BY <4>2, FirstTyped
      <3> QED BY <1>6, <2>1, <2>4, <3>1, <3>2 DEF PassTrue
    <2> QED BY <2>2, <2>3, <2>4
  <1>13. EnrichmentKeeps'
    <2> SUFFICES ASSUME NEW b \in enriched' \ overtaken' PROVE symbol'[b] \in Found
      BY DEF EnrichmentKeeps
    <2>1. CASE b # a
      <3>1. b \in enriched \ overtaken
        BY <1>4, <2>1
      <3>2. symbol[b] \in Found /\ b \in Assets
        BY <3>1 DEF EnrichInv, EnrichmentKeeps
      <3> QED BY <1>6, <2>1, <3>2
    <2>2. CASE b = a
      <3>1. pass[p].alone
        BY <1>4, <2>2
      <3>2. CASE symbol'[a] \in Found
        BY <2>2, <3>2
      <3>3. CASE symbol'[a] \notin Found
        <4>1. a \in enriched \ overtaken
          BY <1>4, <2>2, <3>3
        <4>2. symbol[a] \in Found
          BY <4>1 DEF EnrichInv, EnrichmentKeeps
        <4>3. pass[p].read = symbol[a]
          BY <1>1, <3>1, <4>2 DEF EnrichInv, PassTrue
        <4> QED BY <1>2, <1>5, <1>6, <3>3, <4>2, <4>3
      <3> QED BY <3>2, <3>3
    <2> QED BY <2>1, <2>2
  <1>14. enriched' \subseteq Assets
    BY <1>2, <1>4 DEF EnrichInv
  <1> QED BY <1>7, <1>10, <1>11, <1>12, <1>13, <1>14 DEF EnrichInv

LEMMA EnrichStep == EnrichInv /\ [EnrichNext]_enrichVars => EnrichInv'
  <1> SUFFICES ASSUME EnrichInv, [EnrichNext]_enrichVars PROVE EnrichInv'
    OBVIOUS
  <1>1. ASSUME NEW a \in Assets, Discover(a) PROVE EnrichInv'
    <2>1. /\ symbol[a] = Unstored /\ symbol' = [symbol EXCEPT ![a] = Prefix]
          /\ UNCHANGED <<pass, enriched, overtaken>>
      BY <1>1 DEF Discover
    <2>2. /\ \A b \in Assets : symbol'[b] = IF b = a THEN Prefix ELSE symbol[b]
          /\ symbol' \in [Assets -> Symbols]
      BY <2>1 DEF EnrichInv, Symbols
    <2>3. IsFiniteSet(KnownTokens)'
      <3>1. KnownTokens' \in SUBSET (KnownTokens \cup {a})
        BY <2>2 DEF KnownTokens
      <3>2. IsFiniteSet(KnownTokens \cup {a})
        BY FS_AddElement DEF EnrichInv
      <3> QED BY <3>1, <3>2, FS_Subset
    <2>4. Prefix \notin Found /\ Unstored \notin Found
      BY DEF Found, Prefix, Unstored
    <2>5. ASSUME NEW p \in Passes PROVE PassTrue(pass[p])'
      <3>1. PassTrue(pass[p]) /\ pass[p] \in PassState
        BY DEF EnrichInv
      <3>2. pass[p].todo # <<>> => Head(pass[p].todo) \in Assets
        BY <3>1 DEF PassState
      <3> QED BY <2>1, <2>2, <2>4, <3>1, <3>2 DEF PassTrue
    <2>6. EnrichmentKeeps'
      <3>1. \A b : b # a => symbol'[b] = symbol[b]
        BY <2>1 DEF EnrichInv
      <3>2. a \notin enriched \ overtaken
        BY <2>1, <2>4 DEF EnrichInv, EnrichmentKeeps
      <3> QED BY <2>1, <3>1, <3>2 DEF EnrichInv, EnrichmentKeeps
    <2> QED BY <2>1, <2>2, <2>3, <2>5, <2>6 DEF EnrichInv
  <1>2. ASSUME NEW p \in Passes, EnrichToken(p) PROVE EnrichInv'
    <2>1. PICK a \in Assets, listed \in SUBSET Assets : Started(p, <<a>>, listed)
      BY <1>2 DEF EnrichToken
    <2>2. <<a>> \in Seq(Assets)
      OBVIOUS
    <2> QED BY <2>1, <2>2, StartedKeeps
  <1>3. ASSUME NEW p \in Passes, EnrichAll(p) PROVE EnrichInv'
    <2>1. PICK order \in SetToSeqs(KnownTokens), listed \in SUBSET Assets :
             Started(p, order, listed)
      BY <1>3 DEF EnrichAll, KnownTokens
    <2>2. order \in Seq(Assets)
      BY OrderTyped DEF EnrichInv, KnownTokens
    <2> QED BY <2>1, <2>2, StartedKeeps
  <1>4. ASSUME NEW p \in Passes, ReadRow(p) PROVE EnrichInv'
    <2> DEFINE a == Head(pass[p].todo)
               s == [pass[p] EXCEPT !.read = symbol[a]]
               r == [s EXCEPT !.alone = TRUE]
    <2>1. /\ pass[p].todo # <<>> /\ pass[p] \in PassState
          /\ pass' = [pass EXCEPT ![p] = r] /\ UNCHANGED <<symbol, enriched, overtaken>>
      BY <1>4 DEF ReadRow, EnrichInv
    <2>2. a \in Assets
      BY <2>1 DEF PassState
    <2>3. symbol[a] \in Symbols
      BY <2>2 DEF EnrichInv
    <2>4. s \in PassState /\ s.todo = pass[p].todo /\ s.read = symbol[a]
      BY <2>1, <2>3 DEF PassState
    <2> HIDE DEF s
    <2>5. r \in PassState /\ r.todo = pass[p].todo /\ r.read = symbol[a]
      BY <2>4 DEF PassState
    <2> HIDE DEF r
    <2>6. PassTrue(r)
      BY <2>1, <2>5 DEF PassTrue
    <2> QED BY <2>1, <2>5, <2>6, PassGoesOn
  <1>5. ASSUME NEW p \in Passes, UpsertFails(p) PROVE EnrichInv'
    <2>1. /\ pass[p] \in PassState /\ pass[p].todo # <<>>
          /\ pass' = [pass EXCEPT ![p] = Onwards(pass[p])]
          /\ UNCHANGED <<symbol, enriched, overtaken>>
      BY <1>5 DEF UpsertFails, EnrichInv, PassTrue
    <2> QED BY <2>1, OnwardsTyped, PassGoesOn
  <1>6. CASE UNCHANGED enrichVars
    BY <1>6 DEF enrichVars, EnrichInv, PassTrue, KnownTokens, EnrichmentKeeps
  <1> QED BY <1>1, <1>2, <1>3, <1>4, <1>5, <1>6, UpsertKeeps DEF EnrichNext

LEMMA EnrichInitial == EnrichInit => EnrichInv
  <1> SUFFICES ASSUME EnrichInit PROVE EnrichInv
    OBVIOUS
  <1>1. symbol = [a \in Assets |-> Unstored] /\ pass = [p \in Passes |-> Awaiting] /\ enriched = {}
    BY DEF EnrichInit
  <1>2. Awaiting \in PassState /\ PassTrue(Awaiting)
    BY DEF Awaiting, PassState, PassTrue
  <1>3. KnownTokens = {}
    BY <1>1 DEF KnownTokens
  <1>4. symbol \in [Assets -> Symbols]
    BY <1>1 DEF Symbols
  <1> QED BY <1>1, <1>2, <1>3, <1>4, FS_EmptySet DEF EnrichInv, EnrichmentKeeps

-----------------------------------------------------------------------------
(* AdminGate: a request past the guard has a key that was let in, and an      *)
(* entry belongs to a request that is over, so no later step changes what it  *)
(* says of it.                                                                *)

GateCall == [pc : {"none", "find", "update", "audit", "over"},
             key : Keys \cup {Unset}, paused : BOOLEAN, status : Nat]

\* A request beside its entry n, when A was let in.
CallTrue(r, n, A) ==
    /\ r.pc \in {"find", "update", "audit"} => \E a \in A : a.key = r.key
    /\ n # 0 => r.pc = "over" /\ n = r.status /\ \E a \in A : a.key = r.key

GateTyped ==
    /\ instant \in 0..LastInstant
    /\ ring \in RingConfig
    /\ bootedAt \in Nat
    /\ adminCall \in [AdminCalls -> GateCall]
    /\ audit \in [AdminCalls -> Nat]

KeysRetire == \A a \in admitted : a.key # Unset /\ (a.current \/ a.at < a.boot + MaxWindow)

GateInv ==
    /\ GateTyped
    /\ running => BootableRing(ring, bootedAt)
    /\ KeysRetire
    /\ \A c \in AdminCalls : CallTrue(adminCall[c], audit[c], admitted)
    /\ ~active => admitted # {}

\* One request goes on.
LEMMA CallGoesOn ==
    ASSUME GateInv, NEW c \in AdminCalls, NEW r \in GateCall, NEW n \in Nat,
           adminCall' = [adminCall EXCEPT ![c] = r], audit' = [audit EXCEPT ![c] = n],
           admitted \subseteq admitted', CallTrue(r, n, admitted')
    PROVE  /\ adminCall' \in [AdminCalls -> GateCall] /\ audit' \in [AdminCalls -> Nat]
           /\ \A d \in AdminCalls : CallTrue(adminCall'[d], audit'[d], admitted')
  <1>1. /\ \A d \in AdminCalls : adminCall'[d] = IF d = c THEN r ELSE adminCall[d]
        /\ \A d \in AdminCalls : audit'[d] = IF d = c THEN n ELSE audit[d]
    BY DEF GateInv, GateTyped
  <1>2. adminCall' \in [AdminCalls -> GateCall] /\ audit' \in [AdminCalls -> Nat]
    BY DEF GateInv, GateTyped
  <1>3. ASSUME NEW d \in AdminCalls PROVE CallTrue(adminCall'[d], audit'[d], admitted')
    <2>1. CallTrue(adminCall[d], audit[d], admitted)
      BY DEF GateInv
    <2> QED BY <1>1, <2>1 DEF CallTrue
  <1> QED BY <1>2, <1>3

\* A step of one request behind the guard, which keeps the ring and the clock.
LEMMA CallKeeps ==
    ASSUME GateInv, NEW c \in AdminCalls, NEW r \in GateCall, NEW n \in Nat,
           adminCall' = [adminCall EXCEPT ![c] = r], audit' = [audit EXCEPT ![c] = n],
           UNCHANGED <<instant, ring, running, bootedAt, admitted>>,
           CallTrue(r, n, admitted), ~active' => admitted # {}
    PROVE  GateInv'
  <1>1. /\ adminCall' \in [AdminCalls -> GateCall] /\ audit' \in [AdminCalls -> Nat]
        /\ \A d \in AdminCalls : CallTrue(adminCall'[d], audit'[d], admitted')
    BY CallGoesOn
  <1> QED BY <1>1 DEF GateInv, GateTyped, KeysRetire, BootableRing

\* A key that opens is the current one, or the previous within its window.
LEMMA AcceptedInTime ==
    ASSUME GateTyped, BootableRing(ring, bootedAt), NEW key, Accepts(ring, key, instant)
    PROVE  key # Unset /\ (key = ring.current \/ instant < bootedAt + MaxWindow)
  <1>1. /\ ring.expires \in Int /\ instant \in Int /\ bootedAt \in Int /\ MaxWindow \in Int
    BY GateAssumption DEF GateTyped, RingConfig, NoExpiry
  <1>2. key # Unset /\ (key = ring.current \/ (key = ring.previous /\ ring.expires > instant))
    BY DEF Accepts
  <1>3. CASE key = ring.previous /\ ring.expires > instant
    <2>1. ring.expires - bootedAt <= MaxWindow
      BY <1>2, <1>3 DEF BootableRing
    <2> QED BY <1>1, <1>2, <1>3, <2>1
  <1> QED BY <1>2, <1>3

LEMMA GateStep == GateInv /\ [GateNext]_gateVars => GateInv'
  <1> SUFFICES ASSUME GateInv, [GateNext]_gateVars PROVE GateInv'
    OBVIOUS
  <1>1. ASSUME NEW c \in AdminCalls
        PROVE  /\ adminCall[c] \in GateCall /\ audit[c] \in Nat
               /\ CallTrue(adminCall[c], audit[c], admitted)
               /\ audit = [audit EXCEPT ![c] = audit[c]]
    BY DEF GateInv, GateTyped
  <1>2. ASSUME NEW r \in RingConfig, Restart(r) PROVE GateInv'
    <2>1. /\ ring' = r /\ running' = BootableRing(r, instant) /\ bootedAt' = instant
          /\ UNCHANGED <<instant, active, audit, admitted>>
          /\ adminCall' = [c \in AdminCalls |-> IF adminCall[c].pc = "none" THEN Unborn
                                                ELSE [adminCall[c] EXCEPT !.pc = "over"]]
      BY <1>2 DEF Restart
    <2>2. ASSUME NEW c \in AdminCalls
          PROVE  adminCall'[c] \in GateCall /\ CallTrue(adminCall'[c], audit[c], admitted)
      <3>1. CASE adminCall[c].pc = "none"
        <4>1. adminCall'[c] = Unborn /\ audit[c] = 0
          BY <1>1, <2>1, <3>1 DEF CallTrue
        <4>2. Unborn \in GateCall /\ Unborn.pc = "none"
          BY DEF Unborn, GateCall
        <4> QED BY <4>1, <4>2 DEF CallTrue
      <3>2. CASE adminCall[c].pc # "none"
        <4> DEFINE s == [adminCall[c] EXCEPT !.pc = "over"]
        <4>1. adminCall'[c] = s
          BY <2>1, <3>2
        <4>2. /\ s \in GateCall /\ s.pc = "over"
              /\ s.key = adminCall[c].key /\ s.status = adminCall[c].status
          BY <1>1 DEF GateCall
        <4> HIDE DEF s
        <4> QED BY <1>1, <4>1, <4>2 DEF CallTrue
      <3> QED BY <3>1, <3>2
    <2>3. adminCall' \in [AdminCalls -> GateCall]
      BY <2>1, <2>2
    <2>4. GateTyped'
      BY <2>1, <2>3 DEF GateInv, GateTyped
    <2>5. running' => BootableRing(ring, bootedAt)'
      BY <2>1 DEF BootableRing
    <2> QED BY <2>1, <2>2, <2>4, <2>5 DEF GateInv, KeysRetire
  <1>3. CASE Elapse
    <2>1. instant' \in 0..LastInstant
      BY <1>3, GateAssumption DEF Elapse, GateInv, GateTyped
    <2> QED BY <1>3, <2>1 DEF Elapse, GateInv, GateTyped, KeysRetire, BootableRing
  <1>4. ASSUME NEW c \in AdminCalls, NEW key \in Keys \cup {Unset}, NEW paused \in BOOLEAN,
               Present(c, key, paused)
        PROVE GateInv'
    <2>1. /\ running /\ adminCall[c].pc = "none"
          /\ UNCHANGED <<instant, ring, running, bootedAt, active, audit, boots>>
      BY <1>4 DEF Present
    <2>2. audit[c] = 0
      BY <1>1, <2>1 DEF CallTrue
    <2>3. CASE Accepts(ring, key, instant)
      <3> DEFINE r == [pc |-> "find", key |-> key, paused |-> paused, status |-> 0]
                 a == [key |-> key, at |-> instant, boot |-> bootedAt,
                       current |-> key = ring.current]
      <3>1. adminCall' = [adminCall EXCEPT ![c] = r] /\ admitted' = admitted \cup {a}
        BY <1>4, <2>3 DEF Present
      <3>2. r \in GateCall /\ r.pc = "find" /\ r.key = key
        BY DEF GateCall
      <3>3. a.key = key /\ a.at = instant /\ a.boot = bootedAt /\ a.current = (key = ring.current)
        OBVIOUS
      <3> HIDE DEF r, a
      <3>4. CallTrue(r, audit[c], admitted')
        BY <2>2, <3>1, <3>2, <3>3 DEF CallTrue
      <3>5. audit' = [audit EXCEPT ![c] = audit[c]]
        BY <1>1, <2>1
      <3>6. /\ adminCall' \in [AdminCalls -> GateCall] /\ audit' \in [AdminCalls -> Nat]
            /\ \A d \in AdminCalls : CallTrue(adminCall'[d], audit'[d], admitted')
        BY <1>1, <3>1, <3>2, <3>4, <3>5, CallGoesOn
      <3>7. a.key # Unset /\ (a.current \/ a.at < a.boot + MaxWindow)
        BY <2>1, <2>3, <3>3, AcceptedInTime DEF GateInv
      <3>8. KeysRetire'
        BY <3>1, <3>7 DEF GateInv, KeysRetire
      <3> QED BY <2>1, <3>1, <3>6, <3>8 DEF GateInv, GateTyped, BootableRing
    <2>4. CASE ~Accepts(ring, key, instant)
      <3> DEFINE s == [Unborn EXCEPT !.pc = "over"]
                 r == [s EXCEPT !.status = 401]
      <3>1. adminCall' = [adminCall EXCEPT ![c] = r] /\ admitted' = admitted
        BY <1>4, <2>4 DEF Present
      <3>2. s \in GateCall /\ s.pc = "over"
        BY DEF Unborn, GateCall
      <3> HIDE DEF s
      <3>3. r \in GateCall /\ r.pc = "over"
        BY <3>2 DEF GateCall
      <3> HIDE DEF r
      <3>4. CallTrue(r, audit[c], admitted)
        BY <2>2, <3>3 DEF CallTrue
      <3>5. audit' = [audit EXCEPT ![c] = audit[c]]
        BY <1>1, <2>1
      <3> QED BY <1>1, <2>1, <3>1, <3>3, <3>4, <3>5, CallKeeps DEF GateInv
    <2> QED BY <2>3, <2>4
  <1>5. ASSUME NEW c \in AdminCalls, FindPool(c) PROVE GateInv'
    <2>1. PICK next \in {[pc |-> "update", status |-> 0], [pc |-> "audit", status |-> 404],
                         [pc |-> "audit", status |-> 500]} :
             adminCall' = [adminCall EXCEPT ![c].pc = next.pc, ![c].status = next.status]
      BY <1>5 DEF FindPool
    <2> DEFINE s == [adminCall[c] EXCEPT !.pc = next.pc]
               r == [s EXCEPT !.status = next.status]
    <2>2. /\ adminCall[c].pc = "find" /\ adminCall' = [adminCall EXCEPT ![c] = r]
          /\ UNCHANGED <<instant, ring, running, bootedAt, active, audit, admitted>>
      <3>1. /\ adminCall[c].pc = "find"
            /\ UNCHANGED <<instant, ring, running, bootedAt, active, audit, admitted>>
        BY <1>5 DEF FindPool
      <3>2. adminCall \in [AdminCalls -> GateCall]
        BY ONLY <1>1, GateInv, Zenon DEF GateInv, GateTyped
      <3>3. adminCall' = [adminCall EXCEPT ![c] = r]
        BY <2>1, <3>2, ZenonT(30)
      <3> QED BY ONLY <3>1, <3>3, Zenon
    <2>3. next.pc \in {"update", "audit"} /\ next.status \in Nat
      OBVIOUS
    <2>4. s \in GateCall /\ s.pc = next.pc /\ s.key = adminCall[c].key
      BY <1>1, <2>3 DEF GateCall
    <2> HIDE DEF s
    <2>5. r \in GateCall /\ r.pc = next.pc /\ r.key = adminCall[c].key
      BY <2>3, <2>4 DEF GateCall
    <2> HIDE DEF r
    <2>6. CallTrue(r, audit[c], admitted)
      BY <1>1, <2>2, <2>3, <2>5 DEF CallTrue
    <2>7. audit' = [audit EXCEPT ![c] = audit[c]]
      BY <1>1, <2>2
    <2> QED BY <1>1, <2>2, <2>5, <2>6, <2>7, CallKeeps DEF GateInv
  <1>6. ASSUME NEW c \in AdminCalls, SetPaused(c) PROVE GateInv'
    <2>1. PICK next \in {[pc |-> "audit", status |-> 200], [pc |-> "audit", status |-> 500]} :
             adminCall' = [adminCall EXCEPT ![c].pc = next.pc, ![c].status = next.status]
      BY <1>6 DEF SetPaused
    <2> DEFINE s == [adminCall[c] EXCEPT !.pc = next.pc]
               r == [s EXCEPT !.status = next.status]
    <2>2. /\ adminCall[c].pc = "update" /\ adminCall' = [adminCall EXCEPT ![c] = r]
          /\ UNCHANGED <<instant, ring, running, bootedAt, audit, admitted>>
      <3>1. adminCall' = [adminCall EXCEPT ![c] = r]
        BY <2>1 DEF GateInv, GateTyped
      <3> QED BY <1>6, <3>1 DEF SetPaused
    <2>3. s \in GateCall /\ s.pc = "audit" /\ s.key = adminCall[c].key
      BY <1>1 DEF GateCall
    <2> HIDE DEF s
    <2>4. r \in GateCall /\ r.pc = "audit" /\ r.key = adminCall[c].key
      BY <1>1, <2>3 DEF GateCall
    <2> HIDE DEF r
    <2>5. CallTrue(r, audit[c], admitted)
      BY <1>1, <2>2, <2>4 DEF CallTrue
    <2>6. audit' = [audit EXCEPT ![c] = audit[c]]
      BY <1>1, <2>2
    <2>7. ~active' => admitted # {}
      BY <1>1, <2>2 DEF CallTrue
    <2>8. audit[c] \in Nat
      BY <1>1
    <2>9. /\ adminCall' \in [AdminCalls -> GateCall] /\ audit' \in [AdminCalls -> Nat]
          /\ \A d \in AdminCalls : CallTrue(adminCall'[d], audit'[d], admitted')
      BY <2>2, <2>4, <2>5, <2>6, <2>8, CallGoesOn
    <2> QED BY <2>2, <2>7, <2>9 DEF GateInv, GateTyped, KeysRetire, BootableRing
  <1>7. ASSUME NEW c \in AdminCalls, WriteAudit(c) PROVE GateInv'
    <2> DEFINE r == [adminCall[c] EXCEPT !.pc = "over"]
    <2>1. /\ adminCall[c].pc = "audit" /\ adminCall' = [adminCall EXCEPT ![c] = r]
          /\ UNCHANGED <<instant, ring, running, bootedAt, active, admitted>>
      BY <1>7 DEF WriteAudit, GateInv, GateTyped
    <2>2. PICK n \in {audit[c], adminCall[c].status} : audit' = [audit EXCEPT ![c] = n]
      BY <1>1, <1>7 DEF WriteAudit
    <2>3. /\ r \in GateCall /\ r.pc = "over"
          /\ r.key = adminCall[c].key /\ r.status = adminCall[c].status
      BY <1>1 DEF GateCall
    <2> HIDE DEF r
    <2>4. adminCall[c].status \in Nat /\ audit[c] = 0 /\ \E a \in admitted : a.key = adminCall[c].key
      BY <1>1, <2>1 DEF GateCall, CallTrue
    <2>5. n \in Nat /\ CallTrue(r, n, admitted)
      BY <2>2, <2>3, <2>4 DEF CallTrue
    <2> QED BY <2>1, <2>2, <2>3, <2>5, CallKeeps DEF GateInv
  <1>8. CASE UNCHANGED gateVars
    BY <1>8 DEF gateVars, GateInv, GateTyped, KeysRetire, BootableRing
  <1> QED BY <1>2, <1>3, <1>4, <1>5, <1>6, <1>7, <1>8 DEF GateNext

LEMMA GateInitial == GateInit => GateInv
  <1> SUFFICES ASSUME GateInit PROVE GateInv
    OBVIOUS
  <1>1. Unborn \in GateCall /\ CallTrue(Unborn, 0, admitted)
    BY DEF Unborn, GateCall, CallTrue
  <1>2. GateTyped
    BY <1>1, GateAssumption DEF GateInit, GateTyped, RingConfig
  <1> QED BY <1>1, <1>2 DEF GateInit, GateInv, KeysRetire

LEMMA GateMeans == GateInv => RotatedKeysRetire
  BY DEF GateInv, KeysRetire, CallTrue, RotatedKeysRetire

-----------------------------------------------------------------------------
(* The replay guard: how many were admitted since an instant, which bounds every *)
(* span that begins there. Requests are admitted at the clock's instant, so a *)
(* window that is over has admitted nobody since its end; and a window of an  *)
(* earlier process may only reach into the span before the present one.       *)

GuardTyped ==
    /\ moment \in Nat /\ moment >= WindowMs
    /\ limiter \in [start : Nat, count : 0..PerWindow]
    /\ presented \in [Operators -> [outcome : Outcomes, at : Nat, wait : Int]]
    /\ reboots \in Nat

Since(x) == {o \in Operators : presented[o].outcome = "allowed" /\ presented[o].at >= x}

Crowd(x) == Cardinality(Since(x))

\* What earlier processes may have admitted.
Spent == reboots * PerWindow

\* A limiter that has admitted nobody: what there is, an earlier process let in.
WindowUnopened ==
    limiter.count = 0 =>
        /\ limiter.start = 0
        /\ \A x \in Int : /\ x >= moment => Crowd(x) <= Spent
                          /\ x > moment - WindowMs => Crowd(x) <= Spent + PerWindow
        /\ reboots = 0 => Since(0) = {}

WindowOpened ==
    limiter.count > 0 =>
        /\ limiter.start <= moment
        /\ \A o \in Operators : presented[o].outcome = "allowed" =>
              presented[o].at < limiter.start + WindowMs
        /\ \A x \in Int :
              /\ x >= limiter.start => Crowd(x) <= Spent + limiter.count
              /\ x > limiter.start - WindowMs => Crowd(x) <= Spent + PerWindow + limiter.count
        /\ reboots = 0 => Crowd(limiter.start) = limiter.count

PresentedTrue ==
    \A o \in Operators :
        /\ presented[o].outcome = "allowed" => presented[o].at <= moment
        /\ presented[o].outcome = "rate_limited" => presented[o].wait \in 1..WindowMs

SpansBounded ==
    \A from \in Int : Admitted(from, from + WindowMs - 1) <= Spent + PerWindow + PerWindow

GuardInv ==
    /\ GuardTyped
    /\ IsFiniteSet(Since(0))
    /\ PresentedTrue
    /\ WindowUnopened
    /\ WindowOpened
    /\ SpansBounded

LEMMA SpentTyped == ASSUME reboots \in Nat PROVE Spent \in Nat
  BY GuardAssumption DEF Spent

LEMMA CrowdTyped ==
    ASSUME GuardInv, NEW x \in Int
    PROVE  IsFiniteSet(Since(x)) /\ Crowd(x) \in Nat /\ Since(x) \subseteq Since(0)
  <1>1. \A o \in Operators : presented[o].at \in Nat
    BY DEF GuardInv, GuardTyped
  <1>2. Since(x) \subseteq Since(0)
    BY <1>1 DEF Since
  <1>3. IsFiniteSet(Since(x))
    BY <1>2, FS_Subset DEF GuardInv
  <1> QED BY <1>2, <1>3, FS_CardinalityType DEF Crowd

LEMMA SpanTyped ==
    ASSUME GuardInv, NEW first \in Int, NEW last \in Int
    PROVE  Admitted(first, last) \in Nat
  <1> DEFINE S == {p \in Operators : /\ presented[p].outcome = "allowed"
                                     /\ presented[p].at \in first..last}
  <1>1. S \subseteq Since(0)
    BY DEF Since, GuardInv, GuardTyped
  <1>2. IsFiniteSet(S)
    BY <1>1, FS_Subset DEF GuardInv
  <1> QED BY <1>2, FS_CardinalityType DEF Admitted

\* A request that is not admitted changes no count.
LEMMA NotCounted ==
    ASSUME GuardInv, NEW o \in Operators, NEW r, presented[o].outcome = "none",
           presented' = [presented EXCEPT ![o] = r], r.outcome # "allowed"
    PROVE  /\ \A x : Since(x)' = Since(x) /\ Crowd(x)' = Crowd(x)
           /\ \A first, last : Admitted(first, last)' = Admitted(first, last)
  <1>1. \A p \in Operators : presented'[p] = IF p = o THEN r ELSE presented[p]
    BY DEF GuardInv, GuardTyped
  <1>2. ASSUME NEW x PROVE Since(x)' = Since(x)
    BY <1>1 DEF Since
  <1>3. ASSUME NEW first, NEW last
        PROVE  {p \in Operators : /\ presented'[p].outcome = "allowed"
                                  /\ presented'[p].at \in first..last} =
               {p \in Operators : /\ presented[p].outcome = "allowed"
                                  /\ presented[p].at \in first..last}
    BY <1>1
  <1> QED BY ONLY <1>2, <1>3, Zenon DEF Crowd, Admitted

\* One that is admitted counts from now backwards.
LEMMA CountedNow ==
    ASSUME GuardInv, NEW o \in Operators, NEW r, presented[o].outcome = "none",
           presented' = [presented EXCEPT ![o] = r], r.outcome = "allowed", r.at = moment
    PROVE  /\ IsFiniteSet(Since(0))'
           /\ \A x \in Int : Crowd(x)' = IF x <= moment THEN Crowd(x) + 1 ELSE Crowd(x)
           /\ \A from \in Int : Admitted(from, from + WindowMs - 1)' <=
                 IF from <= moment /\ moment < from + WindowMs
                 THEN Crowd(from)' ELSE Admitted(from, from + WindowMs - 1)
  <1>1. \A p \in Operators : presented'[p] = IF p = o THEN r ELSE presented[p]
    BY DEF GuardInv, GuardTyped
  <1>2. moment \in Nat /\ WindowMs \in Nat
    BY GuardAssumption DEF GuardInv, GuardTyped
  <1>3. ASSUME NEW x \in Int
        PROVE  Since(x)' = (IF x <= moment THEN Since(x) \cup {o} ELSE Since(x)) /\ o \notin Since(x)
    BY <1>1, <1>2 DEF Since
  <1>4. ASSUME NEW x \in Int
        PROVE  /\ IsFiniteSet(Since(x)')
               /\ Crowd(x)' = IF x <= moment THEN Crowd(x) + 1 ELSE Crowd(x)
    <2>1. IsFiniteSet(Since(x))
      BY CrowdTyped
    <2>2. IsFiniteSet(Since(x) \cup {o}) /\ Cardinality(Since(x) \cup {o}) = Cardinality(Since(x)) + 1
      BY <1>3, <2>1, FS_AddElement
    <2> QED BY <1>3, <2>1, <2>2 DEF Crowd
  <1>5. ASSUME NEW from \in Int
        PROVE  Admitted(from, from + WindowMs - 1)' <=
                 IF from <= moment /\ moment < from + WindowMs
                 THEN Crowd(from)' ELSE Admitted(from, from + WindowMs - 1)
    <2> DEFINE Then == {p \in Operators : /\ presented'[p].outcome = "allowed"
                                          /\ presented'[p].at \in from..(from + WindowMs - 1)}
               Now == {p \in Operators : /\ presented[p].outcome = "allowed"
                                         /\ presented[p].at \in from..(from + WindowMs - 1)}
    <2>1. /\ Admitted(from, from + WindowMs - 1)' = Cardinality(Then)
          /\ Admitted(from, from + WindowMs - 1) = Cardinality(Now)
      BY DEF Admitted
    <2>2. CASE from <= moment /\ moment < from + WindowMs
      <3>1. Then \subseteq Since(from)'
        BY <1>2 DEF Since
      <3>2. Cardinality(Then) <= Cardinality(Since(from)')
        BY <1>4, <3>1, FS_Subset
      <3> QED BY <2>1, <2>2, <3>2 DEF Crowd
    <2>3. CASE ~(from <= moment /\ moment < from + WindowMs)
      <3>1. moment \notin from..(from + WindowMs - 1)
        BY <1>2, <2>3
      <3>2. Then = Now
        BY <1>1, <3>1
      <3>3. Now \subseteq Since(from)
        BY <1>2 DEF Since, GuardInv, GuardTyped
      <3>4. Cardinality(Now) \in Nat
        BY <3>3, CrowdTyped, FS_Subset, FS_CardinalityType
      <3> HIDE DEF Then, Now
      <3>5. Admitted(from, from + WindowMs - 1)' <= Admitted(from, from + WindowMs - 1)
        BY <2>1, <3>2, <3>4
      <3> QED BY <2>3, <3>5
    <2> QED BY <2>2, <2>3
  <1>6. IsFiniteSet(Since(0))'
    BY <1>4
  <1> QED BY <1>4, <1>5, <1>6

\* One more in a window that has k - 1, begun at s.
LEMMA OneMore ==
    ASSUME GuardInv, NEW o \in Operators, presented[o].outcome = "none",
           NEW s \in Nat, NEW k \in 1..PerWindow, s <= moment, moment < s + WindowMs,
           presented' = [presented EXCEPT ![o] = [outcome |-> "allowed", at |-> moment, wait |-> 0]],
           UNCHANGED <<moment, reboots>>, limiter' = [start |-> s, count |-> k],
           \A p \in Operators : presented[p].outcome = "allowed" => presented[p].at < s + WindowMs,
           \A x \in Int : /\ x >= s => Crowd(x) <= Spent + k - 1
                          /\ x > s - WindowMs => Crowd(x) <= Spent + PerWindow + k - 1,
           reboots = 0 => Crowd(s) = k - 1
    PROVE  GuardInv'
  <1> DEFINE r == [outcome |-> "allowed", at |-> moment, wait |-> 0]
  <1>1. /\ moment \in Nat /\ WindowMs \in Nat \ {0} /\ PerWindow \in Nat \ {0}
        /\ Spent \in Nat /\ Spent' = Spent /\ reboots \in Nat
    BY GuardAssumption, SpentTyped DEF GuardInv, GuardTyped, Spent
  <1>2. r.outcome = "allowed" /\ r.at = moment
    OBVIOUS
  <1>3. r \in [outcome : Outcomes, at : Nat, wait : Int]
    BY <1>1 DEF Outcomes
  <1>4. \A p \in Operators : presented'[p] = IF p = o THEN r ELSE presented[p]
    BY DEF GuardInv, GuardTyped
  <1>5. GuardTyped'
    <2>1. presented' \in [Operators -> [outcome : Outcomes, at : Nat, wait : Int]]
      BY <1>3 DEF GuardInv, GuardTyped
    <2>2. limiter' \in [start : Nat, count : 0..PerWindow]
      BY <1>1
    <2> QED BY <2>1, <2>2 DEF GuardInv, GuardTyped
  <1> HIDE DEF r
  <1>6. /\ IsFiniteSet(Since(0))'
        /\ \A x \in Int : Crowd(x)' = IF x <= moment THEN Crowd(x) + 1 ELSE Crowd(x)
        /\ \A from \in Int : Admitted(from, from + WindowMs - 1)' <=
              IF from <= moment /\ moment < from + WindowMs
              THEN Crowd(from)' ELSE Admitted(from, from + WindowMs - 1)
    BY <1>2, CountedNow DEF r
  <1>7. \A x \in Int : Crowd(x) \in Nat
    BY CrowdTyped
  <1>8. PresentedTrue'
    BY <1>1, <1>2, <1>4 DEF GuardInv, PresentedTrue
  <1>9. limiter'.start = s /\ limiter'.count = k
    OBVIOUS
  <1>10. WindowUnopened'
    BY <1>9 DEF WindowUnopened
  <1>11. ASSUME NEW x \in Int
         PROVE  /\ x >= s => Crowd(x)' <= Spent + k
                /\ x > s - WindowMs => Crowd(x)' <= Spent + PerWindow + k
    <2>1. Crowd(x)' <= Crowd(x) + 1 /\ Crowd(x) \in Nat /\ Crowd(x)' \in Nat
      <3>1. Crowd(x) \in Nat
        BY <1>7, Zenon
      <3>2. Crowd(x)' = IF x <= moment THEN Crowd(x) + 1 ELSE Crowd(x)
        BY <1>6, Zenon
      <3> QED BY ONLY <3>1, <3>2
    <2>2. CASE x >= s
      <3>1. Crowd(x) <= Spent + k - 1
        BY <2>2
      <3> QED BY <1>1, <2>1, <2>2, <3>1
    <2>3. CASE x > s - WindowMs
      <3>1. Crowd(x) <= Spent + PerWindow + k - 1
        BY <2>3
      <3>2. Crowd(x)' <= Spent + PerWindow + k
        BY <1>1, <2>1, <3>1
      <3> QED BY <2>2, <3>2
    <2> QED BY <2>2, <2>3
  <1>12. reboots = 0 => Crowd(s)' = k
    <2>1. Crowd(s)' = Crowd(s) + 1
      BY <1>6
    <2> QED BY <1>7, <2>1
  <1>13. WindowOpened'
    <2>1. \A p \in Operators : presented'[p].outcome = "allowed" => presented'[p].at < s + WindowMs
      BY <1>1, <1>2, <1>4
    <2> QED BY <1>1, <1>9, <1>11, <1>12, <2>1 DEF WindowOpened
  <1>14. SpansBounded'
    <2> SUFFICES ASSUME NEW from \in Int
                 PROVE Admitted(from, from + WindowMs - 1)' <= Spent + PerWindow + PerWindow
      BY <1>1 DEF SpansBounded
    <2>1. CASE from <= moment /\ moment < from + WindowMs
      <3>1. from > s - WindowMs
        BY <1>1, <2>1
      <3>2. Crowd(from)' <= Spent + PerWindow + k
        BY <1>11, <3>1
      <3>3. Admitted(from, from + WindowMs - 1)' <= Crowd(from)'
        BY <1>6, <2>1
      <3>4. Crowd(from)' \in Nat
        BY <1>6, <1>7, <2>1
      <3>5. Admitted(from, from + WindowMs - 1)' \in Int
        <4> DEFINE S == {p \in Operators : /\ presented'[p].outcome = "allowed"
                                           /\ presented'[p].at \in from..(from + WindowMs - 1)}
        <4>1. S \subseteq Since(0)'
          BY <1>5 DEF Since, GuardTyped
        <4>2. IsFiniteSet(S)
          BY <1>6, <4>1, FS_Subset
        <4> QED BY <4>2, FS_CardinalityType DEF Admitted
      <3> QED BY <1>1, <3>2, <3>3, <3>4, <3>5
    <2>2. CASE ~(from <= moment /\ moment < from + WindowMs)
      <3>1. /\ Admitted(from, from + WindowMs - 1)' <= Admitted(from, from + WindowMs - 1)
            /\ Admitted(from, from + WindowMs - 1) <= Spent + PerWindow + PerWindow
        BY <1>6, <2>2 DEF GuardInv, SpansBounded
      <3>2. /\ Admitted(from, from + WindowMs - 1)' \in Int
            /\ Admitted(from, from + WindowMs - 1) \in Int
        <4> DEFINE S == {p \in Operators : /\ presented'[p].outcome = "allowed"
                                           /\ presented'[p].at \in from..(from + WindowMs - 1)}
                   T == {p \in Operators : /\ presented[p].outcome = "allowed"
                                           /\ presented[p].at \in from..(from + WindowMs - 1)}
        <4>1. S \subseteq Since(0)' /\ T \subseteq Since(0)
          BY <1>5 DEF Since, GuardInv, GuardTyped
        <4>2. IsFiniteSet(S) /\ IsFiniteSet(T)
          BY <1>6, <4>1, FS_Subset DEF GuardInv
        <4> QED BY <4>2, FS_CardinalityType DEF Admitted
      <3> QED BY <1>1, <3>1, <3>2
    <2> QED BY <2>1, <2>2
  <1> QED BY <1>5, <1>6, <1>8, <1>10, <1>13, <1>14 DEF GuardInv

\* A step that admits nobody, in the same window or in a process of its own.
LEMMA GuardWaits ==
    ASSUME GuardInv, Wait
    PROVE  GuardInv'
  <1>1. /\ moment' = moment + 1 /\ moment \in Nat /\ WindowMs \in Nat
        /\ UNCHANGED <<limiter, presented, reboots>>
    BY GuardAssumption DEF Wait, GuardInv, GuardTyped
  <1>2. /\ \A x : Since(x)' = Since(x) /\ Crowd(x)' = Crowd(x)
        /\ \A first, last : Admitted(first, last)' = Admitted(first, last)
        /\ Spent' = Spent
    BY <1>1 DEF Since, Crowd, Admitted, Spent
  <1>3. GuardTyped'
    BY <1>1 DEF GuardInv, GuardTyped
  <1>4. PresentedTrue'
    BY <1>1 DEF GuardInv, GuardTyped, PresentedTrue
  <1>5. WindowUnopened'
    BY <1>1, <1>2 DEF GuardInv, WindowUnopened
  <1>6. WindowOpened'
    <2>1. limiter.start \in Nat
      BY DEF GuardInv, GuardTyped
    <2> QED BY <1>1, <1>2, <2>1 DEF GuardInv, WindowOpened
  <1>7. SpansBounded'
    BY <1>2 DEF GuardInv, SpansBounded
  <1> QED BY <1>1, <1>2, <1>3, <1>4, <1>5, <1>6, <1>7 DEF GuardInv

LEMMA GuardReboots ==
    ASSUME GuardInv, Reboot
    PROVE  GuardInv'
  <1>1. /\ reboots' = reboots + 1 /\ limiter' = [start |-> 0, count |-> 0]
        /\ UNCHANGED <<moment, presented>>
    BY DEF Reboot
  <1>2. /\ moment \in Nat /\ WindowMs \in Nat \ {0} /\ PerWindow \in Nat \ {0} /\ reboots \in Nat
        /\ limiter.start \in Nat /\ limiter.count \in 0..PerWindow /\ moment >= WindowMs
    BY GuardAssumption DEF GuardInv, GuardTyped
  <1>3. Spent \in Nat /\ Spent' = Spent + PerWindow
    BY <1>1, <1>2, SpentTyped DEF Spent
  <1>4. /\ \A x : Since(x)' = Since(x) /\ Crowd(x)' = Crowd(x)
        /\ \A first, last : Admitted(first, last)' = Admitted(first, last)
    BY <1>1 DEF Since, Crowd, Admitted
  <1>5. GuardTyped'
    <2>1. limiter' \in [start : Nat, count : 0..PerWindow]
      BY <1>1, <1>2
    <2> QED BY <1>1, <1>2, <2>1 DEF GuardInv, GuardTyped
  <1>6. PresentedTrue'
    BY <1>1 DEF GuardInv, PresentedTrue
  <1>7. ASSUME NEW x \in Int
        PROVE  /\ x >= moment => Crowd(x) <= Spent + PerWindow
               /\ x > moment - WindowMs => Crowd(x) <= Spent + PerWindow + PerWindow
    <2>1. Crowd(x) \in Nat
      BY CrowdTyped
    <2>2. CASE limiter.count = 0
      <3>1. /\ x >= moment => Crowd(x) <= Spent
            /\ x > moment - WindowMs => Crowd(x) <= Spent + PerWindow
        BY <2>2 DEF GuardInv, WindowUnopened
      <3> QED BY <1>2, <1>3, <2>1, <3>1
    <2>3. CASE limiter.count > 0
      <3>1. /\ limiter.start <= moment
            /\ x >= limiter.start => Crowd(x) <= Spent + limiter.count
            /\ x > limiter.start - WindowMs => Crowd(x) <= Spent + PerWindow + limiter.count
        BY <2>3 DEF GuardInv, WindowOpened
      <3>2. ASSUME x >= moment PROVE Crowd(x) <= Spent + PerWindow
        <4>1. x >= limiter.start
          BY <1>2, <3>1, <3>2
        <4> QED BY <1>2, <1>3, <2>1, <3>1, <4>1
      <3>3. ASSUME x > moment - WindowMs PROVE Crowd(x) <= Spent + PerWindow + PerWindow
        <4>1. x > limiter.start - WindowMs
          BY <1>2, <3>1, <3>3
        <4> QED BY <1>2, <1>3, <2>1, <3>1, <4>1
      <3> QED BY <3>2, <3>3
    <2> QED BY <1>2, <2>2, <2>3
  <1>8. WindowUnopened'
    BY <1>1, <1>2, <1>3, <1>4, <1>7 DEF WindowUnopened
  <1>9. WindowOpened'
    BY <1>1 DEF WindowOpened
  <1>10. SpansBounded'
    <2> SUFFICES ASSUME NEW from \in Int
                 PROVE Admitted(from, from + WindowMs - 1) <= Spent + PerWindow + PerWindow + PerWindow
      BY <1>3, <1>4 DEF SpansBounded
    <2>1. Admitted(from, from + WindowMs - 1) <= Spent + PerWindow + PerWindow
      BY DEF GuardInv, SpansBounded
    <2>2. Admitted(from, from + WindowMs - 1) \in Int
      BY <1>2, SpanTyped
    <2> QED BY <1>2, <1>3, <2>1, <2>2
  <1> QED BY <1>4, <1>5, <1>6, <1>8, <1>9, <1>10 DEF GuardInv

\* A request that is turned away, with the limiter as it is.
LEMMA TurnedAway ==
    ASSUME GuardInv, NEW o \in Operators, presented[o].outcome = "none",
           NEW r \in [outcome : Outcomes, at : Nat, wait : Int],
           presented' = [presented EXCEPT ![o] = r], r.outcome # "allowed",
           r.outcome = "rate_limited" => r.wait \in 1..WindowMs,
           UNCHANGED <<moment, reboots, limiter>>
    PROVE  GuardInv'
  <1>1. /\ \A x : Since(x)' = Since(x) /\ Crowd(x)' = Crowd(x)
        /\ \A first, last : Admitted(first, last)' = Admitted(first, last)
    BY NotCounted
  <1>2. \A p \in Operators : presented'[p] = IF p = o THEN r ELSE presented[p]
    BY DEF GuardInv, GuardTyped
  <1>3. GuardTyped'
    BY DEF GuardInv, GuardTyped
  <1>4. PresentedTrue'
    BY <1>2 DEF GuardInv, PresentedTrue
  <1>5. Spent' = Spent
    BY DEF Spent
  <1>6. WindowUnopened'
    BY <1>1, <1>5 DEF GuardInv, WindowUnopened
  <1>7. WindowOpened'
    BY <1>1, <1>2, <1>5 DEF GuardInv, WindowOpened
  <1>8. SpansBounded'
    BY <1>1, <1>5 DEF GuardInv, SpansBounded
  <1> QED BY <1>1, <1>3, <1>4, <1>6, <1>7, <1>8 DEF GuardInv

\* canActivate once the credentials and the switches have passed.
LEMMA GuardTakes ==
    ASSUME GuardInv, NEW o \in Operators, presented[o].outcome = "none",
           NEW limit, limit = (IF Over(limiter.start) THEN [start |-> moment, count |-> 0] ELSE limiter),
           NEW wait, wait = (IF limit.count >= PerWindow THEN limit.start + WindowMs - moment ELSE 0),
           presented' = [presented EXCEPT ![o] =
               [outcome |-> IF wait > 0 THEN "rate_limited" ELSE "allowed",
                at |-> moment, wait |-> wait]],
           limiter' = (IF limit.count >= PerWindow THEN limit ELSE [limit EXCEPT !.count = @ + 1]),
           UNCHANGED <<moment, reboots>>
    PROVE  GuardInv'
  <1>1. /\ moment \in Nat /\ WindowMs \in Nat \ {0} /\ PerWindow \in Nat \ {0} /\ reboots \in Nat
        /\ limiter.start \in Nat /\ limiter.count \in 0..PerWindow /\ moment >= WindowMs
        /\ limiter \in [start : Nat, count : 0..PerWindow] /\ Spent \in Nat
    BY GuardAssumption, SpentTyped DEF GuardInv, GuardTyped
  <1>2. \A x \in Int : Crowd(x) \in Nat
    BY CrowdTyped
  <1>3. CASE Over(limiter.start)
    <2>1. limit = [start |-> moment, count |-> 0] /\ wait = 0
      BY <1>1, <1>3
    <2>2. /\ limiter' = [start |-> moment, count |-> 1]
          /\ presented' = [presented EXCEPT ![o] = [outcome |-> "allowed", at |-> moment, wait |-> 0]]
      <3>1. limit.count = 0 /\ ~(limit.count >= PerWindow) /\ ~(wait > 0)
        BY <1>1, <2>1
      <3>2. limiter' = [limit EXCEPT !.count = @ + 1]
        BY <3>1
      <3>3. limiter' = [start |-> moment, count |-> 1]
        BY <2>1, <3>2
      <3> QED BY <2>1, <3>1, <3>3
    <2>3. \A p \in Operators : presented[p].outcome = "allowed" => presented[p].at < moment + WindowMs
      BY <1>1, SMTT(30) DEF GuardInv, GuardTyped, PresentedTrue
    <2>4. CASE limiter.count = 0
      <3>1. \A x \in Int : /\ x >= moment => Crowd(x) <= Spent + 1 - 1
                           /\ x > moment - WindowMs => Crowd(x) <= Spent + PerWindow + 1 - 1
        BY <1>1, <1>2, <2>4 DEF GuardInv, WindowUnopened
      <3>2. reboots = 0 => Crowd(moment) = 1 - 1
        <4>1. Since(moment) \subseteq Since(0)
          BY <1>1, CrowdTyped
        <4>2. reboots = 0 => Since(moment) = {}
          BY <2>4, <4>1 DEF GuardInv, WindowUnopened
        <4>3. reboots = 0 => Crowd(moment) = 0
          BY ONLY <4>2, FS_EmptySet, Zenon DEF Crowd
        <4> QED BY ONLY <4>3
      <3>3. moment <= moment /\ moment < moment + WindowMs /\ 1 \in 1..PerWindow
        BY <1>1
      <3> QED BY <1>1, <2>2, <2>3, <3>1, <3>2, <3>3, OneMore
    <2>5. CASE limiter.count > 0
      <3>1. ASSUME NEW x \in Int, x >= moment PROVE Crowd(x) = 0
        <4>1. \A p \in Operators : presented[p].outcome = "allowed" =>
                 presented[p].at \in Nat /\ presented[p].at < moment
          BY <1>1, <1>3, <2>5 DEF Over, GuardInv, GuardTyped, WindowOpened
        <4>2. Since(x) = {}
          BY <1>1, <3>1, <4>1 DEF Since
        <4> QED BY ONLY <4>2, FS_EmptySet, Zenon DEF Crowd
      <3>2. ASSUME NEW x \in Int, x > moment - WindowMs PROVE Crowd(x) <= Spent + PerWindow
        <4>1. x >= limiter.start
          BY <1>1, <1>3, <3>2 DEF Over
        <4>2. Crowd(x) <= Spent + limiter.count
          BY <2>5, <4>1 DEF GuardInv, WindowOpened
        <4> QED BY <1>1, <1>2, <4>2
      <3>3. \A x \in Int : /\ x >= moment => Crowd(x) <= Spent + 1 - 1
                           /\ x > moment - WindowMs => Crowd(x) <= Spent + PerWindow + 1 - 1
        BY <1>1, <1>2, <3>1, <3>2
      <3>4. Crowd(moment) = 1 - 1
        BY <1>1, <3>1
      <3>5. moment <= moment /\ moment < moment + WindowMs /\ 1 \in 1..PerWindow
        BY <1>1
      <3> QED BY <1>1, <2>2, <2>3, <3>3, <3>4, <3>5, OneMore
    <2> QED BY <1>1, <2>4, <2>5
  <1>4. CASE ~Over(limiter.start)
    <2>1. limit = limiter /\ limiter.count > 0 /\ limiter.start <= moment
      <3>1. limiter.count = 0 => limiter.start = 0
        BY DEF GuardInv, WindowUnopened
      <3>2. limiter.count > 0
        BY <1>1, <1>4, <3>1 DEF Over
      <3> QED BY <1>4, <3>2 DEF GuardInv, WindowOpened
    <2>2. moment < limiter.start + WindowMs
      BY <1>1, <1>4 DEF Over
    <2>3. CASE limiter.count >= PerWindow
      <3> DEFINE r == [outcome |-> "rate_limited", at |-> moment, wait |-> wait]
      <3>1. wait = limiter.start + WindowMs - moment /\ limiter' = limiter
        BY <2>1, <2>3
      <3>2. wait \in 1..WindowMs
        BY <1>1, <2>1, <2>2, <3>1
      <3>3. presented' = [presented EXCEPT ![o] = r]
        <4>1. wait > 0
          BY <1>1, <3>2
        <4> QED BY <4>1
      <3>4. r \in [outcome : Outcomes, at : Nat, wait : Int] /\ r.outcome = "rate_limited" /\ r.wait = wait
        BY <1>1, <3>2 DEF Outcomes
      <3> HIDE DEF r
      <3>5. r.outcome # "allowed" /\ (r.outcome = "rate_limited" => r.wait \in 1..WindowMs)
        BY <3>2, <3>4
      <3> QED BY <3>1, <3>3, <3>4, <3>5, TurnedAway
    <2>4. CASE limiter.count < PerWindow
      <3> DEFINE k == limiter.count + 1
      <3>1. wait = 0 /\ limiter' = [limiter EXCEPT !.count = k]
        BY <1>1, <2>1, <2>4
      <3>2. /\ limiter' = [start |-> limiter.start, count |-> k]
            /\ presented' = [presented EXCEPT ![o] = [outcome |-> "allowed", at |-> moment, wait |-> 0]]
        <4>1. [limiter EXCEPT !.count = k] = [start |-> limiter.start, count |-> k]
          BY <1>1
        <4>2. ~(wait > 0)
          BY <3>1
        <4> QED BY <3>1, <4>1, <4>2
      <3>3. k \in 1..PerWindow /\ k - 1 = limiter.count
        BY <1>1, <2>4
      <3> HIDE DEF k
      <3>4. \A p \in Operators : presented[p].outcome = "allowed" =>
               presented[p].at < limiter.start + WindowMs
        BY <2>1 DEF GuardInv, WindowOpened
      <3>5. \A x \in Int :
               /\ x >= limiter.start => Crowd(x) <= Spent + k - 1
               /\ x > limiter.start - WindowMs => Crowd(x) <= Spent + PerWindow + k - 1
        <4>1. \A x \in Int :
                 /\ x >= limiter.start => Crowd(x) <= Spent + limiter.count
                 /\ x > limiter.start - WindowMs => Crowd(x) <= Spent + PerWindow + limiter.count
          BY <2>1 DEF GuardInv, WindowOpened
        <4>2. Spent + k - 1 = Spent + limiter.count /\ Spent + PerWindow + k - 1 = Spent + PerWindow + limiter.count
          BY <1>1, <3>3
        <4> QED BY <4>1, <4>2
      <3>6. reboots = 0 => Crowd(limiter.start) = k - 1
        BY <2>1, <3>3 DEF GuardInv, WindowOpened
      <3> QED BY <1>1, <2>1, <2>2, <3>2, <3>3, <3>4, <3>5, <3>6, OneMore
    <2> QED BY <1>1, <2>3, <2>4
  <1> QED BY <1>3, <1>4

LEMMA GuardStep == GuardInv /\ [GuardNext]_guardVars => GuardInv'
  <1> SUFFICES ASSUME GuardInv, [GuardNext]_guardVars PROVE GuardInv'
    OBVIOUS
  <1>1. ASSUME NEW o \in Operators, NEW key \in {"valid", "invalid"},
               NEW role \in {"absent", "other"}, NEW expiry \in {"absent", "past"},
               CanActivate(o, key, role, expiry)
        PROVE  GuardInv'
    <2> DEFINE denial == Denial(key, role, expiry)
               limit == IF Over(limiter.start) THEN [start |-> moment, count |-> 0] ELSE limiter
               wait == IF limit.count >= PerWindow THEN limit.start + WindowMs - moment ELSE 0
    <2>1. presented[o].outcome = "none" /\ UNCHANGED <<moment, policy, reboots>>
      BY <1>1 DEF CanActivate
    <2>2. CASE denial # "none"
      <3> DEFINE r == [outcome |-> denial, at |-> 0, wait |-> 0]
      <3>1. presented' = [presented EXCEPT ![o] = r] /\ limiter' = limiter
        BY <1>1, <2>2 DEF CanActivate
      <3>2. denial \in Outcomes /\ denial \notin {"allowed", "rate_limited"}
        BY <2>2 DEF Denial, Outcomes
      <3> HIDE DEF denial
      <3>3. r \in [outcome : Outcomes, at : Nat, wait : Int] /\ r.outcome = denial
        BY <3>2
      <3> HIDE DEF r
      <3> QED BY <2>1, <3>1, <3>2, <3>3, TurnedAway
    <2>3. CASE denial = "none"
      <3>1. /\ presented' = [presented EXCEPT ![o] =
                  [outcome |-> IF wait > 0 THEN "rate_limited" ELSE "allowed",
                   at |-> moment, wait |-> wait]]
            /\ limiter' = IF limit.count >= PerWindow THEN limit ELSE [limit EXCEPT !.count = @ + 1]
        BY <1>1, <2>3 DEF CanActivate
      <3> QED BY <2>1, <3>1, GuardTakes
    <2> QED BY <2>2, <2>3
  <1>2. CASE UNCHANGED guardVars
    BY <1>2 DEF guardVars, GuardInv, GuardTyped, Since, PresentedTrue, WindowUnopened,
                WindowOpened, Crowd, SpansBounded, Admitted, Spent
  <1> QED BY <1>1, <1>2, GuardWaits, GuardReboots DEF GuardNext

LEMMA GuardInitial == GuardInit => GuardInv
  <1> SUFFICES ASSUME GuardInit PROVE GuardInv
    OBVIOUS
  <1>1. /\ moment = WindowMs /\ limiter = [start |-> 0, count |-> 0] /\ reboots = 0
        /\ \A o \in Operators : presented[o].outcome = "none"
    BY DEF GuardInit, Unrequested
  <1>2. Unrequested \in [outcome : Outcomes, at : Nat, wait : Int]
    BY DEF Unrequested, Outcomes
  <1>3. GuardTyped
    BY <1>1, <1>2, GuardAssumption DEF GuardInit, GuardTyped
  <1>4. \A x \in Int : Since(x) = {} /\ Crowd(x) = 0
    BY <1>1, FS_EmptySet DEF Since, Crowd
  <1>5. Spent \in Nat /\ PerWindow \in Nat
    BY <1>3, SpentTyped, GuardAssumption DEF GuardTyped
  <1>6. WindowUnopened
    BY <1>1, <1>4, <1>5 DEF WindowUnopened
  <1>7. SpansBounded
    <2>1. \A first, last : Admitted(first, last) = 0
      BY <1>1, FS_EmptySet DEF Admitted
    <2> QED BY <1>5, <2>1 DEF SpansBounded
  <1> QED BY <1>1, <1>3, <1>4, <1>6, <1>7, FS_EmptySet DEF GuardInv, PresentedTrue, WindowOpened

LEMMA GuardMeans == GuardInv => WindowHonoured
  <1> SUFFICES ASSUME GuardInv PROVE WindowHonoured
    OBVIOUS
  <1>1. /\ moment \in Nat /\ WindowMs \in Nat /\ PerWindow \in Nat /\ LastMoment \in Nat
        /\ reboots \in Nat /\ limiter.start \in Nat
        /\ \A o \in Operators : presented[o].at \in Nat
    BY GuardAssumption DEF GuardInv, GuardTyped
  <1>2. (2 + reboots) * PerWindow = Spent + PerWindow + PerWindow
    BY <1>1 DEF Spent
  <1>3. \A from \in WindowMs..LastMoment :
           Admitted(from, from + WindowMs - 1) <= (2 + reboots) * PerWindow
    BY <1>1, <1>2 DEF GuardInv, SpansBounded
  <1>4. ASSUME reboots = 0, limiter.count > 0
        PROVE  limiter.count = Admitted(limiter.start, limiter.start + WindowMs)
    <2>1. {o \in Operators : /\ presented[o].outcome = "allowed"
                             /\ presented[o].at \in limiter.start..(limiter.start + WindowMs)}
             = Since(limiter.start)
      BY <1>1, <1>4 DEF GuardInv, WindowOpened, Since
    <2> QED BY <1>4, <2>1 DEF GuardInv, WindowOpened, Crowd, Admitted
  <1> QED BY <1>3, <1>4 DEF GuardInv, PresentedTrue, WindowHonoured

-----------------------------------------------------------------------------
(* RateLimit: INCR answers each request of a window with another number, so   *)
(* those that were let through have different numbers up to the limit. What a *)
(* request was answered stays true of its window when the window is over.     *)

Verdicts == {"pending", "allowed", "limited", "unavailable", "gone"}

Tally == [pc : {"new", "exempt", "expire", "ttl", "done", "failed"}, total : Nat]

RateTyped ==
    /\ counter \in [Rules -> [n : Nat, ttl : BOOLEAN]]
    /\ tally \in [Calls -> [Rules -> Tally]]
    /\ verdict \in [Calls -> Verdicts]
    /\ window \in [Rules -> Nat]
    /\ hitIn \in [Calls -> [Rules -> Nat]]
    /\ orphan \subseteq Rules

\* A number was answered in a window that has begun, and not yet exceeds the
\* counter if that window goes on.
HitTrue ==
    \A c \in Calls, u \in Rules : tally[c][u].total > 0 =>
        /\ hitIn[c][u] <= window[u]
        /\ hitIn[c][u] = window[u] => tally[c][u].total <= counter[u].n

HitsDiffer ==
    \A c, d \in Calls, u \in Rules :
        c # d /\ tally[c][u].total > 0 /\ tally[d][u].total > 0 /\ hitIn[c][u] = hitIn[d][u]
            => tally[c][u].total # tally[d][u].total

\* Where a request is under one rule, beside its verdict.
TallyTrue(r, v, u) ==
    /\ r.pc \in {"expire", "ttl", "done"} => r.total > 0
    /\ r.pc = "done" => v # "pending" /\ (v = "allowed" => r.total <= Limit[u])

TalliesTrue == \A c \in Calls, u \in Rules : TallyTrue(tally[c][u], verdict[c], u)

AllowedCounted ==
    production => \A c \in Calls : verdict[c] = "allowed" =>
                     \A u \in Rules : tally[c][u].pc \in {"done", "exempt"}

CountersEnd ==
    \A u \in Rules : counter[u].n > 0 /\ ~counter[u].ttl =>
        u \in orphan \/ \E c \in Calls : tally[c][u].pc = "expire"

RateInv ==
    RateTyped /\ HitTrue /\ HitsDiffer /\ TalliesTrue /\ AllowedCounted /\ CountersEnd

\* No step but INCR gives a number or moves a counter that goes on.
LEMMA HitsKept ==
    ASSUME RateInv,
           \A c \in Calls, u \in Rules : tally'[c][u].total \in {0, tally[c][u].total},
           \A u \in Rules : counter'[u].n = counter[u].n,
           UNCHANGED <<window, hitIn>>
    PROVE  HitTrue' /\ HitsDiffer'
  <1>1. \A c \in Calls, u \in Rules :
           tally'[c][u].total > 0 => tally'[c][u].total = tally[c][u].total
    OBVIOUS
  <1>2. HitTrue'
    BY <1>1 DEF RateInv, HitTrue
  <1>3. HitsDiffer'
    BY <1>1 DEF RateInv, HitsDiffer
  <1> QED BY <1>2, <1>3

\* One entry of the tally is put elsewhere.
LEMMA OneTally ==
    ASSUME RateTyped, NEW c \in Calls, NEW u \in Rules, NEW r \in Tally,
           tally' = [tally EXCEPT ![c][u] = r]
    PROVE  /\ tally' \in [Calls -> [Rules -> Tally]]
           /\ \A d \in Calls, v \in Rules :
                 tally'[d][v] = IF d = c /\ v = u THEN r ELSE tally[d][v]
  <1>1. tally \in [Calls -> [Rules -> Tally]] /\ tally[c] \in [Rules -> Tally]
    BY DEF RateTyped
  <1> DEFINE row == [tally[c] EXCEPT ![u] = r]
  <1>2. /\ row \in [Rules -> Tally]
        /\ \A v \in Rules : row[v] = IF v = u THEN r ELSE tally[c][v]
    BY <1>1
  <1>3. tally' = [tally EXCEPT ![c] = row]
    OBVIOUS
  <1> HIDE DEF row
  <1> QED BY <1>1, <1>2, <1>3

\* A request's whole row of the tally is put elsewhere.
LEMMA OneRow ==
    ASSUME RateTyped, NEW c \in Calls, NEW row \in [Rules -> Tally],
           tally' = [tally EXCEPT ![c] = row]
    PROVE  /\ tally' \in [Calls -> [Rules -> Tally]]
           /\ \A d \in Calls : tally'[d] = IF d = c THEN row ELSE tally[d]
  BY DEF RateTyped

LEMMA IncrKeeps ==
    ASSUME RateInv, NEW c \in Calls, NEW u \in Rules, Incr(c, u)
    PROVE  RateInv'
  <1> DEFINE new == counter[u].n + 1
             r == [pc |-> IF counter[u].n = 0 THEN "expire" ELSE "ttl", total |-> new]
  <1>1. /\ counter[u].n \in Nat /\ window[u] \in Nat
        /\ \A d \in Calls, v \in Rules : tally[d][v] \in Tally /\ tally[d][v].total \in Nat
        /\ \A v \in Rules : counter[v] \in [n : Nat, ttl : BOOLEAN]
    BY DEF RateInv, RateTyped, Tally
  <1>2. /\ tally[c][u].pc = "new"
        /\ counter' = [counter EXCEPT ![u].n = @ + 1]
        /\ tally' = [tally EXCEPT ![c][u] = r]
        /\ hitIn' = [hitIn EXCEPT ![c][u] = window[u]]
        /\ UNCHANGED <<production, verdict, window, orphan>>
    BY DEF Incr
  <1>3. /\ r \in Tally /\ r.total = new /\ r.pc \in {"expire", "ttl"}
        /\ counter[u].n = 0 => r.pc = "expire"
        /\ new \in Nat /\ new > 0
    BY <1>1 DEF Tally
  <1>4. /\ counter' \in [Rules -> [n : Nat, ttl : BOOLEAN]]
        /\ counter'[u].n = new /\ counter'[u].ttl = counter[u].ttl
        /\ \A v \in Rules : v # u => counter'[v] = counter[v]
    <2> DEFINE k == [counter[u] EXCEPT !.n = counter[u].n + 1]
    <2>1. counter \in [Rules -> [n : Nat, ttl : BOOLEAN]] /\ counter' = [counter EXCEPT ![u] = k]
      BY <1>2 DEF RateInv, RateTyped
    <2>2. k \in [n : Nat, ttl : BOOLEAN] /\ k.n = new /\ k.ttl = counter[u].ttl
      BY <1>1
    <2> HIDE DEF k
    <2> QED BY <2>1, <2>2
  <1> HIDE DEF r
  <1>5. /\ tally' \in [Calls -> [Rules -> Tally]]
        /\ \A d \in Calls, v \in Rules :
              tally'[d][v] = IF d = c /\ v = u THEN r ELSE tally[d][v]
    <2>1. RateTyped /\ r \in Tally /\ tally' = [tally EXCEPT ![c][u] = r]
      BY <1>2, <1>3, Zenon DEF RateInv
    <2> QED BY ONLY <2>1, OneTally
  <1>6. /\ hitIn' \in [Calls -> [Rules -> Nat]]
        /\ \A d \in Calls, v \in Rules :
              hitIn'[d][v] = IF d = c /\ v = u THEN window[u] ELSE hitIn[d][v]
    <2>1. hitIn \in [Calls -> [Rules -> Nat]] /\ hitIn[c] \in [Rules -> Nat]
      BY DEF RateInv, RateTyped
    <2> DEFINE row == [hitIn[c] EXCEPT ![u] = window[u]]
    <2>2. /\ row \in [Rules -> Nat]
          /\ \A v \in Rules : row[v] = IF v = u THEN window[u] ELSE hitIn[c][v]
      BY <1>1, <2>1
    <2>3. hitIn' = [hitIn EXCEPT ![c] = row]
      BY <1>2
    <2> HIDE DEF row
    <2> QED BY <2>1, <2>2, <2>3
  <1>7. RateTyped'
    BY <1>2, <1>4, <1>5, <1>6 DEF RateInv, RateTyped
  <1>8. HitTrue'
    <2> SUFFICES ASSUME NEW d \in Calls, NEW v \in Rules, tally'[d][v].total > 0
                 PROVE  /\ hitIn'[d][v] <= window[v]
                        /\ hitIn'[d][v] = window[v] => tally'[d][v].total <= counter'[v].n
      BY <1>2 DEF HitTrue
    <2>1. CASE d = c /\ v = u
      BY <1>1, <1>3, <1>4, <1>5, <1>6, <2>1
    <2>2. CASE ~(d = c /\ v = u)
      <3>1. tally'[d][v] = tally[d][v] /\ hitIn'[d][v] = hitIn[d][v]
        BY <1>5, <1>6, <2>2
      <3>2. /\ hitIn[d][v] <= window[v]
            /\ hitIn[d][v] = window[v] => tally[d][v].total <= counter[v].n
        BY <3>1 DEF RateInv, HitTrue
      <3>3. counter'[v].n \in {counter[v].n, counter[v].n + 1} /\ counter[v].n \in Nat
        BY <1>1, <1>4
      <3>4. tally[d][v].total \in Nat
        BY <1>1
      <3> QED BY <3>1, <3>2, <3>3, <3>4
    <2> QED BY <2>1, <2>2
  <1>9. HitsDiffer'
    <2>1. ASSUME NEW d \in Calls, d # c, tally[d][u].total > 0, hitIn[d][u] = window[u]
          PROVE  tally[d][u].total # new
      <3>1. tally[d][u].total <= counter[u].n
        BY <2>1 DEF RateInv, HitTrue
      <3> QED BY <1>1, <3>1
    <2> SUFFICES ASSUME NEW d \in Calls, NEW e \in Calls, NEW v \in Rules, d # e,
                        tally'[d][v].total > 0, tally'[e][v].total > 0, hitIn'[d][v] = hitIn'[e][v]
                 PROVE  tally'[d][v].total # tally'[e][v].total
      BY DEF HitsDiffer
    <2>2. CASE v = u /\ d = c
      <3>1. /\ tally'[d][v].total = new /\ hitIn'[d][v] = window[u]
            /\ tally'[e][v] = tally[e][u] /\ hitIn'[e][v] = hitIn[e][u]
        BY <1>3, <1>5, <1>6, <2>2
      <3> QED BY <2>1, <2>2, <3>1
    <2>3. CASE v = u /\ e = c
      <3>1. /\ tally'[e][v].total = new /\ hitIn'[e][v] = window[u]
            /\ tally'[d][v] = tally[d][u] /\ hitIn'[d][v] = hitIn[d][u]
        BY <1>3, <1>5, <1>6, <2>3
      <3> QED BY <2>1, <2>3, <3>1
    <2>4. CASE ~(v = u /\ d = c) /\ ~(v = u /\ e = c)
      <3>1. /\ tally'[e][v] = tally[e][v] /\ hitIn'[e][v] = hitIn[e][v]
            /\ tally'[d][v] = tally[d][v] /\ hitIn'[d][v] = hitIn[d][v]
        BY <1>5, <1>6, <2>4
      <3> QED BY <3>1 DEF RateInv, HitsDiffer
    <2> QED BY <2>2, <2>3, <2>4
  <1>10. TalliesTrue'
    <2> SUFFICES ASSUME NEW d \in Calls, NEW v \in Rules
                 PROVE TallyTrue(tally'[d][v], verdict[d], v)
      BY <1>2 DEF TalliesTrue, TallyTrue
    <2>1. TallyTrue(tally[d][v], verdict[d], v)
      BY DEF RateInv, TalliesTrue
    <2> QED BY <1>3, <1>5, <2>1 DEF TallyTrue
  <1>11. AllowedCounted'
    <2> SUFFICES ASSUME production, NEW d \in Calls, verdict[d] = "allowed", NEW v \in Rules
                 PROVE tally'[d][v].pc \in {"done", "exempt"}
      BY <1>2 DEF AllowedCounted
    <2>1. tally[d][v].pc \in {"done", "exempt"}
      BY DEF RateInv, AllowedCounted
    <2> QED BY <1>2, <1>5, <2>1
  <1>12. CountersEnd'
    <2> SUFFICES ASSUME NEW v \in Rules, counter'[v].n > 0, ~counter'[v].ttl, v \notin orphan
                 PROVE \E d \in Calls : tally'[d][v].pc = "expire"
      BY <1>2 DEF CountersEnd
    <2>1. CASE v = u /\ counter[u].n = 0
      BY <1>3, <1>5, <2>1
    <2>2. CASE ~(v = u /\ counter[u].n = 0)
      <3>1. counter[v].n > 0 /\ ~counter[v].ttl
        BY <1>1, <1>4, <2>2
      <3>2. PICK d \in Calls : tally[d][v].pc = "expire"
        BY <3>1 DEF RateInv, CountersEnd
      <3> QED BY <1>2, <1>5, <3>2
    <2> QED BY <2>1, <2>2
  <1> QED BY <1>7, <1>8, <1>9, <1>10, <1>11, <1>12 DEF RateInv

LEMMA ExpireKeeps ==
    ASSUME RateInv, NEW c \in Calls, NEW u \in Rules, Expire(c, u)
    PROVE  RateInv'
  <1> DEFINE r == [tally[c][u] EXCEPT !.pc = "ttl"]
             k == [counter[u] EXCEPT !.ttl = counter[u].ttl \/ counter[u].n > 0]
  <1>1. /\ tally \in [Calls -> [Rules -> Tally]] /\ tally[c][u] \in Tally
        /\ counter \in [Rules -> [n : Nat, ttl : BOOLEAN]] /\ counter[u] \in [n : Nat, ttl : BOOLEAN]
    BY DEF RateInv, RateTyped
  <1>2. /\ tally[c][u].pc = "expire"
        /\ counter' = [counter EXCEPT ![u] = k]
        /\ tally' = [tally EXCEPT ![c][u] = r]
        /\ UNCHANGED <<production, verdict, window, hitIn, orphan>>
    BY <1>1 DEF Expire
  <1>3. r \in Tally /\ r.pc = "ttl" /\ r.total = tally[c][u].total
    BY <1>1 DEF Tally
  <1>4. /\ k \in [n : Nat, ttl : BOOLEAN] /\ k.n = counter[u].n
        /\ k.n > 0 => k.ttl
    BY <1>1
  <1> HIDE DEF r, k
  <1>5. /\ tally' \in [Calls -> [Rules -> Tally]]
        /\ \A d \in Calls, v \in Rules :
              tally'[d][v] = IF d = c /\ v = u THEN r ELSE tally[d][v]
    <2>1. RateTyped /\ r \in Tally /\ tally' = [tally EXCEPT ![c][u] = r]
      BY <1>2, <1>3, Zenon DEF RateInv
    <2> QED BY ONLY <2>1, OneTally
  <1>6. /\ counter' \in [Rules -> [n : Nat, ttl : BOOLEAN]]
        /\ \A v \in Rules : counter'[v] = IF v = u THEN k ELSE counter[v]
    BY <1>1, <1>2, <1>4
  <1>7. RateTyped'
    BY <1>2, <1>5, <1>6 DEF RateInv, RateTyped
  <1>8. HitTrue' /\ HitsDiffer'
    <2>1. \A d \in Calls, v \in Rules : tally'[d][v].total = tally[d][v].total
      BY <1>3, <1>5
    <2>2. \A v \in Rules : counter'[v].n = counter[v].n
      BY <1>4, <1>6
    <2> QED BY <1>2, <2>1, <2>2, HitsKept
  <1>9. TalliesTrue'
    <2> SUFFICES ASSUME NEW d \in Calls, NEW v \in Rules
                 PROVE TallyTrue(tally'[d][v], verdict[d], v)
      BY <1>2 DEF TalliesTrue, TallyTrue
    <2>1. TallyTrue(tally[d][v], verdict[d], v)
      BY DEF RateInv, TalliesTrue
    <2> QED BY <1>2, <1>3, <1>5, <2>1 DEF TallyTrue
  <1>10. AllowedCounted'
    <2> SUFFICES ASSUME production, NEW d \in Calls, verdict[d] = "allowed", NEW v \in Rules
                 PROVE tally'[d][v].pc \in {"done", "exempt"}
      BY <1>2 DEF AllowedCounted
    <2>1. tally[d][v].pc \in {"done", "exempt"}
      BY DEF RateInv, AllowedCounted
    <2> QED BY <1>2, <1>5, <2>1
  <1>11. CountersEnd'
    <2> SUFFICES ASSUME NEW v \in Rules, counter'[v].n > 0, ~counter'[v].ttl, v \notin orphan
                 PROVE \E d \in Calls : tally'[d][v].pc = "expire"
      BY <1>2 DEF CountersEnd
    <2>1. v # u /\ counter[v].n > 0 /\ ~counter[v].ttl
      BY <1>4, <1>6
    <2>2. PICK d \in Calls : tally[d][v].pc = "expire"
      BY <2>1 DEF RateInv, CountersEnd
    <2> QED BY <1>5, <2>1, <2>2
  <1> QED BY <1>7, <1>8, <1>9, <1>10, <1>11 DEF RateInv

\* handleRedisUnavailable answers only who was not answered.
LEMMA UnavailableTells ==
    ASSUME RateInv, NEW c \in Calls, Unavailable(c)
    PROVE  /\ verdict' \in [Calls -> Verdicts]
           /\ \A d \in Calls : d # c \/ verdict[d] # "pending" => verdict'[d] = verdict[d]
           /\ verdict[c] = "pending" => verdict'[c] = IF production THEN "unavailable" ELSE "allowed"
  BY DEF Unavailable, RateInv, RateTyped, Verdicts

LEMMA HitFailsKeeps ==
    ASSUME RateInv, NEW c \in Calls, NEW u \in Rules, HitFails(c, u)
    PROVE  RateInv'
  <1> DEFINE r == [tally[c][u] EXCEPT !.pc = "failed"]
  <1>1. tally \in [Calls -> [Rules -> Tally]] /\ tally[c][u] \in Tally
    BY DEF RateInv, RateTyped
  <1>2. /\ tally[c][u].pc \in {"new", "expire", "ttl"}
        /\ tally' = [tally EXCEPT ![c][u] = r]
        /\ orphan' = orphan \cup (IF tally[c][u].pc = "expire" THEN {u} ELSE {})
        /\ UNCHANGED <<production, counter, window, hitIn>>
    BY <1>1 DEF HitFails
  <1>3. r \in Tally /\ r.pc = "failed" /\ r.total = tally[c][u].total
    BY <1>1 DEF Tally
  <1>4. /\ verdict' \in [Calls -> Verdicts]
        /\ \A d \in Calls : d # c \/ verdict[d] # "pending" => verdict'[d] = verdict[d]
        /\ verdict[c] = "pending" => verdict'[c] = IF production THEN "unavailable" ELSE "allowed"
    BY UnavailableTells DEF HitFails
  <1> HIDE DEF r
  <1>5. /\ tally' \in [Calls -> [Rules -> Tally]]
        /\ \A d \in Calls, v \in Rules :
              tally'[d][v] = IF d = c /\ v = u THEN r ELSE tally[d][v]
    <2>1. RateTyped /\ r \in Tally /\ tally' = [tally EXCEPT ![c][u] = r]
      BY <1>2, <1>3, Zenon DEF RateInv
    <2> QED BY ONLY <2>1, OneTally
  <1>6. RateTyped'
    BY <1>2, <1>4, <1>5 DEF RateInv, RateTyped
  <1>7. HitTrue' /\ HitsDiffer'
    <2>1. \A d \in Calls, v \in Rules : tally'[d][v].total = tally[d][v].total
      BY <1>3, <1>5
    <2> QED BY <1>2, <2>1, HitsKept
  <1>8. TalliesTrue'
    <2> SUFFICES ASSUME NEW d \in Calls, NEW v \in Rules
                 PROVE TallyTrue(tally'[d][v], verdict'[d], v)
      BY DEF TalliesTrue, TallyTrue
    <2>1. TallyTrue(tally[d][v], verdict[d], v)
      BY DEF RateInv, TalliesTrue
    <2> QED BY <1>3, <1>4, <1>5, <2>1 DEF TallyTrue
  <1>9. AllowedCounted'
    <2> SUFFICES ASSUME production, NEW d \in Calls, verdict'[d] = "allowed", NEW v \in Rules
                 PROVE tally'[d][v].pc \in {"done", "exempt"}
      BY <1>2 DEF AllowedCounted
    <2>1. verdict[d] = "allowed"
      BY <1>4
    <2>2. tally[d][v].pc \in {"done", "exempt"}
      BY <2>1 DEF RateInv, AllowedCounted
    <2> QED BY <1>2, <1>5, <2>2
  <1>10. CountersEnd'
    <2> SUFFICES ASSUME NEW v \in Rules, counter[v].n > 0, ~counter[v].ttl, v \notin orphan'
                 PROVE \E d \in Calls : tally'[d][v].pc = "expire"
      BY <1>2 DEF CountersEnd
    <2>1. PICK d \in Calls : tally[d][v].pc = "expire"
      BY <1>2 DEF RateInv, CountersEnd
    <2>2. ~(d = c /\ v = u)
      BY <1>2, <2>1
    <2> QED BY <1>5, <2>1, <2>2
  <1> QED BY <1>6, <1>7, <1>8, <1>9, <1>10 DEF RateInv

\* A step that puts one request's row and verdict elsewhere, and no number in it.
LEMMA RowKeeps ==
    ASSUME RateInv, NEW c \in Calls, NEW row \in [Rules -> Tally], NEW v \in Verdicts,
           tally' = [tally EXCEPT ![c] = row], verdict' = [verdict EXCEPT ![c] = v],
           UNCHANGED <<production, counter, window, hitIn>>,
           orphan \subseteq orphan', orphan' \subseteq Rules,
           \A u \in Rules : /\ row[u].total \in {0, tally[c][u].total}
                            /\ TallyTrue(row[u], v, u)
                            /\ production /\ v = "allowed" => row[u].pc \in {"done", "exempt"}
                            /\ tally[c][u].pc = "expire" => u \in orphan'
    PROVE  RateInv'
  <1>1. /\ tally' \in [Calls -> [Rules -> Tally]]
        /\ \A d \in Calls : tally'[d] = IF d = c THEN row ELSE tally[d]
    BY OneRow DEF RateInv
  <1>2. /\ verdict' \in [Calls -> Verdicts]
        /\ \A d \in Calls : verdict'[d] = IF d = c THEN v ELSE verdict[d]
    BY DEF RateInv, RateTyped
  <1>3. RateTyped'
    BY <1>1, <1>2 DEF RateInv, RateTyped
  <1>4. HitTrue' /\ HitsDiffer'
    <2>1. \A d \in Calls, u \in Rules : tally'[d][u].total \in {0, tally[d][u].total}
      BY <1>1
    <2> QED BY <2>1, HitsKept
  <1>5. TalliesTrue'
    <2> SUFFICES ASSUME NEW d \in Calls, NEW u \in Rules
                 PROVE TallyTrue(tally'[d][u], verdict'[d], u)
      BY DEF TalliesTrue, TallyTrue
    <2>1. TallyTrue(tally[d][u], verdict[d], u)
      BY DEF RateInv, TalliesTrue
    <2> QED BY <1>1, <1>2, <2>1
  <1>6. AllowedCounted'
    BY <1>1, <1>2 DEF RateInv, AllowedCounted
  <1>7. CountersEnd'
    <2> SUFFICES ASSUME NEW u \in Rules, counter[u].n > 0, ~counter[u].ttl, u \notin orphan'
                 PROVE \E d \in Calls : tally'[d][u].pc = "expire"
      BY DEF CountersEnd
    <2>1. PICK d \in Calls : tally[d][u].pc = "expire"
      BY DEF RateInv, CountersEnd
    <2>2. d # c
      BY <2>1
    <2> QED BY <1>1, <2>1, <2>2
  <1> QED BY <1>3, <1>4, <1>5, <1>6, <1>7 DEF RateInv

LEMMA RowTyped ==
    ASSUME RateInv, NEW c \in Calls, NEW u \in Rules, NEW pc \in {"done", "failed"}
    PROVE  /\ [tally[c][u] EXCEPT !.pc = pc] \in Tally
           /\ [tally[c][u] EXCEPT !.pc = pc].pc = pc
           /\ [tally[c][u] EXCEPT !.pc = pc].total = tally[c][u].total
  <1>1. tally[c][u] \in Tally
    BY DEF RateInv, RateTyped
  <1> QED BY <1>1 DEF Tally

LEMMA ExemptKeeps ==
    ASSUME RateInv, NEW c \in Calls, Exempt(c)
    PROVE  RateInv'
  <1> DEFINE row == [u \in Rules |-> [pc |-> "exempt", total |-> 0]]
  <1>1. /\ tally' = [tally EXCEPT ![c] = row] /\ verdict' = [verdict EXCEPT ![c] = "allowed"]
        /\ \A u \in Rules : tally[c][u].pc = "new"
        /\ UNCHANGED <<production, counter, window, hitIn, orphan>>
    BY DEF Exempt
  <1>2. \A u \in Rules : row[u].pc = "exempt" /\ row[u].total = 0
    OBVIOUS
  <1>3. row \in [Rules -> Tally] /\ "allowed" \in Verdicts
    BY DEF Tally, Verdicts
  <1> HIDE DEF row
  <1>4. \A u \in Rules : TallyTrue(row[u], "allowed", u)
    BY <1>2 DEF TallyTrue
  <1>5. orphan' = orphan /\ orphan \subseteq Rules
    BY <1>1 DEF RateInv, RateTyped
  <1> QED BY <1>1, <1>2, <1>3, <1>4, <1>5, RowKeeps

LEMMA NotConnectedKeeps ==
    ASSUME RateInv, NEW c \in Calls, NotConnected(c)
    PROVE  RateInv'
  <1>1. /\ verdict[c] = "pending" /\ Unavailable(c)
        /\ UNCHANGED <<production, counter, tally, window, hitIn, orphan>>
    BY DEF NotConnected
  <1>2. /\ verdict' \in [Calls -> Verdicts]
        /\ \A d \in Calls : d # c => verdict'[d] = verdict[d]
        /\ verdict'[c] = IF production THEN "unavailable" ELSE "allowed"
    BY <1>1, UnavailableTells
  <1>3. RateTyped' /\ HitTrue' /\ HitsDiffer' /\ CountersEnd'
    BY <1>1, <1>2 DEF RateInv, RateTyped, HitTrue, HitsDiffer, CountersEnd
  <1>4. TalliesTrue'
    <2> SUFFICES ASSUME NEW d \in Calls, NEW u \in Rules
                 PROVE TallyTrue(tally[d][u], verdict'[d], u)
      BY <1>1 DEF TalliesTrue, TallyTrue
    <2>1. TallyTrue(tally[d][u], verdict[d], u)
      BY DEF RateInv, TalliesTrue
    <2> QED BY <1>1, <1>2, <2>1 DEF TallyTrue
  <1>5. AllowedCounted'
    BY <1>1, <1>2 DEF RateInv, AllowedCounted
  <1> QED BY <1>3, <1>4, <1>5 DEF RateInv

LEMMA DecideKeeps ==
    ASSUME RateInv, NEW c \in Calls, Decide(c)
    PROVE  RateInv'
  <1> DEFINE row == [u \in Rules |-> [tally[c][u] EXCEPT !.pc = "done"]]
             v == IF \E u \in Rules : Exceeded(c, u) THEN "limited" ELSE "allowed"
  <1>1. /\ \A u \in Rules : tally[c][u].pc = "ttl"
        /\ verdict' = [verdict EXCEPT ![c] = v]
        /\ UNCHANGED <<production, counter, window, hitIn, orphan>>
    BY DEF Decide
  <1>2. tally' = [tally EXCEPT ![c] = row]
    BY DEF Decide, RateInv, RateTyped
  <1>3. /\ row \in [Rules -> Tally]
        /\ \A u \in Rules : row[u].pc = "done" /\ row[u].total = tally[c][u].total
    <2>1. ASSUME NEW u \in Rules
          PROVE  row[u] \in Tally /\ row[u].pc = "done" /\ row[u].total = tally[c][u].total
      BY RowTyped
    <2> QED BY <2>1
  <1>4. /\ v \in Verdicts /\ v # "pending"
        /\ v = "allowed" => \A u \in Rules : ~(tally[c][u].total > Limit[u])
    BY DEF Verdicts, Exceeded
  <1> HIDE DEF row, v
  <1>5. ASSUME NEW u \in Rules PROVE TallyTrue(row[u], v, u)
    <2>1. tally[c][u].total > 0
      BY <1>1 DEF RateInv, TalliesTrue, TallyTrue
    <2>2. tally[c][u].total \in Nat /\ Limit[u] \in Nat
      BY RateAssumption DEF RateInv, RateTyped, Tally
    <2> QED BY <1>3, <1>4, <2>1, <2>2 DEF TallyTrue
  <1>6. orphan' = orphan /\ orphan \subseteq Rules
    BY <1>1 DEF RateInv, RateTyped
  <1> QED BY <1>1, <1>2, <1>3, <1>4, <1>5, <1>6, RowKeeps

LEMMA RateCrashKeeps ==
    ASSUME RateInv, NEW c \in Calls, RateCrash(c)
    PROVE  RateInv'
  <1> DEFINE row == [u \in Rules |-> [tally[c][u] EXCEPT !.pc = "failed"]]
  <1>1. /\ verdict' = [verdict EXCEPT ![c] = "gone"]
        /\ orphan' = orphan \cup {u \in Rules : tally[c][u].pc = "expire"}
        /\ UNCHANGED <<production, counter, window, hitIn>>
    BY DEF RateCrash
  <1>2. tally' = [tally EXCEPT ![c] = row]
    BY DEF RateCrash, RateInv, RateTyped
  <1>3. /\ row \in [Rules -> Tally]
        /\ \A u \in Rules : row[u].pc = "failed" /\ row[u].total = tally[c][u].total
    <2>1. ASSUME NEW u \in Rules
          PROVE  row[u] \in Tally /\ row[u].pc = "failed" /\ row[u].total = tally[c][u].total
      BY RowTyped
    <2> QED BY <2>1
  <1> HIDE DEF row
  <1>4. "gone" \in Verdicts /\ \A u \in Rules : TallyTrue(row[u], "gone", u)
    BY <1>3 DEF TallyTrue, Verdicts
  <1>5. orphan \subseteq orphan' /\ orphan' \subseteq Rules
    BY <1>1 DEF RateInv, RateTyped
  <1> QED BY <1>1, <1>2, <1>3, <1>4, <1>5, RowKeeps

LEMMA WindowEndsKeeps ==
    ASSUME RateInv, NEW u \in Rules, WindowEnds(u)
    PROVE  RateInv'
  <1>1. /\ counter' = [counter EXCEPT ![u] = [n |-> 0, ttl |-> FALSE]]
        /\ window' = [window EXCEPT ![u] = @ + 1]
        /\ UNCHANGED <<production, tally, verdict, hitIn, orphan>>
    BY DEF WindowEnds
  <1>2. /\ counter' \in [Rules -> [n : Nat, ttl : BOOLEAN]] /\ counter'[u].n = 0
        /\ \A v \in Rules : v # u => counter'[v] = counter[v]
    BY <1>1 DEF RateInv, RateTyped
  <1>3. /\ window' \in [Rules -> Nat] /\ window[u] \in Nat /\ window'[u] = window[u] + 1
        /\ \A v \in Rules : v # u => window'[v] = window[v]
    BY <1>1 DEF RateInv, RateTyped
  <1>4. RateTyped'
    BY <1>1, <1>2, <1>3 DEF RateInv, RateTyped
  <1>5. HitTrue'
    <2> SUFFICES ASSUME NEW c \in Calls, NEW v \in Rules, tally[c][v].total > 0
                 PROVE  /\ hitIn[c][v] <= window'[v]
                        /\ hitIn[c][v] = window'[v] => tally[c][v].total <= counter'[v].n
      BY <1>1 DEF HitTrue
    <2>1. /\ hitIn[c][v] <= window[v] /\ hitIn[c][v] \in Nat
          /\ hitIn[c][v] = window[v] => tally[c][v].total <= counter[v].n
      BY DEF RateInv, RateTyped, HitTrue
    <2> QED BY <1>2, <1>3, <2>1
  <1>6. CountersEnd'
    <2> SUFFICES ASSUME NEW v \in Rules, counter'[v].n > 0, ~counter'[v].ttl
                 PROVE v \in orphan \/ \E c \in Calls : tally[c][v].pc = "expire"
      BY <1>1 DEF CountersEnd
    <2>1. v # u
      BY <1>2
    <2> QED BY <1>2, <2>1 DEF RateInv, CountersEnd
  <1> QED BY <1>1, <1>4, <1>5, <1>6 DEF RateInv, HitsDiffer, TalliesTrue, TallyTrue, AllowedCounted

LEMMA RateStep == RateInv /\ [RateNext]_rateVars => RateInv'
  <1> SUFFICES ASSUME RateInv, [RateNext]_rateVars PROVE RateInv'
    OBVIOUS
  <1>1. CASE UNCHANGED rateVars
    BY <1>1 DEF rateVars, RateInv, RateTyped, HitTrue, HitsDiffer, TalliesTrue, TallyTrue,
                AllowedCounted, CountersEnd
  <1>2. CASE RateNext
    BY <1>2, IncrKeeps, ExpireKeeps, HitFailsKeeps, ExemptKeeps, NotConnectedKeeps, DecideKeeps,
       RateCrashKeeps, WindowEndsKeeps DEF RateNext
  <1> QED BY <1>1, <1>2

LEMMA RateInitial == RateInit => RateInv
  <1> SUFFICES ASSUME RateInit PROVE RateInv
    OBVIOUS
  <1>1. /\ \A c \in Calls, u \in Rules : tally[c][u] = [pc |-> "new", total |-> 0]
        /\ \A u \in Rules : counter[u] = [n |-> 0, ttl |-> FALSE]
        /\ \A c \in Calls : verdict[c] = "pending"
    BY DEF RateInit
  <1>2. RateTyped
    BY DEF RateInit, RateTyped, Tally, Verdicts
  <1> QED BY <1>1, <1>2 DEF RateInv, HitTrue, HitsDiffer, TalliesTrue, TallyTrue, AllowedCounted,
                            CountersEnd

LEMMA RateMeans == RateInv => WindowKeepsLimit
  <1> SUFFICES ASSUME RateInv PROVE WindowKeepsLimit
    OBVIOUS
  <1>1. ASSUME NEW u \in Rules, NEW w \in 0..MaxWindows
        PROVE  Cardinality(Allowed(u, w)) <= Limit[u]
    <2> DEFINE S == Allowed(u, w)
               f == [c \in S |-> tally[c][u].total]
    <2>1. Limit[u] \in Nat
      BY RateAssumption
    <2>2. ASSUME NEW c \in S
          PROVE  c \in Calls /\ hitIn[c][u] = w /\ tally[c][u].total \in 1..Limit[u]
      <3>1. c \in Calls /\ hitIn[c][u] = w /\ verdict[c] = "allowed" /\ tally[c][u].pc = "done"
        BY <2>2 DEF Allowed
      <3>2. tally[c][u].total > 0 /\ tally[c][u].total <= Limit[u]
        BY <3>1 DEF RateInv, TalliesTrue, TallyTrue
      <3>3. tally[c][u].total \in Nat
        BY <3>1 DEF RateInv, RateTyped, Tally
      <3> QED BY <2>1, <3>1, <3>2, <3>3
    <2>3. ASSUME NEW c \in S, NEW d \in S, tally[c][u].total = tally[d][u].total PROVE c = d
      BY <2>1, <2>2, <2>3 DEF RateInv, HitsDiffer
    <2> HIDE DEF S
    <2>4. f \in Injection(S, 1..Limit[u])
      BY <2>2, <2>3 DEF Injection, IsInjective
    <2>5. IsFiniteSet(1..Limit[u]) /\ Cardinality(1..Limit[u]) = Limit[u]
      <3> DEFINE L == Limit[u]
      <3>1. L \in Nat
        BY <2>1
      <3> HIDE DEF L
      <3>2. /\ IsFiniteSet(1..L)
            /\ Cardinality(1..L) = IF 1 > L THEN 0 ELSE L - 1 + 1
        BY <3>1, FS_Interval
      <3>3. Cardinality(1..L) = L
        BY <3>1, <3>2
      <3> QED BY <3>2, <3>3 DEF L
    <2>6. Cardinality(S) <= Cardinality(1..Limit[u])
      BY <2>4, <2>5, FS_Injection
    <2> QED BY <2>5, <2>6 DEF S
  <1> QED BY <1>1 DEF RateInv, AllowedCounted, CountersEnd, WindowKeepsLimit

-----------------------------------------------------------------------------
(* SwapQuote: while the inputs are complete, the form's latest request is for *)
(* them, and there is at most one: the timer that will start it, or itself.   *)

QuoteInputs == [pool : Pools \cup {NoPool}, form : Forms]

Fetch == [by : {"form", "event"}, number : Nat, inputs : QuoteInputs, aborted : BOOLEAN]

QuoteTyped ==
    /\ form \in Forms /\ poolId \in Pools \cup {NoPool}
    /\ timer \in BOOLEAN /\ loading \in BOOLEAN
    /\ sequence \in Nat /\ events \in Nat
    /\ fetches \subseteq Fetch

\* The form's requests have numbers that were taken, and the latest is for the
\* inputs on display if they are complete.
RequestsTrue ==
    \A f \in fetches : f.by = "form" =>
        /\ f.number <= sequence
        /\ Complete(Inputs) /\ f.number = sequence =>
              f = [by |-> "form", number |-> sequence, inputs |-> Inputs, aborted |-> FALSE]

TimerTrue ==
    timer => Complete(Inputs) /\ \A f \in fetches : f.by = "form" => f.number # sequence

QuoteInv == QuoteTyped /\ RequestsTrue /\ TimerTrue /\ QuoteSettles

LEMMA InputsTyped == QuoteTyped => Inputs \in QuoteInputs
  BY DEF QuoteTyped, Inputs, QuoteInputs

\* A request that is aborted is the one it was.
LEMMA AbortTyped ==
    ASSUME NEW f \in Fetch
    PROVE  /\ [f EXCEPT !.aborted = TRUE] \in Fetch
           /\ [f EXCEPT !.aborted = TRUE].by = f.by
           /\ [f EXCEPT !.aborted = TRUE].number = f.number
  BY DEF Fetch

\* Other inputs, with the effects they bring about.
LEMMA RerunKeeps ==
    ASSUME QuoteInv, form' \in Forms, poolId' \in Pools \cup {NoPool},
           Rerun([pool |-> poolId', form |-> form']), UNCHANGED events
    PROVE  QuoteInv'
  <1> DEFINE full == Complete(Inputs)'
  <1>1. /\ timer' = full /\ loading' = full /\ full \in BOOLEAN
        /\ full => /\ sequence' = sequence + 1
                   /\ fetches' = {IF f.by = "form" THEN [f EXCEPT !.aborted = TRUE] ELSE f :
                                     f \in fetches}
        /\ ~full => quote' = NoQuote /\ sequence' = sequence /\ fetches' = fetches
    BY DEF Rerun, Inputs, Complete, HasPair
  <1>2. sequence \in Nat /\ fetches \subseteq Fetch
    BY DEF QuoteInv, QuoteTyped
  <1>3. \A f \in fetches : f.by = "form" => f.number <= sequence /\ f.number \in Nat
    BY <1>2 DEF QuoteInv, RequestsTrue, Fetch
  <1> HIDE DEF full
  <1>4. CASE full
    <2>1. ASSUME NEW g \in fetches'
          PROVE  g \in Fetch /\ (g.by = "form" => g.number <= sequence /\ g.number \in Nat)
      <3>1. PICK f \in fetches : g = IF f.by = "form" THEN [f EXCEPT !.aborted = TRUE] ELSE f
        BY <1>1, <1>4, <2>1
      <3>2. CASE f.by = "form"
        BY <1>2, <1>3, <3>1, <3>2, AbortTyped
      <3>3. CASE f.by # "form"
        BY <1>2, <3>1, <3>3
      <3> QED BY <3>2, <3>3
    <2>2. \A g \in fetches' : g.by = "form" => g.number <= sequence' /\ g.number # sequence'
      BY <1>1, <1>2, <1>4, <2>1
    <2>3. QuoteTyped'
      BY <1>1, <1>2, <1>4, <2>1 DEF QuoteInv, QuoteTyped
    <2>4. RequestsTrue' /\ TimerTrue'
      BY <1>1, <1>4, <2>2 DEF RequestsTrue, TimerTrue, full
    <2>5. QuoteSettles'
      BY <1>1, <1>4 DEF QuoteSettles, Working, full
    <2> QED BY <2>3, <2>4, <2>5 DEF QuoteInv
  <1>5. CASE ~full
    <2>1. QuoteTyped'
      BY <1>1, <1>5 DEF QuoteInv, QuoteTyped
    <2>2. RequestsTrue' /\ TimerTrue'
      BY <1>1, <1>3, <1>5 DEF RequestsTrue, TimerTrue, full
    <2>3. QuoteSettles'
      BY <1>1, <1>5 DEF QuoteSettles, full
    <2> QED BY <2>1, <2>2, <2>3 DEF QuoteInv
  <1> QED BY <1>4, <1>5

LEMMA ChangeKeeps ==
    ASSUME QuoteInv, NEW next \in Forms, Change(next)
    PROVE  QuoteInv'
  <1>1. /\ form' = next /\ poolId' \in {poolId, NoPool}
        /\ Rerun([pool |-> poolId', form |-> form']) /\ UNCHANGED events
    BY DEF Change
  <1>2. form' \in Forms /\ poolId' \in Pools \cup {NoPool}
    BY <1>1 DEF QuoteInv, QuoteTyped
  <1> QED BY <1>1, <1>2, RerunKeeps

\* A request more, which is not of the form or is the one the timer announced.
LEMMA TimerFiresKeeps ==
    ASSUME QuoteInv, TimerFires
    PROVE  QuoteInv'
  <1> DEFINE g == [by |-> "form", number |-> sequence, inputs |-> Inputs, aborted |-> FALSE]
  <1>1. /\ timer /\ timer' = FALSE /\ fetches' = fetches \cup {g}
        /\ UNCHANGED <<form, poolId, quote, loading, sequence, events>>
        /\ Inputs' = Inputs
    BY DEF TimerFires, Inputs
  <1>2. g \in Fetch /\ g.by = "form" /\ g.number = sequence
    BY InputsTyped DEF Fetch, QuoteInv, QuoteTyped
  <1>3. QuoteTyped'
    BY <1>1, <1>2 DEF QuoteInv, QuoteTyped
  <1>4. Complete(Inputs)' = Complete(Inputs) /\ Complete(Inputs) /\ loading
    BY <1>1 DEF Complete, HasPair, QuoteInv, TimerTrue, QuoteSettles, Working
  <1>5. RequestsTrue'
    <2> SUFFICES ASSUME NEW f \in fetches', f.by = "form"
                 PROVE  f.number <= sequence /\ (f.number = sequence => f = g)
      BY <1>1, <1>4 DEF RequestsTrue
    <2>1. CASE f \in fetches
      BY <1>4, <2>1 DEF QuoteInv, RequestsTrue
    <2>2. CASE f = g
      BY <1>2, <2>2 DEF QuoteInv, QuoteTyped
    <2> QED BY <1>1, <2>1, <2>2
  <1>6. TimerTrue'
    BY <1>1 DEF TimerTrue
  <1>7. QuoteSettles'
    <2>1. Working'
      BY <1>1, <1>2 DEF Working
    <2> QED BY <1>1, <1>4, <2>1 DEF QuoteSettles
  <1> QED BY <1>3, <1>5, <1>6, <1>7 DEF QuoteInv

LEMMA PriceEventKeeps ==
    ASSUME QuoteInv, PriceEvent
    PROVE  QuoteInv'
  <1> DEFINE g == [by |-> "event", number |-> events', inputs |-> Inputs, aborted |-> FALSE]
  <1>1. /\ fetches' = fetches \cup {g} /\ events' = events + 1
        /\ UNCHANGED <<form, poolId, quote, loading, timer, sequence>>
        /\ Inputs' = Inputs
    BY DEF PriceEvent, Inputs
  <1>2. g \in Fetch /\ g.by = "event"
    BY <1>1, InputsTyped DEF Fetch, QuoteInv, QuoteTyped
  <1> HIDE DEF g
  <1>3. Complete(Inputs)' = Complete(Inputs)
    BY <1>1 DEF Complete, HasPair
  <1>4. \A f \in fetches' : f.by = "form" => f \in fetches
    BY <1>1, <1>2
  <1>5. QuoteTyped'
    BY <1>1, <1>2 DEF QuoteInv, QuoteTyped
  <1>6. RequestsTrue' /\ TimerTrue'
    BY <1>1, <1>3, <1>4 DEF QuoteInv, RequestsTrue, TimerTrue
  <1>7. QuoteSettles'
    <2>1. Working' = Working
      BY <1>1, <1>2, <1>4 DEF Working
    <2> QED BY <1>1, <1>3, <2>1 DEF QuoteInv, QuoteSettles
  <1> QED BY <1>5, <1>6, <1>7 DEF QuoteInv

LEMMA FetchEndsKeeps ==
    ASSUME QuoteInv, NEW f \in fetches, FetchEnds(f)
    PROVE  QuoteInv'
  <1>1. /\ fetches' = fetches \ {f}
        /\ UNCHANGED <<form, poolId, timer, sequence, events>>
        /\ Inputs' = Inputs
    BY DEF FetchEnds, Inputs
  <1>2. PICK got \in {[inputs |-> f.inputs, by |-> f.by], NoQuote} : Settle(f, got)
    BY DEF FetchEnds
  <1>3. Complete(Inputs)' = Complete(Inputs)
    BY <1>1 DEF Complete, HasPair
  <1>4. got # NoQuote => got.inputs = f.inputs /\ got.by = f.by
    BY <1>2
  <1>5. RequestsTrue' /\ TimerTrue'
    BY <1>1, <1>3 DEF QuoteInv, RequestsTrue, TimerTrue
  <1>6. f \in Fetch
    BY DEF QuoteInv, QuoteTyped
  <1>7. CASE f.by = "form" /\ f.number = sequence
    <2>1. quote' = got /\ loading' = FALSE
      BY <1>2, <1>7 DEF Settle
    <2>2. QuoteTyped'
      BY <1>1, <2>1 DEF QuoteInv, QuoteTyped
    <2>3. ~timer
      BY <1>7 DEF QuoteInv, TimerTrue
    <2>4. ASSUME Complete(Inputs) PROVE ~Working' /\ f.inputs = Inputs
      <3>1. \A g \in fetches : g.by = "form" /\ g.number = sequence =>
               g = [by |-> "form", number |-> sequence, inputs |-> Inputs, aborted |-> FALSE]
        BY <2>4 DEF QuoteInv, RequestsTrue
      <3>2. f = [by |-> "form", number |-> sequence, inputs |-> Inputs, aborted |-> FALSE]
        BY <1>7, <3>1
      <3>3. \A g \in fetches' : ~(g.by = "form" /\ g.number = sequence)
        BY <1>1, <3>1, <3>2
      <3>4. f.inputs = Inputs
        BY <3>2
      <3> QED BY <1>1, <2>3, <3>3, <3>4 DEF Working
    <2>5. QuoteSettles'
      BY <1>1, <1>3, <1>4, <2>1, <2>4 DEF QuoteSettles
    <2> QED BY <1>5, <2>2, <2>5 DEF QuoteInv
  <1>8. CASE ~(f.by = "form" /\ f.number = sequence)
    <2>1. /\ loading' = loading
          /\ quote' = quote \/ (quote' = got /\ f.by = "event")
      BY <1>2, <1>6, <1>8 DEF Settle, Fetch
    <2>2. QuoteTyped'
      BY <1>1, <2>1 DEF QuoteInv, QuoteTyped
    <2>3. Working' = Working
      BY <1>1, <1>8 DEF Working
    <2>4. QuoteSettles'
      BY <1>1, <1>3, <1>4, <2>1, <2>3 DEF QuoteInv, QuoteSettles
    <2> QED BY <1>5, <2>2, <2>4 DEF QuoteInv
  <1> QED BY <1>7, <1>8

LEMMA QuoteStill ==
    ASSUME QuoteInv, UNCHANGED <<form, poolId, quote, loading, timer, sequence, fetches, events>>
    PROVE  QuoteInv'
  BY DEF QuoteInv, QuoteTyped, RequestsTrue, TimerTrue, QuoteSettles, Working, Complete, Inputs, HasPair

LEMMA QuoteStep == QuoteInv /\ [QuoteNext]_quoteVars => QuoteInv'
  <1> SUFFICES ASSUME QuoteInv, [QuoteNext]_quoteVars PROVE QuoteInv'
    OBVIOUS
  <1>1. /\ form.tokenIn \in Tokens \cup {NoToken} /\ form.tokenOut \in Tokens \cup {NoToken}
        /\ form \in Forms
    BY DEF QuoteInv, QuoteTyped, Forms
  <1>2. ASSUME NEW t \in Tokens, SelectIn(t) \/ SelectOut(t) PROVE QuoteInv'
    <2> DEFINE in == [[form EXCEPT !.tokenIn = t] EXCEPT
                         !.tokenOut = IF t = form.tokenOut THEN form.tokenIn ELSE form.tokenOut]
               out == [[form EXCEPT !.tokenOut = t] EXCEPT
                         !.tokenIn = IF t = form.tokenIn THEN form.tokenOut ELSE form.tokenIn]
    <2>1. in \in Forms /\ out \in Forms
      BY <1>1 DEF Forms
    <2>2. SelectIn(t) => Change(in)
      BY <1>1 DEF SelectIn, Forms
    <2>3. SelectOut(t) => Change(out)
      BY <1>1 DEF SelectOut, Forms
    <2> HIDE DEF in, out
    <2> QED BY <1>2, <2>1, <2>2, <2>3, ChangeKeeps
  <1>3. ASSUME NEW n \in 0..MaxTerms, EnterTerms(n) PROVE QuoteInv'
    <2>1. [form EXCEPT !.terms = n] \in Forms
      BY <1>1 DEF Forms
    <2> QED BY <1>3, <2>1, ChangeKeeps DEF EnterTerms
  <1>4. CASE SwapDirection
    <2>1. PICK n \in 0..MaxTerms :
             Change([tokenIn |-> form.tokenOut, tokenOut |-> form.tokenIn, terms |-> n])
      BY <1>4 DEF SwapDirection
    <2>2. [tokenIn |-> form.tokenOut, tokenOut |-> form.tokenIn, terms |-> n] \in Forms
      BY <1>1 DEF Forms
    <2> QED BY <2>1, <2>2, ChangeKeeps
  <1>5. CASE LookupEnds
    <2>1. PICK found \in {PoolOf(form), NoPool} :
             /\ poolId' = found
             /\ IF found = poolId
                THEN UNCHANGED <<quote, loading, timer, sequence, fetches, socket>>
                ELSE Rerun([pool |-> found, form |-> form])
      BY <1>5 DEF LookupEnds
    <2>2. form' = form /\ events' = events
      BY <1>5 DEF LookupEnds
    <2>3. found \in Pools \cup {NoPool}
      BY <2>1 DEF PoolOf
    <2>4. CASE found = poolId
      BY <2>1, <2>2, <2>4, QuoteStill
    <2>5. CASE found # poolId
      <3>1. Rerun([pool |-> poolId', form |-> form'])
        BY <2>1, <2>2, <2>5
      <3> QED BY <1>1, <2>1, <2>2, <2>3, <3>1, RerunKeeps
    <2> QED BY <2>4, <2>5
  <1>6. CASE SocketChanges
    BY <1>6, QuoteStill DEF SocketChanges
  <1>7. CASE UNCHANGED quoteVars
    BY <1>7, QuoteStill DEF quoteVars
  <1> QED BY <1>2, <1>3, <1>4, <1>5, <1>6, <1>7, TimerFiresKeeps, FetchEndsKeeps, PriceEventKeeps
          DEF QuoteNext

LEMMA QuoteInitial == QuoteInit => QuoteInv
  <1> SUFFICES ASSUME QuoteInit PROVE QuoteInv
    OBVIOUS
  <1>1. QuoteTyped
    <2>1. 0 \in 0..MaxTerms
      BY QuoteAssumption
    <2>2. form \in Forms
      BY <2>1 DEF QuoteInit, Forms
    <2> QED BY <2>2 DEF QuoteInit, QuoteTyped
  <1>2. ~Complete(Inputs)
    BY DEF QuoteInit, Complete, Inputs
  <1> QED BY <1>1, <1>2 DEF QuoteInit, QuoteInv, RequestsTrue, TimerTrue, QuoteSettles

-----------------------------------------------------------------------------
(* TxStatus: the page keeps what it shows and polls for what is pending, and  *)
(* an answer that a transaction was applied comes after the ledger took it.   *)

Txs == [flow : TxFlows, status : Statuses]

TxTyped ==
    /\ shown \in Txs \cup {NoTx}
    /\ stage \in [TxFlows -> {"idle", "signing", "submitting", "done"}]
    /\ ledger \in [TxFlows -> {"absent", "held", "applied", "failed"}]
    /\ answer \in [TxFlows -> {"none", "due", "refused", "applied", "failed", "held", "lost"}]

\* A transaction that nobody has answered is in no ledger.
LedgerTrue ==
    \A f \in TxFlows :
        /\ stage[f] \in {"idle", "signing"} => answer[f] = "none"
        /\ answer[f] \in {"none", "due"} => ledger[f] = "absent"
        /\ answer[f] = "applied" => ledger[f] = "applied"

TxInv ==
    /\ TxTyped /\ LedgerTrue
    /\ kept = shown /\ polls = Polling(shown)
    /\ IndicatorTrue

\* What is reported is what the indicator says then.
LEMMA ReportKeeps ==
    ASSUME NEW f \in TxFlows, NEW s \in Statuses, Report(Status(f, s))
    PROVE  /\ shown' = Status(f, s) /\ kept' = shown' /\ polls' = Polling(shown')
           /\ shown' \in Txs /\ shown'.flow = f /\ shown'.status = s
  BY DEF Report, Status, Txs

LEMMA TxStep == TxInv /\ [TxNext]_txVars => TxInv'
  <1> SUFFICES ASSUME TxInv, [TxNext]_txVars PROVE TxInv'
    OBVIOUS
  <1>1. NoTx.status = "none"
    BY DEF NoTx
  <1>2. ASSUME NEW f \in TxFlows, Start(f) \/ Sign(f) \/ Refuse(f) \/ Answered(f) PROVE TxInv'
    <2>1. PICK s \in Statuses :
             /\ Report(Status(f, s))
             /\ s \in {"signing", "submitting"} => stage' = [stage EXCEPT ![f] = s]
             /\ s = "success" => answer[f] = "applied"
      <3>1. CASE Start(f)
        BY <3>1 DEF Start, Statuses
      <3>2. CASE Sign(f)
        BY <3>2 DEF Sign, Statuses
      <3>3. CASE Refuse(f)
        BY <3>3 DEF Refuse, Statuses
      <3>4. CASE Answered(f)
        BY <3>4 DEF Answered, Accepted, Statuses
      <3> QED BY <1>2, <3>1, <3>2, <3>3, <3>4
    <2>2. /\ ledger' = ledger
          /\ \E p \in {"signing", "submitting", "done"} :
                /\ stage' = [stage EXCEPT ![f] = p]
                /\ p = "signing" => stage[f] = "idle"
          /\ answer' = answer \/ (answer' = [answer EXCEPT ![f] = "due"] /\ stage[f] = "signing"
                                  /\ stage' = [stage EXCEPT ![f] = "submitting"])
      BY <1>2 DEF Start, Sign, Refuse, Answered
    <2>3. /\ shown' = Status(f, s) /\ kept' = shown' /\ polls' = Polling(shown')
          /\ shown' \in Txs /\ shown'.flow = f /\ shown'.status = s
      BY <2>1, ReportKeeps
    <2>4. TxTyped'
      BY <2>2, <2>3 DEF TxInv, TxTyped
    <2>5. LedgerTrue'
      BY <2>2 DEF TxInv, TxTyped, LedgerTrue
    <2>6. IndicatorTrue'
      BY <2>1, <2>2, <2>3 DEF TxInv, TxTyped, LedgerTrue, IndicatorTrue, Polling
    <2> QED BY <2>3, <2>4, <2>5, <2>6 DEF TxInv
  <1>3. ASSUME NEW f \in TxFlows, Remote(f) \/ Include(f) PROVE TxInv'
    <2>1. UNCHANGED <<stage, shown, kept, polls>>
      BY <1>3 DEF Remote, Include
    <2>2. /\ ledger[f] # "applied" /\ ledger' \in [TxFlows -> {"absent", "held", "applied", "failed"}]
          /\ \A g \in TxFlows : g # f => ledger'[g] = ledger[g]
      BY <1>3 DEF Remote, Include, TxInv, TxTyped, LedgerTrue
    <2>3. TxTyped' /\ LedgerTrue'
      <3>1. CASE Remote(f)
        <4>1. PICK outcome \in {"refused", "applied", "failed", "held"},
                   back \in {"refused", "applied", "failed", "held", "lost"} :
                 /\ back \in {outcome, "lost"}
                 /\ ledger' = [ledger EXCEPT ![f] = IF outcome = "refused" THEN @ ELSE outcome]
                 /\ answer' = [answer EXCEPT ![f] = back]
          BY <3>1 DEF Remote
        <4>2. answer[f] = "due"
          BY <3>1 DEF Remote
        <4> DEFINE now == IF outcome = "refused" THEN ledger[f] ELSE outcome
        <4>3. ledger' = [ledger EXCEPT ![f] = now]
          BY <4>1
        <4>4. back = "applied" => now = "applied"
          BY <4>1
        <4>5. back \in {"refused", "applied", "failed", "held", "lost"}
          BY <4>1
        <4> HIDE DEF now
        <4>6. answer' \in [TxFlows -> {"none", "due", "refused", "applied", "failed", "held", "lost"}]
          BY <4>1, <4>5 DEF TxInv, TxTyped
        <4> QED BY <2>1, <2>2, <4>1, <4>2, <4>3, <4>4, <4>5, <4>6 DEF TxInv, TxTyped, LedgerTrue
      <3>2. CASE Include(f)
        BY <2>1, <2>2, <3>2 DEF Include, TxInv, TxTyped, LedgerTrue
      <3> QED BY <1>3, <3>1, <3>2
    <2>4. IndicatorTrue'
      <3>1. shown.status = "success" => shown.flow \in TxFlows /\ shown.flow # f
        BY <1>1, <2>2 DEF TxInv, TxTyped, Txs, IndicatorTrue
      <3> QED BY <2>1, <2>2, <3>1 DEF TxInv, IndicatorTrue
    <2> QED BY <2>1, <2>3, <2>4 DEF TxInv
  <1>4. ASSUME NEW f \in TxFlows, Confirmed(f) PROVE TxInv'
    <2> DEFINE s == Accepted(ledger[f])
    <2>1. /\ f \in polls /\ Report([shown EXCEPT !.status = s])
          /\ UNCHANGED <<stage, ledger, answer>>
      BY <1>4 DEF Confirmed
    <2>2. shown \in Txs /\ shown.status = "pending" /\ shown.flow = f
      BY <1>1, <2>1 DEF TxInv, TxTyped, Polling, Txs
    <2>3. s \in {"success", "error"} /\ s \in Statuses /\ (s = "success" => ledger[f] = "applied")
      BY DEF Accepted, Statuses
    <2> HIDE DEF s
    <2>4. [shown EXCEPT !.status = s] = Status(f, s)
      BY <2>2 DEF Txs, Status
    <2>5. /\ shown' = Status(f, s) /\ kept' = shown' /\ polls' = Polling(shown')
          /\ shown' \in Txs /\ shown'.flow = f /\ shown'.status = s
      BY <2>1, <2>3, <2>4, ReportKeeps
    <2>6. TxTyped' /\ LedgerTrue'
      BY <2>1, <2>5 DEF TxInv, TxTyped, LedgerTrue
    <2>7. IndicatorTrue'
      BY <2>1, <2>3, <2>5 DEF IndicatorTrue
    <2> QED BY <2>5, <2>6, <2>7 DEF TxInv
  <1>5. CASE Dismiss
    <2>1. shown' = NoTx /\ kept' = NoTx /\ polls' = Polling(NoTx) /\ UNCHANGED <<stage, ledger, answer>>
      BY <1>5 DEF Dismiss, Report
    <2> QED BY <1>1, <2>1 DEF TxInv, TxTyped, LedgerTrue, IndicatorTrue
  <1>6. CASE Reload
    <2>1. /\ shown' = Restored(shown) /\ kept' = shown' /\ polls' = Polling(shown')
          /\ UNCHANGED <<ledger, answer>>
          /\ stage' = [f \in TxFlows |-> IF stage[f] = "idle" THEN "idle" ELSE "done"]
      BY <1>6 DEF Reload, TxInv
    <2>2. TxTyped'
      BY <2>1 DEF TxInv, TxTyped, Restored
    <2>3. LedgerTrue'
      BY <2>1 DEF TxInv, LedgerTrue
    <2>4. shown' = NoTx \/ (shown' = shown /\ shown.status \in {"success", "error", "pending"})
      BY <2>1 DEF Restored
    <2>5. IndicatorTrue'
      BY <1>1, <2>1, <2>4 DEF TxInv, IndicatorTrue, Polling
    <2> QED BY <2>1, <2>2, <2>3, <2>5 DEF TxInv
  <1>7. CASE UNCHANGED txVars
    BY <1>7 DEF txVars, TxInv, TxTyped, LedgerTrue, IndicatorTrue
  <1> QED BY <1>2, <1>3, <1>4, <1>5, <1>6, <1>7 DEF TxNext

LEMMA TxInitial == TxInit => TxInv
  BY DEF TxInit, TxInv, TxTyped, LedgerTrue, Polling, IndicatorTrue, NoTx

-----------------------------------------------------------------------------
(* Numbers *)

-----------------------------------------------------------------------------
(* PriceStream *)

StreamCommands == [op : {"sub", "unsub"}, pools : SUBSET StreamPools]

About(q, p) == {i \in DOMAIN q : p \in q[i].pools}

\* The last command about p is of this kind.
LastSays(q, p, op) ==
    \E i \in About(q, p) : q[i].op = op /\ \A j \in About(q, p) : j <= i

\* All of them are subscriptions.
OnlySubs(q, p) == \A i \in About(q, p) : q[i].op = "sub"

\* A watched pool is subscribed to by the last command about it, or in Redis, or its
\* command failed. One that nobody watches is subscribed to only because a command
\* failed, or because of what Redis had when the connection was lost.
Settling ==
    /\ \A p \in Watched : LastSays(queue, p, "sub")
                          \/ (About(queue, p) = {} /\ p \in channels \cup lost)
    /\ \A p \in StreamPools \ Watched :
          /\ About(queue, p) = {} /\ p \in channels => p \in extra
          /\ LastSays(queue, p, "sub") => p \in extra /\ OnlySubs(queue, p)

MapsAgree == \A c \in Watchers, p \in StreamPools : c \in subscriptions[p] <=> p \in clientPools[c]

\* Who has no connection watches nothing, nobody watches too much.
WithinMeans ==
    \A c \in Watchers : /\ IsFiniteSet(clientPools[c])
                        /\ Cardinality(clientPools[c]) <= MaxSubs[c]
                        /\ c \notin open => clientPools[c] = {}

StreamInv == StreamTypeOK /\ MapsAgree /\ WithinMeans /\ Settling

\* What a new command changes.
LEMMA AppendSays ==
    ASSUME NEW q \in Seq(StreamCommands), NEW cmd \in StreamCommands, NEW p
    PROVE  LET r == Append(q, cmd)
           IN /\ r \in Seq(StreamCommands)
              /\ p \in cmd.pools => /\ About(r, p) # {}
                                    /\ \A op : LastSays(r, p, op) <=> cmd.op = op
              /\ p \notin cmd.pools => /\ About(r, p) = About(q, p)
                                       /\ \A op : LastSays(r, p, op) <=> LastSays(q, p, op)
                                       /\ OnlySubs(r, p) <=> OnlySubs(q, p)
<1> DEFINE r == Append(q, cmd)
           n == Len(q) + 1
<1>1. /\ r \in Seq(StreamCommands) /\ n \in Nat \ {0} /\ DOMAIN r = 1 .. n /\ DOMAIN q = 1 .. (n - 1)
      /\ r[n] = cmd /\ \A i \in 1 .. (n - 1) : r[i] = q[i]
  OBVIOUS
<1> HIDE DEF r, n
<1>2. ASSUME p \in cmd.pools
      PROVE  About(r, p) # {} /\ \A op : LastSays(r, p, op) <=> cmd.op = op
  <2>1. n \in About(r, p) /\ \A j \in About(r, p) : j <= n /\ j \in Nat
    <3>1. n \in DOMAIN r /\ p \in r[n].pools
      BY <1>1, <1>2
    <3>2. \A j \in DOMAIN r : j <= n /\ j \in Nat
      BY <1>1
    <3> QED BY <3>1, <3>2, Zenon DEF About
  <2> QED BY <1>1, <2>1 DEF LastSays
<1>3. ASSUME p \notin cmd.pools
      PROVE  /\ About(r, p) = About(q, p)
             /\ \A op : LastSays(r, p, op) <=> LastSays(q, p, op)
             /\ OnlySubs(r, p) <=> OnlySubs(q, p)
  <2>1. About(r, p) = About(q, p) /\ \A i \in About(q, p) : r[i] = q[i]
    BY <1>1, <1>3 DEF About
  <2> QED BY <2>1 DEF LastSays, OnlySubs
<1> QED BY <1>1, <1>2, <1>3 DEF r

\* What the oldest command decides.
LEMMA HeadSays ==
    ASSUME NEW q \in Seq(StreamCommands), q # <<>>, NEW p
    PROVE  LET t == Tail(q)
               cmd == Head(q)
           IN /\ t \in Seq(StreamCommands) /\ cmd \in StreamCommands
              /\ p \in cmd.pools =>
                    /\ About(q, p) # {}
                    /\ \A op : LastSays(q, p, op) <=>
                                  LastSays(t, p, op) \/ (About(t, p) = {} /\ cmd.op = op)
                    /\ OnlySubs(q, p) <=> cmd.op = "sub" /\ OnlySubs(t, p)
              /\ p \notin cmd.pools =>
                    /\ About(q, p) = {} <=> About(t, p) = {}
                    /\ \A op : LastSays(q, p, op) <=> LastSays(t, p, op)
                    /\ OnlySubs(q, p) <=> OnlySubs(t, p)
<1> DEFINE t == Tail(q)
           cmd == Head(q)
           n == Len(q)
<1>1. /\ t \in Seq(StreamCommands) /\ cmd \in StreamCommands /\ n \in Nat \ {0}
      /\ DOMAIN q = 1 .. n /\ DOMAIN t = 1 .. (n - 1)
      /\ q[1] = cmd /\ \A i \in 1 .. (n - 1) : t[i] = q[i + 1]
  OBVIOUS
<1> HIDE DEF t, cmd, n
<1>2. \A i \in About(t, p) : i \in 1 .. (n - 1) /\ i + 1 \in About(q, p) /\ q[i + 1] = t[i]
  BY <1>1 DEF About
<1>3. \A i \in About(q, p) : i \in 1 .. n /\ (i = 1 \/ (i - 1 \in About(t, p) /\ q[i] = t[i - 1]))
  BY <1>1 DEF About
<1>4. 1 \in About(q, p) <=> p \in cmd.pools
  BY <1>1 DEF About
<1>5. ASSUME NEW op
      PROVE  LastSays(t, p, op) => LastSays(q, p, op)
  <2> SUFFICES ASSUME LastSays(t, p, op) PROVE LastSays(q, p, op)
    OBVIOUS
  <2>1. PICK i \in About(t, p) : t[i].op = op /\ \A j \in About(t, p) : j <= i
    BY DEF LastSays
  <2>2. \A j \in About(q, p) : j <= i + 1
    BY <1>2, <1>3, <2>1
  <2> QED BY <1>2, <2>1, <2>2 DEF LastSays
<1>6. ASSUME NEW op, LastSays(q, p, op)
      PROVE  LastSays(t, p, op) \/ (About(t, p) = {} /\ p \in cmd.pools /\ cmd.op = op)
  <2>1. PICK i \in About(q, p) : q[i].op = op /\ \A j \in About(q, p) : j <= i
    BY <1>6 DEF LastSays
  <2>2. CASE i = 1
    <3>1. About(t, p) = {}
      <4> SUFFICES ASSUME NEW j \in About(t, p) PROVE FALSE
        OBVIOUS
      <4>1. j \in Nat \ {0} /\ j + 1 <= 1
        BY <1>1, <1>2, <2>1, <2>2
      <4> QED BY <4>1
    <3> QED BY <1>1, <1>4, <2>1, <2>2, <3>1
  <2>3. CASE i # 1
    <3>1. i - 1 \in About(t, p) /\ t[i - 1].op = op
      BY <1>3, <2>1, <2>3
    <3>2. \A j \in About(t, p) : j <= i - 1
      BY <1>2, <1>3, <2>1
    <3> QED BY <3>1, <3>2 DEF LastSays
  <2> QED BY <2>2, <2>3
<1>7. ASSUME NEW op, About(t, p) = {}, p \in cmd.pools, cmd.op = op
      PROVE  LastSays(q, p, op)
  <2>1. \A i \in About(q, p) : i <= 1
    BY <1>3, <1>7
  <2> QED BY <1>1, <1>4, <1>7, <2>1 DEF LastSays
<1>8. p \in cmd.pools => (OnlySubs(q, p) <=> cmd.op = "sub" /\ OnlySubs(t, p))
  BY <1>1, <1>2, <1>3, <1>4, SMTT(30) DEF OnlySubs
<1>9. p \notin cmd.pools => (OnlySubs(q, p) <=> OnlySubs(t, p)) /\ (About(q, p) = {} <=> About(t, p) = {})
  BY <1>1, <1>2, <1>3, <1>4, SMTT(30) DEF OnlySubs
<1> QED BY <1>1, <1>4, <1>5, <1>6, <1>7, <1>8, <1>9 DEF t, cmd

\* Commands that are about p have a last one.
LEMMA SomeLast ==
    ASSUME NEW q \in Seq(StreamCommands), NEW p, About(q, p) # {}
    PROVE  /\ LastSays(q, p, "sub") \/ LastSays(q, p, "unsub")
           /\ \A op : LastSays(q, p, op) <=> q[Max(About(q, p))].op = op
<1>1. About(q, p) \subseteq 0 .. Len(q) /\ Len(q) \in Nat
  BY DEF About
<1>2. PICK m \in About(q, p) : \A k \in About(q, p) : m >= k
  BY <1>1, LargestNatural
<1>3. Max(About(q, p)) \in About(q, p) /\ \A k \in About(q, p) : Max(About(q, p)) >= k
  BY <1>2, Zenon DEF Max
<1> DEFINE x == Max(About(q, p))
<1>4. x \in About(q, p) /\ x \in DOMAIN q /\ \A k \in About(q, p) : k <= x /\ k \in Nat
  BY <1>1, <1>3 DEF About
<1> HIDE DEF x
<1>5. q[x].op \in {"sub", "unsub"}
  <2>1. q[x] \in StreamCommands
    BY <1>4
  <2> QED BY <2>1 DEF StreamCommands
<1>6. \A op : LastSays(q, p, op) <=> q[x].op = op
  <2> SUFFICES ASSUME NEW op, NEW i \in About(q, p), \A j \in About(q, p) : j <= i PROVE i = x
    BY <1>4 DEF LastSays
  <2> QED BY <1>4
<1> QED BY <1>5, <1>6 DEF x

\* WillBe says how the commands in flight end.
LEMMA WillBeSays ==
    ASSUME queue \in Seq(StreamCommands), NEW p
    PROVE  WillBe(p) <=> LastSays(queue, p, "sub") \/ (About(queue, p) = {} /\ p \in channels)
<1>1. CASE About(queue, p) = {}
  <2>1. ~LastSays(queue, p, "sub")
    BY <1>1 DEF LastSays
  <2> QED BY <1>1, <2>1 DEF WillBe, About
<1>2. CASE About(queue, p) # {}
  <2>1. LastSays(queue, p, "sub") <=> queue[Max(About(queue, p))].op = "sub"
    BY <1>2, SomeLast
  <2>2. WillBe(p) <=> queue[Max(About(queue, p))].op = "sub"
    BY <1>2, Zenon DEF WillBe, About
  <2> QED BY <1>2, <2>1, <2>2
<1> QED BY <1>1, <1>2

\* The invariant says what the property does.
LEMMA StreamMeans == StreamInv => StreamSettles
<1> SUFFICES ASSUME StreamInv PROVE StreamSettles
  OBVIOUS
<1>1. queue \in Seq(StreamCommands)
  BY DEF StreamInv, StreamTypeOK, StreamCommands
<1>2. \A p : WillBe(p) <=> LastSays(queue, p, "sub") \/ (About(queue, p) = {} /\ p \in channels)
  BY <1>1, WillBeSays
<1>3. \A p \in Watched : WillBe(p) \/ p \in lost
  BY <1>2 DEF StreamInv, Settling
<1>4. \A p \in StreamPools : WillBe(p) => p \in Watched \cup extra
  BY <1>2 DEF StreamInv, Settling
<1> QED BY <1>3, <1>4 DEF StreamInv, StreamSettles, MapsAgree, WithinMeans

LEMMA StreamInitial == StreamInit => StreamInv
<1> SUFFICES ASSUME StreamInit PROVE StreamInv
  OBVIOUS
<1> USE DEF StreamInit
<1>1. StreamTypeOK
  BY DEF StreamTypeOK
<1>2. MapsAgree
  BY DEF MapsAgree
<1>3. WithinMeans
  BY StreamAssumption, FS_EmptySet DEF WithinMeans
<1>4. Settling
  BY DEF Settling, Watched, LastSays, About
<1> QED BY <1>1, <1>2, <1>3, <1>4 DEF StreamInv

\* A step that sends one command, or none, about pools that change hands.
LEMMA SendKeeps ==
    ASSUME StreamInv, NEW op \in {"sub", "unsub"}, NEW ps \in SUBSET StreamPools, Send(op, ps),
           UNCHANGED <<channels, lost, extra>>,
           subscriptions' \in [StreamPools -> SUBSET Watchers],
           \A p \in ps : p \in Watched' <=> op = "sub",
           \A p \in StreamPools \ ps : p \in Watched' <=> p \in Watched
    PROVE  queue' \in Seq(StreamCommands) /\ Settling'
<1>0. queue \in Seq(StreamCommands) /\ Settling
  BY DEF StreamInv, StreamTypeOK, StreamCommands
<1>1. CASE ps = {}
  <2>1. queue' = queue /\ channels' = channels /\ lost' = lost /\ extra' = extra
        /\ \A p \in StreamPools : p \in Watched' <=> p \in Watched
    BY <1>1 DEF Send
  <2>2. Watched \subseteq StreamPools /\ Watched' \subseteq StreamPools
    BY DEF Watched
  <2>3. Watched' = Watched
    BY <2>1, <2>2
  <2> QED BY <1>0, <2>1, <2>3 DEF Settling
<1>2. CASE ps # {}
  <2> DEFINE cmd == [op |-> op, pools |-> ps]
  <2>1. cmd \in StreamCommands /\ queue' = Append(queue, cmd) /\ cmd.pools = ps /\ cmd.op = op
    BY <1>2 DEF Send, StreamCommands
  <2> HIDE DEF cmd
  <2>2. queue' \in Seq(StreamCommands)
    BY <1>0, <2>1
  <2>3. \A p \in ps : About(queue', p) # {} /\ \A o : LastSays(queue', p, o) <=> op = o
    BY <1>0, <2>1, AppendSays
  <2>4. ASSUME NEW p, p \notin ps
        PROVE  /\ About(queue', p) = About(queue, p)
               /\ LastSays(queue', p, "sub") <=> LastSays(queue, p, "sub")
               /\ OnlySubs(queue', p) <=> OnlySubs(queue, p)
    <3>1. LET r == Append(queue, cmd)
          IN p \notin cmd.pools => /\ About(r, p) = About(queue, p)
                                   /\ \A o : LastSays(r, p, o) <=> LastSays(queue, p, o)
                                   /\ OnlySubs(r, p) <=> OnlySubs(queue, p)
      BY <1>0, <2>1, AppendSays
    <3> QED BY <2>1, <2>4, <3>1
  <2>5. Watched \subseteq StreamPools /\ Watched' \subseteq StreamPools
    BY DEF Watched
  <2>6. ASSUME NEW p \in Watched'
        PROVE  LastSays(queue', p, "sub") \/ (About(queue', p) = {} /\ p \in channels' \cup lost')
    <3>1. CASE p \in ps
      BY <2>3, <2>6, <3>1
    <3>2. CASE p \notin ps
      <4>1. p \in Watched
        BY <2>5, <2>6, <3>2
      <4>2. LastSays(queue, p, "sub") \/ (About(queue, p) = {} /\ p \in channels \cup lost)
        BY <1>0, <4>1 DEF Settling
      <4> QED BY <2>4, <3>2, <4>2
    <3> QED BY <3>1, <3>2
  <2>7. ASSUME NEW p \in StreamPools \ Watched'
        PROVE  /\ About(queue', p) = {} /\ p \in channels' => p \in extra'
               /\ LastSays(queue', p, "sub") => p \in extra' /\ OnlySubs(queue', p)
    <3>1. CASE p \in ps
      <4>1. op # "sub"
        BY <2>7, <3>1
      <4> QED BY <2>3, <3>1, <4>1
    <3>2. CASE p \notin ps
      <4>1. p \notin Watched
        BY <2>7, <3>2
      <4>2. /\ About(queue, p) = {} /\ p \in channels => p \in extra
            /\ LastSays(queue, p, "sub") => p \in extra /\ OnlySubs(queue, p)
        BY <1>0, <4>1 DEF Settling
      <4> QED BY <2>4, <3>2, <4>2
    <3> QED BY <3>1, <3>2
  <2>8. Settling'
    BY <2>6, <2>7 DEF Settling
  <2> QED BY <2>2, <2>8
<1> QED BY <1>1, <1>2, <1>0 DEF Send

\* unsubscribe and removeClient.
LEMMA LeaveKeeps ==
    ASSUME StreamInv, NEW c \in Watchers, NEW ps \in SUBSET StreamPools, Leave(c, ps),
           UNCHANGED <<channels, lost, extra>>, (open' = open) \/ (ps = clientPools[c])
    PROVE  /\ subscriptions' \in [StreamPools -> SUBSET Watchers]
           /\ clientPools' \in [Watchers -> SUBSET StreamPools]
           /\ queue' \in Seq(StreamCommands)
           /\ MapsAgree' /\ Settling'
           /\ open' \in {open, open \ {c}} => WithinMeans'
<1>1. /\ subscriptions \in [StreamPools -> SUBSET Watchers]
      /\ clientPools \in [Watchers -> SUBSET StreamPools]
      /\ MapsAgree /\ WithinMeans
  BY DEF StreamInv, StreamTypeOK
<1> DEFINE ending == {p \in ps : subscriptions[p] = {c}}
<1>2. /\ subscriptions' = [p \in StreamPools |-> subscriptions[p] \ (IF p \in ps THEN {c} ELSE {})]
      /\ clientPools' = [clientPools EXCEPT ![c] = @ \ ps]
      /\ Send("unsub", ending)
  BY DEF Leave
<1>3. subscriptions' \in [StreamPools -> SUBSET Watchers]
  BY <1>1, <1>2
<1>4. clientPools' \in [Watchers -> SUBSET StreamPools]
  BY <1>1, <1>2
<1>5. MapsAgree'
  <2>1. \A d \in Watchers, p \in StreamPools : d \in subscriptions[p] <=> p \in clientPools[d]
    BY <1>1 DEF MapsAgree
  <2> SUFFICES ASSUME NEW d \in Watchers, NEW p \in StreamPools
               PROVE  d \in subscriptions'[p] <=> p \in clientPools'[d]
    BY DEF MapsAgree
  <2>2. d \in subscriptions'[p] <=> d \in subscriptions[p] /\ ~(p \in ps /\ d = c)
    BY <1>2
  <2>3. p \in clientPools'[d] <=> p \in clientPools[d] /\ ~(p \in ps /\ d = c)
    BY <1>1, <1>2
  <2> QED BY <2>1, <2>2, <2>3
<1>6. \A p \in ending : p \notin Watched'
  BY <1>2 DEF Watched
<1>7. ASSUME NEW p \in StreamPools \ ending PROVE p \in Watched' <=> p \in Watched
  <2>1. subscriptions'[p] = {} <=> subscriptions[p] = {}
    <3>1. CASE p \in ps
      <4>1. subscriptions[p] # {c} /\ subscriptions'[p] = subscriptions[p] \ {c}
        BY <1>2, <1>7, <3>1
      <4> QED BY <4>1
    <3>2. CASE p \notin ps
      BY <1>2, <3>2
    <3> QED BY <3>1, <3>2
  <2> QED BY <2>1 DEF Watched
<1>8. ending \in SUBSET StreamPools
  OBVIOUS
<1> HIDE DEF ending
<1>9. queue' \in Seq(StreamCommands) /\ Settling'
  BY <1>2, <1>3, <1>6, <1>7, <1>8, SendKeeps
<1>10. ASSUME open' \in {open, open \ {c}} PROVE WithinMeans'
  <2> SUFFICES ASSUME NEW d \in Watchers
               PROVE  /\ IsFiniteSet(clientPools'[d])
                      /\ Cardinality(clientPools'[d]) <= MaxSubs[d]
                      /\ d \notin open' => clientPools'[d] = {}
    BY DEF WithinMeans
  <2>1. /\ IsFiniteSet(clientPools[d]) /\ Cardinality(clientPools[d]) <= MaxSubs[d]
        /\ d \notin open => clientPools[d] = {}
    BY <1>1 DEF WithinMeans
  <2>2. clientPools'[d] \subseteq clientPools[d]
    BY <1>1, <1>2
  <2>3. /\ IsFiniteSet(clientPools'[d]) /\ Cardinality(clientPools'[d]) <= Cardinality(clientPools[d])
        /\ Cardinality(clientPools'[d]) \in Nat /\ Cardinality(clientPools[d]) \in Nat
        /\ MaxSubs[d] \in Nat
    BY <2>1, <2>2, FS_Subset, FS_CardinalityType, StreamAssumption
  <2>4. d \notin open' => clientPools'[d] = {}
    <3>1. CASE d \notin open
      BY <2>1, <2>2, <3>1
    <3>2. CASE d \in open /\ d \notin open'
      <4>1. d = c /\ ps = clientPools[c]
        BY <1>10, <3>2
      <4> QED BY <1>1, <1>2, <4>1
    <3> QED BY <3>1, <3>2
  <2> QED BY <2>1, <2>3, <2>4
<1> QED BY <1>3, <1>4, <1>5, <1>9, <1>10

\* subscribe.
LEMMA SubscribeKeeps ==
    ASSUME StreamInv, NEW c \in Watchers, NEW p \in StreamPools, Subscribe(c, p)
    PROVE  StreamInv'
<1>1. /\ subscriptions \in [StreamPools -> SUBSET Watchers]
      /\ clientPools \in [Watchers -> SUBSET StreamPools]
      /\ MapsAgree /\ WithinMeans /\ StreamTypeOK
  BY DEF StreamInv, StreamTypeOK
<1>2. /\ c \in open /\ Cardinality(clientPools[c]) < MaxSubs[c]
      /\ subscriptions' = [subscriptions EXCEPT ![p] = @ \cup {c}]
      /\ clientPools' = [clientPools EXCEPT ![c] = @ \cup {p}]
      /\ Send("sub", {p} \ Watched)
      /\ UNCHANGED <<open, channels, up, lost, extra, drops>>
  BY DEF Subscribe
<1>3. /\ subscriptions' \in [StreamPools -> SUBSET Watchers]
      /\ clientPools' \in [Watchers -> SUBSET StreamPools]
  BY <1>1, <1>2
<1>4. MapsAgree'
  BY <1>1, <1>2 DEF MapsAgree
<1>5. WithinMeans'
  <2> SUFFICES ASSUME NEW d \in Watchers
               PROVE  /\ IsFiniteSet(clientPools'[d])
                      /\ Cardinality(clientPools'[d]) <= MaxSubs[d]
                      /\ d \notin open' => clientPools'[d] = {}
    BY DEF WithinMeans
  <2>1. /\ IsFiniteSet(clientPools[d]) /\ Cardinality(clientPools[d]) <= MaxSubs[d]
        /\ d \notin open => clientPools[d] = {}
    BY <1>1 DEF WithinMeans
  <2>2. CASE d # c
    BY <1>1, <1>2, <2>1, <2>2
  <2>3. CASE d = c
    <3>1. clientPools'[d] = clientPools[d] \cup {p}
      BY <1>1, <1>2, <2>3
    <3>2. /\ IsFiniteSet(clientPools'[d])
          /\ Cardinality(clientPools'[d]) \in {Cardinality(clientPools[d]), Cardinality(clientPools[d]) + 1}
          /\ Cardinality(clientPools[d]) \in Nat /\ MaxSubs[d] \in Nat
      BY <2>1, <3>1, FS_AddElement, FS_CardinalityType, StreamAssumption
    <3> QED BY <1>2, <2>3, <3>2
  <2> QED BY <2>2, <2>3
<1>6. \A q \in {p} \ Watched : q \in Watched'
  BY <1>1, <1>2 DEF Watched
<1>7. \A q \in StreamPools \ ({p} \ Watched) : q \in Watched' <=> q \in Watched
  BY <1>1, <1>2 DEF Watched
<1>8. queue' \in Seq(StreamCommands) /\ Settling'
  <2> DEFINE ps == {p} \ Watched
  <2>1. ps \in SUBSET StreamPools
    OBVIOUS
  <2> HIDE DEF ps
  <2>2. /\ Send("sub", ps) /\ UNCHANGED <<channels, lost, extra>>
        /\ \A q \in ps : q \in Watched'
        /\ \A q \in StreamPools \ ps : q \in Watched' <=> q \in Watched
    BY <1>2, <1>6, <1>7 DEF ps
  <2> QED BY <1>3, <2>1, <2>2, SendKeeps
<1>9. StreamTypeOK'
  BY <1>1, <1>2, <1>3, <1>8 DEF StreamTypeOK, StreamCommands
<1> QED BY <1>4, <1>5, <1>8, <1>9 DEF StreamInv

\* The oldest command leaves the queue, done or failed.
LEMMA DrainKeeps ==
    ASSUME StreamInv, Execute \/ CommandFails
    PROVE  StreamInv'
<1> DEFINE t == Tail(queue)
           cmd == Head(queue)
<1>1. queue \in Seq(StreamCommands) /\ queue # <<>> /\ StreamTypeOK /\ Settling
  BY DEF StreamInv, StreamTypeOK, StreamCommands, Execute, CommandFails
<1>2. /\ queue' = t /\ t \in Seq(StreamCommands)
      /\ cmd \in StreamCommands /\ cmd.pools \subseteq StreamPools /\ cmd.op \in {"sub", "unsub"}
  BY <1>1, HeadSays DEF Execute, CommandFails, StreamCommands
<1>3. /\ \/ /\ cmd.op = "sub" /\ channels' = channels \cup cmd.pools
            /\ lost' = lost \ cmd.pools /\ extra' = extra
         \/ /\ cmd.op = "unsub" /\ channels' = channels \ cmd.pools
            /\ lost' = lost /\ extra' = extra \ cmd.pools
         \/ /\ cmd.op = "sub" /\ channels' = channels
            /\ lost' = lost \cup cmd.pools /\ extra' = extra
         \/ /\ cmd.op = "unsub" /\ channels' = channels
            /\ lost' = lost /\ extra' = extra \cup cmd.pools
      /\ UNCHANGED <<subscriptions, clientPools, open, up>>
      /\ drops' \in Nat
  BY <1>1, <1>2 DEF Execute, CommandFails, StreamTypeOK
<1>4. ASSUME NEW p, p \in cmd.pools
      PROVE  /\ About(queue, p) # {}
             /\ LastSays(queue, p, "sub") <=>
                   LastSays(t, p, "sub") \/ (About(t, p) = {} /\ cmd.op = "sub")
             /\ OnlySubs(queue, p) <=> cmd.op = "sub" /\ OnlySubs(t, p)
  BY <1>1, <1>4, HeadSays
<1>5. ASSUME NEW p, p \notin cmd.pools
      PROVE  /\ About(queue, p) = {} <=> About(t, p) = {}
             /\ LastSays(queue, p, "sub") <=> LastSays(t, p, "sub")
             /\ OnlySubs(queue, p) <=> OnlySubs(t, p)
  BY <1>1, <1>5, HeadSays
<1> HIDE DEF t, cmd
<1>6. Watched' = Watched
  BY <1>3 DEF Watched
<1>7. ASSUME NEW p \in Watched
      PROVE  LastSays(t, p, "sub") \/ (About(t, p) = {} /\ p \in channels' \cup lost')
  <2>1. LastSays(queue, p, "sub") \/ (About(queue, p) = {} /\ p \in channels \cup lost)
    BY <1>1 DEF Settling
  <2>2. CASE p \in cmd.pools
    BY <1>3, <1>4, <2>1, <2>2
  <2>3. CASE p \notin cmd.pools
    BY <1>3, <1>5, <2>1, <2>3
  <2> QED BY <2>2, <2>3
<1>8. ASSUME NEW p \in StreamPools \ Watched
      PROVE  /\ About(t, p) = {} /\ p \in channels' => p \in extra'
             /\ LastSays(t, p, "sub") => p \in extra' /\ OnlySubs(t, p)
  <2>1. /\ About(queue, p) = {} /\ p \in channels => p \in extra
        /\ LastSays(queue, p, "sub") => p \in extra /\ OnlySubs(queue, p)
    BY <1>1 DEF Settling
  <2>2. CASE p \in cmd.pools
    BY <1>3, <1>4, <2>1, <2>2
  <2>3. CASE p \notin cmd.pools
    BY <1>3, <1>5, <2>1, <2>3
  <2> QED BY <2>2, <2>3
<1>9. Settling'
  BY <1>2, <1>6, <1>7, <1>8 DEF Settling
<1>10. StreamTypeOK'
  <2>1. queue' \in Seq([op : {"sub", "unsub"}, pools : SUBSET StreamPools])
    BY <1>2 DEF StreamCommands
  <2>2. channels' \subseteq StreamPools /\ lost' \subseteq StreamPools /\ extra' \subseteq StreamPools
    BY <1>1, <1>2, <1>3 DEF StreamTypeOK
  <2> QED BY <1>1, <1>3, <2>1, <2>2 DEF StreamTypeOK
<1>11. MapsAgree' /\ WithinMeans'
  BY <1>3 DEF StreamInv, MapsAgree, WithinMeans
<1> QED BY <1>9, <1>10, <1>11 DEF StreamInv

\* A reconnection subscribes what Redis had, sends what is left and subscribes again.
LEMMA ReadyKeeps ==
    ASSUME StreamInv, Ready
    PROVE  StreamInv'
<1> DEFINE had == [op |-> "sub", pools |-> channels]
           all == [op |-> "sub", pools |-> Watched]
           q1 == IF channels = {} THEN queue ELSE <<had>> \o queue
           q2 == IF Watched = {} THEN q1 ELSE Append(q1, all)
<1>1. queue \in Seq(StreamCommands) /\ StreamTypeOK /\ Settling /\ Watched \subseteq StreamPools
  BY DEF StreamInv, StreamTypeOK, StreamCommands, Watched
<1>2. had \in StreamCommands /\ all \in StreamCommands
      /\ had.op = "sub" /\ had.pools = channels /\ all.op = "sub" /\ all.pools = Watched
  BY <1>1 DEF StreamTypeOK, StreamCommands
<1>3. q1 \in Seq(StreamCommands) /\ q2 \in Seq(StreamCommands)
  <2> HIDE DEF had, all
  <2> QED BY <1>1, <1>2
<1>4. /\ queue' = q2 /\ channels' = {} /\ lost' = lost \ Watched /\ up' = TRUE
      /\ UNCHANGED <<subscriptions, clientPools, open, extra, drops>>
  <2> DEFINE sub(ps) == IF ps = {} THEN <<>> ELSE <<[op |-> "sub", pools |-> ps]>>
  <2>1. queue' = (sub(channels) \o queue) \o sub(Watched)
    BY DEF Ready
  <2>2. sub(channels) \o queue = q1
    BY <1>1
  <2>3. q1 \o sub(Watched) = q2
    <3> HIDE DEF q1
    <3> QED BY <1>3
  <2> HIDE DEF q1, q2, sub
  <2> QED BY <2>1, <2>2, <2>3 DEF Ready
<1>5. ASSUME NEW p, channels # {}
      PROVE  LET q == <<had>> \o queue
             IN  /\ q \in Seq(StreamCommands) /\ q # <<>> /\ Head(q) = had /\ Tail(q) = queue
  <2> HIDE DEF had
  <2> QED BY <1>1, <1>2
<1> HIDE DEF had, all
<1>6. ASSUME NEW p, LastSays(q1, p, "sub")
      PROVE  LastSays(queue, p, "sub") \/ (p \in channels /\ About(queue, p) = {})
  <2>1. CASE channels = {}
    BY <1>6, <2>1
  <2>2. CASE channels # {}
    <3> DEFINE q == <<had>> \o queue
    <3>1. q \in Seq(StreamCommands) /\ q # <<>> /\ Head(q) = had /\ Tail(q) = queue /\ q1 = q
      BY <1>5, <2>2
    <3> HIDE DEF q, q1
    <3> QED BY <1>2, <1>6, <3>1, HeadSays
  <2> QED BY <2>1, <2>2
<1>7. ASSUME NEW p, OnlySubs(queue, p)
      PROVE  OnlySubs(q1, p)
  <2>1. CASE channels = {}
    BY <1>7, <2>1
  <2>2. CASE channels # {}
    <3> DEFINE q == <<had>> \o queue
    <3>1. q \in Seq(StreamCommands) /\ q # <<>> /\ Head(q) = had /\ Tail(q) = queue /\ q1 = q
      BY <1>5, <2>2
    <3> HIDE DEF q, q1
    <3> QED BY <1>2, <1>7, <3>1, HeadSays
  <2> QED BY <2>1, <2>2
<1> HIDE DEF q1
<1>8. ASSUME NEW p \in Watched
      PROVE  LastSays(q2, p, "sub")
  BY <1>2, <1>3, AppendSays
<1>9. ASSUME NEW p, p \notin Watched
      PROVE  /\ LastSays(q2, p, "sub") <=> LastSays(q1, p, "sub")
             /\ OnlySubs(q2, p) <=> OnlySubs(q1, p)
  <2>1. CASE Watched = {}
    BY <2>1
  <2>2. CASE Watched # {}
    BY <1>2, <1>3, <1>9, <2>2, AppendSays
  <2> QED BY <2>1, <2>2
<1> HIDE DEF q2
<1>10. Watched' = Watched
  BY <1>4 DEF Watched
<1>11. ASSUME NEW p \in StreamPools \ Watched, LastSays(q2, p, "sub")
       PROVE  p \in extra /\ OnlySubs(q2, p)
  <2>1. LastSays(queue, p, "sub") \/ (p \in channels /\ About(queue, p) = {})
    BY <1>6, <1>9, <1>11
  <2>2. p \in extra /\ OnlySubs(queue, p)
    <3>1. CASE LastSays(queue, p, "sub")
      BY <1>1, <3>1 DEF Settling
    <3>2. CASE p \in channels /\ About(queue, p) = {}
      BY <1>1, <3>2 DEF Settling, OnlySubs
    <3> QED BY <2>1, <3>1, <3>2
  <2> QED BY <1>7, <1>9, <2>2
<1>12. Settling'
  BY <1>4, <1>8, <1>10, <1>11 DEF Settling
<1>13. StreamTypeOK'
  BY <1>1, <1>3, <1>4 DEF StreamTypeOK, StreamCommands
<1>14. MapsAgree' /\ WithinMeans'
  BY <1>4 DEF StreamInv, MapsAgree, WithinMeans
<1> QED BY <1>12, <1>13, <1>14 DEF StreamInv

\* Every step of the stream keeps it.
LEMMA StreamStep == StreamInv /\ [StreamNext]_streamVars => StreamInv'
<1> SUFFICES ASSUME StreamInv, [StreamNext]_streamVars PROVE StreamInv'
  OBVIOUS
<1>0. /\ StreamTypeOK /\ MapsAgree /\ WithinMeans /\ Settling
      /\ clientPools \in [Watchers -> SUBSET StreamPools]
  BY DEF StreamInv, StreamTypeOK
<1>1. ASSUME NEW c \in Watchers, Connect(c) PROVE StreamInv'
  <2> USE <1>1 DEF Connect
  <2>1. StreamTypeOK'
    BY <1>0 DEF StreamTypeOK
  <2>2. MapsAgree' /\ WithinMeans'
    BY <1>0 DEF MapsAgree, WithinMeans
  <2>3. Settling'
    BY <1>0 DEF Settling, Watched
  <2> QED BY <2>1, <2>2, <2>3 DEF StreamInv
<1>2. ASSUME NEW c \in Watchers, NEW ps \in SUBSET StreamPools, Leave(c, ps),
             UNCHANGED <<channels, lost, extra, up, drops>>,
             \/ open' = open
             \/ ps = clientPools[c] /\ open' = open \ {c}
      PROVE  StreamInv'
  <2>1. /\ subscriptions' \in [StreamPools -> SUBSET Watchers]
        /\ clientPools' \in [Watchers -> SUBSET StreamPools]
        /\ queue' \in Seq(StreamCommands)
        /\ MapsAgree' /\ Settling' /\ WithinMeans'
    BY <1>2, LeaveKeeps
  <2>2. StreamTypeOK'
    BY <1>0, <1>2, <2>1 DEF StreamTypeOK, StreamCommands
  <2> QED BY <2>1, <2>2 DEF StreamInv
<1>3. ASSUME NEW c \in Watchers, Close(c) \/ SendFails(c) PROVE StreamInv'
  <2>1. clientPools[c] \in SUBSET StreamPools
    BY <1>0
  <2> QED BY <1>2, <1>3, <2>1 DEF Close, SendFails
<1>4. ASSUME NEW c \in Watchers, NEW p \in StreamPools, Unsubscribe(c, p) PROVE StreamInv'
  <2>1. {p} \in SUBSET StreamPools
    OBVIOUS
  <2> QED BY <1>2, <1>4, <2>1 DEF Unsubscribe
<1>5. CASE Disconnect
  <2>1. drops' = drops + 1 /\ up' = FALSE
        /\ UNCHANGED <<subscriptions, clientPools, open, queue, channels, lost, extra>>
    BY <1>5, Zenon DEF Disconnect
  <2>2. drops \in Nat
    BY <1>0, Zenon DEF StreamTypeOK
  <2>3. drops' \in Nat
    BY <2>1, <2>2
  <2>4. StreamTypeOK'
    BY <1>0, <2>1, <2>3, Zenon DEF StreamTypeOK
  <2>5. MapsAgree' /\ WithinMeans'
    BY <1>0, <2>1 DEF MapsAgree, WithinMeans
  <2>6. Settling'
    BY <1>0, <2>1 DEF Settling, Watched
  <2> QED BY <2>4, <2>5, <2>6, Zenon DEF StreamInv
<1>6. CASE UNCHANGED streamVars
  <2> USE <1>6 DEF streamVars
  <2>1. StreamTypeOK'
    BY <1>0 DEF StreamTypeOK
  <2>2. MapsAgree' /\ WithinMeans'
    BY <1>0 DEF MapsAgree, WithinMeans
  <2>3. Settling'
    BY <1>0 DEF Settling, Watched
  <2> QED BY <2>1, <2>2, <2>3 DEF StreamInv
<1> QED BY <1>1, <1>3, <1>4, <1>5, <1>6, SubscribeKeeps, DrainKeeps, ReadyKeeps DEF StreamNext

-----------------------------------------------------------------------------
(* Folding a series of candles *)

\* The recursion of the fold over a set of positions, from the last one down.
Folding(g, base, cs, S) ==
    g = [s \in SUBSET S |-> IF s = {} THEN base ELSE Merge(g[s \ {Max(s)}], cs[Max(s)])]

\* The last position of a set of positions.
LEMMA LastPosition ==
    ASSUME NEW n \in Nat, NEW s \in SUBSET (1 .. n + 1), s # {}
    PROVE  Max(s) \in s /\ s \ {Max(s)} \in SUBSET (1 .. n)
<1> DEFINE T == {n + 1 - k : k \in s}
<1>0. \A k \in s : k \in 1 .. n + 1
  OBVIOUS
<1>1. T \subseteq Nat /\ T # {}
  <2>1. \A k \in s : n + 1 - k \in Nat
    BY <1>0
  <2>2. PICK e \in s : TRUE
    OBVIOUS
  <2>3. n + 1 - e \in T
    BY <2>2
  <2> QED BY <2>1, <2>3
<1>2. PICK t \in T : \A u \in T : t <= u
  BY <1>1, LeastNatural
<1>3. PICK m \in s : t = n + 1 - m
  OBVIOUS
<1>4. \A k \in s : m >= k
  <2> SUFFICES ASSUME NEW k \in s PROVE m >= k
    OBVIOUS
  <2>1. n + 1 - m <= n + 1 - k
    BY <1>2, <1>3
  <2>2. m \in Nat /\ k \in Nat
    OBVIOUS
  <2> QED BY <2>1, <2>2
<1>5. Max(s) \in s /\ \A k \in s : Max(s) >= k
  BY <1>4, Zenon DEF Max
<1> HIDE DEF T
<1>6. ASSUME NEW k \in s, k # Max(s) PROVE k \in 1 .. n
  <2> DEFINE x == Max(s)
  <2>1. x \in 1 .. n + 1 /\ k \in 1 .. n + 1 /\ x >= k /\ k # x
    BY <1>0, <1>5, <1>6
  <2> HIDE DEF x
  <2> QED BY <2>1
<1> QED BY <1>5, <1>6

LEMMA LastOfAll ==
    ASSUME NEW n \in Nat
    PROVE  Max(1 .. n + 1) = n + 1 /\ (1 .. n + 1) \ {n + 1} = 1 .. n
<1>1. n + 1 \in 1 .. n + 1 /\ \A k \in 1 .. n + 1 : n + 1 >= k
  OBVIOUS
<1>2. Max(1 .. n + 1) \in 1 .. n + 1 /\ \A k \in 1 .. n + 1 : Max(1 .. n + 1) >= k
  BY <1>1, Zenon DEF Max
<1>3. Max(1 .. n + 1) = n + 1
  BY <1>1, <1>2
<1> QED BY <1>3

\* The fold over a sequence has a value.
LEMMA FoldingExists ==
    ASSUME NEW base, NEW cs, NEW n \in Nat
    PROVE  \E g : Folding(g, base, cs, 1 .. n)
<1> DEFINE ValueAt(g, s) == IF s = {} THEN base ELSE Merge(g[s \ {Max(s)}], cs[Max(s)])
           Good == {m \in Nat : \E g : g = [s \in SUBSET (1 .. m) |-> ValueAt(g, s)]}
<1>1. 0 \in Good
  <2> DEFINE g == [s \in SUBSET (1 .. 0) |-> base]
  <2>1. \A s \in SUBSET (1 .. 0) : s = {}
    OBVIOUS
  <2>2. g = [s \in SUBSET (1 .. 0) |-> ValueAt(g, s)]
    <3>1. \A s \in SUBSET (1 .. 0) : ValueAt(g, s) = base
      BY <2>1
    <3> HIDE DEF ValueAt
    <3> QED BY <3>1
  <2> HIDE DEF g, ValueAt
  <2> QED BY <2>2
<1>2. ASSUME NEW m \in Good \cap Nat PROVE m + 1 \in Good
  <2>1. PICK g : g = [s \in SUBSET (1 .. m) |-> ValueAt(g, s)]
    OBVIOUS
  <2> DEFINE h == [s \in SUBSET (1 .. m + 1) |-> ValueAt(g, s)]
  <2>2. \A s \in SUBSET (1 .. m) : h[s] = g[s] /\ s \in SUBSET (1 .. m + 1)
    <3>1. \A s \in SUBSET (1 .. m) : s \in SUBSET (1 .. m + 1)
      OBVIOUS
    <3>2. \A s \in SUBSET (1 .. m) : g[s] = ValueAt(g, s)
      <4> HIDE DEF ValueAt
      <4> QED BY <2>1
    <3> HIDE DEF ValueAt
    <3> QED BY <3>1, <3>2
  <2>3. ASSUME NEW s \in SUBSET (1 .. m + 1) PROVE ValueAt(g, s) = ValueAt(h, s)
    <3>1. CASE s = {}
      BY <3>1
    <3>2. CASE s # {}
      <4>1. s \ {Max(s)} \in SUBSET (1 .. m)
        BY <3>2, LastPosition
      <4>2. h[s \ {Max(s)}] = g[s \ {Max(s)}]
        <5> HIDE DEF h
        <5> QED BY <2>2, <4>1
      <4> HIDE DEF h
      <4> QED BY <4>2
    <3> QED BY <3>1, <3>2
  <2>4. h = [s \in SUBSET (1 .. m + 1) |-> ValueAt(h, s)]
    <3> DEFINE f == h
    <3>1. f = [s \in SUBSET (1 .. m + 1) |-> ValueAt(g, s)] /\ \A s \in SUBSET (1 .. m + 1) : ValueAt(g, s) = ValueAt(f, s)
      BY <2>3
    <3> HIDE DEF f, ValueAt
    <3>2. f = [s \in SUBSET (1 .. m + 1) |-> ValueAt(f, s)]
      BY <3>1
    <3> QED BY <3>2 DEF f
  <2> HIDE DEF h, ValueAt
  <2> QED BY <2>4
<1>3. Nat \subseteq Good
  <2> HIDE DEF Good
  <2> QED BY <1>1, <1>2, Climb
<1>4. PICK g : g = [s \in SUBSET (1 .. n) |-> ValueAt(g, s)]
  BY <1>3
<1> QED BY <1>4, Zenon DEF Folding

\* Two folds over series that begin alike have the same values there.
LEMMA FoldingsAgree ==
    ASSUME NEW base, NEW cs, NEW ds, NEW n \in Nat, NEW m \in Nat, NEW k \in Nat, k <= n, k <= m,
           \A i \in 1 .. k : cs[i] = ds[i],
           NEW g, NEW h, Folding(g, base, cs, 1 .. n), Folding(h, base, ds, 1 .. m)
    PROVE  g[1 .. k] = h[1 .. k]
<1> DEFINE Good == {j \in Nat : j <= k => g[1 .. j] = h[1 .. j]}
<1>0. /\ \A s \in SUBSET (1 .. n) : g[s] = IF s = {} THEN base ELSE Merge(g[s \ {Max(s)}], cs[Max(s)])
      /\ \A s \in SUBSET (1 .. m) : h[s] = IF s = {} THEN base ELSE Merge(h[s \ {Max(s)}], ds[Max(s)])
  BY DEF Folding
<1>1. 0 \in Good
  <2>1. 1 .. 0 = {}
    OBVIOUS
  <2> QED BY <1>0, <2>1
<1>2. ASSUME NEW j \in Good \cap Nat PROVE j + 1 \in Good
  <2> SUFFICES ASSUME j + 1 <= k PROVE g[1 .. j + 1] = h[1 .. j + 1]
    OBVIOUS
  <2>1. /\ 1 .. j + 1 \in SUBSET (1 .. n) /\ 1 .. j + 1 \in SUBSET (1 .. m) /\ 1 .. j + 1 # {}
        /\ j + 1 \in 1 .. k /\ j <= k
    OBVIOUS
  <2>2. Max(1 .. j + 1) = j + 1 /\ (1 .. j + 1) \ {j + 1} = 1 .. j
    BY LastOfAll
  <2> DEFINE s == 1 .. j + 1
  <2>3. g[s] = Merge(g[s \ {Max(s)}], cs[Max(s)]) /\ h[s] = Merge(h[s \ {Max(s)}], ds[Max(s)])
    <3>1. s \in SUBSET (1 .. n) /\ s \in SUBSET (1 .. m) /\ s # {}
      BY <2>1
    <3> HIDE DEF s
    <3> QED BY <1>0, <3>1
  <2>4. g[1 .. j + 1] = Merge(g[1 .. j], cs[j + 1]) /\ h[1 .. j + 1] = Merge(h[1 .. j], ds[j + 1])
    BY <2>2, <2>3, Zenon
  <2>5. cs[j + 1] = ds[j + 1] /\ g[1 .. j] = h[1 .. j]
    BY <2>1
  <2> QED BY <2>4, <2>5, Zenon
<1>3. Nat \subseteq Good
  <2> HIDE DEF Good
  <2> QED BY <1>1, <1>2, Climb
<1> QED BY <1>3

\* FoldLeft is such a fold.
LEMMA FoldLeftFolds ==
    ASSUME NEW base, NEW cs, NEW n \in Nat, DOMAIN cs = 1 .. n
    PROVE  \E g : Folding(g, base, cs, 1 .. n) /\ FoldLeft(Merge, base, cs) = g[1 .. n]
<1> DEFINE iter == CHOOSE g : Folding(g, base, cs, 1 .. n)
<1>1. FoldLeft(Merge, base, cs) = iter[1 .. n]
  BY Zenon DEF FoldLeft, MapThenFoldSet, Folding
<1>2. Folding(iter, base, cs, 1 .. n)
  BY FoldingExists, Zenon
<1> QED BY <1>1, <1>2

\* Folding one candle more merges it.
LEMMA FoldAppend ==
    ASSUME NEW X, NEW cs \in Seq(X), NEW c \in X, NEW base
    PROVE  /\ FoldLeft(Merge, base, <<>>) = base
           /\ FoldLeft(Merge, base, Append(cs, c)) = Merge(FoldLeft(Merge, base, cs), c)
<1>1. FoldLeft(Merge, base, <<>>) = base
  <2> DEFINE e == <<>>
  <2>1. DOMAIN e = 1 .. 0 /\ 1 .. 0 = {}
    OBVIOUS
  <2> HIDE DEF e
  <2>2. PICK g : Folding(g, base, e, 1 .. 0) /\ FoldLeft(Merge, base, e) = g[1 .. 0]
    BY <2>1, FoldLeftFolds
  <2>3. FoldLeft(Merge, base, e) = base
    BY <2>1, <2>2 DEF Folding
  <2> QED BY <2>3 DEF e
<1>2. FoldLeft(Merge, base, Append(cs, c)) = Merge(FoldLeft(Merge, base, cs), c)
  <2> DEFINE n == Len(cs)
             ds == Append(cs, c)
  <2>1. /\ n \in Nat /\ DOMAIN cs = 1 .. n /\ DOMAIN ds = 1 .. n + 1
        /\ ds[n + 1] = c /\ \A i \in 1 .. n : ds[i] = cs[i]
    OBVIOUS
  <2> HIDE DEF n, ds
  <2>2. PICK g : Folding(g, base, cs, 1 .. n) /\ FoldLeft(Merge, base, cs) = g[1 .. n]
    BY <2>1, FoldLeftFolds
  <2>3. PICK h : Folding(h, base, ds, 1 .. n + 1) /\ FoldLeft(Merge, base, ds) = h[1 .. n + 1]
    BY <2>1, FoldLeftFolds
  <2>4. g[1 .. n] = h[1 .. n]
    <3>1. n + 1 \in Nat /\ n <= n /\ n <= n + 1 /\ \A i \in 1 .. n : cs[i] = ds[i]
      <4>1. n \in Nat
        BY ONLY <2>1, Zenon
      <4>2. n + 1 \in Nat /\ n <= n /\ n <= n + 1
        BY ONLY <4>1
      <4>3. \A i \in 1 .. n : cs[i] = ds[i]
        BY <2>1, Zenon
      <4> QED BY ONLY <4>2, <4>3, Zenon
    <3> QED BY <2>1, <2>2, <2>3, <3>1, FoldingsAgree
  <2>5. h[1 .. n + 1] = Merge(h[1 .. n], c)
    <3> DEFINE s == 1 .. n + 1
    <3>0. s # {} /\ n \in Nat
      <4>1. n \in Nat
        BY ONLY <2>1, Zenon
      <4>2. n + 1 \in s
        BY ONLY <4>1 DEF s
      <4> QED BY ONLY <4>1, <4>2, Zenon
    <3>1. s # {} /\ Max(s) = n + 1 /\ s \ {Max(s)} = 1 .. n
      BY <3>0, LastOfAll, Zenon
    <3>2. s \in SUBSET s
      OBVIOUS
    <3>3. h[s] = Merge(h[s \ {Max(s)}], ds[Max(s)])
      <4> HIDE DEF s
      <4> QED BY <2>3, <3>1, <3>2 DEF Folding, s
    <3> QED BY <2>1, <3>1, <3>3, Zenon
  <2> QED BY <2>2, <2>3, <2>4, <2>5, Zenon DEF ds
<1> QED BY <1>1, <1>2

-----------------------------------------------------------------------------
(* What a candle describes *)

\* A candle that describes a series of prices.
Fits(c, s) == c \in Candle /\ s \in Seq(SwapPrices) /\ Describes(c, s)

\* In terms of positions.
LEMMA FitsMeans ==
    ASSUME NEW c, NEW s \in Seq(SwapPrices)
    PROVE  Fits(c, s) <=> /\ c \in Candle /\ Len(s) \in Nat \ {0}
                          /\ c.open = s[1] /\ c.close = s[Len(s)]
                          /\ \E i \in 1 .. Len(s) : c.high = s[i]
                          /\ \E i \in 1 .. Len(s) : c.low = s[i]
                          /\ \A i \in 1 .. Len(s) : c.low <= s[i] /\ s[i] <= c.high
                          /\ c.volume = Len(s)
<1>1. DOMAIN s = 1 .. Len(s) /\ Len(s) \in Nat /\ (s # <<>> <=> Len(s) # 0) /\ (s # <<>> => Head(s) = s[1])
  OBVIOUS
<1>2. Last(s) = s[Len(s)]
  BY DEF Last
<1> QED BY <1>1, <1>2 DEF Fits, Describes

LEMMA OneFits ==
    ASSUME NEW x \in SwapPrices
    PROVE  Fits(OfSwap(x), <<x>>)
<1>1. x \in Nat /\ <<x>> \in Seq(SwapPrices) /\ Len(<<x>>) = 1 /\ <<x>>[1] = x
  BY CandleAssumption
<1>2. /\ OfSwap(x) \in Candle /\ OfSwap(x).open = x /\ OfSwap(x).close = x
      /\ OfSwap(x).high = x /\ OfSwap(x).low = x /\ OfSwap(x).volume = 1
  BY <1>1 DEF OfSwap, Candle
<1> DEFINE c == OfSwap(x)
           s == <<x>>
<1>3. /\ c \in Candle /\ c.open = x /\ c.close = x /\ c.high = x /\ c.low = x /\ c.volume = 1
      /\ s \in Seq(SwapPrices) /\ Len(s) = 1 /\ s[1] = x
  BY <1>1, <1>2
<1> HIDE DEF c, s
<1>4. 1 \in 1 .. Len(s) /\ Len(s) \in Nat \ {0} /\ \A i \in 1 .. Len(s) : s[i] = x
  BY <1>3
<1>5. Fits(c, s)
  <2>1. \A i \in 1 .. Len(s) : c.low <= s[i] /\ s[i] <= c.high
    BY <1>1, <1>3, <1>4
  <2> QED BY <1>3, <1>4, <2>1, FitsMeans
<1> QED BY <1>5 DEF c, s

\* Merging the candles of two series describes the one after the other.
LEMMA MergeFits ==
    ASSUME NEW c, NEW d, NEW s, NEW t, Fits(c, s), Fits(d, t)
    PROVE  Fits(Merge(c, d), s \o t)
<1> DEFINE e == Merge(c, d)
           u == s \o t
           n == Len(s)
           m == Len(t)
<1>1. c \in Candle /\ d \in Candle /\ s \in Seq(SwapPrices) /\ t \in Seq(SwapPrices)
  BY DEF Fits
<1>2. /\ n \in Nat \ {0} /\ c.open = s[1] /\ c.close = s[n] /\ c.volume = n
      /\ \E i \in 1 .. n : c.high = s[i]
      /\ \E i \in 1 .. n : c.low = s[i]
      /\ \A i \in 1 .. n : c.low <= s[i] /\ s[i] <= c.high
  BY <1>1, FitsMeans
<1>3. /\ m \in Nat \ {0} /\ d.open = t[1] /\ d.close = t[m] /\ d.volume = m
      /\ \E i \in 1 .. m : d.high = t[i]
      /\ \E i \in 1 .. m : d.low = t[i]
      /\ \A i \in 1 .. m : d.low <= t[i] /\ t[i] <= d.high
  BY <1>1, FitsMeans
<1>4. /\ u \in Seq(SwapPrices) /\ Len(u) = n + m
      /\ \A i \in 1 .. n : u[i] = s[i]
      /\ \A i \in 1 .. m : u[n + i] = t[i]
      /\ \A i \in 1 .. n + m : i \in 1 .. n \/ (i - n \in 1 .. m /\ u[i] = t[i - n])
      /\ \A i \in 1 .. n : i \in 1 .. n + m
      /\ \A i \in 1 .. m : n + i \in 1 .. n + m
  BY <1>1
<1>5. /\ c.high \in Nat /\ c.low \in Nat /\ d.high \in Nat /\ d.low \in Nat
      /\ c.volume \in Nat /\ d.volume \in Nat /\ d.close \in Nat /\ c.open \in Nat
      /\ SwapPrices \subseteq Nat
      /\ \A i \in 1 .. n : s[i] \in Nat
      /\ \A i \in 1 .. m : t[i] \in Nat
  <2>1. \A i \in 1 .. n : s[i] \in SwapPrices
    BY <1>1
  <2>2. \A i \in 1 .. m : t[i] \in SwapPrices
    BY <1>1
  <2> HIDE DEF n, m
  <2>3. SwapPrices \subseteq Nat
    BY CandleAssumption
  <2> QED BY <1>1, <2>1, <2>2, <2>3 DEF Candle
<1>6. /\ e \in Candle /\ e.open = c.open /\ e.close = d.close /\ e.volume = c.volume + d.volume
      /\ e.high = IF d.high > c.high THEN d.high ELSE c.high
      /\ e.low = IF d.low < c.low THEN d.low ELSE c.low
  <2> DEFINE hi == IF d.high > c.high THEN d.high ELSE c.high
             lo == IF d.low < c.low THEN d.low ELSE c.low
             vol == c.volume + d.volume
  <2>1. hi \in Nat /\ lo \in Nat /\ vol \in Nat
    BY <1>5
  <2>2. e = [c EXCEPT !.high = hi, !.low = lo, !.close = d.close, !.volume = vol]
    BY <1>1 DEF Merge, Candle
  <2> HIDE DEF e, hi, lo, vol
  <2>3. e \in Candle /\ e.open = c.open /\ e.close = d.close /\ e.volume = vol /\ e.high = hi /\ e.low = lo
    BY <1>1, <1>5, <2>1, <2>2 DEF Candle
  <2> QED BY <2>3 DEF hi, lo, vol
<1> HIDE DEF e, u, n, m
<1>7. e.high \in Nat /\ e.low \in Nat /\ e.high >= c.high /\ e.high >= d.high /\ e.low <= c.low /\ e.low <= d.low
  BY <1>5, <1>6
<1>8. e.open = u[1] /\ e.close = u[n + m] /\ e.volume = n + m
  BY <1>2, <1>3, <1>4, <1>6
<1>9. \E i \in 1 .. n + m : e.high = u[i]
  <2>1. CASE d.high > c.high
    BY <1>3, <1>4, <1>6, <2>1
  <2>2. CASE ~(d.high > c.high)
    BY <1>2, <1>4, <1>6, <2>2
  <2> QED BY <2>1, <2>2
<1>10. \E i \in 1 .. n + m : e.low = u[i]
  <2>1. CASE d.low < c.low
    BY <1>3, <1>4, <1>6, <2>1
  <2>2. CASE ~(d.low < c.low)
    BY <1>2, <1>4, <1>6, <2>2
  <2> QED BY <2>1, <2>2
<1>11. ASSUME NEW i \in 1 .. n + m PROVE e.low <= u[i] /\ u[i] <= e.high
  <2>1. CASE i \in 1 .. n
    <3>1. c.low <= u[i] /\ u[i] <= c.high /\ u[i] \in Nat
      BY <1>2, <1>4, <1>5, <2>1
    <3> QED BY <1>5, <1>7, <3>1
  <2>2. CASE i - n \in 1 .. m /\ u[i] = t[i - n]
    <3>1. d.low <= u[i] /\ u[i] <= d.high /\ u[i] \in Nat
      BY <1>3, <1>5, <2>2
    <3> QED BY <1>5, <1>7, <3>1
  <2> QED BY <1>4, <2>1, <2>2
<1>12. n + m \in Nat \ {0}
  BY <1>2, <1>3
<1>13. Fits(e, u)
  BY <1>4, <1>6, <1>8, <1>9, <1>10, <1>11, <1>12, FitsMeans
<1> QED BY <1>13 DEF e, u

\* The summary of a series of candles: none of none, one of more, and it merges the
\* next.
SummaryOf(cs, s) ==
    /\ cs = <<>> => s = <<>>
    /\ cs # <<>> => \E c : Summary(cs) = {c} /\ Fits(c, s)

LEMMA SummaryAppend ==
    ASSUME NEW cs \in Seq(Candle), NEW s \in Seq(SwapPrices), SummaryOf(cs, s),
           NEW d, NEW t, Fits(d, t)
    PROVE  SummaryOf(Append(cs, d), s \o t) /\ Append(cs, d) \in Seq(Candle)
<1> DEFINE ds == Append(cs, d)
<1>1. d \in Candle /\ t \in Seq(SwapPrices)
  BY DEF Fits
<1>2. ds \in Seq(Candle) /\ ds # <<>>
  BY <1>1
<1>3. CASE cs = <<>>
  <2>1. Head(ds) = d /\ Tail(ds) = <<>> /\ s \o t = t
    BY <1>1, <1>3 DEF SummaryOf
  <2>2. FoldLeft(Merge, d, <<>>) = d
    BY <1>1, FoldAppend
  <2> HIDE DEF ds
  <2>3. Summary(ds) = {d}
    BY <1>2, <2>1, <2>2, Zenon DEF Summary
  <2> QED BY <1>2, <2>1, <2>3 DEF SummaryOf, ds
<1>4. CASE cs # <<>>
  <2>1. Head(ds) = Head(cs) /\ Tail(ds) = Append(Tail(cs), d) /\ Tail(cs) \in Seq(Candle)
    BY <1>1, <1>4
  <2> DEFINE b == Head(cs)
             r == Tail(cs)
             c == FoldLeft(Merge, b, r)
  <2>2. Summary(cs) = {c}
    BY <1>4, Zenon DEF Summary
  <2>3. Fits(c, s)
    <3> HIDE DEF c
    <3> QED BY <1>4, <2>2 DEF SummaryOf
  <2>4. FoldLeft(Merge, b, Append(r, d)) = Merge(c, d)
    <3>1. r \in Seq(Candle) /\ d \in Candle
      BY <1>1, <2>1
    <3>2. FoldLeft(Merge, b, Append(r, d)) = Merge(FoldLeft(Merge, b, r), d)
      <4> HIDE DEF b, r, c
      <4> QED BY ONLY <3>1, FoldAppend, ZenonT(60)
    <3> HIDE DEF b, r
    <3> QED BY ONLY <3>2, Zenon DEF c
  <2> HIDE DEF ds
  <2>5. Summary(ds) = {Merge(c, d)}
    BY <1>2, <2>1, <2>4, Zenon DEF Summary
  <2>6. Fits(Merge(c, d), s \o t)
    BY <2>3, MergeFits
  <2> QED BY <1>2, <2>5, <2>6 DEF SummaryOf, ds
<1> QED BY <1>2, <1>3, <1>4

\* The candle of a series of swaps describes it.
LEMMA SwapsSummary ==
    ASSUME NEW x \in Seq(SwapPrices)
    PROVE  SummaryOf([i \in DOMAIN x |-> OfSwap(x[i])], x)
<1> DEFINE cs(k) == [i \in 1 .. k |-> OfSwap(x[i])]
           u(k) == [i \in 1 .. k |-> x[i]]
           Good == {k \in Nat : k <= Len(x) => /\ cs(k) \in Seq(Candle) /\ u(k) \in Seq(SwapPrices)
                                               /\ SummaryOf(cs(k), u(k))}
<1>0. /\ Len(x) \in Nat /\ DOMAIN x = 1 .. Len(x) /\ x = u(Len(x))
      /\ \A i \in 1 .. Len(x) : x[i] \in SwapPrices
  OBVIOUS
<1>1. 0 \in Good
  <2>1. cs(0) = <<>> /\ u(0) = <<>>
    OBVIOUS
  <2> HIDE DEF cs, u
  <2>2. cs(0) \in Seq(Candle) /\ u(0) \in Seq(SwapPrices)
    <3>1. <<>> \in Seq(Candle) /\ <<>> \in Seq(SwapPrices)
      OBVIOUS
    <3> QED BY <2>1, <3>1, Zenon
  <2>3. SummaryOf(cs(0), u(0))
    BY <2>1 DEF SummaryOf
  <2> QED BY <2>2, <2>3
<1>2. ASSUME NEW k \in Good \cap Nat PROVE k + 1 \in Good
  <2> SUFFICES ASSUME k + 1 <= Len(x)
               PROVE  /\ cs(k + 1) \in Seq(Candle) /\ u(k + 1) \in Seq(SwapPrices)
                      /\ SummaryOf(cs(k + 1), u(k + 1))
    OBVIOUS
  <2> DEFINE d == OfSwap(x[k + 1])
  <2>1. x[k + 1] \in SwapPrices /\ cs(k) \in Seq(Candle) /\ u(k) \in Seq(SwapPrices) /\ SummaryOf(cs(k), u(k))
    BY <1>0
  <2>2. Fits(d, <<x[k + 1]>>)
    BY <2>1, OneFits
  <2>3. cs(k + 1) = Append(cs(k), d)
    <3>1. d \in Candle
      BY <2>2 DEF Fits
    <3> HIDE DEF d
    <3>2. Len(cs(k)) = k /\ \A i \in 1 .. k : cs(k)[i] = OfSwap(x[i])
      OBVIOUS
    <3>3. \A i \in 1 .. k + 1 : i = k + 1 \/ i \in 1 .. k
      OBVIOUS
    <3>4. d = OfSwap(x[k + 1])
      BY DEF d
    <3> QED BY <2>1, <3>1, <3>2, <3>3, <3>4
  <2>4. u(k + 1) = u(k) \o <<x[k + 1]>>
    <3>1. \A i \in 1 .. k + 1 : i = k + 1 \/ i \in 1 .. k
      OBVIOUS
    <3> QED BY <2>1, <3>1
  <2> HIDE DEF cs, u, d
  <2>5. u(k) \o <<x[k + 1]>> \in Seq(SwapPrices)
    BY <2>1
  <2> QED BY <2>1, <2>2, <2>3, <2>4, <2>5, SummaryAppend
<1>3. Nat \subseteq Good
  <2> HIDE DEF Good
  <2> QED BY <1>1, <1>2, Climb
<1>4. SummaryOf(cs(Len(x)), u(Len(x)))
  BY <1>0, <1>3
<1> QED BY <1>0, <1>4

-----------------------------------------------------------------------------
(* One series after the other *)

\* A period without a candle and without trades, or with both.
RowTells(row, series) ==
    \/ row = <<>> /\ series = <<>>
    \/ \E c : row = <<c>> /\ Fits(c, series)

\* The candles there are, one after the other, describe their series likewise.
LEMMA FlattenFits ==
    ASSUME NEW n \in Nat \ {0}, NEW rows, NEW series, Len(rows) = n, Len(series) = n,
           \A i \in 1 .. n : RowTells(rows[i], series[i])
    PROVE  SummaryOf(FlattenSeq(rows), FlattenSeq(series))
<1>1. PICK f : Flattens(f, rows, n) /\ FlattenSeq(rows) = f[n]
  BY FlattenSeqFlattens
<1>2. PICK g : Flattens(g, series, n) /\ FlattenSeq(series) = g[n]
  BY FlattenSeqFlattens
<1> DEFINE Holds(i) == /\ f[i] \in Seq(Candle) /\ g[i] \in Seq(SwapPrices)
                       /\ SummaryOf(f[i], g[i])
           Good == {k \in Nat : k + 1 <= n => Holds(k + 1)}
<1>3. ASSUME NEW row, NEW s, RowTells(row, s)
      PROVE  row \in Seq(Candle) /\ s \in Seq(SwapPrices) /\ SummaryOf(row, s)
  <2>1. CASE row = <<>> /\ s = <<>>
    <3>1. <<>> \in Seq(Candle) /\ <<>> \in Seq(SwapPrices)
      OBVIOUS
    <3> QED BY <2>1, <3>1, Zenon DEF SummaryOf
  <2>2. ASSUME NEW c, row = <<c>>, Fits(c, s)
        PROVE  row \in Seq(Candle) /\ s \in Seq(SwapPrices) /\ SummaryOf(row, s)
    <3>1. <<>> \in Seq(Candle) /\ <<>> \in Seq(SwapPrices) /\ SummaryOf(<<>>, <<>>)
      <4>1. <<>> \in Seq(Candle) /\ <<>> \in Seq(SwapPrices)
        OBVIOUS
      <4> QED BY <4>1, Zenon DEF SummaryOf
    <3>2. SummaryOf(Append(<<>>, c), <<>> \o s) /\ Append(<<>>, c) \in Seq(Candle)
      BY <2>2, <3>1, SummaryAppend
    <3>3. Append(<<>>, c) = <<c>>
      OBVIOUS
    <3>4. s \in Seq(SwapPrices)
      BY <2>2 DEF Fits
    <3>5. <<>> \o s = s
      BY <3>4
    <3> QED BY <2>2, <3>2, <3>3, <3>4, <3>5
  <2> QED BY <1>3, <2>1, <2>2 DEF RowTells
<1>4. 0 \in Good
  <2>1. 1 \in 1 .. n /\ f[1] = rows[1] /\ g[1] = series[1]
    BY <1>1, <1>2 DEF Flattens
  <2>2. Holds(1)
    BY <1>3, <2>1
  <2> HIDE DEF Holds
  <2> QED BY <2>2
<1>5. ASSUME NEW k \in Good \cap Nat PROVE k + 1 \in Good
  <2> SUFFICES ASSUME (k + 1) + 1 <= n PROVE Holds((k + 1) + 1)
    OBVIOUS
  <2> DEFINE i == k + 1
             j == (k + 1) + 1
  <2>1. i \in 1 .. n /\ j \in 1 .. n /\ j # 1 /\ j - 1 = i /\ Holds(i)
    <3> HIDE DEF Holds
    <3> QED OBVIOUS
  <2> HIDE DEF i, j
  <2>2. f[j] = f[i] \o rows[j] /\ g[j] = g[i] \o series[j]
    BY <1>1, <1>2, <2>1 DEF Flattens
  <2>3. CASE rows[j] = <<>> /\ series[j] = <<>>
    <3>1. f[j] = f[i] /\ g[j] = g[i]
      BY <2>1, <2>2, <2>3
    <3>2. Holds(j)
      BY <2>1, <3>1
    <3> QED BY <3>2 DEF j
  <2>4. ASSUME NEW c, rows[j] = <<c>>, Fits(c, series[j])
        PROVE  Holds(j)
    <3>1. c \in Candle /\ series[j] \in Seq(SwapPrices)
      BY <2>4 DEF Fits
    <3>2. f[j] = Append(f[i], c)
      BY <2>1, <2>2, <2>4, <3>1
    <3>3. g[i] \o series[j] \in Seq(SwapPrices)
      BY <2>1, <3>1
    <3> QED BY <2>1, <2>2, <2>4, <3>2, <3>3, SummaryAppend
  <2> HIDE DEF Holds
  <2>5. RowTells(rows[j], series[j])
    BY <2>1
  <2> QED BY <2>3, <2>4, <2>5 DEF RowTells, j
<1>6. Nat \subseteq Good
  <2> HIDE DEF Good
  <2> QED BY <1>4, <1>5, Climb
<1>7. Holds(n)
  <2>0. n - 1 \in Nat /\ (n - 1) + 1 = n
    OBVIOUS
  <2>1. n - 1 \in Good /\ (n - 1) + 1 = n
    <3> HIDE DEF Good
    <3> QED BY <1>6, <2>0
  <2> HIDE DEF Holds
  <2> QED BY <2>1
<1> QED BY <1>1, <1>2, <1>7

-----------------------------------------------------------------------------
(* Candles *)

CandleTypes ==
    /\ clock \in 0 .. PerHour
    /\ swaps \in [CandlePools -> [Periods -> Seq(SwapPrices)]]
    /\ fine \in [CandlePools -> [Periods -> SUBSET Candle]]
    /\ hour \in [CandlePools -> SUBSET Candle]
    /\ runner \in [Runners -> [kind : {"rest", "5m", "1h", "1h-fill"}, period : Periods,
                               todo : SUBSET CandlePools, made : [CandlePools -> SUBSET Candle]]]
    /\ trades \in Nat /\ runs \in Nat /\ breaks \in Nat /\ torn \in BOOLEAN

\* The candle of a series: none or the one that describes it.
Made(cs, s) == (s = <<>> /\ cs = {}) \/ (\E c : cs = {c} /\ Fits(c, s))

\* Only periods that are over have candles, and each describes its swaps.
FineTrue ==
    \A p \in CandlePools, t \in Periods :
        fine[p][t] = {} \/ (t < clock /\ Made(fine[p][t], swaps[p][t]))

\* A five-minute run writes what the swaps make, and has written what it is done with.
FineRuns ==
    \A w \in Runners : runner[w].kind = "5m" =>
        /\ runner[w].period < clock
        /\ \A p \in CandlePools :
              /\ Made(runner[w].made[p], swaps[p][runner[w].period])
              /\ p \in runner[w].todo => runner[w].made[p] # {}
              /\ runner[w].made[p] # {} /\ p \notin runner[w].todo => fine[p][runner[w].period] # {}

\* A period that has a candle has all of its own, but for those still being written.
WholePeriods ==
    breaks = 0 =>
        \A t \in Periods : (\E p \in CandlePools : fine[p][t] # {}) =>
            \A q \in CandlePools :
                \/ swaps[q][t] = <<>> \/ fine[q][t] # {}
                \/ \E w \in Runners : runner[w].kind = "5m" /\ runner[w].period = t /\ q \in runner[w].todo

\* A candle of the hour.
HourFits(p, c) ==
    \/ Describes(c, Trades(p, Periods))
    \/ torn /\ \E ts \in SUBSET Periods : Describes(c, Trades(p, ts))

HoursTrue ==
    /\ \A w \in Runners : runner[w].kind = "rest" => runner[w].todo = {}
    /\ \A p \in CandlePools : \A c \in hour[p] : clock = PerHour /\ HourFits(p, c)
    /\ \A w \in Runners : runner[w].kind \in {"1h", "1h-fill"} =>
          clock = PerHour /\ \A p \in CandlePools : \A c \in runner[w].made[p] : HourFits(p, c)

CandleInv == CandleTypes /\ FineTrue /\ FineRuns /\ WholePeriods /\ HoursTrue

\* The invariant says what the property does, and of what type the state is.
LEMMA CandlesMean == CandleInv => CandlesExact /\ CandlesTypeOK
<1> SUFFICES ASSUME CandleInv PROVE CandlesExact /\ CandlesTypeOK
  OBVIOUS
<1>1. ASSUME NEW p \in CandlePools, NEW t \in Periods, NEW c \in fine[p][t]
      PROVE  Describes(c, swaps[p][t])
  <2>1. Made(fine[p][t], swaps[p][t])
    BY DEF CandleInv, FineTrue
  <2> QED BY <2>1, Zenon DEF Made, Fits
<1>2. CandlesExact
  BY <1>1 DEF CandlesExact, CandleInv, HoursTrue, HourFits
<1>3. CandlesTypeOK
  BY DEF CandleInv, CandleTypes, CandlesTypeOK
<1> QED BY <1>2, <1>3

LEMMA CandlesInitial == CandlesInit => CandleInv
<1> SUFFICES ASSUME CandlesInit PROVE CandleInv
  OBVIOUS
<1> USE DEF CandlesInit, Resting
<1>0. PerHour \in Nat \ {0} /\ 0 \in Periods
  BY CandleAssumption DEF Periods
<1>1. CandleTypes
  <2>1. <<>> \in Seq(SwapPrices)
    OBVIOUS
  <2>2. swaps \in [CandlePools -> [Periods -> Seq(SwapPrices)]]
    BY <2>1
  <2>3. fine \in [CandlePools -> [Periods -> SUBSET Candle]] /\ hour \in [CandlePools -> SUBSET Candle]
    OBVIOUS
  <2>4. runner \in [Runners -> [kind : {"rest", "5m", "1h", "1h-fill"}, period : Periods,
                                todo : SUBSET CandlePools, made : [CandlePools -> SUBSET Candle]]]
    <3> DEFINE m == [q \in CandlePools |-> {}]
    <3>1. m \in [CandlePools -> SUBSET Candle]
      OBVIOUS
    <3> QED BY <1>0, <3>1
  <2>5. clock \in 0 .. PerHour
    BY <1>0
  <2> QED BY <2>2, <2>3, <2>4, <2>5 DEF CandleTypes
<1>2. FineTrue /\ FineRuns /\ WholePeriods /\ HoursTrue
  BY DEF FineTrue, FineRuns, WholePeriods, HoursTrue
<1> QED BY <1>1, <1>2 DEF CandleInv

\* What aggregatePeriod makes of a five-minute period.
LEMMA FineSummaryMade ==
    ASSUME CandleTypes, NEW p \in CandlePools, NEW t \in Periods
    PROVE  Made(FineSummary(p, t), swaps[p][t]) /\ FineSummary(p, t) \in SUBSET Candle
<1> DEFINE x == swaps[p][t]
           cs == [i \in DOMAIN x |-> OfSwap(x[i])]
<1>1. x \in Seq(SwapPrices)
  BY DEF CandleTypes
<1>2. SummaryOf(cs, x)
  BY <1>1, SwapsSummary
<1>3. FineSummary(p, t) = Summary(cs)
  BY Zenon DEF FineSummary
<1>4. cs = <<>> <=> x = <<>>
  BY <1>1
<1> HIDE DEF cs
<1>5. CASE x = <<>>
  BY <1>3, <1>4, <1>5, Zenon DEF Summary, Made
<1>6. CASE x # <<>>
  <2>1. PICK c : Summary(cs) = {c} /\ Fits(c, x)
    BY <1>2, <1>4, <1>6 DEF SummaryOf
  <2> QED BY <1>3, <2>1 DEF Made, Fits
<1> QED BY <1>5, <1>6

\* What it makes of the hour.
LEMMA HourSummaryFits ==
    ASSUME CandleTypes, FineTrue, NEW p \in CandlePools, NEW c \in HourSummary(p)
    PROVE  c \in Candle /\ Describes(c, Trades(p, {t \in Periods : fine[p][t] # {}}))
<1> DEFINE ts == {t \in Periods : fine[p][t] # {}}
           rows == [i \in 1 .. PerHour |-> IF fine[p][i - 1] = {} THEN <<>>
                                           ELSE <<CHOOSE d \in fine[p][i - 1] : TRUE>>]
           series == [i \in 1 .. PerHour |-> IF i - 1 \in ts THEN swaps[p][i - 1] ELSE <<>>]
<1>0. PerHour \in Nat \ {0}
  BY CandleAssumption
<1>1. Len(rows) = PerHour /\ Len(series) = PerHour
  BY <1>0
<1>2. ASSUME NEW i \in 1 .. PerHour PROVE RowTells(rows[i], series[i])
  <2>1. i - 1 \in Periods
    BY <1>0 DEF Periods
  <2>2. CASE fine[p][i - 1] = {}
    BY <2>2 DEF RowTells
  <2>3. CASE fine[p][i - 1] # {}
    <3>1. PICK d : fine[p][i - 1] = {d} /\ Fits(d, swaps[p][i - 1])
      BY <2>1, <2>3, Zenon DEF FineTrue, Made
    <3>2. (CHOOSE e \in fine[p][i - 1] : TRUE) = d
      BY <3>1
    <3>3. rows[i] = <<d>> /\ series[i] = swaps[p][i - 1]
      BY <2>1, <2>3, <3>2
    <3> QED BY <3>1, <3>3 DEF RowTells
  <2> QED BY <2>2, <2>3
<1>3. HourSummary(p) = Summary(FlattenSeq(rows)) /\ Trades(p, ts) = FlattenSeq(series)
  BY Zenon DEF HourSummary, Trades
<1> HIDE DEF rows, series
<1>4. SummaryOf(FlattenSeq(rows), FlattenSeq(series))
  BY <1>0, <1>1, <1>2, FlattenFits
<1>5. FlattenSeq(rows) # <<>>
  BY <1>3, Zenon DEF Summary
<1>6. Fits(c, Trades(p, ts))
  BY <1>3, <1>4, <1>5 DEF SummaryOf
<1> QED BY <1>6 DEF Fits

\* A candle of the hour stays right while no swap is made.
LEMMA HourStays ==
    ASSUME UNCHANGED swaps, torn => torn', NEW p, NEW c, HourFits(p, c)
    PROVE  HourFits(p, c)'
<1>1. \A ts : Trades(p, ts)' = Trades(p, ts)
  BY DEF Trades
<1> QED BY <1>1 DEF HourFits

\* A swap falls into the present period, which has no candle yet.
LEMMA RecordSwapKeeps ==
    ASSUME CandleInv, NEW p \in CandlePools, NEW price \in SwapPrices, RecordSwap(p, price)
    PROVE  CandleInv'
<1>0. /\ CandleTypes /\ FineTrue /\ FineRuns /\ WholePeriods /\ HoursTrue
      /\ PerHour \in Nat \ {0}
  BY CandleAssumption DEF CandleInv
<1>1. /\ clock \in Periods /\ trades' = trades + 1
      /\ swaps' = [swaps EXCEPT ![p][clock] = Append(@, price)]
      /\ UNCHANGED <<clock, fine, hour, runner, runs, breaks, torn>>
  BY DEF RecordSwap
<1>2. swaps' \in [CandlePools -> [Periods -> Seq(SwapPrices)]]
  <2>1. swaps \in [CandlePools -> [Periods -> Seq(SwapPrices)]]
    BY <1>0 DEF CandleTypes
  <2>2. Append(swaps[p][clock], price) \in Seq(SwapPrices)
    BY <1>1, <2>1
  <2> QED BY <1>1, <2>1, <2>2
<1>3. \A q \in CandlePools, t \in Periods : t < clock => swaps'[q][t] = swaps[q][t]
  <2>1. swaps \in [CandlePools -> [Periods -> Seq(SwapPrices)]] /\ clock \in Nat /\ \A t \in Periods : t < clock => t # clock
    BY <1>0, <1>1 DEF CandleTypes, Periods
  <2> QED BY <1>1, <2>1
<1>4. CandleTypes'
  <2>1. trades' \in Nat
    BY <1>0, <1>1 DEF CandleTypes
  <2> QED BY <1>0, <1>1, <1>2, <2>1 DEF CandleTypes
<1>5. FineTrue'
  BY <1>0, <1>1, <1>3 DEF FineTrue
<1>6. FineRuns'
  <2>1. \A w \in Runners : runner[w].period \in Periods
    BY <1>0 DEF CandleTypes
  <2> QED BY <1>0, <1>1, <1>3, <2>1 DEF FineRuns
<1>7. WholePeriods'
  <2>1. \A t \in Periods : (\E q \in CandlePools : fine[q][t] # {}) => t < clock
    BY <1>0 DEF FineTrue
  <2>2. \A t \in Periods, r \in CandlePools : (\E q \in CandlePools : fine[q][t] # {}) => swaps'[r][t] = swaps[r][t]
    BY <1>3, <2>1
  <2> HIDE DEF Periods
  <2>3. WholePeriods
    BY <1>0
  <2> SUFFICES ASSUME breaks = 0, NEW t \in Periods, \E q \in CandlePools : fine[q][t] # {},
                      NEW q \in CandlePools
               PROVE  \/ swaps'[q][t] = <<>> \/ fine[q][t] # {}
                      \/ \E w \in Runners : /\ runner[w].kind = "5m" /\ runner[w].period = t
                                             /\ q \in runner[w].todo
    BY <1>1, Zenon DEF WholePeriods
  <2>4. swaps[q][t] = <<>> \/ fine[q][t] # {}
        \/ \E w \in Runners : runner[w].kind = "5m" /\ runner[w].period = t /\ q \in runner[w].todo
    BY <2>3, Zenon DEF WholePeriods
  <2>5. swaps'[q][t] = swaps[q][t]
    BY <2>2
  <2> QED BY <2>4, <2>5, Zenon
<1>8. HoursTrue'
  <2>1. clock # PerHour
    BY <1>0, <1>1 DEF Periods
  <2> QED BY <1>0, <1>1, <2>1 DEF HoursTrue
<1> QED BY <1>4, <1>5, <1>6, <1>7, <1>8 DEF CandleInv

LEMMA PeriodEndsKeeps ==
    ASSUME CandleInv, PeriodEnds
    PROVE  CandleInv'
<1>0. /\ CandleTypes /\ FineTrue /\ FineRuns /\ WholePeriods /\ HoursTrue
      /\ PerHour \in Nat \ {0} /\ clock \in 0 .. PerHour
  BY CandleAssumption DEF CandleInv, CandleTypes
<1>1. /\ clock < PerHour /\ clock' = clock + 1
      /\ UNCHANGED <<swaps, fine, hour, runner, trades, runs, breaks, torn>>
  BY DEF PeriodEnds
<1>2. clock' \in 0 .. PerHour /\ clock # PerHour /\ \A t \in Periods : t < clock => t < clock'
  BY <1>0, <1>1 DEF Periods
<1>3. CandleTypes'
  BY <1>0, <1>1, <1>2 DEF CandleTypes
<1>4. FineTrue'
  BY <1>0, <1>1, <1>2 DEF FineTrue
<1>5. FineRuns'
  <2>1. \A w \in Runners : runner[w].period \in Periods
    BY <1>0 DEF CandleTypes
  <2> QED BY <1>0, <1>1, <1>2, <2>1 DEF FineRuns
<1>6. WholePeriods' /\ HoursTrue'
  BY <1>0, <1>1, <1>2 DEF WholePeriods, HoursTrue
<1> QED BY <1>3, <1>4, <1>5, <1>6 DEF CandleInv

\* What a run that begins finds in its record.
LEMMA BeginMeans ==
    ASSUME CandleTypes, NEW w \in Runners, NEW kind \in {"5m", "1h", "1h-fill"}, NEW t \in Periods,
           NEW made \in [CandlePools -> SUBSET Candle], Begin(w, kind, t, made)
    PROVE  /\ runner' \in [Runners -> [kind : {"rest", "5m", "1h", "1h-fill"}, period : Periods,
                                       todo : SUBSET CandlePools, made : [CandlePools -> SUBSET Candle]]]
           /\ \A v \in Runners : v # w => runner'[v] = runner[v]
           /\ runner'[w].kind = kind /\ runner'[w].period = t /\ runner'[w].made = made
           /\ runner'[w].todo = {p \in CandlePools : made[p] # {}}
<1> DEFINE r == [kind |-> kind, period |-> t, made |-> made,
                 todo |-> {p \in CandlePools : made[p] # {}}]
<1>1. /\ r \in [kind : {"rest", "5m", "1h", "1h-fill"}, period : Periods,
               todo : SUBSET CandlePools, made : [CandlePools -> SUBSET Candle]]
      /\ r.kind = kind /\ r.period = t /\ r.made = made /\ r.todo = {p \in CandlePools : made[p] # {}}
  OBVIOUS
<1>2. runner' = [runner EXCEPT ![w] = r]
  BY DEF Begin
<1> HIDE DEF r
<1> QED BY <1>1, <1>2 DEF CandleTypes

\* A five-minute run reads the swaps of a period that is over.
LEMMA AggregateFineKeeps ==
    ASSUME CandleInv, NEW w \in Runners, NEW t \in Periods, AggregateFine(w, t)
    PROVE  CandleInv'
<1> DEFINE made == [p \in CandlePools |-> FineSummary(p, t)]
<1>0. CandleTypes /\ FineTrue /\ FineRuns /\ WholePeriods /\ HoursTrue
  BY DEF CandleInv
<1>1. /\ runs' = runs + 1 /\ runner[w].kind = "rest" /\ t < clock /\ Begin(w, "5m", t, made)
      /\ UNCHANGED <<clock, swaps, fine, hour, trades, breaks, torn>>
  BY DEF AggregateFine, Free
<1>2. \A p \in CandlePools : made[p] \in SUBSET Candle /\ Made(made[p], swaps[p][t])
  BY <1>0, FineSummaryMade
<1>3. made \in [CandlePools -> SUBSET Candle]
  BY <1>2
<1> HIDE DEF made
<1>4. /\ runner' \in [Runners -> [kind : {"rest", "5m", "1h", "1h-fill"}, period : Periods,
                                  todo : SUBSET CandlePools, made : [CandlePools -> SUBSET Candle]]]
      /\ \A v \in Runners : v # w => runner'[v] = runner[v]
      /\ runner'[w].kind = "5m" /\ runner'[w].period = t /\ runner'[w].made = made
      /\ runner'[w].todo = {p \in CandlePools : made[p] # {}}
  BY <1>0, <1>1, <1>3, BeginMeans
<1>5. CandleTypes'
  <2>1. runs' \in Nat
    BY <1>0, <1>1 DEF CandleTypes
  <2> QED BY <1>0, <1>1, <1>4, <2>1 DEF CandleTypes
<1>6. FineTrue'
  BY <1>0, <1>1 DEF FineTrue
<1>7. FineRuns'
  <2> SUFFICES ASSUME NEW v \in Runners, runner'[v].kind = "5m"
               PROVE  /\ runner'[v].period < clock
                      /\ \A p \in CandlePools :
                            /\ Made(runner'[v].made[p], swaps[p][runner'[v].period])
                            /\ p \in runner'[v].todo => runner'[v].made[p] # {}
                            /\ runner'[v].made[p] # {} /\ p \notin runner'[v].todo
                                  => fine[p][runner'[v].period] # {}
    BY <1>1 DEF FineRuns
  <2>1. CASE v = w
    BY <1>1, <1>2, <1>4, <2>1
  <2>2. CASE v # w
    <3>1. runner'[v] = runner[v]
      BY <1>4, <2>2
    <3> QED BY <1>0, <3>1 DEF FineRuns
  <2> QED BY <2>1, <2>2
<1>8. WholePeriods'
  <2>1. \A v \in Runners : runner[v].kind = "5m" => runner'[v] = runner[v]
    BY <1>1, <1>4
  <2> QED BY <1>0, <1>1, <2>1 DEF WholePeriods
<1>9. HoursTrue'
  <2>1. \A p, c : HourFits(p, c) => HourFits(p, c)'
    BY <1>1, HourStays
  <2>2. \A v \in Runners : runner'[v].kind \in {"rest", "1h", "1h-fill"} => runner'[v] = runner[v]
    BY <1>4
  <2> QED BY <1>0, <1>1, <2>1, <2>2 DEF HoursTrue
<1> QED BY <1>5, <1>6, <1>7, <1>8, <1>9 DEF CandleInv

\* A run of the hour reads the five-minute candles there are.
LEMMA AggregateHourKeeps ==
    ASSUME CandleInv, NEW w \in Runners, NEW gaps \in {"strict", "fill"}, AggregateHour(w, gaps)
    PROVE  CandleInv'
<1> DEFINE made == [p \in CandlePools |-> HourSummary(p)]
           kind == IF gaps = "strict" THEN "1h" ELSE "1h-fill"
<1>0. /\ CandleTypes /\ FineTrue /\ FineRuns /\ WholePeriods /\ HoursTrue
      /\ PerHour \in Nat \ {0} /\ 0 \in Periods
  BY CandleAssumption DEF CandleInv, Periods
<1>1. /\ runs' = runs + 1 /\ runner[w].kind = "rest" /\ clock = PerHour /\ Begin(w, kind, 0, made)
      /\ gaps = "fill" \/ NoGap
      /\ torn' = (torn \/ gaps = "fill" \/ breaks > 0 \/ \E v \in Runners : runner[v].kind = "5m")
      /\ UNCHANGED <<clock, swaps, fine, hour, trades, breaks>>
  BY DEF AggregateHour, Free
<1>2. ASSUME NEW p \in CandlePools, NEW c \in made[p]
      PROVE  c \in Candle /\ Describes(c, Trades(p, {t \in Periods : fine[p][t] # {}}))
  BY <1>0, <1>2, HourSummaryFits
<1>3. made \in [CandlePools -> SUBSET Candle]
  <2>1. made = [p \in CandlePools |-> made[p]]
    OBVIOUS
  <2> HIDE DEF made
  <2> QED BY <1>2, <2>1
<1>4. kind \in {"1h", "1h-fill"} /\ kind \in {"5m", "1h", "1h-fill"} /\ kind # "5m"
  OBVIOUS
<1> HIDE DEF made, kind
<1>5. /\ runner' \in [Runners -> [kind : {"rest", "5m", "1h", "1h-fill"}, period : Periods,
                                  todo : SUBSET CandlePools, made : [CandlePools -> SUBSET Candle]]]
      /\ \A v \in Runners : v # w => runner'[v] = runner[v]
      /\ runner'[w].kind = kind /\ runner'[w].period = 0 /\ runner'[w].made = made
      /\ runner'[w].todo = {p \in CandlePools : made[p] # {}}
  BY <1>0, <1>1, <1>3, <1>4, BeginMeans
<1>6. CandleTypes'
  <2>1. runs' \in Nat
    BY <1>0, <1>1 DEF CandleTypes
  <2>2. torn' \in BOOLEAN
    BY <1>1, Zenon
  <2> QED BY <1>0, <1>1, <1>5, <2>1, <2>2 DEF CandleTypes
<1>7. FineTrue'
  BY <1>0, <1>1 DEF FineTrue
<1>8. \A v \in Runners : runner'[v].kind = "5m" \/ runner[v].kind = "5m" => runner'[v] = runner[v]
  BY <1>1, <1>4, <1>5
<1>9. FineRuns'
  BY <1>0, <1>1, <1>8 DEF FineRuns
<1>10. WholePeriods'
  BY <1>0, <1>1, <1>8 DEF WholePeriods
<1>11. torn => torn'
  BY <1>1, Zenon
<1>12. ASSUME NEW p \in CandlePools, NEW c \in made[p] PROVE HourFits(p, c)'
  <2> DEFINE ts == {t \in Periods : fine[p][t] # {}}
  <2>1. Describes(c, Trades(p, ts))
    BY <1>2
  <2>2. \A us : Trades(p, us)' = Trades(p, us)
    BY <1>1 DEF Trades
  <2>3. CASE torn'
    <3>1. ts \in SUBSET Periods
      OBVIOUS
    <3> HIDE DEF ts
    <3> QED BY <2>1, <2>2, <2>3, <3>1 DEF HourFits
  <2>4. CASE ~torn'
    <3>1. NoGap /\ ~(breaks > 0) /\ \A v \in Runners : runner[v].kind # "5m"
      BY <1>1, <2>4, Zenon
    <3>2. breaks = 0
      BY <1>0, <3>1 DEF CandleTypes
    <3>3. ASSUME NEW i \in 1 .. PerHour
          PROVE  (IF i - 1 \in ts THEN swaps[p][i - 1] ELSE <<>>)
                   = (IF i - 1 \in Periods THEN swaps[p][i - 1] ELSE <<>>)
      <4> DEFINE t == i - 1
      <4>1. t \in Periods
        BY <1>0 DEF Periods
      <4> HIDE DEF t
      <4>2. \E q \in CandlePools : fine[q][t] # {}
        BY <3>1, <4>1, Zenon DEF NoGap
      <4>3. swaps[p][t] = <<>> \/ fine[p][t] # {}
        BY <1>0, <3>1, <3>2, <4>1, <4>2, Zenon DEF WholePeriods
      <4>4. (IF t \in ts THEN swaps[p][t] ELSE <<>>) = (IF t \in Periods THEN swaps[p][t] ELSE <<>>)
        BY <4>1, <4>3
      <4> QED BY <4>4 DEF t
    <3>4. Trades(p, ts) = Trades(p, Periods)
      <4> DEFINE a == [i \in 1 .. PerHour |-> IF i - 1 \in ts THEN swaps[p][i - 1] ELSE <<>>]
                 b == [i \in 1 .. PerHour |-> IF i - 1 \in Periods THEN swaps[p][i - 1] ELSE <<>>]
      <4>1. a = b
        BY <3>3
      <4>2. Trades(p, ts) = FlattenSeq(a) /\ Trades(p, Periods) = FlattenSeq(b)
        BY Zenon DEF Trades
      <4> HIDE DEF a, b
      <4> QED BY <4>1, <4>2
    <3> HIDE DEF ts
    <3> QED BY <2>1, <2>2, <3>4 DEF HourFits
  <2> QED BY <2>3, <2>4
<1>13. HoursTrue'
  <2>1. \A p, c : HourFits(p, c) => HourFits(p, c)'
    BY <1>1, <1>11, HourStays
  <2>2. \A p \in CandlePools : \A c \in hour[p] : clock' = PerHour /\ HourFits(p, c)'
    BY <1>0, <1>1, <2>1 DEF HoursTrue
  <2>3. ASSUME NEW v \in Runners, runner'[v].kind \in {"1h", "1h-fill"}
        PROVE  \A p \in CandlePools : \A c \in runner'[v].made[p] : HourFits(p, c)'
    <3>1. CASE v = w
      BY <1>5, <1>12, <3>1
    <3>2. CASE v # w
      <4>1. runner'[v] = runner[v]
        BY <1>5, <3>2
      <4> QED BY <1>0, <2>1, <2>3, <4>1 DEF HoursTrue
    <3> QED BY <3>1, <3>2
  <2>4. \A v \in Runners : runner'[v].kind = "rest" => runner'[v].todo = {}
    <3>1. \A v \in Runners : runner'[v].kind = "rest" => runner'[v] = runner[v]
      BY <1>4, <1>5
    <3> QED BY <1>0, <3>1 DEF HoursTrue
  <2> QED BY <1>1, <2>2, <2>3, <2>4 DEF HoursTrue
<1> QED BY <1>6, <1>7, <1>9, <1>10, <1>13 DEF CandleInv

\* A run that stops leaves nothing to be written by it; another's record stays.
LEMMA RestKeeps ==
    ASSUME CandleInv, NEW w \in Runners, runner' = [runner EXCEPT ![w] = Resting],
           UNCHANGED <<clock, swaps, fine, hour, trades, runs, torn>>,
           breaks' \in Nat, breaks' > 0 \/ (breaks' = breaks /\ runner[w].todo = {})
    PROVE  CandleInv'
<1>0. /\ CandleTypes /\ FineTrue /\ FineRuns /\ WholePeriods /\ HoursTrue
      /\ PerHour \in Nat \ {0} /\ 0 \in Periods
  BY CandleAssumption DEF CandleInv, Periods
<1>1. /\ Resting \in [kind : {"rest", "5m", "1h", "1h-fill"}, period : Periods,
                      todo : SUBSET CandlePools, made : [CandlePools -> SUBSET Candle]]
      /\ Resting.kind = "rest" /\ Resting.todo = {}
  <2> DEFINE m == [p \in CandlePools |-> {}]
  <2>1. m \in [CandlePools -> SUBSET Candle]
    OBVIOUS
  <2> QED BY <1>0, <2>1 DEF Resting
<1>2. /\ runner' \in [Runners -> [kind : {"rest", "5m", "1h", "1h-fill"}, period : Periods,
                                  todo : SUBSET CandlePools, made : [CandlePools -> SUBSET Candle]]]
      /\ runner'[w].kind = "rest" /\ runner'[w].todo = {}
      /\ \A v \in Runners : v # w => runner'[v] = runner[v]
  BY <1>0, <1>1 DEF CandleTypes
<1>3. CandleTypes'
  BY <1>0, <1>2 DEF CandleTypes
<1>4. \A v \in Runners : runner'[v].kind # "rest" => runner'[v] = runner[v] /\ v # w
  BY <1>2
<1>5. FineTrue' /\ FineRuns'
  BY <1>0, <1>4 DEF FineTrue, FineRuns
<1>6. WholePeriods'
  <2>1. CASE breaks' > 0
    <3>1. breaks' # 0
      BY <2>1
    <3> QED BY <3>1 DEF WholePeriods
  <2>2. CASE breaks' = breaks /\ runner[w].todo = {}
    <3>1. \A v \in Runners : \A q : q \in runner[v].todo => runner'[v] = runner[v]
      BY <1>2, <2>2
    <3> QED BY <1>0, <2>2, <3>1 DEF WholePeriods
  <2> QED BY <2>1, <2>2
<1>7. HoursTrue'
  <2>1. \A p, c : HourFits(p, c) => HourFits(p, c)'
    BY HourStays
  <2>2. \A v \in Runners : runner'[v].kind = "rest" => runner'[v].todo = {}
    BY <1>0, <1>2 DEF HoursTrue
  <2> QED BY <1>0, <1>4, <2>1, <2>2 DEF HoursTrue
<1> QED BY <1>3, <1>5, <1>6, <1>7 DEF CandleInv

\* One candle is written.
LEMMA UpsertCandleKeeps ==
    ASSUME CandleInv, NEW w \in Runners, NEW p \in CandlePools, Upsert(w, p)
    PROVE  CandleInv'
<1> DEFINE r == runner[w]
           r2 == IF r.todo = {p} THEN Resting ELSE [r EXCEPT !.todo = r.todo \ {p}]
           Record == [kind : {"rest", "5m", "1h", "1h-fill"}, period : Periods,
                      todo : SUBSET CandlePools, made : [CandlePools -> SUBSET Candle]]
<1>0. /\ CandleTypes /\ FineTrue /\ FineRuns /\ WholePeriods /\ HoursTrue
      /\ PerHour \in Nat \ {0} /\ 0 \in Periods
  BY CandleAssumption DEF CandleInv, Periods
<1>1. /\ p \in r.todo
      /\ fine' = IF r.kind = "5m" THEN [fine EXCEPT ![p][r.period] = r.made[p]] ELSE fine
      /\ hour' = IF r.kind # "5m" THEN [hour EXCEPT ![p] = r.made[p]] ELSE hour
      /\ runner' = [runner EXCEPT ![w] = r2]
      /\ UNCHANGED <<clock, swaps, trades, runs, breaks, torn>>
  <2>1. runner' = [runner EXCEPT ![w] = r2]
    BY Zenon DEF Upsert
  <2> QED BY <2>1, Zenon DEF Upsert
<1>2. /\ r \in Record /\ r.made[p] \in SUBSET Candle /\ r.period \in Periods
      /\ r.kind # "rest"
  BY <1>0, <1>1 DEF CandleTypes, HoursTrue
<1>3. /\ r2 \in Record
      /\ r.todo = {p} => r2.kind = "rest" /\ r2.todo = {}
      /\ r.todo # {p} => /\ r2.kind = r.kind /\ r2.period = r.period /\ r2.made = r.made
                         /\ r2.todo = r.todo \ {p}
  <2>1. CASE r.todo = {p}
    <3> DEFINE m == [q \in CandlePools |-> {}]
    <3>1. m \in [CandlePools -> SUBSET Candle]
      OBVIOUS
    <3> QED BY <1>0, <2>1, <3>1 DEF Resting
  <2>2. CASE r.todo # {p}
    BY <1>2, <2>2
  <2> QED BY <2>1, <2>2
<1> DEFINE t == r.period
<1> HIDE DEF r2
<1>4. runner' \in [Runners -> Record] /\ runner'[w] = r2 /\ \A v \in Runners : v # w => runner'[v] = runner[v]
  BY <1>0, <1>1, <1>3 DEF CandleTypes
<1>5. /\ fine' \in [CandlePools -> [Periods -> SUBSET Candle]]
      /\ \A q \in CandlePools, u \in Periods :
            fine'[q][u] = IF r.kind = "5m" /\ q = p /\ u = t THEN r.made[p] ELSE fine[q][u]
  BY <1>0, <1>1, <1>2 DEF CandleTypes
<1>6. /\ hour' \in [CandlePools -> SUBSET Candle]
      /\ \A q \in CandlePools : hour'[q] = IF r.kind # "5m" /\ q = p THEN r.made[p] ELSE hour[q]
  BY <1>0, <1>1, <1>2 DEF CandleTypes
<1>7. CandleTypes'
  BY <1>0, <1>1, <1>4, <1>5, <1>6 DEF CandleTypes
<1>8. r.kind = "5m" => /\ t < clock
                       /\ \A q \in CandlePools :
                             /\ Made(r.made[q], swaps[q][t])
                             /\ q \in r.todo => r.made[q] # {}
                             /\ r.made[q] # {} /\ q \notin r.todo => fine[q][t] # {}
  BY <1>0 DEF FineRuns
<1> HIDE DEF r, t, Record
<1>9. FineTrue'
  <2> SUFFICES ASSUME NEW q \in CandlePools, NEW u \in Periods
               PROVE  fine'[q][u] = {} \/ (u < clock /\ Made(fine'[q][u], swaps[q][u]))
    BY <1>1 DEF FineTrue
  <2>1. CASE r.kind = "5m" /\ q = p /\ u = t
    <3>1. fine'[q][u] = r.made[p]
      BY <1>5, <2>1
    <3> QED BY <1>8, <2>1, <3>1
  <2>2. CASE ~(r.kind = "5m" /\ q = p /\ u = t)
    <3>1. fine'[q][u] = fine[q][u]
      BY <1>5, <2>2
    <3> QED BY <1>0, <3>1 DEF FineTrue
  <2> QED BY <2>1, <2>2
<1>10. \A q \in CandlePools, u \in Periods : fine[q][u] # {} => fine'[q][u] # {}
  BY <1>1, <1>5, <1>8
<1>11. FineRuns'
  <2> SUFFICES ASSUME NEW v \in Runners, runner'[v].kind = "5m"
               PROVE  /\ runner'[v].period < clock
                      /\ \A q \in CandlePools :
                            /\ Made(runner'[v].made[q], swaps[q][runner'[v].period])
                            /\ q \in runner'[v].todo => runner'[v].made[q] # {}
                            /\ runner'[v].made[q] # {} /\ q \notin runner'[v].todo
                                  => fine'[q][runner'[v].period] # {}
    BY <1>1 DEF FineRuns
  <2>1. CASE v = w
    <3>1. /\ r.todo # {p} /\ r.kind = "5m"
          /\ runner'[v].period = t /\ runner'[v].made = r.made /\ runner'[v].todo = r.todo \ {p}
      BY <1>3, <1>4, <2>1 DEF t
    <3>2. fine'[p][t] # {}
      BY <1>1, <1>2, <1>5, <1>8, <3>1 DEF t
    <3>3. t \in Periods
      BY <1>2 DEF t
    <3> QED BY <1>8, <1>10, <3>1, <3>2, <3>3
  <2>2. CASE v # w
    <3>1. runner'[v] = runner[v]
      BY <1>4, <2>2
    <3>2. runner[v].period \in Periods
      BY <1>0 DEF CandleTypes
    <3>3. /\ runner[v].period < clock
          /\ \A q \in CandlePools :
                /\ Made(runner[v].made[q], swaps[q][runner[v].period])
                /\ q \in runner[v].todo => runner[v].made[q] # {}
                /\ runner[v].made[q] # {} /\ q \notin runner[v].todo
                      => fine[q][runner[v].period] # {}
      BY <1>0, <3>1, Zenon DEF FineRuns
    <3> QED BY <1>10, <3>1, <3>2, <3>3, Zenon
  <2> QED BY <2>1, <2>2
<1>12. WholePeriods'
  <2> SUFFICES ASSUME breaks' = 0, NEW u \in Periods, \E q \in CandlePools : fine'[q][u] # {},
                      NEW q \in CandlePools
               PROVE  \/ swaps'[q][u] = <<>> \/ fine'[q][u] # {}
                      \/ \E v \in Runners : /\ runner'[v].kind = "5m" /\ runner'[v].period = u
                                             /\ q \in runner'[v].todo
    BY Zenon DEF WholePeriods
  <2>0. breaks = 0 /\ swaps'[q][u] = swaps[q][u]
    BY <1>1, Zenon
  <2> SUFFICES ASSUME breaks = 0, swaps[q][u] # <<>>, fine'[q][u] = {}
               PROVE  \E v \in Runners : /\ runner'[v].kind = "5m" /\ runner'[v].period = u
                                         /\ q \in runner'[v].todo
    BY <2>0, Zenon
  <2>1. CASE \E q2 \in CandlePools : fine[q2][u] # {}
    <3>1. PICK v \in Runners : runner[v].kind = "5m" /\ runner[v].period = u /\ q \in runner[v].todo
      <4>1. fine[q][u] = {}
        BY <1>10
      <4> QED BY <1>0, <2>1, <4>1, Zenon DEF WholePeriods
    <3>2. CASE v # w
      <4>1. runner'[v] = runner[v]
        BY <1>4, <3>2
      <4> QED BY <3>1, <4>1
    <3>3. CASE v = w
      <4>1. r.kind = "5m" /\ t = u /\ q \in r.todo
        BY <3>1, <3>3 DEF r, t
      <4>2. q # p
        BY <1>1, <1>5, <1>8, <4>1
      <4>3. r2.kind = "5m" /\ r2.period = u /\ q \in r2.todo
        BY <1>3, <4>1, <4>2 DEF t
      <4> QED BY <1>4, <4>3
    <3> QED BY <3>2, <3>3
  <2>2. CASE ~\E q2 \in CandlePools : fine[q2][u] # {}
    <3>1. r.kind = "5m" /\ t = u
      BY <1>5, <2>2
    <3>2. r.made[q] # {}
      BY <1>8, <3>1, Zenon DEF Made
    <3>3. q \in r.todo
      BY <1>8, <2>2, <3>1, <3>2
    <3>4. q # p
      BY <1>1, <1>5, <1>8, <3>1
    <3>5. r2.kind = "5m" /\ r2.period = u /\ q \in r2.todo
      BY <1>3, <3>1, <3>3, <3>4 DEF t
    <3> QED BY <1>4, <3>5
  <2> QED BY <2>1, <2>2
<1>13. HoursTrue'
  <2>1. \A q, c : HourFits(q, c) => HourFits(q, c)'
    BY <1>1, HourStays
  <2>2. r.kind # "5m" => clock = PerHour /\ \A q \in CandlePools : \A c \in r.made[q] : HourFits(q, c)
    <3>1. r.kind \in {"rest", "5m", "1h", "1h-fill"} /\ r.kind # "rest"
      BY <1>2 DEF Record
    <3> QED BY <1>0, <3>1 DEF HoursTrue, r
  <2>3. \A q \in CandlePools : \A c \in hour'[q] : clock = PerHour /\ HourFits(q, c)'
    BY <1>0, <1>6, <2>1, <2>2 DEF HoursTrue
  <2>4. ASSUME NEW v \in Runners
        PROVE  /\ runner'[v].kind = "rest" => runner'[v].todo = {}
               /\ runner'[v].kind \in {"1h", "1h-fill"} =>
                     clock = PerHour /\ \A q \in CandlePools : \A c \in runner'[v].made[q] : HourFits(q, c)'
    <3>1. CASE v = w
      <4>1. CASE r.todo = {p}
        BY <1>3, <1>4, <3>1, <4>1
      <4>2. CASE r.todo # {p}
        BY <1>2, <1>3, <1>4, <2>1, <2>2, <3>1, <4>2
      <4> QED BY <4>1, <4>2
    <3>2. CASE v # w
      <4>1. runner'[v] = runner[v]
        BY <1>4, <3>2
      <4> QED BY <1>0, <2>1, <4>1 DEF HoursTrue
    <3> QED BY <3>1, <3>2
  <2> QED BY <1>1, <2>3, <2>4 DEF HoursTrue
<1> QED BY <1>7, <1>9, <1>11, <1>12, <1>13 DEF CandleInv

\* Every step of the candles keeps it.
LEMMA CandleStep == CandleInv /\ [CandlesNext]_candleVars => CandleInv'
<1> SUFFICES ASSUME CandleInv, [CandlesNext]_candleVars PROVE CandleInv'
  OBVIOUS
<1>1. CASE UNCHANGED candleVars
  <2>1. \A p, c : HourFits(p, c)' <=> HourFits(p, c)
    <3>1. \A p, ts : Trades(p, ts)' = Trades(p, ts)
      BY <1>1 DEF candleVars, Trades
    <3> QED BY <1>1, <3>1 DEF candleVars, HourFits
  <2>2. CandleTypes'
    BY <1>1, Zenon DEF candleVars, CandleInv, CandleTypes
  <2>3. FineTrue'
    BY <1>1, Zenon DEF candleVars, CandleInv, FineTrue
  <2>4. FineRuns'
    BY <1>1, Zenon DEF candleVars, CandleInv, FineRuns
  <2>5. WholePeriods'
    BY <1>1, Zenon DEF candleVars, CandleInv, WholePeriods
  <2>6. HoursTrue'
    BY <1>1, <2>1 DEF candleVars, CandleInv, HoursTrue
  <2> QED BY <2>2, <2>3, <2>4, <2>5, <2>6 DEF CandleInv
<1>2. ASSUME NEW w \in Runners, NothingToWrite(w) \/ BreakOff(w) PROVE CandleInv'
  <2>1. breaks \in Nat
    BY DEF CandleInv, CandleTypes
  <2>2. /\ runner' = [runner EXCEPT ![w] = Resting]
        /\ UNCHANGED <<clock, swaps, fine, hour, trades, runs, torn>>
        /\ breaks' = breaks + 1 \/ (breaks' = breaks /\ runner[w].todo = {})
    BY <1>2, Zenon DEF NothingToWrite, BreakOff
  <2>3. breaks' \in Nat /\ (breaks' > 0 \/ (breaks' = breaks /\ runner[w].todo = {}))
    BY <2>1, <2>2
  <2> QED BY <2>2, <2>3, RestKeeps
<1> QED BY <1>1, <1>2, RecordSwapKeeps, PeriodEndsKeeps, AggregateFineKeeps, AggregateHourKeeps,
           UpsertCandleKeeps DEF CandlesNext

-----------------------------------------------------------------------------
(* The composition: a step of one service leaves the variables of every other *)
(* as they are, so each keeps its invariant in every behaviour.               *)

LEMMA ServicesApart ==
    [ServicesNext]_serviceVars =>
        /\ [RateNext]_rateVars
        /\ [GateNext]_gateVars
        /\ [EnrichNext]_enrichVars
        /\ [IngestNext]_ingestVars
        /\ [GuardNext]_guardVars
        /\ [QuoteNext]_quoteVars
        /\ [TxNext]_txVars
        /\ [StreamNext]_streamVars
        /\ [CandlesNext]_candleVars
  <1> SUFFICES ASSUME [ServicesNext]_serviceVars
               PROVE  /\ [RateNext]_rateVars
                      /\ [GateNext]_gateVars
                      /\ [EnrichNext]_enrichVars
                      /\ [IngestNext]_ingestVars
                      /\ [GuardNext]_guardVars
                      /\ [QuoteNext]_quoteVars
                      /\ [TxNext]_txVars
                      /\ [StreamNext]_streamVars
                      /\ [CandlesNext]_candleVars
    OBVIOUS
  <1>1. CASE UNCHANGED serviceVars
    BY <1>1 DEF serviceVars
  <1>2. CASE ServicesNext
    <2>1. \A service : Alone(service) =>
             /\ service # "rate" => UNCHANGED rateVars
             /\ service # "gate" => UNCHANGED gateVars
             /\ service # "enrich" => UNCHANGED enrichVars
             /\ service # "ingest" => UNCHANGED ingestVars
             /\ service # "guard" => UNCHANGED guardVars
             /\ service # "quote" => UNCHANGED quoteVars
             /\ service # "tx" => UNCHANGED txVars
             /\ service # "stream" => UNCHANGED streamVars
             /\ service # "candles" => UNCHANGED candleVars
      BY Zenon DEF Alone
    <2>2. RateNext \/ UNCHANGED rateVars
      BY <1>2, <2>1 DEF ServicesNext
    <2>3. GateNext \/ UNCHANGED gateVars
      BY <1>2, <2>1 DEF ServicesNext
    <2>4. EnrichNext \/ UNCHANGED enrichVars
      BY <1>2, <2>1 DEF ServicesNext
    <2>5. IngestNext \/ UNCHANGED ingestVars
      BY <1>2, <2>1 DEF ServicesNext
    <2>6. GuardNext \/ UNCHANGED guardVars
      BY <1>2, <2>1 DEF ServicesNext
    <2>7. QuoteNext \/ UNCHANGED quoteVars
      BY <1>2, <2>1 DEF ServicesNext
    <2>8. TxNext \/ UNCHANGED txVars
      BY <1>2, <2>1 DEF ServicesNext
    <2>9. StreamNext \/ UNCHANGED streamVars
      BY <1>2, <2>1 DEF ServicesNext
    <2>10. CandlesNext \/ UNCHANGED candleVars
      BY <1>2, <2>1 DEF ServicesNext
    <2> QED BY <2>2, <2>3, <2>4, <2>5, <2>6, <2>7, <2>8, <2>9, <2>10
  <1> QED BY <1>1, <1>2

\* No rule lets more requests of a window through than its limit, in production
\* nothing is let through uncounted, and a counter without an end is about to get
\* one or lost it to a failure (rate-limit.middleware.ts:112-194, 309-330).
THEOREM WindowKeepsLimitCorrect == ServicesSpec => []WindowKeepsLimit
  <1>1. ServicesInit => RateInv
    BY RateInitial DEF ServicesInit
  <1>2. RateInv /\ [ServicesNext]_serviceVars => RateInv'
    BY RateStep, ServicesApart
  <1> QED BY <1>1, <1>2, RateMeans, PTL DEF ServicesSpec

\* A retired key opens nothing once its window is over, an audit entry tells of a
\* request that was let in, and a fixed window admits its number
\* (internal-key-ring.ts:67-142, dlq-replay.guard.ts).
THEOREM OperatorsHeldCorrect == ServicesSpec => []OperatorsHeld
  <1>1. ServicesInit => GateInv /\ GuardInv
    BY GateInitial, GuardInitial DEF ServicesInit
  <1>2. GateInv /\ [ServicesNext]_serviceVars => GateInv'
    BY GateStep, ServicesApart
  <1>3. GuardInv /\ [ServicesNext]_serviceVars => GuardInv'
    BY GuardStep, ServicesApart
  <1>4. GateInv /\ GuardInv => OperatorsHeld
    BY GateMeans, GuardMeans DEF OperatorsHeld
  <1> QED BY <1>1, <1>2, <1>3, <1>4, PTL DEF ServicesSpec

\* Metadata of a token falls back to no placeholder, and an event is written by
\* the deliveries that began before it was stored
\* (token-enrichment.service.ts:70-79, indexer.service.ts).
THEOREM RowsKeptCorrect == ServicesSpec => []RowsKept
  <1>1. ServicesInit => EnrichInv /\ IngestInv
    BY EnrichInitial, IngestInitial DEF ServicesInit
  <1>2. EnrichInv /\ [ServicesNext]_serviceVars => EnrichInv'
    BY EnrichStep, ServicesApart
  <1>3. IngestInv /\ [ServicesNext]_serviceVars => IngestInv'
    BY IngestStep, ServicesApart
  <1>4. EnrichInv /\ IngestInv => RowsKept
    BY IngestMeans DEF RowsKept, EnrichInv
  <1> QED BY <1>1, <1>2, <1>3, <1>4, PTL DEF ServicesSpec

\* The spinner and the quote of the form are of the inputs on display, and the
\* indicator says of a transaction what is so, over reloads and lost answers
\* (useSwapQuote.ts:66-104, TransactionStatusContext.tsx:51-117).
THEOREM TradeShownCorrect == ServicesSpec => []TradeShown
  <1>1. ServicesInit => QuoteInv /\ TxInv
    BY QuoteInitial, TxInitial DEF ServicesInit
  <1>2. QuoteInv /\ [ServicesNext]_serviceVars => QuoteInv'
    BY QuoteStep, ServicesApart
  <1>3. TxInv /\ [ServicesNext]_serviceVars => TxInv'
    BY TxStep, ServicesApart
  <1>4. QuoteInv /\ TxInv => TradeShown
    BY DEF TradeShown, QuoteInv, TxInv
  <1> QED BY <1>1, <1>2, <1>3, <1>4, PTL DEF ServicesSpec

\* The channels that will be subscribed are those of the pools watched, but for
\* commands that failed, over reconnections and however clients come and go; a candle
\* describes the swaps of its period, and the hour's all of its periods unless it was
\* read while one was unfinished (price.service.ts:132-190, candles.service.ts:327-388).
THEOREM PricesTrueCorrect == ServicesSpec => []PricesTrue
  <1>1. ServicesInit => StreamInv /\ CandleInv
    BY StreamInitial, CandlesInitial DEF ServicesInit
  <1>2. StreamInv /\ [ServicesNext]_serviceVars => StreamInv'
    BY StreamStep, ServicesApart
  <1>3. CandleInv /\ [ServicesNext]_serviceVars => CandleInv'
    BY CandleStep, ServicesApart
  <1>4. StreamInv /\ CandleInv => PricesTrue
    BY StreamMeans, CandlesMean DEF PricesTrue
  <1> QED BY <1>1, <1>2, <1>3, <1>4, PTL DEF ServicesSpec

-----------------------------------------------------------------------------
(* The reads: what a reader gets is complete and current.                     *)

LEMMA ReadsApart ==
    ASSUME [ServicesNext]_serviceVars
    PROVE  /\ CompressionNext \/ UNCHANGED compressionVars
           /\ PortfolioNext \/ UNCHANGED portfolioVars
           /\ WalkNext \/ UNCHANGED walkVars
           /\ ChartNext \/ UNCHANGED chartVars
           /\ FeedNext \/ UNCHANGED feedVars
           /\ BulkNext \/ UNCHANGED bulkVars
           /\ BalancesNext \/ UNCHANGED balanceVars
           /\ ListNext \/ UNCHANGED listVars
           /\ \/ focus \in {"detail", "fetch", "take"} /\ UNCHANGED focus
              \/ focus \notin {"detail", "fetch", "take"} /\ UNCHANGED <<focus, cacheVars>>
              \/ UNCHANGED <<focus, cacheVars>>
           /\ focus = "detail" => [DetailNext]_cacheVars
           /\ focus = "fetch" => [FetchNext]_cacheVars
           /\ focus = "take" => [TakeNext]_cacheVars
  <1>1. CASE UNCHANGED serviceVars
    BY <1>1 DEF serviceVars, readVars
  <1>2. CASE ServicesNext
    <2>1. \A service : Alone(service) =>
             /\ focus = service /\ UNCHANGED focus
             /\ service # "compression" => UNCHANGED compressionVars
             /\ service # "portfolio" => UNCHANGED portfolioVars
             /\ service # "walk" => UNCHANGED walkVars
             /\ service # "chart" => UNCHANGED chartVars
             /\ service # "feed" => UNCHANGED feedVars
             /\ service # "bulk" => UNCHANGED bulkVars
             /\ service # "balances" => UNCHANGED balanceVars
             /\ service # "list" => UNCHANGED listVars
             /\ service \notin {"detail", "fetch", "take"} => UNCHANGED cacheVars
      BY Zenon DEF Alone
    <2>2. CompressionNext \/ UNCHANGED compressionVars
      BY <1>2, <2>1 DEF ServicesNext
    <2>3. PortfolioNext \/ UNCHANGED portfolioVars
      BY <1>2, <2>1 DEF ServicesNext
    <2>4. WalkNext \/ UNCHANGED walkVars
      BY <1>2, <2>1 DEF ServicesNext
    <2>5. ChartNext \/ UNCHANGED chartVars
      BY <1>2, <2>1 DEF ServicesNext
    <2>6. FeedNext \/ UNCHANGED feedVars
      BY <1>2, <2>1 DEF ServicesNext
    <2>7. BulkNext \/ UNCHANGED bulkVars
      BY <1>2, <2>1 DEF ServicesNext
    <2>8. BalancesNext \/ UNCHANGED balanceVars
      BY <1>2, <2>1 DEF ServicesNext
    <2>9. ListNext \/ UNCHANGED listVars
      BY <1>2, <2>1 DEF ServicesNext
    <2>10. \/ focus \in {"detail", "fetch", "take"} /\ UNCHANGED focus
           \/ UNCHANGED <<focus, cacheVars>>
      BY <1>2, <2>1 DEF ServicesNext
    <2>11. /\ focus = "detail" => [DetailNext]_cacheVars
           /\ focus = "fetch" => [FetchNext]_cacheVars
           /\ focus = "take" => [TakeNext]_cacheVars
      BY <1>2, <2>1 DEF ServicesNext
    <2> QED BY <2>2, <2>3, <2>4, <2>5, <2>6, <2>7, <2>8, <2>9, <2>10, <2>11
  <1> QED BY <1>1, <1>2

\* A use of the cache leaves the state of the other two as it is.
LEMMA DetailAside == [DetailNext]_cacheVars => UNCHANGED <<fetchVars, takeVars>>
  <1>1. UNCHANGED cacheVars => UNCHANGED <<fetchVars, takeVars>>
    BY DEF cacheVars
  <1>2. /\ Unreachable \/ Reconnected \/ EntryExpires \/ LockExpires => UNCHANGED <<fetchVars, takeVars>>
        /\ Project \/ PatchRow \/ MutationFinds => UNCHANGED <<fetchVars, takeVars>>
    BY Zenon DEF Unreachable, Reconnected, EntryExpires, LockExpires, Project, PatchRow, MutationFinds
  <1>3. \A who : Drop(who) => UNCHANGED <<fetchVars, takeVars>>
    BY Zenon DEF Drop
  <1>4. ASSUME NEW r PROVE GetPool(r) \/ GetAgain(r) => UNCHANGED <<fetchVars, takeVars>>
    BY Zenon DEF GetPool, GetAgain, Look
  <1>5. ASSUME NEW r PROVE Acquire(r) \/ Find(r) \/ Fill(r) => UNCHANGED <<fetchVars, takeVars>>
    BY Zenon DEF Acquire, Find, Fill
  <1>6. ASSUME NEW r PROVE Release(r) \/ WaitEnds(r) \/ FindDirect(r) => UNCHANGED <<fetchVars, takeVars>>
    BY Zenon DEF Release, WaitEnds, FindDirect
  <1> QED BY <1>1, <1>2, <1>3, <1>4, <1>5, <1>6, Zenon DEF DetailNext

LEMMA FetchAside == [FetchNext]_cacheVars => UNCHANGED takeVars
  <1>1. UNCHANGED cacheVars => UNCHANGED takeVars
    BY DEF cacheVars
  <1>2. Unreachable \/ Reconnected \/ EntryExpires => UNCHANGED takeVars
    BY DEF Unreachable, Reconnected, EntryExpires
  <1>3. ASSUME NEW f PROVE /\ \A guarded : CallFetch(f, guarded) => UNCHANGED takeVars
                           /\ ReadCached(f) \/ Coalesce(f) => UNCHANGED takeVars
    BY Zenon DEF CallFetch, ReadCached, Coalesce
  <1>4. ASSUME NEW f PROVE StartFetch(f) \/ FetcherReturns(f) \/ StoreFetched(f) => UNCHANGED takeVars
    BY Zenon DEF StartFetch, FetcherReturns, StoreFetched
  <1> QED BY <1>1, <1>2, <1>3, <1>4, Zenon DEF FetchNext

LEMMA TakeAside == [TakeNext]_cacheVars => UNCHANGED fetchVars
  <1>1. UNCHANGED cacheVars => UNCHANGED fetchVars
    BY DEF cacheVars
  <1>2. Unreachable \/ Reconnected \/ BucketExpires => UNCHANGED fetchVars
    BY DEF Unreachable, Reconnected, BucketExpires
  <1>3. ASSUME NEW t, NEW guarded PROVE Take(t, guarded) => UNCHANGED fetchVars
    BY Zenon DEF Take
  <1> QED BY <1>1, <1>2, <1>3, Zenon DEF TakeNext

\* The three uses of the cache, of which a behaviour has one: while nobody reads a
\* pool's detail, its requests have nothing to say of the row.
CacheInv ==
    /\ CacheTypeOK /\ FetchInv /\ BudgetInv
    /\ IF focus = "detail" THEN CurrentInv /\ LoadInv ELSE NobodyReads

LEMMA CacheStep ==
    ASSUME CacheInv, [ServicesNext]_serviceVars
    PROVE  CacheInv'
  <1>0. /\ focus = "detail" => [DetailNext]_cacheVars
        /\ focus = "fetch" => [FetchNext]_cacheVars
        /\ focus = "take" => [TakeNext]_cacheVars
        /\ \/ focus \in {"detail", "fetch", "take"} /\ UNCHANGED focus
           \/ UNCHANGED <<focus, cacheVars>>
    BY ReadsApart
  <1>1. ASSUME UNCHANGED fetchVars PROVE FetchInv'
    BY <1>1 DEF CacheInv, FetchInv, FetchTyped, OneFetch, fetchVars
  <1>2. ASSUME UNCHANGED takeVars PROVE BudgetInv'
    BY <1>2 DEF CacheInv, BudgetInv, BudgetKept, takeVars
  <1>3. CASE UNCHANGED <<focus, cacheVars>>
    <2>1. /\ UNCHANGED <<record, lock, dropping, reader, settled, putBack, blind, entry, available,
                         expiries, losses, fetch, inflight, threw, bucket, taken>>
          /\ UNCHANGED <<fetchVars, takeVars>>
      BY <1>3 DEF cacheVars, detailVars, fetchVars, takeVars
    <2>2. CacheTypeOK'
      BY <2>1 DEF CacheInv, CacheTypeOK
    <2>3. CurrentInv /\ LoadInv => CurrentInv' /\ LoadInv'
      BY <2>1 DEF CurrentInv, EntrySound, Oldest, LoadInv, Loading
    <2>4. NobodyReads => NobodyReads'
      BY <2>1 DEF NobodyReads
    <2> QED BY <1>1, <1>2, <1>3, <2>1, <2>2, <2>3, <2>4, Zenon DEF CacheInv
  <1>4. CASE focus = "detail" /\ UNCHANGED focus /\ [DetailNext]_cacheVars
    <2>1. CacheTypeOK' /\ CurrentInv' /\ LoadInv'
      BY <1>4, DetailStep DEF CacheInv
    <2>2. UNCHANGED <<fetchVars, takeVars>>
      BY <1>4, DetailAside
    <2> QED BY <1>1, <1>2, <1>4, <2>1, <2>2, Zenon DEF CacheInv
  <1>5. CASE focus = "fetch" /\ UNCHANGED focus /\ [FetchNext]_cacheVars
    <2>1. FetchInv' /\ CacheTypeOK' /\ reader' = reader
      BY <1>5, FetchStep, FetchTypes DEF CacheInv
    <2>2. UNCHANGED takeVars
      BY <1>5, FetchAside
    <2>3. NobodyReads'
      BY <1>5, <2>1 DEF CacheInv, NobodyReads
    <2> QED BY <1>2, <1>5, <2>1, <2>2, <2>3 DEF CacheInv
  <1>6. CASE focus = "take" /\ UNCHANGED focus /\ [TakeNext]_cacheVars
    <2>1. BudgetInv' /\ CacheTypeOK' /\ reader' = reader
      BY <1>6, TakeStep, TakeTypes DEF CacheInv
    <2>2. UNCHANGED fetchVars
      BY <1>6, TakeAside
    <2>3. NobodyReads'
      BY <1>6, <2>1 DEF CacheInv, NobodyReads
    <2> QED BY <1>1, <1>6, <2>1, <2>2, <2>3 DEF CacheInv
  <1> QED BY <1>0, <1>3, <1>4, <1>5, <1>6

LEMMA CacheMeans == CacheInv => CacheKeeps
  <1> SUFFICES ASSUME CacheInv PROVE CacheKeeps
    OBVIOUS
  <1>1. AnswersCurrent /\ FewLoad
    <2>1. CASE focus = "detail"
      BY <2>1, DetailMeans DEF CacheInv
    <2>2. CASE focus # "detail"
      <3>1. NobodyReads /\ blind \in Nat /\ expiries \in Nat
        BY <2>2 DEF CacheInv, CacheTypeOK
      <3> QED BY <3>1, NobodyMeans
    <2> QED BY <2>1, <2>2
  <1> QED BY <1>1 DEF CacheInv, FetchInv, BudgetInv, CacheKeeps

\* A page of the portfolio shows one wallet, and a walk every row it began with.
LEMMA PagesMean == PortfolioInv /\ WalkInv => PagesComplete
  <1> SUFFICES ASSUME PortfolioInv, WalkInv PROVE PagesComplete
    OBVIOUS
  <1>1. walk.status = "done" => IsInjective(walk.seen) /\ walk.began \subseteq Range(walk.seen)
    BY WalkMeans
  <1>2. ShownTrue /\ (fetching <=> (requestId > 0 /\ refreshes[requestId].wallet # Nobody))
    BY DEF PortfolioInv, Waited
  <1> QED BY <1>1, <1>2, Zenon DEF ShownTrue, PagesComplete

\* What the reads keep beside the cache's part.
PartsInv ==
    /\ CompressionInv /\ PortfolioInv /\ WalkInv /\ ChartInv
    /\ FeedInv /\ BulkInv /\ BalancesInv /\ ListInv

LEMMA PartsStep ==
    ASSUME PartsInv, [ServicesNext]_serviceVars
    PROVE  PartsInv'
  <1>1. CompressionInv'
    BY ReadsApart, CompressionStep DEF PartsInv
  <1>2. PortfolioInv'
    BY ReadsApart, PortfolioStep DEF PartsInv
  <1>3. WalkInv'
    BY ReadsApart, WalkStep DEF PartsInv
  <1>4. ChartInv'
    BY ReadsApart, ChartStep DEF PartsInv
  <1>5. FeedInv'
    BY ReadsApart, FeedStep DEF PartsInv
  <1>6. BulkInv'
    BY ReadsApart, BulkStep DEF PartsInv
  <1>7. BalancesInv'
    BY ReadsApart, BalancesStep DEF PartsInv
  <1>8. ListInv'
    BY ReadsApart, ListStep DEF PartsInv
  <1> QED BY <1>1, <1>2, <1>3, <1>4, <1>5, <1>6, <1>7, <1>8 DEF PartsInv

LEMMA ReadsInitial == ServicesInit => CacheInv /\ PartsInv
  <1> SUFFICES ASSUME ServicesInit PROVE CacheInv /\ PartsInv
    OBVIOUS
  <1>1. /\ CompressionInit /\ PagedInit /\ CacheInit /\ ChartInit
        /\ FeedInit /\ BulkInit /\ BalancesInit /\ ListInit
    BY DEF ServicesInit, ReadsInit
  <1>2. CacheInv
    BY <1>1, CacheInitial DEF CacheInv
  <1>3. PartsInv
    BY <1>1, CompressionInitial, PortfolioInitial, WalkInitial, ChartInitial, FeedInitial, BulkInitial,
       BalancesInitial, ListInitial DEF PartsInv
  <1> QED BY <1>2, <1>3

\* Whatever tables grow, answers are lost or overtaken and locks expire, for any number
\* of requests: nobody is answered a row older than the key's last deletion, a page or
\* walk is complete, the chart keeps one candle per bucket, a client decodes the body
\* that was written, and an answer put together from several reads is of what was there
\* (pools.controller.ts:286-341, cache.service.ts:197-355, usePortfolio.ts:98-151,
\* candles.service.ts:221-268, usePriceCandles.ts:73-278, compression.middleware.ts:218-356,
\* positions.repository.ts:38-379, balances.service.ts:304-345, pools.service.ts:88-119).
THEOREM ReadsHoldCorrect == ServicesSpec => []ReadsHold
  <1>1. ServicesInit => CacheInv /\ PartsInv
    BY ReadsInitial
  <1>2. CacheInv /\ [ServicesNext]_serviceVars => CacheInv'
    BY CacheStep
  <1>3. PartsInv /\ [ServicesNext]_serviceVars => PartsInv'
    BY PartsStep
  <1>4. CacheInv /\ PartsInv => ReadsHold
    <2> SUFFICES ASSUME CacheInv, PartsInv PROVE ReadsHold
      OBVIOUS
    <2>1. PagesComplete /\ CacheKeeps /\ ChartHolds
      BY PagesMean, CacheMeans, ChartMeans DEF PartsInv
    <2>2. ResponseWhole /\ BalancesReal
      BY DEF PartsInv, CompressionInv, BalancesInv
    <2>3. FeedExact /\ BulkTrue /\ ListTrue
      BY FeedMeans, BulkMeans, ListMeans DEF PartsInv
    <2> QED BY <2>1, <2>2, <2>3 DEF ReadsHold
  <1> QED BY <1>1, <1>2, <1>3, <1>4, PTL DEF ServicesSpec

-----------------------------------------------------------------------------
(* Types: what the invariants above leave out, the switches, flags and        *)
(* bounded counters of a service that no other property of it needs.          *)

\* The limiter's switches are those it booted with.
SwitchesTyped == production \in BOOLEAN /\ connected \in BOOLEAN

LEMMA SwitchesStay == SwitchesTyped /\ [RateNext]_rateVars => SwitchesTyped'
  <1>1. [RateNext]_rateVars => UNCHANGED <<production, connected>>
    BY Zenon DEF RateNext, rateVars, Incr, Expire, HitFails, Exempt, NotConnected, Decide, RateCrash, WindowEnds
  <1> QED BY <1>1 DEF SwitchesTyped

\* The gate is up or not, a pool is live or not, and starts are counted.
GateFlags == running \in BOOLEAN /\ active \in BOOLEAN /\ boots \in Nat

LEMMA GateFlagsStay == GateInv /\ GateFlags /\ [GateNext]_gateVars => GateFlags'
  <1> SUFFICES ASSUME GateInv, GateFlags, [GateNext]_gateVars PROVE GateFlags'
    OBVIOUS
  <1>1. CASE UNCHANGED gateVars \/ Elapse
    BY <1>1 DEF GateFlags, gateVars, Elapse
  <1>2. ASSUME NEW r \in RingConfig, Restart(r) PROVE GateFlags'
    <2>1. BootableRing(r, instant) \in BOOLEAN
      BY DEF BootableRing
    <2> QED BY <1>2, <2>1 DEF GateFlags, Restart
  <1>3. ASSUME NEW c \in AdminCalls, NEW key, NEW paused \in BOOLEAN, Present(c, key, paused) PROVE GateFlags'
    BY <1>3 DEF GateFlags, Present
  <1>4. ASSUME NEW c \in AdminCalls, FindPool(c) \/ WriteAudit(c) PROVE GateFlags'
    BY <1>4 DEF GateFlags, FindPool, WriteAudit
  <1>5. ASSUME NEW c \in AdminCalls, SetPaused(c) PROVE GateFlags'
    <2>1. adminCall[c].paused \in BOOLEAN
      BY DEF GateInv, GateTyped, GateCall
    <2> QED BY <1>5, <2>1 DEF GateFlags, SetPaused
  <1> QED BY <1>1, <1>2, <1>3, <1>4, <1>5 DEF GateNext

\* The clock stops at its bound, and so do the restarts.
GuardBounds ==
    /\ moment <= LastMoment /\ reboots <= MaxReboots
    /\ policy \in [enabled : BOOLEAN, mainnet : BOOLEAN, mainnetEnabled : BOOLEAN]

LEMMA GuardBoundsStay == GuardInv /\ GuardBounds /\ [GuardNext]_guardVars => GuardBounds'
  <1> SUFFICES ASSUME GuardInv, GuardBounds, [GuardNext]_guardVars PROVE GuardBounds'
    OBVIOUS
  <1>0. moment \in Nat /\ reboots \in Nat /\ LastMoment \in Nat /\ MaxReboots \in Nat
    BY GuardAssumption DEF GuardInv, GuardTyped
  <1>1. CASE UNCHANGED guardVars
    BY <1>1 DEF GuardBounds, guardVars
  <1>2. CASE Wait
    BY <1>0, <1>2 DEF GuardBounds, Wait
  <1>3. CASE Reboot
    BY <1>0, <1>3 DEF GuardBounds, Reboot
  <1>4. ASSUME NEW o, NEW key, NEW role, NEW expiry, CanActivate(o, key, role, expiry) PROVE GuardBounds'
    BY <1>4 DEF GuardBounds, CanActivate
  <1> QED BY <1>1, <1>2, <1>3, <1>4 DEF GuardNext

\* A quote is the answer to a request of the form or of an event.
QuoteShown ==
    /\ lookup \in BOOLEAN
    /\ quote = NoQuote \/ quote \in [inputs : QuoteInputs, by : {"form", "event"}]
    /\ socket \in {"off", "connecting", "open", "waiting"}
    /\ changes \in 0..MaxChanges /\ events \in 0..MaxEvents

\* The effects drop the quote and choose the socket anew.
LEMMA RerunShows ==
    ASSUME QuoteShown, NEW inputs, Rerun(inputs)
    PROVE  /\ quote' = NoQuote \/ quote' \in [inputs : QuoteInputs, by : {"form", "event"}]
           /\ socket' \in {"off", "connecting", "open", "waiting"}
  BY DEF QuoteShown, Rerun

\* A change of the form ends in the effects.
LEMMA ChangeShows ==
    ASSUME QuoteShown, NEW next, Change(next)
    PROVE  QuoteShown'
  <1>1. changes' \in 0..MaxChanges /\ events' \in 0..MaxEvents
    BY QuoteAssumption DEF QuoteShown, Change
  <1>2. lookup' \in BOOLEAN
    <2>1. HasPair(next) \in BOOLEAN
      BY DEF HasPair
    <2> QED BY <2>1 DEF QuoteShown, Change
  <1>3. Rerun([pool |-> poolId', form |-> next])
    BY DEF Change
  <1> QED BY <1>1, <1>2, <1>3, RerunShows DEF QuoteShown

LEMMA QuoteShownStays == QuoteInv /\ QuoteShown /\ [QuoteNext]_quoteVars => QuoteShown'
  <1> SUFFICES ASSUME QuoteInv, QuoteShown, [QuoteNext]_quoteVars PROVE QuoteShown'
    OBVIOUS
  <1>1. CASE UNCHANGED quoteVars
    BY <1>1 DEF QuoteShown, quoteVars
  <1>2. ASSUME NEW t \in Tokens, SelectIn(t) \/ SelectOut(t) PROVE QuoteShown'
    BY <1>2, ChangeShows DEF SelectIn, SelectOut
  <1>3. ASSUME NEW n \in 0..MaxTerms, EnterTerms(n) PROVE QuoteShown'
    BY <1>3, ChangeShows DEF EnterTerms
  <1>4. CASE SwapDirection
    BY <1>4, ChangeShows DEF SwapDirection
  <1>5. CASE LookupEnds
    <2>1. lookup' = FALSE /\ UNCHANGED <<changes, events>>
      BY <1>5 DEF LookupEnds
    <2>2. \/ UNCHANGED <<quote, socket>>
          \/ \E found : Rerun([pool |-> found, form |-> form])
      BY <1>5, Zenon DEF LookupEnds
    <2>3. CASE UNCHANGED <<quote, socket>>
      BY <2>1, <2>3 DEF QuoteShown
    <2>4. CASE \E found : Rerun([pool |-> found, form |-> form])
      BY <2>1, <2>4, RerunShows DEF QuoteShown
    <2> QED BY <2>2, <2>3, <2>4
  <1>6. CASE TimerFires
    BY <1>6 DEF QuoteShown, TimerFires
  <1>7. ASSUME NEW f \in fetches, FetchEnds(f) PROVE QuoteShown'
    <2>1. f.inputs \in QuoteInputs /\ f.by \in {"form", "event"}
      BY DEF QuoteInv, QuoteTyped, Fetch
    <2>2. UNCHANGED <<lookup, socket, changes, events>>
      BY <1>7 DEF FetchEnds
    <2>3. quote' \in {quote, NoQuote, [inputs |-> f.inputs, by |-> f.by]}
      BY <1>7 DEF FetchEnds, Settle
    <2>4. [inputs |-> f.inputs, by |-> f.by] \in [inputs : QuoteInputs, by : {"form", "event"}]
      BY <2>1
    <2> QED BY <2>2, <2>3, <2>4 DEF QuoteShown
  <1>8. CASE SocketChanges
    BY <1>8 DEF QuoteShown, SocketChanges
  <1>9. CASE PriceEvent
    BY <1>9, QuoteAssumption DEF QuoteShown, PriceEvent
  <1> QED BY <1>1, <1>2, <1>3, <1>4, <1>5, <1>6, <1>7, <1>8, <1>9 DEF QuoteNext

LEMMA ReloadsBounded == reloads \in 0..MaxReloads /\ [TxNext]_txVars => (reloads \in 0..MaxReloads)'
  <1> SUFFICES ASSUME reloads \in 0..MaxReloads, [TxNext]_txVars PROVE reloads' \in 0..MaxReloads
    OBVIOUS
  <1>1. reloads' = reloads \/ Reload
    BY Zenon DEF TxNext, txVars, Start, Sign, Refuse, Remote, Include, Answered, Confirmed, Dismiss
  <1> QED BY <1>1, TxAssumption DEF Reload

\* Outages are bounded, and only an asset is overtaken.
OutagesTyped == outages \in 0..MaxOutages /\ overtaken \subseteq Assets

LEMMA OutagesStay == EnrichInv /\ OutagesTyped /\ [EnrichNext]_enrichVars => OutagesTyped'
  <1> SUFFICES ASSUME EnrichInv, OutagesTyped, [EnrichNext]_enrichVars PROVE OutagesTyped'
    OBVIOUS
  <1>1. \/ UNCHANGED <<outages, overtaken>>
        \/ \E p \in Passes : UpsertToken(p) \/ UpsertFails(p)
    BY Zenon DEF EnrichNext, enrichVars, Discover, EnrichToken, EnrichAll, Started, ReadRow
  <1>2. ASSUME NEW p \in Passes, UpsertFails(p) PROVE OutagesTyped'
    BY <1>2, EnrichAssumption DEF OutagesTyped, UpsertFails
  <1>3. ASSUME NEW p \in Passes, UpsertToken(p) PROVE OutagesTyped'
    <2>1. Head(pass[p].todo) \in Assets
      <3>1. pass[p].todo \in Seq(Assets) /\ pass[p].todo # <<>>
        BY <1>3 DEF EnrichInv, PassState, PassTrue, UpsertToken
      <3> QED BY <3>1, FirstTyped
    <2>2. overtaken' \subseteq overtaken \cup {Head(pass[p].todo)} /\ outages' = outages
      BY <1>3 DEF UpsertToken
    <2> QED BY <2>1, <2>2 DEF OutagesTyped
  <1> QED BY <1>1, <1>2, <1>3 DEF OutagesTyped

LEMMA FaultsBounded == sinkFaults \in 0..MaxSinkFaults /\ [IngestNext]_ingestVars => (sinkFaults \in 0..MaxSinkFaults)'
  <1> SUFFICES ASSUME sinkFaults \in 0..MaxSinkFaults, [IngestNext]_ingestVars PROVE sinkFaults' \in 0..MaxSinkFaults
    OBVIOUS
  <1>1. sinkFaults' = sinkFaults \/ (sinkFaults < MaxSinkFaults /\ sinkFaults' = sinkFaults + 1)
    BY Zenon DEF IngestNext, ingestVars, Deliver, Has, Persist, SinkFails
  <1> QED BY <1>1, IngestAssumption

\* The table grows up to its bound, and its rows are numbered from 1.
ActivityBounded == Cardinality(activity) <= MaxActivity /\ \A r \in activity : r.id # 0

LEMMA ActivityStays == FeedInv /\ ActivityBounded /\ (FeedNext \/ UNCHANGED feedVars) => ActivityBounded'
  <1> SUFFICES ASSUME FeedInv, ActivityBounded, FeedNext \/ UNCHANGED feedVars PROVE ActivityBounded'
    OBVIOUS
  <1>1. activity' = activity \/ ActivityIndexed
    BY Zenon DEF FeedNext, feedVars, AskFeed, ReadTable, AnswerFeed, FeedFails
  <1>2. CASE activity' = activity
    BY <1>2 DEF ActivityBounded
  <1>3. CASE ActivityIndexed
    <2> DEFINE n == Cardinality(activity)
    <2>2. IsFiniteSet(activity) /\ n \in Nat
      BY FS_CardinalityType DEF FeedInv
    <2>3. PICK t \in 1..3, at \in 1..2 :
             activity' = activity \cup {[table |-> t, id |-> n + 1, at |-> at]}
      BY <1>3 DEF ActivityIndexed
    <2>4. n < MaxActivity
      BY <1>3 DEF ActivityIndexed
    <2> DEFINE new == [table |-> t, id |-> n + 1, at |-> at]
    <2>1. activity' = activity \cup {new} /\ new.id # 0
      BY <2>2, <2>3
    <2> HIDE DEF new
    <2>5. Cardinality(activity') = n \/ Cardinality(activity') = n + 1
      BY <2>1, <2>2, FS_AddElement
    <2> HIDE DEF n
    <2>6. Cardinality(activity') <= MaxActivity
      BY <2>2, <2>4, <2>5, ReadsAssumption
    <2> QED BY <2>1, <2>6 DEF ActivityBounded
  <1> QED BY <1>1, <1>2, <1>3

\* The types of both stores and of the calls are inductive by themselves.
LEMMA CursorStays == CursorTypeOK /\ [CursorNext]_cursorVars => CursorTypeOK'
  <1> SUFFICES ASSUME CursorTypeOK, [CursorNext]_cursorVars PROVE CursorTypeOK'
    OBVIOUS
  <1> USE LedgersAssumption, MaxLapsesAssumption
      DEF CursorTypeOK, Checkpoint, CallState, Idle, NoLedger, At, Goto, Return, Lapse
  <1>1. ASSUME NEW c \in Callers, NEW number \in Ledgers, BeginAdvance(c, number) PROVE CursorTypeOK'
    BY <1>1 DEF BeginAdvance
  <1>2. ASSUME NEW c \in Callers, BeginGet(c) \/ UseResult(c) \/ GetFails(c) PROVE CursorTypeOK'
    BY <1>2 DEF BeginGet, UseResult, GetFails
  <1>3. ASSUME NEW c \in Callers, SetMax(c) \/ WarmCache(c) PROVE CursorTypeOK'
    BY <1>3 DEF SetMax, WarmCache, SetMaxNumber, Larger
  <1>4. ASSUME NEW c \in Callers, FindCursor(c) \/ UpsertCursor(c) \/ AdvanceFails(c) PROVE CursorTypeOK'
    BY <1>4 DEF FindCursor, UpsertCursor, AdvanceFails
  <1>5. ASSUME NEW c \in Callers, ReadCache(c) PROVE CursorTypeOK'
    BY <1>5 DEF ReadCache
  <1>6. ASSUME NEW c \in Callers, ReadDb(c) PROVE CursorTypeOK'
    BY <1>6 DEF ReadDb
  <1>7. CASE WipeCache
    BY <1>7 DEF WipeCache
  <1>8. CASE CrashCalls
    BY <1>8 DEF CrashCalls
  <1>9. CASE UNCHANGED cursorVars
    BY <1>9 DEF cursorVars
  <1> QED BY <1>1, <1>2, <1>3, <1>4, <1>5, <1>6, <1>7, <1>8, <1>9 DEF CursorNext, CallStep

\* A step of another service changes neither the challenge nor the cursor.
LEMMA OthersApart ==
    ASSUME [ServicesNext]_serviceVars
    PROVE  [AuthNext]_authVars /\ [CursorNext]_cursorVars
  <1>1. CASE UNCHANGED serviceVars
    BY <1>1 DEF serviceVars
  <1>2. CASE ServicesNext
    <2>1. \A service : Alone(service) => /\ service # "auth" => UNCHANGED authVars
                                         /\ service # "cursor" => UNCHANGED cursorVars
      BY Zenon DEF Alone
    <2>2. AuthNext \/ UNCHANGED authVars
      BY <1>2, <2>1 DEF ServicesNext
    <2>3. CursorNext \/ UNCHANGED cursorVars
      BY <1>2, <2>1 DEF ServicesNext
    <2> QED BY <2>2, <2>3
  <1> QED BY <1>1, <1>2

\* Everything the services keep, and what only their types need.
TypesInv ==
    /\ RateInv /\ SwitchesTyped
    /\ GateInv /\ GateFlags
    /\ GuardInv /\ GuardBounds
    /\ QuoteInv /\ QuoteShown
    /\ TxInv /\ reloads \in 0..MaxReloads
    /\ EnrichInv /\ OutagesTyped
    /\ IngestInv /\ sinkFaults \in 0..MaxSinkFaults
    /\ CursorTypeOK /\ ActivityBounded
    /\ AuthInv /\ StreamInv /\ CandleInv /\ CacheInv /\ PartsInv

LEMMA TypesInitial == ServicesInit => TypesInv
  <1> SUFFICES ASSUME ServicesInit PROVE TypesInv
    OBVIOUS
  <1>0. /\ RateInit /\ GateInit /\ GuardInit /\ QuoteInit /\ TxInit /\ EnrichInit /\ IngestInit
        /\ AuthInit /\ CursorInit /\ StreamInit /\ CandlesInit /\ FeedInit
    BY DEF ServicesInit, ReadsInit
  <1>1. RateInv /\ SwitchesTyped
    BY <1>0, RateInitial DEF SwitchesTyped, RateInit
  <1>2. GateInv /\ GateFlags
    BY <1>0, GateInitial DEF GateFlags, GateInit
  <1>3. GuardInv /\ GuardBounds
    <2>1. moment = WindowMs /\ reboots = 0
      BY <1>0 DEF GuardInit
    <2>2. moment <= LastMoment /\ reboots <= MaxReboots
      BY <2>1, GuardAssumption
    <2>3. policy \in [enabled : BOOLEAN, mainnet : BOOLEAN, mainnetEnabled : BOOLEAN]
      BY <1>0 DEF GuardInit
    <2> QED BY <1>0, <2>2, <2>3, GuardInitial DEF GuardBounds
  <1>4. QuoteInv /\ QuoteShown
    <2>1. lookup \in BOOLEAN /\ quote = NoQuote /\ socket = "off" /\ changes = 0 /\ events = 0
      BY <1>0 DEF QuoteInit
    <2>2. changes \in 0..MaxChanges /\ events \in 0..MaxEvents
      BY <2>1, QuoteAssumption
    <2>3. QuoteInv
      BY <1>0, QuoteInitial
    <2> QED BY <2>1, <2>2, <2>3 DEF QuoteShown
  <1>5. TxInv /\ reloads \in 0..MaxReloads
    BY <1>0, TxInitial, TxAssumption DEF TxInit
  <1>6. EnrichInv /\ OutagesTyped
    BY <1>0, EnrichInitial, EnrichAssumption DEF OutagesTyped, EnrichInit
  <1>7. IngestInv /\ sinkFaults \in 0..MaxSinkFaults
    BY <1>0, IngestInitial, IngestAssumption DEF IngestInit
  <1>8. CursorTypeOK
    <2>1. cacheLedger \in Checkpoint /\ dbLedger \in Checkpoint /\ requested \subseteq Ledgers
      BY <1>0 DEF CursorInit, Checkpoint
    <2>2. Idle \in CallState
      BY DEF Idle, CallState
    <2>3. call \in [Callers -> CallState]
      BY <1>0, <2>2 DEF CursorInit
    <2>4. lapses \in 0..MaxLapses
      BY <1>0, MaxLapsesAssumption DEF CursorInit
    <2> QED BY <2>1, <2>3, <2>4 DEF CursorTypeOK
  <1>9. ActivityBounded
    BY <1>0, FS_EmptySet, ReadsAssumption DEF ActivityBounded, FeedInit
  <1>10. AuthInv
    BY <1>0, AuthInitial
  <1>11. StreamInv /\ CandleInv /\ CacheInv /\ PartsInv
    BY <1>0, StreamInitial, CandlesInitial, ReadsInitial
  <1> QED BY <1>1, <1>2, <1>3, <1>4, <1>5, <1>6, <1>7, <1>8, <1>9, <1>10, <1>11 DEF TypesInv

LEMMA TypesStep ==
    ASSUME TypesInv, [ServicesNext]_serviceVars
    PROVE  TypesInv'
  <1>1. RateInv' /\ SwitchesTyped'
    BY ServicesApart, RateStep, SwitchesStay DEF TypesInv
  <1>2. GateInv' /\ GateFlags'
    BY ServicesApart, GateStep, GateFlagsStay DEF TypesInv
  <1>3. GuardInv' /\ GuardBounds'
    BY ServicesApart, GuardStep, GuardBoundsStay DEF TypesInv
  <1>4. QuoteInv' /\ QuoteShown'
    BY ServicesApart, QuoteStep, QuoteShownStays DEF TypesInv
  <1>5. TxInv' /\ (reloads \in 0..MaxReloads)'
    BY ServicesApart, TxStep, ReloadsBounded DEF TypesInv
  <1>6. EnrichInv' /\ OutagesTyped'
    BY ServicesApart, EnrichStep, OutagesStay DEF TypesInv
  <1>7. IngestInv' /\ (sinkFaults \in 0..MaxSinkFaults)'
    BY ServicesApart, IngestStep, FaultsBounded DEF TypesInv
  <1>8. CursorTypeOK'
    BY OthersApart, CursorStays DEF TypesInv
  <1>9. ActivityBounded'
    BY ReadsApart, ActivityStays DEF TypesInv, PartsInv
  <1>10. AuthInv'
    BY OthersApart, AuthInductive DEF TypesInv
  <1>11. StreamInv' /\ CandleInv'
    BY ServicesApart, StreamStep, CandleStep DEF TypesInv
  <1>12. CacheInv' /\ PartsInv'
    BY CacheStep, PartsStep DEF TypesInv
  <1> QED BY <1>1, <1>2, <1>3, <1>4, <1>5, <1>6, <1>7, <1>8, <1>9, <1>10, <1>11, <1>12 DEF TypesInv

\* The types of a service follow from its invariant and what was added above.
LEMMA GuardTypes == GuardInv /\ GuardBounds => GuardTypeOK
  <1> SUFFICES ASSUME GuardInv, GuardBounds PROVE GuardTypeOK
    OBVIOUS
  <1>1. moment \in WindowMs..LastMoment /\ reboots \in 0..MaxReboots
    BY GuardAssumption DEF GuardInv, GuardTyped, GuardBounds
  <1> QED BY <1>1 DEF GuardInv, GuardTyped, GuardBounds, GuardTypeOK

LEMMA QuoteTypes == QuoteInv /\ QuoteShown => QuoteTypeOK
  <1> SUFFICES ASSUME QuoteInv, QuoteShown PROVE QuoteTypeOK
    OBVIOUS
  <1>1. quote # NoQuote => quote.inputs.form \in Forms /\ quote.by \in {"form", "event"}
    BY DEF QuoteShown, QuoteInputs
  <1>2. \A f \in fetches : f.inputs.form \in Forms /\ f.number \in Nat
    BY DEF QuoteInv, QuoteTyped, Fetch, QuoteInputs
  <1> QED BY <1>1, <1>2 DEF QuoteInv, QuoteTyped, QuoteShown, QuoteTypeOK

LEMMA TxTypes == TxInv /\ reloads \in 0..MaxReloads => TxTypeOK
  <1> SUFFICES ASSUME TxInv, reloads \in 0..MaxReloads PROVE TxTypeOK
    OBVIOUS
  <1>1. shown \in Txs \cup {NoTx} /\ kept = shown
    BY DEF TxInv, TxTyped
  <1>2. polls \subseteq TxFlows
    BY <1>1 DEF TxInv, Polling, Txs, NoTx
  <1> QED BY <1>1, <1>2 DEF TxInv, TxTyped, TxTypeOK, Txs

LEMMA PagedTypes == PortfolioInv /\ WalkInv => PagedTypeOK
  <1> SUFFICES ASSUME PortfolioInv, WalkInv PROVE PagedTypeOK
    OBVIOUS
  <1>1. \A r \in Range(refreshes) \cup {display} : r \in Runs
    BY DEF PortfolioInv, Range
  <1>2. \A r \in Runs : /\ r.wallet \in Holders \cup {Nobody}
                         /\ r.got \in Seq(1..MaxPositions) /\ r.torn \in BOOLEAN
    BY DEF Runs
  <1>3. walk.status \in {"none", "walking", "done", "failed"}
    BY DEF WalkInv
  <1> QED BY <1>1, <1>2, <1>3 DEF PortfolioInv, PagedTypeOK

LEMMA ReadTypes == FeedInv /\ BulkInv /\ BalancesInv /\ ListInv /\ ActivityBounded => ReadsTypeOK
  <1> SUFFICES ASSUME FeedInv, BulkInv, BalancesInv, ListInv, ActivityBounded PROVE ReadsTypeOK
    OBVIOUS
  <1>1. ASSUME NEW r \in activity PROVE r.table \in 1..3 /\ r.id \in 1..MaxActivity
    <2> DEFINE n == Cardinality(activity)
    <2>1. r.table \in 1..3 /\ r.id \in Nat /\ r.id # 0 /\ r.id <= n /\ n \in Nat /\ n <= MaxActivity
      BY FS_CardinalityType DEF FeedInv, ActivityBounded
    <2> QED BY <2>1, ReadsAssumption
  <1>2. /\ feed.pc \in {"none", "reading", "answered", "failed"}
        /\ bulk.pc \in {"none", "reading", "answered", "failed"}
        /\ poolPrice \in HalfTicks /\ spot \in HalfTicks \cup {NoSpot}
    BY DEF FeedInv, FeedRequests, BulkInv
  <1>3. Range(holding) \subseteq BOOLEAN
    <2>1. holding \in Seq(BOOLEAN)
      BY DEF BulkInv
    <2> QED BY <2>1, SeqElements DEF Range
  <1>4. chain \in [TokenRows -> 0..MaxBalance] /\ reading.todo \subseteq TokenRows
    BY DEF BalancesInv
  <1>5. pools \in [Listed -> [tvl : 0..MaxTvl, active : BOOLEAN]] /\ listing.status \in {0, 200, 304}
    BY DEF ListInv, Markets
  <1> QED BY <1>1, <1>2, <1>3, <1>4, <1>5, Zenon DEF ReadsTypeOK

\* Each service in focus keeps the types of its keys, rows and maps, whatever requests
\* interleave and whichever of them fail.
THEOREM ServicesTypeCorrect == ServicesSpec => []ServicesTypeOK
  <1>1. ServicesInit => TypesInv
    BY TypesInitial
  <1>2. TypesInv /\ [ServicesNext]_serviceVars => TypesInv'
    BY TypesStep
  <1>3. TypesInv => ServicesTypeOK
    <2> SUFFICES ASSUME TypesInv PROVE ServicesTypeOK
      OBVIOUS
    <2>1. AuthTypeOK /\ StreamTypeOK /\ CandlesTypeOK /\ CacheTypeOK /\ CursorTypeOK
      BY CandlesMean DEF TypesInv, AuthInv, StreamInv, CacheInv
    <2>2. RateTypeOK
      BY DEF TypesInv, RateInv, RateTyped, SwitchesTyped, Tally, Verdicts, RateTypeOK
    <2>3. GateTypeOK
      BY DEF TypesInv, GateInv, GateTyped, GateCall, GateFlags, GateTypeOK
    <2>4. GuardTypeOK
      BY GuardTypes DEF TypesInv
    <2>5. QuoteTypeOK /\ TxTypeOK /\ PagedTypeOK /\ ReadsTypeOK
      BY QuoteTypes, TxTypes, PagedTypes, ReadTypes DEF TypesInv, PartsInv
    <2>6. CompressionTypeOK /\ ChartTypeOK
      BY DEF TypesInv, PartsInv, CompressionInv, ChartInv
    <2>7. EnrichTypeOK
      BY DEF TypesInv, EnrichInv, PassState, Symbols, OutagesTyped, EnrichTypeOK
    <2>8. IngestTypeOK
      BY DEF TypesInv, IngestInv, IngestTyped, DeliveryState, IngestTypeOK
    <2> QED BY <2>1, <2>2, <2>3, <2>4, <2>5, <2>6, <2>7, <2>8 DEF ServicesTypeOK
  <1> QED BY <1>1, <1>2, <1>3, PTL DEF ServicesSpec
=============================================================================
