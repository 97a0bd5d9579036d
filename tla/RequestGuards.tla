---------------------------- MODULE RequestGuards ----------------------------
(* What admits a caller of the API other than an operator: the wallet's token *)
(* (jwt-auth.guard.ts, current-wallet.decorator.ts), the API key with the    *)
(* reads of its row (api-key.guard.ts), and the handshake and the messages   *)
(* of the price socket (ws-auth-policy.ts, price.gateway.ts). A token is its *)
(* signature, its expiry and its claims; texts and codes are left out.       *)
EXTENDS Integers, Sequences, FiniteSets

CONSTANTS Addresses,    \* Stellar public keys
          PricePools,   \* pool ids a message may name
          WalletSubs,   \* PRICE_WS_MAX_SUBSCRIPTIONS_PER_CLIENT
          AnonSubs,     \* WS_POOL_UPDATES_ANON_MAX_SUBSCRIPTIONS
          LastHour      \* bound: time

ASSUME AccessAssumption == WalletSubs \in Nat \ {0} /\ AnonSubs \in Nat \ {0} /\ LastHour \in Nat

VARIABLES deploy,   \* the environment the process started with
          hour,     \* Date.now()
          keyRow,   \* the row of the API key that is presented, if any
          keyCall,  \* a request with that key
          session,  \* a connection to /price
          swept     \* history: who invalidated a pair's cache

accessVars == <<deploy, hour, keyRow, keyCall, session, swept>>

-----------------------------------------------------------------------------
(* Tokens *)

\* A claim that is not there, an empty one, one that is not a string, and a text
\* that is no public key.
Missing == "missing"
Blank == "blank"
Other == "other"
Garbled == "garbled"
Claims == {Missing, Blank, Other, Garbled} \cup Addresses
Texts == {Garbled} \cup Addresses
Roles == {"fee-collector", "trader", "reader"}
RoleLists == {{}} \cup {{role} : role \in Roles}
NoExp == -1

\* claims are walletAddress, wallet, address and sub, in this order, of which two
\* may be left out here; roles is `roles ?? role`, and scope what it says.
Token == [signed : BOOLEAN, exp : {NoExp} \cup 0..LastHour, claims : [1..2 -> Claims],
          roles : RoleLists, scope : SUBSET {"read"}]

NoWallet == "none"

\* A public key, a G and 55 characters, is none of the words above.
ASSUME AddressesAssumption ==
    Addresses \cap {Missing, Blank, Other, Garbled, NoWallet, "anonymous"} = {}

\* verify of jsonwebtoken: an expiry, where there is one, lies ahead.
Verified(token, now) == token.signed /\ (token.exp = NoExp \/ token.exp > now)

\* `walletAddress ?? wallet ?? address ?? sub`, which must then be a text.
FirstPresent(claims) ==
    LET there == {i \in DOMAIN claims : claims[i] # Missing}
        first == claims[CHOOSE i \in there : \A j \in there : i <= j]
    IN  IF there = {} \/ first \notin Texts THEN NoWallet ELSE first

\* walletFrom with the claims in the other order.
LastText(claims) ==
    LET there == {i \in DOMAIN claims : claims[i] \in Texts}
    IN  IF there = {} THEN NoWallet ELSE claims[CHOOSE i \in there : \A j \in there : j <= i]

\* walletFrom: the first claim that is a text with something in it.
FirstText(claims) ==
    LET there == {i \in DOMAIN claims : claims[i] \in Texts}
    IN  IF there = {} THEN NoWallet ELSE claims[CHOOSE i \in there : \A j \in there : i <= j]

\* canActivate of JwtAuthGuard: the wallet it attaches, or none and 401.
JwtAuth(token, now) ==
    IF /\ deploy.secret
       /\ Verified(token, now) /\ token.exp # NoExp
       /\ token.roles # {} \/ token.scope # {}
       /\ token.roles # {} => "fee-collector" \in token.roles
    THEN FirstPresent(token.claims) ELSE NoWallet

\* authorizeWebSocket, for the privileged channels.
Privileged(token, now) ==
    IF /\ deploy.secret
       /\ Verified(token, now) /\ token.exp # NoExp
       /\ token.roles \cap {"fee-collector", "trader"} # {}
    THEN FirstPresent(token.claims) ELSE NoWallet

\* resolveWalletPrincipal behind JwtAuthGuard: the wallet a handler acts for.
CurrentWallet(token, now) ==
    IF JwtAuth(token, now) \in Addresses THEN JwtAuth(token, now) ELSE NoWallet

-----------------------------------------------------------------------------
(* The price socket *)

\* resolveWsAuthPolicy.
Optional == /\ deploy.mode = "optional"
            /\ deploy.mainnet => deploy.anonMainnet
AnonLimit == IF AnonSubs < WalletSubs THEN AnonSubs ELSE WalletSubs

\* subscriptionLimitFor.
SubLimit(who) == IF who = "anonymous" THEN AnonLimit ELSE WalletSubs

\* authenticateWsHandshake with a token: its wallet, or none and an error.
Handshake(token, now) ==
    IF deploy.secret /\ Verified(token, now) THEN FirstText(token.claims) ELSE NoWallet

Closed == [who |-> NoWallet, held |-> {}]

\* onClientConnection with a token.
ConnectAs(token) ==
    /\ session = Closed
    /\ Handshake(token, hour) # NoWallet
    /\ session' = [who |-> Handshake(token, hour), held |-> {}]
    /\ UNCHANGED <<deploy, hour, keyRow, keyCall, swept>>

\* A policy that does not look at the network.
ConnectAnywhere ==
    /\ session = Closed
    /\ deploy.mode = "optional"
    /\ session' = [who |-> "anonymous", held |-> {}]
    /\ UNCHANGED <<deploy, hour, keyRow, keyCall, swept>>

\* onClientConnection without one.
ConnectAnonymous ==
    /\ session = Closed
    /\ Optional
    /\ session' = [who |-> "anonymous", held |-> {}]
    /\ UNCHANGED <<deploy, hour, keyRow, keyCall, swept>>

\* close, error, or a send that fails: removeClient.
Disconnect ==
    /\ session # Closed
    /\ session' = Closed
    /\ UNCHANGED <<deploy, hour, keyRow, keyCall, swept>>

\* handleMessage. The count is looked at before the pool: at the limit even a pool
\* that is held is refused.
Subscribe(pool) ==
    /\ session # Closed
    /\ Cardinality(session.held) < SubLimit(session.who)
    /\ session' = [session EXCEPT !.held = @ \cup {pool}]
    /\ UNCHANGED <<deploy, hour, keyRow, keyCall, swept>>

Unsubscribe(pool) ==
    /\ session # Closed
    /\ session' = [session EXCEPT !.held = @ \ {pool}]
    /\ UNCHANGED <<deploy, hour, keyRow, keyCall, swept>>

\* A swap the client announces: invalidatePairCache, for a wallet only.
AnnounceSwap ==
    /\ session.who \notin {NoWallet, "anonymous"}
    /\ swept' = swept \cup {session.who}
    /\ UNCHANGED <<deploy, hour, keyRow, keyCall, session>>

-----------------------------------------------------------------------------
(* API keys *)

NoCall == [pc |-> "none", live |-> FALSE, admitted |-> FALSE]

\* A request with X-Api-Key arrives.
PresentKey ==
    /\ keyCall.pc = "none"
    /\ keyCall' = [NoCall EXCEPT !.pc = "find", !.live = keyRow = "live"]
    /\ UNCHANGED <<deploy, hour, keyRow, session, swept>>

\* findUnique of a guard that does not look at `revoked`.
FindAnyKey ==
    /\ keyCall.pc = "find"
    /\ \/ keyRow # "none" /\ keyCall' = [keyCall EXCEPT !.pc = "stamp"]
       \/ keyCall' = [keyCall EXCEPT !.pc = "over"]
    /\ UNCHANGED <<deploy, hour, keyRow, session, swept>>

\* findUnique: the row as it is now; without one, revoked, or with the database
\* away, 401. Rows carry no expiry and no role, and no route asks for one.
FindKey ==
    /\ keyCall.pc = "find"
    /\ \/ keyRow = "live" /\ keyCall' = [keyCall EXCEPT !.pc = "stamp"]
       \/ keyCall' = [keyCall EXCEPT !.pc = "over"]
    /\ UNCHANGED <<deploy, hour, keyRow, session, swept>>

\* The update of lastUsedAt, whose failure is dropped: the request goes on.
StampKey ==
    /\ keyCall.pc = "stamp"
    /\ keyCall' = [keyCall EXCEPT !.pc = "over", !.admitted = TRUE]
    /\ UNCHANGED <<deploy, hour, keyRow, session, swept>>

\* DELETE /api-keys/:id of the owner.
RevokeKey ==
    /\ keyRow = "live"
    /\ keyRow' = "revoked"
    /\ UNCHANGED <<deploy, hour, keyCall, session, swept>>

-----------------------------------------------------------------------------
AccessInit ==
    /\ deploy \in [mode : {"required", "optional", "unknown"}, mainnet : BOOLEAN,
                   anonMainnet : BOOLEAN, secret : BOOLEAN]
    /\ hour = 0
    /\ keyRow \in {"none", "live", "revoked"}
    /\ keyCall = NoCall
    /\ session = Closed
    /\ swept = {}

HourPasses ==
    /\ hour < LastHour
    /\ hour' = hour + 1
    /\ UNCHANGED <<deploy, keyRow, keyCall, session, swept>>

AccessNext ==
    \/ HourPasses
    \/ \E token \in Token : ConnectAs(token)
    \/ ConnectAnonymous \/ Disconnect \/ AnnounceSwap
    \/ \E pool \in PricePools : Subscribe(pool) \/ Unsubscribe(pool)

KeyNext == PresentKey \/ FindKey \/ StampKey \/ RevokeKey

AccessSpec == AccessInit /\ [][AccessNext \/ KeyNext]_accessVars

-----------------------------------------------------------------------------
AccessTypeOK ==
    /\ hour \in 0..LastHour
    /\ keyRow \in {"none", "live", "revoked"}
    /\ keyCall \in [pc : {"none", "find", "stamp", "over"},
                    live : BOOLEAN, admitted : BOOLEAN]
    /\ session \in [who : {NoWallet, "anonymous"} \cup Texts, held : SUBSET PricePools]
    /\ swept \subseteq Texts

\* Whichever gates admit a token at an instant take it for the same wallet, though
\* one falls back from claim to claim with `??` and the other on emptiness
\* (jwt-auth.guard.ts:110-119 and :196-207, ws-auth-policy.ts:104-114), and the
\* price socket opens to every token the REST routes accept.
OneCaller ==
    \A token \in Token :
       LET rest == JwtAuth(token, hour)
           channel == Privileged(token, hour)
           stream == Handshake(token, hour)
       IN  /\ rest # NoWallet => stream = rest
           /\ channel # NoWallet => stream = channel
           /\ CurrentWallet(token, hour) \in {NoWallet, rest}

\* A session without a wallet exists only where the operator allowed it, on mainnet
\* by the second switch, holds its own number of pools at most, which is never more
\* than a wallet's, and has no effect beyond itself (ws-auth-policy.ts:10-25,
\* price.gateway.ts:104-191); and a key that was revoked before a request arrived
\* does not admit it (api-key.guard.ts:101-120).
AccessBounded ==
    /\ session.who = "anonymous" =>
          /\ deploy.mode = "optional" /\ (deploy.mainnet => deploy.anonMainnet)
          /\ Cardinality(session.held) <= AnonSubs
    /\ Cardinality(session.held) <= WalletSubs
    /\ "anonymous" \notin swept
    /\ keyCall.admitted => keyCall.live
=============================================================================
