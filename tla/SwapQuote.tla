------------------------------ MODULE SwapQuote ------------------------------
(* The quote of the swap form (hooks/useSwapQuote.ts, usePoolId of           *)
(* hooks/useTokens.ts, the handlers of components/SwapWidget.tsx). A change  *)
(* of the form and the effects React runs after it are one step. A quote is  *)
(* tagged with the inputs it was asked for. Two kinds of request answer it:  *)
(* the debounced one of the form, numbered and aborted, and the one a price  *)
(* event of the WebSocket starts, which is neither.                          *)
EXTENDS Naturals, FiniteSets

CONSTANTS Tokens,     \* tokens of the list
          Pools,      \* pools, each the set of its two tokens
          MaxTerms,   \* terms 1..MaxTerms: amount and slippage; 0 is no amount
          MaxChanges, \* bound: changes of the form
          MaxEvents   \* bound: price events

ASSUME QuoteAssumption ==
    /\ \A p \in Pools : p \subseteq Tokens /\ Cardinality(p) = 2
    /\ MaxTerms \in Nat \ {0} /\ MaxChanges \in Nat /\ MaxEvents \in Nat

NoToken == "none"
NoPool == {}
NoQuote == [none |-> TRUE]

VARIABLES form,     \* what the user chose: the two tokens and the terms
          poolId,   \* the pool found for the pair, kept while another is looked up
          lookup,   \* usePoolId's request is in flight
          quote,    \* [inputs, by] or NoQuote
          loading,
          timer,    \* the debounce timer is armed
          sequence, \* sequenceRef
          fetches,  \* quote requests in flight
          socket,   \* the WebSocket of the current inputs
          changes,
          events

quoteVars == <<form, poolId, lookup, quote, loading, timer, sequence, fetches, socket,
               changes, events>>

HasPair(f) == f.tokenIn # NoToken /\ f.tokenOut # NoToken
Inputs == [pool |-> poolId, form |-> form]
Complete(inputs) == inputs.pool # NoPool /\ HasPair(inputs.form) /\ inputs.form.terms # 0

\* The pool usePoolId finds for a form, whichever token comes first.
PoolOf(f) == IF {f.tokenIn, f.tokenOut} \in Pools THEN {f.tokenIn, f.tokenOut} ELSE NoPool

QuoteInit ==
    /\ form = [tokenIn |-> NoToken, tokenOut |-> NoToken, terms |-> 0]
    /\ poolId = NoPool
    /\ lookup = FALSE
    /\ quote = NoQuote
    /\ loading = FALSE
    /\ timer = FALSE
    /\ sequence = 0
    /\ fetches = {}
    /\ socket = "off"
    /\ changes = 0
    /\ events = 0

\* The effects of useSwapQuote after a render with other inputs. The cleanup
\* disarms the timer and closes the socket. Complete inputs abort the request of
\* the form, take a new number and arm the timer; others only clear the quote.
Rerun(inputs) ==
    /\ socket' = IF inputs.pool # NoPool /\ HasPair(inputs.form) THEN "connecting" ELSE "off"
    /\ timer' = Complete(inputs)
    /\ loading' = Complete(inputs)
    /\ IF Complete(inputs)
       THEN /\ sequence' = sequence + 1
            /\ fetches' = {IF f.by = "form" THEN [f EXCEPT !.aborted = TRUE] ELSE f : f \in fetches}
            /\ UNCHANGED quote
       ELSE /\ quote' = NoQuote
            /\ UNCHANGED <<sequence, fetches>>

-----------------------------------------------------------------------------
(* The form *)

\* A new form: usePoolId drops its request and asks again when the tokens changed,
\* and forgets the pool only when a token is missing.
Change(next) ==
    /\ changes < MaxChanges
    /\ next # form
    /\ changes' = changes + 1
    /\ form' = next
    /\ poolId' = IF HasPair(next) THEN poolId ELSE NoPool
    /\ lookup' = IF next.tokenIn = form.tokenIn /\ next.tokenOut = form.tokenOut
                 THEN lookup ELSE HasPair(next)
    /\ Rerun([pool |-> poolId', form |-> next])
    /\ UNCHANGED events

\* Choosing the token of the other side swaps the two.
SelectIn(t) ==
    Change([form EXCEPT !.tokenIn = t, !.tokenOut = IF t = @ THEN form.tokenIn ELSE @])

SelectOut(t) ==
    Change([form EXCEPT !.tokenOut = t, !.tokenIn = IF t = @ THEN form.tokenOut ELSE @])

EnterTerms(n) == Change([form EXCEPT !.terms = n])

\* swapDirection: the output of the quote on display becomes the amount.
SwapDirection ==
    \E n \in 0..MaxTerms :
        /\ quote = NoQuote => n = 0
        /\ Change([tokenIn |-> form.tokenOut, tokenOut |-> form.tokenIn, terms |-> n])

-----------------------------------------------------------------------------
(* The answers *)

\* GET /pools answers: the pool of the pair, or none, as after a failure.
LookupEnds ==
    /\ lookup
    /\ lookup' = FALSE
    /\ \E found \in {PoolOf(form), NoPool} :
        /\ poolId' = found
        /\ IF found = poolId
           THEN UNCHANGED <<quote, loading, timer, sequence, fetches, socket>>
           ELSE Rerun([pool |-> found, form |-> form])
    /\ UNCHANGED <<form, changes, events>>

TimerFires ==
    /\ timer
    /\ timer' = FALSE
    /\ fetches' = fetches \cup {[by |-> "form", number |-> sequence, inputs |-> Inputs,
                                 aborted |-> FALSE]}
    /\ UNCHANGED <<form, poolId, lookup, quote, loading, sequence, socket, changes, events>>

\* A bug: a late answer of the form is not recognised by its number.
SettleAny(f, answer) == quote' = answer /\ loading' = (f.by = "event" /\ loading)

\* What the answer of a request does: the form's counts when it is the latest.
Settle(f, answer) ==
    IF f.by = "form"
    THEN IF f.number = sequence THEN quote' = answer /\ loading' = FALSE
         ELSE UNCHANGED <<quote, loading>>
    ELSE quote' = answer /\ UNCHANGED loading

\* A request ends: an aborted one fails, the others are answered or fail.
FetchEnds(f) ==
    /\ fetches' = fetches \ {f}
    /\ \E answer \in {[inputs |-> f.inputs, by |-> f.by], NoQuote} :
        /\ f.aborted => answer = NoQuote
        /\ Settle(f, answer)
    /\ UNCHANGED <<form, poolId, lookup, timer, sequence, socket, changes, events>>

-----------------------------------------------------------------------------
(* The WebSocket *)

\* Opening subscribes; a closed socket is opened again after a pause.
SocketChanges ==
    /\ \/ socket = "connecting" /\ socket' \in {"open", "waiting"}
       \/ socket = "open" /\ socket' = "waiting"
       \/ socket = "waiting" /\ socket' = "connecting"
    /\ UNCHANGED <<form, poolId, lookup, quote, loading, timer, sequence, fetches, changes, events>>

\* A price event of the pool asks for a quote of the inputs the socket closed over.
PriceEvent ==
    /\ socket = "open"
    /\ events < MaxEvents
    /\ form.terms # 0
    /\ events' = events + 1
    /\ fetches' = fetches \cup {[by |-> "event", number |-> events', inputs |-> Inputs,
                                 aborted |-> FALSE]}
    /\ UNCHANGED <<form, poolId, lookup, quote, loading, timer, sequence, socket, changes>>

-----------------------------------------------------------------------------
QuoteNext ==
    \/ \E t \in Tokens : SelectIn(t) \/ SelectOut(t)
    \/ \E n \in 0..MaxTerms : EnterTerms(n)
    \/ SwapDirection
    \/ LookupEnds
    \/ TimerFires
    \/ \E f \in fetches : FetchEnds(f)
    \/ SocketChanges
    \/ PriceEvent

QuoteSpec == QuoteInit /\ [][QuoteNext]_quoteVars

Forms == [tokenIn : Tokens \cup {NoToken}, tokenOut : Tokens \cup {NoToken},
          terms : 0..MaxTerms]

QuoteTypeOK ==
    /\ form \in Forms
    /\ poolId \in Pools \cup {NoPool}
    /\ lookup \in BOOLEAN
    /\ quote # NoQuote => quote.inputs.form \in Forms /\ quote.by \in {"form", "event"}
    /\ loading \in BOOLEAN
    /\ timer \in BOOLEAN
    /\ sequence \in Nat
    /\ \A f \in fetches : f.inputs.form \in Forms /\ f.number \in Nat
    /\ socket \in {"off", "connecting", "open", "waiting"}
    /\ changes \in 0..MaxChanges
    /\ events \in 0..MaxEvents

-----------------------------------------------------------------------------
\* A request of the form whose answer will count.
Working == timer \/ \E f \in fetches : f.by = "form" /\ f.number = sequence

\* The spinner turns exactly while the form waits for the answer to its complete
\* inputs, whatever was typed, aborted or answered late; and when it has stopped,
\* a quote the form itself asked for is the one of the inputs on display
\* (useSwapQuote.ts 66-104).
QuoteSettles ==
    /\ loading <=> Complete(Inputs) /\ Working
    /\ Complete(Inputs) /\ ~loading /\ quote # NoQuote /\ quote.by = "form"
         => quote.inputs = Inputs

\* The details of a quote are on screen.
Shown == quote # NoQuote /\ ~loading /\ HasPair(form)

\* "hidden while refetching so a stale quote for the previous token pair isn't
\* shown as if it were current" (SwapWidget.tsx 468-469). A request started by a
\* price event of the pair before is neither numbered nor aborted.
StaleQuoteHidden ==
    Shown => /\ quote.inputs.form.tokenIn = form.tokenIn
             /\ quote.inputs.form.tokenOut = form.tokenOut

=============================================================================
