--------------------------- MODULE AccountScreens ---------------------------
(* Two screens of a wallet's own data: its history                           *)
(* (components/TransactionHistory.tsx over hooks/useSwaps.ts and              *)
(* hooks/useLpActivity.ts) and its webhooks (components/WebhooksPanel.tsx     *)
(* over hooks/useWebhooks.ts). The history goes through react-query's cache,  *)
(* keyed by what was asked for (external); the webhooks are fetched by hand.  *)
(* The token is whoever authenticated last, and nothing clears it. useSwaps   *)
(* is read with its broken comment (47-48) closed and the field its table     *)
(* reads named as the table names it.                                         *)
EXTENDS Naturals, FiniteSets

CONSTANTS Owners,    \* wallets
          Hooks,     \* webhooks one may register
          LpPools,   \* pools of the activity
          MaxPages,  \* bound: pages of a feed
          MaxVisits, \* bound: moves of the user and answers of the history
          MaxOrders  \* bound: webhooks created and removed, and wallets changed

ASSUME AccountAssumption ==
    MaxPages \in Nat \ {0} /\ MaxVisits \in Nat /\ MaxOrders \in Nat

Nobody == "nobody"
AllPools == "all"

\* A wallet is an address.
ASSUME OwnersAssumption == Nobody \notin Owners

VARIABLES wallet,   \* the address the page was given
          bearer,   \* authToken: whose token the page holds
          stored,   \* whose token localStorage holds
          view,     \* [tab, page, pool, dated]
          options,  \* poolOptions
          cache,    \* react-query: what each key was last answered
          asking,   \* requests in flight, [key, bearer]
          visits

historyVars == <<wallet, bearer, stored, view, options, cache, asking, visits>>

VARIABLES holder,   \* whose token the panel holds
          table,    \* the API's webhooks, those of each owner
          items,    \* the list on screen
          spinner,  \* loading
          failed,   \* error is shown
          form,     \* the registration form is open
          orders,   \* requests in flight, [kind, hook, of, seen, live]
          placed

hookVars == <<holder, table, items, spinner, failed, form, orders, placed>>
accountVars == <<historyVars, hookVars>>

-----------------------------------------------------------------------------
(* The history *)

Feeds == {"swaps", "lp"}

\* queryKey: the token is not part of it.
Key(feed, v, w) == [feed |-> feed, wallet |-> w, page |-> v.page,
                    pool |-> IF feed = "lp" THEN v.pool ELSE AllPools]
Enabled(feed, token) == feed = "swaps" \/ token # Nobody

\* What the table of a feed has to show, and the pages of its total.
Loading(feed, v, w, c) == Enabled(feed, bearer) /\ Key(feed, v, w) \notin DOMAIN c
Pages(feed, v, w, c) ==
    IF Key(feed, v, w) \in DOMAIN c THEN c[Key(feed, v, w)].pages ELSE 0

\* The effect that leaves a page beyond the last: again when the page it goes to
\* is known to be shorter still.
Snap(v, w, c) ==
    LET settled[p \in 1..MaxPages] ==
          LET n == Pages(v.tab, [v EXCEPT !.page = p], w, c) IN
          IF n > 0 /\ p > n THEN settled[n] ELSE p
    IN [v EXCEPT !.page = settled[v.page]]

\* A bug: the page is left where it was.
Stay(v, w, c) == v
SnapBack(v, w, c) == Snap(v, w, c)

\* The pools of the unfiltered feed on screen become the filter's options.
Offered(v, w, c) ==
    LET k == Key("lp", v, w) IN
    IF v.pool = AllPools /\ k \in DOMAIN c /\ c[k].rows # Nobody THEN c[k].pools ELSE options

See(v, w, c) ==
    /\ view' = SnapBack(v, w, c)
    /\ options' = Offered(view', w, c)

HistoryInit ==
    /\ wallet \in Owners
    /\ stored \in Owners \cup {Nobody}
    /\ bearer = stored
    /\ view = [tab |-> "swaps", page |-> 1, pool |-> AllPools, dated |-> FALSE]
    /\ options = {}
    /\ cache = <<>>
    /\ asking = {}
    /\ visits = 0

Visit == visits < MaxVisits /\ visits' = visits + 1

SelectTab ==
    /\ Visit
    /\ \E tab \in Feeds : See([view EXCEPT !.tab = tab, !.page = 1], wallet, cache)
    /\ UNCHANGED <<wallet, bearer, stored, cache, asking>>

\* A filter goes to the first page; clearing it stays where it is.
FilterPool ==
    /\ Visit
    /\ view.tab = "lp"
    /\ \/ \E p \in options : See([view EXCEPT !.pool = p, !.page = 1], wallet, cache)
       \/ See([view EXCEPT !.pool = AllPools], wallet, cache)
    /\ UNCHANGED <<wallet, bearer, stored, cache, asking>>

FilterDates ==
    /\ Visit
    /\ view' = [view EXCEPT !.dated = ~@]
    /\ UNCHANGED <<wallet, bearer, stored, options, cache, asking>>

\* Previous and next, off while either feed loads.
TurnPage ==
    LET n == Pages(view.tab, view, wallet, cache) IN
    /\ Visit
    /\ n > 1 /\ \A feed \in Feeds : ~Loading(feed, view, wallet, cache)
    /\ \E p \in 1..n : (p = view.page + 1 \/ p = view.page - 1)
                       /\ See([view EXCEPT !.page = p], wallet, cache)
    /\ UNCHANGED <<wallet, bearer, stored, cache, asking>>

\* Another wallet connects, or one authenticates on another page: the page reads
\* the stored token when its address changes, and only then.
ChangeWallet ==
    /\ Visit
    /\ \E w \in Owners \ {wallet} : wallet' = w /\ See(view, w, cache)
    /\ bearer' = stored
    /\ UNCHANGED <<stored, cache, asking>>

AuthenticateElsewhere ==
    /\ \E o \in Owners \ {stored} : stored' = o
    /\ UNCHANGED <<wallet, bearer, view, options, cache, asking, visits>>

\* A key on screen is asked for: at first, when stale, every thirty seconds.
Ask(feed) ==
    LET k == Key(feed, view, wallet) IN
    /\ Enabled(feed, bearer)
    /\ \A r \in asking : r.key # k
    /\ asking' = asking \cup {[key |-> k, bearer |-> bearer]}
    /\ UNCHANGED <<wallet, bearer, stored, view, options, cache, visits>>

\* A bug: an answer is taken for the page on screen.
OnScreen(r) == Key(r.key.feed, view, wallet)
AskedFor(r) == r.key

\* The answer goes to its key: rows of the page, if the feed reaches it; swaps are
\* those of the wallet in the query, activity that of the token's wallet.
Answered(r) ==
    /\ Visit
    /\ \E n \in 0..MaxPages, pools \in SUBSET LpPools :
        LET k == AskedFor(r)
            rows == IF r.key.page > n THEN Nobody
                    ELSE IF r.key.feed = "swaps" THEN r.key.wallet ELSE r.bearer
            entry == [rows |-> rows, page |-> r.key.page, pool |-> r.key.pool, pages |-> n,
                      pools |-> pools, error |-> FALSE] IN
        /\ (pools # {}) = (r.key.feed = "lp" /\ rows # Nobody)
        /\ r.key.pool # AllPools => pools \subseteq {r.key.pool}
        /\ cache' = [x \in DOMAIN cache \cup {k} |-> IF x = k THEN entry ELSE cache[x]]
        /\ See(view, wallet, cache')
    /\ asking' = asking \ {r}
    /\ UNCHANGED <<wallet, bearer, stored>>

\* A failure shows in place of the rows, which the cache keeps.
AskFails(r) ==
    /\ Visit
    /\ cache' = [x \in DOMAIN cache \cup {r.key} |->
                   IF x # r.key THEN cache[x]
                   ELSE IF x \in DOMAIN cache THEN [cache[x] EXCEPT !.error = TRUE]
                   ELSE [rows |-> Nobody, page |-> x.page, pool |-> x.pool, pages |-> 0,
                         pools |-> {}, error |-> TRUE]]
    /\ See(view, wallet, cache')
    /\ asking' = asking \ {r}
    /\ UNCHANGED <<wallet, bearer, stored>>

HistoryNext ==
    \/ SelectTab \/ FilterPool \/ FilterDates \/ TurnPage
    \/ ChangeWallet \/ AuthenticateElsewhere
    \/ \E feed \in Feeds : Ask(feed)
    \/ \E r \in asking : Answered(r) \/ AskFails(r)

\* What the table of each feed shows; a date range hides the rows of the page.
HasRows(k) == k \in DOMAIN cache /\ cache[k].rows # Nobody /\ ~view.dated
NothingHere == IF view.page > 1 THEN "none on this page" ELSE "none yet"

SwapTable(k) ==
    IF k \in DOMAIN cache /\ cache[k].error THEN "error"
    ELSE IF Loading("swaps", view, wallet, cache) THEN "skeleton"
    ELSE IF HasRows(k) THEN "rows" ELSE NothingHere

LpTable(k) ==
    IF k \in DOMAIN cache /\ cache[k].error THEN "error"
    ELSE IF Loading("lp", view, wallet, cache) THEN "skeleton"
    ELSE IF HasRows(k) THEN "rows"
    ELSE IF view.pool # AllPools THEN "none in this pool" ELSE NothingHere

Table == LET k == Key(view.tab, view, wallet) IN
         IF view.tab = "swaps" THEN SwapTable(k) ELSE LpTable(k)

\* The rows on screen are the page, the pool and (swaps) the wallet chosen,
\* whatever order the answers came in; the page is one that exists, and a wallet
\* is told it has no history only by a feed that was empty, unless a date range
\* hides the page (TransactionHistory.tsx 79-90, 328-347, 480-500).
HistoryHolds ==
    LET k == Key(view.tab, view, wallet) IN
    /\ Table = "rows" => /\ cache[k].page = view.page
                         /\ view.tab = "lp" => cache[k].pool = view.pool
                         /\ view.tab = "swaps" => cache[k].rows = wallet
    /\ k \in DOMAIN cache /\ cache[k].pages > 0 => view.page <= cache[k].pages
    /\ Table = "none yet" /\ ~view.dated /\ k \in DOMAIN cache => cache[k].pages = 0

-----------------------------------------------------------------------------
(* The webhooks *)

HooksInit ==
    /\ holder = Nobody
    /\ table = [o \in Owners |-> {}]
    /\ items = {}
    /\ spinner = FALSE
    /\ failed = FALSE
    /\ form = FALSE
    /\ orders = {}
    /\ placed = 0

\* `round` keeps apart the requests that ask for the same.
List(of, round) == [kind |-> "list", hook |-> Nobody, of |-> of, served |-> FALSE,
                    seen |-> {}, round |-> round, live |-> TRUE]

\* The token changes, in this tab or another: the cleanup cancels the list its own
\* effect asked for, and only that one; without a token the list is emptied and
\* the spinner left as it is.
TokenChanges ==
    /\ placed < MaxOrders /\ placed' = placed + 1
    /\ \E o \in (Owners \cup {Nobody}) \ {holder} :
        LET cancelled == {IF r.kind = "list" /\ r.round = 0 THEN [r EXCEPT !.live = FALSE] ELSE r
                          : r \in orders} IN
        /\ holder' = o
        /\ IF o = Nobody
           THEN items' = {} /\ orders' = cancelled /\ UNCHANGED <<spinner, failed>>
           ELSE /\ spinner' = TRUE /\ failed' = FALSE
                /\ orders' = cancelled \cup {List(o, 0)}
                /\ UNCHANGED items
    /\ UNCHANGED <<table, form>>

\* The form is opened; saved it registers a webhook; a row's button removes one.
ToggleForm ==
    /\ ~spinner
    /\ form' = ~form
    /\ UNCHANGED <<holder, table, items, spinner, failed, orders, placed>>

\* Without a token nothing is registered, and the form closes all the same.
SubmitSignedOut ==
    /\ form /\ ~spinner /\ holder = Nobody
    /\ form' = FALSE
    /\ UNCHANGED <<holder, table, items, spinner, failed, orders, placed>>

PlaceOrder(kind, h) ==
    /\ ~spinner /\ holder # Nobody
    /\ placed < MaxOrders /\ placed' = placed + 1
    /\ kind = "create" => form /\ h \notin table[holder]
    /\ kind = "remove" => h \in items
    /\ spinner' = TRUE
    /\ orders' = orders \cup {[kind |-> kind, hook |-> h, of |-> holder, served |-> FALSE,
                               seen |-> {}, round |-> placed', live |-> TRUE]}
    /\ UNCHANGED <<holder, table, items, failed, form>>

\* The API carries the request out; a webhook of another owner is not removed.
Serve(r) ==
    /\ ~r.served
    /\ table' = CASE r.kind = "create" -> [table EXCEPT ![r.of] = @ \cup {r.hook}]
                  [] r.kind = "remove" -> [table EXCEPT ![r.of] = @ \ {r.hook}]
                  [] OTHER -> table
    /\ orders' = (orders \ {r}) \cup {[r EXCEPT !.served = TRUE, !.seen = table[r.of]]}
    /\ UNCHANGED <<holder, items, spinner, failed, form, placed>>

\* A list's answer counts unless its effect was cleaned up.
ListEnds(r) ==
    /\ r.kind = "list"
    /\ orders' = orders \ {r}
    /\ IF ~r.live THEN UNCHANGED <<items, failed, spinner>>
       ELSE /\ spinner' = FALSE
            /\ \/ r.served /\ items' = r.seen /\ UNCHANGED failed
               \/ failed' = TRUE /\ UNCHANGED items
    /\ UNCHANGED <<holder, table, form, placed>>

\* A bug: the end of an order leaves the spinner to the list it asks for.
StillTurning == spinner' = spinner
Settled == spinner' = FALSE

\* An order ends: it asks for the list with the token of its render, uncancelled,
\* and the spinner stops before that list is there. A failed registration leaves
\* the form as it is and asks for nothing; a removal the API refuses asks all the same.
OrderEnds(r) ==
    /\ r.kind # "list"
    /\ \E ok \in {r.served, FALSE, r.kind = "remove"} :
        /\ orders' = (orders \ {r}) \cup IF ok THEN {List(r.of, r.round)} ELSE {}
        /\ failed' = (failed /\ ~ok)
        /\ form' = (form /\ ~(ok /\ r.kind = "create"))
    /\ Settled
    /\ UNCHANGED <<holder, table, items, placed>>

HooksNext ==
    \/ TokenChanges \/ ToggleForm \/ SubmitSignedOut
    \/ \E kind \in {"create", "remove"}, h \in Hooks : PlaceOrder(kind, h)
    \/ \E r \in orders : Serve(r) \/ ListEnds(r) \/ OrderEnds(r)

\* With a token, the spinner stops: while it turns, a request is in flight whose
\* end will stop it, whatever was cancelled, failed or overlapped on the way
\* (useWebhooks.ts 22-95).
HooksHold == spinner /\ holder # Nobody => \E r \in orders : r.live

AccountTypeOK ==
    /\ view.page \in 1..MaxPages
    /\ view.tab \in Feeds
    /\ options \subseteq LpPools
    /\ \A h \in Owners : table[h] \subseteq Hooks
    /\ items \subseteq Hooks
=============================================================================
