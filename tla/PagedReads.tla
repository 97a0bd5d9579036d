------------------------------ MODULE PagedReads ------------------------------
(* Reads of a growing table page by page. The portfolio (usePortfolio.ts)    *)
(* asks for a wallet's positions, newest first, by offset; every page is a   *)
(* count and a read of its own (positions.repository.ts). The volume of      *)
(* analytics.service.ts and the ticks of candles.service.ts go by the key of *)
(* the last row seen. The two share no state and have a next-state relation  *)
(* each.                                                                     *)
EXTENDS Naturals, Sequences, FiniteSets, SequencesExt

CONSTANTS Holders,       \* wallets that sign in
          PageSize,      \* 50, 1000 and the ticks' limit
          MaxPositions,  \* bound: positions of a wallet
          MaxRefreshes,  \* bound: refreshes
          Instants,      \* timestamps of rows
          MaxInserted    \* bound: rows of the table read by key

ASSUME PagedAssumption ==
    /\ PageSize \in Nat \ {0} /\ Instants \subseteq Nat
    /\ MaxPositions \in Nat /\ MaxRefreshes \in Nat /\ "nobody" \notin Holders

Nobody == "nobody"
NoCursor == [at |-> 0, id |-> 0]

VARIABLES owned,      \* positions each wallet has: they are 1..owned[w], the last the newest
          account,    \* the wallet whose token the page holds
          requestId,
          refreshes,  \* per request number: a refresh under way
          fetching, failed,
          display,    \* the refresh the page shows
          inserted,   \* rows of the table read by key
          walk        \* a walk over them

portfolioVars == <<owned, account, requestId, refreshes, fetching, failed, display>>
walkVars == <<inserted, walk>>

\* A refresh; `began` and `torn` are kept for the properties: the positions there
\* were, and whether one came between the count of a page and its rows.
Refreshing(w, n) ==
    [wallet |-> w, got |-> <<>>, page |-> 1, total |-> 0, counted |-> FALSE,
     began |-> n, torn |-> FALSE]
NotRunning == Refreshing(Nobody, 0)

PagedInit ==
    /\ owned = [w \in Holders |-> 0]
    /\ account = Nobody
    /\ requestId = 0
    /\ refreshes = [n \in 1..MaxRefreshes |-> NotRunning]
    /\ fetching = FALSE
    /\ failed = FALSE
    /\ display = NotRunning
    /\ inserted = {}
    /\ walk \in [kind : {"volume", "ticks"}, cursor : {NoCursor}, seen : {<<>>}, began : {{}},
                 upTo : {0}, status : {"none"}]

PositionMinted(w) ==
    /\ owned[w] < MaxPositions
    /\ owned' = [owned EXCEPT ![w] = @ + 1]
    /\ refreshes' = [n \in DOMAIN refreshes |->
                        IF refreshes[n].wallet = w /\ refreshes[n].counted
                        THEN [refreshes[n] EXCEPT !.torn = TRUE] ELSE refreshes[n]]
    /\ UNCHANGED <<account, requestId, fetching, failed, display>>

\* refresh up to its first request.
StartRefresh(w, number) ==
    /\ number <= MaxRefreshes
    /\ refreshes' = [refreshes EXCEPT ![number] = Refreshing(w, owned[w])]
    /\ requestId' = number
    /\ fetching' = TRUE
    /\ failed' = FALSE

\* The effect for another token: the one before is cleaned up.
SignInAs(w) ==
    /\ account # w
    /\ account' = w
    /\ StartRefresh(w, requestId + 1)
    /\ UNCHANGED <<owned, display>>

SignOut ==
    /\ account # Nobody
    /\ requestId < MaxRefreshes
    /\ account' = Nobody
    /\ requestId' = requestId + 1
    /\ display' = NotRunning
    /\ failed' = FALSE
    /\ fetching' = FALSE
    /\ UNCHANGED <<owned, refreshes>>

\* The interval of 30 s, or the button.
RefreshAgain ==
    /\ account # Nobody
    /\ StartRefresh(account, requestId + 1)
    /\ UNCHANGED <<owned, account, display>>

\* listPositionsByWallet counts.
CountPositions(n) ==
    /\ refreshes[n].wallet # Nobody /\ ~refreshes[n].counted
    /\ refreshes' = [refreshes EXCEPT ![n].counted = TRUE,
                                      ![n].total = owned[refreshes[n].wallet]]
    /\ UNCHANGED <<owned, account, requestId, fetching, failed, display>>

\* Its rows: newest first, the pages before skipped.
PageOf(w, page) ==
    LET newestFirst == Reverse([i \in 1..owned[w] |-> i])
    IN SubSeq(newestFirst, (page - 1) * PageSize + 1, Min({page * PageSize, owned[w]}))

\* What is thrown at a page; and without the search for duplicates.
ConsistentCounts(got, rows, total) ==
    ~(Len(got) > total \/ (rows = <<>> /\ Len(got) < total))
Consistent(got, rows, total) ==
    /\ IsInjective(got)
    /\ ~(Len(got) > total \/ (rows = <<>> /\ Len(got) < total))

Ended(n) == refreshes' = [refreshes EXCEPT ![n] = NotRunning]

\* The page arrives, and is the last, or another is asked for.
ReadPage(n) ==
    /\ refreshes[n].counted
    /\ LET r == refreshes[n]
           rows == PageOf(r.wallet, r.page)
           got == r.got \o rows
       IN /\ Consistent(got, rows, r.total)
          /\ IF Len(got) < r.total
             THEN /\ refreshes' = [refreshes EXCEPT ![n].got = got, ![n].page = @ + 1,
                                                    ![n].counted = FALSE]
                  /\ UNCHANGED <<display, fetching>>
             ELSE /\ Ended(n)
                  /\ IF n = requestId
                     THEN display' = [r EXCEPT !.got = got] /\ fetching' = FALSE
                     ELSE UNCHANGED <<display, fetching>>
    /\ UNCHANGED <<owned, account, requestId, failed>>

\* A page that does not fit the others, or a request that fails.
RefreshFails(n) ==
    /\ refreshes[n].wallet # Nobody
    /\ Ended(n)
    /\ IF n = requestId THEN failed' = TRUE /\ fetching' = FALSE ELSE UNCHANGED <<failed, fetching>>
    /\ UNCHANGED <<owned, account, requestId, display>>

PortfolioNext ==
    \/ SignOut \/ RefreshAgain
    \/ \E w \in Holders : PositionMinted(w) \/ SignInAs(w)
    \/ \E n \in 1..MaxRefreshes : CountPositions(n) \/ ReadPage(n) \/ RefreshFails(n)

-----------------------------------------------------------------------------
\* The walk by key.

Before(r, s) == r.at < s.at \/ (r.at = s.at /\ r.id < s.id)

\* A swap or a candle is stored; its time may be past. A pool has one candle of
\* an interval for each period.
RowInserted ==
    /\ Cardinality(inserted) < MaxInserted
    /\ \E t \in Instants :
          /\ walk.kind = "ticks" => \A r \in inserted : r.at # t
          /\ inserted' = inserted \cup {[at |-> t, id |-> Cardinality(inserted) + 1]}
    /\ UNCHANGED walk

\* getVolume's window ends at the time it is asked; getTicks has none.
StartWalk ==
    /\ walk.status = "none"
    /\ \E end \in Instants :
          walk' = [walk EXCEPT !.status = "walking", !.upTo = end,
                               !.began = {r \in inserted : walk.kind = "volume" => r.at < end}]
    /\ UNCHANGED inserted

InWindow(r) == walk.kind = "volume" => r.at < walk.upTo

\* The rows behind the cursor's.
Beyond == {r \in inserted : InWindow(r) /\ Before(walk.cursor, r)}

FirstRows(n) ==
    LET sorted == CHOOSE s \in SetToSeqs(Beyond) :
                     \A i, j \in DOMAIN s : i < j => Before(s[i], s[j])
    IN SubSeq(sorted, 1, Min({n, Len(sorted)}))

\* getVolume and getTicks: the first stops at a short page, the second asks for
\* one row more and says whether there was one.
WalkPage ==
    /\ walk.status = "walking"
    /\ LET more == IF walk.kind = "ticks" THEN 1 ELSE 0
           rows == FirstRows(PageSize + more)
           page == SubSeq(rows, 1, Min({PageSize, Len(rows)}))
           last == IF walk.kind = "ticks" THEN Len(rows) <= PageSize ELSE Len(rows) < PageSize
       IN walk' = [walk EXCEPT !.seen = @ \o page,
                               !.cursor = IF page = <<>> THEN @ ELSE Last(page),
                               !.status = IF last THEN "done" ELSE @]
    /\ UNCHANGED inserted

\* A read, a token's metadata or its price fails: the walk gives no answer.
WalkFails ==
    /\ walk.status = "walking"
    /\ walk' = [walk EXCEPT !.status = "failed"]
    /\ UNCHANGED inserted

WalkNext == RowInserted \/ StartWalk \/ WalkPage \/ WalkFails

-----------------------------------------------------------------------------
PagedTypeOK ==
    /\ owned \in [Holders -> 0..MaxPositions]
    /\ account \in Holders \cup {Nobody}
    /\ requestId \in 0..MaxRefreshes
    /\ fetching \in BOOLEAN /\ failed \in BOOLEAN
    /\ \A r \in Range(refreshes) \cup {display} :
          /\ r.wallet \in Holders \cup {Nobody}
          /\ r.got \in Seq(1..MaxPositions)
          /\ r.torn \in BOOLEAN
    /\ walk.status \in {"none", "walking", "done", "failed"}

\* The page shows the positions of the wallet signed in, each once, and every
\* one there was when the refresh it shows began, however refreshes, sign-ins
\* and new positions interleave; it waits exactly while the last refresh runs
\* (usePortfolio.ts:98-141). A walk by key that ends has every row there was
\* when it began, each once (analytics.service.ts:119-207,
\* candles.service.ts:208-273). A position minted between the count of a page
\* and its rows can hide another: such refreshes are left out.
PagesComplete ==
    /\ display.wallet # Nobody =>
          /\ account # Nobody
          /\ ~fetching /\ ~failed => display.wallet = account
          /\ IsInjective(display.got)
          /\ ~display.torn => 1..display.began \subseteq Range(display.got)
    /\ fetching <=> (requestId > 0 /\ refreshes[requestId].wallet # Nobody)
    /\ walk.status = "done" => IsInjective(walk.seen) /\ walk.began \subseteq Range(walk.seen)
=============================================================================
