---------------------------- MODULE AccountReads ----------------------------
(* Answers the API puts together from several reads: a wallet's LP activity  *)
(* from three tables, its positions with their count and prices              *)
(* (positions.repository.ts, positions.service.ts), its balances with a call *)
(* to the chain for each token (balances.service.ts), and the list of pools  *)
(* with the tag a client sends back (pools.controller.ts). Rows, prices and  *)
(* balances change between the reads. The four share no state and have a     *)
(* next-state relation each.                                                 *)
EXTENDS Integers, FiniteSets, Sequences, SequencesExt

CONSTANTS FeedCap,      \* ACTIVITY_FETCH_LIMIT
          FeedLimit,    \* entries of a page of the feed
          MaxActivity,  \* bound: rows of the wallet in the three tables
          BulkCap,      \* BULK_POSITIONS_LIMIT
          MaxBulk,      \* bound: positions of the wallet
          HalfTicks,    \* prices, in halves of a tick: even on a boundary
          TokenRows,      \* tokens of the Token table
          MaxBalance,     \* bound: balances, in base units
          Listed,       \* pools, by name
          ListLimit,    \* pools of a page of the list
          MaxTvl,       \* bound: TVLs
          MaxListGets, MaxListEdits  \* bounds: requests, and changes of the pools

ASSUME ReadsAssumption ==
    /\ FeedCap \in Nat /\ FeedLimit \in 1..FeedCap  \* 200 and 50
    /\ BulkCap \in Nat \ {0} /\ ListLimit \in Nat \ {0} /\ Listed \subseteq Nat /\ IsFiniteSet(Listed)
    /\ HalfTicks \subseteq Nat /\ MaxBalance \in Nat /\ MaxTvl \in Nat
    /\ MaxActivity \in Nat

Unread == "unread"

\* The rows of S, each once, as a query with this order may return them.
Ordered(S, Ahead(_, _)) ==
    {s \in SetToSeqs(S) : \A i, j \in DOMAIN s : i < j => ~Ahead(s[j], s[i])}

FirstOf(s, n) == SubSeq(s, 1, IF Len(s) < n THEN Len(s) ELSE n)

\* slice(skip, skip + limit)
Slice(s, page, limit) == FirstOf(SubSeq(s, (page - 1) * limit + 1, Len(s)), limit)

-----------------------------------------------------------------------------
(* GET /positions/activity *)

VARIABLES activity,  \* the wallet's rows: table, id, createdAt
          feed       \* the request

feedVars == <<activity, feed>>

EventTables == <<"minted", "burned", "fees">>

\* `began` and `still` are kept for the property: the rows there were, and that none came.
FeedInit ==
    /\ activity = {}
    /\ feed = [pc |-> "none", page |-> 1, left |-> 1..3, rows |-> [t \in 1..3 |-> <<>>], began |-> {},
               still |-> TRUE, items |-> <<>>, total |-> 0]

\* The worker stores an event; a transaction that began earlier may commit later.
ActivityIndexed ==
    /\ Cardinality(activity) < MaxActivity
    /\ \E t \in 1..3, at \in 1..2 :
          activity' = activity \cup {[table |-> t, id |-> Cardinality(activity) + 1, at |-> at]}
    /\ feed' = [feed EXCEPT !.still = @ /\ feed.pc # "reading"]

AskFeed(page) ==
    /\ feed.pc = "none"
    /\ feed' = [feed EXCEPT !.pc = "reading", !.page = page, !.began = activity]
    /\ UNCHANGED activity

\* orderBy createdAt desc; and the order of the database.
Newest(r, s) == r.at > s.at
OldestFirst(r, s) == r.at < s.at

\* One of the three findMany, which run side by side.
ReadTable(t) ==
    /\ feed.pc = "reading" /\ t \in feed.left
    /\ \E s \in Ordered({r \in activity : r.table = t}, Newest) :
          feed' = [feed EXCEPT !.rows[t] = FirstOf(s, FeedCap), !.left = @ \ {t}]
    /\ UNCHANGED activity

\* The tables one after the other, and the sort, which is stable; and without it.
Concatenated(rows) == rows[1] \o rows[2] \o rows[3]
Merged(rows) ==
    LET all == rows[1] \o rows[2] \o rows[3]
        ahead(i, j) == \/ all[i].at > all[j].at
                       \/ all[i].at = all[j].at /\ i < j
        order == CHOOSE s \in Ordered(DOMAIN all, ahead) : TRUE
    IN [k \in DOMAIN all |-> all[order[k]]]

\* The symbols are looked up and the page is cut out.
AnswerFeed ==
    /\ feed.pc = "reading" /\ feed.left = {}
    /\ feed' = [feed EXCEPT !.pc = "answered", !.total = Len(Merged(feed.rows)),
                            !.items = Slice(Merged(feed.rows), feed.page, FeedLimit)]
    /\ UNCHANGED activity

\* A query fails, and the request with it.
FeedFails ==
    /\ feed.pc = "reading"
    /\ feed' = [feed EXCEPT !.pc = "failed"]
    /\ UNCHANGED activity

FeedNext ==
    \/ ActivityIndexed \/ AnswerFeed \/ FeedFails
    \/ \E page \in 1..2 : AskFeed(page)
    \/ \E t \in 1..3 : ReadTable(t)

\* A page of the feed has no event twice and its newest first. The first page
\* misses no event that was there when the request began and is newer than its
\* last one; and if none came meanwhile, a page within the tables' cap shows the
\* times of that page of all the wallet's events (positions.repository.ts:38-154).
FeedExact ==
    feed.pc = "answered" =>
        LET times(s) == [i \in DOMAIN s |-> s[i].at]
            all == CHOOSE s \in Ordered(feed.began, Newest) : TRUE
        IN /\ IsInjective(feed.items)
           /\ \A i, j \in DOMAIN feed.items : i < j => feed.items[i].at >= feed.items[j].at
           /\ feed.page = 1 =>
                 \A r \in feed.began \ Range(feed.items) :
                     Len(feed.items) = FeedLimit /\ r.at <= Last(feed.items).at
           /\ feed.still /\ feed.page * FeedLimit <= FeedCap =>
                 times(feed.items) = times(Slice(all, feed.page, FeedLimit))

-----------------------------------------------------------------------------
(* POST /positions/bulk, for the caller's wallet *)

VARIABLES holding,    \* the wallet's positions: those closed
          poolPrice,  \* pool.currentPrice
          spot,       \* price:spot:<pool>, none or a price
          bulk        \* the request

bulkVars == <<holding, poolPrice, spot, bulk>>

NoSpot == -1
LowerTick == 1
UpperTick == 2

BulkInit ==
    /\ holding = <<>>
    /\ poolPrice \in HalfTicks
    /\ spot = NoSpot
    /\ bulk = [pc |-> "none", status |-> "all", left |-> {"count", "rows"}, total |-> 0,
               began |-> {}, still |-> TRUE, items |-> <<>>]

Disturbed == bulk' = [bulk EXCEPT !.still = @ /\ bulk.pc # "reading"]

PositionOpens ==
    /\ Len(holding) < MaxBulk
    /\ holding' = Append(holding, FALSE)
    /\ Disturbed
    /\ UNCHANGED <<poolPrice, spot>>

PositionCloses(id) ==
    /\ ~holding[id]
    /\ holding' = [holding EXCEPT ![id] = TRUE]
    /\ Disturbed
    /\ UNCHANGED <<poolPrice, spot>>

\* A swap is projected; and its price arrives by the channel and is kept for 5 s.
PriceMoves(p) == poolPrice # p /\ poolPrice' = p /\ UNCHANGED <<holding, spot, bulk>>
SpotKept == spot # poolPrice /\ spot' = poolPrice /\ UNCHANGED <<holding, poolPrice, bulk>>
SpotExpires == spot # NoSpot /\ spot' = NoSpot /\ UNCHANGED <<holding, poolPrice, bulk>>

Matching(status) ==
    {id \in DOMAIN holding : status = "all" \/ holding[id] = (status = "closed")}
Wanted == Matching(bulk.status)

AskBulk(status) ==
    /\ bulk.pc = "none"
    /\ bulk' = [bulk EXCEPT !.pc = "reading", !.status = status, !.began = Matching(status)]
    /\ UNCHANGED <<holding, poolPrice, spot>>

\* groupBy, at its own moment.
CountBulk ==
    /\ bulk.pc = "reading" /\ "count" \in bulk.left
    /\ bulk' = [bulk EXCEPT !.total = Cardinality(Wanted), !.left = @ \ {"count"}]
    /\ UNCHANGED <<holding, poolPrice, spot>>

\* The newest rows with their pool; ids grow. The other end, and the rows taken.
OldestRows(ids) == FirstOf(CHOOSE s \in Ordered(ids, LAMBDA i, j : i < j) : TRUE, BulkCap)
NewestRows(ids) == FirstOf(CHOOSE s \in Ordered(ids, LAMBDA i, j : i > j) : TRUE, BulkCap)

RowsBulk ==
    /\ bulk.pc = "reading" /\ "rows" \in bulk.left
    /\ LET ids == NewestRows(Wanted)
       IN bulk' = [bulk EXCEPT !.left = @ \ {"rows"},
                     !.items = [i \in DOMAIN ids |->
                         [id |-> ids[i], closed |-> holding[ids[i]], pool |-> poolPrice,
                          price |-> NoSpot, range |-> Unread]]]
    /\ UNCHANGED <<holding, poolPrice, spot>>

\* getRangeStatus, on the open interval; and ticks compared as they are.
InRangeClosed(p) == 2 * LowerTick <= p /\ p <= 2 * UpperTick
InRange(p) == 2 * LowerTick < p /\ p < 2 * UpperTick

\* toResponse of one position: the kept price, or the row's.
PriceItem(i) ==
    /\ bulk.pc = "reading" /\ bulk.left = {}
    /\ i \in DOMAIN bulk.items /\ bulk.items[i].range = Unread
    /\ LET p == IF spot # NoSpot THEN spot ELSE bulk.items[i].pool
       IN bulk' = [bulk EXCEPT !.items[i].price = p,
                     !.items[i].range = IF bulk.items[i].closed THEN "none"
                                        ELSE IF InRange(p) THEN "in-range" ELSE "out-of-range"]
    /\ UNCHANGED <<holding, poolPrice, spot>>

AnswerBulk ==
    /\ bulk.pc = "reading" /\ bulk.left = {}
    /\ \A i \in DOMAIN bulk.items : bulk.items[i].range # Unread
    /\ bulk' = [bulk EXCEPT !.pc = "answered"]
    /\ UNCHANGED <<holding, poolPrice, spot>>

BulkFails ==
    /\ bulk.pc = "reading"
    /\ bulk' = [bulk EXCEPT !.pc = "failed"]
    /\ UNCHANGED <<holding, poolPrice, spot>>

BulkNext ==
    \/ PositionOpens \/ SpotKept \/ SpotExpires \/ CountBulk \/ RowsBulk \/ AnswerBulk \/ BulkFails
    \/ \E id \in DOMAIN holding : PositionCloses(id)
    \/ \E p \in HalfTicks : PriceMoves(p)
    \/ \E status \in {"active", "closed", "all"} : AskBulk(status)
    \/ \E i \in 1..BulkCap : PriceItem(i)

\* An answer's positions are the newest that match its filter, each once, and as
\* many as its total says, unless a position changed meanwhile or there are more
\* than the cap (positions.repository.ts:202-253); only an open one has a range
\* status, and "in-range" is what the contract counts at the price shown, but for
\* the lower bound itself (positions.service.ts:149-210).
BulkTrue ==
    bulk.pc = "answered" =>
        /\ \A i, j \in DOMAIN bulk.items : i < j => bulk.items[i].id > bulk.items[j].id
        /\ bulk.still =>
              LET ids == {bulk.items[i].id : i \in DOMAIN bulk.items}
              IN /\ ids \subseteq bulk.began /\ bulk.total = Cardinality(bulk.began)
                 /\ \A left \in bulk.began \ ids :
                       Cardinality(ids) = BulkCap /\ \A id \in ids : left < id
        /\ \A i \in DOMAIN bulk.items :
              LET it == bulk.items[i]
                  counted == LowerTick <= it.price \div 2 /\ it.price \div 2 < UpperTick
              IN /\ bulk.status # "all" => it.closed = (bulk.status = "closed")
                 /\ it.closed <=> it.range = "none"
                 /\ ~it.closed => /\ it.range = "in-range" => counted
                                  /\ counted /\ it.range # "in-range" => it.price = 2 * LowerTick

-----------------------------------------------------------------------------
(* GET /balances *)

VARIABLES chain,   \* the wallet's balance of each token, in base units
          reading  \* the request

balanceVars == <<chain, reading>>

\* fromBaseUnits with one decimal to base 2: the whole and the fraction.
Decimal(raw) == [whole |-> raw \div 2, frac |-> raw % 2]
BaseUnits(d) == d.whole * 2 + d.frac

\* `seen` is kept for the property: the balances there were during the request.
BalancesInit ==
    /\ chain = [t \in TokenRows |-> 0]
    /\ reading = [pc |-> "none", todo |-> {}, got |-> <<>>, refused |-> {},
                  seen |-> [t \in TokenRows |-> {}]]

BalanceChanges(t, v) ==
    /\ chain[t] # v
    /\ chain' = [chain EXCEPT ![t] = v]
    /\ reading' = IF reading.pc = "calling" THEN [reading EXCEPT !.seen[t] = @ \cup {v}] ELSE reading

AskBalances ==
    /\ reading.pc = "none"
    /\ reading' = [reading EXCEPT !.pc = "calling", !.todo = TokenRows,
                                  !.seen = [t \in TokenRows |-> {chain[t]}]]
    /\ UNCHANGED chain

Got(t, v) == [x \in DOMAIN reading.got \cup {t} |-> IF x = t THEN v ELSE reading.got[x]]

\* A simulation that gives no value, reported as nothing held; and left out.
OmittedAsZero(t) == Got(t, Decimal(0))
Omitted(t) == reading.got

\* The next token of the loop: its balance, or a simulation that gives none.
CallBalance(t) ==
    /\ reading.pc = "calling" /\ t \in reading.todo
    /\ \/ reading' = [reading EXCEPT !.todo = @ \ {t}, !.got = Got(t, Decimal(chain[t]))]
       \/ reading' = [reading EXCEPT !.todo = @ \ {t}, !.got = Omitted(t),
                                     !.refused = @ \cup {t}]
    /\ UNCHANGED chain

AnswerBalances ==
    /\ reading.pc = "calling" /\ reading.todo = {}
    /\ reading' = [reading EXCEPT !.pc = "answered"]
    /\ UNCHANGED chain

\* The RPC is out of reach: 503, and nothing of what was read.
BalancesFail ==
    /\ reading.pc = "calling" /\ reading.todo # {}
    /\ reading' = [reading EXCEPT !.pc = "failed", !.got = <<>>]
    /\ UNCHANGED chain

BalancesNext ==
    \/ AskBalances \/ AnswerBalances \/ BalancesFail
    \/ \E t \in TokenRows : CallBalance(t) \/ \E v \in 0..MaxBalance : BalanceChanges(t, v)

\* Each balance of an answer is one the wallet had during the request, to the last
\* unit; a token is missing only if its contract gave no value, and an outage gives
\* no map at all (balances.service.ts:291-346).
BalancesReal ==
    /\ reading.pc = "answered" =>
          /\ DOMAIN reading.got = TokenRows \ reading.refused
          /\ \A t \in DOMAIN reading.got : BaseUnits(reading.got[t]) \in reading.seen[t]
    /\ reading.pc = "failed" => DOMAIN reading.got = {}

-----------------------------------------------------------------------------
(* GET /pools *)

VARIABLES pools,    \* rows: TVL, and whether the pool is active
          edition,  \* history: changes of the rows
          listCache, \* pools:list:v1:... of each page: none, or the list and its edition
          copy,     \* what the client holds of each page, with its tag
          listing,  \* the request under way
          gets

listVars == <<pools, edition, listCache, copy, listing, gets>>

NoList == [items |-> <<>>, total |-> -1, edition |-> 0]
NoCopy == [list |-> NoList, tag |-> <<>>]

\* The tag of a body, and one of its totals only. The hash has no collision.
TagOfTotals(list) == <<list.total>>
Tag(list) == <<list.items, list.total>>

ListInit ==
    /\ pools = [p \in Listed |-> [tvl |-> 0, active |-> TRUE]]
    /\ edition = 0
    /\ listCache = [n \in 1..2 |-> NoList]
    /\ copy = [n \in 1..2 |-> NoCopy]
    /\ listing = [pc |-> "none", page |-> 1, list |-> NoList, status |-> 0]
    /\ gets = 0

PoolChanges(p, row) ==
    /\ edition < MaxListEdits /\ row # pools[p]
    /\ pools' = [pools EXCEPT ![p] = row]
    /\ edition' = edition + 1
    /\ UNCHANGED <<listCache, copy, listing, gets>>

ListExpires(page) ==
    /\ listCache[page] # NoList
    /\ listCache' = [listCache EXCEPT ![page] = NoList]
    /\ UNCHANGED <<pools, edition, copy, listing, gets>>

\* The cache answers, or the database is asked. A client with a copy sends its tag.
GetPools(page) ==
    /\ listing.pc \in {"none", "answered"} /\ gets < MaxListGets
    /\ gets' = gets + 1
    /\ listing' = [pc |-> IF listCache[page] = NoList THEN "miss" ELSE "tag", page |-> page,
                   list |-> listCache[page], status |-> 0]
    /\ UNCHANGED <<pools, edition, listCache, copy>>

\* The largest TVL first, as the database happens to return equals; and by id.
LargerTvl(p, q) == pools[p].tvl > pools[q].tvl
Ahead(p, q) == pools[p].tvl > pools[q].tvl \/ (pools[p].tvl = pools[q].tvl /\ p < q)

\* listActivePools and the answer it becomes.
ListActivePools ==
    /\ listing.pc = "miss"
    /\ LET active == {p \in Listed : pools[p].active}
       IN \E sorted \in Ordered(active, Ahead) :
             LET page == Slice(sorted, listing.page, ListLimit)
             IN listing' = [listing EXCEPT !.pc = "store",
                    !.list = [items |-> [i \in DOMAIN page |-> [id |-> page[i], tvl |-> pools[page[i]].tvl]],
                              total |-> Cardinality(active), edition |-> edition]]
    /\ UNCHANGED <<pools, edition, listCache, copy, gets>>

\* CacheService.set, whose failure is swallowed.
StoreList ==
    /\ listing.pc = "store"
    /\ listCache' \in {listCache, [listCache EXCEPT ![listing.page] = listing.list]}
    /\ listing' = [listing EXCEPT !.pc = "tag"]
    /\ UNCHANGED <<pools, edition, copy, gets>>

\* 304 for the tag of the body; else the body with its tag, which the client keeps.
AnswerList ==
    /\ listing.pc = "tag"
    /\ LET tag == Tag(listing.list)
           same == copy[listing.page].tag = tag
       IN /\ copy' = IF same THEN copy
                     ELSE [copy EXCEPT ![listing.page] = [list |-> listing.list, tag |-> tag]]
          /\ listing' = [listing EXCEPT !.pc = "answered", !.status = IF same THEN 304 ELSE 200]
    /\ UNCHANGED <<pools, edition, listCache, gets>>

ListNext ==
    \/ ListActivePools \/ StoreList \/ AnswerList
    \/ \E page \in 1..2 : ListExpires(page) \/ GetPools(page)
    \/ \E p \in Listed, tvl \in 0..MaxTvl, active \in BOOLEAN :
          PoolChanges(p, [tvl |-> tvl, active |-> active])

ItemIds(list) == {list.items[i].id : i \in DOMAIN list.items}

\* After every answer the client's copy is the list the API had, a 304 as well; and
\* two pages of one edition share no pool and miss none between them, although
\* they were sorted apart and rows with the same TVL come in any order
\* (pools.controller.ts:197-226, pools.repository.ts:282-319).
ListTrue ==
    /\ listing.pc = "answered" =>
          /\ copy[listing.page].list.items = listing.list.items
          /\ copy[listing.page].list.total = listing.list.total
    /\ LET one == copy[1].list two == copy[2].list
       IN one.total >= 0 /\ two.total >= 0 /\ one.edition = two.edition =>
             /\ ItemIds(one) \cap ItemIds(two) = {}
             /\ Cardinality(ItemIds(one) \cup ItemIds(two)) =
                   (IF one.total < 2 * ListLimit THEN one.total ELSE 2 * ListLimit)

-----------------------------------------------------------------------------
ReadsInit == FeedInit /\ BulkInit /\ BalancesInit /\ ListInit
readVars == <<feedVars, bulkVars, balanceVars, listVars>>

ReadsTypeOK ==
    /\ \A r \in activity : r.table \in 1..3 /\ r.id \in 1..MaxActivity
    /\ feed.pc \in {"none", "reading", "answered", "failed"}
    /\ Range(holding) \subseteq BOOLEAN
    /\ poolPrice \in HalfTicks /\ spot \in HalfTicks \cup {NoSpot}
    /\ bulk.pc \in {"none", "reading", "answered", "failed"}
    /\ chain \in [TokenRows -> 0..MaxBalance]
    /\ reading.todo \subseteq TokenRows
    /\ pools \in [Listed -> [tvl : 0..MaxTvl, active : BOOLEAN]]
    /\ listing.status \in {0, 200, 304}
=============================================================================
