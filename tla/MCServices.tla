----------------------------- MODULE MCServices -----------------------------
(* The services of the API beside the indexer, and the pieces of the web     *)
(* application with asynchronous state. Each keeps its state under keys, in  *)
(* tables or in a page of its own and none calls another, so an interleaving *)
(* of them would only multiply their states: a behaviour runs one of them,   *)
(* its `focus`. The three uses of the cache share no key either.             *)
EXTENDS WalletAuth, RateLimit, PriceStream, Candles, AdminGate, SwapQuote, TxStatus,
        ResponseCompression, PagedReads, TokenEnrichment, CachedReads, DirectIngest,
        IndexerCursor, CandleChart, AccountReads

VARIABLE focus

serviceVars == <<authVars, rateVars, streamVars, candleVars, gateVars, quoteVars,
                 txVars, compressionVars, portfolioVars, walkVars, enrichVars, cacheVars, ingestVars,
                 guardVars, cursorVars, chartVars, readVars, focus>>

ServicesInit ==
    /\ focus \in {"auth", "rate", "stream", "candles", "gate", "quote", "tx",
                "compression", "portfolio", "walk", "enrich", "detail", "fetch", "take",
                "ingest", "guard", "cursor", "chart", "feed", "bulk", "balances", "list"}
    /\ AuthInit /\ StreamInit /\ CandlesInit /\ GateInit /\ QuoteInit /\ TxInit
    /\ EnrichInit /\ IngestInit
    \* Who is not in focus starts in one state.
    /\ RateInit /\ (focus # "rate" => connected /\ production)
    /\ CompressionInit /\ (focus # "compression" =>
          exempt /\ ~transformable /\ \A name \in DOMAIN accepts : accepts[name] = Absent)
    /\ PagedInit /\ (focus # "walk" => walk.kind = "volume")
    /\ CacheInit /\ (focus # "detail" => record = 1)
    /\ GuardInit /\ (focus # "guard" => policy.enabled /\ policy.mainnet /\ policy.mainnetEnabled)
    /\ CursorInit /\ (focus # "cursor" => dbLedger = NoLedger)
    /\ ChartInit /\ (focus # "chart" => stamped)
    /\ ReadsInit /\ (focus # "bulk" => poolPrice = CHOOSE p \in HalfTicks : TRUE)

\* A step of the service in focus leaves every other as it is.
Alone(service) ==
    /\ focus = service /\ UNCHANGED focus
    /\ IF service = "auth" THEN TRUE ELSE UNCHANGED authVars
    /\ IF service = "rate" THEN TRUE ELSE UNCHANGED rateVars
    /\ IF service = "stream" THEN TRUE ELSE UNCHANGED streamVars
    /\ IF service = "candles" THEN TRUE ELSE UNCHANGED candleVars
    /\ IF service = "gate" THEN TRUE ELSE UNCHANGED gateVars
    /\ IF service = "quote" THEN TRUE ELSE UNCHANGED quoteVars
    /\ IF service = "tx" THEN TRUE ELSE UNCHANGED txVars
    /\ IF service = "compression" THEN TRUE ELSE UNCHANGED compressionVars
    /\ IF service = "portfolio" THEN TRUE ELSE UNCHANGED portfolioVars
    /\ IF service = "walk" THEN TRUE ELSE UNCHANGED walkVars
    /\ IF service = "enrich" THEN TRUE ELSE UNCHANGED enrichVars
    /\ IF service \in {"detail", "fetch", "take"} THEN TRUE ELSE UNCHANGED cacheVars
    /\ IF service = "ingest" THEN TRUE ELSE UNCHANGED ingestVars
    /\ IF service = "guard" THEN TRUE ELSE UNCHANGED guardVars
    /\ IF service = "cursor" THEN TRUE ELSE UNCHANGED cursorVars
    /\ IF service = "chart" THEN TRUE ELSE UNCHANGED chartVars
    /\ IF service = "feed" THEN TRUE ELSE UNCHANGED feedVars
    /\ IF service = "bulk" THEN TRUE ELSE UNCHANGED bulkVars
    /\ IF service = "balances" THEN TRUE ELSE UNCHANGED balanceVars
    /\ IF service = "list" THEN TRUE ELSE UNCHANGED listVars

ServicesNext ==
    \/ Alone("auth") /\ AuthNext
    \/ Alone("rate") /\ RateNext
    \/ Alone("stream") /\ StreamNext
    \/ Alone("candles") /\ CandlesNext
    \/ Alone("gate") /\ GateNext
    \/ Alone("quote") /\ QuoteNext
    \/ Alone("tx") /\ TxNext
    \/ Alone("compression") /\ CompressionNext
    \/ Alone("portfolio") /\ PortfolioNext
    \/ Alone("walk") /\ WalkNext
    \/ Alone("enrich") /\ EnrichNext
    \/ Alone("detail") /\ DetailNext
    \/ Alone("fetch") /\ FetchNext
    \/ Alone("take") /\ TakeNext
    \/ Alone("ingest") /\ IngestNext
    \/ Alone("guard") /\ GuardNext
    \/ Alone("cursor") /\ CursorNext
    \/ Alone("chart") /\ ChartNext
    \/ Alone("feed") /\ FeedNext
    \/ Alone("bulk") /\ BulkNext
    \/ Alone("balances") /\ BalancesNext
    \/ Alone("list") /\ ListNext

ServicesSpec == ServicesInit /\ [][ServicesNext]_serviceVars

\* The state of the service in focus, the only one that moves, has the types of
\* its keys, rows and maps.
ServicesTypeOK ==
    /\ focus = "auth" => AuthTypeOK
    /\ focus = "rate" => RateTypeOK
    /\ focus = "stream" => StreamTypeOK
    /\ focus = "candles" => CandlesTypeOK
    /\ focus = "gate" => GateTypeOK
    /\ focus = "quote" => QuoteTypeOK
    /\ focus = "tx" => TxTypeOK
    /\ focus = "compression" => CompressionTypeOK
    /\ focus \in {"portfolio", "walk"} => PagedTypeOK
    /\ focus = "enrich" => EnrichTypeOK
    /\ focus \in {"detail", "fetch", "take"} => CacheTypeOK
    /\ focus = "ingest" => IngestTypeOK
    /\ focus = "guard" => GuardTypeOK
    /\ focus = "cursor" => CursorTypeOK
    /\ focus = "chart" => ChartTypeOK
    /\ focus \in {"feed", "bulk", "balances", "list"} => ReadsTypeOK

\* What a reader gets is complete and current: page by page of a table that grows
\* (PagesComplete), through the cache and its locks (CacheKeeps), on the chart
\* (ChartHolds), in the bytes of a compressed response (ResponseWhole), and put
\* together from several reads (FeedExact, BulkTrue, BalancesReal, ListTrue).
ReadsHold ==
    /\ focus \in {"portfolio", "walk"} => PagesComplete
    /\ focus \in {"detail", "fetch", "take"} => CacheKeeps
    /\ focus = "chart" => ChartHolds
    /\ focus = "compression" => ResponseWhole
    /\ focus = "feed" => FeedExact
    /\ focus = "bulk" => BulkTrue
    /\ focus = "balances" => BalancesReal
    /\ focus = "list" => ListTrue

\* What stands before the operators' endpoints: a retired key opens none of them
\* (RotatedKeysRetire), and a replay is admitted only within its window
\* (WindowHonoured).
OperatorsHeld ==
    /\ focus = "gate" => RotatedKeysRetire
    /\ focus = "guard" => WindowHonoured

\* Rows that overlapping passes and deliveries write are neither lost nor written
\* again: tokens' metadata (EnrichmentKeeps), events (IngestedOnce).
RowsKept ==
    /\ focus = "enrich" => EnrichmentKeeps
    /\ focus = "ingest" => IngestedOnce

\* Prices are what was traded: the stream forwards what its watchers asked for
\* (StreamSettles), and a candle is what its swaps make it (CandlesExact).
PricesTrue ==
    /\ focus = "stream" => StreamSettles
    /\ focus = "candles" => CandlesExact

\* A form shows the answer to its own question (QuoteSettles), and the indicator
\* the transactions that are under way (IndicatorTrue).
TradeShown ==
    /\ focus = "quote" => QuoteSettles
    /\ focus = "tx" => IndicatorTrue

MCLimit == [u \in Rules |-> IF u = "global" THEN 2 ELSE 1]
MCMaxSubs == [c \in Watchers |-> 2]
MCPools == {{"xlm", "usdc"}, {"xlm", "aqua"}}

=============================================================================
