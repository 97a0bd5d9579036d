--------------------------- MODULE TokenEnrichment ---------------------------
(* The metadata of tokens (apps/api/src/tokens/token-enrichment.service.ts). *)
(* A pass reads a token's row while it asks the chain, then upserts what it  *)
(* has found; passes are started by the indexer for a token it discovers and *)
(* weekly for every row, by each replica, and nothing keeps two apart. The   *)
(* symbol stands for the four fields, which fall back in the same way.       *)
EXTENDS Naturals, Sequences, SequencesExt

CONSTANTS Assets,     \* contract addresses
          Passes,     \* passes, each run once
          MaxOutages  \* bound: passes of a token that end in an error

ASSUME EnrichAssumption == MaxOutages \in Nat

Unstored == "no row"
Unknown == "UNKNOWN"
Prefix == "of its address"
Nothing == "nothing"
Found == {"of the chain", "of the list"}

VARIABLES symbol,     \* the row of each token
          pass,       \* per pass: the tokens ahead, the token list, what it has read
          outages,
          enriched,   \* tokens some pass has found metadata of
          overtaken   \* tokens a pass wrote after another wrote what it had read

enrichVars == <<symbol, pass, outages, enriched, overtaken>>

Awaiting == [todo |-> <<>>, listed |-> {}, read |-> Nothing, alone |-> TRUE, ran |-> FALSE]

EnrichInit ==
    /\ symbol = [a \in Assets |-> Unstored]
    /\ pass = [p \in Passes |-> Awaiting]
    /\ outages = 0
    /\ enriched = {}
    /\ overtaken = {}

\* The indexer's upsert of a token it has not seen, with an empty update:
\* its symbol is the beginning of its address.
Discover(a) ==
    /\ symbol[a] = Unstored
    /\ symbol' = [symbol EXCEPT ![a] = Prefix]
    /\ UNCHANGED <<pass, outages, enriched, overtaken>>

Started(p, tokens, listed) ==
    /\ ~pass[p].ran
    /\ pass' = [pass EXCEPT ![p] = [Awaiting EXCEPT !.todo = tokens, !.listed = listed, !.ran = TRUE]]
    /\ UNCHANGED <<symbol, outages, enriched, overtaken>>

\* enrichToken, called by the indexer after its upsert, up to the list.
EnrichToken(p) ==
    \E a \in Assets, listed \in SUBSET Assets :
        symbol[a] # Unstored /\ Started(p, <<a>>, listed)

\* enrichAll: the addresses, then the list, which no token of the pass reads again.
EnrichAll(p) ==
    LET known == {a \in Assets : symbol[a] # Unstored}
    IN /\ known # {}
       /\ \E order \in SetToSeqs(known), listed \in SUBSET Assets : Started(p, order, listed)

\* upsertToken asks the chain and reads the row.
ReadRow(p) ==
    /\ pass[p].todo # <<>> /\ pass[p].read = Nothing
    /\ pass' = [pass EXCEPT ![p].read = symbol[Head(pass[p].todo)], ![p].alone = TRUE]
    /\ UNCHANGED <<symbol, outages, enriched, overtaken>>

\* The value upserted without what is stored.
ForgetsStored(onChain, listed, existing) ==
    IF onChain # Nothing THEN onChain ELSE IF listed # Nothing THEN listed ELSE Unknown

\* onChain.symbol ?? listed?.symbol ?? existing?.symbol ?? 'UNKNOWN'
Chosen(onChain, listed, existing) ==
    IF onChain # Nothing THEN onChain
    ELSE IF listed # Nothing THEN listed
    ELSE IF existing # Unstored THEN existing ELSE Unknown

Onwards(q) == [q EXCEPT !.todo = Tail(@), !.read = Nothing]

\* The chain answers, or not, and the row is upserted.
UpsertToken(p) ==
    /\ pass[p].read # Nothing
    /\ LET a == Head(pass[p].todo)
           listed == IF a \in pass[p].listed THEN "of the list" ELSE Nothing
       IN /\ \E onChain \in {Nothing, "of the chain"} :
                symbol' = [symbol EXCEPT ![a] = Chosen(onChain, listed, pass[p].read)]
          /\ pass' = [q \in Passes |->
                         IF q = p THEN Onwards(pass[p])
                         ELSE IF pass[q].read # Nothing /\ Head(pass[q].todo) = a
                              THEN [pass[q] EXCEPT !.alone = FALSE] ELSE pass[q]]
          /\ enriched' = IF symbol'[a] \in Found THEN enriched \cup {a} ELSE enriched
          /\ overtaken' = IF pass[p].alone THEN overtaken ELSE overtaken \cup {a}
    /\ UNCHANGED outages

\* The database fails: the token is given up, the pass goes on.
UpsertFails(p) ==
    /\ pass[p].read # Nothing
    /\ outages < MaxOutages
    /\ outages' = outages + 1
    /\ pass' = [pass EXCEPT ![p] = Onwards(pass[p])]
    /\ UNCHANGED <<symbol, enriched, overtaken>>

EnrichNext ==
    \/ \E a \in Assets : Discover(a)
    \/ \E p \in Passes : \/ EnrichToken(p) \/ EnrichAll(p) \/ ReadRow(p)
                         \/ UpsertToken(p) \/ UpsertFails(p)

-----------------------------------------------------------------------------
EnrichTypeOK ==
    /\ symbol \in [Assets -> {Unstored, Unknown, Prefix} \cup Found]
    /\ pass \in [Passes -> [todo : Seq(Assets), listed : SUBSET Assets, alone : BOOLEAN,
                            read : {Nothing, Unstored, Unknown, Prefix} \cup Found, ran : BOOLEAN]]
    /\ outages \in 0..MaxOutages
    /\ enriched \subseteq Assets /\ overtaken \subseteq Assets

\* A token that has once got real metadata never falls back to a placeholder,
\* whichever of the chain, the list and the database fail the passes after it,
\* unless a pass wrote over what another wrote since its own read
\* (token-enrichment.service.ts:70-79; two that overlap do lose it).
EnrichmentKeeps == \A a \in enriched \ overtaken : symbol[a] \in Found
=============================================================================
