---------------------------- MODULE ContractProofs ----------------------------
(* What is true of the contracts for any owners, tokens, ticks, prices and   *)
(* amounts: the factory's registry, the fee collector's books, the positions *)
(* of the pool and their NFTs, the oracle adapter's ring, and the arithmetic *)
(* of them all. The contracts share no storage, so each has an invariant of  *)
(* its own.                                                                  *)
EXTENDS MCContracts, FiniteSetTheorems,
        WellFoundedInduction, TLAPS

-----------------------------------------------------------------------------
(* One pool for two tokens and a tier, for any tokens, tiers, owners and     *)
(* codes. What makes it inductive is the order of the tokens in every key.   *)

\* Keys hold two tokens in order, and every key's pool is deployed.
KeysSorted ==
    /\ pools \subseteq [token_a : FactoryTokens, token_b : FactoryTokens, fee_tier : FeeTiers]
    /\ \A p \in pools : p.token_a < p.token_b
    /\ DOMAIN deployed = pools

\* What normalize_pair returns: the two addresses, the smaller first.
LEMMA PairSorted ==
    ASSUME NEW a \in FactoryTokens, NEW b \in FactoryTokens, a # b
    PROVE  /\ NormalizePair(a, b)[1] < NormalizePair(a, b)[2]
           /\ NormalizePair(a, b)[1] \in FactoryTokens /\ NormalizePair(a, b)[2] \in FactoryTokens
           /\ NormalizePair(a, b) = NormalizePair(b, a)
           /\ a < b => NormalizePair(a, b) = <<a, b>>
  <1>1. a \in Nat /\ b \in Nat
    BY FactoryAssumption
  <1> QED BY <1>1 DEF NormalizePair

\* create_pool registers a sorted key; nothing else touches the registry.
LEMMA KeysStaySorted == KeysSorted /\ [FactoryNext]_factoryVars => KeysSorted'
  <1> SUFFICES ASSUME KeysSorted, [FactoryNext]_factoryVars PROVE KeysSorted'
    OBVIOUS
  <1>1. ASSUME NEW a \in FactoryTokens, NEW b \in FactoryTokens,
               NEW f \in FeeTiers \cup {Unsupported}, CreatePool(a, b, f)
        PROVE  KeysSorted'
    <2> DEFINE pair == NormalizePair(a, b)
               key == [token_a |-> pair[1], token_b |-> pair[2], fee_tier |-> f]
    <2>1. /\ f \in FeeTiers /\ a # b
          /\ pools' = pools \cup {key}
          /\ DOMAIN deployed' = DOMAIN deployed \cup {key}
      BY <1>1 DEF CreatePool
    <2>2. /\ key \in [token_a : FactoryTokens, token_b : FactoryTokens, fee_tier : FeeTiers]
          /\ key.token_a < key.token_b
      BY <2>1, PairSorted
    <2> HIDE DEF key
    <2> QED BY <2>1, <2>2 DEF KeysSorted
  <1>2. ASSUME NEW c \in Accounts, NEW h \in Hashes, SetPoolWasmHash(c, h) PROVE KeysSorted'
    BY <1>2 DEF SetPoolWasmHash, KeysSorted
  <1>3. ASSUME NEW c \in Accounts, NEW o \in Accounts, SetOwner(c, o) PROVE KeysSorted'
    BY <1>3 DEF SetOwner, KeysSorted
  <1>4. CASE UNCHANGED factoryVars
    BY <1>4 DEF factoryVars, KeysSorted
  <1> QED BY <1>1, <1>2, <1>3, <1>4 DEF FactoryNext

\* A set of two different tokens has two elements.
LEMMA TwoTokens == ASSUME NEW a, NEW b, a # b PROVE Cardinality({a, b}) = 2
  <1>1. IsFiniteSet({a}) /\ Cardinality({a}) = 1
    BY FS_Singleton
  <1>2. {a, b} = {a} \cup {b} /\ b \notin {a}
    OBVIOUS
  <1>3. Cardinality({a} \cup {b}) = Cardinality({a}) + 1
    BY <1>1, <1>2, FS_AddElement
  <1> QED BY <1>1, <1>2, <1>3

\* With sorted keys a pair names one key, in either order.
LEMMA SortedKeysUnique == KeysSorted => OnePoolPerPair
  <1> SUFFICES ASSUME KeysSorted PROVE OnePoolPerPair
    OBVIOUS
  <1>1. ASSUME NEW p \in pools
        PROVE  /\ p.token_a \in FactoryTokens /\ p.token_b \in FactoryTokens
               /\ p.token_a \in Nat /\ p.token_b \in Nat /\ p.token_a < p.token_b
               /\ p = [token_a |-> p.token_a, token_b |-> p.token_b, fee_tier |-> p.fee_tier]
    <2>1. p \in [token_a : FactoryTokens, token_b : FactoryTokens, fee_tier : FeeTiers]
      BY DEF KeysSorted
    <2>2. p.token_a < p.token_b
      BY DEF KeysSorted
    <2> QED BY <2>1, <2>2, FactoryAssumption
  <1>2. ASSUME NEW p \in pools, NEW q \in pools,
               {p.token_a, p.token_b} = {q.token_a, q.token_b}, p.fee_tier = q.fee_tier
        PROVE  p = q
    <2>1. p.token_a = q.token_a /\ p.token_b = q.token_b
      <3>1. \/ p.token_a = q.token_a /\ p.token_b = q.token_b
            \/ p.token_a = q.token_b /\ p.token_b = q.token_a
        BY <1>2
      <3>2. p.token_a < p.token_b /\ q.token_a < q.token_b
        BY <1>1
      <3>3. p.token_a \in Nat /\ p.token_b \in Nat /\ q.token_a \in Nat /\ q.token_b \in Nat
        BY <1>1
      <3> QED BY <3>1, <3>2, <3>3
    <2>2. /\ p = [token_a |-> p.token_a, token_b |-> p.token_b, fee_tier |-> p.fee_tier]
          /\ q = [token_a |-> q.token_a, token_b |-> q.token_b, fee_tier |-> q.fee_tier]
      BY <1>1
    <2> QED BY <1>2, <2>1, <2>2
  <1>3. ASSUME NEW p \in pools
        PROVE  /\ Cardinality({p.token_a, p.token_b}) = 2
               /\ GetPool(p.token_a, p.token_b, p.fee_tier) = {p}
               /\ GetPool(p.token_b, p.token_a, p.fee_tier) = {p}
    <2>1. p.token_a # p.token_b /\ p.token_a \in FactoryTokens /\ p.token_b \in FactoryTokens
      BY <1>1
    <2>2. Cardinality({p.token_a, p.token_b}) = 2
      BY <2>1, TwoTokens
    <2>3. /\ NormalizePair(p.token_a, p.token_b) = <<p.token_a, p.token_b>>
          /\ NormalizePair(p.token_b, p.token_a) = <<p.token_a, p.token_b>>
      BY <1>1, <2>1, PairSorted
    <2>4. p = [token_a |-> p.token_a, token_b |-> p.token_b, fee_tier |-> p.fee_tier]
      BY <1>1
    <2> QED BY <2>2, <2>3, <2>4 DEF GetPool
  <1>4. DOMAIN deployed = pools
    BY DEF KeysSorted
  <1> QED BY <1>2, <1>3, <1>4 DEF OnePoolPerPair

\* Two tokens and a tier have at most one pool whatever calls are made in which
\* order, and get_pool finds it for both orders of the tokens (create_pool).
THEOREM OnePoolPerPairCorrect == FactorySpec => []OnePoolPerPair
  <1>1. FactoryInit => KeysSorted
    BY DEF FactoryInit, KeysSorted
  <1> QED BY <1>1, KeysStaySorted, SortedKeysUnique, PTL DEF FactorySpec

-----------------------------------------------------------------------------
(* What is true of the fee collector for any pools, tokens and amounts. The  *)
(* types and the cover of the books are inductive together: a withdrawal     *)
(* needs a book that is a number the collector has.                          *)

FeeInv == FeeTypeOK /\ BooksCovered

\* A transfer of at most what the sender has keeps every balance a number
\* (fee-collector/src/lib.rs: the token contract's transfer).
LEMMA MovedBalances ==
    ASSUME FeeTypeOK, NEW from \in Holders, NEW to \in Holders, NEW t \in FeeTokens,
           NEW amount \in Nat, amount <= wallet[from][t]
    PROVE  /\ Moved(from, to, t, amount) \in [Holders -> [FeeTokens -> Nat]]
           /\ \A h \in Holders, u \in FeeTokens :
                 Moved(from, to, t, amount)[h][u] =
                    IF from = to \/ u # t \/ h \notin {from, to} THEN wallet[h][u]
                    ELSE IF h = from THEN wallet[h][u] - amount ELSE wallet[h][u] + amount
  <1>1. CASE from = to
    BY <1>1 DEF Moved, FeeTypeOK
  <1>2. CASE from # to
    <2>1. wallet \in [Holders -> [FeeTokens -> Nat]]
      BY DEF FeeTypeOK
    <2>2. wallet[from][t] \in Nat /\ wallet[to][t] \in Nat /\ wallet[from][t] - amount \in Nat
      BY <2>1
    <2> DEFINE paid == [wallet EXCEPT ![from][t] = @ - amount]
    <2>3. /\ paid \in [Holders -> [FeeTokens -> Nat]]
          /\ \A h \in Holders, u \in FeeTokens :
                paid[h][u] = IF h = from /\ u = t THEN wallet[h][u] - amount ELSE wallet[h][u]
      BY <2>1, <2>2
    <2>4. Moved(from, to, t, amount) = [paid EXCEPT ![to][t] = @ + amount]
      BY <1>2 DEF Moved
    <2> HIDE DEF paid
    <2>5. paid[to][t] + amount \in Nat
      BY <2>3
    <2> QED BY <1>2, <2>3, <2>4, <2>5
  <1> QED BY <1>1, <1>2

\* Each call, and a transfer to the collector that is none, keeps the types and
\* the cover of the books.
THEOREM FeeInductive == FeeInv /\ [FeeNext]_feeVars => FeeInv'
  <1> SUFFICES ASSUME FeeInv, [FeeNext]_feeVars PROVE FeeInv'
    OBVIOUS
  <1> USE FeeAssumption
  <1>1. FeeTypeOK /\ BooksCovered
    BY DEF FeeInv
  <1>2. Collector \in Holders /\ FeePools \subseteq Holders
    BY DEF Holders
  <1>3. CASE SetFeeSwitch
    BY <1>1, <1>3 DEF SetFeeSwitch, FeeInv, FeeTypeOK, BooksCovered
  <1>4. ASSUME NEW p \in FeePools, SetAuthorizedPool(p) PROVE FeeInv'
    BY <1>1, <1>4 DEF SetAuthorizedPool, FeeInv, FeeTypeOK, BooksCovered
  <1>5. ASSUME NEW t \in FeeTokens, NEW p \in FeePools, NEW n \in 1..MaxFee,
               DepositProtocolFees(t, p, n)
        PROVE  FeeInv'
    <2>1. n \in Nat /\ n <= wallet[p][t] /\ p # Collector /\ p \in Holders
      BY <1>2, <1>5 DEF DepositProtocolFees
    <2>2. /\ wallet' \in [Holders -> [FeeTokens -> Nat]]
          /\ wallet'[Collector][t] = wallet[Collector][t] + n
          /\ \A u \in FeeTokens : u # t => wallet'[Collector][u] = wallet[Collector][u]
      BY <1>1, <1>2, <1>5, <2>1, MovedBalances DEF DepositProtocolFees
    <2>3. /\ book' \in [FeeTokens -> Nat] /\ book'[t] = book[t] + n
          /\ \A u \in FeeTokens : u # t => book'[u] = book[u]
      BY <1>1, <1>5, <2>1 DEF DepositProtocolFees, FeeTypeOK
    <2>4. BooksCovered'
      <3> SUFFICES ASSUME NEW u \in FeeTokens PROVE book'[u] <= wallet'[Collector][u]
        BY DEF BooksCovered
      <3>1. book[u] \in Nat /\ wallet[Collector][u] \in Nat /\ book[u] <= wallet[Collector][u]
        BY <1>1, <1>2 DEF FeeTypeOK, BooksCovered
      <3> QED BY <2>1, <2>2, <2>3, <3>1
    <2> QED BY <1>1, <1>5, <2>2, <2>3, <2>4 DEF FeeInv, FeeTypeOK, DepositProtocolFees
  <1>6. ASSUME NEW t \in FeeTokens, NEW p \in FeePools, NEW n \in 1..MaxFee, Donate(t, p, n)
        PROVE  FeeInv'
    <2>1. n \in Nat /\ n <= wallet[p][t] /\ p # Collector /\ p \in Holders
      BY <1>2, <1>6 DEF Donate
    <2>2. /\ wallet' \in [Holders -> [FeeTokens -> Nat]]
          /\ wallet'[Collector][t] = wallet[Collector][t] + n
          /\ \A u \in FeeTokens : u # t => wallet'[Collector][u] = wallet[Collector][u]
      BY <1>1, <1>2, <1>6, <2>1, MovedBalances DEF Donate
    <2>3. book' = book /\ feeOn' = feeOn /\ authorized' = authorized
      BY <1>6 DEF Donate
    <2>4. BooksCovered'
      <3> SUFFICES ASSUME NEW u \in FeeTokens PROVE book'[u] <= wallet'[Collector][u]
        BY DEF BooksCovered
      <3>1. book[u] \in Nat /\ wallet[Collector][u] \in Nat /\ book[u] <= wallet[Collector][u]
        BY <1>1, <1>2 DEF FeeTypeOK, BooksCovered
      <3> QED BY <2>1, <2>2, <2>3, <3>1
    <2> QED BY <1>1, <2>2, <2>3, <2>4 DEF FeeInv, FeeTypeOK
  <1>7. ASSUME NEW t \in FeeTokens, NEW to \in Holders, CollectProtocolFees(t, to)
        PROVE  FeeInv'
    <2>1. book[t] \in Nat /\ book[t] <= wallet[Collector][t]
      BY <1>1, <1>7 DEF CollectProtocolFees, FeeTypeOK
    <2>2. /\ wallet' \in [Holders -> [FeeTokens -> Nat]]
          /\ \A u \in FeeTokens : u # t => wallet'[Collector][u] = wallet[Collector][u]
      BY <1>1, <1>2, <1>7, <2>1, MovedBalances DEF CollectProtocolFees
    <2>3. /\ book' \in [FeeTokens -> Nat] /\ book'[t] = 0
          /\ \A u \in FeeTokens : u # t => book'[u] = book[u]
      BY <1>1, <1>7 DEF CollectProtocolFees, FeeTypeOK
    <2>4. BooksCovered'
      <3> SUFFICES ASSUME NEW u \in FeeTokens PROVE book'[u] <= wallet'[Collector][u]
        BY DEF BooksCovered
      <3>1. book[u] \in Nat /\ wallet'[Collector][u] \in Nat /\ book[u] <= wallet[Collector][u]
        BY <1>1, <1>2, <2>2 DEF FeeTypeOK, BooksCovered
      <3> QED BY <2>2, <2>3, <3>1
    <2> QED BY <1>1, <1>7, <2>2, <2>3, <2>4 DEF FeeInv, FeeTypeOK, CollectProtocolFees
  <1>8. CASE UNCHANGED feeVars
    BY <1>1, <1>8 DEF feeVars, FeeInv, FeeTypeOK, BooksCovered
  <1> QED BY <1>3, <1>4, <1>5, <1>6, <1>7, <1>8 DEF FeeNext

\* Every book is empty at first.
LEMMA FeeInitial == FeeInit => FeeInv
  <1> SUFFICES ASSUME FeeInit PROVE FeeInv
    OBVIOUS
  <1> USE FeeAssumption
  <1>1. FeeTypeOK
    BY DEF FeeInit, FeeTypeOK
  <1>2. BooksCovered
    BY DEF FeeInit, BooksCovered, Holders
  <1> QED BY <1>1, <1>2 DEF FeeInv

\* So both hold of every behaviour of the contract.
THEOREM FeeInvariant == FeeSpec => []FeeInv
  BY FeeInitial, FeeInductive, PTL DEF FeeSpec

\* Whatever the order of deposits, donations, withdrawals, revocations and
\* switches, the collector holds what its books say, for every token
\* (deposit_protocol_fees and collect_protocol_fees).
THEOREM BooksCoveredCorrect == FeeSpec => []BooksCovered
  <1>1. FeeInv => BooksCovered
    BY DEF FeeInv
  <1> QED BY <1>1, FeeInvariant, PTL

\* No transfer leaves an account or a book below zero.
THEOREM FeeTypeCorrect == FeeSpec => []FeeTypeOK
  <1>1. FeeInv => FeeTypeOK
    BY DEF FeeInv
  <1> QED BY <1>1, FeeInvariant, PTL

-----------------------------------------------------------------------------
(* Positions of the pool and tokens of the NFT contract say the same, for    *)
(* any owners, ticks and amounts. Beside the property itself the induction   *)
(* needs that both counters are ahead of every id in use, so that an id is   *)
(* never given out twice, and that entries have their fields.                *)

Metadata == [owner : Owners, lower : Ticks, upper : Ticks, liquidity : Nat]

\* A stored position, whatever growth it last saw.
IsPosition(p) == p \in [lower : Ticks, upper : Ticks, liquidity : Nat, last : {p.last}, nft : Nat]

Entries ==
    /\ nextNft \in Nat /\ nextPosition \in Nat
    /\ \A n \in DOMAIN nft : n \in Nat /\ n < nextNft /\ nft[n] \in Metadata
    /\ \A id \in DOMAIN position : id \in Nat /\ id < nextPosition /\ IsPosition(position[id])

NftInv == Entries /\ NftMatchesPosition

\* What With and Without leave of a map (a Soroban map's set and remove).
LEMMA WithEntries ==
    ASSUME NEW f, NEW x, NEW v
    PROVE  /\ DOMAIN With(f, x, v) = DOMAIN f \cup {x}
           /\ With(f, x, v)[x] = v
           /\ \A y \in DOMAIN f : y # x => With(f, x, v)[y] = f[y]
  BY DEF With

\* See WithEntries.
LEMMA WithoutEntries ==
    ASSUME NEW f, NEW x
    PROVE  /\ DOMAIN Without(f, x) = DOMAIN f \ {x}
           /\ \A y \in DOMAIN f : y # x => Without(f, x)[y] = f[y]
  BY DEF Without

\* What the invariant says of one position and its token.
LEMMA Pairing ==
    ASSUME NftInv, NEW id \in DOMAIN position
    PROVE  /\ IsPosition(position[id])
           /\ position[id].nft \in DOMAIN nft
           /\ nft[position[id].nft] \in Metadata
           /\ nft[position[id].nft].lower = position[id].lower
           /\ nft[position[id].nft].upper = position[id].upper
           /\ nft[position[id].nft].liquidity = position[id].liquidity
           /\ \A j \in DOMAIN position : position[j].nft = position[id].nft => j = id
  BY DEF NftInv, Entries, NftMatchesPosition

\* add_liquidity opens a position and mints its token, under ids never used.
LEMMA AddKeeps ==
    ASSUME NftInv, NEW o \in Owners, NEW l \in Ticks, NEW u \in Ticks, NEW k \in Liquidities,
           AddLiquidity(o, l, u, k)
    PROVE  NftInv'
  <1> DEFINE token == [owner |-> o, lower |-> l, upper |-> u, liquidity |-> k]
             inside == [t \in Tokens |-> GrowthInside(t, l, u)]
             opened == [lower |-> l, upper |-> u, liquidity |-> k, last |-> inside, nft |-> nextNft]
  <1>1. /\ nft' = With(nft, nextNft, token) /\ nextNft' = nextNft + 1
        /\ position' = With(position, nextPosition, opened) /\ nextPosition' = nextPosition + 1
    BY DEF AddLiquidity, MintNft
  <1>2. nextNft \in Nat /\ nextPosition \in Nat /\ nextNft \notin DOMAIN nft
        /\ nextPosition \notin DOMAIN position
    BY DEF NftInv, Entries
  <1>3. k \in Nat
    BY ClPoolAssumption
  <1>4. /\ token \in Metadata
        /\ token.lower = l /\ token.upper = u /\ token.liquidity = k
    BY <1>3 DEF Metadata
  <1>5. /\ IsPosition(opened) /\ opened.nft = nextNft
        /\ opened.lower = l /\ opened.upper = u /\ opened.liquidity = k
    <2> HIDE DEF inside
    <2> QED BY <1>2, <1>3 DEF IsPosition
  <1> HIDE DEF token, opened
  <1>6. /\ DOMAIN nft' = DOMAIN nft \cup {nextNft} /\ nft'[nextNft] = token
        /\ \A n \in DOMAIN nft : nft'[n] = nft[n]
    <2>1. /\ DOMAIN With(nft, nextNft, token) = DOMAIN nft \cup {nextNft}
          /\ With(nft, nextNft, token)[nextNft] = token
          /\ \A n \in DOMAIN nft : n # nextNft => With(nft, nextNft, token)[n] = nft[n]
      BY DEF With
    <2>2. nft' = With(nft, nextNft, token)
      BY <1>1
    <2> QED BY <1>2, <2>1, <2>2
  <1>7. /\ DOMAIN position' = DOMAIN position \cup {nextPosition}
        /\ position'[nextPosition] = opened
        /\ \A id \in DOMAIN position : position'[id] = position[id]
    BY <1>1, <1>2, WithEntries
  <1>8. Entries'
    <2>1. ASSUME NEW n \in DOMAIN nft' PROVE n \in Nat /\ n < nextNft' /\ nft'[n] \in Metadata
      <3>1. CASE n = nextNft
        BY <1>1, <1>2, <1>4, <1>6, <3>1
      <3>2. CASE n \in DOMAIN nft
        BY <1>1, <1>2, <1>6, <3>2 DEF NftInv, Entries
      <3> QED BY <1>6, <3>1, <3>2
    <2>2. ASSUME NEW id \in DOMAIN position'
          PROVE  id \in Nat /\ id < nextPosition' /\ IsPosition(position'[id])
      <3>1. CASE id = nextPosition
        BY <1>1, <1>2, <1>5, <1>7, <3>1
      <3>2. CASE id \in DOMAIN position
        BY <1>1, <1>2, <1>7, <3>2 DEF NftInv, Entries
      <3> QED BY <1>7, <3>1, <3>2
    <2>3. nextNft' \in Nat /\ nextPosition' \in Nat
      BY <1>1, <1>2
    <2>4. (\A id \in DOMAIN position : IsPosition(position[id]))'
      BY <2>2 DEF IsPosition
    <2> QED BY <2>1, <2>2, <2>3, <2>4 DEF Entries, Metadata
  <1>9. NftMatchesPosition'
    <2>1. ASSUME NEW id \in DOMAIN position'
          PROVE  /\ position'[id].nft \in DOMAIN nft'
                 /\ nft'[position'[id].nft].lower = position'[id].lower
                 /\ nft'[position'[id].nft].upper = position'[id].upper
                 /\ nft'[position'[id].nft].liquidity = position'[id].liquidity
      <3>1. CASE id = nextPosition
        BY <1>4, <1>5, <1>6, <1>7, <3>1
      <3>2. CASE id \in DOMAIN position
        BY <1>6, <1>7, <3>2, Pairing
      <3> QED BY <1>7, <3>1, <3>2
    <2>2. ASSUME NEW i \in DOMAIN position', NEW j \in DOMAIN position',
                 position'[i].nft = position'[j].nft
          PROVE  i = j
      <3>1. \A id \in DOMAIN position : position'[id].nft \in DOMAIN nft /\ position'[id].nft # nextNft
        BY <1>2, <1>7, Pairing
      <3>2. position'[nextPosition].nft = nextNft
        BY <1>5, <1>7
      <3>3. CASE i \in DOMAIN position /\ j \in DOMAIN position
        BY <1>7, <2>2, <3>3, Pairing
      <3> QED BY <1>7, <2>2, <3>1, <3>2, <3>3
    <2>3. ASSUME NEW n \in DOMAIN nft' PROVE \E id \in DOMAIN position' : position'[id].nft = n
      <3>1. CASE n = nextNft
        BY <1>5, <1>7, <3>1
      <3>2. CASE n \in DOMAIN nft
        <4>1. PICK id \in DOMAIN position : position[id].nft = n
          BY <3>2 DEF NftInv, NftMatchesPosition
        <4> QED BY <1>7, <4>1
      <3> QED BY <1>6, <3>1, <3>2
    <2> QED BY <2>1, <2>2, <2>3 DEF NftMatchesPosition
  <1> QED BY <1>8, <1>9 DEF NftInv

\* A call that changes no token, and of the positions only the growth they last
\* saw, keeps the invariant: collect, and swap.
LEMMA TokensUntouched ==
    ASSUME NftInv, nft' = nft, nextNft' = nextNft, nextPosition' = nextPosition,
           DOMAIN position' = DOMAIN position,
           \A id \in DOMAIN position :
              /\ IsPosition(position'[id])
              /\ position'[id].lower = position[id].lower
              /\ position'[id].upper = position[id].upper
              /\ position'[id].liquidity = position[id].liquidity
              /\ position'[id].nft = position[id].nft
    PROVE  NftInv'
  <1>1. Entries'
    <2>1. (\A id \in DOMAIN position : IsPosition(position[id]))'
      BY DEF IsPosition
    <2> QED BY <2>1 DEF NftInv, Entries, Metadata
  <1>2. NftMatchesPosition'
    <2>1. \A id \in DOMAIN position' :
             /\ position'[id].nft \in DOMAIN nft'
             /\ nft'[position'[id].nft].lower = position'[id].lower
             /\ nft'[position'[id].nft].upper = position'[id].upper
             /\ nft'[position'[id].nft].liquidity = position'[id].liquidity
             /\ \A j \in DOMAIN position' : position'[id].nft = position'[j].nft => id = j
      BY Pairing
    <2>2. \A n \in DOMAIN nft' : \E id \in DOMAIN position' : position'[id].nft = n
      BY DEF NftInv, NftMatchesPosition
    <2> QED BY <2>1, <2>2 DEF NftMatchesPosition
  <1> QED BY <1>1, <1>2 DEF NftInv

\* collect changes the growth its position last saw.
LEMMA CollectKeeps ==
    ASSUME NftInv, NEW o \in Owners, NEW id \in DOMAIN position, Collect(o, id)
    PROVE  NftInv'
  <1> DEFINE inside == [t \in Tokens |-> GrowthInside(t, position[id].lower, position[id].upper)]
  <1>1. /\ position' = [position EXCEPT ![id].last = inside]
        /\ nft' = nft /\ nextNft' = nextNft /\ nextPosition' = nextPosition
    BY DEF Collect
  <1> HIDE DEF inside
  <1>2. \A j \in DOMAIN position : IsPosition(position[j])
    BY DEF NftInv, Entries
  <1>3. ASSUME NEW j \in DOMAIN position
        PROVE  /\ IsPosition(position'[j])
               /\ position'[j].lower = position[j].lower
               /\ position'[j].upper = position[j].upper
               /\ position'[j].liquidity = position[j].liquidity
               /\ position'[j].nft = position[j].nft
    <2>1. CASE j = id
      <3>1. position'[j] = [position[j] EXCEPT !.last = inside]
        BY <1>1, <2>1
      <3> QED BY <1>2, <3>1 DEF IsPosition
    <2>2. CASE j # id
      <3>1. position'[j] = position[j]
        BY <1>1, <2>2
      <3> QED BY <1>2, <3>1
    <2> QED BY <2>1, <2>2
  <1>4. DOMAIN position' = DOMAIN position
    BY <1>1
  <1> QED BY <1>1, <1>3, <1>4, TokensUntouched

\* remove_liquidity shrinks position and token alike, or drops both.
LEMMA RemoveKeeps ==
    ASSUME NftInv, NEW o \in Owners, NEW id \in DOMAIN position, NEW k \in Liquidities,
           RemoveLiquidity(o, id, k)
    PROVE  NftInv'
  <1> DEFINE p == position[id]
             rest == p.liquidity - k
  <1>1. /\ k \in Nat /\ 0 < k /\ k <= p.liquidity /\ p.liquidity \in Nat
        /\ rest \in Nat
    BY Pairing, ClPoolAssumption DEF RemoveLiquidity, IsPosition
  <1>2. nextNft' = nextNft /\ nextPosition' = nextPosition
    BY DEF RemoveLiquidity, BurnNft, UpdateNft
  <1>3. CASE rest = 0
    <2>1. nft' = Without(nft, p.nft) /\ position' = Without(position, id)
      BY <1>3 DEF RemoveLiquidity, BurnNft
    <2>2. /\ DOMAIN nft' = DOMAIN nft \ {p.nft} /\ DOMAIN position' = DOMAIN position \ {id}
          /\ \A n \in DOMAIN nft : n # p.nft => nft'[n] = nft[n]
          /\ \A j \in DOMAIN position : j # id => position'[j] = position[j]
      BY <2>1, WithoutEntries
    <2>3. \A j \in DOMAIN position : j # id => position[j].nft # p.nft
      BY Pairing
    <2> HIDE DEF p
    <2>4. (\A j \in DOMAIN position : IsPosition(position[j]))'
      BY <2>2 DEF NftInv, Entries, IsPosition
    <2>5. Entries'
      BY <1>2, <2>2, <2>4 DEF NftInv, Entries, Metadata
    <2>6. \A j \in DOMAIN position' :
             /\ position'[j].nft \in DOMAIN nft'
             /\ nft'[position'[j].nft].lower = position'[j].lower
             /\ nft'[position'[j].nft].upper = position'[j].upper
             /\ nft'[position'[j].nft].liquidity = position'[j].liquidity
             /\ \A i \in DOMAIN position' : position'[j].nft = position'[i].nft => j = i
      BY <2>2, <2>3, Pairing
    <2>7. \A n \in DOMAIN nft' : \E j \in DOMAIN position' : position'[j].nft = n
      <3> SUFFICES ASSUME NEW n \in DOMAIN nft' PROVE \E j \in DOMAIN position' : position'[j].nft = n
        OBVIOUS
      <3>1. PICK j \in DOMAIN position : position[j].nft = n
        BY <2>2 DEF NftInv, NftMatchesPosition
      <3> QED BY <2>2, <3>1 DEF p
    <2> QED BY <2>5, <2>6, <2>7 DEF NftInv, NftMatchesPosition
  <1>4. CASE rest # 0
    <2>1. /\ nft' = [nft EXCEPT ![p.nft].liquidity = rest]
          /\ position' = [position EXCEPT ![id].liquidity = rest]
      BY <1>4 DEF RemoveLiquidity, UpdateNft
    <2>2. IsPosition(p) /\ p.nft \in DOMAIN nft /\ nft[p.nft] \in Metadata
      BY Pairing
    <2> DEFINE token == [nft[p.nft] EXCEPT !.liquidity = rest]
               shrunk == [p EXCEPT !.liquidity = rest]
    <2>3. /\ token \in Metadata /\ token.liquidity = rest
          /\ token.lower = nft[p.nft].lower /\ token.upper = nft[p.nft].upper
      <3> HIDE DEF p, rest
      <3> QED BY <1>1, <2>2 DEF Metadata
    <2>4. /\ IsPosition(shrunk) /\ shrunk.liquidity = rest /\ shrunk.nft = p.nft
          /\ shrunk.lower = p.lower /\ shrunk.upper = p.upper
      <3> HIDE DEF p, rest
      <3> QED BY <1>1, <2>2 DEF IsPosition
    <2>5. /\ DOMAIN nft' = DOMAIN nft /\ nft'[p.nft] = token
          /\ \A n \in DOMAIN nft : n # p.nft => nft'[n] = nft[n]
      BY <2>1, <2>2
    <2>6. /\ DOMAIN position' = DOMAIN position /\ position'[id] = shrunk
          /\ \A j \in DOMAIN position : j # id => position'[j] = position[j]
      BY <2>1
    <2>7. \A j \in DOMAIN position : j # id => position[j].nft # p.nft
      BY Pairing
    <2>8. p.lower = nft[p.nft].lower /\ p.upper = nft[p.nft].upper
      BY Pairing
    <2> HIDE DEF token, shrunk, rest
    <2>9. \A n \in DOMAIN nft' : n \in Nat /\ n < nextNft' /\ nft'[n] \in Metadata
      BY <1>2, <2>3, <2>5 DEF NftInv, Entries
    <2>10. \A j \in DOMAIN position' : j \in Nat /\ j < nextPosition' /\ IsPosition(position'[j])
      BY <1>2, <2>4, <2>6 DEF NftInv, Entries
    <2>11. Entries'
      <3>1. (\A j \in DOMAIN position : IsPosition(position[j]))'
        BY <2>10 DEF IsPosition
      <3>2. nextNft' \in Nat /\ nextPosition' \in Nat
        BY <1>2 DEF NftInv, Entries
      <3> QED BY <2>9, <2>10, <3>1, <3>2 DEF Entries, Metadata
    <2>12. \A j \in DOMAIN position' : position'[j].nft = position[j].nft
      BY <2>4, <2>6
    <2>13. ASSUME NEW j \in DOMAIN position'
           PROVE  /\ position'[j].nft \in DOMAIN nft'
                  /\ nft'[position'[j].nft].lower = position'[j].lower
                  /\ nft'[position'[j].nft].upper = position'[j].upper
                  /\ nft'[position'[j].nft].liquidity = position'[j].liquidity
      <3>1. CASE j = id
        BY <2>2, <2>3, <2>4, <2>5, <2>6, <2>8, <3>1
      <3>2. CASE j # id
        BY <2>5, <2>6, <2>7, <3>2, Pairing
      <3> QED BY <3>1, <3>2
    <2>14. \A i, j \in DOMAIN position' : position'[i].nft = position'[j].nft => i = j
      BY <2>6, <2>12, Pairing
    <2>15. \A n \in DOMAIN nft' : \E j \in DOMAIN position' : position'[j].nft = n
      BY <2>5, <2>6, <2>12 DEF NftInv, NftMatchesPosition
    <2> QED BY <2>11, <2>13, <2>14, <2>15 DEF NftInv, NftMatchesPosition
  <1> QED BY <1>3, <1>4

\* A transfer changes a token's owner, of which positions say nothing.
LEMMA HandOnKeeps ==
    ASSUME NftInv, NEW from \in Owners, NEW to \in Owners, NEW n \in DOMAIN nft,
           HandOn(from, to, n)
    PROVE  NftInv'
  <1>1. /\ nft' = [nft EXCEPT ![n].owner = to] /\ nextNft' = nextNft
        /\ position' = position /\ nextPosition' = nextPosition
    BY DEF HandOn, TransferNft
  <1>2. \A k \in DOMAIN nft : nft[k] \in Metadata
    BY DEF NftInv, Entries
  <1>3. ASSUME NEW k \in DOMAIN nft
        PROVE  /\ nft'[k] \in Metadata
               /\ nft'[k].lower = nft[k].lower /\ nft'[k].upper = nft[k].upper
               /\ nft'[k].liquidity = nft[k].liquidity
    <2>1. CASE k = n
      <3>1. nft'[k] = [nft[k] EXCEPT !.owner = to]
        BY <1>1, <2>1
      <3> QED BY <1>2, <3>1 DEF Metadata
    <2>2. CASE k # n
      BY <1>1, <1>2, <2>2
    <2> QED BY <2>1, <2>2
  <1>4. DOMAIN nft' = DOMAIN nft
    BY <1>1
  <1>5. Entries'
    <2>1. \A k \in DOMAIN nft' : k \in Nat /\ k < nextNft' /\ nft'[k] \in Metadata
      BY <1>1, <1>3, <1>4 DEF NftInv, Entries
    <2> QED BY <1>1, <2>1 DEF NftInv, Entries, Metadata, IsPosition
  <1>6. NftMatchesPosition'
    <2>1. \A id \in DOMAIN position' :
             /\ position'[id].nft \in DOMAIN nft'
             /\ nft'[position'[id].nft].lower = position'[id].lower
             /\ nft'[position'[id].nft].upper = position'[id].upper
             /\ nft'[position'[id].nft].liquidity = position'[id].liquidity
      BY <1>1, <1>3, <1>4, Pairing
    <2>2. \A i, j \in DOMAIN position' : position'[i].nft = position'[j].nft => i = j
      BY <1>1, Pairing
    <2>3. \A k \in DOMAIN nft' : \E id \in DOMAIN position' : position'[id].nft = k
      BY <1>1, <1>4 DEF NftInv, NftMatchesPosition
    <2> QED BY <2>1, <2>2, <2>3 DEF NftMatchesPosition
  <1> QED BY <1>5, <1>6 DEF NftInv

\* Every call keeps positions and tokens in step.
THEOREM NftInductive == NftInv /\ [ClNext]_clVars => NftInv'
  <1> SUFFICES ASSUME NftInv, [ClNext]_clVars PROVE NftInv'
    OBVIOUS
  <1>1. ASSUME NEW d \in BOOLEAN, NEW a \in Inputs, NEW x \in Limits, ClSwap(d, a, x) PROVE NftInv'
    <2>1. UNCHANGED <<position, nextPosition, nft, nextNft>>
      BY <1>1 DEF ClSwap
    <2> QED BY <2>1, TokensUntouched DEF NftInv, Entries
  <1>2. CASE UNCHANGED clVars
    <2>1. UNCHANGED <<position, nextPosition, nft, nextNft>>
      BY <1>2 DEF clVars
    <2> QED BY <2>1, TokensUntouched DEF NftInv, Entries
  <1> QED BY <1>1, <1>2, AddKeeps, CollectKeeps, RemoveKeeps, HandOnKeeps DEF ClNext

\* Whatever is added, collected, removed, swapped and handed on, each position
\* has one token that says the same and each token a position
\* (require_position_owner): no owner is locked out.
THEOREM NftMatchesPositionCorrect == ClSpec => []NftMatchesPosition
  <1>1. ClInit => NftInv
    <2> SUFFICES ASSUME ClInit PROVE NftInv
      OBVIOUS
    <2>1. nft = <<>> /\ position = <<>> /\ nextNft = 0 /\ nextPosition = 0
      BY DEF ClInit, NftInit
    <2>2. DOMAIN nft = {} /\ DOMAIN position = {}
      BY <2>1
    <2> QED BY <2>1, <2>2 DEF NftInv, Entries, NftMatchesPosition
  <1>2. NftInv => NftMatchesPosition
    BY DEF NftInv
  <1> QED BY <1>1, <1>2, NftInductive, PTL DEF ClSpec

-----------------------------------------------------------------------------
(* The oracle's ring keeps its type and its order for every size of the      *)
(* ring, every price and every clock. A swap appends after the newest        *)
(* observation, and the newest one is the last in the order, so it is enough *)
(* to compare the new observation with the newest: the lemmas say that an    *)
(* append is last in the order and leaves the order of the others alone.     *)

\* While the ring is not full the next slot to write is the first free one.
RingShape == count < BufferSize => writeIndex = count

RingInv == OracleTypeOK /\ RingShape /\ RingOrdered

-----------------------------------------------------------------------------
(* Arithmetic *)

\* The write index goes round the ring.
LEMMA NextIndex ==
    ASSUME NEW size \in Nat \ {0}, NEW i \in 0 .. size - 1
    PROVE  (i + 1) % size = IF i + 1 = size THEN 0 ELSE i + 1
<1>1. CASE i + 1 = size
  BY <1>1
<1>2. CASE i + 1 # size
  BY <1>2
<1> QED BY <1>1, <1>2

\* Saturating arithmetic stays within the type and adds no less than nothing.
LEMMA SaturatedRange ==
    ASSUME NEW n \in Nat
    PROVE  Saturated(n) \in 0 .. MaxCum
BY OracleAssumption DEF Saturated

\* Adding never makes an accumulator smaller, though it saturates.
LEMMA SaturatedAdd ==
    ASSUME NEW c \in 0 .. MaxCum, NEW n \in Nat
    PROVE  c <= Saturated(c + n)
BY OracleAssumption DEF Saturated

\* The new accumulator is in range, and no smaller than the newest one.
LEMMA AccumulatedRange ==
    ASSUME OracleTypeOK, NEW p \in Prices,
           count > 0 => obs[NewestSlot].timestamp < now
    PROVE  /\ Accumulated(p) \in 0 .. MaxCum
           /\ count > 0 => obs[NewestSlot].cumulative <= Accumulated(p)
<1>1. CASE count = 0
  BY <1>1, OracleAssumption DEF Accumulated
<1>2. CASE count # 0
  <2> DEFINE prev == obs[NewestSlot]
             gain == p * (now - prev.timestamp)
  <2>1. count > 0
    BY <1>2 DEF OracleTypeOK
  <2>2. NewestSlot \in Slots
    BY OracleAssumption DEF OracleTypeOK, NewestSlot, Slots
  <2>3. prev \in Observation
    BY <2>2 DEF OracleTypeOK
  <2>4. /\ prev.cumulative \in 0 .. MaxCum
        /\ prev.timestamp \in Nat
        /\ now - prev.timestamp \in Nat
    BY <2>1, <2>3, OracleAssumption DEF OracleTypeOK, Observation
  <2>5. p \in Nat
    BY OracleAssumption
  <2>6. gain \in Nat
    BY <2>4, <2>5
  <2>7. Accumulated(p) = Saturated(prev.cumulative + Saturated(gain))
    BY <1>2 DEF Accumulated
  <2> HIDE DEF prev, gain
  <2>8. Saturated(gain) \in Nat
    BY <2>6, SaturatedRange, OracleAssumption
  <2>9. prev.cumulative + Saturated(gain) \in Nat
    BY <2>4, <2>8, OracleAssumption
  <2>10. Accumulated(p) \in 0 .. MaxCum
    BY <2>7, <2>9, SaturatedRange
  <2>11. prev.cumulative <= Accumulated(p)
    BY <2>4, <2>7, <2>8, SaturatedAdd
  <2> QED BY <2>10, <2>11 DEF prev
<1> QED BY <1>1, <1>2

-----------------------------------------------------------------------------
(* The order of the ring *)

\* The newest slot is the last one written.
LEMMA NewestIsLast ==
    ASSUME OracleTypeOK, RingShape, count > 0
    PROVE  /\ NewestSlot \in Written
           /\ \A i \in Written : i = NewestSlot \/ Before(i, NewestSlot)
BY OracleAssumption
DEF OracleTypeOK, RingShape, NewestSlot, Written, Before, Slots

\* Where an append leaves the write index and the count.
LEMMA AppendIndex ==
    ASSUME OracleTypeOK, NEW p \in Prices, Append(p)
    PROVE  /\ writeIndex' = IF writeIndex + 1 = BufferSize THEN 0 ELSE writeIndex + 1
           /\ count' = IF count < BufferSize THEN count + 1 ELSE BufferSize
BY NextIndex, OracleAssumption DEF OracleTypeOK, Slots, Append

\* An append writes the newest slot: nothing comes after it.
LEMMA AppendIsLast ==
    ASSUME OracleTypeOK, RingShape, NEW p \in Prices, Append(p),
           NEW i, i = writeIndex, NEW j \in Written'
    PROVE  ~ Before(i, j)'
<1>1. writeIndex' = IF writeIndex + 1 = BufferSize THEN 0 ELSE writeIndex + 1
  BY AppendIndex
<1>2. count' = IF count < BufferSize THEN count + 1 ELSE BufferSize
  BY AppendIndex
<1> QED BY <1>1, <1>2, OracleAssumption
        DEF OracleTypeOK, RingShape, Written, Before, Slots

\* An append keeps the order of the slots it does not write.
LEMMA AppendKeepsOrder ==
    ASSUME OracleTypeOK, RingShape, NEW p \in Prices, Append(p),
           NEW i \in Written' \ {writeIndex}, NEW j \in Written' \ {writeIndex}
    PROVE  /\ i \in Written
           /\ j \in Written
           /\ Before(i, j)' => Before(i, j)
<1>1. writeIndex' = IF writeIndex + 1 = BufferSize THEN 0 ELSE writeIndex + 1
  BY AppendIndex
<1>2. count' = IF count < BufferSize THEN count + 1 ELSE BufferSize
  BY AppendIndex
<1> QED BY <1>1, <1>2, OracleAssumption
        DEF OracleTypeOK, RingShape, Written, Before, Slots

\* A swap that appends keeps the ring ordered.
LEMMA AppendOrdered ==
    ASSUME RingInv, NEW p \in Prices, Append(p),
           count > 0 => obs[NewestSlot].timestamp < now
    PROVE  RingOrdered'
<1> DEFINE new == [timestamp |-> now, cumulative |-> Accumulated(p)]
<1>0. OracleTypeOK /\ RingShape /\ RingOrdered
  BY DEF RingInv
<1>1. obs' = [obs EXCEPT ![writeIndex] = new]
  BY DEF Append
<1>2. writeIndex \in Slots /\ obs \in [Slots -> Observation] /\ Written' \subseteq Slots
  BY <1>0, AppendIndex, OracleAssumption DEF OracleTypeOK, Written, Slots
<1>3. SUFFICES ASSUME NEW i \in Written', NEW j \in Written', Before(i, j)'
               PROVE  /\ obs'[i].timestamp < obs'[j].timestamp
                      /\ obs'[i].cumulative <= obs'[j].cumulative
  BY Zenon DEF RingOrdered
<1>4. i # writeIndex
  BY <1>0, <1>3, AppendIsLast
<1>5. obs'[i] = obs[i]
  BY <1>1, <1>2, <1>4
<1>6. CASE j = writeIndex
  <2>1. obs'[j] = new
    BY <1>1, <1>2, <1>6
  <2>2. i \in Written /\ count > 0
    BY <1>0, <1>4, AppendIndex, OracleAssumption
    DEF OracleTypeOK, RingShape, Written, Slots
  <2>3. NewestSlot \in Written /\ (i = NewestSlot \/ Before(i, NewestSlot))
    BY <1>0, <2>2, NewestIsLast
  <2>4. i \in Slots /\ NewestSlot \in Slots
    BY <1>0, <2>2, <2>3, OracleAssumption DEF OracleTypeOK, Written, Slots
  <2>5. obs[i] \in Observation /\ obs[NewestSlot] \in Observation
    BY <1>2, <2>4
  <2>6. /\ obs[i].timestamp <= obs[NewestSlot].timestamp
        /\ obs[i].cumulative <= obs[NewestSlot].cumulative
    BY <1>0, <2>2, <2>3, <2>5, OracleAssumption DEF RingOrdered, Observation
  <2>7. /\ obs[NewestSlot].timestamp < now
        /\ obs[NewestSlot].cumulative <= Accumulated(p)
        /\ Accumulated(p) \in 0 .. MaxCum
        /\ now \in Nat
    BY <1>0, <2>2, AccumulatedRange, OracleAssumption DEF OracleTypeOK
  <2> QED BY <1>5, <2>1, <2>5, <2>6, <2>7, OracleAssumption DEF Observation
<1>7. CASE j # writeIndex
  <2>1. obs'[j] = obs[j]
    BY <1>1, <1>2, <1>7
  <2>2. i \in Written /\ j \in Written /\ Before(i, j)
    BY <1>0, <1>3, <1>4, <1>7, AppendKeepsOrder
  <2> QED BY <1>0, <1>5, <2>1, <2>2 DEF RingOrdered
<1> QED BY <1>6, <1>7

-----------------------------------------------------------------------------
(* The invariant *)

\* The ring starts empty.
LEMMA RingInvInit == OracleInit => RingInv
<1> SUFFICES ASSUME OracleInit PROVE RingInv
  OBVIOUS
<1>1. OracleTypeOK
  <2>1. Unwritten \in Observation
    BY OracleAssumption DEF Unwritten, Observation
  <2>2. obs \in [Slots -> Observation]
    BY <2>1 DEF OracleInit
  <2>3. credit \in [Seconds -> Prices \cup {0}]
    BY DEF OracleInit
  <2>4. now \in 1 .. MaxTime /\ writeIndex \in Slots /\ count \in 0 .. BufferSize
    BY OracleAssumption DEF OracleInit, Slots
  <2> QED BY <2>2, <2>3, <2>4 DEF OracleInit, OracleTypeOK
<1>2. RingShape /\ Written = {}
  BY OracleAssumption DEF OracleInit, RingShape, Written
<1> QED BY <1>1, <1>2 DEF RingInv, RingOrdered

\* A step that leaves the ring alone.
LEMMA RingUntouched ==
    ASSUME RingInv, OracleTypeOK', UNCHANGED <<writeIndex, count, obs>>
    PROVE  RingInv'
BY DEF RingInv, RingShape, RingOrdered, Written, Before

\* Appending keeps the types of the ring and its shape.
LEMMA AppendTyped ==
    ASSUME OracleTypeOK, RingShape, NEW p \in Prices, Append(p),
           count > 0 => obs[NewestSlot].timestamp < now
    PROVE  /\ writeIndex' \in Slots
           /\ count' \in 0 .. BufferSize
           /\ obs' \in [Slots -> Observation]
           /\ credit' \in [Seconds -> Prices \cup {0}]
           /\ RingShape'
<1>1. writeIndex' \in Slots /\ count' \in 0 .. BufferSize /\ RingShape'
  BY AppendIndex, OracleAssumption DEF OracleTypeOK, RingShape, Slots
<1>2. [timestamp |-> now, cumulative |-> Accumulated(p)] \in Observation
  BY AccumulatedRange, OracleAssumption DEF OracleTypeOK, Observation
<1>3. obs' \in [Slots -> Observation]
  BY <1>2 DEF OracleTypeOK, Append
<1>4. credit' \in [Seconds -> Prices \cup {0}]
  BY DEF OracleTypeOK, Append
<1> QED BY <1>1, <1>3, <1>4

\* Every call keeps the ring's slots and times.
LEMMA RingInvStep == RingInv /\ [OracleNext]_vars => RingInv'
<1> SUFFICES ASSUME RingInv, [OracleNext]_vars PROVE RingInv'
  OBVIOUS
<1>0. OracleTypeOK /\ RingShape
  BY DEF RingInv
<1>1. CASE Tick
  <2>1. now' \in 1 .. MaxTime /\ now \in Seconds
    BY <1>0, <1>1, OracleAssumption DEF OracleTypeOK, Tick, Seconds
  <2>2. OracleTypeOK'
    BY <1>0, <1>1, <2>1 DEF OracleTypeOK, Tick
  <2> QED BY <1>1, <2>2, RingUntouched DEF Tick
<1>2. CASE Initialize
  <2>1. OracleTypeOK' /\ RingShape' /\ Written' = {}
    BY <1>0, <1>2, OracleAssumption
    DEF OracleTypeOK, Initialize, RingShape, Written, Slots
  <2> QED BY <2>1 DEF RingInv, RingOrdered
<1>3. CASE SetOracle
  <2>1. OracleTypeOK'
    BY <1>0, <1>3 DEF OracleTypeOK, SetOracle
  <2> QED BY <1>3, <2>1, RingUntouched DEF SetOracle
<1>4. ASSUME NEW p \in Prices, SwapUnwired(p) PROVE RingInv'
  <2>1. OracleTypeOK'
    BY <1>0, <1>4 DEF OracleTypeOK, SwapUnwired
  <2> QED BY <1>4, <2>1, RingUntouched DEF SwapUnwired
<1>5. ASSUME NEW p \in Prices, Swap(p) PROVE RingInv'
  <2>1. Append(p) /\ (count > 0 => obs[NewestSlot].timestamp < now)
    BY <1>5 DEF Swap
  <2>2. OracleTypeOK' /\ RingShape'
    BY <1>0, <1>5, <2>1, AppendTyped DEF OracleTypeOK, Swap
  <2>3. RingOrdered'
    BY <2>1, AppendOrdered
  <2> QED BY <2>2, <2>3 DEF RingInv
<1>6. ASSUME NEW p \in Prices, SwapSameLedger(p) PROVE RingInv'
  <2>1. OracleTypeOK'
    BY <1>0, <1>6 DEF OracleTypeOK, SwapSameLedger
  <2> QED BY <1>6, <2>1, RingUntouched DEF SwapSameLedger
<1>7. CASE UNCHANGED vars
  <2>1. OracleTypeOK'
    BY <1>0, <1>7 DEF OracleTypeOK, vars
  <2> QED BY <1>7, <2>1, RingUntouched DEF vars
<1> QED BY <1>1, <1>2, <1>3, <1>4, <1>5, <1>6, <1>7 DEF OracleNext

\* So they hold in every state.
LEMMA RingInvariant == OracleSpec => []RingInv
BY RingInvInit, RingInvStep, PTL DEF OracleSpec

\* The adapter's storage keeps its type: write_observation never writes
\* outside the ring and its accumulator never exceeds a u128.
THEOREM OracleTypeCorrect == OracleSpec => []OracleTypeOK
<1>1. RingInv => OracleTypeOK
  BY DEF RingInv
<1> QED BY <1>1, RingInvariant, PTL

\* The observations stay in order of time around the ring of any size, which
\* get_twap's search relies on.
THEOREM RingOrderedCorrect == OracleSpec => []RingOrdered
<1>1. RingInv => RingOrdered
  BY DEF RingInv
<1> QED BY <1>1, RingInvariant, PTL

-----------------------------------------------------------------------------
(* get_twap, for every size of the ring, every largest accumulator and all   *)
(* prices. Its answer is a difference of two accumulators, so the invariant  *)
(* ties each of them to the sum of what was credited before its second       *)
(* (CreditKept); which two, the search decides, whose loop keeps the slot    *)
(* searched for between lo and hi (Narrowed). The sum and the loop are       *)
(* recursive: that they have a value for every argument is shown first, by   *)
(* climbing from the smallest.                                               *)

\* A nonempty set of numbers has a least one.
LEMMA LeastNatural ==
    ASSUME NEW S, S \subseteq Nat, S # {}
    PROVE  \E e \in S : \A f \in S : e <= f
<1> DEFINE R == OpToRel(<, Nat)
<1>1. PICK e \in S : \A f \in S : ~ <<f, e>> \in R
  <2> HIDE DEF R
  <2>1. IsWellFoundedOn(R, Nat)
    BY NatLessThanWellFounded, Zenon DEF R
  <2> QED BY <2>1, WFMin, Zenon
<1>2. \A f \in S : ~ f < e
  BY <1>1, Zenon DEF OpToRel
<1>3. ASSUME NEW f \in S PROVE e <= f
  BY <1>2
<1> QED BY <1>3

\* A set of numbers that has zero and the successor of each of its members has
\* them all.
LEMMA Climb ==
    ASSUME NEW S, 0 \in S, \A n \in S \cap Nat : n + 1 \in S
    PROVE  Nat \subseteq S
<1> SUFFICES ASSUME Nat \ S # {} PROVE FALSE
  OBVIOUS
<1>1. PICK e \in Nat \ S : \A f \in Nat \ S : e <= f
  BY LeastNatural
<1>2. e \in Nat /\ e # 0 /\ e - 1 \in Nat /\ ~(e <= e - 1) /\ (e - 1) + 1 = e
  BY <1>1
<1>3. e - 1 \in S
  BY <1>1, <1>2
<1> QED BY <1>1, <1>2, <1>3

\* The sum up to each second is the one up to the second before and its value.
Sums(f, g, n) == \A u \in 0 .. n : g[u] = IF u = 0 THEN 0 ELSE g[u - 1] + f[u - 1]

\* The running sum of any credits has a value at every second.
LEMMA SumsExist ==
    ASSUME NEW f \in [Seconds -> Nat], NEW n \in 0 .. MaxTime
    PROVE  \E g \in [0 .. n -> Nat] : Sums(f, g, n)
<1> DEFINE S == {m \in Nat : m <= MaxTime => \E g \in [0 .. m -> Nat] : Sums(f, g, m)}
<1>0. MaxTime \in Nat
  BY OracleAssumption
<1>1. 0 \in S
  <2>1. [u \in 0 .. 0 |-> 0] \in [0 .. 0 -> Nat] /\ Sums(f, [u \in 0 .. 0 |-> 0], 0)
    BY DEF Sums
  <2> QED BY <2>1
<1>2. ASSUME NEW m \in S \cap Nat PROVE m + 1 \in S
  <2> SUFFICES ASSUME m + 1 <= MaxTime
               PROVE  \E g \in [0 .. m + 1 -> Nat] : Sums(f, g, m + 1)
    OBVIOUS
  <2>1. m \in Nat /\ m <= MaxTime /\ m \in Seconds
    BY <1>0 DEF Seconds
  <2>2. PICK g \in [0 .. m -> Nat] : Sums(f, g, m)
    BY <2>1
  <2> DEFINE h == [u \in 0 .. m + 1 |-> IF u = m + 1 THEN g[m] + f[m] ELSE g[u]]
  <2>3. g[m] + f[m] \in Nat
    BY <2>1
  <2>4. h \in [0 .. m + 1 -> Nat]
    <3>1. \A u \in 0 .. m + 1 : u # m + 1 => u \in 0 .. m
      BY <2>1
    <3> QED BY <2>3, <3>1
  <2>5. h[m + 1] = g[m] + f[m] /\ \A u \in 0 .. m : h[u] = g[u]
    BY <2>1
  <2>6. ASSUME NEW u \in 0 .. m + 1 PROVE h[u] = IF u = 0 THEN 0 ELSE h[u - 1] + f[u - 1]
    <3> HIDE DEF h
    <3>1. CASE u = m + 1
      <4>1. u # 0 /\ u - 1 = m /\ m \in 0 .. m
        BY <2>1, <3>1
      <4> QED BY <2>5, <3>1, <4>1
    <3>2. CASE u # m + 1
      <4>1. u \in 0 .. m /\ (u # 0 => u - 1 \in 0 .. m)
        BY <2>1, <3>2
      <4>2. g[u] = IF u = 0 THEN 0 ELSE g[u - 1] + f[u - 1]
        BY <2>2, <4>1 DEF Sums
      <4> QED BY <2>5, <4>1, <4>2
    <3> QED BY <3>1, <3>2
  <2> HIDE DEF h
  <2>7. Sums(f, h, m + 1)
    BY <2>6 DEF Sums
  <2> QED BY <2>4, <2>7
<1>3. Nat \subseteq S
  <2> HIDE DEF S
  <2> QED BY <1>1, <1>2, Climb
<1>4. n \in Nat /\ n <= MaxTime
  BY <1>0
<1> QED BY <1>3, <1>4

\* What SumBefore computes: nothing before second 0, and one second more at each.
LEMMA SumBeforeSteps ==
    ASSUME NEW f \in [Seconds -> Nat]
    PROVE  /\ \A t \in 0 .. MaxTime : SumBefore(f, t) \in Nat
           /\ SumBefore(f, 0) = 0
           /\ \A t \in Seconds : SumBefore(f, t + 1) = SumBefore(f, t) + f[t]
<1> DEFINE Unfolds(g) == g = [u \in 0 .. MaxTime |-> IF u = 0 THEN 0 ELSE g[u - 1] + f[u - 1]]
           sum == CHOOSE g : Unfolds(g)
<1>0. MaxTime \in Nat
  BY OracleAssumption
<1>1. \A t : SumBefore(f, t) = sum[t]
  BY Zenon DEF SumBefore
<1>2. PICK g \in [0 .. MaxTime -> Nat] : Sums(f, g, MaxTime)
  <2>1. MaxTime \in 0 .. MaxTime
    BY <1>0
  <2> QED BY <2>1, SumsExist
<1>3. Unfolds(g)
  <2>1. g = [u \in 0 .. MaxTime |-> g[u]]
    OBVIOUS
  <2> QED BY <1>2, <2>1 DEF Sums
<1>4. Unfolds(sum)
  BY <1>3, Zenon
<1> HIDE DEF sum
<1>5. Sums(f, sum, MaxTime)
  BY <1>4 DEF Sums
<1> HIDE DEF Unfolds
<1>6. sum[0] = 0
  BY <1>0, <1>5 DEF Sums
<1>7. ASSUME NEW t \in Seconds PROVE sum[t + 1] = sum[t] + f[t]
  <2>1. t + 1 \in 0 .. MaxTime /\ t + 1 # 0 /\ (t + 1) - 1 = t
    BY <1>0 DEF Seconds
  <2> QED BY <1>5, <2>1 DEF Sums
<1>8. \A t \in 0 .. MaxTime : sum[t] \in Nat
  <2> DEFINE S == {m \in Nat : m <= MaxTime => sum[m] \in Nat}
  <2>1. 0 \in S
    BY <1>6
  <2>2. ASSUME NEW m \in S \cap Nat PROVE m + 1 \in S
    <3>1. m + 1 <= MaxTime => m \in Seconds /\ m <= MaxTime
      BY <1>0 DEF Seconds
    <3> QED BY <1>7, <3>1
  <2>3. Nat \subseteq S
    <3> HIDE DEF S
    <3> QED BY <2>1, <2>2, Climb
  <2>4. \A t \in 0 .. MaxTime : t \in Nat /\ t <= MaxTime
    BY <1>0
  <2> QED BY <2>3, <2>4
<1> QED BY <1>1, <1>6, <1>7, <1>8

\* Equal values before t have equal sums.
LEMMA SumsAgree ==
    ASSUME NEW f \in [Seconds -> Nat], NEW g \in [Seconds -> Nat], NEW t \in 0 .. MaxTime,
           \A u \in 0 .. t - 1 : f[u] = g[u]
    PROVE  SumBefore(f, t) = SumBefore(g, t)
<1> DEFINE S == {m \in Nat : m <= t => SumBefore(f, m) = SumBefore(g, m)}
<1>0. MaxTime \in Nat /\ t \in Nat /\ t <= MaxTime
  BY OracleAssumption
<1>1. 0 \in S
  BY SumBeforeSteps
<1>2. ASSUME NEW m \in S \cap Nat PROVE m + 1 \in S
  <2> SUFFICES ASSUME m + 1 <= t PROVE SumBefore(f, m + 1) = SumBefore(g, m + 1)
    OBVIOUS
  <2>1. m \in Seconds /\ m \in 0 .. t - 1 /\ m <= t
    BY <1>0 DEF Seconds
  <2>2. /\ SumBefore(f, m + 1) = SumBefore(f, m) + f[m]
        /\ SumBefore(g, m + 1) = SumBefore(g, m) + g[m]
    BY <2>1, SumBeforeSteps
  <2> QED BY <2>1, <2>2
<1>3. Nat \subseteq S
  <2> HIDE DEF S
  <2> QED BY <1>1, <1>2, Climb
<1> QED BY <1>0, <1>3

\* A product grows by one factor at a time.
LEMMA OneMoreTime == \A p, k \in Nat : p * k + p = p * (k + 1) /\ p * 0 = 0 /\ p * k \in Nat
OBVIOUS

\* A constant value adds itself once for each second.
LEMMA ConstantSum ==
    ASSUME NEW f \in [Seconds -> Nat], NEW p \in Nat, NEW a \in 0 .. MaxTime,
           NEW t \in a .. MaxTime, \A u \in a .. t - 1 : f[u] = p
    PROVE  SumBefore(f, t) = SumBefore(f, a) + p * (t - a)
<1> DEFINE S == {m \in Nat : a + m <= t => SumBefore(f, a + m) = SumBefore(f, a) + p * m}
<1>0. MaxTime \in Nat /\ a \in Nat /\ t \in Nat /\ t <= MaxTime /\ a <= t
  BY OracleAssumption
<1>00. SumBefore(f, a) \in Nat
  BY SumBeforeSteps
<1>1. 0 \in S
  <2>1. a + 0 = a /\ p * 0 = 0
    BY <1>0, OneMoreTime
  <2> QED BY <1>00, <2>1
<1>2. ASSUME NEW m \in S \cap Nat PROVE m + 1 \in S
  <2> SUFFICES ASSUME a + (m + 1) <= t
               PROVE  SumBefore(f, a + (m + 1)) = SumBefore(f, a) + p * (m + 1)
    OBVIOUS
  <2>1. a + m \in Seconds /\ a + m \in a .. t - 1 /\ a + m <= t /\ a + (m + 1) = (a + m) + 1
    BY <1>0 DEF Seconds
  <2>2. SumBefore(f, (a + m) + 1) = SumBefore(f, a + m) + p
    BY <2>1, SumBeforeSteps
  <2>3. SumBefore(f, a + m) = SumBefore(f, a) + p * m
    BY <2>1
  <2>4. p * m + p = p * (m + 1) /\ p * m \in Nat
    BY OneMoreTime
  <2> QED BY <1>00, <2>1, <2>2, <2>3, <2>4
<1>3. Nat \subseteq S
  <2> HIDE DEF S
  <2> QED BY <1>1, <1>2, Climb
<1>4. t - a \in Nat /\ a + (t - a) = t
  BY <1>0
<1> QED BY <1>3, <1>4

-----------------------------------------------------------------------------
(* Loops *)

\* A recursion that ends at each step or goes on to a smaller argument has a
\* solution: what a loop with a variant computes.
Loops(g, H, ends, res, next) == \A h \in H : g[h] = IF ends[h] THEN res[h] ELSE g[next[h]]

\* A loop whose size falls with every turn has a value for every argument.
LEMMA LoopEnds ==
    ASSUME NEW H, NEW R, NEW N \in Nat, NEW size \in [H -> 0 .. N], NEW ends \in [H -> BOOLEAN],
           NEW next, NEW res \in [H -> R],
           \A h \in H : ~ends[h] => next[h] \in H /\ size[next[h]] < size[h]
    PROVE  \E g \in [H -> R] : Loops(g, H, ends, res, next)
<1> DEFINE D(n) == {h \in H : size[h] <= n}
           Solved(g, n) == /\ g \in [D(n) -> R]
                           /\ \A h \in D(n) : g[h] = IF ends[h] THEN res[h] ELSE g[next[h]]
           S == {n \in Nat : \E g : Solved(g, n)}
<1>1. 0 \in S
  <2> DEFINE g == [h \in D(0) |-> res[h]]
  <2>1. \A h \in D(0) : ends[h]
    <3> SUFFICES ASSUME NEW h \in D(0), ~ends[h] PROVE FALSE
      OBVIOUS
    <3>1. next[h] \in H /\ size[next[h]] < size[h] /\ size[h] <= 0
      OBVIOUS
    <3>2. size[next[h]] \in 0 .. N /\ size[h] \in 0 .. N
      BY <3>1
    <3> QED BY <3>1, <3>2
  <2>2. Solved(g, 0)
    BY <2>1
  <2> QED BY <2>2
<1>2. ASSUME NEW n \in S \cap Nat PROVE n + 1 \in S
  <2>1. PICK g : Solved(g, n)
    OBVIOUS
  <2> DEFINE k == [h \in D(n + 1) |-> IF ends[h] THEN res[h] ELSE g[next[h]]]
  <2>2. \A h \in D(n + 1) : ~ends[h] => next[h] \in D(n)
    <3> SUFFICES ASSUME NEW h \in D(n + 1), ~ends[h] PROVE next[h] \in D(n)
      OBVIOUS
    <3>1. next[h] \in H /\ size[next[h]] < size[h] /\ size[h] <= n + 1
      OBVIOUS
    <3>2. size[next[h]] \in 0 .. N /\ size[h] \in 0 .. N
      BY <3>1
    <3> QED BY <3>1, <3>2
  <2>3. D(n) \subseteq D(n + 1) /\ D(n + 1) \subseteq H
    <3>1. ASSUME NEW h \in D(n) PROVE size[h] <= n + 1
      <4>1. size[h] \in 0 .. N /\ size[h] <= n
        OBVIOUS
      <4> QED BY <4>1
    <3> QED BY <3>1
  <2> HIDE DEF D
  <2>4. k \in [D(n + 1) -> R]
    BY <2>1, <2>2, <2>3
  <2>5. \A h \in D(n) : k[h] = g[h]
    BY <2>1, <2>3
  <2>6. \A h \in D(n + 1) : k[h] = IF ends[h] THEN res[h] ELSE k[next[h]]
    BY <2>2, <2>5
  <2>7. Solved(k, n + 1)
    BY <2>4, <2>6
  <2> HIDE DEF Solved
  <2> QED BY <2>7
<1>3. Nat \subseteq S
  <2> HIDE DEF S
  <2> QED BY <1>1, <1>2, Climb
<1>4. PICK g : Solved(g, N)
  BY <1>3
<1>5. D(N) = H
  OBVIOUS
<1> HIDE DEF D
<1> QED BY <1>4, <1>5 DEF Loops

-----------------------------------------------------------------------------
(* Ages and slots *)

Ages == 0 .. count - 1

\* A remainder below the modulus is the number itself, or that less the modulus.
LEMMA Wraps ==
    ASSUME NEW n \in 0 .. 2 * BufferSize - 1
    PROVE  n % BufferSize = IF n < BufferSize THEN n ELSE n - BufferSize
<1>0. BufferSize \in Nat \ {0} /\ n \in Nat
  BY OracleAssumption
<1>1. CASE n < BufferSize
  BY <1>0, <1>1
<1>2. CASE ~(n < BufferSize)
  BY <1>0, <1>2
<1> QED BY <1>1, <1>2

\* Going round the ring from its oldest slot.
LEMMA SlotOfAge ==
    ASSUME OracleTypeOK, NEW age \in Slots
    PROVE  /\ SlotOf(age) = IF OldestSlot + age < BufferSize THEN OldestSlot + age
                            ELSE (OldestSlot + age) - BufferSize
           /\ SlotOf(age) \in Slots
<1>1. OldestSlot \in Slots /\ BufferSize \in Nat \ {0}
  BY OracleAssumption DEF OldestSlot, OracleTypeOK, Slots
<1>2. OldestSlot + age \in 0 .. 2 * BufferSize - 1
  BY <1>1 DEF Slots
<1>3. SlotOf(age) = IF OldestSlot + age < BufferSize THEN OldestSlot + age
                    ELSE (OldestSlot + age) - BufferSize
  <2>1. \A n \in 0 .. 2 * BufferSize - 1 :
           n % BufferSize = IF n < BufferSize THEN n ELSE n - BufferSize
    BY Wraps
  <2> QED BY <1>2, <2>1, Zenon DEF SlotOf
<1> QED BY <1>1, <1>2, <1>3 DEF Slots

\* The ages number the written slots from the oldest to the newest.
LEMMA AgesOrdered ==
    ASSUME OracleTypeOK, count > 0
    PROVE  /\ \A a \in Ages : a \in Slots /\ SlotOf(a) \in Written
           /\ \A i \in Written : \E a \in Ages : i = SlotOf(a)
           /\ \A a, b \in Ages : a < b => Before(SlotOf(a), SlotOf(b))
<1>0. /\ BufferSize \in Nat \ {0} /\ count \in 1 .. BufferSize
      /\ writeIndex \in 0 .. BufferSize - 1
  BY OracleAssumption DEF OracleTypeOK, Slots
<1>1. ASSUME NEW a \in Ages PROVE a \in Slots /\ SlotOf(a) \in Written
  <2>1. a \in Slots
    BY <1>0 DEF Ages, Slots
  <2> QED BY <1>0, <2>1, SlotOfAge DEF Ages, Slots, Written, OldestSlot
<1>2. ASSUME NEW i \in Written PROVE \E a \in Ages : i = SlotOf(a)
  <2> DEFINE a == IF i >= OldestSlot THEN i - OldestSlot ELSE i - OldestSlot + BufferSize
  <2>1. a \in Ages /\ a \in Slots
    BY <1>0 DEF Ages, Slots, Written, OldestSlot
  <2>2. i \in 0 .. BufferSize - 1 /\ OldestSlot \in 0 .. BufferSize - 1
    BY <1>0 DEF Written, OldestSlot, Slots
  <2>3. i = SlotOf(a)
    <3>1. SlotOf(a) = IF OldestSlot + a < BufferSize THEN OldestSlot + a
                      ELSE (OldestSlot + a) - BufferSize
      BY <2>1, SlotOfAge
    <3> QED BY <1>0, <2>2, <3>1
  <2> QED BY <2>1, <2>3
<1>3. ASSUME NEW a \in Ages, NEW b \in Ages, a < b PROVE Before(SlotOf(a), SlotOf(b))
  <2>1. /\ SlotOf(a) = IF OldestSlot + a < BufferSize THEN OldestSlot + a
                       ELSE (OldestSlot + a) - BufferSize
        /\ SlotOf(b) = IF OldestSlot + b < BufferSize THEN OldestSlot + b
                       ELSE (OldestSlot + b) - BufferSize
    BY <1>1, SlotOfAge
  <2> QED BY <1>0, <1>3, <2>1 DEF Before, OldestSlot, Ages
<1> QED BY <1>1, <1>2, <1>3

-----------------------------------------------------------------------------
(* The search *)

Middle(h) == h.lo + (h.hi - h.lo) \div 2

\* The middle of two slots lies between them, and both halves it leaves are smaller.
LEMMA Halving ==
    ASSUME NEW h \in Halves, h.lo <= h.hi
    PROVE  /\ Middle(h) \in Slots /\ h.lo <= Middle(h) /\ Middle(h) <= h.hi
           /\ Middle(h) + 1 \in 0 .. BufferSize
           /\ Middle(h) # 0 => Middle(h) - 1 \in Slots
<1>1. h.lo \in 0 .. BufferSize /\ h.hi \in 0 .. BufferSize - 1 /\ BufferSize \in Nat
  BY OracleAssumption DEF Halves, Slots
<1>2. h.hi - h.lo \in Nat
  BY <1>1
<1>3. (h.hi - h.lo) \div 2 \in Nat /\ (h.hi - h.lo) \div 2 <= h.hi - h.lo
  BY <1>2
<1> QED BY <1>1, <1>3 DEF Middle, Slots

\* What the loop does with what is left to halve.
Unfolded(f, target) ==
    \A h \in Halves :
        f[h] = IF h.lo > h.hi THEN h.found
               ELSE IF obs[SlotOf(Middle(h))].timestamp <= target
                    THEN f[[lo |-> Middle(h) + 1, hi |-> h.hi, found |-> SlotOf(Middle(h))]]
               ELSE IF Middle(h) = 0 THEN h.found
               ELSE f[[lo |-> h.lo, hi |-> Middle(h) - 1, found |-> h.found]]

\* The loop of binary_search has a value.
LEMMA SearchExists ==
    ASSUME OracleTypeOK, NEW target
    PROVE  \E f \in [Halves -> Slots] : Unfolded(f, target)
<1> DEFINE older(h) == obs[SlotOf(Middle(h))].timestamp <= target
           ends == [h \in Halves |-> h.lo > h.hi \/ (~older(h) /\ Middle(h) = 0)]
           after(h) == [lo |-> Middle(h) + 1, hi |-> h.hi, found |-> SlotOf(Middle(h))]
           upto(h) == [lo |-> h.lo, hi |-> Middle(h) - 1, found |-> h.found]
           next == [h \in Halves |-> IF older(h) THEN after(h) ELSE upto(h)]
           res == [h \in Halves |-> h.found]
           size == [h \in Halves |-> IF h.lo > h.hi THEN 0 ELSE h.hi - h.lo + 1]
<1>0. BufferSize \in Nat
  BY OracleAssumption
<1>1. size \in [Halves -> 0 .. BufferSize] /\ res \in [Halves -> Slots] /\ ends \in [Halves -> BOOLEAN]
  <2>1. \A h \in Halves : h.lo \in 0 .. BufferSize /\ h.hi \in 0 .. BufferSize - 1 /\ h.found \in Slots
    BY DEF Halves, Slots
  <2>2. \A h \in Halves : (IF h.lo > h.hi THEN 0 ELSE h.hi - h.lo + 1) \in 0 .. BufferSize
    BY <1>0, <2>1
  <2>3. ends \in [Halves -> BOOLEAN]
    <3> HIDE DEF older
    <3> QED OBVIOUS
  <2> QED BY <2>1, <2>2, <2>3
<1>2. ASSUME NEW h \in Halves, ~ends[h] PROVE next[h] \in Halves /\ size[next[h]] < size[h]
  <2>1. h.lo <= h.hi /\ (older(h) \/ Middle(h) # 0)
    <3>1. h.lo \in 0 .. BufferSize /\ h.hi \in 0 .. BufferSize - 1
      BY DEF Halves, Slots
    <3>2. ~(h.lo > h.hi \/ (~older(h) /\ Middle(h) = 0))
      <4> HIDE DEF older
      <4> QED BY <1>2
    <3>3. h.lo <= h.hi
      <4> HIDE DEF older
      <4> QED BY <1>0, <3>1, <3>2
    <3>4. older(h) \/ Middle(h) # 0
      <4> HIDE DEF older
      <4> QED BY <3>2, Zenon
    <3> QED BY <3>3, <3>4
  <2>2. /\ h.lo \in 0 .. BufferSize /\ h.hi \in 0 .. BufferSize - 1 /\ h.found \in Slots
        /\ Middle(h) \in 0 .. BufferSize - 1 /\ Middle(h) \in Slots
        /\ h.lo <= Middle(h) /\ Middle(h) <= h.hi
        /\ Middle(h) + 1 \in 0 .. BufferSize
        /\ Middle(h) # 0 => Middle(h) - 1 \in Slots /\ Middle(h) - 1 \in 0 .. BufferSize - 1
    BY <2>1, Halving DEF Halves, Slots
  <2>3. SlotOf(Middle(h)) \in Slots
    BY <2>2, SlotOfAge
  <2>4. CASE older(h)
    <3>1. next[h] = after(h)
      BY <2>4
    <3>2. after(h) \in Halves
      <4>1. h.hi \in Slots
        BY DEF Halves
      <4> QED BY <2>2, <2>3, <4>1 DEF Halves
    <3>3. after(h).lo = Middle(h) + 1 /\ after(h).hi = h.hi
      OBVIOUS
    <3>4. size[after(h)] < size[h]
      <4> HIDE DEF after
      <4> QED BY <1>0, <2>1, <2>2, <3>2, <3>3
    <3> HIDE DEF after, size, next
    <3> QED BY <3>1, <3>2, <3>4
  <2>5. CASE ~older(h)
    <3>1. next[h] = upto(h) /\ Middle(h) # 0
      <4>1. Middle(h) # 0
        <5> HIDE DEF older
        <5> QED BY <2>1, <2>5
      <4> QED BY <2>5, <4>1
    <3>2. upto(h) \in Halves
      <4>1. h.lo \in 0 .. BufferSize
        BY DEF Halves
      <4> QED BY <2>2, <3>1, <4>1 DEF Halves
    <3>3. upto(h).lo = h.lo /\ upto(h).hi = Middle(h) - 1
      OBVIOUS
    <3>4. size[upto(h)] < size[h]
      <4> HIDE DEF upto
      <4> QED BY <1>0, <2>1, <2>2, <3>1, <3>2, <3>3
    <3> HIDE DEF upto, size, next
    <3> QED BY <3>1, <3>2, <3>4
  <2> QED BY <2>4, <2>5
<1>3. PICK f \in [Halves -> Slots] : Loops(f, Halves, ends, res, next)
  <2> HIDE DEF ends, next, res, size
  <2>1. \A h \in Halves : ~ends[h] => next[h] \in Halves /\ size[next[h]] < size[h]
    BY <1>2
  <2>2. size \in [Halves -> 0 .. BufferSize]
    BY <1>1
  <2>3. res \in [Halves -> Slots]
    BY <1>1
  <2>4. ends \in [Halves -> BOOLEAN]
    BY <1>1
  <2> QED BY <1>0, <2>1, <2>2, <2>3, <2>4, LoopEnds, Zenon
<1>4. ASSUME NEW h \in Halves
      PROVE  f[h] = IF h.lo > h.hi THEN h.found
                    ELSE IF older(h) THEN f[after(h)]
                    ELSE IF Middle(h) = 0 THEN h.found ELSE f[upto(h)]
  <2>1. f[h] = IF ends[h] THEN res[h] ELSE f[next[h]]
    <3> HIDE DEF ends, res, next
    <3> QED BY <1>3 DEF Loops
  <2>2. ends[h] = (h.lo > h.hi \/ (~older(h) /\ Middle(h) = 0))
    <3> HIDE DEF older
    <3> QED OBVIOUS
  <2>3. res[h] = h.found /\ next[h] = IF older(h) THEN after(h) ELSE upto(h)
    <3> HIDE DEF older, after, upto
    <3> QED OBVIOUS
  <2> HIDE DEF ends, res, next, after, upto, older, size
  <2>4. CASE h.lo > h.hi
    BY <2>1, <2>2, <2>3, <2>4, Zenon
  <2>5. CASE ~(h.lo > h.hi)
    BY <2>1, <2>2, <2>3, <2>5, Zenon
  <2> QED BY <2>4, <2>5
<1> QED BY <1>4 DEF Unfolded

TimeAt(age) == obs[SlotOf(age)].timestamp

\* Younger observations are of later seconds.
LEMMA TimesRise ==
    ASSUME OracleTypeOK, RingOrdered, count > 0
    PROVE  /\ \A a \in Ages : TimeAt(a) \in Nat
           /\ \A a, b \in Ages : a < b => TimeAt(a) < TimeAt(b)
<1>1. ASSUME NEW a \in Ages PROVE TimeAt(a) \in Nat
  <2>1. SlotOf(a) \in Slots
    BY AgesOrdered, SlotOfAge
  <2>2. obs[SlotOf(a)] \in Observation
    BY <2>1 DEF OracleTypeOK
  <2> QED BY <2>2, OracleAssumption DEF TimeAt, Observation
<1>2. ASSUME NEW a \in Ages, NEW b \in Ages, a < b PROVE TimeAt(a) < TimeAt(b)
  <2>1. SlotOf(a) \in Written /\ SlotOf(b) \in Written /\ Before(SlotOf(a), SlotOf(b))
    BY <1>2, AgesOrdered
  <2> QED BY <2>1 DEF RingOrdered, TimeAt
<1> QED BY <1>1, <1>2

\* The slot r holds the newest observation at or before target.
Found(r, target) ==
    \E k \in Ages : /\ r = SlotOf(k) /\ TimeAt(k) <= target
                    /\ \A a \in Ages : a > k => TimeAt(a) > target

\* What the loop keeps true of what is left: everything older than lo is at or
\* before target, everything younger than hi is after it, and the slot found
\* is that of the age before lo.
Narrowed(h, target) ==
    /\ h.hi < count /\ h.lo <= h.hi + 1
    /\ \A a \in Ages : /\ a < h.lo => TimeAt(a) <= target
                       /\ a > h.hi => TimeAt(a) > target
    /\ h.found = SlotOf(IF h.lo = 0 THEN 0 ELSE h.lo - 1)

\* One turn of the loop: it ends with the slot searched for, or narrows.
LEMMA OneTurn ==
    ASSUME OracleTypeOK, RingOrdered, count > 0, NEW target \in Nat, TimeAt(0) <= target,
           NEW f, Unfolded(f, target), NEW h \in Halves, Narrowed(h, target)
    PROVE  \/ Found(f[h], target)
           \/ \E k \in Halves : /\ Narrowed(k, target) /\ f[h] = f[k]
                                /\ h.lo <= h.hi /\ k.hi - k.lo < h.hi - h.lo
<1>0. /\ h.lo \in 0 .. BufferSize /\ h.hi \in 0 .. BufferSize - 1 /\ h.found \in Slots
      /\ BufferSize \in Nat /\ count \in 1 .. BufferSize
  BY OracleAssumption DEF Halves, Slots, OracleTypeOK
<1>1. CASE h.lo > h.hi
  <2>1. f[h] = h.found /\ h.lo = h.hi + 1 /\ h.lo # 0 /\ h.lo - 1 \in Ages
    <3>1. f[h] = h.found
      BY <1>1 DEF Unfolded
    <3>2. h.hi < count /\ h.lo <= h.hi + 1
      BY DEF Narrowed
    <3> QED BY <1>0, <1>1, <3>1, <3>2 DEF Ages
  <2>2. h.found = SlotOf(h.lo - 1)
    BY <2>1 DEF Narrowed
  <2>3. TimeAt(h.lo - 1) <= target
    <3>1. h.lo - 1 < h.lo
      BY <1>0
    <3> QED BY <2>1, <3>1 DEF Narrowed
  <2>4. \A a \in Ages : a > h.lo - 1 => TimeAt(a) > target
    <3>1. h.lo - 1 = h.hi
      BY <1>0, <2>1
    <3> QED BY <3>1 DEF Narrowed
  <2> QED BY <2>1, <2>2, <2>3, <2>4 DEF Found
<1>2. CASE h.lo <= h.hi
  <2> DEFINE mid == Middle(h)
  <2>1. /\ mid \in Slots /\ h.lo <= mid /\ mid <= h.hi /\ mid + 1 \in 0 .. BufferSize
        /\ mid # 0 => mid - 1 \in Slots
    BY <1>2, Halving
  <2>2. mid \in Ages /\ mid \in Nat /\ 0 \in Ages
    BY <1>0, <2>1 DEF Narrowed, Ages, Slots
  <2>3. \A a \in Ages : a \in Nat /\ TimeAt(a) \in Nat
    BY TimesRise DEF Ages
  <2>4. ~(h.lo > h.hi)
    BY <1>0, <1>2
  <2>5. CASE TimeAt(mid) <= target
    <3> DEFINE k == [lo |-> mid + 1, hi |-> h.hi, found |-> SlotOf(mid)]
    <3>1. k \in Halves /\ k.lo = mid + 1 /\ k.hi = h.hi /\ k.found = SlotOf(mid)
      <4>1. SlotOf(mid) \in Slots
        BY <2>1, SlotOfAge
      <4>2. h.hi \in Slots
        BY DEF Halves
      <4> HIDE DEF mid
      <4> QED BY <2>1, <4>1, <4>2 DEF Halves
    <3>2. f[h] = f[k]
      BY <2>4, <2>5 DEF Unfolded, TimeAt
    <3> HIDE DEF k, mid
    <3>3. \A a \in Ages : a < mid + 1 => TimeAt(a) <= target
      <4> SUFFICES ASSUME NEW a \in Ages, a < mid + 1 PROVE TimeAt(a) <= target
        OBVIOUS
      <4>1. a = mid \/ a < mid
        BY <2>2, <2>3
      <4>2. a < mid => TimeAt(a) < TimeAt(mid)
        BY <2>2, TimesRise
      <4> QED BY <2>2, <2>3, <2>5, <4>1, <4>2
    <3>4. mid + 1 # 0 /\ (mid + 1) - 1 = mid /\ mid + 1 <= h.hi + 1
      BY <1>0, <2>1, <2>2
    <3>5. Narrowed(k, target)
      BY <3>1, <3>3, <3>4 DEF Narrowed
    <3>6. k.hi - k.lo < h.hi - h.lo
      BY <1>0, <2>1, <2>2, <3>1
    <3> QED BY <1>2, <3>1, <3>2, <3>5, <3>6
  <2>6. CASE ~(TimeAt(mid) <= target)
    <3> DEFINE k == [lo |-> h.lo, hi |-> mid - 1, found |-> h.found]
    <3>0. mid # 0
      <4> HIDE DEF mid
      <4> QED BY <2>6
    <3>1. k \in Halves /\ k.lo = h.lo /\ k.hi = mid - 1 /\ k.found = h.found
      <4>1. h.lo \in 0 .. BufferSize
        BY DEF Halves
      <4> HIDE DEF mid
      <4> QED BY <1>0, <2>1, <3>0, <4>1 DEF Halves
    <3>2. f[h] = f[k]
      BY <2>4, <2>6, <3>0 DEF Unfolded, TimeAt
    <3> HIDE DEF k, mid
    <3>3. \A a \in Ages : a > mid - 1 => TimeAt(a) > target
      <4> SUFFICES ASSUME NEW a \in Ages, a > mid - 1 PROVE TimeAt(a) > target
        OBVIOUS
      <4>1. a = mid \/ mid < a
        BY <2>2, <2>3
      <4>2. mid < a => TimeAt(mid) < TimeAt(a)
        BY <2>2, TimesRise
      <4> QED BY <2>2, <2>3, <2>6, <4>1, <4>2
    <3>4. mid - 1 < count /\ h.lo <= (mid - 1) + 1
      BY <1>0, <2>1, <2>2 DEF Ages
    <3>5. Narrowed(k, target)
      BY <3>1, <3>3, <3>4 DEF Narrowed
    <3>6. k.hi - k.lo < h.hi - h.lo
      BY <1>0, <2>1, <2>2, <3>1
    <3> QED BY <1>2, <3>1, <3>2, <3>5, <3>6
  <2> QED BY <2>5, <2>6
<1>3. h.lo > h.hi \/ h.lo <= h.hi
  BY <1>0
<1> QED BY <1>1, <1>2, <1>3

\* binary_search_observation finds the newest observation at or before target,
\* whenever the oldest one is.
LEMMA SearchFinds ==
    ASSUME OracleTypeOK, RingOrdered, count > 0, NEW target \in Nat, TimeAt(0) <= target
    PROVE  Found(BinarySearch(target), target)
<1> DEFINE Solves(g) == g = [h \in Halves |->
                               LET mid == h.lo + (h.hi - h.lo) \div 2
                               IN IF h.lo > h.hi THEN h.found
                                  ELSE IF obs[SlotOf(mid)].timestamp <= target
                                       THEN g[[lo |-> mid + 1, hi |-> h.hi, found |-> SlotOf(mid)]]
                                  ELSE IF mid = 0 THEN h.found
                                  ELSE g[[lo |-> h.lo, hi |-> mid - 1, found |-> h.found]]]
           search == CHOOSE g : Solves(g)
           all == [lo |-> 0, hi |-> count - 1, found |-> OldestSlot]
<1>0. BufferSize \in Nat /\ count \in 1 .. BufferSize
  BY OracleAssumption DEF OracleTypeOK
<1>1. BinarySearch(target) = search[all]
  BY Zenon DEF BinarySearch
<1>2. PICK g \in [Halves -> Slots] : Unfolded(g, target)
  BY SearchExists
<1>3. Solves(g)
  <2>1. g = [h \in Halves |-> g[h]]
    OBVIOUS
  <2> QED BY <1>2, <2>1, Zenon DEF Unfolded, Middle
<1>4. Solves(search)
  BY <1>3, Zenon
<1> HIDE DEF search
<1>5. Unfolded(search, target)
  BY <1>4 DEF Unfolded, Middle
<1> HIDE DEF Solves
<1> DEFINE S == {n \in Nat : \A h \in Halves : Narrowed(h, target) /\ h.hi - h.lo < n
                                               => Found(search[h], target)}
<1>6. \A h \in Halves : h.hi \in Nat /\ h.lo \in Nat /\ h.hi <= BufferSize
  BY <1>0 DEF Halves, Slots
<1>7. 0 \in S
  <2> SUFFICES ASSUME NEW h \in Halves, Narrowed(h, target), h.hi - h.lo < 0
               PROVE  Found(search[h], target)
    OBVIOUS
  <2>1. ~(h.lo <= h.hi)
    BY <1>6
  <2> QED BY <1>5, <2>1, OneTurn
<1>8. ASSUME NEW n \in S \cap Nat PROVE n + 1 \in S
  <2> SUFFICES ASSUME NEW h \in Halves, Narrowed(h, target), h.hi - h.lo < n + 1
               PROVE  Found(search[h], target)
    OBVIOUS
  <2>1. CASE Found(search[h], target)
    BY <2>1
  <2>2. CASE ~Found(search[h], target)
    <3>1. PICK k \in Halves : /\ Narrowed(k, target) /\ search[h] = search[k]
                              /\ k.hi - k.lo < h.hi - h.lo
      BY <1>5, <2>2, OneTurn
    <3>2. k.hi - k.lo < n
      BY <1>6, <3>1
    <3>3. Found(search[k], target)
      BY <3>1, <3>2
    <3> QED BY <3>1, <3>3
  <2> QED BY <2>1, <2>2
<1>9. Nat \subseteq S
  <2> HIDE DEF S
  <2> QED BY <1>7, <1>8, Climb
<1>10. all \in Halves /\ all.lo = 0 /\ all.hi = count - 1 /\ all.found = OldestSlot
  <2>1. OldestSlot \in Slots /\ count - 1 \in Slots /\ 0 \in 0 .. BufferSize
    BY <1>0 DEF OldestSlot, OracleTypeOK, Slots
  <2> QED BY <2>1 DEF Halves
<1> HIDE DEF all
<1>11. Narrowed(all, target)
  <2>1. OldestSlot = SlotOf(0)
    BY <1>0, SlotOfAge DEF Slots, OldestSlot, OracleTypeOK
  <2>2. \A a \in Ages : ~(a < 0) /\ ~(a > count - 1)
    BY <1>0 DEF Ages
  <2>3. count - 1 < count /\ 0 <= (count - 1) + 1
    BY <1>0
  <2> QED BY <1>10, <2>1, <2>2, <2>3 DEF Narrowed
<1>12. all.hi - all.lo < BufferSize
  BY <1>0, <1>10
<1> QED BY <1>0, <1>1, <1>9, <1>10, <1>11, <1>12

-----------------------------------------------------------------------------
(* What the accumulators add up to *)

\* Every observation is of a past second, and accumulates what was credited to
\* the seconds before it, as far as the accumulator goes.
CreditKept ==
    /\ ~initialized => count = 0
    /\ count = 0 => \A t \in Seconds : credit[t] = 0
    /\ \A i \in Written : /\ 1 <= obs[i].timestamp /\ obs[i].timestamp <= now
                          /\ obs[i].cumulative = Saturated(SumBefore(credit, obs[i].timestamp))

TwapInv == RingInv /\ CreditKept

\* Saturating a sum twice is saturating it once.
LEMMA SaturatedSum ==
    ASSUME NEW a \in Nat, NEW b \in Nat
    PROVE  Saturated(Saturated(a) + Saturated(b)) = Saturated(a + b)
BY OracleAssumption DEF Saturated

\* What a second is credited, a price or nothing, is a number.
LEMMA CreditTyped ==
    ASSUME NEW f \in [Seconds -> Prices \cup {0}]
    PROVE  f \in [Seconds -> Nat]
<1>1. \A x \in Prices \cup {0} : x \in Nat
  BY OracleAssumption
<1> QED BY <1>1

\* What a slot in use holds.
LEMMA ObservationTyped ==
    ASSUME OracleTypeOK, NEW i \in Slots
    PROVE  /\ obs[i] \in Observation
           /\ obs[i].timestamp \in 0 .. MaxTime /\ obs[i].timestamp \in Nat
           /\ obs[i].cumulative \in 0 .. MaxCum /\ obs[i].cumulative \in Nat
BY OracleAssumption DEF OracleTypeOK, Observation

\* An append credits the price to the seconds since the newest observation, and
\* accumulates just that.
LEMMA AppendCredits ==
    ASSUME TwapInv, NEW p \in Prices, Append(p), UNCHANGED <<now, initialized>>, initialized,
           count > 0 => obs[NewestSlot].timestamp < now, OracleTypeOK'
    PROVE  CreditKept'
<1>0. /\ OracleTypeOK /\ RingShape /\ RingOrdered /\ CreditKept
      /\ BufferSize \in Nat \ {0} /\ MaxTime \in Nat /\ now \in 1 .. MaxTime /\ count \in 0 .. BufferSize
  BY OracleAssumption DEF TwapInv, RingInv, OracleTypeOK
<1>1. /\ credit \in [Seconds -> Nat] /\ credit' \in [Seconds -> Nat] /\ p \in Nat
      /\ now \in 0 .. MaxTime
  <2>1. credit \in [Seconds -> Nat]
    BY <1>0, CreditTyped DEF OracleTypeOK
  <2>2. credit' \in [Seconds -> Prices \cup {0}]
    BY DEF OracleTypeOK
  <2>3. credit' \in [Seconds -> Nat]
    BY <2>2, CreditTyped
  <2> QED BY <1>0, <2>1, <2>3, OracleAssumption
<1>2. /\ count' = IF count < BufferSize THEN count + 1 ELSE BufferSize
      /\ count' # 0
  BY <1>0, AppendIndex
<1> DEFINE new == [timestamp |-> now, cumulative |-> Accumulated(p)]
           last == obs[NewestSlot].timestamp
<1>3. writeIndex \in Slots /\ obs \in [Slots -> Observation]
  BY <1>0 DEF OracleTypeOK
<1>4. obs' = [obs EXCEPT ![writeIndex] = new]
  BY DEF Append
<1>5. obs'[writeIndex] = new /\ \A i \in Slots : i # writeIndex => obs'[i] = obs[i]
  BY <1>3, <1>4
<1>6. SumBefore(credit', now) \in Nat /\ Accumulated(p) = Saturated(SumBefore(credit', now))
  <2>0. SumBefore(credit', now) \in Nat
    BY <1>1, SumBeforeSteps
  <2>1. CASE count = 0
    <3>1. credit' = credit /\ \A u \in 0 .. now - 1 : u \in Seconds
      BY <1>0, <2>1 DEF Append, Seconds
    <3>2. \A u \in 0 .. now - 1 : credit[u] = 0
      BY <1>0, <2>1, <3>1 DEF CreditKept
    <3>3. now \in 0 .. MaxTime /\ 0 \in 0 .. MaxTime /\ now - 0 = now
      BY <1>0
    <3>4. SumBefore(credit, now) = SumBefore(credit, 0) + 0 * (now - 0)
      BY <1>1, <3>2, <3>3, ConstantSum
    <3>5. SumBefore(credit, 0) = 0 /\ 0 * (now - 0) = 0
      BY <1>0, <1>1, SumBeforeSteps
    <3>6. Saturated(0) = 0
      BY OracleAssumption DEF Saturated
    <3> QED BY <2>0, <2>1, <3>1, <3>4, <3>5, <3>6 DEF Accumulated
  <2>2. CASE count # 0
    <3>1. NewestSlot \in Written /\ NewestSlot \in Slots /\ last < now
      BY <1>0, <2>2, NewestIsLast DEF NewestSlot, Slots, OracleTypeOK
    <3>2. /\ last \in Nat /\ last \in 0 .. MaxTime /\ now \in last .. MaxTime
          /\ last <= MaxTime /\ now - last \in Nat
      BY <1>0, <3>1, ObservationTyped
    <3>3. obs[NewestSlot].cumulative = Saturated(SumBefore(credit, last))
      BY <1>0, <3>1 DEF CreditKept
    <3>4. credit' = [t \in Seconds |-> IF last <= t /\ t < now THEN p ELSE credit[t]]
      BY <2>2 DEF Append
    <3> HIDE DEF last
    <3>5. SumBefore(credit', now) = SumBefore(credit', last) + p * (now - last)
      <4>1. \A u \in last .. now - 1 : u \in Seconds /\ last <= u /\ u < now
        BY <1>0, <3>2 DEF Seconds
      <4>2. \A u \in last .. now - 1 : credit'[u] = p
        BY <3>4, <4>1
      <4> QED BY <1>1, <3>2, <4>2, ConstantSum
    <3>6. SumBefore(credit', last) = SumBefore(credit, last) /\ SumBefore(credit, last) \in Nat
      <4>1. \A u \in 0 .. last - 1 : u \in Seconds /\ ~(last <= u)
        BY <1>0, <3>2 DEF Seconds
      <4>2. \A u \in 0 .. last - 1 : credit'[u] = credit[u]
        BY <3>4, <4>1
      <4>3. SumBefore(credit', last) = SumBefore(credit, last)
        BY <1>1, <3>2, <4>2, SumsAgree
      <4> QED BY <1>1, <3>2, <4>3, SumBeforeSteps
    <3>7. p * (now - last) \in Nat
      BY <1>1, <3>2, OneMoreTime
    <3>8. Accumulated(p) = Saturated(Saturated(SumBefore(credit, last)) + Saturated(p * (now - last)))
      BY <2>2, <3>3, Zenon DEF Accumulated, last
    <3>9. Accumulated(p) = Saturated(SumBefore(credit, last) + p * (now - last))
      BY <3>6, <3>7, <3>8, SaturatedSum
    <3> QED BY <2>0, <3>5, <3>6, <3>9
  <2> QED BY <2>1, <2>2
<1>7. ASSUME NEW i \in Written'
      PROVE  /\ 1 <= obs'[i].timestamp /\ obs'[i].timestamp <= now
             /\ obs'[i].cumulative = Saturated(SumBefore(credit', obs'[i].timestamp))
  <2>1. CASE i = writeIndex
    <3>1. obs'[i].timestamp = now /\ obs'[i].cumulative = Accumulated(p)
      BY <1>5, <2>1
    <3>2. 1 <= now /\ now <= now
      BY <1>0
    <3> QED BY <1>6, <3>1, <3>2
  <2>2. CASE i # writeIndex
    <3>1. i \in Written
      BY <1>0, <2>2, AppendKeepsOrder
    <3>2. i \in Slots /\ count # 0
      BY <1>0, <3>1 DEF Written, Slots
    <3>3. obs'[i] = obs[i]
      BY <1>5, <2>2, <3>2
    <3> DEFINE t == obs[i].timestamp
    <3>4. 1 <= t /\ t <= now /\ obs[i].cumulative = Saturated(SumBefore(credit, t))
      BY <1>0, <3>1 DEF CreditKept
    <3>5. t \in Nat /\ t \in 0 .. MaxTime
      BY <1>0, <3>2, ObservationTyped
    <3>6. t <= last /\ last \in Nat
      <4>1. NewestSlot \in Written /\ NewestSlot \in Slots /\ (i = NewestSlot \/ Before(i, NewestSlot))
        BY <1>0, <3>1, <3>2, NewestIsLast DEF NewestSlot, Slots, OracleTypeOK
      <4>2. last \in Nat
        BY <1>0, <4>1, ObservationTyped
      <4>3. CASE i = NewestSlot
        BY <4>2, <4>3
      <4>4. CASE Before(i, NewestSlot)
        BY <1>0, <3>1, <3>5, <4>1, <4>2, <4>4 DEF RingOrdered
      <4> QED BY <4>1, <4>2, <4>3, <4>4
    <3>7. credit' = [u \in Seconds |-> IF last <= u /\ u < now THEN p ELSE credit[u]]
      BY <3>2 DEF Append
    <3> HIDE DEF last, t
    <3>8. \A u \in 0 .. t - 1 : u \in Seconds /\ ~(last <= u)
      BY <1>0, <3>5, <3>6 DEF Seconds
    <3>9. \A u \in 0 .. t - 1 : credit'[u] = credit[u]
      BY <3>7, <3>8
    <3>10. SumBefore(credit', t) = SumBefore(credit, t)
      BY <1>1, <3>5, <3>9, SumsAgree
    <3>11. obs'[i].timestamp = t /\ obs'[i].cumulative = obs[i].cumulative
      BY <3>3 DEF t
    <3> QED BY <3>4, <3>10, <3>11
  <2> QED BY <2>1, <2>2
<1> QED BY <1>2, <1>7 DEF CreditKept

\* Nothing is credited before the first write.
LEMMA TwapInvInit == OracleInit => TwapInv
<1> SUFFICES ASSUME OracleInit PROVE CreditKept
  BY RingInvInit DEF TwapInv
<1>1. count = 0 /\ Written = {} /\ credit = [t \in Seconds |-> 0]
  BY OracleAssumption DEF OracleInit, Written
<1> QED BY <1>1 DEF CreditKept

\* Every call credits each second to the price then in force, and no other.
LEMMA TwapInvStep == TwapInv /\ [OracleNext]_vars => TwapInv'
<1> SUFFICES ASSUME TwapInv, [OracleNext]_vars PROVE TwapInv'
  OBVIOUS
<1>1. RingInv /\ CreditKept /\ OracleTypeOK
  BY DEF TwapInv, RingInv
<1>2. RingInv' /\ OracleTypeOK'
  BY <1>1, RingInvStep DEF RingInv
<1>3. CASE UNCHANGED <<initialized, count, obs, credit>> /\ now' \in {now, now + 1}
  <2>1. Written' = Written
    BY <1>3 DEF Written
  <2>2. ASSUME NEW i \in Written PROVE obs[i].timestamp <= now'
    <3>1. i \in Slots
      BY <1>1, OracleAssumption DEF OracleTypeOK, Written, Slots
    <3>2. obs[i].timestamp \in Nat /\ now \in Nat /\ obs[i].timestamp <= now
      BY <1>1, <3>1, <2>2, ObservationTyped DEF OracleTypeOK, CreditKept
    <3> QED BY <1>3, <3>2
  <2>3. CreditKept'
    BY <1>1, <1>3, <2>1, <2>2 DEF CreditKept
  <2> QED BY <1>2, <2>3 DEF TwapInv
<1>4. CASE Initialize
  <2>1. count' = 0 /\ credit' = credit /\ count = 0
    BY <1>1, <1>4 DEF Initialize, CreditKept
  <2>2. Written' = {}
    BY <2>1, OracleAssumption DEF Written
  <2>3. CreditKept'
    BY <1>1, <2>1, <2>2 DEF CreditKept
  <2> QED BY <1>2, <2>3 DEF TwapInv
<1>5. ASSUME NEW p \in Prices, Swap(p) PROVE TwapInv'
  <2>1. CreditKept'
    BY <1>2, <1>5, AppendCredits DEF Swap
  <2> QED BY <1>2, <2>1 DEF TwapInv
<1>6. ASSUME NEW p \in Prices, SwapUnwired(p) \/ SwapSameLedger(p) PROVE TwapInv'
  BY <1>3, <1>6 DEF SwapUnwired, SwapSameLedger
<1>7. CASE Tick \/ SetOracle \/ UNCHANGED vars
  BY <1>3, <1>7 DEF Tick, SetOracle, vars
<1> QED BY <1>4, <1>5, <1>6, <1>7 DEF OracleNext

-----------------------------------------------------------------------------
(* The answer *)

\* The written slots are at the times of their ages, which are within the past.
LEMMA TimesOf ==
    ASSUME TwapInv, count > 0
    PROVE  /\ \A i \in Written : /\ i \in Slots /\ obs[i].timestamp \in 0 .. MaxTime
                                 /\ 1 <= obs[i].timestamp /\ obs[i].timestamp <= now
                                 /\ \E a \in Ages : obs[i].timestamp = TimeAt(a)
           /\ \A a \in Ages : /\ SlotOf(a) \in Written /\ TimeAt(a) = obs[SlotOf(a)].timestamp
                              /\ TimeAt(0) <= TimeAt(a)
           /\ 0 \in Ages /\ OldestSlot = SlotOf(0)
           /\ count - 1 \in Ages /\ NewestSlot = SlotOf(count - 1)
<1>0. /\ OracleTypeOK /\ RingShape /\ RingOrdered /\ CreditKept
      /\ BufferSize \in Nat \ {0} /\ count \in 1 .. BufferSize /\ writeIndex \in 0 .. BufferSize - 1
  BY OracleAssumption DEF TwapInv, RingInv, OracleTypeOK, Slots
<1>1. ASSUME NEW i \in Written
      PROVE  /\ i \in Slots /\ obs[i].timestamp \in 0 .. MaxTime
             /\ 1 <= obs[i].timestamp /\ obs[i].timestamp <= now
             /\ \E a \in Ages : obs[i].timestamp = TimeAt(a)
  <2>1. i \in Slots
    BY <1>0 DEF Written, Slots
  <2>2. obs[i].timestamp \in 0 .. MaxTime
    BY <1>0, <2>1, ObservationTyped
  <2>3. PICK a \in Ages : i = SlotOf(a)
    BY <1>0, AgesOrdered
  <2> QED BY <1>0, <2>1, <2>2, <2>3 DEF CreditKept, TimeAt
<1>2. 0 \in Ages /\ count - 1 \in Ages
  BY <1>0 DEF Ages
<1>3. ASSUME NEW a \in Ages
      PROVE  /\ SlotOf(a) \in Written /\ TimeAt(a) = obs[SlotOf(a)].timestamp
             /\ TimeAt(0) <= TimeAt(a)
  <2>1. SlotOf(a) \in Written
    BY <1>0, AgesOrdered
  <2>2. a = 0 \/ 0 < a
    BY <1>0 DEF Ages
  <2>3. TimeAt(0) \in Nat /\ TimeAt(a) \in Nat /\ (0 < a => TimeAt(0) < TimeAt(a))
    BY <1>0, <1>2, TimesRise
  <2> QED BY <2>1, <2>2, <2>3 DEF TimeAt
<1>4. OldestSlot = SlotOf(0) /\ NewestSlot = SlotOf(count - 1)
  <2>1. 0 \in Slots /\ count - 1 \in Slots
    BY <1>0 DEF Slots
  <2>2. /\ SlotOf(0) = IF OldestSlot + 0 < BufferSize THEN OldestSlot + 0
                       ELSE (OldestSlot + 0) - BufferSize
        /\ SlotOf(count - 1) = IF OldestSlot + (count - 1) < BufferSize
                               THEN OldestSlot + (count - 1)
                               ELSE (OldestSlot + (count - 1)) - BufferSize
    BY <1>0, <2>1, SlotOfAge
  <2> QED BY <1>0, <2>2 DEF OldestSlot, NewestSlot, RingShape
<1> QED BY <1>1, <1>2, <1>3, <1>4

\* The accumulators of two observations differ by what was credited between them,
\* as long as the newer one is not at the maximum.
LEMMA Difference ==
    ASSUME TwapInv, count > 0, NEW a \in Ages, TimeAt(a) # now,
           obs[NewestSlot].timestamp = now, obs[NewestSlot].cumulative < MaxCum
    PROVE  /\ obs[NewestSlot].cumulative = SumBefore(credit, now)
           /\ obs[SlotOf(a)].cumulative = SumBefore(credit, TimeAt(a))
           /\ obs[SlotOf(a)].cumulative <= obs[NewestSlot].cumulative
           /\ obs[NewestSlot].cumulative \in Nat /\ obs[SlotOf(a)].cumulative \in Nat
<1>0. /\ OracleTypeOK /\ RingShape /\ RingOrdered /\ CreditKept
      /\ count \in Nat /\ MaxCum \in Nat /\ now \in 0 .. MaxTime
  BY OracleAssumption DEF TwapInv, RingInv, OracleTypeOK
<1> DEFINE s == SlotOf(a)
<1>1. /\ s \in Written /\ s \in Slots /\ TimeAt(a) = obs[s].timestamp
      /\ NewestSlot = SlotOf(count - 1) /\ count - 1 \in Ages
      /\ NewestSlot \in Written /\ NewestSlot \in Slots
  BY TimesOf
<1> HIDE DEF s
<1>2. /\ obs[s].cumulative \in Nat /\ obs[NewestSlot].cumulative \in Nat
      /\ obs[s].timestamp \in 0 .. MaxTime
  BY <1>0, <1>1, ObservationTyped
<1>3. obs[s].cumulative <= obs[NewestSlot].cumulative
  <2>1. a # count - 1
    BY <1>1 DEF TimeAt
  <2>2. a < count - 1
    BY <1>0, <2>1 DEF Ages
  <2>3. Before(s, NewestSlot)
    BY <1>0, <1>1, <2>2, AgesOrdered DEF s
  <2> QED BY <1>0, <1>1, <2>3 DEF RingOrdered
<1>4. credit \in [Seconds -> Nat]
  BY <1>0, CreditTyped DEF OracleTypeOK
<1>5. /\ SumBefore(credit, now) \in Nat /\ SumBefore(credit, obs[s].timestamp) \in Nat
  BY <1>0, <1>2, <1>4, SumBeforeSteps
<1>6. /\ obs[NewestSlot].cumulative = Saturated(SumBefore(credit, now))
      /\ obs[s].cumulative = Saturated(SumBefore(credit, obs[s].timestamp))
  BY <1>0, <1>1 DEF CreditKept
<1>7. \A n \in Nat : Saturated(n) < MaxCum => Saturated(n) = n
  BY <1>0 DEF Saturated
<1>8. obs[s].cumulative < MaxCum
  BY <1>0, <1>2, <1>3
<1>9. /\ obs[NewestSlot].cumulative = SumBefore(credit, now)
      /\ obs[s].cumulative = SumBefore(credit, obs[s].timestamp)
  BY <1>5, <1>6, <1>7, <1>8
<1> QED BY <1>1, <1>2, <1>3, <1>9 DEF s

\* get_twap answers just when the ring covers the window, and then gives the mean.
LEMMA TwapMeans == TwapInv => TwapSpansWindow
<1> SUFFICES ASSUME TwapInv PROVE TwapSpansWindow
  OBVIOUS
<1>0. /\ OracleTypeOK /\ RingShape /\ RingOrdered /\ CreditKept
      /\ count \in Nat /\ now \in Nat /\ now \in 1 .. MaxTime /\ initialized \in BOOLEAN
      /\ MaxTime \in Nat /\ BufferSize \in Nat \ {0} /\ count <= BufferSize
  BY OracleAssumption DEF TwapInv, RingInv, OracleTypeOK
<1> DEFINE times == {obs[i].timestamp : i \in Written}
           starts(w) == {t \in times : t <= now - w}
           covered(w) == initialized /\ now \in times /\ starts(w) # {}
           start(w) == CHOOSE t \in starts(w) : \A u \in starts(w) : u <= t
           answers(w) == Answered(w) <=> (covered(w) /\ start(w) < now)
           mean(w) == Answered(w) /\ obs[NewestSlot].cumulative < MaxCum =>
                         Twap(w) = (SumBefore(credit, now) - SumBefore(credit, start(w)))
                                      \div (now - start(w))
<1>1. ASSUME NEW w \in 0 .. MaxTime PROVE answers(w) /\ mean(w)
  <2>0. w \in Nat
    BY <1>0
  <2>1. CASE count < 2
    <3>1. ~Answered(w)
      <4>1. initialized => Refusal(w) = "InsufficientHistory"
        BY <1>0, <2>1 DEF Refusal
      <4>2. ~initialized => Refusal(w) = "NotInitialized"
        BY <1>0, <2>1 DEF Refusal
      <4> QED BY <4>1, <4>2 DEF Answered
    <3>2. ASSUME covered(w), start(w) < now PROVE FALSE
      <4>1. PICK j \in Written : now = obs[j].timestamp
        BY <3>2
      <4>2. count = 1 /\ Written = {0}
        BY <1>0, <2>1, <4>1 DEF Written, Slots
      <4>3. \A t \in starts(w) : t = now
        BY <4>1, <4>2
      <4>4. PICK t \in starts(w) : TRUE
        BY <3>2
      <4>5. \A u \in starts(w) : u <= t
        BY <1>0, <4>3, <4>4
      <4>6. start(w) \in starts(w)
        <5> HIDE DEF starts
        <5> QED BY <4>4, <4>5
      <4>7. start(w) = now
        <5> HIDE DEF starts, start
        <5> QED BY <4>3, <4>6
      <4> HIDE DEF start
      <4> QED BY <1>0, <3>2, <4>7
    <3> HIDE DEF covered, start
    <3> QED BY <3>1, <3>2
  <2>2. CASE ~(count < 2)
    <3> DEFINE latest == obs[NewestSlot].timestamp
               target == WindowStart(w)
    <3>0. initialized /\ count >= 2 /\ count > 0
      BY <1>0, <2>2 DEF CreditKept
    <3>1. /\ NewestSlot \in Written /\ latest \in Nat /\ latest <= now
          /\ OldestSlot \in Written /\ obs[OldestSlot].timestamp = TimeAt(0)
          /\ TimeAt(0) \in Nat /\ 1 <= TimeAt(0)
      BY <1>0, <3>0, TimesOf DEF TimeAt
    <3>2. \A t \in times : /\ t \in Nat /\ 1 <= t /\ t <= now /\ TimeAt(0) <= t
                           /\ \E a \in Ages : t = TimeAt(a)
      BY <1>0, <3>0, TimesOf
    <3>3. CASE latest # now
      <4>1. latest < now
        BY <1>0, <3>1, <3>3
      <4>2. Refusal(w) = "StaleObservation"
        BY <1>0, <3>0, <3>1, <4>1 DEF Refusal
      <4>3. ~Answered(w)
        BY <4>2 DEF Answered
      <4>4. now \notin times
        <5> SUFFICES ASSUME NEW i \in Written, obs[i].timestamp = now PROVE FALSE
          OBVIOUS
        <5>1. i = NewestSlot \/ Before(i, NewestSlot)
          BY <1>0, <3>0, NewestIsLast
        <5>2. obs[i].timestamp < latest \/ obs[i].timestamp = latest
          BY <1>0, <3>1, <5>1 DEF RingOrdered
        <5> QED BY <1>0, <3>1, <4>1, <5>2
      <4> HIDE DEF times, starts, start
      <4> QED BY <4>3, <4>4
    <3>4. CASE latest = now
      <4>0. target = IF w > now THEN 0 ELSE now - w
        BY <3>4 DEF WindowStart
      <4>1. target \in Nat /\ now \in times
        <5>1. now \in times
          BY <3>1, <3>4
        <5> QED BY <1>0, <2>0, <4>0, <5>1
      <4>2. CASE TimeAt(0) > target
        <5>1. Refusal(w) = "WindowTooLarge"
          <6>1. ~(latest < now) /\ latest >= now
            BY <1>0, <3>4
          <6> QED BY <1>0, <3>0, <3>1, <4>2, <6>1 DEF Refusal
        <5>2. ~Answered(w)
          BY <5>1 DEF Answered
        <5>3. starts(w) = {}
          <6> SUFFICES ASSUME NEW t \in times, t <= now - w PROVE FALSE
            OBVIOUS
          <6>1. t \in Nat /\ 1 <= t /\ TimeAt(0) <= t
            BY <3>2
          <6> HIDE DEF times, target
          <6> QED BY <1>0, <2>0, <3>1, <4>0, <4>1, <4>2, <6>1
        <5> HIDE DEF times, starts, start
        <5> QED BY <5>2, <5>3
      <4>3. CASE ~(TimeAt(0) > target)
        <5>1. TimeAt(0) <= target /\ target = now - w /\ target <= now
          BY <1>0, <2>0, <3>1, <4>0, <4>1, <4>3
        <5>2. Found(BinarySearch(target), target)
          <6> HIDE DEF target
          <6> QED BY <1>0, <3>0, <4>1, <5>1, SearchFinds
        <5>3. PICK k \in Ages : /\ BinarySearch(target) = SlotOf(k) /\ TimeAt(k) <= target
                                /\ \A a \in Ages : a > k => TimeAt(a) > target
          BY <5>2 DEF Found
        <5>4. /\ SlotOf(k) \in Written /\ TimeAt(k) = obs[SlotOf(k)].timestamp
              /\ TimeAt(k) \in times /\ TimeAt(k) \in Nat
          BY <3>0, <3>2, TimesOf
        <5>5. TimeAt(k) \in starts(w)
          <6> HIDE DEF times, target
          <6> QED BY <5>1, <5>3, <5>4
        <5>6. ASSUME NEW t \in starts(w) PROVE t <= TimeAt(k) /\ t \in Nat
          <6>1. t \in times /\ t <= now - w
            OBVIOUS
          <6>2. PICK a \in Ages : t = TimeAt(a)
            BY <3>2, <6>1
          <6>3. ~(TimeAt(a) > target)
            <7> HIDE DEF times, target, starts
            <7> QED BY <1>0, <3>2, <5>1, <6>1, <6>2
          <6>4. a = k \/ a < k
            BY <1>0, <5>3, <6>3 DEF Ages
          <6>5. a < k => TimeAt(a) < TimeAt(k)
            BY <1>0, <3>0, TimesRise
          <6>6. t \in Nat
            BY <3>2, <6>1
          <6> HIDE DEF times, starts
          <6> QED BY <5>4, <6>2, <6>4, <6>5, <6>6
        <5>7. start(w) = TimeAt(k)
          <6>1. \A u \in starts(w) : u <= TimeAt(k)
            BY <5>6
          <6>2. start(w) \in starts(w) /\ \A u \in starts(w) : u <= start(w)
            <7> HIDE DEF starts
            <7> QED BY <5>5, <6>1
          <6> HIDE DEF start
          <6>3. start(w) \in Nat /\ start(w) <= TimeAt(k) /\ TimeAt(k) <= start(w)
            BY <5>5, <5>6, <6>2
          <6> QED BY <5>4, <6>3
        <5>8. covered(w)
          <6> HIDE DEF times, starts
          <6> QED BY <3>0, <4>1, <5>5
        <5>9. Refusal(w) = IF TimeAt(k) = now THEN "InsufficientHistory" ELSE "none"
          <6>1. ~(latest < now) /\ latest >= now
            BY <1>0, <3>4
          <6>2. ~(obs[OldestSlot].timestamp > target)
            BY <3>1, <4>3
          <6>3. obs[BinarySearch(target)].timestamp = TimeAt(k)
            BY <5>3, <5>4
          <6>4. Refusal(w) = IF obs[BinarySearch(target)].timestamp = latest
                             THEN "InsufficientHistory" ELSE "none"
            <7> HIDE DEF times, starts, start
            <7> QED BY <1>0, <3>0, <6>1, <6>2 DEF Refusal
          <6> QED BY <3>4, <6>3, <6>4
        <5>10. Answered(w) <=> TimeAt(k) # now
          BY <5>9 DEF Answered
        <5>11. TimeAt(k) <= now
          BY <3>2, <5>4
        <5>12. answers(w)
          <6>1. TimeAt(k) # now <=> TimeAt(k) < now
            BY <1>0, <5>4, <5>11
          <6> HIDE DEF covered, start
          <6> QED BY <5>7, <5>8, <5>10, <6>1
        <5>13. ASSUME Answered(w), obs[NewestSlot].cumulative < MaxCum
               PROVE  Twap(w) = (SumBefore(credit, now) - SumBefore(credit, start(w)))
                                   \div (now - start(w))
          <6>1. /\ obs[NewestSlot].cumulative = SumBefore(credit, now)
                /\ obs[SlotOf(k)].cumulative = SumBefore(credit, TimeAt(k))
                /\ obs[SlotOf(k)].cumulative <= obs[NewestSlot].cumulative
                /\ obs[NewestSlot].cumulative \in Nat /\ obs[SlotOf(k)].cumulative \in Nat
            BY <3>0, <3>4, <5>10, <5>13, Difference
          <6> DEFINE delta == obs[NewestSlot].cumulative - obs[SlotOf(k)].cumulative
          <6>2. ~(delta < 0)
            BY <6>1
          <6>3. Twap(w) = (IF delta < 0 THEN 0 ELSE delta) \div (latest - obs[SlotOf(k)].timestamp)
            BY <5>3, Zenon DEF Twap
          <6>4. Twap(w) = delta \div (latest - obs[SlotOf(k)].timestamp)
            <7> HIDE DEF delta, latest
            <7> QED BY <6>2, <6>3
          <6>5. delta = SumBefore(credit, now) - SumBefore(credit, TimeAt(k))
            BY <6>1
          <6>6. latest - obs[SlotOf(k)].timestamp = now - TimeAt(k)
            BY <3>4, <5>4
          <6> HIDE DEF delta, latest, start
          <6> QED BY <5>7, <6>4, <6>5, <6>6
        <5> HIDE DEF start, answers
        <5> QED BY <5>12, <5>13
      <4> QED BY <4>2, <4>3
    <3> QED BY <3>3, <3>4
  <2> QED BY <2>1, <2>2
<1> QED BY <1>1, Zenon DEF TwapSpansWindow

\* get_twap answers exactly when the ring reaches from this second back over the
\* window, and with the mean over it, for every size of the ring, every largest
\* accumulator and all prices.
THEOREM TwapSpansWindowCorrect == OracleSpec => []TwapSpansWindow
BY TwapInvInit, TwapInvStep, TwapMeans, PTL DEF OracleSpec

-----------------------------------------------------------------------------
(* Sums over finite sets *)

Some(s) == CHOOSE x \in s : TRUE

\* The recursion of a fold: one element's weight and the sum over the others.
Totals(g, w, S) == \A s \in SUBSET S : g[s] = IF s = {} THEN 0 ELSE w[Some(s)] + g[s \ {Some(s)}]

Total(w, S) ==
    LET iter[s \in SUBSET S] == IF s = {} THEN 0 ELSE w[Some(s)] + iter[s \ {Some(s)}]
    IN iter[S]

FoldOf(g, w, S) == Totals(g, w, S) /\ \A s \in SUBSET S : Total(w, s) = g[s]

\* A set without the element that is chosen from it is smaller by one.
LEMMA OneLess ==
    ASSUME NEW s, IsFiniteSet(s), s # {}
    PROVE  /\ Some(s) \in s /\ IsFiniteSet(s \ {Some(s)})
           /\ Cardinality(s) \in Nat /\ Cardinality(s \ {Some(s)}) \in Nat
           /\ Cardinality(s) = Cardinality(s \ {Some(s)}) + 1
<1>1. Some(s) \in s
  BY DEF Some
<1> HIDE DEF Some
<1>2. IsFiniteSet(s \ {Some(s)}) /\ Cardinality(s \ {Some(s)}) = Cardinality(s) - 1
  BY <1>1, FS_RemoveElement
<1>3. Cardinality(s) \in Nat /\ Cardinality(s \ {Some(s)}) \in Nat
  BY <1>2, FS_CardinalityType
<1> QED BY <1>1, <1>2, <1>3

\* A fold over a finite set has a value.
LEMMA TotalsExist ==
    ASSUME NEW S, IsFiniteSet(S), NEW w, \A x \in S : w[x] \in Int
    PROVE  \E g \in [SUBSET S -> Int] : Totals(g, w, S)
<1> DEFINE D(n) == {s \in SUBSET S : Cardinality(s) <= n}
           Step(g, s) == IF s = {} THEN 0 ELSE w[Some(s)] + g[s \ {Some(s)}]
           Solved(g, n) == g \in [D(n) -> Int] /\ \A s \in D(n) : g[s] = Step(g, s)
           Good == {n \in Nat : \E g : Solved(g, n)}
<1>0. \A s \in SUBSET S : IsFiniteSet(s) /\ Cardinality(s) \in Nat
  BY FS_Subset, FS_CardinalityType
<1>1. 0 \in Good
  <2> DEFINE g == [s \in D(0) |-> 0]
  <2>1. \A s \in D(0) : s = {}
    BY <1>0, FS_EmptySet
  <2>2. Solved(g, 0)
    BY <2>1
  <2> QED BY <2>2
<1>2. ASSUME NEW n \in Good \cap Nat PROVE n + 1 \in Good
  <2>1. PICK g : Solved(g, n)
    OBVIOUS
  <2> DEFINE h == [s \in D(n + 1) |-> Step(g, s)]
  <2>2. ASSUME NEW s \in D(n + 1), s # {} PROVE Some(s) \in S /\ s \ {Some(s)} \in D(n)
    <3>1. IsFiniteSet(s) /\ Cardinality(s) <= n + 1 /\ s \subseteq S
      BY <1>0
    <3>2. /\ Some(s) \in s /\ Cardinality(s) \in Nat /\ Cardinality(s \ {Some(s)}) \in Nat
          /\ Cardinality(s) = Cardinality(s \ {Some(s)}) + 1
      BY <2>2, <3>1, OneLess
    <3>3. Cardinality(s \ {Some(s)}) <= n
      BY <3>1, <3>2
    <3> QED BY <3>1, <3>2, <3>3
  <2>3. \A s \in D(n) : s \in D(n + 1)
    BY <1>0
  <2>4. h \in [D(n + 1) -> Int]
    <3>1. ASSUME NEW s \in D(n + 1) PROVE Step(g, s) \in Int
      <4>1. CASE s = {}
        BY <4>1
      <4>2. CASE s # {}
        <5>1. Some(s) \in S /\ s \ {Some(s)} \in D(n)
          BY <2>2, <4>2
        <5> HIDE DEF D
        <5>2. g[s \ {Some(s)}] \in Int /\ w[Some(s)] \in Int
          BY <2>1, <5>1
        <5> QED BY <4>2, <5>2
      <4> QED BY <4>1, <4>2
    <3> HIDE DEF D, Step
    <3> QED BY <3>1
  <2>5. \A s \in D(n) : h[s] = g[s]
    <3> HIDE DEF D, Step
    <3> QED BY <2>1, <2>3
  <2>6. ASSUME NEW s \in D(n + 1) PROVE h[s] = Step(h, s)
    <3>1. h[s] = Step(g, s)
      <4> HIDE DEF D, Step
      <4> QED OBVIOUS
    <3>2. s # {} => h[s \ {Some(s)}] = g[s \ {Some(s)}]
      <4> HIDE DEF D, h
      <4> QED BY <2>2, <2>5
    <3> HIDE DEF D, h
    <3> QED BY <3>1, <3>2
  <2>7. Solved(h, n + 1)
    <3> HIDE DEF D, h, Step
    <3> QED BY <2>4, <2>6
  <2> HIDE DEF Solved
  <2> QED BY <2>7
<1>3. Nat \subseteq Good
  <2> HIDE DEF Good
  <2> QED BY <1>1, <1>2, Climb
<1>4. Cardinality(S) \in Nat
  BY FS_CardinalityType
<1>5. PICK g : Solved(g, Cardinality(S))
  BY <1>3, <1>4
<1>6. D(Cardinality(S)) = SUBSET S
  BY FS_Subset
<1> HIDE DEF D
<1> QED BY <1>5, <1>6 DEF Totals

\* and one value: that of any fold of the same weights over a set with these.
LEMMA TotalsAgree ==
    ASSUME NEW s0, IsFiniteSet(s0), NEW S, NEW T, s0 \subseteq S, s0 \subseteq T,
           NEW v, NEW w, \A x \in s0 : v[x] = w[x],
           NEW g, NEW h, Totals(g, v, S), Totals(h, w, T)
    PROVE  g[s0] = h[s0]
<1> DEFINE Good == {n \in Nat : \A s \in SUBSET s0 : Cardinality(s) <= n => g[s] = h[s]}
<1>0. \A s \in SUBSET s0 : IsFiniteSet(s) /\ Cardinality(s) \in Nat
  BY FS_Subset, FS_CardinalityType
<1>1. 0 \in Good
  <2> SUFFICES ASSUME NEW s \in SUBSET s0, Cardinality(s) <= 0 PROVE g[s] = h[s]
    OBVIOUS
  <2>1. s = {}
    BY <1>0, FS_EmptySet
  <2> QED BY <2>1 DEF Totals
<1>2. ASSUME NEW n \in Good \cap Nat PROVE n + 1 \in Good
  <2> SUFFICES ASSUME NEW s \in SUBSET s0, Cardinality(s) <= n + 1 PROVE g[s] = h[s]
    OBVIOUS
  <2>1. CASE s = {}
    BY <2>1 DEF Totals
  <2>2. CASE s # {}
    <3>1. /\ Some(s) \in s /\ Cardinality(s) \in Nat /\ Cardinality(s \ {Some(s)}) \in Nat
          /\ Cardinality(s) = Cardinality(s \ {Some(s)}) + 1
      BY <1>0, <2>2, OneLess
    <3>2. Cardinality(s \ {Some(s)}) <= n /\ s \ {Some(s)} \in SUBSET s0
      BY <3>1
    <3>3. g[s \ {Some(s)}] = h[s \ {Some(s)}] /\ v[Some(s)] = w[Some(s)]
      BY <3>1, <3>2
    <3>4. s \in SUBSET S /\ s \in SUBSET T
      OBVIOUS
    <3>5. g[s] = v[Some(s)] + g[s \ {Some(s)}] /\ h[s] = w[Some(s)] + h[s \ {Some(s)}]
      BY <2>2, <3>4 DEF Totals
    <3> QED BY <3>3, <3>5
  <2> QED BY <2>1, <2>2
<1>3. Nat \subseteq Good
  <2> HIDE DEF Good
  <2> QED BY <1>1, <1>2, Climb
<1> QED BY <1>0, <1>3

\* Total is such a fold.
LEMMA TotalFolds ==
    ASSUME NEW S, IsFiniteSet(S), NEW w, \A x \in S : w[x] \in Int
    PROVE  \E g \in [SUBSET S -> Int] : FoldOf(g, w, S)
<1> DEFINE Unfolds(g, s) == g = [r \in SUBSET s |-> IF r = {} THEN 0
                                                   ELSE w[Some(r)] + g[r \ {Some(r)}]]
           iter(s) == CHOOSE g : Unfolds(g, s)
<1>1. PICK g \in [SUBSET S -> Int] : Totals(g, w, S)
  BY TotalsExist
<1>2. ASSUME NEW s \in SUBSET S PROVE Total(w, s) = g[s]
  <2>1. Total(w, s) = iter(s)[s]
    BY Zenon DEF Total
  <2>2. IsFiniteSet(s)
    BY FS_Subset
  <2>3. PICK h \in [SUBSET s -> Int] : Totals(h, w, s)
    BY <2>2, TotalsExist
  <2>4. Unfolds(h, s)
    <3>1. h = [r \in SUBSET s |-> h[r]]
      OBVIOUS
    <3> QED BY <2>3, <3>1, Zenon DEF Totals
  <2>5. Unfolds(iter(s), s)
    BY <2>4, Zenon
  <2> DEFINE f == iter(s)
  <2>6. Unfolds(f, s)
    BY <2>5
  <2>7. Total(w, s) = f[s]
    BY <2>1
  <2> HIDE DEF f
  <2>8. Totals(f, w, s)
    BY <2>6 DEF Totals
  <2>9. f[s] = g[s]
    BY <1>1, <2>2, <2>8, TotalsAgree
  <2> QED BY <2>7, <2>9
<1> QED BY <1>1, <1>2 DEF FoldOf

\* Any element may be taken out first.
LEMMA TotalSplit ==
    ASSUME NEW S, IsFiniteSet(S), NEW w, \A x \in S : w[x] \in Int, NEW e \in S
    PROVE  /\ Total(w, S) = w[e] + Total(w, S \ {e})
           /\ Total(w, S) \in Int /\ Total(w, S \ {e}) \in Int
<1>1. PICK g \in [SUBSET S -> Int] : FoldOf(g, w, S)
  BY TotalFolds
<1> DEFINE Good == {n \in Nat : \A s \in SUBSET S : Cardinality(s) <= n =>
                                   \A x \in s : g[s] = w[x] + g[s \ {x}]}
<1>0. \A s \in SUBSET S : IsFiniteSet(s) /\ Cardinality(s) \in Nat
  BY FS_Subset, FS_CardinalityType
<1>2. 0 \in Good
  <2> SUFFICES ASSUME NEW s \in SUBSET S, Cardinality(s) <= 0 PROVE s = {}
    OBVIOUS
  <2> QED BY <1>0, FS_EmptySet
<1>3. ASSUME NEW n \in Good \cap Nat PROVE n + 1 \in Good
  <2> SUFFICES ASSUME NEW s \in SUBSET S, Cardinality(s) <= n + 1, NEW x \in s
               PROVE  g[s] = w[x] + g[s \ {x}]
    OBVIOUS
  <2> DEFINE c == Some(s)
  <2>1. /\ c \in s /\ Cardinality(s) \in Nat /\ Cardinality(s \ {c}) \in Nat
        /\ Cardinality(s) = Cardinality(s \ {c}) + 1
    BY <1>0, OneLess
  <2>2. g[s] = w[c] + g[s \ {c}]
    BY <1>1 DEF FoldOf, Totals
  <2> HIDE DEF c
  <2>3. CASE x = c
    BY <2>2, <2>3
  <2>4. CASE x # c
    <3>1. Cardinality(s \ {x}) = Cardinality(s) - 1
      BY <1>0, FS_RemoveElement
    <3>2. Cardinality(s \ {c}) <= n /\ Cardinality(s \ {x}) <= n
      BY <2>1, <3>1
    <3>3. x \in s \ {c} /\ c \in s \ {x} /\ s \ {c} \in SUBSET S /\ s \ {x} \in SUBSET S
      BY <2>1, <2>4
    <3>4. g[s \ {c}] = w[x] + g[(s \ {c}) \ {x}]
      BY <3>2, <3>3
    <3>5. g[s \ {x}] = w[c] + g[(s \ {x}) \ {c}]
      BY <3>2, <3>3
    <3>6. (s \ {c}) \ {x} = (s \ {x}) \ {c} /\ (s \ {x}) \ {c} \in SUBSET S
      OBVIOUS
    <3>7. g[(s \ {x}) \ {c}] \in Int /\ w[x] \in Int /\ w[c] \in Int
      BY <1>1, <2>1, <3>6
    <3> DEFINE both == g[(s \ {x}) \ {c}]
    <3>8. g[s \ {c}] = w[x] + both /\ g[s \ {x}] = w[c] + both /\ both \in Int
      BY <3>4, <3>5, <3>6, <3>7
    <3> HIDE DEF Good, both
    <3>9. w[c] + (w[x] + both) = w[x] + (w[c] + both)
      BY <3>7, <3>8
    <3> QED BY <2>2, <3>8, <3>9, Zenon
  <2> QED BY <2>3, <2>4
<1>4. Nat \subseteq Good
  <2> HIDE DEF Good
  <2> QED BY <1>2, <1>3, Climb
<1>5. g[S] = w[e] + g[S \ {e}]
  BY <1>0, <1>4
<1>6. S \in SUBSET S /\ S \ {e} \in SUBSET S
  OBVIOUS
<1> QED BY <1>1, <1>5, <1>6 DEF FoldOf

\* Nothing adds up to zero.
LEMMA TotalEmpty == ASSUME NEW w PROVE Total(w, {}) = 0
<1>1. PICK g \in [SUBSET {} -> Int] : FoldOf(g, w, {})
  BY TotalFolds, FS_EmptySet
<1> QED BY <1>1 DEF FoldOf, Totals

\* Equal weights have equal sums, whatever else they weigh.
LEMMA TotalAgrees ==
    ASSUME NEW S, IsFiniteSet(S), NEW v, NEW w, \A x \in S : v[x] \in Int /\ w[x] = v[x]
    PROVE  Total(v, S) = Total(w, S) /\ Total(v, S) \in Int
<1>1. PICK g \in [SUBSET S -> Int] : FoldOf(g, v, S)
  BY TotalFolds
<1>2. PICK h \in [SUBSET S -> Int] : FoldOf(h, w, S)
  BY TotalFolds
<1>3. g[S] = h[S]
  BY <1>1, <1>2, TotalsAgree DEF FoldOf
<1> QED BY <1>1, <1>2, <1>3 DEF FoldOf

\* Weights above zero add up to zero over the empty set and no other.
LEMMA TotalPositive ==
    ASSUME NEW S, IsFiniteSet(S), NEW w, \A x \in S : w[x] \in Nat /\ w[x] > 0
    PROVE  Total(w, S) \in Nat /\ (Total(w, S) = 0 <=> S = {})
<1> DEFINE Good == {n \in Nat : \A s \in SUBSET S : Cardinality(s) <= n =>
                                   /\ Total(w, s) \in Nat
                                   /\ s # {} => Total(w, s) > 0}
<1>0. \A s \in SUBSET S : IsFiniteSet(s) /\ Cardinality(s) \in Nat
  BY FS_Subset, FS_CardinalityType
<1>1. 0 \in Good
  <2> SUFFICES ASSUME NEW s \in SUBSET S, Cardinality(s) <= 0 PROVE s = {} /\ Total(w, s) = 0
    OBVIOUS
  <2>1. s = {}
    BY <1>0, FS_EmptySet
  <2> QED BY <2>1, TotalEmpty
<1>2. ASSUME NEW n \in Good \cap Nat PROVE n + 1 \in Good
  <2> SUFFICES ASSUME NEW s \in SUBSET S, Cardinality(s) <= n + 1
               PROVE  Total(w, s) \in Nat /\ (s # {} => Total(w, s) > 0)
    OBVIOUS
  <2>1. CASE s = {}
    BY <2>1, TotalEmpty
  <2>2. CASE s # {}
    <3> DEFINE c == Some(s)
    <3>1. /\ c \in s /\ Cardinality(s) \in Nat /\ Cardinality(s \ {c}) \in Nat
          /\ Cardinality(s) = Cardinality(s \ {c}) + 1
      BY <1>0, <2>2, OneLess
    <3> HIDE DEF c
    <3>2. Cardinality(s \ {c}) <= n /\ s \ {c} \in SUBSET S
      BY <3>1
    <3>3. Total(w, s \ {c}) \in Nat
      BY <3>2
    <3>4. \A x \in s : w[x] \in Int
      OBVIOUS
    <3>5. Total(w, s) = w[c] + Total(w, s \ {c})
      BY <1>0, <3>1, <3>4, TotalSplit
    <3>6. w[c] \in Nat /\ w[c] > 0
      BY <3>1
    <3> HIDE DEF Good
    <3> QED BY <3>3, <3>5, <3>6
  <2> QED BY <2>1, <2>2
<1>3. Nat \subseteq Good
  <2> HIDE DEF Good
  <2> QED BY <1>1, <1>2, Climb
<1> QED BY <1>0, <1>3, TotalEmpty

\* Nothing but zeros adds up to zero.
LEMMA TotalZero ==
    ASSUME NEW S, IsFiniteSet(S), NEW w, \A x \in S : w[x] = 0
    PROVE  Total(w, S) = 0
<1> DEFINE Good == {n \in Nat : \A s \in SUBSET S : Cardinality(s) <= n => Total(w, s) = 0}
<1>0. \A s \in SUBSET S : IsFiniteSet(s) /\ Cardinality(s) \in Nat
  BY FS_Subset, FS_CardinalityType
<1>1. 0 \in Good
  <2> SUFFICES ASSUME NEW s \in SUBSET S, Cardinality(s) <= 0 PROVE Total(w, s) = 0
    OBVIOUS
  <2>1. s = {}
    BY <1>0, FS_EmptySet
  <2> QED BY <2>1, TotalEmpty
<1>2. ASSUME NEW n \in Good \cap Nat PROVE n + 1 \in Good
  <2> SUFFICES ASSUME NEW s \in SUBSET S, Cardinality(s) <= n + 1 PROVE Total(w, s) = 0
    OBVIOUS
  <2>1. CASE s = {}
    BY <2>1, TotalEmpty
  <2>2. CASE s # {}
    <3> DEFINE c == Some(s)
    <3>1. /\ c \in s /\ Cardinality(s) \in Nat /\ Cardinality(s \ {c}) \in Nat
          /\ Cardinality(s) = Cardinality(s \ {c}) + 1
      BY <1>0, <2>2, OneLess
    <3> HIDE DEF c
    <3>2. Total(w, s \ {c}) = 0
      BY <3>1
    <3>3. \A x \in s : w[x] \in Int
      OBVIOUS
    <3>4. Total(w, s) = w[c] + Total(w, s \ {c})
      BY <1>0, <3>1, <3>3, TotalSplit
    <3>5. w[c] = 0
      BY <3>1
    <3> HIDE DEF Good
    <3> QED BY <3>2, <3>4, <3>5
  <2> QED BY <2>1, <2>2
<1>3. Nat \subseteq Good
  <2> HIDE DEF Good
  <2> QED BY <1>1, <1>2, Climb
<1> QED BY <1>0, <1>3

-----------------------------------------------------------------------------
(* The counters of a boundary *)

\* The sum of one field of the records of a function.
FieldSum(f, k, S) == MapThenSumSet(LAMBDA x : f[x][k], S)

\* Such a sum is Total of the field's values.
LEMMA FieldTotal ==
    ASSUME NEW f, NEW k, NEW S, IsFiniteSet(S), \A x \in S : f[x][k] \in Int
    PROVE  FieldSum(f, k, S) = Total([x \in S |-> f[x][k]], S)
<1> DEFINE w == [x \in S |-> f[x][k]]
           Unfolds(g) == g = [s \in SUBSET S |->
                                 IF s = {} THEN 0
                                 ELSE LET x == CHOOSE x \in s : TRUE
                                      IN f[x][k] + g[s \ {x}]]
           iter == CHOOSE g : Unfolds(g)
<1>1. FieldSum(f, k, S) = iter[S]
  BY Zenon DEF FieldSum, MapThenSumSet, MapThenFoldSet
<1>2. \A x \in S : w[x] \in Int /\ w[x] = f[x][k]
  OBVIOUS
<1>3. \A s \in SUBSET S : s # {} => w[Some(s)] = f[Some(s)][k]
  BY <1>2 DEF Some
<1> HIDE DEF w
<1>4. PICK g \in [SUBSET S -> Int] : FoldOf(g, w, S)
  BY <1>2, TotalFolds
<1>5. Unfolds(g)
  <2>1. g = [s \in SUBSET S |-> g[s]]
    OBVIOUS
  <2>2. \A s \in SUBSET S : g[s] = IF s = {} THEN 0 ELSE f[Some(s)][k] + g[s \ {Some(s)}]
    BY <1>3, <1>4 DEF FoldOf, Totals
  <2> QED BY <2>1, <2>2, Zenon DEF Some
<1>6. Unfolds(iter)
  BY <1>5, Zenon
<1> HIDE DEF iter
<1>7. Totals(iter, w, S)
  <2>1. \A s \in SUBSET S : iter[s] = IF s = {} THEN 0 ELSE f[Some(s)][k] + iter[s \ {Some(s)}]
    BY <1>6 DEF Some
  <2> HIDE DEF Unfolds
  <2> QED BY <1>3, <2>1 DEF Totals
<1>8. iter[S] = g[S] /\ Total(w, S) = g[S]
  BY <1>4, <1>7, TotalsAgree DEF FoldOf
<1> QED BY <1>1, <1>8 DEF w

\* One record less is its field less.
LEMMA FieldSplit ==
    ASSUME NEW f, NEW k, NEW S, IsFiniteSet(S), \A x \in S : f[x][k] \in Int, NEW e \in S
    PROVE  /\ FieldSum(f, k, S) = f[e][k] + FieldSum(f, k, S \ {e})
           /\ FieldSum(f, k, S \ {e}) \in Int
<1> DEFINE w == [x \in S |-> f[x][k]]
           v == [x \in S \ {e} |-> f[x][k]]
<1>1. IsFiniteSet(S \ {e}) /\ \A x \in S \ {e} : f[x][k] \in Int
  BY FS_RemoveElement
<1>2. FieldSum(f, k, S) = Total(w, S) /\ FieldSum(f, k, S \ {e}) = Total(v, S \ {e})
  <2>1. FieldSum(f, k, S) = Total(w, S)
    BY FieldTotal
  <2>2. FieldSum(f, k, S \ {e}) = Total(v, S \ {e})
    <3> DEFINE T == S \ {e}
    <3> HIDE DEF T
    <3>1. IsFiniteSet(T) /\ \A x \in T : f[x][k] \in Int
      BY <1>1 DEF T
    <3>2. FieldSum(f, k, T) = Total([x \in T |-> f[x][k]], T)
      BY <3>1, FieldTotal
    <3> QED BY <3>2 DEF T
  <2> QED BY <2>1, <2>2
<1>3. /\ \A x \in S : w[x] \in Int /\ w[x] = f[x][k]
      /\ \A x \in S \ {e} : v[x] = w[x] /\ v[x] \in Int
  OBVIOUS
<1> HIDE DEF v, w
<1>4. Total(w, S) = w[e] + Total(w, S \ {e}) /\ Total(w, S \ {e}) \in Int
  BY <1>3, TotalSplit
<1>5. Total(v, S \ {e}) = Total(w, S \ {e})
  BY <1>1, <1>3, TotalAgrees
<1> QED BY <1>2, <1>3, <1>4, <1>5

\* Records equal in the field have equal sums.
LEMMA FieldSame ==
    ASSUME NEW f, NEW g, NEW k, NEW S, IsFiniteSet(S),
           \A x \in S : f[x][k] \in Int /\ g[x][k] = f[x][k]
    PROVE  FieldSum(f, k, S) = FieldSum(g, k, S) /\ FieldSum(f, k, S) \in Int
<1> DEFINE w == [x \in S |-> f[x][k]]
           v == [x \in S |-> g[x][k]]
<1>1. FieldSum(f, k, S) = Total(w, S) /\ FieldSum(g, k, S) = Total(v, S)
  BY FieldTotal
<1>2. \A x \in S : w[x] \in Int /\ v[x] = w[x]
  OBVIOUS
<1> HIDE DEF v, w
<1> QED BY <1>1, <1>2, TotalAgrees

\* The liquidity of some positions.
Weighed(pos, ids) == FieldSum(pos, "liquidity", ids)

\* See FieldTotal.
LEMMA WeighedTotal ==
    ASSUME NEW pos, NEW ids, IsFiniteSet(ids), \A id \in ids : pos[id].liquidity \in Int
    PROVE  Weighed(pos, ids) = Total([id \in ids |-> pos[id].liquidity], ids)
BY FieldTotal DEF Weighed

\* LiquidityOf of the state and of its successor.
LEMMA LiquidityWeighed ==
    /\ \A ids : LiquidityOf(ids) = Weighed(position, ids)
    /\ \A ids : LiquidityOf(ids)' = Weighed(position', ids)
BY Zenon DEF LiquidityOf, Weighed, FieldSum, MapThenSumSet, MapThenFoldSet

\* One position less is its liquidity less.
LEMMA WeighedSplit ==
    ASSUME NEW pos, NEW ids, IsFiniteSet(ids), \A id \in ids : pos[id].liquidity \in Int,
           NEW e \in ids
    PROVE  /\ Weighed(pos, ids) = pos[e].liquidity + Weighed(pos, ids \ {e})
           /\ Weighed(pos, ids \ {e}) \in Int
BY FieldSplit DEF Weighed

\* See FieldSame.
LEMMA WeighedSame ==
    ASSUME NEW pos, NEW pos2, NEW ids, IsFiniteSet(ids),
           \A id \in ids : pos[id].liquidity \in Int /\ pos2[id].liquidity = pos[id].liquidity
    PROVE  Weighed(pos, ids) = Weighed(pos2, ids) /\ Weighed(pos, ids) \in Int
BY FieldSame DEF Weighed

\* What holds of every position: a range that is not empty, and some liquidity.
Open(pos) ==
    /\ IsFiniteSet(DOMAIN pos)
    /\ \A id \in DOMAIN pos : /\ pos[id].lower \in Ticks /\ pos[id].upper \in Ticks
                              /\ pos[id].lower < pos[id].upper
                              /\ pos[id].liquidity \in Nat /\ pos[id].liquidity > 0

Begins(pos, t) == {id \in DOMAIN pos : pos[id].lower = t}
Ends(pos, t) == {id \in DOMAIN pos : pos[id].upper = t}

\* A set of positions has liquidity if and only if it is not empty.
LEMMA WeighedPositive ==
    ASSUME NEW pos, Open(pos), NEW ids, ids \subseteq DOMAIN pos
    PROVE  /\ IsFiniteSet(ids)
           /\ Weighed(pos, ids) \in Nat /\ (Weighed(pos, ids) = 0 <=> ids = {})
<1> DEFINE w == [id \in ids |-> pos[id].liquidity]
<1>1. IsFiniteSet(ids)
  BY FS_Subset DEF Open
<1>2. \A id \in ids : w[id] \in Nat /\ w[id] > 0 /\ pos[id].liquidity \in Int
  BY DEF Open
<1>3. Weighed(pos, ids) = Total(w, ids)
  BY <1>1, <1>2, WeighedTotal
<1> HIDE DEF w
<1> QED BY <1>1, <1>2, <1>3, TotalPositive

\* B and B2 are the same positions but for e, which is in both where `in` says so
\* and there are positions of this id.
SameBut(pos, pos2, e, a, b, B, B2, in) ==
    /\ B \subseteq DOMAIN pos /\ B2 \subseteq DOMAIN pos2 /\ B \ {e} = B2 \ {e}
    /\ \A id \in B \ {e} : pos2[id].liquidity = pos[id].liquidity
    /\ IF e \in DOMAIN pos THEN pos[e].liquidity = a /\ (e \in B <=> in) ELSE a = 0
    /\ IF e \in DOMAIN pos2 THEN pos2[e].liquidity = b /\ (e \in B2 <=> in) ELSE b = 0

\* When one position e changes its liquidity from a to b, zero standing for none,
\* so does the sum over any set that had it or has it.
LEMMA OneWeight ==
    ASSUME NEW pos, Open(pos), NEW pos2, Open(pos2), NEW e, NEW a \in Nat, NEW b \in Nat,
           NEW B, NEW B2, NEW in \in BOOLEAN, SameBut(pos, pos2, e, a, b, B, B2, in)
    PROVE  Weighed(pos2, B2) = Weighed(pos, B) + (IF in THEN b - a ELSE 0)
<1>0. /\ B \subseteq DOMAIN pos /\ B2 \subseteq DOMAIN pos2 /\ B \ {e} = B2 \ {e}
      /\ \A id \in B \ {e} : pos2[id].liquidity = pos[id].liquidity
  BY DEF SameBut
<1>1. /\ IsFiniteSet(B) /\ IsFiniteSet(B2) /\ IsFiniteSet(B \ {e})
      /\ Weighed(pos, B) \in Nat /\ Weighed(pos2, B2) \in Nat
      /\ Weighed(pos, B \ {e}) \in Nat
  <2>1. B \ {e} \subseteq DOMAIN pos
    BY <1>0
  <2> QED BY <1>0, <2>1, WeighedPositive
<1>2. /\ \A id \in B : pos[id].liquidity \in Int
      /\ \A id \in B2 : pos2[id].liquidity \in Int
  BY <1>0 DEF Open
<1>3. Weighed(pos, B \ {e}) = Weighed(pos2, B2 \ {e})
  <2>1. PICK rest : rest = B \ {e} /\ rest = B2 \ {e}
    BY <1>0
  <2>2. \A id \in rest : pos[id].liquidity \in Int /\ pos2[id].liquidity = pos[id].liquidity
    BY <1>0, <1>2, <2>1
  <2>3. Weighed(pos, rest) = Weighed(pos2, rest)
    BY <1>1, <2>1, <2>2, WeighedSame
  <2> QED BY <2>1, <2>3
<1>4. Weighed(pos, B) = (IF in THEN a ELSE 0) + Weighed(pos, B \ {e})
  <2>1. CASE e \in B
    <3>1. pos[e].liquidity = a /\ in
      BY <1>0, <2>1 DEF SameBut
    <3> QED BY <1>1, <1>2, <2>1, <3>1, WeighedSplit
  <2>2. CASE e \notin B
    <3>1. B \ {e} = B /\ (IF in THEN a ELSE 0) = 0
      BY <2>2 DEF SameBut
    <3>2. Weighed(pos, B \ {e}) = Weighed(pos, B)
      BY <3>1, Zenon
    <3> QED BY <1>1, <3>1, <3>2
  <2> QED BY <2>1, <2>2
<1>5. Weighed(pos2, B2) = (IF in THEN b ELSE 0) + Weighed(pos2, B2 \ {e})
  <2>1. CASE e \in B2
    <3>1. pos2[e].liquidity = b /\ in
      BY <1>0, <2>1 DEF SameBut
    <3> QED BY <1>1, <1>2, <2>1, <3>1, WeighedSplit
  <2>2. CASE e \notin B2
    <3>1. B2 \ {e} = B2 /\ (IF in THEN b ELSE 0) = 0
      BY <2>2 DEF SameBut
    <3>2. Weighed(pos2, B2 \ {e}) = Weighed(pos2, B2)
      BY <3>1, Zenon
    <3>3. Weighed(pos2, B2 \ {e}) = Weighed(pos, B \ {e})
      BY <1>3
    <3> QED BY <1>1, <3>1, <3>2, <3>3
  <2> QED BY <2>1, <2>2
<1> QED BY <1>1, <1>3, <1>4, <1>5

\* pos2 is pos but for the liquidity of e, whose range is l to u.
OneMoves(pos, pos2, e, l, u, a, b) ==
    /\ DOMAIN pos \ {e} = DOMAIN pos2 \ {e}
    /\ \A id \in DOMAIN pos \ {e} : /\ pos2[id].lower = pos[id].lower
                                    /\ pos2[id].upper = pos[id].upper
                                    /\ pos2[id].liquidity = pos[id].liquidity
    /\ IF e \in DOMAIN pos
       THEN pos[e].lower = l /\ pos[e].upper = u /\ pos[e].liquidity = a ELSE a = 0
    /\ IF e \in DOMAIN pos2
       THEN pos2[e].lower = l /\ pos2[e].upper = u /\ pos2[e].liquidity = b ELSE b = 0

\* Then the sums change at the ends of that range, and nowhere else.
LEMMA OneBoundary ==
    ASSUME NEW pos, Open(pos), NEW pos2, Open(pos2), NEW e, NEW l, NEW u,
           NEW a \in Nat, NEW b \in Nat, OneMoves(pos, pos2, e, l, u, a, b), NEW t
    PROVE  /\ Weighed(pos2, Begins(pos2, t)) =
                 Weighed(pos, Begins(pos, t)) + (IF t = l THEN b - a ELSE 0)
           /\ Weighed(pos2, Ends(pos2, t)) =
                 Weighed(pos, Ends(pos, t)) + (IF t = u THEN b - a ELSE 0)
<1>1. PICK in \in BOOLEAN : in <=> t = l
  <2>1. (t = l) \in BOOLEAN
    OBVIOUS
  <2> QED BY <2>1
<1>2. PICK out \in BOOLEAN : out <=> t = u
  <2>1. (t = u) \in BOOLEAN
    OBVIOUS
  <2> QED BY <2>1
<1>3. SameBut(pos, pos2, e, a, b, Begins(pos, t), Begins(pos2, t), in)
  BY <1>1 DEF SameBut, Begins, OneMoves
<1>4. SameBut(pos, pos2, e, a, b, Ends(pos, t), Ends(pos2, t), out)
  BY <1>2 DEF SameBut, Ends, OneMoves
<1>5. Weighed(pos2, Begins(pos2, t)) = Weighed(pos, Begins(pos, t)) + (IF in THEN b - a ELSE 0)
  BY <1>3, OneWeight
<1>6. Weighed(pos2, Ends(pos2, t)) = Weighed(pos, Ends(pos, t)) + (IF out THEN b - a ELSE 0)
  BY <1>4, OneWeight
<1> QED BY <1>1, <1>2, <1>5, <1>6

\* TicksMatchPositions, of any state of the boundaries.
Counted(pos, tk, bm) ==
    \A t \in Ticks :
       /\ tk[t].gross = Weighed(pos, Begins(pos, t)) + Weighed(pos, Ends(pos, t))
       /\ tk[t].net = Weighed(pos, Begins(pos, t)) - Weighed(pos, Ends(pos, t))
       /\ t \in bm <=> Begins(pos, t) \cup Ends(pos, t) # {}

\* TicksMatchPositions says so of the present state.
LEMMA MatchIsCounted ==
    /\ TicksMatchPositions <=> Counted(position, tick, bitmap)
    /\ TicksMatchPositions' <=> Counted(position', tick', bitmap')
<1> DEFINE begin(t) == {id \in DOMAIN position : position[id].lower = t}
           end(t) == {id \in DOMAIN position : position[id].upper = t}
           matches(t) == /\ tick[t].gross = LiquidityOf(begin(t)) + LiquidityOf(end(t))
                         /\ tick[t].net = LiquidityOf(begin(t)) - LiquidityOf(end(t))
                         /\ (t \in bitmap) = (begin(t) \cup end(t) # {})
<1>1. /\ TicksMatchPositions <=> \A t \in Ticks : matches(t)
      /\ TicksMatchPositions' <=> \A t \in Ticks : matches(t)'
  BY Zenon DEF TicksMatchPositions
<1>2. \A t : begin(t) = Begins(position, t) /\ end(t) = Ends(position, t)
  BY DEF Begins, Ends
<1>3. \A t : begin(t)' = Begins(position', t) /\ end(t)' = Ends(position', t)
  BY DEF Begins, Ends
<1> HIDE DEF begin, end
<1>4. ASSUME NEW t
      PROVE  /\ LiquidityOf(begin(t)) = Weighed(position, Begins(position, t))
             /\ LiquidityOf(end(t)) = Weighed(position, Ends(position, t))
  BY <1>2, LiquidityWeighed
<1>5. ASSUME NEW t
      PROVE  /\ LiquidityOf(begin(t))' = Weighed(position', Begins(position', t))
             /\ LiquidityOf(end(t))' = Weighed(position', Ends(position', t))
  BY <1>3, LiquidityWeighed
<1>6. (\A t \in Ticks : matches(t)) <=> Counted(position, tick, bitmap)
  BY <1>2, <1>4 DEF Counted
<1>7. (\A t \in Ticks : matches(t)') <=> Counted(position', tick', bitmap')
  BY <1>3, <1>5 DEF Counted
<1> QED BY <1>1, <1>6, <1>7

\* The counters of a boundary are numbers, whatever its growth outside.
TicksTyped ==
    \A t \in Ticks : /\ tick[t].gross \in Nat /\ tick[t].net \in Int
                     /\ tick[t] = [gross |-> tick[t].gross, net |-> tick[t].net,
                                   outside |-> tick[t].outside]

TicksInv == NftInv /\ Open(position) /\ TicksTyped /\ bitmap \subseteq Ticks /\ IsFiniteSet(bitmap)
            /\ Counted(position, tick, bitmap)

\* Of one boundary: its sums are numbers, both zero where nothing begins or ends.
LEMMA BoundarySums ==
    ASSUME NEW pos, Open(pos), NEW t
    PROVE  /\ Weighed(pos, Begins(pos, t)) \in Nat /\ Weighed(pos, Ends(pos, t)) \in Nat
           /\ Weighed(pos, Begins(pos, t)) + Weighed(pos, Ends(pos, t)) = 0
                 <=> Begins(pos, t) \cup Ends(pos, t) = {}
<1>1. Begins(pos, t) \subseteq DOMAIN pos /\ Ends(pos, t) \subseteq DOMAIN pos
  BY DEF Begins, Ends
<1>2. /\ Weighed(pos, Begins(pos, t)) \in Nat
      /\ (Weighed(pos, Begins(pos, t)) = 0 <=> Begins(pos, t) = {})
      /\ Weighed(pos, Ends(pos, t)) \in Nat
      /\ (Weighed(pos, Ends(pos, t)) = 0 <=> Ends(pos, t) = {})
  BY <1>1, WeighedPositive
<1>3. Weighed(pos, Begins(pos, t)) + Weighed(pos, Ends(pos, t)) = 0
         <=> Weighed(pos, Begins(pos, t)) = 0 /\ Weighed(pos, Ends(pos, t)) = 0
  BY <1>2
<1> QED BY <1>2, <1>3

\* update_tick and flip_bitmap follow the positions.
LEMMA UpdateFollows ==
    ASSUME TicksInv, Open(position'), NEW e, NEW l \in Ticks, NEW u \in Ticks, l # u,
           NEW a \in Nat, NEW b \in Nat, OneMoves(position, position', e, l, u, a, b),
           NEW delta \in Int, delta = b - a, UpdateTicks(l, u, delta)
    PROVE  /\ TicksTyped' /\ bitmap' \subseteq Ticks /\ IsFiniteSet(bitmap')
           /\ Counted(position', tick', bitmap')
<1> DEFINE after(t) == [tick[t] EXCEPT !.gross = @ + delta,
                                       !.net = IF t = u THEN @ - delta ELSE @ + delta]
           begins(t) == Weighed(position, Begins(position, t))
           ends(t) == Weighed(position, Ends(position, t))
           begins2(t) == Weighed(position', Begins(position', t))
           ends2(t) == Weighed(position', Ends(position', t))
           flipped == Flipped(l, u, delta)
<1>0. /\ Open(position) /\ TicksTyped /\ bitmap \subseteq Ticks /\ IsFiniteSet(bitmap)
      /\ Counted(position, tick, bitmap)
  BY DEF TicksInv
<1>1. /\ \A t \in {l, u} : tick[t].gross + delta >= 0
      /\ tick' = [t \in Ticks |-> IF t \notin {l, u} THEN tick[t]
                                  ELSE IF after(t).gross = 0 THEN Unused ELSE after(t)]
      /\ bitmap' = (bitmap \ flipped) \cup (flipped \ bitmap)
  BY DEF UpdateTicks
<1>2. flipped \subseteq {l, u} /\ \A t \in {l, u} :
          t \in flipped <=> ((tick[t].gross = 0) # (tick[t].gross + delta = 0))
  BY DEF Flipped
<1>3. bitmap' \subseteq Ticks /\ IsFiniteSet(bitmap')
  <2>1. bitmap' \subseteq (bitmap \cup {l}) \cup {u}
    BY <1>1, <1>2
  <2>2. IsFiniteSet((bitmap \cup {l}) \cup {u})
    BY <1>0, FS_AddElement
  <2> HIDE DEF flipped
  <2> QED BY <1>0, <2>1, <2>2, FS_Subset
<1>4. ASSUME NEW t \in Ticks
      PROVE  /\ begins(t) \in Nat /\ ends(t) \in Nat /\ begins2(t) \in Nat /\ ends2(t) \in Nat
             /\ begins2(t) = begins(t) + (IF t = l THEN delta ELSE 0)
             /\ ends2(t) = ends(t) + (IF t = u THEN delta ELSE 0)
             /\ tick[t].gross = begins(t) + ends(t) /\ tick[t].net = begins(t) - ends(t)
             /\ t \in bitmap <=> begins(t) + ends(t) # 0
             /\ begins2(t) + ends2(t) # 0 <=> Begins(position', t) \cup Ends(position', t) # {}
  <2>1. /\ begins(t) \in Nat /\ ends(t) \in Nat
        /\ begins(t) + ends(t) = 0 <=> Begins(position, t) \cup Ends(position, t) = {}
    BY <1>0, BoundarySums
  <2>2. /\ begins2(t) \in Nat /\ ends2(t) \in Nat
        /\ begins2(t) + ends2(t) = 0 <=> Begins(position', t) \cup Ends(position', t) = {}
    BY BoundarySums
  <2>3. /\ begins2(t) = begins(t) + (IF t = l THEN b - a ELSE 0)
        /\ ends2(t) = ends(t) + (IF t = u THEN b - a ELSE 0)
    BY <1>0, OneBoundary
  <2>4. /\ tick[t].gross = begins(t) + ends(t) /\ tick[t].net = begins(t) - ends(t)
        /\ t \in bitmap <=> Begins(position, t) \cup Ends(position, t) # {}
    BY <1>0 DEF Counted
  <2> HIDE DEF begins, ends, begins2, ends2
  <2> QED BY <2>1, <2>2, <2>3, <2>4
<1> HIDE DEF begins, ends, begins2, ends2, flipped
<1>5. ASSUME NEW t \in Ticks
      PROVE  /\ tick'[t].gross = begins2(t) + ends2(t)
             /\ tick'[t].net = begins2(t) - ends2(t)
             /\ tick'[t] = [gross |-> tick'[t].gross, net |-> tick'[t].net,
                            outside |-> tick'[t].outside]
             /\ t \in bitmap' <=> begins2(t) + ends2(t) # 0
  <2>1. CASE t \notin {l, u}
    <3>1. tick'[t] = tick[t] /\ (t \in bitmap' <=> t \in bitmap)
      BY <1>1, <1>2, <2>1
    <3>2. begins2(t) = begins(t) /\ ends2(t) = ends(t)
      BY <1>4, <2>1
    <3> QED BY <1>0, <1>4, <3>1, <3>2 DEF TicksTyped
  <2>2. CASE t \in {l, u}
    <3>1. tick[t] = [gross |-> tick[t].gross, net |-> tick[t].net, outside |-> tick[t].outside]
      BY <1>0 DEF TicksTyped
    <3>2. /\ after(t).gross = tick[t].gross + delta
          /\ after(t).net = (IF t = u THEN tick[t].net - delta ELSE tick[t].net + delta)
          /\ after(t) = [gross |-> after(t).gross, net |-> after(t).net,
                         outside |-> tick[t].outside]
      <4>1. after(t).gross = tick[t].gross + delta
        BY <3>1
      <4>2. after(t).net = (IF t = u THEN tick[t].net - delta ELSE tick[t].net + delta)
        BY <3>1
      <4>3. after(t).outside = tick[t].outside
        BY <3>1
      <4>4. DOMAIN after(t) = {"gross", "net", "outside"}
        BY <3>1
      <4>5. after(t) = [k \in DOMAIN after(t) |-> after(t)[k]]
        OBVIOUS
      <4> HIDE DEF after
      <4> QED BY <4>1, <4>2, <4>3, <4>4, <4>5
    <3>3. after(t).gross = begins2(t) + ends2(t) /\ after(t).net = begins2(t) - ends2(t)
      <4> HIDE DEF after
      <4> QED BY <1>4, <2>2, <3>2
    <3>4. tick'[t] = IF after(t).gross = 0 THEN Unused ELSE after(t)
      <4> HIDE DEF after
      <4> QED BY <1>1, <2>2
    <3>5. t \in bitmap' <=> begins2(t) + ends2(t) # 0
      <4>1. t \in bitmap' <=> ~(t \in bitmap <=> t \in flipped)
        <5>1. bitmap' = (bitmap \ flipped) \cup (flipped \ bitmap)
          BY <1>1
        <5> QED BY <5>1, Zenon
      <4>2. t \in flipped <=> ~(begins(t) + ends(t) = 0 <=> begins2(t) + ends2(t) = 0)
        <5>1. t \in flipped <=> ~(tick[t].gross = 0 <=> tick[t].gross + delta = 0)
          BY <1>2, <2>2
        <5>2. tick[t].gross + delta = begins2(t) + ends2(t)
          <6> HIDE DEF after
          <6> QED BY <3>2, <3>3
        <5> QED BY <1>4, <5>1, <5>2
      <4> QED BY <1>4, <4>1, <4>2
    <3> HIDE DEF after
    <3>6. CASE after(t).gross = 0
      <4>1. tick'[t] = Unused
        BY <3>4, <3>6
      <4>2. tick'[t].gross = 0 /\ tick'[t].net = 0
            /\ tick'[t] = [gross |-> tick'[t].gross, net |-> tick'[t].net,
                           outside |-> tick'[t].outside]
        BY <4>1 DEF Unused
      <4>3. begins2(t) = 0 /\ ends2(t) = 0
        BY <1>4, <3>3, <3>6
      <4> QED BY <3>5, <4>2, <4>3
    <3>7. CASE after(t).gross # 0
      <4>1. tick'[t] = after(t)
        BY <3>4, <3>7
      <4>2. tick'[t] = [gross |-> tick'[t].gross, net |-> tick'[t].net,
                        outside |-> tick'[t].outside]
        BY <3>2, <4>1
      <4> QED BY <3>3, <3>5, <4>1, <4>2
    <3> QED BY <3>6, <3>7
  <2> QED BY <2>1, <2>2
<1>6. TicksTyped'
  <2>1. ASSUME NEW t \in Ticks PROVE tick'[t].gross \in Nat /\ tick'[t].net \in Int
    <3>1. begins2(t) \in Nat /\ ends2(t) \in Nat
      BY <1>4
    <3>2. tick'[t].gross = begins2(t) + ends2(t) /\ tick'[t].net = begins2(t) - ends2(t)
      BY <1>5
    <3> QED BY <3>1, <3>2
  <2> QED BY <1>5, <2>1 DEF TicksTyped
<1>7. Counted(position', tick', bitmap')
  BY <1>4, <1>5 DEF Counted, begins2, ends2
<1> QED BY <1>3, <1>6, <1>7

\* A step that moves no liquidity and flips no bit.
LEMMA CountsUntouched ==
    ASSUME TicksInv, NftInv', bitmap' = bitmap, DOMAIN position' = DOMAIN position,
           \A id \in DOMAIN position : /\ position'[id].lower = position[id].lower
                                       /\ position'[id].upper = position[id].upper
                                       /\ position'[id].liquidity = position[id].liquidity,
           \A t \in Ticks : /\ tick'[t].gross = tick[t].gross /\ tick'[t].net = tick[t].net
                            /\ tick'[t] = [gross |-> tick'[t].gross, net |-> tick'[t].net,
                                           outside |-> tick'[t].outside]
    PROVE  TicksInv'
<1>0. /\ Open(position) /\ TicksTyped /\ bitmap \subseteq Ticks /\ IsFiniteSet(bitmap)
      /\ Counted(position, tick, bitmap)
  BY DEF TicksInv
<1>1. Open(position')
  BY <1>0 DEF Open
<1>2. TicksTyped'
  BY <1>0 DEF TicksTyped
<1>3. ASSUME NEW t
      PROVE  /\ Begins(position', t) = Begins(position, t)
             /\ Ends(position', t) = Ends(position, t)
             /\ Weighed(position', Begins(position, t)) = Weighed(position, Begins(position, t))
             /\ Weighed(position', Ends(position, t)) = Weighed(position, Ends(position, t))
  <2>1. Begins(position', t) = Begins(position, t) /\ Ends(position', t) = Ends(position, t)
    BY DEF Begins, Ends
  <2>2. Begins(position, t) \subseteq DOMAIN position /\ Ends(position, t) \subseteq DOMAIN position
    BY DEF Begins, Ends
  <2>3. IsFiniteSet(Begins(position, t)) /\ IsFiniteSet(Ends(position, t))
    BY <1>0, <2>2, WeighedPositive
  <2>4. \A id \in DOMAIN position : /\ position[id].liquidity \in Int
                                    /\ position'[id].liquidity = position[id].liquidity
    BY <1>0 DEF Open
  <2>5. /\ \A id \in Begins(position, t) : /\ position[id].liquidity \in Int
                                           /\ position'[id].liquidity = position[id].liquidity
        /\ \A id \in Ends(position, t) : /\ position[id].liquidity \in Int
                                         /\ position'[id].liquidity = position[id].liquidity
    BY <2>2, <2>4
  <2> QED BY <2>1, <2>3, <2>5, WeighedSame
<1>4. Counted(position', tick', bitmap')
  BY <1>0, <1>3 DEF Counted
<1> QED BY <1>0, <1>1, <1>2, <1>4 DEF TicksInv

\* A position is opened.
LEMMA AddCounts ==
    ASSUME TicksInv, NftInv', NEW o \in Owners, NEW l \in Ticks, NEW u \in Ticks,
           NEW k \in Liquidities, AddLiquidity(o, l, u, k)
    PROVE  TicksInv'
<1> DEFINE inside == [t \in Tokens |-> GrowthInside(t, l, u)]
           opened == [lower |-> l, upper |-> u, liquidity |-> k, last |-> inside, nft |-> nextNft]
           e == nextPosition
<1>0. /\ Open(position) /\ NftInv /\ k \in Nat /\ k > 0 /\ l < u /\ l # u
  BY ClPoolAssumption DEF TicksInv, AddLiquidity
<1>1. position' = With(position, e, opened) /\ UpdateTicks(l, u, k)
  BY DEF AddLiquidity
<1>2. e \notin DOMAIN position
  BY <1>0 DEF NftInv, Entries
<1>3. opened.lower = l /\ opened.upper = u /\ opened.liquidity = k
  OBVIOUS
<1> HIDE DEF opened, e
<1>4. /\ DOMAIN position' = DOMAIN position \cup {e} /\ position'[e] = opened
      /\ \A id \in DOMAIN position : id # e => position'[id] = position[id]
  <2>1. position' = With(position, e, opened)
    BY <1>1
  <2> QED BY <2>1 DEF With
<1>5. Open(position')
  <2>1. IsFiniteSet(DOMAIN position')
    BY <1>0, <1>4, FS_AddElement DEF Open
  <2> QED BY <1>0, <1>3, <1>4, <2>1 DEF Open
<1>6. OneMoves(position, position', e, l, u, 0, k)
  BY <1>2, <1>3, <1>4 DEF OneMoves
<1>7. k \in Int /\ k = k - 0 /\ 0 \in Nat
  BY <1>0
<1> QED BY <1>0, <1>1, <1>5, <1>6, <1>7, UpdateFollows DEF TicksInv

\* A position is shrunk, or closed.
LEMMA RemoveCounts ==
    ASSUME TicksInv, NftInv', NEW o \in Owners, NEW e \in DOMAIN position,
           NEW k \in Liquidities, RemoveLiquidity(o, e, k)
    PROVE  TicksInv'
<1> DEFINE l == position[e].lower
           u == position[e].upper
           a == position[e].liquidity
           rest == a - k
<1>0. /\ Open(position) /\ l \in Ticks /\ u \in Ticks /\ l < u /\ l # u
      /\ a \in Nat /\ k \in Nat /\ 0 < k /\ k <= a /\ rest \in Nat
  BY ClPoolAssumption DEF TicksInv, Open, RemoveLiquidity
<1>1. /\ UpdateTicks(l, u, -k)
      /\ rest = 0 => position' = Without(position, e)
      /\ rest # 0 => position' = [position EXCEPT ![e].liquidity = rest]
  BY DEF RemoveLiquidity
<1>2. IsPosition(position[e])
  BY DEF TicksInv, NftInv, Entries
<1>3. /\ DOMAIN position \ {e} = DOMAIN position' \ {e}
      /\ DOMAIN position' \subseteq DOMAIN position
      /\ \A id \in DOMAIN position \ {e} : position'[id] = position[id]
      /\ (e \in DOMAIN position' => /\ rest > 0 /\ position'[e].liquidity = rest
                                     /\ position'[e].lower = l /\ position'[e].upper = u)
      /\ (e \notin DOMAIN position' => rest = 0)
  <2>1. CASE rest = 0
    <3>1. /\ DOMAIN position' = DOMAIN position \ {e}
          /\ \A y \in DOMAIN position : y # e => position'[y] = position[y]
      BY <1>1, <2>1 DEF Without
    <3> QED BY <2>1, <3>1
  <2>2. CASE rest # 0
    <3>1. position' = [position EXCEPT ![e].liquidity = rest]
      BY <1>1, <2>2
    <3>2. DOMAIN position' = DOMAIN position /\ rest > 0
      BY <1>0, <2>2, <3>1
    <3>3. \A id \in DOMAIN position \ {e} : position'[id] = position[id]
      <4> HIDE DEF rest
      <4> QED BY <3>1
    <3>4. position'[e] = [position[e] EXCEPT !.liquidity = rest]
      <4> HIDE DEF rest
      <4> QED BY <3>1
    <3>5. position'[e].lower = l /\ position'[e].upper = u /\ position'[e].liquidity = rest
      <4> HIDE DEF rest
      <4> QED BY <1>2, <3>4 DEF IsPosition
    <3> HIDE DEF rest, l, u
    <3> QED BY <2>2, <3>2, <3>3, <3>5
  <2> QED BY <2>1, <2>2
<1> HIDE DEF rest
<1>4. Open(position')
  <2>1. IsFiniteSet(DOMAIN position')
    BY <1>0, <1>3, FS_Subset DEF Open
  <2> QED BY <1>0, <1>3, <2>1 DEF Open
<1>5. OneMoves(position, position', e, l, u, a, rest)
  BY <1>3 DEF OneMoves
<1>6. -k \in Int /\ -k = rest - a
  BY <1>0 DEF rest
<1> HIDE DEF a, l, u
<1>7. TicksTyped' /\ bitmap' \subseteq Ticks /\ IsFiniteSet(bitmap') /\ Counted(position', tick', bitmap')
  BY <1>0, <1>1, <1>4, <1>5, <1>6, UpdateFollows
<1> QED BY <1>4, <1>7 DEF TicksInv

\* What a crossing changes of a boundary is not counted.
LEMMA SwapCounts ==
    ASSUME TicksInv, NftInv', NEW d \in BOOLEAN, NEW a \in Inputs, NEW x \in Limits, ClSwap(d, a, x)
    PROVE  TicksInv'
<1> DEFINE crossed == SwapResult(d, a, x).crossed
           turned(t) == [k \in Tokens |-> (growth[k] - tick[t].outside[k]) % Word]
<1>1. /\ tick' = [t \in Ticks |-> IF t \notin crossed THEN tick[t]
                                  ELSE [tick[t] EXCEPT !.outside =
                                           [k \in Tokens |-> (growth[k] - @[k]) % Word]]]
      /\ bitmap' = bitmap /\ position' = position
  BY Zenon DEF ClSwap
<1> HIDE DEF crossed
<1>2. ASSUME NEW t \in Ticks
      PROVE  /\ tick'[t].gross = tick[t].gross /\ tick'[t].net = tick[t].net
             /\ tick'[t] = [gross |-> tick'[t].gross, net |-> tick'[t].net,
                            outside |-> tick'[t].outside]
  <2>1. tick[t] = [gross |-> tick[t].gross, net |-> tick[t].net, outside |-> tick[t].outside]
    BY DEF TicksInv, TicksTyped
  <2>2. CASE t \notin crossed
    <3>1. tick'[t] = tick[t]
      BY <1>1, <2>2
    <3> QED BY <2>1, <3>1
  <2>3. CASE t \in crossed
    <3>1. tick'[t] = [tick[t] EXCEPT !.outside = turned(t)]
      BY <1>1, <2>3
    <3> HIDE DEF turned
    <3> QED BY <2>1, <3>1
  <2> QED BY <2>2, <2>3
<1> QED BY <1>1, <1>2, CountsUntouched

\* collect writes the growth last seen, which no counter depends on.
LEMMA CollectCounts ==
    ASSUME TicksInv, NftInv', NEW o \in Owners, NEW e \in DOMAIN position, Collect(o, e)
    PROVE  TicksInv'
<1> DEFINE inside == [t \in Tokens |-> GrowthInside(t, position[e].lower, position[e].upper)]
<1>1. position' = [position EXCEPT ![e].last = inside] /\ tick' = tick /\ bitmap' = bitmap
  BY Zenon DEF Collect
<1> HIDE DEF inside
<1>2. ASSUME NEW id \in DOMAIN position
      PROVE  /\ position'[id].lower = position[id].lower /\ position'[id].upper = position[id].upper
             /\ position'[id].liquidity = position[id].liquidity
  <2>1. IsPosition(position[id])
    BY DEF TicksInv, NftInv, Entries
  <2> QED BY <1>1, <2>1 DEF IsPosition
<1>3. DOMAIN position' = DOMAIN position
  BY <1>1
<1>4. \A t \in Ticks : tick[t] = [gross |-> tick[t].gross, net |-> tick[t].net,
                                  outside |-> tick[t].outside]
  BY DEF TicksInv, TicksTyped
<1> QED BY <1>1, <1>2, <1>3, <1>4, CountsUntouched

\* A call that touches neither positions nor ticks.
LEMMA TicksStill ==
    ASSUME TicksInv, NftInv', UNCHANGED <<position, tick, bitmap>>
    PROVE  TicksInv'
BY DEF TicksInv, TicksTyped

\* Every call of the concentrated-liquidity pool keeps the counters of its ticks.
THEOREM TicksInductive == TicksInv /\ [ClNext]_clVars => TicksInv'
<1> SUFFICES ASSUME TicksInv, [ClNext]_clVars PROVE TicksInv'
  OBVIOUS
<1>0. NftInv'
  BY NftInductive DEF TicksInv
<1>1. ASSUME NEW o \in Owners, NEW l \in Ticks, NEW u \in Ticks, NEW n \in Liquidities,
             AddLiquidity(o, l, u, n)
      PROVE  TicksInv'
  BY <1>0, <1>1, AddCounts
<1>2. ASSUME NEW d \in BOOLEAN, NEW a \in Inputs, NEW x \in Limits, ClSwap(d, a, x) PROVE TicksInv'
  BY <1>0, <1>2, SwapCounts
<1>3. ASSUME NEW o \in Owners, NEW id \in DOMAIN position, Collect(o, id) PROVE TicksInv'
  BY <1>0, <1>3, CollectCounts
<1>4. ASSUME NEW o \in Owners, NEW id \in DOMAIN position, NEW n \in Liquidities,
             RemoveLiquidity(o, id, n)
      PROVE  TicksInv'
  BY <1>0, <1>4, RemoveCounts
<1>5. ASSUME NEW from \in Owners, NEW to \in Owners, NEW id \in DOMAIN nft, HandOn(from, to, id)
      PROVE  TicksInv'
  BY <1>0, <1>5, TicksStill DEF HandOn
<1>6. CASE UNCHANGED clVars
  BY <1>0, <1>6, TicksStill DEF clVars
<1> QED BY <1>1, <1>2, <1>3, <1>4, <1>5, <1>6 DEF ClNext

\* No position, no counter, no bit.
LEMMA TicksInitial == ClInit => TicksInv
<1> SUFFICES ASSUME ClInit PROVE TicksInv
  OBVIOUS
<1>1. position = <<>> /\ bitmap = {} /\ tick = [t \in Ticks |-> Unused]
      /\ nft = <<>> /\ nextNft = 0 /\ nextPosition = 0
  BY DEF ClInit, NftInit
<1>2. DOMAIN position = {} /\ DOMAIN nft = {}
  BY <1>1
<1>3. NftInv
  BY <1>1, <1>2 DEF NftInv, Entries, NftMatchesPosition
<1>4. Open(position) /\ IsFiniteSet(bitmap)
  BY <1>1, <1>2, FS_EmptySet DEF Open
<1>5. TicksTyped /\ \A t \in Ticks : tick[t].gross = 0 /\ tick[t].net = 0
  BY <1>1 DEF TicksTyped, Unused
<1>6. ASSUME NEW t \in Ticks
      PROVE  Begins(position, t) = {} /\ Ends(position, t) = {} /\ Weighed(position, {}) = 0
  <2>1. Begins(position, t) = {} /\ Ends(position, t) = {}
    BY <1>2 DEF Begins, Ends
  <2>2. Weighed(position, {}) = 0
    BY <1>4, WeighedPositive
  <2> QED BY <2>1, <2>2
<1>7. Counted(position, tick, bitmap)
  <2>1. ASSUME NEW t \in Ticks
        PROVE  /\ tick[t].gross = Weighed(position, Begins(position, t))
                                   + Weighed(position, Ends(position, t))
               /\ tick[t].net = Weighed(position, Begins(position, t))
                                 - Weighed(position, Ends(position, t))
               /\ t \notin bitmap /\ Begins(position, t) \cup Ends(position, t) = {}
    <3>1. tick[t].gross = 0 /\ tick[t].net = 0 /\ t \notin bitmap
      BY <1>1, <1>5
    <3>2. Weighed(position, Begins(position, t)) = 0 /\ Weighed(position, Ends(position, t)) = 0
          /\ Begins(position, t) = {} /\ Ends(position, t) = {}
      BY <1>6, Zenon
    <3> QED BY <3>1, <3>2
  <2> QED BY <2>1 DEF Counted
<1> QED BY <1>1, <1>3, <1>4, <1>5, <1>7 DEF TicksInv

\* update_tick and flip_bitmap of the concentrated-liquidity pool: at every boundary
\* the counters are the sums over the positions that begin and end there, and the
\* bit is set exactly while one does, for any ticks, owners and amounts.
THEOREM TicksMatchPositionsCorrect == ClSpec => []TicksMatchPositions
<1>1. TicksInv => TicksMatchPositions
  BY MatchIsCounted DEF TicksInv
<1> QED BY <1>1, TicksInitial, TicksInductive, PTL DEF ClSpec

-----------------------------------------------------------------------------
(* The counters of the first pool *)

\* One record changes its field, and the sum by as much.
LEMMA FieldMoves ==
    ASSUME NEW f, NEW g, NEW k, NEW S, IsFiniteSet(S), NEW e \in S,
           \A x \in S : f[x][k] \in Int /\ g[x][k] \in Int,
           \A x \in S : x # e => g[x][k] = f[x][k]
    PROVE  /\ FieldSum(g, k, S) = FieldSum(f, k, S) + (g[e][k] - f[e][k])
           /\ FieldSum(f, k, S) \in Int
<1>1. /\ FieldSum(f, k, S) = f[e][k] + FieldSum(f, k, S \ {e})
      /\ FieldSum(f, k, S \ {e}) \in Int
  BY FieldSplit
<1>2. FieldSum(g, k, S) = g[e][k] + FieldSum(g, k, S \ {e})
  BY FieldSplit
<1>3. FieldSum(f, k, S \ {e}) = FieldSum(g, k, S \ {e})
  <2>1. IsFiniteSet(S \ {e}) /\ \A x \in S \ {e} : f[x][k] \in Int /\ g[x][k] = f[x][k]
    BY FS_RemoveElement
  <2> QED BY <2>1, FieldSame
<1> QED BY <1>1, <1>2, <1>3

\* Two records do.
LEMMA FieldsMove ==
    ASSUME NEW f, NEW g, NEW k, NEW S, IsFiniteSet(S), NEW d \in S, NEW e \in S, d # e,
           \A x \in S : f[x][k] \in Int /\ g[x][k] \in Int,
           \A x \in S : x \notin {d, e} => g[x][k] = f[x][k]
    PROVE  /\ FieldSum(g, k, S) = FieldSum(f, k, S) + ((g[d][k] - f[d][k]) + (g[e][k] - f[e][k]))
           /\ FieldSum(f, k, S) \in Int
<1> DEFINE h == [x \in S |-> IF x = d THEN g[x] ELSE f[x]]
<1>1. /\ \A x \in S : h[x][k] \in Int
      /\ \A x \in S : x # d => h[x][k] = f[x][k]
      /\ \A x \in S : x # e => g[x][k] = h[x][k]
      /\ h[d][k] = g[d][k] /\ h[e][k] = f[e][k]
  OBVIOUS
<1> HIDE DEF h
<1>2. /\ FieldSum(h, k, S) = FieldSum(f, k, S) + (h[d][k] - f[d][k])
      /\ FieldSum(f, k, S) \in Int
  BY <1>1, FieldMoves
<1>3. FieldSum(g, k, S) = FieldSum(h, k, S) + (g[e][k] - h[e][k])
  BY <1>1, FieldMoves
<1> QED BY <1>1, <1>2, <1>3

\* Zeros add up to zero.
LEMMA FieldZero ==
    ASSUME NEW f, NEW k, NEW S, IsFiniteSet(S), \A x \in S : f[x][k] = 0
    PROVE  FieldSum(f, k, S) = 0
<1> DEFINE w == [x \in S |-> f[x][k]]
<1>1. FieldSum(f, k, S) = Total(w, S)
  BY FieldTotal
<1>2. \A x \in S : w[x] = 0
  OBVIOUS
<1> HIDE DEF w
<1> QED BY <1>1, <1>2, TotalZero

Gross(tk) == FieldSum(tk, "gross", PoolTicks)
Net(tk) == FieldSum(tk, "net", PoolTicks)
Deposited(pos) == FieldSum(pos, "liquidity", DOMAIN pos)

\* TicksBalance, of any state.
Balanced(tk, pos) ==
    /\ Gross(tk) = 2 * Deposited(pos)
    /\ Net(tk) = 0
    /\ \A t \in PoolTicks : tk[t].initialized = (tk[t].gross > 0)

\* TicksBalance says so of the present state.
LEMMA BalanceIsBalanced ==
    /\ TicksBalance <=> Balanced(ticks, positions)
    /\ TicksBalance' <=> Balanced(ticks', positions')
BY Zenon DEF TicksBalance, Balanced, Gross, Net, Deposited, FieldSum, MapThenSumSet, MapThenFoldSet

Counter(r) ==
    /\ r.gross \in Int /\ r.net \in Int
    /\ r = [gross |-> r.gross, net |-> r.net, outside |-> r.outside, initialized |-> r.initialized,
            stored |-> r.stored]

Funded(pos) ==
    /\ IsFiniteSet(DOMAIN pos)
    /\ \A i \in DOMAIN pos : /\ pos[i].liquidity \in Nat
                             /\ pos[i] = [liquidity |-> pos[i].liquidity, last |-> pos[i].last]

PoolInv ==
    /\ DOMAIN ticks = PoolTicks /\ \A t \in PoolTicks : Counter(ticks[t])
    /\ Funded(positions)
    /\ Balanced(ticks, positions)

\* A range has finitely many ticks to choose from, all of them i32.
LEMMA PoolTicksFinite == IsFiniteSet(PoolTicks) /\ PoolTicks \subseteq Int
BY PoolAssumption, FS_Subset

\* Deposits add up to a number.
LEMMA DepositedTyped ==
    ASSUME NEW pos, Funded(pos)
    PROVE  Deposited(pos) \in Int
<1>1. IsFiniteSet(DOMAIN pos) /\ \A i \in DOMAIN pos : pos[i]["liquidity"] \in Int
  BY DEF Funded
<1> QED BY <1>1, FieldSame DEF Deposited

\* update_tick on both boundaries: twice the liquidity in gross, none in net.
LEMMA RangeBalances ==
    ASSUME PoolInv, NEW l \in PoolTicks, NEW u \in PoolTicks, l < u, NEW delta \in Int,
           UpdateRange(l, u, delta)
    PROVE  /\ DOMAIN ticks' = PoolTicks /\ \A t \in PoolTicks : Counter(ticks'[t])
           /\ Gross(ticks') = Gross(ticks) + 2 * delta /\ Gross(ticks) \in Int
           /\ Net(ticks') = 0
           /\ \A t \in PoolTicks : ticks'[t].initialized = (ticks'[t].gross > 0)
<1> DEFINE low == UpdateTick(ticks[l], l, delta, FALSE)
           high == UpdateTick(ticks[u], u, delta, TRUE)
<1>0. l # u /\ DOMAIN ticks = PoolTicks
  BY PoolTicksFinite DEF PoolInv
<1>1. ticks' = [ticks EXCEPT ![l] = low, ![u] = high]
  BY <1>0 DEF UpdateRange
<1>2. /\ low.gross = ticks[l].gross + delta /\ low.net = ticks[l].net + delta
      /\ low.initialized = (low.gross > 0)
      /\ low = [gross |-> low.gross, net |-> low.net, outside |-> low.outside,
                initialized |-> low.initialized, stored |-> low.stored]
  BY DEF UpdateTick
<1>3. /\ high.gross = ticks[u].gross + delta /\ high.net = ticks[u].net - delta
      /\ high.initialized = (high.gross > 0)
      /\ high = [gross |-> high.gross, net |-> high.net, outside |-> high.outside,
                 initialized |-> high.initialized, stored |-> high.stored]
  BY DEF UpdateTick
<1> HIDE DEF low, high
<1>4. /\ DOMAIN ticks' = PoolTicks /\ ticks'[l] = low /\ ticks'[u] = high
      /\ \A t \in PoolTicks : t \notin {l, u} => ticks'[t] = ticks[t]
  BY <1>0, <1>1
<1>5. \A t \in PoolTicks : Counter(ticks[t]) /\ ticks[t].initialized = (ticks[t].gross > 0)
  BY DEF PoolInv, Balanced
<1>6. Counter(low) /\ Counter(high)
  <2>1. /\ ticks[l].gross \in Int /\ ticks[l].net \in Int
        /\ ticks[u].gross \in Int /\ ticks[u].net \in Int
    BY <1>5 DEF Counter
  <2>2. low.gross \in Int /\ low.net \in Int /\ high.gross \in Int /\ high.net \in Int
    BY <1>2, <1>3, <2>1
  <2> QED BY <1>2, <1>3, <2>2 DEF Counter
<1>7. \A t \in PoolTicks : Counter(ticks'[t])
  BY <1>4, <1>5, <1>6
<1>8. ASSUME NEW t \in PoolTicks PROVE ticks'[t].initialized = (ticks'[t].gross > 0)
  <2>1. CASE t = l
    BY <1>2, <1>4, <2>1
  <2>2. CASE t = u
    BY <1>3, <1>4, <2>2
  <2>3. CASE t \notin {l, u}
    BY <1>4, <1>5, <2>3
  <2> QED BY <2>1, <2>2, <2>3
<1>9. /\ \A t \in PoolTicks : ticks[t]["gross"] \in Int /\ ticks'[t]["gross"] \in Int
      /\ \A t \in PoolTicks : ticks[t]["net"] \in Int /\ ticks'[t]["net"] \in Int
      /\ \A t \in PoolTicks : t \notin {l, u} => ticks'[t]["gross"] = ticks[t]["gross"]
      /\ \A t \in PoolTicks : t \notin {l, u} => ticks'[t]["net"] = ticks[t]["net"]
  BY <1>4, <1>5, <1>7 DEF Counter
<1>10. /\ Gross(ticks') = Gross(ticks) + ((ticks'[l]["gross"] - ticks[l]["gross"])
                                          + (ticks'[u]["gross"] - ticks[u]["gross"]))
       /\ Gross(ticks) \in Int
  BY <1>0, <1>9, PoolTicksFinite, FieldsMove DEF Gross
<1>11. /\ Net(ticks') = Net(ticks) + ((ticks'[l]["net"] - ticks[l]["net"])
                                      + (ticks'[u]["net"] - ticks[u]["net"]))
       /\ Net(ticks) = 0
  <2>1. Net(ticks) = 0
    BY DEF PoolInv, Balanced
  <2>2. /\ \A t \in PoolTicks : ticks[t]["net"] \in Int /\ ticks'[t]["net"] \in Int
        /\ \A t \in PoolTicks : t \notin {l, u} => ticks'[t]["net"] = ticks[t]["net"]
        /\ IsFiniteSet(PoolTicks)
    BY <1>9, PoolTicksFinite
  <2>3. Net(ticks') = Net(ticks) + ((ticks'[l]["net"] - ticks[l]["net"])
                                    + (ticks'[u]["net"] - ticks[u]["net"]))
    BY <1>0, <2>2, FieldsMove DEF Net
  <2> QED BY <2>1, <2>3
<1>12. /\ ticks'[l]["gross"] - ticks[l]["gross"] = delta
       /\ ticks'[u]["gross"] - ticks[u]["gross"] = delta
       /\ ticks'[l]["net"] - ticks[l]["net"] = delta
       /\ ticks'[u]["net"] - ticks[u]["net"] = -delta
  BY <1>2, <1>3, <1>4, <1>9
<1>13. Gross(ticks') = Gross(ticks) + 2 * delta /\ Net(ticks') = 0
  BY <1>10, <1>11, <1>12
<1> QED BY <1>4, <1>7, <1>8, <1>10, <1>13

\* What balances after a change of both sides.
LEMMA StillBalanced ==
    ASSUME PoolInv, NEW l \in PoolTicks, NEW u \in PoolTicks, l < u, NEW delta \in Int,
           UpdateRange(l, u, delta), Funded(positions'),
           Deposited(positions') = Deposited(positions) + delta
    PROVE  PoolInv'
<1>1. /\ DOMAIN ticks' = PoolTicks /\ \A t \in PoolTicks : Counter(ticks'[t])
      /\ Gross(ticks') = Gross(ticks) + 2 * delta /\ Gross(ticks) \in Int
      /\ Net(ticks') = 0
      /\ \A t \in PoolTicks : ticks'[t].initialized = (ticks'[t].gross > 0)
  BY RangeBalances
<1>2. Deposited(positions) \in Int /\ Gross(ticks) = 2 * Deposited(positions)
  BY DepositedTyped DEF PoolInv, Balanced
<1>3. Gross(ticks') = 2 * Deposited(positions')
  BY <1>1, <1>2
<1>4. Balanced(ticks', positions')
  BY <1>1, <1>3 DEF Balanced
<1> QED BY <1>1, <1>4 DEF PoolInv

\* mint adds as much to one position as to each of two boundaries.
LEMMA MintBalances ==
    ASSUME PoolInv, NEW id, NEW l \in PoolTicks, NEW u \in PoolTicks,
           NEW n \in PoolLiquidities, PoolMint(id, l, u, n)
    PROVE  PoolInv'
<1> DEFINE fresh == [liquidity |-> n, last |-> GrowthInRange(ticks', l, u)]
           more == [positions[id] EXCEPT !.liquidity = @ + n]
<1>0. n \in Nat /\ n \in Int /\ Funded(positions) /\ l < u /\ UpdateRange(l, u, n)
  BY PoolAssumption DEF PoolMint, PoolInv
<1>1. positions' = Put(positions, id, IF id \in DOMAIN positions THEN more ELSE fresh)
  BY DEF PoolMint
<1>2. fresh.liquidity = n /\ fresh = [liquidity |-> fresh.liquidity, last |-> fresh.last]
  OBVIOUS
<1>3. id \in DOMAIN positions =>
         /\ more.liquidity = positions[id].liquidity + n
         /\ more = [liquidity |-> more.liquidity, last |-> more.last]
  <2> SUFFICES ASSUME id \in DOMAIN positions
               PROVE  /\ more.liquidity = positions[id].liquidity + n
                      /\ more = [liquidity |-> more.liquidity, last |-> more.last]
    OBVIOUS
  <2>1. positions[id] = [liquidity |-> positions[id].liquidity, last |-> positions[id].last]
    BY <1>0 DEF Funded
  <2> QED BY <2>1
<1> HIDE DEF fresh, more
<1>4. CASE id \in DOMAIN positions
  <2>1. /\ DOMAIN positions' = DOMAIN positions /\ positions'[id] = more
        /\ \A i \in DOMAIN positions : i # id => positions'[i] = positions[i]
    BY <1>1, <1>4 DEF Put
  <2>2. Funded(positions')
    BY <1>0, <1>3, <1>4, <2>1 DEF Funded
  <2>3. Deposited(positions') = Deposited(positions)
                                + (positions'[id]["liquidity"] - positions[id]["liquidity"])
    <3>1. /\ \A i \in DOMAIN positions : /\ positions[i]["liquidity"] \in Int
                                         /\ positions'[i]["liquidity"] \in Int
          /\ \A i \in DOMAIN positions :
                i # id => positions'[i]["liquidity"] = positions[i]["liquidity"]
          /\ IsFiniteSet(DOMAIN positions)
      BY <1>0, <2>1, <2>2 DEF Funded
    <3> QED BY <1>4, <2>1, <3>1, FieldMoves DEF Deposited
  <2>4. /\ positions'[id]["liquidity"] = positions[id]["liquidity"] + n
        /\ positions[id]["liquidity"] \in Int
    BY <1>0, <1>3, <1>4, <2>1 DEF Funded
  <2>5. positions'[id]["liquidity"] - positions[id]["liquidity"] = n
    BY <1>0, <2>4
  <2> QED BY <1>0, <2>2, <2>3, <2>5, StillBalanced
<1>5. CASE id \notin DOMAIN positions
  <2>1. /\ DOMAIN positions' = DOMAIN positions \cup {id} /\ positions'[id] = fresh
        /\ \A i \in DOMAIN positions : positions'[i] = positions[i]
    BY <1>1, <1>5 DEF Put
  <2>2. IsFiniteSet(DOMAIN positions') /\ IsFiniteSet(DOMAIN positions)
    BY <1>0, <2>1, FS_AddElement DEF Funded
  <2>3. Funded(positions')
    BY <1>0, <1>2, <2>1, <2>2 DEF Funded
  <2>4. Deposited(positions') = positions'[id]["liquidity"]
                                + FieldSum(positions', "liquidity", DOMAIN positions' \ {id})
    <3>1. \A i \in DOMAIN positions' : positions'[i]["liquidity"] \in Int
      BY <2>3 DEF Funded
    <3> QED BY <2>1, <2>2, <3>1, FieldSplit DEF Deposited
  <2>5. DOMAIN positions' \ {id} = DOMAIN positions
    BY <1>5, <2>1
  <2>6. Deposited(positions) = FieldSum(positions', "liquidity", DOMAIN positions)
        /\ Deposited(positions) \in Int
    <3>1. \A i \in DOMAIN positions : /\ positions[i]["liquidity"] \in Int
                                      /\ positions'[i]["liquidity"] = positions[i]["liquidity"]
      BY <1>0, <2>1 DEF Funded
    <3> QED BY <2>2, <3>1, FieldSame DEF Deposited
  <2>7. positions'[id]["liquidity"] = n
    BY <1>2, <2>1
  <2>8. Deposited(positions') = Deposited(positions) + n
    BY <1>0, <2>4, <2>5, <2>6, <2>7
  <2> QED BY <1>0, <2>3, <2>8, StillBalanced
<1> QED BY <1>4, <1>5

\* burn takes as much from a position as from two boundaries, whatever range the
\* caller names.
LEMMA BurnBalances ==
    ASSUME PoolInv, NEW id, NEW l \in PoolTicks, NEW u \in PoolTicks,
           NEW n \in PoolLiquidities, PoolBurn(id, l, u, n)
    PROVE  PoolInv'
<1> DEFINE a == positions[id].liquidity
           less == [positions[id] EXCEPT !.liquidity = @ - n]
<1>0. /\ n \in Nat /\ -n \in Int /\ Funded(positions) /\ l < u /\ UpdateRange(l, u, -n)
      /\ id \in DOMAIN positions /\ a \in Nat /\ a >= n
  BY PoolAssumption DEF PoolBurn, PoolInv, Funded
<1>1. positions' = IF a = n THEN [i \in DOMAIN positions \ {id} |-> positions[i]]
                   ELSE [positions EXCEPT ![id] = less]
  BY DEF PoolBurn
<1>2. less.liquidity = a - n /\ less = [liquidity |-> less.liquidity, last |-> less.last]
  <2>1. positions[id] = [liquidity |-> positions[id].liquidity, last |-> positions[id].last]
    BY <1>0 DEF Funded
  <2> QED BY <2>1
<1>3. /\ IsFiniteSet(DOMAIN positions) /\ a = positions[id]["liquidity"]
      /\ \A i \in DOMAIN positions : positions[i]["liquidity"] \in Int
  BY <1>0 DEF Funded
<1> HIDE DEF a, less
<1>4. CASE a = n
  <2>1. /\ DOMAIN positions' = DOMAIN positions \ {id}
        /\ \A i \in DOMAIN positions' : positions'[i] = positions[i]
    BY <1>1, <1>4
  <2>2. IsFiniteSet(DOMAIN positions')
    BY <1>3, <2>1, FS_RemoveElement
  <2>3. Funded(positions')
    BY <1>0, <2>1, <2>2 DEF Funded
  <2>4. Deposited(positions) = a + FieldSum(positions, "liquidity", DOMAIN positions \ {id})
    BY <1>0, <1>3, FieldSplit DEF Deposited
  <2>5. FieldSum(positions, "liquidity", DOMAIN positions') = Deposited(positions')
        /\ FieldSum(positions, "liquidity", DOMAIN positions') \in Int
    <3>1. \A i \in DOMAIN positions' : /\ positions[i]["liquidity"] \in Int
                                       /\ positions'[i]["liquidity"] = positions[i]["liquidity"]
      BY <1>3, <2>1
    <3> QED BY <2>2, <3>1, FieldSame DEF Deposited
  <2>6. Deposited(positions') = Deposited(positions) + (-n)
    BY <1>0, <1>4, <2>1, <2>4, <2>5
  <2> QED BY <1>0, <2>3, <2>6, StillBalanced
<1>5. CASE a # n
  <2>1. positions' = [positions EXCEPT ![id] = less]
    BY <1>1, <1>5
  <2>2. /\ DOMAIN positions' = DOMAIN positions /\ positions'[id] = less
        /\ \A i \in DOMAIN positions : i # id => positions'[i] = positions[i]
    BY <1>0, <2>1
  <2>3. Funded(positions')
    BY <1>0, <1>2, <2>2 DEF Funded
  <2>4. Deposited(positions') = Deposited(positions)
                                + (positions'[id]["liquidity"] - positions[id]["liquidity"])
    <3>1. /\ \A i \in DOMAIN positions : /\ positions[i]["liquidity"] \in Int
                                         /\ positions'[i]["liquidity"] \in Int
          /\ \A i \in DOMAIN positions :
                i # id => positions'[i]["liquidity"] = positions[i]["liquidity"]
      BY <1>3, <2>2, <2>3 DEF Funded
    <3> QED BY <1>0, <1>3, <2>2, <3>1, FieldMoves DEF Deposited
  <2>5. positions'[id]["liquidity"] - positions[id]["liquidity"] = -n
    <3>1. positions'[id]["liquidity"] = a - n
      BY <1>2, <2>2
    <3> QED BY <1>0, <1>3, <3>1
  <2> QED BY <1>0, <2>3, <2>4, <2>5, StillBalanced
<1> QED BY <1>4, <1>5

\* A step that leaves what is summed.
LEMMA NothingMoved ==
    ASSUME PoolInv, Funded(positions'), DOMAIN positions' = DOMAIN positions,
           \A i \in DOMAIN positions : positions'[i].liquidity = positions[i].liquidity,
           DOMAIN ticks' = PoolTicks,
           \A t \in PoolTicks : /\ Counter(ticks'[t])
                                /\ ticks'[t].gross = ticks[t].gross
                                /\ ticks'[t].net = ticks[t].net
                                /\ ticks'[t].initialized = ticks[t].initialized
    PROVE  PoolInv'
<1>1. Deposited(positions) = Deposited(positions')
  <2>1. /\ \A i \in DOMAIN positions : /\ positions[i]["liquidity"] \in Int
                                       /\ positions'[i]["liquidity"] = positions[i]["liquidity"]
        /\ IsFiniteSet(DOMAIN positions)
    BY DEF PoolInv, Funded
  <2> QED BY <2>1, FieldSame DEF Deposited
<1>2. Gross(ticks) = Gross(ticks') /\ Net(ticks) = Net(ticks')
  <2>1. /\ \A t \in PoolTicks : ticks[t]["gross"] \in Int /\ ticks'[t]["gross"] = ticks[t]["gross"]
        /\ \A t \in PoolTicks : ticks[t]["net"] \in Int /\ ticks'[t]["net"] = ticks[t]["net"]
    BY DEF PoolInv, Counter
  <2>0. IsFiniteSet(PoolTicks)
    BY PoolTicksFinite
  <2>2. FieldSum(ticks, "gross", PoolTicks) = FieldSum(ticks', "gross", PoolTicks)
    <3>1. \A t \in PoolTicks : ticks[t]["gross"] \in Int /\ ticks'[t]["gross"] = ticks[t]["gross"]
      BY <2>1
    <3> QED BY <2>0, <3>1, FieldSame
  <2>3. FieldSum(ticks, "net", PoolTicks) = FieldSum(ticks', "net", PoolTicks)
    <3>1. \A t \in PoolTicks : ticks[t]["net"] \in Int /\ ticks'[t]["net"] = ticks[t]["net"]
      BY <2>1
    <3> QED BY <2>0, <3>1, FieldSame
  <2> QED BY <2>2, <2>3 DEF Gross, Net
<1>3. Balanced(ticks', positions')
  BY <1>1, <1>2 DEF PoolInv, Balanced
<1> QED BY <1>3 DEF PoolInv

\* collect writes the growth last seen.
LEMMA PoolCollectBalances ==
    ASSUME PoolInv, NEW id, NEW l \in PoolTicks, NEW u \in PoolTicks, PoolCollect(id, l, u)
    PROVE  PoolInv'
<1> DEFINE seen == [positions[id] EXCEPT !.last = GrowthInRange(ticks, l, u)]
<1>1. positions' = [positions EXCEPT ![id] = seen] /\ ticks' = ticks /\ id \in DOMAIN positions
  BY DEF PoolCollect
<1>2. seen.liquidity = positions[id].liquidity
      /\ seen = [liquidity |-> seen.liquidity, last |-> seen.last]
  <2>1. positions[id] = [liquidity |-> positions[id].liquidity, last |-> positions[id].last]
    BY <1>1 DEF PoolInv, Funded
  <2> QED BY <2>1
<1> HIDE DEF seen
<1>3. /\ DOMAIN positions' = DOMAIN positions /\ positions'[id] = seen
      /\ \A i \in DOMAIN positions : i # id => positions'[i] = positions[i]
  BY <1>1
<1>4. Funded(positions')
  BY <1>2, <1>3 DEF PoolInv, Funded
<1>5. DOMAIN ticks' = PoolTicks /\ \A t \in PoolTicks : Counter(ticks'[t])
  BY <1>1 DEF PoolInv
<1>6. \A i \in DOMAIN positions : positions'[i].liquidity = positions[i].liquidity
  BY <1>2, <1>3
<1> QED BY <1>1, <1>3, <1>4, <1>5, <1>6, NothingMoved

\* cross_tick turns the growth outside.
LEMMA CrossBalances ==
    ASSUME PoolInv, NEW t \in PoolTicks, CrossTick(t)
    PROVE  PoolInv'
<1> DEFINE turned == IF ticks[t].stored THEN [ticks[t] EXCEPT !.outside = state.growth - @] ELSE ticks[t]
<1>1. positions' = positions
      /\ DOMAIN ticks = PoolTicks
      /\ (ticks[t].stored => ticks' = [ticks EXCEPT ![t] = turned])
      /\ (~ticks[t].stored => ticks' = ticks /\ turned = ticks[t])
  BY DEF CrossTick, PoolInv
<1>2. Counter(turned) /\ turned.gross = ticks[t].gross /\ turned.net = ticks[t].net
      /\ turned.initialized = ticks[t].initialized
  <2>1. /\ ticks[t] = [gross |-> ticks[t].gross, net |-> ticks[t].net,
                       outside |-> ticks[t].outside, initialized |-> ticks[t].initialized,
                       stored |-> ticks[t].stored]
        /\ ticks[t].gross \in Int /\ ticks[t].net \in Int
    BY DEF PoolInv, Counter
  <2> QED BY <2>1 DEF Counter
<1> HIDE DEF turned
<1>3. /\ DOMAIN ticks' = PoolTicks /\ ticks'[t] = turned
      /\ \A x \in PoolTicks : x # t => ticks'[x] = ticks[x]
  <2>1. CASE ticks[t].stored
    BY <1>1, <2>1
  <2>2. CASE ~ticks[t].stored
    BY <1>1, <2>2
  <2> QED BY <2>1, <2>2
<1>4. \A x \in PoolTicks : /\ Counter(ticks'[x])
                           /\ ticks'[x].gross = ticks[x].gross
                           /\ ticks'[x].net = ticks[x].net
                           /\ ticks'[x].initialized = ticks[x].initialized
  BY <1>2, <1>3 DEF PoolInv
<1>5. Funded(positions') /\ DOMAIN positions' = DOMAIN positions
      /\ \A i \in DOMAIN positions : positions'[i].liquidity = positions[i].liquidity
  BY <1>1 DEF PoolInv
<1> QED BY <1>3, <1>4, <1>5, NothingMoved

\* Every call of the first pool, in any order, keeps the balance.
THEOREM PoolInductive == PoolInv /\ [PoolNext]_poolVars => PoolInv'
<1> SUFFICES ASSUME PoolInv, [PoolNext]_poolVars PROVE PoolInv'
  OBVIOUS
<1>1. ASSUME NEW id \in PositionIds, NEW l \in PoolTicks, NEW u \in PoolTicks,
             NEW n \in PoolLiquidities, PoolMint(id, l, u, n)
      PROVE  PoolInv'
  BY <1>1, MintBalances
<1>2. ASSUME NEW id \in PositionIds, NEW l \in PoolTicks, NEW u \in PoolTicks,
             NEW n \in PoolLiquidities, PoolBurn(id, l, u, n)
      PROVE  PoolInv'
  BY <1>2, BurnBalances
<1>3. ASSUME NEW id \in PositionIds, NEW l \in PoolTicks, NEW u \in PoolTicks, PoolCollect(id, l, u)
      PROVE  PoolInv'
  BY <1>3, PoolCollectBalances
<1>4. ASSUME NEW t \in PoolTicks, CrossTick(t) PROVE PoolInv'
  BY <1>4, CrossBalances
<1>5. ASSUME UNCHANGED <<ticks, positions>> PROVE PoolInv'
  BY <1>5 DEF PoolInv
<1>6. ASSUME NEW t \in PoolTicks, FlipTick(t) PROVE PoolInv'
  BY <1>5, <1>6 DEF FlipTick
<1>7. ASSUME NEW t \in DOMAIN TickPrice, SetPrice(TickPrice[t]) PROVE PoolInv'
  BY <1>5, <1>7 DEF SetPrice
<1>8. ASSUME NEW d \in BOOLEAN, NEW a \in PoolInputs, NEW x \in PoolLimits, PoolSwap(d, a, x)
      PROVE  PoolInv'
  BY <1>5, <1>8, Zenon DEF PoolSwap
<1>9. CASE UNCHANGED poolVars
  BY <1>5, <1>9 DEF poolVars
<1> QED BY <1>1, <1>2, <1>3, <1>4, <1>6, <1>7, <1>8, <1>9 DEF PoolNext

\* An empty pool balances.
LEMMA PoolInitial == PoolInit => PoolInv
<1> SUFFICES ASSUME PoolInit PROVE PoolInv
  OBVIOUS
<1>1. /\ ticks = [t \in PoolTicks |-> [gross |-> 0, net |-> 0, outside |-> 0, initialized |-> FALSE,
                                        stored |-> FALSE]]
      /\ DOMAIN positions = {}
  BY DEF PoolInit
<1>2. \A t \in PoolTicks : /\ Counter(ticks[t]) /\ ticks[t].gross = 0 /\ ticks[t].net = 0
                           /\ ticks[t].initialized = (ticks[t].gross > 0)
  <2> SUFFICES ASSUME NEW t \in PoolTicks
               PROVE  /\ Counter(ticks[t]) /\ ticks[t].gross = 0 /\ ticks[t].net = 0
                      /\ ticks[t].initialized = (ticks[t].gross > 0)
    OBVIOUS
  <2>1. ticks[t] = [gross |-> 0, net |-> 0, outside |-> 0, initialized |-> FALSE, stored |-> FALSE]
    BY <1>1
  <2>2. ticks[t].gross = 0 /\ ticks[t].net = 0 /\ ticks[t].outside = 0
        /\ ticks[t].initialized = FALSE
    BY <2>1
  <2>3. Counter(ticks[t])
    BY <2>1, <2>2 DEF Counter
  <2>4. FALSE = (0 > 0)
    OBVIOUS
  <2> QED BY <2>2, <2>3, <2>4
<1>3. Funded(positions) /\ Deposited(positions) = 0
  <2>1. Funded(positions)
    BY <1>1, FS_EmptySet DEF Funded
  <2>2. Deposited(positions) = Total([x \in {} |-> positions[x]["liquidity"]], {})
    BY <1>1, FS_EmptySet, FieldTotal DEF Deposited
  <2> QED BY <2>1, <2>2, TotalEmpty
<1>4. Gross(ticks) = 0 /\ Net(ticks) = 0
  <2>1. \A t \in PoolTicks : ticks[t]["gross"] = 0 /\ ticks[t]["net"] = 0
    BY <1>2
  <2>2. FieldSum(ticks, "gross", PoolTicks) = 0
    BY <2>1, PoolTicksFinite, FieldZero
  <2>3. FieldSum(ticks, "net", PoolTicks) = 0
    BY <2>1, PoolTicksFinite, FieldZero
  <2> QED BY <2>2, <2>3 DEF Gross, Net
<1>5. Balanced(ticks, positions)
  BY <1>2, <1>3, <1>4 DEF Balanced
<1> QED BY <1>1, <1>2, <1>3, <1>5 DEF PoolInv

\* The counters of both pools add up to the liquidity of their positions, for any
\* ticks, owners and amounts.
THEOREM TicksAccountedCorrect == ContractsSpec => []TicksAccounted
<1> DEFINE Both == TicksInv /\ PoolInv
<1>1. ContractsInit => Both
  BY TicksInitial, PoolInitial DEF ContractsInit
<1>2. Both /\ [ContractsNext]_contractVars => Both'
  <2>1. [ContractsNext]_contractVars => [ClNext]_clVars /\ [PoolNext]_poolVars
    BY DEF ContractsNext, contractVars
  <2> QED BY <2>1, TicksInductive, PoolInductive
<1>3. Both => TicksAccounted
  BY MatchIsCounted, BalanceIsBalanced DEF TicksInv, PoolInv, TicksAccounted
<1> QED BY <1>1, <1>2, <1>3, PTL DEF ContractsSpec

-----------------------------------------------------------------------------
(* Quotients *)


\* What a rounded quotient is.
LEMMA DivBounds ==
    ASSUME NEW n \in Int, NEW d \in Nat \ {0}
    PROVE  /\ n \div d \in Int /\ d * (n \div d) <= n /\ n < d * (n \div d) + d
OBVIOUS

\* It is the largest of those whose product does not exceed the dividend,
LEMMA DivAtLeast ==
    ASSUME NEW n \in Int, NEW d \in Nat \ {0}, NEW q \in Int, d * q <= n
    PROVE  q <= n \div d
<1>1. n \div d \in Int /\ n < d * (n \div d) + d
  BY DivBounds
<1>2. PICK k \in Int : k = n \div d
  BY <1>1
<1>3. d * q < d * k + d
  BY <1>1, <1>2
<1>4. q < k + 1
  BY <1>3
<1> QED BY <1>2, <1>4

\* no less than the quotients of the dividend's parts,
LEMMA DivSuper ==
    ASSUME NEW m \in Int, NEW n \in Int, NEW d \in Nat \ {0}
    PROVE  m \div d + n \div d <= (m + n) \div d
<1>1. PICK j \in Int, k \in Int : j = m \div d /\ k = n \div d /\ d * j <= m /\ d * k <= n
  BY DivBounds
<1>2. d * (j + k) <= m + n
  BY <1>1
<1> QED BY <1>1, <1>2, DivAtLeast

\* no less than that of a smaller dividend,
LEMMA DivMono ==
    ASSUME NEW m \in Int, NEW n \in Int, m <= n, NEW d \in Nat \ {0}
    PROVE  m \div d <= n \div d
<1>1. PICK j \in Int : j = m \div d /\ d * j <= m
  BY DivBounds
<1> QED BY <1>1, DivAtLeast

\* and a natural number of natural numbers.
LEMMA DivNat ==
    ASSUME NEW n \in Nat, NEW d \in Nat \ {0}
    PROVE  n \div d \in Nat
<1>1. d * 0 <= n
  OBVIOUS
<1>2. 0 <= n \div d
  BY <1>1, DivAtLeast
<1> QED BY <1>2, DivBounds

\* A finite set of numbers has a largest and a smallest.
LEMMA Extremes ==
    ASSUME NEW S, IsFiniteSet(S), S \subseteq Int, S # {}
    PROVE  /\ Max(S) \in S /\ Min(S) \in S
           /\ \A y \in S : Max(S) >= y /\ Min(S) <= y
<1> DEFINE Top(s) == \E m \in s : \A y \in s : m >= y
           Bottom(s) == \E m \in s : \A y \in s : m <= y
           Good == {n \in Nat : \A s \in SUBSET S :
                       Cardinality(s) <= n /\ s # {} => Top(s) /\ Bottom(s)}
<1>0. \A s \in SUBSET S : IsFiniteSet(s) /\ Cardinality(s) \in Nat
  BY FS_Subset, FS_CardinalityType
<1>1. 0 \in Good
  <2> SUFFICES ASSUME NEW s \in SUBSET S, Cardinality(s) <= 0 PROVE s = {}
    OBVIOUS
  <2> QED BY <1>0, FS_EmptySet
<1>2. ASSUME NEW n \in Good \cap Nat PROVE n + 1 \in Good
  <2> SUFFICES ASSUME NEW s \in SUBSET S, Cardinality(s) <= n + 1, s # {}
               PROVE  Top(s) /\ Bottom(s)
    OBVIOUS
  <2> DEFINE c == Some(s)
             rest == s \ {c}
  <2>1. /\ c \in s /\ Cardinality(s) \in Nat /\ Cardinality(rest) \in Nat
        /\ Cardinality(s) = Cardinality(rest) + 1
    BY <1>0, OneLess
  <2> HIDE DEF c
  <2>2. CASE rest = {}
    BY <2>1, <2>2
  <2>3. CASE rest # {}
    <3>1. Cardinality(rest) <= n /\ rest \in SUBSET S
      BY <2>1
    <3>2. Top(rest) /\ Bottom(rest)
      <4> HIDE DEF rest, Top, Bottom
      <4> QED BY <2>3, <3>1
    <3> HIDE DEF Good
    <3>3. PICK m \in rest, k \in rest : (\A y \in rest : m >= y) /\ (\A y \in rest : k <= y)
      BY <3>2
    <3>4. c \in Int /\ m \in Int /\ k \in Int /\ \A y \in s : y \in Int /\ (y = c \/ y \in rest)
      BY <2>1
    <3>5. Top(s)
      <4>1. CASE c >= m
        BY <2>1, <3>3, <3>4, <4>1
      <4>2. CASE ~(c >= m)
        BY <2>1, <3>3, <3>4, <4>2
      <4> QED BY <4>1, <4>2
    <3>6. Bottom(s)
      <4>1. CASE c <= k
        BY <2>1, <3>3, <3>4, <4>1
      <4>2. CASE ~(c <= k)
        BY <2>1, <3>3, <3>4, <4>2
      <4> QED BY <4>1, <4>2
    <3> QED BY <3>5, <3>6
  <2> QED BY <2>2, <2>3
<1>3. Nat \subseteq Good
  <2> HIDE DEF Good
  <2> QED BY <1>1, <1>2, Climb
<1>4. Top(S) /\ Bottom(S)
  <2>1. Cardinality(S) \in Good /\ S \in SUBSET S /\ Cardinality(S) <= Cardinality(S)
    BY <1>0, <1>3
  <2> HIDE DEF Top, Bottom
  <2> QED BY <2>1
<1> QED BY <1>4 DEF Max, Min

-----------------------------------------------------------------------------
(* A swap's fees *)

\* Fees are numbers, no more than the amount, and no more in parts than at once.
LEMMA FeeTyped ==
    ASSUME NEW m \in Nat
    PROVE  CheckedFee(m) \in Nat /\ CheckedFee(m) <= m
<1>1. /\ FeeTier \in Nat /\ FeeDenominator \in Nat \ {0} /\ FeeTier <= FeeDenominator
  BY ClPoolAssumption
<1>2. m * FeeTier \in Nat /\ m * FeeTier <= FeeDenominator * m
  BY <1>1
<1>3. CheckedFee(m) \in Nat
  BY <1>1, <1>2, DivNat DEF CheckedFee
<1>4. PICK q \in Nat : q = CheckedFee(m) /\ FeeDenominator * q <= m * FeeTier
  BY <1>1, <1>2, <1>3, DivBounds DEF CheckedFee
<1>5. FeeDenominator * q <= FeeDenominator * m
  BY <1>1, <1>2, <1>4
<1>6. q <= m
  BY <1>1, <1>5
<1> QED BY <1>3, <1>4, <1>6

\* Fees rounded segment by segment add up to no more than the fee at once.
LEMMA FeesAdd ==
    ASSUME NEW m \in Nat, NEW n \in Nat
    PROVE  CheckedFee(m) + CheckedFee(n) <= CheckedFee(m + n)
<1>1. FeeTier \in Nat /\ FeeDenominator \in Nat \ {0}
  BY ClPoolAssumption
<1>2. m * FeeTier \in Int /\ n * FeeTier \in Int
      /\ (m + n) * FeeTier = m * FeeTier + n * FeeTier
  BY <1>1
<1> QED BY <1>1, <1>2, DivSuper DEF CheckedFee

\* A larger amount has no smaller fee.
LEMMA FeesGrow ==
    ASSUME NEW m \in Nat, NEW n \in Nat, m <= n
    PROVE  CheckedFee(m) <= CheckedFee(n)
<1>1. FeeTier \in Nat /\ FeeDenominator \in Nat \ {0}
  BY ClPoolAssumption
<1>2. m * FeeTier \in Int /\ n * FeeTier \in Int /\ m * FeeTier <= n * FeeTier
  BY <1>1
<1> QED BY <1>1, <1>2, DivMono DEF CheckedFee

\* tick_to_sqrt_price stops at zero.
LEMMA TickPriceTyped ==
    ASSUME NEW t \in Int
    PROVE  TickToSqrtPrice(t) \in Nat
<1>1. One \in Nat \ {0} /\ TickUnits \in Nat \ {0}
  BY ClPoolAssumption
<1>2. CASE t >= 0
  <2>1. t * One \in Nat
    BY <1>1, <1>2
  <2>2. (t * One) \div TickUnits \in Nat
    BY <1>1, <2>1, DivNat
  <2> QED BY <1>1, <1>2, <2>2 DEF TickToSqrtPrice
<1>3. CASE t < 0
  <2>1. (-t) * One \in Int
    BY <1>1
  <2>2. ((-t) * One) \div TickUnits \in Int
    BY <1>1, <2>1, DivBounds
  <2> QED BY <1>1, <1>3, <2>2 DEF TickToSqrtPrice, MaxOf
<1>4. t >= 0 \/ t < 0
  OBVIOUS
<1> QED BY <1>2, <1>3, <1>4

\* A quotient rounded up is a number.
LEMMA RoundedUp ==
    ASSUME NEW n \in Nat, NEW d \in Nat \ {0}
    PROVE  DivUp(n, d) \in Nat
<1>1. (n + d) - 1 \in Nat /\ (n + d) - 1 = n + d - 1
  OBVIOUS
<1> QED BY <1>1, DivNat DEF DivUp

\* A product that stops at the word's end is a number, and zero only of zero.
LEMMA SaturatingTyped ==
    ASSUME NEW m \in Nat, NEW n \in Nat
    PROVE  SaturatingMul(m, n) \in Nat /\ (m # 0 /\ n # 0 => SaturatingMul(m, n) # 0)
<1>1. Word - 1 \in Nat \ {0}
  BY ClPoolAssumption
<1>2. PICK k \in Nat : k = m * n /\ (m # 0 /\ n # 0 => k # 0)
  <2>1. m * n \in Nat /\ (m # 0 /\ n # 0 => m * n # 0)
    OBVIOUS
  <2> QED BY <2>1
<1> QED BY <1>1, <1>2 DEF SaturatingMul, MinOf

\* What a segment takes or gives is a number: neither quotient divides by zero.
LEMMA AmountsTyped ==
    ASSUME NEW a \in Nat, NEW b \in Nat, NEW n \in Nat, NEW up \in BOOLEAN
    PROVE  Amount0(a, b, n, up) \in Nat /\ Amount1(a, b, n, up) \in Nat
<1> DEFINE lower == MinOf(a, b)
           upper == MaxOf(a, b)
           num == SaturatingMul(n, upper - lower)
           den == SaturatingMul(MaxOf(upper \div One, 1), lower)
           most == SaturatingMul(n, One)
<1>1. One \in Nat \ {0}
  BY ClPoolAssumption
<1>2. /\ lower \in Nat /\ upper \in Nat /\ lower <= upper
      /\ (a # b => upper > 0)
  BY DEF MinOf, MaxOf
<1>3. /\ Amount0(a, b, n, up) = IF a = b \/ n = 0 THEN 0
                                ELSE IF lower = 0 THEN most \div upper
                                ELSE IF up THEN DivUp(num, den) ELSE num \div den
      /\ Amount1(a, b, n, up) = IF up THEN DivUp(num, One) ELSE num \div One
  BY Zenon DEF Amount0, Amount1
<1> HIDE DEF lower, upper
<1>4. num \in Nat /\ most \in Nat
  <2>1. upper - lower \in Nat
    BY <1>2
  <2> QED BY <1>1, <2>1, SaturatingTyped
<1>5. lower # 0 => den \in Nat \ {0}
  <2>1. upper \div One \in Nat
    BY <1>1, <1>2, DivNat
  <2>2. PICK m \in Nat \ {0} : m = MaxOf(upper \div One, 1)
    BY <2>1 DEF MaxOf
  <2>3. lower # 0 => SaturatingMul(m, lower) \in Nat \ {0}
    BY <1>2, <2>2, SaturatingTyped
  <2> QED BY <2>2, <2>3
<1>6. DivUp(num, One) \in Nat /\ num \div One \in Nat
  <2> HIDE DEF num
  <2> QED BY <1>1, <1>4, RoundedUp, DivNat
<1>7. lower # 0 => DivUp(num, den) \in Nat /\ num \div den \in Nat
  <2> HIDE DEF num, den
  <2> QED BY <1>4, <1>5, RoundedUp, DivNat
<1>8. a # b => most \div upper \in Nat
  <2> SUFFICES ASSUME a # b PROVE most \div upper \in Nat
    OBVIOUS
  <2>1. upper \in Nat \ {0}
    BY <1>2
  <2> HIDE DEF most
  <2> QED BY <1>4, <2>1, DivNat
<1> HIDE DEF num, den, most
<1>9. Amount0(a, b, n, up) \in Nat
  <2>1. CASE a = b \/ n = 0
    <3>1. Amount0(a, b, n, up) = 0
      BY <1>3, <2>1, Zenon
    <3>2. 0 \in Nat
      OBVIOUS
    <3> QED BY <3>1, <3>2, Zenon
  <2>2. CASE ~(a = b \/ n = 0) /\ lower = 0
    BY <1>3, <1>8, <2>2
  <2>3. CASE ~(a = b \/ n = 0) /\ lower # 0
    BY <1>3, <1>7, <2>3
  <2> QED BY <2>1, <2>2, <2>3
<1> QED BY <1>3, <1>6, <1>9

\* So is the price at which an input ends, while there is liquidity.
LEMMA NextPriceTyped ==
    ASSUME NEW p \in Nat, NEW n \in Nat \ {0}, NEW m \in Nat, NEW d \in BOOLEAN
    PROVE  NextSqrtPrice(p, n, m, d) \in Nat
<1>1. One \in Nat \ {0}
  BY ClPoolAssumption
<1>2. n * p \in Nat /\ m * p \in Nat /\ m * One \in Nat
  BY <1>1
<1>3. (m * p) \div One \in Nat
  BY <1>1, <1>2, DivNat
<1>4. n + (m * p) \div One \in Nat \ {0}
  BY <1>3
<1>5. (n * p) \div (n + (m * p) \div One) \in Nat /\ (m * One) \div n \in Nat
  BY <1>2, <1>4, DivNat
<1> QED BY <1>5 DEF NextSqrtPrice

SwapFields == {"price", "current", "liquidity", "left", "out", "fees", "growth",
               "crossed", "done", "reverted"}

\* What the loop of a swap keeps: fees on no more than what left the input.
Running(s, base) ==
    /\ DOMAIN s = SwapFields
    /\ s.price \in Nat /\ s.liquidity \in Nat /\ s.left \in Nat /\ s.fees \in Nat
    /\ s.out \in Nat /\ s.growth \in Nat
    /\ s.left <= base /\ s.fees <= CheckedFee(base - s.left)
    /\ s.done \/ s.liquidity > 0

\* The boundaries a swap may reach are numbers, and so are their counters.
SwapInv == TicksInv /\ sqrtPrice \in Nat /\ active \in Nat

\* The fee of one more segment.
LEMMA SegmentFees ==
    ASSUME NEW base \in Nat, NEW left \in Nat, NEW fees \in Nat, left <= base,
           fees <= CheckedFee(base - left), NEW paid \in Nat, paid <= left, NEW n \in Nat
    PROVE  /\ fees + SegmentFee(paid, n) \in Nat
           /\ fees + SegmentFee(paid, n) <= CheckedFee(base - (left - paid))
<1>1. CheckedFee(paid) \in Nat /\ SegmentFee(paid, n) \in Nat /\ SegmentFee(paid, n) <= CheckedFee(paid)
  BY FeeTyped DEF SegmentFee
<1>2. base - left \in Nat /\ (base - left) + paid = base - (left - paid)
  OBVIOUS
<1>3. PICK m \in Nat : m = base - left
  BY <1>2
<1>4. CheckedFee(m) + CheckedFee(paid) <= CheckedFee(m + paid) /\ CheckedFee(m) \in Nat
      /\ CheckedFee(m + paid) \in Nat
  <2>1. m + paid \in Nat
    OBVIOUS
  <2>2. CheckedFee(m) \in Nat /\ CheckedFee(m + paid) \in Nat
    BY <2>1, FeeTyped
  <2> QED BY <2>2, FeesAdd
<1>5. CheckedFee(base - left) = CheckedFee(m)
      /\ CheckedFee(base - (left - paid)) = CheckedFee(m + paid)
  BY <1>2, <1>3
<1> QED BY <1>1, <1>4, <1>5

\* What a segment adds to the growth of the fees, while there is liquidity.
LEMMA GrowthTyped ==
    ASSUME NEW m \in Nat, NEW n \in Nat, n > 0
    PROVE  (SegmentFee(m, n) * One) \div n \in Nat
<1>1. SegmentFee(m, n) \in Nat /\ One \in Nat /\ n \in Nat \ {0}
  BY FeeTyped, ClPoolAssumption DEF SegmentFee
<1>2. SegmentFee(m, n) * One \in Nat
  BY <1>1
<1> QED BY <1>1, <1>2, DivNat

\* A segment used in full takes its fee from what was left.
LEMMA FullyRuns ==
    ASSUME NEW s, NEW base \in Nat, Running(s, base), ~s.done, NEW d \in BOOLEAN, NEW x,
           NEW found, NEW next, found => tick[next].net \in Int,
           NEW target \in Nat, NEW paid \in Nat, paid <= s.left, NEW out \in Nat
    PROVE  Running(MoveFully(s, d, x, found, next, target, paid, out), base)
<1> DEFINE fee == SegmentFee(paid, s.liquidity)
           left == s.left - paid
           net == tick[next].net
           size == IF net < 0 THEN -net ELSE net
           moved == [s EXCEPT !.price = target, !.left = left, !.out = @ + out,
                              !.fees = @ + fee,
                              !.growth = @ + (fee * One) \div s.liquidity]
           liquidity == IF d THEN MaxOf(0, s.liquidity - size) ELSE s.liquidity + size
           ended == [moved EXCEPT !.done = TRUE]
           went == [moved EXCEPT !.liquidity = liquidity, !.current = next,
                                 !.crossed = @ \cup {next}, !.done = liquidity = 0]
           after == MoveFully(s, d, x, found, next, target, paid, out)
<1>1. after = ended \/ (found /\ after = went)
  <2> DEFINE stops == left = 0 \/ (IF d THEN target <= x ELSE target >= x) \/ ~found
  <2>1. after = IF stops THEN ended ELSE went
    BY Zenon DEF MoveFully
  <2>2. stops \/ found
    BY Zenon
  <2> HIDE DEF stops, ended, went, after
  <2> QED BY <2>1, <2>2
<1>2. /\ DOMAIN s = SwapFields /\ s.liquidity \in Nat /\ s.liquidity > 0 /\ left \in Nat
      /\ left <= base
  BY DEF Running
<1>3. s.fees + fee \in Nat /\ s.fees + fee <= CheckedFee(base - left)
  <2>1. /\ s.left \in Nat /\ s.fees \in Nat /\ s.left <= base /\ s.fees <= CheckedFee(base - s.left)
    BY DEF Running
  <2> QED BY <1>2, <2>1, SegmentFees
<1>7. s.out + out \in Nat /\ s.growth + (fee * One) \div s.liquidity \in Nat
  <2>1. s.left \in Nat /\ s.out \in Nat /\ s.growth \in Nat
    BY DEF Running
  <2> QED BY <1>2, <2>1, GrowthTyped
<1> HIDE DEF left, fee
<1>4. /\ DOMAIN moved = SwapFields /\ moved.price = target /\ moved.left = left
      /\ moved.fees = s.fees + fee /\ moved.liquidity = s.liquidity
      /\ moved.out \in Nat /\ moved.growth \in Nat
  BY <1>2, <1>7 DEF SwapFields
<1> HIDE DEF moved
<1>5. Running(ended, base)
  <2>1. /\ DOMAIN ended = SwapFields /\ ended.price = target /\ ended.left = left
        /\ ended.fees = s.fees + fee /\ ended.liquidity = s.liquidity /\ ended.done
        /\ ended.out \in Nat /\ ended.growth \in Nat
    BY <1>4 DEF SwapFields
  <2> HIDE DEF ended
  <2> QED BY <1>2, <1>3, <2>1 DEF Running
<1>6. ASSUME found PROVE Running(went, base)
  <2>1. size \in Nat
    <3>1. net \in Int
      BY <1>6
    <3> HIDE DEF net
    <3> QED BY <3>1
  <2> HIDE DEF size
  <2>2. liquidity \in Nat
    BY <1>2, <2>1 DEF MaxOf
  <2> HIDE DEF liquidity
  <2>3. /\ DOMAIN went = SwapFields /\ went.price = target /\ went.left = left
        /\ went.fees = s.fees + fee /\ went.liquidity = liquidity
        /\ went.out \in Nat /\ went.growth \in Nat
    BY <1>4 DEF SwapFields
  <2>4. went.done = (liquidity = 0)
    BY <1>4 DEF SwapFields
  <2>5. went.done \/ liquidity > 0
    <3>1. CASE liquidity = 0
      <4>1. went.done = TRUE
        BY <2>4, <3>1, Zenon
      <4> QED BY <4>1
    <3>2. CASE liquidity # 0
      BY <2>2, <3>2
    <3> QED BY <3>1, <3>2
  <2> HIDE DEF went
  <2> QED BY <1>2, <1>3, <2>2, <2>3, <2>5 DEF Running
<1> HIDE DEF ended, went, after
<1> QED BY <1>1, <1>5, <1>6 DEF after

\* So does the last, which takes all that was left.
LEMMA PartlyRuns ==
    ASSUME NEW s, NEW base \in Nat, Running(s, base), ~s.done, NEW d \in BOOLEAN
    PROVE  Running(MovePartly(s, d), base)
<1> DEFINE next == NextSqrtPrice(s.price, s.liquidity, s.left, d)
           fee == SegmentFee(s.left, s.liquidity)
           out == IF d THEN Amount1(s.price, next, s.liquidity, FALSE)
                  ELSE Amount0(s.price, next, s.liquidity, FALSE)
           after == [s EXCEPT !.left = 0, !.out = @ + out, !.fees = @ + fee,
                              !.growth = @ + (fee * One) \div s.liquidity, !.done = TRUE]
<1>1. MovePartly(s, d) = after
  BY Zenon DEF MovePartly
<1>2. /\ DOMAIN s = SwapFields /\ s.price \in Nat /\ s.liquidity \in Nat \ {0} /\ s.left \in Nat
      /\ s.fees \in Nat /\ s.left <= base /\ s.fees <= CheckedFee(base - s.left)
      /\ s.out \in Nat /\ s.growth \in Nat
  BY DEF Running
<1>3. next \in Nat
  BY <1>2, NextPriceTyped
<1>7. s.out + out \in Nat /\ s.growth + (fee * One) \div s.liquidity \in Nat
  <2>1. out \in Nat
    <3> HIDE DEF next
    <3> QED BY <1>2, <1>3, AmountsTyped
  <2>2. s.liquidity > 0
    BY <1>2
  <2> HIDE DEF out
  <2> QED BY <1>2, <2>1, <2>2, GrowthTyped
<1>4. s.fees + fee \in Nat /\ s.fees + fee <= CheckedFee(base - 0)
  <2>1. s.left - s.left = 0 /\ s.left <= s.left
    BY <1>2
  <2> QED BY <1>2, <2>1, SegmentFees
<1> HIDE DEF next, fee, out
<1>5. /\ DOMAIN after = SwapFields /\ after.price = s.price /\ after.left = 0
      /\ after.fees = s.fees + fee /\ after.liquidity = s.liquidity /\ after.done
      /\ after.out \in Nat /\ after.growth \in Nat
  BY <1>2, <1>7 DEF SwapFields
<1> HIDE DEF after
<1>6. Running(after, base)
  BY <1>2, <1>3, <1>4, <1>5 DEF Running
<1> QED BY <1>1, <1>6

\* One turn of the loop, of either kind or none.
LEMMA SegmentRuns ==
    ASSUME SwapInv, NEW s, NEW base \in Nat, Running(s, base), NEW d \in BOOLEAN, NEW x \in Nat
    PROVE  Running(Segment(s, d, x), base)
<1> DEFINE candidates == Initialized(IF d THEN s.current - 1 ELSE s.current, d)
           found == candidates # {}
           next == IF ~found THEN IF d THEN MinTick ELSE MaxTick
                   ELSE IF d THEN Max(candidates) ELSE Min(candidates)
           bound == TickToSqrtPrice(next)
           target == IF d THEN MaxOf(bound, x) ELSE MinOf(bound, x)
           paid == IF d THEN Amount0(s.price, target, s.liquidity, TRUE)
                   ELSE Amount1(s.price, target, s.liquidity, TRUE)
           out == IF d THEN Amount1(s.price, target, s.liquidity, FALSE)
                  ELSE Amount0(s.price, target, s.liquidity, FALSE)
           over == [s EXCEPT !.done = TRUE, !.reverted = TRUE]
<1>1. Segment(s, d, x) = IF s.done THEN s
                         ELSE IF Cardinality(s.crossed) >= MaxSwapIterations THEN over
                         ELSE IF s.left >= paid
                         THEN MoveFully(s, d, x, found, next, target, paid, out)
                         ELSE MovePartly(s, d)
  BY Zenon DEF Segment
<1>2. candidates \subseteq bitmap
  BY DEF Initialized
<1> HIDE DEF candidates
<1>3. /\ bitmap \subseteq Ticks /\ IsFiniteSet(bitmap) /\ TicksTyped /\ Ticks \subseteq Int
  BY ClPoolAssumption DEF SwapInv, TicksInv
<1>4. found => Max(candidates) \in candidates /\ Min(candidates) \in candidates
  <2> SUFFICES ASSUME candidates # {}
               PROVE  Max(candidates) \in candidates /\ Min(candidates) \in candidates
    OBVIOUS
  <2>1. IsFiniteSet(candidates) /\ candidates \subseteq Int
    BY <1>2, <1>3, FS_Subset
  <2> QED BY <2>1, Extremes
<1>5. next \in Int /\ (found => next \in Ticks)
  BY <1>2, <1>3, <1>4, ClPoolAssumption
<1>6. found => tick[next].net \in Int
  BY <1>3, <1>5 DEF TicksTyped
<1> HIDE DEF found, next
<1>7. target \in Nat
  <2>1. bound \in Nat
    BY <1>5, TickPriceTyped
  <2> HIDE DEF bound
  <2> QED BY <2>1 DEF MaxOf, MinOf
<1> HIDE DEF target
<1>8. /\ DOMAIN s = SwapFields /\ s.price \in Nat /\ s.liquidity \in Nat /\ s.left \in Nat
  BY DEF Running
<1>9. paid \in Nat /\ out \in Nat
  BY <1>7, <1>8, AmountsTyped
<1> HIDE DEF paid, out
<1>10. CASE s.done
  BY <1>1, <1>10
<1>11. CASE ~s.done /\ Cardinality(s.crossed) >= MaxSwapIterations
  <2>1. Segment(s, d, x) = over
    BY <1>1, <1>11
  <2>2. /\ DOMAIN over = SwapFields /\ over.price = s.price /\ over.left = s.left
        /\ over.fees = s.fees /\ over.liquidity = s.liquidity /\ over.done
        /\ over.out = s.out /\ over.growth = s.growth
    BY <1>8 DEF SwapFields
  <2> HIDE DEF over
  <2>3. Running(over, base)
    BY <2>2 DEF Running
  <2> QED BY <2>1, <2>3
<1> HIDE DEF over
<1>12. CASE ~s.done /\ ~(Cardinality(s.crossed) >= MaxSwapIterations) /\ s.left >= paid
  <2>1. Segment(s, d, x) = MoveFully(s, d, x, found, next, target, paid, out)
    BY <1>1, <1>12
  <2>2. ~s.done /\ paid <= s.left
    BY <1>8, <1>9, <1>12
  <2>3. Running(MoveFully(s, d, x, found, next, target, paid, out), base)
    BY <1>6, <1>7, <1>9, <2>2, FullyRuns
  <2> QED BY <2>1, <2>3
<1>13. CASE ~s.done /\ ~(Cardinality(s.crossed) >= MaxSwapIterations) /\ ~(s.left >= paid)
  <2>1. Segment(s, d, x) = MovePartly(s, d)
    BY <1>1, <1>13
  <2> QED BY <1>13, <2>1, PartlyRuns
<1> QED BY <1>10, <1>11, <1>12, <1>13

\* The first n turns of a swap's loop.
Turned(g, start, d, x, n) ==
    g = [k \in 0 .. n |-> IF k = 0 THEN start ELSE Segment(g[k - 1], d, x)]

\* The loop of a swap has a value.
LEMMA TurnsExist ==
    ASSUME NEW start, NEW d, NEW x, NEW n \in Nat
    PROVE  \E g : Turned(g, start, d, x, n)
<1> DEFINE Unfolds(g, m) ==
               g = [k \in 0 .. m |-> IF k = 0 THEN start ELSE Segment(g[k - 1], d, x)]
           Good == {m \in Nat : \E g : Unfolds(g, m)}
<1>1. 0 \in Good
  <2> DEFINE g == [k \in 0 .. 0 |-> start]
  <2>1. Unfolds(g, 0)
    <3>1. \A k \in 0 .. 0 : k = 0
      OBVIOUS
    <3> QED BY <3>1
  <2> HIDE DEF Unfolds
  <2> QED BY <2>1
<1>2. ASSUME NEW m \in Good \cap Nat PROVE m + 1 \in Good
  <2>1. PICK g : Unfolds(g, m)
    OBVIOUS
  <2> DEFINE h == [k \in 0 .. (m + 1) |-> IF k = m + 1 THEN Segment(g[m], d, x) ELSE g[k]]
  <2>2. \A k \in 0 .. m : g[k] = IF k = 0 THEN start ELSE Segment(g[k - 1], d, x)
    BY <2>1
  <2>3. \A k \in 0 .. m : k \in 0 .. (m + 1) /\ h[k] = g[k]
    OBVIOUS
  <2>4. h[m + 1] = Segment(g[m], d, x)
    OBVIOUS
  <2>5. h = [k \in 0 .. (m + 1) |-> h[k]]
    OBVIOUS
  <2> HIDE DEF h, Unfolds
  <2>6. ASSUME NEW k \in 0 .. (m + 1)
        PROVE  h[k] = IF k = 0 THEN start ELSE Segment(h[k - 1], d, x)
    <3>1. CASE k = 0
      BY <2>2, <2>3, <3>1
    <3>2. CASE k # 0
      <4>1. k - 1 \in 0 .. m /\ h[k - 1] = g[k - 1]
        BY <2>3, <3>2
      <4>2. CASE k = m + 1
        <5>1. k - 1 = m
          BY <4>2
        <5> QED BY <2>4, <3>2, <4>1, <4>2, <5>1
      <4>3. CASE k # m + 1
        <5>1. k \in 0 .. m
          BY <4>3
        <5> QED BY <2>2, <2>3, <3>2, <4>1, <5>1
      <4> QED BY <4>2, <4>3
    <3> QED BY <3>1, <3>2
  <2>7. Unfolds(h, m + 1)
    BY <2>5, <2>6 DEF Unfolds
  <2> QED BY <2>7
<1>3. Nat \subseteq Good
  <2> HIDE DEF Good
  <2> QED BY <1>1, <1>2, Climb
<1> QED BY <1>3 DEF Turned

\* What a swap answers comes from a state its loop may leave.
LEMMA SwapLeaves ==
    ASSUME SwapInv, NEW d \in BOOLEAN, NEW a \in Nat, NEW x \in Nat, SwapResult(d, a, x).ok
    PROVE  \E end : /\ Running(end, a - CheckedFee(a))
                    /\ SwapResult(d, a, x).paid =
                          (a - CheckedFee(a) - end.left)
                          + CheckedFee(a - CheckedFee(a) - end.left)
                    /\ SwapResult(d, a, x).fees = end.fees
                    /\ SwapResult(d, a, x).left = end.left
                    /\ SwapResult(d, a, x).price = end.price
                    /\ SwapResult(d, a, x).liquidity = end.liquidity
                    /\ SwapResult(d, a, x).out = end.out
                    /\ SwapResult(d, a, x).growth = end.growth
                    /\ end.out <= held[IF d THEN 1 ELSE 0]
<1> DEFINE N == MaxSwapIterations + 1
           base == a - CheckedFee(a)
           start == [price |-> sqrtPrice, current |-> current, liquidity |-> active,
                     left |-> base, out |-> 0, fees |-> 0, growth |-> 0,
                     crossed |-> {}, done |-> FALSE, reverted |-> FALSE]
           Unfolds(g) == g = [n \in 0..(MaxSwapIterations + 1) |->
                                 IF n = 0 THEN start ELSE Segment(g[n - 1], d, x)]
           turn == CHOOSE g : Unfolds(g)
           end == turn[MaxSwapIterations + 1]
           traded == base - end.left
           token == IF d THEN 1 ELSE 0
           answer == [ok |-> ~end.reverted /\ end.out <= held[token],
                      paid |-> traded + CheckedFee(traded),
                      out |-> end.out, fees |-> end.fees, growth |-> end.growth,
                      left |-> end.left, price |-> end.price,
                      liquidity |-> end.liquidity, crossed |-> end.crossed]
<1>1. SwapResult(d, a, x) = IF base = 0 \/ active = 0 THEN [ok |-> FALSE] ELSE answer
  BY Zenon DEF SwapResult
<1>2. /\ SwapResult(d, a, x) = answer /\ active # 0
  <2> HIDE DEF answer
  <2> QED BY <1>1
<1>3. Unfolds(turn)
  <2>1. \E g : Unfolds(g)
    <3>1. MaxSwapIterations + 1 \in Nat
      BY ClPoolAssumption
    <3> HIDE DEF start
    <3>2. \E g : Turned(g, start, d, x, MaxSwapIterations + 1)
      BY <3>1, TurnsExist
    <3> QED BY <3>2, Zenon DEF Turned
  <2> QED BY <2>1, Zenon
<1> HIDE DEF turn
<1>4. base \in Nat
  BY FeeTyped
<1>5. Running(start, base)
  <2>1. /\ DOMAIN start = SwapFields /\ start.price = sqrtPrice /\ start.liquidity = active
        /\ start.left = base /\ start.fees = 0 /\ start.out = 0 /\ start.growth = 0
    BY DEF SwapFields
  <2> HIDE DEF start, base
  <2>2. base - base = 0 /\ CheckedFee(0) \in Nat /\ base <= base
    BY <1>4, FeeTyped
  <2>3. 0 <= CheckedFee(base - base)
    BY <2>2
  <2>4. active \in Nat /\ active > 0 /\ sqrtPrice \in Nat
    BY <1>2 DEF SwapInv
  <2> QED BY <1>4, <2>1, <2>2, <2>3, <2>4 DEF Running
<1>6. \A n \in 0 .. N : turn[n] = IF n = 0 THEN start ELSE Segment(turn[n - 1], d, x)
  <2> HIDE DEF start
  <2> QED BY <1>3
<1> HIDE DEF start, base, Unfolds
<1> DEFINE Good == {n \in Nat : n <= N => Running(turn[n], base)}
<1>7. N \in Nat
  BY ClPoolAssumption
<1> HIDE DEF N
<1>8. 0 \in Good
  BY <1>5, <1>6, <1>7
<1>9. ASSUME NEW n \in Good \cap Nat PROVE n + 1 \in Good
  <2> SUFFICES ASSUME n + 1 <= N PROVE Running(turn[n + 1], base)
    OBVIOUS
  <2>1. Running(turn[n], base)
    BY <1>7
  <2>2. turn[n + 1] = Segment(turn[n], d, x)
    <3>1. n + 1 \in 0 .. N /\ n + 1 # 0 /\ (n + 1) - 1 = n
      BY <1>7
    <3> QED BY <1>6, <3>1
  <2> QED BY <1>4, <2>1, <2>2, SegmentRuns
<1>10. Nat \subseteq Good
  <2> HIDE DEF Good
  <2> QED BY <1>8, <1>9, Climb
<1>11. Running(end, base)
  <2>1. Running(turn[N], base)
    BY <1>7, <1>10
  <2> QED BY <2>1 DEF N
<1> HIDE DEF end
<1>12. /\ answer.paid = traded + CheckedFee(traded) /\ answer.fees = end.fees
       /\ answer.left = end.left /\ answer.price = end.price /\ answer.liquidity = end.liquidity
       /\ answer.out = end.out /\ answer.growth = end.growth
       /\ (answer.ok => end.out <= held[token])
  OBVIOUS
<1>13. traded = a - CheckedFee(a) - end.left
  BY DEF base
<1> HIDE DEF answer, traded
<1> QED BY <1>2, <1>11, <1>12, <1>13 DEF base

\* What the loop leaves is charged fairly.
LEMMA FairlyCharged == SwapInv => SwapChargesFairly
<1> SUFFICES ASSUME SwapInv, NEW d \in BOOLEAN, NEW a \in Inputs, NEW x \in Limits,
                    SwapResult(d, a, x).ok
             PROVE  /\ SwapResult(d, a, x).paid <= a
                    /\ (SwapResult(d, a, x).left > 0 => SwapResult(d, a, x).paid < a)
                    /\ SwapResult(d, a, x).fees
                          <= CheckedFee(a - CheckedFee(a) - SwapResult(d, a, x).left)
  BY DEF SwapChargesFairly
<1> DEFINE r == SwapResult(d, a, x)
<1>1. a \in Nat /\ x \in Nat
  BY ClPoolAssumption
<1>2. PICK end : /\ Running(end, a - CheckedFee(a))
                 /\ r.paid = (a - CheckedFee(a) - end.left)
                             + CheckedFee(a - CheckedFee(a) - end.left)
                 /\ r.fees = end.fees /\ r.left = end.left
  BY <1>1, SwapLeaves
<1> HIDE DEF r
<1>3. CheckedFee(a) \in Nat /\ CheckedFee(a) <= a
  BY <1>1, FeeTyped
<1>4. PICK base \in Nat : base = a - CheckedFee(a) /\ base <= a
  BY <1>1, <1>3
<1>5. /\ end.left \in Nat /\ end.left <= base /\ end.fees <= CheckedFee(base - end.left)
  BY <1>2, <1>4 DEF Running
<1>6. PICK traded \in Nat : traded = base - end.left /\ traded <= base /\ traded <= a
  <2>1. base - end.left \in Nat /\ base - end.left <= base /\ base - end.left <= a
    BY <1>1, <1>4, <1>5
  <2> QED BY <2>1
<1>7. r.paid = traded + CheckedFee(traded)
  BY <1>2, <1>4, <1>6
<1>8. CheckedFee(traded) <= CheckedFee(a) /\ CheckedFee(traded) \in Nat
  BY <1>1, <1>6, FeesGrow, FeeTyped
<1>9. r.paid <= a
  BY <1>1, <1>3, <1>4, <1>6, <1>7, <1>8
<1>10. r.left > 0 => r.paid < a
  BY <1>1, <1>2, <1>3, <1>4, <1>5, <1>6, <1>7, <1>8
<1>11. r.fees <= CheckedFee(a - CheckedFee(a) - r.left)
  BY <1>2, <1>4, <1>5
<1> QED BY <1>9, <1>10, <1>11 DEF r

\* The price and the liquidity a call leaves are numbers again.
LEMMA SwapStep == SwapInv /\ [ClNext]_clVars => SwapInv'
<1> SUFFICES ASSUME SwapInv, [ClNext]_clVars PROVE SwapInv'
  OBVIOUS
<1>0. TicksInv' /\ sqrtPrice \in Nat /\ active \in Nat
  BY TicksInductive DEF SwapInv
<1>1. ASSUME NEW o \in Owners, NEW l \in Ticks, NEW u \in Ticks, NEW n \in Liquidities,
             AddLiquidity(o, l, u, n)
      PROVE  SwapInv'
  <2>1. n \in Nat /\ sqrtPrice' = sqrtPrice
        /\ active' = IF InRange(l, u) THEN active + n ELSE active
    BY <1>1, ClPoolAssumption DEF AddLiquidity
  <2> QED BY <1>0, <2>1 DEF SwapInv
<1>2. ASSUME NEW d \in BOOLEAN, NEW a \in Inputs, NEW x \in Limits, ClSwap(d, a, x) PROVE SwapInv'
  <2>1. SwapResult(d, a, x).ok /\ sqrtPrice' = SwapResult(d, a, x).price
        /\ active' = SwapResult(d, a, x).liquidity
    BY <1>2, Zenon DEF ClSwap
  <2>2. a \in Nat /\ x \in Nat
    BY ClPoolAssumption
  <2>3. PICK end : /\ Running(end, a - CheckedFee(a))
                   /\ SwapResult(d, a, x).price = end.price
                   /\ SwapResult(d, a, x).liquidity = end.liquidity
    BY <2>1, <2>2, SwapLeaves
  <2> QED BY <1>0, <2>1, <2>3 DEF SwapInv, Running
<1>3. ASSUME NEW o \in Owners, NEW id \in DOMAIN position, Collect(o, id) PROVE SwapInv'
  <2>1. sqrtPrice' = sqrtPrice /\ active' = active
    BY <1>3, Zenon DEF Collect
  <2> QED BY <1>0, <2>1 DEF SwapInv
<1>4. ASSUME NEW o \in Owners, NEW id \in DOMAIN position, NEW n \in Liquidities,
             RemoveLiquidity(o, id, n)
      PROVE  SwapInv'
  <2>1. n \in Nat /\ sqrtPrice' = sqrtPrice
        /\ (active' = MaxOf(0, active - n) \/ active' = active)
    BY <1>4, ClPoolAssumption DEF RemoveLiquidity
  <2> QED BY <1>0, <2>1 DEF SwapInv, MaxOf
<1>5. ASSUME NEW from \in Owners, NEW to \in Owners, NEW id \in DOMAIN nft, HandOn(from, to, id)
      PROVE  SwapInv'
  BY <1>0, <1>5 DEF HandOn, SwapInv
<1>6. CASE UNCHANGED clVars
  BY <1>0, <1>6 DEF clVars, SwapInv
<1> QED BY <1>1, <1>2, <1>3, <1>4, <1>5, <1>6 DEF ClNext

\* swap never charges more than amount_in, refunds what the limit left, and credits
\* no more fees than the sender paid, whatever the positions, prices, inputs and
\* limits, and however many ticks it crosses.
THEOREM SwapChargesFairlyCorrect == ClSpec => []SwapChargesFairly
<1>1. ClInit => SwapInv
  BY TicksInitial, ClPoolAssumption DEF ClInit, SwapInv
<1> QED BY <1>1, SwapStep, FairlyCharged, PTL DEF ClSpec

-----------------------------------------------------------------------------
(* The bitmap: a tick is its word and its bit, and they are ordered as it is. *)

\* A number is its word and its bit.
LEMMA WordAndBit ==
    ASSUME NEW c \in Int
    PROVE  /\ WordOf(c) \in Int /\ BitOf(c) \in 0..(WordBits - 1)
           /\ c = WordOf(c) * WordBits + BitOf(c)
<1>1. WordBits \in Nat \ {0}
  BY BitmapAssumption
<1> QED BY <1>1 DEF WordOf, BitOf

\* Numbers are ordered by their words, and within one by their bits.
LEMMA WordsOrder ==
    ASSUME NEW w \in Int, NEW v \in Int, NEW b \in 0..(WordBits - 1), NEW a \in 0..(WordBits - 1)
    PROVE  (w * WordBits + b <= v * WordBits + a) <=> (w < v \/ (w = v /\ b <= a))
<1>1. WordBits \in Nat \ {0}
  BY BitmapAssumption
<1>2. ASSUME w < v PROVE w * WordBits + b < v * WordBits + a
  <2>1. (w + 1) * WordBits <= v * WordBits
    BY <1>1, <1>2
  <2>2. (w + 1) * WordBits = w * WordBits + WordBits /\ w * WordBits \in Int /\ v * WordBits \in Int
    BY <1>1
  <2> QED BY <1>1, <2>1, <2>2
<1>3. ASSUME v < w PROVE v * WordBits + a < w * WordBits + b
  <2>1. (v + 1) * WordBits <= w * WordBits
    BY <1>1, <1>3
  <2>2. (v + 1) * WordBits = v * WordBits + WordBits /\ w * WordBits \in Int /\ v * WordBits \in Int
    BY <1>1
  <2> QED BY <1>1, <2>1, <2>2
<1>4. w * WordBits \in Int /\ v * WordBits \in Int /\ (w = v => w * WordBits = v * WordBits)
  BY <1>1
<1>5. w < v \/ w = v \/ v < w
  OBVIOUS
<1> QED BY <1>2, <1>3, <1>4, <1>5

\* So are the ticks they stand for.
LEMMA TicksOrder ==
    ASSUME NEW w \in Int, NEW v \in Int, NEW b \in 0..(WordBits - 1), NEW a \in 0..(WordBits - 1)
    PROVE  /\ TickAt(w, b) \in Int
           /\ (TickAt(w, b) <= TickAt(v, a)) <=> (w < v \/ (w = v /\ b <= a))
<1>1. WordBits \in Nat \ {0} /\ Spacing \in Nat \ {0}
  BY BitmapAssumption
<1>2. PICK m \in Int, n \in Int : m = w * WordBits + b /\ n = v * WordBits + a
  BY <1>1
<1>3. (m * Spacing <= n * Spacing) <=> m <= n
  BY <1>1
<1> QED BY <1>1, <1>2, <1>3, WordsOrder DEF TickAt

\* One tick has one word and one bit.
LEMMA TicksApart ==
    ASSUME NEW w \in Int, NEW v \in Int, NEW b \in 0..(WordBits - 1), NEW a \in 0..(WordBits - 1),
           TickAt(w, b) = TickAt(v, a)
    PROVE  w = v /\ b = a
<1>1. /\ TickAt(w, b) \in Int /\ TickAt(v, a) \in Int
      /\ (TickAt(w, b) <= TickAt(v, a)) <=> (w < v \/ (w = v /\ b <= a))
      /\ (TickAt(v, a) <= TickAt(w, b)) <=> (v < w \/ (v = w /\ a <= b))
  BY TicksOrder
<1>2. WordBits \in Nat
  BY BitmapAssumption
<1> QED BY <1>1, <1>2

\* A multiple of the spacing is the tick of its compressed form.
LEMMA TickOfMultiple ==
    ASSUME NEW c \in Int
    PROVE  c * Spacing = TickAt(WordOf(c), BitOf(c))
BY WordAndBit DEF TickAt

\* A multiple is its quotient times the spacing.
LEMMA Multiple ==
    ASSUME NEW t \in Int, t % Spacing = 0
    PROVE  t \div Spacing \in Int /\ t = (t \div Spacing) * Spacing
<1>1. Spacing \in Nat \ {0}
  BY BitmapAssumption
<1> QED BY <1>1

\* Rust's division of a multiple is exact.
LEMMA TruncatedMultiple ==
    ASSUME NEW t \in Int, t % Spacing = 0
    PROVE  Compressed(t) = t \div Spacing
<1>1. Spacing \in Nat \ {0}
  BY BitmapAssumption
<1>2. PICK q \in Int : q = t \div Spacing /\ t = q * Spacing
  BY Multiple
<1>3. -t = (-q) * Spacing /\ -q \in Int
  BY <1>1, <1>2
<1>4. (-t) \div Spacing = -q
  BY <1>1, <1>3
<1>5. Truncated(t) = q
  BY <1>2, <1>4 DEF Truncated
<1> QED BY <1>2, <1>5 DEF Compressed

\* Both divisions are monotone as far as a range's ends.
LEMMA CompressedWithin ==
    ASSUME NEW t \in BitLow..BitHigh
    PROVE  /\ Compressed(t) \in Int /\ Truncated(t) \in Int
           /\ BitLow \div Spacing <= Compressed(t) /\ Compressed(t) <= BitHigh \div Spacing
<1>1. Spacing \in Nat \ {0} /\ BitLow \in Int /\ BitHigh \in Nat /\ BitLow <= 0
  BY BitmapAssumption
<1>2. /\ t \in Int /\ BitLow <= t /\ t <= BitHigh
      /\ t \div Spacing \in Int /\ BitLow \div Spacing \in Int /\ BitHigh \div Spacing \in Nat
  BY <1>1, DivBounds, DivNat
<1>3. BitLow \div Spacing <= t \div Spacing /\ t \div Spacing <= BitHigh \div Spacing
  BY <1>1, <1>2, DivMono
<1>4. CASE t >= 0
  BY <1>2, <1>3, <1>4 DEF Truncated, Compressed
<1>5. CASE t < 0
  <2>1. PICK p \in Int, q \in Int : /\ p = (-t) \div Spacing /\ Spacing * p <= -t
                                   /\ q = t \div Spacing /\ Spacing * q <= t
    <3>1. -t \in Int
      BY <1>2
    <3> QED BY <1>1, <1>2, <3>1, DivBounds
  <2>2. Spacing * p <= Spacing * (-q)
    BY <1>1, <1>2, <2>1
  <2>3. q <= -p
    BY <1>1, <2>1, <2>2
  <2>4. p \in Nat
    BY <1>1, <1>2, <1>5, <2>1, DivNat
  <2>5. Truncated(t) = -p
    BY <1>2, <1>5, <2>1 DEF Truncated
  <2> QED BY <1>2, <1>3, <2>1, <2>3, <2>4, <2>5 DEF Compressed
<1>6. t >= 0 \/ t < 0
  BY <1>2
<1> QED BY <1>4, <1>5, <1>6

\* A multiple is not beyond a tick exactly if its quotient is not beyond the tick's.
LEMMA CompressedOrder ==
    ASSUME contract \in {"pool", "cl-pool"}, NEW t \in BitLow..BitHigh,
           NEW m \in Int, m % Spacing = 0
    PROVE  LET seen == IF contract = "pool" THEN Truncated(t) * Spacing ELSE t
           IN /\ (m <= seen) <=> (m <= Compressed(t) * Spacing)
              /\ (m > seen) <=> (m >= (Compressed(t) + 1) * Spacing)
<1>1. Spacing \in Nat \ {0} /\ t \in Int
  BY BitmapAssumption
<1>2. PICK q \in Int : m = q * Spacing
  BY Multiple
<1>3. PICK c \in Int : c = Compressed(t)
  BY CompressedWithin
<1>4. /\ (m <= c * Spacing) <=> q <= c
      /\ (m >= (c + 1) * Spacing) <=> q >= c + 1
  <2>1. \A k \in Int : (q * Spacing <= k * Spacing <=> q <= k)
                       /\ (q * Spacing >= k * Spacing <=> q >= k)
    BY <1>1
  <2> QED BY <1>2, <2>1
<1>5. CASE contract = "pool"
  <2>1. c * Spacing \in Int /\ m \in Int /\ Truncated(t) = c
    BY <1>1, <1>3, <1>5 DEF Compressed
  <2> QED BY <1>3, <1>4, <1>5, <2>1
<1>6. CASE contract = "cl-pool"
  <2>1. c = t \div Spacing
    BY <1>3, <1>6 DEF Compressed
  <2>2. Spacing * c <= t /\ t < Spacing * c + Spacing
    BY <1>1, <2>1, DivBounds
  <2>3. (m <= t) <=> q <= c
    <3>1. q <= c => m <= c * Spacing
      BY <1>2, <1>4
    <3>2. m <= t => q <= c
      <4> SUFFICES ASSUME m <= t PROVE q <= c
        OBVIOUS
      <4>1. Spacing * q <= t
        BY <1>1, <1>2
      <4> QED BY <1>1, <2>1, <4>1, DivAtLeast
    <3>3. c * Spacing = Spacing * c /\ c * Spacing \in Int
      BY <1>1
    <3> QED BY <1>1, <2>2, <3>1, <3>2, <3>3
  <2>4. (m > t) <=> ~(m <= t)
    BY <1>1
  <2>5. q >= c + 1 <=> ~(q <= c)
    OBVIOUS
  <2> QED BY <1>3, <1>4, <1>6, <2>3, <2>4, <2>5
<1> QED BY <1>5, <1>6

-----------------------------------------------------------------------------
(* What the bitmap says, and what a search of it finds. *)

BitmapInv ==
    /\ BitmapTypeOK
    /\ \A m \in marked : m % Spacing = 0
    /\ \A w \in Words : \A b \in 0..(WordBits - 1) : b \in words[w] <=> TickAt(w, b) \in marked

\* A marked tick has a bit in a word that is kept, and one pool searches.
LEMMA MarkedBit ==
    ASSUME BitmapInv, NEW m \in marked
    PROVE  \E w \in Words, b \in 0..(WordBits - 1) :
              /\ b \in words[w] /\ w \in Int /\ m = TickAt(w, b)
              /\ w \in WordOf(Truncated(BitLow))..WordOf(Truncated(BitHigh))
<1> DEFINE q == m \div Spacing
           w == WordOf(q)
           b == BitOf(q)
<1>1. /\ WordBits \in Nat \ {0} /\ Spacing \in Nat \ {0}
      /\ BitLow \in Int /\ BitHigh \in Nat /\ BitLow <= 0
  BY BitmapAssumption
<1>2. m \in BitLow..BitHigh /\ m % Spacing = 0
  BY DEF BitmapInv, BitmapTypeOK
<1>3. q \in Int /\ m = q * Spacing
  BY <1>2, Multiple
<1>4. w \in Int /\ b \in 0..(WordBits - 1) /\ m = TickAt(w, b)
  BY <1>3, WordAndBit, TickOfMultiple
<1>5. \A j, k \in Int : j <= k => WordOf(j) <= WordOf(k)
  BY <1>1, DivMono DEF WordOf
<1>6. /\ BitLow \div Spacing \in Int /\ BitHigh \div Spacing \in Int
      /\ BitLow \div Spacing <= q /\ q <= BitHigh \div Spacing
  BY <1>1, <1>2, DivMono, DivBounds
<1>7. w \in Words
  <2>1. BitHigh \div Spacing + 1 \in Int /\ q <= BitHigh \div Spacing + 1
    BY <1>3, <1>6
  <2>2. WordOf(BitLow \div Spacing) <= w /\ w <= WordOf(BitHigh \div Spacing + 1)
    BY <1>3, <1>5, <1>6, <2>1
  <2>3. WordOf(BitLow \div Spacing) \in Int /\ WordOf(BitHigh \div Spacing + 1) \in Int
    BY <1>6, <2>1, WordAndBit
  <2> HIDE DEF w
  <2> QED BY <1>4, <2>2, <2>3 DEF Words
<1>8. w \in WordOf(Truncated(BitLow))..WordOf(Truncated(BitHigh))
  <2>1. Truncated(BitLow) \in Int /\ Truncated(BitHigh) \in Int
    BY <1>1, CompressedWithin
  <2>2. Truncated(BitHigh) = BitHigh \div Spacing
    BY <1>1 DEF Truncated
  <2>3. Truncated(BitLow) <= q
    <3>1. CASE BitLow = 0
      BY <1>1, <1>6, <3>1 DEF Truncated
    <3>2. CASE BitLow < 0
      <4>1. Spacing * (-q) <= -BitLow
        BY <1>1, <1>2, <1>3
      <4>2. -q <= (-BitLow) \div Spacing
        BY <1>1, <1>3, <4>1, DivAtLeast
      <4>3. Truncated(BitLow) = -((-BitLow) \div Spacing) /\ (-BitLow) \div Spacing \in Int
        BY <1>1, <3>2, DivBounds DEF Truncated
      <4> QED BY <1>3, <4>2, <4>3
    <3> QED BY <1>1, <3>1, <3>2
  <2>4. WordOf(Truncated(BitLow)) <= w /\ w <= WordOf(Truncated(BitHigh))
    BY <1>3, <1>5, <1>6, <2>1, <2>2, <2>3
  <2>5. WordOf(Truncated(BitLow)) \in Int /\ WordOf(Truncated(BitHigh)) \in Int
    BY <2>1, WordAndBit
  <2> HIDE DEF w
  <2> QED BY <1>4, <2>4, <2>5
<1>9. b \in words[w]
  <2> HIDE DEF w, b
  <2> QED BY <1>4, <1>7 DEF BitmapInv
<1> HIDE DEF w, b
<1> QED BY <1>4, <1>7, <1>8, <1>9

\* A bit that is set is that of a marked tick.
LEMMA BitMarked ==
    ASSUME BitmapInv, NEW w \in Words, NEW b \in words[w]
    PROVE  w \in Int /\ b \in 0..(WordBits - 1) /\ TickAt(w, b) \in marked /\ TickAt(w, b) \in Int
<1>1. BitLow \div Spacing \in Int /\ BitHigh \div Spacing + 1 \in Int
  BY BitmapAssumption, DivBounds
<1>2. w \in Int
  BY <1>1, WordAndBit DEF Words
<1>3. b \in 0..(WordBits - 1)
  BY DEF BitmapInv, BitmapTypeOK
<1> QED BY <1>2, <1>3, TicksOrder DEF BitmapInv

\* The one element no other exceeds.
LEMMA GreatestIs ==
    ASSUME NEW T, T \subseteq Int, NEW x \in T, \A y \in T : x >= y
    PROVE  Max(T) = x
<1>1. \A z \in T : (\A y \in T : z >= y) => z = x
  OBVIOUS
<1>2. Max(T) \in T /\ \A y \in T : Max(T) >= y
  BY DEF Max
<1> QED BY <1>1, <1>2

\* See GreatestIs.
LEMMA LeastIs ==
    ASSUME NEW T, T \subseteq Int, NEW x \in T, \A y \in T : x <= y
    PROVE  Min(T) = x
<1>1. \A z \in T : (\A y \in T : z <= y) => z = x
  OBVIOUS
<1>2. Min(T) \in T /\ \A y \in T : Min(T) <= y
  BY DEF Min
<1> QED BY <1>1, <1>2

\* Words and bits are finitely many.
LEMMA BitsFinite ==
    ASSUME BitmapInv
    PROVE  /\ \A T \in SUBSET Words : IsFiniteSet(T) /\ T \subseteq Int
           /\ \A w \in Words : \A T \in SUBSET words[w] : IsFiniteSet(T) /\ T \subseteq Int
<1>1. BitLow \div Spacing \in Int /\ BitHigh \div Spacing + 1 \in Int /\ WordBits - 1 \in Int
  BY BitmapAssumption, DivBounds
<1>2. WordOf(BitLow \div Spacing) \in Int /\ WordOf(BitHigh \div Spacing + 1) \in Int
  BY <1>1, WordAndBit
<1>3. IsFiniteSet(Words) /\ Words \subseteq Int
  BY <1>2, FS_Interval DEF Words
<1>4. IsFiniteSet(0..(WordBits - 1)) /\ 0..(WordBits - 1) \subseteq Int
  BY <1>1, FS_Interval
<1>5. \A w \in Words : words[w] \subseteq 0..(WordBits - 1)
  BY DEF BitmapInv, BitmapTypeOK
<1> QED BY <1>3, <1>4, <1>5, FS_Subset

\* Downwards: the highest bit at or below one of a word, and else the highest of the
\* highest word below that has any, is the next marked tick.
LEMMA SearchesDown ==
    ASSUME BitmapInv, NEW k \in Words, NEW a \in 0..(WordBits - 1)
    PROVE  LET here == {b \in words[k] : b <= a}
               others == {w \in Scanned(k, TRUE) : words[w] # {}}
               below == {m \in marked : m <= TickAt(k, a)}
           IN /\ here # {} => below # {} /\ TickAt(k, Max(here)) = Max(below)
              /\ here = {} /\ others # {} =>
                    below # {} /\ TickAt(Max(others), Max(words[Max(others)])) = Max(below)
              /\ here = {} /\ others = {} => below = {}
<1> DEFINE here == {b \in words[k] : b <= a}
           others == {w \in Scanned(k, TRUE) : words[w] # {}}
           below == {m \in marked : m <= TickAt(k, a)}
<1>0. /\ here \subseteq words[k] /\ others \subseteq Words /\ below \subseteq Int /\ k \in Int
      /\ \A w \in others : w < k /\ words[w] # {}
  <2>1. marked \subseteq Int
    BY DEF BitmapInv, BitmapTypeOK
  <2> QED BY <2>1, BitsFinite DEF Scanned
<1>1. ASSUME NEW w \in Words, NEW b \in words[w], w < k \/ (w = k /\ b <= a)
      PROVE  TickAt(w, b) \in below
  BY <1>0, <1>1, BitMarked, TicksOrder
<1>2. ASSUME NEW m \in below
      PROVE  \E w \in Words, b \in 0..(WordBits - 1) :
                /\ m = TickAt(w, b) /\ w \in Int /\ b \in words[w]
                /\ (w \in others \/ (w = k /\ b \in here))
  <2>1. PICK w \in Words, b \in 0..(WordBits - 1) :
            /\ b \in words[w] /\ w \in Int /\ m = TickAt(w, b)
            /\ w \in WordOf(Truncated(BitLow))..WordOf(Truncated(BitHigh))
    BY MarkedBit
  <2>2. w < k \/ (w = k /\ b <= a)
    BY <1>0, <2>1, TicksOrder
  <2>3. w < k => w \in Scanned(k, TRUE)
    BY <2>1 DEF Scanned
  <2> QED BY <2>1, <2>2, <2>3
<1>3. ASSUME here # {} PROVE below # {} /\ TickAt(k, Max(here)) = Max(below)
  <2>1. Max(here) \in here /\ (\A y \in here : Max(here) >= y) /\ Max(here) <= a
    BY <1>0, <1>3, BitsFinite, Extremes
  <2> DEFINE top == Max(here)
  <2> HIDE DEF top
  <2>2. top \in words[k] /\ top \in 0..(WordBits - 1) /\ TickAt(k, top) \in below
    BY <1>0, <1>1, <2>1, BitMarked DEF top
  <2>3. \A m \in below : TickAt(k, top) >= m
    <3> SUFFICES ASSUME NEW m \in below PROVE m <= TickAt(k, top)
      BY <1>0, <2>2
    <3>1. PICK w \in Words, b \in 0..(WordBits - 1) :
              /\ m = TickAt(w, b) /\ w \in Int /\ b \in words[w]
              /\ (w \in others \/ (w = k /\ b \in here))
      BY <1>2
    <3>2. w < k \/ (w = k /\ b <= top)
      <4>1. b \in here => b <= top
        BY <1>0, <2>1, <2>2, BitsFinite DEF top
      <4> HIDE DEF here, others
      <4> QED BY <1>0, <3>1, <4>1
    <3> QED BY <1>0, <2>2, <3>1, <3>2, TicksOrder
  <2> HIDE DEF below
  <2> QED BY <1>0, <2>2, <2>3, GreatestIs DEF top
<1>4. ASSUME here = {}, others # {}
      PROVE  below # {} /\ TickAt(Max(others), Max(words[Max(others)])) = Max(below)
  <2> DEFINE v == Max(others)
             top == Max(words[v])
  <2>1. v \in others /\ \A w \in others : v >= w
    BY <1>0, <1>4, BitsFinite, Extremes
  <2> HIDE DEF v
  <2>2. v \in Words /\ v < k /\ words[v] # {}
    BY <1>0, <2>1
  <2>3. top \in words[v] /\ \A b \in words[v] : top >= b
    BY <2>2, BitsFinite, Extremes
  <2> HIDE DEF top
  <2>4. TickAt(v, top) \in below /\ v \in Int /\ top \in 0..(WordBits - 1)
    BY <1>1, <2>2, <2>3, BitMarked
  <2>5. \A m \in below : TickAt(v, top) >= m
    <3> SUFFICES ASSUME NEW m \in below PROVE m <= TickAt(v, top)
      BY <1>0, <2>4
    <3>1. PICK w \in Words, b \in 0..(WordBits - 1) :
              /\ m = TickAt(w, b) /\ w \in Int /\ b \in words[w]
              /\ (w \in others \/ (w = k /\ b \in here))
      BY <1>2
    <3>2. w \in others
      BY <1>4, <3>1
    <3>3. w < v \/ (w = v /\ b <= top)
      <4>1. w <= v
        BY <2>1, <2>4, <3>1, <3>2
      <4>2. w = v => b <= top
        BY <2>3, <2>4, <3>1
      <4> QED BY <2>4, <3>1, <4>1, <4>2
    <3> QED BY <2>4, <3>1, <3>3, TicksOrder
  <2> HIDE DEF below
  <2> QED BY <1>0, <2>4, <2>5, GreatestIs DEF v, top
<1>5. here = {} /\ others = {} => below = {}
  BY <1>2
<1> HIDE DEF here, others, below
<1>6. /\ here # {} => below # {} /\ TickAt(k, Max(here)) = Max(below)
      /\ here = {} /\ others # {} =>
            below # {} /\ TickAt(Max(others), Max(words[Max(others)])) = Max(below)
      /\ here = {} /\ others = {} => below = {}
  BY <1>3, <1>4, <1>5
<1> QED BY <1>6 DEF here, others, below
\* Upwards: the lowest bit at or above one of a word, and else the lowest of the lowest
\* word above that has any.
LEMMA SearchesUp ==
    ASSUME BitmapInv, NEW k \in Words, NEW a \in 0..(WordBits - 1)
    PROVE  LET here == {b \in words[k] : b >= a}
               others == {w \in Scanned(k, FALSE) : words[w] # {}}
               above == {m \in marked : m >= TickAt(k, a)}
           IN /\ here # {} => above # {} /\ TickAt(k, Min(here)) = Min(above)
              /\ here = {} /\ others # {} =>
                    above # {} /\ TickAt(Min(others), Min(words[Min(others)])) = Min(above)
              /\ here = {} /\ others = {} => above = {}
<1> DEFINE here == {b \in words[k] : b >= a}
           others == {w \in Scanned(k, FALSE) : words[w] # {}}
           above == {m \in marked : m >= TickAt(k, a)}
<1>0. /\ here \subseteq words[k] /\ others \subseteq Words /\ above \subseteq Int /\ k \in Int
      /\ \A w \in others : w > k /\ words[w] # {}
  <2>1. marked \subseteq Int
    BY DEF BitmapInv, BitmapTypeOK
  <2> QED BY <2>1, BitsFinite DEF Scanned
<1>1. ASSUME NEW w \in Words, NEW b \in words[w], w > k \/ (w = k /\ b >= a)
      PROVE  TickAt(w, b) \in above
  BY <1>0, <1>1, BitMarked, TicksOrder
<1>2. ASSUME NEW m \in above
      PROVE  \E w \in Words, b \in 0..(WordBits - 1) :
                /\ m = TickAt(w, b) /\ w \in Int /\ b \in words[w]
                /\ (w \in others \/ (w = k /\ b \in here))
  <2>1. PICK w \in Words, b \in 0..(WordBits - 1) :
            /\ b \in words[w] /\ w \in Int /\ m = TickAt(w, b)
            /\ w \in WordOf(Truncated(BitLow))..WordOf(Truncated(BitHigh))
    BY MarkedBit
  <2>2. w > k \/ (w = k /\ b >= a)
    BY <1>0, <2>1, TicksOrder
  <2>3. w > k => w \in Scanned(k, FALSE)
    BY <2>1 DEF Scanned
  <2> QED BY <2>1, <2>2, <2>3
<1>3. ASSUME here # {} PROVE above # {} /\ TickAt(k, Min(here)) = Min(above)
  <2>1. Min(here) \in here /\ (\A y \in here : Min(here) <= y) /\ Min(here) >= a
    BY <1>0, <1>3, BitsFinite, Extremes
  <2> DEFINE low == Min(here)
  <2> HIDE DEF low
  <2>2. low \in words[k] /\ low \in 0..(WordBits - 1) /\ TickAt(k, low) \in above
    BY <1>0, <1>1, <2>1, BitMarked DEF low
  <2>3. \A m \in above : TickAt(k, low) <= m
    <3> SUFFICES ASSUME NEW m \in above PROVE m >= TickAt(k, low)
      BY <1>0, <2>2
    <3>1. PICK w \in Words, b \in 0..(WordBits - 1) :
              /\ m = TickAt(w, b) /\ w \in Int /\ b \in words[w]
              /\ (w \in others \/ (w = k /\ b \in here))
      BY <1>2
    <3>2. w > k \/ (w = k /\ b >= low)
      <4>1. b \in here => b >= low
        BY <1>0, <2>1, <2>2, BitsFinite DEF low
      <4> HIDE DEF here, others
      <4> QED BY <1>0, <3>1, <4>1
    <3> QED BY <1>0, <2>2, <3>1, <3>2, TicksOrder
  <2> HIDE DEF above
  <2> QED BY <1>0, <2>2, <2>3, LeastIs DEF low
<1>4. ASSUME here = {}, others # {}
      PROVE  above # {} /\ TickAt(Min(others), Min(words[Min(others)])) = Min(above)
  <2> DEFINE v == Min(others)
             low == Min(words[v])
  <2>1. v \in others /\ \A w \in others : v <= w
    BY <1>0, <1>4, BitsFinite, Extremes
  <2> HIDE DEF v
  <2>2. v \in Words /\ v > k /\ words[v] # {}
    BY <1>0, <2>1
  <2>3. low \in words[v] /\ \A b \in words[v] : low <= b
    BY <2>2, BitsFinite, Extremes
  <2> HIDE DEF low
  <2>4. TickAt(v, low) \in above /\ v \in Int /\ low \in 0..(WordBits - 1)
    BY <1>1, <2>2, <2>3, BitMarked
  <2>5. \A m \in above : TickAt(v, low) <= m
    <3> SUFFICES ASSUME NEW m \in above PROVE m >= TickAt(v, low)
      BY <1>0, <2>4
    <3>1. PICK w \in Words, b \in 0..(WordBits - 1) :
              /\ m = TickAt(w, b) /\ w \in Int /\ b \in words[w]
              /\ (w \in others \/ (w = k /\ b \in here))
      BY <1>2
    <3>2. w \in others
      BY <1>4, <3>1
    <3>3. w > v \/ (w = v /\ b >= low)
      <4>1. w >= v
        BY <2>1, <2>4, <3>1, <3>2
      <4>2. w = v => b >= low
        BY <2>3, <2>4, <3>1
      <4> QED BY <2>4, <3>1, <4>1, <4>2
    <3> QED BY <2>4, <3>1, <3>3, TicksOrder
  <2> HIDE DEF above
  <2> QED BY <1>0, <2>4, <2>5, LeastIs DEF v, low
<1>5. here = {} /\ others = {} => above = {}
  BY <1>2
<1> HIDE DEF here, others, above
<1>6. /\ here # {} => above # {} /\ TickAt(k, Min(here)) = Min(above)
      /\ here = {} /\ others # {} =>
            above # {} /\ TickAt(Min(others), Min(words[Min(others)])) = Min(above)
      /\ here = {} /\ others = {} => above = {}
  BY <1>3, <1>4, <1>5
<1> QED BY <1>6 DEF here, others, above

\* Turning a tick's bit turns that tick and no other.
LEMMA FlipKeeps ==
    ASSUME BitmapInv, NEW t \in BitLow..BitHigh, Flip(t)
    PROVE  BitmapInv'
<1> DEFINE q == t \div Spacing
           k == WordOf(q)
           a == BitOf(q)
<1>1. t \in Int /\ t \in BitLow..BitHigh /\ t % Spacing = 0
  BY BitmapAssumption DEF Flip
<1>2. q \in Int /\ t = q * Spacing /\ Compressed(t) = q
  BY <1>1, Multiple, TruncatedMultiple
<1>3. k \in Int /\ a \in 0..(WordBits - 1) /\ t = TickAt(k, a)
  BY <1>2, WordAndBit, TickOfMultiple
<1>4. k \in Words
  <2>1. Spacing \in Nat \ {0} /\ WordBits \in Nat \ {0}
    BY BitmapAssumption
  <2>2. BitLow \div Spacing \in Int /\ BitHigh \div Spacing \in Int
        /\ BitLow \div Spacing <= q /\ q <= BitHigh \div Spacing + 1
    BY <1>1, <1>2, <2>1, BitmapAssumption, CompressedWithin, DivBounds
  <2>3. WordOf(BitLow \div Spacing) <= k /\ k <= WordOf(BitHigh \div Spacing + 1)
    BY <1>2, <2>1, <2>2, DivMono DEF WordOf
  <2>4. WordOf(BitLow \div Spacing) \in Int /\ WordOf(BitHigh \div Spacing + 1) \in Int
    BY <2>2, WordAndBit
  <2> HIDE DEF k
  <2> QED BY <1>3, <2>3, <2>4 DEF Words
<1>5. /\ words' = [words EXCEPT ![k] = (@ \ {a}) \cup ({a} \ @)]
      /\ marked' = (marked \ {t}) \cup ({t} \ marked) /\ contract' = contract
  BY <1>2 DEF Flip
<1> HIDE DEF k, a, q
<1>6. /\ contract \in {"pool", "cl-pool"} /\ words \in [Words -> SUBSET (0..(WordBits - 1))]
      /\ marked \subseteq BitLow..BitHigh
  BY DEF BitmapInv, BitmapTypeOK
<1>7. /\ words'[k] = (words[k] \ {a}) \cup ({a} \ words[k])
      /\ \A w \in Words : w # k => words'[w] = words[w]
  BY <1>4, <1>5, <1>6
<1>8. BitmapTypeOK'
  <2>1. words' \in [Words -> SUBSET (0..(WordBits - 1))]
    BY <1>3, <1>4, <1>5, <1>6
  <2>2. marked' \subseteq BitLow..BitHigh
    BY <1>1, <1>5, <1>6
  <2> QED BY <1>5, <1>6, <2>1, <2>2 DEF BitmapTypeOK, Words
<1>9. \A m \in marked' : m % Spacing = 0
  BY <1>1, <1>5 DEF BitmapInv
<1>10. ASSUME NEW w \in Words, NEW b \in 0..(WordBits - 1)
       PROVE  b \in words'[w] <=> TickAt(w, b) \in marked'
  <2>1. b \in words[w] <=> TickAt(w, b) \in marked
    BY DEF BitmapInv
  <2>2. CASE w = k /\ b = a
    BY <1>3, <1>5, <1>7, <2>1, <2>2
  <2>3. CASE w # k \/ b # a
    <3>1. TickAt(w, b) # t
      <4>1. w \in Int
        BY BitsFinite
      <4> QED BY <1>3, <2>3, <4>1, TicksApart
    <3>2. TickAt(w, b) \in marked' <=> TickAt(w, b) \in marked
      BY <1>5, <3>1
    <3>3. b \in words'[w] <=> b \in words[w]
      BY <1>7, <2>3
    <3> QED BY <2>1, <3>2, <3>3
  <2> QED BY <2>2, <2>3
<1> QED BY <1>8, <1>9, <1>10 DEF BitmapInv, TickAt, Words

\* Every call of both bitmaps keeps their bits those of the marked ticks.
THEOREM BitmapInductive == BitmapInv /\ [BitmapNext]_bitmapVars => BitmapInv'
<1> SUFFICES ASSUME BitmapInv, [BitmapNext]_bitmapVars PROVE BitmapInv'
  OBVIOUS
<1>1. CASE UNCHANGED bitmapVars
  BY <1>1 DEF bitmapVars, BitmapInv, BitmapTypeOK, TickAt, Words
<1>2. ASSUME NEW t \in BitLow..BitHigh, Flip(t) PROVE BitmapInv'
  BY <1>2, FlipKeeps
<1> QED BY <1>1, <1>2 DEF BitmapNext

\* An empty bitmap marks nothing.
LEMMA BitmapInitial == BitmapInit => BitmapInv
BY DEF BitmapInit, BitmapInv, BitmapTypeOK

\* What the invariant says of every search.
LEMMA BitmapMeans == BitmapInv => BitmapExact
<1> SUFFICES ASSUME BitmapInv PROVE BitmapExact
  OBVIOUS
<1>1. UNION {{TickAt(w, b) : b \in words[w]} : w \in Words} = marked
  <2>1. \A w \in Words : \A b \in words[w] : TickAt(w, b) \in marked
    BY BitMarked
  <2>2. \A m \in marked : \E w \in Words : \E b \in words[w] : m = TickAt(w, b)
    BY MarkedBit
  <2> QED BY <2>1, <2>2
<1>2. ASSUME NEW t \in BitLow..BitHigh
      PROVE  LET seen == IF contract = "pool" THEN Truncated(t) * Spacing ELSE t
                 below == {m \in marked : m <= seen}
                 above == {m \in marked : m > seen}
             IN /\ NextInitializedTick(t, TRUE) =
                      IF below = {} THEN <<BitLow, FALSE>> ELSE <<Max(below), TRUE>>
                /\ NextInitializedTick(t, FALSE) =
                      IF above = {} THEN <<BitHigh, FALSE>> ELSE <<Min(above), TRUE>>
  <2> DEFINE seen == IF contract = "pool" THEN Truncated(t) * Spacing ELSE t
             c == Compressed(t)
             At(n) == TickAt(WordOf(n), BitOf(n))
             below == {m \in marked : m <= seen}
             above == {m \in marked : m > seen}
  <2>1. /\ c \in Int /\ c + 1 \in Int
        /\ WordOf(c) \in Words /\ WordOf(c + 1) \in Words
        /\ BitOf(c) \in 0..(WordBits - 1) /\ BitOf(c + 1) \in 0..(WordBits - 1)
    <3>1. WordBits \in Nat \ {0} /\ Spacing \in Nat \ {0}
      BY BitmapAssumption
    <3>2. /\ BitLow \div Spacing \in Int /\ BitHigh \div Spacing + 1 \in Int /\ c \in Int
          /\ BitLow \div Spacing <= c /\ c + 1 <= BitHigh \div Spacing + 1
      BY <3>1, BitmapAssumption, CompressedWithin, DivBounds
    <3> HIDE DEF c
    <3>3. /\ WordOf(BitLow \div Spacing) <= WordOf(c) /\ WordOf(c) <= WordOf(c + 1)
          /\ WordOf(c + 1) <= WordOf(BitHigh \div Spacing + 1)
      <4>1. c + 1 \in Int /\ c <= c + 1
        BY <3>2
      <4> QED BY <3>1, <3>2, <4>1, DivMono DEF WordOf
    <3>4. /\ WordOf(BitLow \div Spacing) \in Int /\ WordOf(BitHigh \div Spacing + 1) \in Int
          /\ WordOf(c) \in Int /\ WordOf(c + 1) \in Int
          /\ BitOf(c) \in 0..(WordBits - 1) /\ BitOf(c + 1) \in 0..(WordBits - 1)
      BY <3>2, WordAndBit
    <3>5. /\ WordOf(c) \in WordOf(BitLow \div Spacing)..WordOf(BitHigh \div Spacing + 1)
          /\ WordOf(c + 1) \in WordOf(BitLow \div Spacing)..WordOf(BitHigh \div Spacing + 1)
      BY <3>3, <3>4
    <3> QED BY <3>2, <3>4, <3>5 DEF Words
  <2>2. At(c) = c * Spacing /\ At(c + 1) = (c + 1) * Spacing
    BY <2>1, TickOfMultiple
  <2>3. \A m \in marked : m \in Int /\ m % Spacing = 0
    BY DEF BitmapInv, BitmapTypeOK
  <2>4. contract \in {"pool", "cl-pool"}
    BY DEF BitmapInv, BitmapTypeOK
  <2>5. below = {m \in marked : m <= At(c)} /\ above = {m \in marked : m >= At(c + 1)}
    <3>1. \A m \in marked : /\ (m <= seen) <=> (m <= c * Spacing)
                            /\ (m > seen) <=> (m >= (c + 1) * Spacing)
      BY <2>3, <2>4, CompressedOrder
    <3> HIDE DEF seen, c, At
    <3> QED BY <2>2, <3>1
  <2> HIDE DEF seen, c, below, above
  <2>6. NextInitializedTick(t, TRUE) = IF below = {} THEN <<BitLow, FALSE>> ELSE <<Max(below), TRUE>>
    <3> DEFINE here == {b \in words[WordOf(c)] : b <= BitOf(c)}
               others == {w \in Scanned(WordOf(c), TRUE) : words[w] # {}}
    <3>1. /\ here # {} => below # {} /\ TickAt(WordOf(c), Max(here)) = Max(below)
          /\ here = {} /\ others # {} =>
                below # {} /\ TickAt(Max(others), Max(words[Max(others)])) = Max(below)
          /\ here = {} /\ others = {} => below = {}
      BY <2>1, <2>5, SearchesDown, Zenon
    <3>2. NextInitializedTick(t, TRUE) =
             IF here # {} THEN <<TickAt(WordOf(c), Max(here)), TRUE>>
             ELSE IF others # {} THEN <<TickAt(Max(others), Max(words[Max(others)])), TRUE>>
             ELSE <<BitLow, FALSE>>
      BY Zenon DEF NextInitializedTick, c
    <3> HIDE DEF here, others
    <3> QED BY <3>1, <3>2
  <2>7. NextInitializedTick(t, FALSE) = IF above = {} THEN <<BitHigh, FALSE>> ELSE <<Min(above), TRUE>>
    <3> DEFINE n == c + 1
               here == {b \in words[WordOf(n)] : b >= BitOf(n)}
               others == {w \in Scanned(WordOf(n), FALSE) : words[w] # {}}
    <3>1. /\ here # {} => above # {} /\ TickAt(WordOf(n), Min(here)) = Min(above)
          /\ here = {} /\ others # {} =>
                above # {} /\ TickAt(Min(others), Min(words[Min(others)])) = Min(above)
          /\ here = {} /\ others = {} => above = {}
      BY <2>1, <2>5, SearchesUp, Zenon
    <3>2. NextInitializedTick(t, FALSE) =
             IF here # {} THEN <<TickAt(WordOf(n), Min(here)), TRUE>>
             ELSE IF others # {} THEN <<TickAt(Min(others), Min(words[Min(others)])), TRUE>>
             ELSE <<BitHigh, FALSE>>
      BY Zenon DEF NextInitializedTick, c
    <3> HIDE DEF here, others
    <3> QED BY <3>1, <3>2
  <2> QED BY <2>6, <2>7 DEF seen, below, above
<1> QED BY <1>1, <1>2, Zenon DEF BitmapExact

\* For words of any number of bits, any spacing and any range: the bits are the ticks
\* that were flipped an odd number of times, and a search in either direction finds the
\* next of them, or none where there is none (cl-pool/src/lib.rs:863-1040,
\* pool/src/lib.rs:239-297).
THEOREM BitmapExactCorrect == ContractsSpec => []BitmapExact
<1>1. ContractsInit => BitmapInv
  BY BitmapInitial DEF ContractsInit
<1>2. BitmapInv /\ [ContractsNext]_contractVars => BitmapInv'
  <2>1. [ContractsNext]_contractVars => [BitmapNext]_bitmapVars
    BY DEF ContractsNext, contractVars
  <2> QED BY <2>1, BitmapInductive
<1> QED BY <1>1, <1>2, BitmapMeans, PTL DEF ContractsSpec

-----------------------------------------------------------------------------
(* Types of the concentrated-liquidity pool: beside what its swaps need, that *)
(* no quotient is by zero, for which a range begins where there is a price,   *)
(* and that no balance is overdrawn.                                          *)

Outside ==
    /\ tick = [t \in Ticks |-> tick[t]]
    /\ \A t \in Ticks : tick[t].outside \in [Tokens -> Nat]

Priced(pos) ==
    \A id \in DOMAIN pos : /\ pos[id].last \in [Tokens -> Nat]
                           /\ TickToSqrtPrice(pos[id].lower) > 0

Balances == growth \in [Tokens -> Nat] /\ held \in [Tokens -> Nat]

ClTyped == SwapInv /\ current \in Int /\ Balances /\ Outside /\ Priced(position)

\* A quotient by more is no larger.
LEMMA DivLess ==
    ASSUME NEW n \in Nat, NEW d \in Nat \ {0}, NEW e \in Nat, d <= e
    PROVE  n \div e <= n \div d
<1>1. PICK q \in Nat : q = n \div e /\ e * q <= n
  BY DivBounds, DivNat
<1>2. d * q <= e * q
  BY <1>1
<1>3. d * q <= n /\ d * q \in Int
  BY <1>1, <1>2
<1> QED BY <1>1, <1>3, DivAtLeast

\* A price rises with the tick, until it has sunk to zero.
LEMMA TickPricesRise ==
    ASSUME NEW t \in Int, NEW u \in Int, t <= u
    PROVE  TickToSqrtPrice(t) <= TickToSqrtPrice(u)
<1>1. One \in Nat \ {0} /\ TickUnits \in Nat \ {0}
  BY ClPoolAssumption
<1> DEFINE up(x) == (x * One) \div TickUnits
<1>2. /\ \A x \in Int : x * One \in Int /\ up(x) \in Int
      /\ \A x, y \in Int : x <= y => up(x) <= up(y)
  <2>1. \A x \in Int : x * One \in Int
    BY <1>1
  <2>2. \A x, y \in Int : x <= y => x * One <= y * One
    BY <1>1
  <2> QED BY <1>1, <2>1, <2>2, DivBounds, DivMono
<1>3. up(0) = 0
  BY <1>1
<1>4. /\ TickToSqrtPrice(t) = IF t >= 0 THEN One + up(t) ELSE MaxOf(0, One - up(-t))
      /\ TickToSqrtPrice(u) = IF u >= 0 THEN One + up(u) ELSE MaxOf(0, One - up(-u))
  BY DEF TickToSqrtPrice
<1> HIDE DEF up
<1>5. CASE t >= 0
  BY <1>1, <1>2, <1>4, <1>5
<1>6. CASE t < 0 /\ u < 0
  <2>1. up(-u) <= up(-t) /\ up(-u) \in Int /\ up(-t) \in Int
    BY <1>2, <1>6
  <2> QED BY <1>1, <1>4, <1>6, <2>1 DEF MaxOf
<1>7. CASE t < 0 /\ u >= 0
  <2>1. 0 <= up(u) /\ 0 <= up(-t) /\ up(u) \in Int /\ up(-t) \in Int
    BY <1>2, <1>3, <1>7
  <2> QED BY <1>1, <1>4, <1>7, <2>1 DEF MaxOf
<1> QED BY <1>5, <1>6, <1>7

\* The tick of a price is a number.
LEMMA PriceTickTyped ==
    ASSUME NEW p \in Nat
    PROVE  SqrtPriceToTick(p) \in Int
<1>1. One \in Nat \ {0} /\ TickUnits \in Nat
  BY ClPoolAssumption
<1> DEFINE scaled(d) == (d \div One) * TickUnits + ((d % One) * TickUnits) \div One
<1>2. ASSUME NEW d \in Nat PROVE scaled(d) \in Int
  <2>1. d \div One \in Int /\ d % One \in Int
    BY <1>1
  <2>2. (d \div One) * TickUnits \in Int /\ (d % One) * TickUnits \in Int
    BY <1>1, <2>1
  <2>3. ((d % One) * TickUnits) \div One \in Int
    BY <1>1, <2>2, DivBounds
  <2> QED BY <2>2, <2>3
<1>3. SqrtPriceToTick(p) = IF p = 0 THEN 0 ELSE IF p >= One THEN scaled(p - One) ELSE -scaled(One - p)
  BY DEF SqrtPriceToTick
<1> HIDE DEF scaled
<1>4. (p >= One => p - One \in Nat) /\ (~(p >= One) => One - p \in Nat)
  BY <1>1
<1> QED BY <1>2, <1>3, <1>4

\* What a range holds is a number of each token.
LEMMA PositionAmounts ==
    ASSUME sqrtPrice \in Nat, NEW n \in Nat, NEW lower \in Nat, NEW upper \in Nat,
           0 < lower, lower <= upper
    PROVE  AmountsForLiquidity(n, lower, upper) \in [Tokens -> Nat]
<1> DEFINE at == MinOf(MaxOf(sqrtPrice, lower), upper)
           zero == (n * One) \div lower - (n * One) \div upper
           one == (n * (at - lower)) \div One
<1>1. One \in Nat \ {0} /\ n * One \in Nat
  BY ClPoolAssumption
<1>2. at \in Nat /\ at - lower \in Nat
  <2>1. PICK k \in Nat : k = MaxOf(sqrtPrice, lower) /\ k >= lower
    BY DEF MaxOf
  <2>2. MinOf(k, upper) \in Nat /\ MinOf(k, upper) >= lower
    BY <2>1 DEF MinOf
  <2>3. at = MinOf(k, upper)
    BY <2>1
  <2> QED BY <2>2, <2>3
<1>3. zero \in Nat
  <2>1. /\ (n * One) \div lower \in Nat /\ (n * One) \div upper \in Nat
        /\ (n * One) \div upper <= (n * One) \div lower
    <3>1. lower \in Nat \ {0} /\ upper \in Nat \ {0}
      OBVIOUS
    <3>2. PICK m \in Nat : m = n * One
      BY <1>1
    <3>3. m \div lower \in Nat /\ m \div upper \in Nat /\ m \div upper <= m \div lower
      BY <3>1, DivNat, DivLess
    <3> QED BY <3>2, <3>3
  <2>2. PICK i \in Nat, j \in Nat : i = (n * One) \div lower /\ j = (n * One) \div upper /\ j <= i
    BY <2>1
  <2>3. i - j \in Nat
    BY <2>2
  <2> QED BY <2>2, <2>3
<1>4. one \in Nat
  <2>1. n * (at - lower) \in Nat
    BY <1>2
  <2> QED BY <1>1, <2>1, DivNat
<1>5. AmountsForLiquidity(n, lower, upper) = [t \in Tokens |-> IF t = 0 THEN zero ELSE one]
  BY DEF AmountsForLiquidity
<1> HIDE DEF zero, one
<1> QED BY <1>3, <1>4, <1>5

\* Of a range that begins where there is a price.
LEMMA RangeAmounts ==
    ASSUME sqrtPrice \in Nat, NEW n \in Nat, NEW l \in Ticks, NEW u \in Ticks, l < u,
           TickToSqrtPrice(l) > 0
    PROVE  AmountsForLiquidity(n, TickToSqrtPrice(l), TickToSqrtPrice(u)) \in [Tokens -> Nat]
<1>1. l \in Int /\ u \in Int
  BY ClPoolAssumption
<1>2. /\ TickToSqrtPrice(l) \in Nat /\ TickToSqrtPrice(u) \in Nat
      /\ TickToSqrtPrice(l) <= TickToSqrtPrice(u)
  BY <1>1, TickPriceTyped, TickPricesRise
<1> QED BY <1>2, PositionAmounts

\* The growth seen by a range is all or none of it.
LEMMA InsideTyped ==
    ASSUME Balances, NEW t \in Tokens, NEW l, NEW u
    PROVE  GrowthInside(t, l, u) \in Nat
BY DEF GrowthInside, Balances

\* A change of liquidity leaves the growth outside, or drops the entry.
LEMMA UpdateTyped ==
    ASSUME TicksTyped, Outside, NEW l, NEW u, NEW delta, UpdateTicks(l, u, delta)
    PROVE  Outside'
<1> DEFINE after(t) == [tick[t] EXCEPT !.gross = @ + delta,
                                       !.net = IF t = u THEN @ - delta ELSE @ + delta]
           next(t) == IF t \notin {l, u} THEN tick[t]
                      ELSE IF after(t).gross = 0 THEN Unused ELSE after(t)
<1>1. tick' = [t \in Ticks |-> next(t)]
  BY Zenon DEF UpdateTicks
<1>2. ASSUME NEW t \in Ticks PROVE next(t).outside \in [Tokens -> Nat]
  <2>1. after(t).outside = tick[t].outside
    BY DEF TicksTyped
  <2>2. Unused.outside \in [Tokens -> Nat]
    BY DEF Unused
  <2>3. next(t) \in {tick[t], Unused, after(t)}
    BY Zenon
  <2> HIDE DEF next, after
  <2> QED BY <2>1, <2>2, <2>3 DEF Outside
<1> HIDE DEF next
<1> QED BY <1>1, <1>2 DEF Outside

\* add_liquidity
LEMMA AddTyped ==
    ASSUME ClTyped, NEW o \in Owners, NEW l \in Ticks, NEW u \in Ticks, NEW n \in Liquidities,
           AddLiquidity(o, l, u, n)
    PROVE  current' \in Int /\ Balances' /\ Outside' /\ Priced(position')
<1>1. n \in Nat /\ sqrtPrice \in Nat
  BY ClPoolAssumption DEF ClTyped, SwapInv
<1> DEFINE amounts == AmountsForLiquidity(n, TickToSqrtPrice(l), TickToSqrtPrice(u))
           last == [t \in Tokens |-> GrowthInside(t, l, u)]
           opened == [lower |-> l, upper |-> u, liquidity |-> n, last |-> last, nft |-> nextNft]
<1>2. /\ held' = [t \in Tokens |-> held[t] + amounts[t]]
      /\ UpdateTicks(l, u, n) /\ l < u /\ TickToSqrtPrice(l) > 0
      /\ position' = With(position, nextPosition, opened)
      /\ current' = current /\ growth' = growth
  BY Zenon DEF AddLiquidity
<1>3. amounts \in [Tokens -> Nat]
  BY <1>1, <1>2, RangeAmounts
<1>4. last \in [Tokens -> Nat]
  BY InsideTyped DEF ClTyped
<1>5. opened.last = last /\ opened.lower = l
  OBVIOUS
<1> HIDE DEF amounts, last, opened
<1>6. Balances'
  <2>1. growth \in [Tokens -> Nat] /\ held \in [Tokens -> Nat]
    BY DEF ClTyped, Balances
  <2>2. \A t \in Tokens : held[t] + amounts[t] \in Nat
    BY <1>3, <2>1
  <2> QED BY <1>2, <2>1, <2>2 DEF Balances
<1>7. Outside'
  BY <1>2, UpdateTyped DEF ClTyped, SwapInv, TicksInv
<1>8. Priced(position')
  <2> SUFFICES ASSUME NEW id \in DOMAIN position'
               PROVE  position'[id].last \in [Tokens -> Nat] /\ TickToSqrtPrice(position'[id].lower) > 0
    BY DEF Priced
  <2>1. position'[id] = opened \/ (id \in DOMAIN position /\ position'[id] = position[id])
    <3>1. /\ DOMAIN position' = DOMAIN position \cup {nextPosition}
          /\ position'[nextPosition] = opened
          /\ \A y \in DOMAIN position : y # nextPosition => position'[y] = position[y]
      <4>1. position' = [y \in DOMAIN position \cup {nextPosition} |->
                            IF y = nextPosition THEN opened ELSE position[y]]
        BY <1>2 DEF With
      <4> QED BY <4>1
    <3> QED BY <3>1
  <2>2. CASE position'[id] = opened
    <3>1. position'[id].last = last /\ position'[id].lower = l
      BY <1>5, <2>2
    <3> QED BY <1>2, <1>4, <3>1
  <2>3. CASE id \in DOMAIN position /\ position'[id] = position[id]
    BY <2>3 DEF ClTyped, Priced
  <2> QED BY <2>1, <2>2, <2>3
<1> QED BY <1>2, <1>6, <1>7, <1>8 DEF ClTyped

\* swap: the pool has what it gives, and what it takes is a number.
LEMMA SwapTyped ==
    ASSUME ClTyped, NEW d \in BOOLEAN, NEW a \in Inputs, NEW x \in Limits, ClSwap(d, a, x)
    PROVE  current' \in Int /\ Balances' /\ Outside' /\ Priced(position')
<1> DEFINE r == SwapResult(d, a, x)
           input == IF d THEN 0 ELSE 1
           turned(t) == [tick[t] EXCEPT !.outside = [k \in Tokens |-> (growth[k] - @[k]) % Word]]
<1>1. a \in Nat /\ x \in Nat /\ Word \in Nat \ {0}
  BY ClPoolAssumption
<1>2. /\ r.ok /\ current' = SqrtPriceToTick(r.price)
      /\ growth' = [growth EXCEPT ![input] = @ + r.growth]
      /\ tick' = [t \in Ticks |-> IF t \notin r.crossed THEN tick[t] ELSE turned(t)]
      /\ held' = [t \in Tokens |-> IF t = input THEN held[t] + r.paid ELSE held[t] - r.out]
      /\ position' = position
  BY Zenon DEF ClSwap
<1>3. SwapInv /\ growth \in [Tokens -> Nat] /\ held \in [Tokens -> Nat]
  BY DEF ClTyped, Balances
<1>4. PICK end : /\ Running(end, a - CheckedFee(a))
                 /\ r.paid = (a - CheckedFee(a) - end.left) + CheckedFee(a - CheckedFee(a) - end.left)
                 /\ r.price = end.price /\ r.out = end.out /\ r.growth = end.growth
                 /\ end.out <= held[IF d THEN 1 ELSE 0]
  BY <1>1, <1>2, <1>3, SwapLeaves
<1>5. r.paid \in Nat
  <2>1. CheckedFee(a) \in Nat /\ CheckedFee(a) <= a
    BY <1>1, FeeTyped
  <2>2. a - CheckedFee(a) - end.left \in Nat
    BY <1>1, <1>4, <2>1 DEF Running
  <2>3. CheckedFee(a - CheckedFee(a) - end.left) \in Nat
    BY <2>2, FeeTyped
  <2> QED BY <1>4, <2>2, <2>3
<1>6. r.price \in Nat /\ r.out \in Nat /\ r.growth \in Nat /\ r.out <= held[IF d THEN 1 ELSE 0]
  BY <1>4 DEF Running
<1> HIDE DEF r
<1>7. Balances'
  <2>1. growth' \in [Tokens -> Nat]
    BY <1>2, <1>3, <1>6 DEF Tokens
  <2>2. held' \in [Tokens -> Nat]
    <3> SUFFICES ASSUME NEW t \in Tokens
                 PROVE  (IF t = input THEN held[t] + r.paid ELSE held[t] - r.out) \in Nat
      BY <1>2
    <3>1. t # input => t = (IF d THEN 1 ELSE 0)
      BY DEF Tokens
    <3> QED BY <1>3, <1>5, <1>6, <3>1
  <2> QED BY <2>1, <2>2 DEF Balances
<1>8. Outside'
  <2> SUFFICES ASSUME NEW t \in Ticks PROVE tick'[t].outside \in [Tokens -> Nat]
    BY <1>2 DEF Outside
  <2>1. tick[t].outside \in [Tokens -> Nat]
    BY DEF ClTyped, Outside
  <2>2. turned(t).outside = [k \in Tokens |-> (growth[k] - tick[t].outside[k]) % Word]
    BY DEF ClTyped, SwapInv, TicksInv, TicksTyped
  <2>3. \A k \in Tokens : (growth[k] - tick[t].outside[k]) % Word \in Nat
    <3> SUFFICES ASSUME NEW k \in Tokens PROVE (growth[k] - tick[t].outside[k]) % Word \in Nat
      OBVIOUS
    <3>1. growth[k] - tick[t].outside[k] \in Int
      BY <1>3, <2>1
    <3> QED BY <1>1, <3>1
  <2>4. turned(t).outside \in [Tokens -> Nat]
    BY <2>2, <2>3
  <2>5. tick'[t] = tick[t] \/ tick'[t] = turned(t)
    BY <1>2
  <2> HIDE DEF turned
  <2> QED BY <2>1, <2>4, <2>5
<1>9. current' \in Int
  BY <1>2, <1>6, PriceTickTyped
<1> QED BY <1>2, <1>7, <1>8, <1>9 DEF ClTyped

\* collect: only what the pool has is paid.
LEMMA CollectTyped ==
    ASSUME ClTyped, NEW o \in Owners, NEW id \in DOMAIN position, Collect(o, id)
    PROVE  current' \in Int /\ Balances' /\ Outside' /\ Priced(position')
<1> DEFINE p == position[id]
           inside == [t \in Tokens |-> GrowthInside(t, p.lower, p.upper)]
           owed(t) == (((inside[t] - p.last[t]) % Word) * p.liquidity) \div One
<1>1. /\ \A t \in Tokens : owed(t) <= held[t]
      /\ position' = [position EXCEPT ![id].last = inside]
      /\ held' = [t \in Tokens |-> held[t] - owed(t)]
      /\ current' = current /\ growth' = growth /\ tick' = tick
  BY DEF Collect
<1>2. /\ IsPosition(p) /\ p.liquidity \in Nat
  BY DEF ClTyped, SwapInv, TicksInv, NftInv, Entries, IsPosition
<1>3. inside \in [Tokens -> Nat]
  BY InsideTyped DEF ClTyped
<1>4. \A t \in Tokens : owed(t) \in Nat
  <2> SUFFICES ASSUME NEW t \in Tokens PROVE owed(t) \in Nat
    OBVIOUS
  <2>1. Word \in Nat \ {0} /\ One \in Nat \ {0}
    BY ClPoolAssumption
  <2>2. p.last \in [Tokens -> Nat]
    BY DEF ClTyped, Priced
  <2>3. inside[t] - p.last[t] \in Int
    BY <1>3, <2>2
  <2> HIDE DEF p, inside
  <2>4. (inside[t] - p.last[t]) % Word \in Nat
    BY <2>1, <2>3
  <2>5. ((inside[t] - p.last[t]) % Word) * p.liquidity \in Nat
    BY <1>2, <2>4
  <2> QED BY <2>1, <2>5, DivNat
<1>5. Balances'
  <2> HIDE DEF owed
  <2>1. held \in [Tokens -> Nat] /\ growth \in [Tokens -> Nat]
    BY DEF ClTyped, Balances
  <2>2. \A t \in Tokens : held[t] - owed(t) \in Nat
    BY <1>1, <1>4, <2>1
  <2> QED BY <1>1, <2>1, <2>2 DEF Balances
<1>6. Outside'
  BY <1>1 DEF ClTyped, Outside
<1>7. Priced(position')
  <2> SUFFICES ASSUME NEW j \in DOMAIN position'
               PROVE  position'[j].last \in [Tokens -> Nat] /\ TickToSqrtPrice(position'[j].lower) > 0
    BY DEF Priced
  <2> HIDE DEF inside
  <2>1. j \in DOMAIN position
    BY <1>1
  <2>2. position[j] = [lower |-> position[j].lower, upper |-> position[j].upper,
                       liquidity |-> position[j].liquidity, last |-> position[j].last,
                       nft |-> position[j].nft]
    BY <2>1 DEF ClTyped, SwapInv, TicksInv, NftInv, Entries, IsPosition
  <2>3. position'[j].lower = position[j].lower
        /\ position'[j].last \in {position[j].last, inside}
    BY <1>1, <2>1, <2>2
  <2> QED BY <1>3, <2>1, <2>3 DEF ClTyped, Priced
<1> QED BY <1>1, <1>5, <1>6, <1>7 DEF ClTyped

\* remove_liquidity
LEMMA RemoveTyped ==
    ASSUME ClTyped, NEW o \in Owners, NEW id \in DOMAIN position, NEW n \in Liquidities,
           RemoveLiquidity(o, id, n)
    PROVE  current' \in Int /\ Balances' /\ Outside' /\ Priced(position')
<1> DEFINE p == position[id]
           amounts == AmountsForLiquidity(n, TickToSqrtPrice(p.lower), TickToSqrtPrice(p.upper))
           rest == p.liquidity - n
<1>1. /\ \A t \in Tokens : amounts[t] <= held[t]
      /\ held' = [t \in Tokens |-> held[t] - amounts[t]]
      /\ UpdateTicks(p.lower, p.upper, -n)
      /\ position' \in {Without(position, id), [position EXCEPT ![id].liquidity = rest]}
      /\ current' = current /\ growth' = growth
  BY DEF RemoveLiquidity
<1>2. /\ n \in Nat /\ sqrtPrice \in Nat
      /\ p.lower \in Ticks /\ p.upper \in Ticks /\ p.lower < p.upper /\ TickToSqrtPrice(p.lower) > 0
  BY ClPoolAssumption DEF ClTyped, SwapInv, TicksInv, Open, Priced
<1>3. amounts \in [Tokens -> Nat]
  <2> HIDE DEF p
  <2> QED BY <1>2, RangeAmounts
<1>4. Balances'
  <2> HIDE DEF amounts
  <2>1. held \in [Tokens -> Nat] /\ growth \in [Tokens -> Nat]
    BY DEF ClTyped, Balances
  <2>2. \A t \in Tokens : held[t] - amounts[t] \in Nat
    BY <1>1, <1>3, <2>1
  <2> QED BY <1>1, <2>1, <2>2 DEF Balances
<1>5. Outside'
  <2> HIDE DEF p
  <2> QED BY <1>1, UpdateTyped DEF ClTyped, SwapInv, TicksInv
<1>6. Priced(position')
  <2> SUFFICES ASSUME NEW j \in DOMAIN position'
               PROVE  position'[j].last \in [Tokens -> Nat] /\ TickToSqrtPrice(position'[j].lower) > 0
    BY DEF Priced
  <2> HIDE DEF rest
  <2>1. /\ DOMAIN Without(position, id) = DOMAIN position \ {id}
        /\ \A y \in DOMAIN position : y # id => Without(position, id)[y] = position[y]
    BY WithoutEntries
  <2>2. j \in DOMAIN position
    BY <1>1, <2>1
  <2>3. position[j] = [lower |-> position[j].lower, upper |-> position[j].upper,
                       liquidity |-> position[j].liquidity, last |-> position[j].last,
                       nft |-> position[j].nft]
    BY <2>2 DEF ClTyped, SwapInv, TicksInv, NftInv, Entries, IsPosition
  <2>4. position'[j].lower = position[j].lower /\ position'[j].last = position[j].last
    BY <1>1, <2>1, <2>2, <2>3
  <2> QED BY <2>2, <2>4 DEF ClTyped, Priced
<1> QED BY <1>1, <1>4, <1>5, <1>6 DEF ClTyped

\* Every call of the pool.
THEOREM ClTypesInductive == ClTyped /\ [ClNext]_clVars => ClTyped'
<1> SUFFICES ASSUME ClTyped, [ClNext]_clVars PROVE ClTyped'
  OBVIOUS
<1>0. SwapInv'
  BY SwapStep DEF ClTyped
<1>1. ASSUME current' \in Int, Balances', Outside', Priced(position') PROVE ClTyped'
  BY <1>0, <1>1 DEF ClTyped, Priced, TickToSqrtPrice, MaxOf
<1>2. ASSUME UNCHANGED <<current, growth, held, tick, position>> PROVE ClTyped'
  BY <1>1, <1>2 DEF ClTyped, Balances, Outside
<1>3. ASSUME NEW o \in Owners, NEW l \in Ticks, NEW u \in Ticks, NEW n \in Liquidities,
             AddLiquidity(o, l, u, n)
      PROVE  ClTyped'
  BY <1>1, <1>3, AddTyped
<1>4. ASSUME NEW d \in BOOLEAN, NEW a \in Inputs, NEW x \in Limits, ClSwap(d, a, x) PROVE ClTyped'
  BY <1>1, <1>4, SwapTyped
<1>5. ASSUME NEW o \in Owners, NEW id \in DOMAIN position, Collect(o, id) PROVE ClTyped'
  BY <1>1, <1>5, CollectTyped
<1>6. ASSUME NEW o \in Owners, NEW id \in DOMAIN position, NEW n \in Liquidities,
             RemoveLiquidity(o, id, n)
      PROVE  ClTyped'
  BY <1>1, <1>6, RemoveTyped
<1>7. ASSUME NEW from \in Owners, NEW to \in Owners, NEW id \in DOMAIN nft, HandOn(from, to, id)
      PROVE  ClTyped'
  BY <1>2, <1>7 DEF HandOn
<1>8. CASE UNCHANGED clVars
  BY <1>2, <1>8 DEF clVars
<1> QED BY <1>3, <1>4, <1>5, <1>6, <1>7, <1>8 DEF ClNext

\* The pool begins empty.
LEMMA ClTypesInitial == ClInit => ClTyped
<1> SUFFICES ASSUME ClInit PROVE ClTyped
  OBVIOUS
<1>1. SwapInv
  BY TicksInitial, ClPoolAssumption DEF ClInit, SwapInv
<1>2. current \in Int
  BY PriceTickTyped, ClPoolAssumption DEF ClInit
<1>3. Balances
  BY DEF ClInit, Balances
<1>4. Outside
  BY DEF ClInit, Outside, Unused
<1>5. Priced(position)
  <2>1. DOMAIN position = {}
    BY DEF ClInit
  <2> QED BY <2>1 DEF Priced
<1> QED BY <1>1, <1>2, <1>3, <1>4, <1>5 DEF ClTyped

\* What the invariant says of the types.
LEMMA ClTypesMean == ClTyped => ClTypeOK
<1> SUFFICES ASSUME ClTyped PROVE ClTypeOK
  OBVIOUS
<1>1. sqrtPrice \in Nat /\ current \in Int /\ active \in Nat
      /\ growth \in [Tokens -> Nat] /\ held \in [Tokens -> Nat] /\ bitmap \subseteq Ticks
  BY DEF ClTyped, SwapInv, TicksInv, Balances
<1>2. tick \in [Ticks -> [gross : Nat, net : Int, outside : [Tokens -> Nat]]]
  <2>1. \A t \in Ticks : tick[t] \in [gross : Nat, net : Int, outside : [Tokens -> Nat]]
    BY DEF ClTyped, SwapInv, TicksInv, TicksTyped, Outside
  <2> QED BY <2>1 DEF ClTyped, Outside
<1>3. Entries
  BY DEF ClTyped, SwapInv, TicksInv, NftInv
<1>4. DOMAIN position \subseteq 0..(nextPosition - 1) /\ DOMAIN nft \subseteq 0..(nextNft - 1)
  BY <1>3 DEF Entries
<1>5. \A id \in DOMAIN position :
         position[id] \in [lower : Ticks, upper : Ticks, liquidity : Nat,
                           last : [Tokens -> Nat], nft : Nat]
  BY <1>3 DEF Entries, IsPosition, ClTyped, Priced
<1>6. \A id \in DOMAIN nft :
         nft[id] \in [owner : Owners, lower : Ticks, upper : Ticks, liquidity : Nat]
  BY <1>3 DEF Entries, Metadata
<1> QED BY <1>1, <1>2, <1>4, <1>5, <1>6 DEF ClTypeOK

-----------------------------------------------------------------------------
(* Types of the first pool: its calls come in any order and name any range,  *)
(* so nothing relates what they write, but each entry keeps its type.        *)

\* sqrt_price_to_tick answers a tick of the table.
LEMMA PoolTickTyped ==
    ASSUME NEW p \in Nat
    PROVE  PoolTickAt(p) \in DOMAIN TickPrice
<1> DEFINE below == {t \in DOMAIN TickPrice : TickPrice[t] <= p}
<1>1. /\ DOMAIN TickPrice \subseteq Int /\ IsFiniteSet(DOMAIN TickPrice) /\ DOMAIN TickPrice # {}
      /\ below \subseteq DOMAIN TickPrice
  BY PoolAssumption
<1>2. IsFiniteSet(below) /\ below \subseteq Int
  BY <1>1, FS_Subset
<1>3. Min(DOMAIN TickPrice) \in DOMAIN TickPrice
  BY <1>1, Extremes
<1>4. below # {} => Max(below) \in below
  <2> HIDE DEF below
  <2> QED BY <1>2, Extremes
<1>5. PoolTickAt(p) = IF below = {} THEN Min(DOMAIN TickPrice) ELSE Max(below)
  BY DEF PoolTickAt
<1> HIDE DEF below
<1> QED BY <1>1, <1>3, <1>4, <1>5

TickCounters == [gross : Nat, net : Int, outside : Int, initialized : BOOLEAN, stored : BOOLEAN]

\* Whatever ticks a range names, what grew within it is a number.
LEMMA GrowthInRangeTyped ==
    ASSUME state.tick \in Int, state.growth \in Int, NEW tk \in [PoolTicks -> TickCounters],
           NEW l \in PoolTicks, NEW u \in PoolTicks
    PROVE  GrowthInRange(tk, l, u) \in Int
<1>1. tk[l].outside \in Int /\ tk[u].outside \in Int
  BY DEF TickCounters
<1> QED BY <1>1 DEF GrowthInRange

\* The state of an untyped pool is what is read from it.
LEMMA PoolReads ==
    ASSUME PoolTypeOK
    PROVE  /\ state.price \in Nat /\ state.tick \in Int /\ state.tick \in DOMAIN TickPrice
           /\ state.liquidity \in Nat /\ state.growth \in Nat
           /\ state = [price |-> state.price, tick |-> state.tick,
                       liquidity |-> state.liquidity, growth |-> state.growth]
           /\ ticks \in [PoolTicks -> TickCounters]
BY PoolAssumption DEF PoolTypeOK, TickCounters

\* What a change of a range leaves.
LEMMA RangeTyped ==
    ASSUME PoolTypeOK, NEW l \in PoolTicks, NEW u \in PoolTicks, NEW delta \in Int,
           l < u, UpdateRange(l, u, delta)
    PROVE  ticks' \in [PoolTicks -> TickCounters] /\ bits' \subseteq PoolTicks
<1> DEFINE low == UpdateTick(ticks[l], l, delta, FALSE)
           high == UpdateTick(ticks[u], u, delta, TRUE)
<1>0. l # u
  BY PoolTicksFinite
<1>1. /\ ticks[l].gross + delta >= 0 /\ ticks[u].gross + delta >= 0
      /\ ticks' = [ticks EXCEPT ![l] = low, ![u] = high]
  BY <1>0, PoolReads DEF UpdateRange
<1>2. ASSUME NEW info \in TickCounters, NEW t, NEW upper \in BOOLEAN, info.gross + delta >= 0
      PROVE  UpdateTick(info, t, delta, upper) \in TickCounters
  <2>1. info.gross + delta \in Nat /\ info.net - delta \in Int /\ info.net + delta \in Int
        /\ info.outside \in Int /\ state.growth \in Int
    BY <1>2, PoolReads DEF TickCounters
  <2> QED BY <2>1 DEF UpdateTick, TickCounters
<1>3. low \in TickCounters /\ high \in TickCounters
  BY <1>1, <1>2, PoolReads
<1> HIDE DEF low, high
<1>4. bits' \subseteq PoolTicks
  BY DEF UpdateRange, PoolTypeOK
<1> QED BY <1>1, <1>3, <1>4, PoolReads

\* mint
LEMMA MintTyped ==
    ASSUME PoolTypeOK, NEW id \in PositionIds, NEW l \in PoolTicks, NEW u \in PoolTicks,
           NEW n \in PoolLiquidities, PoolMint(id, l, u, n)
    PROVE  PoolTypeOK'
<1> DEFINE fresh == [liquidity |-> n, last |-> GrowthInRange(ticks', l, u)]
           more == [positions[id] EXCEPT !.liquidity = @ + n]
           entry == IF id \in DOMAIN positions THEN more ELSE fresh
<1>1. n \in Nat /\ n > 0 /\ n \in Int /\ l < u /\ UpdateRange(l, u, n)
      /\ state' = [state EXCEPT !.liquidity = IF InPool(l, u) THEN @ + n ELSE @]
      /\ positions' = Put(positions, id, entry)
  BY PoolAssumption DEF PoolMint
<1>2. ticks' \in [PoolTicks -> TickCounters] /\ bits' \subseteq PoolTicks
  BY <1>1, RangeTyped
<1>3. state' \in [price : Nat, tick : DOMAIN TickPrice, liquidity : Nat, growth : Nat]
  BY <1>1, PoolReads
<1>4. entry \in [liquidity : Nat \ {0}, last : Int]
  <2>1. GrowthInRange(ticks', l, u) \in Int
    BY <1>2, PoolReads, GrowthInRangeTyped
  <2>2. id \in DOMAIN positions => positions[id] \in [liquidity : Nat \ {0}, last : Int]
    BY DEF PoolTypeOK
  <2> QED BY <1>1, <2>1, <2>2
<1> HIDE DEF entry
<1>5. /\ DOMAIN positions' = DOMAIN positions \cup {id}
      /\ \A i \in DOMAIN positions' : positions'[i] \in [liquidity : Nat \ {0}, last : Int]
  BY <1>1, <1>4 DEF Put, PoolTypeOK
<1> QED BY <1>2, <1>3, <1>5 DEF PoolTypeOK, TickCounters

\* burn
LEMMA BurnTyped ==
    ASSUME PoolTypeOK, NEW id \in PositionIds, NEW l \in PoolTicks, NEW u \in PoolTicks,
           NEW n \in PoolLiquidities, PoolBurn(id, l, u, n)
    PROVE  PoolTypeOK'
<1> DEFINE less == [positions EXCEPT ![id].liquidity = @ - n]
           gone == [i \in DOMAIN positions \ {id} |-> positions[i]]
<1>1. n \in Nat /\ -n \in Int /\ l < u /\ UpdateRange(l, u, -n) /\ id \in DOMAIN positions
      /\ (InPool(l, u) => state.liquidity >= n)
      /\ state' = [state EXCEPT !.liquidity = IF InPool(l, u) THEN @ - n ELSE @]
      /\ positions[id].liquidity >= n
      /\ positions' = IF positions[id].liquidity = n THEN gone ELSE less
  BY PoolAssumption DEF PoolBurn
<1>2. ticks' \in [PoolTicks -> TickCounters] /\ bits' \subseteq PoolTicks
  BY <1>1, RangeTyped
<1>3. state' \in [price : Nat, tick : DOMAIN TickPrice, liquidity : Nat, growth : Nat]
  BY <1>1, PoolReads
<1>4. DOMAIN positions \subseteq PositionIds
      /\ \A i \in DOMAIN positions : positions[i] \in [liquidity : Nat \ {0}, last : Int]
  BY DEF PoolTypeOK
<1>5. /\ DOMAIN positions' \subseteq PositionIds
      /\ \A i \in DOMAIN positions' : positions'[i] \in [liquidity : Nat \ {0}, last : Int]
  <2>1. CASE positions[id].liquidity = n
    BY <1>1, <1>4, <2>1
  <2>2. CASE positions[id].liquidity # n
    <3>1. positions[id].liquidity - n \in Nat \ {0}
      BY <1>1, <1>4, <2>2
    <3>2. positions' = less
      BY <1>1, <2>2
    <3>3. \A i \in DOMAIN positions :
             less[i] = IF i = id THEN [positions[id] EXCEPT !.liquidity = @ - n] ELSE positions[i]
      BY <1>1
    <3>4. [positions[id] EXCEPT !.liquidity = @ - n] \in [liquidity : Nat \ {0}, last : Int]
      BY <1>1, <1>4, <3>1
    <3> QED BY <1>4, <3>2, <3>3, <3>4
  <2> QED BY <2>1, <2>2
<1> QED BY <1>2, <1>3, <1>5 DEF PoolTypeOK, TickCounters

\* collect
LEMMA PoolCollectTyped ==
    ASSUME PoolTypeOK, NEW id, NEW l \in PoolTicks, NEW u \in PoolTicks, PoolCollect(id, l, u)
    PROVE  PoolTypeOK'
<1> DEFINE seen == GrowthInRange(ticks, l, u)
<1>1. positions' = [positions EXCEPT ![id].last = seen] /\ id \in DOMAIN positions
      /\ UNCHANGED <<state, ticks, bits>>
  BY DEF PoolCollect
<1>2. seen \in Int
  BY PoolReads, GrowthInRangeTyped
<1> HIDE DEF seen
<1>3. /\ DOMAIN positions' \subseteq PositionIds
      /\ \A i \in DOMAIN positions' : positions'[i] \in [liquidity : Nat \ {0}, last : Int]
  BY <1>1, <1>2 DEF PoolTypeOK
<1> QED BY <1>1, <1>3 DEF PoolTypeOK

\* cross_tick
LEMMA CrossTyped ==
    ASSUME PoolTypeOK, NEW t \in PoolTicks, CrossTick(t)
    PROVE  PoolTypeOK'
<1>1. /\ state' = [state EXCEPT !.liquidity = AtLeast0(@ + ticks[t].net)]
      /\ ticks' = IF ticks[t].stored THEN [ticks EXCEPT ![t].outside = state.growth - @]
                  ELSE ticks
      /\ UNCHANGED <<bits, positions>>
  BY DEF CrossTick
<1>2. ticks[t].net \in Int /\ ticks[t].outside \in Int /\ ticks[t] \in TickCounters
  BY PoolReads DEF TickCounters
<1>3. AtLeast0(state.liquidity + ticks[t].net) \in Nat /\ state.growth - ticks[t].outside \in Int
  BY <1>2, PoolReads DEF AtLeast0
<1>4. state' \in [price : Nat, tick : DOMAIN TickPrice, liquidity : Nat, growth : Nat]
  BY <1>1, <1>3, PoolReads
<1>5. ticks' \in [PoolTicks -> TickCounters]
  <2>1. ticks' \in {ticks, [ticks EXCEPT ![t] = [ticks[t] EXCEPT !.outside = state.growth - ticks[t].outside]]}
    BY <1>1, PoolReads
  <2>2. [ticks[t] EXCEPT !.outside = state.growth - ticks[t].outside] \in TickCounters
    BY <1>2, <1>3 DEF TickCounters
  <2> QED BY <2>1, <2>2, PoolReads
<1> QED BY <1>1, <1>4, <1>5 DEF PoolTypeOK, TickCounters

\* swap moves the price to a number, whichever way.
LEMMA NextPoolPriceTyped ==
    ASSUME PoolTypeOK, NEW d \in BOOLEAN, NEW n \in Nat
    PROVE  NextPrice(d, n) \in Nat
<1> DEFINE p == state.price
           k == state.liquidity
<1>1. p \in Nat /\ k \in Nat /\ PoolOne \in Nat \ {0}
  BY PoolReads, PoolAssumption
<1>2. NextPrice(d, n) = IF k = 0 THEN p
                        ELSE IF d THEN (k * p) \div (k + (n * p) \div PoolOne)
                        ELSE p + (n * PoolOne) \div k
  BY DEF NextPrice
<1> HIDE DEF p, k
<1>3. k * p \in Nat /\ n * p \in Nat /\ n * PoolOne \in Nat
  BY <1>1
<1>4. CASE k # 0
  <2>1. k \in Nat \ {0}
    BY <1>1, <1>4
  <2>2. (n * p) \div PoolOne \in Nat /\ (n * PoolOne) \div k \in Nat
    BY <1>1, <1>3, <2>1, DivNat
  <2>3. PICK e \in Nat \ {0} : e = k + (n * p) \div PoolOne
    <3>1. PICK j \in Nat : j = (n * p) \div PoolOne
      BY <2>2
    <3>2. k + j \in Nat \ {0}
      BY <2>1
    <3> QED BY <3>1, <3>2
  <2>4. (k * p) \div e \in Nat
    BY <1>3, DivNat
  <2> QED BY <1>1, <1>2, <1>4, <2>2, <2>3, <2>4
<1> QED BY <1>1, <1>2, <1>4

LEMMA PoolSwapTyped ==
    ASSUME PoolTypeOK, NEW d \in BOOLEAN, NEW a \in PoolInputs, NEW x \in PoolLimits,
           PoolSwap(d, a, x)
    PROVE  PoolTypeOK'
<1> DEFINE fee == a \div FeePart
           next == NextPrice(d, a - fee)
           ends == IF d THEN Max({next, x}) ELSE Min({next, x})
           grown == IF state.liquidity > 0 THEN state.growth + fee \div state.liquidity
                    ELSE state.growth
<1>1. /\ state' = [state EXCEPT !.price = ends, !.tick = PoolTickAt(ends), !.growth = grown]
      /\ UNCHANGED <<ticks, bits, positions>>
  <2>1. state' = [state EXCEPT !.price = ends, !.tick = PoolTickAt(ends),
                               !.growth = IF state.liquidity > 0
                                          THEN @ + fee \div state.liquidity ELSE @]
    BY Zenon DEF PoolSwap
  <2> HIDE DEF ends, fee
  <2>2. UNCHANGED <<ticks, bits, positions>>
    BY Zenon DEF PoolSwap
  <2> QED BY <2>1, <2>2, PoolReads
<1>2. a \in Nat /\ x \in Nat /\ FeePart \in Nat \ {0}
  BY PoolAssumption
<1>3. fee \in Nat /\ a - fee \in Nat
  <2>1. fee \in Nat /\ FeePart * fee <= a
    BY <1>2, DivNat, DivBounds
  <2> HIDE DEF fee
  <2>2. fee <= FeePart * fee
    BY <1>2, <2>1
  <2> QED BY <1>2, <2>1, <2>2
<1>4. next \in Nat
  BY <1>3, NextPoolPriceTyped
<1> HIDE DEF next
<1>5. ends \in Nat
  <2>1. IsFiniteSet({next, x})
    <3>1. IsFiniteSet({next})
      BY FS_Singleton
    <3>2. IsFiniteSet({next} \cup {x})
      BY <3>1, FS_AddElement
    <3>3. {next} \cup {x} = {next, x}
      OBVIOUS
    <3> QED BY <3>2, <3>3
  <2>2. Max({next, x}) \in {next, x} /\ Min({next, x}) \in {next, x}
    BY <1>2, <1>4, <2>1, Extremes
  <2> QED BY <1>2, <1>4, <2>2
<1>6. grown \in Nat
  <2>1. CASE state.liquidity > 0
    <3>1. state.liquidity \in Nat \ {0} /\ state.growth \in Nat
      BY <2>1, PoolReads
    <3>2. fee \div state.liquidity \in Nat
      BY <1>3, <3>1, DivNat
    <3> QED BY <2>1, <3>1, <3>2
  <2>2. CASE ~(state.liquidity > 0)
    BY <2>2, PoolReads
  <2> QED BY <2>1, <2>2
<1>7. PoolTickAt(ends) \in DOMAIN TickPrice
  BY <1>5, PoolTickTyped
<1> HIDE DEF ends, grown
<1>8. state' \in [price : Nat, tick : DOMAIN TickPrice, liquidity : Nat, growth : Nat]
  BY <1>1, <1>5, <1>6, <1>7, PoolReads
<1> QED BY <1>1, <1>8 DEF PoolTypeOK

\* Every entry point, in any order.
THEOREM PoolTypesInductive == PoolTypeOK /\ [PoolNext]_poolVars => PoolTypeOK'
<1> SUFFICES ASSUME PoolTypeOK, [PoolNext]_poolVars PROVE PoolTypeOK'
  OBVIOUS
<1>1. ASSUME NEW id \in PositionIds, NEW l \in PoolTicks, NEW u \in PoolTicks,
             NEW n \in PoolLiquidities, PoolMint(id, l, u, n)
      PROVE  PoolTypeOK'
  BY <1>1, MintTyped
<1>2. ASSUME NEW id \in PositionIds, NEW l \in PoolTicks, NEW u \in PoolTicks,
             NEW n \in PoolLiquidities, PoolBurn(id, l, u, n)
      PROVE  PoolTypeOK'
  BY <1>2, BurnTyped
<1>3. ASSUME NEW id \in PositionIds, NEW l \in PoolTicks, NEW u \in PoolTicks, PoolCollect(id, l, u)
      PROVE  PoolTypeOK'
  BY <1>3, PoolCollectTyped
<1>4. ASSUME NEW t \in PoolTicks, CrossTick(t) PROVE PoolTypeOK'
  BY <1>4, CrossTyped
<1>5. ASSUME NEW t \in PoolTicks, FlipTick(t) PROVE PoolTypeOK'
  BY <1>5 DEF FlipTick, PoolTypeOK
<1>6. ASSUME NEW t \in DOMAIN TickPrice, SetPrice(TickPrice[t]) PROVE PoolTypeOK'
  <2>1. TickPrice[t] \in Nat /\ PoolTickAt(TickPrice[t]) \in DOMAIN TickPrice
    BY PoolAssumption, PoolTickTyped
  <2>2. state' = [state EXCEPT !.price = TickPrice[t], !.tick = PoolTickAt(TickPrice[t])]
        /\ UNCHANGED <<ticks, bits, positions>>
    BY <1>6 DEF SetPrice
  <2>3. state' \in [price : Nat, tick : DOMAIN TickPrice, liquidity : Nat, growth : Nat]
    BY <2>1, <2>2, PoolReads
  <2> QED BY <2>2, <2>3 DEF PoolTypeOK
<1>7. ASSUME NEW d \in BOOLEAN, NEW a \in PoolInputs, NEW x \in PoolLimits, PoolSwap(d, a, x)
      PROVE  PoolTypeOK'
  BY <1>7, PoolSwapTyped
<1>8. CASE UNCHANGED poolVars
  BY <1>8 DEF poolVars, PoolTypeOK
<1> QED BY <1>1, <1>2, <1>3, <1>4, <1>5, <1>6, <1>7, <1>8 DEF PoolNext

\* A new pool.
LEMMA PoolTypesInitial == PoolInit => PoolTypeOK
<1> SUFFICES ASSUME PoolInit PROVE PoolTypeOK
  OBVIOUS
<1>1. PoolTickAt(PoolOpening) \in DOMAIN TickPrice /\ PoolOpening \in Nat
  BY PoolAssumption, PoolTickTyped
<1> QED BY <1>1 DEF PoolInit, PoolTypeOK

-----------------------------------------------------------------------------
(* Types of the factory, and of all contracts together. *)

FactoryTyped == KeysSorted /\ FactoryTypeOK

\* What is deployed is of the code the owner set.
LEMMA FactoryTypesInductive == FactoryTyped /\ [FactoryNext]_factoryVars => FactoryTyped'
<1> SUFFICES ASSUME FactoryTyped, [FactoryNext]_factoryVars PROVE FactoryTyped'
  OBVIOUS
<1>0. KeysSorted'
  BY KeysStaySorted DEF FactoryTyped
<1>1. ASSUME NEW a \in FactoryTokens, NEW b \in FactoryTokens,
             NEW f \in FeeTiers \cup {Unsupported}, CreatePool(a, b, f)
      PROVE  FactoryTyped'
  <2> DEFINE pair == NormalizePair(a, b)
             key == [token_a |-> pair[1], token_b |-> pair[2], fee_tier |-> f]
  <2>1. /\ deployed' = [k \in DOMAIN deployed \cup {key} |->
                           IF k = key THEN wasmHash ELSE deployed[k]]
        /\ UNCHANGED <<ownerAccount, wasmHash>>
    BY <1>1 DEF CreatePool
  <2> HIDE DEF key
  <2>2. \A k \in DOMAIN deployed' : deployed'[k] \in Hashes
    BY <2>1 DEF FactoryTyped, FactoryTypeOK
  <2> QED BY <1>0, <2>1, <2>2 DEF FactoryTyped, FactoryTypeOK, KeysSorted
<1>2. ASSUME NEW c \in Accounts, NEW h \in Hashes, SetPoolWasmHash(c, h) PROVE FactoryTyped'
  BY <1>0, <1>2 DEF SetPoolWasmHash, FactoryTyped, FactoryTypeOK
<1>3. ASSUME NEW c \in Accounts, NEW o \in Accounts, SetOwner(c, o) PROVE FactoryTyped'
  BY <1>0, <1>3 DEF SetOwner, FactoryTyped, FactoryTypeOK
<1>4. CASE UNCHANGED factoryVars
  BY <1>0, <1>4 DEF factoryVars, FactoryTyped, FactoryTypeOK
<1> QED BY <1>1, <1>2, <1>3, <1>4 DEF FactoryNext

\* What each contract keeps beside its types.
ContractsTyped == /\ RingInv /\ ClTyped /\ PoolTypeOK /\ FactoryTyped
                  /\ FeeInv /\ probe \in Nat /\ BitmapInv

\* No call, of any contract, with any argument, writes an entry that is not of its
\* type: no balance is overdrawn, no counter falls below zero and no quotient is by
\* zero, whatever the constants.
THEOREM ContractsTypeCorrect == ContractsSpec => []ContractsTypeOK
<1>0. \A n \in Probes : n \in Nat
  BY MathAssumption
<1>1. ContractsInit => ContractsTyped
  <2> SUFFICES ASSUME ContractsInit PROVE ContractsTyped
    OBVIOUS
  <2>1. OracleInit /\ ClInit /\ PoolInit /\ FactoryInit /\ FeeInit /\ BitmapInit
    BY DEF ContractsInit
  <2>2. probe \in Nat
    BY <1>0 DEF ContractsInit, MathInit
  <2>3. FactoryTyped
    BY <2>1 DEF FactoryInit, FactoryTyped, KeysSorted, FactoryTypeOK
  <2> QED BY <2>1, <2>2, <2>3, RingInvInit, ClTypesInitial, PoolTypesInitial, FeeInitial,
             BitmapInitial DEF ContractsTyped
<1>2. ContractsTyped /\ [ContractsNext]_contractVars => ContractsTyped'
  <2> SUFFICES ASSUME ContractsTyped, [ContractsNext]_contractVars PROVE ContractsTyped'
    OBVIOUS
  <2>1. /\ [OracleNext]_vars /\ [ClNext]_clVars /\ [PoolNext]_poolVars
        /\ [FactoryNext]_factoryVars /\ [FeeNext]_feeVars /\ [BitmapNext]_bitmapVars
    BY DEF ContractsNext, contractVars
  <2>2. probe' \in Nat
    BY <1>0 DEF ContractsTyped, ContractsNext, contractVars, MathNext
  <2> QED BY <2>1, <2>2, RingInvStep, ClTypesInductive, PoolTypesInductive,
             FactoryTypesInductive, FeeInductive, BitmapInductive DEF ContractsTyped
<1>3. ContractsTyped => ContractsTypeOK
  BY ClTypesMean DEF ContractsTyped, RingInv, FactoryTyped, FeeInv, BitmapInv, ContractsTypeOK
<1> QED BY <1>1, <1>2, <1>3, PTL DEF ContractsSpec

-----------------------------------------------------------------------------
(* Roots and prices. A loop is shown to end by what each turn makes smaller,  *)
(* and what it keeps true until then is true of its answer.                   *)

\* K holds at every turn, each makes size smaller, and the last answers in A.
Keeps(K, A, g, H, size, ends, res, next) ==
    /\ K \subseteq H /\ size \in [H -> Nat] /\ Loops(g, H, ends, res, next)
    /\ \A h \in K : ends[h] => res[h] \in A
    /\ \A h \in K : ~ends[h] => next[h] \in K /\ size[next[h]] < size[h]

\* What every turn keeps is true of the answer.
LEMMA LoopKeeps ==
    ASSUME NEW K, NEW A, NEW g, NEW H, NEW size, NEW ends, NEW res, NEW next,
           Keeps(K, A, g, H, size, ends, res, next)
    PROVE  \A h \in K : g[h] \in A
<1> DEFINE S == {n \in Nat : \A h \in K : size[h] < n => g[h] \in A}
<1>0. \A h \in K : size[h] \in Nat /\ g[h] = IF ends[h] THEN res[h] ELSE g[next[h]]
  BY DEF Loops, Keeps
<1>00. \A h \in K : /\ ends[h] => res[h] \in A
                    /\ ~ends[h] => next[h] \in K /\ size[next[h]] < size[h]
  BY DEF Keeps
<1>1. 0 \in S
  BY <1>0
<1>2. ASSUME NEW n \in S \cap Nat PROVE n + 1 \in S
  <2> SUFFICES ASSUME NEW h \in K, size[h] < n + 1 PROVE g[h] \in A
    OBVIOUS
  <2>1. CASE ends[h]
    BY <1>0, <1>00, <2>1
  <2>2. CASE ~ends[h]
    <3>1. next[h] \in K /\ size[next[h]] < size[h] /\ size[next[h]] \in Nat /\ size[h] \in Nat
      BY <1>0, <1>00, <2>2
    <3>2. size[next[h]] < n
      BY <3>1
    <3>3. g[next[h]] \in A
      BY <3>1, <3>2
    <3> QED BY <1>0, <2>2, <3>3
  <2> QED BY <2>1, <2>2
<1>3. Nat \subseteq S
  <2> HIDE DEF S
  <2> QED BY <1>1, <1>2, Climb
<1>4. ASSUME NEW h \in K PROVE g[h] \in A
  <2>1. size[h] + 1 \in Nat /\ size[h] < size[h] + 1
    BY <1>0
  <2>2. size[h] + 1 \in S
    BY <1>3, <2>1
  <2> QED BY <2>1, <2>2
<1> QED BY <1>4

\* Products of numbers are ordered as the numbers are.
LEMMA ProductsOrdered ==
    ASSUME NEW a \in Nat, NEW b \in Nat, NEW c \in Nat, NEW d \in Nat, a <= b, c <= d
    PROVE  a * c <= b * d /\ a * c \in Nat /\ b * d \in Nat
<1>1. a * c <= b * c
  OBVIOUS
<1>2. b * c <= b * d
  OBVIOUS
<1> QED BY <1>1, <1>2

IsRoot(r, n) == r \in Nat /\ r * r <= n /\ n < (r + 1) * (r + 1)

\* A number has one root.
LEMMA OneRoot ==
    ASSUME NEW n \in Nat, NEW r, NEW t, IsRoot(r, n), IsRoot(t, n)
    PROVE  r = t
<1>1. r \in Nat /\ t \in Nat /\ r + 1 \in Nat /\ t + 1 \in Nat
  BY DEF IsRoot
<1>2. ~(r + 1 <= t)
  <2> SUFFICES ASSUME r + 1 <= t PROVE FALSE
    OBVIOUS
  <2>1. (r + 1) * (r + 1) <= t * t
    BY <1>1, ProductsOrdered
  <2>2. PICK a \in Nat, b \in Nat : a = (r + 1) * (r + 1) /\ b = t * t
    BY <1>1, ProductsOrdered
  <2> QED BY <2>1, <2>2 DEF IsRoot
<1>3. ~(t + 1 <= r)
  <2> SUFFICES ASSUME t + 1 <= r PROVE FALSE
    OBVIOUS
  <2>1. (t + 1) * (t + 1) <= r * r
    BY <1>1, ProductsOrdered
  <2>2. PICK a \in Nat, b \in Nat : a = (t + 1) * (t + 1) /\ b = r * r
    BY <1>1, ProductsOrdered
  <2> QED BY <2>1, <2>2 DEF IsRoot
<1> QED BY <1>1, <1>2, <1>3

\* The mean of a number and the quotient by it is not below the root.
LEMMA MeanAboveRoot ==
    ASSUME NEW n \in Nat, NEW x \in Nat \ {0}, NEW y \in Nat, y = (x + n \div x) \div 2
    PROVE  n < (y + 1) * (y + 1)
<1>1. PICK q \in Nat : q = n \div x /\ n < x * q + x
  BY DivNat, DivBounds
<1>2. x + q < 2 * y + 2
  <2>1. x + q \in Nat /\ y = (x + q) \div 2
    BY <1>1
  <2> QED BY <2>1
<1>3. PICK b \in Nat : b = q + 1
  BY <1>1
<1>4. x * b = x * q + x
  BY <1>1, <1>3
<1>5. PICK c \in Nat : c = y + 1
  OBVIOUS
<1>6. x + b <= 2 * c
  BY <1>1, <1>2, <1>3, <1>5
<1>7. (x + b) * (x + b) <= (2 * c) * (2 * c)
  BY <1>6, ProductsOrdered
<1>8. (x + b) * (x + b) = 4 * (x * b) + (x - b) * (x - b)
  OBVIOUS
<1>9. (x - b) * (x - b) >= 0
  OBVIOUS
<1>10. (2 * c) * (2 * c) = 4 * (c * c)
  OBVIOUS
<1>11. x * b \in Nat /\ c * c \in Nat /\ (x - b) * (x - b) \in Int
  OBVIOUS
<1>12. x * b <= c * c
  <2>1. PICK p \in Nat, s \in Nat, e \in Int : p = x * b /\ s = c * c /\ e = (x - b) * (x - b)
    BY <1>11
  <2>2. 4 * p + e <= 4 * s /\ e >= 0
    BY <1>7, <1>8, <1>9, <1>10, <2>1
  <2> QED BY <2>1, <2>2
<1>13. n < x * b
  BY <1>1, <1>4
<1>14. n < c * c
  BY <1>11, <1>12, <1>13
<1> QED BY <1>5, <1>14

\* A number is not below the root while its successor's square is above.
Above(x, n) == n < (x + 1) * (x + 1)

\* The last of falling means is the root.
LEMMA LastMean ==
    ASSUME NEW n \in Nat, NEW x \in Nat \ {0}, ~((x + n \div x) \div 2 < x), Above(x, n)
    PROVE  IsRoot(x, n)
<1>1. PICK q \in Nat : q = n \div x /\ x * q <= n
  BY DivNat, DivBounds
<1>2. q >= x
  <2>1. ~((x + q) \div 2 < x)
    BY <1>1
  <2> QED BY <2>1
<1>3. x * x <= x * q /\ x * x \in Nat /\ x * q \in Nat
  BY <1>2, ProductsOrdered
<1>4. x * x <= n
  BY <1>1, <1>3
<1> QED BY <1>4 DEF IsRoot, Above

Mean(n, x) == (x + n \div x) \div 2

\* Means of numbers from 1 to n are such numbers.
LEMMA MeanTyped ==
    ASSUME NEW n \in Nat, NEW x \in 1..n
    PROVE  Mean(n, x) \in Nat /\ Mean(n, x) >= 1
<1>1. x \in Nat \ {0} /\ x * 1 <= n
  OBVIOUS
<1>2. n \div x \in Nat /\ n \div x >= 1
  BY <1>1, DivNat, DivAtLeast
<1>3. PICK q \in Nat : q = n \div x /\ q >= 1
  BY <1>2
<1>4. (x + q) \div 2 \in Nat /\ (x + q) \div 2 >= 1
  BY <1>1, <1>3
<1> QED BY <1>3, <1>4 DEF Mean

\* isqrt ends, and with the root.
LEMMA IsqrtIsRoot ==
    ASSUME NEW n \in Nat
    PROVE  IsRoot(Isqrt(n), n)
<1>1. CASE n = 0
  <2>1. Isqrt(n) = 0
    BY <1>1 DEF Isqrt
  <2> QED BY <1>1, <2>1 DEF IsRoot
<1>2. CASE n # 0
  <2> DEFINE H == 1..n
             Solves(g) == g = [x \in H |-> LET y == (x + n \div x) \div 2
                                           IN IF y < x THEN g[y] ELSE x]
             root == CHOOSE g : Solves(g)
             ends == [x \in H |-> ~(Mean(n, x) < x)]
             res == [x \in H |-> x]
             next == [x \in H |-> Mean(n, x)]
             size == [x \in H |-> x]
  <2>0. Isqrt(n) = root[n]
    BY <1>2, Zenon DEF Isqrt
  <2>1. n \in H /\ \A x \in H : x \in Nat \ {0}
    BY <1>2
  <2>2. \A x \in H : ends[x] = ~(Mean(n, x) < x) /\ res[x] = x /\ next[x] = Mean(n, x) /\ size[x] = x
    BY Zenon
  <2>3. \A x \in H : Mean(n, x) < x => Mean(n, x) \in H
    BY MeanTyped
  <2>4. /\ size \in [H -> 0..n] /\ size \in [H -> Nat]
        /\ res \in [H -> H] /\ ends \in [H -> BOOLEAN]
    BY <1>2
  <2> HIDE DEF ends, res, next, size
  <2>5. \A x \in H : ~ends[x] => next[x] \in H /\ size[next[x]] < size[x]
    BY <2>2, <2>3
  <2>6. PICK g \in [H -> H] : Loops(g, H, ends, res, next)
    <3> HIDE DEF H
    <3> QED BY <2>4, <2>5, LoopEnds, Zenon
  <2>7. Solves(g)
    <3> HIDE DEF H
    <3>1. \A x \in H : g[x] = IF Mean(n, x) < x THEN g[Mean(n, x)] ELSE x
      BY <2>2, <2>6, Zenon DEF Loops
    <3>2. g = [x \in H |-> g[x]]
      BY <2>6
    <3> QED BY <3>1, <3>2, Zenon DEF Mean
  <2>8. Solves(root)
    BY <2>7, Zenon
  <2> HIDE DEF root
  <2>9. Loops(root, H, ends, res, next)
    <3> HIDE DEF H
    <3>1. \A x \in H : root[x] = IF Mean(n, x) < x THEN root[Mean(n, x)] ELSE x
      BY <2>8 DEF Mean
    <3> QED BY <2>2, <3>1, Zenon DEF Loops
  <2> DEFINE K == {x \in H : Above(x, n)}
             A == {r \in Nat : IsRoot(r, n)}
  <2>10. \A x \in K : ends[x] => res[x] \in A
    BY <2>1, <2>2, LastMean DEF Mean
  <2>11. \A x \in K : ~ends[x] => next[x] \in K /\ size[next[x]] < size[x]
    <3> SUFFICES ASSUME NEW x \in H, ~ends[x] PROVE next[x] \in K /\ size[next[x]] < size[x]
      OBVIOUS
    <3>1. next[x] \in H /\ size[next[x]] < size[x] /\ next[x] = Mean(n, x) /\ x \in Nat \ {0}
      BY <2>1, <2>2, <2>5
    <3>2. Mean(n, x) \in Nat
      BY MeanTyped
    <3>3. Above(Mean(n, x), n)
      BY <3>1, <3>2, MeanAboveRoot DEF Mean, Above
    <3> QED BY <3>1, <3>3
  <2>12. n \in K
    <3>1. PICK s \in Nat : s = (n + 1) * (n + 1) /\ n + 1 <= s
      <4>1. (n + 1) * 1 <= (n + 1) * (n + 1) /\ (n + 1) * (n + 1) \in Nat
        BY ProductsOrdered
      <4> QED BY <4>1
    <3> QED BY <2>1, <3>1 DEF Above
  <2>13. \A x \in K : root[x] \in A
    <3>1. K \subseteq H
      OBVIOUS
    <3>2. size \in [H -> Nat]
      BY <2>4
    <3> HIDE DEF K, A, H
    <3>3. Keeps(K, A, root, H, size, ends, res, next)
      BY <2>9, <2>10, <2>11, <3>1, <3>2 DEF Keeps
    <3> QED BY <3>3, LoopKeeps
  <2> QED BY <2>0, <2>12, <2>13
<1> QED BY <1>1, <1>2

\* The halves integer_sqrt is left with.
Halved(n) == [low : 1..(n + 1), high : 0..n, result : 0..n]
Mid(s) == (s.low + s.high) \div 2
SquareOf(m) == IF m * m < MathWord THEN m * m ELSE MathWord - 1
Upper(s) == [low |-> Mid(s) + 1, high |-> s.high, result |-> Mid(s)]
Lower(s) == [low |-> s.low, high |-> Mid(s) - 1, result |-> s.result]
Size(s) == IF s.low > s.high THEN 0 ELSE s.high - s.low + 1

\* Saturation does not change how a square compares.
LEMMA SquareCompares ==
    ASSUME NEW n \in Nat, n <= MathWord - 2, NEW m \in Nat
    PROVE  (SquareOf(m) = n <=> m * m = n) /\ (SquareOf(m) < n <=> m * m < n)
<1>1. PICK q \in Nat : q = m * m
  OBVIOUS
<1>2. MathWord \in Nat
  BY MathAssumption
<1> QED BY <1>1, <1>2 DEF SquareOf

\* Both halves are of the numbers' range, and smaller.
LEMMA HalvedTyped ==
    ASSUME NEW n \in Nat, NEW s \in Halved(n)
    PROVE  /\ s.low \in 1..(n + 1) /\ s.high \in 0..n /\ s.result \in 0..n
           /\ Mid(s) \in 0..n /\ Size(s) \in 0..n
           /\ s.low <= s.high => /\ s.low <= Mid(s) /\ Mid(s) <= s.high
                                 /\ Upper(s) \in Halved(n) /\ Size(Upper(s)) < Size(s)
                                 /\ Lower(s) \in Halved(n) /\ Size(Lower(s)) < Size(s)
<1>1. s.low \in 1..(n + 1) /\ s.high \in 0..n /\ s.result \in 0..n
  BY DEF Halved
<1>2. PICK m \in Int : m = Mid(s) /\ 2 * m <= s.low + s.high /\ s.low + s.high < 2 * m + 2
  BY <1>1 DEF Mid
<1>3. m \in 0..n /\ Size(s) \in 0..n
  BY <1>1, <1>2 DEF Size
<1>4. ASSUME s.low <= s.high
      PROVE  /\ s.low <= m /\ m <= s.high
             /\ Upper(s) \in Halved(n) /\ Size(Upper(s)) < Size(s)
             /\ Lower(s) \in Halved(n) /\ Size(Lower(s)) < Size(s)
  <2>1. s.low <= m /\ m <= s.high
    BY <1>1, <1>2, <1>4
  <2>2. m + 1 \in 1..(n + 1) /\ m - 1 \in 0..n
    BY <1>1, <1>3, <2>1
  <2>3. Upper(s) \in Halved(n) /\ Lower(s) \in Halved(n)
    BY <1>1, <1>2, <1>3, <2>2 DEF Upper, Lower, Halved
  <2>4. /\ Upper(s).low = m + 1 /\ Upper(s).high = s.high
        /\ Lower(s).low = s.low /\ Lower(s).high = m - 1
    BY <1>2 DEF Upper, Lower
  <2>5. Size(Upper(s)) < Size(s) /\ Size(Lower(s)) < Size(s)
    BY <1>1, <1>3, <1>4, <2>1, <2>4 DEF Size
  <2> QED BY <2>1, <2>3, <2>5
<1> QED BY <1>1, <1>2, <1>3, <1>4

\* What the halving keeps: the result is below low, and its square not above n.
Between(s, n) ==
    /\ s.result = s.low - 1 /\ s.low <= s.high + 1
    /\ s.result * s.result <= n /\ Above(s.high, n)

\* One turn of integer_sqrt.
LEMMA HalvedTurn ==
    ASSUME NEW n \in Nat, n <= MathWord - 2, NEW s \in Halved(n), Between(s, n)
    PROVE  /\ s.low > s.high => IsRoot(s.result, n)
           /\ s.low <= s.high =>
                 /\ SquareOf(Mid(s)) = n => IsRoot(Mid(s), n)
                 /\ SquareOf(Mid(s)) < n => Between(Upper(s), n)
                 /\ SquareOf(Mid(s)) # n /\ ~(SquareOf(Mid(s)) < n) => Between(Lower(s), n)
<1>1. s.low \in Nat /\ s.high \in Nat /\ s.result \in Nat
  BY HalvedTyped
<1>2. ASSUME s.low > s.high PROVE IsRoot(s.result, n)
  <2>1. s.result = s.high
    BY <1>1, <1>2 DEF Between
  <2> QED BY <1>1, <2>1 DEF Between, Above, IsRoot
<1>3. ASSUME s.low <= s.high
      PROVE  /\ SquareOf(Mid(s)) = n => IsRoot(Mid(s), n)
             /\ SquareOf(Mid(s)) < n => Between(Upper(s), n)
             /\ SquareOf(Mid(s)) # n /\ ~(SquareOf(Mid(s)) < n) => Between(Lower(s), n)
  <2>1. PICK m \in Nat : m = Mid(s) /\ s.low <= m /\ m <= s.high
    BY <1>3, HalvedTyped
  <2>2. PICK q \in Nat : q = m * m
    BY <2>1
  <2>3. (SquareOf(m) = n <=> q = n) /\ (SquareOf(m) < n <=> q < n)
    BY <2>2, SquareCompares
  <2>4. (m + 1) * (m + 1) = q + 2 * m + 1 /\ (m - 1) + 1 = m
    BY <2>2
  <2>5. /\ Upper(s).low = m + 1 /\ Upper(s).high = s.high /\ Upper(s).result = m
        /\ Lower(s).low = s.low /\ Lower(s).high = m - 1 /\ Lower(s).result = s.result
    BY <2>1 DEF Upper, Lower
  <2>6. q = n => IsRoot(m, n)
    BY <2>2, <2>4 DEF IsRoot
  <2>7. q < n => Between(Upper(s), n)
    <3> SUFFICES ASSUME q < n PROVE Between(Upper(s), n)
      OBVIOUS
    <3>1. m = (m + 1) - 1 /\ m + 1 <= s.high + 1 /\ m * m <= n
      BY <1>1, <2>1, <2>2
    <3> QED BY <2>5, <3>1 DEF Between
  <2>8. q # n /\ ~(q < n) => Between(Lower(s), n)
    <3> SUFFICES ASSUME q # n, ~(q < n) PROVE Between(Lower(s), n)
      OBVIOUS
    <3>1. n < m * m /\ s.low <= (m - 1) + 1
      BY <1>1, <2>1, <2>2
    <3>2. Above(m - 1, n)
      BY <2>4, <3>1 DEF Above
    <3> QED BY <2>5, <3>1, <3>2 DEF Between
  <2> QED BY <2>1, <2>3, <2>6, <2>7, <2>8
<1> QED BY <1>2, <1>3

\* integer_sqrt ends, and with the root.
LEMMA IntegerSqrtIsRoot ==
    ASSUME NEW n \in Nat, n <= MathWord - 2
    PROVE  IsRoot(IntegerSqrt(n), n)
<1>1. CASE n \in {0, 1}
  <2>1. IntegerSqrt(n) = n
    BY <1>1, Zenon DEF IntegerSqrt
  <2> QED BY <1>1, <2>1 DEF IsRoot
<1>2. CASE n \notin {0, 1}
  <2> DEFINE H == Halved(n)
             Solves(g) ==
                g = [s \in [low : 1..(n + 1), high : 0..n, result : 0..n] |->
                       LET mid == (s.low + s.high) \div 2
                           square == IF mid * mid < MathWord THEN mid * mid ELSE MathWord - 1
                       IN IF s.low > s.high THEN s.result
                          ELSE IF square = n THEN mid
                          ELSE IF square < n
                               THEN g[[low |-> mid + 1, high |-> s.high, result |-> mid]]
                          ELSE g[[low |-> s.low, high |-> mid - 1, result |-> s.result]]]
             Turn(g, s) == IF s.low > s.high THEN s.result
                           ELSE IF SquareOf(Mid(s)) = n THEN Mid(s)
                           ELSE IF SquareOf(Mid(s)) < n THEN g[Upper(s)] ELSE g[Lower(s)]
             root == CHOOSE g : Solves(g)
             all == [low |-> 1, high |-> n, result |-> 0]
             ends == [s \in H |-> s.low > s.high \/ SquareOf(Mid(s)) = n]
             res == [s \in H |-> IF s.low > s.high THEN s.result ELSE Mid(s)]
             next == [s \in H |-> IF SquareOf(Mid(s)) < n THEN Upper(s) ELSE Lower(s)]
             size == [s \in H |-> Size(s)]
  <2>0. IntegerSqrt(n) = root[all]
    BY <1>2, Zenon DEF IntegerSqrt
  <2>1. \A g : Solves(g) <=> g = [s \in H |-> Turn(g, s)]
    BY Zenon DEF Halved, Mid, SquareOf, Upper, Lower
  <2>2. \A s \in H : /\ ends[s] = (s.low > s.high \/ SquareOf(Mid(s)) = n)
                     /\ res[s] = IF s.low > s.high THEN s.result ELSE Mid(s)
                     /\ next[s] = IF SquareOf(Mid(s)) < n THEN Upper(s) ELSE Lower(s)
                     /\ size[s] = Size(s)
    BY Zenon
  <2>3. size \in [H -> 0..n] /\ size \in [H -> Nat]
    BY HalvedTyped
  <2>4. res \in [H -> 0..n]
    BY HalvedTyped
  <2>5. ends \in [H -> BOOLEAN]
    BY Zenon
  <2> HIDE DEF ends, res, next, size, H, Solves, root
  <2>6. ASSUME NEW s \in H, ~ends[s]
        PROVE  s.low <= s.high /\ SquareOf(Mid(s)) # n /\ next[s] \in {Upper(s), Lower(s)}
    <3>1. ~(s.low > s.high) /\ SquareOf(Mid(s)) # n /\ next[s] \in {Upper(s), Lower(s)}
      BY <2>2, <2>6, Zenon
    <3>2. s.low \in Int /\ s.high \in Int
      BY HalvedTyped DEF H
    <3> QED BY <3>1, <3>2
  <2>7. \A s \in H : ~ends[s] => next[s] \in H /\ size[next[s]] < size[s]
    <3> SUFFICES ASSUME NEW s \in H, ~ends[s] PROVE next[s] \in H /\ size[next[s]] < size[s]
      OBVIOUS
    <3>1. s.low <= s.high /\ next[s] \in {Upper(s), Lower(s)}
      BY <2>6
    <3>2. /\ Upper(s) \in H /\ Size(Upper(s)) < Size(s)
          /\ Lower(s) \in H /\ Size(Lower(s)) < Size(s)
      BY <3>1, HalvedTyped DEF H
    <3> QED BY <2>2, <3>1, <3>2
  <2>8. PICK g \in [H -> 0..n] : Loops(g, H, ends, res, next)
    BY <2>3, <2>4, <2>5, <2>7, LoopEnds, Zenon
  <2>9. \A g2 : Loops(g2, H, ends, res, next) <=> \A s \in H : g2[s] = Turn(g2, s)
    <3>1. \A g2 : \A s \in H : (IF ends[s] THEN res[s] ELSE g2[next[s]]) = Turn(g2, s)
      BY <2>2, Zenon
    <3> HIDE DEF Turn
    <3> QED BY <3>1, Zenon DEF Loops
  <2>10. Solves(g)
    <3> HIDE DEF Turn
    <3>1. g = [s \in H |-> g[s]]
      BY <2>8
    <3> QED BY <2>1, <2>8, <2>9, <3>1, Zenon
  <2>11. Solves(root)
    BY <2>10, Zenon DEF root
  <2>12. Loops(root, H, ends, res, next)
    <3> HIDE DEF Turn
    <3>1. root = [s \in H |-> Turn(root, s)]
      BY <2>1, <2>11, Zenon
    <3>2. \A s \in H : root[s] = Turn(root, s)
      BY <3>1, Zenon
    <3> QED BY <2>9, <3>2, Zenon
  <2> HIDE DEF Turn
  <2> DEFINE K == {s \in H : Between(s, n)}
             A == {r \in Nat : IsRoot(r, n)}
  <2>13. \A s \in K : ends[s] => res[s] \in A
    <3> SUFFICES ASSUME NEW s \in H, Between(s, n), ends[s] PROVE IsRoot(res[s], n)
      BY DEF IsRoot
    <3>1. s.low \in Int /\ s.high \in Int
      BY HalvedTyped DEF H
    <3>2. s.low > s.high \/ s.low <= s.high
      BY <3>1
    <3> QED BY <2>2, <3>1, <3>2, HalvedTurn DEF H
  <2>14. \A s \in K : ~ends[s] => next[s] \in K /\ size[next[s]] < size[s]
    <3> SUFFICES ASSUME NEW s \in H, Between(s, n), ~ends[s] PROVE Between(next[s], n)
      BY <2>7
    <3>1. s.low <= s.high /\ SquareOf(Mid(s)) # n
      BY <2>6
    <3> QED BY <2>2, <3>1, HalvedTurn DEF H
  <2>15. all \in K
    <3>1. n \in Nat /\ n >= 2
      BY <1>2
    <3>2. all \in H /\ all.low = 1 /\ all.high = n /\ all.result = 0
      BY <3>1 DEF H, Halved
    <3>3. Above(n, n)
      <4>1. PICK q \in Nat : q = (n + 1) * (n + 1) /\ n + 1 <= q
        <5>1. (n + 1) * 1 <= (n + 1) * (n + 1) /\ (n + 1) * (n + 1) \in Nat
          BY ProductsOrdered
        <5> QED BY <5>1
      <4> QED BY <4>1 DEF Above
    <3> HIDE DEF all
    <3> QED BY <3>1, <3>2, <3>3 DEF Between
  <2>16. Keeps(K, A, root, H, size, ends, res, next)
    <3>1. K \subseteq H
      OBVIOUS
    <3> HIDE DEF K, A
    <3> QED BY <2>3, <2>12, <2>13, <2>14, <3>1 DEF Keeps
  <2>17. root[all] \in A
    <3> HIDE DEF K, A
    <3> QED BY <2>15, <2>16, LoopKeeps
  <2> QED BY <2>0, <2>17
<1> QED BY <1>1, <1>2

\* Capped products and their quotients are numbers.
LEMMA CappedTyped ==
    ASSUME NEW m \in Nat
    PROVE  Capped(m) \in Nat
<1>1. PriceWord \in Nat \ {0}
  BY MathAssumption
<1> QED BY <1>1 DEF Capped

LEMMA ScaleTyped == Scale \in Nat \ {0} /\ Root \in Nat \ {0}
<1>1. Root \in Nat \ {0} /\ Scale = Root * Root
  BY MathAssumption
<1>2. Root * Root \in Nat \ {0}
  BY <1>1
<1> QED BY <1>1, <1>2

Powers(abs) == [result : Nat, base : Nat, exp : 0..abs]
Squared(s) == [result |-> IF s.exp % 2 = 1 THEN Capped(s.result * s.base) \div Scale ELSE s.result,
               base |-> Capped(s.base * s.base) \div Scale,
               exp |-> s.exp \div 2]

\* A turn of the powering has half the exponent.
LEMMA SquaredTyped ==
    ASSUME NEW abs \in Nat, NEW s \in Powers(abs), s.exp # 0
    PROVE  Squared(s) \in Powers(abs) /\ Squared(s).exp < s.exp
<1>1. s.result \in Nat /\ s.base \in Nat /\ s.exp \in 0..abs
  BY DEF Powers
<1>2. s.result * s.base \in Nat /\ s.base * s.base \in Nat
  BY <1>1
<1>3. Capped(s.result * s.base) \div Scale \in Nat /\ Capped(s.base * s.base) \div Scale \in Nat
  BY <1>2, CappedTyped, ScaleTyped, DivNat
<1>4. s.exp \div 2 \in 0..abs /\ s.exp \div 2 < s.exp
  BY <1>1
<1>5. Squared(s).exp = s.exp \div 2
  BY DEF Squared
<1>6. Squared(s) \in Powers(abs)
  BY <1>1, <1>3, <1>4 DEF Squared, Powers
<1> QED BY <1>4, <1>5, <1>6

\* The power of a number of ticks is a number.
LEMMA PoweredTyped ==
    ASSUME NEW abs \in Nat
    PROVE  Powered(abs) \in Nat
<1> DEFINE H == Powers(abs)
           Turn(g, s) == IF s.exp = 0 THEN s.result ELSE g[Squared(s)]
           Solves(g) ==
              g = [s \in [result : Nat, base : Nat, exp : 0..abs] |->
                     IF s.exp = 0 THEN s.result
                     ELSE g[[result |-> IF s.exp % 2 = 1
                                        THEN Capped(s.result * s.base) \div Scale ELSE s.result,
                             base |-> Capped(s.base * s.base) \div Scale,
                             exp |-> s.exp \div 2]]]
           power == CHOOSE g : Solves(g)
           first == [result |-> Scale, base |-> (StepNum * Scale) \div StepDen, exp |-> abs]
           ends == [s \in H |-> s.exp = 0]
           res == [s \in H |-> s.result]
           next == [s \in H |-> Squared(s)]
           size == [s \in H |-> s.exp]
<1>0. Powered(abs) = power[first]
  BY Zenon DEF Powered
<1>1. \A g : Solves(g) <=> g = [s \in H |-> Turn(g, s)]
  BY Zenon DEF Powers, Squared
<1>2. \A s \in H : /\ ends[s] = (s.exp = 0) /\ res[s] = s.result
                   /\ next[s] = Squared(s) /\ size[s] = s.exp
  BY Zenon
<1>3. size \in [H -> 0..abs] /\ size \in [H -> Nat] /\ res \in [H -> Nat]
  BY DEF Powers
<1>4. ends \in [H -> BOOLEAN]
  BY Zenon
<1> HIDE DEF ends, res, next, size, H, Solves, power
<1>5. \A s \in H : ~ends[s] => next[s] \in H /\ size[next[s]] < size[s]
  <2> SUFFICES ASSUME NEW s \in H, ~ends[s] PROVE next[s] \in H /\ size[next[s]] < size[s]
    OBVIOUS
  <2>1. s.exp # 0
    BY <1>2
  <2>2. Squared(s) \in H /\ Squared(s).exp < s.exp
    BY <2>1, SquaredTyped DEF H
  <2> QED BY <1>2, <2>2
<1>6. PICK g \in [H -> Nat] : Loops(g, H, ends, res, next)
  <2>1. size \in [H -> 0..abs]
    BY <1>3
  <2>2. res \in [H -> Nat]
    BY <1>3
  <2> QED BY <1>4, <1>5, <2>1, <2>2, LoopEnds, Zenon
<1>7. \A g2 : Loops(g2, H, ends, res, next) <=> \A s \in H : g2[s] = Turn(g2, s)
  <2>1. \A g2 : \A s \in H : (IF ends[s] THEN res[s] ELSE g2[next[s]]) = Turn(g2, s)
    BY <1>2, Zenon
  <2> HIDE DEF Turn
  <2> QED BY <2>1, Zenon DEF Loops
<1>8. Solves(g)
  <2> HIDE DEF Turn
  <2>1. g = [s \in H |-> g[s]]
    BY <1>6
  <2> QED BY <1>1, <1>6, <1>7, <2>1, Zenon
<1>9. Solves(power)
  BY <1>8, Zenon DEF power
<1>10. Loops(power, H, ends, res, next)
  <2> HIDE DEF Turn
  <2>1. power = [s \in H |-> Turn(power, s)]
    BY <1>1, <1>9, Zenon
  <2>2. \A s \in H : power[s] = Turn(power, s)
    BY <2>1, Zenon
  <2> QED BY <1>7, <2>2, Zenon
<1> HIDE DEF Turn
<1>11. first \in H
  <2>1. StepDen \in Nat \ {0} /\ StepNum \in Nat /\ Scale \in Nat
    BY MathAssumption, ScaleTyped
  <2>2. StepNum * Scale \in Nat
    BY <2>1
  <2>3. (StepNum * Scale) \div StepDen \in Nat
    BY <2>1, <2>2, DivNat
  <2> QED BY <2>1, <2>3 DEF H, Powers
<1>12. Keeps(H, Nat, power, H, size, ends, res, next)
  <2>1. \A s \in H : ends[s] => res[s] \in Nat
    BY <1>3
  <2> QED BY <1>3, <1>5, <1>10, <2>1 DEF Keeps
<1> HIDE DEF first
<1> QED BY <1>0, <1>11, <1>12, LoopKeeps

\* The price of a tick is a number.
LEMMA PriceOfTickTyped ==
    ASSUME NEW t \in Int
    PROVE  PriceOfTick(t) \in Nat
<1> DEFINE abs == IF t < 0 THEN -t ELSE t
           root == Isqrt(Powered(abs))
<1>1. abs \in Nat
  OBVIOUS
<1> HIDE DEF abs
<1>2. root \in Nat
  BY <1>1, PoweredTyped, IsqrtIsRoot DEF IsRoot
<1>3. PriceOfTick(t) = IF t = 0 THEN MathOne
                       ELSE IF t > 0 THEN Capped(root * (MathOne \div Root))
                       ELSE IF root = 0 THEN MathOne ELSE Capped(MathOne * Root) \div root
  BY DEF PriceOfTick, abs
<1> HIDE DEF root
<1>4. MathOne \in Nat /\ MathOne \div Root \in Nat /\ MathOne * Root \in Nat
  <2>1. MathOne \in Nat /\ Root \in Nat \ {0}
    BY MathAssumption, ScaleTyped
  <2> QED BY <2>1, DivNat
<1>5. Capped(root * (MathOne \div Root)) \in Nat
  <2>1. root * (MathOne \div Root) \in Nat
    <3>1. PICK k \in Nat : k = MathOne \div Root
      BY <1>4
    <3>2. root * k \in Nat
      BY <1>2
    <3> QED BY <3>1, <3>2
  <2> QED BY <2>1, CappedTyped
<1>6. root # 0 => Capped(MathOne * Root) \div root \in Nat
  <2> SUFFICES ASSUME root # 0 PROVE Capped(MathOne * Root) \div root \in Nat
    OBVIOUS
  <2>1. Capped(MathOne * Root) \in Nat /\ root \in Nat \ {0}
    BY <1>2, <1>4, CappedTyped
  <2> QED BY <2>1, DivNat
<1> QED BY <1>3, <1>4, <1>5, <1>6

\* The ticks left to search: the price of the first is not above, that of the one
\* after the last is.
Bracketed(s, p) ==
    /\ s.lo <= s.hi
    /\ s.lo = LowTick \/ PriceOfTick(s.lo) <= p
    /\ s.hi = HighTick \/ p < PriceOfTick(s.hi + 1)

MidTick(s) == s.lo + (s.hi - s.lo + 1) \div 2
FromMid(s) == [lo |-> MidTick(s), hi |-> s.hi]
BelowMid(s) == [lo |-> s.lo, hi |-> MidTick(s) - 1]
Ticked(s) == IF s.lo >= s.hi THEN 0 ELSE s.hi - s.lo

\* Both parts are ranges, and smaller.
LEMMA PartsTyped ==
    ASSUME NEW s \in TickRanges
    PROVE  /\ s.lo \in LowTick..HighTick /\ s.hi \in LowTick..HighTick
           /\ Ticked(s) \in 0..(HighTick - LowTick)
           /\ ~(s.lo >= s.hi) =>
                 /\ s.lo < MidTick(s) /\ MidTick(s) <= s.hi /\ MidTick(s) \in LowTick..HighTick
                 /\ FromMid(s) \in TickRanges /\ Ticked(FromMid(s)) < Ticked(s)
                 /\ BelowMid(s) \in TickRanges /\ Ticked(BelowMid(s)) < Ticked(s)
<1>0. LowTick \in Int /\ HighTick \in Int /\ LowTick <= HighTick
  BY MathAssumption
<1>1. s.lo \in LowTick..HighTick /\ s.hi \in LowTick..HighTick
  BY DEF TickRanges
<1>2. Ticked(s) \in 0..(HighTick - LowTick)
  BY <1>0, <1>1 DEF Ticked
<1>3. ASSUME ~(s.lo >= s.hi)
      PROVE  /\ s.lo < MidTick(s) /\ MidTick(s) <= s.hi /\ MidTick(s) \in LowTick..HighTick
             /\ FromMid(s) \in TickRanges /\ Ticked(FromMid(s)) < Ticked(s)
             /\ BelowMid(s) \in TickRanges /\ Ticked(BelowMid(s)) < Ticked(s)
  <2>1. PICK d \in Nat : d = s.hi - s.lo + 1 /\ d >= 2
    BY <1>0, <1>1, <1>3
  <2>2. d \div 2 \in Nat /\ d \div 2 >= 1 /\ d \div 2 <= d - 1
    BY <2>1
  <2>3. PICK m \in Int : m = MidTick(s) /\ s.lo < m /\ m <= s.hi
    BY <1>0, <1>1, <2>1, <2>2 DEF MidTick
  <2>4. m \in LowTick..HighTick /\ m - 1 \in LowTick..HighTick
    BY <1>0, <1>1, <2>3
  <2>5. FromMid(s) \in TickRanges /\ BelowMid(s) \in TickRanges
    BY <1>1, <2>3, <2>4 DEF FromMid, BelowMid, TickRanges
  <2>6. FromMid(s).lo = m /\ FromMid(s).hi = s.hi /\ BelowMid(s).lo = s.lo /\ BelowMid(s).hi = m - 1
    BY <2>3 DEF FromMid, BelowMid
  <2>7. Ticked(FromMid(s)) < Ticked(s) /\ Ticked(BelowMid(s)) < Ticked(s)
    BY <1>0, <1>1, <1>3, <2>3, <2>6 DEF Ticked
  <2> QED BY <2>3, <2>4, <2>5, <2>7
<1> QED BY <1>1, <1>2, <1>3

\* A turn of the search keeps the price between.
LEMMA SearchTurn ==
    ASSUME NEW p \in Nat, NEW s \in TickRanges, Bracketed(s, p), ~(s.lo >= s.hi)
    PROVE  /\ PriceOfTick(MidTick(s)) <= p => Bracketed(FromMid(s), p)
           /\ ~(PriceOfTick(MidTick(s)) <= p) => Bracketed(BelowMid(s), p)
<1>1. PICK m \in Int : m = MidTick(s) /\ s.lo < m /\ m <= s.hi
  <2>1. LowTick \in Int /\ HighTick \in Int
    BY MathAssumption
  <2> QED BY <2>1, PartsTyped
<1>2. s.lo \in Int /\ s.hi \in Int
  <2>1. LowTick \in Int /\ HighTick \in Int
    BY MathAssumption
  <2> QED BY <2>1, PartsTyped
<1>3. FromMid(s).lo = m /\ FromMid(s).hi = s.hi /\ BelowMid(s).lo = s.lo /\ BelowMid(s).hi = m - 1
  BY <1>1 DEF FromMid, BelowMid
<1>4. PriceOfTick(m) \in Nat /\ (m - 1) + 1 = m
  BY PriceOfTickTyped
<1>5. PriceOfTick(m) <= p => Bracketed(FromMid(s), p)
  BY <1>1, <1>3 DEF Bracketed
<1>6. ~(PriceOfTick(m) <= p) => Bracketed(BelowMid(s), p)
  <2> SUFFICES ASSUME ~(PriceOfTick(m) <= p) PROVE Bracketed(BelowMid(s), p)
    OBVIOUS
  <2>1. p < PriceOfTick((m - 1) + 1)
    BY <1>4
  <2>2. s.lo <= m - 1
    BY <1>1, <1>2
  <2> QED BY <1>3, <2>1, <2>2 DEF Bracketed
<1> QED BY <1>1, <1>5, <1>6

\* The search ends at a tick whose price is not above, before one whose price is.
LEMMA TickOfPriceFound ==
    ASSUME NEW p \in Nat
    PROVE  LET t == TickOfPrice(p)
           IN /\ t \in LowTick..HighTick
              /\ t = LowTick \/ PriceOfTick(t) <= p
              /\ t = HighTick \/ p < PriceOfTick(t + 1)
<1>0. LowTick \in Int /\ HighTick \in Int /\ LowTick <= HighTick /\ HighTick - LowTick \in Nat
  BY MathAssumption
<1>1. CASE p = 0
  <2>1. TickOfPrice(p) = LowTick
    BY <1>1, Zenon DEF TickOfPrice
  <2>2. LowTick = HighTick \/ LowTick < HighTick
    BY <1>0
  <2> QED BY <1>0, <1>1, <2>1, <2>2, LowestPriceAssumption
<1>2. CASE p # 0
  <2> DEFINE H == TickRanges
             Turn(g, s) == IF s.lo >= s.hi THEN s.lo
                           ELSE IF PriceOfTick(MidTick(s)) <= p THEN g[FromMid(s)]
                           ELSE g[BelowMid(s)]
             Solves(g) ==
                g = [s \in TickRanges |->
                       LET mid == s.lo + (s.hi - s.lo + 1) \div 2
                       IN IF s.lo >= s.hi THEN s.lo
                          ELSE IF PriceOfTick(mid) <= p THEN g[[lo |-> mid, hi |-> s.hi]]
                          ELSE g[[lo |-> s.lo, hi |-> mid - 1]]]
             search == CHOOSE g : Solves(g)
             all == [lo |-> LowTick, hi |-> HighTick]
             ends == [s \in H |-> s.lo >= s.hi]
             res == [s \in H |-> s.lo]
             next == [s \in H |-> IF PriceOfTick(MidTick(s)) <= p THEN FromMid(s) ELSE BelowMid(s)]
             size == [s \in H |-> Ticked(s)]
  <2>0. TickOfPrice(p) = search[all]
    BY <1>2, Zenon DEF TickOfPrice
  <2>1. \A g : Solves(g) <=> g = [s \in H |-> Turn(g, s)]
    BY Zenon DEF MidTick, FromMid, BelowMid
  <2>2. \A s \in H : /\ ends[s] = (s.lo >= s.hi) /\ res[s] = s.lo
                     /\ next[s] = IF PriceOfTick(MidTick(s)) <= p THEN FromMid(s) ELSE BelowMid(s)
                     /\ size[s] = Ticked(s)
    BY Zenon
  <2>3. size \in [H -> 0..(HighTick - LowTick)] /\ res \in [H -> LowTick..HighTick]
    <3>1. \A s \in H : Ticked(s) \in 0..(HighTick - LowTick) /\ s.lo \in LowTick..HighTick
      <4> HIDE DEF Solves, search, next, ends, res, size, Turn, all
      <4> SUFFICES ASSUME NEW s \in TickRanges
                   PROVE  Ticked(s) \in 0..(HighTick - LowTick) /\ s.lo \in LowTick..HighTick
        OBVIOUS
      <4> QED BY PartsTyped
    <3> QED BY <3>1, Zenon
  <2>4. size \in [H -> Nat]
    <3>1. 0..(HighTick - LowTick) \subseteq Nat
      BY <1>0
    <3> HIDE DEF size, H
    <3> QED BY <2>3, <3>1
  <2>5. ends \in [H -> BOOLEAN]
    <3>1. \A s \in H : (s.lo >= s.hi) \in BOOLEAN
      <4> HIDE DEF Solves, search, next, ends, res, size, Turn, all, H
      <4> QED OBVIOUS
    <3> QED BY <3>1, Zenon
  <2> HIDE DEF ends, res, next, size, H, Solves, search
  <2>6. \A s \in H : ~ends[s] => next[s] \in H /\ size[next[s]] < size[s]
    <3> SUFFICES ASSUME NEW s \in H, ~ends[s] PROVE next[s] \in H /\ size[next[s]] < size[s]
      OBVIOUS
    <3>1. ~(s.lo >= s.hi) /\ next[s] \in {FromMid(s), BelowMid(s)}
      BY <2>2, Zenon
    <3>2. /\ FromMid(s) \in H /\ Ticked(FromMid(s)) < Ticked(s)
          /\ BelowMid(s) \in H /\ Ticked(BelowMid(s)) < Ticked(s)
      BY <3>1, PartsTyped DEF H
    <3> QED BY <2>2, <3>1, <3>2
  <2>7. PICK g \in [H -> LowTick..HighTick] : Loops(g, H, ends, res, next)
    <3>1. size \in [H -> 0..(HighTick - LowTick)]
      BY <2>3
    <3>2. res \in [H -> LowTick..HighTick]
      BY <2>3
    <3>3. HighTick - LowTick \in Nat
      BY <1>0
    <3> QED BY <2>5, <2>6, <3>1, <3>2, <3>3, LoopEnds, Zenon
  <2>8. \A g2 : Loops(g2, H, ends, res, next) <=> \A s \in H : g2[s] = Turn(g2, s)
    <3>1. \A g2 : \A s \in H : (IF ends[s] THEN res[s] ELSE g2[next[s]]) = Turn(g2, s)
      BY <2>2, Zenon
    <3> HIDE DEF Turn
    <3> QED BY <3>1, Zenon DEF Loops
  <2>9. Solves(g)
    <3> HIDE DEF Turn
    <3>1. g = [s \in H |-> g[s]]
      BY <2>7
    <3> QED BY <2>1, <2>7, <2>8, <3>1, Zenon
  <2>10. Solves(search)
    BY <2>9, Zenon DEF search
  <2>11. Loops(search, H, ends, res, next)
    <3> HIDE DEF Turn
    <3>1. search = [s \in H |-> Turn(search, s)]
      BY <2>1, <2>10, Zenon
    <3>2. \A s \in H : search[s] = Turn(search, s)
      BY <3>1, Zenon
    <3> QED BY <2>8, <3>2, Zenon
  <2> HIDE DEF Turn
  <2> DEFINE K == {s \in H : Bracketed(s, p)}
             A == {t \in LowTick..HighTick : /\ t = LowTick \/ PriceOfTick(t) <= p
                                             /\ t = HighTick \/ p < PriceOfTick(t + 1)}
  <2>12. \A s \in K : ends[s] => res[s] \in A
    <3> SUFFICES ASSUME NEW s \in H, Bracketed(s, p), ends[s] PROVE s.lo \in A
      BY <2>2
    <3>1. s.lo \in LowTick..HighTick /\ s.hi \in LowTick..HighTick /\ s.lo >= s.hi
      BY <2>2, PartsTyped DEF H
    <3>2. s.lo = s.hi
      BY <1>0, <3>1 DEF Bracketed
    <3> QED BY <3>1, <3>2 DEF Bracketed
  <2>13. \A s \in K : ~ends[s] => next[s] \in K /\ size[next[s]] < size[s]
    <3> SUFFICES ASSUME NEW s \in H, Bracketed(s, p), ~ends[s] PROVE Bracketed(next[s], p)
      BY <2>6
    <3>1. ~(s.lo >= s.hi)
      BY <2>2, Zenon
    <3> QED BY <2>2, <3>1, SearchTurn DEF H
  <2>14. all \in K
    <3>1. all \in H /\ all.lo = LowTick /\ all.hi = HighTick
      BY <1>0 DEF H, TickRanges
    <3> HIDE DEF all
    <3> QED BY <1>0, <3>1 DEF Bracketed
  <2>15. Keeps(K, A, search, H, size, ends, res, next)
    <3>1. K \subseteq H
      OBVIOUS
    <3> HIDE DEF K, A
    <3> QED BY <2>4, <2>11, <2>12, <2>13, <3>1 DEF Keeps
  <2>16. search[all] \in A
    <3> HIDE DEF K, A
    <3> QED BY <2>14, <2>15, LoopKeeps
  <2> QED BY <2>0, <2>16
<1> QED BY <1>1, <1>2
\* An amount of token1 is the product of the liquidity and of the part of the range
\* that lies below the price, if a word can hold it.
Below(a, b, p) == (IF p < a THEN a ELSE IF p >= b THEN b ELSE p) - a
Paid(n) == IF n < MathWord THEN n \div LibOne ELSE Overflow
PaidBelow(l, a, b, p) == Paid(l * Below(a, b, p))

LEMMA LibTyped == MathWord \in Nat \ {0} /\ LibOne \in Nat \ {0}
BY MathAssumption

LEMMA Amount1Is ==
    ASSUME NEW l \in Nat, NEW a \in Nat, NEW b \in Nat, a <= b, NEW p \in Nat
    PROVE  Amount1Delta(l, a, b, p) = PaidBelow(l, a, b, p) /\ Below(a, b, p) \in Nat
<1>1. MathWord \in Nat \ {0} /\ LibOne \in Nat \ {0}
  BY LibTyped
<1>2. 0 \div LibOne = 0
  BY <1>1
<1>3. Paid(0) = 0
  BY <1>1, <1>2 DEF Paid
<1>4. \A n \in Nat : Over(Checked(n), LibOne) = Paid(n)
  <2> SUFFICES ASSUME NEW n \in Nat PROVE Over(Checked(n), LibOne) = Paid(n)
    OBVIOUS
  <2> QED BY <1>1 DEF Over, Checked, Paid, Failed, Overflow
<1>5. CASE l = 0
  <2>1. Below(a, b, p) \in Nat
    BY DEF Below
  <2>2. PaidBelow(l, a, b, p) = Paid(0)
    BY <1>5, <2>1 DEF PaidBelow
  <2> QED BY <1>3, <1>5, <2>1, <2>2 DEF Amount1Delta
<1>6. CASE p <= a /\ p < b
  <2>1. Below(a, b, p) = 0
    BY <1>6 DEF Below
  <2>2. PaidBelow(l, a, b, p) = Paid(0)
    BY <2>1 DEF PaidBelow
  <2> QED BY <1>3, <1>6, <2>1, <2>2 DEF Amount1Delta
<1>7. CASE l # 0 /\ ~(p <= a /\ p < b)
  <2>1. (IF p >= b THEN b ELSE p) - a = Below(a, b, p) /\ Below(a, b, p) \in Nat
    BY <1>7 DEF Below
  <2>2. PICK q \in Nat : q = Below(a, b, p)
    BY <2>1
  <2>3. Amount1Delta(l, a, b, p) = Over(Times(l, q), LibOne)
    BY <1>7, <2>1, <2>2 DEF Amount1Delta
  <2>4. PICK n \in Nat : n = l * q
    OBVIOUS
  <2>5. Times(l, q) = Checked(n)
    BY <2>4 DEF Times
  <2> QED BY <1>4, <2>2, <2>3, <2>4, <2>5, Zenon DEF PaidBelow
<1> QED BY <1>5, <1>6, <1>7

\* Of two multiples the smaller is of the smaller.
LEMMA Cancelled ==
    ASSUME NEW d \in Nat \ {0}, NEW m \in Int, NEW n \in Int, d * m < d * n
    PROVE  m < n
<1>1. CASE n <= m
  <2>1. d * n <= d * m
    BY <1>1
  <2> QED BY <2>1
<1> QED BY <1>1

\* A range cut in two holds as much token1 as the whole, but for one unit.
LEMMA HalvesHold1 ==
    ASSUME NEW l \in Nat, NEW a \in Nat, NEW m \in Nat, NEW b \in Nat, a <= m, m <= b, NEW p \in Nat,
           Amount1Delta(l, a, b, p) >= 0
    PROVE  Amount1Delta(l, a, b, p)
             - Plus(Amount1Delta(l, a, m, p), Amount1Delta(l, m, b, p)) \in {0, 1}
<1>1. PICK u \in Nat, v \in Nat, w \in Nat :
         /\ u = Below(a, m, p) /\ v = Below(m, b, p) /\ w = Below(a, b, p)
         /\ Amount1Delta(l, a, m, p) = Paid(l * u)
         /\ Amount1Delta(l, m, b, p) = Paid(l * v)
         /\ Amount1Delta(l, a, b, p) = Paid(l * w)
  <2>1. a <= b
    OBVIOUS
  <2>2. Amount1Delta(l, a, m, p) = PaidBelow(l, a, m, p) /\ Below(a, m, p) \in Nat
    BY Amount1Is
  <2>3. Amount1Delta(l, m, b, p) = PaidBelow(l, m, b, p) /\ Below(m, b, p) \in Nat
    BY Amount1Is
  <2>4. Amount1Delta(l, a, b, p) = PaidBelow(l, a, b, p) /\ Below(a, b, p) \in Nat
    BY <2>1, Amount1Is
  <2> QED BY <2>2, <2>3, <2>4, Zenon DEF PaidBelow
<1>2. w = u + v
  BY <1>1 DEF Below
<1>3. PICK x \in Nat, y \in Nat, z \in Nat : x = l * u /\ y = l * v /\ z = l * w
  OBVIOUS
<1>4. z = x + y
  BY <1>2, <1>3
<1>5. MathWord \in Nat \ {0} /\ LibOne \in Nat \ {0}
  BY LibTyped
<1>6. z < MathWord /\ x < MathWord /\ y < MathWord
  <2>1. Paid(z) >= 0
    BY <1>1, <1>3
  <2>2. z < MathWord
    BY <2>1 DEF Paid, Overflow
  <2> QED BY <1>4, <1>5, <2>2
<1>7. PICK i \in Nat, j \in Nat, k \in Nat :
         i = x \div LibOne /\ j = y \div LibOne /\ k = z \div LibOne
  BY <1>5, DivNat
<1>8. i + j <= k
  BY <1>4, <1>5, <1>7, DivSuper
<1>9. k <= i + j + 1
  <2>1. x < LibOne * i + LibOne /\ y < LibOne * j + LibOne /\ LibOne * k <= z
    BY <1>5, <1>7, DivBounds
  <2>2. LibOne * k < LibOne * (i + j + 2)
    BY <1>4, <1>5, <2>1
  <2> QED BY <1>5, <2>2, Cancelled
<1>10. k <= z
  <2>1. LibOne * k <= z
    BY <1>5, <1>7, DivBounds
  <2>2. k <= LibOne * k
    BY <1>5
  <2> QED BY <1>5, <2>1, <2>2
<1>11. Plus(i, j) = i + j
  BY <1>5, <1>6, <1>8, <1>10 DEF Plus, Checked
<1>12. Paid(x) = i /\ Paid(y) = j /\ Paid(z) = k
  BY <1>6, <1>7 DEF Paid
<1>13. /\ Amount1Delta(l, a, m, p) = i /\ Amount1Delta(l, m, b, p) = j
       /\ Amount1Delta(l, a, b, p) = k
  BY <1>1, <1>3, <1>12, Zenon
<1>14. k - (i + j) \in {0, 1}
  BY <1>8, <1>9
<1> QED BY <1>11, <1>13, <1>14, Zenon

\* The share of a price in a liquidity, when there is one.
LEMMA VirtualIs ==
    ASSUME NEW l \in Nat, NEW p \in Nat
    PROVE  Virtual0(l, p) = IF l * LibOne >= MathWord THEN Overflow
                            ELSE IF p = 0 THEN DivisionByZero ELSE (l * LibOne) \div p
<1>1. PICK n \in Nat : n = l * LibOne
  BY LibTyped
<1>2. MathWord \in Nat /\ LibOne \in Nat \ {0}
  BY LibTyped
<1>3. Times(l, LibOne) = Checked(n)
  BY <1>1, <1>2 DEF Times
<1>4. Over(Checked(n), p) = IF n >= MathWord THEN Overflow
                            ELSE IF p = 0 THEN DivisionByZero ELSE n \div p
  BY <1>2 DEF Over, Checked, Failed, Overflow
<1> QED BY <1>1, <1>3, <1>4 DEF Virtual0

\* Of token0 the halves hold exactly what the whole does, when the price is above.
LEMMA HalvesHold0 ==
    ASSUME NEW l \in Nat, NEW a \in Nat, NEW m \in Nat, NEW b \in Nat, a <= m, m <= b, NEW p \in Nat,
           p >= b, Amount0Delta(l, a, b, p) >= 0
    PROVE  Amount0Delta(l, a, b, p) = Plus(Amount0Delta(l, a, m, p), Amount0Delta(l, m, b, p))
<1>0. MathWord \in Nat \ {0} /\ LibOne \in Nat \ {0}
  BY LibTyped
<1>1. CASE l = 0 \/ a = b
  <2>1. l = 0 \/ (a = m /\ m = b)
    BY <1>1
  <2>2. /\ Amount0Delta(l, a, b, p) = 0 /\ Amount0Delta(l, a, m, p) = 0
        /\ Amount0Delta(l, m, b, p) = 0
    BY <2>1 DEF Amount0Delta
  <2>3. Plus(0, 0) = 0
    BY <1>0 DEF Plus, Checked
  <2> QED BY <2>2, <2>3
<1>2. CASE l # 0 /\ a < b
  <2>1. PICK n \in Nat : n = l * LibOne
    BY <1>0
  <2>2. \A x, y \in {a, m, b} : x < y =>
           Amount0Delta(l, x, y, p) = Less(Virtual0(l, x), Virtual0(l, y))
    BY <1>2 DEF Amount0Delta
  <2>3. Amount0Delta(l, a, b, p) = Less(Virtual0(l, a), Virtual0(l, b))
    BY <1>2, <2>2
  <2>4. n < MathWord /\ a # 0
    <3>1. Virtual0(l, a) >= 0
      <4>1. Virtual0(l, a) \in Int
        BY VirtualIs, <1>0, <2>1 DEF Overflow, DivisionByZero
      <4> QED BY <2>3, <4>1 DEF Less, Failed
    <3>2. Virtual0(l, a) = IF n >= MathWord THEN Overflow
                           ELSE IF a = 0 THEN DivisionByZero ELSE n \div a
      BY <2>1, VirtualIs
    <3> QED BY <1>0, <3>1, <3>2 DEF Overflow, DivisionByZero
  <2>5. PICK i \in Nat, j \in Nat, k \in Nat :
           /\ i = n \div a /\ j = n \div m /\ k = n \div b
           /\ Virtual0(l, a) = i /\ Virtual0(l, m) = j /\ Virtual0(l, b) = k
    <3>1. /\ a \in Nat \ {0} /\ m \in Nat \ {0} /\ b \in Nat \ {0}
          /\ ~(n >= MathWord)
      BY <1>0, <2>4
    <3>2. Virtual0(l, a) = n \div a /\ Virtual0(l, m) = n \div m /\ Virtual0(l, b) = n \div b
      BY <2>1, <3>1, VirtualIs
    <3>3. n \div a \in Nat /\ n \div m \in Nat /\ n \div b \in Nat
      BY <3>1, DivNat
    <3> QED BY <3>2, <3>3, Zenon
  <2>6. k <= j /\ j <= i
    <3>1. a \in Nat \ {0} /\ m \in Nat \ {0}
      BY <2>4
    <3>2. n \div b <= n \div m
      BY <3>1, DivLess
    <3>3. n \div m <= n \div a
      BY <3>1, DivLess
    <3> QED BY <2>5, <3>2, <3>3
  <2>7. i < MathWord
    <3>1. a * i <= n /\ a \in Nat \ {0}
      BY <2>4, <2>5, DivBounds
    <3>2. i <= a * i
      BY <3>1
    <3> QED BY <1>0, <2>4, <3>1, <3>2
  <2>8. Less(i, j) = i - j /\ Less(j, k) = j - k /\ Less(i, k) = i - k
    BY <2>6 DEF Less
  <2>9. /\ Amount0Delta(l, a, m, p) = i - j
        /\ Amount0Delta(l, m, b, p) = j - k
        /\ Amount0Delta(l, a, b, p) = i - k
    <3>1. a = m => Amount0Delta(l, a, m, p) = 0 /\ i = j
      BY <2>5 DEF Amount0Delta
    <3>2. m = b => Amount0Delta(l, m, b, p) = 0 /\ j = k
      BY <2>5 DEF Amount0Delta
    <3>3. a < m => Amount0Delta(l, a, m, p) = Less(i, j)
      BY <2>2, <2>5
    <3>4. m < b => Amount0Delta(l, m, b, p) = Less(j, k)
      BY <2>2, <2>5
    <3>5. Amount0Delta(l, a, b, p) = Less(i, k)
      BY <2>3, <2>5
    <3> QED BY <2>8, <3>1, <3>2, <3>3, <3>4, <3>5
  <2>10. Plus(i - j, j - k) = i - k
    BY <1>0, <2>6, <2>7 DEF Plus, Checked
  <2> QED BY <2>9, <2>10
<1> QED BY <1>1, <1>2

\* An amount of token1 that moves the price pays for the move, and the price comes
\* back when it is taken out.
LEMMA MoveOfToken1 ==
    ASSUME NEW p \in Nat, NEW l \in Nat, NEW in \in Nat,
           NextSqrtPrice1(p, l, in, TRUE) >= 0
    PROVE  LET next == NextSqrtPrice1(p, l, in, TRUE)
           IN /\ NextSqrtPrice1(next, l, in, FALSE) = p
              /\ Amount1Delta(l, p, next, next) <= in
<1>0. MathWord \in Nat \ {0} /\ LibOne \in Nat \ {0}
  BY LibTyped
<1>1. PICK n \in Nat : n = in * LibOne
  BY <1>0
<1>2. Times(in, LibOne) = Checked(n)
  BY <1>0, <1>1 DEF Times
<1>3. l # 0
  BY DEF NextSqrtPrice1, DivisionByZero
<1>4. NextSqrtPrice1(p, l, in, TRUE) = Plus(p, Over(Checked(n), l))
  BY <1>2, <1>3, Zenon DEF NextSqrtPrice1
<1>5. n < MathWord
  <2>1. CASE ~(n < MathWord)
    <3>1. Over(Checked(n), l) = Overflow
      BY <2>1 DEF Checked, Over, Failed, Overflow
    <3>2. Plus(p, Overflow) = Overflow
      BY DEF Plus, Failed, Overflow
    <3>3. NextSqrtPrice1(p, l, in, TRUE) = Overflow
      BY <1>4, <3>1, <3>2, Zenon
    <3>4. Overflow >= 0
      BY <3>3, Zenon
    <3> QED BY <3>4 DEF Overflow
  <2> QED BY <2>1
<1>6. PICK q \in Nat : q = n \div l /\ l * q <= n
  BY <1>3, DivNat, DivBounds
<1>7. Over(Checked(n), l) = q
  BY <1>3, <1>5, <1>6 DEF Over, Checked
<1>8. Plus(p, q) = Checked(p + q)
  BY DEF Plus
<1>9. p + q < MathWord
  <2>1. NextSqrtPrice1(p, l, in, TRUE) = Checked(p + q)
    BY <1>4, <1>7, <1>8, Zenon
  <2>2. Checked(p + q) >= 0
    BY <2>1, Zenon
  <2> QED BY <2>2 DEF Checked, Overflow
<1>10. NextSqrtPrice1(p, l, in, TRUE) = p + q
  BY <1>4, <1>7, <1>8, <1>9 DEF Checked
<1>11. NextSqrtPrice1(p + q, l, in, FALSE) = p
  <2>1. NextSqrtPrice1(p + q, l, in, FALSE) = Less(p + q, q)
    BY <1>2, <1>3, <1>7, Zenon DEF NextSqrtPrice1
  <2>2. Less(p + q, q) = p
    BY DEF Less
  <2> QED BY <2>1, <2>2
<1>12. Amount1Delta(l, p, p + q, p + q) <= in
  <2>1. PICK m \in Nat : m = l * q
    OBVIOUS
  <2>2. /\ ~(p + q <= p /\ p + q < p + q) /\ p + q >= p + q
        /\ (p + q) - p = q
    OBVIOUS
  <2>3. Amount1Delta(l, p, p + q, p + q) = Over(Times(l, q), LibOne)
    BY <1>3, <2>2 DEF Amount1Delta
  <2>4. Times(l, q) = m
    <3>1. m <= n /\ m < MathWord
      BY <1>0, <1>5, <1>6, <2>1
    <3>2. Times(l, q) = Checked(m)
      BY <2>1 DEF Times
    <3> QED BY <3>1, <3>2 DEF Checked
  <2>5. Over(m, LibOne) = m \div LibOne
    BY <1>0 DEF Over
  <2>6. m \div LibOne <= n \div LibOne
    <3>1. m <= n
      BY <1>6, <2>1
    <3> QED BY <1>0, <3>1, DivMono
  <2>7. n \div LibOne <= in
    <3>1. LibOne * (n \div LibOne) <= n /\ n \div LibOne \in Int
      BY <1>0, DivBounds
    <3>2. PICK k \in Int : k = n \div LibOne
      BY <3>1
    <3>3. LibOne * k < LibOne * (in + 1)
      BY <1>0, <1>1, <3>1, <3>2
    <3>4. k < in + 1
      BY <1>0, <3>3, Cancelled
    <3> QED BY <3>2, <3>4
  <2>8. m \div LibOne \in Int /\ n \div LibOne \in Int
    BY <1>0, DivBounds
  <2> QED BY <2>3, <2>4, <2>5, <2>6, <2>7, <2>8
<1> QED BY <1>10, <1>11, <1>12, Zenon

\* A larger amount of token0 moves the price no less far.
LEMMA MoveOfToken0 ==
    ASSUME NEW p \in Nat, NEW l \in Nat, NEW in \in Nat, NEW more \in Nat, in <= more,
           NEW zeroForOne \in BOOLEAN,
           NextSqrtPrice0(p, l, in, zeroForOne) >= 0, NextSqrtPrice0(p, l, more, zeroForOne) >= 0
    PROVE  NextSqrtPrice0(p, l, in, zeroForOne) >= NextSqrtPrice0(p, l, more, zeroForOne)
<1>0. MathWord \in Nat \ {0} /\ LibOne \in Nat \ {0}
  BY LibTyped
<1>1. l # 0
  BY DEF NextSqrtPrice0, DivisionByZero
<1>2. CASE zeroForOne
  <2>1. PICK m \in Nat, n \in Nat : m = l * in /\ n = l * more
    OBVIOUS
  <2>2. m <= n
    BY <2>1
  <2>3. Times(l, in) = Checked(m) /\ Times(l, more) = Checked(n)
    BY <2>1 DEF Times
  <2>4. /\ NextSqrtPrice0(p, l, in, zeroForOne) = Less(p, Over(Checked(m), p))
        /\ NextSqrtPrice0(p, l, more, zeroForOne) = Less(p, Over(Checked(n), p))
    BY <1>1, <1>2, <2>3, Zenon DEF NextSqrtPrice0
  <2>5. \A x \in Nat : Less(p, Over(Checked(x), p)) >= 0 =>
           /\ p # 0
           /\ Less(p, Over(Checked(x), p)) = p - (x \div p)
    <3> SUFFICES ASSUME NEW x \in Nat, Less(p, Over(Checked(x), p)) >= 0
                 PROVE  p # 0 /\ Less(p, Over(Checked(x), p)) = p - (x \div p)
      OBVIOUS
    <3>1. x < MathWord /\ p # 0
      <4>1. CASE ~(x < MathWord)
        <5>1. Over(Checked(x), p) = Overflow
          BY <4>1 DEF Checked, Over, Failed, Overflow
        <5> QED BY <5>1 DEF Less, Failed, Overflow
      <4>2. CASE x < MathWord /\ p = 0
        <5>1. Over(Checked(x), p) = DivisionByZero
          BY <4>2 DEF Checked, Over
        <5> QED BY <5>1 DEF Less, Failed, DivisionByZero
      <4> QED BY <4>1, <4>2
    <3>2. PICK q \in Nat : q = x \div p
      BY <3>1, DivNat
    <3>3. Over(Checked(x), p) = q
      BY <3>1, <3>2 DEF Checked, Over
    <3>4. Less(p, q) >= 0
      BY <3>3
    <3>5. Less(p, q) = p - q
      BY <3>4 DEF Less, Underflow
    <3> QED BY <3>1, <3>2, <3>3, <3>5
  <2>6. /\ p # 0
        /\ NextSqrtPrice0(p, l, in, zeroForOne) = p - (m \div p)
        /\ NextSqrtPrice0(p, l, more, zeroForOne) = p - (n \div p)
    BY <2>4, <2>5
  <2>7. m \div p <= n \div p /\ m \div p \in Int /\ n \div p \in Int
    <3>1. p \in Nat \ {0}
      BY <2>6
    <3> QED BY <2>2, <3>1, DivMono, DivBounds
  <2> QED BY <2>6, <2>7
<1>3. CASE ~zeroForOne
  <2>1. PICK m \in Nat, c \in Nat : m = l * LibOne /\ c = l * p
    BY <1>0
  <2>2. Times(l, LibOne) = Checked(m) /\ Times(l, p) = Checked(c)
    BY <1>0, <2>1 DEF Times
  <2> DEFINE rest == Over(Checked(c), LibOne)
  <2>3. /\ NextSqrtPrice0(p, l, in, zeroForOne) = Over(Checked(m), Plus(rest, in))
        /\ NextSqrtPrice0(p, l, more, zeroForOne) = Over(Checked(m), Plus(rest, more))
    BY <1>1, <1>3, <2>2, Zenon DEF NextSqrtPrice0
  <2>4. rest \in Int
    <3>1. c \div LibOne \in Int
      BY <1>0, DivBounds
    <3> QED BY <1>0, <3>1 DEF Checked, Over, Failed, Overflow
  <2> HIDE DEF rest
  <2>5. \A x \in Nat : Over(Checked(m), Plus(rest, x)) >= 0 =>
           /\ rest + x \in Nat \ {0}
           /\ Over(Checked(m), Plus(rest, x)) = m \div (rest + x)
    <3> SUFFICES ASSUME NEW x \in Nat, Over(Checked(m), Plus(rest, x)) >= 0
                 PROVE  /\ rest + x \in Nat \ {0}
                        /\ Over(Checked(m), Plus(rest, x)) = m \div (rest + x)
      OBVIOUS
    <3>1. m < MathWord
      <4>1. CASE ~(m < MathWord)
        <5>1. Checked(m) = Overflow
          BY <4>1 DEF Checked
        <5>2. Over(Overflow, Plus(rest, x)) = Overflow
          BY DEF Over, Failed, Overflow
        <5> QED BY <5>1, <5>2 DEF Overflow
      <4> QED BY <4>1
    <3>2. Checked(m) = m
      BY <3>1 DEF Checked
    <3>3. Plus(rest, x) \in Int
      BY <1>0, <2>4 DEF Plus, Checked, Failed, Overflow
    <3>4. Plus(rest, x) > 0
      <4>1. CASE Plus(rest, x) < 0
        BY <3>2, <3>3, <4>1 DEF Over, Failed
      <4>2. CASE Plus(rest, x) = 0
        BY <3>2, <4>2 DEF Over, DivisionByZero
      <4> QED BY <3>3, <4>1, <4>2
    <3>5. rest + x \in Nat \ {0} /\ Plus(rest, x) = rest + x
      BY <2>4, <3>4 DEF Plus, Checked, Failed, Overflow
    <3> QED BY <3>2, <3>5 DEF Over
  <2>6. /\ rest + in \in Nat \ {0} /\ rest + more \in Nat \ {0}
        /\ NextSqrtPrice0(p, l, in, zeroForOne) = m \div (rest + in)
        /\ NextSqrtPrice0(p, l, more, zeroForOne) = m \div (rest + more)
    BY <2>3, <2>5
  <2>7. rest + in <= rest + more
    BY <2>4
  <2>8. m \div (rest + more) <= m \div (rest + in)
    BY <2>6, <2>7, DivLess
  <2>9. m \div (rest + more) \in Int /\ m \div (rest + in) \in Int
    BY <2>6, DivBounds
  <2> QED BY <2>6, <2>8, <2>9
<1> QED BY <1>2, <1>3

\* What is asked of the arithmetic holds of every argument below the word's largest.
LEMMA ArithmeticAgrees ==
    ASSUME probe \in Nat, probe <= MathWord - 2
    PROVE  RootsAgree
<1>1. /\ Isqrt(probe) * Isqrt(probe) <= probe
      /\ probe < (Isqrt(probe) + 1) * (Isqrt(probe) + 1)
      /\ IntegerSqrt(probe) = Isqrt(probe)
  <2>1. IsRoot(Isqrt(probe), probe)
    BY IsqrtIsRoot
  <2>2. IsRoot(IntegerSqrt(probe), probe)
    BY IntegerSqrtIsRoot
  <2>3. IntegerSqrt(probe) = Isqrt(probe)
    BY <2>1, <2>2, OneRoot
  <2> QED BY <2>1, <2>3 DEF IsRoot
<1>2. LET t == TickOfPrice(probe)
      IN /\ t \in LowTick..HighTick
         /\ t = LowTick \/ PriceOfTick(t) <= probe
         /\ t = HighTick \/ probe < PriceOfTick(t + 1)
  BY TickOfPriceFound
<1>3. LibLiquidities \subseteq Nat /\ LibPrices \subseteq Nat /\ LibInputs \subseteq Nat
  BY MathAssumption
<1>4. LibraryAgrees
  <2> DEFINE Holds(l, a, m, b) ==
                 /\ Amount1Delta(l, a, b, probe) >= 0 =>
                       Amount1Delta(l, a, b, probe)
                         - Plus(Amount1Delta(l, a, m, probe), Amount1Delta(l, m, b, probe))
                              \in {0, 1}
                 /\ probe >= b /\ Amount0Delta(l, a, b, probe) >= 0 =>
                       Amount0Delta(l, a, b, probe) =
                         Plus(Amount0Delta(l, a, m, probe), Amount0Delta(l, m, b, probe))
  <2>1. ASSUME NEW l \in Nat, NEW a \in Nat, NEW m \in Nat, NEW b \in Nat, a <= m, m <= b
        PROVE  Holds(l, a, m, b)
    BY <2>1, HalvesHold0, HalvesHold1
  <2>2. LibraryAgrees <=> \A l \in LibLiquidities, a, m, b \in LibPrices :
                              a <= m /\ m <= b => Holds(l, a, m, b)
    BY Zenon DEF LibraryAgrees
  <2> HIDE DEF Holds
  <2> QED BY <1>3, <2>1, <2>2
<1>5. PricesMove
  <2> SUFFICES ASSUME NEW l \in Nat, NEW in \in Nat, NEW more \in Nat
               PROVE  LET next == NextSqrtPrice1(probe, l, in, TRUE)
                      IN /\ next >= 0 => /\ NextSqrtPrice1(next, l, in, FALSE) = probe
                                         /\ Amount1Delta(l, probe, next, next) <= in
                         /\ in <= more => \A zeroForOne \in BOOLEAN :
                               LET near == NextSqrtPrice0(probe, l, in, zeroForOne)
                                   far == NextSqrtPrice0(probe, l, more, zeroForOne)
                               IN near >= 0 /\ far >= 0 => near >= far
    BY <1>3, Zenon DEF PricesMove
  <2>1. LET next == NextSqrtPrice1(probe, l, in, TRUE)
        IN next >= 0 => /\ NextSqrtPrice1(next, l, in, FALSE) = probe
                        /\ Amount1Delta(l, probe, next, next) <= in
    BY MoveOfToken1, Zenon
  <2>2. in <= more => \A zeroForOne \in BOOLEAN :
           LET near == NextSqrtPrice0(probe, l, in, zeroForOne)
               far == NextSqrtPrice0(probe, l, more, zeroForOne)
           IN near >= 0 /\ far >= 0 => near >= far
    BY MoveOfToken0, Zenon
  <2> QED BY <2>1, <2>2, Zenon
<1> QED BY <1>1, <1>2, <1>4, <1>5, Zenon DEF RootsAgree

-----------------------------------------------------------------------------
(* The SDK's arithmetic beside the pool's. *)

\* A multiple of the divisor may be divided apart.
LEMMA DivShift ==
    ASSUME NEW d \in Nat \ {0}, NEW x \in Nat, NEW y \in Nat
    PROVE  (d * x + y) \div d = x + y \div d
<1>1. PICK q \in Nat : q = y \div d /\ d * q <= y /\ y < d * q + d
  BY DivNat, DivBounds
<1>2. PICK n \in Nat, m \in Nat : n = d * x /\ m = d * q
  OBVIOUS
<1>3. d * (x + q) = n + m /\ d * (x + q + 1) = n + m + d
  BY <1>2
<1>4. PICK k \in Int : k = (n + y) \div d /\ d * k <= n + y /\ n + y < d * k + d
  BY DivBounds
<1>5. x + q <= k
  <2>1. n + y \in Int /\ x + q \in Int /\ d * (x + q) <= n + y
    BY <1>1, <1>2, <1>3
  <2>2. x + q <= (n + y) \div d
    BY <2>1, DivAtLeast
  <2> QED BY <1>4, <2>2
<1>6. k < x + q + 1
  <2>1. d * k < d * (x + q + 1)
    BY <1>1, <1>2, <1>3, <1>4
  <2> QED BY <2>1, Cancelled
<1> QED BY <1>1, <1>2, <1>4, <1>5, <1>6

LEMMA ClOnes == One \in Nat \ {0} /\ TickUnits \in Nat \ {0}
BY ClPoolAssumption

\* Both convert a distance from One in the same way.
LEMMA DistanceSame ==
    ASSUME NEW d \in Nat
    PROVE  (d * TickUnits) \div One = (d \div One) * TickUnits + ((d % One) * TickUnits) \div One
<1>1. One \in Nat \ {0} /\ TickUnits \in Nat \ {0}
  BY ClOnes
<1>2. PICK q \in Nat, r \in Nat : q = d \div One /\ r = d % One /\ d = One * q + r
  <2>1. d \div One \in Nat
    BY <1>1, DivNat
  <2> QED BY <1>1, <2>1
<1>3. PICK x \in Nat, y \in Nat : x = q * TickUnits /\ y = r * TickUnits
  BY <1>1
<1>4. d * TickUnits = One * x + y
  <2>1. d * TickUnits = One * q * TickUnits + r * TickUnits
    BY <1>1, <1>2
  <2>2. One * q * TickUnits = One * x
    BY <1>1, <1>3
  <2> QED BY <1>3, <2>1, <2>2
<1>5. (One * x + y) \div One = x + y \div One
  BY <1>1, DivShift
<1> QED BY <1>2, <1>3, <1>4, <1>5, Zenon

LEMMA TicksSame ==
    ASSUME NEW p \in Nat \ {0}
    PROVE  SqrtPriceX96ToTick(p) = SqrtPriceToTick(p)
<1>1. One \in Nat \ {0}
  BY ClOnes
<1>2. CASE p >= One
  <2>1. p - One \in Nat
    BY <1>1, <1>2
  <2> QED BY <1>2, <2>1, DistanceSame, Zenon DEF SqrtPriceX96ToTick, SqrtPriceToTick
<1>3. CASE ~(p >= One)
  <2>1. One - p \in Nat
    BY <1>1, <1>3
  <2> QED BY <1>3, <2>1, DistanceSame, Zenon DEF SqrtPriceX96ToTick, SqrtPriceToTick
<1> QED BY <1>2, <1>3

LEMMA PricesSame ==
    ASSUME NEW t \in Int
    PROVE  TickToSqrtPriceX96(t) = MaxOf(1, TickToSqrtPrice(t))
<1>1. One \in Nat \ {0} /\ TickUnits \in Nat \ {0}
  BY ClOnes
<1>2. CASE t >= 0
  <2>1. PICK n \in Nat : n = (t * One) \div TickUnits
    <3>1. t * One \in Nat
      BY <1>1, <1>2
    <3> QED BY <1>1, <3>1, DivNat
  <2> QED BY <1>1, <1>2, <2>1 DEF TickToSqrtPriceX96, TickToSqrtPrice, MaxOf
<1>3. CASE ~(t >= 0)
  <2>1. PICK n \in Nat : n = ((-t) * One) \div TickUnits
    <3>1. (-t) * One \in Nat
      BY <1>1, <1>3
    <3> QED BY <1>1, <3>1, DivNat
  <2> QED BY <1>1, <1>3, <2>1 DEF TickToSqrtPriceX96, TickToSqrtPrice, MaxOf
<1> QED BY <1>2, <1>3

\* What a position is worth of token1 is the same to both.
LEMMA Token1Same ==
    ASSUME NEW p \in Nat, sqrtPrice = p, NEW n \in Nat, NEW lower \in Nat \ {0},
           NEW upper \in Nat, lower <= upper
    PROVE  GetAmountsForLiquidity(p, lower, upper, n)[1] = AmountsForLiquidity(n, lower, upper)[1]
<1> DEFINE at == MinOf(MaxOf(p, lower), upper)
<1>1. AmountsForLiquidity(n, lower, upper)[1] = (n * (at - lower)) \div One
  BY DEF AmountsForLiquidity, Tokens
<1>2. GetAmountsForLiquidity(p, lower, upper, n)[1] =
          IF p <= lower THEN 0 ELSE (n * (MinOf(p, upper) - lower)) \div One
  BY DEF GetAmountsForLiquidity, Tokens
<1>3. CASE p <= lower
  <2>1. at = lower
    BY <1>3 DEF MinOf, MaxOf
  <2>2. n * (at - lower) = 0 /\ 0 \div One = 0
    BY <2>1, ClOnes
  <2> QED BY <1>1, <1>2, <1>3, <2>2
<1>4. CASE ~(p <= lower)
  <2>1. at = MinOf(p, upper)
    BY <1>4 DEF MinOf, MaxOf
  <2> QED BY <1>1, <1>2, <1>4, <2>1, Zenon
<1> QED BY <1>3, <1>4

\* The API's reserve of token1 is what the positions would be closed for.
LEMMA ReservesSame ==
    ASSUME ClTyped
    PROVE  LET closing == [id \in DOMAIN position |->
                              AmountsForLiquidity(position[id].liquidity,
                                  TickToSqrtPrice(position[id].lower),
                                  TickToSqrtPrice(position[id].upper))]
           IN PoolReserves[1] = MapThenSumSet(LAMBDA id : closing[id][1], DOMAIN position)
<1> DEFINE closing == [id \in DOMAIN position |->
                          AmountsForLiquidity(position[id].liquidity,
                              TickToSqrtPrice(position[id].lower),
                              TickToSqrtPrice(position[id].upper))]
           of == [id \in DOMAIN position |->
                     GetAmountsForLiquidity(sqrtPrice, TickToSqrtPriceX96(position[id].lower),
                         TickToSqrtPriceX96(position[id].upper), position[id].liquidity)]
<1>1. Open(position) /\ Priced(position) /\ sqrtPrice \in Nat
  BY DEF ClTyped, SwapInv, TicksInv
<1>2. ASSUME NEW id \in DOMAIN position
      PROVE  closing[id][1] \in Int /\ of[id][1] = closing[id][1]
  <2>1. PICK l \in Ticks, u \in Ticks, n \in Nat :
            /\ position[id].lower = l /\ position[id].upper = u /\ position[id].liquidity = n
            /\ l < u /\ TickToSqrtPrice(l) > 0
    BY <1>1 DEF Open, Priced
  <2>2. l \in Int /\ u \in Int
    BY ClPoolAssumption
  <2>3. PICK x \in Nat \ {0}, y \in Nat \ {0} :
            x = TickToSqrtPrice(l) /\ y = TickToSqrtPrice(u) /\ x <= y
    BY <2>1, <2>2, TickPriceTyped, TickPricesRise
  <2>4. TickToSqrtPriceX96(l) = x /\ TickToSqrtPriceX96(u) = y
    <3>1. MaxOf(1, x) = x /\ MaxOf(1, y) = y
      BY <2>3 DEF MaxOf
    <3> QED BY <2>2, <2>3, <3>1, PricesSame
  <2>5. GetAmountsForLiquidity(sqrtPrice, x, y, n)[1] = AmountsForLiquidity(n, x, y)[1]
    BY <1>1, <2>3, Token1Same
  <2>6. AmountsForLiquidity(n, x, y)[1] \in Int
    BY <1>1, <2>3, PositionAmounts DEF Tokens
  <2>7. closing[id][1] = AmountsForLiquidity(n, x, y)[1]
    BY <2>1, <2>3, Zenon
  <2>8. of[id][1] = GetAmountsForLiquidity(sqrtPrice, x, y, n)[1]
    BY <2>1, <2>4, Zenon
  <2> QED BY <2>5, <2>6, <2>7, <2>8, Zenon
<1>3. PoolReserves[1] = FieldSum(of, 1, DOMAIN position)
  BY Zenon DEF PoolReserves, FieldSum, Tokens, MapThenSumSet, MapThenFoldSet
<1>4. MapThenSumSet(LAMBDA id : closing[id][1], DOMAIN position) =
          FieldSum(closing, 1, DOMAIN position)
  BY Zenon DEF FieldSum, MapThenSumSet, MapThenFoldSet
<1> HIDE DEF closing, of
<1>5. FieldSum(of, 1, DOMAIN position) = FieldSum(closing, 1, DOMAIN position)
  <2>1. IsFiniteSet(DOMAIN position)
    BY <1>1 DEF Open
  <2>2. \A id \in DOMAIN position : closing[id][1] \in Int /\ of[id][1] = closing[id][1]
    BY <1>2
  <2> QED BY <2>1, <2>2, FieldSame
<1>6. PoolReserves[1] = MapThenSumSet(LAMBDA id : closing[id][1], DOMAIN position)
  BY <1>3, <1>4, <1>5, Zenon
<1> QED BY <1>6, Zenon DEF closing

\* A quotient times its divisor, divided again.
LEMMA PaidBack ==
    ASSUME NEW n \in Int, NEW w \in Nat \ {0}, NEW d \in Nat \ {0}, NEW b \in Int, n = b * d
    PROVE  ((n \div w) * w) \div d <= b
<1>1. PICK q \in Int : q = n \div w /\ w * q <= n
  BY DivBounds
<1>2. q * w <= n /\ q * w \in Int
  BY <1>1
<1>3. PICK k \in Int : k = (q * w) \div d /\ d * k <= q * w
  BY <1>2, DivBounds
<1>4. d * k < d * (b + 1)
  BY <1>2, <1>3
<1>5. k < b + 1
  BY <1>4, Cancelled
<1> QED BY <1>1, <1>3, <1>5

\* Liquidity computed from two amounts costs no more token1 than given.
LEMMA NeverMore ==
    ASSUME NEW p \in Nat, sqrtPrice = p, NEW lower \in Nat, NEW upper \in Nat, lower < upper,
           NEW a \in Nat, NEW b \in Nat
    PROVE  AmountsForLiquidity(GetLiquidityForAmounts(p, lower, upper, a, b), lower, upper)[1] <= b
<1> DEFINE at == MinOf(MaxOf(p, lower), upper)
           liquidity == GetLiquidityForAmounts(p, lower, upper, a, b)
           of1(x) == (b * One) \div (x - lower)
           of0(x) == (a * x * upper) \div (One * (upper - x))
<1>0. One \in Nat \ {0} /\ b * One \in Int
  BY ClOnes
<1>1. AmountsForLiquidity(liquidity, lower, upper)[1] = (liquidity * (at - lower)) \div One
  <2> HIDE DEF liquidity
  <2> QED BY DEF AmountsForLiquidity, Tokens
<1>2. liquidity = IF p <= lower THEN of0(lower) ELSE IF p >= upper THEN of1(upper)
                  ELSE MinOf(of0(p), of1(p))
  BY Zenon DEF GetLiquidityForAmounts
<1>3. \A x \in Nat : x < upper => of0(x) \in Int
  <2> SUFFICES ASSUME NEW x \in Nat, x < upper PROVE of0(x) \in Int
    OBVIOUS
  <2>1. a * x * upper \in Int
    OBVIOUS
  <2>2. One * (upper - x) \in Nat \ {0}
    BY <1>0
  <2> QED BY <2>1, <2>2, DivBounds
<1>4. \A x \in Nat : lower < x => of1(x) \in Int /\ (of1(x) * (x - lower)) \div One <= b
  <2> SUFFICES ASSUME NEW x \in Nat, lower < x
               PROVE  of1(x) \in Int /\ (of1(x) * (x - lower)) \div One <= b
    OBVIOUS
  <2>1. x - lower \in Nat \ {0}
    OBVIOUS
  <2>2. of1(x) \in Int
    BY <1>0, <2>1, DivBounds
  <2>3. PICK n \in Int : n = b * One
    BY <1>0
  <2>4. ((n \div (x - lower)) * (x - lower)) \div One <= b
    BY <1>0, <2>1, <2>3, PaidBack
  <2> QED BY <2>2, <2>3, <2>4
<1> HIDE DEF of0, of1, liquidity
<1>5. CASE p <= lower
  <2>1. at = lower
    BY <1>5 DEF MinOf, MaxOf
  <2>2. of0(lower) \in Int /\ liquidity = of0(lower)
    BY <1>2, <1>3, <1>5
  <2>3. liquidity * (at - lower) = 0 /\ 0 \div One = 0
    BY <1>0, <2>1, <2>2
  <2> QED BY <1>1, <2>3 DEF liquidity
<1>6. CASE ~(p <= lower) /\ p >= upper
  <2>1. at = upper
    BY <1>6 DEF MinOf, MaxOf
  <2>2. liquidity = of1(upper)
    BY <1>2, <1>6
  <2> QED BY <1>1, <1>4, <2>1, <2>2 DEF liquidity
<1>7. CASE ~(p <= lower) /\ ~(p >= upper)
  <2>1. at = p /\ p - lower \in Nat
    BY <1>7 DEF MinOf, MaxOf
  <2>2. of0(p) \in Int /\ of1(p) \in Int /\ (of1(p) * (p - lower)) \div One <= b
    BY <1>3, <1>4, <1>7
  <2>3. PICK i \in Int, j \in Int : i = liquidity /\ j = of1(p) /\ i <= j
    BY <1>2, <1>7, <2>2 DEF MinOf
  <2>4. i * (p - lower) <= j * (p - lower)
    BY <2>1, <2>3
  <2>5. (i * (p - lower)) \div One <= (j * (p - lower)) \div One
        /\ (i * (p - lower)) \div One \in Int /\ (j * (p - lower)) \div One \in Int
    <3>1. i * (p - lower) \in Int /\ j * (p - lower) \in Int
      BY <2>1, <2>3
    <3> QED BY <1>0, <2>4, <3>1, DivMono, DivBounds
  <2>6. (i * (p - lower)) \div One <= b
    BY <2>2, <2>3, <2>5
  <2> QED BY <1>1, <2>1, <2>3, <2>6 DEF liquidity
<1> QED BY <1>5, <1>6, <1>7

\* What is asked of the SDK holds of every pool the calls lead to.
LEMMA SdkAlwaysAgrees == ASSUME ClTyped PROVE SdkAgrees
<1>1. \A p \in SdkPrices : SqrtPriceX96ToTick(p) = SqrtPriceToTick(p)
  BY SdkAssumption, TicksSame
<1>2. \A t \in Ticks : TickToSqrtPriceX96(t) = MaxOf(1, TickToSqrtPrice(t))
  <2>1. \A t \in Ticks : t \in Int
    BY ClPoolAssumption
  <2> QED BY <2>1, PricesSame
<1>3. \A l, u \in Ticks : \A a, b \in SdkAmounts :
          LET lower == TickToSqrtPrice(l)
              upper == TickToSqrtPrice(u)
              liquidity == GetLiquidityForAmounts(sqrtPrice, lower, upper, a, b)
          IN lower < upper => AmountsForLiquidity(liquidity, lower, upper)[1] <= b
  <2> SUFFICES ASSUME NEW l \in Ticks, NEW u \in Ticks, NEW a \in SdkAmounts, NEW b \in SdkAmounts,
                      TickToSqrtPrice(l) < TickToSqrtPrice(u)
               PROVE  AmountsForLiquidity(
                          GetLiquidityForAmounts(sqrtPrice, TickToSqrtPrice(l), TickToSqrtPrice(u), a, b),
                          TickToSqrtPrice(l), TickToSqrtPrice(u))[1] <= b
    BY Zenon
  <2>1. l \in Int /\ u \in Int /\ a \in Nat /\ b \in Nat
    BY ClPoolAssumption, SdkAssumption
  <2>2. TickToSqrtPrice(l) \in Nat /\ TickToSqrtPrice(u) \in Nat
    BY <2>1, TickPriceTyped
  <2>3. sqrtPrice \in Nat
    BY DEF ClTyped, SwapInv
  <2> QED BY <2>1, <2>2, <2>3, NeverMore
<1> QED BY <1>1, <1>2, <1>3, ReservesSame, Zenon DEF SdkAgrees

-----------------------------------------------------------------------------
(* All of the arithmetic. *)

MathInv == /\ ClTyped /\ BitmapInv
           /\ focus = "math" => probe \in Probes

\* The roots and the search of a price's tick are the floors they should be, the
\* amounts of math-lib fit together, the bitmap's search finds the next boundary
\* and the SDK counts as the contract does, whatever the constants and after any
\* calls.
THEOREM MathAgreesCorrect == ContractsSpec => []MathAgrees
<1>1. ContractsInit => MathInv
  <2> SUFFICES ASSUME ContractsInit PROVE MathInv
    OBVIOUS
  <2>1. ClInit /\ BitmapInit
    BY DEF ContractsInit
  <2>2. focus = "math" => probe \in Probes
    BY DEF ContractsInit, MathInit
  <2> QED BY <2>1, <2>2, ClTypesInitial, BitmapInitial DEF MathInv
<1>2. MathInv /\ [ContractsNext]_contractVars => MathInv'
  <2> SUFFICES ASSUME MathInv, [ContractsNext]_contractVars PROVE MathInv'
    OBVIOUS
  <2>1. [ClNext]_clVars /\ [BitmapNext]_bitmapVars
    BY DEF ContractsNext, contractVars
  <2>2. focus' = "math" => probe' \in Probes
    BY DEF MathInv, ContractsNext, contractVars, MathNext
  <2> QED BY <2>1, <2>2, ClTypesInductive, BitmapInductive DEF MathInv
<1>3. MathInv => MathAgrees
  <2> SUFFICES ASSUME MathInv PROVE MathAgrees
    OBVIOUS
  <2>1. focus = "math" => RootsAgree
    <3> SUFFICES ASSUME focus = "math" PROVE RootsAgree
      OBVIOUS
    <3>1. probe \in Nat /\ probe <= MathWord - 2
      <4>1. probe \in Probes
        BY Zenon DEF MathInv
      <4>2. Probes \subseteq 0..(MathWord - 2) /\ MathWord \in Nat
        BY MathAssumption
      <4> QED BY <4>1, <4>2
    <3> QED BY <3>1, ArithmeticAgrees
  <2>2. BitmapExact
    BY BitmapMeans DEF MathInv
  <2>3. SdkAgrees
    BY SdkAlwaysAgrees DEF MathInv
  <2> QED BY <2>1, <2>2, <2>3 DEF MathAgrees
<1> QED BY <1>1, <1>2, <1>3, PTL DEF ContractsSpec
=============================================================================
