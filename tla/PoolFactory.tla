---------------------------- MODULE PoolFactory ----------------------------
(* The pool factory (pool-factory/src/lib.rs). A call is atomic: the loading *)
(* flag it raises around a deployment is down again, or the call reverted,   *)
(* when the next call begins. A pool's address is derived from its key.      *)
EXTENDS Integers, FiniteSets

CONSTANTS FactoryTokens,   \* addresses, as numbers in the order of their text
          FeeTiers,        \* the tiers validate_fee_tier accepts
          Unsupported,     \* a tier it does not
          Accounts,        \* who may own the factory
          Hashes           \* of pool code

ASSUME FactoryAssumption == FactoryTokens \subseteq Nat

VARIABLES ownerAccount,    \* Owner
          wasmHash,        \* PoolWasmHash
          pools,           \* Pools: the keys registered
          deployed         \* the code of each deployed pool, by key

factoryVars == <<ownerAccount, wasmHash, pools, deployed>>

\* A registry keyed by the pair as the caller wrote it.
UnsortedPair(a, b) == <<a, b>>

NormalizePair(a, b) == IF a < b THEN <<a, b>> ELSE <<b, a>>

FactoryInit ==
    /\ ownerAccount \in Accounts
    /\ wasmHash \in Hashes
    /\ pools = {}
    /\ deployed = <<>>

CreatePool(a, b, fee) ==
    LET pair == NormalizePair(a, b)
        key == [token_a |-> pair[1], token_b |-> pair[2], fee_tier |-> fee]
    IN /\ fee \in FeeTiers
       /\ a # b
       /\ key \notin pools
       /\ key \notin DOMAIN deployed
       /\ deployed' = [k \in DOMAIN deployed \cup {key} |->
                          IF k = key THEN wasmHash ELSE deployed[k]]
       /\ pools' = pools \cup {key}
       /\ UNCHANGED <<ownerAccount, wasmHash>>

SetPoolWasmHash(caller, hash) ==
    /\ caller = ownerAccount
    /\ wasmHash' = hash
    /\ UNCHANGED <<ownerAccount, pools, deployed>>

SetOwner(caller, new) ==
    /\ caller = ownerAccount
    /\ ownerAccount' = new
    /\ UNCHANGED <<wasmHash, pools, deployed>>

FactoryNext ==
    \/ \E a, b \in FactoryTokens, f \in FeeTiers \cup {Unsupported} : CreatePool(a, b, f)
    \/ \E c \in Accounts : \/ \E h \in Hashes : SetPoolWasmHash(c, h)
                           \/ \E o \in Accounts : SetOwner(c, o)

FactorySpec == FactoryInit /\ [][FactoryNext]_factoryVars

\* get_pool
GetPool(a, b, fee) ==
    LET pair == NormalizePair(a, b)
        key == [token_a |-> pair[1], token_b |-> pair[2], fee_tier |-> fee]
    IN IF key \in pools THEN {key} ELSE {}

\* The factory's entries have the types of its storage.
FactoryTypeOK ==
    /\ ownerAccount \in Accounts /\ wasmHash \in Hashes
    /\ pools \subseteq [token_a : FactoryTokens, token_b : FactoryTokens, fee_tier : FeeTiers]
    /\ \A k \in DOMAIN deployed : deployed[k] \in Hashes

\* Two tokens and a fee tier have at most one pool, in whichever order the
\* tokens were given to create_pool, both orders find it, and the pools that
\* were deployed are the ones registered.
OnePoolPerPair ==
    /\ \A p, q \in pools :
          /\ {p.token_a, p.token_b} = {q.token_a, q.token_b}
          /\ p.fee_tier = q.fee_tier
          => p = q
    /\ DOMAIN deployed = pools
    /\ \A p \in pools : /\ Cardinality({p.token_a, p.token_b}) = 2
                        /\ GetPool(p.token_a, p.token_b, p.fee_tier) = {p}
                        /\ GetPool(p.token_b, p.token_a, p.fee_tier) = {p}
=============================================================================
