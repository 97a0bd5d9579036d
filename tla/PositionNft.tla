---------------------------- MODULE PositionNft ----------------------------
(* The contract of the position NFTs (position-nft/src/lib.rs). Its minter,  *)
(* the pool it was initialized with, mints, updates and burns; the owner of  *)
(* a token hands it on. A call is atomic and a refused one changes nothing.  *)
EXTENDS Integers

CONSTANTS Owners,    \* accounts
          Ticks      \* ticks that may bound a position

VARIABLES nft,       \* metadata of the tokens that exist, by id
          nextNft    \* NextId

nftVars == <<nft, nextNft>>

\* A partial function with one more entry, or one less.
With(f, x, v) == [y \in DOMAIN f \cup {x} |-> IF y = x THEN v ELSE f[y]]
Without(f, x) == [y \in DOMAIN f \ {x} |-> f[y]]

NftInit == nft = <<>> /\ nextNft = 0

\* mint: the id it returns is the counter before the call.
MintNft(owner, lower, upper, liquidity) ==
    /\ liquidity > 0
    /\ lower < upper
    /\ nft' = With(nft, nextNft, [owner |-> owner, lower |-> lower,
                                  upper |-> upper, liquidity |-> liquidity])
    /\ nextNft' = nextNft + 1

\* burn
BurnNft(id) ==
    /\ id \in DOMAIN nft
    /\ nft' = Without(nft, id)
    /\ UNCHANGED nextNft

\* update_liquidity that answers without storing.
UpdateNftLost(id, liquidity) == liquidity > 0 /\ id \in DOMAIN nft /\ UNCHANGED nftVars

\* update_liquidity
UpdateNft(id, liquidity) ==
    /\ liquidity > 0
    /\ id \in DOMAIN nft
    /\ nft' = [nft EXCEPT ![id].liquidity = liquidity]
    /\ UNCHANGED nextNft

\* transfer, authorized by the owner.
TransferNft(from, to, id) ==
    /\ id \in DOMAIN nft
    /\ nft[id].owner = from
    /\ nft' = [nft EXCEPT ![id].owner = to]
    /\ UNCHANGED nextNft
=============================================================================
