---------------------------- MODULE MCContracts ----------------------------
(* The contracts. In this commit they share no storage: nothing wires a pool *)
(* to the fee collector, the factory deploys pools without initializing them,*)
(* and the oracle adapter only sees the prices a pool sends it. Interleaving *)
(* their calls would multiply their states and nothing else: a behaviour     *)
(* runs one of them, its `focus`.                                            *)
EXTENDS OracleAdapter, Pool, PoolFactory, FeeCollector, TickMath

VARIABLE focus

contractVars == <<vars, clVars, poolVars, factoryVars, feeVars, probe, bitmapVars, focus>>

ContractsInit ==
    /\ focus \in {"oracle", "cl-pool", "pool", "factory", "collector", "math", "bits"}
    /\ OracleInit /\ ClInit /\ PoolInit /\ FactoryInit /\ FeeInit
    /\ IF focus = "math" THEN MathInit ELSE probe = 0
    /\ BitmapInit /\ (focus # "bits" => contract = "pool")

ContractsNext ==
    /\ UNCHANGED focus
    /\ \/ /\ focus = "oracle" /\ OracleNext
          /\ UNCHANGED <<clVars, poolVars, factoryVars, feeVars, probe, bitmapVars>>
       \/ /\ focus = "cl-pool" /\ ClNext
          /\ UNCHANGED <<vars, poolVars, factoryVars, feeVars, probe, bitmapVars>>
       \/ /\ focus = "pool" /\ PoolNext
          /\ UNCHANGED <<vars, clVars, factoryVars, feeVars, probe, bitmapVars>>
       \/ /\ focus = "factory" /\ FactoryNext
          /\ UNCHANGED <<vars, clVars, poolVars, feeVars, probe, bitmapVars>>
       \/ /\ focus = "collector" /\ FeeNext
          /\ UNCHANGED <<vars, clVars, poolVars, factoryVars, probe, bitmapVars>>
       \/ /\ focus = "math" /\ MathNext
          /\ UNCHANGED <<vars, clVars, poolVars, factoryVars, feeVars, bitmapVars>>
       \/ /\ focus = "bits" /\ BitmapNext
          /\ UNCHANGED <<vars, clVars, poolVars, factoryVars, feeVars, probe>>

ContractsSpec == ContractsInit /\ [][ContractsNext]_contractVars

\* Every contract's storage has the types of its entries.
ContractsTypeOK == /\ OracleTypeOK /\ ClTypeOK /\ PoolTypeOK
                   /\ FactoryTypeOK /\ FeeTypeOK /\ probe \in Nat /\ BitmapTypeOK

\* Boundaries carry what the positions that use them add up to, in both pools.
TicksAccounted == TicksMatchPositions /\ TicksBalance

\* The contracts' roots and searches, the bitmap of ticks, and the SDK's arithmetic
\* about a pool.
MathAgrees == /\ focus = "math" => RootsAgree
              /\ focus = "bits" => BitmapExact
              /\ focus = "cl-pool" => SdkAgrees

TwoPrices == {2, 5}
MCTicks == {-2, 0, 2}
MCMinTick == -6
MCLowTick == -7
MCBitLow == -11
MCProbes == 0..254
MCSdkPrices == 1..40
MCTickPrice == [t \in -3..3 |-> 16 + 3 * t]
=============================================================================
