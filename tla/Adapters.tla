------------------------------- MODULE Adapters -------------------------------
(***************************************************************************)
(* The AMM and vault adapters under one host.  A change goes to the adapter *)
(* that owns its contract (OwnsContract), the adapters share no state and  *)
(* their outputs are slices of their own, so a behaviour of the host is    *)
(* one of each adapter: `adapter' is the one the ledgers are for.          *)
(***************************************************************************)
EXTENDS Naturals

CONSTANTS
    None,
    Pairs, Holders, Shares, Contents, SeededPairs,           \* Soroswap
    Accounts, Denominations, VaultAmounts,                   \* FxDAO
    Pools, Owners, Ranges, Amounts, Supplies,                \* Aquarius
    SeededOwners, SeedAmount, SeedReward, UserRemovals,
    HostRetells, MaxRestarts,
    MaxPairChanges, MaxVaultChanges, MaxPoolChanges          \* bounds: a ledger's changes

VARIABLES
    adapter,
    pairs, pairPools, pairPositions, pairDirty, pairRestarts, pairChain, held,
    vaults, infos, vaultDirty, vaultChain,
    seeded, mapped, pools, positions, poolRestarts, poolChain

S == INSTANCE Soroswap WITH
        Seeded <- SeededPairs, MaxChanges <- MaxPairChanges, pools <- pairPools,
        positions <- pairPositions, dirty <- pairDirty, restarts <- pairRestarts,
        chain <- pairChain

F == INSTANCE FxDAO WITH
        Amounts <- VaultAmounts, MaxChanges <- MaxVaultChanges,
        dirty <- vaultDirty, chain <- vaultChain

A == INSTANCE Aquarius WITH
        MaxChanges <- MaxPoolChanges, restarts <- poolRestarts, chain <- poolChain

ASSUME AdaptersAssumption == S!SoroswapAssumption /\ F!FxDAOAssumption /\ A!AquariusAssumption

soroswapVars == <<pairs, pairPools, pairPositions, pairDirty, pairRestarts, pairChain, held>>
fxdaoVars == <<vaults, infos, vaultDirty, vaultChain>>
aquariusVars == <<seeded, mapped, pools, positions, poolRestarts, poolChain>>

vars == <<adapter, soroswapVars, fxdaoVars, aquariusVars>>

Init ==
    /\ adapter \in {"soroswap", "fxdao", "aquarius"}
    /\ S!Init /\ F!Init /\ A!Init
    /\ adapter # "aquarius" => seeded = {}

Soroswap ==
    /\ adapter = "soroswap"
    /\ S!Next
    /\ UNCHANGED <<adapter, fxdaoVars, aquariusVars>>

FxDAO ==
    /\ adapter = "fxdao"
    /\ F!Next
    /\ UNCHANGED <<adapter, soroswapVars, aquariusVars>>

Aquarius ==
    /\ adapter = "aquarius"
    /\ A!Next
    /\ UNCHANGED <<adapter, soroswapVars, fxdaoVars>>

Next == Soroswap \/ FxDAO \/ Aquarius

Spec == Init /\ [][Next]_vars

-----------------------------------------------------------------------------
(* The adapters' properties, by the names of this module.                  *)

\* Each adapter's state and report are of their types.
AdaptersTypeOK == S!SoroswapTypeOK /\ F!FxDAOTypeOK /\ A!AquariusTypeOK

\* Soroswap: positions, tombstones and report (soroswap/state.go, transform.go).
PositionsFollowChain == S!PositionsFollowChain
ClosedPositionsEmitTombstones == S!ClosedPositionsEmitTombstones
DirtyPositionsComplete == S!DirtyPositionsComplete

\* FxDAO: rows and report (fxdao/state.go, transform.go).
VaultsFollowChain == F!VaultsFollowChain
DirtyVaultsComplete == F!DirtyVaultsComplete

\* Aquarius: amounts, rewards, pools, seeds and tombstones (aquarius/state.go,
\* transform.go).
AmountsFollowChain == A!AmountsFollowChain
RewardsFollowChain == A!RewardsFollowChain
PoolsFollowChain == A!PoolsFollowChain
ClosedRowsEmitTombstones == A!ClosedRowsEmitTombstones
RowsAreOverwritten == A!RowsAreOverwritten

\* DecodeState is "a PURE reducer" whose carry-over "threads through
\* *LedgerState" (bindings/types.go:276): a new process decoding on from the
\* committed state loses nothing of what the chain says.
RestartsLoseNothing == S!PositionsFollowChain /\ A!AmountsFollowChain
=============================================================================
