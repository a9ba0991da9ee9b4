-------------------------- MODULE BlendBackstopState --------------------------
(***************************************************************************)
(* Backstop deposits in the Blend reducer (blend/state.go, state_comet.go) *)
(* and the set of holders each decode reports as invalidated               *)
(* (LastDirtyBackstops).                                                   *)
(*                                                                         *)
(* A holder's position joins its own balance and emission entries with the *)
(* pool's balance, the Comet LP the pool's backstop contract names and the *)
(* price of the LP's tokens.  The pool level balance and emissions have no *)
(* slice of their own in the LedgerState: they ride on the pool.           *)
(*                                                                         *)
(* Abstraction: an amount stands for the raw strings of one entry; an      *)
(* instance names its BToken only (the price legs come with it); the price *)
(* of the LP's tokens is one value, written by the mock oracle.            *)
(***************************************************************************)
EXTENDS BlendComet

CONSTANTS
    Users, Pools,
    Backstops,      \* backstop contracts
    Comets          \* registered Comet (BToken) contracts

Pairs == Users \X Pools

User(pair) == pair[1]
Pool(pair) == pair[2]

\* What pool.state carries: the backstop link and the two pool level entries.
PoolState == [backstop  : Backstops \cup {None},
              balance   : Amounts \cup {None},
              emissions : Amounts \cup {None}]

\* backstopUserBalance: UserBalance and UEmisData are sibling entries; a row
\* with neither half is dropped.
Halves == [shares : Amounts \cup {None}, accrued : Amounts \cup {None}]

Holder == {h \in Halves : h.shares # None \/ h.accrued # None}

ASSUME BackstopNoneAssumption ==
    /\ None \notin Backstops
    /\ None \notin Comets
    /\ None \notin PoolState
    /\ None \notin Halves

Mirror == [pools     : [Pools -> PoolState \cup {None}],
           balances  : [Pools -> Amounts \cup {None}],
           emissions : [Pools -> Amounts \cup {None}],
           holders   : [Pairs -> Holder \cup {None}],
           instances : [Backstops -> Comets \cup {None}],
           comets    : [Comets -> Facets \cup {None}],
           price     : Amounts \cup {None},
           repriced  : BOOLEAN,
           touched   : SUBSET Pairs]

\* BackstopPosition: the valuation inputs of one holder.
Position == [holder     : Holder,
             poolShares : Amounts \cup {None},
             supply     : Amounts \cup {None},
             reserves   : [Tokens -> Amounts \cup {None}],
             price      : Amounts \cup {None}]

State == [pools     : [Pools -> PoolState \cup {None}],
          positions : [Pairs -> Position \cup {None}],
          instances : [Backstops -> Comets \cup {None}],
          ammPools  : [Comets -> Carrier \cup {None}],
          price     : Amounts \cup {None}]

ASSUME PositionNoneAssumption == None \notin Position

NewPool == [backstop |-> None, balance |-> None, emissions |-> None]

EnsurePool(pool) == IF pool = None THEN NewPool ELSE pool

EmptyMirror == [pools     |-> [p \in Pools |-> None],
                balances  |-> [p \in Pools |-> None],
                emissions |-> [p \in Pools |-> None],
                holders   |-> [k \in Pairs |-> None],
                instances |-> [b \in Backstops |-> None],
                comets    |-> [c \in Comets |-> None],
                price     |-> None,
                repriced  |-> FALSE,
                touched   |-> {}]

-----------------------------------------------------------------------------
(* Links and valuation.                                                    *)

\* The Comet behind a pool: pool -> backstop contract -> BToken, None as soon
\* as one half is not decoded.  m is a mirror or a state.
CometOf(m, p) ==
    IF m.pools[p] = None \/ m.pools[p].backstop = None THEN None
    ELSE m.instances[m.pools[p].backstop]

LinkedComet(m, p) ==
    IF CometOf(m, p) = None THEN UnseenComet ELSE EnsureComet(m.comets[CometOf(m, p)])

\* backstopPosition.
Value(m, k) ==
    IF m.holders[k] = None THEN None
    ELSE [holder     |-> m.holders[k],
          poolShares |-> m.balances[Pool(k)],
          supply     |-> LinkedComet(m, Pool(k)).supply,
          reserves   |-> [t \in Tokens |-> ReserveOf(LinkedComet(m, Pool(k)), t)],
          price      |-> IF CometOf(m, Pool(k)) = None THEN None ELSE m.price]

HoldersOf(m, pools) == {k \in Pairs : m.holders[k] # None /\ Pool(k) \in pools}

\* markBackstopPoolDirty, for each of the given pools.
MarkPools(m, pools) == [m EXCEPT !.touched = @ \cup HoldersOf(m, pools)]

\* markCometDirty.
MarkComet(m, c) == MarkPools(m, {p \in Pools : CometOf(m, p) = c})

\* propagateFeedPriceDirty / markPriceAssetDirty, once the changes are in.
MarkRepriced(m) ==
    IF m.repriced THEN MarkPools(m, {p \in Pools : CometOf(m, p) # None}) ELSE m

-----------------------------------------------------------------------------
(* The per-ledger round trip.                                              *)

\* Mutant: the emission fields are merged the way the balance is.
MergeEmissionsIfPresent(stored, carried) == IF carried = None THEN stored ELSE carried

\* mergeBackstopEmis: a deleted entry clears the field on the pool.
MergeEmissions(stored, carried) == carried

\* build: a carried balance is written on the pool, a missing one leaves what
\* the pool had.
MergeBalance(stored, carried) == IF carried = None THEN stored ELSE carried

MergedPools(m) ==
    [p \in Pools |->
        IF m.pools[p] = None THEN None
        ELSE [m.pools[p] EXCEPT !.balance   = MergeBalance(@, m.balances[p]),
                                !.emissions = MergeEmissions(@, m.emissions[p])]]

Build(m) ==
    [pools     |-> MergedPools(m),
     positions |-> [k \in Pairs |-> Value(m, k)],
     instances |-> m.instances,
     ammPools  |-> [c \in Comets |-> IF m.comets[c] = None THEN None
                                     ELSE BuildComet(m.comets[c])],
     price     |-> m.price]

\* What the pools of a state carry of one pool level entry.
Stored(pools, field) ==
    [p \in Pools |-> IF pools[p] = None THEN None ELSE pools[p][field]]

LoadPrior(s) ==
    [pools     |-> s.pools,
     balances  |-> Stored(s.pools, "balance"),
     emissions |-> Stored(s.pools, "emissions"),
     holders   |-> [k \in Pairs |-> IF s.positions[k] = None THEN None
                                    ELSE s.positions[k].holder],
     instances |-> s.instances,
     comets    |-> [c \in Comets |-> IF s.ammPools[c] = None THEN None
                                     ELSE RestoreComet(s.ammPools[c])],
     price     |-> s.price,
     repriced  |-> FALSE,
     touched   |-> {}]

\* Mutant: the balances are carried as they are.
NormalizeEmissionsOnly(m) ==
    [m EXCEPT !.emissions = Stored(m.pools, "emissions"),
              !.repriced  = FALSE,
              !.touched   = {}]

\* normalizeCarry: the pool level maps are rebuilt from the pools, all else is
\* carried as it is.
NormalizeCarry(m) ==
    [m EXCEPT !.balances  = Stored(m.pools, "balance"),
              !.emissions = Stored(m.pools, "emissions"),
              !.repriced  = FALSE,
              !.touched   = {}]

\* snapshot merges the pool level entries into the pools it keeps.
Keep(m) == [m EXCEPT !.pools = MergedPools(m)]

-----------------------------------------------------------------------------
(* apply / applyDelete.                                                    *)

\* A live pool entry that only has to make the pool known.
WritePool(m, p) == [m EXCEPT !.pools[p] = EnsurePool(@)]

\* Config or ResList not live.
DeletePool(m, p) == [m EXCEPT !.pools[p] = None]

WriteLink(m, p, b) ==
    [m EXCEPT !.pools[p] = [EnsurePool(@) EXCEPT !.backstop = b]]

DeleteLink(m, p) ==
    IF m.pools[p] = None THEN m ELSE [m EXCEPT !.pools[p].backstop = None]

WriteInstance(m, b, c) == [m EXCEPT !.instances[b] = c]

DeleteInstance(m, b) == [m EXCEPT !.instances[b] = None]

WritePoolBalance(m, p, v) == MarkPools([m EXCEPT !.balances[p] = v], {p})

DeletePoolBalance(m, p) == MarkPools([m EXCEPT !.balances[p] = None], {p})

WritePoolEmissions(m, p, v) == [m EXCEPT !.emissions[p] = v]

DeletePoolEmissions(m, p) == [m EXCEPT !.emissions[p] = None]

Touch(m, k, holder) ==
    [m EXCEPT !.holders[k] = holder, !.touched = @ \cup {k}]

EnsureHolder(holder) ==
    IF holder = None THEN [shares |-> None, accrued |-> None] ELSE holder

\* Mutant: the decoded balance replaces the entry with its emission half.
OverwriteShares(m, k, v) == Touch(m, k, [shares |-> v, accrued |-> None])

WriteShares(m, k, v) ==
    Touch(m, k, [EnsureHolder(m.holders[k]) EXCEPT !.shares = v])

\* The row goes with its last half.
DeleteShares(m, k) ==
    IF m.holders[k] # None /\ m.holders[k].accrued # None
    THEN Touch(m, k, [m.holders[k] EXCEPT !.shares = None])
    ELSE Touch(m, k, None)

WriteAccrued(m, k, v) ==
    Touch(m, k, [EnsureHolder(m.holders[k]) EXCEPT !.accrued = v])

\* Mutant: the row outlives its last half.
DeleteAccruedKeepingRow(m, k) ==
    IF m.holders[k] = None THEN m
    ELSE Touch(m, k, [m.holders[k] EXCEPT !.accrued = None])

DeleteAccrued(m, k) ==
    IF m.holders[k] = None THEN m
    ELSE IF m.holders[k].shares = None THEN Touch(m, k, None)
    ELSE Touch(m, k, [m.holders[k] EXCEPT !.accrued = None])

WriteCometInstance(m, c) ==
    MarkComet([m EXCEPT !.comets[c] = CometInstance(@)], c)

WriteCometFacet(m, c, facet, v) ==
    MarkComet([m EXCEPT !.comets[c] = WriteFacet(@, facet, v)], c)

\* Mutant: a lapsed facet invalidates nobody.
LapseCometFacetQuietly(m, c, facet) ==
    [m EXCEPT !.comets[c] = LapseFacet(@, facet)]

LapseCometFacet(m, c, facet) ==
    IF m.comets[c] = None THEN m
    ELSE MarkComet([m EXCEPT !.comets[c] = LapseFacet(@, facet)], c)

\* A price entry of the mock oracle, written (v) or gone (None).
Reprice(m, v) == [m EXCEPT !.price = v, !.repriced = TRUE]
=============================================================================
