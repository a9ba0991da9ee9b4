---------------------------- MODULE BlendProjection ----------------------------
(***************************************************************************)
(* The output rows of the Blend adapter (blend/math.go, computeState;      *)
(* blend/adapter.go, Transform, ProjectPositions, ProjectBackstopPositions *)
(* and emitTombstones) and the view a consumer keeps of them.              *)
(*                                                                         *)
(* A consumer stores a row per position and a summary per account.  It     *)
(* replaces the whole view with a Transform, or only the rows the decode   *)
(* reported dirty with the two projections; a row that must not be         *)
(* computed from incomplete data is withheld, so that the stored one stays *)
(* (stale but safe) until the missing data are decoded again.              *)
(*                                                                         *)
(* The numbers are abstracted: of a summary the model keeps which position *)
(* rows its totals and health factor count.  How the decode reaches a      *)
(* state is the subject of BlendDecode, BlendBackstop and BlendConfig;     *)
(* here it changes what computeState tells apart.  Wasm hashes: one        *)
(* configured V2 hash, AllowUnknownV2 off (the defaults).                  *)
(***************************************************************************)
EXTENDS FiniteSets, Integers

CONSTANTS
    Users,         \* account addresses
    Pools,         \* pool contracts
    Assets,        \* reserve assets
    BackedPools,   \* pools whose backstop takes deposits
    VolatilePools, \* pools whose instance is written, or that are removed
    Backstop,      \* the asset of a backstop row ("blend_backstop_lp")
    None,          \* no stored summary
    MaxChanges     \* bound: state changes of one ledger

Leg == Users \X Pools \X Assets

Row == Users \X Pools \X (Assets \cup {Backstop})

Reserve == Pools \X Assets

Pair == Users \X Pools

\* An account summary: the position rows its totals and health factor count.
SummaryRow == [counted : SUBSET Row]

ASSUME ProjectionAssumption ==
    /\ BackedPools \subseteq Pools /\ VolatilePools \subseteq Pools
    /\ Backstop \notin Assets
    /\ None \notin SummaryRow
    /\ MaxChanges \in Nat \ {0}

\* What a pool's instance says of its code: no instance entry yet ("empty"),
\* the configured V2 hash, or another one.
Hash == {"empty", "v2", "other"}

VARIABLES
    state,             \* the decoded LedgerState, as computeState reads it
    dirtyPositions,    \* LastDirtyPositions, until the consumer has used it
    dirtyBackstops,    \* LastDirtyBackstops, until the consumer has used it
    rows,              \* the consumer's position rows that are not deleted
    summaries,         \* its summary of each account, or None
    changes            \* changes applied since the last emission

vars == <<state, dirtyPositions, dirtyBackstops, rows, summaries, changes>>

LedgerState ==
    [hash      : [Pools -> Hash],   \* PoolState.WasmHash
     reserves  : SUBSET Reserve,    \* the reserves of each pool
     folded    : SUBSET Reserve,    \* those whose ResData is decoded
     priced    : SUBSET Reserve,    \* those whose pool oracle resolves a price
     held      : SUBSET Leg,        \* the legs of the pending Positions entries
     backstops : SUBSET Pair,       \* LedgerState.Backstops
     lpPriced  : SUBSET Pools]      \* pools whose LP token can be valued

RowPair(r) == <<r[1], r[2]>>

LegReserve(l) == <<l[2], l[3]>>

-----------------------------------------------------------------------------
(* computeState *)

\* LedgerState.Users: a pending leg is a row once its reserve is in the pool.
UserLegs(s) == {l \in s.held : LegReserve(l) \in s.reserves}

\* enrichPoolIdentity and resolvePool: a pool without a hash is recognised by
\* the data of its reserves; an unknown hash is quarantined.
Known(s, p) ==
    \/ s.hash[p] = "v2"
    \/ s.hash[p] = "empty" /\ \E a \in Assets : <<p, a>> \in s.folded

\* The valuation map: reserves of recognised pools with decoded ResData
\* (reserveHasFoldedData).
Valued(s) == {r \in s.reserves : Known(s, r[1]) /\ r \in s.folded}

\* The position rows emitted: legs of valued reserves, priced or not, and the
\* backstop deposits of recognised pools.
LegRows(s) == {l \in UserLegs(s) : LegReserve(l) \in Valued(s)}

BackstopRows(s) ==
    {r \in Row : r[3] = Backstop /\ RowPair(r) \in s.backstops /\ Known(s, r[2])}

\* The rows whose value enters the totals of a summary.
Counted(s) ==
    {l \in LegRows(s) : LegReserve(l) \in s.priced}
        \cup {r \in BackstopRows(s) : r[2] \in s.lpPriced}

\* poolSummary.dataPartial: a leg of a recognised pool was dropped.
DataPartial(s, u) ==
    \E l \in UserLegs(s) : l[1] = u /\ Known(s, l[2]) /\ LegReserve(l) \notin Valued(s)

\* poolSummary.reservePricePartial: a leg has no price.
ReservePricePartial(s, u) ==
    \E l \in LegRows(s) : l[1] = u /\ LegReserve(l) \notin s.priced

\* Mutant: an unpriced LP token withholds the summary too (pricePartial).
IncompleteForAnyPrice(s, u) ==
    \/ DataPartial(s, u)
    \/ \E r \in LegRows(s) \cup BackstopRows(s) : r[1] = u /\ r \notin Counted(s)

\* Mutant: only the rows that are emitted are looked at.
IncompleteByPrice(s, u) == ReservePricePartial(s, u)

Incomplete(s, u) == DataPartial(s, u) \/ ReservePricePartial(s, u)

\* The summary of an account: withheld when incomplete, and an account with no
\* row has none.
Summary(s, u) ==
    IF Incomplete(s, u) \/ ~\E r \in LegRows(s) \cup BackstopRows(s) : r[1] = u
    THEN None
    ELSE [counted |-> {r \in Counted(s) : r[1] = u}]

computeState(s) ==
    [positions |-> LegRows(s) \cup BackstopRows(s),
     summaries |-> [u \in Users |-> Summary(s, u)]]

-----------------------------------------------------------------------------
(* The decode, seen from the output *)

Init ==
    /\ state = [hash |-> [p \in Pools |-> "empty"], reserves |-> {},
                folded |-> {}, priced |-> {}, held |-> {}, backstops |-> {},
                lpPriced |-> {}]
    /\ dirtyPositions = {} /\ dirtyBackstops = {}
    /\ rows = {}
    /\ summaries = [u \in Users |-> None]
    /\ changes = 0

\* The dirty sets are those of one decode: its first change starts them anew.
Dirtied(set, pairs) == (IF changes = 0 THEN {} ELSE set) \cup pairs

Decode(next, positions, backstops) ==
    /\ changes < MaxChanges
    /\ next # state
    /\ changes' = changes + 1
    /\ state' = next
    /\ dirtyPositions' = Dirtied(dirtyPositions, positions)
    /\ dirtyBackstops' = Dirtied(dirtyBackstops, backstops)
    /\ UNCHANGED <<rows, summaries>>

\* A user's Positions entry is written or removed.
PositionsChange(u, p) ==
    \E legs \in SUBSET ({u} \X {p} \X Assets) :
        Decode([state EXCEPT !.held = {l \in @ : RowPair(l) # <<u, p>>} \cup legs],
               {<<u, p>>}, {})

\* markPoolRemapDirty: the pending pairs of a pool whose mapping changed.
Pending(p) == {k \in Pair : k[2] = p /\ \E l \in state.held : RowPair(l) = k}

ReserveConfigured(r) ==
    Decode([state EXCEPT !.reserves = @ \cup {r}], Pending(r[1]), {})

\* Mutant: the data and the price outlive the reserve.
ReserveRemovedAlone(r) ==
    Decode([state EXCEPT !.reserves = @ \ {r}], Pending(r[1]), {})

\* An explicit removal drops the reserve with its data and price.
ReserveRemoved(r) ==
    Decode([state EXCEPT !.reserves = @ \ {r}, !.folded = @ \ {r},
                         !.priced = @ \ {r}], Pending(r[1]), {})

\* ResData and price changes touch no Positions entry: nothing is marked dirty.
ReserveData(r) ==
    r \in state.reserves /\ Decode([state EXCEPT !.folded = @ \cup {r}], {}, {})

PriceChange(r) ==
    /\ r \in state.reserves
    /\ \/ Decode([state EXCEPT !.priced = @ \cup {r}], {}, {})
       \/ Decode([state EXCEPT !.priced = @ \ {r}], {}, {})

InstanceChange(p) ==
    \E h \in Hash \ {"empty"} : Decode([state EXCEPT !.hash[p] = h], {}, {})

\* The pool is gone with its reserves; its users' entries are still pending.
PoolRemoved(p) ==
    Decode([state EXCEPT !.hash[p] = "empty",
                         !.reserves = {r \in @ : r[1] # p},
                         !.folded = {r \in @ : r[1] # p},
                         !.priced = {r \in @ : r[1] # p}], Pending(p), {})

BackstopChange(k) ==
    \/ Decode([state EXCEPT !.backstops = @ \cup {k}], {}, {k})
    \/ Decode([state EXCEPT !.backstops = @ \ {k}], {}, {k})

LPPriceChange(p) ==
    LET holders == {k \in state.backstops : k[2] = p}
    IN  \/ Decode([state EXCEPT !.lpPriced = @ \cup {p}], {}, holders)
        \/ Decode([state EXCEPT !.lpPriced = @ \ {p}], {}, holders)

(***************************************************************************)
(* A restart from the persisted configuration (HydrateConfig): hashes,     *)
(* reserves and prices come back, ResData, positions and backstops are to  *)
(* be decoded again.  The consumer's rows are stored and survive.          *)
(***************************************************************************)
Restart ==
    /\ state' = [state EXCEPT !.folded = {}, !.held = {}, !.backstops = {},
                              !.lpPriced = {}]
    /\ dirtyPositions' = {} /\ dirtyBackstops' = {}
    /\ changes' = 0
    /\ UNCHANGED <<rows, summaries>>

-----------------------------------------------------------------------------
(* The emissions *)

\* Mutant: a position tombstone needs a current row of the same account.
TombstonesOfActive(prior, out) ==
    {r \in prior.positions \ out.positions : \E q \in out.positions : q[1] = r[1]}

\* emitTombstones: prior rows and summaries with no successor in the output.
PositionTombstones(prior, out) == prior.positions \ out.positions

SummaryTombstones(prior, out) ==
    {u \in Users : /\ prior.summaries[u] # None
                   /\ out.summaries[u] = None
                   /\ ~\E r \in out.positions : r[1] = u}

\* The consumer upserts the summaries of an output and deletes the closed ones.
Upserted(out, closed) ==
    [u \in Users |-> IF u \in closed THEN None
                     ELSE IF out.summaries[u] = None THEN summaries[u]
                     ELSE out.summaries[u]]

\* Transform over the whole state; the priors are the rows the consumer shows.
Transform ==
    LET out   == computeState(state)
        prior == [positions |-> rows, summaries |-> summaries]
    IN  /\ rows' = (rows \ PositionTombstones(prior, out)) \cup out.positions
        /\ summaries' = Upserted(out, SummaryTombstones(prior, out))
        /\ changes' = 0
        /\ dirtyPositions' = {} /\ dirtyBackstops' = {}
        /\ UNCHANGED state

\* ProjectPositions: the state with the rows of the dirty pairs alone.
FilteredPositions(pairs) ==
    [state EXCEPT !.held = {l \in @ : RowPair(l) \in pairs}, !.backstops = {}]

\* A consumer replaces the lending rows of the dirty pairs by the projected ones.
ProjectPositions ==
    LET out == computeState(FilteredPositions(dirtyPositions))
    IN  /\ rows' = {r \in rows : r[3] = Backstop \/ RowPair(r) \notin dirtyPositions}
                       \cup out.positions
        /\ summaries' = Upserted(out, {})
        /\ changes' = 0
        /\ dirtyPositions' = {}
        /\ UNCHANGED <<state, dirtyBackstops>>

FilteredBackstops(pairs) ==
    [state EXCEPT !.held = {}, !.backstops = @ \cap pairs]

\* ProjectBackstopPositions drops the summaries; a pair without a row is the
\* consumer's tombstone.
ProjectBackstopPositions ==
    LET out == computeState(FilteredBackstops(dirtyBackstops))
    IN  /\ rows' = {r \in rows : r[3] # Backstop \/ RowPair(r) \notin dirtyBackstops}
                       \cup out.positions
        /\ changes' = 0
        /\ dirtyBackstops' = {}
        /\ UNCHANGED <<state, dirtyPositions, summaries>>

Next ==
    \/ \E u \in Users, p \in Pools : PositionsChange(u, p)
    \/ \E r \in Reserve : ReserveConfigured(r)
    \/ \E r \in VolatilePools \X Assets : ReserveRemoved(r)
    \/ \E r \in Reserve : ReserveData(r)
    \/ \E r \in Reserve : PriceChange(r)
    \/ \E p \in VolatilePools : InstanceChange(p)
    \/ \E p \in VolatilePools : PoolRemoved(p)
    \/ \E k \in Users \X BackedPools : BackstopChange(k)
    \/ \E p \in BackedPools : LPPriceChange(p)
    \/ Restart
    \/ Transform
    \/ ProjectPositions
    \/ ProjectBackstopPositions

Spec == Init /\ [][Next]_vars

\* The host calls Transform for every ledger it reconciles (ProtocolAdapter).
FairSpec == Spec /\ WF_vars(Transform)

-----------------------------------------------------------------------------
ProjectionTypeOK ==
    /\ state \in LedgerState
    /\ state.folded \subseteq state.reserves /\ state.priced \subseteq state.reserves
    /\ dirtyPositions \subseteq Pair /\ dirtyBackstops \subseteq Pair
    /\ rows \subseteq Row
    /\ summaries \in [Users -> {None} \cup SummaryRow]
    /\ changes \in 0 .. MaxChanges

\* The legs an account holds in pools whose code is recognised.
Account(s, u) == {l \in UserLegs(s) : l[1] = u /\ Known(s, l[2])}

\* What a Transform leaves the consumer with.
TransformedView ==
    /\ \A u \in Users :
          summaries'[u] # None => \E r \in rows' : r[1] = u
    /\ \A r \in rows' : \/ r \in UNION {Account(state, u) : u \in Users}
                        \/ r[3] = Backstop /\ RowPair(r) \in state.backstops
    /\ \A u \in Users : \A l \in Account(state, u) :
          LegReserve(l) \in state.folded => l \in rows'

(***************************************************************************)
(* After a Transform the consumer's rows are those of the state, whatever  *)
(* projections, restarts or withheld summaries came before: no phantom row *)
(* and no summary of an account that shows no row (emitTombstones), and    *)
(* every leg that can be valued has its row.                               *)
(***************************************************************************)
ViewFollowsState == [][Transform => TransformedView]_vars

\* A stored summary is replaced by a complete one, or closed with its rows.
SafeSummaries ==
    \A u \in Users : summaries'[u] # summaries[u] =>
        IF summaries'[u] = None THEN ~\E r \in rows' : r[1] = u
        ELSE Account(state, u) \subseteq summaries'[u].counted

(***************************************************************************)
(* "An incomplete/null health factor never overwrites the account's good   *)
(* stored row" (math.go, computeState): a Transform replaces a summary     *)
(* only by one that counts every leg the account holds, and deletes it     *)
(* only when the account shows no row.                                     *)
(***************************************************************************)
StaleButSafe == [][Transform => SafeSummaries]_vars

(***************************************************************************)
(* "It re-emits once the missing data/price is decoded again": while every *)
(* leg of an account stays valued and priced, its stored summary counts    *)
(* exactly the account again and again, however often it was withheld and  *)
(* although backstop LP prices may stay unknown (reservePricePartial).     *)
(***************************************************************************)
SelfHeals ==
    \A u \in Users :
        <>[](/\ Account(state, u) # {}
             /\ \A l \in Account(state, u) :
                   LegReserve(l) \in state.folded \cap state.priced)
            => []<>(/\ summaries[u] # None
                    /\ {r \in summaries[u].counted : r[3] # Backstop} = Account(state, u))

(***************************************************************************)
(* The rule of StaleButSafe for the summaries of the lending projection,   *)
(* with which "summaries stay" (adapter.go, ProjectBackstopPositions).     *)
(* Violated: ProjectPositions hands computeState the dirty pairs' rows     *)
(* only, so the summary of an account with a second pool or a backstop     *)
(* deposit counts the dirty pool alone and replaces the complete one.      *)
(***************************************************************************)
ProjectedSummariesAreWhole ==
    [][ProjectPositions => \A u \in Users :
        summaries'[u] \notin {None, summaries[u]} =>
            Account(state, u) \subseteq summaries'[u].counted]_vars

(***************************************************************************)
(* A summary tombstone is "emitted only when the address has no remaining  *)
(* Blend reserve or backstop positions of any kind" (bindings/types.go,    *)
(* SummaryTombstone).  Violated: emitTombstones looks at the rows of the   *)
(* output, and a leg of a reserve without ResData, or of a pool whose hash *)
(* is not recognised, has none.                                            *)
(***************************************************************************)
ClosedAccountsHoldNothing ==
    [][Transform => \A u \in Users :
        summaries[u] # None /\ summaries'[u] = None =>
            /\ ~\E l \in UserLegs(state) : l[1] = u
            /\ ~\E k \in state.backstops : k[1] = u]_vars
================================================================================
