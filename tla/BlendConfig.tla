------------------------------ MODULE BlendConfig ------------------------------
(***************************************************************************)
(* What survives a restart (blend/config_state.go).  After each decode the *)
(* adapter turns the ledger's changes into configuration records           *)
(* (ConfigRecords); the host keeps the latest of each entity, and a new    *)
(* process starts from what HydrateConfig makes of them.                   *)
(*                                                                         *)
(* The mirror holds the configuration part of the reducer (blend/state.go) *)
(* for one ledger after another.  A pool's configuration, an oracle's      *)
(* asset map, an aggregator's and a feed's configuration are one value     *)
(* each, but for the reference of a pool to its backstop, which an entry   *)
(* of its own holds; a reserve's is its index, and the emission rate of    *)
(* one side.                                                               *)
(***************************************************************************)
EXTENDS Naturals

CONSTANTS
    None,
    Pools, Assets, Indexes,
    Mocks, Sources,         \* price-writing oracles; aggregators and feeds
    PriceIndexes, Prices,
    Contents,               \* configurations of a pool, a map or a source
    Backstops,              \* what a pool's Backstop entry refers to
    Rates,                  \* emission rates
    Scopes,                 \* what the ledgers of a behaviour change
    MaxChanges,             \* bound: changes of one ledger
    MaxRestarts             \* bound: restarts

ASSUME ConfigNoneAssumption ==
    None \notin Indexes \cup Contents \cup Backstops \cup Rates \cup Prices

ASSUME ConfigIndexAssumption == Indexes \subseteq Nat /\ 0 \in Indexes

ASSUME ConfigBoundsAssumption == MaxChanges \in Nat /\ MaxRestarts \in Nat

\* "pools" has every change of a pool and its reserves; "links" those of the
\* pools alone, "reserves" all but the backstop references.
ASSUME ConfigScopesAssumption == Scopes \subseteq {"pools", "links", "reserves", "oracles"}

PoolScopes == {"pools", "links", "reserves"}
LinkScopes == {"pools", "links"}
ReserveScopes == {"pools", "reserves"}
OracleScopes == {"oracles"}

Pairs == Pools \X Assets

\* A known pool may have no Config decoded yet; a known reserve no index.
Pool == {"unset"} \cup Contents
Reserve == [index : Indexes \cup {None}, rate : Rates \cup {None}]
Mock == [map : Contents \cup {None}, prices : [PriceIndexes -> Prices \cup {None}]]

Mirror == [pools     : [Pools -> Pool \cup {None}],
           backstops : [Pools -> Backstops \cup {None}],
           reserves  : [Pairs -> Reserve \cup {None}],
           mocks     : [Mocks -> Mock \cup {None}],
           sources   : [Sources -> Contents \cup {None}]]

\* What the last ResConfig change of a reserve said (history).
ResConfig == [index : Indexes, live : BOOLEAN]

\* The latest record of each entity; None: no record, or a tombstone.
PoolRecord == [config : Pool, backstop : Backstops \cup {None}]
ReserveRecord == [index : Indexes, rate : Rates \cup {None}]
Store == [pools    : [Pools -> PoolRecord \cup {None}],
          reserves : [Pairs -> ReserveRecord \cup {None}],
          maps     : [Mocks -> Contents \cup {None}],
          prices   : [Mocks -> [PriceIndexes -> Prices \cup {None}]],
          sources  : [Sources -> Contents \cup {None}]]

ASSUME ConfigRecordsAssumption ==
    None \notin Pool \cup PoolRecord \cup Reserve \cup Mock \cup ResConfig

NoPrices == [i \in PriceIndexes |-> None]

EmptyMirror == [pools     |-> [p \in Pools |-> None],
                backstops |-> [p \in Pools |-> None],
                reserves  |-> [k \in Pairs |-> None],
                mocks     |-> [o \in Mocks |-> None],
                sources   |-> [c \in Sources |-> None]]

EmptyStore == [pools    |-> [p \in Pools |-> None],
               reserves |-> [k \in Pairs |-> None],
               maps     |-> [o \in Mocks |-> None],
               prices   |-> [o \in Mocks |-> NoPrices],
               sources  |-> [c \in Sources |-> None]]

-----------------------------------------------------------------------------
(* The reducer.                                                            *)

EnsurePool(pool) == IF pool = None THEN "unset" ELSE pool

EnsureReserve(reserve) ==
    IF reserve = None THEN [index |-> None, rate |-> None] ELSE reserve

EnsureMock(mock) ==
    IF mock = None THEN [map |-> None, prices |-> NoPrices] ELSE mock

\* The one reserve whose known index is i, if there is one.
Claims(m, k, i) == m.reserves[k] # None /\ m.reserves[k].index = i
Resolves(m, k, i) ==
    /\ Claims(m, k, i)
    /\ \A j \in Pairs : j[1] = k[1] /\ Claims(m, j, i) => j = k

WithReserve(m, k, reserve) ==
    [m EXCEPT !.pools[k[1]] = EnsurePool(@), !.reserves[k] = reserve]

WithoutPool(m, p) ==
    [m EXCEPT !.pools[p] = None,
              !.backstops[p] = None,
              !.reserves = [k \in Pairs |-> IF k[1] = p THEN None ELSE m.reserves[k]]]

\* An EmisConfig or EmisData entry; an index that does not resolve drops it.
WithRate(m, p, i, rate) ==
    [m EXCEPT !.reserves =
        [k \in Pairs |-> IF k[1] = p /\ Resolves(m, k, i)
                         THEN [m.reserves[k] EXCEPT !.rate = rate]
                         ELSE m.reserves[k]]]

-----------------------------------------------------------------------------
(* Ledgers.                                                                *)

VARIABLES
    scope,      \* fixed for a behaviour
    mirror,     \* the live state
    store,      \* the host's records
    seen,       \* what the changes of this ledger say to ConfigRecords
    applied,    \* changes of this ledger; 0 between ledgers
    restarts,
    resConfig,  \* history: the last ResConfig value of a reserve, and if it is live
    undone,     \* history: reserves dropped after their ResConfig, in its ledger
    relinked,   \* history: pools whose Backstop entry changed after their record
    forgotten   \* history: oracles a restart lost although a price is recorded

vars ==
    <<scope, mirror, store, seen, applied, restarts, resConfig, undone, relinked, forgotten>>

(***************************************************************************)
(* ConfigRecords walks the changes once, and the last one of a key wins.   *)
(* Instances and EmisConfig entries are attributed by the state after the  *)
(* ledger, so until then the walk is kept apart from them: pools by Config *)
(* and ResList alone and with the instance, and for a reserve the indexes  *)
(* of the EmisConfig changes that follow its last ResConfig.               *)
(***************************************************************************)
Marks == {"no", "live", "gone"}

Seen == [poolKeys  : [Pools -> Marks],
         pools     : [Pools -> Marks],
         reserves  : [Pairs -> Marks],
         emissions : [Pairs -> SUBSET Indexes],
         mocks     : [Mocks -> Marks],
         prices    : [Mocks -> [PriceIndexes -> Marks]],
         sources   : [Sources -> Marks]]

NothingSeen == [poolKeys  |-> [p \in Pools |-> "no"],
                pools     |-> [p \in Pools |-> "no"],
                reserves  |-> [k \in Pairs |-> "no"],
                emissions |-> [k \in Pairs |-> {}],
                mocks     |-> [o \in Mocks |-> "no"],
                prices    |-> [o \in Mocks |-> [i \in PriceIndexes |-> "no"]],
                sources   |-> [c \in Sources |-> "no"]]

Init ==
    /\ scope \in Scopes
    /\ mirror = EmptyMirror
    /\ store = EmptyStore
    /\ seen = NothingSeen
    /\ applied = 0
    /\ restarts = 0
    /\ resConfig = [k \in Pairs |-> None]
    /\ undone = {}
    /\ relinked = {}
    /\ forgotten = {}

Apply(in, next, marks) ==
    /\ scope \in in
    /\ applied < MaxChanges
    /\ applied' = applied + 1
    /\ mirror' = next
    /\ seen' = marks
    /\ UNCHANGED <<scope, store, restarts, forgotten>>

Unchanged == UNCHANGED <<resConfig, undone, relinked>>

\* The reserves that go lose what their ResConfig said in this ledger.
Drop(reserves) ==
    /\ undone' = undone \cup {k \in reserves : seen.reserves[k] = "live"}
    /\ UNCHANGED <<resConfig, relinked>>

SeePool(p, mark) == [seen EXCEPT !.poolKeys[p] = mark, !.pools[p] = mark]

\* A Config entry.
PoolConfigured(p, c) ==
    Apply(PoolScopes, [mirror EXCEPT !.pools[p] = c], SeePool(p, "live")) /\ Unchanged

\* A pool instance: its storage holds the Config, and the Backstop if b is one.
PoolInstance(p, c, b) ==
    /\ Apply(IF b = None THEN PoolScopes ELSE LinkScopes,
             [mirror EXCEPT !.pools[p] = c, !.backstops[p] = IF b = None THEN @ ELSE b],
             [seen EXCEPT !.pools[p] = "live"])
    /\ Unchanged

\* An instance that is not live leaves the pool as it is.
PoolInstanceLost(p) ==
    Apply(PoolScopes, mirror, [seen EXCEPT !.pools[p] = "gone"]) /\ Unchanged

PoolListed(p, listed) ==
    /\ Apply(PoolScopes,
             [mirror EXCEPT
                !.pools[p] = EnsurePool(@),
                !.reserves = [k \in Pairs |-> IF k[1] = p /\ k[2] \in listed
                                              THEN EnsureReserve(mirror.reserves[k])
                                              ELSE mirror.reserves[k]]],
             SeePool(p, "live"))
    /\ Unchanged

\* Config or ResList not live.
PoolLost(p) ==
    /\ Apply(PoolScopes, WithoutPool(mirror, p), SeePool(p, "gone"))
    /\ Drop({k \in Pairs : k[1] = p})

\* The Backstop entry is configuration, and ConfigRecords passes it by.
BackstopWritten(p, b) ==
    /\ Apply(LinkScopes, [mirror EXCEPT !.pools[p] = EnsurePool(@), !.backstops[p] = b], seen)
    /\ relinked' = relinked \cup {p}
    /\ UNCHANGED <<resConfig, undone>>

BackstopLost(p) ==
    /\ Apply(LinkScopes, [mirror EXCEPT !.backstops[p] = None], seen)
    /\ relinked' = relinked \cup {p}
    /\ UNCHANGED <<resConfig, undone>>

\* An entry that makes the pool known and is no configuration (PoolEmis, an
\* emission entry of an index that does not resolve).
PoolTouched(p) ==
    Apply(PoolScopes, [mirror EXCEPT !.pools[p] = EnsurePool(@)], seen) /\ Unchanged

SeeReserve(k, mark) ==
    [seen EXCEPT !.reserves[k] = mark, !.emissions[k] = {}]

ReserveConfigured(k, i) ==
    /\ Apply(ReserveScopes,
             WithReserve(mirror, k, [EnsureReserve(mirror.reserves[k]) EXCEPT !.index = i]),
             SeeReserve(k, "live"))
    /\ resConfig' = [resConfig EXCEPT ![k] = [index |-> i, live |-> TRUE]]
    /\ undone' = undone \ {k}
    /\ UNCHANGED relinked

ReserveConfigRemoved(k) ==
    /\ Apply(ReserveScopes, [mirror EXCEPT !.reserves[k] = None], SeeReserve(k, "gone"))
    /\ resConfig' = [resConfig EXCEPT ![k] = None]
    /\ undone' = undone \ {k}
    /\ UNCHANGED relinked

\* A lapse keeps the reserve, with the index of the value if it is still there.
ReserveConfigLapsed(k, i) ==
    /\ resConfig[k] # None
    /\ i \in {None, resConfig[k].index}
    /\ Apply(ReserveScopes,
             IF mirror.pools[k[1]] = None THEN mirror
             ELSE [mirror EXCEPT !.reserves[k] =
                      IF i = None THEN EnsureReserve(@)
                      ELSE [EnsureReserve(@) EXCEPT !.index = i]],
             SeeReserve(k, "gone"))
    /\ resConfig' = [resConfig EXCEPT ![k].live = FALSE]
    /\ undone' = IF i = None THEN undone ELSE undone \ {k}
    /\ UNCHANGED relinked

\* ResData is no configuration, but it makes a reserve known and drops it.
ReserveDataWritten(k) ==
    /\ Apply(ReserveScopes, WithReserve(mirror, k, EnsureReserve(mirror.reserves[k])), seen)
    /\ Unchanged

ReserveDataRemoved(k) ==
    Apply(ReserveScopes, [mirror EXCEPT !.reserves[k] = None], seen) /\ Drop({k})

SeeEmission(p, i) ==
    [seen EXCEPT !.emissions = [k \in Pairs |-> IF k[1] = p THEN @[k] \cup {i} ELSE @[k]]]

EmissionConfigured(p, i, rate) ==
    /\ Apply(ReserveScopes,
             WithRate([mirror EXCEPT !.pools[p] = EnsurePool(@)], p, i, rate),
             SeeEmission(p, i))
    /\ Unchanged

\* Mutant: the loss of the entry is taken for the loss of its reserve.
EmissionConfigLostWithReserve(p, i) ==
    /\ Apply(ReserveScopes, WithRate(mirror, p, i, None),
             [seen EXCEPT !.reserves =
                [k \in Pairs |-> IF k[1] = p /\ Resolves(mirror, k, i) THEN "gone" ELSE @[k]]])
    /\ Unchanged

EmissionConfigLost(p, i) ==
    Apply(ReserveScopes, WithRate(mirror, p, i, None), SeeEmission(p, i)) /\ Unchanged

\* The version 2 EmisData entry carries the rate, and is classified as data.
EmissionDataWritten(p, i, rate) ==
    /\ Apply(ReserveScopes,
             WithRate([mirror EXCEPT !.pools[p] = EnsurePool(@)], p, i, rate), seen)
    /\ Unchanged

\* Either version: the rate of the side goes with its data.
EmissionDataLost(p, i) ==
    Apply(ReserveScopes, WithRate(mirror, p, i, None), seen) /\ Unchanged

MapWritten(o, c) ==
    /\ Apply(OracleScopes, [mirror EXCEPT !.mocks[o] = [EnsureMock(@) EXCEPT !.map = c]],
             [seen EXCEPT !.mocks[o] = "live"])
    /\ Unchanged

\* The instance of a price-writing oracle that is not live leaves it as it is.
MapLost(o) ==
    Apply(OracleScopes, mirror, [seen EXCEPT !.mocks[o] = "gone"]) /\ Unchanged

PriceWritten(o, i, v) ==
    /\ Apply(OracleScopes,
             [mirror EXCEPT !.mocks[o] = [EnsureMock(@) EXCEPT !.prices[i] = v]],
             [seen EXCEPT !.prices[o][i] = "live"])
    /\ Unchanged

PriceLost(o, i) ==
    /\ Apply(OracleScopes,
             IF mirror.mocks[o] = None THEN mirror
             ELSE [mirror EXCEPT !.mocks[o].prices[i] = None],
             [seen EXCEPT !.prices[o][i] = "gone"])
    /\ Unchanged

SourceWritten(c, content) ==
    /\ Apply(OracleScopes, [mirror EXCEPT !.sources[c] = content],
             [seen EXCEPT !.sources[c] = "live"])
    /\ Unchanged

SourceLost(c) ==
    /\ Apply(OracleScopes, [mirror EXCEPT !.sources[c] = None],
             [seen EXCEPT !.sources[c] = "gone"])
    /\ Unchanged

-----------------------------------------------------------------------------
(* ConfigRecords.                                                          *)

\* The record an entity gets: a tombstone, what the state holds, or none.
Record(mark, now, was) ==
    CASE mark = "gone"               -> None
      [] mark = "live" /\ now # None -> now
      [] OTHER                       -> was

\* Mutant: the instance of a pool is no configuration.
PoolMarkByKeys(p) == seen.poolKeys[p]

\* An instance belongs to a pool only if the state still holds the pool.
PoolMark(p) == IF mirror.pools[p] # None THEN seen.pools[p] ELSE seen.poolKeys[p]

\* An emission entry never tombstones the reserve it belongs to.
ReserveMark(k) ==
    IF \E i \in seen.emissions[k] : Resolves(mirror, k, i) THEN "live"
    ELSE seen.reserves[k]

\* marshalPoolBody: a backstop that is not known is a null.
MarshalPool(p) ==
    IF mirror.pools[p] = None THEN None
    ELSE [config |-> mirror.pools[p], backstop |-> mirror.backstops[p]]

\* marshalReserveBody writes an index that is not known as 0.
Marshal(reserve) ==
    IF reserve = None THEN None
    ELSE [index |-> IF reserve.index = None THEN 0 ELSE reserve.index,
          rate  |-> reserve.rate]

\* An instance of a contract the state does not know is not classified.
MapRecord(o) ==
    IF mirror.mocks[o] = None THEN store.maps[o]
    ELSE Record(seen.mocks[o], mirror.mocks[o].map, store.maps[o])

SourceRecord(c) ==
    IF mirror.sources[c] = None THEN store.sources[c]
    ELSE Record(seen.sources[c], mirror.sources[c], store.sources[c])

\* Mutant: a price that is gone is left to the next write.
PriceRecordKept(o, i) ==
    IF mirror.mocks[o] # None /\ seen.prices[o][i] = "live"
       /\ mirror.mocks[o].prices[i] # None
    THEN mirror.mocks[o].prices[i] ELSE store.prices[o][i]

\* A price of an oracle the state does not know is not classified.
PriceRecord(o, i) ==
    IF mirror.mocks[o] = None THEN store.prices[o][i]
    ELSE Record(seen.prices[o][i], mirror.mocks[o].prices[i], store.prices[o][i])

ConfigRecords ==
    [pools    |-> [p \in Pools |-> Record(PoolMark(p), MarshalPool(p), store.pools[p])],
     reserves |-> [k \in Pairs |-> Record(ReserveMark(k), Marshal(mirror.reserves[k]),
                                          store.reserves[k])],
     maps     |-> [o \in Mocks |-> MapRecord(o)],
     prices   |-> [o \in Mocks |-> [i \in PriceIndexes |-> PriceRecord(o, i)]],
     sources  |-> [c \in Sources |-> SourceRecord(c)]]

EndLedger ==
    /\ applied > 0
    /\ applied' = 0
    /\ store' = ConfigRecords
    /\ seen' = NothingSeen
    /\ relinked' = {p \in relinked : PoolMark(p) = "no"}
    /\ UNCHANGED <<scope, mirror, restarts, resConfig, undone, forgotten>>

-----------------------------------------------------------------------------
(* HydrateConfig.                                                          *)

\* Mutant: reserves are attached whether or not their pool was loaded.
HydrateEveryReserve(records) == records.reserves

\* The reserves of a pool that was not loaded are dropped.
HydrateReserves(records) ==
    [k \in Pairs |-> IF records.pools[k[1]] = None THEN None ELSE records.reserves[k]]

\* Prices are stitched onto the maps that were loaded.
HydrateConfig(records) ==
    [pools     |-> [p \in Pools |-> IF records.pools[p] = None THEN None
                                    ELSE records.pools[p].config],
     backstops |-> [p \in Pools |-> IF records.pools[p] = None THEN None
                                    ELSE records.pools[p].backstop],
     reserves  |-> HydrateReserves(records),
     mocks     |-> [o \in Mocks |-> IF records.maps[o] = None THEN None
                                    ELSE [map    |-> records.maps[o],
                                          prices |-> records.prices[o]]],
     sources   |-> records.sources]

\* A new process: everything but the records is gone.
Restart ==
    /\ applied = 0
    /\ restarts < MaxRestarts
    /\ restarts' = restarts + 1
    /\ mirror' = HydrateConfig(store)
    /\ relinked' = {}
    /\ forgotten' = forgotten \cup
            {o \in Mocks : store.maps[o] = None /\ store.prices[o] # NoPrices}
    /\ UNCHANGED <<scope, store, seen, applied, resConfig, undone>>

PoolChange ==
    \E p \in Pools :
        \/ \E c \in Contents : PoolConfigured(p, c)
        \/ \E c \in Contents, b \in Backstops \cup {None} : PoolInstance(p, c, b)
        \/ PoolInstanceLost(p)
        \/ \E listed \in SUBSET Assets : PoolListed(p, listed)
        \/ PoolLost(p)
        \/ \E b \in Backstops : BackstopWritten(p, b)
        \/ BackstopLost(p)
        \/ PoolTouched(p)

ReserveChange ==
    \E k \in Pairs :
        \/ \E i \in Indexes : ReserveConfigured(k, i)
        \/ ReserveConfigRemoved(k)
        \/ \E i \in Indexes \cup {None} : ReserveConfigLapsed(k, i)
        \/ ReserveDataWritten(k)
        \/ ReserveDataRemoved(k)

EmissionChange ==
    \E p \in Pools, i \in Indexes :
        \/ \E rate \in Rates : EmissionConfigured(p, i, rate) \/ EmissionDataWritten(p, i, rate)
        \/ EmissionConfigLost(p, i)
        \/ EmissionDataLost(p, i)

OracleChange ==
    \/ \E o \in Mocks :
        \/ \E c \in Contents : MapWritten(o, c)
        \/ MapLost(o)
        \/ \E i \in PriceIndexes :
              PriceLost(o, i) \/ \E v \in Prices : PriceWritten(o, i, v)
    \/ \E c \in Sources : SourceLost(c) \/ \E content \in Contents : SourceWritten(c, content)

Next ==
    PoolChange \/ ReserveChange \/ EmissionChange \/ OracleChange \/ EndLedger \/ Restart

Spec == Init /\ [][Next]_vars

-----------------------------------------------------------------------------
(* Properties.                                                             *)

\* The mirror and the records are of their types, and no reserve and no backstop
\* reference is without its pool (ensurePool, HydrateConfig).
ConfigTypeOK ==
    /\ scope \in Scopes
    /\ mirror \in Mirror
    /\ store \in Store
    /\ seen \in Seen
    /\ applied \in 0..MaxChanges /\ restarts \in 0..MaxRestarts
    /\ resConfig \in [Pairs -> {None} \cup ResConfig]
    /\ undone \subseteq Pairs /\ relinked \subseteq Pools /\ forgotten \subseteq Mocks
    /\ \A p \in Pools : mirror.backstops[p] # None => mirror.pools[p] # None
    /\ \A k \in Pairs : mirror.reserves[k] # None => mirror.pools[k[1]] # None

\* ConfigRecords and HydrateConfig: a restart brings back no pool and no map
\* the running process does not hold, and none in another configuration; an
\* aggregator or a feed both know is the same to both.  The backstop a pool
\* refers to is claimed unless its Backstop entry changed since the last record:
\* that change makes no record (HydratedBackstopIsLive).
HydratedConfigIsLive ==
    applied = 0 =>
        /\ \A p \in Pools : store.pools[p] # None =>
              /\ store.pools[p].config = mirror.pools[p]
              /\ p \notin relinked => store.pools[p].backstop = mirror.backstops[p]
        /\ \A o \in Mocks : store.maps[o] # None =>
              mirror.mocks[o] # None /\ mirror.mocks[o].map = store.maps[o]
        /\ \A c \in Sources : store.sources[c] # None /\ mirror.sources[c] # None =>
              store.sources[c] = mirror.sources[c]

\* config_state.go:12: a pool's record carries its oracle and backstop refs, so
\* the backstop a restart brings back is the one the running process holds.
HydratedBackstopIsLive ==
    applied = 0 =>
        \A p \in Pools : store.pools[p] # None => store.pools[p].backstop = mirror.backstops[p]

\* A blend.reserve record carries the index its ResConfig last stated, exists
\* while that entry is live and not after it was removed, whatever emissions,
\* ResData, lapses, pool losses and restarts came in between.  Not claimed of
\* a reserve dropped in the ledger that configured it.
HydratedReservesFollowChain ==
    applied = 0 =>
        \A k \in Pairs \ undone :
            /\ resConfig[k] = None => store.reserves[k] = None
            /\ resConfig[k] # None /\ resConfig[k].live => store.reserves[k] # None
            /\ store.reserves[k] # None => store.reserves[k].index = resConfig[k].index

\* A reload seeds exactly the prices the running process prices with: none
\* that lapsed, none missing (kindOraclePrice, "no null-HF window"), as long as
\* no restart lost the oracle while its prices were recorded.
HydratedPricesAreLive ==
    applied = 0 =>
        \A o \in Mocks \ forgotten :
            mirror.mocks[o] # None => store.prices[o] = mirror.mocks[o].prices

\* bindings/config.go:35: an oracle that was removed on chain is excluded from
\* the reload set.
RemovedOraclesNotReloaded ==
    applied = 0 =>
        \A c \in Sources : mirror.sources[c] = None => store.sources[c] = None
=============================================================================
