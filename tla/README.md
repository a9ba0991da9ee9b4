# A TLA+ verification project for lidapters

`lidapters` is a Go library of *protocol adapters*. A host process reads ledgers
of the Stellar network and hands every adapter the `contract_data` changes and
the contract events of its protocol; the adapter reduces them to a typed
`LedgerState` (`DecodeState`) and turns state and events into output rows
(`Transform`). There is no I/O, no clock and no concurrency inside an adapter.
What makes it hard is *sequence*: any number of changes of a ledger in any
order, entries that lapse, are evicted, restored, removed and written again,
state that has to survive the round trip through the caller, adapters that keep
something between ledgers, callers that fail to commit or restart, and reports
(dirty sets, diagnostics) that must cover exactly what changed.

## Inventory

| Component | Source | State it keeps | Operations | What makes it correct |
|---|---|---|---|---|
| Blend reducer: pools, reserves, positions | `blend/state.go` | pools, reserves with their reserve index, raw Positions blobs, resolved rows | `apply` / `applyDelete` per storage entry, `build`, `loadPrior` | a row names the one reserve that claims its index; only an on-chain removal purges a holder; a lapse loses nothing; a lost leg is diagnosed |
| Blend decode strategies | `blend/state_strategy.go`, `blend/state_incremental.go` | none (paranoid); mirror and caches of blocks and mappings (incremental) | `DecodeStateAt`, `LastDirtyPositions`, `LastDecodeDiagnostics` | incremental output = paranoid output; dirty set complete |
| Blend backstop and Comet | `blend/state.go`, `blend/state_comet.go` | pool balance, holders' shares, emissions, backstop link, Comet records and supply | `apply` / `applyDelete`, `markBackstopDirty` family, `backstopPosition` | every holder whose valuation moved is reported; carried state reloads |
| Blend oracles | `blend/state.go`, `blend/state_reflector.go` | mock oracles, Reflector feed rounds, aggregator configuration | `applyFeed*`, `applyAggregatorInstance`, `resolve*Prices` | a price is what `get_price` answers, or absent; the trimmed carry loses nothing the walk needs |
| Blend temporary entries | `blend/state.go` | auctions, queued reserves, user emissions | upsert, removal, `LastTemporaryStateChanges` | every transition is reported with its final outcome |
| Blend transformer | `blend/adapter.go`, `blend/math.go` | none (the rows it is compared with are the consumer's) | `Transform`, `ProjectPositions`, `ProjectBackstopPositions`, `emitTombstones` | no phantom row; a summary of incomplete data never replaces a complete one, and the complete one comes back |
| Blend event decoder | `blend/decode.go` | none | `DecodeEvent` | one record per event, unknown events quarantined |
| Configuration records | `blend/config_state.go`, `aquarius/config_state.go`, `bindings/config.go` | none (the latest record of each entity is the host's) | `ConfigRecords`, `HydrateConfig` | hydrating what was recorded gives back no other configuration than the running process has |
| Soroswap | `soroswap/*.go` | in-memory pair registry; pools and LP positions in the state | `DecodeState`, `Transform` | a pair once discovered is decoded; a close is a tombstone |
| FxDAO | `fxdao/*.go` | vaults by owner and denomination, totals | `DecodeState`, `Transform` | row and report follow the last entry |
| Aquarius | `aquarius/*.go` | in-memory share tokens; seeds; pools, classic and range positions | `DecodeState`, `Transform`, `ConfigRecords` | shares and rewards follow their own entries; seeds never override what was observed |
| Bindings, discovery, contract types, deployments | `bindings/types.go`, `*/discovery*`, `blend/contracts`, `deployments.go` | none | data types, static tables, stateless recognisers | |

**Interaction.** The host calls `DecodeState(prior, changes, ledger)` and, right
after it, the provider methods (`LastDirtyPositions`, `LastDirtyBackstops`,
`LastDirtyVaults`, `LastDecodeDiagnostics`, `LastTemporaryStateChanges`), then
`Transform` or `ProjectPositions`. The returned state is the next call's `prior`
once the host has committed it; a host that failed to commit calls again with the
earlier one. After each ledger the host also asks for `ConfigRecords` and stores
them; a new process starts from `HydrateConfig` of the latest record of each entity. Adapters never call each other: a change belongs to the adapter that
owns its contract. Within Blend, the parts meet in one builder: prices and Comet
records move the valuation of backstop holders, reserve indexes what a position
blob means.

**What is hard.** Order of changes within a ledger and across ledgers; the
difference between a removal, a lapse and an eviction; two strategies that must be
indistinguishable; memory outside the `LedgerState` (mirror, caches, pair and
share-token registries); reports computed from joins that the same ledger may
change; bounded carries (feed rounds); ageing prices. `PROJECT.json` lists each
hazard at its line.

## Modules

| Module | Models | Correspondence |
|---|---|---|
| `BlendState` | data and operators of the Blend reducer | `mirror` = `blendStateBuilder`; one operator per case of `apply` / `applyDelete`; `Build` / `LoadPrior` = `build` / `loadPrior`; `ReserveByIndex` = `finalizePoolReserves` |
| `BlendDecode` | one decode: the steps both strategies share, and the promises to the caller | `prior`, `out`, the dirty set and the diagnostics are what the caller sees |
| `BlendParanoid` | the reference strategy | `LoadPrior` at each ledger, `markPoolRemapDirty`, whole rebuild |
| `BlendIncremental` | the incremental strategy; implements `BlendParanoid` | `carried`, `cache`, `poolIndexes` = the strategy's fields; `Continue` = `normalizeCarry`, `Reseed` = `reseed`, `Snapshot` = `snapshot` |
| `BlendComet` | the Comet facets and the carrier they ride on | `restoreComet`, `buildAMMPools`, the facet writes and lapses |
| `BlendBackstopState` | the backstop part of the builder and its dirty markers | one operator per entry kind, `markBackstopDirty` family |
| `BlendBackstop` | ledgers of backstop changes through both strategies side by side | `reference` reloads, `carried` stays; every change applied to both |
| `BlendOracle` | feeds, aggregator, mock oracle, price of one asset | `Answer` = the aggregator's `get_price` over the carried rounds; `TrimRounds` = the bounded carry; `full` = all the feed holds |
| `BlendTemporary` | auctions, queued reserves, emissions of users, reserve sides and the pool; the transitions told and the consumer that keeps their rows | `touched` = `dirtyTemporary`, `Told` = `LastTemporaryStateChanges`, `Project` = `ProjectTemporaryStateChanges`; `UpdateSide` = `applyReserveEmis*` / `clearReserveEmis*` through `reserveByIndex`; both strategies, by `Continues` |
| `BlendConfig` | the configuration half of the reducer, the records of a ledger, the host's store, the restart | `mirror` = pools with the backstop each refers to, reserves, oracles, aggregators and feeds of `blendStateBuilder`; `relinked` = the pools whose reference a `Backstop` entry changed since it was last recorded; `seen` = the one walk `ConfigRecords` makes over the changes; `Record` = a record, a tombstone or none; `Restart` = `HydrateConfig` |
| `BlendProjection` | which rows and summaries an output holds, the tombstones, the two projections and the consumer that keeps the rows | `state` = what `computeState` reads of a `LedgerState`; `Incomplete` = `dataPartial`, `reservePricePartial`; `rows`, `summaries` = what the consumer stored, the priors of `emitTombstones` |
| `Soroswap`, `FxDAO`, `Aquarius` | one adapter each: `DecodeState` as a fold over the ledger, and the rows `Transform` emits | LedgerState slices and the adapter's memory are the variables; `chain` is the history of what the entries said |
| `Adapters` | the host that dispatches to these three and restarts | a behaviour follows one adapter, since they share nothing |
| `BlendParanoid_proofs`, `BlendIncremental_proofs`, `BlendBackstop_proofs`, `BlendOracle_proofs`, `BlendTemporary_proofs`, `BlendConfig_proofs`, `BlendProjection_proofs`, `Adapters_proofs` | theorems | the first also holds what one change does to the mirror, which the second cites: hence the names `IncrementalInit`, `IncrementalNext`, `IncrementalSpec` of `BlendIncremental` |
| `MC*` | instances for TLC | |

In the Blend modules a ledger is several steps (begin, one per change, close), so
that a crash can fall between them. In the three smaller adapters a ledger is one
step, a fold over the sequence of its changes, as no state is visible in between.
Amounts and names are model values; arithmetic appears only in `BlendOracle`
(time, rescaling, deviation) and wherever zero matters (a closed position).

`chain` variables are histories: what the entries last said, whatever the decode
made of it. They keep each property from restating the model: the decoded state is
compared with the history, not with itself.

## Runs

All constants are in the `.cfg` files. Deadlock checking is off in the `oracle` and
`adapters` configurations only, whose behaviours end where a bound (`MaxTime`,
`MaxRestarts`) does; everywhere else the next ledger is always possible.

| Run | Checks | Bounds, and why they are enough |
|---|---|---|
| `paranoid` | `TypeOK`, `DirtyComplete`, `LostLegDiagnosed`, `OnlyRemovalPurges`, `LapsesLoseNoRows`, `NoMisattribution` | two users, one pool, two assets, indexes 0 and 1, three changes a ledger: two reserves can claim one index, swap, disappear and come back in a ledger while a second user is untouched. Ledgers, retries and restarts are unbounded. Users and assets are symmetric |
| `incremental` | `DirtyPositionRowsAreTheStates`, `CarriedMirrorIsReload`, `RefinesParanoid` | the same with two changes a ledger: a cached block goes stale by a change of another entry, with the entry itself touched or not |
| `backstop` | `BackstopTypeOK`, `HalvesFollowChain`, `EmissionsFollowChain`, `DirtyBackstopsComplete`, `StrategiesValueAlike` | one holder, pool, backstop, Comet, token, amount; two changes a ledger. Every input of a valuation is present or absent, which is what the dirty markers depend on |
| `oracle` | `OracleTypeOK` (with the bound on the carried rounds), `PriceIsTheAggregators`, `PriceWritesReported` | resolution 2, age 3: the walk and the guard look back over two rounds, the carry holds three, and the feed has four; both boundaries (age, deviation) and the floor of the rescaling are hit. A behaviour changes feeds (one change a ledger), or a mock that reorders two asset indexes (two changes a ledger): the price of an asset comes from one of them |
| `config` | `ConfigTypeOK`, `HydratedConfigIsLive`, `HydratedReservesFollowChain`, `HydratedPricesAreLive` | one pool of two reserves with indexes 0 and 1 (0 is also what an unknown index is written as), two backstops it can refer to, one oracle with two prices, one aggregator or feed; two changes a ledger and any number of ledgers: an entity is written and lost in either order, also with its pool, and an emission entry meets the index of the other reserve. One restart, after and before any number of ledgers. A behaviour changes one of three things (`Scopes`): a pool and its reference (`links`), a pool and its reserves (`reserves`), or the oracles. Pools and oracles share no record; the references and the reserves of one pool are told apart only to keep the run short, and the theorems speak of both together (`pools`) as well |
| `projection` | `ProjectionTypeOK`, `ViewFollowsState`, `StaleButSafe`, `SelfHeals` | one account, as a summary never counts another's rows; a pool with a backstop that stays and a pool that is rewritten, removed and re-created: one pool can be complete while the other is not, or is gone. One change between two emissions: a change reads nothing of the earlier ones but the state |
| `temporary` | `TemporaryTypeOK`, `TransitionsExact`, `LifecycleFollowsChain`, `EmissionsFollowEntries`, `UserEmissionsAttributed` | one pool and user, two changes a ledger (create and remove, remove and restore), two contents so that an overwrite shows, assets at indexes 0 and 1 because an unknown index reads 0, both tokens of index 0, both pool versions and strategies. A behaviour changes the entries of one of three groups (`Scopes`): auctions with queued changes; emissions with reserves; user emissions with reserves and the pool. Entries of different groups share no state |
| `adapters` | `AdaptersTypeOK` of all three, `PositionsFollowChain`, `ClosedPositionsEmitTombstones`, `DirtyPositionsComplete`, `VaultsFollowChain`, `DirtyVaultsComplete`, `AmountsFollowChain`, `RewardsFollowChain`, `PoolsFollowChain`, `ClosedRowsEmitTombstones` | per adapter one or two keys, two or three changes a ledger (register, write, remove a Soroswap pair's balance in one), any number of ledgers, one restart of a host that tells the new process what the old one knew. Aquarius with and without a seed, which says something of the supply, of the shares and of the reward (three values no entry writes, so that a seeded value shows); a pool is written by its instance, by its reserves and by a total, and torn down with all that is under it, seeded or not |

*Fairness.* Nothing in the library waits: it is called once per ledger and returns.
The one promise about the future is that a withheld summary "re-emits once the
missing data/price is decoded again" (`blend/math.go`). It needs a host that goes on
calling, so `SelfHeals` is checked under `WF_vars(Transform)` alone: `Transform` is
the method of `ProtocolAdapter` the host calls for every ledger it reconciles, and
it is enabled in every state. No fairness is asked of the projections (they do not
heal by themselves: a price or a `ResData` that arrives marks no pair dirty), of the
changes, or of restarts. Every other property is a safety property.

### Where the code and its documentation differ

Four runs expect a violation; each checks one property that quotes the sentence it
comes from.

| Run | Property | What happens |
|---|---|---|
| `paranoid_removals` | `RemovalsAreOnChain` | the eviction of an entry never decoded is reported as a Removal |
| `oracle_freeze` | `PricesStopWithTheirOracle` | the last price of an aggregator stays after its configuration is gone |
| `projection_summaries` | `ProjectedSummariesAreWhole` | the summary a lending projection returns counts the dirty pools of the account only; stored, it replaces the whole one |
| `adapters_restart` | `RestartsLoseNothing` | pairs (Soroswap) and share tokens (Aquarius) are the process's memory; a new process skips their changes until they are written again |

Met while modelling and worth knowing, without a run of their own (each of the
configurations named is in the project, and reproduces the case by hand):

- `blend/state.go:742`: a removed PoolBalance comes back a ledger later from the
  fields its pool carries (`BalanceFollowsChain` under `MCBlendBackstopBalance.cfg`).
- `blend/state.go:1041`: a backstop link decoded after its holders moves their
  valuations and reports nobody (`RelinkedBackstopsReported` under
  `MCBlendBackstopRelinked.cfg`).
- `blend/config_state.go:353`: an aggregator or a feed whose instance is removed is no
  longer in the state when the record is written, so no tombstone is, and a restart
  loads it again (`RemovedOraclesNotReloaded` under `MCBlendConfigRemoved.cfg`;
  `bindings/config.go:35` excludes it). `HydratedConfigIsLive` compares what both know.
- `blend/config_state.go:502`: the lapse of a pool's instance, or of a `ResConfig`,
  tombstones the record, while the running process keeps the pool or archives the
  reserve: a restart in that window does not know it. A later `EmisConfig` of the same
  ledger overrides the tombstone, an earlier one does not. The properties say that
  what is loaded is right, not that everything is.
- `blend/config_state.go:501`: a pool's tombstone leaves the records of its reserves,
  and they are attached again when the pool is re-created. A reserve that is configured,
  dropped and made known again by `ResData` in one ledger is recorded with index 0
  (`undone` leaves it out).
- `blend/config_state.go:696`: the comment of `HydrateConfig` says "NO prices", but
  recorded prices are stitched in. The price of an oracle whose map was not recorded
  stays recorded after it lapses (`forgotten` leaves it out). `EmisData` entries change
  the emissions and write no record; a hydrated state has lost Archived flags,
  `ResData` and positions.
- `blend/config_state.go:374`: only `Config` and `ResList` mark the pool's record, but
  its body carries the backstop the pool refers to as well (`:12`, `:248`), which
  `Backstop` entries write and take away (`blend/state.go:1093`, `:1390`). After one,
  until the pool is next recorded, a restart brings the earlier reference back
  (`HydratedBackstopIsLive` under `MCBlendConfigBackstop.cfg`).
  `HydratedConfigIsLive` claims the reference of the other pools (`relinked`).
- `bindings/types.go:508`: a summary tombstone is emitted although the account still
  holds legs of a reserve without `ResData` or of a pool with an unrecognised hash
  (`ClosedAccountsHoldNothing` under `MCBlendProjectionTombstones.cfg`). Such legs get
  position tombstones too, and a leg of an unrecognised pool does not make the data
  partial.
- `bindings/types.go:485`: priors are the consumer's stored rows. Read as "the previous
  ledger's output", a summary withheld in one ledger and closed in the next would never
  be deleted; the model takes the first reading.
- `blend/state.go:1522`: a lapsed Positions value that does not decode, on a pair
  never seen, is archived empty; a carried mirror keeps the entry, a reload drops it
  (`CarriedMirrorIsReload` under `MCBlendIncrementalUndecodable.cfg`).
- `blend/state.go:1155`: an `EmisConfig` or `EmisData` entry that arrives before its
  reserve's `ResConfig` is dropped, and shows only once it is written again.
  `EmissionsFollowEntries` therefore states that what is shown is true, not that it
  is complete.
- `blend/state.go:2102`: the loss of `EmisData` clears the rate also in a version 1
  pool, where a live `EmisConfig` still holds it.
- `blend/state_comet.go:250`: the Comet carrier does not tell a token vector from
  the tokens of the records; after a reload the two strategies may emit different
  carriers (`StrategiesCarryAlike` in `BlendBackstop`, `MCBlendBackstopCarrier.cfg`).
  No valuation depends on it (`StrategiesValueAlike` holds).
- `blend/state_comet.go:441`: a price that ages out is in no report
  (`PriceChangesReported` in `BlendOracle`, `MCBlendOracleAgeing.cfg`).
- `aquarius/state.go:384`: the removal of a bare-address entry is taken for the
  removal of the pool, although the comment (`:335`) says "Only an instance-level
  removal tears the whole pool down" (`AmountsFollowChain` under
  `MCAdaptersTeardown.cfg`).
- `aquarius/state.go:35`: seeds are merged before every ledger, so a seeded pool that
  was removed is inserted again at the next decode, with the seed's supply, shares and
  rewards. The comment (`:264`) speaks of a pool whose instance "predates the decoded
  ledger range". `PoolsFollowChain`, `AmountsFollowChain` and `RewardsFollowChain` state
  what does hold: what comes back is the seed's, never what was there before.
- `aquarius/transform.go:94`: the close of a range position writes the zero tombstone
  of its principal and returns, so the `unclaimed_fee` rows shown before stay in the
  current view, although tombstones are written (`:62`) "so the
  latest-per-id current view stops surfacing the pre-close rows". A classic position that only the seed spoke of does not set
  `HadShares`: removed, it emits no tombstone either (`:61`). Both under
  `RowsAreOverwritten`, `MCAdaptersRows.cfg`; `ClosedRowsEmitTombstones` speaks of the
  principal rows of the positions an entry said to hold something, seeded ones included.
- `soroswap/state.go:196`: a balance written and removed in one ledger is reported
  twice, as upsert and removal. `fxdao/state.go:157`: a vault removed and
  re-created in one ledger is reported as a removal only. `DirtyPositionsComplete`
  and `DirtyVaultsComplete` state what does hold.

## Proofs

| Theorem | States |
|---|---|
| `ParanoidTypeOK` | type correctness of the reference decode |
| `DirtySetIsComplete`, `LostLegsAreDiagnosed`, `OnlyRemovalsPurge`, `LapsedEntriesLoseNoRows` | `DirtyComplete`, `LostLegDiagnosed`, `OnlyRemovalPurges`, `LapsesLoseNoRows` |
| `ParanoidNoMisattribution` | `NoMisattribution`, without the assumption below |
| `IncrementalRefinesParanoid` | `IncrementalSpec` implies the `Spec` of `BlendParanoid` on what a caller sees |
| `BackstopTypes`, `HalvesAreTheChains`, `EmissionsAreTheChains`, `DirtyBackstopsAreComplete`, `StrategiesAgree` | the five properties of the `backstop` run, for any holders, pools, backstops, Comets, tokens and amounts |
| `OracleTypes`, `CarriedRoundsSuffice`, `PriceWritesAreReported` | the three properties of the `oracle` run, for any feeds, assets, prices, resolutions, ages and carries of at least twice the rounds of one age plus one |
| `TemporaryTypes`, `LifecycleIsTheChains`, `TransitionsAreExact` | `TemporaryTypeOK`, `LifecycleFollowsChain` and `TransitionsExact`, for any pools, users, assets, tokens and contents |
| `EmissionsAreTheEntries`, `UserEmissionsAreAttributed` | `EmissionsFollowEntries` and `UserEmissionsAttributed`, in both pool versions |
| `CarriedStateIsReload` | the carried mirror is what a reload reconstructs, and the caches describe the returned state |
| `ProjectionReadsTheState` | the rows a projection reads from the caches are those of the returned state |
| `ConfigTypes`, `RestartsKeepConfig`, `RestartsKeepReserves`, `RestartsKeepPrices` | the four properties of the `config` run, for any pools, assets, indexes, oracles, changes per ledger and restarts |
| `ProjectionTypes`, `TransformsShowTheState`, `SummariesAreStaleButSafe` | `ProjectionTypeOK`, `ViewFollowsState` and `StaleButSafe`, for any accounts, pools and assets |
| `AdaptersTypes` | `AdaptersTypeOK` of Soroswap, FxDAO and Aquarius, whatever the host tells them |
| `VaultsAreTheChains`, `VaultReportsAreComplete` | FxDAO: `VaultsFollowChain` and `DirtyVaultsComplete`, for any accounts, denominations, amounts and ledgers |
| `PositionReportsAreComplete` | Soroswap: `DirtyPositionsComplete`, whatever the host tells a new process |
| `PositionsAreTheChains`, `EmptiedPositionsAreTombstones` | Soroswap: `PositionsFollowChain` and `ClosedPositionsEmitTombstones`, when `HostRetells` |
| `AmountsAreTheChains`, `RewardsAreTheChains`, `PoolsAreTheChains`, `ClosedRowsAreTombstones` | Aquarius: the four properties of the `adapters` run, under `PoolsHosted` |

The theorems of the two strategies hold for any users, pools, assets, indexes, blobs
and changes per ledger. The promises and the refinement assume `DecodableLapses` (`Undecodable \notin
LapsedValues`: the value a lapsed Positions entry carries decodes);
`MCBlendIncrementalUndecodable.cfg` shows that they fail without it.

The leaves are small: each is proved in well under a fifth of the time `tlapm` gives
it by default, so the proofs do not depend on a fast machine. Two leaves that only
rewrite under a quantifier (`SameChanges`) name Zenon and allow it more time.

*Argument.* For the reference decode, what was returned is `Resolved` (its rows are
what its own blobs and mapping resolve to, and every blob reads back); while a
ledger is applied, the mirror is `Following` the prior state: a pair nobody touched
still has its prior entry, a pool's mapping changed only through a rewiring the
model tracks, an entry vanished only by a removal. Both together are inductive, and
the promises follow at the step that closes the ledger, the only one that changes
`out`. They cannot be proved alone: a promise about `prior` and `out'` says nothing
of the changes in between. The incremental proof adds that `cache` and
`poolIndexes` are computed from the carried mirror as it was last returned; a pair
the ledger neither touched nor remapped then resolves to its cached block, so the
snapshot equals the rebuild, and each step maps to the same step of the reference.

`LifecycleIsTheChains` rests on three facts about a decode: what was committed, and
the consumer's rows, agree with what the chain said then (`SettledHeld`); between
ledgers nothing is pending and a carried mirror is the stored state
(`IdleSettled`); within a ledger the mirror follows the chain, and an identity that
was not touched still says what it said (`MirrorFollows`). The commit then replaces
the rows of the touched identities by what the chain says now. The third fact is
why the dirty set must take a removal whether or not the entry was known.

The emissions add `FieldsInv`: what was touched is what was changed (so a report is
exact), a user's accrual is the one last written, and every field a reserve's side
shows is what the entry of that side's own token says. The last is token arithmetic:
`TokenNamesOneSide` (the token is twice the index plus the side) and `KnownResolves`
(a reserve known by its index is what the index resolves to). It is stated of known
indexes only: a reserve whose `ResConfig` has not arrived shows nothing.

For the backstop, `StrategiesAgree` compares two mirrors that are not equal, for a
Comet restored from its carrier may differ in how its tokens were learnt. `Alike` is
the equivalence no valuation and no facet write tells apart; every change keeps two
mirrors alike, and a reload of the one state is alike to the carried mirror of the
other. `HoldersFollow` and `EmissionsFollow` relate the mirror to the entries, and
`Following` says of each pair why it need not be reported: nothing touched it, its
pool was not linked to another Comet, and its value but for the price is the prior
one. The promises are about the step that closes a ledger, and follow there from
these. No assumption is made beyond those that keep `None` apart from the records.

For the oracles, `FeedFollows` says that the carried rounds are those the feed holds,
except for stamps out of reach: `MaxCarried` resolutions or more before the close.
`TrimRounds` drops only such stamps, and the walk of `get_price` with the guard after
it never goes that far back, because it starts at most one age before the close and
looks at most one age further: `CarryAssumption` is this bound, taken from the comment
on `maxCarriedRounds`, and the proof shows that it is enough for every resolution and
age. `CarriedRoundsSuffice` is then an equality of two answers. `Unmoved` says
what a ledger left as it was, going by what it recorded; an oracle's slot may be
rewritten with the same answer, which is why it compares answers (`SameAnswer`). Two
assumptions name what the code's types give: there is an asset index, and no feed or
oracle record is `None`.

The four properties of `BlendConfig` speak of the store between ledgers, and are not
inductive: in the middle of a ledger the store is behind the state. `ConfigInv` says
what `ConfigRecords` would make of each entity at every moment: one this ledger did
not name is recorded as the state holds it; one it named last as live is in the state;
one it named last as gone is not, or has lapsed. A change moves one entity and one
mark (or a pool's backstop reference, which `relinked` then remembers), so its step is
one of a few shapes (`PoolStep`, `ReserveStep`, `PriceStep`), and
the lemmas `PoolSideStep` and `OracleSideStep` show once that these shapes preserve
the invariant. None of this depends on which kinds of changes a behaviour takes
(`Scopes`). The assumptions are those `BlendConfig` states of its constants: `None`
is no record and no value, and 0 is an index.

`TransformsShowTheState` and `SummariesAreStaleButSafe` need no invariant but the
types: a Transform compares what the
consumer stored, whatever that is, with the output. The summary of an account with an
incomplete leg is withheld, and one with a row in the output is not deleted.

In the smaller adapters a ledger is one step, a fold of `Decode` over its entries. The
community modules define that fold by a function over all sets of positions, chosen
by its equation; `FoldExists` shows, for any step, that such a function exists (on
the sets of at most k positions, for k up to the length of the ledger), and `FoldRuns`
that its values on the prefixes are a run: it starts where the decode starts, and one
entry takes each value to the next. `Prefixes` is the induction over the length,
stated of a set of prefixes. What is then proved of one entry (`PairStep`,
`VaultStep`, `PoolStep`) holds after the ledger. For Soroswap and FxDAO that is the
promise itself, next to what the ledger's own report has to contain so far
(`PairReported`, `VaultReported`), so the reports are complete without any assumption.
The tokens and pairs known in the second pass are those the chain registered, by then
or earlier in the same ledger, because the first pass collected them: this is what
`HostRetells` gives a new process and `adapters_restart` takes away. For Aquarius an
entry keeps `PoolAgrees`: amount and reward are what was told, or the seed's, or absent
where nothing was (`Follows`), and a position an entry said to hold something knows that
it was held. It keeps `PoolsAgree` as well: the pools are those the entries and the
seeds made known, with the supply told or the seed's (`SupplyAgrees`). Seeds are put
under the state before the first entry, so until its pool is removed a seeded position
is there, which is why a removal told of it is never lost (`Filled`); `PoolFollows` says
the same of the state between ledgers. `PoolsHosted` leaves out what the code cannot
know or gets wrong: a host that does not show the share tokens again, and a bare-address
removal (`MCAdaptersTeardown.cfg`). Seeded pools may be removed. The assumptions on constants keep `None` apart from the records.

Only model-checked: `SelfHeals` (liveness under fairness, which the prover does not
reach). The runs that expect a violation are of course not theorems.

## Not modelled, and why

- Aquarius configuration records: one record per pool, written from the decoded entry
  and loaded back by itself; no record is attributed through another, which is what
  makes Blend's hard.
- Arithmetic of `blend/math.go`, `aquarius/math.go`, `decimal.go`: arithmetic on big integers
  without state; unit tests against mainnet values reach it better.
- `blend/decode.go` and the event halves of the transforms: one record per event.
- Rates, caps, reserve data, token metadata, Q4W queues: carried data no property
  tells apart.
- Bindings, discovery, deployments, fixtures: types, static tables, recognisers.

## Plan

1. (done) Blend pools, reserves, positions; both strategies; refinement; proofs.
2. (done) Backstop with Comet, oracles, Soroswap, FxDAO, Aquarius, the host.
3. (done) `BlendTemporary`: auctions, queued reserves and emissions, with
   `LastTemporaryStateChanges` and its projection; `LifecycleIsTheChains` proved.
4. (done) `BlendConfig`: `ConfigRecords`, `HydrateConfig` and restarts; its properties
   are proved.
5. (done) `BlendProjection`: `computeState`, `emitTombstones`, the projections and the
   consumer; safety proved, healing checked.
6. (done) Proofs of the feed carry, the backstop with the restore of a Comet from its
   carrier, the emissions and the exact transitions of `BlendTemporary`.
7. (done) Proofs about the smaller adapters: all properties of the `adapters` run, by
   induction over the prefixes of a ledger.
8. The health factor of a summary as exact arithmetic over small numbers
   (`blend/math.go`).
