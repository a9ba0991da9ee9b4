------------------------------ MODULE BlendOracle ------------------------------
(***************************************************************************)
(* The price of one reserve asset (blend/state.go, state_reflector.go).  A *)
(* pool names an oracle.  A mock oracle writes prices itself; an           *)
(* aggregator writes none: the decode reproduces its get_price from the    *)
(* rounds of the Reflector feed it reads, carried from ledger to ledger    *)
(* and trimmed to the newest MaxCarried.                                   *)
(*                                                                         *)
(* Close times are coarse: two ledgers may share one.                     *)
(*                                                                         *)
(* `full' is the external truth: every round the feed still holds since    *)
(* its instance was last live, none of them trimmed.  Decimals of a        *)
(* contract are fixed: a served price is a feed price divided by Scale.    *)
(***************************************************************************)
EXTENDS Integers, FiniteSets, FiniteSetsExt

CONSTANTS
    None,
    Pools,
    Mocks, Aggregators,     \* the registered oracle contracts, by kind
    FeedIndices,            \* indices of a feed's asset list
    Indices,                \* indices of an oracle's asset list
    Prices, MockPrices,     \* raw prices a feed's or an oracle's entry may hold
    Deviations,             \* max_dev settings of an aggregator asset
    Scale, One,             \* rescalePrice divides by Scale; 10^decimals
    Resolution, MaxAge,     \* seconds, of the feed and of the aggregator
    MaxCarried,             \* maxCarriedRounds
    Scopes,                 \* what the ledgers of a behaviour change
    MaxTime,                \* bound: the last close time
    MaxFeedChanges,         \* bound: changes of one ledger, by scope
    MaxMockChanges

ASSUME OracleNumbersAssumption ==
    /\ {Scale, One, Resolution} \subseteq Nat \ {0}
    /\ {MaxAge, MaxTime, MaxFeedChanges, MaxMockChanges} \subseteq Nat
    /\ Prices \cup MockPrices \subseteq Int
    /\ Deviations \subseteq 0..99

\* The comment on maxCarriedRounds: the walk and the guard after it.
ASSUME CarryAssumption ==
    MaxCarried \in Nat /\ MaxCarried >= 2 * (MaxAge \div Resolution) + 1

ASSUME OracleNamesAssumption ==
    /\ Mocks \cap Aggregators = {}
    /\ None \notin Mocks \cup Aggregators \cup Indices \cup FeedIndices \cup Int
    /\ Indices # {}
    /\ Scopes \subseteq {"feeds", "mocks"}

Oracles == Mocks \cup Aggregators

Stamps == {Resolution * k : k \in 1..(MaxTime \div Resolution)}

-----------------------------------------------------------------------------
(* The mirror.                                                             *)

\* The prices of a round, by asset index; a round may be known to be empty.
Rounds == [Stamps -> {None} \cup [FeedIndices -> Prices \cup {None}]]

NoRounds == [t \in Stamps |-> None]

Feed == [last : {0} \cup Stamps, index : FeedIndices \cup {None}, rounds : Rounds]

\* How an aggregator answers for the asset: from the feed, as its base (the
\* constant 1), or not at all.
Aggregator == [serves : {"feed", "one", "nothing"}, maxDev : Deviations]

Oracle == [index : Indices \cup {None}, prices : [Indices -> Int \cup {None}],
           synthesized : BOOLEAN]

ASSUME OracleRecordsAssumption == None \notin Feed \cup Oracle

Pool == [oracle : Oracles, price : Nat \cup {None}]

Carried == [feed        : {None} \cup Feed,
            aggregators : [Aggregators -> {None} \cup Aggregator],
            oracles     : [Oracles -> {None} \cup Oracle],
            pools       : [Pools -> {None} \cup Pool]]

Nothing == [feed        |-> None,
            aggregators |-> [a \in Aggregators |-> None],
            oracles     |-> [o \in Oracles |-> None],
            pools       |-> [p \in Pools |-> None]]

NewFeed == [last |-> 0, index |-> None, rounds |-> NoRounds]
EnsureFeed(m) == IF m.feed = None THEN NewFeed ELSE m.feed

NewOracle == [index |-> None, prices |-> [i \in Indices |-> None],
              synthesized |-> FALSE]
EnsureOracle(m, o) == IF m.oracles[o] = None THEN NewOracle ELSE m.oracles[o]

-----------------------------------------------------------------------------
(* One change.                                                             *)

\* Values of the new batch win, the others of the round stay.
SetRound(rounds, t, batch) ==
    LET was == IF rounds[t] = None THEN [i \in FeedIndices |-> None] ELSE rounds[t]
    IN  [rounds EXCEPT ![t] = [i \in FeedIndices |->
            IF batch[i] = None THEN was[i] ELSE batch[i]]]

DropPrice(rounds, t, i) ==
    LET left == [rounds[t] EXCEPT ![i] = None]
    IN  IF rounds[t] = None THEN rounds
        ELSE [rounds EXCEPT ![t] = IF \A j \in FeedIndices : left[j] = None
                                   THEN None ELSE left]

DropRound(rounds, t) == [rounds EXCEPT ![t] = None]

Later(a, b) == IF a > b THEN a ELSE b

\* Either protocol: a batch per round, or one price of it.
FeedRound(m, t, batch) ==
    LET feed == EnsureFeed(m)
    IN  [m EXCEPT !.feed = [feed EXCEPT !.last = Later(t, @),
                                        !.rounds = SetRound(@, t, batch)]]

\* The asset list is replaced, last_timestamp only grows, and the cached
\* rounds are decoded like round entries.
FeedInstance(m, index, last, cached, batch) ==
    LET feed == EnsureFeed(m)
    IN  [m EXCEPT !.feed =
            [last   |-> Max({feed.last, last} \cup cached),
             index  |-> index,
             rounds |-> [t \in Stamps |-> IF t \in cached
                            THEN SetRound(feed.rounds, t, batch)[t]
                            ELSE feed.rounds[t]]]]

MockIndex(m, o, index) ==
    [m EXCEPT !.oracles[o] = [EnsureOracle(m, o) EXCEPT !.index = index]]

MockPrice(m, o, i, v) ==
    [m EXCEPT !.oracles[o] = [EnsureOracle(m, o) EXCEPT !.prices[i] = v]]

MockLapse(m, o, i) ==
    IF m.oracles[o] = None THEN m ELSE [m EXCEPT !.oracles[o].prices[i] = None]

\* markOraclePriceAssetDirty resolves the index with the list it has now.
Listed(m, o, i) == m.oracles[o] # None /\ m.oracles[o].index = i

\* A pool that is known keeps the price of its reserve.
NamesOracle(m, p, o) ==
    [m EXCEPT !.pools[p] =
        [oracle |-> o, price |-> IF @ = None THEN None ELSE @.price]]

-----------------------------------------------------------------------------
(* The end of the ledger.                                                  *)

Positive(rounds, index, t) ==
    /\ t \in Stamps
    /\ rounds[t] # None
    /\ rounds[t][index] # None
    /\ rounds[t][index] > 0

\* The rounds the walk visits: from the last one down, to the oldest age.
Fresh(feed, index, close) ==
    {t \in Stamps : /\ t <= feed.last /\ t >= close - MaxAge
                    /\ (feed.last - t) % Resolution = 0
                    /\ Positive(feed.rounds, index, t)}

\* The older rounds the deviation guard visits.
Older(feed, index, t) ==
    {u \in {t - Resolution * k : k \in 1..(MaxAge \div Resolution)} :
        Positive(feed.rounds, index, u)}

WithinDeviation(price, old, maxDev) ==
    LET limit == (old * maxDev) \div 100
    IN  price - old <= limit /\ old - price <= limit

ResolveFeedPrice(feed, agg, close) ==
    IF feed = None \/ feed.index = None THEN None
    ELSE LET fresh   == Fresh(feed, feed.index, close)
             older   == Older(feed, feed.index, Max(fresh))
             At(t)   == feed.rounds[t][feed.index]
             guarded == agg.maxDev # 0
         IN  IF fresh = {} THEN None
             ELSE IF guarded /\ older = {} THEN None
             ELSE IF guarded /\ ~WithinDeviation(At(Max(fresh)), At(Max(older)), agg.maxDev)
                  THEN None
             ELSE At(Max(fresh)) \div Scale

\* The oracle an aggregator would be if it wrote prices.
Synthesized(feed, agg, close) ==
    LET served == CASE agg.serves = "one"     -> One
                    [] agg.serves = "feed"    -> ResolveFeedPrice(feed, agg, close)
                    [] agg.serves = "nothing" -> None
        index  == CHOOSE i \in Indices : TRUE
    IN  [index       |-> IF agg.serves = "nothing" THEN None ELSE index,
         prices      |-> [i \in Indices |-> IF i = index THEN served ELSE None],
         synthesized |-> TRUE]

ResolveAggregatorPrices(m, close) ==
    [m EXCEPT !.oracles = [o \in Oracles |->
        IF o \in Aggregators /\ m.aggregators[o] # None
        THEN Synthesized(m.feed, m.aggregators[o], close)
        ELSE m.oracles[o]]]

\* The price an oracle holds for the asset it lists.
Answer(oracle) ==
    LET v == oracle.prices[oracle.index]
    IN  IF v # None /\ v > 0 THEN v ELSE None

\* A pool whose oracle is unknown, or does not list the asset, is skipped.
ResolveOraclePrices(m) ==
    LET Resolves(p) == /\ m.pools[p] # None
                       /\ m.oracles[m.pools[p].oracle] # None
                       /\ m.oracles[m.pools[p].oracle].index # None
    IN  [m EXCEPT !.pools = [p \in Pools |->
            IF Resolves(p)
            THEN [m.pools[p] EXCEPT !.price = Answer(m.oracles[m.pools[p].oracle])]
            ELSE m.pools[p]]]

\* Mutants: the oldest rounds are kept; one round too many is kept.
TrimNewest(rounds) ==
    LET known == {t \in Stamps : rounds[t] # None}
    IN  [t \in Stamps |->
            IF t \in known /\ Cardinality({u \in known : u < t}) < MaxCarried
            THEN rounds[t] ELSE None]
TrimLate(rounds) ==
    LET known == {t \in Stamps : rounds[t] # None}
    IN  [t \in Stamps |->
            IF t \in known /\ Cardinality({u \in known : u > t}) <= MaxCarried
            THEN rounds[t] ELSE None]

TrimRounds(rounds) ==
    LET known == {t \in Stamps : rounds[t] # None}
    IN  [t \in Stamps |->
            IF t \in known /\ Cardinality({u \in known : u > t}) < MaxCarried
            THEN rounds[t] ELSE None]

\* What the mirror is after build or snapshot: priced, and trimmed.
Built(m, close) ==
    LET priced == ResolveOraclePrices(ResolveAggregatorPrices(m, close))
    IN  IF m.feed = None THEN priced
        ELSE [priced EXCEPT !.feed.rounds = TrimRounds(@)]

DropSynthesized(m) ==
    [m EXCEPT !.oracles = [o \in Oracles |->
        IF m.oracles[o] # None /\ m.oracles[o].synthesized THEN None
        ELSE m.oracles[o]]]

-----------------------------------------------------------------------------
(* Ledgers of oracle changes.                                              *)

VARIABLES
    scope,          \* fixed for a behaviour
    phase,          \* "idle" or "applying"
    mirror,         \* the live mirror, priced at the end of every ledger
    committed,      \* the state the last decode returned
    close,          \* close time of the ledger
    applied,        \* changes applied in this ledger
    feedChanged,    \* changedFeeds holds the feed
    priceChanged,   \* changedPriceAssets holds the asset
    full,           \* history: the rounds the feed holds, untrimmed
    reconfigured    \* history: an instance or a pool changed in this ledger

vars == <<scope, phase, mirror, committed, close, applied, feedChanged,
          priceChanged, full, reconfigured>>

Init ==
    /\ scope \in Scopes
    /\ phase = "idle"
    /\ mirror = Nothing
    /\ committed = Nothing
    /\ close = 0
    /\ applied = 0
    /\ feedChanged = FALSE
    /\ priceChanged = FALSE
    /\ full = NoRounds
    /\ reconfigured = FALSE

\* Either strategy starts from the committed state without the synthesized
\* oracles: a reload never stored them, the live mirror drops them.  Only what
\* is read from a feed depends on the close time.
BeginLedger ==
    /\ phase = "idle"
    /\ phase' = "applying"
    /\ mirror' = DropSynthesized(committed)
    /\ close' \in close .. (IF scope = "feeds" THEN MaxTime ELSE close)
    /\ UNCHANGED <<scope, committed, applied, feedChanged, priceChanged, full, reconfigured>>

MaxChanges == IF scope = "feeds" THEN MaxFeedChanges ELSE MaxMockChanges

Apply(next) ==
    /\ phase = "applying"
    /\ applied < MaxChanges
    /\ applied' = applied + 1
    /\ mirror' = next
    /\ UNCHANGED <<scope, phase, committed, close>>

\* The asset goes to markPriceAssetDirty: an oracle wrote its price, or a feed
\* changed that an aggregator of the final mirror maps it to.
Marked ==
    \/ priceChanged
    \/ /\ feedChanged
       /\ \E a \in Aggregators : /\ mirror.aggregators[a] # None
                                 /\ mirror.aggregators[a].serves = "feed"

EndLedger ==
    /\ phase = "applying"
    /\ phase' = "idle"
    /\ mirror' = Built(mirror, close)
    /\ committed' = mirror'
    /\ applied' = 0
    /\ feedChanged' = FALSE
    /\ priceChanged' = FALSE
    /\ reconfigured' = FALSE
    /\ UNCHANGED <<scope, close, full>>

Quiet == UNCHANGED <<feedChanged, priceChanged, full>>
\* Mutant: a feed change is applied and not recorded.
FeedUntold == UNCHANGED <<feedChanged, priceChanged>>
FeedTold == feedChanged' = TRUE /\ UNCHANGED priceChanged

RoundWritten(t, batch) ==
    /\ t <= close                  \* the feed publishes no round of the future
    /\ Apply(FeedRound(mirror, t, batch))
    /\ full' = SetRound(full, t, batch)
    /\ FeedTold
    /\ UNCHANGED reconfigured

FeedInstanceWritten(index, last, cached, batch) ==
    /\ \A t \in {last} \cup cached : t <= close
    /\ Apply(FeedInstance(mirror, index, last, cached, batch))
    /\ full' = [t \in Stamps |-> IF t \in cached THEN SetRound(full, t, batch)[t]
                                 ELSE full[t]]
    /\ FeedTold
    /\ reconfigured' = TRUE

\* A round, or one price of it, lapses.
LoseRounds(rounds) ==
    Apply(IF mirror.feed = None THEN mirror
          ELSE [mirror EXCEPT !.feed.rounds = rounds])

RoundLapsed(t) ==
    /\ LoseRounds(DropRound(mirror.feed.rounds, t))
    /\ full' = DropRound(full, t)
    /\ FeedTold
    /\ UNCHANGED reconfigured

PriceLapsed(t, i) ==
    /\ LoseRounds(DropPrice(mirror.feed.rounds, t, i))
    /\ full' = DropPrice(full, t, i)
    /\ FeedTold
    /\ UNCHANGED reconfigured

\* The decode forgets a feed whose instance lapsed, and so does `full'.
FeedInstanceLapsed ==
    /\ mirror.feed # None
    /\ Apply([mirror EXCEPT !.feed = None])
    /\ full' = NoRounds
    /\ FeedTold
    /\ reconfigured' = TRUE

AggregatorWritten(a, serves, maxDev) ==
    /\ Apply([mirror EXCEPT !.aggregators[a] = [serves |-> serves, maxDev |-> maxDev]])
    /\ reconfigured' = TRUE
    /\ Quiet

AggregatorDeleted(a) ==
    /\ mirror.aggregators[a] # None
    /\ Apply([mirror EXCEPT !.aggregators[a] = None])
    /\ reconfigured' = TRUE
    /\ Quiet

MockInstanceWritten(o, index) ==
    /\ Apply(MockIndex(mirror, o, index))
    /\ reconfigured' = TRUE
    /\ Quiet

MockPriceWritten(o, i, v) ==
    /\ Apply(MockPrice(mirror, o, i, v))
    /\ priceChanged' = (priceChanged \/ Listed(mirror, o, i))
    /\ UNCHANGED <<feedChanged, full, reconfigured>>

MockPriceLapsed(o, i) ==
    /\ mirror.oracles[o] # None
    /\ Apply(MockLapse(mirror, o, i))
    /\ priceChanged' = (priceChanged \/ Listed(mirror, o, i))
    /\ UNCHANGED <<feedChanged, full, reconfigured>>

PoolWritten(p, o) ==
    /\ Apply(NamesOracle(mirror, p, o))
    /\ reconfigured' = TRUE
    /\ Quiet

PoolDeleted(p) ==
    /\ mirror.pools[p] # None
    /\ Apply([mirror EXCEPT !.pools[p] = None])
    /\ reconfigured' = TRUE
    /\ Quiet

FeedChange ==
    /\ scope = "feeds"
    /\ \/ \E t \in Stamps, batch \in [FeedIndices -> Prices \cup {None}] : RoundWritten(t, batch)
       \/ \E index \in FeedIndices \cup {None}, last \in Stamps, cached \in {{}} \cup {{t} : t \in Stamps},
             batch \in [FeedIndices -> Prices \cup {None}] :
               FeedInstanceWritten(index, last, cached, batch)
       \/ \E t \in Stamps : RoundLapsed(t)
       \/ \E t \in Stamps, i \in FeedIndices : PriceLapsed(t, i)
       \/ FeedInstanceLapsed

MockChange ==
    /\ scope = "mocks"
    /\ \/ \E o \in Mocks, index \in Indices \cup {None} : MockInstanceWritten(o, index)
       \/ \E o \in Mocks, i \in Indices, v \in MockPrices : MockPriceWritten(o, i, v)
       \/ \E o \in Mocks, i \in Indices : MockPriceLapsed(o, i)

\* Changes of either scope; which oracles a pool may name depends on it.
WiringChange ==
    \/ \E a \in Aggregators, serves \in {"feed", "one", "nothing"}, maxDev \in Deviations :
            AggregatorWritten(a, serves, maxDev)
    \/ \E a \in Aggregators : AggregatorDeleted(a)
    \/ \E p \in Pools, o \in Aggregators : PoolWritten(p, o)
    \/ scope = "mocks" /\ \E p \in Pools, o \in Mocks : PoolWritten(p, o)
    \/ \E p \in Pools : PoolDeleted(p)

Next == BeginLedger \/ FeedChange \/ MockChange \/ WiringChange \/ EndLedger

Spec == Init /\ [][Next]_vars

-----------------------------------------------------------------------------
(* Properties.                                                             *)

\* The mirror and the committed state are of their types; a priced reserve
\* holds a positive price (resolveOraclePrices), and no state a decode returns
\* carries more than MaxCarried rounds (trimRounds).
OracleTypeOK ==
    /\ scope \in Scopes
    /\ phase \in {"idle", "applying"}
    /\ {mirror, committed} \subseteq Carried
    /\ \A p \in Pools : committed.pools[p] # None => committed.pools[p].price # 0
    /\ committed.feed # None =>
          Cardinality({t \in Stamps : committed.feed.rounds[t] # None}) <= MaxCarried
    /\ close \in 0..MaxTime
    /\ applied \in 0..MaxChanges
    /\ {feedChanged, priceChanged, reconfigured} \subseteq BOOLEAN
    /\ full \in Rounds

\* The stamps at which the feed still holds a positive price of the asset.
Priced == {t \in Stamps : Positive(full, mirror.feed.index, t)}

\* What get_price says of a feed that never loses a round it still holds: the
\* youngest price that is not too old, if the next older one vouches for it.
Quotes(agg) ==
    {full[t][mirror.feed.index] \div Scale : t \in
        {t \in Priced :
            /\ close - t <= MaxAge
            /\ (mirror.feed.last - t) % Resolution = 0
            /\ \A u \in Priced : u > t => (mirror.feed.last - u) % Resolution # 0
            /\ agg.maxDev # 0 =>
                \E u \in Priced :
                    /\ u < t
                    /\ t - u <= MaxAge
                    /\ (t - u) % Resolution = 0
                    /\ \A w \in Priced : w > u /\ w < t => (t - w) % Resolution # 0
                    /\ WithinDeviation(full[t][mirror.feed.index],
                                       full[u][mirror.feed.index], agg.maxDev)}}

\* resolveAggregatorPrices: however long the feed is decoded, however often
\* its carry is trimmed, reloaded or filled late, a pool priced through an
\* aggregator shows get_price over everything the feed holds, and no price
\* where get_price refuses one.
PriceIsTheAggregators ==
    phase = "idle" =>
        \A p \in Pools, a \in Aggregators :
            (mirror.pools[p] # None /\ mirror.pools[p].oracle = a /\ mirror.aggregators[a] # None)
            => LET agg    == mirror.aggregators[a]
                   quotes == IF mirror.feed = None \/ mirror.feed.index = None THEN {}
                             ELSE Quotes(agg) \ {0}
               IN  CASE agg.serves = "feed" ->
                            {mirror.pools[p].price} = IF quotes = {} THEN {None} ELSE quotes
                     [] agg.serves = "one"  -> mirror.pools[p].price = One
                     [] OTHER               -> TRUE

\* What the pool would show of a state at the close time of this ledger.
Shown(m, p) == ResolveOraclePrices(ResolveAggregatorPrices(m, close)).pools[p]

\* changedFeeds and changedPriceAssets: when the entries of a ledger, not its
\* close time and not a new configuration, move the price a pool shows, the
\* asset is sent to the holders it values.
PriceWritesReported ==
    [][\A p \in Pools :
        (phase = "applying" /\ phase' = "idle" /\ ~reconfigured
            /\ mirror.pools[p] # None /\ Shown(mirror, p) # Shown(committed, p))
        => Marked]_vars

\* state.go:1373: an aggregator that is gone stops pricing "rather than
\* freezing on the last config".
PricesStopWithTheirOracle ==
    phase = "idle" =>
        \A p \in Pools, a \in Aggregators :
            (mirror.pools[p] # None /\ mirror.pools[p].oracle = a /\ mirror.aggregators[a] = None)
            => mirror.pools[p].price = None

\* bindings/types.go:348: a price change is one of the changes that report
\* the holders it values.
PriceChangesReported ==
    [][\A p \in Pools :
        (phase = "applying" /\ phase' = "idle" /\ ~reconfigured
            /\ committed.pools[p] # None /\ committed'.pools[p] # None
            /\ committed'.pools[p].price # committed.pools[p].price)
        => Marked]_vars
=============================================================================
