-------------------------- MODULE BlendConfig_proofs --------------------------
(***************************************************************************)
(* Proofs about BlendConfig, for any pools, assets, indexes, oracles and   *)
(* contents, changes per ledger and restarts.                              *)
(*                                                                         *)
(* The properties speak of the records between ledgers.  The invariant     *)
(* says, in the middle of a ledger, what ConfigRecords would make of each  *)
(* entity: an entity the ledger has not named is recorded as the state     *)
(* holds it, and one it has named is in the state as its mark says.        *)
(***************************************************************************)
EXTENDS BlendConfig, TLAPS

USE DEF Marks

\* A pool none of whose changes counts is recorded as it is; Config and
\* ResList leave the pool known.
PoolInv(p) ==
    /\ seen.pools[p] = "no" => seen.poolKeys[p] = "no"
    /\ seen.poolKeys[p] = "live" => mirror.pools[p] # None
    /\ PoolMark(p) = "no" /\ store.pools[p] # None =>
          /\ mirror.pools[p] # None /\ store.pools[p].config = mirror.pools[p]
          /\ p \notin relinked => store.pools[p].backstop = mirror.backstops[p]

\* A reserve's record follows its ResConfig.
Recorded(k) ==
    /\ resConfig[k] = None => store.reserves[k] = None
    /\ resConfig[k] # None /\ resConfig[k].live => store.reserves[k] # None
    /\ store.reserves[k] # None => store.reserves[k].index = resConfig[k].index

\* The live reserve holds the index its ResConfig stated, or none, and the
\* mark of the ledger is that of the ResConfig.
ReserveInv(k) ==
    k \notin undone =>
        /\ mirror.reserves[k] # None /\ mirror.reserves[k].index # None =>
              resConfig[k] # None /\ mirror.reserves[k].index = resConfig[k].index
        /\ seen.reserves[k] = "live" =>
              mirror.reserves[k] # None /\ mirror.reserves[k].index # None
        /\ seen.reserves[k] = "gone" => resConfig[k] = None \/ ~resConfig[k].live
        /\ seen.reserves[k] = "no" => Recorded(k)

\* An oracle whose map is recorded is known.
MapInv(o) ==
    /\ store.maps[o] # None => mirror.mocks[o] # None
    /\ seen.mocks[o] = "live" => mirror.mocks[o] # None /\ mirror.mocks[o].map # None
    /\ seen.mocks[o] = "no" /\ store.maps[o] # None =>
          mirror.mocks[o].map = store.maps[o]

\* No price of an oracle the state does not know is recorded, unless a restart
\* forgot it.
PriceInv(o) ==
    o \notin forgotten =>
        \A i \in PriceIndexes :
            IF mirror.mocks[o] = None
            THEN store.prices[o][i] = None /\ seen.prices[o][i] # "live"
            ELSE /\ seen.prices[o][i] = "no" =>
                        store.prices[o][i] = mirror.mocks[o].prices[i]
                 /\ seen.prices[o][i] = "live" => mirror.mocks[o].prices[i] # None
                 /\ seen.prices[o][i] = "gone" => mirror.mocks[o].prices[i] = None

SourceInv(c) ==
    seen.sources[c] = "no" /\ store.sources[c] # None /\ mirror.sources[c] # None =>
        store.sources[c] = mirror.sources[c]

Idle == applied = 0 => seen = NothingSeen

ConfigInv ==
    /\ ConfigTypeOK
    /\ Idle
    /\ \A p \in Pools : PoolInv(p)
    /\ \A k \in Pairs : ReserveInv(k)
    /\ \A o \in Mocks : MapInv(o) /\ PriceInv(o)
    /\ \A c \in Sources : SourceInv(c)

-----------------------------------------------------------------------------
(* Types of the operators.                                                 *)

LEMMA EnsureTypes ==
    /\ \A pool \in Pool \cup {None} :
          /\ EnsurePool(pool) \in Pool
          /\ EnsurePool(pool) # None
          /\ pool # None => EnsurePool(pool) = pool
    /\ \A reserve \in Reserve \cup {None} :
          /\ EnsureReserve(reserve) \in Reserve
          /\ EnsureReserve(reserve) # None
          /\ reserve # None => EnsureReserve(reserve) = reserve
          /\ reserve = None => EnsureReserve(reserve).index = None
    /\ \A mock \in Mock \cup {None} :
          /\ EnsureMock(mock) \in Mock
          /\ EnsureMock(mock) # None
          /\ mock # None => EnsureMock(mock) = mock
          /\ mock = None => \A i \in PriceIndexes : EnsureMock(mock).prices[i] = None
<1>1. \A pool \in Pool \cup {None} :
          /\ EnsurePool(pool) \in Pool
          /\ pool # None => EnsurePool(pool) = pool
  BY DEF EnsurePool, Pool
<1>2. \A reserve \in Reserve \cup {None} :
          /\ EnsureReserve(reserve) \in Reserve
          /\ reserve # None => EnsureReserve(reserve) = reserve
          /\ reserve = None => EnsureReserve(reserve).index = None
  BY DEF EnsureReserve, Reserve
<1>3. \A mock \in Mock \cup {None} :
          /\ EnsureMock(mock) \in Mock
          /\ mock # None => EnsureMock(mock) = mock
          /\ mock = None => \A i \in PriceIndexes : EnsureMock(mock).prices[i] = None
  BY DEF EnsureMock, Mock, NoPrices
<1> QED
  BY <1>1, <1>2, <1>3, ConfigRecordsAssumption

LEMMA InitInv == Init => ConfigInv
<1> SUFFICES ASSUME Init PROVE ConfigInv
  OBVIOUS
<1>1. ConfigTypeOK
  <2>1. mirror \in Mirror
    BY DEF Init, EmptyMirror, Mirror
  <2>2. store \in Store
    BY DEF Init, EmptyStore, Store, NoPrices
  <2>3. seen \in Seen
    BY DEF Init, NothingSeen, Seen
  <2> QED
    BY <2>1, <2>2, <2>3, ConfigBoundsAssumption DEF Init, ConfigTypeOK, EmptyMirror
<1>2. Idle
  BY DEF Init, Idle
<1>3. \A p \in Pools : PoolInv(p)
  BY DEF Init, PoolInv, PoolMark, EmptyStore, EmptyMirror, NothingSeen
<1>4. \A k \in Pairs : ReserveInv(k)
  BY DEF Init, ReserveInv, Recorded, EmptyStore, EmptyMirror, NothingSeen
<1>5. \A o \in Mocks : MapInv(o) /\ PriceInv(o)
  BY DEF Init, MapInv, PriceInv, EmptyStore, EmptyMirror, NothingSeen, NoPrices
<1>6. \A c \in Sources : SourceInv(c)
  BY DEF Init, SourceInv, EmptyStore, EmptyMirror, NothingSeen
<1> QED
  BY <1>1, <1>2, <1>3, <1>4, <1>5, <1>6 DEF ConfigInv

-----------------------------------------------------------------------------
(* One change of the pools.                                                *)

\* A mirror of its type; no reserve is without its pool.
Sound(m) ==
    /\ m \in Mirror
    /\ \A p \in Pools : m.backstops[p] # None => m.pools[p] # None
    /\ \A k \in Pairs : m.reserves[k] # None => m.pools[k[1]] # None

\* What a change may do to the backstop a pool refers to, if it does not name
\* the pool's configuration.
Relinked(p) ==
    /\ p \in relinked => p \in relinked'
    /\ p \in relinked' \/ mirror'.backstops[p] = mirror.backstops[p]

\* What a change may do to a pool and to its marks.
PoolStep(p) ==
    \/ /\ seen'.pools[p] = seen.pools[p] /\ seen'.poolKeys[p] = seen.poolKeys[p]
       /\ mirror'.pools[p] \in {mirror.pools[p], EnsurePool(mirror.pools[p])}
       /\ Relinked(p)
    \/ /\ seen'.pools[p] = "live" /\ seen'.poolKeys[p] \in {"live", seen.poolKeys[p]}
       /\ mirror'.pools[p] # None
    \/ /\ seen'.pools[p] = "gone" /\ seen'.poolKeys[p] = "gone"
       /\ mirror'.pools[p] = None
    \/ /\ seen'.pools[p] = "gone" /\ seen'.poolKeys[p] = seen.poolKeys[p]
       /\ mirror'.pools[p] = mirror.pools[p] /\ Relinked(p)

SameIndex(k) ==
    IF mirror.reserves[k] = None
    THEN mirror'.reserves[k] = None \/ mirror'.reserves[k].index = None
    ELSE /\ mirror'.reserves[k] # None
         /\ mirror'.reserves[k].index = mirror.reserves[k].index

\* A change that is no ResConfig of the reserve: it may drop it.
OtherStep(k) ==
    /\ seen'.reserves[k] = seen.reserves[k] /\ resConfig'[k] = resConfig[k]
    /\ k \in undone => k \in undone'
    /\ \/ SameIndex(k)
       \/ mirror'.reserves[k] = None /\ (seen.reserves[k] = "live" => k \in undone')

ConfiguredStep(k) ==
    /\ seen'.reserves[k] = "live"
    /\ mirror'.reserves[k] # None /\ mirror'.reserves[k].index # None
    /\ resConfig'[k] # None /\ mirror'.reserves[k].index = resConfig'[k].index

RemovedStep(k) ==
    seen'.reserves[k] = "gone" /\ resConfig'[k] = None /\ mirror'.reserves[k] = None

LapsedStep(k) ==
    /\ seen'.reserves[k] = "gone"
    /\ resConfig[k] # None /\ resConfig'[k] # None
    /\ resConfig'[k].index = resConfig[k].index /\ ~resConfig'[k].live
    /\ \/ SameIndex(k) /\ (k \in undone => k \in undone')
       \/ mirror'.reserves[k] = None
       \/ mirror'.reserves[k].index = resConfig'[k].index

ReserveStep(k) ==
    OtherStep(k) \/ ConfiguredStep(k) \/ RemovedStep(k) \/ LapsedStep(k)

\* Such a change, and nothing else, preserves the invariant.
LEMMA PoolSideStep ==
    ASSUME ConfigInv, NEW in, NEW next, NEW marks, Apply(in, next, marks),
           Sound(next), marks \in Seen,
           next.mocks = mirror.mocks, next.sources = mirror.sources,
           marks.mocks = seen.mocks, marks.prices = seen.prices,
           marks.sources = seen.sources,
           resConfig' \in [Pairs -> {None} \cup ResConfig], undone' \subseteq Pairs,
           relinked' \subseteq Pools,
           \A p \in Pools : PoolStep(p), \A k \in Pairs : ReserveStep(k)
    PROVE  ConfigInv'
<1>1. /\ mirror' = next /\ seen' = marks /\ applied < MaxChanges
      /\ applied' = applied + 1
      /\ UNCHANGED <<scope, store, restarts, forgotten>>
  BY DEF Apply
<1>2. ConfigTypeOK'
  BY <1>1, ConfigBoundsAssumption DEF ConfigInv, ConfigTypeOK, Sound
<1>3. Idle'
  BY <1>1 DEF ConfigInv, ConfigTypeOK, Idle
<1>4. ASSUME NEW p \in Pools
      PROVE  PoolInv(p)'
  <2>1. PoolInv(p) /\ PoolStep(p) /\ mirror.pools[p] \in Pool \cup {None}
    BY DEF ConfigInv, ConfigTypeOK, Mirror
  <2>2. store'.pools[p] = store.pools[p]
    BY <1>1
  <2>3. EnsurePool(mirror.pools[p]) # None /\
        (mirror.pools[p] # None => EnsurePool(mirror.pools[p]) = mirror.pools[p])
    BY <2>1, EnsureTypes
  <2>4. seen.pools[p] \in {"no", "live", "gone"} /\ seen.poolKeys[p] \in {"no", "live", "gone"}
    BY DEF ConfigInv, ConfigTypeOK, Seen
  <2> QED
    BY <2>1, <2>2, <2>3, <2>4 DEF PoolInv, PoolStep, PoolMark, Relinked
<1>5. ASSUME NEW k \in Pairs
      PROVE  ReserveInv(k)'
  <2>1. ReserveInv(k) /\ ReserveStep(k) /\ store'.reserves[k] = store.reserves[k]
    BY <1>1 DEF ConfigInv
  <2>2. CASE OtherStep(k)
    BY <2>1, <2>2 DEF ReserveInv, Recorded, OtherStep, SameIndex
  <2>3. CASE ConfiguredStep(k)
    BY <2>3 DEF ReserveInv, ConfiguredStep
  <2>4. CASE RemovedStep(k)
    BY <2>4 DEF ReserveInv, RemovedStep
  <2>5. CASE LapsedStep(k)
    BY <2>1, <2>5 DEF ReserveInv, LapsedStep, SameIndex
  <2> QED
    BY <2>1, <2>2, <2>3, <2>4, <2>5 DEF ReserveStep
<1>6. ASSUME NEW o \in Mocks
      PROVE  MapInv(o)' /\ PriceInv(o)'
  BY <1>1 DEF ConfigInv, MapInv, PriceInv
<1>7. ASSUME NEW c \in Sources
      PROVE  SourceInv(c)'
  BY <1>1 DEF ConfigInv, SourceInv
<1> QED
  BY <1>2, <1>3, <1>4, <1>5, <1>6, <1>7 DEF ConfigInv
-----------------------------------------------------------------------------
(* The changes of pools, reserves and emissions.                           *)

LEMMA PoolChangeInv ==
    ASSUME ConfigInv, PoolChange
    PROVE  ConfigInv'
<1>0. /\ Sound(mirror) /\ mirror \in Mirror /\ seen \in Seen
      /\ resConfig \in [Pairs -> {None} \cup ResConfig] /\ undone \subseteq Pairs
      /\ relinked \subseteq Pools
  BY DEF ConfigInv, ConfigTypeOK, Sound
<1>a. \A p \in Pools, mark \in Marks : SeePool(p, mark) \in Seen
  BY <1>0 DEF SeePool, Seen
<1>b. \A k \in Pairs : k[1] \in Pools /\ mirror.reserves[k] \in Reserve \cup {None}
  BY <1>0 DEF Pairs, Mirror
<1>1. ASSUME NEW p \in Pools, NEW c \in Contents, NEW b \in Backstops \cup {None},
             NEW in, NEW marks \in Seen,
             Apply(in, [mirror EXCEPT !.pools[p] = c, !.backstops[p] = b], marks),
             marks.mocks = seen.mocks, marks.prices = seen.prices,
             marks.sources = seen.sources, marks.reserves = seen.reserves,
             marks.pools = [seen.pools EXCEPT ![p] = "live"],
             marks.poolKeys \in {seen.poolKeys, [seen.poolKeys EXCEPT ![p] = "live"]},
             UNCHANGED <<resConfig, undone, relinked>>
      PROVE  ConfigInv'
  <2> DEFINE next == [mirror EXCEPT !.pools[p] = c, !.backstops[p] = b]
  <2>1. c \in Pool /\ c # None
    BY ConfigNoneAssumption DEF Pool
  <2>2. /\ next \in Mirror /\ next.reserves = mirror.reserves /\ next.mocks = mirror.mocks
        /\ next.sources = mirror.sources /\ next.pools = [mirror.pools EXCEPT ![p] = c]
        /\ next.backstops = [mirror.backstops EXCEPT ![p] = b]
    BY <1>0, <2>1 DEF Mirror
  <2>3. Apply(in, next, marks) /\ mirror' = next /\ seen' = marks
    BY <1>1 DEF Apply
  <2> HIDE DEF next
  <2>4. Sound(next)
    BY <1>0, <1>b, <2>1, <2>2 DEF Sound, Mirror
  <2>5. \A q \in Pools : PoolStep(q)
    BY <1>0, <1>1, <2>1, <2>2, <2>3 DEF PoolStep, Relinked, Mirror, Seen
  <2>6. \A k \in Pairs : ReserveStep(k)
    BY <1>1, <2>2, <2>3 DEF ReserveStep, OtherStep, SameIndex
  <2> QED
    BY <1>0, <1>1, <2>2, <2>3, <2>4, <2>5, <2>6, PoolSideStep
<1>6. ASSUME NEW p \in Pools, NEW c \in Contents, PoolConfigured(p, c)
      PROVE  ConfigInv'
  <2> DEFINE marks == SeePool(p, "live")
  <2>1. /\ marks \in Seen /\ marks.mocks = seen.mocks /\ marks.prices = seen.prices
        /\ marks.sources = seen.sources /\ marks.reserves = seen.reserves
        /\ marks.pools = [seen.pools EXCEPT ![p] = "live"]
        /\ marks.poolKeys = [seen.poolKeys EXCEPT ![p] = "live"]
    BY <1>0, <1>a DEF SeePool, Seen
  <2>2. mirror.backstops[p] \in Backstops \cup {None}
    BY <1>0 DEF Mirror
  <2>3. [mirror EXCEPT !.pools[p] = c]
            = [mirror EXCEPT !.pools[p] = c, !.backstops[p] = mirror.backstops[p]]
    BY <1>0 DEF Mirror
  <2>4. /\ Apply(PoolScopes, [mirror EXCEPT !.pools[p] = c], marks)
        /\ UNCHANGED <<resConfig, undone, relinked>>
    BY <1>6 DEF PoolConfigured, Unchanged
  <2> HIDE DEF marks
  <2>5. Apply(PoolScopes, [mirror EXCEPT !.pools[p] = c, !.backstops[p] = mirror.backstops[p]],
              marks)
    BY <2>3, <2>4
  <2> QED
    BY <1>1, <2>1, <2>2, <2>4, <2>5
<1>7. ASSUME NEW p \in Pools, NEW c \in Contents, NEW b \in Backstops \cup {None},
             PoolInstance(p, c, b)
      PROVE  ConfigInv'
  <2> DEFINE marks == [seen EXCEPT !.pools[p] = "live"]
             in == IF b = None THEN PoolScopes ELSE LinkScopes
             d == IF b = None THEN mirror.backstops[p] ELSE b
  <2>1. /\ marks \in Seen /\ marks.mocks = seen.mocks /\ marks.prices = seen.prices
        /\ marks.sources = seen.sources /\ marks.reserves = seen.reserves
        /\ marks.pools = [seen.pools EXCEPT ![p] = "live"]
        /\ marks.poolKeys = seen.poolKeys
    BY <1>0 DEF Seen
  <2>2. d \in Backstops \cup {None}
    BY <1>0 DEF Mirror
  <2>3. /\ Apply(in, [mirror EXCEPT !.pools[p] = c, !.backstops[p] = d], marks)
        /\ UNCHANGED <<resConfig, undone, relinked>>
    BY <1>7 DEF PoolInstance, Unchanged
  <2> HIDE DEF marks, in, d
  <2> QED
    BY <1>1, <2>1, <2>2, <2>3
<1>8. ASSUME NEW p \in Pools, NEW b \in Backstops \cup {None},
             NEW pool \in {mirror.pools[p], EnsurePool(mirror.pools[p])},
             b = None \/ pool # None,
             Apply(LinkScopes, [mirror EXCEPT !.pools[p] = pool, !.backstops[p] = b], seen),
             relinked' = relinked \cup {p}, UNCHANGED <<resConfig, undone>>
      PROVE  ConfigInv'
  <2> DEFINE next == [mirror EXCEPT !.pools[p] = pool, !.backstops[p] = b]
  <2>1. /\ pool \in Pool \cup {None}
        /\ mirror.pools[p] # None => pool # None
    BY <1>0, EnsureTypes DEF Mirror
  <2>2. /\ next \in Mirror /\ next.reserves = mirror.reserves /\ next.mocks = mirror.mocks
        /\ next.sources = mirror.sources /\ next.pools = [mirror.pools EXCEPT ![p] = pool]
        /\ next.backstops = [mirror.backstops EXCEPT ![p] = b]
    BY <1>0, <2>1 DEF Mirror
  <2>3. Apply(LinkScopes, next, seen) /\ mirror' = next /\ seen' = seen
    BY <1>8 DEF Apply
  <2> HIDE DEF next
  <2>4. Sound(next)
    BY <1>0, <1>b, <1>8, <2>1, <2>2 DEF Sound, Mirror
  <2>5. \A q \in Pools : PoolStep(q)
    BY <1>0, <1>8, <2>2, <2>3 DEF PoolStep, Relinked, Mirror
  <2>6. \A k \in Pairs : ReserveStep(k)
    BY <1>8, <2>2, <2>3 DEF ReserveStep, OtherStep, SameIndex
  <2>7. relinked' \subseteq Pools
    BY <1>0, <1>8
  <2> QED
    BY <1>0, <1>8, <2>2, <2>3, <2>4, <2>5, <2>6, <2>7, PoolSideStep
<1>9. ASSUME NEW p \in Pools, NEW b \in Backstops, BackstopWritten(p, b)
      PROVE  ConfigInv'
  <2> DEFINE pool == EnsurePool(mirror.pools[p])
  <2>1. pool # None
    BY <1>0, EnsureTypes DEF Mirror
  <2>2. Apply(LinkScopes, [mirror EXCEPT !.pools[p] = pool, !.backstops[p] = b], seen)
        /\ relinked' = relinked \cup {p} /\ UNCHANGED <<resConfig, undone>>
    BY <1>9 DEF BackstopWritten
  <2> HIDE DEF pool
  <2> QED
    BY <1>8, <2>1, <2>2 DEF pool
<1>10. ASSUME NEW p \in Pools, BackstopLost(p)
       PROVE  ConfigInv'
  <2>1. [mirror EXCEPT !.backstops[p] = None]
            = [mirror EXCEPT !.pools[p] = mirror.pools[p], !.backstops[p] = None]
    BY <1>0 DEF Mirror
  <2>2. Apply(LinkScopes, [mirror EXCEPT !.pools[p] = mirror.pools[p], !.backstops[p] = None],
              seen)
        /\ relinked' = relinked \cup {p} /\ UNCHANGED <<resConfig, undone>>
    BY <1>10, <2>1 DEF BackstopLost
  <2> QED
    BY <1>8, <2>2
<1>2. ASSUME NEW p \in Pools, PoolInstanceLost(p)
      PROVE  ConfigInv'
  <2> DEFINE marks == [seen EXCEPT !.pools[p] = "gone"]
  <2>1. /\ marks \in Seen /\ marks.mocks = seen.mocks /\ marks.prices = seen.prices
        /\ marks.sources = seen.sources /\ marks.reserves = seen.reserves
        /\ marks.poolKeys = seen.poolKeys
        /\ marks.pools = [seen.pools EXCEPT ![p] = "gone"]
    BY <1>0 DEF Seen
  <2>2. Apply(PoolScopes, mirror, marks) /\ UNCHANGED <<resConfig, undone, relinked>>
    BY <1>2 DEF PoolInstanceLost, Unchanged
  <2>3. mirror' = mirror /\ seen' = marks
    BY <2>2 DEF Apply
  <2> HIDE DEF marks
  <2>4. \A q \in Pools : PoolStep(q)
    BY <1>0, <2>1, <2>3, <2>2 DEF PoolStep, Relinked, Seen
  <2>5. \A k \in Pairs : ReserveStep(k)
    BY <2>1, <2>2, <2>3 DEF ReserveStep, OtherStep, SameIndex
  <2> QED
    BY <1>0, <2>1, <2>2, <2>4, <2>5, PoolSideStep
<1>3. ASSUME NEW p \in Pools, NEW listed \in SUBSET Assets, PoolListed(p, listed)
      PROVE  ConfigInv'
  <2> DEFINE reserves == [k \in Pairs |-> IF k[1] = p /\ k[2] \in listed
                                          THEN EnsureReserve(mirror.reserves[k])
                                          ELSE mirror.reserves[k]]
             next == [mirror EXCEPT !.pools[p] = EnsurePool(@), !.reserves = reserves]
             marks == SeePool(p, "live")
  <2>1. reserves \in [Pairs -> Reserve \cup {None}]
    BY <1>b, EnsureTypes
  <2>2. EnsurePool(mirror.pools[p]) \in Pool /\ EnsurePool(mirror.pools[p]) # None
    BY <1>0, EnsureTypes DEF Mirror
  <2>3. /\ next.reserves = reserves /\ next.mocks = mirror.mocks
        /\ next.sources = mirror.sources
        /\ next.backstops = mirror.backstops
        /\ next.pools = [mirror.pools EXCEPT ![p] = EnsurePool(mirror.pools[p])]
        /\ next \in Mirror
    BY <1>0, <2>1, <2>2 DEF Mirror
  <2>4. Sound(next)
    BY <1>0, <1>b, <2>2, <2>3 DEF Sound, Mirror
  <2>5. /\ marks \in Seen /\ marks.mocks = seen.mocks /\ marks.prices = seen.prices
        /\ marks.sources = seen.sources /\ marks.reserves = seen.reserves
        /\ marks.poolKeys = [seen.poolKeys EXCEPT ![p] = "live"]
        /\ marks.pools = [seen.pools EXCEPT ![p] = "live"]
    BY <1>0, <1>a DEF Seen, SeePool
  <2>6. Apply(PoolScopes, next, marks) /\ UNCHANGED <<resConfig, undone, relinked>>
    BY <1>3 DEF PoolListed, Unchanged
  <2>7. mirror' = next /\ seen' = marks
    BY <2>6 DEF Apply
  <2>8. \A k \in Pairs : reserves[k] \in {mirror.reserves[k], EnsureReserve(mirror.reserves[k])}
    OBVIOUS
  <2> HIDE DEF next, marks, reserves
  <2>9. \A q \in Pools : PoolStep(q)
    BY <1>0, <2>2, <2>3, <2>5, <2>7, <2>6 DEF PoolStep, Relinked, Seen, Mirror
  <2>10. \A k \in Pairs : ReserveStep(k)
    BY <1>b, <2>3, <2>5, <2>6, <2>7, <2>8, EnsureTypes DEF ReserveStep, OtherStep, SameIndex
  <2> QED
    BY <1>0, <2>3, <2>4, <2>5, <2>6, <2>9, <2>10, PoolSideStep
<1>4. ASSUME NEW p \in Pools, PoolLost(p)
      PROVE  ConfigInv'
  <2> DEFINE next == WithoutPool(mirror, p)
             marks == SeePool(p, "gone")
             dropped == {k \in Pairs : k[1] = p}
  <2>1. /\ next.mocks = mirror.mocks /\ next.sources = mirror.sources
        /\ next.backstops = [mirror.backstops EXCEPT ![p] = None]
        /\ next.pools = [mirror.pools EXCEPT ![p] = None]
        /\ next.reserves = [k \in Pairs |-> IF k[1] = p THEN None ELSE mirror.reserves[k]]
        /\ next \in Mirror
    BY <1>0, <1>b DEF Mirror, WithoutPool
  <2>2. Sound(next)
    BY <1>0, <1>b, <2>1 DEF Sound, Mirror
  <2>3. /\ marks \in Seen /\ marks.mocks = seen.mocks /\ marks.prices = seen.prices
        /\ marks.sources = seen.sources /\ marks.reserves = seen.reserves
        /\ marks.poolKeys = [seen.poolKeys EXCEPT ![p] = "gone"]
        /\ marks.pools = [seen.pools EXCEPT ![p] = "gone"]
    BY <1>0, <1>a DEF Seen, SeePool
  <2>4. /\ Apply(PoolScopes, next, marks) /\ UNCHANGED <<resConfig, relinked>>
        /\ undone' = undone \cup {k \in dropped : seen.reserves[k] = "live"}
    BY <1>4 DEF PoolLost, Drop
  <2>5. mirror' = next /\ seen' = marks
    BY <2>4 DEF Apply
  <2>6. undone' \subseteq Pairs
    BY <1>0, <2>4
  <2> HIDE DEF next, marks
  <2>7. \A q \in Pools : PoolStep(q)
    BY <1>0, <2>1, <2>3, <2>5, <2>4 DEF PoolStep, Relinked, Seen, Mirror
  <2>8. \A k \in Pairs : ReserveStep(k)
    BY <2>1, <2>3, <2>4, <2>5 DEF ReserveStep, OtherStep, SameIndex
  <2> QED
    BY <1>0, <2>1, <2>2, <2>3, <2>4, <2>6, <2>7, <2>8, PoolSideStep
<1>5. ASSUME NEW p \in Pools, PoolTouched(p)
      PROVE  ConfigInv'
  <2> DEFINE next == [mirror EXCEPT !.pools[p] = EnsurePool(@)]
  <2>1. EnsurePool(mirror.pools[p]) \in Pool /\ EnsurePool(mirror.pools[p]) # None
    BY <1>0, EnsureTypes DEF Mirror
  <2>2. /\ next.reserves = mirror.reserves /\ next.mocks = mirror.mocks
        /\ next.sources = mirror.sources /\ next \in Mirror
        /\ next.backstops = mirror.backstops
        /\ next.pools = [mirror.pools EXCEPT ![p] = EnsurePool(mirror.pools[p])]
    BY <1>0, <2>1 DEF Mirror
  <2>3. Sound(next)
    BY <1>0, <1>b, <2>1, <2>2 DEF Sound, Mirror
  <2>4. Apply(PoolScopes, next, seen) /\ UNCHANGED <<resConfig, undone, relinked>>
    BY <1>5 DEF PoolTouched, Unchanged
  <2>5. mirror' = next /\ seen' = seen
    BY <2>4 DEF Apply
  <2> HIDE DEF next
  <2>6. \A q \in Pools : PoolStep(q)
    BY <1>0, <2>2, <2>5, <2>4 DEF PoolStep, Relinked, Mirror
  <2>7. \A k \in Pairs : ReserveStep(k)
    BY <2>2, <2>4, <2>5 DEF ReserveStep, OtherStep, SameIndex
  <2> QED
    BY <1>0, <2>2, <2>3, <2>4, <2>6, <2>7, PoolSideStep
<1> QED
  BY <1>2, <1>3, <1>4, <1>5, <1>6, <1>7, <1>9, <1>10 DEF PoolChange

\* What an entry of a reserve leaves alone.
LEMMA ReserveMirror ==
    ASSUME ConfigInv, NEW k \in Pairs, NEW reserve \in Reserve
    PROVE  LET next == WithReserve(mirror, k, reserve)
           IN  /\ Sound(next) /\ next.mocks = mirror.mocks /\ next.sources = mirror.sources
               /\ next.backstops = mirror.backstops
               /\ next.pools = [mirror.pools EXCEPT ![k[1]] = EnsurePool(@)]
               /\ next.reserves = [mirror.reserves EXCEPT ![k] = reserve]
<1> DEFINE next == WithReserve(mirror, k, reserve)
<1>1. mirror \in Mirror /\ Sound(mirror) /\ k[1] \in Pools
  BY DEF ConfigInv, ConfigTypeOK, Sound, Pairs
<1>2. EnsurePool(mirror.pools[k[1]]) \in Pool /\ EnsurePool(mirror.pools[k[1]]) # None
  BY <1>1, EnsureTypes DEF Mirror
<1>3. /\ next \in Mirror /\ next.mocks = mirror.mocks /\ next.sources = mirror.sources
      /\ next.backstops = mirror.backstops
      /\ next.pools = [mirror.pools EXCEPT ![k[1]] = EnsurePool(@)]
      /\ next.reserves = [mirror.reserves EXCEPT ![k] = reserve]
  BY <1>1, <1>2 DEF WithReserve, Mirror
<1>4. Sound(next)
  BY <1>1, <1>2, <1>3 DEF Sound, Mirror, Pairs
<1> QED
  BY <1>3, <1>4

\* The mark of a ResConfig change.
LEMMA ReserveMarks ==
    ASSUME seen \in Seen, NEW k \in Pairs, NEW mark \in Marks
    PROVE  LET marks == SeeReserve(k, mark)
           IN  /\ marks \in Seen /\ marks.mocks = seen.mocks /\ marks.prices = seen.prices
               /\ marks.sources = seen.sources
               /\ marks.pools = seen.pools /\ marks.poolKeys = seen.poolKeys
               /\ marks.reserves = [seen.reserves EXCEPT ![k] = mark]
BY DEF SeeReserve, Seen

LEMMA ReserveChangeInv ==
    ASSUME ConfigInv, ReserveChange
    PROVE  ConfigInv'
<1>0. /\ Sound(mirror) /\ mirror \in Mirror /\ seen \in Seen
      /\ resConfig \in [Pairs -> {None} \cup ResConfig] /\ undone \subseteq Pairs
      /\ relinked \subseteq Pools
  BY DEF ConfigInv, ConfigTypeOK, Sound
<1>b. \A k \in Pairs : k[1] \in Pools /\ mirror.reserves[k] \in Reserve \cup {None}
  BY <1>0 DEF Pairs, Mirror
<1>c. \A i \in Indexes : /\ [index |-> i, live |-> TRUE] \in ResConfig
                          /\ [index |-> i, live |-> TRUE] # None
  <2>1. \A i \in Indexes : [index |-> i, live |-> TRUE] \in ResConfig
    BY DEF ResConfig
  <2> QED
    BY <2>1, ConfigRecordsAssumption
<1>1. ASSUME NEW k \in Pairs, NEW i \in Indexes, ReserveConfigured(k, i)
      PROVE  ConfigInv'
  <2> DEFINE reserve == [EnsureReserve(mirror.reserves[k]) EXCEPT !.index = i]
             next == WithReserve(mirror, k, reserve)
             marks == SeeReserve(k, "live")
  <2>1. EnsureReserve(mirror.reserves[k]) \in Reserve
    BY <1>b, EnsureTypes
  <2>2. reserve \in Reserve /\ reserve.index = i /\ reserve # None /\ i # None
    BY <2>1, ConfigRecordsAssumption, ConfigNoneAssumption DEF Reserve
  <2>3. /\ Apply(ReserveScopes, next, marks) /\ undone' = undone \ {k}
        /\ resConfig' = [resConfig EXCEPT ![k] = [index |-> i, live |-> TRUE]]
        /\ relinked' = relinked
    BY <1>1 DEF ReserveConfigured
  <2>4. [index |-> i, live |-> TRUE] \in ResConfig /\ [index |-> i, live |-> TRUE] # None
    BY <1>c
  <2>5. /\ resConfig' \in [Pairs -> {None} \cup ResConfig] /\ undone' \subseteq Pairs
        /\ relinked' \subseteq Pools
    BY <1>0, <2>3, <2>4
  <2> HIDE DEF reserve
  <2>6. /\ Sound(next) /\ next.mocks = mirror.mocks /\ next.sources = mirror.sources
        /\ next.backstops = mirror.backstops
        /\ next.pools = [mirror.pools EXCEPT ![k[1]] = EnsurePool(@)]
        /\ next.reserves = [mirror.reserves EXCEPT ![k] = reserve]
    BY <2>2, ReserveMirror
  <2>7. /\ marks \in Seen /\ marks.mocks = seen.mocks /\ marks.prices = seen.prices
        /\ marks.sources = seen.sources
        /\ marks.pools = seen.pools /\ marks.poolKeys = seen.poolKeys
        /\ marks.reserves = [seen.reserves EXCEPT ![k] = "live"]
    BY <1>0, ReserveMarks
  <2>8. mirror' = next /\ seen' = marks
    BY <2>3 DEF Apply
  <2> HIDE DEF next, marks
  <2>9. \A p \in Pools : PoolStep(p)
    BY <1>0, <2>6, <2>7, <2>8, <2>3 DEF PoolStep, Relinked, Mirror
  <2>10. \A j \in Pairs \ {k} : OtherStep(j)
    BY <1>0, <2>3, <2>6, <2>7, <2>8 DEF OtherStep, SameIndex, Mirror, Seen
  <2>11. ConfiguredStep(k)
    BY <1>0, <2>2, <2>3, <2>4, <2>6, <2>7, <2>8 DEF ConfiguredStep, Mirror, Seen
  <2> QED
    BY <2>3, <2>5, <2>6, <2>7, <2>9, <2>10, <2>11, PoolSideStep DEF ReserveStep
<1>2. ASSUME NEW k \in Pairs, ReserveConfigRemoved(k)
      PROVE  ConfigInv'
  <2> DEFINE next == [mirror EXCEPT !.reserves[k] = None]
             marks == SeeReserve(k, "gone")
  <2>1. /\ next \in Mirror /\ next.mocks = mirror.mocks /\ next.sources = mirror.sources
        /\ next.backstops = mirror.backstops
        /\ next.pools = mirror.pools
        /\ next.reserves = [mirror.reserves EXCEPT ![k] = None]
    BY <1>0 DEF Mirror
  <2>2. Sound(next)
    BY <1>0, <2>1 DEF Sound, Mirror
  <2>3. /\ Apply(ReserveScopes, next, marks) /\ undone' = undone \ {k}
        /\ resConfig' = [resConfig EXCEPT ![k] = None] /\ relinked' = relinked
    BY <1>2 DEF ReserveConfigRemoved
  <2>4. /\ resConfig' \in [Pairs -> {None} \cup ResConfig] /\ undone' \subseteq Pairs
        /\ relinked' \subseteq Pools
    BY <1>0, <2>3
  <2>5. /\ marks \in Seen /\ marks.mocks = seen.mocks /\ marks.prices = seen.prices
        /\ marks.sources = seen.sources
        /\ marks.pools = seen.pools /\ marks.poolKeys = seen.poolKeys
        /\ marks.reserves = [seen.reserves EXCEPT ![k] = "gone"]
    BY <1>0, ReserveMarks
  <2>6. mirror' = next /\ seen' = marks
    BY <2>3 DEF Apply
  <2> HIDE DEF next, marks
  <2>7. \A p \in Pools : PoolStep(p)
    BY <2>1, <2>5, <2>6, <2>3 DEF PoolStep, Relinked
  <2>8. \A j \in Pairs \ {k} : OtherStep(j)
    BY <1>0, <2>1, <2>3, <2>5, <2>6 DEF OtherStep, SameIndex, Mirror, Seen
  <2>9. RemovedStep(k)
    BY <1>0, <2>1, <2>3, <2>5, <2>6 DEF RemovedStep, Mirror, Seen
  <2> QED
    BY <2>1, <2>2, <2>3, <2>4, <2>5, <2>7, <2>8, <2>9, PoolSideStep DEF ReserveStep
<1>3. ASSUME NEW k \in Pairs, NEW i \in Indexes \cup {None}, ReserveConfigLapsed(k, i)
      PROVE  ConfigInv'
  <2> DEFINE ensured == EnsureReserve(mirror.reserves[k])
             reserve == IF i = None THEN ensured ELSE [ensured EXCEPT !.index = i]
             next == IF mirror.pools[k[1]] = None THEN mirror
                     ELSE [mirror EXCEPT !.reserves[k] = reserve]
             marks == SeeReserve(k, "gone")
  <2>1. /\ ensured \in Reserve
        /\ mirror.reserves[k] # None => ensured = mirror.reserves[k]
        /\ mirror.reserves[k] = None => ensured.index = None
    BY <1>b, EnsureTypes
  <2>2. /\ reserve \in Reserve /\ reserve # None
        /\ i # None => reserve.index = i
        /\ i = None => reserve = ensured
    BY <2>1, ConfigRecordsAssumption DEF Reserve
  <2>3. /\ resConfig[k] # None /\ i \in {None, resConfig[k].index}
        /\ Apply(ReserveScopes, next, marks)
        /\ resConfig' = [resConfig EXCEPT ![k].live = FALSE]
        /\ undone' = IF i = None THEN undone ELSE undone \ {k}
        /\ relinked' = relinked
    BY <1>3 DEF ReserveConfigLapsed
  <2>4. /\ resConfig' \in [Pairs -> {None} \cup ResConfig] /\ undone' \subseteq Pairs
        /\ relinked' \subseteq Pools
        /\ resConfig'[k] \in ResConfig /\ resConfig'[k].index = resConfig[k].index
        /\ ~resConfig'[k].live
        /\ \A j \in Pairs \ {k} : resConfig'[j] = resConfig[j]
    BY <1>0, <2>3 DEF ResConfig
  <2> HIDE DEF ensured, reserve
  <2>5. /\ next \in Mirror /\ next.mocks = mirror.mocks /\ next.sources = mirror.sources
        /\ next.backstops = mirror.backstops
        /\ next.pools = mirror.pools
        /\ next.reserves = IF mirror.pools[k[1]] = None THEN mirror.reserves
                            ELSE [mirror.reserves EXCEPT ![k] = reserve]
    BY <1>0, <2>2 DEF Mirror
  <2>6. Sound(next)
    BY <1>0, <2>5 DEF Sound, Mirror
  <2>7. /\ marks \in Seen /\ marks.mocks = seen.mocks /\ marks.prices = seen.prices
        /\ marks.sources = seen.sources
        /\ marks.pools = seen.pools /\ marks.poolKeys = seen.poolKeys
        /\ marks.reserves = [seen.reserves EXCEPT ![k] = "gone"]
    BY <1>0, ReserveMarks
  <2>8. mirror' = next /\ seen' = marks
    BY <2>3 DEF Apply
  <2> HIDE DEF next, marks
  <2>9. \A p \in Pools : PoolStep(p)
    BY <2>5, <2>7, <2>8, <2>3 DEF PoolStep, Relinked
  <2>10. \A j \in Pairs \ {k} : OtherStep(j)
    BY <1>0, <2>3, <2>4, <2>5, <2>7, <2>8 DEF OtherStep, SameIndex, Mirror, Seen
  <2>11. /\ seen'.reserves[k] = "gone" /\ resConfig'[k] # None
    BY <1>0, <2>4, <2>7, <2>8, ConfigRecordsAssumption DEF Seen
  <2>12. CASE mirror.pools[k[1]] = None
    <3>1. mirror.reserves[k] = None
      BY <1>0, <2>12 DEF Sound
    <3>2. LapsedStep(k)
      BY <2>3, <2>4, <2>5, <2>8, <2>11, <2>12, <3>1 DEF LapsedStep
    <3> QED
      BY <2>3, <2>4, <2>5, <2>6, <2>7, <2>9, <2>10, <3>2, PoolSideStep DEF ReserveStep
  <2>13. CASE mirror.pools[k[1]] # None
    <3>1. mirror'.reserves[k] = reserve
      BY <1>0, <2>5, <2>8, <2>13 DEF Mirror
    <3>2. LapsedStep(k)
      BY <2>1, <2>2, <2>3, <2>4, <2>11, <3>1 DEF LapsedStep, SameIndex
    <3> QED
      BY <2>3, <2>4, <2>5, <2>6, <2>7, <2>9, <2>10, <3>2, PoolSideStep DEF ReserveStep
  <2> QED
    BY <2>12, <2>13
<1>4. ASSUME NEW k \in Pairs, ReserveDataWritten(k)
      PROVE  ConfigInv'
  <2> DEFINE reserve == EnsureReserve(mirror.reserves[k])
             next == WithReserve(mirror, k, reserve)
  <2>1. /\ reserve \in Reserve /\ reserve # None
        /\ mirror.reserves[k] # None => reserve = mirror.reserves[k]
        /\ mirror.reserves[k] = None => reserve.index = None
    BY <1>b, EnsureTypes
  <2>2. Apply(ReserveScopes, next, seen) /\ UNCHANGED <<resConfig, undone, relinked>>
    BY <1>4 DEF ReserveDataWritten, Unchanged
  <2> HIDE DEF reserve
  <2>3. /\ Sound(next) /\ next.mocks = mirror.mocks /\ next.sources = mirror.sources
        /\ next.backstops = mirror.backstops
        /\ next.pools = [mirror.pools EXCEPT ![k[1]] = EnsurePool(@)]
        /\ next.reserves = [mirror.reserves EXCEPT ![k] = reserve]
    BY <2>1, ReserveMirror
  <2>4. mirror' = next /\ seen' = seen
    BY <2>2 DEF Apply
  <2> HIDE DEF next
  <2>5. \A p \in Pools : PoolStep(p)
    BY <1>0, <2>3, <2>4, <2>2 DEF PoolStep, Relinked, Mirror
  <2>6. \A j \in Pairs : OtherStep(j)
    BY <1>0, <2>1, <2>2, <2>3, <2>4 DEF OtherStep, SameIndex, Mirror
  <2> QED
    BY <1>0, <2>2, <2>3, <2>5, <2>6, PoolSideStep DEF ReserveStep
<1>5. ASSUME NEW k \in Pairs, ReserveDataRemoved(k)
      PROVE  ConfigInv'
  <2> DEFINE next == [mirror EXCEPT !.reserves[k] = None]
  <2>1. /\ next \in Mirror /\ next.mocks = mirror.mocks /\ next.sources = mirror.sources
        /\ next.backstops = mirror.backstops
        /\ next.pools = mirror.pools
        /\ next.reserves = [mirror.reserves EXCEPT ![k] = None]
    BY <1>0 DEF Mirror
  <2>2. Sound(next)
    BY <1>0, <2>1 DEF Sound, Mirror
  <2>3. /\ Apply(ReserveScopes, next, seen) /\ UNCHANGED <<resConfig, relinked>>
        /\ undone' = undone \cup {j \in {k} : seen.reserves[j] = "live"}
    BY <1>5 DEF ReserveDataRemoved, Drop
  <2>4. undone' \subseteq Pairs /\ relinked' \subseteq Pools
    BY <1>0, <2>3
  <2>5. mirror' = next /\ seen' = seen
    BY <2>3 DEF Apply
  <2> HIDE DEF next
  <2>6. \A p \in Pools : PoolStep(p)
    BY <2>1, <2>5, <2>3 DEF PoolStep, Relinked
  <2>7. \A j \in Pairs : OtherStep(j)
    BY <1>0, <2>1, <2>3, <2>5 DEF OtherStep, SameIndex, Mirror
  <2> QED
    BY <1>0, <2>1, <2>2, <2>3, <2>4, <2>6, <2>7, PoolSideStep DEF ReserveStep
<1> QED
  BY <1>1, <1>2, <1>3, <1>4, <1>5 DEF ReserveChange

\* An emission rate leaves the reserve known and its index as it is.
LEMMA RateMirror ==
    ASSUME NEW m, Sound(m), NEW p \in Pools, NEW i \in Indexes, NEW rate \in Rates \cup {None}
    PROVE  LET next == WithRate(m, p, i, rate)
           IN  /\ Sound(next) /\ next.mocks = m.mocks /\ next.sources = m.sources
               /\ next.backstops = m.backstops
               /\ next.pools = m.pools
               /\ \A k \in Pairs :
                     IF m.reserves[k] = None THEN next.reserves[k] = None
                     ELSE /\ next.reserves[k] # None
                          /\ next.reserves[k].index = m.reserves[k].index
<1> DEFINE next == WithRate(m, p, i, rate)
           rated(k) == [m.reserves[k] EXCEPT !.rate = rate]
<1>1. m \in Mirror /\ \A k \in Pairs : m.reserves[k] \in Reserve \cup {None}
  BY DEF Sound, Mirror
<1>2. \A k \in Pairs : m.reserves[k] # None =>
          rated(k) \in Reserve /\ rated(k).index = m.reserves[k].index
  BY <1>1 DEF Reserve
<1>3. \A k \in Pairs : Resolves(m, k, i) => m.reserves[k] # None
  BY DEF Resolves, Claims
<1>4. /\ next.mocks = m.mocks /\ next.sources = m.sources /\ next.pools = m.pools
      /\ next.backstops = m.backstops
      /\ next.reserves = [k \in Pairs |-> IF k[1] = p /\ Resolves(m, k, i)
                                          THEN rated(k) ELSE m.reserves[k]]
  BY <1>1 DEF WithRate, Mirror
<1>5. \A k \in Pairs :
          IF m.reserves[k] = None THEN next.reserves[k] = None
          ELSE next.reserves[k] \in Reserve /\ next.reserves[k].index = m.reserves[k].index
  <2> HIDE DEF rated, next
  <2> QED
    BY <1>1, <1>2, <1>3, <1>4
<1>6. next \in Mirror
  <2>1. next = [m EXCEPT !.reserves = next.reserves]
    BY <1>1 DEF WithRate, Mirror
  <2>2. next.reserves \in [Pairs -> Reserve \cup {None}]
    <3> HIDE DEF rated, next
    <3> QED
      BY <1>4, <1>5
  <2> HIDE DEF rated, next
  <2> QED
    BY <1>1, <2>1, <2>2 DEF Mirror
<1> HIDE DEF rated, next
<1>7. Sound(next)
  BY <1>4, <1>5, <1>6 DEF Sound
<1>8. \A k \in Pairs :
          IF m.reserves[k] = None THEN next.reserves[k] = None
          ELSE next.reserves[k] # None /\ next.reserves[k].index = m.reserves[k].index
  BY <1>5, ConfigRecordsAssumption
<1> QED
  BY <1>4, <1>7, <1>8 DEF next

LEMMA EmissionChangeInv ==
    ASSUME ConfigInv, EmissionChange
    PROVE  ConfigInv'
<1>0. /\ Sound(mirror) /\ mirror \in Mirror /\ seen \in Seen
      /\ resConfig \in [Pairs -> {None} \cup ResConfig] /\ undone \subseteq Pairs
      /\ relinked \subseteq Pools
  BY DEF ConfigInv, ConfigTypeOK, Sound
<1>1. PICK p \in Pools, i \in Indexes :
        \/ \E rate \in Rates : EmissionConfigured(p, i, rate) \/ EmissionDataWritten(p, i, rate)
        \/ EmissionConfigLost(p, i)
        \/ EmissionDataLost(p, i)
  BY DEF EmissionChange
<1> DEFINE touched == [mirror EXCEPT !.pools[p] = EnsurePool(@)]
<1>2. /\ Sound(touched) /\ touched.mocks = mirror.mocks /\ touched.sources = mirror.sources
      /\ touched.backstops = mirror.backstops
      /\ touched.reserves = mirror.reserves
      /\ touched.pools = [mirror.pools EXCEPT ![p] = EnsurePool(@)]
  <2>1. EnsurePool(mirror.pools[p]) \in Pool /\ EnsurePool(mirror.pools[p]) # None
    BY <1>0, EnsureTypes DEF Mirror
  <2>2. /\ touched.mocks = mirror.mocks /\ touched.sources = mirror.sources
        /\ touched.backstops = mirror.backstops
        /\ touched.reserves = mirror.reserves /\ touched \in Mirror
        /\ touched.pools = [mirror.pools EXCEPT ![p] = EnsurePool(@)]
    BY <1>0, <2>1 DEF Mirror
  <2>3. Sound(touched)
    BY <1>0, <2>1, <2>2 DEF Sound, Mirror
  <2> QED
    BY <2>2, <2>3
<1>3. /\ SeeEmission(p, i) \in Seen
      /\ \A f \in {"poolKeys", "pools", "reserves", "mocks", "prices", "sources"} :
            SeeEmission(p, i)[f] = seen[f]
  <2>1. [k \in Pairs |-> IF k[1] = p THEN seen.emissions[k] \cup {i} ELSE seen.emissions[k]]
            \in [Pairs -> SUBSET Indexes]
    BY <1>0 DEF Seen
  <2> QED
    BY <1>0, <2>1 DEF Seen, SeeEmission
<1>4. PICK in \in {ReserveScopes}, m \in {mirror, touched}, rate \in Rates \cup {None}, marks \in {seen, SeeEmission(p, i)} :
        Apply(in, WithRate(m, p, i, rate), marks) /\ UNCHANGED <<resConfig, undone, relinked>>
  BY <1>1 DEF EmissionConfigured, EmissionDataWritten, EmissionConfigLost, EmissionDataLost,
              Unchanged
<1> HIDE DEF touched
<1> DEFINE next == WithRate(m, p, i, rate)
<1>5. /\ Sound(m) /\ m.mocks = mirror.mocks /\ m.sources = mirror.sources
      /\ m.backstops = mirror.backstops
      /\ m.reserves = mirror.reserves
      /\ \A q \in Pools : m.pools[q] \in {mirror.pools[q], EnsurePool(mirror.pools[q])}
  BY <1>0, <1>2, <1>4 DEF Mirror
<1>6. /\ Sound(next) /\ next.mocks = mirror.mocks /\ next.sources = mirror.sources
      /\ next.backstops = mirror.backstops
      /\ next.pools = m.pools
      /\ \A k \in Pairs :
            IF mirror.reserves[k] = None THEN next.reserves[k] = None
            ELSE /\ next.reserves[k] # None
                 /\ next.reserves[k].index = mirror.reserves[k].index
  BY <1>4, <1>5, RateMirror
<1>7. /\ marks \in Seen /\ marks.mocks = seen.mocks /\ marks.prices = seen.prices
      /\ marks.sources = seen.sources /\ marks.reserves = seen.reserves
      /\ marks.pools = seen.pools /\ marks.poolKeys = seen.poolKeys
  BY <1>0, <1>3, <1>4
<1> HIDE DEF next
<1>8. mirror' = next /\ seen' = marks
  BY <1>4 DEF Apply, next
<1>9. \A q \in Pools : PoolStep(q)
  BY <1>5, <1>6, <1>7, <1>8, <1>4 DEF PoolStep, Relinked
<1>10. \A k \in Pairs : ReserveStep(k)
  BY <1>4, <1>6, <1>7, <1>8 DEF ReserveStep, OtherStep, SameIndex
<1> QED
  BY <1>0, <1>4, <1>6, <1>7, <1>9, <1>10, PoolSideStep DEF next

-----------------------------------------------------------------------------
(* The changes of oracles.                                                 *)

\* What a change may do to an oracle's map, to one of its prices, and to an
\* aggregator or a feed.
MapStep(o) ==
    \/ /\ seen'.mocks[o] = seen.mocks[o]
       /\ mirror.mocks[o] # None =>
             mirror'.mocks[o] # None /\ mirror'.mocks[o].map = mirror.mocks[o].map
    \/ seen'.mocks[o] = "live" /\ mirror'.mocks[o] # None /\ mirror'.mocks[o].map # None
    \/ seen'.mocks[o] = "gone" /\ mirror'.mocks[o] = mirror.mocks[o]

PriceStep(o, i) ==
    \/ /\ seen'.prices[o][i] = seen.prices[o][i]
       /\ IF mirror.mocks[o] = None
          THEN mirror'.mocks[o] = None \/ mirror'.mocks[o].prices[i] = None
          ELSE /\ mirror'.mocks[o] # None
               /\ mirror'.mocks[o].prices[i] = mirror.mocks[o].prices[i]
    \/ /\ seen'.prices[o][i] = "live"
       /\ mirror'.mocks[o] # None /\ mirror'.mocks[o].prices[i] # None
    \/ /\ seen'.prices[o][i] = "gone"
       /\ IF mirror.mocks[o] = None THEN mirror'.mocks[o] = None
          ELSE mirror'.mocks[o] # None /\ mirror'.mocks[o].prices[i] = None

SourceStep(c) ==
    \/ seen'.sources[c] = seen.sources[c] /\ mirror'.sources[c] = mirror.sources[c]
    \/ seen'.sources[c] # "no"

LEMMA OracleSideStep ==
    ASSUME ConfigInv, NEW next \in Mirror, NEW marks \in Seen, Apply(OracleScopes, next, marks),
           Unchanged,
           next.pools = mirror.pools, next.backstops = mirror.backstops,
           next.reserves = mirror.reserves,
           marks.pools = seen.pools, marks.poolKeys = seen.poolKeys,
           marks.reserves = seen.reserves,
           \A o \in Mocks : MapStep(o) /\ \A i \in PriceIndexes : PriceStep(o, i),
           \A c \in Sources : SourceStep(c)
    PROVE  ConfigInv'
<1>1. /\ mirror' = next /\ seen' = marks /\ applied < MaxChanges
      /\ applied' = applied + 1
      /\ UNCHANGED <<scope, store, restarts, forgotten, resConfig, undone, relinked>>
  BY DEF Apply, Unchanged
<1>2. ConfigTypeOK'
  BY <1>1, ConfigBoundsAssumption DEF ConfigInv, ConfigTypeOK
<1>3. Idle'
  BY <1>1 DEF ConfigInv, ConfigTypeOK, Idle
<1>4. ASSUME NEW p \in Pools
      PROVE  PoolInv(p)'
  BY <1>1 DEF ConfigInv, PoolInv, PoolMark
<1>5. ASSUME NEW k \in Pairs
      PROVE  ReserveInv(k)'
  BY <1>1 DEF ConfigInv, ReserveInv, Recorded
<1>6. ASSUME NEW o \in Mocks
      PROVE  MapInv(o)'
  BY <1>1 DEF ConfigInv, MapInv, MapStep
<1>7. ASSUME NEW o \in Mocks
      PROVE  PriceInv(o)'
  <2>1. SUFFICES ASSUME o \notin forgotten', NEW i \in PriceIndexes
                 PROVE  IF mirror'.mocks[o] = None
                        THEN store'.prices[o][i] = None /\ seen'.prices[o][i] # "live"
                        ELSE /\ seen'.prices[o][i] = "no" =>
                                    store'.prices[o][i] = mirror'.mocks[o].prices[i]
                             /\ seen'.prices[o][i] = "live" => mirror'.mocks[o].prices[i] # None
                             /\ seen'.prices[o][i] = "gone" => mirror'.mocks[o].prices[i] = None
    BY DEF PriceInv
  <2>2. PriceInv(o) /\ PriceStep(o, i) /\ o \notin forgotten
        /\ store'.prices[o][i] = store.prices[o][i]
    BY <1>1, <2>1 DEF ConfigInv
  <2>3. IF mirror.mocks[o] = None
        THEN store.prices[o][i] = None /\ seen.prices[o][i] # "live"
        ELSE /\ seen.prices[o][i] = "no" => store.prices[o][i] = mirror.mocks[o].prices[i]
             /\ seen.prices[o][i] = "live" => mirror.mocks[o].prices[i] # None
             /\ seen.prices[o][i] = "gone" => mirror.mocks[o].prices[i] = None
    BY <2>2 DEF PriceInv
  <2>4. CASE mirror.mocks[o] = None
    BY <2>2, <2>3, <2>4 DEF PriceStep
  <2>5. CASE mirror.mocks[o] # None
    BY <2>2, <2>3, <2>5 DEF PriceStep
  <2> QED
    BY <2>4, <2>5
<1>8. ASSUME NEW c \in Sources
      PROVE  SourceInv(c)'
  <2>1. SourceInv(c) /\ SourceStep(c) /\ store'.sources[c] = store.sources[c]
    BY <1>1 DEF ConfigInv
  <2> QED
    BY <2>1 DEF SourceInv, SourceStep
<1> QED
  BY <1>2, <1>3, <1>4, <1>5, <1>6, <1>7, <1>8 DEF ConfigInv

LEMMA OracleChangeInv ==
    ASSUME ConfigInv, OracleChange
    PROVE  ConfigInv'
<1>0. mirror \in Mirror /\ seen \in Seen
  BY DEF ConfigInv, ConfigTypeOK
<1>b. \A o \in Mocks : mirror.mocks[o] \in Mock \cup {None}
  BY <1>0 DEF Mirror
<1>c. \A o \in Mocks, mock \in Mock :
          LET next == [mirror EXCEPT !.mocks[o] = mock]
          IN  /\ next \in Mirror /\ next.pools = mirror.pools
              /\ next.backstops = mirror.backstops
              /\ next.reserves = mirror.reserves /\ next.sources = mirror.sources
              /\ next.mocks = [mirror.mocks EXCEPT ![o] = mock]
  BY <1>0 DEF Mirror
<1>d. \A mock \in Mock : mock # None
  BY ConfigRecordsAssumption
<1>e. \A o \in Mocks, mark \in Marks :
          LET marks == [seen EXCEPT !.mocks[o] = mark]
          IN  /\ marks \in Seen /\ marks.pools = seen.pools /\ marks.poolKeys = seen.poolKeys
              /\ marks.reserves = seen.reserves /\ marks.prices = seen.prices
              /\ marks.sources = seen.sources
              /\ marks.mocks = [seen.mocks EXCEPT ![o] = mark]
  BY <1>0 DEF Seen
<1>f. \A o \in Mocks, i \in PriceIndexes, mark \in Marks :
          LET marks == [seen EXCEPT !.prices[o][i] = mark]
          IN  /\ marks \in Seen /\ marks.pools = seen.pools /\ marks.poolKeys = seen.poolKeys
              /\ marks.reserves = seen.reserves /\ marks.mocks = seen.mocks
              /\ marks.sources = seen.sources
              /\ marks.prices = [seen.prices EXCEPT ![o] = [@ EXCEPT ![i] = mark]]
  <2> TAKE o \in Mocks, i \in PriceIndexes, mark \in Marks
  <2> DEFINE marks == [seen EXCEPT !.prices[o][i] = mark]
             prices == [seen.prices EXCEPT ![o] = [@ EXCEPT ![i] = mark]]
  <2>1. prices \in [Mocks -> [PriceIndexes -> Marks]]
    <3>1. seen.prices \in [Mocks -> [PriceIndexes -> Marks]]
      BY <1>0 DEF Seen
    <3>2. [seen.prices[o] EXCEPT ![i] = mark] \in [PriceIndexes -> Marks]
      BY <3>1
    <3> QED
      BY <3>1, <3>2
  <2>2. marks = [seen EXCEPT !.prices = prices]
    BY <1>0 DEF Seen
  <2> HIDE DEF prices
  <2>3. /\ marks \in Seen /\ marks.pools = seen.pools /\ marks.poolKeys = seen.poolKeys
        /\ marks.reserves = seen.reserves /\ marks.mocks = seen.mocks
        /\ marks.sources = seen.sources /\ marks.prices = prices
    <3> HIDE DEF marks
    <3> QED
      BY <1>0, <2>1, <2>2 DEF Seen
  <2> QED
    BY <2>3 DEF prices
<1>1. ASSUME NEW o \in Mocks, NEW c \in Contents, MapWritten(o, c)
      PROVE  ConfigInv'
  <2> DEFINE mock == [EnsureMock(mirror.mocks[o]) EXCEPT !.map = c]
             next == [mirror EXCEPT !.mocks[o] = mock]
             marks == [seen EXCEPT !.mocks[o] = "live"]
  <2>1. /\ mock \in Mock /\ mock.map = c /\ c # None
        /\ mock.prices = EnsureMock(mirror.mocks[o]).prices
    BY <1>b, EnsureTypes, ConfigNoneAssumption DEF Mock
  <2>2. /\ mirror.mocks[o] = None => \A i \in PriceIndexes : mock.prices[i] = None
        /\ mirror.mocks[o] # None => mock.prices = mirror.mocks[o].prices
    BY <1>b, <2>1, EnsureTypes
  <2>3. Apply(OracleScopes, next, marks) /\ Unchanged
    BY <1>1 DEF MapWritten
  <2> HIDE DEF mock
  <2>4. /\ next \in Mirror /\ next.pools = mirror.pools
        /\ next.backstops = mirror.backstops
        /\ next.reserves = mirror.reserves /\ next.sources = mirror.sources
        /\ next.mocks = [mirror.mocks EXCEPT ![o] = mock]
    BY <1>c, <2>1
  <2>5. /\ marks \in Seen /\ marks.pools = seen.pools /\ marks.poolKeys = seen.poolKeys
        /\ marks.reserves = seen.reserves /\ marks.prices = seen.prices
        /\ marks.sources = seen.sources
        /\ marks.mocks = [seen.mocks EXCEPT ![o] = "live"]
    BY <1>e
  <2>6. mirror' = next /\ seen' = marks
    BY <2>3 DEF Apply
  <2> HIDE DEF next, marks
  <2>7. mock # None
    BY <1>d, <2>1
  <2>8. \A q \in Mocks : MapStep(q) /\ \A i \in PriceIndexes : PriceStep(q, i)
    <3>1. /\ mirror.mocks \in [Mocks -> Mock \cup {None}]
          /\ seen.mocks \in [Mocks -> Marks]
          /\ seen.prices \in [Mocks -> [PriceIndexes -> Marks]]
      BY <1>0 DEF Mirror, Seen
    <3>2. ASSUME NEW q \in Mocks
          PROVE  MapStep(q)
      BY <2>1, <2>2, <2>4, <2>5, <2>6, <2>7, <3>1 DEF MapStep
    <3>3. ASSUME NEW q \in Mocks, NEW i \in PriceIndexes
          PROVE  PriceStep(q, i)
      BY <2>1, <2>2, <2>4, <2>5, <2>6, <2>7, <3>1 DEF PriceStep
    <3> QED
      BY <3>2, <3>3
  <2>9. \A d \in Sources : SourceStep(d)
    BY <2>4, <2>5, <2>6 DEF SourceStep
  <2> QED
    BY <2>3, <2>4, <2>5, <2>8, <2>9, OracleSideStep
<1>2. ASSUME NEW o \in Mocks, MapLost(o)
      PROVE  ConfigInv'
  <2> DEFINE marks == [seen EXCEPT !.mocks[o] = "gone"]
  <2>1. Apply(OracleScopes, mirror, marks) /\ Unchanged
    BY <1>2 DEF MapLost
  <2>2. /\ marks \in Seen /\ marks.pools = seen.pools /\ marks.poolKeys = seen.poolKeys
        /\ marks.reserves = seen.reserves /\ marks.prices = seen.prices
        /\ marks.sources = seen.sources
        /\ marks.mocks = [seen.mocks EXCEPT ![o] = "gone"]
    BY <1>e
  <2>3. mirror' = mirror /\ seen' = marks
    BY <2>1 DEF Apply
  <2> HIDE DEF marks
  <2>4. \A q \in Mocks : MapStep(q) /\ \A i \in PriceIndexes : PriceStep(q, i)
    BY <1>0, <2>2, <2>3 DEF MapStep, PriceStep, Seen
  <2>5. \A d \in Sources : SourceStep(d)
    BY <2>2, <2>3 DEF SourceStep
  <2> QED
    BY <1>0, <2>1, <2>2, <2>4, <2>5, OracleSideStep
<1>3. ASSUME NEW o \in Mocks, NEW i \in PriceIndexes, NEW v \in Prices, PriceWritten(o, i, v)
      PROVE  ConfigInv'
  <2> DEFINE mock == [EnsureMock(mirror.mocks[o]) EXCEPT !.prices[i] = v]
             next == [mirror EXCEPT !.mocks[o] = mock]
             marks == [seen EXCEPT !.prices[o][i] = "live"]
  <2>1. /\ mock \in Mock /\ mock.map = EnsureMock(mirror.mocks[o]).map /\ v # None
        /\ mock.prices = [EnsureMock(mirror.mocks[o]).prices EXCEPT ![i] = v]
        /\ EnsureMock(mirror.mocks[o]).prices \in [PriceIndexes -> Prices \cup {None}]
    BY <1>b, EnsureTypes, ConfigNoneAssumption DEF Mock
  <2>2. /\ mock.prices[i] = v
        /\ \A j \in PriceIndexes \ {i} :
              /\ mirror.mocks[o] = None => mock.prices[j] = None
              /\ mirror.mocks[o] # None => mock.prices[j] = mirror.mocks[o].prices[j]
        /\ mirror.mocks[o] # None => mock.map = mirror.mocks[o].map
    BY <1>b, <2>1, EnsureTypes
  <2>3. Apply(OracleScopes, next, marks) /\ Unchanged
    BY <1>3 DEF PriceWritten
  <2> HIDE DEF mock
  <2>4. /\ next \in Mirror /\ next.pools = mirror.pools
        /\ next.backstops = mirror.backstops
        /\ next.reserves = mirror.reserves /\ next.sources = mirror.sources
        /\ next.mocks = [mirror.mocks EXCEPT ![o] = mock]
    BY <1>c, <2>1
  <2>5. /\ marks \in Seen /\ marks.pools = seen.pools /\ marks.poolKeys = seen.poolKeys
        /\ marks.reserves = seen.reserves /\ marks.mocks = seen.mocks
        /\ marks.sources = seen.sources
        /\ marks.prices = [seen.prices EXCEPT ![o] = [@ EXCEPT ![i] = "live"]]
    BY <1>f
  <2>6. mirror' = next /\ seen' = marks
    BY <2>3 DEF Apply
  <2> HIDE DEF next, marks
  <2>7. mock # None
    BY <1>d, <2>1
  <2>8. \A q \in Mocks : MapStep(q) /\ \A j \in PriceIndexes : PriceStep(q, j)
    <3>1. /\ mirror.mocks \in [Mocks -> Mock \cup {None}]
          /\ seen.mocks \in [Mocks -> Marks]
          /\ seen.prices \in [Mocks -> [PriceIndexes -> Marks]]
      BY <1>0 DEF Mirror, Seen
    <3>2. ASSUME NEW q \in Mocks
          PROVE  MapStep(q)
      BY <2>1, <2>2, <2>4, <2>5, <2>6, <2>7, <3>1 DEF MapStep
    <3>3. ASSUME NEW q \in Mocks, NEW j \in PriceIndexes
          PROVE  PriceStep(q, j)
      <4>1. CASE q = o /\ j = i
        BY <2>1, <2>2, <2>4, <2>5, <2>6, <2>7, <3>1, <4>1 DEF PriceStep
      <4>2. CASE q = o /\ j # i
        BY <2>1, <2>2, <2>4, <2>5, <2>6, <2>7, <3>1, <4>2 DEF PriceStep
      <4>3. CASE q # o
        BY <2>4, <2>5, <2>6, <3>1, <4>3 DEF PriceStep
      <4> QED
        BY <4>1, <4>2, <4>3
    <3> QED
      BY <3>2, <3>3
  <2>9. \A d \in Sources : SourceStep(d)
    BY <2>4, <2>5, <2>6 DEF SourceStep
  <2> QED
    BY <2>3, <2>4, <2>5, <2>8, <2>9, OracleSideStep
<1>4. ASSUME NEW o \in Mocks, NEW i \in PriceIndexes, PriceLost(o, i)
      PROVE  ConfigInv'
  <2> DEFINE mock == [mirror.mocks[o] EXCEPT !.prices[i] = None]
             next == IF mirror.mocks[o] = None THEN mirror
                     ELSE [mirror EXCEPT !.mocks[o] = mock]
             marks == [seen EXCEPT !.prices[o][i] = "gone"]
  <2>1. mirror.mocks[o] # None =>
          /\ mock \in Mock /\ mock # None /\ mock.map = mirror.mocks[o].map
          /\ mock.prices[i] = None
          /\ \A j \in PriceIndexes \ {i} : mock.prices[j] = mirror.mocks[o].prices[j]
    <3>1. mirror.mocks[o] # None =>
            /\ mock \in Mock /\ mock.map = mirror.mocks[o].map
            /\ mock.prices[i] = None
            /\ \A j \in PriceIndexes \ {i} : mock.prices[j] = mirror.mocks[o].prices[j]
      BY <1>b DEF Mock
    <3> HIDE DEF mock
    <3> QED
      BY <1>d, <3>1
  <2>2. Apply(OracleScopes, next, marks) /\ Unchanged
    <3>1. [mirror EXCEPT !.mocks[o].prices[i] = None] = [mirror EXCEPT !.mocks[o] = mock]
      BY <1>0 DEF Mirror
    <3> QED
      BY <1>4, <3>1 DEF PriceLost
  <2> HIDE DEF mock
  <2>3. /\ next \in Mirror /\ next.pools = mirror.pools
        /\ next.backstops = mirror.backstops
        /\ next.reserves = mirror.reserves /\ next.sources = mirror.sources
        /\ next.mocks = IF mirror.mocks[o] = None THEN mirror.mocks
                        ELSE [mirror.mocks EXCEPT ![o] = mock]
    BY <1>0, <1>c, <2>1
  <2>4. /\ marks \in Seen /\ marks.pools = seen.pools /\ marks.poolKeys = seen.poolKeys
        /\ marks.reserves = seen.reserves /\ marks.mocks = seen.mocks
        /\ marks.sources = seen.sources
        /\ marks.prices = [seen.prices EXCEPT ![o] = [@ EXCEPT ![i] = "gone"]]
    BY <1>f
  <2>5. mirror' = next /\ seen' = marks
    BY <2>2 DEF Apply
  <2> HIDE DEF next, marks
  <2>6. \A q \in Mocks : MapStep(q) /\ \A j \in PriceIndexes : PriceStep(q, j)
    <3>1. /\ \A q \in Mocks \ {o} : mirror'.mocks[q] = mirror.mocks[q]
          /\ mirror.mocks[o] = None => mirror'.mocks[o] = None
          /\ mirror.mocks[o] # None => mirror'.mocks[o] = mock
      BY <1>0, <2>3, <2>5 DEF Mirror
    <3>2. /\ \A q \in Mocks \ {o} : seen'.prices[q] = seen.prices[q]
          /\ \A j \in PriceIndexes \ {i} : seen'.prices[o][j] = seen.prices[o][j]
          /\ seen'.prices[o][i] = "gone" /\ seen'.mocks = seen.mocks
      BY <1>0, <2>4, <2>5 DEF Seen
    <3>3. \A q \in Mocks : MapStep(q)
      BY <2>1, <3>1, <3>2 DEF MapStep
    <3>4. \A j \in PriceIndexes : PriceStep(o, j)
      BY <2>1, <3>1, <3>2 DEF PriceStep
    <3>5. \A q \in Mocks \ {o}, j \in PriceIndexes : PriceStep(q, j)
      BY <3>1, <3>2 DEF PriceStep
    <3> QED
      BY <3>3, <3>4, <3>5
  <2>7. \A d \in Sources : SourceStep(d)
    BY <2>3, <2>4, <2>5 DEF SourceStep
  <2> QED
    BY <2>2, <2>3, <2>4, <2>6, <2>7, OracleSideStep
<1>5. ASSUME NEW c \in Sources, NEW content \in Contents \cup {None}, NEW mark \in {"live", "gone"},
             Apply(OracleScopes, [mirror EXCEPT !.sources[c] = content],
                   [seen EXCEPT !.sources[c] = mark]),
             Unchanged
      PROVE  ConfigInv'
  <2> DEFINE next == [mirror EXCEPT !.sources[c] = content]
             marks == [seen EXCEPT !.sources[c] = mark]
  <2>1. /\ next \in Mirror /\ next.pools = mirror.pools
        /\ next.backstops = mirror.backstops
        /\ next.reserves = mirror.reserves /\ next.mocks = mirror.mocks
        /\ next.sources = [mirror.sources EXCEPT ![c] = content]
    BY <1>0 DEF Mirror
  <2>2. /\ marks \in Seen /\ marks.pools = seen.pools /\ marks.poolKeys = seen.poolKeys
        /\ marks.reserves = seen.reserves /\ marks.mocks = seen.mocks
        /\ marks.prices = seen.prices
        /\ marks.sources = [seen.sources EXCEPT ![c] = mark]
    BY <1>0 DEF Seen
  <2>3. mirror' = next /\ seen' = marks
    BY <1>5 DEF Apply
  <2>4. Apply(OracleScopes, next, marks)
    BY <1>5
  <2> HIDE DEF next, marks
  <2>5. \A q \in Mocks : MapStep(q) /\ \A j \in PriceIndexes : PriceStep(q, j)
    BY <2>1, <2>2, <2>3 DEF MapStep, PriceStep
  <2>6. \A d \in Sources : SourceStep(d)
    BY <1>0, <2>1, <2>2, <2>3 DEF SourceStep, Mirror, Seen
  <2> QED
    BY <1>5, <2>1, <2>2, <2>4, <2>5, <2>6, OracleSideStep
<1>6. ASSUME NEW c \in Sources, SourceLost(c) \/ \E content \in Contents : SourceWritten(c, content)
      PROVE  ConfigInv'
  BY <1>5, <1>6 DEF SourceLost, SourceWritten
<1> QED
  BY <1>1, <1>2, <1>3, <1>4, <1>6 DEF OracleChange

-----------------------------------------------------------------------------
(* The end of a ledger.                                                    *)

LEMMA RecordTypes ==
    /\ \A reserve \in Reserve :
          /\ Marshal(reserve) \in ReserveRecord
          /\ Marshal(reserve) # None
          /\ reserve.index # None => Marshal(reserve).index = reserve.index
    /\ Marshal(None) = None
    /\ \A record \in ReserveRecord : record \in Reserve /\ record # None
<1>1. \A record \in ReserveRecord : record \in Reserve
  BY DEF ReserveRecord, Reserve
<1>2. \A reserve \in Reserve :
          /\ Marshal(reserve) \in ReserveRecord
          /\ reserve.index # None => Marshal(reserve).index = reserve.index
  <2> SUFFICES ASSUME NEW reserve \in Reserve
               PROVE  /\ Marshal(reserve) \in ReserveRecord
                      /\ reserve.index # None => Marshal(reserve).index = reserve.index
    OBVIOUS
  <2>1. reserve # None
    BY ConfigRecordsAssumption
  <2> QED
    BY <2>1, ConfigIndexAssumption DEF Marshal, ReserveRecord, Reserve
<1> QED
  BY <1>1, <1>2, ConfigRecordsAssumption DEF Marshal

LEMMA EndLedgerInv ==
    ASSUME ConfigInv, EndLedger
    PROVE  ConfigInv'
<1>0. mirror \in Mirror /\ seen \in Seen /\ store \in Store
  BY DEF ConfigInv, ConfigTypeOK
<1>1. /\ store' = ConfigRecords /\ seen' = NothingSeen /\ applied' = 0
      /\ relinked' = {p \in relinked : PoolMark(p) = "no"}
      /\ UNCHANGED <<scope, mirror, restarts, resConfig, undone, forgotten>>
  BY DEF EndLedger
<1>2. /\ \A p \in Pools :
            store'.pools[p] = Record(PoolMark(p), MarshalPool(p), store.pools[p])
      /\ \A k \in Pairs :
            store'.reserves[k] = Record(ReserveMark(k), Marshal(mirror.reserves[k]),
                                        store.reserves[k])
      /\ \A o \in Mocks : store'.maps[o] = MapRecord(o)
      /\ \A o \in Mocks, i \in PriceIndexes : store'.prices[o][i] = PriceRecord(o, i)
      /\ \A c \in Sources : store'.sources[c] = SourceRecord(c)
  BY <1>1 DEF ConfigRecords
<1>3. \A k \in Pairs : mirror.reserves[k] \in Reserve \cup {None}
  BY <1>0 DEF Mirror
<1>a. \A p \in Pools :
          /\ mirror.pools[p] = None => MarshalPool(p) = None
          /\ mirror.pools[p] # None =>
                /\ MarshalPool(p) \in PoolRecord /\ MarshalPool(p) # None
                /\ MarshalPool(p).config = mirror.pools[p]
                /\ MarshalPool(p).backstop = mirror.backstops[p]
  <2> SUFFICES ASSUME NEW p \in Pools, mirror.pools[p] # None
               PROVE  /\ MarshalPool(p) \in PoolRecord /\ MarshalPool(p) # None
                      /\ MarshalPool(p).config = mirror.pools[p]
                      /\ MarshalPool(p).backstop = mirror.backstops[p]
    BY DEF MarshalPool
  <2>1. MarshalPool(p) = [config |-> mirror.pools[p], backstop |-> mirror.backstops[p]]
    BY DEF MarshalPool
  <2>2. mirror.pools[p] \in Pool /\ mirror.backstops[p] \in Backstops \cup {None}
    BY <1>0 DEF Mirror
  <2>3. MarshalPool(p) \in PoolRecord
    BY <2>1, <2>2 DEF PoolRecord
  <2> QED
    BY <2>1, <2>3, ConfigRecordsAssumption
<1>4. \A mark \in Marks :
          /\ \A now, was : Record(mark, now, was) \in {None, now, was}
          /\ \A now, was : mark = "gone" => Record(mark, now, was) = None
          /\ \A now, was : mark = "live" /\ now # None => Record(mark, now, was) = now
          /\ \A now, was : mark = "live" /\ now = None => Record(mark, now, was) = was
          /\ \A now, was : mark = "no" => Record(mark, now, was) = was
  BY DEF Record
<1>5. /\ \A p \in Pools : PoolMark(p) \in Marks
      /\ \A k \in Pairs : seen.reserves[k] \in Marks /\ ReserveMark(k) \in Marks
      /\ \A o \in Mocks : seen.mocks[o] \in Marks
      /\ \A o \in Mocks, i \in PriceIndexes : seen.prices[o][i] \in Marks
      /\ \A c \in Sources : seen.sources[c] \in Marks
  BY <1>0 DEF Seen, PoolMark, ReserveMark
<1>6. store' \in Store
  <2>1. [p \in Pools |-> Record(PoolMark(p), MarshalPool(p), store.pools[p])]
            \in [Pools -> PoolRecord \cup {None}]
    <3>1. \A p \in Pools : MarshalPool(p) \in PoolRecord \cup {None}
                          /\ store.pools[p] \in PoolRecord \cup {None}
      BY <1>0, <1>a DEF Store
    <3> QED
      BY <1>4, <1>5, <3>1
  <2>2. [k \in Pairs |-> Record(ReserveMark(k), Marshal(mirror.reserves[k]), store.reserves[k])]
            \in [Pairs -> ReserveRecord \cup {None}]
    <3>1. \A k \in Pairs : Marshal(mirror.reserves[k]) \in ReserveRecord \cup {None}
                          /\ store.reserves[k] \in ReserveRecord \cup {None}
      BY <1>0, <1>3, RecordTypes DEF Store
    <3> QED
      BY <1>4, <1>5, <3>1
  <2>3. [o \in Mocks |-> MapRecord(o)] \in [Mocks -> Contents \cup {None}]
    <3>1. \A o \in Mocks : /\ store.maps[o] \in Contents \cup {None}
                           /\ mirror.mocks[o] # None =>
                                 mirror.mocks[o].map \in Contents \cup {None}
      BY <1>0 DEF Mirror, Store, Mock
    <3> QED
      BY <1>4, <1>5, <3>1 DEF MapRecord
  <2>4. [o \in Mocks |-> [i \in PriceIndexes |-> PriceRecord(o, i)]]
            \in [Mocks -> [PriceIndexes -> Prices \cup {None}]]
    <3>1. \A o \in Mocks, i \in PriceIndexes :
              /\ store.prices[o][i] \in Prices \cup {None}
              /\ mirror.mocks[o] # None => mirror.mocks[o].prices[i] \in Prices \cup {None}
      BY <1>0 DEF Mirror, Store, Mock
    <3>2. \A o \in Mocks, i \in PriceIndexes : PriceRecord(o, i) \in Prices \cup {None}
      BY <1>4, <1>5, <3>1 DEF PriceRecord
    <3> QED
      BY <3>2
  <2>5. [c \in Sources |-> SourceRecord(c)] \in [Sources -> Contents \cup {None}]
    <3>1. \A c \in Sources : mirror.sources[c] \in Contents \cup {None}
                            /\ store.sources[c] \in Contents \cup {None}
      BY <1>0 DEF Mirror, Store
    <3> QED
      BY <1>4, <1>5, <3>1 DEF SourceRecord
  <2> QED
    BY <1>1, <2>1, <2>2, <2>3, <2>4, <2>5 DEF ConfigRecords, Store
<1>7. ConfigTypeOK'
  <2>1. NothingSeen \in Seen
    BY DEF NothingSeen, Seen
  <2> QED
    BY <1>1, <1>6, <2>1, ConfigBoundsAssumption DEF ConfigInv, ConfigTypeOK
<1>8. Idle'
  BY <1>1 DEF Idle
<1>9. ASSUME NEW p \in Pools
      PROVE  PoolInv(p)'
  <2>1. PoolInv(p) /\ seen'.pools[p] = "no" /\ seen'.poolKeys[p] = "no"
        /\ mirror'.pools[p] = mirror.pools[p]
    BY <1>1 DEF ConfigInv, NothingSeen
  <2>2. store'.pools[p] # None =>
            /\ mirror.pools[p] # None /\ store'.pools[p].config = mirror.pools[p]
            /\ p \notin relinked' => store'.pools[p].backstop = mirror.backstops[p]
    <3>1. PoolMark(p) = "live" => mirror.pools[p] # None
      BY <2>1 DEF PoolInv, PoolMark
    <3>2. store'.pools[p] = Record(PoolMark(p), MarshalPool(p), store.pools[p])
      BY <1>2
    <3>3. CASE PoolMark(p) = "no"
      <4>1. store'.pools[p] = store.pools[p] /\ (p \notin relinked' => p \notin relinked)
        BY <1>1, <1>4, <3>2, <3>3
      <4> QED
        BY <2>1, <3>3, <4>1 DEF PoolInv
    <3>4. CASE PoolMark(p) = "live"
      <4>1. store'.pools[p] = MarshalPool(p)
        BY <1>4, <1>a, <3>1, <3>2, <3>4
      <4> QED
        BY <1>a, <3>1, <3>4, <4>1
    <3>5. CASE PoolMark(p) = "gone"
      BY <1>4, <3>2, <3>5
    <3> QED
      BY <1>5, <3>3, <3>4, <3>5
  <2>3. mirror'.backstops[p] = mirror.backstops[p]
    BY <1>1
  <2> QED
    BY <2>1, <2>2, <2>3 DEF PoolInv
<1>10. ASSUME NEW k \in Pairs
       PROVE  ReserveInv(k)'
  <2>1. ReserveInv(k) /\ seen'.reserves[k] = "no" /\ mirror'.reserves[k] = mirror.reserves[k]
        /\ resConfig'[k] = resConfig[k] /\ undone' = undone
    BY <1>1 DEF ConfigInv, NothingSeen
  <2>2. SUFFICES ASSUME k \notin undone
                 PROVE  Recorded(k)'
    BY <2>1, <2>2 DEF ReserveInv
  <2>3. CASE ReserveMark(k) = "live"
    <3>1. mirror.reserves[k] # None /\ mirror.reserves[k].index # None
      <4>1. CASE \E i \in seen.emissions[k] : Resolves(mirror, k, i)
        <5>1. PICK i \in seen.emissions[k] : Resolves(mirror, k, i)
          BY <4>1
        <5>2. i \in Indexes
          BY <1>0, <5>1 DEF Seen
        <5> QED
          BY <5>1, <5>2, ConfigNoneAssumption DEF Resolves, Claims
      <4>2. CASE ~\E i \in seen.emissions[k] : Resolves(mirror, k, i)
        BY <2>1, <2>2, <2>3, <4>2 DEF ReserveInv, ReserveMark
      <4> QED
        BY <4>1, <4>2
    <3>2. /\ Marshal(mirror.reserves[k]) # None
          /\ Marshal(mirror.reserves[k]).index = mirror.reserves[k].index
      BY <1>3, <3>1, RecordTypes
    <3>3. store'.reserves[k] = Marshal(mirror.reserves[k])
      BY <1>2, <1>4, <1>5, <2>3, <3>2
    <3> QED
      BY <2>1, <2>2, <3>1, <3>2, <3>3 DEF ReserveInv, Recorded
  <2>4. CASE ReserveMark(k) # "live"
    <3>1. seen.reserves[k] = ReserveMark(k)
      BY <2>4 DEF ReserveMark
    <3>2. CASE seen.reserves[k] = "gone"
      <4>0. ReserveMark(k) = "gone"
        BY <3>1, <3>2
      <4>1. Record(ReserveMark(k), Marshal(mirror.reserves[k]), store.reserves[k]) = None
        BY <1>4, <4>0
      <4>2. store'.reserves[k] = None
        BY <1>2, <4>1
      <4> QED
        BY <2>1, <2>2, <3>2, <4>2 DEF ReserveInv, Recorded
    <3>3. CASE seen.reserves[k] = "no"
      <4>0. ReserveMark(k) = "no"
        BY <3>1, <3>3
      <4>1. Record(ReserveMark(k), Marshal(mirror.reserves[k]), store.reserves[k]) = store.reserves[k]
        BY <1>4, <4>0
      <4>2. store'.reserves[k] = store.reserves[k]
        BY <1>2, <4>1
      <4> QED
        BY <2>1, <2>2, <3>3, <4>2 DEF ReserveInv, Recorded
    <3> QED
      BY <1>5, <2>4, <3>1, <3>2, <3>3
  <2> QED
    BY <2>3, <2>4
<1>11. ASSUME NEW o \in Mocks
       PROVE  MapInv(o)'
  <2>1. MapInv(o) /\ seen'.mocks[o] = "no" /\ mirror'.mocks[o] = mirror.mocks[o]
        /\ store'.maps[o] = MapRecord(o)
    BY <1>1, <1>2 DEF ConfigInv, NothingSeen
  <2> QED
    BY <1>4, <1>5, <2>1 DEF MapInv, MapRecord
<1>12. ASSUME NEW o \in Mocks
       PROVE  PriceInv(o)'
  <2>1. /\ PriceInv(o) /\ mirror'.mocks[o] = mirror.mocks[o] /\ forgotten' = forgotten
        /\ \A i \in PriceIndexes : seen'.prices[o][i] = "no"
        /\ \A i \in PriceIndexes : store'.prices[o][i] = PriceRecord(o, i)
    BY <1>1, <1>2 DEF ConfigInv, NothingSeen
  <2>2. ASSUME o \notin forgotten, NEW i \in PriceIndexes
        PROVE  IF mirror.mocks[o] = None THEN PriceRecord(o, i) = None
               ELSE PriceRecord(o, i) = mirror.mocks[o].prices[i]
    BY <1>4, <1>5, <2>1, <2>2 DEF PriceInv, PriceRecord
  <2> QED
    BY <2>1, <2>2 DEF PriceInv
<1>13. ASSUME NEW c \in Sources
       PROVE  SourceInv(c)'
  <2>1. SourceInv(c) /\ seen'.sources[c] = "no" /\ mirror'.sources[c] = mirror.sources[c]
        /\ store'.sources[c] = SourceRecord(c)
    BY <1>1, <1>2 DEF ConfigInv, NothingSeen
  <2> QED
    BY <1>4, <1>5, <2>1 DEF SourceInv, SourceRecord
<1> QED
  BY <1>7, <1>8, <1>9, <1>10, <1>11, <1>12, <1>13 DEF ConfigInv

-----------------------------------------------------------------------------
(* A new process.                                                          *)

LEMMA RestartInv ==
    ASSUME ConfigInv, Restart
    PROVE  ConfigInv'
<1>0. /\ store \in Store /\ seen = NothingSeen /\ applied = 0
      /\ restarts < MaxRestarts /\ restarts' = restarts + 1
      /\ mirror' = HydrateConfig(store) /\ relinked' = {}
      /\ forgotten' = forgotten \cup
             {o \in Mocks : store.maps[o] = None /\ store.prices[o] # NoPrices}
      /\ UNCHANGED <<scope, store, seen, applied, resConfig, undone>>
  BY DEF ConfigInv, ConfigTypeOK, Restart, Idle
<1>1. /\ mirror'.sources = store.sources
      /\ \A p \in Pools :
            IF store.pools[p] = None
            THEN mirror'.pools[p] = None /\ mirror'.backstops[p] = None
            ELSE /\ mirror'.pools[p] = store.pools[p].config
                 /\ mirror'.backstops[p] = store.pools[p].backstop
      /\ \A k \in Pairs : mirror'.reserves[k] =
            IF store.pools[k[1]] = None THEN None ELSE store.reserves[k]
      /\ \A o \in Mocks :
            /\ store.maps[o] = None => mirror'.mocks[o] = None
            /\ store.maps[o] # None =>
                  mirror'.mocks[o] = [map |-> store.maps[o], prices |-> store.prices[o]]
  BY <1>0 DEF HydrateConfig, HydrateReserves
<1>2. \A o \in Mocks :
          LET mock == [map |-> store.maps[o], prices |-> store.prices[o]]
          IN  mock \in Mock /\ mock # None
  <2>1. \A o \in Mocks : [map |-> store.maps[o], prices |-> store.prices[o]] \in Mock
    BY <1>0 DEF Store, Mock
  <2> QED
    BY <2>1, ConfigRecordsAssumption
<1>a. \A p \in Pools : store.pools[p] # None =>
          /\ store.pools[p].config \in Pool /\ store.pools[p].config # None
          /\ store.pools[p].backstop \in Backstops \cup {None}
  BY <1>0, ConfigRecordsAssumption DEF Store, PoolRecord
<1>3. mirror' \in Mirror
  <2>1. HydrateReserves(store) \in [Pairs -> Reserve \cup {None}]
    <3>1. \A k \in Pairs : store.reserves[k] \in Reserve \cup {None}
      BY <1>0, RecordTypes DEF Store
    <3> QED
      BY <3>1 DEF HydrateReserves
  <2>2. [o \in Mocks |-> IF store.maps[o] = None THEN None
                         ELSE [map |-> store.maps[o], prices |-> store.prices[o]]]
            \in [Mocks -> Mock \cup {None}]
    BY <1>2
  <2>3. /\ [p \in Pools |-> IF store.pools[p] = None THEN None ELSE store.pools[p].config]
              \in [Pools -> Pool \cup {None}]
        /\ [p \in Pools |-> IF store.pools[p] = None THEN None ELSE store.pools[p].backstop]
              \in [Pools -> Backstops \cup {None}]
    BY <1>a
  <2> QED
    BY <1>0, <2>1, <2>2, <2>3 DEF HydrateConfig, Mirror, Store
<1>4. ConfigTypeOK'
  <2>1. /\ \A p \in Pools : mirror'.backstops[p] # None => mirror'.pools[p] # None
        /\ \A k \in Pairs : mirror'.reserves[k] # None => mirror'.pools[k[1]] # None
    BY <1>1, <1>a DEF Pairs
  <2> QED
    BY <1>0, <1>3, <2>1, ConfigBoundsAssumption DEF ConfigInv, ConfigTypeOK
<1>5. Idle'
  BY <1>0 DEF Idle
<1>6. ASSUME NEW p \in Pools
      PROVE  PoolInv(p)'
  BY <1>0, <1>1, <1>a DEF PoolInv, PoolMark, NothingSeen
<1>7. ASSUME NEW k \in Pairs
      PROVE  ReserveInv(k)'
  BY <1>0, <1>1 DEF ConfigInv, ReserveInv, Recorded, NothingSeen
<1>8. ASSUME NEW o \in Mocks
      PROVE  MapInv(o)' /\ PriceInv(o)'
  <2>1. CASE store.maps[o] = None
    <3>1. mirror'.mocks[o] = None /\ store'.maps[o] = None
      BY <1>0, <1>1, <2>1
    <3>2. o \notin forgotten' => \A i \in PriceIndexes : store.prices[o][i] = None
      BY <1>0, <2>1 DEF NoPrices
    <3> QED
      BY <1>0, <3>1, <3>2 DEF MapInv, PriceInv, NothingSeen
  <2>2. CASE store.maps[o] # None
    <3> DEFINE mock == [map |-> store.maps[o], prices |-> store.prices[o]]
    <3>0. mock # None /\ mock.map = store.maps[o] /\ mock.prices = store.prices[o]
      BY <1>2
    <3>1. /\ mirror'.mocks[o] # None /\ mirror'.mocks[o].map = store.maps[o]
          /\ mirror'.mocks[o].prices = store.prices[o]
      <4>1. mirror'.mocks[o] = mock
        BY <1>1, <2>2
      <4> HIDE DEF mock
      <4> QED
        BY <3>0, <4>1
    <3> QED
      BY <1>0, <3>1 DEF MapInv, PriceInv, NothingSeen
  <2> QED
    BY <2>1, <2>2
<1>9. ASSUME NEW c \in Sources
      PROVE  SourceInv(c)'
  BY <1>0, <1>1 DEF SourceInv
<1> QED
  BY <1>4, <1>5, <1>6, <1>7, <1>8, <1>9 DEF ConfigInv

-----------------------------------------------------------------------------
(* Every step.                                                             *)

LEMMA NextInv ==
    ASSUME ConfigInv, [Next]_vars
    PROVE  ConfigInv'
<1>1. CASE UNCHANGED vars
  <2>1. ConfigTypeOK' /\ Idle'
    BY <1>1 DEF vars, ConfigInv, ConfigTypeOK, Idle
  <2>2. \A p \in Pools : PoolInv(p)'
    BY <1>1 DEF vars, ConfigInv, PoolInv, PoolMark
  <2>3. \A k \in Pairs : ReserveInv(k)'
    BY <1>1 DEF vars, ConfigInv, ReserveInv, Recorded
  <2>4. \A o \in Mocks : MapInv(o)' /\ PriceInv(o)'
    BY <1>1 DEF vars, ConfigInv, MapInv, PriceInv
  <2>5. \A c \in Sources : SourceInv(c)'
    BY <1>1 DEF vars, ConfigInv, SourceInv
  <2> QED
    BY <2>1, <2>2, <2>3, <2>4, <2>5 DEF ConfigInv
<1>2. CASE Next
  BY <1>2, PoolChangeInv, ReserveChangeInv, EmissionChangeInv, OracleChangeInv, EndLedgerInv,
     RestartInv DEF Next
<1> QED
  BY <1>1, <1>2

LEMMA ConfigInductive == Spec => []ConfigInv
<1>1. Init => ConfigInv
  BY InitInv
<1>2. ConfigInv /\ [Next]_vars => ConfigInv'
  BY NextInv
<1> QED
  BY <1>1, <1>2, PTL DEF Spec

\* The live state and the records are of their types, and no reserve and no
\* backstop reference is in the state without its pool (ensurePool, removePool,
\* HydrateConfig).
THEOREM ConfigTypes == Spec => []ConfigTypeOK
<1>1. ConfigInv => ConfigTypeOK
  BY DEF ConfigInv
<1> QED
  BY <1>1, ConfigInductive, PTL

\* A restart brings back no configuration of a pool, an asset map, an
\* aggregator or a feed other than the running process's; of the backstop a
\* pool refers to, this is claimed where its Backstop entry did not change since
\* the pool's last record (ConfigRecords).
THEOREM RestartsKeepConfig == Spec => []HydratedConfigIsLive
<1>1. ConfigInv => HydratedConfigIsLive
  BY DEF ConfigInv, Idle, HydratedConfigIsLive, PoolInv, PoolMark, MapInv, SourceInv, NothingSeen
<1> QED
  BY <1>1, ConfigInductive, PTL

\* A reserve's record follows its ResConfig entry (reserveRecord).
THEOREM RestartsKeepReserves == Spec => []HydratedReservesFollowChain
<1>1. ConfigInv => HydratedReservesFollowChain
  BY DEF ConfigInv, Idle, HydratedReservesFollowChain, ReserveInv, Recorded, NothingSeen
<1> QED
  BY <1>1, ConfigInductive, PTL

\* A restart prices with the prices of the running process (kindOraclePrice).
THEOREM RestartsKeepPrices == Spec => []HydratedPricesAreLive
<1>1. ConfigInv => HydratedPricesAreLive
  <2> SUFFICES ASSUME ConfigInv, applied = 0, NEW o \in Mocks \ forgotten,
                      mirror.mocks[o] # None
               PROVE  store.prices[o] = mirror.mocks[o].prices
    BY DEF HydratedPricesAreLive
  <2>1. \A i \in PriceIndexes : store.prices[o][i] = mirror.mocks[o].prices[i]
    BY DEF ConfigInv, Idle, PriceInv, NothingSeen
  <2>2. store.prices[o] \in [PriceIndexes -> Prices \cup {None}]
        /\ mirror.mocks[o].prices \in [PriceIndexes -> Prices \cup {None}]
    BY DEF ConfigInv, ConfigTypeOK, Store, Mirror, Mock
  <2> QED
    BY <2>1, <2>2
<1> QED
  BY <1>1, ConfigInductive, PTL
=============================================================================
