------------------------- MODULE BlendTemporary_proofs -------------------------
(***************************************************************************)
(* Proofs about BlendTemporary, for any pools, users, assets, tokens and   *)
(* contents: type correctness, and the lifecycle promise.                  *)
(***************************************************************************)
EXTENDS BlendTemporary, TLAPS

\* A pool of the right type whose known indexes are those of the contract.
WellFormed(pool) ==
    /\ pool \in Pool
    /\ \A a \in Assets : pool.reserves[a] # None /\ pool.reserves[a].known =>
                            pool.reserves[a].index = IndexOf[a]

WellFormedPools(pools) == \A p \in Pools : pools[p] # None => WellFormed(pools[p])

\* ensurePool returns the pool, or one without reserves.
LEMMA EnsurePoolWellFormed ==
    ASSUME NEW pool, pool # None => WellFormed(pool)
    PROVE  WellFormed(EnsurePool(pool))
BY DEF WellFormed, EnsurePool, Pool, Absent

\* ensureReserve returns a reserve, its index known only if it was.
LEMMA EnsureReserveType ==
    ASSUME NEW reserve \in Reserve \cup {None}
    PROVE  /\ EnsureReserve(reserve) \in Reserve
           /\ EnsureReserve(reserve).known =>
                reserve # None /\ EnsureReserve(reserve) = reserve
<1>1. CASE reserve = None
  BY <1>1 DEF EnsureReserve, Reserve, NoEmissions, Emissions
<1>2. CASE reserve # None
  BY <1>2 DEF EnsureReserve
<1> QED
  BY <1>1, <1>2

\* ResData and ResList make no index known.
LEMMA SeeReservesWellFormed ==
    ASSUME NEW pool, WellFormed(pool), NEW seen
    PROVE  WellFormed(SeeReserves(pool, seen))
<1> DEFINE next == SeeReserves(pool, seen)
<1>1. /\ pool \in Pool
      /\ next = [pool EXCEPT !.reserves =
                    [a \in Assets |-> IF a \in seen THEN EnsureReserve(@[a]) ELSE @[a]]]
  BY DEF WellFormed, SeeReserves
<1>2. \A a \in Assets : /\ pool.reserves[a] \in Reserve \cup {None}
                        /\ next.reserves[a] = IF a \in seen THEN EnsureReserve(pool.reserves[a])
                                              ELSE pool.reserves[a]
  BY <1>1 DEF Pool
<1>3. \A a \in Assets : next.reserves[a] \in Reserve \cup {None}
  BY <1>2, EnsureReserveType
<1>4. next \in Pool
  BY <1>1, <1>3 DEF Pool
<1>5. ASSUME NEW a \in Assets, next.reserves[a] # None, next.reserves[a].known
      PROVE  next.reserves[a].index = IndexOf[a]
  <2>1. pool.reserves[a] # None /\ next.reserves[a] = pool.reserves[a]
    BY <1>2, <1>5, EnsureReserveType
  <2> QED
    BY <2>1, <1>5 DEF WellFormed
<1> QED
  BY <1>4, <1>5 DEF WellFormed

\* ResConfig makes the index of its own asset known.
LEMMA DeclareIndexWellFormed ==
    ASSUME NEW pool, WellFormed(pool), NEW a \in Assets
    PROVE  WellFormed(DeclareIndex(pool, a))
<1> DEFINE next == DeclareIndex(pool, a)
<1>1. pool \in Pool /\ pool.reserves[a] \in Reserve \cup {None}
  BY DEF WellFormed, Pool
<1>2. EnsureReserve(pool.reserves[a]) \in Reserve
  BY <1>1, EnsureReserveType
<1> DEFINE declared == [EnsureReserve(pool.reserves[a]) EXCEPT !.index = IndexOf[a], !.known = TRUE]
<1>3. declared \in Reserve /\ declared.index = IndexOf[a]
  BY <1>2, TokensAssumption DEF Reserve
<1>4. next = [pool EXCEPT !.reserves[a] = declared]
  BY DEF DeclareIndex
<1> HIDE DEF declared, next
<1>5. next \in Pool
  BY <1>1, <1>3, <1>4 DEF Pool
<1>6. \A b \in Assets : next.reserves[b] = IF b = a THEN declared ELSE pool.reserves[b]
  BY <1>1, <1>4 DEF Pool
<1>7. WellFormed(next)
  BY <1>3, <1>5, <1>6 DEF WellFormed
<1> QED
  BY <1>7 DEF next

\* What an index resolves to.
LEMMA ReserveByIndexType ==
    ASSUME NEW pool \in Pool, NEW i
    PROVE  /\ ReserveByIndex(pool, i) \in Assets \cup {None}
           /\ ReserveByIndex(pool, i) # None =>
                /\ pool.reserves[ReserveByIndex(pool, i)] # None
                /\ pool.reserves[ReserveByIndex(pool, i)].known
                /\ pool.reserves[ReserveByIndex(pool, i)].index = i
<1> DEFINE claimants == {a \in Assets : /\ pool.reserves[a] # None
                                        /\ pool.reserves[a].known
                                        /\ pool.reserves[a].index = i}
<1>1. CASE \E a \in Assets : claimants = {a}
  <2>1. PICK a \in Assets : claimants = {a}
    BY <1>1
  <2>2. ReserveByIndex(pool, i) = CHOOSE b \in Assets : claimants = {b}
    BY <1>1 DEF ReserveByIndex
  <2>3. ReserveByIndex(pool, i) \in Assets /\ claimants = {ReserveByIndex(pool, i)}
    BY <2>1, <2>2
  <2>4. ReserveByIndex(pool, i) \in claimants
    BY <2>3
  <2> QED
    BY <2>3, <2>4
<1>2. CASE ~ \E a \in Assets : claimants = {a}
  BY <1>2 DEF ReserveByIndex
<1> QED
  BY <1>1, <1>2

\* An emission entry touches nothing but the emissions of one side.
LEMMA UpdateSideWellFormed ==
    ASSUME NEW pool, WellFormed(pool), NEW token \in Tokens, NEW fields,
           \A f \in DOMAIN fields : fields[f] \in Amounts \cup {None}
    PROVE  WellFormed(UpdateSide(pool, token, fields))
<1> DEFINE a == ReserveByIndex(pool, token \div 2)
           next == UpdateSide(pool, token, fields)
<1>1. CASE a = None
  BY <1>1 DEF UpdateSide
<1>2. CASE a # None
  <2>1. pool \in Pool /\ a \in Assets /\ pool.reserves[a] \in Reserve /\ token % 2 \in {0, 1}
    <3>1. pool \in Pool
      BY DEF WellFormed
    <3>2. a \in Assets /\ pool.reserves[a] # None
      BY <1>2, <3>1, ReserveByIndexType
    <3>3. token % 2 \in {0, 1}
      BY TokensAssumption
    <3> QED
      BY <3>1, <3>2, <3>3 DEF Pool
  <2> DEFINE old == pool.reserves[a].emis[token % 2]
             side == [f \in DOMAIN old |-> IF f \in DOMAIN fields THEN fields[f] ELSE old[f]]
  <2>2. next = [pool EXCEPT !.reserves[a].emis[token % 2] = side]
    BY <1>2 DEF UpdateSide
  <2>3. old \in Emissions
    BY <2>1 DEF Reserve
  <2>4. side \in Emissions
    BY <2>3 DEF Emissions
  <2> HIDE DEF old, side, next, a
  <2> DEFINE reserve == [pool.reserves[a] EXCEPT !.emis[token % 2] = side]
  <2>5. /\ reserve \in Reserve
        /\ reserve.known = pool.reserves[a].known
        /\ reserve.index = pool.reserves[a].index
    BY <2>1, <2>4 DEF Reserve
  <2>6. next = [pool EXCEPT !.reserves[a] = reserve]
    BY <2>1, <2>2 DEF Pool
  <2> HIDE DEF reserve
  <2>7. next \in Pool
    BY <2>1, <2>5, <2>6 DEF Pool
  <2>8. \A b \in Assets : next.reserves[b] = IF b = a THEN reserve ELSE pool.reserves[b]
    BY <2>1, <2>6 DEF Pool
  <2>9. pool.reserves[a] # None
    BY <1>2, <2>1, ReserveByIndexType DEF a
  <2>10. WellFormed(next)
    BY <2>5, <2>7, <2>8, <2>9 DEF WellFormed
  <2> QED
    BY <2>10 DEF next
<1> QED
  BY <1>1, <1>2

-----------------------------------------------------------------------------
(* The inductive invariant.                                                *)

Entries == [temporary : [Ids -> Terms \cup {None}],
            users     : [UserKeys -> Amounts \cup {None}],
            config    : [TokenKeys -> Amounts \cup {None}],
            data      : [TokenKeys -> Amounts \cup {None}],
            split     : [Pools -> Amounts \cup {None}]]

\* A state of the right type, its pools well formed.
Sound(state) == state \in LedgerState /\ WellFormedPools(state.pools)

Typed ==
    /\ phase \in {"idle", "applying", "returned"}
    /\ Sound(mirror)
    /\ Sound(committed)
    /\ touched \subseteq Ids
    /\ rows \in [Ids -> Terms \cup {None}]
    /\ applied \in 0..MaxChanges
    /\ carried \in BOOLEAN
    /\ entries \in Entries
    /\ settled \in Entries

\* What was committed, and what the consumer holds, is what the chain said then.
SettledHeld ==
    \A id \in Ids : /\ rows[id] = settled.temporary[id]
                    /\ Held(committed, id) = settled.temporary[id]

\* Between ledgers nothing is pending, and a carried mirror is the stored state.
IdleSettled ==
    phase = "idle" => entries = settled /\ (carried => mirror = committed)

\* Within a ledger the mirror follows the chain, and remembers what it moved.
MirrorFollows ==
    phase # "idle" =>
        \A id \in Ids : /\ Held(mirror, id) = entries.temporary[id]
                        /\ id \notin touched => entries.temporary[id] = settled.temporary[id]

IInv == Typed /\ SettledHeld /\ IdleSettled /\ MirrorFollows

\* Nothing is known of any entry at first.
LEMMA InitIInv == Init => IInv
<1> SUFFICES ASSUME Init PROVE IInv
  OBVIOUS
<1> USE DEF Init
<1>1. Sound(EmptyState)
  BY DEF Sound, EmptyState, LedgerState, Absent, WellFormedPools
<1>2. Silence \in Entries
  BY DEF Silence, Entries, Absent
<1>3. Absent(Ids) \in [Ids -> Terms \cup {None}]
  BY DEF Absent
<1>4. Typed
  <2>1. carried \in BOOLEAN
    OBVIOUS
  <2>2. applied \in 0..MaxChanges
    BY TokensAssumption
  <2> QED
    BY <1>1, <1>2, <1>3, <2>1, <2>2 DEF Typed
<1>5. \A id \in Ids : /\ Absent(Ids)[id] = Silence.temporary[id]
                      /\ Held(EmptyState, id) = Silence.temporary[id]
  BY DEF Held, EmptyState, Silence, Absent, Ids
<1>6. SettledHeld
  BY <1>5 DEF SettledHeld
<1> QED
  BY <1>4, <1>6 DEF IInv, IdleSettled, MirrorFollows

\* A change that concerns no auction and no queued reserve.
LEMMA ChangeStep ==
    ASSUME IInv, NEW family, NEW next, NEW said, Change(family, next, said),
           Sound(next), next.auctions = mirror.auctions, next.queued = mirror.queued,
           said \in Entries, said.temporary = entries.temporary
    PROVE  IInv'
<1> USE DEF Change, Step, IInv
<1>1. Typed'
  BY TokensAssumption DEF Typed
<1>2. SettledHeld'
  BY DEF SettledHeld, Held
<1>3. MirrorFollows'
  BY DEF MirrorFollows, Held
<1> QED
  BY <1>1, <1>2, <1>3 DEF IdleSettled

\* A change that names an auction or a queued reserve.
LEMMA TransitionStep ==
    ASSUME IInv, NEW family, NEW id \in Ids, NEW next, NEW v \in Terms \cup {None},
           Transition(family, id, next, v), Sound(next),
           \A i \in Ids : Held(next, i) = IF i = id THEN v ELSE Held(mirror, i)
    PROVE  IInv'
<1> USE DEF Transition, Step, IInv
<1> DEFINE said == [entries EXCEPT !.temporary[id] = v]
<1>1. /\ said \in Entries
      /\ \A i \in Ids : said.temporary[i] = IF i = id THEN v ELSE entries.temporary[i]
  BY DEF Typed, Entries
<1>2. entries' = said
  OBVIOUS
<1> HIDE DEF said
<1>3. Typed'
  BY <1>1, <1>2, TokensAssumption DEF Typed
<1>4. SettledHeld'
  BY DEF SettledHeld, Held
<1>5. ASSUME NEW i \in Ids
      PROVE  /\ Held(mirror', i) = said.temporary[i]
             /\ i \notin touched' => said.temporary[i] = settled.temporary[i]
  BY <1>1 DEF MirrorFollows
<1>6. MirrorFollows'
  BY <1>2, <1>5 DEF MirrorFollows, Held
<1> QED
  BY <1>3, <1>4, <1>6 DEF IdleSettled

\* Replacing one pool of a state.
LEMMA PoolReplaced ==
    ASSUME NEW state, Sound(state), NEW p \in Pools, NEW pool,
           pool # None => WellFormed(pool)
    PROVE  LET next == [state EXCEPT !.pools[p] = pool]
           IN  /\ Sound(next)
               /\ next.auctions = state.auctions
               /\ next.queued = state.queued
<1> DEFINE next == [state EXCEPT !.pools[p] = pool]
<1>1. pool \in Pool \cup {None}
  BY DEF WellFormed
<1>2. /\ next \in LedgerState
      /\ next.pools = [state.pools EXCEPT ![p] = pool]
      /\ next.auctions = state.auctions
      /\ next.queued = state.queued
  BY <1>1 DEF Sound, LedgerState
<1>3. \A q \in Pools : next.pools[q] = IF q = p THEN pool ELSE state.pools[q]
  BY <1>2 DEF Sound, LedgerState
<1>4. WellFormedPools(next.pools)
  BY <1>3 DEF Sound, WellFormedPools
<1> QED
  BY <1>2, <1>4 DEF Sound

\* An action that replaces one pool of the mirror.
LEMMA PoolChangeStep ==
    ASSUME IInv, NEW family, NEW p \in Pools, NEW pool, NEW said,
           Change(family, [mirror EXCEPT !.pools[p] = pool], said),
           pool # None => WellFormed(pool),
           said \in Entries, said.temporary = entries.temporary
    PROVE  IInv'
<1>1. Sound(mirror)
  BY DEF IInv, Typed
<1> QED
  BY <1>1, PoolReplaced, ChangeStep

\* Auctions and queued reserves.
LEMMA TemporaryChangeStep ==
    ASSUME IInv, TemporaryChange
    PROVE  IInv'
<1>1. Sound(mirror) /\ entries \in Entries
  BY DEF IInv, Typed
<1>2. CASE MalformedWritten
  BY <1>1, <1>2, ChangeStep DEF MalformedWritten
<1>3. ASSUME NEW k \in AuctionKeys, NEW v \in Terms \cup {None},
             Transition("auction", k, [mirror EXCEPT !.auctions[k] = v], v)
      PROVE  IInv'
  <2> DEFINE next == [mirror EXCEPT !.auctions[k] = v]
  <2>1. /\ next \in LedgerState
        /\ next.pools = mirror.pools
        /\ next.queued = mirror.queued
        /\ next.auctions = [mirror.auctions EXCEPT ![k] = v]
    BY <1>1 DEF Sound, LedgerState
  <2>2. Sound(next)
    BY <1>1, <2>1 DEF Sound
  <2>3. \A i \in Ids : Held(next, i) = IF i = k THEN v ELSE Held(mirror, i)
    BY <1>1, <2>1 DEF Held, Sound, LedgerState
  <2>4. k \in Ids
    BY DEF Ids
  <2> HIDE DEF next
  <2>5. Transition("auction", k, next, v)
    BY <1>3 DEF next
  <2> QED
    BY <2>2, <2>3, <2>4, <2>5, TransitionStep
<1>4. ASSUME NEW k \in QueuedKeys, NEW v \in Terms \cup {None},
             Transition("queued", k, [mirror EXCEPT !.queued[k] = v], v)
      PROVE  IInv'
  <2> DEFINE next == [mirror EXCEPT !.queued[k] = v]
  <2>1. /\ next \in LedgerState
        /\ next.pools = mirror.pools
        /\ next.auctions = mirror.auctions
        /\ next.queued = [mirror.queued EXCEPT ![k] = v]
    BY <1>1 DEF Sound, LedgerState
  <2>2. Sound(next)
    BY <1>1, <2>1 DEF Sound
  <2>3. k \notin AuctionKeys
    BY TemporaryNamesAssumption
  <2>4. \A i \in Ids : Held(next, i) = IF i = k THEN v ELSE Held(mirror, i)
    BY <1>1, <2>1, <2>3 DEF Held, Ids, Sound, LedgerState
  <2>5. k \in Ids
    BY DEF Ids
  <2> HIDE DEF next
  <2>6. Transition("queued", k, next, v)
    BY <1>4 DEF next
  <2> QED
    BY <2>2, <2>4, <2>5, <2>6, TransitionStep
<1> QED
  BY <1>2, <1>3, <1>4
     DEF TemporaryChange, AuctionGone, AuctionWritten, QueueResolved, ReserveQueued

\* Emissions of users, of a reserve's sides, and of the pool.
LEMMA EmissionChangeStep ==
    ASSUME IInv, EmissionChange
    PROVE  IInv'
<1>1. Sound(mirror) /\ entries \in Entries
  BY DEF IInv, Typed
<1>2. \A p \in Pools : mirror.pools[p] # None => WellFormed(mirror.pools[p])
  BY <1>1 DEF Sound, WellFormedPools
<1>3. ASSUME NEW k \in UserKeys, NEW v \in Amounts \cup {None},
             Change("user emission", [mirror EXCEPT !.users[k] = v],
                    [entries EXCEPT !.users[k] = v])
      PROVE  IInv'
  <2> DEFINE next == [mirror EXCEPT !.users[k] = v]
             said == [entries EXCEPT !.users[k] = v]
  <2>1. /\ next \in LedgerState
        /\ next.pools = mirror.pools
        /\ next.auctions = mirror.auctions
        /\ next.queued = mirror.queued
    BY <1>1 DEF Sound, LedgerState
  <2>2. said \in Entries /\ said.temporary = entries.temporary
    BY <1>1 DEF Entries
  <2>3. Sound(next)
    BY <1>1, <2>1 DEF Sound
  <2> HIDE DEF next, said
  <2>4. Change("user emission", next, said)
    BY <1>3 DEF next, said
  <2> QED
    BY <2>1, <2>2, <2>3, <2>4, ChangeStep
<1>4. ASSUME NEW p \in Pools, NEW t \in Tokens, NEW v \in Amounts \cup {None}
      PROVE  /\ [entries EXCEPT !.config[<<p, t>>] = v] \in Entries
             /\ [entries EXCEPT !.config[<<p, t>>] = v].temporary = entries.temporary
             /\ [entries EXCEPT !.data[<<p, t>>] = v] \in Entries
             /\ [entries EXCEPT !.data[<<p, t>>] = v].temporary = entries.temporary
  BY <1>1 DEF Entries, TokenKeys
<1>5. ASSUME NEW p \in Pools, NEW v \in Amounts \cup {None}
       PROVE  /\ [entries EXCEPT !.split[p] = v] \in Entries
              /\ [entries EXCEPT !.split[p] = v].temporary = entries.temporary
  BY <1>1 DEF Entries
<1>6. ASSUME NEW v \in Amounts \cup {None}, NEW fields,
             \/ fields \in {ConfigFields(v), ConfigCleared, DataCleared}
             \/ fields = DataFields(version, v)
      PROVE  \A f \in DOMAIN fields : fields[f] \in Amounts \cup {None}
  BY <1>6 DEF ConfigFields, ConfigCleared, DataCleared, DataFields
<1>7. ASSUME NEW p \in Pools, NEW t \in Tokens, NEW v \in Amounts,
             EmisConfigWritten(p, t, v)
      PROVE  IInv'
  <2>1. WellFormed(UpdateSide(EnsurePool(mirror.pools[p]), t, ConfigFields(v)))
    BY <1>2, <1>6, EnsurePoolWellFormed, UpdateSideWellFormed
  <2> QED
    BY <1>4, <1>7, <2>1, PoolChangeStep DEF EmisConfigWritten
<1>8. ASSUME NEW p \in Pools, NEW t \in Tokens, NEW v \in Amounts,
             EmisDataWritten(p, t, v)
      PROVE  IInv'
  <2>1. WellFormed(UpdateSide(EnsurePool(mirror.pools[p]), t, DataFields(version, v)))
    BY <1>2, <1>6, EnsurePoolWellFormed, UpdateSideWellFormed
  <2> QED
    BY <1>4, <1>8, <2>1, PoolChangeStep DEF EmisDataWritten
<1>9. ASSUME NEW p \in Pools, NEW t \in Tokens, NEW fields, NEW said,
             fields \in {ConfigCleared, DataCleared},
             said \in Entries, said.temporary = entries.temporary,
             Change("emission", ClearSide(p, t, fields), said)
      PROVE  IInv'
  <2>1. CASE mirror.pools[p] = None
    BY <1>1, <1>9, <2>1, ChangeStep DEF ClearSide
  <2>2. CASE mirror.pools[p] # None
    <3>1. WellFormed(UpdateSide(mirror.pools[p], t, fields))
      BY <1>2, <1>6, <1>9, <2>2, UpdateSideWellFormed
    <3> QED
      BY <1>9, <2>2, <3>1, PoolChangeStep DEF ClearSide
  <2> QED
    BY <2>1, <2>2
<1>10. ASSUME NEW p \in Pools, NEW t \in Tokens, EmisConfigGone(p, t) \/ EmisDataGone(p, t)
      PROVE  IInv'
  <2>1. CASE EmisConfigGone(p, t)
    <3> DEFINE said == [entries EXCEPT !.config[<<p, t>>] = None]
    <3>1. said \in Entries /\ said.temporary = entries.temporary
      BY <1>4
    <3>2. Change("emission", ClearSide(p, t, ConfigCleared), said)
      BY <2>1 DEF EmisConfigGone
    <3> HIDE DEF said
    <3> QED
      BY <1>9, <3>1, <3>2
  <2>2. CASE EmisDataGone(p, t)
    <3> DEFINE said == [entries EXCEPT !.data[<<p, t>>] = None]
    <3>1. said \in Entries /\ said.temporary = entries.temporary
      BY <1>4
    <3>2. Change("emission", ClearSide(p, t, DataCleared), said)
      BY <2>2 DEF EmisDataGone
    <3> HIDE DEF said
    <3> QED
      BY <1>9, <3>1, <3>2
  <2> QED
    BY <1>10, <2>1, <2>2
<1>11. ASSUME NEW p \in Pools, NEW v \in Amounts, PoolEmisWritten(p, v)
       PROVE  IInv'
  <2>1. WellFormed(EnsurePool(mirror.pools[p]))
    BY <1>2, EnsurePoolWellFormed
  <2>2. WellFormed([EnsurePool(mirror.pools[p]) EXCEPT !.split = v])
    BY <2>1 DEF WellFormed, Pool
  <2> QED
    BY <1>5, <1>11, <2>2, PoolChangeStep DEF PoolEmisWritten
<1>12. ASSUME NEW p \in Pools, PoolEmisGone(p)
       PROVE  IInv'
  <2>1. CASE mirror.pools[p] = None
    BY <1>1, <1>5, <1>12, <2>1, ChangeStep DEF PoolEmisGone
  <2>2. CASE mirror.pools[p] # None
    <3>1. WellFormed([mirror.pools[p] EXCEPT !.split = None])
      BY <1>2, <2>2 DEF WellFormed, Pool
    <3>2. [mirror EXCEPT !.pools[p].split = None]
             = [mirror EXCEPT !.pools[p] = [mirror.pools[p] EXCEPT !.split = None]]
      OBVIOUS
    <3> QED
      BY <1>5, <1>12, <2>2, <3>1, <3>2, PoolChangeStep DEF PoolEmisGone
  <2> QED
    BY <2>1, <2>2
<1> QED
  BY <1>3, <1>7, <1>8, <1>10, <1>11, <1>12
     DEF EmissionChange, UserEmissionGone, UserEmissionWritten

\* Pools and reserves come, lapse and go.
LEMMA PoolChangeKeeps ==
    ASSUME IInv, PoolChange
    PROVE  IInv'
<1>1. Sound(mirror) /\ entries \in Entries
  BY DEF IInv, Typed
<1>2. \A p \in Pools : mirror.pools[p] # None => WellFormed(mirror.pools[p])
  BY <1>1 DEF Sound, WellFormedPools
<1>3. \A p \in Pools : WellFormed(EnsurePool(mirror.pools[p]))
  BY <1>2, EnsurePoolWellFormed
<1>4. ASSUME NEW p \in Pools, PoolSeen(p)
      PROVE  IInv'
  BY <1>1, <1>3, <1>4, PoolChangeStep DEF PoolSeen
<1>5. ASSUME NEW p \in Pools, PoolDeleted(p)
      PROVE  IInv'
  BY <1>1, <1>5, PoolChangeStep DEF PoolDeleted
<1>6. ASSUME NEW p \in Pools, NEW seen, ReservesSeen(p, seen)
      PROVE  IInv'
  <2>1. WellFormed(SeeReserves(EnsurePool(mirror.pools[p]), seen))
    BY <1>3, SeeReservesWellFormed
  <2> QED
    BY <1>1, <1>6, <2>1, PoolChangeStep DEF ReservesSeen
<1>7. ASSUME NEW p \in Pools, NEW a \in Assets, ReserveConfigured(p, a)
      PROVE  IInv'
  <2>1. WellFormed(DeclareIndex(EnsurePool(mirror.pools[p]), a))
    BY <1>3, DeclareIndexWellFormed
  <2> QED
    BY <1>1, <1>7, <2>1, PoolChangeStep DEF ReserveConfigured
<1>8. ASSUME NEW p \in Pools, NEW a \in Assets, NEW declared \in BOOLEAN,
             ReserveLapsed(p, a, declared)
      PROVE  IInv'
  <2> DEFINE pool == IF declared THEN DeclareIndex(mirror.pools[p], a)
                     ELSE SeeReserves(mirror.pools[p], {a})
  <2>1. WellFormed(mirror.pools[p])
    BY <1>2, <1>8 DEF ReserveLapsed
  <2>2. WellFormed(pool)
    BY <2>1, DeclareIndexWellFormed, SeeReservesWellFormed
  <2>3. Change("reserve", [mirror EXCEPT !.pools[p] = pool], entries)
    BY <1>8 DEF ReserveLapsed
  <2> HIDE DEF pool
  <2> QED
    BY <1>1, <2>2, <2>3, PoolChangeStep
<1>9. ASSUME NEW p \in Pools, NEW a \in Assets, ReserveRemoved(p, a)
      PROVE  IInv'
  <2> DEFINE pool == [mirror.pools[p] EXCEPT !.reserves[a] = None]
  <2>1. WellFormed(mirror.pools[p])
    BY <1>2, <1>9 DEF ReserveRemoved
  <2>2. WellFormed(pool)
    BY <2>1 DEF WellFormed, Pool
  <2>3. Change("reserve", [mirror EXCEPT !.pools[p] = pool], entries)
    BY <1>9 DEF ReserveRemoved
  <2> HIDE DEF pool
  <2> QED
    BY <1>1, <2>2, <2>3, PoolChangeStep
<1> QED
  BY <1>4, <1>5, <1>6, <1>7, <1>8, <1>9 DEF PoolChange

\* A touched identity is told once, as a removal if the mirror holds nothing.
LEMMA ToldOutcome ==
    ASSUME NEW id
    PROVE  /\ (\E c \in Told : c.id = id) <=> id \in touched
           /\ (\E c \in Told : c.id = id /\ c.action = "removal")
                <=> id \in touched /\ Held(mirror, id) = None
<1> DEFINE outcome(i) == IF Held(mirror, i) # None THEN "upsert" ELSE "removal"
           told(i) == [id |-> i, action |-> outcome(i)]
<1>1. Told = {told(i) : i \in touched}
  BY Zenon DEF Told, Transitions
<1>2. \A i : told(i).id = i /\ told(i).action = outcome(i)
  OBVIOUS
<1>3. \A i : outcome(i) = "removal" <=> Held(mirror, i) = None
  OBVIOUS
<1> HIDE DEF told, outcome
<1> QED
  BY <1>1, <1>2, <1>3

\* The rows of a committed decode: what it touched is what the chain says now,
\* the rest is what it said before, which is the same.
LEMMA CommitStep ==
    ASSUME IInv, Commit
    PROVE  IInv'
<1> USE DEF IInv, Commit
<1>1. ASSUME NEW id \in Ids
      PROVE  rows'[id] = entries.temporary[id]
  <2>1. /\ Held(mirror, id) = entries.temporary[id]
        /\ id \notin touched => entries.temporary[id] = settled.temporary[id]
    BY DEF MirrorFollows
  <2>2. rows[id] = settled.temporary[id]
    BY DEF SettledHeld
  <2>3. rows'[id] = IF \E c \in Told : c.id = id /\ c.action = "removal" THEN None
                    ELSE IF (\E c \in Told : c.id = id) /\ Held(mirror, id) # None
                         THEN Held(mirror, id)
                    ELSE rows[id]
    BY DEF Project
  <2>4. /\ (\E c \in Told : c.id = id) <=> id \in touched
        /\ (\E c \in Told : c.id = id /\ c.action = "removal")
              <=> id \in touched /\ Held(mirror, id) = None
    BY ToldOutcome
  <2> QED
    BY <2>1, <2>2, <2>3, <2>4
<1>2. rows' \in [Ids -> Terms \cup {None}]
  <2>1. rows' = [id \in Ids |-> rows'[id]]
    BY DEF Project
  <2>2. \A id \in Ids : rows'[id] \in Terms \cup {None}
    BY <1>1 DEF Typed, Entries
  <2> QED
    BY <2>1, <2>2
<1>3. carried' \in BOOLEAN
  OBVIOUS
<1>4. Typed'
  BY <1>2, <1>3 DEF Typed
<1>5. SettledHeld'
  BY <1>1 DEF SettledHeld, MirrorFollows, Held
<1> QED
  BY <1>4, <1>5 DEF IdleSettled, MirrorFollows

\* Every step keeps the invariant.
LEMMA NextKeepsIInv ==
    ASSUME IInv, [Next]_vars
    PROVE  IInv'
<1>1. CASE BeginLedger
  <2>1. mirror' = committed
    <3>1. CASE Continues
      BY <1>1, <3>1 DEF BeginLedger, Continues, IInv, IdleSettled
    <3>2. CASE ~Continues
      BY <1>1, <3>2 DEF BeginLedger
    <3> QED
      BY <3>1, <3>2
  <2>2. Typed'
    BY <1>1, <2>1 DEF BeginLedger, IInv, Typed
  <2>3. SettledHeld'
    BY <1>1 DEF BeginLedger, IInv, SettledHeld, Held
  <2>4. MirrorFollows'
    BY <1>1, <2>1 DEF BeginLedger, IInv, IdleSettled, SettledHeld, MirrorFollows, Held
  <2> QED
    BY <1>1, <2>2, <2>3, <2>4 DEF BeginLedger, IInv, IdleSettled
<1>2. CASE EndLedger
  <2>1. Typed'
    BY <1>2, TokensAssumption DEF EndLedger, IInv, Typed
  <2> QED
    BY <1>2, <2>1 DEF EndLedger, IInv, SettledHeld, IdleSettled, MirrorFollows, Held
<1>3. CASE DropResult \/ Restart
  <2>1. Sound(mirror')
    BY <1>3 DEF DropResult, Restart, IInv, Typed, Sound, EmptyState, LedgerState,
                Absent, WellFormedPools
  <2>2. carried' \in BOOLEAN /\ ~carried'
    BY <1>3 DEF DropResult, Restart, Abandon
  <2>3. Typed'
    BY <1>3, <2>1, <2>2, TokensAssumption DEF DropResult, Restart, Abandon, IInv, Typed
  <2>4. SettledHeld'
    BY <1>3 DEF DropResult, Restart, Abandon, IInv, SettledHeld, Held
  <2> QED
    BY <1>3, <2>2, <2>3, <2>4
       DEF DropResult, Restart, Abandon, IInv, IdleSettled, MirrorFollows
<1>4. CASE UNCHANGED vars
  BY <1>4 DEF vars, IInv, Typed, SettledHeld, IdleSettled, MirrorFollows, Held
<1> QED
  BY <1>1, <1>2, <1>3, <1>4, CommitStep, TemporaryChangeStep, EmissionChangeStep,
     PoolChangeKeeps DEF Next

LEMMA Invariance == Spec => []IInv
BY InitIInv, NextKeepsIInv, PTL DEF Spec

\* The state and the rows are of their types, and a known index is the one the
\* contract gave the asset, for any pools, assets, tokens and contents.
THEOREM TemporaryTypes == Spec => []TemporaryTypeOK
<1>1. IInv => TemporaryTypeOK
  BY DEF IInv, Typed, Sound, WellFormedPools, WellFormed, TemporaryTypeOK
<1> QED
  BY <1>1, Invariance, PTL

\* Between ledgers the rows a consumer keeps from the transitions alone, and the
\* stored state, are what the auctions and queued changes of the chain say,
\* under either strategy and whatever was dropped, retried or lost.
THEOREM LifecycleIsTheChains == Spec => []LifecycleFollowsChain
<1>1. IInv => LifecycleFollowsChain
  BY DEF IInv, SettledHeld, IdleSettled, LifecycleFollowsChain
<1> QED
  BY <1>1, Invariance, PTL

-----------------------------------------------------------------------------
(* Emissions: what a state shows follows what the entries said.            *)

\* What a live entry of a token said of each field (ver: the pool's version).
SaidAccrual(said, key) == said.data[key]
SaidRate(ver, said, key) == IF ver = 1 THEN said.config[key] ELSE said.data[key]

\* The fields shown of one side, which shows nothing until its index is known.
SideFollows(ver, said, key, reserve, side) ==
    /\ reserve.emis[side].accrual # None =>
          /\ reserve.known
          /\ key \in TokenKeys
          /\ reserve.emis[side].accrual = SaidAccrual(said, key)
    /\ reserve.emis[side].rate # None =>
          /\ reserve.known
          /\ key \in TokenKeys
          /\ reserve.emis[side].rate = SaidRate(ver, said, key)

PoolFollows(ver, said, p, pool) ==
    /\ pool.split \in {None, said.split[p]}
    /\ \A a \in Assets, side \in {0, 1} : pool.reserves[a] # None =>
          SideFollows(ver, said, <<p, TokenOf(a, side)>>, pool.reserves[a], side)

Follows(ver, said, state) ==
    /\ \A k \in UserKeys : state.users[k] = said.users[k]
    /\ \A p \in Pools : state.pools[p] # None => PoolFollows(ver, said, p, state.pools[p])

FieldsInv ==
    /\ version \in {1, 2}
    /\ Follows(version, settled, committed)
    /\ phase # "idle" => Follows(version, entries, mirror) /\ touched = changed

\* The token of a side names that side of that asset, and no other.
LEMMA TokenNamesOneSide ==
    ASSUME NEW a \in Assets, NEW side \in {0, 1}, NEW t \in Tokens
    PROVE  TokenOf(a, side) = t <=> IndexOf[a] = t \div 2 /\ side = t % 2
<1>1. IndexOf[a] \in Nat /\ t \in Nat
  BY TokensAssumption
<1> DEFINE i == t \div 2
           r == t % 2
<1>2. t = 2 * i + r /\ r \in {0, 1} /\ i \in Nat
  BY <1>1
<1> HIDE DEF i, r
<1>3. 2 * IndexOf[a] + side = 2 * i + r <=> IndexOf[a] = i /\ side = r
  <2> DEFINE index == IndexOf[a]
  <2>1. index \in Nat /\ i \in Nat /\ side \in {0, 1} /\ r \in {0, 1}
    BY <1>1, <1>2
  <2> HIDE DEF index
  <2>2. 2 * index + side = 2 * i + r => side = r
    BY <2>1
  <2>3. side = r => (2 * index + side = 2 * i + r <=> index = i)
    BY <2>1
  <2>4. 2 * index + side = 2 * i + r <=> index = i /\ side = r
    BY <2>2, <2>3
  <2> QED
    BY <2>4 DEF index
<1> QED
  BY <1>2, <1>3 DEF TokenOf, i, r

\* A reserve known by its index is what the index resolves to.
LEMMA KnownResolves ==
    ASSUME NEW pool, WellFormed(pool), NEW a \in Assets,
           pool.reserves[a] # None, pool.reserves[a].known
    PROVE  ReserveByIndex(pool, IndexOf[a]) = a
<1> DEFINE claimants == {b \in Assets : /\ pool.reserves[b] # None
                                        /\ pool.reserves[b].known
                                        /\ pool.reserves[b].index = IndexOf[a]}
<1>1. claimants = {a}
  BY TokensAssumption DEF WellFormed
<1>2. ReserveByIndex(pool, IndexOf[a]) = CHOOSE b \in Assets : claimants = {b}
  BY <1>1 DEF ReserveByIndex
<1>3. claimants = {CHOOSE b \in Assets : claimants = {b}}
  BY <1>1
<1> QED
  BY <1>1, <1>2, <1>3

\* A token resolves to the asset it belongs to, or to none.
LEMMA ResolvedIsOwner ==
    ASSUME NEW pool, WellFormed(pool), NEW i, ReserveByIndex(pool, i) # None
    PROVE  /\ ReserveByIndex(pool, i) \in Assets
           /\ pool.reserves[ReserveByIndex(pool, i)] # None
           /\ pool.reserves[ReserveByIndex(pool, i)].known
           /\ IndexOf[ReserveByIndex(pool, i)] = i
<1>1. pool \in Pool
  BY DEF WellFormed
<1>2. /\ ReserveByIndex(pool, i) \in Assets
      /\ pool.reserves[ReserveByIndex(pool, i)] # None
      /\ pool.reserves[ReserveByIndex(pool, i)].known
      /\ pool.reserves[ReserveByIndex(pool, i)].index = i
  BY <1>1, ReserveByIndexType, TemporaryNamesAssumption
<1> QED
  BY <1>2 DEF WellFormed

\* An entry of token t says `next' where it said `said'; the fields it sets or
\* clears are what it says now, the ones it leaves are what it said before.
EntryMoves(ver, said, next, key, fields) ==
    /\ \A k \in TokenKeys : k # key => /\ SaidAccrual(next, k) = SaidAccrual(said, k)
                                       /\ SaidRate(ver, next, k) = SaidRate(ver, said, k)
    /\ IF "accrual" \in DOMAIN fields
       THEN fields["accrual"] \in {None, SaidAccrual(next, key)}
       ELSE SaidAccrual(next, key) = SaidAccrual(said, key)
    /\ IF "rate" \in DOMAIN fields
       THEN fields["rate"] \in {None, SaidRate(ver, next, key)}
       ELSE SaidRate(ver, next, key) = SaidRate(ver, said, key)

\* UpdateSide moves the side its token names, and only it; a token that does
\* not resolve is that of no side that shows anything.
LEMMA UpdateSideFollows ==
    ASSUME NEW ver, NEW said, NEW next, NEW p \in Pools, NEW t \in Tokens, NEW fields,
           NEW pool, WellFormed(pool), PoolFollows(ver, said, p, pool),
           next.split[p] = said.split[p],
           EntryMoves(ver, said, next, <<p, t>>, fields)
    PROVE  PoolFollows(ver, next, p, UpdateSide(pool, t, fields))
<1> DEFINE key == <<p, t>>
           a == ReserveByIndex(pool, t \div 2)
           updated == UpdateSide(pool, t, fields)
<1>1. key \in TokenKeys
  BY DEF TokenKeys
<1>2. ASSUME NEW b \in Assets, NEW side \in {0, 1}, pool.reserves[b] # None,
             <<p, TokenOf(b, side)>> # key \/ ~pool.reserves[b].known
      PROVE  SideFollows(ver, next, <<p, TokenOf(b, side)>>, pool.reserves[b], side)
  <2>1. SideFollows(ver, said, <<p, TokenOf(b, side)>>, pool.reserves[b], side)
    BY <1>2 DEF PoolFollows
  <2> QED
    BY <1>2, <2>1 DEF SideFollows, EntryMoves
<1>3. CASE a = None
  <2>1. updated = pool
    BY <1>3 DEF UpdateSide
  <2>2. ASSUME NEW b \in Assets, NEW side \in {0, 1}, pool.reserves[b] # None,
               <<p, TokenOf(b, side)>> = key, pool.reserves[b].known
        PROVE  FALSE
    <3>1. IndexOf[b] = t \div 2
      BY <2>2, TokenNamesOneSide
    <3>2. a = b
      BY <2>2, <3>1, KnownResolves
    <3> QED
      BY <1>3, <3>2, TemporaryNamesAssumption
  <2>3. \A b \in Assets, side \in {0, 1} : pool.reserves[b] # None =>
          SideFollows(ver, next, <<p, TokenOf(b, side)>>, pool.reserves[b], side)
    BY <1>2, <2>2
  <2> QED
    BY <2>1, <2>3 DEF PoolFollows
<1>4. CASE a # None
  <2>1. a \in Assets /\ pool.reserves[a] # None /\ pool.reserves[a].known /\ IndexOf[a] = t \div 2
    BY <1>4, ResolvedIsOwner
  <2>2. pool \in Pool /\ pool.reserves[a] \in Reserve /\ t % 2 \in {0, 1}
    BY <2>1, TokensAssumption DEF WellFormed, Pool
  <2> DEFINE old == pool.reserves[a].emis[t % 2]
             new == [f \in DOMAIN old |-> IF f \in DOMAIN fields THEN fields[f] ELSE old[f]]
             reserve == [pool.reserves[a] EXCEPT !.emis[t % 2] = new]
  <2>3. updated = [pool EXCEPT !.reserves[a].emis[t % 2] = new]
    BY <1>4 DEF UpdateSide
  <2>4. old \in Emissions
    BY <2>2 DEF Reserve
  <2>5. /\ new.accrual = IF "accrual" \in DOMAIN fields THEN fields["accrual"] ELSE old.accrual
        /\ new.rate = IF "rate" \in DOMAIN fields THEN fields["rate"] ELSE old.rate
    BY <2>4 DEF Emissions
  <2> HIDE DEF old, new, a, updated
  <2>6. updated = [pool EXCEPT !.reserves[a] = reserve]
    BY <2>2, <2>3 DEF Pool
  <2>7. /\ reserve.known = pool.reserves[a].known
        /\ reserve.emis[t % 2] = new
        /\ \A side \in {0, 1} : side # t % 2 => reserve.emis[side] = pool.reserves[a].emis[side]
    BY <2>2 DEF Reserve
  <2> HIDE DEF reserve
  <2>8. /\ updated.split = pool.split
        /\ \A b \in Assets : updated.reserves[b] = IF b = a THEN reserve ELSE pool.reserves[b]
    BY <2>1, <2>2, <2>6 DEF Pool
  <2>9. <<p, TokenOf(a, t % 2)>> = key
    BY <2>1, <2>2, TokenNamesOneSide
  <2>10. SideFollows(ver, said, key, pool.reserves[a], t % 2)
    BY <2>1, <2>2, <2>9 DEF PoolFollows
  <2>11. SideFollows(ver, next, key, reserve, t % 2)
    <3>1. old = pool.reserves[a].emis[t % 2]
      BY DEF old
    <3>2. new.accrual # None => new.accrual = SaidAccrual(next, key)
      BY <2>5, <2>10, <3>1 DEF SideFollows, EntryMoves
    <3>3. new.rate # None => new.rate = SaidRate(ver, next, key)
      BY <2>5, <2>10, <3>1 DEF SideFollows, EntryMoves
    <3> QED
      BY <1>1, <2>1, <2>7, <3>2, <3>3 DEF SideFollows
  <2>12. ASSUME NEW b \in Assets, NEW side \in {0, 1}, updated.reserves[b] # None
         PROVE  SideFollows(ver, next, <<p, TokenOf(b, side)>>, updated.reserves[b], side)
    <3>1. CASE b = a /\ side = t % 2
      BY <2>8, <2>9, <2>11, <3>1
    <3>2. CASE ~(b = a /\ side = t % 2)
      <4>1. <<p, TokenOf(b, side)>> # key
        BY <2>1, <3>2, TokenNamesOneSide, TokensAssumption
      <4>2. pool.reserves[b] # None
        BY <2>1, <2>8, <2>12
      <4>3. SideFollows(ver, next, <<p, TokenOf(b, side)>>, pool.reserves[b], side)
        BY <1>2, <4>1, <4>2
      <4>4. CASE b = a
        <5>1. side # t % 2
          BY <3>2, <4>4
        <5>2. reserve.emis[side] = pool.reserves[a].emis[side] /\ reserve.known = pool.reserves[a].known
          BY <2>7, <5>1
        <5> QED
          BY <2>8, <4>3, <4>4, <5>2 DEF SideFollows
      <4>5. CASE b # a
        BY <2>8, <4>3, <4>5
      <4> QED
        BY <4>4, <4>5
    <3> QED
      BY <3>1, <3>2
  <2>13. PoolFollows(ver, next, p, updated)
    BY <2>8, <2>12 DEF PoolFollows
  <2> QED
    BY <2>13 DEF updated
<1> QED
  BY <1>3, <1>4

\* ensurePool: a new pool shows nothing.
LEMMA EnsurePoolFollows ==
    ASSUME NEW ver, NEW said, NEW p, NEW pool,
           pool # None => PoolFollows(ver, said, p, pool)
    PROVE  PoolFollows(ver, said, p, EnsurePool(pool))
BY DEF EnsurePool, Absent, PoolFollows

\* ResData, ResList: a reserve first seen shows nothing, the others stay.
LEMMA SeeReservesFollows ==
    ASSUME NEW ver, NEW said, NEW p, NEW pool, WellFormed(pool), NEW seen,
           PoolFollows(ver, said, p, pool)
    PROVE  PoolFollows(ver, said, p, SeeReserves(pool, seen))
<1> DEFINE next == SeeReserves(pool, seen)
<1>1. /\ next.split = pool.split
      /\ \A a \in Assets : next.reserves[a] = IF a \in seen THEN EnsureReserve(pool.reserves[a])
                                              ELSE pool.reserves[a]
  BY DEF SeeReserves, WellFormed, Pool
<1> HIDE DEF next
<1>2. ASSUME NEW a \in Assets, NEW side \in {0, 1}, next.reserves[a] # None
      PROVE  SideFollows(ver, said, <<p, TokenOf(a, side)>>, next.reserves[a], side)
  <2>1. CASE pool.reserves[a] = None
    <3>1. next.reserves[a] = [index |-> 0, known |-> FALSE, emis |-> NoEmissions]
      BY <1>1, <1>2, <2>1 DEF EnsureReserve
    <3> QED
      BY <3>1 DEF SideFollows, NoEmissions
  <2>2. CASE pool.reserves[a] # None
    <3>1. next.reserves[a] = pool.reserves[a]
      BY <1>1, <2>2 DEF EnsureReserve
    <3> QED
      BY <2>2, <3>1 DEF PoolFollows
  <2> QED
    BY <2>1, <2>2
<1>3. PoolFollows(ver, said, p, next)
  BY <1>1, <1>2 DEF PoolFollows
<1> QED
  BY <1>3 DEF next

\* ResConfig moves no emissions.
LEMMA DeclareIndexFollows ==
    ASSUME NEW ver, NEW said, NEW p, NEW pool, WellFormed(pool), NEW a \in Assets,
           PoolFollows(ver, said, p, pool)
    PROVE  PoolFollows(ver, said, p, DeclareIndex(pool, a))
<1> DEFINE declared == [EnsureReserve(pool.reserves[a]) EXCEPT !.index = IndexOf[a], !.known = TRUE]
           next == DeclareIndex(pool, a)
<1>1. pool \in Pool /\ pool.reserves[a] \in Reserve \cup {None}
  BY DEF WellFormed, Pool
<1>2. EnsureReserve(pool.reserves[a]) \in Reserve
  BY <1>1, EnsureReserveType
<1>3. declared.known = TRUE /\ declared.emis = EnsureReserve(pool.reserves[a]).emis
  BY <1>2 DEF Reserve
<1>4. next = [pool EXCEPT !.reserves[a] = declared]
  BY DEF DeclareIndex
<1> HIDE DEF declared, next
<1>5. /\ next.split = pool.split
      /\ \A b \in Assets : next.reserves[b] = IF b = a THEN declared ELSE pool.reserves[b]
  BY <1>1, <1>4 DEF Pool
<1>6. ASSUME NEW side \in {0, 1}
      PROVE  SideFollows(ver, said, <<p, TokenOf(a, side)>>, declared, side)
  <2>1. CASE pool.reserves[a] = None
    BY <1>3, <2>1 DEF EnsureReserve, NoEmissions, SideFollows
  <2>2. CASE pool.reserves[a] # None
    <3>1. SideFollows(ver, said, <<p, TokenOf(a, side)>>, pool.reserves[a], side)
      BY <2>2 DEF PoolFollows
    <3>2. declared.emis = pool.reserves[a].emis
      BY <1>3, <2>2 DEF EnsureReserve
    <3> QED
      BY <1>3, <3>1, <3>2 DEF SideFollows
  <2> QED
    BY <2>1, <2>2
<1>7. PoolFollows(ver, said, p, next)
  BY <1>5, <1>6 DEF PoolFollows
<1> QED
  BY <1>7 DEF next

\* A removed reserve takes its emissions with it.
LEMMA ReserveGoneFollows ==
    ASSUME NEW ver, NEW said, NEW p, NEW pool, WellFormed(pool), NEW a \in Assets,
           PoolFollows(ver, said, p, pool)
    PROVE  PoolFollows(ver, said, p, [pool EXCEPT !.reserves[a] = None])
<1> DEFINE next == [pool EXCEPT !.reserves[a] = None]
<1>1. /\ next.split = pool.split
      /\ \A b \in Assets : next.reserves[b] = IF b = a THEN None ELSE pool.reserves[b]
  BY DEF WellFormed, Pool
<1> HIDE DEF next
<1>2. PoolFollows(ver, said, p, next)
  BY <1>1 DEF PoolFollows
<1> QED
  BY <1>2 DEF next

\* A side, and a pool, about which the entries say what they said before.
LEMMA SideUnmoved ==
    ASSUME NEW ver, NEW said, NEW next, NEW key, NEW reserve, NEW side,
           SideFollows(ver, said, key, reserve, side),
           key \in TokenKeys => /\ SaidAccrual(next, key) = SaidAccrual(said, key)
                                /\ SaidRate(ver, next, key) = SaidRate(ver, said, key)
    PROVE  SideFollows(ver, next, key, reserve, side)
BY DEF SideFollows

LEMMA PoolUnmoved ==
    ASSUME NEW ver, NEW said, NEW next, NEW p \in Pools, NEW pool,
           PoolFollows(ver, said, p, pool), next.split[p] = said.split[p],
           \A k \in TokenKeys : k[1] = p => /\ SaidAccrual(next, k) = SaidAccrual(said, k)
                                            /\ SaidRate(ver, next, k) = SaidRate(ver, said, k)
    PROVE  PoolFollows(ver, next, p, pool)
<1>1. ASSUME NEW a \in Assets, NEW side \in {0, 1}, pool.reserves[a] # None
      PROVE  SideFollows(ver, next, <<p, TokenOf(a, side)>>, pool.reserves[a], side)
  <2> DEFINE key == <<p, TokenOf(a, side)>>
  <2>1. SideFollows(ver, said, key, pool.reserves[a], side)
    BY <1>1 DEF PoolFollows
  <2>2. key[1] = p
    OBVIOUS
  <2> HIDE DEF key
  <2>3. SideFollows(ver, next, key, pool.reserves[a], side)
    BY <2>1, <2>2, SideUnmoved
  <2> QED
    BY <2>3 DEF key
<1>2. pool.split \in {None, next.split[p]}
  BY DEF PoolFollows
<1> QED
  BY <1>1, <1>2 DEF PoolFollows

\* The pool's own split.
LEMMA SplitFollows ==
    ASSUME NEW ver, NEW said, NEW next, NEW p \in Pools, NEW pool, WellFormed(pool),
           PoolFollows(ver, said, p, pool), NEW v, v \in {None, next.split[p]},
           \A k \in TokenKeys : /\ SaidAccrual(next, k) = SaidAccrual(said, k)
                                /\ SaidRate(ver, next, k) = SaidRate(ver, said, k)
    PROVE  PoolFollows(ver, next, p, [pool EXCEPT !.split = v])
<1> DEFINE moved == [pool EXCEPT !.split = v]
<1>1. moved.split = v /\ moved.reserves = pool.reserves
  BY DEF WellFormed, Pool
<1> HIDE DEF moved
<1>2. ASSUME NEW a \in Assets, NEW side \in {0, 1}, pool.reserves[a] # None
      PROVE  SideFollows(ver, next, <<p, TokenOf(a, side)>>, pool.reserves[a], side)
  <2> DEFINE key == <<p, TokenOf(a, side)>>
  <2>1. SideFollows(ver, said, key, pool.reserves[a], side)
    BY <1>2 DEF PoolFollows
  <2> HIDE DEF key
  <2>2. SideFollows(ver, next, key, pool.reserves[a], side)
    BY <2>1, SideUnmoved
  <2> QED
    BY <2>2 DEF key
<1>3. PoolFollows(ver, next, p, moved)
  BY <1>1, <1>2 DEF PoolFollows
<1> QED
  BY <1>3 DEF moved

\* A state follows when the one pool a change is about does.
LEMMA OnePoolFollows ==
    ASSUME NEW ver, NEW said, NEW next, NEW state, NEW moved, NEW p \in Pools,
           Follows(ver, said, state),
           moved.users = state.users,
           \A k \in UserKeys : next.users[k] = said.users[k],
           \A q \in Pools : q # p => /\ moved.pools[q] = state.pools[q]
                                     /\ next.split[q] = said.split[q],
           \A k \in TokenKeys : k[1] # p => /\ SaidAccrual(next, k) = SaidAccrual(said, k)
                                            /\ SaidRate(ver, next, k) = SaidRate(ver, said, k),
           moved.pools[p] # None => PoolFollows(ver, next, p, moved.pools[p])
    PROVE  Follows(ver, next, moved)
<1>1. ASSUME NEW q \in Pools, q # p, moved.pools[q] # None
      PROVE  PoolFollows(ver, next, q, moved.pools[q])
  <2>1. PoolFollows(ver, said, q, moved.pools[q])
    BY <1>1 DEF Follows
  <2> QED
    BY <1>1, <2>1, PoolUnmoved
<1>2. \A k \in UserKeys : moved.users[k] = next.users[k]
  BY DEF Follows
<1>3. \A q \in Pools : moved.pools[q] # None => PoolFollows(ver, next, q, moved.pools[q])
  BY <1>1
<1> QED
  BY <1>2, <1>3 DEF Follows

\* A state whose pools a change leaves alone, and every token's entries with them.
LEMMA PoolsUnmoved ==
    ASSUME NEW ver, NEW said, NEW next, NEW state, NEW moved,
           Follows(ver, said, state), moved.pools = state.pools,
           \A k \in UserKeys : moved.users[k] = next.users[k],
           next.config = said.config, next.data = said.data, next.split = said.split
    PROVE  Follows(ver, next, moved)
<1>1. \A k \in TokenKeys : /\ SaidAccrual(next, k) = SaidAccrual(said, k)
                           /\ SaidRate(ver, next, k) = SaidRate(ver, said, k)
  BY DEF SaidAccrual, SaidRate
<1>2. ASSUME NEW p \in Pools, moved.pools[p] # None
      PROVE  PoolFollows(ver, next, p, moved.pools[p])
  <2>1. PoolFollows(ver, said, p, moved.pools[p])
    BY <1>2 DEF Follows
  <2> QED
    BY <1>1, <2>1, PoolUnmoved
<1>3. \A p \in Pools : moved.pools[p] # None => PoolFollows(ver, next, p, moved.pools[p])
  BY <1>2
<1> QED
  BY <1>3 DEF Follows

LEMMA InitFields == Init => FieldsInv
BY TokensAssumption
   DEF Init, FieldsInv, Follows, EmptyState, Silence, Absent

LEMMA ChangeFields ==
    ASSUME FieldsInv, NEW family, NEW next, NEW said, Change(family, next, said),
           Follows(version, said, next)
    PROVE  FieldsInv'
<1>1. version' = version /\ settled' = settled /\ committed' = committed
      /\ entries' = said /\ mirror' = next /\ phase = "applying"
      /\ touched' = touched /\ changed' = changed
  BY DEF Change, Step, fixed
<1> QED
  BY <1>1 DEF FieldsInv

\* What the applied changes work on.
LEMMA ApplyingFields ==
    ASSUME IInv, FieldsInv, phase = "applying"
    PROVE  /\ mirror \in LedgerState /\ entries \in Entries /\ version \in {1, 2}
           /\ Follows(version, entries, mirror)
           /\ \A p \in Pools : mirror.pools[p] # None =>
                 /\ WellFormed(mirror.pools[p])
                 /\ PoolFollows(version, entries, p, mirror.pools[p])
           /\ \A p \in Pools :
                 /\ WellFormed(EnsurePool(mirror.pools[p]))
                 /\ PoolFollows(version, entries, p, EnsurePool(mirror.pools[p]))
<1>1. /\ mirror \in LedgerState /\ entries \in Entries /\ version \in {1, 2}
      /\ Follows(version, entries, mirror)
  BY DEF IInv, Typed, Sound, FieldsInv
<1>2. \A p \in Pools : mirror.pools[p] # None =>
         WellFormed(mirror.pools[p]) /\ PoolFollows(version, entries, p, mirror.pools[p])
  BY <1>1 DEF IInv, Typed, Sound, WellFormedPools, Follows
<1> QED
  BY <1>1, <1>2, EnsurePoolWellFormed, EnsurePoolFollows

\* Auctions and queued reserves show no emissions; each transition is told.
LEMMA TransitionFields ==
    ASSUME IInv, FieldsInv, NEW family, NEW id, NEW next, NEW v,
           Transition(family, id, next, v),
           next.pools = mirror.pools, next.users = mirror.users
    PROVE  FieldsInv'
<1> DEFINE said == [entries EXCEPT !.temporary[id] = v]
<1>1. version' = version /\ settled' = settled /\ committed' = committed
      /\ entries' = said /\ mirror' = next /\ phase = "applying"
      /\ touched' = touched \cup {id} /\ changed' = changed \cup {id}
  BY DEF Transition, Step, fixed
<1>2. /\ said.users = entries.users /\ said.config = entries.config
      /\ said.data = entries.data /\ said.split = entries.split
  BY <1>1, ApplyingFields DEF Entries
<1> HIDE DEF said
<1>3. Follows(version, entries, mirror) /\ touched = changed
  BY <1>1 DEF FieldsInv
<1>4. Follows(version, said, next)
  <2>1. \A k \in UserKeys : next.users[k] = said.users[k]
    BY <1>2, <1>3 DEF Follows
  <2> QED
    BY <1>2, <1>3, <2>1, PoolsUnmoved
<1> QED
  BY <1>1, <1>3, <1>4 DEF FieldsInv

LEMMA TemporaryFields ==
    ASSUME IInv, FieldsInv, TemporaryChange
    PROVE  FieldsInv'
<1>1. mirror \in LedgerState
  BY DEF IInv, Typed, Sound
<1>2. CASE MalformedWritten
  <2>1. Change("auction", mirror, entries) /\ phase = "applying"
    BY <1>2 DEF MalformedWritten, Change, Step
  <2> QED
    BY <2>1, ApplyingFields, ChangeFields
<1>3. ASSUME NEW k, NEW v, Transition("auction", k, [mirror EXCEPT !.auctions[k] = v], v)
      PROVE  FieldsInv'
  <2>1. /\ [mirror EXCEPT !.auctions[k] = v].pools = mirror.pools
        /\ [mirror EXCEPT !.auctions[k] = v].users = mirror.users
    BY <1>1 DEF LedgerState
  <2> QED
    BY <1>3, <2>1, TransitionFields
<1>4. ASSUME NEW k, NEW v, Transition("queued", k, [mirror EXCEPT !.queued[k] = v], v)
      PROVE  FieldsInv'
  <2>1. /\ [mirror EXCEPT !.queued[k] = v].pools = mirror.pools
        /\ [mirror EXCEPT !.queued[k] = v].users = mirror.users
    BY <1>1 DEF LedgerState
  <2> QED
    BY <1>4, <2>1, TransitionFields
<1> QED
  BY <1>2, <1>3, <1>4
     DEF TemporaryChange, AuctionGone, AuctionWritten, QueueResolved, ReserveQueued

\* A change about one pool.
LEMMA OnePoolFields ==
    ASSUME IInv, FieldsInv, NEW family, NEW p \in Pools, NEW next, NEW said,
           Change(family, next, said),
           next.users = mirror.users,
           said.users = entries.users,
           \A q \in Pools : q # p => /\ next.pools[q] = mirror.pools[q]
                                     /\ said.split[q] = entries.split[q],
           \A k \in TokenKeys : k[1] # p =>
                /\ SaidAccrual(said, k) = SaidAccrual(entries, k)
                /\ SaidRate(version, said, k) = SaidRate(version, entries, k),
           next.pools[p] # None => PoolFollows(version, said, p, next.pools[p])
    PROVE  FieldsInv'
<1>1. phase = "applying"
  BY DEF Change, Step
<1>2. Follows(version, entries, mirror)
  BY <1>1, ApplyingFields
<1>3. Follows(version, said, next)
  BY <1>2, OnePoolFollows
<1> QED
  BY <1>3, ChangeFields

\* The change replaces that pool of the mirror.
LEMMA PoolReplacedFields ==
    ASSUME IInv, FieldsInv, NEW family, NEW p \in Pools, NEW pool, NEW said,
           Change(family, [mirror EXCEPT !.pools[p] = pool], said),
           said.users = entries.users,
           \A q \in Pools : q # p => said.split[q] = entries.split[q],
           \A k \in TokenKeys : k[1] # p =>
                /\ SaidAccrual(said, k) = SaidAccrual(entries, k)
                /\ SaidRate(version, said, k) = SaidRate(version, entries, k),
           pool # None => PoolFollows(version, said, p, pool)
    PROVE  FieldsInv'
<1> DEFINE next == [mirror EXCEPT !.pools[p] = pool]
<1>1. phase = "applying"
  BY DEF Change, Step
<1>2. /\ next.users = mirror.users /\ next.pools[p] = pool
      /\ \A q \in Pools : q # p => next.pools[q] = mirror.pools[q]
  BY <1>1, ApplyingFields DEF LedgerState
<1> HIDE DEF next
<1>3. Change(family, next, said)
  BY DEF next
<1> QED
  BY <1>2, <1>3, OnePoolFields

LEMMA PoolFields ==
    ASSUME IInv, FieldsInv, PoolChange
    PROVE  FieldsInv'
<1>1. phase = "applying"
  BY DEF PoolChange, PoolSeen, PoolDeleted, ReservesSeen, ReserveConfigured, ReserveRemoved,
         ReserveLapsed, Change, Step
<1>2. \A p \in Pools :
         /\ WellFormed(EnsurePool(mirror.pools[p]))
         /\ PoolFollows(version, entries, p, EnsurePool(mirror.pools[p]))
         /\ mirror.pools[p] # None => /\ WellFormed(mirror.pools[p])
                                      /\ PoolFollows(version, entries, p, mirror.pools[p])
  BY <1>1, ApplyingFields
<1>3. ASSUME NEW p \in Pools, NEW family, NEW pool, pool # None => PoolFollows(version, entries, p, pool),
             Change(family, [mirror EXCEPT !.pools[p] = pool], entries)
      PROVE  FieldsInv'
  BY <1>3, PoolReplacedFields
<1>4. ASSUME NEW p \in Pools, PoolSeen(p) \/ PoolDeleted(p)
      PROVE  FieldsInv'
  BY <1>2, <1>3, <1>4 DEF PoolSeen, PoolDeleted
<1>5. ASSUME NEW p \in Pools, NEW seen, ReservesSeen(p, seen)
      PROVE  FieldsInv'
  <2>1. PoolFollows(version, entries, p, SeeReserves(EnsurePool(mirror.pools[p]), seen))
    BY <1>2, SeeReservesFollows
  <2> QED
    BY <1>3, <1>5, <2>1 DEF ReservesSeen
<1>6. ASSUME NEW p \in Pools, NEW a \in Assets, ReserveConfigured(p, a)
      PROVE  FieldsInv'
  <2>1. PoolFollows(version, entries, p, DeclareIndex(EnsurePool(mirror.pools[p]), a))
    BY <1>2, DeclareIndexFollows
  <2> QED
    BY <1>3, <1>6, <2>1 DEF ReserveConfigured
<1>7. ASSUME NEW p \in Pools, NEW a \in Assets, ReserveRemoved(p, a)
      PROVE  FieldsInv'
  <2> DEFINE pool == [mirror.pools[p] EXCEPT !.reserves[a] = None]
  <2>1. PoolFollows(version, entries, p, pool)
    BY <1>2, <1>7, ReserveGoneFollows DEF ReserveRemoved
  <2>2. Change("reserve", [mirror EXCEPT !.pools[p] = pool], entries)
    BY <1>7 DEF ReserveRemoved
  <2> HIDE DEF pool
  <2> QED
    BY <1>3, <2>1, <2>2
<1>8. ASSUME NEW p \in Pools, NEW a \in Assets, NEW declared \in BOOLEAN,
             ReserveLapsed(p, a, declared)
      PROVE  FieldsInv'
  <2> DEFINE pool == IF declared THEN DeclareIndex(mirror.pools[p], a)
                     ELSE SeeReserves(mirror.pools[p], {a})
  <2>1. PoolFollows(version, entries, p, pool)
    BY <1>2, <1>8, DeclareIndexFollows, SeeReservesFollows DEF ReserveLapsed
  <2>2. Change("reserve", [mirror EXCEPT !.pools[p] = pool], entries)
    BY <1>8 DEF ReserveLapsed
  <2> HIDE DEF pool
  <2> QED
    BY <1>3, <2>1, <2>2
<1> QED
  BY <1>4, <1>5, <1>6, <1>7, <1>8 DEF PoolChange

\* What an emission entry says moves its own token only: a ResConfig's,
LEMMA ConfigEntryMoves ==
    ASSUME NEW said \in Entries, NEW p \in Pools, NEW t \in Tokens,
           NEW v \in Amounts \cup {None}, NEW next, next = [said EXCEPT !.config[<<p, t>>] = v]
    PROVE  /\ next.users = said.users /\ next.split = said.split
           /\ EntryMoves(1, said, next, <<p, t>>, ConfigFields(v))
           /\ v = None => EntryMoves(1, said, next, <<p, t>>, ConfigCleared)
<1> DEFINE key == <<p, t>>
<1>1. key \in TokenKeys
  BY DEF TokenKeys
<1>2. /\ next.users = said.users /\ next.split = said.split /\ next.data = said.data
      /\ \A k \in TokenKeys : next.config[k] = IF k = key THEN v ELSE said.config[k]
  BY <1>1 DEF Entries
<1> HIDE DEF key
<1>3. EntryMoves(1, said, next, key, ConfigFields(v))
  BY <1>1, <1>2 DEF EntryMoves, SaidAccrual, SaidRate, ConfigFields
<1>4. v = None => EntryMoves(1, said, next, key, ConfigCleared)
  BY <1>1, <1>2 DEF EntryMoves, SaidAccrual, SaidRate, ConfigCleared
<1> QED
  BY <1>2, <1>3, <1>4 DEF key

\* and an EmisData's, in both versions of the pool.
LEMMA DataEntryMoves ==
    ASSUME NEW ver \in {1, 2}, NEW said \in Entries, NEW p \in Pools, NEW t \in Tokens,
           NEW v \in Amounts \cup {None}, NEW next, next = [said EXCEPT !.data[<<p, t>>] = v]
    PROVE  /\ next.users = said.users /\ next.split = said.split
           /\ EntryMoves(ver, said, next, <<p, t>>, DataFields(ver, v))
           /\ v = None => EntryMoves(ver, said, next, <<p, t>>, DataCleared)
<1> DEFINE key == <<p, t>>
<1>1. key \in TokenKeys
  BY DEF TokenKeys
<1>2. /\ next.users = said.users /\ next.split = said.split /\ next.config = said.config
      /\ \A k \in TokenKeys : next.data[k] = IF k = key THEN v ELSE said.data[k]
  BY <1>1 DEF Entries
<1> HIDE DEF key
<1>3. EntryMoves(ver, said, next, key, DataFields(ver, v))
  <2>1. CASE ver = 1
    BY <1>1, <1>2, <2>1 DEF EntryMoves, SaidAccrual, SaidRate, DataFields
  <2>2. CASE ver = 2
    BY <1>1, <1>2, <2>2 DEF EntryMoves, SaidAccrual, SaidRate, DataFields
  <2> QED
    BY <2>1, <2>2
<1>4. v = None => EntryMoves(ver, said, next, key, DataCleared)
  BY <1>1, <1>2 DEF EntryMoves, SaidAccrual, SaidRate, DataCleared
<1> QED
  BY <1>2, <1>3, <1>4 DEF key

\* An emission entry is written on a side, or clears it in a pool that is there.
LEMMA SideFields ==
    ASSUME IInv, FieldsInv, NEW p \in Pools, NEW t \in Tokens, NEW fields, NEW said,
           \/ Change("emission",
                     [mirror EXCEPT !.pools[p] = UpdateSide(EnsurePool(mirror.pools[p]), t, fields)],
                     said)
           \/ Change("emission", ClearSide(p, t, fields), said),
           said.users = entries.users, said.split = entries.split,
           EntryMoves(version, entries, said, <<p, t>>, fields)
    PROVE  FieldsInv'
<1>1. phase = "applying"
  BY DEF Change, Step
<1>2. \A k \in TokenKeys : k[1] # p => /\ SaidAccrual(said, k) = SaidAccrual(entries, k)
                                       /\ SaidRate(version, said, k) = SaidRate(version, entries, k)
  BY DEF EntryMoves
<1>3. CASE Change("emission",
                  [mirror EXCEPT !.pools[p] = UpdateSide(EnsurePool(mirror.pools[p]), t, fields)],
                  said)
  <2>1. PoolFollows(version, said, p, UpdateSide(EnsurePool(mirror.pools[p]), t, fields))
    BY <1>1, ApplyingFields, UpdateSideFollows
  <2> QED
    BY <1>2, <1>3, <2>1, PoolReplacedFields
<1>4. CASE Change("emission", ClearSide(p, t, fields), said) /\ mirror.pools[p] = None
  <2>1. ClearSide(p, t, fields) = mirror
    BY <1>4 DEF ClearSide
  <2> QED
    BY <1>2, <1>4, <2>1, OnePoolFields
<1>5. CASE Change("emission", ClearSide(p, t, fields), said) /\ mirror.pools[p] # None
  <2>1. ClearSide(p, t, fields) = [mirror EXCEPT !.pools[p] = UpdateSide(mirror.pools[p], t, fields)]
    BY <1>5 DEF ClearSide
  <2>2. PoolFollows(version, said, p, UpdateSide(mirror.pools[p], t, fields))
    BY <1>1, <1>5, ApplyingFields, UpdateSideFollows
  <2> QED
    BY <1>2, <1>5, <2>1, <2>2, PoolReplacedFields
<1> QED
  BY <1>3, <1>4, <1>5

LEMMA EmissionFields ==
    ASSUME IInv, FieldsInv, EmissionChange
    PROVE  FieldsInv'
<1>1. phase = "applying"
  BY DEF EmissionChange, UserEmissionGone, UserEmissionWritten, EmisConfigGone, EmisDataGone,
         EmisConfigWritten, EmisDataWritten, PoolEmisGone, PoolEmisWritten, Change, Step
<1>2. entries \in Entries /\ mirror \in LedgerState /\ version \in {1, 2}
      /\ Follows(version, entries, mirror)
  BY <1>1, ApplyingFields
<1>3. ASSUME NEW k \in UserKeys, NEW v \in Amounts \cup {None},
             Change("user emission", [mirror EXCEPT !.users[k] = v],
                    [entries EXCEPT !.users[k] = v])
      PROVE  FieldsInv'
  <2> DEFINE next == [mirror EXCEPT !.users[k] = v]
             said == [entries EXCEPT !.users[k] = v]
  <2>1. /\ next.pools = mirror.pools
        /\ \A j \in UserKeys : next.users[j] = IF j = k THEN v ELSE mirror.users[j]
    BY <1>2 DEF LedgerState
  <2>2. /\ said.config = entries.config /\ said.data = entries.data /\ said.split = entries.split
        /\ \A j \in UserKeys : said.users[j] = IF j = k THEN v ELSE entries.users[j]
    BY <1>2 DEF Entries
  <2> HIDE DEF next, said
  <2>3. Follows(version, said, next)
    <3>1. \A j \in UserKeys : next.users[j] = said.users[j]
      BY <1>2, <2>1, <2>2 DEF Follows
    <3> QED
      BY <1>2, <2>1, <2>2, <3>1, PoolsUnmoved
  <2>4. Change("user emission", next, said)
    BY <1>3 DEF next, said
  <2> QED
    BY <2>3, <2>4, ChangeFields
<1>4. ASSUME NEW p \in Pools, NEW t \in Tokens, NEW v \in Amounts, EmisConfigWritten(p, t, v)
      PROVE  FieldsInv'
  <2> DEFINE said == [entries EXCEPT !.config[<<p, t>>] = v]
             fields == ConfigFields(v)
             pool == UpdateSide(EnsurePool(mirror.pools[p]), t, fields)
  <2>1. /\ said.users = entries.users /\ said.split = entries.split
        /\ EntryMoves(version, entries, said, <<p, t>>, fields)
    <3>1. said = [entries EXCEPT !.config[<<p, t>>] = v] /\ v \in Amounts \cup {None}
      OBVIOUS
    <3>2. fields = ConfigFields(v)
      OBVIOUS
    <3>3. version = 1
      BY <1>4 DEF EmisConfigWritten
    <3> HIDE DEF said, fields
    <3> QED
      BY <1>2, <3>1, <3>2, <3>3, ConfigEntryMoves
  <2>2. Change("emission", [mirror EXCEPT !.pools[p] = pool], said)
    BY <1>4 DEF EmisConfigWritten
  <2> HIDE DEF said, fields
  <2> QED
    BY <2>1, <2>2, SideFields
<1>5. ASSUME NEW p \in Pools, NEW t \in Tokens, NEW v \in Amounts, EmisDataWritten(p, t, v)
      PROVE  FieldsInv'
  <2> DEFINE said == [entries EXCEPT !.data[<<p, t>>] = v]
             fields == DataFields(version, v)
             pool == UpdateSide(EnsurePool(mirror.pools[p]), t, fields)
  <2>1. /\ said.users = entries.users /\ said.split = entries.split
        /\ EntryMoves(version, entries, said, <<p, t>>, fields)
    <3>1. said = [entries EXCEPT !.data[<<p, t>>] = v] /\ v \in Amounts \cup {None}
      OBVIOUS
    <3>2. fields = DataFields(version, v)
      OBVIOUS
    <3> HIDE DEF said, fields
    <3> QED
      BY <1>2, <3>1, <3>2, DataEntryMoves
  <2>2. Change("emission", [mirror EXCEPT !.pools[p] = pool], said)
    BY <1>5 DEF EmisDataWritten
  <2> HIDE DEF said, fields
  <2> QED
    BY <2>1, <2>2, SideFields
<1>6. ASSUME NEW p \in Pools, NEW t \in Tokens, EmisConfigGone(p, t)
      PROVE  FieldsInv'
  <2> DEFINE said == [entries EXCEPT !.config[<<p, t>>] = None]
             fields == ConfigCleared
  <2>1. /\ said.users = entries.users /\ said.split = entries.split
        /\ EntryMoves(version, entries, said, <<p, t>>, fields)
    <3>1. said = [entries EXCEPT !.config[<<p, t>>] = None] /\ None \in Amounts \cup {None}
      OBVIOUS
    <3>2. fields = ConfigCleared
      OBVIOUS
    <3>3. version = 1
      BY <1>6 DEF EmisConfigGone
    <3> HIDE DEF said, fields
    <3> QED
      BY <1>2, <3>1, <3>2, <3>3, ConfigEntryMoves
  <2>2. Change("emission", ClearSide(p, t, fields), said)
    BY <1>6 DEF EmisConfigGone
  <2> HIDE DEF said, fields
  <2> QED
    BY <2>1, <2>2, SideFields
<1>7. ASSUME NEW p \in Pools, NEW t \in Tokens, EmisDataGone(p, t)
      PROVE  FieldsInv'
  <2> DEFINE said == [entries EXCEPT !.data[<<p, t>>] = None]
             fields == DataCleared
  <2>1. /\ said.users = entries.users /\ said.split = entries.split
        /\ EntryMoves(version, entries, said, <<p, t>>, fields)
    <3>1. said = [entries EXCEPT !.data[<<p, t>>] = None] /\ None \in Amounts \cup {None}
      OBVIOUS
    <3>2. fields = DataCleared
      OBVIOUS
    <3> HIDE DEF said, fields
    <3> QED
      BY <1>2, <3>1, <3>2, DataEntryMoves
  <2>2. Change("emission", ClearSide(p, t, fields), said)
    BY <1>7 DEF EmisDataGone
  <2> HIDE DEF said, fields
  <2> QED
    BY <2>1, <2>2, SideFields
<1>8. ASSUME NEW p \in Pools, NEW v \in Amounts \cup {None}
      PROVE  LET said == [entries EXCEPT !.split[p] = v]
             IN  /\ said.users = entries.users
                 /\ said.split[p] = v
                 /\ \A q \in Pools : q # p => said.split[q] = entries.split[q]
                 /\ \A k \in TokenKeys : /\ SaidAccrual(said, k) = SaidAccrual(entries, k)
                                         /\ SaidRate(version, said, k) = SaidRate(version, entries, k)
  BY <1>2 DEF Entries, SaidAccrual, SaidRate
<1>9. ASSUME NEW p \in Pools, NEW v \in Amounts, PoolEmisWritten(p, v)
      PROVE  FieldsInv'
  <2> DEFINE said == [entries EXCEPT !.split[p] = v]
             pool == [EnsurePool(mirror.pools[p]) EXCEPT !.split = v]
  <2>1. WellFormed(EnsurePool(mirror.pools[p]))
        /\ PoolFollows(version, entries, p, EnsurePool(mirror.pools[p]))
    BY <1>1, ApplyingFields
  <2>2. Change("pool", [mirror EXCEPT !.pools[p] = pool], said)
    BY <1>9 DEF PoolEmisWritten
  <2>3. /\ said.users = entries.users
        /\ \A q \in Pools : q # p => said.split[q] = entries.split[q]
        /\ \A k \in TokenKeys : /\ SaidAccrual(said, k) = SaidAccrual(entries, k)
                                /\ SaidRate(version, said, k) = SaidRate(version, entries, k)
    BY <1>8
  <2>4. said.split[p] = v
    BY <1>8
  <2> HIDE DEF said
  <2>5. PoolFollows(version, said, p, pool)
    BY <2>1, <2>3, <2>4, SplitFollows
  <2> HIDE DEF pool
  <2> QED
    BY <2>2, <2>3, <2>5, PoolReplacedFields
<1>10. ASSUME NEW p \in Pools, PoolEmisGone(p)
       PROVE  FieldsInv'
  <2> DEFINE said == [entries EXCEPT !.split[p] = None]
             pool == [mirror.pools[p] EXCEPT !.split = None]
  <2>1. /\ said.users = entries.users
        /\ \A q \in Pools : q # p => said.split[q] = entries.split[q]
        /\ \A k \in TokenKeys : /\ SaidAccrual(said, k) = SaidAccrual(entries, k)
                                /\ SaidRate(version, said, k) = SaidRate(version, entries, k)
    BY <1>8
  <2>2. CASE mirror.pools[p] = None
    <3>1. Change("pool", mirror, said)
      BY <1>10, <2>2 DEF PoolEmisGone
    <3> HIDE DEF said
    <3> QED
      BY <2>1, <2>2, <3>1, OnePoolFields
  <2>3. CASE mirror.pools[p] # None
    <3>1. PoolFollows(version, said, p, pool)
      BY <1>1, <1>8, <2>3, ApplyingFields, SplitFollows
    <3>2. Change("pool", [mirror EXCEPT !.pools[p] = pool], said)
      <4>1. [mirror EXCEPT !.pools[p].split = None] = [mirror EXCEPT !.pools[p] = pool]
        OBVIOUS
      <4> QED
        BY <1>10, <2>3, <4>1 DEF PoolEmisGone
    <3> HIDE DEF said, pool
    <3> QED
      BY <2>1, <3>1, <3>2, PoolReplacedFields
  <2> QED
    BY <2>2, <2>3
<1> QED
  BY <1>3, <1>4, <1>5, <1>6, <1>7, <1>9, <1>10
     DEF EmissionChange, UserEmissionGone, UserEmissionWritten

LEMMA NextFields ==
    ASSUME IInv, FieldsInv, [Next]_vars
    PROVE  FieldsInv'
<1>1. CASE BeginLedger
  <2>1. /\ phase = "idle" /\ version' = version /\ settled' = settled /\ entries' = entries
        /\ committed' = committed /\ mirror' = committed /\ touched' = {} /\ changed' = {}
    BY <1>1 DEF BeginLedger, fixed, Continues, IInv, IdleSettled
  <2>2. entries = settled
    BY <2>1 DEF IInv, IdleSettled
  <2> QED
    BY <2>1, <2>2 DEF FieldsInv
<1>2. CASE EndLedger
  BY <1>2 DEF EndLedger, fixed, FieldsInv
<1>3. CASE Commit
  BY <1>3 DEF Commit, fixed, FieldsInv
<1>4. CASE DropResult \/ Restart
  BY <1>4 DEF DropResult, Restart, Abandon, fixed, FieldsInv
<1>5. CASE UNCHANGED vars
  BY <1>5 DEF vars, FieldsInv
<1> QED
  BY <1>1, <1>2, <1>3, <1>4, <1>5, TemporaryFields, EmissionFields, PoolFields DEF Next

LEMMA FieldsInvariance == Spec => [](IInv /\ FieldsInv)
<1>1. Init => IInv /\ FieldsInv
  BY InitIInv, InitFields
<1>2. IInv /\ FieldsInv /\ [Next]_vars => (IInv /\ FieldsInv)'
  BY NextKeepsIInv, NextFields
<1> QED
  BY <1>1, <1>2, PTL DEF Spec

\* The transitions a decode reports are those of the identities its ledger's
\* changes name, each by how its entry ends, none left over from a dropped or
\* an earlier ledger (finalizeTemporaryStateChanges).
THEOREM TransitionsAreExact == Spec => []TransitionsExact
<1>1. ASSUME IInv, FieldsInv, phase = "returned"
      PROVE  Told = {[id |-> id, action |-> IF entries.temporary[id] # None
                                            THEN "upsert" ELSE "removal"] : id \in changed}
  <2>1. touched = changed /\ touched \subseteq Ids
    BY <1>1 DEF IInv, Typed, FieldsInv
  <2>2. \A id \in touched : Held(mirror, id) = entries.temporary[id]
    BY <1>1, <2>1 DEF IInv, MirrorFollows
  <2> QED
    BY <2>1, <2>2 DEF Told, Transitions
<1>2. IInv /\ FieldsInv => TransitionsExact
  BY <1>1 DEF TransitionsExact
<1> QED
  BY <1>2, FieldsInvariance, PTL

\* Every emission field shown of a side is what the live entry of its own token
\* says, through reserves that come before their ResConfig, lapse and return:
\* never another side's, another asset's or a lost entry's (applyReserveEmis,
\* reserveByIndex, applyDelete).
THEOREM EmissionsAreTheEntries == Spec => []EmissionsFollowEntries
<1>1. ASSUME IInv, FieldsInv, phase = "idle", NEW p \in Pools, committed.pools[p] # None
      PROVE  PoolFollows(version, entries, p, committed.pools[p])
  BY <1>1 DEF IInv, IdleSettled, FieldsInv, Follows
<1>2. ASSUME IInv, FieldsInv, phase = "idle", NEW p \in Pools, committed.pools[p] # None,
             NEW a \in Assets, NEW side \in {0, 1}, committed.pools[p].reserves[a] # None
      PROVE  SideFollows(version, entries, <<p, TokenOf(a, side)>>,
                         committed.pools[p].reserves[a], side)
  BY <1>1, <1>2 DEF PoolFollows
<1>3. ASSUME IInv, FieldsInv, phase = "idle", NEW p \in Pools, committed.pools[p] # None
      PROVE  committed.pools[p].split \in {None, entries.split[p]}
  BY <1>1, <1>3 DEF PoolFollows
<1>4. ASSUME IInv, FieldsInv, phase = "idle", NEW p \in Pools, committed.pools[p] # None,
             NEW a \in Assets, NEW side \in {0, 1}
      PROVE  LET reserve == committed.pools[p].reserves[a]
                 key     == <<p, TokenOf(a, side)>>
             IN  reserve # None =>
                 /\ reserve.emis[side].accrual # None =>
                       key \in TokenKeys /\ reserve.emis[side].accrual = entries.data[key]
                 /\ reserve.emis[side].rate # None =>
                       /\ key \in TokenKeys
                       /\ reserve.emis[side].rate \in
                             (IF version = 1 THEN {entries.config[key]}
                              ELSE {entries.data[key]})
  <2> DEFINE reserve == committed.pools[p].reserves[a]
             key     == <<p, TokenOf(a, side)>>
  <2>1. reserve # None => SideFollows(version, entries, key, reserve, side)
    BY <1>2, <1>4
  <2> HIDE DEF reserve, key
  <2>2. reserve # None =>
           /\ reserve.emis[side].accrual # None =>
                 key \in TokenKeys /\ reserve.emis[side].accrual = entries.data[key]
           /\ reserve.emis[side].rate # None =>
                 /\ key \in TokenKeys
                 /\ reserve.emis[side].rate \in
                       (IF version = 1 THEN {entries.config[key]} ELSE {entries.data[key]})
    BY <2>1 DEF SideFollows, SaidAccrual, SaidRate
  <2> QED
    BY <2>2 DEF reserve, key
<1>5. IInv /\ FieldsInv => EmissionsFollowEntries
  BY <1>3, <1>4, Zenon DEF EmissionsFollowEntries
<1> QED
  BY <1>5, FieldsInvariance, PTL

\* A user's accrual is shown as last written, under the asset its token belongs
\* to or under none, whatever indexes are known (computeState, reserveByIndex).
THEOREM UserEmissionsAreAttributed == Spec => []UserEmissionsAttributed
<1>1. ASSUME IInv, FieldsInv, phase = "idle", NEW k \in UserKeys
      PROVE  committed.users[k] = entries.users[k]
  BY <1>1 DEF IInv, IdleSettled, FieldsInv, Follows
<1>2. ASSUME IInv, NEW k \in UserKeys
      PROVE  LET asset == IF committed.pools[k[2]] = None THEN None
                          ELSE ReserveByIndex(committed.pools[k[2]], k[3] \div 2)
             IN  asset # None => IndexOf[asset] = k[3] \div 2
  <2>1. k[2] \in Pools
    BY DEF UserKeys
  <2>2. committed.pools[k[2]] # None => WellFormed(committed.pools[k[2]])
    BY <1>2, <2>1 DEF IInv, Typed, Sound, WellFormedPools
  <2> QED
    BY <2>2, ResolvedIsOwner
<1>3. ASSUME IInv, NEW row \in UserEmissionRows(committed), row.asset # None
      PROVE  IndexOf[row.asset] = row.key[3] \div 2
  <2>1. PICK k \in UserKeys :
           row = [key |-> k, amount |-> committed.users[k],
                  asset |-> IF committed.pools[k[2]] = None THEN None
                            ELSE ReserveByIndex(committed.pools[k[2]], k[3] \div 2)]
    BY <1>3 DEF UserEmissionRows
  <2> QED
    BY <1>2, <1>3, <2>1
<1>4. IInv /\ FieldsInv => UserEmissionsAttributed
  BY <1>1, <1>3 DEF UserEmissionsAttributed
<1> QED
  BY <1>4, FieldsInvariance, PTL
=============================================================================
