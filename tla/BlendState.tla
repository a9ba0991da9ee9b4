------------------------------ MODULE BlendState ------------------------------
(***************************************************************************)
(* The data of Blend's contract_data reducer (blend/state.go) that decides *)
(* what a lending user owns: pools, their reserves with the reserve index  *)
(* each one claims, and every user's raw Positions blob.                   *)
(*                                                                         *)
(* A mirror is the in-memory blendStateBuilder; a state is the             *)
(* LedgerState handed to the caller.  The operators below are the cases of *)
(* apply / applyDelete as functions from mirror to mirror, the index       *)
(* resolution every row goes through, and the two directions of the        *)
(* per-ledger round trip (Build, LoadPrior).  They are shared by the two   *)
(* decode strategies, as the Go code shares the builder between them.      *)
(*                                                                         *)
(* Abstraction: a Positions blob is the function from reserve index to     *)
(* amount that positionsFromMap reads (0: no leg); the three leg kinds     *)
(* (supply, collateral, liability) resolve alike and are one; a reserve    *)
(* keeps its index and archived flag, not its rates.                       *)
(***************************************************************************)
EXTENDS Naturals

CONSTANTS
    Users, Pools, Assets,
    Indexes,        \* reserve indexes a ResConfig or a position leg may carry
    Blobs,          \* decodable Positions values
    LapsedValues,   \* what a not-live Positions change may carry
    Undecodable,    \* a value the ScVal decoder rejects
    None            \* absent entry, unresolved index, missing value

Pairs == Users \X Pools

User(pair) == pair[1]
Pool(pair) == pair[2]

\* A reserve index is None until a ResConfig has been decoded.
Reserve == [index : Indexes \cup {None}, archived : BOOLEAN]

\* valueXDR is "" (Undecodable) when an archive never saw a readable blob.
Position == [blob : Blobs \cup {Undecodable}, archived : BOOLEAN]

ReserveIndex == [Indexes -> Assets \cup {None}]

Row == [asset : Assets, amount : Nat, archived : BOOLEAN]

ASSUME BlobsAssumption ==
    /\ Blobs \subseteq [Indexes -> Nat]
    /\ Undecodable \notin Blobs
    /\ LapsedValues \subseteq Blobs \cup {Undecodable, None}

ASSUME NoneAssumption ==
    /\ None \notin Assets
    /\ None \notin Indexes
    /\ None \notin Blobs
    /\ None # Undecodable
    /\ None \notin Reserve
    /\ None \notin Position
    /\ None \notin ReserveIndex

Mirror == [live     : SUBSET Pools,
           reserves : [Pools -> [Assets -> Reserve \cup {None}]],
           pending  : [Pairs -> Position \cup {None}],
           touched  : SUBSET Pairs]

LedgerState == [live     : SUBSET Pools,
                reserves : [Pools -> [Assets -> Reserve \cup {None}]],
                pending  : [Pairs -> Position \cup {None}],
                rows     : [Pairs -> SUBSET Row]]

NoReserves == [a \in Assets |-> None]

EmptyMirror == [live     |-> {},
                reserves |-> [p \in Pools |-> NoReserves],
                pending  |-> [k \in Pairs |-> None],
                touched  |-> {}]

EmptyState == [live     |-> {},
               reserves |-> [p \in Pools |-> NoReserves],
               pending  |-> [k \in Pairs |-> None],
               rows     |-> [k \in Pairs |-> {}]]

-----------------------------------------------------------------------------
(* Index resolution.                                                       *)

\* The assets of a pool whose decoded ResConfig claims index i.
Claimants(reserves, i) ==
    {a \in Assets : reserves[a] # None /\ reserves[a].index = i}

\* Reserves materialised by ResData or ResList alone: no index yet.
UnknownIndexAssets(reserves) ==
    {a \in Assets : reserves[a] # None /\ reserves[a].index = None}

\* Mutant: a duplicate index is published for one of its claimants.
ReserveByIndexWithWinner(reserves) ==
    [i \in Indexes |-> IF Claimants(reserves, i) # {}
                       THEN CHOOSE a \in Assets : a \in Claimants(reserves, i)
                       ELSE None]

\* finalizePoolReserves / publishedReserveIndexes: only an index that is
\* known and claimed by exactly one reserve is published.
ReserveByIndex(reserves) ==
    [i \in Indexes |-> IF \E a \in Assets : Claimants(reserves, i) = {a}
                       THEN CHOOSE a \in Assets : Claimants(reserves, i) = {a}
                       ELSE None]

\* The published mapping of a pool, None for a pool the mirror does not hold.
\* s is a mirror or a state: both carry live and reserves.
PoolIndex(s, p) == IF p \in s.live THEN ReserveByIndex(s.reserves[p]) ELSE None

PoolIndexes(s) == [p \in Pools |-> PoolIndex(s, p)]

Legs(position) ==
    IF position.blob = Undecodable THEN {}
    ELSE {i \in Indexes : position.blob[i] # 0}

\* positionsFromMap: the legs that resolve through the published mapping.
\* An unresolved leg is skipped, never guessed.
Resolve(index, position) ==
    IF index = None \/ position = None THEN {}
    ELSE {[asset    |-> index[i],
           amount   |-> position.blob[i],
           archived |-> position.archived] :
              i \in {j \in Legs(position) : index[j] # None}}

\* positionSkipSink.skip: the record of one skipped leg, naming the assets the
\* leg may belong to.
Skip(reserves, pair, i) ==
    LET duplicate == Claimants(reserves, i) # {}
    IN  [pair       |-> pair,
         index      |-> i,
         code       |-> IF duplicate THEN "duplicate_reserve_index"
                                     ELSE "unmapped_reserve_index",
         candidates |-> IF duplicate THEN Claimants(reserves, i)
                                     ELSE UnknownIndexAssets(reserves)]

\* Mutant: a leg with no candidate asset is skipped silently.
SkippedLegsWithCandidates(reserves, position) ==
    {i \in Legs(position) : /\ ReserveByIndex(reserves)[i] = None
                            /\ Claimants(reserves, i) \cup UnknownIndexAssets(reserves) # {}}

SkippedLegs(reserves, position) ==
    {i \in Legs(position) : ReserveByIndex(reserves)[i] = None}

Diagnostics(mirror, pair) ==
    LET reserves == mirror.reserves[Pool(pair)]
        position == mirror.pending[pair]
    IN  IF Pool(pair) \notin mirror.live \/ position = None THEN {}
        ELSE {Skip(reserves, pair, i) : i \in SkippedLegs(reserves, position)}

-----------------------------------------------------------------------------
(* The per-ledger round trip.                                              *)

\* build: the typed state of a mirror.
Build(mirror) ==
    [live     |-> mirror.live,
     reserves |-> mirror.reserves,
     pending  |-> mirror.pending,
     rows     |-> [k \in Pairs |-> Resolve(PoolIndex(mirror, Pool(k)),
                                           mirror.pending[k])]]

\* loadPrior: a pending blob that does not decode is dropped.
LoadPending(position) ==
    IF position # None /\ position.blob = Undecodable THEN None ELSE position

LoadPrior(state) ==
    [live     |-> state.live,
     reserves |-> state.reserves,
     pending  |-> [k \in Pairs |-> LoadPending(state.pending[k])],
     touched  |-> {}]

\* finalizeDirtyPositions: an upsert still has a pending entry after the
\* decode, a removal has none.
DirtyKinds(touched, pending) ==
    {[pair |-> k, kind |-> IF pending[k] = None THEN "removal" ELSE "upsert"] :
        k \in touched}

-----------------------------------------------------------------------------
(* apply / applyDelete, one operator per storage entry and outcome.        *)

EnsureReserve(reserve) ==
    IF reserve = None THEN [index |-> None, archived |-> FALSE] ELSE reserve

\* A live pool instance, Config, Backstop or PoolEmis entry (ensurePool).
WritePool(m, p) == [m EXCEPT !.live = @ \cup {p}]

\* Mutant: the pool goes, its reserves stay behind.
DeletePoolOnly(m, p) == [m EXCEPT !.live = @ \ {p}]

\* A not-live Config or ResList entry, whatever made it not-live.
DeletePool(m, p) ==
    [m EXCEPT !.live = @ \ {p}, !.reserves[p] = NoReserves]

\* A live ResList: every listed asset gets a reserve, none gets an index.
ListReserves(m, p, listed) ==
    [m EXCEPT !.live = @ \cup {p},
              !.reserves[p] = [a \in Assets |-> IF a \in listed
                                                THEN EnsureReserve(@[a])
                                                ELSE @[a]]]

\* A live ResConfig: the only authority on a reserve's index.
ConfigureReserve(m, p, a, i) ==
    [m EXCEPT !.live = @ \cup {p},
              !.reserves[p][a] = [index |-> i, archived |-> FALSE]]

\* A live ResData.
UpdateReserveData(m, p, a) ==
    [m EXCEPT !.live = @ \cup {p},
              !.reserves[p][a] = [index    |-> EnsureReserve(@).index,
                                 archived |-> FALSE]]

\* ResConfig or ResData removed on chain.
RemoveReserve(m, p, a) ==
    IF p \in m.live THEN [m EXCEPT !.reserves[p][a] = None] ELSE m

\* Mutant: a lapsed reserve is dropped like a removed one.
ArchiveReserveByDropping(m, p, a, i) == RemoveReserve(m, p, a)

\* ResConfig or ResData lapsed or evicted: kept, flagged, with the index of
\* the value the change still carries (None: no ResConfig value).
ArchiveReserve(m, p, a, i) ==
    IF p \in m.live
    THEN [m EXCEPT !.reserves[p][a] =
             [index    |-> IF i = None THEN EnsureReserve(@).index ELSE i,
              archived |-> TRUE]]
    ELSE m

\* A live Positions entry.
WritePositions(m, pair, blob) ==
    [m EXCEPT !.pending[pair] = [blob |-> blob, archived |-> FALSE],
              !.touched = @ \cup {pair}]

\* A Positions entry removed on chain.
RemovePositions(m, pair) ==
    [m EXCEPT !.pending[pair] = None, !.touched = @ \cup {pair}]

\* A Positions entry lapsed (value may survive) or evicted (value None): the
\* last readable blob is kept; with neither a value nor a prior entry there is
\* nothing to archive, but the pair is already marked.
LastKnown(position, value) ==
    IF value \in Blobs THEN value
    ELSE IF position # None THEN position.blob ELSE Undecodable

\* Mutant: an evicted entry (no value left) is purged.
ArchivePositionsWithValue(m, pair, value) ==
    IF value = None THEN RemovePositions(m, pair)
    ELSE [m EXCEPT !.pending[pair] = [blob |-> LastKnown(@, value), archived |-> TRUE],
                   !.touched = @ \cup {pair}]

ArchivePositions(m, pair, value) ==
    IF value = None /\ m.pending[pair] = None
    THEN [m EXCEPT !.touched = @ \cup {pair}]
    ELSE [m EXCEPT !.pending[pair] = [blob |-> LastKnown(@, value),
                                      archived |-> TRUE],
                   !.touched = @ \cup {pair}]
=============================================================================
