------------------------ MODULE BlendIncremental_proofs ------------------------
(***************************************************************************)
(* The incremental decode implements the reference one, for any number of  *)
(* users, pools, assets, indexes and changes of a ledger, provided the     *)
(* values lapsed entries carry decode.                                     *)
(*                                                                         *)
(* The argument is the one the code's comments make.  Between ledgers the  *)
(* carried mirror is a reload of the last output; the caches describe that *)
(* output until the snapshot replaces both; and while changes are applied  *)
(* an unmarked pair's entry is still the one of the output.  The snapshot  *)
(* may then take an unmarked, uninvalidated pair from the cache.           *)
(***************************************************************************)
EXTENDS BlendIncremental, BlendParanoid_proofs

Untouched ==
    phase = "applying" =>
        /\ out = prior
        /\ \A k \in Pairs \ mirror.touched : mirror.pending[k] = out.pending[k]
        /\ Readable(mirror.pending)

IncInv ==
    /\ TypeOK
    /\ carried \in BOOLEAN
    /\ CarriedMirrorIsReload
    /\ CacheDescribesState
    /\ Untouched
    /\ Readable(prior.pending) /\ Readable(out.pending)

-----------------------------------------------------------------------------
LEMMA InitIncInv == IncrementalInit => IncInv
<1>1. Readable(EmptyState.pending)
  BY DEF Readable, EmptyState
<1> SUFFICES ASSUME IncrementalInit
             PROVE  IncInv
  OBVIOUS
<1>2. TypeOK
  BY EmptyTypes, MaxChangesAssumption DEF IncrementalInit, InitDecode, TypeOK
<1> QED
  BY <1>1, <1>2
     DEF IncrementalInit, InitDecode, IncInv, CarriedMirrorIsReload, CacheDescribesState, Untouched

\* A reload of a returned state has nothing marked and that state's entries.
LEMMA ReloadUntouched ==
  ASSUME NEW s \in LedgerState, Readable(s.pending)
  PROVE  LoadPrior(s).pending = s.pending /\ LoadPrior(s).touched = {}
  BY LoadPriorType DEF LoadPrior

LEMMA ContinueIncInv ==
  ASSUME IncInv, Continue
  PROVE  IncInv'
<1>1. /\ carried /\ phase = "idle" /\ phase' = "applying"
      /\ prior' = out /\ out' = out /\ dirty' = {} /\ diagnostics' = {}
      /\ applied' = 0 /\ purged' = {} /\ rewired' = {}
      /\ UNCHANGED <<mirror, carried, cache, poolIndexes>>
  BY DEF Continue, StartDecode
<1>2. mirror = LoadPrior(out)
  BY <1>1 DEF IncInv, CarriedMirrorIsReload
<1>3. TypeOK'
  BY <1>1, MaxChangesAssumption DEF IncInv, TypeOK, PoollessHaveNoReserves
<1>4. Untouched'
  BY <1>1, <1>2, ReloadUntouched DEF IncInv, TypeOK, Untouched
<1>5. CacheDescribesState'
  BY <1>1 DEF IncInv, CacheDescribesState
<1> QED
  BY <1>1, <1>3, <1>4, <1>5 DEF IncInv, CarriedMirrorIsReload

LEMMA ReseedIncInv ==
  ASSUME IncInv, NEW base \in {prior, out}, Reseed(base)
  PROVE  IncInv'
<1>1. /\ phase = "idle" /\ phase' = "applying"
      /\ prior' = base /\ out' = base /\ dirty' = {} /\ diagnostics' = {}
      /\ applied' = 0 /\ purged' = {} /\ rewired' = {}
      /\ carried' = FALSE /\ mirror' = LoadPrior(base)
      /\ cache' = [k \in Pairs |-> Entry(LoadPrior(base), k)]
      /\ poolIndexes' = PoolIndexes(LoadPrior(base))
  BY DEF Reseed, StartDecode
<1>2. base \in LedgerState /\ Readable(base.pending) /\ PoollessHaveNoReserves(base)
  BY DEF IncInv, TypeOK
<1>3. TypeOK'
  BY <1>1, <1>2, LoadPriorType, MaxChangesAssumption DEF TypeOK
<1>4. Untouched'
  BY <1>1, <1>2, ReloadUntouched DEF Untouched
<1>5. CacheDescribesState'
  <2>1. PoolIndexes(LoadPrior(base)) = PoolIndexes(base)
    BY <1>2, LoadPriorType DEF PoolIndexes
  <2>2. ASSUME NEW k \in Pairs
        PROVE  PoolIndex(LoadPrior(base), Pool(k)) = PoolIndex(base, Pool(k))
    BY <1>2, LoadPriorType DEF Pairs, Pool
  <2> QED
    BY <1>1, <1>2, <2>1, <2>2, ReloadUntouched DEF CacheDescribesState, Entry
<1> QED
  BY <1>1, <1>2, <1>3, <1>4, <1>5 DEF IncInv, CarriedMirrorIsReload

LEMMA ChangeIncInv ==
  ASSUME DecodableLapses, IncInv, Change
  PROVE  IncInv'
<1>1. ApplyChange /\ TypeOK /\ UNCHANGED <<carried, cache, poolIndexes>>
  BY DEF Change, IncInv
<1>2. phase = "applying" /\ UNCHANGED <<phase, prior, out>>
  BY <1>1, ChangeFrame DEF TypeOK
<1>3. TypeOK'
  BY <1>1, ApplyChangeTypeOK
<1>4. Evolves(mirror, mirror')
  BY <1>1, ChangeEvolves DEF TypeOK
<1>5. Readable(mirror'.pending)
  BY <1>1, <1>2, ChangeKeepsReadable DEF TypeOK, IncInv, Untouched
<1>6. Untouched'
  BY <1>2, <1>4, <1>5 DEF IncInv, Untouched, Evolves
<1> QED
  BY <1>1, <1>2, <1>3, <1>6 DEF IncInv, CarriedMirrorIsReload, CacheDescribesState

-----------------------------------------------------------------------------
LEMMA EntryIsNotNone ==
  ASSUME NEW m \in LedgerState \cup Mirror, NEW k \in Pairs, m.pending[k] # None
  PROVE  [out   |-> m.pending[k],
          block |-> Resolve(PoolIndex(m, Pool(k)), m.pending[k])] # None
<1>1. m.pending[k] \in Position
  BY DEF LedgerState, Mirror
<1>2. m.reserves \in [Pools -> [Assets -> Reserve \cup {None}]] /\ Pool(k) \in Pools
  BY DEF LedgerState, Mirror, Pairs, Pool
<1>3. Resolve(PoolIndex(m, Pool(k)), m.pending[k]) \subseteq Row
  BY <1>1, <1>2, PoolIndexType, ResolveType
<1> QED
  BY <1>1, <1>3, CacheAssumption DEF CacheEntry

(***************************************************************************)
(* The snapshot: the refreshed cache is what a full build of the mirror    *)
(* resolves to, pair by pair.                                              *)
(***************************************************************************)
LEMMA RefreshedIsFresh ==
  ASSUME IncInv, phase = "applying", NEW k \in Pairs
  PROVE  Refreshed(mirror.touched \cup InvalidatedPairs)[k] = Entry(mirror, k)
<1>1. CASE k \in mirror.touched \cup InvalidatedPairs
  BY <1>1 DEF Refreshed
<1>2. CASE k \notin mirror.touched \cup InvalidatedPairs
  <2>1. mirror.pending[k] = out.pending[k]
    BY <1>2 DEF IncInv, Untouched
  <2>2. /\ poolIndexes = PoolIndexes(out)
        /\ cache[k] = IF out.pending[k] = None THEN None
                      ELSE [out   |-> out.pending[k],
                            block |-> Resolve(PoolIndex(out, Pool(k)), out.pending[k])]
    BY DEF IncInv, CacheDescribesState
  <2>3. Refreshed(mirror.touched \cup InvalidatedPairs)[k] = cache[k]
    BY <1>2 DEF Refreshed
  <2>4. CASE cache[k] = None
    <3>1. out.pending[k] = None
      BY <2>2, <2>4, EntryIsNotNone DEF IncInv, TypeOK
    <3> QED
      BY <2>1, <2>3, <2>4, <3>1 DEF Entry
  <2>5. CASE cache[k] # None
    <3>1. Pool(k) \in Pools
      BY DEF Pairs, Pool
    <3>2. PoolIndex(out, Pool(k)) = PoolIndex(mirror, Pool(k))
      BY <1>2, <2>2, <2>5, <3>1 DEF InvalidatedPairs, PoolIndexes
    <3> QED
      BY <2>1, <2>2, <2>3, <2>5, <3>2 DEF Entry
  <2> QED
    BY <2>4, <2>5
<1> QED
  BY <1>1, <1>2

\* The snapshot assembles from the cache what a full build would return.
LEMMA AssembleIsBuild ==
  ASSUME IncInv, phase = "applying"
  PROVE  Assemble(Refreshed(mirror.touched \cup InvalidatedPairs)) = Build(mirror)
<1> DEFINE entries == Refreshed(mirror.touched \cup InvalidatedPairs)
<1>1. ASSUME NEW k \in Pairs
      PROVE  /\ (IF entries[k] = None THEN None ELSE entries[k].out) = mirror.pending[k]
             /\ (IF entries[k] = None THEN {} ELSE entries[k].block)
                  = Resolve(PoolIndex(mirror, Pool(k)), mirror.pending[k])
  <2>1. entries[k] = Entry(mirror, k)
    BY RefreshedIsFresh
  <2>2. CASE mirror.pending[k] = None
    BY <2>1, <2>2 DEF Entry, Resolve
  <2>3. CASE mirror.pending[k] # None
    BY <2>1, <2>3, EntryIsNotNone DEF Entry, IncInv, TypeOK
  <2> QED
    BY <2>2, <2>3
<1>2. mirror.pending = [k \in Pairs |-> mirror.pending[k]]
  BY DEF IncInv, TypeOK, Mirror
<1> HIDE DEF entries
<1>3. [k \in Pairs |-> IF entries[k] = None THEN None ELSE entries[k].out] = mirror.pending
  BY <1>1, <1>2
<1>4. [k \in Pairs |-> IF entries[k] = None THEN {} ELSE entries[k].block]
        = [k \in Pairs |-> Resolve(PoolIndex(mirror, Pool(k)), mirror.pending[k])]
  BY <1>1
<1>5. Assemble(entries) = Build(mirror)
  BY <1>3, <1>4 DEF Assemble, Build
<1> QED
  BY <1>5 DEF entries

LEMMA SnapshotIncInv ==
  ASSUME IncInv, Snapshot
  PROVE  IncInv'
<1> DEFINE touched == mirror.touched \cup InvalidatedPairs
<1>1. /\ FinishDecode(Assemble(Refreshed(touched)), touched)
      /\ cache' = Refreshed(touched)
      /\ poolIndexes' = PoolIndexes(mirror)
      /\ mirror' = [mirror EXCEPT !.touched = {}]
      /\ carried' = TRUE
  BY DEF Snapshot, Carry
<1>2. phase = "applying" /\ phase' = "idle" /\ prior' = prior
  BY <1>1 DEF FinishDecode
<1>3. out' = Build(mirror)
  BY <1>1, <1>2, AssembleIsBuild DEF FinishDecode
<1>4. TypeOK'
  <2>1. Build(mirror) \in LedgerState /\ PoollessHaveNoReserves(Build(mirror))
    BY BuildType DEF IncInv, TypeOK, PoollessHaveNoReserves, Build
  <2>2. touched \in SUBSET Pairs
    BY DEF IncInv, TypeOK, Mirror, InvalidatedPairs
  <2>3. FinishDecode(Build(mirror), touched)
    BY <1>1, <1>3 DEF FinishDecode
  <2>4. mirror' \in Mirror /\ PoollessHaveNoReserves(mirror')
    BY <1>1 DEF IncInv, TypeOK, Mirror, PoollessHaveNoReserves
  <2> QED
    BY <2>1, <2>2, <2>3, <2>4, FinishDecodeTypeOK DEF TypeOK, IncInv
<1>5. Readable(out'.pending) /\ Readable(prior'.pending)
  BY <1>2, <1>3 DEF Build, IncInv, Untouched
<1>6. CarriedMirrorIsReload'
  <2>1. LoadPrior(out') = [live |-> mirror.live, reserves |-> mirror.reserves,
                           pending |-> LoadPrior(out').pending, touched |-> {}]
    BY <1>3 DEF LoadPrior, Build
  <2>2. LoadPrior(out').pending = mirror.pending
    BY <1>3, <1>4, <1>5, LoadPriorType DEF TypeOK, Build
  <2>3. mirror' = [live |-> mirror.live, reserves |-> mirror.reserves,
                   pending |-> mirror.pending, touched |-> {}]
    BY <1>1 DEF IncInv, TypeOK, Mirror
  <2> QED
    BY <2>1, <2>2, <2>3 DEF CarriedMirrorIsReload
<1>7. CacheDescribesState'
  <2>1. \A p \in Pools : PoolIndex(out', p) = PoolIndex(mirror, p)
    BY <1>3, BuildType DEF IncInv, TypeOK
  <2>2. poolIndexes' = PoolIndexes(out')
    BY <1>1, <2>1 DEF PoolIndexes
  <2>3. ASSUME NEW k \in Pairs
        PROVE  cache'[k] = IF out'.pending[k] = None THEN None
                           ELSE [out   |-> out'.pending[k],
                                 block |-> Resolve(PoolIndex(out', Pool(k)), out'.pending[k])]
    <3>1. cache'[k] = Entry(mirror, k)
      BY <1>1, <1>2, RefreshedIsFresh
    <3>2. PoolIndex(out', Pool(k)) = PoolIndex(mirror, Pool(k)) /\ out'.pending = mirror.pending
      BY <1>3, <2>1 DEF Build, Pairs, Pool
    <3> QED
      BY <3>1, <3>2 DEF Entry
  <2> QED
    BY <2>2, <2>3 DEF CacheDescribesState
<1> QED
  BY <1>1, <1>2, <1>4, <1>5, <1>6, <1>7 DEF IncInv, Untouched

LEMMA CrashIncInv ==
  ASSUME IncInv, IncrementalCrash
  PROVE  IncInv'
<1>1. TypeOK'
  BY EmptyTypes, MaxChangesAssumption DEF IncrementalCrash, StopProcess, IncInv, TypeOK
<1> QED
  BY <1>1 DEF IncrementalCrash, StopProcess, IncInv, CarriedMirrorIsReload, CacheDescribesState, Untouched

\* Every step of the incremental decode keeps the inductive invariant.
LEMMA NextIncInv ==
  ASSUME DecodableLapses, IncInv, [IncrementalNext]_vars
  PROVE  IncInv'
<1>1. CASE UNCHANGED vars
  BY <1>1 DEF vars, decodeVars, IncInv, TypeOK, PoollessHaveNoReserves, CarriedMirrorIsReload,
              CacheDescribesState, Untouched
<1> QED
  BY <1>1, ContinueIncInv, ReseedIncInv, ChangeIncInv, SnapshotIncInv, CrashIncInv DEF IncrementalNext

-----------------------------------------------------------------------------
(***************************************************************************)
(* Step simulation.  The reference mirror is the incremental one while     *)
(* changes are applied and empty between decodes.                          *)
(***************************************************************************)
ReferenceMirror == IF phase = "applying" THEN mirror ELSE EmptyMirror

(***************************************************************************)
(* The instance repeats the constant vocabulary of BlendState under its    *)
(* own names; these lemmas identify the two.                               *)
(***************************************************************************)
LEMMA SameNames ==
  /\ Paranoid!Pairs = Pairs
  /\ Paranoid!NoReserves = NoReserves
  /\ \A k : Paranoid!Pool(k) = Pool(k)
  /\ \A r : Paranoid!EnsureReserve(r) = EnsureReserve(r)
  BY DEF Pairs, Paranoid!Pairs, NoReserves, Paranoid!NoReserves, Pool, Paranoid!Pool,
         EnsureReserve, Paranoid!EnsureReserve

LEMMA SameEmpty ==
  Paranoid!EmptyMirror = EmptyMirror /\ Paranoid!EmptyState = EmptyState
  BY SameNames DEF EmptyMirror, Paranoid!EmptyMirror, EmptyState, Paranoid!EmptyState

LEMMA SameResolution ==
  /\ \A r, i : Paranoid!Claimants(r, i) = Claimants(r, i)
  /\ \A r : Paranoid!UnknownIndexAssets(r) = UnknownIndexAssets(r)
  /\ \A r : Paranoid!ReserveByIndex(r) = ReserveByIndex(r)
  /\ \A s, p : Paranoid!PoolIndex(s, p) = PoolIndex(s, p)
  /\ \A position : Paranoid!Legs(position) = Legs(position)
  /\ \A index, position : Paranoid!Resolve(index, position) = Resolve(index, position)
<1>1. \A r, i : Paranoid!Claimants(r, i) = Claimants(r, i)
  BY DEF Claimants, Paranoid!Claimants
<1>2. \A r : Paranoid!UnknownIndexAssets(r) = UnknownIndexAssets(r)
  BY DEF UnknownIndexAssets, Paranoid!UnknownIndexAssets
<1>3. \A r : Paranoid!ReserveByIndex(r) = ReserveByIndex(r)
  BY <1>1 DEF ReserveByIndex, Paranoid!ReserveByIndex
<1>4. \A s, p : Paranoid!PoolIndex(s, p) = PoolIndex(s, p)
  BY <1>3 DEF PoolIndex, Paranoid!PoolIndex
<1>5. \A position : Paranoid!Legs(position) = Legs(position)
  BY DEF Legs, Paranoid!Legs
<1>6. \A index, position : Paranoid!Resolve(index, position) = Resolve(index, position)
  BY <1>5 DEF Resolve, Paranoid!Resolve
<1> QED
  BY <1>1, <1>2, <1>3, <1>4, <1>5, <1>6

LEMMA SameRoundTrip ==
  /\ \A m : Paranoid!Build(m) = Build(m)
  /\ \A s : Paranoid!LoadPrior(s) = LoadPrior(s)
  /\ \A t, q : Paranoid!DirtyKinds(t, q) = DirtyKinds(t, q)
  /\ \A m, k : Paranoid!Diagnostics(m, k) = Diagnostics(m, k)
<1>1. \A m : Paranoid!Build(m) = Build(m)
  BY SameNames, SameResolution DEF Build, Paranoid!Build
<1>2. \A position : Paranoid!LoadPending(position) = LoadPending(position)
  BY DEF LoadPending, Paranoid!LoadPending
<1>3. \A s : Paranoid!LoadPrior(s) = LoadPrior(s)
  BY <1>2, SameNames DEF LoadPrior, Paranoid!LoadPrior
<1>4. \A t, q : Paranoid!DirtyKinds(t, q) = DirtyKinds(t, q)
  BY DEF DirtyKinds, Paranoid!DirtyKinds
<1>5. \A r, k, i : Paranoid!Skip(r, k, i) = Skip(r, k, i)
  BY SameResolution DEF Skip, Paranoid!Skip
<1>6. \A r, position : Paranoid!SkippedLegs(r, position) = SkippedLegs(r, position)
  BY SameResolution DEF SkippedLegs, Paranoid!SkippedLegs
<1>7. \A m, k : Paranoid!Diagnostics(m, k) = Diagnostics(m, k)
  BY <1>5, <1>6, SameNames DEF Diagnostics, Paranoid!Diagnostics
<1> QED
  BY <1>1, <1>3, <1>4, <1>7

LEMMA SameChanges ==
  /\ \A m, p : Paranoid!WritePool(m, p) = WritePool(m, p)
  /\ \A m, p : Paranoid!DeletePool(m, p) = DeletePool(m, p)
  /\ \A m, p, l : Paranoid!ListReserves(m, p, l) = ListReserves(m, p, l)
  /\ \A m, p, a, i : Paranoid!ConfigureReserve(m, p, a, i) = ConfigureReserve(m, p, a, i)
  /\ \A m, p, a : Paranoid!UpdateReserveData(m, p, a) = UpdateReserveData(m, p, a)
  /\ \A m, p, a : Paranoid!RemoveReserve(m, p, a) = RemoveReserve(m, p, a)
  /\ \A m, p, a, i : Paranoid!ArchiveReserve(m, p, a, i) = ArchiveReserve(m, p, a, i)
  /\ \A m, k, b : Paranoid!WritePositions(m, k, b) = WritePositions(m, k, b)
  /\ \A m, k : Paranoid!RemovePositions(m, k) = RemovePositions(m, k)
  /\ \A m, k, v : Paranoid!ArchivePositions(m, k, v) = ArchivePositions(m, k, v)
<1>1. \A position, v : Paranoid!LastKnown(position, v) = LastKnown(position, v)
  BY DEF LastKnown, Paranoid!LastKnown
<1>2. \A m, k, v : Paranoid!ArchivePositions(m, k, v) = ArchivePositions(m, k, v)
  BY <1>1 DEF ArchivePositions, Paranoid!ArchivePositions
<1>3. \A m, p, l : Paranoid!ListReserves(m, p, l) = ListReserves(m, p, l)
  BY SameNames, ZenonT(60) DEF ListReserves, Paranoid!ListReserves
<1>4. \A m, p : Paranoid!DeletePool(m, p) = DeletePool(m, p)
  BY SameNames DEF DeletePool, Paranoid!DeletePool
<1>5. \A m, p, a : Paranoid!UpdateReserveData(m, p, a) = UpdateReserveData(m, p, a)
  BY SameNames DEF UpdateReserveData, Paranoid!UpdateReserveData
<1>6. \A m, p, a, i : Paranoid!ArchiveReserve(m, p, a, i) = ArchiveReserve(m, p, a, i)
  BY SameNames, ZenonT(60) DEF ArchiveReserve, Paranoid!ArchiveReserve
<1> QED
  BY <1>2, <1>3, <1>4, <1>5, <1>6
     DEF WritePool, Paranoid!WritePool, ConfigureReserve, Paranoid!ConfigureReserve,
         RemoveReserve, Paranoid!RemoveReserve, WritePositions, Paranoid!WritePositions,
         RemovePositions, Paranoid!RemovePositions

LEMMA InitSimulates == IncrementalInit => Paranoid!Init
  BY SameEmpty DEF IncrementalInit, InitDecode, Paranoid!Init, Paranoid!InitDecode

LEMMA ContinueSimulates ==
  ASSUME IncInv, Continue
  PROVE  Paranoid!BeginLedger(out)
<1>1. carried /\ StartDecode(out) /\ mirror' = mirror /\ phase = "idle" /\ phase' = "applying"
  BY DEF Continue, StartDecode
<1>2. mirror' = LoadPrior(out)
  BY <1>1 DEF IncInv, CarriedMirrorIsReload
<1> QED
  BY <1>1, <1>2, SameRoundTrip DEF Paranoid!BeginLedger, Paranoid!StartDecode, StartDecode

LEMMA ReseedSimulates ==
  ASSUME NEW base \in {prior, out}, Reseed(base)
  PROVE  Paranoid!BeginLedger(base)
  BY SameRoundTrip DEF Reseed, StartDecode, Paranoid!BeginLedger, Paranoid!StartDecode

LEMMA ApplySimulates ==
  ASSUME ApplyChange, phase = "applying", phase' = "applying"
  PROVE  Paranoid!ApplyChange
  BY SameNames, SameChanges
     DEF ApplyChange, PoolWritten, PoolDeleted, ReservesListed, ReserveUpdated,
         ReserveRemoved, ReserveLapsed, ReserveConfigured, ReserveConfigLapsed,
         PositionsWritten, PositionsRemoved, PositionsLapsed, Apply, Neutral, Rewiring,
         Paranoid!ApplyChange, Paranoid!PoolWritten, Paranoid!PoolDeleted,
         Paranoid!ReservesListed, Paranoid!ReserveUpdated, Paranoid!ReserveRemoved,
         Paranoid!ReserveLapsed, Paranoid!ReserveConfigured, Paranoid!ReserveConfigLapsed,
         Paranoid!PositionsWritten, Paranoid!PositionsRemoved, Paranoid!PositionsLapsed,
         Paranoid!Apply, Paranoid!Neutral, Paranoid!Rewiring

\* The pairs the caches invalidate are the ones the reference remaps, up to
\* pairs that are marked anyway.
LEMMA SamePairsMarked ==
  ASSUME IncInv, phase = "applying"
  PROVE  mirror.touched \cup InvalidatedPairs = mirror.touched \cup Paranoid!RemappedPairs
<1> SUFFICES ASSUME NEW k \in Pairs, k \notin mirror.touched
             PROVE  k \in InvalidatedPairs <=> k \in Paranoid!RemappedPairs
  BY SameNames DEF InvalidatedPairs, Paranoid!RemappedPairs
<1>1. mirror.pending[k] = out.pending[k] /\ out = prior
  BY DEF IncInv, Untouched
<1>2. /\ poolIndexes = PoolIndexes(out)
      /\ cache[k] = IF out.pending[k] = None THEN None
                    ELSE [out   |-> out.pending[k],
                          block |-> Resolve(PoolIndex(out, Pool(k)), out.pending[k])]
  BY DEF IncInv, CacheDescribesState
<1>3. cache[k] # None <=> mirror.pending[k] # None
  BY <1>1, <1>2, EntryIsNotNone DEF IncInv, TypeOK
<1>4. poolIndexes[Pool(k)] = PoolIndex(prior, Pool(k))
  BY <1>1, <1>2 DEF PoolIndexes, Pairs, Pool
<1> QED
  BY <1>3, <1>4, SameNames, SameResolution DEF InvalidatedPairs, Paranoid!RemappedPairs

LEMMA SnapshotSimulates ==
  ASSUME IncInv, Snapshot
  PROVE  Paranoid!CloseLedger
<1> DEFINE touched == mirror.touched \cup InvalidatedPairs
<1>1. FinishDecode(Assemble(Refreshed(touched)), touched)
  BY DEF Snapshot
<1>2. phase = "applying" /\ phase' = "idle"
  BY <1>1 DEF FinishDecode
<1>3. Assemble(Refreshed(touched)) = Build(mirror)
  BY <1>2, AssembleIsBuild
<1>4. touched = mirror.touched \cup Paranoid!RemappedPairs
  BY <1>2, SamePairsMarked
<1> HIDE DEF touched
<1>5. FinishDecode(Build(mirror), mirror.touched \cup Paranoid!RemappedPairs)
  BY <1>1, <1>3, <1>4
<1> QED
  BY <1>2, <1>5, SameRoundTrip, SameEmpty
     DEF FinishDecode, Paranoid!FinishDecode, Paranoid!CloseLedger

LEMMA CrashSimulates ==
  ASSUME IncrementalCrash
  PROVE  Paranoid!Crash
  BY SameEmpty DEF IncrementalCrash, StopProcess, Paranoid!Crash, Paranoid!StopProcess

\* Every incremental step is a reference step, or changes nothing it shows.
LEMMA NextSimulates ==
  ASSUME IncInv, [IncrementalNext]_vars
  PROVE  [Paranoid!Next]_Paranoid!decodeVars
<1>1. CASE UNCHANGED vars
  BY <1>1 DEF vars, decodeVars, Paranoid!decodeVars
<1>2. CASE Continue
  BY <1>2, ContinueSimulates DEF Paranoid!Next
<1>3. ASSUME NEW base \in {prior, out}, Reseed(base)
      PROVE  Paranoid!Next
  BY <1>3, ReseedSimulates DEF Paranoid!Next
<1>4. CASE Change
  <2>1. ApplyChange /\ phase = "applying" /\ phase' = "applying"
    BY <1>4, ChangeFrame DEF Change, IncInv, TypeOK
  <2> QED
    BY <2>1, ApplySimulates DEF Paranoid!Next
<1>5. CASE Snapshot
  BY <1>5, SnapshotSimulates DEF Paranoid!Next
<1>6. CASE IncrementalCrash
  BY <1>6, CrashSimulates DEF Paranoid!Next
<1> QED
  BY <1>1, <1>2, <1>3, <1>4, <1>5, <1>6 DEF IncrementalNext

(***************************************************************************)
(* Byte-identity (blend/state_strategy.go): when the values lapsed entries *)
(* carry decode, every behaviour of the incremental decode is one of the   *)
(* reference decode: same states, dirty sets and diagnostics.              *)
(***************************************************************************)
THEOREM IncrementalRefinesParanoid ==
  ASSUME DecodableLapses
  PROVE  IncrementalSpec => RefinesParanoid
<1>1. IncrementalInit => IncInv /\ Paranoid!Init
  BY InitIncInv, InitSimulates
<1>2. IncInv /\ [IncrementalNext]_vars => IncInv' /\ [Paranoid!Next]_Paranoid!decodeVars
  BY NextIncInv, NextSimulates
<1> QED
  BY <1>1, <1>2, PTL DEF IncrementalSpec, RefinesParanoid, Paranoid!Spec

(***************************************************************************)
(* "Between ledgers it holds exactly what a paranoid loadPrior of the last *)
(* output would reconstruct", and the caches describe that output          *)
(* (state_incremental.go), when the values lapsed entries carry decode.    *)
(***************************************************************************)
THEOREM CarriedStateIsReload ==
  ASSUME DecodableLapses
  PROVE  IncrementalSpec => [](CarriedMirrorIsReload /\ CacheDescribesState)
<1>1. IncrementalInit => IncInv
  BY InitIncInv
<1>2. IncInv /\ [IncrementalNext]_vars => IncInv'
  BY NextIncInv
<1>3. IncInv => CarriedMirrorIsReload /\ CacheDescribesState
  BY DEF IncInv
<1> QED
  BY <1>1, <1>2, <1>3, PTL DEF IncrementalSpec

-----------------------------------------------------------------------------
(***************************************************************************)
(* What ProjectPositions reads.  Every returned state's rows are what its  *)
(* own entries resolve to, and so are the cached blocks of the last one.   *)
(***************************************************************************)
\* An absent pool publishes nothing, and an absent entry has no rows.
LEMMA StartsResolved == IncrementalInit => Resolved
  BY DEF IncrementalInit, InitDecode, Resolved, Consistent, EmptyState, Resolve, Legs

LEMMA CachedResolved ==
  ASSUME IncInv, Resolved, [IncrementalNext]_vars
  PROVE  Resolved'
<1>1. CASE UNCHANGED vars
  BY <1>1 DEF vars, decodeVars, Resolved
<1>2. CASE Continue
  BY <1>2 DEF Continue, StartDecode, Resolved
<1>3. ASSUME NEW base \in {prior, out}, Reseed(base)
      PROVE  Resolved'
  BY <1>3 DEF Reseed, StartDecode, Resolved
<1>4. CASE Change
  BY <1>4, ChangeFrame DEF Change, IncInv, TypeOK, Resolved
<1>5. CASE Snapshot
  <2> DEFINE touched == mirror.touched \cup InvalidatedPairs
  <2>1. FinishDecode(Assemble(Refreshed(touched)), touched)
    BY <1>5 DEF Snapshot
  <2>2. phase = "applying" /\ prior' = prior
    BY <2>1 DEF FinishDecode
  <2>3. out' = Build(mirror)
    BY <2>1, <2>2, AssembleIsBuild DEF FinishDecode
  <2> QED
    BY <2>2, <2>3, BuildConsistent DEF IncInv, TypeOK, Resolved
<1>6. CASE IncrementalCrash
  BY <1>6 DEF IncrementalCrash, StopProcess, Resolved
<1> QED
  BY <1>1, <1>2, <1>3, <1>4, <1>5, <1>6 DEF IncrementalNext

(***************************************************************************)
(* The rows ProjectPositions takes from the cache are those the reference  *)
(* strategy's scan finds in the state returned last (adapter.go,           *)
(* dirtyPositionRows).                                                     *)
(***************************************************************************)
THEOREM ProjectionReadsTheState ==
  ASSUME DecodableLapses
  PROVE  IncrementalSpec => []DirtyPositionRowsAreTheStates
<1>1. IncrementalInit => IncInv /\ Resolved
  BY InitIncInv, StartsResolved
<1>2. IncInv /\ Resolved /\ [IncrementalNext]_vars => IncInv' /\ Resolved'
  BY NextIncInv, CachedResolved
<1>3. IncInv /\ Resolved => DirtyPositionRowsAreTheStates
  <2> SUFFICES ASSUME IncInv, Resolved, carried, NEW k \in Pairs
               PROVE  UserPositions(k) = out.rows[k]
    BY DEF DirtyPositionRowsAreTheStates, Resolved, Consistent
  <2>1. cache[k] = IF out.pending[k] = None THEN None
                   ELSE [out   |-> out.pending[k],
                         block |-> Resolve(PoolIndex(out, Pool(k)), out.pending[k])]
    BY DEF IncInv, CacheDescribesState
  <2>2. out.rows[k] = Resolve(PoolIndex(out, Pool(k)), out.pending[k])
    BY DEF Resolved, Consistent
  <2>3. CASE out.pending[k] = None
    BY <2>1, <2>2, <2>3 DEF UserPositions, Resolve, Legs
  <2>4. CASE out.pending[k] # None
    <3>1. cache[k] # None
      BY <2>1, <2>4, EntryIsNotNone DEF IncInv, TypeOK
    <3> QED
      BY <2>1, <2>2, <2>4, <3>1 DEF UserPositions
  <2> QED
    BY <2>3, <2>4
<1> QED
  BY <1>1, <1>2, <1>3, PTL DEF IncrementalSpec
=============================================================================
