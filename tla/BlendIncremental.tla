--------------------------- MODULE BlendIncremental ---------------------------
(***************************************************************************)
(* The incremental state decode (blend/state_incremental.go): the mirror   *)
(* lives across ledgers, and each user's block of resolved rows is cached  *)
(* and recomputed only for the pairs a ledger touched or remapped.         *)
(*                                                                         *)
(* Its contract (blend/config.go, blend/state_strategy.go) is that no      *)
(* caller can tell it from the paranoid decode: the specification below    *)
(* implements BlendParanoid under the identity on all a caller sees.       *)
(***************************************************************************)
EXTENDS BlendDecode

VARIABLES
    carried,       \* the mirror continues out (s.mirror # nil, s.lastOut is out)
    cache,         \* s.index and s.keys: the cached entry of each pending pair
    poolIndexes    \* s.poolIndexes: each pool's mapping at the last snapshot

CacheEntry == [out : Position, block : SUBSET Row]

ASSUME CacheAssumption == None \notin CacheEntry

vars == <<decodeVars, carried, cache, poolIndexes>>

\* userEntry: the pending entry as it is emitted, and its resolved rows.
Entry(m, k) ==
    IF m.pending[k] = None THEN None
    ELSE [out   |-> m.pending[k],
          block |-> Resolve(PoolIndex(m, Pool(k)), m.pending[k])]

NoEntries == [k \in Pairs |-> None]

NoIndexes == [p \in Pools |-> None]

IncrementalInit ==
    /\ InitDecode
    /\ carried = FALSE
    /\ cache = NoEntries
    /\ poolIndexes = NoIndexes

\* Mutant: the carried mirror is continued whatever state the caller passes.
ContinueFromAny ==
    /\ carried
    /\ \E base \in {prior, out} : StartDecode(base)
    /\ UNCHANGED <<mirror, carried, cache, poolIndexes>>

(***************************************************************************)
(* prior is the pointer this adapter returned last.  normalizeCarry leaves *)
(* the modelled part of the mirror alone: its dirty set is the one the     *)
(* last snapshot cleared, and everything else round-trips losslessly.      *)
(***************************************************************************)
Continue ==
    /\ carried
    /\ StartDecode(out)
    /\ UNCHANGED <<mirror, carried, cache, poolIndexes>>

\* Any other prior: the mirror and the caches are rebuilt from it.
Reseed(base) ==
    /\ base = prior \/ ~carried
    /\ StartDecode(base)
    /\ carried' = FALSE
    /\ mirror' = LoadPrior(base)
    /\ cache' = [k \in Pairs |-> Entry(LoadPrior(base), k)]
    /\ poolIndexes' = PoolIndexes(LoadPrior(base))

Change == ApplyChange /\ UNCHANGED <<carried, cache, poolIndexes>>

\* Mutant: a pool that disappeared invalidates nothing.
InvalidatedByLivePools ==
    {k \in Pairs : /\ cache[k] # None
                   /\ Pool(k) \in mirror.live
                   /\ poolIndexes[Pool(k)] # PoolIndex(mirror, Pool(k))}

\* snapshot: the pairs whose cached entry a changed mapping invalidates.
InvalidatedPairs ==
    {k \in Pairs : /\ cache[k] # None
                   /\ poolIndexes[Pool(k)] # PoolIndex(mirror, Pool(k))}

\* snapshot: the cache after recomputing exactly the given pairs.
Refreshed(pairs) ==
    [k \in Pairs |-> IF k \in pairs THEN Entry(mirror, k) ELSE cache[k]]

\* snapshot: pending and rows are assembled from the cache alone.
Assemble(entries) ==
    [live     |-> mirror.live,
     reserves |-> mirror.reserves,
     pending  |-> [k \in Pairs |-> IF entries[k] = None THEN None
                                   ELSE entries[k].out],
     rows     |-> [k \in Pairs |-> IF entries[k] = None THEN {}
                                   ELSE entries[k].block]]

\* Mutant: the dirty set is carried into the next ledger.
CarryDirty(m) == m

\* snapshot: the dirty set is cleared, the rest of the mirror carried as it is.
Carry(m) == [m EXCEPT !.touched = {}]

Snapshot ==
    LET touched == mirror.touched \cup InvalidatedPairs
    IN  /\ FinishDecode(Assemble(Refreshed(touched)), touched)
        /\ cache' = Refreshed(touched)
        /\ poolIndexes' = PoolIndexes(mirror)
        /\ mirror' = Carry(mirror)
        /\ carried' = TRUE

\* A new process has a new adapter: no mirror, no caches.
IncrementalCrash ==
    /\ StopProcess
    /\ mirror' = EmptyMirror
    /\ carried' = FALSE
    /\ cache' = NoEntries
    /\ poolIndexes' = NoIndexes

\* userPositions: what ProjectPositions projects for a pair, in O(1).
UserPositions(k) == IF cache[k] = None THEN {} ELSE cache[k].block

IncrementalNext ==
    \/ Continue
    \/ \E base \in {prior, out} : Reseed(base)
    \/ Change
    \/ Snapshot
    \/ IncrementalCrash

IncrementalSpec == IncrementalInit /\ [][IncrementalNext]_vars

-----------------------------------------------------------------------------
(***************************************************************************)
(* Byte-identity with the reference strategy, for the state, the dirty set *)
(* and the diagnostics of every ledger (blend/config.go, StateMode): the   *)
(* incremental decode implements the paranoid one, whose mirror is empty   *)
(* between decodes.                                                        *)
(***************************************************************************)
Paranoid == INSTANCE BlendParanoid
    WITH mirror <- IF phase = "applying" THEN mirror ELSE EmptyMirror

RefinesParanoid == Paranoid!Spec

(***************************************************************************)
(* The caches describe the state the mirror continues; while a ledger is   *)
(* applied they still describe the prior one (state_incremental.go,        *)
(* snapshot and reseed).                                                   *)
(***************************************************************************)
CacheDescribesState ==
    carried \/ phase = "applying" =>
        /\ poolIndexes = PoolIndexes(out)
        /\ \A k \in Pairs :
              cache[k] = IF out.pending[k] = None THEN None
                         ELSE [out   |-> out.pending[k],
                               block |-> Resolve(PoolIndex(out, Pool(k)),
                                                 out.pending[k])]

(***************************************************************************)
(* ProjectPositions reads the rows of dirty pairs from the cache, whatever *)
(* state it is passed (adapter.go, dirtyPositionRows).  For the state this *)
(* adapter returned last they are what the paranoid fallback finds in it,  *)
(* its scan of state.Users, for dirty pairs and for any others; and these  *)
(* are what the state's own entries and mappings resolve to.               *)
(***************************************************************************)
DirtyPositionRowsAreTheStates ==
    carried => \A k \in Pairs :
        /\ UserPositions(k) = out.rows[k]
        /\ out.rows[k] = Resolve(PoolIndex(out, Pool(k)), out.pending[k])

(***************************************************************************)
(* "Between ledgers it holds exactly what a paranoid loadPrior of the last *)
(* output would reconstruct" (state_incremental.go, incrementalStrategy).  *)
(***************************************************************************)
CarriedMirrorIsReload ==
    carried /\ phase = "idle" => mirror = LoadPrior(out)
=============================================================================
