------------------------------ MODULE BlendDecode ------------------------------
(***************************************************************************)
(* What the two decode strategies of the Blend adapter have in common: the *)
(* caller's side of a decode, the mirror, and the application of a         *)
(* ledger's changes to it in order (blend/state.go, apply / applyDelete).  *)
(*                                                                         *)
(* One behaviour is a sequence of ledgers of one adapter and its caller.   *)
(* The caller may commit what a decode returned, or drop it and decode     *)
(* again from what it had committed; the process may stop at any point,    *)
(* which loses everything but the committed state.                         *)
(***************************************************************************)
EXTENDS BlendState

CONSTANT MaxChanges   \* bound: changes of one ledger

ASSUME MaxChangesAssumption == MaxChanges \in Nat

VARIABLES
    phase,         \* "idle" between decodes, "applying" within one
    prior,         \* the LedgerState the running (or last) decode started from
    mirror,        \* the blendStateBuilder changes are applied to
    out,           \* the LedgerState the last decode returned
    dirty,         \* LastDirtyPositions
    diagnostics,   \* LastDecodeDiagnostics
    applied,       \* changes applied in this ledger
    purged,        \* history: pairs whose Positions entry was removed on chain
    rewired        \* history: pools whose indexes a change could move

decodeVars == <<phase, prior, mirror, out, dirty, diagnostics, applied, purged, rewired>>

InitDecode ==
    /\ phase = "idle"
    /\ prior = EmptyState
    /\ mirror = EmptyMirror
    /\ out = EmptyState
    /\ dirty = {}
    /\ diagnostics = {}
    /\ applied = 0
    /\ purged = {}
    /\ rewired = {}

\* DecodeState is called with prior = base: the per-ledger outputs reset.
StartDecode(base) ==
    /\ phase = "idle"
    /\ phase' = "applying"
    /\ prior' = base
    /\ out' = base
    /\ dirty' = {}
    /\ diagnostics' = {}
    /\ applied' = 0
    /\ purged' = {}
    /\ rewired' = {}

\* The decode returns: its result is what the mirror builds to.
FinishDecode(state, touched) ==
    /\ phase = "applying"
    /\ phase' = "idle"
    /\ out' = state
    /\ dirty' = DirtyKinds(touched, mirror.pending)
    /\ diagnostics' = UNION {Diagnostics(mirror, k) : k \in touched}
    /\ applied' = 0
    /\ UNCHANGED <<prior, purged, rewired>>

\* The process stops: what the caller had not committed is gone.
StopProcess ==
    /\ phase' = "idle"
    /\ out' = prior
    /\ dirty' = {}
    /\ diagnostics' = {}
    /\ applied' = 0
    /\ purged' = {}
    /\ rewired' = {}
    /\ UNCHANGED prior

\* One change of the stream: the mirror moves, the rest of the decode waits.
Apply(next) ==
    /\ phase = "applying"
    /\ applied < MaxChanges
    /\ mirror' = next
    /\ applied' = applied + 1
    /\ UNCHANGED <<phase, prior, out, dirty, diagnostics>>

Neutral == UNCHANGED <<purged, rewired>>

PoolWritten(p)      == Apply(WritePool(mirror, p)) /\ Neutral
ReservesListed(p, listed) == Apply(ListReserves(mirror, p, listed)) /\ Neutral
ReserveUpdated(p, a) == Apply(UpdateReserveData(mirror, p, a)) /\ Neutral
ReserveLapsed(p, a) == Apply(ArchiveReserve(mirror, p, a, None)) /\ Neutral
PositionsWritten(k, blob)  == Apply(WritePositions(mirror, k, blob)) /\ Neutral
PositionsLapsed(k, value) == Apply(ArchivePositions(mirror, k, value)) /\ Neutral

PositionsRemoved(k) ==
    /\ Apply(RemovePositions(mirror, k))
    /\ purged' = purged \cup {k}
    /\ UNCHANGED rewired

Rewiring(p) == rewired' = rewired \cup {p} /\ UNCHANGED purged

PoolDeleted(p)             == Apply(DeletePool(mirror, p)) /\ Rewiring(p)
ReserveConfigured(p, a, i) == Apply(ConfigureReserve(mirror, p, a, i)) /\ Rewiring(p)
ReserveRemoved(p, a)       == Apply(RemoveReserve(mirror, p, a)) /\ Rewiring(p)
ReserveConfigLapsed(p, a, i) == Apply(ArchiveReserve(mirror, p, a, i)) /\ Rewiring(p)

ApplyChange ==
    \/ \E p \in Pools :
          \/ PoolWritten(p)
          \/ PoolDeleted(p)
          \/ \E listed \in SUBSET Assets : ReservesListed(p, listed)
          \/ \E a \in Assets :
                \/ ReserveUpdated(p, a)
                \/ ReserveRemoved(p, a)
                \/ ReserveLapsed(p, a)
                \/ \E i \in Indexes : \/ ReserveConfigured(p, a, i)
                                      \/ ReserveConfigLapsed(p, a, i)
    \/ \E k \in Pairs :
          \/ \E blob \in Blobs : PositionsWritten(k, blob)
          \/ PositionsRemoved(k)
          \/ \E value \in LapsedValues : PositionsLapsed(k, value)

-----------------------------------------------------------------------------
DirtyEntry == [pair : Pairs, kind : {"upsert", "removal"}]

DiagnosticEntry ==
    [pair : Pairs, index : Indexes, candidates : SUBSET Assets,
     code : {"duplicate_reserve_index", "unmapped_reserve_index"}]

(***************************************************************************)
(* Every variable stays in its domain, and a pool the mirror does not hold *)
(* has no reserves (deletion takes them with it).                          *)
(***************************************************************************)
PoollessHaveNoReserves(s) == \A p \in Pools \ s.live : s.reserves[p] = NoReserves

TypeOK ==
    /\ phase \in {"idle", "applying"}
    /\ prior \in LedgerState
    /\ out \in LedgerState
    /\ mirror \in Mirror
    /\ dirty \subseteq DirtyEntry
    /\ diagnostics \subseteq DiagnosticEntry
    /\ applied \in 0..MaxChanges
    /\ purged \subseteq Pairs
    /\ rewired \subseteq Pools
    /\ PoollessHaveNoReserves(prior)
    /\ PoollessHaveNoReserves(out)
    /\ PoollessHaveNoReserves(mirror)

(***************************************************************************)
(* LastDirtyPositions is complete: a pair whose pending entry or resolved  *)
(* rows differ from the prior state is in the dirty set, with the kind its *)
(* entry ends up with.  A caller that recomputes only dirty users relies   *)
(* on it (finalizeDirtyPositions, markPoolRemapDirty).                     *)
(***************************************************************************)
DirtyComplete ==
    phase = "idle" =>
        \A k \in Pairs :
            \/ /\ out.pending[k] = prior.pending[k]
               /\ out.rows[k] = prior.rows[k]
            \/ [pair |-> k,
                kind |-> IF out.pending[k] = None THEN "removal" ELSE "upsert"]
                   \in dirty

(***************************************************************************)
(* A leg that resolved before this ledger (or was not there) and does not  *)
(* resolve any more in a pool that still exists is reported by a           *)
(* diagnostic of this very decode: an under-attributed position is never   *)
(* silent (positionSkipSink, build).                                       *)
(***************************************************************************)
Unresolved(s, k) ==
    {i \in Indexes : /\ s.pending[k] # None
                     /\ Pool(k) \in s.live
                     /\ i \in Legs(s.pending[k])
                     /\ PoolIndex(s, Pool(k))[i] = None}

LostLegDiagnosed ==
    phase = "idle" =>
        \A k \in Pairs : \A i \in Unresolved(out, k) \ Unresolved(prior, k) :
            \E d \in diagnostics : d.pair = k /\ d.index = i

(***************************************************************************)
(* A holder's entry leaves the state only when the chain removed it in     *)
(* this ledger: a TTL lapse, an eviction, the pool's deletion or the round *)
(* trip through the caller never purge it (isExplicitOnChainDelete).       *)
(***************************************************************************)
OnlyRemovalPurges ==
    phase = "idle" =>
        \A k \in Pairs :
            prior.pending[k] # None /\ out.pending[k] = None => k \in purged

(***************************************************************************)
(* Lapses, evictions, rate writes and newly seen reserves never take a row *)
(* from a user whose own entry was not touched: only a change of the       *)
(* pool's configuration can (applyDelete's ResConfig/ResData case).        *)
(***************************************************************************)
LapsesLoseNoRows ==
    phase = "idle" =>
        \A k \in Pairs :
            \/ out.pending[k] # prior.pending[k]
            \/ Pool(k) \in rewired
            \/ prior.rows[k] \subseteq out.rows[k]

(***************************************************************************)
(* A row names the one reserve whose decoded ResConfig claims the leg's    *)
(* index; an index two reserves claim, or none, yields no row              *)
(* (finalizePoolReserves, lidapters#33).                                   *)
(***************************************************************************)
NoMisattribution ==
    phase = "idle" =>
        \A k \in Pairs : \A row \in out.rows[k] :
            \E i \in Legs(out.pending[k]) :
                /\ out.pending[k].blob[i] = row.amount
                /\ Claimants(out.reserves[Pool(k)], i) = {row.asset}

(***************************************************************************)
(* "A TTL lapse or network eviction is reported as Upsert, not Removal ... *)
(* only a real LedgerEntryRemoved change is a Removal" (bindings/types.go, *)
(* DirtyKind): a consumer closes the positions of a Removal.               *)
(***************************************************************************)
RemovalsAreOnChain ==
    phase = "idle" =>
        \A d \in dirty : d.kind = "removal" => d.pair \in purged
=============================================================================
