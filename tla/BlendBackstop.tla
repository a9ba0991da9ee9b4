----------------------------- MODULE BlendBackstop -----------------------------
(***************************************************************************)
(* Ledgers of backstop changes through the two decode strategies, side by  *)
(* side: `reference' is the mirror the paranoid decode reloads at every    *)
(* ledger, `carried' the one the incremental decode keeps (blend/state.go, *)
(* state_comet.go, state_incremental.go).  Every change is applied to both.*)
(*                                                                         *)
(* `chain' is what the changes said last of each backstop entry, whatever  *)
(* the decode made of it.  A caller that drops a decode is the subject of  *)
(* BlendIncremental; here every result is committed, and the process may   *)
(* restart between two ledgers.                                            *)
(***************************************************************************)
EXTENDS BlendBackstopState

CONSTANT MaxChanges   \* bound: changes of one ledger

ASSUME BackstopMaxChangesAssumption == MaxChanges \in Nat

VARIABLES
    phase,          \* "idle" or "applying"
    reference,      \* the mirror of the paranoid decode
    carried,        \* the mirror of the incremental decode
    continues,      \* carried continues out (false in a new process)
    prior,          \* the state the last decode started from
    out,            \* the state the paranoid decode returned
    carriedOut,     \* the state the incremental decode returned
    dirty,          \* LastDirtyBackstops of the paranoid decode
    carriedDirty,   \* LastDirtyBackstops of the incremental decode
    applied,        \* changes applied in this ledger
    chain,          \* history: the last observed value of each entry
    relinked        \* history: pools whose link to a Comet could move

vars == <<phase, reference, carried, continues, prior, out, carriedOut,
          dirty, carriedDirty, applied, chain, relinked>>

Chain == [shares    : [Pairs -> Amounts \cup {None}],
          accrued   : [Pairs -> Amounts \cup {None}],
          balances  : [Pools -> Amounts \cup {None}],
          emissions : [Pools -> Amounts \cup {None}]]

EmptyChain == [shares    |-> [k \in Pairs |-> None],
               accrued   |-> [k \in Pairs |-> None],
               balances  |-> [p \in Pools |-> None],
               emissions |-> [p \in Pools |-> None]]

Init ==
    /\ phase = "idle"
    /\ reference = EmptyMirror
    /\ carried = EmptyMirror
    /\ continues = FALSE
    /\ prior = Build(EmptyMirror)
    /\ out = Build(EmptyMirror)
    /\ carriedOut = Build(EmptyMirror)
    /\ dirty = {}
    /\ carriedDirty = {}
    /\ applied = 0
    /\ chain = EmptyChain
    /\ relinked = {}

\* decodeBlendState reloads; decodeState continues its own last output, or
\* reseeds from it in a new process.
BeginLedger ==
    /\ phase = "idle"
    /\ phase' = "applying"
    /\ reference' = LoadPrior(out)
    /\ carried' = IF continues THEN NormalizeCarry(carried) ELSE LoadPrior(carriedOut)
    /\ continues' = TRUE
    /\ prior' = out
    /\ relinked' = {}
    /\ UNCHANGED <<out, carriedOut, dirty, carriedDirty, applied, chain>>

\* One change: both mirrors move, the rest of the decode waits.
Apply(referenceNext, carriedNext) ==
    /\ phase = "applying"
    /\ applied < MaxChanges
    /\ applied' = applied + 1
    /\ reference' = referenceNext
    /\ carried' = carriedNext
    /\ UNCHANGED <<phase, continues, prior, out, carriedOut, dirty, carriedDirty>>

\* finalizeDirtyBackstops: a removal is a pair with no row left.
Kinds(m) ==
    {[pair |-> k, kind |-> IF m.holders[k] = None THEN "removal" ELSE "upsert"] :
        k \in MarkRepriced(m).touched}

\* What the decode forgets of the pool level entries it was told of: those of
\* a pool it does not know at the end of the ledger ride on nothing.
Forget(observed, pools) ==
    [p \in Pools |-> IF pools[p] = None THEN None ELSE observed[p]]

EndLedger ==
    /\ phase = "applying"
    /\ phase' = "idle"
    /\ out' = Build(reference)
    /\ carriedOut' = Build(carried)
    /\ dirty' = Kinds(reference)
    /\ carriedDirty' = Kinds(carried)
    /\ reference' = EmptyMirror
    /\ carried' = Keep(carried)
    /\ applied' = 0
    /\ chain' = [chain EXCEPT !.balances  = Forget(@, reference.pools),
                              !.emissions = Forget(@, reference.pools)]
    /\ UNCHANGED <<continues, prior, relinked>>

\* A new process: the carried mirror is gone, the committed state is not.
Restart ==
    /\ phase = "idle"
    /\ continues
    /\ continues' = FALSE
    /\ carried' = EmptyMirror
    /\ UNCHANGED <<phase, reference, prior, out, carriedOut, dirty,
                   carriedDirty, applied, chain, relinked>>

-----------------------------------------------------------------------------
(* The changes.                                                            *)

Unobserved == UNCHANGED <<chain, relinked>>

Relinks(pools) == relinked' = relinked \cup pools /\ UNCHANGED chain

Observes(entry, key, value) ==
    chain' = [chain EXCEPT ![entry][key] = value] /\ UNCHANGED relinked

LinkedTo(b) == {p \in Pools : reference.pools[p] # None /\ reference.pools[p].backstop = b}

PoolWritten(p) ==
    Apply(WritePool(reference, p), WritePool(carried, p)) /\ Unobserved

PoolDeleted(p) ==
    Apply(DeletePool(reference, p), DeletePool(carried, p)) /\ Relinks({p})

LinkWritten(p, b) ==
    Apply(WriteLink(reference, p, b), WriteLink(carried, p, b)) /\ Relinks({p})

LinkDeleted(p) ==
    Apply(DeleteLink(reference, p), DeleteLink(carried, p)) /\ Relinks({p})

InstanceWritten(b, c) ==
    /\ Apply(WriteInstance(reference, b, c), WriteInstance(carried, b, c))
    /\ Relinks(LinkedTo(b))

InstanceDeleted(b) ==
    /\ Apply(DeleteInstance(reference, b), DeleteInstance(carried, b))
    /\ Relinks(LinkedTo(b))

PoolBalanceWritten(p, v) ==
    /\ Apply(WritePoolBalance(reference, p, v), WritePoolBalance(carried, p, v))
    /\ Observes("balances", p, v)

PoolBalanceDeleted(p) ==
    /\ Apply(DeletePoolBalance(reference, p), DeletePoolBalance(carried, p))
    /\ Observes("balances", p, None)

PoolEmissionsWritten(p, v) ==
    /\ Apply(WritePoolEmissions(reference, p, v), WritePoolEmissions(carried, p, v))
    /\ Observes("emissions", p, v)

PoolEmissionsDeleted(p) ==
    /\ Apply(DeletePoolEmissions(reference, p), DeletePoolEmissions(carried, p))
    /\ Observes("emissions", p, None)

SharesWritten(k, v) ==
    /\ Apply(WriteShares(reference, k, v), WriteShares(carried, k, v))
    /\ Observes("shares", k, v)

SharesDeleted(k) ==
    /\ Apply(DeleteShares(reference, k), DeleteShares(carried, k))
    /\ Observes("shares", k, None)

AccruedWritten(k, v) ==
    /\ Apply(WriteAccrued(reference, k, v), WriteAccrued(carried, k, v))
    /\ Observes("accrued", k, v)

AccruedDeleted(k) ==
    /\ Apply(DeleteAccrued(reference, k), DeleteAccrued(carried, k))
    /\ Observes("accrued", k, None)

CometDeployed(c) ==
    Apply(WriteCometInstance(reference, c), WriteCometInstance(carried, c)) /\ Unobserved

CometFacetWritten(c, facet, v) ==
    /\ Apply(WriteCometFacet(reference, c, facet, v),
             WriteCometFacet(carried, c, facet, v))
    /\ Unobserved

CometFacetLapsed(c, facet) ==
    /\ Apply(LapseCometFacet(reference, c, facet), LapseCometFacet(carried, c, facet))
    /\ Unobserved

PriceMoved(v) ==
    Apply(Reprice(reference, v), Reprice(carried, v)) /\ Unobserved

Next ==
    \/ BeginLedger
    \/ EndLedger
    \/ Restart
    \/ \E p \in Pools :
          \/ PoolWritten(p)
          \/ PoolDeleted(p)
          \/ LinkDeleted(p)
          \/ PoolBalanceDeleted(p)
          \/ PoolEmissionsDeleted(p)
          \/ \E b \in Backstops : LinkWritten(p, b)
          \/ \E v \in Amounts : PoolBalanceWritten(p, v) \/ PoolEmissionsWritten(p, v)
    \/ \E k \in Pairs :
          \/ SharesDeleted(k)
          \/ AccruedDeleted(k)
          \/ \E v \in Amounts : SharesWritten(k, v) \/ AccruedWritten(k, v)
    \/ \E b \in Backstops :
          InstanceDeleted(b) \/ \E c \in Comets : InstanceWritten(b, c)
    \/ \E c \in Comets :
          \/ CometDeployed(c)
          \/ \E facet \in DOMAIN FacetValues :
                \/ CometFacetLapsed(c, facet)
                \/ \E v \in FacetValues[facet] : CometFacetWritten(c, facet, v)
    \/ \E v \in Amounts \cup {None} : PriceMoved(v)

Spec == Init /\ [][Next]_vars

-----------------------------------------------------------------------------
(***************************************************************************)
(* Every variable stays in its domain.                                     *)
(***************************************************************************)
DirtyEntry == [pair : Pairs, kind : {"upsert", "removal"}]

BackstopTypeOK ==
    /\ phase \in {"idle", "applying"}
    /\ continues \in BOOLEAN
    /\ reference \in Mirror
    /\ carried \in Mirror
    /\ {prior, out, carriedOut} \subseteq State
    /\ dirty \subseteq DirtyEntry
    /\ carriedDirty \subseteq DirtyEntry
    /\ applied \in 0..MaxChanges
    /\ chain \in Chain
    /\ relinked \subseteq Pools

(***************************************************************************)
(* A holder's row exists exactly while one of its two sibling entries      *)
(* does, and shows each half as it was last written: neither a write nor a *)
(* delete of one half clobbers the other (apply/applyDelete, UserBalance   *)
(* and UEmisData).                                                         *)
(***************************************************************************)
HalvesFollowChain ==
    phase = "idle" =>
        \A k \in Pairs :
            IF chain.shares[k] = None /\ chain.accrued[k] = None
            THEN out.positions[k] = None
            ELSE /\ out.positions[k] # None
                 /\ out.positions[k].holder = [shares  |-> chain.shares[k],
                                               accrued |-> chain.accrued[k]]

(***************************************************************************)
(* "a deleted BEmisData entry cannot linger on the pool from a prior       *)
(* ledger's merge" (mergeBackstopEmis): the emission fields of a known     *)
(* pool are those last observed.                                           *)
(***************************************************************************)
EmissionsFollowChain ==
    phase = "idle" =>
        \A p \in Pools :
            out.pools[p] # None => out.pools[p].emissions = chain.emissions[p]

(***************************************************************************)
(* "Every holder's shares<->LP conversion lost its denominator"            *)
(* (applyDelete, PoolBalance): a deleted pool balance is gone, and no      *)
(* position is valued with it.                                             *)
(***************************************************************************)
BalanceFollowsChain ==
    phase = "idle" =>
        \A k \in Pairs :
            out.positions[k] # None /\ out.pools[Pool(k)] # None
                => out.positions[k].poolShares = chain.balances[Pool(k)]

(***************************************************************************)
(* The reported set covers every holder whose valuation inputs moved:      *)
(* own entries, the pool's balance, the linked Comet, the price            *)
(* (bindings/types.go, DirtyBackstop).  Left out: pools whose link to a    *)
(* Comet moved in this ledger, and pools whose prior state does not carry  *)
(* the balance it was valued with.                                         *)
(***************************************************************************)
BalanceReloads(s, p) ==
    \A k \in Pairs : Pool(k) = p /\ s.positions[k] # None
        => s.positions[k].poolShares = Stored(s.pools, "balance")[p]

DirtyBackstopsComplete ==
    phase = "idle" =>
        \A k \in Pairs :
            \/ out.positions[k] = prior.positions[k]
            \/ Pool(k) \in relinked
            \/ ~BalanceReloads(prior, Pool(k))
            \/ [pair |-> k,
                kind |-> IF out.positions[k] = None THEN "removal" ELSE "upsert"]
                   \in dirty

(***************************************************************************)
(* "reports exactly which (address, pool) backstop pairs that ledger's     *)
(* changes invalidated" (bindings/types.go, DirtyBackstopsProvider), also  *)
(* when a pool is linked to another Comet (Backstop entry, backstop        *)
(* instance) or disappears.                                                *)
(***************************************************************************)
RelinkedBackstopsReported ==
    phase = "idle" =>
        \A k \in Pairs :
            \/ out.positions[k] = prior.positions[k]
            \/ ~BalanceReloads(prior, Pool(k))
            \/ \E d \in dirty : d.pair = k

(***************************************************************************)
(* The incremental decode values every holder as the paranoid one does and *)
(* reports the same holders, although it keeps Comet facets the carrier    *)
(* does not distinguish (restoreComet, normalizeCarry).                    *)
(***************************************************************************)
StrategiesValueAlike ==
    /\ carriedOut.positions = out.positions
    /\ carriedOut.pools = out.pools
    /\ carriedDirty = dirty

(***************************************************************************)
(* "Output is byte-identical to paranoid" (blend/config.go,                *)
(* StateModeIncremental): the Comet carrier too.                           *)
(***************************************************************************)
StrategiesCarryAlike == carriedOut.ammPools = out.ammPools
=============================================================================
