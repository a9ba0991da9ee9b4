----------------------------- MODULE BlendParanoid -----------------------------
(***************************************************************************)
(* The reference state decode (blend/state.go, decodeBlendState): every    *)
(* ledger rebuilds the mirror from the LedgerState the caller passes,      *)
(* applies the ledger's changes in order, and rebuilds the whole output.   *)
(* It keeps nothing between decodes: the mirror is then empty.             *)
(***************************************************************************)
EXTENDS BlendDecode

Init == InitDecode

\* The caller passes what the last decode returned, or again what that decode
\* had started from (it failed to commit the result).
BeginLedger(base) ==
    /\ StartDecode(base)
    /\ mirror' = LoadPrior(base)

\* Mutant: only the pools the mirror still holds are compared.
RemappedByLivePools ==
    {k \in Pairs : /\ mirror.pending[k] # None
                   /\ Pool(k) \in mirror.live
                   /\ PoolIndex(prior, Pool(k)) # PoolIndex(mirror, Pool(k))}

(***************************************************************************)
(* markPoolRemapDirty: a pool whose published mapping is not the one of    *)
(* the prior state changes what every one of its pending users resolves    *)
(* to.                                                                     *)
(***************************************************************************)
RemappedPairs ==
    {k \in Pairs : /\ mirror.pending[k] # None
                   /\ PoolIndex(prior, Pool(k)) # PoolIndex(mirror, Pool(k))}

CloseLedger ==
    /\ FinishDecode(Build(mirror), mirror.touched \cup RemappedPairs)
    /\ mirror' = EmptyMirror

Crash == StopProcess /\ mirror' = EmptyMirror

Next ==
    \/ \E base \in {prior, out} : BeginLedger(base)
    \/ ApplyChange
    \/ CloseLedger
    \/ Crash

Spec == Init /\ [][Next]_decodeVars
=============================================================================
