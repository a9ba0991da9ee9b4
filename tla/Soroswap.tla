------------------------------- MODULE Soroswap -------------------------------
(***************************************************************************)
(* The Soroswap adapter (soroswap/state.go, adapter.go, transform.go).     *)
(* A ledger is decoded in two passes over its changes: the first learns    *)
(* pairs from the factory's registry, the second decodes the changes of    *)
(* known pairs.  The pairs are the adapter's memory; pools and positions   *)
(* are the LedgerState.  A value is a member of a small set, the contents  *)
(* of a pair instance is one value and its wasm hash.                      *)
(*                                                                         *)
(* `chain' and `held' are histories of what the ledgers said, whatever the *)
(* decode made of it.                                                      *)
(***************************************************************************)
EXTENDS Integers, Sequences, SequencesExt

CONSTANTS
    None,
    Pairs, Holders,
    Shares,          \* LP balances an entry may hold
    Contents,        \* what a pair instance holds: tokens, reserves, supply
    Seeded,          \* pairs the first process is told (RegisterPairContracts)
    HostRetells,     \* the host tells a new process the pairs of the old one
    MaxChanges,      \* bound: changes of one ledger
    MaxRestarts      \* bound: new processes

Keys == Pairs \X Holders

\* A change of a ledger.  "lapsed" is a not-live change that is no Removed;
\* a Restored change is a written one.
Changes ==
         [kind : {"registered"}, pair : Pairs]
    \cup [kind : {"instance"}, pair : Pairs, contents : Contents, allowed : BOOLEAN]
    \cup [kind : {"balance"}, pair : Pairs, holder : Holders, shares : Shares]
    \cup [kind : {"removed", "lapsed"}, pair : Pairs, holder : Holders]

Ledgers == UNION {[1..n -> Changes] : n \in 0..MaxChanges}

Position == [shares : Nat, hadShares : BOOLEAN]

SoroswapAssumption ==
    /\ Shares \subseteq Nat /\ None \notin Nat \cup Contents \cup Position
    /\ Seeded \subseteq Pairs /\ HostRetells \in BOOLEAN
    /\ MaxChanges \in Nat /\ MaxRestarts \in Nat

Dirty == [key : Keys, kind : {"upsert", "removal"}]

VARIABLES
    pairs,      \* Adapter.pairs, in memory
    pools,      \* LedgerState.AMMPools
    positions,  \* LedgerState.AMMPositions
    dirty,      \* LastDirtyPositions
    restarts,   \* bound only
    chain,      \* history: registered pairs, last balance of each holder
    held        \* history: holders seen with a positive balance

vars == <<pairs, pools, positions, dirty, restarts, chain, held>>

Init ==
    /\ pairs = Seeded
    /\ pools = [p \in Pairs |-> None]
    /\ positions = [k \in Keys |-> None]
    /\ dirty = {}
    /\ restarts = 0
    /\ chain = [registered |-> Seeded, balances |-> [k \in Keys |-> None]]
    /\ held = {}

-----------------------------------------------------------------------------
(* DecodeState.                                                            *)

\* The discovery pass.
Discover(known, ledger) ==
    known \cup {c.pair : c \in {c \in ToSet(ledger) : c.kind = "registered"}}

HadShares(s, k) == s.positions[k] # None /\ s.positions[k].hadShares

\* Mutant: a first balance does not count as held.
UpsertUnheld(s, k, shares) ==
    [s EXCEPT !.positions[k] = [shares |-> shares, hadShares |-> HadShares(s, k)],
              !.dirty = @ \cup {[key |-> k, kind |-> "upsert"]}]

UpsertPosition(s, k, shares) ==
    [s EXCEPT !.positions[k] = [shares    |-> shares,
                                hadShares |-> HadShares(s, k) \/ shares # 0],
              !.dirty = @ \cup {[key |-> k, kind |-> "upsert"]}]

\* Mutant: a removed position forgets that it was held.
ForgetPosition(s, k) ==
    [s EXCEPT !.positions[k] = [shares |-> 0, hadShares |-> FALSE],
              !.dirty = @ \cup {[key |-> k, kind |-> "removal"]}]

\* Mutant: a removed position is not reported.
TombstoneQuietly(s, k) ==
    [s EXCEPT !.positions[k] = [shares |-> 0, hadShares |-> HadShares(s, k)]]

TombstonePosition(s, k) ==
    [s EXCEPT !.positions[k] = [shares |-> 0, hadShares |-> HadShares(s, k)],
              !.dirty = @ \cup {[key |-> k, kind |-> "removal"]}]

\* One change of the state pass.  An instance of unknown wasm is skipped, an
\* archived balance keeps what was decoded of it.
Decode(known, s, c) ==
    IF c.pair \notin known THEN s
    ELSE CASE c.kind = "instance" /\ c.allowed -> [s EXCEPT !.pools[c.pair] = c.contents]
           [] c.kind = "balance" -> UpsertPosition(s, <<c.pair, c.holder>>, c.shares)
           [] c.kind = "removed" -> TombstonePosition(s, <<c.pair, c.holder>>)
           [] OTHER -> s

Reduce(known, ledger) ==
    FoldLeft(LAMBDA s, c : Decode(known, s, c),
             [pools |-> pools, positions |-> positions, dirty |-> {}], ledger)

\* What the ledger says, in order.
Observe(observed, c) ==
    CASE c.kind = "registered" -> [observed EXCEPT !.registered = @ \cup {c.pair}]
      [] c.kind = "balance"    -> [observed EXCEPT !.balances[<<c.pair, c.holder>>] = c.shares]
      [] c.kind = "removed"    -> [observed EXCEPT !.balances[<<c.pair, c.holder>>] = 0]
      [] OTHER                 -> observed

\* Mutant: one pass, a pair is known once its registration was reached.
DecodeInOnePass(ledger) ==
    LET Step(s, c) == [known |-> Discover(s.known, <<c>>),
                       state |-> Decode(Discover(s.known, <<c>>), s.state, c)]
        last == FoldLeft(Step, [known |-> pairs,
                                state |-> [pools |-> pools, positions |-> positions,
                                           dirty |-> {}]], ledger)
    IN  /\ pairs' = last.known
        /\ pools' = last.state.pools
        /\ positions' = last.state.positions
        /\ dirty' = last.state.dirty

DecodeState(ledger) ==
    LET known == Discover(pairs, ledger)
        next  == Reduce(known, ledger)
    IN  /\ pairs' = known
        /\ pools' = next.pools
        /\ positions' = next.positions
        /\ dirty' = next.dirty

\* A pair writes nothing before the ledger that registers it, but in that
\* ledger its changes may come first.
Ledger(ledger) ==
    /\ \A i \in DOMAIN ledger :
            ledger[i].pair \in chain.registered \/ ledger[i].pair \in Discover({}, ledger)
    /\ DecodeState(ledger)
    /\ chain' = FoldLeft(Observe, chain, ledger)
    /\ held' = held \cup {<<c.pair, c.holder>> :
                  c \in {c \in ToSet(ledger) : c.kind = "balance" /\ c.shares > 0}}
    /\ UNCHANGED restarts

\* A new adapter decodes on from the committed LedgerState, knowing the pairs
\* its host registers.
Restart ==
    /\ restarts < MaxRestarts
    /\ restarts' = restarts + 1
    /\ pairs' = IF HostRetells THEN pairs ELSE Seeded
    /\ dirty' = {}
    /\ UNCHANGED <<pools, positions, chain, held>>

Next == Restart \/ \E ledger \in Ledgers : Ledger(ledger)

Spec == Init /\ [][Next]_vars

-----------------------------------------------------------------------------
(* Transform, and the properties.                                          *)

\* The rows a position emits: live components, zero tombstones, or nothing.
Rows(k) ==
    CASE positions[k] = None \/ pools[k[1]] = None -> "none"
      [] positions[k].shares # 0                   -> "live"
      [] positions[k].hadShares                    -> "tombstone"
      [] OTHER                                     -> "none"

\* State and dirty set are of their types; a live position was held.
SoroswapTypeOK ==
    /\ pairs \in SUBSET Pairs
    /\ \A p \in Pairs : pools[p] \in Contents \cup {None}
    /\ \A k \in Keys : positions[k] # None =>
            /\ positions[k] \in Position
            /\ positions[k].shares # 0 => positions[k].hadShares
    /\ dirty \subseteq Dirty

\* DecodeState: of every pair the factory registered, however the changes of
\* a ledger are ordered, the position is the holder's last balance.
PositionsFollowChain ==
    \A k \in Keys : k[1] \in chain.registered =>
        IF chain.balances[k] = None THEN positions[k] = None
        ELSE positions[k] # None /\ positions[k].shares = chain.balances[k]

\* Transform: once a holder had shares, its rows are overwritten with zero
\* tombstones as long as it has none, and a holder that never had any is silent.
ClosedPositionsEmitTombstones ==
    \A k \in Keys : (pools[k[1]] # None /\ chain.balances[k] = 0) =>
        (Rows(k) = "tombstone" <=> k \in held)

\* LastDirtyPositions: every position that moved is reported, every reported
\* one is in the state, and one reported only as removed is empty.
DirtyPositionsComplete ==
    [][\A k \in Keys :
        LET kinds == {d.kind : d \in {d \in dirty' : d.key = k}}
        IN  /\ positions'[k] # positions[k] => kinds # {}
            /\ kinds # {} => positions'[k] # None
            /\ kinds = {"removal"} => positions'[k].shares = 0]_vars
=============================================================================
