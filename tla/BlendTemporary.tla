---------------------------- MODULE BlendTemporary ----------------------------
(***************************************************************************)
(* The short-lived entries of a Blend pool and what hangs on a reserve     *)
(* token (blend/state.go): auctions and queued reserve changes, whose      *)
(* transitions the caller is told one by one (LastTemporaryStateChanges,   *)
(* ProjectTemporaryStateChanges); the emissions of a reserve's two sides,  *)
(* of a user, and of the pool.                                             *)
(*                                                                         *)
(* A reserve token is 2 * index + side.  An emission entry names the token *)
(* only: which asset it belongs to goes through the index its ResConfig    *)
(* declared, if one was decoded.                                           *)
(*                                                                         *)
(* `entries' is the external truth: what each entry last said that could   *)
(* be decoded, since it last went not-live.  The host commits a decode or  *)
(* drops it and decodes again; it may restart at any point.                *)
(***************************************************************************)
EXTENDS Integers, FiniteSets

CONSTANTS
    None,
    Pools, Users, Assets, AuctionTypes,
    Tokens,        \* reserve tokens the chain has entries for
    IndexOf,       \* the index the pool contract gave each asset, for good
    Terms,         \* contents of an auction or a queued change
    Amounts,       \* contents of an emission entry
    Versions,      \* 1: rates in EmisConfig; 2: rates in EmisData as well
    Scopes,        \* bound: the families of entries one behaviour changes
    MaxChanges     \* bound: changes of one ledger

Families == {"auction", "queued", "user emission", "emission", "reserve", "pool"}

ASSUME TokensAssumption ==
    /\ Tokens \subseteq Nat
    /\ IndexOf \in [Assets -> Nat]
    /\ \A a, b \in Assets : IndexOf[a] = IndexOf[b] => a = b
    /\ Versions \subseteq {1, 2}
    /\ Scopes \subseteq SUBSET Families
    /\ MaxChanges \in Nat

AuctionKeys == Pools \X Users \X AuctionTypes     \* typedAuctionEntityKey
QueuedKeys == Pools \X Assets                     \* typedReserveEntityKey
Ids == AuctionKeys \cup QueuedKeys
UserKeys == Users \X Pools \X Tokens              \* typedUserEmisEntityKey
TokenKeys == Pools \X Tokens

ASSUME TemporaryNamesAssumption ==
    /\ None \notin Assets \cup Terms \cup Amounts
    /\ AuctionKeys \cap QueuedKeys = {}

Emissions == [rate : Amounts \cup {None}, accrual : Amounts \cup {None}]

Reserve == [index : Nat, known : BOOLEAN, emis : [{0, 1} -> Emissions]]

Pool == [reserves : [Assets -> Reserve \cup {None}], split : Amounts \cup {None}]

LedgerState == [pools    : [Pools -> Pool \cup {None}],
                auctions : [AuctionKeys -> Terms \cup {None}],
                queued   : [QueuedKeys -> Terms \cup {None}],
                users    : [UserKeys -> Amounts \cup {None}]]

Absent(keys) == [k \in keys |-> None]

EmptyState == [pools    |-> Absent(Pools),
               auctions |-> Absent(AuctionKeys),
               queued   |-> Absent(QueuedKeys),
               users    |-> Absent(UserKeys)]

-----------------------------------------------------------------------------
(* Pools, reserves and their tokens.                                       *)

EnsurePool(pool) ==
    IF pool = None THEN [reserves |-> Absent(Assets), split |-> None] ELSE pool

NoEmissions == [s \in {0, 1} |-> [rate |-> None, accrual |-> None]]

\* Mutant: a reserve met without its ResConfig passes for the one at index 0.
EnsureReserveKnown(reserve) ==
    IF reserve = None THEN [index |-> 0, known |-> TRUE, emis |-> NoEmissions]
    ELSE reserve

EnsureReserve(reserve) ==
    IF reserve = None THEN [index |-> 0, known |-> FALSE, emis |-> NoEmissions]
    ELSE reserve

\* Mutant: the index counts whether a ResConfig declared it or not.
ReserveByAnyIndex(pool, i) ==
    LET claimants == {a \in Assets : pool.reserves[a] # None /\ pool.reserves[a].index = i}
    IN  IF claimants = {} THEN None ELSE CHOOSE a \in claimants : TRUE

\* The asset whose declared index is i, if it is the only one.
ReserveByIndex(pool, i) ==
    LET claimants == {a \in Assets : /\ pool.reserves[a] # None
                                     /\ pool.reserves[a].known
                                     /\ pool.reserves[a].index = i}
    IN  IF \E a \in Assets : claimants = {a}
        THEN CHOOSE a \in Assets : claimants = {a}
        ELSE None

\* The fields an entry sets or clears, on the side of the reserve its token
\* names; a token that resolves to no reserve is dropped.
UpdateSide(pool, token, fields) ==
    LET a == ReserveByIndex(pool, token \div 2)
    IN  IF a = None THEN pool
        ELSE [pool EXCEPT !.reserves[a].emis[token % 2] =
                 [f \in DOMAIN @ |-> IF f \in DOMAIN fields THEN fields[f] ELSE @[f]]]

SeeReserves(pool, seen) ==
    [pool EXCEPT !.reserves = [a \in Assets |-> IF a \in seen THEN EnsureReserve(@[a])
                                                ELSE @[a]]]

DeclareIndex(pool, a) ==
    [pool EXCEPT !.reserves[a] = [EnsureReserve(@) EXCEPT !.index = IndexOf[a],
                                                          !.known = TRUE]]

\* What an emission entry sets, and what its loss clears.  The loss of EmisData
\* takes the rate with it in both versions.
ConfigFields(v) == [rate |-> v]
DataFields(version, v) ==
    IF version = 2 THEN [rate |-> v, accrual |-> v] ELSE [accrual |-> v]
ConfigCleared == [rate |-> None]
\* Mutant: the rate of a lost EmisData stays.
AccrualCleared == [accrual |-> None]
DataCleared == [rate |-> None, accrual |-> None]

-----------------------------------------------------------------------------
(* What the caller is told.                                                *)

Held(state, id) == IF id \in AuctionKeys THEN state.auctions[id] ELSE state.queued[id]

\* finalizeTemporaryStateChanges: the action is that of the final outcome.
Transitions(state, ids) ==
    {[id |-> id, action |-> IF Held(state, id) # None THEN "upsert" ELSE "removal"] :
        id \in ids}

\* ProjectTemporaryStateChanges, and the consumer that keeps the rows: an
\* active row carries the payload of the state, an inactive one ends it.
Project(state, told, rows) ==
    [id \in Ids |->
        IF \E c \in told : c.id = id /\ c.action = "removal" THEN None
        ELSE IF \E c \in told : c.id = id /\ Held(state, id) # None THEN Held(state, id)
        ELSE rows[id]]

\* computeState's UserEmissions: the asset is left out when the token does not
\* resolve.
UserEmissionRows(state) ==
    {[key |-> k, amount |-> state.users[k],
      asset |-> IF state.pools[k[2]] = None THEN None
                ELSE ReserveByIndex(state.pools[k[2]], k[3] \div 2)] :
        k \in {u \in UserKeys : state.users[u] # None}}

-----------------------------------------------------------------------------
VARIABLES
    strategy, version, scope,    \* fixed: decode strategy, pool version, bound
    phase,      \* "idle", "applying" a ledger, or "returned" and not committed
    mirror,     \* the builder; what DecodeState returns when phase is "returned"
    touched,    \* its dirtyTemporary
    committed,  \* the state the host has stored
    carried,    \* the stored state is the one the strategy last returned
    rows,       \* the consumer's rows: auctions and queued changes
    applied,    \* changes applied in this ledger
    entries,    \* history: what the entries say
    settled,    \* history: what they said at the last commit
    changed     \* history: identities this ledger's changes name

fixed == <<strategy, version, scope>>
vars == <<strategy, version, scope, phase, mirror, touched, committed, carried,
          rows, applied, entries, settled, changed>>

Silence == [temporary |-> Absent(Ids), users |-> Absent(UserKeys),
            config |-> Absent(TokenKeys), data |-> Absent(TokenKeys),
            split |-> Absent(Pools)]

Init ==
    /\ strategy \in {"paranoid", "incremental"}
    /\ version \in Versions
    /\ scope \in Scopes
    /\ phase = "idle"
    /\ mirror = EmptyState
    /\ committed = EmptyState
    /\ touched = {}
    /\ carried = FALSE
    /\ rows = Absent(Ids)
    /\ applied = 0
    /\ entries = Silence
    /\ settled = Silence
    /\ changed = {}

\* Mutant: the mirror goes on whatever the caller has committed.
ContinuesAlways == strategy = "incremental"

Continues == strategy = "incremental" /\ carried

BeginLedger ==
    /\ phase = "idle"
    /\ phase' = "applying"
    /\ mirror' = IF Continues THEN mirror ELSE committed
    /\ touched' = {}
    /\ changed' = {}
    /\ UNCHANGED <<fixed, committed, carried, rows, applied, entries, settled>>

EndLedger ==
    /\ phase = "applying"
    /\ phase' = "returned"
    /\ applied' = 0
    /\ UNCHANGED <<fixed, mirror, touched, committed, carried, rows, entries, settled, changed>>

Told == Transitions(mirror, touched)

Commit ==
    /\ phase = "returned"
    /\ phase' = "idle"
    /\ committed' = mirror
    /\ carried' = TRUE
    /\ rows' = Project(mirror, Told, rows)
    /\ settled' = entries
    /\ UNCHANGED <<fixed, mirror, touched, applied, entries, changed>>

\* The ledger is taken back, and will be decoded again.
Abandon ==
    /\ phase' = "idle"
    /\ carried' = FALSE
    /\ applied' = 0
    /\ entries' = settled
    /\ UNCHANGED <<fixed, committed, rows, settled, changed>>

DropResult == phase = "returned" /\ Abandon /\ UNCHANGED <<mirror, touched>>

Restart == Abandon /\ mirror' = EmptyState /\ touched' = {}

-----------------------------------------------------------------------------
(* apply / applyDelete.                                                    *)

Step(next, said) ==
    /\ phase = "applying"
    /\ applied < MaxChanges
    /\ applied' = applied + 1
    /\ mirror' = next
    /\ entries' = said
    /\ UNCHANGED <<fixed, phase, committed, carried, rows, settled>>

Change(family, next, said) ==
    family \in scope /\ Step(next, said) /\ UNCHANGED <<touched, changed>>

Transition(family, id, next, v) ==
    /\ family \in scope
    /\ Step(next, [entries EXCEPT !.temporary[id] = v])
    /\ touched' = touched \cup {id}
    /\ changed' = changed \cup {id}

\* A value that does not decode whole: nothing moves.
MalformedWritten == Change("auction", mirror, entries)

AuctionWritten(k, v) == Transition("auction", k, [mirror EXCEPT !.auctions[k] = v], v)

\* Mutant: only an auction that was known is reported.
AuctionGoneIfKnown(k) ==
    /\ "auction" \in scope
    /\ Step([mirror EXCEPT !.auctions[k] = None], [entries EXCEPT !.temporary[k] = None])
    /\ touched' = IF mirror.auctions[k] = None THEN touched ELSE touched \cup {k}
    /\ changed' = changed \cup {k}

\* Filled, deleted, lapsed or evicted alike.
AuctionGone(k) == Transition("auction", k, [mirror EXCEPT !.auctions[k] = None], None)

ReserveQueued(k, v) == Transition("queued", k, [mirror EXCEPT !.queued[k] = v], v)

QueueResolved(k) == Transition("queued", k, [mirror EXCEPT !.queued[k] = None], None)

UserEmissionWritten(k, v) ==
    Change("user emission", [mirror EXCEPT !.users[k] = v], [entries EXCEPT !.users[k] = v])

UserEmissionGone(k) ==
    Change("user emission", [mirror EXCEPT !.users[k] = None],
           [entries EXCEPT !.users[k] = None])

EmisConfigWritten(p, t, v) ==
    /\ version = 1
    /\ Change("emission",
              [mirror EXCEPT !.pools[p] = UpdateSide(EnsurePool(@), t, ConfigFields(v))],
              [entries EXCEPT !.config[<<p, t>>] = v])

EmisDataWritten(p, t, v) ==
    Change("emission",
           [mirror EXCEPT !.pools[p] = UpdateSide(EnsurePool(@), t, DataFields(version, v))],
           [entries EXCEPT !.data[<<p, t>>] = v])

\* What a not-live change clears, in a pool that is there.
ClearSide(p, t, fields) ==
    IF mirror.pools[p] = None THEN mirror
    ELSE [mirror EXCEPT !.pools[p] = UpdateSide(@, t, fields)]

EmisConfigGone(p, t) ==
    /\ version = 1
    /\ Change("emission", ClearSide(p, t, ConfigCleared),
              [entries EXCEPT !.config[<<p, t>>] = None])

EmisDataGone(p, t) ==
    Change("emission", ClearSide(p, t, DataCleared),
           [entries EXCEPT !.data[<<p, t>>] = None])

PoolEmisWritten(p, v) ==
    Change("pool", [mirror EXCEPT !.pools[p] = [EnsurePool(@) EXCEPT !.split = v]],
           [entries EXCEPT !.split[p] = v])

PoolEmisGone(p) ==
    Change("pool",
           IF mirror.pools[p] = None THEN mirror
           ELSE [mirror EXCEPT !.pools[p].split = None],
           [entries EXCEPT !.split[p] = None])

\* A live pool instance or Config; Config or ResList gone, with all reserves.
PoolSeen(p) == Change("pool", [mirror EXCEPT !.pools[p] = EnsurePool(@)], entries)
PoolDeleted(p) == Change("reserve", [mirror EXCEPT !.pools[p] = None], entries)

\* ResData or ResList: reserves without an index of their own.
ReservesSeen(p, seen) ==
    Change("reserve", [mirror EXCEPT !.pools[p] = SeeReserves(EnsurePool(@), seen)], entries)

ReserveConfigured(p, a) ==
    Change("reserve", [mirror EXCEPT !.pools[p] = DeclareIndex(EnsurePool(@), a)], entries)

\* ResConfig or ResData lapses: kept, with the index if the value survived.
ReserveLapsed(p, a, declared) ==
    /\ mirror.pools[p] # None
    /\ Change("reserve",
              [mirror EXCEPT !.pools[p] = IF declared THEN DeclareIndex(@, a)
                                          ELSE SeeReserves(@, {a})], entries)

ReserveRemoved(p, a) ==
    /\ mirror.pools[p] # None
    /\ Change("reserve", [mirror EXCEPT !.pools[p].reserves[a] = None], entries)

TemporaryChange ==
    \/ MalformedWritten
    \/ \E k \in AuctionKeys : AuctionGone(k) \/ \E v \in Terms : AuctionWritten(k, v)
    \/ \E k \in QueuedKeys : QueueResolved(k) \/ \E v \in Terms : ReserveQueued(k, v)

EmissionChange ==
    \/ \E k \in UserKeys : \/ UserEmissionGone(k)
                           \/ \E v \in Amounts : UserEmissionWritten(k, v)
    \/ \E p \in Pools, t \in Tokens :
          \/ EmisConfigGone(p, t)
          \/ EmisDataGone(p, t)
          \/ \E v \in Amounts : EmisConfigWritten(p, t, v) \/ EmisDataWritten(p, t, v)
    \/ \E p \in Pools : PoolEmisGone(p) \/ \E v \in Amounts : PoolEmisWritten(p, v)

PoolChange ==
    \/ \E p \in Pools :
          \/ PoolSeen(p)
          \/ PoolDeleted(p)
          \/ \E seen \in SUBSET Assets : ReservesSeen(p, seen)
          \/ \E a \in Assets :
                \/ ReserveConfigured(p, a)
                \/ ReserveRemoved(p, a)
                \/ \E declared \in BOOLEAN : ReserveLapsed(p, a, declared)

Next ==
    \/ BeginLedger \/ TemporaryChange \/ EmissionChange \/ PoolChange
    \/ EndLedger \/ Commit \/ DropResult \/ Restart

Spec == Init /\ [][Next]_vars

-----------------------------------------------------------------------------
(* Properties.                                                             *)

\* Every variable is of its type, and an index a reserve is known by is the
\* one the contract gave its asset (applyReserveConfig is its only author).
TemporaryTypeOK ==
    /\ phase \in {"idle", "applying", "returned"}
    /\ {mirror, committed} \subseteq LedgerState
    /\ \A p \in Pools, a \in Assets :
          mirror.pools[p] # None /\ mirror.pools[p].reserves[a] # None =>
              (mirror.pools[p].reserves[a].known =>
                  mirror.pools[p].reserves[a].index = IndexOf[a])
    /\ touched \subseteq Ids
    /\ rows \in [Ids -> Terms \cup {None}]
    /\ applied \in 0..MaxChanges
    /\ carried \in BOOLEAN

\* LastTemporaryStateChanges reports the identities this ledger's changes name,
\* each once, by how its entry ends: also one first seen at its removal, none of
\* an earlier ledger or of one that was dropped (finalizeTemporaryStateChanges).
TransitionsExact ==
    phase = "returned" =>
        Told = {[id |-> id, action |-> IF entries.temporary[id] # None
                                       THEN "upsert" ELSE "removal"] : id \in changed}

\* A consumer that keeps only the lifecycle rows it is sent holds what the chain
\* holds, and so does the full slice of the state, whatever was dropped, decoded
\* again or lost (ProjectTemporaryStateChanges, buildAuctions, loadPrior).
LifecycleFollowsChain ==
    phase = "idle" =>
        \A id \in Ids : /\ rows[id] = entries.temporary[id]
                        /\ Held(committed, id) = entries.temporary[id]

\* The tokens of an asset's side.
TokenOf(a, side) == 2 * IndexOf[a] + side

\* Every emission field shown of a side is what a live entry of its own token
\* says, never a lost entry's, another side's or another asset's; and the pool's
\* split is its entry's ("would fabricate an active emission").
EmissionsFollowEntries ==
    \A p \in Pools : committed.pools[p] # None /\ phase = "idle" =>
        /\ committed.pools[p].split \in {None, entries.split[p]}
        /\ \A a \in Assets, side \in {0, 1} :
              LET reserve == committed.pools[p].reserves[a]
                  key     == <<p, TokenOf(a, side)>>
              IN  reserve # None =>
                  /\ reserve.emis[side].accrual # None =>
                        key \in TokenKeys /\ reserve.emis[side].accrual = entries.data[key]
                  /\ reserve.emis[side].rate # None =>
                        /\ key \in TokenKeys
                        /\ reserve.emis[side].rate \in
                              (IF version = 1 THEN {entries.config[key]}
                               ELSE {entries.data[key]})

\* A user's accrual is shown once, as last written, under the asset its token
\* belongs to on chain or under none ("never guessed").
UserEmissionsAttributed ==
    phase = "idle" =>
        /\ \A k \in UserKeys : committed.users[k] = entries.users[k]
        /\ \A row \in UserEmissionRows(committed) :
              row.asset # None => IndexOf[row.asset] = row.key[3] \div 2
=============================================================================
