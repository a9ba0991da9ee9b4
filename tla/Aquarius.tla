------------------------------- MODULE Aquarius -------------------------------
(***************************************************************************)
(* The Aquarius adapter (aquarius/state.go, adapter.go, transform.go).     *)
(* Pools and positions are the LedgerState; which share token belongs to   *)
(* which pool is the adapter's memory, learnt from pool instances.  Each   *)
(* decode first merges the operator's seeds under what is there.  A pool   *)
(* is its total shares, a position its shares (or liquidity), its pending  *)
(* reward, whether it has fees to claim and whether it was held; an absent *)
(* value is None.                                                          *)
(*                                                                         *)
(* `chain' is a history: what the entries said.                            *)
(***************************************************************************)
EXTENDS Integers, Sequences, SequencesExt

CONSTANTS
    None,
    Pools, Owners,
    Ranges,          \* tick ranges of concentrated positions
    Amounts,         \* shares, liquidity or a reward
    Supplies,        \* total shares of a pool
    SeededOwners,    \* owners with a position in the seed of a pool
    SeedAmount,      \* what a seed says of shares and supply
    SeedReward,      \* what it says of a pending reward; None: nothing
    UserRemovals,    \* a bare address key may be removed
    HostRetells,     \* a new process sees the pool instances again first
    MaxChanges,      \* bound: changes of one ledger
    MaxRestarts      \* bound: new processes

Legs == {"classic"} \cup Ranges

\* Positions are told apart by pool, owner and ticks.
Keys == Pools \X Owners \X Legs

\* Changes of a pool contract or its share token; None is a change that is
\* not live, or a pool entry that says nothing of the supply.  "reserves" is
\* an entry that tells the tokens or the type, "teardown" the removal of any
\* entry but a user's.  "position" and "balance" keys, "user" a bare address
\* key, "weight" a working balance, "shares" a balance of the share token.
Changes ==
         [entry : {"instance"}, pool : Pools, supply : Supplies \cup {None},
          allowed : BOOLEAN]
    \cup [entry : {"reserves", "teardown"}, pool : Pools]
    \cup [entry : {"totalshares"}, pool : Pools, supply : Supplies]
    \cup [entry : {"position"}, pool : Pools, owner : Owners, leg : Legs,
          value : Amounts \cup {None}, fees : {FALSE}]
    \cup [entry : {"position"}, pool : Pools, owner : Owners, leg : Ranges,
          value : Amounts, fees : {TRUE}]
    \cup [entry : {"shares", "reward", "weight"}, pool : Pools, owner : Owners,
          value : Amounts \cup {None}]
    \cup [entry : {"user"}, pool : Pools, owner : Owners,
          value : IF UserRemovals THEN Amounts \cup {None} ELSE Amounts]

Ledgers == UNION {[1..n -> Changes] : n \in 0..MaxChanges}

Pool == [supply : Supplies \cup {SeedAmount, None}]
Position == [amount : Nat \cup {None}, reward : Nat \cup {None},
             fees : BOOLEAN, had : BOOLEAN]

AquariusAssumption ==
    /\ Amounts \cup {SeedAmount} \subseteq Nat
    /\ SeedReward \in Nat \cup {None}
    /\ None \notin Nat \cup Supplies \cup Pool \cup Position
    /\ "classic" \notin Ranges
    /\ SeededOwners \subseteq Owners
    /\ UserRemovals \in BOOLEAN /\ HostRetells \in BOOLEAN
    /\ MaxChanges \in Nat /\ MaxRestarts \in Nat

VARIABLES
    seeded,     \* Config.PoolSeeds: the pools the operator seeds, for good
    mapped,     \* Adapter.shareTokens: the pools whose token is known
    pools,      \* LedgerState.AMMPools
    positions,  \* LedgerState.AMMPositions
    restarts,   \* bound only
    chain       \* history: what the entries said

vars == <<seeded, mapped, pools, positions, restarts, chain>>

Nobody == [k \in Keys |-> None]

\* The pools whose token was told, that were ever removed, that are known;
\* what was last said since a removal; the positions said to hold something.
NothingSaid == [told |-> {}, gone |-> {}, known |-> {},
                supplies |-> [p \in Pools |-> None],
                amounts |-> Nobody, rewards |-> Nobody, held |-> {}]

Init ==
    /\ seeded \in SUBSET Pools
    /\ mapped = {}
    /\ pools = [p \in Pools |-> None]
    /\ positions = Nobody
    /\ restarts = 0
    /\ chain = NothingSaid

-----------------------------------------------------------------------------
(* DecodeState.                                                            *)

Unknown == [amount |-> None, reward |-> None, fees |-> FALSE, had |-> FALSE]
Current(s, k) == IF s.positions[k] = None THEN Unknown ELSE s.positions[k]

\* The seed of a pool lists shares and rewards of its owners.
Seeds(k) == k[1] \in seeded /\ k[2] \in SeededOwners /\ k[3] = "classic"

\* Mutant: seeds win over what was decoded.
OverwriteWithSeeds(s) ==
    [s EXCEPT !.positions = [k \in Keys |->
        IF Seeds(k) THEN [Current(s, k) EXCEPT !.amount = SeedAmount] ELSE s.positions[k]]]

\* Mutant: a seed's reward is filled in only where it counts for something.
ReseedRewards(s) ==
    LET Floor(v, seed) == IF v \in {None, 0} THEN seed ELSE v
    IN  [s EXCEPT !.positions = [k \in Keys |->
            IF Seeds(k) THEN [Current(s, k) EXCEPT !.amount = IF @ = None THEN SeedAmount ELSE @,
                                                   !.reward = Floor(@, SeedReward)]
            ELSE s.positions[k]]]

\* What is absent is filled from the seed, without it counting as held.
ApplyPoolSeeds(s) ==
    LET Floor(v, seed) == IF v = None THEN seed ELSE v
    IN  [s EXCEPT
            !.pools = [p \in Pools |->
                IF p \notin seeded THEN s.pools[p]
                ELSE [supply |-> IF s.pools[p] = None THEN SeedAmount
                                 ELSE Floor(s.pools[p].supply, SeedAmount)]],
            !.positions = [k \in Keys |->
                IF Seeds(k) THEN [Current(s, k) EXCEPT !.amount = Floor(@, SeedAmount),
                                                       !.reward = Floor(@, SeedReward)]
                ELSE s.positions[k]]]

\* Mutant: a new write decides alone whether the position was held.
SetAmountForgetting(s, k, v) ==
    [s EXCEPT !.positions[k] = [Current(s, k) EXCEPT !.amount = v, !.had = v # 0]]

\* Shares or liquidity are replaced, the reward stays.
SetAmount(s, k, v) ==
    [s EXCEPT !.positions[k] = [Current(s, k) EXCEPT !.amount = v, !.had = @ \/ v # 0]]

\* A position entry replaces what there is to claim, too.
SetPosition(s, k, v, fees) ==
    [SetAmount(s, k, v) EXCEPT !.positions[k].fees = fees]

SetReward(s, k, v) ==
    [s EXCEPT !.positions[k] = [Current(s, k) EXCEPT !.reward = v]]

\* A removed leg is zero, and stays; one that was never decoded is ignored.
CloseAmount(s, k) ==
    IF s.positions[k] = None THEN s
    ELSE [s EXCEPT !.positions[k] = [@ EXCEPT !.amount = 0, !.fees = FALSE]]

CloseReward(s, k) ==
    IF s.positions[k] = None THEN s ELSE [s EXCEPT !.positions[k].reward = 0]

\* Mutant: the pool's positions are closed with it, the pool stays.
ClosePoolOnly(s, p) ==
    [s EXCEPT !.positions = [k \in Keys |-> IF k[1] = p THEN None ELSE s.positions[k]]]

\* Any other removal: the pool goes, with all its positions.
TearDown(s, p) ==
    [s EXCEPT !.pools[p] = None,
              !.positions = [k \in Keys |-> IF k[1] = p THEN None ELSE s.positions[k]]]

\* What an entry does not say of the pool stays.
WritePool(s, p, supply) ==
    [s EXCEPT !.pools[p] =
        [supply |-> IF supply # None THEN supply ELSE IF @ = None THEN None ELSE @.supply]]

\* The share token is learnt even from an instance of unknown wasm.
WriteInstance(s, c) ==
    LET learnt == [s EXCEPT !.mapped = @ \cup {c.pool}]
    IN  IF c.allowed THEN WritePool(learnt, c.pool, c.supply) ELSE learnt

Decode(s, c) ==
    LET k == <<c.pool, c.owner, "classic">>
    IN  CASE c.entry = "instance" -> WriteInstance(s, c)
          [] c.entry = "reserves" -> WritePool(s, c.pool, None)
          [] c.entry = "totalshares" ->
                IF s.pools[c.pool] = None THEN s ELSE WritePool(s, c.pool, c.supply)
          [] c.entry = "teardown" -> TearDown(s, c.pool)
          [] c.entry = "shares"   ->
                IF c.pool \notin s.mapped THEN s
                ELSE IF c.value = None THEN CloseAmount(s, k) ELSE SetAmount(s, k, c.value)
          [] c.entry = "position" ->
                LET leg == <<c.pool, c.owner, c.leg>>
                IN  IF c.value = None THEN CloseAmount(s, leg)
                    ELSE SetPosition(s, leg, c.value, c.fees)
          [] c.entry = "reward"   ->
                IF c.value = None THEN CloseReward(s, k) ELSE SetReward(s, k, c.value)
          [] c.entry = "user"     ->
                IF c.value = None THEN TearDown(s, c.pool) ELSE SetAmount(s, k, c.value)
          [] c.entry = "weight"   ->
                IF c.value = None THEN s
                ELSE [s EXCEPT !.positions[k] = Current(s, k)]

Reduce(ledger) ==
    FoldLeft(Decode, ApplyPoolSeeds([mapped    |-> mapped, pools |-> pools,
                                     positions |-> positions]), ledger)

\* What an entry says.  A share balance belongs to a pool from the instance
\* on that names the token, a total belongs to a known pool; and the removal
\* of what was not written since its pool was removed says nothing.
Observe(observed, c) ==
    LET k == <<c.pool, c.owner, "classic">>
        Of(was)    == IF c.value # None THEN c.value
                      ELSE IF was = None /\ c.pool \in observed.gone THEN None ELSE 0
        Tell(l)    == [observed EXCEPT !.amounts[l] = Of(@),
                                       !.held = IF c.value \in {None, 0} THEN @ ELSE @ \cup {l}]
        Clear(f)   == [l \in Keys |-> IF l[1] = c.pool THEN None ELSE f[l]]
        Know(o, v) == [o EXCEPT !.known = @ \cup {c.pool},
                                !.supplies[c.pool] = IF v = None THEN @ ELSE v]
    IN  CASE c.entry = "instance" ->
                LET learnt == [observed EXCEPT !.told = @ \cup {c.pool}]
                IN  IF c.allowed THEN Know(learnt, c.supply) ELSE learnt
          [] c.entry = "reserves" -> Know(observed, None)
          [] c.entry = "totalshares" /\ c.pool \in observed.known -> Know(observed, c.supply)
          [] c.entry = "teardown" ->
                [observed EXCEPT !.gone = @ \cup {c.pool}, !.known = @ \ {c.pool},
                                 !.supplies[c.pool] = None,
                                 !.amounts = Clear(@), !.rewards = Clear(@),
                                 !.held = {l \in @ : l[1] # c.pool}]
          [] c.entry = "position" -> Tell(<<c.pool, c.owner, c.leg>>)
          [] c.entry = "user" \/ (c.entry = "shares" /\ c.pool \in observed.told) -> Tell(k)
          [] c.entry = "reward" -> [observed EXCEPT !.rewards[k] = Of(@)]
          [] OTHER -> observed

Ledger(ledger) ==
    LET next == Reduce(ledger)
    IN  /\ mapped' = next.mapped
        /\ pools' = next.pools
        /\ positions' = next.positions
        /\ chain' = FoldLeft(Observe, [chain EXCEPT !.known = @ \cup seeded], ledger)
        /\ UNCHANGED <<seeded, restarts>>

\* A new adapter decodes on from the committed LedgerState; what it knows of
\* share tokens is what its host lets it see of the instances again.
Restart ==
    /\ restarts < MaxRestarts
    /\ restarts' = restarts + 1
    /\ mapped' = IF HostRetells THEN mapped ELSE {}
    /\ UNCHANGED <<seeded, pools, positions, chain>>

Next == Restart \/ \E ledger \in Ledgers : Ledger(ledger)

Spec == Init /\ [][Next]_vars

-----------------------------------------------------------------------------
(* Transform, and the properties.                                          *)

\* The components a position emits when its pool is known: its principal, and
\* a range's unclaimed fees.  Shares without a total are quarantined.  The
\* pool's type decides which legs it has; here a pool has both.
Rows(k) ==
    LET pos    == positions[k]
        closed == pos.amount = 0 /\ pos.had
        lives  == pos.amount \notin {None, 0} /\ (k[3] \in Ranges \/ pools[k[1]].supply # None)
        Row(kind, live) == [kind |-> kind, live |-> live]
    IN  IF pos = None \/ pools[k[1]] = None THEN {}
        ELSE (IF closed THEN {Row("principal", FALSE)}
              ELSE IF lives THEN {Row("principal", TRUE)} ELSE {})
             \cup (IF k[3] \in Ranges /\ pos.fees /\ ~closed THEN {Row("fees", TRUE)} ELSE {})

\* The state is of its type; only classic positions have rewards.
AquariusTypeOK ==
    /\ seeded \subseteq Pools /\ mapped \subseteq Pools
    /\ \A p \in Pools : pools[p] # None => pools[p] \in Pool
    /\ \A k \in Keys : positions[k] # None =>
            /\ positions[k] \in Position
            /\ k[3] # "classic" => positions[k].reward = None

Amount(k) == IF positions[k] = None THEN None ELSE positions[k].amount
Reward(k) == IF positions[k] = None THEN None ELSE positions[k].reward

\* A value that was observed is what it is; one that was not is the seed's or
\* absent, or zero if it was removed after its pool was.
Follows(v, said, isSeeded, seed, removed) ==
    IF said # None THEN v = said \/ (said = 0 /\ v = None)
    ELSE \/ v = None
         \/ isSeeded /\ v = seed
         \/ removed /\ v = 0

\* applyPoolSeeds: "Values the decoder already observed from the chain are
\* never overridden", and what was never observed, or was removed with its
\* pool, is the seed's or absent.
AmountsFollowChain ==
    \A k \in Keys :
        Follows(Amount(k), chain.amounts[k], Seeds(k), SeedAmount, k[1] \in chain.gone)

\* UserRewardData and shares are separate entries of one position: neither
\* write nor removal of one changes what the other said, or the seed.
RewardsFollowChain ==
    \A k \in Keys :
        Follows(Reward(k), chain.rewards[k], Seeds(k), SeedReward, k[1] \in chain.gone)

\* applyPoolSeeds, applyEntryRemoval: a pool that comes back after its removal,
\* by its seed, an instance or part of its entries, has the total shares its
\* entries said since, or the seed's, and never those from before.
PoolsFollowChain ==
    \A p \in Pools :
        pools[p] # None =>
            IF chain.supplies[p] # None THEN pools[p].supply = chain.supplies[p]
            ELSE pools[p].supply = None \/ (p \in seeded /\ pools[p].supply = SeedAmount)

\* Transform: the principal rows of a position an entry said to hold something
\* are overwritten with zero tombstones once it is closed, "so the
\* latest-per-id current view stops surfacing the pre-close rows".
ClosedRowsEmitTombstones ==
    \A k \in chain.held :
        (pools[k[1]] # None /\ chain.amounts[k] = 0) =>
            [kind |-> "principal", live |-> FALSE] \in Rows(k)

\* The same of every row that was emitted, as long as its pool is known.
RowsAreOverwritten ==
    [][\A k \in Keys : pools'[k[1]] # None =>
          \A row \in Rows(k) : \E next \in Rows(k)' : next.kind = row.kind]_vars
=============================================================================
