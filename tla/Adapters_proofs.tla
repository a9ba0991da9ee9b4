--------------------------- MODULE Adapters_proofs ---------------------------
(***************************************************************************)
(* Proofs about the three smaller adapters, for any pairs, holders, vaults, *)
(* pools, amounts and ledgers.  A ledger is decoded by a fold over its     *)
(* entries; what holds of every prefix of it is proved by induction over a *)
(* set of prefixes.                                                        *)
(***************************************************************************)
EXTENDS Adapters, Sequences, FiniteSetTheorems, WellFoundedInduction, TLAPS

-----------------------------------------------------------------------------
(* Folds over a ledger.                                                    *)

LEMMA LeastOf ==
    ASSUME NEW set \in SUBSET Nat, set # {}
    PROVE  \E m \in set : \A x \in set : m <= x
<1>1. PICK m \in set : \A x \in set : <<x, m>> \notin OpToRel(<, Nat)
  BY WFMin, NatLessThanWellFounded, Zenon
<1>2. \A x \in set : ~ (x < m)
  BY <1>1, Zenon DEF OpToRel
<1> QED
  BY <1>2

\* What holds of the empty prefix, and of one entry more, holds of them all.
LEMMA Prefixes ==
    ASSUME NEW n \in Nat, NEW good,
           0 \in good,
           \A i \in 0..n : i < n /\ i \in good => i + 1 \in good
    PROVE  \A i \in 0..n : i \in good
<1> DEFINE bad == {i \in 0..n : i \notin good}
<1>1. SUFFICES ASSUME bad # {}
               PROVE  FALSE
  OBVIOUS
<1>2. bad \in SUBSET Nat
  OBVIOUS
<1>3. PICK m \in bad : \A x \in bad : m <= x
  BY <1>1, <1>2, LeastOf
<1>4. m \in 1..n /\ m \notin good
  OBVIOUS
<1>5. m - 1 \in 0..n /\ m - 1 \notin bad /\ m - 1 < n
  BY <1>3, <1>4
<1>6. m - 1 \in good
  BY <1>5
<1>7. (m - 1) + 1 \in good
  BY <1>5, <1>6
<1> QED
  BY <1>4, <1>7

LEMMA HighestOf ==
    ASSUME NEW n \in Nat, NEW set \in SUBSET (1..n), set # {}
    PROVE  LET m == CHOOSE x \in set : \A y \in set : x >= y
           IN  m \in set /\ \A y \in set : m >= y
<1> DEFINE below == {i \in 0..n : n - i \in set}
<1>1. below \in SUBSET Nat /\ below # {}
  <2>1. PICK x \in set : x \in 1..n
    OBVIOUS
  <2>2. n - x \in 0..n /\ n - (n - x) = x
    BY <2>1
  <2>3. n - x \in below
    BY <2>2
  <2>4. \A i \in below : i \in Nat
    OBVIOUS
  <2> QED
    BY <2>3, <2>4
<1>2. PICK i \in below : \A j \in below : i <= j
  BY <1>1, LeastOf
<1>3. \A y \in set : n - i >= y
  <2> TAKE y \in set
  <2>1. y \in 1..n
    OBVIOUS
  <2>2. n - y \in 0..n /\ n - (n - y) = y
    BY <2>1
  <2>3. i <= n - y
    BY <1>2, <2>2
  <2> QED
    BY <2>1, <2>3
<1>4. \E x \in set : \A y \in set : x >= y
  BY <1>3
<1> QED
  BY <1>4

\* The highest entry of a prefix is its last.
LEMMA LastOf ==
    ASSUME NEW n \in Nat, NEW i \in 1..n
    PROVE  /\ 1..i \in SUBSET (1..n) /\ 1..i # {}
           /\ (CHOOSE x \in 1..i : \A y \in 1..i : x >= y) = i
           /\ (1..i) \ {i} = 1..(i - 1)
<1>1. i \in 1..i /\ \A y \in 1..i : i >= y
  OBVIOUS
<1>2. \A x \in 1..i : (\A y \in 1..i : x >= y) => x = i
  BY <1>1
<1>3. (CHOOSE x \in 1..i : \A y \in 1..i : x >= y) = i
  BY <1>1, <1>2
<1>4. 1..i \in SUBSET (1..n) /\ (1..i) \ {i} = 1..(i - 1)
  OBVIOUS
<1> QED
  BY <1>1, <1>3, <1>4

\* The entry a fold takes last.
Latest == [s \in SUBSET Nat |-> CHOOSE x \in s : \A y \in s : x >= y]

LEMMA LatestOf ==
    ASSUME NEW n \in Nat
    PROVE  /\ \A s \in SUBSET (1..n) : s # {} => Latest[s] \in s
           /\ \A i \in 1..n : /\ 1..i \in SUBSET (1..n) /\ 1..i # {}
                             /\ Latest[1..i] = i
                             /\ (1..i) \ {i} = 1..(i - 1)
<1>1. \A s \in SUBSET (1..n) : s \in SUBSET Nat
  OBVIOUS
<1>2. \A s \in SUBSET (1..n) : s # {} => Latest[s] \in s
  BY <1>1, HighestOf DEF Latest
<1>3. \A i \in 1..n : 1..i \in SUBSET Nat
  OBVIOUS
<1> QED
  BY <1>2, <1>3, LastOf DEF Latest

\* A fold of the first n entries by step, over every set of them, and the
\* states it goes through.
FoldOf(States, start, n, step, fold) ==
    /\ fold \in [SUBSET (1..n) -> States]
    /\ \A s \in SUBSET (1..n) :
          fold[s] = IF s = {} THEN start
                    ELSE step[<<Latest[s], fold[s \ {Latest[s]}]>>]

\* A function whose values on the prefixes go by step.
FollowsSteps(States, start, n, step, fold) ==
    /\ fold[{}] = start
    /\ \A i \in 1..n : fold[1..(i - 1)] \in States =>
                         fold[1..i] = step[<<i, fold[1..(i - 1)]>>]

RunOf(States, start, n, step, run) ==
    /\ run \in [0..n -> States]
    /\ run[0] = start
    /\ \A i \in 1..n : run[i] = step[<<i, run[i - 1]>>]

\* The function a fold is defined by exists.
LEMMA FoldExists ==
    ASSUME NEW States, NEW start \in States, NEW n \in Nat,
           NEW step \in [(1..n) \X States -> States]
    PROVE  \E fold : FoldOf(States, start, n, step, fold)
<1> DEFINE Small(k) == {s \in SUBSET (1..n) : Cardinality(s) <= k}
           Body(f, s) == IF s = {} THEN start
                         ELSE step[<<Latest[s], f[s \ {Latest[s]}]>>]
           Fits(f, k) == f \in [Small(k) -> States] /\ \A s \in Small(k) : f[s] = Body(f, s)
           good == {k \in Nat : \E f : Fits(f, k)}
<1>1. \A s \in SUBSET (1..n) : IsFiniteSet(s) /\ Cardinality(s) \in Nat /\ Cardinality(s) <= n
  <2> TAKE s \in SUBSET (1..n)
  <2>1. IsFiniteSet(1..n) /\ Cardinality(1..n) = n
    BY FS_Interval
  <2> DEFINE all == 1..n
  <2>2. IsFiniteSet(all) /\ Cardinality(all) = n /\ s \in SUBSET all
    BY <2>1
  <2> HIDE DEF all
  <2>3. IsFiniteSet(s) /\ Cardinality(s) <= Cardinality(all)
    BY <2>2, FS_Subset
  <2> QED
    BY <2>2, <2>3, FS_CardinalityType
<1>2. \A s \in SUBSET (1..n) : s # {} =>
         /\ Latest[s] \in s
         /\ s \ {Latest[s]} \in SUBSET (1..n)
         /\ Cardinality(s \ {Latest[s]}) = Cardinality(s) - 1
  BY <1>1, LatestOf, FS_RemoveElement
<1>3. 0 \in good
  <2>1. Small(0) = {{}}
    BY <1>1, FS_EmptySet
  <2>2. Fits([s \in Small(0) |-> start], 0)
    BY <2>1
  <2> QED
    BY <2>2
<1>4. ASSUME NEW k \in 0..n, k < n, k \in good
      PROVE  k + 1 \in good
  <2>1. PICK f : Fits(f, k)
    BY <1>4
  <2> DEFINE g == [s \in Small(k + 1) |-> Body(f, s)]
  <2>2. \A s \in Small(k + 1) : s # {} => s \ {Latest[s]} \in Small(k)
    <3> TAKE s \in Small(k + 1)
    <3> HAVE s # {}
    <3>1. Cardinality(s) \in Nat /\ Cardinality(s) <= k + 1
      BY <1>1
    <3>2. s \ {Latest[s]} \in SUBSET (1..n)
          /\ Cardinality(s \ {Latest[s]}) = Cardinality(s) - 1
      BY <1>2
    <3> QED
      BY <3>1, <3>2
  <2>3. Small(k) \subseteq Small(k + 1)
    BY <1>1
  <2>4. \A s \in Small(k) : g[s] = f[s]
    BY <2>1, <2>3
  <2>5. \A s \in Small(k + 1) : g[s] = Body(g, s)
    <3> TAKE s \in Small(k + 1)
    <3>1. CASE s = {}
      BY <3>1
    <3>2. CASE s # {}
      <4>1. g[s \ {Latest[s]}] = f[s \ {Latest[s]}]
        BY <2>2, <2>4, <3>2
      <4> QED
        BY <4>1
    <3> QED
      BY <3>1, <3>2
  <2>6. ASSUME NEW s \in Small(k + 1)
        PROVE  Body(f, s) \in States
    <3>1. CASE s = {}
      BY <3>1
    <3>2. CASE s # {}
      <4>1. f[s \ {Latest[s]}] \in States
        BY <2>1, <2>2, <3>2
      <4>2. Latest[s] \in 1..n
        BY <1>2, <3>2
      <4> QED
        BY <3>2, <4>1, <4>2
    <3> QED
      BY <3>1, <3>2
  <2>7. Fits(g, k + 1)
    BY <2>5, <2>6
  <2> HIDE DEF Fits, g
  <2> QED
    BY <2>7
<1> HIDE DEF good
<1>5. n \in good
  <2>1. \A k \in 0..n : k \in good
    BY <1>3, <1>4, Prefixes
  <2> QED
    BY <2>1
<1>6. PICK f : Fits(f, n)
  BY <1>5 DEF good
<1>7. Small(n) = SUBSET (1..n)
  BY <1>1
<1> QED
  BY <1>6, <1>7 DEF FoldOf

\* Its values on the prefixes are the states a ledger goes through.
LEMMA FoldRuns ==
    ASSUME NEW States, NEW start \in States, NEW n \in Nat,
           NEW step \in [(1..n) \X States -> States],
           NEW fold, FollowsSteps(States, start, n, step, fold)
    PROVE  \E run : RunOf(States, start, n, step, run) /\ run[n] = fold[1..n]
<1> DEFINE run == [i \in 0..n |-> fold[1..i]]
           good == {i \in 0..n : run[i] \in States}
<1>1. run[0] = start
  <2>1. 1..0 = {} /\ 0 \in 0..n
    OBVIOUS
  <2> QED
    BY <2>1 DEF FollowsSteps
<1>2. \A i \in 1..n : /\ i \in 0..n /\ i - 1 \in 0..n
                      /\ run[i] = fold[1..i] /\ run[i - 1] = fold[1..(i - 1)]
  OBVIOUS
<1>3. \A i \in 1..n : run[i - 1] \in States => run[i] = step[<<i, run[i - 1]>>]
  BY <1>2 DEF FollowsSteps
<1>4. run[n] = fold[1..n] /\ DOMAIN run = 0..n /\ run = [i \in 0..n |-> run[i]]
  OBVIOUS
<1> HIDE DEF run
<1>5. ASSUME NEW i \in 0..n, i < n, i \in good
      PROVE  i + 1 \in good
  <2>1. i + 1 \in 1..n /\ (i + 1) - 1 = i /\ i + 1 \in 0..n
    BY <1>5
  <2>2. run[i + 1] = step[<<i + 1, run[i]>>]
    BY <1>3, <1>5, <2>1
  <2> QED
    BY <1>5, <2>1, <2>2
<1>6. \A i \in 0..n : run[i] \in States
  <2>1. 0 \in good
    BY <1>1
  <2> HIDE DEF good
  <2>2. \A i \in 0..n : i \in good
    BY <1>5, <2>1, Prefixes
  <2> QED
    BY <2>2 DEF good
<1>7. run \in [0..n -> States]
  BY <1>4, <1>6
<1>8. \A i \in 1..n : run[i] = step[<<i, run[i - 1]>>]
  BY <1>2, <1>3, <1>6
<1> QED
  BY <1>1, <1>4, <1>7, <1>8 DEF RunOf

-----------------------------------------------------------------------------
(* Soroswap.                                                               *)

Positions == {x \in S!Position : x.shares # 0 => x.hadShares}

PairState == [pools     : [Pairs -> Contents \cup {None}],
              positions : [S!Keys -> Positions \cup {None}],
              dirty     : SUBSET S!Dirty]

PairSaid == [registered : SUBSET Pairs, balances : [S!Keys -> Nat \cup {None}]]

KeyOf(c) == <<c.pair, c.holder>>

Moves(known, c) == c.kind \in {"balance", "removed"} /\ c.pair \in known

\* The position an entry leaves, of one that had shares or not.
PositionAfter(had, c) ==
    [shares    |-> IF c.kind = "balance" THEN c.shares ELSE 0,
     hadShares |-> IF c.kind = "balance" THEN had \/ c.shares # 0 ELSE had]

Had(pos) == pos # None /\ pos.hadShares

PairReports(known, c) ==
    IF ~Moves(known, c) THEN {}
    ELSE {[key |-> KeyOf(c), kind |-> IF c.kind = "balance" THEN "upsert" ELSE "removal"]}

LEMMA PairNames ==
    /\ Shares \subseteq Nat
    /\ None \notin Nat /\ None \notin S!Position
    /\ SeededPairs \subseteq Pairs
    /\ HostRetells \in BOOLEAN
    /\ MaxPairChanges \in Nat /\ MaxRestarts \in Nat
  BY AdaptersAssumption DEF S!SoroswapAssumption

LEMMA PairChanges ==
    ASSUME NEW c \in S!Changes
    PROVE  /\ c.kind \in {"registered", "instance", "balance", "removed", "lapsed"}
           /\ c.pair \in Pairs
           /\ c.kind = "instance" => c.contents \in Contents
           /\ c.kind \in {"balance", "removed"} => KeyOf(c) \in S!Keys
           /\ c.kind = "balance" => c.shares \in Nat
  BY PairNames DEF S!Changes, S!Keys, KeyOf

LEMMA PositionAfterIs ==
    ASSUME NEW c \in S!Changes, c.kind \in {"balance", "removed"}, NEW had \in BOOLEAN
    PROVE  /\ PositionAfter(had, c) \in Positions
           /\ PositionAfter(had, c) # None
           /\ PositionAfter(had, c).shares = IF c.kind = "balance" THEN c.shares ELSE 0
           /\ PositionAfter(had, c).hadShares <=>
                 had \/ (c.kind = "balance" /\ c.shares # 0)
<1> DEFINE shares == IF c.kind = "balance" THEN c.shares ELSE 0
           kept == IF c.kind = "balance" THEN had \/ c.shares # 0 ELSE had
<1>1. shares \in Nat /\ kept \in BOOLEAN
  BY PairChanges
<1>2. (shares # 0 /\ c.kind = "balance" => kept) /\ (c.kind # "balance" => shares = 0)
  OBVIOUS
<1>3. kept <=> had \/ (c.kind = "balance" /\ c.shares # 0)
  OBVIOUS
<1>4. PositionAfter(had, c) = [shares |-> shares, hadShares |-> kept]
  BY DEF PositionAfter
<1> HIDE DEF shares, kept
<1>5. PositionAfter(had, c) \in S!Position
  BY <1>1, <1>4 DEF S!Position
<1>6. PositionAfter(had, c).shares = shares /\ PositionAfter(had, c).hadShares = kept
  BY <1>4
<1>7. PositionAfter(had, c) \in Positions
  BY <1>2, <1>5, <1>6 DEF Positions
<1> QED
  BY <1>3, <1>5, <1>6, <1>7, PairNames DEF shares

LEMMA PairDecodes ==
    ASSUME NEW known \in SUBSET Pairs, NEW s \in PairState, NEW c \in S!Changes
    PROVE  /\ S!Decode(known, s, c) \in PairState
           /\ \A k \in S!Keys : S!Decode(known, s, c).positions[k] =
                 IF Moves(known, c) /\ k = KeyOf(c)
                 THEN PositionAfter(Had(s.positions[k]), c) ELSE s.positions[k]
           /\ S!Decode(known, s, c).dirty = s.dirty \cup PairReports(known, c)
<1>1. /\ s = [pools |-> s.pools, positions |-> s.positions, dirty |-> s.dirty]
      /\ s.pools \in [Pairs -> Contents \cup {None}]
      /\ s.positions \in [S!Keys -> Positions \cup {None}]
      /\ s.dirty \in SUBSET S!Dirty
  BY DEF PairState
<1> DEFINE k0 == KeyOf(c)
           after == PositionAfter(Had(s.positions[k0]), c)
           fills == c.kind = "instance" /\ c.allowed /\ c.pair \in known
           next == [pools     |-> IF fills THEN [s.pools EXCEPT ![c.pair] = c.contents]
                                  ELSE s.pools,
                    positions |-> IF Moves(known, c) THEN [s.positions EXCEPT ![k0] = after]
                                  ELSE s.positions,
                    dirty     |-> s.dirty \cup PairReports(known, c)]
<1>2. Had(s.positions[k0]) \in BOOLEAN
  <2>1. CASE k0 \in S!Keys
    <3>1. s.positions[k0] \in Positions \cup {None}
      BY <1>1, <2>1
    <3> QED
      BY <3>1 DEF Had, Positions, S!Position
  <2>2. CASE c.kind \notin {"balance", "removed"}
    BY DEF Had
  <2> QED
    BY <2>1, <2>2, PairChanges
<1>3. Moves(known, c) => k0 \in S!Keys /\ after \in Positions
  BY <1>2, PairChanges, PositionAfterIs DEF Moves
<1>4. PairReports(known, c) \subseteq S!Dirty
  BY <1>3 DEF PairReports, S!Dirty
<1>5. S!Decode(known, s, c) = next
  <2>1. CASE c.pair \notin known
    BY <1>1, <2>1 DEF S!Decode, Moves, PairReports
  <2>2. CASE fills
    BY <1>1, <2>2 DEF S!Decode, Moves, PairReports
  <2>3. CASE c.kind = "balance" /\ c.pair \in known
    <3>1. S!Decode(known, s, c) = S!UpsertPosition(s, k0, c.shares)
      BY <2>3 DEF S!Decode, KeyOf
    <3>2. after = [shares |-> c.shares, hadShares |-> S!HadShares(s, k0) \/ c.shares # 0]
      BY <2>3 DEF PositionAfter, Had, S!HadShares
    <3>3. Moves(known, c) /\ ~fills
          /\ PairReports(known, c) = {[key |-> k0, kind |-> "upsert"]}
      BY <2>3 DEF Moves, PairReports
    <3> HIDE DEF k0, after, fills
    <3> QED
      BY <1>1, <3>1, <3>2, <3>3 DEF S!UpsertPosition
  <2>4. CASE c.kind = "removed" /\ c.pair \in known
    <3>1. S!Decode(known, s, c) = S!TombstonePosition(s, k0)
      BY <2>4 DEF S!Decode, KeyOf
    <3>2. after = [shares |-> 0, hadShares |-> S!HadShares(s, k0)]
      BY <2>4 DEF PositionAfter, Had, S!HadShares
    <3>3. Moves(known, c) /\ ~fills
          /\ PairReports(known, c) = {[key |-> k0, kind |-> "removal"]}
      BY <2>4 DEF Moves, PairReports
    <3> HIDE DEF k0, after, fills
    <3> QED
      BY <1>1, <3>1, <3>2, <3>3 DEF S!TombstonePosition
  <2>5. CASE c.pair \in known /\ ~fills /\ c.kind \notin {"balance", "removed"}
    <3>1. S!Decode(known, s, c) = s /\ ~Moves(known, c) /\ PairReports(known, c) = {}
      BY <2>5 DEF S!Decode, Moves, PairReports
    <3> QED
      BY <1>1, <2>5, <3>1
  <2> QED
    BY <2>1, <2>2, <2>3, <2>4, <2>5
<1>6. fills => c.pair \in Pairs /\ c.contents \in Contents
  BY PairChanges
<1>7. next \in PairState
  <2>1. next.pools \in [Pairs -> Contents \cup {None}]
    BY <1>1, <1>6
  <2>2. next.positions \in [S!Keys -> Positions \cup {None}]
    BY <1>1, <1>3
  <2>3. next.dirty \in SUBSET S!Dirty
    BY <1>1, <1>4
  <2> QED
    BY <2>1, <2>2, <2>3 DEF PairState
<1>8. \A k \in S!Keys : next.positions[k] =
         IF Moves(known, c) /\ k = k0 THEN PositionAfter(Had(s.positions[k]), c)
         ELSE s.positions[k]
  BY <1>1, <1>3
<1> QED
  BY <1>5, <1>7, <1>8

LastSaid(c) == IF c.kind = "balance" THEN c.shares ELSE 0

LEMMA PairObserves ==
    ASSUME NEW o \in PairSaid, NEW c \in S!Changes
    PROVE  /\ S!Observe(o, c) \in PairSaid
           /\ S!Observe(o, c).registered = o.registered \cup
                 (IF c.kind = "registered" THEN {c.pair} ELSE {})
           /\ \A k \in S!Keys : S!Observe(o, c).balances[k] =
                 IF c.kind \in {"balance", "removed"} /\ k = KeyOf(c) THEN LastSaid(c)
                 ELSE o.balances[k]
<1>1. /\ o = [registered |-> o.registered, balances |-> o.balances]
      /\ o.registered \in SUBSET Pairs
      /\ o.balances \in [S!Keys -> Nat \cup {None}]
  BY DEF PairSaid
<1> DEFINE k0 == KeyOf(c)
           tells == c.kind \in {"balance", "removed"}
           next == [registered |-> o.registered \cup
                                   (IF c.kind = "registered" THEN {c.pair} ELSE {}),
                    balances   |-> IF tells THEN [o.balances EXCEPT ![k0] = LastSaid(c)]
                                   ELSE o.balances]
<1>2. tells => k0 \in S!Keys /\ LastSaid(c) \in Nat
  BY PairChanges DEF LastSaid
<1>3. S!Observe(o, c) = next
  <2>1. CASE c.kind = "registered"
    BY <1>1, <2>1 DEF S!Observe
  <2>2. CASE c.kind = "balance"
    BY <1>1, <2>2 DEF S!Observe, LastSaid, KeyOf
  <2>3. CASE c.kind = "removed"
    BY <1>1, <2>3 DEF S!Observe, LastSaid, KeyOf
  <2>4. CASE c.kind \notin {"registered", "balance", "removed"}
    BY <1>1, <2>4 DEF S!Observe
  <2> QED
    BY <2>1, <2>2, <2>3, <2>4
<1>4. next \in PairSaid
  <2>1. next.registered \in SUBSET Pairs
    BY <1>1, PairChanges
  <2>2. next.balances \in [S!Keys -> Nat \cup {None}]
    BY <1>1, <1>2
  <2> QED
    BY <2>1, <2>2 DEF PairSaid
<1>5. \A k \in S!Keys : next.balances[k] = IF tells /\ k = k0 THEN LastSaid(c) ELSE o.balances[k]
  BY <1>1, <1>2
<1> QED
  BY <1>3, <1>4, <1>5

\* Where the decode of a ledger starts.
PairStart == [pools |-> pairPools, positions |-> pairPositions, dirty |-> {}]

LEMMA PairRuns ==
    ASSUME NEW known \in SUBSET Pairs, PairStart \in PairState, NEW n \in Nat, NEW ledger \in [1..n -> S!Changes]
    PROVE  \E run \in [0..n -> PairState] :
              /\ run[0] = PairStart
              /\ \A i \in 1..n : run[i] = S!Decode(known, run[i - 1], ledger[i])
              /\ S!Reduce(known, ledger) = run[n]
<1> DEFINE all == 1..n
           step == [w \in all \X PairState |-> S!Decode(known, w[2], ledger[w[1]])]
           Is(iter) == iter = [s \in SUBSET all |->
                IF s = {} THEN PairStart
                ELSE S!Decode(known, iter[s \ {S!Max(s)}], ledger[S!Max(s)])]
           fold == CHOOSE iter : Is(iter)
<1>1. step \in [all \X PairState -> PairState]
  <2>1. ASSUME NEW s \in PairState, NEW c \in S!Changes
        PROVE  S!Decode(known, s, c) \in PairState
    BY PairDecodes
  <2>2. \A w \in all \X PairState : w[2] \in PairState /\ ledger[w[1]] \in S!Changes
    OBVIOUS
  <2> QED
    BY <2>1, <2>2
<1>2. /\ \A s \in SUBSET all : s # {} => Latest[s] \in s
      /\ \A s \in SUBSET all : S!Max(s) = Latest[s]
  BY LatestOf DEF Latest, S!Max
<1>3. PICK iter : FoldOf(PairState, PairStart, n, step, iter)
  <2> HIDE DEF step
  <2> QED
    BY <1>1, FoldExists
<1>4. \A s \in SUBSET all : s # {} =>
         step[<<Latest[s], iter[s \ {Latest[s]}]>>]
            = S!Decode(known, iter[s \ {S!Max(s)}], ledger[S!Max(s)])
  BY <1>2, <1>3 DEF FoldOf
<1>5. Is(iter)
  <2> HIDE DEF step
  <2> QED
    BY <1>3, <1>4 DEF FoldOf
<1>6. Is(fold)
  <2> HIDE DEF Is
  <2> QED
    BY <1>5
<1>7. S!Reduce(known, ledger) = fold[all]
  <2>1. DOMAIN ledger = all
    OBVIOUS
  <2> QED
    BY <2>1 DEF S!Reduce, PairStart, S!FoldLeft, S!MapThenFoldSet
<1> HIDE DEF fold
<1>8. /\ fold[{}] = PairStart
      /\ \A i \in all : fold[1..i] = S!Decode(known, fold[1..(i - 1)], ledger[i])
  <2>1. \A s \in SUBSET all : fold[s] =
           IF s = {} THEN PairStart
           ELSE S!Decode(known, fold[s \ {Latest[s]}], ledger[Latest[s]])
    BY <1>2, <1>6
  <2>2. ASSUME NEW i \in all
        PROVE  fold[1..i] = S!Decode(known, fold[1..(i - 1)], ledger[i])
    <3>1. /\ 1..i \in SUBSET all /\ 1..i # {} /\ Latest[1..i] = i
          /\ (1..i) \ {i} = 1..(i - 1)
      BY LatestOf
    <3> HIDE DEF all
    <3> QED
      BY <2>1, <3>1
  <2> HIDE DEF all
  <2> QED
    BY <2>1, <2>2
<1>9. FollowsSteps(PairState, PairStart, n, step, fold)
  BY <1>8 DEF FollowsSteps
<1>10. PICK run : RunOf(PairState, PairStart, n, step, run) /\ run[n] = fold[all]
  <2> HIDE DEF step
  <2> QED
    BY <1>1, <1>9, FoldRuns
<1>11. \A i \in all : run[i] = S!Decode(known, run[i - 1], ledger[i])
  <2>1. \A i \in all : i - 1 \in 0..n
    OBVIOUS
  <2>2. \A i \in all : run[i - 1] \in PairState
    BY <1>10, <2>1 DEF RunOf
  <2> QED
    BY <1>10, <2>2 DEF RunOf
<1> QED
  BY <1>7, <1>10, <1>11 DEF RunOf

LEMMA PairChainRuns ==
    ASSUME NEW start \in PairSaid, NEW n \in Nat, NEW ledger \in [1..n -> S!Changes]
    PROVE  \E run \in [0..n -> PairSaid] :
              /\ run[0] = start
              /\ \A i \in 1..n : run[i] = S!Observe(run[i - 1], ledger[i])
              /\ S!FoldLeft(S!Observe, start, ledger) = run[n]
<1> DEFINE all == 1..n
           step == [w \in all \X PairSaid |-> S!Observe(w[2], ledger[w[1]])]
           Is(iter) == iter = [s \in SUBSET all |->
                IF s = {} THEN start
                ELSE S!Observe(iter[s \ {S!Max(s)}], ledger[S!Max(s)])]
           fold == CHOOSE iter : Is(iter)
<1>1. step \in [all \X PairSaid -> PairSaid]
  BY PairObserves
<1>2. /\ \A s \in SUBSET all : s # {} => Latest[s] \in s
      /\ \A s \in SUBSET all : S!Max(s) = Latest[s]
  BY LatestOf DEF Latest, S!Max
<1>3. PICK iter : FoldOf(PairSaid, start, n, step, iter)
  <2> HIDE DEF step
  <2> QED
    BY <1>1, FoldExists
<1>4. \A s \in SUBSET all : s # {} =>
         step[<<Latest[s], iter[s \ {Latest[s]}]>>]
            = S!Observe(iter[s \ {S!Max(s)}], ledger[S!Max(s)])
  BY <1>2, <1>3 DEF FoldOf
<1>5. Is(iter)
  <2> HIDE DEF step
  <2> QED
    BY <1>3, <1>4 DEF FoldOf
<1>6. Is(fold)
  <2> HIDE DEF Is
  <2> QED
    BY <1>5
<1>7. S!FoldLeft(S!Observe, start, ledger) = fold[all]
  <2>1. DOMAIN ledger = all
    OBVIOUS
  <2> QED
    BY <2>1 DEF S!FoldLeft, S!MapThenFoldSet
<1> HIDE DEF fold
<1>8. /\ fold[{}] = start
      /\ \A i \in all : fold[1..i] = S!Observe(fold[1..(i - 1)], ledger[i])
  <2>1. \A s \in SUBSET all : fold[s] =
           IF s = {} THEN start
           ELSE S!Observe(fold[s \ {Latest[s]}], ledger[Latest[s]])
    BY <1>2, <1>6
  <2>2. ASSUME NEW i \in all
        PROVE  fold[1..i] = S!Observe(fold[1..(i - 1)], ledger[i])
    <3>1. /\ 1..i \in SUBSET all /\ 1..i # {} /\ Latest[1..i] = i
          /\ (1..i) \ {i} = 1..(i - 1)
      BY LatestOf
    <3> HIDE DEF all
    <3> QED
      BY <2>1, <3>1
  <2> HIDE DEF all
  <2> QED
    BY <2>1, <2>2
<1>9. FollowsSteps(PairSaid, start, n, step, fold)
  BY <1>8 DEF FollowsSteps
<1>10. PICK run : RunOf(PairSaid, start, n, step, run) /\ run[n] = fold[all]
  <2> HIDE DEF step
  <2> QED
    BY <1>1, <1>9, FoldRuns
<1>11. \A i \in all : run[i] = S!Observe(run[i - 1], ledger[i])
  <2>1. \A i \in all : i - 1 \in 0..n
    OBVIOUS
  <2>2. \A i \in all : run[i - 1] \in PairSaid
    BY <1>10, <2>1 DEF RunOf
  <2> QED
    BY <1>10, <2>2 DEF RunOf
<1> QED
  BY <1>7, <1>10, <1>11 DEF RunOf

\* A position is the holder's last balance, and knows whether it ever held.
PairAgrees(pos, said, wasHeld) ==
    IF said = None THEN pos = None /\ ~wasHeld
    ELSE pos # None /\ pos.shares = said /\ (pos.hadShares <=> wasHeld)

\* A position that moved is among the reports, a reported one is in the state,
\* and one reported as removed alone is empty.
PairReported(before, pos, dirty, k) ==
    /\ pos # before => \E d \in dirty : d.key = k
    /\ (\E d \in dirty : d.key = k) => pos # None
    /\ \/ \A d \in dirty : d.key # k
       \/ \E d \in dirty : d.key = k /\ d.kind = "upsert"
       \/ pos.shares = 0

HeldBy(c) == IF c.kind = "balance" /\ c.shares > 0 THEN {KeyOf(c)} ELSE {}

\* What a change makes of one position, the one it moves or another.
LEMMA PairMoved ==
    ASSUME NEW known \in SUBSET Pairs, NEW s \in PairState, NEW c \in S!Changes,
           NEW k \in S!Keys, Moves(known, c), k = KeyOf(c)
    PROVE  S!Decode(known, s, c).positions[k] = PositionAfter(Had(s.positions[k]), c)
<1>1. \A j \in S!Keys : S!Decode(known, s, c).positions[j] =
         IF Moves(known, c) /\ j = KeyOf(c)
         THEN PositionAfter(Had(s.positions[j]), c) ELSE s.positions[j]
  BY PairDecodes
<1> QED
  BY <1>1

LEMMA PairUnmoved ==
    ASSUME NEW known \in SUBSET Pairs, NEW s \in PairState, NEW c \in S!Changes,
           NEW k \in S!Keys, ~(Moves(known, c) /\ k = KeyOf(c))
    PROVE  S!Decode(known, s, c).positions[k] = s.positions[k]
<1>1. \A j \in S!Keys : S!Decode(known, s, c).positions[j] =
         IF Moves(known, c) /\ j = KeyOf(c)
         THEN PositionAfter(Had(s.positions[j]), c) ELSE s.positions[j]
  BY PairDecodes
<1> QED
  BY <1>1

LEMMA PairStep ==
    ASSUME NEW known \in SUBSET Pairs, NEW s \in PairState, NEW o \in PairSaid,
           NEW c \in S!Changes, c.kind \in {"balance", "removed"} => c.pair \in known,
           NEW k \in S!Keys, NEW owned,
           PairAgrees(s.positions[k], o.balances[k], k \in owned)
    PROVE  PairAgrees(S!Decode(known, s, c).positions[k], S!Observe(o, c).balances[k],
                      k \in owned \cup HeldBy(c))
<1>1. CASE c.kind \in {"balance", "removed"} /\ k = KeyOf(c)
  <2> DEFINE had == Had(s.positions[k])
             pos == PositionAfter(had, c)
  <2>1. S!Decode(known, s, c).positions[k] = pos /\ S!Observe(o, c).balances[k] = LastSaid(c)
    <3>1. Moves(known, c)
      BY <1>1 DEF Moves
    <3>2. S!Decode(known, s, c).positions[k] = pos
      BY <1>1, <3>1, PairMoved
    <3>3. S!Observe(o, c).balances[k] = LastSaid(c)
      BY <1>1, PairObserves
    <3> QED
      BY <3>2, <3>3
  <2>2. had \in BOOLEAN /\ (had <=> k \in owned)
    <3>1. s.positions[k] \in Positions \cup {None}
      BY DEF PairState
    <3> QED
      BY <3>1 DEF PairAgrees, Had, Positions, S!Position
  <2> HIDE DEF had
  <2>3. /\ pos # None
        /\ pos.shares = LastSaid(c)
        /\ pos.hadShares <=> had \/ (c.kind = "balance" /\ c.shares # 0)
    BY <1>1, <2>2, PositionAfterIs DEF LastSaid
  <2>4. LastSaid(c) # None /\ LastSaid(c) \in Nat
    BY <1>1, PairChanges, PairNames DEF LastSaid
  <2>5. k \in owned \cup HeldBy(c) <=> had \/ (c.kind = "balance" /\ c.shares # 0)
    <3>1. c.kind = "balance" => (c.shares > 0 <=> c.shares # 0)
      BY PairChanges
    <3> QED
      BY <1>1, <2>2, <3>1 DEF HeldBy
  <2> HIDE DEF pos
  <2> QED
    BY <2>1, <2>3, <2>4, <2>5 DEF PairAgrees
<1>2. CASE ~(c.kind \in {"balance", "removed"} /\ k = KeyOf(c))
  <2>1. S!Decode(known, s, c).positions[k] = s.positions[k]
    <3>1. ~(Moves(known, c) /\ k = KeyOf(c))
      BY <1>2 DEF Moves
    <3> QED
      BY <3>1, PairUnmoved
  <2>2. S!Observe(o, c).balances[k] = o.balances[k]
    BY <1>2, PairObserves
  <2>3. k \in owned \cup HeldBy(c) <=> k \in owned
    BY <1>2 DEF HeldBy
  <2> QED
    BY <2>1, <2>2, <2>3
<1> QED
  BY <1>1, <1>2

LEMMA PairReportStep ==
    ASSUME NEW known \in SUBSET Pairs, NEW s \in PairState, NEW c \in S!Changes,
           NEW k \in S!Keys, NEW before,
           PairReported(before, s.positions[k], s.dirty, k)
    PROVE  PairReported(before, S!Decode(known, s, c).positions[k],
                        S!Decode(known, s, c).dirty, k)
<1> DEFINE pos == S!Decode(known, s, c).positions[k]
           dirty == S!Decode(known, s, c).dirty
<1>1. dirty = s.dirty \cup PairReports(known, c)
  BY PairDecodes
<1>2. CASE Moves(known, c) /\ k = KeyOf(c)
  <2> DEFINE d == [key |-> k, kind |-> IF c.kind = "balance" THEN "upsert" ELSE "removal"]
  <2>1. d \in dirty /\ d.key = k
    BY <1>1, <1>2 DEF PairReports
  <2>2. pos = PositionAfter(Had(s.positions[k]), c)
    BY <1>2, PairMoved
  <2>3. Had(s.positions[k]) \in BOOLEAN
    <3>1. s.positions[k] \in Positions \cup {None}
      BY DEF PairState
    <3> QED
      BY <3>1 DEF Had, Positions, S!Position
  <2>4. pos # None /\ (c.kind # "balance" => pos.shares = 0)
    BY <1>2, <2>2, <2>3, PositionAfterIs DEF Moves
  <2>5. c.kind = "balance" => d.kind = "upsert"
    OBVIOUS
  <2> HIDE DEF pos, dirty, d
  <2> QED
    BY <2>1, <2>4, <2>5 DEF PairReported, pos, dirty
<1>3. CASE ~(Moves(known, c) /\ k = KeyOf(c))
  <2>1. pos = s.positions[k]
    BY <1>3, PairUnmoved
  <2>2. \A d \in PairReports(known, c) : d.key # k
    BY <1>3 DEF PairReports
  <2> HIDE DEF pos, dirty
  <2> QED
    BY <1>1, <2>1, <2>2 DEF PairReported, pos, dirty
<1> QED
  BY <1>2, <1>3

PairTyped ==
    /\ pairs \in SUBSET Pairs
    /\ pairPools \in [Pairs -> Contents \cup {None}]
    /\ pairPositions \in [S!Keys -> Positions \cup {None}]
    /\ pairDirty \in SUBSET S!Dirty
    /\ pairChain \in PairSaid

\* What a process that is told its pairs holds.
PairFollows ==
    HostRetells =>
        /\ pairs = pairChain.registered
        /\ \A k \in S!Keys : PairAgrees(pairPositions[k], pairChain.balances[k], k \in held)

LEMMA PairInit == S!Init => PairTyped /\ PairFollows
<1> SUFFICES ASSUME S!Init
             PROVE  PairTyped /\ PairFollows
  OBVIOUS
<1>1. PairTyped
  BY PairNames DEF S!Init, PairTyped, PairSaid
<1>2. PairFollows
  BY DEF S!Init, PairFollows, PairAgrees
<1> QED
  BY <1>1, <1>2

\* A ledger, as the prefixes of its decode and of what it says.
LEMMA PairLedgerRuns ==
    ASSUME PairTyped, NEW ledger \in S!Ledgers, S!Ledger(ledger)
    PROVE  \E n \in Nat :
              /\ ledger \in [1..n -> S!Changes]
              /\ \E run \in [0..n -> PairState], said \in [0..n -> PairSaid] :
                    /\ run[0] = PairStart
                    /\ said[0] = pairChain
                    /\ \A i \in 1..n : /\ run[i] = S!Decode(pairs', run[i - 1], ledger[i])
                                       /\ said[i] = S!Observe(said[i - 1], ledger[i])
                    /\ pairPools' = run[n].pools
                    /\ pairPositions' = run[n].positions
                    /\ pairDirty' = run[n].dirty
                    /\ pairChain' = said[n]
              /\ pairs' \in SUBSET Pairs
<1>1. PICK n \in Nat : ledger \in [1..n -> S!Changes]
  BY PairNames DEF S!Ledgers
<1>2. PairStart \in PairState /\ pairChain \in PairSaid
  BY DEF PairState, PairTyped, PairStart
<1>3. pairs' = S!Discover(pairs, ledger) /\ pairs' \in SUBSET Pairs
  <2>1. S!ToSet(ledger) \subseteq S!Changes
    BY <1>1 DEF S!ToSet
  <2> QED
    BY <2>1, PairChanges DEF S!Ledger, S!DecodeState, S!Discover, PairTyped
<1>4. PICK run \in [0..n -> PairState] :
        /\ run[0] = PairStart
        /\ \A i \in 1..n : run[i] = S!Decode(pairs', run[i - 1], ledger[i])
        /\ S!Reduce(pairs', ledger) = run[n]
  BY <1>1, <1>2, <1>3, PairRuns
<1>5. PICK said \in [0..n -> PairSaid] :
        /\ said[0] = pairChain
        /\ \A i \in 1..n : said[i] = S!Observe(said[i - 1], ledger[i])
        /\ S!FoldLeft(S!Observe, pairChain, ledger) = said[n]
  BY <1>1, <1>2, PairChainRuns
<1>6. /\ pairPools' = run[n].pools
      /\ pairPositions' = run[n].positions
      /\ pairDirty' = run[n].dirty
  BY <1>3, <1>4 DEF S!Ledger, S!DecodeState
<1>7. pairChain' = said[n]
  BY <1>5 DEF S!Ledger
<1> QED
  BY <1>1, <1>3, <1>4, <1>5, <1>6, <1>7

\* What a ledger leaves is of its types, and reported.
LEMMA PairLedgerReports ==
    ASSUME PairTyped, NEW ledger \in S!Ledgers, S!Ledger(ledger)
    PROVE  /\ PairTyped'
           /\ \A k \in S!Keys : PairReported(pairPositions[k], pairPositions'[k], pairDirty', k)
<1>1. PICK n \in Nat :
        /\ ledger \in [1..n -> S!Changes]
        /\ \E run \in [0..n -> PairState], said \in [0..n -> PairSaid] :
              /\ run[0] = PairStart
              /\ said[0] = pairChain
              /\ \A i \in 1..n : /\ run[i] = S!Decode(pairs', run[i - 1], ledger[i])
                                 /\ said[i] = S!Observe(said[i - 1], ledger[i])
              /\ pairPools' = run[n].pools
              /\ pairPositions' = run[n].positions
              /\ pairDirty' = run[n].dirty
              /\ pairChain' = said[n]
        /\ pairs' \in SUBSET Pairs
  BY PairLedgerRuns
<1>2. PICK run \in [0..n -> PairState], said \in [0..n -> PairSaid] :
        /\ run[0] = PairStart
        /\ \A i \in 1..n : run[i] = S!Decode(pairs', run[i - 1], ledger[i])
        /\ pairPools' = run[n].pools
        /\ pairPositions' = run[n].positions
        /\ pairDirty' = run[n].dirty
        /\ pairChain' = said[n]
  BY <1>1
<1> DEFINE Holds(i) == \A k \in S!Keys :
                PairReported(pairPositions[k], run[i].positions[k], run[i].dirty, k)
           good == {i \in 0..n : Holds(i)}
<1>3. 0 \in good
  BY <1>2 DEF PairStart, PairReported
<1>4. ASSUME NEW i \in 0..n, i < n, i \in good
      PROVE  i + 1 \in good
  <2>1. i + 1 \in 1..n /\ (i + 1) - 1 = i /\ i + 1 \in 0..n
    BY <1>4
  <2>2. run[i + 1] = S!Decode(pairs', run[i], ledger[i + 1]) /\ ledger[i + 1] \in S!Changes
    BY <1>1, <1>2, <2>1
  <2>3. run[i] \in PairState
    OBVIOUS
  <2>4. Holds(i + 1)
    BY <1>1, <1>4, <2>2, <2>3, PairReportStep
  <2> HIDE DEF Holds
  <2> QED
    BY <2>1, <2>4
<1>5. Holds(n)
  <2> HIDE DEF good
  <2>1. \A i \in 0..n : i \in good
    BY <1>3, <1>4, Prefixes
  <2>2. n \in good
    BY <2>1
  <2> QED
    BY <2>2 DEF good
<1>6. run[n] \in PairState /\ said[n] \in PairSaid
  OBVIOUS
<1>7. PairTyped'
  BY <1>1, <1>2, <1>6 DEF PairTyped, PairState
<1> QED
  BY <1>2, <1>5, <1>7

\* What a ledger leaves is what it said.
LEMMA PairLedgerFollows ==
    ASSUME PairTyped, PairFollows, HostRetells, NEW ledger \in S!Ledgers, S!Ledger(ledger)
    PROVE  PairFollows'
<1>1. PICK n \in Nat :
        /\ ledger \in [1..n -> S!Changes]
        /\ \E run \in [0..n -> PairState], said \in [0..n -> PairSaid] :
              /\ run[0] = PairStart
              /\ said[0] = pairChain
              /\ \A i \in 1..n : /\ run[i] = S!Decode(pairs', run[i - 1], ledger[i])
                                 /\ said[i] = S!Observe(said[i - 1], ledger[i])
              /\ pairPools' = run[n].pools
              /\ pairPositions' = run[n].positions
              /\ pairDirty' = run[n].dirty
              /\ pairChain' = said[n]
        /\ pairs' \in SUBSET Pairs
  BY PairLedgerRuns
<1>2. PICK run \in [0..n -> PairState], said \in [0..n -> PairSaid] :
        /\ run[0] = PairStart
        /\ said[0] = pairChain
        /\ \A i \in 1..n : /\ run[i] = S!Decode(pairs', run[i - 1], ledger[i])
                           /\ said[i] = S!Observe(said[i - 1], ledger[i])
        /\ pairPositions' = run[n].positions
        /\ pairChain' = said[n]
  BY <1>1
<1> DEFINE Told(i) == {ledger[j].pair : j \in {j \in 1..i : ledger[j].kind = "registered"}}
           Owned(i) == held \cup UNION {HeldBy(ledger[j]) : j \in 1..i}
           Holds(i) == /\ said[i].registered = pairChain.registered \cup Told(i)
                       /\ \A k \in S!Keys :
                            PairAgrees(run[i].positions[k], said[i].balances[k], k \in Owned(i))
           good == {i \in 0..n : Holds(i)}
<1>3. /\ DOMAIN ledger = 1..n
      /\ S!ToSet(ledger) = {ledger[i] : i \in 1..n}
  BY <1>1 DEF S!ToSet
<1>4. pairs' = pairChain.registered \cup Told(n)
  <2>1. pairs' = S!Discover(pairs, ledger) /\ pairs = pairChain.registered
    BY DEF S!Ledger, S!DecodeState, PairFollows
  <2> QED
    BY <1>3, <2>1 DEF S!Discover
<1>5. \A i \in 1..n : ledger[i].pair \in pairs'
  <2>1. S!Discover({}, ledger) = Told(n)
    BY <1>3 DEF S!Discover
  <2>2. \A i \in 1..n : ledger[i].pair \in pairChain.registered
                        \/ ledger[i].pair \in S!Discover({}, ledger)
    BY <1>3 DEF S!Ledger
  <2> HIDE DEF Told
  <2> QED
    BY <1>4, <2>1, <2>2
<1>6. held' = Owned(n)
  <2>1. held' = held \cup {<<c.pair, c.holder>> :
                  c \in {c \in S!ToSet(ledger) : c.kind = "balance" /\ c.shares > 0}}
    BY DEF S!Ledger
  <2> QED
    BY <1>3, <2>1 DEF HeldBy, KeyOf
<1>7. 0 \in good
  <2>1. 1..0 = {} /\ 0 \in 0..n
    OBVIOUS
  <2>2. Told(0) = {} /\ Owned(0) = held
    BY <2>1
  <2>3. run[0].positions = pairPositions /\ said[0] = pairChain
    BY <1>2 DEF PairStart
  <2> HIDE DEF Told, Owned
  <2> QED
    BY <2>1, <2>2, <2>3 DEF PairFollows
<1>8. ASSUME NEW i \in 0..n, i < n, i \in good
      PROVE  i + 1 \in good
  <2>1. /\ i + 1 \in 1..n /\ (i + 1) - 1 = i /\ i + 1 \in 0..n
        /\ 1..(i + 1) = (1..i) \cup {i + 1}
    BY <1>8
  <2> DEFINE c == ledger[i + 1]
  <2>2. /\ run[i + 1] = S!Decode(pairs', run[i], c)
        /\ said[i + 1] = S!Observe(said[i], c)
        /\ c \in S!Changes
    BY <1>1, <1>2, <2>1
  <2>3. run[i] \in PairState /\ said[i] \in PairSaid
    OBVIOUS
  <2>4. /\ Told(i + 1) = Told(i) \cup (IF c.kind = "registered" THEN {c.pair} ELSE {})
        /\ Owned(i + 1) = Owned(i) \cup HeldBy(c)
    BY <2>1
  <2>5. c.pair \in pairs'
    BY <1>5, <2>1
  <2> HIDE DEF Told, Owned, c
  <2>6. said[i + 1].registered = pairChain.registered \cup Told(i + 1)
    BY <1>8, <2>2, <2>3, <2>4, PairObserves
  <2>7. ASSUME NEW k \in S!Keys
        PROVE  PairAgrees(run[i + 1].positions[k], said[i + 1].balances[k], k \in Owned(i + 1))
    <3>1. PairAgrees(run[i].positions[k], said[i].balances[k], k \in Owned(i))
      BY <1>8
    <3>2. PairAgrees(S!Decode(pairs', run[i], c).positions[k],
                     S!Observe(said[i], c).balances[k], k \in Owned(i) \cup HeldBy(c))
      BY <1>1, <2>2, <2>3, <2>5, <3>1, PairStep
    <3> QED
      BY <2>2, <2>4, <3>2
  <2> QED
    BY <2>1, <2>6, <2>7
<1>9. Holds(n)
  <2> HIDE DEF good
  <2>1. \A i \in 0..n : i \in good
    BY <1>7, <1>8, Prefixes
  <2>2. n \in good
    BY <2>1
  <2> QED
    BY <2>2 DEF good
<1> HIDE DEF Told, Owned
<1> QED
  BY <1>2, <1>4, <1>6, <1>9 DEF PairFollows

LEMMA PairRestart ==
    ASSUME PairTyped, S!Restart
    PROVE  /\ PairTyped' /\ (PairFollows => PairFollows')
           /\ pairPositions' = pairPositions /\ pairDirty' = {}
  BY PairNames DEF S!Restart, PairTyped, PairFollows

LEMMA PairTypes ==
    ASSUME PairTyped
    PROVE  S!SoroswapTypeOK
<1>1. \A k \in S!Keys : pairPositions[k] # None => pairPositions[k] \in Positions
  BY DEF PairTyped
<1> QED
  BY <1>1 DEF PairTyped, S!SoroswapTypeOK, Positions

LEMMA PairPromises ==
    ASSUME PairTyped, PairFollows, HostRetells
    PROVE  S!PositionsFollowChain /\ S!ClosedPositionsEmitTombstones
<1>1. \A k \in S!Keys : PairAgrees(pairPositions[k], pairChain.balances[k], k \in held)
  BY DEF PairFollows
<1>2. S!PositionsFollowChain
  BY <1>1 DEF PairAgrees, S!PositionsFollowChain
<1>3. ASSUME NEW k \in S!Keys, pairPools[k[1]] # None, pairChain.balances[k] = 0
      PROVE  S!Rows(k) = "tombstone" <=> k \in held
  <2>1. pairPositions[k] # None /\ pairPositions[k].shares = 0
        /\ (pairPositions[k].hadShares <=> k \in held)
    BY <1>1, <1>3, PairNames DEF PairAgrees
  <2> QED
    BY <1>3, <2>1 DEF S!Rows
<1> QED
  BY <1>2, <1>3 DEF S!ClosedPositionsEmitTombstones

\* The report of a ledger.
LEMMA PairsReported ==
    ASSUME PairTyped, S!Next, NEW k \in S!Keys
    PROVE  LET kinds == {d.kind : d \in {d \in pairDirty' : d.key = k}}
           IN  /\ pairPositions'[k] # pairPositions[k] => kinds # {}
               /\ kinds # {} => pairPositions'[k] # None
               /\ kinds = {"removal"} => pairPositions'[k].shares = 0
<1> DEFINE kinds == {d.kind : d \in {d \in pairDirty' : d.key = k}}
<1>1. CASE S!Restart
  <2>1. kinds = {} /\ pairPositions' = pairPositions
    BY <1>1, PairRestart
  <2> QED
    BY <2>1
<1>2. ASSUME NEW ledger \in S!Ledgers, S!Ledger(ledger)
      PROVE  PairReported(pairPositions[k], pairPositions'[k], pairDirty', k)
  BY <1>2, PairLedgerReports
<1>3. CASE PairReported(pairPositions[k], pairPositions'[k], pairDirty', k)
  <2>1. kinds # {} <=> \E d \in pairDirty' : d.key = k
    OBVIOUS
  <2>2. (\E d \in pairDirty' : d.key = k /\ d.kind = "upsert") => "upsert" \in kinds
    OBVIOUS
  <2>3. "removal" # "upsert"
    OBVIOUS
  <2> HIDE DEF kinds
  <2>4. kinds = {"removal"} => pairPositions'[k].shares = 0
    BY <1>3, <2>1, <2>2, <2>3 DEF PairReported
  <2> QED
    BY <1>3, <2>1, <2>4 DEF PairReported, kinds
<1> QED
  BY <1>1, <1>2, <1>3 DEF S!Next

-----------------------------------------------------------------------------
(* FxDAO.                                                                  *)

Vaults == {v \in F!Vault : /\ v.closed <=> v.amounts = None
                           /\ v.restored => ~v.closed}

VaultReport == [key : F!Keys, kind : {"upsert", "removal"}]

VaultState == [vaults : [F!Keys -> Vaults \cup {None}],
               infos  : [Denominations -> VaultAmounts \cup {None}],
               dirty  : SUBSET VaultReport]

VaultSaid == [F!Keys -> [kind    : {"unseen", "created", "restored", "removed"},
                         amounts : VaultAmounts \cup {None}]]

LEMMA VaultNames ==
    /\ None \notin VaultAmounts
    /\ None \notin Vaults
    /\ MaxVaultChanges \in Nat
  BY AdaptersAssumption DEF F!FxDAOAssumption, Vaults

\* What an entry makes of its vault, and what it reports.
VaultAfter(c) ==
    IF c.kind = "removed" THEN [amounts |-> None, closed |-> TRUE, restored |-> FALSE]
    ELSE [amounts |-> c.amounts, closed |-> FALSE, restored |-> c.kind = "restored"]

VaultReports(c) ==
    CASE c.kind \in {"created", "restored", "index"} -> {[key |-> c.key, kind |-> "upsert"]}
      [] c.kind = "removed"                          -> {[key |-> c.key, kind |-> "removal"]}
      [] OTHER                                       -> {}

LEMMA VaultAfterIs ==
    ASSUME NEW c \in F!Changes, c.kind \in {"created", "restored", "removed"}
    PROVE  VaultAfter(c) \in Vaults
<1>1. c.kind \in {"created", "restored"} => c.amounts \in VaultAmounts
  BY DEF F!Changes
<1> QED
  BY <1>1, VaultNames DEF VaultAfter, Vaults, F!Vault

LEMMA VaultDecodes ==
    ASSUME NEW s \in VaultState, NEW c \in F!Changes
    PROVE  /\ F!Decode(s, c) \in VaultState
           /\ c.kind \in {"created", "restored", "removed"} => c.key \in F!Keys
           /\ \A k \in F!Keys : F!Decode(s, c).vaults[k] =
                 IF c.kind \in {"created", "restored", "removed"} /\ k = c.key
                 THEN VaultAfter(c) ELSE s.vaults[k]
           /\ F!Decode(s, c).dirty = s.dirty \cup VaultReports(c)
<1>1. /\ s = [vaults |-> s.vaults, infos |-> s.infos, dirty |-> s.dirty]
      /\ s.vaults \in [F!Keys -> Vaults \cup {None}]
      /\ s.infos \in [Denominations -> VaultAmounts \cup {None}]
      /\ s.dirty \in SUBSET VaultReport
  BY DEF VaultState
<1> DEFINE writes == c.kind \in {"created", "restored", "removed"}
           next == [vaults |-> IF writes THEN [s.vaults EXCEPT ![c.key] = VaultAfter(c)]
                               ELSE s.vaults,
                    infos  |-> IF c.kind = "info"
                               THEN [d \in Denominations |-> IF c.totals[d] = None
                                                             THEN s.infos[d] ELSE c.totals[d]]
                               ELSE s.infos,
                    dirty  |-> s.dirty \cup VaultReports(c)]
<1>2. writes \/ c.kind = "index" => c.key \in F!Keys
  BY DEF F!Changes
<1>4. c.kind = "info" => c.totals \in [Denominations -> VaultAmounts \cup {None}]
  BY DEF F!Changes
<1>5. c.kind \in {"created", "restored", "removed", "lapsed", "index", "info"}
  BY DEF F!Changes
<1>6. writes => VaultAfter(c) \in Vaults
  BY VaultAfterIs
<1>7. VaultReports(c) \subseteq VaultReport
  BY <1>2 DEF VaultReports, VaultReport
<1>8. F!Decode(s, c) = next
  <2>1. CASE c.kind \in {"created", "restored"}
    BY <1>1, <2>1 DEF F!Decode, F!WriteVault, F!Reported, VaultAfter, VaultReports
  <2>2. CASE c.kind = "removed"
    BY <1>1, <2>2 DEF F!Decode, F!CloseVault, F!Reported, VaultAfter, VaultReports
  <2>3. CASE c.kind = "index"
    BY <1>1, <2>3 DEF F!Decode, F!Reported, VaultReports
  <2>4. CASE c.kind = "info"
    BY <1>1, <2>4 DEF F!Decode, F!WriteInfos, VaultReports
  <2>5. CASE c.kind = "lapsed"
    BY <1>1, <2>5 DEF F!Decode, VaultReports
  <2> QED
    BY <1>5, <2>1, <2>2, <2>3, <2>4, <2>5
<1>9. next.vaults \in [F!Keys -> Vaults \cup {None}]
  BY <1>1, <1>2, <1>6
<1>10. next.infos \in [Denominations -> VaultAmounts \cup {None}]
  BY <1>1, <1>4
<1>11. next.dirty \in SUBSET VaultReport
  BY <1>1, <1>7
<1>12. \A k \in F!Keys : next.vaults[k] =
          IF writes /\ k = c.key THEN VaultAfter(c) ELSE s.vaults[k]
  BY <1>1, <1>2
<1>13. next \in VaultState
  BY <1>9, <1>10, <1>11 DEF VaultState
<1> QED
  BY <1>2, <1>8, <1>12, <1>13

LEMMA VaultObserves ==
    ASSUME NEW o \in VaultSaid, NEW c \in F!Changes
    PROVE  /\ F!Observe(o, c) \in VaultSaid
           /\ \A k \in F!Keys : F!Observe(o, c)[k] =
                 IF c.kind \in {"created", "restored"} /\ k = c.key
                 THEN [kind |-> c.kind, amounts |-> c.amounts]
                 ELSE IF c.kind = "removed" /\ k = c.key
                 THEN [kind |-> "removed", amounts |-> None]
                 ELSE o[k]
<1>1. CASE c.kind \in {"created", "restored"}
  <2>1. c.key \in F!Keys /\ c.amounts \in VaultAmounts
    BY <1>1 DEF F!Changes
  <2>2. F!Observe(o, c) = [o EXCEPT ![c.key] = [kind |-> c.kind, amounts |-> c.amounts]]
    BY <1>1 DEF F!Observe
  <2> QED
    BY <1>1, <2>1, <2>2 DEF VaultSaid
<1>2. CASE c.kind = "removed"
  <2>1. c.key \in F!Keys
    BY <1>2 DEF F!Changes
  <2>2. F!Observe(o, c) = [o EXCEPT ![c.key] = [kind |-> "removed", amounts |-> None]]
    BY <1>2 DEF F!Observe
  <2> QED
    BY <1>2, <2>1, <2>2 DEF VaultSaid
<1>3. CASE c.kind \notin {"created", "restored", "removed"}
  <2>1. F!Observe(o, c) = o
    BY <1>3 DEF F!Observe
  <2> QED
    BY <1>3, <2>1
<1> QED
  BY <1>1, <1>2, <1>3

\* The prefixes of a ledger's decode, and of what it says.
LEMMA VaultRuns ==
    ASSUME NEW start \in VaultState, NEW n \in Nat, NEW ledger \in [1..n -> F!Changes]
    PROVE  \E run \in [0..n -> VaultState] :
              /\ run[0] = start
              /\ \A i \in 1..n : run[i] = F!Decode(run[i - 1], ledger[i])
              /\ F!FoldLeft(F!Decode, start, ledger) = run[n]
<1> DEFINE all == 1..n
           step == [w \in all \X VaultState |-> F!Decode(w[2], ledger[w[1]])]
           Is(iter) == iter = [s \in SUBSET all |->
                IF s = {} THEN start
                ELSE F!Decode(iter[s \ {F!Max(s)}], ledger[F!Max(s)])]
           fold == CHOOSE iter : Is(iter)
<1>1. step \in [all \X VaultState -> VaultState]
  <2>1. ASSUME NEW s \in VaultState, NEW c \in F!Changes
        PROVE  F!Decode(s, c) \in VaultState
    BY VaultDecodes
  <2>2. \A w \in all \X VaultState : w[2] \in VaultState /\ ledger[w[1]] \in F!Changes
    OBVIOUS
  <2> QED
    BY <2>1, <2>2
<1>2. /\ \A s \in SUBSET all : s # {} => Latest[s] \in s
      /\ \A s \in SUBSET all : F!Max(s) = Latest[s]
  BY LatestOf DEF Latest, F!Max
<1>3. PICK iter : FoldOf(VaultState, start, n, step, iter)
  <2> HIDE DEF step
  <2> QED
    BY <1>1, FoldExists
<1>4. \A s \in SUBSET all : s # {} =>
         step[<<Latest[s], iter[s \ {Latest[s]}]>>]
            = F!Decode(iter[s \ {F!Max(s)}], ledger[F!Max(s)])
  BY <1>2, <1>3 DEF FoldOf
<1>5. Is(iter)
  <2> HIDE DEF step
  <2> QED
    BY <1>3, <1>4 DEF FoldOf
<1>6. Is(fold)
  <2> HIDE DEF Is
  <2> QED
    BY <1>5
<1>7. F!FoldLeft(F!Decode, start, ledger) = fold[all]
  <2>1. DOMAIN ledger = all
    OBVIOUS
  <2> QED
    BY <2>1 DEF F!FoldLeft, F!MapThenFoldSet
<1> HIDE DEF fold
<1>8. /\ fold[{}] = start
      /\ \A i \in all : fold[1..i] = F!Decode(fold[1..(i - 1)], ledger[i])
  <2>1. \A s \in SUBSET all : fold[s] =
           IF s = {} THEN start
           ELSE F!Decode(fold[s \ {Latest[s]}], ledger[Latest[s]])
    BY <1>2, <1>6
  <2>2. ASSUME NEW i \in all
        PROVE  fold[1..i] = F!Decode(fold[1..(i - 1)], ledger[i])
    <3>1. /\ 1..i \in SUBSET all /\ 1..i # {} /\ Latest[1..i] = i
          /\ (1..i) \ {i} = 1..(i - 1)
      BY LatestOf
    <3> HIDE DEF all
    <3> QED
      BY <2>1, <3>1
  <2> HIDE DEF all
  <2> QED
    BY <2>1, <2>2
<1>9. FollowsSteps(VaultState, start, n, step, fold)
  BY <1>8 DEF FollowsSteps
<1>10. PICK run : RunOf(VaultState, start, n, step, run) /\ run[n] = fold[all]
  <2> HIDE DEF step
  <2> QED
    BY <1>1, <1>9, FoldRuns
<1>11. \A i \in all : run[i] = F!Decode(run[i - 1], ledger[i])
  <2>1. \A i \in all : i - 1 \in 0..n
    OBVIOUS
  <2>2. \A i \in all : run[i - 1] \in VaultState
    BY <1>10, <2>1 DEF RunOf
  <2> QED
    BY <1>10, <2>2 DEF RunOf
<1> QED
  BY <1>7, <1>10, <1>11 DEF RunOf

LEMMA VaultChainRuns ==
    ASSUME NEW start \in VaultSaid, NEW n \in Nat, NEW ledger \in [1..n -> F!Changes]
    PROVE  \E run \in [0..n -> VaultSaid] :
              /\ run[0] = start
              /\ \A i \in 1..n : run[i] = F!Observe(run[i - 1], ledger[i])
              /\ F!FoldLeft(F!Observe, start, ledger) = run[n]
<1> DEFINE all == 1..n
           step == [w \in all \X VaultSaid |-> F!Observe(w[2], ledger[w[1]])]
           Is(iter) == iter = [s \in SUBSET all |->
                IF s = {} THEN start
                ELSE F!Observe(iter[s \ {F!Max(s)}], ledger[F!Max(s)])]
           fold == CHOOSE iter : Is(iter)
<1>1. step \in [all \X VaultSaid -> VaultSaid]
  BY VaultObserves
<1>2. /\ \A s \in SUBSET all : s # {} => Latest[s] \in s
      /\ \A s \in SUBSET all : F!Max(s) = Latest[s]
  BY LatestOf DEF Latest, F!Max
<1>3. PICK iter : FoldOf(VaultSaid, start, n, step, iter)
  <2> HIDE DEF step
  <2> QED
    BY <1>1, FoldExists
<1>4. \A s \in SUBSET all : s # {} =>
         step[<<Latest[s], iter[s \ {Latest[s]}]>>]
            = F!Observe(iter[s \ {F!Max(s)}], ledger[F!Max(s)])
  BY <1>2, <1>3 DEF FoldOf
<1>5. Is(iter)
  <2> HIDE DEF step
  <2> QED
    BY <1>3, <1>4 DEF FoldOf
<1>6. Is(fold)
  <2> HIDE DEF Is
  <2> QED
    BY <1>5
<1>7. F!FoldLeft(F!Observe, start, ledger) = fold[all]
  <2>1. DOMAIN ledger = all
    OBVIOUS
  <2> QED
    BY <2>1 DEF F!FoldLeft, F!MapThenFoldSet
<1> HIDE DEF fold
<1>8. /\ fold[{}] = start
      /\ \A i \in all : fold[1..i] = F!Observe(fold[1..(i - 1)], ledger[i])
  <2>1. \A s \in SUBSET all : fold[s] =
           IF s = {} THEN start
           ELSE F!Observe(fold[s \ {Latest[s]}], ledger[Latest[s]])
    BY <1>2, <1>6
  <2>2. ASSUME NEW i \in all
        PROVE  fold[1..i] = F!Observe(fold[1..(i - 1)], ledger[i])
    <3>1. /\ 1..i \in SUBSET all /\ 1..i # {} /\ Latest[1..i] = i
          /\ (1..i) \ {i} = 1..(i - 1)
      BY LatestOf
    <3> HIDE DEF all
    <3> QED
      BY <2>1, <3>1
  <2> HIDE DEF all
  <2> QED
    BY <2>1, <2>2
<1>9. FollowsSteps(VaultSaid, start, n, step, fold)
  BY <1>8 DEF FollowsSteps
<1>10. PICK run : RunOf(VaultSaid, start, n, step, run) /\ run[n] = fold[all]
  <2> HIDE DEF step
  <2> QED
    BY <1>1, <1>9, FoldRuns
<1>11. \A i \in all : run[i] = F!Observe(run[i - 1], ledger[i])
  <2>1. \A i \in all : i - 1 \in 0..n
    OBVIOUS
  <2>2. \A i \in all : run[i - 1] \in VaultSaid
    BY <1>10, <2>1 DEF RunOf
  <2> QED
    BY <1>10, <2>2 DEF RunOf
<1> QED
  BY <1>7, <1>10, <1>11 DEF RunOf

\* A vault is what its last entry said.
VaultAgrees(v, said) ==
    CASE said.kind = "unseen"  -> v = None
      [] said.kind = "removed" -> v # None /\ v.closed
      [] OTHER -> /\ v # None /\ ~v.closed
                  /\ v.amounts = said.amounts
                  /\ v.restored = (said.kind = "restored")

IsClosed(v) == v # None /\ v.closed

\* A vault that moved is among the reports; one that was closed, as removed.
VaultReported(before, after, dirty, k) ==
    /\ after # before => \E r \in dirty : r.key = k
    /\ IsClosed(after) => IsClosed(before) \/ [key |-> k, kind |-> "removal"] \in dirty

\* One entry.
LEMMA VaultStep ==
    ASSUME NEW s \in VaultState, NEW o \in VaultSaid, NEW c \in F!Changes,
           NEW k \in F!Keys, NEW before,
           VaultAgrees(s.vaults[k], o[k]),
           VaultReported(before, s.vaults[k], s.dirty, k)
    PROVE  /\ VaultAgrees(F!Decode(s, c).vaults[k], F!Observe(o, c)[k])
           /\ VaultReported(before, F!Decode(s, c).vaults[k], F!Decode(s, c).dirty, k)
<1> DEFINE v == F!Decode(s, c).vaults[k]
           said == F!Observe(o, c)[k]
           reports == F!Decode(s, c).dirty
<1>1. s.dirty \subseteq reports
  BY VaultDecodes
<1>2. CASE c.kind \in {"created", "restored"} /\ k = c.key
  <2>1. v = VaultAfter(c) /\ said = [kind |-> c.kind, amounts |-> c.amounts]
    BY <1>2, VaultDecodes, VaultObserves
  <2>2. VaultAfter(c) = [amounts |-> c.amounts, closed |-> FALSE,
                         restored |-> c.kind = "restored"]
    BY <1>2 DEF VaultAfter
  <2>3. VaultAfter(c) # None
    BY <1>2, VaultAfterIs, VaultNames
  <2>4. [key |-> k, kind |-> "upsert"] \in reports
    BY <1>2, VaultDecodes DEF VaultReports
  <2> HIDE DEF v, said, reports
  <2>5. VaultAgrees(v, said)
    BY <1>2, <2>1, <2>2, <2>3 DEF VaultAgrees
  <2>6. VaultReported(before, v, reports, k)
    BY <2>1, <2>2, <2>4 DEF VaultReported, IsClosed
  <2> QED
    BY <2>5, <2>6 DEF v, said, reports
<1>3. CASE c.kind = "removed" /\ k = c.key
  <2>1. v = VaultAfter(c) /\ said = [kind |-> "removed", amounts |-> None]
    BY <1>3, VaultDecodes, VaultObserves
  <2>2. VaultAfter(c) = [amounts |-> None, closed |-> TRUE, restored |-> FALSE]
    BY <1>3 DEF VaultAfter
  <2>3. VaultAfter(c) # None
    BY <1>3, VaultAfterIs, VaultNames
  <2>4. [key |-> k, kind |-> "removal"] \in reports
    BY <1>3, VaultDecodes DEF VaultReports
  <2> HIDE DEF v, said, reports
  <2>5. VaultAgrees(v, said)
    BY <2>1, <2>2, <2>3 DEF VaultAgrees
  <2>6. VaultReported(before, v, reports, k)
    BY <2>4 DEF VaultReported
  <2> QED
    BY <2>5, <2>6 DEF v, said, reports
<1>4. CASE ~(c.kind \in {"created", "restored", "removed"} /\ k = c.key)
  <2>1. v = s.vaults[k]
    BY <1>4, VaultDecodes
  <2>2. said = o[k]
    BY <1>4, VaultObserves
  <2> HIDE DEF v, said, reports
  <2> QED
    BY <1>1, <2>1, <2>2 DEF VaultReported, v, said, reports
<1> QED
  BY <1>2, <1>3, <1>4

VaultInv ==
    /\ vaults \in [F!Keys -> Vaults \cup {None}]
    /\ infos \in [Denominations -> VaultAmounts \cup {None}]
    /\ vaultDirty \subseteq VaultReport
    /\ vaultChain \in VaultSaid
    /\ \A k \in F!Keys : VaultAgrees(vaults[k], vaultChain[k])

LEMMA VaultInit == F!Init => VaultInv
  BY DEF F!Init, VaultInv, VaultSaid, VaultAgrees

\* One ledger: every prefix of it keeps what an entry keeps.
LEMMA VaultLedger ==
    ASSUME VaultInv, NEW ledger \in F!Ledgers, F!DecodeState(ledger)
    PROVE  /\ VaultInv'
           /\ \E dirty \in SUBSET VaultReport :
                 /\ vaultDirty' = F!DedupeDirty(dirty)
                 /\ \A k \in F!Keys : VaultReported(vaults[k], vaults'[k], dirty, k)
<1> DEFINE start == [vaults |-> vaults, infos |-> infos, dirty |-> {}]
<1>1. PICK n \in Nat : ledger \in [1..n -> F!Changes]
  BY VaultNames DEF F!Ledgers
<1>2. start \in VaultState /\ vaultChain \in VaultSaid
  BY DEF VaultState, VaultInv
<1> HIDE DEF start
<1>3. PICK run \in [0..n -> VaultState] :
        /\ run[0] = start
        /\ \A i \in 1..n : run[i] = F!Decode(run[i - 1], ledger[i])
        /\ F!FoldLeft(F!Decode, start, ledger) = run[n]
  BY <1>1, <1>2, VaultRuns
<1>4. PICK said \in [0..n -> VaultSaid] :
        /\ said[0] = vaultChain
        /\ \A i \in 1..n : said[i] = F!Observe(said[i - 1], ledger[i])
        /\ F!FoldLeft(F!Observe, vaultChain, ledger) = said[n]
  BY <1>1, <1>2, VaultChainRuns
<1> DEFINE Holds(i) == \A k \in F!Keys :
                /\ VaultAgrees(run[i].vaults[k], said[i][k])
                /\ VaultReported(vaults[k], run[i].vaults[k], run[i].dirty, k)
           good == {i \in 0..n : Holds(i)}
<1>5. 0 \in good
  BY <1>3, <1>4 DEF start, VaultInv, VaultReported
<1>6. ASSUME NEW i \in 0..n, i < n, i \in good
      PROVE  i + 1 \in good
  <2>1. i + 1 \in 1..n /\ (i + 1) - 1 = i /\ i + 1 \in 0..n
    BY <1>6
  <2>2. /\ run[i + 1] = F!Decode(run[i], ledger[i + 1])
        /\ said[i + 1] = F!Observe(said[i], ledger[i + 1])
        /\ ledger[i + 1] \in F!Changes
    BY <1>1, <1>3, <1>4, <2>1
  <2>3. run[i] \in VaultState /\ said[i] \in VaultSaid
    OBVIOUS
  <2>4. Holds(i + 1)
    BY <1>6, <2>2, <2>3, VaultStep
  <2> HIDE DEF Holds
  <2> QED
    BY <2>1, <2>4
<1>7. Holds(n)
  <2> HIDE DEF good
  <2>1. \A i \in 0..n : i \in good
    BY <1>5, <1>6, Prefixes
  <2>2. n \in good
    BY <2>1
  <2> QED
    BY <2>2 DEF good
<1>8. /\ vaults' = run[n].vaults /\ infos' = run[n].infos
      /\ vaultDirty' = F!DedupeDirty(run[n].dirty) /\ vaultChain' = said[n]
  BY <1>3, <1>4 DEF F!DecodeState, start
<1>9. run[n] \in VaultState /\ said[n] \in VaultSaid
  OBVIOUS
<1>10. F!DedupeDirty(run[n].dirty) \subseteq run[n].dirty
  BY DEF F!DedupeDirty
<1>11. VaultInv'
  BY <1>7, <1>8, <1>9, <1>10 DEF VaultInv, VaultState
<1> QED
  BY <1>7, <1>8, <1>9, <1>11 DEF VaultState

LEMMA VaultPromises ==
    ASSUME VaultInv
    PROVE  F!FxDAOTypeOK /\ F!VaultsFollowChain
<1>1. \A k \in F!Keys : vaults[k] # None => vaults[k] \in Vaults
  BY DEF VaultInv
<1>2. F!FxDAOTypeOK
  BY <1>1 DEF VaultInv, F!FxDAOTypeOK, Vaults, VaultReport
<1>3. F!VaultsFollowChain
  <2> SUFFICES ASSUME NEW k \in F!Keys
               PROVE  CASE vaultChain[k].kind = "unseen"  -> F!Row(k) = "none"
                        [] vaultChain[k].kind = "removed" -> F!Row(k) = "closed"
                        [] OTHER -> /\ F!Row(k) = "active"
                                    /\ vaults[k].amounts = vaultChain[k].amounts
                                    /\ vaults[k].restored = (vaultChain[k].kind = "restored")
    BY DEF F!VaultsFollowChain
  <2>1. VaultAgrees(vaults[k], vaultChain[k])
    BY DEF VaultInv
  <2> QED
    BY <2>1 DEF VaultAgrees, F!Row
<1> QED
  BY <1>2, <1>3

\* The report of a ledger, once the doubles are out of it.
LEMMA VaultsReported ==
    ASSUME VaultInv, NEW ledger \in F!Ledgers, F!DecodeState(ledger), NEW k \in F!Keys
    PROVE  LET kinds == {r.kind : r \in {r \in vaultDirty' : r.key = k}}
           IN  /\ vaults'[k] # vaults[k] => kinds # {}
               /\ \A a, b \in kinds : a = b
               /\ (F!Row(k)' = "closed" /\ F!Row(k) # "closed") => kinds = {"removal"}
<1>1. PICK dirty \in SUBSET VaultReport :
        /\ vaultDirty' = F!DedupeDirty(dirty)
        /\ VaultReported(vaults[k], vaults'[k], dirty, k)
  BY VaultLedger
<1> DEFINE upsert  == [key |-> k, kind |-> "upsert"]
           removal == [key |-> k, kind |-> "removal"]
           kinds   == {r.kind : r \in {r \in vaultDirty' : r.key = k}}
<1>2. \A r \in dirty : r.key = k => r \in {upsert, removal}
  BY DEF VaultReport
<1>3. \A r \in VaultReport : r.key = k => [r EXCEPT !.kind = "removal"] = removal
  BY DEF VaultReport
<1>4. \A r : r \in vaultDirty' /\ r.key = k <=>
            \/ r = removal /\ removal \in dirty
            \/ r = upsert /\ upsert \in dirty /\ removal \notin dirty
  <2>1. upsert.kind = "upsert" /\ removal.kind = "removal" /\ upsert # removal
        /\ upsert.key = k /\ removal.key = k
    OBVIOUS
  <2>2. upsert \in VaultReport /\ removal \in VaultReport
    BY DEF VaultReport
  <2> HIDE DEF upsert, removal
  <2> QED
    BY <1>1, <1>2, <1>3, <2>1, <2>2 DEF F!DedupeDirty
<1>5. kinds = IF removal \in dirty THEN {"removal"}
              ELSE IF upsert \in dirty THEN {"upsert"} ELSE {}
  <2>1. upsert.kind = "upsert" /\ removal.kind = "removal"
    OBVIOUS
  <2> HIDE DEF upsert, removal
  <2> QED
    BY <1>4, <2>1
<1>6. vaults'[k] # vaults[k] => kinds # {}
  <2> HIDE DEF kinds, upsert, removal
  <2> QED
    BY <1>1, <1>2, <1>5 DEF VaultReported
<1>7. (F!Row(k)' = "closed" /\ F!Row(k) # "closed") => kinds = {"removal"}
  <2>1. F!Row(k) = "closed" <=> IsClosed(vaults[k])
    BY DEF F!Row, IsClosed
  <2>2. F!Row(k)' = "closed" <=> IsClosed(vaults'[k])
    BY DEF F!Row, IsClosed
  <2> HIDE DEF kinds
  <2> QED
    BY <1>1, <1>5, <2>1, <2>2 DEF VaultReported
<1> HIDE DEF upsert, removal
<1>8. \A a, b \in kinds : a = b
  <2> HIDE DEF kinds
  <2> QED
    BY <1>5
<1> QED
  BY <1>6, <1>7, <1>8 DEF kinds

-----------------------------------------------------------------------------
(* Aquarius.                                                               *)

PoolPositions == {f \in [A!Keys -> A!Position \cup {None}] :
                    \A k \in A!Keys : f[k] # None /\ k[3] # "classic" => f[k].reward = None}

PoolState == [mapped    : SUBSET Pools,
              pools     : [Pools -> A!Pool \cup {None}],
              positions : PoolPositions]

PoolSaid == [told    : SUBSET Pools,
             gone    : SUBSET Pools,
             known   : SUBSET Pools,
             supplies : [Pools -> Supplies \cup {None}],
             amounts : [A!Keys -> Nat \cup {None}],
             rewards : [A!Keys -> Nat \cup {None}],
             held    : SUBSET A!Keys]

LEMMA PoolNames ==
    /\ Amounts \subseteq Nat /\ SeedAmount \in Nat /\ SeedReward \in Nat \cup {None}
    /\ None \notin Nat /\ None \notin Supplies
    /\ None \notin A!Pool /\ None \notin A!Position
    /\ MaxPoolChanges \in Nat /\ MaxRestarts \in Nat
  BY AdaptersAssumption DEF A!AquariusAssumption

Classic(c) == <<c.pool, c.owner, "classic">>

\* The position an entry of shares or liquidity speaks of, when it speaks.
AmountKey(c) == IF c.entry = "position" THEN <<c.pool, c.owner, c.leg>> ELSE Classic(c)

TellsAmount(tokens, c) ==
    \/ c.entry = "position"
    \/ c.entry = "user" /\ c.value # None
    \/ c.entry = "shares" /\ c.pool \in tokens

TellsReward(c) == c.entry = "reward"
TellsWeight(c) == c.entry = "weight" /\ c.value # None
Torn(c) == c.entry = "teardown" \/ (c.entry = "user" /\ c.value = None)

Known(pos) == IF pos = None THEN A!Unknown ELSE pos

\* What an amount, and a reward, leave of a position.
AmountLeft(pos, v, fees) ==
    IF v # None THEN [Known(pos) EXCEPT !.amount = v, !.had = @ \/ v # 0, !.fees = fees]
    ELSE IF pos = None THEN None ELSE [pos EXCEPT !.amount = 0, !.fees = FALSE]

FeesTold(c, pos) == IF c.entry = "position" THEN c.fees ELSE Known(pos).fees

RewardLeft(pos, v) ==
    IF v # None THEN [Known(pos) EXCEPT !.reward = v]
    ELSE IF pos = None THEN None ELSE [pos EXCEPT !.reward = 0]

PositionLeft(tokens, pos, c, k) ==
    IF Torn(c) THEN (IF k[1] = c.pool THEN None ELSE pos)
    ELSE IF TellsAmount(tokens, c) /\ k = AmountKey(c)
         THEN AmountLeft(pos, c.value, FeesTold(c, pos))
    ELSE IF TellsReward(c) /\ k = Classic(c) THEN RewardLeft(pos, c.value)
    ELSE IF TellsWeight(c) /\ k = Classic(c) THEN Known(pos)
    ELSE pos

\* What an entry leaves of its pool.
SuppliedBy(pool, v) ==
    [supply |-> IF v # None THEN v ELSE IF pool = None THEN None ELSE pool.supply]

PoolLeft(pool, c) ==
    IF Torn(c) THEN None
    ELSE IF c.entry = "instance" /\ c.allowed THEN SuppliedBy(pool, c.supply)
    ELSE IF c.entry = "reserves" THEN SuppliedBy(pool, None)
    ELSE IF c.entry = "totalshares" /\ pool # None THEN SuppliedBy(pool, c.supply)
    ELSE pool

Entries == {"instance", "reserves", "totalshares", "position", "shares", "reward",
            "weight", "user", "teardown"}

UserEntries == {"position", "shares", "reward", "weight", "user"}

LEMMA PoolChanges ==
    ASSUME NEW c \in A!Changes
    PROVE  /\ c.entry \in Entries
           /\ c.pool \in Pools
           /\ c.entry = "instance" => c.supply \in Supplies \cup {None}
           /\ c.entry = "totalshares" => c.supply \in Supplies
           /\ c.entry \in UserEntries => c.value \in Nat \cup {None}
           /\ c.entry \in UserEntries => Classic(c) \in A!Keys /\ AmountKey(c) \in A!Keys
           /\ c.entry = "position" => c.fees \in BOOLEAN
           /\ ~UserRemovals /\ c.entry = "user" => c.value # None
<1> USE DEF Entries, UserEntries
<1>1. CASE c \in [entry : {"instance"}, pool : Pools, supply : Supplies \cup {None},
                  allowed : BOOLEAN]
  BY <1>1
<1>2. CASE c \in [entry : {"reserves", "teardown"}, pool : Pools]
  BY <1>2
<1>3. CASE c \in [entry : {"totalshares"}, pool : Pools, supply : Supplies]
  BY <1>3
<1>4. CASE c \in [entry : {"position"}, pool : Pools, owner : Owners, leg : A!Legs,
                  value : Amounts \cup {None}, fees : {FALSE}]
  BY <1>4, PoolNames DEF Classic, AmountKey, A!Keys, A!Legs
<1>5. CASE c \in [entry : {"position"}, pool : Pools, owner : Owners, leg : Ranges,
                  value : Amounts, fees : {TRUE}]
  BY <1>5, PoolNames DEF Classic, AmountKey, A!Keys, A!Legs
<1>6. CASE c \in [entry : {"shares", "reward", "weight"}, pool : Pools, owner : Owners,
                  value : Amounts \cup {None}]
  BY <1>6, PoolNames DEF Classic, AmountKey, A!Keys, A!Legs
<1>7. CASE c \in [entry : {"user"}, pool : Pools, owner : Owners,
                  value : IF UserRemovals THEN Amounts \cup {None} ELSE Amounts]
  <2>1. /\ c.entry = "user" /\ c.pool \in Pools /\ c.owner \in Owners
        /\ c.value \in IF UserRemovals THEN Amounts \cup {None} ELSE Amounts
    BY <1>7
  <2> QED
    BY <2>1, PoolNames DEF Classic, AmountKey, A!Keys, A!Legs
<1> QED
  BY <1>1, <1>2, <1>3, <1>4, <1>5, <1>6, <1>7 DEF A!Changes

LEMMA SuppliedIs ==
    ASSUME NEW pool \in A!Pool \cup {None}, NEW v \in Supplies \cup {None}
    PROVE  /\ SuppliedBy(pool, v) \in A!Pool
           /\ SuppliedBy(pool, v) # None
           /\ SuppliedBy(pool, v).supply =
                 IF v # None THEN v ELSE IF pool = None THEN None ELSE pool.supply
BY PoolNames DEF SuppliedBy, A!Pool

LEMMA PoolLeftIs ==
    ASSUME NEW c \in A!Changes, NEW pool \in A!Pool \cup {None}
    PROVE  PoolLeft(pool, c) \in A!Pool \cup {None}
BY PoolChanges, SuppliedIs DEF PoolLeft

\* The positions of a pool are of their type.
PosType(k) == {x \in A!Position \cup {None} : x # None /\ k[3] # "classic" => x.reward = None}

LEMMA KnownIs ==
    ASSUME NEW k, NEW pos \in PosType(k)
    PROVE  /\ Known(pos) \in A!Position /\ Known(pos) # None
           /\ Known(pos) \in PosType(k)
           /\ pos = None => /\ Known(pos).amount = None
                            /\ Known(pos).reward = None
                            /\ Known(pos).had = FALSE
           /\ pos # None => Known(pos) = pos
<1>1. A!Unknown \in A!Position /\ A!Unknown.reward = None /\ A!Unknown.amount = None
      /\ A!Unknown.had = FALSE
  BY DEF A!Unknown, A!Position
<1> QED
  BY <1>1, PoolNames DEF Known, PosType

LEMMA AmountLeftIs ==
    ASSUME NEW k, NEW pos \in PosType(k), NEW v \in Nat \cup {None}, NEW fees \in BOOLEAN
    PROVE  /\ AmountLeft(pos, v, fees) \in PosType(k)
           /\ v = None /\ pos = None => AmountLeft(pos, v, fees) = None
           /\ v = None /\ pos # None => /\ AmountLeft(pos, v, fees) # None
                                        /\ AmountLeft(pos, v, fees).amount = 0
                                        /\ AmountLeft(pos, v, fees).reward = pos.reward
                                        /\ AmountLeft(pos, v, fees).had = pos.had
           /\ v # None => /\ AmountLeft(pos, v, fees) # None
                          /\ AmountLeft(pos, v, fees).amount = v
                          /\ AmountLeft(pos, v, fees).reward = Known(pos).reward
                          /\ AmountLeft(pos, v, fees).had <=> Known(pos).had \/ v # 0
<1>1. CASE v # None
  <2> DEFINE known == Known(pos)
             left == [known EXCEPT !.amount = v, !.had = @ \/ v # 0, !.fees = fees]
  <2>1. known \in A!Position /\ (k[3] # "classic" => known.reward = None)
    BY KnownIs DEF PosType
  <2>2. AmountLeft(pos, v, fees) = left
    BY <1>1 DEF AmountLeft
  <2> HIDE DEF known
  <2>3. /\ left \in A!Position
        /\ left.amount = v /\ left.reward = known.reward /\ (left.had <=> known.had \/ v # 0)
    BY <1>1, <2>1 DEF A!Position
  <2> HIDE DEF left
  <2> QED
    BY <1>1, <2>1, <2>2, <2>3, PoolNames DEF PosType, known
<1>2. CASE v = None /\ pos # None
  <2> DEFINE left == [pos EXCEPT !.amount = 0, !.fees = FALSE]
  <2>1. pos \in A!Position /\ (k[3] # "classic" => pos.reward = None)
    BY <1>2 DEF PosType
  <2>2. AmountLeft(pos, v, fees) = left
    BY <1>2 DEF AmountLeft
  <2>3. /\ left \in A!Position
        /\ left.amount = 0 /\ left.reward = pos.reward /\ left.had = pos.had
    BY <2>1 DEF A!Position
  <2> HIDE DEF left
  <2> QED
    BY <1>2, <2>1, <2>2, <2>3, PoolNames DEF PosType
<1>3. CASE v = None /\ pos = None
  BY <1>3 DEF AmountLeft
<1> QED
  BY <1>1, <1>2, <1>3

LEMMA FeesToldIs ==
    ASSUME NEW c \in A!Changes, NEW k, NEW pos \in PosType(k)
    PROVE  FeesTold(c, pos) \in BOOLEAN
<1>1. Known(pos).fees \in BOOLEAN
  BY KnownIs DEF A!Position
<1> QED
  BY <1>1, PoolChanges DEF FeesTold

LEMMA RewardLeftIs ==
    ASSUME NEW k, k[3] = "classic", NEW pos \in PosType(k), NEW v \in Nat \cup {None}
    PROVE  /\ RewardLeft(pos, v) \in PosType(k)
           /\ v = None /\ pos = None => RewardLeft(pos, v) = None
           /\ v = None /\ pos # None => /\ RewardLeft(pos, v) # None
                                        /\ RewardLeft(pos, v).reward = 0
                                        /\ RewardLeft(pos, v).amount = pos.amount
                                        /\ RewardLeft(pos, v).had = pos.had
           /\ v # None => /\ RewardLeft(pos, v) # None
                          /\ RewardLeft(pos, v).reward = v
                          /\ RewardLeft(pos, v).amount = Known(pos).amount
                          /\ RewardLeft(pos, v).had = Known(pos).had
<1>1. CASE v # None
  <2> DEFINE known == Known(pos)
             left == [known EXCEPT !.reward = v]
  <2>1. known \in A!Position
    BY KnownIs DEF PosType
  <2>2. RewardLeft(pos, v) = left
    BY <1>1 DEF RewardLeft
  <2> HIDE DEF known
  <2>3. /\ left \in A!Position
        /\ left.reward = v /\ left.amount = known.amount /\ left.had = known.had
    BY <1>1, <2>1 DEF A!Position
  <2> HIDE DEF left
  <2> QED
    BY <1>1, <2>2, <2>3, PoolNames DEF PosType, known
<1>2. CASE v = None /\ pos # None
  <2> DEFINE left == [pos EXCEPT !.reward = 0]
  <2>1. pos \in A!Position
    BY <1>2 DEF PosType
  <2>2. RewardLeft(pos, v) = left
    BY <1>2 DEF RewardLeft
  <2>3. /\ left \in A!Position
        /\ left.reward = 0 /\ left.amount = pos.amount /\ left.had = pos.had
    BY <2>1 DEF A!Position
  <2> HIDE DEF left
  <2> QED
    BY <1>2, <2>2, <2>3, PoolNames DEF PosType
<1>3. CASE v = None /\ pos = None
  BY <1>3 DEF RewardLeft
<1> QED
  BY <1>1, <1>2, <1>3

LEMMA PositionLeftIs ==
    ASSUME NEW tokens, NEW c \in A!Changes, NEW k \in A!Keys, NEW pos \in PosType(k)
    PROVE  PositionLeft(tokens, pos, c, k) \in PosType(k)
<1>1. None \in PosType(k)
  BY DEF PosType
<1>2. TellsAmount(tokens, c) => c.value \in Nat \cup {None}
  BY PoolChanges DEF TellsAmount, UserEntries
<1>3. TellsReward(c) => c.value \in Nat \cup {None}
  BY PoolChanges DEF TellsReward, UserEntries
<1>4. Classic(c)[3] = "classic"
  BY DEF Classic
<1>5. TellsAmount(tokens, c) => AmountLeft(pos, c.value, FeesTold(c, pos)) \in PosType(k)
  <2>1. FeesTold(c, pos) \in BOOLEAN
    BY FeesToldIs
  <2> QED
    BY <1>2, <2>1, AmountLeftIs
<1>6. TellsReward(c) /\ k = Classic(c) => RewardLeft(pos, c.value) \in PosType(k)
  BY <1>3, <1>4, RewardLeftIs
<1>7. Known(pos) \in PosType(k)
  BY KnownIs

<1> QED
  BY <1>1, <1>5, <1>6, <1>7 DEF PositionLeft

LEMMA PoolDecodes ==
    ASSUME NEW s \in PoolState, NEW c \in A!Changes
    PROVE  /\ A!Decode(s, c) \in PoolState
           /\ A!Decode(s, c).mapped =
                 s.mapped \cup (IF c.entry = "instance" THEN {c.pool} ELSE {})
           /\ \A p \in Pools : A!Decode(s, c).pools[p] =
                 IF p = c.pool THEN PoolLeft(s.pools[p], c) ELSE s.pools[p]
           /\ \A k \in A!Keys : A!Decode(s, c).positions[k] =
                 PositionLeft(s.mapped, s.positions[k], c, k)
<1>1. /\ s = [mapped |-> s.mapped, pools |-> s.pools, positions |-> s.positions]
      /\ s.mapped \in SUBSET Pools
      /\ s.pools \in [Pools -> A!Pool \cup {None}]
      /\ s.positions \in [A!Keys -> A!Position \cup {None}]
      /\ \A k \in A!Keys : s.positions[k] \in PosType(k)
  BY DEF PoolState, PoolPositions, PosType
<1> DEFINE mapped_ == s.mapped \cup (IF c.entry = "instance" THEN {c.pool} ELSE {})
           pools_ == [p \in Pools |-> IF p = c.pool THEN PoolLeft(s.pools[p], c)
                                      ELSE s.pools[p]]
           left == [k \in A!Keys |-> PositionLeft(s.mapped, s.positions[k], c, k)]
           next == [mapped |-> mapped_, pools |-> pools_, positions |-> left]
           k0 == Classic(c)
           k1 == AmountKey(c)
<1>2. ASSUME c.entry \in UserEntries
      PROVE  k0 \in A!Keys /\ k1 \in A!Keys
  BY <1>2, PoolChanges
<1>3. ASSUME ~Torn(c), c.entry \in UserEntries PROVE pools_ = s.pools
  BY <1>1, <1>3 DEF PoolLeft, UserEntries
<1>4. ASSUME ~Torn(c), ~TellsAmount(s.mapped, c), ~TellsReward(c), ~TellsWeight(c)
      PROVE  left = s.positions
  BY <1>1, <1>4 DEF PositionLeft
<1>5. \A k \in A!Keys : A!Current(s, k) = Known(s.positions[k])
  BY DEF A!Current, Known
<1>6. ASSUME ~Torn(c), TellsAmount(s.mapped, c), k1 \in A!Keys
      PROVE  left = [s.positions EXCEPT ![k1] = AmountLeft(s.positions[k1], c.value,
                                                         FeesTold(c, s.positions[k1]))]
  <2>1. ~TellsReward(c) /\ ~TellsWeight(c)
    BY <1>6 DEF TellsAmount, TellsReward, TellsWeight
  <2> HIDE DEF k1
  <2>2. \A k \in A!Keys : left[k] = IF k = k1
                                    THEN AmountLeft(s.positions[k], c.value,
                                                    FeesTold(c, s.positions[k]))
                                    ELSE s.positions[k]
    BY <1>6, <2>1 DEF PositionLeft, k1
  <2> HIDE DEF left
  <2>3. left = [k \in A!Keys |-> left[k]]
    BY DEF left
  <2> QED
    BY <1>1, <1>6, <2>2, <2>3
<1>7. ASSUME A!SetAmount(s, k1, c.value) = A!Decode(s, c), c.value # None, ~Torn(c),
             TellsAmount(s.mapped, c), k1 \in A!Keys, c.entry \in {"shares", "user"}
      PROVE  A!Decode(s, c) = next
  <2> DEFINE known == Known(s.positions[k1])
             set == [known EXCEPT !.amount = c.value, !.had = @ \/ c.value # 0]
  <2>1. AmountLeft(s.positions[k1], c.value, FeesTold(c, s.positions[k1])) = set
    <3>1. known \in A!Position
      BY <1>1, <1>7, KnownIs
    <3>2. FeesTold(c, s.positions[k1]) = known.fees
      BY <1>7 DEF FeesTold
    <3>3. AmountLeft(s.positions[k1], c.value, FeesTold(c, s.positions[k1]))
            = [known EXCEPT !.amount = c.value, !.had = @ \/ c.value # 0, !.fees = known.fees]
      BY <1>7, <3>2 DEF AmountLeft
    <3> HIDE DEF known
    <3> QED
      BY <3>1, <3>3 DEF A!Position
  <2>2. left = [s.positions EXCEPT ![k1] =
                   [A!Current(s, k1) EXCEPT !.amount = c.value, !.had = @ \/ c.value # 0]]
    BY <1>5, <1>6, <1>7, <2>1
  <2>3. pools_ = s.pools /\ mapped_ = s.mapped
    BY <1>3, <1>7 DEF UserEntries
  <2> HIDE DEF left, pools_, mapped_, k1
  <2> QED
    BY <1>1, <1>7, <2>2, <2>3 DEF A!SetAmount
<1>19. ASSUME A!SetPosition(s, k1, c.value, c.fees) = A!Decode(s, c), c.value # None, ~Torn(c),
              TellsAmount(s.mapped, c), k1 \in A!Keys, c.entry = "position"
       PROVE  A!Decode(s, c) = next
  <2> DEFINE set == [A!Current(s, k1) EXCEPT !.amount = c.value, !.had = @ \/ c.value # 0]
  <2>1. AmountLeft(s.positions[k1], c.value, FeesTold(c, s.positions[k1]))
          = [set EXCEPT !.fees = c.fees]
    <3> DEFINE known == Known(s.positions[k1])
    <3>1. known \in A!Position /\ A!Current(s, k1) = known
      BY <1>1, <1>5, <1>19, KnownIs
    <3>2. AmountLeft(s.positions[k1], c.value, FeesTold(c, s.positions[k1]))
            = [known EXCEPT !.amount = c.value, !.had = @ \/ c.value # 0, !.fees = c.fees]
      BY <1>19 DEF AmountLeft, FeesTold
    <3> HIDE DEF known
    <3> QED
      BY <3>1, <3>2 DEF A!Position
  <2>2. left = [s.positions EXCEPT ![k1] = [set EXCEPT !.fees = c.fees]]
    BY <1>6, <1>19, <2>1
  <2>3. pools_ = s.pools /\ mapped_ = s.mapped
    BY <1>3, <1>19 DEF UserEntries
  <2>4. A!SetAmount(s, k1, c.value) = [s EXCEPT !.positions[k1] = set]
    BY DEF A!SetAmount
  <2> HIDE DEF left, pools_, mapped_, k1, set
  <2>5. A!SetPosition(s, k1, c.value, c.fees)
          = [s EXCEPT !.positions[k1] = [set EXCEPT !.fees = c.fees]]
    BY <1>1, <1>19, <2>4 DEF A!SetPosition
  <2> QED
    BY <1>1, <1>19, <2>2, <2>3, <2>5
<1>8. ASSUME A!CloseAmount(s, k1) = A!Decode(s, c), c.value = None, ~Torn(c),
             TellsAmount(s.mapped, c), k1 \in A!Keys, c.entry \in {"shares", "position"}
      PROVE  A!Decode(s, c) = next
  <2>1. left = [s.positions EXCEPT ![k1] = IF s.positions[k1] = None THEN None
                                           ELSE [s.positions[k1] EXCEPT !.amount = 0,
                                                                        !.fees = FALSE]]
    BY <1>6, <1>8 DEF AmountLeft
  <2>2. pools_ = s.pools /\ mapped_ = s.mapped
    BY <1>3, <1>8 DEF UserEntries
  <2> HIDE DEF left, pools_, mapped_, k1
  <2>3. CASE s.positions[k1] = None
    <3>1. left = s.positions
      BY <1>1, <1>8, <2>1, <2>3
    <3> QED
      BY <1>1, <1>8, <2>2, <2>3, <3>1 DEF A!CloseAmount
  <2>4. CASE s.positions[k1] # None
    BY <1>1, <1>8, <2>1, <2>2, <2>4 DEF A!CloseAmount
  <2> QED
    BY <2>3, <2>4
<1>9. ASSUME c.entry \in {"instance", "reserves", "totalshares"} PROVE A!Decode(s, c) = next
  <2>1. ~Torn(c) /\ ~TellsAmount(s.mapped, c) /\ ~TellsReward(c) /\ ~TellsWeight(c)
    BY <1>9 DEF Torn, TellsAmount, TellsReward, TellsWeight
  <2>2. left = s.positions
    BY <1>4, <2>1
  <2>3. c.pool \in Pools
    BY PoolChanges
  <2>4. pools_ = [s.pools EXCEPT ![c.pool] = PoolLeft(@, c)]
    BY <1>1, <2>3
  <2>5. ASSUME NEW t \in PoolState, t.pools = s.pools, NEW v
        PROVE  A!WritePool(t, c.pool, v)
                 = [t EXCEPT !.pools = [t.pools EXCEPT ![c.pool] = SuppliedBy(t.pools[c.pool], v)]]
    BY <2>5 DEF A!WritePool, SuppliedBy
  <2> HIDE DEF left, pools_
  <2>6. CASE c.entry = "instance"
    <3> DEFINE learnt == [s EXCEPT !.mapped = @ \cup {c.pool}]
    <3>1. learnt = [mapped |-> mapped_, pools |-> s.pools, positions |-> s.positions]
      BY <1>1, <2>6
    <3>2. learnt \in PoolState /\ learnt.pools = s.pools
      BY <1>1, <2>3, <3>1 DEF PoolState
    <3>3. A!Decode(s, c) = IF c.allowed THEN A!WritePool(learnt, c.pool, c.supply) ELSE learnt
      BY <2>6 DEF A!Decode, A!WriteInstance
    <3> HIDE DEF learnt, mapped_
    <3>4. CASE c.allowed
      <4>1. PoolLeft(s.pools[c.pool], c) = SuppliedBy(s.pools[c.pool], c.supply)
        BY <2>1, <2>6, <3>4 DEF PoolLeft
      <4> QED
        BY <1>1, <2>2, <2>3, <2>4, <2>5, <3>1, <3>2, <3>3, <3>4, <4>1
    <3>5. CASE ~c.allowed
      <4>1. PoolLeft(s.pools[c.pool], c) = s.pools[c.pool]
        BY <2>1, <2>6, <3>5 DEF PoolLeft
      <4>2. pools_ = s.pools
        BY <1>1, <2>3, <2>4, <4>1
      <4> QED
        BY <2>2, <3>1, <3>3, <3>5, <4>2
    <3> QED
      BY <3>4, <3>5
  <2>7. CASE c.entry = "reserves"
    <3>1. PoolLeft(s.pools[c.pool], c) = SuppliedBy(s.pools[c.pool], None)
      BY <2>1, <2>7 DEF PoolLeft
    <3>2. A!Decode(s, c) = A!WritePool(s, c.pool, None) /\ mapped_ = s.mapped
      BY <2>7 DEF A!Decode
    <3> HIDE DEF mapped_
    <3> QED
      BY <1>1, <2>2, <2>3, <2>4, <2>5, <3>1, <3>2
  <2>8. CASE c.entry = "totalshares"
    <3>1. A!Decode(s, c) = IF s.pools[c.pool] = None THEN s
                           ELSE A!WritePool(s, c.pool, c.supply)
      BY <2>8 DEF A!Decode
    <3>2. mapped_ = s.mapped
      BY <2>8
    <3> HIDE DEF mapped_
    <3>3. CASE s.pools[c.pool] = None
      <4>1. PoolLeft(s.pools[c.pool], c) = s.pools[c.pool]
        BY <2>1, <2>8, <3>3 DEF PoolLeft
      <4>2. pools_ = s.pools
        BY <1>1, <2>3, <2>4, <4>1
      <4> QED
        BY <1>1, <2>2, <3>1, <3>2, <3>3, <4>2
    <3>4. CASE s.pools[c.pool] # None
      <4>1. PoolLeft(s.pools[c.pool], c) = SuppliedBy(s.pools[c.pool], c.supply)
        BY <2>1, <2>8, <3>4 DEF PoolLeft
      <4> QED
        BY <1>1, <2>2, <2>3, <2>4, <2>5, <3>1, <3>2, <3>4, <4>1
    <3> QED
      BY <3>3, <3>4
  <2> QED
    BY <1>9, <2>6, <2>7, <2>8
<1>10. ASSUME Torn(c) PROVE A!Decode(s, c) = next
  <2>1. c.entry # "instance"
    BY <1>10 DEF Torn
  <2>2. A!Decode(s, c) = A!TearDown(s, c.pool)
    BY <1>10 DEF A!Decode, Torn
  <2>3. pools_ = [s.pools EXCEPT ![c.pool] = None] /\ mapped_ = s.mapped
    BY <1>1, <1>10, <2>1, PoolChanges DEF PoolLeft
  <2>4. left = [k \in A!Keys |-> IF k[1] = c.pool THEN None ELSE s.positions[k]]
    BY <1>10 DEF PositionLeft
  <2> HIDE DEF left, pools_, mapped_
  <2> QED
    BY <1>1, <2>2, <2>3, <2>4 DEF A!TearDown
<1>11. ASSUME c.entry = "shares" PROVE A!Decode(s, c) = next
  <2>1. ~Torn(c) /\ ~TellsReward(c) /\ ~TellsWeight(c)
        /\ (TellsAmount(s.mapped, c) <=> c.pool \in s.mapped) /\ k1 = k0 /\ k1 \in A!Keys
    BY <1>2, <1>11 DEF Torn, TellsAmount, TellsReward, TellsWeight, AmountKey, UserEntries
  <2>2. CASE c.pool \notin s.mapped
    <3>1. A!Decode(s, c) = s
      BY <1>11, <2>2 DEF A!Decode
    <3>2. left = s.positions /\ pools_ = s.pools /\ mapped_ = s.mapped
      BY <1>3, <1>4, <1>11, <2>1, <2>2 DEF UserEntries
    <3> HIDE DEF left, pools_, mapped_
    <3> QED
      BY <1>1, <3>1, <3>2
  <2>3. CASE c.pool \in s.mapped /\ c.value = None
    <3>1. A!Decode(s, c) = A!CloseAmount(s, k1)
      BY <1>11, <2>1, <2>3 DEF A!Decode, Classic
    <3> QED
      BY <1>8, <1>11, <2>1, <2>3, <3>1
  <2>4. CASE c.pool \in s.mapped /\ c.value # None
    <3>1. A!Decode(s, c) = A!SetAmount(s, k1, c.value)
      BY <1>11, <2>1, <2>4 DEF A!Decode, Classic
    <3> QED
      BY <1>7, <1>11, <2>1, <2>4, <3>1
  <2> QED
    BY <2>2, <2>3, <2>4
<1>12. ASSUME c.entry = "position" PROVE A!Decode(s, c) = next
  <2>1. ~Torn(c) /\ TellsAmount(s.mapped, c) /\ k1 = <<c.pool, c.owner, c.leg>>
        /\ k1 \in A!Keys
    BY <1>2, <1>12 DEF Torn, TellsAmount, AmountKey, UserEntries
  <2>2. CASE c.value = None
    <3>1. A!Decode(s, c) = A!CloseAmount(s, k1)
      BY <1>12, <2>1, <2>2 DEF A!Decode
    <3> QED
      BY <1>8, <1>12, <2>1, <2>2, <3>1
  <2>3. CASE c.value # None
    <3>1. A!Decode(s, c) = A!SetPosition(s, k1, c.value, c.fees)
      BY <1>12, <2>1, <2>3 DEF A!Decode
    <3> QED
      BY <1>12, <1>19, <2>1, <2>3, <3>1
  <2> QED
    BY <2>2, <2>3
<1>13. ASSUME c.entry = "user" /\ c.value # None PROVE A!Decode(s, c) = next
  <2>1. ~Torn(c) /\ TellsAmount(s.mapped, c) /\ k1 = k0 /\ k1 \in A!Keys
    BY <1>2, <1>13 DEF Torn, TellsAmount, AmountKey, UserEntries
  <2>2. A!Decode(s, c) = A!SetAmount(s, k1, c.value)
    BY <1>13, <2>1 DEF A!Decode, Classic
  <2> QED
    BY <1>7, <1>13, <2>1, <2>2
<1>14. ASSUME ~Torn(c), ~TellsAmount(s.mapped, c), TellsReward(c) \/ TellsWeight(c), NEW pos,
              k0 \in A!Keys, \A k \in A!Keys : k = k0 =>
                   PositionLeft(s.mapped, s.positions[k], c, k) = pos
       PROVE  left = [s.positions EXCEPT ![k0] = pos]
  <2>1. \A k \in A!Keys : k # k0 => left[k] = s.positions[k]
    BY <1>14 DEF PositionLeft
  <2>2. left[k0] = pos
    BY <1>14
  <2> HIDE DEF k0
  <2>3. left = [k \in A!Keys |-> left[k]]
    OBVIOUS
  <2> HIDE DEF left
  <2> QED
    BY <1>1, <1>14, <2>1, <2>2, <2>3
<1>15. ASSUME c.entry = "reward" PROVE A!Decode(s, c) = next
  <2>1. ~Torn(c) /\ TellsReward(c) /\ ~TellsAmount(s.mapped, c) /\ k0 \in A!Keys
    BY <1>2, <1>15 DEF Torn, TellsAmount, TellsReward, UserEntries
  <2>2. left = [s.positions EXCEPT ![k0] = RewardLeft(s.positions[k0], c.value)]
    BY <1>14, <2>1 DEF PositionLeft
  <2>3. pools_ = s.pools /\ mapped_ = s.mapped
    BY <1>3, <1>15, <2>1 DEF UserEntries
  <2>4. CASE c.value = None
    <3>1. A!Decode(s, c) = A!CloseReward(s, k0)
      BY <1>15, <2>4 DEF A!Decode, Classic
    <3> HIDE DEF left, pools_, mapped_, k0
    <3>2. CASE s.positions[k0] = None
      <4>1. left = s.positions
        BY <1>1, <2>1, <2>2, <2>4, <3>2 DEF RewardLeft
      <4> QED
        BY <1>1, <2>3, <3>1, <3>2, <4>1 DEF A!CloseReward
    <3>3. CASE s.positions[k0] # None
      <4>1. left = [s.positions EXCEPT ![k0] = [s.positions[k0] EXCEPT !.reward = 0]]
        BY <2>2, <2>4, <3>3 DEF RewardLeft
      <4> QED
        BY <1>1, <2>1, <2>3, <3>1, <3>3, <4>1 DEF A!CloseReward
    <3> QED
      BY <3>2, <3>3
  <2>5. CASE c.value # None
    <3>1. A!Decode(s, c) = A!SetReward(s, k0, c.value)
      BY <1>15, <2>5 DEF A!Decode, Classic
    <3>2. left = [s.positions EXCEPT ![k0] = [A!Current(s, k0) EXCEPT !.reward = c.value]]
      BY <1>5, <2>1, <2>2, <2>5 DEF RewardLeft
    <3> HIDE DEF left, pools_, mapped_, k0
    <3> QED
      BY <1>1, <2>3, <3>1, <3>2 DEF A!SetReward
  <2> QED
    BY <2>4, <2>5
<1>16. ASSUME c.entry = "weight" PROVE A!Decode(s, c) = next
  <2>1. ~Torn(c) /\ ~TellsReward(c) /\ ~TellsAmount(s.mapped, c) /\ k0 \in A!Keys
    BY <1>2, <1>16 DEF Torn, TellsAmount, TellsReward, UserEntries
  <2>2. pools_ = s.pools /\ mapped_ = s.mapped
    BY <1>3, <1>16, <2>1 DEF UserEntries
  <2>3. CASE c.value = None
    <3>1. A!Decode(s, c) = s
      BY <1>16, <2>3 DEF A!Decode
    <3>2. left = s.positions
      BY <1>4, <2>1, <2>3 DEF TellsWeight
    <3> HIDE DEF left, pools_, mapped_
    <3> QED
      BY <1>1, <2>2, <3>1, <3>2
  <2>4. CASE c.value # None
    <3>1. A!Decode(s, c) = [s EXCEPT !.positions[k0] = A!Current(s, k0)]
      BY <1>16, <2>4 DEF A!Decode, Classic
    <3>2. TellsWeight(c)
      BY <1>16, <2>4 DEF TellsWeight
    <3>3. left = [s.positions EXCEPT ![k0] = A!Current(s, k0)]
      BY <1>5, <1>14, <2>1, <3>2 DEF PositionLeft
    <3> HIDE DEF left, pools_, mapped_, k0
    <3> QED
      BY <1>1, <2>2, <3>1, <3>3
  <2> QED
    BY <2>3, <2>4
<1>17. A!Decode(s, c) = next
  <2>1. c.entry \in Entries
    BY PoolChanges
  <2>2. c.entry = "teardown" \/ (c.entry = "user" /\ c.value = None) => Torn(c)
    BY DEF Torn
  <2> HIDE DEF next, left, pools_, mapped_
  <2> QED
    BY <1>9, <1>10, <1>11, <1>12, <1>13, <1>15, <1>16, <2>1, <2>2 DEF Entries
<1>18. next \in PoolState
  <2>1. mapped_ \in SUBSET Pools
    BY <1>1, PoolChanges
  <2>2. pools_ \in [Pools -> A!Pool \cup {None}]
    BY <1>1, PoolLeftIs
  <2>3. left \in PoolPositions
    <3>1. \A k \in A!Keys : left[k] \in PosType(k)
      BY <1>1, PositionLeftIs
    <3>2. left = [k \in A!Keys |-> left[k]]
      OBVIOUS
    <3> HIDE DEF left
    <3> QED
      BY <3>1, <3>2 DEF PoolPositions, PosType
  <2> HIDE DEF mapped_, pools_, left
  <2> QED
    BY <2>1, <2>2, <2>3 DEF PoolState
<1> QED
  BY <1>17, <1>18

\* What an entry of amounts or rewards says; the removal of what nothing was
\* said of since its pool was removed says nothing.
ToldOf(was, v, isGone) ==
    IF v # None THEN v ELSE IF was = None /\ isGone THEN None ELSE 0

SaysAmount(tokens, c) == TellsAmount(tokens, c) \/ c.entry = "user"

\* The entries that say their pool is there.
Introduces(c, isKnown) ==
    \/ c.entry = "instance" /\ c.allowed
    \/ c.entry = "reserves"
    \/ c.entry = "totalshares" /\ isKnown

\* What was said of a supply, after an entry of its pool.
SupplySaid(was, c, isKnown) ==
    IF c.entry = "teardown" THEN None
    ELSE IF Introduces(c, isKnown) /\ c.entry # "reserves" /\ c.supply # None THEN c.supply
    ELSE was

LEMMA PoolObserves ==
    ASSUME NEW o \in PoolSaid, NEW c \in A!Changes
    PROVE  /\ A!Observe(o, c) \in PoolSaid
           /\ A!Observe(o, c).told =
                 o.told \cup (IF c.entry = "instance" THEN {c.pool} ELSE {})
           /\ A!Observe(o, c).gone =
                 o.gone \cup (IF c.entry = "teardown" THEN {c.pool} ELSE {})
           /\ A!Observe(o, c).known =
                 IF c.entry = "teardown" THEN o.known \ {c.pool}
                 ELSE IF Introduces(c, c.pool \in o.known) THEN o.known \cup {c.pool}
                 ELSE o.known
           /\ \A p \in Pools : A!Observe(o, c).supplies[p] =
                 IF p = c.pool THEN SupplySaid(o.supplies[p], c, p \in o.known)
                 ELSE o.supplies[p]
           /\ \A k \in A!Keys : A!Observe(o, c).amounts[k] =
                 IF c.entry = "teardown" THEN (IF k[1] = c.pool THEN None ELSE o.amounts[k])
                 ELSE IF SaysAmount(o.told, c) /\ k = AmountKey(c)
                 THEN ToldOf(o.amounts[k], c.value, c.pool \in o.gone) ELSE o.amounts[k]
           /\ \A k \in A!Keys : A!Observe(o, c).rewards[k] =
                 IF c.entry = "teardown" THEN (IF k[1] = c.pool THEN None ELSE o.rewards[k])
                 ELSE IF c.entry = "reward" /\ k = Classic(c)
                 THEN ToldOf(o.rewards[k], c.value, c.pool \in o.gone) ELSE o.rewards[k]
           /\ A!Observe(o, c).held =
                 IF c.entry = "teardown" THEN {l \in o.held : l[1] # c.pool}
                 ELSE IF SaysAmount(o.told, c) /\ c.value \notin {None, 0}
                 THEN o.held \cup {AmountKey(c)} ELSE o.held
<1>1. /\ o = [told |-> o.told, gone |-> o.gone, known |-> o.known, supplies |-> o.supplies,
              amounts |-> o.amounts, rewards |-> o.rewards, held |-> o.held]
      /\ o.told \in SUBSET Pools /\ o.gone \in SUBSET Pools /\ o.known \in SUBSET Pools
      /\ o.supplies \in [Pools -> Supplies \cup {None}]
      /\ o.amounts \in [A!Keys -> Nat \cup {None}]
      /\ o.rewards \in [A!Keys -> Nat \cup {None}]
      /\ o.held \in SUBSET A!Keys
  BY DEF PoolSaid
<1> DEFINE k0 == Classic(c)
           k1 == AmountKey(c)
           p0 == c.pool
           says == SaysAmount(o.told, c)
           isGone == p0 \in o.gone
           isKnown == p0 \in o.known
           torn(f) == [l \in A!Keys |-> IF l[1] = p0 THEN None ELSE f[l]]
           told_ == o.told \cup (IF c.entry = "instance" THEN {p0} ELSE {})
           gone_ == o.gone \cup (IF c.entry = "teardown" THEN {p0} ELSE {})
           known_ == IF c.entry = "teardown" THEN o.known \ {p0}
                     ELSE IF Introduces(c, isKnown) THEN o.known \cup {p0} ELSE o.known
           supplies_ == [o.supplies EXCEPT ![p0] = SupplySaid(@, c, isKnown)]
           amounts_ == IF c.entry = "teardown" THEN torn(o.amounts)
                       ELSE IF says THEN [o.amounts EXCEPT ![k1] = ToldOf(@, c.value, isGone)]
                       ELSE o.amounts
           rewards_ == IF c.entry = "teardown" THEN torn(o.rewards)
                       ELSE IF c.entry = "reward"
                       THEN [o.rewards EXCEPT ![k0] = ToldOf(@, c.value, isGone)]
                       ELSE o.rewards
           held_ == IF c.entry = "teardown" THEN {l \in o.held : l[1] # p0}
                    ELSE IF says /\ c.value \notin {None, 0} THEN o.held \cup {k1}
                    ELSE o.held
           next == [told |-> told_, gone |-> gone_, known |-> known_, supplies |-> supplies_,
                    amounts |-> amounts_, rewards |-> rewards_, held |-> held_]
<1>2. ASSUME c.entry \in UserEntries
      PROVE  k0 \in A!Keys /\ k1 \in A!Keys /\ c.value \in Nat \cup {None}
  BY <1>2, PoolChanges
<1>3. says => c.entry \in {"position", "shares", "user"}
  BY DEF SaysAmount, TellsAmount
<1>4. p0 \in Pools
  BY PoolChanges
<1>5. \A was, v : ToldOf(was, v, isGone) =
         IF v # None THEN v ELSE IF was = None /\ isGone THEN None ELSE 0
  BY DEF ToldOf
<1>6. ASSUME c.entry \in UserEntries
      PROVE  supplies_ = o.supplies /\ known_ = o.known /\ told_ = o.told /\ gone_ = o.gone
  <2>1. SupplySaid(o.supplies[p0], c, isKnown) = o.supplies[p0] /\ ~Introduces(c, isKnown)
    BY <1>6 DEF SupplySaid, Introduces, UserEntries
  <2>2. c.entry # "teardown" /\ c.entry # "instance"
    BY <1>6 DEF UserEntries
  <2> HIDE DEF p0, isKnown
  <2> QED
    BY <1>1, <1>4, <2>1, <2>2
<1>7. ASSUME says, c.entry # "teardown", c.entry # "reward",
             A!Observe(o, c) =
                [o EXCEPT !.amounts[k1] = IF c.value # None THEN c.value
                                          ELSE IF @ = None /\ c.pool \in o.gone THEN None ELSE 0,
                          !.held = IF c.value \in {None, 0} THEN @ ELSE @ \cup {k1}]
      PROVE  A!Observe(o, c) = next
  <2>1. c.entry \in UserEntries
    BY <1>3, <1>7 DEF UserEntries
  <2>2. /\ amounts_ = [o.amounts EXCEPT ![k1] = IF c.value # None THEN c.value
                          ELSE IF @ = None /\ c.pool \in o.gone THEN None ELSE 0]
        /\ held_ = IF c.value \in {None, 0} THEN o.held ELSE o.held \cup {k1}
        /\ rewards_ = o.rewards
    <3> HIDE DEF says, k1, k0
    <3> QED
      BY <1>5, <1>7
  <2>3. supplies_ = o.supplies /\ known_ = o.known /\ told_ = o.told /\ gone_ = o.gone
    BY <1>6, <2>1
  <2> HIDE DEF amounts_, held_, rewards_, supplies_, known_, told_, gone_, k1, says
  <2> QED
    BY <1>1, <1>7, <2>2, <2>3
<1>8. ASSUME c.entry \in {"instance", "reserves", "totalshares"}
      PROVE  A!Observe(o, c) = next
  <2>1. ~says /\ c.entry # "teardown" /\ c.entry # "reward"
    BY <1>3, <1>8
  <2>2. amounts_ = o.amounts /\ rewards_ = o.rewards /\ held_ = o.held /\ gone_ = o.gone
    <3> HIDE DEF says, k0, k1, torn
    <3> QED
      BY <2>1
  <2> DEFINE Know(s, v) == [s EXCEPT !.known = @ \cup {p0},
                                     !.supplies[p0] = IF v = None THEN @ ELSE v]
  <2> HIDE DEF amounts_, rewards_, held_, gone_, says
  <2>3. CASE c.entry = "instance"
    <3>1. A!Observe(o, c) = IF c.allowed THEN Know([o EXCEPT !.told = @ \cup {p0}], c.supply)
                            ELSE [o EXCEPT !.told = @ \cup {p0}]
      BY <2>3 DEF A!Observe
    <3>2. told_ = o.told \cup {p0}
      BY <2>3
    <3>3. CASE c.allowed
      <4>1. SupplySaid(o.supplies[p0], c, isKnown)
              = IF c.supply = None THEN o.supplies[p0] ELSE c.supply
        BY <2>3, <3>3 DEF SupplySaid, Introduces
      <4>2. known_ = o.known \cup {p0}
        BY <2>3, <3>3 DEF Introduces
      <4>3. supplies_ = [o.supplies EXCEPT ![p0] = IF c.supply = None THEN @ ELSE c.supply]
        BY <4>1
      <4>4. A!Observe(o, c) = [o EXCEPT !.told = told_, !.known = known_,
                                        !.supplies = supplies_]
        <5> HIDE DEF supplies_, known_, told_, p0
        <5> QED
          BY <1>1, <3>1, <3>2, <3>3, <4>2, <4>3
      <4> HIDE DEF supplies_, known_, told_, p0
      <4> QED
        BY <1>1, <2>2, <4>4
    <3>4. CASE ~c.allowed
      <4>1. SupplySaid(o.supplies[p0], c, isKnown) = o.supplies[p0] /\ known_ = o.known
        BY <2>3, <3>4 DEF SupplySaid, Introduces
      <4>2. supplies_ = o.supplies
        BY <1>1, <1>4, <4>1
      <4> HIDE DEF supplies_, known_, told_, p0
      <4> QED
        BY <1>1, <2>2, <3>1, <3>2, <3>4, <4>1, <4>2
    <3> QED
      BY <3>3, <3>4
  <2>4. CASE c.entry = "reserves"
    <3>1. A!Observe(o, c) = Know(o, None)
      BY <2>4 DEF A!Observe
    <3>2. /\ SupplySaid(o.supplies[p0], c, isKnown) = o.supplies[p0]
          /\ known_ = o.known \cup {p0} /\ told_ = o.told
      BY <2>4 DEF SupplySaid, Introduces
    <3>3. supplies_ = o.supplies /\ [o.supplies EXCEPT ![p0] = @] = o.supplies
      BY <1>1, <1>4, <3>2
    <3> HIDE DEF supplies_, known_, told_, p0
    <3> QED
      BY <1>1, <2>2, <3>1, <3>2, <3>3
  <2>5. CASE c.entry = "totalshares" /\ isKnown
    <3>1. A!Observe(o, c) = Know(o, c.supply)
      BY <2>5 DEF A!Observe
    <3>2. /\ SupplySaid(o.supplies[p0], c, isKnown)
                = IF c.supply = None THEN o.supplies[p0] ELSE c.supply
          /\ known_ = o.known \cup {p0} /\ told_ = o.told
      BY <2>5 DEF SupplySaid, Introduces
    <3>3. supplies_ = [o.supplies EXCEPT ![p0] = IF c.supply = None THEN @ ELSE c.supply]
      BY <3>2
    <3> HIDE DEF supplies_, known_, told_, p0
    <3> QED
      BY <1>1, <2>2, <3>1, <3>2, <3>3
  <2>6. CASE c.entry = "totalshares" /\ ~isKnown
    <3>1. A!Observe(o, c) = o
      BY <2>6 DEF A!Observe
    <3>2. /\ SupplySaid(o.supplies[p0], c, isKnown) = o.supplies[p0]
          /\ known_ = o.known /\ told_ = o.told
      BY <2>6 DEF SupplySaid, Introduces
    <3>3. supplies_ = o.supplies
      BY <1>1, <1>4, <3>2
    <3> HIDE DEF supplies_, known_, told_, p0
    <3> QED
      BY <1>1, <2>2, <3>1, <3>2, <3>3
  <2> QED
    BY <1>8, <2>3, <2>4, <2>5, <2>6
<1>9. A!Observe(o, c) = next
  <2>1. CASE c.entry = "teardown"
    <3>1. SupplySaid(o.supplies[p0], c, isKnown) = None
      BY <2>1 DEF SupplySaid
    <3>2. /\ told_ = o.told /\ gone_ = o.gone \cup {p0} /\ known_ = o.known \ {p0}
          /\ supplies_ = [o.supplies EXCEPT ![p0] = None]
          /\ amounts_ = torn(o.amounts) /\ rewards_ = torn(o.rewards)
          /\ held_ = {l \in o.held : l[1] # p0}
      BY <2>1, <3>1
    <3>3. A!Observe(o, c) =
             [o EXCEPT !.gone = @ \cup {p0}, !.known = @ \ {p0}, !.supplies[p0] = None,
                       !.amounts = torn(@), !.rewards = torn(@),
                       !.held = {l \in @ : l[1] # p0}]
      BY <2>1 DEF A!Observe
    <3> HIDE DEF told_, gone_, known_, supplies_, amounts_, rewards_, held_, torn, p0
    <3> QED
      BY <1>1, <3>2, <3>3
  <2>2. CASE c.entry = "position"
    <3>1. says /\ k1 = <<c.pool, c.owner, c.leg>>
      BY <2>2 DEF SaysAmount, TellsAmount, AmountKey
    <3>2. A!Observe(o, c) =
             [o EXCEPT !.amounts[k1] = IF c.value # None THEN c.value
                                       ELSE IF @ = None /\ c.pool \in o.gone THEN None ELSE 0,
                       !.held = IF c.value \in {None, 0} THEN @ ELSE @ \cup {k1}]
      <4> HIDE DEF says
      <4> QED
        BY <2>2, <3>1 DEF A!Observe
    <3> QED
      BY <1>7, <2>2, <3>1, <3>2
  <2>3. CASE c.entry = "user" \/ (c.entry = "shares" /\ c.pool \in o.told)
    <3>1. says /\ k1 = <<c.pool, c.owner, "classic">>
      BY <2>3 DEF SaysAmount, TellsAmount, AmountKey, Classic
    <3>2. A!Observe(o, c) =
             [o EXCEPT !.amounts[k1] = IF c.value # None THEN c.value
                                       ELSE IF @ = None /\ c.pool \in o.gone THEN None ELSE 0,
                       !.held = IF c.value \in {None, 0} THEN @ ELSE @ \cup {k1}]
      <4> HIDE DEF says
      <4> QED
        BY <2>3, <3>1 DEF A!Observe
    <3> QED
      BY <1>7, <2>3, <3>1, <3>2
  <2>4. CASE c.entry = "reward"
    <3>1. ~says /\ c.entry \in UserEntries
      BY <1>3, <2>4 DEF UserEntries
    <3>2. A!Observe(o, c) =
             [o EXCEPT !.rewards[k0] = IF c.value # None THEN c.value
                                       ELSE IF @ = None /\ c.pool \in o.gone THEN None ELSE 0]
      BY <2>4 DEF A!Observe, Classic
    <3>3. /\ rewards_ = [o.rewards EXCEPT ![k0] = IF c.value # None THEN c.value
                          ELSE IF @ = None /\ c.pool \in o.gone THEN None ELSE 0]
          /\ amounts_ = o.amounts /\ held_ = o.held
      <4> HIDE DEF says, k1, k0
      <4> QED
        BY <1>5, <2>4, <3>1
    <3>4. supplies_ = o.supplies /\ known_ = o.known /\ told_ = o.told /\ gone_ = o.gone
      BY <1>6, <3>1
    <3> HIDE DEF told_, gone_, known_, supplies_, amounts_, rewards_, held_, k0
    <3> QED
      BY <1>1, <3>2, <3>3, <3>4
  <2>5. CASE c.entry = "weight" \/ (c.entry = "shares" /\ c.pool \notin o.told)
    <3>1. ~says /\ c.entry \in UserEntries
      BY <2>5 DEF SaysAmount, TellsAmount, UserEntries
    <3>2. A!Observe(o, c) = o
      BY <2>5 DEF A!Observe
    <3>3. amounts_ = o.amounts /\ held_ = o.held /\ rewards_ = o.rewards
      <4> HIDE DEF says, k1, k0
      <4> QED
        BY <2>5, <3>1
    <3>4. supplies_ = o.supplies /\ known_ = o.known /\ told_ = o.told /\ gone_ = o.gone
      BY <1>6, <3>1
    <3> HIDE DEF told_, gone_, known_, supplies_, amounts_, rewards_, held_
    <3> QED
      BY <1>1, <3>2, <3>3, <3>4
  <2>6. c.entry \in Entries
    BY PoolChanges
  <2> HIDE DEF next
  <2> QED
    BY <1>8, <2>1, <2>2, <2>3, <2>4, <2>5, <2>6 DEF Entries
<1>10. /\ amounts_ \in [A!Keys -> Nat \cup {None}] /\ rewards_ \in [A!Keys -> Nat \cup {None}]
       /\ held_ \in SUBSET A!Keys
  <2>1. \A was, v \in Nat \cup {None} : ToldOf(was, v, isGone) \in Nat \cup {None}
    BY <1>5
  <2>2. c.entry = "reward" => c.entry \in UserEntries
    BY DEF UserEntries
  <2>3. says => c.entry \in UserEntries
    BY <1>3 DEF UserEntries
  <2> HIDE DEF k0, k1, says, isGone
  <2> QED
    BY <1>1, <1>2, <2>1, <2>2, <2>3
<1>11. /\ supplies_ \in [Pools -> Supplies \cup {None}]
       /\ \A p \in Pools : supplies_[p] = IF p = p0 THEN SupplySaid(o.supplies[p], c, p \in o.known)
                                          ELSE o.supplies[p]
  <2>1. Introduces(c, isKnown) /\ c.entry # "reserves" => c.supply \in Supplies \cup {None}
    BY PoolChanges DEF Introduces
  <2>2. SupplySaid(o.supplies[p0], c, isKnown) \in Supplies \cup {None}
    BY <1>1, <1>4, <2>1 DEF SupplySaid
  <2> HIDE DEF p0
  <2> QED
    BY <1>1, <1>4, <2>2
<1>12. told_ \in SUBSET Pools /\ gone_ \in SUBSET Pools /\ known_ \in SUBSET Pools
  BY <1>1, <1>4
<1>13. next \in PoolSaid
  <2> HIDE DEF amounts_, rewards_, held_, supplies_, told_, gone_, known_
  <2> QED
    BY <1>10, <1>11, <1>12 DEF PoolSaid
<1>14. \A k \in A!Keys :
         /\ amounts_[k] = IF c.entry = "teardown"
                          THEN (IF k[1] = c.pool THEN None ELSE o.amounts[k])
                          ELSE IF says /\ k = k1 THEN ToldOf(o.amounts[k], c.value, isGone)
                          ELSE o.amounts[k]
         /\ rewards_[k] = IF c.entry = "teardown"
                          THEN (IF k[1] = c.pool THEN None ELSE o.rewards[k])
                          ELSE IF c.entry = "reward" /\ k = k0
                          THEN ToldOf(o.rewards[k], c.value, isGone) ELSE o.rewards[k]
  <2>1. c.entry = "reward" => c.entry \in UserEntries
    BY DEF UserEntries
  <2>2. says => c.entry \in UserEntries
    BY <1>3 DEF UserEntries
  <2> HIDE DEF k0, k1, says, isGone
  <2> QED
    BY <1>1, <1>2, <2>1, <2>2
<1> HIDE DEF supplies_, amounts_, rewards_
<1> QED
  BY <1>9, <1>11, <1>13, <1>14

LEMMA PoolRuns ==
    ASSUME NEW start \in PoolState, NEW n \in Nat, NEW ledger \in [1..n -> A!Changes]
    PROVE  \E run \in [0..n -> PoolState] :
              /\ run[0] = start
              /\ \A i \in 1..n : run[i] = A!Decode(run[i - 1], ledger[i])
              /\ A!FoldLeft(A!Decode, start, ledger) = run[n]
<1> DEFINE all == 1..n
           step == [w \in all \X PoolState |-> A!Decode(w[2], ledger[w[1]])]
           Is(iter) == iter = [s \in SUBSET all |->
                IF s = {} THEN start
                ELSE A!Decode(iter[s \ {A!Max(s)}], ledger[A!Max(s)])]
           fold == CHOOSE iter : Is(iter)
<1>1. step \in [all \X PoolState -> PoolState]
  <2>1. ASSUME NEW s \in PoolState, NEW c \in A!Changes
        PROVE  A!Decode(s, c) \in PoolState
    BY PoolDecodes
  <2>2. \A w \in all \X PoolState : w[2] \in PoolState /\ ledger[w[1]] \in A!Changes
    OBVIOUS
  <2> QED
    BY <2>1, <2>2
<1>2. /\ \A s \in SUBSET all : s # {} => Latest[s] \in s
      /\ \A s \in SUBSET all : A!Max(s) = Latest[s]
  BY LatestOf DEF Latest, A!Max
<1>3. PICK iter : FoldOf(PoolState, start, n, step, iter)
  <2> HIDE DEF step
  <2> QED
    BY <1>1, FoldExists
<1>4. \A s \in SUBSET all : s # {} =>
         step[<<Latest[s], iter[s \ {Latest[s]}]>>]
            = A!Decode(iter[s \ {A!Max(s)}], ledger[A!Max(s)])
  BY <1>2, <1>3 DEF FoldOf
<1>5. Is(iter)
  <2> HIDE DEF step
  <2> QED
    BY <1>3, <1>4 DEF FoldOf
<1>6. Is(fold)
  <2> HIDE DEF Is
  <2> QED
    BY <1>5
<1>7. A!FoldLeft(A!Decode, start, ledger) = fold[all]
  <2>1. DOMAIN ledger = all
    OBVIOUS
  <2> QED
    BY <2>1 DEF A!FoldLeft, A!MapThenFoldSet
<1> HIDE DEF fold
<1>8. /\ fold[{}] = start
      /\ \A i \in all : fold[1..i] = A!Decode(fold[1..(i - 1)], ledger[i])
  <2>1. \A s \in SUBSET all : fold[s] =
           IF s = {} THEN start
           ELSE A!Decode(fold[s \ {Latest[s]}], ledger[Latest[s]])
    BY <1>2, <1>6
  <2>2. ASSUME NEW i \in all
        PROVE  fold[1..i] = A!Decode(fold[1..(i - 1)], ledger[i])
    <3>1. /\ 1..i \in SUBSET all /\ 1..i # {} /\ Latest[1..i] = i
          /\ (1..i) \ {i} = 1..(i - 1)
      BY LatestOf
    <3> HIDE DEF all
    <3> QED
      BY <2>1, <3>1
  <2> HIDE DEF all
  <2> QED
    BY <2>1, <2>2
<1>9. FollowsSteps(PoolState, start, n, step, fold)
  BY <1>8 DEF FollowsSteps
<1>10. PICK run : RunOf(PoolState, start, n, step, run) /\ run[n] = fold[all]
  <2> HIDE DEF step
  <2> QED
    BY <1>1, <1>9, FoldRuns
<1>11. \A i \in all : run[i] = A!Decode(run[i - 1], ledger[i])
  <2>1. \A i \in all : i - 1 \in 0..n
    OBVIOUS
  <2>2. \A i \in all : run[i - 1] \in PoolState
    BY <1>10, <2>1 DEF RunOf
  <2> QED
    BY <1>10, <2>2 DEF RunOf
<1> QED
  BY <1>7, <1>10, <1>11 DEF RunOf

LEMMA PoolChainRuns ==
    ASSUME NEW start \in PoolSaid, NEW n \in Nat, NEW ledger \in [1..n -> A!Changes]
    PROVE  \E run \in [0..n -> PoolSaid] :
              /\ run[0] = start
              /\ \A i \in 1..n : run[i] = A!Observe(run[i - 1], ledger[i])
              /\ A!FoldLeft(A!Observe, start, ledger) = run[n]
<1> DEFINE all == 1..n
           step == [w \in all \X PoolSaid |-> A!Observe(w[2], ledger[w[1]])]
           Is(iter) == iter = [s \in SUBSET all |->
                IF s = {} THEN start
                ELSE A!Observe(iter[s \ {A!Max(s)}], ledger[A!Max(s)])]
           fold == CHOOSE iter : Is(iter)
<1>1. step \in [all \X PoolSaid -> PoolSaid]
  BY PoolObserves
<1>2. /\ \A s \in SUBSET all : s # {} => Latest[s] \in s
      /\ \A s \in SUBSET all : A!Max(s) = Latest[s]
  BY LatestOf DEF Latest, A!Max
<1>3. PICK iter : FoldOf(PoolSaid, start, n, step, iter)
  <2> HIDE DEF step
  <2> QED
    BY <1>1, FoldExists
<1>4. \A s \in SUBSET all : s # {} =>
         step[<<Latest[s], iter[s \ {Latest[s]}]>>]
            = A!Observe(iter[s \ {A!Max(s)}], ledger[A!Max(s)])
  BY <1>2, <1>3 DEF FoldOf
<1>5. Is(iter)
  <2> HIDE DEF step
  <2> QED
    BY <1>3, <1>4 DEF FoldOf
<1>6. Is(fold)
  <2> HIDE DEF Is
  <2> QED
    BY <1>5
<1>7. A!FoldLeft(A!Observe, start, ledger) = fold[all]
  <2>1. DOMAIN ledger = all
    OBVIOUS
  <2> QED
    BY <2>1 DEF A!FoldLeft, A!MapThenFoldSet
<1> HIDE DEF fold
<1>8. /\ fold[{}] = start
      /\ \A i \in all : fold[1..i] = A!Observe(fold[1..(i - 1)], ledger[i])
  <2>1. \A s \in SUBSET all : fold[s] =
           IF s = {} THEN start
           ELSE A!Observe(fold[s \ {Latest[s]}], ledger[Latest[s]])
    BY <1>2, <1>6
  <2>2. ASSUME NEW i \in all
        PROVE  fold[1..i] = A!Observe(fold[1..(i - 1)], ledger[i])
    <3>1. /\ 1..i \in SUBSET all /\ 1..i # {} /\ Latest[1..i] = i
          /\ (1..i) \ {i} = 1..(i - 1)
      BY LatestOf
    <3> HIDE DEF all
    <3> QED
      BY <2>1, <3>1
  <2> HIDE DEF all
  <2> QED
    BY <2>1, <2>2
<1>9. FollowsSteps(PoolSaid, start, n, step, fold)
  BY <1>8 DEF FollowsSteps
<1>10. PICK run : RunOf(PoolSaid, start, n, step, run) /\ run[n] = fold[all]
  <2> HIDE DEF step
  <2> QED
    BY <1>1, <1>9, FoldRuns
<1>11. \A i \in all : run[i] = A!Observe(run[i - 1], ledger[i])
  <2>1. \A i \in all : i - 1 \in 0..n
    OBVIOUS
  <2>2. \A i \in all : run[i - 1] \in PoolSaid
    BY <1>10, <2>1 DEF RunOf
  <2> QED
    BY <1>10, <2>2 DEF RunOf
<1> QED
  BY <1>7, <1>10, <1>11 DEF RunOf

AmountIn(pos) == IF pos = None THEN None ELSE pos.amount
RewardIn(pos) == IF pos = None THEN None ELSE pos.reward

\* A position is what its entries last said, and what they never said is its
\* seed's; one they said to hold something knows that it was held.
PoolAgrees(pos, amount, reward, isHeld, isSeeded, isGone) ==
    /\ A!Follows(AmountIn(pos), amount, isSeeded, SeedAmount, isGone)
    /\ A!Follows(RewardIn(pos), reward, isSeeded, SeedReward, isGone)
    /\ isSeeded /\ AmountIn(pos) = None => amount = None
    /\ isSeeded /\ RewardIn(pos) = None => reward = None
    /\ isHeld => pos # None /\ pos.amount # None /\ pos.had

\* In a ledger, of a position the seed filled at its start.
Filled(pos, isSeeded, isGone) == isSeeded /\ ~isGone => pos # None

PositionKept(s, o, k, isSeeded) ==
    /\ PoolAgrees(s.positions[k], o.amounts[k], o.rewards[k], k \in o.held, isSeeded,
                  k[1] \in o.gone)
    /\ Filled(s.positions[k], isSeeded, k[1] \in o.gone)

LEMMA PoolStep ==
    ASSUME ~UserRemovals,
           NEW s \in PoolState, NEW o \in PoolSaid, s.mapped = o.told,
           NEW c \in A!Changes, NEW k \in A!Keys, NEW isSeeded \in BOOLEAN,
           PositionKept(s, o, k, isSeeded)
    PROVE  PositionKept(A!Decode(s, c), A!Observe(o, c), k, isSeeded)
<1> DEFINE t == A!Decode(s, c)
           u == A!Observe(o, c)
           was == s.positions[k]
           pos == t.positions[k]
           amount == u.amounts[k]
           reward == u.rewards[k]
           wasHeld == k \in o.held
           isHeld == k \in u.held
           wasGone == k[1] \in o.gone
           isGone == k[1] \in u.gone
           Kept == PoolAgrees(pos, amount, reward, isHeld, isSeeded, isGone)
                   /\ Filled(pos, isSeeded, isGone)
<1>1. /\ was \in PosType(k)
      /\ o.amounts[k] \in Nat \cup {None} /\ o.rewards[k] \in Nat \cup {None}
  BY DEF PoolState, PoolPositions, PosType, PoolSaid
<1>2. Torn(c) <=> c.entry = "teardown"
  BY PoolChanges DEF Torn
<1>3. pos = PositionLeft(s.mapped, was, c, k)
  <2>1. \A j \in A!Keys : A!Decode(s, c).positions[j] =
           PositionLeft(s.mapped, s.positions[j], c, j)
    <3> HIDE DEF was, pos, amount, reward, t, u, Kept
    <3> QED
      BY PoolDecodes
  <2> QED
    BY <2>1
<1>4. SaysAmount(o.told, c) <=> TellsAmount(s.mapped, c)
  BY PoolChanges DEF SaysAmount, TellsAmount
<1>5. /\ amount = IF Torn(c) THEN (IF k[1] = c.pool THEN None ELSE o.amounts[k])
                  ELSE IF TellsAmount(s.mapped, c) /\ k = AmountKey(c)
                  THEN ToldOf(o.amounts[k], c.value, c.pool \in o.gone) ELSE o.amounts[k]
      /\ reward = IF Torn(c) THEN (IF k[1] = c.pool THEN None ELSE o.rewards[k])
                  ELSE IF TellsReward(c) /\ k = Classic(c)
                  THEN ToldOf(o.rewards[k], c.value, c.pool \in o.gone) ELSE o.rewards[k]
      /\ u.held = IF Torn(c) THEN {l \in o.held : l[1] # c.pool}
                  ELSE IF TellsAmount(s.mapped, c) /\ c.value \notin {None, 0}
                  THEN o.held \cup {AmountKey(c)} ELSE o.held
      /\ u.gone = o.gone \cup (IF Torn(c) THEN {c.pool} ELSE {})
  <2>1. /\ \A l \in A!Keys : u.amounts[l] =
              IF c.entry = "teardown" THEN (IF l[1] = c.pool THEN None ELSE o.amounts[l])
              ELSE IF SaysAmount(o.told, c) /\ l = AmountKey(c)
              THEN ToldOf(o.amounts[l], c.value, c.pool \in o.gone) ELSE o.amounts[l]
        /\ \A l \in A!Keys : u.rewards[l] =
              IF c.entry = "teardown" THEN (IF l[1] = c.pool THEN None ELSE o.rewards[l])
              ELSE IF c.entry = "reward" /\ l = Classic(c)
              THEN ToldOf(o.rewards[l], c.value, c.pool \in o.gone) ELSE o.rewards[l]
        /\ u.held = IF c.entry = "teardown" THEN {l \in o.held : l[1] # c.pool}
                    ELSE IF SaysAmount(o.told, c) /\ c.value \notin {None, 0}
                    THEN o.held \cup {AmountKey(c)} ELSE o.held
        /\ u.gone = o.gone \cup (IF c.entry = "teardown" THEN {c.pool} ELSE {})
    <3> HIDE DEF amount, reward, pos, was, t, Kept
    <3> QED
      BY PoolObserves
  <2> HIDE DEF u
  <2> QED
    BY <1>2, <1>4, <2>1 DEF TellsReward
<1>6. None \notin Nat /\ 0 \in Nat
  BY PoolNames
<1>7. PoolAgrees(was, o.amounts[k], o.rewards[k], wasHeld, isSeeded, wasGone)
      /\ Filled(was, isSeeded, wasGone)
  BY DEF PositionKept
<1> HIDE DEF t, u
<1>8. ASSUME AmountIn(pos) = AmountIn(was), RewardIn(pos) = RewardIn(was),
             amount = o.amounts[k], reward = o.rewards[k],
             isHeld => wasHeld, isGone = wasGone, was # None => pos # None /\ pos.had = was.had
      PROVE  Kept
  <2> HIDE DEF pos, amount, reward, was, isHeld, isGone, wasHeld, wasGone
  <2> QED
    BY <1>7, <1>8 DEF PoolAgrees, Filled, AmountIn
<1> HIDE DEF pos, amount, reward, was, wasHeld, isHeld, wasGone, isGone
<1>14. \A v \in Nat \cup {None} :
          /\ v = None /\ was = None => AmountLeft(was, v, FeesTold(c, was)) = None
          /\ v = None /\ was # None => /\ AmountLeft(was, v, FeesTold(c, was)) # None
                                       /\ AmountLeft(was, v, FeesTold(c, was)).amount = 0
                                       /\ AmountLeft(was, v, FeesTold(c, was)).reward = was.reward
                                       /\ AmountLeft(was, v, FeesTold(c, was)).had = was.had
          /\ v # None => /\ AmountLeft(was, v, FeesTold(c, was)) # None
                         /\ AmountLeft(was, v, FeesTold(c, was)).amount = v
                         /\ AmountLeft(was, v, FeesTold(c, was)).reward = Known(was).reward
                         /\ AmountLeft(was, v, FeesTold(c, was)).had
                               <=> Known(was).had \/ v # 0
  <2>1. was \in PosType(k) /\ FeesTold(c, was) \in BOOLEAN
    BY <1>1, FeesToldIs
  <2> HIDE DEF Kept
  <2> QED
    BY <2>1, AmountLeftIs
<1>15. k[3] = "classic" => \A v \in Nat \cup {None} :
          /\ v = None /\ was = None => RewardLeft(was, v) = None
          /\ v = None /\ was # None => /\ RewardLeft(was, v) # None
                                       /\ RewardLeft(was, v).reward = 0
                                       /\ RewardLeft(was, v).amount = was.amount
                                       /\ RewardLeft(was, v).had = was.had
          /\ v # None => /\ RewardLeft(was, v) # None
                         /\ RewardLeft(was, v).reward = v
                         /\ RewardLeft(was, v).amount = Known(was).amount
                         /\ RewardLeft(was, v).had = Known(was).had
  <2>1. was \in PosType(k)
    BY <1>1
  <2> HIDE DEF Kept
  <2> QED
    BY <2>1, RewardLeftIs
<1>9. ASSUME Torn(c), k[1] = c.pool
      PROVE  Kept
  <2>1. pos = None /\ amount = None /\ reward = None /\ ~isHeld /\ isGone
    BY <1>3, <1>5, <1>9 DEF PositionLeft, amount, reward, isHeld, isGone
  <2> QED
    BY <2>1 DEF PoolAgrees, Filled, AmountIn, RewardIn, A!Follows
<1>10. ASSUME ~Torn(c), TellsAmount(s.mapped, c), k = AmountKey(c)
       PROVE  Kept
  <2>1. /\ pos = AmountLeft(was, c.value, FeesTold(c, was)) /\ ~TellsReward(c)
        /\ FeesTold(c, was) \in BOOLEAN
    BY <1>1, <1>3, <1>10, FeesToldIs DEF PositionLeft, TellsAmount, TellsReward
  <2>2. reward = o.rewards[k] /\ isGone = wasGone /\ k[1] = c.pool
    BY <1>5, <1>10, <2>1 DEF AmountKey, Classic, reward, isGone, wasGone
  <2>7. c.value \in Nat \cup {None}
    BY <1>10, PoolChanges DEF TellsAmount, UserEntries
  <2>3. amount = ToldOf(o.amounts[k], c.value, wasGone)
    BY <1>5, <1>10, <2>2 DEF amount, wasGone
  <2>4. isHeld <=> wasHeld \/ c.value \notin {None, 0}
    BY <1>5, <1>10 DEF isHeld, wasHeld
  <2>5. CASE c.value = None
    <3>1. amount = IF o.amounts[k] = None /\ wasGone THEN None ELSE 0
      BY <2>3, <2>5 DEF ToldOf
    <3>2. CASE was = None
      <4>1. pos = None
        BY <1>14, <2>1, <2>5, <2>7, <3>2
      <4>2. isSeeded => wasGone /\ o.amounts[k] = None
        BY <1>7, <3>2 DEF Filled, PoolAgrees, AmountIn
      <4>3. ~isHeld
        BY <1>7, <2>4, <2>5, <3>2 DEF PoolAgrees
      <4>4. AmountIn(pos) = None /\ RewardIn(pos) = None /\ RewardIn(was) = None
        BY <3>2, <4>1 DEF AmountIn, RewardIn
      <4> QED
        BY <1>6, <1>7, <2>2, <3>1, <3>2, <4>1, <4>2, <4>3, <4>4
        DEF PoolAgrees, Filled, A!Follows
    <3>3. CASE was # None
      <4>1. pos # None /\ pos.amount = 0 /\ pos.reward = was.reward /\ pos.had = was.had
        BY <1>14, <2>1, <2>5, <2>7, <3>3
      <4>2. AmountIn(pos) = 0 /\ RewardIn(pos) = RewardIn(was)
        BY <3>3, <4>1 DEF AmountIn, RewardIn
      <4>3. isHeld => pos.had
        BY <1>7, <2>4, <2>5, <4>1 DEF PoolAgrees
      <4>4. A!Follows(AmountIn(pos), amount, isSeeded, SeedAmount, isGone)
        BY <1>6, <2>2, <3>1, <4>2 DEF A!Follows
      <4> QED
        BY <1>6, <1>7, <2>2, <4>1, <4>2, <4>3, <4>4 DEF PoolAgrees, Filled
    <3> QED
      BY <3>2, <3>3
  <2>6. CASE c.value # None
    <3>1. amount = c.value /\ c.value \in Nat
      BY <2>3, <2>6, <2>7 DEF ToldOf
    <3>2. /\ pos # None /\ pos.amount = c.value /\ pos.reward = Known(was).reward
          /\ (pos.had <=> Known(was).had \/ c.value # 0)
      BY <1>14, <2>1, <2>6, <2>7
    <3>3. Known(was).reward = RewardIn(was) /\ (was # None => Known(was).had = was.had)
      BY <1>1, KnownIs DEF RewardIn
    <3>4. AmountIn(pos) = c.value /\ RewardIn(pos) = RewardIn(was)
      BY <3>2, <3>3 DEF AmountIn, RewardIn
    <3>5. isHeld => pos.had
      BY <1>7, <2>4, <3>2, <3>3 DEF PoolAgrees
    <3>6. A!Follows(AmountIn(pos), amount, isSeeded, SeedAmount, isGone)
      BY <2>6, <3>1, <3>4 DEF A!Follows
    <3> QED
      BY <1>6, <1>7, <2>2, <2>6, <3>1, <3>2, <3>4, <3>5, <3>6 DEF PoolAgrees, Filled
  <2> QED
    BY <2>5, <2>6
<1>11. ASSUME ~Torn(c), TellsReward(c), k = Classic(c)
       PROVE  Kept
  <2>1. pos = RewardLeft(was, c.value) /\ ~TellsAmount(s.mapped, c)
    BY <1>3, <1>11 DEF PositionLeft, TellsAmount, TellsReward
  <2>2. /\ amount = o.amounts[k] /\ k[3] = "classic"
        /\ k[1] = c.pool /\ isGone = wasGone /\ isHeld = wasHeld
    BY <1>5, <1>11, <2>1 DEF Classic, amount, isGone, wasGone, isHeld, wasHeld
  <2>7. c.value \in Nat \cup {None}
    BY <1>11, PoolChanges DEF TellsReward, UserEntries
  <2>3. reward = ToldOf(o.rewards[k], c.value, wasGone)
    BY <1>5, <1>11, <2>2 DEF reward, wasGone
  <2>5. CASE c.value = None
    <3>1. reward = IF o.rewards[k] = None /\ wasGone THEN None ELSE 0
      BY <2>3, <2>5 DEF ToldOf
    <3>2. CASE was = None
      <4>1. pos = None
        BY <1>15, <2>1, <2>2, <2>5, <2>7, <3>2
      <4>2. isSeeded => wasGone /\ o.rewards[k] = None
        BY <1>7, <3>2 DEF Filled, PoolAgrees, RewardIn
      <4>3. ~isHeld
        BY <1>7, <2>2, <3>2 DEF PoolAgrees
      <4>4. AmountIn(pos) = None /\ RewardIn(pos) = None /\ AmountIn(was) = None
        BY <3>2, <4>1 DEF AmountIn, RewardIn
      <4> QED
        BY <1>6, <1>7, <2>2, <3>1, <3>2, <4>1, <4>2, <4>3, <4>4
        DEF PoolAgrees, Filled, A!Follows
    <3>3. CASE was # None
      <4>1. pos # None /\ pos.reward = 0 /\ pos.amount = was.amount /\ pos.had = was.had
        BY <1>15, <2>1, <2>2, <2>5, <2>7, <3>3
      <4>2. RewardIn(pos) = 0 /\ AmountIn(pos) = AmountIn(was)
        BY <3>3, <4>1 DEF AmountIn, RewardIn
      <4>3. isHeld => pos.had /\ pos.amount # None
        BY <1>7, <2>2, <4>1 DEF PoolAgrees
      <4>4. A!Follows(RewardIn(pos), reward, isSeeded, SeedReward, isGone)
        BY <1>6, <2>2, <3>1, <4>2 DEF A!Follows
      <4> QED
        BY <1>6, <1>7, <2>2, <4>1, <4>2, <4>3, <4>4 DEF PoolAgrees, Filled
    <3> QED
      BY <3>2, <3>3
  <2>6. CASE c.value # None
    <3>1. reward = c.value /\ c.value \in Nat
      BY <2>3, <2>6, <2>7 DEF ToldOf
    <3>2. /\ pos # None /\ pos.reward = c.value /\ pos.amount = Known(was).amount
          /\ pos.had = Known(was).had
      BY <1>15, <2>1, <2>2, <2>6, <2>7
    <3>3. Known(was).amount = AmountIn(was) /\ (was # None => Known(was).had = was.had)
      BY <1>1, KnownIs DEF AmountIn
    <3>4. RewardIn(pos) = c.value /\ AmountIn(pos) = AmountIn(was)
      BY <3>2, <3>3 DEF AmountIn, RewardIn
    <3>5. isHeld => pos.had /\ pos.amount # None
      BY <1>7, <2>2, <3>2, <3>3 DEF PoolAgrees, AmountIn
    <3>6. A!Follows(RewardIn(pos), reward, isSeeded, SeedReward, isGone)
      BY <2>6, <3>1, <3>4 DEF A!Follows
    <3> QED
      BY <1>6, <1>7, <2>2, <2>6, <3>1, <3>2, <3>4, <3>5, <3>6 DEF PoolAgrees, Filled
  <2> QED
    BY <2>5, <2>6
<1>12. ASSUME ~(Torn(c) /\ k[1] = c.pool),
              ~(~Torn(c) /\ TellsAmount(s.mapped, c) /\ k = AmountKey(c)),
              ~(~Torn(c) /\ TellsReward(c) /\ k = Classic(c))
       PROVE  Kept
  <2>1. amount = o.amounts[k] /\ reward = o.rewards[k] /\ (isHeld => wasHeld) /\ isGone = wasGone
    BY <1>5, <1>12 DEF amount, reward, isHeld, wasHeld, isGone, wasGone
  <2>2. CASE ~Torn(c) /\ TellsWeight(c) /\ k = Classic(c)
    <3>1. pos = Known(was)
      BY <1>3, <1>12, <2>2 DEF PositionLeft
    <3>2. /\ pos # None /\ pos.amount = AmountIn(was) /\ pos.reward = RewardIn(was)
          /\ (was # None => pos.had = was.had)
      BY <1>1, <3>1, KnownIs DEF AmountIn, RewardIn
    <3>3. AmountIn(pos) = AmountIn(was) /\ RewardIn(pos) = RewardIn(was)
      BY <3>2 DEF AmountIn, RewardIn
    <3> QED
      BY <1>8, <2>1, <3>2, <3>3
  <2>3. CASE ~(~Torn(c) /\ TellsWeight(c) /\ k = Classic(c))
    <3>1. pos = was
      BY <1>3, <1>12, <2>3 DEF PositionLeft
    <3> QED
      BY <1>8, <2>1, <3>1
  <2> QED
    BY <2>2, <2>3
<1>13. Kept
  <2> HIDE DEF Kept
  <2> QED
    BY <1>9, <1>10, <1>11, <1>12
<1> QED
  BY <1>13 DEF PositionKept, pos, amount, reward, isHeld, isGone, t, u

PoolTyped ==
    /\ seeded \in SUBSET Pools
    /\ mapped \in SUBSET Pools
    /\ pools \in [Pools -> A!Pool \cup {None}]
    /\ positions \in PoolPositions
    /\ poolChain \in PoolSaid

\* The supply of a pool is what its entries last said, or its seed's.
SupplyAgrees(pool, said, isSeeded) ==
    /\ pool = None => said = None
    /\ pool # None /\ said # None => pool.supply = said
    /\ pool # None /\ said = None =>
          pool.supply = None \/ (isSeeded /\ pool.supply = SeedAmount)

\* Of the tokens and pools: they are those told.
PoolsAgree(s, o) ==
    /\ s.mapped = o.told
    /\ \A p \in Pools : /\ s.pools[p] # None <=> p \in o.known
                        /\ SupplyAgrees(s.pools[p], o.supplies[p], p \in seeded)

PoolNow == [mapped |-> mapped, pools |-> pools, positions |-> positions]

\* What a process holds that is told its tokens again, while no removal of a
\* user's entry takes the pool with it.
PoolFollows ==
    HostRetells /\ ~UserRemovals =>
        /\ PoolsAgree(PoolNow, poolChain)
        /\ \A k \in A!Keys :
              PoolAgrees(positions[k], poolChain.amounts[k], poolChain.rewards[k],
                         k \in poolChain.held, A!Seeds(k), k[1] \in poolChain.gone)

LEMMA PoolInit == A!Init => PoolTyped /\ PoolFollows
<1> SUFFICES ASSUME A!Init
             PROVE  PoolTyped /\ PoolFollows
  OBVIOUS
<1>1. PoolTyped
  BY DEF A!Init, A!NothingSaid, A!Nobody, PoolTyped, PoolPositions, PoolSaid
<1>2. \A k \in A!Keys : /\ positions[k] = None /\ poolChain.amounts[k] = None
                        /\ poolChain.rewards[k] = None /\ k \notin poolChain.held
  BY DEF A!Init, A!NothingSaid, A!Nobody
<1>3. /\ mapped = {} /\ poolChain.told = {} /\ poolChain.known = {}
      /\ \A p \in Pools : pools[p] = None /\ poolChain.supplies[p] = None
  BY DEF A!Init, A!NothingSaid
<1>4. PoolsAgree(PoolNow, poolChain)
  BY <1>3 DEF PoolsAgree, PoolNow, SupplyAgrees
<1>5. ASSUME NEW k \in A!Keys
      PROVE  PoolAgrees(positions[k], poolChain.amounts[k], poolChain.rewards[k],
                        k \in poolChain.held, A!Seeds(k), k[1] \in poolChain.gone)
  BY <1>2 DEF PoolAgrees, AmountIn, RewardIn, A!Follows
<1> QED
  BY <1>1, <1>4, <1>5 DEF PoolFollows

\* Where the decode of a ledger starts: the seeds under what is there.
PoolStart == A!ApplyPoolSeeds(PoolNow)

LEMMA PoolSeeds ==
    ASSUME PoolTyped
    PROVE  /\ PoolStart \in PoolState
           /\ PoolStart.mapped = mapped
           /\ \A p \in Pools : p \notin seeded => PoolStart.pools[p] = pools[p]
           /\ \A p \in Pools : p \in seeded =>
                 /\ PoolStart.pools[p] # None
                 /\ PoolStart.pools[p].supply =
                       IF pools[p] = None THEN SeedAmount
                       ELSE IF pools[p].supply = None THEN SeedAmount ELSE pools[p].supply
           /\ \A k \in A!Keys : ~A!Seeds(k) => PoolStart.positions[k] = positions[k]
           /\ \A k \in A!Keys : A!Seeds(k) =>
                 /\ PoolStart.positions[k] # None
                 /\ PoolStart.positions[k].amount =
                       IF AmountIn(positions[k]) = None THEN SeedAmount
                       ELSE AmountIn(positions[k])
                 /\ PoolStart.positions[k].reward =
                       IF RewardIn(positions[k]) = None THEN SeedReward
                       ELSE RewardIn(positions[k])
                 /\ PoolStart.positions[k].had = Known(positions[k]).had
<1> DEFINE Floor(v, seed) == IF v = None THEN seed ELSE v
           FilledUp(k) == [Known(positions[k]) EXCEPT !.amount = Floor(@, SeedAmount),
                                                      !.reward = Floor(@, SeedReward)]
           Supply(p) == [supply |-> IF pools[p] = None THEN SeedAmount
                                    ELSE Floor(pools[p].supply, SeedAmount)]
           poolsLeft == [p \in Pools |-> IF p \notin seeded THEN pools[p] ELSE Supply(p)]
           left == [k \in A!Keys |-> IF A!Seeds(k) THEN FilledUp(k) ELSE positions[k]]
<1>1. \A k \in A!Keys : positions[k] \in PosType(k)
  BY DEF PoolTyped, PoolPositions, PosType
<1>2. PoolStart = [mapped |-> mapped, pools |-> poolsLeft, positions |-> left]
  <2> DEFINE s == PoolNow
             filled == [k \in A!Keys |->
                           IF A!Seeds(k)
                           THEN [A!Current(s, k) EXCEPT !.amount = Floor(@, SeedAmount),
                                                        !.reward = Floor(@, SeedReward)]
                           ELSE s.positions[k]]
             supplied == [p \in Pools |->
                             IF p \notin seeded THEN s.pools[p]
                             ELSE [supply |-> IF s.pools[p] = None THEN SeedAmount
                                              ELSE Floor(s.pools[p].supply, SeedAmount)]]
  <2>1. /\ s.mapped = mapped /\ s.pools = pools /\ s.positions = positions
        /\ s = [mapped |-> mapped, pools |-> pools, positions |-> positions]
    BY DEF PoolNow
  <2>2. \A k \in A!Keys : A!Current(s, k) = Known(positions[k])
    BY <2>1 DEF A!Current, Known
  <2>3. filled = left
    BY <2>1, <2>2
  <2>4. supplied = poolsLeft
    BY <2>1
  <2>5. PoolStart = [s EXCEPT !.pools = supplied, !.positions = filled]
    BY DEF PoolStart, A!ApplyPoolSeeds
  <2> HIDE DEF left, filled, poolsLeft, supplied, s
  <2> QED
    BY <2>1, <2>3, <2>4, <2>5
<1>3. ASSUME NEW k \in A!Keys, A!Seeds(k)
      PROVE  /\ FilledUp(k) \in PosType(k) /\ FilledUp(k) # None
             /\ FilledUp(k).amount = Floor(AmountIn(positions[k]), SeedAmount)
             /\ FilledUp(k).reward = Floor(RewardIn(positions[k]), SeedReward)
             /\ FilledUp(k).had = Known(positions[k]).had
  <2> DEFINE known == Known(positions[k])
  <2>1. /\ known \in A!Position /\ k[3] = "classic"
        /\ known.amount = AmountIn(positions[k]) /\ known.reward = RewardIn(positions[k])
    BY <1>1, <1>3, KnownIs DEF PosType, AmountIn, RewardIn, A!Seeds
  <2> DEFINE filled == [known EXCEPT !.amount = Floor(@, SeedAmount),
                                     !.reward = Floor(@, SeedReward)]
  <2>2. FilledUp(k) = filled
    OBVIOUS
  <2>3. Known(positions[k]).had = known.had
    OBVIOUS
  <2> HIDE DEF known, FilledUp
  <2>4. Floor(known.amount, SeedAmount) \in Nat \cup {None}
        /\ Floor(known.reward, SeedReward) \in Nat \cup {None}
    BY <2>1, PoolNames DEF A!Position
  <2> HIDE DEF Floor
  <2>5. /\ filled \in A!Position
        /\ filled.amount = Floor(known.amount, SeedAmount)
        /\ filled.reward = Floor(known.reward, SeedReward)
        /\ filled.had = known.had
    BY <2>1, <2>4 DEF A!Position
  <2> HIDE DEF filled
  <2> QED
    BY <2>1, <2>2, <2>3, <2>5, PoolNames DEF PosType
<1>4. ASSUME NEW p \in Pools
      PROVE  /\ Supply(p) \in A!Pool /\ Supply(p) # None
             /\ Supply(p).supply = IF pools[p] = None THEN SeedAmount
                                   ELSE IF pools[p].supply = None THEN SeedAmount
                                   ELSE pools[p].supply
  <2>1. pools[p] # None => pools[p].supply \in Supplies \cup {SeedAmount, None}
    BY DEF PoolTyped, A!Pool
  <2> QED
    BY <2>1, PoolNames DEF A!Pool
<1> HIDE DEF Supply
<1>5. poolsLeft \in [Pools -> A!Pool \cup {None}]
  BY <1>4 DEF PoolTyped
<1> HIDE DEF FilledUp
<1>6. left \in PoolPositions
  <2>1. \A k \in A!Keys : left[k] \in PosType(k)
    BY <1>1, <1>3
  <2>2. left = [k \in A!Keys |-> left[k]]
    OBVIOUS
  <2> HIDE DEF left
  <2> QED
    BY <2>1, <2>2 DEF PoolPositions, PosType
<1>7. [mapped |-> mapped, pools |-> poolsLeft, positions |-> left] \in PoolState
  <2> HIDE DEF left, poolsLeft
  <2> QED
    BY <1>5, <1>6 DEF PoolState, PoolTyped
<1>8. \A p \in Pools : poolsLeft[p] = IF p \notin seeded THEN pools[p] ELSE Supply(p)
  OBVIOUS
<1>9. \A k \in A!Keys : left[k] = IF A!Seeds(k) THEN FilledUp(k) ELSE positions[k]
  OBVIOUS
<1> HIDE DEF left, poolsLeft
<1> QED
  BY <1>2, <1>3, <1>4, <1>7, <1>8, <1>9

LEMMA PoolsStep ==
    ASSUME NEW s \in PoolState, NEW o \in PoolSaid, NEW c \in A!Changes,
           ~UserRemovals,
           PoolsAgree(s, o)
    PROVE  PoolsAgree(A!Decode(s, c), A!Observe(o, c))
<1> DEFINE t == A!Decode(s, c)
           u == A!Observe(o, c)
<1>1. /\ t.mapped = s.mapped \cup (IF c.entry = "instance" THEN {c.pool} ELSE {})
      /\ \A p \in Pools : t.pools[p] =
            IF p = c.pool THEN PoolLeft(s.pools[p], c) ELSE s.pools[p]
  BY PoolDecodes
<1>2. /\ u.told = o.told \cup (IF c.entry = "instance" THEN {c.pool} ELSE {})
      /\ u.known = IF c.entry = "teardown" THEN o.known \ {c.pool}
                   ELSE IF Introduces(c, c.pool \in o.known) THEN o.known \cup {c.pool}
                   ELSE o.known
      /\ \A p \in Pools : u.supplies[p] =
            IF p = c.pool THEN SupplySaid(o.supplies[p], c, p \in o.known)
            ELSE o.supplies[p]
  BY PoolObserves
<1> HIDE DEF t, u
<1>3. Torn(c) <=> c.entry = "teardown"
  BY PoolChanges DEF Torn
<1>4. ASSUME NEW p \in Pools
      PROVE  /\ t.pools[p] # None <=> p \in u.known
             /\ SupplyAgrees(t.pools[p], u.supplies[p], p \in seeded)
  <2> DEFINE was == s.pools[p]
             said == o.supplies[p]
  <2>1. /\ was # None <=> p \in o.known
        /\ SupplyAgrees(was, said, p \in seeded)
        /\ was \in A!Pool \cup {None}
        /\ said \in Supplies \cup {None}
    BY DEF PoolsAgree, PoolState, PoolSaid
  <2> HIDE DEF was, said
  <2>2. CASE p # c.pool
    <3>1. t.pools[p] = was /\ u.supplies[p] = said /\ (p \in u.known <=> p \in o.known)
      BY <1>1, <1>2, <2>2 DEF was, said
    <3> QED
      BY <2>1, <3>1
  <2>3. CASE p = c.pool
    <3>1. /\ t.pools[p] = PoolLeft(was, c)
          /\ u.supplies[p] = SupplySaid(said, c, p \in o.known)
          /\ (p \in u.known <=> c.entry # "teardown" /\
                 (Introduces(c, p \in o.known) \/ p \in o.known))
      BY <1>1, <1>2, <2>3 DEF was, said
    <3>2. CASE c.entry = "teardown"
      <4>1. t.pools[p] = None /\ u.supplies[p] = None /\ p \notin u.known
        BY <1>3, <3>1, <3>2 DEF PoolLeft, SupplySaid
      <4> QED
        BY <4>1 DEF SupplyAgrees
    <3>3. ASSUME c.entry # "teardown", Introduces(c, p \in o.known), NEW v \in Supplies \cup {None},
                 PoolLeft(was, c) = SuppliedBy(was, v),
                 SupplySaid(said, c, p \in o.known) = IF v # None THEN v ELSE said
          PROVE  /\ t.pools[p] # None <=> p \in u.known
                 /\ SupplyAgrees(t.pools[p], u.supplies[p], p \in seeded)
      <4> DEFINE pool == SuppliedBy(was, v)
      <4>1. /\ pool # None
            /\ pool.supply = IF v # None THEN v ELSE IF was = None THEN None ELSE was.supply
        BY <2>1, <3>3, SuppliedIs
      <4>2. t.pools[p] = pool /\ p \in u.known
        BY <3>1, <3>3
      <4>3. u.supplies[p] = IF v # None THEN v ELSE said
        BY <3>1, <3>3
      <4> HIDE DEF pool
      <4> QED
        BY <2>1, <4>1, <4>2, <4>3 DEF SupplyAgrees
    <3>4. CASE c.entry = "instance" /\ c.allowed
      <4>1. Introduces(c, p \in o.known) /\ c.supply \in Supplies \cup {None}
        BY <3>4, PoolChanges DEF Introduces
      <4>2. PoolLeft(was, c) = SuppliedBy(was, c.supply)
        BY <1>3, <3>4 DEF PoolLeft
      <4>3. SupplySaid(said, c, p \in o.known) = IF c.supply # None THEN c.supply ELSE said
        BY <3>4, <4>1 DEF SupplySaid
      <4> QED
        BY <3>3, <3>4, <4>1, <4>2, <4>3
    <3>5. CASE c.entry = "reserves"
      <4>1. Introduces(c, p \in o.known)
        BY <3>5 DEF Introduces
      <4>2. PoolLeft(was, c) = SuppliedBy(was, None)
        BY <1>3, <3>5 DEF PoolLeft
      <4>3. SupplySaid(said, c, p \in o.known) = said
        BY <3>5 DEF SupplySaid
      <4> QED
        BY <3>3, <3>5, <4>1, <4>2, <4>3
    <3>6. CASE c.entry = "totalshares" /\ p \in o.known
      <4>1. Introduces(c, p \in o.known) /\ c.supply \in Supplies \cup {None}
        BY <3>6, PoolChanges DEF Introduces
      <4>2. PoolLeft(was, c) = SuppliedBy(was, c.supply)
        BY <1>3, <2>1, <3>6 DEF PoolLeft
      <4>3. SupplySaid(said, c, p \in o.known) = IF c.supply # None THEN c.supply ELSE said
        BY <3>6, <4>1 DEF SupplySaid
      <4> QED
        BY <3>3, <3>6, <4>1, <4>2, <4>3
    <3>7. CASE c.entry # "teardown" /\ ~Introduces(c, p \in o.known)
      <4>1. PoolLeft(was, c) = was
        BY <1>3, <2>1, <3>7 DEF PoolLeft, Introduces
      <4>2. SupplySaid(said, c, p \in o.known) = said
        BY <3>7 DEF SupplySaid
      <4> QED
        BY <2>1, <3>1, <3>7, <4>1, <4>2
    <3> QED
      BY <3>2, <3>4, <3>5, <3>6, <3>7 DEF Introduces
  <2> QED
    BY <2>2, <2>3
<1> QED
  BY <1>1, <1>2, <1>4 DEF PoolsAgree, t, u

\* The seeded pools are known when a ledger starts.
PoolChainStart == [poolChain EXCEPT !.known = @ \cup seeded]

\* A ledger, as the prefixes of its decode and of what it says.
LEMMA PoolLedgerRuns ==
    ASSUME PoolTyped, NEW ledger \in A!Ledgers, A!Ledger(ledger)
    PROVE  \E n \in Nat :
              /\ ledger \in [1..n -> A!Changes]
              /\ \E run \in [0..n -> PoolState], said \in [0..n -> PoolSaid] :
                    /\ run[0] = PoolStart
                    /\ said[0] = PoolChainStart
                    /\ \A i \in 1..n : /\ run[i] = A!Decode(run[i - 1], ledger[i])
                                       /\ said[i] = A!Observe(said[i - 1], ledger[i])
                    /\ A!Reduce(ledger) = run[n]
                    /\ mapped' = run[n].mapped
                    /\ pools' = run[n].pools
                    /\ positions' = run[n].positions
                    /\ poolChain' = said[n]
<1>1. PICK n \in Nat : ledger \in [1..n -> A!Changes]
  BY PoolNames DEF A!Ledgers
<1>2. PoolStart \in PoolState /\ PoolChainStart \in PoolSaid
  BY PoolSeeds DEF PoolTyped, PoolSaid, PoolChainStart
<1>3. PICK run \in [0..n -> PoolState] :
        /\ run[0] = PoolStart
        /\ \A i \in 1..n : run[i] = A!Decode(run[i - 1], ledger[i])
        /\ A!FoldLeft(A!Decode, PoolStart, ledger) = run[n]
  BY <1>1, <1>2, PoolRuns
<1>4. PICK said \in [0..n -> PoolSaid] :
        /\ said[0] = PoolChainStart
        /\ \A i \in 1..n : said[i] = A!Observe(said[i - 1], ledger[i])
        /\ A!FoldLeft(A!Observe, PoolChainStart, ledger) = said[n]
  BY <1>1, <1>2, PoolChainRuns
<1>5. A!Reduce(ledger) = run[n]
  BY <1>3 DEF A!Reduce, PoolStart, PoolNow
<1>6. /\ mapped' = run[n].mapped /\ pools' = run[n].pools
      /\ positions' = run[n].positions /\ poolChain' = said[n]
  BY <1>4, <1>5 DEF A!Ledger, PoolChainStart
<1> QED
  BY <1>1, <1>3, <1>4, <1>5, <1>6

LEMMA PoolLedgerTyped ==
    ASSUME PoolTyped, NEW ledger \in A!Ledgers, A!Ledger(ledger)
    PROVE  PoolTyped'
<1>1. PICK n \in Nat :
        \E run \in [0..n -> PoolState], said \in [0..n -> PoolSaid] :
           /\ mapped' = run[n].mapped
           /\ pools' = run[n].pools
           /\ positions' = run[n].positions
           /\ poolChain' = said[n]
  BY PoolLedgerRuns
<1>2. PICK s \in PoolState, o \in PoolSaid :
        /\ mapped' = s.mapped /\ pools' = s.pools
        /\ positions' = s.positions /\ poolChain' = o
  BY <1>1
<1>3. seeded' = seeded
  BY DEF A!Ledger
<1> QED
  BY <1>2, <1>3 DEF PoolTyped, PoolState

\* The seeds, put under what is there, keep what a ledger starts from.
LEMMA PoolStartKept ==
    ASSUME PoolTyped, PoolFollows, HostRetells, ~UserRemovals
    PROVE  /\ PoolsAgree(PoolStart, PoolChainStart)
           /\ \A k \in A!Keys : PositionKept(PoolStart, PoolChainStart, k, A!Seeds(k))
<1>1. /\ PoolsAgree(PoolNow, poolChain)
      /\ \A k \in A!Keys :
            PoolAgrees(positions[k], poolChain.amounts[k], poolChain.rewards[k],
                       k \in poolChain.held, A!Seeds(k), k[1] \in poolChain.gone)
  BY DEF PoolFollows
<1>2. /\ PoolNow.mapped = mapped /\ PoolNow.pools = pools
      /\ poolChain \in PoolSaid /\ seeded \in SUBSET Pools
  BY DEF PoolNow, PoolTyped
<1> DEFINE o == PoolChainStart
<1>3. /\ o.told = poolChain.told /\ o.gone = poolChain.gone
      /\ o.known = poolChain.known \cup seeded
      /\ o.supplies = poolChain.supplies /\ o.amounts = poolChain.amounts
      /\ o.rewards = poolChain.rewards /\ o.held = poolChain.held
  BY <1>2 DEF PoolChainStart, PoolSaid
<1> HIDE DEF o
<1>4. PoolsAgree(PoolStart, o)
  <2>1. PoolStart.mapped = o.told
    BY <1>1, <1>2, <1>3, PoolSeeds DEF PoolsAgree
  <2>2. ASSUME NEW p \in Pools
        PROVE  /\ PoolStart.pools[p] # None <=> p \in o.known
               /\ SupplyAgrees(PoolStart.pools[p], o.supplies[p], p \in seeded)
    <3> DEFINE pool == PoolStart.pools[p]
               was == pools[p]
               said == poolChain.supplies[p]
    <3>1. /\ was # None <=> p \in poolChain.known
          /\ SupplyAgrees(was, said, p \in seeded)
          /\ said \in Supplies \cup {None}
      BY <1>1, <1>2 DEF PoolsAgree, PoolSaid
    <3>2. o.supplies[p] = said /\ (p \in o.known <=> p \in poolChain.known \/ p \in seeded)
      BY <1>3
    <3>3. /\ p \notin seeded => pool = was
          /\ p \in seeded =>
                /\ pool # None
                /\ pool.supply = IF was = None THEN SeedAmount
                                 ELSE IF was.supply = None THEN SeedAmount ELSE was.supply
      BY PoolSeeds
    <3> HIDE DEF pool, was, said
    <3>4. CASE p \notin seeded
      <4>1. pool = was /\ (p \in o.known <=> p \in poolChain.known)
        BY <3>2, <3>3, <3>4
      <4> QED
        BY <3>1, <3>2, <4>1 DEF pool
    <3>5. CASE p \in seeded
      <4>1. pool # None /\ p \in o.known
        BY <3>2, <3>3, <3>5
      <4>2. SupplyAgrees(pool, said, p \in seeded)
        BY <3>1, <3>3, <3>5, PoolNames DEF SupplyAgrees
      <4> QED
        BY <3>2, <4>1, <4>2 DEF pool
    <3> QED
      BY <3>4, <3>5
  <2> QED
    BY <2>1, <2>2 DEF PoolsAgree
<1>5. ASSUME NEW k \in A!Keys
      PROVE  PositionKept(PoolStart, o, k, A!Seeds(k))
  <2> DEFINE was == positions[k]
             pos == PoolStart.positions[k]
             amount == poolChain.amounts[k]
             reward == poolChain.rewards[k]
             isHeld == k \in poolChain.held
             isGone == k[1] \in poolChain.gone
             isSeeded == A!Seeds(k)
  <2>1. PoolAgrees(was, amount, reward, isHeld, isSeeded, isGone)
    BY <1>1
  <2>2. /\ ~isSeeded => pos = was
        /\ isSeeded => /\ pos # None
                       /\ pos.amount = IF AmountIn(was) = None THEN SeedAmount
                                       ELSE AmountIn(was)
                       /\ pos.reward = IF RewardIn(was) = None THEN SeedReward
                                       ELSE RewardIn(was)
                       /\ pos.had = Known(was).had
    BY PoolSeeds
  <2>3. o.amounts[k] = amount /\ o.rewards[k] = reward
        /\ (k \in o.held) = isHeld /\ (k[1] \in o.gone) = isGone
    BY <1>3
  <2> HIDE DEF was, pos, amount, reward, isHeld, isGone, isSeeded
  <2>4. CASE ~isSeeded
    BY <2>1, <2>2, <2>3, <2>4 DEF PositionKept, Filled, pos, isSeeded
  <2>5. CASE isSeeded
    <3>1. AmountIn(pos) = pos.amount /\ RewardIn(pos) = pos.reward
      BY <2>2, <2>5 DEF AmountIn, RewardIn
    <3>2. A!Follows(AmountIn(pos), amount, isSeeded, SeedAmount, isGone)
      BY <2>1, <2>2, <2>5, <3>1 DEF PoolAgrees, A!Follows
    <3>3. A!Follows(RewardIn(pos), reward, isSeeded, SeedReward, isGone)
      BY <2>1, <2>2, <2>5, <3>1 DEF PoolAgrees, A!Follows
    <3>4. AmountIn(pos) # None
      BY <2>2, <2>5, <3>1, PoolNames
    <3>5. RewardIn(pos) = None => reward = None
      BY <2>1, <2>2, <2>5, <3>1 DEF PoolAgrees
    <3>6. isHeld => pos.had
      BY <2>1, <2>2, <2>5 DEF PoolAgrees, Known
    <3>7. PoolAgrees(pos, amount, reward, isHeld, isSeeded, isGone)
      BY <2>2, <2>5, <3>1, <3>2, <3>3, <3>4, <3>5, <3>6 DEF PoolAgrees
    <3> QED
      BY <2>2, <2>3, <2>5, <3>7 DEF PositionKept, Filled, pos, isSeeded
  <2> QED
    BY <2>4, <2>5
<1> QED
  BY <1>4, <1>5 DEF o

\* One ledger: every prefix of it keeps what an entry keeps.
LEMMA PoolLedgerFollows ==
    ASSUME PoolTyped, PoolFollows, NEW ledger \in A!Ledgers, A!Ledger(ledger)
    PROVE  PoolFollows'
<1> SUFFICES ASSUME HostRetells, ~UserRemovals
             PROVE  PoolFollows'
  BY DEF PoolFollows
<1>1. PICK n \in Nat :
        /\ ledger \in [1..n -> A!Changes]
        /\ \E run \in [0..n -> PoolState], said \in [0..n -> PoolSaid] :
              /\ run[0] = PoolStart
              /\ said[0] = PoolChainStart
              /\ \A i \in 1..n : /\ run[i] = A!Decode(run[i - 1], ledger[i])
                                 /\ said[i] = A!Observe(said[i - 1], ledger[i])
              /\ A!Reduce(ledger) = run[n]
              /\ mapped' = run[n].mapped
              /\ pools' = run[n].pools
              /\ positions' = run[n].positions
              /\ poolChain' = said[n]
  BY PoolLedgerRuns
<1>2. PICK run \in [0..n -> PoolState], said \in [0..n -> PoolSaid] :
        /\ run[0] = PoolStart
        /\ said[0] = PoolChainStart
        /\ \A i \in 1..n : /\ run[i] = A!Decode(run[i - 1], ledger[i])
                           /\ said[i] = A!Observe(said[i - 1], ledger[i])
        /\ A!Reduce(ledger) = run[n]
        /\ mapped' = run[n].mapped
        /\ pools' = run[n].pools
        /\ positions' = run[n].positions
        /\ poolChain' = said[n]
  BY <1>1
<1> DEFINE Holds(i) == /\ PoolsAgree(run[i], said[i])
                       /\ \A k \in A!Keys : PositionKept(run[i], said[i], k, A!Seeds(k))
           good == {i \in 0..n : Holds(i)}
<1>3. 0 \in good
  BY <1>2, PoolStartKept
<1>4. ASSUME NEW i \in 0..n, i < n, i \in good
      PROVE  i + 1 \in good
  <2>1. i + 1 \in 1..n /\ (i + 1) - 1 = i /\ i + 1 \in 0..n
    BY <1>4
  <2> DEFINE c == ledger[i + 1]
  <2>2. /\ run[i + 1] = A!Decode(run[i], c)
        /\ said[i + 1] = A!Observe(said[i], c)
        /\ c \in A!Changes
    BY <1>1, <1>2, <2>1
  <2>3. run[i] \in PoolState /\ said[i] \in PoolSaid
    OBVIOUS
  <2> HIDE DEF c
  <2>4. PoolsAgree(A!Decode(run[i], c), A!Observe(said[i], c))
    BY <1>4, <2>2, <2>3, PoolsStep
  <2>5. ASSUME NEW k \in A!Keys
        PROVE  PositionKept(A!Decode(run[i], c), A!Observe(said[i], c), k, A!Seeds(k))
    <3> DEFINE seeds == A!Seeds(k)
    <3>1. seeds \in BOOLEAN /\ run[i].mapped = said[i].told
      BY <1>4 DEF A!Seeds, PoolsAgree
    <3>2. PositionKept(run[i], said[i], k, seeds)
      BY <1>4
    <3> HIDE DEF seeds
    <3>3. PositionKept(A!Decode(run[i], c), A!Observe(said[i], c), k, seeds)
      BY <2>2, <2>3, <3>1, <3>2, PoolStep
    <3> QED
      BY <3>3 DEF seeds
  <2> QED
    BY <2>1, <2>2, <2>4, <2>5
<1>5. Holds(n)
  <2> HIDE DEF good
  <2>1. \A i \in 0..n : i \in good
    BY <1>3, <1>4, Prefixes
  <2>2. n \in good
    BY <2>1
  <2> QED
    BY <2>2 DEF good
<1>6. seeded' = seeded /\ \A k \in A!Keys : A!Seeds(k)' = A!Seeds(k)
  BY DEF A!Ledger, A!Seeds
<1>7. PoolsAgree(PoolNow, poolChain)'
  <2>1. /\ PoolNow'.mapped = run[n].mapped /\ PoolNow'.pools = run[n].pools
        /\ poolChain' = said[n]
    BY <1>2 DEF PoolNow
  <2> QED
    BY <1>5, <1>6, <2>1 DEF PoolsAgree
<1>8. ASSUME NEW k \in A!Keys
      PROVE  PoolAgrees(positions[k], poolChain.amounts[k], poolChain.rewards[k],
                        k \in poolChain.held, A!Seeds(k), k[1] \in poolChain.gone)'
  <2>1. PoolAgrees(run[n].positions[k], said[n].amounts[k], said[n].rewards[k],
                   k \in said[n].held, A!Seeds(k), k[1] \in said[n].gone)
    BY <1>5 DEF PositionKept
  <2>2. A!Seeds(k)' = A!Seeds(k)
    BY <1>6
  <2> QED
    BY <1>2, <2>1, <2>2
<1> QED
  BY <1>7, <1>8 DEF PoolFollows

LEMMA PoolRestart ==
    ASSUME PoolTyped, A!Restart
    PROVE  PoolTyped' /\ (PoolFollows => PoolFollows')
<1>1. PoolTyped'
  BY DEF A!Restart, PoolTyped
<1>2. \A k \in A!Keys : A!Seeds(k)' = A!Seeds(k)
  BY DEF A!Restart, A!Seeds
<1>3. PoolFollows => PoolFollows'
  BY <1>2 DEF A!Restart, PoolFollows, PoolNow, PoolsAgree
<1> QED
  BY <1>1, <1>3

LEMMA PoolTypes ==
    ASSUME PoolTyped
    PROVE  A!AquariusTypeOK
  BY DEF PoolTyped, PoolPositions, A!AquariusTypeOK

LEMMA PoolPromises ==
    ASSUME PoolTyped, PoolFollows, HostRetells, ~UserRemovals
    PROVE  /\ A!AmountsFollowChain /\ A!RewardsFollowChain
           /\ A!PoolsFollowChain /\ A!ClosedRowsEmitTombstones
<1>1. \A k \in A!Keys : PoolAgrees(positions[k], poolChain.amounts[k], poolChain.rewards[k],
                                   k \in poolChain.held, A!Seeds(k), k[1] \in poolChain.gone)
  BY DEF PoolFollows
<1>2. \A k \in A!Keys : A!Amount(k) = AmountIn(positions[k]) /\ A!Reward(k) = RewardIn(positions[k])
  BY DEF A!Amount, A!Reward, AmountIn, RewardIn
<1>3. A!AmountsFollowChain
  BY <1>1, <1>2 DEF PoolAgrees, A!AmountsFollowChain
<1>4. A!RewardsFollowChain
  BY <1>1, <1>2 DEF PoolAgrees, A!RewardsFollowChain
<1>5. A!PoolsFollowChain
  <2>1. \A p \in Pools : SupplyAgrees(pools[p], poolChain.supplies[p], p \in seeded)
    BY DEF PoolFollows, PoolsAgree, PoolNow
  <2> QED
    BY <2>1 DEF SupplyAgrees, A!PoolsFollowChain
<1>6. A!ClosedRowsEmitTombstones
  <2> SUFFICES ASSUME NEW k \in poolChain.held, pools[k[1]] # None, poolChain.amounts[k] = 0
               PROVE  [kind |-> "principal", live |-> FALSE] \in A!Rows(k)
    BY DEF A!ClosedRowsEmitTombstones
  <2>1. k \in A!Keys
    BY DEF PoolTyped, PoolSaid
  <2>2. 0 # None
    BY PoolNames
  <2>3. positions[k] # None /\ positions[k].amount # None /\ positions[k].had
    BY <1>1, <2>1 DEF PoolAgrees
  <2>4. positions[k].amount = 0
    BY <1>1, <2>1, <2>2, <2>3 DEF PoolAgrees, AmountIn, A!Follows
  <2> QED
    BY <2>2, <2>3, <2>4 DEF A!Rows
<1> QED
  BY <1>3, <1>4, <1>5, <1>6

-----------------------------------------------------------------------------
(* The adapters under their host.                                          *)

AdaptersTyped == PairTyped /\ VaultInv /\ PoolTyped

AdaptersFollow == PairFollows /\ PoolFollows

LEMMA AdaptersInit == Init => AdaptersTyped /\ AdaptersFollow
BY PairInit, VaultInit, PoolInit DEF Init, AdaptersTyped, AdaptersFollow

\* What an adapter's step does not touch stays what it is.
LEMMA PairsIdle ==
    ASSUME UNCHANGED soroswapVars
    PROVE  (PairTyped => PairTyped') /\ (PairFollows => PairFollows')
BY DEF soroswapVars, PairTyped, PairFollows

LEMMA VaultsIdle ==
    ASSUME UNCHANGED fxdaoVars
    PROVE  VaultInv => VaultInv'
BY DEF fxdaoVars, VaultInv

LEMMA PoolsIdle ==
    ASSUME UNCHANGED aquariusVars
    PROVE  (PoolTyped => PoolTyped') /\ (PoolFollows => PoolFollows')
BY DEF aquariusVars, PoolTyped, PoolFollows, PoolNow, PoolsAgree, A!Seeds

LEMMA PairsStep ==
    ASSUME PairTyped, S!Next
    PROVE  PairTyped' /\ (PairFollows => PairFollows')
<1>1. CASE S!Restart
  BY <1>1, PairRestart
<1>2. ASSUME NEW ledger \in S!Ledgers, S!Ledger(ledger)
      PROVE  PairTyped' /\ (PairFollows => PairFollows')
  <2>1. PairTyped'
    BY <1>2, PairLedgerReports
  <2>2. CASE HostRetells
    BY <1>2, <2>1, <2>2, PairLedgerFollows
  <2>3. CASE ~HostRetells
    BY <2>1, <2>3 DEF PairFollows
  <2> QED
    BY <2>2, <2>3
<1> QED
  BY <1>1, <1>2 DEF S!Next

LEMMA PoolsNext ==
    ASSUME PoolTyped, A!Next
    PROVE  PoolTyped' /\ (PoolFollows => PoolFollows')
<1>1. CASE A!Restart
  BY <1>1, PoolRestart
<1>2. ASSUME NEW ledger \in A!Ledgers, A!Ledger(ledger)
      PROVE  PoolTyped' /\ (PoolFollows => PoolFollows')
  BY <1>2, PoolLedgerTyped, PoolLedgerFollows
<1> QED
  BY <1>1, <1>2 DEF A!Next

LEMMA AdaptersNext ==
    ASSUME AdaptersTyped, [Next]_vars
    PROVE  AdaptersTyped' /\ (AdaptersFollow => AdaptersFollow')
<1>1. CASE Soroswap
  BY <1>1, PairsStep, VaultsIdle, PoolsIdle DEF Soroswap, AdaptersTyped, AdaptersFollow
<1>2. CASE FxDAO
  <2>1. UNCHANGED soroswapVars /\ UNCHANGED aquariusVars
    BY <1>2 DEF FxDAO
  <2>2. VaultInv'
    BY <1>2, VaultLedger DEF FxDAO, F!Next, AdaptersTyped
  <2> QED
    BY <2>1, <2>2, PairsIdle, PoolsIdle DEF AdaptersTyped, AdaptersFollow
<1>3. CASE Aquarius
  BY <1>3, PoolsNext, PairsIdle, VaultsIdle DEF Aquarius, AdaptersTyped, AdaptersFollow
<1>4. CASE UNCHANGED vars
  <2>1. UNCHANGED soroswapVars /\ UNCHANGED fxdaoVars /\ UNCHANGED aquariusVars
    BY <1>4 DEF vars
  <2> QED
    BY <2>1, PairsIdle, VaultsIdle, PoolsIdle DEF AdaptersTyped, AdaptersFollow
<1> QED
  BY <1>1, <1>2, <1>3, <1>4 DEF Next

-----------------------------------------------------------------------------
(***************************************************************************)
(* Type correctness of the three adapters, whatever their hosts show them  *)
(* (soroswap/state.go, fxdao/state.go, aquarius/state.go).                 *)
(***************************************************************************)
THEOREM AdaptersTypes == Spec => []AdaptersTypeOK
<1>1. AdaptersTyped => AdaptersTypeOK
  BY PairTypes, VaultPromises, PoolTypes DEF AdaptersTyped, AdaptersTypeOK
<1>2. AdaptersTyped /\ [Next]_vars => AdaptersTyped'
  BY AdaptersNext
<1> QED
  BY <1>1, <1>2, AdaptersInit, PTL DEF Spec

(***************************************************************************)
(* FxDAO: the row of a vault is what its last entry said, for ledgers that *)
(* write, restore and remove it in any order (fxdao/state.go, DecodeState).*)
(***************************************************************************)
THEOREM VaultsAreTheChains == Spec => []VaultsFollowChain
<1>1. AdaptersTyped => VaultsFollowChain
  BY VaultPromises DEF AdaptersTyped, VaultsFollowChain
<1>2. AdaptersTyped /\ [Next]_vars => AdaptersTyped'
  BY AdaptersNext
<1> QED
  BY <1>1, <1>2, AdaptersInit, PTL DEF Spec

(***************************************************************************)
(* FxDAO: every ledger reports each vault that moved exactly once, and one *)
(* it closed as a removal (fxdao/adapter.go, LastDirtyVaults).             *)
(***************************************************************************)
THEOREM VaultReportsAreComplete == Spec => DirtyVaultsComplete
<1> DEFINE Reported(k) ==
              LET kinds == {r.kind : r \in {r \in vaultDirty' : r.key = k}}
              IN  /\ vaults'[k] # vaults[k] => kinds # {}
                  /\ \A a, b \in kinds : a = b
                  /\ (F!Row(k)' = "closed" /\ F!Row(k) # "closed") => kinds = {"removal"}
<1>1. AdaptersTyped /\ [Next]_vars => [\A k \in F!Keys : Reported(k)]_F!vars
  <2> SUFFICES ASSUME AdaptersTyped, [Next]_vars, ~UNCHANGED F!vars, NEW k \in F!Keys
               PROVE  Reported(k)
    OBVIOUS
  <2>1. F!Next
    BY DEF Next, Soroswap, FxDAO, Aquarius, vars, fxdaoVars, F!vars
  <2> QED
    BY <2>1, VaultsReported DEF F!Next, AdaptersTyped
<1>2. AdaptersTyped /\ [Next]_vars => AdaptersTyped'
  BY AdaptersNext
<1> QED
  BY <1>1, <1>2, AdaptersInit, PTL DEF Spec, DirtyVaultsComplete, F!DirtyVaultsComplete

(***************************************************************************)
(* Soroswap: a position is its holder's last balance, however often the    *)
(* process is replaced, when a new process is told of its pairs again      *)
(* (soroswap/state.go, decodeSoroswapState).                               *)
(***************************************************************************)
THEOREM PositionsAreTheChains ==
    ASSUME HostRetells
    PROVE  Spec => []PositionsFollowChain
<1>1. AdaptersTyped /\ AdaptersFollow => PositionsFollowChain
  BY PairPromises DEF AdaptersTyped, AdaptersFollow, PositionsFollowChain
<1>2. AdaptersTyped /\ AdaptersFollow /\ [Next]_vars => (AdaptersTyped /\ AdaptersFollow)'
  BY AdaptersNext
<1> QED
  BY <1>1, <1>2, AdaptersInit, PTL DEF Spec

(***************************************************************************)
(* Soroswap: an emptied position has a tombstone row exactly when it once  *)
(* held shares (soroswap/transform.go, HadShares).                         *)
(***************************************************************************)
THEOREM EmptiedPositionsAreTombstones ==
    ASSUME HostRetells
    PROVE  Spec => []ClosedPositionsEmitTombstones
<1>1. AdaptersTyped /\ AdaptersFollow => ClosedPositionsEmitTombstones
  BY PairPromises DEF AdaptersTyped, AdaptersFollow, ClosedPositionsEmitTombstones
<1>2. AdaptersTyped /\ AdaptersFollow /\ [Next]_vars => (AdaptersTyped /\ AdaptersFollow)'
  BY AdaptersNext
<1> QED
  BY <1>1, <1>2, AdaptersInit, PTL DEF Spec

(***************************************************************************)
(* Soroswap: every ledger reports each position that moved, only positions *)
(* that are in the state, and as removed alone only empty ones             *)
(* (soroswap/adapter.go, LastDirtyPositions).                              *)
(***************************************************************************)
THEOREM PositionReportsAreComplete == Spec => DirtyPositionsComplete
<1> DEFINE Reported(k) ==
              LET kinds == {d.kind : d \in {d \in pairDirty' : d.key = k}}
              IN  /\ pairPositions'[k] # pairPositions[k] => kinds # {}
                  /\ kinds # {} => pairPositions'[k] # None
                  /\ kinds = {"removal"} => pairPositions'[k].shares = 0
<1>1. AdaptersTyped /\ [Next]_vars => [\A k \in S!Keys : Reported(k)]_S!vars
  <2> SUFFICES ASSUME AdaptersTyped, [Next]_vars, ~UNCHANGED S!vars, NEW k \in S!Keys
               PROVE  Reported(k)
    OBVIOUS
  <2>1. S!Next
    BY DEF Next, Soroswap, FxDAO, Aquarius, vars, soroswapVars, S!vars
  <2> QED
    BY <2>1, PairsReported DEF AdaptersTyped
<1>2. AdaptersTyped /\ [Next]_vars => AdaptersTyped'
  BY AdaptersNext
<1> QED
  BY <1>1, <1>2, AdaptersInit, PTL DEF Spec, DirtyPositionsComplete, S!DirtyPositionsComplete

\* Told its share tokens again, and shown no removal of a bare address key,
\* which takes its pool with it.
PoolsHosted == HostRetells /\ ~UserRemovals

LEMMA PoolsPromised ==
    ASSUME PoolsHosted
    PROVE  Spec => [](AmountsFollowChain /\ RewardsFollowChain
                      /\ PoolsFollowChain /\ ClosedRowsEmitTombstones)
<1> DEFINE Promised == AmountsFollowChain /\ RewardsFollowChain
                       /\ PoolsFollowChain /\ ClosedRowsEmitTombstones
<1>1. AdaptersTyped /\ AdaptersFollow => Promised
  BY PoolPromises DEF PoolsHosted, AdaptersTyped, AdaptersFollow, AmountsFollowChain,
        RewardsFollowChain, PoolsFollowChain, ClosedRowsEmitTombstones
<1>2. AdaptersTyped /\ AdaptersFollow /\ [Next]_vars => (AdaptersTyped /\ AdaptersFollow)'
  BY AdaptersNext
<1> QED
  BY <1>1, <1>2, AdaptersInit, PTL DEF Spec

(***************************************************************************)
(* Aquarius: an amount is what its entries last said, and the seed's or    *)
(* absent only when they never spoke or its pool was removed since:        *)
(* "values the decoder already observed from the chain are never           *)
(* overridden" (aquarius/state.go, applyPoolSeeds), for pools and seeded   *)
(* pools that are removed and written again in any order.                  *)
(***************************************************************************)
THEOREM AmountsAreTheChains ==
    ASSUME PoolsHosted
    PROVE  Spec => []AmountsFollowChain
BY PoolsPromised, PTL

(***************************************************************************)
(* Aquarius: a reward is what its own entries last said, whatever happens  *)
(* to the shares of the same position, and the seed's or absent only when  *)
(* they never spoke or its pool was removed since (aquarius/state.go).     *)
(***************************************************************************)
THEOREM RewardsAreTheChains ==
    ASSUME PoolsHosted
    PROVE  Spec => []RewardsFollowChain
BY PoolsPromised, PTL

(***************************************************************************)
(* Aquarius: the total shares of a pool are what its entries said since it *)
(* was last removed, or its seed's; a pool that comes back, by its seed or *)
(* by part of its entries, never has those from before                     *)
(* (aquarius/state.go, applyPoolSeeds, applyEntryRemoval).                 *)
(***************************************************************************)
THEOREM PoolsAreTheChains ==
    ASSUME PoolsHosted
    PROVE  Spec => []PoolsFollowChain
BY PoolsPromised, PTL

(***************************************************************************)
(* Aquarius: a position an entry said to hold something, seeded or not,    *)
(* overwrites its principal row with a tombstone once it is closed and its *)
(* pool is known (aquarius/transform.go).                                  *)
(***************************************************************************)
THEOREM ClosedRowsAreTombstones ==
    ASSUME PoolsHosted
    PROVE  Spec => []ClosedRowsEmitTombstones
BY PoolsPromised, PTL
=============================================================================
