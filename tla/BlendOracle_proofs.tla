------------------------- MODULE BlendOracle_proofs -------------------------
(***************************************************************************)
(* Proofs about BlendOracle: the bounded carry of feed rounds loses        *)
(* nothing get_price looks at, so a price is the one get_price gives over  *)
(* everything the feed holds; and every write that moves a price is told.  *)
(***************************************************************************)
EXTENDS BlendOracle, FiniteSetTheorems, NaturalsInduction, WellFoundedInduction, TLAPS

-----------------------------------------------------------------------------
(* Numbers and stamps.                                                     *)

LEMMA LeastOf ==
    ASSUME NEW S \in SUBSET Nat, S # {}
    PROVE  \E m \in S : \A x \in S : m <= x
<1>1. PICK m \in S : \A x \in S : <<x, m>> \notin OpToRel(<, Nat)
  BY WFMin, NatLessThanWellFounded, Zenon
<1>2. \A x \in S : ~ (x < m)
  BY <1>1, Zenon DEF OpToRel
<1> QED
  BY <1>2

LEMMA GreatestOf ==
    ASSUME NEW n \in Nat, NEW S \in SUBSET (0..n), S # {}
    PROVE  Max(S) \in S /\ \A x \in S : x <= Max(S)
<1> DEFINE below == {n - x : x \in S}
<1>1. below \in SUBSET Nat /\ below # {}
  <2>1. \A x \in S : x \in 0..n
    OBVIOUS
  <2>2. \A x \in S : n - x \in Nat
    BY <2>1
  <2>3. below \subseteq Nat
    BY <2>2
  <2>4. PICK x \in S : TRUE
    OBVIOUS
  <2>5. n - x \in below
    BY <2>4
  <2> QED
    BY <2>3, <2>5
<1>2. PICK m \in below : \A x \in below : m <= x
  BY <1>1, LeastOf
<1>3. PICK x \in S : m = n - x
  OBVIOUS
<1>4. \A y \in S : x >= y
  <2> TAKE y \in S
  <2>1. n - y \in below
    OBVIOUS
  <2>2. n - x <= n - y
    BY <1>2, <1>3, <2>1
  <2>3. x \in 0..n /\ y \in 0..n
    OBVIOUS
  <2> QED
    BY <2>2, <2>3
<1>5. Max(S) \in S /\ \A y \in S : Max(S) >= y
  BY <1>4 DEF Max
<1>6. \A y \in S : y \in 0..n
  OBVIOUS
<1> QED
  BY <1>5, <1>6

LEMMA Multiples ==
    ASSUME NEW a \in Nat, NEW b \in Nat, NEW r \in Nat \ {0}
    PROVE  /\ r * a \in Nat
           /\ a <= b <=> r * a <= r * b
           /\ r * (a + b) = r * a + r * b
OBVIOUS

LEMMA Division ==
    ASSUME NEW m \in Nat, NEW r \in Nat \ {0}
    PROVE  /\ m \div r \in Nat
           /\ r * (m \div r) <= m
           /\ m < r * (m \div r) + r
OBVIOUS

\* A stamp is a multiple of the resolution within the bound.
LEMMA StampIs ==
    ASSUME NEW t \in Stamps
    PROVE  /\ t \in 1..MaxTime
           /\ \E k \in Nat \ {0} : t = Resolution * k /\ k <= MaxTime \div Resolution
<1>1. PICK k \in 1..(MaxTime \div Resolution) : t = Resolution * k
  BY DEF Stamps
<1>2. Resolution \in Nat \ {0} /\ MaxTime \in Nat
  BY OracleNumbersAssumption
<1>3. MaxTime \div Resolution \in Nat /\ Resolution * (MaxTime \div Resolution) <= MaxTime
  BY <1>2, Division
<1>4. k \in Nat \ {0} /\ k <= MaxTime \div Resolution
  BY <1>1, <1>3
<1>5. Resolution * k \in Nat /\ Resolution * k <= Resolution * (MaxTime \div Resolution)
  BY <1>2, <1>3, <1>4, Multiples
<1>6. Resolution * 1 <= Resolution * k
  BY <1>2, <1>4, Multiples
<1> QED
  BY <1>1, <1>2, <1>3, <1>4, <1>5, <1>6

LEMMA StampsFinite ==
    IsFiniteSet(Stamps) /\ Stamps \subseteq Nat /\ Stamps \in SUBSET (0..MaxTime)
<1>1. MaxTime \in Nat /\ Stamps \subseteq Nat /\ Stamps \in SUBSET (0..MaxTime)
  BY StampIs, OracleNumbersAssumption
<1>2. IsFiniteSet(0..MaxTime)
  BY <1>1, FS_Interval
<1> QED
  BY <1>1, <1>2, FS_Subset

\* The older stamps are those the guard's steps land on.
LEMMA OlderStamp ==
    ASSUME NEW t \in Stamps, NEW u \in Stamps, u < t
    PROVE  /\ (t - u) % Resolution = 0
           /\ t - u <= MaxAge <=>
                 \E k \in 1..(MaxAge \div Resolution) : u = t - Resolution * k
<1>1. Resolution \in Nat \ {0} /\ MaxAge \in Nat
  BY OracleNumbersAssumption
<1>2. PICK a \in Nat \ {0} : t = Resolution * a
  BY StampIs
<1>3. PICK b \in Nat \ {0} : u = Resolution * b
  BY StampIs
<1>4. t \in Nat /\ u \in Nat
  BY StampIs
<1>5. b < a
  <2>1. ~ (a <= b)
    BY <1>1, <1>2, <1>3, <1>4, Multiples
  <2> QED
    BY <2>1
<1> DEFINE k == a - b
<1>6. k \in Nat \ {0} /\ a = b + k
  BY <1>5
<1> HIDE DEF k
<1>7. t - u = Resolution * k /\ Resolution * k \in Nat
  BY <1>1, <1>2, <1>3, <1>4, <1>6, Multiples
<1>8. (Resolution * k) % Resolution = 0
  BY <1>1, <1>6
<1>9. Resolution * k <= MaxAge <=> k <= MaxAge \div Resolution
  <2>1. /\ MaxAge \div Resolution \in Nat
        /\ Resolution * (MaxAge \div Resolution) <= MaxAge
        /\ MaxAge < Resolution * (MaxAge \div Resolution) + Resolution
    BY <1>1, Division
  <2> DEFINE q == MaxAge \div Resolution
  <2>2. Resolution * q \in Nat /\ Resolution * (q + 1) = Resolution * q + Resolution * 1
    BY <1>1, <2>1, Multiples
  <2>3. k <= q => Resolution * k <= Resolution * q
    BY <1>1, <1>6, <2>1, Multiples
  <2>4. q + 1 <= k => Resolution * (q + 1) <= Resolution * k
    BY <1>1, <1>6, <2>1, Multiples
  <2> HIDE DEF q
  <2>5. q \in Nat
    BY <2>1 DEF q
  <2>6. Resolution * q <= MaxAge /\ MaxAge < Resolution * q + Resolution
    BY <2>1 DEF q
  <2>7. CASE k <= q
    BY <1>1, <1>6, <1>7, <2>2, <2>3, <2>5, <2>6, <2>7 DEF q
  <2>8. CASE q + 1 <= k
    BY <1>1, <1>6, <1>7, <2>2, <2>4, <2>5, <2>6, <2>8 DEF q
  <2> QED
    BY <1>6, <2>5, <2>7, <2>8
<1>10. ASSUME NEW j \in 1..(MaxAge \div Resolution), u = t - Resolution * j
       PROVE  j = k
  <2>1. MaxAge \div Resolution \in Nat
    BY <1>1, Division
  <2>2. j \in Nat \ {0} /\ Resolution * j \in Nat
    BY <1>1, <2>1, Multiples
  <2>3. Resolution * j = Resolution * k
    BY <1>4, <1>7, <1>10, <2>2
  <2> QED
    BY <1>1, <1>6, <2>2, <2>3, Multiples
<1>11. u = t - Resolution * k
  BY <1>4, <1>7
<1>12. MaxAge \div Resolution \in Nat
  BY <1>1, Division
<1>13. k <= MaxAge \div Resolution <=> \E j \in 1..(MaxAge \div Resolution) : u = t - Resolution * j
  BY <1>6, <1>10, <1>11, <1>12
<1> QED
  BY <1>7, <1>8, <1>9, <1>13

-----------------------------------------------------------------------------
(* The bounded carry.                                                      *)

Known(rounds) == {t \in Stamps : rounds[t] # None}

\* No ledger at `now' or later looks at this stamp.
Unreachable(t, now) == t + MaxCarried * Resolution <= now

\* A decode carries at most MaxCarried rounds.
LEMMA TrimBounds ==
    ASSUME NEW rounds
    PROVE  Cardinality(Known(TrimRounds(rounds))) <= MaxCarried
<1> DEFINE known == Known(rounds)
           kept == Known(TrimRounds(rounds))
           Newer(t) == {u \in known : u > t}
<1>1. MaxCarried \in Nat
  BY CarryAssumption
<1>2. kept \subseteq known /\ known \subseteq Stamps
  BY DEF Known, TrimRounds
<1>3. \A t \in kept : Cardinality(Newer(t)) < MaxCarried
  BY DEF Known, TrimRounds
<1>4. IsFiniteSet(known) /\ known \in SUBSET Nat /\ kept \in SUBSET Nat
  <2>1. IsFiniteSet(Stamps) /\ Stamps \subseteq Nat
    BY StampsFinite
  <2> QED
    BY <1>2, <2>1, FS_Subset
<1>5. CASE kept = {}
  BY <1>1, <1>5, FS_EmptySet
<1>6. CASE kept # {}
  <2>1. PICK m \in kept : \A x \in kept : m <= x
    BY <1>4, <1>6, LeastOf
  <2> DEFINE newer == Newer(m)
  <2>2. IsFiniteSet(newer) /\ Cardinality(newer) \in Nat /\ Cardinality(newer) < MaxCarried
    <3>1. newer \subseteq known
      OBVIOUS
    <3> QED
      BY <1>3, <1>4, <3>1, FS_Subset, FS_CardinalityType
  <2>3. kept \subseteq newer \cup {m}
    BY <1>2, <1>4, <2>1
  <2>4. m \notin newer
    BY <1>4
  <2> HIDE DEF newer, kept
  <2>5. IsFiniteSet(newer \cup {m}) /\ Cardinality(newer \cup {m}) = Cardinality(newer) + 1
    BY <2>2, <2>4, FS_AddElement
  <2>6. Cardinality(newer \cup {m}) \in Nat
    BY <2>5, FS_CardinalityType
  <2>7. IsFiniteSet(kept) /\ Cardinality(kept) <= Cardinality(newer \cup {m})
    BY <2>3, <2>5, FS_Subset
  <2>8. Cardinality(kept) \in Nat
    BY <2>7, FS_CardinalityType
  <2>9. Cardinality(kept) <= MaxCarried
    BY <1>1, <2>2, <2>5, <2>6, <2>7, <2>8
  <2> QED
    BY <2>9 DEF kept
<1> QED
  BY <1>5, <1>6

\* A round that is not carried is one no later ledger looks at.
LEMMA TrimLosesTheUnreachable ==
    ASSUME NEW rounds, NEW now \in Nat,
           \A t \in Stamps : rounds[t] # None => t <= now,
           NEW t \in Stamps
    PROVE  TrimRounds(rounds)[t] = rounds[t] \/ Unreachable(t, now)
<1> DEFINE known == {u \in Stamps : rounds[u] # None}
           newer == {u \in known : u > t}
<1>1. CASE rounds[t] = None \/ Cardinality(newer) < MaxCarried
  BY <1>1 DEF TrimRounds
<1>2. CASE ~ (Cardinality(newer) < MaxCarried)
  <2>1. Resolution \in Nat \ {0} /\ MaxCarried \in Nat /\ MaxCarried # 0
    <3>1. MaxAge \div Resolution \in Nat
      BY OracleNumbersAssumption, Division
    <3> QED
      BY <3>1, CarryAssumption, OracleNumbersAssumption
  <2>2. PICK a \in Nat \ {0} : t = Resolution * a
    BY StampIs
  <2> DEFINE indexes == {k \in (a + 1)..(a + MaxCarried - 1) : Resolution * k \in newer}
  <2>3. ASSUME ~ Unreachable(t, now)
        PROVE  Cardinality(newer) < MaxCarried
    <3>1. \A u \in newer : \E k \in indexes : u = Resolution * k
      <4> TAKE u \in newer
      <4>1. u \in Stamps /\ u > t /\ u <= now
        OBVIOUS
      <4>2. PICK k \in Nat \ {0} : u = Resolution * k
        BY <4>1, StampIs
      <4>3. t \in Nat /\ u \in Nat
        BY <4>1, StampIs
      <4>4. ~ (k <= a)
        BY <2>1, <2>2, <4>1, <4>2, <4>3, Multiples
      <4>5. ~ (a + MaxCarried <= k)
        <5>1. ~ (Resolution * (a + MaxCarried) <= now)
          <6>1. Resolution * (a + MaxCarried) = t + Resolution * MaxCarried
            BY <2>1, <2>2, Multiples
          <6>2. Resolution * MaxCarried = MaxCarried * Resolution
            BY <2>1
          <6> QED
            BY <2>3, <6>1, <6>2 DEF Unreachable
        <5>2. a + MaxCarried \in Nat /\ Resolution * (a + MaxCarried) \in Nat
          BY <2>1, <2>2, Multiples
        <5>3. ~ (Resolution * (a + MaxCarried) <= Resolution * k)
          BY <4>1, <4>2, <4>3, <5>1, <5>2
        <5> QED
          BY <2>1, <5>2, <5>3, Multiples
      <4>6. k \in (a + 1)..(a + MaxCarried - 1)
        BY <2>1, <4>4, <4>5
      <4> QED
        BY <4>2, <4>6
    <3> DEFINE f == [k \in indexes |-> Resolution * k]
    <3>2. f \in Surjection(indexes, newer)
      <4>1. \A k \in indexes : f[k] \in newer
        OBVIOUS
      <4>2. \A u \in newer : \E k \in indexes : f[k] = u
        BY <3>1
      <4> HIDE DEF newer, indexes
      <4> QED
        BY <4>1, <4>2 DEF Surjection
    <3>3. IsFiniteSet((a + 1)..(a + MaxCarried - 1))
          /\ Cardinality((a + 1)..(a + MaxCarried - 1)) = MaxCarried - 1
      BY <2>1, FS_Interval
    <3>4. IsFiniteSet(indexes) /\ Cardinality(indexes) <= MaxCarried - 1
      BY <3>3, FS_Subset
    <3> HIDE DEF newer, indexes, f
    <3>5. IsFiniteSet(newer) /\ Cardinality(newer) <= Cardinality(indexes)
      BY <3>2, <3>4, FS_Surjection
    <3>6. Cardinality(newer) \in Nat /\ Cardinality(indexes) \in Nat
      BY <3>4, <3>5, FS_CardinalityType
    <3> QED
      BY <2>1, <3>4, <3>5, <3>6
  <2> QED
    BY <1>2, <2>3
<1> QED
  BY <1>1, <1>2

\* Where the walk stops, and where the guard after it does: the margin the
\* comment on maxCarriedRounds computes.
LEMMA WalkIsReachable ==
    ASSUME NEW now \in Nat, NEW t \in Stamps, t >= now - MaxAge
    PROVE  /\ ~ Unreachable(t, now)
           /\ \A u \in Stamps : u < t /\ t - u <= MaxAge => ~ Unreachable(u, now)
<1> DEFINE q == MaxAge \div Resolution
<1>1. /\ Resolution \in Nat \ {0} /\ MaxAge \in Nat /\ q \in Nat
      /\ MaxAge < Resolution * q + Resolution /\ Resolution * q \in Nat
  BY OracleNumbersAssumption, Division, Multiples
<1>2. /\ MaxCarried \in Nat /\ MaxCarried * Resolution \in Nat
      /\ MaxCarried * Resolution >= Resolution * q + Resolution * q + Resolution
  <2>1. MaxCarried \in Nat /\ q + q + 1 <= MaxCarried
    BY <1>1, CarryAssumption
  <2>2. Resolution * (q + q + 1) <= Resolution * MaxCarried
    BY <1>1, <2>1, Multiples
  <2>3. Resolution * (q + q) = Resolution * q + Resolution * q
    BY <1>1, Multiples
  <2>4. q + q \in Nat /\ 1 \in Nat
    BY <1>1
  <2>5. Resolution * (q + q + 1) = Resolution * (q + q) + Resolution * 1
    BY <1>1, <2>4, Multiples
  <2>6. MaxCarried * Resolution = Resolution * MaxCarried /\ Resolution * MaxCarried \in Nat
    BY <1>1, <2>1, Multiples
  <2>7. Resolution * 1 = Resolution
    BY <1>1
  <2> HIDE DEF q
  <2> QED
    BY <1>1, <2>1, <2>2, <2>3, <2>5, <2>6, <2>7
<1>3. t \in Nat
  BY StampIs
<1> HIDE DEF q
<1>4. t > now - Resolution * q - Resolution
  BY <1>1, <1>3
<1>5. ~ Unreachable(t, now)
  BY <1>1, <1>2, <1>3, <1>4 DEF Unreachable
<1>6. ASSUME NEW u \in Stamps, u < t, t - u <= MaxAge
      PROVE  ~ Unreachable(u, now)
  <2>1. PICK k \in 1..(MaxAge \div Resolution) : u = t - Resolution * k
    BY <1>6, OlderStamp
  <2>2. k \in Nat /\ k <= q
    BY <1>1, <2>1 DEF q
  <2>3. Resolution * k <= Resolution * q /\ Resolution * k \in Nat
    BY <1>1, <2>2, Multiples
  <2>4. u \in Nat
    BY StampIs
  <2> QED
    BY <1>1, <1>2, <1>3, <1>4, <2>1, <2>3, <2>4 DEF Unreachable
<1> QED
  BY <1>5, <1>6

-----------------------------------------------------------------------------
(* The price of a feed.                                                    *)

\* What a carried feed keeps of the rounds the feed holds: all of them, but
\* those no later ledger looks at.
FeedFollows(feed, held, now) ==
    IF feed = None THEN held = NoRounds
    ELSE \A t \in Stamps :
            /\ feed.rounds[t] = held[t] \/ Unreachable(t, now)
            /\ feed.rounds[t] # None \/ held[t] # None => t <= feed.last /\ t <= now

\* The quotes of a feed that holds these rounds (Quotes, of any state).
QuotesOf(held, feed, now, agg) ==
    LET priced == {t \in Stamps : Positive(held, feed.index, t)}
    IN  {held[t][feed.index] \div Scale : t \in
            {t \in priced :
                /\ now - t <= MaxAge
                /\ (feed.last - t) % Resolution = 0
                /\ \A u \in priced : u > t => (feed.last - u) % Resolution # 0
                /\ agg.maxDev # 0 =>
                    \E u \in priced :
                        /\ u < t
                        /\ t - u <= MaxAge
                        /\ (t - u) % Resolution = 0
                        /\ \A w \in priced : w > u /\ w < t => (t - w) % Resolution # 0
                        /\ WithinDeviation(held[t][feed.index], held[u][feed.index], agg.maxDev)}}

LEMMA PositiveIs ==
    ASSUME NEW held \in Rounds, NEW i \in FeedIndices, NEW t, Positive(held, i, t)
    PROVE  t \in Stamps /\ held[t][i] \in Nat \ {0}
<1>1. t \in Stamps /\ held[t] # None /\ held[t][i] # None /\ held[t][i] > 0
  BY DEF Positive
<1>2. held[t] \in [FeedIndices -> Prices \cup {None}]
  BY <1>1 DEF Rounds
<1>3. held[t][i] \in Prices
  BY <1>1, <1>2
<1> QED
  BY <1>1, <1>3, OracleNumbersAssumption

\* The walk visits the stamps of the feed that hold a price and are fresh.
LEMMA FreshIs ==
    ASSUME NEW feed \in Feed, NEW held, NEW now \in Nat, FeedFollows(feed, held, now),
           NEW i
    PROVE  Fresh(feed, i, now) = {t \in Stamps : /\ t >= now - MaxAge
                                                 /\ (feed.last - t) % Resolution = 0
                                                 /\ Positive(held, i, t)}
<1>1. \A t \in Stamps : /\ feed.rounds[t] = held[t] \/ Unreachable(t, now)
                        /\ held[t] # None => t <= feed.last
  BY OracleRecordsAssumption DEF FeedFollows
<1>2. \A t \in Stamps : t >= now - MaxAge =>
         /\ Positive(feed.rounds, i, t) <=> Positive(held, i, t)
         /\ Positive(held, i, t) => t <= feed.last
  BY <1>1, WalkIsReachable DEF Positive
<1> HIDE DEF Positive
<1> QED
  BY <1>2 DEF Fresh

\* The guard visits the older ones within the same age.
LEMMA OlderIs ==
    ASSUME NEW feed \in Feed, NEW held, NEW now \in Nat, FeedFollows(feed, held, now),
           NEW i, NEW t \in Stamps, t >= now - MaxAge
    PROVE  Older(feed, i, t) = {u \in Stamps : u < t /\ t - u <= MaxAge /\ Positive(held, i, u)}
<1>1. \A u \in Stamps : feed.rounds[u] = held[u] \/ Unreachable(u, now)
  BY OracleRecordsAssumption DEF FeedFollows
<1>2. ASSUME NEW u \in Stamps, u < t, t - u <= MaxAge
      PROVE  Positive(feed.rounds, i, u) <=> Positive(held, i, u)
  BY <1>1, <1>2, WalkIsReachable DEF Positive
<1>3. \A u : Positive(feed.rounds, i, u) => u \in Stamps
  BY DEF Positive
<1>4. ASSUME NEW k \in 1..(MaxAge \div Resolution), t - Resolution * k \in Stamps
      PROVE  t - Resolution * k < t
  <2>1. /\ Resolution \in Nat \ {0} /\ k \in Nat \ {0}
    BY <1>4, OracleNumbersAssumption, Division
  <2>2. Resolution * 1 <= Resolution * k /\ Resolution * k \in Nat
    BY <2>1, Multiples
  <2>3. t \in Nat
    BY StampIs
  <2> QED
    BY <2>1, <2>2, <2>3
<1>5. ASSUME NEW u
      PROVE  u \in Older(feed, i, t) <=>
                u \in Stamps /\ u < t /\ t - u <= MaxAge /\ Positive(held, i, u)
  <2>1. u \in Older(feed, i, t) <=>
           /\ \E k \in 1..(MaxAge \div Resolution) : u = t - Resolution * k
           /\ Positive(feed.rounds, i, u)
    BY DEF Older
  <2>2. u \in Stamps /\ (\E k \in 1..(MaxAge \div Resolution) : u = t - Resolution * k) => u < t
    BY <1>4
  <2>3. u \in Stamps /\ u < t =>
           (t - u <= MaxAge <=> \E k \in 1..(MaxAge \div Resolution) : u = t - Resolution * k)
    BY OlderStamp
  <2> QED
    BY <1>2, <1>3, <2>1, <2>2, <2>3
<1> QED
  BY <1>5

\* The price the decode resolves is the one quote, or there is none.
LEMMA ServedIsQuoted ==
    ASSUME NEW feed \in Feed, NEW held \in Rounds, NEW now \in Nat, NEW agg \in Aggregator,
           FeedFollows(feed, held, now), feed.index # None
    PROVE  LET served == ResolveFeedPrice(feed, agg, now)
           IN  \/ served = None /\ QuotesOf(held, feed, now, agg) = {}
               \/ served \in Nat /\ QuotesOf(held, feed, now, agg) = {served}
<1> DEFINE i == feed.index
           Has(t) == Positive(held, i, t)
           Grid(t) == (feed.last - t) % Resolution = 0
           fresh == Fresh(feed, i, now)
           m == Max(fresh)
           older == Older(feed, i, m)
           o == Max(older)
           Vouched(t) ==
               \E u \in Stamps :
                   /\ Has(u) /\ u < t /\ t - u <= MaxAge
                   /\ (t - u) % Resolution = 0
                   /\ \A w \in Stamps : Has(w) /\ w > u /\ w < t => (t - w) % Resolution # 0
                   /\ WithinDeviation(held[t][i], held[u][i], agg.maxDev)
           chosen == {t \in Stamps : /\ Has(t) /\ now - t <= MaxAge /\ Grid(t)
                                     /\ \A u \in Stamps : Has(u) /\ u > t => ~ Grid(u)
                                     /\ agg.maxDev # 0 => Vouched(t)}
           served == ResolveFeedPrice(feed, agg, now)
<1>1. i \in FeedIndices /\ feed # None /\ MaxAge \in Nat
  BY OracleRecordsAssumption, OracleNumbersAssumption DEF Feed
<1>2. QuotesOf(held, feed, now, agg) = {held[t][i] \div Scale : t \in chosen}
  BY DEF QuotesOf
<1>3. fresh = {t \in Stamps : t >= now - MaxAge /\ Grid(t) /\ Has(t)}
  BY FreshIs
<1>4. /\ served = IF fresh = {} THEN None
                  ELSE IF agg.maxDev # 0 /\ older = {} THEN None
                  ELSE IF agg.maxDev # 0
                          /\ ~ WithinDeviation(feed.rounds[m][i], feed.rounds[o][i], agg.maxDev)
                       THEN None
                  ELSE feed.rounds[m][i] \div Scale
  BY <1>1 DEF ResolveFeedPrice
<1>5. Stamps \in SUBSET (0..MaxTime) /\ MaxTime \in Nat /\ Stamps \subseteq Nat
  BY StampsFinite, OracleNumbersAssumption
<1>6. \A t \in Stamps : feed.rounds[t] = held[t] \/ Unreachable(t, now)
  BY <1>1 DEF FeedFollows
<1>7. \A t \in Stamps : now - t <= MaxAge <=> t >= now - MaxAge
  BY <1>1, <1>5
<1> HIDE DEF i, Has, Grid, fresh, m, older, o, Vouched, chosen, served
<1>8. CASE fresh = {}
  <2>1. chosen = {}
    BY <1>3, <1>7, <1>8 DEF chosen
  <2> QED
    BY <1>2, <1>4, <1>8, <2>1 DEF served
<1>9. CASE fresh # {}
  <2>1. m \in fresh /\ \A t \in fresh : t <= m
    <3>1. fresh \in SUBSET (0..MaxTime)
      BY <1>3, <1>5
    <3> QED
      BY <1>5, <1>9, <3>1, GreatestOf DEF m
  <2>2. m \in Stamps /\ m >= now - MaxAge /\ Grid(m) /\ Has(m)
    BY <1>3, <2>1
  <2>3. feed.rounds[m] = held[m] /\ held[m][i] \div Scale \in Nat
    <3>1. held[m][i] \in Nat
      BY <1>1, <2>2, PositiveIs DEF Has
    <3> QED
      BY <1>6, <2>2, <3>1, WalkIsReachable, OracleNumbersAssumption, Division
  <2>4. chosen = IF agg.maxDev # 0 => Vouched(m) THEN {m} ELSE {}
    <3>1. \A u \in Stamps : Has(u) /\ u > m => ~ Grid(u)
      <4> SUFFICES ASSUME NEW u \in Stamps, Has(u), u > m, Grid(u)
                   PROVE  FALSE
        OBVIOUS
      <4>1. u >= now - MaxAge
        BY <1>1, <1>5, <2>2
      <4>2. u \in fresh
        BY <1>3, <4>1
      <4> QED
        BY <1>5, <2>1, <2>2, <4>2
    <3>2. \A t \in chosen : t = m
      <4> TAKE t \in chosen
      <4>1. t \in fresh /\ t \in Stamps
        BY <1>3, <1>7 DEF chosen
      <4>2. t <= m
        BY <2>1, <4>1
      <4>3. ~ (m > t)
        BY <2>2 DEF chosen
      <4> QED
        BY <1>5, <2>2, <4>1, <4>2, <4>3
    <3>3. m \in chosen <=> (agg.maxDev # 0 => Vouched(m))
      BY <1>7, <2>2, <3>1 DEF chosen
    <3> QED
      BY <3>2, <3>3
  <2>5. older = {u \in Stamps : u < m /\ m - u <= MaxAge /\ Has(u)}
    BY <2>2, OlderIs DEF older, Has
  <2>6. CASE agg.maxDev = 0
    <3>1. served = held[m][i] \div Scale
      BY <1>4, <1>9, <2>3, <2>6
    <3>2. chosen = {m}
      BY <2>4, <2>6
    <3> QED
      BY <1>2, <2>3, <3>1, <3>2 DEF served
  <2>7. CASE agg.maxDev # 0 /\ older = {}
    <3>1. ~ Vouched(m)
      BY <2>5, <2>7 DEF Vouched
    <3>2. chosen = {}
      BY <2>4, <2>7, <3>1
    <3>3. served = None
      BY <1>4, <1>9, <2>7
    <3> QED
      BY <1>2, <3>2, <3>3 DEF served
  <2>8. CASE agg.maxDev # 0 /\ older # {}
    <3>1. o \in older /\ \A u \in older : u <= o
      <4>1. older \in SUBSET (0..MaxTime)
        BY <1>5, <2>5
      <4> QED
        BY <1>5, <2>8, <4>1, GreatestOf DEF o
    <3>2. o \in Stamps /\ o < m /\ m - o <= MaxAge /\ Has(o)
      BY <2>5, <3>1
    <3>3. feed.rounds[o] = held[o]
      BY <1>6, <2>2, <3>2, WalkIsReachable
    <3>4. \A u \in Stamps : u < m => (m - u) % Resolution = 0
      BY <2>2, OlderStamp
    <3>5. Vouched(m) <=> WithinDeviation(held[m][i], held[o][i], agg.maxDev)
      <4>1. ASSUME NEW u \in Stamps, Has(u), u < m, m - u <= MaxAge,
                   \A w \in Stamps : Has(w) /\ w > u /\ w < m => (m - w) % Resolution # 0
            PROVE  u = o
        <5>1. u <= o
          BY <2>5, <3>1, <4>1
        <5>2. ~ (o > u)
          BY <3>2, <3>4, <4>1
        <5> QED
          BY <1>5, <3>2, <5>1, <5>2
      <4>2. ASSUME NEW w \in Stamps, Has(w), w > o, w < m
            PROVE  FALSE
        <5>1. m - w <= MaxAge
          BY <1>1, <1>5, <2>2, <3>2, <4>2
        <5>2. w \in older
          BY <2>5, <4>2, <5>1
        <5> QED
          BY <1>5, <3>1, <3>2, <4>2, <5>2
      <4> QED
        BY <3>2, <3>4, <4>1, <4>2 DEF Vouched
    <3>6. CASE Vouched(m)
      <4>1. served = held[m][i] \div Scale
        BY <1>4, <1>9, <2>3, <2>8, <3>3, <3>5, <3>6
      <4>2. chosen = {m}
        BY <2>4, <3>6
      <4> QED
        BY <1>2, <2>3, <4>1, <4>2 DEF served
    <3>7. CASE ~ Vouched(m)
      <4>1. served = None
        BY <1>4, <1>9, <2>3, <2>8, <3>3, <3>5, <3>7
      <4>2. chosen = {}
        BY <2>4, <2>8, <3>7
      <4> QED
        BY <1>2, <4>1, <4>2 DEF served
    <3> QED
      BY <3>6, <3>7
  <2> QED
    BY <2>6, <2>7, <2>8
<1> QED
  BY <1>8, <1>9

-----------------------------------------------------------------------------
(* The invariant.                                                          *)

Lists(oracle) == oracle # None /\ oracle.index # None

\* Two states of an oracle a pool prices its asset alike with.
SameAnswer(x, y) ==
    \/ ~Lists(x) /\ ~Lists(y)
    \/ Lists(x) /\ Lists(y) /\ x.index = y.index /\ x.prices[x.index] = y.prices[x.index]

\* A mock oracle writes its prices itself; those of an aggregator are written
\* at the end of a ledger, and gone at the start of the next.
MocksSpeak(m) ==
    \A o \in Mocks : m.oracles[o] # None => ~m.oracles[o].synthesized
AggregatorsSilent(m) == \A a \in Aggregators : m.oracles[a] = None

\* No pool is known by a price of zero.
PricesPositive(m) == \A p \in Pools : m.pools[p] # None => m.pools[p].price # 0

Authors ==
    /\ PricesPositive(mirror)
    /\ MocksSpeak(mirror) /\ MocksSpeak(committed)
    /\ phase = "applying" => AggregatorsSilent(mirror)
    /\ \A a \in Aggregators : committed.oracles[a] # None =>
          committed.aggregators[a] # None /\ committed.oracles[a].synthesized

IdleSettled ==
    phase = "idle" =>
        mirror = committed /\ ~feedChanged /\ ~priceChanged /\ ~reconfigured

\* What a ledger has left as it was, going by what it recorded.
Unmoved(m, before, fed, priced) ==
    /\ m.pools = before.pools
    /\ m.aggregators = before.aggregators
    /\ fed \/ m.feed = before.feed
    /\ priced \/ \A o \in Mocks : SameAnswer(m.oracles[o], before.oracles[o])

IInv ==
    /\ OracleTypeOK
    /\ FeedFollows(mirror.feed, full, close)
    /\ Authors
    /\ IdleSettled
    /\ phase = "applying" /\ ~reconfigured => Unmoved(mirror, committed, feedChanged, priceChanged)
    /\ PriceIsTheAggregators

LEMMA InitIInv == Init => IInv
<1> SUFFICES ASSUME Init
             PROVE  IInv
  OBVIOUS
<1>1. Nothing \in Carried /\ NoRounds \in Rounds
  BY DEF Nothing, NoRounds, Carried, Rounds
<1>2. 0 \in 0..MaxTime /\ 0 \in 0..MaxChanges
  BY OracleNumbersAssumption DEF MaxChanges
<1>3. OracleTypeOK
  BY <1>1, <1>2 DEF Init, OracleTypeOK, Nothing
<1>4. /\ mirror = Nothing /\ committed = Nothing /\ phase = "idle" /\ full = NoRounds
      /\ ~feedChanged /\ ~priceChanged /\ ~reconfigured
      /\ Nothing.feed = None /\ \A o \in Oracles : Nothing.oracles[o] = None
      /\ \A p \in Pools : Nothing.pools[p] = None
  BY DEF Init, Nothing
<1>5. FeedFollows(mirror.feed, full, close) /\ Authors /\ IdleSettled /\ phase # "applying"
  BY <1>4 DEF FeedFollows, Authors, MocksSpeak, PricesPositive, IdleSettled, Oracles
<1>6. PriceIsTheAggregators
  BY DEF Init, PriceIsTheAggregators, Nothing
<1> QED
  BY <1>3, <1>5, <1>6 DEF IInv

-----------------------------------------------------------------------------
(* Rounds written and lost.                                                *)

LEMMA SetRoundIs ==
    ASSUME NEW rounds \in Rounds, NEW t \in Stamps,
           NEW batch \in [FeedIndices -> Prices \cup {None}]
    PROVE  /\ SetRound(rounds, t, batch) \in Rounds
           /\ \A u \in Stamps : u # t => SetRound(rounds, t, batch)[u] = rounds[u]
           /\ \A held \in Rounds : held[t] = rounds[t] =>
                 SetRound(rounds, t, batch)[t] = SetRound(held, t, batch)[t]
<1> DEFINE was(r) == IF r[t] = None THEN [i \in FeedIndices |-> None] ELSE r[t]
           set(r) == [i \in FeedIndices |-> IF batch[i] = None THEN was(r)[i] ELSE batch[i]]
<1>1. \A r \in Rounds : was(r) \in [FeedIndices -> Prices \cup {None}]
  BY DEF Rounds
<1>2. \A r \in Rounds : set(r) \in [FeedIndices -> Prices \cup {None}]
  <2> TAKE r \in Rounds
  <2>1. was(r) \in [FeedIndices -> Prices \cup {None}]
    BY <1>1
  <2> HIDE DEF was
  <2> QED
    BY <2>1
<1>3. \A r : SetRound(r, t, batch) = [r EXCEPT ![t] = set(r)]
  BY DEF SetRound
<1>4. \A r \in Rounds : r[t] = rounds[t] => set(r) = set(rounds)
  OBVIOUS
<1> HIDE DEF set
<1> QED
  BY <1>2, <1>3, <1>4 DEF Rounds

LEMMA DropsAre ==
    ASSUME NEW rounds \in Rounds, NEW t \in Stamps, NEW i \in FeedIndices
    PROVE  /\ DropRound(rounds, t) \in Rounds /\ DropPrice(rounds, t, i) \in Rounds
           /\ \A u \in Stamps : u # t => /\ DropRound(rounds, t)[u] = rounds[u]
                                         /\ DropPrice(rounds, t, i)[u] = rounds[u]
           /\ DropRound(rounds, t)[t] = None
           /\ rounds[t] = None => DropPrice(rounds, t, i)[t] = None
           /\ \A held \in Rounds : held[t] = rounds[t] =>
                 DropPrice(rounds, t, i)[t] = DropPrice(held, t, i)[t]
<1> DEFINE left(r) == [r[t] EXCEPT ![i] = None]
           after(r) == IF \A j \in FeedIndices : left(r)[j] = None THEN None ELSE left(r)
<1>1. \A r \in Rounds : r[t] # None => left(r) \in [FeedIndices -> Prices \cup {None}]
  BY DEF Rounds
<1>2. \A r : DropPrice(r, t, i) = IF r[t] = None THEN r ELSE [r EXCEPT ![t] = after(r)]
  BY DEF DropPrice
<1>3. \A r \in Rounds : r[t] = rounds[t] => after(r) = after(rounds)
  OBVIOUS
<1>4. \A r \in Rounds : r[t] # None =>
         after(r) \in {None} \cup [FeedIndices -> Prices \cup {None}]
  BY <1>1
<1> HIDE DEF after
<1>5. DropRound(rounds, t) \in Rounds /\ DropRound(rounds, t)[t] = None
      /\ \A u \in Stamps : u # t => DropRound(rounds, t)[u] = rounds[u]
  BY DEF DropRound, Rounds
<1>6. DropPrice(rounds, t, i) \in Rounds
      /\ \A u \in Stamps : u # t => DropPrice(rounds, t, i)[u] = rounds[u]
  BY <1>2, <1>4 DEF Rounds
<1>7. \A r \in Rounds : DropPrice(r, t, i)[t] = IF r[t] = None THEN None ELSE after(r)
  BY <1>2 DEF Rounds
<1> QED
  BY <1>3, <1>5, <1>6, <1>7

LEMMA LastIsNat == \A feed \in Feed : feed.last \in Nat
<1>1. \A x \in {0} \cup Stamps : x \in Nat
  BY StampsFinite
<1>2. \A feed \in Feed : feed.last \in {0} \cup Stamps
  BY DEF Feed
<1> QED
  BY <1>1, <1>2

\* A feed that moves as the rounds it holds do goes on following them.
LEMMA FeedMoves ==
    ASSUME NEW feed \in Feed, NEW held, NEW now, FeedFollows(feed, held, now),
           NEW next \in Feed, NEW said, next.last >= feed.last,
           \A u \in Stamps :
              /\ feed.rounds[u] = held[u] => next.rounds[u] = said[u]
              /\ next.rounds[u] # None \/ said[u] # None =>
                    \/ feed.rounds[u] # None \/ held[u] # None
                    \/ u <= next.last /\ u <= now
    PROVE  FeedFollows(next, said, now)
<1>1. feed # None /\ next # None
  BY OracleRecordsAssumption
<1>2. feed.last \in Nat /\ next.last \in Nat /\ Stamps \subseteq Nat
  BY LastIsNat, StampsFinite
<1>3. ASSUME NEW u \in Stamps
      PROVE  /\ next.rounds[u] = said[u] \/ Unreachable(u, now)
             /\ next.rounds[u] # None \/ said[u] # None => u <= next.last /\ u <= now
  <2>1. /\ feed.rounds[u] = held[u] \/ Unreachable(u, now)
        /\ feed.rounds[u] # None \/ held[u] # None => u <= feed.last /\ u <= now
    BY <1>1 DEF FeedFollows
  <2>2. u \in Nat
    BY <1>2
  <2> QED
    BY <1>2, <2>1, <2>2
<1> QED
  BY <1>1, <1>3 DEF FeedFollows

LEMMA EnsureFeedFollows ==
    ASSUME NEW m \in Carried, NEW held, NEW now, FeedFollows(m.feed, held, now)
    PROVE  EnsureFeed(m) \in Feed /\ FeedFollows(EnsureFeed(m), held, now)
<1>1. CASE m.feed = None
  <2>1. NewFeed \in Feed /\ NewFeed # None
    BY OracleRecordsAssumption DEF NewFeed, Feed, Rounds, NoRounds
  <2>2. held = NoRounds /\ NewFeed.rounds = NoRounds /\ \A t \in Stamps : NoRounds[t] = None
    BY <1>1 DEF FeedFollows, NewFeed, NoRounds
  <2> QED
    BY <1>1, <2>1, <2>2 DEF EnsureFeed, FeedFollows
<1>2. CASE m.feed # None
  BY <1>2 DEF EnsureFeed, Carried
<1> QED
  BY <1>1, <1>2

LEMMA FeedFollowsLater ==
    ASSUME NEW feed, NEW held, NEW now \in Nat, FeedFollows(feed, held, now),
           NEW later \in Nat, now <= later
    PROVE  FeedFollows(feed, held, later)
<1>1. Stamps \subseteq Nat /\ MaxCarried \in Nat /\ Resolution \in Nat
  BY StampsFinite, CarryAssumption, OracleNumbersAssumption
<1>2. MaxCarried * Resolution \in Nat
  BY <1>1
<1>3. \A t \in Stamps : Unreachable(t, now) => Unreachable(t, later)
  <2> DEFINE margin == MaxCarried * Resolution
  <2> HIDE DEF margin
  <2>1. margin \in Nat
    BY <1>2 DEF margin
  <2>2. \A t \in Nat : t + margin <= now => t + margin <= later
    BY <2>1
  <2> QED
    BY <1>1, <2>2 DEF Unreachable, margin
<1>4. \A t \in Stamps : t <= now => t <= later
  BY <1>1
<1> QED
  BY <1>3, <1>4 DEF FeedFollows

LEMMA FeedFollowsTrimmed ==
    ASSUME NEW feed \in Feed, NEW held, NEW now \in Nat, FeedFollows(feed, held, now)
    PROVE  LET trimmed == [feed EXCEPT !.rounds = TrimRounds(feed.rounds)]
           IN  trimmed \in Feed /\ FeedFollows(trimmed, held, now)
<1> DEFINE trimmed == [feed EXCEPT !.rounds = TrimRounds(feed.rounds)]
<1>1. TrimRounds(feed.rounds) \in Rounds
  BY DEF TrimRounds, Rounds, Feed
<1>2. /\ trimmed \in Feed /\ trimmed # None /\ feed # None
      /\ trimmed.last = feed.last /\ trimmed.rounds = TrimRounds(feed.rounds)
  BY <1>1, OracleRecordsAssumption DEF Feed
<1>3. \A t \in Stamps : TrimRounds(feed.rounds)[t] \in {None, feed.rounds[t]}
  BY DEF TrimRounds
<1>4. \A t \in Stamps : TrimRounds(feed.rounds)[t] = feed.rounds[t] \/ Unreachable(t, now)
  BY <1>2, TrimLosesTheUnreachable DEF FeedFollows
<1> HIDE DEF trimmed
<1>5. FeedFollows(trimmed, held, now)
  BY <1>2, <1>3, <1>4 DEF FeedFollows
<1> QED
  BY <1>2, <1>5 DEF trimmed

-----------------------------------------------------------------------------
(* The changes of a ledger.                                                *)

\* A change that leaves the mirror well-typed and following its feed, every
\* price with its author, and what it did not record where it was.
LEMMA ChangeKeeps ==
    ASSUME IInv, NEW next \in Carried, Apply(next),
           full' \in Rounds, FeedFollows(next.feed, full', close),
           MocksSpeak(next), AggregatorsSilent(next), PricesPositive(next),
           {feedChanged', priceChanged', reconfigured'} \subseteq BOOLEAN,
           ~reconfigured' => Unmoved(next, committed, feedChanged', priceChanged')
    PROVE  IInv'
<1>1. /\ phase = "applying" /\ phase' = phase /\ scope' = scope /\ mirror' = next
      /\ committed' = committed /\ close' = close /\ applied < MaxChanges /\ applied' = applied + 1
  BY DEF Apply
<1>2. OracleTypeOK /\ Authors
  BY DEF IInv
<1>3. MaxChanges \in Nat /\ MaxChanges' = MaxChanges
  BY <1>1, OracleNumbersAssumption DEF MaxChanges
<1>4. applied' \in 0..MaxChanges'
  <2>1. applied \in 0..MaxChanges
    BY <1>2 DEF OracleTypeOK
  <2> QED
    BY <1>1, <1>3, <2>1
<1>5. OracleTypeOK'
  BY <1>1, <1>2, <1>4 DEF OracleTypeOK
<1>6. Authors' /\ IdleSettled' /\ PriceIsTheAggregators'
  BY <1>1, <1>2 DEF Authors, IdleSettled, PriceIsTheAggregators
<1>7. FeedFollows(mirror.feed, full, close)'
  BY <1>1
<1>8. (phase = "applying" /\ ~reconfigured => Unmoved(mirror, committed, feedChanged, priceChanged))'
  BY <1>1 DEF Unmoved
<1> QED
  BY <1>5, <1>6, <1>7, <1>8 DEF IInv

LEMMA ApplyingFacts ==
    ASSUME IInv, phase = "applying"
    PROVE  /\ mirror \in Carried /\ full \in Rounds /\ close \in Nat
           /\ FeedFollows(mirror.feed, full, close)
           /\ MocksSpeak(mirror) /\ AggregatorsSilent(mirror) /\ PricesPositive(mirror)
           /\ {feedChanged, priceChanged, reconfigured} \subseteq BOOLEAN
           /\ ~reconfigured => Unmoved(mirror, committed, feedChanged, priceChanged)
<1>1. close \in 0..MaxTime /\ MaxTime \in Nat
  BY OracleNumbersAssumption DEF IInv, OracleTypeOK
<1>2. close \in Nat
  BY <1>1
<1> QED
  BY <1>2 DEF IInv, OracleTypeOK, Authors

\* A change of the feed, told, that goes on following what the feed holds.
LEMMA FeedStep ==
    ASSUME IInv, NEW feed \in Feed \cup {None}, Apply([mirror EXCEPT !.feed = feed]),
           full' \in Rounds, FeedFollows(feed, full', close),
           FeedTold, reconfigured' \in {TRUE, reconfigured}
    PROVE  IInv'
<1> DEFINE next == [mirror EXCEPT !.feed = feed]
<1>1. phase = "applying"
  BY DEF Apply
<1>2. /\ mirror \in Carried /\ MocksSpeak(mirror) /\ AggregatorsSilent(mirror)
      /\ PricesPositive(mirror)
      /\ {feedChanged, priceChanged, reconfigured} \subseteq BOOLEAN
      /\ ~reconfigured => Unmoved(mirror, committed, feedChanged, priceChanged)
  BY <1>1, ApplyingFacts
<1>3. /\ next \in Carried /\ next.feed = feed /\ next.pools = mirror.pools
      /\ next.aggregators = mirror.aggregators /\ next.oracles = mirror.oracles
  BY <1>2 DEF Carried
<1>4. Apply(next) /\ committed' = committed
  BY DEF Apply
<1> HIDE DEF next
<1>5. MocksSpeak(next) /\ AggregatorsSilent(next) /\ PricesPositive(next)
  BY <1>2, <1>3 DEF MocksSpeak, AggregatorsSilent, PricesPositive
<1>6. feedChanged' = TRUE /\ priceChanged' = priceChanged
  BY DEF FeedTold
<1>7. {feedChanged', priceChanged', reconfigured'} \subseteq BOOLEAN
  BY <1>2, <1>6
<1>8. ~reconfigured' => Unmoved(next, committed, feedChanged', priceChanged')
  <2> SUFFICES ASSUME ~reconfigured'
               PROVE  Unmoved(next, committed, feedChanged', priceChanged')
    OBVIOUS
  <2>1. Unmoved(mirror, committed, feedChanged, priceChanged)
    BY <1>2
  <2> QED
    BY <1>3, <1>4, <1>6, <2>1 DEF Unmoved
<1> QED
  BY <1>3, <1>4, <1>5, <1>7, <1>8, ChangeKeeps

\* Rounds of a feed that is there replaced as those it holds are.
LEMMA LoseStep ==
    ASSUME IInv, NEW lost, NEW left \in Rounds,
           LoseRounds(lost), full' = left, FeedTold, UNCHANGED reconfigured,
           mirror.feed = None => left = NoRounds,
           mirror.feed # None => lost \in Rounds,
           mirror.feed # None =>
              \A u \in Stamps :
                 /\ mirror.feed.rounds[u] = full[u] => lost[u] = left[u]
                 /\ lost[u] # None => mirror.feed.rounds[u] # None
                 /\ left[u] # None => full[u] # None
    PROVE  IInv'
<1>1. phase = "applying"
  BY DEF LoseRounds, Apply
<1>2. mirror \in Carried /\ full \in Rounds /\ close \in Nat
      /\ FeedFollows(mirror.feed, full, close)
  BY <1>1, ApplyingFacts
<1>3. CASE mirror.feed = None
  <2>1. [mirror EXCEPT !.feed = None] = mirror
    BY <1>2, <1>3 DEF Carried
  <2>2. Apply([mirror EXCEPT !.feed = None])
    BY <1>3, <2>1 DEF LoseRounds
  <2>3. FeedFollows(None, left, close)
    BY <1>3 DEF FeedFollows
  <2> QED
    BY <2>2, <2>3, FeedStep
<1>4. CASE mirror.feed # None
  <2> DEFINE feed == [mirror.feed EXCEPT !.rounds = lost]
  <2>1. mirror.feed \in Feed
    BY <1>2, <1>4 DEF Carried
  <2>2. feed \in Feed /\ feed.last = mirror.feed.last /\ feed.rounds = lost
    BY <1>4, <2>1 DEF Feed
  <2>3. Apply([mirror EXCEPT !.feed = feed])
    <3>1. [mirror EXCEPT !.feed.rounds = lost] = [mirror EXCEPT !.feed = feed]
      OBVIOUS
    <3> QED
      BY <1>4, <3>1 DEF LoseRounds
  <2> HIDE DEF feed
  <2>4. feed.last >= mirror.feed.last
    BY <2>1, <2>2, LastIsNat
  <2>5. FeedFollows(feed, left, close)
    BY <1>2, <1>4, <2>1, <2>2, <2>4, FeedMoves
  <2> QED
    BY <2>2, <2>3, <2>5, FeedStep
<1> QED
  BY <1>3, <1>4

LEMMA FeedChangeStep ==
    ASSUME IInv, FeedChange
    PROVE  IInv'
<1> DEFINE Batches == [FeedIndices -> Prices \cup {None}]
<1>1. phase = "applying"
  BY DEF FeedChange, RoundWritten, FeedInstanceWritten, RoundLapsed, PriceLapsed,
         FeedInstanceLapsed, LoseRounds, Apply
<1>2. /\ mirror \in Carried /\ full \in Rounds /\ close \in Nat
      /\ FeedFollows(mirror.feed, full, close)
      /\ EnsureFeed(mirror) \in Feed /\ FeedFollows(EnsureFeed(mirror), full, close)
  <2>1. /\ mirror \in Carried /\ full \in Rounds /\ close \in Nat
        /\ FeedFollows(mirror.feed, full, close)
    BY <1>1, ApplyingFacts
  <2> QED
    BY <2>1, EnsureFeedFollows
<1>3. Stamps \subseteq Nat /\ EnsureFeed(mirror).last \in Nat /\ EnsureFeed(mirror).rounds \in Rounds
  BY <1>2, StampsFinite, LastIsNat DEF Feed
<1>4. ASSUME NEW t \in Stamps, NEW batch \in Batches, RoundWritten(t, batch)
      PROVE  IInv'
  <2> DEFINE was == EnsureFeed(mirror)
             said == SetRound(full, t, batch)
             rounds == SetRound(was.rounds, t, batch)
             last == Later(t, was.last)
             feed == [was EXCEPT !.last = last, !.rounds = rounds]
  <2>1. last \in {0} \cup Stamps /\ last >= was.last /\ last >= t
    <3>1. was.last \in {0} \cup Stamps
      BY <1>2 DEF Feed
    <3> HIDE DEF was
    <3> QED
      BY <1>3, <3>1 DEF Later, was
  <2>2. /\ rounds \in Rounds /\ said \in Rounds
        /\ \A u \in Stamps : u # t => rounds[u] = was.rounds[u] /\ said[u] = full[u]
        /\ full[t] = was.rounds[t] => rounds[t] = said[t]
    BY <1>2, <1>3, <1>4, SetRoundIs
  <2>3. feed \in Feed /\ feed.last = last /\ feed.rounds = rounds
    <3>1. was \in Feed
      BY <1>2
    <3> HIDE DEF was, last, rounds
    <3> QED
      BY <2>1, <2>2, <3>1 DEF Feed
  <2>4. /\ t <= close /\ Apply([mirror EXCEPT !.feed = feed]) /\ full' = said
        /\ FeedTold /\ UNCHANGED reconfigured
    BY <1>4 DEF RoundWritten, FeedRound
  <2> HIDE DEF feed, said, rounds, last
  <2>5. FeedFollows(feed, said, close)
    <3>1. \A u \in Stamps :
              /\ was.rounds[u] = full[u] => feed.rounds[u] = said[u]
              /\ feed.rounds[u] # None \/ said[u] # None =>
                    \/ was.rounds[u] # None \/ full[u] # None
                    \/ u <= feed.last /\ u <= close
      BY <2>1, <2>2, <2>3, <2>4
    <3> HIDE DEF was
    <3>2. was \in Feed /\ FeedFollows(was, full, close)
      BY <1>2 DEF was
    <3> QED
      BY <2>1, <2>3, <3>1, <3>2, FeedMoves
  <2> QED
    BY <2>2, <2>3, <2>4, <2>5, FeedStep
<1>5. ASSUME NEW index \in FeedIndices \cup {None}, NEW last \in Stamps,
             NEW cached \in {{}} \cup {{t} : t \in Stamps}, NEW batch \in Batches,
             FeedInstanceWritten(index, last, cached, batch)
      PROVE  IInv'
  <2> DEFINE was == EnsureFeed(mirror)
             Set(r) == [t \in Stamps |-> IF t \in cached THEN SetRound(r, t, batch)[t] ELSE r[t]]
             said == Set(full)
             rounds == Set(was.rounds)
             newest == Max({was.last, last} \cup cached)
             feed == [last |-> newest, index |-> index, rounds |-> rounds]
  <2>1. newest \in {0} \cup Stamps /\ newest >= was.last /\ \A t \in cached : newest >= t
    <3>1. was.last \in {0} \cup Stamps /\ cached \subseteq Stamps
      BY <1>2 DEF Feed
    <3>2. MaxTime \in Nat /\ {0} \cup Stamps \in SUBSET (0..MaxTime)
      <4>1. MaxTime \in Nat /\ Stamps \in SUBSET (0..MaxTime)
        BY StampsFinite, OracleNumbersAssumption
      <4> QED
        BY <4>1
    <3> DEFINE S == {was.last, last} \cup cached
    <3> HIDE DEF was
    <3>3. S \in SUBSET (0..MaxTime) /\ S \subseteq {0} \cup Stamps /\ S # {}
      BY <3>1, <3>2
    <3>4. was.last \in S /\ \A t \in cached : t \in S
      OBVIOUS
    <3> HIDE DEF S
    <3>5. Max(S) \in S /\ \A x \in S : x <= Max(S)
      BY <3>2, <3>3, GreatestOf
    <3>6. \A x \in S : x \in Nat
      BY <1>3, <3>3
    <3> QED
      BY <3>3, <3>4, <3>5, <3>6 DEF S
  <2>2. \A r \in Rounds : Set(r) \in Rounds
    <3> SUFFICES ASSUME NEW r \in Rounds
                 PROVE  Set(r) \in Rounds
      OBVIOUS
    <3>1. \A t \in Stamps : SetRound(r, t, batch)[t] \in {None} \cup Batches
      BY <1>5, SetRoundIs DEF Rounds
    <3>2. \A t \in Stamps : r[t] \in {None} \cup Batches
      BY DEF Rounds
    <3> QED
      BY <3>1, <3>2 DEF Rounds
  <2>3. /\ \A u \in Stamps : u \notin cached => rounds[u] = was.rounds[u] /\ said[u] = full[u]
        /\ \A u \in cached : full[u] = was.rounds[u] => rounds[u] = said[u]
    <3>1. cached \subseteq Stamps
      OBVIOUS
    <3> QED
      BY <1>2, <1>3, <1>5, <3>1, SetRoundIs
  <2>4. feed \in Feed /\ feed.last = newest /\ feed.rounds = rounds
    <3>1. rounds \in Rounds
      BY <1>3, <2>2
    <3> HIDE DEF newest, rounds
    <3> QED
      BY <2>1, <3>1 DEF Feed
  <2>5. /\ \A t \in cached : t <= close
        /\ Apply([mirror EXCEPT !.feed = feed]) /\ full' = said
        /\ FeedTold /\ reconfigured' = TRUE
    BY <1>5 DEF FeedInstanceWritten, FeedInstance
  <2>6. said \in Rounds
    BY <1>2, <2>2
  <2> HIDE DEF feed, said, rounds, newest
  <2>7. FeedFollows(feed, said, close)
    <3>1. \A u \in Stamps :
              /\ was.rounds[u] = full[u] => feed.rounds[u] = said[u]
              /\ feed.rounds[u] # None \/ said[u] # None =>
                    \/ was.rounds[u] # None \/ full[u] # None
                    \/ u <= feed.last /\ u <= close
      BY <2>1, <2>3, <2>4, <2>5
    <3> HIDE DEF was
    <3>2. was \in Feed /\ FeedFollows(was, full, close)
      BY <1>2 DEF was
    <3> QED
      BY <2>1, <2>4, <3>1, <3>2, FeedMoves
  <2> QED
    BY <2>4, <2>5, <2>6, <2>7, FeedStep
<1>6. /\ mirror.feed = None => full = NoRounds
      /\ mirror.feed # None => mirror.feed.rounds \in Rounds
  BY <1>2 DEF FeedFollows, Carried, Feed
<1>7. \A t \in Stamps, i \in FeedIndices : DropPrice(NoRounds, t, i) = NoRounds
  BY DEF DropPrice, NoRounds
<1>8. ASSUME NEW t \in Stamps, RoundLapsed(t)
      PROVE  IInv'
  <2> DEFINE lost == DropRound(mirror.feed.rounds, t)
             left == DropRound(full, t)
  <2>1. LoseRounds(lost) /\ full' = left /\ FeedTold /\ UNCHANGED reconfigured
    BY <1>8 DEF RoundLapsed
  <2>2. left \in Rounds /\ (mirror.feed = None => left = NoRounds)
    BY <1>2, <1>6, <1>8 DEF DropRound, NoRounds, Rounds
  <2>3. ASSUME mirror.feed # None
        PROVE  /\ lost \in Rounds
               /\ \A u \in Stamps :
                     /\ mirror.feed.rounds[u] = full[u] => lost[u] = left[u]
                     /\ lost[u] # None => mirror.feed.rounds[u] # None
                     /\ left[u] # None => full[u] # None
    BY <1>2, <1>6, <1>8, <2>3 DEF DropRound, Rounds
  <2> HIDE DEF lost, left
  <2> QED
    BY <2>1, <2>2, <2>3, LoseStep
<1>9. ASSUME NEW t \in Stamps, NEW i \in FeedIndices, PriceLapsed(t, i)
      PROVE  IInv'
  <2> DEFINE lost == DropPrice(mirror.feed.rounds, t, i)
             left == DropPrice(full, t, i)
  <2>1. LoseRounds(lost) /\ full' = left /\ FeedTold /\ UNCHANGED reconfigured
    BY <1>9 DEF PriceLapsed
  <2>2. left \in Rounds /\ (mirror.feed = None => left = NoRounds)
    BY <1>2, <1>6, <1>7, <1>9, DropsAre
  <2>3. ASSUME mirror.feed # None
        PROVE  /\ lost \in Rounds
               /\ \A u \in Stamps :
                     /\ mirror.feed.rounds[u] = full[u] => lost[u] = left[u]
                     /\ lost[u] # None => mirror.feed.rounds[u] # None
                     /\ left[u] # None => full[u] # None
    <3> DEFINE r == mirror.feed.rounds
    <3>1. r \in Rounds /\ full \in Rounds
      BY <1>2, <1>6, <2>3
    <3> HIDE DEF r
    <3>2. /\ DropPrice(r, t, i) \in Rounds
          /\ \A u \in Stamps : u # t => /\ DropPrice(r, t, i)[u] = r[u]
                                        /\ DropPrice(full, t, i)[u] = full[u]
          /\ r[t] = None => DropPrice(r, t, i)[t] = None
          /\ full[t] = None => DropPrice(full, t, i)[t] = None
          /\ r[t] = full[t] => DropPrice(r, t, i)[t] = DropPrice(full, t, i)[t]
      BY <1>9, <3>1, DropsAre
    <3> QED
      BY <3>2 DEF r
  <2> HIDE DEF lost, left
  <2> QED
    BY <2>1, <2>2, <2>3, LoseStep
<1>10. ASSUME FeedInstanceLapsed
       PROVE  IInv'
  <2>1. NoRounds \in Rounds /\ FeedFollows(None, NoRounds, close)
    BY DEF NoRounds, Rounds, FeedFollows
  <2> QED
    BY <1>10, <2>1, FeedStep DEF FeedInstanceLapsed
<1> QED
  BY <1>4, <1>5, <1>8, <1>9, <1>10 DEF FeedChange

\* A configuration changes, and with it neither feed nor price.
LEMMA WiringStep ==
    ASSUME IInv, NEW next \in Carried, Apply(next), Quiet, reconfigured' = TRUE,
           next.feed = mirror.feed, MocksSpeak(next), AggregatorsSilent(next), PricesPositive(next)
    PROVE  IInv'
<1>1. phase = "applying"
  BY DEF Apply
<1>2. /\ full \in Rounds /\ FeedFollows(mirror.feed, full, close)
      /\ {feedChanged, priceChanged, reconfigured} \subseteq BOOLEAN
  BY <1>1, ApplyingFacts
<1>3. full' = full /\ feedChanged' = feedChanged /\ priceChanged' = priceChanged
  BY DEF Quiet
<1> QED
  BY <1>2, <1>3, ChangeKeeps

LEMMA WiringChangeStep ==
    ASSUME IInv, WiringChange
    PROVE  IInv'
<1>1. phase = "applying"
  BY DEF WiringChange, AggregatorWritten, AggregatorDeleted, PoolWritten, PoolDeleted, Apply
<1>2. /\ mirror \in Carried /\ MocksSpeak(mirror) /\ AggregatorsSilent(mirror)
      /\ PricesPositive(mirror)
  BY <1>1, ApplyingFacts
<1>3. ASSUME NEW a \in Aggregators, NEW v \in {None} \cup Aggregator,
             Apply([mirror EXCEPT !.aggregators[a] = v]), Quiet, reconfigured' = TRUE
      PROVE  IInv'
  <2> DEFINE next == [mirror EXCEPT !.aggregators[a] = v]
  <2>1. /\ next \in Carried /\ next.feed = mirror.feed /\ next.oracles = mirror.oracles
        /\ next.pools = mirror.pools
    BY <1>2 DEF Carried
  <2>2. Apply(next)
    BY <1>3
  <2> HIDE DEF next
  <2>3. MocksSpeak(next) /\ AggregatorsSilent(next) /\ PricesPositive(next)
    BY <1>2, <2>1 DEF MocksSpeak, AggregatorsSilent, PricesPositive
  <2> QED
    BY <1>3, <2>1, <2>2, <2>3, WiringStep
<1>4. ASSUME NEW p \in Pools, NEW pool \in {None} \cup Pool, pool # None => pool.price # 0,
             Apply([mirror EXCEPT !.pools[p] = pool]), Quiet, reconfigured' = TRUE
      PROVE  IInv'
  <2> DEFINE next == [mirror EXCEPT !.pools[p] = pool]
  <2>1. /\ next \in Carried /\ next.feed = mirror.feed /\ next.oracles = mirror.oracles
        /\ \A q \in Pools : next.pools[q] = IF q = p THEN pool ELSE mirror.pools[q]
    BY <1>2 DEF Carried
  <2>2. Apply(next)
    BY <1>4
  <2> HIDE DEF next
  <2>3. MocksSpeak(next) /\ AggregatorsSilent(next) /\ PricesPositive(next)
    BY <1>2, <1>4, <2>1 DEF MocksSpeak, AggregatorsSilent, PricesPositive
  <2> QED
    BY <1>4, <2>1, <2>2, <2>3, WiringStep
<1>5. ASSUME NEW a \in Aggregators, NEW serves \in {"feed", "one", "nothing"},
             NEW maxDev \in Deviations, AggregatorWritten(a, serves, maxDev)
      PROVE  IInv'
  <2>1. [serves |-> serves, maxDev |-> maxDev] \in Aggregator
    BY DEF Aggregator
  <2> QED
    BY <1>3, <1>5, <2>1 DEF AggregatorWritten
<1>6. ASSUME NEW p \in Pools, NEW o \in Oracles, PoolWritten(p, o)
      PROVE  IInv'
  <2> DEFINE pool == [oracle |-> o, price |-> IF mirror.pools[p] = None THEN None
                                              ELSE mirror.pools[p].price]
  <2>1. pool \in Pool /\ pool.price # 0
    BY <1>2, OracleNamesAssumption DEF Pool, Carried, PricesPositive
  <2>2. Apply([mirror EXCEPT !.pools[p] = pool]) /\ Quiet /\ reconfigured' = TRUE
    BY <1>6 DEF PoolWritten, NamesOracle
  <2> HIDE DEF pool
  <2> QED
    BY <1>4, <2>1, <2>2
<1> QED
  BY <1>3, <1>4, <1>5, <1>6 DEF WiringChange, AggregatorDeleted, PoolDeleted, Oracles

\* A mock oracle changes: its list, or a price that is told if it is listed.
LEMMA MockStep ==
    ASSUME IInv, NEW o \in Mocks, NEW oracle \in Oracle, ~oracle.synthesized,
           Apply([mirror EXCEPT !.oracles[o] = oracle]),
           feedChanged' = feedChanged, full' = full,
           {priceChanged', reconfigured'} \subseteq BOOLEAN,
           reconfigured' \/ (~reconfigured /\ (priceChanged' \/
                (~priceChanged /\ SameAnswer(oracle, mirror.oracles[o]))))
    PROVE  IInv'
<1> DEFINE next == [mirror EXCEPT !.oracles[o] = oracle]
<1>1. phase = "applying"
  BY DEF Apply
<1>2. /\ mirror \in Carried /\ full \in Rounds /\ FeedFollows(mirror.feed, full, close)
      /\ MocksSpeak(mirror) /\ AggregatorsSilent(mirror) /\ PricesPositive(mirror)
      /\ {feedChanged, priceChanged, reconfigured} \subseteq BOOLEAN
      /\ ~reconfigured => Unmoved(mirror, committed, feedChanged, priceChanged)
  BY <1>1, ApplyingFacts
<1>3. /\ next \in Carried /\ next.feed = mirror.feed /\ next.pools = mirror.pools
      /\ next.aggregators = mirror.aggregators
      /\ \A q \in Oracles : next.oracles[q] = IF q = o THEN oracle ELSE mirror.oracles[q]
  BY <1>2 DEF Carried, Oracles
<1>4. Apply(next)
  OBVIOUS
<1> HIDE DEF next
<1>5. MocksSpeak(next) /\ AggregatorsSilent(next) /\ PricesPositive(next)
  BY <1>2, <1>3, OracleNamesAssumption DEF MocksSpeak, AggregatorsSilent, PricesPositive, Oracles
<1>6. ASSUME ~reconfigured'
      PROVE  Unmoved(next, committed, feedChanged', priceChanged')
  <2>1. Unmoved(mirror, committed, feedChanged, priceChanged)
        /\ (priceChanged' \/ (~priceChanged /\ SameAnswer(oracle, mirror.oracles[o])))
    BY <1>2, <1>6
  <2>2. ASSUME ~priceChanged', NEW q \in Mocks
        PROVE  SameAnswer(next.oracles[q], committed.oracles[q])
    <3>1. SameAnswer(mirror.oracles[q], committed.oracles[q])
      BY <2>1, <2>2 DEF Unmoved
    <3>2. next.oracles[q] = IF q = o THEN oracle ELSE mirror.oracles[q]
      BY <1>3 DEF Oracles
    <3> QED
      BY <2>1, <2>2, <3>1, <3>2 DEF SameAnswer
  <2> QED
    BY <1>3, <2>1, <2>2 DEF Unmoved
<1> QED
  BY <1>2, <1>3, <1>4, <1>5, <1>6, ChangeKeeps

LEMMA EnsureOracleIs ==
    ASSUME NEW m \in Carried, MocksSpeak(m), NEW o \in Mocks
    PROVE  EnsureOracle(m, o) \in Oracle /\ ~EnsureOracle(m, o).synthesized
<1>1. NewOracle \in Oracle /\ ~NewOracle.synthesized
  BY DEF NewOracle, Oracle
<1>2. m.oracles[o] \in {None} \cup Oracle
  BY DEF Carried, Oracles
<1> QED
  BY <1>1, <1>2 DEF EnsureOracle, MocksSpeak

\* A price of an asset the oracle does not list answers for nothing.
LEMMA UnlistedAnswers ==
    ASSUME NEW m \in Carried, MocksSpeak(m), NEW o \in Mocks, NEW i \in Indices,
           NEW v \in Int \cup {None}
    PROVE  LET oracle == [EnsureOracle(m, o) EXCEPT !.prices[i] = v]
           IN  /\ oracle \in Oracle /\ ~oracle.synthesized
               /\ ~Listed(m, o, i) => SameAnswer(oracle, m.oracles[o])
<1> DEFINE was == EnsureOracle(m, o)
           oracle == [was EXCEPT !.prices[i] = v]
<1>1. was \in Oracle /\ ~was.synthesized
  BY EnsureOracleIs
<1>2. was = IF m.oracles[o] = None THEN NewOracle ELSE m.oracles[o]
  BY DEF EnsureOracle
<1> HIDE DEF was
<1>3. /\ oracle \in Oracle /\ oracle.synthesized = was.synthesized /\ oracle.index = was.index
      /\ \A j \in Indices : oracle.prices[j] = IF j = i THEN v ELSE was.prices[j]
      /\ was.index \in Indices \cup {None}
  BY <1>1 DEF Oracle
<1> HIDE DEF oracle
<1>4. ASSUME ~Listed(m, o, i)
      PROVE  SameAnswer(oracle, m.oracles[o])
  <2>1. CASE m.oracles[o] = None
    <3>1. was.index = None
      BY <1>2, <2>1 DEF NewOracle
    <3> QED
      BY <1>3, <2>1, <3>1 DEF SameAnswer, Lists
  <2>2. CASE m.oracles[o] # None
    <3>1. was = m.oracles[o] /\ was.index # i /\ oracle # None
      BY <1>2, <1>3, <1>4, <2>2, OracleRecordsAssumption DEF Listed
    <3> QED
      BY <1>3, <2>2, <3>1 DEF SameAnswer, Lists
  <2> QED
    BY <2>1, <2>2
<1> QED
  BY <1>1, <1>3, <1>4 DEF oracle, was

LEMMA MockChangeStep ==
    ASSUME IInv, MockChange
    PROVE  IInv'
<1>1. phase = "applying"
  BY DEF MockChange, MockInstanceWritten, MockPriceWritten, MockPriceLapsed, Apply
<1>2. /\ mirror \in Carried /\ MocksSpeak(mirror)
      /\ {feedChanged, priceChanged, reconfigured} \subseteq BOOLEAN
  BY <1>1, ApplyingFacts
<1>3. ASSUME NEW o \in Mocks, NEW index \in Indices \cup {None}, MockInstanceWritten(o, index)
      PROVE  IInv'
  <2> DEFINE was == EnsureOracle(mirror, o)
             oracle == [was EXCEPT !.index = index]
  <2>1. was \in Oracle /\ ~was.synthesized
    BY <1>2, EnsureOracleIs
  <2>2. /\ Apply([mirror EXCEPT !.oracles[o] = oracle])
        /\ feedChanged' = feedChanged /\ priceChanged' = priceChanged /\ full' = full
        /\ reconfigured' = TRUE
    BY <1>3 DEF MockInstanceWritten, MockIndex, Quiet
  <2> HIDE DEF was
  <2>3. oracle \in Oracle /\ ~oracle.synthesized
    BY <2>1 DEF Oracle
  <2> HIDE DEF oracle
  <2> QED
    BY <1>2, <2>2, <2>3, MockStep
<1>4. ASSUME NEW o \in Mocks, NEW i \in Indices, NEW v \in Int \cup {None},
             Apply([mirror EXCEPT !.oracles[o] = [EnsureOracle(mirror, o) EXCEPT !.prices[i] = v]]),
             priceChanged' = (priceChanged \/ Listed(mirror, o, i)),
             UNCHANGED <<feedChanged, full, reconfigured>>
      PROVE  IInv'
  <2> DEFINE oracle == [EnsureOracle(mirror, o) EXCEPT !.prices[i] = v]
  <2>1. /\ oracle \in Oracle /\ ~oracle.synthesized
        /\ ~Listed(mirror, o, i) => SameAnswer(oracle, mirror.oracles[o])
    BY <1>2, UnlistedAnswers
  <2>2. Apply([mirror EXCEPT !.oracles[o] = oracle])
    BY <1>4
  <2> HIDE DEF oracle
  <2>3. Listed(mirror, o, i) \in BOOLEAN
    BY DEF Listed
  <2>4. priceChanged' \in BOOLEAN
    BY <1>2, <1>4, <2>3
  <2>5. reconfigured' = reconfigured /\ feedChanged' = feedChanged /\ full' = full
    BY <1>4
  <2>6. priceChanged' \/ (~priceChanged /\ SameAnswer(oracle, mirror.oracles[o]))
    BY <1>4, <2>1
  <2> QED
    BY <1>2, <2>1, <2>2, <2>4, <2>5, <2>6, MockStep
<1>5. ASSUME NEW o \in Mocks, NEW i \in Indices, NEW v \in MockPrices, MockPriceWritten(o, i, v)
      PROVE  IInv'
  <2>1. v \in Int \cup {None}
    BY OracleNumbersAssumption
  <2> QED
    BY <1>4, <1>5, <2>1 DEF MockPriceWritten, MockPrice
<1>6. ASSUME NEW o \in Mocks, NEW i \in Indices, MockPriceLapsed(o, i)
      PROVE  IInv'
  <2>1. mirror.oracles[o] # None /\ EnsureOracle(mirror, o) = mirror.oracles[o]
    BY <1>6 DEF MockPriceLapsed, EnsureOracle
  <2>2. MockLapse(mirror, o, i)
          = [mirror EXCEPT !.oracles[o] = [EnsureOracle(mirror, o) EXCEPT !.prices[i] = None]]
    BY <2>1 DEF MockLapse
  <2> QED
    BY <1>4, <1>6, <2>2 DEF MockPriceLapsed
<1> QED
  BY <1>3, <1>5, <1>6 DEF MockChange

-----------------------------------------------------------------------------
(* The end of a ledger, and the start of the next.                         *)

\* The index a synthesized oracle serves.
ServedIndex == CHOOSE i \in Indices : TRUE

\* What an aggregator answers for the asset.
ServedPrice(feed, agg, now) ==
    CASE agg.serves = "one"     -> One
      [] agg.serves = "feed"    -> ResolveFeedPrice(feed, agg, now)
      [] agg.serves = "nothing" -> None

LEMMA ServedIs ==
    ASSUME NEW feed \in {None} \cup Feed, NEW held \in Rounds, NEW now \in Nat,
           NEW agg \in Aggregator, FeedFollows(feed, held, now)
    PROVE  /\ ServedPrice(feed, agg, now) \in Nat \cup {None}
           /\ agg.serves = "one" => ServedPrice(feed, agg, now) = One
           /\ agg.serves = "feed" => ServedPrice(feed, agg, now) = ResolveFeedPrice(feed, agg, now)
           /\ agg.serves = "nothing" => ServedPrice(feed, agg, now) = None
<1>1. agg.serves \in {"one", "feed", "nothing"}
  BY DEF Aggregator
<1>2. One \in Nat
  BY OracleNumbersAssumption
<1>3. ResolveFeedPrice(feed, agg, now) \in Nat \cup {None}
  <2>1. CASE feed = None \/ feed.index = None
    BY <2>1 DEF ResolveFeedPrice
  <2>2. CASE feed # None /\ feed.index # None
    BY <2>2, ServedIsQuoted
  <2> QED
    BY <2>1, <2>2
<1> QED
  BY <1>1, <1>2, <1>3 DEF ServedPrice

LEMMA SynthesizedIs ==
    ASSUME NEW feed \in {None} \cup Feed, NEW held \in Rounds, NEW now \in Nat,
           NEW agg \in Aggregator, FeedFollows(feed, held, now)
    PROVE  LET oracle == Synthesized(feed, agg, now)
           IN  /\ oracle \in Oracle /\ oracle.synthesized
               /\ oracle.index = IF agg.serves = "nothing" THEN None ELSE ServedIndex
               /\ oracle.prices[ServedIndex] = ServedPrice(feed, agg, now)
<1> DEFINE served == ServedPrice(feed, agg, now)
           index == ServedIndex
           listed == IF agg.serves = "nothing" THEN None ELSE index
           prices == [i \in Indices |-> IF i = index THEN served ELSE None]
           oracle == [index |-> listed, prices |-> prices, synthesized |-> TRUE]
<1>1. Synthesized(feed, agg, now) = oracle
  BY DEF Synthesized, ServedPrice, ServedIndex
<1>2. served \in Int \cup {None}
  BY ServedIs
<1>3. index \in Indices
  BY OracleNamesAssumption DEF ServedIndex
<1> HIDE DEF served, index
<1>4. prices \in [Indices -> Int \cup {None}] /\ prices[index] = served
  BY <1>2, <1>3
<1>5. listed \in Indices \cup {None}
  BY <1>3
<1> HIDE DEF prices, listed
<1>6. oracle \in Oracle /\ oracle.synthesized = TRUE /\ oracle.index = listed
      /\ oracle.prices = prices
  BY <1>4, <1>5 DEF Oracle
<1> HIDE DEF oracle
<1> QED
  BY <1>1, <1>4, <1>6 DEF listed, served, index

\* What a pool is priced from, and with, at the end of a ledger.
OracleAtClose(m, o, now) ==
    IF o \in Aggregators /\ m.aggregators[o] # None
    THEN Synthesized(m.feed, m.aggregators[o], now)
    ELSE m.oracles[o]

PoolAtClose(m, p, now) ==
    LET oracle == OracleAtClose(m, m.pools[p].oracle, now)
    IN  IF m.pools[p] # None /\ Lists(oracle)
        THEN [m.pools[p] EXCEPT !.price = Answer(oracle)]
        ELSE m.pools[p]

LEMMA OracleAtCloseIs ==
    ASSUME NEW m \in Carried, NEW held \in Rounds, NEW now \in Nat,
           FeedFollows(m.feed, held, now), NEW o \in Oracles
    PROVE  OracleAtClose(m, o, now) \in {None} \cup Oracle
<1>1. m.feed \in {None} \cup Feed /\ m.oracles[o] \in {None} \cup Oracle
      /\ (o \in Aggregators => m.aggregators[o] \in {None} \cup Aggregator)
  BY DEF Carried
<1> QED
  BY <1>1, SynthesizedIs DEF OracleAtClose

\* Every pool is priced from the oracles as they are then.
LEMMA PricedIs ==
    ASSUME NEW m \in Carried, NEW now
    PROVE  LET priced == ResolveOraclePrices(ResolveAggregatorPrices(m, now))
           IN  priced = [feed        |-> m.feed,
                         aggregators |-> m.aggregators,
                         oracles     |-> [o \in Oracles |-> OracleAtClose(m, o, now)],
                         pools       |-> [p \in Pools |-> PoolAtClose(m, p, now)]]
<1> DEFINE oracles == [o \in Oracles |-> OracleAtClose(m, o, now)]
           answered == [m EXCEPT !.oracles = oracles]
<1>1. ResolveAggregatorPrices(m, now) = answered
  BY DEF ResolveAggregatorPrices, OracleAtClose
<1> HIDE DEF oracles
<1>2. /\ answered.feed = m.feed /\ answered.aggregators = m.aggregators
      /\ answered.oracles = oracles /\ answered.pools = m.pools
      /\ answered = [feed |-> m.feed, aggregators |-> m.aggregators,
                     oracles |-> oracles, pools |-> m.pools]
  BY DEF Carried
<1> HIDE DEF answered
<1>3. \A p \in Pools : m.pools[p] # None => m.pools[p].oracle \in Oracles
  BY DEF Carried, Pool
<1>4. \A o \in Oracles : oracles[o] = OracleAtClose(m, o, now)
  BY DEF oracles
<1> DEFINE pools == [p \in Pools |->
               IF m.pools[p] # None /\ oracles[m.pools[p].oracle] # None
                  /\ oracles[m.pools[p].oracle].index # None
               THEN [m.pools[p] EXCEPT !.price = Answer(oracles[m.pools[p].oracle])]
               ELSE m.pools[p]]
<1>5. ResolveOraclePrices(answered) = [answered EXCEPT !.pools = pools]
  BY <1>2 DEF ResolveOraclePrices
<1>6. pools = [p \in Pools |-> PoolAtClose(m, p, now)]
  BY <1>3, <1>4 DEF PoolAtClose, Lists
<1> HIDE DEF pools
<1>7. [answered EXCEPT !.pools = pools]
        = [feed |-> m.feed, aggregators |-> m.aggregators, oracles |-> oracles, pools |-> pools]
  BY <1>2
<1> QED
  BY <1>1, <1>5, <1>6, <1>7 DEF oracles

\* The prices a decode returns: positive, or none.
LEMMA PoolAtCloseIs ==
    ASSUME NEW m \in Carried, NEW held \in Rounds, NEW now \in Nat,
           FeedFollows(m.feed, held, now), NEW p \in Pools
    PROVE  /\ PoolAtClose(m, p, now) \in {None} \cup Pool
           /\ m.pools[p] # None /\ m.pools[p].price # 0 =>
                 (PoolAtClose(m, p, now) # None => PoolAtClose(m, p, now).price # 0)
           /\ m.pools[p] = None => PoolAtClose(m, p, now) = None
           /\ m.pools[p] # None => PoolAtClose(m, p, now).oracle = m.pools[p].oracle
<1> DEFINE pool == m.pools[p]
           oracle == OracleAtClose(m, pool.oracle, now)
<1>1. pool \in {None} \cup Pool
  BY DEF Carried
<1>2. CASE pool # None /\ Lists(oracle)
  <2>1. oracle \in Oracle /\ oracle.index \in Indices
    <3>1. oracle \in {None} \cup Oracle
      BY <1>1, <1>2, OracleAtCloseIs DEF Pool
    <3> HIDE DEF oracle
    <3> QED
      BY <1>2, <3>1 DEF Lists, Oracle
  <2> HIDE DEF oracle
  <2>2. Answer(oracle) \in (Nat \ {0}) \cup {None}
    BY <2>1 DEF Answer, Oracle
  <2>3. PoolAtClose(m, p, now) = [pool EXCEPT !.price = Answer(oracle)]
    BY <1>2 DEF PoolAtClose, oracle
  <2>4. None # 0
    BY OracleNamesAssumption
  <2> HIDE DEF pool
  <2>5. [pool EXCEPT !.price = Answer(oracle)] \in Pool
        /\ [pool EXCEPT !.price = Answer(oracle)].price = Answer(oracle)
        /\ [pool EXCEPT !.price = Answer(oracle)].oracle = pool.oracle
    BY <1>1, <1>2, <2>2 DEF Pool
  <2> QED
    BY <1>2, <2>2, <2>3, <2>4, <2>5 DEF pool
<1>3. CASE ~ (pool # None /\ Lists(oracle))
  <2>1. PoolAtClose(m, p, now) = pool
    BY <1>3 DEF PoolAtClose
  <2> QED
    BY <1>1, <2>1
<1> QED
  BY <1>2, <1>3

\* A pool priced through an aggregator shows its quote, or nothing.
ShowsQuote(m, held, now, p, a) ==
    (m.pools[p] # None /\ m.pools[p].oracle = a /\ m.aggregators[a] # None)
    => LET agg    == m.aggregators[a]
           quotes == IF m.feed = None \/ m.feed.index = None THEN {}
                     ELSE QuotesOf(held, m.feed, now, agg) \ {0}
       IN  CASE agg.serves = "feed" ->
                    {m.pools[p].price} = IF quotes = {} THEN {None} ELSE quotes
             [] agg.serves = "one"  -> m.pools[p].price = One
             [] OTHER               -> TRUE

LEMMA EndShowsQuote ==
    ASSUME NEW m \in Carried, NEW held \in Rounds, NEW now \in Nat,
           FeedFollows(m.feed, held, now), NEW p \in Pools, NEW a \in Aggregators,
           NEW closed,
           closed.pools[p] = PoolAtClose(m, p, now), closed.aggregators = m.aggregators,
           m.feed = None => closed.feed = None,
           m.feed # None => /\ closed.feed # None /\ closed.feed.index = m.feed.index
                            /\ closed.feed.last = m.feed.last
    PROVE  ShowsQuote(closed, held, now, p, a)
<1> SUFFICES ASSUME closed.pools[p] # None, closed.pools[p].oracle = a, m.aggregators[a] # None
             PROVE  LET agg    == m.aggregators[a]
                        quotes == IF closed.feed = None \/ closed.feed.index = None THEN {}
                                  ELSE QuotesOf(held, closed.feed, now, agg) \ {0}
                    IN  CASE agg.serves = "feed" ->
                                 {closed.pools[p].price} = IF quotes = {} THEN {None} ELSE quotes
                          [] agg.serves = "one"  -> closed.pools[p].price = One
                          [] OTHER               -> TRUE
  BY DEF ShowsQuote
<1> DEFINE agg == m.aggregators[a]
           oracle == Synthesized(m.feed, agg, now)
           served == ServedPrice(m.feed, agg, now)
           quotes == IF closed.feed = None \/ closed.feed.index = None THEN {}
                     ELSE QuotesOf(held, closed.feed, now, agg) \ {0}
<1>1. /\ agg \in Aggregator /\ m.feed \in {None} \cup Feed
      /\ m.pools[p] # None /\ m.pools[p].oracle = a /\ m.pools[p] \in Pool
  BY PoolAtCloseIs DEF Carried
<1>2. /\ OracleAtClose(m, m.pools[p].oracle, now) = oracle
      /\ oracle \in Oracle /\ oracle.prices[ServedIndex] = served
      /\ oracle.index = IF agg.serves = "nothing" THEN None ELSE ServedIndex
      /\ served \in Nat \cup {None}
      /\ agg.serves = "one" => served = One
      /\ agg.serves = "feed" => served = ResolveFeedPrice(m.feed, agg, now)
  BY <1>1, SynthesizedIs, ServedIs DEF OracleAtClose
<1>3. /\ ServedIndex # None /\ oracle # None
      /\ closed.pools[p] = IF Lists(oracle) THEN [m.pools[p] EXCEPT !.price = Answer(oracle)]
                           ELSE m.pools[p]
  <2>1. ServedIndex \in Indices
    BY OracleNamesAssumption DEF ServedIndex
  <2>2. ServedIndex # None /\ oracle # None
    BY <1>2, <2>1, OracleNamesAssumption, OracleRecordsAssumption
  <2> HIDE DEF oracle
  <2> QED
    BY <1>1, <1>2, <2>2 DEF PoolAtClose
<1>4. agg.serves # "nothing" =>
         closed.pools[p].price = IF served # None /\ served > 0 THEN served ELSE None
  <2> HIDE DEF oracle, served, agg
  <2> SUFFICES ASSUME agg.serves # "nothing"
               PROVE  closed.pools[p].price = IF served # None /\ served > 0 THEN served ELSE None
    OBVIOUS
  <2>1. Lists(oracle) /\ Answer(oracle) = IF served # None /\ served > 0 THEN served ELSE None
    BY <1>2, <1>3 DEF Lists, Answer
  <2> QED
    BY <1>1, <1>3, <2>1 DEF Pool
<1>5. CASE agg.serves = "one"
  <2>1. closed.pools[p].price = One
    BY <1>2, <1>4, <1>5, OracleNumbersAssumption, OracleNamesAssumption
  <2> QED
    BY <1>5, <2>1
<1>6. CASE agg.serves = "feed"
  <2>1. {closed.pools[p].price} = IF quotes = {} THEN {None} ELSE quotes
    <3>1. CASE m.feed = None \/ m.feed.index = None
      <4>1. served = None
        BY <1>2, <1>6, <3>1 DEF ResolveFeedPrice
      <4>2. quotes = {}
        BY <3>1
      <4> HIDE DEF quotes, served
      <4> QED
        BY <1>4, <1>6, <4>1, <4>2
    <3>2. CASE m.feed # None /\ m.feed.index # None
      <4>1. QuotesOf(held, closed.feed, now, agg) = QuotesOf(held, m.feed, now, agg)
        BY <3>2 DEF QuotesOf
      <4>2. \/ served = None /\ QuotesOf(held, m.feed, now, agg) = {}
            \/ served \in Nat /\ QuotesOf(held, m.feed, now, agg) = {served}
        BY <1>1, <1>2, <1>6, <3>2, ServedIsQuoted
      <4>3. quotes = QuotesOf(held, m.feed, now, agg) \ {0}
        BY <3>2, <4>1
      <4> HIDE DEF quotes, served, agg
      <4>4. CASE served = None \/ served = 0
        <5>1. quotes = {}
          BY <4>2, <4>3, <4>4, OracleNamesAssumption
        <5>2. closed.pools[p].price = None
          BY <1>4, <1>6, <4>4
        <5> QED
          BY <5>1, <5>2
      <4>5. CASE served \in Nat \ {0}
        <5>1. quotes = {served} /\ served # None
          BY <4>2, <4>3, <4>5, OracleNamesAssumption
        <5>2. closed.pools[p].price = served
          BY <1>4, <1>6, <4>5, <5>1
        <5> QED
          BY <5>1, <5>2
      <4> QED
        BY <1>2, <4>4, <4>5
    <3> QED
      BY <3>1, <3>2
  <2> QED
    BY <1>6, <2>1
<1>7. CASE agg.serves = "nothing"
  BY <1>7
<1>8. agg.serves \in {"feed", "one", "nothing"}
  BY <1>1 DEF Aggregator
<1> QED
  BY <1>5, <1>6, <1>7, <1>8

LEMMA BuiltIs ==
    ASSUME NEW m \in Carried, NEW now
    PROVE  Built(m, now) =
              [feed        |-> IF m.feed = None THEN None
                               ELSE [m.feed EXCEPT !.rounds = TrimRounds(m.feed.rounds)],
               aggregators |-> m.aggregators,
               oracles     |-> [o \in Oracles |-> OracleAtClose(m, o, now)],
               pools       |-> [p \in Pools |-> PoolAtClose(m, p, now)]]
<1> DEFINE oracles == [o \in Oracles |-> OracleAtClose(m, o, now)]
           pools == [p \in Pools |-> PoolAtClose(m, p, now)]
           priced == [feed |-> m.feed, aggregators |-> m.aggregators,
                      oracles |-> oracles, pools |-> pools]
<1>1. ResolveOraclePrices(ResolveAggregatorPrices(m, now)) = priced
  BY PricedIs
<1> HIDE DEF oracles, pools
<1>2. Built(m, now) = IF m.feed = None THEN priced
                      ELSE [priced EXCEPT !.feed.rounds = TrimRounds(priced.feed.rounds)]
  BY <1>1 DEF Built
<1> QED
  BY <1>2 DEF oracles, pools

LEMMA EndStep ==
    ASSUME IInv, EndLedger
    PROVE  IInv'
<1> DEFINE m == mirror
           feed == IF m.feed = None THEN None
                   ELSE [m.feed EXCEPT !.rounds = TrimRounds(m.feed.rounds)]
           oracles == [o \in Oracles |-> OracleAtClose(m, o, close)]
           pools == [p \in Pools |-> PoolAtClose(m, p, close)]
           closed == [feed |-> feed, aggregators |-> m.aggregators,
                      oracles |-> oracles, pools |-> pools]
<1>1. /\ phase = "applying" /\ phase' = "idle" /\ mirror' = Built(mirror, close)
      /\ committed' = mirror' /\ applied' = 0 /\ ~feedChanged' /\ ~priceChanged' /\ ~reconfigured'
      /\ feedChanged' \in BOOLEAN /\ priceChanged' \in BOOLEAN /\ reconfigured' \in BOOLEAN
      /\ scope' = scope /\ close' = close /\ full' = full
  BY DEF EndLedger
<1>2. /\ m \in Carried /\ full \in Rounds /\ close \in Nat /\ FeedFollows(m.feed, full, close)
      /\ MocksSpeak(m) /\ AggregatorsSilent(m) /\ PricesPositive(m)
  BY <1>1, ApplyingFacts
<1>3. mirror' = closed /\ committed' = closed
  BY <1>1, <1>2, BuiltIs
<1>4. /\ feed \in {None} \cup Feed /\ FeedFollows(feed, full, close)
      /\ m.feed = None => feed = None
      /\ m.feed # None => /\ feed # None /\ feed.index = m.feed.index /\ feed.last = m.feed.last
                          /\ feed.rounds = TrimRounds(m.feed.rounds)
  <2>1. CASE m.feed = None
    BY <1>2, <2>1
  <2>2. CASE m.feed # None
    <3> DEFINE trimmed == [m.feed EXCEPT !.rounds = TrimRounds(m.feed.rounds)]
    <3>1. m.feed \in Feed
      BY <1>2, <2>2 DEF Carried
    <3>2. trimmed \in Feed /\ FeedFollows(trimmed, full, close)
      BY <1>2, <3>1, FeedFollowsTrimmed
    <3>3. trimmed.index = m.feed.index /\ trimmed.last = m.feed.last
          /\ trimmed.rounds = TrimRounds(m.feed.rounds)
      BY <3>1 DEF Feed
    <3>4. feed = trimmed
      BY <2>2
    <3> HIDE DEF feed, trimmed
    <3> QED
      BY <2>2, <3>2, <3>3, <3>4, OracleRecordsAssumption
  <2> QED
    BY <2>1, <2>2
<1>5. \A o \in Oracles : oracles[o] \in {None} \cup Oracle
  BY <1>2, OracleAtCloseIs
<1>6. \A p \in Pools : /\ pools[p] \in {None} \cup Pool
                       /\ pools[p] # None => pools[p].price # 0
  BY <1>2, PoolAtCloseIs DEF PricesPositive
<1>7. /\ closed.feed = feed /\ closed.aggregators = m.aggregators
      /\ closed.oracles = oracles /\ closed.pools = pools
  OBVIOUS
<1>8. closed \in Carried
  <2> HIDE DEF feed, m
  <2>1. oracles \in [Oracles -> {None} \cup Oracle] /\ pools \in [Pools -> {None} \cup Pool]
    BY <1>5, <1>6
  <2> HIDE DEF oracles, pools
  <2>2. m.aggregators \in [Aggregators -> {None} \cup Aggregator]
    BY <1>2 DEF Carried
  <2> QED
    BY <1>4, <2>1, <2>2 DEF Carried
<1>9. feed # None => Cardinality({t \in Stamps : feed.rounds[t] # None}) <= MaxCarried
  BY <1>4, TrimBounds DEF Known
<1>10. /\ MocksSpeak(closed)
       /\ \A a \in Aggregators : oracles[a] # None =>
             m.aggregators[a] # None /\ oracles[a].synthesized
  <2>1. ASSUME NEW o \in Mocks
        PROVE  oracles[o] = m.oracles[o]
    BY OracleNamesAssumption DEF OracleAtClose, Oracles
  <2>2. ASSUME NEW a \in Aggregators, oracles[a] # None
        PROVE  m.aggregators[a] # None /\ oracles[a].synthesized
    <3>1. oracles[a] = OracleAtClose(m, a, close)
      BY DEF Oracles
    <3>2. m.aggregators[a] # None /\ OracleAtClose(m, a, close) = Synthesized(m.feed, m.aggregators[a], close)
      BY <1>2, <2>2, <3>1 DEF OracleAtClose, AggregatorsSilent
    <3>3. m.aggregators[a] \in Aggregator /\ m.feed \in {None} \cup Feed
      BY <1>2, <3>2 DEF Carried
    <3>4. Synthesized(m.feed, m.aggregators[a], close).synthesized
      BY <1>2, <3>3, SynthesizedIs
    <3> QED
      BY <3>1, <3>2, <3>4
  <2> HIDE DEF oracles, closed
  <2> QED
    BY <1>2, <1>7, <2>1, <2>2 DEF MocksSpeak
<1>11. \A p \in Pools, a \in Aggregators : ShowsQuote(closed, full, close, p, a)
  <2>1. \A p \in Pools : closed.pools[p] = PoolAtClose(m, p, close)
    OBVIOUS
  <2> HIDE DEF closed, feed
  <2> QED
    BY <1>2, <1>4, <1>7, <2>1, EndShowsQuote
<1> HIDE DEF closed, feed, oracles, pools, m
<1>12. OracleTypeOK'
  <2>1. scope \in Scopes /\ close \in 0..MaxTime /\ full \in Rounds
    BY DEF IInv, OracleTypeOK
  <2>2. applied' \in 0..MaxChanges'
    BY <1>1, OracleNumbersAssumption DEF MaxChanges
  <2>3. (\A p \in Pools : committed.pools[p] # None => committed.pools[p].price # 0)'
    BY <1>3, <1>6, <1>7
  <2>4. (committed.feed # None =>
          Cardinality({t \in Stamps : committed.feed.rounds[t] # None}) <= MaxCarried)'
    BY <1>3, <1>7, <1>9
  <2> QED
    BY <1>1, <1>3, <1>8, <2>1, <2>2, <2>3, <2>4 DEF OracleTypeOK
<1>13. Authors'
  BY <1>1, <1>3, <1>6, <1>7, <1>10 DEF Authors, PricesPositive
<1>14. PriceIsTheAggregators'
  <2>1. PriceIsTheAggregators' <=>
           (phase' = "idle" => \A p \in Pools, a \in Aggregators :
                                  ShowsQuote(mirror', full', close', p, a))
    BY DEF PriceIsTheAggregators, ShowsQuote, QuotesOf, Quotes, Priced
  <2> QED
    BY <1>1, <1>3, <1>11, <2>1
<1>15. FeedFollows(mirror.feed, full, close)'
  BY <1>1, <1>3, <1>4, <1>7
<1>16. IdleSettled' /\ phase' # "applying"
  BY <1>1 DEF IdleSettled
<1> QED
  BY <1>12, <1>13, <1>14, <1>15, <1>16 DEF IInv

LEMMA BeginStep ==
    ASSUME IInv, BeginLedger
    PROVE  IInv'
<1> DEFINE next == DropSynthesized(committed)
           dropped == [o \in Oracles |->
                         IF committed.oracles[o] # None /\ committed.oracles[o].synthesized THEN None
                         ELSE committed.oracles[o]]
<1>1. /\ phase = "idle" /\ phase' = "applying" /\ mirror' = next /\ committed' = committed
      /\ scope' = scope /\ applied' = applied /\ full' = full
      /\ feedChanged' = feedChanged /\ priceChanged' = priceChanged /\ reconfigured' = reconfigured
      /\ close' \in close .. (IF scope = "feeds" THEN MaxTime ELSE close)
  BY DEF BeginLedger
<1>2. OracleTypeOK /\ Authors /\ FeedFollows(mirror.feed, full, close)
      /\ mirror = committed /\ ~feedChanged /\ ~priceChanged /\ ~reconfigured
  BY <1>1 DEF IInv, IdleSettled
<1>3. close \in Nat /\ close' \in Nat /\ close <= close' /\ close' \in 0..MaxTime
  <2>1. close \in 0..MaxTime /\ MaxTime \in Nat
    BY <1>2, OracleNumbersAssumption DEF OracleTypeOK
  <2> QED
    BY <1>1, <2>1
<1>4. committed \in Carried
  BY <1>2 DEF OracleTypeOK
<1>5. /\ next \in Carried /\ next.feed = committed.feed /\ next.pools = committed.pools
      /\ next.aggregators = committed.aggregators /\ next.oracles = dropped
  <2>1. dropped \in [Oracles -> {None} \cup Oracle]
    BY <1>4 DEF Carried
  <2>2. next = [committed EXCEPT !.oracles = dropped]
    BY DEF DropSynthesized
  <2> HIDE DEF dropped, next
  <2> QED
    BY <1>4, <2>1, <2>2 DEF Carried
<1>6. \A o \in Mocks : dropped[o] = committed.oracles[o]
  BY <1>2 DEF Authors, MocksSpeak, Oracles
<1>7. \A a \in Aggregators : dropped[a] = None
  BY <1>2 DEF Authors, Oracles
<1> HIDE DEF next, dropped
<1>8. MocksSpeak(next) /\ AggregatorsSilent(next) /\ PricesPositive(next)
  BY <1>2, <1>5, <1>6, <1>7 DEF Authors, MocksSpeak, AggregatorsSilent, PricesPositive
<1>9. Unmoved(next, committed, feedChanged, priceChanged)
  BY <1>5, <1>6 DEF Unmoved, SameAnswer
<1>10. OracleTypeOK'
  <2>1. MaxChanges' = MaxChanges
    BY <1>1 DEF MaxChanges
  <2> QED
    BY <1>1, <1>2, <1>3, <1>5, <2>1 DEF OracleTypeOK
<1>11. FeedFollows(mirror.feed, full, close)'
  BY <1>1, <1>2, <1>3, <1>5, FeedFollowsLater
<1>12. Authors' /\ IdleSettled' /\ PriceIsTheAggregators'
  BY <1>1, <1>2, <1>8 DEF Authors, IdleSettled, PriceIsTheAggregators
<1>13. Unmoved(mirror, committed, feedChanged, priceChanged)'
  BY <1>1, <1>9
<1> QED
  BY <1>10, <1>11, <1>12, <1>13 DEF IInv

LEMMA NextKeepsIInv == IInv /\ [Next]_vars => IInv'
<1> SUFFICES ASSUME IInv, [Next]_vars
             PROVE  IInv'
  OBVIOUS
<1>1. CASE UNCHANGED vars
  <2>1. /\ scope' = scope /\ phase' = phase /\ mirror' = mirror /\ committed' = committed
        /\ close' = close /\ applied' = applied /\ full' = full
        /\ feedChanged' = feedChanged /\ priceChanged' = priceChanged
        /\ reconfigured' = reconfigured
    BY <1>1 DEF vars
  <2>2. OracleTypeOK' /\ Authors' /\ IdleSettled'
    BY <2>1 DEF IInv, OracleTypeOK, MaxChanges, Authors, IdleSettled
  <2>3. FeedFollows(mirror.feed, full, close)'
        /\ (phase = "applying" /\ ~reconfigured
              => Unmoved(mirror, committed, feedChanged, priceChanged))'
    BY <2>1 DEF IInv
  <2>4. /\ PriceIsTheAggregators <=>
              (phase = "idle" => \A p \in Pools, a \in Aggregators :
                                    ShowsQuote(mirror, full, close, p, a))
        /\ PriceIsTheAggregators' <=>
              (phase' = "idle" => \A p \in Pools, a \in Aggregators :
                                     ShowsQuote(mirror', full', close', p, a))
    BY DEF PriceIsTheAggregators, ShowsQuote, QuotesOf, Quotes, Priced
  <2>5. PriceIsTheAggregators'
    BY <2>1, <2>4 DEF IInv
  <2> QED
    BY <2>2, <2>3, <2>5 DEF IInv
<1> QED
  BY <1>1, BeginStep, EndStep, FeedChangeStep, MockChangeStep, WiringChangeStep DEF Next

LEMMA Invariance == Spec => []IInv
<1> QED
  BY InitIInv, NextKeepsIInv, PTL DEF Spec

-----------------------------------------------------------------------------
(* Theorems.                                                               *)

\* Whatever is decoded, mirror and state are of their types, no price shown is
\* zero or negative, and at most MaxCarried rounds are carried (trimRounds,
\* resolveOraclePrices).
THEOREM OracleTypes == Spec => []OracleTypeOK
<1>1. IInv => OracleTypeOK
  BY DEF IInv
<1> QED
  BY <1>1, Invariance, PTL

\* A pool priced through an aggregator shows what get_price answers over all
\* the feed holds, although the decode carries MaxCarried rounds of it only:
\* the bound the comment on maxCarriedRounds computes is enough, for every
\* resolution, age, deviation and sequence of rounds (resolveAggregatorPrices).
THEOREM CarriedRoundsSuffice == Spec => []PriceIsTheAggregators
<1>1. IInv => PriceIsTheAggregators
  BY DEF IInv
<1> QED
  BY <1>1, Invariance, PTL

\* When the entries of a ledger, not its close time and not a configuration,
\* move the price a pool shows, the asset is marked (changedFeeds,
\* changedPriceAssets).
THEOREM PriceWritesAreReported == Spec => PriceWritesReported
<1>1. ASSUME IInv, NEW p \in Pools, phase = "applying", ~reconfigured, mirror.pools[p] # None, ~Marked
      PROVE  Shown(mirror, p) = Shown(committed, p)
  <2>1. /\ mirror \in Carried /\ committed \in Carried
        /\ Unmoved(mirror, committed, feedChanged, priceChanged)
        /\ AggregatorsSilent(mirror) /\ Authors
    BY <1>1 DEF IInv, OracleTypeOK, Authors
  <2>2. /\ ~priceChanged
        /\ ~feedChanged \/ \A a \in Aggregators : mirror.aggregators[a] # None =>
                                mirror.aggregators[a].serves # "feed"
    BY <1>1 DEF Marked
  <2>3. /\ Shown(mirror, p) = PoolAtClose(mirror, p, close)
        /\ Shown(committed, p) = PoolAtClose(committed, p, close)
    BY <2>1, PricedIs DEF Shown
  <2> DEFINE o == mirror.pools[p].oracle
             was == OracleAtClose(committed, o, close)
             now == OracleAtClose(mirror, o, close)
  <2>4. o \in Oracles /\ committed.pools = mirror.pools
    BY <1>1, <2>1 DEF Carried, Pool, Unmoved
  <2>5. SameAnswer(now, was)
    <3>1. CASE o \in Mocks
      <4>1. now = mirror.oracles[o] /\ was = committed.oracles[o]
        BY <3>1, OracleNamesAssumption DEF OracleAtClose
      <4> HIDE DEF now, was, o
      <4> QED
        BY <2>1, <2>2, <3>1, <4>1 DEF Unmoved
    <3>2. CASE o \in Aggregators
      <4>1. mirror.aggregators = committed.aggregators
        BY <2>1 DEF Unmoved
      <4>2. CASE mirror.aggregators[o] = None
        <5>1. mirror.oracles[o] = None /\ committed.oracles[o] = None
          BY <2>1, <3>2, <4>1, <4>2 DEF AggregatorsSilent, Authors
        <5>2. now = None /\ was = None
          BY <4>1, <4>2, <5>1 DEF OracleAtClose
        <5> HIDE DEF now, was, o
        <5> QED
          BY <5>2 DEF SameAnswer, Lists
      <4>3. CASE mirror.aggregators[o] # None
        <5> DEFINE agg == mirror.aggregators[o]
        <5>1. now = Synthesized(mirror.feed, agg, close)
              /\ was = Synthesized(committed.feed, agg, close)
          BY <3>2, <4>1, <4>3 DEF OracleAtClose
        <5>2. mirror.feed = committed.feed \/ agg.serves # "feed"
          BY <2>1, <2>2, <3>2, <4>3 DEF Unmoved
        <5>3. agg.serves \in {"feed", "one", "nothing"}
          BY <2>1, <3>2, <4>3 DEF Carried, Aggregator
        <5> HIDE DEF now, was, o, agg
        <5>4. now = was
          <6>1. CASE mirror.feed = committed.feed
            BY <5>1, <6>1
          <6>2. CASE agg.serves = "one"
            BY <5>1, <6>2 DEF Synthesized
          <6>3. CASE agg.serves = "nothing"
            BY <5>1, <6>3 DEF Synthesized
          <6> QED
            BY <5>2, <5>3, <6>1, <6>2, <6>3
        <5> QED
          BY <5>4 DEF SameAnswer
      <4> QED
        BY <4>2, <4>3
    <3> QED
      BY <2>4, <3>1, <3>2 DEF Oracles
  <2>6. (Lists(now) <=> Lists(was)) /\ (Lists(now) => Answer(now) = Answer(was))
    <3> HIDE DEF now, was
    <3> QED
      BY <2>5 DEF SameAnswer, Answer
  <2>7. PoolAtClose(mirror, p, close) = PoolAtClose(committed, p, close)
    <3>1. /\ PoolAtClose(mirror, p, close) =
                IF Lists(now) THEN [mirror.pools[p] EXCEPT !.price = Answer(now)] ELSE mirror.pools[p]
          /\ PoolAtClose(committed, p, close) =
                IF Lists(was) THEN [mirror.pools[p] EXCEPT !.price = Answer(was)] ELSE mirror.pools[p]
      BY <1>1, <2>4 DEF PoolAtClose
    <3> HIDE DEF now, was
    <3> QED
      BY <2>6, <3>1
  <2> QED
    BY <2>3, <2>7
<1>2. IInv => \A p \in Pools :
         (phase = "applying" /\ phase' = "idle" /\ ~reconfigured
            /\ mirror.pools[p] # None /\ Shown(mirror, p) # Shown(committed, p)) => Marked
  BY <1>1
<1>3. IInv /\ [Next]_vars =>
         [\A p \in Pools :
            (phase = "applying" /\ phase' = "idle" /\ ~reconfigured
                /\ mirror.pools[p] # None /\ Shown(mirror, p) # Shown(committed, p))
            => Marked]_vars
  BY <1>2
<1> QED
  BY <1>3, Invariance, PTL DEF Spec, PriceWritesReported
=============================================================================
