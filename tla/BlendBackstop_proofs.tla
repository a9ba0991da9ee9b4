------------------------- MODULE BlendBackstop_proofs -------------------------
(***************************************************************************)
(* Proofs about BlendBackstop, for any users, pools, backstops, Comets,    *)
(* tokens and amounts: the halves and emissions of the chain are those of  *)
(* the state, the dirty set is complete, and the two decode strategies     *)
(* value every holder alike.                                               *)
(***************************************************************************)
EXTENDS BlendBackstop, TLAPS

(* What the strategies agree on.                                           *)

\* Two Comets no valuation and no facet write distinguishes.
CometAlike(x, y) ==
    /\ x = None <=> y = None
    /\ x # None => /\ x.supply = y.supply
                   /\ \A t \in Tokens : ReserveOf(x, t) = ReserveOf(y, t)

\* Two mirrors that differ in such Comets only.
Alike(m, n) ==
    /\ m.pools = n.pools
    /\ m.balances = n.balances
    /\ m.emissions = n.emissions
    /\ m.holders = n.holders
    /\ m.instances = n.instances
    /\ m.price = n.price
    /\ m.repriced = n.repriced
    /\ m.touched = n.touched
    /\ \A c \in Comets : CometAlike(m.comets[c], n.comets[c])

\* Two valuations equal but for the price, or but for the pool's balance.
SameButPrice(v, w) ==
    /\ v = None <=> w = None
    /\ v # None => /\ v.holder = w.holder
                   /\ v.poolShares = w.poolShares
                   /\ v.supply = w.supply
                   /\ v.reserves = w.reserves

SameButBalance(v, w) ==
    /\ v = None <=> w = None
    /\ v # None => /\ v.holder = w.holder
                   /\ v.supply = w.supply
                   /\ v.reserves = w.reserves
                   /\ v.price = w.price

-----------------------------------------------------------------------------
(* The inductive invariant.                                                *)

\* The row two sibling entries leave.
RowOf(shares, accrued) ==
    IF shares = None /\ accrued = None THEN None
    ELSE [shares |-> shares, accrued |-> accrued]

HoldersFollow(holders, entries) ==
    \A k \in Pairs : holders[k] = RowOf(entries.shares[k], entries.accrued[k])

EmissionsFollow(emissions, entries) ==
    \A p \in Pools : emissions[p] = entries.emissions[p]

\* A reload values every holder as the state it reloads, but for a balance
\* that rides on no pool.
Reloads(s) ==
    \A k \in Pairs : SameButBalance(Value(LoadPrior(s), k), s.positions[k])

\* Why a pair that is not reported is valued as before.
Following(k) ==
    \/ Pool(k) \in relinked
    \/ ~BalanceReloads(prior, Pool(k))
    \/ k \in reference.touched
    \/ /\ SameButPrice(Value(reference, k), prior.positions[k])
       /\ prior.positions[k] # None /\ CometOf(reference, Pool(k)) = None
            => prior.positions[k].price = None
       /\ ~reference.repriced => Value(reference, k) = prior.positions[k]

ApplyingInv ==
    /\ Alike(reference, carried)
    /\ HoldersFollow(reference.holders, chain)
    /\ EmissionsFollow(reference.emissions, chain)
    /\ \A k \in Pairs : Following(k)

IdleInv ==
    /\ Alike(LoadPrior(out), LoadPrior(carriedOut))
    /\ continues => Alike(LoadPrior(out), NormalizeCarry(carried))
    /\ HoldersFollow(LoadPrior(out).holders, chain)
    /\ EmissionsFollow(LoadPrior(out).emissions, chain)
    /\ Reloads(out)

IInv ==
    /\ phase = "applying" => ApplyingInv
    /\ phase = "idle" => IdleInv

-----------------------------------------------------------------------------
(* Comets.                                                                 *)

LEMMA FacetsNeverNone ==
    /\ UnseenComet \in Facets
    /\ None \notin Facets
    /\ None \notin Partial(Tokens, Amounts)
    /\ None \notin TokenVecs
    /\ None \notin Amounts
    /\ {} \in TokenVecs
<1>1. UnseenComet \in Facets
  BY DEF UnseenComet, Facets
<1>2. None \notin Partial(Tokens, Amounts)
  <2> SUFFICES ASSUME NEW D \in SUBSET Tokens, None \in [D -> Amounts]
               PROVE  FALSE
    BY DEF Partial
  <2>1. None \in [D -> Amounts \cup {None}]
    OBVIOUS
  <2>2. None \in Partial(Tokens, Amounts \cup {None})
    BY <2>1 DEF Partial
  <2> QED
    BY <2>2, CometNoneAssumption
<1> QED
  BY <1>1, <1>2, CometNoneAssumption DEF TokenVecs

\* A known record map is a function over some of the tokens.
LEMMA RecordsType ==
    ASSUME NEW comet \in Facets
    PROVE  /\ RecordedTokens(comet) \subseteq Tokens
           /\ \A t \in RecordedTokens(comet) : comet.records[t] \in Amounts
           /\ comet.records # None => comet.records \in [RecordedTokens(comet) -> Amounts]
           /\ \A t \in Tokens : ReserveOf(comet, t) \in Amounts \cup {None}
           /\ \A t \in Tokens : ReserveOf(comet, t) # None <=> t \in RecordedTokens(comet)
<1>1. CASE comet.records = None
  BY <1>1 DEF RecordedTokens, ReserveOf
<1>2. CASE comet.records # None
  <2>1. comet.records \in Partial(Tokens, Amounts)
    BY <1>2 DEF Facets
  <2>2. PICK D \in SUBSET Tokens : comet.records \in [D -> Amounts]
    BY <2>1 DEF Partial
  <2>3. RecordedTokens(comet) = D
    BY <1>2, <2>2 DEF RecordedTokens
  <2> QED
    BY <2>2, <2>3, FacetsNeverNone DEF ReserveOf
<1> QED
  BY <1>1, <1>2

\* The carrier of a Comet is a carrier.
LEMMA BuildCometType ==
    ASSUME NEW comet \in Facets
    PROVE  BuildComet(comet) \in Carrier
<1>1. comet.supply \in Amounts \cup {None}
  BY DEF Facets
<1>2. CASE comet.tokens = None /\ comet.records = None
  BY <1>1, <1>2 DEF BuildComet, Carrier
<1>3. CASE ~(comet.tokens = None /\ comet.records = None)
  <2> DEFINE D == OrEmpty(comet.tokens) \cup RecordedTokens(comet)
             listed == [t \in D |-> ReserveOf(comet, t)]
  <2>1. D \subseteq Tokens
    BY RecordsType DEF Facets, OrEmpty, TokenVecs
  <2>2. listed \in [D -> Amounts \cup {None}]
    BY <2>1, RecordsType
  <2>3. listed \in Partial(Tokens, Amounts \cup {None})
    BY <2>1, <2>2 DEF Partial
  <2>4. BuildComet(comet) = [listed |-> listed, supply |-> comet.supply]
    BY <1>3 DEF BuildComet
  <2> QED
    BY <1>1, <2>3, <2>4 DEF Carrier
<1> QED
  BY <1>2, <1>3

\* The carrier brings back every known reserve and the supply, although not
\* always whether the vector or the records were seen.
LEMMA RestoredComet ==
    ASSUME NEW comet \in Facets
    PROVE  /\ RestoreComet(BuildComet(comet)) \in Facets
           /\ CometAlike(RestoreComet(BuildComet(comet)), comet)
<1> DEFINE carrier == BuildComet(comet)
           restored == RestoreComet(carrier)
           D == OrEmpty(comet.tokens) \cup RecordedTokens(comet)
<1>1. comet.supply \in Amounts \cup {None}
  BY DEF Facets
<1>2. CASE comet.tokens = None /\ comet.records = None
  <2>1. carrier.listed = None /\ carrier.supply = comet.supply
    BY <1>2 DEF BuildComet
  <2>2. restored = [tokens |-> None, records |-> None, supply |-> comet.supply]
    BY <2>1 DEF RestoreComet, UnseenComet
  <2>3. restored \in Facets
    BY <1>1, <2>2 DEF Facets
  <2>4. RecordedTokens(restored) = {} /\ RecordedTokens(comet) = {}
    BY <1>2, <2>2 DEF RecordedTokens
  <2> QED
    BY <2>2, <2>3, <2>4, FacetsNeverNone DEF CometAlike, ReserveOf
<1>3. CASE ~(comet.tokens = None /\ comet.records = None)
  <2>1. D \subseteq Tokens
    BY RecordsType DEF Facets, OrEmpty, TokenVecs
  <2>2. carrier.listed = [t \in D |-> ReserveOf(comet, t)] /\ carrier.supply = comet.supply
    BY <1>3 DEF BuildComet
  <2>3. carrier.listed # None
    <3>1. carrier \in Carrier
      BY BuildCometType
    <3>2. carrier.listed \in [D -> Amounts \cup {None}]
      BY <2>1, <2>2, RecordsType
    <3>3. carrier.listed \in Partial(Tokens, Amounts \cup {None})
      BY <2>1, <3>2 DEF Partial
    <3> QED
      BY <3>3, CometNoneAssumption
  <2>4. DOMAIN carrier.listed = D /\ \A t \in D : carrier.listed[t] = ReserveOf(comet, t)
    BY <2>2
  <2>5. PricedTokens(carrier) = RecordedTokens(comet)
    BY <2>1, <2>4, RecordsType DEF PricedTokens
  <2> HIDE DEF carrier
  <2> DEFINE records == [t \in RecordedTokens(comet) |-> carrier.listed[t]]
             known == D = {} \/ RecordedTokens(comet) # {}
  <2>6. restored = [tokens  |-> D, records |-> IF known THEN records ELSE None,
                    supply |-> comet.supply]
    BY <2>2, <2>3, <2>4, <2>5 DEF RestoreComet
  <2>7. records \in Partial(Tokens, Amounts)
    <3>1. \A t \in RecordedTokens(comet) : carrier.listed[t] \in Amounts
      BY <2>1, <2>4, RecordsType DEF ReserveOf
    <3>2. records \in [RecordedTokens(comet) -> Amounts]
      BY <3>1
    <3> QED
      BY <3>2, RecordsType DEF Partial
  <2>8. D \in TokenVecs
    BY <2>1 DEF TokenVecs
  <2>9. restored \in Facets
    <3> HIDE DEF records, D, restored, known
    <3> QED
      BY <1>1, <2>6, <2>7, <2>8 DEF Facets
  <2>10. \A t \in Tokens : ReserveOf(restored, t) = ReserveOf(comet, t)
    <3>1. CASE known
      <4>1. restored.records = records
        BY <3>1, <2>6
      <4>2. records # None
        <5> HIDE DEF records
        <5> QED
          BY <2>7, FacetsNeverNone
      <4>3. RecordedTokens(restored) = RecordedTokens(comet)
        BY <4>1, <4>2 DEF RecordedTokens
      <4>4. \A t \in RecordedTokens(comet) : restored.records[t] = ReserveOf(comet, t)
        BY <2>4, <4>1
      <4> QED
        BY <4>3, <4>4 DEF ReserveOf
    <3>2. CASE ~known
      <4>1. restored.records = None
        BY <3>2, <2>6
      <4>2. RecordedTokens(restored) = {} /\ RecordedTokens(comet) = {}
        BY <3>2, <4>1 DEF RecordedTokens
      <4> QED
        BY <4>2 DEF ReserveOf
    <3> QED
      BY <3>1, <3>2
  <2>11. restored.supply = comet.supply
    BY <2>6
  <2>12. restored # None /\ comet # None
    <3> HIDE DEF restored
    <3> QED
      BY <2>9, FacetsNeverNone
  <2>13. CometAlike(restored, comet)
    <3> HIDE DEF restored
    <3> QED
      BY <2>10, <2>11, <2>12 DEF CometAlike
  <2> QED
    BY <2>9, <2>13 DEF carrier
<1> QED
  BY <1>2, <1>3

LEMMA CometAlikeEquivalence ==
    /\ \A x : CometAlike(x, x)
    /\ \A x, y : CometAlike(x, y) => CometAlike(y, x)
    /\ \A x, y, z : CometAlike(x, y) /\ CometAlike(y, z) => CometAlike(x, z)
BY DEF CometAlike

\* A facet is one of three, with values of its own.
LEMMA SetFacetType ==
    ASSUME NEW comet \in Facets, NEW facet \in DOMAIN FacetValues,
           NEW v, v = None \/ v \in FacetValues[facet]
    PROVE  LET next == [comet EXCEPT ![facet] = v]
           IN  /\ next \in Facets
               /\ next.supply = IF facet = "supply" THEN v ELSE comet.supply
               /\ next.records = IF facet = "records" THEN v ELSE comet.records
<1> DEFINE next == [comet EXCEPT ![facet] = v]
<1>1. facet \in {"tokens", "records", "supply"}
  BY DEF FacetValues
<1>2. comet = [tokens |-> comet.tokens, records |-> comet.records, supply |-> comet.supply]
  BY DEF Facets
<1>3. CASE facet = "tokens"
  <2>1. v \in TokenVecs \cup {None}
    BY <1>3 DEF FacetValues
  <2> QED
    BY <1>3, <2>1 DEF Facets
<1>4. CASE facet = "records"
  <2>1. v \in Partial(Tokens, Amounts) \cup {None}
    BY <1>4 DEF FacetValues
  <2> QED
    BY <1>4, <2>1 DEF Facets
<1>5. CASE facet = "supply"
  <2>1. v \in Amounts \cup {None}
    BY <1>5 DEF FacetValues
  <2> QED
    BY <1>5, <2>1 DEF Facets
<1> QED
  BY <1>1, <1>3, <1>4, <1>5

\* What is written or forgotten of alike Comets leaves them alike.
LEMMA SetFacetAlike ==
    ASSUME NEW x \in Facets, NEW y \in Facets, CometAlike(x, y),
           NEW facet \in DOMAIN FacetValues,
           NEW v, v = None \/ v \in FacetValues[facet]
    PROVE  CometAlike([x EXCEPT ![facet] = v], [y EXCEPT ![facet] = v])
<1> DEFINE xx == [x EXCEPT ![facet] = v]
           yy == [y EXCEPT ![facet] = v]
<1>1. /\ xx \in Facets /\ yy \in Facets
      /\ xx.supply = IF facet = "supply" THEN v ELSE x.supply
      /\ xx.records = IF facet = "records" THEN v ELSE x.records
      /\ yy.supply = IF facet = "supply" THEN v ELSE y.supply
      /\ yy.records = IF facet = "records" THEN v ELSE y.records
  BY SetFacetType
<1> HIDE DEF xx, yy
<1>2. x # None /\ y # None /\ xx # None /\ yy # None
  BY <1>1, FacetsNeverNone
<1>3. x.supply = y.supply /\ \A t \in Tokens : ReserveOf(x, t) = ReserveOf(y, t)
  BY <1>2 DEF CometAlike
<1>4. \A t \in Tokens : ReserveOf(xx, t) = ReserveOf(yy, t)
  BY <1>1, <1>3 DEF ReserveOf, RecordedTokens
<1>5. CometAlike(xx, yy)
  BY <1>1, <1>2, <1>3, <1>4 DEF CometAlike
<1> QED
  BY <1>5 DEF xx, yy

LEMMA EnsuredComet ==
    ASSUME NEW x \in Facets \cup {None}, NEW y \in Facets \cup {None}, CometAlike(x, y)
    PROVE  /\ EnsureComet(x) \in Facets
           /\ EnsureComet(y) \in Facets
           /\ CometAlike(EnsureComet(x), EnsureComet(y))
BY FacetsNeverNone DEF EnsureComet, CometAlike

LEMMA CometWrites ==
    ASSUME NEW x \in Facets \cup {None}, NEW y \in Facets \cup {None}, CometAlike(x, y),
           NEW facet \in DOMAIN FacetValues, NEW v \in FacetValues[facet]
    PROVE  /\ CometInstance(x) \in Facets
           /\ CometAlike(CometInstance(x), CometInstance(y))
           /\ WriteFacet(x, facet, v) \in Facets
           /\ CometAlike(WriteFacet(x, facet, v), WriteFacet(y, facet, v))
           /\ LapseFacet(x, facet) \in Facets \cup {None}
           /\ CometAlike(LapseFacet(x, facet), LapseFacet(y, facet))
<1>1. EnsureComet(x) \in Facets /\ EnsureComet(y) \in Facets
      /\ CometAlike(EnsureComet(x), EnsureComet(y))
  BY EnsuredComet
<1>2. /\ WriteFacet(x, facet, v) \in Facets
      /\ CometAlike(WriteFacet(x, facet, v), WriteFacet(y, facet, v))
  BY <1>1, SetFacetType, SetFacetAlike DEF WriteFacet
<1>3. CASE x = None
  <2>1. y = None
    BY <1>3 DEF CometAlike
  <2> QED
    BY <1>1, <1>2, <1>3, <2>1, CometAlikeEquivalence DEF LapseFacet, CometInstance
<1>4. CASE x # None
  <2>1. y # None
    BY <1>4 DEF CometAlike
  <2>2. /\ LapseFacet(x, facet) = [x EXCEPT ![facet] = None]
        /\ LapseFacet(y, facet) = [y EXCEPT ![facet] = None]
    BY <1>4, <2>1 DEF LapseFacet
  <2>3. x \in Facets /\ y \in Facets
    BY <1>4, <2>1
  <2>4. [x EXCEPT ![facet] = None] \in Facets
    BY <2>3, SetFacetType
  <2>5. CometAlike([x EXCEPT ![facet] = None], [y EXCEPT ![facet] = None])
    BY <2>3, SetFacetAlike
  <2> QED
    BY <1>1, <1>2, <2>2, <2>4, <2>5 DEF CometInstance
<1> QED
  BY <1>3, <1>4

-----------------------------------------------------------------------------
(* Links and valuation.                                                    *)

\* What a mirror or a state links a pool to.
LEMMA CometOfType ==
    ASSUME NEW m, m.pools \in [Pools -> PoolState \cup {None}],
           m.instances \in [Backstops -> Comets \cup {None}], NEW p \in Pools
    PROVE  CometOf(m, p) \in Comets \cup {None}
BY DEF CometOf, PoolState

LEMMA LinkedCometType ==
    ASSUME NEW m \in Mirror, NEW p \in Pools
    PROVE  LinkedComet(m, p) \in Facets
<1>1. CometOf(m, p) \in Comets \cup {None}
  BY CometOfType DEF Mirror
<1>2. \A c \in Comets : m.comets[c] \in Facets \cup {None}
  BY DEF Mirror
<1> QED
  BY <1>1, <1>2, EnsuredComet, CometAlikeEquivalence, FacetsNeverNone DEF LinkedComet

\* backstopPosition returns a position of the holder.
LEMMA ValueType ==
    ASSUME NEW m \in Mirror, NEW k \in Pairs
    PROVE  /\ Value(m, k) \in Position \cup {None}
           /\ Value(m, k) = None <=> m.holders[k] = None
           /\ m.holders[k] # None => Value(m, k).holder = m.holders[k]
<1>1. Pool(k) \in Pools
  BY DEF Pairs, Pool
<1>2. /\ m.holders[k] \in Holder \cup {None} /\ m.balances[Pool(k)] \in Amounts \cup {None}
      /\ m.price \in Amounts \cup {None}
  BY <1>1 DEF Mirror
<1>3. CASE m.holders[k] = None
  BY <1>3 DEF Value
<1>4. CASE m.holders[k] # None
  <2> DEFINE linked == LinkedComet(m, Pool(k))
             reserves == [t \in Tokens |-> ReserveOf(linked, t)]
             price == IF CometOf(m, Pool(k)) = None THEN None ELSE m.price
  <2>1. Value(m, k) = [holder |-> m.holders[k], poolShares |-> m.balances[Pool(k)],
                       supply |-> linked.supply, reserves |-> reserves, price |-> price]
    BY <1>4 DEF Value
  <2>2. linked \in Facets
    BY <1>1, LinkedCometType
  <2>3. linked.supply \in Amounts \cup {None}
    BY <2>2 DEF Facets
  <2>4. reserves \in [Tokens -> Amounts \cup {None}]
    BY <2>2, RecordsType
  <2>5. price \in Amounts \cup {None}
    BY <1>2
  <2> HIDE DEF reserves, price, linked
  <2>6. [holder |-> m.holders[k], poolShares |-> m.balances[Pool(k)],
         supply |-> linked.supply, reserves |-> reserves, price |-> price] \in Position
    BY <1>2, <1>4, <2>3, <2>4, <2>5 DEF Position
  <2>7. Value(m, k).holder = m.holders[k]
    BY <2>1
  <2> QED
    BY <1>4, <2>1, <2>6, <2>7, PositionNoneAssumption
<1> QED
  BY <1>3, <1>4

\* Equal inputs are valued alike: the same link, alike Comets.
LEMMA SameInputsSameValue ==
    ASSUME NEW m \in Mirror, NEW n \in Mirror, NEW k \in Pairs,
           m.holders[k] = n.holders[k],
           CometOf(m, Pool(k)) = CometOf(n, Pool(k)),
           \A c \in Comets : CometOf(m, Pool(k)) = c => CometAlike(m.comets[c], n.comets[c])
    PROVE  /\ m.balances[Pool(k)] = n.balances[Pool(k)] =>
                SameButPrice(Value(m, k), Value(n, k))
           /\ m.price = n.price => SameButBalance(Value(m, k), Value(n, k))
           /\ m.balances[Pool(k)] = n.balances[Pool(k)] /\ m.price = n.price =>
                Value(m, k) = Value(n, k)
<1> DEFINE p == Pool(k)
<1>1. p \in Pools
  BY DEF Pairs, Pool
<1>2. CASE m.holders[k] = None
  BY <1>2 DEF Value, SameButPrice, SameButBalance
<1>3. CASE m.holders[k] # None
  <2>1. CometOf(m, p) \in Comets \cup {None}
    BY <1>1, CometOfType DEF Mirror
  <2>2. /\ LinkedComet(m, p).supply = LinkedComet(n, p).supply
        /\ \A t \in Tokens : ReserveOf(LinkedComet(m, p), t) = ReserveOf(LinkedComet(n, p), t)
    <3>1. CASE CometOf(m, p) = None
      BY <3>1 DEF LinkedComet
    <3>2. CASE CometOf(m, p) # None
      <4> DEFINE c == CometOf(m, p)
      <4>1. c \in Comets /\ CometAlike(m.comets[c], n.comets[c])
        BY <2>1, <3>2
      <4>2. m.comets[c] \in Facets \cup {None} /\ n.comets[c] \in Facets \cup {None}
        BY <4>1 DEF Mirror
      <4>3. /\ EnsureComet(m.comets[c]) \in Facets
            /\ CometAlike(EnsureComet(m.comets[c]), EnsureComet(n.comets[c]))
        BY <4>1, <4>2, EnsuredComet
      <4>4. /\ LinkedComet(m, p) = EnsureComet(m.comets[c])
            /\ LinkedComet(n, p) = EnsureComet(n.comets[c])
        BY <3>2 DEF LinkedComet
      <4> QED
        BY <4>3, <4>4, FacetsNeverNone DEF CometAlike
    <3> QED
      BY <3>1, <3>2
  <2> DEFINE mReserves == [t \in Tokens |-> ReserveOf(LinkedComet(m, p), t)]
             nReserves == [t \in Tokens |-> ReserveOf(LinkedComet(n, p), t)]
             mPrice == IF CometOf(m, p) = None THEN None ELSE m.price
             nPrice == IF CometOf(n, p) = None THEN None ELSE n.price
  <2>3. mReserves = nReserves
    BY <2>2
  <2>4. m.price = n.price => mPrice = nPrice
    OBVIOUS
  <2>5. /\ Value(m, k) = [holder |-> m.holders[k], poolShares |-> m.balances[p],
                          supply |-> LinkedComet(m, p).supply,
                          reserves |-> mReserves, price |-> mPrice]
        /\ Value(n, k) = [holder |-> n.holders[k], poolShares |-> n.balances[p],
                          supply |-> LinkedComet(n, p).supply,
                          reserves |-> nReserves, price |-> nPrice]
    BY <1>3 DEF Value
  <2>6. Value(m, k) # None /\ Value(n, k) # None
    BY <1>3, ValueType
  <2> HIDE DEF mReserves, nReserves, mPrice, nPrice
  <2> QED
    BY <2>2, <2>3, <2>4, <2>5, <2>6 DEF SameButPrice, SameButBalance
<1> QED
  BY <1>2, <1>3

-----------------------------------------------------------------------------
(* The round trip.                                                         *)

LEMMA AlikeEquivalence ==
    /\ \A m : Alike(m, m)
    /\ \A m, n : Alike(m, n) => Alike(n, m)
    /\ \A l, m, n : Alike(l, m) /\ Alike(m, n) => Alike(l, n)
BY CometAlikeEquivalence DEF Alike

\* The pools of the returned state: same pools, same links, the emissions of
\* the mirror.
LEMMA MergedPoolsType ==
    ASSUME NEW m \in Mirror
    PROVE  /\ MergedPools(m) \in [Pools -> PoolState \cup {None}]
           /\ \A p \in Pools :
                /\ MergedPools(m)[p] = None <=> m.pools[p] = None
                /\ m.pools[p] # None =>
                     /\ MergedPools(m)[p].backstop = m.pools[p].backstop
                     /\ MergedPools(m)[p].emissions = m.emissions[p]
<1> SUFFICES ASSUME NEW p \in Pools
             PROVE  /\ MergedPools(m)[p] \in PoolState \cup {None}
                    /\ MergedPools(m)[p] = None <=> m.pools[p] = None
                    /\ m.pools[p] # None =>
                         /\ MergedPools(m)[p].backstop = m.pools[p].backstop
                         /\ MergedPools(m)[p].emissions = m.emissions[p]
  BY DEF MergedPools
<1>1. /\ m.pools[p] \in PoolState \cup {None}
      /\ m.balances[p] \in Amounts \cup {None} /\ m.emissions[p] \in Amounts \cup {None}
  BY DEF Mirror
<1>2. CASE m.pools[p] = None
  BY <1>2 DEF MergedPools
<1>3. CASE m.pools[p] # None
  <2> DEFINE merged == [m.pools[p] EXCEPT !.balance   = MergeBalance(@, m.balances[p]),
                                          !.emissions = MergeEmissions(@, m.emissions[p])]
  <2>1. MergedPools(m)[p] = merged
    BY <1>3 DEF MergedPools
  <2>2. MergeBalance(m.pools[p].balance, m.balances[p]) \in Amounts \cup {None}
    BY <1>1, <1>3 DEF MergeBalance, PoolState
  <2>3. /\ merged \in PoolState
        /\ merged.backstop = m.pools[p].backstop
        /\ merged.emissions = m.emissions[p]
    BY <1>1, <1>3, <2>2 DEF PoolState, MergeEmissions
  <2> HIDE DEF merged
  <2> QED
    BY <1>3, <2>1, <2>3, BackstopNoneAssumption
<1> QED
  BY <1>2, <1>3

LEMMA StoredType ==
    ASSUME NEW pools \in [Pools -> PoolState \cup {None}]
    PROVE  /\ Stored(pools, "balance") \in [Pools -> Amounts \cup {None}]
           /\ Stored(pools, "emissions") \in [Pools -> Amounts \cup {None}]
BY DEF Stored, PoolState

LEMMA BuildType ==
    ASSUME NEW m \in Mirror
    PROVE  Build(m) \in State
<1> DEFINE positions == [k \in Pairs |-> Value(m, k)]
           ammPools == [c \in Comets |-> IF m.comets[c] = None THEN None
                                         ELSE BuildComet(m.comets[c])]
<1>1. MergedPools(m) \in [Pools -> PoolState \cup {None}]
  BY MergedPoolsType
<1>2. positions \in [Pairs -> Position \cup {None}]
  BY ValueType
<1>3. ammPools \in [Comets -> Carrier \cup {None}]
  BY BuildCometType DEF Mirror
<1>4. m.instances \in [Backstops -> Comets \cup {None}] /\ m.price \in Amounts \cup {None}
  BY DEF Mirror
<1> HIDE DEF positions, ammPools
<1>5. [pools |-> MergedPools(m), positions |-> positions, instances |-> m.instances,
       ammPools |-> ammPools, price |-> m.price] \in State
  BY <1>1, <1>2, <1>3, <1>4 DEF State
<1> QED
  BY <1>5 DEF Build, positions, ammPools

LEMMA RestoreCometType ==
    ASSUME NEW carrier \in Carrier
    PROVE  RestoreComet(carrier) \in Facets
<1>1. carrier.supply \in Amounts \cup {None}
  BY DEF Carrier
<1>2. CASE carrier.listed = None
  BY <1>1, <1>2 DEF RestoreComet, UnseenComet, Facets
<1>3. CASE carrier.listed # None
  <2>1. carrier.listed \in Partial(Tokens, Amounts \cup {None})
    BY <1>3 DEF Carrier
  <2>2. PICK D \in SUBSET Tokens : carrier.listed \in [D -> Amounts \cup {None}]
    BY <2>1 DEF Partial
  <2> DEFINE records == [t \in PricedTokens(carrier) |-> carrier.listed[t]]
             known == DOMAIN carrier.listed = {} \/ PricedTokens(carrier) # {}
  <2>3. records \in [PricedTokens(carrier) -> Amounts] /\ PricedTokens(carrier) \in SUBSET Tokens
    BY <2>2 DEF PricedTokens
  <2>4. records \in Partial(Tokens, Amounts)
    BY <2>3 DEF Partial
  <2>5. DOMAIN carrier.listed \in TokenVecs
    BY <2>2 DEF TokenVecs
  <2>6. RestoreComet(carrier) = [tokens |-> DOMAIN carrier.listed,
                                 records |-> IF known THEN records ELSE None,
                                 supply |-> carrier.supply]
    BY <1>3 DEF RestoreComet
  <2> HIDE DEF records, known
  <2> QED
    BY <1>1, <2>4, <2>5, <2>6 DEF Facets
<1> QED
  BY <1>2, <1>3

LEMMA LoadPriorType ==
    ASSUME NEW s \in State
    PROVE  LoadPrior(s) \in Mirror
<1> DEFINE holders == [k \in Pairs |-> IF s.positions[k] = None THEN None
                                       ELSE s.positions[k].holder]
           comets == [c \in Comets |-> IF s.ammPools[c] = None THEN None
                                       ELSE RestoreComet(s.ammPools[c])]
<1>1. /\ s.pools \in [Pools -> PoolState \cup {None}]
      /\ s.instances \in [Backstops -> Comets \cup {None}]
      /\ s.price \in Amounts \cup {None}
  BY DEF State
<1>2. holders \in [Pairs -> Holder \cup {None}]
  BY DEF State, Position
<1>3. comets \in [Comets -> Facets \cup {None}]
  BY RestoreCometType DEF State
<1> HIDE DEF holders, comets
<1>4. [pools |-> s.pools, balances |-> Stored(s.pools, "balance"),
       emissions |-> Stored(s.pools, "emissions"), holders |-> holders,
       instances |-> s.instances, comets |-> comets, price |-> s.price,
       repriced |-> FALSE, touched |-> {}] \in Mirror
  BY <1>1, <1>2, <1>3, StoredType DEF Mirror
<1> QED
  BY <1>4 DEF LoadPrior, holders, comets

LEMMA CarryType ==
    ASSUME NEW m \in Mirror
    PROVE  Keep(m) \in Mirror /\ NormalizeCarry(m) \in Mirror
<1>1. Keep(m) \in Mirror
  BY MergedPoolsType DEF Keep, Mirror
<1>2. m.pools \in [Pools -> PoolState \cup {None}]
  BY DEF Mirror
<1>3. NormalizeCarry(m) \in Mirror
  BY <1>2, StoredType DEF NormalizeCarry, Mirror
<1> QED
  BY <1>1, <1>3

\* finalizeDirtyBackstops, field by field.
LEMMA MarkedPools ==
    ASSUME NEW m \in Mirror, NEW pools
    PROVE  /\ MarkPools(m, pools) \in Mirror
           /\ MarkPools(m, pools) = [m EXCEPT !.touched = m.touched \cup HoldersOf(m, pools)]
BY DEF MarkPools, HoldersOf, Mirror

\* Alike mirrors link and mark alike.
LEMMA AlikeLinks ==
    ASSUME NEW m, NEW n, Alike(m, n)
    PROVE  /\ \A p \in Pools : CometOf(m, p) = CometOf(n, p)
           /\ \A pools : HoldersOf(m, pools) = HoldersOf(n, pools)
BY DEF Alike, CometOf, HoldersOf

LEMMA AlikeMarks ==
    ASSUME NEW m \in Mirror, NEW n \in Mirror, Alike(m, n), NEW pools
    PROVE  Alike(MarkPools(m, pools), MarkPools(n, pools))
<1>1. HoldersOf(m, pools) = HoldersOf(n, pools)
  BY AlikeLinks
<1>2. /\ MarkPools(m, pools) = [m EXCEPT !.touched = m.touched \cup HoldersOf(m, pools)]
      /\ MarkPools(n, pools) = [n EXCEPT !.touched = n.touched \cup HoldersOf(n, pools)]
  BY MarkedPools
<1> QED
  BY <1>1, <1>2 DEF Alike, Mirror

\* Alike mirrors return the same positions and pools and report the same pairs.
LEMMA AlikeValues ==
    ASSUME NEW m \in Mirror, NEW n \in Mirror, Alike(m, n)
    PROVE  /\ \A k \in Pairs : Value(m, k) = Value(n, k)
           /\ Build(m).positions = Build(n).positions
           /\ Build(m).pools = Build(n).pools
           /\ MarkRepriced(m).touched = MarkRepriced(n).touched
           /\ Kinds(m) = Kinds(n)
<1>1. ASSUME NEW k \in Pairs
      PROVE  Value(m, k) = Value(n, k)
  <2>1. Pool(k) \in Pools
    BY DEF Pairs, Pool
  <2>2. CometOf(m, Pool(k)) = CometOf(n, Pool(k))
    BY <2>1, AlikeLinks
  <2> QED
    BY <2>2, SameInputsSameValue DEF Alike
<1>2. Build(m).positions = Build(n).positions
  BY <1>1 DEF Build
<1>3. Build(m).pools = Build(n).pools
  BY DEF Build, MergedPools, Alike
<1>4. MarkRepriced(m).touched = MarkRepriced(n).touched
  <2> DEFINE pools == {p \in Pools : CometOf(m, p) # None}
  <2>1. pools = {p \in Pools : CometOf(n, p) # None}
    BY AlikeLinks
  <2>2. Alike(MarkPools(m, pools), MarkPools(n, pools))
    BY AlikeMarks
  <2> HIDE DEF pools
  <2>3. m.repriced = n.repriced /\ m.touched = n.touched
    BY DEF Alike
  <2>4. MarkPools(m, pools).touched = MarkPools(n, pools).touched
    BY <2>2 DEF Alike
  <2>5. /\ MarkRepriced(m) = IF m.repriced THEN MarkPools(m, pools) ELSE m
        /\ MarkRepriced(n) = IF n.repriced THEN MarkPools(n, pools) ELSE n
    BY <2>1 DEF MarkRepriced, pools
  <2> QED
    BY <2>3, <2>4, <2>5
<1>5. Kinds(m) = Kinds(n)
  BY <1>4 DEF Kinds, Alike
<1> QED
  BY <1>1, <1>2, <1>3, <1>4, <1>5

\* What the next ledger continues from, in alike mirrors.
LEMMA AlikeCarries ==
    ASSUME NEW m \in Mirror, NEW n \in Mirror, Alike(m, n)
    PROVE  Alike(NormalizeCarry(Keep(m)), NormalizeCarry(Keep(n)))
<1>1. MergedPools(m) = MergedPools(n)
  BY DEF MergedPools, Alike
<1>2. Alike(Keep(m), Keep(n))
  BY <1>1 DEF Keep, Alike, Mirror
<1>3. Keep(m) \in Mirror /\ Keep(n) \in Mirror
  BY CarryType
<1> QED
  BY <1>2, <1>3 DEF NormalizeCarry, Alike, Mirror

\* normalizeCarry leaves what a reload of the returned state reconstructs, up
\* to the Comet facets the carrier does not distinguish.
LEMMA ReloadIsCarry ==
    ASSUME NEW m \in Mirror
    PROVE  Alike(LoadPrior(Build(m)), NormalizeCarry(Keep(m)))
<1> DEFINE l == LoadPrior(Build(m))
           n == NormalizeCarry(Keep(m))
<1>1. /\ l.pools = MergedPools(m)
      /\ l.balances = Stored(MergedPools(m), "balance")
      /\ l.emissions = Stored(MergedPools(m), "emissions")
      /\ l.instances = m.instances /\ l.price = m.price
      /\ l.repriced = FALSE /\ l.touched = {}
  BY DEF LoadPrior, Build
<1>2. /\ n.pools = MergedPools(m)
      /\ n.balances = Stored(MergedPools(m), "balance")
      /\ n.emissions = Stored(MergedPools(m), "emissions")
      /\ n.instances = m.instances /\ n.price = m.price
      /\ n.repriced = FALSE /\ n.touched = {}
      /\ n.holders = m.holders /\ n.comets = m.comets
  BY DEF NormalizeCarry, Keep, Mirror
<1>3. l.holders = m.holders
  <2>1. l.holders = [k \in Pairs |-> IF Value(m, k) = None THEN None ELSE Value(m, k).holder]
    BY DEF LoadPrior, Build
  <2>2. m.holders \in [Pairs -> Holder \cup {None}]
    BY DEF Mirror
  <2>3. \A k \in Pairs : l.holders[k] = m.holders[k]
    BY <2>1, ValueType
  <2> QED
    BY <2>1, <2>2, <2>3
<1>4. ASSUME NEW c \in Comets
      PROVE  CometAlike(l.comets[c], m.comets[c])
  <2>1. m.comets[c] \in Facets \cup {None}
    BY DEF Mirror
  <2>2. Build(m).ammPools[c] = IF m.comets[c] = None THEN None ELSE BuildComet(m.comets[c])
    BY DEF Build
  <2>3. l.comets[c] = IF Build(m).ammPools[c] = None THEN None
                      ELSE RestoreComet(Build(m).ammPools[c])
    BY DEF LoadPrior
  <2>4. CASE m.comets[c] = None
    BY <2>2, <2>3, <2>4, CometAlikeEquivalence
  <2>5. CASE m.comets[c] # None
    <3>1. Build(m).ammPools[c] = BuildComet(m.comets[c]) /\ m.comets[c] \in Facets
      BY <2>1, <2>2, <2>5
    <3>2. BuildComet(m.comets[c]) # None
      BY <3>1, BuildCometType, CometNoneAssumption
    <3>3. l.comets[c] = RestoreComet(BuildComet(m.comets[c]))
      BY <2>3, <3>1, <3>2
    <3> QED
      BY <3>1, <3>3, RestoredComet
  <2> QED
    BY <2>4, <2>5
<1> HIDE DEF l, n
<1>5. Alike(l, n)
  BY <1>1, <1>2, <1>3, <1>4 DEF Alike
<1> QED
  BY <1>5 DEF l, n

\* The returned state reloads.
LEMMA BuildReloads ==
    ASSUME NEW m \in Mirror
    PROVE  Reloads(Build(m))
<1> SUFFICES ASSUME NEW k \in Pairs
             PROVE  SameButBalance(Value(LoadPrior(Build(m)), k), Value(m, k))
  BY DEF Reloads, Build
<1> DEFINE n == NormalizeCarry(Keep(m))
<1>1. LoadPrior(Build(m)) \in Mirror /\ n \in Mirror
  BY BuildType, LoadPriorType, CarryType
<1>2. Value(LoadPrior(Build(m)), k) = Value(n, k)
  BY <1>1, ReloadIsCarry, AlikeValues
<1>3. /\ n.holders = m.holders /\ n.comets = m.comets /\ n.instances = m.instances
      /\ n.price = m.price /\ n.pools = MergedPools(m)
  BY DEF NormalizeCarry, Keep, Mirror
<1> HIDE DEF n
<1>4. Pool(k) \in Pools
  BY DEF Pairs, Pool
<1>5. CometOf(n, Pool(k)) = CometOf(m, Pool(k))
  BY <1>3, <1>4, MergedPoolsType DEF CometOf
<1>6. SameButBalance(Value(n, k), Value(m, k))
  BY <1>1, <1>3, <1>5, SameInputsSameValue, CometAlikeEquivalence
<1> QED
  BY <1>2, <1>6

-----------------------------------------------------------------------------
(* What a change may move.                                                 *)

\* Every pair whose valuation moves is touched, revalued by a price, or in a
\* pool whose link may have moved.
Moves(m, next, pools) ==
    /\ m.touched \subseteq next.touched
    /\ m.repriced => next.repriced
    /\ \A k \in Pairs :
          \/ k \in next.touched
          \/ Pool(k) \in pools
          \/ /\ CometOf(next, Pool(k)) = CometOf(m, Pool(k))
             /\ SameButPrice(Value(next, k), Value(m, k))
             /\ next.repriced \/ Value(next, k) = Value(m, k)

\* The inputs of a pair's valuation stay, or it has no holder.
SameInputs(m, next, k) ==
    /\ next.holders[k] = m.holders[k]
    /\ CometOf(next, Pool(k)) = CometOf(m, Pool(k))
    /\ next.holders[k] # None =>
          /\ next.balances[Pool(k)] = m.balances[Pool(k)]
          /\ \A c \in Comets : CometOf(m, Pool(k)) = c => next.comets[c] = m.comets[c]
          /\ next.repriced \/ next.price = m.price

LEMMA InputsMove ==
    ASSUME NEW m \in Mirror, NEW next \in Mirror, NEW pools,
           m.touched \subseteq next.touched,
           m.repriced => next.repriced,
           \A k \in Pairs : k \in next.touched \/ Pool(k) \in pools \/ SameInputs(m, next, k)
    PROVE  Moves(m, next, pools)
<1> SUFFICES ASSUME NEW k \in Pairs, SameInputs(m, next, k)
             PROVE  /\ CometOf(next, Pool(k)) = CometOf(m, Pool(k))
                    /\ SameButPrice(Value(next, k), Value(m, k))
                    /\ next.repriced \/ Value(next, k) = Value(m, k)
  BY DEF Moves
<1>1. CASE next.holders[k] = None
  BY <1>1 DEF SameInputs, Value, SameButPrice
<1>2. CASE next.holders[k] # None
  <2>1. \A c \in Comets : CometOf(next, Pool(k)) = c => CometAlike(next.comets[c], m.comets[c])
    BY <1>2, CometAlikeEquivalence DEF SameInputs
  <2> QED
    BY <1>2, <2>1, SameInputsSameValue DEF SameInputs
<1> QED
  BY <1>1, <1>2

\* A change of the mirror: it stays one, both strategies move alike, and the
\* pairs it moves are accounted for.
Sound(m, n, mNext, nNext, pools) ==
    /\ mNext \in Mirror
    /\ nNext \in Mirror
    /\ Alike(mNext, nNext)
    /\ Moves(m, mNext, pools)

\* An entry that writes one pool.
LEMMA PoolChangeSound ==
    ASSUME NEW m \in Mirror, NEW n \in Mirror, Alike(m, n),
           NEW p \in Pools, NEW pool \in PoolState \cup {None}, NEW relinks,
           \/ p \in relinks
           \/ CometOf([m EXCEPT !.pools[p] = pool], p) = CometOf(m, p)
    PROVE  Sound(m, n, [m EXCEPT !.pools[p] = pool], [n EXCEPT !.pools[p] = pool], relinks)
<1> DEFINE mNext == [m EXCEPT !.pools[p] = pool]
           nNext == [n EXCEPT !.pools[p] = pool]
<1>1. mNext \in Mirror /\ nNext \in Mirror
  BY DEF Mirror
<1>2. Alike(mNext, nNext)
  BY DEF Alike, Mirror
<1>3. ASSUME NEW k \in Pairs, Pool(k) \notin relinks
      PROVE  SameInputs(m, mNext, k)
  <2>1. Pool(k) \in Pools
    BY DEF Pairs, Pool
  <2>2. CometOf(mNext, Pool(k)) = CometOf(m, Pool(k))
    <3>1. CASE Pool(k) = p
      BY <1>3, <3>1
    <3>2. CASE Pool(k) # p
      BY <2>1, <3>2 DEF CometOf, Mirror
    <3> QED
      BY <3>1, <3>2
  <2> QED
    BY <2>2 DEF SameInputs, Mirror
<1>4. m.touched = mNext.touched /\ m.repriced = mNext.repriced
  BY DEF Mirror
<1> HIDE DEF mNext, nNext
<1>5. Moves(m, mNext, relinks)
  BY <1>1, <1>3, <1>4, InputsMove
<1>6. Sound(m, n, mNext, nNext, relinks)
  BY <1>1, <1>2, <1>5 DEF Sound
<1> QED
  BY <1>6 DEF mNext, nNext

LEMMA EnsurePoolType ==
    ASSUME NEW pool \in PoolState \cup {None}
    PROVE  EnsurePool(pool) \in PoolState /\ EnsurePool(pool) # None
BY BackstopNoneAssumption DEF EnsurePool, NewPool, PoolState

LEMMA PoolWritesSound ==
    ASSUME NEW m \in Mirror, NEW n \in Mirror, Alike(m, n), NEW p \in Pools,
           NEW relinks
    PROVE  /\ Sound(m, n, WritePool(m, p), WritePool(n, p), relinks)
           /\ p \in relinks =>
                /\ Sound(m, n, DeletePool(m, p), DeletePool(n, p), relinks)
                /\ \A b \in Backstops :
                      Sound(m, n, WriteLink(m, p, b), WriteLink(n, p, b), relinks)
                /\ Sound(m, n, DeleteLink(m, p), DeleteLink(n, p), relinks)
<1>1. m.pools[p] = n.pools[p] /\ m.pools[p] \in PoolState \cup {None}
  BY DEF Alike, Mirror
<1>2. Sound(m, n, WritePool(m, p), WritePool(n, p), relinks)
  <2> DEFINE pool == EnsurePool(m.pools[p])
  <2>1. pool \in PoolState /\ pool # None
    BY <1>1, EnsurePoolType
  <2>2. CometOf([m EXCEPT !.pools[p] = pool], p) = CometOf(m, p)
    <3>1. [m EXCEPT !.pools[p] = pool].pools[p] = pool
          /\ [m EXCEPT !.pools[p] = pool].instances = m.instances
      BY DEF Mirror
    <3>2. m.pools[p] = None => pool.backstop = None
      BY DEF EnsurePool, NewPool
    <3>3. m.pools[p] # None => pool = m.pools[p]
      BY DEF EnsurePool
    <3> HIDE DEF pool
    <3> QED
      BY <2>1, <3>1, <3>2, <3>3 DEF CometOf
  <2>3. WritePool(m, p) = [m EXCEPT !.pools[p] = pool] /\ WritePool(n, p) = [n EXCEPT !.pools[p] = pool]
    BY <1>1 DEF WritePool
  <2> HIDE DEF pool
  <2> QED
    BY <2>1, <2>2, <2>3, PoolChangeSound
<1>3. ASSUME p \in relinks
      PROVE  Sound(m, n, DeletePool(m, p), DeletePool(n, p), relinks)
  BY <1>3, PoolChangeSound DEF DeletePool
<1>4. ASSUME p \in relinks, NEW b \in Backstops
      PROVE  Sound(m, n, WriteLink(m, p, b), WriteLink(n, p, b), relinks)
  <2> DEFINE pool == [EnsurePool(m.pools[p]) EXCEPT !.backstop = b]
  <2>1. pool \in PoolState
    BY <1>1, EnsurePoolType DEF PoolState
  <2>2. WriteLink(m, p, b) = [m EXCEPT !.pools[p] = pool] /\ WriteLink(n, p, b) = [n EXCEPT !.pools[p] = pool]
    BY <1>1 DEF WriteLink
  <2> HIDE DEF pool
  <2> QED
    BY <1>4, <2>1, <2>2, PoolChangeSound
<1>5. ASSUME p \in relinks
      PROVE  Sound(m, n, DeleteLink(m, p), DeleteLink(n, p), relinks)
  <2>1. CASE m.pools[p] = None
    <3>1. DeleteLink(m, p) = m /\ DeleteLink(n, p) = n
      BY <1>1, <2>1 DEF DeleteLink
    <3>2. \A k \in Pairs : SameInputs(m, m, k)
      BY DEF SameInputs
    <3>3. Moves(m, m, relinks)
      BY <3>2, InputsMove
    <3> QED
      BY <3>1, <3>3 DEF Sound
  <2>2. CASE m.pools[p] # None
    <3> DEFINE pool == [m.pools[p] EXCEPT !.backstop = None]
    <3>1. pool \in PoolState
      BY <1>1, <2>2 DEF PoolState
    <3>2. DeleteLink(m, p) = [m EXCEPT !.pools[p] = pool] /\ DeleteLink(n, p) = [n EXCEPT !.pools[p] = pool]
      BY <1>1, <2>2 DEF DeleteLink
    <3> HIDE DEF pool
    <3> QED
      BY <1>5, <3>1, <3>2, PoolChangeSound
  <2> QED
    BY <2>1, <2>2
<1> QED
  BY <1>2, <1>3, <1>4, <1>5

\* A backstop instance relinks the pools of that backstop alone.
LEMMA InstanceChangeSound ==
    ASSUME NEW m \in Mirror, NEW n \in Mirror, Alike(m, n),
           NEW b \in Backstops, NEW c \in Comets \cup {None}, NEW relinks,
           \A p \in Pools : m.pools[p] # None /\ m.pools[p].backstop = b => p \in relinks
    PROVE  Sound(m, n, [m EXCEPT !.instances[b] = c], [n EXCEPT !.instances[b] = c], relinks)
<1> DEFINE mNext == [m EXCEPT !.instances[b] = c]
           nNext == [n EXCEPT !.instances[b] = c]
<1>1. mNext \in Mirror /\ nNext \in Mirror
  BY DEF Mirror
<1>2. Alike(mNext, nNext)
  BY DEF Alike, Mirror
<1>3. ASSUME NEW k \in Pairs, Pool(k) \notin relinks
      PROVE  SameInputs(m, mNext, k)
  <2>1. Pool(k) \in Pools
    BY DEF Pairs, Pool
  <2>2. m.pools[Pool(k)] = None \/ m.pools[Pool(k)].backstop # b
    BY <1>3, <2>1
  <2>3. m.pools[Pool(k)] # None => m.pools[Pool(k)].backstop \in Backstops \cup {None}
    BY <2>1 DEF Mirror, PoolState
  <2>4. CometOf(mNext, Pool(k)) = CometOf(m, Pool(k))
    BY <2>1, <2>2, <2>3 DEF CometOf, Mirror
  <2> QED
    BY <2>4 DEF SameInputs, Mirror
<1>4. m.touched = mNext.touched /\ m.repriced = mNext.repriced
  BY DEF Mirror
<1> HIDE DEF mNext, nNext
<1>5. Moves(m, mNext, relinks)
  BY <1>1, <1>3, <1>4, InputsMove
<1>6. Sound(m, n, mNext, nNext, relinks)
  BY <1>1, <1>2, <1>5 DEF Sound
<1> QED
  BY <1>6 DEF mNext, nNext

\* A pool's balance revalues its holders, which are marked.
LEMMA BalanceChangeSound ==
    ASSUME NEW m \in Mirror, NEW n \in Mirror, Alike(m, n),
           NEW p \in Pools, NEW v \in Amounts \cup {None}, NEW relinks
    PROVE  Sound(m, n, MarkPools([m EXCEPT !.balances[p] = v], {p}),
                       MarkPools([n EXCEPT !.balances[p] = v], {p}), relinks)
<1> DEFINE mWritten == [m EXCEPT !.balances[p] = v]
           nWritten == [n EXCEPT !.balances[p] = v]
           mNext == MarkPools(mWritten, {p})
           nNext == MarkPools(nWritten, {p})
<1>1. mWritten \in Mirror /\ nWritten \in Mirror
  BY DEF Mirror
<1>2. Alike(mWritten, nWritten)
  BY DEF Alike, Mirror
<1>3. /\ mWritten.pools = m.pools /\ mWritten.instances = m.instances
      /\ mWritten.holders = m.holders /\ mWritten.comets = m.comets
      /\ mWritten.price = m.price /\ mWritten.repriced = m.repriced
      /\ mWritten.touched = m.touched
      /\ \A q \in Pools : q # p => mWritten.balances[q] = m.balances[q]
  BY DEF Mirror
<1> HIDE DEF mWritten, nWritten
<1>4. /\ mNext \in Mirror /\ nNext \in Mirror /\ Alike(mNext, nNext)
      /\ mNext = [mWritten EXCEPT !.touched = mWritten.touched \cup HoldersOf(mWritten, {p})]
  BY <1>1, <1>2, MarkedPools, AlikeMarks
<1>5. /\ mNext.pools = m.pools /\ mNext.instances = m.instances
      /\ mNext.holders = m.holders /\ mNext.comets = m.comets
      /\ mNext.price = m.price /\ mNext.repriced = m.repriced
      /\ mNext.balances = mWritten.balances
      /\ mNext.touched = m.touched \cup HoldersOf(mWritten, {p})
  BY <1>1, <1>3, <1>4 DEF Mirror
<1> HIDE DEF mNext, nNext
<1>6. ASSUME NEW k \in Pairs, k \notin mNext.touched
      PROVE  SameInputs(m, mNext, k)
  <2>1. Pool(k) \in Pools
    BY DEF Pairs, Pool
  <2>2. m.holders[k] = None \/ Pool(k) # p
    BY <1>3, <1>5, <1>6 DEF HoldersOf
  <2>3. CometOf(mNext, Pool(k)) = CometOf(m, Pool(k))
    BY <1>5 DEF CometOf
  <2> QED
    BY <1>3, <1>5, <2>1, <2>2, <2>3 DEF SameInputs
<1>7. Moves(m, mNext, relinks)
  BY <1>4, <1>5, <1>6, InputsMove
<1>8. Sound(m, n, mNext, nNext, relinks)
  BY <1>4, <1>7 DEF Sound
<1> QED
  BY <1>8 DEF mNext, nNext, mWritten, nWritten

\* The emissions value nobody.
LEMMA EmissionsChangeSound ==
    ASSUME NEW m \in Mirror, NEW n \in Mirror, Alike(m, n),
           NEW p \in Pools, NEW v \in Amounts \cup {None}, NEW relinks
    PROVE  Sound(m, n, [m EXCEPT !.emissions[p] = v], [n EXCEPT !.emissions[p] = v], relinks)
<1> DEFINE mNext == [m EXCEPT !.emissions[p] = v]
           nNext == [n EXCEPT !.emissions[p] = v]
<1>1. mNext \in Mirror /\ nNext \in Mirror
  BY DEF Mirror
<1>2. Alike(mNext, nNext)
  BY DEF Alike, Mirror
<1>3. /\ mNext.pools = m.pools /\ mNext.instances = m.instances /\ mNext.comets = m.comets
      /\ mNext.holders = m.holders /\ mNext.balances = m.balances /\ mNext.price = m.price
      /\ mNext.repriced = m.repriced /\ mNext.touched = m.touched
  BY DEF Mirror
<1> HIDE DEF mNext, nNext
<1>4. \A k \in Pairs : SameInputs(m, mNext, k)
  BY <1>3 DEF SameInputs, CometOf
<1>5. Moves(m, mNext, relinks)
  BY <1>1, <1>3, <1>4, InputsMove
<1>6. Sound(m, n, mNext, nNext, relinks)
  BY <1>1, <1>2, <1>5 DEF Sound
<1> QED
  BY <1>6 DEF mNext, nNext

\* A holder's own entries mark it.
LEMMA HolderChangeSound ==
    ASSUME NEW m \in Mirror, NEW n \in Mirror, Alike(m, n),
           NEW k \in Pairs, NEW holder \in Holder \cup {None}, NEW relinks
    PROVE  Sound(m, n, Touch(m, k, holder), Touch(n, k, holder), relinks)
<1> DEFINE mNext == Touch(m, k, holder)
           nNext == Touch(n, k, holder)
<1>1. mNext \in Mirror /\ nNext \in Mirror
  BY DEF Mirror, Touch
<1>2. Alike(mNext, nNext)
  BY DEF Alike, Mirror, Touch
<1>3. /\ mNext.pools = m.pools /\ mNext.instances = m.instances /\ mNext.comets = m.comets
      /\ mNext.balances = m.balances /\ mNext.price = m.price /\ mNext.repriced = m.repriced
      /\ mNext.touched = m.touched \cup {k}
      /\ \A j \in Pairs : j # k => mNext.holders[j] = m.holders[j]
  BY DEF Mirror, Touch
<1> HIDE DEF mNext, nNext
<1>4. \A j \in Pairs : j \notin mNext.touched => SameInputs(m, mNext, j)
  BY <1>3 DEF SameInputs, CometOf
<1>5. Moves(m, mNext, relinks)
  BY <1>1, <1>3, <1>4, InputsMove
<1>6. Sound(m, n, mNext, nNext, relinks)
  BY <1>1, <1>2, <1>5 DEF Sound
<1> QED
  BY <1>6 DEF mNext, nNext

\* A price revalues the holders it is about to mark.
LEMMA RepriceSound ==
    ASSUME NEW m \in Mirror, NEW n \in Mirror, Alike(m, n),
           NEW v \in Amounts \cup {None}, NEW relinks
    PROVE  Sound(m, n, Reprice(m, v), Reprice(n, v), relinks)
<1> DEFINE mNext == Reprice(m, v)
           nNext == Reprice(n, v)
<1>1. mNext \in Mirror /\ nNext \in Mirror
  BY DEF Mirror, Reprice
<1>2. Alike(mNext, nNext)
  BY DEF Alike, Mirror, Reprice
<1>3. /\ mNext.pools = m.pools /\ mNext.instances = m.instances /\ mNext.comets = m.comets
      /\ mNext.holders = m.holders /\ mNext.balances = m.balances
      /\ mNext.repriced = TRUE /\ mNext.touched = m.touched
  BY DEF Mirror, Reprice
<1> HIDE DEF mNext, nNext
<1>4. \A k \in Pairs : SameInputs(m, mNext, k)
  BY <1>3 DEF SameInputs, CometOf
<1>5. Moves(m, mNext, relinks)
  BY <1>1, <1>3, <1>4, InputsMove
<1>6. Sound(m, n, mNext, nNext, relinks)
  BY <1>1, <1>2, <1>5 DEF Sound
<1> QED
  BY <1>6 DEF mNext, nNext

\* A Comet entry revalues the holders of the pools linked to that Comet, which
\* are marked.
LEMMA CometChangeSound ==
    ASSUME NEW m \in Mirror, NEW n \in Mirror, Alike(m, n), NEW c \in Comets,
           NEW x \in Facets \cup {None}, NEW y \in Facets \cup {None}, CometAlike(x, y),
           NEW relinks
    PROVE  Sound(m, n, MarkComet([m EXCEPT !.comets[c] = x], c),
                       MarkComet([n EXCEPT !.comets[c] = y], c), relinks)
<1> DEFINE mWritten == [m EXCEPT !.comets[c] = x]
           nWritten == [n EXCEPT !.comets[c] = y]
           pools == {p \in Pools : CometOf(mWritten, p) = c}
           mNext == MarkComet(mWritten, c)
           nNext == MarkComet(nWritten, c)
<1>1. mWritten \in Mirror /\ nWritten \in Mirror
  BY DEF Mirror
<1>2. Alike(mWritten, nWritten)
  BY DEF Alike, Mirror
<1>3. /\ mWritten.pools = m.pools /\ mWritten.instances = m.instances
      /\ mWritten.holders = m.holders /\ mWritten.balances = m.balances
      /\ mWritten.price = m.price /\ mWritten.repriced = m.repriced
      /\ mWritten.touched = m.touched
      /\ \A d \in Comets : d # c => mWritten.comets[d] = m.comets[d]
  BY DEF Mirror
<1>4. mNext = MarkPools(mWritten, pools) /\ nNext = MarkPools(nWritten, pools)
  <2>1. pools = {p \in Pools : CometOf(nWritten, p) = c}
    BY <1>2, AlikeLinks
  <2> QED
    BY <2>1 DEF MarkComet
<1> HIDE DEF mWritten, nWritten, mNext, nNext
<1>5. /\ mNext \in Mirror /\ nNext \in Mirror /\ Alike(mNext, nNext)
      /\ mNext = [mWritten EXCEPT !.touched = mWritten.touched \cup HoldersOf(mWritten, pools)]
  BY <1>1, <1>2, <1>4, MarkedPools, AlikeMarks
<1>6. /\ mNext.pools = m.pools /\ mNext.instances = m.instances
      /\ mNext.holders = m.holders /\ mNext.balances = m.balances
      /\ mNext.price = m.price /\ mNext.repriced = m.repriced
      /\ mNext.comets = mWritten.comets
      /\ mNext.touched = m.touched \cup HoldersOf(mWritten, pools)
  BY <1>1, <1>3, <1>5 DEF Mirror
<1>7. ASSUME NEW k \in Pairs, k \notin mNext.touched
      PROVE  SameInputs(m, mNext, k)
  <2>1. Pool(k) \in Pools
    BY DEF Pairs, Pool
  <2>2. CometOf(mNext, Pool(k)) = CometOf(m, Pool(k)) /\ CometOf(mWritten, Pool(k)) = CometOf(m, Pool(k))
    BY <1>3, <1>6 DEF CometOf
  <2>3. m.holders[k] = None \/ CometOf(m, Pool(k)) # c
    BY <1>3, <1>6, <1>7, <2>1, <2>2 DEF HoldersOf
  <2> QED
    BY <1>3, <1>6, <2>2, <2>3 DEF SameInputs
<1>8. Moves(m, mNext, relinks)
  BY <1>5, <1>6, <1>7, InputsMove
<1>9. Sound(m, n, mNext, nNext, relinks)
  BY <1>5, <1>8 DEF Sound
<1> QED
  BY <1>9 DEF mNext, nNext, mWritten, nWritten

-----------------------------------------------------------------------------
(* The invariant of the decode.                                            *)

LEMMA EmptyMirrorType == EmptyMirror \in Mirror
BY DEF EmptyMirror, Mirror

\* What the next ledger starts from, with the pool level emissions it reads
\* back and the holders it read.
LEMMA ReloadedEntries ==
    ASSUME NEW m \in Mirror
    PROVE  /\ LoadPrior(Build(m)).holders = m.holders
           /\ \A p \in Pools : LoadPrior(Build(m)).emissions[p] =
                                  IF m.pools[p] = None THEN None ELSE m.emissions[p]
<1>1. NormalizeCarry(Keep(m)).holders = m.holders
  BY DEF NormalizeCarry, Keep, Mirror
<1>2. LoadPrior(Build(m)).holders = m.holders
  BY <1>1, ReloadIsCarry DEF Alike
<1>3. LoadPrior(Build(m)).emissions = Stored(MergedPools(m), "emissions")
  BY DEF LoadPrior, Build
<1> QED
  BY <1>2, <1>3, MergedPoolsType DEF Stored

LEMMA InitInv ==
    ASSUME Init
    PROVE  BackstopTypeOK /\ IInv
<1>1. Build(EmptyMirror) \in State /\ LoadPrior(Build(EmptyMirror)) \in Mirror
  BY EmptyMirrorType, BuildType, LoadPriorType
<1>2. EmptyChain \in Chain
  BY DEF EmptyChain, Chain
<1>3. BackstopTypeOK
  <2>1. applied \in 0..MaxChanges
    BY BackstopMaxChangesAssumption DEF Init
  <2>2. /\ phase \in {"idle", "applying"} /\ continues \in BOOLEAN
        /\ dirty \subseteq DirtyEntry /\ carriedDirty \subseteq DirtyEntry
        /\ relinked \subseteq Pools
    BY DEF Init
  <2>3. /\ reference \in Mirror /\ carried \in Mirror /\ chain \in Chain
        /\ {prior, out, carriedOut} \subseteq State
    BY <1>1, <1>2, EmptyMirrorType DEF Init
  <2> QED
    BY <2>1, <2>2, <2>3 DEF BackstopTypeOK
<1>4. \A k \in Pairs : LoadPrior(Build(EmptyMirror)).holders[k] = None
  BY EmptyMirrorType, ReloadedEntries DEF EmptyMirror
<1>5. \A p \in Pools : LoadPrior(Build(EmptyMirror)).emissions[p] = None
  BY EmptyMirrorType, ReloadedEntries DEF EmptyMirror
<1>6. IdleInv
  BY <1>4, <1>5, EmptyMirrorType, BuildReloads, AlikeEquivalence
     DEF Init, IdleInv, HoldersFollow, EmissionsFollow, RowOf, EmptyChain
<1> QED
  BY <1>3, <1>6 DEF Init, IInv

LEMMA BeginLedgerInv ==
    ASSUME BackstopTypeOK, IInv, BeginLedger
    PROVE  BackstopTypeOK' /\ IInv'
<1>1. /\ phase = "idle" /\ phase' = "applying" /\ reference' = LoadPrior(out)
      /\ carried' = IF continues THEN NormalizeCarry(carried) ELSE LoadPrior(carriedOut)
      /\ continues' = TRUE /\ prior' = out /\ relinked' = {}
      /\ UNCHANGED <<out, carriedOut, dirty, carriedDirty, applied, chain>>
  BY DEF BeginLedger
<1>2. out \in State /\ carriedOut \in State /\ carried \in Mirror
  BY DEF BackstopTypeOK
<1>3. reference' \in Mirror /\ carried' \in Mirror
  BY <1>1, <1>2, LoadPriorType, CarryType
<1>4. BackstopTypeOK'
  BY <1>1, <1>2, <1>3 DEF BackstopTypeOK
<1>5. IdleInv
  BY <1>1 DEF IInv
<1>6. Alike(reference, carried)'
  BY <1>1, <1>5 DEF IdleInv
<1>7. HoldersFollow(reference'.holders, chain') /\ EmissionsFollow(reference'.emissions, chain')
  BY <1>1, <1>5 DEF IdleInv, HoldersFollow, EmissionsFollow
<1>8. ASSUME NEW k \in Pairs, BalanceReloads(out, Pool(k))
      PROVE  /\ SameButPrice(Value(LoadPrior(out), k), out.positions[k])
             /\ out.positions[k] # None /\ CometOf(LoadPrior(out), Pool(k)) = None
                  => out.positions[k].price = None
             /\ Value(LoadPrior(out), k) = out.positions[k]
  <2> DEFINE v == Value(LoadPrior(out), k)
             w == out.positions[k]
  <2>1. SameButBalance(v, w)
    BY <1>5 DEF IdleInv, Reloads
  <2>2. v \in Position \cup {None} /\ w \in Position \cup {None}
    BY <1>2, <1>3, <1>1, ValueType DEF State
  <2>3. CASE w = None
    BY <2>1, <2>3 DEF SameButBalance, SameButPrice
  <2>4. CASE w # None
    <3>1. v # None /\ LoadPrior(out).holders[k] # None
      BY <1>1, <1>3, <2>1, <2>4, ValueType DEF SameButBalance
    <3>2. v = [holder |-> v.holder, poolShares |-> LoadPrior(out).balances[Pool(k)],
               supply |-> v.supply, reserves |-> v.reserves,
               price |-> IF CometOf(LoadPrior(out), Pool(k)) = None THEN None
                         ELSE LoadPrior(out).price]
      BY <3>1 DEF Value
    <3>3. LoadPrior(out).balances = Stored(out.pools, "balance")
      BY DEF LoadPrior
    <3>4. w.poolShares = Stored(out.pools, "balance")[Pool(k)]
      BY <1>8, <2>4 DEF BalanceReloads
    <3> HIDE DEF v, w
    <3>5. v.poolShares = w.poolShares
      BY <3>2, <3>3, <3>4
    <3>6. v \in Position /\ w \in Position
      BY <2>2, <2>4, <3>1
    <3>7. v = w
      BY <2>1, <3>1, <3>5, <3>6 DEF SameButBalance, Position
    <3>8. CometOf(LoadPrior(out), Pool(k)) = None => w.price = None
      BY <3>2, <3>7
    <3>9. SameButPrice(v, w)
      BY <3>7 DEF SameButPrice
    <3> QED
      BY <3>7, <3>8, <3>9 DEF v, w
  <2> QED
    BY <2>3, <2>4
<1>9. \A k \in Pairs : Following(k)'
  BY <1>1, <1>8 DEF Following, BalanceReloads
<1>10. ApplyingInv'
  BY <1>6, <1>7, <1>9 DEF ApplyingInv
<1> QED
  BY <1>1, <1>4, <1>10 DEF IInv

LEMMA EndLedgerInv ==
    ASSUME BackstopTypeOK, IInv, EndLedger
    PROVE  BackstopTypeOK' /\ IInv'
<1>1. /\ phase = "applying" /\ phase' = "idle"
      /\ out' = Build(reference) /\ carriedOut' = Build(carried)
      /\ dirty' = Kinds(reference) /\ carriedDirty' = Kinds(carried)
      /\ reference' = EmptyMirror /\ carried' = Keep(carried) /\ applied' = 0
      /\ chain' = [chain EXCEPT !.balances  = Forget(chain.balances, reference.pools),
                                !.emissions = Forget(chain.emissions, reference.pools)]
      /\ UNCHANGED <<continues, prior, relinked>>
  BY DEF EndLedger, BackstopTypeOK, Chain
<1>2. reference \in Mirror /\ carried \in Mirror /\ chain \in Chain
  BY DEF BackstopTypeOK
<1>3. /\ chain' \in Chain /\ chain'.shares = chain.shares /\ chain'.accrued = chain.accrued
      /\ \A p \in Pools : chain'.emissions[p] =
            IF reference.pools[p] = None THEN None ELSE chain.emissions[p]
  BY <1>1, <1>2 DEF Chain, Forget
<1>4. ASSUME NEW m \in Mirror
      PROVE  Kinds(m) \subseteq DirtyEntry
  <2>1. MarkRepriced(m).touched \subseteq Pairs
    BY MarkedPools DEF MarkRepriced, Mirror
  <2> QED
    BY <2>1 DEF Kinds, DirtyEntry
<1>5. BackstopTypeOK'
  BY <1>1, <1>2, <1>3, <1>4, BuildType, CarryType, EmptyMirrorType, BackstopMaxChangesAssumption
     DEF BackstopTypeOK
<1>6. ApplyingInv
  BY <1>1 DEF IInv
<1>7. /\ Alike(LoadPrior(out'), NormalizeCarry(carried'))
      /\ Alike(LoadPrior(out'), LoadPrior(carriedOut'))
  <2>1. Alike(LoadPrior(out'), NormalizeCarry(Keep(reference)))
    BY <1>1, <1>2, ReloadIsCarry
  <2>2. Alike(NormalizeCarry(Keep(reference)), NormalizeCarry(Keep(carried)))
    BY <1>2, <1>6, AlikeCarries DEF ApplyingInv
  <2>3. Alike(LoadPrior(carriedOut'), NormalizeCarry(Keep(carried)))
    BY <1>1, <1>2, ReloadIsCarry
  <2>4. Alike(LoadPrior(out'), NormalizeCarry(Keep(carried)))
    BY <2>1, <2>2, AlikeEquivalence
  <2>5. Alike(NormalizeCarry(Keep(carried)), LoadPrior(carriedOut'))
    BY <2>3, AlikeEquivalence
  <2>6. Alike(LoadPrior(out'), LoadPrior(carriedOut'))
    BY <2>4, <2>5, AlikeEquivalence
  <2> QED
    BY <1>1, <2>4, <2>6
<1>8. /\ HoldersFollow(LoadPrior(out').holders, chain')
      /\ EmissionsFollow(LoadPrior(out').emissions, chain')
  BY <1>1, <1>2, <1>3, <1>6, ReloadedEntries
     DEF ApplyingInv, HoldersFollow, EmissionsFollow
<1>9. Reloads(out')
  BY <1>1, <1>2, BuildReloads
<1>10. IdleInv'
  BY <1>7, <1>8, <1>9 DEF IdleInv
<1> QED
  BY <1>1, <1>5, <1>10 DEF IInv

LEMMA RestartInv ==
    ASSUME BackstopTypeOK, IInv, Restart
    PROVE  BackstopTypeOK' /\ IInv'
<1>1. BackstopTypeOK'
  BY EmptyMirrorType DEF Restart, BackstopTypeOK
<1>2. IdleInv'
  BY DEF Restart, IInv, IdleInv, HoldersFollow, EmissionsFollow
<1> QED
  BY <1>1, <1>2 DEF Restart, IInv

\* A change that moves both mirrors soundly keeps the invariant, when holders
\* and emissions follow what it says of the chain.
LEMMA ChangeInv ==
    ASSUME BackstopTypeOK, IInv, NEW mNext, NEW nNext,
           Apply(mNext, nNext),
           Sound(reference, carried, mNext, nNext, relinked'),
           relinked \subseteq relinked', relinked' \subseteq Pools,
           chain' \in Chain,
           HoldersFollow(mNext.holders, chain'),
           EmissionsFollow(mNext.emissions, chain')
    PROVE  BackstopTypeOK' /\ IInv'
<1>1. /\ phase = "applying" /\ phase' = "applying" /\ applied < MaxChanges
      /\ applied' = applied + 1 /\ reference' = mNext /\ carried' = nNext
      /\ UNCHANGED <<continues, prior, out, carriedOut, dirty, carriedDirty>>
  BY DEF Apply
<1>2. mNext \in Mirror /\ nNext \in Mirror /\ Alike(mNext, nNext) /\ Moves(reference, mNext, relinked')
  BY DEF Sound
<1>3. applied' \in 0..MaxChanges
  BY <1>1, BackstopMaxChangesAssumption DEF BackstopTypeOK
<1>4. BackstopTypeOK'
  BY <1>1, <1>2, <1>3 DEF BackstopTypeOK
<1>5. ASSUME NEW k \in Pairs
      PROVE  Following(k)'
  <2>1. Following(k)
    BY <1>1 DEF IInv, ApplyingInv
  <2>2. CASE k \in mNext.touched \/ Pool(k) \in relinked'
    BY <1>1, <2>2 DEF Following
  <2>3. CASE k \notin mNext.touched /\ Pool(k) \notin relinked'
    <3>1. /\ CometOf(mNext, Pool(k)) = CometOf(reference, Pool(k))
          /\ SameButPrice(Value(mNext, k), Value(reference, k))
          /\ mNext.repriced \/ Value(mNext, k) = Value(reference, k)
          /\ reference.repriced => mNext.repriced
          /\ k \notin reference.touched
      BY <1>2, <2>3 DEF Moves
    <3>2. CASE ~BalanceReloads(prior, Pool(k))
      BY <1>1, <3>2 DEF Following, BalanceReloads
    <3>3. CASE BalanceReloads(prior, Pool(k))
      <4>1. /\ SameButPrice(Value(reference, k), prior.positions[k])
            /\ prior.positions[k] # None /\ CometOf(reference, Pool(k)) = None
                 => prior.positions[k].price = None
            /\ ~reference.repriced => Value(reference, k) = prior.positions[k]
        BY <2>1, <2>3, <3>1, <3>3 DEF Following
      <4>2. SameButPrice(Value(mNext, k), prior.positions[k])
        BY <3>1, <4>1 DEF SameButPrice
      <4> QED
        BY <1>1, <3>1, <4>1, <4>2 DEF Following
    <3> QED
      BY <3>2, <3>3
  <2> QED
    BY <2>2, <2>3
<1>6. ApplyingInv'
  BY <1>1, <1>2, <1>5 DEF ApplyingInv
<1> QED
  BY <1>1, <1>4, <1>6 DEF IInv

\* What an applying ledger knows.
LEMMA ApplyingFacts ==
    ASSUME BackstopTypeOK, IInv, phase = "applying"
    PROVE  /\ reference \in Mirror /\ carried \in Mirror /\ Alike(reference, carried)
           /\ HoldersFollow(reference.holders, chain)
           /\ EmissionsFollow(reference.emissions, chain)
           /\ chain \in Chain /\ relinked \subseteq Pools
BY DEF BackstopTypeOK, IInv, ApplyingInv

\* The entries of pools and backstop contracts, and those of a Comet.
LEMMA PoolEntriesInv ==
    ASSUME BackstopTypeOK, IInv, NEW p \in Pools,
           \/ PoolWritten(p)
           \/ PoolDeleted(p)
           \/ \E b \in Backstops : LinkWritten(p, b)
           \/ LinkDeleted(p)
    PROVE  BackstopTypeOK' /\ IInv'
<1> USE ApplyingFacts
<1>1. CASE PoolWritten(p)
  <2>1. Apply(WritePool(reference, p), WritePool(carried, p)) /\ UNCHANGED <<chain, relinked>>
    BY <1>1 DEF PoolWritten, Unobserved
  <2>2. phase = "applying"
    BY <2>1 DEF Apply
  <2>3. /\ WritePool(reference, p).holders = reference.holders
        /\ WritePool(reference, p).emissions = reference.emissions
    BY <2>2 DEF WritePool, Mirror
  <2> QED
    BY <2>1, <2>2, <2>3, PoolWritesSound, ChangeInv
<1>2. CASE PoolDeleted(p)
  <2>1. /\ Apply(DeletePool(reference, p), DeletePool(carried, p))
        /\ relinked' = relinked \cup {p} /\ UNCHANGED chain
    BY <1>2 DEF PoolDeleted, Relinks
  <2>2. phase = "applying"
    BY <2>1 DEF Apply
  <2>3. /\ DeletePool(reference, p).holders = reference.holders
        /\ DeletePool(reference, p).emissions = reference.emissions
    BY <2>2 DEF DeletePool, Mirror
  <2> QED
    BY <2>1, <2>2, <2>3, PoolWritesSound, ChangeInv
<1>3. ASSUME NEW b \in Backstops, LinkWritten(p, b)
      PROVE  BackstopTypeOK' /\ IInv'
  <2>1. /\ Apply(WriteLink(reference, p, b), WriteLink(carried, p, b))
        /\ relinked' = relinked \cup {p} /\ UNCHANGED chain
    BY <1>3 DEF LinkWritten, Relinks
  <2>2. phase = "applying"
    BY <2>1 DEF Apply
  <2>3. /\ WriteLink(reference, p, b).holders = reference.holders
        /\ WriteLink(reference, p, b).emissions = reference.emissions
    BY <2>2 DEF WriteLink, Mirror
  <2> QED
    BY <2>1, <2>2, <2>3, PoolWritesSound, ChangeInv
<1>4. CASE LinkDeleted(p)
  <2>1. /\ Apply(DeleteLink(reference, p), DeleteLink(carried, p))
        /\ relinked' = relinked \cup {p} /\ UNCHANGED chain
    BY <1>4 DEF LinkDeleted, Relinks
  <2>2. phase = "applying"
    BY <2>1 DEF Apply
  <2>3. /\ DeleteLink(reference, p).holders = reference.holders
        /\ DeleteLink(reference, p).emissions = reference.emissions
    BY <2>2 DEF DeleteLink, Mirror
  <2> QED
    BY <2>1, <2>2, <2>3, PoolWritesSound, ChangeInv
<1> QED
  BY <1>1, <1>2, <1>3, <1>4

LEMMA InstanceEntriesInv ==
    ASSUME BackstopTypeOK, IInv, NEW b \in Backstops,
           InstanceDeleted(b) \/ \E c \in Comets : InstanceWritten(b, c)
    PROVE  BackstopTypeOK' /\ IInv'
<1>1. PICK c \in Comets \cup {None} :
         /\ Apply([reference EXCEPT !.instances[b] = c], [carried EXCEPT !.instances[b] = c])
         /\ relinked' = relinked \cup LinkedTo(b)
         /\ UNCHANGED chain
  BY DEF InstanceDeleted, InstanceWritten, WriteInstance, DeleteInstance, Relinks
<1> DEFINE next == [reference EXCEPT !.instances[b] = c]
<1>2. phase = "applying"
  BY <1>1 DEF Apply
<1>3. next.holders = reference.holders /\ next.emissions = reference.emissions
  BY <1>2, ApplyingFacts DEF Mirror
<1>4. \A p \in Pools : reference.pools[p] # None /\ reference.pools[p].backstop = b
         => p \in relinked'
  BY <1>1 DEF LinkedTo
<1>5. relinked \subseteq relinked' /\ relinked' \subseteq Pools
  BY <1>1, <1>2, ApplyingFacts DEF LinkedTo
<1>6. Sound(reference, carried, next, [carried EXCEPT !.instances[b] = c], relinked')
  BY <1>2, <1>4, ApplyingFacts, InstanceChangeSound
<1> HIDE DEF next
<1>7. Apply(next, [carried EXCEPT !.instances[b] = c])
  BY <1>1 DEF next
<1> QED
  BY <1>1, <1>2, <1>3, <1>5, <1>6, <1>7, ApplyingFacts, ChangeInv

\* The two entries of a pool that ride on it.
LEMMA PoolBalanceInv ==
    ASSUME BackstopTypeOK, IInv, NEW p \in Pools,
           PoolBalanceDeleted(p) \/ \E v \in Amounts : PoolBalanceWritten(p, v)
    PROVE  BackstopTypeOK' /\ IInv'
<1> DEFINE Written(m, v) == MarkPools([m EXCEPT !.balances[p] = v], {p})
<1>1. PICK v \in Amounts \cup {None} :
         /\ Apply(Written(reference, v), Written(carried, v))
         /\ chain' = [chain EXCEPT !["balances"][p] = v]
         /\ UNCHANGED relinked
  BY DEF PoolBalanceDeleted, PoolBalanceWritten, WritePoolBalance, DeletePoolBalance, Observes
<1>2. phase = "applying"
  BY <1>1 DEF Apply
<1>3. /\ Written(reference, v).holders = reference.holders
      /\ Written(reference, v).emissions = reference.emissions
  BY <1>2, ApplyingFacts DEF MarkPools, Mirror
<1>4. chain' \in Chain /\ chain'.shares = chain.shares /\ chain'.accrued = chain.accrued
      /\ chain'.emissions = chain.emissions
  BY <1>1, <1>2, ApplyingFacts DEF Chain
<1>5. HoldersFollow(Written(reference, v).holders, chain')
      /\ EmissionsFollow(Written(reference, v).emissions, chain')
  BY <1>2, <1>3, <1>4, ApplyingFacts DEF HoldersFollow, EmissionsFollow
<1>6. Sound(reference, carried, Written(reference, v), Written(carried, v), relinked')
  BY <1>2, ApplyingFacts, BalanceChangeSound
<1> HIDE DEF Written
<1> QED
  BY <1>1, <1>2, <1>4, <1>5, <1>6, ApplyingFacts, ChangeInv

LEMMA PoolEmissionsInv ==
    ASSUME BackstopTypeOK, IInv, NEW p \in Pools,
           PoolEmissionsDeleted(p) \/ \E v \in Amounts : PoolEmissionsWritten(p, v)
    PROVE  BackstopTypeOK' /\ IInv'
<1> DEFINE Written(m, v) == [m EXCEPT !.emissions[p] = v]
<1>1. PICK v \in Amounts \cup {None} :
         /\ Apply(Written(reference, v), Written(carried, v))
         /\ chain' = [chain EXCEPT !["emissions"][p] = v]
         /\ UNCHANGED relinked
  BY DEF PoolEmissionsDeleted, PoolEmissionsWritten, WritePoolEmissions, DeletePoolEmissions,
         Observes
<1>2. phase = "applying"
  BY <1>1 DEF Apply
<1>3. /\ Written(reference, v).holders = reference.holders
      /\ \A q \in Pools : Written(reference, v).emissions[q] =
                             IF q = p THEN v ELSE reference.emissions[q]
  BY <1>2, ApplyingFacts DEF Mirror
<1>4. chain' \in Chain /\ chain'.shares = chain.shares /\ chain'.accrued = chain.accrued
      /\ \A q \in Pools : chain'.emissions[q] = IF q = p THEN v ELSE chain.emissions[q]
  BY <1>1, <1>2, ApplyingFacts DEF Chain
<1>5. HoldersFollow(Written(reference, v).holders, chain')
      /\ EmissionsFollow(Written(reference, v).emissions, chain')
  BY <1>2, <1>3, <1>4, ApplyingFacts DEF HoldersFollow, EmissionsFollow
<1>6. Sound(reference, carried, Written(reference, v), Written(carried, v), relinked')
  BY <1>2, ApplyingFacts, EmissionsChangeSound
<1> HIDE DEF Written
<1> QED
  BY <1>1, <1>2, <1>4, <1>5, <1>6, ApplyingFacts, ChangeInv

\* An own entry of a holder: the row becomes what its two halves leave.
LEMMA TouchInv ==
    ASSUME BackstopTypeOK, IInv, NEW k \in Pairs, NEW holder \in Holder \cup {None},
           Apply(Touch(reference, k, holder), Touch(carried, k, holder)),
           chain' \in Chain, chain'.emissions = chain.emissions, UNCHANGED relinked,
           \A j \in Pairs : j # k => /\ chain'.shares[j] = chain.shares[j]
                                     /\ chain'.accrued[j] = chain.accrued[j],
           holder = RowOf(chain'.shares[k], chain'.accrued[k])
    PROVE  BackstopTypeOK' /\ IInv'
<1> DEFINE next == Touch(reference, k, holder)
<1>1. phase = "applying"
  BY DEF Apply
<1>2. /\ \A j \in Pairs : next.holders[j] = IF j = k THEN holder ELSE reference.holders[j]
      /\ next.emissions = reference.emissions
  BY <1>1, ApplyingFacts DEF Touch, Mirror
<1>3. HoldersFollow(next.holders, chain') /\ EmissionsFollow(next.emissions, chain')
  BY <1>1, <1>2, ApplyingFacts DEF HoldersFollow, EmissionsFollow
<1>4. Sound(reference, carried, next, Touch(carried, k, holder), relinked')
  BY <1>1, ApplyingFacts, HolderChangeSound
<1> QED
  BY <1>1, <1>3, <1>4, ApplyingFacts, ChangeInv

\* A row is a holder with both halves as written.
LEMMA RowType ==
    ASSUME NEW s \in Amounts \cup {None}, NEW a \in Amounts \cup {None}
    PROVE  /\ RowOf(s, a) \in Holder \cup {None}
           /\ RowOf(s, a) = None <=> s = None /\ a = None
           /\ RowOf(s, a) # None => RowOf(s, a) = [shares |-> s, accrued |-> a]
<1> DEFINE h == [shares |-> s, accrued |-> a]
<1>1. h \in Halves
  BY DEF Halves
<1>2. h.shares = s /\ h.accrued = a
  OBVIOUS
<1>3. RowOf(s, a) = IF s = None /\ a = None THEN None ELSE h
  BY DEF RowOf
<1> HIDE DEF h
<1>4. h # None
  BY <1>1, BackstopNoneAssumption
<1> QED
  BY <1>1, <1>2, <1>3, <1>4 DEF Holder, h

\* What a change of one half makes of the row.
LEMMA HalfChange ==
    ASSUME NEW s \in Amounts \cup {None}, NEW a \in Amounts \cup {None},
           NEW m, NEW k, m.holders[k] = RowOf(s, a)
    PROVE  /\ \A v \in Amounts : /\ WriteShares(m, k, v) = Touch(m, k, RowOf(v, a))
                                 /\ WriteAccrued(m, k, v) = Touch(m, k, RowOf(s, v))
           /\ DeleteShares(m, k) = Touch(m, k, RowOf(None, a))
           /\ RowOf(s, a) # None => DeleteAccrued(m, k) = Touch(m, k, RowOf(s, None))
           /\ RowOf(s, a) = None => DeleteAccrued(m, k) = m /\ s = None /\ a = None
<1>1. None \notin Amounts
  BY FacetsNeverNone
<1>2. EnsureHolder(RowOf(s, a)) = [shares |-> s, accrued |-> a]
  BY RowType DEF EnsureHolder
<1>5. ASSUME NEW v \in Amounts
      PROVE  /\ WriteShares(m, k, v) = Touch(m, k, RowOf(v, a))
             /\ WriteAccrued(m, k, v) = Touch(m, k, RowOf(s, v))
  <2>1. /\ [EnsureHolder(m.holders[k]) EXCEPT !.shares = v] = [shares |-> v, accrued |-> a]
        /\ [EnsureHolder(m.holders[k]) EXCEPT !.accrued = v] = [shares |-> s, accrued |-> v]
    BY <1>2
  <2>2. /\ RowOf(v, a) = [shares |-> v, accrued |-> a]
        /\ RowOf(s, v) = [shares |-> s, accrued |-> v]
    BY <1>1 DEF RowOf
  <2> QED
    BY <2>1, <2>2 DEF WriteShares, WriteAccrued
<1>6. CASE RowOf(s, a) = None
  <2>1. s = None /\ a = None
    BY <1>6, RowType
  <2>2. RowOf(None, a) = None
    BY <2>1 DEF RowOf
  <2> QED
    BY <1>5, <1>6, <2>1, <2>2 DEF DeleteShares, DeleteAccrued
<1>7. CASE RowOf(s, a) # None
  <2>1. RowOf(s, a) = [shares |-> s, accrued |-> a] /\ ~(s = None /\ a = None)
    BY <1>7, RowType
  <2>2. m.holders[k].shares = s /\ m.holders[k].accrued = a
    BY <2>1
  <2>3. DeleteShares(m, k) = Touch(m, k, RowOf(None, a))
    <3>1. CASE a = None
      BY <1>7, <2>2, <3>1 DEF DeleteShares, RowOf
    <3>2. CASE a # None
      <4>1. [m.holders[k] EXCEPT !.shares = None] = [shares |-> None, accrued |-> a]
        BY <2>1
      <4> QED
        BY <1>7, <2>2, <3>2, <4>1 DEF DeleteShares, RowOf
    <3> QED
      BY <3>1, <3>2
  <2>4. DeleteAccrued(m, k) = Touch(m, k, RowOf(s, None))
    <3>1. CASE s = None
      BY <1>7, <2>2, <3>1 DEF DeleteAccrued, RowOf
    <3>2. CASE s # None
      <4>1. [m.holders[k] EXCEPT !.accrued = None] = [shares |-> s, accrued |-> None]
        BY <2>1
      <4> QED
        BY <1>7, <2>2, <3>2, <4>1 DEF DeleteAccrued, RowOf
    <3> QED
      BY <3>1, <3>2
  <2> QED
    BY <1>5, <1>7, <2>3, <2>4
<1> QED
  BY <1>6, <1>7

\* A change that moves nothing but what is said of the chain.
LEMMA SoundStutter ==
    ASSUME NEW m \in Mirror, NEW n \in Mirror, Alike(m, n), NEW relinks
    PROVE  Sound(m, n, m, n, relinks)
<1>1. \A k \in Pairs : SameInputs(m, m, k)
  BY DEF SameInputs
<1>2. Moves(m, m, relinks)
  BY <1>1, InputsMove
<1> QED
  BY <1>2 DEF Sound

LEMMA HalvesInv ==
    ASSUME BackstopTypeOK, IInv, NEW k \in Pairs,
           \/ SharesDeleted(k)
           \/ AccruedDeleted(k)
           \/ \E v \in Amounts : SharesWritten(k, v) \/ AccruedWritten(k, v)
    PROVE  BackstopTypeOK' /\ IInv'
<1> DEFINE s == chain.shares[k]
           a == chain.accrued[k]
<1>1. phase = "applying" /\ UNCHANGED relinked
  BY DEF SharesDeleted, AccruedDeleted, SharesWritten, AccruedWritten, Apply, Observes
<1>2. /\ s \in Amounts \cup {None} /\ a \in Amounts \cup {None}
      /\ reference.holders[k] = RowOf(s, a) /\ carried.holders[k] = RowOf(s, a)
  BY <1>1, ApplyingFacts DEF Chain, HoldersFollow, Alike
<1>3. ASSUME NEW v \in Amounts \cup {None}, chain' = [chain EXCEPT !["shares"][k] = v]
      PROVE  /\ chain' \in Chain /\ chain'.emissions = chain.emissions
             /\ chain'.shares[k] = v /\ chain'.accrued[k] = a
             /\ \A j \in Pairs : j # k => /\ chain'.shares[j] = chain.shares[j]
                                          /\ chain'.accrued[j] = chain.accrued[j]
  BY <1>1, <1>3, ApplyingFacts DEF Chain
<1>4. ASSUME NEW v \in Amounts \cup {None}, chain' = [chain EXCEPT !["accrued"][k] = v]
      PROVE  /\ chain' \in Chain /\ chain'.emissions = chain.emissions
             /\ chain'.shares[k] = s /\ chain'.accrued[k] = v
             /\ \A j \in Pairs : j # k => /\ chain'.shares[j] = chain.shares[j]
                                          /\ chain'.accrued[j] = chain.accrued[j]
  BY <1>1, <1>4, ApplyingFacts DEF Chain
<1> HIDE DEF s, a
<1>5. ASSUME NEW v \in Amounts, SharesWritten(k, v)
      PROVE  BackstopTypeOK' /\ IInv'
  <2>1. Apply(Touch(reference, k, RowOf(v, a)), Touch(carried, k, RowOf(v, a)))
    BY <1>2, <1>5, HalfChange DEF SharesWritten
  <2>2. chain' = [chain EXCEPT !["shares"][k] = v]
    BY <1>5 DEF SharesWritten, Observes
  <2>3. RowOf(v, a) \in Holder \cup {None}
    BY <1>2, RowType
  <2> QED
    BY <1>1, <1>3, <2>1, <2>2, <2>3, TouchInv
<1>6. ASSUME NEW v \in Amounts, AccruedWritten(k, v)
      PROVE  BackstopTypeOK' /\ IInv'
  <2>1. Apply(Touch(reference, k, RowOf(s, v)), Touch(carried, k, RowOf(s, v)))
    BY <1>2, <1>6, HalfChange DEF AccruedWritten
  <2>2. chain' = [chain EXCEPT !["accrued"][k] = v]
    BY <1>6 DEF AccruedWritten, Observes
  <2>3. RowOf(s, v) \in Holder \cup {None}
    BY <1>2, RowType
  <2> QED
    BY <1>1, <1>4, <2>1, <2>2, <2>3, TouchInv
<1>7. CASE SharesDeleted(k)
  <2>1. Apply(DeleteShares(reference, k), DeleteShares(carried, k))
        /\ chain' = [chain EXCEPT !["shares"][k] = None]
    BY <1>7 DEF SharesDeleted, Observes
  <2>2. Apply(Touch(reference, k, RowOf(None, a)), Touch(carried, k, RowOf(None, a)))
    BY <1>2, <2>1, HalfChange
  <2>3. RowOf(None, a) \in Holder \cup {None}
    BY <1>2, RowType
  <2> QED
    BY <1>1, <1>3, <2>1, <2>2, <2>3, TouchInv
<1>8. CASE AccruedDeleted(k)
  <2>1. Apply(DeleteAccrued(reference, k), DeleteAccrued(carried, k))
        /\ chain' = [chain EXCEPT !["accrued"][k] = None]
    BY <1>8 DEF AccruedDeleted, Observes
  <2>2. CASE RowOf(s, a) # None
    <3>1. Apply(Touch(reference, k, RowOf(s, None)), Touch(carried, k, RowOf(s, None)))
      BY <1>2, <2>1, <2>2, HalfChange
    <3>2. RowOf(s, None) \in Holder \cup {None}
      BY <1>2, RowType
    <3> QED
      BY <1>1, <1>4, <2>1, <3>1, <3>2, TouchInv
  <2>3. CASE RowOf(s, a) = None
    <3>1. /\ DeleteAccrued(reference, k) = reference
          /\ DeleteAccrued(carried, k) = carried /\ s = None /\ a = None
      BY <1>2, <2>3, HalfChange
    <3>2. Apply(reference, carried)
      BY <2>1, <3>1
    <3>3. Sound(reference, carried, reference, carried, relinked')
      BY <1>1, ApplyingFacts, SoundStutter
    <3>4. HoldersFollow(reference.holders, chain')
      <4>1. ASSUME NEW j \in Pairs
            PROVE  chain'.shares[j] = chain.shares[j] /\ chain'.accrued[j] = chain.accrued[j]
        BY <1>4, <2>1, <3>1 DEF s, a
      <4> QED
        BY <1>1, <4>1, ApplyingFacts DEF HoldersFollow
    <3>5. EmissionsFollow(reference.emissions, chain')
      BY <1>1, <1>4, <2>1, ApplyingFacts DEF EmissionsFollow
    <3>6. chain' \in Chain
      BY <1>4, <2>1
    <3> QED
      BY <1>1, <3>2, <3>3, <3>4, <3>5, <3>6, ApplyingFacts, ChangeInv
  <2> QED
    BY <2>2, <2>3
<1> QED
  BY <1>5, <1>6, <1>7, <1>8

\* A Comet entry moves neither holders nor emissions.
LEMMA CometChangeInv ==
    ASSUME BackstopTypeOK, IInv, NEW c \in Comets,
           NEW x \in Facets \cup {None}, NEW y \in Facets \cup {None}, CometAlike(x, y),
           Apply(MarkComet([reference EXCEPT !.comets[c] = x], c),
                 MarkComet([carried EXCEPT !.comets[c] = y], c)),
           UNCHANGED <<chain, relinked>>
    PROVE  BackstopTypeOK' /\ IInv'
<1> DEFINE next == MarkComet([reference EXCEPT !.comets[c] = x], c)
<1>1. phase = "applying"
  BY DEF Apply
<1>2. next.holders = reference.holders /\ next.emissions = reference.emissions
  BY <1>1, ApplyingFacts DEF MarkComet, MarkPools, Mirror
<1>3. Sound(reference, carried, next, MarkComet([carried EXCEPT !.comets[c] = y], c), relinked')
  BY <1>1, ApplyingFacts, CometChangeSound
<1> HIDE DEF next
<1>4. Apply(next, MarkComet([carried EXCEPT !.comets[c] = y], c))
  BY DEF next
<1> QED
  BY <1>1, <1>2, <1>3, <1>4, ApplyingFacts, ChangeInv

LEMMA CometEntriesInv ==
    ASSUME BackstopTypeOK, IInv, NEW c \in Comets,
           \/ CometDeployed(c)
           \/ \E facet \in DOMAIN FacetValues :
                \/ CometFacetLapsed(c, facet)
                \/ \E v \in FacetValues[facet] : CometFacetWritten(c, facet, v)
    PROVE  BackstopTypeOK' /\ IInv'
<1> DEFINE x == reference.comets[c]
           y == carried.comets[c]
<1>1. phase = "applying" /\ UNCHANGED <<chain, relinked>>
  BY DEF CometDeployed, CometFacetLapsed, CometFacetWritten, Apply, Unobserved
<1>2. x \in Facets \cup {None} /\ y \in Facets \cup {None} /\ CometAlike(x, y)
  BY <1>1, ApplyingFacts DEF Mirror, Alike
<1>3. CASE CometDeployed(c)
  <2>1. Apply(MarkComet([reference EXCEPT !.comets[c] = CometInstance(x)], c),
              MarkComet([carried EXCEPT !.comets[c] = CometInstance(y)], c))
    BY <1>3 DEF CometDeployed, WriteCometInstance
  <2>2. CometInstance(x) \in Facets /\ CometInstance(y) \in Facets
        /\ CometAlike(CometInstance(x), CometInstance(y))
    BY <1>2, EnsuredComet DEF CometInstance
  <2> HIDE DEF x, y
  <2> QED
    BY <1>1, <2>1, <2>2, CometChangeInv
<1>4. ASSUME NEW facet \in DOMAIN FacetValues, NEW v \in FacetValues[facet],
             CometFacetWritten(c, facet, v)
      PROVE  BackstopTypeOK' /\ IInv'
  <2>1. Apply(MarkComet([reference EXCEPT !.comets[c] = WriteFacet(x, facet, v)], c),
              MarkComet([carried EXCEPT !.comets[c] = WriteFacet(y, facet, v)], c))
    BY <1>4 DEF CometFacetWritten, WriteCometFacet
  <2>2. CometAlike(y, x)
    BY <1>2, CometAlikeEquivalence
  <2> HIDE DEF x, y
  <2>3. WriteFacet(x, facet, v) \in Facets /\ CometAlike(WriteFacet(x, facet, v), WriteFacet(y, facet, v))
    BY <1>2, CometWrites
  <2>4. WriteFacet(y, facet, v) \in Facets
    BY <1>2, <2>2, CometWrites
  <2> QED
    BY <1>1, <2>1, <2>3, <2>4, CometChangeInv
<1>5. ASSUME NEW facet \in DOMAIN FacetValues, CometFacetLapsed(c, facet)
      PROVE  BackstopTypeOK' /\ IInv'
  <2>1. Apply(LapseCometFacet(reference, c, facet), LapseCometFacet(carried, c, facet))
    BY <1>5 DEF CometFacetLapsed
  <2>2. CASE x = None
    <3>1. y = None
      BY <1>2, <2>2 DEF CometAlike
    <3>2. Apply(reference, carried)
      BY <2>1, <2>2, <3>1 DEF LapseCometFacet
    <3>3. Sound(reference, carried, reference, carried, relinked')
      BY <1>1, ApplyingFacts, SoundStutter
    <3> QED
      BY <1>1, <3>2, <3>3, ApplyingFacts, ChangeInv
  <2>3. CASE x # None
    <3>1. y # None
      BY <1>2, <2>3 DEF CometAlike
    <3>2. Apply(MarkComet([reference EXCEPT !.comets[c] = LapseFacet(x, facet)], c),
                MarkComet([carried EXCEPT !.comets[c] = LapseFacet(y, facet)], c))
      BY <2>1, <2>3, <3>1 DEF LapseCometFacet
    <3>3. LapseFacet(x, facet) = [x EXCEPT ![facet] = None]
          /\ LapseFacet(y, facet) = [y EXCEPT ![facet] = None]
      BY <2>3, <3>1 DEF LapseFacet
    <3>4. x \in Facets /\ y \in Facets
      BY <1>2, <2>3, <3>1
    <3> HIDE DEF x, y
    <3>5. /\ [x EXCEPT ![facet] = None] \in Facets
          /\ [y EXCEPT ![facet] = None] \in Facets
      BY <3>4, SetFacetType
    <3>6. CometAlike([x EXCEPT ![facet] = None], [y EXCEPT ![facet] = None])
      BY <1>2, <3>4, SetFacetAlike
    <3> QED
      BY <1>1, <3>2, <3>3, <3>5, <3>6, CometChangeInv
  <2> QED
    BY <2>2, <2>3
<1> QED
  BY <1>3, <1>4, <1>5

LEMMA PriceMovedInv ==
    ASSUME BackstopTypeOK, IInv, NEW v \in Amounts \cup {None}, PriceMoved(v)
    PROVE  BackstopTypeOK' /\ IInv'
<1>1. phase = "applying" /\ Apply(Reprice(reference, v), Reprice(carried, v))
      /\ UNCHANGED <<chain, relinked>>
  BY DEF PriceMoved, Apply, Unobserved
<1>2. /\ Reprice(reference, v).holders = reference.holders
      /\ Reprice(reference, v).emissions = reference.emissions
  BY <1>1, ApplyingFacts DEF Reprice, Mirror
<1>3. Sound(reference, carried, Reprice(reference, v), Reprice(carried, v), relinked')
  BY <1>1, ApplyingFacts, RepriceSound
<1> QED
  BY <1>1, <1>2, <1>3, ApplyingFacts, ChangeInv

LEMMA NextInv ==
    ASSUME BackstopTypeOK, IInv, [Next]_vars
    PROVE  BackstopTypeOK' /\ IInv'
<1>1. CASE UNCHANGED vars
  BY <1>1 DEF vars, BackstopTypeOK, IInv, ApplyingInv, IdleInv, Following, BalanceReloads
<1>2. CASE BeginLedger
  BY <1>2, BeginLedgerInv
<1>3. CASE EndLedger
  BY <1>3, EndLedgerInv
<1>4. CASE Restart
  BY <1>4, RestartInv
<1>5. ASSUME NEW p \in Pools,
             \/ PoolWritten(p)
             \/ PoolDeleted(p)
             \/ LinkDeleted(p)
             \/ \E b \in Backstops : LinkWritten(p, b)
      PROVE  BackstopTypeOK' /\ IInv'
  BY <1>5, PoolEntriesInv
<1>6. ASSUME NEW p \in Pools,
             PoolBalanceDeleted(p) \/ \E v \in Amounts : PoolBalanceWritten(p, v)
      PROVE  BackstopTypeOK' /\ IInv'
  BY <1>6, PoolBalanceInv
<1>7. ASSUME NEW p \in Pools,
             PoolEmissionsDeleted(p) \/ \E v \in Amounts : PoolEmissionsWritten(p, v)
      PROVE  BackstopTypeOK' /\ IInv'
  BY <1>7, PoolEmissionsInv
<1>8. ASSUME NEW k \in Pairs,
             \/ SharesDeleted(k)
             \/ AccruedDeleted(k)
             \/ \E v \in Amounts : SharesWritten(k, v) \/ AccruedWritten(k, v)
      PROVE  BackstopTypeOK' /\ IInv'
  BY <1>8, HalvesInv
<1>9. ASSUME NEW b \in Backstops,
             InstanceDeleted(b) \/ \E c \in Comets : InstanceWritten(b, c)
      PROVE  BackstopTypeOK' /\ IInv'
  BY <1>9, InstanceEntriesInv
<1>10. ASSUME NEW c \in Comets,
              \/ CometDeployed(c)
              \/ \E facet \in DOMAIN FacetValues :
                    \/ CometFacetLapsed(c, facet)
                    \/ \E v \in FacetValues[facet] : CometFacetWritten(c, facet, v)
       PROVE  BackstopTypeOK' /\ IInv'
  BY <1>10, CometEntriesInv
<1>11. ASSUME NEW v \in Amounts \cup {None}, PriceMoved(v)
       PROVE  BackstopTypeOK' /\ IInv'
  BY <1>11, PriceMovedInv
<1> QED
  BY <1>1, <1>2, <1>3, <1>4, <1>5, <1>6, <1>7, <1>8, <1>9, <1>10, <1>11 DEF Next

-----------------------------------------------------------------------------
(* What the returned states promise.                                       *)

Promises == StrategiesValueAlike /\ DirtyBackstopsComplete

\* Nothing is returned while changes are applied.
LEMMA ChangeFrame ==
    ASSUME Next, ~EndLedger, ~Restart
    PROVE  phase' = "applying" /\ UNCHANGED <<out, carriedOut, dirty, carriedDirty>>
BY DEF Next, BeginLedger, Apply, PoolWritten, PoolDeleted, LinkWritten, LinkDeleted,
       InstanceWritten, InstanceDeleted, PoolBalanceWritten, PoolBalanceDeleted,
       PoolEmissionsWritten, PoolEmissionsDeleted, SharesWritten, SharesDeleted,
       AccruedWritten, AccruedDeleted, CometDeployed, CometFacetWritten, CometFacetLapsed,
       PriceMoved

\* A pair that is neither touched, nor marked by a price, nor in a relinked
\* pool is valued as in the prior state.
LEMMA UnreportedSame ==
    ASSUME BackstopTypeOK, ApplyingInv, NEW k \in Pairs,
           k \notin MarkRepriced(reference).touched,
           Pool(k) \notin relinked,
           BalanceReloads(prior, Pool(k))
    PROVE  Value(reference, k) = prior.positions[k]
<1> DEFINE v == Value(reference, k)
           w == prior.positions[k]
           linked == {p \in Pools : CometOf(reference, p) # None}
<1>1. reference \in Mirror /\ prior \in State /\ Pool(k) \in Pools
  BY DEF BackstopTypeOK, Pairs, Pool
<1>2. /\ v \in Position \cup {None} /\ w \in Position \cup {None}
      /\ v = None <=> reference.holders[k] = None
  BY <1>1, ValueType DEF State
<1>3. k \notin reference.touched
  BY <1>1, MarkedPools DEF MarkRepriced, Mirror
<1>4. /\ SameButPrice(v, w)
      /\ w # None /\ CometOf(reference, Pool(k)) = None => w.price = None
      /\ ~reference.repriced => v = w
  BY <1>3 DEF ApplyingInv, Following
<1>5. CASE ~reference.repriced
  BY <1>4, <1>5
<1>6. CASE v = None
  BY <1>4, <1>6 DEF SameButPrice
<1>7. CASE reference.repriced /\ v # None
  <2>1. MarkRepriced(reference) = [reference EXCEPT !.touched =
                                      reference.touched \cup HoldersOf(reference, linked)]
    BY <1>1, <1>7, MarkedPools DEF MarkRepriced
  <2>2. k \notin HoldersOf(reference, linked)
    BY <1>1, <2>1 DEF Mirror
  <2>3. CometOf(reference, Pool(k)) = None
    BY <1>1, <1>2, <1>7, <2>2 DEF HoldersOf
  <2>4. v.price = None
    BY <1>2, <1>7, <2>3 DEF Value
  <2>5. w # None /\ w.price = None
    BY <1>4, <1>7, <2>3 DEF SameButPrice
  <2> HIDE DEF v, w
  <2>6. v \in Position /\ w \in Position
    BY <1>2, <1>7, <2>5
  <2>7. v = w
    BY <1>4, <1>7, <2>4, <2>5, <2>6 DEF SameButPrice, Position
  <2> QED
    BY <2>7 DEF v, w
<1> QED
  BY <1>5, <1>6, <1>7

LEMMA EndLedgerPromises ==
    ASSUME BackstopTypeOK, IInv, EndLedger
    PROVE  Promises'
<1>1. /\ phase = "applying" /\ phase' = "idle"
      /\ out' = Build(reference) /\ carriedOut' = Build(carried)
      /\ dirty' = Kinds(reference) /\ carriedDirty' = Kinds(carried)
      /\ prior' = prior /\ relinked' = relinked
  BY DEF EndLedger
<1>2. reference \in Mirror /\ carried \in Mirror /\ ApplyingInv
  BY <1>1 DEF BackstopTypeOK, IInv
<1>3. StrategiesValueAlike'
  BY <1>1, <1>2, AlikeValues DEF StrategiesValueAlike, ApplyingInv
<1>4. ASSUME NEW k \in Pairs, Pool(k) \notin relinked, BalanceReloads(prior, Pool(k)),
             Build(reference).positions[k] # prior.positions[k]
      PROVE  [pair |-> k,
              kind |-> IF Build(reference).positions[k] = None THEN "removal" ELSE "upsert"]
                \in Kinds(reference)
  <2>1. Build(reference).positions[k] = Value(reference, k)
    BY DEF Build
  <2>2. k \in MarkRepriced(reference).touched
    BY <1>2, <1>4, <2>1, UnreportedSame
  <2>3. Value(reference, k) = None <=> reference.holders[k] = None
    BY <1>2, ValueType
  <2> QED
    BY <2>1, <2>2, <2>3 DEF Kinds
<1>5. DirtyBackstopsComplete'
  BY <1>1, <1>4 DEF DirtyBackstopsComplete, BalanceReloads
<1> QED
  BY <1>3, <1>5 DEF Promises

LEMMA NextPromises ==
    ASSUME BackstopTypeOK, IInv, Promises, [Next]_vars
    PROVE  Promises'
<1>1. CASE UNCHANGED vars \/ Restart
  BY <1>1 DEF vars, Restart, Promises, StrategiesValueAlike, DirtyBackstopsComplete,
              BalanceReloads
<1>2. CASE EndLedger
  BY <1>2, EndLedgerPromises
<1>3. CASE Next /\ ~EndLedger /\ ~Restart
  BY <1>3, ChangeFrame DEF Promises, StrategiesValueAlike, DirtyBackstopsComplete
<1> QED
  BY <1>1, <1>2, <1>3

LEMMA InitPromises ==
    ASSUME Init
    PROVE  Promises
BY DEF Init, Promises, StrategiesValueAlike, DirtyBackstopsComplete

\* Between two ledgers the state shows the entries of the chain.
LEMMA IdleFollows ==
    ASSUME BackstopTypeOK, IInv
    PROVE  HalvesFollowChain /\ EmissionsFollowChain
<1>1. ASSUME phase = "idle", NEW k \in Pairs
      PROVE  IF chain.shares[k] = None /\ chain.accrued[k] = None
             THEN out.positions[k] = None
             ELSE /\ out.positions[k] # None
                  /\ out.positions[k].holder = [shares  |-> chain.shares[k],
                                                accrued |-> chain.accrued[k]]
  <2>1. out.positions[k] \in Position \cup {None}
    BY DEF BackstopTypeOK, State
  <2>2. LoadPrior(out).holders[k] = IF out.positions[k] = None THEN None
                                    ELSE out.positions[k].holder
    BY DEF LoadPrior
  <2>3. out.positions[k] # None => out.positions[k].holder # None
    BY <2>1, BackstopNoneAssumption DEF Position, Holder
  <2>4. LoadPrior(out).holders[k] = RowOf(chain.shares[k], chain.accrued[k])
    BY <1>1 DEF IInv, IdleInv, HoldersFollow
  <2>5. /\ chain.shares[k] \in Amounts \cup {None}
        /\ chain.accrued[k] \in Amounts \cup {None}
    BY DEF BackstopTypeOK, Chain
  <2> QED
    BY <2>2, <2>3, <2>4, <2>5, RowType
<1>2. ASSUME phase = "idle", NEW p \in Pools, out.pools[p] # None
      PROVE  out.pools[p].emissions = chain.emissions[p]
  <2>1. LoadPrior(out).emissions[p] = out.pools[p].emissions
    BY <1>2 DEF LoadPrior, Stored
  <2> QED
    BY <1>2, <2>1 DEF IInv, IdleInv, EmissionsFollow
<1> QED
  BY <1>1, <1>2 DEF HalvesFollowChain, EmissionsFollowChain

LEMMA SpecInv == Spec => [](BackstopTypeOK /\ IInv /\ Promises)
<1>1. Init => BackstopTypeOK /\ IInv /\ Promises
  BY InitInv, InitPromises
<1>2. BackstopTypeOK /\ IInv /\ Promises /\ [Next]_vars => (BackstopTypeOK /\ IInv /\ Promises)'
  BY NextInv, NextPromises
<1> QED
  BY <1>1, <1>2, PTL DEF Spec

(***************************************************************************)
(* Both mirrors, the three states, the reported sets and the chain stay of *)
(* their types, whatever is applied and wherever the process restarts.     *)
(***************************************************************************)
THEOREM BackstopTypes == Spec => []BackstopTypeOK
BY SpecInv, PTL

(***************************************************************************)
(* A holder's row exists exactly while one of its sibling entries does and *)
(* shows each half as last written: a write or a delete of one never       *)
(* clobbers the other (apply/applyDelete, UserBalance and UEmisData).      *)
(***************************************************************************)
THEOREM HalvesAreTheChains == Spec => []HalvesFollowChain
<1>1. BackstopTypeOK /\ IInv => HalvesFollowChain
  BY IdleFollows
<1> QED
  BY <1>1, SpecInv, PTL

(***************************************************************************)
(* The emission fields of a known pool are those last observed: a deleted  *)
(* entry does not linger from a prior ledger (mergeBackstopEmis).          *)
(***************************************************************************)
THEOREM EmissionsAreTheChains == Spec => []EmissionsFollowChain
<1>1. BackstopTypeOK /\ IInv => EmissionsFollowChain
  BY IdleFollows
<1> QED
  BY <1>1, SpecInv, PTL

(***************************************************************************)
(* A holder whose valuation differs from the prior state's is reported,    *)
(* with the right kind, unless its pool's link to a Comet moved or the     *)
(* prior state does not carry the balance it was valued with               *)
(* (finalizeDirtyBackstops, markCometDirty, markBackstopPoolDirty,         *)
(* propagateFeedPriceDirty).                                               *)
(***************************************************************************)
THEOREM DirtyBackstopsAreComplete == Spec => []DirtyBackstopsComplete
<1>1. Promises => DirtyBackstopsComplete
  BY DEF Promises
<1> QED
  BY <1>1, SpecInv, PTL

(***************************************************************************)
(* The two decode strategies return the same positions and pools and       *)
(* report the same holders, although the carried mirror keeps Comet facets *)
(* a reload cannot tell (restoreComet, normalizeCarry).                    *)
(***************************************************************************)
THEOREM StrategiesAgree == Spec => []StrategiesValueAlike
<1>1. Promises => StrategiesValueAlike
  BY DEF Promises
<1> QED
  BY <1>1, SpecInv, PTL
=============================================================================
