------------------------ MODULE BlendProjection_proofs ------------------------
(***************************************************************************)
(* Proofs about BlendProjection, for any users, pools, assets, and changes *)
(* between two emissions: type correctness, and what a Transform leaves a  *)
(* consumer with, whatever projections and restarts came before.           *)
(***************************************************************************)
EXTENDS BlendProjection, TLAPS

\* A state is of its type, and data and prices are those of its reserves.
StateOK(s) ==
    /\ s \in LedgerState
    /\ s.folded \subseteq s.reserves /\ s.priced \subseteq s.reserves

\* A leg is a row, and names its pair and its reserve.
LEMMA LegTypes ==
    /\ Leg \subseteq Row
    /\ \A l \in Leg : RowPair(l) \in Pair /\ LegReserve(l) \in Reserve
    /\ \A r \in Row : RowPair(r) \in Pair
BY DEF Leg, Row, RowPair, LegReserve, Pair, Reserve

\* What computeState emits is of its type.
LEMMA OutputTypes ==
    ASSUME NEW s, StateOK(s)
    PROVE  /\ computeState(s).positions \subseteq Row
           /\ computeState(s).summaries \in [Users -> {None} \cup SummaryRow]
<1>1. LegRows(s) \subseteq Row /\ BackstopRows(s) \subseteq Row
  BY LegTypes DEF StateOK, LedgerState, LegRows, UserLegs, BackstopRows
<1>2. Counted(s) \subseteq Row
  BY <1>1 DEF Counted
<1>3. \A u \in Users : Summary(s, u) \in {None} \cup SummaryRow
  BY <1>2 DEF Summary, SummaryRow
<1> QED
  BY <1>1, <1>3 DEF computeState

LEMMA InitTypes == Init => ProjectionTypeOK
BY ProjectionAssumption DEF Init, ProjectionTypeOK, LedgerState, Hash

\* A decode leads from a state of its type to one.
LEMMA DecodeTypes ==
    ASSUME ProjectionTypeOK, NEW next, StateOK(next),
           NEW positions \in SUBSET Pair, NEW backstops \in SUBSET Pair,
           Decode(next, positions, backstops)
    PROVE  ProjectionTypeOK'
BY ProjectionAssumption DEF ProjectionTypeOK, StateOK, Decode, Dirtied

\* Every change the model makes is such a decode.
LEMMA ChangeTypes ==
    ASSUME ProjectionTypeOK,
           \/ \E u \in Users, p \in Pools : PositionsChange(u, p)
           \/ \E r \in Reserve : ReserveConfigured(r)
           \/ \E r \in VolatilePools \X Assets : ReserveRemoved(r)
           \/ \E r \in Reserve : ReserveData(r)
           \/ \E r \in Reserve : PriceChange(r)
           \/ \E p \in VolatilePools : InstanceChange(p)
           \/ \E p \in VolatilePools : PoolRemoved(p)
           \/ \E k \in Users \X BackedPools : BackstopChange(k)
           \/ \E p \in BackedPools : LPPriceChange(p)
    PROVE  ProjectionTypeOK'
<1>0. /\ StateOK(state)
      /\ BackedPools \subseteq Pools /\ VolatilePools \subseteq Pools
      /\ Users \X BackedPools \subseteq Pair /\ VolatilePools \X Assets \subseteq Reserve
  BY ProjectionAssumption DEF ProjectionTypeOK, StateOK, Pair, Reserve
<1>a. {} \in SUBSET Pair /\ \A p : Pending(p) \in SUBSET Pair
  BY DEF Pending
<1>1. ASSUME NEW u \in Users, NEW p \in Pools, PositionsChange(u, p)
      PROVE  ProjectionTypeOK'
  <2>1. PICK legs \in SUBSET ({u} \X {p} \X Assets) :
          Decode([state EXCEPT !.held = {l \in @ : RowPair(l) # <<u, p>>} \cup legs],
                 {<<u, p>>}, {})
    BY <1>1 DEF PositionsChange
  <2>2. legs \subseteq Leg /\ {<<u, p>>} \in SUBSET Pair
    BY DEF Leg, Pair
  <2>3. StateOK([state EXCEPT !.held = {l \in @ : RowPair(l) # <<u, p>>} \cup legs])
    BY <1>0, <2>2 DEF StateOK, LedgerState
  <2> QED
    BY <1>a, <2>1, <2>2, <2>3, DecodeTypes
<1>2. ASSUME NEW r \in Reserve, ReserveConfigured(r)
      PROVE  ProjectionTypeOK'
  <2>1. StateOK([state EXCEPT !.reserves = @ \cup {r}])
    BY <1>0 DEF StateOK, LedgerState
  <2> QED
    BY <1>a, <1>2, <2>1, DecodeTypes DEF ReserveConfigured
<1>3. ASSUME NEW r \in VolatilePools \X Assets, ReserveRemoved(r)
      PROVE  ProjectionTypeOK'
  <2>1. StateOK([state EXCEPT !.reserves = @ \ {r}, !.folded = @ \ {r},
                              !.priced = @ \ {r}])
    BY <1>0 DEF StateOK, LedgerState
  <2> QED
    BY <1>a, <1>3, <2>1, DecodeTypes DEF ReserveRemoved
<1>4. ASSUME NEW r \in Reserve, ReserveData(r)
      PROVE  ProjectionTypeOK'
  <2>1. StateOK([state EXCEPT !.folded = @ \cup {r}])
    BY <1>0, <1>4 DEF StateOK, LedgerState, ReserveData
  <2> QED
    BY <1>a, <1>4, <2>1, DecodeTypes DEF ReserveData
<1>5. ASSUME NEW r \in Reserve, PriceChange(r)
      PROVE  ProjectionTypeOK'
  <2>1. /\ StateOK([state EXCEPT !.priced = @ \cup {r}])
        /\ StateOK([state EXCEPT !.priced = @ \ {r}])
    BY <1>0, <1>5 DEF StateOK, LedgerState, PriceChange
  <2> QED
    BY <1>a, <1>5, <2>1, DecodeTypes DEF PriceChange
<1>6. ASSUME NEW p \in VolatilePools, InstanceChange(p)
      PROVE  ProjectionTypeOK'
  <2>1. PICK h \in Hash : Decode([state EXCEPT !.hash[p] = h], {}, {})
    BY <1>6 DEF InstanceChange
  <2>2. StateOK([state EXCEPT !.hash[p] = h])
    BY <1>0 DEF StateOK, LedgerState
  <2> QED
    BY <1>a, <2>1, <2>2, DecodeTypes
<1>7. ASSUME NEW p \in VolatilePools, PoolRemoved(p)
      PROVE  ProjectionTypeOK'
  <2>1. StateOK([state EXCEPT !.hash[p] = "empty",
                              !.reserves = {r \in @ : r[1] # p},
                              !.folded = {r \in @ : r[1] # p},
                              !.priced = {r \in @ : r[1] # p}])
    BY <1>0 DEF StateOK, LedgerState, Hash
  <2> QED
    BY <1>a, <1>7, <2>1, DecodeTypes DEF PoolRemoved
<1>8. ASSUME NEW k \in Users \X BackedPools, BackstopChange(k)
      PROVE  ProjectionTypeOK'
  <2>1. /\ {k} \in SUBSET Pair
        /\ StateOK([state EXCEPT !.backstops = @ \cup {k}])
        /\ StateOK([state EXCEPT !.backstops = @ \ {k}])
    BY <1>0 DEF StateOK, LedgerState
  <2> QED
    BY <1>a, <1>8, <2>1, DecodeTypes DEF BackstopChange
<1>9. ASSUME NEW p \in BackedPools, LPPriceChange(p)
      PROVE  ProjectionTypeOK'
  <2> DEFINE holders == {k \in state.backstops : k[2] = p}
  <2>1. /\ holders \in SUBSET Pair
        /\ StateOK([state EXCEPT !.lpPriced = @ \cup {p}])
        /\ StateOK([state EXCEPT !.lpPriced = @ \ {p}])
    BY <1>0 DEF StateOK, LedgerState
  <2>2. \/ Decode([state EXCEPT !.lpPriced = @ \cup {p}], {}, holders)
        \/ Decode([state EXCEPT !.lpPriced = @ \ {p}], {}, holders)
    BY <1>9 DEF LPPriceChange
  <2> QED
    BY <1>a, <2>1, <2>2, DecodeTypes
<1> QED
  BY <1>1, <1>2, <1>3, <1>4, <1>5, <1>6, <1>7, <1>8, <1>9

\* The consumer's summaries stay of their type.
LEMMA UpsertTypes ==
    ASSUME ProjectionTypeOK, NEW s, StateOK(s), NEW closed
    PROVE  Upserted(computeState(s), closed) \in [Users -> {None} \cup SummaryRow]
BY OutputTypes DEF ProjectionTypeOK, Upserted

LEMMA NextTypes ==
    ASSUME ProjectionTypeOK, [Next]_vars
    PROVE  ProjectionTypeOK'
<1>0. StateOK(state)
  BY DEF ProjectionTypeOK, StateOK
<1>1. CASE UNCHANGED vars
  BY <1>1 DEF vars, ProjectionTypeOK
<1>2. CASE Restart
  <2> DEFINE lost == [state EXCEPT !.folded = {}, !.held = {}, !.backstops = {},
                                   !.lpPriced = {}]
  <2>1. StateOK(lost)
    BY <1>0 DEF StateOK, LedgerState
  <2>2. /\ state' = lost /\ changes' = 0
        /\ dirtyPositions' = {} /\ dirtyBackstops' = {}
        /\ UNCHANGED <<rows, summaries>>
    BY <1>2 DEF Restart
  <2> HIDE DEF lost
  <2> QED
    BY <2>1, <2>2, ProjectionAssumption DEF StateOK, ProjectionTypeOK
<1>3. CASE Transform
  BY <1>0, <1>3, OutputTypes, UpsertTypes, ProjectionAssumption
     DEF Transform, PositionTombstones, ProjectionTypeOK
<1>4. CASE ProjectPositions
  <2>1. StateOK(FilteredPositions(dirtyPositions))
    BY <1>0 DEF StateOK, FilteredPositions, LedgerState
  <2> QED
    BY <1>4, <2>1, OutputTypes, UpsertTypes, ProjectionAssumption
       DEF ProjectPositions, ProjectionTypeOK
<1>5. CASE ProjectBackstopPositions
  <2>1. StateOK(FilteredBackstops(dirtyBackstops))
    BY <1>0 DEF StateOK, FilteredBackstops, LedgerState
  <2> QED
    BY <1>5, <2>1, OutputTypes, ProjectionAssumption
       DEF ProjectBackstopPositions, ProjectionTypeOK
<1> QED
  BY <1>1, <1>2, <1>3, <1>4, <1>5, ChangeTypes DEF Next

(***************************************************************************)
(* The state, the dirty sets and the stored rows and summaries are of      *)
(* their types (LedgerState, PositionSummary).                             *)
(***************************************************************************)
THEOREM ProjectionTypes == Spec => []ProjectionTypeOK
<1>1. Init => ProjectionTypeOK
  BY InitTypes
<1>2. ProjectionTypeOK /\ [Next]_vars => ProjectionTypeOK'
  BY NextTypes
<1> QED
  BY <1>1, <1>2, PTL DEF Spec

-----------------------------------------------------------------------------
\* The legs with a row are the legs of recognised pools with decoded data.
LEMMA RowsOfAccounts ==
    ASSUME NEW s
    PROVE  /\ \A l \in LegRows(s) : l \in Account(s, l[1])
           /\ \A u \in Users : \A l \in Account(s, u) :
                 LegReserve(l) \in s.folded => l \in LegRows(s)
BY DEF LegRows, Valued, Account, LegReserve, UserLegs

\* A summary that is not withheld counts every leg of its account.
LEMMA SummariesAreComplete ==
    ASSUME NEW s, NEW u \in Users, Summary(s, u) # None
    PROVE  /\ Account(s, u) \subseteq Summary(s, u).counted
           /\ \E r \in computeState(s).positions : r[1] = u
<1>1. /\ ~DataPartial(s, u) /\ ~ReservePricePartial(s, u)
      /\ Summary(s, u).counted = {r \in Counted(s) : r[1] = u}
      /\ \E r \in LegRows(s) \cup BackstopRows(s) : r[1] = u
  BY DEF Summary, Incomplete
<1>2. ASSUME NEW l \in Account(s, u)
      PROVE  l \in Counted(s) /\ l[1] = u
  <2>1. l \in UserLegs(s) /\ l[1] = u /\ LegReserve(l) \in Valued(s)
    BY <1>1 DEF Account, DataPartial
  <2> QED
    BY <1>1, <2>1 DEF LegRows, ReservePricePartial, Counted
<1> QED
  BY <1>1, <1>2 DEF computeState

\* A Transform shows the rows of its output and nothing else.
LEMMA TransformShowsOutput ==
    ASSUME Transform
    PROVE  /\ rows' = computeState(state).positions
           /\ \A u \in Users :
                \/ /\ summaries'[u] = None
                   /\ ~\E r \in rows' : r[1] = u
                \/ /\ Summary(state, u) # None
                   /\ summaries'[u] = Summary(state, u)
                \/ /\ summaries'[u] = summaries[u]
                   /\ summaries[u] # None => \E r \in rows' : r[1] = u
<1> DEFINE out   == computeState(state)
           prior == [positions |-> rows, summaries |-> summaries]
<1>1. /\ rows' = (rows \ PositionTombstones(prior, out)) \cup out.positions
      /\ summaries' = Upserted(out, SummaryTombstones(prior, out))
  BY DEF Transform
<1>2. rows' = out.positions
  BY <1>1 DEF PositionTombstones
<1>3. \A u \in Users : out.summaries[u] = Summary(state, u)
  BY DEF computeState
<1>4. ASSUME NEW u \in Users
      PROVE  u \in SummaryTombstones(prior, out) <=>
                /\ summaries[u] # None /\ out.summaries[u] = None
                /\ ~\E r \in out.positions : r[1] = u
  BY DEF SummaryTombstones
<1>5. ASSUME NEW u \in Users
      PROVE  summaries'[u] = IF u \in SummaryTombstones(prior, out) THEN None
                             ELSE IF out.summaries[u] = None THEN summaries[u]
                             ELSE out.summaries[u]
  BY <1>1 DEF Upserted
<1> HIDE DEF out, prior
<1> QED
  BY <1>2, <1>3, <1>4, <1>5 DEF out

LEMMA TransformFollows ==
    ASSUME ProjectionTypeOK, Transform
    PROVE  TransformedView
<1>1. \A u \in Users : summaries'[u] # None => \E r \in rows' : r[1] = u
  BY TransformShowsOutput, SummariesAreComplete
<1>2. ASSUME NEW r \in rows'
      PROVE  \/ r \in UNION {Account(state, u) : u \in Users}
             \/ r[3] = Backstop /\ RowPair(r) \in state.backstops
  <2>1. r \in LegRows(state) \cup BackstopRows(state)
    BY <1>2, TransformShowsOutput DEF computeState
  <2>2. CASE r \in LegRows(state)
    <3>1. r \in Leg
      BY <2>2 DEF LegRows, UserLegs, ProjectionTypeOK, LedgerState
    <3> QED
      BY <2>2, <3>1, RowsOfAccounts DEF Leg
  <2>3. CASE r \in BackstopRows(state)
    BY <2>3 DEF BackstopRows
  <2> QED
    BY <2>1, <2>2, <2>3
<1>3. \A u \in Users : \A l \in Account(state, u) :
         LegReserve(l) \in state.folded => l \in rows'
  BY TransformShowsOutput, RowsOfAccounts DEF computeState
<1> QED
  BY <1>1, <1>2, <1>3 DEF TransformedView

LEMMA TransformIsSafe ==
    ASSUME Transform
    PROVE  SafeSummaries
BY TransformShowsOutput, SummariesAreComplete DEF SafeSummaries

(***************************************************************************)
(* Whatever a consumer stored, after a Transform every row it keeps is one *)
(* of the state's legs or backstop positions, every leg of a folded        *)
(* reserve is shown, and no summary outlives its user's rows               *)
(* (emitTombstones).                                                       *)
(***************************************************************************)
THEOREM TransformsShowTheState == Spec => ViewFollowsState
<1>1. ProjectionTypeOK /\ [Next]_vars => [Transform => TransformedView]_vars
  BY TransformFollows
<1> QED
  BY <1>1, ProjectionTypes, PTL DEF Spec, ViewFollowsState

(***************************************************************************)
(* A Transform replaces a stored summary by a complete one only, and drops *)
(* it only when the user has no row left in the pool: what a bounded sweep *)
(* has not reached stays stale, never wrong (computeState).                *)
(***************************************************************************)
THEOREM SummariesAreStaleButSafe == Spec => StaleButSafe
<1>1. ProjectionTypeOK /\ [Next]_vars => [Transform => SafeSummaries]_vars
  BY TransformIsSafe
<1> QED
  BY <1>1, ProjectionTypes, PTL DEF Spec, StaleButSafe
=============================================================================
