------------------------- MODULE BlendParanoid_proofs -------------------------
(***************************************************************************)
(* The reference decode keeps its promises for any number of users, pools, *)
(* assets, indexes and changes of a ledger.                                *)
(*                                                                         *)
(* A promise of the returned state compares it with the prior one, so what *)
(* is inductive is how far the mirror has moved from the prior state while *)
(* changes are applied (Following), and that what was returned is really   *)
(* what its own entries resolve to (Consistent).                           *)
(***************************************************************************)
EXTENDS BlendParanoid, TLAPS

-----------------------------------------------------------------------------
(* What one change does to the mirror: both strategies rest on this.       *)

\* Every pending entry holds a blob that loadPrior can read back.
Readable(pending) ==
    \A k \in Pairs : pending[k] # None => pending[k].blob # Undecodable

(***************************************************************************)
(* n is a mirror that one change of the stream may turn m into: pairs are  *)
(* only marked, never unmarked, and what is not marked has not moved.      *)
(***************************************************************************)
Evolves(m, n) ==
    /\ n \in Mirror
    /\ m.touched \subseteq n.touched
    /\ \A k \in Pairs \ n.touched : n.pending[k] = m.pending[k]
    /\ PoollessHaveNoReserves(m) => PoollessHaveNoReserves(n)

\* The change concerns no user entry.
SameUsers(m, n) == n.pending = m.pending /\ n.touched = m.touched

LEMMA NoReservesType == NoReserves \in [Assets -> Reserve \cup {None}]
  BY DEF NoReserves

LEMMA EnsureReserveType ==
  ASSUME NEW r \in Reserve \cup {None}
  PROVE  EnsureReserve(r) \in Reserve
  BY DEF EnsureReserve, Reserve

LEMMA WritePoolEvolves ==
  ASSUME NEW m \in Mirror, NEW p \in Pools
  PROVE  Evolves(m, WritePool(m, p)) /\ SameUsers(m, WritePool(m, p))
  BY DEF Evolves, SameUsers, WritePool, Mirror, PoollessHaveNoReserves

LEMMA DeletePoolEvolves ==
  ASSUME NEW m \in Mirror, NEW p \in Pools
  PROVE  Evolves(m, DeletePool(m, p)) /\ SameUsers(m, DeletePool(m, p))
  BY NoReservesType DEF Evolves, SameUsers, DeletePool, Mirror, PoollessHaveNoReserves

LEMMA ListReservesEvolves ==
  ASSUME NEW m \in Mirror, NEW p \in Pools, NEW listed \in SUBSET Assets
  PROVE  Evolves(m, ListReserves(m, p, listed)) /\ SameUsers(m, ListReserves(m, p, listed))
<1>1. m.reserves[p] \in [Assets -> Reserve \cup {None}]
  BY DEF Mirror
<1>2. [a \in Assets |-> IF a \in listed THEN EnsureReserve(m.reserves[p][a])
                                      ELSE m.reserves[p][a]]
        \in [Assets -> Reserve \cup {None}]
  BY <1>1, EnsureReserveType
<1> QED
  BY <1>2 DEF Evolves, SameUsers, ListReserves, Mirror, PoollessHaveNoReserves

LEMMA ConfigureReserveEvolves ==
  ASSUME NEW m \in Mirror, NEW p \in Pools, NEW a \in Assets, NEW i \in Indexes
  PROVE  Evolves(m, ConfigureReserve(m, p, a, i)) /\ SameUsers(m, ConfigureReserve(m, p, a, i))
  BY DEF Evolves, SameUsers, ConfigureReserve, Mirror, Reserve, PoollessHaveNoReserves

LEMMA UpdateReserveDataEvolves ==
  ASSUME NEW m \in Mirror, NEW p \in Pools, NEW a \in Assets
  PROVE  Evolves(m, UpdateReserveData(m, p, a)) /\ SameUsers(m, UpdateReserveData(m, p, a))
<1>1. m.reserves[p][a] \in Reserve \cup {None}
  BY DEF Mirror
<1>2. [index |-> EnsureReserve(m.reserves[p][a]).index, archived |-> FALSE] \in Reserve
  BY <1>1, EnsureReserveType DEF Reserve
<1> QED
  BY <1>2 DEF Evolves, SameUsers, UpdateReserveData, Mirror, PoollessHaveNoReserves

LEMMA RemoveReserveEvolves ==
  ASSUME NEW m \in Mirror, NEW p \in Pools, NEW a \in Assets
  PROVE  Evolves(m, RemoveReserve(m, p, a)) /\ SameUsers(m, RemoveReserve(m, p, a))
  BY DEF Evolves, SameUsers, RemoveReserve, Mirror, PoollessHaveNoReserves

LEMMA ArchiveReserveEvolves ==
  ASSUME NEW m \in Mirror, NEW p \in Pools, NEW a \in Assets, NEW i \in Indexes \cup {None}
  PROVE  Evolves(m, ArchiveReserve(m, p, a, i)) /\ SameUsers(m, ArchiveReserve(m, p, a, i))
<1>1. m.reserves[p][a] \in Reserve \cup {None}
  BY DEF Mirror
<1>2. [index |-> IF i = None THEN EnsureReserve(m.reserves[p][a]).index ELSE i,
       archived |-> TRUE] \in Reserve
  BY <1>1, EnsureReserveType DEF Reserve
<1> QED
  BY <1>2 DEF Evolves, SameUsers, ArchiveReserve, Mirror, PoollessHaveNoReserves

LEMMA WritePositionsEvolves ==
  ASSUME NEW m \in Mirror, NEW k \in Pairs, NEW blob \in Blobs
  PROVE  Evolves(m, WritePositions(m, k, blob))
  BY DEF Evolves, WritePositions, Mirror, Position, PoollessHaveNoReserves

LEMMA RemovePositionsEvolves ==
  ASSUME NEW m \in Mirror, NEW k \in Pairs
  PROVE  Evolves(m, RemovePositions(m, k))
  BY DEF Evolves, RemovePositions, Mirror, PoollessHaveNoReserves

LEMMA LastKnownType ==
  ASSUME NEW position \in Position \cup {None}, NEW value
  PROVE  LastKnown(position, value) \in Blobs \cup {Undecodable}
  BY DEF LastKnown, Position

LEMMA ArchivePositionsEvolves ==
  ASSUME NEW m \in Mirror, NEW k \in Pairs, NEW value \in LapsedValues
  PROVE  Evolves(m, ArchivePositions(m, k, value))
  BY LastKnownType DEF Evolves, ArchivePositions, Mirror, Position, PoollessHaveNoReserves

-----------------------------------------------------------------------------
(***************************************************************************)
(* One step of the change stream: the mirror evolves and nothing else the  *)
(* caller sees moves.                                                      *)
(***************************************************************************)
LEMMA ChangeEvolves ==
  ASSUME mirror \in Mirror, ApplyChange
  PROVE  Evolves(mirror, mirror')
<1>1. ASSUME NEW p \in Pools, PoolWritten(p)
      PROVE  Evolves(mirror, mirror')
  BY <1>1, WritePoolEvolves DEF PoolWritten, Apply
<1>2. ASSUME NEW p \in Pools, PoolDeleted(p)
      PROVE  Evolves(mirror, mirror')
  BY <1>2, DeletePoolEvolves DEF PoolDeleted, Apply
<1>3. ASSUME NEW p \in Pools, NEW listed \in SUBSET Assets, ReservesListed(p, listed)
      PROVE  Evolves(mirror, mirror')
  BY <1>3, ListReservesEvolves DEF ReservesListed, Apply
<1>4. ASSUME NEW p \in Pools, NEW a \in Assets, ReserveUpdated(p, a)
      PROVE  Evolves(mirror, mirror')
  BY <1>4, UpdateReserveDataEvolves DEF ReserveUpdated, Apply
<1>5. ASSUME NEW p \in Pools, NEW a \in Assets, ReserveRemoved(p, a)
      PROVE  Evolves(mirror, mirror')
  BY <1>5, RemoveReserveEvolves DEF ReserveRemoved, Apply
<1>6. ASSUME NEW p \in Pools, NEW a \in Assets, ReserveLapsed(p, a)
      PROVE  Evolves(mirror, mirror')
  BY <1>6, ArchiveReserveEvolves DEF ReserveLapsed, Apply
<1>7. ASSUME NEW p \in Pools, NEW a \in Assets, NEW i \in Indexes, ReserveConfigured(p, a, i)
      PROVE  Evolves(mirror, mirror')
  BY <1>7, ConfigureReserveEvolves DEF ReserveConfigured, Apply
<1>8. ASSUME NEW p \in Pools, NEW a \in Assets, NEW i \in Indexes, ReserveConfigLapsed(p, a, i)
      PROVE  Evolves(mirror, mirror')
  BY <1>8, ArchiveReserveEvolves DEF ReserveConfigLapsed, Apply
<1>9. ASSUME NEW k \in Pairs, NEW blob \in Blobs, PositionsWritten(k, blob)
      PROVE  Evolves(mirror, mirror')
  BY <1>9, WritePositionsEvolves DEF PositionsWritten, Apply
<1>10. ASSUME NEW k \in Pairs, PositionsRemoved(k)
       PROVE  Evolves(mirror, mirror')
  BY <1>10, RemovePositionsEvolves DEF PositionsRemoved, Apply
<1>11. ASSUME NEW k \in Pairs, NEW value \in LapsedValues, PositionsLapsed(k, value)
       PROVE  Evolves(mirror, mirror')
  BY <1>11, ArchivePositionsEvolves DEF PositionsLapsed, Apply
<1> QED
  BY <1>1, <1>2, <1>3, <1>4, <1>5, <1>6, <1>7, <1>8, <1>9, <1>10, <1>11 DEF ApplyChange

LEMMA ChangeFrame ==
  ASSUME ApplyChange, applied \in 0..MaxChanges, purged \subseteq Pairs, rewired \subseteq Pools
  PROVE  /\ phase = "applying"
         /\ UNCHANGED <<phase, prior, out, dirty, diagnostics>>
         /\ applied' \in 0..MaxChanges
         /\ purged \subseteq purged' /\ purged' \subseteq Pairs
         /\ rewired \subseteq rewired' /\ rewired' \subseteq Pools
<1>1. /\ phase = "applying"
      /\ UNCHANGED <<phase, prior, out, dirty, diagnostics>>
      /\ applied < MaxChanges /\ applied' = applied + 1
      /\ \/ Neutral
         \/ \E k \in Pairs : purged' = purged \cup {k} /\ UNCHANGED rewired
         \/ \E p \in Pools : Rewiring(p)
  BY DEF ApplyChange, PoolWritten, PoolDeleted, ReservesListed, ReserveUpdated,
         ReserveRemoved, ReserveLapsed, ReserveConfigured, ReserveConfigLapsed,
         PositionsWritten, PositionsRemoved, PositionsLapsed, Apply
<1>2. applied' \in 0..MaxChanges
  BY <1>1, MaxChangesAssumption
<1> QED
  BY <1>1, <1>2 DEF Neutral, Rewiring

-----------------------------------------------------------------------------
(***************************************************************************)
(* A change that is not a configuration change of pool p leaves the claims *)
(* on p's indexes alone; a change takes a pending entry away only when it  *)
(* is a removal; and it keeps entries readable when lapses are.            *)
(***************************************************************************)
SameClaims(m, n, p) ==
    p \in m.live => /\ p \in n.live
                    /\ \A i \in Indexes :
                          Claimants(n.reserves[p], i) = Claimants(m.reserves[p], i)

DecodableLapses == Undecodable \notin LapsedValues

LEMMA SameIndexesSameClaims ==
  ASSUME NEW f \in [Assets -> Reserve \cup {None}], NEW g \in [Assets -> Reserve \cup {None}],
         \A a \in Assets : EnsureReserve(f[a]).index = EnsureReserve(g[a]).index,
         NEW i \in Indexes
  PROVE  Claimants(f, i) = Claimants(g, i)
<1>1. ASSUME NEW h \in [Assets -> Reserve \cup {None}], NEW a \in Assets
      PROVE  a \in Claimants(h, i) <=> EnsureReserve(h[a]).index = i
  BY NoneAssumption DEF Claimants, EnsureReserve
<1> QED
  BY <1>1 DEF Claimants

LEMMA SameIndexesSameClaims2 ==
  ASSUME NEW m \in Mirror, NEW n \in Mirror, NEW p \in Pools,
         m.live \subseteq n.live,
         \A b \in Assets : EnsureReserve(n.reserves[p][b]).index
                         = EnsureReserve(m.reserves[p][b]).index
  PROVE  SameClaims(m, n, p)
<1>1. n.reserves[p] \in [Assets -> Reserve \cup {None}]
      /\ m.reserves[p] \in [Assets -> Reserve \cup {None}]
  BY DEF Mirror
<1> QED
  BY <1>1, SameIndexesSameClaims DEF SameClaims

LEMMA SameIndexType ==
  ASSUME NEW m \in Mirror, NEW p \in Pools, NEW a \in Assets, NEW f \in BOOLEAN
  PROVE  [index |-> EnsureReserve(m.reserves[p][a]).index, archived |-> f]
            \in Reserve \ {None}
<1>1. m.reserves[p][a] \in Reserve \cup {None}
  BY DEF Mirror
<1>2. EnsureReserve(m.reserves[p][a]) \in Reserve
  BY <1>1, EnsureReserveType
<1> QED
  BY <1>2, NoneAssumption DEF Reserve

LEMMA WritePoolKeepsClaims ==
  ASSUME NEW m \in Mirror, NEW q \in Pools, NEW p \in Pools
  PROVE  SameClaims(m, WritePool(m, q), p)
  BY DEF SameClaims, WritePool, Mirror

LEMMA ListReservesKeepsClaims ==
  ASSUME NEW m \in Mirror, NEW q \in Pools, NEW p \in Pools, NEW listed \in SUBSET Assets
  PROVE  SameClaims(m, ListReserves(m, q, listed), p)
<1> DEFINE n == ListReserves(m, q, listed)
<1>1. n \in Mirror
  BY ListReservesEvolves DEF Evolves
<1>2. \A b \in Assets : EnsureReserve(n.reserves[p][b]).index
                      = EnsureReserve(m.reserves[p][b]).index
  BY DEF ListReserves, Mirror, EnsureReserve
<1>3. m.live \subseteq n.live
  BY DEF ListReserves, Mirror
<1> QED
  BY <1>1, <1>2, <1>3, SameIndexesSameClaims2

LEMMA UpdateReserveDataKeepsClaims ==
  ASSUME NEW m \in Mirror, NEW q \in Pools, NEW p \in Pools, NEW a \in Assets
  PROVE  SameClaims(m, UpdateReserveData(m, q, a), p)
<1> DEFINE n == UpdateReserveData(m, q, a)
<1>1. n \in Mirror
  BY UpdateReserveDataEvolves DEF Evolves
<1>2. n.reserves[q][a] = [index    |-> EnsureReserve(m.reserves[q][a]).index,
                          archived |-> FALSE]
  BY DEF UpdateReserveData, Mirror
<1>3. n.reserves[q][a] # None
  BY <1>2, SameIndexType
<1>4. EnsureReserve(n.reserves[q][a]).index = EnsureReserve(m.reserves[q][a]).index
  BY <1>2, <1>3 DEF EnsureReserve
<1>5. \A b \in Assets : <<p, b>> # <<q, a>> => n.reserves[p][b] = m.reserves[p][b]
  BY DEF UpdateReserveData, Mirror
<1>6. \A b \in Assets : EnsureReserve(n.reserves[p][b]).index
                      = EnsureReserve(m.reserves[p][b]).index
  BY <1>4, <1>5
<1>7. m.live \subseteq n.live
  BY DEF UpdateReserveData, Mirror
<1> QED
  BY <1>1, <1>6, <1>7, SameIndexesSameClaims2

LEMMA LapseKeepsClaims ==
  ASSUME NEW m \in Mirror, NEW q \in Pools, NEW p \in Pools, NEW a \in Assets
  PROVE  SameClaims(m, ArchiveReserve(m, q, a, None), p)
<1> DEFINE n == ArchiveReserve(m, q, a, None)
<1>1. CASE q \notin m.live
  BY <1>1 DEF ArchiveReserve, SameClaims
<1>2. CASE q \in m.live
  <2>1. n \in Mirror
    BY ArchiveReserveEvolves DEF Evolves
  <2>2. n.reserves[q][a] = [index    |-> EnsureReserve(m.reserves[q][a]).index,
                            archived |-> TRUE]
    BY <1>2 DEF ArchiveReserve, Mirror
  <2>3. n.reserves[q][a] # None
    BY <2>2, SameIndexType
  <2>4. EnsureReserve(n.reserves[q][a]).index = EnsureReserve(m.reserves[q][a]).index
    BY <2>2, <2>3 DEF EnsureReserve
  <2>5. \A b \in Assets : <<p, b>> # <<q, a>> => n.reserves[p][b] = m.reserves[p][b]
    BY <1>2 DEF ArchiveReserve, Mirror
  <2>6. \A b \in Assets : EnsureReserve(n.reserves[p][b]).index
                        = EnsureReserve(m.reserves[p][b]).index
    BY <2>4, <2>5
  <2>7. m.live \subseteq n.live
    BY <1>2 DEF ArchiveReserve, Mirror
  <2> QED
    BY <2>1, <2>6, <2>7, SameIndexesSameClaims2
<1> QED
  BY <1>1, <1>2

LEMMA DeletePoolSparesOtherPools ==
  ASSUME NEW m \in Mirror, NEW q \in Pools, NEW p \in Pools \ {q}
  PROVE  SameClaims(m, DeletePool(m, q), p)
  BY DEF SameClaims, DeletePool, Mirror

LEMMA RewiringSparesOtherPools ==
  ASSUME NEW m \in Mirror, NEW q \in Pools, NEW p \in Pools \ {q}, NEW a \in Assets
  PROVE  /\ \A i \in Indexes : SameClaims(m, ConfigureReserve(m, q, a, i), p)
         /\ SameClaims(m, RemoveReserve(m, q, a), p)
         /\ \A i \in Indexes : SameClaims(m, ArchiveReserve(m, q, a, i), p)
  BY DEF SameClaims, ConfigureReserve, RemoveReserve, ArchiveReserve, Mirror

LEMMA PositionsKeepClaims ==
  ASSUME NEW m \in Mirror, NEW k \in Pairs, NEW p \in Pools
  PROVE  /\ \A blob \in Blobs : SameClaims(m, WritePositions(m, k, blob), p)
         /\ SameClaims(m, RemovePositions(m, k), p)
         /\ \A value \in LapsedValues : SameClaims(m, ArchivePositions(m, k, value), p)
  BY DEF SameClaims, WritePositions, RemovePositions, ArchivePositions, Mirror

LEMMA ChangeKeepsClaims ==
  ASSUME mirror \in Mirror, ApplyChange, NEW p \in Pools, p \notin rewired'
  PROVE  SameClaims(mirror, mirror', p)
<1>1. ASSUME NEW q \in Pools, PoolWritten(q)
      PROVE  SameClaims(mirror, mirror', p)
  BY <1>1, WritePoolKeepsClaims DEF PoolWritten, Apply
<1>2. ASSUME NEW q \in Pools, PoolDeleted(q)
      PROVE  SameClaims(mirror, mirror', p)
  BY <1>2, DeletePoolSparesOtherPools DEF PoolDeleted, Apply, Rewiring
<1>3. ASSUME NEW q \in Pools, NEW listed \in SUBSET Assets, ReservesListed(q, listed)
      PROVE  SameClaims(mirror, mirror', p)
  BY <1>3, ListReservesKeepsClaims DEF ReservesListed, Apply
<1>4. ASSUME NEW q \in Pools, NEW a \in Assets, ReserveUpdated(q, a)
      PROVE  SameClaims(mirror, mirror', p)
  BY <1>4, UpdateReserveDataKeepsClaims DEF ReserveUpdated, Apply
<1>5. ASSUME NEW q \in Pools, NEW a \in Assets, ReserveRemoved(q, a)
      PROVE  SameClaims(mirror, mirror', p)
  BY <1>5, RewiringSparesOtherPools DEF ReserveRemoved, Apply, Rewiring
<1>6. ASSUME NEW q \in Pools, NEW a \in Assets, ReserveLapsed(q, a)
      PROVE  SameClaims(mirror, mirror', p)
  BY <1>6, LapseKeepsClaims DEF ReserveLapsed, Apply
<1>7. ASSUME NEW q \in Pools, NEW a \in Assets, NEW i \in Indexes, ReserveConfigured(q, a, i)
      PROVE  SameClaims(mirror, mirror', p)
  BY <1>7, RewiringSparesOtherPools DEF ReserveConfigured, Apply, Rewiring
<1>8. ASSUME NEW q \in Pools, NEW a \in Assets, NEW i \in Indexes, ReserveConfigLapsed(q, a, i)
      PROVE  SameClaims(mirror, mirror', p)
  BY <1>8, RewiringSparesOtherPools DEF ReserveConfigLapsed, Apply, Rewiring
<1>9. ASSUME NEW k \in Pairs, NEW blob \in Blobs, PositionsWritten(k, blob)
      PROVE  SameClaims(mirror, mirror', p)
  BY <1>9, PositionsKeepClaims DEF PositionsWritten, Apply
<1>10. ASSUME NEW k \in Pairs, PositionsRemoved(k)
       PROVE  SameClaims(mirror, mirror', p)
  BY <1>10, PositionsKeepClaims DEF PositionsRemoved, Apply
<1>11. ASSUME NEW k \in Pairs, NEW value \in LapsedValues, PositionsLapsed(k, value)
       PROVE  SameClaims(mirror, mirror', p)
  BY <1>11, PositionsKeepClaims DEF PositionsLapsed, Apply
<1> QED
  BY <1>1, <1>2, <1>3, <1>4, <1>5, <1>6, <1>7, <1>8, <1>9, <1>10, <1>11 DEF ApplyChange

\* What a change does to the users' entries.
LEMMA ChangeOfUsers ==
  ASSUME mirror \in Mirror, ApplyChange
  PROVE  \/ mirror'.pending = mirror.pending
         \/ \E k \in Pairs : /\ mirror' = RemovePositions(mirror, k)
                            /\ purged' = purged \cup {k}
         \/ \E k \in Pairs : \E blob \in Blobs : mirror' = WritePositions(mirror, k, blob)
         \/ \E k \in Pairs : \E value \in LapsedValues :
               mirror' = ArchivePositions(mirror, k, value)
<1>1. ASSUME NEW p \in Pools, PoolWritten(p)
      PROVE  mirror'.pending = mirror.pending
  BY <1>1, WritePoolEvolves DEF PoolWritten, Apply, SameUsers
<1>2. ASSUME NEW p \in Pools, PoolDeleted(p)
      PROVE  mirror'.pending = mirror.pending
  BY <1>2, DeletePoolEvolves DEF PoolDeleted, Apply, SameUsers
<1>3. ASSUME NEW p \in Pools, NEW listed \in SUBSET Assets, ReservesListed(p, listed)
      PROVE  mirror'.pending = mirror.pending
  BY <1>3, ListReservesEvolves DEF ReservesListed, Apply, SameUsers
<1>4. ASSUME NEW p \in Pools, NEW a \in Assets, ReserveUpdated(p, a)
      PROVE  mirror'.pending = mirror.pending
  BY <1>4, UpdateReserveDataEvolves DEF ReserveUpdated, Apply, SameUsers
<1>5. ASSUME NEW p \in Pools, NEW a \in Assets, ReserveRemoved(p, a)
      PROVE  mirror'.pending = mirror.pending
  BY <1>5, RemoveReserveEvolves DEF ReserveRemoved, Apply, SameUsers
<1>6. ASSUME NEW p \in Pools, NEW a \in Assets, ReserveLapsed(p, a)
      PROVE  mirror'.pending = mirror.pending
  BY <1>6, ArchiveReserveEvolves DEF ReserveLapsed, Apply, SameUsers
<1>7. ASSUME NEW p \in Pools, NEW a \in Assets, NEW i \in Indexes, ReserveConfigured(p, a, i)
      PROVE  mirror'.pending = mirror.pending
  BY <1>7, ConfigureReserveEvolves DEF ReserveConfigured, Apply, SameUsers
<1>8. ASSUME NEW p \in Pools, NEW a \in Assets, NEW i \in Indexes, ReserveConfigLapsed(p, a, i)
      PROVE  mirror'.pending = mirror.pending
  BY <1>8, ArchiveReserveEvolves DEF ReserveConfigLapsed, Apply, SameUsers
<1>9. ASSUME NEW k \in Pairs, NEW blob \in Blobs, PositionsWritten(k, blob)
      PROVE  mirror' = WritePositions(mirror, k, blob)
  BY <1>9 DEF PositionsWritten, Apply
<1>10. ASSUME NEW k \in Pairs, PositionsRemoved(k)
       PROVE  mirror' = RemovePositions(mirror, k) /\ purged' = purged \cup {k}
  BY <1>10 DEF PositionsRemoved, Apply
<1>11. ASSUME NEW k \in Pairs, NEW value \in LapsedValues, PositionsLapsed(k, value)
       PROVE  mirror' = ArchivePositions(mirror, k, value)
  BY <1>11 DEF PositionsLapsed, Apply
<1> QED
  BY <1>1, <1>2, <1>3, <1>4, <1>5, <1>6, <1>7, <1>8, <1>9, <1>10, <1>11 DEF ApplyChange

LEMMA EntriesAreNotNone ==
  ASSUME NEW b, NEW f \in BOOLEAN, b \in Blobs \cup {Undecodable}
  PROVE  [blob |-> b, archived |-> f] # None
  BY NoneAssumption DEF Position

\* Only a removal takes a pending entry away.
LEMMA ChangePurges ==
  ASSUME mirror \in Mirror, ApplyChange,
         NEW k \in Pairs, mirror.pending[k] # None, mirror'.pending[k] = None
  PROVE  k \in purged'
<1>1. CASE mirror'.pending = mirror.pending
  BY <1>1
<1>2. ASSUME NEW q \in Pairs, mirror' = RemovePositions(mirror, q), purged' = purged \cup {q}
      PROVE  k \in purged'
  BY <1>2 DEF RemovePositions, Mirror
<1>3. ASSUME NEW q \in Pairs, NEW blob \in Blobs, mirror' = WritePositions(mirror, q, blob)
      PROVE  FALSE
  BY <1>3, EntriesAreNotNone DEF WritePositions, Mirror
<1>4. ASSUME NEW q \in Pairs, NEW value \in LapsedValues,
             mirror' = ArchivePositions(mirror, q, value)
      PROVE  FALSE
  <2>1. LastKnown(mirror.pending[q], value) \in Blobs \cup {Undecodable}
    BY LastKnownType DEF Mirror
  <2>2. [blob |-> LastKnown(mirror.pending[q], value), archived |-> TRUE] # None
    BY <2>1, EntriesAreNotNone
  <2> QED
    BY <1>4, <2>2 DEF ArchivePositions, Mirror
<1> QED
  BY <1>1, <1>2, <1>3, <1>4, ChangeOfUsers

\* Readable entries stay readable when the values lapses carry are.
LEMMA ChangeKeepsReadable ==
  ASSUME mirror \in Mirror, ApplyChange, DecodableLapses, Readable(mirror.pending)
  PROVE  Readable(mirror'.pending)
<1>1. CASE mirror'.pending = mirror.pending
  BY <1>1
<1>2. ASSUME NEW q \in Pairs, mirror' = RemovePositions(mirror, q)
      PROVE  Readable(mirror'.pending)
  BY <1>2 DEF RemovePositions, Mirror, Readable
<1>3. ASSUME NEW q \in Pairs, NEW blob \in Blobs, mirror' = WritePositions(mirror, q, blob)
      PROVE  Readable(mirror'.pending)
  BY <1>3, BlobsAssumption DEF WritePositions, Mirror, Readable
<1>4. ASSUME NEW q \in Pairs, NEW value \in LapsedValues,
             mirror' = ArchivePositions(mirror, q, value)
      PROVE  Readable(mirror'.pending)
  <2>1. value = None \/ value \in Blobs
    BY BlobsAssumption DEF DecodableLapses
  <2>2. CASE value = None /\ mirror.pending[q] = None
    BY <2>2, <1>4 DEF ArchivePositions, Mirror, Readable
  <2>3. CASE ~(value = None /\ mirror.pending[q] = None)
    <3>1. LastKnown(mirror.pending[q], value) # Undecodable
      BY <2>1, <2>3, BlobsAssumption, NoneAssumption DEF LastKnown, Readable
    <3> QED
      BY <1>4, <2>3, <3>1 DEF ArchivePositions, Mirror, Readable
  <2> QED
    BY <2>2, <2>3
<1> QED
  BY <1>1, <1>2, <1>3, <1>4, ChangeOfUsers

-----------------------------------------------------------------------------
(***************************************************************************)
(* What a decode returns, by type.                                         *)
(***************************************************************************)
LEMMA ReserveByIndexType ==
  ASSUME NEW reserves \in [Assets -> Reserve \cup {None}]
  PROVE  ReserveByIndex(reserves) \in ReserveIndex /\ ReserveByIndex(reserves) # None
<1>1. \A i \in Indexes : (\E a \in Assets : Claimants(reserves, i) = {a}) =>
         (CHOOSE a \in Assets : Claimants(reserves, i) = {a}) \in Assets
  OBVIOUS
<1> QED
  BY <1>1, NoneAssumption DEF ReserveByIndex, ReserveIndex

LEMMA PoolIndexType ==
  ASSUME NEW m, m.reserves \in [Pools -> [Assets -> Reserve \cup {None}]], NEW p \in Pools
  PROVE  /\ PoolIndex(m, p) \in ReserveIndex \cup {None}
         /\ PoolIndex(m, p) = None <=> p \notin m.live
  BY ReserveByIndexType DEF PoolIndex

LEMMA ResolveType ==
  ASSUME NEW index \in ReserveIndex \cup {None}, NEW position \in Position \cup {None}
  PROVE  Resolve(index, position) \subseteq Row
<1>1. CASE index = None \/ position = None
  BY <1>1 DEF Resolve
<1>2. CASE index # None /\ position # None
  <2>1. index \in [Indexes -> Assets \cup {None}] /\ position \in Position
    BY <1>2 DEF ReserveIndex
  <2>2. ASSUME NEW i \in Legs(position)
        PROVE  i \in Indexes /\ position.blob[i] \in Nat
    BY <2>1, BlobsAssumption DEF Legs, Position
  <2>3. ASSUME NEW i \in {j \in Legs(position) : index[j] # None}
        PROVE  [asset |-> index[i], amount |-> position.blob[i],
                archived |-> position.archived] \in Row
    BY <2>1, <2>2 DEF Row, Position
  <2> QED
    BY <1>2, <2>3 DEF Resolve
<1> QED
  BY <1>1, <1>2

LEMMA BuildType ==
  ASSUME NEW m \in Mirror
  PROVE  /\ Build(m) \in LedgerState
         /\ \A p \in Pools : PoolIndex(Build(m), p) = PoolIndex(m, p)
<1>1. ASSUME NEW k \in Pairs
      PROVE  Resolve(PoolIndex(m, Pool(k)), m.pending[k]) \in SUBSET Row
  <2>1. Pool(k) \in Pools
    BY DEF Pairs, Pool
  <2> QED
    BY <2>1, PoolIndexType, ResolveType DEF Mirror
<1>2. Build(m) \in LedgerState
  BY <1>1 DEF Build, LedgerState, Mirror
<1> QED
  BY <1>2 DEF Build, PoolIndex

LEMMA DirtyKindsType ==
  ASSUME NEW touched \in SUBSET Pairs, NEW pending
  PROVE  DirtyKinds(touched, pending) \subseteq DirtyEntry
  BY DEF DirtyKinds, DirtyEntry

LEMMA DiagnosticsType ==
  ASSUME NEW m \in Mirror, NEW k \in Pairs
  PROVE  Diagnostics(m, k) \subseteq DiagnosticEntry
<1>1. ASSUME NEW i \in Indexes
      PROVE  Skip(m.reserves[Pool(k)], k, i) \in DiagnosticEntry
  BY DEF Skip, DiagnosticEntry, Claimants, UnknownIndexAssets
<1> QED
  BY <1>1 DEF Diagnostics, SkippedLegs, Legs

LEMMA LoadPriorType ==
  ASSUME NEW s \in LedgerState
  PROVE  /\ LoadPrior(s) \in Mirror
         /\ PoollessHaveNoReserves(s) => PoollessHaveNoReserves(LoadPrior(s))
         /\ Readable(s.pending) => LoadPrior(s).pending = s.pending
         /\ \A p \in Pools : PoolIndex(LoadPrior(s), p) = PoolIndex(s, p)
  BY DEF LoadPrior, LedgerState, Mirror, LoadPending, PoollessHaveNoReserves, Readable, PoolIndex

LEMMA EmptyTypes ==
  /\ EmptyState \in LedgerState /\ EmptyMirror \in Mirror
  /\ PoollessHaveNoReserves(EmptyState) /\ PoollessHaveNoReserves(EmptyMirror)
  BY NoReservesType DEF EmptyState, EmptyMirror, LedgerState, Mirror, PoollessHaveNoReserves

LEMMA ApplyChangeTypeOK ==
  ASSUME TypeOK, ApplyChange
  PROVE  TypeOK'
<1>1. Evolves(mirror, mirror')
  BY ChangeEvolves DEF TypeOK
<1>2. /\ UNCHANGED <<phase, prior, out, dirty, diagnostics>>
      /\ applied' \in 0..MaxChanges /\ purged' \subseteq Pairs /\ rewired' \subseteq Pools
  BY ChangeFrame DEF TypeOK
<1> QED
  BY <1>1, <1>2 DEF TypeOK, Evolves, PoollessHaveNoReserves

LEMMA FinishDecodeTypeOK ==
  ASSUME TypeOK, NEW state \in LedgerState, NEW touched \in SUBSET Pairs,
         PoollessHaveNoReserves(state), FinishDecode(state, touched)
  PROVE  /\ phase' \in {"idle", "applying"} /\ prior' \in LedgerState
         /\ out' \in LedgerState /\ PoollessHaveNoReserves(out')
         /\ dirty' \subseteq DirtyEntry /\ diagnostics' \subseteq DiagnosticEntry
         /\ applied' \in 0..MaxChanges /\ purged' \subseteq Pairs /\ rewired' \subseteq Pools
         /\ PoollessHaveNoReserves(prior')
<1>1. dirty' \subseteq DirtyEntry
  BY DirtyKindsType DEF FinishDecode
<1>2. diagnostics' \subseteq DiagnosticEntry
  <2>1. \A k \in touched : Diagnostics(mirror, k) \subseteq DiagnosticEntry
    BY DiagnosticsType DEF TypeOK
  <2> QED
    BY <2>1 DEF FinishDecode
<1> QED
  BY <1>1, <1>2, MaxChangesAssumption DEF FinishDecode, TypeOK

-----------------------------------------------------------------------------
(* The reference decode.                                                   *)

Consistent(s) ==
    \A k \in Pairs : s.rows[k] = Resolve(PoolIndex(s, Pool(k)), s.pending[k])

Following ==
    phase = "applying" =>
        /\ \A k \in Pairs \ mirror.touched : mirror.pending[k] = prior.pending[k]
        /\ \A k \in Pairs : prior.pending[k] # None /\ mirror.pending[k] = None
                                => k \in purged
        /\ \A p \in Pools \ rewired : SameClaims(prior, mirror, p)
        /\ Readable(mirror.pending)

Resolved == Consistent(prior) /\ Consistent(out)

IInv ==
    /\ Resolved
    /\ Readable(prior.pending) /\ Readable(out.pending)
    /\ Following

-----------------------------------------------------------------------------
LEMMA InitTypeOK == Init => TypeOK
  BY EmptyTypes, MaxChangesAssumption DEF Init, InitDecode, TypeOK

LEMMA BeginLedgerTypeOK ==
  ASSUME TypeOK, NEW base \in {prior, out}, BeginLedger(base)
  PROVE  TypeOK'
  BY LoadPriorType, MaxChangesAssumption DEF BeginLedger, StartDecode, TypeOK

LEMMA CloseLedgerTypeOK ==
  ASSUME TypeOK, CloseLedger
  PROVE  TypeOK'
<1>1. Build(mirror) \in LedgerState /\ PoollessHaveNoReserves(Build(mirror))
  BY BuildType DEF TypeOK, PoollessHaveNoReserves, Build
<1>2. mirror.touched \cup RemappedPairs \in SUBSET Pairs
  BY DEF TypeOK, Mirror, RemappedPairs
<1>3. FinishDecode(Build(mirror), mirror.touched \cup RemappedPairs) /\ mirror' = EmptyMirror
  BY DEF CloseLedger
<1> QED
  BY <1>1, <1>2, <1>3, FinishDecodeTypeOK, EmptyTypes DEF TypeOK

LEMMA CrashTypeOK ==
  ASSUME TypeOK, Crash
  PROVE  TypeOK'
  BY EmptyTypes, MaxChangesAssumption DEF Crash, StopProcess, TypeOK

\* Every step of the reference decode keeps the type invariant.
LEMMA NextTypeOK == TypeOK /\ [Next]_decodeVars => TypeOK'
<1> SUFFICES ASSUME TypeOK, [Next]_decodeVars
             PROVE  TypeOK'
  OBVIOUS
<1>1. CASE UNCHANGED decodeVars
  BY <1>1 DEF TypeOK, decodeVars, PoollessHaveNoReserves
<1> QED
  BY <1>1, BeginLedgerTypeOK, ApplyChangeTypeOK, CloseLedgerTypeOK, CrashTypeOK DEF Next

(***************************************************************************)
(* Type correctness of the reference decode: the reducer never leaves the  *)
(* domain of its state, whatever the ledger writes (blend/state.go).       *)
(***************************************************************************)
THEOREM ParanoidTypeOK == Spec => []TypeOK
  BY InitTypeOK, NextTypeOK, PTL DEF Spec

-----------------------------------------------------------------------------
LEMMA EmptyStateInv ==
  Consistent(EmptyState) /\ Readable(EmptyState.pending)
  BY DEF EmptyState, Consistent, Readable, Resolve

LEMMA BuildConsistent ==
  ASSUME mirror \in Mirror
  PROVE  Build(mirror).pending = mirror.pending /\ Consistent(Build(mirror))
<1>1. ASSUME NEW k \in Pairs
      PROVE  PoolIndex(Build(mirror), Pool(k)) = PoolIndex(mirror, Pool(k))
  BY BuildType DEF Pairs, Pool
<1> QED
  BY <1>1 DEF Build, Consistent

\* Every step of the reference decode keeps what it returned resolved.
LEMMA NextResolved ==
  ASSUME TypeOK, Resolved, [Next]_decodeVars
  PROVE  Resolved'
<1>1. CASE UNCHANGED decodeVars
  BY <1>1 DEF Resolved, decodeVars
<1>2. ASSUME NEW base \in {prior, out}, BeginLedger(base)
      PROVE  Resolved'
  BY <1>2 DEF BeginLedger, StartDecode, Resolved
<1>3. CASE ApplyChange
  BY <1>3, ChangeFrame DEF TypeOK, Resolved
<1>4. CASE CloseLedger
  BY <1>4, BuildConsistent DEF CloseLedger, FinishDecode, TypeOK, Resolved
<1>5. CASE Crash
  BY <1>5 DEF Crash, StopProcess, Resolved
<1> QED
  BY <1>1, <1>2, <1>3, <1>4, <1>5 DEF Next

LEMMA InitIInv == Init => IInv
  BY EmptyStateInv DEF Init, InitDecode, IInv, Resolved, Following

LEMMA BeginLedgerIInv ==
  ASSUME TypeOK, IInv, NEW base \in {prior, out}, BeginLedger(base)
  PROVE  IInv'
<1>1. base \in LedgerState /\ Consistent(base) /\ Readable(base.pending)
  BY DEF TypeOK, IInv, Resolved
<1>2. /\ phase' = "applying" /\ prior' = base /\ out' = base
      /\ mirror' = LoadPrior(base)
  BY DEF BeginLedger, StartDecode
<1>3. LoadPrior(base).pending = base.pending
  BY <1>1, LoadPriorType
<1>4. ASSUME NEW p \in Pools
      PROVE  SameClaims(base, LoadPrior(base), p)
  BY DEF SameClaims, LoadPrior
<1>5. Following'
  BY <1>1, <1>2, <1>3, <1>4 DEF Following
<1> QED
  BY <1>1, <1>2, <1>5 DEF IInv, Resolved

\* What a change leaves alone it still leaves alone after the changes before.
LEMMA ApplyChangeIInv ==
  ASSUME DecodableLapses, TypeOK, IInv, ApplyChange
  PROVE  IInv'
<1>1. /\ phase = "applying" /\ UNCHANGED <<phase, prior, out>>
      /\ purged \subseteq purged' /\ rewired \subseteq rewired'
  BY ChangeFrame DEF TypeOK
<1>2. Evolves(mirror, mirror')
  BY ChangeEvolves DEF TypeOK
<1>3. \A k \in Pairs \ mirror'.touched : mirror'.pending[k] = prior.pending[k]
  BY <1>1, <1>2 DEF Evolves, IInv, Following
<1>4. ASSUME NEW k \in Pairs, prior.pending[k] # None, mirror'.pending[k] = None
      PROVE  k \in purged'
  <2>1. CASE mirror.pending[k] = None
    BY <1>1, <1>4, <2>1 DEF IInv, Resolved, Following
  <2>2. CASE mirror.pending[k] # None
    BY <1>4, <2>2, ChangePurges DEF TypeOK
  <2> QED
    BY <2>1, <2>2
<1>5. ASSUME NEW p \in Pools, p \notin rewired'
      PROVE  SameClaims(prior, mirror', p)
  <2>1. SameClaims(prior, mirror, p)
    BY <1>1, <1>5 DEF IInv, Resolved, Following
  <2>2. SameClaims(mirror, mirror', p)
    BY <1>5, ChangeKeepsClaims DEF TypeOK
  <2> QED
    BY <2>1, <2>2 DEF SameClaims
<1>6. Readable(mirror'.pending)
  BY <1>1, ChangeKeepsReadable DEF TypeOK, IInv, Following
<1>7. Following'
  BY <1>1, <1>3, <1>4, <1>5, <1>6 DEF Following
<1> QED
  BY <1>1, <1>7 DEF IInv, Resolved

LEMMA CloseLedgerIInv ==
  ASSUME TypeOK, IInv, CloseLedger
  PROVE  IInv'
<1>1. phase = "applying" /\ phase' = "idle" /\ prior' = prior /\ out' = Build(mirror)
  BY DEF CloseLedger, FinishDecode
<1>2. Build(mirror).pending = mirror.pending /\ Consistent(Build(mirror))
  BY BuildConsistent DEF TypeOK
<1> QED
  BY <1>1, <1>2 DEF IInv, Resolved, Following

LEMMA CrashIInv ==
  ASSUME IInv, Crash
  PROVE  IInv'
  BY DEF Crash, StopProcess, IInv, Resolved, Following

\* Every step of the reference decode keeps the inductive invariant.
LEMMA NextIInv ==
  ASSUME DecodableLapses, TypeOK, IInv, [Next]_decodeVars
  PROVE  IInv'
<1>1. CASE UNCHANGED decodeVars
  BY <1>1 DEF IInv, Resolved, Following, decodeVars
<1> QED
  BY <1>1, BeginLedgerIInv, ApplyChangeIInv, CloseLedgerIInv, CrashIInv DEF Next

-----------------------------------------------------------------------------
(***************************************************************************)
(* The promises, from the invariant.                                       *)
(***************************************************************************)
Promises ==
    DirtyComplete /\ LostLegDiagnosed /\ OnlyRemovalPurges /\ LapsesLoseNoRows

\* Rows that are what their own entry resolves to are attributed correctly.
LEMMA ConsistentAttributes ==
  ASSUME Resolved
  PROVE  NoMisattribution
<1> SUFFICES ASSUME NEW k \in Pairs, NEW row \in out.rows[k]
             PROVE  \E i \in Legs(out.pending[k]) :
                       /\ out.pending[k].blob[i] = row.amount
                       /\ Claimants(out.reserves[Pool(k)], i) = {row.asset}
  BY DEF NoMisattribution
<1> DEFINE index == PoolIndex(out, Pool(k))
<1>1. row \in Resolve(index, out.pending[k])
  BY DEF Resolved, Consistent
<1>2. index # None
  BY <1>1 DEF Resolve
<1>3. PICK i \in Legs(out.pending[k]) : /\ index[i] # None
                                       /\ row.asset = index[i]
                                       /\ row.amount = out.pending[k].blob[i]
  BY <1>1 DEF Resolve
<1>4. i \in Indexes /\ index = ReserveByIndex(out.reserves[Pool(k)])
  BY <1>2, <1>3 DEF PoolIndex, Legs
<1>5. \E a \in Assets : Claimants(out.reserves[Pool(k)], i) = {a}
  BY <1>3, <1>4 DEF ReserveByIndex
<1>6. index[i] = CHOOSE a \in Assets : Claimants(out.reserves[Pool(k)], i) = {a}
  BY <1>4, <1>5 DEF ReserveByIndex
<1>7. Claimants(out.reserves[Pool(k)], i) = {index[i]}
  BY <1>5, <1>6
<1> QED
  BY <1>3, <1>7

\* A decode that changed nothing, or has not returned, promises nothing.
LEMMA QuietPromises ==
  ASSUME out = prior \/ phase = "applying"
  PROVE  Promises
  BY DEF Promises, DirtyComplete, LostLegDiagnosed, OnlyRemovalPurges, LapsesLoseNoRows

LEMMA UntouchedSame ==
  ASSUME TypeOK, IInv, CloseLedger,
         NEW k \in Pairs, k \notin mirror.touched \cup RemappedPairs
  PROVE  /\ out'.pending[k] = prior.pending[k]
         /\ out'.rows[k] = prior.rows[k]
         /\ Unresolved(out, k)' \subseteq Unresolved(prior, k)
<1>1. phase = "applying" /\ out' = Build(mirror) /\ prior' = prior
  BY DEF CloseLedger, FinishDecode
<1>2. mirror.pending[k] = prior.pending[k] /\ out'.pending[k] = mirror.pending[k]
  BY <1>1 DEF IInv, Following, Build
<1>3. PoolIndex(out', Pool(k)) = PoolIndex(mirror, Pool(k))
  BY <1>1, BuildType DEF TypeOK, Pairs, Pool
<1>4. prior.rows[k] = Resolve(PoolIndex(prior, Pool(k)), prior.pending[k])
  BY DEF IInv, Resolved, Consistent
<1>5. out'.rows[k] = Resolve(PoolIndex(mirror, Pool(k)), mirror.pending[k])
  BY <1>1 DEF Build
<1>6. CASE mirror.pending[k] = None
  BY <1>2, <1>4, <1>5, <1>6 DEF Resolve, Unresolved
<1>7. CASE mirror.pending[k] # None
  <2>1. PoolIndex(prior, Pool(k)) = PoolIndex(mirror, Pool(k))
    BY <1>7 DEF RemappedPairs
  <2>2. Pool(k) \in Pools
    BY DEF Pairs, Pool
  <2>3. Pool(k) \in mirror.live <=> Pool(k) \in prior.live
    BY <2>1, <2>2, PoolIndexType DEF TypeOK, Mirror, LedgerState
  <2>4. out'.live = mirror.live
    BY <1>1 DEF Build
  <2>5. Unresolved(out, k)' \subseteq Unresolved(prior, k)
    BY <1>1, <1>2, <1>3, <2>1, <2>3, <2>4 DEF Unresolved
  <2> QED
    BY <1>2, <1>4, <1>5, <2>1, <2>5
<1> QED
  BY <1>6, <1>7

LEMMA CloseLedgerPromises ==
  ASSUME TypeOK, IInv, CloseLedger
  PROVE  Promises'
<1> DEFINE marked == mirror.touched \cup RemappedPairs
<1>1. /\ phase = "applying" /\ out' = Build(mirror)
      /\ UNCHANGED <<prior, purged, rewired>>
      /\ dirty' = DirtyKinds(marked, mirror.pending)
      /\ diagnostics' = UNION {Diagnostics(mirror, k) : k \in marked}
  BY DEF CloseLedger, FinishDecode
<1>2. out'.pending = mirror.pending
  BY <1>1 DEF Build
<1>3. DirtyComplete'
  <2>1. ASSUME NEW k \in Pairs, k \in marked
        PROVE  [pair |-> k, kind |-> IF out'.pending[k] = None THEN "removal" ELSE "upsert"]
                  \in dirty'
    BY <1>1, <1>2, <2>1 DEF DirtyKinds
  <2>2. ASSUME NEW k \in Pairs, k \notin marked
        PROVE  out'.pending[k] = prior'.pending[k] /\ out'.rows[k] = prior'.rows[k]
    BY <1>1, <2>2, UntouchedSame
  <2> QED
    BY <2>1, <2>2 DEF DirtyComplete
<1>4. LostLegDiagnosed'
  <2> SUFFICES ASSUME NEW k \in Pairs,
                      NEW i \in Unresolved(out, k)' \ Unresolved(prior, k)'
               PROVE  \E d \in diagnostics' : d.pair = k /\ d.index = i
    BY DEF LostLegDiagnosed
  <2>1. Unresolved(prior, k)' = Unresolved(prior, k)
    BY <1>1 DEF Unresolved
  <2>2. k \in marked
    BY <2>1, UntouchedSame
  <2>3. /\ mirror.pending[k] # None /\ Pool(k) \in mirror.live
        /\ i \in Indexes /\ i \in Legs(mirror.pending[k])
        /\ PoolIndex(out', Pool(k))[i] = None
    BY <1>1, <1>2 DEF Unresolved, Build
  <2>4. PoolIndex(out', Pool(k)) = ReserveByIndex(mirror.reserves[Pool(k)])
    BY <1>1, <2>3 DEF Build, PoolIndex
  <2>5. \E d \in Diagnostics(mirror, k) : d.pair = k /\ d.index = i
    <3>1. i \in SkippedLegs(mirror.reserves[Pool(k)], mirror.pending[k])
      BY <2>3, <2>4 DEF SkippedLegs
    <3>2. Skip(mirror.reserves[Pool(k)], k, i) \in Diagnostics(mirror, k)
      BY <2>3, <3>1 DEF Diagnostics
    <3>3. /\ Skip(mirror.reserves[Pool(k)], k, i).pair = k
          /\ Skip(mirror.reserves[Pool(k)], k, i).index = i
      BY DEF Skip
    <3> QED
      BY <3>2, <3>3
  <2> QED
    BY <1>1, <2>2, <2>5
<1>5. OnlyRemovalPurges'
  BY <1>1, <1>2 DEF OnlyRemovalPurges, IInv, Following
<1>6. LapsesLoseNoRows'
  <2> SUFFICES ASSUME NEW k \in Pairs, mirror.pending[k] = prior.pending[k],
                      Pool(k) \notin rewired
               PROVE  prior.rows[k] \subseteq Build(mirror).rows[k]
    BY <1>1, <1>2 DEF LapsesLoseNoRows
  <2> DEFINE p == Pool(k)
  <2>1. p \in Pools
    BY DEF Pairs, Pool
  <2>2. prior.rows[k] = Resolve(PoolIndex(prior, p), prior.pending[k])
    BY DEF IInv, Resolved, Consistent
  <2>3. Build(mirror).rows[k] = Resolve(PoolIndex(mirror, p), mirror.pending[k])
    BY DEF Build
  <2>4. CASE p \notin prior.live
    BY <2>2, <2>4 DEF PoolIndex, Resolve
  <2>5. CASE p \in prior.live
    <3>1. p \in mirror.live /\ \A i \in Indexes :
             Claimants(mirror.reserves[p], i) = Claimants(prior.reserves[p], i)
      BY <1>1, <2>1, <2>5 DEF IInv, Following, SameClaims
    <3>2. ReserveByIndex(mirror.reserves[p]) = ReserveByIndex(prior.reserves[p])
      BY <3>1 DEF ReserveByIndex
    <3> QED
      BY <2>2, <2>3, <2>5, <3>1, <3>2 DEF PoolIndex
  <2> QED
    BY <2>4, <2>5
<1> QED
  BY <1>3, <1>4, <1>5, <1>6 DEF Promises

\* Every step of the reference decode keeps the promises.
LEMMA NextPromises ==
  ASSUME TypeOK, IInv, Promises, [Next]_decodeVars
  PROVE  Promises'
<1>1. CASE UNCHANGED decodeVars
  BY <1>1 DEF decodeVars, Promises, DirtyComplete, LostLegDiagnosed, OnlyRemovalPurges,
              LapsesLoseNoRows, Unresolved
<1>2. ASSUME NEW base \in {prior, out}, BeginLedger(base)
      PROVE  Promises'
  BY <1>2 DEF BeginLedger, StartDecode, Promises, DirtyComplete, LostLegDiagnosed,
              OnlyRemovalPurges, LapsesLoseNoRows
<1>3. CASE ApplyChange
  <2>1. phase' = "applying"
    BY <1>3, ChangeFrame DEF TypeOK
  <2> QED
    BY <2>1 DEF Promises, DirtyComplete, LostLegDiagnosed, OnlyRemovalPurges, LapsesLoseNoRows
<1>4. CASE Crash
  <2>1. out' = prior'
    BY <1>4 DEF Crash, StopProcess
  <2> QED
    BY <2>1 DEF Promises, DirtyComplete, LostLegDiagnosed, OnlyRemovalPurges,
                LapsesLoseNoRows, Unresolved
<1> QED
  BY <1>1, <1>2, <1>3, <1>4, CloseLedgerPromises DEF Next

(***************************************************************************)
(* The reference decode keeps its promises when the values lapsed entries  *)
(* carry decode.                                                           *)
(***************************************************************************)
LEMMA SpecPromises ==
  ASSUME DecodableLapses
  PROVE  Spec => []Promises
<1>1. Init => TypeOK /\ IInv /\ Promises
  BY InitTypeOK, InitIInv, QuietPromises DEF Init, InitDecode
<1>2. TypeOK /\ IInv /\ Promises /\ [Next]_decodeVars => (TypeOK /\ IInv /\ Promises)'
  BY NextTypeOK, NextIInv, NextPromises
<1> QED
  BY <1>1, <1>2, PTL DEF Spec

(***************************************************************************)
(* Every pair whose entry or whose rows changed in a ledger is in the      *)
(* dirty set, as an upsert or as a removal (finalizeDirtyPositions,        *)
(* markPoolRemapDirty).                                                    *)
(***************************************************************************)
THEOREM DirtySetIsComplete ==
  ASSUME DecodableLapses
  PROVE  Spec => []DirtyComplete
<1>1. Promises => DirtyComplete
  BY DEF Promises
<1> QED
  BY <1>1, SpecPromises, PTL

(***************************************************************************)
(* A leg that stops resolving leaves a diagnostic in the ledger where it   *)
(* stops: the loss is never silent (positionSkipSink, resolvePositionRows).*)
(***************************************************************************)
THEOREM LostLegsAreDiagnosed ==
  ASSUME DecodableLapses
  PROVE  Spec => []LostLegDiagnosed
<1>1. Promises => LostLegDiagnosed
  BY DEF Promises
<1> QED
  BY <1>1, SpecPromises, PTL

(***************************************************************************)
(* A holder's Positions entry leaves the state only in a ledger that       *)
(* removed it: a lapse archives it, a re-write replaces it (applyDelete).  *)
(***************************************************************************)
THEOREM OnlyRemovalsPurge ==
  ASSUME DecodableLapses
  PROVE  Spec => []OnlyRemovalPurges
<1>1. Promises => OnlyRemovalPurges
  BY DEF Promises
<1> QED
  BY <1>1, SpecPromises, PTL

(***************************************************************************)
(* While a holder's entry stands and nothing re-wires its pool's indexes,  *)
(* none of its rows is lost, whatever lapses (applyDelete on ResConfig,    *)
(* ResData and Positions).                                                 *)
(***************************************************************************)
THEOREM LapsedEntriesLoseNoRows ==
  ASSUME DecodableLapses
  PROVE  Spec => []LapsesLoseNoRows
<1>1. Promises => LapsesLoseNoRows
  BY DEF Promises
<1> QED
  BY <1>1, SpecPromises, PTL

(***************************************************************************)
(* No row of a returned state names a reserve other than the only one      *)
(* whose ResConfig claims the leg's index, whatever the ledger writes      *)
(* (finalizePoolReserves, lidapters#33).                                   *)
(***************************************************************************)
THEOREM ParanoidNoMisattribution == Spec => []NoMisattribution
<1>1. Init => TypeOK /\ Resolved
  BY InitTypeOK, EmptyStateInv DEF Init, InitDecode, Resolved
<1>2. TypeOK /\ Resolved /\ [Next]_decodeVars => (TypeOK /\ Resolved)'
  BY NextTypeOK, NextResolved
<1>3. TypeOK /\ Resolved => NoMisattribution
  BY ConsistentAttributes
<1> QED
  BY <1>1, <1>2, <1>3, PTL DEF Spec
=============================================================================
