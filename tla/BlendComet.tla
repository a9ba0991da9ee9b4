------------------------------ MODULE BlendComet ------------------------------
(***************************************************************************)
(* The Comet LP behind a Blend backstop (blend/state_comet.go): three      *)
(* persistent entries, each one a facet that is known or not on its own,   *)
(* and the neutral AMMPoolState that carries them across ledgers.          *)
(*                                                                         *)
(* Abstraction: a raw integer string is an amount, None when the string is *)
(* empty; the order of AllTokenVec is not observable (the carrier sorts    *)
(* it) and a record keeps its balance only.                                *)
(***************************************************************************)
EXTENDS Naturals

CONSTANTS Tokens, Amounts, None

Partial(S, T) == UNION {[D -> T] : D \in SUBSET S}

TokenVecs == {vec : vec \in SUBSET Tokens}

\* cometPoolBuilder: None for a facet that is not known.
Facets == [tokens  : TokenVecs \cup {None},
           records : Partial(Tokens, Amounts) \cup {None},
           supply  : Amounts \cup {None}]

\* AMMPoolState: each listed token with its reserve, None for "".
Carrier == [listed : Partial(Tokens, Amounts \cup {None}) \cup {None},
            supply : Amounts \cup {None}]

ASSUME CometNoneAssumption ==
    /\ None \notin Amounts
    /\ None \notin TokenVecs
    /\ None \notin Partial(Tokens, Amounts \cup {None})
    /\ None \notin Facets
    /\ None \notin Carrier

UnseenComet == [tokens |-> None, records |-> None, supply |-> None]

EnsureComet(comet) == IF comet = None THEN UnseenComet ELSE comet

OrEmpty(S) == IF S = None THEN {} ELSE S

RecordedTokens(comet) == IF comet.records = None THEN {} ELSE DOMAIN comet.records

\* The decoded reserve of a token, None unless the record map is known and
\* lists it.
ReserveOf(comet, t) ==
    IF t \in RecordedTokens(comet) THEN comet.records[t] ELSE None

\* buildAMMPools: tokens of the vector and of the records, one list.
BuildComet(comet) ==
    [listed |-> IF comet.tokens = None /\ comet.records = None THEN None
                ELSE [t \in OrEmpty(comet.tokens) \cup RecordedTokens(comet)
                        |-> ReserveOf(comet, t)],
     supply |-> comet.supply]

PricedTokens(carrier) == {t \in DOMAIN carrier.listed : carrier.listed[t] # None}

\* restoreComet: the vector is known as soon as the carrier lists anything,
\* the records only if a reserve proves it (or nothing is listed at all).
RestoreComet(carrier) ==
    IF carrier.listed = None THEN [UnseenComet EXCEPT !.supply = carrier.supply]
    ELSE [tokens  |-> DOMAIN carrier.listed,
          records |-> IF DOMAIN carrier.listed = {} \/ PricedTokens(carrier) # {}
                      THEN [t \in PricedTokens(carrier) |-> carrier.listed[t]]
                      ELSE None,
          supply  |-> carrier.supply]

(* applyCometChange / applyCometDelete, one operator per facet.            *)

CometInstance(comet) == EnsureComet(comet)

WriteFacet(comet, facet, value) == [EnsureComet(comet) EXCEPT ![facet] = value]

\* A Comet that was never seen has nothing to forget.
LapseFacet(comet, facet) ==
    IF comet = None THEN None ELSE [comet EXCEPT ![facet] = None]

FacetValues == [tokens  |-> TokenVecs,
                records |-> Partial(Tokens, Amounts),
                supply  |-> Amounts]
=============================================================================
