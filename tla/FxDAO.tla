-------------------------------- MODULE FxDAO --------------------------------
(***************************************************************************)
(* The FxDAO adapter (fxdao/state.go, adapter.go, transform.go): vaults by *)
(* account and denomination, totals by denomination.  The decode keeps no  *)
(* memory of its own; a ledger is one step over its changes in order.      *)
(* Amounts are members of a small set.                                     *)
(*                                                                         *)
(* `chain' is the history: the last entry of each vault and what wrote it. *)
(***************************************************************************)
EXTENDS Naturals, Sequences, SequencesExt

CONSTANTS
    None,
    Accounts, Denominations,
    Amounts,         \* index, collateral and debt of a vault, or totals
    MaxChanges       \* bound: changes of one ledger

Keys == Accounts \X Denominations

\* "lapsed" is a not-live change that is no Removed: an archival.
Changes ==
         [kind : {"created", "restored"}, key : Keys, amounts : Amounts]
    \cup [kind : {"removed", "lapsed", "index"}, key : Keys]
    \cup [kind : {"info"}, totals : [Denominations -> Amounts \cup {None}]]

Ledgers == UNION {[1..n -> Changes] : n \in 0..MaxChanges}

\* A vault in the state; one that is None was never seen.
Vault == [amounts : Amounts \cup {None}, closed : BOOLEAN, restored : BOOLEAN]

FxDAOAssumption == MaxChanges \in Nat /\ None \notin Amounts \cup Vault

VARIABLES
    vaults,     \* LedgerState.Vaults
    infos,      \* LedgerState.VaultsInfo
    dirty,      \* LastDirtyVaults
    chain       \* history: "unseen", or the kind and amounts of the last entry

vars == <<vaults, infos, dirty, chain>>

Init ==
    /\ vaults = [k \in Keys |-> None]
    /\ infos = [d \in Denominations |-> None]
    /\ dirty = {}
    /\ chain = [k \in Keys |-> [kind |-> "unseen", amounts |-> None]]

-----------------------------------------------------------------------------
(* DecodeState.                                                            *)

Reported(s, k, kind) == [s EXCEPT !.dirty = @ \cup {[key |-> k, kind |-> kind]}]

\* A live write, by whatever change; the variant is kept.
WriteVault(s, c) ==
    Reported([s EXCEPT !.vaults[c.key] = [amounts  |-> c.amounts, closed |-> FALSE,
                                          restored |-> c.kind = "restored"]],
             c.key, "upsert")

\* Mutant: a vault whose live write was never decoded is not closed.
CloseKnownVault(s, c) ==
    IF s.vaults[c.key] = None THEN s
    ELSE Reported([s EXCEPT !.vaults[c.key] = [amounts |-> None, closed |-> TRUE,
                                               restored |-> FALSE]],
                  c.key, "removal")

\* A removal proves the vault existed, even one never decoded live.
CloseVault(s, c) ==
    Reported([s EXCEPT !.vaults[c.key] = [amounts |-> None, closed |-> TRUE,
                                          restored |-> FALSE]],
             c.key, "removal")

\* The instance lists the denominations that have totals; others stay.
WriteInfos(s, c) ==
    [s EXCEPT !.infos = [d \in Denominations |->
        IF c.totals[d] = None THEN s.infos[d] ELSE c.totals[d]]]

Decode(s, c) ==
    CASE c.kind \in {"created", "restored"} -> WriteVault(s, c)
      [] c.kind = "removed"                 -> CloseVault(s, c)
      [] c.kind = "index"                   -> Reported(s, c.key, "upsert")
      [] c.kind = "info"                    -> WriteInfos(s, c)
      [] c.kind = "lapsed"                  -> s

\* Mutant: the first entry of a vault wins.
DedupeFirst(reports) ==
    {r \in reports : r.kind = "upsert" \/ [r EXCEPT !.kind = "upsert"] \notin reports}

\* One entry a vault, a removal over an upsert.
DedupeDirty(reports) ==
    {r \in reports : r.kind = "removal" \/ [r EXCEPT !.kind = "removal"] \notin reports}

Observe(observed, c) ==
    CASE c.kind \in {"created", "restored"} ->
            [observed EXCEPT ![c.key] = [kind |-> c.kind, amounts |-> c.amounts]]
      [] c.kind = "removed" -> [observed EXCEPT ![c.key] = [kind |-> "removed", amounts |-> None]]
      [] OTHER -> observed

DecodeState(ledger) ==
    LET next == FoldLeft(Decode, [vaults |-> vaults, infos |-> infos, dirty |-> {}], ledger)
    IN  /\ vaults' = next.vaults
        /\ infos' = next.infos
        /\ dirty' = DedupeDirty(next.dirty)
        /\ chain' = FoldLeft(Observe, chain, ledger)

Next == \E ledger \in Ledgers : DecodeState(ledger)

Spec == Init /\ [][Next]_vars

-----------------------------------------------------------------------------
(* Transform, and the properties.                                          *)

\* The row a vault emits: active with its amounts, closed without, or none.
Row(k) == IF vaults[k] = None THEN "none"
          ELSE IF vaults[k].closed THEN "closed" ELSE "active"

\* State and report are of their types; only a closed vault lacks amounts,
\* and only a live one is restored.
FxDAOTypeOK ==
    /\ \A k \in Keys : vaults[k] # None =>
            /\ vaults[k] \in Vault
            /\ vaults[k].closed <=> vaults[k].amounts = None
            /\ vaults[k].restored => ~vaults[k].closed
    /\ \A d \in Denominations : infos[d] \in Amounts \cup {None}
    /\ dirty \subseteq [key : Keys, kind : {"upsert", "removal"}]

\* DecodeState and Transform: whatever sequence of writes, restores, archivals
\* and removals a vault goes through, its row is what its last entry says.
VaultsFollowChain ==
    \A k \in Keys :
        CASE chain[k].kind = "unseen"  -> Row(k) = "none"
          [] chain[k].kind = "removed" -> Row(k) = "closed"
          [] OTHER -> /\ Row(k) = "active"
                      /\ vaults[k].amounts = chain[k].amounts
                      /\ vaults[k].restored = (chain[k].kind = "restored")

\* LastDirtyVaults: a vault that moved is reported, once, and one that a
\* ledger closed is reported as a removal.
DirtyVaultsComplete ==
    [][\A k \in Keys :
        LET kinds == {r.kind : r \in {r \in dirty' : r.key = k}}
        IN  /\ vaults'[k] # vaults[k] => kinds # {}
            /\ \A a, b \in kinds : a = b
            /\ (Row(k)' = "closed" /\ Row(k) # "closed") => kinds = {"removal"}]_vars
=============================================================================
