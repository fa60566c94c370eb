------------------------------ MODULE DebtorList ------------------------------
(***************************************************************************)
(* The list of debtors.  A client reads it page by page: each page is one  *)
(* query, and tells at which debtor ID the next page starts.  Debtors are  *)
(* activated and deactivated between the pages.  A row may belong to the   *)
(* other child of a shard that was split; such rows are on no page, but    *)
(* they count when a page is cut.                                          *)
(***************************************************************************)
EXTENDS Integers, SequencesExt

CONSTANTS
  DebtorIds,    \* debtor IDs with a row
  ValidIds,     \* those for which is_valid_debtor_id holds
  MinId,        \* MIN_INT64, where the list starts
  NoId,         \* there is no next page
  PageSize,     \* APP_DEBTORS_PER_PAGE
  MaxChanges    \* bound on activations and deactivations

ASSUME DebtorIdsAssumption ==
  /\ DebtorIds \subseteq Int /\ IsFiniteSet(DebtorIds)
  /\ MinId \in Int /\ \A d \in DebtorIds : MinId <= d
  /\ NoId \notin Int
ASSUME PageAssumption == PageSize \in Nat \ {0} /\ MaxChanges \in Nat

VARIABLES
  status,    \* status[d]: "reserved", "active" or "deactivated"
  next,      \* where the next page starts, or NoId
  listed,    \* the debtors listed so far, in the order of the pages
  steady,    \* history: debtors that have been active since the list was started
  changes    \* number of changes so far

listVars == <<status, next, listed, steady, changes>>

Statuses == {"reserved", "active", "deactivated"}

ListTypeOK ==
  /\ status \in [DebtorIds -> Statuses]
  /\ next \in Int \cup {NoId}
  /\ listed \in Seq(DebtorIds)
  /\ steady \subseteq DebtorIds
  /\ changes \in 0 .. MaxChanges

Active == {d \in DebtorIds : status[d] = "active"}

ListInit ==
  /\ status \in [DebtorIds -> Statuses]
  /\ next = MinId
  /\ listed = <<>>
  /\ steady = Active
  /\ changes = 0

-----------------------------------------------------------------------------
(* get_debtor_ids.                                                         *)

\* Activated and not deactivated.
Candidates(start_from) == {d \in Active : d >= start_from}

\* The n smallest ones of a set of IDs: ORDER BY debtor_id LIMIT n.
Smallest(ids, n) == {d \in ids : Cardinality({x \in ids : x < d}) < n}

\* One row more than the page is asked for; it tells where the next one starts.
Rows(start_from) == Smallest(Candidates(start_from), PageSize + 1)
Page(start_from) == Smallest(Rows(start_from), PageSize)

\* Mutant of NextStart: the next page starts with the last row of this one.
NextStartAtLast(start_from) ==
  IF Rows(start_from) = Page(start_from) THEN NoId
  ELSE CHOOSE d \in Page(start_from) : \A x \in Page(start_from) : x <= d

\* Mutant of NextStart: a page without links of this shard ends the list.
NextStartIfAny(start_from) ==
  LET rest == Rows(start_from) \ Page(start_from)
  IN IF rest = {} \/ Page(start_from) \cap ValidIds = {} THEN NoId ELSE CHOOSE d \in rest : TRUE

NextStart(start_from) ==
  LET rest == Rows(start_from) \ Page(start_from)
  IN IF rest = {} THEN NoId ELSE CHOOSE d \in rest : TRUE

\* The sequences in which the rows can come: the query has ORDER BY debtor_id.
InOrder(ids) ==
  {rows \in [1 .. Cardinality(ids) -> ids] :
     ToSet(rows) = ids /\ \A i, j \in DOMAIN rows : i < j => rows[i] < rows[j]}

\* DebtorEnumerateEndpoint: rows of other shards are dropped from the page.
Enumerate ==
  /\ next # NoId
  /\ \E links \in InOrder(Page(next) \cap ValidIds) : listed' = listed \o links
  /\ next' = NextStart(next)
  /\ UNCHANGED <<status, steady, changes>>

-----------------------------------------------------------------------------
(* Meanwhile.                                                              *)

SetStatus(d, from, to) ==
  /\ changes < MaxChanges
  /\ status[d] = from
  /\ status' = [status EXCEPT ![d] = to]
  /\ steady' = steady \ {d}
  /\ changes' = changes + 1
  /\ UNCHANGED <<next, listed>>

Activate(d) == SetStatus(d, "reserved", "active")
Deactivate(d) == SetStatus(d, "active", "deactivated")

ListNext ==
  \/ Enumerate
  \/ \E d \in DebtorIds : Activate(d) \/ Deactivate(d)

ListSpec == ListInit /\ [][ListNext]_listVars

-----------------------------------------------------------------------------
(* Properties.                                                             *)

\* No debtor is listed twice, and the list is sorted, although each page is read
\* from another state of the table (procedures.py:97-115).
EachOnceInOrder == \A i, j \in DOMAIN listed : i < j => listed[i] < listed[j]

\* "To obtain references to all activated debtors ..." (routes.py:246-248): a
\* debtor that was active all the time is not missing, even if the debtor at
\* which a page was to start has been deactivated meanwhile.
NoneIsMissing == next = NoId => steady \cap ValidIds \subseteq ToSet(listed)
=============================================================================
