----------------------------- MODULE DebtorQuotas -----------------------------
(***************************************************************************)
(* The two limits on what one debtor does, and the documents that one of   *)
(* them limits.  A counter with a reset date counts the management actions *)
(* (initiated transfers, changes of the configuration), another one counts *)
(* the saved documents; each starts again when it is used after its period *)
(* is over.  Other processes act for the same debtor; the row lock makes   *)
(* each of the procedures below one step.                                  *)
(***************************************************************************)
EXTENDS Integers, Sequences

CONSTANTS
  ActionsPeriod,    \* 30 days
  DocumentsPeriod,  \* 365 days
  MaxActions,       \* APP_MAX_TRANSFERS_PER_MONTH
  MaxSaves,         \* APP_DOCUMENT_MAX_SAVES_PER_YEAR
  Contents,         \* contents of documents, with their types
  MaxDay            \* bound on the days

Quotas == {"actions", "documents"}
Period == [actions |-> ActionsPeriod, documents |-> DocumentsPeriod]
Maximum == [actions |-> MaxActions, documents |-> MaxSaves]

ASSUME LimitsAssumption ==
  /\ ActionsPeriod \in Nat /\ DocumentsPeriod \in Nat
  /\ MaxActions \in Nat \ {0} /\ MaxSaves \in Nat \ {0}
ASSUME DaysAssumption == MaxDay \in Nat

VARIABLES
  active,      \* the debtor is activated and not deactivated
  today,       \* the clock, in days
  count,       \* actions_count and documents_count
  reset_date,  \* actions_count_reset_date and documents_count_reset_date
  documents,   \* table "document": documents[i] is the content with ID i
  answers,     \* history: [id, content] in the answers to the saves
  permitted    \* history: permitted[q] lists the days of what was permitted

vars == <<active, today, count, reset_date, documents, answers, permitted>>

Days == 0 .. MaxDay

TypeOK ==
  /\ active \in BOOLEAN
  /\ today \in Days
  /\ count \in [Quotas -> Nat]
  /\ reset_date \in [Quotas -> Days]
  /\ documents \in Seq(Contents)
  /\ answers \subseteq [id : Nat, content : Contents]
  /\ permitted \in [Quotas -> Seq(Days)]
  /\ \A q \in Quotas : count[q] <= Maximum[q] /\ reset_date[q] <= today

Init ==
  /\ active = TRUE
  /\ today = 0
  /\ count = [q \in Quotas |-> 0]
  /\ reset_date = [q \in Quotas |-> 0]
  /\ documents = <<>>
  /\ answers = {}
  /\ permitted = [q \in Quotas |-> <<>>]

-----------------------------------------------------------------------------
(* _throttle_debtor_actions and _throttle_document_saves.                  *)

IsOver(q) == today - reset_date[q] > Period[q]

\* What the counter shows to a procedure that is called now.
CurrentCount(q) == IF IsOver(q) THEN 0 ELSE count[q]

\* Mutant of IsRefused: the counter is looked at before it is reset.
IsRefusedUnreset(q) == count[q] >= Maximum[q]

\* TooManyManagementActions, TooManySavedDocuments.  The exception rolls back
\* the reset, too.
IsRefused(q) == CurrentCount(q) >= Maximum[q]

\* Mutant of Throttle: the reset date is left as it was.
ThrottleSameDate(q) ==
  /\ active
  /\ ~IsRefused(q)
  /\ count' = [count EXCEPT ![q] = CurrentCount(q) + 1]
  /\ UNCHANGED reset_date
  /\ permitted' = [permitted EXCEPT ![q] = Append(@, today)]

Throttle(q) ==
  /\ active
  /\ ~IsRefused(q)
  /\ count' = [count EXCEPT ![q] = CurrentCount(q) + 1]
  /\ reset_date' = [reset_date EXCEPT ![q] = IF IsOver(q) THEN today ELSE @]
  /\ permitted' = [permitted EXCEPT ![q] = Append(@, today)]

-----------------------------------------------------------------------------
(* The procedures.                                                         *)

\* initiate_transfer, update_debtor_config; an action that fails after this
\* is rolled back as a whole.
ManagementAction ==
  /\ Throttle("actions")
  /\ UNCHANGED <<active, today, documents, answers>>

\* save_document; the answer carries the content and the location of the
\* document, and may be lost.
SaveDocument(content) ==
  /\ Throttle("documents")
  /\ documents' = Append(documents, content)
  /\ answers' \in {answers, answers \cup {[id |-> Len(documents'), content |-> content]}}
  /\ UNCHANGED <<active, today>>

\* get_document does not ask whether the debtor is active.
GetDocument(id) == IF id \in DOMAIN documents THEN {documents[id]} ELSE {}

\* "All its belonging objects (transfers, etc.) are removed", not the documents.
DeactivateDebtor ==
  /\ active
  /\ active' = FALSE
  /\ UNCHANGED <<today, count, reset_date, documents, answers, permitted>>

NextDay ==
  /\ today < MaxDay
  /\ today' = today + 1
  /\ UNCHANGED <<active, count, reset_date, documents, answers, permitted>>

Next ==
  \/ ManagementAction
  \/ \E content \in Contents : SaveDocument(content)
  \/ DeactivateDebtor
  \/ NextDay

Spec == Init /\ [][Next]_vars

-----------------------------------------------------------------------------
(* Properties.                                                             *)

\* The periods follow the use of the quota, not the calendar, so a period's
\* worth of days may see the end of one and the beginning of the next: at most
\* twice the maximum is permitted in it, never more (procedures.py:658-704).
AtMostTwicePerPeriod ==
  \A q \in Quotas : \A i, j \in 1 .. Len(permitted[q]) :
    j - i >= 2 * Maximum[q] => permitted[q][j] - permitted[q][i] > Period[q]

\* Nobody is refused who has not used up the maximum within the last period:
\* the counter of an earlier period refuses nothing (procedures.py:674, 696).
RefusedForCause ==
  \A q \in Quotas :
    IsRefused(q) =>
      /\ Len(permitted[q]) >= Maximum[q]
      /\ permitted[q][Len(permitted[q]) - Maximum[q] + 1] >= today - Period[q]

\* models.py:343: a document "should remain available indefinitely".  What was
\* answered to the debtor is what anyone gets at that location from then on,
\* whether the debtor is active or not.
DocumentsStay == \A a \in answers : GetDocument(a.id) = {a.content}
=============================================================================
