-------------------------- MODULE IssuingTransfers --------------------------
(***************************************************************************)
(* The coordinator of issuing transfers: the part of the debtors agent     *)
(* that creates money.  A debtor initiates a transfer; the agent asks the  *)
(* accounting authority to prepare it, commits or dismisses the prepared   *)
(* transfer, and records the outcome the debtor sees.  Meanwhile the       *)
(* debtor may cancel or delete the transfer, and an administrator may      *)
(* deactivate the debtor.                                                  *)
(*                                                                         *)
(* One action is one atomic procedure of swpt_debtors/procedures.py, or    *)
(* one step of the accounting authority, which is another program          *)
(* (external).  Signals and messages are sets that only grow: a message    *)
(* in the set can be delivered at any time, any number of times, in any    *)
(* order, or never.  This is what an outbox flushed at least once and a    *)
(* broker that redelivers amount to.                                       *)
(***************************************************************************)
EXTENDS Integers, FiniteSets

CONSTANTS
  Debtors,        \* debtor IDs; each is also the coordinator_id of its requests
  Uuids,          \* client-generated transfer UUIDs
  Recipients,     \* recipient account identifiers
  Amounts,        \* transfer amounts (zero included: see schemas.py:836)
  TransferIds,    \* IDs that the accounting authority gives to prepared transfers
  NoTransferId,   \* NULL in running_transfer.transfer_id
  Stranger,       \* an account that is not the debtor's root account
  MaxRequests,    \* bound on coordinator_request_id
  MaxActions,     \* APP_MAX_TRANSFERS_PER_MONTH
  AaAnswersOnce,  \* the authority answers each PrepareTransfer only once
  AaEchoes        \* the authority's answers repeat the data of the request

ASSUME AmountsAssumption == Amounts \subseteq Nat
ASSUME BoundsAssumption == MaxRequests \in Nat /\ MaxActions \in Nat
ASSUME NullsAssumption == NoTransferId \notin TransferIds /\ Stranger \notin Debtors
ASSUME AuthorityAssumption == AaAnswersOnce \in BOOLEAN /\ AaEchoes \in BOOLEAN

VARIABLES
  debtor,            \* table "debtor": activation status and the two counters
  running_transfer,  \* table "running_transfer": a set of rows
  cr_seq,            \* the sequence "coordinator_request_id_seq"
  prepare_signals,   \* PrepareTransfer signals sent so far
  finalize_signals,  \* FinalizeTransfer signals sent so far
  prepared_msgs,     \* PreparedTransfer messages sent by the authority
  rejected_msgs,     \* RejectedTransfer messages sent by the authority
  finalized_msgs,    \* FinalizedTransfer messages sent by the authority
  ledger,            \* the authority's prepared transfers and their fate
  cancelled          \* history: requests whose cancellation was confirmed

signalVars == <<prepare_signals, finalize_signals>>
authorityVars == <<prepared_msgs, rejected_msgs, finalized_msgs, ledger>>
vars == <<debtor, running_transfer, cr_seq, signalVars, authorityVars, cancelled>>

Requests == 1 .. MaxRequests
Accounts == Debtors \cup {Stranger}
NoError == "none"                       \* NULL in running_transfer.error_code
SC_OK == "OK"
SC_CANCELED_BY_THE_SENDER == "CANCELED_BY_THE_SENDER"
SC_UNEXPECTED_ERROR == "UNEXPECTED_ERROR"
Refused == "REFUSED"                    \* any other status code
StatusCodes == {SC_OK, Refused}
ErrorCodes == {Refused, SC_CANCELED_BY_THE_SENDER, SC_UNEXPECTED_ERROR}

DebtorRow == [status : {"reserved", "active", "deactivated"},
              running_transfers_count : Nat,
              actions_count : Nat]

RunningTransfer ==
  [debtor_id : Debtors, transfer_uuid : Uuids, coordinator_request_id : Requests,
   amount : Amounts, recipient : Recipients,
   transfer_id : TransferIds \cup {NoTransferId},
   finalized : BOOLEAN, error_code : ErrorCodes \cup {NoError}]

PrepareTransferSignal ==
  [debtor_id : Debtors, coordinator_request_id : Requests,
   amount : Amounts, recipient : Recipients]

FinalizeTransferSignal ==
  [account : Accounts, transfer_id : TransferIds, coordinator_id : Debtors,
   coordinator_request_id : Requests, committed_amount : Amounts \cup {0}]

PreparedTransfer ==
  [account : Accounts, transfer_id : TransferIds, coordinator_id : Debtors,
   coordinator_request_id : Requests, locked_amount : Amounts, recipient : Recipients]

RejectedTransfer ==
  [account : Accounts, coordinator_id : Debtors,
   coordinator_request_id : Requests, status_code : StatusCodes]

FinalizedTransfer ==
  [account : Accounts, transfer_id : TransferIds, coordinator_id : Debtors,
   coordinator_request_id : Requests, committed_amount : Amounts \cup {0},
   status_code : StatusCodes]

LedgerEntry ==
  [account : Accounts, transfer_id : TransferIds, coordinator_id : Debtors,
   coordinator_request_id : Requests, state : {"prepared", "finalized"},
   issued : Amounts \cup {0}]

Init ==
  /\ debtor = [d \in Debtors |-> [status |-> "reserved",
                                  running_transfers_count |-> 0,
                                  actions_count |-> 0]]
  /\ running_transfer = {}
  /\ cr_seq = 0
  /\ prepare_signals = {} /\ finalize_signals = {}
  /\ prepared_msgs = {} /\ rejected_msgs = {} /\ finalized_msgs = {}
  /\ ledger = {}
  /\ cancelled = {}

-----------------------------------------------------------------------------
(* Helpers of procedures.py                                                *)

RowsOf(d) == {r \in running_transfer : r.debtor_id = d}

\* _find_running_transfer: the row a message is about (at most one).
Find(m) == {r \in running_transfer : /\ r.debtor_id = m.coordinator_id
                                     /\ r.coordinator_request_id = m.coordinator_request_id}

\* Mutant of IsSettled: a transfer can be cancelled until it has a result.
SettledWhenFinalized(r) == r.finalized
IsSettled(r) == r.transfer_id # NoTransferId

\* Mutant of Finalize: the last result stays.
FinalizeAgain(r, code) == [r EXCEPT !.finalized = TRUE, !.error_code = code]
\* _finalize_running_transfer: the first result stays.
Finalize(r, code) ==
  IF r.finalized THEN r ELSE [r EXCEPT !.finalized = TRUE, !.error_code = code]

\* The table after one of its rows has been modified.
Update(old, new) == (running_transfer \ {old}) \cup {new}

\* _throttle_debtor_actions: "elapsed" says whether more than 30 days have
\* passed since the last reset of the counter.
Throttled(row, elapsed) ==
  [row EXCEPT !.actions_count = IF elapsed THEN 1 ELSE @ + 1]
ThrottleAllows(row, elapsed) ==
  /\ row.status = "active"
  /\ (IF elapsed THEN 0 ELSE row.actions_count) < MaxActions

\* One running transfer more (procedures.py:316).
Counted(row) == [row EXCEPT !.running_transfers_count = @ + 1]

-----------------------------------------------------------------------------
(* Procedures called by the Web API                                        *)

ActivateDebtor(d) ==
  /\ debtor[d].status = "reserved"
  /\ debtor' = [debtor EXCEPT ![d].status = "active"]
  /\ UNCHANGED <<running_transfer, cr_seq, signalVars, authorityVars, cancelled>>

\* Mutant of DeactivateDebtor: the rows are left to be deleted one by one.
DeactivateKeepsRows(d) ==
  /\ debtor[d].status = "active"
  /\ debtor' = [debtor EXCEPT ![d].status = "deactivated",
                              ![d].running_transfers_count = 0]
  /\ UNCHANGED <<running_transfer, cr_seq, signalVars, authorityVars, cancelled>>

DeactivateDebtor(d) ==
  /\ debtor[d].status = "active"
  /\ debtor' = [debtor EXCEPT ![d].status = "deactivated",
                              ![d].running_transfers_count = 0]
  /\ running_transfer' = running_transfer \ RowsOf(d)
  /\ UNCHANGED <<cr_seq, signalVars, authorityVars, cancelled>>

InitiateTransfer(d, uuid, amount, recipient, elapsed) ==
  /\ \A r \in RowsOf(d) : r.transfer_uuid # uuid
  /\ ThrottleAllows(debtor[d], elapsed)
  /\ debtor[d].running_transfers_count + 1 <= MaxActions
  /\ cr_seq < MaxRequests
  /\ cr_seq' = cr_seq + 1
  /\ debtor' = [debtor EXCEPT ![d] = Counted(Throttled(@, elapsed))]
  /\ running_transfer' = running_transfer \cup
       {[debtor_id |-> d, transfer_uuid |-> uuid, coordinator_request_id |-> cr_seq',
         amount |-> amount, recipient |-> recipient, transfer_id |-> NoTransferId,
         finalized |-> FALSE, error_code |-> NoError]}
  /\ prepare_signals' = prepare_signals \cup
       {[debtor_id |-> d, coordinator_request_id |-> cr_seq',
         amount |-> amount, recipient |-> recipient]}
  /\ UNCHANGED <<finalize_signals, authorityVars, cancelled>>

CancelTransfer(r) ==
  /\ ~IsSettled(r)
  /\ running_transfer' = Update(r, Finalize(r, SC_CANCELED_BY_THE_SENDER))
  /\ cancelled' = cancelled \cup {r.coordinator_request_id}
  /\ UNCHANGED <<debtor, cr_seq, signalVars, authorityVars>>

\* Mutant of DeleteTransfer: only a finalized transfer leaves the count.
DeleteUncounted(r) ==
  /\ running_transfer' = running_transfer \ {r}
  /\ debtor' = [debtor EXCEPT ![r.debtor_id].running_transfers_count =
                                @ - IF r.finalized THEN 1 ELSE 0]
  /\ UNCHANGED <<cr_seq, signalVars, authorityVars, cancelled>>

DeleteTransfer(r) ==
  /\ running_transfer' = running_transfer \ {r}
  /\ debtor' = [debtor EXCEPT ![r.debtor_id].running_transfers_count = @ - 1]
  /\ UNCHANGED <<cr_seq, signalVars, authorityVars, cancelled>>

-----------------------------------------------------------------------------
(* Procedures called by the message consumer                               *)

FinalizeSignal(m, amount) ==
  [account |-> m.account, transfer_id |-> m.transfer_id,
   coordinator_id |-> m.coordinator_id,
   coordinator_request_id |-> m.coordinator_request_id, committed_amount |-> amount]

\* Mutant of PreparedMatches: the locked amount must exceed the requested one.
PreparedExceeds(r, m) ==
  /\ r.debtor_id = m.account
  /\ r.recipient = m.recipient
  /\ r.amount < m.locked_amount

PreparedMatches(r, m) ==
  /\ r.debtor_id = m.account
  /\ r.recipient = m.recipient
  /\ r.amount <= m.locked_amount

\* Mutants of Settle: a finalized row, or a settled one, is settled again.
SettleFinalized(r, m) ==
  IF ~IsSettled(r) THEN [r EXCEPT !.transfer_id = m.transfer_id] ELSE r
SettleAgain(r, m) ==
  IF ~r.finalized THEN [r EXCEPT !.transfer_id = m.transfer_id] ELSE r

\* The first matching PreparedTransfer gives the row its transfer_id.
Settle(r, m) ==
  IF ~r.finalized /\ ~IsSettled(r) THEN [r EXCEPT !.transfer_id = m.transfer_id] ELSE r

\* The amount the agent lets the authority issue; zero dismisses the transfer.
AmountToCommit(r, m) ==
  IF Settle(r, m).transfer_id = m.transfer_id THEN r.amount ELSE 0

\* Mutant of DismissUnmatched: only transfers with a row are dismissed.
DismissMismatched(m) ==
  /\ Find(m) # {}
  /\ ~ \E r \in Find(m) : PreparedMatches(r, m)
  /\ finalize_signals' = finalize_signals \cup {FinalizeSignal(m, 0)}
  /\ UNCHANGED running_transfer

DismissUnmatched(m) ==
  /\ ~ \E r \in Find(m) : PreparedMatches(r, m)
  /\ finalize_signals' = finalize_signals \cup {FinalizeSignal(m, 0)}
  /\ UNCHANGED running_transfer

ProcessPrepared(m) ==
  /\ \/ \E r \in Find(m) :
          /\ PreparedMatches(r, m)
          /\ running_transfer' = Update(r, Settle(r, m))
          /\ finalize_signals' = finalize_signals \cup
               {FinalizeSignal(m, AmountToCommit(r, m))}
     \/ DismissUnmatched(m)
  /\ UNCHANGED <<debtor, cr_seq, prepare_signals, authorityVars, cancelled>>

ProcessRejected(m) ==
  /\ \E r \in Find(m) :
       /\ ~r.finalized
       /\ running_transfer' = Update(r, Finalize(r,
            IF m.status_code # SC_OK /\ r.debtor_id = m.account
            THEN m.status_code ELSE SC_UNEXPECTED_ERROR))
  /\ UNCHANGED <<debtor, cr_seq, signalVars, authorityVars, cancelled>>

\* Mutant of OutcomeOf: the status code is not looked at.
OutcomeByAmount(r, m) ==
  IF m.committed_amount <= r.amount THEN NoError ELSE SC_UNEXPECTED_ERROR

\* The error_code that a FinalizedTransfer message results in.
OutcomeOf(r, m) ==
  CASE m.status_code = SC_OK /\ m.committed_amount = r.amount -> NoError
    [] m.status_code # SC_OK /\ m.committed_amount = 0 -> m.status_code
    [] OTHER -> SC_UNEXPECTED_ERROR

ProcessFinalized(m) ==
  /\ \E r \in Find(m) :
       /\ r.debtor_id = m.account
       /\ r.transfer_id = m.transfer_id
       /\ running_transfer' = Update(r, Finalize(r, OutcomeOf(r, m)))
  /\ UNCHANGED <<debtor, cr_seq, signalVars, authorityVars, cancelled>>

-----------------------------------------------------------------------------
(* The accounting authority (external): what swpt_debtors expects of it    *)

Answered(p) ==
  \E m \in prepared_msgs \cup rejected_msgs :
    /\ m.coordinator_id = p.debtor_id
    /\ m.coordinator_request_id = p.coordinator_request_id

AuthorityMayAnswer(p) == AaAnswersOnce => ~Answered(p)

\* Fresh among the transfers prepared from the same account.
UnusedTransferIds(account) ==
  {t \in TransferIds : \A e \in ledger : e.account = account => e.transfer_id # t}

AuthorityPrepares(p, account, t, locked, recipient) ==
  /\ AuthorityMayAnswer(p)
  /\ AaEchoes => <<account, locked, recipient>> = <<p.debtor_id, p.amount, p.recipient>>
  /\ t \in UnusedTransferIds(account)
  /\ ledger' = ledger \cup
       {[account |-> account, transfer_id |-> t, coordinator_id |-> p.debtor_id,
         coordinator_request_id |-> p.coordinator_request_id,
         state |-> "prepared", issued |-> 0]}
  /\ prepared_msgs' = prepared_msgs \cup
       {[account |-> account, transfer_id |-> t, coordinator_id |-> p.debtor_id,
         coordinator_request_id |-> p.coordinator_request_id,
         locked_amount |-> locked, recipient |-> recipient]}
  /\ UNCHANGED <<debtor, running_transfer, cr_seq, signalVars,
                 rejected_msgs, finalized_msgs, cancelled>>

AuthorityRejects(p, account, code) ==
  /\ AuthorityMayAnswer(p)
  /\ AaEchoes => account = p.debtor_id /\ code # SC_OK
  /\ rejected_msgs' = rejected_msgs \cup
       {[account |-> account, coordinator_id |-> p.debtor_id,
         coordinator_request_id |-> p.coordinator_request_id, status_code |-> code]}
  /\ UNCHANGED <<debtor, running_transfer, cr_seq, signalVars,
                 prepared_msgs, finalized_msgs, ledger, cancelled>>

\* The first FinalizeTransfer for a prepared transfer decides its fate: it is
\* executed (SC_OK), or it fails and nothing is issued.
AuthorityFinalizes(s, e, committed, code) ==
  /\ e.state = "prepared"
  /\ e.account = s.account /\ e.transfer_id = s.transfer_id
  /\ AaEchoes => committed = (IF code = SC_OK THEN s.committed_amount ELSE 0)
  /\ ledger' = (ledger \ {e}) \cup
       {[e EXCEPT !.state = "finalized",
                  !.issued = IF code = SC_OK THEN s.committed_amount ELSE 0]}
  /\ finalized_msgs' = finalized_msgs \cup
       {[account |-> e.account, transfer_id |-> e.transfer_id,
         coordinator_id |-> e.coordinator_id,
         coordinator_request_id |-> e.coordinator_request_id,
         committed_amount |-> committed, status_code |-> code]}
  /\ UNCHANGED <<debtor, running_transfer, cr_seq, signalVars,
                 prepared_msgs, rejected_msgs, cancelled>>

AuthorityAnswer(p) ==
  \/ \E account \in Accounts, t \in TransferIds, locked \in Amounts, recipient \in Recipients :
       AuthorityPrepares(p, account, t, locked, recipient)
  \/ \E account \in Accounts, code \in StatusCodes : AuthorityRejects(p, account, code)

AuthorityAnswers == \E p \in prepare_signals : AuthorityAnswer(p)
AuthorityAnswersFirst == \E p \in prepare_signals : ~Answered(p) /\ AuthorityAnswer(p)

AuthorityFinalizesSome ==
  \E s \in finalize_signals, e \in ledger, committed \in Amounts \cup {0}, code \in StatusCodes :
    AuthorityFinalizes(s, e, committed, code)

-----------------------------------------------------------------------------
ProcessSomePrepared == \E m \in prepared_msgs : ProcessPrepared(m)
ProcessSomeRejected == \E m \in rejected_msgs : ProcessRejected(m)
ProcessSomeFinalized == \E m \in finalized_msgs : ProcessFinalized(m)

Next ==
  \/ \E d \in Debtors : ActivateDebtor(d) \/ DeactivateDebtor(d)
  \/ \E d \in Debtors, uuid \in Uuids, amount \in Amounts,
        recipient \in Recipients, elapsed \in BOOLEAN :
       InitiateTransfer(d, uuid, amount, recipient, elapsed)
  \/ \E r \in running_transfer : CancelTransfer(r) \/ DeleteTransfer(r)
  \/ ProcessSomePrepared
  \/ ProcessSomeRejected
  \/ ProcessSomeFinalized
  \/ AuthorityAnswers
  \/ AuthorityFinalizesSome

Spec == Init /\ [][Next]_vars

\* The consumer processes every message in the end, the flusher sends every
\* signal in the end, and the authority answers each request once and acts on
\* what it is sent.
Fairness ==
  /\ WF_vars(ProcessSomePrepared)
  /\ WF_vars(ProcessSomeRejected)
  /\ WF_vars(ProcessSomeFinalized)
  /\ WF_vars(AuthorityAnswersFirst)
  /\ WF_vars(AuthorityFinalizesSome)

FairSpec == Spec /\ Fairness

-----------------------------------------------------------------------------
(* Properties                                                              *)

\* Every table row, signal, message and counter has the shape its column or
\* class definition gives it.
TypeOK ==
  /\ debtor \in [Debtors -> DebtorRow]
  /\ running_transfer \subseteq RunningTransfer
  /\ cr_seq \in 0 .. MaxRequests
  /\ prepare_signals \subseteq PrepareTransferSignal
  /\ finalize_signals \subseteq FinalizeTransferSignal
  /\ prepared_msgs \subseteq PreparedTransfer
  /\ rejected_msgs \subseteq RejectedTransfer
  /\ finalized_msgs \subseteq FinalizedTransfer
  /\ ledger \subseteq LedgerEntry
  /\ cancelled \subseteq Requests

\* The agent has told the authority to issue money for request q of debtor d.
CommitSignals(d, q) ==
  {s \in finalize_signals : /\ s.coordinator_id = d
                            /\ s.coordinator_request_id = q
                            /\ s.committed_amount > 0}

\* running_transfers_count (procedures.py:316, 289, 740), which the limit on
\* the number of running transfers relies on, is the number of rows, and
\* nobody but an active debtor has rows.
CountMatches ==
  \A d \in Debtors :
    /\ debtor[d].running_transfers_count = Cardinality(RowsOf(d))
    /\ debtor[d].status # "active" => RowsOf(d) = {}

\* What the API promises to a debtor who cancels (routes.py:634-637): once a
\* cancellation is confirmed the transfer is never committed, also after its
\* row is deleted, whatever PreparedTransfer messages arrive later.
CancelledNeverCommitted ==
  \A d \in Debtors : \A q \in cancelled : CommitSignals(d, q) = {}

\* However many PreparedTransfer messages arrive for a request, and whether
\* the row is cancelled, deleted or finalized between them, at most one
\* prepared transfer is committed for it (procedures.py:477-496).
AtMostOneCommit ==
  \A s1, s2 \in finalize_signals :
    /\ s1.coordinator_id = s2.coordinator_id
    /\ s1.coordinator_request_id = s2.coordinator_request_id
    /\ s1.committed_amount > 0 /\ s2.committed_amount > 0
    => s1.transfer_id = s2.transfer_id

\* A row that reports success stands for exactly the requested amount, issued
\* by the authority (procedures.py:522-523).
SuccessMeansIssued ==
  \A r \in running_transfer :
    r.finalized /\ r.error_code = NoError =>
      \E e \in ledger : /\ e.account = r.debtor_id
                        /\ e.transfer_id = r.transfer_id
                        /\ e.state = "finalized"
                        /\ e.issued = r.amount

\* A row that reports a failure stands for no money: the committed amount the
\* API shows for it is zero (schemas.py:776-781, 990), so nothing has been and
\* nothing can still be issued for its request.
FailureMeansNothingIssued ==
  \A r \in running_transfer :
    r.finalized /\ r.error_code # NoError =>
      \A s \in CommitSignals(r.debtor_id, r.coordinator_request_id) :
        \E e \in ledger : /\ e.account = s.account
                          /\ e.transfer_id = s.transfer_id
                          /\ e.state = "finalized"
                          /\ e.issued = 0

\* The committed amount of a transfer that "has been unsuccessful ... will be
\* zero" (schemas.py:780-781): the authority has issued nothing for it.
UnsuccessfulIssuedZero ==
  \A r \in running_transfer :
    r.finalized /\ r.error_code # NoError =>
      \A e \in ledger : e.coordinator_request_id = r.coordinator_request_id => e.issued = 0

\* The committed amount shown for a successful transfer is "always a positive
\* number" (schemas.py:778-779).
SuccessIsPositive ==
  \A r \in running_transfer : r.finalized /\ r.error_code = NoError => r.amount > 0

\* The result a debtor has seen never changes (procedures.py:752): a late
\* message, a redelivery or a cancellation leaves a finalized row alone until
\* the row is deleted.
ResultsAreFinal ==
  [][\A r \in running_transfer :
       r.finalized => \/ r \in running_transfer'
                      \/ \A n \in running_transfer' :
                           n.coordinator_request_id # r.coordinator_request_id]_vars

\* A running transfer does not hang: it gets a result unless it is deleted, or
\* the authority has prepared something else than was requested
\* (procedures.py:464-496).
Pending(q) == \E r \in running_transfer : r.coordinator_request_id = q /\ ~r.finalized
Misanswered(q) ==
  \E p \in prepare_signals, m \in prepared_msgs :
    /\ p.coordinator_request_id = q /\ m.coordinator_request_id = q
    /\ <<m.account, m.locked_amount, m.recipient>> # <<p.debtor_id, p.amount, p.recipient>>
EventuallyFinalized == \A q \in Requests : Pending(q) ~> ~Pending(q) \/ Misanswered(q)

\* No money stays locked: every transfer the authority prepares is committed
\* or dismissed, also when its request has been cancelled or deleted, or does
\* not match (procedures.py:496).
Locked(account, t) ==
  \E e \in ledger : e.account = account /\ e.transfer_id = t /\ e.state = "prepared"
NothingStaysLocked ==
  \A account \in Accounts, t \in TransferIds :
    Locked(account, t) ~> ~Locked(account, t)
=============================================================================
