------------------------ MODULE IssuingOutcomes_proofs ------------------------
(***************************************************************************)
(* Proofs about the results that the debtors of IssuingTransfers see: what *)
(* a row reports agrees with what the accounting authority has issued.     *)
(* The inductive invariant follows a prepared transfer from the authority  *)
(* through the agent's FinalizeTransfer signals and back.                  *)
(***************************************************************************)
EXTENDS IssuingTransfers_proofs, IssuingTransfersRefinement

-----------------------------------------------------------------------------
(* The invariant                                                           *)

\* Two things about the same prepared transfer: the authority names one by the
\* account and an ID that is unique for the account.
SameTransfer(x, y) == x.account = y.account /\ x.transfer_id = y.transfer_id

\* The message is about the request of the row.
IsAbout(m, r) ==
  m.coordinator_id = r.debtor_id /\ m.coordinator_request_id = r.coordinator_request_id

PreparedInLedger == \A m \in prepared_msgs : \E e \in ledger : SameTransfer(m, e)
PreparedOnce == \A m1, m2 \in prepared_msgs : SameTransfer(m1, m2) => m1 = m2
LedgerOnce == \A e1, e2 \in ledger : SameTransfer(e1, e2) => e1 = e2

\* The agent finalizes what has been prepared for the request.
SignalsPrepared ==
  \A s \in finalize_signals : \E m \in prepared_msgs :
    /\ SameTransfer(s, m)
    /\ m.coordinator_id = s.coordinator_id
    /\ m.coordinator_request_id = s.coordinator_request_id

\* What is reported as finalized is, with the amount that the agent has
\* authorised if it was successful, and with nothing issued otherwise.
Fate(m, e) ==
  /\ SameTransfer(m, e)
  /\ e.state = "finalized"
  /\ m.status_code = SC_OK =>
       \E s \in finalize_signals : SameTransfer(m, s) /\ e.issued = s.committed_amount
  /\ m.status_code # SC_OK => e.issued = 0
  /\ AaEchoes => m.committed_amount = e.issued
FinalizedInLedger == \A m \in finalized_msgs : \E e \in ledger : Fate(m, e)

\* The transfer a row is settled with has been prepared for it, and was
\* never finalized with another amount.
SettledRight ==
  \A r \in running_transfer : IsSettled(r) =>
    /\ \E m \in prepared_msgs :
         IsAbout(m, r) /\ PreparedMatches(r, m) /\ m.transfer_id = r.transfer_id
    /\ \A s \in finalize_signals :
         s.account = r.debtor_id /\ s.transfer_id = r.transfer_id
           => s.committed_amount = r.amount

\* Nothing that a row may still be settled with has been finalized.
Undecided ==
  \A r \in running_transfer : ~r.finalized /\ ~IsSettled(r) =>
    \A m \in prepared_msgs : IsAbout(m, r) /\ PreparedMatches(r, m) =>
      \A s \in finalize_signals : ~SameTransfer(s, m)

\* Money is issued from the account of the request's debtor.
CommitsOwnAccount ==
  \A s \in finalize_signals, r \in running_transfer :
    Commits(s) /\ r.coordinator_request_id = s.coordinator_request_id
      => s.account = r.debtor_id

LedgerParts ==
  /\ PreparedInLedger /\ PreparedOnce /\ LedgerOnce
  /\ SignalsPrepared /\ FinalizedInLedger
RowParts == SettledRight /\ Undecided /\ CommitsOwnAccount

OutcomeInv == CommitInv /\ LedgerParts /\ RowParts /\ SuccessMeansIssued

\* With an authority that answers once, and repeats what it was asked for, a
\* failed row that is settled stands for a transfer that has failed.
AnswersExclude ==
  \A m1 \in rejected_msgs, m2 \in prepared_msgs :
    ~ (/\ m1.coordinator_id = m2.coordinator_id
       /\ m1.coordinator_request_id = m2.coordinator_request_id)
FailedRight ==
  \A r \in running_transfer :
    r.finalized /\ r.error_code # NoError /\ IsSettled(r) =>
      \E e \in ledger : /\ e.account = r.debtor_id /\ e.transfer_id = r.transfer_id
                        /\ e.state = "finalized" /\ e.issued = 0
FailureInv == OutcomeInv /\ AnswersExclude /\ FailedRight

-----------------------------------------------------------------------------
(* Results are final                                                       *)

\* A result once recorded never changes while its row exists.
THEOREM ResultsStay == Spec => ResultsAreFinal
<1> DEFINE Kept(r) == \/ r \in running_transfer'
                      \/ \A n \in running_transfer' :
                           n.coordinator_request_id # r.coordinator_request_id
<1>1. ASSUME CountInv, [Next]_vars, NEW r \in running_transfer, r.finalized
      PROVE  Kept(r)
  <2>typed. TypeOK /\ Identified
    BY <1>1 DEF CountInv
  <2>1. ASSUME NEW old \in running_transfer, NEW new, running_transfer' = Update(old, new),
               old.finalized => new = old
        PROVE  Kept(r)
    BY <1>1, <2>1 DEF Update
  <2>2. \A x \in running_transfer, code \in ErrorCodes \cup {NoError} :
          x.finalized => Finalize(x, code) = x
    BY DEF Finalize
  <2>3. ASSUME running_transfer \subseteq running_transfer' PROVE Kept(r)
    BY <1>1, <2>3
  <2>4. ASSUME NEW x \in running_transfer, CancelTransfer(x) PROVE Kept(r)
    BY <2>1, <2>2, <2>4 DEF CancelTransfer, ErrorCodes
  <2>5. ASSUME NEW S, running_transfer' = running_transfer \ S PROVE Kept(r)
    BY <1>1, <2>5, <2>typed DEF Identified
  <2>6. ASSUME NEW m \in prepared_msgs, ProcessPrepared(m) PROVE Kept(r)
    <3>1. CASE DismissUnmatched(m)
      BY <2>3, <3>1 DEF DismissUnmatched
    <3>2. ASSUME NEW x \in Find(m), running_transfer' = Update(x, Settle(x, m))
          PROVE  Kept(r)
      BY <2>1, <3>2 DEF Settle, Find
    <3> QED  BY <2>6, <3>1, <3>2 DEF ProcessPrepared
  <2>7. ASSUME NEW m \in rejected_msgs, ProcessRejected(m) PROVE Kept(r)
    BY <2>1, <2>7 DEF ProcessRejected, Find
  <2>8. ASSUME NEW m \in finalized_msgs, ProcessFinalized(m) PROVE Kept(r)
    <3>1. PICK x \in Find(m) : running_transfer' = Update(x, Finalize(x, OutcomeOf(x, m)))
      BY <2>8 DEF ProcessFinalized
    <3> QED  BY <2>1, <3>1 DEF Finalize, Find
  <2> QED
    BY <1>1, <2>3, <2>4, <2>5, <2>6, <2>7, <2>8
    DEF Next, ActivateDebtor, DeactivateDebtor, DeleteTransfer, InitiateTransfer,
        ProcessSomePrepared, ProcessSomeRejected, ProcessSomeFinalized, AuthorityAnswers,
        AuthorityAnswer, AuthorityPrepares, AuthorityRejects, AuthorityFinalizesSome,
        AuthorityFinalizes, vars
<1>2. CountInv /\ [Next]_vars
        => [\A r \in running_transfer : r.finalized => Kept(r)]_vars
  BY <1>1
<1> QED
  BY <1>2, CountInvInit, CountInvStep, PTL DEF Spec, ResultsAreFinal

-----------------------------------------------------------------------------
(* Success: the steps that change rows only                                *)

LEMMA OutcomeInit == Init => OutcomeInv /\ AnswersExclude /\ FailedRight
<1> SUFFICES ASSUME Init PROVE LedgerParts /\ RowParts /\ SuccessMeansIssued
                               /\ AnswersExclude /\ FailedRight
  BY CommitInvInit DEF OutcomeInv
<1> QED
  BY DEF Init, LedgerParts, PreparedInLedger, PreparedOnce, LedgerOnce, SignalsPrepared,
         FinalizedInLedger, RowParts, SettledRight, Undecided, CommitsOwnAccount,
         SuccessMeansIssued, AnswersExclude, FailedRight

\* What the authority and the agent have told each other.
exchanged == <<prepared_msgs, finalized_msgs, ledger, finalize_signals>>

LEMMA SameExchange ==
  ASSUME LedgerParts, UNCHANGED exchanged PROVE LedgerParts'
BY DEF exchanged, LedgerParts, PreparedInLedger, PreparedOnce, LedgerOnce, SignalsPrepared,
       FinalizedInLedger, Fate, SameTransfer

\* Rows may go.
LEMMA RowsGo ==
  ASSUME LedgerParts, RowParts, SuccessMeansIssued,
         running_transfer' \subseteq running_transfer, UNCHANGED exchanged
  PROVE  LedgerParts' /\ RowParts' /\ SuccessMeansIssued'
<1>1. SettledRight' /\ Undecided'
  BY DEF RowParts, SettledRight, Undecided, exchanged, IsSettled, IsAbout, PreparedMatches,
         SameTransfer
<1>2. CommitsOwnAccount' /\ SuccessMeansIssued'
  BY DEF RowParts, CommitsOwnAccount, SuccessMeansIssued, exchanged, Commits
<1> QED  BY <1>1, <1>2, SameExchange DEF RowParts

\* A row may get its result, when a success is backed by the ledger.
LEMMA RowFinalized ==
  ASSUME OutcomeInv, NEW r \in running_transfer, NEW code \in ErrorCodes \cup {NoError},
         running_transfer' = Update(r, Finalize(r, code)), UNCHANGED exchanged,
         ~r.finalized /\ code = NoError =>
           \E e \in ledger : /\ e.account = r.debtor_id /\ e.transfer_id = r.transfer_id
                             /\ e.state = "finalized" /\ e.issued = r.amount
  PROVE  LedgerParts' /\ RowParts' /\ SuccessMeansIssued'
<1> DEFINE n == Finalize(r, code)
<1>1. r \in RunningTransfer
  BY DEF OutcomeInv, CommitInv, CountInv, TypeOK
<1>2. /\ n.debtor_id = r.debtor_id /\ n.coordinator_request_id = r.coordinator_request_id
      /\ n.transfer_id = r.transfer_id /\ n.amount = r.amount /\ n.recipient = r.recipient
      /\ n.finalized
      /\ n.error_code = IF r.finalized THEN r.error_code ELSE code
  BY <1>1 DEF Finalize, RunningTransfer
<1>3. running_transfer' = (running_transfer \ {r}) \cup {n}
  BY DEF Update
<1> HIDE DEF n
<1>4. SettledRight'
  BY <1>2, <1>3 DEF OutcomeInv, RowParts, SettledRight, exchanged, IsSettled, IsAbout,
                         PreparedMatches
<1>5. Undecided'
  <2> SUFFICES ASSUME NEW x \in running_transfer', ~x.finalized, ~IsSettled(x),
                      NEW m \in prepared_msgs', IsAbout(m, x), PreparedMatches(x, m),
                      NEW s \in finalize_signals'
               PROVE  ~SameTransfer(s, m)
    BY DEF Undecided, IsSettled, IsAbout, PreparedMatches, SameTransfer
  <2>1. x \in running_transfer
    BY <1>2, <1>3
  <2> QED  BY <2>1 DEF OutcomeInv, RowParts, Undecided, exchanged
<1>6. CommitsOwnAccount'
  BY <1>2, <1>3 DEF OutcomeInv, RowParts, CommitsOwnAccount, exchanged, Commits
<1>7. SuccessMeansIssued'
  <2> SUFFICES ASSUME NEW x \in running_transfer', x.finalized, x.error_code = NoError
               PROVE  \E e \in ledger : /\ e.account = x.debtor_id
                                        /\ e.transfer_id = x.transfer_id
                                        /\ e.state = "finalized" /\ e.issued = x.amount
    BY DEF SuccessMeansIssued, exchanged
  <2>1. CASE x \in running_transfer
    BY <2>1 DEF OutcomeInv, SuccessMeansIssued
  <2>2. CASE x = n
    BY <1>2, <2>2 DEF OutcomeInv, SuccessMeansIssued
  <2> QED  BY <1>3, <2>1, <2>2
<1> QED  BY <1>4, <1>5, <1>6, <1>7, SameExchange DEF OutcomeInv, RowParts

\* A new row is about a request that nobody has mentioned.
LEMMA RowAdded ==
  ASSUME OutcomeInv,
         NEW d \in Debtors, NEW uuid \in Uuids, NEW amount \in Amounts,
         NEW recipient \in Recipients, NEW elapsed \in BOOLEAN,
         InitiateTransfer(d, uuid, amount, recipient, elapsed)
  PROVE  LedgerParts' /\ RowParts' /\ SuccessMeansIssued'
<1> DEFINE row == [debtor_id |-> d, transfer_uuid |-> uuid,
                   coordinator_request_id |-> cr_seq', amount |-> amount,
                   recipient |-> recipient, transfer_id |-> NoTransferId,
                   finalized |-> FALSE, error_code |-> NoError]
<1>typed. TypeOK /\ Drawn
  BY DEF OutcomeInv, CommitInv, CountInv
<1>1. /\ running_transfer' = running_transfer \cup {row}
      /\ cr_seq' = cr_seq + 1 /\ UNCHANGED exchanged
  BY DEF InitiateTransfer, authorityVars, exchanged
<1>2. /\ row.coordinator_request_id = cr_seq + 1
      /\ ~row.finalized /\ row.transfer_id = NoTransferId
  BY <1>1
<1> HIDE DEF row
<1>3. /\ \A m \in prepared_msgs : m.coordinator_request_id # row.coordinator_request_id
      /\ \A s \in finalize_signals : s.coordinator_request_id # row.coordinator_request_id
  BY <1>2, <1>typed, BoundsAssumption
  DEF TypeOK, Requests, Drawn, PreparedTransfer, FinalizeTransferSignal
<1>4. SettledRight'
  BY <1>1, <1>2 DEF OutcomeInv, RowParts, SettledRight, exchanged, IsSettled, IsAbout,
                         PreparedMatches
<1>5. Undecided'
  BY <1>1, <1>3 DEF OutcomeInv, RowParts, Undecided, exchanged, IsSettled, IsAbout,
                    PreparedMatches, SameTransfer
<1>6. CommitsOwnAccount'
  BY <1>1, <1>3 DEF OutcomeInv, RowParts, CommitsOwnAccount, exchanged, Commits
<1>7. SuccessMeansIssued'
  BY <1>1, <1>2 DEF OutcomeInv, SuccessMeansIssued, exchanged
<1> QED  BY <1>1, <1>4, <1>5, <1>6, <1>7, SameExchange DEF OutcomeInv, RowParts

-----------------------------------------------------------------------------
(* Success: PreparedTransfer messages and the authority                    *)

\* One more FinalizeTransfer signal for a prepared transfer.
LEMMA SignalSent ==
  ASSUME LedgerParts, NEW m \in prepared_msgs, NEW amount,
         finalize_signals' = finalize_signals \cup {FinalizeSignal(m, amount)},
         UNCHANGED <<prepared_msgs, finalized_msgs, ledger>>
  PROVE  LedgerParts'
<1> DEFINE new == FinalizeSignal(m, amount)
<1>1. /\ SameTransfer(new, m)
      /\ new.coordinator_id = m.coordinator_id
      /\ new.coordinator_request_id = m.coordinator_request_id
  BY DEF FinalizeSignal, SameTransfer
<1> HIDE DEF new
<1>2. SignalsPrepared'
  BY <1>1 DEF LedgerParts, SignalsPrepared, SameTransfer, new
<1>3. FinalizedInLedger'
  <2>1. \A f \in finalized_msgs, e \in ledger : Fate(f, e) => Fate(f, e)'
    BY DEF Fate, SameTransfer
  <2> QED  BY <2>1 DEF LedgerParts, FinalizedInLedger
<1> QED
  BY <1>2, <1>3 DEF LedgerParts, PreparedInLedger, PreparedOnce, LedgerOnce, SameTransfer

LEMMA OutcomePrepared ==
  ASSUME OutcomeInv, NEW m \in prepared_msgs, ProcessPrepared(m)
  PROVE  LedgerParts' /\ RowParts' /\ SuccessMeansIssued'
<1>typed. TypeOK /\ Identified /\ m \in PreparedTransfer
  BY DEF OutcomeInv, CommitInv, CountInv, TypeOK
<1>0. UNCHANGED <<prepared_msgs, finalized_msgs, ledger>>
  BY DEF ProcessPrepared, authorityVars
<1>1. CASE DismissUnmatched(m)
  <2> DEFINE new == FinalizeSignal(m, 0)
  <2>1. /\ new.committed_amount = 0 /\ SameTransfer(new, m)
    BY DEF FinalizeSignal, SameTransfer
  <2>2. /\ finalize_signals' = finalize_signals \cup {new}
        /\ UNCHANGED running_transfer
    BY <1>1 DEF DismissUnmatched
  <2>3. \A r \in running_transfer : IsAbout(m, r) => ~PreparedMatches(r, m)
    BY <1>1 DEF DismissUnmatched, Find, IsAbout
  <2>4. LedgerParts'
    BY <1>0, <2>2, SignalSent DEF OutcomeInv
  <2> HIDE DEF new
  \* The row was settled with another transfer: this one did not match it.
  <2>5. SettledRight'
    <3> SUFFICES ASSUME NEW r \in running_transfer, IsSettled(r)
                 PROVE  /\ \E x \in prepared_msgs : /\ IsAbout(x, r)
                                                    /\ PreparedMatches(r, x)
                                                    /\ x.transfer_id = r.transfer_id
                        /\ \A s \in finalize_signals' :
                             s.account = r.debtor_id /\ s.transfer_id = r.transfer_id
                               => s.committed_amount = r.amount
      BY <1>0, <2>2 DEF SettledRight, IsSettled, IsAbout, PreparedMatches
    <3>1. PICK x \in prepared_msgs : /\ IsAbout(x, r) /\ PreparedMatches(r, x)
                                     /\ x.transfer_id = r.transfer_id
      BY DEF OutcomeInv, RowParts, SettledRight
    <3>2. ASSUME new.account = r.debtor_id, new.transfer_id = r.transfer_id
          PROVE  new.committed_amount = r.amount
      <4>1. x = m
        BY <2>1, <3>1, <3>2 DEF OutcomeInv, LedgerParts, PreparedOnce, SameTransfer,
                                PreparedMatches
      <4> QED  BY <4>1, <3>1, <2>3
    <3> QED  BY <2>2, <3>1, <3>2 DEF OutcomeInv, RowParts, SettledRight
  <2>6. Undecided'
    <3> SUFFICES ASSUME NEW r \in running_transfer, ~r.finalized, ~IsSettled(r),
                        NEW x \in prepared_msgs, IsAbout(x, r), PreparedMatches(r, x)
                 PROVE  ~SameTransfer(new, x)
      BY <1>0, <2>2 DEF OutcomeInv, RowParts, Undecided, IsSettled, IsAbout, PreparedMatches,
                        SameTransfer
    <3> QED
      BY <2>1, <2>3 DEF OutcomeInv, LedgerParts, PreparedOnce, SameTransfer
  <2>7. CommitsOwnAccount'
    BY <2>1, <2>2 DEF OutcomeInv, RowParts, CommitsOwnAccount, Commits
  <2>8. SuccessMeansIssued'
    BY <1>0, <2>2 DEF OutcomeInv, SuccessMeansIssued
  <2> QED  BY <2>4, <2>5, <2>6, <2>7, <2>8 DEF RowParts
<1>2. ASSUME NEW r \in Find(m), PreparedMatches(r, m),
             running_transfer' = Update(r, Settle(r, m)),
             finalize_signals' = finalize_signals \cup {FinalizeSignal(m, AmountToCommit(r, m))}
      PROVE  LedgerParts' /\ RowParts' /\ SuccessMeansIssued'
  <2> DEFINE n == Settle(r, m)
             new == FinalizeSignal(m, AmountToCommit(r, m))
  <2>1. /\ r \in running_transfer /\ r \in RunningTransfer /\ IsAbout(m, r)
        /\ m.transfer_id \in TransferIds /\ m.account = r.debtor_id
    BY <1>2, <1>typed DEF Find, TypeOK, PreparedTransfer, IsAbout, PreparedMatches
  <2>2. /\ n.debtor_id = r.debtor_id /\ n.amount = r.amount /\ n.recipient = r.recipient
        /\ n.coordinator_request_id = r.coordinator_request_id
        /\ n.finalized = r.finalized /\ n.error_code = r.error_code
        /\ IsSettled(r) \/ r.finalized => n = r
        /\ ~IsSettled(r) /\ ~r.finalized => n.transfer_id = m.transfer_id
    BY <2>1 DEF Settle, RunningTransfer
  <2>3. /\ SameTransfer(new, m)
        /\ new.coordinator_request_id = r.coordinator_request_id
        /\ new.committed_amount = IF n.transfer_id = m.transfer_id THEN r.amount ELSE 0
    BY <2>1 DEF FinalizeSignal, SameTransfer, AmountToCommit, IsAbout
  <2>4. /\ running_transfer' = (running_transfer \ {r}) \cup {n}
        /\ finalize_signals' = finalize_signals \cup {new}
    BY <1>2 DEF Update
  <2>5. LedgerParts'
    BY <1>0, <1>2, SignalSent DEF OutcomeInv
  <2> HIDE DEF n, new
  \* Another row is settled with another transfer, or about another request.
  <2>6. \A x \in running_transfer \ {r} : ~IsAbout(m, x)
    BY <1>typed, <2>1 DEF Identified, IsAbout
  <2>7. ASSUME NEW x \in running_transfer', IsSettled(x)
        PROVE  \E y \in prepared_msgs :
                 IsAbout(y, x) /\ PreparedMatches(x, y) /\ y.transfer_id = x.transfer_id
    <3>1. CASE x \in running_transfer
      BY <2>7, <3>1 DEF OutcomeInv, RowParts, SettledRight
    <3>2. CASE x = n /\ n # r
      BY <1>2, <2>1, <2>2, <3>2 DEF IsAbout, PreparedMatches
    <3> QED  BY <2>1, <2>4, <3>1, <3>2
  <2>8. ASSUME NEW x \in running_transfer', IsSettled(x), NEW s \in finalize_signals',
               s.account = x.debtor_id, s.transfer_id = x.transfer_id
        PROVE  s.committed_amount = x.amount
    <3>1. PICK y \in prepared_msgs :
            IsAbout(y, x) /\ PreparedMatches(x, y) /\ y.transfer_id = x.transfer_id
      BY <2>7, <2>8
    <3>2. SameTransfer(s, y)
      BY <2>8, <3>1 DEF SameTransfer, PreparedMatches
    <3>3. CASE s = new
      <4>1. y = m
        BY <2>3, <3>2, <3>3 DEF OutcomeInv, LedgerParts, PreparedOnce, SameTransfer
      <4>2. x = n
        BY <2>4, <2>6, <3>1, <4>1
      <4> QED  BY <2>2, <2>3, <3>1, <3>3, <4>1, <4>2
    <3>4. CASE s \in finalize_signals /\ x \in running_transfer
      BY <2>8, <3>4 DEF OutcomeInv, RowParts, SettledRight
    <3>5. CASE s \in finalize_signals /\ x = n /\ n # r
      <4>1. SameTransfer(s, m)
        BY <2>1, <2>2, <2>8, <3>5 DEF SameTransfer
      <4> QED  BY <1>2, <2>1, <2>2, <3>5, <4>1 DEF OutcomeInv, RowParts, Undecided
    <3> QED  BY <2>1, <2>4, <3>3, <3>4, <3>5
  <2>9. SettledRight'
    BY <1>0, <2>7, <2>8 DEF SettledRight, IsSettled, IsAbout, PreparedMatches
  <2>10. Undecided'
    <3> SUFFICES ASSUME NEW x \in running_transfer', ~x.finalized, ~IsSettled(x),
                        NEW y \in prepared_msgs, IsAbout(y, x), PreparedMatches(x, y),
                        NEW s \in finalize_signals', SameTransfer(s, y)
                 PROVE  FALSE
      BY <1>0 DEF Undecided, IsSettled, IsAbout, PreparedMatches, SameTransfer
    <3>1. x # n
      BY <2>1, <2>2, NullsAssumption DEF IsSettled
    <3>2. x \in running_transfer \ {r}
      BY <2>4, <3>1
    <3>3. s = new
      BY <2>4, <3>2 DEF OutcomeInv, RowParts, Undecided
    <3>4. y = m
      BY <2>3, <3>3 DEF OutcomeInv, LedgerParts, PreparedOnce, SameTransfer
    <3> QED  BY <2>6, <3>2, <3>4
  <2>11. CommitsOwnAccount'
    <3> SUFFICES ASSUME NEW s \in finalize_signals', NEW x \in running_transfer', Commits(s),
                        x.coordinator_request_id = s.coordinator_request_id
                 PROVE  s.account = x.debtor_id
      BY DEF CommitsOwnAccount, Commits
    <3>1. PICK o \in running_transfer :
            /\ o.debtor_id = x.debtor_id
            /\ o.coordinator_request_id = x.coordinator_request_id
      BY <2>1, <2>2, <2>4
    <3>2. CASE s \in finalize_signals
      BY <3>1, <3>2 DEF OutcomeInv, RowParts, CommitsOwnAccount
    <3>3. CASE s = new
      BY <1>typed, <2>1, <2>3, <3>1, <3>3 DEF Identified, SameTransfer
    <3> QED  BY <2>4, <3>2, <3>3
  <2>12. SuccessMeansIssued'
    <3> SUFFICES ASSUME NEW x \in running_transfer', x.finalized, x.error_code = NoError
                 PROVE  \E e \in ledger : /\ e.account = x.debtor_id
                                          /\ e.transfer_id = x.transfer_id
                                          /\ e.state = "finalized" /\ e.issued = x.amount
      BY <1>0 DEF SuccessMeansIssued
    <3>1. x \in running_transfer
      BY <2>1, <2>2, <2>4
    <3> QED  BY <3>1 DEF OutcomeInv, SuccessMeansIssued
  <2> QED  BY <2>5, <2>9, <2>10, <2>11, <2>12 DEF RowParts
<1> QED
  BY <1>1, <1>2 DEF ProcessPrepared

\* The ID of a transfer that the authority prepares is fresh.
LEMMA OutcomePrepares ==
  ASSUME OutcomeInv, NEW p \in prepare_signals, NEW account \in Accounts,
         NEW t \in TransferIds, NEW locked \in Amounts, NEW recipient \in Recipients,
         AuthorityPrepares(p, account, t, locked, recipient)
  PROVE  LedgerParts' /\ RowParts' /\ SuccessMeansIssued'
<1> DEFINE entry == [account |-> account, transfer_id |-> t, coordinator_id |-> p.debtor_id,
                     coordinator_request_id |-> p.coordinator_request_id,
                     state |-> "prepared", issued |-> 0]
           new == [account |-> account, transfer_id |-> t, coordinator_id |-> p.debtor_id,
                   coordinator_request_id |-> p.coordinator_request_id,
                   locked_amount |-> locked, recipient |-> recipient]
<1>1. /\ ledger' = ledger \cup {entry}
      /\ prepared_msgs' = prepared_msgs \cup {new}
      /\ UNCHANGED <<running_transfer, finalize_signals, finalized_msgs>>
  BY DEF AuthorityPrepares, signalVars
<1>2. SameTransfer(entry, new) /\ SameTransfer(new, entry)
  BY DEF SameTransfer
<1>3. \A e \in ledger : ~SameTransfer(e, entry) /\ ~SameTransfer(entry, e)
  BY DEF AuthorityPrepares, UnusedTransferIds, SameTransfer
<1> HIDE DEF entry, new
<1>4. \A m \in prepared_msgs : ~SameTransfer(m, new) /\ ~SameTransfer(new, m)
  BY <1>2, <1>3 DEF OutcomeInv, LedgerParts, PreparedInLedger, SameTransfer
<1>5. \A s \in finalize_signals : ~SameTransfer(s, new)
  BY <1>4 DEF OutcomeInv, LedgerParts, SignalsPrepared, SameTransfer
<1>6. PreparedInLedger' /\ PreparedOnce' /\ LedgerOnce'
  <2>1. PreparedInLedger'
    BY <1>1, <1>2 DEF OutcomeInv, LedgerParts, PreparedInLedger, SameTransfer
  <2>2. PreparedOnce'
    BY <1>1, <1>4 DEF OutcomeInv, LedgerParts, PreparedOnce, SameTransfer
  <2>3. LedgerOnce'
    BY <1>1, <1>3 DEF OutcomeInv, LedgerParts, LedgerOnce, SameTransfer
  <2> QED  BY <2>1, <2>2, <2>3
<1>7. SignalsPrepared'
  BY <1>1 DEF OutcomeInv, LedgerParts, SignalsPrepared, SameTransfer
<1>8. FinalizedInLedger'
  <2>1. \A f \in finalized_msgs, e \in ledger : Fate(f, e) => Fate(f, e)'
    BY <1>1 DEF Fate, SameTransfer
  <2> QED  BY <1>1, <2>1 DEF OutcomeInv, LedgerParts, FinalizedInLedger
<1>9. SettledRight'
  BY <1>1 DEF OutcomeInv, RowParts, SettledRight, IsSettled, IsAbout, PreparedMatches
<1>10. Undecided'
  BY <1>1, <1>5 DEF OutcomeInv, RowParts, Undecided, IsSettled, IsAbout, PreparedMatches,
                    SameTransfer
<1>11. CommitsOwnAccount' /\ SuccessMeansIssued'
  BY <1>1 DEF OutcomeInv, RowParts, CommitsOwnAccount, SuccessMeansIssued, Commits
<1> QED  BY <1>6, <1>7, <1>8, <1>9, <1>10, <1>11 DEF LedgerParts, RowParts

\* A finalized entry of the ledger stays as it is.
LEMMA FinalizedStays ==
  ASSUME NEW s \in finalize_signals, NEW e \in ledger, NEW committed, NEW code,
         AuthorityFinalizes(s, e, committed, code)
  PROVE  \A x \in ledger : x.state = "finalized" => x \in ledger'
BY DEF AuthorityFinalizes

LEMMA OutcomeFinalizes ==
  ASSUME OutcomeInv, NEW s \in finalize_signals, NEW e \in ledger,
         NEW committed \in Amounts \cup {0}, NEW code \in StatusCodes,
         AuthorityFinalizes(s, e, committed, code)
  PROVE  LedgerParts' /\ RowParts' /\ SuccessMeansIssued'
<1> DEFINE issued == IF code = SC_OK THEN s.committed_amount ELSE 0
           done == [e EXCEPT !.state = "finalized", !.issued = issued]
           new == [account |-> e.account, transfer_id |-> e.transfer_id,
                   coordinator_id |-> e.coordinator_id,
                   coordinator_request_id |-> e.coordinator_request_id,
                   committed_amount |-> committed, status_code |-> code]
<1>1. /\ ledger' = (ledger \ {e}) \cup {done}
      /\ finalized_msgs' = finalized_msgs \cup {new}
      /\ UNCHANGED <<running_transfer, finalize_signals, prepared_msgs>>
  BY DEF AuthorityFinalizes, signalVars
<1>2. e \in LedgerEntry
  BY DEF OutcomeInv, CommitInv, CountInv, TypeOK
<1>3. /\ SameTransfer(e, s) /\ SameTransfer(done, e) /\ SameTransfer(new, done)
      /\ done.state = "finalized" /\ done.issued = issued
      /\ new.status_code = code /\ new.committed_amount = committed
      /\ AaEchoes => committed = issued
  BY <1>2 DEF AuthorityFinalizes, SameTransfer, LedgerEntry
<1>stay. \A x \in ledger : x.state = "finalized" => x \in ledger'
  BY FinalizedStays
<1> HIDE DEF done, new
<1>4. PreparedInLedger' /\ LedgerOnce'
  <2>1. PreparedInLedger'
    BY <1>1, <1>3 DEF OutcomeInv, LedgerParts, PreparedInLedger, SameTransfer
  <2>2. LedgerOnce'
    BY <1>1, <1>3 DEF OutcomeInv, LedgerParts, LedgerOnce, SameTransfer
  <2> QED  BY <2>1, <2>2
<1>5. PreparedOnce' /\ SignalsPrepared'
  BY <1>1 DEF OutcomeInv, LedgerParts, PreparedOnce, SignalsPrepared, SameTransfer
<1>6. FinalizedInLedger'
  <2>1. Fate(new, done)'
    BY <1>1, <1>3 DEF Fate, SameTransfer
  <2>2. \A f \in finalized_msgs, x \in ledger : Fate(f, x) => x \in ledger' /\ Fate(f, x)'
    BY <1>1, <1>stay DEF Fate, SameTransfer
  <2> QED  BY <1>1, <2>1, <2>2 DEF OutcomeInv, LedgerParts, FinalizedInLedger
<1>7. SettledRight' /\ Undecided'
  BY <1>1 DEF OutcomeInv, RowParts, SettledRight, Undecided, IsSettled, IsAbout,
              PreparedMatches, SameTransfer
<1>8. CommitsOwnAccount'
  BY <1>1 DEF OutcomeInv, RowParts, CommitsOwnAccount, Commits
<1>9. SuccessMeansIssued'
  BY <1>1, <1>stay DEF OutcomeInv, SuccessMeansIssued
<1> QED  BY <1>4, <1>5, <1>6, <1>7, <1>8, <1>9 DEF LedgerParts, RowParts

\* What a FinalizedTransfer message tells about the row it matches: it is
\* successful only when the requested amount has been issued.
LEMMA FinalizedTellsTruth ==
  ASSUME OutcomeInv, NEW m \in finalized_msgs, NEW r \in Find(m),
         r.debtor_id = m.account, r.transfer_id = m.transfer_id
  PROVE  \E e \in ledger :
           /\ e.account = r.debtor_id /\ e.transfer_id = r.transfer_id
           /\ e.state = "finalized"
           /\ OutcomeOf(r, m) = NoError => e.issued = r.amount
           /\ AaEchoes /\ OutcomeOf(r, m) # NoError => e.issued = 0
<1>1. r \in running_transfer /\ m \in FinalizedTransfer
  BY DEF Find, OutcomeInv, CommitInv, CountInv, TypeOK
<1>2. IsSettled(r)
  BY <1>1, NullsAssumption DEF IsSettled, FinalizedTransfer
<1>3. PICK e \in ledger : Fate(m, e)
  BY DEF OutcomeInv, LedgerParts, FinalizedInLedger
<1>4. m.status_code = SC_OK => e.issued = r.amount
  BY <1>1, <1>2, <1>3 DEF Fate, SameTransfer, OutcomeInv, RowParts, SettledRight
<1>5. OutcomeOf(r, m) = NoError => m.status_code = SC_OK
  BY <1>1 DEF OutcomeOf, FinalizedTransfer, StatusCodes, SC_OK, SC_UNEXPECTED_ERROR,
              NoError, Refused
<1>6. AaEchoes /\ OutcomeOf(r, m) # NoError => e.issued = 0
  BY <1>3, <1>4 DEF OutcomeOf, Fate
<1> QED  BY <1>3, <1>4, <1>5, <1>6 DEF Fate, SameTransfer

LEMMA OutcomeStep == OutcomeInv /\ [Next]_vars => OutcomeInv'
<1> SUFFICES ASSUME OutcomeInv, [Next]_vars
             PROVE  LedgerParts' /\ RowParts' /\ SuccessMeansIssued'
  BY CommitInvStep DEF OutcomeInv
<1>typed. TypeOK
  BY DEF OutcomeInv, CommitInv, CountInv
<1>1. ASSUME running_transfer' \subseteq running_transfer, UNCHANGED exchanged
      PROVE  LedgerParts' /\ RowParts' /\ SuccessMeansIssued'
  BY <1>1, RowsGo DEF OutcomeInv
<1>2. ASSUME NEW r \in running_transfer, CancelTransfer(r)
      PROVE  LedgerParts' /\ RowParts' /\ SuccessMeansIssued'
  <2>1. /\ UNCHANGED exchanged
        /\ running_transfer' = Update(r, Finalize(r, SC_CANCELED_BY_THE_SENDER))
    BY <1>2 DEF CancelTransfer, signalVars, authorityVars, exchanged
  <2>2. SC_CANCELED_BY_THE_SENDER \in ErrorCodes /\ SC_CANCELED_BY_THE_SENDER # NoError
    BY DEF ErrorCodes, NoError, SC_CANCELED_BY_THE_SENDER
  <2> QED  BY <2>1, <2>2, RowFinalized
<1>3. ASSUME NEW m \in rejected_msgs, ProcessRejected(m)
      PROVE  LedgerParts' /\ RowParts' /\ SuccessMeansIssued'
  <2>1. PICK r \in Find(m), code \in ErrorCodes : running_transfer' = Update(r, Finalize(r, code))
    BY <1>3, <1>typed DEF ProcessRejected, TypeOK, RejectedTransfer, StatusCodes, ErrorCodes
  <2>2. r \in running_transfer /\ code # NoError /\ UNCHANGED exchanged
    BY <1>3 DEF Find, ProcessRejected, signalVars, authorityVars, exchanged, ErrorCodes, NoError,
                Refused, SC_CANCELED_BY_THE_SENDER, SC_UNEXPECTED_ERROR
  <2> QED  BY <2>1, <2>2, RowFinalized
<1>4. ASSUME NEW m \in finalized_msgs, ProcessFinalized(m)
      PROVE  LedgerParts' /\ RowParts' /\ SuccessMeansIssued'
  <2>1. PICK r \in Find(m) :
          /\ r.debtor_id = m.account /\ r.transfer_id = m.transfer_id
          /\ running_transfer' = Update(r, Finalize(r, OutcomeOf(r, m)))
    BY <1>4 DEF ProcessFinalized
  <2>2. /\ r \in running_transfer /\ UNCHANGED exchanged
        /\ OutcomeOf(r, m) \in ErrorCodes \cup {NoError}
    <3>1. OutcomeOf(r, m) \in ErrorCodes \cup {NoError}
      BY <1>typed DEF Find, TypeOK, FinalizedTransfer, StatusCodes, ErrorCodes, OutcomeOf
    <3> QED
      BY <1>4, <3>1 DEF Find, ProcessFinalized, signalVars, authorityVars, exchanged
  <2>3. OutcomeOf(r, m) = NoError =>
          \E e \in ledger : /\ e.account = r.debtor_id /\ e.transfer_id = r.transfer_id
                            /\ e.state = "finalized" /\ e.issued = r.amount
    BY <2>1, FinalizedTellsTruth
  <2> QED  BY <2>1, <2>2, <2>3, RowFinalized
<1>5. ASSUME NEW p \in prepare_signals, AuthorityAnswer(p)
      PROVE  LedgerParts' /\ RowParts' /\ SuccessMeansIssued'
  BY <1>1, <1>5, OutcomePrepares DEF AuthorityAnswer, AuthorityRejects, signalVars, exchanged
<1> QED
  BY <1>1, <1>2, <1>3, <1>4, <1>5, RowAdded, OutcomePrepared, OutcomeFinalizes
  DEF Next, ActivateDebtor, DeactivateDebtor, DeleteTransfer, ProcessSomePrepared,
      ProcessSomeRejected, ProcessSomeFinalized, AuthorityAnswers, AuthorityFinalizesSome,
      signalVars, authorityVars, exchanged, vars

\* A transfer is reported as successful only when the authority has issued
\* exactly the requested amount: whatever the authority answers, however often
\* and about whatever account or amount.
THEOREM SuccessIsBacked == Spec => []SuccessMeansIssued
<1>1. OutcomeInv => SuccessMeansIssued
  BY DEF OutcomeInv
<1> QED  BY <1>1, OutcomeInit, OutcomeStep, PTL DEF Spec

-----------------------------------------------------------------------------
(* Failure                                                                 *)

\* One row gets a new version: it fails only where nothing has been issued.
LEMMA FailedRow ==
  ASSUME FailedRight, NEW r \in running_transfer, NEW n,
         running_transfer' = Update(r, n),
         \A e \in ledger : e.state = "finalized" => e \in ledger',
         n # r => \/ ~n.finalized
                  \/ n.error_code = NoError
                  \/ ~IsSettled(n)
                  \/ \E e \in ledger : /\ e.account = n.debtor_id
                                       /\ e.transfer_id = n.transfer_id
                                       /\ e.state = "finalized" /\ e.issued = 0
  PROVE  FailedRight'
<1>1. ASSUME NEW x \in running_transfer', x.finalized, x.error_code # NoError, IsSettled(x)
      PROVE  \E e \in ledger : /\ e.account = x.debtor_id /\ e.transfer_id = x.transfer_id
                               /\ e.state = "finalized" /\ e.issued = 0
  BY <1>1 DEF FailedRight, Update
<1> QED  BY <1>1 DEF FailedRight, IsSettled

LEMMA FailureStep ==
  ASSUME AaAnswersOnce, AaEchoes, FailureInv, [Next]_vars PROVE FailureInv'
<1>typed. TypeOK /\ OutcomeInv
  BY DEF FailureInv, OutcomeInv, CommitInv, CountInv
<1> SUFFICES AnswersExclude' /\ FailedRight'
  BY OutcomeStep DEF FailureInv
<1>ex. AnswersExclude'
  <2>1. CASE UNCHANGED <<rejected_msgs, prepared_msgs>>
    BY <2>1 DEF FailureInv, AnswersExclude
  <2>2. ASSUME NEW p \in prepare_signals, NEW account \in Accounts,
               NEW t \in TransferIds, NEW locked \in Amounts, NEW recipient \in Recipients,
               AuthorityPrepares(p, account, t, locked, recipient)
        PROVE  AnswersExclude'
    <3>1. ~Answered(p) /\ UNCHANGED rejected_msgs
      BY <2>2 DEF AuthorityPrepares, AuthorityMayAnswer
    <3> DEFINE new == [account |-> account, transfer_id |-> t, coordinator_id |-> p.debtor_id,
                       coordinator_request_id |-> p.coordinator_request_id,
                       locked_amount |-> locked, recipient |-> recipient]
    <3>2. /\ prepared_msgs' = prepared_msgs \cup {new}
          /\ new.coordinator_id = p.debtor_id
          /\ new.coordinator_request_id = p.coordinator_request_id
      BY <2>2 DEF AuthorityPrepares
    <3> HIDE DEF new
    <3> QED  BY <3>1, <3>2 DEF FailureInv, AnswersExclude, Answered
  <2>3. ASSUME NEW p \in prepare_signals, NEW account \in Accounts, NEW code \in StatusCodes,
               AuthorityRejects(p, account, code)
        PROVE  AnswersExclude'
    <3>1. ~Answered(p) /\ UNCHANGED prepared_msgs
      BY <2>3 DEF AuthorityRejects, AuthorityMayAnswer
    <3> DEFINE new == [account |-> account, coordinator_id |-> p.debtor_id,
                       coordinator_request_id |-> p.coordinator_request_id, status_code |-> code]
    <3>2. /\ rejected_msgs' = rejected_msgs \cup {new}
          /\ new.coordinator_id = p.debtor_id
          /\ new.coordinator_request_id = p.coordinator_request_id
      BY <2>3 DEF AuthorityRejects
    <3> HIDE DEF new
    <3> QED  BY <3>1, <3>2 DEF FailureInv, AnswersExclude, Answered
  <2> QED
    BY <2>1, <2>2, <2>3
    DEF Next, ActivateDebtor, DeactivateDebtor, InitiateTransfer, CancelTransfer, DeleteTransfer,
        ProcessSomePrepared, ProcessPrepared, ProcessSomeRejected, ProcessRejected,
        ProcessSomeFinalized, ProcessFinalized, AuthorityAnswers, AuthorityAnswer,
        AuthorityFinalizesSome, AuthorityFinalizes, signalVars, authorityVars, vars
<1>1. ASSUME running_transfer' \subseteq running_transfer,
             \A e \in ledger : e.state = "finalized" => e \in ledger'
      PROVE  FailedRight'
  BY <1>1 DEF FailureInv, FailedRight, IsSettled
<1>2. ASSUME NEW d \in Debtors, NEW uuid \in Uuids, NEW amount \in Amounts,
             NEW recipient \in Recipients, NEW elapsed \in BOOLEAN,
             InitiateTransfer(d, uuid, amount, recipient, elapsed)
      PROVE  FailedRight'
  <2>1. /\ \A x \in running_transfer' : x \in running_transfer \/ ~x.finalized
        /\ UNCHANGED ledger
    BY <1>2 DEF InitiateTransfer, authorityVars
  <2> QED  BY <2>1 DEF FailureInv, FailedRight, IsSettled
<1>3. ASSUME NEW r \in running_transfer, CancelTransfer(r) PROVE FailedRight'
  <2>1. r \in RunningTransfer /\ ~IsSettled(r)
    BY <1>3, <1>typed DEF TypeOK, CancelTransfer
  <2>2. ~IsSettled(Finalize(r, SC_CANCELED_BY_THE_SENDER))
    BY <2>1 DEF Finalize, IsSettled, RunningTransfer
  <2>3. UNCHANGED ledger
    BY <1>3 DEF CancelTransfer, authorityVars
  <2> QED  BY <1>3, <2>2, <2>3, FailedRow DEF CancelTransfer, FailureInv
<1>4. ASSUME NEW m \in prepared_msgs, ProcessPrepared(m) PROVE FailedRight'
  <2>1. UNCHANGED ledger
    BY <1>4 DEF ProcessPrepared, authorityVars
  <2>2. ASSUME NEW r \in Find(m), running_transfer' = Update(r, Settle(r, m))
        PROVE  FailedRight'
    <3>1. r \in running_transfer /\ r \in RunningTransfer
      BY <1>typed DEF Find, TypeOK
    <3>2. Settle(r, m) # r => ~Settle(r, m).finalized
      BY <3>1 DEF Settle, RunningTransfer
    <3> QED  BY <2>1, <2>2, <3>1, <3>2, FailedRow DEF FailureInv
  <2> QED  BY <1>1, <1>4, <2>1, <2>2 DEF ProcessPrepared, DismissUnmatched
\* A request that has been rejected is settled with nothing.
<1>5. ASSUME NEW m \in rejected_msgs, ProcessRejected(m) PROVE FailedRight'
  <2>1. PICK r \in Find(m), code \in ErrorCodes : running_transfer' = Update(r, Finalize(r, code))
    BY <1>5, <1>typed DEF ProcessRejected, TypeOK, RejectedTransfer, StatusCodes, ErrorCodes
  <2>2. r \in running_transfer /\ r \in RunningTransfer
    BY <1>typed DEF Find, TypeOK
  <2>3. ~IsSettled(r)
    BY <2>2 DEF Find, FailureInv, OutcomeInv, RowParts, SettledRight, AnswersExclude, IsAbout
  <2>4. ~IsSettled(Finalize(r, code))
    BY <2>2, <2>3 DEF Finalize, IsSettled, RunningTransfer
  <2>5. UNCHANGED ledger
    BY <1>5 DEF ProcessRejected, authorityVars
  <2> QED  BY <2>1, <2>2, <2>4, <2>5, FailedRow DEF FailureInv
<1>6. ASSUME NEW m \in finalized_msgs, ProcessFinalized(m) PROVE FailedRight'
  <2>1. PICK r \in Find(m) :
          /\ r.debtor_id = m.account /\ r.transfer_id = m.transfer_id
          /\ running_transfer' = Update(r, Finalize(r, OutcomeOf(r, m)))
    BY <1>6 DEF ProcessFinalized
  <2> DEFINE n == Finalize(r, OutcomeOf(r, m))
  <2>2. r \in running_transfer /\ r \in RunningTransfer /\ UNCHANGED ledger
    BY <1>6, <1>typed DEF Find, TypeOK, ProcessFinalized, authorityVars
  <2>3. n # r => /\ n.debtor_id = r.debtor_id /\ n.transfer_id = r.transfer_id
                 /\ n.error_code = OutcomeOf(r, m)
    BY <2>2 DEF Finalize, RunningTransfer
  <2>4. OutcomeOf(r, m) # NoError =>
          \E e \in ledger : /\ e.account = r.debtor_id /\ e.transfer_id = r.transfer_id
                            /\ e.state = "finalized" /\ e.issued = 0
    BY <2>1, <1>typed, FinalizedTellsTruth
  <2> HIDE DEF n
  <2> QED  BY <2>1, <2>2, <2>3, <2>4, FailedRow DEF FailureInv, n
<1>7. ASSUME NEW s \in finalize_signals, NEW e \in ledger, NEW committed \in Amounts \cup {0},
             NEW code \in StatusCodes, AuthorityFinalizes(s, e, committed, code)
      PROVE  FailedRight'
  BY <1>1, <1>7, FinalizedStays DEF AuthorityFinalizes
<1>8. ASSUME AuthorityAnswers PROVE FailedRight'
  BY <1>1, <1>8 DEF AuthorityAnswers, AuthorityAnswer, AuthorityPrepares, AuthorityRejects
<1> QED
  BY <1>ex, <1>1, <1>2, <1>3, <1>4, <1>5, <1>6, <1>7, <1>8
  DEF Next, ActivateDebtor, DeactivateDebtor, DeleteTransfer, ProcessSomePrepared,
      ProcessSomeRejected, ProcessSomeFinalized, AuthorityFinalizesSome, authorityVars, vars

\* A transfer that is reported as failed has cost nothing and never will,
\* provided that the authority answers each request once and repeats what it
\* was asked for.  Without the first the rejection of a request may overtake
\* the result of its commit: see the run for UnsuccessfulIssuedZero.
THEOREM FailureIsFree ==
  ASSUME AaAnswersOnce, AaEchoes PROVE Spec => []FailureMeansNothingIssued
<1>1. FailureInv => FailureMeansNothingIssued
  <2> SUFFICES ASSUME FailureInv, NEW r \in running_transfer, r.finalized, r.error_code # NoError,
                      NEW s \in CommitSignals(r.debtor_id, r.coordinator_request_id)
               PROVE  \E e \in ledger : /\ e.account = s.account /\ e.transfer_id = s.transfer_id
                                        /\ e.state = "finalized" /\ e.issued = 0
    BY DEF FailureMeansNothingIssued
  <2>1. /\ s \in finalize_signals /\ Commits(s)
        /\ r.coordinator_request_id = s.coordinator_request_id
    BY DEF CommitSignals, Commits
  <2>2. r.transfer_id = s.transfer_id /\ r.debtor_id = s.account
    BY <2>1 DEF FailureInv, OutcomeInv, CommitInv, CommitParts, CommitsSettled, RowParts,
                CommitsOwnAccount
  <2>3. IsSettled(r)
    BY <2>1, <2>2, NullsAssumption
    DEF FailureInv, OutcomeInv, CommitInv, CountInv, TypeOK, FinalizeTransferSignal, IsSettled
  <2> QED  BY <2>2, <2>3 DEF FailureInv, FailedRight
<1>2. Init => FailureInv
  BY OutcomeInit DEF FailureInv
<1>3. FailureInv /\ [Next]_vars => FailureInv'
  BY FailureStep
<1> QED  BY <1>1, <1>2, <1>3, PTL DEF Spec

-----------------------------------------------------------------------------
(* The promise: requests, their terms and their money                      *)

\* A request is asked for once, and its row and its answer repeat the terms.
AskedOnce ==
  \A p1, p2 \in prepare_signals :
    p1.coordinator_request_id = p2.coordinator_request_id => p1 = p2
RowsAsked ==
  \A r \in running_transfer : \E p \in prepare_signals :
    /\ p.coordinator_request_id = r.coordinator_request_id
    /\ p.debtor_id = r.debtor_id /\ p.amount = r.amount
PreparedAsked ==
  \A m \in prepared_msgs : \E p \in prepare_signals :
    /\ p.coordinator_request_id = m.coordinator_request_id
    /\ p.debtor_id = m.coordinator_id
AnsweredOnce ==
  \A m1, m2 \in prepared_msgs :
    m1.coordinator_request_id = m2.coordinator_request_id => m1 = m2

\* Money is authorised in full, as soon as the row is settled, and nothing is
\* executed that the agent has not finalized.
CommitsFull ==
  \A s \in finalize_signals : Commits(s) =>
    \E p \in prepare_signals : /\ p.coordinator_request_id = s.coordinator_request_id
                               /\ p.amount = s.committed_amount
SettledSent ==
  \A r \in running_transfer : IsSettled(r) =>
    \E s \in finalize_signals :
      /\ s.account = r.debtor_id /\ s.transfer_id = r.transfer_id
      /\ s.coordinator_id = r.debtor_id
      /\ s.coordinator_request_id = r.coordinator_request_id
LedgerActed ==
  \A e \in ledger : e.state = "finalized" => \E s \in finalize_signals : SameTransfer(e, s)

RequestsInv == AskedOnce /\ RowsAsked /\ PreparedAsked /\ AnsweredOnce
CommitsInv == CommitsFull /\ SettledSent /\ LedgerActed
RefInv == FailureInv /\ RequestsInv /\ CommitsInv

\* A handler that keeps the terms of a row keeps RowsAsked.
LEMMA RequestsStep ==
  ASSUME AaAnswersOnce, RefInv, [Next]_vars PROVE RequestsInv'
<1>typed. TypeOK /\ TypeOK' /\ Drawn
  BY CountInvStep DEF RefInv, FailureInv, OutcomeInv, CommitInv, CountInv
<1>1. ASSUME UNCHANGED prepare_signals,
             \A n \in running_transfer' : \E r \in running_transfer :
               /\ n.coordinator_request_id = r.coordinator_request_id
               /\ n.debtor_id = r.debtor_id /\ n.amount = r.amount
      PROVE  AskedOnce' /\ RowsAsked'
  BY <1>1 DEF RefInv, RequestsInv, AskedOnce, RowsAsked
<1>2. ASSUME UNCHANGED prepared_msgs, prepare_signals \subseteq prepare_signals'
      PROVE  PreparedAsked' /\ AnsweredOnce'
  BY <1>2 DEF RefInv, RequestsInv, PreparedAsked, AnsweredOnce
<1>3. ASSUME NEW r \in running_transfer, NEW code,
             running_transfer' = Update(r, Finalize(r, code)),
             UNCHANGED <<prepare_signals, prepared_msgs>>
      PROVE  RequestsInv'
  <2>1. r \in RunningTransfer
    BY <1>typed DEF TypeOK
  <2>2. /\ Finalize(r, code).coordinator_request_id = r.coordinator_request_id
        /\ Finalize(r, code).debtor_id = r.debtor_id /\ Finalize(r, code).amount = r.amount
    BY <2>1 DEF Finalize, RunningTransfer
  <2> QED  BY <1>1, <1>2, <1>3, <2>2 DEF Update, RequestsInv
<1>4. ASSUME NEW d \in Debtors, NEW uuid \in Uuids, NEW amount \in Amounts,
             NEW recipient \in Recipients, NEW elapsed \in BOOLEAN,
             InitiateTransfer(d, uuid, amount, recipient, elapsed)
      PROVE  RequestsInv'
  <2> DEFINE row == [debtor_id |-> d, transfer_uuid |-> uuid,
                     coordinator_request_id |-> cr_seq', amount |-> amount,
                     recipient |-> recipient, transfer_id |-> NoTransferId,
                     finalized |-> FALSE, error_code |-> NoError]
             signal == [debtor_id |-> d, coordinator_request_id |-> cr_seq',
                        amount |-> amount, recipient |-> recipient]
  <2>1. /\ running_transfer' = running_transfer \cup {row}
        /\ prepare_signals' = prepare_signals \cup {signal}
        /\ cr_seq' = cr_seq + 1 /\ UNCHANGED prepared_msgs
    BY <1>4 DEF InitiateTransfer, authorityVars
  <2>2. /\ signal.coordinator_request_id = cr_seq + 1
        /\ row.coordinator_request_id = signal.coordinator_request_id
        /\ row.debtor_id = signal.debtor_id /\ row.amount = signal.amount
    BY <2>1
  <2> HIDE DEF row, signal
  <2>3. \A p \in prepare_signals : p.coordinator_request_id # signal.coordinator_request_id
    BY <2>2, <1>typed, BoundsAssumption DEF TypeOK, Requests, Drawn, PrepareTransferSignal
  <2>4. AskedOnce'
    BY <2>1, <2>3 DEF RefInv, RequestsInv, AskedOnce
  <2>5. RowsAsked'
    BY <2>1, <2>2 DEF RefInv, RequestsInv, RowsAsked
  <2> QED  BY <1>2, <2>1, <2>4, <2>5 DEF RequestsInv
<1>5. ASSUME NEW m \in prepared_msgs, ProcessPrepared(m) PROVE RequestsInv'
  <2>1. UNCHANGED <<prepare_signals, prepared_msgs>>
    BY <1>5 DEF ProcessPrepared, authorityVars
  <2>2. ASSUME NEW r \in Find(m), running_transfer' = Update(r, Settle(r, m))
        PROVE  RequestsInv'
    <3>1. r \in running_transfer /\ r \in RunningTransfer
      BY <1>typed DEF Find, TypeOK
    <3>2. /\ Settle(r, m).coordinator_request_id = r.coordinator_request_id
          /\ Settle(r, m).debtor_id = r.debtor_id /\ Settle(r, m).amount = r.amount
      BY <3>1 DEF Settle, RunningTransfer
    <3> QED  BY <1>1, <1>2, <2>1, <2>2, <3>1, <3>2 DEF Update, RequestsInv
  <2> QED  BY <1>1, <1>2, <1>5, <2>1, <2>2 DEF ProcessPrepared, DismissUnmatched, RequestsInv
<1>6. ASSUME NEW p \in prepare_signals, NEW account \in Accounts,
             NEW t \in TransferIds, NEW locked \in Amounts, NEW recipient \in Recipients,
             AuthorityPrepares(p, account, t, locked, recipient)
      PROVE  RequestsInv'
  <2> DEFINE new == [account |-> account, transfer_id |-> t, coordinator_id |-> p.debtor_id,
                     coordinator_request_id |-> p.coordinator_request_id,
                     locked_amount |-> locked, recipient |-> recipient]
  <2>1. /\ ~Answered(p) /\ UNCHANGED <<running_transfer, prepare_signals>>
        /\ prepared_msgs' = prepared_msgs \cup {new}
    BY <1>6 DEF AuthorityPrepares, AuthorityMayAnswer, signalVars
  <2>2. /\ new.coordinator_id = p.debtor_id
        /\ new.coordinator_request_id = p.coordinator_request_id
    OBVIOUS
  <2> HIDE DEF new
  <2>3. PreparedAsked'
    BY <2>1, <2>2 DEF RefInv, RequestsInv, PreparedAsked
  <2>4. \A m \in prepared_msgs : m.coordinator_request_id # p.coordinator_request_id
    BY <2>1 DEF RefInv, RequestsInv, PreparedAsked, AskedOnce, Answered
  <2>5. AnsweredOnce'
    BY <2>1, <2>2, <2>4 DEF RefInv, RequestsInv, AnsweredOnce
  <2> QED  BY <1>1, <2>1, <2>3, <2>5 DEF RequestsInv
<1>7. ASSUME running_transfer' \subseteq running_transfer,
             UNCHANGED <<prepare_signals, prepared_msgs>>
      PROVE  RequestsInv'
  BY <1>1, <1>2, <1>7 DEF RequestsInv
<1>8. ASSUME NEW m \in rejected_msgs, ProcessRejected(m) PROVE RequestsInv'
  BY <1>3, <1>8 DEF ProcessRejected, Find, signalVars, authorityVars
<1>9. ASSUME NEW m \in finalized_msgs, ProcessFinalized(m) PROVE RequestsInv'
  BY <1>3, <1>9 DEF ProcessFinalized, Find, signalVars, authorityVars
<1>10. ASSUME NEW r \in running_transfer, CancelTransfer(r) PROVE RequestsInv'
  BY <1>3, <1>10 DEF CancelTransfer, signalVars, authorityVars
<1> QED
  BY <1>4, <1>5, <1>6, <1>7, <1>8, <1>9, <1>10
  DEF Next, ActivateDebtor, DeactivateDebtor, DeleteTransfer, ProcessSomePrepared,
      ProcessSomeRejected, ProcessSomeFinalized, AuthorityAnswers, AuthorityAnswer,
      AuthorityRejects, AuthorityFinalizesSome, AuthorityFinalizes,
      signalVars, authorityVars, vars

\* Only the two handlers of finalization touch what CommitsInv is about.
LEMMA CommitsStep == ASSUME RefInv, [Next]_vars PROVE CommitsInv'
<1>typed. TypeOK
  BY DEF RefInv, FailureInv, OutcomeInv, CommitInv, CountInv
\* Steps that finalize nothing and settle no row.
<1>1. ASSUME UNCHANGED finalize_signals, prepare_signals \subseteq prepare_signals',
             \A n \in running_transfer' : IsSettled(n) =>
               \E r \in running_transfer :
                 /\ n.debtor_id = r.debtor_id /\ n.transfer_id = r.transfer_id
                 /\ n.coordinator_request_id = r.coordinator_request_id,
             \A e \in ledger' : e.state = "finalized" =>
               \E s \in finalize_signals : SameTransfer(e, s)
      PROVE  CommitsInv'
  <2>1. CommitsFull' /\ LedgerActed'
    BY <1>1 DEF RefInv, CommitsInv, CommitsFull, LedgerActed, Commits, SameTransfer
  <2>2. SettledSent'
    BY <1>1 DEF RefInv, CommitsInv, SettledSent, IsSettled
  <2> QED  BY <2>1, <2>2 DEF CommitsInv
<1>acted. \A e \in ledger : e.state = "finalized" => \E s \in finalize_signals : SameTransfer(e, s)
  BY DEF RefInv, CommitsInv, LedgerActed
<1>2. ASSUME running_transfer' \subseteq running_transfer,
             UNCHANGED <<finalize_signals, prepare_signals, ledger>>
      PROVE  CommitsInv'
  BY <1>1, <1>2, <1>acted
<1>3. ASSUME NEW r \in running_transfer, NEW code,
             running_transfer' = Update(r, Finalize(r, code)),
             UNCHANGED <<finalize_signals, prepare_signals, ledger>>
      PROVE  CommitsInv'
  <2>1. r \in RunningTransfer
    BY <1>typed DEF TypeOK
  <2>2. /\ Finalize(r, code).coordinator_request_id = r.coordinator_request_id
        /\ Finalize(r, code).debtor_id = r.debtor_id
        /\ Finalize(r, code).transfer_id = r.transfer_id
    BY <2>1 DEF Finalize, RunningTransfer
  <2> QED  BY <1>1, <1>3, <1>acted, <2>2 DEF Update
<1>4. ASSUME NEW d \in Debtors, NEW uuid \in Uuids, NEW amount \in Amounts,
             NEW recipient \in Recipients, NEW elapsed \in BOOLEAN,
             InitiateTransfer(d, uuid, amount, recipient, elapsed)
      PROVE  CommitsInv'
  <2>1. /\ \A n \in running_transfer' : n \in running_transfer \/ ~IsSettled(n)
        /\ prepare_signals \subseteq prepare_signals'
        /\ UNCHANGED <<finalize_signals, ledger>>
    BY <1>4 DEF InitiateTransfer, authorityVars, IsSettled
  <2> QED  BY <1>1, <1>acted, <2>1
<1>5. ASSUME NEW m \in prepared_msgs, ProcessPrepared(m) PROVE CommitsInv'
  <2>1. UNCHANGED <<prepare_signals, ledger>>
    BY <1>5 DEF ProcessPrepared, authorityVars
  <2>2. CASE DismissUnmatched(m)
    <3>1. /\ ~Commits(FinalizeSignal(m, 0)) /\ UNCHANGED running_transfer
          /\ finalize_signals' = finalize_signals \cup {FinalizeSignal(m, 0)}
      BY <2>2 DEF DismissUnmatched, Commits, FinalizeSignal
    <3>2. CommitsFull'
      BY <2>1, <3>1 DEF RefInv, CommitsInv, CommitsFull, Commits
    <3>3. SettledSent' /\ LedgerActed'
      BY <2>1, <3>1 DEF RefInv, CommitsInv, SettledSent, LedgerActed, IsSettled, SameTransfer
    <3> QED  BY <3>2, <3>3 DEF CommitsInv
  <2>3. ASSUME NEW r \in Find(m), PreparedMatches(r, m),
               running_transfer' = Update(r, Settle(r, m)),
               finalize_signals' = finalize_signals \cup {FinalizeSignal(m, AmountToCommit(r, m))}
        PROVE  CommitsInv'
    <3> DEFINE n == Settle(r, m)
               new == FinalizeSignal(m, AmountToCommit(r, m))
    <3>1. /\ r \in running_transfer /\ r \in RunningTransfer
          /\ m.coordinator_id = r.debtor_id /\ m.account = r.debtor_id
          /\ m.coordinator_request_id = r.coordinator_request_id
      BY <1>typed, <2>3 DEF Find, TypeOK, PreparedMatches
    <3>2. /\ n.debtor_id = r.debtor_id
          /\ n.coordinator_request_id = r.coordinator_request_id
          /\ n = r \/ n.transfer_id = m.transfer_id
      BY <3>1 DEF Settle, RunningTransfer
    <3>3. /\ new.account = r.debtor_id /\ new.transfer_id = m.transfer_id
          /\ new.coordinator_id = r.debtor_id
          /\ new.coordinator_request_id = r.coordinator_request_id
          /\ Commits(new) => new.committed_amount = r.amount
      BY <3>1 DEF FinalizeSignal, AmountToCommit, Commits
    <3>4. /\ running_transfer' = (running_transfer \ {r}) \cup {n}
          /\ finalize_signals' = finalize_signals \cup {new}
      BY <2>3 DEF Update
    <3> HIDE DEF n, new
    <3>5. CommitsFull'
      <4>1. Commits(new) => \E p \in prepare_signals :
              /\ p.coordinator_request_id = new.coordinator_request_id
              /\ p.amount = new.committed_amount
        BY <3>1, <3>3 DEF RefInv, RequestsInv, RowsAsked
      <4> QED  BY <2>1, <3>4, <4>1 DEF RefInv, CommitsInv, CommitsFull, Commits
    <3>6. SettledSent'
      BY <3>1, <3>2, <3>3, <3>4 DEF RefInv, CommitsInv, SettledSent, IsSettled
    <3>7. LedgerActed'
      BY <2>1, <3>4 DEF RefInv, CommitsInv, LedgerActed, SameTransfer
    <3> QED  BY <3>5, <3>6, <3>7 DEF CommitsInv
  <2> QED  BY <1>5, <2>2, <2>3 DEF ProcessPrepared
<1>6. ASSUME NEW m \in rejected_msgs, ProcessRejected(m) PROVE CommitsInv'
  BY <1>3, <1>6 DEF ProcessRejected, Find, signalVars, authorityVars
<1>7. ASSUME NEW m \in finalized_msgs, ProcessFinalized(m) PROVE CommitsInv'
  BY <1>3, <1>7 DEF ProcessFinalized, Find, signalVars, authorityVars
<1>8. ASSUME NEW r \in running_transfer, CancelTransfer(r) PROVE CommitsInv'
  BY <1>3, <1>8 DEF CancelTransfer, signalVars, authorityVars
<1>9. ASSUME UNCHANGED <<running_transfer, finalize_signals, prepare_signals>>,
             \A e \in ledger' : \/ e \in ledger
                                \/ e.state # "finalized"
                                \/ \E s \in finalize_signals : SameTransfer(e, s)
      PROVE  CommitsInv'
  BY <1>1, <1>9, <1>acted
<1>10. ASSUME NEW p \in prepare_signals, NEW account \in Accounts,
              NEW t \in TransferIds, NEW locked \in Amounts, NEW recipient \in Recipients,
              AuthorityPrepares(p, account, t, locked, recipient)
       PROVE  CommitsInv'
  BY <1>9, <1>10 DEF AuthorityPrepares, signalVars
<1>11. ASSUME NEW s \in finalize_signals, NEW e \in ledger, NEW committed, NEW code,
              AuthorityFinalizes(s, e, committed, code)
       PROVE  CommitsInv'
  <2>1. e \in LedgerEntry
    BY <1>typed DEF TypeOK
  <2>2. \A x \in ledger' : x \in ledger \/ SameTransfer(x, s)
    BY <1>11, <2>1 DEF AuthorityFinalizes, SameTransfer, LedgerEntry
  <2> QED  BY <1>9, <1>11, <2>2 DEF AuthorityFinalizes, signalVars
<1> QED
  BY <1>2, <1>4, <1>5, <1>6, <1>7, <1>8, <1>10, <1>11
  DEF Next, ActivateDebtor, DeactivateDebtor, DeleteTransfer, ProcessSomePrepared,
      ProcessSomeRejected, ProcessSomeFinalized, AuthorityAnswers, AuthorityAnswer,
      AuthorityRejects, AuthorityFinalizesSome, signalVars, authorityVars, vars

-----------------------------------------------------------------------------
(* The promise: what a step does to the values the promise speaks of         *)

\* What the status of a request says while its row exists.
StatusShown(r) ==
  IF ~r.finalized THEN "running" ELSE IF r.error_code = NoError THEN "succeeded" ELSE "failed"

\* The row of a request is the only one, and says its status.
LEMMA StatusOfRow ==
  ASSUME TypeOK, Identified, NEW r \in running_transfer
  PROVE  /\ r.coordinator_request_id \in Requests
         /\ RowsFor(r.coordinator_request_id) = {r}
         /\ SeenStatus[r.coordinator_request_id] = StatusShown(r)
<1>1. /\ r.coordinator_request_id \in Requests
      /\ RowsFor(r.coordinator_request_id) = {r}
      /\ ~ r.coordinator_request_id > cr_seq
  BY BoundsAssumption DEF TypeOK, RunningTransfer, Identified, RowsFor, Requests
<1>2. StatusOf(r.coordinator_request_id) = StatusShown(r)
  BY <1>1 DEF StatusOf, StatusShown
<1> QED  BY <1>1, <1>2 DEF SeenStatus

\* A new version of a row changes the status of its request only.
LEMMA StatusUpdated ==
  ASSUME TypeOK, Identified, NEW r \in running_transfer, NEW n,
         n.coordinator_request_id = r.coordinator_request_id,
         running_transfer' = Update(r, n), UNCHANGED cr_seq
  PROVE  SeenStatus' = [SeenStatus EXCEPT ![r.coordinator_request_id] = StatusShown(n)]
<1> DEFINE id == r.coordinator_request_id
<1>1. /\ id \in Requests /\ ~ id > cr_seq
  BY BoundsAssumption DEF TypeOK, RunningTransfer, Identified, Requests
<1>2. RowsFor(id)' = {n}
  BY StatusOfRow DEF Update, RowsFor, Identified
<1>3. StatusOf(id)' = StatusShown(n)
  BY <1>1, <1>2 DEF StatusOf, StatusShown
<1>4. ASSUME NEW q \in Requests, q # id PROVE StatusOf(q)' = StatusOf(q)
  <2>1. RowsFor(q)' = RowsFor(q)
    BY <1>4 DEF Update, RowsFor
  <2> QED  BY <2>1 DEF StatusOf
<1> QED  BY <1>1, <1>3, <1>4 DEF SeenStatus

\* The requests whose rows go are gone.
LEMMA StatusRemoved ==
  ASSUME TypeOK, Identified, NEW S, running_transfer' = running_transfer \ S, UNCHANGED cr_seq
  PROVE  LET gone == {q \in Requests : RowsFor(q) \cap S # {}}
         IN /\ SeenStatus' = [q \in Requests |-> IF q \in gone THEN "gone" ELSE SeenStatus[q]]
            /\ \A q \in gone : SeenStatus[q] \in {"running", "succeeded", "failed"}
<1> DEFINE gone == {q \in Requests : RowsFor(q) \cap S # {}}
<1>1. ASSUME NEW q \in gone
      PROVE  StatusOf(q)' = "gone" /\ SeenStatus[q] \in {"running", "succeeded", "failed"}
  <2>1. PICK r \in running_transfer : r \in S /\ r.coordinator_request_id = q
    BY <1>1 DEF RowsFor
  <2>2. RowsFor(q) = {r} /\ SeenStatus[q] = StatusShown(r)
    BY <2>1, StatusOfRow
  <2>3. RowsFor(q)' = {} /\ ~ q > cr_seq
    BY <2>1, <2>2, BoundsAssumption DEF RowsFor, Identified, TypeOK, RunningTransfer, Requests
  <2> QED  BY <2>2, <2>3 DEF StatusOf, StatusShown
<1>2. ASSUME NEW q \in Requests, q \notin gone PROVE StatusOf(q)' = StatusOf(q)
  <2>1. RowsFor(q)' = RowsFor(q)
    BY <1>2 DEF RowsFor
  <2> QED  BY <2>1 DEF StatusOf
<1> QED  BY <1>1, <1>2 DEF SeenStatus

\* Without a change of the rows nothing is seen to change.
LEMMA StatusKept ==
  ASSUME UNCHANGED <<running_transfer, cr_seq>> PROVE SeenStatus' = SeenStatus
BY DEF SeenStatus, StatusOf, RowsFor

\* The money of the promise depends on the signals and on what is finalized.
LEMMA MoneyKept ==
  ASSUME \A q \in Requests : CommitsFor(q)' = CommitsFor(q) /\ Executed(q)' = Executed(q)
  PROVE  Authorised' = Authorised /\ Decided' = Decided /\ Issued' = Issued
BY DEF Authorised, Decided, Issued

\* What is merely prepared is not yet money.
LEMMA MoneySame ==
  ASSUME UNCHANGED finalize_signals,
         {e \in ledger' : e.state = "finalized"} = {e \in ledger : e.state = "finalized"}
  PROVE  Authorised' = Authorised /\ Decided' = Decided /\ Issued' = Issued
<1>1. ASSUME NEW q \in Requests PROVE CommitsFor(q)' = CommitsFor(q) /\ Executed(q)' = Executed(q)
  <2>1. CommitsFor(q)' = CommitsFor(q)
    BY DEF CommitsFor, CommitSignals
  <2>2. \A e : e \in Executed(q)' <=> e \in Executed(q)
    BY <2>1 DEF Executed
  <2> QED  BY <2>1, <2>2
<1> QED  BY <1>1, MoneyKept

\* The terms of a request are those of its PrepareTransfer signal.
LEMMA RequestedSame ==
  ASSUME UNCHANGED prepare_signals PROVE Requested' = Requested
BY DEF Requested

\* The requested amount is the one that the authority has been asked for.
LEMMA RequestedOf ==
  ASSUME TypeOK, AskedOnce, NEW p \in prepare_signals
  PROVE  p.coordinator_request_id \in Requests /\ Requested[p.coordinator_request_id] = p.amount
<1>1. p.coordinator_request_id \in Requests
  BY DEF TypeOK, PrepareTransferSignal
<1>2. {y.amount : y \in {x \in prepare_signals :
          x.coordinator_request_id = p.coordinator_request_id}} = {p.amount}
  BY DEF AskedOnce
<1>3. Only({p.amount}) = p.amount
  BY DEF Only
<1> QED  BY <1>1, <1>2, <1>3 DEF Requested

\* The coordinator of a signal does not matter: requests are unique.
LEMMA CommitsForIs ==
  ASSUME TypeOK, NEW q
  PROVE  CommitsFor(q) = {s \in finalize_signals : Commits(s) /\ s.coordinator_request_id = q}
<1>1. \A s \in finalize_signals : s.coordinator_id \in Debtors
  BY DEF TypeOK, FinalizeTransferSignal
<1> QED  BY <1>1 DEF CommitsFor, CommitSignals, Commits

\* Signals are about the same transfer when they are about the same request.
LEMMA OneTransferEach ==
  ASSUME RefInv, NEW s1 \in finalize_signals, NEW s2 \in finalize_signals
  PROVE  s1.coordinator_request_id = s2.coordinator_request_id <=> SameTransfer(s1, s2)
BY DEF RefInv, FailureInv, OutcomeInv, LedgerParts, SignalsPrepared, PreparedOnce, RequestsInv,
       AnsweredOnce, SameTransfer

\* The fate of a committed transfer.
LEMMA ExecutedIs ==
  ASSUME RefInv, NEW s \in finalize_signals, Commits(s),
         NEW e \in ledger, e.state = "finalized", SameTransfer(e, s)
  PROVE  LET q == s.coordinator_request_id
         IN q \in Requests /\ q \in Decided /\ Issued[q] = e.issued
<1> DEFINE q == s.coordinator_request_id
<1>typed. TypeOK
  BY DEF RefInv, FailureInv, OutcomeInv, CommitInv, CountInv
<1>1. q \in Requests /\ s \in CommitsFor(q)
  BY <1>typed, CommitsForIs DEF TypeOK, FinalizeTransferSignal
<1>2. \A x \in CommitsFor(q) : SameTransfer(x, s)
  BY <1>typed, CommitsForIs, OneTransferEach
<1>3. Executed(q) = {e}
  <2>1. e \in Executed(q)
    BY <1>1 DEF Executed, SameTransfer
  <2>2. \A x \in Executed(q) : SameTransfer(x, e)
    BY <1>2 DEF Executed, SameTransfer
  <2> QED  BY <2>1, <2>2 DEF Executed, RefInv, FailureInv, OutcomeInv, LedgerParts, LedgerOnce
<1>4. {x.issued : x \in Executed(q)} = {e.issued}
  BY <1>3
<1>5. Only({e.issued}) = e.issued
  BY DEF Only
<1> QED  BY <1>1, <1>3, <1>4, <1>5 DEF Decided, Issued

\* Nothing is committed for a row that is not settled, nor for amount zero.
LEMMA NoCommitNoMoney ==
  ASSUME TypeOK, NEW q \in Requests,
         \A s \in finalize_signals : Commits(s) => s.coordinator_request_id # q
  PROVE  q \notin Authorised /\ q \notin Decided /\ Issued[q] = 0
<1>1. CommitsFor(q) = {}
  BY CommitsForIs
<1>2. Executed(q) = {}
  BY <1>1 DEF Executed
<1>3. Only({e.issued : e \in Executed(q)}) = 0
  BY <1>2 DEF Only
<1> QED  BY <1>1, <1>2, <1>3 DEF Authorised, Decided, Issued

-----------------------------------------------------------------------------
(* The promise: every step is one of its steps, or leaves it alone             *)

\* A row that gets a result: the request succeeds or fails.
LEMMA RowResult ==
  ASSUME TypeOK, Identified, NEW r \in running_transfer, NEW code,
         running_transfer' = Update(r, Finalize(r, code)),
         UNCHANGED <<cr_seq, prepare_signals, finalize_signals, ledger>>,
         ~r.finalized =>
           LET q == r.coordinator_request_id
           IN IF code = NoError
              THEN Issued[q] = Requested[q]
              ELSE q \in Authorised => q \in Decided /\ Issued[q] = 0
  PROVE  [Promise!PromiseNext]_(Promise!pvars)
<1> DEFINE q == r.coordinator_request_id
           n == Finalize(r, code)
<1>typed. r \in RunningTransfer
  BY DEF TypeOK
<1>1. /\ Authorised' = Authorised /\ Decided' = Decided /\ Issued' = Issued
      /\ Requested' = Requested
  BY MoneySame, RequestedSame
<1>2. q \in Requests /\ SeenStatus[q] = StatusShown(r)
  BY StatusOfRow
<1>3. CASE r.finalized
  <2>1. UNCHANGED running_transfer
    BY <1>3 DEF Finalize, Update
  <2> QED  BY <1>1, <2>1, StatusKept DEF Promise!pvars
<1>4. CASE ~r.finalized
  <2>1. /\ n.coordinator_request_id = q
        /\ StatusShown(n) = IF code = NoError THEN "succeeded" ELSE "failed"
    BY <1>4, <1>typed DEF Finalize, RunningTransfer, StatusShown
  <2>2. SeenStatus' = [SeenStatus EXCEPT ![q] = StatusShown(n)]
    BY <2>1, StatusUpdated
  <2>3. SeenStatus[q] = "running"
    BY <1>2, <1>4 DEF StatusShown
  <2>4. Promise!Succeed(q) \/ Promise!Fail(q)
    BY <1>1, <1>4, <2>1, <2>2, <2>3 DEF Promise!Succeed, Promise!Fail
  <2> QED  BY <1>2, <2>4 DEF Promise!PromiseNext
<1> QED  BY <1>3, <1>4

\* Nothing has been committed for a row that is not settled.
LEMMA UnsettledCostsNothing ==
  ASSUME RefInv, NEW r \in running_transfer, ~IsSettled(r)
  PROVE  r.coordinator_request_id \notin Authorised
<1>1. TypeOK /\ Identified /\ CommitsSettled
  BY DEF RefInv, FailureInv, OutcomeInv, CommitInv, CountInv, CommitParts
<1>2. \A s \in finalize_signals : Commits(s) => s.coordinator_request_id # r.coordinator_request_id
  BY <1>1, NullsAssumption DEF CommitsSettled, IsSettled, TypeOK, FinalizeTransferSignal
<1> QED  BY <1>1, <1>2, StatusOfRow, NoCommitNoMoney

\* Rows that go are forgotten.
LEMMA RowsForgotten ==
  ASSUME TypeOK, Identified, NEW S, running_transfer' = running_transfer \ S,
         UNCHANGED <<cr_seq, prepare_signals, finalize_signals, ledger>>
  PROVE  [Promise!PromiseNext]_(Promise!pvars)
<1> DEFINE gone == {q \in Requests : RowsFor(q) \cap S # {}}
<1>1. Promise!Forget(gone)
  BY StatusRemoved, MoneySame, RequestedSame DEF Promise!Forget
<1> QED  BY <1>1 DEF Promise!PromiseNext

\* A new transfer starts a request that was unborn.
LEMMA InitiateStarts ==
  ASSUME RefInv, NEW d \in Debtors, NEW uuid \in Uuids, NEW amount \in Amounts,
         NEW recipient \in Recipients, NEW elapsed \in BOOLEAN,
         InitiateTransfer(d, uuid, amount, recipient, elapsed)
  PROVE  [Promise!PromiseNext]_(Promise!pvars)
<1> DEFINE row == [debtor_id |-> d, transfer_uuid |-> uuid,
                   coordinator_request_id |-> cr_seq', amount |-> amount,
                   recipient |-> recipient, transfer_id |-> NoTransferId,
                   finalized |-> FALSE, error_code |-> NoError]
           signal == [debtor_id |-> d, coordinator_request_id |-> cr_seq',
                      amount |-> amount, recipient |-> recipient]
<1>q. PICK q : q = cr_seq + 1
  OBVIOUS
<1>typed. TypeOK /\ Identified /\ Drawn
  BY DEF RefInv, FailureInv, OutcomeInv, CommitInv, CountInv
<1>1. /\ running_transfer' = running_transfer \cup {row}
      /\ prepare_signals' = prepare_signals \cup {signal}
      /\ cr_seq' = q /\ cr_seq \in Nat /\ q \in Requests
      /\ UNCHANGED <<finalize_signals, ledger>>
  BY <1>q, <1>typed, BoundsAssumption DEF InitiateTransfer, authorityVars, TypeOK, Requests
<1>2. /\ row.coordinator_request_id = q /\ ~row.finalized
      /\ signal.coordinator_request_id = q /\ signal.amount = amount
  BY <1>1
<1> HIDE DEF row, signal
<1>3. /\ \A r \in running_transfer : r.coordinator_request_id # q
      /\ \A p \in prepare_signals : p.coordinator_request_id # q
  BY <1>1, <1>q, <1>typed, BoundsAssumption
  DEF Identified, Drawn, TypeOK, RunningTransfer, PrepareTransferSignal, Requests
<1>4. SeenStatus[q] = "unborn" /\ SeenStatus' = [SeenStatus EXCEPT ![q] = "running"]
  <2>1. StatusOf(q) = "unborn"
    BY <1>1, <1>q DEF StatusOf
  <2>2. StatusOf(q)' = "running"
    <3>1. RowsFor(q)' = {row}
      BY <1>1, <1>2, <1>3 DEF RowsFor
    <3>2. ~ q > cr_seq'
      BY <1>1 DEF Requests
    <3> QED  BY <1>2, <3>1, <3>2 DEF StatusOf
  <2>3. ASSUME NEW x \in Requests, x # q PROVE StatusOf(x)' = StatusOf(x)
    <3>1. RowsFor(x)' = RowsFor(x)
      BY <1>1, <1>2, <2>3 DEF RowsFor
    <3>2. x > cr_seq' <=> x > cr_seq
      BY <1>1, <1>q, <2>3 DEF Requests
    <3> QED  BY <3>1, <3>2 DEF StatusOf
  <2> QED  BY <1>1, <2>1, <2>2, <2>3 DEF SeenStatus
<1>5. Requested' = [Requested EXCEPT ![q] = amount]
  <2> DEFINE Terms(x) == {p.amount : p \in {y \in prepare_signals : y.coordinator_request_id = x}}
  <2>1. Terms(q)' = {amount}
    BY <1>1, <1>2, <1>3
  <2>2. \A x \in Requests : x # q => Terms(x)' = Terms(x)
    BY <1>1, <1>2
  <2>3. Only({amount}) = amount
    BY DEF Only
  <2>4. Requested = [x \in Requests |-> Only(Terms(x))]
    BY DEF Requested
  <2>5. Requested' = [x \in Requests |-> Only(Terms(x)')]
    BY DEF Requested
  <2> HIDE DEF Terms
  <2> QED  BY <2>1, <2>2, <2>3, <2>4, <2>5
<1>6. Authorised' = Authorised /\ Decided' = Decided /\ Issued' = Issued
  BY <1>1, MoneySame
<1>7. Promise!Start(q, amount)
  BY <1>4, <1>5, <1>6 DEF Promise!Start
<1> QED  BY <1>1, <1>7 DEF Promise!PromiseNext

\* A settled row has been told to the authority; telling it again changes nothing.
LEMMA ToldAlready ==
  ASSUME RefInv, NEW m \in prepared_msgs, NEW r \in Find(m), PreparedMatches(r, m),
         r.transfer_id = m.transfer_id
  PROVE  FinalizeSignal(m, r.amount) \in finalize_signals
<1>typed. /\ r \in running_transfer /\ m \in PreparedTransfer
          /\ finalize_signals \subseteq FinalizeTransferSignal
  BY DEF Find, RefInv, FailureInv, OutcomeInv, CommitInv, CountInv, TypeOK
<1>1. /\ m.coordinator_id = r.debtor_id /\ m.account = r.debtor_id
      /\ m.coordinator_request_id = r.coordinator_request_id
      /\ IsSettled(r)
  BY <1>typed, NullsAssumption DEF Find, PreparedMatches, IsSettled, PreparedTransfer
<1>2. PICK s \in finalize_signals :
        /\ s.account = r.debtor_id /\ s.transfer_id = r.transfer_id
        /\ s.coordinator_id = r.debtor_id
        /\ s.coordinator_request_id = r.coordinator_request_id
  BY <1>typed, <1>1 DEF RefInv, CommitsInv, SettledSent
<1>3. s.committed_amount = r.amount
  BY <1>typed, <1>1, <1>2 DEF RefInv, FailureInv, OutcomeInv, RowParts, SettledRight
<1>4. s = FinalizeSignal(m, r.amount)
  BY <1>typed, <1>1, <1>2, <1>3 DEF FinalizeSignal, FinalizeTransferSignal
<1> QED  BY <1>4

\* A signal that commits nothing leaves the money alone.
LEMMA DismissalCostsNothing ==
  ASSUME NEW new, ~Commits(new), finalize_signals' = finalize_signals \cup {new},
         UNCHANGED ledger, TypeOK
  PROVE  Authorised' = Authorised /\ Decided' = Decided /\ Issued' = Issued
<1>1. ASSUME NEW q \in Requests PROVE CommitsFor(q)' = CommitsFor(q) /\ Executed(q)' = Executed(q)
  <2>1. CommitsFor(q)' = CommitsFor(q)
    BY DEF CommitsFor, CommitSignals, Commits
  <2> QED  BY <2>1 DEF Executed
<1> QED  BY <1>1, MoneyKept

\* A PreparedTransfer authorises the request the first time it settles the row,
\* and changes nothing when it is redelivered, comes late, or does not match.
LEMMA PreparedAuthorises ==
  ASSUME RefInv, TypeOK', NEW m \in prepared_msgs, ProcessPrepared(m)
  PROVE  [Promise!PromiseNext]_(Promise!pvars)
<1>typed. TypeOK /\ Identified /\ m \in PreparedTransfer
  BY DEF RefInv, FailureInv, OutcomeInv, CommitInv, CountInv, TypeOK
<1>0. UNCHANGED <<cr_seq, prepare_signals, ledger>> /\ Requested' = Requested
  BY RequestedSame DEF ProcessPrepared, authorityVars
<1>1. CASE DismissUnmatched(m)
  <2>1. /\ finalize_signals' = finalize_signals \cup {FinalizeSignal(m, 0)}
        /\ ~Commits(FinalizeSignal(m, 0)) /\ UNCHANGED running_transfer
    BY <1>1 DEF DismissUnmatched, Commits, FinalizeSignal
  <2>2. Authorised' = Authorised /\ Decided' = Decided /\ Issued' = Issued
    BY <1>0, <1>typed, <2>1, DismissalCostsNothing
  <2> QED  BY <1>0, <2>1, <2>2, StatusKept DEF Promise!pvars
<1>2. ASSUME NEW r \in Find(m), PreparedMatches(r, m),
             running_transfer' = Update(r, Settle(r, m)),
             finalize_signals' = finalize_signals \cup {FinalizeSignal(m, AmountToCommit(r, m))}
      PROVE  [Promise!PromiseNext]_(Promise!pvars)
  <2> DEFINE n == Settle(r, m)
             new == FinalizeSignal(m, AmountToCommit(r, m))
             id == r.coordinator_request_id
  <2>1. /\ r \in running_transfer /\ r \in RunningTransfer /\ IsAbout(m, r)
        /\ m.transfer_id \in TransferIds
    BY <1>typed DEF Find, TypeOK, PreparedTransfer, IsAbout
  <2>2. id \in Requests /\ SeenStatus[id] = StatusShown(r)
    BY <1>typed, <2>1, StatusOfRow
  <2>3. n.coordinator_request_id = id /\ StatusShown(n) = StatusShown(r)
    BY <2>1 DEF Settle, RunningTransfer, StatusShown
  \* The debtor sees nothing of it.
  <2>4. SeenStatus' = SeenStatus
    <3>1. SeenStatus' = [SeenStatus EXCEPT ![id] = StatusShown(n)]
      BY <1>0, <1>2, <1>typed, <2>1, <2>3, StatusUpdated
    <3> QED  BY <2>2, <2>3, <3>1 DEF SeenStatus
  <2>5. CASE ~Commits(new)
    <3>1. Authorised' = Authorised /\ Decided' = Decided /\ Issued' = Issued
      BY <1>0, <1>2, <1>typed, <2>5, DismissalCostsNothing
    <3> QED  BY <1>0, <2>4, <3>1 DEF Promise!pvars
  <2>6. CASE Commits(new) /\ r.transfer_id = m.transfer_id
    <3>1. n.transfer_id = m.transfer_id
      BY <2>1, <2>6 DEF Settle, RunningTransfer
    <3>2. UNCHANGED finalize_signals
      BY <1>2, <2>6, <3>1, ToldAlready DEF AmountToCommit
    <3>3. Authorised' = Authorised /\ Decided' = Decided /\ Issued' = Issued
      BY <1>0, <3>2, MoneySame
    <3> QED  BY <1>0, <2>4, <3>3 DEF Promise!pvars
  <2>7. CASE Commits(new) /\ r.transfer_id # m.transfer_id
    <3>1. ~IsSettled(r) /\ ~r.finalized
      BY <2>1, <2>7 DEF AmountToCommit, Settle, Commits, FinalizeSignal
    <3>2. /\ new.coordinator_request_id = id /\ SameTransfer(new, m)
          /\ finalize_signals' = finalize_signals \cup {new}
      BY <1>2, <2>1 DEF FinalizeSignal, IsAbout, SameTransfer
    <3>3. Commits(new)
      BY <2>7
    <3> HIDE DEF new
    <3>4. /\ CommitsFor(id)' = CommitsFor(id) \cup {new}
          /\ \A q \in Requests : q # id => CommitsFor(q)' = CommitsFor(q)
      <4>1. \A q : CommitsFor(q) = {s \in finalize_signals : Commits(s) /\ s.coordinator_request_id = q}
        BY <1>typed, CommitsForIs
      <4>2. \A s \in finalize_signals' : s.coordinator_id \in Debtors
        BY DEF TypeOK, FinalizeTransferSignal
      <4>3. \A q : CommitsFor(q)' = {s \in finalize_signals' : Commits(s) /\ s.coordinator_request_id = q}
        BY <4>2 DEF CommitsFor, CommitSignals, Commits
      <4> QED  BY <3>2, <3>3, <4>1, <4>3
    \* Nothing has been finalized for a row that could still be settled.
    <3>5. \A e \in ledger : e.state = "finalized" => ~SameTransfer(e, new)
      <4>1. \A s \in finalize_signals : ~SameTransfer(s, m)
        BY <1>2, <2>1, <3>1 DEF RefInv, FailureInv, OutcomeInv, RowParts, Undecided
      <4> QED  BY <3>2, <4>1 DEF RefInv, CommitsInv, LedgerActed, SameTransfer
    <3>6. \A q \in Requests : Executed(q)' = Executed(q)
      BY <1>0, <3>4, <3>5 DEF Executed, SameTransfer
    <3>7. Authorised' = Authorised \cup {id} /\ Decided' = Decided /\ Issued' = Issued
      <4>1. Authorised' = Authorised \cup {id}
        BY <2>2, <3>4 DEF Authorised
      <4>2. Decided' = Decided /\ Issued' = Issued
        BY <3>6 DEF Decided, Issued
      <4> QED  BY <4>1, <4>2
    <3>8. id \notin Authorised /\ SeenStatus[id] = "running"
      BY <2>1, <2>2, <3>1, UnsettledCostsNothing DEF StatusShown
    <3>9. Promise!Authorise(id)
      BY <1>0, <2>4, <3>7, <3>8 DEF Promise!Authorise
    <3> QED  BY <2>2, <3>9 DEF Promise!PromiseNext
  <2> QED  BY <2>5, <2>6, <2>7
<1> QED  BY <1>1, <1>2 DEF ProcessPrepared

\* A FinalizedTransfer shows what the ledger says, for amount zero too.
LEMMA FinalizedShows ==
  ASSUME AaEchoes, RefInv, NEW m \in finalized_msgs, ProcessFinalized(m)
  PROVE  [Promise!PromiseNext]_(Promise!pvars)
<1>typed. TypeOK /\ Identified /\ m \in FinalizedTransfer
  BY DEF RefInv, FailureInv, OutcomeInv, CommitInv, CountInv, TypeOK
<1>1. PICK r \in Find(m) :
        /\ r.debtor_id = m.account /\ r.transfer_id = m.transfer_id
        /\ running_transfer' = Update(r, Finalize(r, OutcomeOf(r, m)))
  BY DEF ProcessFinalized
<1> DEFINE id == r.coordinator_request_id
<1>2. /\ r \in running_transfer /\ r.debtor_id \in Debtors /\ r.amount \in Amounts
      /\ IsSettled(r)
      /\ UNCHANGED <<cr_seq, prepare_signals, finalize_signals, ledger>>
  BY <1>1, <1>typed, NullsAssumption
  DEF Find, TypeOK, RunningTransfer, FinalizedTransfer, IsSettled, ProcessFinalized,
      signalVars, authorityVars
<1>3. PICK e \in ledger :
        /\ e.account = r.debtor_id /\ e.transfer_id = r.transfer_id
        /\ e.state = "finalized"
        /\ OutcomeOf(r, m) = NoError => e.issued = r.amount
        /\ OutcomeOf(r, m) # NoError => e.issued = 0
  BY <1>1, FinalizedTellsTruth DEF RefInv, FailureInv
<1>4. PICK s \in finalize_signals :
        /\ SameTransfer(e, s) /\ s.coordinator_request_id = id
        /\ s.committed_amount = r.amount
  BY <1>2, <1>3 DEF RefInv, FailureInv, OutcomeInv, RowParts, SettledRight, CommitsInv, SettledSent,
                    SameTransfer
<1>5. Requested[id] = r.amount /\ id \in Requests
  BY <1>2, <1>typed, RequestedOf, StatusOfRow DEF RefInv, RequestsInv, RowsAsked
<1>6. CASE Commits(s)
  <2>1. id \in Decided /\ Issued[id] = e.issued
    BY <1>3, <1>4, <1>6, ExecutedIs
  <2> QED  BY <1>1, <1>2, <1>3, <1>5, <1>typed, <2>1, RowResult
<1>7. CASE ~Commits(s)
  <2>1. r.amount = 0
    BY <1>2, <1>4, <1>7, AmountsAssumption DEF Commits
  <2>2. \A x \in finalize_signals : Commits(x) => x.coordinator_request_id # id
    <3> SUFFICES ASSUME NEW x \in finalize_signals, Commits(x), x.coordinator_request_id = id
                 PROVE  FALSE
      OBVIOUS
    <3>1. PICK p \in prepare_signals :
            p.coordinator_request_id = id /\ p.amount = x.committed_amount
      BY DEF RefInv, CommitsInv, CommitsFull
    <3>2. Requested[id] = x.committed_amount
      BY <1>typed, <3>1, RequestedOf DEF RefInv, RequestsInv
    <3> QED  BY <1>5, <2>1, <3>2 DEF Commits
  <2>3. id \notin Authorised /\ Issued[id] = 0
    BY <1>5, <1>typed, <2>2, NoCommitNoMoney
  <2> QED  BY <1>1, <1>2, <1>5, <1>typed, <2>1, <2>3, RowResult
<1> QED  BY <1>6, <1>7

\* The authority decides a request when the transfer it acts on was committed
\* for it, be it through the commit or through a later dismissal.
LEMMA AuthorityDecides ==
  ASSUME RefInv, NEW s \in finalize_signals, NEW e \in ledger,
         NEW committed \in Amounts \cup {0}, NEW code \in StatusCodes,
         AuthorityFinalizes(s, e, committed, code)
  PROVE  [Promise!PromiseNext]_(Promise!pvars)
<1> DEFINE n == [e EXCEPT !.state = "finalized",
                          !.issued = IF code = SC_OK THEN s.committed_amount ELSE 0]
<1>typed. TypeOK /\ e \in LedgerEntry /\ s \in FinalizeTransferSignal
  BY DEF RefInv, FailureInv, OutcomeInv, CommitInv, CountInv, TypeOK
<1>1. /\ ledger' = (ledger \ {e}) \cup {n}
      /\ UNCHANGED <<running_transfer, cr_seq, prepare_signals, finalize_signals>>
  BY DEF AuthorityFinalizes, signalVars
<1>2. /\ e.state # "finalized" /\ SameTransfer(e, s)
      /\ n.state = "finalized" /\ n.account = e.account /\ n.transfer_id = e.transfer_id
      /\ n.issued = IF code = SC_OK THEN s.committed_amount ELSE 0
  BY <1>typed DEF AuthorityFinalizes, SameTransfer, LedgerEntry
<1> HIDE DEF n
<1>3. SeenStatus' = SeenStatus /\ Requested' = Requested /\ Authorised' = Authorised
  <2>1. \A q \in Requests : CommitsFor(q)' = CommitsFor(q)
    BY <1>1 DEF CommitsFor, CommitSignals
  <2> QED  BY <1>1, <2>1, StatusKept, RequestedSame DEF Authorised
<1>4. \A q \in Requests : CommitsFor(q)' = CommitsFor(q)
  BY <1>1 DEF CommitsFor, CommitSignals
\* The fate of e is the fate of the request that it has been committed for.
<1>5. ASSUME NEW q \in Requests, \A x \in CommitsFor(q) : ~SameTransfer(e, x)
      PROVE  Executed(q)' = Executed(q)
  <2>1. \A y : y \in Executed(q)' <=> y \in Executed(q)
    BY <1>1, <1>2, <1>4, <1>5 DEF Executed, SameTransfer
  <2> QED  BY <2>1
<1>6. CASE \A q \in Requests : \A x \in CommitsFor(q) : ~SameTransfer(e, x)
  BY <1>3, <1>5, <1>6 DEF Decided, Issued, Promise!pvars
<1>7. ASSUME NEW id \in Requests, NEW c \in CommitsFor(id), SameTransfer(e, c)
      PROVE  [Promise!PromiseNext]_(Promise!pvars)
  <2>1. /\ c \in finalize_signals /\ Commits(c) /\ c.coordinator_request_id = id
    BY <1>typed, <1>7, CommitsForIs
  <2>2. s.coordinator_request_id = id
    BY <1>2, <1>7, <2>1, OneTransferEach DEF SameTransfer
  <2>3. Executed(id) = {}
    BY <1>2, <1>7, <1>typed, <2>1, OneTransferEach, CommitsForIs
    DEF Executed, SameTransfer, RefInv, FailureInv, OutcomeInv, LedgerParts, LedgerOnce
  <2>4. Executed(id)' = {n}
    <3>1. n \in Executed(id)'
      BY <1>1, <1>2, <1>4, <1>7 DEF Executed, SameTransfer
    <3>2. \A y \in Executed(id)' : y = n \/ y \in Executed(id)
      BY <1>1, <1>4 DEF Executed
    <3> QED  BY <2>3, <3>1, <3>2
  <2>5. ASSUME NEW q \in Requests, q # id PROVE Executed(q)' = Executed(q)
    <3>1. \A x \in CommitsFor(q) : ~SameTransfer(e, x)
      BY <1>2, <1>typed, <2>2, <2>5, OneTransferEach, CommitsForIs DEF SameTransfer
    <3> QED  BY <1>5, <2>5, <3>1
  <2>6. n.issued \in {0, Requested[id]}
    <3>1. CASE ~Commits(s)
      <4>1. s.committed_amount \in Amounts \cup {0}
        BY <1>typed DEF FinalizeTransferSignal
      <4>2. \A amount \in Amounts \cup {0} : amount > 0 \/ amount = 0
        BY AmountsAssumption
      <4> QED  BY <1>2, <3>1, <4>1, <4>2 DEF Commits
    <3>2. CASE Commits(s)
      <4>1. PICK p \in prepare_signals :
              p.coordinator_request_id = id /\ p.amount = s.committed_amount
        BY <2>2, <3>2 DEF RefInv, CommitsInv, CommitsFull
      <4> QED  BY <1>2, <1>typed, <4>1, RequestedOf DEF RefInv, RequestsInv
    <3> QED  BY <3>1, <3>2
  <2>7. id \in Authorised \ Decided /\ Decided' = Decided \cup {id}
    <3>1. id \in Authorised \ Decided
      BY <1>7, <2>3 DEF Authorised, Decided
    <3>2. \A q \in Requests : Executed(q)' # {} <=> q = id \/ Executed(q) # {}
      BY <2>4, <2>5
    <3> QED  BY <3>1, <3>2 DEF Decided
  <2>8. Issued' = [Issued EXCEPT ![id] = n.issued]
    <3>1. {y.issued : y \in Executed(id)'} = {n.issued}
      BY <2>4
    <3>2. Only({n.issued}) = n.issued
      BY DEF Only
    <3>3. Only({y.issued : y \in Executed(id)'}) = n.issued
      BY <3>1, <3>2
    <3>4. ASSUME NEW q \in Requests, q # id
          PROVE  Only({y.issued : y \in Executed(q)'}) = Only({y.issued : y \in Executed(q)})
      BY <2>5, <3>4
    <3>5. Issued' = [q \in Requests |-> Only({y.issued : y \in Executed(q)'})]
      BY DEF Issued, Only
    <3> QED  BY <3>3, <3>4, <3>5 DEF Issued
  <2>9. Promise!Decide(id)
    BY <1>3, <2>6, <2>7, <2>8 DEF Promise!Decide
  <2> QED  BY <2>9 DEF Promise!PromiseNext
<1> QED  BY <1>6, <1>7

\* Every handler and every step of the authority.
LEMMA StepKeepsPromise ==
  ASSUME AaEchoes, RefInv, RefInv', [Next]_vars PROVE [Promise!PromiseNext]_(Promise!pvars)
<1>typed. TypeOK /\ TypeOK' /\ Identified
  BY DEF RefInv, FailureInv, OutcomeInv, CommitInv, CountInv
\* A row without a transfer fails at no cost.
<1>1. ASSUME NEW r \in running_transfer, NEW code \in ErrorCodes, ~IsSettled(r),
             running_transfer' = Update(r, Finalize(r, code)),
             UNCHANGED <<cr_seq, prepare_signals, finalize_signals, ledger>>
      PROVE  [Promise!PromiseNext]_(Promise!pvars)
  <2>1. code # NoError
    BY DEF ErrorCodes, NoError, Refused, SC_CANCELED_BY_THE_SENDER, SC_UNEXPECTED_ERROR
  <2> QED  BY <1>1, <1>typed, <2>1, UnsettledCostsNothing, RowResult
<1>2. ASSUME NEW r \in running_transfer, CancelTransfer(r)
      PROVE  [Promise!PromiseNext]_(Promise!pvars)
  BY <1>1, <1>2 DEF CancelTransfer, signalVars, authorityVars, ErrorCodes
<1>3. ASSUME NEW m \in rejected_msgs, ProcessRejected(m)
      PROVE  [Promise!PromiseNext]_(Promise!pvars)
  <2>1. PICK r \in Find(m), code \in ErrorCodes : running_transfer' = Update(r, Finalize(r, code))
    BY <1>3, <1>typed DEF ProcessRejected, TypeOK, RejectedTransfer, StatusCodes, ErrorCodes
  <2>2. /\ r \in running_transfer /\ r \in RunningTransfer
        /\ UNCHANGED <<cr_seq, prepare_signals, finalize_signals, ledger>>
    BY <1>3, <1>typed DEF Find, TypeOK, ProcessRejected, signalVars, authorityVars
  <2>3. ~IsSettled(r)
    BY <2>2 DEF Find, RefInv, FailureInv, OutcomeInv, RowParts, SettledRight, AnswersExclude, IsAbout
  <2> QED  BY <1>1, <2>1, <2>2, <2>3
<1>4. ASSUME UNCHANGED <<running_transfer, cr_seq, prepare_signals, finalize_signals>>,
             {e \in ledger' : e.state = "finalized"} = {e \in ledger : e.state = "finalized"}
      PROVE  [Promise!PromiseNext]_(Promise!pvars)
  BY <1>4, StatusKept, RequestedSame, MoneySame DEF Promise!pvars
<1>5. ASSUME NEW p \in prepare_signals, AuthorityAnswer(p)
      PROVE  [Promise!PromiseNext]_(Promise!pvars)
  <2>1. UNCHANGED <<running_transfer, cr_seq, prepare_signals, finalize_signals>>
    BY <1>5 DEF AuthorityAnswer, AuthorityPrepares, AuthorityRejects, signalVars
  <2>2. {e \in ledger' : e.state = "finalized"} = {e \in ledger : e.state = "finalized"}
    BY <1>5 DEF AuthorityAnswer, AuthorityPrepares, AuthorityRejects
  <2> QED  BY <1>4, <2>1, <2>2
<1>6. ASSUME NEW S, running_transfer' = running_transfer \ S,
             UNCHANGED <<cr_seq, prepare_signals, finalize_signals, ledger>>
      PROVE  [Promise!PromiseNext]_(Promise!pvars)
  BY <1>6, <1>typed, RowsForgotten
<1>7. ASSUME NEW d \in Debtors, ActivateDebtor(d) \/ DeactivateDebtor(d)
      PROVE  [Promise!PromiseNext]_(Promise!pvars)
  BY <1>4, <1>6, <1>7 DEF ActivateDebtor, DeactivateDebtor, signalVars, authorityVars
<1>8. ASSUME NEW r \in running_transfer, DeleteTransfer(r)
      PROVE  [Promise!PromiseNext]_(Promise!pvars)
  BY <1>6, <1>8 DEF DeleteTransfer, signalVars, authorityVars
<1>9. CASE UNCHANGED vars
  BY <1>4, <1>9 DEF vars, signalVars, authorityVars
<1> QED
  BY <1>2, <1>3, <1>5, <1>7, <1>8, <1>9, <1>typed, InitiateStarts, PreparedAuthorises, FinalizedShows,
     AuthorityDecides
  DEF Next, ProcessSomePrepared, ProcessSomeRejected, ProcessSomeFinalized, AuthorityAnswers,
      AuthorityFinalizesSome

\* At the start nothing has been asked for.
LEMMA InitKeepsPromise == Init => RefInv /\ Promise!PromiseInit
<1> SUFFICES ASSUME Init PROVE RefInv /\ Promise!PromiseInit
  OBVIOUS
<1>1. RefInv
  BY OutcomeInit
  DEF Init, RefInv, FailureInv, RequestsInv, AskedOnce, RowsAsked, PreparedAsked, AnsweredOnce,
      CommitsInv, CommitsFull, SettledSent, LedgerActed
<1>2. ASSUME NEW q \in Requests
      PROVE  /\ SeenStatus[q] = "unborn" /\ Requested[q] = 0
             /\ q \notin Authorised /\ q \notin Decided /\ Issued[q] = 0
  <2>1. SeenStatus[q] = "unborn"
    BY <1>2 DEF Init, SeenStatus, StatusOf, Requests
  <2>2. {p.amount : p \in {x \in prepare_signals : x.coordinator_request_id = q}} = {}
    BY DEF Init
  <2>3. Requested[q] = 0
    BY <1>2, <2>2 DEF Requested, Only
  <2> QED
    BY <1>1, <1>2, <2>1, <2>3, NoCommitNoMoney
    DEF Init, RefInv, FailureInv, OutcomeInv, CommitInv, CountInv
<1>3. Promise!PromiseInit
  BY <1>2 DEF Promise!PromiseInit, SeenStatus, Requested, Authorised, Decided, Issued
<1> QED  BY <1>1, <1>3

\* The coordinator implements the promise: what the debtor is shown is the
\* truth about the money, for any number of debtors, requests and transfers,
\* provided that the authority answers each request once and repeats what it
\* was asked for.
THEOREM CoordinatorKeepsPromise ==
  ASSUME AaAnswersOnce, AaEchoes PROVE Spec => KeepsPromise
<1>1. RefInv /\ [Next]_vars => RefInv'
  BY FailureStep, RequestsStep, CommitsStep DEF RefInv
<1>2. RefInv /\ RefInv' /\ [Next]_vars => [Promise!PromiseNext]_(Promise!pvars)
  BY StepKeepsPromise
<1> QED
  BY <1>1, <1>2, InitKeepsPromise, PTL DEF Spec, KeepsPromise, Promise!PromiseSpec
===============================================================================
