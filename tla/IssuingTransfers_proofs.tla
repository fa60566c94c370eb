------------------------ MODULE IssuingTransfers_proofs ------------------------
(***************************************************************************)
(* Proofs about IssuingTransfers, for any sets of debtors, UUIDs, amounts  *)
(* and transfer IDs, and for an accounting authority that answers as often *)
(* and as wrongly as it likes (AaAnswersOnce and AaEchoes stay open).      *)
(***************************************************************************)
EXTENDS IssuingTransfers, FiniteSetTheorems, TLAPS

-----------------------------------------------------------------------------
(* Type correctness and the count of running transfers                     *)

\* A coordinator_request_id identifies its row, and was drawn from the sequence.
Identified ==
  /\ \A r1, r2 \in running_transfer :
       r1.coordinator_request_id = r2.coordinator_request_id => r1 = r2
  /\ \A r \in running_transfer : r.coordinator_request_id <= cr_seq

\* The running transfers of inactive debtors are gone, and those of each
\* debtor are counted; this is CountMatches for a table that stays finite.
CountInv ==
  /\ TypeOK
  /\ Identified
  /\ IsFiniteSet(running_transfer)
  /\ CountMatches

\* What a handler may do to a row: its identity and its terms stay.
SameTerms(r, n) ==
  /\ n \in RunningTransfer
  /\ n.debtor_id = r.debtor_id
  /\ n.coordinator_request_id = r.coordinator_request_id

\* Modifying one row leaves the number of rows of every debtor alone.
LEMMA UpdateKeepsCount ==
  ASSUME CountInv, NEW old \in running_transfer, NEW new, SameTerms(old, new),
         running_transfer' = Update(old, new), UNCHANGED <<debtor, cr_seq>>
  PROVE  /\ running_transfer' \subseteq RunningTransfer
         /\ Identified'
         /\ IsFiniteSet(running_transfer')
         /\ CountMatches'
<1>1. running_transfer' \subseteq RunningTransfer
  BY DEF CountInv, TypeOK, Update, SameTerms
<1>2. Identified'
  BY DEF CountInv, Identified, Update, SameTerms
<1>3. IsFiniteSet(running_transfer')
  <2>1. IsFiniteSet(running_transfer \ {old})
    BY FS_RemoveElement DEF CountInv
  <2> QED
    BY <2>1, FS_AddElement DEF Update
<1>4. CountMatches'
  <2> SUFFICES ASSUME NEW d \in Debtors
               PROVE  /\ debtor'[d].running_transfers_count = Cardinality(RowsOf(d)')
                      /\ debtor'[d].status # "active" => RowsOf(d)' = {}
    BY DEF CountMatches
  <2>1. /\ debtor'[d].running_transfers_count = Cardinality(RowsOf(d))
        /\ debtor'[d].status # "active" => RowsOf(d) = {}
    BY DEF CountInv, CountMatches
  <2>2. IsFiniteSet(RowsOf(d))
    BY FS_Subset DEF CountInv, RowsOf
  <2>3. CASE d # old.debtor_id
    <3>1. RowsOf(d)' = RowsOf(d)
      BY <2>3 DEF RowsOf, Update, SameTerms
    <3> QED BY <2>1, <3>1
  <2>4. CASE d = old.debtor_id
    <3>1. RowsOf(d)' = (RowsOf(d) \ {old}) \cup {new}
      BY <2>4 DEF RowsOf, Update, SameTerms
    <3>2. new \notin RowsOf(d) \ {old}
      BY DEF CountInv, Identified, RowsOf, SameTerms
    <3>3. old \in RowsOf(d)
      BY <2>4 DEF RowsOf
    <3>4. /\ IsFiniteSet(RowsOf(d) \ {old})
          /\ Cardinality(RowsOf(d) \ {old}) = Cardinality(RowsOf(d)) - 1
      BY <2>2, <3>3, FS_RemoveElement
    <3>5. Cardinality(RowsOf(d)') = Cardinality(RowsOf(d) \ {old}) + 1
      BY <3>1, <3>2, <3>4, FS_AddElement
    <3>6. Cardinality(RowsOf(d)) \in Nat
      BY <2>2, FS_CardinalityType
    <3> QED BY <2>1, <3>3, <3>4, <3>5, <3>6
  <2> QED BY <2>3, <2>4
<1> QED BY <1>1, <1>2, <1>3, <1>4

LEMMA CountInvInit == Init => CountInv
<1> SUFFICES ASSUME Init PROVE CountInv
  OBVIOUS
<1>1. TypeOK
  BY BoundsAssumption DEF Init, TypeOK, DebtorRow
<1>2. Identified
  BY DEF Init, Identified
<1>3. IsFiniteSet(running_transfer)
  BY FS_EmptySet DEF Init
<1>4. CountMatches
  <2>1. \A d \in Debtors : RowsOf(d) = {}
    BY DEF Init, RowsOf
  <2> QED BY <2>1, FS_EmptySet DEF Init, CountMatches
<1> QED BY <1>1, <1>2, <1>3, <1>4 DEF CountInv

\* Finalizing a row keeps its terms, whatever the result.
LEMMA FinalizeKeepsTerms ==
  ASSUME NEW r \in RunningTransfer, NEW code \in ErrorCodes \cup {NoError}
  PROVE  SameTerms(r, Finalize(r, code))
BY DEF RunningTransfer, Finalize, SameTerms

LEMMA SettleKeepsTerms ==
  ASSUME NEW r \in RunningTransfer, NEW m \in PreparedTransfer
  PROVE  SameTerms(r, Settle(r, m))
BY DEF RunningTransfer, PreparedTransfer, Settle, SameTerms

\* The sets that a step which modifies one row must still be shown to type.
RestTyped ==
  /\ prepare_signals \subseteq PrepareTransferSignal
  /\ finalize_signals \subseteq FinalizeTransferSignal
  /\ prepared_msgs \subseteq PreparedTransfer
  /\ rejected_msgs \subseteq RejectedTransfer
  /\ finalized_msgs \subseteq FinalizedTransfer
  /\ ledger \subseteq LedgerEntry
  /\ cancelled \subseteq Requests

LEMMA RowUpdate ==
  ASSUME CountInv, NEW old \in running_transfer, NEW new, SameTerms(old, new),
         running_transfer' = Update(old, new), UNCHANGED <<debtor, cr_seq>>,
         RestTyped'
  PROVE  CountInv'
<1>1. TypeOK'
  BY UpdateKeepsCount DEF CountInv, TypeOK, RestTyped
<1> QED BY <1>1, UpdateKeepsCount DEF CountInv

\* Steps that touch neither the rows nor the debtors.
LEMMA RowsUntouched ==
  ASSUME CountInv, UNCHANGED <<debtor, running_transfer, cr_seq>>, RestTyped'
  PROVE  CountInv'
<1>1. TypeOK'
  BY DEF CountInv, TypeOK, RestTyped
<1>2. Identified' /\ IsFiniteSet(running_transfer')
  BY DEF CountInv, Identified
<1>3. CountMatches'
  BY DEF CountInv, CountMatches, RowsOf
<1> QED BY <1>1, <1>2, <1>3 DEF CountInv

LEMMA CountInvStep == CountInv /\ [Next]_vars => CountInv'
<1> SUFFICES ASSUME CountInv, [Next]_vars PROVE CountInv'
  OBVIOUS
<1>typed. TypeOK /\ RestTyped
  BY DEF CountInv, TypeOK, RestTyped
<1>1. ASSUME NEW d \in Debtors, ActivateDebtor(d) PROVE CountInv'
  <2>1. TypeOK'
    BY <1>1, <1>typed DEF TypeOK, ActivateDebtor, signalVars, authorityVars, DebtorRow
  <2>2. Identified' /\ IsFiniteSet(running_transfer')
    BY <1>1 DEF CountInv, Identified, ActivateDebtor
  <2>3. CountMatches'
    <3>1. \A c \in Debtors : RowsOf(c)' = RowsOf(c)
      BY <1>1 DEF ActivateDebtor, RowsOf
    <3>2. \A c \in Debtors :
            /\ debtor'[c].running_transfers_count = debtor[c].running_transfers_count
            /\ debtor'[c].status # "active" => debtor[c].status # "active"
      BY <1>1, <1>typed DEF ActivateDebtor, TypeOK, DebtorRow
    <3> QED BY <3>1, <3>2 DEF CountInv, CountMatches
  <2> QED BY <2>1, <2>2, <2>3 DEF CountInv
<1>2. ASSUME NEW d \in Debtors, DeactivateDebtor(d) PROVE CountInv'
  <2>1. TypeOK'
    BY <1>2, <1>typed DEF TypeOK, DeactivateDebtor, signalVars, authorityVars, DebtorRow
  <2>2. Identified'
    BY <1>2 DEF CountInv, Identified, DeactivateDebtor
  <2>3. IsFiniteSet(running_transfer')
    BY <1>2, FS_Subset DEF CountInv, DeactivateDebtor
  <2>4. CountMatches'
    <3>1. RowsOf(d)' = {} /\ \A c \in Debtors \ {d} : RowsOf(c)' = RowsOf(c)
      BY <1>2 DEF DeactivateDebtor, RowsOf
    <3>2. /\ debtor'[d].running_transfers_count = 0
          /\ \A c \in Debtors \ {d} : debtor'[c] = debtor[c]
      BY <1>2, <1>typed DEF DeactivateDebtor, TypeOK, DebtorRow
    <3> QED BY <3>1, <3>2, FS_EmptySet DEF CountInv, CountMatches
  <2> QED BY <2>1, <2>2, <2>3, <2>4 DEF CountInv
<1>3. ASSUME NEW d \in Debtors, NEW uuid \in Uuids, NEW amount \in Amounts,
             NEW recipient \in Recipients, NEW elapsed \in BOOLEAN,
             InitiateTransfer(d, uuid, amount, recipient, elapsed)
      PROVE CountInv'
  <2> DEFINE row == [debtor_id |-> d, transfer_uuid |-> uuid,
                     coordinator_request_id |-> cr_seq', amount |-> amount,
                     recipient |-> recipient, transfer_id |-> NoTransferId,
                     finalized |-> FALSE, error_code |-> NoError]
  <2>1. /\ running_transfer' = running_transfer \cup {row}
        /\ cr_seq' = cr_seq + 1 /\ cr_seq' \in Requests
        /\ row \in RunningTransfer
    BY <1>3, <1>typed, BoundsAssumption DEF InitiateTransfer, TypeOK, Requests, RunningTransfer
  <2>2. /\ debtor' \in [Debtors -> DebtorRow]
        /\ debtor'[d].running_transfers_count = debtor[d].running_transfers_count + 1
        /\ debtor'[d].status = "active"
        /\ \A c \in Debtors \ {d} : debtor'[c] = debtor[c]
    <3> DEFINE throttled == Throttled(debtor[d], elapsed)
               new == Counted(throttled)
    <3>1. debtor[d] \in DebtorRow /\ debtor[d].status = "active"
      BY <1>3, <1>typed DEF InitiateTransfer, ThrottleAllows, TypeOK
    <3>2. /\ throttled \in DebtorRow
          /\ throttled.status = "active"
          /\ throttled.running_transfers_count = debtor[d].running_transfers_count
      BY <3>1 DEF DebtorRow, Throttled
    <3>3. /\ new \in DebtorRow
          /\ new.status = "active"
          /\ new.running_transfers_count = debtor[d].running_transfers_count + 1
      BY <3>2 DEF DebtorRow, Counted
    <3>4. debtor' = [debtor EXCEPT ![d] = new]
      BY <1>3 DEF InitiateTransfer
    <3> HIDE DEF new
    <3> QED BY <3>3, <3>4, <1>typed DEF TypeOK
  <2>3. RestTyped'
    BY <1>3, <2>1, <1>typed
    DEF InitiateTransfer, RestTyped, PrepareTransferSignal, authorityVars
  <2>4. TypeOK'
    <3>1. cr_seq' \in 0 .. MaxRequests
      BY <2>1, <1>typed, BoundsAssumption DEF TypeOK, Requests
    <3>2. running_transfer' \subseteq RunningTransfer
      <4> HIDE DEF row
      <4> QED BY <2>1, <1>typed DEF TypeOK
    <3> QED BY <2>2, <2>3, <3>1, <3>2 DEF TypeOK, RestTyped
  <2>a. \A r \in running_transfer : r.coordinator_request_id \in Int /\ cr_seq \in Int
    BY <1>typed, BoundsAssumption DEF TypeOK, RunningTransfer, Requests
  <2>5. Identified'
    <3>1. /\ row.coordinator_request_id = cr_seq + 1
          /\ \A r \in running_transfer : r.coordinator_request_id <= cr_seq
      BY <2>1 DEF CountInv, Identified
    <3> HIDE DEF row
    <3> QED BY <2>1, <2>a, <3>1 DEF CountInv, Identified
  <2>6. row \notin running_transfer
    BY <2>1, <1>typed, BoundsAssumption DEF CountInv, Identified, TypeOK, Requests
  <2>7. IsFiniteSet(running_transfer')
    BY <2>1, FS_AddElement DEF CountInv
  <2>8. CountMatches'
    <3>1. RowsOf(d)' = RowsOf(d) \cup {row} /\ row \notin RowsOf(d)
      BY <2>1, <2>6 DEF RowsOf
    <3>2. IsFiniteSet(RowsOf(d))
      BY FS_Subset DEF CountInv, RowsOf
    <3>3. Cardinality(RowsOf(d)') = Cardinality(RowsOf(d)) + 1
      BY <3>1, <3>2, FS_AddElement
    <3>4. \A c \in Debtors \ {d} : RowsOf(c)' = RowsOf(c)
      BY <2>1 DEF RowsOf
    <3> QED BY <2>2, <3>3, <3>4 DEF CountInv, CountMatches
  <2> QED BY <2>4, <2>5, <2>7, <2>8 DEF CountInv
<1>4. ASSUME NEW r \in running_transfer, CancelTransfer(r) PROVE CountInv'
  <2>1. r \in RunningTransfer /\ SC_CANCELED_BY_THE_SENDER \in ErrorCodes
    BY <1>typed DEF TypeOK, ErrorCodes
  <2>2. SameTerms(r, Finalize(r, SC_CANCELED_BY_THE_SENDER))
    BY <2>1, FinalizeKeepsTerms
  <2>3. RestTyped'
    BY <1>4, <2>1, <1>typed DEF RestTyped, CancelTransfer, RunningTransfer, signalVars, authorityVars
  <2> QED BY <1>4, <2>2, <2>3, RowUpdate DEF CancelTransfer
<1>5. ASSUME NEW r \in running_transfer, DeleteTransfer(r) PROVE CountInv'
  <2> DEFINE d == r.debtor_id
  <2>1. d \in Debtors
    BY <1>typed DEF TypeOK, RunningTransfer
  <2>2. IsFiniteSet(RowsOf(d)) /\ r \in RowsOf(d)
    BY <1>5, FS_Subset DEF CountInv, RowsOf
  <2>3. /\ Cardinality(RowsOf(d)) \in Nat
        /\ Cardinality(RowsOf(d) \ {r}) \in Nat
        /\ Cardinality(RowsOf(d) \ {r}) = Cardinality(RowsOf(d)) - 1
    BY <2>2, FS_RemoveElement, FS_CardinalityType
  <2>4. debtor[d].running_transfers_count = Cardinality(RowsOf(d))
    BY <2>1 DEF CountInv, CountMatches
  <2>5. /\ debtor' \in [Debtors -> DebtorRow]
        /\ debtor'[d].running_transfers_count = Cardinality(RowsOf(d) \ {r})
        /\ debtor'[d].status = debtor[d].status
        /\ \A c \in Debtors \ {d} : debtor'[c] = debtor[c]
    BY <1>5, <1>typed, <2>1, <2>3, <2>4 DEF DeleteTransfer, TypeOK, DebtorRow
  <2>6. TypeOK'
    BY <1>5, <1>typed, <2>5 DEF TypeOK, DeleteTransfer, signalVars, authorityVars
  <2>7. Identified'
    BY <1>5 DEF CountInv, Identified, DeleteTransfer
  <2>8. IsFiniteSet(running_transfer')
    BY <1>5, FS_Subset DEF CountInv, DeleteTransfer
  <2>9. CountMatches'
    <3>1. RowsOf(d)' = RowsOf(d) \ {r} /\ \A c \in Debtors \ {d} : RowsOf(c)' = RowsOf(c)
      BY <1>5 DEF DeleteTransfer, RowsOf
    <3> QED BY <2>5, <3>1 DEF CountInv, CountMatches
  <2> QED BY <2>6, <2>7, <2>8, <2>9 DEF CountInv
<1>6. ASSUME NEW m \in prepared_msgs, ProcessPrepared(m) PROVE CountInv'
  <2>1. m \in PreparedTransfer
    BY <1>typed DEF TypeOK
  <2>2. \A amount \in Amounts \cup {0} : FinalizeSignal(m, amount) \in FinalizeTransferSignal
    BY <2>1 DEF PreparedTransfer, FinalizeTransferSignal, FinalizeSignal
  <2>3. CASE DismissUnmatched(m)
    <3>1. RestTyped' /\ UNCHANGED <<debtor, running_transfer, cr_seq>>
      BY <1>6, <2>2, <2>3, <1>typed DEF RestTyped, ProcessPrepared, DismissUnmatched, authorityVars
    <3> QED BY <3>1, RowsUntouched
  <2>4. ASSUME NEW r \in Find(m),
               running_transfer' = Update(r, Settle(r, m)),
               finalize_signals' = finalize_signals \cup {FinalizeSignal(m, AmountToCommit(r, m))}
        PROVE CountInv'
    <3>1. r \in running_transfer /\ r \in RunningTransfer
      BY <1>typed DEF Find, TypeOK
    <3>2. AmountToCommit(r, m) \in Amounts \cup {0}
      BY <3>1 DEF AmountToCommit, RunningTransfer
    <3>3. RestTyped'
      BY <1>6, <2>2, <2>4, <3>2, <1>typed DEF RestTyped, ProcessPrepared, authorityVars
    <3>4. UNCHANGED <<debtor, cr_seq>>
      BY <1>6 DEF ProcessPrepared
    <3> QED BY <2>1, <2>4, <3>1, <3>3, <3>4, SettleKeepsTerms, RowUpdate
  <2> QED BY <1>6, <2>3, <2>4 DEF ProcessPrepared
<1>7. ASSUME NEW m \in rejected_msgs, ProcessRejected(m) PROVE CountInv'
  <2> DEFINE code(r) == IF m.status_code # SC_OK /\ r.debtor_id = m.account
                        THEN m.status_code ELSE SC_UNEXPECTED_ERROR
  <2>1. PICK r \in Find(m) : running_transfer' = Update(r, Finalize(r, code(r)))
    BY <1>7 DEF ProcessRejected
  <2>2. r \in running_transfer /\ r \in RunningTransfer
    BY <1>typed DEF Find, TypeOK
  <2>3. code(r) \in ErrorCodes
    BY <1>typed DEF TypeOK, RejectedTransfer, StatusCodes, ErrorCodes
  <2>4. RestTyped' /\ UNCHANGED <<debtor, cr_seq>>
    BY <1>7, <1>typed DEF RestTyped, ProcessRejected, signalVars, authorityVars
  <2> QED BY <2>1, <2>2, <2>3, <2>4, FinalizeKeepsTerms, RowUpdate
<1>8. ASSUME NEW m \in finalized_msgs, ProcessFinalized(m) PROVE CountInv'
  <2>1. PICK r \in Find(m) : running_transfer' = Update(r, Finalize(r, OutcomeOf(r, m)))
    BY <1>8 DEF ProcessFinalized
  <2>2. r \in running_transfer /\ r \in RunningTransfer
    BY <1>typed DEF Find, TypeOK
  <2>3. OutcomeOf(r, m) \in ErrorCodes \cup {NoError}
    BY <1>typed DEF TypeOK, FinalizedTransfer, StatusCodes, ErrorCodes, OutcomeOf
  <2>4. RestTyped' /\ UNCHANGED <<debtor, cr_seq>>
    BY <1>8, <1>typed DEF RestTyped, ProcessFinalized, signalVars, authorityVars
  <2> QED BY <2>1, <2>2, <2>3, <2>4, FinalizeKeepsTerms, RowUpdate
<1>9. ASSUME NEW p \in prepare_signals, NEW account \in Accounts, NEW t \in TransferIds,
             NEW locked \in Amounts, NEW recipient \in Recipients,
             AuthorityPrepares(p, account, t, locked, recipient)
      PROVE CountInv'
  <2>1. RestTyped' /\ UNCHANGED <<debtor, running_transfer, cr_seq>>
    BY <1>9, <1>typed DEF RestTyped, AuthorityPrepares, PrepareTransferSignal,
                          PreparedTransfer, LedgerEntry, signalVars
  <2> QED BY <2>1, RowsUntouched
<1>10. ASSUME NEW p \in prepare_signals, NEW account \in Accounts, NEW code \in StatusCodes,
              AuthorityRejects(p, account, code)
       PROVE CountInv'
  <2>1. RestTyped' /\ UNCHANGED <<debtor, running_transfer, cr_seq>>
    BY <1>10, <1>typed DEF RestTyped, AuthorityRejects, PrepareTransferSignal,
                           RejectedTransfer, signalVars
  <2> QED BY <2>1, RowsUntouched
<1>11. ASSUME NEW s \in finalize_signals, NEW e \in ledger,
              NEW committed \in Amounts \cup {0}, NEW code \in StatusCodes,
              AuthorityFinalizes(s, e, committed, code)
       PROVE CountInv'
  <2> DEFINE amount == IF code = SC_OK THEN s.committed_amount ELSE 0
             final == [e EXCEPT !.state = "finalized"]
  <2>1. e \in LedgerEntry /\ s \in FinalizeTransferSignal /\ amount \in Amounts \cup {0}
    BY <1>typed DEF TypeOK, FinalizeTransferSignal
  <2>2. final \in LedgerEntry
    BY <2>1 DEF LedgerEntry
  <2>3. [final EXCEPT !.issued = amount] \in LedgerEntry
    BY <2>1, <2>2 DEF LedgerEntry
  <2>4. ledger' \subseteq LedgerEntry
    BY <1>11, <1>typed, <2>3 DEF AuthorityFinalizes, TypeOK
  <2>5. finalized_msgs' \subseteq FinalizedTransfer
    BY <1>11, <1>typed, <2>1 DEF AuthorityFinalizes, TypeOK, LedgerEntry, FinalizedTransfer
  <2>6. RestTyped' /\ UNCHANGED <<debtor, running_transfer, cr_seq>>
    BY <1>11, <1>typed, <2>4, <2>5 DEF RestTyped, AuthorityFinalizes, signalVars
  <2> QED BY <2>6, RowsUntouched
<1>12. CASE UNCHANGED vars
  <2>1. RestTyped' /\ UNCHANGED <<debtor, running_transfer, cr_seq>>
    BY <1>12, <1>typed DEF RestTyped, vars, signalVars, authorityVars
  <2> QED BY <2>1, RowsUntouched
<1> QED
  BY <1>1, <1>2, <1>3, <1>4, <1>5, <1>6, <1>7, <1>8, <1>9, <1>10, <1>11, <1>12
  DEF Next, ProcessSomePrepared, ProcessSomeRejected, ProcessSomeFinalized,
      AuthorityAnswers, AuthorityAnswer, AuthorityFinalizesSome

\* Every reachable table, signal and message has the shape the code declares.
THEOREM TypeCorrect == Spec => []TypeOK
<1>1. CountInv => TypeOK
  BY DEF CountInv
<1> QED BY <1>1, CountInvInit, CountInvStep, PTL DEF Spec

\* running_transfers_count is the number of the debtor's rows, in every
\* reachable state: initiating, deleting and deactivating keep them in step.
THEOREM CountCorrect == Spec => []CountMatches
<1>1. CountInv => CountMatches
  BY DEF CountInv
<1> QED BY <1>1, CountInvInit, CountInvStep, PTL DEF Spec

-----------------------------------------------------------------------------
(* Commitment: whatever the authority answers, and however often, a        *)
(* cancelled transfer is never committed and no request is committed twice *)

\* Nothing mentions a request that has not been drawn from the sequence yet.
Drawn ==
  /\ \A s \in prepare_signals : s.coordinator_request_id <= cr_seq
  /\ \A m \in prepared_msgs : m.coordinator_request_id <= cr_seq
  /\ \A s \in finalize_signals : s.coordinator_request_id <= cr_seq
  /\ \A q \in cancelled : q <= cr_seq

Commits(s) == s.committed_amount > 0

\* While its row exists, a committed request is settled with the transfer
\* that has been committed.
CommitsSettled ==
  \A s \in finalize_signals, r \in running_transfer :
    Commits(s) /\ r.coordinator_request_id = s.coordinator_request_id
      => r.transfer_id = s.transfer_id

\* While its row exists, a cancelled request has a result and is not settled,
\* so that no PreparedTransfer can settle it.
CancelledUnsettled ==
  \A r \in running_transfer :
    r.coordinator_request_id \in cancelled => r.finalized /\ ~IsSettled(r)

CommitsNotCancelled ==
  \A s \in finalize_signals : Commits(s) => s.coordinator_request_id \notin cancelled

CommitParts == CommitsSettled /\ CancelledUnsettled /\ CommitsNotCancelled /\ AtMostOneCommit

CommitInv == CountInv /\ Drawn /\ CommitParts

LEMMA CommitInvInit == Init => CommitInv
<1> SUFFICES ASSUME Init PROVE CommitInv
  OBVIOUS
<1>1. Drawn /\ CommitParts
  BY DEF Init, Drawn, CommitParts, CommitsSettled, CancelledUnsettled,
         CommitsNotCancelled, AtMostOneCommit
<1> QED BY <1>1, CountInvInit DEF CommitInv

\* Removing rows and leaving signals and cancellations alone disturbs nothing.
LEMMA FewerRows ==
  ASSUME CommitParts, running_transfer' \subseteq running_transfer,
         UNCHANGED <<finalize_signals, cancelled>>
  PROVE  CommitParts'
BY DEF CommitParts, CommitsSettled, CancelledUnsettled, CommitsNotCancelled,
       AtMostOneCommit, IsSettled, Commits

\* Finalizing a row leaves it as settled as it was.
LEMMA FinalizedRow ==
  ASSUME CommitInv, NEW r \in running_transfer, NEW code \in ErrorCodes \cup {NoError},
         running_transfer' = Update(r, Finalize(r, code)),
         UNCHANGED <<finalize_signals, cancelled>>
  PROVE  CommitParts'
<1> DEFINE n == Finalize(r, code)
<1>1. r \in RunningTransfer
  BY DEF CommitInv, CountInv, TypeOK
<1>2. /\ n.coordinator_request_id = r.coordinator_request_id
      /\ n.transfer_id = r.transfer_id
      /\ n.finalized
  BY <1>1 DEF Finalize, RunningTransfer
<1>3. running_transfer' = (running_transfer \ {r}) \cup {n}
  BY DEF Update
<1> HIDE DEF n
<1>4. CommitsSettled'
  BY <1>2, <1>3 DEF CommitInv, CommitParts, CommitsSettled, Commits
<1>5. CancelledUnsettled'
  BY <1>2, <1>3 DEF CommitInv, CommitParts, CancelledUnsettled, IsSettled
<1> QED
  BY <1>4, <1>5 DEF CommitInv, CommitParts, CommitsNotCancelled, AtMostOneCommit, Commits

LEMMA CommitInvStep == CommitInv /\ [Next]_vars => CommitInv'
<1> SUFFICES ASSUME CommitInv, [Next]_vars PROVE Drawn' /\ CommitParts'
  BY CountInvStep DEF CommitInv
<1>typed. TypeOK /\ TypeOK' /\ Identified
  BY CountInvStep DEF CommitInv, CountInv
<1>1. ASSUME NEW d \in Debtors, ActivateDebtor(d) \/ DeactivateDebtor(d)
      PROVE Drawn' /\ CommitParts'
  <2>1. Drawn'
    BY <1>1 DEF CommitInv, Drawn, ActivateDebtor, DeactivateDebtor, signalVars, authorityVars
  <2>2. /\ running_transfer' \subseteq running_transfer
        /\ UNCHANGED <<finalize_signals, cancelled>>
    BY <1>1 DEF ActivateDebtor, DeactivateDebtor, signalVars
  <2> QED BY <2>1, <2>2, FewerRows DEF CommitInv
<1>2. ASSUME NEW d \in Debtors, NEW uuid \in Uuids, NEW amount \in Amounts,
             NEW recipient \in Recipients, NEW elapsed \in BOOLEAN,
             InitiateTransfer(d, uuid, amount, recipient, elapsed)
      PROVE Drawn' /\ CommitParts'
  <2> DEFINE row == [debtor_id |-> d, transfer_uuid |-> uuid,
                     coordinator_request_id |-> cr_seq', amount |-> amount,
                     recipient |-> recipient, transfer_id |-> NoTransferId,
                     finalized |-> FALSE, error_code |-> NoError]
             signal == [debtor_id |-> d, coordinator_request_id |-> cr_seq',
                        amount |-> amount, recipient |-> recipient]
  <2>1. /\ running_transfer' = running_transfer \cup {row}
        /\ prepare_signals' = prepare_signals \cup {signal}
        /\ cr_seq' = cr_seq + 1
        /\ UNCHANGED <<prepared_msgs, finalize_signals, cancelled>>
    BY <1>2 DEF InitiateTransfer, authorityVars
  <2>2. row.coordinator_request_id = cr_seq + 1 /\ signal.coordinator_request_id = cr_seq + 1
    BY <2>1
  <2>3. /\ cr_seq \in Int
        /\ \A s \in prepare_signals : s.coordinator_request_id \in Int
        /\ \A m \in prepared_msgs : m.coordinator_request_id \in Int
        /\ \A s \in finalize_signals : s.coordinator_request_id \in Int
        /\ \A q \in cancelled : q \in Int
    BY <1>typed, BoundsAssumption
    DEF TypeOK, Requests, PrepareTransferSignal, PreparedTransfer, FinalizeTransferSignal
  <2> HIDE DEF row, signal
  <2>4. Drawn'
    BY <2>1, <2>2, <2>3 DEF CommitInv, Drawn
  <2>5. /\ \A s \in finalize_signals : s.coordinator_request_id # row.coordinator_request_id
        /\ row.coordinator_request_id \notin cancelled
    BY <2>2, <2>3 DEF CommitInv, Drawn
  <2>6. CommitParts'
    BY <2>1, <2>5 DEF CommitInv, CommitParts, CommitsSettled, CancelledUnsettled,
                      CommitsNotCancelled, AtMostOneCommit, IsSettled, Commits
  <2> QED BY <2>4, <2>6
<1>3. ASSUME NEW r \in running_transfer, CancelTransfer(r) PROVE Drawn' /\ CommitParts'
  <2> DEFINE n == Finalize(r, SC_CANCELED_BY_THE_SENDER)
             q == r.coordinator_request_id
  <2>1. r \in RunningTransfer /\ r.transfer_id = NoTransferId
    BY <1>3, <1>typed DEF TypeOK, CancelTransfer, IsSettled
  <2>2. n.coordinator_request_id = q /\ n.transfer_id = NoTransferId /\ n.finalized
    BY <2>1 DEF Finalize, RunningTransfer
  <2>3. /\ running_transfer' = (running_transfer \ {r}) \cup {n}
        /\ cancelled' = cancelled \cup {q}
        /\ UNCHANGED <<cr_seq, prepare_signals, prepared_msgs, finalize_signals>>
    BY <1>3 DEF CancelTransfer, Update, signalVars, authorityVars
  <2> HIDE DEF n
  \* A commit would have settled the row.
  <2>4. \A s \in finalize_signals : Commits(s) => s.coordinator_request_id # q
    BY <2>1, <1>typed, NullsAssumption
    DEF CommitInv, CommitParts, CommitsSettled, TypeOK, FinalizeTransferSignal
  <2>5. Drawn'
    BY <2>3, <1>typed DEF CommitInv, Drawn, Identified
  <2>6. CommitsSettled' /\ AtMostOneCommit'
    BY <2>1, <2>2, <2>3 DEF CommitInv, CommitParts, CommitsSettled, AtMostOneCommit, Commits
  <2>7. CancelledUnsettled'
    BY <2>2, <2>3, <1>typed
    DEF CommitInv, CommitParts, CancelledUnsettled, IsSettled, Identified
  <2>8. CommitsNotCancelled'
    BY <2>3, <2>4 DEF CommitInv, CommitParts, CommitsNotCancelled, Commits
  <2> QED BY <2>5, <2>6, <2>7, <2>8 DEF CommitParts
<1>4. ASSUME NEW r \in running_transfer, DeleteTransfer(r) PROVE Drawn' /\ CommitParts'
  <2>1. Drawn'
    BY <1>4 DEF CommitInv, Drawn, DeleteTransfer, signalVars, authorityVars
  <2>2. /\ running_transfer' \subseteq running_transfer
        /\ UNCHANGED <<finalize_signals, cancelled>>
    BY <1>4 DEF DeleteTransfer, signalVars
  <2> QED BY <2>1, <2>2, FewerRows DEF CommitInv
<1>5. ASSUME NEW m \in prepared_msgs, ProcessPrepared(m) PROVE Drawn' /\ CommitParts'
  <2>1. PICK amount \in Amounts \cup {0} :
          finalize_signals' = finalize_signals \cup {FinalizeSignal(m, amount)}
    BY <1>5, <1>typed
    DEF ProcessPrepared, DismissUnmatched, AmountToCommit, Find, TypeOK, RunningTransfer
  <2>2. Drawn'
    BY <1>5, <2>1 DEF CommitInv, Drawn, ProcessPrepared, FinalizeSignal, authorityVars
  <2>3. UNCHANGED cancelled
    BY <1>5 DEF ProcessPrepared
  <2>4. CASE DismissUnmatched(m)
    <3>1. ~Commits(FinalizeSignal(m, 0))
      BY DEF Commits, FinalizeSignal
    <3>2. /\ finalize_signals' = finalize_signals \cup {FinalizeSignal(m, 0)}
          /\ UNCHANGED running_transfer
      BY <2>4 DEF DismissUnmatched
    <3>3. CommitParts'
      BY <3>1, <3>2, <2>3
      DEF CommitInv, CommitParts, CommitsSettled, CancelledUnsettled,
          CommitsNotCancelled, AtMostOneCommit, Commits, IsSettled
    <3> QED BY <2>2, <3>3
  <2>5. ASSUME NEW r \in Find(m),
               running_transfer' = Update(r, Settle(r, m)),
               finalize_signals' = finalize_signals \cup {FinalizeSignal(m, AmountToCommit(r, m))}
        PROVE  CommitParts'
    <3> DEFINE n == Settle(r, m)
               new == FinalizeSignal(m, AmountToCommit(r, m))
               q == r.coordinator_request_id
    <3>1. /\ r \in running_transfer /\ r \in RunningTransfer
          /\ m.transfer_id \in TransferIds /\ m.coordinator_request_id = q
      BY <1>typed DEF Find, TypeOK, PreparedTransfer
    <3>2. /\ n.coordinator_request_id = q /\ n.finalized = r.finalized
          /\ IsSettled(r) => n = r
          /\ r.finalized => n = r
      BY <3>1 DEF Settle, RunningTransfer
    <3>3. /\ new.coordinator_request_id = q /\ new.transfer_id = m.transfer_id
          /\ Commits(new) => n.transfer_id = m.transfer_id
      BY <3>1 DEF FinalizeSignal, AmountToCommit, Commits
    <3>4. /\ running_transfer' = (running_transfer \ {r}) \cup {n}
          /\ finalize_signals' = finalize_signals \cup {new}
      BY <2>5 DEF Update
    <3> HIDE DEF n, new
    \* A request that has been committed before is settled, and stays so.
    <3>5. \A s \in finalize_signals :
            Commits(s) /\ s.coordinator_request_id = q
              => n = r /\ n.transfer_id = s.transfer_id
      BY <3>1, <3>2, <1>typed, NullsAssumption
      DEF CommitInv, CommitParts, CommitsSettled, TypeOK, FinalizeTransferSignal, IsSettled
    <3>6. q \in cancelled => n = r /\ ~Commits(new)
      BY <3>1, <3>2, <3>3, NullsAssumption
      DEF CommitInv, CommitParts, CancelledUnsettled, IsSettled
    <3>7. CommitsSettled'
      <4>1. \A s \in finalize_signals, x \in running_transfer \ {r} :
              Commits(s) /\ x.coordinator_request_id = s.coordinator_request_id
                => x.transfer_id = s.transfer_id
        BY DEF CommitInv, CommitParts, CommitsSettled
      <4>2. \A x \in running_transfer \ {r} : x.coordinator_request_id # q
        BY <3>1, <1>typed DEF Identified
      <4> QED BY <3>2, <3>3, <3>4, <3>5, <4>1, <4>2 DEF CommitsSettled, Commits
    <3>8. CancelledUnsettled'
      BY <2>3, <3>1, <3>2, <3>4, <3>6
      DEF CommitInv, CommitParts, CancelledUnsettled, IsSettled
    <3>9. CommitsNotCancelled'
      BY <2>3, <3>3, <3>4, <3>6 DEF CommitInv, CommitParts, CommitsNotCancelled, Commits
    <3>10. \A s \in finalize_signals :
             Commits(s) /\ Commits(new) /\ s.coordinator_request_id = q
               => s.transfer_id = new.transfer_id
      BY <3>3, <3>5
    <3>11. AtMostOneCommit'
      <4> SUFFICES ASSUME NEW s1 \in finalize_signals', NEW s2 \in finalize_signals',
                          s1.coordinator_id = s2.coordinator_id,
                          s1.coordinator_request_id = s2.coordinator_request_id,
                          Commits(s1), Commits(s2)
                   PROVE  s1.transfer_id = s2.transfer_id
        BY DEF AtMostOneCommit, Commits
      <4>1. CASE s1 \in finalize_signals /\ s2 \in finalize_signals
        BY <4>1 DEF CommitInv, CommitParts, AtMostOneCommit, Commits
      <4>2. CASE s1 = new \/ s2 = new
        BY <3>3, <3>4, <3>10, <4>2
      <4> QED BY <3>4, <4>1, <4>2
    <3> QED BY <3>7, <3>8, <3>9, <3>11 DEF CommitParts
  <2> QED BY <1>5, <2>2, <2>4, <2>5 DEF ProcessPrepared
<1>6. ASSUME NEW m \in rejected_msgs, ProcessRejected(m) PROVE Drawn' /\ CommitParts'
  <2> DEFINE code(r) == IF m.status_code # SC_OK /\ r.debtor_id = m.account
                        THEN m.status_code ELSE SC_UNEXPECTED_ERROR
  <2>1. PICK r \in Find(m) : running_transfer' = Update(r, Finalize(r, code(r)))
    BY <1>6 DEF ProcessRejected
  <2>2. r \in running_transfer /\ code(r) \in ErrorCodes
    BY <1>typed DEF Find, TypeOK, RejectedTransfer, StatusCodes, ErrorCodes
  <2>3. UNCHANGED <<finalize_signals, cancelled>> /\ Drawn'
    BY <1>6 DEF CommitInv, Drawn, ProcessRejected, signalVars, authorityVars
  <2> QED BY <2>1, <2>2, <2>3, FinalizedRow
<1>7. ASSUME NEW m \in finalized_msgs, ProcessFinalized(m) PROVE Drawn' /\ CommitParts'
  <2>1. PICK r \in Find(m) : running_transfer' = Update(r, Finalize(r, OutcomeOf(r, m)))
    BY <1>7 DEF ProcessFinalized
  <2>2. r \in running_transfer /\ OutcomeOf(r, m) \in ErrorCodes \cup {NoError}
    BY <1>typed DEF Find, TypeOK, FinalizedTransfer, StatusCodes, ErrorCodes, OutcomeOf
  <2>3. UNCHANGED <<finalize_signals, cancelled>> /\ Drawn'
    BY <1>7 DEF CommitInv, Drawn, ProcessFinalized, signalVars, authorityVars
  <2> QED BY <2>1, <2>2, <2>3, FinalizedRow
<1>8. ASSUME NEW p \in prepare_signals, NEW account \in Accounts, NEW t \in TransferIds,
             NEW locked \in Amounts, NEW recipient \in Recipients,
             AuthorityPrepares(p, account, t, locked, recipient)
      PROVE Drawn' /\ CommitParts'
  <2>1. Drawn'
    BY <1>8 DEF CommitInv, Drawn, AuthorityPrepares, signalVars
  <2>2. UNCHANGED <<running_transfer, finalize_signals, cancelled>>
    BY <1>8 DEF AuthorityPrepares, signalVars
  <2> QED BY <2>1, <2>2, FewerRows DEF CommitInv
<1>9. ASSUME UNCHANGED <<running_transfer, cr_seq, prepare_signals, finalize_signals,
                         prepared_msgs, cancelled>>
      PROVE Drawn' /\ CommitParts'
  BY <1>9, FewerRows DEF CommitInv, Drawn
<1>10. ASSUME NEW p \in prepare_signals, NEW account \in Accounts, NEW code \in StatusCodes,
              AuthorityRejects(p, account, code)
       PROVE Drawn' /\ CommitParts'
  BY <1>9, <1>10 DEF AuthorityRejects, signalVars
<1>11. ASSUME NEW s \in finalize_signals, NEW e \in ledger,
              NEW committed \in Amounts \cup {0}, NEW code \in StatusCodes,
              AuthorityFinalizes(s, e, committed, code)
       PROVE Drawn' /\ CommitParts'
  BY <1>9, <1>11 DEF AuthorityFinalizes, signalVars
<1>12. CASE UNCHANGED vars
  BY <1>9, <1>12 DEF vars, signalVars, authorityVars
<1> QED
  BY <1>1, <1>2, <1>3, <1>4, <1>5, <1>6, <1>7, <1>8, <1>10, <1>11, <1>12
  DEF Next, ProcessSomePrepared, ProcessSomeRejected, ProcessSomeFinalized,
      AuthorityAnswers, AuthorityAnswer, AuthorityFinalizesSome

\* A confirmed cancellation is final: no money is ever authorised for the
\* request, in whatever order messages arrive and whether or not its row is
\* deleted afterwards.
THEOREM CancellationHolds == Spec => []CancelledNeverCommitted
<1>1. CommitInv => CancelledNeverCommitted
  BY DEF CommitInv, CommitParts, CommitsNotCancelled, CancelledNeverCommitted,
         CommitSignals, Commits
<1> QED BY <1>1, CommitInvInit, CommitInvStep, PTL DEF Spec

\* No request is committed with two different transfers, however many
\* PreparedTransfer messages the authority sends for it.
THEOREM CommittedOnce == Spec => []AtMostOneCommit
<1>1. CommitInv => AtMostOneCommit
  BY DEF CommitInv, CommitParts
<1> QED BY <1>1, CommitInvInit, CommitInvStep, PTL DEF Spec
=============================================================================
