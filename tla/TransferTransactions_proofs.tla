--------------------- MODULE TransferTransactions_proofs ----------------------
(***************************************************************************)
(* The transactions of TransferTransactions are serializable, for any      *)
(* number of workers, debtors and requests, and for an authority that      *)
(* answers as it likes: their steps are steps of IssuingTransfers.  The    *)
(* invariant says what a transaction may rely on when it commits: what it  *)
(* read, and nobody has changed since, is what the tables still hold; of   *)
(* the other rows it read, only some columns can have changed.             *)
(***************************************************************************)
EXTENDS TransferTransactions, IssuingOutcomes_proofs

-----------------------------------------------------------------------------
(* Facts about IssuingTransfers that the transactions rely on              *)

\* The row has been settled by a PreparedTransfer, and its amount committed.
SettledSignal(r) ==
  [account |-> r.debtor_id, transfer_id |-> r.transfer_id, coordinator_id |-> r.debtor_id,
   coordinator_request_id |-> r.coordinator_request_id, committed_amount |-> r.amount]

SettledTold == \A r \in running_transfer : IsSettled(r) => SettledSignal(r) \in finalize_signals

RowsInv == CommitInv /\ SettledTold

\* What can become of a row: its terms stay; a transfer_id, once there, stays,
\* and so does the lack of one when the row is finalized.
Evolves(r, n) ==
  /\ Key(n) = Key(r) /\ n.amount = r.amount /\ n.recipient = r.recipient
  /\ IsSettled(r) \/ r.finalized => n.transfer_id = r.transfer_id
  /\ r.finalized => n.finalized

LEMMA RowsTyped ==
  ASSUME CommitInv
  PROVE  /\ TypeOK /\ RestTyped /\ Identified /\ Drawn
         /\ cr_seq \in Nat
         /\ \A r \in running_transfer : r \in RunningTransfer
         /\ \A r \in RunningTransfer : /\ r.coordinator_request_id \in Nat \ {0}
                                       /\ r.debtor_id \in Debtors
                                       /\ r.finalized \in BOOLEAN
<1>1. TypeOK /\ Identified /\ Drawn
  BY DEF CommitInv, CountInv
<1> QED
  BY <1>1, BoundsAssumption DEF TypeOK, RestTyped, RunningTransfer, Requests

LEMMA FinalizeEvolves ==
  ASSUME NEW r \in RunningTransfer, NEW code
  PROVE  Evolves(r, Finalize(r, code))
BY DEF RunningTransfer, Finalize, Evolves, Key, IsSettled

LEMMA SettleEvolves ==
  ASSUME NEW r \in RunningTransfer, NEW m
  PROVE  Evolves(r, Settle(r, m))
BY DEF RunningTransfer, Settle, Evolves, Key, IsSettled

LEMMA StaysEvolves ==
  ASSUME NEW r
  PROVE  Evolves(r, r)
BY DEF Evolves

\* Every row of the next state is new, or a later version of one of this state.
LEMMA RowsEvolve ==
  ASSUME CommitInv, [Next]_vars, NEW n \in running_transfer'
  PROVE  \/ n.coordinator_request_id = cr_seq + 1
         \/ \E r \in running_transfer : Evolves(r, n)
<1> DEFINE Goal == \/ n.coordinator_request_id = cr_seq + 1
                   \/ \E r \in running_transfer : Evolves(r, n)
<1>1. ASSUME running_transfer' \subseteq running_transfer PROVE Goal
  BY <1>1, StaysEvolves
<1>2. ASSUME NEW old \in running_transfer, NEW new, Evolves(old, new),
             running_transfer' = Update(old, new)
      PROVE  Goal
  BY <1>2, StaysEvolves DEF Update
<1>3. \A r \in running_transfer : r \in RunningTransfer
  BY RowsTyped
<1>4. ASSUME NEW d \in Debtors, NEW uuid, NEW amount, NEW recipient, NEW elapsed,
             InitiateTransfer(d, uuid, amount, recipient, elapsed)
      PROVE  Goal
  <2>1. n \in running_transfer \/ n.coordinator_request_id = cr_seq + 1
    BY <1>4 DEF InitiateTransfer
  <2> QED
    BY <2>1, StaysEvolves
<1>5. ASSUME NEW r \in running_transfer, CancelTransfer(r) PROVE Goal
  BY <1>2, <1>3, <1>5, FinalizeEvolves DEF CancelTransfer
<1>6. ASSUME NEW m \in prepared_msgs, ProcessPrepared(m) PROVE Goal
  <2>1. CASE DismissUnmatched(m)
    BY <1>1, <2>1 DEF DismissUnmatched
  <2>2. ASSUME NEW r \in Find(m), running_transfer' = Update(r, Settle(r, m)) PROVE Goal
    BY <1>2, <1>3, <2>2, SettleEvolves DEF Find
  <2> QED
    BY <1>6, <2>1, <2>2 DEF ProcessPrepared
<1>7. ASSUME NEW m, ProcessRejected(m) PROVE Goal
  BY <1>2, <1>3, <1>7, FinalizeEvolves DEF ProcessRejected, Find
<1>8. ASSUME NEW m, ProcessFinalized(m) PROVE Goal
  BY <1>2, <1>3, <1>8, FinalizeEvolves DEF ProcessFinalized, Find
<1> HIDE DEF Goal
<1>9. Goal
  BY <1>1, <1>4, <1>5, <1>6, <1>7, <1>8
  DEF Next, ActivateDebtor, DeactivateDebtor, DeleteTransfer,
      ProcessSomePrepared, ProcessSomeRejected, ProcessSomeFinalized, AuthorityAnswers,
      AuthorityAnswer, AuthorityPrepares, AuthorityRejects, AuthorityFinalizesSome,
      AuthorityFinalizes, vars
<1> QED
  BY <1>9 DEF Goal

\* A new row changes the row of its debtor, and signals are never taken back.
LEMMA OthersEvolve ==
  ASSUME CommitInv, [Next]_vars
  PROVE  /\ finalize_signals \subseteq finalize_signals'
         /\ prepared_msgs \subseteq prepared_msgs' /\ rejected_msgs \subseteq rejected_msgs'
         /\ finalized_msgs \subseteq finalized_msgs'
         /\ cr_seq' \in {cr_seq, cr_seq + 1}
         /\ \A n \in running_transfer' :
              n.coordinator_request_id = cr_seq + 1 => debtor'[n.debtor_id] # debtor[n.debtor_id]
<1> DEFINE Fresh(n) == n.coordinator_request_id = cr_seq + 1
           Grow == /\ prepared_msgs \subseteq prepared_msgs'
                   /\ rejected_msgs \subseteq rejected_msgs'
                   /\ finalized_msgs \subseteq finalized_msgs'
           Goal == /\ finalize_signals \subseteq finalize_signals' /\ Grow
                   /\ cr_seq' \in {cr_seq, cr_seq + 1}
                   /\ \A n \in running_transfer' :
                        Fresh(n) => debtor'[n.debtor_id] # debtor[n.debtor_id]
<1>1. \A r \in running_transfer : ~Fresh(r)
  BY RowsTyped DEF Identified
<1>2. ASSUME \A n \in running_transfer' : \E r \in running_transfer : Key(n) = Key(r)
      PROVE  \A n \in running_transfer' : ~Fresh(n)
  BY <1>1, <1>2 DEF Key
<1>3. ASSUME NEW old \in running_transfer, NEW new, Evolves(old, new),
             running_transfer' = Update(old, new)
      PROVE  \A n \in running_transfer' : ~Fresh(n)
  BY <1>1, <1>3 DEF Update, Evolves, Key
<1>4. ASSUME NEW d \in Debtors, NEW uuid, NEW amount, NEW recipient, NEW elapsed,
             InitiateTransfer(d, uuid, amount, recipient, elapsed)
      PROVE  Goal
  <2>1. /\ debtor' = [debtor EXCEPT ![d] = Counted(Throttled(@, elapsed))]
        /\ cr_seq' = cr_seq + 1 /\ UNCHANGED <<finalize_signals, authorityVars>>
        /\ \A n \in running_transfer' : n \in running_transfer \/ n.debtor_id = d
    BY <1>4 DEF InitiateTransfer
  <2>2. debtor \in [Debtors -> DebtorRow] /\ debtor[d] \in DebtorRow
    BY RowsTyped DEF TypeOK
  <2>3. Counted(Throttled(debtor[d], elapsed)).running_transfers_count
          = debtor[d].running_transfers_count + 1
    BY <2>2 DEF Counted, Throttled, DebtorRow
  <2>4. debtor'[d] # debtor[d]
    BY <2>1, <2>2, <2>3 DEF DebtorRow
  <2> QED
    BY <1>1, <2>1, <2>4 DEF authorityVars
<1>5. \A r \in running_transfer : r \in RunningTransfer
  BY RowsTyped
<1>6. ASSUME NEW r \in running_transfer, CancelTransfer(r) PROVE Goal
  BY <1>3, <1>5, <1>6, FinalizeEvolves DEF CancelTransfer, signalVars, authorityVars
<1>7. ASSUME NEW m \in prepared_msgs, ProcessPrepared(m) PROVE Goal
  <2>1. CASE DismissUnmatched(m)
    BY <1>1, <1>7, <2>1 DEF DismissUnmatched, ProcessPrepared, authorityVars
  <2>2. ASSUME NEW r \in Find(m), running_transfer' = Update(r, Settle(r, m))
        PROVE  \A n \in running_transfer' : ~Fresh(n)
    BY <1>3, <1>5, <2>2, SettleEvolves DEF Find
  <2> QED
    BY <1>7, <2>1, <2>2 DEF ProcessPrepared, authorityVars
<1>8. ASSUME NEW m, ProcessRejected(m) PROVE Goal
  BY <1>3, <1>5, <1>8, FinalizeEvolves DEF ProcessRejected, Find, signalVars, authorityVars
<1>9. ASSUME NEW m, ProcessFinalized(m) PROVE Goal
  BY <1>3, <1>5, <1>9, FinalizeEvolves DEF ProcessFinalized, Find, signalVars, authorityVars
<1>10. ASSUME running_transfer' \subseteq running_transfer, cr_seq' = cr_seq,
              finalize_signals' = finalize_signals, Grow
       PROVE  Goal
  BY <1>1, <1>10
<1> HIDE DEF Goal
<1>11. Goal
  BY <1>4, <1>6, <1>7, <1>8, <1>9, <1>10
  DEF Next, ActivateDebtor, DeactivateDebtor, DeleteTransfer, signalVars, authorityVars,
      ProcessSomePrepared, ProcessSomeRejected, ProcessSomeFinalized, AuthorityAnswers,
      AuthorityAnswer, AuthorityPrepares, AuthorityRejects, AuthorityFinalizesSome,
      AuthorityFinalizes, vars
<1> QED
  BY <1>11 DEF Goal

LEMMA SettledToldStep ==
  ASSUME RowsInv, [Next]_vars
  PROVE  SettledTold'
<1>1. /\ \A r \in running_transfer : r \in RunningTransfer
      /\ \A m \in prepared_msgs : m \in PreparedTransfer
      /\ CommitInv /\ SettledTold
  BY RowsTyped DEF RowsInv, RestTyped
<1>3. finalize_signals \subseteq finalize_signals'
  BY <1>1, OthersEvolve
<1>2. ASSUME NEW n, \A x \in running_transfer' : x \in running_transfer \/ x = n,
             IsSettled(n) => SettledSignal(n) \in finalize_signals'
      PROVE  SettledTold'
  BY <1>1, <1>2, <1>3 DEF SettledTold, IsSettled, SettledSignal
<1>8. ASSUME running_transfer' \subseteq running_transfer PROVE SettledTold'
  BY <1>1, <1>3, <1>8 DEF SettledTold, IsSettled, SettledSignal
<1>4. ASSUME NEW d \in Debtors, NEW uuid, NEW amount, NEW recipient, NEW elapsed,
             InitiateTransfer(d, uuid, amount, recipient, elapsed)
      PROVE  SettledTold'
  <2> DEFINE row == [debtor_id |-> d, transfer_uuid |-> uuid,
                     coordinator_request_id |-> cr_seq', amount |-> amount,
                     recipient |-> recipient, transfer_id |-> NoTransferId,
                     finalized |-> FALSE, error_code |-> NoError]
  <2>1. running_transfer' = running_transfer \cup {row}
    BY <1>4 DEF InitiateTransfer
  <2>2. ~IsSettled(row)
    BY DEF IsSettled
  <2> HIDE DEF row
  <2> QED
    BY <1>2, <1>3, <2>1, <2>2
<1>5. ASSUME NEW r \in running_transfer, NEW code, running_transfer' = Update(r, Finalize(r, code))
      PROVE  SettledTold'
  <2> DEFINE n == Finalize(r, code)
  <2>0. /\ n.debtor_id = r.debtor_id /\ n.transfer_id = r.transfer_id
        /\ n.coordinator_request_id = r.coordinator_request_id /\ n.amount = r.amount
    BY <1>1 DEF Finalize, RunningTransfer
  <2>1. IsSettled(n) => IsSettled(r) /\ SettledSignal(n) = SettledSignal(r)
    BY <2>0 DEF IsSettled, SettledSignal
  <2>2. IsSettled(n) => SettledSignal(n) \in finalize_signals'
    BY <1>1, <1>3, <2>1 DEF SettledTold
  <2> HIDE DEF n
  <2>3. \A x \in running_transfer' : x \in running_transfer \/ x = n
    BY <1>5 DEF Update, n
  <2> QED
    BY <1>2, <1>3, <2>2, <2>3
<1>6. ASSUME NEW m \in prepared_msgs, ProcessPrepared(m) PROVE SettledTold'
  <2>1. CASE DismissUnmatched(m)
    BY <1>8, <2>1 DEF DismissUnmatched
  <2>2. ASSUME NEW r \in Find(m), PreparedMatches(r, m), running_transfer' = Update(r, Settle(r, m)),
               finalize_signals' =
                 finalize_signals \cup {FinalizeSignal(m, AmountToCommit(r, m))}
        PROVE  SettledTold'
    <3> DEFINE n == Settle(r, m)
    <3>1. r \in running_transfer /\ r \in RunningTransfer /\ r.debtor_id = m.account
          /\ r.debtor_id = m.coordinator_id
          /\ r.coordinator_request_id = m.coordinator_request_id
      BY <1>1, <2>2 DEF Find, PreparedMatches
    <3>2. n = r => (IsSettled(n) => SettledSignal(n) \in finalize_signals')
      <4> HIDE DEF n
      <4> QED
        BY <1>1, <1>3, <3>1 DEF SettledTold
    <3>3. n # r => SettledSignal(n) \in finalize_signals'
      <4> SUFFICES ASSUME n # r PROVE SettledSignal(n) \in finalize_signals'
        OBVIOUS
      <4>1. n = [r EXCEPT !.transfer_id = m.transfer_id]
        BY DEF Settle
      <4>2. /\ n.debtor_id = r.debtor_id /\ n.transfer_id = m.transfer_id
            /\ n.coordinator_request_id = r.coordinator_request_id /\ n.amount = r.amount
        BY <3>1, <4>1 DEF RunningTransfer
      <4>3. AmountToCommit(r, m) = r.amount
        BY <4>2 DEF AmountToCommit
      <4> HIDE DEF n
      <4>4. SettledSignal(n) = FinalizeSignal(m, AmountToCommit(r, m))
        BY <3>1, <4>2, <4>3 DEF SettledSignal, FinalizeSignal
      <4> QED
        BY <2>2, <4>4
    <3> HIDE DEF n
    <3>5. \A x \in running_transfer' : x \in running_transfer \/ x = n
      BY <2>2 DEF Update, n
    <3> QED
      BY <1>2, <3>2, <3>3, <3>5
  <2> QED
    BY <1>6, <2>1, <2>2 DEF ProcessPrepared
<1>7. ASSUME NEW m, ProcessRejected(m) \/ ProcessFinalized(m) PROVE SettledTold'
  BY <1>5, <1>7 DEF ProcessRejected, ProcessFinalized, Find
<1>9. ASSUME NEW r \in running_transfer, CancelTransfer(r) PROVE SettledTold'
  BY <1>5, <1>9 DEF CancelTransfer
<1> QED
  BY <1>4, <1>6, <1>7, <1>8, <1>9
  DEF Next, ActivateDebtor, DeactivateDebtor, DeleteTransfer,
      ProcessSomePrepared, ProcessSomeRejected, ProcessSomeFinalized, AuthorityAnswers,
      AuthorityAnswer, AuthorityPrepares, AuthorityRejects, AuthorityFinalizesSome,
      AuthorityFinalizes, vars

LEMMA RowsInvStep == RowsInv /\ [Next]_vars => RowsInv'
BY CommitInvStep, SettledToldStep DEF RowsInv

LEMMA RowsInvInit == Init => RowsInv
BY CommitInvInit DEF RowsInv, SettledTold, Init

-----------------------------------------------------------------------------
(* What a transaction may rely on                                          *)

Operations == {"initiate", "cancel", "delete", "deactivate", "prepared", "rejected", "finalized"}

Arguments ==
  UNION {[debtor_id : Debtors, transfer_uuid : Uuids, amount : Amounts,
          recipient : Recipients, elapsed : BOOLEAN],
         RunningTransfer, [debtor_id : Debtors],
         PreparedTransfer, RejectedTransfer, FinalizedTransfer}

Keys == Debtors \X Nat

Transaction ==
  [op : Operations, arg : Arguments, rows : SUBSET RunningTransfer,
   debtors : [Debtors -> DebtorRow], held : SUBSET Keys, stale : SUBSET Keys]

TxnTypeOK == txn \in [Workers -> {Idle} \cup Transaction]

\* A row is locked by one transaction at a time.
LocksExclude ==
  \A v, w \in Workers : v # w /\ Busy(v) /\ Busy(w) => txn[v].held \cap txn[w].held = {}

\* What was read, and has not been changed since, is still there; an active
\* debtor whose row has not been changed has no other rows than those read.
FreshIsTrue(w) ==
  /\ \A r \in txn[w].rows : Key(r) \notin txn[w].stale => r \in running_transfer
  /\ \A d \in Debtors :
       txn[w].debtors[d].status = "active" /\ DebtorKey(d) \notin txn[w].stale =>
         /\ debtor[d] = txn[w].debtors[d]
         /\ \A n \in RowsOf(d) : \E r \in txn[w].rows : Key(r) = Key(n)

\* The other rows that were read have evolved, or they are gone.
RowsReadEvolve(w) ==
  \A r \in txn[w].rows :
    /\ r.coordinator_request_id <= cr_seq
    /\ IsSettled(r) => SettledSignal(r) \in finalize_signals
    /\ \A n \in running_transfer : Key(n) = Key(r) => Evolves(r, n)

\* A transaction locks what has not changed, and deactivate_debtor locks only
\* the rows of its debtor.
LocksFresh(w) ==
  /\ txn[w].held \cap txn[w].stale = {}
  /\ txn[w].op = "deactivate" =>
       \A k \in txn[w].held :
         \/ k = DebtorKey(txn[w].arg.debtor_id)
         \/ \E r \in txn[w].rows : r.debtor_id = txn[w].arg.debtor_id /\ k = Key(r)

ArgumentsRight(w) ==
  /\ txn[w].op = "initiate" =>
       /\ txn[w].arg \in [debtor_id : Debtors, transfer_uuid : Uuids, amount : Amounts,
                          recipient : Recipients, elapsed : BOOLEAN]
       /\ txn[w].debtors[txn[w].arg.debtor_id].status = "active"
  /\ txn[w].op = "deactivate" =>
       /\ txn[w].arg \in [debtor_id : Debtors]
       /\ txn[w].debtors[txn[w].arg.debtor_id].status = "active"
  /\ txn[w].op \in {"cancel", "delete"} => txn[w].arg \in txn[w].rows
  /\ txn[w].op = "cancel" => ~IsSettled(txn[w].arg)
  /\ txn[w].op = "prepared" =>
       /\ txn[w].arg \in prepared_msgs
       /\ \A n \in Find(txn[w].arg) : \E r \in txn[w].rows : Key(r) = Key(n)
  /\ txn[w].op = "rejected" => txn[w].arg \in rejected_msgs
  /\ txn[w].op = "finalized" => txn[w].arg \in finalized_msgs

SnapshotInv(w) ==
  FreshIsTrue(w) /\ RowsReadEvolve(w) /\ LocksFresh(w) /\ ArgumentsRight(w)

TxnInv ==
  /\ RowsInv /\ TxnTypeOK /\ LocksExclude
  /\ \A w \in Workers : Busy(w) => SnapshotInv(w)

-----------------------------------------------------------------------------
(* The steps of others                                                     *)

LEMMA EvolvesOn ==
  ASSUME NEW r, NEW x, NEW n, Evolves(r, x), Evolves(x, n)
  PROVE  Evolves(r, n)
BY DEF Evolves, IsSettled

\* What the steps of others do to an open transaction: some rows get stale.
Kept(w, D) ==
  /\ txn'[w].op = txn[w].op /\ txn'[w].arg = txn[w].arg
  /\ txn'[w].rows = txn[w].rows /\ txn'[w].debtors = txn[w].debtors
  /\ txn'[w].held = txn[w].held
  /\ txn'[w].stale = txn[w].stale \cup D

LEMMA SnapshotKept ==
  ASSUME TxnInv, [Next]_vars, NEW w \in Workers, Busy(w), NEW D, Kept(w, D),
         txn[w].held \cap D = {},
         \A r \in running_transfer : r \in running_transfer' \/ Key(r) \in D,
         \A d \in Debtors : \/ debtor'[d] = debtor[d] \/ DebtorKey(d) \in D
                            \/ debtor[d].status # "active"
  PROVE  SnapshotInv(w)'
<1>1. /\ CommitInv /\ Drawn /\ SnapshotInv(w) /\ txn[w] \in Transaction
  <2>1. txn[w] \in Transaction
    BY DEF TxnInv, TxnTypeOK, Busy
  <2> QED
    BY <2>1, RowsTyped DEF TxnInv, RowsInv
<1>2. /\ finalize_signals \subseteq finalize_signals'
      /\ prepared_msgs \subseteq prepared_msgs' /\ rejected_msgs \subseteq rejected_msgs'
      /\ finalized_msgs \subseteq finalized_msgs'
      /\ cr_seq' \in {cr_seq, cr_seq + 1} /\ cr_seq \in Nat
      /\ \A n \in running_transfer' :
           n.coordinator_request_id = cr_seq + 1 => debtor'[n.debtor_id] # debtor[n.debtor_id]
  BY <1>1, OthersEvolve, RowsTyped
<1>3. \A n \in running_transfer' : \/ n.coordinator_request_id = cr_seq + 1
                                   \/ \E r \in running_transfer : Evolves(r, n)
  BY <1>1, RowsEvolve
<1>4. /\ \A r \in txn[w].rows : r.coordinator_request_id \in Nat
      /\ \A m \in prepared_msgs : m.coordinator_request_id \in Nat
  BY <1>1, RowsTyped DEF Transaction, RestTyped, PreparedTransfer, Requests
<1>5. FreshIsTrue(w)'
  <2>1. ASSUME NEW r \in txn'[w].rows, Key(r) \notin txn'[w].stale PROVE r \in running_transfer'
    BY <1>1, <2>1 DEF Kept, SnapshotInv, FreshIsTrue
  <2>2. ASSUME NEW d \in Debtors, txn'[w].debtors[d].status = "active",
               DebtorKey(d) \notin txn'[w].stale
        PROVE  /\ debtor'[d] = txn'[w].debtors[d]
               /\ \A n \in running_transfer' :
                    n.debtor_id = d => \E r \in txn'[w].rows : Key(r) = Key(n)
    <3>1. /\ debtor[d] = txn[w].debtors[d]
          /\ \A n \in RowsOf(d) : \E r \in txn[w].rows : Key(r) = Key(n)
      BY <1>1, <2>2 DEF Kept, SnapshotInv, FreshIsTrue
    <3>2. debtor'[d] = debtor[d]
      BY <2>2, <3>1 DEF Kept
    <3>3. ASSUME NEW n \in running_transfer', n.debtor_id = d
          PROVE  \E r \in txn'[w].rows : Key(r) = Key(n)
      <4>1. PICK x \in running_transfer : Evolves(x, n)
        BY <1>2, <1>3, <3>2, <3>3
      <4>2. x \in RowsOf(d) /\ Key(x) = Key(n)
        BY <3>3, <4>1 DEF Evolves, Key, RowsOf
      <4> QED
        BY <3>1, <4>2 DEF Kept
    <3> QED
      BY <3>1, <3>2, <3>3 DEF Kept
  <2> QED
    BY <2>1, <2>2 DEF FreshIsTrue, RowsOf, Key, DebtorKey
<1>6. RowsReadEvolve(w)'
  <2>1. ASSUME NEW r \in txn[w].rows
        PROVE  /\ r.coordinator_request_id <= cr_seq'
               /\ IsSettled(r) => SettledSignal(r) \in finalize_signals'
               /\ \A n \in running_transfer' : Key(n) = Key(r) => Evolves(r, n)
    <3>1. /\ r.coordinator_request_id <= cr_seq
          /\ IsSettled(r) => SettledSignal(r) \in finalize_signals
          /\ \A n \in running_transfer : Key(n) = Key(r) => Evolves(r, n)
      BY <1>1 DEF SnapshotInv, RowsReadEvolve
    <3>2. ASSUME NEW n \in running_transfer', Key(n) = Key(r) PROVE Evolves(r, n)
      <4>1. n.coordinator_request_id # cr_seq + 1
        BY <1>2, <1>4, <3>1, <3>2 DEF Key
      <4>2. PICK x \in running_transfer : Evolves(x, n)
        BY <1>3, <4>1
      <4>3. Evolves(r, x)
        BY <3>1, <3>2, <4>2 DEF Evolves
      <4> QED
        BY <4>2, <4>3, EvolvesOn
    <3>3. r.coordinator_request_id <= cr_seq'
      BY <1>2, <1>4, <3>1
    <3> QED
      BY <1>2, <3>1, <3>2, <3>3
  <2> QED
    BY <2>1 DEF Kept, RowsReadEvolve, IsSettled, SettledSignal, Evolves, Key
<1>7. LocksFresh(w)'
  BY <1>1 DEF Kept, SnapshotInv, LocksFresh, DebtorKey, Key
<1>8. ArgumentsRight(w)'
  <2>1. ASSUME txn[w].op = "prepared", NEW n \in running_transfer',
               n.debtor_id = txn[w].arg.coordinator_id,
               n.coordinator_request_id = txn[w].arg.coordinator_request_id
        PROVE  \E r \in txn[w].rows : Key(r) = Key(n)
    <3>1. /\ txn[w].arg \in prepared_msgs
          /\ \A x \in Find(txn[w].arg) : \E r \in txn[w].rows : Key(r) = Key(x)
      BY <1>1, <2>1 DEF SnapshotInv, ArgumentsRight
    <3>2. txn[w].arg.coordinator_request_id <= cr_seq
      BY <1>1, <3>1 DEF Drawn
    <3>3. n.coordinator_request_id # cr_seq + 1
      BY <1>2, <1>4, <2>1, <3>1, <3>2
    <3>4. PICK x \in running_transfer : Evolves(x, n)
      BY <1>3, <3>3
    <3>5. x \in Find(txn[w].arg) /\ Key(x) = Key(n)
      BY <2>1, <3>4 DEF Evolves, Key, Find
    <3> QED
      BY <3>1, <3>5
  <2>2. ArgumentsRight(w)
    BY <1>1 DEF SnapshotInv
  <2>3. /\ txn'[w].op = txn[w].op /\ txn'[w].arg = txn[w].arg
        /\ txn'[w].rows = txn[w].rows /\ txn'[w].debtors = txn[w].debtors
    BY DEF Kept
  <2>4. (txn[w].op = "prepared" =>
           /\ txn[w].arg \in prepared_msgs
           /\ \A n \in Find(txn[w].arg) : \E r \in txn[w].rows : Key(r) = Key(n))'
    BY <1>2, <2>1, <2>2, <2>3 DEF ArgumentsRight, Find, Key
  <2>5. (/\ txn[w].op \in {"cancel", "delete"} => txn[w].arg \in txn[w].rows
         /\ txn[w].op = "cancel" => ~IsSettled(txn[w].arg))'
    BY <2>2, <2>3 DEF ArgumentsRight, IsSettled
  <2>6. (/\ txn[w].op = "rejected" => txn[w].arg \in rejected_msgs
         /\ txn[w].op = "finalized" => txn[w].arg \in finalized_msgs)'
    BY <1>2, <2>2, <2>3 DEF ArgumentsRight
  <2>7. (/\ txn[w].op = "initiate" =>
              /\ txn[w].arg \in [debtor_id : Debtors, transfer_uuid : Uuids, amount : Amounts,
                                 recipient : Recipients, elapsed : BOOLEAN]
              /\ txn[w].debtors[txn[w].arg.debtor_id].status = "active"
         /\ txn[w].op = "deactivate" =>
              /\ txn[w].arg \in [debtor_id : Debtors]
              /\ txn[w].debtors[txn[w].arg.debtor_id].status = "active")'
    BY <2>2, <2>3 DEF ArgumentsRight
  <2> QED
    BY <2>4, <2>5, <2>6, <2>7 DEF ArgumentsRight
<1> QED
  BY <1>5, <1>6, <1>7, <1>8 DEF SnapshotInv

-----------------------------------------------------------------------------
(* Committing                                                              *)

\* Writing the changed columns of a row that nobody has changed updates it.
LEMMA WriteSame ==
  ASSUME CommitInv, NEW r
  PROVE  Write(r, r) = running_transfer
<1>1. ASSUME NEW x \in running_transfer
      PROVE  [x EXCEPT !.transfer_id = IF r.transfer_id # r.transfer_id THEN r.transfer_id ELSE @,
                       !.finalized = @ \/ r.finalized # r.finalized,
                       !.error_code = IF r.error_code # r.error_code THEN r.error_code ELSE @] = x
  <2>1. x \in RunningTransfer /\ x.finalized \in BOOLEAN
    BY RowsTyped
  <2>2. (x.finalized \/ r.finalized # r.finalized) = x.finalized
    BY <2>1
  <2> QED
    BY <2>1, <2>2 DEF RunningTransfer
<1> QED
  BY <1>1 DEF Write

LEMMA WriteUpdates ==
  ASSUME CommitInv, NEW r \in running_transfer, NEW n \in RunningTransfer,
         n = [r EXCEPT !.transfer_id = n.transfer_id, !.finalized = n.finalized,
                       !.error_code = n.error_code],
         r.finalized => n.finalized
  PROVE  Write(r, n) = Update(r, n)
<1>1. /\ r \in RunningTransfer /\ r.finalized \in BOOLEAN /\ n.finalized \in BOOLEAN
      /\ \A x \in running_transfer : Key(x) = Key(r) <=> x = r
  BY RowsTyped DEF Identified, Key
<1> DEFINE Written(x) ==
             [x EXCEPT !.transfer_id = IF n.transfer_id # r.transfer_id THEN n.transfer_id ELSE @,
                       !.finalized = @ \/ n.finalized # r.finalized,
                       !.error_code = IF n.error_code # r.error_code THEN n.error_code ELSE @]
<1>2. Written(r) = n
  <2>1. (r.finalized \/ n.finalized # r.finalized) = n.finalized
    BY <1>1
  <2>2. (IF n.transfer_id # r.transfer_id THEN n.transfer_id ELSE r.transfer_id) = n.transfer_id
    OBVIOUS
  <2>3. (IF n.error_code # r.error_code THEN n.error_code ELSE r.error_code) = n.error_code
    OBVIOUS
  <2> QED
    BY <1>1, <2>1, <2>2, <2>3 DEF RunningTransfer
<1>3. Write(r, n) = {IF Key(x) = Key(r) THEN Written(x) ELSE x : x \in running_transfer}
  BY DEF Write
<1> HIDE DEF Written
<1>4. \A x \in running_transfer :
        (IF Key(x) = Key(r) THEN Written(x) ELSE x) = IF x = r THEN n ELSE x
  BY <1>1, <1>2
<1>5. Write(r, n) = {IF x = r THEN n ELSE x : x \in running_transfer}
  BY <1>3, <1>4
<1> QED
  BY <1>5 DEF Update

LEMMA WriteFinal ==
  ASSUME CommitInv, NEW r \in running_transfer, NEW code \in ErrorCodes \cup {NoError}
  PROVE  Write(r, Finalize(r, code)) = Update(r, Finalize(r, code))
<1>1. r \in RunningTransfer
  BY RowsTyped
<1> DEFINE n == Finalize(r, code)
<1>2. /\ n \in RunningTransfer
      /\ n = [r EXCEPT !.transfer_id = n.transfer_id, !.finalized = n.finalized,
                       !.error_code = n.error_code]
      /\ r.finalized => n.finalized
  BY <1>1 DEF Finalize, RunningTransfer
<1> HIDE DEF n
<1>3. Write(r, n) = Update(r, n)
  BY <1>2, WriteUpdates
<1> QED
  BY <1>3 DEF n

LEMMA WriteSettled ==
  ASSUME CommitInv, NEW r \in running_transfer, NEW m \in prepared_msgs
  PROVE  Write(r, Settle(r, m)) = Update(r, Settle(r, m))
<1>1. r \in RunningTransfer /\ m \in PreparedTransfer
  BY RowsTyped DEF RestTyped
<1> DEFINE n == Settle(r, m)
<1>2. /\ n \in RunningTransfer
      /\ n = [r EXCEPT !.transfer_id = n.transfer_id, !.finalized = n.finalized,
                       !.error_code = n.error_code]
      /\ r.finalized => n.finalized
  BY <1>1 DEF Settle, RunningTransfer, PreparedTransfer
<1> HIDE DEF n
<1>3. Write(r, n) = Update(r, n)
  BY <1>2, WriteUpdates
<1> QED
  BY <1>3 DEF n

\* A transaction that can commit has its locks.
LEMMA LocksHeld ==
  ASSUME NEW t, Wanted(t) = {}
  PROVE  FirstLocks(t) \subseteq t.held /\ SecondLocks(t) \subseteq t.held
BY DEF Wanted

\* What the invariant says of a transaction about to commit.
LEMMA AboutToCommit ==
  ASSUME TxnInv, NEW w \in Workers, Busy(w), Wanted(txn[w]) = {}
  PROVE  /\ CommitInv /\ SettledTold /\ SnapshotInv(w)
         /\ txn[w] \in Transaction
         /\ FirstLocks(txn[w]) \subseteq txn[w].held /\ SecondLocks(txn[w]) \subseteq txn[w].held
         /\ \A r \in txn[w].rows : r \in RunningTransfer
         /\ \A r \in txn[w].rows : Key(r) \in txn[w].held => r \in running_transfer
         /\ \A d \in Debtors :
              txn[w].debtors[d].status = "active" /\ DebtorKey(d) \in txn[w].held =>
                /\ debtor[d] = txn[w].debtors[d]
                /\ \A n \in RowsOf(d) : \E r \in txn[w].rows : Key(r) = Key(n)
<1>1. txn[w] \in Transaction /\ CommitInv /\ SettledTold /\ SnapshotInv(w)
  BY DEF TxnInv, TxnTypeOK, Busy, RowsInv
<1>2. FirstLocks(txn[w]) \subseteq txn[w].held /\ SecondLocks(txn[w]) \subseteq txn[w].held
  BY LocksHeld
<1>3. txn[w].held \cap txn[w].stale = {} /\ FreshIsTrue(w)
  BY <1>1 DEF SnapshotInv, LocksFresh
<1> QED
  BY <1>1, <1>2, <1>3 DEF FreshIsTrue, Transaction

\* A commit changes only rows that the transaction holds.
OnlyHeldChange(w) ==
  /\ \A r \in running_transfer : r \in running_transfer' \/ Key(r) \in txn[w].held
  /\ \A d \in Debtors : debtor'[d] = debtor[d] \/ DebtorKey(d) \in txn[w].held

LEMMA InitiateCommits ==
  ASSUME TxnInv, NEW w \in Workers, Busy(w), Wanted(txn[w]) = {}, txn[w].op = "initiate",
         CommitInitiate(txn[w]), UNCHANGED authorityVars
  PROVE  Next /\ OnlyHeldChange(w)
<1> DEFINE arg == txn[w].arg
<1>1. /\ arg \in [debtor_id : Debtors, transfer_uuid : Uuids, amount : Amounts,
                  recipient : Recipients, elapsed : BOOLEAN]
      /\ txn[w].debtors[arg.debtor_id].status = "active"
  BY AboutToCommit DEF SnapshotInv, ArgumentsRight
<1>2. DebtorKey(arg.debtor_id) \in txn[w].held
  BY AboutToCommit DEF FirstLocks
<1>3. debtor[arg.debtor_id] = txn[w].debtors[arg.debtor_id]
  BY <1>1, <1>2, AboutToCommit
<1>4. InitiateTransfer(arg.debtor_id, arg.transfer_uuid, arg.amount, arg.recipient, arg.elapsed)
  BY <1>3 DEF CommitInitiate, InitiateTransfer
<1>5. Next
  BY <1>1, <1>4 DEF Next
<1>6. debtor \in [Debtors -> DebtorRow]
  BY AboutToCommit, RowsTyped DEF TypeOK
<1>7. OnlyHeldChange(w)
  BY <1>1, <1>2, <1>4, <1>6 DEF InitiateTransfer, OnlyHeldChange
<1> QED
  BY <1>5, <1>7

LEMMA CancelCommits ==
  ASSUME TxnInv, NEW w \in Workers, Busy(w), Wanted(txn[w]) = {}, txn[w].op = "cancel",
         CommitCancel(txn[w]), UNCHANGED authorityVars
  PROVE  Next /\ OnlyHeldChange(w)
<1> DEFINE r == txn[w].arg
<1>1. r \in txn[w].rows /\ ~IsSettled(r)
  BY AboutToCommit DEF SnapshotInv, ArgumentsRight
<1>2. Key(r) \in txn[w].held /\ r \in running_transfer
  BY <1>1, AboutToCommit DEF FirstLocks
<1>3. Modified(txn[w], r) = Finalize(r, SC_CANCELED_BY_THE_SENDER)
  BY DEF Modified
<1>4. Write(r, Modified(txn[w], r)) = Update(r, Finalize(r, SC_CANCELED_BY_THE_SENDER))
  BY <1>2, <1>3, AboutToCommit, WriteFinal DEF ErrorCodes
<1>5. CancelTransfer(r)
  BY <1>1, <1>4 DEF CommitCancel, CancelTransfer
<1>6. OnlyHeldChange(w)
  BY <1>2, <1>5 DEF CancelTransfer, Update, OnlyHeldChange
<1> QED
  BY <1>2, <1>5, <1>6 DEF Next

LEMMA DeleteCommits ==
  ASSUME TxnInv, NEW w \in Workers, Busy(w), Wanted(txn[w]) = {}, txn[w].op = "delete",
         CommitDelete(txn[w]), UNCHANGED authorityVars
  PROVE  Next /\ OnlyHeldChange(w)
<1> DEFINE r == txn[w].arg
<1>1. r \in txn[w].rows
  BY AboutToCommit DEF SnapshotInv, ArgumentsRight
<1>2. Key(r) \in txn[w].held /\ r \in running_transfer /\ DebtorKey(r.debtor_id) \in txn[w].held
  BY <1>1, AboutToCommit DEF FirstLocks, SecondLocks
<1>3. {x \in running_transfer : Key(x) # Key(r)} = running_transfer \ {r}
  <2>1. \A x \in running_transfer : Key(x) = Key(r) <=> x = r
    BY <1>2, AboutToCommit, RowsTyped DEF Identified, Key
  <2> QED
    BY <2>1
<1>4. DeleteTransfer(r)
  BY <1>3 DEF CommitDelete, DeleteTransfer
<1>5. debtor \in [Debtors -> DebtorRow]
  BY AboutToCommit, RowsTyped DEF TypeOK
<1>6. OnlyHeldChange(w)
  BY <1>2, <1>4, <1>5 DEF DeleteTransfer, OnlyHeldChange
<1> QED
  BY <1>2, <1>4, <1>6 DEF Next

LEMMA DeactivateCommits ==
  ASSUME TxnInv, NEW w \in Workers, Busy(w), Wanted(txn[w]) = {}, txn[w].op = "deactivate",
         CommitDeactivate(txn[w]), UNCHANGED authorityVars
  PROVE  Next /\ OnlyHeldChange(w)
<1> DEFINE d == txn[w].arg.debtor_id
<1>1. d \in Debtors /\ txn[w].debtors[d].status = "active"
  BY AboutToCommit DEF SnapshotInv, ArgumentsRight
<1>2. /\ DebtorKey(d) \in txn[w].held
      /\ \A x \in txn[w].rows : x.debtor_id = d => Key(x) \in txn[w].held
  BY AboutToCommit DEF FirstLocks, SecondLocks
<1>3. /\ debtor[d].status = "active"
      /\ \A n \in RowsOf(d) : \E x \in txn[w].rows : Key(x) = Key(n)
  BY <1>1, <1>2, AboutToCommit
<1>4. \A n \in running_transfer : Key(n) \in txn[w].held <=> n.debtor_id = d
  <2>1. ASSUME NEW n \in running_transfer, n.debtor_id = d PROVE Key(n) \in txn[w].held
    <3>1. PICK x \in txn[w].rows : Key(x) = Key(n)
      BY <1>3, <2>1 DEF RowsOf
    <3> QED
      BY <1>2, <2>1, <3>1 DEF Key
  <2>2. ASSUME NEW n \in running_transfer, Key(n) \in txn[w].held PROVE n.debtor_id = d
    <3>1. LocksFresh(w)
      BY AboutToCommit DEF SnapshotInv
    <3>2. Key(n) = DebtorKey(d) \/ \E x \in txn[w].rows : x.debtor_id = d /\ Key(n) = Key(x)
      BY <2>2, <3>1 DEF LocksFresh
    <3> QED
      BY <3>2 DEF Key, DebtorKey
  <2> QED
    BY <2>1, <2>2
<1>5. {n \in running_transfer : Key(n) \notin txn[w].held} = running_transfer \ RowsOf(d)
  BY <1>4 DEF RowsOf
<1>6. DeactivateDebtor(d)
  BY <1>3, <1>5 DEF CommitDeactivate, DeactivateDebtor
<1>7. debtor \in [Debtors -> DebtorRow]
  BY AboutToCommit, RowsTyped DEF TypeOK
<1>8. OnlyHeldChange(w)
  BY <1>2, <1>4, <1>6, <1>7 DEF DeactivateDebtor, RowsOf, OnlyHeldChange
<1> QED
  BY <1>1, <1>6, <1>8 DEF Next

\* A row that a message handler changes is locked, and so it is still there.
LEMMA SubjectLocked ==
  ASSUME TxnInv, NEW w \in Workers, Busy(w), Wanted(txn[w]) = {},
         txn[w].op \in {"prepared", "rejected", "finalized"},
         NEW r \in Subject(txn[w]), Modified(txn[w], r) # r
  PROVE  Key(r) \in txn[w].held /\ r \in running_transfer
<1>1. r \in txn[w].rows
  BY DEF Subject, Found
<1>2. FirstLocks(txn[w]) = {Key(x) : x \in {y \in Subject(txn[w]) : Modified(txn[w], y) # y}}
  BY DEF FirstLocks
<1>3. Key(r) \in txn[w].held
  BY <1>2, AboutToCommit
<1> QED
  BY <1>1, <1>3, AboutToCommit

\* A matching PreparedTransfer that changes nothing, because the row has been
\* finalized or settled: whatever became of the row since it was read, the
\* answer is the one that IssuingTransfers gives now.
LEMMA PreparedAnswers ==
  ASSUME TxnInv, NEW w \in Workers, Busy(w), Wanted(txn[w]) = {}, txn[w].op = "prepared",
         NEW r \in Subject(txn[w]), Settle(r, txn[w].arg) = r,
         UNCHANGED <<running_transfer, debtor, cr_seq, prepare_signals, cancelled, authorityVars>>,
         finalize_signals' = finalize_signals \cup
           {FinalizeSignal(txn[w].arg, AmountToCommit(r, txn[w].arg))}
  PROVE  [Next]_vars
<1> DEFINE m == txn[w].arg
<1>1. m \in prepared_msgs /\ m \in PreparedTransfer
  BY AboutToCommit, RowsTyped DEF SnapshotInv, ArgumentsRight, RestTyped
<1>2. /\ r \in txn[w].rows /\ PreparedMatches(r, m)
      /\ r.debtor_id = m.coordinator_id
      /\ r.coordinator_request_id = m.coordinator_request_id
  BY DEF Subject, Found
<1>3. r.finalized \/ IsSettled(r)
  <2>1. CASE ~r.finalized /\ ~IsSettled(r)
    <3>1. r = [r EXCEPT !.transfer_id = m.transfer_id] /\ r \in RunningTransfer
      BY <1>2, <2>1, AboutToCommit DEF Settle
    <3>2. r.transfer_id = m.transfer_id
      BY <3>1 DEF RunningTransfer
    <3> QED
      BY <1>1, <2>1, <3>2, NullsAssumption DEF IsSettled, PreparedTransfer
  <2> QED
    BY <2>1
<1>4. AmountToCommit(r, m) = IF r.transfer_id = m.transfer_id THEN r.amount ELSE 0
  BY DEF AmountToCommit
<1>5. /\ IsSettled(r) => SettledSignal(r) \in finalize_signals
      /\ \A n \in running_transfer : Key(n) = Key(r) => Evolves(r, n)
  BY <1>2, AboutToCommit DEF SnapshotInv, RowsReadEvolve
<1>6. CASE \E n \in running_transfer : Key(n) = Key(r)
  <2>1. PICK n \in running_transfer : Key(n) = Key(r)
    BY <1>6
  <2>2. Evolves(r, n) /\ n \in RunningTransfer
    BY <1>5, <2>1, AboutToCommit, RowsTyped
  <2>3. /\ n \in Find(m) /\ PreparedMatches(n, m)
        /\ n.transfer_id = r.transfer_id /\ n.amount = r.amount
    BY <1>2, <1>3, <2>1, <2>2 DEF Find, Key, Evolves, PreparedMatches
  <2>4. Settle(n, m) = n
    BY <1>3, <2>2, <2>3 DEF Settle, Evolves, IsSettled
  <2>5. AmountToCommit(n, m) = AmountToCommit(r, m)
    BY <1>4, <2>3, <2>4 DEF AmountToCommit
  <2>6. running_transfer' = Update(n, Settle(n, m))
    BY <2>1, <2>4 DEF Update
  <2>7. ProcessPrepared(m)
    BY <2>3, <2>5, <2>6 DEF ProcessPrepared
  <2> QED
    BY <1>1, <2>7 DEF Next, ProcessSomePrepared
<1>7. CASE ~ \E n \in running_transfer : Key(n) = Key(r)
  <2>1. Find(m) = {}
    BY <1>2, <1>7 DEF Find, Key
  <2>2. CASE r.transfer_id # m.transfer_id
    <3>1. DismissUnmatched(m)
      BY <1>4, <2>1, <2>2 DEF DismissUnmatched
    <3>2. ProcessPrepared(m)
      BY <3>1 DEF ProcessPrepared
    <3> QED
      BY <1>1, <3>2 DEF Next, ProcessSomePrepared
  <2>3. CASE r.transfer_id = m.transfer_id
    <3>1. IsSettled(r)
      BY <1>1, <2>3, NullsAssumption DEF IsSettled, PreparedTransfer
    <3>2. SettledSignal(r) = FinalizeSignal(m, AmountToCommit(r, m))
      BY <1>2, <1>4, <2>3 DEF SettledSignal, FinalizeSignal, PreparedMatches
    <3>3. finalize_signals' = finalize_signals
      BY <1>5, <3>1, <3>2
    <3> QED
      BY <3>3 DEF vars, signalVars
  <2> QED
    BY <2>2, <2>3
<1> QED
  BY <1>6, <1>7

LEMMA PreparedCommits ==
  ASSUME TxnInv, NEW w \in Workers, Busy(w), Wanted(txn[w]) = {}, txn[w].op = "prepared",
         CommitPrepared(txn[w]), UNCHANGED authorityVars
  PROVE  [Next]_vars /\ OnlyHeldChange(w)
<1> DEFINE m == txn[w].arg
<1>1. /\ m \in prepared_msgs
      /\ \A n \in Find(m) : \E r \in txn[w].rows : Key(r) = Key(n)
  BY AboutToCommit DEF SnapshotInv, ArgumentsRight
<1>2. ASSUME NEW r \in Subject(txn[w]), running_transfer' = Write(r, Modified(txn[w], r)),
             finalize_signals' = finalize_signals \cup {FinalizeSignal(m, AmountToCommit(r, m))}
      PROVE  [Next]_vars /\ OnlyHeldChange(w)
  <2>1. /\ r \in txn[w].rows /\ PreparedMatches(r, m)
        /\ r.debtor_id = m.coordinator_id
        /\ r.coordinator_request_id = m.coordinator_request_id
    BY DEF Subject, Found
  <2>2. Modified(txn[w], r) = Settle(r, m)
    BY DEF Modified
  <2>3. CASE Settle(r, m) = r
    <3>1. running_transfer' = running_transfer
      BY <1>2, <2>2, <2>3, AboutToCommit, WriteSame
    <3>2. [Next]_vars
      BY <1>2, <2>3, <3>1, PreparedAnswers DEF CommitPrepared
    <3> QED
      BY <3>1, <3>2 DEF CommitPrepared, OnlyHeldChange
  <2>4. CASE Settle(r, m) # r
    <3>1. Key(r) \in txn[w].held /\ r \in running_transfer
      BY <2>2, <2>4, SubjectLocked
    <3>2. running_transfer' = Update(r, Settle(r, m))
      BY <1>1, <1>2, <2>2, <3>1, AboutToCommit, WriteSettled
    <3>3. r \in Find(m)
      BY <2>1, <3>1 DEF Find
    <3>4. ProcessPrepared(m)
      BY <1>2, <2>1, <3>2, <3>3 DEF CommitPrepared, ProcessPrepared
    <3> QED
      BY <1>1, <3>1, <3>2, <3>4
      DEF Next, ProcessSomePrepared, CommitPrepared, OnlyHeldChange, Update
  <2> QED
    BY <2>3, <2>4
<1>3. CASE /\ Subject(txn[w]) = {}
           /\ finalize_signals' = finalize_signals \cup {FinalizeSignal(m, 0)}
           /\ UNCHANGED running_transfer
  <2>1. ASSUME NEW n \in Find(m), PreparedMatches(n, m) PROVE FALSE
    <3>1. PICK r \in txn[w].rows : Key(r) = Key(n)
      BY <1>1, <2>1
    <3>2. Evolves(r, n)
      BY <2>1, <3>1, AboutToCommit DEF SnapshotInv, RowsReadEvolve, Find
    <3>3. r \in Subject(txn[w])
      BY <2>1, <3>1, <3>2 DEF Subject, Found, Find, Evolves, Key, PreparedMatches
    <3> QED
      BY <1>3, <3>3
  <2>2. ProcessPrepared(m)
    BY <1>3, <2>1 DEF CommitPrepared, ProcessPrepared, DismissUnmatched
  <2> QED
    BY <1>1, <1>3, <2>2 DEF Next, ProcessSomePrepared, CommitPrepared, OnlyHeldChange
<1> QED
  BY <1>2, <1>3 DEF CommitPrepared

LEMMA ResultCommits ==
  ASSUME TxnInv, NEW w \in Workers, Busy(w), Wanted(txn[w]) = {},
         txn[w].op \in {"rejected", "finalized"}, CommitResult(txn[w]), UNCHANGED authorityVars
  PROVE  [Next]_vars /\ OnlyHeldChange(w)
<1> DEFINE m == txn[w].arg
<1>1. PICK r \in Subject(txn[w]) : running_transfer' = Write(r, Modified(txn[w], r))
  BY DEF CommitResult
<1>2. /\ r \in txn[w].rows /\ r \in RunningTransfer
      /\ r.debtor_id = m.coordinator_id
      /\ r.coordinator_request_id = m.coordinator_request_id
  <2>1. r \in txn[w].rows /\ r.debtor_id = m.coordinator_id
        /\ r.coordinator_request_id = m.coordinator_request_id
    BY DEF Subject, Found
  <2> QED
    BY <2>1, AboutToCommit
<1>3. CASE Modified(txn[w], r) = r
  <2>1. running_transfer' = running_transfer
    BY <1>1, <1>3, AboutToCommit, WriteSame
  <2> QED
    BY <2>1 DEF CommitResult, OnlyHeldChange, vars
<1>4. CASE Modified(txn[w], r) # r
  <2>1. Key(r) \in txn[w].held /\ r \in running_transfer /\ r \in Find(m)
    BY <1>2, <1>4, SubjectLocked DEF Find
  <2>2. CASE txn[w].op = "rejected"
    <3> DEFINE code == IF m.status_code # SC_OK /\ r.debtor_id = m.account
                       THEN m.status_code ELSE SC_UNEXPECTED_ERROR
    <3>1. m \in rejected_msgs /\ m \in RejectedTransfer /\ ~r.finalized
      <4>1. m \in rejected_msgs
        BY <2>2, AboutToCommit DEF SnapshotInv, ArgumentsRight
      <4>2. ~r.finalized
        BY <2>2 DEF Subject
      <4> QED
        BY <4>1, <4>2, AboutToCommit, RowsTyped DEF RestTyped
    <3>2. Modified(txn[w], r) = Finalize(r, code)
      BY <2>2 DEF Modified
    <3>3. code \in ErrorCodes \cup {NoError}
      BY <3>1 DEF RejectedTransfer, StatusCodes, ErrorCodes
    <3> HIDE DEF code
    <3>4. running_transfer' = Update(r, Finalize(r, code))
      BY <1>1, <2>1, <3>2, <3>3, AboutToCommit, WriteFinal
    <3>5. ProcessRejected(m)
      BY <2>1, <3>1, <3>4 DEF CommitResult, ProcessRejected, code
    <3> QED
      BY <2>1, <3>1, <3>4, <3>5
      DEF Next, ProcessSomeRejected, CommitResult, OnlyHeldChange, Update
  <2>3. CASE txn[w].op = "finalized"
    <3> DEFINE code == OutcomeOf(r, m)
    <3>1. /\ m \in finalized_msgs /\ m \in FinalizedTransfer
          /\ r.debtor_id = m.account /\ r.transfer_id = m.transfer_id
      <4>1. m \in finalized_msgs
        BY <2>3, AboutToCommit DEF SnapshotInv, ArgumentsRight
      <4>2. r.debtor_id = m.account /\ r.transfer_id = m.transfer_id
        BY <2>3 DEF Subject
      <4> QED
        BY <4>1, <4>2, AboutToCommit, RowsTyped DEF RestTyped
    <3>2. Modified(txn[w], r) = Finalize(r, code)
      BY <2>3 DEF Modified
    <3>3. code \in ErrorCodes \cup {NoError}
      BY <3>1 DEF FinalizedTransfer, StatusCodes, ErrorCodes, OutcomeOf
    <3> HIDE DEF code
    <3>4. running_transfer' = Update(r, Finalize(r, code))
      BY <1>1, <2>1, <3>2, <3>3, AboutToCommit, WriteFinal
    <3>5. ProcessFinalized(m)
      BY <2>1, <3>1, <3>4 DEF CommitResult, ProcessFinalized, code
    <3> QED
      BY <2>1, <3>1, <3>4, <3>5
      DEF Next, ProcessSomeFinalized, CommitResult, OnlyHeldChange, Update
  <2> QED
    BY <2>2, <2>3
<1> QED
  BY <1>3, <1>4

LEMMA CommitIsStep ==
  ASSUME TxnInv, NEW w \in Workers, Commit(w)
  PROVE  [Next]_vars /\ OnlyHeldChange(w)
<1>1. Busy(w) /\ Wanted(txn[w]) = {} /\ UNCHANGED authorityVars
  BY DEF Commit
<1>2. \/ txn[w].op = "initiate" /\ CommitInitiate(txn[w])
      \/ txn[w].op = "cancel" /\ CommitCancel(txn[w])
      \/ txn[w].op = "delete" /\ CommitDelete(txn[w])
      \/ txn[w].op = "deactivate" /\ CommitDeactivate(txn[w])
      \/ txn[w].op = "prepared" /\ CommitPrepared(txn[w])
      \/ txn[w].op \in {"rejected", "finalized"} /\ CommitResult(txn[w])
  BY DEF Commit
<1> QED
  BY <1>1, <1>2, InitiateCommits, CancelCommits, DeleteCommits, DeactivateCommits,
     PreparedCommits, ResultCommits

-----------------------------------------------------------------------------
(* The invariant holds.                                                    *)

\* The transactions that a step does not concern.
LEMMA OtherTransaction ==
  ASSUME TxnInv, [Next]_vars, NEW v \in Workers, Busy(v), txn'[v] = txn[v],
         running_transfer' = running_transfer,
         \A d \in Debtors : debtor'[d] = debtor[d] \/ debtor[d].status # "active"
  PROVE  SnapshotInv(v)'
<1>1. Kept(v, {})
  BY DEF Kept
<1> QED
  BY <1>1, SnapshotKept

LEMMA BeginStep ==
  ASSUME TxnInv, NEW w \in Workers, NEW op \in Operations, NEW arg \in Arguments,
         Begin(w, op, arg), ArgumentsRight(w)'
  PROVE  TxnInv'
<1> DEFINE t == [op |-> op, arg |-> arg, rows |-> running_transfer, debtors |-> debtor,
                 held |-> {}, stale |-> {}]
<1>1. txn' = [txn EXCEPT ![w] = t] /\ UNCHANGED vars /\ ~Busy(w)
  BY DEF Begin
<1>2. /\ debtor' = debtor /\ running_transfer' = running_transfer /\ cr_seq' = cr_seq
      /\ finalize_signals' = finalize_signals
  BY <1>1 DEF vars, signalVars
<1>3. /\ RowsInv /\ CommitInv /\ TypeOK /\ Identified /\ TxnTypeOK /\ SettledTold
      /\ \A r \in running_transfer : r \in RunningTransfer
  BY RowsTyped DEF TxnInv, RowsInv
<1>4. RowsInv'
  BY <1>1, <1>3, RowsInvStep
<1>5. t \in Transaction
  <2>1. running_transfer \subseteq RunningTransfer /\ debtor \in [Debtors -> DebtorRow]
    BY <1>3 DEF TypeOK
  <2> QED
    BY <2>1 DEF Transaction
<1>6. /\ t.op = op /\ t.arg = arg /\ t.rows = running_transfer /\ t.debtors = debtor
      /\ t.held = {} /\ t.stale = {}
  OBVIOUS
<1> HIDE DEF t
<1>7. TxnTypeOK' /\ txn'[w] = t /\ \A v \in Workers \ {w} : txn'[v] = txn[v]
  BY <1>1, <1>3, <1>5 DEF TxnTypeOK
<1>8. LocksExclude'
  <2> SUFFICES ASSUME NEW u \in Workers, NEW v \in Workers, u # v, Busy(u)', Busy(v)'
               PROVE  txn'[u].held \cap txn'[v].held = {}
    BY DEF LocksExclude
  <2>1. CASE u = w \/ v = w
    BY <1>6, <1>7, <2>1
  <2>2. CASE u # w /\ v # w
    BY <1>7, <2>2 DEF TxnInv, LocksExclude, Busy
  <2> QED
    BY <2>1, <2>2
<1>9. SnapshotInv(w)'
  <2>1. FreshIsTrue(w)'
    BY <1>2, <1>6, <1>7 DEF FreshIsTrue, RowsOf
  <2>2. RowsReadEvolve(w)'
    <3>1. ASSUME NEW r \in running_transfer
          PROVE  /\ r.coordinator_request_id <= cr_seq
                 /\ IsSettled(r) => SettledSignal(r) \in finalize_signals
                 /\ \A n \in running_transfer : Key(n) = Key(r) => Evolves(r, n)
      <4>1. \A n \in running_transfer : Key(n) = Key(r) => n = r
        BY <1>3 DEF Identified, Key
      <4> QED
        BY <1>3, <4>1, StaysEvolves DEF Identified, SettledTold
    <3> QED
      BY <1>2, <1>6, <1>7, <3>1 DEF RowsReadEvolve, IsSettled, SettledSignal, Key, Evolves
  <2>3. LocksFresh(w)'
    BY <1>6, <1>7 DEF LocksFresh
  <2> QED
    BY <2>1, <2>2, <2>3 DEF SnapshotInv
<1>10. ASSUME NEW v \in Workers, v # w, Busy(v)' PROVE SnapshotInv(v)'
  <2>1. txn'[v] = txn[v] /\ Busy(v)
    BY <1>7, <1>10 DEF Busy
  <2> QED
    BY <1>1, <1>2, <2>1, OtherTransaction
<1> QED
  BY <1>4, <1>7, <1>8, <1>9, <1>10 DEF TxnInv

\* What a transaction locks: rows; and, to deactivate a debtor, only its rows.
LEMMA WantedRows ==
  ASSUME TxnInv, NEW w \in Workers, Busy(w), NEW k \in Wanted(txn[w])
  PROVE  /\ k \in Keys
         /\ txn[w].op = "deactivate" =>
              \/ k = DebtorKey(txn[w].arg.debtor_id)
              \/ \E r \in txn[w].rows : r.debtor_id = txn[w].arg.debtor_id /\ k = Key(r)
<1>1. txn[w] \in Transaction /\ ArgumentsRight(w)
  BY DEF TxnInv, TxnTypeOK, Busy, SnapshotInv
<1>2. /\ \A d \in Debtors : DebtorKey(d) \in Keys
      /\ \A r \in RunningTransfer : Key(r) \in Keys /\ r.debtor_id \in Debtors
      /\ txn[w].rows \subseteq RunningTransfer
      /\ txn[w].op \in Operations
  BY <1>1 DEF DebtorKey, Key, Keys, RunningTransfer, Requests, Transaction
<1>3. k \in FirstLocks(txn[w]) \/ k \in SecondLocks(txn[w])
  BY DEF Wanted
<1>4. CASE k \in FirstLocks(txn[w])
  <2>1. CASE txn[w].op \in {"initiate", "deactivate"}
    BY <1>1, <1>2, <1>4, <2>1 DEF FirstLocks, ArgumentsRight
  <2>2. CASE txn[w].op \in {"cancel", "delete"}
    BY <1>1, <1>2, <1>4, <2>2 DEF FirstLocks, ArgumentsRight
  <2>3. CASE txn[w].op \in {"prepared", "rejected", "finalized"}
    <3>1. Subject(txn[w]) \subseteq txn[w].rows
      BY <2>3 DEF Subject, Found
    <3>2. FirstLocks(txn[w]) =
            {Key(r) : r \in {x \in Subject(txn[w]) : Modified(txn[w], x) # x}}
      BY <2>3 DEF FirstLocks
    <3> QED
      BY <1>2, <1>4, <2>3, <3>1, <3>2
  <2> QED
    BY <1>2, <2>1, <2>2, <2>3 DEF Operations
<1>5. CASE k \in SecondLocks(txn[w])
  <2>1. CASE txn[w].op = "delete"
    BY <1>1, <1>2, <1>5, <2>1 DEF SecondLocks, ArgumentsRight
  <2>2. CASE txn[w].op = "deactivate"
    BY <1>1, <1>2, <1>5, <2>2 DEF SecondLocks, ArgumentsRight
  <2>3. CASE txn[w].op \notin {"delete", "deactivate"}
    BY <1>5, <2>3 DEF SecondLocks
  <2> QED
    BY <2>1, <2>2, <2>3
<1> QED
  BY <1>3, <1>4, <1>5

LEMMA LockStep ==
  ASSUME TxnInv, NEW w \in Workers, Lock(w)
  PROVE  TxnInv'
<1>1. Busy(w) /\ UNCHANGED vars /\ txn[w] \in Transaction /\ SnapshotInv(w) /\ TxnTypeOK
  BY DEF Lock, TxnInv, TxnTypeOK, Busy
<1>2. PICK k \in Wanted(txn[w]) :
        /\ ~LockedByOther(w, k) /\ k \notin txn[w].stale
        /\ txn' = [txn EXCEPT ![w].held = @ \cup {k}]
  BY DEF Lock, ChangedSince
<1>3. PICK t : t = [txn[w] EXCEPT !.held = @ \cup {k}]
  OBVIOUS
<1>4. /\ t.op = txn[w].op /\ t.arg = txn[w].arg /\ t.rows = txn[w].rows
      /\ t.debtors = txn[w].debtors /\ t.held = txn[w].held \cup {k} /\ t.stale = txn[w].stale
      /\ t \in Transaction
  BY <1>1, <1>2, <1>3, WantedRows DEF Transaction
<1>5. txn' = [txn EXCEPT ![w] = t]
  BY <1>2, <1>3
<1>6. TxnTypeOK' /\ txn'[w] = t /\ \A v \in Workers \ {w} : txn'[v] = txn[v]
  BY <1>1, <1>4, <1>5 DEF TxnTypeOK
<1>7. RowsInv'
  BY <1>1, RowsInvStep DEF TxnInv
<1>8. LocksExclude'
  <2>1. ASSUME NEW v \in Workers, v # w, Busy(v) PROVE txn[v].held \cap t.held = {}
    <3>1. txn[v].held \cap txn[w].held = {}
      BY <1>1, <2>1 DEF TxnInv, LocksExclude
    <3>2. k \notin txn[v].held
      BY <1>2, <2>1 DEF LockedByOther
    <3> QED
      BY <1>4, <3>1, <3>2
  <2> SUFFICES ASSUME NEW u \in Workers, NEW v \in Workers, u # v, Busy(u)', Busy(v)'
               PROVE  txn'[u].held \cap txn'[v].held = {}
    BY DEF LocksExclude
  <2>2. CASE u = w
    BY <1>6, <2>1, <2>2 DEF Busy
  <2>3. CASE v = w
    BY <1>6, <2>1, <2>3 DEF Busy
  <2>4. CASE u # w /\ v # w
    BY <1>6, <2>4 DEF TxnInv, LocksExclude, Busy
  <2> QED
    BY <2>2, <2>3, <2>4
<1>9. SnapshotInv(w)'
  <2>1. /\ UNCHANGED <<debtor, running_transfer, cr_seq, finalize_signals>>
        /\ UNCHANGED <<prepared_msgs, rejected_msgs, finalized_msgs>>
    BY <1>1 DEF vars, signalVars, authorityVars
  <2>2. FreshIsTrue(w)'
    BY <1>1, <1>4, <1>6, <2>1 DEF SnapshotInv, FreshIsTrue, RowsOf, Key, DebtorKey
  <2>3. RowsReadEvolve(w)'
    BY <1>1, <1>4, <1>6, <2>1
    DEF SnapshotInv, RowsReadEvolve, IsSettled, SettledSignal, Key, Evolves
  <2>4. LocksFresh(w)'
    <3>1. t.held \cap t.stale = {}
      BY <1>1, <1>2, <1>4 DEF SnapshotInv, LocksFresh
    <3>2. t.op = "deactivate" =>
            \A x \in t.held : \/ x = DebtorKey(t.arg.debtor_id)
                              \/ \E r \in t.rows : r.debtor_id = t.arg.debtor_id /\ x = Key(r)
      BY <1>1, <1>2, <1>4, WantedRows DEF SnapshotInv, LocksFresh
    <3> QED
      BY <1>6, <3>1, <3>2 DEF LocksFresh, Key, DebtorKey
  <2>5. ArgumentsRight(w)'
    BY <1>1, <1>4, <1>6, <2>1 DEF SnapshotInv, ArgumentsRight, Find, Key, IsSettled
  <2> QED
    BY <2>2, <2>3, <2>4, <2>5 DEF SnapshotInv
<1>10. ASSUME NEW v \in Workers, v # w, Busy(v)' PROVE SnapshotInv(v)'
  <2>1. txn'[v] = txn[v] /\ Busy(v)
    BY <1>6, <1>10 DEF Busy
  <2>2. debtor' = debtor /\ running_transfer' = running_transfer
    BY <1>1 DEF vars
  <2> QED
    BY <1>1, <2>1, <2>2, OtherTransaction
<1> QED
  BY <1>6, <1>7, <1>8, <1>9, <1>10 DEF TxnInv

\* A transaction that ends leaves less to be shown.
LEMMA EndStep ==
  ASSUME TxnInv, NEW w \in Workers, Rollback(w)
  PROVE  TxnInv'
<1>1. txn' = [txn EXCEPT ![w] = Idle] /\ UNCHANGED vars /\ TxnTypeOK
  BY DEF Rollback, TxnInv
<1>2. TxnTypeOK' /\ txn'[w] = Idle /\ \A v \in Workers \ {w} : txn'[v] = txn[v]
  BY <1>1 DEF TxnTypeOK
<1>3. RowsInv'
  BY <1>1, RowsInvStep DEF TxnInv
<1>4. ASSUME NEW v \in Workers, Busy(v)' PROVE txn'[v] = txn[v] /\ Busy(v)
  BY <1>2, <1>4 DEF Busy
<1>5. LocksExclude'
  BY <1>4 DEF TxnInv, LocksExclude
<1>6. ASSUME NEW v \in Workers, Busy(v)' PROVE SnapshotInv(v)'
  <2>1. debtor' = debtor /\ running_transfer' = running_transfer
    BY <1>1 DEF vars
  <2> QED
    BY <1>1, <1>4, <1>6, <2>1, OtherTransaction
<1> QED
  BY <1>2, <1>3, <1>5, <1>6 DEF TxnInv

LEMMA CommitStep ==
  ASSUME TxnInv, NEW w \in Workers, Commit(w)
  PROVE  TxnInv'
<1>1. [Next]_vars /\ OnlyHeldChange(w) /\ Busy(w)
  BY CommitIsStep DEF Commit
<1>2. PICK D : D = Dirty
  OBVIOUS
<1>3. txn' = [v \in Workers |-> IF v = w THEN Idle
                                ELSE IF Busy(v) THEN [txn[v] EXCEPT !.stale = @ \cup D]
                                ELSE txn[v]]
  BY <1>2 DEF Commit
<1>4. /\ D \subseteq txn[w].held /\ D \subseteq Keys
      /\ \A r \in running_transfer : r \in running_transfer' \/ Key(r) \in D
      /\ \A d \in Debtors : debtor'[d] = debtor[d] \/ DebtorKey(d) \in D
  <2>1. D \subseteq txn[w].held
    BY <1>1, <1>2 DEF Dirty, OnlyHeldChange
  <2>2. txn[w].held \subseteq Keys
    BY <1>1 DEF TxnInv, TxnTypeOK, Busy, Transaction
  <2> QED
    BY <1>2, <2>1, <2>2 DEF Dirty
<1>5. ASSUME NEW v \in Workers, v # w, Busy(v)
      PROVE  Kept(v, D) /\ txn'[v] \in Transaction /\ SnapshotInv(v)'
  <2>1. txn[v] \in Transaction
    BY <1>5 DEF TxnInv, TxnTypeOK, Busy
  <2>2. txn'[v] = [txn[v] EXCEPT !.stale = @ \cup D]
    BY <1>3, <1>5
  <2>3. Kept(v, D) /\ txn'[v] \in Transaction
    BY <1>4, <2>1, <2>2 DEF Kept, Transaction
  <2>4. txn[v].held \cap D = {}
    BY <1>1, <1>4, <1>5 DEF TxnInv, LocksExclude
  <2> QED
    BY <1>1, <1>4, <1>5, <2>3, <2>4, SnapshotKept
<1>6. ASSUME NEW v \in Workers, v # w, ~Busy(v) PROVE txn'[v] = Idle
  BY <1>3, <1>6 DEF Busy
<1>7. txn'[w] = Idle
  BY <1>3
<1>8. TxnTypeOK'
  <2>1. \A v \in Workers : txn'[v] \in {Idle} \cup Transaction
    BY <1>5, <1>6, <1>7
  <2> QED
    BY <1>3, <2>1 DEF TxnTypeOK
<1>9. \A v \in Workers : Busy(v)' => v # w /\ Busy(v)
  BY <1>6, <1>7 DEF Busy
<1>10. LocksExclude'
  BY <1>5, <1>9 DEF TxnInv, LocksExclude, Kept
<1>11. RowsInv'
  BY <1>1, RowsInvStep DEF TxnInv
<1>12. \A v \in Workers : Busy(v)' => SnapshotInv(v)'
  BY <1>5, <1>9
<1> QED
  BY <1>8, <1>10, <1>11, <1>12 DEF TxnInv

LEMMA ExternalStep ==
  ASSUME TxnInv, External
  PROVE  Next /\ TxnInv'
<1>1. Next
  BY DEF External, Next
<1>2. /\ txn' = txn /\ running_transfer' = running_transfer
      /\ \A d \in Debtors : debtor'[d] = debtor[d] \/ debtor[d].status # "active"
  <2>1. debtor \in [Debtors -> DebtorRow]
    BY RowsTyped DEF TxnInv, RowsInv, TypeOK
  <2> QED
    BY <2>1 DEF External, ActivateDebtor, AuthorityAnswers, AuthorityAnswer, AuthorityPrepares,
                AuthorityRejects, AuthorityFinalizesSome, AuthorityFinalizes
<1>3. RowsInv'
  BY <1>1, RowsInvStep DEF TxnInv
<1>4. TxnTypeOK' /\ LocksExclude'
  BY <1>2 DEF TxnInv, TxnTypeOK, LocksExclude, Busy
<1>5. ASSUME NEW v \in Workers, Busy(v)' PROVE SnapshotInv(v)'
  <2>1. txn'[v] = txn[v] /\ Busy(v)
    BY <1>2, <1>5 DEF Busy
  <2> QED
    BY <1>1, <1>2, <2>1, OtherTransaction
<1> QED
  BY <1>1, <1>3, <1>4, <1>5 DEF TxnInv

LEMMA BeginReads ==
  ASSUME TxnInv, NEW w \in Workers, NEW op, NEW arg, Begin(w, op, arg)
  PROVE  /\ txn'[w].op = op /\ txn'[w].arg = arg
         /\ txn'[w].rows = running_transfer /\ txn'[w].debtors = debtor
         /\ UNCHANGED vars
BY DEF Begin, TxnInv, TxnTypeOK

LEMMA BeginSomeStep ==
  ASSUME TxnInv, NEW w \in Workers, BeginSome(w)
  PROVE  TxnInv'
<1>1. ASSUME NEW d \in Debtors, NEW uuid \in Uuids, NEW amount \in Amounts,
             NEW recipient \in Recipients, NEW elapsed \in BOOLEAN, debtor[d].status = "active",
             Begin(w, "initiate", [debtor_id |-> d, transfer_uuid |-> uuid, amount |-> amount,
                                   recipient |-> recipient, elapsed |-> elapsed])
      PROVE  TxnInv'
  <2> DEFINE arg == [debtor_id |-> d, transfer_uuid |-> uuid, amount |-> amount,
                     recipient |-> recipient, elapsed |-> elapsed]
  <2>1. arg \in [debtor_id : Debtors, transfer_uuid : Uuids, amount : Amounts,
                 recipient : Recipients, elapsed : BOOLEAN]
        /\ arg.debtor_id = d
    OBVIOUS
  <2> HIDE DEF arg
  <2>2. arg \in Arguments
    BY <2>1 DEF Arguments
  <2>3. Begin(w, "initiate", arg)
    BY <1>1 DEF arg
  <2>4. /\ txn'[w].op = "initiate" /\ txn'[w].arg = arg
        /\ txn'[w].debtors = debtor
    BY <2>3, BeginReads
  <2>5. ArgumentsRight(w)'
    BY <1>1, <2>1, <2>4 DEF ArgumentsRight
  <2> QED
    BY <2>2, <2>3, <2>5, BeginStep DEF Operations
<1>2. ASSUME NEW r \in running_transfer, NEW op \in {"cancel", "delete"},
             op = "cancel" => ~IsSettled(r), Begin(w, op, r)
      PROVE  TxnInv'
  <2>1. r \in Arguments
    BY RowsTyped DEF TxnInv, RowsInv, Arguments
  <2>2. /\ txn'[w].op = op /\ txn'[w].arg = r /\ txn'[w].rows = running_transfer
    BY <1>2, BeginReads
  <2>3. ArgumentsRight(w)'
    BY <1>2, <2>2 DEF ArgumentsRight, IsSettled
  <2> QED
    BY <1>2, <2>1, <2>3, BeginStep DEF Operations
<1>3. ASSUME NEW d \in Debtors, debtor[d].status = "active",
             Begin(w, "deactivate", [debtor_id |-> d])
      PROVE  TxnInv'
  <2> DEFINE arg == [debtor_id |-> d]
  <2>1. arg \in [debtor_id : Debtors] /\ arg.debtor_id = d
    OBVIOUS
  <2> HIDE DEF arg
  <2>2. arg \in Arguments
    BY <2>1 DEF Arguments
  <2>3. Begin(w, "deactivate", arg)
    BY <1>3 DEF arg
  <2>4. /\ txn'[w].op = "deactivate" /\ txn'[w].arg = arg /\ txn'[w].debtors = debtor
    BY <2>3, BeginReads
  <2>5. ArgumentsRight(w)'
    BY <1>3, <2>1, <2>4 DEF ArgumentsRight
  <2> QED
    BY <2>2, <2>3, <2>5, BeginStep DEF Operations
<1>4. ASSUME NEW m, NEW op,
             \/ m \in prepared_msgs /\ op = "prepared"
             \/ m \in rejected_msgs /\ op = "rejected"
             \/ m \in finalized_msgs /\ op = "finalized",
             Begin(w, op, m)
      PROVE  TxnInv'
  <2>1. m \in Arguments
    BY <1>4, RowsTyped DEF TxnInv, RowsInv, RestTyped, Arguments
  <2>2. /\ txn'[w].op = op /\ txn'[w].arg = m /\ txn'[w].rows = running_transfer
        /\ UNCHANGED vars
    BY <1>4, BeginReads
  <2>3. /\ UNCHANGED <<running_transfer, prepared_msgs, rejected_msgs, finalized_msgs>>
    BY <2>2 DEF vars, authorityVars
  <2>4. ArgumentsRight(w)'
    BY <1>4, <2>2, <2>3 DEF ArgumentsRight, Find, Key
  <2> QED
    BY <1>4, <2>1, <2>4, BeginStep DEF Operations
<1> QED
  BY <1>1, <1>2, <1>3, <1>4 DEF BeginSome

LEMMA TxnInvInit == TxnInit => TxnInv
<1> SUFFICES ASSUME TxnInit PROVE TxnInv
  OBVIOUS
<1>1. \A w \in Workers : txn[w] = Idle
  BY DEF TxnInit
<1> QED
  BY <1>1, RowsInvInit DEF TxnInit, TxnInv, TxnTypeOK, LocksExclude, Busy

LEMMA TxnStep ==
  ASSUME TxnInv, [TxnNext]_allVars
  PROVE  [Next]_vars /\ TxnInv'
<1>1. ASSUME NEW w \in Workers, BeginSome(w) PROVE [Next]_vars /\ TxnInv'
  BY <1>1, BeginSomeStep DEF BeginSome, Begin
<1>2. ASSUME NEW w \in Workers, Lock(w) PROVE [Next]_vars /\ TxnInv'
  BY <1>2, LockStep DEF Lock
<1>3. ASSUME NEW w \in Workers, Commit(w) PROVE [Next]_vars /\ TxnInv'
  BY <1>3, CommitIsStep, CommitStep
<1>4. ASSUME NEW w \in Workers, Rollback(w) PROVE [Next]_vars /\ TxnInv'
  BY <1>4, EndStep DEF Rollback
<1>5. ASSUME External PROVE [Next]_vars /\ TxnInv'
  BY <1>5, ExternalStep
<1>6. CASE UNCHANGED allVars
  <2>1. UNCHANGED vars /\ txn' = txn
    BY <1>6 DEF allVars
  <2>2. RowsInv'
    BY <2>1, RowsInvStep DEF TxnInv
  <2>3. running_transfer' = running_transfer /\ debtor' = debtor
    BY <2>1 DEF vars
  <2>4. TxnTypeOK' /\ LocksExclude'
    BY <2>1 DEF TxnInv, TxnTypeOK, LocksExclude, Busy
  <2>5. ASSUME NEW v \in Workers, Busy(v)' PROVE SnapshotInv(v)'
    <3>1. txn'[v] = txn[v] /\ Busy(v)
      BY <2>1, <2>5 DEF Busy
    <3> QED
      BY <2>1, <2>3, <3>1, OtherTransaction
  <2> QED
    BY <2>1, <2>2, <2>4, <2>5 DEF TxnInv
<1> QED
  BY <1>1, <1>2, <1>3, <1>4, <1>5, <1>6
  DEF TxnNext, EndWithoutEffect, SerializationFailure, DeadlockVictim, Crash

LEMMA TxnInvHolds == TxnSpec => []TxnInv
BY TxnInvInit, TxnStep, PTL DEF TxnSpec

-----------------------------------------------------------------------------
(* The theorems                                                            *)

\* However the statements of the procedures interleave, whoever waits, fails,
\* crashes or is the victim of a deadlock: the committed effects are those of
\* the procedures run one at a time ("atomic", procedures.py:28).
THEOREM TransactionsSerialize == TxnSpec => Serializable
<1>1. TxnInit => Init
  BY DEF TxnInit
<1>2. TxnInv /\ [TxnNext]_allVars => [Next]_vars
  BY TxnStep
<1> QED
  BY <1>1, <1>2, TxnInvHolds, PTL DEF TxnSpec, Serializable, Spec

\* Hence the transactions, too, keep the count of running transfers that limits
\* them, although it is read long before it is written (procedures.py:288-290).
THEOREM ConcurrentCountCorrect == TxnSpec => []CountMatches
BY TransactionsSerialize, CountCorrect, PTL DEF Serializable

\* A cancellation that was confirmed holds against a PreparedTransfer handled
\* at the same time (procedures.py:263-275, 441-496).
THEOREM ConcurrentCancellationHolds == TxnSpec => []CancelledNeverCommitted
BY TransactionsSerialize, CancellationHolds, PTL DEF Serializable

\* The transactions implement the promise: interleaved as they may be, what the
\* debtor is shown is the truth about the money, for an authority that answers
\* each request once and repeats what it was asked for.
THEOREM TransactionsKeepPromise ==
  ASSUME AaAnswersOnce, AaEchoes PROVE TxnSpec => KeepsPromise
BY TransactionsSerialize, CoordinatorKeepsPromise, PTL DEF Serializable
==============================================================================
