------------------------ MODULE TransferTransactions ------------------------
(***************************************************************************)
(* The procedures of IssuingTransfers, statement by statement.  Web        *)
(* workers and message consumers run them concurrently, each in one        *)
(* PostgreSQL transaction at the REPEATABLE READ level, which is what the  *)
(* "atomic" decorator sets up (external).  A transaction reads a snapshot, *)
(* locks the rows it changes one after the other, and commits; it fails    *)
(* when a row it locks has changed since its snapshot, when it is chosen   *)
(* to break a deadlock, or when its process crashes.  A failed procedure   *)
(* is retried, or its message is redelivered: to this module that is       *)
(* another transaction.                                                    *)
(*                                                                         *)
(* The actions of the accounting authority and the activation of a debtor, *)
(* which no transaction here can conflict with, are those of               *)
(* IssuingTransfers.  Numbers drawn from the sequence by transactions that *)
(* fail are left out.                                                      *)
(***************************************************************************)
EXTENDS IssuingTransfers

CONSTANTS Workers  \* processes and threads that run procedures

VARIABLES txn  \* the open transaction of each worker

allVars == <<vars, txn>>

Idle == [op |-> "idle"]
Busy(w) == txn[w] # Idle

\* Keys of database rows; the row of the debtor has the key <<d, 0>>.
Key(r) == <<r.debtor_id, r.coordinator_request_id>>
DebtorKey(d) == <<d, 0>>

-----------------------------------------------------------------------------
(* Starting a transaction: its first statement takes the snapshot          *)

Begin(w, op, arg) ==
  /\ ~Busy(w)
  /\ txn' = [txn EXCEPT ![w] = [op |-> op, arg |-> arg,
                                rows |-> running_transfer, debtors |-> debtor,
                                held |-> {}, stale |-> {}]]
  /\ UNCHANGED vars

\* Procedures that find nothing to do read and return: they are left out.
BeginSome(w) ==
  \/ \E d \in Debtors, uuid \in Uuids, amount \in Amounts,
        recipient \in Recipients, elapsed \in BOOLEAN :
       /\ debtor[d].status = "active"
       /\ \A r \in RowsOf(d) : r.transfer_uuid # uuid
       /\ Begin(w, "initiate", [debtor_id |-> d, transfer_uuid |-> uuid, amount |-> amount,
                                recipient |-> recipient, elapsed |-> elapsed])
  \/ \E r \in running_transfer : \/ ~IsSettled(r) /\ Begin(w, "cancel", r)
                                 \/ Begin(w, "delete", r)
  \/ \E d \in Debtors : /\ debtor[d].status = "active"
                        /\ Begin(w, "deactivate", [debtor_id |-> d])
  \/ \E m \in prepared_msgs : Begin(w, "prepared", m)
  \/ \E m \in rejected_msgs : Begin(w, "rejected", m)
  \/ \E m \in finalized_msgs : Begin(w, "finalized", m)

-----------------------------------------------------------------------------
(* What a transaction makes of the rows in its snapshot                    *)

\* The row that a message is about.
Found(t) == {r \in t.rows : /\ r.debtor_id = t.arg.coordinator_id
                            /\ r.coordinator_request_id = t.arg.coordinator_request_id}

\* The rows that the handler of a message, or a cancellation, modifies.
Subject(t) ==
  CASE t.op = "cancel" -> {r \in t.rows : r = t.arg}
    [] t.op = "prepared" -> {r \in Found(t) : PreparedMatches(r, t.arg)}
    [] t.op = "rejected" -> {r \in Found(t) : ~r.finalized}
    [] t.op = "finalized" -> {r \in Found(t) : /\ r.debtor_id = t.arg.account
                                               /\ r.transfer_id = t.arg.transfer_id}
    [] OTHER -> {}

Modified(t, r) ==
  CASE t.op = "cancel" -> Finalize(r, SC_CANCELED_BY_THE_SENDER)
    [] t.op = "prepared" -> Settle(r, t.arg)
    [] t.op = "rejected" -> Finalize(r, IF /\ t.arg.status_code # SC_OK
                                           /\ r.debtor_id = t.arg.account
                                        THEN t.arg.status_code ELSE SC_UNEXPECTED_ERROR)
    [] t.op = "finalized" -> Finalize(r, OutcomeOf(r, t.arg))

-----------------------------------------------------------------------------
(* Locks: the order in which the statements of each procedure take them    *)

FirstLocks(t) ==
  CASE t.op \in {"initiate", "deactivate"} -> {DebtorKey(t.arg.debtor_id)}
    [] t.op \in {"cancel", "delete"} -> {Key(t.arg)}
    [] OTHER -> {Key(r) : r \in {x \in Subject(t) : Modified(t, x) # x}}

SecondLocks(t) ==
  CASE t.op = "delete" -> {DebtorKey(t.arg.debtor_id)}
    [] t.op = "deactivate" -> {Key(r) : r \in {x \in t.rows : x.debtor_id = t.arg.debtor_id}}
    [] OTHER -> {}

\* The rows that the current statement of a transaction has yet to lock.
Wanted(t) ==
  IF FirstLocks(t) \subseteq t.held THEN SecondLocks(t) \ t.held ELSE FirstLocks(t) \ t.held

LockedByOther(w, k) == \E v \in Workers \ {w} : Busy(v) /\ k \in txn[v].held

\* Mutant of ChangedSince: READ COMMITTED, where the lock is all that counts.
NeverChanged(t, k) == FALSE
\* REPEATABLE READ: the first updater wins.
ChangedSince(t, k) == k \in t.stale

Lock(w) ==
  /\ Busy(w)
  /\ \E k \in Wanted(txn[w]) :
       /\ ~LockedByOther(w, k)
       /\ ~ChangedSince(txn[w], k)
       /\ txn' = [txn EXCEPT ![w].held = @ \cup {k}]
  /\ UNCHANGED vars

Rollback(w) == txn' = [txn EXCEPT ![w] = Idle] /\ UNCHANGED vars

SerializationFailure(w) ==
  /\ Busy(w)
  /\ \E k \in Wanted(txn[w]) : ChangedSince(txn[w], k)
  /\ Rollback(w)

WaitsFor(w, v) ==
  /\ v # w /\ Busy(w) /\ Busy(v)
  /\ Wanted(txn[w]) # {}
  /\ Wanted(txn[w]) \cap txn[v].held # {}

\* Mutant of InDeadlock: nobody looks for deadlocks.
NoDeadlockDetection(w) == FALSE
\* PostgreSQL's deadlock detector breaks cycles of two transactions or more.
InDeadlock(w) ==
  \E path \in SUBSET Workers :
    /\ w \in path
    /\ \A a \in path : \E b \in path : WaitsFor(a, b)

DeadlockVictim(w) == InDeadlock(w) /\ Rollback(w)

Crash(w) == Busy(w) /\ Rollback(w)

-----------------------------------------------------------------------------
(* Committing: the columns that the procedure changed are written          *)

\* An UPDATE by primary key writes the columns in which "new" differs from
\* what was read.
Write(old, new) ==
  {IF Key(x) = Key(old)
   THEN [x EXCEPT !.transfer_id = IF new.transfer_id # old.transfer_id
                                  THEN new.transfer_id ELSE @,
                  !.finalized = @ \/ new.finalized # old.finalized,
                  !.error_code = IF new.error_code # old.error_code
                                 THEN new.error_code ELSE @]
   ELSE x : x \in running_transfer}

CommitInitiate(t) ==
  LET d == t.arg.debtor_id
      read == t.debtors[d]
  IN /\ ThrottleAllows(read, t.arg.elapsed)
     /\ read.running_transfers_count + 1 <= MaxActions
     /\ \A r \in RowsOf(d) : r.transfer_uuid # t.arg.transfer_uuid
     /\ cr_seq < MaxRequests
     /\ cr_seq' = cr_seq + 1
     /\ debtor' = [debtor EXCEPT ![d] = Counted(Throttled(read, t.arg.elapsed))]
     /\ running_transfer' = running_transfer \cup
          {[debtor_id |-> d, transfer_uuid |-> t.arg.transfer_uuid,
            coordinator_request_id |-> cr_seq', amount |-> t.arg.amount,
            recipient |-> t.arg.recipient, transfer_id |-> NoTransferId,
            finalized |-> FALSE, error_code |-> NoError]}
     /\ prepare_signals' = prepare_signals \cup
          {[debtor_id |-> d, coordinator_request_id |-> cr_seq',
            amount |-> t.arg.amount, recipient |-> t.arg.recipient]}
     /\ UNCHANGED <<finalize_signals, cancelled>>

CommitCancel(t) ==
  /\ running_transfer' = Write(t.arg, Modified(t, t.arg))
  /\ cancelled' = cancelled \cup {t.arg.coordinator_request_id}
  /\ UNCHANGED <<debtor, cr_seq, signalVars>>

CommitDelete(t) ==
  /\ running_transfer' = {r \in running_transfer : Key(r) # Key(t.arg)}
  /\ debtor' = [debtor EXCEPT ![t.arg.debtor_id].running_transfers_count = @ - 1]
  /\ UNCHANGED <<cr_seq, signalVars, cancelled>>

CommitDeactivate(t) ==
  /\ running_transfer' = {r \in running_transfer : Key(r) \notin t.held}
  /\ debtor' = [debtor EXCEPT ![t.arg.debtor_id].status = "deactivated",
                              ![t.arg.debtor_id].running_transfers_count = 0]
  /\ UNCHANGED <<cr_seq, signalVars, cancelled>>

CommitPrepared(t) ==
  /\ \/ \E r \in Subject(t) :
          /\ running_transfer' = Write(r, Modified(t, r))
          /\ finalize_signals' = finalize_signals \cup
               {FinalizeSignal(t.arg, AmountToCommit(r, t.arg))}
     \/ /\ Subject(t) = {}
        /\ finalize_signals' = finalize_signals \cup {FinalizeSignal(t.arg, 0)}
        /\ UNCHANGED running_transfer
  /\ UNCHANGED <<debtor, cr_seq, prepare_signals, cancelled>>

CommitResult(t) ==
  /\ \E r \in Subject(t) : running_transfer' = Write(r, Modified(t, r))
  /\ UNCHANGED <<debtor, cr_seq, signalVars, cancelled>>

\* The rows whose change becomes visible, for those who read them before.
Dirty ==
  {DebtorKey(d) : d \in {x \in Debtors : debtor'[x] # debtor[x]}} \cup
  {Key(r) : r \in running_transfer \ running_transfer'}

Commit(w) ==
  LET t == txn[w]
  IN /\ Busy(w)
     /\ Wanted(t) = {}
     /\ \/ t.op = "initiate" /\ CommitInitiate(t)
        \/ t.op = "cancel" /\ CommitCancel(t)
        \/ t.op = "delete" /\ CommitDelete(t)
        \/ t.op = "deactivate" /\ CommitDeactivate(t)
        \/ t.op = "prepared" /\ CommitPrepared(t)
        \/ t.op \in {"rejected", "finalized"} /\ CommitResult(t)
     /\ txn' = [v \in Workers |->
                  IF v = w THEN Idle
                  ELSE IF Busy(v) THEN [txn[v] EXCEPT !.stale = @ \cup Dirty]
                  ELSE txn[v]]
     /\ UNCHANGED authorityVars

\* The procedure raises an exception or finds nothing to change: the
\* transaction ends without effect.
EndWithoutEffect(w) ==
  LET t == txn[w]
  IN /\ Busy(w)
     /\ Wanted(t) = {}
     /\ \/ /\ t.op = "initiate"
           /\ \/ ~ThrottleAllows(t.debtors[t.arg.debtor_id], t.arg.elapsed)
              \/ t.debtors[t.arg.debtor_id].running_transfers_count + 1 > MaxActions
              \/ \E r \in RowsOf(t.arg.debtor_id) : r.transfer_uuid = t.arg.transfer_uuid
              \/ cr_seq = MaxRequests
        \/ t.op \in {"rejected", "finalized"} /\ Subject(t) = {}
     /\ Rollback(w)

-----------------------------------------------------------------------------
TxnInit == Init /\ txn = [w \in Workers |-> Idle]

External ==
  /\ (\E d \in Debtors : ActivateDebtor(d)) \/ AuthorityAnswers \/ AuthorityFinalizesSome
  /\ UNCHANGED txn

TxnNext ==
  \/ \E w \in Workers : \/ BeginSome(w) \/ Lock(w) \/ Commit(w) \/ EndWithoutEffect(w)
                        \/ SerializationFailure(w) \/ DeadlockVictim(w) \/ Crash(w)
  \/ External

TxnSpec == TxnInit /\ [][TxnNext]_allVars

\* Locks are granted in the order of waiting, hence strong fairness.
TxnFairness ==
  \A w \in Workers : /\ SF_allVars(Lock(w))
                     /\ WF_allVars(Commit(w) \/ EndWithoutEffect(w))
                     /\ WF_allVars(SerializationFailure(w))
                     /\ WF_allVars(DeadlockVictim(w))

TxnFairSpec == TxnSpec /\ TxnFairness

-----------------------------------------------------------------------------
(* Properties                                                              *)

\* However the statements of concurrent procedures interleave, the effect is
\* that of the atomic procedures of IssuingTransfers executed one at a time:
\* the unlocked read of _find_running_transfer (procedures.py:707-719) and the
\* unlocked count update (procedures.py:288-290) are safe.
Serializable == Spec

\* delete_running_transfer and deactivate_debtor lock the same rows in
\* opposite orders (procedures.py:279-290, 150-154): each transaction ends all
\* the same.
EveryTransactionEnds == \A w \in Workers : Busy(w) ~> ~Busy(w)
=============================================================================
