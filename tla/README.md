# A specification of the Swaptacular debtors agent

`swpt_debtors` is the *debtors agent* of a Swaptacular currency node.  A debtor
is the issuer of a currency.  The agent lets debtors issue money (by *issuing
transfers* out of the debtor's root account) and configure that account.  The
accounts themselves are kept by another program, the *accounting authority*;
the two talk by asynchronous messages.

This directory holds TLA+ modules translated from the source, TLC
configurations that check them on small instances, and proofs checked by TLAPS.
`PROJECT.json` maps definitions to source lines, and lists runs, mutants,
findings, hazards and theorems.

## 1. Inventory

| part | code | state | operations | module |
|---|---|---|---|---|
| issuing transfers | `procedures.py`, `actors.py` | table `running_transfer`, counters of `debtor`, sequence `coordinator_request_id_seq` | initiate, cancel, delete a transfer; handle PreparedTransfer, RejectedTransfer, FinalizedTransfer | IssuingTransfers |
| their transactions | `procedures.py` (`@atomic`) | snapshots, row locks | lock, fail, commit | TransferTransactions |
| debtor lifecycle, account configuration | `procedures.py`, `actors.py` | table `debtor` | reserve, activate, deactivate, restrict, update the configuration; handle RejectedConfig, AccountUpdate, AccountPurge | DebtorAccounts |
| reservations of debtor IDs | `routes.py:285-337`, `procedures.py:118-145` | table `debtor`, sequence of reservations | reserve, activate, activate directly | DebtorReservations |
| scanner | `table_scanners.py` | none of its own | delete debtors not activated for long, report configuration problems, delete records of the parent shard | DebtorReservations, DebtorAccounts, ShardSplit |
| throttling, documents | `procedures.py:608-704` | `actions_count`, `documents_count`, their reset dates, table `document` | count, reset, refuse; save, read | DebtorQuotas |
| outbox | `models.py:76-140, 351-442`, `cli.py:408-511` | signal tables | insert with the transaction, publish, delete | Outbox, AtLeastOnce |
| consumer, queue commands | `actors.py:180-249`, `cli.py:51-233, 307-405` | the queue at the broker | validate, dispatch, acknowledge, drain; subscribe, unsubscribe, delete the queue | IncomingQueue |
| shards | `models.py:41-48, 96-104`, `cli.py:236-279`, `table_scanners.py:184-211` | databases and queues of a parent and its children | who answers for a debtor; splitting, cleaning, verifying | ShardSplit |
| Web API, transfers | `routes.py:476-645` | none | POST, GET, DELETE | TransferClients |
| Web API, configuration | `routes.py:418-466`, `procedures.py:202-229, 758-789` | `config_latest_update_id` | GET, PATCH | ConfigClients |
| pagination | `procedures.py:91-115`, `routes.py:204-273` | none | pages of active debtors | DebtorList |
| permissions, schemas, start-up, deployment | `routes.py`, `schemas.py`, `specs.py`, `__init__.py`, `docker/` | none | see section 5 | - |

How they interact.  Web workers and message consumers call the same
procedures, each in a database transaction.  A procedure that has something to
say to the authority inserts a signal row in the same transaction; the flusher
publishes the row and then deletes it, so signals are sent at least once and
in any order.  The broker redelivers unacknowledged messages.  The scanner
walks over the debtors in its own transactions.

What makes this hard.  (a) Every message may be late, repeated or overtaken.
(b) The authority may answer a repeated request a second time, with a different
answer.  (c) Message handlers read the row of a transfer without a lock
(`procedures.py:466, 707-719`) while the debtor cancels or deletes it.
(d) Deletion and deactivation lock rows in opposite orders.  (e) Configurations
are ordered by the clocks of several machines.  (f) An account may be left over
at the authority from an earlier owner of the debtor ID.  (g) The scanner
chooses rows in one transaction and deletes them in another.  (h) Flushers and
consumers may be interrupted between any two steps, and work side by side.
(i) During the split of a shard two databases hold the same rows and signals.
(j) Clients repeat requests whose answer they have not seen, and several devices
change the same configuration.  Every such hazard is listed at its line in
`PROJECT.json`.

What makes each part correct: the result a debtor sees is the truth about the
money issued, each request issues at most once, confirmed cancellations hold,
nothing waits forever and no money stays locked (transfers); the counter
matches the rows; interleaved transactions have the effect of atomic ones
(transactions); the last configuration wins, problems become visible, orphaned
accounts disappear, foreign information is never published (accounts); what was
reported as activated is there, a valid reservation is honoured, each ID has one
owner (reservations); no more than the limit is done, and nobody is refused
without cause (quotas); a signal is deleted only after the broker has it, and
each gets through (outbox); no message is lost or blocks the queue (consumer);
a split loses nothing and ends (shards); each payment is made once, each answer
is true, no update overwrites what its author has not seen (clients); the list
of debtors is complete (pagination).

## 2. Modules

### IssuingTransfers: the coordinator of issuing transfers

Variables `debtor`, `running_transfer` and `cr_seq` are the database;
`prepare_signals`, `finalize_signals`, `prepared_msgs`, `rejected_msgs`,
`finalized_msgs` are everything ever sent.  A message in a set can be handled
at any time, many times or never: this covers loss, repetition, reordering and
the crash of a consumer between its commit and its acknowledgement.  `ledger`
is the authority (external).  `cancelled` is a history variable.

One action is one `@atomic` procedure with all it changes: `InitiateTransfer`,
`CancelTransfer`, `DeleteTransfer`, `DeactivateDebtor` (its effect on the
transfers), `ActivateDebtor`, `ProcessPrepared`, `ProcessRejected`,
`ProcessFinalized`.  Early returns that change nothing are stutters and have no
action.  `AuthorityPrepares`, `AuthorityRejects`, `AuthorityFinalizes` are the
other side.  Two constants say how well the authority behaves: `AaAnswersOnce`
(it recognises a repeated PrepareTransfer) and `AaEchoes` (its answers repeat
the account, the recipient and the amount of the request).

Abstracted: notes, formats and URIs, the deadline, the interest rate and the
`total_locked_amount` of a rejected transfer, timestamps.  The 30 days of the
monthly counter are a free choice (`elapsed`).

### IssuingPromise and IssuingTransfersRefinement

`IssuingPromise` is the abstract specification: requests, what the debtor sees
of each, and the money, with no messages or rows.  `Fail` is only allowed when
nothing can be issued any more, `Succeed` only when all of it has been.
`IssuingTransfersRefinement` gives the refinement mapping, and `KeepsPromise`
states that every behaviour of the coordinator is one of the promise.

### TransferTransactions

The same procedures, statement by statement, run by `Workers`.  `Begin` takes
the snapshot, `Lock` takes the next row lock in the order of the statements
(`FirstLocks`, `SecondLocks`), `Commit` applies what the procedure makes of its
*snapshot*.  A transaction fails when a row it wants has changed since
(`SerializationFailure`), to break a deadlock, or by a crash.  `Serializable`
is the specification of IssuingTransfers: locks and failures give atomicity.
The isolation level, REPEATABLE READ with retries, comes from the `atomic`
decorator of the library `swpt_pythonlib`; it is not in this repository and is
the assumption this module rests on.  The mutant `NeverChanged` shows what
READ COMMITTED would do: the unlocked read in the PreparedTransfer handler
would lose a cancellation.

### DebtorAccounts: lifecycle and configuration

`debtor` is the row, `configure_signals`, `account_updates`,
`rejected_configs`, `purges` the messages, `account` the account at the
authority (external), which may be left over from another owner.  One action
per procedure: `ReserveDebtor`, `ActivateDebtor`, `DeactivateDebtor`,
`RestrictDebtor`, `UpdateConfig` (`RepeatUpdate` when it is already up to date),
`ProcessRejectedConfig`, `ProcessAccountPurge`, `ProcessAccountUpdate`
(`AdoptUpdate` or `DiscardOrphan`), and for the scanner `DeleteNotActivated`
and `SetConfigError`.  Every sending procedure stamps the row by
`Stamped` (`_insert_configure_account_signal`).

Clocks are readings out of `ApiTimes` and `ConsumerTimes`, in any order; one
reading of a consumer is later than all of the API, because orphans can only be
discarded once the consumer's clock has passed the last configuration's time.
`last_change_ts` and `last_change_seqnum` are one counter, `change`.
`config_flags` is its deletion mark.  The comparison of `min_balance` with
`negligible_amount` within EPS is equality.  The effect of missing heartbeats is
modelled by what causes them: there is no account.  AccountUpdate messages of a
purged account may still come after the purge has been handled for the last
time, which is why `purges`, alone among the messages, may lose elements.
Deactivation also deletes the transfers; that part is in IssuingTransfers.

The debtors of a database do not share rows, so the runs have one debtor; the
transfers of several debtors share the request sequence only, and the theorems about
IssuingTransfers are for any number of debtors.

### DebtorReservations: reserving and activating debtor IDs

`debtor[d]` is the row (or `NoRow`), `client` what each client was told,
`chosen[s]` what scanner s has read and not yet deleted.  `ReserveDebtor` serves
the endpoint `/reserve`, and the first half of a direct activation
(`routes.py:326-331`), which reserves and activates in two transactions;
`CrashBetween` separates them.  `ActivateDebtor` serves the endpoint and the
message, any number of times.  The scanner is two steps: `ChooseRows` reads
without locks, `DeleteRows` locks what it can (`skipped` are the rows locked by
others) and looks again (`StillChosen`).  A reservation is valid until
`CalcReservationDeadline`; days are the clock.

### DebtorQuotas: the two limits, and the documents

Both throttles (`_throttle_debtor_actions`, `_throttle_document_saves`) are one
definition over `Quotas`: a count, a reset date, a period and a maximum.  The
counter is reset when the quota is *used* after its period, not by the calendar,
so that up to twice the maximum can fall into one period (never more, which is
what `AtMostTwicePerPeriod` says).  An exception rolls back the reset with
everything else.  `SaveDocument` answers with the location of the document;
documents stay when the debtor is deactivated.

### Outbox and AtLeastOnce

`Outbox` has the rows of the signal tables, and for each flusher the rows it has
locked and the messages it has not published yet: `LockBatch` (SKIP LOCKED,
`BurstCount`), `CreateMessages` (`Signal._create_message`: a left-over of the
parent shard gives no message, a signal of a stranger raises an error and so
fails the whole batch: `RefuseBatch`), `Publish`, `DeleteBatch`, and `Interrupt`
at any of these places.  `AtLeastOnce` is the abstract promise: committed
signals are sent, maybe often, and forgotten only after that.  `KeepsPromise` is
the refinement.  The growing sets of signals in IssuingTransfers and
DebtorAccounts are this promise as seen by the authority.

### IncomingQueue

The queue at RabbitMQ (external): `ready` messages, and `unacked[c]` those
delivered to a consumer.  `Process` commits, `Acknowledge` comes after it, and
`Interrupt` may come in between; `Reject` is for malformed messages, which go to
the dead letters; `Fail` is the RuntimeError for a debtor of another shard, which
ends the consumer.  `Pause` and `Resume` are the draining mode, which the library
implements (external).  `Unsubscribe`,
`CheckQueue` and `DeleteQueue` are the commands; `delete_queue` looks at the
number of ready messages and deletes in two separate requests.  The constant
`DeletedWhileIdle` says whether the operator keeps consumers away in between.

### ShardSplit

A parent shard and two children: their queues, processes, rows, effects and
signals, the option DELETE_PARENT_SHARD_RECORDS, and the steps of the operator
(`SubscribeChildren` .. `ClearOption`, after the README and the help texts of the
commands).  `HandleMessage`, `HandleRequest`, `Flush`, `DeleteParentShardDebtor`
and `VerifyShardContent` are coarser than in their own modules, which is
justified there: what the outbox does is `AtLeastOnce`, what the consumer does is
"at least once, or still in the queue".

### TransferClients and ConfigClients

The clients of the Web API: how they repeat requests, and what they may conclude
from the answers.  In `TransferClients`, a client chooses a UUID (or, by mistake,
one that is in use), repeats its POST until it is answered, polls, and deletes.  It
may also repeat a request that was refused for a limit.  `Outcome` is the decision of
`initiate_running_transfer` in its order: the transfer exists (303) or another one has
its UUID (409), the debtor is not active (404), one of the two limits is reached
(403), or the transfer is created (201).  Both limits are freed again: the one of
`actions_count` when 30 days have passed (`elapsed`, a free choice; how the days are
counted is DebtorQuotas), the one of `running_transfers_count` when any transfer of the
debtor is deleted.  Updates of the configuration count too (`CountUpdate`).  The debtor
is active at first, and `Deactivate` deletes its rows for good.

So a 403 is not final: a delayed copy of the refused request can be performed later.
`AnswerIsTrue` says that it is true at the moment it is given: no earlier copy has been
performed, because the row is looked for before the limits are.  A 303 and a 409
stay true, and after a 404 no copy is performed any more (one may have been before the
deactivation).  Clients delete a transfer only when no request for its UUID is on its
way (`WaitsToDelete`, after `routes.py:630-633`); without this a late copy would pay
again, and nothing in the code prevents that.  Where rows go with the debtor, clients
need not wait: the debtor is looked at again.

In `ConfigClients` devices read the
configuration, change it, and PATCH it with the next update ID; `AlreadyUpToDate`
and `UpdateConflict` are the two branches of `_allow_update`.  Whether the monthly limit
refuses the request is a free choice there.  A repeated PATCH can be
refused for the limit although its first copy was performed, because the limit
is looked at first; a repeated POST cannot.

### DebtorList

`Enumerate` is one page of `/debtors-list`: `Page` is what is shown, `NextStart` the
extra row that tells where the next page starts.  Rows of another shard are left
out of the page but count in it.  Debtors are activated and deactivated between
pages.

### MC modules

A run has one module that gives values to the constants.  Two components that
share no state are checked in one run (`MCMessaging`, `MCDebtorTable`,
`MCWebClients`, `MCWebService`).  Such a module EXTENDS both, and the variable `side`,
chosen in the initial state, says which of them works; the other one rests in its
initial state.  Nothing is lost by this, since the behaviours of either are all
there.  The theorems are about the specification of each component by itself.  So
that both can be extended, the second one of each pair names its specification after
itself: `QueueSpec` (IncomingQueue), `SplitSpec` (ShardSplit), `TransfersSpec`
(TransferClients), `ListSpec` (DebtorList), and likewise their initial states,
next-state relations and type invariants.  A liveness property of one side is
stated in the MC module as "when this side works" (`BegunSplitCompletes`).
`MCTransferAnswers` chooses in the same way between an
authority that answers repeatedly and one that answers with other accounts and
amounts, `MCDebtorAccounts` between clocks that disagree and accounts left over or
changing by themselves, and `MCTransferTransactions` between the transactions of one
transfer and those of the row that counts the transfers.

### Proof modules

| module | proves about |
|---|---|
| IssuingTransfers_proofs, IssuingOutcomes_proofs | IssuingTransfers and its refinement of IssuingPromise |
| TransferTransactions_proofs | TransferTransactions, and its refinement of IssuingTransfers |
| DebtorAccounts_proofs | DebtorAccounts |
| DebtorTable_proofs | DebtorReservations, ShardSplit |
| Messaging_proofs | Outbox and its refinement of AtLeastOnce, IncomingQueue |
| WebClients_proofs | ConfigClients, TransferClients |
| WebService_proofs | DebtorQuotas, DebtorList |

## 3. Runs

| run (cfg) | asks | bounds |
|---|---|---|
| transfers_safety (TransfersSafety) | with an authority that answers once: `TypeOK`, `CountMatches`, `FailureMeansNothingIssued`, `ResultsAreFinal`, and `KeepsPromise`, the refinement | 3 requests on 2 UUIDs (a UUID is reused after deletion, two run at once), amounts 0 and 1, 2 prepared transfers |
| transfers_answers (TransfersAnswers) | with repeated answers, or with answers about other accounts, recipients and amounts: `CancelledNeverCommitted`, `AtMostOneCommit`, `SuccessMeansIssued`, and in the end `EventuallyFinalized`, `NothingStaysLocked` | 2 requests, 2 transfer IDs: a second prepared transfer can meet a settled, cancelled or deleted row; amounts 1 and 2, so that too little can be locked |
| transactions (Transactions) | `Serializable`, `EveryTransactionEnds` | 2 workers on one debtor: all procedures and handlers on one transfer, used twice; initiations, deletions and deactivation with two transfers and their counter; lock cycles occur |
| accounts (Accounts) | `TypeOK`, `CurrentConfigWins`, `InfoIsOwn`, and in the end `ProblemsSurface`, `OrphansGo` | 3 own configurations (a change of the information and a deactivation after activation), clocks that go back, 2 limits, a late discard, balance changes |
| messaging (Messaging) | `KeepsPromise`, `OnlyOwnSent`, `RepeatedOnlyByInterruptions`, `EveryRowIsFlushed`; `NothingIsLost`, `EveryMessageIsSettled` | 2 flushers, bursts of 2, 2 own signals, a left-over, a stranger, 2 interruptions; 2 consumers, 2 good messages, a malformed and a foreign one, 1 crash |
| debtor_table (DebtorTable) | `ToldIsTrue`, `ValidIsHonoured`, `OneOwner`, `UnusedIsFreed`; `NoTaskIsLost`, `OnlyTheOwnerSends`, `VerifiedStaysClean`, `BegunSplitCompletes`, `EveryChangeIsAnnounced` | 3 clients and 2 scanners on one ID over 5 days; a split with 2 debtors, a message and 2 requests |
| web_clients (WebClients) | `NoLostUpdate`, `ConfirmedWasInForce`; `PaidOnce`, and of the steps `AnswerIsTrue` | 2 devices, 2 configurations, 2 updates; 3 clients with 3 UUIDs and 2 payments, both limits 2, so that the third payment waits for a limit to be freed |
| web_service (WebService) | `AtMostTwicePerPeriod`, `RefusedForCause`; `EachOnceInOrder`, `NoneIsMissing` | 7 days with periods of 1 and 2; 5 debtors, one of another shard, pages of 1, 3 changes |
| transfers_late_rejection | violation of `UnsuccessfulIssuedZero` | finding 1 |
| transfers_zero_amount | violation of `SuccessIsPositive` | finding 2 |
| accounts_stale_rejection | violation of `RejectionIsCurrent` | finding 3 |
| queue_in_use | violation of `QueueInUseIsKept` | finding 4 |

Bounds.  The constants named `Max...` and the sizes of the sets are the only
bounds.  Each is chosen so that the case that can go wrong occurs: every property
has a mutant, a plausible mistake in the code, that TLC finds in the same run.
Sequence numbers of configurations are taken modulo `SeqnumModulus`; a wrap within
one timestamp would take 2^31 updates and is not reached, so how the number
wraps around (`procedures.py:725`) is not examined.  In a small instance one
conversation is looked at (one debtor's row, one queue), since rows of different
debtors are independent.  All runs set `CHECK_DEADLOCK FALSE`: the system stops when
the bounds are used up.  Symmetry is used in safety runs only.

Fairness.  Weak fairness of every message handler and of every kind of step of
the authority: the consumer runs in a loop and the broker redelivers until it
acknowledges, the flusher retries until signals are sent, the scanner comes
round forever, and the authority is assumed to answer each request at least once (with
what it likes: nothing forces a rejection after a preparation) and to act on
finalizations.  No fairness is
assumed of debtors, clients or administrators, except that an operator who has begun
to split a shard goes on.  Weak fairness of an existential over
messages does not promise each message its turn; it suffices because a handled
message stops being useful (it would be a stutter), so the useful ones run out.
In TransferTransactions: a worker that can go on does (`TxnFairSpec`).  In Outbox and
IncomingQueue the supervisor starts an ended process again, and interruptions are
bounded: with endless interruptions nothing can be promised.  Two assumptions are
strong fairness: a consumer that drains the queue with pauses is delivered a message
between them (`Deliver`), and a row the scanner has chosen is not locked by somebody
else each time (`DeleteRows(s, {})`).

`EventuallyFinalized` needs an authority that echoes the request.  With answers
that do not match, the agent dismisses the prepared transfer and the row waits
for a debtor to cancel it; this is what the code does, and the property names this
exception (`Misanswered`).  `EveryRowIsFlushed` and `EveryMessageIsSettled` name theirs:
a signal the shard is not responsible for fails every batch it is in, and a message
for another shard is put back and taken again.

### Findings

1. *A late rejection hides issued money.*  `procedures.py:426` lets a
   RejectedTransfer finalize a row whose transfer has been committed already.  If
   the authority answers a repeated PrepareTransfer twice, the API shows a
   failure with amount zero for money that was issued.  With an authority that
   answers once, the property holds (transfers_safety).
2. *A successful amount need not be positive.*  Amount zero is accepted, against
   the description of the committed amount in `schemas.py:778-779`.
3. *A configuration error outlives its configuration.*  `config_error` is not
   cleared when a new configuration is sent, against `schemas.py:613-616`.
4. *A queue in use is deleted.*  `delete_queue` looks at the number of *ready*
   messages only (`cli.py:227-228`), and deletes a queue whose consumers hold
   messages they have not acknowledged, against `cli.py:192` ("or is currently in
   use").  If such a consumer crashes, its messages are lost.  When no consumer
   runs from the check to the deletion, nothing is lost (messaging).

## 4. Proofs

TLAPS proves for every value of the constants (any number of debtors, UUIDs,
amounts, workers, shards, any bounds) what the runs show on small instances.  Every
safety property, action property and refinement that a passing run checks is a
theorem; liveness is not.  Each inductive invariant was checked by TLC on the
instance of its run before it was proved.

`IssuingTransfers_proofs`, without any assumption on how well the authority
behaves (`AaAnswersOnce` and `AaEchoes` are open):

* `TypeCorrect` (`TypeOK`) and `CountCorrect` (`CountMatches`).  The invariant is
  `CountInv`: types, `Identified` (a request number determines its row and has
  been drawn from the sequence, so a new row is new), finiteness of the table,
  and the count itself.  Finiteness is needed because cardinalities are.
* `CancellationHolds` (`CancelledNeverCommitted`) and `CommittedOnce`
  (`AtMostOneCommit`).  `CommitInv` relates signals to rows: a request with a
  commit signal has either no row any more or a row with that very transfer ID,
  which is never replaced; a cancelled request has none; and requests that are
  not drawn yet have neither.  Neither property is inductive alone, since a
  signal is sent for a row whose history it does not mention.

`IssuingOutcomes_proofs`, about the results debtors see:

* `ResultsStay` (`ResultsAreFinal`), from `CountInv`: a handler changes the one row it
  has found, and a finalized row not at all.
* `SuccessIsBacked` (`SuccessMeansIssued`), whatever the authority answers.
  `OutcomeInv` follows a prepared transfer around: it is in the ledger once, each
  signal is about a prepared transfer (`SignalsPrepared`), what is reported as
  finalized has the fate the ledger says (`FinalizedInLedger`), a settled row is
  settled with a transfer that was prepared for it and finalized with no other
  amount (`SettledRight`), and a transfer a row may still be settled with has not
  been finalized before (`Undecided`).  The last one is the heart of it: otherwise an
  early dismissal could be taken for the row's own result.
* `FailureIsFree` (`FailureMeansNothingIssued`), for an authority that answers each
  request once and echoes it (`AaAnswersOnce`, `AaEchoes`).  `AnswersExclude`: nothing is
  both prepared and rejected.  Finding 1 shows that the first assumption is needed.
* `CoordinatorKeepsPromise` (`KeepsPromise`), under the same assumptions: the refinement
  of IssuingPromise.  `RefInv` adds that a request is asked for and prepared once
  (`AskedOnce`, `AnsweredOnce`), is committed in full (`CommitsFull`), that a settled row
  has been told to the authority (`SettledSent`: a redelivered PreparedTransfer then
  says the same again, a stutter), and that the authority executes nothing unasked.
  One lemma per kind of step says which step of the promise it is; e.g. what
  the authority finalizes decides the request whose commit is about that transfer, also
  when what it acts on is a later dismissal of the same transfer.

`TransferTransactions_proofs`, for any number of workers and any authority:

* `TransactionsSerialize` (`Serializable`): every step of the concurrent transactions
  is a step of IssuingTransfers or changes nothing there, so the procedures may be
  thought of as atomic.  The invariant `TxnInv` says what an open transaction may
  rely on.  `FreshIsTrue`: what it has read, and nobody has changed since, is still in
  the tables; and an active debtor whose row has not changed has got no new transfers
  (initiating changes the debtor's row, which is why this is enough).
  `RowsReadEvolve`: a row that has changed since is gone or has changed only in the
  columns that change (`Evolves`): its terms stay, a transfer ID that is there stays, and
  a finalized row gets none.  `LocksExclude` and `LocksFresh`: a lock is held by one
  transaction, and only on a row that has not changed since its snapshot.
  `ArgumentsRight`: what has been decided before the first lock.
  It follows that a transaction which has all its locks commits what the atomic
  procedure would.  The transactions that lock nothing are the interesting ones: a
  PreparedTransfer whose row is settled or finalized in the snapshot only sends a
  signal, and may do this however old its snapshot is, because the row would still give
  the same answer (`SettledTold`: a settled row has been told to the authority, so that
  telling it again changes nothing).
* `ConcurrentCountCorrect`, `ConcurrentCancellationHolds` and
  `TransactionsKeepPromise` compose this with the theorems about IssuingTransfers: the
  concurrent system keeps `CountMatches` and `CancelledNeverCommitted`, and, for an
  authority that answers once and echoes, implements IssuingPromise.

`DebtorAccounts_proofs`:

* `AccountsTypeCorrect` (`TypeOK`), including the limit of the counter.
* `OnlyOwnInfo` (`InfoIsOwn`).  `InfoInv` adds `Configured`: the present
  configuration of an active debtor has been sent and is not a deletion.  An
  AccountUpdate is adopted as information only if it shows this configuration.
* `PresentConfigWins` (`CurrentConfigWins`), for any clocks, assuming `ShortCycle`: fewer
  signals than half of the sequence numbers.  The inductive form is `SentInOrder`:
  sequence numbers count the signals, while the times never go back.

`Messaging_proofs`, for any number of flushers, signals, consumers, messages,
interruptions and crashes:

* `OutboxTypeCorrect`, `OnlyOwnSentHolds` and `RepeatedOnlyByInterruptionsHolds`.
  `BatchesInv`: batches are disjoint sets of existing rows.  `RepeatInv`: a
  signal still to be published has been published at most as often as there were
  interruptions, any other one at most once more.
* `OutboxKeepsPromise` (`KeepsPromise`): the refinement of AtLeastOnce, step by step.
  It rests on the fact that what a flusher no longer has to publish, and does not
  ignore, has been sent.
* `NothingIsEverLost` (`NothingIsLost`), assuming `DeletedWhileIdle`, the operator's
  discipline (finding 4 shows that it is needed), and `NothingIsLostBefore` without the
  assumption: as long as the queue exists, no message is lost.  `QueueInv` says how
  far the deletion is (`DeletionInv`), that a queue which was found empty is not in use
  (`IdleInv`), and that what a consumer has handled is a good message (`WindowsInv`).

`DebtorTable_proofs`, for any number of clients, IDs and scanners, and of children,
debtors, messages and requests of a split:

* `ToldActivationsAreTrue`, `DebtorsHaveOneOwner` and `ActivatedDebtorsStay`: an
  activated row is never removed or changed, however old the scanner's choice is.
  `SequenceInv` says that reservation IDs come out of a sequence, so that an ID
  known to a client identifies its reservation, although rows come and go.
* `ValidReservationsAreHonoured`: `DeadlineInv` and `CutoffInv` bring together the day
  the row was created, the deadline the client was told and the scanner's cutoff.
* `SplitLosesNoTask` (`NoTaskIsLost`), `OnlyOwnersSend` (`OnlyTheOwnerSends`) and
  `VerifiedShardsStayClean` (`VerifiedStaysClean`).  `SplitInv` adds which queues are
  bound and which processes run in each phase (`PhaseInv`), that the parent's queue
  stays empty after its deletion (`ParentQueueInv`), and that no shard loses
  the row of a debtor it answers for (`RowsInv`): the scanner deletes the others only.

`WebService_proofs`, for any periods and maxima, and for any set of debtors, page size and
number of changes:

* `QuotasTypeCorrect`, `AtMostTwice`, `RefusalsHaveCause`, `AnsweredDocumentsStay`.
  `QuotaInv` relates the counter to the list of what was permitted: the last `count`
  entries are not older than the reset date, the entries before them not younger, and
  entries a further maximum back are more than a period older than the reset date.
* `PagesAreInOrder` (`EachOnceInOrder`) and `NoDebtorIsSkipped` (`NoneIsMissing`).
  `ListInv`: what is listed is below the next page (`ProgressInv`); a debtor that has been
  active from the start is listed or on a page to come (`SteadyInv`).  The lemmas
  about `Smallest` (the ORDER BY and LIMIT of the query) say that nothing lies between a
  page and the start of the next one.  That a finite set has a least element is taken
  from the well-foundedness of strict inclusion, as induction on its size is out of reach.

`WebClients_proofs`, for any number of devices and updates, and any number of clients,
UUIDs and requests on their way:

* `ConfigTypeCorrect`, `NoUpdateIsLost`, `ConfirmedConfigsWereInForce`.  The invariant
  (`RequestsInv`, `DevicesInv`) says that the configuration a device or a request has
  seen under an update ID is the one the history has under that ID.
* `NothingPaidTwice` (`PaidOnce`) and `AnswersAreTrue` (`AnswerIsTrue`), assuming
  `WaitsToDelete` (see section 2).  The invariant (`TransfersInv`)
  relates four places: while the debtor is active, a payment that was made has a row or
  its UUID is dead (`PaymentsKnown`: deleted, with no request for it under way), and
  afterwards there are no rows; every row is of a payment (`RowsPaid`); what a client
  was told for good stays true (`AnswersStay`); and the requests under
  way are those of their clients (`Owned`).  `AnswerIsTrue` is about steps: a refusal is
  judged when it is given (`RefusalTrue`), and the answer that the debtor is gone by
  what may still happen (`GoneIsFinal`).

The assumptions are the named ASSUMEs of the modules (amounts are natural numbers,
bounds too, null values are not values, sets that hold different things are disjoint, a
debtor belongs to one child, the IDs of a page are integers, a page has room for a row, a
consumer's clock passes the API's), and those named with a theorem: `AaAnswersOnce` and
`AaEchoes` for `FailureIsFree`, `CoordinatorKeepsPromise` and `TransactionsKeepPromise`,
`ShortCycle` for `PresentConfigWins`, `WaitsToDelete` for the two theorems about payments,
`DeletedWhileIdle` for `NothingIsEverLost`.

Only model-checked: the liveness properties (`EventuallyFinalized`,
`NothingStaysLocked`, `EveryTransactionEnds`, `ProblemsSurface`, `OrphansGo`,
`EveryRowIsFlushed`, `EveryMessageIsSettled`, `UnusedIsFreed`, `BegunSplitCompletes`,
`EveryChangeIsAnnounced`): they depend on fairness and ENABLED, which this prover cannot
handle.  The four violations are counterexamples of TLC, there is nothing to prove.

## 5. Not modelled, and the plan

Left out on purpose:

* who may call which endpoint (`routes.py:28-119`): a function of the request's
  headers, with no state, which unit tests cover;
* formatting, parsing and validation of JSON (`schemas.py`, `specs.py`), the HTTP
  headers and the caching of documents; what the schemas show of a transfer's result
  is what the properties of IssuingTransfers are about;
* configuration, logging and start-up (`__init__.py`, `extensions.py`, `wsgi.py`), the
  migrations, the deployment;
* merging of shards, for which there is no code.

The accounting authority, the broker and PostgreSQL are external, and modelled by
what the agent has to expect of them.  That the scanner's walk comes to every row
again and again is a matter of the library `swpt_pythonlib`, and is the fairness of
the scanner's actions here.

What remains: state the other consequences of `Serializable` (the results and
commitments of IssuingTransfers_proofs hold of TransferTransactions as well), and prove
the safety facts the liveness properties rest on, such as that a row without a result has
a message under way.
