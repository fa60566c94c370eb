------------------------------- MODULE Outbox --------------------------------
(***************************************************************************)
(* The outbox: signal rows are inserted by the procedures, in the same     *)
(* transaction with the change they announce, and the processes of         *)
(* "flush_messages" send them to the message broker and delete them.       *)
(*                                                                         *)
(* A flusher locks some rows, skipping those another flusher has locked,   *)
(* turns them into messages, publishes the messages one after another,     *)
(* deletes the rows, and commits.  It may be interrupted between any two   *)
(* of these steps; then its locks are released and its rows stay.          *)
(***************************************************************************)
EXTENDS Integers, FiniteSets

CONSTANTS
  OwnSignals,        \* signals of debtors for which is_valid_debtor_id holds
  ParentSignals,     \* of debtors that only the parent shard was responsible for
  StrangeSignals,    \* of debtors that neither is responsible for
  InitialSignals,    \* rows that may be in the table from the start
  Flushers,          \* the processes started by flush_messages
  BurstCount,        \* APP_FLUSH_..._BURST_COUNT
  DeleteParentShardRecords,  \* the configuration option
  MaxInterruptions   \* bound on the number of interruptions

Signals == OwnSignals \cup ParentSignals \cup StrangeSignals

ASSUME SignalsAssumption ==
  /\ OwnSignals \cap (ParentSignals \cup StrangeSignals) = {}
  /\ ParentSignals \cap StrangeSignals = {}
  /\ InitialSignals \subseteq Signals
ASSUME BoundsAssumption == BurstCount \in Nat \ {0} /\ MaxInterruptions \in Nat
ASSUME OptionAssumption == DeleteParentShardRecords \in BOOLEAN

VARIABLES
  table,          \* committed signal rows
  publications,   \* how many times each signal has been given to the broker
  stage,          \* stage[f]: what flusher f is doing
  batch,          \* batch[f]: the rows that f has locked
  unpublished,    \* unpublished[f]: messages created by f and not published yet
  interruptions   \* number of interruptions so far

flusherVars == <<stage, batch, unpublished>>
vars == <<table, publications, flusherVars, interruptions>>

Stages == {"down", "ready", "locked", "publishing"}

\* Types; a flusher works on rows that exist.
TypeOK ==
  /\ table \subseteq Signals
  /\ publications \in [Signals -> Nat]
  /\ stage \in [Flushers -> Stages]
  /\ batch \in [Flushers -> SUBSET Signals]
  /\ unpublished \in [Flushers -> SUBSET Signals]
  /\ interruptions \in Nat
  /\ \A f \in Flushers : unpublished[f] \subseteq batch[f] /\ batch[f] \subseteq table

Init ==
  /\ table \in SUBSET InitialSignals
  /\ publications = [s \in Signals |-> 0]
  /\ stage = [f \in Flushers |-> "down"]
  /\ batch = [f \in Flushers |-> {}]
  /\ unpublished = [f \in Flushers |-> {}]
  /\ interruptions = 0

Sent == {s \in Signals : publications[s] > 0}
Locked == UNION {batch[f] : f \in Flushers}

-----------------------------------------------------------------------------
(* Inserting.                                                              *)

\* A procedure commits.  Only procedures of debtors of this shard run here.
CommitSignal(s) ==
  /\ s \in OwnSignals \ (table \cup Sent)
  /\ table' = table \cup {s}
  /\ UNCHANGED <<publications, flusherVars, interruptions>>

-----------------------------------------------------------------------------
(* Flushing.                                                               *)

\* Signal._create_message gives no message for a left-over of the parent ...
Ignored(s) == DeleteParentShardRecords /\ s \in ParentSignals

\* ... and raises an error when the shard is not responsible for the debtor.
Refused(s) == s \notin OwnSignals /\ ~Ignored(s)

\* The process starts, or is started again by the supervisor.
Start(f) ==
  /\ stage[f] = "down"
  /\ stage' = [stage EXCEPT ![f] = "ready"]
  /\ UNCHANGED <<table, publications, batch, unpublished, interruptions>>

\* Mutant of LockBatch: rows locked by another flusher are not skipped.
LockBatchNotSkipping(f) ==
  /\ stage[f] = "ready"
  /\ \E rows \in SUBSET table :
       /\ rows # {}
       /\ Cardinality(rows) <= BurstCount
       /\ batch' = [batch EXCEPT ![f] = rows]
  /\ stage' = [stage EXCEPT ![f] = "locked"]
  /\ UNCHANGED <<table, publications, unpublished, interruptions>>

\* SELECT ... LIMIT BurstCount FOR UPDATE SKIP LOCKED.
LockBatch(f) ==
  /\ stage[f] = "ready"
  /\ \E rows \in SUBSET (table \ Locked) :
       /\ rows # {}
       /\ Cardinality(rows) <= BurstCount
       /\ batch' = [batch EXCEPT ![f] = rows]
  /\ stage' = [stage EXCEPT ![f] = "locked"]
  /\ UNCHANGED <<table, publications, unpublished, interruptions>>

\* Mutant of CreateMessages: every signal gives a message.
CreateAllMessages(f) ==
  /\ stage[f] = "locked"
  /\ unpublished' = [unpublished EXCEPT ![f] = batch[f]]
  /\ stage' = [stage EXCEPT ![f] = "publishing"]
  /\ UNCHANGED <<table, publications, batch, interruptions>>

\* All the messages are created before the first of them is published.
CreateMessages(f) ==
  /\ stage[f] = "locked"
  /\ \A s \in batch[f] : ~Refused(s)
  /\ unpublished' = [unpublished EXCEPT ![f] = {s \in batch[f] : ~Ignored(s)}]
  /\ stage' = [stage EXCEPT ![f] = "publishing"]
  /\ UNCHANGED <<table, publications, batch, interruptions>>

\* The transaction is rolled back, and the process ends.
Rollback(f) ==
  /\ stage' = [stage EXCEPT ![f] = "down"]
  /\ batch' = [batch EXCEPT ![f] = {}]
  /\ unpublished' = [unpublished EXCEPT ![f] = {}]
  /\ UNCHANGED <<table, publications>>

\* One refused signal fails the whole batch: RuntimeError, then sys.exit(1).
RefuseBatch(f) ==
  /\ stage[f] = "locked"
  /\ \E s \in batch[f] : Refused(s)
  /\ Rollback(f)
  /\ UNCHANGED interruptions

Publish(f, s) ==
  /\ stage[f] = "publishing"
  /\ s \in unpublished[f]
  /\ publications' = [publications EXCEPT ![s] = @ + 1]
  /\ unpublished' = [unpublished EXCEPT ![f] = @ \ {s}]
  /\ UNCHANGED <<table, stage, batch, interruptions>>

\* Mutant of DeleteBatch: the rows are deleted without waiting for the broker.
DeleteBatchEarly(f) ==
  /\ stage[f] = "publishing"
  /\ table' = table \ batch[f]
  /\ batch' = [batch EXCEPT ![f] = {}]
  /\ stage' = [stage EXCEPT ![f] = "ready"]
  /\ unpublished' = [unpublished EXCEPT ![f] = {}]
  /\ UNCHANGED <<publications, interruptions>>

\* Everything is published and confirmed: the rows are deleted.
DeleteBatch(f) ==
  /\ stage[f] = "publishing"
  /\ unpublished[f] = {}
  /\ table' = table \ batch[f]
  /\ batch' = [batch EXCEPT ![f] = {}]
  /\ stage' = [stage EXCEPT ![f] = "ready"]
  /\ UNCHANGED <<publications, unpublished, interruptions>>

\* A crash, a lost connection, a message the broker returns because no queue
\* is bound (mandatory=True), or a signal to stop between two flushes.
Interrupt(f) ==
  /\ stage[f] # "down"
  /\ interruptions < MaxInterruptions
  /\ interruptions' = interruptions + 1
  /\ Rollback(f)

\* Mutant of Flush: a batch that gives no messages is left where it is.
FlushOnlyMessages(f) ==
  \/ LockBatch(f)
  \/ CreateMessages(f)
  \/ RefuseBatch(f)
  \/ \E s \in Signals : Publish(f, s)
  \/ batch[f] \subseteq OwnSignals /\ DeleteBatch(f)

Flush(f) ==
  \/ LockBatch(f)
  \/ CreateMessages(f)
  \/ RefuseBatch(f)
  \/ \E s \in Signals : Publish(f, s)
  \/ DeleteBatch(f)

Next ==
  \/ \E s \in Signals : CommitSignal(s)
  \/ \E f \in Flushers : Start(f) \/ Flush(f) \/ Interrupt(f)

Spec == Init /\ [][Next]_vars

\* The supervisor restarts a process that ended, a running process goes on.
Fairness == \A f \in Flushers : WF_vars(Start(f)) /\ WF_vars(Flush(f))

FairSpec == Spec /\ Fairness

-----------------------------------------------------------------------------
(* Properties.                                                             *)

\* The shard says nothing about debtors of another shard (models.py:96-104),
\* also when one batch mixes them with its own.
OnlyOwnSent == Sent \subseteq OwnSignals

\* Signals are repeated only because of interruptions: two flushers never work
\* on the same row (README "FLUSH_PROCESSES"; rows are locked until deleted).
RepeatedOnlyByInterruptions ==
  \A s \in Signals : publications[s] <= 1 + interruptions

\* Once interruptions stop, each own signal is sent and its row is deleted,
\* and with the option turned on each left-over of the parent disappears.  Only
\* a signal that is refused can hold up others (it shares batches with them).
Clean == table \subseteq OwnSignals \cup {s \in ParentSignals : DeleteParentShardRecords}
EveryRowIsFlushed ==
  \A s \in Signals : Clean /\ s \in table ~> s \notin table

\* The outbox keeps the promise of AtLeastOnce about its own signals: whatever
\* is interrupted, no row is deleted before the broker has its message
\* (models.py:79-83, cli.py:478-486).
Promise == INSTANCE AtLeastOnce
             WITH Signals <- OwnSignals, pending <- table \cap OwnSignals, sent <- Sent
KeepsPromise == Promise!Spec
=============================================================================
