--------------------------- MODULE Messaging_proofs ---------------------------
(***************************************************************************)
(* Theorems about the messages that go out and those that come in.         *)
(* Outbox: its types, that only own signals are sent, that a signal is     *)
(* repeated only because of interruptions, and that it implements          *)
(* AtLeastOnce.  IncomingQueue: no message is lost, whatever crashes and   *)
(* although the queue is deleted in the end.                               *)
(***************************************************************************)
EXTENDS Outbox, IncomingQueue, FiniteSetTheorems, TLAPS

-----------------------------------------------------------------------------
(* Outbox.                                                                 *)

\* A row is in one batch at most; what a flusher is about to publish is own; and
\* when it is publishing, the rest of its own rows has been sent.
BatchesInv ==
  /\ \A f, g \in Flushers : f # g => batch[f] \cap batch[g] = {}
  /\ \A f \in Flushers :
       /\ unpublished[f] \subseteq OwnSignals
       /\ stage[f] \in {"down", "ready"} => batch[f] = {}
       /\ stage[f] # "publishing" => unpublished[f] = {}
       /\ stage[f] = "publishing" =>
            batch[f] \cap OwnSignals \subseteq unpublished[f] \cup Sent

\* A row that no flusher has published since the last interruption.
Waiting(s) ==
  /\ s \in table
  /\ \A f \in Flushers : stage[f] = "publishing" /\ s \in batch[f] => s \in unpublished[f]

RepeatInv ==
  \A s \in Signals :
    /\ publications[s] <= 1 + interruptions
    /\ Waiting(s) => publications[s] <= interruptions

OutboxInv == TypeOK /\ BatchesInv /\ OnlyOwnSent /\ RepeatInv

LEMMA InitOutboxInv == Init => OutboxInv
<1> SUFFICES ASSUME Init PROVE OutboxInv
  OBVIOUS
<1>1. TypeOK
  BY SignalsAssumption DEF Init, TypeOK, Stages
<1>2. BatchesInv
  BY DEF Init, BatchesInv
<1>3. OnlyOwnSent
  BY DEF Init, OnlyOwnSent, Sent
<1>4. RepeatInv
  BY DEF Init, RepeatInv
<1> QED
  BY <1>1, <1>2, <1>3, <1>4 DEF OutboxInv

LEMMA TypeStep == TypeOK /\ BatchesInv /\ [Next]_vars => TypeOK'
<1> SUFFICES ASSUME TypeOK, BatchesInv, [Next]_vars PROVE TypeOK'
  OBVIOUS
<1> USE DEF TypeOK, flusherVars
<1>1. ASSUME NEW s \in Signals, CommitSignal(s) PROVE TypeOK'
  BY <1>1 DEF CommitSignal
<1>2. ASSUME NEW f \in Flushers, Start(f) PROVE TypeOK'
  BY <1>2 DEF Start, Stages
<1>3. ASSUME NEW f \in Flushers, LockBatch(f) PROVE TypeOK'
  <2>1. unpublished[f] = {}
    BY <1>3 DEF LockBatch, BatchesInv
  <2> QED
    BY <1>3, <2>1 DEF LockBatch, Stages
<1>4. ASSUME NEW f \in Flushers, CreateMessages(f) PROVE TypeOK'
  BY <1>4 DEF CreateMessages, Stages
<1>5. ASSUME NEW f \in Flushers, RefuseBatch(f) PROVE TypeOK'
  BY <1>5 DEF RefuseBatch, Rollback, Stages
<1>6. ASSUME NEW f \in Flushers, NEW s \in Signals, Publish(f, s) PROVE TypeOK'
  BY <1>6 DEF Publish, Stages
<1>7. ASSUME NEW f \in Flushers, DeleteBatch(f) PROVE TypeOK'
  <2>1. \A g \in Flushers : g # f => batch[g] \cap batch[f] = {}
    BY DEF BatchesInv
  <2> QED
    BY <1>7, <2>1 DEF DeleteBatch, Stages
<1>8. ASSUME NEW f \in Flushers, Interrupt(f) PROVE TypeOK'
  BY <1>8, BoundsAssumption DEF Interrupt, Rollback, Stages
<1>9. CASE UNCHANGED vars
  BY <1>9 DEF vars
<1> QED
  BY <1>1, <1>2, <1>3, <1>4, <1>5, <1>6, <1>7, <1>8, <1>9 DEF Next, Flush

LEMMA BatchesStep == TypeOK /\ BatchesInv /\ [Next]_vars => BatchesInv'
<1> SUFFICES ASSUME TypeOK, BatchesInv, [Next]_vars PROVE BatchesInv'
  OBVIOUS
<1> USE DEF TypeOK, BatchesInv, flusherVars, Sent
<1>1. ASSUME NEW s \in Signals, CommitSignal(s) PROVE BatchesInv'
  BY <1>1 DEF CommitSignal
<1>2. ASSUME NEW f \in Flushers, Start(f) PROVE BatchesInv'
  BY <1>2 DEF Start
<1>3. ASSUME NEW f \in Flushers, LockBatch(f) PROVE BatchesInv'
  BY <1>3 DEF LockBatch, Locked
<1>4. ASSUME NEW f \in Flushers, CreateMessages(f) PROVE BatchesInv'
  <2>1. {s \in batch[f] : ~Ignored(s)} \subseteq OwnSignals
    BY <1>4 DEF CreateMessages, Refused
  <2>2. batch[f] \cap OwnSignals \subseteq {s \in batch[f] : ~Ignored(s)}
    BY SignalsAssumption DEF Ignored
  <2> QED
    BY <1>4, <2>1, <2>2 DEF CreateMessages
<1>5. ASSUME NEW f \in Flushers, RefuseBatch(f) PROVE BatchesInv'
  BY <1>5 DEF RefuseBatch, Rollback
<1>6. ASSUME NEW f \in Flushers, NEW s \in Signals, Publish(f, s) PROVE BatchesInv'
  <2>1. s \in Sent' /\ Sent \subseteq Sent'
    BY <1>6 DEF Publish
  <2> QED
    BY <1>6, <2>1 DEF Publish
<1>7. ASSUME NEW f \in Flushers, DeleteBatch(f) PROVE BatchesInv'
  BY <1>7 DEF DeleteBatch
<1>8. ASSUME NEW f \in Flushers, Interrupt(f) PROVE BatchesInv'
  BY <1>8 DEF Interrupt, Rollback
<1>9. CASE UNCHANGED vars
  BY <1>9 DEF vars
<1> QED
  BY <1>1, <1>2, <1>3, <1>4, <1>5, <1>6, <1>7, <1>8, <1>9 DEF Next, Flush

\* Only Publish changes what has been sent.
LEMMA SentStep == ASSUME TypeOK, [Next]_vars
                  PROVE  \/ publications' = publications
                         \/ \E f \in Flushers, s \in Signals : Publish(f, s)
<1>1. ASSUME NEW f \in Flushers, Flush(f)
      PROVE publications' = publications \/ \E s \in Signals : Publish(f, s)
  BY <1>1 DEF Flush, LockBatch, CreateMessages, RefuseBatch, Rollback, DeleteBatch
<1> QED
  BY <1>1 DEF Next, vars, CommitSignal, Start, Interrupt, Rollback

LEMMA OwnStep == OutboxInv /\ [Next]_vars => OnlyOwnSent'
<1> SUFFICES ASSUME OutboxInv, [Next]_vars PROVE OnlyOwnSent'
  OBVIOUS
<1> USE DEF OutboxInv, TypeOK, OnlyOwnSent, Sent
<1>1. CASE publications' = publications
  BY <1>1
<1>2. ASSUME NEW f \in Flushers, NEW s \in Signals, Publish(f, s) PROVE OnlyOwnSent'
  <2>1. s \in OwnSignals
    BY <1>2 DEF Publish, BatchesInv
  <2> QED
    BY <1>2, <2>1 DEF Publish
<1> QED
  BY <1>1, <1>2, SentStep

LEMMA RepeatStep == OutboxInv /\ [Next]_vars => RepeatInv'
<1> SUFFICES ASSUME OutboxInv, [Next]_vars PROVE RepeatInv'
  OBVIOUS
<1> USE DEF OutboxInv, TypeOK, RepeatInv, Waiting, flusherVars
<1>1. ASSUME NEW s \in Signals, CommitSignal(s) PROVE RepeatInv'
  <2>1. publications[s] = 0
    BY <1>1 DEF CommitSignal, Sent
  <2> QED
    BY <1>1, <2>1 DEF CommitSignal
<1>2. ASSUME NEW f \in Flushers, Start(f) PROVE RepeatInv'
  BY <1>2 DEF Start
<1>3. ASSUME NEW f \in Flushers, LockBatch(f) PROVE RepeatInv'
  <2>1. batch[f] = {} /\ stage'[f] = "locked"
    BY <1>3 DEF LockBatch, BatchesInv
  <2> QED
    BY <1>3, <2>1 DEF LockBatch
<1>4. ASSUME NEW f \in Flushers, CreateMessages(f) PROVE RepeatInv'
  BY <1>4 DEF CreateMessages
<1>5. ASSUME NEW f \in Flushers, RefuseBatch(f) PROVE RepeatInv'
  BY <1>5 DEF RefuseBatch, Rollback
<1>6. ASSUME NEW f \in Flushers, NEW s \in Signals, Publish(f, s) PROVE RepeatInv'
  <2>1. s \in batch[f] /\ s \in table
    BY <1>6 DEF Publish
  <2>2. \A g \in Flushers : g # f => s \notin batch[g]
    BY <2>1 DEF BatchesInv
  <2>3. publications[s] <= interruptions
    BY <1>6, <2>1, <2>2 DEF Publish
  <2>4. ~Waiting(s)'
    BY <1>6, <2>1 DEF Publish
  <2>5. ASSUME NEW x \in Signals \ {s} PROVE Waiting(x)' => Waiting(x)
    BY <1>6, <2>5 DEF Publish
  <2> QED
    BY <1>6, <2>3, <2>4, <2>5 DEF Publish
<1>7. ASSUME NEW f \in Flushers, DeleteBatch(f) PROVE RepeatInv'
  <2>1. ASSUME NEW s \in Signals PROVE Waiting(s)' => Waiting(s)
    BY <1>7, <2>1 DEF DeleteBatch
  <2> QED
    BY <1>7, <2>1 DEF DeleteBatch
<1>8. ASSUME NEW f \in Flushers, Interrupt(f) PROVE RepeatInv'
  BY <1>8, BoundsAssumption DEF Interrupt, Rollback
<1>9. CASE UNCHANGED vars
  BY <1>9 DEF vars
<1> QED
  BY <1>1, <1>2, <1>3, <1>4, <1>5, <1>6, <1>7, <1>8, <1>9 DEF Next, Flush

LEMMA OutboxInvHolds == Spec => []OutboxInv
<1>1. OutboxInv /\ [Next]_vars => OutboxInv'
  BY TypeStep, BatchesStep, OwnStep, RepeatStep DEF OutboxInv
<1> QED
  BY <1>1, InitOutboxInv, PTL DEF Spec

\* Types, and that a flusher works on existing rows: with any number of flushers
\* and signals no row is deleted under a flusher that has locked it.
THEOREM OutboxTypeCorrect == Spec => []TypeOK
BY OutboxInvHolds, PTL DEF OutboxInv

\* No signal of another shard's debtor is ever sent (models.py:96-104).
THEOREM OnlyOwnSentHolds == Spec => []OnlyOwnSent
BY OutboxInvHolds, PTL DEF OutboxInv

\* Without interruptions nothing is sent twice (models.py:79-83).
THEOREM RepeatedOnlyByInterruptionsHolds == Spec => []RepeatedOnlyByInterruptions
<1>1. OutboxInv => RepeatedOnlyByInterruptions
  BY DEF OutboxInv, RepeatInv, RepeatedOnlyByInterruptions
<1> QED
  BY <1>1, OutboxInvHolds, PTL

-----------------------------------------------------------------------------
(* The refinement.                                                         *)

LEMMA InitRefines == Init => Promise!Init
BY DEF Init, Promise!Init, Sent

LEMMA StepRefines == OutboxInv /\ OutboxInv' /\ [Next]_vars => [Promise!Next]_(Promise!vars)
<1> SUFFICES ASSUME OutboxInv, OutboxInv', [Next]_vars PROVE [Promise!Next]_(Promise!vars)
  OBVIOUS
<1> USE DEF OutboxInv, TypeOK, Promise!vars
<1>1. ASSUME NEW s \in Signals, CommitSignal(s) PROVE Promise!Commit
  <2>1. s \in OwnSignals \ (table \cap OwnSignals)
    BY <1>1 DEF CommitSignal
  <2>2. (table \cap OwnSignals)' = (table \cap OwnSignals) \cup {s} /\ Sent' = Sent
    BY <1>1 DEF CommitSignal, Sent
  <2> QED
    BY <2>1, <2>2 DEF Promise!Commit
<1>2. ASSUME NEW f \in Flushers, NEW s \in Signals, Publish(f, s) PROVE Promise!Send(s) /\ s \in OwnSignals
  <2>1. s \in OwnSignals /\ s \in table
    BY <1>2 DEF Publish, BatchesInv
  <2>2. Sent' = Sent \cup {s} /\ table' = table
    BY <1>2 DEF Publish, Sent
  <2> QED
    BY <2>1, <2>2 DEF Promise!Send
<1>3. ASSUME NEW f \in Flushers, DeleteBatch(f), batch[f] \cap OwnSignals # {}
      PROVE Promise!Forget(batch[f] \cap OwnSignals)
  <2>1. batch[f] \cap OwnSignals \subseteq (table \cap OwnSignals) \cap Sent
    BY <1>3 DEF DeleteBatch, BatchesInv
  <2>2. (table \cap OwnSignals)' = (table \cap OwnSignals) \ (batch[f] \cap OwnSignals) /\ Sent' = Sent
    BY <1>3 DEF DeleteBatch, Sent
  <2> QED
    BY <1>3, <2>1, <2>2 DEF Promise!Forget
<1>4. ASSUME NEW f \in Flushers, DeleteBatch(f), batch[f] \cap OwnSignals = {}
      PROVE UNCHANGED Promise!vars
  BY <1>4 DEF DeleteBatch, Sent
<1>5. ASSUME NEW f \in Flushers,
             Start(f) \/ LockBatch(f) \/ CreateMessages(f) \/ RefuseBatch(f) \/ Interrupt(f)
      PROVE UNCHANGED Promise!vars
  BY <1>5 DEF Start, LockBatch, CreateMessages, RefuseBatch, Interrupt, Rollback, Sent
<1>6. CASE UNCHANGED vars
  BY <1>6 DEF vars, flusherVars, Sent
<1> QED
  BY <1>1, <1>2, <1>3, <1>4, <1>5, <1>6 DEF Next, Flush, Promise!Next

\* Whatever is interrupted, an own signal is sent before its row is deleted.
THEOREM OutboxKeepsPromise == Spec => KeepsPromise
BY InitRefines, StepRefines, OutboxInvHolds, PTL DEF Spec, KeepsPromise, Promise!Spec

-----------------------------------------------------------------------------
(* IncomingQueue.                                                          *)

\* Only good messages are handled, and a prefetch window is finite.
WindowsInv ==
  /\ handled \subseteq GoodMessages
  /\ \A c \in Consumers : IsFiniteSet(unacked[c])

\* How far the deletion is; it begins when nothing is put into the queue anymore.
DeletionInv ==
  /\ deletion = "none" => queue # "deleted"
  /\ deletion \in {"checking", "empty"} => queue = "unbound"
  /\ deletion = "ended" => queue = "deleted"

\* With the operator's discipline, nobody uses a queue that was found empty.
IdleInv ==
  /\ deletion = "empty" /\ DeletedWhileIdle => ready = {} /\ ~InUse
  /\ deletion = "ended" /\ DeletedWhileIdle => ~InUse

Kept(m) ==
  \/ m \in ready \/ \E c \in Consumers : m \in unacked[c]
  \/ m \in GoodMessages \cap handled
  \/ m \in MalformedMessages \cap dead_letters

LossInv == Exists \/ DeletedWhileIdle => \A m \in published : Kept(m)

QueueInv == QueueTypeOK /\ WindowsInv /\ DeletionInv /\ IdleInv /\ LossInv

LEMMA KeptMeansNotLost == NothingIsLost <=> \A m \in published : Kept(m)
<1>1. \A m : m \in InFlight <=> m \in ready \/ \E c \in Consumers : m \in unacked[c]
  BY DEF InFlight
<1> QED
  BY <1>1 DEF NothingIsLost, Kept

LEMMA InitQueueInv == QueueInit => QueueInv
<1> SUFFICES ASSUME QueueInit PROVE QueueInv
  OBVIOUS
<1>1. QueueTypeOK /\ WindowsInv
  BY FS_EmptySet, PrefetchAssumption DEF QueueInit, QueueTypeOK, WindowsInv
<1>2. DeletionInv /\ IdleInv /\ LossInv
  BY DEF QueueInit, DeletionInv, IdleInv, LossInv
<1> QED
  BY <1>1, <1>2 DEF QueueInv

-----------------------------------------------------------------------------

\* What a consumer takes fits into its prefetch window.
LEMMA WindowGrows ==
  ASSUME NEW S, IsFiniteSet(S), Cardinality(S) < PrefetchCount, NEW m
  PROVE  IsFiniteSet(S \cup {m}) /\ Cardinality(S \cup {m}) <= PrefetchCount
BY FS_AddElement, FS_CardinalityType, PrefetchAssumption

LEMMA WindowShrinks ==
  ASSUME NEW S, IsFiniteSet(S), Cardinality(S) <= PrefetchCount, NEW m
  PROVE  IsFiniteSet(S \ {m}) /\ Cardinality(S \ {m}) <= PrefetchCount
BY FS_RemoveElement, FS_CardinalityType, PrefetchAssumption

LEMMA EmptyWindow == IsFiniteSet({}) /\ Cardinality({}) <= PrefetchCount
BY FS_EmptySet, PrefetchAssumption

\* The queue gets back what its consumer had, unless it has been deleted.
LEMMA RequeueKeeps ==
  ASSUME QueueInv, NEW c \in Consumers, Requeue(c), crashes' \in 0 .. MaxCrashes
  PROVE  QueueInv'
<1> USE DEF QueueInv
<1>1. /\ mode' = [mode EXCEPT ![c] = "down"]
      /\ unacked' = [unacked EXCEPT ![c] = {}]
      /\ done' = [done EXCEPT ![c] = {}]
      /\ ready' = IF Exists THEN ready \cup unacked[c] ELSE ready
      /\ UNCHANGED <<queue, deletion, published, dead_letters, handled>>
  BY DEF Requeue, queueVars
<1>2. QueueTypeOK'
  BY <1>1, EmptyWindow DEF QueueTypeOK
<1>3. WindowsInv' /\ DeletionInv'
  BY <1>1, EmptyWindow DEF WindowsInv, DeletionInv, QueueTypeOK
<1>4. IdleInv'
  <2>1. InUse' => InUse
    BY <1>1 DEF InUse, QueueTypeOK
  <2>2. ~InUse => unacked[c] = {}
    BY DEF InUse, QueueTypeOK
  <2> QED
    BY <1>1, <2>1, <2>2 DEF IdleInv
<1>5. LossInv'
  <2>1. ~Exists /\ DeletedWhileIdle => unacked[c] = {}
    BY DEF Exists, DeletionInv, IdleInv, InUse, QueueTypeOK
  <2> SUFFICES ASSUME Exists \/ DeletedWhileIdle, NEW m \in published, Kept(m) PROVE Kept(m)'
    BY <1>1 DEF LossInv, Exists
  <2>2. CASE m \in unacked[c]
    BY <1>1, <2>1, <2>2 DEF Kept
  <2>3. CASE m \notin unacked[c]
    BY <1>1, <2>3 DEF Kept, QueueTypeOK
  <2> QED
    BY <2>2, <2>3
<1> QED
  BY <1>2, <1>3, <1>4, <1>5

\* The broker: a message is published, or delivered.
LEMMA BrokerStep ==
  ASSUME QueueInv, NEW m \in Messages,
         PublishToQueue(m) \/ \E c \in Consumers : Deliver(c, m)
  PROVE  QueueInv'
<1> USE DEF QueueInv, queueVars, consumerVars
<1>1. CASE PublishToQueue(m)
  <2>1. QueueTypeOK' /\ WindowsInv'
    BY <1>1 DEF PublishToQueue, QueueTypeOK, WindowsInv
  <2>2. DeletionInv' /\ IdleInv'
    BY <1>1 DEF PublishToQueue, DeletionInv, IdleInv, InUse
  <2>3. LossInv'
    BY <1>1 DEF PublishToQueue, LossInv, Exists, Kept
  <2> QED
    BY <2>1, <2>2, <2>3
<1>2. ASSUME NEW c \in Consumers, Deliver(c, m) PROVE QueueInv'
  <2>1. /\ m \in ready /\ ready' = ready \ {m}
        /\ unacked' = [unacked EXCEPT ![c] = @ \cup {m}]
        /\ mode[c] = "consuming" /\ Cardinality(unacked[c]) < PrefetchCount
        /\ UNCHANGED <<queue, deletion, published, dead_letters, mode, done, handled, crashes>>
    BY <1>2 DEF Deliver
  <2>2. IsFiniteSet(unacked[c] \cup {m}) /\ Cardinality(unacked[c] \cup {m}) <= PrefetchCount
    BY <2>1, WindowGrows DEF WindowsInv
  <2>3. QueueTypeOK' /\ WindowsInv'
    BY <2>1, <2>2 DEF QueueTypeOK, WindowsInv
  <2>4. DeletionInv' /\ IdleInv'
    BY <2>1 DEF DeletionInv, IdleInv, InUse
  <2>5. LossInv'
    BY <2>1 DEF LossInv, Exists, Kept, QueueTypeOK
  <2> QED
    BY <2>3, <2>4, <2>5
<1> QED
  BY <1>1, <1>2

\* What a consumer does with a message it has got.
LEMMA WorkStep ==
  ASSUME QueueInv, NEW c \in Consumers, Work(c)
  PROVE  QueueInv'
<1> USE DEF QueueInv, queueVars
<1>1. ASSUME NEW m \in Messages, Process(c, m) PROVE QueueInv'
  <2>1. /\ m \in unacked[c] /\ m \in GoodMessages
        /\ handled' = handled \cup {m}
        /\ done' = [done EXCEPT ![c] = @ \cup {m}]
        /\ UNCHANGED <<queue, deletion, published, ready, dead_letters, mode, unacked, crashes>>
    BY <1>1 DEF Process
  <2>2. QueueTypeOK' /\ WindowsInv'
    BY <2>1 DEF QueueTypeOK, WindowsInv
  <2>3. DeletionInv' /\ IdleInv' /\ LossInv'
    BY <2>1 DEF DeletionInv, IdleInv, InUse, LossInv, Exists, Kept
  <2> QED
    BY <2>2, <2>3
<1>2. ASSUME NEW m \in Messages, Acknowledge(c, m) PROVE QueueInv'
  <2>1. /\ m \in done[c] /\ m \in unacked[c] /\ m \in GoodMessages \cap handled
        /\ unacked' = [unacked EXCEPT ![c] = @ \ {m}]
        /\ done' = [done EXCEPT ![c] = @ \ {m}]
        /\ UNCHANGED <<queue, deletion, published, ready, dead_letters, mode, handled, crashes>>
    BY <1>2 DEF Acknowledge, QueueTypeOK, WindowsInv
  <2>2. IsFiniteSet(unacked[c] \ {m}) /\ Cardinality(unacked[c] \ {m}) <= PrefetchCount
    BY WindowShrinks DEF WindowsInv, QueueTypeOK
  <2>3. QueueTypeOK' /\ WindowsInv'
    BY <2>1, <2>2 DEF QueueTypeOK, WindowsInv
  <2>4. DeletionInv' /\ IdleInv' /\ LossInv'
    BY <2>1 DEF DeletionInv, IdleInv, InUse, LossInv, Exists, Kept, QueueTypeOK
  <2> QED
    BY <2>3, <2>4
<1>3. ASSUME NEW m \in Messages, Reject(c, m) PROVE QueueInv'
  <2>1. /\ m \in unacked[c] /\ m \in MalformedMessages
        /\ unacked' = [unacked EXCEPT ![c] = @ \ {m}]
        /\ dead_letters' = IF Exists THEN dead_letters \cup {m} ELSE dead_letters
        /\ UNCHANGED <<queue, deletion, published, ready, mode, done, handled, crashes>>
    BY <1>3 DEF Reject
  <2>2. IsFiniteSet(unacked[c] \ {m}) /\ Cardinality(unacked[c] \ {m}) <= PrefetchCount
    BY WindowShrinks DEF WindowsInv, QueueTypeOK
  <2>3. m \notin done[c]
    BY <2>1, MessagesAssumption DEF QueueTypeOK, WindowsInv
  <2>4. QueueTypeOK' /\ WindowsInv'
    BY <2>1, <2>2, <2>3 DEF QueueTypeOK, WindowsInv
  <2>5. DeletionInv' /\ IdleInv'
    BY <2>1 DEF DeletionInv, IdleInv, InUse
  <2>6. LossInv'
    <3>1. DeletedWhileIdle => Exists
      BY <2>1 DEF Exists, DeletionInv, IdleInv, InUse, QueueTypeOK
    <3> QED
      BY <2>1, <3>1 DEF LossInv, Exists, Kept, QueueTypeOK
  <2> QED
    BY <2>4, <2>5, <2>6
<1>4. ASSUME NEW m \in Messages, Fail(c, m) PROVE QueueInv'
  BY <1>4, RequeueKeeps DEF Fail, QueueTypeOK
<1> QED
  BY <1>1, <1>2, <1>3, <1>4 DEF Work

\* A consumer comes, rests, or goes.
LEMMA ConsumerStep ==
  ASSUME QueueInv, NEW c \in Consumers,
         StartConsumer(c) \/ InterruptConsumer(c) \/ Pause(c) \/ Resume(c)
  PROVE  QueueInv'
<1> USE DEF QueueInv, queueVars
<1>1. CASE InterruptConsumer(c)
  BY <1>1, RequeueKeeps, PrefetchAssumption DEF InterruptConsumer, QueueTypeOK
<1>2. CASE StartConsumer(c) \/ Pause(c) \/ Resume(c)
  <2>1. PICK to \in {"down", "consuming", "paused"} :
          /\ mode' = [mode EXCEPT ![c] = to]
          /\ to = "consuming" => Exists /\ ~KeptIdle
          /\ unacked[c] = {}
    BY <1>2 DEF StartConsumer, Pause, Resume, QueueTypeOK
  <2>2. UNCHANGED <<queue, deletion, published, ready, dead_letters, unacked, done, handled, crashes>>
    BY <1>2 DEF StartConsumer, Pause, Resume
  <2>3. QueueTypeOK' /\ WindowsInv' /\ DeletionInv'
    BY <2>1, <2>2 DEF QueueTypeOK, WindowsInv, DeletionInv
  <2>4. IdleInv'
    <3>1. ASSUME to # "consuming", InUse' PROVE InUse
      BY <2>1, <3>1 DEF InUse, QueueTypeOK
    <3> QED
      BY <2>1, <2>2, <3>1 DEF IdleInv, DeletionInv, Exists, KeptIdle
  <2>5. LossInv'
    BY <2>2 DEF LossInv, Exists, Kept
  <2> QED
    BY <2>3, <2>4, <2>5
<1> QED
  BY <1>1, <1>2

\* The commands of the operator.
LEMMA CommandStep ==
  ASSUME QueueInv, Unsubscribe \/ StartDeletion \/ CheckQueue \/ DeleteQueue
  PROVE  QueueInv'
<1> USE DEF QueueInv, consumerVars
<1>1. UNCHANGED <<published, dead_letters, mode, unacked, done, handled, crashes>>
  BY DEF Unsubscribe, StartDeletion, CheckQueue, DeleteQueue
<1>2. InUse' <=> InUse
  BY <1>1 DEF InUse
<1>3. QueueTypeOK' /\ WindowsInv'
  BY <1>1 DEF Unsubscribe, StartDeletion, CheckQueue, DeleteQueue, QueueTypeOK, WindowsInv
<1>4. DeletionInv' /\ IdleInv'
  BY <1>2 DEF Unsubscribe, StartDeletion, CheckQueue, DeleteQueue, DeletionInv, IdleInv, QueueTypeOK
<1>5. LossInv'
  <2>1. CASE DeleteQueue
    BY <1>1, <2>1 DEF DeleteQueue, LossInv, IdleInv, DeletionInv, Exists, Kept
  <2>2. CASE Unsubscribe \/ StartDeletion \/ CheckQueue
    BY <1>1, <2>2 DEF Unsubscribe, StartDeletion, CheckQueue, LossInv, Exists, Kept
  <2> QED
    BY <2>1, <2>2
<1> QED
  BY <1>3, <1>4, <1>5

LEMMA QueueInvHolds == QueueSpec => []QueueInv
<1>1. QueueInv /\ [QueueNext]_incomingVars => QueueInv'
  <2> SUFFICES ASSUME QueueInv, [QueueNext]_incomingVars PROVE QueueInv'
    OBVIOUS
  <2>1. CASE UNCHANGED incomingVars
    BY <2>1 DEF incomingVars, queueVars, consumerVars, QueueInv, QueueTypeOK, WindowsInv,
      DeletionInv, IdleInv, InUse, LossInv, Exists, Kept
  <2>2. CASE QueueNext
    BY <2>2, BrokerStep, WorkStep, ConsumerStep, CommandStep DEF QueueNext
  <2> QED
    BY <2>1, <2>2
<1> QED
  BY <1>1, InitQueueInv, PTL DEF QueueSpec

\* Only what has been delivered is being worked on, within the prefetch count,
\* and nothing by a consumer that does not consume (cli.py:363-394).
THEOREM QueueTypeCorrect == QueueSpec => []QueueTypeOK
BY QueueInvHolds, PTL DEF QueueInv

\* If nobody uses the queue from the check to the deletion, no message is lost,
\* whatever crashes, and whatever is malformed or for another shard
\* (cli.py:51-233, actors.py:217-249).
THEOREM NothingIsEverLost == ASSUME DeletedWhileIdle PROVE QueueSpec => []NothingIsLost
<1>1. QueueInv => NothingIsLost
  BY KeptMeansNotLost DEF QueueInv, LossInv
<1> QED
  BY <1>1, QueueInvHolds, PTL

\* Without that discipline, messages are lost by nothing but the deletion itself.
THEOREM NothingIsLostBefore == QueueSpec => [](Exists => NothingIsLost)
<1>1. QueueInv => (Exists => NothingIsLost)
  BY KeptMeansNotLost DEF QueueInv, LossInv
<1> QED
  BY <1>1, QueueInvHolds, PTL
=============================================================================
