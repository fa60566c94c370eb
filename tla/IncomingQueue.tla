---------------------------- MODULE IncomingQueue ----------------------------
(***************************************************************************)
(* The queue of incoming messages: how "consume_messages" takes messages   *)
(* from it, what "unsubscribe" and "delete_queue" do to it meanwhile, and  *)
(* where malformed messages go.  RabbitMQ is external: a message is ready, *)
(* or delivered to a consumer and not yet acknowledged.                    *)
(***************************************************************************)
EXTENDS Integers, FiniteSets

CONSTANTS
  GoodMessages,      \* well formed, for a debtor of this shard
  MalformedMessages, \* wrong content type, type, JSON or field
  ForeignMessages,   \* well formed, for a debtor of another shard
  Consumers,         \* the worker processes of consume_messages
  PrefetchCount,     \* PROTOCOL_BROKER_PREFETCH_COUNT
  DrainingMode,      \* the option --draining-mode
  DeletedWhileIdle,  \* from the check to the deletion no consumer uses the queue
  MaxCrashes         \* bound on the crashes of consumers

Messages == GoodMessages \cup MalformedMessages \cup ForeignMessages

ASSUME MessagesAssumption ==
  /\ GoodMessages \cap (MalformedMessages \cup ForeignMessages) = {}
  /\ MalformedMessages \cap ForeignMessages = {}
ASSUME OptionsAssumption == DrainingMode \in BOOLEAN /\ DeletedWhileIdle \in BOOLEAN
ASSUME PrefetchAssumption == PrefetchCount \in Nat \ {0} /\ MaxCrashes \in Nat

VARIABLES
  queue,         \* "bound", "unbound", or "deleted"
  deletion,      \* the command delete_queue: "none", "checking", "empty", "ended"
  published,     \* history: messages that the exchange has put in the queue
  ready,         \* messages in the queue, waiting to be delivered
  dead_letters,  \* the stream queue "....XQ"
  mode,          \* mode[c]: "down", "consuming" or "paused"
  unacked,       \* unacked[c]: delivered to c and not acknowledged
  done,          \* done[c]: those of unacked[c] whose transaction is committed
  handled,       \* messages whose effect is in the database
  crashes        \* number of crashes so far

queueVars == <<queue, deletion, published>>
consumerVars == <<mode, unacked, done>>
incomingVars == <<queueVars, ready, dead_letters, consumerVars, handled, crashes>>

\* Types; only what has been delivered can be done.
QueueTypeOK ==
  /\ queue \in {"bound", "unbound", "deleted"}
  /\ deletion \in {"none", "checking", "empty", "ended"}
  /\ published \subseteq Messages /\ ready \subseteq published
  /\ dead_letters \subseteq published /\ handled \subseteq published
  /\ mode \in [Consumers -> {"down", "consuming", "paused"}]
  /\ unacked \in [Consumers -> SUBSET published]
  /\ done \in [Consumers -> SUBSET handled]
  /\ crashes \in 0 .. MaxCrashes
  /\ \A c \in Consumers :
       /\ done[c] \subseteq unacked[c]
       /\ Cardinality(unacked[c]) <= PrefetchCount
       /\ mode[c] # "consuming" => unacked[c] = {}

QueueInit ==
  /\ queue = "bound" /\ deletion = "none"
  /\ published = {} /\ ready = {} /\ dead_letters = {}
  /\ mode = [c \in Consumers |-> "down"]
  /\ unacked = [c \in Consumers |-> {}]
  /\ done = [c \in Consumers |-> {}]
  /\ handled = {} /\ crashes = 0

Exists == queue # "deleted"
InUse == \E c \in Consumers : mode[c] = "consuming"
KeptIdle == DeletedWhileIdle /\ deletion = "empty"

-----------------------------------------------------------------------------
(* The broker.                                                             *)

\* While the queue is bound, the exchange puts each matching message in it.
PublishToQueue(m) ==
  /\ queue = "bound"
  /\ m \notin published
  /\ published' = published \cup {m}
  /\ ready' = ready \cup {m}
  /\ UNCHANGED <<queue, deletion, dead_letters, consumerVars, handled, crashes>>

Deliver(c, m) ==
  /\ Exists
  /\ mode[c] = "consuming"
  /\ m \in ready
  /\ Cardinality(unacked[c]) < PrefetchCount
  /\ ready' = ready \ {m}
  /\ unacked' = [unacked EXCEPT ![c] = @ \cup {m}]
  /\ UNCHANGED <<queueVars, dead_letters, mode, done, handled, crashes>>

\* The consumer has gone: the queue gets back what it has not acknowledged.
Requeue(c) ==
  /\ mode' = [mode EXCEPT ![c] = "down"]
  /\ ready' = IF Exists THEN ready \cup unacked[c] ELSE ready
  /\ unacked' = [unacked EXCEPT ![c] = {}]
  /\ done' = [done EXCEPT ![c] = {}]
  /\ UNCHANGED <<queueVars, dead_letters, handled>>

-----------------------------------------------------------------------------
(* The consumers.                                                          *)

\* A worker starts (it cannot consume from a queue that does not exist).
StartConsumer(c) ==
  /\ mode[c] = "down" /\ Exists /\ ~KeptIdle
  /\ mode' = [mode EXCEPT ![c] = "consuming"]
  /\ UNCHANGED <<queueVars, ready, dead_letters, unacked, done, handled, crashes>>

\* process_message calls the actor, which commits, and returns True ...
Process(c, m) ==
  /\ m \in (unacked[c] \ done[c]) \cap GoodMessages
  /\ handled' = handled \cup {m}
  /\ done' = [done EXCEPT ![c] = @ \cup {m}]
  /\ UNCHANGED <<queueVars, ready, dead_letters, mode, unacked, crashes>>

\* ... and then the message is acknowledged.
Acknowledge(c, m) ==
  /\ m \in done[c]
  /\ unacked' = [unacked EXCEPT ![c] = @ \ {m}]
  /\ done' = [done EXCEPT ![c] = @ \ {m}]
  /\ UNCHANGED <<queueVars, ready, dead_letters, mode, handled, crashes>>

\* Mutant of Reject: the message is put back instead of aside.
RejectAndRequeue(c, m) ==
  /\ m \in unacked[c] \cap MalformedMessages
  /\ unacked' = [unacked EXCEPT ![c] = @ \ {m}]
  /\ ready' = IF Exists THEN ready \cup {m} ELSE ready
  /\ UNCHANGED <<queueVars, dead_letters, mode, done, handled, crashes>>

\* process_message returns False: the broker moves the message to the
\* dead-letter queue (unless the queue is gone).
Reject(c, m) ==
  /\ m \in unacked[c] \cap MalformedMessages
  /\ unacked' = [unacked EXCEPT ![c] = @ \ {m}]
  /\ dead_letters' = IF Exists THEN dead_letters \cup {m} ELSE dead_letters
  /\ UNCHANGED <<queueVars, ready, mode, done, handled, crashes>>

\* RuntimeError: "The agent is not responsible for this debtor."
Fail(c, m) ==
  /\ m \in unacked[c] \cap ForeignMessages
  /\ Requeue(c)
  /\ UNCHANGED crashes

\* A crash or a lost connection; always, in the end, when the queue is deleted.
InterruptConsumer(c) ==
  /\ mode[c] # "down"
  /\ crashes < MaxCrashes
  /\ crashes' = crashes + 1
  /\ Requeue(c)

\* In draining mode the consumer finishes what it has, and makes a pause.
Pause(c) ==
  /\ DrainingMode
  /\ mode[c] = "consuming" /\ unacked[c] = {}
  /\ mode' = [mode EXCEPT ![c] = "paused"]
  /\ UNCHANGED <<queueVars, ready, dead_letters, unacked, done, handled, crashes>>

Resume(c) ==
  /\ mode[c] = "paused" /\ ~KeptIdle
  /\ mode' = [mode EXCEPT ![c] = IF Exists THEN "consuming" ELSE "down"]
  /\ UNCHANGED <<queueVars, ready, dead_letters, unacked, done, handled, crashes>>

Work(c) == \E m \in Messages : Process(c, m) \/ Acknowledge(c, m) \/ Reject(c, m) \/ Fail(c, m)

-----------------------------------------------------------------------------
(* The commands.                                                           *)

Unsubscribe ==
  /\ queue = "bound"
  /\ queue' = "unbound"
  /\ UNCHANGED <<deletion, published, ready, dead_letters, consumerVars, handled, crashes>>

\* The operator starts delete_queue after unsubscribe.
StartDeletion ==
  /\ queue = "unbound" /\ deletion = "none"
  /\ deletion' = "checking"
  /\ UNCHANGED <<queue, published, ready, dead_letters, consumerVars, handled, crashes>>

\* Mutant of CheckQueue: the number of ready messages is not looked at.
CheckNothing ==
  /\ deletion = "checking"
  /\ DeletedWhileIdle => ~InUse
  /\ deletion' = "empty"
  /\ UNCHANGED <<queue, published, ready, dead_letters, consumerVars, handled, crashes>>

\* The passive declaration returns the number of ready messages; if there are
\* some, the command sleeps and looks again.
CheckQueue ==
  /\ deletion = "checking"
  /\ ready = {}
  /\ DeletedWhileIdle => ~InUse
  /\ deletion' = "empty"
  /\ UNCHANGED <<queue, published, ready, dead_letters, consumerVars, handled, crashes>>

\* queue_delete, with neither if_unused nor if_empty.
DeleteQueue ==
  /\ deletion = "empty"
  /\ deletion' = "ended"
  /\ queue' = "deleted"
  /\ ready' = {}
  /\ UNCHANGED <<published, dead_letters, consumerVars, handled, crashes>>

QueueNext ==
  \/ \E m \in Messages : PublishToQueue(m)
  \/ \E c \in Consumers :
       \/ \E m \in Messages : Deliver(c, m)
       \/ StartConsumer(c) \/ Work(c) \/ InterruptConsumer(c) \/ Pause(c) \/ Resume(c)
  \/ Unsubscribe \/ StartDeletion \/ CheckQueue \/ DeleteQueue

QueueSpec == QueueInit /\ [][QueueNext]_incomingVars

\* Processes are restarted and run, pauses end, and between two pauses the
\* broker delivers.
QueueFairness ==
  /\ WF_incomingVars(DeleteQueue)
  /\ \A c \in Consumers :
       /\ WF_incomingVars(StartConsumer(c)) /\ WF_incomingVars(Resume(c))
       /\ WF_incomingVars(Work(c))
       /\ SF_incomingVars(\E m \in Messages : Deliver(c, m))

QueueFairSpec == QueueSpec /\ QueueFairness

-----------------------------------------------------------------------------
(* Properties.                                                             *)

InFlight == ready \cup UNION {unacked[c] : c \in Consumers}

\* Whatever crashes, and although the queue is deleted at the end, a good message
\* is waiting or handled, a malformed one waiting or kept for inspection, and one
\* for another shard goes on waiting (cli.py:51-233, actors.py:217-249).
NothingIsLost ==
  published \subseteq InFlight \cup (GoodMessages \cap handled)
                              \cup (MalformedMessages \cap dead_letters)

\* Each message is settled, malformed ones do not block the queue, and draining
\* goes on in spite of the pauses (cli.py:334-338, 389-392).  Only a message for
\* another shard, which is put back every time, can hold up the others.
EveryMessageIsSettled ==
  \A m \in Messages :
    m \in published ~> \/ m \in handled \cup dead_letters
                      \/ published \cap ForeignMessages # {}

\* cli.py:192: "When the queue is not empty or is currently in use, this
\* command will continuously try to delete the queue": a queue is not deleted
\* while a consumer holds messages from it.
QueueInUseIsKept ==
  [][Exists /\ queue' = "deleted" => \A c \in Consumers : unacked[c] = {}]_incomingVars
=============================================================================
