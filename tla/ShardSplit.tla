----------------------------- MODULE ShardSplit ------------------------------
(***************************************************************************)
(* Splitting a shard.  The database of a parent shard is copied to two     *)
(* children; from then on each child answers for its part of the debtors   *)
(* and removes what it inherited of the other part.                        *)
(*                                                                         *)
(* The queues, the web servers and consumers, the outbox, the scanner and  *)
(* the operator's commands are composed here, each coarser than in its own *)
(* module: a handler is one step, and a flush is what AtLeastOnce allows.  *)
(* A task is whatever changes the records of one debtor and announces it   *)
(* with a signal: an incoming message, or a request to the Web API.        *)
(***************************************************************************)
EXTENDS Integers, FiniteSets

CONSTANTS
  SplitDebtors,  \* the debtors of the shard that is split
  Children,      \* the two new shards
  Parent,        \* the shard that is split
  Messages,      \* incoming messages
  Requests,      \* requests to the Web API
  Child,         \* Child[d]: the child whose sharding realm has d
  DebtorOf       \* DebtorOf[t]: whose records the task t changes

Tasks == Messages \cup Requests
Shards == Children \cup {Parent}

ASSUME ShardsAssumption == Parent \notin Children /\ Child \in [SplitDebtors -> Children]
ASSUME TasksAssumption == Messages \cap Requests = {} /\ DebtorOf \in [Tasks -> SplitDebtors]

VARIABLES
  phase,      \* what the operator has done so far
  bound,      \* shards whose queue is bound to the exchange
  queue,      \* queue[s]: messages in the queue of s
  published,  \* history: messages sent to the agent
  accepted,   \* history: requests whose success has been reported
  running,    \* shards whose processes run
  option,     \* shards that run with DELETE_PARENT_SHARD_RECORDS
  rows,       \* rows[s]: debtors with a row in the database of s
  effects,    \* effects[s]: tasks whose changes are in the database of s
  signals,    \* signals[s]: tasks whose signal is in the tables of s
  sent,       \* sent[s]: tasks whose signal was sent by s
  verified    \* verified[s]: tables of s that verify_shard_content has passed

operatorVars == <<phase, bound, running, option, verified>>
databaseVars == <<rows, effects, signals>>
brokerVars == <<queue, published, sent>>
splitVars == <<operatorVars, databaseVars, brokerVars, accepted>>

Phases == {"serving", "subscribed", "unsubscribed", "queue_deleted", "stopped",
           "copied", "started"}
Tables == {"none", "debtors", "all"}

\* Types, and the foreign key: what changed a debtor goes with its row.
SplitTypeOK ==
  /\ phase \in Phases
  /\ bound \subseteq Shards /\ running \subseteq Shards /\ option \subseteq Shards
  /\ queue \in [Shards -> SUBSET Messages]
  /\ published \subseteq Messages /\ accepted \subseteq Requests
  /\ rows \in [Shards -> SUBSET SplitDebtors]
  /\ effects \in [Shards -> SUBSET Tasks]
  /\ signals \in [Shards -> SUBSET Tasks]
  /\ sent \in [Shards -> SUBSET Tasks]
  /\ verified \in [Shards -> Tables]
  /\ \A s \in Shards : \A t \in effects[s] : DebtorOf[t] \in rows[s]

SplitInit ==
  /\ phase = "serving"
  /\ bound = {Parent} /\ running = {Parent} /\ option = {}
  /\ queue = [s \in Shards |-> {}]
  /\ published = {} /\ accepted = {}
  /\ rows = [s \in Shards |-> IF s = Parent THEN SplitDebtors ELSE {}]
  /\ effects = [s \in Shards |-> {}]
  /\ signals = [s \in Shards |-> {}]
  /\ sent = [s \in Shards |-> {}]
  /\ verified = [s \in Shards |-> "none"]

-----------------------------------------------------------------------------
(* Responsibility.                                                         *)

\* The sharding realm of a child, and of its parent when match_parent is set.
Realm(s, match_parent) ==
  IF s = Parent \/ match_parent THEN SplitDebtors ELSE {d \in SplitDebtors : Child[d] = s}

\* Mutant of IsValidDebtorId: the realm of the parent is accepted, too.
IsValidForParent(s, d, match_parent) == d \in Realm(s, TRUE)

IsValidDebtorId(s, d, match_parent) == d \in Realm(s, match_parent)

\* Mutant of BelongsToParentShard: any record of the parent is a left-over.
MatchesParentShard(s, d) == IsValidDebtorId(s, d, TRUE)

\* Mutant of BelongsToParentShard: no record is a left-over.
BelongsToNobody(s, d) == FALSE

BelongsToParentShard(s, d) == ~IsValidDebtorId(s, d, FALSE) /\ IsValidDebtorId(s, d, TRUE)

-----------------------------------------------------------------------------
(* Serving.                                                                *)

\* The exchange copies a message to each bound queue whose key matches.
PublishMessage(m) ==
  /\ m \notin published
  /\ published' = published \cup {m}
  /\ queue' = [s \in Shards |-> IF s \in bound /\ DebtorOf[m] \in Realm(s, FALSE)
                                THEN queue[s] \cup {m} ELSE queue[s]]
  /\ UNCHANGED <<operatorVars, databaseVars, sent, accepted>>

\* The changes and the signal of a task are committed together, and once:
\* handling it again changes nothing.
Perform(s, t) ==
  /\ effects' = [effects EXCEPT ![s] = @ \cup {t}]
  /\ signals' = [signals EXCEPT ![s] = IF t \in effects[s] THEN @ ELSE @ \cup {t}]

\* SmpConsumer.process_message.  A crash before the acknowledgement leaves the
\* message in the queue.  A message about an unknown debtor has no effect.
HandleMessage(s, m) ==
  /\ s \in running
  /\ m \in queue[s]
  /\ IsValidDebtorId(s, DebtorOf[m], FALSE)
  /\ IF DebtorOf[m] \in rows[s] THEN Perform(s, m) ELSE UNCHANGED <<effects, signals>>
  /\ queue' \in {queue, [queue EXCEPT ![s] = @ \ {m}]}
  /\ UNCHANGED <<operatorVars, rows, published, sent, accepted>>

\* Mutant of HandleRequest: the shard does not check the debtor ID.
HandleAnyRequest(s, r) ==
  /\ s \in running
  /\ r \notin accepted
  /\ rows' = [rows EXCEPT ![s] = @ \cup {DebtorOf[r]}]
  /\ Perform(s, r)
  /\ accepted' = accepted \cup {r}
  /\ UNCHANGED <<operatorVars, brokerVars>>

\* A request that changes a debtor, or makes a reservation for it.  Requests
\* for debtors of another shard get 404.
HandleRequest(s, r) ==
  /\ s \in running
  /\ r \notin accepted
  /\ IsValidDebtorId(s, DebtorOf[r], FALSE)
  /\ rows' = [rows EXCEPT ![s] = @ \cup {DebtorOf[r]}]
  /\ Perform(s, r)
  /\ accepted' = accepted \cup {r}
  /\ UNCHANGED <<operatorVars, brokerVars>>

-----------------------------------------------------------------------------
(* Flushing and scanning.                                                  *)

\* Signals that _create_message drops, and those it raises an error for.
Ignored(s, t) == s \in option /\ BelongsToParentShard(s, DebtorOf[t])
Unsendable(s, t) == ~IsValidDebtorId(s, DebtorOf[t], FALSE) /\ ~Ignored(s, t)

\* One burst takes all the rows, so one refused signal stops all of them.
\* The flusher may be interrupted after sending; then the rows stay.
Flush(s) ==
  /\ s \in running
  /\ signals[s] # {}
  /\ \A t \in signals[s] : ~Unsendable(s, t)
  /\ sent' = [sent EXCEPT ![s] = @ \cup {t \in signals[s] : ~Ignored(s, t)}]
  /\ signals' \in {signals, [signals EXCEPT ![s] = {}]}
  /\ UNCHANGED <<operatorVars, rows, effects, queue, published, accepted>>

\* The scanner deletes the row of a debtor; what depends on it goes with it.
DeleteParentShardDebtor(s, d) ==
  /\ s \in running \cap option
  /\ d \in rows[s]
  /\ BelongsToParentShard(s, d)
  /\ rows' = [rows EXCEPT ![s] = @ \ {d}]
  /\ effects' = [effects EXCEPT ![s] = {t \in @ : DebtorOf[t] # d}]
  /\ UNCHANGED <<operatorVars, signals, brokerVars, accepted>>

-----------------------------------------------------------------------------
(* The operator.                                                           *)

Step(from, to) == phase = from /\ phase' = to

SubscribeChildren ==
  /\ Step("serving", "subscribed")
  /\ bound' = bound \cup Children
  /\ UNCHANGED <<running, option, verified, databaseVars, brokerVars, accepted>>

UnsubscribeParent ==
  /\ Step("subscribed", "unsubscribed")
  /\ bound' = bound \ {Parent}
  /\ UNCHANGED <<running, option, verified, databaseVars, brokerVars, accepted>>

\* delete_queue waits until the queue is empty.
DeleteParentQueue ==
  /\ Step("unsubscribed", "queue_deleted")
  /\ queue[Parent] = {}
  /\ UNCHANGED <<bound, running, option, verified, databaseVars, brokerVars, accepted>>

StopParent ==
  /\ Step("queue_deleted", "stopped")
  /\ running' = {}
  /\ UNCHANGED <<bound, option, verified, databaseVars, brokerVars, accepted>>

CopyDatabase ==
  /\ Step("stopped", "copied")
  /\ rows' = [s \in Shards |-> rows[Parent]]
  /\ effects' = [s \in Shards |-> effects[Parent]]
  /\ signals' = [s \in Shards |-> signals[Parent]]
  /\ UNCHANGED <<bound, running, option, verified, brokerVars, accepted>>

\* "Set this to true after splitting a parent database shard".
StartChildren ==
  /\ Step("copied", "started")
  /\ running' = Children
  /\ option' = Children
  /\ UNCHANGED <<bound, verified, databaseVars, brokerVars, accepted>>

\* Mutant of VerifyShardContent: only the debtors are verified.
VerifyDebtorsOnly(s) ==
  /\ s \in running \cap option
  /\ verified[s] = "none"
  /\ \A d \in rows[s] : IsValidDebtorId(s, d, FALSE)
  /\ verified' = [verified EXCEPT ![s] = "all"]
  /\ UNCHANGED <<phase, bound, running, option, databaseVars, brokerVars, accepted>>

\* The debtors are verified first and the signals later, while the shard runs.
VerifyShardContent(s) ==
  /\ s \in running \cap option
  /\ \/ /\ verified[s] = "none"
        /\ \A d \in rows[s] : IsValidDebtorId(s, d, FALSE)
        /\ verified' = [verified EXCEPT ![s] = "debtors"]
     \/ /\ verified[s] = "debtors"
        /\ \A t \in signals[s] : IsValidDebtorId(s, DebtorOf[t], FALSE)
        /\ verified' = [verified EXCEPT ![s] = "all"]
  /\ UNCHANGED <<phase, bound, running, option, databaseVars, brokerVars, accepted>>

\* "You may set this back to false, once all left-over records ...".
ClearOption(s) ==
  /\ s \in option
  /\ verified[s] = "all"
  /\ option' = option \ {s}
  /\ UNCHANGED <<phase, bound, running, verified, databaseVars, brokerVars, accepted>>

Operate ==
  \/ SubscribeChildren \/ UnsubscribeParent \/ DeleteParentQueue \/ StopParent
  \/ CopyDatabase \/ StartChildren

SplitNext ==
  \/ Operate
  \/ \E m \in Messages : PublishMessage(m)
  \/ \E s \in Shards :
       \/ \E m \in Messages : HandleMessage(s, m)
       \/ \E r \in Requests : HandleRequest(s, r)
       \/ Flush(s)
       \/ \E d \in SplitDebtors : DeleteParentShardDebtor(s, d)
       \/ VerifyShardContent(s)
       \/ ClearOption(s)

SplitSpec == SplitInit /\ [][SplitNext]_splitVars

\* A step that is repeated without end succeeds some time: an acknowledgement
\* arrives, a flush is not interrupted.
Progress(s) == WF_splitVars(Flush(s) /\ signals'[s] = {})
               /\ \A m \in Messages : WF_splitVars(HandleMessage(s, m) /\ m \notin queue'[s])

\* The operator goes on, and so do the processes of each shard.
SplitFairness ==
  /\ WF_splitVars(Operate)
  /\ \A s \in Shards :
       /\ Progress(s)
       /\ \A d \in SplitDebtors : WF_splitVars(DeleteParentShardDebtor(s, d))
       /\ WF_splitVars(VerifyShardContent(s) \/ ClearOption(s))

SplitFairSpec == SplitSpec /\ SplitFairness

-----------------------------------------------------------------------------
(* Properties.                                                             *)

\* The shard whose database has the truth about debtor d.
Keeper(d) == IF phase \in {"copied", "started"} THEN Child[d] ELSE Parent

\* No message and no confirmed request is lost by the split, whatever was in
\* the queues when the database was copied, and whatever the scanner of the
\* other child deletes (cli.py:51-233, table_scanners.py:184-211).
NoTaskIsLost ==
  /\ \A r \in accepted : r \in effects[Keeper(DebtorOf[r])]
  /\ \A m \in published :
       LET d == DebtorOf[m] IN
       m \in effects[Keeper(d)] \cup queue[Keeper(d)] \cup queue[Child[d]]

\* After the split only the owner of a debtor speaks for it, although both
\* children have its signals (models.py:96-104).
OnlyTheOwnerSends ==
  \A s \in Children : \A t \in sent[s] : Child[DebtorOf[t]] = s

\* What verify_shard_content has found clean stays clean: the parts it looked
\* at first are not soiled while it looks at the rest (cli.py:266-279).
VerifiedStaysClean ==
  \A s \in Children :
    /\ verified[s] # "none" => \A d \in rows[s] : Child[d] = s
    /\ verified[s] = "all" => \A t \in signals[s] : Child[DebtorOf[t]] = s

\* The left-overs disappear, and the option can be turned off (README.md:156-160).
SplitCompletes == <>(phase = "started" /\ option = {})

\* Neither the split nor a left-over signal holds up the announcements.
EveryChangeIsAnnounced ==
  \A t \in Tasks :
    (\E s \in Shards : t \in signals[s]) ~> (\E s \in Shards : t \in sent[s])
=============================================================================
