--------------------------- MODULE TransferClients ---------------------------
(***************************************************************************)
(* The clients of the Web API for transfers.  A client makes a payment     *)
(* under a UUID of its own choice: it repeats the POST request until it    *)
(* gets an answer, looks at the transfer when it is advised to ("checkupAt"*)
(* ), and deletes it in the end.  Requests can be delayed and duplicated,  *)
(* answers can be lost.  Meanwhile limits are reached and freed again, and *)
(* the debtor may be deactivated.  How the server finalizes a transfer is  *)
(* the subject of IssuingTransfers; here it is one step.                   *)
(***************************************************************************)
EXTENDS Integers, Sequences

CONSTANTS
  Clients,       \* each makes one payment for the same debtor
  Uuids,         \* transfer UUIDs
  Payments,      \* amount, recipient and note of a transfer
  MaxActions,    \* APP_MAX_TRANSFERS_PER_MONTH
  WaitsToDelete  \* clients let all requests for the UUID die out ("5 days")

ASSUME ActionsAssumption == MaxActions \in Nat
ASSUME DeletionAssumption == WaitsToDelete \in BOOLEAN

VARIABLES
  client,         \* what each client wants, and what it has been told
  posts,          \* POST requests that may still reach the server
  transfers,      \* table "running_transfer"
  running_transfers_count,  \* the debtor's number of rows in it
  actions_count,  \* the debtor's transfers and updates of this month
  active,         \* the debtor has not been deactivated
  created         \* history: the transfers created, in this order

serverVars == <<transfers, running_transfers_count, actions_count, active, created>>
transferVars == <<client, posts, serverVars>>

NoUuid == "none"
TransferSteps ==
  {"new", "waiting", "accepted", "conflict", "forbidden", "gone", "finished", "deleted"}
Client == [step : TransferSteps, uuid : Uuids \cup {NoUuid}, payment : Payments]
PostRequest == [from : Clients, uuid : Uuids, payment : Payments]
Transfer == [uuid : Uuids, payment : Payments, finalized : BOOLEAN]

Range(s) == {s[i] : i \in DOMAIN s}

TransfersTypeOK ==
  /\ client \in [Clients -> Client]
  /\ posts \subseteq PostRequest
  /\ transfers \subseteq Transfer
  /\ running_transfers_count \in Int /\ running_transfers_count <= MaxActions
  /\ actions_count \in 0 .. MaxActions
  /\ active \in BOOLEAN
  /\ Range(created) \subseteq [uuid : Uuids, payment : Payments]
  /\ \A t1, t2 \in transfers : t1.uuid = t2.uuid => t1 = t2

\* The debtor has been activated: before that nobody knows its URI.
TransfersInit ==
  /\ client \in [Clients -> [step : {"new"}, uuid : {NoUuid}, payment : Payments]]
  /\ posts = {} /\ transfers = {}
  /\ running_transfers_count = 0 /\ actions_count = 0
  /\ active = TRUE
  /\ created = <<>>

PostOf(c) == [from |-> c, uuid |-> client[c].uuid, payment |-> client[c].payment]
RowsOf(uuid) == {t \in transfers : t.uuid = uuid}

\* Clients that may still (re)send their request.
Trying == {"waiting", "forbidden"}

-----------------------------------------------------------------------------
(* The client's side (external).                                           *)

\* A client takes a new UUID, or by mistake the UUID of another payment that
\* has not been deleted yet.
Post(c, uuid) ==
  /\ client[c].step = "new"
  /\ \A x \in Clients : client[x].uuid = uuid => client[x].step # "deleted"
  /\ client' = [client EXCEPT ![c].step = "waiting", ![c].uuid = uuid]
  /\ posts' = posts \cup {[from |-> c, uuid |-> uuid, payment |-> client[c].payment]}
  /\ UNCHANGED serverVars

\* No answer has come, or a limit was reached: the same request is sent again.
PostAgain(c) ==
  /\ client[c].step \in Trying
  /\ client' = [client EXCEPT ![c].step = "waiting"]
  /\ posts' = posts \cup {PostOf(c)}
  /\ UNCHANGED serverVars

\* A client asks until it sees a result, or that the transfer is gone.
GetTransfer(c) ==
  /\ client[c].step = "accepted"
  /\ \A t \in RowsOf(client[c].uuid) : t.finalized
  /\ client' = [client EXCEPT ![c].step = "finished"]
  /\ UNCHANGED <<posts, serverVars>>

\* Nobody who may still repeat a request, and no request on its way.
Quiet(uuid) ==
  /\ \A r \in posts : r.uuid # uuid
  /\ \A c \in Clients : client[c].uuid = uuid => client[c].step \notin Trying

\* delete_running_transfer.
DeleteTransfer(c) ==
  /\ client[c].step = "finished"
  /\ WaitsToDelete => Quiet(client[c].uuid)
  /\ client' = [client EXCEPT ![c].step = "deleted"]
  /\ transfers' = transfers \ RowsOf(client[c].uuid)
  /\ running_transfers_count' = IF RowsOf(client[c].uuid) = {} THEN running_transfers_count
                                ELSE running_transfers_count - 1
  /\ UNCHANGED <<posts, actions_count, active, created>>

-----------------------------------------------------------------------------
(* The server's side.                                                      *)

\* _throttle_debtor_actions: after 30 days the counter starts again.
Counted(elapsed) == IF elapsed THEN 0 ELSE actions_count
LimitReached(elapsed) ==
  Counted(elapsed) >= MaxActions \/ running_transfers_count >= MaxActions

\* Mutant of Outcome: it is not checked whether the transfer exists.
OutcomeUnchecked(r, elapsed) ==
  IF ~active THEN "gone" ELSE IF LimitReached(elapsed) THEN "forbidden" ELSE "created"

\* Mutant of Outcome: the limits are looked at first.
OutcomeLimitFirst(r, elapsed) ==
  IF active /\ LimitReached(elapsed) THEN "forbidden"
  ELSE IF \E t \in RowsOf(r.uuid) : t.payment = r.payment THEN "accepted"
  ELSE IF RowsOf(r.uuid) # {} THEN "conflict"
  ELSE IF active THEN "created" ELSE "gone"

\* initiate_running_transfer: 303, 409, 404, 403 or 201.
Outcome(r, elapsed) ==
  IF \E t \in RowsOf(r.uuid) : t.payment = r.payment THEN "accepted"
  ELSE IF RowsOf(r.uuid) # {} THEN "conflict"
  ELSE IF ~active THEN "gone"
  ELSE IF LimitReached(elapsed) THEN "forbidden"
  ELSE "created"

Create(r, elapsed) ==
  /\ transfers' = transfers \cup
       {[uuid |-> r.uuid, payment |-> r.payment, finalized |-> FALSE]}
  /\ running_transfers_count' = running_transfers_count + 1
  /\ actions_count' = Counted(elapsed) + 1
  /\ created' = Append(created, [uuid |-> r.uuid, payment |-> r.payment])
  /\ UNCHANGED active

\* What the client makes of the answer, when it still waits for one.
ToldOutcome(r, outcome) ==
  [client EXCEPT ![r.from].step =
     IF @ # "waiting" THEN @ ELSE IF outcome = "created" THEN "accepted" ELSE outcome]

\* TransfersListEndpoint.post.  The request may come again; the answer may be
\* lost.  An exception rolls back what the counters have been set to.
ProcessPost(r, elapsed, answered) ==
  /\ r \in posts
  /\ IF Outcome(r, elapsed) = "created" THEN Create(r, elapsed) ELSE UNCHANGED serverVars
  /\ client' = IF answered THEN ToldOutcome(r, Outcome(r, elapsed)) ELSE client
  /\ posts' \in {posts, posts \ {r}}

\* A copy of the request never arrives.
LoseRequest(r) ==
  /\ r \in posts
  /\ posts' = posts \ {r}
  /\ UNCHANGED <<client, serverVars>>

FinalizeTransfer(t) ==
  /\ t \in transfers /\ ~t.finalized
  /\ transfers' = (transfers \ {t}) \cup {[t EXCEPT !.finalized = TRUE]}
  /\ UNCHANGED <<client, posts, running_transfers_count, actions_count, active, created>>

\* update_debtor_config counts on the same counter, with the same limit.
CountUpdate(elapsed) ==
  /\ active /\ Counted(elapsed) < MaxActions
  /\ actions_count' = Counted(elapsed) + 1
  /\ UNCHANGED <<client, posts, transfers, running_transfers_count, active, created>>

\* deactivate_debtor; it is for good.
Deactivate ==
  /\ active /\ active' = FALSE
  /\ transfers' = {} /\ running_transfers_count' = 0
  /\ UNCHANGED <<client, posts, actions_count, created>>

TransfersNext ==
  \/ \E c \in Clients :
       \/ \E uuid \in Uuids : Post(c, uuid)
       \/ PostAgain(c) \/ GetTransfer(c) \/ DeleteTransfer(c)
  \/ \E r \in posts :
       LoseRequest(r) \/ \E elapsed, answered \in BOOLEAN : ProcessPost(r, elapsed, answered)
  \/ \E t \in transfers : FinalizeTransfer(t)
  \/ \E elapsed \in BOOLEAN : CountUpdate(elapsed)
  \/ Deactivate

TransfersSpec == TransfersInit /\ [][TransfersNext]_transferVars

-----------------------------------------------------------------------------
(* Properties.                                                             *)

\* However often a request is repeated, duplicated or delayed, whatever limits are
\* freed in between, and although rows disappear with the debtor, no UUID is paid
\* for twice (procedures.py:313-319, 664-668).  For rows the clients delete this
\* is up to the clients, who have to wait first (routes.py:630-633).
PaidOnce == \A i, j \in DOMAIN created : created[i].uuid = created[j].uuid => i = j

Own(c) == [uuid |-> client[c].uuid, payment |-> client[c].payment]
IsPaid(c) == Own(c) \in Range(created)

\* A client that was told its transfer exists has made its own payment, not that
\* of another client with the same UUID; one that was told of a conflict has made
\* none, and never will.  An answer that a limit is reached is true when it
\* is given, also if an earlier copy of the request has been performed meanwhile,
\* but a later copy may be performed; after the answer that there is no such
\* debtor, no copy is (procedures.py:313-326).
AnswerIsTrue ==
  [][\A c \in Clients :
       /\ client'[c].step \in {"accepted", "finished", "deleted"} => IsPaid(c)'
       /\ client'[c].step = "conflict" => ~IsPaid(c)'
       /\ client[c].step = "waiting" /\ client'[c].step = "forbidden" => ~IsPaid(c)'
       /\ client[c].step = "gone" /\ IsPaid(c)' => IsPaid(c)
    ]_transferVars
=============================================================================
