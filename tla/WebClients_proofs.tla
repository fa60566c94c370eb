-------------------------- MODULE WebClients_proofs ---------------------------
(***************************************************************************)
(* Theorems about the clients of the Web API.  ConfigClients, for any      *)
(* number of devices, configurations and updates: no update is lost, and   *)
(* what was confirmed was in force.  TransferClients, for any number of    *)
(* clients, UUIDs and repetitions: no payment is made twice, and what a    *)
(* client is told about its payment is true; both need clients that delete *)
(* a transfer only when no request for it is left (WaitsToDelete).         *)
(***************************************************************************)
EXTENDS ConfigClients, TransferClients, TLAPS

-----------------------------------------------------------------------------
(* ConfigClients.                                                          *)

\* The configuration that a reader of the update ID k has seen.
SeenAt(k, config) == k \in 1 .. Len(history) + 1 /\ config = Before(k)

\* An active debtor's configuration is the one of the last applied update.
RowInv == row.active => row.config_data = Before(Len(history) + 1)

\* Every request was made out of the configuration its update ID says.
RequestsInv == \A r \in network : SeenAt(r.id - 1, r.seen)

DevicesInv ==
  \A d \in Devices : device[d].step \in {"read", "sent"} => SeenAt(device[d].id, device[d].seen)

ConfigInv == TypeOK /\ RowInv /\ RequestsInv /\ DevicesInv /\ NoLostUpdate /\ ConfirmedWasInForce

LEMMA InitConfigInv == Init => ConfigInv
<1> SUFFICES ASSUME Init PROVE ConfigInv
  OBVIOUS
<1>1. TypeOK
  BY ConfigsAssumption DEF Init, TypeOK, Row, Device, Steps, Idle
<1>2. RowInv
  BY DEF Init, RowInv, Before
<1>3. RequestsInv /\ DevicesInv /\ NoLostUpdate /\ ConfirmedWasInForce
  BY DEF Init, RequestsInv, DevicesInv, NoLostUpdate, ConfirmedWasInForce, Idle
<1> QED
  BY <1>1, <1>2, <1>3 DEF ConfigInv

\* What was seen in the past is not changed by what is applied later.
LEMMA SeenStays ==
  ASSUME TypeOK, NEW r \in Request, history' = Append(history, r)
  PROVE  /\ Len(history') = Len(history) + 1
         /\ history'[Len(history) + 1] = r
         /\ \A i \in 1 .. Len(history) : history'[i] = history[i]
         /\ \A k \in 1 .. Len(history) + 1 : Before(k)' = Before(k)
         /\ \A k, config : SeenAt(k, config) => SeenAt(k, config)'
<1>1. /\ Len(history') = Len(history) + 1
      /\ history'[Len(history) + 1] = r
      /\ \A i \in 1 .. Len(history) : history'[i] = history[i]
  BY DEF TypeOK
<1>2. \A k \in 1 .. Len(history) + 1 : Before(k)' = Before(k)
  BY <1>1 DEF Before, TypeOK
<1> QED
  BY <1>1, <1>2 DEF SeenAt, TypeOK

\* An answer reaches a device only when its own request is answered.
AnswersOwn(r, step) ==
  \A d \in Devices :
    /\ device'[d].id = device[d].id /\ device'[d].id \in Nat
    /\ device'[d].seen = device[d].seen
    /\ device'[d].wanted = device[d].wanted
    /\ \/ device'[d].step = device[d].step
       \/ /\ device[d].step = "sent" /\ device'[d].step = step
          /\ device[d].id = r.id - 1 /\ device[d].wanted = r.wanted

LEMMA AnswerStep ==
  ASSUME TypeOK, NEW r \in Request, NEW step \in {"confirmed", "conflict", "forbidden", "gone"},
         Answer(r, step)
  PROVE  device' \in [Devices -> Device] /\ AnswersOwn(r, step)
<1>1. CASE device' = device
  BY <1>1 DEF TypeOK, AnswersOwn, Device
<1>2. CASE device' = Told(r, step) /\ device' # device
  <2>1. device[r.from].step = "sent" /\ RequestOf(r.from) = r
    BY <1>2 DEF Told
  <2>2. device[r.from].id = r.id - 1 /\ r.wanted = device[r.from].wanted
    BY <2>1 DEF RequestOf, Request, TypeOK, Device
  <2>3. r.from \in Devices /\ device' = [device EXCEPT ![r.from].step = step]
    BY <1>2, <2>1 DEF Told, Request
  <2>4. device' \in [Devices -> Device]
    BY <2>3 DEF TypeOK, Device, Steps
  <2>5. \A d \in Devices :
          /\ device'[d].id = device[d].id /\ device'[d].seen = device[d].seen
          /\ device'[d].wanted = device[d].wanted
          /\ d # r.from => device'[d].step = device[d].step
          /\ d = r.from => device'[d].step = step
    BY <2>3 DEF TypeOK, Device
  <2>6. \A d \in Devices : device[d].id \in Nat
    BY DEF TypeOK, Device
  <2> QED
    BY <2>1, <2>2, <2>4, <2>5, <2>6 DEF AnswersOwn
<1> QED
  BY <1>1, <1>2 DEF Answer

LEMMA TypeStep == TypeOK /\ [Next]_vars => TypeOK'
<1> SUFFICES ASSUME TypeOK, [Next]_vars PROVE TypeOK'
  OBVIOUS
<1> USE DEF TypeOK, Steps
<1>1. ASSUME NEW d \in Devices, ReadConfig(d) PROVE TypeOK'
  BY <1>1 DEF ReadConfig, Device, Row
<1>2. ASSUME NEW d \in Devices, GiveUp(d) PROVE TypeOK'
  BY <1>2, ConfigsAssumption DEF GiveUp, Idle, Device
<1>3. ASSUME NEW d \in Devices, NEW wanted \in Configs, SendUpdate(d, wanted) PROVE TypeOK'
  <2>1. [RequestOf(d) EXCEPT !.wanted = wanted] \in Request
    BY DEF RequestOf, Request, Device
  <2> QED
    BY <1>3, <2>1 DEF SendUpdate, Device
<1>4. ASSUME NEW r \in network,
             \/ PerformUpdate(r) \/ Confirm(r)
             \/ RefuseThrottled(r) \/ RefuseUpdate(r) \/ RefuseInactive(r)
      PROVE TypeOK'
  <2>1. r \in Request
    OBVIOUS
  <2>2. network' \subseteq Request
    BY <1>4 DEF PerformUpdate, Confirm, RefuseThrottled, RefuseUpdate, RefuseInactive, Receive
  <2>3. device' \in [Devices -> Device]
    BY <1>4, <2>1, AnswerStep DEF PerformUpdate, Confirm, RefuseThrottled, RefuseUpdate, RefuseInactive
  <2>4. CASE PerformUpdate(r)
    <3>1. r.wanted \in Configs /\ r.id \in Nat /\ r.id = Len(history) + 2
      BY <2>1, <2>4 DEF PerformUpdate, UpdateConflict, Request, Row
    <3>2. row' \in Row /\ row'.latest_update_id = r.id
      BY <2>4, <3>1 DEF PerformUpdate, Row
    <3>3. history' \in Seq(Request) /\ Len(history') = Len(history) + 1
      BY <2>1, <2>4 DEF PerformUpdate
    <3>4. Len(history) \in Nat
      OBVIOUS
    <3> QED
      BY <2>2, <2>3, <3>1, <3>2, <3>3, <3>4
  <2> QED
    BY <1>4, <2>2, <2>3, <2>4 DEF Confirm, RefuseThrottled, RefuseUpdate, RefuseInactive
<1>5. CASE DeactivateDebtor
  BY <1>5, ConfigsAssumption DEF DeactivateDebtor, Row
<1>6. CASE UNCHANGED vars
  BY <1>6 DEF vars
<1> QED
  BY <1>1, <1>2, <1>3, <1>4, <1>5, <1>6 DEF Next

LEMMA HistoryStep ==
  ConfigInv /\ [Next]_vars =>
    RowInv' /\ RequestsInv' /\ DevicesInv' /\ NoLostUpdate' /\ ConfirmedWasInForce'
<1> DEFINE Inv == RowInv /\ RequestsInv /\ DevicesInv /\ NoLostUpdate /\ ConfirmedWasInForce
<1> SUFFICES ASSUME ConfigInv, [Next]_vars PROVE Inv'
  OBVIOUS
<1>a. TypeOK /\ Inv
  BY DEF ConfigInv
<1> USE <1>a
<1>1. ASSUME NEW d \in Devices, ReadConfig(d) PROVE Inv'
  <2>1. SeenAt(row.latest_update_id, row.config_data)
    BY <1>1 DEF ReadConfig, RowInv, SeenAt, TypeOK
  <2> QED
    BY <1>1, <2>1 DEF ReadConfig, RowInv, RequestsInv, DevicesInv, NoLostUpdate,
      ConfirmedWasInForce, SeenAt, Before, TypeOK
<1>2. ASSUME NEW d \in Devices, GiveUp(d) PROVE Inv'
  BY <1>2 DEF GiveUp, Idle, RowInv, RequestsInv, DevicesInv, NoLostUpdate,
    ConfirmedWasInForce, SeenAt, Before, TypeOK
<1>3. ASSUME NEW d \in Devices, NEW wanted \in Configs, SendUpdate(d, wanted) PROVE Inv'
  <2> DEFINE r == [RequestOf(d) EXCEPT !.wanted = wanted]
  <2>1. r.id - 1 = device[d].id /\ r.seen = device[d].seen
    BY DEF RequestOf, TypeOK, Device
  <2>2. SeenAt(device[d].id, device[d].seen)
    BY <1>3 DEF SendUpdate, DevicesInv
  <2>3. RequestsInv'
    BY <1>3, <2>1, <2>2 DEF SendUpdate, RequestsInv, SeenAt, Before
  <2> QED
    BY <1>3, <2>2, <2>3 DEF SendUpdate, RowInv, DevicesInv, NoLostUpdate,
      ConfirmedWasInForce, SeenAt, Before, TypeOK
<1>4. ASSUME NEW r \in network, PerformUpdate(r) PROVE Inv'
  <2>1. r \in Request /\ r.id \in Nat /\ SeenAt(r.id - 1, r.seen)
    BY DEF TypeOK, RequestsInv, Request
  <2>2. r.id = Len(history) + 2 /\ Len(history) \in Nat
    BY <1>4, <2>1 DEF PerformUpdate, UpdateConflict, TypeOK, Row
  <2>3. history' = Append(history, r) /\ Answer(r, "confirmed") /\ network' \subseteq network
    BY <1>4 DEF PerformUpdate, Receive
  <2>4. /\ Len(history') = Len(history) + 1
        /\ history'[Len(history) + 1] = r
        /\ \A i \in 1 .. Len(history) : history'[i] = history[i]
        /\ \A k \in 1 .. Len(history) + 1 : Before(k)' = Before(k)
        /\ \A k, config : SeenAt(k, config) => SeenAt(k, config)'
    BY <2>1, <2>3, SeenStays
  <2>5. RowInv'
    BY <1>4, <2>2, <2>4 DEF PerformUpdate, RowInv, Before, TypeOK, Row
  <2>6. RequestsInv'
    BY <2>3, <2>4 DEF RequestsInv
  <2>7. AnswersOwn(r, "confirmed")
    BY <2>1, <2>3, AnswerStep
  <2>8. DevicesInv'
    BY <2>4, <2>7 DEF DevicesInv, AnswersOwn
  <2>9. DOMAIN history = 1 .. Len(history) /\ DOMAIN history' = 1 .. Len(history) + 1
    BY <2>3, <2>1, <2>4 DEF TypeOK
  <2>10. NoLostUpdate'
    <3>1. r.seen = Before(Len(history) + 1)
      BY <2>1, <2>2 DEF SeenAt
    <3> QED
      BY <2>2, <2>4, <2>9, <3>1 DEF NoLostUpdate
  <2>11. ConfirmedWasInForce'
    BY <2>2, <2>4, <2>7, <2>9 DEF ConfirmedWasInForce, AnswersOwn
  <2> QED
    BY <2>5, <2>6, <2>8, <2>10, <2>11
<1>5. ASSUME NEW r \in network, Confirm(r) \/ RefuseThrottled(r) \/ RefuseUpdate(r) \/ RefuseInactive(r)
      PROVE Inv'
  <2>1. r \in Request /\ r.id \in Nat /\ SeenAt(r.id - 1, r.seen)
    BY DEF TypeOK, RequestsInv, Request
  <2>2. PICK step \in {"confirmed", "conflict", "forbidden", "gone"} :
          Answer(r, step) /\ (step = "confirmed" => Confirm(r))
    BY <1>5 DEF Confirm, RefuseThrottled, RefuseUpdate, RefuseInactive
  <2>3. AnswersOwn(r, step)
    BY <2>1, <2>2, AnswerStep
  <2>4. UNCHANGED <<row, history>> /\ network' \subseteq network
    BY <1>5 DEF Confirm, RefuseThrottled, RefuseUpdate, RefuseInactive, Receive
  <2>5. DevicesInv'
    BY <2>2, <2>3, <2>4 DEF DevicesInv, SeenAt, Before, AnswersOwn
  <2>6. ASSUME Confirm(r)
        PROVE /\ r.id - 1 \in 1 .. Len(history)
              /\ history[r.id - 1].wanted = r.wanted
    <3>1. r.id = Len(history) + 1 /\ r.wanted = Before(Len(history) + 1)
      BY <2>6 DEF Confirm, AlreadyUpToDate, RowInv, TypeOK
    <3>2. Len(history) \in Nat /\ Len(history) >= 1
      BY <2>1, <3>1 DEF SeenAt, TypeOK
    <3> QED
      BY <3>1, <3>2 DEF Before
  <2>7. ConfirmedWasInForce'
    <3>1. CASE step = "confirmed"
      <4>1. /\ r.id - 1 \in DOMAIN history
            /\ history[r.id - 1].wanted = r.wanted
        BY <2>2, <2>6, <3>1 DEF TypeOK
      <4> QED
        BY <2>3, <2>4, <3>1, <4>1 DEF ConfirmedWasInForce, AnswersOwn
    <3>2. CASE step # "confirmed"
      BY <2>3, <2>4, <3>2 DEF ConfirmedWasInForce, AnswersOwn
    <3> QED
      BY <3>1, <3>2
  <2> QED
    BY <2>4, <2>5, <2>7 DEF RowInv, RequestsInv, NoLostUpdate, SeenAt, Before
<1>6. CASE DeactivateDebtor
  BY <1>6 DEF DeactivateDebtor, RowInv, RequestsInv, DevicesInv, NoLostUpdate,
    ConfirmedWasInForce, SeenAt, Before, TypeOK, Row
<1>7. CASE UNCHANGED vars
  BY <1>7 DEF vars, RowInv, RequestsInv, DevicesInv, NoLostUpdate,
    ConfirmedWasInForce, SeenAt, Before
<1> QED
  BY <1>1, <1>2, <1>3, <1>4, <1>5, <1>6, <1>7 DEF Next

LEMMA ConfigInvHolds == Spec => []ConfigInv
<1>1. ConfigInv /\ [Next]_vars => ConfigInv'
  BY TypeStep, HistoryStep DEF ConfigInv
<1> QED
  BY <1>1, InitConfigInv, PTL DEF Spec

\* Types, and that the update ID counts the applied updates (procedures.py:786).
THEOREM ConfigTypeCorrect == Spec => []TypeOK
BY ConfigInvHolds, PTL DEF ConfigInv

\* No device overwrites a configuration it has not seen (procedures.py:758-789).
THEOREM NoUpdateIsLost == Spec => []NoLostUpdate
BY ConfigInvHolds, PTL DEF ConfigInv

\* A confirmed configuration has been in force (procedures.py:783-784).
THEOREM ConfirmedConfigsWereInForce == Spec => []ConfirmedWasInForce
BY ConfigInvHolds, PTL DEF ConfigInv

-----------------------------------------------------------------------------
(* TransferClients.                                                        *)

(* The invariant                                                           *)

Made == [uuid : Uuids, payment : Payments]
Typed ==
  /\ TransfersTypeOK
  /\ created \in Seq(Made)
  /\ \A c \in Clients : client[c].step # "new" => client[c].uuid \in Uuids

\* A request on its way is the one its client has made.
Owned == \A r \in posts : client[r.from].step # "new" /\ r = PostOf(r.from)

\* A UUID whose transfer was deleted, and of which nobody will hear again.
Dead(uuid) ==
  /\ Quiet(uuid)
  /\ \E c \in Clients : client[c].uuid = uuid /\ client[c].step = "deleted"

InTable(p) == \E t \in transfers : t.uuid = p.uuid /\ t.payment = p.payment
PaymentsKnown ==
  /\ active => \A i \in DOMAIN created : InTable(created[i]) \/ Dead(created[i].uuid)
  /\ ~active => transfers = {}
RowsPaid ==
  \A t \in transfers : \E i \in DOMAIN created :
    created[i] = [uuid |-> t.uuid, payment |-> t.payment]

\* Why an answer stays true: a conflicting payment stays in the history, and
\* a debtor is not activated again.
AnswersStay ==
  \A c \in Clients :
    /\ client[c].step \in {"accepted", "finished", "deleted"} => IsPaid(c)
    /\ client[c].step = "conflict" =>
         ~IsPaid(c) /\ \E i \in DOMAIN created : created[i].uuid = client[c].uuid
    /\ client[c].step = "gone" => ~active

TransfersInv == Typed /\ Owned /\ PaymentsKnown /\ RowsPaid /\ AnswersStay /\ PaidOnce

LEMMA InitTransfersInv == ASSUME TransfersInit PROVE TransfersInv
<1>1. Typed
  BY ActionsAssumption DEF TransfersInit, Typed, TransfersTypeOK, Client, TransferSteps, Range
<1>2. Owned /\ PaymentsKnown /\ RowsPaid /\ PaidOnce
  BY DEF TransfersInit, Owned, PaymentsKnown, RowsPaid, PaidOnce
<1>3. AnswersStay
  BY DEF TransfersInit, AnswersStay
<1> QED  BY <1>1, <1>2, <1>3 DEF TransfersInv

-----------------------------------------------------------------------------
(* Steps of the clients                                                    *)

\* The history only matters as long as it does not change.
LEMMA HistoryUnchanged ==
  ASSUME TransfersInv, UNCHANGED created, active' => active,
         \A c \in Clients :
           \/ client'[c].step \in {"new", "waiting"}
           \/ /\ client'[c].uuid = client[c].uuid /\ client'[c].payment = client[c].payment
              /\ \/ client'[c].step = client[c].step
                 \/ /\ client[c].step \in {"accepted", "finished"}
                    /\ client'[c].step \in {"finished", "deleted"}
  PROVE  AnswersStay' /\ PaidOnce'
<1>1. PaidOnce'
  BY DEF TransfersInv, PaidOnce
<1>2. AnswersStay'
  BY DEF TransfersInv, AnswersStay, IsPaid, Own, Range
<1> QED  BY <1>1, <1>2

LEMMA PostStep ==
  ASSUME TransfersInv, NEW c \in Clients, NEW uuid \in Uuids, Post(c, uuid) PROVE TransfersInv'
<1> DEFINE r == [from |-> c, uuid |-> uuid, payment |-> client[c].payment]
<1>0. client \in [Clients -> Client]
  BY DEF TransfersInv, Typed, TransfersTypeOK
<1>1. /\ client[c].step = "new"
      /\ client' = [client EXCEPT ![c].step = "waiting", ![c].uuid = uuid]
      /\ posts' = posts \cup {r}
      /\ UNCHANGED <<transfers, running_transfers_count, actions_count, active, created>>
  BY DEF Post, serverVars
<1>2. /\ client'[c].step = "waiting" /\ client'[c].uuid = uuid
      /\ client'[c].payment = client[c].payment
      /\ client' \in [Clients -> Client]
      /\ \A x \in Clients \ {c} : client'[x] = client[x]
  BY <1>0, <1>1 DEF Client, TransferSteps
<1>3. Typed'
  <2>1. r \in PostRequest
    BY <1>0 DEF PostRequest, Client
  <2> QED  BY <1>1, <1>2, <2>1 DEF TransfersInv, Typed, TransfersTypeOK
<1>4. Owned'
  <2>1. \A m \in posts : m.from \in Clients \ {c}
    BY <1>1 DEF TransfersInv, Owned, Typed, TransfersTypeOK, PostRequest
  <2> QED  BY <1>1, <1>2, <2>1 DEF TransfersInv, Owned, PostOf
\* The UUID of a deleted transfer is not taken again.
<1>5. PaymentsKnown'
  <2>1. \A u : Dead(u) => u # uuid
    BY DEF Dead, Post
  <2>2. \A u : Dead(u) => Dead(u)'
    BY <1>1, <1>2, <2>1 DEF Dead, Quiet, Trying
  <2> QED  BY <1>1, <2>2 DEF TransfersInv, PaymentsKnown, InTable
<1>6. RowsPaid'
  BY <1>1 DEF TransfersInv, RowsPaid
<1>7. AnswersStay' /\ PaidOnce'
  BY <1>1, <1>2, HistoryUnchanged
<1> QED  BY <1>3, <1>4, <1>5, <1>6, <1>7 DEF TransfersInv

LEMMA PostAgainStep == ASSUME TransfersInv, NEW c \in Clients, PostAgain(c) PROVE TransfersInv'
<1>0. client \in [Clients -> Client]
  BY DEF TransfersInv, Typed, TransfersTypeOK
<1>1. /\ client[c].step \in Trying
      /\ client' = [client EXCEPT ![c].step = "waiting"]
      /\ posts' = posts \cup {PostOf(c)}
      /\ UNCHANGED <<transfers, running_transfers_count, actions_count, active, created>>
  BY DEF PostAgain, serverVars
<1>2. /\ client' \in [Clients -> Client]
      /\ client'[c].step = "waiting"
      /\ \A x \in Clients : /\ client'[x].uuid = client[x].uuid
                            /\ client'[x].payment = client[x].payment
                            /\ x # c => client'[x].step = client[x].step
  BY <1>0, <1>1 DEF Client, TransferSteps
<1>3. Typed'
  <2>1. PostOf(c) \in PostRequest
    BY <1>0, <1>1 DEF TransfersInv, Typed, PostRequest, PostOf, Client, Trying
  <2> QED  BY <1>1, <1>2, <2>1 DEF TransfersInv, Typed, TransfersTypeOK, Trying
<1>4. Owned'
  <2>1. \A m \in posts : m.from \in Clients
    BY DEF TransfersInv, Typed, TransfersTypeOK, PostRequest
  <2>2. \A x \in Clients : PostOf(x)' = PostOf(x)
    BY <1>2 DEF PostOf
  <2>3. PostOf(c).from = c
    BY DEF PostOf
  <2> QED  BY <1>1, <1>2, <2>1, <2>2, <2>3 DEF TransfersInv, Owned, Trying
<1>5. PaymentsKnown'
  <2>1. \A u : Dead(u) => Dead(u)'
    BY <1>1, <1>2 DEF Dead, Quiet, PostOf, Trying
  <2> QED  BY <1>1, <2>1 DEF TransfersInv, PaymentsKnown, InTable
<1>6. RowsPaid'
  BY <1>1 DEF TransfersInv, RowsPaid
<1>7. AnswersStay' /\ PaidOnce'
  BY <1>1, <1>2, HistoryUnchanged
<1> QED  BY <1>3, <1>4, <1>5, <1>6, <1>7 DEF TransfersInv

LEMMA GetStep == ASSUME TransfersInv, NEW c \in Clients, GetTransfer(c) PROVE TransfersInv'
<1>0. client \in [Clients -> Client]
  BY DEF TransfersInv, Typed, TransfersTypeOK
<1>1. /\ client[c].step = "accepted"
      /\ client' = [client EXCEPT ![c].step = "finished"]
      /\ UNCHANGED <<posts, transfers, running_transfers_count, actions_count, active, created>>
  BY DEF GetTransfer, serverVars
<1>2. /\ client' \in [Clients -> Client]
      /\ client'[c].step = "finished"
      /\ \A x \in Clients : /\ client'[x].uuid = client[x].uuid
                            /\ client'[x].payment = client[x].payment
                            /\ x # c => client'[x].step = client[x].step
  BY <1>0, <1>1 DEF Client, TransferSteps
<1>3. Typed'
  BY <1>1, <1>2 DEF TransfersInv, Typed, TransfersTypeOK
<1>4. Owned'
  <2>1. \A m \in posts : m.from \in Clients
    BY DEF TransfersInv, Typed, TransfersTypeOK, PostRequest
  <2>2. \A x \in Clients : PostOf(x)' = PostOf(x)
    BY <1>2 DEF PostOf
  <2> QED  BY <1>1, <1>2, <2>1, <2>2 DEF TransfersInv, Owned
<1>5. PaymentsKnown'
  <2>1. \A u : Dead(u) => Dead(u)'
    BY <1>1, <1>2 DEF Dead, Quiet, Trying
  <2> QED  BY <1>1, <2>1 DEF TransfersInv, PaymentsKnown, InTable
<1>6. RowsPaid'
  BY <1>1 DEF TransfersInv, RowsPaid
<1>7. AnswersStay' /\ PaidOnce'
  BY <1>1, <1>2, HistoryUnchanged
<1> QED  BY <1>3, <1>4, <1>5, <1>6, <1>7 DEF TransfersInv

\* The payment of a deleted transfer is not forgotten: its UUID is dead.
LEMMA DeleteStep ==
  ASSUME WaitsToDelete, TransfersInv, NEW c \in Clients, DeleteTransfer(c) PROVE TransfersInv'
<1> DEFINE uuid == client[c].uuid
<1>0. client \in [Clients -> Client]
  BY DEF TransfersInv, Typed, TransfersTypeOK
<1>1. /\ client[c].step = "finished" /\ Quiet(uuid)
      /\ client' = [client EXCEPT ![c].step = "deleted"]
      /\ transfers' = transfers \ RowsOf(uuid)
      /\ running_transfers_count' \in {running_transfers_count, running_transfers_count - 1}
      /\ UNCHANGED <<posts, actions_count, active, created>>
  BY DEF DeleteTransfer
<1>2. /\ client' \in [Clients -> Client]
      /\ client'[c].step = "deleted"
      /\ \A x \in Clients : /\ client'[x].uuid = client[x].uuid
                            /\ client'[x].payment = client[x].payment
                            /\ x # c => client'[x].step = client[x].step
  BY <1>0, <1>1 DEF Client, TransferSteps
<1>3. Typed'
  BY <1>1, <1>2, ActionsAssumption DEF TransfersInv, Typed, TransfersTypeOK
<1>4. Owned'
  <2>1. \A m \in posts : m.from \in Clients
    BY DEF TransfersInv, Typed, TransfersTypeOK, PostRequest
  <2>2. \A x \in Clients : PostOf(x)' = PostOf(x)
    BY <1>2 DEF PostOf
  <2> QED  BY <1>1, <1>2, <2>1, <2>2 DEF TransfersInv, Owned
<1>5. PaymentsKnown'
  <2>1. \A u : Dead(u) => Dead(u)'
    BY <1>1, <1>2 DEF Dead, Quiet, Trying
  <2>2. Dead(uuid)'
    BY <1>1, <1>2 DEF Dead, Quiet, Trying
  <2>3. \A i \in DOMAIN created : InTable(created[i]) => InTable(created[i])' \/ created[i].uuid = uuid
    BY <1>1 DEF InTable, RowsOf
  <2> QED  BY <1>1, <2>1, <2>2, <2>3 DEF TransfersInv, PaymentsKnown
<1>6. RowsPaid'
  BY <1>1 DEF TransfersInv, RowsPaid
<1>7. AnswersStay' /\ PaidOnce'
  BY <1>1, <1>2, HistoryUnchanged
<1> QED  BY <1>3, <1>4, <1>5, <1>6, <1>7 DEF TransfersInv

-----------------------------------------------------------------------------
(* Steps of the server                                                     *)

\* A UUID with a request on its way is not dead.
LEMMA RequestedIsAlive ==
  ASSUME NEW r \in posts PROVE ~Dead(r.uuid)
BY DEF Dead, Quiet

\* A client that stops to wait, and a request that goes, revive no UUID.
LEMMA DeadStays ==
  ASSUME posts' \subseteq posts,
         \A c \in Clients : /\ client'[c].uuid = client[c].uuid
                            /\ client[c].step \notin Trying => client'[c].step = client[c].step
  PROVE  \A u : Dead(u) => Dead(u)'
BY DEF Dead, Quiet, Trying

\* The server's answer and what it does fit together.
LEMMA OutcomeTrue ==
  ASSUME TransfersInv, NEW r \in posts, NEW elapsed \in BOOLEAN
  PROVE  LET own == [uuid |-> r.uuid, payment |-> r.payment] IN
         /\ Outcome(r, elapsed) = "accepted" => own \in Range(created)
         /\ Outcome(r, elapsed) = "conflict" =>
              /\ own \notin Range(created)
              /\ \E i \in DOMAIN created : created[i].uuid = r.uuid
         /\ Outcome(r, elapsed) \in {"forbidden", "created"} =>
              /\ RowsOf(r.uuid) = {} /\ active
              /\ \A i \in DOMAIN created : created[i].uuid # r.uuid
         /\ Outcome(r, elapsed) = "gone" => ~active
         /\ Outcome(r, elapsed) = "created" => ~LimitReached(elapsed)
         /\ Outcome(r, elapsed) \in {"accepted", "conflict", "gone", "forbidden", "created"}
<1> DEFINE own == [uuid |-> r.uuid, payment |-> r.payment]
           outcome == Outcome(r, elapsed)
<1>1. active => \A i \in DOMAIN created : created[i].uuid = r.uuid => InTable(created[i])
  BY RequestedIsAlive DEF TransfersInv, PaymentsKnown
<1>2. \A t1, t2 \in transfers : t1.uuid = t2.uuid => t1 = t2
  BY DEF TransfersInv, Typed, TransfersTypeOK
<1>3. outcome = "accepted" => own \in Range(created)
  <2> SUFFICES ASSUME NEW t \in RowsOf(r.uuid), t.payment = r.payment PROVE own \in Range(created)
    BY DEF Outcome
  <2> QED  BY DEF TransfersInv, RowsPaid, RowsOf, Range
<1>4. ASSUME outcome = "conflict"
      PROVE  /\ own \notin Range(created)
             /\ \E i \in DOMAIN created : created[i].uuid = r.uuid
  <2>1. PICK t \in RowsOf(r.uuid) : t.payment # r.payment
    BY <1>4 DEF Outcome
  <2>2. \E i \in DOMAIN created : created[i].uuid = r.uuid
    BY DEF TransfersInv, RowsPaid, RowsOf
  <2>3. active
    BY DEF TransfersInv, PaymentsKnown, RowsOf
  <2>4. own \notin Range(created)
    BY <2>1, <2>3, <1>1, <1>2 DEF Range, InTable, RowsOf
  <2> QED  BY <2>2, <2>4
<1>5. ASSUME outcome \in {"forbidden", "created"}
      PROVE  /\ RowsOf(r.uuid) = {} /\ active
             /\ \A i \in DOMAIN created : created[i].uuid # r.uuid
  <2>1. RowsOf(r.uuid) = {} /\ active
    BY <1>5 DEF Outcome
  <2> QED  BY <1>1, <2>1 DEF InTable, RowsOf
<1>6. /\ outcome = "gone" => ~active
      /\ outcome = "created" => ~LimitReached(elapsed)
      /\ outcome \in {"accepted", "conflict", "gone", "forbidden", "created"}
  BY DEF Outcome
<1> HIDE DEF outcome
<1> QED  BY <1>3, <1>4, <1>5, <1>6 DEF outcome

\* What the history is after the request has been processed.
LEMMA HistoryAfter ==
  ASSUME TransfersInv, NEW r \in posts, NEW elapsed \in BOOLEAN,
         IF Outcome(r, elapsed) = "created" THEN Create(r, elapsed) ELSE UNCHANGED serverVars
  PROVE  /\ created' \in Seq(Made)
         /\ \A i \in DOMAIN created : i \in DOMAIN created' /\ created'[i] = created[i]
         /\ Range(created) \subseteq Range(created')
         /\ Outcome(r, elapsed) # "created" => Range(created') = Range(created)
         /\ Outcome(r, elapsed) = "created" =>
              Range(created') = Range(created) \cup {[uuid |-> r.uuid, payment |-> r.payment]}
         /\ active' = active
         /\ PaidOnce'
<1> DEFINE own == [uuid |-> r.uuid, payment |-> r.payment]
<1>1. created \in Seq(Made) /\ own \in Made
  BY DEF TransfersInv, Typed, TransfersTypeOK, PostRequest, Made
<1>2. CASE Outcome(r, elapsed) # "created"
  BY <1>1, <1>2 DEF TransfersInv, PaidOnce, Range, serverVars
<1>3. CASE Outcome(r, elapsed) = "created"
  <2>1. created' = Append(created, own) /\ active' = active
    BY <1>3 DEF Create
  <2>2. \A i \in DOMAIN created : created[i].uuid # own.uuid
    BY <1>3, OutcomeTrue
  <2> HIDE DEF own
  <2>3. /\ created' \in Seq(Made) /\ Len(created') = Len(created) + 1
        /\ DOMAIN created = 1 .. Len(created) /\ DOMAIN created' = 1 .. Len(created')
        /\ created'[Len(created) + 1] = own
        /\ \A i \in DOMAIN created : created'[i] = created[i]
    BY <1>1, <2>1
  <2>4. \A i \in DOMAIN created' : i \in DOMAIN created \/ i = Len(created) + 1
    BY <1>1, <2>3
  <2>5. Range(created') = Range(created) \cup {own}
    <3>1. Len(created) + 1 \in DOMAIN created' /\ \A i \in DOMAIN created : i \in DOMAIN created'
      BY <1>1, <2>3
    <3> QED  BY <2>3, <2>4, <3>1 DEF Range
  <2>6. PaidOnce'
    BY <2>2, <2>3, <2>4 DEF TransfersInv, PaidOnce
  <2> QED  BY <1>1, <1>3, <2>1, <2>3, <2>5, <2>6 DEF own
<1> QED  BY <1>2, <1>3

\* The counters after a step that was not refused.
LEMMA CountersAfter ==
  ASSUME TransfersInv, NEW elapsed \in BOOLEAN
  PROVE  /\ Counted(elapsed) < MaxActions => Counted(elapsed) + 1 \in 0 .. MaxActions
         /\ ~LimitReached(elapsed) =>
              /\ Counted(elapsed) + 1 \in 0 .. MaxActions
              /\ running_transfers_count + 1 \in Int /\ running_transfers_count + 1 <= MaxActions
<1>1. Counted(elapsed) \in 0 .. MaxActions /\ running_transfers_count \in Int
  BY ActionsAssumption DEF Counted, TransfersInv, Typed, TransfersTypeOK
<1> QED  BY <1>1, ActionsAssumption DEF LimitReached

LEMMA PostProcessed ==
  ASSUME TransfersInv, NEW r \in posts, NEW elapsed \in BOOLEAN, NEW answered \in BOOLEAN,
         ProcessPost(r, elapsed, answered)
  PROVE  TransfersInv'
<1> DEFINE own == [uuid |-> r.uuid, payment |-> r.payment]
           outcome == Outcome(r, elapsed)
           told == IF outcome = "created" THEN "accepted" ELSE outcome
<1>typed. /\ client \in [Clients -> Client] /\ r \in PostRequest
          /\ r = PostOf(r.from) /\ r.from \in Clients
  BY DEF TransfersInv, Typed, TransfersTypeOK, Owned, PostRequest
<1>own. Own(r.from) = own
  BY <1>typed DEF Own, PostOf
<1>0. /\ IF outcome = "created" THEN Create(r, elapsed) ELSE UNCHANGED serverVars
      /\ posts' \subseteq posts
  BY DEF ProcessPost
<1>told. told \in {"accepted", "conflict", "forbidden", "gone"}
  BY OutcomeTrue
<1>1. /\ client' \in [Clients -> Client]
      /\ \A c \in Clients :
           /\ client'[c].uuid = client[c].uuid /\ client'[c].payment = client[c].payment
           /\ \/ client'[c].step = client[c].step
              \/ c = r.from /\ client[c].step = "waiting" /\ client'[c].step = told
  <2>1. client' = client
        \/ client' = [client EXCEPT ![r.from].step = IF @ # "waiting" THEN @ ELSE told]
    BY DEF ProcessPost, ToldOutcome
  <2> HIDE DEF told
  <2> QED  BY <1>typed, <1>told, <2>1 DEF Client, TransferSteps
<1>2. \A u : Dead(u) => Dead(u)'
  <2> HIDE DEF told
  <2> QED  BY <1>0, <1>1, DeadStays DEF Trying
<1>3. Typed'
  <2>1. transfers' \subseteq Transfer /\ \A t1, t2 \in transfers' : t1.uuid = t2.uuid => t1 = t2
    <3>1. CASE outcome # "created"
      BY <1>0, <3>1 DEF TransfersInv, Typed, TransfersTypeOK, serverVars
    <3>2. CASE outcome = "created"
      <4> DEFINE new == [uuid |-> r.uuid, payment |-> r.payment, finalized |-> FALSE]
      <4>1. transfers' = transfers \cup {new} /\ new \in Transfer /\ new.uuid = r.uuid
        BY <1>0, <1>typed, <3>2 DEF Create, Transfer, PostRequest
      <4>2. \A t \in transfers : t.uuid # r.uuid
        BY <3>2, OutcomeTrue DEF RowsOf
      <4> HIDE DEF new
      <4> QED  BY <4>1, <4>2 DEF TransfersInv, Typed, TransfersTypeOK
    <3> QED  BY <3>1, <3>2
  <2>2. /\ actions_count' \in 0 .. MaxActions
        /\ running_transfers_count' \in Int /\ running_transfers_count' <= MaxActions
        /\ active' \in BOOLEAN
    <3>1. CASE outcome # "created"
      BY <1>0, <3>1 DEF TransfersInv, Typed, TransfersTypeOK, serverVars
    <3>2. CASE outcome = "created"
      <4>1. ~LimitReached(elapsed)
        BY <3>2, OutcomeTrue
      <4> QED  BY <1>0, <3>2, <4>1, CountersAfter DEF Create, TransfersInv, Typed, TransfersTypeOK
    <3> QED  BY <3>1, <3>2
  <2>3. created' \in Seq(Made) /\ Range(created') \subseteq Made
    <3>1. created' \in Seq(Made)
      BY <1>0, HistoryAfter
    <3> QED  BY <3>1 DEF Range
  <2>4. \A c \in Clients : client'[c].step # "new" => client'[c].uuid \in Uuids
    BY <1>1 DEF TransfersInv, Typed
  <2> QED  BY <1>0, <1>1, <2>1, <2>2, <2>3, <2>4 DEF TransfersInv, Typed, TransfersTypeOK, Made
<1>4. Owned'
  <2>1. \A m \in posts : m.from \in Clients
    BY DEF TransfersInv, Typed, TransfersTypeOK, PostRequest
  <2>2. \A c \in Clients : PostOf(c)' = PostOf(c)
    BY <1>1 DEF PostOf
  <2>3. \A c \in Clients : client[c].step # "new" => client'[c].step # "new"
    BY <1>1, <1>told
  <2> QED  BY <1>0, <2>1, <2>2, <2>3 DEF TransfersInv, Owned
<1>5. PaymentsKnown'
  <2>1. \A p : InTable(p) => InTable(p)'
    BY <1>0 DEF InTable, Create, serverVars
  <2>2. ASSUME active, NEW p \in Range(created') PROVE InTable(p)' \/ Dead(p.uuid)'
    <3>1. CASE p \in Range(created)
      BY <1>2, <2>1, <2>2, <3>1 DEF TransfersInv, PaymentsKnown, Range
    <3>2. CASE p = own /\ outcome = "created"
      <4> DEFINE new == [uuid |-> r.uuid, payment |-> r.payment, finalized |-> FALSE]
      <4>1. new \in transfers' /\ new.uuid = p.uuid /\ new.payment = p.payment
        BY <1>0, <3>2 DEF Create
      <4> HIDE DEF new
      <4>2. InTable(p)'
        BY <4>1 DEF InTable
      <4> QED  BY <4>2
    <3>3. p \in Range(created) \/ (p = own /\ outcome = "created")
      <4>1. outcome # "created" => Range(created') = Range(created)
        BY <1>0, HistoryAfter
      <4>2. outcome = "created" => Range(created') = Range(created) \cup {own}
        BY <1>0, HistoryAfter
      <4> HIDE DEF own, outcome
      <4> QED  BY <2>2, <4>1, <4>2
    <3> QED  BY <3>1, <3>2, <3>3
  <2>3. active' = active
    BY <1>0, HistoryAfter
  <2>4. ~active => transfers' = {}
    BY <1>0, OutcomeTrue DEF TransfersInv, PaymentsKnown, serverVars
  <2> QED  BY <2>2, <2>3, <2>4 DEF PaymentsKnown, Range, InTable, Dead, Quiet
<1>6. RowsPaid'
  <2>1. \A t \in transfers' :
          t \in transfers \/ (outcome = "created" /\ [uuid |-> t.uuid, payment |-> t.payment] = own)
    BY <1>0 DEF Create, serverVars
  <2>2. \A t \in transfers : [uuid |-> t.uuid, payment |-> t.payment] \in Range(created)
    BY DEF TransfersInv, RowsPaid, Range
  <2>3. \A t \in transfers' : [uuid |-> t.uuid, payment |-> t.payment] \in Range(created')
    BY <1>0, <2>1, <2>2, HistoryAfter
  <2> QED  BY <2>3 DEF RowsPaid, Range
<1>7. AnswersStay'
  <2> SUFFICES ASSUME NEW c \in Clients
               PROVE  /\ client'[c].step \in {"accepted", "finished", "deleted"} =>
                           Own(c) \in Range(created')
                      /\ client'[c].step = "conflict" =>
                           /\ Own(c) \notin Range(created')
                           /\ \E i \in DOMAIN created' : created'[i].uuid = client[c].uuid
                      /\ client'[c].step = "gone" => ~active'
    BY <1>1 DEF AnswersStay, IsPaid, Own, Range
  <2>0. active' = active
    BY <1>0, HistoryAfter
  <2>1. CASE client'[c].step = client[c].step
    <3>1. /\ client[c].step \in {"accepted", "finished", "deleted"} => Own(c) \in Range(created)
          /\ client[c].step = "conflict" =>
               /\ Own(c) \notin Range(created)
               /\ \E i \in DOMAIN created : created[i].uuid = client[c].uuid
          /\ client[c].step = "gone" => ~active
      BY DEF TransfersInv, AnswersStay, IsPaid
    <3>2. CASE outcome # "created"
      BY <1>0, <2>0, <2>1, <3>1, <3>2, HistoryAfter
    <3>3. CASE outcome = "created"
      <4>1. \A i \in DOMAIN created : created[i].uuid # r.uuid
        BY <3>3, OutcomeTrue
      <4>2. client[c].step = "conflict" => Own(c) # own
        BY <3>1, <4>1 DEF Own
      <4>3. Range(created') = Range(created) \cup {own}
        BY <1>0, <3>3, HistoryAfter
      <4>4. \A i \in DOMAIN created : i \in DOMAIN created' /\ created'[i] = created[i]
        BY <1>0, HistoryAfter
      <4> HIDE DEF own
      <4> QED  BY <2>0, <2>1, <3>1, <4>2, <4>3, <4>4
    <3> QED  BY <3>2, <3>3
  <2>2. CASE c = r.from /\ client'[c].step = told
    <3>1. Own(c) = own /\ client[c].uuid = r.uuid
      BY <1>own, <1>typed, <2>2 DEF PostOf
    <3>2. CASE outcome = "accepted" \/ outcome = "created"
      <4>1. own \in Range(created')
        BY <1>0, <3>2, OutcomeTrue, HistoryAfter
      <4> QED  BY <2>2, <3>1, <3>2, <4>1
    <3>3. CASE outcome = "conflict"
      BY <1>0, <2>2, <3>1, <3>3, OutcomeTrue, HistoryAfter
    <3>4. CASE outcome = "forbidden"
      BY <2>2, <3>4
    <3>5. CASE outcome = "gone"
      BY <2>0, <2>2, <3>5, OutcomeTrue
    <3> QED  BY <3>2, <3>3, <3>4, <3>5, OutcomeTrue
  <2> QED  BY <1>1, <2>1, <2>2
<1>8. PaidOnce'
  BY <1>0, HistoryAfter
<1> QED  BY <1>3, <1>4, <1>5, <1>6, <1>7, <1>8 DEF TransfersInv

LEMMA LoseStep == ASSUME TransfersInv, NEW r \in posts, LoseRequest(r) PROVE TransfersInv'
<1>1. /\ posts' \subseteq posts
      /\ UNCHANGED <<client, transfers, running_transfers_count, actions_count, active, created>>
  BY DEF LoseRequest, serverVars
<1>2. Typed' /\ Owned' /\ RowsPaid'
  BY <1>1 DEF TransfersInv, Typed, TransfersTypeOK, Owned, PostOf, RowsPaid
<1>3. \A u : Dead(u) => Dead(u)'
  BY <1>1, DeadStays
<1>4. PaymentsKnown'
  BY <1>1, <1>3 DEF TransfersInv, PaymentsKnown, InTable
<1>5. AnswersStay' /\ PaidOnce'
  BY <1>1, HistoryUnchanged
<1> QED  BY <1>2, <1>4, <1>5 DEF TransfersInv

LEMMA FinalizeStep == ASSUME TransfersInv, NEW t \in transfers, FinalizeTransfer(t) PROVE TransfersInv'
<1> DEFINE n == [t EXCEPT !.finalized = TRUE]
<1>0. t \in Transfer
  BY DEF TransfersInv, Typed, TransfersTypeOK
<1>1. /\ transfers' = (transfers \ {t}) \cup {n}
      /\ n \in Transfer /\ n.uuid = t.uuid /\ n.payment = t.payment
      /\ UNCHANGED <<client, posts, running_transfers_count, actions_count, active, created>>
  BY <1>0 DEF FinalizeTransfer, Transfer
<1> HIDE DEF n
<1>2. Typed'
  BY <1>1 DEF TransfersInv, Typed, TransfersTypeOK
<1>3. Owned' /\ RowsPaid'
  BY <1>1 DEF TransfersInv, Owned, PostOf, RowsPaid
<1>4. PaymentsKnown'
  <2>1. \A u : Dead(u) => Dead(u)'
    BY <1>1, DeadStays
  <2>2. \A p : InTable(p) => InTable(p)'
    BY <1>1 DEF InTable
  <2> QED  BY <1>1, <2>1, <2>2 DEF TransfersInv, PaymentsKnown
<1>5. AnswersStay' /\ PaidOnce'
  BY <1>1, HistoryUnchanged
<1> QED  BY <1>2, <1>3, <1>4, <1>5 DEF TransfersInv

LEMMA CountUpdateStep ==
  ASSUME TransfersInv, NEW elapsed \in BOOLEAN, CountUpdate(elapsed) PROVE TransfersInv'
<1>1. /\ actions_count' \in 0 .. MaxActions
      /\ UNCHANGED <<client, posts, transfers, running_transfers_count, active, created>>
  BY CountersAfter DEF CountUpdate
<1>2. Typed' /\ Owned' /\ RowsPaid'
  BY <1>1 DEF TransfersInv, Typed, TransfersTypeOK, Owned, PostOf, RowsPaid
<1>3. PaymentsKnown'
  BY <1>1 DEF TransfersInv, PaymentsKnown, InTable, Dead, Quiet
<1>4. AnswersStay' /\ PaidOnce'
  BY <1>1, HistoryUnchanged
<1> QED  BY <1>2, <1>3, <1>4 DEF TransfersInv

\* With the debtor the table is emptied, and nothing is created any more.
LEMMA DeactivateStep == ASSUME TransfersInv, Deactivate PROVE TransfersInv'
<1>1. /\ active' = FALSE /\ transfers' = {} /\ running_transfers_count' = 0
      /\ UNCHANGED <<client, posts, actions_count, created>>
  BY DEF Deactivate
<1>2. Typed'
  <2>1. running_transfers_count' \in Int /\ running_transfers_count' <= MaxActions
    BY <1>1, ActionsAssumption
  <2> QED  BY <1>1, <2>1 DEF TransfersInv, Typed, TransfersTypeOK
<1>3. Owned' /\ RowsPaid'
  BY <1>1 DEF TransfersInv, Owned, PostOf, RowsPaid
<1>4. PaymentsKnown'
  BY <1>1 DEF PaymentsKnown
<1>5. AnswersStay' /\ PaidOnce'
  BY <1>1, HistoryUnchanged
<1> QED  BY <1>2, <1>3, <1>4, <1>5 DEF TransfersInv

-----------------------------------------------------------------------------
(* The theorems                                                            *)

LEMMA Step == ASSUME WaitsToDelete, TransfersInv, [TransfersNext]_transferVars PROVE TransfersInv'
<1>1. CASE UNCHANGED transferVars
  <2>1. UNCHANGED <<client, posts, transfers, running_transfers_count, actions_count, active, created>>
    BY <1>1 DEF transferVars, serverVars
  <2>2. Typed' /\ Owned' /\ RowsPaid'
    BY <2>1 DEF TransfersInv, Typed, TransfersTypeOK, Owned, PostOf, RowsPaid
  <2>3. PaymentsKnown'
    BY <2>1 DEF TransfersInv, PaymentsKnown, InTable, Dead, Quiet
  <2>4. AnswersStay' /\ PaidOnce'
    BY <2>1, HistoryUnchanged
  <2> QED  BY <2>2, <2>3, <2>4 DEF TransfersInv
<1>2. CASE TransfersNext
  BY <1>2, PostStep, PostAgainStep, GetStep, DeleteStep, PostProcessed, LoseStep, FinalizeStep,
     CountUpdateStep, DeactivateStep
  DEF TransfersNext
<1> QED  BY <1>1, <1>2

LEMMA TransfersInvHolds ==
  ASSUME WaitsToDelete PROVE TransfersSpec => []TransfersInv
<1>1. TransfersInit => TransfersInv
  BY InitTransfersInv
<1>2. TransfersInv /\ [TransfersNext]_transferVars => TransfersInv'
  BY Step
<1> QED  BY <1>1, <1>2, PTL DEF TransfersSpec

\* However often requests are repeated, duplicated, delayed or lost, whatever
\* limits are freed, and although rows disappear, no UUID is paid for twice.
THEOREM NothingPaidTwice ==
  ASSUME WaitsToDelete PROVE TransfersSpec => []PaidOnce
<1>1. TransfersInv => PaidOnce
  BY DEF TransfersInv
<1> QED  BY <1>1, TransfersInvHolds, PTL

\* Who is being refused has paid nothing, not even by an earlier copy.
LEMMA RefusalTrue ==
  ASSUME TransfersInv, TransfersNext, NEW c \in Clients,
         client[c].step = "waiting", client'[c].step = "forbidden"
  PROVE  ~IsPaid(c)'
<1>0. client \in [Clients -> Client]
  BY DEF TransfersInv, Typed, TransfersTypeOK
<1>1. PICK r \in posts, elapsed \in BOOLEAN, answered \in BOOLEAN :
        ProcessPost(r, elapsed, answered)
  <2>1. ASSUME NEW x \in Clients, NEW uuid \in Uuids, Post(x, uuid) PROVE FALSE
    BY <1>0, <2>1 DEF Post
  <2>2. ASSUME NEW x \in Clients, PostAgain(x) \/ GetTransfer(x) \/ DeleteTransfer(x) PROVE FALSE
    <3>1. CASE PostAgain(x)
      BY <1>0, <3>1 DEF PostAgain
    <3>2. CASE GetTransfer(x)
      BY <1>0, <3>2 DEF GetTransfer
    <3>3. CASE DeleteTransfer(x)
      BY <1>0, <3>3 DEF DeleteTransfer
    <3> QED  BY <2>2, <3>1, <3>2, <3>3
  <2>3. client' # client
    OBVIOUS
  <2>4. /\ \A m \in posts : ~LoseRequest(m)
        /\ \A t \in transfers : ~FinalizeTransfer(t)
        /\ \A e \in BOOLEAN : ~CountUpdate(e)
        /\ ~Deactivate
    BY <2>3 DEF LoseRequest, FinalizeTransfer, CountUpdate, Deactivate
  <2> QED  BY <2>1, <2>2, <2>4 DEF TransfersNext
<1>2. r.from \in Clients /\ r = PostOf(r.from)
  BY DEF TransfersInv, Typed, TransfersTypeOK, Owned, PostRequest
<1>3. /\ c = r.from /\ Outcome(r, elapsed) = "forbidden"
      /\ client'[c].uuid = client[c].uuid /\ client'[c].payment = client[c].payment
  BY <1>0, <1>1, <1>2 DEF ProcessPost, ToldOutcome, Client
<1>4. /\ UNCHANGED created
      /\ \A i \in DOMAIN created : created[i].uuid # r.uuid
  BY <1>1, <1>3, OutcomeTrue DEF ProcessPost, serverVars
<1> QED  BY <1>2, <1>3, <1>4 DEF IsPaid, Own, PostOf, Range

\* Of a debtor that is gone nothing is created any more.
LEMMA GoneIsFinal ==
  ASSUME TransfersInv, [TransfersNext]_transferVars, NEW c \in Clients,
         client[c].step = "gone", IsPaid(c)'
  PROVE  IsPaid(c)
<1>0. client \in [Clients -> Client] /\ ~active
  BY DEF TransfersInv, Typed, TransfersTypeOK, AnswersStay
<1>1. UNCHANGED created
  <2>1. ASSUME NEW r \in posts, NEW elapsed \in BOOLEAN, NEW answered \in BOOLEAN,
               ProcessPost(r, elapsed, answered)
        PROVE  UNCHANGED created
    BY <1>0, <2>1, OutcomeTrue DEF ProcessPost, serverVars
  <2> QED  BY <2>1 DEF TransfersNext, Post, PostAgain, GetTransfer, DeleteTransfer, LoseRequest,
                 FinalizeTransfer, CountUpdate, Deactivate, transferVars, serverVars
<1>2. client'[c].uuid = client[c].uuid /\ client'[c].payment = client[c].payment
  <2>1. ASSUME NEW r \in posts, NEW elapsed \in BOOLEAN, NEW answered \in BOOLEAN,
               ProcessPost(r, elapsed, answered)
        PROVE  client'[c].uuid = client[c].uuid /\ client'[c].payment = client[c].payment
    BY <1>0, <2>1 DEF ProcessPost, ToldOutcome, Client
  <2>2. ASSUME NEW x \in Clients, NEW uuid \in Uuids, Post(x, uuid)
        PROVE  client'[c].uuid = client[c].uuid /\ client'[c].payment = client[c].payment
    BY <1>0, <2>2 DEF Post, Client
  <2>3. ASSUME NEW x \in Clients, PostAgain(x) \/ GetTransfer(x) \/ DeleteTransfer(x)
        PROVE  client'[c].uuid = client[c].uuid /\ client'[c].payment = client[c].payment
    BY <1>0, <2>3 DEF PostAgain, GetTransfer, DeleteTransfer, Client
  <2> QED  BY <2>1, <2>2, <2>3 DEF TransfersNext, LoseRequest, FinalizeTransfer, CountUpdate,
                 Deactivate, transferVars
<1> QED  BY <1>1, <1>2 DEF IsPaid, Own, Range

\* What a client is told of its payment is true when it is told; that there is
\* such a transfer, that another payment has its UUID, and that there is no such
\* debtor stays true, whatever copies of the request come late.
THEOREM AnswersAreTrue ==
  ASSUME WaitsToDelete PROVE TransfersSpec => AnswerIsTrue
<1> DEFINE TrueFor(c) ==
      /\ client'[c].step \in {"accepted", "finished", "deleted"} => IsPaid(c)'
      /\ client'[c].step = "conflict" => ~IsPaid(c)'
      /\ client[c].step = "waiting" /\ client'[c].step = "forbidden" => ~IsPaid(c)'
      /\ client[c].step = "gone" /\ IsPaid(c)' => IsPaid(c)
<1>1. TransfersInv /\ TransfersInv' /\ [TransfersNext]_transferVars =>
        [\A c \in Clients : TrueFor(c)]_transferVars
  <2> SUFFICES ASSUME TransfersInv, TransfersInv', TransfersNext, NEW c \in Clients PROVE TrueFor(c)
    OBVIOUS
  <2>1. /\ client'[c].step \in {"accepted", "finished", "deleted"} => IsPaid(c)'
        /\ client'[c].step = "conflict" => ~IsPaid(c)'
    BY DEF TransfersInv, AnswersStay
  <2> QED  BY <2>1, RefusalTrue, GoneIsFinal
<1> QED  BY <1>1, TransfersInvHolds, PTL DEF TransfersSpec, AnswerIsTrue
=============================================================================
