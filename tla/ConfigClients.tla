---------------------------- MODULE ConfigClients ----------------------------
(***************************************************************************)
(* The clients of the Web API for the debtor's configuration.  Several     *)
(* devices of one debtor read the configuration, make a new one out of     *)
(* what they have read, and send it with the next update ID.  Nothing is   *)
(* locked in between: of two devices that have read the same configuration *)
(* at most one succeeds.  Requests can be delayed, duplicated and lost,    *)
(* and answers can be lost.                                                *)
(***************************************************************************)
EXTENDS Integers, Sequences

CONSTANTS
  Devices,     \* the clients
  Configs,     \* values of config_data
  Initial,     \* the configuration in the beginning
  MaxUpdates   \* bound on config_latest_update_id

ASSUME ConfigsAssumption == Initial \in Configs
ASSUME BoundsAssumption == MaxUpdates \in Nat

VARIABLES
  row,       \* config_data, config_latest_update_id and the status of the debtor
  device,    \* what each device has read, sent, and been told
  network,   \* PATCH requests that may still reach the server
  history    \* history: the applied updates; the one with ID i+1 is history[i]

vars == <<row, device, network, history>>

Steps == {"idle", "read", "sent", "confirmed", "conflict", "forbidden", "gone"}
Row == [config_data : Configs, latest_update_id : Nat, active : BOOLEAN]
Device == [step : Steps, id : Nat, seen : Configs, wanted : Configs]
Request == [from : Devices, id : Nat, seen : Configs, wanted : Configs]

TypeOK ==
  /\ row \in Row
  /\ device \in [Devices -> Device]
  /\ network \subseteq Request
  /\ history \in Seq(Request)
  /\ row.latest_update_id = Len(history) + 1

Idle == [step |-> "idle", id |-> 0, seen |-> Initial, wanted |-> Initial]

Init ==
  /\ row = [config_data |-> Initial, latest_update_id |-> 1, active |-> TRUE]
  /\ device = [d \in Devices |-> Idle]
  /\ network = {}
  /\ history = <<>>

RequestOf(d) ==
  [from |-> d, id |-> device[d].id + 1, seen |-> device[d].seen, wanted |-> device[d].wanted]

-----------------------------------------------------------------------------
(* The devices (external).                                                 *)

\* GET; a device can start over at any time, when it does not wait.
ReadConfig(d) ==
  /\ device[d].step \notin {"sent", "gone"}
  /\ row.active
  /\ row.latest_update_id < MaxUpdates
  /\ device' = [device EXCEPT ![d] = [step |-> "read", id |-> row.latest_update_id,
                                      seen |-> row.config_data, wanted |-> row.config_data]]
  /\ UNCHANGED <<row, network, history>>

SendUpdate(d, wanted) ==
  /\ device[d].step = "read"
  /\ device' = [device EXCEPT ![d].step = "sent", ![d].wanted = wanted]
  /\ network' = network \cup {[RequestOf(d) EXCEPT !.wanted = wanted]}
  /\ UNCHANGED <<row, history>>

\* No answer comes, and the device starts over; its request is still around.
GiveUp(d) ==
  /\ device[d].step = "sent"
  /\ device' = [device EXCEPT ![d] = Idle]
  /\ UNCHANGED <<row, network, history>>

-----------------------------------------------------------------------------
(* The server: update_debtor_config and _allow_update.                     *)

\* Mutant of AlreadyUpToDate: the contents are not compared.
AlreadyUpToDateById(r) == r.id = row.latest_update_id

AlreadyUpToDate(r) == r.id = row.latest_update_id /\ r.wanted = row.config_data

\* Mutant of UpdateConflict: an update can be overwritten by another one.
UpdateConflictOlder(r) == ~AlreadyUpToDate(r) /\ r.id < row.latest_update_id

UpdateConflict(r) == ~AlreadyUpToDate(r) /\ r.id # row.latest_update_id + 1

Told(r, step) ==
  IF device[r.from].step = "sent" /\ RequestOf(r.from) = r
  THEN [device EXCEPT ![r.from].step = step] ELSE device

\* The answer reaches the device if it still waits for it, or is lost.
Answer(r, step) == device' \in {device, Told(r, step)}

\* The request may come again: it was sent again, or duplicated.
Receive(r) == r \in network /\ network' \in {network, network \ {r}}

PerformUpdate(r) ==
  /\ Receive(r)
  /\ row.active
  /\ ~AlreadyUpToDate(r) /\ ~UpdateConflict(r)
  /\ row' = [row EXCEPT !.config_data = r.wanted, !.latest_update_id = r.id]
  /\ history' = Append(history, r)
  /\ Answer(r, "confirmed")

Confirm(r) ==
  /\ Receive(r)
  /\ row.active
  /\ AlreadyUpToDate(r)
  /\ Answer(r, "confirmed")
  /\ UNCHANGED <<row, history>>

\* 403: the limit of DebtorQuotas is looked at first, also when the update is a
\* repetition of one that was performed.
RefuseThrottled(r) ==
  /\ Receive(r)
  /\ row.active
  /\ Answer(r, "forbidden")
  /\ UNCHANGED <<row, history>>

\* 409.
RefuseUpdate(r) ==
  /\ Receive(r)
  /\ row.active
  /\ UpdateConflict(r)
  /\ Answer(r, "conflict")
  /\ UNCHANGED <<row, history>>

\* 404.
RefuseInactive(r) ==
  /\ Receive(r)
  /\ ~row.active
  /\ Answer(r, "gone")
  /\ UNCHANGED <<row, history>>

\* deactivate_debtor clears the configuration, but not the update ID.
DeactivateDebtor ==
  /\ row.active
  /\ row' = [row EXCEPT !.active = FALSE, !.config_data = Initial]
  /\ UNCHANGED <<device, network, history>>

Next ==
  \/ \E d \in Devices :
       \/ ReadConfig(d) \/ GiveUp(d)
       \/ \E wanted \in Configs : SendUpdate(d, wanted)
  \/ \E r \in network :
       \/ PerformUpdate(r) \/ Confirm(r)
       \/ RefuseThrottled(r) \/ RefuseUpdate(r) \/ RefuseInactive(r)
  \/ DeactivateDebtor

Spec == Init /\ [][Next]_vars

-----------------------------------------------------------------------------
(* Properties.                                                             *)

Before(i) == IF i = 1 THEN Initial ELSE history[i - 1].wanted

\* No update is lost by overwriting: each was made out of the configuration that
\* it replaces, whatever was delayed or repeated (procedures.py:758-789).
NoLostUpdate == \A i \in DOMAIN history : history[i].seen = Before(i)

\* A confirmed configuration has been in force, also when the confirmation is
\* the answer to a repeated request (procedures.py:783-784).
ConfirmedWasInForce ==
  \A d \in Devices : device[d].step = "confirmed" =>
    device[d].id \in DOMAIN history /\ history[device[d].id].wanted = device[d].wanted
=============================================================================
