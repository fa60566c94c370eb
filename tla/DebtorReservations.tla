-------------------------- MODULE DebtorReservations --------------------------
(***************************************************************************)
(* Reserving and activating debtor IDs.  A client reserves an ID and later *)
(* activates it with the reservation ID, by a request or by an             *)
(* ActivateDebtor message; or it activates an ID directly, which reserves  *)
(* and activates in two transactions.  The scanner deletes what has not    *)
(* been activated for long; it chooses rows from a read without locks.     *)
(***************************************************************************)
EXTENDS Integers

CONSTANTS
  Debtors,         \* debtor IDs
  Clients,         \* each makes one reservation
  Scanners,        \* processes of scan_debtors
  RetentionDays,   \* APP_INACTIVE_DEBTOR_RETENTION_DAYS
  MaxDay,          \* bound on the days
  NoRow            \* there is no row

ASSUME DaysAssumption == RetentionDays \in Nat /\ MaxDay \in Nat
VARIABLES
  debtor,   \* debtor[d]: the row of d, or NoRow
  seq,      \* the sequence "debtor_reservation_id_seq"
  today,    \* the clock, in days
  client,   \* what each client has been told, and what it does next
  chosen    \* chosen[s]: [rows, cutoff] that scanner s has chosen from its read

vars == <<debtor, seq, today, client, chosen>>

DebtorRow == [reservation_id : Nat, created_at : Nat, activated : BOOLEAN]
ASSUME NoRowAssumption == NoRow \notin DebtorRow

Steps == {"new", "reserved", "activating", "activated", "refused", "failed"}
Client == [step : Steps, debtor_id : Debtors, reservation_id : Nat,
           valid_until : Nat, ended_on : Nat]

TypeOK ==
  /\ debtor \in [Debtors -> DebtorRow \cup {NoRow}]
  /\ seq \in Nat
  /\ today \in Nat
  /\ client \in [Clients -> Client]
  /\ chosen \in [Scanners -> [rows : SUBSET Debtors, cutoff : Int]]

Idle == [rows |-> {}, cutoff |-> 0]

Init ==
  /\ debtor = [d \in Debtors |-> NoRow]
  /\ seq = 0
  /\ today = 0
  /\ client \in [Clients -> {[step |-> "new", debtor_id |-> d, reservation_id |-> 0,
                              valid_until |-> 0, ended_on |-> 0] : d \in Debtors}]
  /\ chosen = [s \in Scanners |-> Idle]

Exists(d) == debtor[d] # NoRow

-----------------------------------------------------------------------------
(* The clients.                                                            *)

\* The deadline shown in the reservation ("validUntil").
CalcReservationDeadline(created_at) == created_at + RetentionDays

\* reserve_debtor: inserts a row, or fails because there is one.
\* "reserved": by /reserve; "activating": by /activate without a reservation.
ReserveDebtor(c, next_step) ==
  LET d == client[c].debtor_id IN
  /\ client[c].step = "new"
  /\ today + RetentionDays < MaxDay
  /\ ~Exists(d)
  /\ seq' = seq + 1
  /\ debtor' = [debtor EXCEPT ![d] = [reservation_id |-> seq', created_at |-> today,
                                      activated |-> FALSE]]
  /\ client' = [client EXCEPT ![c].step = next_step, ![c].reservation_id = seq',
                              ![c].valid_until = CalcReservationDeadline(today)]
  /\ UNCHANGED <<today, chosen>>

\* Mutant of MayActivate: any reservation of the debtor ID is good enough.
MayActivateAny(row, reservation_id) == TRUE

\* activate_debtor looks at the reservation ID before anything else.
MayActivate(row, reservation_id) == row.reservation_id = reservation_id

\* The row is read with a lock.  With the right reservation ID, activating
\* again succeeds and changes nothing.
Activated(c) ==
  LET d == client[c].debtor_id IN
  /\ Exists(d)
  /\ MayActivate(debtor[d], client[c].reservation_id)
  /\ debtor' = [debtor EXCEPT ![d].activated = TRUE]

Refused(c) ==
  LET d == client[c].debtor_id IN
  /\ ~(Exists(d) /\ MayActivate(debtor[d], client[c].reservation_id))
  /\ UNCHANGED debtor

\* Without an answer, a client that knows its reservation ID can try again.
Unanswered(c) == IF client[c].step = "activating" THEN "failed" ELSE client[c].step

\* The request to activate: the answer may be lost and the request repeated, and
\* the message may be delivered again, so "activated" is not the end.
ActivateDebtor(c) ==
  /\ client[c].step \in {"reserved", "activating", "activated"}
  /\ \/ /\ Activated(c)
        /\ \E next_step \in {"activated", Unanswered(c)} :
             client' = [client EXCEPT ![c].step = next_step]
     \/ /\ Refused(c)
        /\ client' = [client EXCEPT ![c].step = "refused", ![c].ended_on = today]
  /\ UNCHANGED <<seq, today, chosen>>

\* The web server crashes between the two transactions of a direct activation;
\* the client does not know the reservation ID.
CrashBetween(c) ==
  /\ client[c].step = "activating"
  /\ client' = [client EXCEPT ![c].step = "failed"]
  /\ UNCHANGED <<debtor, seq, today, chosen>>

-----------------------------------------------------------------------------
(* The scanner.                                                            *)

\* Mutant of NotActivatedForLongTime: the comparison is the other way round.
NotActivatedRecently(row, cutoff) == ~row.activated /\ row.created_at > cutoff

NotActivatedForLongTime(row, cutoff) == ~row.activated /\ row.created_at < cutoff

\* A batch of rows is read, without locks.
ChooseRows(s) ==
  LET cutoff == today - RetentionDays
      rows == {d \in Debtors : Exists(d) /\ NotActivatedForLongTime(debtor[d], cutoff)}
  IN
  /\ chosen[s] = Idle
  /\ rows # {}
  /\ chosen' = [chosen EXCEPT ![s] = [rows |-> rows, cutoff |-> cutoff]]
  /\ UNCHANGED <<debtor, seq, today, client>>

\* Mutant of StillChosen: the locked rows are not looked at again.
ChosenBefore(s) == {d \in chosen[s].rows : Exists(d)}

\* Mutant of StillChosen: the age of the locked rows is not looked at again.
StillNotActivated(s) == {d \in chosen[s].rows : Exists(d) /\ ~debtor[d].activated}

\* The chosen rows that, once locked, still deserve to be deleted.
StillChosen(s) ==
  {d \in chosen[s].rows : Exists(d) /\ NotActivatedForLongTime(debtor[d], chosen[s].cutoff)}

\* They are locked (skipping those that others have locked) and deleted.
DeleteRows(s, skipped) ==
  /\ chosen[s] # Idle
  /\ debtor' = [d \in Debtors |-> IF d \in StillChosen(s) \ skipped THEN NoRow ELSE debtor[d]]
  /\ chosen' = [chosen EXCEPT ![s] = Idle]
  /\ UNCHANGED <<seq, today, client>>

NextDay ==
  /\ today < MaxDay
  /\ today' = today + 1
  /\ UNCHANGED <<debtor, seq, client, chosen>>

Next ==
  \/ \E c \in Clients :
       \/ ReserveDebtor(c, "reserved")
       \/ ReserveDebtor(c, "activating")
       \/ ActivateDebtor(c)
       \/ CrashBetween(c)
  \/ \E s \in Scanners :
       \/ ChooseRows(s)
       \/ \E skipped \in SUBSET Debtors : DeleteRows(s, skipped)
  \/ NextDay

Spec == Init /\ [][Next]_vars

\* Days pass, the scanner goes over the table again and again, and a row is not
\* locked by somebody else each time the scanner wants it.
Fairness ==
  /\ WF_vars(NextDay)
  /\ \A s \in Scanners : WF_vars(ChooseRows(s)) /\ SF_vars(DeleteRows(s, {}))

FairSpec == Spec /\ Fairness

-----------------------------------------------------------------------------
(* Properties.                                                             *)

\* A debtor that has been activated keeps its row and its reservation, even when
\* it was activated after the scanner had chosen the row (table_scanners.py:87-107).
ActivatedStays ==
  [][\A d \in Debtors : Exists(d) /\ debtor[d].activated => debtor'[d] = debtor[d]]_vars

\* A reservation is not refused as long as the client has been told it is valid
\* (routes.py:122-125), also when the scanner's choice was of an older
\* reservation of the same ID.
ValidIsHonoured ==
  \A c \in Clients : client[c].step = "refused" => client[c].ended_on > client[c].valid_until

\* A debtor belongs to one client: an outdated reservation ID does not activate
\* the reservation that somebody else has made since (procedures.py:136-143).
OneOwner ==
  \A c1, c2 \in Clients :
    /\ client[c1].step = "activated" /\ client[c2].step = "activated"
    /\ client[c1].debtor_id = client[c2].debtor_id
    => c1 = c2

\* Nothing that was told to have been activated is missing (the answer to the
\* second of two racing requests included).
ToldIsTrue ==
  \A c \in Clients : client[c].step = "activated" =>
    /\ Exists(client[c].debtor_id)
    /\ debtor[client[c].debtor_id].activated
    /\ debtor[client[c].debtor_id].reservation_id = client[c].reservation_id

\* A debtor ID that was reserved but not activated becomes free again, also when
\* its reservation was left over by a crash (routes.py:326-331).
UnusedIsFreed ==
  \A d \in Debtors :
    Exists(d) /\ ~debtor[d].activated ~> ~Exists(d) \/ debtor[d].activated
=============================================================================
