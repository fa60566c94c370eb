-------------------------- MODULE DebtorTable_proofs --------------------------
(***************************************************************************)
(* Theorems about who has which rows of the debtor table.                  *)
(* DebtorReservations: what a client was told is true, a reservation is    *)
(* honoured until its deadline, and a debtor ID has one owner.  ShardSplit: *)
(* whatever is on its way when a shard is split, no task is lost, only the *)
(* owner of a debtor speaks for it, and what was found clean stays clean.  *)
(***************************************************************************)
EXTENDS DebtorReservations, ShardSplit, TLAPS

-----------------------------------------------------------------------------
(* DebtorReservations.                                                     *)

\* The row of a client's debtor ID is the client's own reservation.
Holds(c) ==
  LET d == client[c].debtor_id IN
  Exists(d) /\ debtor[d].reservation_id = client[c].reservation_id

\* Reservation IDs come from the sequence, and each is given once.
SequenceInv ==
  /\ \A d \in Debtors : Exists(d) => debtor[d].reservation_id <= seq
  /\ \A c \in Clients : client[c].reservation_id <= seq
  /\ \A c1, c2 \in Clients :
       /\ client[c1].step # "new" /\ client[c2].step # "new"
       /\ client[c1].reservation_id = client[c2].reservation_id
       => c1 = c2

\* A reservation that is not there any more is past its deadline.
DeadlineInv ==
  \A c \in Clients : client[c].step # "new" =>
    IF Holds(c)
    THEN client[c].valid_until = debtor[client[c].debtor_id].created_at + RetentionDays
    ELSE client[c].valid_until < today

\* A scanner's cutoff date only becomes older.
CutoffInv == \A s \in Scanners : chosen[s].rows # {} => chosen[s].cutoff <= today - RetentionDays

ReservationsInv == TypeOK /\ SequenceInv /\ DeadlineInv /\ CutoffInv /\ ToldIsTrue /\ ValidIsHonoured

LEMMA InitReservationsInv == Init => ReservationsInv
<1> SUFFICES ASSUME Init PROVE ReservationsInv
  OBVIOUS
<1>1. \A c \in Clients : client[c].step = "new" /\ client[c].reservation_id = 0 /\ client[c] \in Client
  BY DEF Init, Client, Steps
<1>2. \A d \in Debtors : ~Exists(d)
  BY DEF Init, Exists
<1>3. TypeOK
  BY <1>1 DEF Init, TypeOK, Idle
<1>4. SequenceInv /\ DeadlineInv /\ ToldIsTrue /\ ValidIsHonoured
  BY <1>1, <1>2 DEF Init, SequenceInv, DeadlineInv, ToldIsTrue, ValidIsHonoured
<1>5. CutoffInv
  BY DEF Init, CutoffInv, Idle
<1> QED
  BY <1>3, <1>4, <1>5 DEF ReservationsInv

\* What the actions do to the clients' and the debtors' records.
NewClient(c, step) ==
  [step |-> step, debtor_id |-> client[c].debtor_id, reservation_id |-> seq + 1,
   valid_until |-> today + RetentionDays, ended_on |-> client[c].ended_on]

LEMMA ReserveStep ==
  ASSUME TypeOK, NEW c \in Clients, NEW step \in {"reserved", "activating"},
         ReserveDebtor(c, step)
  PROVE  /\ TypeOK'
         /\ ~Exists(client[c].debtor_id)
         /\ seq' = seq + 1 /\ today' = today /\ chosen' = chosen
         /\ debtor'[client[c].debtor_id] =
              [reservation_id |-> seq + 1, created_at |-> today, activated |-> FALSE]
         /\ \A d \in Debtors : d # client[c].debtor_id => debtor'[d] = debtor[d]
         /\ client'[c] = NewClient(c, step)
         /\ \A x \in Clients : x # c => client'[x] = client[x]
<1> USE DEF TypeOK
<1>1. client[c].debtor_id \in Debtors
  BY DEF Client
<1>2. [reservation_id |-> seq + 1, created_at |-> today, activated |-> FALSE] \in DebtorRow
  BY DEF DebtorRow
<1>3. /\ client'[c] = NewClient(c, step)
      /\ \A x \in Clients : x # c => client'[x] = client[x]
      /\ client' \in [Clients -> Client]
  <2>1. /\ client' = [client EXCEPT ![c].step = step, ![c].reservation_id = seq',
                                   ![c].valid_until = today + RetentionDays]
        /\ seq' = seq + 1
    BY DEF ReserveDebtor, CalcReservationDeadline
  <2>2. NewClient(c, step) \in Client
    BY DaysAssumption DEF NewClient, Client, Steps
  <2>3. client'[c] = NewClient(c, step)
    BY <2>1 DEF NewClient, Client
  <2>4. client' = [x \in Clients |-> IF x = c THEN NewClient(c, step) ELSE client[x]]
    BY <2>1, <2>3
  <2> QED
    BY <2>2, <2>4
<1> QED
  BY <1>1, <1>2, <1>3 DEF ReserveDebtor

LEMMA ActivateStep ==
  ASSUME TypeOK, NEW c \in Clients, ActivateDebtor(c)
  PROVE  /\ TypeOK'
         /\ seq' = seq /\ today' = today /\ chosen' = chosen
         /\ client[c].step # "new"
         /\ \A x \in Clients : x # c => client'[x] = client[x]
         /\ \/ /\ Activated(c) /\ Holds(c)
               /\ debtor'[client[c].debtor_id] = [debtor[client[c].debtor_id] EXCEPT !.activated = TRUE]
               /\ \A d \in Debtors : d # client[c].debtor_id => debtor'[d] = debtor[d]
               /\ \E step \in {"activated", "reserved", "failed"} : client'[c] = [client[c] EXCEPT !.step = step]
            \/ /\ ~Holds(c) /\ debtor' = debtor
               /\ client'[c] = [client[c] EXCEPT !.step = "refused", !.ended_on = today]
<1> USE DEF TypeOK
<1>1. client[c].debtor_id \in Debtors
  BY DEF Client
<1>2. CASE Activated(c)
  <2>1. Holds(c) /\ debtor[client[c].debtor_id] \in DebtorRow
    BY <1>1, <1>2 DEF Activated, MayActivate, Holds, Exists
  <2>2. PICK step \in {"activated", "reserved", "failed"} : client' = [client EXCEPT ![c].step = step]
    BY <1>2, <2>1 DEF ActivateDebtor, Refused, Unanswered, Holds, MayActivate
  <2>3. [debtor[client[c].debtor_id] EXCEPT !.activated = TRUE] \in DebtorRow
    BY <2>1 DEF DebtorRow
  <2>4. debtor' = [debtor EXCEPT ![client[c].debtor_id] = [debtor[client[c].debtor_id] EXCEPT !.activated = TRUE]]
    BY <1>2 DEF Activated
  <2>5. [client[c] EXCEPT !.step = step] \in Client
    BY DEF Client, Steps
  <2> QED
    BY <1>1, <1>2, <2>1, <2>2, <2>3, <2>4, <2>5 DEF ActivateDebtor
<1>3. CASE Refused(c) /\ ~Activated(c)
  <2>1. client' = [client EXCEPT ![c] = [client[c] EXCEPT !.step = "refused", !.ended_on = today]]
    BY <1>3 DEF ActivateDebtor
  <2>2. [client[c] EXCEPT !.step = "refused", !.ended_on = today] \in Client
    BY DEF Client, Steps
  <2> QED
    BY <1>3, <2>1, <2>2 DEF ActivateDebtor, Refused, Holds, MayActivate
<1> QED
  BY <1>2, <1>3 DEF ActivateDebtor

LEMMA DeleteStep ==
  ASSUME TypeOK, CutoffInv, NEW s \in Scanners, NEW skipped \in SUBSET Debtors,
         DeleteRows(s, skipped)
  PROVE  /\ TypeOK'
         /\ seq' = seq /\ today' = today /\ client' = client
         /\ chosen' = [chosen EXCEPT ![s] = Idle]
         /\ \A d \in Debtors :
              \/ debtor'[d] = debtor[d]
              \/ /\ Exists(d) /\ ~debtor[d].activated /\ ~Exists(d)'
                 /\ debtor[d].created_at + RetentionDays < today
<1> USE DEF TypeOK
<1>1. \A d \in Debtors : debtor'[d] = IF d \in StillChosen(s) \ skipped THEN NoRow ELSE debtor[d]
  BY DEF DeleteRows
<1>2. ASSUME NEW d \in Debtors, d \in StillChosen(s)
      PROVE /\ Exists(d) /\ ~debtor[d].activated
            /\ debtor[d].created_at + RetentionDays < today
  <2>1. Exists(d) /\ ~debtor[d].activated /\ debtor[d].created_at < chosen[s].cutoff
    BY <1>2 DEF StillChosen, NotActivatedForLongTime
  <2>2. chosen[s].cutoff <= today - RetentionDays /\ chosen[s].cutoff \in Int
    BY <1>2 DEF StillChosen, CutoffInv
  <2>3. debtor[d].created_at \in Nat
    BY <2>1 DEF Exists, DebtorRow
  <2> QED
    BY <2>1, <2>2, <2>3, DaysAssumption
<1>3. TypeOK'
  BY <1>1 DEF DeleteRows, Idle
<1> QED
  BY <1>1, <1>2, <1>3 DEF DeleteRows, Exists

LEMMA ReservationsStep == ReservationsInv /\ [Next]_vars => ReservationsInv'
<1> SUFFICES ASSUME ReservationsInv, [Next]_vars PROVE ReservationsInv'
  OBVIOUS
<1>a. TypeOK /\ SequenceInv /\ DeadlineInv /\ CutoffInv /\ ToldIsTrue /\ ValidIsHonoured
  BY DEF ReservationsInv
<1>b. /\ seq \in Nat /\ today \in Nat /\ RetentionDays \in Nat
      /\ \A c \in Clients : /\ client[c].debtor_id \in Debtors
                            /\ client[c].reservation_id \in Nat
                            /\ client[c].valid_until \in Nat /\ client[c].ended_on \in Nat
                            /\ client[c] \in Client
      /\ \A d \in Debtors : Exists(d) => debtor[d] \in DebtorRow
  BY <1>a, DaysAssumption DEF TypeOK, Client, Exists
<1>c. \A d \in Debtors : Exists(d) => debtor[d].reservation_id \in Nat /\ debtor[d].created_at \in Nat
  BY <1>b DEF DebtorRow
<1>1. ASSUME NEW c \in Clients, NEW step \in {"reserved", "activating"}, ReserveDebtor(c, step)
      PROVE ReservationsInv'
  <2>1. /\ TypeOK'
        /\ ~Exists(client[c].debtor_id)
        /\ seq' = seq + 1 /\ today' = today /\ chosen' = chosen
        /\ debtor'[client[c].debtor_id] =
             [reservation_id |-> seq + 1, created_at |-> today, activated |-> FALSE]
        /\ \A d \in Debtors : d # client[c].debtor_id => debtor'[d] = debtor[d]
        /\ client'[c] = NewClient(c, step)
        /\ \A x \in Clients : x # c => client'[x] = client[x]
    BY <1>a, <1>1, ReserveStep
  <2>2. /\ client'[c].step = step /\ client'[c].reservation_id = seq + 1
        /\ client'[c].valid_until = today + RetentionDays
        /\ client'[c].debtor_id = client[c].debtor_id
    BY <2>1 DEF NewClient
  <2>3. Exists(client[c].debtor_id)'
    <3>1. debtor'[client[c].debtor_id] \in DebtorRow
      BY <1>b, <2>1 DEF DebtorRow
    <3> QED
      BY <2>2, <3>1, NoRowAssumption DEF Exists
  <2>4. SequenceInv'
    <3>1. \A d \in Debtors : Exists(d)' => debtor'[d].reservation_id <= seq'
      BY <1>a, <1>b, <1>c, <2>1 DEF SequenceInv, Exists
    <3>2. \A x \in Clients : client'[x].reservation_id <= seq'
      BY <1>a, <1>b, <2>1, <2>2 DEF SequenceInv
    <3>3. \A x \in Clients : x # c => client'[x].reservation_id # seq + 1
      BY <1>a, <1>b, <2>1 DEF SequenceInv
    <3> QED
      BY <1>a, <2>1, <2>2, <3>1, <3>2, <3>3 DEF SequenceInv
  <2>5. DeadlineInv'
    <3>1. Holds(c)' /\ client'[c].valid_until = debtor'[client'[c].debtor_id].created_at + RetentionDays
      BY <2>1, <2>2, <2>3 DEF Holds
    <3>2. ASSUME NEW x \in Clients, x # c, client[x].step # "new", client[x].debtor_id = client[c].debtor_id
          PROVE ~Holds(x)' /\ client[x].valid_until < today
      BY <1>a, <1>b, <2>1, <3>2 DEF Holds, SequenceInv, DeadlineInv
    <3>3. ASSUME NEW x \in Clients, x # c, client[x].debtor_id # client[c].debtor_id
          PROVE Holds(x)' = Holds(x) /\ debtor'[client'[x].debtor_id] = debtor[client[x].debtor_id]
      BY <1>b, <2>1, <3>3 DEF Holds, Exists
    <3> QED
      BY <1>a, <2>1, <3>1, <3>2, <3>3 DEF DeadlineInv
  <2>6. CutoffInv'
    BY <1>a, <2>1 DEF CutoffInv
  <2>7. ToldIsTrue'
    <3>1. ASSUME NEW x \in Clients, client'[x].step = "activated"
          PROVE x # c /\ client[x].debtor_id # client[c].debtor_id
      BY <1>a, <2>1, <2>2, <3>1 DEF ToldIsTrue
    <3> QED
      BY <1>a, <1>b, <2>1, <3>1 DEF ToldIsTrue, Exists
  <2>8. ValidIsHonoured'
    BY <1>a, <2>1, <2>2 DEF ValidIsHonoured
  <2> QED
    BY <2>1, <2>4, <2>5, <2>6, <2>7, <2>8 DEF ReservationsInv
<1>2. ASSUME NEW c \in Clients, ActivateDebtor(c) PROVE ReservationsInv'
  <2>1. /\ TypeOK'
        /\ seq' = seq /\ today' = today /\ chosen' = chosen
        /\ client[c].step # "new"
        /\ \A x \in Clients : x # c => client'[x] = client[x]
    BY <1>a, <1>2, ActivateStep
  <2>2. CutoffInv'
    BY <1>a, <2>1 DEF CutoffInv
  <2>3. CASE /\ Holds(c)
             /\ debtor'[client[c].debtor_id] = [debtor[client[c].debtor_id] EXCEPT !.activated = TRUE]
             /\ \A d \in Debtors : d # client[c].debtor_id => debtor'[d] = debtor[d]
             /\ \E step \in {"activated", "reserved", "failed"} : client'[c] = [client[c] EXCEPT !.step = step]
    <3>1. \A x \in Clients :
            /\ client'[x].debtor_id = client[x].debtor_id
            /\ client'[x].reservation_id = client[x].reservation_id
            /\ client'[x].valid_until = client[x].valid_until
            /\ client'[x].ended_on = client[x].ended_on
            /\ client'[x].step = "new" <=> client[x].step = "new"
            /\ client'[x].step = "activated" => client[x].step = "activated" \/ x = c
            /\ client'[x].step = "refused" => client[x].step = "refused"
      BY <1>b, <2>1, <2>3 DEF Client
    <3>2. \A d \in Debtors :
            /\ Exists(d)' <=> Exists(d)
            /\ Exists(d) => /\ debtor'[d].reservation_id = debtor[d].reservation_id
                            /\ debtor'[d].created_at = debtor[d].created_at
                            /\ debtor[d].activated => debtor'[d].activated
      <4>1. /\ debtor[client[c].debtor_id] \in DebtorRow
            /\ debtor'[client[c].debtor_id] \in DebtorRow
        BY <1>b, <2>3 DEF Holds, DebtorRow
      <4> QED
        BY <1>b, <2>3, <4>1, NoRowAssumption DEF Exists, DebtorRow
    <3>3. debtor'[client[c].debtor_id].activated
      BY <1>b, <2>3 DEF Holds, DebtorRow
    <3>4. SequenceInv'
      BY <1>a, <2>1, <3>1, <3>2 DEF SequenceInv
    <3>5. \A x \in Clients : Holds(x)' <=> Holds(x)
      BY <1>b, <3>1, <3>2 DEF Holds
    <3>6. DeadlineInv'
      BY <1>a, <1>b, <2>1, <3>1, <3>2, <3>5 DEF DeadlineInv, Holds
    <3>7. ToldIsTrue'
      <4>1. ASSUME NEW x \in Clients, client'[x].step = "activated" PROVE Holds(x)
        BY <1>a, <2>3, <3>1, <4>1 DEF ToldIsTrue, Holds
      <4>2. ASSUME NEW x \in Clients, client'[x].step = "activated", x # c
            PROVE debtor[client[x].debtor_id].activated
        BY <1>a, <3>1, <4>2 DEF ToldIsTrue
      <4>3. ASSUME NEW x \in Clients, client'[x].step = "activated"
            PROVE debtor'[client[x].debtor_id].activated
        BY <1>b, <3>2, <3>3, <4>1, <4>2, <4>3 DEF Holds
      <4> QED
        BY <1>b, <3>1, <3>2, <4>1, <4>3 DEF ToldIsTrue, Holds
    <3>8. ValidIsHonoured'
      BY <1>a, <3>1 DEF ValidIsHonoured
    <3> QED
      BY <2>1, <2>2, <3>4, <3>6, <3>7, <3>8 DEF ReservationsInv
  <2>4. CASE /\ ~Holds(c) /\ debtor' = debtor
             /\ client'[c] = [client[c] EXCEPT !.step = "refused", !.ended_on = today]
    <3>1. \A x \in Clients :
            /\ client'[x].debtor_id = client[x].debtor_id
            /\ client'[x].reservation_id = client[x].reservation_id
            /\ client'[x].valid_until = client[x].valid_until
            /\ client'[x].step = "new" <=> client[x].step = "new"
            /\ client'[x].step = "activated" => client[x].step = "activated"
      BY <1>b, <2>1, <2>4 DEF Client
    <3>2. client'[c].ended_on = today /\ client[c].valid_until < today
      BY <1>a, <1>b, <2>1, <2>4 DEF Client, DeadlineInv
    <3>3. SequenceInv'
      BY <1>a, <2>1, <2>4, <3>1 DEF SequenceInv, Exists
    <3>4. DeadlineInv'
      BY <1>a, <2>1, <2>4, <3>1 DEF DeadlineInv, Holds, Exists
    <3>5. ToldIsTrue'
      BY <1>a, <2>4, <3>1 DEF ToldIsTrue, Exists
    <3>6. ValidIsHonoured'
      BY <1>a, <1>b, <2>1, <3>1, <3>2 DEF ValidIsHonoured
    <3> QED
      BY <2>1, <2>2, <3>3, <3>4, <3>5, <3>6 DEF ReservationsInv
  <2> QED
    BY <1>a, <1>2, <2>3, <2>4, ActivateStep
<1>3. ASSUME NEW c \in Clients, CrashBetween(c) PROVE ReservationsInv'
  <2>1. UNCHANGED <<debtor, seq, today, chosen>> /\ client[c].step = "activating"
        /\ client' = [client EXCEPT ![c].step = "failed"]
    BY <1>3 DEF CrashBetween
  <2>2. \A x \in Clients :
          /\ client'[x].debtor_id = client[x].debtor_id
          /\ client'[x].reservation_id = client[x].reservation_id
          /\ client'[x].valid_until = client[x].valid_until
          /\ client'[x].ended_on = client[x].ended_on
          /\ client'[x].step = "new" <=> client[x].step = "new"
          /\ client'[x].step = "activated" => client[x].step = "activated"
          /\ client'[x].step = "refused" => client[x].step = "refused"
    BY <1>a, <1>b, <2>1 DEF TypeOK, Client
  <2>3. TypeOK'
    BY <1>a, <2>1 DEF TypeOK, Client, Steps
  <2>4. SequenceInv' /\ CutoffInv'
    BY <1>a, <2>1, <2>2 DEF SequenceInv, CutoffInv, Exists
  <2>5. DeadlineInv'
    BY <1>a, <2>1, <2>2 DEF DeadlineInv, Holds, Exists
  <2>6. ToldIsTrue' /\ ValidIsHonoured'
    BY <1>a, <2>1, <2>2 DEF ToldIsTrue, ValidIsHonoured, Exists
  <2> QED
    BY <2>3, <2>4, <2>5, <2>6 DEF ReservationsInv
<1>4. ASSUME NEW s \in Scanners, ChooseRows(s) PROVE ReservationsInv'
  <2>1. PICK old \in SUBSET Debtors :
          chosen' = [chosen EXCEPT ![s] = [rows |-> old, cutoff |-> today - RetentionDays]]
    BY <1>4 DEF ChooseRows
  <2>2. UNCHANGED <<debtor, seq, today, client>>
    BY <1>4 DEF ChooseRows
  <2>3. TypeOK' /\ CutoffInv'
    BY <1>a, <1>b, <2>1, <2>2 DEF TypeOK, CutoffInv
  <2> QED
    BY <1>a, <2>2, <2>3 DEF ReservationsInv, SequenceInv, DeadlineInv, ToldIsTrue, ValidIsHonoured, Holds, Exists
<1>5. ASSUME NEW s \in Scanners, NEW skipped \in SUBSET Debtors, DeleteRows(s, skipped) PROVE ReservationsInv'
  <2>1. /\ TypeOK'
        /\ seq' = seq /\ today' = today /\ client' = client
        /\ chosen' = [chosen EXCEPT ![s] = Idle]
        /\ \A d \in Debtors :
             \/ debtor'[d] = debtor[d]
             \/ /\ Exists(d) /\ ~debtor[d].activated /\ ~Exists(d)'
                /\ debtor[d].created_at + RetentionDays < today
    BY <1>a, <1>5, DeleteStep
  <2>2. SequenceInv'
    BY <1>a, <2>1 DEF SequenceInv, Exists
  <2>3. DeadlineInv'
    BY <1>a, <1>b, <2>1 DEF DeadlineInv, Holds, Exists
  <2>4. CutoffInv'
    BY <1>a, <2>1 DEF CutoffInv, Idle, TypeOK
  <2>5. ToldIsTrue' /\ ValidIsHonoured'
    BY <1>a, <1>b, <2>1 DEF ToldIsTrue, ValidIsHonoured, Exists
  <2> QED
    BY <2>1, <2>2, <2>3, <2>4, <2>5 DEF ReservationsInv
<1>6. CASE NextDay
  <2>1. today' = today + 1 /\ UNCHANGED <<debtor, seq, client, chosen>>
    BY <1>6 DEF NextDay
  <2>2. TypeOK' /\ CutoffInv'
    BY <1>a, <1>b, <2>1 DEF TypeOK, CutoffInv
  <2>3. DeadlineInv'
    BY <1>a, <1>b, <2>1 DEF DeadlineInv, Holds, Exists
  <2> QED
    BY <1>a, <2>1, <2>2, <2>3 DEF ReservationsInv, SequenceInv, ToldIsTrue, ValidIsHonoured, Exists
<1>7. CASE UNCHANGED vars
  BY <1>a, <1>7 DEF vars, ReservationsInv, TypeOK, SequenceInv, DeadlineInv, CutoffInv, ToldIsTrue,
    ValidIsHonoured, Holds, Exists
<1> QED
  BY <1>1, <1>2, <1>3, <1>4, <1>5, <1>6, <1>7 DEF Next

LEMMA ReservationsInvHolds == Spec => []ReservationsInv
BY InitReservationsInv, ReservationsStep, PTL DEF Spec

\* A client that was told its debtor is activated has the activated row, with
\* its own reservation ID (procedures.py:130-145).
THEOREM ToldActivationsAreTrue == Spec => []ToldIsTrue
BY ReservationsInvHolds, PTL DEF ReservationsInv

\* No reservation is refused before its deadline, whenever the scanner has chosen
\* its rows (routes.py:122-125, table_scanners.py:87-107).
THEOREM ValidReservationsAreHonoured == Spec => []ValidIsHonoured
BY ReservationsInvHolds, PTL DEF ReservationsInv

\* Two clients never own the same debtor (procedures.py:136-143).
THEOREM DebtorsHaveOneOwner == Spec => []OneOwner
<1>1. ReservationsInv => OneOwner
  BY DEF ReservationsInv, ToldIsTrue, SequenceInv, OneOwner
<1> QED
  BY <1>1, ReservationsInvHolds, PTL

\* No step takes an activated debtor's row or reservation away.
THEOREM ActivatedDebtorsStay == Spec => ActivatedStays
<1>1. ASSUME ReservationsInv, [Next]_vars, NEW d \in Debtors, Exists(d), debtor[d].activated
      PROVE debtor'[d] = debtor[d]
  <2>0. TypeOK /\ CutoffInv /\ debtor[d] \in DebtorRow
    BY <1>1 DEF ReservationsInv, TypeOK, Exists
  <2>1. ASSUME NEW c \in Clients, NEW step \in {"reserved", "activating"}, ReserveDebtor(c, step)
        PROVE debtor'[d] = debtor[d]
    BY <1>1, <2>0, <2>1, ReserveStep
  <2>2. ASSUME NEW c \in Clients, ActivateDebtor(c) PROVE debtor'[d] = debtor[d]
    <3>1. [debtor[d] EXCEPT !.activated = TRUE] = debtor[d]
      BY <1>1, <2>0 DEF DebtorRow
    <3> QED
      BY <2>0, <2>2, <3>1, ActivateStep
  <2>3. ASSUME NEW s \in Scanners, NEW skipped \in SUBSET Debtors, DeleteRows(s, skipped)
        PROVE debtor'[d] = debtor[d]
    BY <1>1, <2>0, <2>3, DeleteStep
  <2> QED
    BY <1>1, <2>1, <2>2, <2>3 DEF Next, CrashBetween, ChooseRows, NextDay, vars
<1>2. ReservationsInv /\ [Next]_vars =>
        [\A d \in Debtors : Exists(d) /\ debtor[d].activated => debtor'[d] = debtor[d]]_vars
  BY <1>1
<1> QED
  BY <1>2, ReservationsInvHolds, PTL DEF Spec, ActivatedStays

-----------------------------------------------------------------------------
(* ShardSplit.                                                             *)

\* Which queues are bound and which processes run, in each phase of the split.
PhaseInv ==
  /\ phase = "serving" => bound = {Parent}
  /\ phase = "subscribed" => bound = Shards
  /\ phase \notin {"serving", "subscribed"} => bound = Children
  /\ phase \in {"serving", "subscribed", "unsubscribed", "queue_deleted"} => running = {Parent}
  /\ phase \in {"stopped", "copied"} => running = {}
  /\ phase = "started" => running = Children
  /\ option \subseteq Children
  /\ phase # "started" => option = {} /\ \A s \in Shards : verified[s] = "none"

\* The queue of the parent is empty from its deletion on.
ParentQueueInv ==
  phase \notin {"serving", "subscribed", "unsubscribed"} => queue[Parent] = {}

\* No shard loses the row of a debtor it answers for.
RowsInv ==
  /\ rows[Parent] = SplitDebtors
  /\ phase \in {"copied", "started"} => \A d \in SplitDebtors : d \in rows[Child[d]]

SplitInv ==
  /\ SplitTypeOK /\ PhaseInv /\ ParentQueueInv /\ RowsInv
  /\ NoTaskIsLost /\ OnlyTheOwnerSends /\ VerifiedStaysClean

\* Whose debtors are whose.
LEMMA Responsibility ==
  ASSUME NEW s \in Shards, NEW d \in SplitDebtors
  PROVE  /\ d \in Realm(s, FALSE) <=> s = Parent \/ Child[d] = s
         /\ IsValidDebtorId(s, d, FALSE) <=> s = Parent \/ Child[d] = s
         /\ BelongsToParentShard(s, d) <=> s # Parent /\ Child[d] # s
         /\ Child[d] \in Children /\ Child[d] \in Shards /\ Child[d] # Parent
BY ShardsAssumption DEF IsValidDebtorId, BelongsToParentShard, Realm, Shards

LEMMA TasksHaveDebtors ==
  /\ Parent \in Shards /\ Parent \notin Children /\ Children \subseteq Shards
  /\ \A t \in Tasks : DebtorOf[t] \in SplitDebtors
  /\ Messages \subseteq Tasks /\ Requests \subseteq Tasks /\ Messages \cap Requests = {}
BY ShardsAssumption, TasksAssumption DEF Shards, Tasks

LEMMA InitSplitInv == SplitInit => SplitInv
<1> SUFFICES ASSUME SplitInit PROVE SplitInv
  OBVIOUS
<1> USE TasksHaveDebtors
<1>1. SplitTypeOK
  BY DEF SplitInit, SplitTypeOK, Phases, Tables
<1>2. PhaseInv /\ ParentQueueInv /\ RowsInv
  BY DEF SplitInit, PhaseInv, ParentQueueInv, RowsInv
<1>3. NoTaskIsLost /\ OnlyTheOwnerSends /\ VerifiedStaysClean
  BY DEF SplitInit, NoTaskIsLost, OnlyTheOwnerSends, VerifiedStaysClean
<1> QED
  BY <1>1, <1>2, <1>3 DEF SplitInv

-----------------------------------------------------------------------------
(* Serving.                                                                *)

LEMMA PublishStep ==
  ASSUME SplitInv, NEW m \in Messages, PublishMessage(m)
  PROVE  SplitInv'
<1> USE TasksHaveDebtors DEF SplitInv, operatorVars, databaseVars
<1>1. /\ published' = published \cup {m}
      /\ queue' = [s \in Shards |-> IF s \in bound /\ DebtorOf[m] \in Realm(s, FALSE)
                                    THEN queue[s] \cup {m} ELSE queue[s]]
      /\ UNCHANGED <<phase, bound, running, option, verified, rows, effects, signals,
                     sent, accepted>>
  BY DEF PublishMessage
<1>2. SplitTypeOK'
  BY <1>1 DEF SplitTypeOK
<1>3. PhaseInv' /\ RowsInv' /\ OnlyTheOwnerSends' /\ VerifiedStaysClean'
  BY <1>1 DEF PhaseInv, RowsInv, OnlyTheOwnerSends, VerifiedStaysClean
<1>4. ParentQueueInv'
  BY <1>1 DEF ParentQueueInv, PhaseInv
<1>5. NoTaskIsLost'
  <2> DEFINE e == DebtorOf[m]
  <2>1. \A s \in Shards : queue[s] \subseteq queue'[s]
    BY <1>1
  <2>2. e \in SplitDebtors /\ Child[e] \in Children /\ Child[e] \in Shards
    BY Responsibility
  <2>3. Parent \in bound => m \in queue'[Parent]
    BY <1>1, <2>2, Responsibility
  <2>4. Child[e] \in bound => m \in queue'[Child[e]]
    BY <1>1, <2>2, Responsibility
  <2>5. \/ phase \in {"serving", "subscribed"} /\ Parent \in bound
        \/ Child[e] \in bound
    BY <2>2 DEF PhaseInv, SplitTypeOK, Phases
  <2>6. m \in queue'[Keeper(e)'] \cup queue'[Child[e]]
    BY <1>1, <2>3, <2>4, <2>5 DEF Keeper
  <2>7. ASSUME NEW n \in published
        PROVE  n \in effects[Keeper(DebtorOf[n])] \cup queue'[Keeper(DebtorOf[n])]
                       \cup queue'[Child[DebtorOf[n]]]
    <3>1. n \in effects[Keeper(DebtorOf[n])] \cup queue[Keeper(DebtorOf[n])]
                  \cup queue[Child[DebtorOf[n]]]
      BY DEF NoTaskIsLost
    <3>2. Keeper(DebtorOf[n]) \in Shards /\ Child[DebtorOf[n]] \in Shards
      BY Responsibility DEF SplitTypeOK, Keeper
    <3> QED
      BY <2>1, <3>1, <3>2
  <2> QED
    BY <1>1, <2>6, <2>7 DEF NoTaskIsLost, Keeper
<1> QED
  BY <1>2, <1>3, <1>4, <1>5

\* The shard that handles a task is the one that keeps its debtor.
LEMMA RunningKeeps ==
  ASSUME SplitInv, NEW s \in running, NEW d \in SplitDebtors, IsValidDebtorId(s, d, FALSE)
  PROVE  /\ s \in Shards /\ Keeper(d) = s
         /\ s \in Children => Child[d] = s /\ d \in rows[s]
         /\ s \notin Children => s = Parent
<1>1. s \in Shards /\ (s = Parent \/ Child[d] = s) /\ Child[d] # Parent
  BY Responsibility DEF SplitInv, SplitTypeOK
<1>2. CASE s = Parent
  <2>1. phase \notin {"copied", "started"}
    BY <1>2, TasksHaveDebtors DEF SplitInv, PhaseInv
  <2> QED
    BY <1>2, <2>1, TasksHaveDebtors DEF Keeper
<1>3. CASE s # Parent
  <2>1. phase = "started"
    BY <1>1, <1>3, TasksHaveDebtors DEF SplitInv, PhaseInv, SplitTypeOK, Phases
  <2> QED
    BY <1>1, <1>3, <2>1, TasksHaveDebtors DEF Keeper, SplitInv, RowsInv, Shards
<1> QED
  BY <1>2, <1>3

LEMMA PerformChanges ==
  ASSUME SplitTypeOK, NEW s \in Shards, NEW t \in Tasks, Perform(s, t)
  PROVE  /\ effects' \in [Shards -> SUBSET Tasks] /\ signals' \in [Shards -> SUBSET Tasks]
         /\ effects'[s] = effects[s] \cup {t}
         /\ signals'[s] \subseteq signals[s] \cup {t}
         /\ \A x \in Shards : x # s => effects'[x] = effects[x] /\ signals'[x] = signals[x]
BY DEF Perform, SplitTypeOK

LEMMA MessageStep ==
  ASSUME SplitInv, NEW s \in Shards, NEW m \in Messages, HandleMessage(s, m)
  PROVE  SplitInv'
<1> USE TasksHaveDebtors DEF operatorVars
<1> DEFINE e == DebtorOf[m]
<1>0. SplitTypeOK /\ PhaseInv /\ ParentQueueInv /\ RowsInv
  BY DEF SplitInv
<1>1. /\ s \in running /\ m \in queue[s] /\ IsValidDebtorId(s, e, FALSE)
      /\ queue' \in {queue, [queue EXCEPT ![s] = @ \ {m}]}
      /\ UNCHANGED <<phase, bound, running, option, verified, rows, published, sent, accepted>>
  BY DEF HandleMessage
<1>2. /\ Keeper(e) = s /\ e \in rows[s]
      /\ s \in Children => Child[e] = s
  BY <1>0, <1>1, RunningKeeps DEF RowsInv
<1>3. Perform(s, m)
  BY <1>2 DEF HandleMessage
<1>4. /\ effects' \in [Shards -> SUBSET Tasks] /\ signals' \in [Shards -> SUBSET Tasks]
      /\ effects'[s] = effects[s] \cup {m}
      /\ signals'[s] \subseteq signals[s] \cup {m}
      /\ \A x \in Shards : x # s => effects'[x] = effects[x] /\ signals'[x] = signals[x]
  BY <1>0, <1>3, PerformChanges
<1>5. /\ queue' \in [Shards -> SUBSET Messages]
      /\ \A x \in Shards : queue'[x] \subseteq queue[x] /\ queue[x] \subseteq queue'[x] \cup {m}
  BY <1>0, <1>1 DEF SplitTypeOK
<1>6. SplitTypeOK'
  <2>1. \A x \in Shards : \A t \in effects'[x] : DebtorOf[t] \in rows[x]
    BY <1>0, <1>2, <1>4 DEF SplitTypeOK
  <2> QED
    BY <1>0, <1>1, <1>4, <1>5, <2>1 DEF SplitTypeOK
<1>7. PhaseInv' /\ RowsInv' /\ ParentQueueInv'
  BY <1>0, <1>1, <1>5 DEF PhaseInv, RowsInv, ParentQueueInv
<1>8. NoTaskIsLost'
  <2>1. \A d : Keeper(d)' = Keeper(d)
    BY <1>1 DEF Keeper
  <2>2. \A d \in SplitDebtors : Keeper(d) \in Shards /\ Child[d] \in Shards
    BY Responsibility DEF Keeper
  <2>3. \A x \in Shards : effects[x] \subseteq effects'[x]
    BY <1>4
  <2>4. ASSUME NEW n \in published
        PROVE  n \in effects'[Keeper(DebtorOf[n])] \cup queue'[Keeper(DebtorOf[n])]
                       \cup queue'[Child[DebtorOf[n]]]
    <3>1. n \in Messages
      BY <1>0 DEF SplitTypeOK
    <3>2. CASE n = m
      BY <1>2, <1>4, <3>2
    <3>3. CASE n # m
      BY <1>5, <2>2, <2>3, <3>1, <3>3 DEF SplitInv, NoTaskIsLost
    <3> QED
      BY <3>2, <3>3
  <2>5. \A r \in accepted : r \in effects'[Keeper(DebtorOf[r])]
    BY <1>0, <2>2, <2>3 DEF SplitInv, NoTaskIsLost, SplitTypeOK
  <2> QED
    BY <1>1, <2>1, <2>4, <2>5 DEF NoTaskIsLost
<1>9. OnlyTheOwnerSends' /\ VerifiedStaysClean'
  BY <1>1, <1>2, <1>4 DEF SplitInv, OnlyTheOwnerSends, VerifiedStaysClean
<1> QED
  BY <1>6, <1>7, <1>8, <1>9 DEF SplitInv

LEMMA RequestStep ==
  ASSUME SplitInv, NEW s \in Shards, NEW r \in Requests, HandleRequest(s, r)
  PROVE  SplitInv'
<1> USE TasksHaveDebtors DEF operatorVars, brokerVars
<1> DEFINE e == DebtorOf[r]
<1>0. SplitTypeOK /\ PhaseInv /\ ParentQueueInv /\ RowsInv
  BY DEF SplitInv
<1>1. /\ s \in running /\ IsValidDebtorId(s, e, FALSE)
      /\ rows' = [rows EXCEPT ![s] = @ \cup {e}]
      /\ Perform(s, r)
      /\ accepted' = accepted \cup {r}
      /\ UNCHANGED <<phase, bound, running, option, verified, queue, published, sent>>
  BY DEF HandleRequest
<1>2. /\ Keeper(e) = s /\ e \in rows[s]
      /\ s \in Children => Child[e] = s
  BY <1>0, <1>1, RunningKeeps DEF RowsInv
<1>3. rows' = rows
  BY <1>0, <1>1, <1>2 DEF SplitTypeOK
<1>4. /\ effects' \in [Shards -> SUBSET Tasks] /\ signals' \in [Shards -> SUBSET Tasks]
      /\ effects'[s] = effects[s] \cup {r}
      /\ signals'[s] \subseteq signals[s] \cup {r}
      /\ \A x \in Shards : x # s => effects'[x] = effects[x] /\ signals'[x] = signals[x]
  BY <1>0, <1>1, PerformChanges
<1>6. SplitTypeOK'
  <2>1. \A x \in Shards : \A t \in effects'[x] : DebtorOf[t] \in rows[x]
    BY <1>0, <1>2, <1>4 DEF SplitTypeOK
  <2> QED
    BY <1>0, <1>1, <1>3, <1>4, <2>1 DEF SplitTypeOK
<1>7. PhaseInv' /\ RowsInv' /\ ParentQueueInv'
  BY <1>0, <1>1, <1>3 DEF PhaseInv, RowsInv, ParentQueueInv
<1>8. NoTaskIsLost'
  <2>1. \A d : Keeper(d)' = Keeper(d)
    BY <1>1 DEF Keeper
  <2>2. \A d \in SplitDebtors : Keeper(d) \in Shards /\ Child[d] \in Shards
    BY Responsibility DEF Keeper
  <2>3. \A x \in Shards : effects[x] \subseteq effects'[x]
    BY <1>4
  <2>4. \A n \in published :
          n \in effects'[Keeper(DebtorOf[n])] \cup queue'[Keeper(DebtorOf[n])]
                  \cup queue'[Child[DebtorOf[n]]]
    BY <1>0, <1>1, <2>2, <2>3 DEF SplitInv, NoTaskIsLost, SplitTypeOK
  <2>5. \A q \in accepted' : q \in effects'[Keeper(DebtorOf[q])]
    BY <1>0, <1>1, <1>2, <1>4, <2>2, <2>3 DEF SplitInv, NoTaskIsLost, SplitTypeOK
  <2> QED
    BY <1>1, <2>1, <2>4, <2>5 DEF NoTaskIsLost
<1>9. OnlyTheOwnerSends' /\ VerifiedStaysClean'
  BY <1>1, <1>2, <1>3, <1>4 DEF SplitInv, OnlyTheOwnerSends, VerifiedStaysClean
<1> QED
  BY <1>6, <1>7, <1>8, <1>9 DEF SplitInv

-----------------------------------------------------------------------------
(* Flushing and scanning.                                                  *)

LEMMA FlushStep ==
  ASSUME SplitInv, NEW s \in Shards, Flush(s)
  PROVE  SplitInv'
<1> USE TasksHaveDebtors DEF operatorVars
<1>0. SplitTypeOK
  BY DEF SplitInv
<1>1. /\ \A t \in signals[s] : ~Unsendable(s, t)
      /\ sent' = [sent EXCEPT ![s] = @ \cup {t \in signals[s] : ~Ignored(s, t)}]
      /\ signals' \in {signals, [signals EXCEPT ![s] = {}]}
      /\ UNCHANGED <<phase, bound, running, option, verified, rows, effects, queue,
                     published, accepted>>
  BY DEF Flush
<1>2. SplitTypeOK'
  BY <1>0, <1>1 DEF SplitTypeOK
<1>3. PhaseInv' /\ ParentQueueInv' /\ RowsInv' /\ NoTaskIsLost'
  BY <1>1 DEF SplitInv, PhaseInv, ParentQueueInv, RowsInv, NoTaskIsLost, Keeper
<1>4. OnlyTheOwnerSends'
  <2> SUFFICES ASSUME NEW c \in Children, NEW t \in sent'[c] PROVE Child[DebtorOf[t]] = c
    BY DEF OnlyTheOwnerSends
  <2>1. CASE t \in sent[c]
    BY <2>1 DEF SplitInv, OnlyTheOwnerSends
  <2>2. CASE t \notin sent[c]
    <3>1. c = s /\ t \in signals[s] /\ ~Ignored(s, t)
      BY <1>0, <1>1, <2>2 DEF SplitTypeOK
    <3>2. IsValidDebtorId(s, DebtorOf[t], FALSE) /\ DebtorOf[t] \in SplitDebtors
      BY <1>0, <1>1, <3>1 DEF Unsendable, SplitTypeOK
    <3> QED
      BY <3>1, <3>2, Responsibility
  <2> QED
    BY <2>1, <2>2
<1>5. VerifiedStaysClean'
  <2>1. \A x \in Shards : signals'[x] \subseteq signals[x]
    BY <1>0, <1>1 DEF SplitTypeOK
  <2> QED
    BY <1>1, <2>1 DEF SplitInv, VerifiedStaysClean
<1> QED
  BY <1>2, <1>3, <1>4, <1>5 DEF SplitInv

LEMMA DeleteLeftOverStep ==
  ASSUME SplitInv, NEW s \in Shards, NEW d \in SplitDebtors, DeleteParentShardDebtor(s, d)
  PROVE  SplitInv'
<1> USE TasksHaveDebtors DEF operatorVars, brokerVars
<1>0. SplitTypeOK
  BY DEF SplitInv
<1>1. /\ s \in running /\ s # Parent /\ Child[d] # s
      /\ rows' = [rows EXCEPT ![s] = @ \ {d}]
      /\ effects' = [effects EXCEPT ![s] = {t \in @ : DebtorOf[t] # d}]
      /\ UNCHANGED <<phase, bound, running, option, verified, signals, queue, published, sent,
                     accepted>>
  BY Responsibility DEF DeleteParentShardDebtor
<1>2. SplitTypeOK'
  BY <1>0, <1>1 DEF SplitTypeOK
<1>3. PhaseInv' /\ ParentQueueInv' /\ OnlyTheOwnerSends'
  BY <1>1 DEF SplitInv, PhaseInv, ParentQueueInv, OnlyTheOwnerSends
<1>4. RowsInv'
  BY <1>0, <1>1, Responsibility DEF SplitInv, RowsInv, SplitTypeOK
<1>5. NoTaskIsLost'
  <2>1. \A e \in SplitDebtors : Keeper(e)' = Keeper(e) /\ Keeper(e) \in {Parent, Child[e]}
    BY <1>1 DEF Keeper
  <2>2. ASSUME NEW t \in Tasks, t \in effects[Keeper(DebtorOf[t])]
        PROVE  t \in effects'[Keeper(DebtorOf[t])]
    <3>0. DebtorOf[t] \in SplitDebtors
      OBVIOUS
    <3>1. Keeper(DebtorOf[t]) \in Shards /\ (Keeper(DebtorOf[t]) = s => DebtorOf[t] # d)
      <4>1. Keeper(DebtorOf[t]) = Parent \/ Keeper(DebtorOf[t]) = Child[DebtorOf[t]]
        BY <2>1, <3>0
      <4>2. Child[DebtorOf[t]] \in Shards
        BY <3>0, Responsibility
      <4>3. s # Parent /\ Child[d] # s
        BY <1>1
      <4> HIDE DEF operatorVars, brokerVars
      <4> QED
        BY <4>1, <4>2, <4>3, TasksHaveDebtors
    <3> QED
      BY <1>0, <1>1, <2>2, <3>1 DEF SplitTypeOK
  <2>3. \A r \in accepted : r \in effects'[Keeper(DebtorOf[r])]
    BY <1>0, <2>2 DEF SplitInv, NoTaskIsLost, SplitTypeOK
  <2>4. \A m \in published :
          m \in effects'[Keeper(DebtorOf[m])] \cup queue[Keeper(DebtorOf[m])]
                  \cup queue[Child[DebtorOf[m]]]
    BY <1>0, <2>2 DEF SplitInv, NoTaskIsLost, SplitTypeOK
  <2>5. \A t \in accepted \cup published : DebtorOf[t] \in SplitDebtors
    BY <1>0 DEF SplitTypeOK
  <2> QED
    BY <1>1, <2>1, <2>3, <2>4, <2>5 DEF NoTaskIsLost
<1>6. VerifiedStaysClean'
  <2>1. \A x \in Shards : rows'[x] \subseteq rows[x]
    BY <1>0, <1>1 DEF SplitTypeOK
  <2> QED
    BY <1>1, <2>1 DEF SplitInv, VerifiedStaysClean
<1> QED
  BY <1>2, <1>3, <1>4, <1>5, <1>6 DEF SplitInv

-----------------------------------------------------------------------------
(* The operator.                                                           *)

\* Until the database is copied, nothing of it changes, and the parent's queue is
\* deleted only when nothing is in it.
LEMMA OperateStep ==
  ASSUME SplitInv, Operate
  PROVE  SplitInv'
<1> USE TasksHaveDebtors DEF databaseVars, brokerVars
<1>0. SplitTypeOK /\ PhaseInv /\ ParentQueueInv /\ RowsInv
  BY DEF SplitInv
<1>1. UNCHANGED <<verified, queue, published, sent, accepted>>
  BY DEF Operate, SubscribeChildren, UnsubscribeParent, DeleteParentQueue, StopParent,
    CopyDatabase, StartChildren
<1>2. PhaseInv' /\ ParentQueueInv'
  BY <1>0, <1>1 DEF Operate, SubscribeChildren, UnsubscribeParent, DeleteParentQueue, StopParent,
    CopyDatabase, StartChildren, Step, PhaseInv, ParentQueueInv, Shards
<1>3. phase' # "started" => VerifiedStaysClean'
  BY <1>1, <1>2 DEF PhaseInv, VerifiedStaysClean
<1>4. CASE CopyDatabase
  <2>1. /\ phase = "stopped" /\ phase' = "copied"
        /\ rows' = [s \in Shards |-> rows[Parent]]
        /\ effects' = [s \in Shards |-> effects[Parent]]
        /\ signals' = [s \in Shards |-> signals[Parent]]
        /\ UNCHANGED <<bound, running, option>>
    BY <1>4 DEF CopyDatabase, Step
  <2>2. SplitTypeOK'
    BY <1>0, <1>1, <2>1 DEF SplitTypeOK, Phases
  <2>3. RowsInv'
    BY <1>0, <2>1, Responsibility DEF RowsInv
  <2>4. NoTaskIsLost'
    <3>1. ASSUME NEW t \in accepted \cup published
          PROVE  /\ Keeper(DebtorOf[t]) = Parent /\ Keeper(DebtorOf[t])' = Child[DebtorOf[t]]
                 /\ effects'[Child[DebtorOf[t]]] = effects[Parent]
      <4>1. DebtorOf[t] \in SplitDebtors
        BY <1>0 DEF SplitTypeOK
      <4> QED
        BY <2>1, <4>1, Responsibility DEF Keeper
    <3>2. queue[Parent] = {}
      BY <1>0, <2>1 DEF ParentQueueInv
    <3> QED
      BY <1>1, <3>1, <3>2 DEF SplitInv, NoTaskIsLost
  <2>5. OnlyTheOwnerSends' /\ VerifiedStaysClean'
    BY <1>1, <1>3, <2>1 DEF SplitInv, OnlyTheOwnerSends
  <2> QED
    BY <1>2, <2>2, <2>3, <2>4, <2>5 DEF SplitInv
<1>5. CASE ~CopyDatabase
  <2>1. UNCHANGED <<rows, effects, signals>>
    BY <1>5 DEF Operate, SubscribeChildren, UnsubscribeParent, DeleteParentQueue, StopParent,
      CopyDatabase, StartChildren
  <2>2. SplitTypeOK'
    BY <1>0, <1>1, <2>1 DEF Operate, SubscribeChildren, UnsubscribeParent, DeleteParentQueue,
      StopParent, CopyDatabase, StartChildren, Step, SplitTypeOK, Phases
  <2>3. phase' \in {"copied", "started"} <=> phase \in {"copied", "started"}
    BY <1>5 DEF Operate, SubscribeChildren, UnsubscribeParent, DeleteParentQueue, StopParent,
      StartChildren, Step
  <2>4. RowsInv' /\ NoTaskIsLost'
    BY <1>1, <2>1, <2>3 DEF SplitInv, RowsInv, NoTaskIsLost, Keeper
  <2>5. OnlyTheOwnerSends' /\ VerifiedStaysClean'
    BY <1>1, <2>1 DEF SplitInv, OnlyTheOwnerSends, VerifiedStaysClean
  <2> QED
    BY <1>2, <2>2, <2>4, <2>5 DEF SplitInv
<1> QED
  BY <1>4, <1>5

LEMMA VerifyStep ==
  ASSUME SplitInv, NEW s \in Shards, VerifyShardContent(s)
  PROVE  SplitInv'
<1> USE TasksHaveDebtors DEF databaseVars, brokerVars
<1>0. SplitTypeOK /\ PhaseInv
  BY DEF SplitInv
<1>1. /\ s \in option
      /\ UNCHANGED <<phase, bound, running, option, rows, effects, signals, queue, published,
                     sent, accepted>>
  BY DEF VerifyShardContent
<1>2. SplitTypeOK'
  BY <1>0, <1>1 DEF VerifyShardContent, SplitTypeOK, Tables
<1>3. PhaseInv'
  BY <1>0, <1>1 DEF PhaseInv
<1>4. ParentQueueInv' /\ RowsInv' /\ NoTaskIsLost' /\ OnlyTheOwnerSends'
  BY <1>1 DEF SplitInv, ParentQueueInv, RowsInv, NoTaskIsLost, Keeper, OnlyTheOwnerSends
<1>5. VerifiedStaysClean'
  <2>1. s \in Children /\ s # Parent
    BY <1>0, <1>1 DEF PhaseInv
  <2>2. \A x \in Shards : x # s => verified'[x] = verified[x]
    BY <1>0 DEF VerifyShardContent, SplitTypeOK
  <2>3. verified[s] # "none" \/ \A d \in rows[s] : IsValidDebtorId(s, d, FALSE)
    BY DEF VerifyShardContent
  <2>4. \A d \in rows[s] : Child[d] = s
    BY <1>0, <2>1, <2>3, Responsibility DEF SplitInv, VerifiedStaysClean, SplitTypeOK
  <2>5. verified'[s] = "all" => \A t \in signals[s] : Child[DebtorOf[t]] = s
    <3>1. verified'[s] = "all" => \A t \in signals[s] : IsValidDebtorId(s, DebtorOf[t], FALSE)
      BY <1>0 DEF VerifyShardContent, SplitTypeOK
    <3> QED
      BY <1>0, <2>1, <3>1, Responsibility DEF SplitTypeOK
  <2> QED
    BY <1>1, <2>2, <2>4, <2>5 DEF SplitInv, VerifiedStaysClean
<1> QED
  BY <1>2, <1>3, <1>4, <1>5 DEF SplitInv

LEMMA ClearStep ==
  ASSUME SplitInv, NEW s \in Shards, ClearOption(s)
  PROVE  SplitInv'
BY DEF ClearOption, databaseVars, brokerVars, SplitInv, SplitTypeOK, PhaseInv, ParentQueueInv,
  RowsInv, NoTaskIsLost, Keeper, OnlyTheOwnerSends, VerifiedStaysClean

LEMMA SplitInvHolds == SplitSpec => []SplitInv
<1>1. SplitInv /\ [SplitNext]_splitVars => SplitInv'
  <2> SUFFICES ASSUME SplitInv, [SplitNext]_splitVars PROVE SplitInv'
    OBVIOUS
  <2>1. CASE UNCHANGED splitVars
    BY <2>1 DEF splitVars, operatorVars, databaseVars, brokerVars, SplitInv, SplitTypeOK,
      PhaseInv, ParentQueueInv, RowsInv, NoTaskIsLost, Keeper, OnlyTheOwnerSends,
      VerifiedStaysClean
  <2>2. CASE SplitNext
    BY <2>2, PublishStep, MessageStep, RequestStep, FlushStep, DeleteLeftOverStep, OperateStep,
      VerifyStep, ClearStep DEF SplitNext
  <2> QED
    BY <2>1, <2>2
<1> QED
  BY <1>1, InitSplitInv, PTL DEF SplitSpec

\* Types, and the foreign key: what changed a debtor goes with its row
\* (table_scanners.py:184-211).
THEOREM SplitTypeCorrect == SplitSpec => []SplitTypeOK
BY SplitInvHolds, PTL DEF SplitInv

\* For any number of shards, debtors, messages and requests, nothing is lost by
\* the split (cli.py:51-233, table_scanners.py:184-211).
THEOREM SplitLosesNoTask == SplitSpec => []NoTaskIsLost
BY SplitInvHolds, PTL DEF SplitInv

\* After the split only the owner of a debtor speaks for it (models.py:96-104).
THEOREM OnlyOwnersSend == SplitSpec => []OnlyTheOwnerSends
BY SplitInvHolds, PTL DEF SplitInv

\* What verify_shard_content has found clean stays clean (cli.py:266-279).
THEOREM VerifiedShardsStayClean == SplitSpec => []VerifiedStaysClean
BY SplitInvHolds, PTL DEF SplitInv
=============================================================================
