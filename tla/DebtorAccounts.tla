--------------------------- MODULE DebtorAccounts ---------------------------
(***************************************************************************)
(* The life of a debtor and the configuration of its root account.  The    *)
(* debtor's row lives in the agent's database; the account lives at the    *)
(* accounting authority (external).  The agent sends ConfigureAccount      *)
(* signals and learns from AccountUpdate, RejectedConfig and AccountPurge  *)
(* messages what became of them.  Signals and messages are sets that only  *)
(* grow, as in IssuingTransfers; but after a purge the authority says no   *)
(* more about the account, so the last delivery of an AccountPurge counts. *)
(*                                                                         *)
(* Every procedure reads the clock of the machine it runs on; clocks are   *)
(* not synchronised, so each reading is any time in a set.  Delays of the  *)
(* scanner, the expiry of messages (ttl) and of the monthly counter are    *)
(* nondeterministic for the same reason.  The rows of different debtors    *)
(* do not interact: one debtor is enough.                                  *)
(***************************************************************************)
EXTENDS Integers, FiniteSets

CONSTANTS
  ConfigData,     \* contents of config_data; the empty one among them
  EmptyData,      \* config_data without an IRI; that of new and deactivated debtors
  Limits,         \* values of -min_balance
  Unlimited,      \* -MIN_INT64
  Huge,           \* HUGE_NEGLIGIBLE_AMOUNT, more than any limit
  ApiTimes,       \* readings of the clocks where debtors are configured
  ConsumerTimes,  \* readings of the clocks where messages are consumed
  SeqnumModulus,  \* 2^32
  MaxActions,     \* bound on the number of configuration updates in a month
  MaxReservations,\* bound on the reservations of the debtor's ID
  MaxSignals,     \* bound on the signals a debtor sends for its account
  MaxChanges      \* bound on the changes of the balance of an account

ASSUME DataAssumption == EmptyData \in ConfigData /\ Unlimited \in Limits /\ Huge \notin Limits
\* A consumer's clock passes the time of any configuration in the end.
ASSUME TimesAssumption ==
  /\ ApiTimes \cup ConsumerTimes \subseteq Nat
  /\ \E last \in ConsumerTimes : \A t \in ApiTimes : t < last
ASSUME BoundsAssumption ==
  /\ SeqnumModulus \in Nat /\ SeqnumModulus > 0
  /\ MaxActions \in Nat /\ MaxReservations \in Nat
  /\ MaxSignals \in Nat /\ MaxChanges \in Nat

VARIABLES
  debtor,             \* the row of the debtor
  reservation_seq,    \* the sequence "debtor_reservation_id_seq"
  configure_signals,  \* ConfigureAccount signals sent so far
  account,            \* the account at the accounting authority
  account_updates,    \* AccountUpdate messages sent by the authority
  rejected_configs,   \* RejectedConfig messages sent by the authority
  purges              \* AccountPurge messages that may still be delivered

authorityVars == <<account, account_updates, rejected_configs, purges>>
vars == <<debtor, reservation_seq, configure_signals, authorityVars>>

TS0 == 0
NoError == "none"
Rejected == "REJECTED"                          \* a rejection_code
NotEffectual == "CONFIGURATION_IS_NOT_EFFECTUAL"
NoInfo == "no info"                             \* NULL in debtor_info_iri
Seqnums == 0 .. SeqnumModulus - 1
Timestamps == ApiTimes \cup ConsumerTimes \cup {TS0}

\* What a ConfigureAccount signal carries, and what an account is set to.
Config == [ts : Timestamps, seqnum : Seqnums, deleting : BOOLEAN,
           config_data : ConfigData, negligible_amount : Limits \cup {Huge}]
\* The configuration of an account that is not ours.
ForeignConfig(data) == [ts |-> -1, seqnum |-> 0, deleting |-> FALSE,
                        config_data |-> data, negligible_amount |-> Huge]

AccountConfig == Config \cup {ForeignConfig(data) : data \in ConfigData}
Account == [open : BOOLEAN, creation_date : Nat, change : Nat, config : AccountConfig]
AccountUpdate == [creation_date : Nat, change : Nat, config : AccountConfig]

Debtor == [status : {"none", "reserved", "active", "deactivated"},
           reservation_id : Nat, actions_count : 0 .. MaxActions,
           last_config_ts : Timestamps, last_config_seqnum : Seqnums,
           is_config_effectual : BOOLEAN, deleting : BOOLEAN, config_data : ConfigData,
           limit : Limits, config_error : {NoError, Rejected, NotEffectual},
           latest_update_id : Nat, has_server_account : BOOLEAN,
           creation_date : Nat, last_change : Nat, debtor_info : ConfigData \cup {NoInfo}]

NewRow(reservation) ==
  [status |-> "reserved", reservation_id |-> reservation, actions_count |-> 0,
   last_config_ts |-> TS0, last_config_seqnum |-> 0,
   is_config_effectual |-> FALSE, deleting |-> FALSE, config_data |-> EmptyData,
   limit |-> Unlimited, config_error |-> NoError, latest_update_id |-> 1,
   has_server_account |-> FALSE, creation_date |-> 0, last_change |-> 0,
   debtor_info |-> NoInfo]

NoRow == [NewRow(0) EXCEPT !.status = "none"]

Init ==
  /\ debtor = NoRow
  /\ reservation_seq = 0
  /\ configure_signals = {}
  \* Either no account has ever existed, or one is left over from before.
  /\ account \in {[open |-> open, creation_date |-> 1, change |-> 1,
                    config |-> ForeignConfig(data)] : open \in BOOLEAN, data \in ConfigData}
  /\ account_updates = {} /\ rejected_configs = {} /\ purges = {}

-----------------------------------------------------------------------------
(* Helpers of procedures.py                                                *)

Larger(a, b) == IF a > b THEN a ELSE b

\* Mutant of NextTs: the clock is trusted.
ClockTs(row, now) == now
\* The timestamp of a configuration never goes back (procedures.py:724).
NextTs(row, now) == Larger(now, row.last_config_ts)

ConfigOf(row) ==
  [ts |-> row.last_config_ts, seqnum |-> row.last_config_seqnum, deleting |-> row.deleting,
   config_data |-> row.config_data, negligible_amount |-> row.limit]

\* The row after _insert_configure_account_signal, which sends its ConfigOf.
Stamped(row, now) ==
  [row EXCEPT !.last_config_ts = NextTs(row, now),
              !.last_config_seqnum = (@ + 1) % SeqnumModulus]

IsDiscarded(config) == config.deleting /\ config.negligible_amount = Huge
OwnSignals == {s \in configure_signals : ~IsDiscarded(s)}

SendConfig(row, now) ==
  /\ Cardinality(OwnSignals) < MaxSignals
  /\ debtor' = Stamped(row, now)
  /\ configure_signals' = configure_signals \cup {ConfigOf(Stamped(row, now))}
  /\ UNCHANGED <<reservation_seq, authorityVars>>

\* Only the row of the debtor changes.
ChangeRow(row) ==
  /\ debtor' = row
  /\ UNCHANGED <<reservation_seq, configure_signals, authorityVars>>

IsActive == debtor.status = "active"

\* Seqnum comparison: later by less than half of the cycle.
SeqLater(a, b) == (a - b) % SeqnumModulus \in 1 .. (SeqnumModulus - 1) \div 2

\* The order in which the authority applies configurations.
Newer(a, b) == a.ts > b.ts \/ (a.ts = b.ts /\ SeqLater(a.seqnum, b.seqnum))

-----------------------------------------------------------------------------
(* Procedures called by the Web API, by ActivateDebtor messages and by the *)
(* scanner of the "debtor" table                                           *)

ReserveDebtor ==
  /\ debtor.status = "none"
  /\ reservation_seq < MaxReservations
  /\ reservation_seq' = reservation_seq + 1
  /\ debtor' = NewRow(reservation_seq')
  /\ UNCHANGED <<configure_signals, authorityVars>>

\* A request may carry the ID of any earlier reservation; activating twice is
\* not an error and changes nothing.
ActivateDebtor(reservation, now) ==
  /\ debtor.status = "reserved"
  /\ reservation = debtor.reservation_id
  /\ SendConfig([debtor EXCEPT !.status = "active"], now)

DeactivateDebtor(now) ==
  /\ IsActive
  /\ SendConfig([debtor EXCEPT !.status = "deactivated", !.is_config_effectual = TRUE,
                               !.deleting = TRUE, !.config_data = EmptyData,
                               !.config_error = NoError, !.debtor_info = NoInfo], now)

RestrictDebtor(limit, now) ==
  /\ IsActive
  /\ SendConfig([debtor EXCEPT !.limit = limit], now)

Throttled(elapsed) ==
  [debtor EXCEPT !.actions_count = IF elapsed THEN 1 ELSE @ + 1]
\* Mutant of ThrottleAllows: one action more than the limit.
ThrottleAllowsMore(elapsed) ==
  IsActive /\ (IF elapsed THEN 0 ELSE debtor.actions_count) <= MaxActions
ThrottleAllows(elapsed) ==
  IsActive /\ (IF elapsed THEN 0 ELSE debtor.actions_count) < MaxActions

\* An update whose ID is not the next one is a conflict and changes nothing.
UpdateConfig(data, update_id, elapsed, now) ==
  /\ ThrottleAllows(elapsed)
  /\ update_id = debtor.latest_update_id + 1
  /\ SendConfig([Throttled(elapsed) EXCEPT !.config_data = data,
                                           !.latest_update_id = update_id], now)

\* An update that has been made already consumes an action all the same.
RepeatUpdate(data, update_id, elapsed) ==
  /\ ThrottleAllows(elapsed)
  /\ update_id = debtor.latest_update_id /\ data = debtor.config_data
  /\ ChangeRow(Throttled(elapsed))

\* The scanner finds a debtor that has not been activated for long.
DeleteNotActivated ==
  /\ debtor.status = "reserved"
  /\ ChangeRow(NoRow)

\* Mutant of HasConfigProblem: heartbeats are not looked at.
IsNotEffectual == ~debtor.is_config_effectual
\* The configuration is not in effect, or heartbeats stopped long ago, because
\* there is no account that could send them.
HasConfigProblem ==
  \/ ~debtor.is_config_effectual
  \/ debtor.has_server_account /\ ~account.open

SetConfigError ==
  /\ IsActive
  /\ debtor.config_error = NoError
  /\ HasConfigProblem
  /\ ChangeRow([debtor EXCEPT !.config_error = NotEffectual])

-----------------------------------------------------------------------------
(* Procedures called by the message consumer                               *)

ProcessRejectedConfig(m) ==
  /\ debtor.status # "none"
  /\ m = ConfigOf(debtor)
  /\ debtor.config_error = NoError
  /\ ChangeRow([debtor EXCEPT !.config_error = Rejected])

\* The message may come again, or this was its last delivery.
ProcessAccountPurge(creation_date) ==
  /\ debtor' = IF /\ debtor.status # "none"
                  /\ debtor.has_server_account
                  /\ debtor.creation_date <= creation_date
               THEN [debtor EXCEPT !.has_server_account = FALSE, !.is_config_effectual = FALSE]
               ELSE debtor
  /\ purges' \in {purges, purges \ {creation_date}}
  /\ UNCHANGED <<reservation_seq, configure_signals, account, account_updates, rejected_configs>>

IsNewEvent(m) ==
  \/ m.creation_date > debtor.creation_date
  \/ m.creation_date = debtor.creation_date /\ m.change > debtor.last_change

\* Mutant of IsEffectual: any state of the account will do.
AlwaysEffectual(m) == TRUE
IsEffectual(m) == m.config = ConfigOf(debtor)

\* The IRI found in config_data, if there is one.
InfoOf(data) == IF data = EmptyData THEN NoInfo ELSE data

AdoptUpdate(m) ==
  /\ IsActive
  /\ IsNewEvent(m)
  /\ ChangeRow([debtor EXCEPT
       !.is_config_effectual = IsEffectual(m),
       !.config_error = IF IsEffectual(m) THEN NoError ELSE @,
       !.has_server_account = TRUE,
       !.creation_date = m.creation_date,
       !.last_change = m.change,
       !.debtor_info = IF IsEffectual(m) THEN InfoOf(m.config.config_data) ELSE @])

DiscardSignal(now) ==
  [ts |-> now, seqnum |-> 0, deleting |-> TRUE,
   config_data |-> EmptyData, negligible_amount |-> Huge]

\* Mutant of DiscardOrphan: an account scheduled for deletion is left alone.
DiscardUndeleted(m, now) ==
  /\ ~IsActive
  /\ ~m.config.deleting
  /\ configure_signals' = configure_signals \cup {DiscardSignal(now)}
  /\ UNCHANGED <<debtor, reservation_seq, authorityVars>>

\* _discard_orphaned_account: nobody active owns the account.
DiscardOrphan(m, now) ==
  /\ ~IsActive
  /\ ~IsDiscarded(m.config)
  /\ configure_signals' = configure_signals \cup {DiscardSignal(now)}
  /\ UNCHANGED <<debtor, reservation_seq, authorityVars>>

ProcessAccountUpdate(m, now) == AdoptUpdate(m) \/ DiscardOrphan(m, now)

-----------------------------------------------------------------------------
(* The accounting authority (external)                                     *)

\* A newer configuration is applied; it creates the account when there is none.
AuthorityApplies(s) ==
  /\ Newer(s, account.config) /\ s \notin rejected_configs
  /\ account' = IF account.open
                THEN [account EXCEPT !.config = s, !.change = @ + 1]
                ELSE [open |-> TRUE, creation_date |-> account.creation_date + 1,
                      change |-> 1, config |-> s]
  /\ UNCHANGED <<debtor, reservation_seq, configure_signals,
                 account_updates, rejected_configs, purges>>

AuthorityRefuses(s) ==
  /\ Newer(s, account.config)
  /\ ~IsDiscarded(s)
  /\ rejected_configs' = rejected_configs \cup {s}
  /\ UNCHANGED <<debtor, reservation_seq, configure_signals, account, account_updates, purges>>

\* An AccountUpdate after a change, or a heartbeat.
AuthorityReports ==
  /\ account.open
  /\ account_updates' = account_updates \cup
       {[creation_date |-> account.creation_date, change |-> account.change,
         config |-> account.config]}
  /\ UNCHANGED <<debtor, reservation_seq, configure_signals, account, rejected_configs, purges>>

\* The balance changes.
AccountChanges ==
  /\ account.open /\ account.change < MaxChanges
  /\ account' = [account EXCEPT !.change = @ + 1]
  /\ UNCHANGED <<debtor, reservation_seq, configure_signals,
                 account_updates, rejected_configs, purges>>

AuthorityPurges ==
  /\ account.open /\ IsDiscarded(account.config)
  /\ account' = [account EXCEPT !.open = FALSE]
  /\ purges' = purges \cup {account.creation_date}
  /\ UNCHANGED <<debtor, reservation_seq, configure_signals, account_updates, rejected_configs>>

-----------------------------------------------------------------------------
Api ==
  \/ ReserveDebtor
  \/ \E now \in ApiTimes :
       \/ \E reservation \in 1 .. reservation_seq : ActivateDebtor(reservation, now)
       \/ DeactivateDebtor(now)
       \/ \E limit \in Limits : RestrictDebtor(limit, now)
       \/ \E data \in ConfigData, elapsed \in BOOLEAN :
            UpdateConfig(data, debtor.latest_update_id + 1, elapsed, now)
  \/ \E data \in ConfigData, elapsed \in BOOLEAN :
       RepeatUpdate(data, debtor.latest_update_id, elapsed)

ConsumeUpdate(now) == \E m \in account_updates : ProcessAccountUpdate(m, now)
ConsumeRejection == \E m \in rejected_configs : ProcessRejectedConfig(m)
ConsumePurge == \E creation_date \in purges : ProcessAccountPurge(creation_date)
AuthorityConfigures == \E s \in configure_signals : AuthorityApplies(s) \/ AuthorityRefuses(s)

Next ==
  \/ Api
  \/ DeleteNotActivated
  \/ SetConfigError
  \/ \E now \in ConsumerTimes : ConsumeUpdate(now)
  \/ ConsumeRejection
  \/ ConsumePurge
  \/ AuthorityConfigures
  \/ AuthorityReports
  \/ AccountChanges
  \/ AuthorityPurges

Spec == Init /\ [][Next]_vars

\* Messages are processed, the scanner comes round and the authority acts.
LastTime == CHOOSE t \in ConsumerTimes : \A u \in ConsumerTimes : u <= t
Fairness ==
  /\ WF_vars(ConsumeUpdate(LastTime))
  /\ WF_vars(ConsumeRejection)
  /\ WF_vars(ConsumePurge)
  /\ WF_vars(SetConfigError)
  /\ WF_vars(AuthorityConfigures)
  /\ WF_vars(AuthorityReports)
  /\ WF_vars(AuthorityPurges)

FairSpec == Spec /\ Fairness

-----------------------------------------------------------------------------
(* Properties                                                              *)

\* Every variable keeps its type, and the monthly counter its limit
\* (_throttle_debtor_actions).
TypeOK ==
  /\ debtor \in Debtor
  /\ reservation_seq \in Nat
  /\ configure_signals \subseteq Config
  /\ account \in Account
  /\ account_updates \subseteq AccountUpdate
  /\ rejected_configs \subseteq configure_signals
  /\ purges \subseteq Nat

\* Whatever the clocks of the agent's machines read, the authority takes the
\* debtor's present configuration for the newest of all the debtor has sent,
\* so a delayed signal can not bring an older one back
\* (_insert_configure_account_signal).
CurrentConfigWins ==
  debtor.status \in {"active", "deactivated"} =>
    \A s \in OwnSignals \ {ConfigOf(debtor)} : Newer(ConfigOf(debtor), s)

\* The information the public redirect serves is of an active debtor and one
\* the debtor itself has set, although the account may be left over from
\* another one and its updates may come late (process_account_update_signal).
InfoIsOwn ==
  debtor.debtor_info # NoInfo =>
    /\ IsActive
    /\ \E s \in OwnSignals : s.config_data = debtor.debtor_info /\ ~s.deleting

\* In the end an active debtor's account has the debtor's configuration, or
\* the debtor sees a configuration error: no loss of the account, no refusal
\* and no order of messages hides a problem forever
\* (process_account_update_signal, process_account_purge_signal,
\* process_rejected_config_signal and the scanner together).
ProblemsSurface ==
  <>[](IsActive =>
         \/ debtor.config_error # NoError
         \/ account.open /\ debtor.is_config_effectual /\ account.config = ConfigOf(debtor))

\* An account that no active debtor owns is deleted in the end, even when the
\* configuration sent by the deactivation is refused or an older one comes
\* late (_discard_orphaned_account).
OrphansGo == <>[](IsActive \/ ~account.open)

\* What schemas.py:613-616 says: a configuration error is about the current
\* settings.  Here: a rejection shown is a rejection of the current settings.
RejectionIsCurrent ==
  debtor.config_error = Rejected => ConfigOf(debtor) \in rejected_configs
=============================================================================
