------------------------ MODULE DebtorAccounts_proofs ------------------------
(***************************************************************************)
(* Proofs about DebtorAccounts, for any clocks, any account left over and  *)
(* any order of messages.  InfoIsOwn is not inductive: that the adopted    *)
(* configuration has been sent by the debtor follows from Configured.      *)
(***************************************************************************)
EXTENDS DebtorAccounts, FiniteSetTheorems, TLAPS

\* A debtor whose account is not being deleted keeps that mark off, and the
\* present configuration of an active debtor has been sent.
Configured ==
  /\ debtor.status # "deactivated" => ~debtor.deleting
  /\ IsActive => ConfigOf(debtor) \in configure_signals

InfoInv == TypeOK /\ Configured /\ InfoIsOwn

USE DataAssumption, TimesAssumption, BoundsAssumption

-----------------------------------------------------------------------------
(* Lemmas about rows                                                       *)

\* The row with a new configuration number is a row.
LEMMA StampedType ==
  ASSUME NEW row \in Debtor, NEW now \in ApiTimes
  PROVE  /\ Stamped(row, now) \in Debtor
         /\ ConfigOf(Stamped(row, now)) \in Config
         /\ ConfigOf(Stamped(row, now)).config_data = row.config_data
         /\ ConfigOf(Stamped(row, now)).deleting = row.deleting
         /\ Stamped(row, now).status = row.status
         /\ Stamped(row, now).deleting = row.deleting
         /\ Stamped(row, now).debtor_info = row.debtor_info
<1>1. NextTs(row, now) \in Timestamps
  BY DEF NextTs, Larger, Debtor, Timestamps
<1>2. (row.last_config_seqnum + 1) % SeqnumModulus \in Seqnums
  <2>1. row.last_config_seqnum + 1 \in Nat
    BY DEF Debtor, Seqnums
  <2> QED  BY <2>1 DEF Seqnums
<1>3. Stamped(row, now) \in Debtor
  BY <1>1, <1>2 DEF Stamped, Debtor
<1> QED  BY <1>3 DEF Stamped, ConfigOf, Config, Debtor

\* A throttled row is a row, and stays within the limit.
LEMMA ThrottledType ==
  ASSUME TypeOK, NEW elapsed \in BOOLEAN, ThrottleAllows(elapsed)
  PROVE  /\ Throttled(elapsed) \in Debtor
         /\ \A f \in DOMAIN debtor \ {"actions_count"} : Throttled(elapsed)[f] = debtor[f]
  BY DEF TypeOK, Debtor, Throttled, ThrottleAllows
\* A new row, and a missing one, are rows.
LEMMA NewRowType ==
  /\ \A reservation \in Nat : NewRow(reservation) \in Debtor
  /\ NoRow \in Debtor
<1>1. TS0 \in Timestamps /\ 0 \in Seqnums /\ 0 \in 0 .. MaxActions
  BY DEF Timestamps, Seqnums
<1>2. \A reservation \in Nat : NewRow(reservation) \in Debtor
  BY <1>1 DEF NewRow, Debtor
<1>3. [NewRow(0) EXCEPT !.status = "none"] \in Debtor
  BY <1>2 DEF Debtor
<1> QED  BY <1>2, <1>3 DEF NoRow

-----------------------------------------------------------------------------
(* The two ways in which procedures change the row                         *)

\* A step that sends a new configuration keeps the invariant.
LEMMA SendPreserves ==
  ASSUME InfoInv, NEW row \in Debtor, NEW now \in ApiTimes, SendConfig(row, now),
         row.status # "deactivated" => ~row.deleting,
         \/ row.debtor_info = NoInfo
         \/ row.status = "active" /\ row.debtor_info = debtor.debtor_info
  PROVE  InfoInv'
<1> DEFINE sent == ConfigOf(Stamped(row, now))
<1>1. /\ debtor' = Stamped(row, now)
      /\ configure_signals' = configure_signals \cup {sent}
      /\ UNCHANGED <<reservation_seq, authorityVars>>
  BY DEF SendConfig
<1>2. TypeOK'
  BY <1>1, StampedType DEF InfoInv, TypeOK, authorityVars
<1>3. Configured'
  BY <1>1, StampedType DEF Configured, IsActive
<1>4. OwnSignals \subseteq OwnSignals'
  BY <1>1 DEF OwnSignals
<1>5. InfoIsOwn'
  BY <1>1, <1>4, StampedType DEF InfoInv, InfoIsOwn, IsActive
<1> QED  BY <1>2, <1>3, <1>5 DEF InfoInv

\* A step that changes neither the configuration, nor the status, nor the
\* published information, keeps the invariant.
LEMMA ChangePreserves ==
  ASSUME InfoInv, NEW row \in Debtor, debtor' = row,
         UNCHANGED <<reservation_seq, configure_signals, account,
                     account_updates, rejected_configs>>,
         purges' \subseteq purges,
         ConfigOf(row) = ConfigOf(debtor), row.status = debtor.status,
         row.deleting = debtor.deleting, row.debtor_info = debtor.debtor_info
  PROVE  InfoInv'
<1>1. TypeOK'
  BY DEF InfoInv, TypeOK
<1>2. Configured'
  BY DEF InfoInv, Configured, IsActive, ConfigOf
<1>3. OwnSignals' = OwnSignals
  BY DEF OwnSignals
<1>4. InfoIsOwn'
  BY <1>3 DEF InfoInv, InfoIsOwn, IsActive
<1> QED  BY <1>1, <1>2, <1>4 DEF InfoInv

\* A step that leaves the row alone keeps the invariant when types hold and
\* no signal is lost.
LEMMA OthersPreserve ==
  ASSUME InfoInv, UNCHANGED debtor, configure_signals \subseteq configure_signals', TypeOK'
  PROVE  InfoInv'
<1>1. Configured'
  BY DEF InfoInv, Configured, IsActive, ConfigOf
<1>2. OwnSignals \subseteq OwnSignals'
  BY DEF OwnSignals
<1>3. InfoIsOwn'
  BY <1>2 DEF InfoInv, InfoIsOwn, IsActive
<1> QED  BY <1>1, <1>3 DEF InfoInv

-----------------------------------------------------------------------------
(* The inductive invariant                                                 *)

\* Init establishes the invariant.
LEMMA InfoInit == Init => InfoInv
<1> SUFFICES ASSUME Init PROVE InfoInv
  OBVIOUS
<1>1. NoRow \in Debtor
  BY NewRowType
<1>2. account \in Account
  BY DEF Init, Account, AccountConfig
<1> QED  BY <1>1, <1>2 DEF Init, InfoInv, TypeOK, Configured, InfoIsOwn, NoRow, NewRow, IsActive

\* The API, its throttle and the scanner keep the invariant.
LEMMA ApiKeepsInfo ==
  ASSUME InfoInv, Api \/ DeleteNotActivated \/ SetConfigError
  PROVE  InfoInv'
<1> USE DEF IsActive
<1>0. debtor \in Debtor
  BY DEF InfoInv, TypeOK
<1>1. CASE ReserveDebtor \/ DeleteNotActivated
  <2>1. debtor' \in {NoRow, NewRow(reservation_seq')} /\ UNCHANGED <<configure_signals, authorityVars>>
    BY <1>1 DEF ReserveDebtor, DeleteNotActivated, ChangeRow
  <2>2. reservation_seq' \in Nat
    BY <1>1 DEF ReserveDebtor, DeleteNotActivated, ChangeRow, InfoInv, TypeOK
  <2>3. debtor' \in Debtor
    BY <2>1, <2>2, NewRowType
  <2>4. TypeOK'
    BY <2>1, <2>2, <2>3 DEF InfoInv, TypeOK, authorityVars
  <2> QED  BY <2>1, <2>4 DEF InfoInv, Configured, InfoIsOwn, NoRow, NewRow
<1>2. ASSUME NEW now \in ApiTimes, NEW reservation \in 1 .. reservation_seq,
             ActivateDebtor(reservation, now)
      PROVE  InfoInv'
  <2> DEFINE row == [debtor EXCEPT !.status = "active"]
  <2>1. row \in Debtor /\ SendConfig(row, now)
    BY <1>0, <1>2 DEF ActivateDebtor, Debtor
  <2>2. ~row.deleting /\ row.debtor_info = NoInfo
    BY <1>0, <1>2 DEF ActivateDebtor, Debtor, InfoInv, Configured, InfoIsOwn
  <2> QED  BY <2>1, <2>2, SendPreserves
<1>3. ASSUME NEW now \in ApiTimes, DeactivateDebtor(now)
      PROVE  InfoInv'
  <2> DEFINE row == [debtor EXCEPT !.status = "deactivated", !.is_config_effectual = TRUE,
                               !.deleting = TRUE, !.config_data = EmptyData,
                               !.config_error = NoError, !.debtor_info = NoInfo]
  <2>1. row \in Debtor /\ SendConfig(row, now)
    BY <1>0, <1>3 DEF DeactivateDebtor, Debtor
  <2>2. row.status = "deactivated" /\ row.debtor_info = NoInfo
    BY <1>0 DEF Debtor
  <2> QED  BY <2>1, <2>2, SendPreserves
<1>4. ASSUME NEW now \in ApiTimes, NEW limit \in Limits, RestrictDebtor(limit, now)
      PROVE  InfoInv'
  <2> DEFINE row == [debtor EXCEPT !.limit = limit]
  <2>1. row \in Debtor /\ SendConfig(row, now)
    BY <1>0, <1>4 DEF RestrictDebtor, Debtor
  <2>2. row.status = "active" /\ ~row.deleting /\ row.debtor_info = debtor.debtor_info
    BY <1>0, <1>4 DEF RestrictDebtor, Debtor, InfoInv, Configured
  <2> QED  BY <2>1, <2>2, SendPreserves
<1>5. ASSUME NEW now \in ApiTimes, NEW data \in ConfigData, NEW elapsed \in BOOLEAN,
             UpdateConfig(data, debtor.latest_update_id + 1, elapsed, now)
      PROVE  InfoInv'
  <2> DEFINE row == [Throttled(elapsed) EXCEPT !.config_data = data,
                                               !.latest_update_id = debtor.latest_update_id + 1]
  <2>1. ThrottleAllows(elapsed) /\ SendConfig(row, now)
    BY <1>5 DEF UpdateConfig
  <2>2. Throttled(elapsed) \in Debtor /\ debtor.latest_update_id + 1 \in Nat
    BY <2>1, <1>0, ThrottledType DEF InfoInv, Debtor
  <2>3. row \in Debtor
    BY <2>2 DEF Debtor
  <2>4. row.status = "active" /\ ~row.deleting /\ row.debtor_info = debtor.debtor_info
    BY <2>1, <1>0 DEF ThrottleAllows, Throttled, Debtor, InfoInv, Configured
  <2> QED  BY <2>1, <2>3, <2>4, SendPreserves
<1>6. ASSUME NEW data \in ConfigData, NEW elapsed \in BOOLEAN,
             RepeatUpdate(data, debtor.latest_update_id, elapsed)
      PROVE  InfoInv'
  <2>1. ThrottleAllows(elapsed) /\ ChangeRow(Throttled(elapsed))
    BY <1>6 DEF RepeatUpdate
  <2>2. Throttled(elapsed) \in Debtor
    BY <2>1, ThrottledType DEF InfoInv
  <2>3. /\ ConfigOf(Throttled(elapsed)) = ConfigOf(debtor)
        /\ Throttled(elapsed).status = debtor.status
        /\ Throttled(elapsed).deleting = debtor.deleting
        /\ Throttled(elapsed).debtor_info = debtor.debtor_info
    BY <1>0 DEF Throttled, ConfigOf, Debtor
  <2> QED  BY <2>1, <2>2, <2>3, ChangePreserves DEF ChangeRow, authorityVars
<1>7. CASE SetConfigError
  <2> DEFINE row == [debtor EXCEPT !.config_error = NotEffectual]
  <2>1. row \in Debtor /\ ChangeRow(row)
    BY <1>0, <1>7 DEF SetConfigError, Debtor
  <2>2. /\ ConfigOf(row) = ConfigOf(debtor) /\ row.status = debtor.status
        /\ row.deleting = debtor.deleting /\ row.debtor_info = debtor.debtor_info
    BY <1>0 DEF ConfigOf, Debtor
  <2> QED  BY <2>1, <2>2, ChangePreserves DEF ChangeRow, authorityVars
<1> QED  BY <1>1, <1>2, <1>3, <1>4, <1>5, <1>6, <1>7 DEF Api

\* The consumer's handlers keep the invariant: what is adopted as information
\* is the data of the present configuration, which has been sent.
LEMMA ConsumerKeepsInfo ==
  ASSUME InfoInv,
         \/ \E now \in ConsumerTimes : ConsumeUpdate(now)
         \/ ConsumeRejection \/ ConsumePurge
  PROVE  InfoInv'
<1> USE DEF IsActive
<1>0. debtor \in Debtor
  BY DEF InfoInv, TypeOK
<1>1. ASSUME NEW m \in account_updates, AdoptUpdate(m)
      PROVE  InfoInv'
  <2>1. m \in AccountUpdate
    BY <1>1 DEF InfoInv, TypeOK
  <2>2. InfoOf(m.config.config_data) \in ConfigData \cup {NoInfo}
    BY <2>1 DEF AccountUpdate, AccountConfig, Config, ForeignConfig, InfoOf
  <2>3. /\ debtor'.status = "active" /\ debtor' \in Debtor
        /\ ConfigOf(debtor') = ConfigOf(debtor) /\ debtor'.deleting = debtor.deleting
        /\ UNCHANGED <<reservation_seq, configure_signals, authorityVars>>
    BY <1>0, <1>1, <2>1, <2>2 DEF AdoptUpdate, ChangeRow, IsEffectual, Debtor, AccountUpdate, ConfigOf
  <2>4. TypeOK' /\ Configured'
    BY <1>1, <2>3 DEF InfoInv, TypeOK, Configured, authorityVars, AdoptUpdate, ConfigOf
  <2>5. ConfigOf(debtor) \in OwnSignals /\ ~ConfigOf(debtor).deleting
    BY <1>1 DEF AdoptUpdate, InfoInv, Configured, ConfigOf, OwnSignals, IsDiscarded
  <2>6. OwnSignals' = OwnSignals
    BY <2>3 DEF OwnSignals
  <2>7. debtor'.debtor_info \in {NoInfo, debtor.debtor_info, ConfigOf(debtor).config_data}
    BY <1>0, <1>1 DEF InfoOf, AdoptUpdate, ChangeRow, IsEffectual, Debtor
  <2>8. InfoIsOwn'
    BY <2>3, <2>5, <2>6, <2>7 DEF InfoInv, InfoIsOwn
  <2> QED  BY <2>4, <2>8 DEF InfoInv
<1>2. ASSUME NEW now \in ConsumerTimes, NEW m \in account_updates, DiscardOrphan(m, now)
      PROVE  InfoInv'
  <2>1. DiscardSignal(now) \in Config
    BY DEF DiscardSignal, Config, Timestamps, Seqnums
  <2>2. UNCHANGED debtor /\ configure_signals \subseteq configure_signals' /\ TypeOK'
    BY <1>2, <2>1 DEF DiscardOrphan, InfoInv, TypeOK, authorityVars
  <2> QED  BY <2>2, OthersPreserve
<1>3. ASSUME NEW m \in rejected_configs, ProcessRejectedConfig(m)
      PROVE  InfoInv'
  <2> DEFINE row == [debtor EXCEPT !.config_error = Rejected]
  <2>1. row \in Debtor /\ ChangeRow(row)
    BY <1>0, <1>3 DEF ProcessRejectedConfig, Debtor
  <2>2. /\ ConfigOf(row) = ConfigOf(debtor) /\ row.status = debtor.status
        /\ row.deleting = debtor.deleting /\ row.debtor_info = debtor.debtor_info
    BY <1>0 DEF ConfigOf, Debtor
  <2> QED  BY <2>1, <2>2, ChangePreserves DEF ChangeRow, authorityVars
<1>4. ASSUME NEW creation_date \in purges, ProcessAccountPurge(creation_date)
      PROVE  InfoInv'
  <2>1. debtor' \in {debtor, [debtor EXCEPT !.has_server_account = FALSE,
                                            !.is_config_effectual = FALSE]}
    BY <1>4 DEF ProcessAccountPurge
  <2>2. /\ debtor' \in Debtor
        /\ ConfigOf(debtor') = ConfigOf(debtor) /\ debtor'.status = debtor.status
        /\ debtor'.deleting = debtor.deleting /\ debtor'.debtor_info = debtor.debtor_info
    BY <1>0, <2>1 DEF ConfigOf, Debtor
  <2> QED  BY <1>4, <2>2, ChangePreserves DEF ProcessAccountPurge
<1> QED
  BY <1>1, <1>2, <1>3, <1>4
     DEF ConsumeUpdate, ProcessAccountUpdate, ConsumeRejection, ConsumePurge

\* The authority does not touch the row.
LEMMA AuthorityKeepsInfo ==
  ASSUME InfoInv,
         AuthorityConfigures \/ AuthorityReports \/ AccountChanges \/ AuthorityPurges
  PROVE  InfoInv'
<1> USE DEF InfoInv, TypeOK
<1>1. UNCHANGED debtor /\ configure_signals \subseteq configure_signals'
  BY DEF AuthorityConfigures, AuthorityApplies, AuthorityRefuses, AuthorityReports,
         AccountChanges, AuthorityPurges
<1>0. account \in Account
  OBVIOUS
<1>2. CASE AuthorityConfigures
  <2>1. PICK s \in configure_signals : AuthorityApplies(s) \/ AuthorityRefuses(s)
    BY <1>2 DEF AuthorityConfigures
  <2>2. s \in AccountConfig
    BY DEF AccountConfig
  <2>3. account' \in Account
    <3>1. CASE AuthorityApplies(s) /\ account.open = TRUE
      <4>1. account' = [account EXCEPT !.config = s, !.change = @ + 1]
        BY <3>1, Zenon DEF AuthorityApplies
      <4>2. account.change + 1 \in Nat
        BY <1>0 DEF Account
      <4> QED  BY <1>0, <2>2, <4>1, <4>2 DEF Account
    <3>2. CASE AuthorityApplies(s) /\ account.open = FALSE
      BY <1>0, <2>2, <3>2 DEF AuthorityApplies, Account
    <3>3. CASE AuthorityRefuses(s)
      BY <1>0, <3>3 DEF AuthorityRefuses
    <3> QED  BY <1>0, <2>1, <3>1, <3>2, <3>3 DEF Account
  <2>4. /\ rejected_configs' \subseteq configure_signals
        /\ UNCHANGED <<debtor, reservation_seq, configure_signals, account_updates, purges>>
    BY <2>1 DEF AuthorityApplies, AuthorityRefuses
  <2>5. TypeOK'
    BY <2>3, <2>4
  <2> QED  BY <1>1, <2>5, OthersPreserve
<1>3. CASE AuthorityReports
  <2>1. [creation_date |-> account.creation_date, change |-> account.change,
         config |-> account.config] \in AccountUpdate
    BY <1>0 DEF AccountUpdate, Account
  <2>2. TypeOK'
    BY <1>3, <2>1 DEF AuthorityReports
  <2> QED  BY <1>1, <2>2, OthersPreserve
<1>4. CASE AccountChanges \/ AuthorityPurges
  <2>1. account' \in Account
    <3>1. CASE AccountChanges
      <4>1. account' = [account EXCEPT !.change = @ + 1]
        BY <3>1 DEF AccountChanges
      <4>2. account.change + 1 \in Nat
        BY <1>0 DEF Account
      <4> QED  BY <1>0, <4>1, <4>2 DEF Account
    <3>2. CASE AuthorityPurges
      <4>1. account' = [account EXCEPT !.open = FALSE]
        BY <3>2 DEF AuthorityPurges
      <4> QED  BY <1>0, <4>1 DEF Account
    <3> QED  BY <1>4, <3>1, <3>2
  <2>2. purges' \subseteq Nat
    BY <1>4, <1>0 DEF AccountChanges, AuthorityPurges, Account
  <2>3. UNCHANGED <<debtor, reservation_seq, configure_signals, account_updates, rejected_configs>>
    BY <1>4 DEF AccountChanges, AuthorityPurges
  <2>4. TypeOK'
    BY <2>1, <2>2, <2>3
  <2> QED  BY <1>1, <2>4, OthersPreserve
<1> QED  BY <1>2, <1>3, <1>4

LEMMA InfoStep == InfoInv /\ [Next]_vars => InfoInv'
<1> SUFFICES ASSUME InfoInv, [Next]_vars PROVE InfoInv'
  OBVIOUS
<1>1. CASE UNCHANGED vars
  <2>1. UNCHANGED debtor /\ configure_signals \subseteq configure_signals' /\ TypeOK'
    BY <1>1 DEF vars, authorityVars, InfoInv, TypeOK
  <2> QED  BY <2>1, OthersPreserve
<1>2. CASE Next
  BY <1>2, ApiKeepsInfo, ConsumerKeepsInfo, AuthorityKeepsInfo DEF Next
<1> QED  BY <1>1, <1>2

\* The invariant holds in every reachable state.
LEMMA InfoInductive == Spec => []InfoInv
  BY InfoInit, InfoStep, PTL DEF Spec

-----------------------------------------------------------------------------
\* The row, the signals and the messages keep their types, and the monthly
\* counter its limit.
THEOREM AccountsTypeCorrect == Spec => []TypeOK
  BY InfoInductive, PTL DEF InfoInv

\* Only information the debtor itself has configured is ever published, and
\* only while the debtor is active: not the data of an account left over from
\* another debtor, and nothing after deactivation.
THEOREM OnlyOwnInfo == Spec => []InfoIsOwn
  BY InfoInductive, PTL DEF InfoInv

-----------------------------------------------------------------------------
(* The order of configurations.  CurrentConfigWins compares the present    *)
(* configuration with each that has been sent; what is inductive is that   *)
(* their numbers count them, while their times never go back.              *)

\* Numbers are not reused: the debtor sends fewer than half a cycle of them.
ShortCycle == 2 * MaxSignals < SeqnumModulus

SentInOrder ==
  /\ IsFiniteSet(OwnSignals)
  /\ Cardinality(OwnSignals) <= MaxSignals
  /\ debtor.last_config_seqnum = Cardinality(OwnSignals)
  /\ debtor.status \in {"none", "reserved"} => OwnSignals = {}
  /\ \A s \in OwnSignals :
       /\ s.ts <= debtor.last_config_ts
       /\ s.seqnum <= debtor.last_config_seqnum
       /\ s.seqnum = debtor.last_config_seqnum => s = ConfigOf(debtor)

OrderInv == InfoInv /\ SentInOrder

LEMMA OrderInit == Init => OrderInv
<1> SUFFICES ASSUME Init PROVE SentInOrder
  BY InfoInit DEF OrderInv
<1>1. OwnSignals = {}
  BY DEF Init, OwnSignals
<1>2. debtor.last_config_seqnum = 0
  BY DEF Init, NoRow, NewRow
<1> QED  BY <1>1, <1>2, FS_EmptySet DEF SentInOrder

\* The configuration just sent gets the next number and a time that is not
\* before the others, whatever the clock reads.
LEMMA SendKeepsOrder ==
  ASSUME ShortCycle, OrderInv, NEW row \in Debtor, NEW now \in ApiTimes, SendConfig(row, now),
         row.last_config_ts = debtor.last_config_ts,
         row.last_config_seqnum = debtor.last_config_seqnum,
         row.status \in {"active", "deactivated"}
  PROVE  SentInOrder'
<1> DEFINE sent == ConfigOf(Stamped(row, now))
           n == Cardinality(OwnSignals)
<1>1. /\ debtor' = Stamped(row, now)
      /\ configure_signals' = configure_signals \cup {sent}
      /\ n < MaxSignals
  BY DEF SendConfig
<1>2. n \in Nat /\ IsFiniteSet(OwnSignals)
  BY FS_CardinalityType DEF OrderInv, SentInOrder
<1>3. sent.ts = NextTs(row, now) /\ sent.seqnum = n + 1
  <2>1. row.last_config_seqnum = n
    BY DEF OrderInv, SentInOrder
  <2>2. (n + 1) % SeqnumModulus = n + 1
    BY <1>1, <1>2 DEF ShortCycle
  <2> QED  BY <2>1, <2>2 DEF ConfigOf, Stamped, Debtor
<1>4. debtor'.last_config_ts = sent.ts /\ debtor'.last_config_seqnum = sent.seqnum
  BY <1>1 DEF ConfigOf
<1>5. debtor.last_config_ts <= sent.ts
  BY <1>3 DEF NextTs, Larger, Debtor, Timestamps, TS0
<1>6. sent.negligible_amount \in Limits
  BY DEF ConfigOf, Stamped, Debtor
<1>7. OwnSignals' = OwnSignals \cup {sent}
  BY <1>1, <1>6 DEF OwnSignals, IsDiscarded
<1>8. /\ \A s \in OwnSignals : s.ts <= debtor.last_config_ts /\ s.seqnum <= n
      /\ \A s \in OwnSignals : s.ts \in Nat /\ s.seqnum \in Nat
      /\ debtor.last_config_ts \in Nat /\ sent.ts \in Nat
  <2>1. OwnSignals \subseteq Config /\ debtor \in Debtor /\ sent \in Config
    BY StampedType DEF OrderInv, InfoInv, TypeOK, OwnSignals
  <2>2. \A c \in Config : c.ts \in Nat /\ c.seqnum \in Nat
    BY DEF Config, Timestamps, Seqnums, TS0
  <2> QED  BY <2>1, <2>2 DEF OrderInv, SentInOrder, Debtor, Timestamps, TS0
<1>9. ConfigOf(debtor)' = sent /\ debtor'.status \notin {"none", "reserved"}
  BY <1>1, StampedType
<1> HIDE DEF sent, n
<1>10. sent \notin OwnSignals
  BY <1>2, <1>3, <1>8
<1>11. /\ IsFiniteSet(OwnSignals') /\ Cardinality(OwnSignals') = n + 1
  BY <1>2, <1>7, <1>10, FS_AddElement DEF n
<1>12. \A s \in OwnSignals' :
         /\ s.ts <= sent.ts /\ s.seqnum <= sent.seqnum
         /\ s.seqnum = sent.seqnum => s = sent
  BY <1>2, <1>3, <1>5, <1>7, <1>8
<1> QED
  BY <1>1, <1>2, <1>3, <1>4, <1>9, <1>11, <1>12 DEF SentInOrder

\* Other steps leave the configurations that the debtor has sent alone.
LEMMA OtherKeepsOrder ==
  ASSUME SentInOrder, OwnSignals' = OwnSignals, ConfigOf(debtor)' = ConfigOf(debtor),
         debtor'.status = debtor.status
  PROVE  SentInOrder'
<1>1. /\ debtor'.last_config_seqnum = debtor.last_config_seqnum
      /\ debtor'.last_config_ts = debtor.last_config_ts
  BY DEF ConfigOf
<1> QED  BY <1>1 DEF SentInOrder

LEMMA OrderStep == ASSUME ShortCycle, OrderInv, [Next]_vars PROVE OrderInv'
<1> USE DEF IsActive
<1>0. debtor \in Debtor /\ InfoInv'
  <2>1. InfoInv /\ [Next]_vars => InfoInv'
    BY InfoStep
  <2> QED  BY <2>1 DEF OrderInv, InfoInv, TypeOK
<1> SUFFICES SentInOrder'
  BY <1>0 DEF OrderInv
<1>1. CASE ReserveDebtor \/ DeleteNotActivated
  <2>1. /\ OwnSignals = {} /\ OwnSignals' = OwnSignals
        /\ debtor'.last_config_seqnum = 0
    BY <1>1 DEF ReserveDebtor, DeleteNotActivated, ChangeRow, OrderInv, SentInOrder,
                OwnSignals, NoRow, NewRow
  <2> QED  BY <2>1, FS_EmptySet DEF SentInOrder
<1>2. ASSUME NEW now \in ApiTimes, NEW reservation \in 1 .. reservation_seq,
             ActivateDebtor(reservation, now)
      PROVE  SentInOrder'
  <2> DEFINE row == [debtor EXCEPT !.status = "active"]
  <2>1. row \in Debtor /\ SendConfig(row, now)
    BY <1>0, <1>2 DEF ActivateDebtor, Debtor
  <2>2. /\ row.last_config_ts = debtor.last_config_ts /\ row.status = "active"
        /\ row.last_config_seqnum = debtor.last_config_seqnum
    BY <1>0 DEF Debtor
  <2> QED  BY <2>1, <2>2, SendKeepsOrder
<1>3. ASSUME NEW now \in ApiTimes, DeactivateDebtor(now)
      PROVE  SentInOrder'
  <2> DEFINE row == [debtor EXCEPT !.status = "deactivated", !.is_config_effectual = TRUE,
                               !.deleting = TRUE, !.config_data = EmptyData,
                               !.config_error = NoError, !.debtor_info = NoInfo]
  <2>1. row \in Debtor /\ SendConfig(row, now)
    BY <1>0, <1>3 DEF DeactivateDebtor, Debtor
  <2>2. /\ row.last_config_ts = debtor.last_config_ts /\ row.status = "deactivated"
        /\ row.last_config_seqnum = debtor.last_config_seqnum
    BY <1>0 DEF Debtor
  <2> QED  BY <2>1, <2>2, SendKeepsOrder
<1>4. ASSUME NEW now \in ApiTimes, NEW limit \in Limits, RestrictDebtor(limit, now)
      PROVE  SentInOrder'
  <2> DEFINE row == [debtor EXCEPT !.limit = limit]
  <2>1. row \in Debtor /\ SendConfig(row, now)
    BY <1>0, <1>4 DEF RestrictDebtor, Debtor
  <2>2. /\ row.last_config_ts = debtor.last_config_ts /\ row.status = "active"
        /\ row.last_config_seqnum = debtor.last_config_seqnum
    BY <1>0, <1>4 DEF RestrictDebtor, Debtor
  <2> QED  BY <2>1, <2>2, SendKeepsOrder
<1>5. ASSUME NEW now \in ApiTimes, NEW data \in ConfigData, NEW elapsed \in BOOLEAN,
             UpdateConfig(data, debtor.latest_update_id + 1, elapsed, now)
      PROVE  SentInOrder'
  <2> DEFINE row == [Throttled(elapsed) EXCEPT !.config_data = data,
                                               !.latest_update_id = debtor.latest_update_id + 1]
  <2>1. ThrottleAllows(elapsed) /\ SendConfig(row, now)
    BY <1>5 DEF UpdateConfig
  <2>2. Throttled(elapsed) \in Debtor /\ debtor.latest_update_id + 1 \in Nat
    BY <2>1, <1>0, ThrottledType DEF OrderInv, InfoInv, Debtor
  <2>3. row \in Debtor
    BY <2>2 DEF Debtor
  <2>4. /\ row.last_config_ts = debtor.last_config_ts /\ row.status = "active"
        /\ row.last_config_seqnum = debtor.last_config_seqnum
    BY <2>1, <1>0 DEF ThrottleAllows, Throttled, Debtor
  <2> QED  BY <2>1, <2>3, <2>4, SendKeepsOrder
<1>6. ASSUME OwnSignals' = OwnSignals, ConfigOf(debtor)' = ConfigOf(debtor),
             debtor'.status = debtor.status
      PROVE  SentInOrder'
  BY <1>6, OtherKeepsOrder DEF OrderInv
<1>7. ASSUME UNCHANGED configure_signals,
             \/ \E data \in ConfigData, elapsed \in BOOLEAN :
                  RepeatUpdate(data, debtor.latest_update_id, elapsed)
             \/ SetConfigError
             \/ \E m \in account_updates : AdoptUpdate(m)
             \/ ConsumeRejection \/ ConsumePurge
      PROVE  SentInOrder'
  <2>1. ConfigOf(debtor)' = ConfigOf(debtor) /\ debtor'.status = debtor.status
    <3>1. CASE \E data \in ConfigData, elapsed \in BOOLEAN :
                 RepeatUpdate(data, debtor.latest_update_id, elapsed)
      BY <1>0, <3>1 DEF RepeatUpdate, Throttled, ChangeRow, ConfigOf, Debtor
    <3>2. CASE SetConfigError
      BY <1>0, <3>2 DEF SetConfigError, ChangeRow, ConfigOf, Debtor
    <3>3. CASE \E m \in account_updates : AdoptUpdate(m)
      BY <1>0, <3>3 DEF AdoptUpdate, ChangeRow, ConfigOf, Debtor
    <3>4. CASE ConsumeRejection
      BY <1>0, <3>4 DEF ConsumeRejection, ProcessRejectedConfig, ChangeRow, ConfigOf, Debtor
    <3>5. CASE ConsumePurge
      BY <1>0, <3>5 DEF ConsumePurge, ProcessAccountPurge, ChangeRow, ConfigOf, Debtor
    <3> QED  BY <1>7, <3>1, <3>2, <3>3, <3>4, <3>5
  <2> QED  BY <1>6, <1>7, <2>1 DEF OwnSignals
<1>8. ASSUME NEW now \in ConsumerTimes, NEW m \in account_updates, DiscardOrphan(m, now)
      PROVE  SentInOrder'
  <2>1. OwnSignals' = OwnSignals
    BY <1>8 DEF DiscardOrphan, OwnSignals, IsDiscarded, DiscardSignal
  <2> QED  BY <1>6, <1>8, <2>1 DEF DiscardOrphan, ConfigOf
<1>9. CASE \/ AuthorityConfigures \/ AuthorityReports \/ AccountChanges \/ AuthorityPurges
           \/ UNCHANGED vars
  <2>1. UNCHANGED <<debtor, configure_signals>>
    BY <1>9 DEF AuthorityConfigures, AuthorityApplies, AuthorityRefuses, AuthorityReports,
                AccountChanges, AuthorityPurges, vars
  <2> QED  BY <1>6, <2>1 DEF OwnSignals, ConfigOf
<1>10. \/ \E data \in ConfigData, elapsed \in BOOLEAN :
            RepeatUpdate(data, debtor.latest_update_id, elapsed)
       \/ SetConfigError \/ (\E m \in account_updates : AdoptUpdate(m))
       \/ ConsumeRejection \/ ConsumePurge
       => UNCHANGED configure_signals
  BY DEF RepeatUpdate, SetConfigError, AdoptUpdate, ConsumeRejection, ConsumePurge,
         ProcessRejectedConfig, ProcessAccountPurge, ChangeRow
<1> QED
  BY <1>1, <1>2, <1>3, <1>4, <1>5, <1>7, <1>8, <1>9, <1>10
     DEF Next, Api, ConsumeUpdate, ProcessAccountUpdate

\* The present configuration is the newest for the authority, although the
\* clocks may disagree and go back: as long as the debtor sends fewer than
\* half a cycle of sequence numbers (2^31 of them), which is when comparing
\* numbers of a cycle makes sense at all.
THEOREM PresentConfigWins == ASSUME ShortCycle PROVE Spec => []CurrentConfigWins
<1>1. OrderInv => CurrentConfigWins
  <2> SUFFICES ASSUME OrderInv, NEW s \in OwnSignals \ {ConfigOf(debtor)}
               PROVE  Newer(ConfigOf(debtor), s)
    BY DEF CurrentConfigWins
  <2> DEFINE ahead == debtor.last_config_seqnum - s.seqnum
  <2>1. debtor \in Debtor /\ s \in Config
    BY DEF OrderInv, InfoInv, TypeOK, OwnSignals
  <2>2. /\ debtor.last_config_ts \in Nat /\ debtor.last_config_seqnum \in Nat
        /\ s.ts \in Nat /\ s.seqnum \in Nat
    BY <2>1 DEF Debtor, Config, Timestamps, Seqnums, TS0
  <2>3. /\ s.ts <= debtor.last_config_ts /\ s.seqnum < debtor.last_config_seqnum
        /\ debtor.last_config_seqnum <= MaxSignals
    BY <2>2 DEF OrderInv, SentInOrder
  <2>4. ahead \in 1 .. MaxSignals
    BY <2>2, <2>3
  <2>5. ahead % SeqnumModulus = ahead /\ ahead <= (SeqnumModulus - 1) \div 2
    <3> HIDE DEF ahead
    <3> QED  BY <2>4 DEF ShortCycle
  <2>6. SeqLater(debtor.last_config_seqnum, s.seqnum)
    BY <2>4, <2>5 DEF SeqLater
  <2> QED  BY <2>2, <2>3, <2>6 DEF Newer, ConfigOf
<1>2. OrderInv /\ [Next]_vars => OrderInv'
  BY OrderStep
<1> QED  BY <1>1, <1>2, OrderInit, PTL DEF Spec
=============================================================================
