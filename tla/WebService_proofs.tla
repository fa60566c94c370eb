-------------------------- MODULE WebService_proofs ---------------------------
(***************************************************************************)
(* Theorems about the limits of a debtor and the list of debtors.          *)
(* DebtorQuotas, for any periods, maxima, and number of days: how much is  *)
(* permitted, when it is refused, and that the answered locations of       *)
(* documents stay good.  DebtorList, for any debtors, page size and other  *)
(* shard's rows: the pages are sorted, and nobody is skipped.              *)
(***************************************************************************)
EXTENDS DebtorQuotas, DebtorList, FiniteSetTheorems, SequenceTheorems, WellFoundedInduction, TLAPS

-----------------------------------------------------------------------------
(* DebtorQuotas.                                                           *)

\* The counted permissions are the latest ones, of the current period; what is
\* older by more than a maximum is older than a whole period.
QuotaInv(q) ==
  LET log == permitted[q]
      n == Len(permitted[q])
      earlier == Len(permitted[q]) - count[q]
  IN
  /\ log \in Seq(Days)
  /\ count[q] \in 0 .. Maximum[q] /\ count[q] <= n
  /\ reset_date[q] \in Days /\ reset_date[q] <= today
  /\ \A i \in 1 .. n : log[i] <= today
  /\ \A i \in 1 .. n : i > earlier => reset_date[q] <= log[i]
  /\ \A i \in 1 .. n : i <= earlier => log[i] <= reset_date[q]
  /\ \A i \in 1 .. n : i <= earlier - Maximum[q] => log[i] + Period[q] < reset_date[q]

\* AtMostTwicePerPeriod, for one quota.
Spread(q) ==
  \A i, j \in 1 .. Len(permitted[q]) :
    j - i >= 2 * Maximum[q] => permitted[q][j] - permitted[q][i] > Period[q]

StateInv ==
  /\ today \in Days
  /\ count \in [Quotas -> Nat]
  /\ reset_date \in [Quotas -> Days]
  /\ permitted \in [Quotas -> Seq(Days)]
  /\ \A q \in Quotas : QuotaInv(q) /\ Spread(q)

DocumentsInv ==
  /\ documents \in Seq(Contents)
  /\ \A a \in answers :
       /\ a \in [id : Nat, content : Contents]
       /\ a.id \in 1 .. Len(documents) /\ documents[a.id] = a.content

QuotasInv == active \in BOOLEAN /\ StateInv /\ DocumentsInv

LEMMA Limits ==
  \A q \in Quotas : Period[q] \in Nat /\ Maximum[q] \in Nat /\ Maximum[q] >= 1
<1>1. Period["actions"] \in Nat /\ Period["documents"] \in Nat
  BY LimitsAssumption DEF Period
<1>2. Maximum["actions"] \in Nat \ {0} /\ Maximum["documents"] \in Nat \ {0}
  BY LimitsAssumption DEF Maximum
<1> QED
  BY <1>1, <1>2 DEF Quotas

LEMMA InitQuotasInv == Init => QuotasInv
<1> SUFFICES ASSUME Init PROVE QuotasInv
  OBVIOUS
<1>1. 0 \in Days
  BY DaysAssumption DEF Days
<1>2. \A q \in Quotas : permitted[q] = <<>> /\ count[q] = 0 /\ reset_date[q] = 0
  BY DEF Init
<1>3. \A q \in Quotas : QuotaInv(q) /\ Spread(q)
  BY <1>1, <1>2, Limits DEF Init, QuotaInv, Spread
<1>4. StateInv
  BY <1>1, <1>3 DEF Init, StateInv
<1> QED
  BY <1>4 DEF Init, QuotasInv, DocumentsInv

\* Time alone disturbs nothing.
LEMMA Unused ==
  ASSUME NEW q \in Quotas, QuotaInv(q), Spread(q), today \in Days, today' \in Days, today' >= today,
         permitted'[q] = permitted[q], count'[q] = count[q], reset_date'[q] = reset_date[q]
  PROVE  QuotaInv(q)' /\ Spread(q)'
<1>1. Days \subseteq Int
  BY DEF Days
<1>2. permitted[q] \in Seq(Days) /\ \A i \in 1 .. Len(permitted[q]) : permitted[q][i] \in Int
  BY <1>1 DEF QuotaInv
<1>3. reset_date[q] \in Int /\ today \in Int /\ today' \in Int
  BY <1>1 DEF QuotaInv
<1>4. Spread(q)'
  BY DEF Spread
<1> QED
  BY <1>2, <1>3, <1>4 DEF QuotaInv

\* A permitted use of a quota, with or without a new period.
LEMMA Used ==
  ASSUME NEW q \in Quotas, StateInv, Throttle(q), today' = today
  PROVE  /\ QuotaInv(q)' /\ Spread(q)'
         /\ \A x \in Quotas \ {q} : /\ permitted'[x] = permitted[x] /\ count'[x] = count[x]
                                    /\ reset_date'[x] = reset_date[x]
         /\ count' \in [Quotas -> Nat] /\ reset_date' \in [Quotas -> Days]
         /\ permitted' \in [Quotas -> Seq(Days)]
<1> DEFINE log == permitted[q]
           n == Len(log)
           P == Period[q]
           M == Maximum[q]
<1>1. P \in Nat /\ M \in Nat /\ M >= 1
  BY Limits
<1>2. /\ QuotaInv(q) /\ Spread(q) /\ today \in Days /\ today \in Int
      /\ log \in Seq(Days) /\ n \in Nat /\ count[q] \in Nat /\ reset_date[q] \in Int
      /\ \A i \in 1 .. n : log[i] \in Int
  <2>1. Days \subseteq Int
    BY DEF Days
  <2>2. QuotaInv(q) /\ Spread(q) /\ today \in Days /\ log \in Seq(Days)
        /\ count[q] \in Nat /\ reset_date[q] \in Days
    BY DEF StateInv
  <2>3. n \in Nat /\ \A i \in 1 .. n : log[i] \in Days
    BY <2>2
  <2> QED
    BY <2>1, <2>2, <2>3
<1>3. /\ permitted'[q] = Append(log, today)
      /\ count'[q] = CurrentCount(q) + 1
      /\ reset_date'[q] = IF IsOver(q) THEN today ELSE reset_date[q]
      /\ CurrentCount(q) < M
  <2>1. /\ permitted' = [permitted EXCEPT ![q] = Append(log, today)]
        /\ count' = [count EXCEPT ![q] = CurrentCount(q) + 1]
        /\ reset_date' = [reset_date EXCEPT ![q] = IF IsOver(q) THEN today ELSE reset_date[q]]
        /\ ~(CurrentCount(q) >= M)
    BY DEF Throttle, IsRefused
  <2>2. CurrentCount(q) \in Nat
    BY <1>2 DEF CurrentCount
  <2> QED
    BY <1>1, <2>1, <2>2 DEF StateInv
<1>4. /\ Len(permitted'[q]) = n + 1
      /\ permitted'[q][n + 1] = today
      /\ \A i \in 1 .. n : permitted'[q][i] = log[i]
      /\ permitted'[q] \in Seq(Days)
  BY <1>2, <1>3
<1>5. ASSUME ~IsOver(q) PROVE QuotaInv(q)' /\ Spread(q)'
  <2>1. count'[q] = count[q] + 1 /\ count[q] < M /\ reset_date'[q] = reset_date[q]
    BY <1>3, <1>5 DEF CurrentCount
  <2>2. QuotaInv(q)'
    <3>1. /\ count'[q] \in 0 .. M /\ count'[q] <= n + 1
          /\ reset_date'[q] \in Days /\ reset_date'[q] <= today'
      BY <1>1, <1>2, <2>1 DEF QuotaInv
    <3>2. \A i \in 1 .. n + 1 : permitted'[q][i] <= today'
      BY <1>2, <1>4 DEF QuotaInv
    <3>3. \A i \in 1 .. n + 1 : i > n - count[q] => reset_date[q] <= permitted'[q][i]
      BY <1>2, <1>4 DEF QuotaInv
    <3>4. \A i \in 1 .. n + 1 : i <= n - count[q] => permitted'[q][i] <= reset_date[q]
      BY <1>2, <1>4 DEF QuotaInv
    <3>5. \A i \in 1 .. n + 1 : i <= n - count[q] - M => permitted'[q][i] + P < reset_date[q]
      BY <1>1, <1>2, <1>4 DEF QuotaInv
    <3>6. (n + 1) - count'[q] = n - count[q]
      BY <1>2, <2>1
    <3> QED
      BY <1>4, <2>1, <3>1, <3>2, <3>3, <3>4, <3>5, <3>6 DEF QuotaInv
  <2>3. ASSUME NEW i \in 1 .. n, n + 1 - i >= 2 * M PROVE today - log[i] > P
    <3>1. i <= n - count[q] - M
      <4>1. count[q] + 1 <= M /\ count[q] \in Nat /\ M \in Nat
        BY <1>1, <1>2, <2>1
      <4>2. n + 1 - i >= M + M /\ n \in Nat /\ i \in Nat
        BY <1>1, <1>2, <2>3
      <4> QED
        BY <4>1, <4>2
    <3>2. log[i] + P < reset_date[q]
      BY <1>2, <3>1 DEF QuotaInv
    <3>3. reset_date[q] <= today
      BY <1>2 DEF QuotaInv
    <3>4. log[i] \in Int /\ today \in Int /\ reset_date[q] \in Int /\ P \in Int
      BY <1>1, <1>2
    <3> HIDE DEF log, P
    <3> QED
      BY <3>2, <3>3, <3>4
  <2>4. Spread(q)'
    <3>1. ASSUME NEW i \in 1 .. n + 1, NEW j \in 1 .. n + 1, j - i >= 2 * M
          PROVE permitted'[q][j] - permitted'[q][i] > P
      <4>1. i \in 1 .. n
        BY <1>1, <1>2, <3>1
      <4>2. CASE j \in 1 .. n
        BY <1>2, <1>4, <3>1, <4>1, <4>2 DEF Spread
      <4>3. CASE j = n + 1
        BY <1>4, <2>3, <3>1, <4>1, <4>3
      <4> QED
        BY <1>2, <4>2, <4>3
    <3> QED
      BY <1>4, <3>1 DEF Spread
  <2> QED
    BY <2>2, <2>4
<1>6. ASSUME IsOver(q) PROVE QuotaInv(q)' /\ Spread(q)'
  <2>1. count'[q] = 1 /\ reset_date'[q] = today /\ today - reset_date[q] > P
    BY <1>3, <1>6 DEF CurrentCount, IsOver
  <2>2. ASSUME NEW i \in 1 .. n, i <= n - M PROVE log[i] + P < today
    <3>1. i <= n - count[q] /\ log[i] <= reset_date[q]
      BY <1>1, <1>2, <2>2 DEF QuotaInv
    <3> QED
      BY <1>1, <1>2, <2>1, <3>1
  <2>3. QuotaInv(q)'
    <3>1. /\ count'[q] \in 0 .. M /\ count'[q] <= n + 1
          /\ reset_date'[q] \in Days /\ reset_date'[q] <= today'
      BY <1>1, <1>2, <2>1
    <3>2. \A i \in 1 .. n + 1 : permitted'[q][i] <= today'
      BY <1>2, <1>4 DEF QuotaInv
    <3>3. \A i \in 1 .. n + 1 : i > n => today <= permitted'[q][i]
      BY <1>2, <1>4
    <3>4. \A i \in 1 .. n + 1 : i <= n - M => permitted'[q][i] + P < today
      BY <1>1, <1>2, <1>4, <2>2
    <3>5. (n + 1) - count'[q] = n
      BY <1>2, <2>1
    <3> QED
      BY <1>4, <2>1, <3>1, <3>2, <3>3, <3>4, <3>5 DEF QuotaInv
  <2>4. ASSUME NEW i \in 1 .. n, n + 1 - i >= 2 * M PROVE today - log[i] > P
    <3>1. i <= n - M
      BY <1>1, <1>2, <2>4
    <3>2. log[i] + P < today
      BY <2>2, <3>1
    <3> QED
      BY <1>1, <1>2, <3>2
  <2>5. Spread(q)'
    <3>1. ASSUME NEW i \in 1 .. n + 1, NEW j \in 1 .. n + 1, j - i >= 2 * M
          PROVE permitted'[q][j] - permitted'[q][i] > P
      <4>1. i \in 1 .. n
        BY <1>1, <1>2, <3>1
      <4>2. CASE j \in 1 .. n
        BY <1>2, <1>4, <3>1, <4>1, <4>2 DEF Spread
      <4>3. CASE j = n + 1
        BY <1>4, <2>4, <3>1, <4>1, <4>3
      <4> QED
        BY <1>2, <4>2, <4>3
    <3> QED
      BY <1>4, <3>1 DEF Spread
  <2> QED
    BY <2>3, <2>5
<1>7. /\ \A x \in Quotas \ {q} : /\ permitted'[x] = permitted[x] /\ count'[x] = count[x]
                                 /\ reset_date'[x] = reset_date[x]
      /\ count' \in [Quotas -> Nat] /\ reset_date' \in [Quotas -> Days]
      /\ permitted' \in [Quotas -> Seq(Days)]
  <2>1. CurrentCount(q) + 1 \in Nat
    BY <1>2 DEF CurrentCount
  <2> QED
    BY <1>2, <1>3, <1>4, <2>1 DEF Throttle, StateInv
<1> QED
  BY <1>5, <1>6, <1>7

LEMMA UsedState ==
  ASSUME NEW q \in Quotas, StateInv, Throttle(q), today' = today
  PROVE  StateInv'
<1>1. /\ QuotaInv(q)' /\ Spread(q)'
      /\ \A x \in Quotas \ {q} : /\ permitted'[x] = permitted[x] /\ count'[x] = count[x]
                                 /\ reset_date'[x] = reset_date[x]
      /\ count' \in [Quotas -> Nat] /\ reset_date' \in [Quotas -> Days]
      /\ permitted' \in [Quotas -> Seq(Days)]
  BY Used
<1>2. ASSUME NEW x \in Quotas \ {q} PROVE QuotaInv(x)' /\ Spread(x)'
  <2>1. QuotaInv(x) /\ Spread(x) /\ today \in Days /\ today' \in Days /\ today' >= today
    BY <1>2 DEF StateInv, Days
  <2> QED
    BY <1>1, <1>2, <2>1, Unused
<1> QED
  BY <1>1, <1>2 DEF StateInv

LEMMA QuotasStep == QuotasInv /\ [Next]_vars => QuotasInv'
<1> SUFFICES ASSUME QuotasInv, [Next]_vars PROVE QuotasInv'
  OBVIOUS
<1> USE DEF QuotasInv
<1>1. CASE ManagementAction
  <2>1. StateInv'
    BY <1>1, UsedState DEF ManagementAction, Quotas
  <2> QED
    BY <1>1, <2>1 DEF ManagementAction, DocumentsInv
<1>2. ASSUME NEW content \in Contents, SaveDocument(content) PROVE QuotasInv'
  <2>1. StateInv'
    BY <1>2, UsedState DEF SaveDocument, Quotas
  <2>2. /\ documents' \in Seq(Contents) /\ Len(documents') = Len(documents) + 1
        /\ documents'[Len(documents')] = content
        /\ \A i \in 1 .. Len(documents) : documents'[i] = documents[i]
        /\ Len(documents) \in Nat
    BY <1>2 DEF SaveDocument, DocumentsInv
  <2>3. answers' \subseteq answers \cup {[id |-> Len(documents'), content |-> content]}
    BY <1>2 DEF SaveDocument
  <2>4. DocumentsInv'
    BY <2>2, <2>3 DEF DocumentsInv
  <2> QED
    BY <1>2, <2>1, <2>4 DEF SaveDocument
<1>3. CASE DeactivateDebtor \/ UNCHANGED vars
  BY <1>3 DEF DeactivateDebtor, vars, StateInv, DocumentsInv, QuotaInv, Spread
<1>4. CASE NextDay
  <2>1. today \in Days /\ today' \in Days /\ today' >= today
    BY <1>4, DaysAssumption DEF NextDay, StateInv, Days
  <2>2. ASSUME NEW q \in Quotas PROVE QuotaInv(q)' /\ Spread(q)'
    BY <1>4, <2>1, <2>2, Unused DEF NextDay, StateInv
  <2> QED
    BY <1>4, <2>1, <2>2 DEF NextDay, StateInv, DocumentsInv
<1> QED
  BY <1>1, <1>2, <1>3, <1>4 DEF Next

LEMMA QuotasInvHolds == Spec => []QuotasInv
BY InitQuotasInv, QuotasStep, PTL DEF Spec

\* The counters stay within their maxima, and no reset date is in the future.
THEOREM QuotasTypeCorrect == Spec => []TypeOK
<1>1. QuotasInv => TypeOK
  <2> SUFFICES ASSUME QuotasInv PROVE TypeOK
    OBVIOUS
  <2>1. \A q \in Quotas : count[q] <= Maximum[q] /\ reset_date[q] <= today
    BY Limits DEF QuotasInv, StateInv, QuotaInv
  <2> QED
    BY <2>1 DEF QuotasInv, StateInv, DocumentsInv, TypeOK
<1> QED
  BY <1>1, QuotasInvHolds, PTL

\* A period's worth of days sees at most twice the maximum (procedures.py:658-704).
THEOREM AtMostTwice == Spec => []AtMostTwicePerPeriod
<1>1. QuotasInv => AtMostTwicePerPeriod
  BY DEF QuotasInv, StateInv, Spread, AtMostTwicePerPeriod
<1> QED
  BY <1>1, QuotasInvHolds, PTL

\* Who is refused has used up the maximum lately (procedures.py:674, 696).
THEOREM RefusalsHaveCause == Spec => []RefusedForCause
<1>1. ASSUME QuotasInv, NEW q \in Quotas, IsRefused(q)
      PROVE  /\ Len(permitted[q]) >= Maximum[q]
             /\ permitted[q][Len(permitted[q]) - Maximum[q] + 1] >= today - Period[q]
  <2>1. /\ Period[q] \in Nat /\ Maximum[q] \in Nat /\ Maximum[q] >= 1
        /\ QuotaInv(q) /\ today \in Int /\ reset_date[q] \in Int /\ count[q] \in Nat
        /\ Len(permitted[q]) \in Nat
        /\ \A i \in 1 .. Len(permitted[q]) : permitted[q][i] \in Int
    <3>1. Days \subseteq Int
      BY DEF Days
    <3>2. QuotaInv(q) /\ today \in Days /\ permitted[q] \in Seq(Days)
          /\ count[q] \in Nat /\ reset_date[q] \in Days
      BY <1>1 DEF QuotasInv, StateInv
    <3>3. Len(permitted[q]) \in Nat /\ \A i \in 1 .. Len(permitted[q]) : permitted[q][i] \in Days
      BY <3>2
    <3> QED
      BY <3>1, <3>2, <3>3, Limits
  <2>2. count[q] = Maximum[q] /\ ~IsOver(q)
    BY <1>1, <2>1 DEF IsRefused, CurrentCount, QuotaInv
  <2>3. today - reset_date[q] <= Period[q]
    BY <2>1, <2>2 DEF IsOver
  <2> DEFINE i == Len(permitted[q]) - Maximum[q] + 1
  <2>4. i \in 1 .. Len(permitted[q]) /\ i > Len(permitted[q]) - count[q]
    BY <2>1, <2>2 DEF QuotaInv
  <2>5. reset_date[q] <= permitted[q][i] /\ permitted[q][i] \in Int
    BY <2>1, <2>4 DEF QuotaInv
  <2>6. Len(permitted[q]) >= Maximum[q]
    BY <2>1, <2>2 DEF QuotaInv
  <2>7. permitted[q][i] >= today - Period[q]
    BY <2>1, <2>3, <2>5
  <2> QED
    BY <2>6, <2>7
<1>2. QuotasInv => RefusedForCause
  BY <1>1 DEF RefusedForCause
<1> QED
  BY <1>2, QuotasInvHolds, PTL

\* An answered location keeps its content for ever (models.py:343).
THEOREM AnsweredDocumentsStay == Spec => []DocumentsStay
<1>1. QuotasInv => DocumentsStay
  BY DEF QuotasInv, DocumentsInv, DocumentsStay, GetDocument
<1> QED
  BY <1>1, QuotasInvHolds, PTL

-----------------------------------------------------------------------------
(* DebtorList.                                                             *)

\* The elements of a set that come before one of them; their number is its place.
Below(ids, d) == {x \in ids : x < d}

\* A greater ID has more IDs before it.
LEMMA BelowGrows ==
  ASSUME NEW ids, IsFiniteSet(ids), ids \subseteq Int, NEW d \in ids, NEW e \in Int, d < e
  PROVE  /\ Cardinality(Below(ids, d)) \in Nat /\ Cardinality(Below(ids, e)) \in Nat
         /\ Cardinality(Below(ids, d)) < Cardinality(Below(ids, e))
<1>1. IsFiniteSet(Below(ids, e)) /\ IsFiniteSet(Below(ids, d))
  BY FS_Subset DEF Below
<1>2. Below(ids, d) \subseteq Below(ids, e) /\ Below(ids, d) # Below(ids, e)
  <2>1. d \in Below(ids, e) /\ d \notin Below(ids, d)
    BY DEF Below
  <2>2. \A x \in ids : x < d => x < e
    OBVIOUS
  <2>3. Below(ids, d) \subseteq Below(ids, e)
    BY <2>2 DEF Below
  <2> QED
    BY <2>1, <2>3
<1> DEFINE S == Below(ids, e) T == Below(ids, d)
<1> HIDE DEF S, T
<1>3. Cardinality(T) <= Cardinality(S) /\ Cardinality(T) # Cardinality(S)
  <2>1. IsFiniteSet(S) /\ T \in SUBSET S /\ T # S
    BY <1>1, <1>2 DEF S, T
  <2> QED
    BY <2>1, FS_Subset
<1>4. Cardinality(S) \in Nat /\ Cardinality(T) \in Nat
  BY <1>1, FS_CardinalityType DEF S, T
<1> QED
  BY <1>3, <1>4 DEF S, T

\* From the well-foundedness of strict inclusion on finite sets, as the induction over
\* the cardinality is out of reach: the element with the least set Below it.
LEMMA FiniteHasLeast ==
  ASSUME NEW ids, IsFiniteSet(ids), ids \subseteq Int, ids # {}
  PROVE  \E d \in ids : \A x \in ids : d <= x
<1> DEFINE R == StrictSubsetOrdering(ids)
           F == FiniteSubsetsOf(ids)
           T == {Below(ids, d) : d \in ids}
<1>1. IsWellFoundedOn(R, F)
  BY FS_StrictSubsetOrderingWellFounded
<1>2. T \subseteq F /\ T # {}
  <2>1. F = SUBSET ids
    BY FS_FiniteSubsetsOfFinite
  <2> HIDE DEF F
  <2> QED
    BY <2>1 DEF Below
<1>3. \E s \in T : \A t \in T : ~(<<t, s>> \in R)
  <2> HIDE DEF R, F, T
  <2> QED
    BY <1>1, <1>2, WFMin
<1>4. PICK d \in ids : \A x \in ids : ~(<<Below(ids, x), Below(ids, d)>> \in R)
  BY <1>3
<1>5. ASSUME NEW x \in ids, x < d PROVE FALSE
  <2>0. \A y \in ids : y < x => y < d
    BY <1>5
  <2>1. Below(ids, x) \subseteq Below(ids, d) /\ x \in Below(ids, d) /\ x \notin Below(ids, x)
    <3>1. ~(x < x)
      OBVIOUS
    <3> QED
      BY <1>5, <2>0, <3>1 DEF Below
  <2>2. <<Below(ids, x), Below(ids, d)>> \in R
    BY <2>1 DEF StrictSubsetOrdering, Below
  <2> QED
    BY <1>4, <2>2
<1> QED
  BY <1>5

LEMMA FiniteHasGreatest ==
  ASSUME NEW ids, IsFiniteSet(ids), ids \subseteq Int, ids # {}
  PROVE  \E d \in ids : \A x \in ids : x <= d
<1> DEFINE R == StrictSubsetOrdering(ids)
           F == FiniteSubsetsOf(ids)
           Above(d) == {x \in ids : d < x}
           T == {Above(d) : d \in ids}
<1>1. IsWellFoundedOn(R, F)
  BY FS_StrictSubsetOrderingWellFounded
<1>2. T \subseteq F /\ T # {}
  <2>1. F = SUBSET ids
    BY FS_FiniteSubsetsOfFinite
  <2> HIDE DEF F
  <2> QED
    BY <2>1
<1>3. \E s \in T : \A t \in T : ~(<<t, s>> \in R)
  <2> HIDE DEF R, F, T
  <2> QED
    BY <1>1, <1>2, WFMin
<1>4. PICK d \in ids : \A x \in ids : ~(<<Above(x), Above(d)>> \in R)
  BY <1>3
<1>5. ASSUME NEW x \in ids, d < x PROVE FALSE
  <2>0. \A y \in ids : x < y => d < y
    BY <1>5
  <2>1. Above(x) \subseteq Above(d) /\ x \in Above(d) /\ x \notin Above(x)
    <3>1. ~(x < x)
      OBVIOUS
    <3> QED
      BY <1>5, <2>0, <3>1
  <2>2. <<Above(x), Above(d)>> \in R
    BY <2>1 DEF StrictSubsetOrdering
  <2> QED
    BY <1>4, <2>2
<1> QED
  BY <1>5

\* ORDER BY ... LIMIT n leaves only greater ones out.
LEMMA SmallestAreBelow ==
  ASSUME NEW ids, IsFiniteSet(ids), ids \subseteq Int, NEW n \in Nat,
         NEW d \in Smallest(ids, n), NEW e \in ids \ Smallest(ids, n)
  PROVE  d < e
<1> DEFINE N(x) == Cardinality(Below(ids, x))
<1>1. d \in ids /\ e \in ids /\ N(d) < n /\ ~(N(e) < n)
  BY DEF Smallest, Below
<1>2. d \in Int /\ e \in Int /\ N(d) \in Nat /\ N(e) \in Nat
  <2>1. IsFiniteSet(Below(ids, d)) /\ IsFiniteSet(Below(ids, e))
    BY FS_Subset DEF Below
  <2> QED
    BY <1>1, <2>1, FS_CardinalityType
<1>3. ~(e < d)
  <2> SUFFICES ASSUME e < d PROVE FALSE
    OBVIOUS
  <2>1. N(e) < N(d)
    BY <1>1, <1>2, BelowGrows
  <2> QED
    BY <1>1, <1>2, <2>1
<1>4. e # d
  BY <1>1
<1> QED
  BY <1>2, <1>3, <1>4

\* A set of which more than n elements are asked for, and at most n come, is exhausted.
LEMMA SmallestExhaust ==
  ASSUME NEW ids, IsFiniteSet(ids), ids \subseteq Int, NEW n \in Nat,
         Smallest(Smallest(ids, n + 1), n) = Smallest(ids, n + 1)
  PROVE  Smallest(ids, n + 1) = ids
<1> DEFINE R == Smallest(ids, n + 1)
           rest == ids \ R
<1>1. IsFiniteSet(R) /\ IsFiniteSet(rest) /\ R \subseteq ids
  BY FS_Subset DEF Smallest
<1> SUFFICES ASSUME rest # {} PROVE FALSE
  BY <1>1
<1>2. PICK d \in rest : \A x \in rest : d <= x
  <2> HIDE DEF rest
  <2>1. rest \subseteq Int
    BY DEF rest
  <2> QED
    BY <1>1, <2>1, FiniteHasLeast
<1>3. Below(ids, d) = R
  <2>1. \A x \in R : x < d
    <3>1. PICK k \in Nat : k = n + 1
      OBVIOUS
    <3>2. \A x \in Smallest(ids, k) : \A e \in ids \ Smallest(ids, k) : x < e
      BY SmallestAreBelow
    <3> QED
      BY <1>2, <3>1, <3>2
  <2>2. ASSUME NEW x \in ids, x < d PROVE x \in R
    <3>1. ~(d <= x)
      BY <2>2
    <3> QED
      BY <1>2, <3>1
  <2> QED
    BY <1>1, <2>1, <2>2 DEF Below
<1>4. ~(Cardinality(R) < n + 1) /\ Cardinality(R) \in Nat
  <2>1. ~(Cardinality(Below(ids, d)) < n + 1)
    BY <1>2 DEF Smallest, Below
  <2> QED
    BY <1>1, <1>3, <2>1, FS_CardinalityType
<1> HIDE DEF R
<1>5. R # {}
  BY <1>4, FS_EmptySet
<1>6. PICK r \in R : \A x \in R : x <= r
  BY <1>1, <1>5, FiniteHasGreatest
<1>7. {x \in R : x < r} = R \ {r}
  <2>1. \A x \in R : x \in Int
    BY <1>1
  <2>2. \A x \in R : x < r <=> x # r
    BY <1>6, <2>1
  <2> QED
    BY <2>2
<1>8. Cardinality(R \ {r}) = Cardinality(R) - 1
  BY <1>1, <1>6, FS_RemoveElement
<1>9. Cardinality({x \in R : x < r}) < n
  BY <1>6 DEF R, Smallest
<1> QED
  BY <1>4, <1>7, <1>8, <1>9

-----------------------------------------------------------------------------
(* A page.                                                                 *)

\* All candidates before the next page are on this one.
LEMMA PageFacts ==
  ASSUME status \in [DebtorIds -> Statuses], NEW start \in Int
  PROVE  /\ Page(start) \subseteq Candidates(start)
         /\ NextStart(start) = NoId => Page(start) = Candidates(start)
         /\ NextStart(start) # NoId =>
              /\ NextStart(start) \in DebtorIds /\ start <= NextStart(start)
              /\ \A d \in Page(start) : d < NextStart(start)
              /\ \A d \in Candidates(start) : d < NextStart(start) => d \in Page(start)
<1> DEFINE C == Candidates(start)
           R == Smallest(C, PageSize + 1)
           P == Smallest(R, PageSize)
<1>1. IsFiniteSet(C) /\ C \subseteq Int /\ C \subseteq DebtorIds
  BY DebtorIdsAssumption, FS_Subset DEF Candidates, Active
<1>2. Rows(start) = R /\ Page(start) = P
  BY DEF Rows, Page
<1>3. R \subseteq C /\ P \subseteq R /\ IsFiniteSet(R) /\ R \subseteq Int
  BY <1>1, FS_Subset DEF Smallest
<1>4. PageSize \in Nat /\ PageSize + 1 \in Nat
  BY PageAssumption
<1>5. R = P => P = C
  BY <1>1, <1>4, SmallestExhaust
<1>7. \A d \in P, e \in R \ P : d < e
  BY <1>3, <1>4, SmallestAreBelow
<1> HIDE DEF C, R, P
<1>8. CASE R \ P = {}
  BY <1>2, <1>3, <1>5, <1>8 DEF NextStart, C
<1>9. CASE R \ P # {}
  <2>1. PICK n \in R \ P : NextStart(start) = n
    BY <1>2, <1>9 DEF NextStart
  <2>2. n \in DebtorIds /\ n # NoId /\ n \in Int /\ n \in C /\ start <= n
    BY <1>1, <1>3, <2>1, DebtorIdsAssumption DEF C, Candidates
  <2>3. ASSUME NEW d \in C, d < n PROVE d \in P
    <3>1. /\ Cardinality(Below(C, d)) \in Nat /\ Cardinality(Below(C, n)) \in Nat
          /\ Cardinality(Below(C, d)) < Cardinality(Below(C, n))
      BY <1>1, <2>2, <2>3, BelowGrows
    <3>2. Cardinality(Below(C, n)) < PageSize + 1
      BY <2>1 DEF R, Smallest, Below
    <3>3. Cardinality(Below(C, d)) < PageSize /\ Cardinality(Below(C, d)) < PageSize + 1
      BY <1>4, <3>1, <3>2
    <3>4. d \in R
      BY <3>3 DEF R, Smallest, Below
    <3>5. Cardinality(Below(R, d)) \in Nat /\ Cardinality(Below(R, d)) <= Cardinality(Below(C, d))
      <4>1. Below(R, d) \subseteq Below(C, d) /\ IsFiniteSet(Below(C, d))
        BY <1>1, <1>3, FS_Subset DEF Below
      <4> QED
        BY <4>1, FS_Subset, FS_CardinalityType
    <3>6. Cardinality(Below(R, d)) < PageSize
      BY <1>4, <3>1, <3>3, <3>5
    <3> QED
      BY <3>4, <3>6 DEF P, Smallest, Below
  <2> QED
    BY <1>2, <1>3, <1>7, <2>1, <2>2, <2>3 DEF C
<1> QED
  BY <1>8, <1>9

-----------------------------------------------------------------------------
(* The invariant.                                                          *)

\* What is listed is below the next page.
ProgressInv == next # NoId => \A i \in DOMAIN listed : listed[i] < next

\* Whoever has been there from the start is listed, or on a page to come.
SteadyInv ==
  /\ steady \subseteq Active
  /\ \A d \in steady \cap ValidIds :
       \/ \E i \in DOMAIN listed : listed[i] = d
       \/ next # NoId /\ next <= d

ListInv == ListTypeOK /\ ProgressInv /\ SteadyInv /\ EachOnceInOrder

LEMMA InitListInv == ListInit => ListInv
<1> SUFFICES ASSUME ListInit PROVE ListInv
  OBVIOUS
<1>1. ListTypeOK
  BY DebtorIdsAssumption, PageAssumption DEF ListInit, ListTypeOK, Active
<1>2. ProgressInv /\ EachOnceInOrder
  BY DEF ListInit, ProgressInv, EachOnceInOrder
<1>3. SteadyInv
  BY DebtorIdsAssumption DEF ListInit, SteadyInv, Active
<1> QED
  BY <1>1, <1>2, <1>3 DEF ListInv

LEMMA EnumerateStep ==
  ASSUME ListInv, Enumerate
  PROVE  ListInv'
<1> DEFINE ids == Page(next) \cap ValidIds
<1>0. ListTypeOK /\ next \in Int
  BY DEF Enumerate, ListInv, ListTypeOK
<1>1. PICK links \in InOrder(ids) : listed' = listed \o links
  BY DEF Enumerate
<1>2. next' = NextStart(next) /\ UNCHANGED <<status, steady, changes>>
  BY DEF Enumerate
<1>3. /\ Page(next) \subseteq Candidates(next)
      /\ next' = NoId => Page(next) = Candidates(next)
      /\ next' # NoId =>
           /\ next' \in DebtorIds /\ next <= next'
           /\ \A d \in Page(next) : d < next'
           /\ \A d \in Candidates(next) : d < next' => d \in Page(next)
  BY <1>0, <1>2, PageFacts DEF ListTypeOK
<1>4. ids \subseteq DebtorIds /\ ids \subseteq Int /\ \A d \in ids : next <= d
  BY <1>0, <1>3, DebtorIdsAssumption DEF Candidates, Active
<1>5. /\ links \in Seq(DebtorIds)
      /\ \A i \in DOMAIN links : links[i] \in ids
      /\ \A d \in ids : \E i \in DOMAIN links : links[i] = d
      /\ \A i, j \in DOMAIN links : i < j => links[i] < links[j]
  <2>1. Cardinality(ids) \in Nat
    BY <1>4, DebtorIdsAssumption, FS_Subset, FS_CardinalityType
  <2> HIDE DEF ids
  <2>2. links \in [1 .. Cardinality(ids) -> ids] /\ ToSet(links) = ids
        /\ \A i, j \in DOMAIN links : i < j => links[i] < links[j]
    BY <1>1 DEF InOrder
  <2> QED
    <3>1. links \in [1 .. Cardinality(ids) -> DebtorIds]
      BY <1>4, <2>2
    <3>2. links \in Seq(DebtorIds)
      BY <2>1, <3>1, SeqDef
    <3>3. \A i \in DOMAIN links : links[i] \in ids
      BY <2>2
    <3>4. \A d \in ids : \E i \in DOMAIN links : links[i] = d
      BY <2>2 DEF ToSet
    <3> QED
      BY <2>2, <3>2, <3>3, <3>4
<1> HIDE DEF ids
<1>6. /\ listed' \in Seq(DebtorIds)
      /\ DOMAIN listed = 1 .. Len(listed) /\ DOMAIN links = 1 .. Len(links)
      /\ DOMAIN listed' = 1 .. (Len(listed) + Len(links))
      /\ \A i \in 1 .. Len(listed) : listed'[i] = listed[i]
      /\ \A i \in 1 .. Len(links) : listed'[Len(listed) + i] = links[i]
      /\ Len(listed) \in Nat /\ Len(links) \in Nat
  BY <1>0, <1>1, <1>5 DEF ListTypeOK
<1>7. \A i \in DOMAIN listed' :
        \/ i \in DOMAIN listed /\ listed'[i] = listed[i]
        \/ i - Len(listed) \in DOMAIN links /\ listed'[i] = links[i - Len(listed)]
  BY <1>6
<1>8. ListTypeOK'
  BY <1>0, <1>2, <1>3, <1>6, DebtorIdsAssumption DEF ListTypeOK
<1>9. \A i \in DOMAIN listed : listed[i] < next /\ listed[i] \in Int
  <2>1. next # NoId
    BY DEF Enumerate
  <2>2. \A i \in DOMAIN listed : listed[i] \in DebtorIds
    BY <1>0 DEF ListTypeOK
  <2> QED
    BY <2>1, <2>2, DebtorIdsAssumption DEF ListInv, ProgressInv
<1>10. ProgressInv'
  <2> SUFFICES ASSUME next' # NoId, NEW i \in DOMAIN listed' PROVE listed'[i] < next'
    BY DEF ProgressInv
  <2>1. CASE i \in DOMAIN listed /\ listed'[i] = listed[i]
    <3>1. listed[i] < next /\ listed[i] \in Int /\ next <= next' /\ next' \in Int
      BY <1>3, <1>9, <2>1, DebtorIdsAssumption
    <3> QED
      BY <1>0, <2>1, <3>1
  <2>2. CASE i - Len(listed) \in DOMAIN links /\ listed'[i] = links[i - Len(listed)]
    BY <1>3, <1>5, <2>2 DEF ids
  <2> QED
    BY <1>7, <2>1, <2>2
<1>11. EachOnceInOrder'
  <2> SUFFICES ASSUME NEW i \in DOMAIN listed', NEW j \in DOMAIN listed', i < j
               PROVE  listed'[i] < listed'[j]
    BY DEF EachOnceInOrder
  <2>0. i \in Int /\ j \in Int
    BY <1>6
  <2>1. CASE i \in DOMAIN listed /\ j \in DOMAIN listed
    BY <1>6, <2>1 DEF ListInv, EachOnceInOrder
  <2>2. CASE i \in DOMAIN listed /\ j \notin DOMAIN listed
    <3>1. listed'[i] = listed[i] /\ listed[i] < next /\ listed[i] \in Int
      BY <1>6, <1>9, <2>2
    <3>2. listed'[j] \in ids
      BY <1>5, <1>7, <2>2
    <3>3. next <= listed'[j] /\ listed'[j] \in Int
      BY <1>4, <3>2
    <3> QED
      BY <1>0, <3>1, <3>3
  <2>3. CASE i \notin DOMAIN listed
    <3>1. j \notin DOMAIN listed
      BY <1>6, <2>0, <2>3
    <3>2. /\ i - Len(listed) \in DOMAIN links /\ listed'[i] = links[i - Len(listed)]
          /\ j - Len(listed) \in DOMAIN links /\ listed'[j] = links[j - Len(listed)]
      BY <1>7, <2>3, <3>1
    <3>3. i - Len(listed) < j - Len(listed)
      BY <1>6, <2>0
    <3> QED
      BY <1>5, <3>2, <3>3
  <2> QED
    BY <2>1, <2>2, <2>3
<1>12. SteadyInv'
  <2>1. (steady \subseteq Active)'
    BY <1>2 DEF ListInv, SteadyInv, Active
  <2>2. ASSUME NEW d \in steady' \cap ValidIds
        PROVE  \/ \E i \in DOMAIN listed' : listed'[i] = d
               \/ next' # NoId /\ next' <= d
    <3>1. d \in steady /\ d \in ValidIds /\ d \in Active /\ d \in Int
      BY <1>2, <2>2, DebtorIdsAssumption DEF ListInv, SteadyInv, Active
    <3>2. CASE \E i \in DOMAIN listed : listed[i] = d
      BY <1>6, <3>2
    <3>3. CASE next # NoId /\ next <= d
      <4>1. d \in Candidates(next)
        BY <1>0, <3>1, <3>3 DEF Candidates
      <4>2. CASE d \in Page(next)
        <5>1. PICK k \in DOMAIN links : links[k] = d
          BY <1>5, <3>1, <4>2 DEF ids
        <5>2. Len(listed) + k \in DOMAIN listed' /\ listed'[Len(listed) + k] = d
          BY <1>6, <5>1
        <5> QED
          BY <5>2
      <4>3. CASE d \notin Page(next)
        <5>1. next' # NoId /\ ~(d < next') /\ next' \in DebtorIds
          BY <1>3, <4>1, <4>3
        <5>2. next' \in Int
          BY <5>1, DebtorIdsAssumption
        <5> QED
          BY <3>1, <5>1, <5>2
      <4> QED
        BY <4>2, <4>3
    <3> QED
      BY <3>1, <3>2, <3>3 DEF ListInv, SteadyInv
  <2> QED
    BY <2>1, <2>2 DEF SteadyInv
<1> QED
  BY <1>8, <1>10, <1>11, <1>12 DEF ListInv

LEMMA StatusStep ==
  ASSUME ListInv, NEW d \in DebtorIds, Activate(d) \/ Deactivate(d)
  PROVE  ListInv'
<1>1. PICK from \in Statuses, to \in Statuses : SetStatus(d, from, to)
  BY DEF Activate, Deactivate, Statuses
<1>2. /\ status' = [status EXCEPT ![d] = to] /\ steady' = steady \ {d}
      /\ changes' = changes + 1 /\ changes < MaxChanges /\ UNCHANGED <<next, listed>>
  BY <1>1 DEF SetStatus
<1>3. ListTypeOK'
  BY <1>2, PageAssumption DEF ListInv, ListTypeOK
<1>4. ProgressInv' /\ EachOnceInOrder'
  BY <1>2 DEF ListInv, ProgressInv, EachOnceInOrder
<1>5. SteadyInv'
  <2>1. (steady \subseteq Active)'
    BY <1>2 DEF ListInv, ListTypeOK, SteadyInv, Active
  <2> QED
    BY <1>2, <2>1 DEF ListInv, SteadyInv
<1> QED
  BY <1>3, <1>4, <1>5 DEF ListInv

LEMMA ListInvHolds == ListSpec => []ListInv
<1>1. ListInv /\ [ListNext]_listVars => ListInv'
  <2> SUFFICES ASSUME ListInv, [ListNext]_listVars PROVE ListInv'
    OBVIOUS
  <2>1. CASE ListNext
    BY <2>1, EnumerateStep, StatusStep DEF ListNext
  <2>2. CASE UNCHANGED listVars
    <3>1. UNCHANGED <<status, next, listed, steady, changes>>
      BY <2>2 DEF listVars
    <3> QED
      BY <3>1 DEF ListInv, ListTypeOK, ProgressInv, SteadyInv, EachOnceInOrder, Active
  <2> QED
    BY <2>1, <2>2
<1> QED
  BY <1>1, InitListInv, PTL DEF ListSpec

\* Types: the list is a sequence of debtor IDs, and the next page starts at an ID.
THEOREM ListTypeCorrect == ListSpec => []ListTypeOK
<1>1. ListInv => ListTypeOK
  BY DEF ListInv
<1> QED
  BY <1>1, ListInvHolds, PTL

\* Whatever is activated and deactivated between the pages, no debtor is on two
\* pages, and the pages are sorted (get_debtor_ids, procedures.py:97-115).
THEOREM PagesAreInOrder == ListSpec => []EachOnceInOrder
<1>1. ListInv => EachOnceInOrder
  BY DEF ListInv
<1> QED
  BY <1>1, ListInvHolds, PTL

\* A debtor of this shard that was active from the first page to the last is on
\* one of them, for every page size and whatever the other shards' rows are.
THEOREM NoDebtorIsSkipped == ListSpec => []NoneIsMissing
<1>1. ListInv => NoneIsMissing
  <2> SUFFICES ASSUME ListInv, next = NoId, NEW d \in steady \cap ValidIds
               PROVE  d \in ToSet(listed)
    BY DEF NoneIsMissing
  <2>1. \E i \in DOMAIN listed : listed[i] = d
    BY DEF ListInv, SteadyInv
  <2> QED
    BY <2>1 DEF ToSet
<1> QED
  BY <1>1, ListInvHolds, PTL
=============================================================================
