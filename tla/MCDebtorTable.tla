---------------------------- MODULE MCDebtorTable -----------------------------
(* Reservations and the splitting of a shard for TLC: who has which rows of    *)
(* the debtor table.  They share nothing here: "side" says which of the two is *)
(* at work; the other one rests in its initial state.                          *)
EXTENDS DebtorReservations, ShardSplit

CONSTANTS id1, a, b, c, s1, s2, d0, d1, c0, c1, m0, r0, r1
VARIABLE side

ChildOf == [x \in SplitDebtors |-> IF x = d0 THEN c0 ELSE c1]
DebtorOfTask == [t \in Tasks |-> IF t = r1 THEN d1 ELSE d0]

BothInit == Init /\ SplitInit /\ side \in {"reserve", "split"}

BothNext ==
  \/ side = "reserve" /\ Next /\ UNCHANGED <<side, splitVars>>
  \/ side = "split" /\ SplitNext /\ UNCHANGED <<side, vars>>

BothSpec ==
  /\ BothInit /\ [][BothNext]_<<side, vars, splitVars>>
  /\ side = "reserve" => Fairness
  /\ side = "split" => SplitFairness

\* A split that is begun is completed: the left-overs disappear, and the option
\* can be turned off (README.md:156-160).
BegunSplitCompletes == side = "split" => SplitCompletes
===============================================================================
