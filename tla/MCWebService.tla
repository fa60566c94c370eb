----------------------------- MODULE MCWebService -----------------------------
(* The limits of a debtor and the list of debtors, for TLC.  They share        *)
(* nothing: "side" says which of the two is looked at; the other one rests.    *)
EXTENDS DebtorQuotas, DebtorList, TLC

CONSTANTS x, y
VARIABLE side

MinusOne == -1

BothInit ==
  /\ Init /\ ListInit
  /\ \/ side = "limits" /\ \A i \in DebtorIds : status[i] = "active"
     \/ side = "list"

BothNext ==
  \/ side = "limits" /\ Next /\ UNCHANGED <<side, listVars>>
  \/ side = "list" /\ ListNext /\ UNCHANGED <<side, vars>>

BothSpec == BothInit /\ [][BothNext]_<<side, vars, listVars>>

Symmetry == Permutations(Contents)
===============================================================================
