--------------------------- MODULE MCTransferAnswers ---------------------------
(* IssuingTransfers for TLC, with an authority that is not perfect: either it   *)
(* answers a request repeatedly, or its answers are also about other accounts   *)
(* or amounts (then there is one request only).  "answers" says which.          *)
EXTENDS IssuingTransfers

CONSTANTS d1, u1, alice, t1, t2
VARIABLE answers

Straying == INSTANCE IssuingTransfers
              WITH AaEchoes <- FALSE, MaxRequests <- 1, TransferIds <- {t1}, Amounts <- {1, 2}

BothInit == Init /\ answers \in {"repeated", "stray"}

BothNext ==
  /\ UNCHANGED answers
  /\ \/ answers = "repeated" /\ Next
     \/ answers = "stray" /\ Straying!Next

AnswersFirst ==
  \/ answers = "repeated" /\ AuthorityAnswersFirst
  \/ answers = "stray" /\ Straying!AuthorityAnswersFirst
FinalizesSome ==
  \/ answers = "repeated" /\ AuthorityFinalizesSome
  \/ answers = "stray" /\ Straying!AuthorityFinalizesSome

\* The Fairness of the two.
BothSpec ==
  /\ BothInit /\ [][BothNext]_<<answers, vars>>
  /\ WF_vars(ProcessSomePrepared) /\ WF_vars(ProcessSomeRejected)
  /\ WF_vars(ProcessSomeFinalized)
  /\ WF_vars(AnswersFirst) /\ WF_vars(FinalizesSome)
================================================================================
