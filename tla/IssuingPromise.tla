--------------------------- MODULE IssuingPromise ---------------------------
(***************************************************************************)
(* What the debtors agent promises about issuing transfers, without        *)
(* messages, signals, rows or an accounting authority: a request runs      *)
(* until the debtor sees a result or stops looking; money is issued for it *)
(* at most once, in full, and only if it was authorised while it ran; and  *)
(* the result the debtor sees is the truth about that money.               *)
(***************************************************************************)
EXTENDS Integers

CONSTANTS Requests, Amounts

VARIABLES
  status,     \* what the debtor sees of each request
  requested,  \* the amount of each request
  authorised, \* the requests for which the agent has let money be issued
  decided,    \* the authorised requests that have been executed or refused
  issued      \* the money issued for each request

pvars == <<status, requested, authorised, decided, issued>>

PromiseInit ==
  /\ status = [q \in Requests |-> "unborn"]
  /\ requested = [q \in Requests |-> 0]
  /\ authorised = {}
  /\ decided = {}
  /\ issued = [q \in Requests |-> 0]

Start(q, amount) ==
  /\ status[q] = "unborn"
  /\ status' = [status EXCEPT ![q] = "running"]
  /\ requested' = [requested EXCEPT ![q] = amount]
  /\ UNCHANGED <<authorised, decided, issued>>

Authorise(q) ==
  /\ status[q] = "running"
  /\ q \notin authorised
  /\ authorised' = authorised \cup {q}
  /\ UNCHANGED <<status, requested, decided, issued>>

\* The money is issued, or definitively not.
Decide(q) ==
  /\ q \in authorised \ decided
  /\ decided' = decided \cup {q}
  /\ \E amount \in {0, requested[q]} : issued' = [issued EXCEPT ![q] = amount]
  /\ UNCHANGED <<status, requested, authorised>>

Succeed(q) ==
  /\ status[q] = "running"
  /\ issued[q] = requested[q]
  /\ status' = [status EXCEPT ![q] = "succeeded"]
  /\ UNCHANGED <<requested, authorised, decided, issued>>

\* A request fails only when nothing can be issued for it any more.
Fail(q) ==
  /\ status[q] = "running"
  /\ q \in authorised => q \in decided /\ issued[q] = 0
  /\ status' = [status EXCEPT ![q] = "failed"]
  /\ UNCHANGED <<requested, authorised, decided, issued>>

Forget(gone) ==
  /\ \A q \in gone : status[q] \in {"running", "succeeded", "failed"}
  /\ status' = [q \in Requests |-> IF q \in gone THEN "gone" ELSE status[q]]
  /\ UNCHANGED <<requested, authorised, decided, issued>>

PromiseNext ==
  \/ \E q \in Requests : \/ \E amount \in Amounts : Start(q, amount)
                         \/ Authorise(q) \/ Decide(q) \/ Succeed(q) \/ Fail(q)
  \/ \E gone \in SUBSET Requests : Forget(gone)

PromiseSpec == PromiseInit /\ [][PromiseNext]_pvars
=============================================================================
