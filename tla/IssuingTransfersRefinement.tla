---------------------- MODULE IssuingTransfersRefinement ----------------------
(* IssuingTransfers implements IssuingPromise.                               *)
EXTENDS IssuingTransfers

RowsFor(q) == {r \in running_transfer : r.coordinator_request_id = q}

\* The money the agent has let the authority issue for request q.
CommitsFor(q) == UNION {CommitSignals(d, q) : d \in Debtors}

\* The fate of the transfers committed for request q.
Executed(q) == {e \in ledger : /\ e.state = "finalized"
                               /\ \E s \in CommitsFor(q) : /\ e.account = s.account
                                                           /\ e.transfer_id = s.transfer_id}

StatusOf(q) ==
  IF q > cr_seq THEN "unborn"
  ELSE IF RowsFor(q) = {} THEN "gone"
  ELSE IF \E r \in RowsFor(q) : ~r.finalized THEN "running"
  ELSE IF \E r \in RowsFor(q) : r.error_code = NoError THEN "succeeded"
  ELSE "failed"

\* The only element of a set of amounts, zero if it is empty.
Only(S) == IF S = {} THEN 0 ELSE CHOOSE x \in S : TRUE

\* What the promise speaks of, as functions and sets of requests.
SeenStatus == [q \in Requests |-> StatusOf(q)]
Requested ==
  [q \in Requests |->
     Only({p.amount : p \in {x \in prepare_signals : x.coordinator_request_id = q}})]
Authorised == {q \in Requests : CommitsFor(q) # {}}
Decided == {q \in Requests : Executed(q) # {}}
Issued == [q \in Requests |-> Only({e.issued : e \in Executed(q)})]

Promise == INSTANCE IssuingPromise WITH
  status <- SeenStatus, requested <- Requested,
  authorised <- Authorised, decided <- Decided, issued <- Issued

\* Every step of the agent and of the authority is a step of the promise or
\* leaves it alone: the results shown by the API are the truth about the
\* money that has been and will be issued.
KeepsPromise == Promise!PromiseSpec
=============================================================================
