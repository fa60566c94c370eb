----------------------------- MODULE AtLeastOnce -----------------------------
(***************************************************************************)
(* What the outbox promises to the procedures that insert signals: a       *)
(* committed signal is sent at least once, and is forgotten only after it  *)
(* has been sent.  There are no rows, batches, processes or failures here. *)
(***************************************************************************)
CONSTANT Signals  \* the signals of the debtors this shard is responsible for

VARIABLES
  pending,  \* signals committed and not forgotten
  sent      \* signals handed over to the broker

vars == <<pending, sent>>

\* A table may be a copy of another one.
Init == pending \in SUBSET Signals /\ sent = {}

\* A transaction that inserts signals commits.
Commit == /\ \E s \in Signals \ pending : pending' = pending \cup {s}
          /\ UNCHANGED sent

\* A signal can be sent many times.
Send(s) == /\ s \in pending
           /\ sent' = sent \cup {s}
           /\ UNCHANGED pending

\* Several signals can be forgotten together, but none that was not sent.
Forget(S) == /\ S # {}
             /\ S \subseteq pending \cap sent
             /\ pending' = pending \ S
             /\ UNCHANGED sent

Next == \/ Commit
        \/ \E s \in Signals : Send(s)
        \/ \E S \in SUBSET Signals : Forget(S)

Spec == Init /\ [][Next]_vars
=============================================================================
