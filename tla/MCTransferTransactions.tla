----------------------- MODULE MCTransferTransactions -----------------------
(* An instance of TransferTransactions for TLC.  "scene" divides the        *)
(* transactions in two: those that change one transfer, message handlers    *)
(* included; and those that change the row that counts the transfers.       *)
EXTENDS TransferTransactions

CONSTANTS d1, u1, u2, alice, t1, w1, w2
VARIABLE scene

\* Transactions begin for the one scene or the other.
MayBegin(t) ==
  \/ t = Idle
  \/ scene = "transfer" /\ (t.op = "initiate" => t.arg.transfer_uuid = u1 /\ ~t.arg.elapsed)
  \/ scene = "counter" /\ t.op \in {"initiate", "delete", "deactivate"}

SceneInit == TxnInit /\ scene \in {"transfer", "counter"}

SceneNext ==
  /\ TxnNext
  /\ UNCHANGED scene
  /\ \A w \in Workers : MayBegin(txn'[w])
  /\ scene = "counter" => ~AuthorityAnswers

SceneSpec == SceneInit /\ [][SceneNext]_<<allVars, scene>> /\ TxnFairness
=============================================================================
