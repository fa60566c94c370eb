----------------------------- MODULE MCWebClients -----------------------------
(* The clients that configure and the clients that pay, for TLC.  "side" says  *)
(* which of the two are at work; the others rest.  What the two do to each     *)
(* other, by the counter of actions, is a free choice in either (CountUpdate   *)
(* and RefuseThrottled).                                                       *)
EXTENDS ConfigClients, TransferClients, TLC

CONSTANTS a, b, v0, v1, x, y, z, u1, u2, u3, p, q
VARIABLE side

BothInit ==
  /\ Init /\ TransfersInit
  /\ \/ side = "configure" /\ \A k, l \in Clients : client[k].payment = client[l].payment
     \/ side = "pay"

BothNext ==
  \/ side = "configure" /\ Next /\ UNCHANGED <<side, transferVars>>
  \/ side = "pay" /\ TransfersNext /\ UNCHANGED <<side, vars>>

BothSpec == BothInit /\ [][BothNext]_<<side, vars, transferVars>>

Symmetry ==
  Permutations(Devices) \cup Permutations(Clients) \cup Permutations(Payments)
===============================================================================
