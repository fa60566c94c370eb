----------------------------- MODULE MCMessaging ------------------------------
(* The outbox and the incoming queue for TLC.  They share nothing: "side" says *)
(* which of the two works; the other one rests, with nothing to do.            *)
EXTENDS Outbox, IncomingQueue

CONSTANTS s1, s2, p1, x1, f1, f2, g1, g2, m1, y1, c1, c2
VARIABLE side

BothInit ==
  /\ Init /\ QueueInit
  /\ \/ side = "outgoing"
     \/ side = "incoming" /\ table = {}

BothNext ==
  \/ side = "outgoing" /\ Next /\ UNCHANGED <<side, incomingVars>>
  \/ side = "incoming" /\ QueueNext /\ UNCHANGED <<side, vars>>

BothSpec ==
  /\ BothInit /\ [][BothNext]_<<side, vars, incomingVars>>
  /\ side = "outgoing" => Fairness
  /\ side = "incoming" => QueueFairness
===============================================================================
