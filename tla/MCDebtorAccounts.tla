--------------------------- MODULE MCDebtorAccounts ---------------------------
(* Values of the constants of DebtorAccounts for TLC.  The numbers that stand *)
(* for limits only have to be different from each other.  "scene" divides the *)
(* behaviours in two, each with one of two things that multiply the states:   *)
(* clocks that disagree, and accounts that change by themselves.              *)
EXTENDS DebtorAccounts

VARIABLE scene

MCConfigData == {"", "info"}
MCEmptyData == ""
MCUnlimited == 9
MCHuge == 10

\* In the one scene the account is new, and its balance does not change; in the
\* other one the clocks agree, and nothing is restricted.
SceneInit ==
  /\ Init
  /\ \/ scene = "clocks" /\ account.config = ForeignConfig(EmptyData) /\ ~account.open
     \/ scene = "changes"

SceneNext ==
  /\ Next /\ UNCHANGED scene
  /\ scene = "clocks" => ~AccountChanges
  /\ scene = "changes" =>
       /\ \A t \in ApiTimes : debtor'.last_config_ts <= t
       /\ debtor'.limit = Unlimited

SceneSpec == SceneInit /\ [][SceneNext]_<<vars, scene>> /\ Fairness
===============================================================================
