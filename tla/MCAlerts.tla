------------------------------- MODULE MCAlerts -------------------------------
(* An admin far from UTC who has just added a wallet. *)
EXTENDS Alerts
CONSTANTS u, w
MCOwnerOf == [x \in Wallets |-> u]
MCOffset == [x \in Users \cup Admins |-> 1]
MCSilence == [t \in Once \cup Rolling \cup Windowed |-> IF t = "worker_stale" THEN 1 ELSE 2]
MCAlerts ==
  {[type |-> "spend_spike", to |-> u, about |-> u],
   [type |-> "wallet_ready", to |-> u, about |-> w], [type |-> "wallet_read_failed", to |-> u, about |-> w],
   [type |-> "worker_stale", to |-> u, about |-> u]}
=============================================================================
