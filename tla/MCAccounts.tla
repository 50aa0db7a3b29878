----------------------------- MODULE MCAccounts -----------------------------
(* Values for model checking Accounts. *)
EXTENDS Accounts, TLC

\* Every way in, without and with groups; OIDC alone.
ThreeConfigs == {
  [access |-> "both", registration |-> TRUE, oidcOnly |-> FALSE, groups |-> FALSE],
  [access |-> "auth", registration |-> TRUE, oidcOnly |-> FALSE, groups |-> TRUE],
  [access |-> "public", registration |-> TRUE, oidcOnly |-> TRUE, groups |-> FALSE] }

\* Anonymous use beside registration.
OnlyBoth == {
  [access |-> "both", registration |-> TRUE, oidcOnly |-> FALSE, groups |-> FALSE] }

Fungible == Permutations(Tokens) \cup Permutations(Requests)
=============================================================================
