----------------------------- MODULE MCMintPage -----------------------------
(***************************************************************************)
(* A machine with the set-up apart, for a visitor with two wallets; a      *)
(* presale without set-up, for one whose second wallet has no whitelist    *)
(* token; and a restricted machine behind Encore.                          *)
(***************************************************************************)
EXTENDS MintPage

CONSTANTS a, b, c

MCMachines ==
  {[split |-> TRUE, gate |-> "none", sale |-> "public", items |-> 2, wallets |-> {a, b}],
   [split |-> FALSE, gate |-> "none", sale |-> "presale", items |-> 1, wallets |-> {a, c}],
   [split |-> FALSE, gate |-> "encore", sale |-> "restricted", items |-> 1, wallets |-> {a}]}
=============================================================================
