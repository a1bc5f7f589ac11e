----------------------------- MODULE MCAccounts -----------------------------
(* Three accounts, the fewest for which signing out leads to the chooser.      *)
EXTENDS Accounts
=============================================================================
