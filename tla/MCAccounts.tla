----------------------------- MODULE MCAccounts -----------------------------
(***************************************************************************)
(* Accounts with two names, and credentials of two exchange accounts.      *)
(***************************************************************************)
EXTENDS Accounts, TLC

MCOwnerOf == [c \in Creds |-> c]   \* each of an exchange account of its own
MCBooks == <<"portfolio", "ledger">>
MCOldBooks == {{}, {"portfolio", "ledger"}}

MCSymmetry == Permutations(Names) \cup Permutations(Creds)
=============================================================================
