----------------------------- MODULE MCAccounts -----------------------------
(* Accounts with interchangeable handlers, and what is inserted.           *)
EXTENDS Accounts, TLC

JobSymmetry == Permutations(Jobs)

MCMaxCreated == [agents |-> 3, channels |-> 2, configs |-> 2, vpses |-> 1]
=============================================================================
