---------------------------- MODULE MCAccounts ----------------------------
(* Instance for TLC: two calls of one page, two sign-ins, two setups. *)
EXTENDS Accounts, TLC
Symmetry == Permutations(Call) \union Permutations(Exchange) \union
            Permutations(Caller) \union Permutations(Setup)
============================================================================
