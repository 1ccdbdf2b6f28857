----------------------------- MODULE MCAccounts -----------------------------
(* A small instance of Accounts. *)
EXTENDS Accounts, TLC

\* Bound: two accounts with three links, or fewer and one fault.
FewAtOnce == Cardinality(spent) + tokens + faults <= 5

Symmetry == Permutations(Users) \cup Permutations(Names) \cup Permutations(Addresses)
              \cup Permutations(Passwords) \cup Permutations(Requests) \cup Permutations(Sids)

=============================================================================
