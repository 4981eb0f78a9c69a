----------------------------- MODULE MCAccounts -----------------------------
(***************************************************************************)
(* Accounts for TLC: root (admin) and bob, or nobody, at the start.        *)
(***************************************************************************)
EXTENDS Accounts, TLC

\* Requests are interchangeable, and so are the addresses.
Symmetry == Permutations(Requests) \cup Permutations(Emails)
=============================================================================
