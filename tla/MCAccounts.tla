----------------------------- MODULE MCAccounts -----------------------------
(* Constant values for the TLC run of Accounts. *)
EXTENDS Accounts, TLC

CONSTANTS demo, ann, p1, p2, aws, gcp, q1, q2

\* The places where calls are kept are interchangeable, and so are the providers.
Slots == Permutations(Requests) \cup Permutations(Providers)
=============================================================================
