----------------------------- MODULE MCAccounts -----------------------------
(***************************************************************************)
(* Instances of Accounts for TLC.                                          *)
(***************************************************************************)
EXTENDS Accounts, TLC

CONSTANTS u1, d1, d2, p1, p2, k1, k2, k3

\* accounts: every operation against every other.
AllServe == (p1 :> AccountOperations) @@ (p2 :> AccountOperations)

\* duplicates: no two requests at the same time.
ClientOps == {"registerWithGoogle", "login", "refresh", "logout", "revokeSession",
              "updateStatus"}
SerialServe == (p1 :> ClientOps)

TokenSymmetry == Permutations(Tokens)

=============================================================================
