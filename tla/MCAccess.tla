------------------------------ MODULE MCAccess ------------------------------
(***************************************************************************)
(* An instance of Access for TLC.                                          *)
(***************************************************************************)
EXTENDS Access, TLC

CONSTANTS u1, u2, k1, k2, p1, p2

\* One client for the accounts of others, one for one's own.
OfficeRoutes == {"createUser", "updateStatus", "updateRoles", "hardDelete"}
OwnRoutes == {"register", "login", "loginWithGoogle", "loginWithPin", "refresh",
              "logout", "confirmEmail", "deleteMe"}
TwoClients == p1 :> OfficeRoutes @@ p2 :> OwnRoutes

\* None, what everyone has, and what this is about.
Lists == {{}, {"voter"}, {"admin"}}

TokenSymmetry == Permutations(Tokens)

=============================================================================
