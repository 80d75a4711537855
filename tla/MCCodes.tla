------------------------------ MODULE MCCodes ------------------------------
(***************************************************************************)
(* Instances of Codes for TLC.                                             *)
(***************************************************************************)
EXTENDS Codes

\* redis.config.ts, on a smaller scale.
SmallConf ==
    [login   |-> [maxAttempts |-> 2, lockDuration |-> 2, otpTtl |-> Null],
     confirm |-> [maxAttempts |-> 2, lockDuration |-> 1, otpTtl |-> 1],
     reset   |-> [maxAttempts |-> 1, lockDuration |-> 2, otpTtl |-> 1],
     pin     |-> [maxAttempts |-> 1, lockDuration |-> 2, otpTtl |-> Null]]

=============================================================================
