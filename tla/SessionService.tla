--------------------------- MODULE SessionService ---------------------------
(***************************************************************************)
(* session.service.ts: the rows of user_sessions, and their nightly        *)
(* cleaning.  The only unique index of that table is on the hash of the    *)
(* refresh token; user_id and device_fingerprint are foreign keys that     *)
(* cascade.                                                                *)
(***************************************************************************)
EXTENDS AccountData

SessionsOf(u, d) == {s \in sessions : s.user = u /\ s.device = d}

\* The WHERE clause of rotateSession.
RowsToRotate(u, d) == SessionsOf(u, d)

-----------------------------------------------------------------------------
(***************************************************************************)
(* createSession: the pair is signed, the device upserted on the unique    *)
(* index of its fingerprint, which is a hash over the user id too.         *)
(***************************************************************************)
\* Mutant: the tokens are signed before the fingerprint is known.
SignedBeforeDevice(p) == [user |-> req[p].u, device |-> NoAgent,
                          status |-> req[p].status, at |-> now]

Signed(p) == [user |-> req[p].u, device |-> req[p].d,
              status |-> req[p].status, at |-> now]

SignPair(p) ==
    /\ At(p, "signPair")
    /\ \/ ~Exists(req[p].u) /\ Finish(p) /\ UNCHANGED <<devices, issued>>
       \/ /\ Exists(req[p].u)
          /\ \E k \in Tokens :
                /\ issued[k] = Null
                /\ issued' = [issued EXCEPT ![k] = Signed(p)]
                /\ Goto(p, "insertSession", [req[p] EXCEPT !.new = k])
          /\ devices' = devices \cup {<<req[p].u, req[p].d>>}
    /\ UNCHANGED <<accounts, sessions, blacklist, now>>

\* The upsert on (deviceFingerprint, userId), which no unique index of the
\* table covers: ON DUPLICATE KEY UPDATE never finds the row of the device.
InsertSession(p) ==
    LET k == req[p].new
        row == [id |-> k, user |-> req[p].u, device |-> req[p].d, token |-> k,
                expires |-> issued[k].at + REFRESH_TOKEN_TTL]
    IN  /\ At(p, "insertSession")
        /\ sessions' = IF <<req[p].u, req[p].d>> \in devices
                       THEN sessions \cup {row} ELSE sessions
        /\ Finish(p)
        /\ UNCHANGED <<accounts, devices, tokens, now>>

-----------------------------------------------------------------------------
(***************************************************************************)
(* rotateSession: an UPDATE by (user, device).  Two rows cannot take the   *)
(* same hash: the unique index refuses the statement.  No row is no error. *)
(***************************************************************************)
Rotated(s, k) ==
    [s EXCEPT !.token = k, !.expires = issued[k].at + REFRESH_TOKEN_TTL]

\* Mutant: a row is made for a device that has none.
RotateOrCreate(p) ==
    LET rows == RowsToRotate(req[p].u, req[p].d)
        k    == req[p].new
        row  == [id |-> req[p].k, user |-> req[p].u, device |-> req[p].d,
                 token |-> k, expires |-> issued[k].at + REFRESH_TOKEN_TTL]
    IN  /\ At(p, "rotate")
        /\ sessions' = IF rows = {} /\ Exists(req[p].u) THEN sessions \cup {row}
                       ELSE IF Cardinality(rows) > 1 THEN sessions
                       ELSE (sessions \ rows) \cup {Rotated(s, k) : s \in rows}
        /\ Finish(p)
        /\ UNCHANGED <<accounts, devices, tokens, now>>

Rotate(p) ==
    LET rows == RowsToRotate(req[p].u, req[p].d)
    IN  /\ At(p, "rotate")
        /\ sessions' = IF Cardinality(rows) > 1 THEN sessions
                       ELSE (sessions \ rows) \cup {Rotated(s, req[p].new) : s \in rows}
        /\ Finish(p)
        /\ UNCHANGED <<accounts, devices, tokens, now>>

-----------------------------------------------------------------------------
(***************************************************************************)
(* The three deletions, each the last statement of its handler but for     *)
(* hardDelete, and the cron job.                                           *)
(***************************************************************************)
DeleteSession(p) ==
    /\ At(p, "deleteSession")
    /\ sessions' = sessions \ SessionsOf(req[p].u, req[p].d)
    /\ Finish(p)
    /\ UNCHANGED <<accounts, devices, tokens, now>>

DeleteAllSessions(p) ==
    /\ At(p, "deleteAll")
    /\ sessions' = {s \in sessions : s.user # req[p].u}
    /\ Finish(p)
    /\ UNCHANGED <<accounts, devices, tokens, now>>

\* By (id, user): the row may have been rotated or deleted since it was listed.
DeleteSessionById(p) ==
    /\ At(p, "deleteById")
    /\ sessions' = {s \in sessions : ~(s.id = req[p].new /\ s.user = req[p].u)}
    /\ Finish(p)
    /\ UNCHANGED <<accounts, devices, tokens, now>>

Expired(s) == s.expires < now

CleanExpiredSessions ==
    /\ sessions' = {s \in sessions : ~Expired(s)}
    /\ UNCHANGED <<accounts, devices, tokens, now, req>>

SessionNext(p) ==
    \/ SignPair(p) \/ InsertSession(p) \/ Rotate(p)
    \/ DeleteSession(p) \/ DeleteAllSessions(p) \/ DeleteSessionById(p)

=============================================================================
