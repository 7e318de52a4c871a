-------------------------------- MODULE Auth --------------------------------
(***************************************************************************)
(* Sessions and the second factor (web-server/src/api/auth.rs): handlers   *)
(* of several requests run at once, sessions are kept in memory and in     *)
(* sessions.json, the secret of the second factor in memory and in         *)
(* config.json, and the server may be stopped at any moment.  A secret is a*)
(* number, a session the login it was made for.  File operations succeed.  *)
(***************************************************************************)
EXTENDS Naturals

CONSTANTS
    Logins,         \* requests that log in
    Changes,        \* handlers of requests that enable or delete the second factor, each of
                    \* which takes one request after another
    MaxSecrets,     \* secrets get_totp_setup generates
    MaxStops        \* times the server is stopped

ASSUME AuthAssumption ==
    Logins \cap Changes = {} /\ {MaxSecrets, MaxStops} \subseteq Nat

NoSecret == 0
NoLogin  == "nobody"
ASSUME AuthNames == {NoLogin, "password"} \cap (Logins \cup Changes) = {}

VARIABLES
    at,             \* where the handler of a request is
    secretOf,       \* the secret a change will save
    written,        \* the sessions a login is writing
    totp,           \* totp_secret
    pendingTotp,    \* pending_totp
    secrets,        \* secrets generated
    sessions,       \* sessions
    lock,           \* whose handler holds the sessions lock across the write
    expired,        \* sessions whose time is over
    sessionsFile,   \* sessions.json: [torn, tokens]
    configFile,     \* config.json: [is, secret]
    up,             \* the server runs
    stops,
    cut,            \* a stop came between truncating and writing sessions.json
    wanted,         \* what the changes that have met ask for, until the last of them ends
    choices         \* what the second factor may be, by what was asked for so far

authVars == <<at, secretOf, written, totp, pendingTotp, secrets, sessions, lock, expired,
              sessionsFile, configFile, up, stops, cut, wanted, choices>>
memory == <<totp, pendingTotp, sessions, lock>>
files  == <<sessionsFile, configFile>>
rest   == <<secrets, expired, up, stops, cut>>
wishes == <<wanted, choices>>

AuthRequests == Logins \cup Changes

AuthTypeOK ==
    /\ at \in [AuthRequests -> {"idle", "insert", "persist", "writing", "read", "truncate",
                                "save", "memory", "clear", "answered", "refused", "lost"}]
    /\ secretOf \in [Changes -> 0..MaxSecrets]
    /\ written \in [Logins -> SUBSET Logins]
    /\ {totp, pendingTotp, secrets} \cup wanted \cup choices \subseteq 0..MaxSecrets
    /\ sessions \subseteq Logins /\ expired \subseteq Logins
    /\ lock \in Logins \cup {NoLogin}
    /\ sessionsFile \in [torn : BOOLEAN, tokens : SUBSET Logins]
    /\ configFile \in [is : {"whole", "empty", "mixed"}, secret : 0..MaxSecrets]
    /\ up \in BOOLEAN /\ cut \in BOOLEAN
    /\ stops \in 0..MaxStops

AuthInit ==
    /\ at = [r \in AuthRequests |-> "idle"]
    /\ secretOf = [r \in Changes |-> NoSecret] /\ written = [r \in Logins |-> {}]
    /\ totp = NoSecret /\ pendingTotp = NoSecret /\ secrets = 0
    /\ sessions = {} /\ lock = NoLogin /\ expired = {}
    /\ sessionsFile = [torn |-> FALSE, tokens |-> {}]
    /\ configFile = [is |-> "whole", secret |-> NoSecret]
    /\ up = TRUE /\ stops = 0 /\ cut = FALSE
    /\ wanted = {} /\ choices = {NoSecret}

Goes(r, place) == at' = [at EXCEPT ![r] = place]
In(r, place)   == up /\ at[r] = place

-----------------------------------------------------------------------------
(* post_auth_login *)

\* The password is right; a wrong one changes nothing.  With a second factor the code
\* must be right too.
LoginChecks(r, codeRight) ==
    /\ In(r, "idle")
    /\ Goes(r, IF totp = NoSecret \/ codeRight THEN "insert" ELSE "refused")
    /\ UNCHANGED <<secretOf, written, memory, files, rest, wishes>>

\* create_session, in memory.  Sessions whose time is over are thrown out.
LoginInserts(r) ==
    /\ In(r, "insert") /\ lock = NoLogin
    /\ sessions' = (sessions \ expired) \cup {r}
    /\ Goes(r, "persist")
    /\ UNCHANGED <<secretOf, written, totp, pendingTotp, lock, files, rest, wishes>>

\* Bug: the sessions are copied and the lock is released before the write.
PersistCopies(r) ==
    /\ In(r, "persist") /\ lock = NoLogin
    /\ written' = [written EXCEPT ![r] = sessions]
    /\ sessionsFile' = [sessionsFile EXCEPT !.torn = TRUE]
    /\ Goes(r, "writing")
    /\ UNCHANGED <<secretOf, memory, configFile, rest, wishes>>

\* persist_sessions takes the lock again and keeps it; the file is truncated ...
PersistLocks(r) ==
    /\ In(r, "persist") /\ lock = NoLogin
    /\ lock' = r
    /\ written' = [written EXCEPT ![r] = sessions]
    /\ sessionsFile' = [sessionsFile EXCEPT !.torn = TRUE]
    /\ Goes(r, "writing")
    /\ UNCHANGED <<secretOf, totp, pendingTotp, sessions, configFile, rest, wishes>>

\* ... and written; the client gets its token.
PersistWrites(r) ==
    /\ In(r, "writing")
    /\ sessionsFile' = [torn |-> FALSE, tokens |-> written[r]]
    /\ written' = [written EXCEPT ![r] = {}]
    /\ lock' = NoLogin
    /\ Goes(r, "answered")
    /\ UNCHANGED <<secretOf, totp, pendingTotp, sessions, configFile, rest, wishes>>

\* Ninety days have passed.
Expires(t) ==
    /\ t \in sessions \ expired
    /\ expired' = expired \cup {t}
    /\ UNCHANGED <<at, secretOf, written, memory, files, secrets, up, stops, cut, wishes>>

\* auth_middleware: what a bearer token opens.
Passes(bearer) ==
    \/ bearer \in sessions \ expired
    \/ bearer = "password" /\ totp = NoSecret

-----------------------------------------------------------------------------
(* The second factor *)

\* get_totp_setup
SetsUp ==
    /\ up /\ secrets < MaxSecrets
    /\ secrets' = secrets + 1
    /\ pendingTotp' = secrets'
    /\ UNCHANGED <<at, secretOf, written, totp, sessions, lock, files, expired, up, stops,
                   cut, wishes>>

Changing      == {r \in Changes : at[r] # "idle"}
LastAtWork(r) == Changing = {r}
Asks(s)       == wanted' = wanted \cup {s} /\ choices' = choices \cup {s}

\* post_totp_enable: there is a pending secret and the code is right, else nothing happens.
EnableBegins(r) ==
    /\ In(r, "idle") /\ pendingTotp # NoSecret
    /\ secretOf' = [secretOf EXCEPT ![r] = pendingTotp]
    /\ Asks(pendingTotp)
    /\ Goes(r, "read")
    /\ UNCHANGED <<written, memory, files, rest>>

\* delete_totp
DeleteBegins(r) ==
    /\ In(r, "idle")
    /\ Asks(NoSecret)
    /\ Goes(r, "read")
    /\ UNCHANGED <<secretOf, written, memory, files, rest>>

\* save_totp_to_config: the request fails if another save has just left no JSON there.
SaveReads(r) ==
    /\ In(r, "read")
    /\ IF configFile.is = "whole"
       THEN Goes(r, "truncate") /\ UNCHANGED <<secretOf, wanted>>
       ELSE /\ Goes(r, "idle")
            /\ secretOf' = [secretOf EXCEPT ![r] = NoSecret]
            /\ wanted' = IF LastAtWork(r) THEN {} ELSE wanted
    /\ UNCHANGED <<written, memory, files, rest, choices>>

SaveTruncates(r) ==
    /\ In(r, "truncate")
    /\ configFile' = [configFile EXCEPT !.is = "empty"]
    /\ Goes(r, "save")
    /\ UNCHANGED <<secretOf, written, memory, sessionsFile, rest, wishes>>

\* What is in the file after a write from its beginning: the JSON without a secret is
\* the shorter one, and does not cover what another save has written by then.
Covers(secret) ==
    \/ secret # NoSecret \/ configFile.is = "empty"
    \/ configFile.is = "whole" /\ configFile.secret = NoSecret
Over(secret) == [is |-> IF Covers(secret) THEN "whole" ELSE "mixed", secret |-> secret]

\* Bug: what is saved is the pending secret of the moment, not the one that was verified.
SaveWritesPending(r) ==
    /\ In(r, "save")
    /\ configFile' = Over(IF secretOf[r] = NoSecret THEN NoSecret ELSE pendingTotp)
    /\ Goes(r, "memory")
    /\ UNCHANGED <<secretOf, written, memory, sessionsFile, rest, wishes>>

SaveWrites(r) ==
    /\ In(r, "save")
    /\ configFile' = Over(secretOf[r])
    /\ Goes(r, "memory")
    /\ UNCHANGED <<secretOf, written, memory, sessionsFile, rest, wishes>>

SetsMemory(r) ==
    /\ In(r, "memory")
    /\ totp' = secretOf[r]
    /\ Goes(r, "clear")
    /\ UNCHANGED <<secretOf, written, pendingTotp, sessions, lock, files, rest, wishes>>

\* The pending secret is cleared, be it another one by now, and the user told.
ClearsPending(r) ==
    /\ In(r, "clear")
    /\ pendingTotp' = NoSecret
    /\ secretOf' = [secretOf EXCEPT ![r] = NoSecret]
    /\ IF LastAtWork(r) THEN choices' = wanted /\ wanted' = {} ELSE UNCHANGED wishes
    /\ Goes(r, "idle")
    /\ UNCHANGED <<written, totp, sessions, lock, files, rest>>

-----------------------------------------------------------------------------
(* The server *)

ServerStops ==
    /\ up /\ stops < MaxStops
    /\ up' = FALSE /\ stops' = stops + 1
    /\ cut' = (cut \/ sessionsFile.torn)
    /\ at' = [r \in AuthRequests |-> IF r \in Changes THEN "idle"
                                     ELSE IF at[r] \in {"idle", "answered", "refused"}
                                     THEN at[r] ELSE "lost"]
    /\ secretOf' = [r \in Changes |-> NoSecret] /\ written' = [r \in Logins |-> {}]
    /\ lock' = NoLogin /\ wanted' = {}
    /\ UNCHANGED <<totp, pendingTotp, sessions, files, secrets, expired, choices>>

\* ApiCredentials::new and load_sessions.  Without a whole config.json the server does
\* not start; half a sessions.json counts as an empty one.
ServerStarts ==
    /\ ~up /\ configFile.is = "whole"
    /\ up' = TRUE
    /\ totp' = configFile.secret /\ pendingTotp' = NoSecret
    /\ sessions' = IF sessionsFile.torn THEN {} ELSE sessionsFile.tokens \ expired
    /\ UNCHANGED <<at, secretOf, written, lock, files, secrets, expired, stops, cut, wishes>>

AuthNext ==
    \/ \E r \in Logins : \/ \E codeRight \in BOOLEAN : LoginChecks(r, codeRight)
                         \/ LoginInserts(r) \/ PersistLocks(r) \/ PersistWrites(r) \/ Expires(r)
    \/ SetsUp
    \/ \E r \in Changes : \/ EnableBegins(r) \/ DeleteBegins(r) \/ SaveReads(r)
                          \/ SaveTruncates(r) \/ SaveWrites(r) \/ SetsMemory(r)
                          \/ ClearsPending(r)
    \/ ServerStops \/ ServerStarts

AuthSpec == AuthInit /\ [][AuthNext]_authVars

-----------------------------------------------------------------------------
(* Properties *)

\* A session whose login was answered is in the file, however many logins write it at
\* once, and is there again after a restart, unless a stop has cut a write short
\* (auth.rs:157-173).
SessionsAreSaved ==
    \A r \in Logins : at[r] = "answered" /\ r \notin expired /\ ~cut =>
        /\ up => r \in sessions
        /\ sessionsFile.torn \/ r \in sessionsFile.tokens

\* However many changes of the second factor meet, and wherever the server is stopped, what
\* is in memory and what a restart finds is the outcome of one of them, or of the last
\* one that ended: a secret that is only being set up is never asked for, and the password
\* alone opens nothing unless a change asked for that (auth.rs:237-244, 310-326, 371-396).
FactorIsAsked ==
    /\ configFile.is = "whole" => configFile.secret \in choices
    /\ up => /\ totp \in choices
             /\ NoSecret \notin choices => ~Passes("password")
=============================================================================
