----------------------------- MODULE AuthProofs -----------------------------
(***************************************************************************)
(* What holds of Auth for every set of requests and every number of        *)
(* secrets and stops of the server: sessions that were handed out are      *)
(* saved, and the second factor is one that was asked for.                 *)
(***************************************************************************)
EXTENDS Auth, TLAPS

Places == {"idle", "insert", "persist", "writing", "read", "truncate", "save", "memory",
           "clear", "answered", "refused", "lost"}

\* The file is written by the holder of the lock, which writes the sessions as they are.
\* Without a write cut short the file lacks content only while it is written.
WriterInv ==
    /\ \A r \in Logins : at[r] = "writing" =>
          lock = r /\ written[r] = sessions /\ sessionsFile.torn
    /\ lock # NoLogin => at[lock] = "writing"
    /\ sessionsFile.torn => cut \/ lock # NoLogin

\* A login that has made its session is in memory.
InsertedInv ==
    \A r \in Logins : /\ at[r] \in {"insert", "persist", "writing"} => up
                      /\ at[r] \in {"persist", "writing"} => r \in sessions \cup expired

SavedInv == WriterInv /\ InsertedInv /\ SessionsAreSaved

\* A change at work runs in a server that is up, and what it asks for is among the choices.
ChangeInv ==
    /\ \A r \in Changes : at[r] \in {"idle", "read", "truncate", "save", "memory", "clear"}
    /\ \A r \in Changes : IF at[r] = "idle" THEN secretOf[r] = NoSecret
                                             ELSE up /\ secretOf[r] \in wanted
    /\ wanted \subseteq choices

\* Once one of the changes that have met has saved its secret, the file has that of one
\* of them; once one has set the memory, so has the memory.
FactorInv ==
    /\ \A r \in Changes : at[r] \in {"memory", "clear"} /\ configFile.is = "whole" =>
                            configFile.secret \in wanted
    /\ \A r \in Changes : at[r] = "clear" => totp \in wanted
    /\ configFile.is = "whole" => configFile.secret \in choices
    /\ up => totp \in choices

LEMMA AuthPlaces ==
    ASSUME AuthTypeOK, NEW r \in AuthRequests, NEW p \in Places, Goes(r, p)
    PROVE  /\ at' \in [AuthRequests -> Places]
           /\ at'[r] = p
           /\ \A q \in AuthRequests : q # r => at'[q] = at[q]
BY DEF AuthTypeOK, Goes, Places

LEMMA Requests ==
    /\ Logins \subseteq AuthRequests /\ Changes \subseteq AuthRequests
    /\ \A r \in Logins : r \notin Changes /\ r # NoLogin
    /\ "password" \notin Logins
    /\ NoSecret \in 0..MaxSecrets /\ MaxSecrets \in Nat /\ MaxStops \in Nat
BY AuthAssumption, AuthNames DEF AuthRequests, NoSecret

-----------------------------------------------------------------------------
(* Types *)

LEMMA AuthInitTypes == AuthInit => AuthTypeOK
<1> SUFFICES ASSUME AuthInit PROVE AuthTypeOK
  OBVIOUS
<1> USE Requests DEF AuthInit, NoSecret
<1>1. at \in [AuthRequests -> Places] /\ secretOf \in [Changes -> 0..MaxSecrets]
  BY DEF Places
<1>2. written \in [Logins -> SUBSET Logins]
  OBVIOUS
<1>3. /\ sessionsFile \in [torn : BOOLEAN, tokens : SUBSET Logins]
      /\ configFile \in [is : {"whole", "empty", "mixed"}, secret : 0..MaxSecrets]
  OBVIOUS
<1>4. /\ {totp, pendingTotp, secrets} \cup wanted \cup choices \subseteq 0..MaxSecrets
      /\ stops \in 0..MaxStops
  OBVIOUS
<1>5. /\ sessions \subseteq Logins /\ expired \subseteq Logins
      /\ lock \in Logins \cup {NoLogin} /\ up \in BOOLEAN /\ cut \in BOOLEAN
  OBVIOUS
<1> QED  BY <1>1, <1>2, <1>3, <1>4, <1>5 DEF AuthTypeOK, Places

LEMMA LoginTypes ==
    ASSUME AuthTypeOK, NEW r \in Logins,
           \/ \E codeRight \in BOOLEAN : LoginChecks(r, codeRight)
           \/ LoginInserts(r) \/ PersistLocks(r) \/ PersistWrites(r) \/ Expires(r)
    PROVE  AuthTypeOK'
<1> USE Requests DEF memory, files, rest, wishes
<1>1. CASE \E codeRight \in BOOLEAN : LoginChecks(r, codeRight)
  BY <1>1 DEF LoginChecks, Goes, AuthTypeOK
<1>2. CASE LoginInserts(r)
  BY <1>2 DEF LoginInserts, Goes, AuthTypeOK
<1>3. CASE PersistLocks(r)
  BY <1>3 DEF PersistLocks, Goes, AuthTypeOK
<1>4. CASE PersistWrites(r)
  BY <1>4 DEF PersistWrites, Goes, AuthTypeOK
<1>5. CASE Expires(r)
  BY <1>5 DEF Expires, AuthTypeOK
<1> QED  BY <1>1, <1>2, <1>3, <1>4, <1>5

LEMMA ChangeTypes ==
    ASSUME AuthTypeOK, NEW r \in Changes,
           \/ EnableBegins(r) \/ DeleteBegins(r) \/ SaveReads(r) \/ SaveTruncates(r)
           \/ SaveWrites(r) \/ SetsMemory(r) \/ ClearsPending(r)
    PROVE  AuthTypeOK'
<1> USE Requests DEF memory, files, rest, wishes
<1>1. CASE EnableBegins(r)
  BY <1>1 DEF EnableBegins, Asks, Goes, AuthTypeOK
<1>2. CASE DeleteBegins(r)
  BY <1>2 DEF DeleteBegins, Asks, Goes, AuthTypeOK
<1>3. CASE SaveReads(r)
  BY <1>3 DEF SaveReads, Goes, AuthTypeOK
<1>4. CASE SaveTruncates(r) \/ SaveWrites(r)
  <2>1. secretOf[r] \in 0..MaxSecrets /\ configFile.secret \in 0..MaxSecrets
    BY DEF AuthTypeOK
  <2>2. configFile' \in [is : {"whole", "empty", "mixed"}, secret : 0..MaxSecrets]
    <3>1. CASE SaveTruncates(r)
      BY <3>1 DEF SaveTruncates, AuthTypeOK
    <3>2. CASE SaveWrites(r)
      BY <2>1, <3>2 DEF SaveWrites, Over
    <3> QED  BY <1>4, <3>1, <3>2
  <2>3. at' \in [AuthRequests -> Places]
    BY <1>4 DEF SaveTruncates, SaveWrites, Goes, AuthTypeOK, Places
  <2> QED  BY <1>4, <2>2, <2>3 DEF SaveTruncates, SaveWrites, AuthTypeOK, Places
<1>5. CASE SetsMemory(r)
  BY <1>5 DEF SetsMemory, Goes, AuthTypeOK
<1>6. CASE ClearsPending(r)
  BY <1>6 DEF ClearsPending, Goes, AuthTypeOK
<1> QED  BY <1>1, <1>2, <1>3, <1>4, <1>5, <1>6

LEMMA ServerTypes ==
    ASSUME AuthTypeOK, SetsUp \/ ServerStops \/ ServerStarts PROVE AuthTypeOK'
<1> USE Requests DEF memory, files, rest, wishes
<1>1. CASE SetsUp
  BY <1>1 DEF SetsUp, AuthTypeOK
<1>2. CASE ServerStops
  <2>1. at' \in [AuthRequests -> Places]
    BY <1>2 DEF ServerStops, AuthTypeOK, Places
  <2>2. secretOf' \in [Changes -> 0..MaxSecrets] /\ written' \in [Logins -> SUBSET Logins]
    BY <1>2 DEF ServerStops
  <2>3. stops' \in 0..MaxStops
    BY <1>2 DEF ServerStops, AuthTypeOK
  <2> QED  BY <1>2, <2>1, <2>2, <2>3 DEF ServerStops, AuthTypeOK, Places
<1>3. CASE ServerStarts
  BY <1>3 DEF ServerStarts, AuthTypeOK
<1> QED  BY <1>1, <1>2, <1>3

LEMMA AuthTypesKept == AuthTypeOK /\ [AuthNext]_authVars => AuthTypeOK'
<1> SUFFICES ASSUME AuthTypeOK, [AuthNext]_authVars PROVE AuthTypeOK'
  OBVIOUS
<1>1. CASE UNCHANGED authVars
  BY <1>1 DEF authVars, AuthTypeOK
<1> QED  BY <1>1, LoginTypes, ChangeTypes, ServerTypes DEF AuthNext

-----------------------------------------------------------------------------
(* Sessions *)

LEMMA AuthInitSaved == AuthInit => SavedInv
BY Requests DEF AuthInit, SavedInv, WriterInv, InsertedInv, SessionsAreSaved

LEMMA LoginSaves ==
    ASSUME AuthTypeOK, SavedInv, NEW r \in Logins,
           \/ \E codeRight \in BOOLEAN : LoginChecks(r, codeRight)
           \/ LoginInserts(r) \/ PersistLocks(r) \/ PersistWrites(r) \/ Expires(r)
    PROVE  SavedInv'
<1> USE Requests DEF memory, files, rest, wishes
<1>0. WriterInv /\ InsertedInv /\ SessionsAreSaved
  BY DEF SavedInv
<1>1. CASE \E codeRight \in BOOLEAN : LoginChecks(r, codeRight)
  <2>1. /\ at'[r] \in {"insert", "refused"} /\ at[r] = "idle" /\ up
        /\ \A q \in AuthRequests : q # r => at'[q] = at[q]
        /\ UNCHANGED <<written, sessions, lock, files, expired, up, cut>>
    BY <1>1 DEF LoginChecks, In, Goes, AuthTypeOK
  <2>2. WriterInv'
    BY <1>0, <2>1 DEF WriterInv, AuthTypeOK
  <2>3. InsertedInv' /\ SessionsAreSaved'
    BY <1>0, <2>1 DEF InsertedInv, SessionsAreSaved
  <2> QED  BY <2>2, <2>3 DEF SavedInv
<1>2. CASE LoginInserts(r)
  <2>1. /\ at'[r] = "persist" /\ at[r] = "insert" /\ up
        /\ \A q \in AuthRequests : q # r => at'[q] = at[q]
        /\ lock = NoLogin /\ sessions' = (sessions \ expired) \cup {r}
        /\ UNCHANGED <<written, lock, files, expired, up, cut>>
    BY <1>2 DEF LoginInserts, In, Goes, AuthTypeOK
  <2>2. WriterInv'
    BY <1>0, <2>1 DEF WriterInv
  <2>3. InsertedInv' /\ SessionsAreSaved'
    BY <1>0, <2>1 DEF InsertedInv, SessionsAreSaved
  <2> QED  BY <2>2, <2>3 DEF SavedInv
<1>3. CASE PersistLocks(r)
  <2>1. /\ at'[r] = "writing" /\ at[r] = "persist" /\ up
        /\ \A q \in AuthRequests : q # r => at'[q] = at[q]
        /\ lock = NoLogin /\ lock' = r /\ written'[r] = sessions /\ sessionsFile'.torn
        /\ UNCHANGED <<sessions, expired, up, cut>>
    BY <1>3 DEF PersistLocks, In, Goes, AuthTypeOK
  <2>2. WriterInv'
    BY <1>0, <2>1 DEF WriterInv
  <2>3. InsertedInv' /\ SessionsAreSaved'
    BY <1>0, <2>1 DEF InsertedInv, SessionsAreSaved
  <2> QED  BY <2>2, <2>3 DEF SavedInv
<1>4. CASE PersistWrites(r)
  <2>1. /\ at'[r] = "answered" /\ at[r] = "writing"
        /\ \A q \in AuthRequests : q # r => at'[q] = at[q]
        /\ lock' = NoLogin /\ sessionsFile' = [torn |-> FALSE, tokens |-> written[r]]
        /\ UNCHANGED <<sessions, expired, up, cut>>
    BY <1>4 DEF PersistWrites, In, Goes, AuthTypeOK
  <2>2. written[r] = sessions /\ lock = r /\ r \in sessions \cup expired
    BY <1>0, <2>1 DEF WriterInv, InsertedInv
  <2>3. WriterInv' /\ InsertedInv'
    BY <1>0, <2>1, <2>2 DEF WriterInv, InsertedInv
  <2>4. SessionsAreSaved'
    BY <1>0, <1>4, <2>1, <2>2 DEF PersistWrites, In, SessionsAreSaved
  <2> QED  BY <2>3, <2>4 DEF SavedInv
<1>5. CASE Expires(r)
  BY <1>0, <1>5 DEF Expires, SavedInv, WriterInv, InsertedInv, SessionsAreSaved
<1> QED  BY <1>1, <1>2, <1>3, <1>4, <1>5

LEMMA OthersSave ==
    ASSUME AuthTypeOK, SavedInv,
           \/ \E r \in Changes : \/ EnableBegins(r) \/ DeleteBegins(r) \/ SaveReads(r)
                                 \/ SaveTruncates(r) \/ SaveWrites(r) \/ SetsMemory(r)
                                 \/ ClearsPending(r)
           \/ SetsUp
    PROVE  SavedInv'
<1>1. /\ \A q \in Logins : at'[q] = at[q]
      /\ UNCHANGED <<written, sessions, lock, sessionsFile, expired, up, cut>>
  BY Requests DEF EnableBegins, DeleteBegins, SaveReads, SaveTruncates, SaveWrites, SetsMemory,
     ClearsPending, SetsUp, Goes, AuthTypeOK, memory, files, rest
<1>2. WriterInv'
  BY <1>1, Requests DEF SavedInv, WriterInv, AuthTypeOK
<1> QED  BY <1>1, <1>2 DEF SavedInv, InsertedInv, SessionsAreSaved

LEMMA ServerSaves == ASSUME AuthTypeOK, SavedInv, ServerStops \/ ServerStarts PROVE SavedInv'
<1> USE Requests DEF files
<1>0. WriterInv /\ InsertedInv /\ SessionsAreSaved
  BY DEF SavedInv
<1>1. CASE ServerStops
  <2>1. /\ \A q \in Logins : at'[q] \in {"idle", "answered", "refused", "lost"}
        /\ \A q \in Logins : at'[q] = "answered" => at[q] = "answered"
        /\ ~up' /\ lock' = NoLogin /\ (cut' <=> cut \/ sessionsFile.torn)
        /\ UNCHANGED <<sessionsFile, expired>>
    BY <1>1 DEF ServerStops, AuthTypeOK
  <2> QED  BY <1>0, <2>1 DEF SavedInv, WriterInv, InsertedInv, SessionsAreSaved
<1>2. CASE ServerStarts
  <2>1. \A q \in Logins : at[q] \notin {"insert", "persist", "writing"}
    BY <1>0, <1>2 DEF InsertedInv, ServerStarts
  <2>2. lock = NoLogin /\ (sessionsFile.torn => cut)
    BY <1>0, <2>1 DEF WriterInv, AuthTypeOK
  <2>3. WriterInv' /\ InsertedInv'
    BY <1>0, <1>2, <2>1, <2>2 DEF ServerStarts, WriterInv, InsertedInv
  <2>4. SessionsAreSaved'
    BY <1>0, <1>2, <2>2 DEF ServerStarts, SessionsAreSaved
  <2> QED  BY <2>3, <2>4 DEF SavedInv
<1> QED  BY <1>1, <1>2

-----------------------------------------------------------------------------
(* The second factor *)

LEMMA AuthInitFactor == AuthInit => ChangeInv /\ FactorInv
BY Requests DEF AuthInit, ChangeInv, FactorInv

LEMMA ChangeFactor ==
    ASSUME AuthTypeOK, ChangeInv, FactorInv, NEW r \in Changes,
           \/ EnableBegins(r) \/ DeleteBegins(r) \/ SaveReads(r) \/ SaveTruncates(r)
           \/ SaveWrites(r) \/ SetsMemory(r) \/ ClearsPending(r)
    PROVE  ChangeInv' /\ FactorInv'
<1> USE Requests DEF memory, files, rest, wishes
<1>1. CASE EnableBegins(r) \/ DeleteBegins(r)
  <2>1. /\ at'[r] = "read" /\ up /\ secretOf'[r] \in wanted'
        /\ \A q \in Changes : q # r => at'[q] = at[q] /\ secretOf'[q] = secretOf[q]
        /\ UNCHANGED <<totp, configFile, up>>
        /\ wanted \subseteq wanted' /\ choices \subseteq choices' /\ wanted' \subseteq choices'
    <3>1. CASE EnableBegins(r)
      BY <3>1 DEF EnableBegins, Asks, In, Goes, AuthTypeOK, ChangeInv
    <3>2. CASE DeleteBegins(r)
      <4>1. secretOf[r] = NoSecret
        BY <3>2 DEF DeleteBegins, In, ChangeInv
      <4> QED  BY <3>2, <4>1 DEF DeleteBegins, Asks, In, Goes, AuthTypeOK, ChangeInv
    <3> QED  BY <1>1, <3>1, <3>2
  <2> QED  BY <2>1 DEF ChangeInv, FactorInv
<1>2. CASE SaveReads(r)
  <2>1. CASE configFile.is = "whole"
    <3>1. /\ at[r] = "read" /\ at'[r] = "truncate"
          /\ \A q \in Changes : q # r => at'[q] = at[q]
          /\ UNCHANGED <<secretOf, totp, configFile, up, wanted, choices>>
      BY <1>2, <2>1 DEF SaveReads, In, Goes, AuthTypeOK
    <3> QED  BY <3>1 DEF ChangeInv, FactorInv
  <2>2. CASE configFile.is # "whole"
    <3>1. /\ at[r] = "read" /\ at'[r] = "idle"
          /\ \A q \in Changes : q # r => at'[q] = at[q] /\ secretOf'[q] = secretOf[q]
          /\ secretOf'[r] = NoSecret
          /\ wanted' = (IF LastAtWork(r) THEN {} ELSE wanted)
          /\ UNCHANGED <<totp, configFile, up, choices>>
      BY <1>2, <2>2 DEF SaveReads, In, Goes, AuthTypeOK
    <3>2. wanted' = wanted \/ (wanted' = {} /\ \A q \in Changes : at'[q] = "idle")
      BY <3>1 DEF LastAtWork, Changing
    <3> QED  BY <3>1, <3>2 DEF ChangeInv, FactorInv
  <2> QED  BY <2>1, <2>2
<1>3. CASE SaveTruncates(r)
  <2>1. /\ at[r] = "truncate" /\ at'[r] = "save" /\ configFile'.is = "empty"
        /\ \A q \in Changes : q # r => at'[q] = at[q]
        /\ UNCHANGED <<secretOf, totp, up, wanted, choices>>
    BY <1>3 DEF SaveTruncates, In, Goes, AuthTypeOK
  <2> QED  BY <2>1 DEF ChangeInv, FactorInv
<1>4. CASE SaveWrites(r)
  <2>1. /\ at[r] = "save" /\ at'[r] = "memory" /\ configFile'.secret = secretOf[r]
        /\ \A q \in Changes : q # r => at'[q] = at[q]
        /\ UNCHANGED <<secretOf, totp, up, wanted, choices>>
    BY <1>4 DEF SaveWrites, Over, In, Goes, AuthTypeOK
  <2>2. secretOf[r] \in wanted
    BY <2>1 DEF ChangeInv
  <2> QED  BY <2>1, <2>2 DEF ChangeInv, FactorInv
<1>5. CASE SetsMemory(r)
  <2>1. /\ at[r] = "memory" /\ at'[r] = "clear" /\ totp' = secretOf[r]
        /\ \A q \in Changes : q # r => at'[q] = at[q]
        /\ UNCHANGED <<secretOf, configFile, up, wanted, choices>>
    BY <1>5 DEF SetsMemory, In, Goes, AuthTypeOK
  <2>2. secretOf[r] \in wanted
    BY <2>1 DEF ChangeInv
  <2> QED  BY <2>1, <2>2 DEF ChangeInv, FactorInv
<1>6. CASE ClearsPending(r)
  <2>1. /\ at[r] = "clear" /\ at'[r] = "idle"
        /\ \A q \in Changes : q # r => at'[q] = at[q] /\ secretOf'[q] = secretOf[q]
        /\ IF LastAtWork(r) THEN choices' = wanted /\ wanted' = {} ELSE UNCHANGED wishes
        /\ secretOf'[r] = NoSecret
        /\ UNCHANGED <<totp, configFile, up>>
    BY <1>6 DEF ClearsPending, In, Goes, AuthTypeOK
  <2>2. CASE LastAtWork(r)
    <3>1. \A q \in Changes : at'[q] = "idle"
      BY <2>1, <2>2 DEF LastAtWork, Changing
    <3> QED  BY <2>1, <2>2, <3>1 DEF ChangeInv, FactorInv
  <2>3. CASE ~LastAtWork(r)
    BY <2>1, <2>3 DEF ChangeInv, FactorInv
  <2> QED  BY <2>2, <2>3
<1> QED  BY <1>1, <1>2, <1>3, <1>4, <1>5, <1>6

LEMMA OthersFactor ==
    ASSUME AuthTypeOK, ChangeInv, FactorInv,
           \/ \E r \in Logins :
                 \/ \E codeRight \in BOOLEAN : LoginChecks(r, codeRight)
                 \/ LoginInserts(r) \/ PersistLocks(r) \/ PersistWrites(r) \/ Expires(r)
           \/ SetsUp \/ ServerStops \/ ServerStarts
    PROVE  ChangeInv' /\ FactorInv'
<1> USE Requests DEF memory, files, rest, wishes
<1>1. CASE SetsUp \/ \E r \in Logins :
                       \/ \E codeRight \in BOOLEAN : LoginChecks(r, codeRight)
                       \/ LoginInserts(r) \/ PersistLocks(r) \/ PersistWrites(r) \/ Expires(r)
  <2>1. /\ \A q \in Changes : at'[q] = at[q]
        /\ UNCHANGED <<secretOf, totp, configFile, up, wanted, choices>>
    BY <1>1 DEF SetsUp, LoginChecks, LoginInserts, PersistLocks, PersistWrites, Expires,
       Goes, AuthTypeOK
  <2> QED  BY <2>1 DEF ChangeInv, FactorInv
<1>2. CASE ServerStops
  <2>1. /\ \A q \in Changes : at'[q] = "idle" /\ secretOf'[q] = NoSecret
        /\ ~up' /\ wanted' = {} /\ UNCHANGED <<configFile, choices>>
    BY <1>2 DEF ServerStops
  <2> QED  BY <2>1 DEF ChangeInv, FactorInv
<1>3. CASE ServerStarts
  <2>1. \A q \in Changes : at[q] = "idle"
    BY <1>3 DEF ServerStarts, ChangeInv
  <2> QED  BY <1>3, <2>1 DEF ServerStarts, ChangeInv, FactorInv
<1> QED  BY <1>1, <1>2, <1>3

-----------------------------------------------------------------------------
(* The theorems *)

\* The types, for every set of requests.
THEOREM AuthTypeSafe == AuthSpec => []AuthTypeOK
BY AuthInitTypes, AuthTypesKept, PTL DEF AuthSpec

\* A session that was handed out is saved, however many logins, expiries and stops of the
\* server there are: persist_sessions keeps the lock while it writes.
THEOREM SessionsKept == AuthSpec => []SessionsAreSaved
<1>1. AuthTypeOK /\ SavedInv /\ [AuthNext]_authVars => SavedInv'
  <2> SUFFICES ASSUME AuthTypeOK, SavedInv, [AuthNext]_authVars PROVE SavedInv'
    OBVIOUS
  <2>1. CASE UNCHANGED authVars
    BY <2>1 DEF authVars, SavedInv, WriterInv, InsertedInv, SessionsAreSaved
  <2> QED  BY <2>1, LoginSaves, OthersSave, ServerSaves DEF AuthNext
<1>2. SavedInv => SessionsAreSaved
  BY DEF SavedInv
<1> QED  BY <1>1, <1>2, AuthInitSaved, AuthTypeSafe, PTL DEF AuthSpec

\* However many changes of the second factor run at once, and wherever the server is
\* stopped, memory and file hold what one of them asked for or what was in use before, and
\* the password alone opens nothing unless one of these is to have no second factor.
THEOREM FactorKept == AuthSpec => []FactorIsAsked
<1>1. AuthTypeOK /\ ChangeInv /\ FactorInv /\ [AuthNext]_authVars => ChangeInv' /\ FactorInv'
  <2> SUFFICES ASSUME AuthTypeOK, ChangeInv, FactorInv, [AuthNext]_authVars
               PROVE  ChangeInv' /\ FactorInv'
    OBVIOUS
  <2>1. CASE UNCHANGED authVars
    BY <2>1 DEF authVars, ChangeInv, FactorInv
  <2> QED  BY <2>1, ChangeFactor, OthersFactor DEF AuthNext
<1>2. AuthTypeOK /\ FactorInv => FactorIsAsked
  BY Requests DEF AuthTypeOK, FactorInv, FactorIsAsked, Passes
<1> QED  BY <1>1, <1>2, AuthInitFactor, AuthTypeSafe, PTL DEF AuthSpec
=============================================================================
