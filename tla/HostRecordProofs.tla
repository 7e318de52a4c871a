-------------------------- MODULE HostRecordProofs --------------------------
(***************************************************************************)
(* What holds of HostRecord for every number of requests, pairings and     *)
(* crashes.                                                                *)
(***************************************************************************)
EXTENDS HostRecord, TLAPS

Held    == {"work", "paired"} \cup PairLabels
Inside  == Held \cup {"lock"}

\* Nothing happens while the server is down.
DownInv == ~up => \A t \in Tasks : at[t] = "idle"

\* A request past its locks holds them, and the host it has found is there.
HoldInv ==
    \A t \in Reqs : /\ at[t] \in Inside => t \in readers /\ rec.present
                    /\ at[t] \in Held => hostLock = t

\* Only what is there is paired, and who is pairing has a certificate.
PairInv ==
    /\ \A i \in {Image(rec), file, snap} : ~i.present => i.paired = NoCert
    /\ \A t \in Reqs : /\ kind[t] \in {"pair", "pairing"} => cert[t] \in Certs
                       /\ at[t] \in PairLabels \cup {"paired"} => kind[t] = "pairing"

\* A request that has inserted the record and has still to signal it.
Inserted == rec.present /\ \E t \in Reqs : at[t] # "idle" /\ kind[t] = "putted"

\* What the writer is about to write is checked against the record even if the
\* file happens to show the record already.
SavedInv ==
    /\ up /\ ~failed /\ file # Image(rec) =>
         \/ token \/ Inserted
         \/ at[Writer] \in {"read", "lock"}
         \/ at[Writer] = "writing" /\ snap = Image(rec)
    /\ at[Writer] = "writing" /\ snap # Image(rec) => token \/ Inserted

Inv == /\ TypeOK /\ DownInv /\ HoldInv /\ PairInv /\ SavedInv
       /\ PairedIsTrusted /\ PairingHasInfo

LEMMA InitInv == Init => Inv
<1> SUFFICES ASSUME Init PROVE Inv
  OBVIOUS
<1> USE HostRecordAssumption DEF Init, NoHost, NoImage
<1>1. TypeOK
  <2>1. rec \in Records /\ snap \in Images /\ file \in Images
    BY DEF Records, Images
  <2>2. at \in [Tasks -> Labels] /\ kind \in [Reqs -> Kinds] /\ queue \in Seq(Tasks)
    BY DEF Labels, Kinds
  <2>3. cert \in [Reqs -> Certs \cup {NoCert}] /\ trusted \subseteq Certs
    OBVIOUS
  <2>4. /\ up \in BOOLEAN /\ token \in BOOLEAN /\ torn \in BOOLEAN /\ failed \in BOOLEAN
        /\ readers \subseteq Tasks /\ hostLock \in Reqs \cup {NoTask}
    OBVIOUS
  <2>5. pairs \in 0..MaxPairs /\ requests \in 0..MaxRequests /\ crashes \in 0..MaxCrashes
    OBVIOUS
  <2> HIDE DEF Init
  <2> QED  BY <2>1, <2>2, <2>3, <2>4, <2>5 DEF TypeOK
<1>2. DownInv /\ HoldInv /\ SavedInv /\ PairingHasInfo
  BY DEF DownInv, HoldInv, SavedInv, PairingHasInfo, Held, Inside, PairLabels, Tasks
<1>3. PairInv /\ PairedIsTrusted
  <2>1. rec.paired = NoCert /\ snap.paired = NoCert /\ file.paired = NoCert
    OBVIOUS
  <2>2. Image(rec).paired = NoCert
    BY DEF Image
  <2>3. PairedIsTrusted
    BY <2>1 DEF PairedIsTrusted
  <2>4. \A i \in {Image(rec), file, snap} : i.paired = NoCert
    BY <2>1, <2>2
  <2>5. \A t \in Reqs : kind[t] = "list" /\ at[t] = "idle"
    BY DEF Tasks
  <2> QED  BY <2>3, <2>4, <2>5 DEF PairInv, PairLabels
<1> QED  BY <1>1, <1>2, <1>3 DEF Inv

-----------------------------------------------------------------------------
(* The host is asked *)

\* Asking changes the cache only; an answer leaves information in it.
LEMMA HostInfoFacts ==
    ASSUME trusted \subseteq Certs, NEW r \in Records, NEW x \in HostInfo(r)
    PROVE  /\ x.rec \in Records
           /\ Image(x.rec) = Image(r)
           /\ x.ok => x.rec.info # "none"
<1>1. \/ x = [ok |-> TRUE, rec |-> r] /\ r.info # "none"
      \/ x = [ok |-> FALSE, rec |-> r]
      \/ x = [ok |-> FALSE, rec |-> [r EXCEPT !.tried = TRUE]]
      \/ \E b \in BOOLEAN, i \in {"http", "https"} :
            x = [ok |-> b, rec |-> [r EXCEPT !.info = i]]
  BY DEF HostInfo
<1>2. x.ok => x.rec.info # "none"
  BY <1>1 DEF Records
<1>3. x.rec \in {r, [r EXCEPT !.tried = TRUE], [r EXCEPT !.info = "http"],
                [r EXCEPT !.info = "https"]}
  BY <1>1
<1>4. x.rec \in Records
  BY <1>3 DEF Records
<1>5. Image(x.rec) = Image(r)
  BY <1>3 DEF Records, Image
<1> QED  BY <1>2, <1>4, <1>5

LEMMA ClearCacheFacts ==
    ASSUME NEW r \in Records
    PROVE  ClearCache(r) \in Records /\ Image(ClearCache(r)) = Image(r)
BY DEF ClearCache, Records, Image

LEMMA AskFacts ==
    ASSUME trusted \subseteq Certs, NEW r \in Records, NEW x \in Ask(r)
    PROVE  x.rec \in Records /\ Image(x.rec) = Image(r)
<1>1. PICK y \in HostInfo(r) : x \in HostInfo(y.rec)
  BY DEF Ask
<1>2. y.rec \in Records /\ Image(y.rec) = Image(r)
  BY HostInfoFacts
<1> QED  BY <1>1, <1>2, HostInfoFacts

\* What a request does that asks the host and returns.
Answered(t) ==
    /\ at[t] \in {"work", "paired"}
    /\ Finish(t)
    /\ rec' \in Records /\ Image(rec') = Image(rec)
    /\ token' \in BOOLEAN /\ (token => token')
    /\ at[t] = "work" /\ kind[t] = "putted" => token'
    /\ UNCHANGED <<up, queue, reqVars, snap, diskVars, trusted, counters>>

LEMMA Answers ==
    ASSUME TypeOK, NEW t \in Reqs, AskStep(t) \/ PutDone(t) \/ PairTold(t)
    PROVE  Answered(t)
<1>0. rec \in Records /\ trusted \subseteq Certs /\ token \in BOOLEAN
  BY DEF TypeOK
<1>1. CASE ListHosts(t)
  BY <1>0, <1>1, AskFacts DEF ListHosts, Answered
<1>2. CASE GetHost(t)
  <2>1. PICK r \in {rec, ClearCache(rec)} : \E x \in HostInfo(r) : \E y \in HostInfo(x.rec) :
          rec' = y.rec /\ token' = (token \/ x.ok)
    BY <1>2 DEF GetHost
  <2>2. PICK x \in HostInfo(r) : \E y \in HostInfo(x.rec) :
          rec' = y.rec /\ token' = (token \/ x.ok)
    BY <2>1
  <2>3. r \in Records /\ Image(r) = Image(rec)
    BY <1>0, ClearCacheFacts
  <2>4. x.rec \in Records /\ Image(x.rec) = Image(rec)
    BY <1>0, <2>3, HostInfoFacts
  <2>5. rec' \in Records /\ Image(rec') = Image(rec)
    BY <1>0, <2>2, <2>4, HostInfoFacts
  <2>6. token' \in BOOLEAN /\ (token => token')
    BY <1>0, <2>2
  <2> QED  BY <1>2, <2>5, <2>6 DEF GetHost, Answered
<1>3. CASE GetApps(t)
  <2>1. PICK r \in {rec, ClearCache(rec)} : rec' = r \/ \E x \in HostInfo(r) : rec' = x.rec
    BY <1>3 DEF GetApps
  <2>2. r \in Records /\ Image(r) = Image(rec)
    BY <1>0, ClearCacheFacts
  <2>3. rec' \in Records /\ Image(rec') = Image(rec)
    BY <1>0, <2>1, <2>2, HostInfoFacts
  <2> QED  BY <1>0, <1>3, <2>3 DEF GetApps, Answered
<1>4. CASE CancelHost(t)
  <2>1. CASE UNCHANGED rec
    BY <1>0, <1>4, <2>1 DEF CancelHost, Answered
  <2>2. CASE \E x \in HostInfo(rec) :
               rec' = x.rec \/ \E y \in HostInfo(ClearCache(x.rec)) : rec' = y.rec
    <3>1. PICK x \in HostInfo(rec) :
               rec' = x.rec \/ \E y \in HostInfo(ClearCache(x.rec)) : rec' = y.rec
      BY <2>2
    <3>2. x.rec \in Records /\ Image(x.rec) = Image(rec)
      BY <1>0, HostInfoFacts
    <3>3. ClearCache(x.rec) \in Records /\ Image(ClearCache(x.rec)) = Image(rec)
      BY <3>2, ClearCacheFacts
    <3>4. rec' \in Records /\ Image(rec') = Image(rec)
      BY <1>0, <3>1, <3>2, <3>3, HostInfoFacts
    <3> QED  BY <1>0, <1>4, <3>4 DEF CancelHost, Answered
  <2> QED  BY <1>4, <2>1, <2>2 DEF CancelHost
<1>5. CASE PutDone(t)
  BY <1>0, <1>5, AskFacts DEF PutDone, Answered
<1>6. CASE PairTold(t)
  <2>1. rec' \in Records /\ Image(rec') = Image(rec)
    BY <1>0, <1>6, AskFacts DEF PairTold
  <2> QED  BY <1>0, <1>6, <2>1 DEF PairTold, Answered, reqVars
<1> QED  BY <1>1, <1>2, <1>3, <1>4, <1>5, <1>6 DEF AskStep

\* The start reads the record from the file, and may learn something of the host.
LEMMA StartFacts ==
    ASSUME TypeOK, Start
    PROVE  rec' \in Records /\ Image(rec') = file
<1> DEFINE r == [NoHost EXCEPT !.present = file.present, !.paired = file.paired]
<1>1. r \in Records /\ Image(r) = file
  BY DEF TypeOK, NoHost, Records, Images, Image
<1>2. rec' = r \/ \E x \in Ask(r) : rec' = x.rec
  BY DEF Start, SetPairState
<1>3. trusted \subseteq Certs
  BY DEF TypeOK
<1> HIDE DEF r
<1> QED  BY <1>1, <1>2, <1>3, AskFacts

PairBeginsFacts(t) ==
    /\ rec' \in Records /\ Image(rec') = Image(rec)
    /\ at'[t] # "idle" => rec'.info # "none"

LEMMA PairBeginning ==
    ASSUME TypeOK, NEW t \in Reqs, PairBegins(t)
    PROVE  PairBeginsFacts(t)
<1>1. PICK x \in HostInfo(rec) :
        rec' = x.rec /\ (IF x.ok THEN Goto(t, "pair1") ELSE Finish(t))
  BY DEF PairBegins
<1>2. rec' \in Records /\ Image(rec') = Image(rec) /\ (x.ok => rec'.info # "none")
  BY <1>1, HostInfoFacts DEF TypeOK
<1>3. at'[t] # "idle" => x.ok
  BY <1>1 DEF Finish, Goto, TypeOK, Tasks
<1> QED  BY <1>2, <1>3 DEF PairBeginsFacts

-----------------------------------------------------------------------------
(* Every step keeps the types *)

LEMMA Moves ==
    ASSUME TypeOK, NEW t \in Tasks
    PROVE  /\ \A l \in Labels : Goto(t, l) => at' \in [Tasks -> Labels]
           /\ t \in Reqs /\ Finish(t) => /\ at' \in [Tasks -> Labels]
                                         /\ readers' \subseteq Tasks
                                         /\ hostLock' \in Reqs \cup {NoTask}
BY DEF TypeOK, Goto, Finish, Labels

LEMMA Queueing ==
    ASSUME TypeOK, NEW t \in Tasks
    PROVE  /\ Append(queue, t) \in Seq(Tasks)
           /\ queue # <<>> => /\ Tail(queue) \in Seq(Tasks)
                              /\ Append(Tail(queue), t) \in Seq(Tasks)
<1>1. queue \in Seq(Tasks)
  BY DEF TypeOK
<1>2. queue # <<>> => Tail(queue) \in Seq(Tasks)
  BY <1>1
<1> QED  BY <1>1, <1>2

LEMMA TypeStep == ASSUME Inv, [Next]_vars PROVE TypeOK'
<1> USE HostRecordAssumption DEF memVars, reqVars, diskVars, counters
<1>0. TypeOK /\ PairInv
  BY DEF Inv
<1>1. ASSUME NEW t \in Reqs, NEW k \in Kinds \ {"pairing", "putted"}, Submit(t, k)
      PROVE  TypeOK'
  <2>1. at' \in [Tasks -> Labels]
    BY <1>0, <1>1, Moves DEF Submit, Labels, Tasks
  <2>2. queue' \in Seq(Tasks)
    BY <1>0, <1>1 DEF Submit, TypeOK, Tasks
  <2>3. /\ pairs' \in 0..MaxPairs /\ requests' \in 0..MaxRequests
        /\ cert' \in [Reqs -> Certs \cup {NoCert}]
    BY <1>0, <1>1 DEF Submit, TypeOK, Certs
  <2> QED  BY <1>0, <1>1, <2>1, <2>2, <2>3 DEF Submit, TypeOK
<1>2. ASSUME NEW t \in Tasks, GetRead(t)
      PROVE  TypeOK'
  <2>1. at' \in [Tasks -> Labels]
    BY <1>0, <1>2, Moves DEF GetRead, Labels
  <2>2. queue' \in Seq(Tasks)
    BY <1>0, <1>2 DEF GetRead, Next1, TypeOK
  <2> QED  BY <1>0, <1>2, <2>1, <2>2 DEF GetRead, TypeOK
<1>3. ASSUME NEW t \in Reqs, Answered(t)
      PROVE  TypeOK'
  <2>1. /\ at' \in [Tasks -> Labels] /\ readers' \subseteq Tasks
        /\ hostLock' \in Reqs \cup {NoTask}
    BY <1>0, <1>3, Moves DEF Answered, Tasks
  <2> QED  BY <1>0, <1>3, <2>1 DEF Answered, TypeOK
<1>4. ASSUME NEW t \in Reqs, ReqStep(t)
      PROVE  TypeOK'
  <2>1. CASE GetRead(t) \/ AskStep(t) \/ PutDone(t) \/ PairTold(t)
    BY <1>0, <1>2, <1>3, <2>1, Answers DEF Tasks
  <2>2. CASE GetLock(t)
    BY <1>0, <2>2, Moves DEF GetLock, TypeOK, Labels, Tasks
  <2>3. CASE DeleteHost(t)
    <3>1. NoHost \in Records
      BY DEF NoHost, Records
    <3>2. at' \in [Tasks -> Labels] /\ queue' \in Seq(Tasks)
      BY <1>0, <2>3, Moves DEF DeleteHost, Next1, TypeOK, Labels, Tasks
    <3>3. token' \in BOOLEAN
      BY <1>0, <2>3 DEF DeleteHost, TypeOK, Records
    <3> QED  BY <1>0, <2>3, <3>1, <3>2, <3>3 DEF DeleteHost, TypeOK
  <2>4. CASE PutHost(t)
    <3>1. [NoHost EXCEPT !.present = TRUE, !.info = "http"] \in Records
      BY DEF NoHost, Records
    <3>2. at' \in [Tasks -> Labels]
      BY <1>0, <2>4, Moves DEF PutHost, Labels, Tasks
    <3>3. queue' \in Seq(Tasks)
      BY <1>0, <2>4, Queueing DEF PutHost, Next1, Tasks
    <3>4. rec' \in Records
      BY <1>0, <2>4, <3>1 DEF PutHost, TypeOK
    <3>5. kind' \in [Reqs -> Kinds]
      BY <1>0, <2>4 DEF PutHost, TypeOK, Kinds
    <3> QED  BY <1>0, <2>4, <3>2, <3>3, <3>4, <3>5 DEF PutHost, TypeOK
  <2>5. CASE PairCheck(t)
    <3>1. /\ at' \in [Tasks -> Labels] /\ readers' \subseteq Tasks
          /\ hostLock' \in Reqs \cup {NoTask}
      BY <1>0, <2>5, Moves DEF PairCheck, Labels, Tasks, TypeOK
    <3>2. queue' \in Seq(Tasks)
      <4>1. queue \in Seq(Tasks) /\ Append(queue, t) \in Seq(Tasks)
        BY <1>0, Queueing DEF Tasks, TypeOK
      <4>2. queue' = queue \/ queue' = Append(queue, t)
        BY <2>5 DEF PairCheck
      <4> QED  BY <4>1, <4>2
    <3>3. kind' \in [Reqs -> Kinds]
      BY <1>0, <2>5 DEF PairCheck, TypeOK, Kinds
    <3> QED  BY <1>0, <2>5, <3>1, <3>2, <3>3 DEF PairCheck, TypeOK
  <2>6. CASE PairBegins(t)
    <3>1. /\ at' \in [Tasks -> Labels] /\ readers' \subseteq Tasks
          /\ hostLock' \in Reqs \cup {NoTask}
      BY <1>0, <2>6, Moves DEF PairBegins, Labels, PairLabels, Tasks, TypeOK
    <3>2. rec' \in Records
      BY <1>0, <2>6, PairBeginning DEF PairBeginsFacts
    <3> QED  BY <1>0, <2>6, <3>1, <3>2 DEF PairBegins, TypeOK
  <2>7. CASE PairPhase(t)
    <3>1. at' \in [Tasks -> Labels]
      BY <1>0, <2>7, Moves DEF PairPhase, Labels, PairLabels, Tasks
    <3>2. trusted' \subseteq Certs
      BY <1>0, <2>7 DEF PairPhase, PairInv, PairLabels, TypeOK
    <3> QED  BY <1>0, <2>7, <3>1, <3>2 DEF PairPhase, TypeOK
  <2>8. CASE PairFails(t)
    BY <1>0, <2>8, Moves DEF PairFails, TypeOK, Tasks
  <2>9. CASE PairSucceeds(t)
    <3>1. rec' \in Records
      BY <1>0, <2>9 DEF PairSucceeds, ClearCache, TypeOK, Records
    <3>2. at' \in [Tasks -> Labels]
      BY <1>0, <2>9, Moves DEF PairSucceeds, Labels, Tasks
    <3> QED  BY <1>0, <2>9, <3>1, <3>2 DEF PairSucceeds, TypeOK
  <2> QED
    BY <1>4, <2>1, <2>2, <2>3, <2>4, <2>5, <2>6, <2>7, <2>8, <2>9 DEF ReqStep, PairStep
<1>5. ASSUME WriterStep
      PROVE  TypeOK'
  <2>1. CASE GetRead(Writer)
    BY <1>2, <2>1 DEF Tasks
  <2>2. CASE WriterWakes
    <3>1. Writer \in Tasks
      BY DEF Tasks
    <3>2. at' \in [Tasks -> Labels]
      BY <1>0, <2>2, <3>1, Moves DEF WriterWakes, Labels
    <3>3. queue' \in Seq(Tasks)
      BY <1>0, <2>2, <3>1, Queueing DEF WriterWakes
    <3> QED  BY <1>0, <2>2, <3>2, <3>3 DEF WriterWakes, TypeOK
  <2>3. CASE WriterSaves
    <3>1. Image(rec) \in Images
      BY <1>0 DEF TypeOK, Image, Images, Records
    <3> QED  BY <1>0, <2>3, <3>1, Moves DEF WriterSaves, TypeOK, Labels, Tasks
  <2>4. CASE WriterDone \/ WriterFails
    BY <1>0, <2>4, Moves DEF WriterDone, WriterFails, TypeOK, Labels, Tasks
  <2> QED  BY <1>5, <2>1, <2>2, <2>3, <2>4 DEF WriterStep
<1>6. CASE Crash
  <2>1. NoHost \in Records
    BY DEF NoHost, Records
  <2>2. at' \in [Tasks -> Labels] /\ queue' \in Seq(Tasks) /\ crashes' \in 0..MaxCrashes
    BY <1>0, <1>6 DEF Crash, Labels, TypeOK
  <2> QED  BY <1>0, <1>6, <2>1, <2>2 DEF Crash, TypeOK
<1>7. CASE Start
  <2>1. rec' \in Records
    BY <1>0, <1>7, StartFacts
  <2> QED  BY <1>0, <1>7, <2>1 DEF Start, TypeOK
<1>8. CASE UNCHANGED vars
  BY <1>0, <1>8 DEF vars, TypeOK
<1> QED  BY <1>1, <1>4, <1>5, <1>6, <1>7, <1>8 DEF Next

-----------------------------------------------------------------------------
(* Every step keeps the locks in order *)

LEMMA DownStep == ASSUME Inv, [Next]_vars PROVE DownInv'
<1> USE DEF memVars, reqVars, diskVars, counters
<1>0. TypeOK /\ DownInv
  BY DEF Inv
<1>1. CASE \E t \in Reqs, k \in Kinds \ {"pairing", "putted"} : Submit(t, k)
  BY <1>0, <1>1 DEF Submit, DownInv
<1>2. ASSUME NEW t \in Tasks, at[t] # "idle", UNCHANGED up
      PROVE  DownInv'
  BY <1>0, <1>2 DEF DownInv
<1>3. ASSUME NEW t \in Reqs, ReqStep(t)
      PROVE  DownInv'
  <2>1. at[t] # "idle" /\ UNCHANGED up
    BY <1>3 DEF ReqStep, PairStep, AskStep, GetRead, GetLock, ListHosts, GetHost, GetApps,
       CancelHost, PutDone, PairTold, DeleteHost, PutHost, PairCheck, PairBegins, PairPhase,
       PairFails, PairSucceeds, PairLabels
  <2> QED  BY <1>2, <2>1 DEF Tasks
<1>4. CASE WriterStep
  BY <1>0, <1>2, <1>4 DEF WriterStep, WriterWakes, GetRead, WriterSaves, WriterDone,
     WriterFails, Tasks, DownInv
<1>5. CASE Crash \/ Start \/ UNCHANGED vars
  BY <1>0, <1>5 DEF Crash, Start, vars, DownInv
<1> QED  BY <1>1, <1>3, <1>4, <1>5 DEF Next

LEMMA HoldStep == ASSUME Inv, [Next]_vars PROVE HoldInv'
<1> USE HostRecordAssumption DEF memVars, reqVars, diskVars, counters, Inside, Held, PairLabels
<1>0. TypeOK /\ DownInv /\ HoldInv
  BY DEF Inv
<1>1. ASSUME NEW t \in Reqs, NEW k \in Kinds \ {"pairing", "putted"}, Submit(t, k)
      PROVE  HoldInv'
  BY <1>0, <1>1 DEF Submit, Goto, HoldInv, TypeOK, Tasks
<1>2. ASSUME NEW t \in Tasks, GetRead(t)
      PROVE  HoldInv'
  BY <1>0, <1>2 DEF GetRead, Goto, HoldInv, TypeOK, Tasks
<1>3. ASSUME NEW t \in Reqs, Finish(t), at[t] \in Held, rec'.present = rec.present
      PROVE  HoldInv'
  BY <1>0, <1>3 DEF Finish, Goto, HoldInv, TypeOK, Tasks
<1>4. ASSUME NEW t \in Reqs, NEW l \in Labels, Goto(t, l), l \in Held, at[t] \in Held,
             UNCHANGED <<readers, hostLock>>, rec'.present = rec.present
      PROVE  HoldInv'
  BY <1>0, <1>4 DEF Goto, HoldInv, TypeOK, Tasks
<1>5. ASSUME NEW t \in Reqs, ReqStep(t)
      PROVE  HoldInv'
  <2>1. CASE AskStep(t) \/ PutDone(t) \/ PairTold(t)
    BY <1>0, <1>3, <2>1, Answers DEF Answered, Image
  <2>2. CASE GetRead(t)
    BY <1>2, <2>2 DEF Tasks
  <2>3. CASE GetLock(t)
    BY <1>0, <2>3 DEF GetLock, Goto, HoldInv, TypeOK, Tasks
  <2>4. CASE DeleteHost(t) \/ PutHost(t)
    <3>1. readers = {} /\ UNCHANGED readers
      BY <2>4 DEF DeleteHost, PutHost
    <3>2. \A s \in Reqs : at'[s] \notin Inside
      BY <1>0, <2>4, <3>1 DEF DeleteHost, PutHost, Goto, HoldInv, TypeOK, Tasks
    <3> QED  BY <3>2 DEF HoldInv
  <2>5. CASE PairCheck(t)
    BY <1>0, <2>5 DEF PairCheck, Finish, Goto, HoldInv, TypeOK, Tasks
  <2>6. CASE PairBegins(t)
    <3>1. rec'.present = rec.present
      BY <1>0, <2>6, PairBeginning DEF PairBeginsFacts, Image
    <3>2. at[t] \in Held
      BY <2>6 DEF PairBegins
    <3>3. CASE Finish(t)
      BY <1>3, <3>1, <3>2, <3>3
    <3>4. CASE Goto(t, "pair1") /\ UNCHANGED <<readers, hostLock>>
      BY <1>4, <3>1, <3>2, <3>4 DEF Labels
    <3> QED  BY <2>6, <3>3, <3>4 DEF PairBegins
  <2>7. CASE PairPhase(t)
    BY <1>0, <2>7 DEF PairPhase, Goto, HoldInv, TypeOK, Tasks
  <2>8. CASE PairFails(t)
    BY <1>3, <2>8 DEF PairFails
  <2>9. CASE PairSucceeds(t)
    <3>1. rec'.present = rec.present
      BY <1>0, <2>9 DEF PairSucceeds, ClearCache, TypeOK, Records
    <3> QED  BY <1>4, <2>9, <3>1 DEF PairSucceeds, Labels
  <2> QED
    BY <1>5, <2>1, <2>2, <2>3, <2>4, <2>5, <2>6, <2>7, <2>8, <2>9 DEF ReqStep, PairStep
<1>6. CASE WriterStep
  <2>1. CASE GetRead(Writer)
    BY <1>2, <2>1 DEF Tasks
  <2>2. CASE WriterWakes \/ WriterSaves \/ WriterDone \/ WriterFails
    BY <1>0, <2>2 DEF WriterWakes, WriterSaves, WriterDone, WriterFails, Goto, HoldInv,
       TypeOK, Tasks
  <2> QED  BY <1>6, <2>1, <2>2 DEF WriterStep
<1>7. CASE Crash
  BY <1>7 DEF Crash, HoldInv, Tasks
<1>8. CASE Start
  BY <1>0, <1>8 DEF Start, DownInv, HoldInv, Tasks
<1>9. CASE UNCHANGED vars
  BY <1>0, <1>9 DEF vars, HoldInv
<1> QED  BY <1>1, <1>5, <1>6, <1>7, <1>8, <1>9 DEF Next

-----------------------------------------------------------------------------
(* Every step keeps what is paired, and what is saved *)

\* What a step of a request does to the record and the signal.
LEMMA Changes ==
    ASSUME Inv, NEW t \in Reqs, ReqStep(t)
    PROVE  /\ token => token'
           /\ \/ Image(rec') = Image(rec)
              \/ token' /\ Image(rec') = NoImage
              \/ kind'[t] = "putted" /\ at'[t] = "read" /\ rec'.present /\ rec'.paired = NoCert
              \/ token' /\ rec'.present /\ cert[t] \in trusted /\ rec'.paired = cert[t]
<1>0. TypeOK /\ HoldInv /\ PairInv
  BY DEF Inv
<1>1. CASE AskStep(t) \/ PutDone(t) \/ PairTold(t)
  BY <1>0, <1>1, Answers DEF Answered
<1>2. CASE GetRead(t) \/ GetLock(t) \/ PairCheck(t) \/ PairPhase(t) \/ PairFails(t)
  BY <1>2 DEF GetRead, GetLock, PairCheck, PairPhase, PairFails, memVars
<1>3. CASE DeleteHost(t)
  <2>1. CASE rec.present
    BY <1>3, <2>1 DEF DeleteHost, NoHost, NoImage, Image
  <2>2. CASE ~rec.present
    <3>1. rec.present = FALSE /\ rec.paired = NoCert
      BY <1>0, <2>2 DEF Image, PairInv, TypeOK, Records
    <3>2. Image(rec) = NoImage /\ Image(NoHost) = NoImage
      BY <3>1 DEF NoHost, NoImage, Image
    <3> QED  BY <1>3, <3>2 DEF DeleteHost
  <2> QED  BY <2>1, <2>2
<1>4. CASE PutHost(t)
  BY <1>0, <1>4 DEF PutHost, NoHost, Goto, TypeOK, Tasks
<1>5. CASE PairBegins(t)
  BY <1>0, <1>5, PairBeginning DEF PairBegins, PairBeginsFacts
<1>6. CASE PairSucceeds(t)
  <2>1. rec.present
    BY <1>0, <1>6 DEF PairSucceeds, HoldInv, Inside, Held, PairLabels
  <2>2. rec'.present /\ rec'.paired = cert[t]
    BY <1>0, <1>6, <2>1 DEF PairSucceeds, ClearCache, TypeOK, Records
  <2> QED  BY <1>6, <2>2 DEF PairSucceeds
<1> QED  BY <1>1, <1>2, <1>3, <1>4, <1>5, <1>6 DEF ReqStep, PairStep

\* Requests do not touch the disk; only the host adds to what it trusts.
LEMMA Untouched ==
    ASSUME TypeOK, NEW t \in Reqs, ReqStep(t)
    PROVE  UNCHANGED <<up, snap, file, failed>> /\ trusted \subseteq trusted'
<1>1. CASE AskStep(t) \/ PutDone(t) \/ PairTold(t)
  BY <1>1, Answers DEF Answered, diskVars
<1>2. CASE GetRead(t) \/ GetLock(t) \/ DeleteHost(t) \/ PutHost(t) \/ PairCheck(t)
  BY <1>2 DEF GetRead, GetLock, DeleteHost, PutHost, PairCheck, diskVars
<1>3. CASE PairBegins(t) \/ PairPhase(t) \/ PairFails(t) \/ PairSucceeds(t)
  BY <1>3 DEF PairBegins, PairPhase, PairFails, PairSucceeds, diskVars
<1> QED  BY <1>1, <1>2, <1>3 DEF ReqStep, PairStep

LEMMA PairStepInv == ASSUME Inv, [Next]_vars PROVE PairInv' /\ PairedIsTrusted'
<1> USE HostRecordAssumption DEF memVars, reqVars, diskVars, counters
<1>0. TypeOK /\ DownInv /\ HoldInv /\ PairInv /\ PairedIsTrusted
  BY DEF Inv
<1> DEFINE Shape == \A i \in {Image(rec), file, snap} : ~i.present => i.paired = NoCert
           Paired == \A t \in Reqs :
             /\ kind[t] \in {"pair", "pairing"} => cert[t] \in Certs
             /\ at[t] \in PairLabels \cup {"paired"} => kind[t] = "pairing"
<1>1. ASSUME NEW t \in Reqs, NEW k \in Kinds \ {"pairing", "putted"}, Submit(t, k)
      PROVE  PairInv' /\ PairedIsTrusted'
  <2>1. k = "pair" => pairs' \in Certs
    BY <1>0, <1>1 DEF Submit, TypeOK, Certs
  <2>2. Paired'
    BY <1>0, <1>1, <2>1 DEF Submit, Goto, PairInv, TypeOK, Tasks, PairLabels
  <2> QED  BY <1>0, <1>1, <2>2 DEF Submit, PairInv, PairedIsTrusted
<1>2. ASSUME NEW t \in Tasks, GetRead(t)
      PROVE  PairInv' /\ PairedIsTrusted'
  <2>1. Paired'
    BY <1>0, <1>2 DEF GetRead, Goto, PairInv, TypeOK, Tasks, PairLabels
  <2> QED  BY <1>0, <1>2, <2>1 DEF GetRead, PairInv, PairedIsTrusted
<1>3. ASSUME NEW t \in Reqs, ReqStep(t)
      PROVE  PairInv' /\ PairedIsTrusted'
  <2>1. Paired'
    <3> USE DEF PairInv, TypeOK, Tasks, PairLabels
    <3>1. CASE AskStep(t) \/ PutDone(t) \/ PairTold(t)
      BY <1>0, <3>1, Answers DEF Answered, Finish, Goto
    <3>2. CASE GetRead(t) \/ GetLock(t) \/ DeleteHost(t)
      BY <1>0, <3>2 DEF GetRead, GetLock, DeleteHost, Goto
    <3>3. CASE PutHost(t)
      BY <1>0, <3>3 DEF PutHost, Goto
    <3>4. CASE PairCheck(t)
      BY <1>0, <3>4 DEF PairCheck, Finish, Goto
    <3>5. CASE PairBegins(t)
      BY <1>0, <3>5 DEF PairBegins, Finish, Goto
    <3>6. CASE PairPhase(t) \/ PairFails(t) \/ PairSucceeds(t)
      BY <1>0, <3>6 DEF PairPhase, PairFails, PairSucceeds, Finish, Goto
    <3> QED  BY <1>3, <3>1, <3>2, <3>3, <3>4, <3>5, <3>6 DEF ReqStep, PairStep
  <2>2. UNCHANGED <<snap, file>> /\ trusted \subseteq trusted'
    BY <1>0, <1>3, Untouched
  <2>3. ~Image(rec').present => Image(rec').paired = NoCert
    BY <1>0, <1>3, Changes DEF PairInv, Image, NoImage
  <2>4. rec'.paired # NoCert => rec'.paired \in trusted'
    BY <1>0, <1>3, <2>2, Changes DEF PairedIsTrusted, Image, NoImage
  <2> QED  BY <1>0, <2>1, <2>2, <2>3, <2>4 DEF PairInv, PairedIsTrusted
<1>4. CASE WriterStep
  <2>1. Paired'
    BY <1>0, <1>4 DEF WriterStep, WriterWakes, GetRead, WriterSaves, WriterDone, WriterFails,
       Goto, PairInv, TypeOK, Tasks, PairLabels
  <2>2. UNCHANGED <<rec, trusted>>
    BY <1>4 DEF WriterStep, WriterWakes, GetRead, WriterSaves, WriterDone, WriterFails
  <2>3. file' \in {file, snap} /\ snap' \in {snap, Image(rec)}
    BY <1>4 DEF WriterStep, WriterWakes, GetRead, WriterSaves, WriterDone, WriterFails
  <2>4. Shape'
    BY <1>0, <2>2, <2>3 DEF PairInv
  <2>5. PairedIsTrusted'
    BY <1>0, <2>2, <2>3 DEF PairedIsTrusted, Image
  <2> QED  BY <2>1, <2>4, <2>5 DEF PairInv
<1>5. CASE Crash
  <2>1. Paired'
    BY <1>0, <1>5 DEF Crash, PairInv, Tasks, PairLabels
  <2>2. Shape' /\ PairedIsTrusted'
    BY <1>0, <1>5 DEF Crash, PairInv, PairedIsTrusted, NoHost, Image
  <2> QED  BY <2>1, <2>2 DEF PairInv
<1>6. CASE Start
  <2>1. Image(rec') = file
    BY <1>0, <1>6, StartFacts
  <2>2. Shape' /\ Paired'
    BY <1>0, <1>6, <2>1 DEF Start, PairInv
  <2>3. PairedIsTrusted'
    BY <1>0, <1>6, <2>1 DEF Start, PairedIsTrusted, Image
  <2> QED  BY <2>2, <2>3 DEF PairInv
<1>7. CASE UNCHANGED vars
  BY <1>0, <1>7 DEF vars, PairInv, PairedIsTrusted
<1> QED  BY <1>1, <1>3, <1>4, <1>5, <1>6, <1>7 DEF Next

\* A step of a request keeps the promise that what has changed will be saved.
LEMMA SavedRequest == ASSUME Inv, NEW t \in Reqs, ReqStep(t) PROVE SavedInv'
<1>0. TypeOK /\ HoldInv /\ PairInv /\ SavedInv
  BY DEF Inv
<1>1. UNCHANGED <<up, snap, file, failed>> /\ (token => token')
  BY <1>0, Untouched, Changes
<1>2. at'[Writer] = at[Writer]
  <2> USE HostRecordAssumption DEF Goto, Finish, TypeOK, Tasks
  <2>1. CASE AskStep(t) \/ PutDone(t) \/ PairTold(t)
    BY <1>0, <2>1, Answers DEF Answered
  <2>2. CASE GetRead(t) \/ GetLock(t) \/ DeleteHost(t) \/ PutHost(t) \/ PairCheck(t)
    BY <1>0, <2>2 DEF GetRead, GetLock, DeleteHost, PutHost, PairCheck
  <2>3. CASE PairBegins(t)
    BY <1>0, <2>3 DEF PairBegins
  <2>4. CASE PairPhase(t) \/ PairFails(t) \/ PairSucceeds(t)
    BY <1>0, <2>4 DEF PairPhase, PairFails, PairSucceeds
  <2> QED  BY <2>1, <2>2, <2>3, <2>4 DEF ReqStep, PairStep
<1>3. CASE token'
  BY <1>3 DEF SavedInv
<1>4. CASE kind'[t] = "putted" /\ at'[t] = "read" /\ rec'.present
  BY <1>4 DEF SavedInv, Inserted
<1>5. CASE Image(rec') = Image(rec) /\ ~token'
  <2>1. rec'.present = rec.present
    BY <1>5 DEF Image
  <2>2. Inserted => Inserted'
    <3> SUFFICES ASSUME Inserted PROVE Inserted'
      OBVIOUS
    <3>1. PICK s \in Reqs : at[s] # "idle" /\ kind[s] = "putted"
      BY DEF Inserted
    <3>2. at'[s] # "idle" /\ kind'[s] = "putted"
      <4> USE <1>0, <1>5, <3>1 DEF Goto, Finish, TypeOK, Tasks
      <4>1. CASE AskStep(t) \/ PutDone(t) \/ PairTold(t)
        <5>1. Answered(t)
          BY <4>1, Answers
        <5>2. at[t] = "paired" => kind[t] = "pairing"
          BY DEF PairInv
        <5>3. s # t
          BY <5>1, <5>2 DEF Answered
        <5> QED  BY <5>1, <5>3 DEF Answered, reqVars
      <4>2. CASE GetRead(t)
        BY <4>2 DEF GetRead, Inserted, reqVars
      <4>3. CASE GetLock(t) \/ DeleteHost(t) \/ PutHost(t) \/ PairCheck(t)
        BY <4>3 DEF GetLock, DeleteHost, PutHost, PairCheck, reqVars
      <4>4. CASE PairBegins(t)
        BY <4>4 DEF PairBegins, reqVars
      <4>5. CASE PairPhase(t) \/ PairFails(t) \/ PairSucceeds(t)
        BY <4>5 DEF PairPhase, PairFails, PairSucceeds, PairInv, reqVars
      <4> QED  BY <4>1, <4>2, <4>3, <4>4, <4>5 DEF ReqStep, PairStep
    <3> QED  BY <2>1, <3>2 DEF Inserted
  <2> QED  BY <1>0, <1>1, <1>2, <1>5, <2>2 DEF SavedInv
<1> QED  BY <1>3, <1>4, <1>5, Changes

LEMMA SavedStep == ASSUME Inv, [Next]_vars PROVE SavedInv'
<1> USE HostRecordAssumption DEF memVars, reqVars, diskVars, counters
<1>0. TypeOK /\ DownInv /\ SavedInv
  BY DEF Inv
<1>1. ASSUME NEW t \in Reqs, NEW k \in Kinds \ {"pairing", "putted"}, Submit(t, k)
      PROVE  SavedInv'
  <2>1. Inserted => Inserted'
    BY <1>0, <1>1 DEF Submit, Goto, Inserted, TypeOK, Tasks
  <2>2. at'[Writer] = at[Writer]
    BY <1>0, <1>1 DEF Submit, Goto, TypeOK, Tasks
  <2> QED  BY <1>0, <1>1, <2>1, <2>2 DEF Submit, SavedInv
<1>2. CASE \E t \in Reqs : ReqStep(t)
  BY <1>2, SavedRequest
<1>3. CASE WriterStep
  <2>1. Inserted => Inserted'
    BY <1>0, <1>3 DEF WriterStep, WriterWakes, GetRead, WriterSaves, WriterDone, WriterFails,
       Goto, Inserted, TypeOK, Tasks
  <2>2. CASE WriterWakes \/ GetRead(Writer)
    BY <1>0, <2>1, <2>2 DEF WriterWakes, GetRead, Goto, SavedInv, TypeOK, Tasks
  <2>3. CASE WriterSaves
    BY <1>0, <2>1, <2>3 DEF WriterSaves, Goto, SavedInv, TypeOK, Tasks
  <2>4. CASE WriterDone \/ WriterFails
    BY <1>0, <2>1, <2>4 DEF WriterDone, WriterFails, Goto, SavedInv, TypeOK, Tasks
  <2> QED  BY <1>3, <2>2, <2>3, <2>4 DEF WriterStep
<1>4. CASE Crash
  BY <1>4 DEF Crash, SavedInv, Tasks
<1>5. CASE Start
  BY <1>0, <1>5, StartFacts DEF Start, SavedInv, DownInv, Tasks
<1>6. CASE UNCHANGED vars
  BY <1>0, <1>6 DEF vars, SavedInv, Inserted
<1> QED  BY <1>1, <1>2, <1>3, <1>4, <1>5, <1>6 DEF Next

\* Pairing keeps the host's mutex and hosts.read, so that nobody else clears the
\* cache meanwhile.
LEMMA InfoStep == ASSUME Inv, [Next]_vars PROVE PairingHasInfo'
<1> USE HostRecordAssumption DEF memVars, reqVars, diskVars, counters
<1>0. TypeOK /\ DownInv /\ HoldInv /\ PairingHasInfo
  BY DEF Inv
<1>1. SUFFICES ASSUME NEW s \in Reqs, at'[s] \in PairLabels PROVE rec'.info # "none"
  BY DEF PairingHasInfo
<1>2. ASSUME UNCHANGED rec, at[s] \in PairLabels
      PROVE  rec'.info # "none"
  BY <1>0, <1>2 DEF PairingHasInfo
<1>3. CASE \E t \in Reqs, k \in Kinds \ {"pairing", "putted"} : Submit(t, k)
  BY <1>0, <1>1, <1>2, <1>3 DEF Submit, Goto, TypeOK, Tasks, PairLabels
<1>4. ASSUME NEW t \in Reqs, ReqStep(t)
      PROVE  rec'.info # "none"
  <2> USE DEF Goto, Finish, TypeOK, Tasks, PairLabels
  <2>1. CASE s = t
    <3>1. CASE PairBegins(t)
      BY <1>0, <1>1, <2>1, <3>1, PairBeginning DEF PairBeginsFacts
    <3>2. CASE PairPhase(t)
      BY <1>0, <2>1, <3>2 DEF PairPhase, PairingHasInfo
    <3>3. at'[t] \notin PairLabels \/ PairBegins(t) \/ PairPhase(t)
      <4>1. CASE AskStep(t) \/ PutDone(t) \/ PairTold(t)
        BY <1>0, <4>1, Answers DEF Answered
      <4>2. CASE GetRead(t) \/ GetLock(t) \/ DeleteHost(t) \/ PutHost(t) \/ PairCheck(t)
        BY <1>0, <4>2 DEF GetRead, GetLock, DeleteHost, PutHost, PairCheck
      <4>3. CASE PairFails(t) \/ PairSucceeds(t)
        BY <1>0, <4>3 DEF PairFails, PairSucceeds
      <4> QED  BY <1>4, <4>1, <4>2, <4>3 DEF ReqStep, PairStep
    <3> QED  BY <1>1, <2>1, <3>1, <3>2, <3>3
  <2>2. CASE s # t
    <3>1. at'[s] = at[s]
      <4>1. CASE AskStep(t) \/ PutDone(t) \/ PairTold(t)
        BY <1>0, <2>2, <4>1, Answers DEF Answered
      <4>2. CASE GetRead(t) \/ GetLock(t) \/ DeleteHost(t) \/ PutHost(t) \/ PairCheck(t)
        BY <1>0, <2>2, <4>2 DEF GetRead, GetLock, DeleteHost, PutHost, PairCheck
      <4>3. CASE PairBegins(t)
        BY <1>0, <2>2, <4>3 DEF PairBegins
      <4>4. CASE PairPhase(t) \/ PairFails(t) \/ PairSucceeds(t)
        BY <1>0, <2>2, <4>4 DEF PairPhase, PairFails, PairSucceeds
      <4> QED  BY <1>4, <4>1, <4>2, <4>3, <4>4 DEF ReqStep, PairStep
    <3>2. hostLock = s /\ s \in readers
      BY <1>0, <1>1, <3>1 DEF HoldInv, Inside, Held
    <3>3. at[t] \notin Held
      BY <1>0, <2>2, <3>2 DEF HoldInv
    <3>4. GetRead(t) \/ GetLock(t)
      <4>1. ~(AskStep(t) \/ PutDone(t) \/ PairTold(t))
        BY <1>0, <3>3, Answers DEF Answered, Held
      <4>2. ~(DeleteHost(t) \/ PutHost(t))
        BY <3>2 DEF DeleteHost, PutHost
      <4>3. ~(PairCheck(t) \/ PairBegins(t) \/ PairPhase(t) \/ PairFails(t) \/ PairSucceeds(t))
        BY <3>3 DEF PairCheck, PairBegins, PairPhase, PairFails, PairSucceeds, Held
      <4> QED  BY <1>4, <4>1, <4>2, <4>3 DEF ReqStep, PairStep
    <3> QED  BY <1>1, <1>2, <3>1, <3>4 DEF GetRead, GetLock
  <2> QED  BY <2>1, <2>2
<1>5. CASE WriterStep
  <2>1. UNCHANGED rec
    BY <1>5 DEF WriterStep, WriterWakes, GetRead, WriterSaves, WriterDone, WriterFails
  <2>2. at[s] \in PairLabels
    BY <1>0, <1>1, <1>5 DEF WriterStep, WriterWakes, GetRead, WriterSaves, WriterDone,
       WriterFails, Goto, TypeOK, Tasks, PairLabels
  <2> QED  BY <1>2, <2>1, <2>2
<1>6. CASE Crash
  BY <1>1, <1>6 DEF Crash, Tasks, PairLabels
<1>7. CASE Start
  BY <1>0, <1>1, <1>7 DEF Start, DownInv, Tasks, PairLabels
<1>8. CASE UNCHANGED vars
  BY <1>1, <1>2, <1>8 DEF vars
<1> QED  BY <1>3, <1>4, <1>5, <1>6, <1>7, <1>8 DEF Next

-----------------------------------------------------------------------------

\* Every reachable state satisfies the invariant of the record.
THEOREM InvHolds == Spec => []Inv
<1>1. Inv /\ [Next]_vars => Inv'
  BY TypeStep, DownStep, HoldStep, PairStepInv, SavedStep, InfoStep DEF Inv
<1> QED  BY InitInv, <1>1, PTL DEF Spec

\* The state of the record, the locks, the writer and the file is well typed.
THEOREM RecordTypeSafe == Spec => []TypeOK
<1>1. Inv => TypeOK
  BY DEF Inv
<1> QED  BY InvHolds, <1>1, PTL

\* No change of a record is forgotten by the writer task, whatever requests,
\* saves, failed writes and crashes interleave.
THEOREM ChangesReachTheFile == Spec => []NothingUnsaved
<1>1. Inv => NothingUnsaved
  BY DEF Inv, SavedInv, Inserted, NothingUnsaved
<1> QED  BY InvHolds, <1>1, PTL

\* A pairing in memory or on disk is one the host has accepted.
THEOREM PairingsAreTrusted == Spec => []PairedIsTrusted
<1>1. Inv => PairedIsTrusted
  BY DEF Inv
<1> QED  BY InvHolds, <1>1, PTL

\* The information about the host stays for the whole of a pairing.
THEOREM PairingKeepsInfo == Spec => []PairingHasInfo
<1>1. Inv => PairingHasInfo
  BY DEF Inv
<1> QED  BY InvHolds, <1>1, PTL
=============================================================================
