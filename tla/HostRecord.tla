----------------------------- MODULE HostRecord -----------------------------
(***************************************************************************)
(* The web server's record of a GameStream host and its copy on disk       *)
(* (moonlight-web/web-server/src/api/mod.rs, data.rs,                      *)
(* moonlight-common/src/high.rs, pair.rs).                                 *)
(*                                                                         *)
(* Requests of browsers read and change the record under two locks: the    *)
(* RwLock over all hosts, which serves its waiters in order, and the mutex *)
(* of the host, which is held while the host is asked for something, for   *)
(* the whole of pairing too.  Changes are signalled to the writer task     *)
(* through a channel with room for one signal.  The server may crash at    *)
(* any point and read the file again.                                      *)
(***************************************************************************)
EXTENDS Naturals, Sequences

CONSTANTS
    Reqs,         \* requests being served at the same time
    NoTask,       \* the absence of a lock holder
    MaxPairs,     \* bound: pairing requests in a behaviour
    MaxRequests,  \* bound: requests received in a behaviour
    MaxCrashes    \* bound: crashes of the server

Writer == "writer"                    \* file_writer in data.rs
Tasks  == Reqs \cup {Writer}

ASSUME HostRecordAssumption ==
    /\ Writer \notin Reqs
    /\ NoTask \notin Tasks
    /\ MaxPairs \in Nat
    /\ MaxRequests \in Nat
    /\ MaxCrashes \in Nat

NoCert == 0
Certs  == 1..MaxPairs      \* generate_new_client makes one for every pairing

VARIABLES
    up,        \* the server runs
    rec,       \* the record of the host
    token,     \* a signal is in the file_writer channel
    readers,   \* tasks that hold the hosts lock for reading
    queue,     \* tasks waiting for it, in order
    hostLock,  \* task that holds the host's mutex
    at,        \* where each task is
    kind,      \* what a request is about
    cert,      \* certificate a request is pairing with
    snap,      \* image the writer is writing
    file,      \* image on disk
    torn,      \* the file has been truncated and not written
    failed,    \* a write has failed and none succeeded since
    trusted,   \* certificates the host accepts (external)
    pairs, requests, crashes    \* the bounded counters

memVars  == <<rec, token, readers, queue, hostLock>>
reqVars  == <<kind, cert>>
diskVars == <<file, torn, failed>>
counters == <<pairs, requests, crashes>>
vars     == <<up, memVars, at, reqVars, snap, diskVars, trusted, counters>>

Kinds      == {"list", "get", "apps", "cancel", "pair", "pairing",
               "put", "putted", "delete"}
PairLabels == {"pair1", "pair2", "pair3", "pair4", "pair5"}
Labels     == {"idle", "read", "lock", "write", "work", "paired", "writing"} \cup PairLabels
Records    == [present : BOOLEAN, paired : Certs \cup {NoCert},
               tried : BOOLEAN, info : {"none", "http", "https"}]
Images     == [present : BOOLEAN, paired : Certs \cup {NoCert}]

TypeOK ==
    /\ up \in BOOLEAN
    /\ rec \in Records
    /\ token \in BOOLEAN
    /\ readers \subseteq Tasks
    /\ queue \in Seq(Tasks)
    /\ hostLock \in Reqs \cup {NoTask}
    /\ at \in [Tasks -> Labels]
    /\ kind \in [Reqs -> Kinds]
    /\ cert \in [Reqs -> Certs \cup {NoCert}]
    /\ snap \in Images
    /\ file \in Images
    /\ torn \in BOOLEAN
    /\ failed \in BOOLEAN
    /\ trusted \subseteq Certs
    /\ pairs \in 0..MaxPairs
    /\ requests \in 0..MaxRequests
    /\ crashes \in 0..MaxCrashes

NoHost   == [present |-> FALSE, paired |-> NoCert, tried |-> FALSE, info |-> "none"]
NoImage  == [present |-> FALSE, paired |-> NoCert]
Image(r) == [present |-> r.present, paired |-> r.paired]

\* A server that is about to start, with or without this host in its file.
Init ==
    /\ up = FALSE
    /\ rec = NoHost
    /\ token = FALSE
    /\ readers = {}
    /\ queue = <<>>
    /\ hostLock = NoTask
    /\ at = [t \in Tasks |-> "idle"]
    /\ kind = [t \in Reqs |-> "list"]
    /\ cert = [t \in Reqs |-> NoCert]
    /\ snap = NoImage
    /\ file \in [present : BOOLEAN, paired : {NoCert}]
    /\ torn = FALSE
    /\ failed = FALSE
    /\ trusted = {}
    /\ pairs = 0 /\ requests = 0 /\ crashes = 0

-----------------------------------------------------------------------------
(* MoonlightHost: the cached information about the host *)

ClearCache(r) == [r EXCEPT !.tried = FALSE, !.info = "none"]

\* The outcomes of host_info: a request to a host may always fail.  What was
\* fetched over HTTP stays when the authenticated request fails after it.
HostInfo(r) ==
    IF r.info # "none" THEN {[ok |-> TRUE, rec |-> r]}
    ELSE IF r.tried THEN {[ok |-> FALSE, rec |-> r]}
    ELSE {[ok |-> FALSE, rec |-> [r EXCEPT !.tried = TRUE]]}
         \cup (IF r.paired = NoCert
               THEN {[ok |-> TRUE, rec |-> [r EXCEPT !.info = "http"]]}
               ELSE {[ok |-> FALSE, rec |-> [r EXCEPT !.info = "http"]]})
         \cup (IF r.paired \in trusted
               THEN {[ok |-> TRUE, rec |-> [r EXCEPT !.info = "https"]]}
               ELSE {})

\* Every handler asks for several fields; from the second call on nothing changes.
Ask(r) == UNION {HostInfo(x.rec) : x \in HostInfo(r)}

-----------------------------------------------------------------------------
(* Receiving requests, and the locks *)

Goto(t, l) == at' = [at EXCEPT ![t] = l]

\* A request returns and drops its guards.
Finish(t) ==
    /\ Goto(t, "idle")
    /\ readers' = readers \ {t}
    /\ hostLock' = IF hostLock = t THEN NoTask ELSE hostLock

\* put_host asks the new host first, and may find it unreachable.
Submit(t, k) ==
    /\ up
    /\ at[t] = "idle"
    /\ requests < MaxRequests
    /\ requests' = requests + 1
    /\ kind' = [kind EXCEPT ![t] = k]
    /\ IF k = "pair"
       THEN pairs < MaxPairs /\ pairs' = pairs + 1 /\ cert' = [cert EXCEPT ![t] = pairs']
       ELSE UNCHANGED <<pairs, cert>>
    /\ queue' = Append(queue, t)
    /\ Goto(t, IF k \in {"put", "delete"} THEN "write" ELSE "read")
    /\ UNCHANGED <<up, rec, token, readers, hostLock, snap, diskVars, trusted, crashes>>

Next1(t) == queue # <<>> /\ Head(queue) = t

\* hosts.read() is granted; without the host there is nothing to do, except
\* for the writer, which saves an empty list.
GetRead(t) ==
    /\ at[t] = "read"
    /\ Next1(t)
    /\ queue' = Tail(queue)
    /\ IF rec.present \/ t = Writer
       THEN Goto(t, "lock") /\ readers' = readers \cup {t}
       ELSE Goto(t, "idle") /\ UNCHANGED readers
    /\ UNCHANGED <<up, rec, token, hostLock, reqVars, snap, diskVars, trusted, counters>>

GetLock(t) ==
    /\ at[t] = "lock"
    /\ hostLock = NoTask
    /\ hostLock' = t
    /\ Goto(t, "work")
    /\ UNCHANGED <<up, rec, token, readers, queue, reqVars, snap, diskVars, trusted, counters>>

-----------------------------------------------------------------------------
(* Requests that only ask *)

ListHosts(t) ==
    /\ at[t] = "work" /\ kind[t] = "list"
    /\ \E x \in Ask(rec) : rec' = x.rec
    /\ Finish(t)
    /\ UNCHANGED <<up, token, queue, reqVars, snap, diskVars, trusted, counters>>

\* With or without force_refresh.  try_recache signals a change when the name
\* was found.
GetHost(t) ==
    /\ at[t] = "work" /\ kind[t] = "get"
    /\ \E r \in {rec, ClearCache(rec)} : \E x \in HostInfo(r) : \E y \in HostInfo(x.rec) :
         /\ rec' = y.rec
         /\ token' = (token \/ x.ok)
    /\ Finish(t)
    /\ UNCHANGED <<up, queue, reqVars, snap, diskVars, trusted, counters>>

\* get_apps and get_app_image, with or without force_refresh: nothing is asked
\* of a host that is not paired.
GetApps(t) ==
    /\ at[t] = "work" /\ kind[t] = "apps"
    /\ \E r \in {rec, ClearCache(rec)} :
         IF r.paired = NoCert THEN rec' = r ELSE \E x \in HostInfo(r) : rec' = x.rec
    /\ Finish(t)
    /\ UNCHANGED <<up, token, queue, reqVars, snap, diskVars, trusted, counters>>

\* The session is cancelled, unless a request fails; then the host is asked anew.
CancelHost(t) ==
    /\ at[t] = "work" /\ kind[t] = "cancel"
    /\ IF rec.paired = NoCert
       THEN UNCHANGED rec
       ELSE \E x \in HostInfo(rec) :
              \/ rec' = x.rec
              \/ x.ok /\ \E y \in HostInfo(ClearCache(x.rec)) : rec' = y.rec
    /\ Finish(t)
    /\ UNCHANGED <<up, token, queue, reqVars, snap, diskVars, trusted, counters>>

-----------------------------------------------------------------------------
(* put_host and delete_host *)

DeleteHost(t) ==
    /\ at[t] = "write" /\ kind[t] = "delete"
    /\ Next1(t) /\ readers = {}
    /\ queue' = Tail(queue)
    /\ rec' = NoHost
    /\ token' = (token \/ rec.present)
    /\ Goto(t, "idle")
    /\ UNCHANGED <<up, readers, hostLock, reqVars, snap, diskVars, trusted, counters>>

\* hosts.write() is granted: the record is inserted; then hosts.read() is asked
\* for.  (While this host is there, the new record is another one.)
PutHost(t) ==
    /\ at[t] = "write" /\ kind[t] = "put"
    /\ Next1(t) /\ readers = {}
    /\ IF rec.present
       THEN /\ queue' = Tail(queue)
            /\ Goto(t, "idle")
            /\ UNCHANGED <<rec, kind>>
       ELSE /\ queue' = Append(Tail(queue), t)
            /\ rec' = [NoHost EXCEPT !.present = TRUE, !.info = "http"]
            /\ kind' = [kind EXCEPT ![t] = "putted"]
            /\ Goto(t, "read")
    /\ UNCHANGED <<up, token, readers, hostLock, cert, snap, diskVars,
                   trusted, counters>>

PutDone(t) ==
    /\ at[t] = "work" /\ kind[t] = "putted"
    /\ token' = TRUE
    /\ \E x \in Ask(rec) : rec' = x.rec
    /\ Finish(t)
    /\ UNCHANGED <<up, queue, reqVars, snap, diskVars, trusted, counters>>

-----------------------------------------------------------------------------
(* pair_host, MoonlightHost::pair and host_pair *)

\* Bug: the guards live on in the response stream, which takes new ones.
PairCheckKeepsGuards(t) ==
    /\ at[t] = "work" /\ kind[t] = "pair"
    /\ IF rec.paired # NoCert
       THEN Finish(t) /\ UNCHANGED <<kind, queue>>
       ELSE /\ kind' = [kind EXCEPT ![t] = "pairing"]
            /\ queue' = Append(queue, t)
            /\ Goto(t, "read")
            /\ hostLock' = NoTask
            /\ UNCHANGED readers
    /\ UNCHANGED <<up, rec, token, cert, snap, diskVars, trusted, counters>>

\* The handler sees whether the host is paired, and drops its guards; the
\* response stream it returns takes them anew.
PairCheck(t) ==
    /\ at[t] = "work" /\ kind[t] = "pair"
    /\ IF rec.paired # NoCert
       THEN Finish(t) /\ UNCHANGED <<kind, queue>>
       ELSE /\ kind' = [kind EXCEPT ![t] = "pairing"]
            /\ queue' = Append(queue, t)
            /\ Goto(t, "read")
            /\ readers' = readers \ {t}
            /\ hostLock' = NoTask
    /\ UNCHANGED <<up, rec, token, cert, snap, diskVars, trusted, counters>>

\* A new client certificate; the version and the HTTPS address are looked up.
PairBegins(t) ==
    /\ at[t] = "work" /\ kind[t] = "pairing"
    /\ \E x \in HostInfo(rec) :
         /\ rec' = x.rec
         /\ IF x.ok THEN Goto(t, "pair1") /\ UNCHANGED <<readers, hostLock>>
                    ELSE Finish(t)
    /\ UNCHANGED <<up, token, queue, reqVars, snap, diskVars, trusted, counters>>

\* A phase succeeds; in the fourth the host learns the certificate.
PairPhase(t) ==
    /\ \/ at[t] = "pair1" /\ Goto(t, "pair2") /\ UNCHANGED trusted
       \/ at[t] = "pair2" /\ Goto(t, "pair3") /\ UNCHANGED trusted
       \/ at[t] = "pair3" /\ Goto(t, "pair4") /\ UNCHANGED trusted
       \/ at[t] = "pair4" /\ Goto(t, "pair5") /\ trusted' = trusted \cup {cert[t]}
    /\ UNCHANGED <<up, memVars, reqVars, snap, diskVars, counters>>

\* A request fails, the host refuses, a proof is wrong, or the browser goes away
\* and the stream is dropped.  (The host is told to unpair after a refusal, which
\* ends the pairing it has begun; it may keep a certificate nobody uses.)
PairFails(t) ==
    /\ at[t] \in PairLabels
    /\ Finish(t)
    /\ UNCHANGED <<up, rec, token, queue, reqVars, snap, diskVars, trusted, counters>>

\* Bug: the host is taken for paired before it has confirmed it.
PairSucceedsEarly(t) ==
    /\ at[t] = "pair4"
    /\ rec' = ClearCache([rec EXCEPT !.paired = cert[t]])
    /\ token' = TRUE
    /\ Goto(t, "paired")
    /\ UNCHANGED <<up, readers, queue, hostLock, reqVars, snap, diskVars, trusted, counters>>

\* The fifth phase is an HTTPS request with the new certificate.
PairSucceeds(t) ==
    /\ at[t] = "pair5"
    /\ cert[t] \in trusted
    /\ rec' = ClearCache([rec EXCEPT !.paired = cert[t]])
    /\ token' = TRUE
    /\ Goto(t, "paired")
    /\ UNCHANGED <<up, readers, queue, hostLock, reqVars, snap, diskVars, trusted, counters>>

\* The browser is told the details of the host, or that they cannot be had.
PairTold(t) ==
    /\ at[t] = "paired"
    /\ \E x \in Ask(rec) : rec' = x.rec
    /\ Finish(t)
    /\ UNCHANGED <<up, token, queue, kind, cert, snap, diskVars, trusted, counters>>

-----------------------------------------------------------------------------
(* file_writer *)

WriterWakes ==
    /\ up
    /\ at[Writer] = "idle"
    /\ token
    /\ token' = FALSE
    /\ queue' = Append(queue, Writer)
    /\ Goto(Writer, "read")
    /\ UNCHANGED <<up, rec, readers, hostLock, reqVars, snap, diskVars, trusted, counters>>

\* save() collects the data under the locks; fs::write then truncates the file.
WriterSaves ==
    /\ at[Writer] = "lock"
    /\ rec.present => hostLock = NoTask
    /\ snap' = Image(rec)
    /\ readers' = readers \ {Writer}
    /\ torn' = TRUE
    /\ Goto(Writer, "writing")
    /\ UNCHANGED <<up, rec, token, queue, hostLock, reqVars, file, failed, trusted, counters>>

\* Bug: signals that came while the file was written are taken with it.
WriterDoneDrains ==
    /\ at[Writer] = "writing"
    /\ file' = snap
    /\ torn' = FALSE
    /\ failed' = FALSE
    /\ token' = FALSE
    /\ Goto(Writer, "idle")
    /\ UNCHANGED <<up, rec, readers, queue, hostLock, reqVars, snap, trusted, counters>>

WriterDone ==
    /\ at[Writer] = "writing"
    /\ file' = snap
    /\ torn' = FALSE
    /\ failed' = FALSE
    /\ Goto(Writer, "idle")
    /\ UNCHANGED <<up, memVars, reqVars, snap, trusted, counters>>

\* Only a warning; the file may be as it was, or cut off.
WriterFails ==
    /\ at[Writer] = "writing"
    /\ failed' = TRUE
    /\ torn' \in BOOLEAN
    /\ Goto(Writer, "idle")
    /\ UNCHANGED <<up, memVars, reqVars, snap, file, trusted, counters>>

-----------------------------------------------------------------------------
(* Start and crash *)

Crash ==
    /\ up
    /\ crashes < MaxCrashes
    /\ crashes' = crashes + 1
    /\ up' = FALSE
    /\ rec' = NoHost
    /\ token' = FALSE
    /\ readers' = {} /\ queue' = <<>> /\ hostLock' = NoTask
    /\ at' = [t \in Tasks |-> "idle"]
    /\ UNCHANGED <<reqVars, snap, diskVars, trusted, pairs, requests>>

\* set_pair_state and load: the pairing is taken over, verified if the host answers,
\* and kept even if not.
SetPairState(r) == {x.rec : x \in Ask(r)}

\* A file that cannot be parsed ends the start.
Start ==
    /\ ~up
    /\ ~torn
    /\ up' = TRUE
    /\ failed' = FALSE
    /\ LET r == [NoHost EXCEPT !.present = file.present, !.paired = file.paired]
       IN  rec' \in IF file.present THEN SetPairState(r) ELSE {r}
    /\ UNCHANGED <<token, readers, queue, hostLock, at, reqVars, snap, file, torn,
                   trusted, counters>>

-----------------------------------------------------------------------------

AskStep(t)  == ListHosts(t) \/ GetHost(t) \/ GetApps(t) \/ CancelHost(t)
PairStep(t) == \/ PairCheck(t) \/ PairBegins(t) \/ PairPhase(t) \/ PairFails(t)
               \/ PairSucceeds(t) \/ PairTold(t)

ReqStep(t) ==
    \/ GetRead(t) \/ GetLock(t)
    \/ AskStep(t) \/ PairStep(t)
    \/ DeleteHost(t) \/ PutHost(t) \/ PutDone(t)

WriterStep == WriterWakes \/ GetRead(Writer) \/ WriterSaves \/ WriterDone \/ WriterFails

Next ==
    \/ \E t \in Reqs, k \in Kinds \ {"pairing", "putted"} : Submit(t, k)
    \/ \E t \in Reqs : ReqStep(t)
    \/ WriterStep
    \/ Crash \/ Start

Spec == Init /\ [][Next]_vars

\* Tasks run on, and requests to the host end (the clients have timeouts).
\* The host's mutex is FIFO as well, but as the requests of a behaviour are
\* bounded, a task gets it in the end without that being assumed.  Nothing is
\* assumed of browsers and of the host.
Fairness ==
    /\ \A t \in Reqs : WF_vars(ReqStep(t))
    /\ WF_vars(WriterStep)

FairSpec == Spec /\ Fairness

-----------------------------------------------------------------------------
(* Properties *)

\* What the file does not show yet is on its way there: a signal is waiting,
\* the writer has still to collect the data, what it writes is what is in memory,
\* or the request that made the change has still to signal it (the purpose of
\* the channel of capacity 1 in data.rs).
NothingUnsaved ==
    up /\ ~failed /\ file # Image(rec) =>
        \/ token
        \/ at[Writer] \in {"read", "lock"}
        \/ at[Writer] = "writing" /\ snap = Image(rec)
        \/ \E t \in Reqs : at[t] # "idle" /\ kind[t] = "putted"

\* The certificate a record is paired with, in memory and on disk, is one the
\* host accepted in a complete pairing, whatever failed or crashed meanwhile.
PairedIsTrusted ==
    {rec.paired, file.paired, snap.paired} \ {NoCert} \subseteq trusted

\* pair() has the information about the host until it is done (its
\* unreachable!() is unreachable), although other requests may clear it.
PairingHasInfo == \A t \in Reqs : at[t] \in PairLabels => rec.info # "none"

\* Every request is answered and every save ends, although hosts.read is held
\* across pairing and waiting writers hold back new readers.
RequestsAnswered == \A t \in Tasks : at[t] # "idle" ~> at[t] = "idle"
=============================================================================
