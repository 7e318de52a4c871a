------------------------ MODULE MoonlightConnection ------------------------
(***************************************************************************)
(* The connection of moonlight-common (moonlight-common/src/stream): the C *)
(* library behind it exists once per process, and its callbacks find the   *)
(* Rust objects through three globals.  connection_lock is held while a    *)
(* connection is torn down, but only for a moment when one is started: what*)
(* keeps the native calls apart is connection_exists.  The threads of the  *)
(* C library are external: they call back from their start until           *)
(* LiStopConnection, or a LiStartConnection that fails, has joined them.   *)
(***************************************************************************)

CONSTANTS
    Starts,     \* calls of MoonlightInstance::start_connection
    BadStrings, \* the starts with a string that CString refuses
    NoStart     \* nobody

ASSUME ConnectionAssumption == BadStrings \subseteq Starts /\ NoStart \notin Starts

Kinds == {"listener", "video", "audio"}   \* the three globals and their threads

\* The methods of MoonlightStream: those that send an input, and two questions.
Calls == {"send", "host_features", "estimated_rtt_info"}

VARIABLES
    exists,     \* connection_exists
    guard,      \* the start whose drop holds connection_lock
    pc,         \* where each start, and later its MoonlightStream, is
    call,       \* the method of the stream that is being called
    target,     \* the start whose object each global holds
    running,    \* library threads that call back
    busy        \* the start whose object a callback is using

libraryVars == <<exists, guard, pc, call, target, running, busy>>

Places == {"idle", "refused", "convert", "leaked", "targets", "native", "undo",
           "up", "dropWait", "stopping", "clear", "ended"}

ConnTypeOK ==
    /\ exists \in BOOLEAN
    /\ guard \in Starts \cup {NoStart}
    /\ pc \in [Starts -> Places]
    /\ call \in [Starts -> Calls \cup {"none"}]
    /\ target \in [Kinds -> Starts \cup {NoStart}]
    /\ running \subseteq Kinds
    /\ busy \in [Kinds -> Starts \cup {NoStart}]

\* INSTANCE: no connection yet.
ConnInit ==
    /\ exists = FALSE
    /\ guard = NoStart
    /\ pc = [s \in Starts |-> "idle"]
    /\ call = [s \in Starts |-> "none"]
    /\ target = [k \in Kinds |-> NoStart]
    /\ running = {}
    /\ busy = [k \in Kinds |-> NoStart]

At(s, p)    == pc[s] = p
To(s, p)    == pc' = [pc EXCEPT ![s] = p]
Native      == {"native", "undo", "stopping"}    \* inside a Li... call

-----------------------------------------------------------------------------
(* MoonlightStream::start *)

\* Bug: the flag is looked at, but not set.
ClaimsNothing(s) ==
    /\ At(s, "idle") /\ guard = NoStart
    /\ To(s, IF exists THEN "refused" ELSE "convert")
    /\ UNCHANGED <<exists, guard, call, target, running, busy>>

\* connection_lock is free for a moment: look at the flag and set it.
Claims(s) ==
    /\ At(s, "idle") /\ guard = NoStart
    /\ To(s, IF exists THEN "refused" ELSE "convert")
    /\ exists' = TRUE
    /\ UNCHANGED <<guard, call, target, running, busy>>

\* A conversion that fails returns before there is an object that would reset the
\* flag when dropped.
ConversionFails(s) ==
    /\ At(s, "convert") /\ s \in BadStrings
    /\ To(s, "leaked")
    /\ UNCHANGED <<exists, guard, call, target, running, busy>>

Converts(s) ==
    /\ At(s, "convert") /\ s \notin BadStrings
    /\ To(s, "targets")
    /\ UNCHANGED <<exists, guard, call, target, running, busy>>

\* The three set_global, without the lock, and LiStartConnection is entered.
SetsTargets(s) ==
    /\ At(s, "targets")
    /\ target' = [k \in Kinds |-> s]
    /\ To(s, "native")
    /\ UNCHANGED <<exists, guard, call, running, busy>>

\* LiStartConnection returns 0: the caller has its MoonlightStream.
NativeSucceeds(s) ==
    /\ At(s, "native") /\ running = Kinds
    /\ To(s, "up")
    /\ UNCHANGED <<exists, guard, call, target, running, busy>>

\* A stage fails: the library undoes the stages before it ...
NativeFails(s) ==
    /\ At(s, "native")
    /\ To(s, "undo")
    /\ UNCHANGED <<exists, guard, call, target, running, busy>>

\* Bug: the error is returned without a drop of the object.
NativeUndoneForgets(s) ==
    /\ At(s, "undo") /\ running = {}
    /\ To(s, "ended")
    /\ UNCHANGED <<exists, guard, call, target, running, busy>>

\* ... returns the error, and the object is dropped.
NativeUndone(s) ==
    /\ At(s, "undo") /\ running = {}
    /\ To(s, "dropWait")
    /\ UNCHANGED <<exists, guard, call, target, running, busy>>

-----------------------------------------------------------------------------
(* The methods of the stream: none of them takes a lock or sets anything.    *)

Sends(s, m) ==
    /\ At(s, "up") /\ call[s] = "none"
    /\ call' = [call EXCEPT ![s] = m]
    /\ UNCHANGED <<exists, guard, pc, target, running, busy>>

Sent(s) ==
    /\ call[s] # "none"
    /\ call' = [call EXCEPT ![s] = "none"]
    /\ UNCHANGED <<exists, guard, pc, target, running, busy>>

\* A MoonlightStream is dropped by its owner, when nobody borrows it.
DropsStream(s) ==
    /\ At(s, "up") /\ call[s] = "none"
    /\ To(s, "dropWait")
    /\ UNCHANGED <<exists, guard, call, target, running, busy>>

-----------------------------------------------------------------------------
(* Drop of MoonlightStream *)

\* The lock is taken and LiStopConnection entered.
DropLocks(s) ==
    /\ At(s, "dropWait") /\ guard = NoStart
    /\ guard' = s
    /\ To(s, "stopping")
    /\ UNCHANGED <<exists, call, target, running, busy>>

\* LiStopConnection returns when no thread is left.
NativeStopped(s) ==
    /\ At(s, "stopping") /\ running = {}
    /\ To(s, "clear")
    /\ UNCHANGED <<exists, guard, call, target, running, busy>>

\* The globals are cleared, the flag reset, the lock released.
DropClears(s) ==
    /\ At(s, "clear")
    /\ target' = [k \in Kinds |-> NoStart]
    /\ exists' = FALSE
    /\ guard' = NoStart
    /\ To(s, "ended")
    /\ UNCHANGED <<call, running, busy>>

-----------------------------------------------------------------------------
(* The threads of the library *)

\* The listener's is up from the first stage on; the others come up in between.
ThreadStarts(k) ==
    /\ \E s \in Starts : At(s, "native")
    /\ k \notin running
    /\ k # "listener" => "listener" \in running
    /\ running' = running \cup {k}
    /\ UNCHANGED <<exists, guard, pc, call, target, busy>>

CallbackBegins(k) ==
    /\ k \in running /\ busy[k] = NoStart /\ target[k] # NoStart
    /\ busy' = [busy EXCEPT ![k] = target[k]]
    /\ UNCHANGED <<exists, guard, pc, call, target, running>>

\* Every listener method only spawns tasks that send, or does nothing.
ListenerReturns ==
    /\ busy["listener"] # NoStart
    /\ busy' = [busy EXCEPT !["listener"] = NoStart]
    /\ UNCHANGED <<exists, guard, pc, call, target, running>>

DecoderReturns(k) ==
    /\ k # "listener" /\ busy[k] # NoStart
    /\ busy' = [busy EXCEPT ![k] = NoStart]
    /\ UNCHANGED <<exists, guard, pc, call, target, running>>

\* A decoder thread is joined, then cleanup clears its global; the listener is
\* called until the end.
ThreadJoined(k) ==
    /\ \E s \in Starts : At(s, "undo") \/ At(s, "stopping")
    /\ k \in running /\ busy[k] = NoStart
    /\ k = "listener" => running = {"listener"}
    /\ running' = running \ {k}
    /\ target' = IF k = "listener" THEN target ELSE [target EXCEPT ![k] = NoStart]
    /\ UNCHANGED <<exists, guard, pc, call, busy>>

-----------------------------------------------------------------------------

ConnectStep(s) ==
    \/ Claims(s) \/ ConversionFails(s) \/ Converts(s) \/ SetsTargets(s)
    \/ NativeSucceeds(s) \/ NativeFails(s) \/ NativeUndone(s)
DropStep(s) == DropLocks(s) \/ NativeStopped(s) \/ DropClears(s)
ThreadStep(k) ==
    \/ ThreadStarts(k) \/ CallbackBegins(k) \/ DecoderReturns(k) \/ ThreadJoined(k)

ConnNext ==
    \/ \E s \in Starts : ConnectStep(s) \/ DropStep(s) \/ DropsStream(s) \/ Sent(s)
    \/ \E s \in Starts, m \in Calls : Sends(s, m)
    \/ \E k \in Kinds : ThreadStep(k)
    \/ ListenerReturns

ConnSpec == ConnInit /\ [][ConnNext]_libraryVars

\* A start and a drop go on, callbacks return, and the library joins a thread whose
\* callback has returned (SF: the next callback may come first).
ConnFairness ==
    /\ \A s \in Starts : WF_libraryVars(ConnectStep(s)) /\ WF_libraryVars(DropStep(s))
    /\ WF_libraryVars(ListenerReturns)
    /\ \A k \in Kinds : WF_libraryVars(DecoderReturns(k)) /\ SF_libraryVars(ThreadJoined(k))
                        /\ WF_libraryVars(ThreadStarts(k))

ConnFairSpec == ConnSpec /\ ConnFairness

-----------------------------------------------------------------------------
(* Properties *)

\* LiStartConnection and LiStopConnection are not thread safe; no two of them
\* overlap, though start has released the lock long before it calls
\* (mod.rs:143-153, 204, 748).
OneNativeCall ==
    \A s, t \in Starts : pc[s] \in Native /\ pc[t] \in Native => s = t

\* A library thread finds in its global the object of the connection it works for,
\* and the object stays while the callback uses it: the expect()s of
\* global_listener and global_decoder hold and no reference is left dangling.
CallbacksOnOwnTarget ==
    \A k \in running :
        /\ target[k] # NoStart /\ pc[target[k]] \in Native \cup {"up", "dropWait"}
        /\ busy[k] \in {NoStart, target[k]}

\* A method of a stream reaches that stream's own connection, and is_connected()
\* says so (mod.rs:225-229 has its doubts).
CallsReachOwnConnection ==
    \A s \in Starts : call[s] # "none" =>
        exists /\ running = Kinds /\ \A k \in Kinds : target[k] = s

\* Whatever the end of a connection that got as far as the library, a new one can
\* be started: the flag comes down.
LibraryIsFreed ==
    (\E s \in Starts : pc[s] \in {"undo", "dropWait"}) ~> ~exists
=============================================================================
