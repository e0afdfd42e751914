--------------------------- MODULE RemoteProxyClient ---------------------------
(***************************************************************************)
(* One server-side session of UniProxy: src/remoteclient.cpp,              *)
(* RemoteProxyClient, on top of mylib::thread (src/applutil.h).            *)
(*                                                                         *)
(* A session owns two threads.  The remote thread performs the SSL         *)
(* handshake with the remote proxy, finds the remote by its certificate,   *)
(* connects to one of the local endpoints, starts the local thread and     *)
(* then moves data remote -> local; the local thread moves data            *)
(* local -> remote.  A third thread, one that holds RemoteProxyHost's      *)
(* m_mutex, may call stop() at any time: check_deadline (the host thread), *)
(* RemoteProxyHost::stop or remove_any (a control thread).  stop(), the    *)
(* local thread and the remote thread all run interrupt() and share the    *)
(* two sockets and the two m_..._connected flags.                          *)
(*                                                                         *)
(* Payloads are abstracted away: a read either yields data or fails.       *)
(* Wall-clock comparisons (2 seconds after thread_ended, 2 seconds after   *)
(* m_stopped) become the three ages of a time stamp.                       *)
(***************************************************************************)
EXTENDS Naturals

CONSTANTS
    LocalEps,   \* m_local_ep: the local endpoints of the host
    Disposers   \* the callers of stop() that the instance exercises

\* check_deadline, RemoteProxyHost::stop and RemoteProxyHost::remove_any are
\* the only callers of RemoteProxyClient::stop.
ASSUME DisposersAssumption ==
    Disposers \subseteq {"deadline", "host_stop", "remove_any"}

VARIABLES
    pc,                  \* control state of each thread
    target,              \* the mylib::thread that stop() is stopping now
    caller,              \* the caller of the stop() call in progress
    m_stop,              \* session threads whose m_stop is set
    joinable,            \* session threads whose m_thread is joinable
    connected,           \* which of m_remote_connected, m_local_connected are set
    local_socket,        \* m_local_socket
    remote_socket,       \* m_remote_socket
    shutdowns,           \* threads whose async_shutdown is still outstanding
    untried,             \* local endpoints not yet tried by the connect loop
    named,               \* m_endpoint has been assigned from the certificate
    thread_ended,        \* age of the time stamp thread_ended
    m_stopped,           \* age of the time stamp m_stopped
    listed,              \* whether m_clients holds the session: not yet, yes, gone
    host,                \* whether the host's thread runs its io_service
    peer,                \* the remote proxy behind m_remote_socket
    server               \* the local TCP server behind m_local_socket

threadVars == <<m_stop, joinable>>
sockVars   == <<local_socket, remote_socket, shutdowns>>
stopVars   == <<target, caller, m_stopped>>
hostVars   == <<listed, host>>
envVars    == <<peer, server>>
worldVars  == <<hostVars, envVars>>
progressVars == <<untried, named, thread_ended>>

vars == <<pc, threadVars, connected, sockVars, stopVars, progressVars,
          worldVars>>

SessionThreads == {"local", "remote"}
Threads        == SessionThreads \cup {"stopper"}

RemotePC == {"unstarted", "begin", "handshake", "lookup", "connect",
             "connected", "logon", "start", "spawn", "check", "read", "write",
             "intr", "intr2", "intr3", "linger", "close", "end", "exit"}
LocalPC  == {"unstarted", "check", "read", "write", "intr", "intr2", "intr3",
             "exit"}
StopPC   == {"idle", "set", "test", "intr", "intr2", "intr3", "join",
             "return", "erase"}

\* A std::chrono time point: unset, set less than two seconds ago, older.
Ages == {"unset", "recent", "old"}

\* The types of the session's state: the control state of each thread and of the
\* two callers of stop(), the sockets, the threads' handles and the stamps.
TypeOK ==
    /\ pc \in [Threads -> RemotePC \cup LocalPC \cup StopPC]
    /\ pc["remote"] \in RemotePC
    /\ pc["local"] \in LocalPC
    /\ pc["stopper"] \in StopPC
    /\ target \in SessionThreads
    /\ caller \in {"deadline", "host_stop", "remove_any"}
    /\ m_stop \subseteq SessionThreads
    /\ joinable \subseteq SessionThreads
    /\ connected \subseteq {"local", "remote"}
    /\ local_socket \in {"closed", "open", "shut"}
    /\ remote_socket \in {"open", "closing", "closed"}
    /\ shutdowns \subseteq Threads
    /\ untried \subseteq LocalEps
    /\ named \in BOOLEAN
    /\ thread_ended \in Ages
    /\ m_stopped \in Ages
    /\ listed \in {"no", "yes", "erased"}
    /\ host \in {"up", "down"}
    /\ peer \in {"silent", "talking", "closed"}
    /\ server \in {"reading", "stuck", "closed"}

\* The session as RemoteProxyHost creates it for the next async_accept.
Init ==
    /\ pc = [t \in Threads |-> IF t = "stopper" THEN "idle" ELSE "unstarted"]
    /\ target = "local" /\ caller = "deadline"
    /\ m_stop = {} /\ joinable = {} /\ connected = {}
    /\ local_socket = "closed" /\ remote_socket = "open"
    /\ shutdowns = {}
    /\ untried = {} /\ named = FALSE
    /\ thread_ended = "unset" /\ m_stopped = "unset"
    /\ listed = "no" /\ host = "up"
    /\ peer \in {"silent", "talking"} /\ server \in {"reading", "closed"}

Goto(t, label) == pc' = [pc EXCEPT ![t] = label]

\* Thread t goes on at label and changes nothing else.
Move(t, label) ==
    /\ Goto(t, label)
    /\ UNCHANGED <<threadVars, connected, sockVars, stopVars, progressVars,
                   worldVars>>

-------------------------------------------------------------------------------
(* The remote thread: remote_threadproc *)

\* handle_accept: m_clients.push_back(new_session); new_session->start(...).
Start ==
    /\ pc["remote"] = "unstarted" /\ host = "up"
    /\ listed' = "yes"
    /\ m_stop' = m_stop \ {"remote"}
    /\ joinable' = joinable \cup {"remote"}
    /\ Goto("remote", "begin")
    /\ UNCHANGED <<connected, sockVars, stopVars, progressVars, host, envVars>>

\* A session without local endpoints throws at once.
Begin ==
    /\ pc["remote"] = "begin"
    /\ Move("remote", IF LocalEps = {} THEN "intr" ELSE "handshake")

\* The blocking handshake: it returns only when the peer answers or is gone.
Handshake ==
    /\ pc["remote"] = "handshake" /\ peer = "talking"
    /\ connected' = connected \cup {"remote"}
    /\ Goto("remote", "lookup")
    /\ UNCHANGED <<threadVars, sockVars, stopVars, progressVars, worldVars>>

HandshakeFails ==
    /\ pc["remote"] = "handshake" /\ peer # "silent"
    /\ Move("remote", "intr")

\* The certificate's common name is one of m_remote_ep: m_endpoint is set and
\* the shuffled list of local endpoints is prepared.
Lookup ==
    /\ pc["remote"] = "lookup"
    /\ named' = TRUE
    /\ connected' = connected \ {"local"}
    /\ untried' = LocalEps
    /\ Goto("remote", "connect")
    /\ UNCHANGED <<threadVars, sockVars, stopVars, thread_ended, worldVars>>

LookupFails ==
    /\ pc["remote"] = "lookup"
    /\ Move("remote", "intr")

\* socket_connect closes m_local_socket and connects it to endpoint e.
Connect(e) ==
    /\ pc["remote"] = "connect" /\ e \in untried
    /\ untried' = {}
    /\ local_socket' = "open"
    /\ connected' = connected \cup {"local"}
    /\ Goto("remote", "connected")
    /\ UNCHANGED <<threadVars, remote_socket, shutdowns, stopVars, named,
                   thread_ended, worldVars>>

\* A failed attempt is swallowed; the loop goes on with the other endpoints.
ConnectFails(e) ==
    /\ pc["remote"] = "connect" /\ e \in untried
    /\ untried' = untried \ {e}
    /\ local_socket' = "closed"
    /\ Goto("remote", IF untried' = {} THEN "connected" ELSE "connect")
    /\ UNCHANGED <<threadVars, connected, remote_socket, shutdowns, stopVars,
                   named, thread_ended, worldVars>>

\* if (!m_local_connected) throw: the flag is read after the loop, and an
\* interrupt() of another thread may have cleared it in between.
Connected ==
    /\ pc["remote"] = "connected"
    /\ Move("remote", IF "local" \in connected THEN "logon" ELSE "intr")

\* m_plugin.connect_handler: the PGHP plugin logs on to the local server.  Its
\* socket_read_some_for has no time limit outside Windows: a server that does not
\* answer keeps the thread here, unless the socket was shut after the connect.
Logon ==
    /\ pc["remote"] = "logon"
    /\ local_socket # "open" \/ server # "stuck"
    /\ \E label \in {"start", "intr"} : Move("remote", label)

\* The other plugins take connect_handler from the base class: no logon, true.
NoLogon ==
    /\ pc["remote"] = "logon"
    /\ Move("remote", "start")

\* m_local_thread.start, first half: the assertion and m_stop = false.
StartLocal ==
    /\ pc["remote"] = "start"
    /\ m_stop' = IF "local" \in joinable THEN m_stop ELSE m_stop \ {"local"}
    /\ Goto("remote", IF "local" \in joinable THEN "intr" ELSE "spawn")
    /\ UNCHANGED <<joinable, connected, sockVars, stopVars, progressVars,
                   worldVars>>

\* m_local_thread.start, second half: the thread runs and becomes joinable.
SpawnLocal ==
    /\ pc["remote"] = "spawn"
    /\ joinable' = joinable \cup {"local"}
    /\ pc' = [pc EXCEPT !["remote"] = "check", !["local"] = "check"]
    /\ UNCHANGED <<m_stop, connected, sockVars, stopVars, progressVars,
                   worldVars>>

\* interrupt_exception is not a std::exception: it leaves the thread function
\* without interrupt(), without closing the socket, without thread_ended.
CheckRun(t) ==
    /\ pc[t] = "check"
    /\ Move(t, IF t \in m_stop THEN "exit" ELSE "read")

\* m_remote_socket.read_some: data, and the filter passes it on or drops it.
ReadRemote ==
    /\ pc["remote"] = "read" /\ peer = "talking"
    /\ \E label \in {"write", "check"} : Move("remote", label)

\* Fault: the read error is logged but does not leave the loop.
ReadRemoteFails_NoBreak ==
    /\ pc["remote"] = "read"
    /\ \/ peer = "closed"
       \/ remote_socket = "closing" /\ peer = "talking"
    /\ Move("remote", "check")

\* It fails when the peer is gone, or answers the close_notify sent by
\* async_shutdown.  A silent peer keeps the thread blocked.
ReadRemoteFails ==
    /\ pc["remote"] = "read"
    /\ \/ peer = "closed"
       \/ remote_socket = "closing" /\ peer = "talking"
    /\ Move("remote", "intr")

WriteLocal ==
    /\ pc["remote"] = "write"
    /\ local_socket = "open" /\ server = "reading"
    /\ Move("remote", "check")

WriteLocalFails ==
    /\ pc["remote"] = "write"
    /\ local_socket # "open" \/ server = "closed"
    /\ Move("remote", "intr")

\* One second, the m_mutex hand-over, one more second.
Linger ==
    /\ pc["remote"] = "linger"
    /\ Move("remote", "close")

\* lowest_layer().shutdown and close: every blocked user of the socket wakes.
Close ==
    /\ pc["remote"] = "close"
    /\ remote_socket' = "closed"
    /\ Goto("remote", "end")
    /\ UNCHANGED <<threadVars, connected, local_socket, shutdowns, stopVars,
                   progressVars, worldVars>>

End ==
    /\ pc["remote"] = "end"
    /\ thread_ended' = "recent"
    /\ Goto("remote", "exit")
    /\ UNCHANGED <<threadVars, connected, sockVars, stopVars, untried, named,
                   worldVars>>

-------------------------------------------------------------------------------
(* The local thread: local_threadproc *)

\* m_local_socket.read_some: data, and the filter passes it on or drops it.
ReadLocal ==
    /\ pc["local"] = "read"
    /\ local_socket = "open" /\ server # "closed"
    /\ \E label \in {"write", "check"} : Move("local", label)

ReadLocalFails ==
    /\ pc["local"] = "read"
    /\ local_socket # "open" \/ server = "closed"
    /\ Move("local", "intr")

\* m_remote_socket.write_some blocks on a silent peer (a full send window).
WriteRemote ==
    /\ pc["local"] = "write"
    /\ remote_socket = "open" /\ peer = "talking"
    /\ Move("local", "check")

WriteRemoteFails ==
    /\ pc["local"] = "write"
    /\ \/ peer = "closed"
       \/ remote_socket = "closed"
       \/ remote_socket = "closing" /\ peer = "talking"
    /\ Move("local", "intr")

-------------------------------------------------------------------------------
(* interrupt(synced), run by the remote thread (synced), the local thread    *)
(* and the caller of stop() (not synced)                                     *)

\* Fault: interrupt() leaves the local socket alone.
IntrLocal_NoShutdown(t) ==
    /\ pc[t] = "intr"
    /\ Move(t, "intr2")

\* shutdown() of the local socket's handle; a closed socket has none.
IntrLocal(t) ==
    /\ pc[t] = "intr"
    /\ local_socket' = IF local_socket = "open" THEN "shut" ELSE local_socket
    /\ Goto(t, "intr2")
    /\ UNCHANGED <<threadVars, connected, remote_socket, shutdowns, stopVars,
                   progressVars, worldVars>>

\* Under m_mutex: async_shutdown of a connected remote socket, unless synced.
IntrRemote(t) ==
    /\ pc[t] = "intr2"
    /\ LET down == t # "remote" /\ "remote" \in connected
       IN /\ remote_socket' = IF down THEN "closing" ELSE remote_socket
          /\ shutdowns' = IF down THEN shutdowns \cup {t} ELSE shutdowns
    /\ Goto(t, "intr3")
    /\ UNCHANGED <<threadVars, connected, local_socket, stopVars, progressVars,
                   worldVars>>

\* Fault: the local thread falls into the clean-up of the remote thread.
AfterInterrupt_LocalLingers ==
    [remote |-> "linger", local |-> "linger", stopper |-> "join"]

AfterInterrupt ==
    [remote |-> "linger", local |-> "exit", stopper |-> "join"]

\* Fault: only m_local_connected is reset.
IntrFlags_KeepsRemote(t) ==
    /\ pc[t] = "intr3"
    /\ connected' = connected \ {"local"}
    /\ Goto(t, AfterInterrupt[t])
    /\ UNCHANGED <<threadVars, sockVars, stopVars, progressVars, worldVars>>

\* m_local_connected = m_remote_connected = false, outside the mutex.
IntrFlags(t) ==
    /\ pc[t] = "intr3"
    /\ connected' = {}
    /\ Goto(t, AfterInterrupt[t])
    /\ UNCHANGED <<threadVars, sockVars, stopVars, progressVars, worldVars>>

-------------------------------------------------------------------------------
(* stop() and mylib::thread::stop, first of the local, then of the remote    *)
(* thread.  The callers hold RemoteProxyHost::m_mutex, so calls never overlap *)

\* check_deadline calls stop() once is_thread_active() is false.
MayStop(d) ==
    CASE d = "deadline"   -> host = "up" /\ thread_ended = "old"
      [] d = "host_stop"  -> host = "down"
      [] d = "remove_any" -> named

StopCall(d) ==
    /\ listed = "yes" /\ pc["stopper"] = "idle"
    /\ MayStop(d) /\ m_stopped = "unset"
    /\ caller' = d
    /\ target' = "local"
    /\ Goto("stopper", "set")
    /\ UNCHANGED <<threadVars, connected, sockVars, m_stopped, progressVars,
                   worldVars>>

\* remove_any finds a session that was stopped before: stop() does nothing.
StopAgain ==
    /\ "remove_any" \in Disposers
    /\ listed = "yes" /\ pc["stopper"] = "idle"
    /\ named /\ m_stopped # "unset"
    /\ caller' = "remove_any"
    /\ Goto("stopper", "erase")
    /\ UNCHANGED <<threadVars, connected, sockVars, target, m_stopped,
                   progressVars, worldVars>>

StopSet ==
    /\ pc["stopper"] = "set"
    /\ m_stop' = m_stop \cup {target}
    /\ Goto("stopper", "test")
    /\ UNCHANGED <<joinable, connected, sockVars, stopVars, progressVars,
                   worldVars>>

\* What stop() does once it is done with the thread in target.
NextTarget ==
    /\ target' = "remote"
    /\ Goto("stopper", IF target = "local" THEN "set" ELSE "return")

\* A thread that is not joinable is neither interrupted nor joined.
StopTest ==
    /\ pc["stopper"] = "test"
    /\ IF target \in joinable
       THEN Goto("stopper", "intr") /\ UNCHANGED target
       ELSE NextTarget
    /\ UNCHANGED <<threadVars, connected, sockVars, caller, m_stopped,
                   progressVars, worldVars>>

StopJoin ==
    /\ pc["stopper"] = "join"
    /\ pc[target] = "exit"
    /\ joinable' = joinable \ {target}
    /\ NextTarget
    /\ UNCHANGED <<m_stop, connected, sockVars, caller, m_stopped,
                   progressVars, worldVars>>

StopReturn ==
    /\ pc["stopper"] = "return"
    /\ m_stopped' = "recent"
    /\ Goto("stopper", IF caller = "remove_any" THEN "erase" ELSE "idle")
    /\ UNCHANGED <<threadVars, connected, sockVars, target, caller,
                   progressVars, worldVars>>

\* remove_any erases the session right after stop(): it is destroyed.
RemoveErase ==
    /\ pc["stopper"] = "erase"
    /\ listed' = "erased"
    /\ Goto("stopper", "idle")
    /\ UNCHANGED <<threadVars, connected, sockVars, stopVars, progressVars,
                   host, envVars>>

-------------------------------------------------------------------------------
(* The host thread, time and the environment *)

\* Fault: the session is erased without waiting two seconds after stop().
DeadlineErase_AtOnce ==
    /\ "deadline" \in Disposers
    /\ host = "up" /\ listed = "yes" /\ pc["stopper"] = "idle"
    /\ thread_ended = "old" /\ m_stopped # "unset"
    /\ listed' = "erased"
    /\ UNCHANGED <<pc, threadVars, connected, sockVars, stopVars, progressVars,
                   host, envVars>>

\* Fault: the session is erased without a stop(), which joins the threads.
DeadlineErase_Unstopped ==
    /\ "deadline" \in Disposers
    /\ host = "up" /\ listed = "yes" /\ pc["stopper"] = "idle"
    /\ thread_ended = "old"
    /\ listed' = "erased"
    /\ UNCHANGED <<pc, threadVars, connected, sockVars, stopVars, progressVars,
                   host, envVars>>

\* check_deadline erases a session that it stopped over two seconds ago.
DeadlineErase ==
    /\ "deadline" \in Disposers
    /\ host = "up" /\ listed = "yes" /\ pc["stopper"] = "idle"
    /\ thread_ended = "old" /\ m_stopped = "old"
    /\ listed' = "erased"
    /\ UNCHANGED <<pc, threadVars, connected, sockVars, stopVars, progressVars,
                   host, envVars>>

\* An async_shutdown is done when the peer answers, goes, or we close.
ShutdownReady == shutdowns # {} /\ (remote_socket = "closed" \/ peer # "silent")

\* The io_service completes the outstanding async_shutdown operations.
ShutdownHandler ==
    /\ host = "up" /\ ShutdownReady
    /\ shutdowns' = {}
    /\ UNCHANGED <<pc, threadVars, connected, local_socket, remote_socket,
                   stopVars, progressVars, worldVars>>

\* RemoteProxyHost::stop joins the host thread before it stops the sessions.
HostDown ==
    /\ "host_stop" \in Disposers
    /\ host = "up" /\ pc["stopper"] = "idle"
    /\ host' = "down"
    /\ UNCHANGED <<pc, threadVars, connected, sockVars, stopVars, progressVars,
                   listed, envVars>>

\* Two seconds after thread_ended.
EndedAges ==
    /\ thread_ended = "recent"
    /\ thread_ended' = "old"
    /\ UNCHANGED <<pc, threadVars, connected, sockVars, stopVars, untried,
                   named, worldVars>>

\* Two seconds after m_stopped.  The host thread runs its handlers in the
\* order in which they became ready, so a completed async_shutdown runs before
\* the check_deadline that sees this time stamp as old.
StoppedAges ==
    /\ m_stopped = "recent"
    /\ host = "up" => ~ShutdownReady
    /\ m_stopped' = "old"
    /\ UNCHANGED <<pc, threadVars, connected, sockVars, target, caller,
                   progressVars, worldVars>>

\* The remote proxy pauses, resumes or closes the connection.
PeerMoves ==
    /\ peer # "closed"
    /\ peer' \in {"silent", "talking", "closed"} \ {peer}
    /\ UNCHANGED <<pc, threadVars, connected, sockVars, stopVars, progressVars,
                   hostVars, server>>

\* The local server stops reading and answering, goes on or closes.
ServerMoves ==
    /\ server # "closed"
    /\ server' \in {"reading", "stuck", "closed"} \ {server}
    /\ UNCHANGED <<pc, threadVars, connected, sockVars, stopVars, progressVars,
                   hostVars, peer>>

RemoteThread ==
    \/ Begin \/ Handshake \/ HandshakeFails \/ Lookup \/ LookupFails
    \/ \E e \in LocalEps : Connect(e) \/ ConnectFails(e)
    \/ Connected \/ Logon \/ StartLocal \/ SpawnLocal \/ CheckRun("remote")
    \/ ReadRemoteFails \/ WriteLocal \/ WriteLocalFails
    \/ IntrLocal("remote") \/ IntrRemote("remote") \/ IntrFlags("remote")
    \/ Linger \/ Close \/ End

LocalThread ==
    \/ CheckRun("local") \/ ReadLocalFails \/ WriteRemote \/ WriteRemoteFails
    \/ IntrLocal("local") \/ IntrRemote("local") \/ IntrFlags("local")

Stopper ==
    \/ StopSet \/ StopTest \/ StopJoin \/ StopReturn \/ RemoveErase
    \/ IntrLocal("stopper") \/ IntrRemote("stopper") \/ IntrFlags("stopper")

\* What the host thread does for a session while its io_service runs.
HostThread ==
    \/ Start \/ ShutdownHandler \/ DeadlineErase
    \/ "deadline" \in Disposers /\ StopCall("deadline")

Time == EndedAges \/ StoppedAges

Next ==
    \/ RemoteThread \/ NoLogon \/ ReadRemote \/ LocalThread \/ ReadLocal
    \/ HostThread \/ Time \/ Stopper
    \/ \E d \in Disposers \ {"deadline"} : StopCall(d)
    \/ StopAgain \/ HostDown \/ PeerMoves \/ ServerMoves

Spec == Init /\ [][Next]_vars

\* The operating system schedules every thread, and time passes.  Nothing is
\* assumed of the peer, of the local server or of the control threads' calls: an
\* operation that waits for one of them is enabled only once it has acted.
FairSpec ==
    /\ Spec
    /\ WF_vars(RemoteThread) /\ WF_vars(LocalThread) /\ WF_vars(Stopper)
    /\ WF_vars(HostThread) /\ WF_vars(Time)

-------------------------------------------------------------------------------
(* Properties *)

\* RemoteProxyHost has destroyed the session.
Erased == listed = "erased"

\* No thread runs or waits to be joined, no handler will use the session.
Quiet ==
    /\ \A t \in SessionThreads :
           t \notin joinable /\ pc[t] \in {"unstarted", "exit"}
    /\ shutdowns = {}

\* The session as its host sees it.
Phase ==
    CASE listed = "no"         -> "waiting"
      [] Erased                -> "erased"
      [] listed = "yes" /\ m_stopped # "unset" -> "stopped"
      [] listed = "yes" /\ m_stopped = "unset" ->
             IF pc["stopper"] = "idle" THEN "serving" ELSE "asked"

Contract == INSTANCE ProxySession WITH
                phase <- Phase, ended <- thread_ended, stopped <- m_stopped

\* The two threads, their interrupt() calls and stop() together implement the
\* contract on which RemoteProxyHost relies: stop() happens once, a session that
\* was stopped never ends again, and only a stopped session is erased.
ImplementsContract == Contract!SessionSpec

\* Once thread_ended is set (the end of remote_threadproc) the session has let
\* go of everything, whatever interrupt() calls of the other threads came in
\* between: both flags are down, the remote socket is closed and the local
\* socket no longer carries data.
EndedMeansReleased ==
    thread_ended # "unset" =>
        /\ remote_socket = "closed" /\ local_socket # "open"
        /\ connected = {}

\* When check_deadline erases a session from m_clients (and so deletes its
\* buffers and sockets) no thread and no pending async_shutdown uses it.  It does
\* not hold of a session that remove_any erases right after stop().
DestroyedIsQuiet == Erased /\ caller # "remove_any" => Quiet

\* interrupt() never starts an async_shutdown on a remote socket that
\* remote_threadproc has closed already: the flags are cleared before the
\* linger that precedes the close.
ShutdownBeforeClose ==
    [][shutdowns' \subseteq shutdowns \/ remote_socket # "closed"]_vars

LostPeerReaped ==
    <>[](server # "stuck") => (peer = "closed" /\ listed = "yes" ~> Erased \/ host = "down")

LostServerReaped ==
    /\ <>[](peer # "silent")
    /\ remote_socket = "closing" ~> peer = "closed"
    => (server = "closed" /\ pc["local"] # "unstarted" /\ listed = "yes"
            ~> Erased \/ host = "down")

\* A session that lost a side is ended, stopped and erased by check_deadline, as
\* long as the host is not stopped.  If it is the remote proxy that went away,
\* provided the local server does not block us for ever; if it is the local
\* server, provided the peer follows the protocol and closes the connection that
\* the local thread's interrupt() shuts down.
LostSideReaped == LostPeerReaped /\ LostServerReaped

\* stop() returns as long as the peer does not stay silent for ever and the local
\* server does not leave a logon unanswered for ever (a stop() whose interrupt()
\* came before the local connect joins a thread that connects and logs on all the
\* same).  After the logon the server may stop reading for good.
StopReturns ==
    /\ <>[](peer # "silent")
    /\ <>[](pc["remote"] = "logon" => server # "stuck")
    => (pc["stopper"] # "idle" ~> pc["stopper"] = "idle")

===============================================================================
