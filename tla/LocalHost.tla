------------------------------- MODULE LocalHost -------------------------------
(***************************************************************************)
(* The client side of UniProxy: src/localclient.cpp, LocalHost.            *)
(*                                                                         *)
(* One thread accepts local users on a port, connects to a remote proxy    *)
(* (go_out) and then runs an io_service whose handlers move data between   *)
(* the users and the remote proxy.  A control thread (BaseClient's         *)
(* set_active, proxy_global) starts and stops it: stop() sets m_stop, runs *)
(* interrupt() and joins the thread.                                       *)
(*                                                                         *)
(* An asynchronous operation is outstanding until its handler runs; the    *)
(* handlers that are ready run in any order, one at a time.  The socket of *)
(* a remote proxy and the deadline timer live as long as one go_out; the   *)
(* users' sockets and the io_service's queue live until the scope of       *)
(* threadproc's loop body ends.  Payloads are left out.                    *)
(***************************************************************************)
EXTENDS Integers, FiniteSets

CONSTANTS
    Users,            \* local connections: a bound on those of one loop body
    MaxConnections,   \* m_max_connections
    MaxSessions       \* bound on the connections made in one loop body

ASSUME LocalHostAssumption ==
    /\ IsFiniteSet(Users)
    /\ MaxConnections \in Nat \ {0} /\ MaxSessions \in Nat \ {0}

VARIABLES
    tpc,             \* control state of the thread (threadproc, go_out)
    cpc,             \* control state of the control thread
    m_stop,          \* mylib::thread::m_stop
    joinable,        \* whether the thread is joinable
    m_auto_reconnect,
    m_local_connected, \* a user was accepted, and the loop body has not ended
    crashed,         \* a null pointer was dereferenced
    mp_acceptor,     \* the acceptor behind mp_acceptor
    m_local_sockets, \* users in the list
    sock,            \* the state of each user's socket
    readers,         \* users with an async_read_some outstanding
    remote_writers,  \* users whose data is being written to the remote proxy
    local_writes,    \* per user: async_writes to it that are outstanding
    m_write_count,
    remote,          \* the socket behind mp_remote_socket
    handshaking,     \* async_handshake is outstanding
    remote_reads,    \* async_read_some outstanding on the remote socket
    stale,           \* aborted handlers of remote sockets of earlier sessions
    deadline,        \* expires_at of the timer behind m_pdeadline
    waits,           \* check_deadline handlers: waiting, queued aborted or fired
    sessions         \* connections made in this loop body

threadVars == <<m_stop, joinable, crashed, m_auto_reconnect, m_local_connected>>
userVars   == <<m_local_sockets, sock, readers>>
writeVars  == <<local_writes, m_write_count>>
remoteVars == <<remote, handshaking, remote_reads, remote_writers, stale>>
timerVars  == <<deadline, waits>>
vars == <<tpc, cpc, threadVars, mp_acceptor, userVars, writeVars, remoteVars,
          timerVars, sessions>>

Waits == [waiting : Nat, aborted : Nat, fired : Nat]
NoWaits == [waiting |-> 0, aborted |-> 0, fired |-> 0]

\* The types of the state; no handler runs more often than its operation was
\* started.
TypeOK ==
    /\ tpc \in {"none", "loop", "open", "accept", "accepted", "out", "connect",
                "run", "pause", "scope", "unwind", "sleep", "exit"}
    /\ cpc \in {"idle", "intr", "intr2", "intr3", "join"}
    /\ m_stop \in BOOLEAN /\ joinable \in BOOLEAN /\ crashed \in BOOLEAN
    /\ m_auto_reconnect \in BOOLEAN /\ m_local_connected \in BOOLEAN
    /\ mp_acceptor \in {"null", "open", "shut"}
    /\ m_local_sockets \subseteq Users
    /\ sock \in [Users -> {"unused", "open", "eof", "shut", "closed"}]
    /\ readers \subseteq Users /\ remote_writers \subseteq Users
    /\ local_writes \in [Users -> Nat] /\ m_write_count \in Int
    /\ remote \in {"none", "connecting", "open", "lost", "closed"}
    /\ handshaking \in BOOLEAN
    /\ remote_reads \in Nat /\ stale \in Nat
    /\ deadline \in {"set", "past", "never"}
    /\ waits \in Waits
    /\ sessions \in 0 .. MaxSessions

\* m_write_count has no initial value.
Init ==
    /\ tpc = "none" /\ cpc = "idle"
    /\ m_stop = FALSE /\ joinable = FALSE /\ crashed = FALSE
    /\ m_auto_reconnect \in BOOLEAN /\ m_local_connected = FALSE
    /\ mp_acceptor = "null"
    /\ m_local_sockets = {} /\ sock = [u \in Users |-> "unused"]
    /\ readers = {} /\ remote_writers = {}
    /\ local_writes = [u \in Users |-> 0] /\ m_write_count \in {0, 1}
    /\ remote = "none" /\ handshaking = FALSE /\ remote_reads = 0 /\ stale = 0
    /\ deadline = "never" /\ waits = NoWaits /\ sessions = 0

-------------------------------------------------------------------------------
(* Building blocks of the handlers *)

\* The timer's waits after expires_from_now or its destructor: all are aborted.
Aborted(w) == [w EXCEPT !.waiting = 0, !.aborted = @ + w.waiting]

\* expires_from_now(m_read_timeout)
ResetDeadline == deadline' = "set" /\ waits' = Aborted(waits)

\* remove_socket: shutdown, close, and out of the list.
RemoveSocket(u) ==
    /\ m_local_sockets' = m_local_sockets \ {u}
    /\ sock' = IF u \in m_local_sockets THEN [sock EXCEPT ![u] = "closed"]
                                        ELSE sock

\* A handler throws: go_out ends, its remote socket and its timer are destroyed
\* and their outstanding operations become aborted handlers.  leftover of them
\* belong to the remote socket.  Without users go_out throws on.
EndSession(users, leftover, w) ==
    /\ tpc' = IF users = {} THEN "scope" ELSE "pause"
    /\ remote' = "none" /\ handshaking' = FALSE /\ remote_reads' = 0
    /\ remote_writers' = {}
    /\ stale' = leftover
    /\ deadline' = "never" /\ waits' = Aborted(w)

\* Operations of the remote socket that have a handler outstanding.
RemoteOps ==
    stale + remote_reads + Cardinality(remote_writers)
          + (IF handshaking THEN 1 ELSE 0)

\* shutdown() of the users' sockets in interrupt().
ShutUsers ==
    sock' = [u \in Users |-> IF u \in m_local_sockets /\ sock[u] = "open"
                             THEN "shut" ELSE sock[u]]

\* shutdown() of the remote socket in interrupt().  A socket that is not
\* connected yet may be one that is not even open: then it has no effect.
ShutRemote ==
    \/ remote' = IF remote \in {"open", "connecting"} THEN "lost" ELSE remote
    \/ remote = "connecting" /\ UNCHANGED remote

-------------------------------------------------------------------------------
(* threadproc and go_out *)

\* while (check_run()): the next loop body, or the end of the thread.
Loop ==
    /\ tpc = "loop"
    /\ tpc' = IF m_stop THEN "exit" ELSE "open"
    /\ UNCHANGED <<cpc, threadVars, mp_acceptor, userVars, writeVars,
                   remoteVars, timerVars, sessions>>

\* The acceptor is bound and mp_acceptor points to it; or the port is taken.
OpenAcceptor ==
    /\ tpc = "open"
    /\ \/ mp_acceptor' = "open" /\ tpc' = "accept" /\ UNCHANGED m_local_connected
       \/ tpc' = "sleep" /\ m_local_connected' = FALSE /\ UNCHANGED mp_acceptor
    /\ UNCHANGED <<cpc, m_stop, joinable, crashed, m_auto_reconnect, userVars,
                   writeVars, remoteVars, timerVars, sessions>>

\* The blocking accept() returns with the first user, or fails once the
\* acceptor was shut down.
Accept(u) ==
    /\ tpc = "accept" /\ mp_acceptor = "open" /\ sock[u] = "unused"
    /\ sock' = [sock EXCEPT ![u] = "open"]
    /\ tpc' = "accepted"
    /\ UNCHANGED <<cpc, threadVars, mp_acceptor, m_local_sockets, readers,
                   writeVars, remoteVars, timerVars, sessions>>

AcceptFails ==
    /\ tpc = "accept" /\ mp_acceptor = "shut"
    /\ tpc' = "scope"
    /\ UNCHANGED <<cpc, threadVars, mp_acceptor, userVars, writeVars,
                   remoteVars, timerVars, sessions>>

\* The first user enters the list and is read from; async_accept waits for more.
FirstUser(u) ==
    /\ tpc = "accepted" /\ sock[u] # "unused"
    /\ m_local_sockets' = {u}
    /\ readers' = {u} /\ m_local_connected' = TRUE
    /\ tpc' = "out"
    /\ UNCHANGED <<cpc, m_stop, joinable, crashed, m_auto_reconnect,
                   mp_acceptor, sock, writeVars, remoteVars,
                   timerVars, sessions>>

\* go_out: mp_remote_socket points to the new socket before it is connected.
GoOut ==
    /\ tpc = "out"
    /\ remote' = "connecting"
    /\ tpc' = "connect"
    /\ UNCHANGED <<cpc, threadVars, mp_acceptor, userVars, writeVars,
                   handshaking, remote_reads, remote_writers, stale, timerVars,
                   sessions>>

\* The connection stands: async_wait, then expires_from_now(20 seconds), which
\* aborts that wait, then async_handshake, then run().
Connect ==
    /\ tpc = "connect" /\ remote = "connecting" /\ sessions < MaxSessions
    /\ sessions' = sessions + 1
    /\ remote' = "open"
    /\ handshaking' = TRUE
    /\ deadline' = "set"
    /\ waits' = [waits EXCEPT !.aborted = @ + 1]
    /\ tpc' = "run"
    /\ UNCHANGED <<cpc, threadVars, mp_acceptor, userVars, writeVars,
                   remote_reads, remote_writers, stale>>

ConnectFails ==
    /\ tpc = "connect"
    /\ EndSession(m_local_sockets, stale, waits)
    /\ UNCHANGED <<cpc, threadVars, mp_acceptor, userVars, writeVars, sessions>>

\* Sockets that are shut down stay open until they are closed.
local_user_count ==
    IF m_local_connected
    THEN Cardinality({u \in m_local_sockets : sock[u] # "closed"}) ELSE 0

is_local_connected == local_user_count > 0

\* sleep(5000) and the condition of the do loop.  Both call check_run(), whose
\* interrupt_exception is no std::exception: it ends the thread.
Pause ==
    /\ tpc = "pause"
    /\ tpc' = IF m_stop THEN "unwind"
              ELSE IF m_auto_reconnect /\ m_local_sockets # {} /\ is_local_connected
                   THEN "out" ELSE "scope"
    /\ UNCHANGED <<cpc, threadVars, mp_acceptor, userVars, writeVars,
                   remoteVars, timerVars, sessions>>

\* m_local_connected is cleared behind the catch clause, which interrupt_exception
\* passes by.
LeaveBody ==
    \/ tpc = "scope" /\ tpc' = "sleep" /\ m_local_connected' = FALSE
    \/ tpc = "unwind" /\ tpc' = "exit" /\ UNCHANGED m_local_connected

\* Fault: cleanup() is left out, and the users stay in the list.
ScopeExit_NoCleanup ==
    /\ LeaveBody
    /\ mp_acceptor' = "null"
    /\ readers' = {} /\ remote_writers' = {}
    /\ local_writes' = [u \in Users |-> 0]
    /\ remote' = "none" /\ handshaking' = FALSE /\ remote_reads' = 0
    /\ stale' = 0 /\ deadline' = "never" /\ waits' = NoWaits /\ sessions' = 0
    /\ UNCHANGED <<cpc, m_stop, joinable, crashed, m_auto_reconnect,
                   m_write_count, m_local_sockets, sock>>

\* The end of the loop body: interrupt(), cleanup(), and the io_service is
\* destroyed with all outstanding handlers.
ScopeExit ==
    /\ LeaveBody
    /\ mp_acceptor' = "null"
    /\ m_local_sockets' = {} /\ sock' = [u \in Users |-> "unused"]
    /\ readers' = {} /\ remote_writers' = {}
    /\ local_writes' = [u \in Users |-> 0]
    /\ remote' = "none" /\ handshaking' = FALSE /\ remote_reads' = 0
    /\ stale' = 0 /\ deadline' = "never" /\ waits' = NoWaits /\ sessions' = 0
    /\ UNCHANGED <<cpc, m_stop, joinable, crashed, m_auto_reconnect,
                   m_write_count>>

\* sleep(1500), which ends with check_run().
Sleep ==
    /\ tpc = "sleep"
    /\ tpc' = IF m_stop THEN "exit" ELSE "loop"
    /\ UNCHANGED <<cpc, threadVars, mp_acceptor, userVars, writeVars,
                   remoteVars, timerVars, sessions>>

-------------------------------------------------------------------------------
(* The handlers, run by io_service::run *)

\* handle_handshake
HandshakeDone ==
    /\ tpc = "run" /\ handshaking /\ remote = "open"
    /\ handshaking' = FALSE
    /\ ResetDeadline
    /\ remote_reads' = remote_reads + 1
    /\ UNCHANGED <<tpc, cpc, threadVars, mp_acceptor, userVars, writeVars,
                   remote, remote_writers, stale, sessions>>

\* The remote end refuses the handshake, or the connection is gone.
HandshakeFails ==
    /\ tpc = "run" /\ handshaking
    /\ EndSession(m_local_sockets, RemoteOps - 1, waits)
    /\ UNCHANGED <<cpc, threadVars, mp_acceptor, userVars, writeVars, sessions>>

\* handle_remote_read with data: it is written to every user in the list.
RemoteRead ==
    /\ tpc = "run" /\ remote_reads > 0 /\ remote = "open"
    /\ remote_reads' = remote_reads - 1
    /\ m_write_count' = Cardinality(m_local_sockets)
    /\ ResetDeadline
    /\ local_writes' = [u \in Users |-> IF u \in m_local_sockets
                                        THEN local_writes[u] + 1
                                        ELSE local_writes[u]]
    /\ UNCHANGED <<tpc, cpc, threadVars, mp_acceptor, userVars, remote,
                   handshaking, remote_writers, stale, sessions>>

RemoteReadFails ==
    /\ tpc = "run" /\ remote_reads > 0 /\ remote # "open"
    /\ EndSession(m_local_sockets, RemoteOps - 1, waits)
    /\ UNCHANGED <<cpc, threadVars, mp_acceptor, userVars, writeVars, sessions>>

\* Fault: the remote proxy is read again after every write.
AfterLocalWrite_EachRead ==
    IF m_local_sockets' = {}
    THEN EndSession({}, RemoteOps, waits)
    ELSE /\ ResetDeadline /\ remote_reads' = remote_reads + 1
         /\ UNCHANGED <<tpc, remote, handshaking, remote_writers, stale>>

\* Fault: the remote proxy is not read again.
AfterLocalWrite_NoRead ==
    IF m_local_sockets' = {}
    THEN EndSession({}, RemoteOps, waits)
    ELSE UNCHANGED <<tpc, remoteVars, timerVars>>

\* The end of handle_local_write: the last of the writes lets the remote proxy
\* be read again; without users the session ends.
AfterLocalWrite ==
    IF m_local_sockets' = {}
    THEN EndSession({}, RemoteOps, waits)
    ELSE /\ IF m_write_count' = 0
            THEN ResetDeadline /\ remote_reads' = remote_reads + 1
            ELSE UNCHANGED <<timerVars, remote_reads>>
         /\ UNCHANGED <<tpc, remote, handshaking, remote_writers, stale>>

\* handle_local_write: a user has taken the data, or its socket failed and is
\* removed.
LocalWrite(u) ==
    /\ tpc = "run" /\ local_writes[u] > 0
    /\ local_writes' = [local_writes EXCEPT ![u] = @ - 1]
    /\ m_write_count' = m_write_count - 1
    /\ IF sock[u] = "open" THEN UNCHANGED <<m_local_sockets, sock>>
                           ELSE RemoveSocket(u)
    /\ AfterLocalWrite
    /\ UNCHANGED <<cpc, threadVars, mp_acceptor, readers, sessions>>

\* handle_local_read with data: it is written to the remote proxy.
LocalRead(u) ==
    /\ tpc = "run" /\ u \in readers /\ sock[u] = "open"
    /\ readers' = readers \ {u}
    /\ remote_writers' = remote_writers \cup {u}
    /\ UNCHANGED <<tpc, cpc, threadVars, mp_acceptor, m_local_sockets, sock,
                   writeVars, remote, handshaking, remote_reads, stale,
                   timerVars, sessions>>

\* handle_local_read with an error: the user is removed; the last one ends the
\* session.
LocalReadFails(u) ==
    /\ tpc = "run" /\ u \in readers /\ sock[u] # "open"
    /\ readers' = readers \ {u}
    /\ RemoveSocket(u)
    /\ IF m_local_sockets' = {} THEN EndSession({}, RemoteOps, waits)
                                ELSE UNCHANGED <<tpc, remoteVars, timerVars>>
    /\ UNCHANGED <<cpc, threadVars, mp_acceptor, writeVars, sessions>>

\* Fault: the user is not read from again.
RemoteWrite_NoRead(u) ==
    /\ tpc = "run" /\ u \in remote_writers /\ remote = "open"
    /\ remote_writers' = remote_writers \ {u}
    /\ UNCHANGED <<tpc, cpc, threadVars, mp_acceptor, userVars, writeVars,
                   remote, handshaking, remote_reads, stale, timerVars,
                   sessions>>

\* handle_remote_write: the user is read from again if it is still listed.
RemoteWrite(u) ==
    /\ tpc = "run" /\ u \in remote_writers /\ remote = "open"
    /\ remote_writers' = remote_writers \ {u}
    /\ readers' = IF u \in m_local_sockets THEN readers \cup {u} ELSE readers
    /\ UNCHANGED <<tpc, cpc, threadVars, mp_acceptor, m_local_sockets, sock,
                   writeVars, remote, handshaking, remote_reads, stale,
                   timerVars, sessions>>

RemoteWriteFails ==
    /\ tpc = "run" /\ remote_writers # {} /\ remote # "open"
    /\ EndSession(m_local_sockets, RemoteOps - 1, waits)
    /\ UNCHANGED <<cpc, threadVars, mp_acceptor, userVars, writeVars, sessions>>

\* handle_accept: one more user, or one too many, which is closed again.  The
\* next async_accept follows at once: the list is not empty while run() runs.  A
\* failed accept is only followed by the next one.
HandleAccept(u) ==
    /\ tpc = "run" /\ mp_acceptor = "open" /\ sock[u] = "unused"
    /\ IF Cardinality(m_local_sockets) < MaxConnections
       THEN /\ m_local_sockets' = m_local_sockets \cup {u}
            /\ readers' = readers \cup {u}
            /\ sock' = [sock EXCEPT ![u] = "open"]
       ELSE /\ sock' = [sock EXCEPT ![u] = "closed"]
            /\ UNCHANGED <<m_local_sockets, readers>>
    /\ UNCHANGED <<tpc, cpc, threadVars, mp_acceptor, writeVars, remoteVars,
                   timerVars, sessions>>

\* An aborted handler of an earlier session's remote socket runs in this one:
\* it throws as if this connection had failed.
StaleHandler ==
    /\ tpc = "run" /\ stale > 0
    /\ EndSession(m_local_sockets, RemoteOps - 1, waits)
    /\ UNCHANGED <<cpc, threadVars, mp_acceptor, userVars, writeVars, sessions>>

\* check_deadline(operation_aborted): wait again.
CheckDeadlineAborted ==
    /\ tpc = "run" /\ waits.aborted > 0
    /\ waits' = IF deadline = "past"
                THEN [waits EXCEPT !.aborted = @ - 1, !.fired = @ + 1]
                ELSE [waits EXCEPT !.aborted = @ - 1, !.waiting = @ + 1]
    /\ UNCHANGED <<tpc, cpc, threadVars, mp_acceptor, userVars, writeVars,
                   remoteVars, deadline, sessions>>

\* check_deadline, expired: the remote socket is closed.  With m_auto_reconnect
\* its aborted operations end the session, otherwise check_deadline throws.
CheckDeadlineExpired ==
    LET w == [waits EXCEPT !.fired = @ - 1]
    IN /\ tpc = "run" /\ waits.fired > 0 /\ deadline = "past"
       /\ IF m_auto_reconnect
          THEN /\ remote' = "closed"
               /\ deadline' = "never" /\ waits' = Aborted(w)
               /\ UNCHANGED <<tpc, mp_acceptor, sock, handshaking,
                              remote_reads, remote_writers, stale>>
          ELSE /\ mp_acceptor' = "shut" /\ ShutUsers
               /\ EndSession(m_local_sockets, RemoteOps, w)
       /\ UNCHANGED <<cpc, threadVars, m_local_sockets, readers, writeVars,
                      sessions>>

\* check_deadline, not expired: the deadline was moved after this handler was
\* queued.  Nobody waits for the timer on its behalf any more.
CheckDeadlineMoved ==
    /\ tpc = "run" /\ waits.fired > 0 /\ deadline # "past"
    /\ waits' = [waits EXCEPT !.fired = @ - 1]
    /\ UNCHANGED <<tpc, cpc, threadVars, mp_acceptor, userVars, writeVars,
                   remoteVars, deadline, sessions>>

-------------------------------------------------------------------------------
(* The control thread: start() and stop() *)

\* is_thread_running: a thread that has ended is not running, joined or not.
is_running == joinable /\ tpc # "exit"

CtlStart ==
    /\ cpc = "idle" /\ ~is_running /\ ~joinable
    /\ m_stop' = FALSE /\ joinable' = TRUE
    /\ tpc' = "loop"
    /\ UNCHANGED <<cpc, crashed, m_auto_reconnect, m_local_connected,
                   mp_acceptor, userVars,
                   writeVars, remoteVars, timerVars, sessions>>

CtlStop ==
    /\ cpc = "idle" /\ joinable
    /\ m_stop' = TRUE
    /\ cpc' = "intr"
    /\ UNCHANGED <<tpc, joinable, crashed, m_auto_reconnect, m_local_connected,
                   mp_acceptor, userVars,
                   writeVars, remoteVars, timerVars, sessions>>

\* Fault: the acceptor is cancelled but not shut down, which leaves a blocking
\* accept() waiting.
CtlIntrAcceptor_NoShutdown ==
    /\ cpc = "intr" /\ mp_acceptor # "null"
    /\ cpc' = "intr2"
    /\ UNCHANGED <<tpc, threadVars, mp_acceptor, userVars, writeVars,
                   remoteVars, timerVars, sessions>>

\* interrupt(): mp_acceptor->cancel() and the shutdown of the acceptor.  The
\* pointer is null between two loop bodies.
CtlIntrAcceptor ==
    /\ cpc = "intr"
    /\ IF mp_acceptor = "null"
       THEN crashed' = TRUE /\ UNCHANGED <<cpc, mp_acceptor>>
       ELSE cpc' = "intr2" /\ mp_acceptor' = "shut" /\ UNCHANGED crashed
    /\ UNCHANGED <<tpc, m_stop, joinable, m_auto_reconnect, m_local_connected,
                   userVars, writeVars,
                   remoteVars, timerVars, sessions>>

CtlIntrUsers ==
    /\ cpc = "intr2"
    /\ ShutUsers
    /\ cpc' = "intr3"
    /\ UNCHANGED <<tpc, threadVars, mp_acceptor, m_local_sockets, readers,
                   writeVars, remoteVars, timerVars, sessions>>

CtlIntrRemote ==
    /\ cpc = "intr3"
    /\ ShutRemote
    /\ cpc' = "join"
    /\ UNCHANGED <<tpc, threadVars, mp_acceptor, userVars, writeVars,
                   handshaking, remote_reads, remote_writers, stale, timerVars,
                   sessions>>

CtlJoin ==
    /\ cpc = "join" /\ tpc = "exit"
    /\ joinable' = FALSE
    /\ tpc' = "none" /\ cpc' = "idle"
    /\ UNCHANGED <<m_stop, crashed, m_auto_reconnect, m_local_connected,
                   mp_acceptor, userVars,
                   writeVars, remoteVars, timerVars, sessions>>

\* The remote_endpoint of a socket is known until it is closed, although the
\* peer may be gone.
is_connected(socket) == socket \in {"open", "lost"}

is_remote_connected == remote # "none" /\ is_connected(remote)

\* An entry of the status page as another thread reads it: local_hostname has
\* a name per user in the list, and the count of users is left out for a
\* remote proxy that is connected while no user is.
save_json_status ==
    [connected_local |-> is_local_connected,
     local_hostname |-> m_local_sockets,
     connected_remote |-> is_remote_connected,
     users |-> IF is_local_connected \/ ~is_remote_connected
               THEN {local_user_count} ELSE {}]

-------------------------------------------------------------------------------
(* The users, the remote proxy and time *)

UserLeaves(u) ==
    /\ sock[u] = "open"
    /\ sock' = [sock EXCEPT ![u] = "eof"]
    /\ UNCHANGED <<tpc, cpc, threadVars, mp_acceptor, m_local_sockets, readers,
                   writeVars, remoteVars, timerVars, sessions>>

RemoteLeaves ==
    /\ remote = "open"
    /\ remote' = "lost"
    /\ UNCHANGED <<tpc, cpc, threadVars, mp_acceptor, userVars, writeVars,
                   handshaking, remote_reads, remote_writers, stale, timerVars,
                   sessions>>

\* The read timeout passes: the waits are queued with success.
DeadlinePasses ==
    /\ deadline = "set"
    /\ deadline' = "past"
    /\ waits' = [waits EXCEPT !.waiting = 0, !.fired = @ + waits.waiting]
    /\ UNCHANGED <<tpc, cpc, threadVars, mp_acceptor, userVars, writeVars,
                   remoteVars, sessions>>

-------------------------------------------------------------------------------
\* Steps of the thread outside run(); the accept waits for a user.
ThreadStep ==
    \/ Loop \/ OpenAcceptor \/ AcceptFails \/ (\E u \in Users : FirstUser(u))
    \/ GoOut \/ Connect \/ ConnectFails \/ Pause \/ ScopeExit \/ Sleep

\* Handlers of failed or finished operations; they wait for nobody.
Failures ==
    \/ RemoteReadFails \/ RemoteWriteFails \/ StaleHandler
    \/ CheckDeadlineAborted \/ CheckDeadlineExpired \/ CheckDeadlineMoved
    \/ \E u \in Users : LocalReadFails(u)

\* Handlers that run because a user or the remote proxy did something.
Arrivals ==
    \/ HandshakeDone \/ RemoteRead
    \/ \E u \in Users : Accept(u) \/ LocalRead(u) \/ HandleAccept(u)

ControlStep ==
    CtlIntrAcceptor \/ CtlIntrUsers \/ CtlIntrRemote \/ CtlJoin

Next ==
    /\ ~crashed
    /\ \/ ThreadStep \/ Failures \/ HandshakeFails \/ Arrivals
       \/ (\E u \in Users : LocalWrite(u) \/ RemoteWrite(u) \/ UserLeaves(u))
       \/ CtlStart \/ CtlStop \/ ControlStep
       \/ RemoteLeaves \/ DeadlinePasses

Spec == Init /\ [][Next]_vars

\* The threads are scheduled, the io_service runs the handlers that are ready,
\* timers expire, a handshake on a lost connection fails and a user takes the
\* data that is written to it or leaves.  Nobody has to connect, to send or to
\* answer.
FairSpec ==
    /\ Spec
    /\ WF_vars(~crashed /\ ThreadStep) /\ WF_vars(~crashed /\ ControlStep)
    /\ WF_vars(~crashed /\ RemoteReadFails)
    /\ WF_vars(~crashed /\ RemoteWriteFails) /\ WF_vars(~crashed /\ StaleHandler)
    /\ WF_vars(~crashed /\ remote # "open" /\ HandshakeFails)
    /\ WF_vars(~crashed /\ CheckDeadlineAborted)
    /\ WF_vars(~crashed /\ CheckDeadlineExpired)
    /\ WF_vars(~crashed /\ DeadlinePasses)
    /\ \A u \in Users : /\ WF_vars(~crashed /\ LocalReadFails(u))
                        /\ WF_vars(~crashed /\ LocalWrite(u))

-------------------------------------------------------------------------------
(* Properties *)

\* The async_writes outstanding, numbered per user; how many they are.
WritesTo(u) == {u} \X (1 .. local_writes[u])
Writes == Cardinality(UNION {WritesTo(u) : u \in Users})

ConnectionLimit == Cardinality(m_local_sockets) <= MaxConnections

RunHasUsers == tpc = "run" => m_local_sockets # {}

WriteCountExact == Writes > 0 => m_write_count = Writes

\* The remote proxy is read by exactly one party at a time: the handshake, one
\* async_read_some, or nobody while users are being written to.  A second read
\* would fill m_remote_data under the writes; none at all would stall the flow.
\* m_write_count, which decides it, is the number of async_writes outstanding,
\* although users leave and others arrive while they are.
ReadPump ==
    /\ WriteCountExact
    /\ tpc = "run" => (IF handshaking THEN 1 ELSE 0) + remote_reads
                          + (IF Writes > 0 THEN 1 ELSE 0) = 1

\* Every listed user is either being read from or waits for its data to be
\* written to the remote proxy: none is forgotten, none is read twice.  Never
\* more than m_max_connections are listed, and the io_service never runs for
\* nobody: whichever handler removes the last user ends the session.
UsersServed ==
    /\ ConnectionLimit
    /\ RunHasUsers
    /\ tpc = "run" => /\ m_local_sockets \subseteq readers \cup remote_writers
                      /\ readers \cap remote_writers = {}

\* The status page tells the truth about a port without a session: whatever the
\* previous users and the previous stop() left behind, also an m_local_connected
\* that is still set because stop() came in the pause of five seconds, a port that
\* was stopped or waits for its first user shows nobody, here or there.
IdleShowsNobody ==
    tpc \in {"none", "sleep", "loop", "open", "accept", "exit"} =>
        save_json_status = [connected_local |-> FALSE, local_hostname |-> {},
                            connected_remote |-> FALSE, users |-> {0}]

\* When the remote proxy is lost the session ends, also when the loss is only
\* noticed after the users have taken the data in flight.
LossEndsSession == remote = "lost" ~> remote # "lost" \/ crashed

\* stop() returns: interrupt() wakes the thread wherever it is, unless it comes
\* while accept() returns with the first user, or a reconnect has left a user
\* that nobody reads from.
StopReturns ==
    /\ ~m_auto_reconnect
    /\ [](tpc = "accepted" => cpc = "idle")
    => (cpc = "join" ~> cpc = "idle")

===============================================================================
