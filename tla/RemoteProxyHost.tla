---------------------------- MODULE RemoteProxyHost ----------------------------
(***************************************************************************)
(* One listening port of the UniProxy server: src/remoteclient.cpp,        *)
(* RemoteProxyHost, with the control threads (web server, main) that start *)
(* and stop it and that change its configuration through                   *)
(* src/proxy_global.cpp.                                                   *)
(*                                                                         *)
(* The host thread runs an io_service whose handlers accept connections    *)
(* and reap dead sessions (check_deadline).  Control threads are           *)
(* serialised by proxy_global's m_mutex_list, so one control thread is     *)
(* modelled; it shares m_clients and m_remote_ep with the host thread and  *)
(* with the sessions.  A session is seen through the contract ProxySession.*)
(***************************************************************************)
EXTENDS Naturals, FiniteSets

CONSTANTS
    Clients,       \* session objects: a bound on the connections ever accepted
    MaxListed,     \* bound on m_clients when another remote proxy connects
    Names,         \* certificate names of remotes
    NoClient,      \* no session waits in async_accept
    NoName,        \* m_endpoint is not set yet
    MaxStarts,     \* bound on calls of start()
    MaxUpdates,    \* bound on configuration updates
    AcceptErrors   \* whether async_accept may complete with an error

ASSUME HostAssumption ==
    /\ NoClient \notin Clients /\ NoName \notin Names
    /\ MaxListed \in Nat /\ MaxStarts \in Nat /\ MaxUpdates \in Nat
    /\ AcceptErrors \in BOOLEAN

VARIABLES
    hpc,           \* control state of the host thread
    cpc,           \* control state of the control thread
    m_stop,        \* mylib::thread::m_stop of the host thread
    joinable,      \* whether the host thread is joinable
    io_stopped,    \* m_io_service.stopped()
    acceptor,      \* m_acceptor
    armed,         \* the session of the pending async_accept
    dial,          \* a remote proxy waits in the acceptor's backlog
    accept_lost,   \* history: handle_accept left the port without async_accept
    timer,         \* the deadline timer
    m_mutex,       \* holder of RemoteProxyHost::m_mutex
    m_clients,     \* sessions in the list
    todo,          \* per thread: sessions its loop over m_clients has to visit
    visiting,      \* per thread: the session whose stop() it waits for
    m_remote_ep,   \* names of the configured remotes
    uploaded,      \* names of the remotes in the configuration being uploaded
    created,       \* sessions created so far
    phase, ended, stopped,   \* the state of each session, see ProxySession
    name,          \* m_endpoint.m_name of each session
    starts, updates

runVars     == <<m_stop, joinable>>
portVars    == <<io_stopped, acceptor, armed, dial, accept_lost>>
hostVars    == <<hpc, runVars, portVars, timer>>
listVars    == <<m_mutex, m_clients, todo, visiting>>
configVars  == <<m_remote_ep, uploaded, updates, starts>>
stampVars   == <<ended, stopped>>
sessionVars == <<created, phase, stampVars, name>>

vars == <<hostVars, cpc, listVars, configVars, sessionVars>>

Ages   == {"unset", "recent", "old"}
Phases == {"waiting", "serving", "asked", "stopped", "erased"}

\* The types of the host's state: the accept thread, the control thread, the
\* port, and the life of each session.
TypeOK ==
    /\ hpc \in {"none", "listen", "loop", "run", "reap_lock", "reap",
                "reap_stop", "sleep", "unlock", "exit"}
    /\ cpc \in {"idle", "intr", "join", "stop_lock", "stop", "stop_wait",
                "remove_lock", "remove", "remove_wait", "populate", "trim",
                "relock", "status_lock", "status"}
    /\ m_stop \in BOOLEAN /\ joinable \in BOOLEAN /\ io_stopped \in BOOLEAN
    /\ acceptor \in {"closed", "bound", "listening"}
    /\ armed \in Clients \cup {NoClient}
    /\ dial \in BOOLEAN /\ accept_lost \in BOOLEAN
    /\ timer \in {"none", "cancelled", "set", "due"}
    /\ m_mutex \in {"free", "host", "control"}
    /\ m_clients \subseteq Clients
    /\ todo \in [{"host", "control"} -> SUBSET Clients]
    /\ visiting \in [{"host", "control"} -> Clients \cup {NoClient}]
    /\ m_remote_ep \subseteq Names /\ uploaded \subseteq Names
    /\ created \subseteq Clients
    /\ phase \in [Clients -> Phases]
    /\ ended \in [Clients -> Ages] /\ stopped \in [Clients -> Ages]
    /\ name \in [Clients -> Names \cup {NoName}]
    /\ starts \in 0 .. MaxStarts /\ updates \in 0 .. MaxUpdates

Init ==
    /\ hpc = "none" /\ cpc = "idle"
    /\ m_stop = FALSE /\ joinable = FALSE /\ io_stopped = FALSE
    /\ acceptor = "closed" /\ armed = NoClient /\ dial = FALSE
    /\ accept_lost = FALSE /\ timer = "none" /\ m_mutex = "free"
    /\ m_clients = {} /\ todo = [t \in {"host", "control"} |-> {}]
    /\ visiting = [t \in {"host", "control"} |-> NoClient]
    /\ m_remote_ep = Names /\ uploaded = Names
    /\ created = {}
    /\ phase = [c \in Clients |-> "waiting"]
    /\ ended = [c \in Clients |-> "unset"]
    /\ stopped = [c \in Clients |-> "unset"]
    /\ name = [c \in Clients |-> NoName]
    /\ starts = 0 /\ updates = 0

-------------------------------------------------------------------------------
(* Sessions, seen by the host *)

\* The certificate lookup of remote_threadproc: it reads m_remote_ep, without
\* m_mutex, while the session serves or is being stopped.
SessionLookup(c) ==
    /\ phase[c] \in {"serving", "asked"}
    /\ name[c] = NoName /\ ended[c] = "unset"
    /\ \E n \in m_remote_ep : name' = [name EXCEPT ![c] = n]
    /\ UNCHANGED <<hostVars, cpc, listVars, configVars, created, phase,
                   stampVars>>

\* remote_threadproc ends by itself: the connection is lost or refused.
SessionFinish(c) ==
    /\ phase[c] \in {"serving", "asked"} /\ ended[c] = "unset"
    /\ ended' = [ended EXCEPT ![c] = "recent"]
    /\ UNCHANGED <<hostVars, cpc, listVars, configVars, created, phase,
                   stopped, name>>

\* stop() returns once the threads of the session are joined.
SessionReturn(c) ==
    /\ phase[c] = "asked"
    /\ phase' = [phase EXCEPT ![c] = "stopped"]
    /\ stopped' = [stopped EXCEPT ![c] = "recent"]
    /\ UNCHANGED <<hostVars, cpc, listVars, configVars, created, ended, name>>

\* Two seconds pass.
SessionAges(c) ==
    /\ \/ /\ ended[c] = "recent"
          /\ ended' = [ended EXCEPT ![c] = "old"]
          /\ UNCHANGED stopped
       \/ /\ stopped[c] = "recent"
          /\ stopped' = [stopped EXCEPT ![c] = "old"]
          /\ UNCHANGED ended
    /\ UNCHANGED <<hostVars, cpc, listVars, configVars, created, phase, name>>

\* is_thread_active()
ThreadActive(c) == ended[c] # "old"

\* Fault: stop() without the test of m_stopped.
CallStop_Again(c) == phase' = [phase EXCEPT ![c] = "asked"]

\* (*iter)->stop(): a no-op on a session that was stopped before.
CallStop(c) ==
    phase' = IF phase[c] = "serving" THEN [phase EXCEPT ![c] = "asked"]
                                     ELSE phase

-------------------------------------------------------------------------------
(* The host thread: threadproc, handle_accept, check_deadline *)

\* The next session object waits in async_accept; past the bound on sessions, one
\* that nobody will dial and that has no name here.
ArmNext ==
    IF created = Clients
    THEN armed' = NoClient /\ UNCHANGED created
    ELSE /\ armed' = CHOOSE c \in Clients : c \notin created
         /\ created' = created \cup {armed'}

\* listen(), and the first session waits in async_accept.
Listen ==
    /\ hpc = "listen" /\ created # Clients
    /\ ArmNext
    /\ acceptor' = "listening"
    /\ accept_lost' = FALSE
    /\ hpc' = "loop"
    /\ UNCHANGED <<cpc, runVars, io_stopped, dial, timer, listVars, configVars,
                   phase, stampVars, name>>

\* The head of the loop: check_run, then a fresh deadline timer.  async_wait
\* comes before expires_from_now, which cancels that wait.
Loop ==
    /\ hpc = "loop"
    /\ IF m_stop THEN hpc' = "unlock" /\ UNCHANGED timer
                 ELSE hpc' = "run" /\ timer' = "cancelled"
    /\ UNCHANGED <<cpc, runVars, portVars, listVars, configVars, sessionVars>>

\* The io_service runs its handlers one at a time until it is stopped.
Running == hpc = "run" /\ ~io_stopped

\* Fault: the accepted session is started but not remembered.
HandleAccept_NotListed ==
    /\ Running /\ dial /\ armed # NoClient
    /\ dial' = FALSE
    /\ phase' = [phase EXCEPT ![armed] = "serving"]
    /\ ArmNext
    /\ UNCHANGED <<hpc, runVars, io_stopped, acceptor, accept_lost, timer, cpc,
                   listVars, configVars, stampVars, name>>

\* Fault: the handler does not wait for the next connection.
HandleAccept_Once ==
    /\ Running /\ dial /\ armed # NoClient
    /\ dial' = FALSE
    /\ m_clients' = m_clients \cup {armed}
    /\ phase' = [phase EXCEPT ![armed] = "serving"]
    /\ armed' = NoClient
    /\ UNCHANGED <<hpc, runVars, io_stopped, acceptor, accept_lost, timer, cpc,
                   m_mutex, todo, visiting, configVars, created, stampVars,
                   name>>

\* handle_accept without error: the session enters m_clients (m_mutex is not
\* taken), is started, and the next session waits in async_accept.
HandleAccept ==
    /\ Running /\ dial /\ armed # NoClient
    /\ dial' = FALSE
    /\ m_clients' = m_clients \cup {armed}
    /\ phase' = [phase EXCEPT ![armed] = "serving"]
    /\ ArmNext
    /\ UNCHANGED <<hpc, runVars, io_stopped, acceptor, accept_lost, timer, cpc,
                   m_mutex, todo, visiting, configVars, stampVars, name>>

\* handle_accept with an error, or an exception before push_back (the certificate
\* file cannot be read, and the connection is lost with the session): the session
\* is dropped and nothing waits for the next connection.
HandleAcceptError ==
    /\ AcceptErrors /\ Running /\ armed # NoClient
    /\ armed' = NoClient /\ accept_lost' = TRUE
    /\ dial' \in {dial, FALSE}
    /\ UNCHANGED <<hpc, runVars, io_stopped, acceptor, timer, cpc, listVars,
                   configVars, sessionVars>>

\* handle_accept with an exception after start(): RemoteProxyClient::create or
\* async_accept throws, so that the session serves but nothing waits for the next.
HandleAcceptLast ==
    /\ AcceptErrors /\ Running /\ dial /\ armed # NoClient
    /\ dial' = FALSE
    /\ m_clients' = m_clients \cup {armed}
    /\ phase' = [phase EXCEPT ![armed] = "serving"]
    /\ armed' = NoClient /\ accept_lost' = TRUE
    /\ UNCHANGED <<hpc, runVars, io_stopped, acceptor, timer, cpc, m_mutex,
                   todo, visiting, configVars, created, stampVars, name>>

\* Fault: an aborted wait is not renewed.
CheckDeadlineAborted_NoWait ==
    /\ Running /\ timer = "cancelled"
    /\ timer' = "none"
    /\ UNCHANGED <<hpc, runVars, portVars, cpc, listVars, configVars,
                   sessionVars>>

\* check_deadline(operation_aborted): wait again.
CheckDeadlineAborted ==
    /\ Running /\ timer = "cancelled"
    /\ timer' = "set"
    /\ UNCHANGED <<hpc, runVars, portVars, cpc, listVars, configVars,
                   sessionVars>>

TimerDue ==
    /\ timer = "set"
    /\ timer' = "due"
    /\ UNCHANGED <<hpc, runVars, portVars, cpc, listVars, configVars,
                   sessionVars>>

\* check_deadline, expired: the timer is set to 3 seconds and waited for.
CheckDeadline ==
    /\ Running /\ timer = "due"
    /\ timer' = "set"
    /\ hpc' = "reap_lock"
    /\ UNCHANGED <<runVars, portVars, cpc, listVars, configVars, sessionVars>>

\* Still in check_deadline: m_mutex is taken for the loop over m_clients.
ReapLock ==
    /\ hpc = "reap_lock" /\ m_mutex = "free"
    /\ m_mutex' = "host"
    /\ todo' = [todo EXCEPT !["host"] = m_clients]
    /\ hpc' = "reap"
    /\ UNCHANGED <<runVars, portVars, timer, cpc, m_clients, visiting,
                   configVars, sessionVars>>

\* Sessions are visited in any order; an active one is left alone.
ReapSkip(c) ==
    /\ hpc = "reap" /\ c \in todo["host"]
    /\ ThreadActive(c)
    /\ todo' = [todo EXCEPT !["host"] = @ \ {c}]
    /\ UNCHANGED <<hostVars, cpc, m_mutex, m_clients, visiting, configVars,
                   sessionVars>>

\* An inactive one is stopped ...
ReapStop(c) ==
    /\ hpc = "reap" /\ c \in todo["host"]
    /\ ~ThreadActive(c)
    /\ CallStop(c)
    /\ todo' = [todo EXCEPT !["host"] = @ \ {c}]
    /\ visiting' = [visiting EXCEPT !["host"] = c]
    /\ hpc' = "reap_stop"
    /\ UNCHANGED <<runVars, portVars, timer, cpc, m_mutex, m_clients,
                   configVars, created, stampVars, name>>

\* ... and erased if m_stopped is more than two seconds old.
ReapErase(c) ==
    /\ hpc = "reap_stop" /\ c = visiting["host"]
    /\ phase[c] = "stopped"
    /\ IF stopped[c] = "old"
       THEN /\ m_clients' = m_clients \ {c}
            /\ phase' = [phase EXCEPT ![c] = "erased"]
       ELSE UNCHANGED <<m_clients, phase>>
    /\ visiting' = [visiting EXCEPT !["host"] = NoClient]
    /\ hpc' = "reap"
    /\ UNCHANGED <<runVars, portVars, timer, cpc, m_mutex, todo, configVars,
                   created, stampVars, name>>

ReapDone ==
    /\ hpc = "reap" /\ todo["host"] = {}
    /\ m_mutex' = "free"
    /\ hpc' = "run"
    /\ UNCHANGED <<runVars, portVars, timer, cpc, m_clients, todo, visiting,
                   configVars, sessionVars>>

\* run() returns when the io_service is stopped; the timer leaves its scope.
RunReturns ==
    /\ hpc = "run" /\ io_stopped
    /\ timer' = "none"
    /\ hpc' = "sleep"
    /\ UNCHANGED <<runVars, portVars, cpc, listVars, configVars, sessionVars>>

\* m_thread.sleep(1000) ends with check_run.
Sleep ==
    /\ hpc = "sleep"
    /\ hpc' = IF m_stop THEN "unlock" ELSE "loop"
    /\ UNCHANGED <<runVars, portVars, timer, cpc, listVars, configVars,
                   sessionVars>>

\* scope_exit: unlock() cancels and closes the acceptor; whoever waited in its
\* backlog is disconnected.
Unlock ==
    /\ hpc = "unlock"
    /\ acceptor' = "closed"
    /\ armed' = NoClient
    /\ dial' = FALSE
    /\ hpc' = "exit"
    /\ UNCHANGED <<runVars, io_stopped, accept_lost, timer, cpc, listVars,
                   configVars, sessionVars>>

-------------------------------------------------------------------------------
(* The control thread: host_set_active, stopall and config_upload *)

\* RemoteProxyHost::start on a host whose thread does not run.  Nothing calls
\* m_io_service.restart().
StartThread ==
    /\ ~joinable /\ acceptor = "closed" /\ starts < MaxStarts
    /\ acceptor' = "bound"
    /\ m_stop' = FALSE
    /\ joinable' = TRUE
    /\ hpc' = "listen"
    /\ starts' = starts + 1
    /\ UNCHANGED <<io_stopped, armed, accept_lost, timer>>

CtlStart ==
    /\ cpc = "idle"
    /\ StartThread
    /\ UNCHANGED <<cpc, dial, listVars, m_remote_ep, uploaded, updates,
                   sessionVars>>

\* Fault: m_mutex is taken before the host thread is stopped and joined.
CtlStop_Locked ==
    /\ cpc = "idle" /\ starts > 0 /\ m_mutex = "free"
    /\ m_stop' = TRUE
    /\ m_mutex' = "control"
    /\ todo' = [todo EXCEPT !["control"] = m_clients]
    /\ cpc' = IF joinable THEN "intr" ELSE "stop"
    /\ UNCHANGED <<hpc, joinable, portVars, timer, m_clients, visiting,
                   configVars, sessionVars>>

\* RemoteProxyHost::stop begins with m_thread.stop().
CtlStop ==
    /\ cpc = "idle" /\ starts > 0
    /\ m_stop' = TRUE
    /\ cpc' = IF joinable THEN "intr" ELSE "stop_lock"
    /\ UNCHANGED <<hpc, joinable, portVars, timer, listVars, configVars,
                   sessionVars>>

\* interrupt(): m_io_service.stop()
CtlInterrupt ==
    /\ cpc = "intr"
    /\ io_stopped' = TRUE
    /\ cpc' = "join"
    /\ UNCHANGED <<hpc, runVars, acceptor, armed, accept_lost, timer, dial,
                   listVars, configVars, sessionVars>>

\* Fault: the host thread is stopped without being joined.
CtlJoin_NoWait ==
    /\ cpc = "join"
    /\ joinable' = FALSE
    /\ cpc' = "stop_lock"
    /\ UNCHANGED <<hpc, m_stop, portVars, timer, listVars, configVars,
                   sessionVars>>

CtlJoin ==
    /\ cpc = "join" /\ hpc = "exit"
    /\ joinable' = FALSE
    /\ cpc' = "stop_lock"
    /\ UNCHANGED <<hpc, m_stop, portVars, timer, listVars, configVars,
                   sessionVars>>

\* std::lock_guard on m_mutex for a loop over m_clients.
CtlLock(from, to) ==
    /\ cpc = from /\ m_mutex = "free"
    /\ m_mutex' = "control"
    /\ todo' = [todo EXCEPT !["control"] = m_clients]
    /\ cpc' = to
    /\ UNCHANGED <<hostVars, m_clients, visiting, configVars, sessionVars>>

CtlUnlock(from, to) ==
    /\ cpc = from /\ todo["control"] = {}
    /\ m_mutex' = "free"
    /\ cpc' = to
    /\ UNCHANGED <<hostVars, m_clients, todo, visiting, configVars,
                   sessionVars>>

\* One session of the loop is stopped.
CtlVisit(c, from, to) ==
    /\ cpc = from /\ c \in todo["control"]
    /\ CallStop(c)
    /\ todo' = [todo EXCEPT !["control"] = @ \ {c}]
    /\ visiting' = [visiting EXCEPT !["control"] = c]
    /\ cpc' = to
    /\ UNCHANGED <<hostVars, m_mutex, m_clients, configVars, created,
                   stampVars, name>>

\* RemoteProxyHost::stop: every session in m_clients is stopped.
CtlStopOne(c) == CtlVisit(c, "stop", "stop_wait")

CtlStopNext(c) ==
    /\ cpc = "stop_wait" /\ c = visiting["control"]
    /\ phase[c] = "stopped"
    /\ visiting' = [visiting EXCEPT !["control"] = NoClient]
    /\ cpc' = "stop"
    /\ UNCHANGED <<hostVars, m_mutex, m_clients, todo, configVars,
                   sessionVars>>

\* config_upload with a configuration that keeps this host: unpopulate_json
\* calls remove_any with the remotes that the new configuration lacks.
CtlUpdate ==
    /\ cpc = "idle" /\ updates < MaxUpdates
    /\ \E new \in SUBSET Names \ {{}, m_remote_ep} : uploaded' = new
    /\ updates' = updates + 1
    /\ cpc' = "remove_lock"
    /\ UNCHANGED <<hostVars, listVars, m_remote_ep, sessionVars, starts>>

\* m_remote_ep does not change before populate_json.
Cancelled(c) == name[c] \in m_remote_ep \ uploaded

CtlRemoveSkip(c) ==
    /\ cpc = "remove" /\ c \in todo["control"]
    /\ ~Cancelled(c)
    /\ todo' = [todo EXCEPT !["control"] = @ \ {c}]
    /\ UNCHANGED <<hostVars, cpc, m_mutex, m_clients, visiting, configVars,
                   sessionVars>>

CtlRemoveStop(c) == Cancelled(c) /\ CtlVisit(c, "remove", "remove_wait")

CtlRemoveErase(c) ==
    /\ cpc = "remove_wait" /\ c = visiting["control"]
    /\ phase[c] = "stopped"
    /\ m_clients' = m_clients \ {c}
    /\ phase' = [phase EXCEPT ![c] = "erased"]
    /\ visiting' = [visiting EXCEPT !["control"] = NoClient]
    /\ cpc' = "remove"
    /\ UNCHANGED <<hostVars, m_mutex, todo, configVars, created, stampVars,
                   name>>

\* populate_json: add_remotes, then remove_remotes, each under m_mutex.
CtlSetRemotes(from, to, remotes) ==
    /\ cpc = from /\ m_mutex = "free"
    /\ m_remote_ep' = remotes
    /\ cpc' = to
    /\ UNCHANGED <<hostVars, listVars, uploaded, updates, sessionVars, starts>>

CtlAddRemotes    == CtlSetRemotes("populate", "trim", m_remote_ep \cup uploaded)
CtlRemoveRemotes == CtlSetRemotes("trim", "relock", uploaded)

\* The status page: save_json_status looks every remote up among the sessions,
\* with m_mutex held, and changes nothing.
CtlStatus ==
    /\ cpc = "idle"
    /\ cpc' = "status_lock"
    /\ UNCHANGED <<hostVars, listVars, configVars, sessionVars>>

CtlStatusRead(c) ==
    /\ cpc = "status" /\ c \in todo["control"]
    /\ todo' = [todo EXCEPT !["control"] = @ \ {c}]
    /\ UNCHANGED <<hostVars, cpc, m_mutex, m_clients, visiting, configVars,
                   sessionVars>>

\* proxy_global::lock() starts every host, also one that was deactivated.
CtlRelock ==
    /\ cpc = "relock"
    /\ cpc' = "idle"
    /\ IF ~joinable /\ starts < MaxStarts THEN StartThread
                                          ELSE UNCHANGED <<hostVars, starts>>
    /\ UNCHANGED <<dial, listVars, m_remote_ep, uploaded, updates,
                   sessionVars>>

-------------------------------------------------------------------------------
\* A remote proxy connects to the listening port, within the bounds on sessions.
Dial ==
    /\ acceptor = "listening" /\ ~dial
    /\ armed # NoClient \/ created # Clients
    /\ Cardinality(m_clients) < MaxListed
    /\ dial' = TRUE
    /\ UNCHANGED <<hpc, runVars, io_stopped, acceptor, armed, accept_lost, timer,
                   cpc, listVars, configVars, sessionVars>>

HostThread ==
    \/ Listen \/ Loop \/ HandleAccept \/ CheckDeadlineAborted \/ CheckDeadline
    \/ ReapLock
    \/ \E c \in Clients : ReapSkip(c) \/ ReapStop(c) \/ ReapErase(c)
    \/ ReapDone \/ RunReturns \/ Sleep \/ Unlock

ControlThread ==
    \/ CtlInterrupt \/ CtlJoin
    \/ CtlLock("stop_lock", "stop") \/ CtlLock("remove_lock", "remove")
    \/ CtlLock("status_lock", "status")
    \/ CtlUnlock("stop", "idle") \/ CtlUnlock("remove", "populate")
    \/ CtlUnlock("status", "idle")
    \/ \E c \in Clients : \/ CtlStopOne(c) \/ CtlStopNext(c)
                          \/ CtlRemoveSkip(c) \/ CtlRemoveStop(c)
                          \/ CtlRemoveErase(c) \/ CtlStatusRead(c)
    \/ CtlAddRemotes \/ CtlRemoveRemotes \/ CtlRelock

\* Calls from outside: a control request, a connection, an accept error.
Request ==
    \/ CtlStart \/ CtlStop \/ CtlUpdate \/ CtlStatus \/ Dial
    \/ HandleAcceptError \/ HandleAcceptLast

Next ==
    \/ HostThread \/ ControlThread \/ Request \/ TimerDue
    \/ \E c \in Clients : \/ SessionLookup(c) \/ SessionFinish(c)
                          \/ SessionReturn(c) \/ SessionAges(c)

Spec == Init /\ [][Next]_vars

\* The steps in which the control thread takes m_mutex.
CtlTakesMutex ==
    \/ CtlLock("stop_lock", "stop") \/ CtlLock("remove_lock", "remove")
    \/ CtlLock("status_lock", "status") \/ CtlAddRemotes \/ CtlRemoveRemotes

\* Threads are scheduled and time passes.  The io_service runs ready handlers in
\* their order, and the host thread leaves m_mutex free for seconds between two
\* reaps, hence strong fairness for the handlers and for taking the mutex.
\* stop() of a session returns: RemoteProxyClient's StopReturns, whose premises on
\* the peer and the local server are thereby those of the properties below.
FairSpec ==
    /\ Spec
    /\ WF_vars(HostThread) /\ SF_vars(HandleAccept) /\ SF_vars(CheckDeadline)
    /\ SF_vars(ReapLock)
    /\ WF_vars(ControlThread) /\ SF_vars(CtlTakesMutex) /\ WF_vars(TimerDue)
    /\ \A c \in Clients : WF_vars(SessionReturn(c) \/ SessionAges(c))

-------------------------------------------------------------------------------
(* Properties *)

\* Every session of the host follows the contract that RemoteProxyClient
\* implements: handle_accept, check_deadline, stop and remove_any never erase a
\* session that was not stopped, nor start one twice.
Session(c) == INSTANCE ProxySession WITH
                  phase <- phase[c], ended <- ended[c], stopped <- stopped[c]
SessionsFollowContract ==
    [][\A c \in Clients : \/ Session(c)!SessionNext
                          \/ UNCHANGED Session(c)!sessionVars]_vars

\* Only sessions in m_clients are alive, so that stop() and check_deadline miss
\* none: an accepted session stays listed until it was stopped and erased.
NoLostSession ==
    \A c \in Clients :
        phase[c] \in {"serving", "asked", "stopped"} <=> c \in m_clients

\* When RemoteProxyHost::stop has returned, the port is closed and every session
\* is stopped: none was accepted behind the back of the loop that stops them.
StopLeavesNothing ==
    cpc \in {"idle", "relock"} /\ ~joinable =>
        /\ acceptor = "closed" /\ armed = NoClient
        /\ \A c \in m_clients : phase[c] = "stopped"

\* RemoteProxyHost::stop, config_upload and the status page return: no deadlock between
\* m_mutex, the join of the host thread and a check_deadline that is reaping.
ControlReturns == cpc # "idle" ~> cpc = "idle"

\* While the host runs, a session that ended is erased from m_clients.
DeadSessionsReaped ==
    \A c \in Clients :
        ended[c] # "unset" /\ phase[c] # "erased" ~> phase[c] = "erased" \/ m_stop

\* "Waiting for remote connection": a connection to the listening port is taken
\* by handle_accept, however many came before, or the port is closed.  The one
\* exception is a port on which handle_accept itself failed (an error of
\* async_accept, or an exception on its way to the next one): it stays open and
\* nothing is accepted any more.
ConnectionsAnswered == dial ~> ~dial \/ accept_lost

===============================================================================
