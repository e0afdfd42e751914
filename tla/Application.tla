----------------------------- MODULE Application -----------------------------
(***************************************************************************)
(* The application: the loop of main() in src/src/main.cpp, the list       *)
(* operations of proxy_global it brackets the web server with, and the web *)
(* requests that change what runs, each on a worker thread of the server.  *)
(*                                                                         *)
(*   pc         main: "load", "lock", "serving", "again", "stopped"        *)
(*   reload     signal::m_reload                                           *)
(*   shut       the service was told to shut down                          *)
(*   timer      a reload_exception armed proxy_app::timer_ (1 s)           *)
(*   openssl_count, own   the guard of load_configuration, and the own     *)
(*              private key and certificate on disk                        *)
(*   file, upload   uniproxy.json and upload.json, by document name        *)
(*   settings, lists   what Configuration says                             *)
(*   activation, web   the ports of the running activation host and web    *)
(*              server (0: not running)                                    *)
(*   foreign    ports held by other programs                               *)
(*   exchange   uniproxies the thread of client_certificate_exchange asks  *)
(*   worker     the step each worker is at, and the document it parsed     *)
(*   locked, inside   m_mutex_list and who is in a section under it        *)
(*   page       ids and ports on the last status page that was fetched     *)
(*   raced      two uploads were under way at once since the last load     *)
(*   undefined  the lists were used by two threads at once                 *)
(***************************************************************************)
EXTENDS Configuration, FiniteSets

CONSTANTS Workers,       \* web server threads
          Documents,     \* name -> [parses, doc]
          FirstFiles,    \* documents uniproxy.json may hold at the start
          Uploads,       \* documents a user may upload
          FirstOwn,      \* [key, cert] that may be found at the start
          ForeignPorts,  \* ports other programs hold at the start
          MaxUploads, MaxCommands, MaxRequests   \* bounds of the model: of each kind, and in all

ASSUME DocumentsAssumption ==
  /\ FirstFiles \cup Uploads \subseteq DOMAIN Documents
  /\ \A f \in DOMAIN Documents : DocumentParsed(Documents[f].doc)

VARIABLES pc, exit_code, reload, shut, timer, openssl_count, own, file, upload,
          settings, lists, activation, web, foreign, exchange, worker, locked, inside,
          page, raced, undefined, uploads, commands

loop == <<pc, exit_code, reload, shut, openssl_count, own>>
files == <<file, upload, uploads, raced>>
ports == <<activation, web, foreign, exchange>>
mutex == <<locked, inside, undefined>>
vars == <<loop, timer, files, settings, lists, ports, worker, mutex, page, commands>>

NoLists == [hosts |-> <<>>, clients |-> <<>>, hostids |-> 0, clientids |-> 0, thrown |-> FALSE]
Idle == [at |-> "idle", doc |-> CHOOSE d \in DOMAIN Documents : TRUE]

Init ==
  /\ pc = "load" /\ exit_code = 0 /\ reload = FALSE /\ shut = FALSE /\ timer = FALSE
  /\ openssl_count = 0
  /\ own \in FirstOwn
  /\ file \in FirstFiles
  /\ upload = file
  /\ settings = [name |-> "", uniproxies |-> {}, activate_port |-> ActivatePort, web_port |-> WebPort,
                 thrown |-> FALSE]
  /\ lists = NoLists
  /\ activation = 0 /\ web = 0 /\ exchange = {}
  /\ foreign \in SUBSET ForeignPorts
  /\ worker = [w \in Workers |-> Idle]
  /\ locked = FALSE /\ inside = {} /\ undefined = FALSE
  /\ page = {} /\ raced = FALSE
  \* bound: a start without a key is followed up to the server only
  /\ uploads = IF own.key = "good" THEN 0 ELSE MaxUploads
  /\ commands = IF own.key = "good" THEN 0 ELSE MaxCommands

Doc(f) == Documents[f].doc
KeyOk(o) == o.key = "good" /\ o.cert # "none"
Cleared(s) == [s EXCEPT !.thrown = FALSE]

------------------------------------------------------------------------------
(* Starting and stopping what is listed *)

InUse(hosts) ==
  foreign \cup ({web} \ {0})
    \cup {hosts[k].port : k \in {j \in DOMAIN hosts : hosts[j].acceptor = "bound" /\ hosts[j].port # 0}}

\* RemoteProxyHost::start: a failed bind leaves the acceptor open, and open()
\* throws on an acceptor that is open.
StartHost(host, taken) ==
  CASE host.running -> host
    [] ~host.running /\ host.acceptor = "open" -> host
    [] OTHER -> IF host.port \in taken THEN [host EXCEPT !.acceptor = "open"]
                ELSE [host EXCEPT !.running = TRUE, !.acceptor = "bound"]

StopHost(host) ==
  [host EXCEPT !.running = FALSE, !.acceptor = IF host.running THEN "closed" ELSE @]

StartNext(l, k) ==
  LET h == StartHost(l.hosts[k], InUse(l.hosts))
  IN  IF l.thrown THEN l
      ELSE [l EXCEPT !.hosts[k] = h, !.thrown = ~h.running]

StartHosts(l) ==
  LET s[n \in 0 .. Len(l.hosts)] == IF n = 0 THEN l ELSE StartNext(s[n - 1], n)
  IN  s[Len(l.hosts)]

StartClient(client) == [client EXCEPT !.running = @ \/ client.active]

\* proxy_global::lock(): every host whatever its m_active, then the active
\* clients; the first start() that throws ends it.
StartAll(l) ==
  LET h == StartHosts(l)
  IN  IF h.thrown THEN h
      ELSE [h EXCEPT !.clients = [k \in DOMAIN @ |-> StartClient(@[k])]]

ActivationStarted == IF activation = 0 THEN settings.activate_port ELSE activation

\* proxy_global::stopall(): the lists are empty, the ports free; ids go on.
stopall ==
  /\ lists' = [lists EXCEPT !.hosts = <<>>, !.clients = <<>>, !.thrown = FALSE]
  /\ activation' = 0 /\ web' = 0 /\ UNCHANGED foreign

\* client_certificate_exchange: its thread gets a copy of the uniproxies, if
\* there are any; unlock() stops and joins it.
client_certificate_exchange_start == exchange' = settings.uniproxies
client_certificate_exchange_unlock == exchange' = {}

------------------------------------------------------------------------------
(* main() *)

\* The name, uniproxies and ports, read from the file at the start of a load.
Loaded == IF Documents[file].parses THEN PopulateConfig(settings, Doc(file)) ELSE settings
Readable == Documents[file].parses /\ ~Loaded.thrown /\ Loaded.name # ""

\* set_ssl_context throws on a key without a usable certificate and vice versa.
KeyThrows == own.key # "none" /\ ~KeyOk(own)
NoKey == own.key = "none"

AtLoad == /\ pc = "load"
          /\ raced' = FALSE
          /\ UNCHANGED <<exit_code, shut, timer, file, upload, uploads, ports, worker, mutex,
                         page, commands>>

\* An exception in load_configuration: main() goes on with what was read.
LoadFails ==
  /\ AtLoad
  /\ ~Readable \/ KeyThrows
  /\ settings' = Cleared(Loaded)
  /\ pc' = "lock" /\ reload' = FALSE
  /\ UNCHANGED <<openssl_count, own, lists>>

\* External: openssl reports success; its files are usable, or nothing changed.
OpensslMakes(name) == {own, [key |-> "good", cert |-> name]}

\* Fault: the runs of openssl are not counted.
Generates_NoCount == Readable /\ NoKey

\* execute_openssl reports success and the guard allows another load.
Generates == Readable /\ NoKey /\ openssl_count + 1 < 3

LoadGenerates ==
  /\ AtLoad
  /\ Generates
  /\ own' \in OpensslMakes(Loaded.name)
  /\ openssl_count' = IF openssl_count < 3 THEN openssl_count + 1 ELSE 3
  /\ settings' = Cleared(Loaded)
  /\ pc' = "again" /\ reload' = TRUE
  /\ UNCHANGED lists

\* The lists as load_configuration fills them, l before: only when the name
\* is the one in the own certificate.
Filled(l, s, cert, o) ==
  IF s.name = cert THEN PopulateLists(l, Doc(file), KeyOk(o)) ELSE l

LoadPopulates ==
  /\ AtLoad
  /\ Readable /\ ~KeyThrows
  /\ \/ ~NoKey /\ UNCHANGED <<openssl_count, own>>
     \/ NoKey /\ UNCHANGED <<openssl_count, own>>                \* openssl failed
     \/ /\ NoKey /\ openssl_count + 1 >= 3 /\ openssl_count' = 3
        /\ own' \in OpensslMakes(Loaded.name)
  /\ settings' = Cleared(Loaded)
  /\ lists' = Cleared(Filled(lists, Loaded, own.cert, own'))
  /\ pc' = "lock" /\ reload' = FALSE

\* lock_guard<proxy_global>, the web server, the handler for SIGHUP.  When a
\* start throws the guard was not entered: the lists stay as they are.
Lock ==
  /\ pc = "lock"
  /\ LET l == StartAll(lists)
     IN  IF l.thrown \/ settings.web_port \in InUse(l.hosts)
         THEN /\ pc' = "again" /\ exit_code' = 1
              /\ IF l.thrown THEN lists' = Cleared(l) /\ UNCHANGED ports
                 ELSE stopall /\ client_certificate_exchange_unlock
         ELSE /\ pc' = "serving" /\ exit_code' = 0
              /\ lists' = l
              /\ activation' = ActivationStarted /\ web' = settings.web_port
              /\ client_certificate_exchange_start
              /\ UNCHANGED foreign
  /\ reload' = FALSE
  /\ UNCHANGED <<shut, timer, openssl_count, own, files, settings, worker, mutex, page, commands>>

AllIdle == \A w \in Workers : worker[w].at = "idle"

\* run() returns once the workers are done; the guards are left.
Unlock ==
  /\ pc = "serving" /\ shut /\ AllIdle
  /\ client_certificate_exchange_unlock /\ stopall
  /\ pc' = "again"
  /\ shut' = FALSE /\ timer' = FALSE
  /\ UNCHANGED <<exit_code, reload, openssl_count, own, files, settings, worker, mutex, page,
                 commands>>

\* while (signal::reload()), and the stopall() behind the loop.
Again ==
  /\ pc = "again"
  /\ IF reload THEN pc' = "load" /\ UNCHANGED <<lists, ports>> ELSE pc' = "stopped" /\ stopall /\ UNCHANGED exchange
  /\ UNCHANGED <<exit_code, reload, shut, timer, openssl_count, own, files, settings, worker, mutex,
                 page, commands>>

\* bound: requests and signals in all
MoreRequests == uploads + commands < MaxRequests

\* proxy_app::timer_ and its binder: the handler runs whatever the error code.
TimerFires == pc = "serving" /\ timer /\ ~shut

\* The timer of a reload_exception.
timeout_handle ==
  /\ TimerFires
  /\ reload' = TRUE /\ shut' = TRUE /\ timer' = FALSE
  /\ UNCHANGED <<pc, exit_code, openssl_count, own, files, settings, lists, ports, worker, mutex,
                 page, commands>>

Sighup ==
  /\ pc = "serving" /\ commands < MaxCommands /\ MoreRequests
  /\ commands' = commands + 1
  /\ reload' = TRUE /\ shut' = TRUE
  /\ UNCHANGED <<pc, exit_code, timer, openssl_count, own, files, settings, lists, ports, worker,
                 mutex, page>>

\* Environment: another program gives a port up.
PortFreed(p) ==
  /\ p \in foreign
  /\ foreign' = foreign \ {p}
  /\ UNCHANGED <<loop, timer, files, settings, lists, activation, web, exchange, worker, mutex, page,
                 commands>>

------------------------------------------------------------------------------
(* Requests *)

At(w, step) == worker[w].at = step
Goto(w, step) == worker' = [worker EXCEPT ![w].at = step]
Done(w) == worker' = [worker EXCEPT ![w] = Idle]
Throw(w) == timer' = TRUE /\ Done(w)          \* reload_exception, caught in proxy_app::main

Accepts(w) == pc = "serving" /\ ~shut /\ At(w, "idle") /\ MoreRequests
Command(w) == Accepts(w) /\ commands < MaxCommands /\ commands' = commands + 1

\* lock_guard on m_mutex_list around what one action does.
Section == /\ ~locked
           /\ undefined' = (undefined \/ inside # {})
           /\ UNCHANGED <<locked, inside>>

config_upload(w) ==
  /\ Accepts(w) /\ uploads < MaxUploads
  /\ \E f \in Uploads : upload' = f
  /\ uploads' = uploads + 1
  /\ raced' = (raced \/ \E v \in Workers : worker[v].at \notin {"idle", "testing"})
  /\ Goto(w, "parse")
  /\ UNCHANGED <<loop, timer, file, settings, lists, ports, mutex, page, commands>>

\* upload.json is read back: whoever wrote it last.
Parse(w) ==
  /\ At(w, "parse")
  /\ IF Documents[upload].parses
     THEN worker' = [worker EXCEPT ![w] = [at |-> "copy", doc |-> upload]]
     ELSE Done(w)
  /\ UNCHANGED <<loop, timer, files, settings, lists, ports, mutex, page, commands>>

\* upload.json, not the parsed document, becomes uniproxy.json.
Copy(w) ==
  /\ At(w, "copy")
  /\ file' = upload
  /\ IF is_new_configuration(settings, Doc(worker[w].doc))
     THEN Throw(w)
     ELSE Goto(w, "unpopulate") /\ UNCHANGED timer
  /\ UNCHANGED <<loop, upload, uploads, raced, settings, lists, ports, mutex, page, commands>>

\* A copy fails: the error is logged.
CopyFails(w) ==
  /\ At(w, "copy")
  /\ Done(w)
  /\ UNCHANGED <<loop, timer, files, settings, lists, ports, mutex, page, commands>>

\* unpopulate_json waits under the mutex for the threads it stops.
Unpopulate(w) ==
  /\ At(w, "unpopulate") /\ ~locked
  /\ locked' = TRUE /\ inside' = inside \cup {w}
  /\ undefined' = (undefined \/ inside # {})
  /\ Goto(w, "stopping")
  /\ UNCHANGED <<loop, timer, files, settings, lists, ports, page, commands>>

Unpopulated(w) ==
  /\ At(w, "stopping")
  /\ LET l == unpopulate_json(lists, Doc(worker[w].doc))
     IN  /\ lists' = Cleared(l)
         /\ IF l.thrown THEN Throw(w) ELSE Goto(w, "populate") /\ UNCHANGED timer
  /\ locked' = FALSE /\ inside' = inside \ {w}
  /\ UNCHANGED <<loop, files, settings, ports, undefined, page, commands>>

Populate(w) ==
  /\ At(w, "populate") /\ Section
  /\ LET d == Doc(worker[w].doc)
         l == PopulateLists(lists, d, KeyOk(own))
         s == IF l.thrown THEN [settings EXCEPT !.activate_port = ActivatePort] ELSE PopulateConfig(settings, d)
     IN  /\ lists' = Cleared(l) /\ settings' = Cleared(s)
         /\ IF l.thrown \/ s.thrown THEN Throw(w) ELSE Goto(w, "start") /\ UNCHANGED timer
  /\ UNCHANGED <<loop, files, ports, page, commands>>

\* After a second of sleep.
Start(w) ==
  /\ At(w, "start") /\ Section
  /\ LET l == StartAll(lists)
     IN  /\ lists' = Cleared(l)
         /\ IF l.thrown THEN Throw(w) /\ UNCHANGED activation
            ELSE Done(w) /\ activation' = ActivationStarted /\ UNCHANGED timer
  /\ UNCHANGED <<loop, files, settings, web, foreign, exchange, page, commands>>

ClientRemotes == UNION {{r.name : r \in Range(lists.clients[k].remotes)} : k \in DOMAIN lists.clients}

\* config_reload; certificate_delete for a name a client uses.
AskReload(w) ==
  /\ Command(w)
  /\ \/ UNCHANGED mutex
     \/ Section /\ ClientRemotes # {}
  /\ Throw(w)
  /\ UNCHANGED <<loop, files, settings, lists, ports, page>>

shutdown(w) ==
  /\ Command(w)
  /\ shut' = TRUE
  /\ UNCHANGED <<pc, exit_code, reload, openssl_count, own, timer, files, settings, lists,
                 ports, worker, mutex, page>>

\* An entry of the status page, as far as later requests depend on it.
HostStatus(h) == [kind |-> "host", id |-> h.id, port |-> h.port]
ClientStatus(c) == [kind |-> "client", id |-> c.id, port |-> c.port]

status_get(w) ==
  /\ Command(w) /\ Section
  /\ page' = {HostStatus(h) : h \in Range(lists.hosts)} \cup {ClientStatus(c) : c \in Range(lists.clients)}
  /\ UNCHANGED <<loop, timer, files, settings, lists, ports, worker>>

set_host_active(host, id, active, taken) ==
  CASE host.id # id -> host
    [] host.id = id /\ active -> StartHost([host EXCEPT !.active = TRUE], taken)
    [] OTHER -> StopHost([host EXCEPT !.active = FALSE])

\* An exception of start() ends the request and is logged.
host_set_active(w) ==
  /\ Command(w) /\ Section
  /\ \E p \in {q \in page : q.kind = "host"}, active \in BOOLEAN :
       lists' = [lists EXCEPT !.hosts = [k \in DOMAIN @ |-> set_host_active(@[k], p.id, active, InUse(lists.hosts))]]
  /\ UNCHANGED <<loop, timer, files, settings, ports, worker, page>>

set_active(client, id, active) ==
  IF client.id = id THEN [client EXCEPT !.active = active, !.running = active] ELSE client

client_set_active(w) ==
  /\ Command(w) /\ Section
  /\ \E p \in {q \in page : q.kind = "client"}, active \in BOOLEAN :
       lists' = [lists EXCEPT !.clients = [k \in DOMAIN @ |-> set_active(@[k], p.id, active)]]
  /\ UNCHANGED <<loop, timer, files, settings, ports, worker, page>>

\* host_test: found under the mutex, tested without it ...
host_test(w) ==
  /\ Command(w) /\ Section
  /\ lists.hosts # <<>>
  /\ Goto(w, "testing")
  /\ UNCHANGED <<loop, timer, files, settings, lists, ports, page>>

\* ... and the lock_guard unlocks the mutex again, whoever holds it by now.
HostTested(w) ==
  /\ At(w, "testing")
  /\ locked' = FALSE
  /\ Done(w)
  /\ UNCHANGED <<loop, timer, files, settings, lists, ports, inside, undefined, page, commands>>

UploadStep(w) ==
  Parse(w) \/ Copy(w) \/ CopyFails(w) \/ Unpopulate(w) \/ Unpopulated(w) \/ Populate(w) \/ Start(w)

Request(w) ==
  \/ config_upload(w) \/ UploadStep(w)
  \/ AskReload(w) \/ shutdown(w) \/ status_get(w) \/ host_set_active(w) \/ client_set_active(w)
  \/ host_test(w) \/ HostTested(w)

Main == LoadFails \/ LoadGenerates \/ LoadPopulates \/ Lock \/ Unlock \/ Again \/ timeout_handle

Next ==
  \/ Main \/ Sighup
  \/ \E p \in ForeignPorts : PortFreed(p)
  \/ \E w \in Workers : Request(w)

MainReady == \/ pc \in {"load", "lock", "again"}
             \/ pc = "serving" /\ shut /\ AllIdle
             \/ TimerFires

WorkerReady(w) == \/ worker[w].at \in {"parse", "copy", "stopping", "testing"}
                  \/ worker[w].at \in {"unpopulate", "populate", "start"} /\ ~locked

\* The steps of Next that are steps of Main: they move pc, or the timer fires.
MainMoves == pc' # pc \/ (timer /\ ~timer')

\* UploadStep(w) or HostTested(w): the steps of Next that move a busy worker.
WorkerMoves(w) == worker[w].at # "idle" /\ worker'[w] # worker[w]

\* The main thread, the timer and a worker with a request go on: weak fairness
\* of Main and of the steps of a worker, with ENABLED written out.
Spec == /\ Init /\ [][Next]_vars
        /\ []<>~MainReady \/ []<><<MainMoves>>_vars
        /\ \A w \in Workers : []<>~WorkerReady(w) \/ []<><<WorkerMoves(w)>>_vars

------------------------------------------------------------------------------
(* Properties *)

Port == 0 .. 65535             \* mylib::port_type
LocalType == [port : Port, hostname : Text]
RemoteType == [port : Port, hostname : Text, name : Text, username : Text, password : Text]
HostType == [id : Nat, port : Port, remotes : Seq(RemoteType), locals : Seq(LocalType),
             type : PluginTypes \cup {""}, active : BOOLEAN, acceptor : {"closed", "open", "bound"},
             running : BOOLEAN]
ClientType == [id : Nat, active : BOOLEAN, port : Port, remotes : Seq(RemoteType), provider : BOOLEAN,
               locals : Seq(LocalType), running : BOOLEAN]
ListsType == [hosts : Seq(HostType), clients : Seq(ClientType), hostids : Nat, clientids : Nat,
              thrown : BOOLEAN]
SettingsType == [name : Text, uniproxies : SUBSET LocalType, activate_port : Port, web_port : Port,
                 thrown : BOOLEAN]
StatusType == [kind : {"host", "client"}, id : Nat, port : Port]
WorkerType == [at : {"idle", "parse", "copy", "unpopulate", "stopping", "populate", "start", "testing"},
               doc : DOMAIN Documents]

\* Type invariant: the steps of main() and the workers, the lists with ports as
\* wide as mylib::port_type, and no exception left to handle between two steps.
TypeOK ==
  /\ pc \in {"load", "lock", "serving", "again", "stopped"} /\ exit_code \in {0, 1}
  /\ reload \in BOOLEAN /\ shut \in BOOLEAN /\ timer \in BOOLEAN
  /\ openssl_count \in 0 .. 3
  /\ file \in DOMAIN Documents /\ upload \in DOMAIN Documents
  /\ settings \in SettingsType /\ ~settings.thrown
  /\ lists \in ListsType /\ ~lists.thrown
  /\ activation \in Port /\ web \in Port /\ foreign \subseteq ForeignPorts
  /\ exchange \subseteq LocalType
  /\ worker \in [Workers -> WorkerType]
  /\ locked \in BOOLEAN /\ inside \subseteq Workers /\ undefined \in BOOLEAN /\ raced \in BOOLEAN
  /\ page \subseteq StatusType

\* Nothing is under way and no restart is due.
Quiet == pc = "serving" /\ AllIdle /\ ~timer /\ ~shut

HostView(h) ==
  [port |-> h.port, type |-> h.type, locals |-> h.locals,
   remotes |-> {[name |-> r.name, hostname |-> r.hostname, username |-> r.username,
                 password |-> r.password] : r \in Range(h.remotes)}]

ClientView(c) == [port |-> c.port, provider |-> c.provider, locals |-> c.locals, remotes |-> c.remotes]

\* A host without remotes is left out: an upload that takes them all out keeps
\* the host, for nobody, and a start does not make it.
View(l) == [hosts |-> {HostView(h) : h \in {g \in Range(l.hosts) : g.remotes # <<>>}},
            clients |-> {ClientView(c) : c \in Range(l.clients)}]

\* What a start of the program on the file would list.
FromFile == View(IF Readable /\ ~KeyThrows THEN Filled(NoLists, Loaded, own.cert, own) ELSE NoLists)

OwnName == KeyOk(own) /\ settings.name = own.cert /\ openssl_count < 3

\* Whatever was uploaded before, in place or by a restart, and whichever step
\* of it threw: once nothing is under way the hosts and clients are those a
\* start on the present uniproxy.json would give, as far as they have remotes.
\* Claimed while uploads come one at a time, and under a name the own
\* certificate is for.
RunsTheFile ==
  Quiet /\ OwnName /\ ~raced /\ ~undefined => View(lists) = FromFile

EveryPortRuns ==
  Quiet /\ ~undefined =>
    /\ \A h \in Range(lists.hosts) : h.running \/ ~h.active \/ h.acceptor = "open"
    /\ \A c \in Range(lists.clients) : c.running = c.active

PortsExclusive ==
  \A k \in DOMAIN lists.hosts :
    LET h == lists.hosts[k]
    IN  h.running /\ h.port # 0 =>
          /\ h.acceptor = "bound" /\ h.port \notin foreign \cup {web}
          /\ \A j \in DOMAIN lists.hosts \ {k} : lists.hosts[j].port # h.port \/ ~lists.hosts[j].running

\* Then every host and every active client runs, but for a host switched off
\* on the status page or whose port was in use when it was switched on there.
\* No two hosts hold the same port, and none holds a port of another program
\* or of the web server.  Certificates are exchanged with every uniproxy that
\* is known, although the thread that asks them is started by main() only: an
\* upload that brings a new one is never taken over in place.
AllUp == EveryPortRuns /\ PortsExclusive /\ (Quiet => exchange = settings.uniproxies)

SaysTheSame(h, item) ==
  /\ check_string(item, "type", "") = h.type
  /\ [k \in DOMAIN Items(item, "locals") |-> LocalEndpoint(Items(item, "locals")[k], 0)] = h.locals
  /\ find(item, "locals").t = "array"

\* The document has the host, under its port, with its plugin and its locals.
HasHost(doc, h) ==
  LET same == {k \in DOMAIN Items(doc, "hosts") : is_same(h, Items(doc, "hosts")[k])}
  IN  same # {} /\ \A k \in same : SaysTheSame(h, Items(doc, "hosts")[k])

StaysUp(h, g) ==
  /\ g.id = h.id /\ g.port = h.port /\ g.type = h.type /\ g.locals = h.locals
  /\ g.running \/ ~g.active

\* Between two restarts a host that runs stays listed and running, under its id and
\* with its plugin and locals, unless it is switched off or an uploaded document
\* takes it out or changes it: an upload in place stops no other host, whichever
\* item comes first, is there twice or makes the comparison throw, and whatever
\* else is under way.
HostsStayUp ==
  [][\A k \in DOMAIN lists.hosts :
       lists.hosts[k].running =>
         \/ \E j \in DOMAIN lists'.hosts : StaysUp(lists.hosts[k], lists'.hosts[j])
         \/ pc' # pc
         \/ \E w \in Workers : /\ worker[w].at = "stopping" /\ worker'[w] # worker[w]
                               /\ ~HasHost(Doc(worker[w].doc), lists.hosts[k])]_vars

\* A switch of a host on a status page, however old, acts on the host it was shown
\* for: ids are not used again for another host after an upload or reload.
SwitchActsOnShown ==
  [][\A k \in DOMAIN lists.hosts, j \in DOMAIN lists'.hosts :
       lists.hosts[k].id = lists'.hosts[j].id /\ lists.hosts[k].active # lists'.hosts[j].active
         => HostStatus(lists.hosts[k]) \in page]_vars

\* Restarts complete.  A load ends: the program serves or has stopped, whatever
\* openssl does; and a reload_exception, a stop command or SIGHUP takes the
\* server down.
RestartsComplete ==
  /\ pc = "load" ~> pc \in {"serving", "stopped"}
  /\ pc = "serving" /\ (timer \/ shut) ~> pc # "serving"
==============================================================================
