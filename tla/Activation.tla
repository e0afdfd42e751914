------------------------------ MODULE Activation ------------------------------
(***************************************************************************)
(* How two proxies come to trust each other: src/proxy_global.cpp,         *)
(* baseclient.cpp and the certificate files of applutil.cpp.               *)
(*                                                                         *)
(* Four threads of one proxy change certs.pem, each by reading the whole   *)
(* file, changing its copy and writing it back, and no lock covers that:   *)
(*   host      activate_host::threadproc, which answers invited peers      *)
(*   client    BaseClient::threadproc_activate, which calls a chosen peer  *)
(*   exchange  client_certificate_exchange, which polls the uniproxies     *)
(*   web       a web request that deletes a certificate                    *)
(* m_cert_names caches the names in the file; the main thread (ctl) starts *)
(* and stops the activation host.                                          *)
(*                                                                         *)
(* A certificate is its common name: a file is a set of names.             *)
(***************************************************************************)
EXTENDS Naturals, FiniteSets

CONSTANTS
    HostNames,     \* names of the remotes of the hosts
    ClientNames,   \* names of the endpoints of the client
    Foreign,       \* names that only a uniproxy or a stranger knows
    MaxRequests,   \* bound on the web requests
    MaxRounds      \* bound on the rounds of the exchange thread

Names == HostNames \cup ClientNames \cup Foreign
Threads == {"host", "client", "exchange", "web"}
None == "none"

ASSUME ActivationAssumption ==
    /\ None \notin Names /\ ClientNames # {}
    /\ MaxRequests \in Nat /\ MaxRounds \in Nat

VARIABLES
    file, m_cert_names,  \* certs.pem and the cache of its names
    unread,              \* load_configuration failed, and since then nobody has
                         \* read the names
    pc, certs, peer,     \* per thread: position, its copy of the file, the name
                         \* it received or was asked about
    m_activate,          \* the activation list
    activate_names,      \* the names threadproc collected after accept
    m_stop, shut,        \* of the activation host; its sockets were shut down
    ctl,                 \* the main thread in lock() and stopall()
    picked,              \* the endpoint that activate() was asked for
    requests, rounds,
    invited,             \* names with an invitation that is not used up
    trusted              \* names that may be in the file

fileVars == <<file, m_cert_names, unread>>
hostVars == <<m_activate, activate_names>>
stopVars == <<m_stop, shut, ctl>>
countVars == <<requests, rounds>>
ghostVars == <<invited, trusted>>
vars == <<fileVars, pc, certs, peer, hostVars, stopVars, picked, countVars,
          ghostVars>>

Positions == [host : {"off", "check", "size", "bind", "accept", "receive", "load",
                      "truncate", "write", "names", "reply", "exit"},
              client : {"off", "dial", "send", "receive", "load",
                        "truncate", "write", "names"},
              exchange : {"sleep", "load", "truncate", "write", "names"},
              web : {"idle", "join", "load", "truncate", "write", "names", "reload"}]

\* The types of the state.
TypeOK ==
    /\ file \subseteq Names /\ m_cert_names \subseteq Names /\ unread \in BOOLEAN
    /\ pc \in Positions
    /\ certs \in [Threads -> SUBSET Names] /\ peer \in [Threads -> Names \cup {None}]
    /\ m_activate \in [HostNames -> {"absent", "valid", "expired"}]
    /\ activate_names \subseteq HostNames
    /\ m_stop \in BOOLEAN /\ shut \in BOOLEAN
    /\ ctl \in {"run", "first", "second", "join", "stopped"}
    /\ picked \in ClientNames
    /\ requests \in 0 .. MaxRequests /\ rounds \in 0 .. MaxRounds
    /\ invited \subseteq HostNames /\ trusted \subseteq Names

\* load_configuration has read the names, unless something threw before it came to
\* them; lock() has not started the host yet.
Init ==
    /\ file \in {{}, ClientNames} /\ unread \in {FALSE, file # {}}
    /\ m_cert_names = IF unread THEN {} ELSE file
    /\ pc = [host |-> "off", client |-> "off", exchange |-> "sleep", web |-> "idle"]
    /\ certs = [t \in Threads |-> {}] /\ peer = [t \in Threads |-> None]
    /\ m_activate = [n \in HostNames |-> "absent"] /\ activate_names = {}
    /\ m_stop = FALSE /\ shut = FALSE /\ ctl = "stopped"
    /\ picked = CHOOSE e \in ClientNames : TRUE
    /\ requests = 0 /\ rounds = 0 /\ invited = {} /\ trusted = file

Go(t, p) == pc' = [pc EXCEPT ![t] = p]

-------------------------------------------------------------------------------
(* certs.pem: load_certificates_file, the change, save_certificates_file and  *)
(* load_certificate_names, by whichever thread                                 *)

\* What each thread makes of the certificates it read: SetupCertificatesServer
\* replaces the peer's, the exchange thread adds those with an unknown name and
\* the web request deletes all with a given name.
Replaced(old, n) == (old \ {n}) \cup {n}
Merged(old, remotes) == old \cup {n \in remotes : n \notin old}
Deleted(old, n) == old \ {n}

Changed(t, old) ==
    CASE t \in {"host", "client"} -> Replaced(old, peer[t])
      [] t = "exchange" -> Merged(old, certs[t])
      [] t = "web" -> Deleted(old, peer[t])

\* activate_host::cleanup.
Cleanup == [n \in HostNames |->
              IF m_activate[n] = "expired" THEN "absent" ELSE m_activate[n]]

\* remove(), for each of the names.
Removed(names) == [n \in HostNames |-> IF n \in names THEN "absent" ELSE Cleanup[n]]

\* load_certificates_file.  The exchange thread saves only when the list has grown;
\* what it adds leaves the activation list.
Load(t) ==
    /\ pc[t] = "load"
    /\ LET idle == t = "exchange" /\ certs[t] \subseteq file
       IN /\ certs' = [certs EXCEPT ![t] = IF idle THEN {} ELSE Changed(t, file)]
          /\ Go(t, IF idle THEN "sleep" ELSE "truncate")
          /\ m_activate' = IF t = "exchange" /\ ~idle THEN Removed(certs[t] \ file)
                                                       ELSE m_activate
    /\ UNCHANGED <<fileVars, peer, activate_names, stopVars, picked, countVars,
                   ghostVars>>

\* fopen(filename, "w") empties the file before anything is written.
Truncate(t) ==
    /\ pc[t] = "truncate" /\ Go(t, "write")
    /\ file' = {}
    /\ UNCHANGED <<m_cert_names, unread, certs, peer, hostVars, stopVars, picked,
                   countVars, ghostVars>>

\* The list is written from the start of the file; of what another thread wrote
\* since it was emptied, any part may remain behind the end.
Write(t) ==
    /\ pc[t] = "write" /\ Go(t, "names")
    /\ \E rest \in SUBSET file : file' = certs[t] \cup rest
    /\ UNCHANGED <<m_cert_names, unread, certs, peer, hostVars, stopVars, picked,
                   countVars, ghostVars>>

\* What a thread does once the names are loaded.
AfterNames(t) ==
    CASE t = "host" -> "reply" [] t = "client" -> "off"
      [] t = "exchange" -> "sleep" [] t = "web" -> "idle"

\* Fault: the names are taken from the list that was saved.
LoadNames_FromList(t) ==
    /\ pc[t] = "names" /\ Go(t, AfterNames(t))
    /\ m_cert_names' = certs[t] /\ unread' = FALSE
    /\ certs' = [certs EXCEPT ![t] = {}]
    /\ peer' = [peer EXCEPT ![t] = IF t = "host" THEN @ ELSE None]
    /\ UNCHANGED <<file, hostVars, stopVars, picked, countVars,
                   ghostVars>>

\* load_certificate_names reads the file again, under m_mutex_certificates.
LoadNames(t) ==
    /\ pc[t] = "names" /\ Go(t, AfterNames(t))
    /\ m_cert_names' = file /\ unread' = FALSE
    /\ certs' = [certs EXCEPT ![t] = {}]
    /\ peer' = [peer EXCEPT ![t] = IF t = "host" THEN @ ELSE None]
    /\ UNCHANGED <<file, hostVars, stopVars, picked, countVars,
                   ghostVars>>

-------------------------------------------------------------------------------
(* activate_host::threadproc *)

HCheck ==
    /\ pc.host = "check"
    /\ Go("host", IF m_stop THEN "exit" ELSE "size")
    /\ UNCHANGED <<fileVars, certs, peer, hostVars, stopVars, picked, countVars,
                   ghostVars>>

\* size() counts expired entries too; sleep() throws once m_stop is set.
HSize ==
    /\ pc.host = "size"
    /\ \/ (\E n \in HostNames : m_activate[n] # "absent") /\ Go("host", "bind")
       \/ (\A n \in HostNames : m_activate[n] = "absent") /\ m_stop /\ Go("host", "exit")
    /\ UNCHANGED <<fileVars, certs, peer, hostVars, stopVars, picked, countVars,
                   ghostVars>>

\* The acceptor's constructor throws while the port is taken.
HBind ==
    /\ pc.host = "bind"
    /\ \/ Go("host", "accept") \/ Go("host", "check")
    /\ shut' = FALSE
    /\ UNCHANGED <<fileVars, certs, peer, hostVars, m_stop, ctl, picked,
                   countVars, ghostVars>>

\* accept returns with a peer, and the names that have not expired are collected.
HAccept ==
    /\ pc.host = "accept" /\ ~shut /\ Go("host", "receive")
    /\ activate_names' = {n \in HostNames : m_activate[n] = "valid"}
    /\ UNCHANGED <<fileVars, certs, peer, m_activate, stopVars, picked,
                   countVars, ghostVars>>

HAcceptFails ==
    /\ pc.host = "accept" /\ shut /\ Go("host", "check") /\ shut' = FALSE
    /\ UNCHANGED <<fileVars, certs, peer, hostVars, m_stop, ctl, picked, countVars,
                   ghostVars>>

\* What read_with_timeout delivers of the certificates a peer may send: the first
\* read holds all of one, or too little of it, or nothing within five seconds.
ReadWithTimeout(sent) == sent \cup {None}

\* Fault: any one certificate will do.
HReceive_Anybody ==
    /\ pc.host = "receive"
    /\ \E n \in Names :
          /\ peer' = [peer EXCEPT !["host"] = n] /\ Go("host", "load")
          /\ trusted' = trusted \cup (activate_names \cap {n})
    /\ UNCHANGED <<fileVars, certs, hostVars, stopVars, picked, countVars, invited>>

\* SetupCertificatesServer wants exactly one certificate, with one of the names;
\* everything else ends the exchange.
HReceive ==
    /\ pc.host = "receive"
    /\ \E n \in ReadWithTimeout(Names) :
          IF n \in activate_names /\ ~shut
          THEN /\ peer' = [peer EXCEPT !["host"] = n] /\ Go("host", "load")
               /\ trusted' = trusted \cup {n}
          ELSE Go("host", "check") /\ UNCHANGED <<peer, trusted>>
    /\ activate_names' = {}
    /\ UNCHANGED <<fileVars, certs, m_activate, stopVars, picked, countVars, invited>>

\* SetupCertificatesClient sends our certificate; the name leaves the list only
\* when that worked.
HReply ==
    /\ pc.host = "reply" /\ Go("host", "check")
    /\ \/ /\ ~shut
          /\ m_activate' = [m_activate EXCEPT ![peer["host"]] = "absent"]
          /\ invited' = invited \ {peer["host"]}
       \/ UNCHANGED <<m_activate, invited>>
    /\ peer' = [peer EXCEPT !["host"] = None]
    /\ UNCHANGED <<fileVars, certs, activate_names, stopVars, picked,
                   countVars, trusted>>

\* An entry's m_activate_stamp passes.
Expire(n) ==
    /\ m_activate[n] = "valid"
    /\ m_activate' = [m_activate EXCEPT ![n] = "expired"]
    /\ UNCHANGED <<fileVars, pc, certs, peer, activate_names, stopVars, picked,
                   countVars, ghostVars>>

-------------------------------------------------------------------------------
(* BaseClient::threadproc_activate *)

\* The thread gives up when the 30 seconds of activate() have passed or the connect
\* fails.  It sets m_proxy_index to the endpoint it was started for, but go_out of
\* the port's own thread sets it, too: remote_hostname() is that of any endpoint.
CDial ==
    /\ pc.client = "dial"
    /\ \/ \E e \in ClientNames :
             peer' = [peer EXCEPT !["client"] = e] /\ Go("client", "send")
       \/ Go("client", "off") /\ UNCHANGED peer
    /\ UNCHANGED <<fileVars, certs, hostVars, stopVars, picked, countVars, ghostVars>>

CSend ==
    /\ pc.client = "send"
    /\ \/ Go("client", "receive") /\ UNCHANGED peer
       \/ Go("client", "off") /\ peer' = [peer EXCEPT !["client"] = None]
    /\ UNCHANGED <<fileVars, certs, hostVars, stopVars, picked, countVars, ghostVars>>

\* The peer answers with its own certificate; it must be that of the endpoint.
CReceive ==
    /\ pc.client = "receive"
    /\ \E n \in ReadWithTimeout({peer["client"]}) :
          IF n = picked
          THEN Go("client", "load") /\ trusted' = trusted \cup {n} /\ UNCHANGED peer
          ELSE /\ Go("client", "off") /\ peer' = [peer EXCEPT !["client"] = None]
               /\ UNCHANGED trusted
    /\ UNCHANGED <<fileVars, certs, hostVars, stopVars, picked, countVars, invited>>

-------------------------------------------------------------------------------
(* client_certificate_exchange::thread_proc *)

\* httpclient::sync: the certificates of a uniproxy.  An exception, a malformed
\* answer, a status other than 200 and an empty list all end the round.
HttpSync == SUBSET Names \ {{}}

Fetch(remotes) ==
    /\ pc.exchange = "sleep" /\ rounds < MaxRounds
    /\ rounds' = rounds + 1
    /\ certs' = [certs EXCEPT !["exchange"] = remotes] /\ Go("exchange", "load")
    /\ trusted' = trusted \cup remotes
    /\ UNCHANGED <<fileVars, peer, hostVars, stopVars, picked, requests, invited>>

-------------------------------------------------------------------------------
(* Web requests *)

\* add() cleans the list up and adds the name unless it is there.
Added(n) == [Cleanup EXCEPT ![n] = "valid"]

\* host_activate, for a name of one of the hosts' remotes.
HostActivate(n) ==
    /\ pc.web = "idle" /\ requests < MaxRequests /\ requests' = requests + 1
    /\ m_activate' = Added(n)
    /\ invited' = invited \cup {n}
    /\ UNCHANGED <<fileVars, pc, certs, peer, activate_names, stopVars, picked,
                   rounds, trusted>>

\* client_activate, with m_mutex_list held: the stamp is set and the previous
\* activation thread joined, which nothing interrupts.
ClientActivate(n) ==
    /\ pc.web = "idle" /\ requests < MaxRequests /\ requests' = requests + 1
    /\ ctl # "second" /\ ctl # "stopped"
    /\ Go("web", "join")
    /\ peer' = [peer EXCEPT !["web"] = n]
    /\ UNCHANGED <<fileVars, certs, hostVars, stopVars, picked, rounds, ghostVars>>

\* start_activate, once the previous thread has been joined.
ClientActivated ==
    /\ pc.web = "join" /\ pc.client = "off"
    /\ pc' = [pc EXCEPT !["client"] = "dial", !["web"] = "idle"]
    /\ picked' = peer["web"]
    /\ peer' = [peer EXCEPT !["web"] = None]
    /\ UNCHANGED <<fileVars, certs, hostVars, stopVars, countVars, ghostVars>>

\* The status page asks is_in_list for every remote of every host, with
\* m_mutex_list held: a look at the list drops the entries that have expired.
is_in_list ==
    /\ pc.web = "idle" /\ ctl # "second" /\ ctl # "stopped"
    /\ m_activate' = Cleanup
    /\ UNCHANGED <<fileVars, pc, certs, peer, activate_names, stopVars, picked,
                   countVars, ghostVars>>

CertificateDelete(n) ==
    /\ pc.web = "idle" /\ requests < MaxRequests /\ requests' = requests + 1
    /\ peer' = [peer EXCEPT !["web"] = n] /\ Go("web", "load")
    /\ UNCHANGED <<fileVars, certs, hostVars, stopVars, picked, rounds, ghostVars>>

\* A client that uses the certificate makes the request throw reload_exception
\* before the names are loaded.
DeleteReloads ==
    /\ pc.web = "names" /\ peer["web"] \in ClientNames
    /\ Go("web", "reload") /\ certs' = [certs EXCEPT !["web"] = {}]
    /\ UNCHANGED <<fileVars, peer, hostVars, stopVars, picked, countVars,
                   ghostVars>>

DeleteLoads == peer["web"] \notin ClientNames /\ LoadNames("web")

\* The reload that follows calls load_configuration, whose last step loads the names.
\* An exception before that step (the file does not parse, an endpoint is refused)
\* makes it return false: main() goes on with the names of before the deletion.
Reload ==
    /\ pc.web = "reload" /\ Go("web", "idle")
    /\ \/ m_cert_names' = file /\ unread' = FALSE
       \/ unread' = TRUE /\ UNCHANGED m_cert_names
    /\ peer' = [peer EXCEPT !["web"] = None]
    /\ UNCHANGED <<file, certs, hostVars, stopVars, picked, countVars,
                   ghostVars>>

-------------------------------------------------------------------------------
(* The main thread: lock() and stopall() *)

\* start() does nothing while the thread runs.
CtlLock ==
    /\ ctl = "stopped" /\ pc.host = "off" /\ ctl' = "run"
    /\ m_stop' = FALSE /\ Go("host", "check")
    /\ UNCHANGED <<fileVars, certs, peer, hostVars, shut, picked, countVars,
                   ghostVars>>

\* stop(false): m_stop and interrupt().
CtlStop ==
    /\ ctl = "run" /\ ctl' = "first" /\ m_stop' = TRUE
    /\ UNCHANGED <<fileVars, pc, certs, peer, hostVars, shut, picked, countVars,
                   ghostVars>>

\* interrupt() reaches the sockets of a loop body that has made them.
Sockets == pc.host \notin {"off", "check", "size", "bind", "exit"}

\* Fault: the acceptor is not shut down.
CtlInterrupt_KeepsAcceptor ==
    /\ \/ ctl = "first" /\ ctl' = "second"
       \/ ctl = "second" /\ pc.web # "join" /\ pc.client = "off"
          /\ ctl' = "join"
    /\ shut' = (shut \/ (Sockets /\ pc.host # "accept"))
    /\ UNCHANGED <<fileVars, pc, certs, peer, hostVars, m_stop, picked, countVars,
                   ghostVars>>

\* Once in stop(false), and again in stop(true), after the hosts and clients were
\* stopped and destroyed under m_mutex_list; that joins their activation threads.
CtlInterrupt ==
    /\ \/ ctl = "first" /\ ctl' = "second"
       \/ ctl = "second" /\ pc.web # "join" /\ pc.client = "off"
          /\ ctl' = "join"
    /\ shut' = (shut \/ Sockets)
    /\ UNCHANGED <<fileVars, pc, certs, peer, hostVars, m_stop, picked, countVars,
                   ghostVars>>

CtlJoin ==
    /\ ctl = "join" /\ pc.host = "exit" /\ ctl' = "stopped" /\ Go("host", "off")
    /\ shut' = FALSE
    /\ UNCHANGED <<fileVars, certs, peer, hostVars, m_stop, picked,
                   countVars, ghostVars>>

-------------------------------------------------------------------------------
HostStep == HCheck \/ HSize \/ HBind \/ HAcceptFails \/ HReceive \/ HReply
            \/ Load("host") \/ Truncate("host") \/ Write("host") \/ LoadNames("host")
ClientStep == CDial \/ CSend \/ CReceive
            \/ Load("client") \/ Truncate("client") \/ Write("client")
            \/ LoadNames("client")
ExchangeStep == Load("exchange") \/ Truncate("exchange") \/ Write("exchange")
            \/ LoadNames("exchange")
WebStep == Load("web") \/ Truncate("web") \/ Write("web") \/ DeleteLoads
            \/ DeleteReloads \/ Reload \/ ClientActivated
CtlStep == CtlInterrupt \/ CtlJoin

Next ==
    \/ HostStep \/ HAccept \/ ClientStep \/ ExchangeStep \/ WebStep
    \/ CtlStep \/ CtlLock \/ CtlStop \/ is_in_list
    \/ \E n \in HostNames : HostActivate(n) \/ Expire(n)
    \/ \E n \in ClientNames : ClientActivate(n)
    \/ \E n \in Names : CertificateDelete(n)
    \/ \E r \in HttpSync : Fetch(r)

Spec == Init /\ [][Next]_vars

\* Every thread is scheduled; a connect, a read and a write end (the read after
\* five seconds).  Nobody need connect to the activation port.
FairSpec ==
    /\ Spec /\ WF_vars(HostStep) /\ WF_vars(ClientStep)
    /\ WF_vars(ExchangeStep) /\ WF_vars(WebStep) /\ WF_vars(CtlStep)

-------------------------------------------------------------------------------
(* Properties *)

\* Only certificates of peers that were invited or chosen by the operator, or that
\* a uniproxy trusts, get into certs.pem and among the names that connections are
\* allowed for, whatever the threads overwrite.  And the host takes a certificate
\* only from a peer that was invited after the last exchange with that name was
\* completed: an invitation is used up by a reply that was sent, so a peer whose
\* reply failed may come again on the same invitation.
TrustInvited ==
    /\ file \subseteq trusted /\ m_cert_names \subseteq trusted
    /\ pc.host \in {"load", "truncate", "write", "names", "reply"} => peer["host"] \in invited

\* Two threads that write certs.pem at once may lose a certificate, but never the
\* agreement of cache and file: when no thread is between its save and its reload
\* of the names, certificate_available answers what the file holds.  Only a
\* load_configuration that failed leaves the names of before, and no longer than
\* until the next thread has written the file.
CacheFollowsFile ==
    (\A t \in Threads : pc[t] \notin {"write", "names", "reload"}) =>
        unread \/ m_cert_names = file

\* stop() of the activation host returns, wherever it finds the thread, except in
\* the few steps between the last check of m_stop and accept: interrupt() then
\* finds no socket, and the thread waits for somebody to connect.  A web request
\* ends, also when it has to wait for the previous activation.
ControlReturns ==
    /\ ctl = "first" /\ pc.host \notin {"size", "bind"} ~> ctl = "stopped"
    /\ pc.web # "idle" ~> pc.web = "idle"

===============================================================================
