---------------------------- MODULE Activation_proof ----------------------------
(***************************************************************************)
(* Proofs about the exchange of certificates, for any sets of names and    *)
(* any number of web requests and of rounds of the exchange thread.        *)
(***************************************************************************)
EXTENDS Activation, TLAPS

USE DEF Threads

\* The name that a thread has received or was asked for, where it goes on to use it.
PeerInv ==
    /\ pc.host \in {"load", "truncate", "write", "names", "reply"} =>
           peer["host"] \in HostNames
    /\ pc.client = "load" => peer["client"] \in ClientNames
    /\ pc.web = "join" => peer["web"] \in ClientNames

TypeInv == TypeOK /\ PeerInv

\* Nobody has written certs.pem when the configuration is loaded.
LEMMA TypeInit == Init => TypeInv
<1> SUFFICES ASSUME Init PROVE TypeInv
  OBVIOUS
<1>1. requests \in 0 .. MaxRequests /\ rounds \in 0 .. MaxRounds
  BY ActivationAssumption DEF Init
<1>2. picked \in ClientNames
  BY ActivationAssumption DEF Init
<1>3. pc \in Positions
  BY DEF Init, Positions
<1>4. certs \in [Threads -> SUBSET Names] /\ peer \in [Threads -> Names \cup {None}]
  BY DEF Init
<1>5. file \subseteq Names /\ m_cert_names \subseteq Names /\ trusted \subseteq Names
  BY DEF Init, Names
<1>6. m_stop \in BOOLEAN /\ shut \in BOOLEAN
  BY DEF Init
<1>10. unread \in BOOLEAN
  BY Zenon DEF Init
<1>7. m_activate \in [HostNames -> {"absent", "valid", "expired"}]
  BY DEF Init
<1>8. activate_names \subseteq HostNames /\ invited \subseteq HostNames
  BY DEF Init
<1>9. ctl \in {"run", "first", "second", "join", "stopped"} /\ PeerInv
  BY DEF Init, PeerInv
<1> QED
  BY <1>1, <1>2, <1>3, <1>4, <1>5, <1>6, <1>7, <1>8, <1>9, <1>10 DEF TypeInv, TypeOK

\* Every step of the four threads, of the main thread and of time keeps the types.
LEMMA TypeStep == TypeInv /\ [Next]_vars => TypeInv'
<1> SUFFICES ASSUME TypeInv, [Next]_vars PROVE TypeInv'
  OBVIOUS
<1> USE DEF TypeInv, TypeOK, PeerInv, Positions, Names, Go, fileVars, hostVars,
            stopVars, countVars, ghostVars
<1>1. CASE HostStep \/ HAccept
  <2>1. CASE HCheck BY <2>1 DEF HCheck
  <2>2. CASE HSize BY <2>2 DEF HSize
  <2>3. CASE HBind
    <3>1. shut' \in BOOLEAN BY <2>3 DEF HBind
    <3>2. pc' \in Positions /\ pc'.host \in {"accept", "check"}
          /\ pc'.client = pc.client /\ pc'.web = pc.web
      BY <2>3 DEF HBind
    <3>3. UNCHANGED <<fileVars, certs, peer, hostVars, m_stop, ctl, picked, countVars,
                      ghostVars>>
      BY <2>3 DEF HBind
    <3> QED BY <3>1, <3>2, <3>3
  <2>4. CASE HAcceptFails BY <2>4 DEF HAcceptFails
  <2>5. CASE HReceive BY <2>5 DEF HReceive, ReadWithTimeout
  <2>6. CASE HReply BY <2>6 DEF HReply
  <2>7. CASE HAccept BY <2>7 DEF HAccept
  <2>8. CASE Load("host") BY <2>8 DEF Load, Changed, Replaced, Merged, Deleted, Removed, Cleanup
  <2>9. CASE Truncate("host") BY <2>9 DEF Truncate
  <2>10. CASE Write("host") BY <2>10 DEF Write
  <2>11. CASE LoadNames("host") BY <2>11 DEF LoadNames, AfterNames
  <2> QED BY <1>1, <2>1, <2>2, <2>3, <2>4, <2>5, <2>6, <2>7, <2>8, <2>9, <2>10, <2>11
          DEF HostStep
<1>2. CASE ClientStep
  <2>2. CASE CDial BY <2>2 DEF CDial
  <2>3. CASE CSend BY <2>3 DEF CSend
  <2>4. CASE CReceive
    <3>1. None \notin ClientNames BY ActivationAssumption
    <3>2. PICK n \in {peer["client"], None} :
             IF n = picked
             THEN Go("client", "load") /\ trusted' = trusted \cup {n} /\ UNCHANGED peer
             ELSE /\ Go("client", "off") /\ peer' = [peer EXCEPT !["client"] = None]
                  /\ UNCHANGED trusted
      BY <2>4 DEF CReceive, ReadWithTimeout
    <3>3. CASE n = picked
      <4>1. n = peer["client"] BY <3>1, <3>3
      <4> QED BY <2>4, <3>2, <3>3, <4>1 DEF CReceive
    <3>4. CASE n # picked BY <2>4, <3>2, <3>4 DEF CReceive
    <3> QED BY <3>3, <3>4
  <2>5. CASE Load("client") BY <2>5 DEF Load, Changed, Replaced, Merged, Deleted, Removed, Cleanup
  <2>6. CASE Truncate("client") BY <2>6 DEF Truncate
  <2>7. CASE Write("client") BY <2>7 DEF Write
  <2>8. CASE LoadNames("client") BY <2>8 DEF LoadNames, AfterNames
  <2> QED BY <1>2, <2>2, <2>3, <2>4, <2>5, <2>6, <2>7, <2>8
          DEF ClientStep
<1>3. CASE ExchangeStep
  <2>1. CASE Load("exchange") BY <2>1 DEF Load, Changed, Replaced, Merged, Deleted, Removed, Cleanup
  <2>2. CASE Truncate("exchange") BY <2>2 DEF Truncate
  <2>3. CASE Write("exchange") BY <2>3 DEF Write
  <2>4. CASE LoadNames("exchange") BY <2>4 DEF LoadNames, AfterNames
  <2> QED BY <1>3, <2>1, <2>2, <2>3, <2>4
          DEF ExchangeStep
<1>4. CASE WebStep
  <2>1. CASE Load("web") BY <2>1 DEF Load, Changed, Replaced, Merged, Deleted, Removed, Cleanup
  <2>2. CASE Truncate("web") BY <2>2 DEF Truncate
  <2>3. CASE Write("web") BY <2>3 DEF Write
  <2>4. CASE DeleteLoads BY <2>4 DEF DeleteLoads, LoadNames, AfterNames
  <2>5. CASE DeleteReloads BY <2>5 DEF DeleteReloads
  <2>6. CASE Reload BY <2>6 DEF Reload
  <2>7. CASE ClientActivated BY <2>7 DEF ClientActivated
  <2> QED BY <1>4, <2>1, <2>2, <2>3, <2>4, <2>5, <2>6, <2>7
          DEF WebStep
<1>5. CASE CtlStep \/ CtlLock \/ CtlStop
  <2>1. CASE CtlInterrupt BY <2>1 DEF CtlInterrupt
  <2>2. CASE CtlJoin BY <2>2 DEF CtlJoin
  <2>3. CASE CtlLock BY <2>3 DEF CtlLock
  <2>4. CASE CtlStop BY <2>4 DEF CtlStop
  <2> QED BY <1>5, <2>1, <2>2, <2>3, <2>4
          DEF CtlStep
<1>6. CASE is_in_list BY <1>6 DEF is_in_list, Cleanup
<1>7. ASSUME NEW n \in HostNames, HostActivate(n) PROVE TypeInv'
  <2>1. requests' \in 0 .. MaxRequests BY <1>7, ActivationAssumption DEF HostActivate
  <2> QED BY <1>7, <2>1 DEF HostActivate, Added, Cleanup
<1>8. ASSUME NEW n \in HostNames, Expire(n) PROVE TypeInv'
  BY <1>8 DEF Expire
<1>9. ASSUME NEW n \in ClientNames, ClientActivate(n) PROVE TypeInv'
  <2>1. requests' \in 0 .. MaxRequests BY <1>9, ActivationAssumption DEF ClientActivate
  <2> QED BY <1>9, <2>1 DEF ClientActivate
<1>10. ASSUME NEW n \in Names, CertificateDelete(n) PROVE TypeInv'
  <2>1. requests' \in 0 .. MaxRequests BY <1>10, ActivationAssumption DEF CertificateDelete
  <2> QED BY <1>10, <2>1 DEF CertificateDelete
<1>11. ASSUME NEW r \in HttpSync, Fetch(r) PROVE TypeInv'
  <2>1. rounds' \in 0 .. MaxRounds BY <1>11, ActivationAssumption DEF Fetch
  <2> QED BY <1>11, <2>1 DEF Fetch, HttpSync
<1>12. CASE UNCHANGED vars BY <1>12 DEF vars
<1> QED BY <1>1, <1>2, <1>3, <1>4, <1>5, <1>6, <1>7, <1>8, <1>9, <1>10, <1>11, <1>12
        DEF Next

\* Why only invited peers are trusted: whatever a thread holds of the file, or is
\* about to add to it, is trusted; the names that accept collected have an
\* invitation, as has every name on the activation list, and the peer whose
\* certificate is being taken, until it has been answered.
TrustInv ==
    /\ file \subseteq trusted /\ m_cert_names \subseteq trusted
    /\ \A t \in Threads : certs[t] \subseteq trusted
    /\ pc.host = "load" => peer["host"] \in trusted
    /\ pc.client = "load" => peer["client"] \in trusted
    /\ pc.host \in {"load", "truncate", "write", "names", "reply"} => peer["host"] \in invited
    /\ pc.host # "receive" => activate_names = {}
    /\ activate_names \subseteq invited
    /\ \A n \in HostNames : m_activate[n] # "absent" => n \in invited

\* The invariant of trust is kept by every step: the name that HReply takes off the
\* activation list is the only one whose invitation is used up.
LEMMA TrustStep == TypeInv /\ TrustInv /\ [Next]_vars => TrustInv'
<1> SUFFICES ASSUME TypeInv, TrustInv, [Next]_vars PROVE TrustInv'
  OBVIOUS
<1> USE DEF TypeInv, TypeOK, PeerInv, TrustInv, Positions, Names, Go, fileVars, hostVars,
            stopVars, countVars, ghostVars
<1>1. CASE HostStep \/ HAccept
  <2>1. CASE HCheck BY <2>1 DEF HCheck
  <2>2. CASE HSize BY <2>2 DEF HSize
  <2>3. CASE HBind BY <2>3 DEF HBind
  <2>4. CASE HAcceptFails BY <2>4 DEF HAcceptFails
  <2>5. CASE HReceive BY <2>5 DEF HReceive, ReadWithTimeout
  <2>6. CASE HReply BY <2>6 DEF HReply
  <2>7. CASE HAccept BY <2>7 DEF HAccept
  <2>8. CASE Load("host") BY <2>8 DEF Load, Changed, Replaced, Merged, Deleted, Removed, Cleanup
  <2>9. CASE Truncate("host") BY <2>9 DEF Truncate
  <2>10. CASE Write("host") BY <2>10 DEF Write
  <2>11. CASE LoadNames("host") BY <2>11 DEF LoadNames, AfterNames
  <2> QED BY <1>1, <2>1, <2>2, <2>3, <2>4, <2>5, <2>6, <2>7, <2>8, <2>9, <2>10, <2>11 DEF HostStep
<1>2. CASE ClientStep
  <2>2. CASE CDial BY <2>2 DEF CDial
  <2>3. CASE CSend BY <2>3 DEF CSend
  <2>4. CASE CReceive
    <3>1. None \notin ClientNames BY ActivationAssumption
    <3>2. PICK n \in {peer["client"], None} :
             IF n = picked
             THEN Go("client", "load") /\ trusted' = trusted \cup {n} /\ UNCHANGED peer
             ELSE /\ Go("client", "off") /\ peer' = [peer EXCEPT !["client"] = None]
                  /\ UNCHANGED trusted
      BY <2>4 DEF CReceive, ReadWithTimeout
    <3>3. CASE n = picked
      <4>1. n = peer["client"] BY <3>1, <3>3
      <4> QED BY <2>4, <3>2, <3>3, <4>1 DEF CReceive
    <3>4. CASE n # picked BY <2>4, <3>2, <3>4 DEF CReceive
    <3> QED BY <3>3, <3>4
  <2>5. CASE Load("client") BY <2>5 DEF Load, Changed, Replaced, Merged, Deleted, Removed, Cleanup
  <2>6. CASE Truncate("client") BY <2>6 DEF Truncate
  <2>7. CASE Write("client") BY <2>7 DEF Write
  <2>8. CASE LoadNames("client") BY <2>8 DEF LoadNames, AfterNames
  <2> QED BY <1>2, <2>2, <2>3, <2>4, <2>5, <2>6, <2>7, <2>8 DEF ClientStep
<1>3. CASE ExchangeStep
  <2>1. CASE Load("exchange") BY <2>1 DEF Load, Changed, Replaced, Merged, Deleted, Removed, Cleanup
  <2>2. CASE Truncate("exchange") BY <2>2 DEF Truncate
  <2>3. CASE Write("exchange") BY <2>3 DEF Write
  <2>4. CASE LoadNames("exchange") BY <2>4 DEF LoadNames, AfterNames
  <2> QED BY <1>3, <2>1, <2>2, <2>3, <2>4 DEF ExchangeStep
<1>4. CASE WebStep
  <2>1. CASE Load("web") BY <2>1 DEF Load, Changed, Replaced, Merged, Deleted, Removed, Cleanup
  <2>2. CASE Truncate("web") BY <2>2 DEF Truncate
  <2>3. CASE Write("web") BY <2>3 DEF Write
  <2>4. CASE DeleteLoads BY <2>4 DEF DeleteLoads, LoadNames, AfterNames
  <2>5. CASE DeleteReloads BY <2>5 DEF DeleteReloads
  <2>6. CASE Reload BY <2>6 DEF Reload
  <2>7. CASE ClientActivated BY <2>7 DEF ClientActivated
  <2> QED BY <1>4, <2>1, <2>2, <2>3, <2>4, <2>5, <2>6, <2>7 DEF WebStep
<1>5. CASE CtlStep \/ CtlLock \/ CtlStop
  <2>1. CASE CtlInterrupt BY <2>1 DEF CtlInterrupt
  <2>2. CASE CtlJoin BY <2>2 DEF CtlJoin
  <2>3. CASE CtlLock BY <2>3 DEF CtlLock
  <2>4. CASE CtlStop BY <2>4 DEF CtlStop
  <2> QED BY <1>5, <2>1, <2>2, <2>3, <2>4 DEF CtlStep
<1>6. CASE is_in_list BY <1>6 DEF is_in_list, Cleanup
<1>7. ASSUME NEW n \in HostNames, HostActivate(n) PROVE TrustInv'
  BY <1>7 DEF HostActivate, Added, Cleanup
<1>8. ASSUME NEW n \in HostNames, Expire(n) PROVE TrustInv'
  BY <1>8 DEF Expire
<1>9. ASSUME NEW n \in ClientNames, ClientActivate(n) PROVE TrustInv'
  BY <1>9 DEF ClientActivate
<1>10. ASSUME NEW n \in Names, CertificateDelete(n) PROVE TrustInv'
  BY <1>10 DEF CertificateDelete
<1>11. ASSUME NEW r \in HttpSync, Fetch(r) PROVE TrustInv'
  BY <1>11 DEF Fetch, HttpSync
<1>12. CASE UNCHANGED vars BY <1>12 DEF vars
<1> QED BY <1>1, <1>2, <1>3, <1>4, <1>5, <1>6, <1>7, <1>8, <1>9, <1>10, <1>11, <1>12 DEF Next

\* Only certificates of peers that were invited or chosen get into certs.pem, for any
\* names and any number of requests: what TrustInvited says of SetupCertificatesServer,
\* the exchange thread and the deletion of certificates.
THEOREM OnlyInvitedTrusted == Spec => []TrustInvited
<1>1. Init => TrustInv
  BY DEF Init, TrustInv
<1>2. TrustInv => TrustInvited
  BY DEF TrustInv, TrustInvited
<1> QED
  BY <1>1, <1>2, TypeInit, TypeStep, TrustStep, PTL DEF Spec

\* The agreement of cache and file is kept by every step.
LEMMA CacheStep == TypeInv /\ CacheFollowsFile /\ [Next]_vars => CacheFollowsFile'
<1> SUFFICES ASSUME TypeInv, CacheFollowsFile, [Next]_vars PROVE CacheFollowsFile'
  OBVIOUS
<1> USE DEF TypeInv, TypeOK, CacheFollowsFile, Positions, Names, Go, fileVars, hostVars,
            stopVars, countVars, ghostVars
<1>1. CASE HostStep \/ HAccept
  <2>1. CASE HCheck BY <2>1 DEF HCheck
  <2>2. CASE HSize BY <2>2 DEF HSize
  <2>3. CASE HBind BY <2>3 DEF HBind
  <2>4. CASE HAcceptFails BY <2>4 DEF HAcceptFails
  <2>5. CASE HReceive BY <2>5 DEF HReceive, ReadWithTimeout
  <2>6. CASE HReply BY <2>6 DEF HReply
  <2>7. CASE HAccept BY <2>7 DEF HAccept
  <2>8. CASE Load("host") BY <2>8 DEF Load, Changed, Replaced, Merged, Deleted, Removed, Cleanup
  <2>9. CASE Truncate("host") BY <2>9 DEF Truncate
  <2>10. CASE Write("host") BY <2>10 DEF Write
  <2>11. CASE LoadNames("host") BY <2>11 DEF LoadNames, AfterNames
  <2> QED BY <1>1, <2>1, <2>2, <2>3, <2>4, <2>5, <2>6, <2>7, <2>8, <2>9, <2>10, <2>11 DEF HostStep
<1>2. CASE ClientStep
  <2>2. CASE CDial BY <2>2 DEF CDial
  <2>3. CASE CSend BY <2>3 DEF CSend
  <2>4. CASE CReceive BY <2>4 DEF CReceive, ReadWithTimeout
  <2>5. CASE Load("client") BY <2>5 DEF Load, Changed, Replaced, Merged, Deleted, Removed, Cleanup
  <2>6. CASE Truncate("client") BY <2>6 DEF Truncate
  <2>7. CASE Write("client") BY <2>7 DEF Write
  <2>8. CASE LoadNames("client") BY <2>8 DEF LoadNames, AfterNames
  <2> QED BY <1>2, <2>2, <2>3, <2>4, <2>5, <2>6, <2>7, <2>8 DEF ClientStep
<1>3. CASE ExchangeStep
  <2>1. CASE Load("exchange") BY <2>1 DEF Load, Changed, Replaced, Merged, Deleted, Removed, Cleanup
  <2>2. CASE Truncate("exchange") BY <2>2 DEF Truncate
  <2>3. CASE Write("exchange") BY <2>3 DEF Write
  <2>4. CASE LoadNames("exchange") BY <2>4 DEF LoadNames, AfterNames
  <2> QED BY <1>3, <2>1, <2>2, <2>3, <2>4 DEF ExchangeStep
<1>4. CASE WebStep
  <2>1. CASE Load("web") BY <2>1 DEF Load, Changed, Replaced, Merged, Deleted, Removed, Cleanup
  <2>2. CASE Truncate("web") BY <2>2 DEF Truncate
  <2>3. CASE Write("web") BY <2>3 DEF Write
  <2>4. CASE DeleteLoads BY <2>4 DEF DeleteLoads, LoadNames, AfterNames
  <2>5. CASE DeleteReloads BY <2>5 DEF DeleteReloads
  <2>6. CASE Reload BY <2>6 DEF Reload
  <2>7. CASE ClientActivated BY <2>7 DEF ClientActivated
  <2> QED BY <1>4, <2>1, <2>2, <2>3, <2>4, <2>5, <2>6, <2>7 DEF WebStep
<1>5. CASE CtlStep \/ CtlLock \/ CtlStop
  <2>1. CASE CtlInterrupt BY <2>1 DEF CtlInterrupt
  <2>2. CASE CtlJoin BY <2>2 DEF CtlJoin
  <2>3. CASE CtlLock BY <2>3 DEF CtlLock
  <2>4. CASE CtlStop BY <2>4 DEF CtlStop
  <2> QED BY <1>5, <2>1, <2>2, <2>3, <2>4 DEF CtlStep
<1>6. CASE is_in_list BY <1>6 DEF is_in_list, Cleanup
<1>7. ASSUME NEW n \in HostNames, HostActivate(n) PROVE CacheFollowsFile'
  BY <1>7 DEF HostActivate, Added, Cleanup
<1>8. ASSUME NEW n \in HostNames, Expire(n) PROVE CacheFollowsFile'
  BY <1>8 DEF Expire
<1>9. ASSUME NEW n \in ClientNames, ClientActivate(n) PROVE CacheFollowsFile'
  BY <1>9 DEF ClientActivate
<1>10. ASSUME NEW n \in Names, CertificateDelete(n) PROVE CacheFollowsFile'
  BY <1>10 DEF CertificateDelete
<1>11. ASSUME NEW r \in HttpSync, Fetch(r) PROVE CacheFollowsFile'
  BY <1>11 DEF Fetch, HttpSync
<1>12. CASE UNCHANGED vars BY <1>12 DEF vars
<1> QED BY <1>1, <1>2, <1>3, <1>4, <1>5, <1>6, <1>7, <1>8, <1>9, <1>10, <1>11, <1>12 DEF Next

\* m_cert_names is what certs.pem holds whenever no thread is between its save and its
\* reload of the names, however many threads save at once, unless load_configuration
\* failed and no thread has written the file since.
THEOREM CacheAgrees == Spec => []CacheFollowsFile
<1>1. Init => CacheFollowsFile
  BY DEF Init, CacheFollowsFile
<1> QED
  BY <1>1, TypeInit, TypeStep, CacheStep, PTL DEF Spec

\* The types of the state, for any names, requests and rounds.
THEOREM ActivationTypes == Spec => []TypeOK
<1>1. TypeInv => TypeOK
  BY DEF TypeInv
<1> QED
  BY <1>1, TypeInit, TypeStep, PTL DEF Spec

===============================================================================
