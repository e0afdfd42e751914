------------------------ MODULE RemoteProxyClient_proof ------------------------
(***************************************************************************)
(* Proofs about one server-side session, for any set of local endpoints.   *)
(***************************************************************************)
EXTENDS RemoteProxyClient, TLAPS

USE DEF SessionThreads, Threads, Ages, RemotePC, LocalPC, StopPC

\* A session is created (the constructor, Init) with every variable in its type.
LEMMA TypeInit == Init => TypeOK
BY DEF Init, TypeOK

\* Every step of the session's threads, of the caller of stop() and of the host
\* keeps every variable in its type.
LEMMA TypeStep == TypeOK /\ [Next]_vars => TypeOK'
<1> SUFFICES ASSUME TypeOK, [Next]_vars PROVE TypeOK'
  OBVIOUS
<1> USE DEF TypeOK, Goto, Move, progressVars, worldVars, threadVars, sockVars,
            stopVars, hostVars, envVars
<1>1. CASE RemoteThread \/ NoLogon \/ ReadRemote
  <2>1. CASE Begin BY <2>1 DEF Begin
  <2>2. CASE Handshake BY <2>2 DEF Handshake
  <2>3. CASE HandshakeFails BY <2>3 DEF HandshakeFails
  <2>4. CASE Lookup BY <2>4 DEF Lookup
  <2>5. CASE LookupFails BY <2>5 DEF LookupFails
  <2>6. ASSUME NEW e \in LocalEps, Connect(e) PROVE TypeOK' BY <2>6 DEF Connect
  <2>7. ASSUME NEW e \in LocalEps, ConnectFails(e) PROVE TypeOK' BY <2>7 DEF ConnectFails
  <2>8. CASE Connected BY <2>8 DEF Connected
  <2>9. CASE Logon BY <2>9 DEF Logon
  <2>10. CASE StartLocal BY <2>10 DEF StartLocal
  <2>11. CASE SpawnLocal BY <2>11 DEF SpawnLocal
  <2>12. CASE CheckRun("remote") BY <2>12 DEF CheckRun
  <2>13. CASE ReadRemoteFails BY <2>13 DEF ReadRemoteFails
  <2>14. CASE WriteLocal BY <2>14 DEF WriteLocal
  <2>15. CASE WriteLocalFails BY <2>15 DEF WriteLocalFails
  <2>16. CASE IntrLocal("remote") BY <2>16 DEF IntrLocal
  <2>17. CASE IntrRemote("remote") BY <2>17 DEF IntrRemote
  <2>18. CASE IntrFlags("remote") BY <2>18 DEF IntrFlags, AfterInterrupt
  <2>19. CASE Linger BY <2>19 DEF Linger
  <2>20. CASE Close BY <2>20 DEF Close
  <2>21. CASE End BY <2>21 DEF End
  <2>22. CASE ReadRemote BY <2>22 DEF ReadRemote
  <2>23. CASE NoLogon BY <2>23 DEF NoLogon
  <2> QED BY <1>1, <2>1, <2>2, <2>3, <2>4, <2>5, <2>6, <2>7, <2>8, <2>9,
             <2>10, <2>11, <2>12, <2>13, <2>14, <2>15, <2>16, <2>17, <2>18,
             <2>19, <2>20, <2>21, <2>22, <2>23 DEF RemoteThread
<1>2. CASE LocalThread \/ ReadLocal
  <2>1. CASE CheckRun("local") BY <2>1 DEF CheckRun
  <2>2. CASE ReadLocal BY <2>2 DEF ReadLocal
  <2>3. CASE ReadLocalFails BY <2>3 DEF ReadLocalFails
  <2>4. CASE WriteRemote BY <2>4 DEF WriteRemote
  <2>5. CASE WriteRemoteFails BY <2>5 DEF WriteRemoteFails
  <2>6. CASE IntrLocal("local") BY <2>6 DEF IntrLocal
  <2>7. CASE IntrRemote("local") BY <2>7 DEF IntrRemote
  <2>8. CASE IntrFlags("local") BY <2>8 DEF IntrFlags, AfterInterrupt
  <2> QED BY <1>2, <2>1, <2>2, <2>3, <2>4, <2>5, <2>6, <2>7, <2>8
          DEF LocalThread
<1>3. CASE HostThread \/ Time
  <2>1. CASE Start BY <2>1 DEF Start
  <2>2. CASE ShutdownHandler BY <2>2 DEF ShutdownHandler
  <2>3. CASE DeadlineErase BY <2>3 DEF DeadlineErase
  <2>4. CASE StopCall("deadline") BY <2>4 DEF StopCall
  <2>5. CASE EndedAges BY <2>5 DEF EndedAges
  <2>6. CASE StoppedAges BY <2>6 DEF StoppedAges
  <2> QED BY <1>3, <2>1, <2>2, <2>3, <2>4, <2>5, <2>6 DEF HostThread, Time
<1>4. CASE Stopper
  <2>1. CASE StopSet BY <2>1 DEF StopSet
  <2>2. CASE StopTest BY <2>2 DEF StopTest, NextTarget
  <2>3. CASE StopJoin BY <2>3 DEF StopJoin, NextTarget
  <2>4. CASE StopReturn BY <2>4 DEF StopReturn
  <2>5. CASE RemoveErase BY <2>5 DEF RemoveErase
  <2>6. CASE IntrLocal("stopper") BY <2>6 DEF IntrLocal
  <2>7. CASE IntrRemote("stopper") BY <2>7 DEF IntrRemote
  <2>8. CASE IntrFlags("stopper") BY <2>8 DEF IntrFlags, AfterInterrupt
  <2> QED BY <1>4, <2>1, <2>2, <2>3, <2>4, <2>5, <2>6, <2>7, <2>8 DEF Stopper
<1>5. ASSUME NEW d \in Disposers, StopCall(d) PROVE TypeOK'
  BY <1>5, DisposersAssumption DEF StopCall
<1>6. CASE StopAgain BY <1>6 DEF StopAgain
<1>7. CASE HostDown BY <1>7 DEF HostDown
<1>8. CASE PeerMoves BY <1>8 DEF PeerMoves
<1>9. CASE ServerMoves BY <1>9 DEF ServerMoves
<1>10. CASE UNCHANGED vars BY <1>10 DEF vars
<1> QED BY <1>1, <1>2, <1>3, <1>4, <1>5, <1>6, <1>7, <1>8, <1>9, <1>10 DEF Next

\* TypeOK is an invariant of the session.
THEOREM TypeCorrect == Spec => []TypeOK
BY TypeInit, TypeStep, PTL DEF Spec

-------------------------------------------------------------------------------
\* What holds around the end of remote_threadproc: from its interrupt(true) on
\* the local socket is shut and the flags are down, the remote socket is closed
\* only after that, and thread_ended is set only after the close.
ReleaseInv ==
    /\ thread_ended # "unset" => pc["remote"] = "exit" /\ remote_socket = "closed"
    /\ pc["remote"] = "end" => remote_socket = "closed"
    /\ remote_socket = "closed" => pc["remote"] = "end" \/ thread_ended # "unset"
    /\ \/ pc["remote"] \in {"intr2", "intr3", "linger", "close", "end"}
       \/ thread_ended # "unset"
       => local_socket # "open"
    /\ pc["remote"] \in {"linger", "close", "end"} \/ thread_ended # "unset"
       => connected = {}

\* A new session has released nothing: ReleaseInv holds at its construction.
LEMMA ReleaseInit == Init => ReleaseInv
BY DEF Init, ReleaseInv

\* Every step keeps the order interrupt(true), close, thread_ended at the end of
\* remote_threadproc, also when interrupt() of another thread comes in between.
LEMMA ReleaseStep == TypeOK /\ ReleaseInv /\ [Next]_vars => ReleaseInv'
<1> SUFFICES ASSUME TypeOK, ReleaseInv, [Next]_vars PROVE ReleaseInv'
  OBVIOUS
<1> USE DEF TypeOK, ReleaseInv, Goto, Move, progressVars, worldVars, threadVars,
            sockVars, stopVars, hostVars, envVars
<1>1. CASE RemoteThread \/ NoLogon \/ ReadRemote
  <2>1. CASE Begin BY <2>1 DEF Begin
  <2>2. CASE Handshake BY <2>2 DEF Handshake
  <2>3. CASE HandshakeFails BY <2>3 DEF HandshakeFails
  <2>4. CASE Lookup BY <2>4 DEF Lookup
  <2>5. CASE LookupFails BY <2>5 DEF LookupFails
  <2>6. ASSUME NEW e \in LocalEps, Connect(e) PROVE ReleaseInv' BY <2>6 DEF Connect
  <2>7. ASSUME NEW e \in LocalEps, ConnectFails(e) PROVE ReleaseInv' BY <2>7 DEF ConnectFails
  <2>8. CASE Connected BY <2>8 DEF Connected
  <2>9. CASE Logon BY <2>9 DEF Logon
  <2>10. CASE StartLocal BY <2>10 DEF StartLocal
  <2>11. CASE SpawnLocal BY <2>11 DEF SpawnLocal
  <2>12. CASE CheckRun("remote") BY <2>12 DEF CheckRun
  <2>13. CASE ReadRemoteFails BY <2>13 DEF ReadRemoteFails
  <2>14. CASE WriteLocal BY <2>14 DEF WriteLocal
  <2>15. CASE WriteLocalFails BY <2>15 DEF WriteLocalFails
  <2>16. CASE IntrLocal("remote") BY <2>16 DEF IntrLocal
  <2>17. CASE IntrRemote("remote") BY <2>17 DEF IntrRemote
  <2>18. CASE IntrFlags("remote") BY <2>18 DEF IntrFlags, AfterInterrupt
  <2>19. CASE Linger BY <2>19 DEF Linger
  <2>20. CASE Close BY <2>20 DEF Close
  <2>21. CASE End BY <2>21 DEF End
  <2>22. CASE ReadRemote BY <2>22 DEF ReadRemote
  <2>23. CASE NoLogon BY <2>23 DEF NoLogon
  <2> QED BY <1>1, <2>1, <2>2, <2>3, <2>4, <2>5, <2>6, <2>7, <2>8, <2>9,
             <2>10, <2>11, <2>12, <2>13, <2>14, <2>15, <2>16, <2>17, <2>18,
             <2>19, <2>20, <2>21, <2>22, <2>23 DEF RemoteThread
<1>2. CASE LocalThread \/ ReadLocal
  <2>1. CASE CheckRun("local") BY <2>1 DEF CheckRun
  <2>2. CASE ReadLocal BY <2>2 DEF ReadLocal
  <2>3. CASE ReadLocalFails BY <2>3 DEF ReadLocalFails
  <2>4. CASE WriteRemote BY <2>4 DEF WriteRemote
  <2>5. CASE WriteRemoteFails BY <2>5 DEF WriteRemoteFails
  <2>6. CASE IntrLocal("local") BY <2>6 DEF IntrLocal
  <2>7. CASE IntrRemote("local") BY <2>7 DEF IntrRemote
  <2>8. CASE IntrFlags("local") BY <2>8 DEF IntrFlags, AfterInterrupt
  <2> QED BY <1>2, <2>1, <2>2, <2>3, <2>4, <2>5, <2>6, <2>7, <2>8
          DEF LocalThread
<1>3. CASE HostThread \/ Time
  <2>1. CASE Start BY <2>1 DEF Start
  <2>2. CASE ShutdownHandler BY <2>2 DEF ShutdownHandler
  <2>3. CASE DeadlineErase BY <2>3 DEF DeadlineErase
  <2>4. CASE StopCall("deadline") BY <2>4 DEF StopCall
  <2>5. CASE EndedAges BY <2>5 DEF EndedAges
  <2>6. CASE StoppedAges BY <2>6 DEF StoppedAges
  <2> QED BY <1>3, <2>1, <2>2, <2>3, <2>4, <2>5, <2>6 DEF HostThread, Time
<1>4. CASE Stopper
  <2>1. CASE StopSet BY <2>1 DEF StopSet
  <2>2. CASE StopTest BY <2>2 DEF StopTest, NextTarget
  <2>3. CASE StopJoin BY <2>3 DEF StopJoin, NextTarget
  <2>4. CASE StopReturn BY <2>4 DEF StopReturn
  <2>5. CASE RemoveErase BY <2>5 DEF RemoveErase
  <2>6. CASE IntrLocal("stopper") BY <2>6 DEF IntrLocal
  <2>7. CASE IntrRemote("stopper") BY <2>7 DEF IntrRemote
  <2>8. CASE IntrFlags("stopper") BY <2>8 DEF IntrFlags, AfterInterrupt
  <2> QED BY <1>4, <2>1, <2>2, <2>3, <2>4, <2>5, <2>6, <2>7, <2>8 DEF Stopper
<1>5. ASSUME NEW d \in Disposers, StopCall(d) PROVE ReleaseInv'
  BY <1>5, DisposersAssumption DEF StopCall
<1>6. CASE StopAgain BY <1>6 DEF StopAgain
<1>7. CASE HostDown BY <1>7 DEF HostDown
<1>8. CASE PeerMoves BY <1>8 DEF PeerMoves
<1>9. CASE ServerMoves BY <1>9 DEF ServerMoves
<1>10. CASE UNCHANGED vars BY <1>10 DEF vars
<1> QED BY <1>1, <1>2, <1>3, <1>4, <1>5, <1>6, <1>7, <1>8, <1>9, <1>10 DEF Next

\* EndedMeansReleased holds for every set of local endpoints and every mix of
\* callers of stop().
THEOREM EndedReleased == Spec => []EndedMeansReleased
<1>1. ReleaseInv => EndedMeansReleased
  BY DEF ReleaseInv, EndedMeansReleased
<1> QED
  BY <1>1, TypeInit, TypeStep, ReleaseInit, ReleaseStep, PTL DEF Spec

-------------------------------------------------------------------------------
\* Why a session erased by check_deadline is quiet: while the host's thread runs,
\* only check_deadline stops the session, and only after the remote thread ended,
\* so that no local thread can be started behind stop()'s back.
JoinInv ==
    /\ pc["local"] \notin {"unstarted", "exit"} => "local" \in joinable
    /\ pc["remote"] \notin {"unstarted", "exit"} => "remote" \in joinable
    /\ pc["local"] = "unstarted" => "local" \notin joinable

StopInv ==
    /\ listed # "no" => pc["remote"] # "unstarted"
    /\ caller = "remove_any" => listed # "no" /\ (pc["stopper"] # "idle" \/ Erased)
    /\ caller # "remove_any" =>
        /\ pc["stopper"] # "erase"
        /\ pc["stopper"] = "return" \/ m_stopped # "unset" => target = "remote"
        /\ host = "up" =>
            /\ pc["stopper"] # "idle" \/ m_stopped # "unset" => thread_ended = "old"
            /\ target = "remote" => "local" \notin joinable /\ thread_ended = "old"
            /\ pc["stopper"] = "return" \/ m_stopped # "unset" =>
                   "remote" \notin joinable
            /\ m_stopped = "old" => shutdowns = {}
        /\ Erased => /\ Quiet
                     /\ pc["stopper"] = "idle"
                     /\ thread_ended = "old"

\* A thread that runs is joinable, until stop() has joined it at its exit.
LEMMA JoinStep == TypeOK /\ JoinInv /\ [Next]_vars => JoinInv'
<1> SUFFICES ASSUME TypeOK, JoinInv, [Next]_vars PROVE JoinInv'
  OBVIOUS
<1> USE DEF TypeOK, JoinInv, Goto, Move, progressVars, worldVars, threadVars,
            sockVars, stopVars, hostVars, envVars
<1>1. CASE RemoteThread \/ NoLogon \/ ReadRemote
  <2>1. CASE Begin BY <2>1 DEF Begin
  <2>2. CASE Handshake BY <2>2 DEF Handshake
  <2>3. CASE HandshakeFails BY <2>3 DEF HandshakeFails
  <2>4. CASE Lookup BY <2>4 DEF Lookup
  <2>5. CASE LookupFails BY <2>5 DEF LookupFails
  <2>6. ASSUME NEW e \in LocalEps, Connect(e) PROVE JoinInv' BY <2>6 DEF Connect
  <2>7. ASSUME NEW e \in LocalEps, ConnectFails(e) PROVE JoinInv' BY <2>7 DEF ConnectFails
  <2>8. CASE Connected BY <2>8 DEF Connected
  <2>9. CASE Logon BY <2>9 DEF Logon
  <2>10. CASE StartLocal BY <2>10 DEF StartLocal
  <2>11. CASE SpawnLocal BY <2>11 DEF SpawnLocal
  <2>12. CASE CheckRun("remote") BY <2>12 DEF CheckRun
  <2>13. CASE ReadRemoteFails BY <2>13 DEF ReadRemoteFails
  <2>14. CASE WriteLocal BY <2>14 DEF WriteLocal
  <2>15. CASE WriteLocalFails BY <2>15 DEF WriteLocalFails
  <2>16. CASE IntrLocal("remote") BY <2>16 DEF IntrLocal
  <2>17. CASE IntrRemote("remote") BY <2>17 DEF IntrRemote
  <2>18. CASE IntrFlags("remote") BY <2>18 DEF IntrFlags, AfterInterrupt
  <2>19. CASE Linger BY <2>19 DEF Linger
  <2>20. CASE Close BY <2>20 DEF Close
  <2>21. CASE End BY <2>21 DEF End
  <2>22. CASE ReadRemote BY <2>22 DEF ReadRemote
  <2>23. CASE NoLogon BY <2>23 DEF NoLogon
  <2> QED BY <1>1, <2>1, <2>2, <2>3, <2>4, <2>5, <2>6, <2>7, <2>8, <2>9,
             <2>10, <2>11, <2>12, <2>13, <2>14, <2>15, <2>16, <2>17, <2>18,
             <2>19, <2>20, <2>21, <2>22, <2>23 DEF RemoteThread
<1>2. CASE LocalThread \/ ReadLocal
  <2>1. CASE CheckRun("local") BY <2>1 DEF CheckRun
  <2>2. CASE ReadLocal BY <2>2 DEF ReadLocal
  <2>3. CASE ReadLocalFails BY <2>3 DEF ReadLocalFails
  <2>4. CASE WriteRemote BY <2>4 DEF WriteRemote
  <2>5. CASE WriteRemoteFails BY <2>5 DEF WriteRemoteFails
  <2>6. CASE IntrLocal("local") BY <2>6 DEF IntrLocal
  <2>7. CASE IntrRemote("local") BY <2>7 DEF IntrRemote
  <2>8. CASE IntrFlags("local") BY <2>8 DEF IntrFlags, AfterInterrupt
  <2> QED BY <1>2, <2>1, <2>2, <2>3, <2>4, <2>5, <2>6, <2>7, <2>8
          DEF LocalThread
<1>3. CASE HostThread \/ Time
  <2>1. CASE Start BY <2>1 DEF Start
  <2>2. CASE ShutdownHandler BY <2>2 DEF ShutdownHandler
  <2>3. CASE DeadlineErase BY <2>3 DEF DeadlineErase
  <2>4. CASE StopCall("deadline") BY <2>4 DEF StopCall
  <2>5. CASE EndedAges BY <2>5 DEF EndedAges
  <2>6. CASE StoppedAges BY <2>6 DEF StoppedAges
  <2> QED BY <1>3, <2>1, <2>2, <2>3, <2>4, <2>5, <2>6 DEF HostThread, Time
<1>4. CASE Stopper
  <2>1. CASE StopSet BY <2>1 DEF StopSet
  <2>2. CASE StopTest BY <2>2 DEF StopTest, NextTarget
  <2>3. CASE StopJoin BY <2>3 DEF StopJoin, NextTarget
  <2>4. CASE StopReturn BY <2>4 DEF StopReturn
  <2>5. CASE RemoveErase BY <2>5 DEF RemoveErase
  <2>6. CASE IntrLocal("stopper") BY <2>6 DEF IntrLocal
  <2>7. CASE IntrRemote("stopper") BY <2>7 DEF IntrRemote
  <2>8. CASE IntrFlags("stopper") BY <2>8 DEF IntrFlags, AfterInterrupt
  <2> QED BY <1>4, <2>1, <2>2, <2>3, <2>4, <2>5, <2>6, <2>7, <2>8 DEF Stopper
<1>5. ASSUME NEW d \in Disposers, StopCall(d) PROVE JoinInv'
  BY <1>5, DisposersAssumption DEF StopCall
<1>6. CASE StopAgain BY <1>6 DEF StopAgain
<1>7. CASE HostDown BY <1>7 DEF HostDown
<1>8. CASE PeerMoves BY <1>8 DEF PeerMoves
<1>9. CASE ServerMoves BY <1>9 DEF ServerMoves
<1>10. CASE UNCHANGED vars BY <1>10 DEF vars
<1> QED BY <1>1, <1>2, <1>3, <1>4, <1>5, <1>6, <1>7, <1>8, <1>9, <1>10 DEF Next

\* A new session has no thread and no caller of stop().
LEMMA StopInit == Init => JoinInv /\ StopInv
BY DEF Init, JoinInv, StopInv, Erased

\* Every step keeps what stop() and check_deadline rely on when they take the
\* session down: StopInv.
LEMMA StopStep ==
    TypeOK /\ ReleaseInv /\ JoinInv /\ StopInv /\ [Next]_vars => StopInv'
<1> SUFFICES ASSUME TypeOK, ReleaseInv, JoinInv, StopInv, [Next]_vars
             PROVE  StopInv'
  OBVIOUS
<1> USE DEF TypeOK, ReleaseInv, JoinInv, StopInv, Erased, Quiet, Goto, Move,
            progressVars, worldVars, threadVars, sockVars, stopVars, hostVars, envVars
<1>1. CASE RemoteThread \/ NoLogon \/ ReadRemote
  <2>1. CASE Begin BY <2>1 DEF Begin
  <2>2. CASE Handshake BY <2>2 DEF Handshake
  <2>3. CASE HandshakeFails BY <2>3 DEF HandshakeFails
  <2>4. CASE Lookup BY <2>4 DEF Lookup
  <2>5. CASE LookupFails BY <2>5 DEF LookupFails
  <2>6. ASSUME NEW e \in LocalEps, Connect(e) PROVE StopInv' BY <2>6 DEF Connect
  <2>7. ASSUME NEW e \in LocalEps, ConnectFails(e) PROVE StopInv' BY <2>7 DEF ConnectFails
  <2>8. CASE Connected BY <2>8 DEF Connected
  <2>9. CASE Logon BY <2>9 DEF Logon
  <2>10. CASE StartLocal BY <2>10 DEF StartLocal
  <2>11. CASE SpawnLocal BY <2>11 DEF SpawnLocal
  <2>12. CASE CheckRun("remote") BY <2>12 DEF CheckRun
  <2>13. CASE ReadRemoteFails BY <2>13 DEF ReadRemoteFails
  <2>14. CASE WriteLocal BY <2>14 DEF WriteLocal
  <2>15. CASE WriteLocalFails BY <2>15 DEF WriteLocalFails
  <2>16. CASE IntrLocal("remote") BY <2>16 DEF IntrLocal
  <2>17. CASE IntrRemote("remote") BY <2>17 DEF IntrRemote
  <2>18. CASE IntrFlags("remote") BY <2>18 DEF IntrFlags, AfterInterrupt
  <2>19. CASE Linger BY <2>19 DEF Linger
  <2>20. CASE Close BY <2>20 DEF Close
  <2>21. CASE End BY <2>21 DEF End
  <2>22. CASE ReadRemote BY <2>22 DEF ReadRemote
  <2>23. CASE NoLogon BY <2>23 DEF NoLogon
  <2> QED BY <1>1, <2>1, <2>2, <2>3, <2>4, <2>5, <2>6, <2>7, <2>8, <2>9,
             <2>10, <2>11, <2>12, <2>13, <2>14, <2>15, <2>16, <2>17, <2>18,
             <2>19, <2>20, <2>21, <2>22, <2>23 DEF RemoteThread
<1>2. CASE LocalThread \/ ReadLocal
  <2>1. CASE CheckRun("local") BY <2>1 DEF CheckRun
  <2>2. CASE ReadLocal BY <2>2 DEF ReadLocal
  <2>3. CASE ReadLocalFails BY <2>3 DEF ReadLocalFails
  <2>4. CASE WriteRemote BY <2>4 DEF WriteRemote
  <2>5. CASE WriteRemoteFails BY <2>5 DEF WriteRemoteFails
  <2>6. CASE IntrLocal("local") BY <2>6 DEF IntrLocal
  <2>7. CASE IntrRemote("local") BY <2>7 DEF IntrRemote
  <2>8. CASE IntrFlags("local") BY <2>8 DEF IntrFlags, AfterInterrupt
  <2> QED BY <1>2, <2>1, <2>2, <2>3, <2>4, <2>5, <2>6, <2>7, <2>8
          DEF LocalThread
<1>3. CASE HostThread \/ Time
  <2>1. CASE Start BY <2>1 DEF Start
  <2>2. CASE ShutdownHandler BY <2>2 DEF ShutdownHandler
  <2>3. CASE DeadlineErase BY <2>3 DEF DeadlineErase
  <2>4. CASE StopCall("deadline") BY <2>4 DEF StopCall, MayStop
  <2>5. CASE EndedAges BY <2>5 DEF EndedAges
  <2>6. CASE StoppedAges BY <2>6 DEF StoppedAges, ShutdownReady
  <2> QED BY <1>3, <2>1, <2>2, <2>3, <2>4, <2>5, <2>6 DEF HostThread, Time
<1>4. CASE Stopper
  <2>1. CASE StopSet BY <2>1 DEF StopSet
  <2>2. CASE StopTest BY <2>2 DEF StopTest, NextTarget
  <2>3. CASE StopJoin BY <2>3 DEF StopJoin, NextTarget
  <2>4. CASE StopReturn BY <2>4 DEF StopReturn
  <2>5. CASE RemoveErase BY <2>5 DEF RemoveErase
  <2>6. CASE IntrLocal("stopper") BY <2>6 DEF IntrLocal
  <2>7. CASE IntrRemote("stopper") BY <2>7 DEF IntrRemote
  <2>8. CASE IntrFlags("stopper") BY <2>8 DEF IntrFlags, AfterInterrupt
  <2> QED BY <1>4, <2>1, <2>2, <2>3, <2>4, <2>5, <2>6, <2>7, <2>8 DEF Stopper
<1>5. ASSUME NEW d \in Disposers, StopCall(d) PROVE StopInv'
  BY <1>5, DisposersAssumption DEF StopCall, MayStop
<1>6. CASE StopAgain BY <1>6 DEF StopAgain
<1>7. CASE HostDown BY <1>7 DEF HostDown
<1>8. CASE PeerMoves BY <1>8 DEF PeerMoves
<1>9. CASE ServerMoves BY <1>9 DEF ServerMoves
<1>10. CASE UNCHANGED vars BY <1>10 DEF vars
<1> QED BY <1>1, <1>2, <1>3, <1>4, <1>5, <1>6, <1>7, <1>8, <1>9, <1>10 DEF Next


\* DestroyedIsQuiet, for every set of local endpoints and every set of callers:
\* when check_deadline erases a session, whatever RemoteProxyHost::stop and
\* remove_any did before, no thread and no handler outlives it.
THEOREM DestroyedQuiet == Spec => []DestroyedIsQuiet
<1>1. StopInv => DestroyedIsQuiet
  BY DEF StopInv, DestroyedIsQuiet
<1> QED
  BY <1>1, TypeInit, TypeStep, ReleaseInit, ReleaseStep, JoinStep, StopInit,
     StopStep, PTL DEF Spec

-------------------------------------------------------------------------------
\* ShutdownBeforeClose: a closed remote socket means that the flags are down, so
\* interrupt() starts no async_shutdown on it.
THEOREM ShutdownOrder == Spec => ShutdownBeforeClose
<1>1. TypeOK /\ ReleaseInv /\ [Next]_vars =>
          [shutdowns' \subseteq shutdowns \/ remote_socket # "closed"]_vars
  <2> SUFFICES ASSUME TypeOK, ReleaseInv, [Next]_vars, remote_socket = "closed"
               PROVE  shutdowns' \subseteq shutdowns
    OBVIOUS
  <2>1. connected = {}
    BY DEF ReleaseInv
  <2>2. ASSUME NEW t \in Threads, IntrRemote(t) PROVE shutdowns' \subseteq shutdowns
    BY <2>1, <2>2 DEF IntrRemote
  <2>3. CASE ShutdownHandler
    BY <2>3 DEF ShutdownHandler
  <2>4. CASE UNCHANGED shutdowns
    BY <2>4
  <2> QED
    BY <2>2, <2>3, <2>4 DEF Next, RemoteThread, LocalThread, HostThread, Time,
       Stopper, Begin, Handshake, HandshakeFails, Lookup, LookupFails, Connect,
       ConnectFails, Connected, Logon, NoLogon, StartLocal, SpawnLocal, CheckRun,
       ReadRemote, ReadRemoteFails, WriteLocal, WriteLocalFails, Linger, Close,
       End, ReadLocal, ReadLocalFails, WriteRemote, WriteRemoteFails, IntrLocal,
       IntrFlags, StopCall, StopAgain, StopSet, StopTest, StopJoin, StopReturn,
       RemoveErase, Start, DeadlineErase, HostDown, EndedAges, StoppedAges,
       PeerMoves, ServerMoves, Move, vars, sockVars
<1> QED
  BY <1>1, TypeInit, TypeStep, ReleaseInit, ReleaseStep, PTL
  DEF Spec, ShutdownBeforeClose

-------------------------------------------------------------------------------
\* The life of a session as its host sees it: it is in m_clients from the start
\* of its remote thread on, a stop() is in progress only on a listed session that
\* no stop() ended before, and once stop() has joined the remote thread nothing
\* starts that thread again.
LifeInv ==
    /\ listed = "no" <=> pc["remote"] = "unstarted"
    /\ listed = "no" =>
        pc["stopper"] = "idle" /\ m_stopped = "unset" /\ thread_ended = "unset"
    /\ pc["stopper"] \notin {"idle", "erase"} => listed = "yes" /\ m_stopped = "unset"
    /\ pc["stopper"] = "erase" => listed = "yes" /\ m_stopped # "unset"
    /\ Erased => m_stopped # "unset"
    /\ pc["stopper"] = "return" \/ m_stopped # "unset" => "remote" \notin joinable

\* A new session is not in m_clients, and nobody has stopped it.
LEMMA LifeInit == Init => LifeInv
BY DEF Init, LifeInv, Erased

\* Every step keeps m_clients, the stop() in progress and m_stopped in agreement.
LEMMA LifeStep == TypeOK /\ LifeInv /\ [Next]_vars => LifeInv'
<1> SUFFICES ASSUME TypeOK, LifeInv, [Next]_vars PROVE LifeInv'
  OBVIOUS
<1> USE DEF TypeOK, LifeInv, Erased, Goto, Move, progressVars, worldVars,
            threadVars, sockVars, stopVars, hostVars, envVars
<1>1. CASE RemoteThread \/ NoLogon \/ ReadRemote
  <2>1. CASE Begin BY <2>1 DEF Begin
  <2>2. CASE Handshake BY <2>2 DEF Handshake
  <2>3. CASE HandshakeFails BY <2>3 DEF HandshakeFails
  <2>4. CASE Lookup BY <2>4 DEF Lookup
  <2>5. CASE LookupFails BY <2>5 DEF LookupFails
  <2>6. ASSUME NEW e \in LocalEps, Connect(e) PROVE LifeInv' BY <2>6 DEF Connect
  <2>7. ASSUME NEW e \in LocalEps, ConnectFails(e) PROVE LifeInv' BY <2>7 DEF ConnectFails
  <2>8. CASE Connected BY <2>8 DEF Connected
  <2>9. CASE Logon BY <2>9 DEF Logon
  <2>10. CASE StartLocal BY <2>10 DEF StartLocal
  <2>11. CASE SpawnLocal BY <2>11 DEF SpawnLocal
  <2>12. CASE CheckRun("remote") BY <2>12 DEF CheckRun
  <2>13. CASE ReadRemoteFails BY <2>13 DEF ReadRemoteFails
  <2>14. CASE WriteLocal BY <2>14 DEF WriteLocal
  <2>15. CASE WriteLocalFails BY <2>15 DEF WriteLocalFails
  <2>16. CASE IntrLocal("remote") BY <2>16 DEF IntrLocal
  <2>17. CASE IntrRemote("remote") BY <2>17 DEF IntrRemote
  <2>18. CASE IntrFlags("remote") BY <2>18 DEF IntrFlags, AfterInterrupt
  <2>19. CASE Linger BY <2>19 DEF Linger
  <2>20. CASE Close BY <2>20 DEF Close
  <2>21. CASE End BY <2>21 DEF End
  <2>22. CASE ReadRemote BY <2>22 DEF ReadRemote
  <2>23. CASE NoLogon BY <2>23 DEF NoLogon
  <2> QED BY <1>1, <2>1, <2>2, <2>3, <2>4, <2>5, <2>6, <2>7, <2>8, <2>9,
             <2>10, <2>11, <2>12, <2>13, <2>14, <2>15, <2>16, <2>17, <2>18,
             <2>19, <2>20, <2>21, <2>22, <2>23 DEF RemoteThread
<1>2. CASE LocalThread \/ ReadLocal
  <2>1. CASE CheckRun("local") BY <2>1 DEF CheckRun
  <2>2. CASE ReadLocal BY <2>2 DEF ReadLocal
  <2>3. CASE ReadLocalFails BY <2>3 DEF ReadLocalFails
  <2>4. CASE WriteRemote BY <2>4 DEF WriteRemote
  <2>5. CASE WriteRemoteFails BY <2>5 DEF WriteRemoteFails
  <2>6. CASE IntrLocal("local") BY <2>6 DEF IntrLocal
  <2>7. CASE IntrRemote("local") BY <2>7 DEF IntrRemote
  <2>8. CASE IntrFlags("local") BY <2>8 DEF IntrFlags, AfterInterrupt
  <2> QED BY <1>2, <2>1, <2>2, <2>3, <2>4, <2>5, <2>6, <2>7, <2>8
          DEF LocalThread
<1>3. CASE HostThread \/ Time
  <2>1. CASE Start BY <2>1 DEF Start
  <2>2. CASE ShutdownHandler BY <2>2 DEF ShutdownHandler
  <2>3. CASE DeadlineErase BY <2>3 DEF DeadlineErase
  <2>4. CASE StopCall("deadline") BY <2>4 DEF StopCall, MayStop
  <2>5. CASE EndedAges BY <2>5 DEF EndedAges
  <2>6. CASE StoppedAges BY <2>6 DEF StoppedAges, ShutdownReady
  <2> QED BY <1>3, <2>1, <2>2, <2>3, <2>4, <2>5, <2>6 DEF HostThread, Time
<1>4. CASE Stopper
  <2>1. CASE StopSet BY <2>1 DEF StopSet
  <2>2. CASE StopTest BY <2>2 DEF StopTest, NextTarget
  <2>3. CASE StopJoin BY <2>3 DEF StopJoin, NextTarget
  <2>4. CASE StopReturn BY <2>4 DEF StopReturn
  <2>5. CASE RemoveErase BY <2>5 DEF RemoveErase
  <2>6. CASE IntrLocal("stopper") BY <2>6 DEF IntrLocal
  <2>7. CASE IntrRemote("stopper") BY <2>7 DEF IntrRemote
  <2>8. CASE IntrFlags("stopper") BY <2>8 DEF IntrFlags, AfterInterrupt
  <2> QED BY <1>4, <2>1, <2>2, <2>3, <2>4, <2>5, <2>6, <2>7, <2>8 DEF Stopper
<1>5. ASSUME NEW d \in Disposers, StopCall(d) PROVE LifeInv'
  BY <1>5, DisposersAssumption DEF StopCall, MayStop
<1>6. CASE StopAgain BY <1>6 DEF StopAgain
<1>7. CASE HostDown BY <1>7 DEF HostDown
<1>8. CASE PeerMoves BY <1>8 DEF PeerMoves
<1>9. CASE ServerMoves BY <1>9 DEF ServerMoves
<1>10. CASE UNCHANGED vars BY <1>10 DEF vars
<1> QED BY <1>1, <1>2, <1>3, <1>4, <1>5, <1>6, <1>7, <1>8, <1>9, <1>10 DEF Next

\* Each step of the session is a step of the contract, or leaves what the host
\* sees of the session alone: End is Finished, StopCall is Asked, StopReturn is
\* Returned, the two ways to erase are Destroyed.
LEMMA ContractStep ==
    TypeOK /\ ReleaseInv /\ JoinInv /\ LifeInv /\ [Next]_vars
        => [Contract!SessionNext]_(Contract!sessionVars)
<1> SUFFICES ASSUME TypeOK, ReleaseInv, JoinInv, LifeInv, [Next]_vars
             PROVE  [Contract!SessionNext]_(Contract!sessionVars)
  OBVIOUS
<1> USE DEF TypeOK, LifeInv, Erased, Phase, Contract!sessionVars, Goto, Move,
            progressVars, worldVars, threadVars, sockVars, stopVars, hostVars,
            envVars
<1>1. CASE Start
  BY <1>1 DEF Start, Contract!SessionNext, Contract!Accepted
<1>2. CASE End
  BY <1>2 DEF End, ReleaseInv, JoinInv, Contract!SessionNext, Contract!Finished
<1>3. ASSUME NEW d, StopCall(d)
      PROVE  [Contract!SessionNext]_(Contract!sessionVars)
  BY <1>3 DEF StopCall, Contract!SessionNext, Contract!Asked
<1>4. CASE StopReturn
  BY <1>4 DEF StopReturn, Contract!SessionNext, Contract!Returned
<1>5. CASE RemoveErase \/ DeadlineErase
  BY <1>5 DEF RemoveErase, DeadlineErase, Contract!SessionNext, Contract!Destroyed
<1>6. CASE Time
  BY <1>6 DEF Time, EndedAges, StoppedAges, Contract!SessionNext, Contract!Older
<1>7. CASE StopAgain
  BY <1>7 DEF StopAgain
<1>8. CASE Stopper /\ ~StopReturn /\ ~RemoveErase
  BY <1>8 DEF Stopper, StopSet, StopTest, StopJoin, NextTarget, IntrLocal,
     IntrRemote, IntrFlags, AfterInterrupt
<1>9. CASE RemoteThread \/ LocalThread
  <2>1. CASE Connected \/ Logon \/ StartLocal \/ SpawnLocal
    BY <2>1 DEF Connected, Logon, StartLocal, SpawnLocal
  <2>2. ASSUME NEW e \in LocalEps, Connect(e) \/ ConnectFails(e)
        PROVE  UNCHANGED Contract!sessionVars
    BY <2>2 DEF Connect, ConnectFails
  <2>3. ASSUME NEW t \in SessionThreads,
               \/ CheckRun(t)
               \/ IntrLocal(t) \/ IntrRemote(t) \/ IntrFlags(t)
        PROVE  UNCHANGED Contract!sessionVars
    BY <2>3 DEF CheckRun, IntrLocal, IntrRemote, IntrFlags
  <2>4. CASE Begin \/ Handshake \/ HandshakeFails \/ Lookup \/ LookupFails
    BY <2>4 DEF Begin, Handshake, HandshakeFails, Lookup, LookupFails
  <2>5. CASE ReadRemoteFails \/ WriteLocal \/ WriteLocalFails \/ Linger \/ Close
    BY <2>5 DEF ReadRemoteFails, WriteLocal, WriteLocalFails, Linger, Close
  <2>6. CASE ReadLocalFails \/ WriteRemote \/ WriteRemoteFails
    BY <2>6 DEF ReadLocalFails, WriteRemote, WriteRemoteFails
  <2> QED
    BY <1>2, <1>9, <2>1, <2>2, <2>3, <2>4, <2>5, <2>6
    DEF RemoteThread, LocalThread
<1>10. CASE ReadRemote \/ ReadLocal \/ NoLogon
  BY <1>10 DEF ReadRemote, ReadLocal, NoLogon
<1>11. CASE ShutdownHandler \/ HostDown \/ PeerMoves \/ ServerMoves
  BY <1>11 DEF ShutdownHandler, HostDown, PeerMoves, ServerMoves
<1>12. CASE UNCHANGED vars
  BY <1>12 DEF vars
<1> QED
  BY <1>1, <1>3, <1>4, <1>5, <1>6, <1>7, <1>8, <1>9, <1>10, <1>11, <1>12
  DEF Next, HostThread

\* ImplementsContract, for every set of local endpoints and every set of callers
\* of stop(): the two threads, their interrupt() calls and stop() implement the
\* contract that RemoteProxyHost is written against.
THEOREM ContractImplemented == Spec => ImplementsContract
<1>1. Init => Contract!SessionInit
  BY DEF Init, Contract!SessionInit, Phase, Erased
<1> QED
  BY <1>1, TypeInit, TypeStep, ReleaseInit, ReleaseStep, JoinStep, StopInit,
     LifeInit, LifeStep, ContractStep, PTL
  DEF Spec, ImplementsContract, Contract!SessionSpec

===============================================================================
