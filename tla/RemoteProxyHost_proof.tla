-------------------------- MODULE RemoteProxyHost_proof --------------------------
(***************************************************************************)
(* Proofs about one listening port and its sessions, for any number of     *)
(* connections, of remotes, of starts and of configuration updates.        *)
(***************************************************************************)
EXTENDS RemoteProxyHost, TLAPS

USE DEF Ages, Phases

\* The port starts out with every variable in its type.
LEMMA TypeInit == Init => TypeOK
<1>1. 0 \in 0 .. MaxStarts /\ 0 \in 0 .. MaxUpdates
  BY HostAssumption
<1> QED
  BY <1>1 DEF Init, TypeOK

\* The session that waits for the next connection is a new one, or none is left.
LEMMA ArmTyped ==
  ASSUME TypeOK, ArmNext
  PROVE  /\ armed' \in (Clients \ created) \cup {NoClient}
         /\ created' \subseteq Clients
<1>1. created \subseteq Clients
  BY DEF TypeOK
<1>2. CASE created = Clients
  BY <1>1, <1>2 DEF ArmNext
<1>3. CASE created # Clients
  <2>1. \E c \in Clients : c \notin created
    BY <1>1, <1>3
  <2>2. armed' \in Clients /\ armed' \notin created
    BY <1>3, <2>1, Zenon DEF ArmNext
  <2> QED
    BY <1>1, <1>3, <2>2 DEF ArmNext
<1> QED
  BY <1>2, <1>3

\* Every step of the host thread, the control thread and the sessions keeps every
\* variable in its type.
LEMMA TypeStep == TypeOK /\ [Next]_vars => TypeOK'
<1> SUFFICES ASSUME TypeOK, [Next]_vars PROVE TypeOK'
  OBVIOUS
<1> USE DEF TypeOK, runVars, portVars, hostVars, listVars, configVars, stampVars,
            sessionVars
<1>1. CASE HostThread \/ TimerDue
  <2>1. CASE Listen
    <3>1. armed' \in Clients \cup {NoClient} /\ created' \subseteq Clients
      BY <2>1, ArmTyped DEF Listen
    <3> QED BY <2>1, <3>1 DEF Listen
  <2>2. CASE Loop BY <2>2 DEF Loop
  <2>3. CASE HandleAccept
    <3>1. armed' \in Clients \cup {NoClient} /\ created' \subseteq Clients
      BY <2>3, ArmTyped DEF HandleAccept
    <3>2. m_clients' \subseteq Clients /\ phase' \in [Clients -> Phases] /\ dial' \in BOOLEAN
      BY <2>3 DEF HandleAccept
    <3> QED BY <2>3, <3>1, <3>2 DEF HandleAccept
  <2>4. CASE CheckDeadlineAborted BY <2>4 DEF CheckDeadlineAborted
  <2>5. CASE CheckDeadline BY <2>5 DEF CheckDeadline
  <2>6. CASE ReapLock BY <2>6 DEF ReapLock
  <2>7. ASSUME NEW c \in Clients, ReapSkip(c) PROVE TypeOK' BY <2>7 DEF ReapSkip
  <2>8. ASSUME NEW c \in Clients, ReapStop(c) PROVE TypeOK' BY <2>8 DEF ReapStop, CallStop
  <2>9. ASSUME NEW c \in Clients, ReapErase(c) PROVE TypeOK' BY <2>9 DEF ReapErase
  <2>10. CASE ReapDone BY <2>10 DEF ReapDone
  <2>11. CASE RunReturns BY <2>11 DEF RunReturns
  <2>12. CASE Sleep BY <2>12 DEF Sleep
  <2>13. CASE Unlock BY <2>13 DEF Unlock
  <2>14. CASE TimerDue BY <2>14 DEF TimerDue
  <2> QED BY <1>1, <2>1, <2>2, <2>3, <2>4, <2>5, <2>6, <2>7, <2>8, <2>9, <2>10,
             <2>11, <2>12, <2>13, <2>14 DEF HostThread
<1>2. CASE ControlThread
  <2>1. CASE CtlInterrupt BY <2>1 DEF CtlInterrupt
  <2>2. CASE CtlJoin BY <2>2 DEF CtlJoin
  <2>3. CASE CtlLock("stop_lock", "stop") BY <2>3 DEF CtlLock
  <2>4. CASE CtlLock("remove_lock", "remove") BY <2>4 DEF CtlLock
  <2>5. CASE CtlLock("status_lock", "status") BY <2>5 DEF CtlLock
  <2>6. CASE CtlUnlock("stop", "idle") BY <2>6 DEF CtlUnlock
  <2>7. CASE CtlUnlock("remove", "populate") BY <2>7 DEF CtlUnlock
  <2>8. CASE CtlUnlock("status", "idle") BY <2>8 DEF CtlUnlock
  <2>9. ASSUME NEW c \in Clients, CtlStopOne(c) PROVE TypeOK'
    BY <2>9 DEF CtlStopOne, CtlVisit, CallStop
  <2>10. ASSUME NEW c \in Clients, CtlStopNext(c) PROVE TypeOK' BY <2>10 DEF CtlStopNext
  <2>11. ASSUME NEW c \in Clients, CtlRemoveSkip(c) PROVE TypeOK' BY <2>11 DEF CtlRemoveSkip
  <2>12. ASSUME NEW c \in Clients, CtlRemoveStop(c) PROVE TypeOK'
    BY <2>12 DEF CtlRemoveStop, CtlVisit, CallStop
  <2>13. ASSUME NEW c \in Clients, CtlRemoveErase(c) PROVE TypeOK' BY <2>13 DEF CtlRemoveErase
  <2>14. ASSUME NEW c \in Clients, CtlStatusRead(c) PROVE TypeOK' BY <2>14 DEF CtlStatusRead
  <2>15. CASE CtlAddRemotes BY <2>15 DEF CtlAddRemotes, CtlSetRemotes
  <2>16. CASE CtlRemoveRemotes BY <2>16 DEF CtlRemoveRemotes, CtlSetRemotes
  <2>17. CASE CtlRelock
    <3>1. starts' \in 0 .. MaxStarts
      BY <2>17, HostAssumption DEF CtlRelock, StartThread
    <3>2. CASE StartThread
      BY <2>17, <3>1, <3>2 DEF CtlRelock, StartThread
    <3>3. CASE UNCHANGED <<hostVars, starts>>
      BY <2>17, <3>1, <3>3 DEF CtlRelock
    <3> QED
      BY <2>17, <3>2, <3>3 DEF CtlRelock
  <2> QED BY <1>2, <2>1, <2>2, <2>3, <2>4, <2>5, <2>6, <2>7, <2>8, <2>9, <2>10,
             <2>11, <2>12, <2>13, <2>14, <2>15, <2>16, <2>17 DEF ControlThread
<1>3. CASE Request
  <2>1. CASE CtlStart
    <3>1. starts' \in 0 .. MaxStarts
      BY <2>1, HostAssumption DEF CtlStart, StartThread
    <3> QED
      BY <2>1, <3>1 DEF CtlStart, StartThread
  <2>2. CASE CtlStop BY <2>2 DEF CtlStop
  <2>3. CASE CtlUpdate BY <2>3, HostAssumption DEF CtlUpdate
  <2>4. CASE CtlStatus BY <2>4 DEF CtlStatus
  <2>5. CASE Dial BY <2>5 DEF Dial
  <2>6. CASE HandleAcceptError
    <3>1. dial' \in BOOLEAN
      BY <2>6 DEF HandleAcceptError
    <3> QED
      BY <2>6, <3>1 DEF HandleAcceptError
  <2>7. CASE HandleAcceptLast
    <3>1. m_clients' \subseteq Clients /\ phase' \in [Clients -> Phases] /\ dial' \in BOOLEAN
      BY <2>7 DEF HandleAcceptLast, Phases
    <3>2. accept_lost' \in BOOLEAN
      BY <2>7 DEF HandleAcceptLast
    <3> QED BY <2>7, <3>1, <3>2 DEF HandleAcceptLast
  <2> QED BY <1>3, <2>1, <2>2, <2>3, <2>4, <2>5, <2>6, <2>7 DEF Request
<1>4. ASSUME NEW c \in Clients,
             SessionLookup(c) \/ SessionFinish(c) \/ SessionReturn(c) \/ SessionAges(c)
      PROVE  TypeOK'
  <2>1. CASE SessionLookup(c) BY <2>1 DEF SessionLookup
  <2>2. CASE SessionFinish(c) BY <2>2 DEF SessionFinish
  <2>3. CASE SessionReturn(c) BY <2>3 DEF SessionReturn
  <2>4. CASE SessionAges(c) BY <2>4 DEF SessionAges
  <2> QED BY <1>4, <2>1, <2>2, <2>3, <2>4
<1>5. CASE UNCHANGED vars BY <1>5 DEF vars
<1> QED BY <1>1, <1>2, <1>3, <1>4, <1>5 DEF Next

\* TypeOK is an invariant of the port, whatever its bounds.
THEOREM TypeCorrect == Spec => []TypeOK
BY TypeInit, TypeStep, PTL DEF Spec

-------------------------------------------------------------------------------
\* Why no session is lost: the session that waits in async_accept was created and
\* is in no list yet, so that handle_accept lists and starts it together.
AcceptInv ==
    /\ armed # NoClient => armed \in created /\ phase[armed] = "waiting"
    /\ \A c \in Clients \ created : phase[c] = "waiting"
    /\ NoLostSession

\* Nothing waits and nothing is listed before the first start().
LEMMA AcceptInit == Init => AcceptInv
BY DEF Init, AcceptInv, NoLostSession

\* handle_accept and the loops that stop and erase sessions keep m_clients equal to
\* the set of the sessions that live.
LEMMA AcceptStep == TypeOK /\ AcceptInv /\ [Next]_vars => AcceptInv'
<1> SUFFICES ASSUME TypeOK, AcceptInv, [Next]_vars PROVE AcceptInv'
  OBVIOUS
<1> USE HostAssumption
        DEF TypeOK, AcceptInv, NoLostSession, runVars, portVars, hostVars,
            listVars, configVars, stampVars, sessionVars
<1>1. CASE HostThread \/ TimerDue
  <2>1. CASE Listen BY <2>1 DEF Listen, ArmNext
  <2>2. CASE Loop BY <2>2 DEF Loop
  <2>3. CASE HandleAccept BY <2>3 DEF HandleAccept, Running, ArmNext
  <2>4. CASE CheckDeadlineAborted BY <2>4 DEF CheckDeadlineAborted, Running
  <2>5. CASE CheckDeadline BY <2>5 DEF CheckDeadline, Running
  <2>6. CASE ReapLock BY <2>6 DEF ReapLock
  <2>7. ASSUME NEW c \in Clients, ReapSkip(c) PROVE AcceptInv' BY <2>7 DEF ReapSkip
  <2>8. ASSUME NEW c \in Clients, ReapStop(c) PROVE AcceptInv' BY <2>8 DEF ReapStop, CallStop
  <2>9. ASSUME NEW c \in Clients, ReapErase(c) PROVE AcceptInv' BY <2>9 DEF ReapErase
  <2>10. CASE ReapDone BY <2>10 DEF ReapDone
  <2>11. CASE RunReturns BY <2>11 DEF RunReturns
  <2>12. CASE Sleep BY <2>12 DEF Sleep
  <2>13. CASE Unlock BY <2>13 DEF Unlock
  <2>14. CASE TimerDue BY <2>14 DEF TimerDue
  <2> QED BY <1>1, <2>1, <2>2, <2>3, <2>4, <2>5, <2>6, <2>7, <2>8, <2>9, <2>10,
             <2>11, <2>12, <2>13, <2>14 DEF HostThread
<1>2. CASE ControlThread
  <2>1. CASE CtlInterrupt BY <2>1 DEF CtlInterrupt
  <2>2. CASE CtlJoin BY <2>2 DEF CtlJoin
  <2>3. CASE CtlLock("stop_lock", "stop") BY <2>3 DEF CtlLock
  <2>4. CASE CtlLock("remove_lock", "remove") BY <2>4 DEF CtlLock
  <2>5. CASE CtlLock("status_lock", "status") BY <2>5 DEF CtlLock
  <2>6. CASE CtlUnlock("stop", "idle") BY <2>6 DEF CtlUnlock
  <2>7. CASE CtlUnlock("remove", "populate") BY <2>7 DEF CtlUnlock
  <2>8. CASE CtlUnlock("status", "idle") BY <2>8 DEF CtlUnlock
  <2>9. ASSUME NEW c \in Clients, CtlStopOne(c) PROVE AcceptInv'
    BY <2>9 DEF CtlStopOne, CtlVisit, CallStop
  <2>10. ASSUME NEW c \in Clients, CtlStopNext(c) PROVE AcceptInv' BY <2>10 DEF CtlStopNext
  <2>11. ASSUME NEW c \in Clients, CtlRemoveSkip(c) PROVE AcceptInv' BY <2>11 DEF CtlRemoveSkip
  <2>12. ASSUME NEW c \in Clients, CtlRemoveStop(c) PROVE AcceptInv'
    BY <2>12 DEF CtlRemoveStop, CtlVisit, CallStop
  <2>13. ASSUME NEW c \in Clients, CtlRemoveErase(c) PROVE AcceptInv' BY <2>13 DEF CtlRemoveErase
  <2>14. ASSUME NEW c \in Clients, CtlStatusRead(c) PROVE AcceptInv' BY <2>14 DEF CtlStatusRead
  <2>15. CASE CtlAddRemotes BY <2>15 DEF CtlAddRemotes, CtlSetRemotes
  <2>16. CASE CtlRemoveRemotes BY <2>16 DEF CtlRemoveRemotes, CtlSetRemotes
  <2>17. CASE CtlRelock BY <2>17 DEF CtlRelock, StartThread
  <2> QED BY <1>2, <2>1, <2>2, <2>3, <2>4, <2>5, <2>6, <2>7, <2>8, <2>9, <2>10,
             <2>11, <2>12, <2>13, <2>14, <2>15, <2>16, <2>17 DEF ControlThread
<1>3. CASE Request
  <2>1. CASE CtlStart BY <2>1 DEF CtlStart, StartThread
  <2>2. CASE CtlStop BY <2>2 DEF CtlStop
  <2>3. CASE CtlUpdate BY <2>3 DEF CtlUpdate
  <2>4. CASE CtlStatus BY <2>4 DEF CtlStatus
  <2>5. CASE Dial BY <2>5 DEF Dial
  <2>6. CASE HandleAcceptError BY <2>6 DEF HandleAcceptError, Running
  <2>7. CASE HandleAcceptLast BY <2>7 DEF HandleAcceptLast, Running
  <2> QED BY <1>3, <2>1, <2>2, <2>3, <2>4, <2>5, <2>6, <2>7 DEF Request
<1>4. ASSUME NEW c \in Clients,
             SessionLookup(c) \/ SessionFinish(c) \/ SessionReturn(c) \/ SessionAges(c)
      PROVE  AcceptInv'
  <2>1. CASE SessionLookup(c) BY <2>1 DEF SessionLookup
  <2>2. CASE SessionFinish(c) BY <2>2 DEF SessionFinish
  <2>3. CASE SessionReturn(c) BY <2>3 DEF SessionReturn
  <2>4. CASE SessionAges(c) BY <2>4 DEF SessionAges
  <2> QED BY <1>4, <2>1, <2>2, <2>3, <2>4
<1>5. CASE UNCHANGED vars BY <1>5 DEF vars
<1> QED BY <1>1, <1>2, <1>3, <1>4, <1>5 DEF Next

\* NoLostSession, for any number of connections, starts and updates.
THEOREM NoneLost == Spec => []NoLostSession
<1>1. AcceptInv => NoLostSession
  BY DEF AcceptInv
<1> QED
  BY <1>1, TypeInit, TypeStep, AcceptInit, AcceptStep, PTL DEF Spec

-------------------------------------------------------------------------------
\* Why RemoteProxyHost::stop leaves nothing behind: its loop runs after the join
\* of the host thread, which closed the port at its exit, so that m_clients does
\* not grow behind the loop; each session is stopped, or still to be visited.
PortInv ==
    /\ hpc \notin {"none", "exit"} => joinable
    /\ hpc \in {"none", "exit"} => acceptor = "closed" /\ armed = NoClient
    /\ cpc \in {"intr", "join"} => joinable
    /\ cpc \in {"stop_lock", "stop", "stop_wait"} => ~joinable
    /\ ~joinable /\ cpc # "stop_lock" =>
        \A c \in m_clients :
            \/ phase[c] = "stopped"
            \/ cpc \in {"stop", "stop_wait"} /\ c \in todo["control"]
            \/ cpc = "stop_wait" /\ c = visiting["control"]

\* Before the first start() the port is closed.
LEMMA PortInit == Init => PortInv
BY DEF Init, PortInv

\* stop() of the port, with a reap or an accept of the host thread in any of its
\* steps, keeps the sessions that it has passed stopped.
LEMMA PortStep == TypeOK /\ AcceptInv /\ PortInv /\ [Next]_vars => PortInv'
<1> SUFFICES ASSUME TypeOK, AcceptInv, PortInv, [Next]_vars PROVE PortInv'
  OBVIOUS
<1> USE DEF TypeOK, AcceptInv, NoLostSession, PortInv, runVars, portVars, hostVars,
            listVars, configVars, stampVars, sessionVars
<1>1. CASE HostThread \/ TimerDue
  <2>1. CASE Listen BY <2>1 DEF Listen, ArmNext
  <2>2. CASE Loop BY <2>2 DEF Loop
  <2>3. CASE HandleAccept BY <2>3 DEF HandleAccept, Running, ArmNext
  <2>4. CASE CheckDeadlineAborted BY <2>4 DEF CheckDeadlineAborted, Running
  <2>5. CASE CheckDeadline BY <2>5 DEF CheckDeadline, Running
  <2>6. CASE ReapLock BY <2>6 DEF ReapLock
  <2>7. ASSUME NEW c \in Clients, ReapSkip(c) PROVE PortInv' BY <2>7 DEF ReapSkip
  <2>8. ASSUME NEW c \in Clients, ReapStop(c) PROVE PortInv' BY <2>8 DEF ReapStop, CallStop
  <2>9. ASSUME NEW c \in Clients, ReapErase(c) PROVE PortInv' BY <2>9 DEF ReapErase
  <2>10. CASE ReapDone BY <2>10 DEF ReapDone
  <2>11. CASE RunReturns BY <2>11 DEF RunReturns
  <2>12. CASE Sleep BY <2>12 DEF Sleep
  <2>13. CASE Unlock BY <2>13 DEF Unlock
  <2>14. CASE TimerDue BY <2>14 DEF TimerDue
  <2> QED BY <1>1, <2>1, <2>2, <2>3, <2>4, <2>5, <2>6, <2>7, <2>8, <2>9, <2>10,
             <2>11, <2>12, <2>13, <2>14 DEF HostThread
<1>2. CASE ControlThread
  <2>1. CASE CtlInterrupt BY <2>1 DEF CtlInterrupt
  <2>2. CASE CtlJoin BY <2>2 DEF CtlJoin
  <2>3. CASE CtlLock("stop_lock", "stop") BY <2>3 DEF CtlLock
  <2>4. CASE CtlLock("remove_lock", "remove") BY <2>4 DEF CtlLock
  <2>5. CASE CtlLock("status_lock", "status") BY <2>5 DEF CtlLock
  <2>6. CASE CtlUnlock("stop", "idle") BY <2>6 DEF CtlUnlock
  <2>7. CASE CtlUnlock("remove", "populate") BY <2>7 DEF CtlUnlock
  <2>8. CASE CtlUnlock("status", "idle") BY <2>8 DEF CtlUnlock
  <2>9. ASSUME NEW c \in Clients, CtlStopOne(c) PROVE PortInv'
    BY <2>9 DEF CtlStopOne, CtlVisit, CallStop
  <2>10. ASSUME NEW c \in Clients, CtlStopNext(c) PROVE PortInv' BY <2>10 DEF CtlStopNext
  <2>11. ASSUME NEW c \in Clients, CtlRemoveSkip(c) PROVE PortInv' BY <2>11 DEF CtlRemoveSkip
  <2>12. ASSUME NEW c \in Clients, CtlRemoveStop(c) PROVE PortInv'
    BY <2>12 DEF CtlRemoveStop, CtlVisit, CallStop
  <2>13. ASSUME NEW c \in Clients, CtlRemoveErase(c) PROVE PortInv' BY <2>13 DEF CtlRemoveErase
  <2>14. ASSUME NEW c \in Clients, CtlStatusRead(c) PROVE PortInv' BY <2>14 DEF CtlStatusRead
  <2>15. CASE CtlAddRemotes BY <2>15 DEF CtlAddRemotes, CtlSetRemotes
  <2>16. CASE CtlRemoveRemotes BY <2>16 DEF CtlRemoveRemotes, CtlSetRemotes
  <2>17. CASE CtlRelock BY <2>17 DEF CtlRelock, StartThread
  <2> QED BY <1>2, <2>1, <2>2, <2>3, <2>4, <2>5, <2>6, <2>7, <2>8, <2>9, <2>10,
             <2>11, <2>12, <2>13, <2>14, <2>15, <2>16, <2>17 DEF ControlThread
<1>3. CASE Request
  <2>1. CASE CtlStart BY <2>1 DEF CtlStart, StartThread
  <2>2. CASE CtlStop BY <2>2 DEF CtlStop
  <2>3. CASE CtlUpdate BY <2>3 DEF CtlUpdate
  <2>4. CASE CtlStatus BY <2>4 DEF CtlStatus
  <2>5. CASE Dial BY <2>5 DEF Dial
  <2>6. CASE HandleAcceptError BY <2>6 DEF HandleAcceptError, Running
  <2>7. CASE HandleAcceptLast BY <2>7 DEF HandleAcceptLast, Running
  <2> QED BY <1>3, <2>1, <2>2, <2>3, <2>4, <2>5, <2>6, <2>7 DEF Request
<1>4. ASSUME NEW c \in Clients,
             SessionLookup(c) \/ SessionFinish(c) \/ SessionReturn(c) \/ SessionAges(c)
      PROVE  PortInv'
  <2>1. CASE SessionLookup(c) BY <2>1 DEF SessionLookup
  <2>2. CASE SessionFinish(c) BY <2>2 DEF SessionFinish
  <2>3. CASE SessionReturn(c) BY <2>3 DEF SessionReturn
  <2>4. CASE SessionAges(c) BY <2>4 DEF SessionAges
  <2> QED BY <1>4, <2>1, <2>2, <2>3, <2>4
<1>5. CASE UNCHANGED vars BY <1>5 DEF vars
<1> QED BY <1>1, <1>2, <1>3, <1>4, <1>5 DEF Next

\* StopLeavesNothing, for any number of connections, starts and updates.
THEOREM NothingLeft == Spec => []StopLeavesNothing
<1>1. TypeOK /\ PortInv => StopLeavesNothing
  BY DEF TypeOK, PortInv, StopLeavesNothing
<1> QED
  BY <1>1, TypeInit, TypeStep, AcceptInit, AcceptStep, PortInit, PortStep, PTL
  DEF Spec

-------------------------------------------------------------------------------
\* Who holds m_mutex, and what the holder may rely on: the sessions that its loop
\* has yet to visit are listed, and so is the one whose stop() it waits for, which
\* the loop does not visit again.
MutexInv ==
    /\ m_mutex = "host" <=> hpc \in {"reap", "reap_stop"}
    /\ m_mutex = "control" <=>
           cpc \in {"stop", "stop_wait", "remove", "remove_wait", "status"}
    /\ m_mutex # "free" => todo[m_mutex] \subseteq m_clients
    /\ hpc = "reap_stop" =>
        visiting["host"] \in m_clients \ todo["host"]
    /\ cpc \in {"stop_wait", "remove_wait"} =>
        visiting["control"] \in m_clients \ todo["control"]
    /\ hpc # "reap_stop" => visiting["host"] = NoClient
    /\ cpc \notin {"stop_wait", "remove_wait"} => visiting["control"] = NoClient

\* A session whose stop() a thread waits for stays in m_clients until that thread
\* goes on: check_deadline, RemoteProxyHost::stop and remove_any never erase, and
\* so delete, a session under another thread's feet.
VisitedStaysListed ==
    \A t \in {"host", "control"} :
        visiting[t] # NoClient => visiting[t] \in m_clients

\* Nobody holds m_mutex before the first start().
LEMMA MutexInit == Init => MutexInv
BY DEF Init, MutexInv

\* m_mutex keeps the two loops over m_clients apart; handle_accept, which does not
\* take it, only adds to the list.
LEMMA MutexStep == TypeOK /\ PortInv /\ MutexInv /\ [Next]_vars => MutexInv'
<1> SUFFICES ASSUME TypeOK, PortInv, MutexInv, [Next]_vars PROVE MutexInv'
  OBVIOUS
<1> USE HostAssumption
        DEF TypeOK, MutexInv, runVars, portVars, hostVars, listVars, configVars,
            stampVars, sessionVars
<1>1. CASE HostThread \/ TimerDue
  <2>1. CASE Listen BY <2>1 DEF Listen, ArmNext
  <2>2. CASE Loop BY <2>2 DEF Loop
  <2>3. CASE HandleAccept BY <2>3 DEF HandleAccept, Running, ArmNext
  <2>4. CASE CheckDeadlineAborted BY <2>4 DEF CheckDeadlineAborted, Running
  <2>5. CASE CheckDeadline BY <2>5 DEF CheckDeadline, Running
  <2>6. CASE ReapLock BY <2>6 DEF ReapLock
  <2>7. ASSUME NEW c \in Clients, ReapSkip(c) PROVE MutexInv' BY <2>7 DEF ReapSkip
  <2>8. ASSUME NEW c \in Clients, ReapStop(c) PROVE MutexInv' BY <2>8 DEF ReapStop, CallStop
  <2>9. ASSUME NEW c \in Clients, ReapErase(c) PROVE MutexInv' BY <2>9 DEF ReapErase
  <2>10. CASE ReapDone BY <2>10 DEF ReapDone
  <2>11. CASE RunReturns BY <2>11 DEF RunReturns
  <2>12. CASE Sleep BY <2>12 DEF Sleep
  <2>13. CASE Unlock BY <2>13 DEF Unlock
  <2>14. CASE TimerDue BY <2>14 DEF TimerDue
  <2> QED BY <1>1, <2>1, <2>2, <2>3, <2>4, <2>5, <2>6, <2>7, <2>8, <2>9, <2>10,
             <2>11, <2>12, <2>13, <2>14 DEF HostThread
<1>2. CASE ControlThread
  <2>1. CASE CtlInterrupt BY <2>1 DEF CtlInterrupt
  <2>2. CASE CtlJoin BY <2>2 DEF CtlJoin
  <2>3. CASE CtlLock("stop_lock", "stop") BY <2>3 DEF CtlLock
  <2>4. CASE CtlLock("remove_lock", "remove") BY <2>4 DEF CtlLock
  <2>5. CASE CtlLock("status_lock", "status") BY <2>5 DEF CtlLock
  <2>6. CASE CtlUnlock("stop", "idle") BY <2>6 DEF CtlUnlock
  <2>7. CASE CtlUnlock("remove", "populate") BY <2>7 DEF CtlUnlock
  <2>8. CASE CtlUnlock("status", "idle") BY <2>8 DEF CtlUnlock
  <2>9. ASSUME NEW c \in Clients, CtlStopOne(c) PROVE MutexInv'
    BY <2>9 DEF CtlStopOne, CtlVisit, CallStop
  <2>10. ASSUME NEW c \in Clients, CtlStopNext(c) PROVE MutexInv' BY <2>10 DEF CtlStopNext
  <2>11. ASSUME NEW c \in Clients, CtlRemoveSkip(c) PROVE MutexInv' BY <2>11 DEF CtlRemoveSkip
  <2>12. ASSUME NEW c \in Clients, CtlRemoveStop(c) PROVE MutexInv'
    BY <2>12 DEF CtlRemoveStop, CtlVisit, CallStop
  <2>13. ASSUME NEW c \in Clients, CtlRemoveErase(c) PROVE MutexInv' BY <2>13 DEF CtlRemoveErase
  <2>14. ASSUME NEW c \in Clients, CtlStatusRead(c) PROVE MutexInv' BY <2>14 DEF CtlStatusRead
  <2>15. CASE CtlAddRemotes BY <2>15 DEF CtlAddRemotes, CtlSetRemotes
  <2>16. CASE CtlRemoveRemotes BY <2>16 DEF CtlRemoveRemotes, CtlSetRemotes
  <2>17. CASE CtlRelock BY <2>17 DEF CtlRelock, StartThread, PortInv
  <2> QED BY <1>2, <2>1, <2>2, <2>3, <2>4, <2>5, <2>6, <2>7, <2>8, <2>9, <2>10,
             <2>11, <2>12, <2>13, <2>14, <2>15, <2>16, <2>17 DEF ControlThread
<1>3. CASE Request
  <2>1. CASE CtlStart BY <2>1 DEF CtlStart, StartThread, PortInv
  <2>2. CASE CtlStop BY <2>2 DEF CtlStop
  <2>3. CASE CtlUpdate BY <2>3 DEF CtlUpdate
  <2>4. CASE CtlStatus BY <2>4 DEF CtlStatus
  <2>5. CASE Dial BY <2>5 DEF Dial
  <2>6. CASE HandleAcceptError BY <2>6 DEF HandleAcceptError, Running
  <2>7. CASE HandleAcceptLast BY <2>7 DEF HandleAcceptLast, Running
  <2> QED BY <1>3, <2>1, <2>2, <2>3, <2>4, <2>5, <2>6, <2>7 DEF Request
<1>4. ASSUME NEW c \in Clients,
             SessionLookup(c) \/ SessionFinish(c) \/ SessionReturn(c) \/ SessionAges(c)
      PROVE  MutexInv'
  <2>1. CASE SessionLookup(c) BY <2>1 DEF SessionLookup
  <2>2. CASE SessionFinish(c) BY <2>2 DEF SessionFinish
  <2>3. CASE SessionReturn(c) BY <2>3 DEF SessionReturn
  <2>4. CASE SessionAges(c) BY <2>4 DEF SessionAges
  <2> QED BY <1>4, <2>1, <2>2, <2>3, <2>4
<1>5. CASE UNCHANGED vars BY <1>5 DEF vars
<1> QED BY <1>1, <1>2, <1>3, <1>4, <1>5 DEF Next

\* VisitedStaysListed, for any number of sessions.
THEOREM VisitedListed == Spec => []VisitedStaysListed
<1>1. TypeOK /\ MutexInv => VisitedStaysListed
  BY DEF TypeOK, MutexInv, VisitedStaysListed
<1> QED
  BY <1>1, TypeInit, TypeStep, AcceptInit, AcceptStep, PortInit, PortStep,
     MutexInit, MutexStep, PTL DEF Spec

-------------------------------------------------------------------------------
\* What one step does to one session is a step of the contract, or nothing.
LEMMA ContractStep ==
    ASSUME TypeOK, AcceptInv, [Next]_vars, NEW c \in Clients
    PROVE  Session(c)!SessionNext \/ UNCHANGED Session(c)!sessionVars
<1> USE DEF TypeOK, runVars, portVars, hostVars, listVars, configVars, stampVars,
            sessionVars, Session!sessionVars
<1>1. CASE HandleAccept \/ HandleAcceptLast
  BY <1>1 DEF HandleAccept, HandleAcceptLast, AcceptInv, Session!SessionNext, Session!Accepted
<1>2. ASSUME NEW d \in Clients, CallStop(d), UNCHANGED stampVars
      PROVE  Session(c)!SessionNext \/ UNCHANGED Session(c)!sessionVars
  BY <1>2 DEF CallStop, Session!SessionNext, Session!Asked
<1>3. ASSUME NEW d \in Clients, ReapErase(d) \/ CtlRemoveErase(d)
      PROVE  Session(c)!SessionNext \/ UNCHANGED Session(c)!sessionVars
  BY <1>3 DEF ReapErase, CtlRemoveErase, Session!SessionNext, Session!Destroyed
<1>4. ASSUME NEW d \in Clients, SessionFinish(d)
      PROVE  Session(c)!SessionNext \/ UNCHANGED Session(c)!sessionVars
  BY <1>4 DEF SessionFinish, Session!SessionNext, Session!Finished
<1>5. ASSUME NEW d \in Clients, SessionReturn(d)
      PROVE  Session(c)!SessionNext \/ UNCHANGED Session(c)!sessionVars
  BY <1>5 DEF SessionReturn, Session!SessionNext, Session!Returned
<1>6. ASSUME NEW d \in Clients, SessionAges(d)
      PROVE  Session(c)!SessionNext \/ UNCHANGED Session(c)!sessionVars
  BY <1>6 DEF SessionAges, Session!SessionNext, Session!Older
<1>7. ASSUME NEW d \in Clients, ReapStop(d) \/ CtlStopOne(d) \/ CtlRemoveStop(d)
      PROVE  Session(c)!SessionNext \/ UNCHANGED Session(c)!sessionVars
  BY <1>2, <1>7 DEF ReapStop, CtlStopOne, CtlRemoveStop, CtlVisit
<1>8. CASE UNCHANGED <<phase, stampVars>>
  BY <1>8
<1>9. CASE HostThread \/ TimerDue
  BY <1>1, <1>3, <1>7, <1>8, <1>9
  DEF HostThread, Listen, Loop, CheckDeadlineAborted, CheckDeadline, ReapLock,
      ReapSkip, ReapDone, RunReturns, Sleep, Unlock, TimerDue
<1>10. CASE ControlThread
  BY <1>3, <1>7, <1>8, <1>10
  DEF ControlThread, CtlInterrupt, CtlJoin, CtlLock, CtlUnlock, CtlStopNext,
      CtlRemoveSkip, CtlStatusRead, CtlAddRemotes, CtlRemoveRemotes,
      CtlSetRemotes, CtlRelock
<1>11. CASE Request
  BY <1>1, <1>8, <1>11
  DEF Request, CtlStart, CtlStop, CtlUpdate, CtlStatus, Dial, HandleAcceptError
<1>12. ASSUME NEW d \in Clients, SessionLookup(d)
       PROVE  UNCHANGED Session(c)!sessionVars
  BY <1>12 DEF SessionLookup
<1> QED
  BY <1>4, <1>5, <1>6, <1>8, <1>9, <1>10, <1>11, <1>12 DEF Next, vars

\* SessionsFollowContract: under every interleaving of the host thread, the control
\* thread and the sessions, each session lives by the contract that
\* RemoteProxyClient implements (ContractImplemented of RemoteProxyClient_proof).
THEOREM ContractFollowed == Spec => SessionsFollowContract
<1>1. TypeOK /\ AcceptInv /\ [Next]_vars =>
          [\A c \in Clients : \/ Session(c)!SessionNext
                              \/ UNCHANGED Session(c)!sessionVars]_vars
  BY ContractStep
<1> QED
  BY <1>1, TypeInit, TypeStep, AcceptInit, AcceptStep, PTL
  DEF Spec, SessionsFollowContract

===============================================================================
