----------------------------- MODULE LocalHost_proof -----------------------------
(***************************************************************************)
(* Proofs about the client-side port, for any set of users, limit of       *)
(* connections and number of sessions.                                     *)
(***************************************************************************)
EXTENDS LocalHost, FiniteSetTheorems, TLAPS

(* Types *)

\* Sets of users can be counted.
LEMMA CountUsers ==
  ASSUME NEW S \in SUBSET Users
  PROVE  IsFiniteSet(S) /\ Cardinality(S) \in Nat /\ (Cardinality(S) = 0 <=> S = {})
<1>1. IsFiniteSet(S)
  BY LocalHostAssumption, FS_Subset
<1> QED
  BY <1>1, FS_CardinalityType, FS_EmptySet

\* The handlers outstanding on the remote socket: at least the one that runs.
LEMMA RemoteOpsTyped ==
  ASSUME TypeOK
  PROVE  /\ RemoteOps \in Nat
         /\ handshaking \/ remote_reads > 0 \/ remote_writers # {} \/ stale > 0 =>
               RemoteOps - 1 \in Nat
<1>1. PICK c : c = Cardinality(remote_writers)
  OBVIOUS
<1>2. c \in Nat /\ (c = 0 <=> remote_writers = {})
  BY <1>1, CountUsers DEF TypeOK
<1>3. PICK h : h = IF handshaking THEN 1 ELSE 0
  OBVIOUS
<1>4. h \in Nat /\ (handshaking => h = 1)
  BY <1>3
<1>5. RemoteOps = stale + remote_reads + c + h
  BY <1>1, <1>3, Zenon DEF RemoteOps
<1>6. stale \in Nat /\ remote_reads \in Nat
  BY DEF TypeOK
<1> QED
  BY <1>2, <1>4, <1>5, <1>6

\* An aborted wait of the timer still has its handler.
LEMMA WaitsTyped ==
  ASSUME NEW w \in Waits
  PROVE  /\ Aborted(w) \in Waits
         /\ [w EXCEPT !.aborted = @ + 1] \in Waits
         /\ [w EXCEPT !.waiting = 0, !.fired = @ + w.waiting] \in Waits
         /\ w.fired > 0 => [w EXCEPT !.fired = @ - 1] \in Waits
         /\ w.aborted > 0 => [w EXCEPT !.aborted = @ - 1, !.fired = @ + 1] \in Waits
         /\ w.aborted > 0 => [w EXCEPT !.aborted = @ - 1, !.waiting = @ + 1] \in Waits
<1> USE DEF Waits
<1>1. w.waiting \in Nat /\ w.aborted \in Nat /\ w.fired \in Nat
  OBVIOUS
<1>8. ASSUME NEW a \in Nat, NEW b \in Nat
      PROVE  /\ [w EXCEPT !.waiting = a, !.aborted = b] \in Waits
             /\ [w EXCEPT !.waiting = a, !.fired = b] \in Waits
             /\ [w EXCEPT !.aborted = a, !.fired = b] \in Waits
             /\ [w EXCEPT !.aborted = a, !.waiting = b] \in Waits
  OBVIOUS
<1>9. 0 \in Nat /\ w.aborted + w.waiting \in Nat /\ w.fired + w.waiting \in Nat
      /\ w.waiting + 1 \in Nat /\ w.fired + 1 \in Nat /\ (w.aborted > 0 => w.aborted - 1 \in Nat)
  BY <1>1
<1>2. Aborted(w) \in Waits
  BY <1>8, <1>9, Zenon DEF Aborted
<1>3. [w EXCEPT !.aborted = @ + 1] \in Waits
  BY <1>1
<1>4. [w EXCEPT !.waiting = 0, !.fired = @ + w.waiting] \in Waits
  BY <1>8, <1>9, Zenon
<1>5. w.fired > 0 => [w EXCEPT !.fired = @ - 1] \in Waits
  BY <1>1
<1>6. w.aborted > 0 => [w EXCEPT !.aborted = @ - 1, !.fired = @ + 1] \in Waits
  BY <1>8, <1>9, Zenon
<1>7. w.aborted > 0 => [w EXCEPT !.aborted = @ - 1, !.waiting = @ + 1] \in Waits
  BY <1>8, <1>9, Zenon
<1> QED BY <1>2, <1>3, <1>4, <1>5, <1>6, <1>7

\* A handler that throws leaves the types of the thread, the remote socket and the timer.
LEMMA EndSessionTyped ==
  ASSUME NEW users, NEW leftover \in Nat, NEW w \in Waits, EndSession(users, leftover, w)
  PROVE  /\ tpc' \in {"scope", "pause"} /\ remote' = "none" /\ handshaking' \in BOOLEAN
         /\ ~handshaking' /\ remote_reads' = 0 /\ remote_writers' = {} /\ stale' \in Nat
         /\ deadline' = "never" /\ waits' \in Waits
<1>1. handshaking' \in BOOLEAN /\ ~handshaking'
  BY DEF EndSession
<1>2. waits' \in Waits
  BY WaitsTyped DEF EndSession
<1> QED BY <1>1, <1>2 DEF EndSession

\* The constructor starts no thread.
LEMMA TypeInit == Init => TypeOK
<1> SUFFICES ASSUME Init PROVE TypeOK
  OBVIOUS
<1>1. sessions \in 0 .. MaxSessions
  BY LocalHostAssumption DEF Init
<1>2. waits \in Waits
  BY DEF Init, NoWaits, Waits
<1>3. m_stop \in BOOLEAN /\ joinable \in BOOLEAN /\ crashed \in BOOLEAN /\ handshaking \in BOOLEAN
      /\ m_local_connected \in BOOLEAN
  BY DEF Init
<1> QED
  BY <1>1, <1>2, <1>3 DEF Init, TypeOK

\* Every step of the thread, its handlers, stop(), the peers and time keeps the types.
LEMMA TypeStep == TypeOK /\ [Next]_vars => TypeOK'
<1> SUFFICES ASSUME TypeOK, [Next]_vars PROVE TypeOK'
  OBVIOUS
<1> USE DEF TypeOK, threadVars, userVars, writeVars, remoteVars, timerVars
<1>1. CASE ThreadStep
  <2>1. CASE Loop BY <2>1 DEF Loop
  <2>2. CASE OpenAcceptor
    <3>1. m_local_connected' \in BOOLEAN
      BY <2>2 DEF OpenAcceptor
    <3> QED BY <2>2, <3>1 DEF OpenAcceptor
  <2>3. CASE AcceptFails BY <2>3 DEF AcceptFails
  <2>4. ASSUME NEW u \in Users, FirstUser(u) PROVE TypeOK'
    <3>1. m_local_connected' \in BOOLEAN
      BY <2>4 DEF FirstUser
    <3> QED BY <2>4, <3>1 DEF FirstUser
  <2>5. CASE GoOut BY <2>5 DEF GoOut
  <2>6. CASE Connect
    <3>1. sessions' \in 0 .. MaxSessions
      BY <2>6, LocalHostAssumption DEF Connect
    <3>2. handshaking' \in BOOLEAN
      BY <2>6 DEF Connect
    <3> QED BY <2>6, <3>1, <3>2, WaitsTyped DEF Connect
  <2>7. CASE ConnectFails
    <3>1. stale \in Nat
      BY <2>7, RemoteOpsTyped DEF ConnectFails
    <3>2. EndSession(m_local_sockets, stale, waits)
      BY <2>7 DEF ConnectFails
    <3>3. /\ tpc' \in {"scope", "pause"} /\ remote' = "none" /\ handshaking' \in BOOLEAN
          /\ remote_reads' = 0 /\ remote_writers' = {} /\ stale' \in Nat
          /\ deadline' = "never" /\ waits' \in Waits
      BY <3>1, <3>2, EndSessionTyped
    <3>4. UNCHANGED <<cpc, threadVars, mp_acceptor, userVars, writeVars, sessions>>
      BY <2>7 DEF ConnectFails
    <3> QED BY <3>3, <3>4
  <2>8. CASE Pause BY <2>8 DEF Pause
  <2>9. CASE ScopeExit
    <3>1. sessions' \in 0 .. MaxSessions
      BY <2>9, LocalHostAssumption DEF ScopeExit
    <3>2. handshaking' \in BOOLEAN /\ waits' \in Waits
      BY <2>9 DEF ScopeExit, NoWaits, Waits
    <3>3. tpc' \in {"sleep", "exit"} /\ m_local_connected' \in BOOLEAN
      BY <2>9 DEF ScopeExit, LeaveBody
    <3> QED BY <2>9, <3>1, <3>2, <3>3 DEF ScopeExit
  <2>10. CASE Sleep BY <2>10 DEF Sleep
  <2> QED BY <1>1, <2>1, <2>2, <2>3, <2>4, <2>5, <2>6, <2>7, <2>8, <2>9, <2>10 DEF ThreadStep
<1>2. CASE Failures
  <2>1. CASE RemoteReadFails
    <3>1. RemoteOps - 1 \in Nat
      BY <2>1, RemoteOpsTyped DEF RemoteReadFails
    <3>2. EndSession(m_local_sockets, RemoteOps - 1, waits)
      BY <2>1 DEF RemoteReadFails
    <3>3. /\ tpc' \in {"scope", "pause"} /\ remote' = "none" /\ handshaking' \in BOOLEAN
          /\ remote_reads' = 0 /\ remote_writers' = {} /\ stale' \in Nat
          /\ deadline' = "never" /\ waits' \in Waits
      BY <3>1, <3>2, EndSessionTyped
    <3>4. UNCHANGED <<cpc, threadVars, mp_acceptor, userVars, writeVars, sessions>>
      BY <2>1 DEF RemoteReadFails
    <3> QED BY <3>3, <3>4
  <2>2. CASE RemoteWriteFails
    <3>1. RemoteOps - 1 \in Nat
      BY <2>2, RemoteOpsTyped DEF RemoteWriteFails
    <3>2. EndSession(m_local_sockets, RemoteOps - 1, waits)
      BY <2>2 DEF RemoteWriteFails
    <3>3. /\ tpc' \in {"scope", "pause"} /\ remote' = "none" /\ handshaking' \in BOOLEAN
          /\ remote_reads' = 0 /\ remote_writers' = {} /\ stale' \in Nat
          /\ deadline' = "never" /\ waits' \in Waits
      BY <3>1, <3>2, EndSessionTyped
    <3>4. UNCHANGED <<cpc, threadVars, mp_acceptor, userVars, writeVars, sessions>>
      BY <2>2 DEF RemoteWriteFails
    <3> QED BY <3>3, <3>4
  <2>3. CASE StaleHandler
    <3>1. RemoteOps - 1 \in Nat
      BY <2>3, RemoteOpsTyped DEF StaleHandler
    <3>2. EndSession(m_local_sockets, RemoteOps - 1, waits)
      BY <2>3 DEF StaleHandler
    <3>3. /\ tpc' \in {"scope", "pause"} /\ remote' = "none" /\ handshaking' \in BOOLEAN
          /\ remote_reads' = 0 /\ remote_writers' = {} /\ stale' \in Nat
          /\ deadline' = "never" /\ waits' \in Waits
      BY <3>1, <3>2, EndSessionTyped
    <3>4. UNCHANGED <<cpc, threadVars, mp_acceptor, userVars, writeVars, sessions>>
      BY <2>3 DEF StaleHandler
    <3> QED BY <3>3, <3>4
  <2>4. CASE CheckDeadlineAborted
    <3>1. waits \in Waits /\ waits.aborted > 0
      BY <2>4 DEF CheckDeadlineAborted
    <3>2. waits' \in Waits
      BY <2>4, <3>1, WaitsTyped, Zenon DEF CheckDeadlineAborted
    <3> QED BY <2>4, <3>2 DEF CheckDeadlineAborted
  <2>5. CASE CheckDeadlineExpired
    <3>1. [waits EXCEPT !.fired = waits.fired - 1] \in Waits /\ Aborted([waits EXCEPT !.fired = waits.fired - 1]) \in Waits
      <4>1. waits \in Waits /\ waits.fired > 0
        BY <2>5 DEF CheckDeadlineExpired
      <4>2. [waits EXCEPT !.fired = waits.fired - 1] \in Waits
        BY <4>1, WaitsTyped, Zenon
      <4> QED BY <4>2, WaitsTyped, Zenon
    <3>2. UNCHANGED <<cpc, threadVars, m_local_sockets, readers, writeVars, sessions>>
      BY <2>5 DEF CheckDeadlineExpired
    <3>3. CASE m_auto_reconnect
      <4>1. /\ remote' = "closed" /\ deadline' = "never" /\ waits' = Aborted([waits EXCEPT !.fired = waits.fired - 1])
            /\ UNCHANGED <<tpc, mp_acceptor, sock, handshaking, remote_reads, remote_writers,
                           stale>>
        BY <2>5, <3>3, Zenon DEF CheckDeadlineExpired
      <4> QED BY <3>1, <3>2, <4>1
    <3>4. CASE ~m_auto_reconnect
      <4>1. RemoteOps \in Nat
        BY RemoteOpsTyped
      <4>2. /\ EndSession(m_local_sockets, RemoteOps, [waits EXCEPT !.fired = waits.fired - 1])
            /\ mp_acceptor' = "shut" /\ ShutUsers
        BY <2>5, <3>4, Zenon DEF CheckDeadlineExpired
      <4>3. /\ tpc' \in {"scope", "pause"} /\ remote' = "none" /\ handshaking' \in BOOLEAN
          /\ remote_reads' = 0 /\ remote_writers' = {} /\ stale' \in Nat
          /\ deadline' = "never" /\ waits' \in Waits
        BY <3>1, <4>1, <4>2, EndSessionTyped
      <4> QED BY <3>2, <4>2, <4>3 DEF ShutUsers
    <3> QED BY <3>3, <3>4
  <2>6. CASE CheckDeadlineMoved
    <3>1. waits \in Waits /\ waits.fired > 0
      BY <2>6 DEF CheckDeadlineMoved
    <3>2. waits' \in Waits
      BY <2>6, <3>1, WaitsTyped, Zenon DEF CheckDeadlineMoved
    <3> QED BY <2>6, <3>2 DEF CheckDeadlineMoved
  <2>7. ASSUME NEW u \in Users, LocalReadFails(u) PROVE TypeOK'
    <3>1. m_local_sockets' \subseteq Users /\ sock' \in [Users -> {"unused", "open", "eof", "shut", "closed"}]
      BY <2>7 DEF LocalReadFails, RemoveSocket
    <3>2. CASE m_local_sockets' = {}
      <4>1. EndSession({}, RemoteOps, waits) /\ RemoteOps \in Nat
        BY <2>7, <3>2, RemoteOpsTyped DEF LocalReadFails
      <4> QED BY <2>7, <3>1, <4>1, EndSessionTyped DEF LocalReadFails
    <3>3. CASE m_local_sockets' # {}
      BY <2>7, <3>1, <3>3 DEF LocalReadFails
    <3> QED BY <3>2, <3>3
  <2> QED BY <1>2, <2>1, <2>2, <2>3, <2>4, <2>5, <2>6, <2>7 DEF Failures
<1>3. CASE Arrivals
  <2>1. CASE HandshakeDone
    <3>1. handshaking' \in BOOLEAN
      BY <2>1 DEF HandshakeDone
    <3>2. deadline' = "set" /\ waits' \in Waits
      BY <2>1, WaitsTyped DEF HandshakeDone, ResetDeadline
    <3> QED BY <2>1, <3>1, <3>2 DEF HandshakeDone
  <2>2. CASE RemoteRead
    <3>1. Cardinality(m_local_sockets) \in Int
      BY CountUsers
    <3>2. remote_reads' \in Nat /\ m_write_count' \in Int
      BY <2>2, <3>1 DEF RemoteRead
    <3>3. local_writes' \in [Users -> Nat]
      BY <2>2 DEF RemoteRead
    <3> QED BY <2>2, <3>2, <3>3, WaitsTyped DEF RemoteRead, ResetDeadline
  <2>3. ASSUME NEW u \in Users, Accept(u) PROVE TypeOK'
    BY <2>3 DEF Accept
  <2>4. ASSUME NEW u \in Users, LocalRead(u) PROVE TypeOK'
    BY <2>4 DEF LocalRead
  <2>5. ASSUME NEW u \in Users, HandleAccept(u) PROVE TypeOK'
    BY <2>5 DEF HandleAccept
  <2> QED BY <1>3, <2>1, <2>2, <2>3, <2>4, <2>5 DEF Arrivals
<1>4. CASE ControlStep
  <2>1. CASE CtlIntrAcceptor
    <3>1. crashed' \in BOOLEAN BY <2>1 DEF CtlIntrAcceptor
    <3> QED BY <2>1, <3>1 DEF CtlIntrAcceptor
  <2>2. CASE CtlIntrUsers BY <2>2 DEF CtlIntrUsers, ShutUsers
  <2>3. CASE CtlIntrRemote BY <2>3 DEF CtlIntrRemote, ShutRemote
  <2>4. CASE CtlJoin BY <2>4 DEF CtlJoin
  <2> QED BY <1>4, <2>1, <2>2, <2>3, <2>4 DEF ControlStep
<1>5. CASE HandshakeFails
  <2>1. RemoteOps - 1 \in Nat
    BY <1>5, RemoteOpsTyped DEF HandshakeFails
  <2>2. EndSession(m_local_sockets, RemoteOps - 1, waits)
    BY <1>5 DEF HandshakeFails
  <2>3. /\ tpc' \in {"scope", "pause"} /\ remote' = "none" /\ handshaking' \in BOOLEAN
        /\ remote_reads' = 0 /\ remote_writers' = {} /\ stale' \in Nat
        /\ deadline' = "never" /\ waits' \in Waits
    BY <2>1, <2>2, EndSessionTyped
  <2>4. UNCHANGED <<cpc, threadVars, mp_acceptor, userVars, writeVars, sessions>>
    BY <1>5 DEF HandshakeFails
  <2> QED BY <2>3, <2>4
<1>6. ASSUME NEW u \in Users, LocalWrite(u) PROVE TypeOK'
  <2>1. m_local_sockets' \subseteq Users /\ sock' \in [Users -> {"unused", "open", "eof", "shut", "closed"}]
    BY <1>6 DEF LocalWrite, RemoveSocket
  <2>2. local_writes' \in [Users -> Nat] /\ m_write_count' \in Int
    BY <1>6 DEF LocalWrite
  <2>3. CASE m_local_sockets' = {}
    <3>1. EndSession({}, RemoteOps, waits) /\ RemoteOps \in Nat
      BY <1>6, <2>3, RemoteOpsTyped DEF LocalWrite, AfterLocalWrite
    <3> QED BY <1>6, <2>1, <2>2, <3>1, EndSessionTyped DEF LocalWrite
  <2>4. CASE m_local_sockets' # {}
    <3>1. /\ UNCHANGED <<tpc, remote, handshaking, remote_writers, stale>>
          /\ \/ ResetDeadline /\ remote_reads' = remote_reads + 1
             \/ UNCHANGED <<deadline, waits, remote_reads>>
      BY <1>6, <2>4 DEF LocalWrite, AfterLocalWrite
    <3>2. deadline' \in {"set", "past", "never"} /\ waits' \in Waits /\ remote_reads' \in Nat
      <4>1. CASE ResetDeadline /\ remote_reads' = remote_reads + 1
        <5>1. waits' \in Waits BY <4>1, WaitsTyped, Zenon DEF ResetDeadline
        <5> QED BY <4>1, <5>1 DEF ResetDeadline
      <4>2. CASE UNCHANGED <<deadline, waits, remote_reads>>
        BY <4>2
      <4> QED BY <3>1, <4>1, <4>2
    <3> QED BY <1>6, <2>1, <2>2, <3>1, <3>2 DEF LocalWrite
  <2> QED BY <2>3, <2>4
<1>7. ASSUME NEW u \in Users, RemoteWrite(u) PROVE TypeOK'
  BY <1>7 DEF RemoteWrite
<1>8. ASSUME NEW u \in Users, UserLeaves(u) PROVE TypeOK'
  BY <1>8 DEF UserLeaves
<1>9. CASE CtlStart BY <1>9 DEF CtlStart
<1>10. CASE CtlStop BY <1>10 DEF CtlStop
<1>11. CASE RemoteLeaves BY <1>11 DEF RemoteLeaves
<1>12. CASE DeadlinePasses
  <2>1. waits' \in Waits
    BY <1>12, WaitsTyped, Zenon DEF DeadlinePasses
  <2> QED BY <1>12, <2>1 DEF DeadlinePasses
<1>13. CASE UNCHANGED vars BY <1>13 DEF vars
<1> QED BY <1>1, <1>2, <1>3, <1>4, <1>5, <1>6, <1>7, <1>8, <1>9, <1>10, <1>11, <1>12, <1>13 DEF Next

(* The users *)

\* Nothing is being written to any user.
NoWrites == \A u \in Users : local_writes[u] = 0

Idle == {"none", "loop", "open", "accept", "sleep", "exit"}

\* Where the thread stands and what it holds there: between two loop bodies nothing,
\* and outside run() no operation on the remote socket.  Sockets that were not
\* accepted are in no list.  While go_out is called there is a user.
ListInv ==
    /\ tpc \in Idle => \A u \in Users : sock[u] = "unused"
    /\ tpc \in Idle \cup {"accepted"} =>
           /\ m_local_sockets = {} /\ readers = {} /\ remote = "none"
           /\ sessions = 0 /\ NoWrites
    /\ tpc # "run" => ~handshaking /\ remote_reads = 0 /\ remote_writers = {}
    /\ tpc = "run" => sessions > 0
    /\ \A u \in Users : sock[u] = "unused" =>
           u \notin m_local_sockets /\ u \notin readers /\ u \notin remote_writers
    /\ ConnectionLimit
    /\ tpc \in {"out", "connect", "run", "pause"} => m_local_sockets # {}
    /\ readers \cap remote_writers = {}
    /\ ~joinable => tpc = "none"

\* Removing a user keeps the limit of connections.
LEMMA LimitSmaller ==
  ASSUME TypeOK, ConnectionLimit, NEW u,
         m_local_sockets' = m_local_sockets \/ m_local_sockets' = m_local_sockets \ {u}
  PROVE  ConnectionLimit'
<1>1. IsFiniteSet(m_local_sockets) /\ Cardinality(m_local_sockets) \in Nat
  BY CountUsers DEF TypeOK
<1>2. Cardinality(m_local_sockets \ {u}) <= Cardinality(m_local_sockets)
      /\ Cardinality(m_local_sockets \ {u}) \in Nat
  <2>1. m_local_sockets \ {u} \in SUBSET m_local_sockets
    OBVIOUS
  <2>2. IsFiniteSet(m_local_sockets \ {u})
        /\ Cardinality(m_local_sockets \ {u}) <= Cardinality(m_local_sockets)
    BY <1>1, <2>1, FS_Subset
  <2> QED BY <2>2, FS_CardinalityType
<1> QED
  BY <1>1, <1>2, LocalHostAssumption DEF ConnectionLimit

\* Every step keeps the account of the users.
LEMMA ListStep == TypeOK /\ ListInv /\ [Next]_vars => ListInv'
<1> SUFFICES ASSUME TypeOK, ListInv, [Next]_vars PROVE ListInv'
  OBVIOUS
<1>30. /\ m_local_sockets \subseteq Users /\ readers \subseteq Users /\ remote_writers \subseteq Users
       /\ sock \in [Users -> {"unused", "open", "eof", "shut", "closed"}]
       /\ sessions \in Nat /\ handshaking \in BOOLEAN /\ joinable \in BOOLEAN
       /\ tpc \in {"none", "loop", "open", "accept", "accepted", "out", "connect",
                   "run", "pause", "scope", "unwind", "sleep", "exit"}
  BY LocalHostAssumption DEF TypeOK
<1> USE <1>30 DEF ListInv, Idle, NoWrites, ConnectionLimit, threadVars, userVars, writeVars,
            remoteVars, timerVars
<1>1. CASE ThreadStep
  <2>1. CASE Loop BY <2>1 DEF Loop
  <2>2. CASE OpenAcceptor BY <2>2 DEF OpenAcceptor
  <2>3. CASE AcceptFails BY <2>3 DEF AcceptFails
  <2>4. ASSUME NEW u \in Users, FirstUser(u) PROVE ListInv'
    <3>1. m_local_sockets' = {u} /\ readers' = {u} /\ Cardinality({u}) = 1 /\ remote_writers = {}
      BY <2>4, FS_Singleton DEF FirstUser
    <3>2. ConnectionLimit'
      BY <3>1, LocalHostAssumption DEF ConnectionLimit
    <3> QED BY <2>4, <3>1, <3>2 DEF FirstUser
  <2>5. CASE GoOut BY <2>5 DEF GoOut
  <2>6. CASE Connect
    <3>1. sessions' > 0 /\ tpc = "connect" /\ tpc' = "run"
      BY <2>6 DEF Connect
    <3> QED BY <2>6, <3>1 DEF Connect
  <2>7. CASE ConnectFails
    <3>1. /\ tpc' = (IF m_local_sockets = {} THEN "scope" ELSE "pause") /\ remote' = "none"
          /\ ~handshaking' /\ remote_reads' = 0 /\ remote_writers' = {}
      BY <2>7 DEF ConnectFails, EndSession
    <3>2. UNCHANGED <<userVars, writeVars, sessions>>
      BY <2>7 DEF ConnectFails
    <3> QED BY <2>7, <3>1, <3>2 DEF ConnectFails
  <2>8. CASE Pause BY <2>8 DEF Pause
  <2>9. CASE ScopeExit
    <3>1. ConnectionLimit' /\ sessions' = 0 /\ ~handshaking'
      BY <2>9, FS_EmptySet, LocalHostAssumption DEF ScopeExit, ConnectionLimit
    <3>2. tpc' \in {"sleep", "exit"}
      BY <2>9 DEF ScopeExit, LeaveBody
    <3>3. joinable
      BY <2>9 DEF ScopeExit, LeaveBody
    <3> QED BY <2>9, <3>1, <3>2, <3>3 DEF ScopeExit, NoWrites
  <2>10. CASE Sleep BY <2>10 DEF Sleep
  <2> QED BY <1>1, <2>1, <2>2, <2>3, <2>4, <2>5, <2>6, <2>7, <2>8, <2>9, <2>10 DEF ThreadStep
<1>2. CASE Failures
  <2>1. CASE RemoteReadFails
    <3>1. /\ tpc' = (IF m_local_sockets = {} THEN "scope" ELSE "pause") /\ remote' = "none"
          /\ ~handshaking' /\ remote_reads' = 0 /\ remote_writers' = {}
      BY <2>1 DEF RemoteReadFails, EndSession
    <3>2. UNCHANGED <<userVars, writeVars, sessions>>
      BY <2>1 DEF RemoteReadFails
    <3> QED BY <2>1, <3>1, <3>2 DEF RemoteReadFails
  <2>2. CASE RemoteWriteFails
    <3>1. /\ tpc' = (IF m_local_sockets = {} THEN "scope" ELSE "pause") /\ remote' = "none"
          /\ ~handshaking' /\ remote_reads' = 0 /\ remote_writers' = {}
      BY <2>2 DEF RemoteWriteFails, EndSession
    <3>2. UNCHANGED <<userVars, writeVars, sessions>>
      BY <2>2 DEF RemoteWriteFails
    <3> QED BY <2>2, <3>1, <3>2 DEF RemoteWriteFails
  <2>3. CASE StaleHandler
    <3>1. /\ tpc' = (IF m_local_sockets = {} THEN "scope" ELSE "pause") /\ remote' = "none"
          /\ ~handshaking' /\ remote_reads' = 0 /\ remote_writers' = {}
      BY <2>3 DEF StaleHandler, EndSession
    <3>2. UNCHANGED <<userVars, writeVars, sessions>>
      BY <2>3 DEF StaleHandler
    <3> QED BY <2>3, <3>1, <3>2 DEF StaleHandler
  <2>4. CASE CheckDeadlineAborted BY <2>4 DEF CheckDeadlineAborted
  <2>5. CASE CheckDeadlineExpired
    <3>1. UNCHANGED <<joinable, m_local_sockets, readers, writeVars, sessions>> /\ tpc = "run"
      BY <2>5 DEF CheckDeadlineExpired
    <3>2. CASE m_auto_reconnect
      <4>1. UNCHANGED <<tpc, sock, handshaking, remote_reads, remote_writers>>
        BY <2>5, <3>2 DEF CheckDeadlineExpired
      <4> QED BY <3>1, <4>1
    <3>3. CASE ~m_auto_reconnect
      <4>1. /\ tpc' = (IF m_local_sockets = {} THEN "scope" ELSE "pause") /\ remote' = "none"
            /\ ~handshaking' /\ remote_reads' = 0 /\ remote_writers' = {} /\ ShutUsers
        BY <2>5, <3>3 DEF CheckDeadlineExpired, EndSession
      <4>2. \A v \in Users : sock'[v] = "unused" => sock[v] = "unused"
        BY <4>1 DEF ShutUsers
      <4> QED BY <3>1, <4>1, <4>2
    <3> QED BY <3>2, <3>3
  <2>6. CASE CheckDeadlineMoved BY <2>6 DEF CheckDeadlineMoved
  <2>7. ASSUME NEW u \in Users, LocalReadFails(u) PROVE ListInv'
    <3>1. m_local_sockets' \subseteq m_local_sockets /\ ConnectionLimit'
      <4>1. m_local_sockets' = m_local_sockets \/ m_local_sockets' = m_local_sockets \ {u}
        BY <2>7 DEF LocalReadFails, RemoveSocket
      <4> QED BY <4>1, LimitSmaller
    <3>2. \A v \in Users : sock'[v] = "unused" => sock[v] = "unused"
      BY <2>7 DEF LocalReadFails, RemoveSocket
    <3>3. CASE m_local_sockets' = {}
      <4>1. /\ tpc' = "scope" /\ remote' = "none"
            /\ ~handshaking' /\ remote_reads' = 0 /\ remote_writers' = {}
        BY <2>7, <3>3 DEF LocalReadFails, EndSession
      <4> QED BY <2>7, <3>1, <3>2, <4>1 DEF LocalReadFails
    <3>4. CASE m_local_sockets' # {}
      BY <2>7, <3>1, <3>2, <3>4 DEF LocalReadFails
    <3> QED BY <3>3, <3>4
  <2> QED BY <1>2, <2>1, <2>2, <2>3, <2>4, <2>5, <2>6, <2>7 DEF Failures
<1>3. CASE Arrivals
  <2>1. CASE HandshakeDone
    <3>1. UNCHANGED <<tpc, joinable, userVars, remote_writers, sessions>> /\ tpc = "run"
      BY <2>1 DEF HandshakeDone
    <3> QED BY <3>1
  <2>2. CASE RemoteRead
    <3>1. UNCHANGED <<tpc, joinable, userVars, remote_writers, sessions>> /\ tpc = "run"
      BY <2>2 DEF RemoteRead
    <3> QED BY <3>1
  <2>3. ASSUME NEW u \in Users, Accept(u) PROVE ListInv'
    BY <2>3 DEF Accept
  <2>4. ASSUME NEW u \in Users, LocalRead(u) PROVE ListInv'
    BY <2>4 DEF LocalRead
  <2>5. ASSUME NEW u \in Users, HandleAccept(u) PROVE ListInv'
    <3>1. ConnectionLimit'
      <4>1. CASE Cardinality(m_local_sockets) < MaxConnections
        <5>1. Cardinality(m_local_sockets \cup {u}) <= Cardinality(m_local_sockets) + 1
              /\ Cardinality(m_local_sockets \cup {u}) \in Nat /\ Cardinality(m_local_sockets) \in Nat
          <6>1. IsFiniteSet(m_local_sockets) /\ Cardinality(m_local_sockets) \in Nat
            BY CountUsers
          <6>2. Cardinality(m_local_sockets \cup {u}) =
                  IF u \in m_local_sockets THEN Cardinality(m_local_sockets)
                                           ELSE Cardinality(m_local_sockets) + 1
            BY <6>1, FS_AddElement, Zenon
          <6> QED BY <6>1, <6>2
        <5>2. m_local_sockets' = m_local_sockets \cup {u}
          BY <2>5, <4>1 DEF HandleAccept
        <5>3. Cardinality(m_local_sockets') <= MaxConnections
          BY <4>1, <5>1, <5>2, LocalHostAssumption
        <5> QED BY <5>3
      <4>2. CASE ~(Cardinality(m_local_sockets) < MaxConnections)
        BY <2>5, <4>2 DEF HandleAccept, ConnectionLimit
      <4> QED BY <4>1, <4>2
    <3>2. UNCHANGED <<tpc, joinable, local_writes, handshaking, remote_reads, remote_writers, sessions,
                    remote>>
      BY <2>5 DEF HandleAccept
    <3>3. m_local_sockets \subseteq m_local_sockets'
          /\ (\A v \in Users : sock'[v] = "unused" => v # u /\ sock[v] = "unused"
                 /\ (v \in m_local_sockets' => v \in m_local_sockets)
                 /\ (v \in readers' => v \in readers))
          /\ (readers' = readers \/ readers' = readers \cup {u}) /\ sock[u] = "unused" /\ tpc = "run"
      BY <2>5 DEF HandleAccept
    <3> QED BY <3>1, <3>2, <3>3
  <2> QED BY <1>3, <2>1, <2>2, <2>3, <2>4, <2>5 DEF Arrivals
<1>4. CASE ControlStep
  <2>1. CASE CtlIntrAcceptor BY <2>1 DEF CtlIntrAcceptor
  <2>2. CASE CtlIntrUsers
    <3>1. \A v \in Users : /\ sock'[v] = "unused" => sock[v] = "unused"
                           /\ sock[v] = "unused" => sock'[v] = "unused"
      BY <2>2 DEF CtlIntrUsers, ShutUsers
    <3> QED BY <2>2, <3>1 DEF CtlIntrUsers
  <2>3. CASE CtlIntrRemote BY <2>3 DEF CtlIntrRemote, ShutRemote
  <2>4. CASE CtlJoin BY <2>4 DEF CtlJoin
  <2> QED BY <1>4, <2>1, <2>2, <2>3, <2>4 DEF ControlStep
<1>5. CASE HandshakeFails
  <2>1. /\ tpc' = (IF m_local_sockets = {} THEN "scope" ELSE "pause") /\ remote' = "none"
        /\ ~handshaking' /\ remote_reads' = 0 /\ remote_writers' = {}
    BY <1>5 DEF HandshakeFails, EndSession
  <2>2. UNCHANGED <<userVars, writeVars, sessions>>
    BY <1>5 DEF HandshakeFails
  <2> QED BY <1>5, <2>1, <2>2 DEF HandshakeFails
<1>6. ASSUME NEW u \in Users, LocalWrite(u) PROVE ListInv'
  <2>1. m_local_sockets' \subseteq m_local_sockets /\ ConnectionLimit'
    <3>1. m_local_sockets' = m_local_sockets \/ m_local_sockets' = m_local_sockets \ {u}
      BY <1>6 DEF LocalWrite, RemoveSocket
    <3> QED BY <3>1, LimitSmaller
  <2>2. \A v \in Users : sock'[v] = "unused" => sock[v] = "unused"
    BY <1>6 DEF LocalWrite, RemoveSocket
  <2>3. CASE m_local_sockets' = {}
    <3>1. /\ tpc' = "scope" /\ remote' = "none"
          /\ ~handshaking' /\ remote_reads' = 0 /\ remote_writers' = {}
      BY <1>6, <2>3 DEF LocalWrite, AfterLocalWrite, EndSession
    <3> QED BY <1>6, <2>1, <2>2, <3>1 DEF LocalWrite
  <2>4. CASE m_local_sockets' # {}
    <3>1. UNCHANGED <<tpc, remote, handshaking, remote_writers, stale>>
      BY <1>6, <2>4 DEF LocalWrite, AfterLocalWrite
    <3> QED BY <1>6, <2>1, <2>2, <2>4, <3>1 DEF LocalWrite
  <2> QED BY <2>3, <2>4
<1>7. ASSUME NEW u \in Users, RemoteWrite(u) PROVE ListInv'
  BY <1>7 DEF RemoteWrite
<1>8. ASSUME NEW u \in Users, UserLeaves(u) PROVE ListInv'
  BY <1>8 DEF UserLeaves
<1>9. CASE CtlStart
  <2>1. tpc = "none" /\ tpc' = "loop" /\ joinable'
    BY <1>9 DEF CtlStart
  <2> QED BY <1>9, <2>1 DEF CtlStart
<1>10. CASE CtlStop BY <1>10 DEF CtlStop
<1>11. CASE RemoteLeaves BY <1>11 DEF RemoteLeaves
<1>12. CASE DeadlinePasses BY <1>12 DEF DeadlinePasses
<1>13. CASE UNCHANGED vars BY <1>13 DEF vars
<1> QED BY <1>1, <1>2, <1>3, <1>4, <1>5, <1>6, <1>7, <1>8, <1>9, <1>10, <1>11, <1>12, <1>13 DEF Next

(* The first session *)

\* The writes outstanding, as LocalHost counts them, for given counts per user.
Pairs(lw) == UNION {{u} \X (1 .. lw[u]) : u \in Users}
Zero(lw) == \A u \in Users : lw[u] = 0

\* What the pairs are.
LEMMA PairsAre ==
  ASSUME NEW lw
  PROVE  \A p : p \in Pairs(lw) <=> \E u \in Users : \E k \in 1 .. lw[u] : p = <<u, k>>
BY DEF Pairs

\* The writes outstanding can be counted; there are none if no user has one.
LEMMA PairsCount ==
  ASSUME NEW lw \in [Users -> Nat]
  PROVE  /\ IsFiniteSet(Pairs(lw)) /\ Cardinality(Pairs(lw)) \in Nat
         /\ Cardinality(Pairs(lw)) = 0 <=> Zero(lw)
<1>1. PICK f : f = [u \in Users |-> {u} \X (1 .. lw[u])]
  OBVIOUS
<1>2. PICK R : R = {{u} \X (1 .. lw[u]) : u \in Users}
  OBVIOUS
<1>3. f \in Surjection(Users, R)
  BY <1>1, <1>2 DEF Surjection
<1>4. IsFiniteSet(R)
  BY <1>3, LocalHostAssumption, FS_Surjection
<1>5. ASSUME NEW u \in Users PROVE IsFiniteSet({u} \X (1 .. lw[u]))
  <2>1. IsFiniteSet(1 .. lw[u])
    BY FS_Interval
  <2> QED BY <2>1, FS_Singleton, FS_Product
<1>6. \A T \in R : IsFiniteSet(T)
  BY <1>2, <1>5
<1>7. IsFiniteSet(Pairs(lw))
  BY <1>2, <1>4, <1>6, FS_UNION, Zenon DEF Pairs
<1>8. Pairs(lw) = {} <=> Zero(lw)
  <2>1. ASSUME NEW u \in Users, lw[u] # 0 PROVE Pairs(lw) # {}
    <3>1. 1 \in 1 .. lw[u] BY <2>1
    <3> QED BY <3>1, PairsAre
  <2>2. ASSUME Zero(lw) PROVE Pairs(lw) = {}
    <3>1. \A u \in Users : 1 .. lw[u] = {} BY <2>2 DEF Zero
    <3> QED BY <3>1, PairsAre
  <2> QED BY <2>1, <2>2 DEF Zero
<1> QED
  BY <1>7, <1>8, FS_CardinalityType, FS_EmptySet

\* One write ends.
LEMMA PairsTaken ==
  ASSUME NEW lw \in [Users -> Nat], NEW u \in Users, lw[u] > 0
  PROVE  Cardinality(Pairs([lw EXCEPT ![u] = @ - 1])) = Cardinality(Pairs(lw)) - 1
<1>1. PICK l : l = [lw EXCEPT ![u] = @ - 1]
  OBVIOUS
<1>2. PICK n : n = lw[u]
  OBVIOUS
<1>3. /\ n \in Nat \ {0} /\ l \in [Users -> Nat] /\ l[u] = n - 1
      /\ \A v \in Users : v # u => l[v] = lw[v]
  BY <1>1, <1>2
<1>4. n \in 1 .. lw[u]
  BY <1>2, <1>3
<1>5. <<u, n>> \in Pairs(lw)
  BY <1>4, PairsAre
<1>6. \A k : k \in 1 .. l[u] <=> k \in 1 .. lw[u] /\ k # n
  BY <1>2, <1>3
<1>7. \A v \in Users : \A k : k \in 1 .. l[v] <=> (k \in 1 .. lw[v] /\ <<v, k>> # <<u, n>>)
  <2> SUFFICES ASSUME NEW v \in Users, NEW k
               PROVE  k \in 1 .. l[v] <=> (k \in 1 .. lw[v] /\ <<v, k>> # <<u, n>>)
    OBVIOUS
  <2>1. CASE v = u BY <1>6, <2>1
  <2>2. CASE v # u
    <3>1. l[v] = lw[v] BY <1>3, <2>2
    <3> QED BY <2>2, <3>1
  <2> QED BY <2>1, <2>2
<1>8. \A p : p \in Pairs(l) <=> p \in Pairs(lw) \ {<<u, n>>}
  <2> SUFFICES ASSUME NEW p PROVE p \in Pairs(l) <=> p \in Pairs(lw) \ {<<u, n>>}
    OBVIOUS
  <2>1. p \in Pairs(l) <=> \E v \in Users : \E k : k \in 1 .. l[v] /\ p = <<v, k>>
    BY PairsAre
  <2>2. p \in Pairs(lw) <=> \E v \in Users : \E k : k \in 1 .. lw[v] /\ p = <<v, k>>
    BY PairsAre
  <2> QED BY <1>7, <2>1, <2>2, Zenon
<1>9. Pairs(l) = Pairs(lw) \ {<<u, n>>}
  BY <1>8
<1>10. IsFiniteSet(Pairs(lw))
  BY PairsCount
<1>11. Cardinality(Pairs(lw) \ {<<u, n>>}) = Cardinality(Pairs(lw)) - 1
  BY <1>5, <1>10, FS_RemoveElement
<1> QED
  BY <1>1, <1>9, <1>11, Zenon

\* Data of the remote proxy is written once to each user in the list.
LEMMA PairsAdded ==
  ASSUME NEW lw \in [Users -> Nat], Zero(lw), NEW S \in SUBSET Users
  PROVE  Cardinality(Pairs([u \in Users |-> IF u \in S THEN lw[u] + 1 ELSE lw[u]]))
           = Cardinality(S)
<1>1. PICK l : l = [u \in Users |-> IF u \in S THEN lw[u] + 1 ELSE lw[u]]
  OBVIOUS
<1>2. \A u \in Users : l[u] = IF u \in S THEN 1 ELSE 0
  BY <1>1 DEF Zero
<1>3. \A u \in Users : \A k : k \in 1 .. l[u] <=> u \in S /\ k = 1
  <2> SUFFICES ASSUME NEW u \in Users, NEW k PROVE k \in 1 .. l[u] <=> u \in S /\ k = 1
    OBVIOUS
  <2>1. CASE u \in S
    <3>1. l[u] = 1 BY <1>2, <2>1
    <3> QED BY <2>1, <3>1
  <2>2. CASE u \notin S
    <3>1. l[u] = 0 BY <1>2, <2>2
    <3> QED BY <2>2, <3>1
  <2> QED BY <2>1, <2>2
<1>4. \A p : p \in Pairs(l) <=> p \in S \X {1}
  <2> SUFFICES ASSUME NEW p PROVE p \in Pairs(l) <=> p \in S \X {1}
    OBVIOUS
  <2>1. p \in Pairs(l) <=> \E u \in Users : \E k : k \in 1 .. l[u] /\ p = <<u, k>>
    BY PairsAre
  <2>2. p \in Pairs(l) <=> \E u \in S : p = <<u, 1>>
    BY <1>3, <2>1
  <2> QED BY <2>2
<1>5. Pairs(l) = S \X {1}
  BY <1>4
<1>6. IsFiniteSet(S) /\ Cardinality(S) \in Nat
  BY CountUsers
<1>7. Cardinality(S \X {1}) = Cardinality(S) * Cardinality({1}) /\ Cardinality({1}) = 1
  BY <1>6, FS_Singleton, FS_Product, Zenon
<1>8. Cardinality(S \X {1}) = Cardinality(S)
  BY <1>6, <1>7
<1> QED
  BY <1>1, <1>5, <1>8, Zenon

\* Who reads from the remote proxy: the handshake, one read, or nobody while users are
\* being written to.
OneReader ==
    \/ handshaking /\ remote_reads = 0 /\ Zero(local_writes)
    \/ ~handshaking /\ remote_reads = 1 /\ Zero(local_writes)
    \/ ~handshaking /\ remote_reads = 0 /\ ~Zero(local_writes)

\* Until the first session of a loop body has ended: before it nobody is written to and
\* all users are read from, and m_write_count is exact.  A second session starts with
\* the writes and without the readers that the first one has left.
FirstInv ==
    sessions \in {0, 1} =>
        /\ sessions = 0 => Zero(local_writes) /\ m_local_sockets \subseteq readers
        /\ tpc = "run" => m_local_sockets \subseteq readers \cup remote_writers
        /\ Cardinality(Pairs(local_writes)) # 0 =>
               m_write_count = Cardinality(Pairs(local_writes))
        /\ tpc = "run" => OneReader

\* Every step keeps the account of the first session.
LEMMA FirstStep == TypeOK /\ ListInv /\ FirstInv /\ [Next]_vars => FirstInv'
<1> SUFFICES ASSUME TypeOK, ListInv, FirstInv, [Next]_vars, sessions' \in {0, 1} PROVE FirstInv'
  BY DEF FirstInv
<1>30. /\ m_local_sockets \subseteq Users /\ readers \subseteq Users /\ remote_writers \subseteq Users
       /\ sessions \in Nat /\ handshaking \in BOOLEAN /\ remote_reads \in Nat
       /\ local_writes \in [Users -> Nat] /\ m_write_count \in Int
  BY LocalHostAssumption DEF TypeOK
<1> USE <1>30 DEF FirstInv, OneReader, threadVars, userVars, writeVars, remoteVars, timerVars
<1>1. CASE ThreadStep
  <2>1. CASE Loop BY <2>1 DEF Loop
  <2>2. CASE OpenAcceptor BY <2>2 DEF OpenAcceptor
  <2>3. CASE AcceptFails BY <2>3 DEF AcceptFails
  <2>4. ASSUME NEW u \in Users, FirstUser(u) PROVE FirstInv'
    <3>1. sessions = 0 /\ sessions' = 0 /\ tpc' = "out" /\ readers' = m_local_sockets'
      BY <2>4 DEF FirstUser, ListInv
    <3>2. UNCHANGED <<local_writes, m_write_count>>
      BY <2>4 DEF FirstUser
    <3> QED BY <3>1, <3>2
  <2>5. CASE GoOut BY <2>5 DEF GoOut
  <2>6. CASE Connect
    <3>1. sessions' = sessions + 1 /\ tpc = "connect" /\ tpc' = "run" /\ handshaking'
          /\ UNCHANGED <<m_local_sockets, readers, local_writes, m_write_count, remote_reads>>
      BY <2>6 DEF Connect
    <3>2. sessions = 0
      BY <3>1
    <3>3. remote_reads = 0 /\ m_local_sockets \subseteq readers /\ Zero(local_writes)
      BY <3>1, <3>2 DEF ListInv
    <3>4. sessions' # 0
      BY <3>1, <3>2
    <3> QED BY <3>1, <3>2, <3>3, <3>4
  <2>7. CASE ConnectFails
    <3>1. tpc' \in {"scope", "pause"}
      BY <2>7 DEF ConnectFails, EndSession
    <3>2. UNCHANGED <<m_local_sockets, readers, local_writes, m_write_count, sessions>>
      BY <2>7 DEF ConnectFails
    <3> QED BY <3>1, <3>2
  <2>8. CASE Pause BY <2>8 DEF Pause
  <2>9. CASE ScopeExit
    <3>1. sessions' = 0 /\ tpc' \in {"sleep", "exit"} /\ m_local_sockets' = {}
      BY <2>9 DEF ScopeExit, LeaveBody
    <3>2. Zero(local_writes') /\ local_writes' \in [Users -> Nat]
      BY <2>9 DEF ScopeExit, Zero
    <3>3. Cardinality(Pairs(local_writes')) = 0
      BY <3>2, PairsCount DEF Zero
    <3> QED BY <3>1, <3>2, <3>3
  <2>10. CASE Sleep BY <2>10 DEF Sleep
  <2> QED BY <1>1, <2>1, <2>2, <2>3, <2>4, <2>5, <2>6, <2>7, <2>8, <2>9, <2>10 DEF ThreadStep
<1>2. CASE Failures
  <2>1. CASE RemoteReadFails
    <3>1. tpc' \in {"scope", "pause"}
      BY <2>1 DEF RemoteReadFails, EndSession
    <3>2. UNCHANGED <<m_local_sockets, readers, local_writes, m_write_count, sessions>>
      BY <2>1 DEF RemoteReadFails
    <3> QED BY <3>1, <3>2
  <2>2. CASE RemoteWriteFails
    <3>1. tpc' \in {"scope", "pause"}
      BY <2>2 DEF RemoteWriteFails, EndSession
    <3>2. UNCHANGED <<m_local_sockets, readers, local_writes, m_write_count, sessions>>
      BY <2>2 DEF RemoteWriteFails
    <3> QED BY <3>1, <3>2
  <2>3. CASE StaleHandler
    <3>1. tpc' \in {"scope", "pause"}
      BY <2>3 DEF StaleHandler, EndSession
    <3>2. UNCHANGED <<m_local_sockets, readers, local_writes, m_write_count, sessions>>
      BY <2>3 DEF StaleHandler
    <3> QED BY <3>1, <3>2
  <2>4. CASE CheckDeadlineAborted BY <2>4 DEF CheckDeadlineAborted
  <2>5. CASE CheckDeadlineExpired
    <3>1. UNCHANGED <<m_local_sockets, readers, local_writes, m_write_count, sessions>>
      BY <2>5 DEF CheckDeadlineExpired
    <3>2. \/ UNCHANGED <<tpc, handshaking, remote_reads, remote_writers>>
          \/ tpc' \in {"scope", "pause"}
      BY <2>5 DEF CheckDeadlineExpired, EndSession
    <3> QED BY <3>1, <3>2
  <2>6. CASE CheckDeadlineMoved BY <2>6 DEF CheckDeadlineMoved
  <2>7. ASSUME NEW u \in Users, LocalReadFails(u) PROVE FirstInv'
    <3>1. /\ tpc = "run" /\ readers' = readers \ {u} /\ UNCHANGED <<local_writes, m_write_count, sessions>>
          /\ (m_local_sockets' = m_local_sockets \ {u}) /\ sessions # 0
      BY <2>7 DEF LocalReadFails, RemoveSocket, ListInv
    <3>2. CASE m_local_sockets' = {}
      <4>1. tpc' = "scope"
        BY <2>7, <3>2 DEF LocalReadFails, EndSession
      <4> QED BY <3>1, <4>1
    <3>3. CASE m_local_sockets' # {}
      <4>1. UNCHANGED <<tpc, handshaking, remote_reads, remote_writers>>
        BY <2>7, <3>3 DEF LocalReadFails
      <4> QED BY <3>1, <4>1
    <3> QED BY <3>2, <3>3
  <2> QED BY <1>2, <2>1, <2>2, <2>3, <2>4, <2>5, <2>6, <2>7 DEF Failures
<1>3. CASE Arrivals
  <2>1. CASE HandshakeDone
    <3>1. /\ handshaking /\ remote_reads' = remote_reads + 1 /\ tpc = "run" /\ ~handshaking'
          /\ UNCHANGED <<tpc, sessions, m_local_sockets, readers, remote_writers, local_writes,
                         m_write_count>>
      BY <2>1 DEF HandshakeDone
    <3>2. remote_reads = 0 /\ Zero(local_writes)
      BY <3>1
    <3>3. remote_reads' = 1
      BY <3>1, <3>2
    <3> QED BY <3>1, <3>2, <3>3
  <2>2. CASE RemoteRead
    <3>1. /\ remote_reads > 0 /\ remote_reads' = remote_reads - 1 /\ tpc = "run"
          /\ m_write_count' = Cardinality(m_local_sockets)
          /\ UNCHANGED <<tpc, sessions, m_local_sockets, readers, remote_writers, handshaking>>
          /\ local_writes' = [u \in Users |-> IF u \in m_local_sockets
                                              THEN local_writes[u] + 1 ELSE local_writes[u]]
      BY <2>2 DEF RemoteRead
    <3>2. ~handshaking /\ remote_reads = 1 /\ Zero(local_writes)
      BY <3>1
    <3>3. Cardinality(Pairs(local_writes')) = Cardinality(m_local_sockets)
      BY <3>1, <3>2, PairsAdded
    <3>4. m_local_sockets # {}
      BY <3>1 DEF ListInv
    <3>5. ~Zero(local_writes')
      BY <3>1, <3>4 DEF Zero
    <3>6. remote_reads' = 0
      BY <3>1, <3>2
    <3>7. sessions # 0
      BY <3>1 DEF ListInv
    <3> QED BY <3>1, <3>2, <3>3, <3>5, <3>6, <3>7
  <2>3. ASSUME NEW u \in Users, Accept(u) PROVE FirstInv'
    BY <2>3 DEF Accept
  <2>4. ASSUME NEW u \in Users, LocalRead(u) PROVE FirstInv'
    BY <2>4 DEF LocalRead, ListInv
  <2>5. ASSUME NEW u \in Users, HandleAccept(u) PROVE FirstInv'
    <3>1. /\ tpc = "run" /\ sessions # 0
          /\ UNCHANGED <<tpc, sessions, handshaking, remote_reads, remote_writers, local_writes,
                         m_write_count>>
          /\ \/ m_local_sockets' = m_local_sockets \cup {u} /\ readers' = readers \cup {u}
             \/ UNCHANGED <<m_local_sockets, readers>>
      BY <2>5 DEF HandleAccept, ListInv
    <3> QED BY <3>1
  <2> QED BY <1>3, <2>1, <2>2, <2>3, <2>4, <2>5 DEF Arrivals
<1>4. CASE ControlStep
  <2>1. CASE CtlIntrAcceptor BY <2>1 DEF CtlIntrAcceptor
  <2>2. CASE CtlIntrUsers BY <2>2 DEF CtlIntrUsers
  <2>3. CASE CtlIntrRemote BY <2>3 DEF CtlIntrRemote, ShutRemote
  <2>4. CASE CtlJoin BY <2>4 DEF CtlJoin
  <2> QED BY <1>4, <2>1, <2>2, <2>3, <2>4 DEF ControlStep
<1>5. CASE HandshakeFails
  <2>1. tpc' \in {"scope", "pause"}
    BY <1>5 DEF HandshakeFails, EndSession
  <2>2. UNCHANGED <<m_local_sockets, readers, local_writes, m_write_count, sessions>>
    BY <1>5 DEF HandshakeFails
  <2> QED BY <2>1, <2>2
<1>6. ASSUME NEW u \in Users, LocalWrite(u) PROVE FirstInv'
  <2>1. /\ tpc = "run" /\ local_writes[u] > 0 /\ m_write_count' = m_write_count - 1
        /\ local_writes' = [local_writes EXCEPT ![u] = local_writes[u] - 1] /\ UNCHANGED <<readers, sessions>>
        /\ m_local_sockets' \subseteq m_local_sockets
    <3>1. m_local_sockets' \subseteq m_local_sockets BY <1>6 DEF LocalWrite, RemoveSocket
    <3> QED BY <1>6, <3>1 DEF LocalWrite
  <2>2. /\ local_writes' \in [Users -> Nat] /\ Cardinality(Pairs(local_writes)) \in Nat
        /\ Cardinality(Pairs(local_writes')) = Cardinality(Pairs(local_writes)) - 1
    <3>1. local_writes' \in [Users -> Nat] BY <2>1
    <3>2. Cardinality(Pairs([local_writes EXCEPT ![u] = local_writes[u] - 1])) =
            Cardinality(Pairs(local_writes)) - 1
      BY <2>1, PairsTaken
    <3> QED BY <2>1, <3>1, <3>2, PairsCount
  <2>3. ~Zero(local_writes) /\ sessions # 0
    BY <2>1 DEF Zero, ListInv
  <2>4. Cardinality(Pairs(local_writes)) # 0
    BY <2>3, PairsCount DEF Zero
  <2>5. m_write_count = Cardinality(Pairs(local_writes))
    BY <2>1, <2>4
  <2>6. m_write_count' = Cardinality(Pairs(local_writes'))
    BY <2>1, <2>2, <2>5
  <2>7. m_write_count' = 0 <=> Zero(local_writes')
    BY <2>2, <2>6, PairsCount DEF Zero
  <2>8. ~handshaking /\ remote_reads = 0
    BY <2>1, <2>3
  <2>9. CASE m_local_sockets' = {}
    <3>1. tpc' = "scope"
      BY <1>6, <2>9 DEF LocalWrite, AfterLocalWrite, EndSession
    <3> QED BY <2>1, <2>3, <2>6, <3>1
  <2>10. CASE m_local_sockets' # {}
    <3>1. /\ UNCHANGED <<tpc, handshaking, remote_writers>>
          /\ remote_reads' = IF m_write_count' = 0 THEN remote_reads + 1 ELSE remote_reads
      BY <1>6, <2>10 DEF LocalWrite, AfterLocalWrite
    <3>2. remote_reads' = IF m_write_count' = 0 THEN 1 ELSE 0
      BY <2>8, <3>1
    <3> QED BY <2>1, <2>3, <2>6, <2>7, <2>8, <3>1, <3>2
  <2> QED BY <2>9, <2>10
<1>7. ASSUME NEW u \in Users, RemoteWrite(u) PROVE FirstInv'
  BY <1>7 DEF RemoteWrite, ListInv
<1>8. ASSUME NEW u \in Users, UserLeaves(u) PROVE FirstInv'
  BY <1>8 DEF UserLeaves
<1>9. CASE CtlStart BY <1>9 DEF CtlStart, ListInv, Idle
<1>10. CASE CtlStop BY <1>10 DEF CtlStop
<1>11. CASE RemoteLeaves BY <1>11 DEF RemoteLeaves
<1>12. CASE DeadlinePasses BY <1>12 DEF DeadlinePasses
<1>13. CASE UNCHANGED vars BY <1>13 DEF vars
<1> QED BY <1>1, <1>2, <1>3, <1>4, <1>5, <1>6, <1>7, <1>8, <1>9, <1>10, <1>11, <1>12, <1>13 DEF Next

\* The status page shows nobody for a port without a session, whatever the sessions
\* before it left behind, for any number of users, sessions and restarts.
THEOREM IdleIsEmpty == Spec => []IdleShowsNobody
<1>1. Init => ListInv
  <2> SUFFICES ASSUME Init PROVE ListInv
    OBVIOUS
  <2>1. ConnectionLimit
    BY FS_EmptySet, LocalHostAssumption DEF Init, ConnectionLimit
  <2>2. ~handshaking /\ tpc = "none"
    BY DEF Init
  <2> QED BY <2>1, <2>2 DEF Init, ListInv, Idle, NoWrites
<1>2. ListInv => IdleShowsNobody
  <2> SUFFICES ASSUME ListInv, tpc \in {"none", "sleep", "loop", "open", "accept", "exit"}
               PROVE  save_json_status = [connected_local |-> FALSE, local_hostname |-> {},
                                          connected_remote |-> FALSE, users |-> {0}]
    BY DEF IdleShowsNobody
  <2>1. m_local_sockets = {} /\ remote = "none"
    BY DEF ListInv, Idle
  <2>2. local_user_count = 0
    BY <2>1, FS_EmptySet DEF local_user_count
  <2>3. is_local_connected = FALSE
    BY <2>2 DEF is_local_connected
  <2>4. is_remote_connected = FALSE
    BY <2>1 DEF is_remote_connected
  <2> QED BY <2>1, <2>2, <2>3, <2>4, Zenon DEF save_json_status
<1> QED
  BY <1>1, <1>2, TypeInit, TypeStep, ListStep, PTL DEF Spec

\* In the first session of every loop body the remote proxy is read by exactly one party,
\* m_write_count is the number of writes outstanding, every user in the list is read from
\* or waits for its data to be written, and there are never more than
\* m_max_connections of them, for any number of users.
THEOREM FirstSessionServed == Spec => [](sessions <= 1 => ReadPump /\ UsersServed)
<1>1. Init => ListInv /\ FirstInv
  <2> SUFFICES ASSUME Init PROVE ListInv /\ FirstInv
    OBVIOUS
  <2>1. ConnectionLimit
    BY FS_EmptySet, LocalHostAssumption DEF Init, ConnectionLimit
  <2>2. ~handshaking /\ tpc = "none" /\ local_writes \in [Users -> Nat] /\ Zero(local_writes)
    BY DEF Init, Zero
  <2>3. Cardinality(Pairs(local_writes)) = 0
    BY <2>2, PairsCount
  <2> QED BY <2>1, <2>2, <2>3 DEF Init, ListInv, FirstInv, Idle, NoWrites
<1>2. TypeOK /\ ListInv /\ FirstInv => (sessions <= 1 => ReadPump /\ UsersServed)
  <2> SUFFICES ASSUME TypeOK, ListInv, FirstInv, sessions <= 1 PROVE ReadPump /\ UsersServed
    OBVIOUS
  <2>1. sessions \in {0, 1}
    BY LocalHostAssumption DEF TypeOK
  <2>2. Writes = Cardinality(Pairs(local_writes))
    BY Zenon DEF Writes, WritesTo, Pairs
  <2>3. Writes \in Nat /\ (Writes = 0 <=> Zero(local_writes))
    BY <2>2, PairsCount DEF TypeOK
  <2>4. WriteCountExact
    BY <2>1, <2>2, <2>3 DEF FirstInv, WriteCountExact
  <2>5. tpc = "run" => (IF handshaking THEN 1 ELSE 0) + remote_reads
                           + (IF Writes > 0 THEN 1 ELSE 0) = 1
    BY <2>1, <2>3 DEF FirstInv, OneReader
  <2>6. UsersServed
    BY <2>1 DEF ListInv, FirstInv, UsersServed, RunHasUsers
  <2> QED BY <2>4, <2>5, <2>6 DEF ReadPump
<1> QED
  BY <1>1, <1>2, TypeInit, TypeStep, ListStep, FirstStep, PTL DEF Spec

\* The limit of connections, users while the io_service runs, and that no user is read
\* from twice, in every session.
THEOREM EverySession ==
  Spec => [](ConnectionLimit /\ RunHasUsers /\ readers \cap remote_writers = {})
<1>1. Init => ListInv
  <2> SUFFICES ASSUME Init PROVE ListInv
    OBVIOUS
  <2>1. ConnectionLimit
    BY FS_EmptySet, LocalHostAssumption DEF Init, ConnectionLimit
  <2>2. ~handshaking /\ tpc = "none"
    BY DEF Init
  <2> QED BY <2>1, <2>2 DEF Init, ListInv, Idle, NoWrites
<1>2. ListInv => ConnectionLimit /\ RunHasUsers /\ readers \cap remote_writers = {}
  BY DEF ListInv, RunHasUsers
<1> QED
  BY <1>1, <1>2, TypeInit, TypeStep, ListStep, PTL DEF Spec

===============================================================================
