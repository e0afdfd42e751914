------------------------------ MODULE HostTest ------------------------------
(***************************************************************************)
(* The connection test of the status page, RemoteProxyClient::             *)
(* test_local_connection in src/src/remoteclient.cpp: a session object of  *)
(* its own connects to the first local endpoint that answers, in random    *)
(* order, and runs the plugin's connect_handler (PghpLogon for GateHouse   *)
(* hosts).  The result is the status code of the web page.                 *)
(***************************************************************************)
EXTENDS PghpLogon

CONSTANT LocalEps      \* m_local_ep.size()

VARIABLES
  m_type,              \* the plugin: "" is the standard one
  test,                \* the step: "dial", "logon", "close" or "end"
  index,               \* of the endpoint that is tried next
  m_local_connected,
  result               \* the code, 0 before it is known

testVars == <<m_type, test, index, m_local_connected, result>>
allVars == <<vars, testVars>>

TestInit ==
  /\ Init
  /\ m_type \in {"", "GHP"}
  /\ test = "dial" /\ index = 0 /\ m_local_connected = FALSE /\ result = 0

Connect ==
  /\ test = "dial"
  /\ index < LocalEps /\ index' = index + 1
  /\ test' = "logon" /\ m_local_connected' = TRUE
  /\ UNCHANGED <<vars, m_type, result>>

ConnectFails ==
  /\ test = "dial"
  /\ index < LocalEps /\ index' = index + 1
  /\ UNCHANGED <<vars, m_type, test, m_local_connected, result>>

NoneConnected ==
  /\ test = "dial" /\ index = LocalEps
  /\ test' = "end" /\ result' = 422
  /\ UNCHANGED <<vars, m_type, index, m_local_connected>>

\* The steps of connect_handler and of the server at the other end.
Within(A) ==
  /\ test = "logon" /\ m_type = "GHP"
  /\ A
  /\ UNCHANGED testVars

\* A handler that throws leaves 401; the standard plugin's returns true.
Code == IF m_type = "" \/ outcome = "ok" THEN 200 ELSE 401

LogonEnds ==
  /\ test = "logon" /\ (m_type = "GHP" => pc = "done")
  /\ result' = Code
  /\ test' = "close"
  /\ UNCHANGED <<vars, m_type, index, m_local_connected>>

Close ==
  /\ test = "close"
  /\ m_local_connected' = FALSE /\ test' = "end"
  /\ UNCHANGED <<vars, m_type, index, result>>

\* The outer catch clauses: what is thrown outside the inner ones (the log, an
\* allocation) is 500, and the session object closes its socket as it goes.
Throws ==
  /\ test \in {"dial", "close"}
  /\ test' = "end" /\ result' = 500
  /\ UNCHANGED <<vars, m_type, index, m_local_connected>>

Ended == test = "end" /\ UNCHANGED allVars

TestNext ==
  \/ Connect \/ ConnectFails \/ NoneConnected \/ LogonEnds \/ Close \/ Throws \/ Ended
  \/ Within(SendLogonRequest) \/ Within(Read) \/ Within(ReadFails)
  \/ Within(ServerHears) \/ Within(ServerReplies) \/ Within(ServerSendsData)
  \/ Within(ServerCloses)

\* The worker goes on; nothing is assumed of the server.
TestSpec ==
  /\ TestInit /\ [][TestNext]_allVars
  /\ WF_allVars(Connect \/ ConnectFails \/ NoneConnected \/ LogonEnds \/ Close)
  /\ WF_allVars(Within(SendLogonRequest))
  /\ WF_allVars(Within(Read))
  /\ WF_allVars(Within(ReadFails))

-----------------------------------------------------------------------------
(* Properties *)

Granted == reply # <<>> /\ reply[1].result = Int32(LOGON_REPLY_OK)


\* The server does not stay silent for ever while the handler waits for it: it
\* sends something or closes.  On Linux socket_read_some_for drops the ten seconds
\* it is given (applutil.h:289), so nothing in the code limits that wait.
ServerSpeaks ==
  (test = "logon" /\ pc = "read" /\ unread = <<>>) ~> (unread # <<>> \/ closed)

\* With a server that speaks the test ends, and with it the web request, however
\* much data the server sends: connect_handler reads at most MaxMessages times.
TestEnds == ServerSpeaks => <>(test = "end")
=============================================================================
