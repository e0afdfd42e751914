------------------------------ MODULE ProxySession ------------------------------
(***************************************************************************)
(* What a RemoteProxyClient promises to the RemoteProxyHost that owns it,  *)
(* reduced to what the host can see of a session: where it is in its life  *)
(* and the ages of its two time stamps, thread_ended and m_stopped.        *)
(*                                                                         *)
(* RemoteProxyClient implements this contract, and RemoteProxyHost is      *)
(* written against it: each of the host's sessions follows it too.         *)
(***************************************************************************)
VARIABLES
    phase,     \* waiting for a connection, serving, asked to stop, stopped, erased
    ended,     \* age of thread_ended
    stopped    \* age of m_stopped

sessionVars == <<phase, ended, stopped>>

SessionInit == phase = "waiting" /\ ended = "unset" /\ stopped = "unset"

\* The accepted session enters m_clients and its remote thread is started.
Accepted ==
    /\ phase = "waiting"
    /\ phase' = "serving"
    /\ UNCHANGED <<ended, stopped>>

\* remote_threadproc ran to its end.  A stopped session never gets here again.
Finished ==
    /\ phase \in {"serving", "asked"} /\ ended = "unset"
    /\ ended' = "recent"
    /\ UNCHANGED <<phase, stopped>>

\* stop() is called, and returns; it is called once.
Asked ==
    /\ phase = "serving"
    /\ phase' = "asked"
    /\ UNCHANGED <<ended, stopped>>

Returned ==
    /\ phase = "asked"
    /\ phase' = "stopped"
    /\ stopped' = "recent"
    /\ UNCHANGED ended

\* Only a stopped session is taken out of m_clients and destroyed.
Destroyed ==
    /\ phase = "stopped"
    /\ phase' = "erased"
    /\ UNCHANGED <<ended, stopped>>

\* Two seconds after a time stamp was set.
Older ==
    \/ ended = "recent" /\ ended' = "old" /\ UNCHANGED <<phase, stopped>>
    \/ stopped = "recent" /\ stopped' = "old" /\ UNCHANGED <<phase, ended>>

SessionNext ==
    Accepted \/ Finished \/ Asked \/ Returned \/ Destroyed \/ Older

SessionSpec == SessionInit /\ [][SessionNext]_sessionVars

===============================================================================
