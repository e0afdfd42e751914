---------------------------- MODULE ProviderClient ----------------------------
(***************************************************************************)
(* The provider: src/providerclient.cpp with the start and stop of its     *)
(* base class.  A reader thread connects to a local data source and reads  *)
(* from it.  Without a buffer it also connects to a remote proxy and       *)
(* writes what it read; with one (use_buffer) a writer thread does, and    *)
(* the two share a list of strings, its count of bytes and a condition.    *)
(* The control thread is a web request that calls set_active.              *)
(*                                                                         *)
(* A chunk that was read is its number, its length and the length of its   *)
(* text: the list holds C strings, which end at the first zero byte.       *)
(***************************************************************************)
EXTENDS Integers, Sequences

CONSTANTS
    Remotes,      \* m_proxy_endpoints
    MaxLen,       \* max_length - 1: the longest chunk
    BufferSize,   \* m_buffer_size
    MaxChunks,    \* bound on the chunks the data source sends
    MaxStarts     \* bound on the calls of start()

ASSUME ProviderAssumption ==
    /\ MaxLen \in Nat \ {0} /\ BufferSize \in Nat
    /\ MaxChunks \in Nat /\ MaxStarts \in Nat

VARIABLES
    m_use_buffer,
    rt,             \* m_thread: the reader
    wt,             \* m_thread_write
    ctl,            \* the control thread in stop()
    mp_local_socket,
    mp_remote_socket,   \* mute: connected, and the peer neither answers nor reads
    todo,           \* remote endpoints connect_remote has not tried
    certified,      \* remote endpoints whose certificate is available
    m_buffer, m_buffer_count,
    data,           \* what the writer took, or the unbuffered reader read
    copied,         \* per thread in interrupt(): the pointer get_socket was given
    chunks, last,   \* chunks read so far; the newest one that was written
    starts

sockVars == <<mp_local_socket, mp_remote_socket, todo>>
bufVars  == <<m_buffer, m_buffer_count>>
envVars  == <<m_use_buffer, certified, starts>>
vars == <<rt, wt, ctl, sockVars, bufVars, data, copied, envVars, chunks, last>>

NoData == [id |-> 0, text |-> 0]
Element == [id : 1 .. MaxChunks, text : 0 .. MaxLen]

\* The types of the state; the count of bytes is unsigned and never wraps.
TypeOK ==
    /\ m_use_buffer \in BOOLEAN /\ certified \subseteq Remotes
    /\ rt \in [pc : {"none", "loop", "sleep", "local", "writer", "check", "read",
                     "dial", "handshake", "send", "unlock", "unlocking", "exit"},
               joinable : BOOLEAN, stop : BOOLEAN, next : {"loop", "exit"}]
    /\ wt \in [pc : {"none", "loop", "dial", "handshake", "check", "wait",
                     "drain", "send", "sleep", "exit"},
               joinable : BOOLEAN, stop : BOOLEAN]
    /\ ctl \in {"idle", "writer", "join_writer", "reader", "local", "remote",
                "join_reader"}
    /\ mp_local_socket \in {"null", "closed", "open", "lost"}
    /\ mp_remote_socket \in {"null", "closed", "open", "mute", "lost"}
    /\ todo \subseteq Remotes
    /\ m_buffer \in Seq(Element) /\ m_buffer_count \in Nat
    /\ data \in Element \cup {NoData}
    /\ copied \in [{"reader", "control"} -> BOOLEAN]
    /\ chunks \in 0 .. MaxChunks /\ last \in 0 .. MaxChunks
    /\ starts \in 0 .. MaxStarts

\* The constructor; use_buffer comes from the configuration.
Init ==
    /\ m_use_buffer \in BOOLEAN /\ certified \in SUBSET Remotes
    /\ rt = [pc |-> "none", joinable |-> FALSE, stop |-> FALSE, next |-> "loop"]
    /\ wt = [pc |-> "none", joinable |-> FALSE, stop |-> FALSE]
    /\ ctl = "idle"
    /\ mp_local_socket = "null" /\ mp_remote_socket = "null" /\ todo = {}
    /\ m_buffer = <<>> /\ m_buffer_count = 0 /\ data = NoData
    /\ copied = [t \in {"reader", "control"} |-> FALSE]
    /\ chunks = 0 /\ last = 0 /\ starts = 0

-------------------------------------------------------------------------------
(* Building blocks *)

RGo(pc) == rt' = [rt EXCEPT !.pc = pc]
WGo(pc) == wt' = [wt EXCEPT !.pc = pc]

\* An exception leaves the reader's loop body: the sockets of that scope and
\* the pointers to them go, then the lock_guard calls unlock().  An
\* interrupt_exception ends the thread, a std::exception the loop body.
RThrow(next) ==
    /\ rt' = [rt EXCEPT !.pc = "unlock", !.next = next]
    /\ mp_local_socket' = "null"
    /\ mp_remote_socket' = IF m_use_buffer THEN mp_remote_socket ELSE "null"
    /\ data' = IF m_use_buffer THEN data ELSE NoData

\* A std::exception in the writer: its socket goes.
WThrow(pc) ==
    /\ WGo(pc) /\ mp_remote_socket' = "null" /\ data' = NoData

\* notify_one wakes the writer only if it is waiting.
Notified(w) == IF w.pc = "wait" THEN [w EXCEPT !.pc = "drain"] ELSE w

\* shutdown() has an effect on a connected socket only.
Shut(s) == IF s \in {"open", "mute"} THEN "lost" ELSE s

\* The bytes of the first n strings of the list, for each n; of all of them.
Sums(buf) ==
    LET sum[n \in 0 .. Len(buf)] == IF n = 0 THEN 0 ELSE sum[n - 1] + buf[n].text
    IN  sum
Text(buf) == Sums(buf)[Len(buf)]

\* Fault: an element that is dropped is counted with its terminating zero.
Trim_Terminator(buf, count) ==
    IF buf # <<>> /\ count > BufferSize
    THEN [buf |-> Tail(buf), count |-> count - Head(buf).text - 1]
    ELSE [buf |-> buf, count |-> count]

\* The oldest elements are dropped until the count fits; an empty list resets it.
Trim(buf, count) ==
    LET Left(n) == count - Sums(buf)[n]
        n == CHOOSE k \in 0 .. Len(buf) :
                /\ k = Len(buf) \/ Left(k) <= BufferSize
                /\ \A j \in 0 .. k - 1 : Left(j) > BufferSize
    IN [buf |-> SubSeq(buf, n + 1, Len(buf)),
        count |-> IF n = Len(buf) THEN 0 ELSE Left(n)]

-------------------------------------------------------------------------------
(* The reader *)

RLoop ==
    /\ rt.pc = "loop"
    /\ RGo(IF rt.stop THEN "exit" ELSE "sleep")
    /\ UNCHANGED <<wt, ctl, sockVars, bufVars, data, copied, envVars, chunks,
                   last>>

\* sleep(timeout), which tests m_stop, and the search for a remote endpoint with
\* a certificate.
RSleep ==
    /\ rt.pc = "sleep"
    /\ \/ rt.stop /\ RGo("exit") /\ UNCHANGED mp_local_socket
       \/ ~rt.stop /\ certified = {} /\ RGo("loop") /\ UNCHANGED mp_local_socket
       \/ ~rt.stop /\ certified # {} /\ RGo("local") /\ mp_local_socket' = "closed"
    /\ UNCHANGED <<wt, ctl, mp_remote_socket, todo, bufVars, data, copied,
                   envVars, chunks, last>>

\* The local endpoints are tried in turn; ASSERTE throws when none answers.
RConnect ==
    /\ rt.pc = "local"
    /\ \/ /\ mp_local_socket' = "open"
          /\ RGo(IF m_use_buffer THEN "writer" ELSE "dial")
          /\ mp_remote_socket' = IF m_use_buffer THEN mp_remote_socket ELSE "closed"
          /\ todo' = IF m_use_buffer THEN todo ELSE Remotes
          /\ UNCHANGED data
       \/ RThrow("loop") /\ UNCHANGED todo
    /\ UNCHANGED <<wt, ctl, bufVars, copied, envVars, chunks, last>>

\* m_thread_write.start asserts that the writer is not joinable.
RStartWriter ==
    /\ rt.pc = "writer"
    /\ IF wt.joinable
       THEN RThrow("loop") /\ UNCHANGED wt
       ELSE /\ wt' = [pc |-> "loop", joinable |-> TRUE, stop |-> FALSE]
            /\ RGo("check")
            /\ UNCHANGED <<mp_local_socket, mp_remote_socket, data>>
    /\ UNCHANGED <<ctl, todo, bufVars, copied, envVars, chunks, last>>

\* Fault: the element is put in front of those that wait.
Pushed_Front(buf, e) == <<e>> \o buf

Pushed(buf, e) == Append(buf, e)

\* The condition of the loops that read.
RCheck ==
    /\ rt.pc = "check"
    /\ IF rt.stop
       THEN RThrow("exit")
       ELSE RGo("read") /\ UNCHANGED <<mp_local_socket, mp_remote_socket, data>>
    /\ UNCHANGED <<wt, ctl, todo, bufVars, copied, envVars, chunks, last>>

\* read_some returns len bytes, text of them before the first zero byte.  With a
\* buffer the text is appended and the writer notified; without one the chunk
\* goes through the plugin's filter.
RRead(len, text) ==
    /\ rt.pc = "read" /\ mp_local_socket = "open"
    /\ chunks < MaxChunks /\ chunks' = chunks + 1
    /\ IF m_use_buffer
       THEN LET t == Trim(m_buffer, m_buffer_count)
            IN /\ m_buffer' = Pushed(t.buf, [id |-> chunks + 1, text |-> text])
               /\ m_buffer_count' = t.count + len
               /\ wt' = Notified(wt)
               /\ RGo("check") /\ UNCHANGED data
       ELSE /\ \/ RGo("send") /\ data' = [id |-> chunks + 1, text |-> len]
               \/ RGo("check") /\ UNCHANGED data
            /\ UNCHANGED <<wt, bufVars>>
    /\ UNCHANGED <<ctl, sockVars, copied, envVars, last>>

\* read_some fails: the connection is lost or shut down.
RReadFails ==
    /\ rt.pc = "read" /\ mp_local_socket = "lost" /\ RThrow("loop")
    /\ UNCHANGED <<wt, ctl, todo, bufVars, copied, envVars, chunks, last>>

\* unlock(): interrupt() with the local pointer null.  get_socket_lower takes
\* the remote pointer by value, before it locks m_mutex_base.
RUnlock ==
    /\ rt.pc = "unlock" /\ RGo("unlocking")
    /\ copied' = [copied EXCEPT !["reader"] = mp_remote_socket # "null"]
    /\ UNCHANGED <<wt, ctl, sockVars, bufVars, data, envVars, chunks,
                   last>>

RUnlocked ==
    /\ rt.pc = "unlocking" /\ RGo(rt.next)
    /\ mp_remote_socket' = IF copied["reader"] THEN Shut(mp_remote_socket)
                                               ELSE mp_remote_socket
    /\ copied' = [copied EXCEPT !["reader"] = FALSE]
    /\ UNCHANGED <<wt, ctl, mp_local_socket, todo, bufVars, data,
                   envVars, chunks, last>>

-------------------------------------------------------------------------------
(* connect_remote and the write, by the reader without a buffer *)

\* check_run of the writer's thread object, then an untried endpoint: without a
\* certificate or an answer it is skipped.  When all were tried ASSERTE throws.
RDial ==
    /\ rt.pc = "dial"
    /\ \/ /\ wt.stop /\ todo # {} /\ RThrow("exit") /\ UNCHANGED todo
       \/ /\ todo = {} /\ RThrow("loop") /\ UNCHANGED todo
       \/ /\ ~wt.stop
          /\ \E e \in todo :
                \/ todo' = todo \ {e} /\ UNCHANGED <<rt, mp_remote_socket>>
                \/ /\ e \in certified /\ todo' = {}
                   /\ RGo("handshake") /\ mp_remote_socket' = "open"
          /\ UNCHANGED <<mp_local_socket, data>>
    /\ UNCHANGED <<wt, ctl, bufVars, copied, envVars, chunks, last>>

\* The synchronous handshake has no time limit: it waits for a peer that is mute.
RHandshake ==
    /\ rt.pc = "handshake" /\ mp_remote_socket # "mute"
    /\ \/ mp_remote_socket = "open" /\ RGo("check")
          /\ UNCHANGED <<mp_local_socket, mp_remote_socket, data>>
       \/ RThrow("loop")
    /\ UNCHANGED <<wt, ctl, todo, bufVars, copied, envVars, chunks, last>>

\* write_some sends some of the bytes of the chunk, or throws; it waits while the
\* peer takes nothing.
RSend ==
    /\ rt.pc = "send" /\ mp_remote_socket # "mute"
    /\ \/ /\ mp_remote_socket = "open" /\ RGo("check")
          /\ last' = data.id /\ data' = NoData
          /\ UNCHANGED <<mp_local_socket, mp_remote_socket>>
       \/ mp_remote_socket # "open" /\ RThrow("loop") /\ UNCHANGED last
    /\ UNCHANGED <<wt, ctl, todo, bufVars, copied, envVars, chunks>>

-------------------------------------------------------------------------------
(* The writer *)

\* check_run, the sleep after an exception, and a new socket.
WLoop ==
    /\ wt.pc \in {"loop", "sleep"}
    /\ IF wt.stop
       THEN WGo("exit") /\ UNCHANGED <<mp_remote_socket, todo>>
       ELSE WGo("dial") /\ mp_remote_socket' = "closed" /\ todo' = Remotes
    /\ UNCHANGED <<rt, ctl, mp_local_socket, bufVars, data, copied, envVars,
                   chunks, last>>

WDial ==
    /\ wt.pc = "dial"
    /\ \/ wt.stop /\ todo # {} /\ WThrow("exit") /\ UNCHANGED todo
       \/ todo = {} /\ WThrow("sleep") /\ UNCHANGED todo
       \/ /\ ~wt.stop
          /\ \E e \in todo :
                \/ todo' = todo \ {e} /\ UNCHANGED <<wt, mp_remote_socket>>
                \/ /\ e \in certified /\ todo' = {}
                   /\ WGo("handshake") /\ mp_remote_socket' = "open"
          /\ UNCHANGED data
    /\ UNCHANGED <<rt, ctl, mp_local_socket, bufVars, copied, envVars, chunks,
                   last>>

\* As in the reader: no time limit, and stop() does not shut this socket before it
\* has joined the writer.
WHandshake ==
    /\ wt.pc = "handshake" /\ mp_remote_socket # "mute"
    /\ \/ mp_remote_socket = "open" /\ WGo("check")
          /\ UNCHANGED <<mp_remote_socket, data>>
       \/ WThrow("sleep")
    /\ UNCHANGED <<rt, ctl, mp_local_socket, todo, bufVars, copied, envVars,
                   chunks, last>>

WCheck ==
    /\ wt.pc = "check"
    /\ IF wt.stop THEN WThrow("exit")
                  ELSE WGo("wait") /\ UNCHANGED <<mp_remote_socket, data>>
    /\ UNCHANGED <<rt, ctl, mp_local_socket, todo, bufVars, copied, envVars,
                   chunks, last>>

\* Fault: the wait has no timeout.
WWaitTimeout_Never == FALSE /\ UNCHANGED vars

\* wait_for times out after 60 s, whatever is in the list.
WWaitTimeout ==
    /\ wt.pc = "wait" /\ WGo("drain")
    /\ UNCHANGED <<rt, ctl, sockVars, bufVars, data, copied, envVars, chunks,
                   last>>

\* The oldest element is taken; m_buffer_count stays.  A string that is empty
\* ends the inner loop like an empty list; others pass through the filter.
WTake ==
    /\ wt.pc = "drain"
    /\ m_buffer' = IF m_buffer = <<>> THEN m_buffer ELSE Tail(m_buffer)
    /\ IF m_buffer = <<>> \/ Head(m_buffer).text = 0
       THEN WGo("check") /\ UNCHANGED data
       ELSE \/ WGo("send") /\ data' = Head(m_buffer)
            \/ UNCHANGED <<wt, data>>
    /\ UNCHANGED <<rt, ctl, sockVars, m_buffer_count, copied, envVars, chunks,
                   last>>

\* write_some sends some of the bytes of the element, or throws, or waits.
WSend ==
    /\ wt.pc = "send" /\ mp_remote_socket # "mute"
    /\ \/ /\ mp_remote_socket = "open" /\ WGo("drain")
          /\ last' = data.id /\ data' = NoData /\ UNCHANGED mp_remote_socket
       \/ mp_remote_socket # "open" /\ WThrow("sleep") /\ UNCHANGED last
    /\ UNCHANGED <<rt, ctl, mp_local_socket, todo, bufVars, copied, envVars,
                   chunks>>

-------------------------------------------------------------------------------
(* The control thread: BaseClient::set_active *)

\* start() unless is_running(): a thread that has ended but is joinable is either
\* taken for running or makes thread::start throw, and nothing changes.
CtlStart ==
    /\ ctl = "idle" /\ ~rt.joinable /\ starts < MaxStarts
    /\ starts' = starts + 1
    /\ rt' = [rt EXCEPT !.pc = "loop", !.joinable = TRUE, !.stop = FALSE]
    /\ UNCHANGED <<wt, ctl, sockVars, bufVars, data, copied, m_use_buffer,
                   certified, chunks, last>>

\* stop(): notify_one, then m_thread_write.stop().
CtlStop ==
    /\ ctl = "idle" /\ ctl' = "writer"
    /\ wt' = Notified(wt)
    /\ UNCHANGED <<rt, sockVars, bufVars, data, copied, envVars, chunks, last>>

\* m_stop, and interrupt_writer when there is a thread to join.
CtlStopWriter ==
    /\ ctl = "writer"
    /\ wt' = [Notified(wt) EXCEPT !.stop = TRUE]
    /\ ctl' = IF wt.joinable THEN "join_writer" ELSE "reader"
    /\ UNCHANGED <<rt, sockVars, bufVars, data, copied, envVars, chunks, last>>

\* Fault: the writer is detached instead of joined.
CtlJoinWriter_Detach ==
    /\ ctl = "join_writer" /\ ctl' = "reader"
    /\ wt' = [wt EXCEPT !.joinable = FALSE]
    /\ UNCHANGED <<rt, sockVars, bufVars, data, copied, envVars, chunks, last>>

CtlJoinWriter ==
    /\ ctl = "join_writer" /\ wt.pc = "exit" /\ ctl' = "reader"
    /\ wt' = [wt EXCEPT !.pc = "none", !.joinable = FALSE]
    /\ UNCHANGED <<rt, sockVars, bufVars, data, copied, envVars, chunks, last>>

\* m_thread.stop(): m_stop, and interrupt() with the pointer to the local socket
\* copied before the mutex is locked.
CtlStopReader ==
    /\ ctl = "reader"
    /\ rt' = [rt EXCEPT !.stop = TRUE]
    /\ ctl' = IF rt.joinable THEN "local" ELSE "idle"
    /\ copied' = [copied EXCEPT !["control"] = mp_local_socket # "null"]
    /\ UNCHANGED <<wt, sockVars, bufVars, data, envVars, chunks, last>>

\* Fault: the local socket is not shut down.
CtlShutLocal_Not ==
    /\ ctl = "local" /\ ctl' = "remote"
    /\ copied' = [copied EXCEPT !["control"] = mp_remote_socket # "null"]
    /\ UNCHANGED <<rt, wt, sockVars, bufVars, data, envVars, chunks,
                   last>>

\* shutdown of the local socket; then the pointer to the remote one is copied.
CtlShutLocal ==
    /\ ctl = "local" /\ ctl' = "remote"
    /\ mp_local_socket' = IF copied["control"] THEN Shut(mp_local_socket)
                                               ELSE mp_local_socket
    /\ copied' = [copied EXCEPT !["control"] = mp_remote_socket # "null"]
    /\ UNCHANGED <<rt, wt, mp_remote_socket, todo, bufVars, data, envVars,
                   chunks, last>>

CtlShutRemote ==
    /\ ctl = "remote" /\ ctl' = "join_reader"
    /\ mp_remote_socket' = IF copied["control"] THEN Shut(mp_remote_socket)
                                                ELSE mp_remote_socket
    /\ copied' = [copied EXCEPT !["control"] = FALSE]
    /\ UNCHANGED <<rt, wt, mp_local_socket, todo, bufVars, data, envVars,
                   chunks, last>>

CtlJoinReader ==
    /\ ctl = "join_reader" /\ rt.pc = "exit" /\ ctl' = "idle"
    /\ rt' = [rt EXCEPT !.pc = "none", !.joinable = FALSE]
    /\ UNCHANGED <<wt, sockVars, bufVars, data, copied, envVars, chunks, last>>

-------------------------------------------------------------------------------
(* The peers and the certificates *)

PeerLeaves ==
    /\ \/ mp_local_socket = "open" /\ mp_local_socket' = "lost"
          /\ UNCHANGED mp_remote_socket
       \/ mp_remote_socket \in {"open", "mute"} /\ mp_remote_socket' = "lost"
          /\ UNCHANGED mp_local_socket
    /\ UNCHANGED <<rt, wt, ctl, todo, bufVars, data, copied, envVars, chunks,
                   last>>

\* The remote proxy stops answering and reading, or goes on.
PeerPauses ==
    /\ \/ mp_remote_socket = "open" /\ mp_remote_socket' = "mute"
       \/ mp_remote_socket = "mute" /\ mp_remote_socket' = "open"
    /\ UNCHANGED <<rt, wt, ctl, mp_local_socket, todo, bufVars, data, copied,
                   envVars, chunks, last>>

\* global.certificate_available changes with the certificates that are exchanged.
CertificateArrives ==
    /\ \E e \in Remotes \ certified : certified' = certified \cup {e}
    /\ UNCHANGED <<rt, wt, ctl, sockVars, bufVars, data, copied, m_use_buffer,
                   starts, chunks, last>>

-------------------------------------------------------------------------------
RStep ==
    \/ RLoop \/ RSleep \/ RConnect \/ RStartWriter \/ RCheck \/ RReadFails
    \/ RUnlock \/ RUnlocked \/ RDial \/ RHandshake \/ RSend

WStep ==
    \/ WLoop \/ WDial \/ WHandshake \/ WCheck \/ WWaitTimeout \/ WTake \/ WSend

CtlStep ==
    \/ CtlStopWriter \/ CtlJoinWriter \/ CtlStopReader
    \/ CtlShutLocal \/ CtlShutRemote \/ CtlJoinReader

Next ==
    \/ RStep \/ WStep \/ CtlStep \/ CtlStart \/ CtlStop
    \/ (\E len \in 1 .. MaxLen : \E text \in 0 .. len : RRead(len, text))
    \/ PeerLeaves \/ PeerPauses \/ CertificateArrives

Spec == Init /\ [][Next]_vars

\* The threads are scheduled, a connect succeeds or fails, and the wait times out.
\* The data source need not send, the remote proxy need not answer or read, and
\* nobody need call set_active.
FairSpec == Spec /\ WF_vars(RStep) /\ WF_vars(WStep) /\ WF_vars(CtlStep)

-------------------------------------------------------------------------------
(* Properties *)

\* The list holds at most the configured size and one more chunk, although the
\* writer never reduces m_buffer_count, which has drifted away from the contents.
\* The count still covers the strings in the list: the subtraction of the size_t
\* in the trimming loop cannot wrap.
BufferBounded ==
    /\ Text(m_buffer) <= BufferSize + MaxLen
    /\ Text(m_buffer) <= m_buffer_count

\* What waits is newer than what was sent and in the order it was read, with the
\* element the writer holds in front: a chunk is written at most once and never
\* after a later one, whatever reconnects and restarts happen between.
StreamOrder ==
    LET held == IF data = NoData THEN <<>> ELSE <<data>>
        ids  == <<last>> \o [i \in 1 .. Len(held \o m_buffer) |->
                                (held \o m_buffer)[i].id]
    IN /\ \A i \in 1 .. Len(ids) - 1 : ids[i] < ids[i + 1]
       /\ ids[Len(ids)] <= chunks

\* The threads that stop() and the assertion in thread::start account for.  When
\* stop() has returned, the reader has ended and let go of the data source, and so
\* has the writer of the remote proxy: except for a writer that the reader started
\* after stop() had passed it, which runs on, not asked to stop, for the next stop()
\* to join.  And a reader that fills the list has a writer to empty it, until a
\* stop() joins that writer: a start() that throws because a writer is left over
\* does not leave the reader reading for nobody.
ThreadsAccounted ==
    /\ ctl = "idle" /\ ~rt.joinable =>
           /\ rt.pc = "none" /\ mp_local_socket = "null"
           /\ \/ wt.pc = "none" /\ ~wt.joinable /\ mp_remote_socket = "null"
              \/ m_use_buffer /\ wt.joinable /\ ~wt.stop
    /\ m_use_buffer /\ rt.pc \in {"check", "read"} =>
           wt.joinable \/ ctl \in {"reader", "local", "remote", "join_reader"}

\* The remote proxy does not stay mute for ever.  Nothing in the code ends a
\* handshake or a write_some that waits for it but the loss of the connection.
PeerAnswers == <>[](mp_remote_socket # "mute")

\* An element does not stay in the list of a connected writer, also when the
\* notification came before the wait or an empty string ended the inner loop, if
\* the remote proxy takes what is written to it.
ElementsLeave ==
    PeerAnswers =>
        \A i \in 1 .. MaxChunks :
            (\E k \in DOMAIN m_buffer : m_buffer[k].id = i) ~>
                \/ ~\E k \in DOMAIN m_buffer : m_buffer[k].id = i
                \/ wt.pc \notin {"check", "wait", "drain", "send"}

\* stop() returns, wherever the two threads are, if the remote proxy does not stay
\* mute: stop() joins the writer before it shuts the sockets down.
StopReturns == PeerAnswers => (ctl # "idle" ~> ctl = "idle")

===============================================================================
