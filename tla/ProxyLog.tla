------------------------------- MODULE ProxyLog -------------------------------
(***************************************************************************)
(* The log: the ring of lines of proxy_log (src/src/applutil.cpp), which   *)
(* every thread adds to, the polls of the status page that read it line by *)
(* line (proxy_app::logger_get), the read position each web session keeps  *)
(* in proxy_global, and the choice of the log file when the program starts.*)
(*                                                                         *)
(*   m_write_index, m_log   the next number, the numbers in the ring       *)
(*   m_logger_read_index    per session, 0 for one that is not known yet   *)
(*   poll       per worker: its session, the number it is at, and the      *)
(*              number it stops at                                         *)
(*   shown      numbers a session's page has received                      *)
(*   mixed      two requests of the session were answered at once          *)
(*   run, file, time   how often the program started; for each log file    *)
(*              the start that opened it last (0: never) and when          *)
(***************************************************************************)
EXTENDS Naturals, Sequences, FiniteSets

CONSTANTS Workers, Sessions,
          RingSize,      \* 50 in proxy_log::add
          Files,         \* 0 .. 9 in proxy_log::add
          MaxLines, MaxRuns

ASSUME LogAssumption ==
  /\ RingSize \in Nat \ {0}
  /\ Files \subseteq Nat /\ Files # {} /\ IsFiniteSet(Files)

VARIABLES m_write_index, m_log, m_logger_read_index, poll, shown, mixed, run, file, time

lines == <<m_write_index, m_log>>
pages == <<m_logger_read_index, shown, mixed>>
logfiles == <<run, file, time>>
logVars == <<lines, pages, poll, logfiles>>

NoPoll == [session |-> CHOOSE s \in Sessions : TRUE, at |-> 0, end |-> 0, on |-> FALSE]

LogInit ==
  /\ m_write_index = 0 /\ m_log = <<>>
  /\ m_logger_read_index = [s \in Sessions |-> 0]
  /\ poll = [w \in Workers |-> NoPoll]
  /\ shown = [s \in Sessions |-> {}]
  /\ mixed = [s \in Sessions |-> FALSE]
  /\ run = 1
  /\ file = [f \in Files |-> 0]
  /\ time = [f \in Files |-> 0]        \* 0: last_write_time of a missing file

\* Fault: the times are compared the wrong way round.
OldestFile_Newest ==
  CHOOSE f \in Files : \A g \in Files : time[f] > time[g] \/ (time[f] = time[g] /\ f <= g)

\* The lowest number among the files that were written the longest ago.
OldestFile ==
  CHOOSE f \in Files : \A g \in Files : time[f] < time[g] \/ (time[f] = time[g] /\ f <= g)

Dropped(ring) ==
  IF Len(ring) > RingSize THEN SubSeq(ring, Len(ring) - RingSize + 1, Len(ring)) ELSE ring

\* proxy_log::add, from any thread.
add ==
  /\ m_write_index < MaxLines
  /\ IF m_write_index = 0
     THEN file' = [file EXCEPT ![OldestFile] = run] /\ time' = [time EXCEPT ![OldestFile] = run]
     ELSE UNCHANGED <<file, time>>
  /\ m_log' = Dropped(Append(m_log, m_write_index))
  /\ m_write_index' = m_write_index + 1
  /\ UNCHANGED <<pages, poll, run>>

Polling(s) == \E w \in Workers : poll[w].on /\ poll[w].session = s

\* The session's position: the session is found by its id, or is new and at 0.
get_session_data(s) == m_logger_read_index[s]

\* logger_get: the number of lines first, then the session's position.
logger_get(w, s) ==
  /\ ~poll[w].on
  /\ poll' = [poll EXCEPT ![w] = [session |-> s, at |-> get_session_data(s),
                                  end |-> m_write_index, on |-> TRUE]]
  /\ mixed' = [mixed EXCEPT ![s] = @ \/ Polling(s)]
  /\ UNCHANGED <<lines, m_logger_read_index, shown, logfiles>>

\* proxy_log::get: a line that left the ring comes back empty and is skipped.
get(w) ==
  LET p == poll[w]
  IN  /\ p.on /\ p.at < p.end
      /\ shown' = [shown EXCEPT ![p.session] =
                     IF \E k \in DOMAIN m_log : m_log[k] = p.at THEN @ \cup {p.at} ELSE @]
      /\ poll' = [poll EXCEPT ![w].at = @ + 1]
      /\ UNCHANGED <<lines, m_logger_read_index, mixed, logfiles>>

\* Fault: the position is set to what has been written by now.
Position_Now(p) == m_write_index

Position(p) == p.end

LoggerGot(w) ==
  /\ poll[w].on /\ poll[w].at >= poll[w].end
  /\ m_logger_read_index' = [m_logger_read_index EXCEPT ![poll[w].session] = Position(poll[w])]
  /\ poll' = [poll EXCEPT ![w] = NoPoll]
  /\ UNCHANGED <<lines, shown, mixed, logfiles>>

\* index(): a new page starts from line 0.
index(s) ==
  /\ m_logger_read_index' = [m_logger_read_index EXCEPT ![s] = 0]
  /\ shown' = [shown EXCEPT ![s] = {}]
  /\ mixed' = [mixed EXCEPT ![s] = Polling(s)]
  /\ UNCHANGED <<lines, poll, logfiles>>

\* The process ends and is started again: lines and sessions are gone, the
\* files and the pages stay.  log().clear() of a reload changes nothing.
Restart ==
  /\ run < MaxRuns /\ m_write_index > 0
  /\ run' = run + 1
  /\ m_write_index' = 0 /\ m_log' = <<>>
  /\ m_logger_read_index' = [s \in Sessions |-> 0]
  /\ poll' = [w \in Workers |-> NoPoll]
  /\ shown' = [s \in Sessions |-> {}]
  /\ mixed' = [s \in Sessions |-> FALSE]
  /\ UNCHANGED <<file, time>>

LogNext ==
  \/ add
  \/ \E s \in Sessions : index(s)
  \/ \E w \in Workers : get(w) \/ LoggerGot(w) \/ \E s \in Sessions : logger_get(w, s)

------------------------------------------------------------------------------
(* Properties *)

\* Type invariant of the log.
LogTypeOK ==
  /\ m_write_index \in 0 .. MaxLines /\ Len(m_log) <= RingSize
  /\ m_logger_read_index \in [Sessions -> 0 .. MaxLines]
  /\ \A s \in Sessions : shown[s] \subseteq 0 .. MaxLines - 1
  /\ file \in [Files -> 0 .. MaxRuns]

\* What a page has polled past it has shown, unless the line left the ring
\* before the poll reached it: no line that is still held is ever skipped,
\* however many are added during a poll (logger_get reads without a lock over
\* the loop); and what is still to be polled has not been shown, so that no line
\* is sent twice.  Claimed for a session whose requests come one at a time.
LinesOnce ==
  \A s \in Sessions : ~mixed[s] /\ ~Polling(s) =>
    /\ \A k \in DOMAIN m_log : m_log[k] < m_logger_read_index[s] => m_log[k] \in shown[s]
    /\ \A n \in shown[s] : n < m_logger_read_index[s]

\* The log files of the last starts survive: a start overwrites the oldest
\* (proxy_log::add).  The starts are a second or more apart, the resolution of
\* last_write_time.
RecentFilesKept ==
  m_write_index > 0 =>
    \A r \in 1 .. run : run - r < Cardinality(Files) => \E f \in Files : file[f] = r
==============================================================================
