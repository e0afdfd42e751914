----------------------------- MODULE Startup_proof -----------------------------
(***************************************************************************)
(* Proofs about the start of the program, the process it runs and its log, *)
(* for every size of the pipes, the ring and the set of log files.         *)
(***************************************************************************)
EXTENDS Startup, FiniteSetTheorems, SequenceTheorems, WellFoundedInduction, TLAPS

(* The firewall rule *)

\* The calls of each helper function, with the end of the function.
InitializeSteps == DOMAIN InitializeCalls \cup {"initError"}
AppIsEnabledSteps == DOMAIN AppIsEnabledCalls \cup {"Item", "getEnabled", "queryError"}
AddAppSteps == DOMAIN AddAppCalls \cup {"Add", "addError"}

\* What EnableFirewallRule holds at each call, whether the chain failed before it
\* or not, and how it knows at its end that the program's entry is enabled.
FirewallInv ==
  /\ fw \in InitializeSteps \cup AppIsEnabledSteps \cup AddAppSteps
            \cup {"CoInitializeEx", "cleanup", "return", "off"}
  /\ failed \in BOOLEAN /\ listed \in BOOLEAN /\ result \in BOOLEAN
  /\ fw \in InitializeSteps => held \subseteq {"fwMgr", "fwPolicy", "fwProfile"}
  /\ fw \in AppIsEnabledSteps => held \subseteq {"fwProfile"} \cup queryReleases
  /\ fw \in AddAppSteps => held \subseteq {"fwProfile", "name", "path", "fwApp", "fwApps"}
  /\ fw \in {"CoInitializeEx", "off"} => held = {}
  /\ fw \in {"queryApps", "cleanup", "return"} => held \subseteq {"fwProfile"}
  /\ listed => rule = "enabled"
  /\ fw = "addError" => failed \/ rule = "enabled"
  /\ fw = "cleanup" => rule = "enabled"
  /\ result => fw = "return" /\ held = {} /\ comInit # "ok" /\ rule = "enabled"

\* Where a plain call leads, by function.
LEMMA Calls ==
  /\ DOMAIN Call = DOMAIN InitializeCalls \cup DOMAIN AppIsEnabledCalls
                   \cup DOMAIN AddAppCalls
  /\ \A c \in DOMAIN InitializeCalls :
       /\ Call[c].gets \subseteq {"fwMgr", "fwPolicy", "fwProfile"}
       /\ Call[c].next \in InitializeSteps
       /\ Call[c].label = "initError"
  /\ \A c \in DOMAIN AppIsEnabledCalls :
       /\ Call[c].gets \subseteq {"queryApps", "queryPath"}
       /\ Call[c].next \in AppIsEnabledSteps \ {"queryApps"}
       /\ Call[c].label = "queryError"
  /\ \A c \in DOMAIN AddAppCalls :
       /\ Call[c].gets \subseteq {"fwApps", "fwApp", "path", "name"}
       /\ Call[c].next \in AddAppSteps \ {"addError"}
       /\ Call[c].label = "addError"
<1>1. DOMAIN Call = DOMAIN InitializeCalls \cup DOMAIN AppIsEnabledCalls
                   \cup DOMAIN AddAppCalls
  BY DEF Call
<1>2. /\ \A c \in DOMAIN AppIsEnabledCalls : c \notin DOMAIN InitializeCalls
      /\ \A c \in DOMAIN AddAppCalls :
           c \notin DOMAIN InitializeCalls /\ c \notin DOMAIN AppIsEnabledCalls
  BY DEF InitializeCalls, AppIsEnabledCalls, AddAppCalls
<1>3. /\ \A c \in DOMAIN InitializeCalls : Call[c] = InitializeCalls[c]
      /\ \A c \in DOMAIN AppIsEnabledCalls : Call[c] = AppIsEnabledCalls[c]
      /\ \A c \in DOMAIN AddAppCalls : Call[c] = AddAppCalls[c]
  BY <1>2 DEF Call
<1>4. \A c \in DOMAIN InitializeCalls :
        /\ InitializeCalls[c].gets \subseteq {"fwMgr", "fwPolicy", "fwProfile"}
        /\ InitializeCalls[c].next \in InitializeSteps
        /\ InitializeCalls[c].label = "initError"
  BY DEF InitializeCalls, InitializeSteps
<1>5. \A c \in DOMAIN AppIsEnabledCalls :
        /\ AppIsEnabledCalls[c].gets \subseteq {"queryApps", "queryPath"}
        /\ AppIsEnabledCalls[c].next \in AppIsEnabledSteps \ {"queryApps"}
        /\ AppIsEnabledCalls[c].label = "queryError"
  BY DEF AppIsEnabledCalls, AppIsEnabledSteps
<1>6. \A c \in DOMAIN AddAppCalls :
        /\ AddAppCalls[c].gets \subseteq {"fwApps", "fwApp", "path", "name"}
        /\ AddAppCalls[c].next \in AddAppSteps \ {"addError"}
        /\ AddAppCalls[c].label = "addError"
  BY DEF AddAppCalls, AddAppSteps
<1> QED
  BY <1>1, <1>2, <1>3, <1>4, <1>5, <1>6, Zenon


\* The steps of three functions share no name.
LEMMA StepNames ==
  /\ InitializeSteps = {"createMgr", "getPolicy", "getProfile", "initError"}
  /\ AppIsEnabledSteps = {"queryApps", "queryPath", "Item", "getEnabled", "queryError"}
  /\ AddAppSteps = {"getApps", "createApp", "allocPath", "putPath", "allocName",
                    "putName", "Add", "addError"}
BY DEF InitializeSteps, AppIsEnabledSteps, AddAppSteps, InitializeCalls,
   AppIsEnabledCalls, AddAppCalls

\* main() calls EnableFirewallRule with nothing held.
LEMMA FirewallInit == FwInit => FirewallInv
BY StepNames DEF FwInit, AtStart, FirewallInv

\* Every COM call, whether it succeeds or fails, and every release keeps the
\* account of what is held.
LEMMA FirewallStep ==
  FirewallInv /\ (FwNext \/ FwRestart \/ UNCHANGED fwVars) => FirewallInv'
<1> SUFFICES ASSUME FirewallInv, FwNext \/ FwRestart \/ UNCHANGED fwVars
             PROVE  FirewallInv'
  OBVIOUS
<1> USE StepNames DEF FirewallInv, queryReleases
<1>1. CASE CoInitializeEx BY <1>1 DEF CoInitializeEx
<1>2. CASE Succeeds
  <2>1. CASE fw \in DOMAIN InitializeCalls
    BY <1>2, <2>1, Calls DEF Succeeds, InitializeSteps
  <2>2. CASE fw \in DOMAIN AppIsEnabledCalls
    BY <1>2, <2>2, Calls DEF Succeeds, AppIsEnabledSteps
  <2>3. CASE fw \in DOMAIN AddAppCalls
    BY <1>2, <2>3, Calls DEF Succeeds, AddAppSteps
  <2> QED BY <1>2, <2>1, <2>2, <2>3, Calls DEF Succeeds
<1>3. CASE Fails
  <2>1. CASE fw \in DOMAIN InitializeCalls
    BY <1>3, <2>1, Calls DEF Fails, InitializeSteps
  <2>2. CASE fw \in DOMAIN AppIsEnabledCalls
    BY <1>3, <2>2, Calls DEF Fails, AppIsEnabledSteps
  <2>3. CASE fw \in DOMAIN AddAppCalls
    BY <1>3, <2>3, Calls DEF Fails, AddAppSteps
  <2> QED BY <1>3, <2>1, <2>2, <2>3, Calls DEF Fails
<1>4. CASE Item BY <1>4 DEF Item
<1>5. CASE getEnabled
  <2>1. CASE listed' = (rule = "enabled") /\ UNCHANGED failed
    <3>1. listed' \in BOOLEAN
      BY <2>1
    <3>2. listed' => rule = "enabled"
      BY <2>1
    <3> QED BY <1>5, <2>1, <3>1, <3>2 DEF getEnabled
  <2>2. CASE failed' = TRUE /\ UNCHANGED listed
    BY <1>5, <2>2 DEF getEnabled
  <2> QED BY <1>5, <2>1, <2>2 DEF getEnabled
<1>6. CASE Add BY <1>6 DEF Add
<1>7. CASE initError BY <1>7 DEF initError
<1>8. CASE queryError BY <1>8 DEF queryError
<1>9. CASE addError BY <1>9 DEF addError, AddResult
<1>10. CASE WindowsFirewallCleanup BY <1>10 DEF WindowsFirewallCleanup
<1>11. CASE Returned BY <1>11 DEF Returned
<1>12. CASE FwRestart BY <1>12 DEF FwRestart
<1>13. CASE UNCHANGED fwVars BY <1>13 DEF fwVars
<1> QED BY <1>1, <1>2, <1>3, <1>4, <1>5, <1>6, <1>7, <1>8, <1>9, <1>10, <1>11,
           <1>12, <1>13 DEF FwNext

\* A step of the program is a step of the firewall code or leaves it alone.
LEMMA FirewallPart == [Next]_vars => FwNext \/ FwRestart \/ UNCHANGED fwVars
BY DEF Next, vars

\* RuleOutcome, whichever of the COM calls fail, over any number of starts.
THEOREM FirewallOutcome == Spec => []RuleOutcome
<1>1. FirewallInv => RuleOutcome
  BY DEF FirewallInv, RuleOutcome
<1>2. Init => FirewallInv
  BY FirewallInit DEF Init
<1>3. FirewallInv /\ [Next]_vars => FirewallInv'
  BY FirewallStep, FirewallPart
<1> QED
  BY <1>1, <1>2, <1>3, PTL DEF Spec

-------------------------------------------------------------------------------
(* The process that is run *)

\* The pipes hold lines, which are empty or not.
PipeType == pipe \in [Streams -> Seq(BOOLEAN)]

\* Every line the child writes is in a pipe, was read, or is still to come, and
\* the caller leaves the output of a child that goes on writing only at an empty
\* line.
ProcessInv ==
  /\ PipeType
  /\ exec \in Streams \cup {"none", "wait", "done"}
  /\ child \in Streams \cup {"choose", "exited"}
  /\ total \in [Streams -> Nat] /\ left \in [Streams -> Nat]
  /\ cut \in BOOLEAN
  /\ \A s \in Streams : Len(pipe[s]) + left[s] <= total[s]
  /\ \A s \in Streams : child = s => left[s] > 0
  /\ exec \in {"none", "done"} => child = "exited" /\ \A s \in Streams : pipe[s] = <<>>
  /\ exec \in {"err", "wait"} => child = "exited" \/ cut

\* The output is read first, then the errors, then the end of the child is awaited.
LEMMA ReadOrder == After("out") = "err" /\ After("err") = "wait"
BY DEF After, First, Streams

\* A pipe without a line.
LEMMA EmptyPipe == <<>> \in Seq(BOOLEAN) /\ Len(<<>>) = 0
OBVIOUS

\* A pipe from which getline has taken a line.
LEMMA ReadLine ==
  ASSUME NEW S, NEW q \in Seq(S), q # <<>>
  PROVE  Tail(q) \in Seq(S) /\ Len(Tail(q)) + 1 = Len(q)
OBVIOUS

\* A pipe to which the child has written a line.
LEMMA WriteLine ==
  ASSUME NEW S, NEW q \in Seq(S), NEW x \in S
  PROVE  Append(q, x) \in Seq(S) /\ Len(Append(q, x)) = Len(q) + 1
OBVIOUS

\* No process runs when the program starts.
LEMMA ProcessInit == ProcInit => ProcessInv
<1> SUFFICES ASSUME ProcInit PROVE ProcessInv
  OBVIOUS
<1>1. PipeType /\ \A s \in Streams : pipe[s] = <<>> /\ Len(pipe[s]) = 0
  BY EmptyPipe, Zenon DEF ProcInit, PipeType
<1>2. /\ total \in [Streams -> Nat] /\ left \in [Streams -> Nat]
      /\ \A s \in Streams : left[s] = 0 /\ total[s] = 0
  BY DEF ProcInit
<1>3. exec = "none" /\ child = "exited" /\ cut \in BOOLEAN /\ ~cut
  BY DEF ProcInit
<1> QED
  BY <1>1, <1>2, <1>3 DEF ProcessInv, Streams

\* Every step of the caller and of the child keeps the account of the lines.
LEMMA ProcessStep ==
  ProcessInv /\ (ProcNext \/ ProcRestart \/ UNCHANGED procVars) => ProcessInv'
<1> SUFFICES ASSUME ProcessInv, ProcNext \/ ProcRestart \/ UNCHANGED procVars
             PROVE  ProcessInv'
  OBVIOUS
<1> USE DEF ProcessInv, Streams
<1>1. CASE Spawn
  <2>1. PipeType' /\ \A s \in Streams : Len(pipe'[s]) = 0
    BY <1>1 DEF Spawn, PipeType
  <2> QED BY <1>1, <2>1, ProcessAssumption DEF Spawn, First
<1>2. CASE NotNeeded BY <1>2 DEF NotNeeded, PipeType
<1>3. CASE Wait
  <2>1. PipeType' /\ \A s \in Streams : pipe'[s] = <<>> /\ Len(pipe'[s]) = 0
    BY <1>3, EmptyPipe, Zenon DEF Wait, PipeType
  <2>2. /\ total' \in [Streams -> Nat] /\ left' \in [Streams -> Nat]
        /\ \A s \in Streams : left'[s] = 0 /\ total'[s] = 0
    BY <1>3 DEF Wait
  <2>3. exec' = "done" /\ child' = "exited" /\ cut' \in BOOLEAN /\ ~cut'
    BY <1>3 DEF Wait
  <2> QED BY <2>1, <2>2, <2>3
<1>4. CASE ChildChooses BY <1>4 DEF ChildChooses, PipeType
<1>5. ASSUME NEW s \in Streams, GetLine(s) PROVE ProcessInv'
  <2>1. PipeType' /\ \A t \in Streams : Len(pipe'[t]) <= Len(pipe[t])
    <3>1. pipe[s] \in Seq(BOOLEAN) /\ pipe[s] # <<>>
      BY <1>5 DEF GetLine, PipeType
    <3>2. Tail(pipe[s]) \in Seq(BOOLEAN) /\ Len(Tail(pipe[s])) + 1 = Len(pipe[s])
      BY <3>1, ReadLine, Zenon
    <3>3. pipe' = [pipe EXCEPT ![s] = Tail(pipe[s])]
      BY <1>5 DEF GetLine
    <3>4. PipeType'
      BY <3>2, <3>3, Zenon DEF PipeType
    <3>5. \A t \in Streams : Len(pipe[t]) \in Nat
      BY DEF PipeType
    <3> QED BY <3>2, <3>3, <3>4, <3>5 DEF PipeType
  <2>2. cut' \in BOOLEAN /\ (cut => cut')
    BY <1>5, Zenon DEF GetLine
  <2>3. exec' = s \/ exec' = After(s)
    BY <1>5 DEF GetLine
  <2>4. s = "out" /\ exec' # "out" => cut'
    BY <1>5 DEF GetLine
  <2>5. exec = s /\ UNCHANGED <<total, left, child>>
    BY <1>5 DEF GetLine
  <2> QED BY <2>1, <2>2, <2>3, <2>4, <2>5, ReadOrder, SMTT(30)
<1>6. ASSUME NEW s \in Streams, EndOfStream(s) PROVE ProcessInv'
  BY <1>6, ReadOrder DEF EndOfStream, PipeType
<1>7. ASSUME NEW s \in Streams, ChildWrites(s) PROVE ProcessInv'
  <2>1. /\ PipeType'
        /\ \A t \in Streams : Len(pipe'[t]) = IF t = s THEN Len(pipe[t]) + 1 ELSE Len(pipe[t])
    <3>1. PICK text \in BOOLEAN : pipe' = [pipe EXCEPT ![s] = Append(pipe[s], text)]
      BY <1>7 DEF ChildWrites
    <3>2. /\ Append(pipe[s], text) \in Seq(BOOLEAN)
          /\ Len(Append(pipe[s], text)) = Len(pipe[s]) + 1
      BY WriteLine, Zenon DEF PipeType
    <3>3. PipeType'
      BY <3>1, <3>2, Zenon DEF PipeType
    <3> QED BY <3>1, <3>2, <3>3 DEF PipeType
  <2> QED BY <1>7, <2>1, SMTT(30) DEF ChildWrites
<1>8. CASE ProcRestart BY <1>8 DEF ProcRestart, PipeType
<1>9. CASE UNCHANGED procVars BY <1>9 DEF procVars, PipeType
<1> QED BY <1>1, <1>2, <1>3, <1>4, <1>5, <1>6, <1>7, <1>8, <1>9 DEF ProcNext

\* NoPipeDeadlock, for every size of the pipes and every amount of output.
THEOREM PipesDrained == Spec => []NoPipeDeadlock
<1>1. ProcessInv => NoPipeDeadlock
  BY ProcessAssumption DEF ProcessInv, NoPipeDeadlock, Stuck, Streams
<1>2. Init => ProcessInv
  BY ProcessInit DEF Init
<1>3. [Next]_vars => ProcNext \/ ProcRestart \/ UNCHANGED procVars
  BY DEF Next, vars
<1>4. ProcessInv /\ [Next]_vars => ProcessInv'
  BY <1>3, ProcessStep
<1> QED
  BY <1>1, <1>2, <1>4, PTL DEF Spec

-------------------------------------------------------------------------------
(* The lines of the log *)

Poll == [session : Sessions \cup {NoPoll.session}, at : Nat, end : Nat, on : BOOLEAN]

\* The types of the ring, of the read positions and of the polls.
LinesType ==
  /\ m_write_index \in Nat
  /\ m_log \in Seq(Nat)
  /\ m_logger_read_index \in [Sessions -> Nat]
  /\ poll \in [Workers -> Poll]
  /\ shown \in [Sessions -> SUBSET Nat]
  /\ mixed \in [Sessions -> BOOLEAN]

\* The page of session s has shown the lines below number n that the ring still
\* holds, and none from n on.
ShownUpTo(s, n) ==
  /\ \A k \in DOMAIN m_log : m_log[k] < n => m_log[k] \in shown[s]
  /\ \A x \in shown[s] : x < n

\* A poll reads upwards from the session's position to the end it found, below what
\* is written; the page has shown what its one poll has passed.
PollInv(w) ==
  poll[w].on =>
    /\ poll[w].session \in Sessions
    /\ poll[w].at <= poll[w].end /\ poll[w].end <= m_write_index
    /\ ~mixed[poll[w].session] =>
         /\ ShownUpTo(poll[w].session, poll[w].at)
         /\ \A v \in Workers : poll[v].on /\ poll[v].session = poll[w].session => v = w

\* A page that is not polling has shown what its position has passed.
PageInv(s) == ~mixed[s] /\ ~Polling(s) => ShownUpTo(s, m_logger_read_index[s])

LinesInv ==
  /\ \A k \in DOMAIN m_log : m_log[k] < m_write_index
  /\ \A s \in Sessions : m_logger_read_index[s] <= m_write_index
  /\ \A w \in Workers : PollInv(w)
  /\ \A s \in Sessions : PageInv(s)

\* What leaves the front of the ring leaves it for good: the ring holds nothing that
\* was not written to it.
LEMMA DroppedLines ==
  ASSUME NEW ring \in Seq(Nat)
  PROVE  /\ Dropped(ring) \in Seq(Nat)
         /\ \A k \in DOMAIN Dropped(ring) : \E j \in DOMAIN ring : Dropped(ring)[k] = ring[j]
<1>1. Len(ring) \in Nat /\ DOMAIN ring = 1 .. Len(ring)
  OBVIOUS
<1>2. CASE Len(ring) > RingSize
  <2> DEFINE m == Len(ring) - RingSize + 1
             n == Len(ring)
  <2>1. m \in 1 .. n /\ n \in Nat /\ n - m + 1 = RingSize
    BY <1>1, <1>2, LogAssumption
  <2>2. \A i \in m .. n : ring[i] \in Nat
    BY <1>1, <2>1
  <2>3. Dropped(ring) = SubSeq(ring, m, n)
    BY <1>2 DEF Dropped
  <2> HIDE DEF m, n
  <2>4. /\ SubSeq(ring, m, n) \in Seq(Nat)
        /\ Len(SubSeq(ring, m, n)) = n - m + 1
        /\ \A i \in 1 .. n - m + 1 : SubSeq(ring, m, n)[i] = ring[m + i - 1]
    BY <2>1, <2>2, SubSeqProperties
  <2>5. \A i \in 1 .. n - m + 1 : m + i - 1 \in 1 .. n
    BY <2>1
  <2>6. DOMAIN SubSeq(ring, m, n) = 1 .. n - m + 1
    BY <2>4
  <2>7. DOMAIN ring = 1 .. n
    BY <1>1 DEF n
  <2> QED BY <2>3, <2>4, <2>5, <2>6, <2>7
<1>3. CASE ~(Len(ring) > RingSize)
  BY <1>3 DEF Dropped
<1> QED BY <1>2, <1>3

\* The ring after proxy_log::add: old lines, and the new one.
LEMMA AddedLines ==
  ASSUME NEW ring \in Seq(Nat), NEW n \in Nat
  PROVE  LET new == Dropped(Append(ring, n))
         IN  /\ new \in Seq(Nat)
             /\ \A k \in DOMAIN new :
                  new[k] = n \/ \E j \in DOMAIN ring : new[k] = ring[j]
<1>1. Append(ring, n) \in Seq(Nat)
  OBVIOUS
<1>2. \A j \in DOMAIN Append(ring, n) :
         \/ Append(ring, n)[j] = n
         \/ j \in DOMAIN ring /\ Append(ring, n)[j] = ring[j]
  <2>1. DOMAIN Append(ring, n) = 1 .. Len(ring) + 1 /\ DOMAIN ring = 1 .. Len(ring)
    BY <1>1, AppendProperties, LenProperties
  <2>2. /\ \A j \in 1 .. Len(ring) : Append(ring, n)[j] = ring[j]
        /\ Append(ring, n)[Len(ring) + 1] = n
    BY AppendProperties
  <2>3. Len(ring) \in Nat
    OBVIOUS
  <2> SUFFICES ASSUME NEW j \in DOMAIN Append(ring, n)
               PROVE  \/ Append(ring, n)[j] = n
                      \/ j \in DOMAIN ring /\ Append(ring, n)[j] = ring[j]
    OBVIOUS
  <2>4. CASE j \in 1 .. Len(ring)
    BY <2>1, <2>2, <2>4, Zenon
  <2>5. CASE j = Len(ring) + 1
    BY <2>2, <2>5, Zenon
  <2> QED BY <2>1, <2>3, <2>4, <2>5
<1>3. /\ Dropped(Append(ring, n)) \in Seq(Nat)
      /\ \A k \in DOMAIN Dropped(Append(ring, n)) : \E j \in DOMAIN Append(ring, n) :
             Dropped(Append(ring, n))[k] = Append(ring, n)[j]
  BY <1>1, DroppedLines, Zenon
<1> QED
  BY <1>2, <1>3, Zenon

\* The log is empty and no page polls it when the program starts.
LEMMA LinesInit == LogInit => LinesType /\ LinesInv
<1> SUFFICES ASSUME LogInit PROVE LinesType /\ LinesInv
  OBVIOUS
<1>1. NoPoll \in Poll /\ ~NoPoll.on
  BY DEF NoPoll, Poll
<1>2. m_log \in Seq(Nat) /\ DOMAIN m_log = {}
  BY DEF LogInit
<1>3. LinesType
  BY <1>1, <1>2 DEF LogInit, LinesType
<1>4. LinesInv
  BY <1>1, <1>2 DEF LogInit, LinesInv, PollInv, PageInv, ShownUpTo
<1> QED BY <1>3, <1>4

\* Adding lines, polling them, loading a page and restarting keep the types.
LEMMA LinesTypeStep ==
  LinesType /\ (LogNext \/ Restart \/ UNCHANGED logVars) => LinesType'
<1> SUFFICES ASSUME LinesType, LogNext \/ Restart \/ UNCHANGED logVars
             PROVE  LinesType'
  OBVIOUS
<1> USE DEF LinesType, lines, pages, logfiles
<1>1. CASE add
  <2>1. m_log' \in Seq(Nat)
    BY <1>1, AddedLines DEF add
  <2> QED BY <1>1, <2>1 DEF add
<1>2. ASSUME NEW s \in Sessions, index(s) PROVE LinesType'
  <2>1. mixed' \in [Sessions -> BOOLEAN]
    BY <1>2 DEF index, Polling
  <2> QED BY <1>2, <2>1 DEF index
<1>3. ASSUME NEW w \in Workers, get(w) PROVE LinesType'
  <2>1. poll' \in [Workers -> Poll]
    BY <1>3 DEF get, Poll
  <2>2. shown' \in [Sessions -> SUBSET Nat]
    BY <1>3 DEF get, Poll
  <2> QED BY <1>3, <2>1, <2>2 DEF get
<1>4. ASSUME NEW w \in Workers, LoggerGot(w) PROVE LinesType'
  <2>1. NoPoll \in Poll
    BY DEF NoPoll, Poll
  <2> QED BY <1>4, <2>1 DEF LoggerGot, Position, Poll
<1>5. ASSUME NEW w \in Workers, NEW s \in Sessions, logger_get(w, s) PROVE LinesType'
  <2>1. poll' \in [Workers -> Poll]
    BY <1>5 DEF logger_get, get_session_data, Poll
  <2>2. mixed' \in [Sessions -> BOOLEAN]
    BY <1>5 DEF logger_get, get_session_data, Polling
  <2> QED BY <1>5, <2>1, <2>2 DEF logger_get, get_session_data
<1>6. CASE Restart
  <2>1. NoPoll \in Poll
    BY DEF NoPoll, Poll
  <2> QED BY <1>6, <2>1 DEF Restart
<1>7. CASE UNCHANGED logVars
  BY <1>7 DEF logVars
<1> QED BY <1>1, <1>2, <1>3, <1>4, <1>5, <1>6, <1>7 DEF LogNext

\* Lines that are added during a poll, pages that are loaded during one, polls of
\* other sessions and restarts keep what each page has shown in step with its poll.
LEMMA LinesStep ==
  LinesType /\ LinesInv /\ (LogNext \/ Restart \/ UNCHANGED logVars) => LinesInv'
<1> SUFFICES ASSUME LinesType, LinesInv, LogNext \/ Restart \/ UNCHANGED logVars
             PROVE  LinesInv'
  OBVIOUS
<1> USE DEF LinesType, lines, pages, logfiles
<1>1. CASE add
  <2>1. /\ m_log' \in Seq(Nat)
        /\ \A k \in DOMAIN m_log' :
             \/ m_log'[k] = m_write_index
             \/ \E j \in DOMAIN m_log : m_log'[k] = m_log[j]
    BY <1>1, AddedLines DEF add
  <2>2. m_write_index' = m_write_index + 1 /\ UNCHANGED <<pages, poll>>
    BY <1>1 DEF add
  <2>3. \A j \in DOMAIN m_log : m_log[j] \in Nat /\ m_log[j] < m_write_index
    BY DEF LinesInv
  <2>4. ASSUME NEW k \in DOMAIN m_log' PROVE m_log'[k] < m_write_index'
    <3>1. CASE m_log'[k] = m_write_index BY <2>2, <3>1
    <3>2. CASE \E j \in DOMAIN m_log : m_log'[k] = m_log[j] BY <2>2, <2>3, <3>2
    <3> QED BY <2>1, <3>1, <3>2
  <2>5. ASSUME NEW s \in Sessions, NEW n \in Nat, n <= m_write_index, ShownUpTo(s, n)
        PROVE  ShownUpTo(s, n)'
    <3>1. ASSUME NEW k \in DOMAIN m_log', m_log'[k] < n PROVE m_log'[k] \in shown[s]
      <4>1. m_log'[k] # m_write_index BY <2>5, <3>1
      <4>2. PICK j \in DOMAIN m_log : m_log'[k] = m_log[j] BY <2>1, <4>1
      <4> QED BY <2>5, <3>1, <4>2 DEF ShownUpTo
    <3> QED BY <2>2, <2>5, <3>1 DEF ShownUpTo
  <2>6. \A w \in Workers : PollInv(w)'
    BY <2>2, <2>5 DEF LinesInv, PollInv, Poll
  <2>7. \A s \in Sessions : PageInv(s)'
    BY <2>2, <2>5 DEF LinesInv, PageInv, Polling
  <2> QED BY <2>2, <2>4, <2>6, <2>7 DEF LinesInv
<1>2. ASSUME NEW s \in Sessions, index(s) PROVE LinesInv'
  <2>1. ASSUME NEW t \in Sessions, NEW n \in Nat, t # s, ShownUpTo(t, n)
        PROVE  ShownUpTo(t, n)'
    BY <1>2, <2>1 DEF index, ShownUpTo
  <2>2. ShownUpTo(s, 0)'
    BY <1>2 DEF index, ShownUpTo
  <2>3. mixed'[s] = Polling(s) /\ \A t \in Sessions \ {s} : mixed'[t] = mixed[t]
    BY <1>2 DEF index
  <2>4. \A t \in Sessions : Polling(t)' <=> Polling(t)
    BY <1>2 DEF index, Polling
  <2>5. ASSUME NEW w \in Workers PROVE PollInv(w)'
    <3>1. CASE poll[w].on /\ poll[w].session = s
      <4>1. Polling(s) BY <3>1 DEF Polling
      <4> QED BY <1>2, <2>3, <3>1, <4>1 DEF index, LinesInv, PollInv
    <3>2. CASE ~(poll[w].on /\ poll[w].session = s)
      BY <1>2, <2>1, <2>3, <3>2 DEF index, LinesInv, PollInv, Poll
    <3> QED BY <3>1, <3>2
  <2>6. ASSUME NEW t \in Sessions PROVE PageInv(t)'
    BY <1>2, <2>1, <2>2, <2>3, <2>4 DEF index, LinesInv, PageInv
  <2> QED BY <1>2, <2>5, <2>6 DEF index, LinesInv
<1>3. ASSUME NEW w \in Workers, get(w) PROVE LinesInv'
  <2>a. PICK s, n : s = poll[w].session /\ n = poll[w].at
    OBVIOUS
  <2>1. /\ poll[w].on /\ n \in Nat /\ n < poll[w].end /\ s \in Sessions
        /\ poll[w].end \in Nat
    BY <1>3, <2>a DEF get, LinesInv, PollInv, Poll
  <2>2. \A v \in Workers :
          /\ poll'[v].on = poll[v].on /\ poll'[v].session = poll[v].session
          /\ poll'[v].end = poll[v].end
          /\ poll'[v].at = IF v = w THEN n + 1 ELSE poll[v].at
    BY <1>3, <2>a DEF get, Poll
  <2>3. UNCHANGED <<m_log, m_write_index, m_logger_read_index, mixed>>
    BY <1>3 DEF get
  <2>4. \A t \in Sessions \ {s} : shown'[t] = shown[t]
    BY <1>3, <2>a DEF get
  <2>5. shown'[s] = IF \E k \in DOMAIN m_log : m_log[k] = n
                    THEN shown[s] \cup {n} ELSE shown[s]
    BY <1>3, <2>a, <2>1 DEF get
  <2>6. ASSUME NEW t \in Sessions \ {s}, NEW m \in Nat, ShownUpTo(t, m)
        PROVE  ShownUpTo(t, m)'
    BY <2>3, <2>4, <2>6 DEF ShownUpTo
  <2>7. ShownUpTo(s, n) => ShownUpTo(s, n + 1)'
    <3> SUFFICES ASSUME ShownUpTo(s, n) PROVE ShownUpTo(s, n + 1)'
      OBVIOUS
    <3>1. ASSUME NEW k \in DOMAIN m_log, m_log[k] < n + 1 PROVE m_log[k] \in shown'[s]
      <4>1. m_log[k] \in Nat OBVIOUS
      <4>2. CASE m_log[k] = n BY <2>5, <4>2
      <4>3. CASE m_log[k] < n BY <2>5, <4>3 DEF ShownUpTo
      <4> QED BY <2>1, <3>1, <4>1, <4>2, <4>3
    <3>2. ASSUME NEW x \in shown'[s] PROVE x < n + 1
      <4>1. x \in shown[s] \/ x = n BY <2>5
      <4>2. \A y \in shown[s] : y \in Nat /\ y < n BY <2>1 DEF ShownUpTo
      <4> QED BY <2>1, <4>1, <4>2
    <3> QED BY <2>3, <3>1, <3>2 DEF ShownUpTo
  <2>8. ASSUME NEW v \in Workers PROVE PollInv(v)'
    <3>1. CASE v = w
      <4>1. ShownUpTo(poll[w].session, poll[w].at)' <=> ShownUpTo(s, n + 1)'
        BY <2>a, <2>2 DEF ShownUpTo
      <4>2. n + 1 <= poll[w].end
        BY <2>1
      <4> QED BY <2>a, <2>1, <2>2, <2>3, <2>7, <3>1, <4>1, <4>2 DEF LinesInv, PollInv
    <3>2. CASE v # w /\ poll[v].on /\ poll[v].session = s
      <4>1. mixed[s] \in BOOLEAN /\ mixed[s]
        BY <2>a, <2>1, <3>2 DEF LinesInv, PollInv
      <4> QED BY <2>2, <2>3, <3>2, <4>1 DEF LinesInv, PollInv
    <3>3. CASE v # w /\ poll[v].on /\ poll[v].session # s
      BY <2>2, <2>3, <2>6, <3>3 DEF LinesInv, PollInv, Poll
    <3>4. CASE ~poll[v].on
      BY <2>2, <3>4 DEF PollInv
    <3> QED BY <3>1, <3>2, <3>3, <3>4
  <2>9. ASSUME NEW t \in Sessions PROVE PageInv(t)'
    <3>1. Polling(t)' <=> Polling(t)
      BY <2>2 DEF Polling
    <3>2. Polling(s)
      BY <2>a, <2>1 DEF Polling
    <3> QED BY <2>3, <2>6, <3>1, <3>2 DEF LinesInv, PageInv
  <2> QED BY <2>3, <2>8, <2>9 DEF LinesInv
<1>4. ASSUME NEW w \in Workers, LoggerGot(w) PROVE LinesInv'
  <2> DEFINE s == poll[w].session
             n == poll[w].end
  <2>1. poll[w].on /\ n \in Nat /\ n = poll[w].at /\ n <= m_write_index /\ s \in Sessions
    BY <1>4 DEF LoggerGot, LinesInv, PollInv, Poll
  <2>2. \A v \in Workers : poll'[v] = IF v = w THEN NoPoll ELSE poll[v]
    BY <1>4 DEF LoggerGot
  <2>3. ~NoPoll.on
    BY DEF NoPoll
  <2>4. UNCHANGED <<m_log, m_write_index, shown, mixed>>
    BY <1>4 DEF LoggerGot
  <2>5. /\ m_logger_read_index'[s] = n
        /\ \A t \in Sessions \ {s} : m_logger_read_index'[t] = m_logger_read_index[t]
    BY <1>4, <2>1 DEF LoggerGot, Position
  <2> HIDE DEF s, n
  <2>6. ASSUME NEW v \in Workers PROVE PollInv(v)'
    BY <2>2, <2>3, <2>4 DEF LinesInv, PollInv, ShownUpTo
  <2>7. ASSUME NEW t \in Sessions PROVE PageInv(t)'
    <3>1. CASE t = s
      BY <2>1, <2>4, <2>5, <3>1 DEF LinesInv, PollInv, PageInv, ShownUpTo, s
    <3>2. CASE t # s
      <4>1. Polling(t)' <=> Polling(t)
        BY <2>1, <2>2, <2>3, <3>2 DEF Polling, s
      <4> QED BY <2>4, <2>5, <3>2, <4>1 DEF LinesInv, PageInv, ShownUpTo
    <3> QED BY <3>1, <3>2
  <2> QED BY <2>1, <2>4, <2>5, <2>6, <2>7 DEF LinesInv
<1>5. ASSUME NEW w \in Workers, NEW s \in Sessions, logger_get(w, s) PROVE LinesInv'
  <2>1. ~poll[w].on /\ UNCHANGED <<m_log, m_write_index, m_logger_read_index, shown>>
    BY <1>5 DEF logger_get, get_session_data
  <2>2. /\ \A v \in Workers \ {w} : poll'[v] = poll[v]
        /\ poll'[w].on /\ poll'[w].session = s
        /\ poll'[w].at = m_logger_read_index[s] /\ poll'[w].end = m_write_index
    BY <1>5 DEF logger_get, get_session_data
  <2>3. \A t \in Sessions : mixed'[t] <=> mixed[t] \/ (t = s /\ Polling(s))
    BY <1>5 DEF logger_get, get_session_data
  <2>4. \A t \in Sessions, m \in Nat : ShownUpTo(t, m)' <=> ShownUpTo(t, m)
    BY <2>1 DEF ShownUpTo
  <2>5. ASSUME NEW v \in Workers PROVE PollInv(v)'
    <3>1. CASE v = w
      BY <2>1, <2>2, <2>3, <2>4, <3>1 DEF LinesInv, PageInv, PollInv, Polling
    <3>2. CASE v # w /\ poll[v].on
      <4>1. poll[v].session = s => Polling(s)
        BY <3>2 DEF Polling
      <4>2. CASE poll[v].session = s
        BY <2>1, <2>2, <2>3, <3>2, <4>1, <4>2 DEF LinesInv, PollInv
      <4>3. CASE poll[v].session # s
        <5>1. ShownUpTo(poll[v].session, poll[v].at)'
                <=> ShownUpTo(poll[v].session, poll[v].at)
          BY <2>1, <2>2, <3>2 DEF ShownUpTo
        <5>2. PollInv(v) /\ poll'[v] = poll[v]
          BY <2>2, <3>2 DEF LinesInv
        <5>3. poll[v].session \in Sessions
          BY <3>2, <5>2 DEF PollInv
        <5>4. mixed'[poll[v].session] <=> mixed[poll[v].session]
          BY <2>3, <4>3, <5>3
        <5>5. \A u \in Workers :
                poll'[u].on /\ poll'[u].session = poll[v].session => u # w /\ poll'[u] = poll[u]
          BY <2>2, <4>3
        <5> QED BY <2>1, <3>2, <5>1, <5>2, <5>3, <5>4, <5>5 DEF PollInv
      <4> QED BY <4>2, <4>3
    <3>3. CASE v # w /\ ~poll[v].on
      BY <2>2, <3>3 DEF PollInv
    <3> QED BY <3>1, <3>2, <3>3
  <2>6. ASSUME NEW t \in Sessions PROVE PageInv(t)'
    <3>1. ~Polling(t)' => ~Polling(t)
      BY <2>1, <2>2 DEF Polling
    <3> QED BY <2>1, <2>3, <2>4, <3>1 DEF LinesInv, PageInv
  <2> QED BY <2>1, <2>5, <2>6 DEF LinesInv
<1>6. CASE Restart
  <2>1. DOMAIN m_log' = {} /\ ~NoPoll.on
    BY <1>6 DEF Restart, NoPoll
  <2> QED BY <1>6, <2>1 DEF Restart, LinesInv, PollInv, PageInv, ShownUpTo
<1>7. CASE UNCHANGED logVars
  BY <1>7 DEF logVars, LinesInv, PollInv, PageInv, ShownUpTo, Polling
<1> QED BY <1>1, <1>2, <1>3, <1>4, <1>5, <1>6, <1>7 DEF LogNext

\* LinesOnce, for any number of workers and pages and every size of the ring.
THEOREM LinesShownOnce == Spec => []LinesOnce
<1>1. LinesInv => LinesOnce
  BY DEF LinesInv, PageInv, ShownUpTo, LinesOnce
<1>2. Init => LinesType /\ LinesInv
  BY LinesInit DEF Init
<1>3. [Next]_vars => LogNext \/ Restart \/ UNCHANGED logVars
  BY DEF Next, vars
<1>4. LinesType /\ LinesInv /\ [Next]_vars => LinesType' /\ LinesInv'
  BY <1>3, LinesTypeStep, LinesStep
<1> QED
  BY <1>1, <1>2, <1>4, PTL DEF Spec

-------------------------------------------------------------------------------
(* The log files *)

\* The last start that has opened its log file, at its first line.
LastLogged == IF m_write_index > 0 THEN run ELSE run - 1

\* A file holds the log of the start that opened it last, and was written then; no
\* two files hold the log of one start; the last starts each have a file, as many
\* as there are files.
FilesInv ==
  /\ m_write_index \in Nat /\ run \in Nat \ {0}
  /\ file \in [Files -> Nat] /\ time = file
  /\ \A f \in Files : file[f] <= LastLogged
  /\ \A f, g \in Files : file[f] = file[g] /\ file[f] # 0 => f = g
  /\ \A r \in 1 .. LastLogged :
       LastLogged - r < Cardinality(Files) => \E f \in Files : file[f] = r

\* A set of natural numbers that is not empty has a least one.
LEMMA LeastNat ==
  ASSUME NEW T \in SUBSET Nat, T # {}
  PROVE  \E x \in T : \A y \in T : x <= y
<1> DEFINE Less == OpToRel(<, Nat)
<1>1. \E x \in T : \A y \in T : ~(<<y, x>> \in Less)
  BY NatLessThanWellFounded, WFMin, Zenon DEF Less
<1>2. \A y, z \in Nat : y < z => <<y, z>> \in Less
  BY DEF OpToRel
<1> HIDE DEF Less
<1>3. PICK x \in T : \A y \in T : ~(<<y, x>> \in Less)
  BY <1>1, Zenon
<1>4. \A y \in T : ~(y < x)
  BY <1>2, <1>3, Zenon
<1> QED
  BY <1>4

\* The loop of proxy_log::add finds a file, and no file was written before it.
LEMMA OldestIsFirst ==
  ASSUME time \in [Files -> Nat]
  PROVE  OldestFile \in Files /\ \A g \in Files : time[OldestFile] <= time[g]
<1> DEFINE Times == {time[f] : f \in Files}
<1>1. Times \in SUBSET Nat /\ Times # {}
  BY LogAssumption
<1>2. PICK t \in Times : \A u \in Times : t <= u
  BY <1>1, LeastNat, Zenon
<1> DEFINE Oldest == {f \in Files : time[f] = t}
<1>3. Oldest \in SUBSET Nat /\ Oldest # {}
  BY LogAssumption
<1>4. PICK f \in Oldest : \A g \in Oldest : f <= g
  BY <1>3, LeastNat, Zenon
<1>5. f \in Files /\ \A g \in Files : time[f] < time[g] \/ (time[f] = time[g] /\ f <= g)
  <2> SUFFICES ASSUME NEW g \in Files
               PROVE  time[f] < time[g] \/ (time[f] = time[g] /\ f <= g)
    BY <1>4
  <2>1. time[f] \in Nat /\ time[g] \in Nat /\ time[f] = t /\ t <= time[g]
    BY <1>2, <1>4
  <2>2. CASE time[g] = t
    BY <1>4, <2>1, <2>2
  <2>3. CASE time[g] # t
    BY <2>1, <2>3
  <2> QED BY <2>2, <2>3
<1>6. /\ OldestFile \in Files
      /\ \A g \in Files : \/ time[OldestFile] < time[g]
                          \/ time[OldestFile] = time[g] /\ OldestFile <= g
  BY <1>5, Zenon DEF OldestFile
<1> QED
  BY <1>6

\* The file that is overwritten holds the log of a start so long ago that all files
\* have been opened since, or of none: if it were a recent one, the files would hold
\* the logs of more starts than there were.
LEMMA OldestIsOld ==
  ASSUME FilesInv, m_write_index = 0, file[OldestFile] # 0
  PROVE  run - file[OldestFile] >= Cardinality(Files)
<1> DEFINE o == file[OldestFile]
<1>1. OldestFile \in Files /\ \A g \in Files : o <= file[g]
  BY OldestIsFirst DEF FilesInv
<1>2. o \in Nat \ {0} /\ run \in Nat
  BY <1>1 DEF FilesInv
<1>3. \A g \in Files : file[g] \in o .. run - 1
  BY <1>1, <1>2 DEF FilesInv, LastLogged
<1>4. file \in Injection(Files, o .. run - 1)
  BY <1>1, <1>2, <1>3 DEF FilesInv, Injection, IsInjective
<1>5. /\ IsFiniteSet(o .. run - 1)
      /\ Cardinality(o .. run - 1) = IF o > run - 1 THEN 0 ELSE run - 1 - o + 1
  BY <1>2, FS_Interval
<1>6. Cardinality(Files) <= Cardinality(o .. run - 1)
  BY <1>4, <1>5, FS_Injection, Zenon
<1>7. o <= run - 1
  BY <1>1, <1>2, <1>3
<1> QED
  BY <1>2, <1>5, <1>6, <1>7

\* The first start finds no log file of this program.
LEMMA FilesInit == LogInit => FilesInv
BY DEF LogInit, FilesInv, LastLogged

\* The first line of a start and the start itself keep the recent files.
LEMMA FilesStep ==
  FilesInv /\ (LogNext \/ Restart \/ UNCHANGED logVars) => FilesInv'
<1> SUFFICES ASSUME FilesInv, LogNext \/ Restart \/ UNCHANGED logVars
             PROVE  FilesInv'
  OBVIOUS
<1> USE DEF lines, pages, logfiles
<1>1. CASE add /\ m_write_index = 0
  <2> DEFINE o == OldestFile
  <2>1. o \in Files
    BY OldestIsFirst DEF FilesInv
  <2>a. file' = [file EXCEPT ![o] = run] /\ time' = [time EXCEPT ![o] = run]
    BY <1>1 DEF add
  <2>b. time = file /\ run \in Nat \ {0}
    BY DEF FilesInv
  <2>c. m_write_index' = 1 /\ run' = run
    BY <1>1 DEF add
  <2>2. /\ m_write_index' = 1 /\ run' = run /\ run \in Nat \ {0}
        /\ file' = [file EXCEPT ![o] = run] /\ time' = file'
    BY <2>a, <2>b, <2>c, Zenon
  <2>3. LastLogged = run - 1 /\ LastLogged' = run
    BY <1>1, <2>2 DEF LastLogged
  <2>4. file' \in [Files -> Nat] /\ \A f \in Files : file'[f] = IF f = o THEN run ELSE file[f]
    BY <2>1, <2>2 DEF FilesInv
  <2> HIDE DEF o
  <2>5. \A f \in Files : file[f] \in Nat /\ file[f] < run
    BY <2>2, <2>3 DEF FilesInv
  <2>6. \A f \in Files : file'[f] <= LastLogged'
    BY <2>2, <2>3, <2>4, <2>5
  <2>7. \A f, g \in Files : file'[f] = file'[g] /\ file'[f] # 0 => f = g
    BY <2>4, <2>5 DEF FilesInv
  <2>8. ASSUME NEW r \in 1 .. run, run - r < Cardinality(Files)
        PROVE  \E f \in Files : file'[f] = r
    <3>1. CASE r = run
      BY <2>1, <2>4, <3>1
    <3>2. CASE r # run
      <4>1. Cardinality(Files) \in Nat
        BY LogAssumption, FS_CardinalityType
      <4>2. r \in 1 .. run - 1 /\ run - 1 - r < Cardinality(Files)
        BY <2>2, <2>8, <3>2, <4>1
      <4>3. PICK f \in Files : file[f] = r
        BY <2>3, <4>2 DEF FilesInv
      <4>4. f # o
        <5> SUFFICES ASSUME f = o PROVE FALSE
          OBVIOUS
        <5>1. file[OldestFile] = r /\ r # 0
          BY <4>2, <4>3 DEF o
        <5>2. run - r >= Cardinality(Files)
          BY <1>1, <5>1, OldestIsOld
        <5> QED BY <2>2, <2>8, <4>1, <5>2
      <4> QED BY <2>4, <4>3, <4>4
    <3> QED BY <3>1, <3>2
  <2> QED BY <2>2, <2>3, <2>4, <2>6, <2>7, <2>8 DEF FilesInv
<1>2. CASE add /\ m_write_index # 0
  <2>1. UNCHANGED <<file, time, run>> /\ m_write_index' = m_write_index + 1
    BY <1>2 DEF add
  <2>2. m_write_index' \in Nat /\ LastLogged' = LastLogged
    BY <1>2, <2>1 DEF FilesInv, LastLogged
  <2> QED BY <2>1, <2>2 DEF FilesInv
<1>3. CASE Restart
  <2>1. UNCHANGED <<file, time>> /\ run' = run + 1 /\ m_write_index' = 0 /\ m_write_index > 0
    BY <1>3 DEF Restart
  <2>2. run' \in Nat \ {0} /\ LastLogged' = LastLogged
    BY <2>1 DEF FilesInv, LastLogged
  <2> QED BY <2>1, <2>2 DEF FilesInv
<1>4. CASE UNCHANGED <<m_write_index, logfiles>>
  BY <1>4 DEF FilesInv, LastLogged
<1> QED
  BY <1>1, <1>2, <1>3, <1>4 DEF LogNext, index, get, LoggerGot, logger_get, get_session_data, logVars

\* RecentFilesKept, for any number of files and of starts.
THEOREM RecentKept == Spec => []RecentFilesKept
<1>1. FilesInv => RecentFilesKept
  BY DEF FilesInv, LastLogged, RecentFilesKept
<1>2. Init => FilesInv
  BY FilesInit DEF Init
<1>3. [Next]_vars => LogNext \/ Restart \/ UNCHANGED logVars
  BY DEF Next, vars
<1>4. FilesInv /\ [Next]_vars => FilesInv'
  BY <1>3, FilesStep
<1> QED
  BY <1>1, <1>2, <1>4, PTL DEF Spec

===============================================================================
