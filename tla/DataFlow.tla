-------------------------------- MODULE DataFlow --------------------------------
(***************************************************************************)
(* The byte counters of the status page: src/applutil.cpp, data_flow.      *)
(*                                                                         *)
(* A ring of one-second slots and the time stamp of the last add().  add() *)
(* and get() first run cleanup(), which zeroes the slots of the seconds    *)
(* since that stamp; only add() moves the stamp.  Every operation holds    *)
(* m_mutex and reads the steady clock under it, so operations are atomic   *)
(* and time stamps never go back.                                          *)
(***************************************************************************)
EXTENDS Integers

CONSTANTS
    Size,      \* data_flow_size
    MaxTime,   \* bound on the clock
    Counts,    \* the byte counts that may be added
    MaxBytes   \* bound on the bytes in one slot

ASSUME DataFlowAssumption ==
    /\ Size \in Nat \ {0} /\ MaxTime \in Nat /\ MaxBytes \in Nat
    /\ Counts \subseteq Nat

VARIABLES
    now,        \* steady_clock, in seconds
    m_buffer,   \* bytes per slot
    m_stamp,    \* time stamp of the last add()
    reading,    \* what the last get() returned
    sent        \* history: bytes added in each second and not cleared

vars == <<now, m_buffer, m_stamp, reading, sent>>

Slots == 0 .. (Size - 1)

\* The types of the state; the stamp of the last add() is never ahead of the
\* clock, or cleanup() would run round the whole ring and zero the present second.
TypeOK ==
    /\ now \in 0 .. MaxTime /\ m_stamp \in 0 .. now
    /\ m_buffer \in [Slots -> Nat]
    /\ reading \in Nat
    /\ sent \in [0 .. MaxTime -> Nat]

Init ==
    /\ now \in 0 .. MaxTime
    /\ m_stamp = now
    /\ m_buffer = [i \in Slots |-> 0]
    /\ reading = 0
    /\ sent = [t \in 0 .. MaxTime |-> 0]

\* The slots that the loop of cleanup() passes on its way from m_stamp to stamp.
Passed(stamp) ==
    {(m_stamp + k) % Size : k \in 1 .. (((stamp % Size) - (m_stamp % Size)) % Size)}

\* Fault: exactly one turn of the ring is taken for no time at all.
Cleanup_FullTurn(stamp) ==
    IF stamp > m_stamp + Size
    THEN [i \in Slots |-> 0]
    ELSE [i \in Slots |-> IF i \in Passed(stamp) THEN 0 ELSE m_buffer[i]]

\* cleanup(stamp): m_buffer without the seconds that left the window.
Cleanup(stamp) ==
    IF stamp >= m_stamp + Size
    THEN [i \in Slots |-> 0]
    ELSE [i \in Slots |-> IF i \in Passed(stamp) THEN 0 ELSE m_buffer[i]]

\* add(n)
Add(n) ==
    /\ Cleanup(now)[now % Size] + n <= MaxBytes
    /\ m_buffer' = [Cleanup(now) EXCEPT ![now % Size] = @ + n]
    /\ m_stamp' = now
    /\ sent' = [sent EXCEPT ![now] = @ + n]
    /\ UNCHANGED <<now, reading>>

\* What the loop of get() adds up: entry n is the sum of the first n slots.
Sums(buffer) ==
    LET sum[n \in 0 .. Size] == IF n = 0 THEN 0 ELSE sum[n - 1] + buffer[n - 1]
    IN  sum

\* get(): it cleans up, sums the slots, and leaves m_stamp alone.
Get ==
    /\ m_buffer' = Cleanup(now)
    /\ reading' = Sums(m_buffer')[Size]
    /\ UNCHANGED <<now, m_stamp, sent>>

Clear ==
    /\ m_buffer' = [i \in Slots |-> 0]
    /\ sent' = [t \in 0 .. MaxTime |-> 0]
    /\ UNCHANGED <<now, m_stamp, reading>>

Tick ==
    /\ now < MaxTime
    /\ now' = now + 1
    /\ UNCHANGED <<m_buffer, m_stamp, reading, sent>>

Next == (\E n \in Counts : Add(n)) \/ Get \/ Clear \/ Tick

Spec == Init /\ [][Next]_vars

-------------------------------------------------------------------------------
Window == INSTANCE FlowWindow

\* The ring implements the window: get() returns the bytes of the last Size
\* seconds, whatever sequence of add(), get(), clear() and idle time precedes it.
ImplementsWindow == Window!WindowSpec

===============================================================================
