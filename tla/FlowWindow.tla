------------------------------- MODULE FlowWindow -------------------------------
(***************************************************************************)
(* What a data_flow counter promises: a reading is the number of bytes     *)
(* that were added during the last Size seconds, the present one included, *)
(* and that were not cleared since.                                        *)
(***************************************************************************)
EXTENDS Integers

CONSTANTS
    Size,      \* the length of the window in seconds
    MaxTime,   \* bound on the clock
    Counts     \* the byte counts that may be added

VARIABLES
    now,       \* the clock, in seconds
    sent,      \* bytes added in each second and not cleared
    reading    \* the last value that was read

windowVars == <<now, sent, reading>>

\* The bytes of second t; nothing was sent before the clock's zero.
Bytes(t) == IF t \in 0 .. MaxTime THEN sent[t] ELSE 0

\* Entry n is the sum over the last n seconds, the present one included.
WindowSums ==
    LET sum[n \in 0 .. Size] == IF n = 0 THEN 0 ELSE sum[n - 1] + Bytes(now - n + 1)
    IN  sum

WindowInit ==
    /\ now \in 0 .. MaxTime
    /\ sent = [t \in 0 .. MaxTime |-> 0]
    /\ reading = 0

WindowTick ==
    /\ now < MaxTime
    /\ now' = now + 1
    /\ UNCHANGED <<sent, reading>>

WindowAdd ==
    /\ \E n \in Counts : sent' = [sent EXCEPT ![now] = @ + n]
    /\ UNCHANGED <<now, reading>>

WindowRead ==
    /\ reading' = WindowSums[Size]
    /\ UNCHANGED <<now, sent>>

WindowClear ==
    /\ sent' = [t \in 0 .. MaxTime |-> 0]
    /\ UNCHANGED <<now, reading>>

WindowNext == WindowTick \/ WindowAdd \/ WindowRead \/ WindowClear

WindowSpec == WindowInit /\ [][WindowNext]_windowVars

===============================================================================
