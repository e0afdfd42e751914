------------------------------- MODULE Process -------------------------------
(***************************************************************************)
(* process::execute_process (src/src/applutil.cpp), with which a start     *)
(* without a key runs openssl: the child's standard output is read to its  *)
(* end, then its standard error, then its end is awaited.  A pipe holds a  *)
(* bounded number of lines, and the child writes the two in any order.     *)
(*                                                                         *)
(*   exec      what the caller is at: "none", "out", "err", "wait", "done" *)
(*   pipe      the lines in the pipes, TRUE for one that is not empty      *)
(*   total, left   lines the child writes to each, and those still to come *)
(*   child     "choose", the stream it writes to, or "exited"              *)
(*   cut       the loop over the output ended at an empty line             *)
(***************************************************************************)
EXTENDS Naturals, Sequences

CONSTANTS PipeSize, MaxOutput

ASSUME ProcessAssumption == PipeSize \in Nat \ {0} /\ MaxOutput \in Nat

VARIABLES exec, pipe, total, left, child, cut

procVars == <<exec, pipe, total, left, child, cut>>

Streams == {"out", "err"}

ProcInit ==
  /\ exec = "none" /\ pipe = [s \in Streams |-> <<>>] /\ cut = FALSE
  /\ total = [s \in Streams |-> 0] /\ left = total /\ child = "exited"

\* Fault: the errors are read first.
First_Errors == "err"

First == "out"

Spawn ==
  /\ exec = "none"
  /\ total' \in [Streams -> 0 .. MaxOutput] /\ left' = total'
  /\ child' = "choose" /\ exec' = First
  /\ UNCHANGED <<pipe, cut>>

After(s) == IF s = First THEN CHOOSE t \in Streams : t # s ELSE "wait"

\* getline, and the end of the loop at an empty line.
GetLine(s) ==
  /\ exec = s /\ pipe[s] # <<>>
  /\ pipe' = [pipe EXCEPT ![s] = Tail(@)]
  /\ exec' = IF Head(pipe[s]) THEN s ELSE After(s)
  /\ cut' = (cut \/ (s = "out" /\ ~Head(pipe[s])))
  /\ UNCHANGED <<total, left, child>>

\* The end of the loop at the end of the stream.
EndOfStream(s) ==
  /\ exec = s /\ pipe[s] = <<>> /\ child = "exited"
  /\ exec' = After(s)
  /\ UNCHANGED <<pipe, total, left, child, cut>>

Wait ==
  /\ exec = "wait" /\ child = "exited"
  /\ exec' = "done" /\ pipe' = [s \in Streams |-> <<>>] /\ cut' = FALSE
  /\ total' = [s \in Streams |-> 0] /\ left' = total'
  /\ UNCHANGED child

ChildChooses ==
  /\ child = "choose"
  /\ \/ \E s \in Streams : left[s] > 0 /\ child' = s
     \/ left = [s \in Streams |-> 0] /\ child' = "exited"
  /\ UNCHANGED <<exec, pipe, total, left, cut>>

ChildWrites(s) ==
  /\ child = s /\ Len(pipe[s]) < PipeSize
  /\ \E text \in BOOLEAN : pipe' = [pipe EXCEPT ![s] = Append(@, text)]
  /\ left' = [left EXCEPT ![s] = @ - 1] /\ child' = "choose"
  /\ UNCHANGED <<exec, total, cut>>

\* The key is there: openssl is not run.
NotNeeded == exec = "none" /\ exec' = "done" /\ UNCHANGED <<pipe, total, left, child, cut>>

ProcRestart == exec = "done" /\ exec' = "none" /\ UNCHANGED <<pipe, total, left, child, cut>>

ProcNext ==
  \/ Spawn \/ NotNeeded \/ Wait \/ ChildChooses
  \/ \E s \in Streams : GetLine(s) \/ EndOfStream(s) \/ ChildWrites(s)

------------------------------------------------------------------------------
(* Properties *)

Stuck == /\ child \in Streams /\ Len(pipe[child]) = PipeSize
         /\ exec \in Streams => pipe[exec] = <<>>
         /\ exec # child

\* execute_process and the child never wait for each other: only errors that do
\* not fit into their pipe, or an output that goes on behind an empty line for
\* longer than its pipe, can hold the child up.  openssl writes a few lines.
NoPipeDeadlock ==
  Stuck => total["err"] > PipeSize \/ (cut /\ total["out"] > PipeSize)
==============================================================================
