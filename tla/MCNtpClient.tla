---------------------------- MODULE MCNtpClient -----------------------------
(* Small instances of NtpClient. *)
EXTENDS NtpClient

CONSTANTS c1, c2

AllCalls == {"start", "stop", "status", "family"}

\* Two tasks, and servers that do not answer; memory may be exhausted.
Silent ==
  [callers |-> {c1, c2}, Calls |-> AllCalls \ {"family"}, NumSamples |-> 2,
   StayOn |-> TRUE, Answered |-> {FALSE}, Exhausted |-> TRUE]

\* Two tasks that do not stop the client, which ends by itself.
NoStop ==
  [callers |-> {c1, c2}, Calls |-> AllCalls \ {"stop"}, NumSamples |-> 2,
   StayOn |-> FALSE, Answered |-> BOOLEAN, Exhausted |-> FALSE]

\* One task, and servers that answer or not; the client ends by itself after a
\* success, or polls until too many queries have failed.
OneCaller(n, stay) ==
  [callers |-> {c1}, Calls |-> AllCalls, NumSamples |-> n, StayOn |-> stay,
   Answered |-> BOOLEAN, Exhausted |-> FALSE]

AnyUse     == {Silent, NoStop, OneCaller(1, TRUE), OneCaller(1, FALSE)}
TwoSamples == {[OneCaller(2, TRUE) EXCEPT !.Answered = {TRUE}]}
=============================================================================
