------------------------------ MODULE JobGate ------------------------------
(***************************************************************************)
(* What internal/scheduler promises of the poll and digest jobs, with no   *)
(* lock, flag or goroutine in it: jobs run one at a time, and once Stop    *)
(* has returned none is running and none begins, so the caller may close   *)
(* the database they use.                                                  *)
(***************************************************************************)
CONSTANTS
  Runs,         \* the firings that may run a job
  NoRun         \* stands for no firing

VARIABLES
  active,       \* the firing whose job is running
  closed        \* Stop has returned

vars == <<active, closed>>

Init ==
  /\ active = NoRun
  /\ closed = FALSE

Begin(r) ==
  /\ ~closed
  /\ active = NoRun
  /\ active' = r
  /\ UNCHANGED closed

End ==
  /\ active # NoRun
  /\ active' = NoRun
  /\ UNCHANGED closed

Close ==
  /\ active = NoRun
  /\ closed' = TRUE
  /\ UNCHANGED active

Next == (\E r \in Runs : Begin(r)) \/ End \/ Close

Spec == Init /\ [][Next]_vars
=============================================================================
