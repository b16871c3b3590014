----------------------------- MODULE TestRunner -----------------------------
(***************************************************************************)
(* The TestRunner state machine of spec.md section 4.6: what every harness *)
(* promises about the order of its phases, the verdict and the exit.      *)
(*                                                                         *)
(* The phases are those of the spec.  Reporting -> CleaningUp is           *)
(* unconditional there, so the step that fixes the verdict and the step   *)
(* that enters cleanup are one step here (Report).  The spec's            *)
(* UnexpectedFault and external interruption route any running phase to   *)
(* cleanup with a failed verdict (Fault); a fault before the first launch *)
(* goes to cleanup too, which then has nothing to stop.  A harness that   *)
(* never launched anything may also stop with a failure at once (NoRun).  *)
(***************************************************************************)

VARIABLES
  phase,    \* the TestRunner state
  verdict   \* "none" until reported, then "passed" or "failed"

Phases == {"Idle", "Launching", "AwaitingReady", "GeneratingTraffic",
           "Verifying", "CleaningUp", "Done"}

\* The phases during which launched processes may be held.
Running == {"Launching", "AwaitingReady", "GeneratingTraffic", "Verifying"}

Init == phase = "Idle" /\ verdict = "none"

Move(from, to) == phase = from /\ phase' = to

Start          == Move("Idle", "Launching") /\ UNCHANGED verdict
NoRun          == Move("Idle", "Done") /\ verdict' = "failed"
Launched       == Move("Launching", "AwaitingReady") /\ UNCHANGED verdict
Ready          == Move("AwaitingReady", "GeneratingTraffic") /\ UNCHANGED verdict
StartupFailure == Move("AwaitingReady", "CleaningUp") /\ verdict' = "failed"
TrafficDone    == Move("GeneratingTraffic", "Verifying") /\ UNCHANGED verdict
Report         == Move("Verifying", "CleaningUp")
                  /\ verdict' \in {"passed", "failed"}
Fault          == phase \in Running \cup {"Idle"} /\ phase' = "CleaningUp"
                  /\ verdict' = "failed"
\* Cleanup ends with the exit status of the verdict (spec.md section 6),
\* or, interrupted itself, with a failure.
Cleaned        == Move("CleaningUp", "Done") /\ UNCHANGED verdict
Interrupted    == Move("CleaningUp", "Done") /\ verdict' = "failed"

Next ==
  \/ Start \/ NoRun \/ Launched \/ Ready \/ StartupFailure \/ TrafficDone
  \/ Report \/ Fault \/ Cleaned \/ Interrupted

\* Every phase is bounded (section 5), so a run always reaches Done.
Spec == Init /\ [][Next]_<<phase, verdict>> /\ WF_<<phase, verdict>>(Next)

\* Both variables hold values of their kind.
TypeOK == phase \in Phases /\ verdict \in {"none", "passed", "failed"}
=============================================================================
