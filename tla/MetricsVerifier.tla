--------------------------- MODULE MetricsVerifier ---------------------------
(***************************************************************************)
(* The MetricsVerifier of spec.md section 4.5: verify(admin_endpoint,     *)
(* traffic_fn) takes a snapshot of the metrics, runs the traffic, waits a *)
(* settle period, takes a second snapshot and asserts on the deltas of    *)
(* the body-capture group.  The settle wait belongs to the second          *)
(* snapshot's step here.  A failure to fetch a snapshot, a fault of the    *)
(* traffic function and an interruption end the check with False          *)
(* (Abort); a harness that stops before it calls verify has no metrics     *)
(* verdict and reports False too (Skip).                                   *)
(***************************************************************************)
EXTENDS Integers

CONSTANTS
  Snapshots,           \* the body_capture groups a snapshot can hold
  NoSnapshot,          \* no snapshot taken or fetched
  LatencyRecorded(_)   \* the snapshot's average_latency_ms is positive

VARIABLES
  phase,    \* "idle", "before", "traffic", "after" or "done"
  before,   \* the first snapshot, NoSnapshot until taken
  after,    \* the second snapshot, NoSnapshot until taken
  result    \* "none" until verify returns, then "passed" or "failed"

mvars == <<phase, before, after, result>>

\* Section 4.5's assertions: the attempts, successes and captured bytes
\* all grew (so no delta is negative, section 3), the success rate of the
\* second snapshot is at least 50%, and latency is being recorded.
Assertions(s1, s2) ==
  /\ s2.attempts > s1.attempts
  /\ s2.successes > s1.successes
  /\ s2.bytes > s1.bytes
  /\ 2 * s2.successes >= s2.attempts
  /\ LatencyRecorded(s2)

Init ==
  phase = "idle" /\ before = NoSnapshot /\ after = NoSnapshot /\ result = "none"

Begin ==
  /\ phase = "idle" /\ phase' = "before"
  /\ UNCHANGED <<before, after, result>>

Skip ==
  /\ phase = "idle" /\ phase' = "done" /\ result' = "failed"
  /\ UNCHANGED <<before, after>>

TakeBefore ==
  /\ phase = "before" /\ phase' = "traffic"
  /\ before' \in Snapshots
  /\ UNCHANGED <<after, result>>

TrafficDone ==
  /\ phase = "traffic" /\ phase' = "after"
  /\ UNCHANGED <<before, after, result>>

\* The verdict is the assertions on the two snapshots actually taken.
TakeAfter ==
  /\ phase = "after" /\ phase' = "done"
  /\ after' \in Snapshots
  /\ result' = IF Assertions(before, after') THEN "passed" ELSE "failed"
  /\ UNCHANGED before

Abort ==
  /\ phase \in {"before", "traffic", "after"}
  /\ phase' = "done" /\ result' = "failed"
  /\ UNCHANGED <<before, after>>

Next == Begin \/ Skip \/ TakeBefore \/ TrafficDone \/ TakeAfter \/ Abort

\* Each step of verify is bounded (section 5), so verify returns.
Spec == Init /\ [][Next]_mvars /\ WF_mvars(Next)

\* Each variable holds a value of its kind.
TypeOK ==
  /\ phase \in {"idle", "before", "traffic", "after", "done"}
  /\ before \in Snapshots \cup {NoSnapshot}
  /\ after \in Snapshots \cup {NoSnapshot}
  /\ result \in {"none", "passed", "failed"}
=============================================================================
