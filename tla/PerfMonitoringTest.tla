------------------------- MODULE PerfMonitoringTest -------------------------
(***************************************************************************)
(* The performance-monitoring harness of src/test_performance_monitoring  *)
(* .py (PerformanceMonitoringTest and main).                               *)
(*                                                                         *)
(* The controller starts the orchestrator, the proxy agent and the test    *)
(* server, each followed by a fixed sleep and one poll().  It reads the    *)
(* agent's admin metrics, sends the test requests through the agent,      *)
(* reads the metrics again and validates the change, then stops the       *)
(* processes that are still running.  The agent's body-capture counters  *)
(* are cumulative since its start and move asynchronously, after the      *)
(* response has been relayed.                                             *)
(***************************************************************************)
EXTENDS Integers, Sequences, FiniteSets

CONSTANTS
  NumEndpoints,  \* entries of test_endpoints (code: 4)
  Repeats        \* requests per endpoint (code: 3)

ASSUME NumEndpoints \in Nat \ {0} /\ Repeats \in Nat \ {0}

Requests == NumEndpoints * Repeats

Orch == "orchestrator"
Agent == "proxy_agent"
Server == "test_server"
Services == {Orch, Agent, Server}

\* The order of the `processes` list of cleanup().
CleanupOrder == <<Server, Agent, Orch>>

ProcState == {"none", "starting", "listening", "stopping", "exited"}

\* The agent's body_capture group: attempts, successes, total bytes.
Counters == [attempts : 0..Requests, successes : 0..Requests,
             bytes : 0..Requests]
NoSnapshot == [none |-> TRUE]

VARIABLES
  pc,          \* position in run_test() / main()
  proc,        \* OS process of each service
  spawned,     \* services whose *_process attribute holds a handle
  intercept,   \* the orchestrator holds relayed requests for review
  k,           \* requests issued so far by generate_test_traffic
  served,      \* success_count > 0
  pending,     \* captures not yet counted by the agent, by outcome
  metrics,     \* the agent's cumulative counters
  initial,     \* initial_metrics
  final,       \* final_metrics
  ok,          \* run_test()'s return value
  j,           \* index into CleanupOrder
  exitCode,    \* main()'s return value, -1 before
  cutCleanup   \* a KeyboardInterrupt escaped from cleanup()

vars == <<pc, proc, spawned, intercept, k, served, pending, metrics, initial,
          final, ok, j, exitCode, cutCleanup>>

Alive(s) == proc[s] \in {"starting", "listening", "stopping"}

\* get_admin_metrics (lines 121-132): the counters when the admin port
\* answers 200, None on another status or an exception.
AdminMetrics ==
  IF proc[Agent] = "listening" THEN {metrics, NoSnapshot} ELSE {NoSnapshot}

\* Mutant of MetricsValid: the success rate is read from the initial
\* snapshot instead of the final one.
MetricsValidInitialRate(s1, s2) ==
  /\ s2.attempts - s1.attempts > 0
  /\ s2.successes - s1.successes > 0
  /\ s2.bytes - s1.bytes > 0
  /\ s1.successes * 100 >= 50 * s1.attempts
  /\ s2.attempts > 0

\* validate_metrics_changes (lines 225-273): the three deltas, the
\* cumulative success rate of the final snapshot and its average latency,
\* which is positive once the agent has timed a capture.
MetricsValid(s1, s2) ==
  /\ s2.attempts - s1.attempts > 0
  /\ s2.successes - s1.successes > 0
  /\ s2.bytes - s1.bytes > 0
  /\ s2.successes * 100 >= 50 * s2.attempts
  /\ s2.attempts > 0

-----------------------------------------------------------------------------
Init ==
  /\ pc = "main"
  /\ proc = [s \in Services |-> "none"]
  /\ spawned = {}
  /\ intercept \in BOOLEAN
  /\ k = 0 /\ served = FALSE
  /\ pending = [ok |-> 0, fail |-> 0]
  /\ metrics = [attempts |-> 0, successes |-> 0, bytes |-> 0]
  /\ initial = NoSnapshot /\ final = NoSnapshot
  /\ ok = FALSE /\ j = 1 /\ exitCode = -1 /\ cutCleanup = FALSE

\* run_test() returns `result`; `finally` starts cleanup().
Return(result) == pc' = "stop" /\ ok' = result

\* The Popen of a start method; an exception is caught and returns False.
Launch(s, next) ==
  \/ /\ proc' = [proc EXCEPT ![s] = "starting"]
     /\ spawned' = spawned \cup {s}
     /\ pc' = next /\ UNCHANGED ok
  \/ Return(FALSE) /\ UNCHANGED <<proc, spawned>>

\* The sleep and the single poll() of a start method: a process that has
\* exited makes it return False.  Nothing checks that the port is bound.
Check(s, next) ==
  IF proc[s] = "exited" THEN Return(FALSE) ELSE pc' = next /\ UNCHANGED ok

\* main (lines 338-350): a missing binary returns 1 before anything runs.
CheckBinaries ==
  /\ pc = "main"
  /\ \/ pc' = "startOrch" /\ UNCHANGED exitCode
     \/ pc' = "done" /\ exitCode' = 1
  /\ UNCHANGED <<proc, spawned, intercept, k, served, pending, metrics, initial,
                 final, ok, j, cutCleanup>>

StartOrchestrator ==
  /\ pc = "startOrch" /\ Launch(Orch, "checkOrch")
  /\ UNCHANGED <<intercept, k, served, pending, metrics, initial, final, j,
                 exitCode, cutCleanup>>

CheckOrchestrator ==
  /\ pc = "checkOrch" /\ Check(Orch, "startAgent")
  /\ UNCHANGED <<proc, spawned, intercept, k, served, pending, metrics, initial,
                 final, j, exitCode, cutCleanup>>

StartProxyAgent ==
  /\ pc = "startAgent" /\ Launch(Agent, "checkAgent")
  /\ UNCHANGED <<intercept, k, served, pending, metrics, initial, final, j,
                 exitCode, cutCleanup>>

CheckProxyAgent ==
  /\ pc = "checkAgent" /\ Check(Agent, "startServer")
  /\ UNCHANGED <<proc, spawned, intercept, k, served, pending, metrics, initial,
                 final, j, exitCode, cutCleanup>>

StartTestServer ==
  /\ pc = "startServer" /\ Launch(Server, "checkServer")
  /\ UNCHANGED <<intercept, k, served, pending, metrics, initial, final, j,
                 exitCode, cutCleanup>>

\* Its poll(), then run_test's sleep(5) (line 316).
CheckTestServer ==
  /\ pc = "checkServer" /\ Check(Server, "snapshot1")
  /\ UNCHANGED <<proc, spawned, intercept, k, served, pending, metrics, initial,
                 final, j, exitCode, cutCleanup>>

\* verify_performance_metrics, lines 180-184: no initial metrics is False.
InitialSnapshot ==
  /\ pc = "snapshot1"
  /\ \E m \in AdminMetrics :
       IF m = NoSnapshot
         THEN Return(FALSE) /\ UNCHANGED initial
         ELSE initial' = m /\ pc' = "traffic" /\ UNCHANGED ok
  /\ UNCHANGED <<proc, spawned, intercept, k, served, pending, metrics, final, j,
                 exitCode, cutCleanup>>

\* Mutant of SendRequest: the inner loop runs one request too many.
SendRequestNoBound ==
  /\ pc = "traffic" /\ k <= Requests
  /\ k' = k + 1
  /\ IF proc[Agent] = "listening" /\ ~intercept
       THEN /\ served' = (served \/ proc[Server] = "listening")
            /\ \/ pending' = [pending EXCEPT !.ok = @ + 1]
               \/ pending' = [pending EXCEPT !.fail = @ + 1]
               \/ UNCHANGED pending
       ELSE UNCHANGED <<served, pending>>
  /\ UNCHANGED <<pc, proc, spawned, intercept, metrics, initial, final, ok, j,
                 exitCode, cutCleanup>>

\* Mutant of SendRequest: the request counter is not advanced.
SendRequestNoCount ==
  /\ pc = "traffic" /\ k < Requests
  /\ IF proc[Agent] = "listening" /\ ~intercept
       THEN /\ served' = (served \/ proc[Server] = "listening")
            /\ \/ pending' = [pending EXCEPT !.ok = @ + 1]
               \/ pending' = [pending EXCEPT !.fail = @ + 1]
               \/ UNCHANGED pending
       ELSE UNCHANGED <<served, pending>>
  /\ UNCHANGED <<pc, proc, spawned, intercept, k, metrics, initial, final, ok, j,
                 exitCode, cutCleanup>>

\* One request of generate_test_traffic (lines 149-171).  A listening
\* agent with interception off relays it: 200 when the test server
\* listens, a gateway error otherwise, and the agent queues a capture that
\* succeeds, fails or is not attempted.  With interception on the request
\* is held until its 10 s timeout; without an agent it is refused.  Any
\* exception is only printed.
SendRequest ==
  /\ pc = "traffic" /\ k < Requests
  /\ k' = k + 1
  /\ IF proc[Agent] = "listening" /\ ~intercept
       THEN /\ served' = (served \/ proc[Server] = "listening")
            /\ \/ pending' = [pending EXCEPT !.ok = @ + 1]
               \/ pending' = [pending EXCEPT !.fail = @ + 1]
               \/ UNCHANGED pending
       ELSE UNCHANGED <<served, pending>>
  /\ UNCHANGED <<pc, proc, spawned, intercept, metrics, initial, final, ok, j,
                 exitCode, cutCleanup>>

\* The end of generate_test_traffic (line 174) and lines 190-192.
FinishTraffic ==
  /\ pc = "traffic" /\ k = Requests
  /\ IF served THEN pc' = "snapshot2" /\ UNCHANGED ok ELSE Return(FALSE)
  /\ UNCHANGED <<proc, spawned, intercept, k, served, pending, metrics, initial,
                 final, j, exitCode, cutCleanup>>

\* sleep(2), the final metrics and their validation (lines 194-207); the
\* verdict is what run_test returns (lines 319-327).
FinalSnapshot ==
  /\ pc = "snapshot2"
  /\ \E m \in AdminMetrics :
       IF m = NoSnapshot
         THEN Return(FALSE) /\ UNCHANGED final
         ELSE final' = m /\ Return(MetricsValid(initial, m))
  /\ UNCHANGED <<proc, spawned, intercept, k, served, pending, metrics, initial,
                 j, exitCode, cutCleanup>>

\* Mutant of StopNext: the loop stops before the last entry.
StopNextOffByOne ==
  /\ pc = "stop"
  /\ IF j >= Len(CleanupOrder)
       THEN pc' = "exit" /\ UNCHANGED <<proc, j>>
       ELSE LET s == CleanupOrder[j] IN
            IF s \in spawned /\ Alive(s)
              THEN /\ proc' = [proc EXCEPT ![s] = "stopping"]
                   /\ pc' = "wait" /\ UNCHANGED j
              ELSE j' = j + 1 /\ UNCHANGED <<pc, proc>>
  /\ UNCHANGED <<spawned, intercept, k, served, pending, metrics, initial, final,
                 ok, exitCode, cutCleanup>>

\* One entry of cleanup()'s loop (lines 279-290): a process whose poll()
\* says it is still running gets SIGTERM; the others are skipped.
StopNext ==
  /\ pc = "stop"
  /\ IF j > Len(CleanupOrder)
       THEN pc' = "exit" /\ UNCHANGED <<proc, j>>
       ELSE LET s == CleanupOrder[j] IN
            IF s \in spawned /\ Alive(s)
              THEN /\ proc' = [proc EXCEPT ![s] = "stopping"]
                   /\ pc' = "wait" /\ UNCHANGED j
              ELSE j' = j + 1 /\ UNCHANGED <<pc, proc>>
  /\ UNCHANGED <<spawned, intercept, k, served, pending, metrics, initial, final,
                 ok, exitCode, cutCleanup>>

\* wait(timeout=5), and on TimeoutExpired kill() and wait() (lines
\* 290-294): the process has exited when the step ends.
WaitOrKill ==
  /\ pc = "wait"
  /\ proc' = [proc EXCEPT ![CleanupOrder[j]] = "exited"]
  /\ j' = j + 1 /\ pc' = "stop"
  /\ UNCHANGED <<spawned, intercept, k, served, pending, metrics, initial, final,
                 ok, exitCode, cutCleanup>>

\* Mutant of Exit: main() returns 0 whatever run_test() returned.
ExitIgnoresVerdict ==
  /\ pc = "exit"
  /\ pc' = "done" /\ exitCode' = 0
  /\ UNCHANGED <<proc, spawned, intercept, k, served, pending, metrics, initial,
                 final, ok, j, cutCleanup>>

\* main returns 0 when run_test() passed, else 1 (lines 352-355).
Exit ==
  /\ pc = "exit"
  /\ pc' = "done" /\ exitCode' = IF ok THEN 0 ELSE 1
  /\ UNCHANGED <<proc, spawned, intercept, k, served, pending, metrics, initial,
                 final, ok, j, cutCleanup>>

RunPhases == {"startOrch", "checkOrch", "startAgent", "checkAgent",
              "startServer", "checkServer", "snapshot1", "traffic", "snapshot2"}

\* One Ctrl+C.  Inside run_test()'s try it is caught and run_test()
\* returns False (lines 329-331).  Inside cleanup() only Exception is
\* caught, so it ends the interpreter with the uncaught KeyboardInterrupt
\* (status 130) and the remaining processes are not stopped.
Interrupt ==
  /\ exitCode = -1 /\ ~cutCleanup
  /\ \/ pc \in RunPhases /\ Return(FALSE) /\ UNCHANGED <<exitCode, cutCleanup>>
     \/ /\ pc \in {"stop", "wait"}
        /\ pc' = "done" /\ exitCode' = 130 /\ cutCleanup' = TRUE
        /\ UNCHANGED ok
  /\ UNCHANGED <<proc, spawned, intercept, k, served, pending, metrics, initial,
                 final, j>>

\* The services (spec.md section 6).  The agent counts a queued capture
\* while it runs: every capture is an attempt, a successful one adds
\* bytes.
Bind(s) ==
  /\ proc[s] = "starting"
  /\ proc' = [proc EXCEPT ![s] = "listening"]
  /\ UNCHANGED <<pc, spawned, intercept, k, served, pending, metrics, initial,
                 final, ok, j, exitCode, cutCleanup>>

ProcessExits(s) ==
  /\ Alive(s)
  /\ proc' = [proc EXCEPT ![s] = "exited"]
  /\ UNCHANGED <<pc, spawned, intercept, k, served, pending, metrics, initial,
                 final, ok, j, exitCode, cutCleanup>>

CountCapture ==
  /\ proc[Agent] \in {"listening", "stopping"}
  /\ \/ /\ pending.ok > 0
        /\ pending' = [pending EXCEPT !.ok = @ - 1]
        /\ metrics' = [metrics EXCEPT !.attempts = @ + 1,
                                      !.successes = @ + 1, !.bytes = @ + 1]
     \/ /\ pending.fail > 0
        /\ pending' = [pending EXCEPT !.fail = @ - 1]
        /\ metrics' = [metrics EXCEPT !.attempts = @ + 1]
  /\ UNCHANGED <<pc, proc, spawned, intercept, k, served, initial, final, ok, j,
                 exitCode, cutCleanup>>

Harness ==
  \/ CheckBinaries \/ StartOrchestrator \/ CheckOrchestrator
  \/ StartProxyAgent \/ CheckProxyAgent \/ StartTestServer \/ CheckTestServer
  \/ InitialSnapshot \/ SendRequest \/ FinishTraffic \/ FinalSnapshot
  \/ StopNext \/ WaitOrKill \/ Exit

Environment ==
  \/ \E s \in Services : Bind(s) \/ ProcessExits(s)
  \/ CountCapture
  \/ Interrupt

Finished == pc = "done" /\ UNCHANGED vars

Next == Harness \/ Environment \/ Finished

\* Every harness step is a bounded sleep, a bounded request or a wait()
\* that returns after kill(), so the controller keeps stepping.
Spec == Init /\ [][Next]_vars /\ WF_vars(Harness)

-----------------------------------------------------------------------------
\* Each variable holds a value of its kind.
TypeOK ==
  /\ pc \in RunPhases \cup {"main", "stop", "wait", "exit", "done"}
  /\ proc \in [Services -> ProcState]
  /\ spawned \subseteq Services /\ intercept \in BOOLEAN
  /\ k \in 0..Requests /\ served \in BOOLEAN
  /\ pending \in [ok : 0..Requests, fail : 0..Requests]
  /\ metrics \in Counters
  /\ initial \in Counters \cup {NoSnapshot}
  /\ final \in Counters \cup {NoSnapshot}
  /\ ok \in BOOLEAN /\ j \in 1..(Len(CleanupOrder) + 1)
  /\ exitCode \in {-1, 0, 1, 130} /\ cutCleanup \in BOOLEAN

\* The entries of cleanup()'s list from the one its loop is on.
NotReached == {CleanupOrder[n] : n \in j..Len(CleanupOrder)}

\* cleanup() stops every process run_test() started: when the interpreter
\* exits, every spawned service has exited, except, when a Ctrl+C broke
\* out of cleanup() itself, the entry the loop was on and those after it.
NoOrphanServices ==
  pc = "done" =>
    \A s \in spawned : proc[s] = "exited" \/ (cutCleanup /\ s \in NotReached)

\* The harness turns interception off before it sends traffic, so that
\* requests are relayed without review (spec.md section 6).
InterceptionOffBeforeTraffic == pc = "traffic" => ~intercept

\* The harness always ends: every loop is bounded.
Terminates == <>(pc = "done")

-----------------------------------------------------------------------------
\* The refinement mapping onto the TestRunner of spec.md section 4.6.  The
\* start methods launch and check one service after the other; from the
\* first check on, the harness awaits readiness, and the later launches
\* are steps inside that phase.  The baseline snapshot belongs to the
\* traffic phase, the final one to verification.  The verdict is what
\* run_test() returned, and once main() has returned, its exit status.
TRPhase ==
  CASE pc = "main"                           -> "Idle"
    [] pc = "startOrch"                      -> "Launching"
    [] pc \in {"checkOrch", "startAgent", "checkAgent", "startServer",
               "checkServer"}                -> "AwaitingReady"
    [] pc \in {"snapshot1", "traffic"}       -> "GeneratingTraffic"
    [] pc = "snapshot2"                      -> "Verifying"
    [] pc \in {"stop", "wait", "exit"}       -> "CleaningUp"
    [] pc = "done"                           -> "Done"

TRVerdict ==
  CASE pc \in RunPhases \cup {"main"} -> "none"
    [] pc = "done"                    -> IF exitCode = 0 THEN "passed" ELSE "failed"
    [] OTHER                          -> IF ok THEN "passed" ELSE "failed"

TR == INSTANCE TestRunner WITH phase <- TRPhase, verdict <- TRVerdict

\* The harness implements the TestRunner: its phases follow the spec's
\* order, cleanup is the only way from a running phase to the exit, only
\* the final verification can report a pass, and the exit status is the
\* verdict unless cleanup itself was interrupted.
ImplementsTestRunner == TR!Spec

-----------------------------------------------------------------------------
\* The refinement mapping onto the MetricsVerifier of spec.md section 4.5,
\* which verify_performance_metrics (lines 176-207) implements.  verify is
\* entered at the baseline snapshot; before that, and when the harness
\* stops before it, there is no metrics verdict yet.  The verdict is what
\* run_test() returned once cleanup has begun.
MVPhase ==
  CASE pc = "snapshot1"                    -> "before"
    [] pc = "traffic"                      -> "traffic"
    [] pc = "snapshot2"                    -> "after"
    [] pc \in {"stop", "wait", "exit", "done"} -> "done"
    [] OTHER                               -> "idle"

MVResult ==
  IF MVPhase = "done" THEN IF ok THEN "passed" ELSE "failed" ELSE "none"

\* average_latency_ms > 0 (lines 261-265): the agent times every capture
\* it counts, so the average is positive once it counted one.
LatencyTimed(s) == s.attempts > 0

MV == INSTANCE MetricsVerifier
        WITH phase <- MVPhase, before <- initial, after <- final,
             result <- MVResult, Snapshots <- Counters,
             LatencyRecorded <- LatencyTimed

\* verify_performance_metrics implements the MetricsVerifier: the baseline
\* is taken before the first request and the final snapshot after the
\* last, and a pass is exactly the assertions of section 4.5 holding on
\* the two snapshots it took.
ImplementsMetricsVerifier == MV!Spec
=============================================================================
