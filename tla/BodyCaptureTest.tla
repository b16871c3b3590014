-------------------------- MODULE BodyCaptureTest --------------------------
(***************************************************************************)
(* The response-body capture harness of src/test_response_body_capture.py *)
(* (ResponseBodyCaptureTest and main).                                     *)
(*                                                                         *)
(* One sequential controller starts the orchestrator and the proxy agent,  *)
(* each with a window of polls for an early exit and a bounded probe loop, *)
(* turns interception off, sends the test URLs through the agent, reads    *)
(* the captured records back and grades each one with four checks, then   *)
(* cleans up and exits with status 0 or 1.  The two services and the      *)
(* upstream site are the environment.                                      *)
(***************************************************************************)
EXTENDS Integers, Sequences, FiniteSets

CONSTANTS
  TEST_URLS,   \* the test URLs, in the order of TEST_URLS
  Polls,       \* iterations of the early-exit poll loops (code: 10)
  Probes       \* iterations of the endpoint probe loops (code: 5)

ASSUME /\ TEST_URLS \in Seq(STRING) /\ TEST_URLS # <<>>
       /\ Polls \in Nat \ {0} /\ Probes \in Nat \ {0}

Orch == "orchestrator"
Agent == "proxy_agent"
Services == {Orch, Agent}

ProcState == {"none", "starting", "listening", "stopping", "exited"}

\* A probe's outcome: an accepted status (200 or 405 for the GraphQL GET,
\* 200 for the request through the proxy), another status, or a
\* RequestException (refused, timed out).
ProbeAnswer == {"accepted", "other", "exception"}

\* A captured responseBody as the four checks see it: null, blank (empty
\* or whitespace), structured (valid JSON, or containing <html / <?xml), or
\* unstructured (any other text, truncated JSON included).
Bodies == {"null", "blank", "structured", "unstructured"}

Urls == {TEST_URLS[k] : k \in DOMAIN TEST_URLS}
Record == [url : Urls, body : Bodies, headers : BOOLEAN]

VARIABLES
  pc,          \* position in run() / main()
  proc,        \* OS process of each service
  spawned,     \* services whose *_process attribute holds a Popen handle
  n,           \* iterations done of the current poll loop
  attempt,     \* iterations done of the current probe loop
  accepted,    \* services a probe saw answer with an accepted status
  i,           \* index of the next test URL in generate_test_traffic
  served,      \* generate_test_traffic saw at least one HTTP 200
  inflight,    \* captures taken by the agent, not yet stored
  store,       \* the orchestrator's request store (this run's test URLs)
  toCheck,     \* test records the detail loop has still to grade
  graded,     \* success_count > 0 in verify_response_body_capture
  ok,          \* run()'s return value
  exitCode,    \* main()'s exit status, -1 before
  cutCleanup   \* the cleanup step a KeyboardInterrupt escaped from, or "none"

vars == <<pc, proc, spawned, n, attempt, accepted, i, served, inflight, store,
          toCheck, graded, ok, exitCode, cutCleanup>>

Alive(s) == proc[s] \in {"starting", "listening", "stopping"}

\* The four checks of lines 406-441 and the 3-of-4 threshold of line 447.
ChecksPassed(r) ==
  Cardinality({c \in 1..4 :
    \/ c = 1 /\ r.body # "null"
    \/ c = 2 /\ r.body \in {"structured", "unstructured"}
    \/ c = 3 /\ r.headers
    \/ c = 4 /\ r.body = "structured"})

\* Mutant of CaptureOK: a threshold of 2 of the 4 checks.
CaptureOKTwoOfFour(r) == ChecksPassed(r) >= 2

CaptureOK(r) == ChecksPassed(r) >= 3

-----------------------------------------------------------------------------
Init ==
  /\ pc = "orchStart"
  /\ proc = [s \in Services |-> "none"]
  /\ spawned = {}
  /\ n = 0 /\ attempt = 0
  /\ accepted = {}
  /\ i = 1 /\ served = FALSE
  /\ inflight = {} /\ store = {}
  /\ toCheck = {} /\ graded = FALSE
  /\ ok = FALSE /\ exitCode = -1 /\ cutCleanup = "none"

\* run() returns `ok` and its `finally` starts cleanup with the agent.
Return(result) == pc' = "stopAgent" /\ ok' = result

\* start_orchestrator / start_proxy_agent up to Popen (lines 91-113 and
\* 154-190): a missing binary returns False; Popen raising is caught and
\* returns False; otherwise the process starts and the poll loop begins.
Launch(s, next) ==
  \/ /\ Return(FALSE)
     /\ UNCHANGED <<proc, spawned>>
  \/ /\ proc' = [proc EXCEPT ![s] = "starting"]
     /\ spawned' = spawned \cup {s}
     /\ pc' = next
     /\ UNCHANGED ok

\* Mutant of Poll: the counter is not reset when the loop ends, so the
\* agent's loop starts where the orchestrator's stopped.
PollNoReset(s, next) ==
  IF proc[s] = "exited"
    THEN Return(FALSE) /\ UNCHANGED n
    ELSE /\ n' = n + 1
         /\ pc' = IF n + 1 = Polls THEN next ELSE pc
         /\ UNCHANGED ok

\* One iteration of the poll loop (lines 118-126, 195-203): sleep(1), then
\* an exited process makes the start return False.
Poll(s, next) ==
  IF proc[s] = "exited"
    THEN Return(FALSE) /\ UNCHANGED n
    ELSE /\ n' = IF n + 1 = Polls THEN 0 ELSE n + 1
         /\ pc' = IF n + 1 = Polls THEN next ELSE pc
         /\ UNCHANGED ok

\* Mutant of Probe: an exception retries without counting the attempt.
ProbeNoCount(s, next) ==
  \E answer \in (IF proc[s] = "listening" THEN ProbeAnswer ELSE {"exception"}) :
    CASE answer = "accepted" ->
           /\ accepted' = accepted \cup {s}
           /\ pc' = next /\ attempt' = 0 /\ UNCHANGED ok
      [] answer = "other" /\ attempt + 1 < Probes ->
           attempt' = attempt + 1 /\ UNCHANGED <<pc, ok, accepted>>
      [] answer = "other" ->
           pc' = next /\ attempt' = 0 /\ UNCHANGED <<ok, accepted>>
      [] OTHER ->
           UNCHANGED <<pc, ok, accepted, attempt>>

\* One iteration of the probe loop (lines 130-144, 207-226).  An accepted
\* status returns True.  Another status goes straight to the next
\* iteration, and when the loop runs out that way the method falls through
\* to `return True`.  An exception sleeps and retries, or returns False
\* on the last iteration.
Probe(s, next) ==
  \E answer \in (IF proc[s] = "listening" THEN ProbeAnswer ELSE {"exception"}) :
    CASE answer = "accepted" ->
           /\ accepted' = accepted \cup {s}
           /\ pc' = next /\ attempt' = 0 /\ UNCHANGED ok
      [] answer = "other" /\ attempt + 1 < Probes ->
           attempt' = attempt + 1 /\ UNCHANGED <<pc, ok, accepted>>
      [] answer = "other" ->
           pc' = next /\ attempt' = 0 /\ UNCHANGED <<ok, accepted>>
      [] attempt + 1 < Probes ->
           attempt' = attempt + 1 /\ UNCHANGED <<pc, ok, accepted>>
      [] OTHER ->
           Return(FALSE) /\ UNCHANGED <<attempt, accepted>>

StartOrchestrator ==
  /\ pc = "orchStart"
  /\ Launch(Orch, "orchPoll")
  /\ UNCHANGED <<n, attempt, accepted, i, served, inflight, store, toCheck,
                 graded, exitCode, cutCleanup>>

PollOrchestrator ==
  /\ pc = "orchPoll"
  /\ Poll(Orch, "orchProbe")
  /\ UNCHANGED <<proc, spawned, attempt, accepted, i, served, inflight, store,
                 toCheck, graded, exitCode, cutCleanup>>

ProbeOrchestrator ==
  /\ pc = "orchProbe"
  /\ Probe(Orch, "agentStart")
  /\ UNCHANGED <<proc, spawned, n, i, served, inflight, store, toCheck, graded,
                 exitCode, cutCleanup>>

StartProxyAgent ==
  /\ pc = "agentStart"
  /\ Launch(Agent, "agentPoll")
  /\ UNCHANGED <<n, attempt, accepted, i, served, inflight, store, toCheck,
                 graded, exitCode, cutCleanup>>

PollProxyAgent ==
  /\ pc = "agentPoll"
  /\ Poll(Agent, "agentProbe")
  /\ UNCHANGED <<proc, spawned, attempt, accepted, i, served, inflight, store,
                 toCheck, graded, exitCode, cutCleanup>>

ProbeProxyAgent ==
  /\ pc = "agentProbe"
  /\ Probe(Agent, "toggle")
  /\ UNCHANGED <<proc, spawned, n, i, served, inflight, store, toCheck, graded,
                 exitCode, cutCleanup>>

\* disable_interception (lines 232-262): no answer (the RequestException is
\* re-raised by graphql_query and caught here), GraphQL errors or
\* `enabled` still true make it return False.
DisableInterception ==
  /\ pc = "toggle"
  /\ \/ proc[Orch] = "listening" /\ pc' = "traffic" /\ UNCHANGED ok
     \/ Return(FALSE)
  /\ UNCHANGED <<proc, spawned, n, attempt, accepted, i, served, inflight, store,
                 toCheck, graded, exitCode, cutCleanup>>

\* One iteration of generate_test_traffic (lines 275-301).  Through a
\* listening agent the request is answered, with 200 or another status
\* (an upstream error, a timeout), and the agent may take a capture of it
\* with whatever body and headers it recorded.  Otherwise it raises and
\* the broad except only logs it.
SendTestUrl ==
  /\ pc = "traffic"
  /\ i <= Len(TEST_URLS)
  /\ i' = i + 1
  /\ \/ /\ proc[Agent] = "listening"
        /\ \E status200 \in BOOLEAN : served' = (served \/ status200)
        /\ \/ \E r \in {rec \in Record : rec.url = TEST_URLS[i]} :
                 inflight' = inflight \cup {r}
           \/ UNCHANGED inflight
     \/ UNCHANGED <<served, inflight>>
  /\ UNCHANGED <<pc, proc, spawned, n, attempt, accepted, store, toCheck, graded,
                 ok, exitCode, cutCleanup>>

\* The end of generate_test_traffic (lines 303-309): sleep(10) and
\* `success_count > 0`.
FinishTraffic ==
  /\ pc = "traffic"
  /\ i > Len(TEST_URLS)
  /\ IF served THEN pc' = "verifyList" /\ UNCHANGED ok ELSE Return(FALSE)
  /\ UNCHANGED <<proc, spawned, n, attempt, accepted, i, served, inflight, store,
                 toCheck, graded, exitCode, cutCleanup>>

\* The list query and the URL filter of verify_response_body_capture
\* (lines 315-357).  The store holds only this run's records (the project
\* directory was removed at start), and the filter keeps those of the
\* test URLs, which are the records the model stores.  No answer, GraphQL
\* errors or no test record make it return False.
ListRequests ==
  /\ pc = "verifyList"
  /\ \/ /\ proc[Orch] = "listening" /\ store # {}
        /\ toCheck' = store /\ graded' = FALSE
        /\ pc' = "verifyDetail" /\ UNCHANGED ok
     \/ Return(FALSE) /\ UNCHANGED <<toCheck, graded>>
  /\ UNCHANGED <<proc, spawned, n, attempt, accepted, i, served, inflight, store,
                 exitCode, cutCleanup>>

\* One iteration of the detail loop (lines 362-456).  No answer raises out
\* of the loop and the method returns False, whatever was graded before;
\* GraphQL errors or a null request skip the record; otherwise the record
\* counts when it passes at least 3 of the 4 checks.  After the loop the
\* method returns True when at least one record counted (lines 464-472).
CheckRecord ==
  /\ pc = "verifyDetail"
  /\ IF toCheck = {}
       THEN Return(graded) /\ UNCHANGED <<toCheck, graded>>
       ELSE LET r == CHOOSE x \in toCheck : TRUE IN
            \/ /\ proc[Orch] = "listening"
               /\ toCheck' = toCheck \ {r}
               /\ \/ graded' = (graded \/ CaptureOK(r))
                  \/ UNCHANGED graded
               /\ UNCHANGED <<pc, ok>>
            \/ /\ proc[Orch] # "listening"
               /\ Return(FALSE) /\ UNCHANGED <<toCheck, graded>>
  /\ UNCHANGED <<proc, spawned, n, attempt, accepted, i, served, inflight, store,
                 exitCode, cutCleanup>>

\* cleanup (lines 478-510), one service at a time, agent first.
\* terminate() on a live handle sends SIGTERM.
Terminate(s, next) ==
  IF s \in spawned
    THEN /\ proc' = [proc EXCEPT ![s] = IF Alive(s) THEN "stopping" ELSE @]
         /\ pc' = next
    ELSE /\ pc' = IF s = Agent THEN "stopOrch" ELSE "exit"
         /\ UNCHANGED proc

\* Mutant of WaitOrKill: TimeoutExpired is swallowed without kill().
WaitWithoutKill(s, next) ==
  /\ \/ proc' = [proc EXCEPT ![s] = "exited"]
     \/ UNCHANGED proc
  /\ pc' = next

\* wait(timeout=5); on TimeoutExpired kill() and wait(): either way the
\* process has exited when the step ends.
WaitOrKill(s, next) ==
  /\ proc' = [proc EXCEPT ![s] = "exited"]
  /\ pc' = next

StopProxyAgent ==
  /\ pc = "stopAgent"
  /\ Terminate(Agent, "waitAgent")
  /\ UNCHANGED <<spawned, n, attempt, accepted, i, served, inflight, store,
                 toCheck, graded, ok, exitCode, cutCleanup>>

WaitProxyAgent ==
  /\ pc = "waitAgent"
  /\ WaitOrKill(Agent, "stopOrch")
  /\ UNCHANGED <<spawned, n, attempt, accepted, i, served, inflight, store,
                 toCheck, graded, ok, exitCode, cutCleanup>>

StopOrchestrator ==
  /\ pc = "stopOrch"
  /\ Terminate(Orch, "waitOrch")
  /\ UNCHANGED <<spawned, n, attempt, accepted, i, served, inflight, store,
                 toCheck, graded, ok, exitCode, cutCleanup>>

WaitOrchestrator ==
  /\ pc = "waitOrch"
  /\ WaitOrKill(Orch, "exit")
  /\ UNCHANGED <<spawned, n, attempt, accepted, i, served, inflight, store,
                 toCheck, graded, ok, exitCode, cutCleanup>>

\* Mutant of Exit: main() exits 0 whatever run() returned.
ExitIgnoresVerdict ==
  /\ pc = "exit"
  /\ pc' = "done"
  /\ exitCode' = 0
  /\ UNCHANGED <<proc, spawned, n, attempt, accepted, i, served, inflight,
                 store, toCheck, graded, ok, cutCleanup>>

\* main (lines 564-593): sys.exit(0) when run() returned True, else 1.
Exit ==
  /\ pc = "exit"
  /\ pc' = "done"
  /\ exitCode' = IF ok THEN 0 ELSE 1
  /\ UNCHANGED <<proc, spawned, n, attempt, accepted, i, served, inflight,
                 store, toCheck, graded, ok, cutCleanup>>

RunPhases == {"orchStart", "orchPoll", "orchProbe", "agentStart", "agentPoll",
              "agentProbe", "toggle", "traffic", "verifyList", "verifyDetail"}
CleanupPhases == {"stopAgent", "waitAgent", "stopOrch", "waitOrch"}

\* One Ctrl+C.  Inside run()'s try it is caught (lines 540-542): run()
\* returns False and `finally` cleans up.  Inside cleanup() nothing catches
\* it (its handlers catch Exception only), so it leaves cleanup() and
\* run(), and main() exits with status 1 (lines 595-597).
Interrupt ==
  /\ exitCode = -1 /\ cutCleanup = "none"
  /\ \/ pc \in RunPhases /\ Return(FALSE) /\ UNCHANGED <<exitCode, cutCleanup>>
     \/ /\ pc \in CleanupPhases
        /\ pc' = "done" /\ exitCode' = 1 /\ cutCleanup' = pc
        /\ UNCHANGED ok
  /\ UNCHANGED <<proc, spawned, n, attempt, accepted, i, served, inflight,
                 store, toCheck, graded>>

\* The services (spec.md section 6): a started process binds its port or
\* dies; a live one can die at any time; the capture pipeline stores a
\* capture while the agent and the orchestrator both run.
Bind(s) ==
  /\ proc[s] = "starting"
  /\ proc' = [proc EXCEPT ![s] = "listening"]
  /\ UNCHANGED <<pc, spawned, n, attempt, accepted, i, served, inflight, store,
                 toCheck, graded, ok, exitCode, cutCleanup>>

ProcessExits(s) ==
  /\ Alive(s)
  /\ proc' = [proc EXCEPT ![s] = "exited"]
  /\ UNCHANGED <<pc, spawned, n, attempt, accepted, i, served, inflight, store,
                 toCheck, graded, ok, exitCode, cutCleanup>>

StoreCapture ==
  /\ proc[Orch] = "listening" /\ proc[Agent] \in {"listening", "stopping"}
  /\ \E r \in inflight :
       /\ inflight' = inflight \ {r}
       /\ store' = store \cup {r}
  /\ UNCHANGED <<pc, proc, spawned, n, attempt, accepted, i, served, toCheck,
                 graded, ok, exitCode, cutCleanup>>

Harness ==
  \/ StartOrchestrator \/ PollOrchestrator \/ ProbeOrchestrator
  \/ StartProxyAgent \/ PollProxyAgent \/ ProbeProxyAgent
  \/ DisableInterception \/ SendTestUrl \/ FinishTraffic
  \/ ListRequests \/ CheckRecord
  \/ StopProxyAgent \/ WaitProxyAgent \/ StopOrchestrator \/ WaitOrchestrator
  \/ Exit

Environment ==
  \/ \E s \in Services : Bind(s) \/ ProcessExits(s)
  \/ StoreCapture
  \/ Interrupt

\* The interpreter has exited; nothing happens any more.
Finished == pc = "done" /\ UNCHANGED vars

Next == Harness \/ Environment \/ Finished

\* The controller only sleeps for bounded times between its steps, and
\* wait() after kill() returns, so the controller keeps stepping.
Spec == Init /\ [][Next]_vars /\ WF_vars(Harness)

-----------------------------------------------------------------------------
\* Each variable holds a value of its kind.
TypeOK ==
  /\ pc \in RunPhases \cup CleanupPhases \cup {"exit", "done"}
  /\ proc \in [Services -> ProcState]
  /\ spawned \subseteq Services /\ accepted \subseteq Services
  /\ n \in 0..Polls /\ attempt \in 0..(Probes - 1)
  /\ i \in 1..(Len(TEST_URLS) + 1) /\ served \in BOOLEAN
  /\ inflight \subseteq Record /\ store \subseteq Record
  /\ toCheck \subseteq store /\ graded \in BOOLEAN
  /\ ok \in BOOLEAN /\ exitCode \in {-1, 0, 1} /\ cutCleanup \in CleanupPhases \cup {"none"}

\* The services a Ctrl+C that escaped cleanup() at step `at` leaves
\* unstopped: cleanup stops the proxy agent, then the orchestrator.
LeftRunning(at) ==
  CASE at \in {"stopAgent", "waitAgent"} -> {Agent, Orch}
    [] at \in {"stopOrch", "waitOrch"}   -> {Orch}
    [] OTHER                             -> {}

\* cleanup() stops every process run() started: when the interpreter
\* exits, every spawned service has exited, except those a Ctrl+C that
\* broke out of cleanup() itself kept it from reaching.
NoOrphanServices ==
  pc = "done" =>
    \A s \in spawned : proc[s] = "exited" \/ s \in LeftRunning(cutCleanup)

\* Exit status 0 is backed by the store: some captured test record has a
\* non-empty response body, and headers or a well-formed body, whatever
\* the order of the captures, the list query and the detail queries.
ExitZeroIsBacked ==
  exitCode = 0 =>
    \E r \in store :
      /\ r.body \in {"structured", "unstructured"}
      /\ r.headers \/ r.body = "structured"

\* Traffic is only sent after a probe saw each service answer with an
\* accepted status: spec.md section 4.2 makes running out of probe
\* attempts a StartupFailure.
ReadyOnlyWhenAnswered ==
  pc \in {"toggle", "traffic", "verifyList", "verifyDetail"} =>
    accepted = Services

\* The harness always ends: every loop of run() is bounded.
Terminates == <>(pc = "done")

-----------------------------------------------------------------------------
\* The refinement mapping onto the TestRunner of spec.md section 4.6.  The
\* binary check and Popen of the orchestrator start the run; its poll loop
\* is launching; from its probes on, the harness awaits readiness (the
\* agent's launch is a step inside that phase).  Disabling interception
\* belongs to traffic generation, the list and detail queries to
\* verification.  The verdict is what run() returned, and once main() has
\* exited, its exit status.
TRPhase ==
  CASE pc = "orchStart"                         -> "Idle"
    [] pc = "orchPoll"                          -> "Launching"
    [] pc \in {"orchProbe", "agentStart", "agentPoll",
               "agentProbe"}                    -> "AwaitingReady"
    [] pc \in {"toggle", "traffic"}             -> "GeneratingTraffic"
    [] pc \in {"verifyList", "verifyDetail"}    -> "Verifying"
    [] pc \in CleanupPhases \cup {"exit"}       -> "CleaningUp"
    [] pc = "done"                              -> "Done"

TRVerdict ==
  CASE pc \in RunPhases -> "none"
    [] pc = "done"     -> IF exitCode = 0 THEN "passed" ELSE "failed"
    [] OTHER           -> IF ok THEN "passed" ELSE "failed"

TR == INSTANCE TestRunner WITH phase <- TRPhase, verdict <- TRVerdict

\* The harness implements the TestRunner: its phases follow the spec's
\* order, every way out of a running phase passes through cleanup, only
\* the detail verification can report a pass, and the exit status is the
\* verdict unless cleanup itself was interrupted.
ImplementsTestRunner == TR!Spec
=============================================================================
