-------------------------- MODULE IntegrationTest --------------------------
(***************************************************************************)
(* The integration harness of src/test_integration.py (IntegrationTest).   *)
(*                                                                         *)
(* The harness is one sequential controller (pc) that launches the three   *)
(* services of the system under test, probes their ports, replays the      *)
(* scenarios through the relay, reads the captured records back through    *)
(* the GraphQL interface, checks the critical ones, waits for the user and *)
(* cleans up.  The services are independent OS processes: they bind,      *)
(* crash and exit on their own, and the capture pipeline writes records    *)
(* to the store asynchronously.  Those are the environment actions.        *)
(***************************************************************************)
EXTENDS Integers, Sequences, SequencesExt, FiniteSets

CONSTANTS
  SCENARIOS,      \* the scenario paths, in the order of SCENARIOS
  CRITICALS,      \* the paths of verify_capture's `criticals`, in order
  InUrl(_, _),    \* InUrl(ep, t): path ep occurs in the URL built for path t
  MaxOrchProbes,  \* iterations of the orchestrator port loop (code: 15)
  MaxAgentProbes  \* iterations of the proxy agent port loop (code: 10)

ASSUME /\ SCENARIOS \in Seq(STRING) /\ CRITICALS \in Seq(STRING)
       /\ Range(CRITICALS) \subseteq Range(SCENARIOS)
       /\ MaxOrchProbes \in Nat \ {0} /\ MaxAgentProbes \in Nat \ {0}

\* The services, launched in this order by start_services.
Orch == "orchestrator"
Server == "test_server"
Agent == "proxy_agent"
Services == {Orch, Server, Agent}

\* An OS process as the harness can observe it.
ProcState == {"none", "starting", "listening", "stopping", "exited"}

\* What the capture pipeline stored as the response body of a record:
\* "intact" passes the content check of its endpoint (server_time marker,
\* echoed test_id, more than 10000 characters), "corrupt" is a string that
\* fails it (empty, truncated, a 502 page), "null" is a JSON null.
Bodies == {"intact", "corrupt", "null"}

Eps == Range(SCENARIOS)
Record == [ep : Eps, body : Bodies]

VARIABLES
  pc,         \* the harness's position in run()
  proc,       \* proc[s]: state of the OS process of service s
  procs,      \* self.procs: handles in launch order
  attempt,    \* iterations done of the current port-probe loop
  intercept,  \* the orchestrator's interception switch
  i,          \* index of the next scenario in generate_traffic
  inflight,   \* captures handled by the agent, not yet in the store
  store,      \* the orchestrator's request store; a record's id is its index
  listed,     \* ids returned by the list query, in the order returned
  idMatrix,   \* self.id_matrix: scenario path -> request id
  k,          \* index of the next critical path in the deep check
  allGood,    \* verify_capture's `all_good`
  verdict,    \* the TEST RESULT line printed: "none", "PASSED", "FAILED"
  fault,      \* an exception is propagating out of run()
  exitCode,   \* the process exit status once pc = "done", -1 before
  j           \* index into procs of cleanup's loop

vars == <<pc, proc, procs, attempt, intercept, i, inflight, store,
          listed, idMatrix, k, allGood, verdict, fault, exitCode, j>>

Launched == Range(procs)
Alive(s) == proc[s] \in {"starting", "listening", "stopping"}

-----------------------------------------------------------------------------
(* Correlation (verify_capture, lines 158-161).                            *)

\* Some listed record's URL contains path ep.
HasHit(lst, ep) == \E n \in DOMAIN lst : InUrl(ep, store[lst[n]].ep)

\* For every record returned, every scenario path found in its URL is
\* (re)assigned that record's id: a path ends up with the LAST listed
\* record whose URL contains it.
LastMatchMatrix(lst) ==
  [ep \in {e \in Eps : HasHit(lst, e)} |->
     lst[SelectLastInSeq(lst, LAMBDA id : InUrl(ep, store[id].ep))]]

\* The resolution spec.md (sections 3 and 9) prescribes: the FIRST record.
FirstMatchMatrix(lst) ==
  [ep \in {e \in Eps : HasHit(lst, e)} |->
     lst[SelectInSeq(lst, LAMBDA id : InUrl(ep, store[id].ep))]]

\* The content checks of lines 182-192 pass exactly on an intact body.
BodyPasses(body) == body = "intact"

-----------------------------------------------------------------------------
Init ==
  /\ pc = "start"
  /\ proc = [s \in Services |-> "none"]
  /\ procs = <<>>
  /\ attempt = 0
  /\ intercept = TRUE
  /\ i = 1
  /\ inflight = {}
  /\ store = <<>>
  /\ listed = <<>>
  /\ idMatrix = <<>>
  /\ k = 1
  /\ allGood = TRUE
  /\ verdict = "none"
  /\ fault = FALSE
  /\ exitCode = -1
  /\ j = 1

\* subprocess.Popen of service s: the process starts, or Popen raises
\* (missing binary) and the exception leaves run() through `finally`.
Spawn(s, next) ==
  \/ /\ proc' = [proc EXCEPT ![s] = "starting"]
     /\ procs' = Append(procs, s)
     /\ pc' = next
     /\ UNCHANGED fault
  \/ /\ pc' = "cleanup" /\ fault' = TRUE
     /\ UNCHANGED <<proc, procs>>

\* start_services, lines 83-91: remove the stale workspace, launch the
\* orchestrator.
StartOrchestrator ==
  /\ pc = "start"
  /\ Spawn(Orch, "probeOrch")
  /\ attempt' = 0
  /\ UNCHANGED <<intercept, i, inflight, store, listed, idMatrix, k, allGood,
                 verdict, exitCode, j>>

\* Faults of the probe loop: the retry counter is never advanced, or the
\* for-else never gives up.
ProbeOrchestratorNoCount ==
  /\ pc = "probeOrch"
  /\ IF proc[Orch] = "listening"
       THEN pc' = "launchServer"
       ELSE UNCHANGED pc
  /\ UNCHANGED <<proc, procs, attempt, intercept, i, inflight, store, listed,
                 idMatrix, k, allGood, verdict, fault, exitCode, j>>

ProbeOrchestratorNoGiveUp ==
  /\ pc = "probeOrch"
  /\ IF proc[Orch] = "listening"
       THEN pc' = "launchServer" /\ UNCHANGED attempt
       ELSE attempt' = attempt + 1 /\ UNCHANGED pc
  /\ UNCHANGED <<proc, procs, intercept, i, inflight, store, listed, idMatrix,
                 k, allGood, verdict, fault, exitCode, j>>

\* Lines 93-97: check_port(9090) and check_port(50051), then sleep(1);
\* after the last iteration the for-else makes start_services return
\* False, and run() skips to printing the id list and input().
ProbeOrchestrator ==
  /\ pc = "probeOrch"
  /\ IF proc[Orch] = "listening"
       THEN pc' = "launchServer" /\ UNCHANGED attempt
       ELSE /\ attempt' = attempt + 1
            /\ pc' = IF attempt + 1 = MaxOrchProbes THEN "awaitInput"
                                                    ELSE "probeOrch"
  /\ UNCHANGED <<proc, procs, intercept, i, inflight, store, listed, idMatrix,
                 k, allGood, verdict, fault, exitCode, j>>

\* Lines 100-105: launch the test server and sleep(2); it is never probed.
StartTestServer ==
  /\ pc = "launchServer"
  /\ Spawn(Server, "launchAgent")
  /\ UNCHANGED <<attempt, intercept, i, inflight, store, listed, idMatrix, k,
                 allGood, verdict, exitCode, j>>

\* Lines 108-112: launch the proxy agent.
StartProxyAgent ==
  /\ pc = "launchAgent"
  /\ Spawn(Agent, "probeAgent")
  /\ attempt' = 0
  /\ UNCHANGED <<intercept, i, inflight, store, listed, idMatrix, k, allGood,
                 verdict, exitCode, j>>

\* Lines 114-118: check_port(8080), then sleep(1), at most MaxAgentProbes
\* times.
ProbeProxyAgent ==
  /\ pc = "probeAgent"
  /\ IF proc[Agent] = "listening"
       THEN pc' = "toggle" /\ UNCHANGED attempt
       ELSE /\ attempt' = attempt + 1
            /\ pc' = IF attempt + 1 = MaxAgentProbes THEN "awaitInput"
                                                     ELSE "probeAgent"
  /\ UNCHANGED <<proc, procs, intercept, i, inflight, store, listed, idMatrix,
                 k, allGood, verdict, fault, exitCode, j>>

\* Line 123: toggleInterception(enabled: false).  self.graphql swallows
\* every error, so the result is ignored; the switch only changes when
\* the orchestrator answers.
DisableInterception ==
  /\ pc = "toggle"
  /\ intercept' = (intercept /\ proc[Orch] # "listening")
  /\ pc' = "traffic"
  /\ UNCHANGED <<proc, procs, attempt, i, inflight, store, listed, idMatrix, k,
                 allGood, verdict, fault, exitCode, j>>

\* Lines 132-140, one scenario.  The request goes through the relay with a
\* 5 s timeout; any exception (refused connection, timeout, and also a
\* KeyboardInterrupt, caught by the bare except) only skips `success += 1`.
\* A 502 from the relay raises nothing and counts as a success.
\* The relay captures what it forwards; a held (intercepted) request is
\* not forwarded and times out.
SendScenario ==
  /\ pc = "traffic"
  /\ i <= Len(SCENARIOS)
  /\ LET ep == SCENARIOS[i]
         forwarded == proc[Agent] = "listening" /\ ~intercept
         served == {"intact", "corrupt", "null"}
         failed == {"corrupt", "null"}
     IN \/ /\ forwarded
           /\ \E b \in (IF proc[Server] = "listening" THEN served ELSE failed):
                inflight' = inflight \cup {[ep |-> ep, body |-> b]}
        \/ /\ ~forwarded
           /\ UNCHANGED inflight
  /\ i' = i + 1
  /\ UNCHANGED <<pc, proc, procs, attempt, intercept, store, listed, idMatrix,
                 k, allGood, verdict, fault, exitCode, j>>

\* Line 143: the fixed 5 s settle sleep after the last scenario.
Settle ==
  /\ pc = "traffic"
  /\ i > Len(SCENARIOS)
  /\ pc' = "list"
  /\ UNCHANGED <<proc, procs, attempt, intercept, i, inflight, store, listed,
                 idMatrix, k, allGood, verdict, fault, exitCode, j>>

\* Lines 150-161: the list query, then id_matrix.  self.graphql returns
\* None when the orchestrator does not answer, and verify_capture returns
\* False, printed as FAILED.  The order in which the store returns the
\* records is not specified: either insertion order or its reverse.
ListRequests ==
  /\ pc = "list"
  /\ IF proc[Orch] = "listening"
       THEN \E lst \in {[n \in 1..Len(store) |-> n],
                        Reverse([n \in 1..Len(store) |-> n])} :
              /\ listed' = lst
              /\ idMatrix' = LastMatchMatrix(lst)
              /\ pc' = "deep"
              /\ UNCHANGED verdict
       ELSE /\ pc' = "awaitInput" /\ verdict' = "FAILED"
            /\ UNCHANGED <<listed, idMatrix>>
  /\ UNCHANGED <<proc, procs, attempt, intercept, i, inflight, store, k,
                 allGood, fault, exitCode, j>>

\* Fault of the deep check: a path without an id is skipped, not failed.
CheckCriticalSkipMissing ==
  /\ pc = "deep"
  /\ k <= Len(CRITICALS)
  /\ LET ep == CRITICALS[k] IN
       IF ep \notin DOMAIN idMatrix
         THEN k' = k + 1 /\ UNCHANGED <<pc, fault, allGood>>
         ELSE LET body == store[idMatrix[ep]].body IN
              IF proc[Orch] # "listening" \/ body = "null"
                THEN /\ pc' = "cleanup" /\ fault' = TRUE
                     /\ UNCHANGED <<allGood, k>>
                ELSE /\ allGood' = (allGood /\ BodyPasses(body))
                     /\ k' = k + 1
                     /\ UNCHANGED <<pc, fault>>
  /\ UNCHANGED <<proc, procs, attempt, intercept, i, inflight, store, listed,
                 idMatrix, verdict, exitCode, j>>

\* Lines 167-192, one critical path.  A path without an id fails the check
\* and the loop continues.  Otherwise the detail query runs; when it gets
\* no answer, self.graphql returns None and `detail.get` raises; a null
\* responseBody makes the content check raise TypeError.  Both exceptions
\* leave run() through `finally` (cleanup) without a TEST RESULT line.
CheckCritical ==
  /\ pc = "deep"
  /\ k <= Len(CRITICALS)
  /\ LET ep == CRITICALS[k] IN
       IF ep \notin DOMAIN idMatrix
         THEN /\ allGood' = FALSE /\ k' = k + 1
              /\ UNCHANGED <<pc, fault>>
         ELSE LET body == store[idMatrix[ep]].body IN
              IF proc[Orch] # "listening" \/ body = "null"
                THEN /\ pc' = "cleanup" /\ fault' = TRUE
                     /\ UNCHANGED <<allGood, k>>
                ELSE /\ allGood' = (allGood /\ BodyPasses(body))
                     /\ k' = k + 1
                     /\ UNCHANGED <<pc, fault>>
  /\ UNCHANGED <<proc, procs, attempt, intercept, i, inflight, store, listed,
                 idMatrix, verdict, exitCode, j>>

\* Lines 194 and 207-210: the verdict line.
Report ==
  /\ pc = "deep"
  /\ k > Len(CRITICALS)
  /\ verdict' = IF allGood THEN "PASSED" ELSE "FAILED"
  /\ pc' = "awaitInput"
  /\ UNCHANGED <<proc, procs, attempt, intercept, i, inflight, store, listed,
                 idMatrix, k, allGood, fault, exitCode, j>>

\* Lines 213-224: the id list is printed and input() waits for ENTER.
PressEnter ==
  /\ pc = "awaitInput"
  /\ pc' = "cleanup"
  /\ UNCHANGED <<proc, procs, attempt, intercept, i, inflight, store, listed,
                 idMatrix, k, allGood, verdict, fault, exitCode, j>>

\* Ctrl+C (or EOF at input()) before cleanup, except during a scenario
\* request, whose bare except absorbs it (SendScenario): the exception
\* passes through `finally` (cleanup) and ends the process with a failure
\* status.
Interrupt ==
  /\ pc \notin {"cleanup", "cleanupWait", "done"}
  /\ ~(pc = "traffic" /\ i <= Len(SCENARIOS))
  /\ pc' = "cleanup" /\ fault' = TRUE
  /\ UNCHANGED <<proc, procs, attempt, intercept, i, inflight, store, listed,
                 idMatrix, k, allGood, verdict, exitCode, j>>

\* cleanup, lines 198-199: p.terminate() on the next handle.  Popen does
\* not signal a process it has already reaped.
Terminate ==
  /\ pc = "cleanup"
  /\ j <= Len(procs)
  /\ LET s == procs[j] IN
       proc' = [proc EXCEPT ![s] = IF Alive(s) THEN "stopping" ELSE @]
  /\ pc' = "cleanupWait"
  /\ UNCHANGED <<procs, attempt, intercept, i, inflight, store, listed,
                 idMatrix, k, allGood, verdict, fault, exitCode, j>>

\* Faults of the wait: no kill after the timeout, or no move to the next
\* handle.
WaitWithoutKill ==
  /\ pc = "cleanupWait"
  /\ j' = j + 1
  /\ pc' = "cleanup"
  /\ UNCHANGED <<proc, procs, attempt, intercept, i, inflight, store, listed,
                 idMatrix, k, allGood, verdict, fault, exitCode>>

WaitOrKillSameHandle ==
  /\ pc = "cleanupWait"
  /\ proc' = [proc EXCEPT ![procs[j]] = "exited"]
  /\ pc' = "cleanup"
  /\ UNCHANGED <<procs, attempt, intercept, i, inflight, store, listed,
                 idMatrix, k, allGood, verdict, fault, exitCode, j>>

\* Lines 200-201: p.wait(timeout=1); on the timeout, p.kill().
WaitOrKill ==
  /\ pc = "cleanupWait"
  /\ proc' = [proc EXCEPT ![procs[j]] = "exited"]
  /\ j' = j + 1
  /\ pc' = "cleanup"
  /\ UNCHANGED <<procs, attempt, intercept, i, inflight, store, listed,
                 idMatrix, k, allGood, verdict, fault, exitCode>>

\* A Ctrl+C inside cleanup() (lines 195-200) outside p.wait: at the log
\* line, at p.terminate(), or at p.kill() after a timed-out wait (inside
\* p.wait the bare except absorbs it and kills: WaitOrKill).  Nothing
\* catches it: the loop stops, the KeyboardInterrupt leaves run() through
\* `finally` (line 224) and the interpreter exits with a failure status.
InterruptCleanup ==
  /\ pc \in {"cleanup", "cleanupWait"} /\ j <= Len(procs)
  /\ pc' = "done" /\ fault' = TRUE /\ exitCode' = 1
  /\ UNCHANGED <<proc, procs, attempt, intercept, i, inflight, store, listed,
                 idMatrix, k, allGood, verdict, j>>

\* The end of cleanup: the interpreter exits, with status 1 when an
\* exception is propagating and 0 otherwise.
Exit ==
  /\ pc = "cleanup"
  /\ j > Len(procs)
  /\ pc' = "done"
  /\ exitCode' = IF fault THEN 1 ELSE 0
  /\ UNCHANGED <<proc, procs, attempt, intercept, i, inflight, store, listed,
                 idMatrix, k, allGood, verdict, fault, j>>

-----------------------------------------------------------------------------
(* The system under test, observed from outside.                           *)

\* A launched service binds its port(s).
Bind(s) ==
  /\ proc[s] = "starting"
  /\ proc' = [proc EXCEPT ![s] = "listening"]
  /\ UNCHANGED <<pc, procs, attempt, intercept, i, inflight, store, listed,
                 idMatrix, k, allGood, verdict, fault, exitCode, j>>

\* A service exits: a crash, a failed bind, or its answer to SIGTERM.
ProcessExits(s) ==
  /\ Alive(s)
  /\ proc' = [proc EXCEPT ![s] = "exited"]
  /\ UNCHANGED <<pc, procs, attempt, intercept, i, inflight, store, listed,
                 idMatrix, k, allGood, verdict, fault, exitCode, j>>

\* The agent reports a capture and the orchestrator stores it, at a time
\* of their choosing: the store is only eventually consistent.
StoreCapture ==
  /\ proc[Orch] = "listening" /\ proc[Agent] = "listening"
  /\ \E r \in inflight :
       /\ store' = Append(store, r)
       /\ inflight' = inflight \ {r}
  /\ UNCHANGED <<pc, proc, procs, attempt, intercept, i, listed, idMatrix, k,
                 allGood, verdict, fault, exitCode, j>>

\* The harness has exited; nothing is left to happen.
Finished ==
  /\ pc = "done"
  /\ UNCHANGED vars

-----------------------------------------------------------------------------
\* The harness's own steps; PressEnter and the interrupts are the user's.
Harness ==
  \/ StartOrchestrator \/ ProbeOrchestrator \/ StartTestServer
  \/ StartProxyAgent \/ ProbeProxyAgent \/ DisableInterception
  \/ SendScenario \/ Settle \/ ListRequests \/ CheckCritical \/ Report
  \/ Terminate \/ WaitOrKill \/ Exit

Environment ==
  \/ \E s \in Services : Bind(s) \/ ProcessExits(s)
  \/ StoreCapture

Next ==
  \/ Harness \/ PressEnter \/ Interrupt \/ InterruptCleanup \/ Environment
  \/ Finished

\* The controller never stops between its own steps (it only sleeps, for
\* bounded times); the user and the services owe it nothing.
Spec == Init /\ [][Next]_vars /\ WF_vars(Harness)

-----------------------------------------------------------------------------
TypeOK ==
  /\ pc \in {"start", "probeOrch", "launchServer", "launchAgent",
             "probeAgent", "toggle", "traffic", "list", "deep",
             "awaitInput", "cleanup", "cleanupWait", "done"}
  /\ proc \in [Services -> ProcState]
  /\ procs \in Seq(Services) /\ Len(procs) <= 3
  /\ attempt \in 0..Max({MaxOrchProbes, MaxAgentProbes})
  /\ intercept \in BOOLEAN
  /\ i \in 1..Len(SCENARIOS) + 1
  /\ inflight \subseteq Record /\ store \in Seq(Record)
  /\ listed \in Seq(DOMAIN store)
  /\ DOMAIN idMatrix \subseteq Eps /\ Range(idMatrix) \subseteq DOMAIN store
  /\ k \in 1..Len(CRITICALS) + 1 /\ allGood \in BOOLEAN
  /\ verdict \in {"none", "PASSED", "FAILED"}
  /\ fault \in BOOLEAN /\ exitCode \in {-1, 0, 1}
  /\ j \in 1..Len(procs) + 1

\* The cleanup loop did not reach the end of self.procs: a Ctrl+C escaped it.
CutCleanup == j <= Len(procs)

\* No orphaned services: when the harness process has exited, whatever
\* path it took (verdict, startup failure, exception, Ctrl+C), every
\* process cleanup() was handed has exited too; only a Ctrl+C that
\* escaped the cleanup loop leaves services running, and then only the
\* handle the loop was on and those after it, in launch order.
NoOrphanServices ==
  pc = "done" =>
    \A n \in DOMAIN procs : proc[procs[n]] = "exited" \/ (CutCleanup /\ n >= j)

\* A PASSED verdict is backed by the store: every critical path has a
\* record, produced by this run's request for that path, whose body passes
\* the content check (verify_capture's correlation and deep check).
PassedIsBacked ==
  verdict = "PASSED" =>
    \A c \in Range(CRITICALS) :
      \E n \in DOMAIN store : store[n].ep = c /\ BodyPasses(store[n].body)

\* spec.md section 6: the harness exits 0 on overall pass and 1 on any
\* failure.  run() never sets an exit status.
ExitStatusReflectsVerdict ==
  exitCode = 0 => verdict = "PASSED"

\* spec.md sections 3 and 9: a path's correlation entry is the FIRST
\* matching record (first-match-wins).  Lines 159-161 keep the last.
CorrelationFirstMatchWins ==
  pc \in {"deep", "awaitInput"} /\ listed # <<>> =>
    idMatrix = FirstMatchMatrix(listed)

\* The bounded probe loops and the bounded scenario list bring the harness
\* to the input() prompt or to its exit, whatever the services do.
ReachesPromptOrExit == <>(pc \in {"awaitInput", "done"})

\* Once cleanup starts, it finishes and the harness exits.
CleanupCompletes == (pc = "cleanup") ~> (pc = "done")

=============================================================================
