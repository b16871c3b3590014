---------------------------- MODULE GraphQLSuite ----------------------------
(***************************************************************************)
(* The GraphQL query suite of src/test_graphql_queries.py.               *)
(*                                                                         *)
(* main() runs the test functions in order, appends (name, success) to    *)
(* `results`, prints a summary and exits 0 only if no test failed.  Every *)
(* query goes through execute_graphql, which returns a bool: True when    *)
(* the answer parsed and had no "errors", False otherwise.  The running   *)
(* orchestrator is the environment; it answers each query well or not.    *)
(***************************************************************************)
EXTENDS Integers, Sequences, SequencesExt, FiniteSets

CONSTANT TESTS  \* the kind of each entry of main()'s `tests` list, in order

\* single  - one execute_graphql call whose result is the verdict;
\* pair    - two calls with a sleep between, verdict `success1 and success2`;
\* detail  - test_request_detail;
\* capture - test_response_body_capture_verification.
Kinds == {"single", "pair", "detail", "capture"}

ASSUME TESTS \in Seq(Kinds) /\ TESTS # <<>>

VARIABLES
  pc,          \* "test", "summary" or "done"
  t,           \* index of the running test
  step,        \* 1 or 2: the call of the running test
  first,       \* success1 of a pair test
  results,     \* the successes appended to `results`
  allAnswered, \* every query so far was answered well
  exitCode     \* exit status, -1 before

vars == <<pc, t, step, first, results, allAnswered, exitCode>>

\* One execute_graphql call (lines 18-62): the orchestrator answers
\* well (True) or not: refused, timed out, non-2xx, invalid JSON or a
\* GraphQL error (False).  The answer is recorded in the ghost.
Answer(a) == allAnswered' = (allAnswered /\ a)

\* The end of one iteration of main()'s loop (lines 428-434).
Record(success) ==
  /\ results' = Append(results, success)
  /\ t' = t + 1 /\ step' = 1
  /\ pc' = IF t = Len(TESTS) THEN "summary" ELSE "test"

-----------------------------------------------------------------------------
Init ==
  /\ pc = "test" /\ t = 1 /\ step = 1
  /\ first = FALSE
  /\ results = <<>>
  /\ allAnswered = TRUE
  /\ exitCode = -1

\* The six tests that are one query (lines 64-131, 168-178, 333-359).
RunSingle ==
  /\ pc = "test" /\ TESTS[t] = "single"
  /\ \E a \in BOOLEAN : Answer(a) /\ Record(a)
  /\ UNCHANGED <<first, exitCode>>

\* Mutant of RunPairFirst: the test does not move on to its second call.
RunPairFirstNoStep ==
  /\ pc = "test" /\ TESTS[t] = "pair" /\ step = 1
  /\ \E a \in BOOLEAN : Answer(a) /\ first' = a
  /\ UNCHANGED <<pc, t, step, results, exitCode>>

\* test_toggle_interception and test_create_and_delete_project (lines
\* 133-166, 361-399): the first call, then sleep(1) ...
RunPairFirst ==
  /\ pc = "test" /\ TESTS[t] = "pair" /\ step = 1
  /\ \E a \in BOOLEAN : Answer(a) /\ first' = a
  /\ step' = 2
  /\ UNCHANGED <<pc, t, results, exitCode>>

\* ... and the second call; the verdict is `success1 and success2`.
RunPairSecond ==
  /\ pc = "test" /\ TESTS[t] = "pair" /\ step = 2
  /\ \E a \in BOOLEAN : Answer(a) /\ Record(first /\ a)
  /\ UNCHANGED <<first, exitCode>>

\* test_request_detail, lines 211-223.  execute_graphql returns a bool, so
\* after a good answer `"data" in list_result` raises TypeError, which the
\* bare except turns into the dummy-ID fallback; after a bad answer the
\* `if` is false.  Either way the listed id is never used.  The lookup is
\* a fallback by design (lines 220-223), so its answer is not part of the
\* test's verdict.
DetailList ==
  /\ pc = "test" /\ TESTS[t] = "detail" /\ step = 1
  /\ \E a \in BOOLEAN : allAnswered' = (allAnswered /\ a)
  /\ step' = 2
  /\ UNCHANGED <<pc, t, first, results, exitCode>>

\* Lines 225-227: the detail query with "dummy_request_id".
DetailQuery ==
  /\ pc = "test" /\ TESTS[t] = "detail" /\ step = 2
  /\ \E a \in BOOLEAN : Answer(a) /\ Record(a)
  /\ UNCHANGED <<first, exitCode>>

\* test_response_body_capture_verification (lines 229-331).  After a bad
\* answer `not result` returns False; after a good one `"errors" in
\* result` raises TypeError on the bool, and the except returns False.
\* The record loop of lines 254-327 is never reached.
CaptureVerification ==
  /\ pc = "test" /\ TESTS[t] = "capture"
  /\ \E a \in BOOLEAN : Answer(a) /\ Record(FALSE)
  /\ UNCHANGED <<first, exitCode>>

\* Mutant of Summary: sys.exit(failed).
SummaryExitFailed ==
  /\ pc = "summary"
  /\ pc' = "done"
  /\ exitCode' = Cardinality({n \in DOMAIN results : ~results[n]})
  /\ UNCHANGED <<t, step, first, results, allAnswered>>

\* The summary (lines 436-464): exit 0 when no test failed, else 1.
Summary ==
  /\ pc = "summary"
  /\ pc' = "done"
  /\ exitCode' = IF \A n \in DOMAIN results : results[n] THEN 0 ELSE 1
  /\ UNCHANGED <<t, step, first, results, allAnswered>>

\* Ctrl+C.  Inside the list query of test_request_detail the bare except
\* absorbs it and the test goes on with the dummy ID; anywhere else no
\* handler of main() catches it and the module-level handler exits 1
\* (lines 466-471).
Interrupt ==
  /\ pc = "test"
  /\ IF TESTS[t] = "detail" /\ step = 1
       THEN /\ allAnswered' = FALSE /\ step' = 2
            /\ UNCHANGED <<pc, exitCode, first>>
       ELSE /\ pc' = "done" /\ exitCode' = 1
            /\ UNCHANGED <<step, first, allAnswered>>
  /\ UNCHANGED <<t, results>>

Suite ==
  \/ RunSingle \/ RunPairFirst \/ RunPairSecond \/ DetailList \/ DetailQuery
  \/ CaptureVerification \/ Summary

Finished == pc = "done" /\ UNCHANGED vars

Next == Suite \/ Interrupt \/ Finished

\* Each call is bounded by its 10 s timeout and each sleep is fixed.
Spec == Init /\ [][Next]_vars /\ WF_vars(Suite)

-----------------------------------------------------------------------------
\* Each variable holds a value of its kind.
TypeOK ==
  /\ pc \in {"test", "summary", "done"}
  /\ t \in 1..(Len(TESTS) + 1) /\ step \in {1, 2}
  /\ first \in BOOLEAN
  /\ results \in Seq(BOOLEAN) /\ Len(results) <= Len(TESTS)
  /\ allAnswered \in BOOLEAN
  /\ exitCode \in {-1, 0, 1}

\* The suite always ends, with a summary or on Ctrl+C.
Terminates == <>(pc = "done")

\* When the orchestrator answers every query of the suite well, the suite
\* passes: the docstring says it verifies that the responses are
\* accessible, and test_response_body_capture_verification passes when
\* a body was captured or when there is nothing to test (lines 257-260).
HealthyServerPasses ==
  pc = "done" /\ allAnswered /\ Len(results) = Len(TESTS) => exitCode = 0
=============================================================================
