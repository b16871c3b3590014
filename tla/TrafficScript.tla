---------------------------- MODULE TrafficScript ----------------------------
(***************************************************************************)
(* The request script of src/send_test_requests.py, a TrafficDriver of    *)
(* spec.md section 4.3: main() sends a fixed list of requests through the *)
(* proxy agent on port 9095, one after another with a one-second pause,   *)
(* and send_request catches every Exception.                               *)
(*                                                                         *)
(* The proxy agent is the environment: it can be down (the request is     *)
(* refused before anything is sent) or up, and go down or come back at    *)
(* any time.  A request that reached it is answered, or fails after it    *)
(* was sent (read timeout, connection reset, too many redirects).         *)
(***************************************************************************)
EXTENDS Integers, Sequences

CONSTANT N   \* the number of entries of test_requests (lines 61-87)

ASSUME N \in Nat \ {0}

VARIABLES
  pc,         \* "start", "send", "summary" or "done"
  i,          \* the index of the next entry of test_requests
  encodable,  \* sys.stdout's encoding can encode the script's emoji
  proxyUp,    \* the proxy agent accepts connections on 9095
  wire,       \* the indices of the requests that reached the proxy, in order
  failed,     \* the indices whose send_request printed an error
  exitCode    \* the interpreter's exit status, -1 before

vars == <<pc, i, encodable, proxyUp, wire, failed, exitCode>>

Init ==
  /\ pc = "start" /\ i = 1
  /\ encodable \in BOOLEAN /\ proxyUp \in BOOLEAN
  /\ wire = <<>> /\ failed = {} /\ exitCode = -1

\* The first prints of main() (lines 57-58), outside any try: on a stream
\* whose encoding has no emoji (a legacy code page, output redirected) the
\* UnicodeEncodeError ends the script with a traceback and status 1.
Banner ==
  /\ pc = "start"
  /\ IF encodable THEN pc' = "send" /\ UNCHANGED exitCode
                  ELSE pc' = "done" /\ exitCode' = 1
  /\ UNCHANGED <<i, encodable, proxyUp, wire, failed>>

\* The outcome of requests.request (lines 39-47), without retries: refused
\* when the proxy is down; otherwise the request is on the wire and is
\* answered (any status) or fails afterwards.
Sent(ok) == wire' = Append(wire, i) /\ failed' = IF ok THEN failed ELSE failed \cup {i}
Refused  == UNCHANGED wire /\ failed' = failed \cup {i}

\* Mutant of NextEntry: the loop runs over one entry past the list.
NextEntryPastEnd == i' = i + 1 /\ pc' = IF i = N + 1 THEN "summary" ELSE "send"

\* The loop's next entry after the pause of line 92.
NextEntry == i' = i + 1 /\ pc' = IF i = N THEN "summary" ELSE "send"

\* Mutant of SendRequest: a failed request is sent again instead of moving
\* on to the next entry.
SendRequestRetry ==
  /\ pc = "send"
  /\ \/ ~proxyUp /\ Refused /\ UNCHANGED <<i, pc>>
     \/ proxyUp /\ Sent(TRUE) /\ NextEntry
     \/ proxyUp /\ Sent(FALSE) /\ UNCHANGED <<i, pc>>
  /\ UNCHANGED <<encodable, proxyUp, exitCode>>

\* Mutant of SendRequest: only ConnectionError is caught; an error after
\* the request was sent leaves main() with a traceback.
SendRequestCatchRefusedOnly ==
  /\ pc = "send"
  /\ \/ ~proxyUp /\ Refused /\ NextEntry /\ UNCHANGED exitCode
     \/ proxyUp /\ Sent(TRUE) /\ NextEntry /\ UNCHANGED exitCode
     \/ proxyUp /\ Sent(FALSE) /\ pc' = "done" /\ exitCode' = 1 /\ UNCHANGED i
  /\ UNCHANGED <<encodable, proxyUp>>

\* One iteration of main()'s loop (lines 89-92): send_request (lines
\* 20-54) prints, calls requests.request, prints the status or the error,
\* and returns; then the one-second pause.
SendRequest ==
  /\ pc = "send"
  /\ \/ ~proxyUp /\ Refused
     \/ proxyUp /\ \E ok \in BOOLEAN : Sent(ok)
  /\ NextEntry
  /\ UNCHANGED <<encodable, proxyUp, exitCode>>

\* The closing prints (lines 94-99); the script ends with status 0.
Summary ==
  /\ pc = "summary"
  /\ pc' = "done" /\ exitCode' = 0
  /\ UNCHANGED <<i, encodable, proxyUp, wire, failed>>

Script == Banner \/ SendRequest \/ Summary

\* The proxy agent stops or is started again.
ProxyDown == proxyUp /\ proxyUp' = FALSE /\ UNCHANGED <<pc, i, encodable, wire, failed, exitCode>>
ProxyUp   == ~proxyUp /\ proxyUp' = TRUE /\ UNCHANGED <<pc, i, encodable, wire, failed, exitCode>>

Finished == pc = "done" /\ UNCHANGED vars

Next == Script \/ ProxyDown \/ ProxyUp \/ Finished

\* Every request ends: refused at once, answered, or cut by its 15 s
\* connect or read timeout; the pause is fixed.
Spec == Init /\ [][Next]_vars /\ WF_vars(Script)

-----------------------------------------------------------------------------
\* Each variable holds a value of its kind.
TypeOK ==
  /\ pc \in {"start", "send", "summary", "done"} /\ i \in 1..(N + 1)
  /\ encodable \in BOOLEAN /\ proxyUp \in BOOLEAN
  /\ wire \in Seq(1..N) /\ failed \subseteq 1..N
  /\ exitCode \in {-1, 0, 1}

\* Traffic tolerance (spec.md sections 4.3 and 8): whatever requests are
\* refused, time out or fail after they were sent, once the script can
\* print it attempts every entry of the list and exits 0.
TrafficTolerance ==
  pc = "done" /\ encodable => exitCode = 0 /\ i = N + 1

\* No request reaches the proxy twice, and they reach it in list order:
\* the POST, PUT, DELETE and PATCH entries are not idempotent, and a
\* request whose answer was lost may already have been applied.
AtMostOnceInOrder ==
  \A a, b \in DOMAIN wire : a < b => wire[a] < wire[b]

\* The script always ends, even while the proxy stays down.
Terminates == <>(pc = "done")
=============================================================================
