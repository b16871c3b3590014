--------------------------- MODULE MCTrafficScript ---------------------------
EXTENDS TrafficScript

\* The twelve entries of test_requests (lines 61-87).  They differ only in
\* method, path and body, which the loop never looks at.
MCN == 12
=============================================================================
