----------------------- MODULE MCPerfMonitoringTest -----------------------
(* The endpoints are interchangeable for the counters; 2 endpoints with 2 *)
(* requests each give 4 captures, enough for a success rate below 50%.    *)
EXTENDS PerfMonitoringTest

MCNumEndpoints == 2
MCRepeats == 2
=============================================================================
