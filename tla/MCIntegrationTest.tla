------------------------ MODULE MCIntegrationTest ------------------------
(* Model-checking instance of IntegrationTest: the three critical paths of *)
(* verify_capture and the root path "/", which occurs in every URL.        *)
EXTENDS IntegrationTest

MCScenarios == <<"/api/json", "/api/echo", "/">>
MCCriticals == <<"/api/json", "/api/echo">>

\* Every URL is "http://127.0.0.1:8000" followed by the path, so "/" occurs
\* in all of them; no other path of SCENARIOS occurs in another's URL.
MCInUrl(ep, t) == ep = t \/ ep = "/"
=============================================================================
