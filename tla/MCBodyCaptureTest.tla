------------------------- MODULE MCBodyCaptureTest -------------------------
(* Two of the four test URLs: the checks grade a record by its body and   *)
(* headers only, so two URLs already show a run with one record counted   *)
(* and another not.                                                       *)
EXTENDS BodyCaptureTest

MCTestUrls == <<"http://httpbin.org/json", "http://httpbin.org/html">>
=============================================================================
