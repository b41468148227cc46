------------------------------ MODULE MCHttpApi ------------------------------
(* TLC instance of HttpApi: a request for any operation beside one that      *)
(* stops ComfyUI, one thread, a required check and an optional one.          *)
EXTENDS HttpApi

CONSTANTS q1, q2, postgres, cache

WhoAsks        == [r \in {q1, q2} |-> IF r = q1 THEN Routes \cup {"none"} ELSE {"comfy_service_stop"}]
CheckOrder     == <<postgres, cache>>
RequiredChecks == {postgres}
=============================================================================
