--------------------------- MODULE MCConnections ---------------------------
(***************************************************************************)
(* Two requests of the bridge: check_rate_limit and the endpoint are plain *)
(* functions, verify_signature between them is a coroutine.                *)
(***************************************************************************)
EXTENDS Connections

BridgeSteps == <<"function", "coroutine", "function">>
============================================================================
