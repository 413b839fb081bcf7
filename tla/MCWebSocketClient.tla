--------------------------- MODULE MCWebSocketClient ---------------------------
(* Model checking of WebSocketClient: the bounds are in the configuration. *)
EXTENDS WebSocketClient
=============================================================================
