--------------------------- MODULE MCWebSocketLog ---------------------------
(***************************************************************************)
(* An instance of WebSocketLog for TLC.                                    *)
(***************************************************************************)
EXTENDS WebSocketLog

=============================================================================
