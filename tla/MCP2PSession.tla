----------------------------- MODULE MCP2PSession -----------------------------
(* An instance of P2PSession for TLC.                                       *)
EXTENDS P2PSession

OneStream == <<"video">>
=============================================================================
