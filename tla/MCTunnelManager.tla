--------------------------- MODULE MCTunnelManager ---------------------------
(***************************************************************************)
(* The instance of TunnelManager with two callers and main.                *)
(***************************************************************************)
EXTENDS TunnelManager
=============================================================================
