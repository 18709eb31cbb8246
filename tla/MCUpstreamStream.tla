-------------------------- MODULE MCUpstreamStream --------------------------
(* Configurations of streamed turns for UpstreamStream.                    *)
EXTENDS UnaryTurn
=============================================================================
