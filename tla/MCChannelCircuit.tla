-------------------------- MODULE MCChannelCircuit --------------------------
(* TLC instance of ChannelCircuit. *)
EXTENDS ChannelCircuit
=============================================================================
