------------------------------ MODULE MCStreamer ------------------------------
(* Streamer with two peers, packets of two pieces and a narrow epoch field. *)
EXTENDS Streamer
===============================================================================
