---------------------------- MODULE MCAudioRing ----------------------------
(* A ring of three samples, frames longer than it, a device that asks for    *)
(* one sample or for more than the ring holds.                               *)
EXTENDS AudioRing

MCFills == {1, 3}
=============================================================================
