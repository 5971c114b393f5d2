---------------------------- MODULE MCAudioRing ----------------------------
(* Instances of the audio ring. *)
EXTENDS AudioRing
=============================================================================
