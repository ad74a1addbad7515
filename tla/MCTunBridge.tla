---------------------------- MODULE MCTunBridge ----------------------------
(***************************************************************************)
(* Instances of TunBridge for TLC: frames of 2 and 3 bytes and streams of  *)
(* 4, so that frames are cut as well as joined, and so that a full stream, *)
(* read at once, is over the u16 limit of a Windows packet.                *)
(***************************************************************************)
EXTENDS TunBridge

FrameLengths == {2, 3}
=============================================================================
