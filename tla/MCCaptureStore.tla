---------------------------- MODULE MCCaptureStore ----------------------------
(* Bounds of the recordings: see the configurations.                       *)
EXTENDS CaptureStore

CONSTANT MaxDirectories

FewDirectories == Len(disk) <= MaxDirectories
=============================================================================
