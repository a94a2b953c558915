------------------------------ MODULE MCUsbGlue ------------------------------
(* Two batches, two transfers of up to two frames, resets and faults.      *)
EXTENDS UsbGlue
=============================================================================
