---------------------------- MODULE MCCaptureLoop ----------------------------
(***************************************************************************)
(* Three screens for CaptureLoop: one that fits in another, one of the     *)
(* same area that does not.                                                *)
(***************************************************************************)
EXTENDS CaptureLoop

MCScreens == {<<1, 2>>, <<2, 1>>, <<3, 2>>}

=============================================================================
