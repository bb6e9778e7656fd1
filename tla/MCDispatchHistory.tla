-------------------------- MODULE MCDispatchHistory --------------------------
(* The instance of DispatchHistory for TLC.                                *)
EXTENDS DispatchHistory, MCDispatch
=============================================================================
