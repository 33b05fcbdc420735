---------------------------- MODULE MCPopupFlow ----------------------------
(* Instances of PopupFlow for TLC.                                         *)
EXTENDS PopupFlow

CONSTANTS f1, f2

=============================================================================
