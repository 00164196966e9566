------------------------- MODULE MCCompositeCommand -------------------------
(***************************************************************************)
(* A composite of three children, each of which may fail at any call.      *)
(***************************************************************************)
EXTENDS CompositeCommand
=============================================================================
