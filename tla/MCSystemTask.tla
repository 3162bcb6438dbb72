----------------------------- MODULE MCSystemTask -----------------------------
(***************************************************************************)
(* Background tasks on small instances.                                    *)
(***************************************************************************)
EXTENDS SystemTask
=============================================================================
