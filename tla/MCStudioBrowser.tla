-------------------------- MODULE MCStudioBrowser --------------------------
(* Instances of StudioBrowser for TLC. *)
EXTENDS StudioBrowser, TLC
=============================================================================
