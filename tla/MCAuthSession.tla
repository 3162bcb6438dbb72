--------------------------- MODULE MCAuthSession ---------------------------
(* Two tabs of one browser, the session they share and one more login.     *)
EXTENDS AuthSession, TLC
============================================================================
