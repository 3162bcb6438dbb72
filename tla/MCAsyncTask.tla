---------------------------- MODULE MCAsyncTask ----------------------------
(***************************************************************************)
(* Instances of AsyncTask for TLC.                                         *)
(***************************************************************************)
EXTENDS AsyncTask, TLC
=============================================================================
