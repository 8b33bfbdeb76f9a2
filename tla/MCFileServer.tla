---------------------------- MODULE MCFileServer ----------------------------
(***************************************************************************)
(* Two clients whose PIDs do not follow one another.                       *)
(***************************************************************************)
EXTENDS FileServer

TwoPids == {1, 3}
=============================================================================
