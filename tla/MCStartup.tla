----------------------------- MODULE MCStartup ------------------------------
(* The instance of Startup that TLC checks is in the .cfg file. *)
EXTENDS Startup

\* Numbers are written here, as a .cfg has no negative ones.
NumbersTried == {-1, 0, 30, 70000}
=============================================================================
