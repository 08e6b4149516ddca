---------------------------- MODULE MCDesktopJob ----------------------------
(* Instances of DesktopJob for TLC.                                          *)
EXTENDS DesktopJob, TLC
=============================================================================
