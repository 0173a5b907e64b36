---------------------------- MODULE MCWebServer ----------------------------
(***************************************************************************)
(* Module WebServer for TLC.                                               *)
(***************************************************************************)
EXTENDS WebServer
=============================================================================
