---------------------------- MODULE MCHttpClient ----------------------------
(* HttpClient for TLC.                                                     *)
EXTENDS HttpClient
=============================================================================
