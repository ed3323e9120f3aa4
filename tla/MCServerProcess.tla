--------------------------- MODULE MCServerProcess ---------------------------
(* ServerProcess for TLC: two requests and the probe at two HSM sessions, and *)
(* one request to the admin server.                                           *)
EXTENDS ServerProcess
=============================================================================
