---------------------------- MODULE MCTestServer ----------------------------
(* Two connections at a time: an accepted one with one that is handed in, or two *)
(* that are accepted, by one listener or by two.                                 *)
EXTENDS TestServer
CONSTANTS a1, a2, h1
MCCrowds == {{a1, h1}, {a1, a2}}
=============================================================================
