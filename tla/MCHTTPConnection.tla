-------------------------- MODULE MCHTTPConnection --------------------------
(* Instances of HTTPConnection for TLC. *)
EXTENDS HTTPConnection

\* The default policy, one with an idle timer that resets and a limit, one
\* that closes after every response.
MCPolicies ==
  { [timeout |-> "none", max |-> None, reset |-> FALSE],
    [timeout |-> "positive", max |-> 2, reset |-> TRUE],
    [timeout |-> "zero", max |-> None, reset |-> FALSE] }
=============================================================================
