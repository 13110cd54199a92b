-------------------------- MODULE MCTunnelManager --------------------------
(***************************************************************************)
(* The manager with a few tunnel configurations.                           *)
(***************************************************************************)
EXTENDS TunnelManager

CONSTANT port

\* Two revisions of a tunnel that listens, one of them started automatically, a
\* Remote tunnel, and one whose jump chain is not known.
Various ==
  {[port |-> port,   revision |-> 1, auto_start |-> FALSE, valid |-> TRUE],
   [port |-> port,   revision |-> 2, auto_start |-> TRUE,  valid |-> TRUE],
   [port |-> "none", revision |-> 2, auto_start |-> FALSE, valid |-> TRUE],
   [port |-> port,   revision |-> 1, auto_start |-> TRUE,  valid |-> FALSE]}

MCPorts == {port}
=============================================================================
