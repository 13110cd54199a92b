--------------------------- MODULE TunnelContract ---------------------------
(***************************************************************************)
(* What one running tunnel promises to whoever watches it, without saying  *)
(* how: the port is claimed without a gap from the start of the tunnel     *)
(* until it is released for good; meanwhile the reported status only moves *)
(* along the edges below; and Stopped is reported only once the port is    *)
(* free.  This is the state diagram of TunnelWarden_SPEC.md:3972-4036 as   *)
(* far as a supervisor reports it, with the promise of                     *)
(* TunnelWarden_SPEC.md:4354-4366 (after Stop the port can be bound).      *)
(***************************************************************************)

VARIABLES
  port,     \* the tunnel owns its port (Remote: its claim)
  status    \* the status it reports

contractVars == <<port, status>>

\* Where the reported status may go while the tunnel runs.
Successors(s) ==
  CASE s = "Connecting"   -> {"Connecting", "Healthy", "Reconnecting", "Blocked"}
    [] s = "Reconnecting" -> {"Connecting"}
    [] s = "Blocked"      -> {"Connecting"}
    [] s = "Healthy"      -> {"Healthy", "Degraded", "Reconnecting"}
    [] s = "Degraded"     -> {"Healthy", "Degraded", "Reconnecting"}
    [] OTHER              -> {}

Init == port = TRUE /\ status = "Connecting"

Report == port /\ status' \in Successors(status) /\ UNCHANGED port

Release == port /\ port' = FALSE /\ UNCHANGED status

Conclude == ~port /\ status' = "Stopped" /\ UNCHANGED port

Next == Report \/ Release \/ Conclude

Spec == Init /\ [][Next]_contractVars
=============================================================================
