-------------------------- MODULE MCForwardWorker --------------------------
(***************************************************************************)
(* Two clients and one slot: the second waits in the backlog.  The first   *)
(* sends up to two bytes, enough for a short write; the other streams only *)
(* end.                                                                    *)
(***************************************************************************)
EXTENDS ForwardWorker

CONSTANTS c1, c2

MCBytes == [s \in {c1, c2} \X {"up", "down"} |->
              IF s = <<c1, "up">> THEN 2 ELSE 0]
=============================================================================
