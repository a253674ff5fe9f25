--------------------------- MODULE MCCommandFlow ----------------------------
(* A small instance of CommandFlow for TLC: every kind of device, a level  *)
(* beyond the scale followed by one within it, or by a restart.            *)
EXTENDS CommandFlow, TLC

CONSTANTS c1, c2

MCCommands == {c1, c2}
MCKinds == {"simulated", "demo", "board"}
MCAsks ==
  {(c1 :> [what |-> "level", level |-> 130]) @@ (c2 :> a) :
     a \in {[what |-> "level", level |-> 40], [what |-> "restart", level |-> 0]}}

=============================================================================
