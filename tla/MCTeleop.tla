------------------------------ MODULE MCTeleop ------------------------------
EXTENDS Teleop
MCPositions == [a \in Axes |-> IF a = "y" THEN {0, -32767} ELSE {0, 3999}]
MCWorlds ==
  {{"absent", "slow", "chatty", "steers"}, {"memory"}, {"silent"}, {"drops"},
   {"chatty", "preempts"}, {"meet"}, {"meet", "drops"},
   {"noJoystick"}, {"unplug", "held"}}
=============================================================================
