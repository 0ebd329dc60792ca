---------------------------- MODULE MCAttThreads ----------------------------
(* The teleop's session, shortened to one command of each kind: entering   *)
(* remote control, one turn of the control loop, drive(0, 0) on the way    *)
(* out, between enabling and disabling notifications.                      *)
EXTENDS AttThreads

CONSTANTS enable, enter, drive, halt, disable

Session == <<enable, enter, drive, halt, disable>>

(* The same without the control loop.                                      *)
ShortSession == <<enable, enter, halt, disable>>

=============================================================================
