---------------------------- MODULE MiniProPacket ----------------------------
(***************************************************************************)
(* include/minipro and src/minipro: the packets that are sent to the       *)
(* miniPRO, byte by byte, and what t_minipro.cpp makes of the axes of the  *)
(* joystick.  Integers have the width of the code: uint8_t, uint16_t, and  *)
(* int16_t in two's complement.                                            *)
(***************************************************************************)
EXTENDS Integers, Sequences, SequencesExt

U16(n) == n % 65536
S16(n) == IF U16(n) < 32768 THEN U16(n) ELSE U16(n) - 65536
Bytes(n) == <<U16(n) % 256, U16(n) \div 256>>

Command == 10
ControlDriveBase == 3
EnableRemoteControl == 122
SetDrive == 123

SumOf(bytes) == FoldSeq(LAMBDA b, n : n + b, 0, bytes)

(* Packet::get_bytes; length and checksum stand behind one another's sum.  *)
GetBytes(parameter, payload) ==
  LET length == Len(payload) + 2
      sum == length + Command + ControlDriveBase + parameter + SumOf(payload)
  IN <<85, 170, length, Command, ControlDriveBase, parameter>>
       \o payload \o Bytes(65535 - U16(sum))

EnterRemoteControlMode == GetBytes(EnableRemoteControl, Bytes(1))
ExitRemoteControlMode == GetBytes(EnableRemoteControl, Bytes(0))

(* MiniPro::drive and Drive                                                *)
Drive(throttle, steering) ==
  GetBytes(SetDrive, Bytes(S16(throttle)) \o Bytes(S16(steering)))

(* main of t_minipro.cpp, from the value of an axis to that of drive       *)
zero_threshold == 4000
Abs(n) == IF n < 0 THEN - n ELSE n

(* Mutant of FromAxis: forward is backward.                                 *)
FromAxis_Sign(v) == IF Abs(v) < zero_threshold THEN 0 ELSE v

FromAxis(v) == IF Abs(- v) < zero_threshold THEN 0 ELSE - v

(* MiniPro::write_config_value: the value in network order                 *)
Config(value) == Reverse(Bytes(value))

-----------------------------------------------------------------------------
(* The miniPRO: what it takes from a packet, and nothing from a damaged    *)
(* one.                                                                    *)

WellFormed(b) ==
  /\ Len(b) >= 8 /\ b[1] = 85 /\ b[2] = 170
  /\ b[3] = Len(b) - 6
  /\ U16(b[Len(b) - 1] + 256 * b[Len(b)]
           + SumOf(SubSeq(b, 3, Len(b) - 2))) = 65535
Word(b, k) == S16(b[k] + 256 * b[k + 1])

Obey(robot, b) ==
  IF ~ WellFormed(b) THEN robot
  ELSE IF b[6] = EnableRemoteControl THEN [robot EXCEPT !.remote = Word(b, 7) = 1]
  ELSE IF b[6] = SetDrive /\ robot.remote
  THEN [robot EXCEPT !.throttle = Word(b, 7), !.steering = Word(b, 9)]
  ELSE robot

=============================================================================
