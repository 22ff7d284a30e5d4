-------------------------- MODULE MCMotorController --------------------------
(* A small instance of MotorController: the levels are stop, a level that  *)
(* moves the robot, and one on each side of the range set_level accepts.   *)
EXTENDS MotorController

MCLevels == {-1, 0, 60, 101}
=============================================================================
