---------------------------- MODULE MCPhoneSensors ----------------------------
(* Instances of PhoneSensors for TLC: the camera with a sensor that starts at *)
(* once, or with GPS.                                                         *)
EXTENDS PhoneSensors

CONSTANTS imu, gps, here, there

None       == {}
OneInstant == {imu}
OneLocated == {gps}
TwoTopics  == {here, there}
=============================================================================
