--------------------------- MODULE MCDeviceStore ---------------------------
(* DeviceStore on a small instance. *)
EXTENDS DeviceStore

CONSTANTS d1, d2

MCDevices == <<d1, d2>>

MCParams == {"watts", "mode"}

\* A parameter every answer holds, and one that comes with some.
MCAnswers == {{"watts"}, {"watts", "mode"}}
============================================================================
