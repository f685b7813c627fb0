--------------------------- MODULE MCDeviceStatus ---------------------------
(* Small instances of DeviceStatus: one device of each class, named after  *)
(* it, and for each run some conditions that can change.                   *)
EXTENDS DeviceStatus

CONSTANTS cam, term, lamp, cab

MCClass == [d \in Device |->
              CASE d = cam -> "camera" [] d = term -> "terminal"
                [] d = lamp -> "light" [] d = cab -> "cabinet"]

ByController == {<<lamp, "70">>, <<lamp, "71">>, <<term, "72">>, <<cab, "35">>}
CamPower == {<<cam, "A0">>, <<cam, "70">>}
=============================================================================
