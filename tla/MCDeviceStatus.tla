--------------------------- MODULE MCDeviceStatus ---------------------------
(* DeviceStatus with two processes, one after another or at once.          *)
EXTENDS DeviceStatus

Reports == Number
=============================================================================
