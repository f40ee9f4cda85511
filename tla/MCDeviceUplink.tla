---------------------------- MODULE MCDeviceUplink ---------------------------
(* Every record a node can make in MaxSamples readings.                    *)
EXTENDS DeviceUplink

MCDigest == 1 .. MaxSamples

MCRecord ==
  [dev : Device, seq : 0 .. MaxSamples, prev : 0 .. MaxSamples, digest : MCDigest,
   signed : BOOLEAN]
=============================================================================
