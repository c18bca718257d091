------------------------------- MODULE MCUsbHal -------------------------------
(* Instances of UsbHal small enough for TLC. *)
EXTENDS UsbHal

CONSTANTS p1, p2

\* A second slot shows whether an old poll thread outlives its unregistration.
OneThread  == {p1}
TwoThreads == {p1, p2}

Symmetric == {[t \in TwoThreads |-> t], [t \in TwoThreads |-> IF t = p1 THEN p2 ELSE p1]}

NoSetting   == {}
TwoSettings == {"usbData", "limit"}
=============================================================================
