----------------------------- MODULE MCUsbGadget -----------------------------
(* An instance of UsbGadget small enough for TLC. *)
EXTENDS UsbGadget

CONSTANTS b1, b2

TwoThreads == {b1, b2}

\* Nothing, no daemon, a daemon and no vendor functions, a daemon added last.
FourRequests == {{}, {"rndis"}, {"ptp"}, {"adb", "rndis"}}

\* A retail build, and a modem that is debugged.
TwoVendors == {<<"user">>, <<"diag">>}
=============================================================================
