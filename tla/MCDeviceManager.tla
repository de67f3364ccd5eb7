--------------------------- MODULE MCDeviceManager ---------------------------
(* Instances of DeviceManager for TLC. *)
EXTENDS DeviceManager

\* Devices are alike: the first connection may as well be of the first one.
FirstIsFirst == dev # <<>> => dev[1] = CHOOSE d \in Device : TRUE

MCFairSpec == Init /\ [][Next /\ FirstIsFirst']_vars /\ Fairness
=============================================================================
