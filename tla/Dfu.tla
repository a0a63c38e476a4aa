-------------------------------- MODULE Dfu --------------------------------
(***************************************************************************)
(* The vocabulary of the crate root (usbd-dfu/src/lib.rs): the class       *)
(* requests, the status codes and the states of a DFU interface.  Codes    *)
(* and wire encodings are abstracted to their names.                       *)
(***************************************************************************)
EXTENDS Integers

\* The class-specific requests, DFU_DETACH to DFU_ABORT.
Request == {"DFU_DETACH", "DFU_DNLOAD", "DFU_UPLOAD", "DFU_GETSTATUS",
            "DFU_CLRSTATUS", "DFU_GETSTATE", "DFU_ABORT"}

\* The error codes a DFU interface reports in its status.
Error == {"Target", "File", "Write", "Erase", "CheckErased", "Programming",
          "Verify", "Address", "NotDone", "Firmware", "Vendor", "UsbReset",
          "PowerOnReset", "Unknown", "StalledPkt"}

(***************************************************************************)
(* The values of enum State.  Every value has the same three fields so     *)
(* that two states can always be compared; a field a variant does not      *)
(* carry has its default (0, "None").                                      *)
(***************************************************************************)
Plain(tag)      == [tag |-> tag, timeout |-> 0, error |-> "None"]
Timed(tag, t)   == [tag |-> tag, timeout |-> t, error |-> "None"]
DfuError(e)     == [tag |-> "DfuError", timeout |-> 0, error |-> e]

PlainTag == {"DfuIdle", "DfuDnloadSync", "DfuDnloadIdle", "DfuManifestSync",
             "DfuManifestWaitReset", "DfuUploadIdle"}
TimedTag == {"DfuDnloadBusy", "DfuManifest"}

\* The states a DFU-mode interface can be in when it arms timers of up to
\* max milliseconds.
ModeState(max) == {Plain(tag) : tag \in PlainTag}
                    \cup {Timed(tag, t) : tag \in TimedTag, t \in 1 .. max}
                    \cup {DfuError(e) : e \in Error}

\* Mutant: u32::wrapping_sub, cut to the integers of the checker.
WrappingSub(a, b) == (a - b) % 2^30

\* u32::saturating_sub
SaturatingSub(a, b) == IF a > b THEN a - b ELSE 0
=============================================================================
