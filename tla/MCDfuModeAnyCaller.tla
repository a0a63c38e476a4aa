-------------------------- MODULE MCDfuModeAnyCaller -------------------------
(***************************************************************************)
(* A flash of 24 bytes: sector 0 is the bootloader, sectors 1 and 2 the    *)
(* application, and sector 3 the end of it and, from byte 16, the manifest *)
(* of 4 + 4 bytes.  An image may end in any of the three sectors.          *)
(***************************************************************************)
EXTENDS DfuModeAnyCaller

MCSectorBase == [s \in 0 .. 4 |-> IF s = 4 THEN 24 ELSE 4 * s]
=============================================================================
