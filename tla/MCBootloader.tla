----------------------------- MODULE MCBootloader ----------------------------
(***************************************************************************)
(* A flash of 20 bytes: sector 0 is the bootloader, sector 1 the start of  *)
(* the application, sector 2 its end and, from byte 12, the manifest of    *)
(* 4 + 4 bytes.  Blocks fit the application or cross into the manifest.    *)
(***************************************************************************)
EXTENDS Bootloader

MCSectorBase == [s \in 0 .. 3 |-> IF s = 3 THEN 20 ELSE 4 * s]
=============================================================================
