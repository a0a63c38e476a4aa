---------------------------- MODULE MCSectorTable ----------------------------
(***************************************************************************)
(* Addresses on both sides of every boundary of the flash, and one in      *)
(* every 4 KiB from well below it to well above.                           *)
(***************************************************************************)
EXTENDS SectorTable

MCAddresses ==
    {0} \cup {Origin + 4 * KiB * i : i \in -8 .. 160}
        \cup {BoardBase[s] + d : s \in 0 .. 8, d \in {-4, -1, 1, 4}}
=============================================================================
