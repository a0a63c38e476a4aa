------------------------------- MODULE Sectors -------------------------------
(***************************************************************************)
(* The layout of the flash (src/nucleo_f401re/bootloader.rs and mod.rs).   *)
(* The sector table is a constant, so that TLC can use a few bytes per     *)
(* sector and proofs can speak of every table with the same alignment;     *)
(* SectorTable gives it the values of the board.                           *)
(***************************************************************************)
EXTENDS Integers

CONSTANTS
    LastSector,                \* sectors are 0 .. LastSector
    SectorBase,                \* start of each sector, and the end of flash
    APPLICATION_REGION_START,
    MANIFEST_REGION_START

Sector == 0 .. LastSector
FLASH_START == SectorBase[0]
FLASH_END   == SectorBase[LastSector + 1]
Address == FLASH_START .. FLASH_END - 1
APPLICATION_LENGTH == MANIFEST_REGION_START - APPLICATION_REGION_START

\* Sector::region
Region(s) == SectorBase[s] .. SectorBase[s + 1] - 1
\* Mutant: one sector too low.
SectorBelow(addr) ==
    IF addr \in Region(0) THEN 0 ELSE (CHOOSE s \in Sector : addr \in Region(s)) - 1

\* Sector::try_from, for an address inside the flash
SectorOf(addr) == CHOOSE s \in Sector : addr \in Region(s)

ASSUME SectorAssumption ==
    /\ LastSector \in Nat
    /\ SectorBase \in [0 .. LastSector + 1 -> Nat]
    /\ \A s, t \in 0 .. LastSector + 1 : s < t => SectorBase[s] < SectorBase[t]
    /\ \A s \in 0 .. LastSector + 1 : SectorBase[s] % 4 = 0
    /\ \A addr \in Address : \E s \in Sector : addr \in Region(s)

\* The application starts a sector; the manifest ends the last one.
ASSUME RegionAssumption ==
    /\ \E s \in Sector : APPLICATION_REGION_START = SectorBase[s]
    /\ MANIFEST_REGION_START \in Region(LastSector)
    /\ MANIFEST_REGION_START % 4 = 0
    /\ APPLICATION_REGION_START < MANIFEST_REGION_START
=============================================================================
