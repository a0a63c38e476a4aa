----------------------------- MODULE SectorTable -----------------------------
(***************************************************************************)
(* The sector table of the STM32F401 and the two functions that stand for  *)
(* it: Sector::try_from, which finds a sector by shifts and masks, and     *)
(* Iterator::next (src/nucleo_f401re/bootloader.rs).  The handler's models *)
(* use the table itself (SectorOf, + 1); here the functions are compared   *)
(* with it, and the table with what those models assume of theirs.         *)
(***************************************************************************)
EXTENDS Sectors

CONSTANTS ADDRESSES            \* the addresses try_from is called with

KiB == 1024
Origin == 128 * KiB * KiB      \* 0x0800_0000

\* SECTORS: offset from Origin and length of each, in KiB.
SECTORS == << <<0, 16>>, <<16, 16>>, <<32, 16>>, <<48, 16>>, <<64, 64>>,
              <<128, 128>>, <<256, 128>>, <<384, 128>> >>

BoardEnd == Origin + 512 * KiB
BoardBase ==
    [s \in 0 .. 8 |-> IF s < 8 THEN Origin + SECTORS[s + 1][1] * KiB ELSE BoardEnd]

BoardApplication == Origin + 32 * KiB

\* The manifest is a length and a hash of 20 bytes, in whole 128s.
ManifestSizeAligned == ((4 + 20 + 127) \div 128) * 128
BoardManifest == BoardEnd - ManifestSizeAligned

\* The layout is the board's, and its table has neither gap nor overlap.
ASSUME BoardAssumption ==
    /\ LastSector = 7 /\ SectorBase = BoardBase
    /\ APPLICATION_REGION_START = BoardApplication
    /\ MANIFEST_REGION_START = BoardManifest
    /\ \A s \in 0 .. 7 : SECTORS[s + 1][2] * KiB = BoardBase[s + 1] - BoardBase[s]
    /\ ADDRESSES \subseteq Nat

\* Results of try_from and next that are not a sector.
AddressError == -1
None == -2

\* Mutant: the end of a range is taken for a part of it.
TryFromInclusive(address) ==
    IF address < Origin THEN AddressError
    ELSE IF address <= Origin + 64 * KiB THEN (address \div (16 * KiB)) % 16
    ELSE IF address <= Origin + 128 * KiB THEN 4
    ELSE IF address <= BoardEnd THEN ((address \div (128 * KiB)) % 16) + 4
    ELSE AddressError

\* Sector::try_from
TryFrom(address) ==
    IF address < Origin THEN AddressError
    ELSE IF address < Origin + 64 * KiB THEN (address \div (16 * KiB)) % 16
    ELSE IF address < Origin + 128 * KiB THEN 4
    ELSE IF address < BoardEnd THEN ((address \div (128 * KiB)) % 16) + 4
    ELSE AddressError

\* Mutant: one sector too many.
NextBeyond(s) == IF s <= 7 THEN s + 1 ELSE None

\* Iterator::next of a Sector
NextSector(s) == IF s < 7 THEN s + 1 ELSE None

-----------------------------------------------------------------------------
VARIABLES
    addr,         \* of the last call
    sector        \* what it answered

vars == <<addr, sector>>

Init == addr \in ADDRESSES /\ sector = TryFrom(addr)

Call(a) == addr' = a /\ sector' = TryFrom(a)

Next == \E a \in ADDRESSES : Call(a)

Spec == Init /\ [][Next]_vars

-----------------------------------------------------------------------------
\* The sector found by shifts and masks is the one the table has at that
\* address, and no address outside the flash has one.
FoundIsTheTables ==
    sector = IF addr \in Address THEN SectorOf(addr) ELSE AddressError

\* The sector after the one of an address begins where that one ends, and
\* the last has none: erase_or_program_manifest reaches every sector up to
\* the manifest's, and stops there.
NextIsAdjacent ==
    sector \in Sector =>
        LET end == SectorBase[sector + 1]
        IN  NextSector(sector) = IF end < FLASH_END THEN TryFrom(end) ELSE None

=============================================================================
