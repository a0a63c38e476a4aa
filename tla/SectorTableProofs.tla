-------------------------- MODULE SectorTableProofs --------------------------
(***************************************************************************)
(* The shifts and masks of Sector::try_from find the sector of the table,  *)
(* for every address.                                                      *)
(***************************************************************************)
EXTENDS SectorTable, TLAPS

\* The bases of the sectors, by number.
LEMMA BaseValues ==
    /\ LastSector = 7
    /\ SectorBase[0] = Origin             /\ SectorBase[1] = Origin + 16 * KiB
    /\ SectorBase[2] = Origin + 32 * KiB  /\ SectorBase[3] = Origin + 48 * KiB
    /\ SectorBase[4] = Origin + 64 * KiB  /\ SectorBase[5] = Origin + 128 * KiB
    /\ SectorBase[6] = Origin + 256 * KiB /\ SectorBase[7] = Origin + 384 * KiB
    /\ SectorBase[8] = Origin + 512 * KiB
<1>1. /\ LastSector = 7 /\ SectorBase = BoardBase
  BY BoardAssumption
<1>2. \A s \in 0 .. 8 :
        BoardBase[s] = IF s < 8 THEN Origin + SECTORS[s + 1][1] * KiB ELSE BoardEnd
  BY SMT DEF BoardBase
<1>3. /\ SECTORS[1][1] = 0   /\ SECTORS[2][1] = 16  /\ SECTORS[3][1] = 32
      /\ SECTORS[4][1] = 48  /\ SECTORS[5][1] = 64  /\ SECTORS[6][1] = 128
      /\ SECTORS[7][1] = 256 /\ SECTORS[8][1] = 384
  BY SMT DEF SECTORS
<1> QED BY SMT, <1>1, <1>2, <1>3 DEF BoardEnd, Origin, KiB

LEMMA SectorIs == Sector = 0 .. 7
BY BaseValues, SMT DEF Sector

LEMMA AddressIs ==
    ASSUME NEW a \in Nat
    PROVE  a \in Address <=> (Origin <= a /\ a < Origin + 512 * KiB)
<1>0. LastSector + 1 = 8
  BY BaseValues, SMT
<1>1. Address = Origin .. (Origin + 512 * KiB) - 1
  BY <1>0, BaseValues, Zenon DEF Address, FLASH_START, FLASH_END
<1>2. Origin \in Int /\ Origin + 512 * KiB \in Int
  BY SMT DEF Origin, KiB
<1> DEFINE end == Origin + 512 * KiB
<1> HIDE DEF end
<1>3. Address = Origin .. end - 1 /\ end \in Int
  BY <1>1, <1>2, Zenon DEF end
<1>4. a \in Address <=> (Origin <= a /\ a < end)
  BY SMT, <1>2, <1>3
<1> QED BY <1>4, Zenon DEF end

\* The two shifts, as intervals: the origin is a multiple of 16 * 128 KiB.
LEMMA Shift14 ==
    ASSUME NEW a \in Nat, Origin <= a, a < Origin + 64 * KiB
    PROVE  LET k == (a \div (16 * KiB)) % 16
           IN  k \in 0 .. 3 /\ Origin + 16 * KiB * k <= a /\ a < Origin + 16 * KiB * (k + 1)
BY SMT DEF Origin, KiB

LEMMA Shift17 ==
    ASSUME NEW a \in Nat, Origin + 128 * KiB <= a, a < Origin + 512 * KiB
    PROVE  LET k == (a \div (128 * KiB)) % 16
           IN  k \in 1 .. 3 /\ Origin + 128 * KiB * k <= a /\ a < Origin + 128 * KiB * (k + 1)
BY SMT DEF Origin, KiB

\* Only one sector holds a given address.
LEMMA SectorOfIs ==
    ASSUME NEW s \in 0 .. 7, NEW a \in Nat, a \in Region(s)
    PROVE  SectorOf(a) = s
<1>1. \A t \in 0 .. 7 : a \in Region(t) => t = s
  BY SMT, BaseValues DEF Region, Origin, KiB
<1> QED BY <1>1, SectorIs DEF SectorOf

\* try_from answers as the table does, for every address.
LEMMA TryFromIsTheTables ==
    ASSUME NEW a \in Nat
    PROVE  TryFrom(a) = IF a \in Address THEN SectorOf(a) ELSE AddressError
<1>1. CASE a \notin Address
  BY SMT, <1>1, AddressIs DEF TryFrom, BoardEnd, Origin, KiB, AddressError
<1>2. CASE a \in Address
  <2>1. Origin <= a /\ a < Origin + 512 * KiB
    BY <1>2, AddressIs
  <2>2. CASE a < Origin + 64 * KiB
    <3> DEFINE k == (a \div (16 * KiB)) % 16
    <3>1. TryFrom(a) = k
      BY SMT, <2>1, <2>2 DEF TryFrom, Origin, KiB
    <3>2. k \in 0 .. 3 /\ Origin + 16 * KiB * k <= a /\ a < Origin + 16 * KiB * (k + 1)
      BY SMT, <2>1, <2>2, Shift14 DEF Origin, KiB
    <3> HIDE DEF k
    <3>3. a \in Region(k)
      BY SMT, <2>1, <3>2, BaseValues DEF Region, Origin, KiB
    <3> QED BY <1>2, <3>1, <3>2, <3>3, SectorOfIs
  <2>3. CASE a >= Origin + 64 * KiB /\ a < Origin + 128 * KiB
    <3>1. TryFrom(a) = 4
      BY SMT, <2>3 DEF TryFrom, Origin, KiB
    <3>2. a \in Region(4)
      BY SMT, <2>1, <2>3, BaseValues DEF Region, Origin, KiB
    <3> QED BY <1>2, <3>1, <3>2, SectorOfIs
  <2>4. CASE a >= Origin + 128 * KiB
    <3> DEFINE k == (a \div (128 * KiB)) % 16
    <3>1. TryFrom(a) = k + 4
      BY SMT, <2>1, <2>4 DEF TryFrom, BoardEnd, Origin, KiB
    <3>2. k \in 1 .. 3 /\ Origin + 128 * KiB * k <= a /\ a < Origin + 128 * KiB * (k + 1)
      BY SMT, <2>1, <2>4, Shift17 DEF Origin, KiB
    <3> HIDE DEF k
    <3>3. k + 4 \in 0 .. 7 /\ a \in Region(k + 4)
      BY SMT, <2>1, <3>2, BaseValues DEF Region, Origin, KiB
    <3> QED BY <1>2, <3>1, <3>3, SectorOfIs
  <2>5. \/ a < Origin + 64 * KiB
        \/ (a >= Origin + 64 * KiB /\ a < Origin + 128 * KiB)
        \/ a >= Origin + 128 * KiB
    BY SMT DEF Origin, KiB
  <2> QED BY <2>2, <2>3, <2>4, <2>5, Zenon
<1> QED BY <1>1, <1>2

\* For every address, the sector found is the one the models of the
\* handler take SectorOf for.
THEOREM FoundIsExact == Spec => []FoundIsTheTables
<1> DEFINE Answered == addr \in Nat /\ sector = TryFrom(addr)
<1>1. Init => Answered
  BY BoardAssumption DEF Init
<1>2. Answered /\ [Next]_vars => Answered'
  BY BoardAssumption DEF Next, Call, vars
<1>3. Answered => FoundIsTheTables
  BY TryFromIsTheTables DEF FoundIsTheTables
<1> HIDE DEF Answered
<1> QED BY <1>1, <1>2, <1>3, PTL DEF Spec

\* Iterator::next goes to the sector that begins where this one ends, and
\* stops after the last.
THEOREM NextIsExact == Spec => []NextIsAdjacent
<1>1. ASSUME NEW s \in Sector
      PROVE  NextSector(s) = IF SectorBase[s + 1] < FLASH_END
                              THEN TryFrom(SectorBase[s + 1]) ELSE None
  <2>1. s \in 0 .. 7 /\ FLASH_END = Origin + 512 * KiB
    BY SectorIs, BaseValues DEF FLASH_END
  <2>2. CASE s = 7
    <3>1. ~(SectorBase[s + 1] < FLASH_END)
      BY SMT, <2>1, <2>2, BaseValues DEF Origin, KiB
    <3> QED BY SMT, <2>2, <3>1 DEF NextSector
  <2>3. CASE s # 7
    <3>1. /\ s + 1 \in 0 .. 7 /\ SectorBase[s + 1] \in Nat
          /\ SectorBase[s + 1] \in Region(s + 1) /\ SectorBase[s + 1] < FLASH_END
      BY SMT, <2>1, <2>3, BaseValues DEF Region, Origin, KiB
    <3>2. Origin <= SectorBase[s + 1]
      BY SMT, <2>1, <2>3, BaseValues DEF Origin, KiB
    <3>3. TryFrom(SectorBase[s + 1]) = s + 1
      BY <2>1, <3>1, <3>2, AddressIs, SectorOfIs, TryFromIsTheTables
    <3>4. NextSector(s) = s + 1
      BY SMT, <2>1, <2>3 DEF NextSector, None
    <3> QED BY <3>1, <3>3, <3>4, Zenon
  <2> QED BY <2>2, <2>3
<1>2. NextIsAdjacent
  BY <1>1 DEF NextIsAdjacent
<1> QED BY <1>2, PTL
=============================================================================
