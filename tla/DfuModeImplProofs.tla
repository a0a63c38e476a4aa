-------------------------- MODULE DfuModeImplProofs ---------------------------
(***************************************************************************)
(* DFUModeImpl over its driver and the flash: what each of its methods,    *)
(* the controller and a reset keep, whatever was called before and         *)
(* answered, for every sector table, block, hash length and set of faults. *)
(* The first part is about who works on the flash and when, the second     *)
(* about what is on it: the image and the manifest are what the host sent  *)
(* and finished, or nothing that would be started.  Whoever calls the      *)
(* handler, DfuModeAnyCaller or Bootloader, makes HandlerSteps.            *)
(***************************************************************************)
EXTENDS DfuModeImpl, TLAPS

(***************************************************************************)
(* The invariant of the driver.  NoOverlap is not inductive: that an       *)
(* operation starts only when the controller is idle follows from what the *)
(* handler does when, so the invariant relates the state of the handler to *)
(* that of the driver, and the driver's to the controller's.               *)
(***************************************************************************)
IsBytes(q) == Len(q) \in Nat /\ q = [i \in 1 .. Len(q) |-> q[i]]
IsData(s)  == IsBytes(s) /\ \A i \in 1 .. Len(s) : s[i][1] = "data"

\* A step of the controller, and any step of the handler and its flash.
ControllerStep == ControllerDone /\ UNCHANGED <<hstate, program, slice, sent, finalised>>

HandlerStep ==
    \/ \E buf, r : /\ IsData(buf) /\ Len(buf) > 0 /\ r \in PollAnswers
                    /\ Download(buf, r)
    \/ \E a : IsManifestationInProgress(a)
    \/ \E r : HandlerPoll(r)
    \/ \E size, r, n : size \in Nat /\ Upload(size, r, n)
    \/ ControllerStep
    \/ HandlerReset
    \/ UNCHANGED handlerVars

InApplication(s) == s \in Sector /\ APPLICATION_REGION_START <= SectorBase[s]

LegalOp(o) ==
    /\ o.tag \in {"Idle", "Erasing", "Programming"}
    /\ o.tag = "Idle" => o = MemIdle
    /\ o.tag = "Erasing" => InApplication(o.sector)
    /\ o.tag = "Programming" => /\ o.addr \in Nat
                                /\ APPLICATION_REGION_START <= o.addr
                                /\ IsBytes(o.src)

LegalProgram(p) ==
    /\ p.addr \in Nat /\ APPLICATION_REGION_START <= p.addr
    /\ InApplication(p.current_sector)
    /\ IsBytes(p.rest)

Owed ==
    memory.tag = "Programming" =>
        /\ program.st \in {"AwaitProgram", "AwaitProgramManifest"}
        /\ memory.addr = program.addr
        /\ Len(memory.src) <= Len(program.rest)

HandlerState == {"Idle", "Download", "Manifetation", "Upload", "Error", "Panicked"}

DriverInv ==
    /\ LegalOp(memory) /\ LegalOp(op)
    /\ hstate \in HandlerState
    /\ op # MemIdle => memory = op \/ hstate = "Panicked"
    /\ memory # MemIdle => \/ Busy /\ program.st # "AwaitData"
                           \/ hstate \in {"Error", "Panicked"}
    /\ Busy => LegalProgram(program) /\ Owed

\* What a step of the Program that answers r does to all of this.
Steps(r) ==
    /\ LegalOp(memory') /\ LegalOp(op')
    /\ op' # MemIdle => memory' = op' \/ r = "panic"
    /\ r = "Ok" => /\ LegalProgram(program')
                   /\ Owed'
                   /\ memory' # MemIdle => program'.st # "AwaitData"
    /\ r = "Done" => memory' = MemIdle
    /\ op # MemIdle => op' = op

-----------------------------------------------------------------------------
\* Facts about the operators.

\* A byte string is a sequence, which is what the provers know about.
LEMMA BytesAreSeq ==
    ASSUME NEW q, IsBytes(q)
    PROVE  \E S : q \in Seq(S)
<1> DEFINE S == {q[i] : i \in 1 .. Len(q)}
<1>1. q \in [1 .. Len(q) -> S]
  BY DEF IsBytes
<1>2. q \in Seq(S)
  BY <1>1 DEF IsBytes
<1> QED BY <1>2

LEMMA SeqIsBytes ==
    ASSUME NEW S, NEW q \in Seq(S)
    PROVE  IsBytes(q)
BY DEF IsBytes

LEMMA EmptyIsBytes == IsBytes(<<>>)
BY DEF IsBytes

\* The splitting of a byte string by the write size.
LEMMA SplitBytes ==
    ASSUME NEW q, IsBytes(q), NEW w \in 0 .. Len(q)
    PROVE  /\ IsBytes(SubSeq(q, 1, w)) /\ Len(SubSeq(q, 1, w)) = w
           /\ IsBytes(SubSeq(q, w + 1, Len(q)))
           /\ Len(SubSeq(q, w + 1, Len(q))) = Len(q) - w
<1>1. PICK S : q \in Seq(S)
  BY BytesAreSeq
<1>2. SubSeq(q, 1, w) \in Seq(S) /\ Len(SubSeq(q, 1, w)) = w
  BY <1>1
<1>3. SubSeq(q, w + 1, Len(q)) \in Seq(S) /\ Len(SubSeq(q, w + 1, Len(q))) = Len(q) - w
  BY <1>1
<1> QED BY <1>2, <1>3, SeqIsBytes

LEMMA TornBytes ==
    ASSUME NEW q, IsBytes(q)
    PROVE  IsBytes(q \o <<Torn>>)
<1>1. PICK S : q \in Seq(S)
  BY BytesAreSeq
<1>2. q \o <<Torn>> \in Seq(S \cup {Torn})
  BY <1>1
<1> QED BY <1>2, SeqIsBytes

\* Memory::program never writes across a word, whatever it is asked for, and
\* is wider than its source only for one byte at an address = 2 mod 4.
LEMMA ToWriteFacts ==
    ASSUME NEW addr \in Nat, NEW n \in Nat
    PROVE  /\ ToWrite(addr, n) \in Nat
           /\ (addr % 4) + ToWrite(addr, n) <= 4
           /\ n > 0 /\ ToWrite(addr, n) > n => addr % 4 = 2 /\ n = 1
BY DEF ToWrite

\* The sector table is sorted.
LEMMA BaseFacts ==
    /\ LastSector \in Nat
    /\ \A i \in 0 .. LastSector + 1 : SectorBase[i] \in Nat
    /\ \A i, j \in 0 .. LastSector + 1 : i <= j => SectorBase[i] <= SectorBase[j]
<1>1. LastSector \in Nat /\ SectorBase \in [0 .. LastSector + 1 -> Nat]
  BY SectorAssumption
<1>2. ASSUME NEW i \in 0 .. LastSector + 1, NEW j \in 0 .. LastSector + 1, i <= j
      PROVE  SectorBase[i] <= SectorBase[j]
  <2>1. SectorBase[i] \in Nat /\ SectorBase[j] \in Nat
    BY <1>1
  <2>2. CASE i = j
    BY <2>1, <2>2
  <2>3. CASE i < j
    <3>1. SectorBase[i] < SectorBase[j]
      BY <2>3, SectorAssumption, Zenon
    <3> QED BY <2>1, <3>1
  <2>4. i \in Int /\ j \in Int
    BY <1>1
  <2> QED BY <1>2, <2>2, <2>3, <2>4
<1> QED BY <1>1, <1>2

LEMMA RegionFacts ==
    /\ APPLICATION_REGION_START \in Nat /\ MANIFEST_REGION_START \in Nat
    /\ APPLICATION_REGION_START < MANIFEST_REGION_START
    /\ FLASH_START \in Nat /\ FLASH_START <= APPLICATION_REGION_START
    /\ MANIFEST_REGION_START < FLASH_END
    /\ InApplication(LastSector)
<1>1. PICK s \in Sector : APPLICATION_REGION_START = SectorBase[s]
  BY RegionAssumption
<1>2. s \in 0 .. LastSector /\ LastSector \in Nat
  BY SectorAssumption DEF Sector
<1>3. /\ SectorBase[s] \in Nat /\ SectorBase[0] \in Nat
      /\ SectorBase[LastSector] \in Nat /\ SectorBase[LastSector + 1] \in Nat
  BY <1>2, SectorAssumption
<1>4. SectorBase[0] <= SectorBase[s]
  BY <1>2, <1>3, SectorAssumption
<1>5. SectorBase[s] <= SectorBase[LastSector]
  BY <1>2, <1>3, SectorAssumption
<1>6. MANIFEST_REGION_START \in SectorBase[LastSector] .. SectorBase[LastSector + 1] - 1
  BY RegionAssumption DEF Region
<1> QED BY <1>1, <1>2, <1>3, <1>4, <1>5, <1>6, RegionAssumption
        DEF FLASH_START, FLASH_END, InApplication, Sector

\* Sector::try_from of an address of the application is a sector of it.
LEMMA SectorOfFacts ==
    ASSUME NEW addr \in Nat, APPLICATION_REGION_START <= addr, addr < MANIFEST_REGION_START
    PROVE  InApplication(SectorOf(addr)) /\ addr \in Region(SectorOf(addr))
<1>1. addr \in Address
  BY RegionFacts, SectorAssumption DEF Address, FLASH_START, FLASH_END
<1>2. SectorOf(addr) \in Sector /\ addr \in Region(SectorOf(addr))
  BY <1>1, SectorAssumption DEF SectorOf
<1>3. PICK a \in Sector : APPLICATION_REGION_START = SectorBase[a]
  BY RegionAssumption
<1> DEFINE s == SectorOf(addr)
<1>4. /\ s \in 0 .. LastSector + 1 /\ s + 1 \in 0 .. LastSector + 1
      /\ a \in 0 .. LastSector + 1
  BY <1>2, <1>3, BaseFacts DEF Sector
<1> HIDE DEF s
<1>5. addr < SectorBase[s + 1]
  BY <1>2, <1>4, BaseFacts DEF Region, s
<1>6. ~(s + 1 <= a)
  <2> SUFFICES ASSUME s + 1 <= a PROVE FALSE
    OBVIOUS
  <2>1. SectorBase[s + 1] <= SectorBase[a]
    BY <1>4, BaseFacts
  <2> QED BY <2>1, <1>3, <1>4, <1>5, BaseFacts
<1>7. SectorBase[a] <= SectorBase[s]
  BY <1>4, <1>6, BaseFacts
<1> QED BY <1>2, <1>3, <1>7 DEF InApplication, s

LEMMA NextSectorFacts ==
    ASSUME NEW s, InApplication(s), s < LastSector
    PROVE  InApplication(s + 1)
<1>1. s \in 0 .. LastSector /\ s + 1 \in 0 .. LastSector /\ LastSector \in Nat
  BY SectorAssumption DEF InApplication, Sector
<1>2. SectorBase[s] \in Nat /\ SectorBase[s + 1] \in Nat /\ SectorBase[s] < SectorBase[s + 1]
  BY <1>1, SectorAssumption
<1> QED BY <1>1, <1>2, RegionFacts DEF InApplication, Sector

-----------------------------------------------------------------------------
\* Facts about the driver: each names its result and what it started.

LEMMA MemIdleIsLegal == LegalOp(MemIdle) /\ MemIdle.tag = "Idle"
BY DEF LegalOp, MemIdle

LEMMA StartEraseFacts ==
    ASSUME NEW drv, NEW s, NEW r, LegalOp(drv), InApplication(s), op = MemIdle,
           StartErase(drv, s, r)
    PROVE  /\ LegalOp(memory') /\ LegalOp(op')
           /\ \/ /\ r = "Ok" /\ memory' = op'
                 /\ memory'.tag = "Erasing"
              \/ r = "Write" /\ memory' = drv /\ op' = MemIdle
<1>1. LegalOp(Erasing(s)) /\ Erasing(s).tag = "Erasing"
  BY DEF LegalOp, Erasing
<1> QED BY <1>1, MemIdleIsLegal DEF StartErase

LEMMA StartProgramFacts ==
    ASSUME NEW drv, NEW addr \in Nat, NEW src, NEW r, LegalOp(drv),
           APPLICATION_REGION_START <= addr, IsBytes(src), op = MemIdle,
           StartProgram(drv, addr, src, r)
    PROVE  /\ LegalOp(memory') /\ LegalOp(op')
           /\ \/ /\ r = "Ok" /\ memory' = op' /\ memory'.tag = "Programming"
                 /\ memory'.addr = addr /\ Len(memory'.src) <= Len(src)
              \/ r = "panic" /\ memory' = drv
              \/ r = "Write" /\ memory' = drv /\ op' = MemIdle
<1> DEFINE w == ToWrite(addr, Len(src))
<1>1. Len(src) \in Nat /\ w \in Nat
  BY ToWriteFacts DEF IsBytes
<1>2. ASSUME NEW q, IsBytes(q)
      PROVE  /\ LegalOp(Programming(addr, q)) /\ Programming(addr, q).tag = "Programming"
             /\ Programming(addr, q).addr = addr /\ Programming(addr, q).src = q
  BY <1>2 DEF LegalOp, Programming
<1>3. CASE w <= Len(src) /\ r = "Ok" /\ memory' = Programming(addr, SubSeq(src, 1, w))
                         /\ op' = memory'
  <2>1. IsBytes(SubSeq(src, 1, w)) /\ Len(SubSeq(src, 1, w)) = w
    BY <1>1, <1>3, SplitBytes
  <2> QED BY <1>1, <1>2, <1>3, <2>1
<1>4. CASE r = "panic" /\ memory' = drv /\ op' = Programming(addr, src \o <<Torn>>)
  BY <1>2, <1>4, TornBytes
<1>5. CASE r = "Write" /\ memory' = drv /\ op' = op
  BY <1>5, MemIdleIsLegal
<1> QED BY <1>3, <1>4, <1>5 DEF StartProgram

-----------------------------------------------------------------------------
\* Facts about the Program: with the controller idle and the driver drv idle
\* or about to be, what each helper leaves is what Steps says.

LEMMA ErrorsOfHandler == "Ok" \notin Error /\ "Done" \notin Error /\ "panic" \notin Error
BY DEF Error

\* A Program that goes on with the operation it has just started.
LEMMA StepsOn ==
    ASSUME NEW r, op = MemIdle, LegalOp(memory'), LegalOp(op'),
           \/ /\ r = "Ok" /\ memory' = op' /\ LegalProgram(program')
              /\ Owed' /\ program'.st # "AwaitData"
           \/ r \notin {"Ok", "Done"} /\ op' = MemIdle
           \/ r = "panic"
    PROVE  Steps(r)
BY DEF Steps

LEMMA EraseOrProgramSteps ==
    ASSUME NEW p, NEW r, LegalProgram(p), op = MemIdle, EraseOrProgram(MemIdle, p, r)
    PROVE  Steps(r)
<1>0. LegalOp(MemIdle) /\ p.addr \in Nat /\ APPLICATION_REGION_START <= p.addr
  BY MemIdleIsLegal DEF LegalProgram
<1>1. CASE r = "Address" /\ Quiet(MemIdle)
  BY <1>0, <1>1, StepsOn DEF Quiet
<1> DEFINE s == SectorOf(p.addr)
           e == Program(s, p.addr, "AwaitEraseBeforeProgram", p.rest)
           g == Program(p.current_sector, p.addr, "AwaitProgram", p.rest)
<1>2. CASE p.addr < MANIFEST_REGION_START /\ StartErase(MemIdle, s, r) /\ Becomes(e, r)
  <2>1. InApplication(s)
    BY <1>0, <1>2, SectorOfFacts
  <2>2. /\ LegalOp(memory') /\ LegalOp(op')
        /\ \/ r = "Ok" /\ memory' = op' /\ memory'.tag = "Erasing"
           \/ r = "Write" /\ op' = MemIdle
    BY <1>0, <1>2, <2>1, StartEraseFacts
  <2>3. CASE r = "Ok"
    <3>1. program' = e
      BY <1>2, <2>3 DEF Becomes
    <3>2. LegalProgram(e) /\ e.st = "AwaitEraseBeforeProgram"
      BY <2>1, EmptyIsBytes DEF LegalProgram, Program
    <3>3. Owed'
      BY <2>2, <2>3 DEF Owed
    <3> QED BY <2>2, <2>3, <3>1, <3>2, <3>3, StepsOn
  <2>4. CASE r # "Ok"
    BY <2>2, <2>4, StepsOn
  <2> QED BY <2>3, <2>4
<1>3. CASE StartProgram(MemIdle, p.addr, p.rest, r) /\ Becomes(g, r)
  <2>1. /\ LegalOp(memory') /\ LegalOp(op')
        /\ \/ /\ r = "Ok" /\ memory' = op' /\ memory'.tag = "Programming"
              /\ memory'.addr = p.addr /\ Len(memory'.src) <= Len(p.rest)
           \/ r = "panic"
           \/ r = "Write" /\ op' = MemIdle
    BY <1>0, <1>3, StartProgramFacts DEF LegalProgram
  <2>2. CASE r = "Ok"
    <3>1. program' = g
      BY <1>3, <2>2 DEF Becomes
    <3>2. LegalProgram(g) /\ g.st = "AwaitProgram" /\ g.addr = p.addr /\ g.rest = p.rest
      BY DEF LegalProgram, Program
    <3>3. Owed'
      BY <2>1, <2>2, <3>1, <3>2 DEF Owed
    <3> QED BY <2>1, <2>2, <3>1, <3>2, <3>3, StepsOn
  <2>3. CASE r # "Ok"
    BY <2>1, <2>3, StepsOn
  <2> QED BY <2>2, <2>3
<1> QED BY <1>1, <1>2, <1>3 DEF EraseOrProgram

LEMMA ManifestIsBytes ==
    ASSUME NEW length, NEW image
    PROVE  IsBytes(ManifestBytes(length, image))
<1> DEFINE n == 4 + HASH_LENGTH
           m == ManifestBytes(length, image)
<1>1. n \in Nat
  BY ManifestAssumption
<1>2. m \in [1 .. n -> {m[k] : k \in 1 .. n}]
  BY DEF ManifestBytes
<1>3. m \in Seq({m[k] : k \in 1 .. n})
  BY <1>1, <1>2
<1> QED BY <1>3, SeqIsBytes

LEMMA EraseOrProgramManifestSteps ==
    ASSUME NEW p, NEW r, LegalProgram(p), op = MemIdle,
           EraseOrProgramManifest(MemIdle, p, r)
    PROVE  Steps(r)
<1> DEFINE length == p.addr - APPLICATION_REGION_START
           bytes  == NewManifest(length)
           e == Program(p.current_sector + 1, p.addr, "AwaitErase", <<>>)
           g == Program(LastSector, MANIFEST_REGION_START, "AwaitProgramManifest", bytes)
<1>0. LegalOp(MemIdle) /\ InApplication(p.current_sector)
  BY MemIdleIsLegal DEF LegalProgram
<1>1. CASE /\ p.current_sector < LastSector
           /\ StartErase(MemIdle, p.current_sector + 1, r)
           /\ Becomes(e, r)
  <2>1. InApplication(p.current_sector + 1)
    BY <1>0, <1>1, NextSectorFacts
  <2>2. /\ LegalOp(memory') /\ LegalOp(op')
        /\ \/ r = "Ok" /\ memory' = op' /\ memory'.tag = "Erasing"
           \/ r = "Write" /\ op' = MemIdle
    BY <1>0, <1>1, <2>1, StartEraseFacts
  <2>3. CASE r = "Ok"
    <3>1. program' = e
      BY <1>1, <2>3 DEF Becomes
    <3>2. LegalProgram(e) /\ e.st = "AwaitErase"
      BY <2>1, EmptyIsBytes DEF LegalProgram, Program
    <3>3. Owed'
      BY <2>2, <2>3 DEF Owed
    <3> QED BY <2>2, <2>3, <3>1, <3>2, <3>3, StepsOn
  <2>4. CASE r # "Ok"
    BY <2>2, <2>4, StepsOn
  <2> QED BY <2>3, <2>4
<1>2. CASE StartProgram(MemIdle, MANIFEST_REGION_START, bytes, r) /\ Becomes(g, r)
  <2>0. IsBytes(bytes)
    BY ManifestIsBytes DEF NewManifest
  <2> HIDE DEF bytes
  <2>1. /\ LegalOp(memory') /\ LegalOp(op')
        /\ \/ /\ r = "Ok" /\ memory' = op' /\ memory'.tag = "Programming"
              /\ memory'.addr = MANIFEST_REGION_START /\ Len(memory'.src) <= Len(bytes)
           \/ r = "panic"
           \/ r = "Write" /\ op' = MemIdle
    BY <1>0, <1>2, <2>0, RegionFacts, StartProgramFacts
  <2>2. CASE r = "Ok"
    <3>1. program' = g
      BY <1>2, <2>2 DEF Becomes
    <3>2. /\ LegalProgram(g) /\ g.st = "AwaitProgramManifest"
          /\ g.addr = MANIFEST_REGION_START /\ g.rest = bytes
      BY <1>0, <2>0, RegionFacts DEF LegalProgram, Program
    <3>3. Owed'
      BY <2>1, <2>2, <3>1, <3>2 DEF Owed
    <3> QED BY <2>1, <2>2, <3>1, <3>2, <3>3, StepsOn
  <2>3. CASE r # "Ok"
    BY <2>1, <2>3, StepsOn
  <2> QED BY <2>2, <2>3
<1> QED BY <1>1, <1>2 DEF EraseOrProgramManifest

\* The arms of Program::poll: what was written is taken off the front.
LEMMA AdvanceSteps ==
    ASSUME NEW r, LegalOp(memory), LegalProgram(program), Owed, op = MemIdle, Advance(r)
    PROVE  Steps(r)
<1> DEFINE n == Written
           rest == SubSeq(program.rest, n + 1, Len(program.rest))
           p == Program(program.current_sector, program.addr + n, program.st, rest)
<1>0. LegalOp(MemIdle) /\ IsBytes(program.rest)
      /\ program.addr \in Nat /\ APPLICATION_REGION_START <= program.addr
  BY MemIdleIsLegal DEF LegalProgram
<1>1. n \in 0 .. Len(program.rest)
  <2>1. Len(program.rest) \in Nat
    BY <1>0 DEF IsBytes
  <2>2. CASE memory.tag = "Programming"
    BY <2>1, <2>2 DEF Owed, Written, LegalOp, IsBytes
  <2>3. CASE memory.tag # "Programming"
    BY <2>1, <2>3 DEF Written
  <2> QED BY <2>2, <2>3
<1>2. IsBytes(SubSeq(program.rest, n + 1, Len(program.rest)))
  BY <1>0, <1>1, SplitBytes
<1> HIDE DEF n
<1>3. LegalProgram(p) /\ p.st = program.st
  <2>1. program.addr + n \in Nat /\ APPLICATION_REGION_START <= program.addr + n
    <3>1. n \in Nat
      BY <1>0, <1>1 DEF IsBytes
    <3> QED BY <1>0, <3>1, RegionFacts
  <2>2. /\ p.addr = program.addr + n /\ p.rest = SubSeq(program.rest, n + 1, Len(program.rest))
        /\ p.current_sector = program.current_sector /\ p.st = program.st
    BY DEF Program
  <2> QED BY <1>2, <2>1, <2>2 DEF LegalProgram
<1>4. CASE /\ StartProgram(MemIdle, program.addr, program.rest, r)
           /\ Becomes(Program(program.current_sector, program.addr, "AwaitProgram",
                              program.rest), r)
  <2> DEFINE g == Program(program.current_sector, program.addr, "AwaitProgram", program.rest)
  <2>1. /\ LegalOp(memory') /\ LegalOp(op')
        /\ \/ /\ r = "Ok" /\ memory' = op' /\ memory'.tag = "Programming"
              /\ memory'.addr = program.addr /\ Len(memory'.src) <= Len(program.rest)
           \/ r = "panic"
           \/ r = "Write" /\ op' = MemIdle
    BY <1>0, <1>4, StartProgramFacts
  <2>2. CASE r = "Ok"
    <3>1. program' = g
      BY <1>4, <2>2 DEF Becomes
    <3>2. /\ LegalProgram(g) /\ g.st = "AwaitProgram"
          /\ g.addr = program.addr /\ g.rest = program.rest
      BY DEF LegalProgram, Program
    <3>3. Owed'
      BY <2>1, <2>2, <3>1, <3>2 DEF Owed
    <3> QED BY <2>1, <2>2, <3>1, <3>2, <3>3, StepsOn
  <2>3. CASE r # "Ok"
    BY <2>1, <2>3, StepsOn
  <2> QED BY <2>2, <2>3
<1>5. CASE r = "Ok" /\ Quiet(MemIdle) /\ program' = Program(p.current_sector, p.addr, "AwaitData", <<>>)
  <2>1. LegalProgram(program')
    BY <1>3, <1>5, EmptyIsBytes DEF LegalProgram, Program
  <2>2. memory' = MemIdle /\ op' = MemIdle /\ Owed'
    BY <1>5, MemIdleIsLegal DEF Quiet, Owed
  <2> QED BY <1>0, <1>5, <2>1, <2>2 DEF Steps
<1>6. CASE EraseOrProgram(MemIdle, p, r)
  <2> HIDE DEF p
  <2> QED BY <1>3, <1>6, EraseOrProgramSteps
<1>7. CASE EraseOrProgramManifest(MemIdle, program, r)
  BY <1>7, EraseOrProgramManifestSteps
<1>8. CASE r = "Done" /\ Quiet(MemIdle)
  BY <1>0, <1>8 DEF Steps, Quiet
<1>9. CASE /\ program.st = "AwaitProgramManifest"
           /\ StartProgram(MemIdle, p.addr, p.rest, r)
           /\ Becomes(p, r)
  <2> HIDE DEF p
  <2>1. /\ LegalOp(memory') /\ LegalOp(op')
        /\ \/ /\ r = "Ok" /\ memory' = op' /\ memory'.tag = "Programming"
              /\ memory'.addr = p.addr /\ Len(memory'.src) <= Len(p.rest)
           \/ r = "panic"
           \/ r = "Write" /\ op' = MemIdle
    BY <1>0, <1>3, <1>9, StartProgramFacts DEF LegalProgram
  <2>2. CASE r = "Ok"
    <3>1. program' = p
      BY <1>9, <2>2 DEF Becomes
    <3>2. Owed'
      BY <1>3, <1>9, <2>1, <2>2, <3>1 DEF Owed
    <3> QED BY <1>3, <1>9, <2>1, <2>2, <3>1, <3>2, StepsOn
  <2>3. CASE r # "Ok"
    BY <2>1, <2>3, StepsOn
  <2> QED BY <2>2, <2>3
<1> QED BY <1>4, <1>5, <1>6, <1>7, <1>8, <1>9 DEF Advance, n, p

LEMMA ProgramPollSteps ==
    ASSUME DriverInv, Busy, NEW r, ProgramPoll(r)
    PROVE  Steps(r)
<1>0. /\ LegalOp(memory) /\ LegalOp(op) /\ LegalProgram(program) /\ Owed
      /\ op # MemIdle => memory = op
      /\ memory # MemIdle => program.st # "AwaitData"
  BY DEF DriverInv, Busy
<1>1. CASE r = "Ok" /\ Quiet(memory) /\ program' = program
  <2>1. memory' = memory /\ op' = op /\ program' = program
    BY <1>1 DEF Quiet
  <2>2. Owed'
    BY <1>0, <2>1 DEF Owed
  <2> QED BY <1>0, <1>1, <2>1, <2>2 DEF Steps
<1>2. CASE PollResult \in Error /\ r = PollResult /\ Quiet(MemIdle)
  <2>1. op = MemIdle
    <3> SUFFICES ASSUME op # MemIdle PROVE FALSE
      OBVIOUS
    <3>1. PollResult \in {"Ok", "Pending"}
      BY <1>0 DEF PollResult
    <3> QED BY <1>2, <3>1 DEF Error
  <2>2. r \notin {"Ok", "Done"}
    BY <1>2, ErrorsOfHandler
  <2>3. LegalOp(memory') /\ LegalOp(op') /\ op' = MemIdle
    BY <1>2, <2>1, MemIdleIsLegal DEF Quiet
  <2> QED BY <2>1, <2>2, <2>3, StepsOn
<1>3. CASE PollResult = "Ok" /\ Advance(r)
  <2>1. op = MemIdle
    BY <1>0, <1>3 DEF PollResult
  <2> QED BY <1>0, <1>3, <2>1, AdvanceSteps
<1> QED BY <1>1, <1>2, <1>3 DEF ProgramPoll

-----------------------------------------------------------------------------
\* Facts about the handler: DriverInv is kept, and what the controller is
\* doing is left alone.  LeftAlone is the part of NoOverlap a call can break.
LeftAlone == op # MemIdle => op' \in {op, MemIdle}

\* What the owner of a Program makes of its answer r.
Settles(r) ==
    /\ r \in HandlerError => hstate' = "Error"
    /\ r = "panic" => hstate' = "Panicked"
    /\ r = "Done" => hstate' = "Idle"
    /\ r = "Ok" => hstate' \in {"Download", "Manifetation"}

LEMMA OwnerSettles ==
    ASSUME Busy, NEW r \in PollAnswers,
           hstate' = Owner(r) \/ (r = "Ok" /\ hstate' = "Manifetation")
    PROVE  Settles(r)
BY DEF Owner, Error, HandlerError, Busy, Settles

\* A method that ran its Program by a step answering r settles the handler.
LEMMA Settled ==
    ASSUME DriverInv, Busy, NEW r \in PollAnswers, Steps(r), Settles(r)
    PROVE  DriverInv' /\ LeftAlone
<1>1. LeftAlone /\ LegalOp(memory') /\ LegalOp(op')
  BY DEF Steps, LeftAlone
<1>2. CASE r = "Ok"
  <2>1. Busy' /\ hstate' \in HandlerState /\ hstate' \in {"Download", "Manifetation"}
    BY <1>2 DEF Settles, Busy, HandlerState
  <2>2. /\ LegalProgram(program') /\ Owed'
        /\ op' # MemIdle => memory' = op'
        /\ memory' # MemIdle => program'.st # "AwaitData"
    BY <1>2 DEF Steps
  <2> QED BY <1>1, <2>1, <2>2 DEF DriverInv
<1>3. CASE r = "Done"
  <2>1. hstate' = "Idle" /\ memory' = MemIdle /\ (op' # MemIdle => memory' = op')
    BY <1>3 DEF Settles, Steps
  <2> QED BY <1>1, <2>1 DEF DriverInv, Busy, HandlerState
<1>4. CASE r = "panic"
  <2>1. hstate' = "Panicked"
    BY <1>4 DEF Settles
  <2> QED BY <1>1, <2>1 DEF DriverInv, Busy, HandlerState
<1>5. CASE r \in HandlerError
  <2>1. hstate' = "Error" /\ r # "panic"
    BY <1>5 DEF Settles, HandlerError
  <2>2. op' # MemIdle => memory' = op'
    BY <2>1 DEF Steps
  <2> QED BY <1>1, <2>1, <2>2 DEF DriverInv, Busy, HandlerState
<1> QED BY <1>2, <1>3, <1>4, <1>5 DEF PollAnswers

\* A method that leaves the driver alone and keeps or drops the Program.
LEMMA Unmoved ==
    ASSUME DriverInv, UNCHANGED <<memory, op>>, hstate' \in HandlerState,
           \/ hstate' = hstate /\ program' = program
           \/ hstate' = "Error" /\ hstate # "Panicked"
           \/ hstate \in {"Idle", "Upload"} /\ hstate' \in {"Idle", "Upload"}
    PROVE  DriverInv' /\ LeftAlone
<1>1. LeftAlone
  BY DEF LeftAlone
<1>2. LegalOp(memory') /\ LegalOp(op') /\ (op' # MemIdle => memory' = op' \/ hstate = "Panicked")
  BY DEF DriverInv
<1>3. CASE hstate' = hstate /\ program' = program
  <2>1. (Owed <=> Owed') /\ (Busy <=> Busy')
    BY <1>3 DEF Owed, Busy
  <2> QED BY <1>1, <1>3, <2>1 DEF DriverInv
<1>4. CASE hstate' = "Error" /\ hstate # "Panicked"
  BY <1>1, <1>2, <1>4 DEF DriverInv, Busy
<1>5. CASE hstate \in {"Idle", "Upload"} /\ hstate' \in {"Idle", "Upload"}
  <2>1. memory' = MemIdle
    BY <1>5 DEF DriverInv, Busy
  <2> QED BY <1>1, <1>2, <1>5, <2>1 DEF DriverInv, Busy
<1> QED BY <1>3, <1>4, <1>5

LEMMA ProgramNewKeeps ==
    ASSUME DriverInv, NEW buf, IsBytes(buf), NEW r, ProgramNew(buf, r)
    PROVE  DriverInv' /\ LeftAlone
<1> DEFINE first == SectorOf(APPLICATION_REGION_START)
           p == Program(first, APPLICATION_REGION_START, "AwaitEraseBeforeProgram", buf)
<1>1. hstate = "Idle" /\ memory = MemIdle /\ op = MemIdle
  BY DEF DriverInv, ProgramNew, Busy
<1>2. InApplication(first) /\ LegalOp(MemIdle) /\ MemIdle.tag = "Idle"
  BY RegionFacts, SectorOfFacts, MemIdleIsLegal
<1>3. CASE r = "Address" /\ Quiet(memory)
  BY <1>1, <1>3, Unmoved DEF ProgramNew, Quiet, HandlerState
<1>4. CASE StartErase(memory, first, r)
  <2>1. /\ LegalOp(memory') /\ LegalOp(op')
        /\ \/ r = "Ok" /\ memory' = op' /\ memory'.tag = "Erasing"
           \/ r = "Write" /\ memory' = MemIdle /\ op' = MemIdle
    BY <1>1, <1>2, <1>4, StartEraseFacts
  <2>2. CASE r = "Ok"
    <3>1. hstate' = "Download" /\ program' = p
      BY <2>2 DEF ProgramNew
    <3>2. LegalProgram(p) /\ p.st = "AwaitEraseBeforeProgram"
      BY <1>2, RegionFacts DEF LegalProgram, Program
    <3>3. Owed'
      BY <2>1, <2>2 DEF Owed
    <3> QED BY <1>1, <2>1, <2>2, <3>1, <3>2, <3>3 DEF DriverInv, LeftAlone, Busy, HandlerState
  <2>3. CASE r = "Write"
    BY <1>1, <2>1, <2>3, Unmoved DEF ProgramNew, HandlerState
  <2> QED BY <2>1, <2>2, <2>3
<1> QED BY <1>3, <1>4 DEF ProgramNew

LEMMA ProgramUpdateKeeps ==
    ASSUME DriverInv, NEW buf, IsBytes(buf), NEW r \in PollAnswers, ProgramUpdate(buf, r)
    PROVE  DriverInv' /\ LeftAlone
<1> DEFINE p == Program(program.current_sector, program.addr, program.st, buf)
<1>1. Busy /\ hstate = "Download" /\ hstate' = Owner(r) /\ LegalProgram(program)
  BY DEF DriverInv, ProgramUpdate, Busy
<1>2. CASE program.st = "AwaitData" /\ EraseOrProgram(memory, p, r)
  <2>1. memory = MemIdle /\ op = MemIdle
    BY <1>1, <1>2 DEF DriverInv
  <2>2. LegalProgram(p)
    BY <1>1 DEF LegalProgram, Program
  <2>3. Steps(r)
    <3> HIDE DEF p
    <3> QED BY <1>2, <2>1, <2>2, EraseOrProgramSteps
  <2>4. Settles(r)
    BY <1>1, OwnerSettles
  <2> QED BY <1>1, <2>3, <2>4, Settled
<1>3. CASE r = "Unknown" /\ Quiet(memory)
  <2>1. hstate' = "Error"
    BY <1>1, <1>3 DEF Owner, Error
  <2> QED BY <1>1, <1>3, <2>1, Unmoved DEF Quiet, HandlerState
<1> QED BY <1>2, <1>3 DEF ProgramUpdate

LEMMA FinalizeKeeps ==
    ASSUME DriverInv, NEW a, Finalize(a)
    PROVE  DriverInv' /\ LeftAlone
<1>1. Busy /\ hstate = "Download" /\ LegalProgram(program)
  BY DEF DriverInv, Finalize, Busy
<1>2. CASE \E r \in PollAnswers :
              /\ program.st = "AwaitData"
              /\ EraseOrProgramManifest(memory, program, r)
              /\ hstate' = IF r = "Ok" THEN "Manifetation" ELSE Owner(r)
  <2>1. PICK r \in PollAnswers :
              /\ program.st = "AwaitData"
              /\ EraseOrProgramManifest(memory, program, r)
              /\ hstate' = IF r = "Ok" THEN "Manifetation" ELSE Owner(r)
    BY <1>2
  <2>2. memory = MemIdle /\ op = MemIdle
    BY <1>1, <2>1 DEF DriverInv
  <2>3. Steps(r)
    BY <1>1, <2>1, <2>2, EraseOrProgramManifestSteps
  <2>4. Settles(r)
    BY <1>1, <2>1, OwnerSettles
  <2> QED BY <1>1, <2>1, <2>3, <2>4, Settled
<1>3. CASE Quiet(memory) /\ hstate' = "Error"
  BY <1>1, <1>3, Unmoved DEF Quiet, HandlerState
<1> QED BY <1>2, <1>3 DEF Finalize

\* A poll of the Program by one of the two methods that make it.
LEMMA PolledKeeps ==
    ASSUME DriverInv, Busy, NEW r \in PollAnswers, ProgramPoll(r), hstate' = Owner(r)
    PROVE  DriverInv' /\ LeftAlone
<1>1. Steps(r)
  BY ProgramPollSteps
<1>2. Settles(r)
  BY OwnerSettles
<1> QED BY <1>1, <1>2, Settled

-----------------------------------------------------------------------------
\* The invariant holds at the start and every action keeps it.

LEMMA DriverInvInit ==
    ASSUME NEW images, HandlerInit(images)
    PROVE  DriverInv
<1>1. memory = MemIdle /\ op = MemIdle /\ hstate = "Idle"
  BY DEF HandlerInit
<1> QED BY <1>1, MemIdleIsLegal DEF DriverInv, Busy, HandlerState

LEMMA DriverInvStep == DriverInv /\ HandlerStep => DriverInv' /\ LeftAlone
<1> SUFFICES ASSUME DriverInv, HandlerStep PROVE DriverInv' /\ LeftAlone
  OBVIOUS
<1>0. hstate \in HandlerState
  BY DEF DriverInv
<1>1. ASSUME NEW buf, NEW r \in PollAnswers, IsData(buf), Download(buf, r)
      PROVE  DriverInv' /\ LeftAlone
  <2>2. IsBytes(buf)
    BY <1>1 DEF IsData
  <2>3. CASE ProgramNew(buf, r)
    BY <2>2, <2>3, ProgramNewKeeps
  <2>4. CASE ProgramUpdate(buf, r)
    BY <2>2, <2>4, ProgramUpdateKeeps
  <2>5. CASE /\ hstate \in {"Manifetation", "Upload", "Error"} /\ hstate' = "Error"
             /\ UNCHANGED memVars
    BY <2>5, Unmoved DEF memVars, HandlerState
  <2> QED BY <1>1, <2>3, <2>4, <2>5 DEF Download
<1>2. ASSUME NEW a, IsManifestationInProgress(a) PROVE DriverInv' /\ LeftAlone
  <2>2. CASE Finalize(a)
    BY <2>2, FinalizeKeeps
  <2>3. CASE hstate = "Manifetation" /\ \E r \in PollAnswers : ProgramPoll(r) /\ hstate' = Owner(r)
    BY <2>3, PolledKeeps DEF Busy
  <2>4. CASE UNCHANGED handlerVars
    BY <1>0, <2>4, Unmoved DEF handlerVars, memVars
  <2>5. CASE hstate \in {"Upload", "Error"} /\ hstate' = "Error" /\ UNCHANGED memVars
    BY <2>5, Unmoved DEF memVars, HandlerState
  <2> QED BY <1>2, <2>2, <2>3, <2>4, <2>5 DEF IsManifestationInProgress
<1>3. ASSUME NEW r, HandlerPoll(r) PROVE DriverInv' /\ LeftAlone
  <2>2. CASE Busy /\ \E q \in PollAnswers : ProgramPoll(q) /\ hstate' = Owner(q)
    BY <2>2, PolledKeeps
  <2>3. CASE UNCHANGED handlerVars
    BY <1>0, <2>3, Unmoved DEF handlerVars, memVars
  <2> QED BY <1>3, <2>2, <2>3 DEF HandlerPoll, Busy
<1>4. ASSUME NEW size, NEW r, NEW n, Upload(size, r, n) PROVE DriverInv' /\ LeftAlone
  <2>2. CASE hstate \in {"Idle", "Upload"} /\ hstate' \in {"Idle", "Upload"} /\ UNCHANGED memVars
    BY <2>2, Unmoved DEF memVars, HandlerState
  <2>3. CASE UNCHANGED handlerVars
    BY <1>0, <2>3, Unmoved DEF handlerVars, memVars
  <2> QED BY <1>4, <2>2, <2>3 DEF Upload
<1>5. CASE ControllerStep
  <2>1. op' = MemIdle /\ memory' = memory /\ hstate' = hstate /\ program' = program
    BY <1>5 DEF ControllerStep, ControllerDone
  <2>2. (Owed <=> Owed') /\ (Busy <=> Busy')
    BY <2>1 DEF Owed, Busy
  <2> QED BY <2>1, <2>2, MemIdleIsLegal DEF DriverInv, LeftAlone
<1>6. CASE HandlerReset
  <2>1. memory' = MemIdle /\ op' = MemIdle /\ hstate' = "Idle"
    BY <1>6 DEF HandlerReset, MemReset
  <2> QED BY <2>1, MemIdleIsLegal DEF DriverInv, LeftAlone, Busy, HandlerState
<1>7. CASE UNCHANGED handlerVars
  BY <1>0, <1>7, Unmoved DEF handlerVars, memVars
<1> QED BY <1>1, <1>2, <1>3, <1>4, <1>5, <1>6, <1>7 DEF HandlerStep

-----------------------------------------------------------------------------
\* The cells an operation works on are in the sectors of the application.
LEMMA CellsOfApplication ==
    ASSUME NEW o, LegalOp(o), NEW a \in Cells(o), a \in Address
    PROVE  a >= APPLICATION_REGION_START
<1>0. /\ APPLICATION_REGION_START \in Nat
      /\ a \in Int
  BY RegionFacts, BaseFacts, SectorAssumption DEF Address, FLASH_START, FLASH_END
<1>1. CASE o.tag = "Erasing"
  <2>1. InApplication(o.sector) /\ a \in Region(o.sector)
    BY <1>1 DEF LegalOp, Cells
  <2>2. SectorBase[o.sector] \in Nat /\ a >= SectorBase[o.sector]
    <3>1. o.sector \in 0 .. LastSector + 1 /\ o.sector + 1 \in 0 .. LastSector + 1
      BY <2>1, BaseFacts DEF InApplication, Sector
    <3> QED BY <2>1, <3>1, BaseFacts DEF Region
  <2> QED BY <1>0, <2>1, <2>2 DEF InApplication
<1>2. CASE o.tag = "Programming"
  BY <1>0, <1>2 DEF LegalOp, Cells, IsBytes
<1>3. CASE o.tag = "Idle"
  BY <1>3 DEF Cells
<1> QED BY <1>1, <1>2, <1>3 DEF LegalOp

\* The flash below the application is left alone.
LEMMA FlashStep ==
    ASSUME DriverInv, HandlerStep, NEW a \in Address, a < APPLICATION_REGION_START
    PROVE  flash'[a] = flash[a]
<1>1. a \notin Cells(op)
  <2>1. APPLICATION_REGION_START \in Nat /\ a \in Int
    BY RegionFacts, BaseFacts DEF Address, FLASH_START, FLASH_END
  <2>2. a \in Cells(op) => a >= APPLICATION_REGION_START
    BY CellsOfApplication DEF DriverInv
  <2> QED BY <2>1, <2>2
<1>2. Effect(op)[a] = flash[a] /\ Spoilt(op)[a] = flash[a]
  BY <1>1 DEF Effect, Spoilt
<1>3. CASE ControllerStep
  BY <1>2, <1>3 DEF ControllerStep, ControllerDone
<1>4. CASE HandlerReset
  BY <1>2, <1>4 DEF HandlerReset, MemReset
<1>5. ASSUME NEW buf, NEW r, Download(buf, r) PROVE flash' = flash
  BY <1>5 DEF Download, ProgramNew, ProgramUpdate, memVars
<1>6. ASSUME NEW a1, IsManifestationInProgress(a1) PROVE flash' = flash
  BY <1>6 DEF IsManifestationInProgress, Finalize, handlerVars, memVars
<1>7. ASSUME NEW r, HandlerPoll(r) PROVE flash' = flash
  BY <1>7 DEF HandlerPoll, handlerVars, memVars
<1>8. ASSUME NEW size, NEW r, NEW n, Upload(size, r, n) PROVE flash' = flash
  BY <1>8 DEF Upload, handlerVars, memVars
<1>9. CASE UNCHANGED handlerVars
  BY <1>9 DEF handlerVars, memVars
<1> QED BY <1>3, <1>4, <1>5, <1>6, <1>7, <1>8, <1>9 DEF HandlerStep

-----------------------------------------------------------------------------

(***************************************************************************)
(* The invariant of the flash.  ImageFaithful speaks of it between two     *)
(* calls; what keeps it is where the Program stands: its address is in its *)
(* sector or at the end of it, the sector is erased from there on, and     *)
(* what the driver does is the next write or the erase that must precede   *)
(* it.  A manifest is a promise about an image, so what is said of it is   *)
(* said of the operation too, which may outlive the Program that began it. *)
(***************************************************************************)
\* Where a cell may lie.
Fits(a, cell) ==
    /\ cell[1] \in ByteTag
    /\ cell[1] = "data" => APPLICATION_REGION_START <= a /\ a < MANIFEST_REGION_START
    /\ cell[1] \in {"len", "hash"} => a >= MANIFEST_REGION_START

\* The first n bytes of s are the first of the application.
OnFlash(f, s, n) == \A k \in 1 .. n : f[APPLICATION_REGION_START + k - 1] = s[k]

\* The first n bytes of the manifest of the image s are those of the area.
ManifestOnFlash(f, s, n) ==
    \A k \in 1 .. n : f[MANIFEST_REGION_START + k - 1] = ManifestBytes(Len(s), s)[k]

\* The sector s is erased from the address a on.
Clean(f, s, a) == \A b \in Region(s) : b >= a => f[b] = Erased

\* An image a manifest can be made for.
IsImage(s) == IsData(s) /\ Len(s) \in 1 .. APPLICATION_LENGTH

\* The bytes s accepted so far are on flash up to p.addr and then in p.rest.
Splits(f, p, s) ==
    /\ IsData(s) /\ Len(s) > 0
    /\ Len(s) = (p.addr - APPLICATION_REGION_START) + Len(p.rest)
    /\ OnFlash(f, s, p.addr - APPLICATION_REGION_START)
    /\ \A j \in 1 .. Len(p.rest) : p.rest[j] = s[p.addr - APPLICATION_REGION_START + j]

\* The address of p is in its sector, or at the end of it.
Placed(p) ==
    /\ SectorBase[p.current_sector] <= p.addr
    /\ p.addr <= SectorBase[p.current_sector + 1]
    /\ p.addr <= MANIFEST_REGION_START

\* How much the driver is asked to write for p.
Width(p) == ToWrite(p.addr, Len(p.rest))

\* The driver m writes for p, into cells that were erased; o is what the
\* controller does.
Writes(f, m, o, p) ==
    /\ Width(p) \in 1 .. Len(p.rest)
    /\ m = Programming(p.addr, SubSeq(p.rest, 1, Width(p)))
    /\ Clean(f, p.current_sector, p.addr + Width(p))
    /\ o # MemIdle => Clean(f, p.current_sector, p.addr)

DownloadState(f, m, o, p, s) ==
    /\ Splits(f, p, s) /\ Placed(p)
    /\ \/ p.st = "AwaitData" /\ Len(p.rest) = 0 /\ Clean(f, p.current_sector, p.addr)
       \/ /\ p.st = "AwaitEraseBeforeProgram" /\ Len(p.rest) > 0
          /\ p.addr < MANIFEST_REGION_START
          /\ p.addr = SectorBase[p.current_sector]
          /\ m = Erasing(p.current_sector)
       \/ /\ p.st = "AwaitProgram"
          /\ p.addr < MANIFEST_REGION_START
          /\ p.addr < SectorBase[p.current_sector + 1]
          /\ Writes(f, m, o, p)

\* The manifest of s is on flash up to p.addr and then in p.rest.
ManifestSplits(f, p, s) ==
    /\ p.current_sector = LastSector
    /\ p.addr >= MANIFEST_REGION_START /\ p.addr % 4 = 0
    /\ Len(p.rest) = MANIFEST_REGION_START + 4 + HASH_LENGTH - p.addr
    /\ ManifestOnFlash(f, s, p.addr - MANIFEST_REGION_START)
    /\ \A j \in 1 .. Len(p.rest) :
          p.rest[j] = ManifestBytes(Len(s), s)[p.addr - MANIFEST_REGION_START + j]

ManifestState(f, m, o, p, s) ==
    /\ IsImage(s) /\ OnFlash(f, s, Len(s))
    /\ \/ /\ p.st = "AwaitErase"
          /\ p.addr = APPLICATION_REGION_START + Len(s)
          /\ p.addr <= SectorBase[p.current_sector]
          /\ m = Erasing(p.current_sector)
       \/ p.st = "AwaitProgramManifest" /\ ManifestSplits(f, p, s) /\ Writes(f, m, o, p)

\* The operation o writes a word of the manifest of s, over erased cells, after
\* the words before it, and the image is there.
Seals(f, o, s) ==
    /\ OnFlash(f, s, Len(s))
    /\ o.addr >= MANIFEST_REGION_START /\ Len(o.src) = 4
    /\ o.addr + 4 <= MANIFEST_REGION_START + 4 + HASH_LENGTH
    /\ ManifestOnFlash(f, s, o.addr - MANIFEST_REGION_START)
    /\ \A i \in 1 .. 4 :
          o.src[i] = ManifestBytes(Len(s), s)[o.addr - MANIFEST_REGION_START + i]
    /\ Clean(f, LastSector, o.addr)

\* An operation writes what may be there, and within a word: below the manifest
\* or for one of the images of F.
WellAimed(f, o, F) ==
    o.tag = "Programming" =>
        /\ \A i \in 1 .. Len(o.src) : Fits(o.addr + i - 1, o.src[i])
        /\ \/ o.addr + Len(o.src) <= MANIFEST_REGION_START
           \/ \E s \in F : Seals(f, o, s)

\* A manifest that has its last byte is entire, and its image was finished.
LastByte == MANIFEST_REGION_START + 3 + HASH_LENGTH
Sealed(f, F) ==
    f[LastByte][1] = "hash" => \E s \in F : ManifestOnFlash(f, s, 4 + HASH_LENGTH)

SliceInv ==
    /\ slice \in [at : Nat, end : Nat] /\ slice.at <= slice.end
    /\ \/ slice = NoSlice
       \/ APPLICATION_REGION_START < slice.at /\ slice.end <= MANIFEST_REGION_START
    /\ hstate = "Upload" <=> slice # NoSlice

\* The part that is about the flash, and the part about who works on it.
CellsInv(f, o, F) ==
    /\ DOMAIN f = Address /\ \A a \in Address : Fits(a, f[a])
    /\ WellAimed(f, o, F) /\ Sealed(f, F)
    /\ \A s \in F : IsImage(s)

ProgramInv(h, f, m, o, p, s, F) ==
    /\ IsData(s)
    /\ h \notin {"Download", "Manifetation"} => p = NoProgram
    /\ h = "Download" => DownloadState(f, m, o, p, s)
    /\ h = "Manifetation" => s \in F /\ ManifestState(f, m, o, p, s)

FlashInv ==
    /\ sr \subseteq {"WRPERR", "OPERR"} /\ keyRefused \in BOOLEAN
    /\ SliceInv
    /\ CellsInv(flash, op, finalised)
    /\ ProgramInv(hstate, flash, memory, op, program, sent, finalised)

-----------------------------------------------------------------------------
\* Facts about byte strings.

LEMMA SubBytes ==
    ASSUME NEW q, IsBytes(q), NEW m \in 1 .. Len(q) + 1, NEW n \in 0 .. Len(q), m <= n + 1
    PROVE  /\ IsBytes(SubSeq(q, m, n)) /\ Len(SubSeq(q, m, n)) = n + 1 - m
           /\ \A i \in 1 .. n + 1 - m : SubSeq(q, m, n)[i] = q[m + i - 1]
<1>1. PICK S : q \in Seq(S)
  BY BytesAreSeq
<1>2. /\ SubSeq(q, m, n) \in Seq(S) /\ Len(SubSeq(q, m, n)) = n + 1 - m
      /\ \A i \in 1 .. n + 1 - m : SubSeq(q, m, n)[i] = q[m + i - 1]
  BY <1>1
<1> QED BY <1>2, SeqIsBytes

LEMMA JoinBytes ==
    ASSUME NEW q, IsBytes(q), NEW t, IsBytes(t)
    PROVE  /\ IsBytes(q \o t) /\ Len(q \o t) = Len(q) + Len(t)
           /\ \A i \in 1 .. Len(q) : (q \o t)[i] = q[i]
           /\ \A i \in 1 .. Len(t) : (q \o t)[Len(q) + i] = t[i]
<1>1. PICK S : q \in Seq(S)
  BY BytesAreSeq
<1>2. PICK T : t \in Seq(T)
  BY BytesAreSeq
<1>3. q \in Seq(S \cup T) /\ t \in Seq(S \cup T)
  BY <1>1, <1>2
<1>4. /\ q \o t \in Seq(S \cup T) /\ Len(q \o t) = Len(q) + Len(t)
      /\ \A i \in 1 .. Len(q) : (q \o t)[i] = q[i]
      /\ \A i \in 1 .. Len(t) : (q \o t)[Len(q) + i] = t[i]
  BY <1>3
<1> QED BY <1>4, SeqIsBytes

LEMMA AppendedByte ==
    ASSUME NEW q, IsBytes(q), NEW c
    PROVE  /\ Len(q \o <<c>>) = Len(q) + 1 /\ (q \o <<c>>)[Len(q) + 1] = c
           /\ \A i \in 1 .. Len(q) : (q \o <<c>>)[i] = q[i]
<1>1. PICK S : q \in Seq(S)
  BY BytesAreSeq
<1>2. q \in Seq(S \cup {c}) /\ c \in S \cup {c}
  BY <1>1
<1>3. <<c>> \in Seq(S \cup {c}) /\ Len(<<c>>) = 1 /\ <<c>>[1] = c
  BY <1>2
<1> QED BY <1>2, <1>3

\* A byte string is its length and its bytes.
LEMMA SameBytes ==
    ASSUME NEW q, IsBytes(q), NEW t, IsBytes(t), Len(q) = Len(t),
           \A i \in 1 .. Len(q) : q[i] = t[i]
    PROVE  q = t
<1>1. q = [i \in 1 .. Len(q) |-> q[i]] /\ t = [i \in 1 .. Len(t) |-> t[i]]
  BY DEF IsBytes
<1>2. [i \in 1 .. Len(q) |-> q[i]] = [i \in 1 .. Len(t) |-> t[i]]
  OBVIOUS
<1> QED BY <1>1, <1>2

LEMMA NoBytes ==
    ASSUME NEW q, IsBytes(q)
    PROVE  q = <<>> <=> Len(q) = 0
<1>1. PICK S : q \in Seq(S)
  BY BytesAreSeq
<1> QED BY <1>1

\* What a function makes of a range is a byte string.
LEMMA TableIsBytes ==
    ASSUME NEW n \in Nat, NEW t, DOMAIN t = 1 .. n, t = [i \in 1 .. n |-> t[i]]
    PROVE  IsBytes(t) /\ Len(t) = n
<1>1. t \in [1 .. n -> {t[i] : i \in 1 .. n}]
  OBVIOUS
<1>2. t \in Seq({t[i] : i \in 1 .. n})
  BY <1>1
<1>3. Len(t) = n
  BY <1>2
<1> QED BY <1>2, <1>3, SeqIsBytes

-----------------------------------------------------------------------------
\* Facts about the sector table.

LEMMA SectorFacts ==
    ASSUME NEW s, InApplication(s)
    PROVE  /\ s \in 0 .. LastSector
           /\ SectorBase[s] \in Nat /\ SectorBase[s + 1] \in Nat
           /\ APPLICATION_REGION_START <= SectorBase[s]
           /\ SectorBase[s] < SectorBase[s + 1]
           /\ SectorBase[s] % 4 = 0 /\ SectorBase[s + 1] % 4 = 0
           /\ Region(s) \subseteq Address
<1>1. s \in 0 .. LastSector /\ LastSector \in Nat /\ APPLICATION_REGION_START <= SectorBase[s]
  BY BaseFacts DEF InApplication, Sector
<1>2. s \in 0 .. LastSector + 1 /\ s + 1 \in 0 .. LastSector + 1 /\ s < s + 1
      /\ 0 \in 0 .. LastSector + 1 /\ LastSector + 1 \in 0 .. LastSector + 1
      /\ 0 <= s /\ s + 1 <= LastSector + 1
  BY <1>1
<1>3. SectorBase[s] < SectorBase[s + 1]
  BY <1>2, SectorAssumption
<1>4. SectorBase[s] % 4 = 0 /\ SectorBase[s + 1] % 4 = 0
  BY <1>2, SectorAssumption
<1>5. /\ SectorBase[s] \in Nat /\ SectorBase[s + 1] \in Nat
      /\ SectorBase[0] \in Nat /\ SectorBase[LastSector + 1] \in Nat
      /\ SectorBase[0] <= SectorBase[s] /\ SectorBase[s + 1] <= SectorBase[LastSector + 1]
  BY <1>2, BaseFacts
<1>6. Region(s) \subseteq Address
  BY <1>5 DEF Region, Address, FLASH_START, FLASH_END
<1> QED BY <1>1, <1>3, <1>4, <1>5, <1>6

\* An address is in one sector only.
LEMMA OneSector ==
    ASSUME NEW s, NEW t, InApplication(s), InApplication(t),
           NEW a \in Int, a \in Region(s), a \in Region(t)
    PROVE  s = t
<1>1. /\ s \in 0 .. LastSector + 1 /\ s + 1 \in 0 .. LastSector + 1
      /\ t \in 0 .. LastSector + 1 /\ t + 1 \in 0 .. LastSector + 1
      /\ s \in Int /\ t \in Int
  BY SectorFacts, BaseFacts
<1>2. /\ SectorBase[s] <= a /\ a < SectorBase[s + 1]
      /\ SectorBase[t] <= a /\ a < SectorBase[t + 1]
      /\ SectorBase[s] \in Nat /\ SectorBase[s + 1] \in Nat
      /\ SectorBase[t] \in Nat /\ SectorBase[t + 1] \in Nat
  BY SectorFacts DEF Region
<1>3. ~(s + 1 <= t)
  <2>1. s + 1 <= t => SectorBase[s + 1] <= SectorBase[t]
    BY <1>1, BaseFacts
  <2> QED BY <1>2, <2>1
<1>4. ~(t + 1 <= s)
  <2>1. t + 1 <= s => SectorBase[t + 1] <= SectorBase[s]
    BY <1>1, BaseFacts
  <2> QED BY <1>2, <2>1
<1> QED BY <1>1, <1>3, <1>4

\* The manifest lies in the last sector, and in words.
LEMMA ManifestFacts ==
    /\ MANIFEST_REGION_START \in Nat /\ MANIFEST_REGION_START % 4 = 0
    /\ HASH_LENGTH \in Nat /\ HASH_LENGTH >= 4 /\ HASH_LENGTH % 4 = 0
    /\ SectorBase[LastSector] \in Nat /\ SectorBase[LastSector + 1] \in Nat
    /\ SectorBase[LastSector] <= MANIFEST_REGION_START
    /\ MANIFEST_REGION_START + 4 + HASH_LENGTH <= SectorBase[LastSector + 1]
    /\ InApplication(LastSector)
    /\ FLASH_END = SectorBase[LastSector + 1]
<1>1. MANIFEST_REGION_START \in Nat /\ InApplication(LastSector)
  BY RegionFacts
<1>2. MANIFEST_REGION_START % 4 = 0
  BY RegionAssumption
<1>3. HASH_LENGTH \in Nat \ {0} /\ HASH_LENGTH % 4 = 0
  BY ManifestAssumption
<1>4. HASH_LENGTH >= 4
  BY <1>3
<1>5. SectorBase[LastSector] \in Nat /\ SectorBase[LastSector + 1] \in Nat
  BY <1>1, SectorFacts
<1>6. SectorBase[LastSector] <= MANIFEST_REGION_START
  BY <1>5, <1>1, RegionAssumption DEF Region
<1> QED BY <1>1, <1>2, <1>3, <1>4, <1>5, <1>6, ManifestAssumption DEF FLASH_END

LEMMA ApplicationFacts ==
    /\ APPLICATION_REGION_START \in Nat /\ APPLICATION_REGION_START % 4 = 0
    /\ APPLICATION_LENGTH \in Nat /\ APPLICATION_LENGTH >= 4
    /\ APPLICATION_LENGTH = MANIFEST_REGION_START - APPLICATION_REGION_START
    /\ \A a \in Int : APPLICATION_REGION_START <= a /\ a < FLASH_END => a \in Address
<1>1. PICK s \in Sector : APPLICATION_REGION_START = SectorBase[s]
  BY RegionAssumption
<1>2. s \in 0 .. LastSector + 1
  BY <1>1, BaseFacts DEF Sector
<1>3. APPLICATION_REGION_START % 4 = 0
  BY <1>1, <1>2, SectorAssumption
<1>4. APPLICATION_LENGTH \in Nat /\ APPLICATION_LENGTH >= 4
  BY <1>3, RegionFacts, ManifestFacts DEF APPLICATION_LENGTH
<1>5. FLASH_START \in Nat /\ FLASH_START <= APPLICATION_REGION_START /\ FLASH_END \in Nat
  BY RegionFacts, ManifestFacts
<1> QED BY <1>3, <1>4, <1>5, RegionFacts DEF APPLICATION_LENGTH, Address

\* What comes after the end of a sector is the start of the next one.
LEMMA SectorCrossed ==
    ASSUME NEW p, LegalProgram(p), Placed(p), p.addr < MANIFEST_REGION_START
    PROVE  IF SectorOf(p.addr) = p.current_sector
           THEN p.addr < SectorBase[p.current_sector + 1]
           ELSE p.addr = SectorBase[SectorOf(p.addr)]
<1> DEFINE t == SectorOf(p.addr)
           c == p.current_sector
<1>1. /\ InApplication(t) /\ p.addr \in Region(t) /\ InApplication(c)
      /\ p.addr \in Nat
  BY SectorOfFacts DEF LegalProgram
<1> HIDE DEF t
<1>2. /\ SectorBase[t] <= p.addr /\ p.addr < SectorBase[t + 1]
      /\ SectorBase[c] \in Nat /\ SectorBase[c + 1] \in Nat
      /\ SectorBase[t] \in Nat /\ SectorBase[t + 1] \in Nat
      /\ t \in 0 .. LastSector /\ c \in 0 .. LastSector /\ LastSector \in Nat
  BY <1>1, SectorFacts, BaseFacts DEF Region
<1>3. CASE t = c
  BY <1>2, <1>3 DEF t
<1>4. CASE t # c
  <2>1. ~(p.addr < SectorBase[c + 1])
    <3>1. p.addr < SectorBase[c + 1] => p.addr \in Region(c)
      BY <1>1, <1>2 DEF Placed, Region
    <3> QED BY <1>1, <1>4, <3>1, OneSector
  <2>2. p.addr = SectorBase[c + 1]
    BY <1>1, <1>2, <2>1 DEF Placed
  <2>3. ~(t + 1 <= c + 1)
    <3>1. t + 1 <= c + 1 => SectorBase[t + 1] <= SectorBase[c + 1]
      BY <1>2, BaseFacts
    <3> QED BY <1>2, <2>2, <3>1
  <2>4. SectorBase[c + 1] <= SectorBase[t]
    BY <1>2, <2>3, BaseFacts
  <2> QED BY <1>2, <1>4, <2>2, <2>4 DEF t
<1> QED BY <1>3, <1>4

\* A write within a word does not reach beyond a boundary of words.
LEMMA WithinWord ==
    ASSUME NEW a \in Nat, NEW w \in Nat, NEW b \in Nat, (a % 4) + w <= 4, a < b, b % 4 = 0
    PROVE  a + w <= b
OBVIOUS

-----------------------------------------------------------------------------
\* Facts about images and manifests.

LEMMA ManifestBytesFacts ==
    ASSUME NEW s
    PROVE  /\ IsBytes(ManifestBytes(Len(s), s)) /\ Len(ManifestBytes(Len(s), s)) = 4 + HASH_LENGTH
           /\ \A k \in 1 .. 4 + HASH_LENGTH :
                 ManifestBytes(Len(s), s)[k] = IF k <= 4 THEN <<"len", k, Len(s)>>
                                               ELSE <<"hash", k - 4, s>>
           /\ \A k \in 1 .. 4 + HASH_LENGTH : ManifestBytes(Len(s), s)[k][1] \in {"len", "hash"}
<1> DEFINE n == 4 + HASH_LENGTH
           m == ManifestBytes(Len(s), s)
<1>1. n \in Nat
  BY ManifestFacts
<1>2. m = [k \in 1 .. n |-> IF k <= 4 THEN <<"len", k, Len(s)>> ELSE <<"hash", k - 4, s>>]
  BY DEF ManifestBytes
<1> HIDE DEF m
<1>3. IsBytes(m) /\ Len(m) = n
  BY <1>1, <1>2, TableIsBytes
<1>4. IsBytes(m)
  BY <1>3
<1>5. \A k \in 1 .. n : m[k] = IF k <= 4 THEN <<"len", k, Len(s)>> ELSE <<"hash", k - 4, s>>
  BY <1>2
<1>6. \A k \in 1 .. n : m[k][1] \in {"len", "hash"}
  <2> TAKE k \in 1 .. n
  <2>1. CASE k <= 4
    <3>1. m[k] = <<"len", k, Len(s)>>
      BY <1>5, <2>1
    <3> QED BY <3>1
  <2>2. CASE ~(k <= 4)
    <3>1. m[k] = <<"hash", k - 4, s>>
      BY <1>5, <2>2
    <3> QED BY <3>1
  <2> QED BY <2>1, <2>2
<1> QED BY <1>3, <1>5, <1>6 DEF m

\* The first bytes of the application, as a byte string and as cells.
LEMMA ImageAtFacts ==
    ASSUME NEW f, NEW n \in 0 .. APPLICATION_LENGTH
    PROVE  /\ IsBytes(ImageAt(f, n)) /\ Len(ImageAt(f, n)) = n
           /\ \A k \in 1 .. n : ImageAt(f, n)[k] = f[APPLICATION_REGION_START + k - 1]
<1> DEFINE m == ImageAt(f, n)
<1>1. n \in Nat /\ APPLICATION_LENGTH \in Nat
  BY ApplicationFacts
<1>2. m = [k \in 1 .. n |-> f[APPLICATION_REGION_START + k - 1]]
  BY <1>1 DEF ImageAt
<1> HIDE DEF m
<1>3. IsBytes(m) /\ Len(m) = n
  BY <1>1, <1>2, TableIsBytes
<1> QED BY <1>2, <1>3 DEF m

LEMMA ImageIsOnFlash ==
    ASSUME NEW f, NEW s, IsImage(s)
    PROVE  ImageAt(f, Len(s)) = s <=> OnFlash(f, s, Len(s))
<1> DEFINE n == Len(s)
           m == ImageAt(f, n)
<1>1. n \in 0 .. APPLICATION_LENGTH /\ IsBytes(s)
  BY ApplicationFacts DEF IsImage, IsData
<1> HIDE DEF n
<1>2. IsBytes(m) /\ Len(m) = n /\ \A k \in 1 .. n : m[k] = f[APPLICATION_REGION_START + k - 1]
  BY <1>1, ImageAtFacts
<1> HIDE DEF m
<1>3. ASSUME OnFlash(f, s, n) PROVE m = s
  <2>1. \A k \in 1 .. n : m[k] = s[k]
    BY <1>2, <1>3 DEF OnFlash
  <2> QED BY <1>1, <1>2, <2>1, SameBytes DEF n
<1>4. ASSUME m = s PROVE OnFlash(f, s, n)
  BY <1>2, <1>4 DEF OnFlash
<1> QED BY <1>3, <1>4 DEF m, n

LEMMA ManifestIsOnFlash ==
    ASSUME NEW f, NEW s
    PROVE  ManifestAt(f) = ManifestBytes(Len(s), s) <=> ManifestOnFlash(f, s, 4 + HASH_LENGTH)
<1> DEFINE n == 4 + HASH_LENGTH
           m == ManifestAt(f)
           b == ManifestBytes(Len(s), s)
<1>1. n \in Nat
  BY ManifestFacts
<1>2. m = [k \in 1 .. n |-> f[MANIFEST_REGION_START + k - 1]]
  BY DEF ManifestAt
<1> HIDE DEF m
<1>3. IsBytes(m) /\ Len(m) = n
  BY <1>1, <1>2, TableIsBytes
<1>4. IsBytes(m)
  BY <1>3
<1>5. IsBytes(b) /\ Len(b) = n
  BY ManifestBytesFacts
<1>6. \A k \in 1 .. n : m[k] = f[MANIFEST_REGION_START + k - 1]
  BY <1>2
<1> HIDE DEF m, b
<1>7. ASSUME ManifestOnFlash(f, s, n) PROVE m = b
  <2>1. \A k \in 1 .. n : m[k] = b[k]
    BY <1>6, <1>7 DEF ManifestOnFlash, b
  <2> QED BY <1>3, <1>4, <1>5, <2>1, SameBytes
<1>8. ASSUME m = b PROVE ManifestOnFlash(f, s, n)
  BY <1>6, <1>8 DEF ManifestOnFlash, b
<1> QED BY <1>7, <1>8 DEF m, b

-----------------------------------------------------------------------------
\* Facts about the writes of a Program; the flash is that of before, which no
\* method of the handler changes.

LEMMA ProgramFields ==
    ASSUME NEW c, NEW a, NEW st, NEW q
    PROVE  /\ Program(c, a, st, q).current_sector = c /\ Program(c, a, st, q).addr = a
           /\ Program(c, a, st, q).st = st /\ Program(c, a, st, q).rest = q
BY DEF Program

LEMMA OperationFields ==
    /\ \A a, q : /\ Programming(a, q).tag = "Programming"
                 /\ Programming(a, q).addr = a /\ Programming(a, q).src = q
    /\ \A s : Erasing(s).tag = "Erasing" /\ Erasing(s).sector = s
    /\ MemIdle.tag = "Idle"
BY DEF Programming, Erasing, MemIdle

LEMMA WidthFacts ==
    ASSUME NEW p, LegalProgram(p), Len(p.rest) > 0
    PROVE  /\ Width(p) \in Nat \ {0} /\ (p.addr % 4) + Width(p) <= 4
           /\ Width(p) > Len(p.rest) => p.addr % 4 = 2 /\ Len(p.rest) = 1
<1>1. p.addr \in Nat /\ Len(p.rest) \in Nat
  BY DEF LegalProgram, IsBytes
<1>2. ToWrite(p.addr, Len(p.rest)) # 0
  BY <1>1 DEF ToWrite
<1> QED BY <1>1, <1>2, ToWriteFacts DEF Width

\* Memory::program for p: a write of its next bytes, or a panic after one that
\* takes a byte too many.
LEMMA StartsWrite ==
    ASSUME NEW p, NEW st, NEW r, LegalProgram(p), Len(p.rest) > 0, op = MemIdle,
           Clean(flash, p.current_sector, p.addr),
           StartProgram(MemIdle, p.addr, p.rest, r),
           Becomes(Program(p.current_sector, p.addr, st, p.rest), r)
    PROVE  \/ /\ r = "Ok"
              /\ program' = Program(p.current_sector, p.addr, st, p.rest)
              /\ Writes(flash, memory', op', program')
              /\ Width(p) <= Len(p.rest)
              /\ op' = Programming(p.addr, SubSeq(p.rest, 1, Width(p)))
           \/ /\ r = "panic" /\ program' = NoProgram
              /\ p.addr % 4 = 2 /\ Len(p.rest) = 1
              /\ op' = Programming(p.addr, p.rest \o <<Torn>>)
           \/ r = "Write" /\ program' = NoProgram /\ op' = MemIdle
<1> DEFINE g == Program(p.current_sector, p.addr, st, p.rest)
           w == Width(p)
<1>1. /\ w \in Nat \ {0}
      /\ w > Len(p.rest) => p.addr % 4 = 2 /\ Len(p.rest) = 1
      /\ Len(p.rest) \in Nat /\ p.addr \in Nat /\ InApplication(p.current_sector)
  BY WidthFacts DEF LegalProgram, IsBytes
<1>2. /\ g.current_sector = p.current_sector /\ g.addr = p.addr /\ g.rest = p.rest
      /\ Width(g) = w
  BY DEF Program, Width
<1> HIDE DEF g
<1>3. CASE /\ w <= Len(p.rest) /\ r = "Ok" /\ memory' = op'
           /\ op' = Programming(p.addr, SubSeq(p.rest, 1, w))
  <2>1. program' = g
    BY <1>3 DEF Becomes, g
  <2>2. Clean(flash, p.current_sector, p.addr + w)
    <3>1. \A b \in Region(p.current_sector) : b \in Int
      BY <1>1, SectorFacts DEF Region
    <3> QED BY <1>1, <3>1 DEF Clean
  <2>3. Writes(flash, memory', op', g)
    BY <1>1, <1>2, <1>3, <2>2 DEF Writes
  <2> QED BY <1>3, <2>1, <2>3 DEF g
<1>4. CASE w > Len(p.rest) /\ r = "panic" /\ op' = Programming(p.addr, p.rest \o <<Torn>>)
  BY <1>1, <1>4 DEF Becomes
<1>5. CASE r = "Write" /\ op' = op
  BY <1>5 DEF Becomes
<1> QED BY <1>3, <1>4, <1>5 DEF StartProgram, Width

\* What the cells of the application may take.
LEMMA DataFits ==
    ASSUME NEW a, NEW cell, a >= APPLICATION_REGION_START, a < MANIFEST_REGION_START,
           cell[1] = "data" \/ cell = Torn
    PROVE  Fits(a, cell)
BY DEF Fits, ByteTag, Torn

LEMMA IdleIsAimed ==
    ASSUME NEW f, NEW F, NEW o, o.tag # "Programming"
    PROVE  WellAimed(f, o, F)
BY DEF WellAimed

\* The writes of a download.
LEMMA DataIsAimed ==
    ASSUME NEW p, NEW s, NEW F, NEW o, LegalProgram(p), Splits(flash, p, s),
           Len(p.rest) > 0, p.addr < MANIFEST_REGION_START,
           \/ /\ Width(p) <= Len(p.rest)
              /\ o = Programming(p.addr, SubSeq(p.rest, 1, Width(p)))
           \/ /\ p.addr % 4 = 2 /\ Len(p.rest) = 1
              /\ o = Programming(p.addr, p.rest \o <<Torn>>)
    PROVE  WellAimed(flash, o, F)
<1> DEFINE A == APPLICATION_REGION_START
           w == Width(p)
<1>1. /\ p.addr \in Nat /\ A \in Nat /\ A <= p.addr /\ IsBytes(p.rest) /\ Len(p.rest) \in Nat
      /\ MANIFEST_REGION_START \in Nat /\ MANIFEST_REGION_START % 4 = 0
      /\ w \in Nat \ {0} /\ (p.addr % 4) + w <= 4
  BY RegionFacts, ManifestFacts, WidthFacts DEF LegalProgram, IsBytes
<1>2. ASSUME NEW j \in 1 .. Len(p.rest) PROVE p.rest[j][1] = "data"
  <2>1. p.addr - A + j \in 1 .. Len(s)
    BY <1>1 DEF Splits
  <2>2. p.rest[j] = s[p.addr - A + j]
    BY DEF Splits
  <2> QED BY <2>1, <2>2 DEF Splits, IsData
<1>3. CASE w <= Len(p.rest) /\ o = Programming(p.addr, SubSeq(p.rest, 1, w))
  <2>1. p.addr + w <= MANIFEST_REGION_START
    BY <1>1, WithinWord
  <2> DEFINE q == SubSeq(p.rest, 1, w)
  <2>2. Len(q) = w /\ \A i \in 1 .. w : q[i] = p.rest[i]
    BY <1>1, <1>3, SubBytes
  <2>3. o.tag = "Programming" /\ o.addr = p.addr /\ o.src = q
    BY <1>3, OperationFields
  <2> HIDE DEF q, w
  <2>4. ASSUME NEW i \in 1 .. w PROVE Fits(p.addr + i - 1, q[i])
    <3>1. q[i][1] = "data"
      <4>1. i \in 1 .. Len(p.rest)
        BY <1>1, <1>3
      <4>2. q[i] = p.rest[i]
        BY <2>2
      <4>3. p.rest[i][1] = "data"
        BY <1>2, <4>1
      <4> QED BY <4>2, <4>3
    <3>2. p.addr + i - 1 >= A /\ p.addr + i - 1 < MANIFEST_REGION_START
      BY <1>1, <2>1
    <3> QED BY <3>1, <3>2, DataFits
  <2> QED BY <1>1, <2>1, <2>2, <2>3, <2>4 DEF WellAimed
<1>4. CASE p.addr % 4 = 2 /\ Len(p.rest) = 1 /\ o = Programming(p.addr, p.rest \o <<Torn>>)
  <2> DEFINE q == p.rest \o <<Torn>>
  <2>2. Len(q) = 2 /\ q[1] = p.rest[1] /\ q[2] = Torn
    <3>1. IsBytes(p.rest)
      BY <1>1
    <3>2. /\ Len(q) = Len(p.rest) + 1 /\ q[Len(p.rest) + 1] = Torn
          /\ \A i \in 1 .. Len(p.rest) : q[i] = p.rest[i]
      BY <3>1, AppendedByte
    <3>3. q[1] = p.rest[1]
      BY <1>4, <3>2
    <3> QED BY <1>4, <3>2, <3>3
  <2>3. o.tag = "Programming" /\ o.addr = p.addr /\ o.src = q
    BY <1>4, OperationFields
  <2>4. p.addr + 2 <= MANIFEST_REGION_START
    BY <1>1, <1>4, WithinWord
  <2> HIDE DEF q
  <2>5. Fits(p.addr + 1 - 1, q[1])
    <3>1. q[1][1] = "data"
      BY <1>2, <1>4, <2>2
    <3> QED BY <1>1, <2>4, <3>1, DataFits
  <2>6. Fits(p.addr + 2 - 1, q[2])
    BY <1>1, <2>2, <2>4, DataFits
  <2>7. \A i \in 1 .. 2 : i = 1 \/ i = 2
    OBVIOUS
  <2> QED BY <1>1, <2>2, <2>3, <2>4, <2>5, <2>6, <2>7 DEF WellAimed
<1> QED BY <1>3, <1>4

-----------------------------------------------------------------------------
\* What a step of the Program that answers r leaves, for the bytes s and the
\* images F.
DownloadSteps(r, s, F) ==
    /\ WellAimed(flash, op', F)
    /\ IF r = "Ok" THEN DownloadState(flash, memory', op', program', s)
       ELSE program' = NoProgram
    /\ r = "panic" => Len(s) % 4 = 3

\* The write that panics is that of one last byte at an even address.
LEMMA PanicIsOfThree ==
    ASSUME NEW p, NEW s, LegalProgram(p), Splits(flash, p, s),
           p.addr % 4 = 2, Len(p.rest) = 1
    PROVE  Len(s) % 4 = 3
<1> DEFINE A == APPLICATION_REGION_START
<1>1. p.addr \in Nat /\ A \in Nat /\ A <= p.addr /\ A % 4 = 0
  <2>1. PICK b \in Sector : A = SectorBase[b]
    BY RegionAssumption
  <2> QED BY <2>1, RegionFacts, SectorAssumption DEF LegalProgram, Sector
<1>2. Len(s) = p.addr - A + 1
  BY DEF Splits
<1> HIDE DEF A
<1>3. (p.addr - A + 1) % 4 = 3
  BY <1>1
<1> QED BY <1>2, <1>3

\* A write or the erase before it, when the sector is erased so far.
LEMMA WriteSteps ==
    ASSUME NEW p, NEW s, NEW F, NEW r, LegalProgram(p), op = MemIdle,
           Splits(flash, p, s), Placed(p), Len(p.rest) > 0,
           p.addr < MANIFEST_REGION_START, p.addr < SectorBase[p.current_sector + 1],
           Clean(flash, p.current_sector, p.addr),
           StartProgram(MemIdle, p.addr, p.rest, r),
           Becomes(Program(p.current_sector, p.addr, "AwaitProgram", p.rest), r)
    PROVE  DownloadSteps(r, s, F)
<1> DEFINE g == Program(p.current_sector, p.addr, "AwaitProgram", p.rest)
<1>1. CASE /\ r = "Ok" /\ program' = g /\ Writes(flash, memory', op', program')
           /\ Width(p) <= Len(p.rest)
           /\ op' = Programming(p.addr, SubSeq(p.rest, 1, Width(p)))
  <2>1. WellAimed(flash, op', F)
    BY <1>1, DataIsAimed
  <2>2. /\ g.current_sector = p.current_sector /\ g.addr = p.addr
        /\ g.rest = p.rest /\ g.st = "AwaitProgram"
    BY ProgramFields
  <2> HIDE DEF g
  <2>3. Splits(flash, g, s) /\ Placed(g)
    BY <2>2 DEF Splits, Placed
  <2>4. DownloadState(flash, memory', op', g, s)
    BY <1>1, <2>2, <2>3 DEF DownloadState
  <2> QED BY <1>1, <2>1, <2>4 DEF DownloadSteps
<1>2. CASE /\ r = "panic" /\ program' = NoProgram /\ p.addr % 4 = 2 /\ Len(p.rest) = 1
           /\ op' = Programming(p.addr, p.rest \o <<Torn>>)
  <2>1. Len(s) % 4 = 3
    BY <1>2, PanicIsOfThree
  <2> QED BY <1>2, <2>1, DataIsAimed DEF DownloadSteps
<1>3. CASE r = "Write" /\ program' = NoProgram /\ op' = MemIdle
  BY <1>3, OperationFields, IdleIsAimed DEF DownloadSteps
<1>4. \/ /\ r = "Ok" /\ program' = g /\ Writes(flash, memory', op', program')
         /\ Width(p) <= Len(p.rest)
         /\ op' = Programming(p.addr, SubSeq(p.rest, 1, Width(p)))
      \/ /\ r = "panic" /\ program' = NoProgram /\ p.addr % 4 = 2 /\ Len(p.rest) = 1
         /\ op' = Programming(p.addr, p.rest \o <<Torn>>)
      \/ r = "Write" /\ program' = NoProgram /\ op' = MemIdle
  BY StartsWrite, Zenon
<1> QED BY <1>1, <1>2, <1>3, <1>4

LEMMA EraseOrProgramPlaces ==
    ASSUME NEW p, NEW s, NEW F, NEW r, LegalProgram(p), op = MemIdle,
           Splits(flash, p, s), Placed(p), Len(p.rest) > 0,
           Clean(flash, p.current_sector, p.addr), EraseOrProgram(MemIdle, p, r)
    PROVE  DownloadSteps(r, s, F)
<1> DEFINE t == SectorOf(p.addr)
           e == Program(t, p.addr, "AwaitEraseBeforeProgram", p.rest)
<1>1. CASE r = "Address" /\ Quiet(MemIdle) /\ program' = NoProgram
  BY <1>1, OperationFields, IdleIsAimed DEF DownloadSteps, Quiet
<1>2. CASE /\ p.addr < MANIFEST_REGION_START /\ t # p.current_sector
           /\ StartErase(MemIdle, t, r) /\ Becomes(e, r)
  <2>1. InApplication(t) /\ p.addr \in Nat /\ p.addr = SectorBase[t]
    BY <1>2, SectorOfFacts, SectorCrossed DEF LegalProgram
  <2>2. e.current_sector = t /\ e.addr = p.addr /\ e.rest = p.rest
        /\ e.st = "AwaitEraseBeforeProgram"
    BY ProgramFields
  <2>3. op'.tag # "Programming"
    BY <1>2, OperationFields DEF StartErase
  <2>4. CASE r = "Ok"
    <3>1. program' = e /\ memory' = Erasing(t)
      BY <1>2, <2>4 DEF Becomes, StartErase
    <3> HIDE DEF e, t
    <3>2. Splits(flash, e, s)
      BY <2>2 DEF Splits
    <3>3. Placed(e)
      BY <1>2, <2>1, <2>2, SectorFacts DEF Placed
    <3>4. DownloadState(flash, memory', op', e, s)
      BY <1>2, <2>1, <2>2, <3>1, <3>2, <3>3 DEF DownloadState
    <3> QED BY <2>3, <2>4, <3>1, <3>4, IdleIsAimed DEF DownloadSteps
  <2>5. CASE r # "Ok"
    BY <1>2, <2>3, <2>5, IdleIsAimed DEF DownloadSteps, Becomes, StartErase
  <2> QED BY <2>4, <2>5
<1>3. CASE /\ p.addr < MANIFEST_REGION_START /\ t = p.current_sector
           /\ StartProgram(MemIdle, p.addr, p.rest, r)
           /\ Becomes(Program(p.current_sector, p.addr, "AwaitProgram", p.rest), r)
  <2>1. p.addr < SectorBase[p.current_sector + 1]
    BY <1>3, SectorCrossed
  <2> QED BY <1>3, <2>1, WriteSteps
<1> QED BY <1>1, <1>2, <1>3 DEF EraseOrProgram

\* g is p after w of its bytes were written.
Advances(f, p, g, w) ==
    /\ w \in 1 .. Len(p.rest) /\ (p.addr % 4) + w <= 4
    /\ \A k \in 1 .. w : f[p.addr + k - 1] = p.rest[k]
    /\ g.current_sector = p.current_sector /\ g.addr = p.addr + w
    /\ IsBytes(g.rest) /\ Len(g.rest) = Len(p.rest) - w
    /\ \A i \in 1 .. Len(g.rest) : g.rest[i] = p.rest[w + i]

\* Program::poll takes off the front what the driver wrote.
Left(st) == Program(program.current_sector, program.addr + Written, st,
                    SubSeq(program.rest, Written + 1, Len(program.rest)))

LEMMA FrontOfBytes ==
    ASSUME NEW t, IsBytes(t), NEW w \in 1 .. Len(t)
    PROVE  /\ IsBytes(SubSeq(t, 1, w)) /\ Len(SubSeq(t, 1, w)) = w
           /\ \A i \in 1 .. w : SubSeq(t, 1, w)[i] = t[i]
<1>1. Len(t) \in Nat
  BY DEF IsBytes
<1>2. 1 \in 1 .. Len(t) + 1 /\ w \in 0 .. Len(t) /\ 1 <= w + 1 /\ w + 1 - 1 = w
  BY <1>1
<1>3. /\ IsBytes(SubSeq(t, 1, w)) /\ Len(SubSeq(t, 1, w)) = w + 1 - 1
      /\ \A i \in 1 .. w + 1 - 1 : SubSeq(t, 1, w)[i] = t[1 + i - 1]
  BY <1>2, SubBytes
<1> DEFINE u == SubSeq(t, 1, w)
<1> HIDE DEF u
<1>4. IsBytes(u) /\ Len(u) = w
  BY <1>2, <1>3 DEF u
<1>5. \A i \in 1 .. w : u[i] = t[i]
  <2> TAKE i \in 1 .. w
  <2>1. i \in 1 .. w + 1 - 1 /\ 1 + i - 1 = i
    BY <1>2
  <2>2. u[i] = t[1 + i - 1]
    BY <1>3, <2>1 DEF u
  <2> QED BY <2>1, <2>2
<1> QED BY <1>4, <1>5 DEF u

LEMMA RestOfBytes ==
    ASSUME NEW t, IsBytes(t), NEW w \in 1 .. Len(t)
    PROVE  /\ IsBytes(SubSeq(t, w + 1, Len(t)))
           /\ Len(SubSeq(t, w + 1, Len(t))) = Len(t) - w
           /\ \A i \in 1 .. Len(t) - w : SubSeq(t, w + 1, Len(t))[i] = t[w + i]
<1> DEFINE l == Len(t)
           u == SubSeq(t, w + 1, l)
<1>1. l \in Nat /\ w \in Nat /\ w <= l
  BY DEF IsBytes
<1>2. w + 1 \in 1 .. l + 1 /\ l \in 0 .. l /\ w + 1 <= l + 1
  BY <1>1
<1>3. /\ IsBytes(u) /\ Len(u) = l + 1 - (w + 1)
      /\ \A i \in 1 .. l + 1 - (w + 1) : u[i] = t[w + 1 + i - 1]
  BY <1>2, SubBytes
<1> HIDE DEF u, l
<1>4. l + 1 - (w + 1) = l - w
  BY <1>1
<1>5. \A i \in 1 .. l - w : u[i] = t[w + i]
  <2> TAKE i \in 1 .. l - w
  <2>1. i \in 1 .. l + 1 - (w + 1) /\ w + 1 + i - 1 = w + i
    BY <1>1
  <2>2. u[i] = t[w + 1 + i - 1]
    BY <1>3, <2>1
  <2> QED BY <2>1, <2>2
<1> QED BY <1>3, <1>4, <1>5 DEF u, l

\* What the driver answers for was written.
LEMMA WrittenAdvances ==
    ASSUME LegalProgram(program), Writes(flash, memory, op, program), Holds(memory), NEW st
    PROVE  Written = Width(program) /\ Advances(flash, program, Left(st), Width(program))
<1> DEFINE w == Width(program)
           t == program.rest
           u == SubSeq(t, 1, w)
           q == SubSeq(t, w + 1, Len(t))
<1>1. w \in 1 .. Len(t) /\ memory = Programming(program.addr, u)
  BY DEF Writes
<1>2. memory.tag = "Programming" /\ memory.addr = program.addr /\ memory.src = u
  BY <1>1, OperationFields
<1>3. IsBytes(t)
  BY DEF LegalProgram
<1>4. Len(t) \in Nat
  BY <1>3 DEF IsBytes
<1>5. (program.addr % 4) + w <= 4
  BY <1>1, <1>4, WidthFacts
<1> HIDE DEF w, t
<1>6. IsBytes(u) /\ Len(u) = w /\ \A i \in 1 .. w : u[i] = t[i]
  BY <1>1, <1>3, FrontOfBytes
<1>7. IsBytes(q) /\ Len(q) = Len(t) - w /\ \A i \in 1 .. Len(t) - w : q[i] = t[w + i]
  BY <1>1, <1>3, RestOfBytes
<1> HIDE DEF u
<1>8. Written = w
  BY <1>2, <1>6 DEF Written
<1>9. \A k \in 1 .. w : flash[program.addr + k - 1] = t[k]
  <2>1. \A i \in DOMAIN u : flash[program.addr + i - 1] = u[i]
    BY <1>2 DEF Holds
  <2>2. DOMAIN u = 1 .. w
    BY <1>6 DEF IsBytes
  <2> QED BY <1>6, <2>1, <2>2
<1>10. Left(st) = Program(program.current_sector, program.addr + w, st, q)
  BY <1>8 DEF Left, t
<1> HIDE DEF q
<1>11. /\ Left(st).current_sector = program.current_sector
       /\ Left(st).addr = program.addr + w /\ Left(st).rest = q
  BY <1>10, ProgramFields
<1> QED BY <1>1, <1>5, <1>7, <1>8, <1>9, <1>11 DEF Advances, w, t

LEMMA AdvancesLegally ==
    ASSUME NEW f, NEW p, NEW g, NEW w, LegalProgram(p), Advances(f, p, g, w)
    PROVE  LegalProgram(g) /\ w \in Nat /\ Len(p.rest) \in Nat
<1>1. p.addr \in Nat /\ Len(p.rest) \in Nat /\ w \in 1 .. Len(p.rest) /\ g.addr = p.addr + w
      /\ APPLICATION_REGION_START <= p.addr /\ APPLICATION_REGION_START \in Nat
  BY RegionFacts DEF Advances, LegalProgram, IsBytes
<1>2. InApplication(g.current_sector) /\ IsBytes(g.rest)
  BY DEF Advances, LegalProgram
<1> QED BY <1>1, <1>2 DEF LegalProgram

\* The bytes accepted stay what they are when some more of them are on flash.
LEMMA AdvancesFaithfully ==
    ASSUME NEW f, NEW p, NEW g, NEW s, NEW w, LegalProgram(p), Splits(f, p, s),
           Advances(f, p, g, w)
    PROVE  Splits(f, g, s)
<1> DEFINE A == APPLICATION_REGION_START
           d == p.addr - A
           l == Len(p.rest)
<1>1. p.addr \in Nat /\ A \in Nat /\ A <= p.addr /\ l \in Nat
  BY RegionFacts DEF LegalProgram, IsBytes
<1>2. w \in 1 .. l /\ g.addr = p.addr + w /\ Len(g.rest) = l - w
  BY DEF Advances
<1>3. /\ d \in Nat /\ w \in Nat /\ w <= l
      /\ g.addr - A = d + w
  BY <1>1, <1>2
<1>4. Len(s) = d + l
  BY DEF Splits
<1>5. Len(s) = (g.addr - A) + Len(g.rest)
  BY <1>1, <1>2, <1>3, <1>4
<1>6. ASSUME NEW k \in 1 .. d + w PROVE f[A + k - 1] = s[k]
  <2>1. CASE k <= d
    <3>1. k \in 1 .. d
      BY <1>3, <2>1
    <3> QED BY <3>1 DEF Splits, OnFlash
  <2>2. CASE ~(k <= d)
    <3> DEFINE j == k - d
    <3>1. /\ j \in 1 .. w /\ j \in 1 .. l /\ d + j = k
          /\ p.addr + j - 1 = A + k - 1
      <4>1. k \in Int /\ k <= d + w /\ d < k
        BY <1>3, <2>2
      <4>2. d + j = k /\ p.addr + j - 1 = A + k - 1
        BY <1>1, <4>1
      <4> HIDE DEF d, l
      <4>3. j \in 1 .. w
        BY <1>3, <4>1
      <4>4. j \in 1 .. l
        BY <1>1, <1>3, <4>3
      <4> QED BY <4>2, <4>3, <4>4
    <3> HIDE DEF j, d, l
    <3>2. f[p.addr + j - 1] = p.rest[j]
      BY <3>1 DEF Advances
    <3>3. p.rest[j] = s[d + j]
      BY <3>1 DEF Splits, d, l
    <3> QED BY <3>1, <3>2, <3>3
  <2> QED BY <2>1, <2>2
<1>7. ASSUME NEW j \in 1 .. Len(g.rest) PROVE g.rest[j] = s[(d + w) + j]
  <2>1. w + j \in 1 .. l /\ d + (w + j) = (d + w) + j
    BY <1>1, <1>2, <1>3
  <2>2. g.rest[j] = p.rest[w + j]
    BY DEF Advances
  <2>3. p.rest[w + j] = s[d + (w + j)]
    BY <2>1 DEF Splits
  <2> QED BY <2>1, <2>2, <2>3
<1> HIDE DEF d
<1>8. OnFlash(f, s, g.addr - A)
  BY <1>3, <1>6 DEF OnFlash
<1>9. \A j \in 1 .. Len(g.rest) : g.rest[j] = s[g.addr - A + j]
  BY <1>3, <1>7
<1>10. IsData(s) /\ Len(s) > 0
  BY DEF Splits
<1> QED BY <1>5, <1>8, <1>9, <1>10 DEF Splits

\* A download goes on to a place where the sector is still erased.
LEMMA AdvancesInPlace ==
    ASSUME NEW p, NEW g, NEW m, NEW o, LegalProgram(p), Placed(p),
           p.addr < MANIFEST_REGION_START, p.addr < SectorBase[p.current_sector + 1],
           Writes(flash, m, o, p), Advances(flash, p, g, Width(p))
    PROVE  Placed(g) /\ Clean(flash, g.current_sector, g.addr)
<1> DEFINE w == Width(p)
           c == p.current_sector
<1>1. p.addr \in Nat /\ w \in Nat /\ MANIFEST_REGION_START \in Nat
      /\ MANIFEST_REGION_START % 4 = 0
  BY ManifestFacts, AdvancesLegally DEF LegalProgram
<1>2. SectorBase[c] \in Nat /\ SectorBase[c + 1] \in Nat /\ SectorBase[c + 1] % 4 = 0
      /\ SectorBase[c] <= p.addr
  BY SectorFacts DEF LegalProgram, Placed
<1>3. (p.addr % 4) + w <= 4 /\ g.addr = p.addr + w /\ g.current_sector = c
  BY DEF Advances
<1> HIDE DEF w
<1>4. p.addr + w <= MANIFEST_REGION_START /\ p.addr + w <= SectorBase[c + 1]
  BY <1>1, <1>2, <1>3, WithinWord
<1>5. Placed(g)
  BY <1>1, <1>2, <1>3, <1>4 DEF Placed
<1>6. Clean(flash, g.current_sector, g.addr)
  BY <1>3 DEF Writes, w
<1> QED BY <1>5, <1>6

\* An answer of the driver is that its operation is done and was checked.
LEMMA AnswerHolds ==
    ASSUME op = MemIdle, PollResult = "Ok", memory.tag # "Idle"
    PROVE  Holds(memory)
<1>1. memory # MemIdle
  BY OperationFields
<1> QED BY <1>1 DEF PollResult

LEMMA ErasedIsClean ==
    ASSUME NEW s, Holds(Erasing(s)), NEW a
    PROVE  Clean(flash, s, a)
BY OperationFields DEF Holds, Clean

LEMMA DownloadAdvances ==
    ASSUME LegalProgram(program), NEW s, NEW F, NEW r,
           DownloadState(flash, memory, op, program, s), op = MemIdle,
           program.st # "AwaitData", PollResult = "Ok", Advance(r)
    PROVE  DownloadSteps(r, s, F)
<1>0. Splits(flash, program, s) /\ Placed(program)
  BY DEF DownloadState
<1>1. CASE program.st = "AwaitEraseBeforeProgram"
  <2>1. /\ Len(program.rest) > 0 /\ program.addr < MANIFEST_REGION_START
        /\ program.addr = SectorBase[program.current_sector]
        /\ memory = Erasing(program.current_sector)
    BY <1>1 DEF DownloadState
  <2>2. Clean(flash, program.current_sector, program.addr)
    BY <2>1, AnswerHolds, ErasedIsClean, OperationFields
  <2>3. program.addr < SectorBase[program.current_sector + 1]
    BY <2>1, SectorFacts DEF LegalProgram
  <2>4. /\ StartProgram(MemIdle, program.addr, program.rest, r)
        /\ Becomes(Program(program.current_sector, program.addr, "AwaitProgram",
                           program.rest), r)
    BY <1>1 DEF Advance
  <2> QED BY <1>0, <2>1, <2>2, <2>3, <2>4, WriteSteps
<1>2. CASE program.st = "AwaitProgram"
  <2> DEFINE rest == SubSeq(program.rest, Written + 1, Len(program.rest))
  <2>1. /\ program.addr < MANIFEST_REGION_START
        /\ program.addr < SectorBase[program.current_sector + 1]
        /\ Writes(flash, memory, op, program)
    BY <1>2 DEF DownloadState
  <2>2. Holds(memory)
    BY <2>1, AnswerHolds, OperationFields DEF Writes
  <2>3. ASSUME NEW st
        PROVE  /\ LegalProgram(Left(st)) /\ Splits(flash, Left(st), s) /\ Placed(Left(st))
               /\ Clean(flash, Left(st).current_sector, Left(st).addr)
    <3>1. Advances(flash, program, Left(st), Width(program))
      BY <2>1, <2>2, WrittenAdvances
    <3>2. LegalProgram(Left(st))
      BY <3>1, AdvancesLegally
    <3>3. Splits(flash, Left(st), s)
      BY <1>0, <3>1, AdvancesFaithfully
    <3>4. Placed(Left(st)) /\ Clean(flash, Left(st).current_sector, Left(st).addr)
      BY <1>0, <2>1, <3>1, AdvancesInPlace
    <3> QED BY <3>2, <3>3, <3>4
  <2>4. ASSUME NEW st
        PROVE  /\ Left(st).rest = rest /\ Left(st).st = st
               /\ Left(st).addr = program.addr + Written
               /\ Left(st).current_sector = program.current_sector
    BY DEF Left, Program
  <2>5. \/ /\ rest = <<>> /\ r = "Ok" /\ Quiet(MemIdle)
           /\ program' = Program(program.current_sector, program.addr + Written,
                                 "AwaitData", <<>>)
        \/ rest # <<>> /\ EraseOrProgram(MemIdle, Left(program.st), r)
    BY <1>2, <2>4 DEF Advance, Left
  <2>6. CASE /\ rest = <<>> /\ r = "Ok" /\ Quiet(MemIdle)
             /\ program' = Program(program.current_sector, program.addr + Written,
                                   "AwaitData", <<>>)
    <3>1. program' = Left("AwaitData")
      BY <2>6 DEF Left
    <3>2. Len(Left("AwaitData").rest) = 0
      <4>1. Left("AwaitData").rest = <<>>
        BY <2>4, <2>6
      <4> HIDE DEF rest
      <4> QED BY <4>1
    <3> DEFINE d == Left("AwaitData")
    <3> HIDE DEF d
    <3>3. DownloadState(flash, memory', op', d, s)
      BY <2>3, <2>4, <3>2 DEF DownloadState, d
    <3>4. WellAimed(flash, op', F)
      BY <2>6, OperationFields, IdleIsAimed DEF Quiet
    <3> QED BY <2>6, <3>1, <3>3, <3>4 DEF DownloadSteps, d
  <2>7. CASE rest # <<>> /\ EraseOrProgram(MemIdle, Left(program.st), r)
    <3>1. IsBytes(Left(program.st).rest)
      BY <2>3 DEF LegalProgram
    <3>2. Len(Left(program.st).rest) > 0
      <4>1. Len(Left(program.st).rest) # 0
        BY <2>4, <2>7, <3>1, NoBytes
      <4> QED BY <3>1, <4>1 DEF IsBytes
    <3> QED BY <2>3, <2>7, <3>2, EraseOrProgramPlaces
  <2> QED BY <2>5, <2>6, <2>7
<1> QED BY <1>1, <1>2 DEF DownloadState

\* A poll of a Program that is downloading.
LEMMA DownloadPolled ==
    ASSUME LegalProgram(program), NEW s, NEW F, NEW r,
           DownloadState(flash, memory, op, program, s), WellAimed(flash, op, F),
           ProgramPoll(r)
    PROVE  DownloadSteps(r, s, F) \/ (r = "Ok" /\ UNCHANGED <<memory, op, program>>)
<1>1. CASE r = "Ok" /\ Quiet(memory) /\ program' = program
  BY <1>1 DEF Quiet
<1>2. CASE PollResult \in Error /\ r = PollResult /\ Quiet(MemIdle) /\ program' = NoProgram
  BY <1>2, ErrorsOfHandler DEF DownloadSteps, Quiet
<1>3. CASE program.st # "AwaitData" /\ PollResult = "Ok" /\ Advance(r)
  <2>1. memory # MemIdle
    BY <1>3, OperationFields DEF DownloadState, Writes
  <2>2. op = MemIdle
    BY <1>3, <2>1 DEF PollResult
  <2> QED BY <1>3, <2>2, DownloadAdvances
<1> QED BY <1>1, <1>2, <1>3 DEF ProgramPoll

-----------------------------------------------------------------------------
\* The same for a manifestation of the image s.
ManifestSteps(r, s, F) ==
    /\ WellAimed(flash, op', F)
    /\ IF r = "Ok" THEN ManifestState(flash, memory', op', program', s)
       ELSE program' = NoProgram
    /\ r # "panic"

LEMMA WordsLeft ==
    ASSUME NEW m \in Nat, NEW h \in Nat, NEW a \in Nat, NEW l,
           m % 4 = 0, h % 4 = 0, a % 4 = 0, l = m + 4 + h - a, l > 0
    PROVE  l >= 4 /\ l \in Nat
<1>1. PICK i \in Nat, j \in Nat, k \in Nat : m = 4 * i /\ h = 4 * j /\ a = 4 * k
  <2>1. m = 4 * (m \div 4) /\ m \div 4 \in Nat
    OBVIOUS
  <2>2. h = 4 * (h \div 4) /\ h \div 4 \in Nat
    OBVIOUS
  <2>3. a = 4 * (a \div 4) /\ a \div 4 \in Nat
    OBVIOUS
  <2> QED BY <2>1, <2>2, <2>3
<1>2. l = 4 * (i + j + 1 - k)
  BY <1>1
<1>3. i + j + 1 - k > 0
  BY <1>2
<1> QED BY <1>2, <1>3

\* A manifest is written in words, so that no write of it panics.
LEMMA ManifestWidth ==
    ASSUME NEW f, NEW p, NEW s, LegalProgram(p), ManifestSplits(f, p, s), Len(p.rest) > 0
    PROVE  /\ Width(p) = 4 /\ Len(p.rest) >= 4
           /\ p.addr + 4 <= MANIFEST_REGION_START + 4 + HASH_LENGTH
<1>1. /\ p.addr \in Nat /\ p.addr % 4 = 0
      /\ Len(p.rest) = MANIFEST_REGION_START + 4 + HASH_LENGTH - p.addr
  BY DEF LegalProgram, ManifestSplits
<1>2. /\ MANIFEST_REGION_START \in Nat /\ MANIFEST_REGION_START % 4 = 0
      /\ HASH_LENGTH \in Nat /\ HASH_LENGTH % 4 = 0
  BY ManifestFacts
<1> DEFINE l == Len(p.rest)
<1> HIDE DEF l
<1>3. l >= 4 /\ l \in Nat
  BY <1>1, <1>2, WordsLeft DEF l
<1>4. Width(p) = 4
  BY <1>1, <1>3 DEF Width, ToWrite, l
<1> QED BY <1>1, <1>2, <1>3, <1>4 DEF l

LEMMA ManifestFits ==
    ASSUME NEW s, NEW k \in 1 .. 4 + HASH_LENGTH, NEW a, a >= MANIFEST_REGION_START
    PROVE  Fits(a, ManifestBytes(Len(s), s)[k])
<1>1. ManifestBytes(Len(s), s)[k][1] \in {"len", "hash"}
  BY ManifestBytesFacts
<1> QED BY <1>1 DEF Fits, ByteTag

\* The writes of a manifest.
LEMMA ManifestIsAimed ==
    ASSUME NEW p, NEW s, NEW F, NEW o, LegalProgram(p), ManifestSplits(flash, p, s), s \in F,
           OnFlash(flash, s, Len(s)), Len(p.rest) > 0, Clean(flash, LastSector, p.addr),
           o = Programming(p.addr, SubSeq(p.rest, 1, Width(p)))
    PROVE  WellAimed(flash, o, F)
<1> DEFINE M == MANIFEST_REGION_START
           u == SubSeq(p.rest, 1, Width(p))
           b == ManifestBytes(Len(s), s)
<1>1. Width(p) = 4 /\ Len(p.rest) >= 4 /\ p.addr + 4 <= M + 4 + HASH_LENGTH
  BY ManifestWidth
<1>2. /\ p.addr \in Nat /\ M \in Nat /\ HASH_LENGTH \in Nat /\ p.addr >= M
      /\ Len(p.rest) \in Nat
  BY ManifestFacts DEF LegalProgram, ManifestSplits, IsBytes
<1>3. Width(p) \in 1 .. Len(p.rest) /\ IsBytes(p.rest)
  BY <1>1, <1>2 DEF LegalProgram
<1>4. Len(u) = 4 /\ \A i \in 1 .. 4 : u[i] = p.rest[i]
  BY <1>1, <1>3, FrontOfBytes
<1>5. o.tag = "Programming" /\ o.addr = p.addr /\ o.src = u
  BY OperationFields
<1> HIDE DEF u
<1>6. ASSUME NEW i \in 1 .. 4
      PROVE  u[i] = b[p.addr - M + i] /\ p.addr - M + i \in 1 .. 4 + HASH_LENGTH
  <2>1. i \in 1 .. Len(p.rest) /\ p.addr - M + i \in 1 .. 4 + HASH_LENGTH
    BY <1>1, <1>2
  <2>2. p.rest[i] = b[p.addr - M + i]
    BY <2>1 DEF ManifestSplits
  <2> QED BY <1>4, <2>1, <2>2
<1> HIDE DEF b
<1>7. ASSUME NEW i \in 1 .. Len(o.src) PROVE Fits(o.addr + i - 1, o.src[i])
  <2>1. i \in 1 .. 4
    BY <1>4, <1>5
  <2>2. p.addr + i - 1 >= M
    BY <1>2, <2>1
  <2> QED BY <1>5, <1>6, <2>1, <2>2, ManifestFits DEF b
<1>8. Seals(flash, o, s)
  <2>1. ManifestOnFlash(flash, s, o.addr - M)
    BY <1>5 DEF ManifestSplits
  <2>2. \A i \in 1 .. 4 : o.src[i] = ManifestBytes(Len(s), s)[o.addr - M + i]
    BY <1>5, <1>6 DEF b
  <2> QED BY <1>1, <1>2, <1>4, <1>5, <2>1, <2>2 DEF Seals
<1> QED BY <1>7, <1>8 DEF WellAimed

LEMMA ManifestWriteSteps ==
    ASSUME NEW p, NEW s, NEW F, NEW r, LegalProgram(p), op = MemIdle, IsImage(s), s \in F,
           OnFlash(flash, s, Len(s)), ManifestSplits(flash, p, s), Len(p.rest) > 0,
           Clean(flash, LastSector, p.addr), StartProgram(MemIdle, p.addr, p.rest, r),
           Becomes(Program(p.current_sector, p.addr, "AwaitProgramManifest", p.rest), r)
    PROVE  ManifestSteps(r, s, F)
<1> DEFINE g == Program(p.current_sector, p.addr, "AwaitProgramManifest", p.rest)
<1>0. p.current_sector = LastSector /\ p.addr % 4 = 0
  BY DEF ManifestSplits
<1>1. CASE /\ r = "Ok" /\ program' = g /\ Writes(flash, memory', op', program')
           /\ Width(p) <= Len(p.rest)
           /\ op' = Programming(p.addr, SubSeq(p.rest, 1, Width(p)))
  <2>1. WellAimed(flash, op', F)
    BY <1>1, ManifestIsAimed
  <2>2. /\ g.current_sector = p.current_sector /\ g.addr = p.addr
        /\ g.rest = p.rest /\ g.st = "AwaitProgramManifest"
    BY ProgramFields
  <2> HIDE DEF g
  <2>3. ManifestSplits(flash, g, s)
    BY <2>2 DEF ManifestSplits
  <2>4. ManifestState(flash, memory', op', g, s)
    BY <1>1, <2>2, <2>3 DEF ManifestState
  <2> QED BY <1>1, <2>1, <2>4 DEF ManifestSteps
<1>2. CASE r = "panic" /\ p.addr % 4 = 2
  BY <1>0, <1>2
<1>3. CASE r = "Write" /\ program' = NoProgram /\ op' = MemIdle
  BY <1>3, OperationFields, IdleIsAimed DEF ManifestSteps
<1>4. \/ /\ r = "Ok" /\ program' = g /\ Writes(flash, memory', op', program')
         /\ Width(p) <= Len(p.rest)
         /\ op' = Programming(p.addr, SubSeq(p.rest, 1, Width(p)))
      \/ r = "panic" /\ p.addr % 4 = 2
      \/ r = "Write" /\ program' = NoProgram /\ op' = MemIdle
  <2>1. Clean(flash, p.current_sector, p.addr)
    BY <1>0
  <2> QED BY <2>1, StartsWrite, Zenon
<1> QED BY <1>1, <1>2, <1>3, <1>4

LEMMA EraseOrProgramManifestPlaces ==
    ASSUME NEW p, NEW s, NEW F, NEW r, LegalProgram(p), op = MemIdle, IsImage(s), s \in F,
           OnFlash(flash, s, Len(s)), p.addr = APPLICATION_REGION_START + Len(s),
           p.addr <= SectorBase[p.current_sector + 1],
           p.current_sector = LastSector => Clean(flash, LastSector, MANIFEST_REGION_START),
           EraseOrProgramManifest(MemIdle, p, r)
    PROVE  ManifestSteps(r, s, F)
<1> DEFINE length == p.addr - APPLICATION_REGION_START
           e == Program(p.current_sector + 1, p.addr, "AwaitErase", <<>>)
           b == ManifestBytes(Len(s), s)
           g == Program(LastSector, MANIFEST_REGION_START, "AwaitProgramManifest", b)
<1>1. length = Len(s) /\ Len(s) \in Nat
  BY RegionFacts DEF IsImage, IsData, IsBytes
<1>2. NewManifest(length) = b
  BY <1>1, ImageIsOnFlash DEF NewManifest
<1>3. CASE /\ p.current_sector < LastSector
           /\ StartErase(MemIdle, p.current_sector + 1, r) /\ Becomes(e, r)
  <2>1. op'.tag # "Programming"
    BY <1>3, OperationFields DEF StartErase
  <2>2. e.current_sector = p.current_sector + 1 /\ e.addr = p.addr /\ e.st = "AwaitErase"
    BY ProgramFields
  <2>3. CASE r = "Ok"
    <3>1. program' = e /\ memory' = Erasing(p.current_sector + 1)
      BY <1>3, <2>3 DEF Becomes, StartErase
    <3> HIDE DEF e
    <3>2. ManifestState(flash, memory', op', e, s)
      BY <2>2, <3>1 DEF ManifestState
    <3> QED BY <2>1, <2>3, <3>1, <3>2, IdleIsAimed DEF ManifestSteps
  <2>4. CASE r # "Ok"
    BY <1>3, <2>1, <2>4, IdleIsAimed DEF ManifestSteps, Becomes, StartErase
  <2> QED BY <2>3, <2>4
<1>4. CASE /\ p.current_sector = LastSector
           /\ StartProgram(MemIdle, MANIFEST_REGION_START, b, r) /\ Becomes(g, r)
  <2>1. /\ g.current_sector = LastSector /\ g.addr = MANIFEST_REGION_START
        /\ g.rest = b /\ g.st = "AwaitProgramManifest"
    BY ProgramFields
  <2>2. IsBytes(b) /\ Len(b) = 4 + HASH_LENGTH
    BY ManifestBytesFacts
  <2>3. /\ MANIFEST_REGION_START \in Nat /\ HASH_LENGTH \in Nat /\ HASH_LENGTH >= 4
        /\ InApplication(LastSector) /\ MANIFEST_REGION_START % 4 = 0
        /\ APPLICATION_REGION_START <= MANIFEST_REGION_START
    BY ManifestFacts, RegionFacts
  <2> HIDE DEF b
  <2>4. StartProgram(MemIdle, g.addr, g.rest, r)
    BY <1>4, <2>1
  <2>5. Becomes(Program(g.current_sector, g.addr, "AwaitProgramManifest", g.rest), r)
    BY <1>4, <2>1
  <2> HIDE DEF g
  <2>6. LegalProgram(g) /\ Len(g.rest) > 0
    BY <2>1, <2>2, <2>3 DEF LegalProgram
  <2>7. ManifestSplits(flash, g, s)
    <3>1. g.addr - MANIFEST_REGION_START = 0
      BY <2>1, <2>3
    <3>2. ManifestOnFlash(flash, s, 0)
      BY DEF ManifestOnFlash
    <3>3. \A j \in 1 .. Len(g.rest) : g.rest[j] = ManifestBytes(Len(s), s)[0 + j]
      BY <2>1, <2>2, <2>3 DEF b
    <3>4. Len(g.rest) = MANIFEST_REGION_START + 4 + HASH_LENGTH - g.addr
      BY <2>1, <2>2, <2>3
    <3> QED BY <2>1, <2>3, <3>1, <3>2, <3>3, <3>4 DEF ManifestSplits
  <2>8. Clean(flash, LastSector, g.addr)
    BY <1>4, <2>1
  <2> QED BY <2>4, <2>5, <2>6, <2>7, <2>8, ManifestWriteSteps
<1> QED BY <1>2, <1>3, <1>4 DEF EraseOrProgramManifest

\* A manifest goes on, word by word.
LEMMA AdvancesManifest ==
    ASSUME NEW p, NEW g, NEW s, LegalProgram(p), ManifestSplits(flash, p, s),
           Len(p.rest) > 0, Advances(flash, p, g, Width(p))
    PROVE  ManifestSplits(flash, g, s)
<1> DEFINE M == MANIFEST_REGION_START
           d == p.addr - M
           l == Len(p.rest)
           b == ManifestBytes(Len(s), s)
<1>1. Width(p) = 4 /\ l >= 4
  BY ManifestWidth
<1>2. /\ p.addr \in Nat /\ M \in Nat /\ M <= p.addr /\ l \in Nat /\ p.addr % 4 = 0
      /\ HASH_LENGTH \in Nat /\ l = M + 4 + HASH_LENGTH - p.addr
  BY ManifestFacts DEF LegalProgram, IsBytes, ManifestSplits
<1>3. g.addr = p.addr + 4 /\ Len(g.rest) = l - 4 /\ g.current_sector = LastSector
  BY <1>1 DEF Advances, ManifestSplits
<1>0. (p.addr + 4) % 4 = 0
  BY <1>2
<1> HIDE DEF l, b
<1>4. /\ d \in Nat /\ g.addr - M = d + 4 /\ g.addr >= M /\ g.addr % 4 = 0
      /\ Len(g.rest) = M + 4 + HASH_LENGTH - g.addr
  <2>1. g.addr % 4 = 0
    BY <1>0, <1>3
  <2> QED BY <1>2, <1>3, <2>1
<1>5. ASSUME NEW k \in 1 .. d + 4 PROVE flash[M + k - 1] = b[k]
  <2>1. CASE k <= d
    <3>1. k \in 1 .. d
      BY <1>4, <2>1
    <3> QED BY <3>1 DEF ManifestSplits, ManifestOnFlash, b
  <2>2. CASE ~(k <= d)
    <3> DEFINE j == k - d
    <3>1. /\ j \in 1 .. 4 /\ j \in 1 .. l /\ d + j = k
          /\ p.addr + j - 1 = M + k - 1
      <4>1. k \in Int /\ k <= d + 4 /\ d < k
        BY <1>4, <2>2
      <4>2. d + j = k /\ p.addr + j - 1 = M + k - 1
        BY <1>2, <4>1
      <4> HIDE DEF d
      <4>3. j \in 1 .. 4
        BY <1>4, <4>1
      <4>4. j \in 1 .. l
        BY <1>1, <1>2, <4>3
      <4> QED BY <4>2, <4>3, <4>4
    <3> HIDE DEF j, d, l
    <3>2. flash[p.addr + j - 1] = p.rest[j]
      BY <1>1, <3>1 DEF Advances
    <3>3. p.rest[j] = b[d + j]
      BY <3>1 DEF ManifestSplits, d, l, b
    <3> QED BY <3>1, <3>2, <3>3
  <2> QED BY <2>1, <2>2
<1>6. ASSUME NEW j \in 1 .. Len(g.rest) PROVE g.rest[j] = b[(d + 4) + j]
  <2>0. j \in Int /\ 1 <= j /\ j <= l - 4
    BY <1>2, <1>3
  <2>1. 4 + j \in 1 .. l /\ d + (4 + j) = (d + 4) + j
    <3> HIDE DEF d
    <3> QED BY <1>2, <1>4, <2>0
  <2>2. g.rest[j] = p.rest[4 + j]
    BY <1>1 DEF Advances
  <2>3. p.rest[4 + j] = b[d + (4 + j)]
    BY <2>1 DEF ManifestSplits, b, l
  <2> QED BY <2>1, <2>2, <2>3
<1> HIDE DEF d
<1>7. ManifestOnFlash(flash, s, g.addr - M)
  BY <1>4, <1>5 DEF ManifestOnFlash, b
<1>8. \A j \in 1 .. Len(g.rest) : g.rest[j] = ManifestBytes(Len(s), s)[g.addr - M + j]
  BY <1>4, <1>6 DEF b
<1> QED BY <1>3, <1>4, <1>7, <1>8 DEF ManifestSplits

LEMMA ManifestAdvances ==
    ASSUME LegalProgram(program), NEW s, NEW F, NEW r, s \in F,
           ManifestState(flash, memory, op, program, s), op = MemIdle,
           PollResult = "Ok", Advance(r)
    PROVE  ManifestSteps(r, s, F)
<1>0. IsImage(s) /\ OnFlash(flash, s, Len(s))
  BY DEF ManifestState
<1>1. CASE program.st = "AwaitErase"
  <2> DEFINE c == program.current_sector
  <2>1. /\ program.addr = APPLICATION_REGION_START + Len(s)
        /\ program.addr <= SectorBase[c] /\ memory = Erasing(c)
    BY <1>1 DEF ManifestState
  <2>2. Clean(flash, c, MANIFEST_REGION_START)
    BY <2>1, AnswerHolds, ErasedIsClean, OperationFields
  <2>3. program.addr <= SectorBase[c + 1]
    <3>1. /\ SectorBase[c] \in Nat /\ SectorBase[c + 1] \in Nat
          /\ SectorBase[c] < SectorBase[c + 1] /\ program.addr \in Nat
      BY SectorFacts DEF LegalProgram
    <3> QED BY <2>1, <3>1
  <2>4. EraseOrProgramManifest(MemIdle, program, r)
    BY <1>1 DEF Advance
  <2> QED BY <1>0, <2>1, <2>2, <2>3, <2>4, EraseOrProgramManifestPlaces
<1>2. CASE program.st = "AwaitProgramManifest"
  <2> DEFINE rest == SubSeq(program.rest, Written + 1, Len(program.rest))
             g == Left("AwaitProgramManifest")
  <2>1. ManifestSplits(flash, program, s) /\ Writes(flash, memory, op, program)
    BY <1>2 DEF ManifestState
  <2>2. Holds(memory) /\ Len(program.rest) > 0
    BY <2>1, AnswerHolds, OperationFields DEF Writes, LegalProgram, IsBytes
  <2>3. Advances(flash, program, g, Width(program))
    BY <2>1, <2>2, WrittenAdvances
  <2>4. LegalProgram(g) /\ ManifestSplits(flash, g, s)
    BY <2>1, <2>2, <2>3, AdvancesLegally, AdvancesManifest
  <2>5. /\ g.rest = rest /\ g.st = "AwaitProgramManifest"
        /\ g = Program(g.current_sector, g.addr, "AwaitProgramManifest", g.rest)
        /\ g.addr = program.addr + Written /\ g.current_sector = program.current_sector
    BY DEF Left, Program
  <2>6. \/ rest = <<>> /\ r = "Done" /\ Quiet(MemIdle) /\ program' = NoProgram
        \/ rest # <<>> /\ StartProgram(MemIdle, g.addr, g.rest, r) /\ Becomes(g, r)
    BY <1>2, <2>5 DEF Advance, Left
  <2>7. Clean(flash, LastSector, g.addr)
    <3>1. Clean(flash, program.current_sector, program.addr + Width(program))
      BY <2>1 DEF Writes
    <3> QED BY <2>1, <2>3, <3>1 DEF Advances, ManifestSplits
  <2> HIDE DEF g
  <2>8. CASE r = "Done" /\ Quiet(MemIdle) /\ program' = NoProgram
    BY <2>8, OperationFields, IdleIsAimed DEF ManifestSteps, Quiet
  <2>9. CASE rest # <<>> /\ StartProgram(MemIdle, g.addr, g.rest, r) /\ Becomes(g, r)
    <3>1. Len(g.rest) > 0
      <4>1. IsBytes(g.rest) /\ g.rest # <<>>
        BY <2>4, <2>5, <2>9 DEF LegalProgram
      <4> QED BY <4>1, NoBytes DEF IsBytes
    <3>2. Becomes(Program(g.current_sector, g.addr, "AwaitProgramManifest", g.rest), r)
      BY <2>5, <2>9
    <3> QED BY <1>0, <2>4, <2>7, <2>9, <3>1, <3>2, ManifestWriteSteps
  <2> QED BY <2>6, <2>8, <2>9
<1> QED BY <1>1, <1>2 DEF ManifestState

\* A poll of a Program that is manifesting.
LEMMA ManifestPolled ==
    ASSUME LegalProgram(program), NEW s, NEW F, NEW r, s \in F,
           ManifestState(flash, memory, op, program, s), WellAimed(flash, op, F),
           ProgramPoll(r)
    PROVE  ManifestSteps(r, s, F) \/ (r = "Ok" /\ UNCHANGED <<memory, op, program>>)
<1>1. CASE r = "Ok" /\ Quiet(memory) /\ program' = program
  BY <1>1 DEF Quiet
<1>2. CASE PollResult \in Error /\ r = PollResult /\ Quiet(MemIdle) /\ program' = NoProgram
  BY <1>2, ErrorsOfHandler, OperationFields, IdleIsAimed DEF ManifestSteps, Quiet
<1>3. CASE PollResult = "Ok" /\ Advance(r)
  <2>1. memory # MemIdle
    BY OperationFields DEF ManifestState, Writes
  <2>2. op = MemIdle
    BY <1>3, <2>1 DEF PollResult
  <2> QED BY <1>3, <2>2, ManifestAdvances
<1> QED BY <1>1, <1>2, <1>3 DEF ProgramPoll

-----------------------------------------------------------------------------
\* What the methods of the handler leave: none of them changes a cell.

LEMMA OwnerFacts ==
    ASSUME NEW r \in PollAnswers
    PROVE  IF r = "Ok" THEN Owner(r) = hstate ELSE Owner(r) \in {"Idle", "Error", "Panicked"}
BY DEF Owner, PollAnswers, HandlerError, Error

LEMMA NoData == IsData(<<>>)
BY EmptyIsBytes DEF IsData

\* A method that ends with what the driver does well aimed keeps FlashInv.
LEMMA CellsKept ==
    ASSUME FlashInv, UNCHANGED <<flash, sr, keyRefused, finalised>>, SliceInv',
           WellAimed(flash, op', finalised),
           ProgramInv(hstate', flash, memory', op', program', sent', finalised)
    PROVE  FlashInv'
<1>1. CellsInv(flash, op', finalised)
  BY DEF FlashInv, CellsInv
<1> QED BY <1>1 DEF FlashInv

\* In particular when it gives its Program up.
LEMMA ProgramDropped ==
    ASSUME FlashInv, UNCHANGED <<flash, sr, keyRefused, finalised>>, SliceInv',
           WellAimed(flash, op', finalised), program' = NoProgram,
           hstate' \notin {"Download", "Manifetation"}, IsData(sent')
    PROVE  FlashInv'
<1>1. ProgramInv(hstate', flash, memory', op', program', sent', finalised)
  BY DEF ProgramInv
<1> QED BY <1>1, CellsKept

LEMMA SliceKept ==
    ASSUME SliceInv, UNCHANGED slice, hstate # "Upload", hstate' # "Upload"
    PROVE  SliceInv'
BY DEF SliceInv

\* A step of the Program of a download.
LEMMA DownloadStepped ==
    ASSUME FlashInv, hstate = "Download", NEW r \in PollAnswers, NEW s,
           DownloadSteps(r, s, finalised), IsData(s), hstate' = Owner(r),
           sent' = IF r = "Ok" THEN s ELSE <<>>,
           UNCHANGED <<slice, finalised, flash, sr, keyRefused>>
    PROVE  FlashInv'
<1>1. IF r = "Ok" THEN hstate' = "Download" ELSE hstate' \in {"Idle", "Error", "Panicked"}
  BY OwnerFacts
<1>2. SliceInv'
  BY <1>1, SliceKept DEF FlashInv
<1>3. WellAimed(flash, op', finalised)
  BY DEF DownloadSteps
<1>4. CASE r = "Ok"
  <2>1. DownloadState(flash, memory', op', program', sent')
    BY <1>4 DEF DownloadSteps
  <2>2. ProgramInv(hstate', flash, memory', op', program', sent', finalised)
    BY <1>1, <1>4, <2>1 DEF ProgramInv
  <2> QED BY <1>2, <1>3, <2>2, CellsKept
<1>5. CASE r # "Ok"
  <2>1. program' = NoProgram /\ sent' = <<>>
    BY <1>5 DEF DownloadSteps
  <2> QED BY <1>1, <1>2, <1>3, <1>5, <2>1, NoData, ProgramDropped
<1> QED BY <1>4, <1>5

\* A step of the Program of a manifestation, of which the images F come.
LEMMA ManifestStepped ==
    ASSUME FlashInv, hstate # "Upload", NEW r \in PollAnswers, NEW s, NEW F,
           ManifestSteps(r, s, F), s \in F, Sealed(flash, F), \A image \in F : IsImage(image),
           hstate' = IF r = "Ok" THEN "Manifetation" ELSE Owner(r),
           sent' = IF r = "Ok" THEN s ELSE <<>>,
           finalised' = F, UNCHANGED <<slice, flash, sr, keyRefused>>
    PROVE  FlashInv'
<1>1. IF r = "Ok" THEN hstate' = "Manifetation" ELSE hstate' \in {"Idle", "Error", "Panicked"}
  BY OwnerFacts
<1>2. SliceInv'
  BY <1>1, SliceKept DEF FlashInv
<1>3. CellsInv(flash, op', F)
  BY DEF ManifestSteps, FlashInv, CellsInv
<1>4. ProgramInv(hstate', flash, memory', op', program', sent', F)
  <2>1. CASE r = "Ok"
    <3>1. ManifestState(flash, memory', op', program', s) /\ IsData(s)
      BY <2>1 DEF ManifestSteps, IsImage
    <3> QED BY <1>1, <2>1, <3>1 DEF ProgramInv
  <2>2. CASE r # "Ok"
    <3>1. program' = NoProgram /\ IsData(sent')
      BY <2>2, NoData DEF ManifestSteps
    <3> QED BY <1>1, <2>2, <3>1 DEF ProgramInv
  <2> QED BY <2>1, <2>2
<1> QED BY <1>2, <1>3, <1>4 DEF FlashInv

\* Forget, for a step of the Program.
LEMMA Forgotten ==
    ASSUME Forget, NEW r, IF r = "Ok" THEN program'.st # "None" ELSE program' = NoProgram
    PROVE  sent' = IF r = "Ok" THEN sent ELSE <<>>
<1>1. NoProgram.st = "None"
  BY DEF NoProgram, Program
<1> QED BY <1>1 DEF Forget

LEMMA PolledSteps ==
    ASSUME DriverInv, FlashInv, Busy, NEW r, ProgramPoll(r)
    PROVE  /\ hstate = "Download" => DownloadSteps(r, sent, finalised)
           /\ hstate = "Manifetation" => ManifestSteps(r, sent, finalised)
<1>1. /\ LegalProgram(program) /\ WellAimed(flash, op, finalised)
      /\ ProgramInv(hstate, flash, memory, op, program, sent, finalised)
  BY DEF DriverInv, FlashInv, CellsInv
<1>2. CASE hstate = "Download"
  <2>1. DownloadState(flash, memory, op, program, sent)
    BY <1>1, <1>2 DEF ProgramInv
  <2>2. DownloadSteps(r, sent, finalised)
    <3>1. CASE r = "Ok" /\ UNCHANGED <<memory, op, program>>
      BY <1>1, <2>1, <3>1 DEF DownloadSteps
    <3> QED BY <1>1, <2>1, <3>1, DownloadPolled
  <2> QED BY <1>2, <2>2
<1>3. CASE hstate = "Manifetation"
  <2>1. ManifestState(flash, memory, op, program, sent) /\ sent \in finalised
    BY <1>1, <1>3 DEF ProgramInv
  <2>2. ManifestSteps(r, sent, finalised)
    <3>1. CASE r = "Ok" /\ UNCHANGED <<memory, op, program>>
      BY <1>1, <2>1, <3>1 DEF ManifestSteps
    <3> QED BY <1>1, <2>1, <3>1, ManifestPolled
  <2> QED BY <1>3, <2>2
<1> QED BY <1>2, <1>3 DEF Busy

LEMMA PolledKeepsFlash ==
    ASSUME DriverInv, FlashInv, Busy, NEW r \in PollAnswers, ProgramPoll(r), Forget,
           hstate' = Owner(r), UNCHANGED <<slice, finalised, flash, sr, keyRefused>>
    PROVE  FlashInv'
<1>1. /\ LegalProgram(program) /\ WellAimed(flash, op, finalised) /\ IsData(sent)
      /\ Sealed(flash, finalised) /\ \A image \in finalised : IsImage(image)
      /\ ProgramInv(hstate, flash, memory, op, program, sent, finalised)
  BY DEF DriverInv, FlashInv, CellsInv, ProgramInv
<1>2. CASE hstate = "Download"
  <2>2. DownloadSteps(r, sent, finalised)
    BY <1>2, PolledSteps
  <2>3. IF r = "Ok" THEN program'.st # "None" ELSE program' = NoProgram
    BY <2>2 DEF DownloadSteps, DownloadState
  <2>4. sent' = IF r = "Ok" THEN sent ELSE <<>>
    BY <2>3, Forgotten
  <2> QED BY <1>1, <1>2, <2>2, <2>4, DownloadStepped
<1>3. CASE hstate = "Manifetation"
  <2>1. sent \in finalised
    BY <1>1, <1>3 DEF ProgramInv
  <2>2. ManifestSteps(r, sent, finalised)
    BY <1>3, PolledSteps
  <2>3. IF r = "Ok" THEN program'.st # "None" ELSE program' = NoProgram
    BY <2>2 DEF ManifestSteps, ManifestState
  <2>4. sent' = IF r = "Ok" THEN sent ELSE <<>>
    BY <2>3, Forgotten
  <2>5. hstate' = IF r = "Ok" THEN "Manifetation" ELSE Owner(r)
    BY <1>3, OwnerFacts
  <2> QED BY <1>1, <1>3, <2>1, <2>2, <2>4, <2>5, ManifestStepped
<1> QED BY <1>2, <1>3 DEF Busy

\* Program::new: the first sector is to be erased, the bytes are all to come.
LEMMA ProgramNewKeepsFlash ==
    ASSUME DriverInv, FlashInv, NEW buf, IsData(buf), Len(buf) > 0, NEW r, ProgramNew(buf, r)
    PROVE  FlashInv'
<1> DEFINE A == APPLICATION_REGION_START
           first == SectorOf(A)
           p == Program(first, A, "AwaitEraseBeforeProgram", buf)
<1>1. /\ hstate = "Idle" /\ op = MemIdle /\ memory = MemIdle
      /\ UNCHANGED <<slice, finalised, flash, sr, keyRefused>>
      /\ WellAimed(flash, op, finalised)
  BY DEF ProgramNew, DriverInv, Busy, FlashInv, CellsInv
<1>2. CASE r = "Ok"
  <2>1. /\ hstate' = "Download" /\ program' = p /\ sent' = buf
        /\ memory' = Erasing(first) /\ op' = Erasing(first)
    BY <1>2 DEF ProgramNew, StartErase
  <2>2. /\ p.current_sector = first /\ p.addr = A /\ p.rest = buf
        /\ p.st = "AwaitEraseBeforeProgram"
    BY ProgramFields
  <2> HIDE DEF p
  <2>3. A \in Nat /\ A < MANIFEST_REGION_START /\ InApplication(first) /\ A \in Region(first)
    BY RegionFacts, SectorOfFacts
  <2>4. A = SectorBase[first]
    <3>1. PICK s \in Sector : A = SectorBase[s]
      BY RegionAssumption
    <3>2. InApplication(s)
      BY <2>3, <3>1 DEF InApplication
    <3>3. A \in Region(s)
      BY <2>3, <3>1, <3>2, SectorFacts DEF Region
    <3>4. s = first
      <4> HIDE DEF first
      <4> QED BY <2>3, <3>2, <3>3, OneSector
    <3> QED BY <3>1, <3>4
  <2> HIDE DEF first
  <2>5. Splits(flash, p, buf)
    <3>1. p.addr - A = 0 /\ Len(buf) \in Nat
      BY <2>2, <2>3 DEF IsData, IsBytes
    <3>2. OnFlash(flash, buf, 0)
      BY DEF OnFlash
    <3>3. \A j \in 1 .. Len(p.rest) : p.rest[j] = buf[0 + j]
      BY <2>2, <3>1
    <3> QED BY <2>2, <3>1, <3>2, <3>3 DEF Splits
  <2>6. Placed(p)
    BY <2>2, <2>3, <2>4, RegionFacts, SectorFacts DEF Placed
  <2>7. DownloadState(flash, memory', op', p, buf)
    BY <2>1, <2>2, <2>3, <2>4, <2>5, <2>6 DEF DownloadState
  <2>8. WellAimed(flash, op', finalised)
    BY <2>1, OperationFields, IdleIsAimed
  <2>9. ProgramInv(hstate', flash, memory', op', program', sent', finalised)
    BY <2>1, <2>7 DEF ProgramInv
  <2>10. SliceInv'
    BY <1>1, <2>1, SliceKept DEF FlashInv
  <2> QED BY <1>1, <2>8, <2>9, <2>10, CellsKept
<1>3. CASE r # "Ok"
  <2>1. UNCHANGED <<hstate, program, sent, op>>
    BY <1>3 DEF ProgramNew, Quiet, StartErase
  <2>2. SliceInv'
    BY <1>1, <2>1, SliceKept DEF FlashInv
  <2>3. program = NoProgram /\ IsData(sent)
    BY <1>1 DEF FlashInv, ProgramInv
  <2> QED BY <1>1, <2>1, <2>2, <2>3, ProgramDropped
<1> QED BY <1>2, <1>3

\* Program::update: the next bytes follow those accepted so far.
LEMMA ProgramUpdateSteps ==
    ASSUME DriverInv, FlashInv, NEW buf, IsData(buf), Len(buf) > 0,
           NEW r, ProgramUpdate(buf, r)
    PROVE  IsData(sent \o buf) /\ DownloadSteps(r, sent \o buf, finalised)
<1> DEFINE A == APPLICATION_REGION_START
           p == Program(program.current_sector, program.addr, program.st, buf)
           s == sent \o buf
<1>1. /\ hstate = "Download" /\ LegalProgram(program)
      /\ WellAimed(flash, op, finalised)
      /\ DownloadState(flash, memory, op, program, sent)
  BY DEF ProgramUpdate, DriverInv, Busy, FlashInv, CellsInv, ProgramInv
<1>2. IsBytes(sent) /\ IsBytes(buf)
  BY DEF FlashInv, ProgramInv, IsData
<1>3. /\ IsBytes(s) /\ Len(s) = Len(sent) + Len(buf)
      /\ \A i \in 1 .. Len(sent) : s[i] = sent[i]
      /\ \A i \in 1 .. Len(buf) : s[Len(sent) + i] = buf[i]
  BY <1>2, JoinBytes
<1> HIDE DEF s
<1>4. Len(sent) \in Nat /\ Len(buf) \in Nat
  BY <1>2 DEF IsBytes
<1>5. IsData(s)
  <2>1. IsBytes(s)
    BY <1>3
  <2>2. ASSUME NEW i \in 1 .. Len(s) PROVE s[i][1] = "data"
    <3>1. CASE i <= Len(sent)
      <4>1. i \in 1 .. Len(sent)
        BY <1>3, <1>4, <3>1
      <4> QED BY <1>3, <4>1 DEF FlashInv, ProgramInv, IsData
    <3>2. CASE ~(i <= Len(sent))
      <4>1. i - Len(sent) \in 1 .. Len(buf) /\ Len(sent) + (i - Len(sent)) = i
        BY <1>3, <1>4, <3>2
      <4>2. s[Len(sent) + (i - Len(sent))] = buf[i - Len(sent)]
        BY <1>3, <4>1
      <4> QED BY <4>1, <4>2 DEF IsData
    <3> QED BY <3>1, <3>2
  <2> QED BY <2>1, <2>2 DEF IsData
<1>6. CASE program.st = "AwaitData" /\ EraseOrProgram(memory, p, r)
  <2>1. memory = MemIdle /\ op = MemIdle
    BY <1>1, <1>6 DEF DriverInv
  <2>2. /\ p.current_sector = program.current_sector /\ p.addr = program.addr /\ p.rest = buf
    BY ProgramFields
  <2> HIDE DEF p
  <2>3. LegalProgram(p)
    BY <1>1, <1>2, <2>2 DEF LegalProgram
  <2>4. /\ Len(program.rest) = 0 /\ Clean(flash, p.current_sector, p.addr) /\ Placed(p)
        /\ Splits(flash, program, sent)
    BY <1>1, <1>6, <2>2 DEF DownloadState, Placed
  <2>5. Splits(flash, p, s)
    <3> DEFINE d == p.addr - A
    <3>1. Len(sent) = d /\ OnFlash(flash, sent, d)
      <4>1. p.addr \in Nat /\ A \in Nat
        BY <2>3, RegionFacts DEF LegalProgram
      <4> QED BY <2>2, <2>4, <4>1 DEF Splits
    <3> HIDE DEF d
    <3>2. OnFlash(flash, s, d)
      BY <1>3, <3>1 DEF OnFlash
    <3>3. \A j \in 1 .. Len(p.rest) : p.rest[j] = s[d + j]
      BY <1>3, <2>2, <3>1
    <3>4. Len(s) > 0 /\ Len(s) = d + Len(p.rest)
      BY <1>3, <1>4, <2>2, <3>1
    <3> QED BY <1>5, <3>2, <3>3, <3>4 DEF Splits, d
  <2>6. DownloadSteps(r, s, finalised)
    BY <1>6, <2>1, <2>2, <2>3, <2>4, <2>5, EraseOrProgramPlaces
  <2> QED BY <1>5, <2>6 DEF s
<1>7. CASE r = "Unknown" /\ Quiet(memory) /\ program' = NoProgram
  <2>1. DownloadSteps(r, s, finalised)
    BY <1>1, <1>7 DEF DownloadSteps, Quiet
  <2> QED BY <1>5, <2>1 DEF s
<1> QED BY <1>6, <1>7 DEF ProgramUpdate

LEMMA ProgramUpdateKeepsFlash ==
    ASSUME DriverInv, FlashInv, NEW buf, IsData(buf), Len(buf) > 0,
           NEW r \in PollAnswers, ProgramUpdate(buf, r)
    PROVE  FlashInv'
<1>1. /\ hstate = "Download" /\ hstate' = Owner(r)
      /\ sent' = IF r = "Ok" THEN sent \o buf ELSE <<>>
      /\ UNCHANGED <<slice, finalised, flash, sr, keyRefused>>
  BY DEF ProgramUpdate
<1>2. IsData(sent \o buf) /\ DownloadSteps(r, sent \o buf, finalised)
  BY ProgramUpdateSteps
<1> QED BY <1>1, <1>2, DownloadStepped, Zenon

\* Program::finalize: the image is what is on flash.
LEMMA FinalizeSteps ==
    ASSUME DriverInv, FlashInv, hstate = "Download", program.st = "AwaitData",
           NEW r, EraseOrProgramManifest(memory, program, r), NEW F, sent \in F
    PROVE  IsImage(sent) /\ ManifestSteps(r, sent, F)
<1> DEFINE A == APPLICATION_REGION_START
<1>1. /\ LegalProgram(program) /\ IsData(sent) /\ memory = MemIdle /\ op = MemIdle
      /\ DownloadState(flash, memory, op, program, sent)
  BY DEF DriverInv, Busy, FlashInv, CellsInv, ProgramInv
<1>2. /\ Len(program.rest) = 0 /\ Placed(program) /\ Splits(flash, program, sent)
      /\ Clean(flash, program.current_sector, program.addr)
  BY <1>1 DEF DownloadState
<1>3. /\ program.addr \in Nat /\ A \in Nat /\ A <= program.addr
      /\ MANIFEST_REGION_START \in Nat /\ program.addr <= MANIFEST_REGION_START
      /\ APPLICATION_LENGTH = MANIFEST_REGION_START - A
  BY <1>1, <1>2, RegionFacts, ApplicationFacts DEF LegalProgram, Placed
<1>4. Len(sent) = program.addr - A /\ Len(sent) > 0 /\ OnFlash(flash, sent, Len(sent))
  BY <1>2, <1>3 DEF Splits
<1>5. IsImage(sent) /\ program.addr = A + Len(sent)
  BY <1>1, <1>3, <1>4 DEF IsImage
<1>6. program.current_sector = LastSector => Clean(flash, LastSector, MANIFEST_REGION_START)
  <2>1. \A b \in Region(LastSector) : b \in Int
    BY ManifestFacts DEF Region
  <2> QED BY <1>2, <1>3, <2>1 DEF Clean
<1>7. program.addr <= SectorBase[program.current_sector + 1]
  BY <1>2 DEF Placed
<1>8. ManifestSteps(r, sent, F)
  BY <1>1, <1>4, <1>5, <1>6, <1>7, EraseOrProgramManifestPlaces
<1> QED BY <1>5, <1>8

\* A manifest that is there is that of an image kept in finalised.
LEMMA FinalizeKeepsFlash ==
    ASSUME DriverInv, FlashInv, NEW a, Finalize(a)
    PROVE  FlashInv'
<1> DEFINE F == {sent} \cup
                {image \in finalised : ManifestAt(flash) = ManifestBytes(Len(image), image)}
<1>1. /\ hstate = "Download" /\ UNCHANGED <<slice, flash, sr, keyRefused>> /\ Forget
      /\ WellAimed(flash, op, finalised) /\ Sealed(flash, finalised)
      /\ \A image \in finalised : IsImage(image)
  BY DEF Finalize, FlashInv, CellsInv
<1>2. ASSUME NEW r \in PollAnswers, program.st = "AwaitData",
             EraseOrProgramManifest(memory, program, r),
             hstate' = IF r = "Ok" THEN "Manifetation" ELSE Owner(r),
             finalised' = F
      PROVE  FlashInv'
  <2>1. IsImage(sent) /\ ManifestSteps(r, sent, F)
    BY <1>1, <1>2, FinalizeSteps
  <2>2. Sealed(flash, F)
    <3> SUFFICES ASSUME NEW s \in finalised, ManifestOnFlash(flash, s, 4 + HASH_LENGTH)
                 PROVE  s \in F
      BY <1>1 DEF Sealed
    <3> QED BY ManifestIsOnFlash
  <2>3. \A image \in F : IsImage(image)
    BY <1>1, <2>1
  <2>4. sent' = IF r = "Ok" THEN sent ELSE <<>>
    <3>1. IF r = "Ok" THEN program'.st # "None" ELSE program' = NoProgram
      BY <2>1 DEF ManifestSteps, ManifestState
    <3> QED BY <1>1, <3>1, Forgotten
  <2>5. sent \in F
    OBVIOUS
  <2> HIDE DEF F
  <2> QED BY <1>1, <1>2, <2>1, <2>2, <2>3, <2>4, <2>5, ManifestStepped
<1>3. CASE /\ Quiet(memory) /\ hstate' = "Error" /\ program' = NoProgram /\ UNCHANGED finalised
  <2>1. op' = op /\ sent' = <<>>
    BY <1>1, <1>3 DEF Quiet, Forget
  <2>2. SliceInv'
    BY <1>1, <1>3, SliceKept DEF FlashInv
  <2> QED BY <1>1, <1>3, <2>1, <2>2, NoData, ProgramDropped
<1> QED BY <1>2, <1>3 DEF Finalize

LEMMA UploadKeepsFlash ==
    ASSUME FlashInv, NEW size \in Nat, NEW r, NEW n, Upload(size, r, n)
    PROVE  FlashInv'
<1>1. CASE UNCHANGED handlerVars
  <2>1. UNCHANGED <<hstate, program, slice, sent, finalised, flash, memory, op, sr, keyRefused>>
    BY <1>1 DEF handlerVars, memVars
  <2>2. SliceInv'
    BY <2>1 DEF FlashInv, SliceInv
  <2>3. ProgramInv(hstate', flash, memory', op', program', sent', finalised)
    BY <2>1 DEF FlashInv
  <2> QED BY <2>1, <2>2, <2>3, CellsKept DEF FlashInv, CellsInv
<1>2. CASE ~UNCHANGED handlerVars
  <2>1. PICK s \in IF hstate = "Idle"
                   THEN {[at |-> APPLICATION_REGION_START,
                          end |-> APPLICATION_REGION_START + len] : len \in ManifestLengths(flash)}
                   ELSE {slice} :
             /\ hstate \in {"Idle", "Upload"}
             /\ n = IF size < s.end - s.at THEN size ELSE s.end - s.at
             /\ hstate' = IF n = 0 THEN "Idle" ELSE "Upload"
             /\ slice' = IF n = 0 THEN NoSlice ELSE [s EXCEPT !.at = @ + n]
             /\ UNCHANGED <<program, sent, finalised, flash, memory, op, sr, keyRefused>>
    BY <1>2 DEF Upload, memVars
  <2>2. /\ s \in [at : Nat, end : Nat] /\ s.at <= s.end
        /\ APPLICATION_REGION_START <= s.at /\ s.end <= MANIFEST_REGION_START
    <3>1. CASE hstate = "Idle"
      <4>1. PICK len \in ManifestLengths(flash) :
                s = [at |-> APPLICATION_REGION_START, end |-> APPLICATION_REGION_START + len]
        BY <2>1, <3>1
      <4>2. len \in Nat /\ APPLICATION_REGION_START + len <= MANIFEST_REGION_START
        <5>1. len \in 0 .. APPLICATION_LENGTH
          BY DEF ManifestLengths
        <5> QED BY <5>1, RegionFacts DEF APPLICATION_LENGTH
      <4> QED BY <4>1, <4>2, RegionFacts
    <3>2. CASE hstate = "Upload"
      <4>1. s = slice /\ slice # NoSlice
        BY <2>1, <3>2 DEF FlashInv, SliceInv
      <4> QED BY <4>1, RegionFacts DEF FlashInv, SliceInv
    <3> QED BY <2>1, <3>1, <3>2
  <2>3. SliceInv'
    <3>1. CASE n = 0
      BY <2>1, <3>1 DEF SliceInv, NoSlice
    <3>2. CASE n # 0
      <4>0. n \in Nat
        BY <2>1, <2>2
      <4>1. slice' = [s EXCEPT !.at = s.at + n] /\ hstate' = "Upload"
        BY <2>1, <3>2
      <4>2. /\ slice' \in [at : Nat, end : Nat] /\ slice'.at = s.at + n
            /\ slice'.end = s.end
        BY <2>2, <4>0, <4>1
      <4>3. s.at + n <= s.end
        BY <2>1, <2>2
      <4>4. APPLICATION_REGION_START < slice'.at /\ slice'.end <= MANIFEST_REGION_START
        BY <2>2, <3>2, <4>0, <4>2, RegionFacts
      <4>5. slice' # NoSlice
        BY <4>2, <4>4, RegionFacts DEF NoSlice
      <4> QED BY <4>1, <4>2, <4>3, <4>4, <4>5 DEF SliceInv
    <3> QED BY <3>1, <3>2
  <2>4. hstate' \notin {"Download", "Manifetation"} /\ program' = NoProgram /\ IsData(sent')
    BY <2>1 DEF FlashInv, ProgramInv
  <2> QED BY <2>1, <2>3, <2>4, ProgramDropped DEF FlashInv, CellsInv
<1> QED BY <1>1, <1>2

-----------------------------------------------------------------------------
\* What the controller leaves, when it finishes and when it is cut short.
Worked(f, o) == f \in {flash, Effect(o), Spoilt(o)}

\* The cells it did not work on, and those it did.
LEMMA WorkedElsewhere ==
    ASSUME DOMAIN flash = Address, NEW f, NEW o, Worked(f, o)
    PROVE  /\ DOMAIN f = Address
           /\ \A a \in Address : a \notin Cells(o) => f[a] = flash[a]
BY DEF Worked, Effect, Spoilt

LEMMA WorkedThere ==
    ASSUME NEW f, NEW o, Worked(f, o), NEW a \in Address, a \in Cells(o)
    PROVE  /\ o.tag = "Erasing" => f[a] \in {flash[a], Erased, Torn}
           /\ o.tag = "Programming" => f[a] \in {flash[a], Torn, o.src[a - o.addr + 1]}
<1>1. o.tag = "Programming" => o.tag # "Erasing"
  OBVIOUS
<1>2. CASE f = Effect(o)
  <2>1. f[a] = IF o.tag = "Erasing" THEN Erased ELSE Nor(flash[a], o.src[a - o.addr + 1])
    BY <1>2 DEF Effect
  <2>2. Nor(flash[a], o.src[a - o.addr + 1]) \in {flash[a], Torn, o.src[a - o.addr + 1]}
    BY DEF Nor
  <2> QED BY <1>1, <2>1, <2>2
<1>3. CASE f = Spoilt(o)
  BY <1>3 DEF Spoilt
<1> QED BY <1>2, <1>3 DEF Worked

LEMMA CellsOfErase ==
    ASSUME NEW o, o.tag = "Erasing"
    PROVE  Cells(o) = Region(o.sector)
BY DEF Cells

LEMMA CellsOfWrite ==
    ASSUME NEW o, o.tag = "Programming"
    PROVE  Cells(o) = (o.addr .. o.addr + Len(o.src) - 1) \cap Address
BY DEF Cells

LEMMA CellsOfNone ==
    ASSUME NEW o, o.tag = "Idle"
    PROVE  Cells(o) = {}
BY DEF Cells

\* What lies below all the cells of an operation, or beyond them, is kept.
LEMMA ImageKept ==
    ASSUME DOMAIN flash = Address, NEW f, NEW o, Worked(f, o), NEW s, NEW n \in Nat,
           NEW b \in Nat, APPLICATION_REGION_START + n <= b, b <= FLASH_END,
           \A a \in Cells(o) : a >= b, OnFlash(flash, s, n)
    PROVE  OnFlash(f, s, n)
<1> SUFFICES ASSUME NEW k \in 1 .. n PROVE f[APPLICATION_REGION_START + k - 1] = s[k]
  BY DEF OnFlash
<1> DEFINE a == APPLICATION_REGION_START + k - 1
<1>1. /\ a \in Int /\ APPLICATION_REGION_START <= a /\ a < b /\ a < FLASH_END
  BY ApplicationFacts, ManifestFacts
<1>2. flash[a] = s[k]
  BY DEF OnFlash
<1> HIDE DEF a
<1>3. a \in Address
  BY <1>1, ApplicationFacts
<1>4. a \notin Cells(o)
  BY <1>1
<1>5. f[a] = s[k]
  BY <1>2, <1>3, <1>4, WorkedElsewhere
<1> QED BY <1>5 DEF a

LEMMA ManifestKept ==
    ASSUME DOMAIN flash = Address, NEW f, NEW o, Worked(f, o), NEW s, NEW n \in Nat,
           NEW b \in Nat, MANIFEST_REGION_START + n <= b, b <= FLASH_END,
           \A a \in Cells(o) : a < MANIFEST_REGION_START \/ a >= b, ManifestOnFlash(flash, s, n)
    PROVE  ManifestOnFlash(f, s, n)
<1> SUFFICES ASSUME NEW k \in 1 .. n
             PROVE  f[MANIFEST_REGION_START + k - 1] = ManifestBytes(Len(s), s)[k]
  BY DEF ManifestOnFlash
<1> DEFINE a == MANIFEST_REGION_START + k - 1
<1>1. /\ a \in Int /\ APPLICATION_REGION_START <= a /\ MANIFEST_REGION_START <= a
      /\ a < b /\ a < FLASH_END
  BY RegionFacts, ManifestFacts
<1>2. flash[a] = ManifestBytes(Len(s), s)[k]
  BY DEF ManifestOnFlash
<1> HIDE DEF a
<1>3. a \in Address
  BY <1>1, ApplicationFacts
<1>4. a \notin Cells(o)
  BY <1>1, ManifestFacts
<1>5. f[a] = ManifestBytes(Len(s), s)[k]
  BY <1>2, <1>3, <1>4, WorkedElsewhere
<1> QED BY <1>5 DEF a

LEMMA CleanKept ==
    ASSUME DOMAIN flash = Address, NEW f, NEW o, Worked(f, o), NEW s, InApplication(s),
           NEW b \in Nat, \A a \in Cells(o) : a < b, Clean(flash, s, b)
    PROVE  Clean(f, s, b)
<1> SUFFICES ASSUME NEW a \in Region(s), a >= b PROVE f[a] = Erased
  BY DEF Clean
<1>1. a \in Address /\ a \in Int
  BY SectorFacts DEF Region
<1>2. a \notin Cells(o)
  BY <1>1
<1> QED BY <1>1, <1>2, WorkedElsewhere DEF Clean

\* The cells of the write of a word of a manifest.
LEMMA CellsOfSeal ==
    ASSUME NEW o, o.tag = "Programming", LegalOp(o), NEW s, Seals(flash, o, s)
    PROVE  /\ o.addr \in Nat /\ MANIFEST_REGION_START <= o.addr
           /\ o.addr + 4 <= MANIFEST_REGION_START + 4 + HASH_LENGTH
           /\ Cells(o) = o.addr .. o.addr + 3
           /\ \A a \in Cells(o) : a \in Region(LastSector) /\ flash[a] = Erased
<1>1. /\ o.addr \in Nat /\ MANIFEST_REGION_START <= o.addr /\ Len(o.src) = 4
      /\ o.addr + 4 <= MANIFEST_REGION_START + 4 + HASH_LENGTH
      /\ Clean(flash, LastSector, o.addr)
  BY DEF LegalOp, Seals
<1>2. /\ MANIFEST_REGION_START \in Nat /\ HASH_LENGTH \in Nat
      /\ SectorBase[LastSector] \in Nat /\ SectorBase[LastSector + 1] \in Nat
      /\ SectorBase[LastSector] <= MANIFEST_REGION_START
      /\ MANIFEST_REGION_START + 4 + HASH_LENGTH <= SectorBase[LastSector + 1]
      /\ Region(LastSector) \subseteq Address
  BY ManifestFacts, SectorFacts
<1>3. o.addr .. o.addr + 3 \subseteq Region(LastSector)
  BY <1>1, <1>2 DEF Region
<1>4. o.addr + Len(o.src) - 1 = o.addr + 3
  BY <1>1
<1>5. Cells(o) = (o.addr .. o.addr + 3) \cap Address
  BY <1>4, CellsOfWrite
<1>6. Cells(o) = o.addr .. o.addr + 3
  BY <1>2, <1>3, <1>5
<1>7. ASSUME NEW a \in Cells(o) PROVE a \in Region(LastSector) /\ flash[a] = Erased
  <2>1. a \in Region(LastSector) /\ a >= o.addr
    BY <1>1, <1>3, <1>6
  <2> QED BY <1>1, <2>1 DEF Clean
<1> QED BY <1>1, <1>6, <1>7

\* What an operation puts into a cell may be there.
LEMMA WorkedFits ==
    ASSUME NEW f, NEW F, Worked(f, op), LegalOp(op), CellsInv(flash, op, F), NEW a \in Address
    PROVE  Fits(a, f[a])
<1>0. /\ DOMAIN flash = Address /\ Fits(a, flash[a]) /\ WellAimed(flash, op, F)
      /\ Fits(a, Erased) /\ Fits(a, Torn)
  BY DEF CellsInv, Fits, ByteTag, Erased, Torn
<1>1. CASE a \notin Cells(op)
  BY <1>0, <1>1, WorkedElsewhere
<1>2. CASE a \in Cells(op) /\ op.tag = "Erasing"
  BY <1>0, <1>2, WorkedThere
<1>3. CASE a \in Cells(op) /\ op.tag = "Programming"
  <2> DEFINE i == a - op.addr + 1
  <2>1. /\ op.addr \in Nat /\ Len(op.src) \in Nat
        /\ a \in op.addr .. op.addr + Len(op.src) - 1
    BY <1>3, CellsOfWrite DEF LegalOp, IsBytes
  <2>2. i \in 1 .. Len(op.src) /\ op.addr + i - 1 = a
    BY <2>1
  <2>3. f[a] \in {flash[a], Torn, op.src[i]}
    BY <1>3, WorkedThere
  <2> HIDE DEF i
  <2>4. Fits(a, op.src[i])
    BY <1>0, <1>3, <2>2 DEF WellAimed
  <2> QED BY <1>0, <2>3, <2>4
<1>4. CASE a \in Cells(op) /\ op.tag = "Idle"
  BY <1>4, CellsOfNone
<1> QED BY <1>1, <1>2, <1>3, <1>4 DEF LegalOp

\* The last byte of the manifest area is in the last sector.
LEMMA LastByteFacts ==
    /\ LastByte \in Nat /\ LastByte \in Address /\ LastByte \in Region(LastSector)
    /\ LastByte = MANIFEST_REGION_START + 3 + HASH_LENGTH
<1>1. /\ MANIFEST_REGION_START \in Nat /\ HASH_LENGTH \in Nat
      /\ SectorBase[LastSector] \in Nat /\ SectorBase[LastSector + 1] \in Nat
      /\ SectorBase[LastSector] <= MANIFEST_REGION_START
      /\ MANIFEST_REGION_START + 4 + HASH_LENGTH <= SectorBase[LastSector + 1]
      /\ Region(LastSector) \subseteq Address
  BY ManifestFacts, SectorFacts
<1>2. LastByte \in Nat /\ LastByte \in Region(LastSector)
  BY <1>1 DEF LastByte, Region
<1> QED BY <1>1, <1>2 DEF LastByte

\* An erase of a cell of the manifest is that of the last sector.
LEMMA EraseOfManifest ==
    ASSUME NEW o, o.tag = "Erasing", LegalOp(o), NEW a \in Nat,
           MANIFEST_REGION_START <= a, a <= LastByte, a \in Cells(o)
    PROVE  o.sector = LastSector /\ LastByte \in Cells(o)
<1>1. InApplication(o.sector) /\ a \in Region(o.sector) /\ Cells(o) = Region(o.sector)
  BY CellsOfErase DEF LegalOp
<1>2. a \in Region(LastSector) /\ InApplication(LastSector)
  BY ManifestFacts, LastByteFacts DEF Region
<1>3. o.sector = LastSector
  BY <1>1, <1>2, OneSector
<1> QED BY <1>1, <1>3, LastByteFacts

\* The last word of a manifest completes it.
LEMMA SealCompletes ==
    ASSUME DOMAIN flash = Address, NEW o, o.tag = "Programming", LegalOp(o), NEW s,
           Seals(flash, o, s), LastByte \in Cells(o)
    PROVE  ManifestOnFlash(Effect(o), s, 4 + HASH_LENGTH)
<1> DEFINE M == MANIFEST_REGION_START
           b == ManifestBytes(Len(s), s)
           f == Effect(o)
<1>1. /\ o.addr \in Nat /\ o.addr + 4 <= M + 4 + HASH_LENGTH /\ Cells(o) = o.addr .. o.addr + 3
      /\ \A a \in Cells(o) : a \in Region(LastSector) /\ flash[a] = Erased
      /\ M \in Nat /\ HASH_LENGTH \in Nat
      /\ M + 4 + HASH_LENGTH <= FLASH_END
  BY CellsOfSeal, ManifestFacts
<1>2. o.addr = M + HASH_LENGTH
  BY <1>1, LastByteFacts
<1>3. ManifestOnFlash(flash, s, HASH_LENGTH) /\ \A i \in 1 .. 4 : o.src[i] = b[HASH_LENGTH + i]
  <2>1. o.addr - M = HASH_LENGTH
    BY <1>1, <1>2
  <2> QED BY <2>1 DEF Seals
<1>4. ManifestOnFlash(f, s, HASH_LENGTH)
  <2>1. \A a \in Cells(o) : a < M \/ a >= M + HASH_LENGTH
    BY <1>1, <1>2
  <2>2. /\ M + HASH_LENGTH \in Nat /\ M + HASH_LENGTH <= FLASH_END
        /\ M + HASH_LENGTH <= M + HASH_LENGTH
    BY <1>1, ManifestFacts
  <2>3. Worked(f, o)
    BY DEF Worked
  <2> HIDE DEF f
  <2> QED BY <1>1, <1>3, <2>1, <2>2, <2>3, ManifestKept
<1>5. ASSUME NEW i \in 1 .. 4 PROVE f[o.addr + i - 1] = b[HASH_LENGTH + i]
  <2> DEFINE a == o.addr + i - 1
  <2>1. a \in Cells(o) /\ a - o.addr + 1 = i
    BY <1>1
  <2> HIDE DEF a
  <2>2. flash[a] = Erased /\ a \in Address
    BY <1>1, <2>1, ManifestFacts, SectorFacts
  <2>3. f[a] = Nor(flash[a], o.src[a - o.addr + 1])
    BY <2>1, <2>2 DEF Effect
  <2>4. f[a] = o.src[i]
    BY <2>1, <2>2, <2>3 DEF Nor
  <2> QED BY <1>3, <2>4 DEF a
<1> HIDE DEF f, b
<1>6. ASSUME NEW k \in 1 .. 4 + HASH_LENGTH PROVE f[M + k - 1] = b[k]
  <2>1. CASE k <= HASH_LENGTH
    <3>1. k \in 1 .. HASH_LENGTH
      BY <1>1, <2>1
    <3> QED BY <1>4, <3>1 DEF ManifestOnFlash, b
  <2>2. CASE ~(k <= HASH_LENGTH)
    <3>1. k - HASH_LENGTH \in 1 .. 4 /\ HASH_LENGTH + (k - HASH_LENGTH) = k
          /\ o.addr + (k - HASH_LENGTH) - 1 = M + k - 1
      BY <1>1, <1>2, <2>2
    <3> QED BY <1>5, <3>1
  <2> QED BY <2>1, <2>2
<1> QED BY <1>6 DEF ManifestOnFlash, f, b

\* A manifest loses its last byte first and gets it last, over erased cells and
\* when its image is there.
LEMMA WorkedManifest ==
    ASSUME NEW f, NEW F, Worked(f, op), LegalOp(op), CellsInv(flash, op, F),
           f[LastByte][1] = "hash"
    PROVE  \E s \in F : /\ ManifestOnFlash(f, s, 4 + HASH_LENGTH)
                        /\ \/ ManifestOnFlash(flash, s, 4 + HASH_LENGTH)
                           \/ flash[LastByte] = Erased /\ OnFlash(f, s, Len(s))
<1>0. /\ DOMAIN flash = Address /\ WellAimed(flash, op, F) /\ Sealed(flash, F)
      /\ LastByte \in Address /\ LastByte \in Nat /\ LastByte \in Region(LastSector)
      /\ LastByte = MANIFEST_REGION_START + 3 + HASH_LENGTH
      /\ MANIFEST_REGION_START \in Nat /\ HASH_LENGTH \in Nat
      /\ MANIFEST_REGION_START + 4 + HASH_LENGTH <= FLASH_END /\ FLASH_END \in Nat
  BY LastByteFacts, ManifestFacts DEF CellsInv
<1>1. CASE LastByte \notin Cells(op)
  <2>1. f[LastByte] = flash[LastByte]
    BY <1>0, <1>1, WorkedElsewhere
  <2>2. PICK s \in F : ManifestOnFlash(flash, s, 4 + HASH_LENGTH)
    BY <1>0, <2>1 DEF Sealed
  <2>3. ASSUME NEW a \in Cells(op)
        PROVE  a < MANIFEST_REGION_START \/ a >= MANIFEST_REGION_START + 4 + HASH_LENGTH
    <3>1. CASE op.tag = "Erasing"
      <4>1. a \in Nat
        BY <3>1, CellsOfErase, SectorFacts DEF LegalOp, Region
      <4>2. ~(MANIFEST_REGION_START <= a /\ a <= LastByte)
        BY <1>1, <3>1, <4>1, EraseOfManifest
      <4> QED BY <1>0, <4>1, <4>2
    <3>2. CASE op.tag = "Programming"
      <4>1. CASE op.addr + Len(op.src) <= MANIFEST_REGION_START
        <5>1. op.addr \in Nat /\ Len(op.src) \in Nat
          BY <3>2 DEF LegalOp, IsBytes
        <5>2. a \in op.addr .. op.addr + Len(op.src) - 1
          BY <3>2, CellsOfWrite
        <5> QED BY <1>0, <4>1, <5>1, <5>2
      <4>2. CASE \E t \in F : Seals(flash, op, t)
        <5>1. PICK t \in F : Seals(flash, op, t)
          BY <4>2
        <5>2. op.addr \in Nat /\ op.addr + 4 <= MANIFEST_REGION_START + 4 + HASH_LENGTH
          BY <3>2, <5>1, CellsOfSeal
        <5>3. LastByte >= op.addr
          BY <1>0, <5>2
        <5>4. flash[LastByte] = Erased
          BY <1>0, <5>1, <5>3 DEF Seals, Clean
        <5> QED BY <2>1, <5>4 DEF Erased
      <4> QED BY <1>0, <3>2, <4>1, <4>2 DEF WellAimed
    <3>3. CASE op.tag = "Idle"
      BY <3>3, CellsOfNone
    <3> QED BY <3>1, <3>2, <3>3 DEF LegalOp
  <2>4. ManifestOnFlash(f, s, 4 + HASH_LENGTH)
    <3>1. 4 + HASH_LENGTH \in Nat /\ MANIFEST_REGION_START + 4 + HASH_LENGTH \in Nat
          /\ MANIFEST_REGION_START + (4 + HASH_LENGTH) <= MANIFEST_REGION_START + 4 + HASH_LENGTH
      BY <1>0
    <3> QED BY <1>0, <2>2, <2>3, <3>1, ManifestKept
  <2> QED BY <2>2, <2>4
<1>2. CASE LastByte \in Cells(op) /\ f = flash
  BY <1>0, <1>2 DEF Sealed
<1>3. CASE LastByte \in Cells(op) /\ f = Spoilt(op)
  <2>1. f[LastByte] = Torn
    BY <1>0, <1>3 DEF Spoilt
  <2> QED BY <2>1 DEF Torn
<1>4. CASE LastByte \in Cells(op) /\ f = Effect(op)
  <2>1. CASE op.tag = "Erasing"
    <3>1. f[LastByte] = Erased
      BY <1>0, <1>4, <2>1 DEF Effect
    <3> QED BY <3>1 DEF Erased
  <2>2. CASE op.tag = "Programming"
    <3>1. ~(op.addr + Len(op.src) <= MANIFEST_REGION_START)
      <4>1. op.addr \in Nat /\ Len(op.src) \in Nat
        BY <2>2 DEF LegalOp, IsBytes
      <4>2. LastByte \in op.addr .. op.addr + Len(op.src) - 1
        BY <1>4, <2>2, CellsOfWrite
      <4> QED BY <1>0, <4>1, <4>2
    <3>2. PICK s \in F : Seals(flash, op, s)
      BY <1>0, <2>2, <3>1 DEF WellAimed
    <3>3. ManifestOnFlash(f, s, 4 + HASH_LENGTH)
      BY <1>0, <1>4, <2>2, <3>2, SealCompletes
    <3>4. flash[LastByte] = Erased /\ \A a \in Cells(op) : a >= MANIFEST_REGION_START
      <4>1. /\ op.addr \in Nat /\ MANIFEST_REGION_START <= op.addr
            /\ Cells(op) = op.addr .. op.addr + 3
            /\ \A a \in Cells(op) : flash[a] = Erased
        BY <2>2, <3>2, CellsOfSeal
      <4> QED BY <1>0, <1>4, <4>1
    <3>5. OnFlash(f, s, Len(s))
      <4> DEFINE n == Len(s)
      <4>1. n \in Nat /\ APPLICATION_REGION_START + n <= MANIFEST_REGION_START
        BY <1>0, ApplicationFacts DEF CellsInv, IsImage
      <4>2. OnFlash(flash, s, n) /\ MANIFEST_REGION_START <= FLASH_END
        BY <1>0, <3>2 DEF Seals
      <4> HIDE DEF n
      <4>3. OnFlash(f, s, n)
        BY <1>0, <3>4, <4>1, <4>2, ImageKept
      <4> QED BY <4>3 DEF n
    <3> QED BY <3>3, <3>4, <3>5
  <2>3. CASE op.tag = "Idle"
    BY <1>4, <2>3, CellsOfNone
  <2> QED BY <2>1, <2>2, <2>3 DEF LegalOp
<1> QED BY <1>1, <1>2, <1>3, <1>4 DEF Worked

LEMMA WorkedSealed ==
    ASSUME NEW f, NEW F, Worked(f, op), LegalOp(op), CellsInv(flash, op, F)
    PROVE  Sealed(f, F)
BY WorkedManifest DEF Sealed

LEMMA WorkedKeepsCells ==
    ASSUME NEW f, NEW F, Worked(f, op), LegalOp(op), CellsInv(flash, op, F)
    PROVE  CellsInv(f, MemIdle, F)
<1>1. DOMAIN f = Address
  BY WorkedElsewhere DEF CellsInv
<1>2. WellAimed(f, MemIdle, F)
  BY OperationFields, IdleIsAimed
<1> QED BY <1>1, <1>2, WorkedFits, WorkedSealed DEF CellsInv

-----------------------------------------------------------------------------
\* The controller finishes what the Program waits for: it works where the
\* Program said, beyond what is there already.

\* The cells of a write of the driver for p.
LEMMA CellsOfProgram ==
    ASSUME NEW p, LegalProgram(p), NEW o, o = Programming(p.addr, SubSeq(p.rest, 1, Width(p))),
           Width(p) \in 1 .. Len(p.rest)
    PROVE  \A a \in Cells(o) : a \in Address /\ a >= p.addr /\ a < p.addr + Width(p)
<1> DEFINE w == Width(p)
           u == SubSeq(p.rest, 1, w)
<1>1. IsBytes(p.rest) /\ p.addr \in Nat
  BY DEF LegalProgram
<1>2. Len(u) = w
  BY <1>1, FrontOfBytes
<1>3. w \in Nat
  BY <1>1 DEF IsBytes
<1>4. o.tag = "Programming" /\ o.addr = p.addr /\ o.src = u
  BY OperationFields
<1> HIDE DEF u, w
<1>5. Cells(o) = (p.addr .. p.addr + w - 1) \cap Address
  BY <1>2, <1>4, CellsOfWrite
<1> QED BY <1>1, <1>3, <1>5 DEF w

LEMMA WrittenKeeps ==
    ASSUME DOMAIN flash = Address, NEW f, Worked(f, op), NEW p, LegalProgram(p),
           Writes(flash, memory, op, p), memory = op
    PROVE  /\ Writes(f, memory, MemIdle, p)
           /\ \A a \in Cells(op) : a \in Address /\ a >= p.addr
<1>1. /\ Width(p) \in 1 .. Len(p.rest) /\ op = Programming(p.addr, SubSeq(p.rest, 1, Width(p)))
      /\ Clean(flash, p.current_sector, p.addr + Width(p))
      /\ p.addr \in Nat /\ Len(p.rest) \in Nat /\ InApplication(p.current_sector)
  BY DEF Writes, LegalProgram, IsBytes
<1>2. \A a \in Cells(op) : a \in Address /\ a >= p.addr /\ a < p.addr + Width(p)
  BY <1>1, CellsOfProgram
<1>3. p.addr + Width(p) \in Nat
  BY <1>1
<1>4. Clean(f, p.current_sector, p.addr + Width(p))
  <2>1. \A a \in Cells(op) : a < p.addr + Width(p)
    BY <1>2
  <2> QED BY <1>1, <1>3, <2>1, CleanKept
<1> QED BY <1>1, <1>2, <1>4 DEF Writes

\* The cells of an erase of the driver.
LEMMA CellsOfSector ==
    ASSUME NEW s, InApplication(s), NEW o, o = Erasing(s)
    PROVE  /\ \A a \in Cells(o) : a \in Address /\ a >= SectorBase[s]
           /\ SectorBase[s] \in Nat /\ SectorBase[s] <= FLASH_END
<1>1. o.tag = "Erasing" /\ o.sector = s
  BY OperationFields
<1>2. Cells(o) = Region(s)
  BY <1>1, CellsOfErase
<1>3. s \in 0 .. LastSector + 1 /\ LastSector + 1 \in 0 .. LastSector + 1 /\ s <= LastSector + 1
  BY SectorFacts, BaseFacts
<1>4. SectorBase[s] <= FLASH_END
  BY <1>3, BaseFacts DEF FLASH_END
<1> QED BY <1>2, <1>4, SectorFacts DEF Region

LEMMA DownloadWorked ==
    ASSUME DOMAIN flash = Address, NEW f, Worked(f, op), NEW p, NEW s, LegalProgram(p),
           DownloadState(flash, memory, op, p, s), memory = op, op # MemIdle,
           p.st # "AwaitData"
    PROVE  DownloadState(f, memory, MemIdle, p, s)
<1> DEFINE A == APPLICATION_REGION_START
           d == p.addr - A
<1>1. /\ Splits(flash, p, s) /\ Placed(p) /\ p.addr \in Nat /\ A \in Nat /\ A <= p.addr
      /\ MANIFEST_REGION_START < FLASH_END /\ MANIFEST_REGION_START \in Nat
      /\ FLASH_END \in Nat /\ p.addr <= MANIFEST_REGION_START
  BY RegionFacts, ManifestFacts DEF DownloadState, LegalProgram, Placed
<1>2. d \in Nat /\ A + d <= p.addr /\ p.addr <= FLASH_END
  BY <1>1
<1>3. ASSUME \A a \in Cells(op) : a >= p.addr PROVE Splits(f, p, s)
  <2>1. OnFlash(flash, s, d)
    BY <1>1 DEF Splits
  <2> HIDE DEF d
  <2>2. OnFlash(f, s, d)
    BY <1>1, <1>2, <1>3, <2>1, ImageKept
  <2> QED BY <1>1, <2>2 DEF Splits, d
<1>4. CASE p.st = "AwaitEraseBeforeProgram"
  <2>1. p.addr = SectorBase[p.current_sector] /\ op = Erasing(p.current_sector)
    BY <1>4 DEF DownloadState
  <2>2. \A a \in Cells(op) : a >= p.addr
    BY <2>1, CellsOfSector DEF LegalProgram
  <2> QED BY <1>1, <1>3, <1>4, <2>2 DEF DownloadState
<1>5. CASE p.st = "AwaitProgram"
  <2>1. Writes(flash, memory, op, p)
    BY <1>5 DEF DownloadState
  <2>2. Writes(f, memory, MemIdle, p) /\ \A a \in Cells(op) : a >= p.addr
    BY <2>1, WrittenKeeps
  <2> QED BY <1>1, <1>3, <1>5, <2>2 DEF DownloadState
<1> QED BY <1>4, <1>5 DEF DownloadState

LEMMA ManifestWorked ==
    ASSUME DOMAIN flash = Address, NEW f, Worked(f, op), NEW p, NEW s, LegalProgram(p),
           ManifestState(flash, memory, op, p, s), memory = op, op # MemIdle
    PROVE  ManifestState(f, memory, MemIdle, p, s)
<1> DEFINE A == APPLICATION_REGION_START
           n == Len(s)
<1>1. /\ IsImage(s) /\ OnFlash(flash, s, n) /\ n \in Nat /\ n <= APPLICATION_LENGTH
      /\ p.addr \in Nat /\ A \in Nat /\ A + n <= MANIFEST_REGION_START
      /\ MANIFEST_REGION_START < FLASH_END /\ MANIFEST_REGION_START \in Nat
      /\ FLASH_END \in Nat
  BY RegionFacts, ManifestFacts, ApplicationFacts
     DEF ManifestState, LegalProgram, IsImage, IsData, IsBytes
<1>2. CASE p.st = "AwaitErase"
  <2>1. /\ op = Erasing(p.current_sector) /\ p.addr = A + n
        /\ p.addr <= SectorBase[p.current_sector]
    BY <1>2 DEF ManifestState
  <2>2. /\ \A a \in Cells(op) : a \in Address /\ a >= SectorBase[p.current_sector]
        /\ SectorBase[p.current_sector] \in Nat /\ SectorBase[p.current_sector] <= FLASH_END
    BY <2>1, CellsOfSector DEF LegalProgram
  <2>3. A + n <= SectorBase[p.current_sector] /\ \A a \in Cells(op) : a >= SectorBase[p.current_sector]
    BY <2>1, <2>2
  <2> HIDE DEF n
  <2>4. OnFlash(f, s, n)
    BY <1>1, <2>2, <2>3, ImageKept
  <2> QED BY <1>1, <1>2, <2>1, <2>4 DEF ManifestState, n
<1>3. CASE p.st = "AwaitProgramManifest"
  <2>1. Writes(flash, memory, op, p) /\ ManifestSplits(flash, p, s)
    BY <1>3 DEF ManifestState
  <2>2. Writes(f, memory, MemIdle, p) /\ \A a \in Cells(op) : a \in Address /\ a >= p.addr
    BY <2>1, WrittenKeeps
  <2>3. p.addr >= MANIFEST_REGION_START /\ \A a \in Cells(op) : a \in Int
    BY <2>1, <2>2, RegionFacts, ManifestFacts DEF ManifestSplits, Address
  <2>4. \A a \in Cells(op) : a >= MANIFEST_REGION_START
    BY <1>1, <2>2, <2>3
  <2> HIDE DEF n
  <2>5. OnFlash(f, s, n)
    <3>1. MANIFEST_REGION_START <= FLASH_END
      BY <1>1
    <3> QED BY <1>1, <2>4, <3>1, ImageKept
  <2>6. ManifestOnFlash(f, s, p.addr - MANIFEST_REGION_START)
    <3> DEFINE e == p.addr - MANIFEST_REGION_START
    <3>1. e \in Nat /\ MANIFEST_REGION_START + e <= p.addr
      BY <1>1, <2>3
    <3>2. p.addr <= FLASH_END
      <4>1. Len(p.rest) \in Nat /\ Len(p.rest) = MANIFEST_REGION_START + 4 + HASH_LENGTH - p.addr
        BY <2>1 DEF ManifestSplits, LegalProgram, IsBytes
      <4>2. MANIFEST_REGION_START + 4 + HASH_LENGTH <= FLASH_END /\ HASH_LENGTH \in Nat
        BY ManifestFacts
      <4> DEFINE l == Len(p.rest)
      <4> HIDE DEF l
      <4>3. l \in Nat /\ l = MANIFEST_REGION_START + 4 + HASH_LENGTH - p.addr
        BY <4>1 DEF l
      <4> QED BY <1>1, <4>2, <4>3
    <3>3. ManifestOnFlash(flash, s, e)
      BY <2>1 DEF ManifestSplits
    <3>4. \A a \in Cells(op) : a < MANIFEST_REGION_START \/ a >= p.addr
      BY <2>2
    <3> HIDE DEF e
    <3>5. ManifestOnFlash(f, s, e)
      BY <1>1, <3>1, <3>2, <3>3, <3>4, ManifestKept
    <3> QED BY <3>5 DEF e
  <2>7. ManifestSplits(f, p, s)
    BY <2>1, <2>6 DEF ManifestSplits
  <2> QED BY <1>1, <1>3, <2>2, <2>5, <2>7 DEF ManifestState, n
<1> QED BY <1>2, <1>3 DEF ManifestState

LEMMA ControllerKeepsFlash ==
    ASSUME DriverInv, FlashInv, ControllerStep
    PROVE  FlashInv'
<1>1. /\ Worked(flash', op) /\ op # MemIdle /\ op' = MemIdle
      /\ UNCHANGED <<hstate, program, slice, sent, finalised, memory, keyRefused>>
      /\ sr' \in {sr, sr \cup {"WRPERR"}, sr \cup {"OPERR"}}
  BY DEF ControllerStep, ControllerDone, Worked
<1>2. /\ CellsInv(flash, op, finalised) /\ LegalOp(op) /\ DOMAIN flash = Address
      /\ ProgramInv(hstate, flash, memory, op, program, sent, finalised)
  BY DEF DriverInv, FlashInv, CellsInv
<1>3. CellsInv(flash', MemIdle, finalised)
  BY <1>1, <1>2, WorkedKeepsCells
<1>4. ProgramInv(hstate, flash', memory, MemIdle, program, sent, finalised)
  <2>1. ASSUME Busy PROVE memory = op /\ LegalProgram(program) /\ program.st # "AwaitData"
    BY <1>1, <2>1 DEF DriverInv, Busy
  <2>2. ASSUME hstate = "Download"
        PROVE  DownloadState(flash', memory, MemIdle, program, sent)
    <3>1. DownloadState(flash, memory, op, program, sent)
      BY <1>2, <2>2 DEF ProgramInv
    <3> QED BY <1>1, <1>2, <2>1, <2>2, <3>1, DownloadWorked DEF Busy
  <2>3. ASSUME hstate = "Manifetation"
        PROVE  sent \in finalised /\ ManifestState(flash', memory, MemIdle, program, sent)
    <3>1. ManifestState(flash, memory, op, program, sent) /\ sent \in finalised
      BY <1>2, <2>3 DEF ProgramInv
    <3> QED BY <1>1, <1>2, <2>1, <2>3, <3>1, ManifestWorked DEF Busy
  <2> QED BY <1>2, <2>2, <2>3 DEF ProgramInv
<1>5. SliceInv'
  BY <1>1 DEF FlashInv, SliceInv
<1>6. sr' \subseteq {"WRPERR", "OPERR"} /\ keyRefused' \in BOOLEAN
  BY <1>1 DEF FlashInv
<1> QED BY <1>1, <1>3, <1>4, <1>5, <1>6 DEF FlashInv

LEMMA ResetKeepsFlash ==
    ASSUME DriverInv, FlashInv, HandlerReset
    PROVE  FlashInv'
<1>1. /\ Worked(flash', op) /\ op' = MemIdle /\ sr' = {} /\ keyRefused' \in BOOLEAN
      /\ hstate' = "Idle" /\ program' = NoProgram /\ slice' = NoSlice /\ sent' = <<>>
      /\ finalised' = finalised
  BY DEF HandlerReset, MemReset, Worked
<1>2. CellsInv(flash', MemIdle, finalised)
  BY <1>1, WorkedKeepsCells DEF DriverInv, FlashInv
<1>3. ProgramInv(hstate', flash', memory', op', program', sent', finalised')
  BY <1>1, NoData DEF ProgramInv
<1>4. SliceInv'
  BY <1>1 DEF SliceInv, NoSlice
<1> QED BY <1>1, <1>2, <1>3, <1>4 DEF FlashInv

-----------------------------------------------------------------------------
\* The invariant holds at the start and every action keeps it.

LEMMA BlankCells == CellsInv(Blank, MemIdle, {})
<1>1. DOMAIN Blank = Address /\ \A a \in Address : Blank[a] = Erased
  BY DEF Blank
<1>2. WellAimed(Blank, MemIdle, {})
  BY OperationFields, IdleIsAimed
<1>3. Blank[LastByte][1] = "erased"
  BY <1>1, LastByteFacts DEF Erased
<1> HIDE DEF Blank
<1>4. \A a \in Address : Fits(a, Blank[a])
  BY <1>1 DEF Fits, Erased, ByteTag
<1>5. Sealed(Blank, {})
  BY <1>3 DEF Sealed
<1> QED BY <1>1, <1>2, <1>4, <1>5 DEF CellsInv

\* What an image and its manifest are on a flash that holds both.
LEMMA InstalledCells ==
    ASSUME NEW s, IsImage(s)
    PROVE  /\ CellsInv(Installed(s), MemIdle, {s})
           /\ OnFlash(Installed(s), s, Len(s))
           /\ ManifestOnFlash(Installed(s), s, 4 + HASH_LENGTH)
<1> DEFINE A == APPLICATION_REGION_START
           M == MANIFEST_REGION_START
           b == ManifestBytes(Len(s), s)
           n == Len(s)
           f == Installed(s)
<1>1. /\ n \in Nat /\ A \in Nat /\ A + n <= M /\ M \in Nat /\ HASH_LENGTH \in Nat
      /\ M + 4 + HASH_LENGTH <= FLASH_END /\ FLASH_END \in Nat
      /\ \A k \in 1 .. n : s[k][1] = "data"
  BY RegionFacts, ManifestFacts, ApplicationFacts DEF IsImage, IsData, IsBytes
<1>2. \A a \in Address : a \in Int
  BY RegionFacts, ManifestFacts DEF Address
<1>3. /\ DOMAIN f = Address
      /\ \A a \in Address :
            f[a] = IF a \in A .. A + n - 1 THEN s[a - A + 1]
                   ELSE IF a \in M .. M + 3 + HASH_LENGTH THEN b[a - M + 1]
                   ELSE Erased
  BY DEF Installed
<1> HIDE DEF f, b, n
<1>4. ASSUME NEW a \in Address PROVE Fits(a, f[a])
  <2>1. CASE a \in A .. A + n - 1
    <3>1. a - A + 1 \in 1 .. n /\ a >= A /\ a < M
      BY <1>1, <1>2, <2>1
    <3>2. f[a] = s[a - A + 1]
      BY <1>3, <2>1
    <3>3. s[a - A + 1][1] = "data"
      BY <1>1, <3>1
    <3> QED BY <3>1, <3>2, <3>3, DataFits
  <2>2. CASE a \in M .. M + 3 + HASH_LENGTH
    <3>1. a - M + 1 \in 1 .. 4 + HASH_LENGTH /\ a >= M /\ a \notin A .. A + n - 1
      BY <1>1, <1>2, <2>2
    <3> QED BY <1>3, <2>2, <3>1, ManifestFits DEF b
  <2>3. CASE a \notin A .. A + n - 1 /\ a \notin M .. M + 3 + HASH_LENGTH
    BY <1>3, <2>3 DEF Fits, Erased, ByteTag
  <2> QED BY <2>1, <2>2, <2>3
<1>5. ASSUME NEW k \in 1 .. n PROVE f[A + k - 1] = s[k]
  <2> DEFINE a == A + k - 1
  <2>1. a \in A .. A + n - 1 /\ a - A + 1 = k /\ a \in Int /\ A <= a /\ a < FLASH_END
    BY <1>1
  <2> HIDE DEF a
  <2>2. a \in Address
    BY <2>1, ApplicationFacts
  <2>3. f[a] = s[k]
    BY <1>3, <2>1, <2>2
  <2> QED BY <2>3 DEF a
<1>6. ASSUME NEW k \in 1 .. 4 + HASH_LENGTH PROVE f[M + k - 1] = b[k]
  <2> DEFINE a == M + k - 1
  <2>1. /\ a \in M .. M + 3 + HASH_LENGTH /\ a - M + 1 = k /\ a \in Int
        /\ A <= a /\ a < FLASH_END /\ a \notin A .. A + n - 1
    BY <1>1
  <2> HIDE DEF a
  <2>2. a \in Address
    BY <2>1, ApplicationFacts
  <2>3. f[a] = b[k]
    BY <1>3, <2>1, <2>2
  <2> QED BY <2>3 DEF a
<1>7. OnFlash(f, s, n) /\ ManifestOnFlash(f, s, 4 + HASH_LENGTH)
  BY <1>5, <1>6 DEF OnFlash, ManifestOnFlash, b
<1>8. Sealed(f, {s}) /\ WellAimed(f, MemIdle, {s})
  BY <1>7, OperationFields, IdleIsAimed DEF Sealed
<1> QED BY <1>3, <1>4, <1>7, <1>8 DEF CellsInv, f, n

LEMMA FactoryIsImage == IsImage(FactoryImage) /\ Len(FactoryImage) = 4
<1>1. FactoryImage = [k \in 1 .. 4 |-> <<"data", 0, k>>]
  BY DEF FactoryImage
<1> DEFINE i == FactoryImage
<1> HIDE DEF i
<1>2. IsBytes(i) /\ Len(i) = 4 /\ \A k \in 1 .. 4 : i[k][1] = "data"
  BY <1>1, TableIsBytes DEF i
<1> QED BY <1>2, ApplicationFacts DEF IsImage, IsData, i

LEMMA FlashInvInit ==
    ASSUME NEW images, \A image \in images : IsImage(image), HandlerInit(images)
    PROVE  FlashInv
<1>1. /\ op = MemIdle /\ sr = {} /\ keyRefused \in BOOLEAN /\ hstate = "Idle"
      /\ program = NoProgram /\ slice = NoSlice /\ sent = <<>>
      /\ \/ flash = Blank /\ finalised = {}
         \/ \E image \in images : flash = Installed(image) /\ finalised = {image}
  BY DEF HandlerInit
<1>2. CellsInv(flash, op, finalised)
  BY <1>1, BlankCells, InstalledCells
<1>3. ProgramInv(hstate, flash, memory, op, program, sent, finalised)
  BY <1>1, NoData DEF ProgramInv
<1>4. SliceInv
  BY <1>1 DEF SliceInv, NoSlice
<1> QED BY <1>1, <1>2, <1>3, <1>4 DEF FlashInv

LEMMA StutterKeepsFlash ==
    ASSUME FlashInv, UNCHANGED handlerVars
    PROVE  FlashInv'
<1>1. UNCHANGED <<hstate, program, slice, sent, finalised, flash, memory, op, sr, keyRefused>>
  BY DEF handlerVars, memVars
<1>2. SliceInv'
  BY <1>1 DEF FlashInv, SliceInv
<1>3. ProgramInv(hstate', flash, memory', op', program', sent', finalised)
  BY <1>1 DEF FlashInv
<1> QED BY <1>1, <1>2, <1>3, CellsKept DEF FlashInv, CellsInv

LEMMA FlashInvStep == DriverInv /\ FlashInv /\ HandlerStep => FlashInv'
<1> SUFFICES ASSUME DriverInv, FlashInv, HandlerStep PROVE FlashInv'
  OBVIOUS
<1>1. ASSUME NEW buf, NEW r \in PollAnswers, IsData(buf), Len(buf) > 0, Download(buf, r)
      PROVE  FlashInv'
  <2>3. CASE ProgramNew(buf, r)
    BY <1>1, <2>3, ProgramNewKeepsFlash
  <2>4. CASE ProgramUpdate(buf, r)
    BY <1>1, <2>4, ProgramUpdateKeepsFlash
  <2>5. CASE /\ hstate' = "Error" /\ program' = NoProgram /\ slice' = NoSlice
             /\ Forget /\ UNCHANGED <<finalised, flash, op, sr, keyRefused>>
    <3>1. sent' = <<>> /\ SliceInv'
      BY <2>5 DEF Forget, SliceInv, NoSlice
    <3> QED BY <2>5, <3>1, NoData, ProgramDropped DEF FlashInv, CellsInv
  <2> QED BY <1>1, <2>3, <2>4, <2>5 DEF Download, memVars
<1>2. ASSUME NEW a, IsManifestationInProgress(a) PROVE FlashInv'
  <2>2. CASE Finalize(a)
    BY <2>2, FinalizeKeepsFlash
  <2>3. CASE /\ hstate = "Manifetation" /\ Forget
             /\ \E r \in PollAnswers : ProgramPoll(r) /\ hstate' = Owner(r)
             /\ UNCHANGED <<slice, finalised, flash, sr, keyRefused>>
    BY <2>3, PolledKeepsFlash DEF Busy
  <2>4. CASE UNCHANGED handlerVars
    BY <2>4, StutterKeepsFlash
  <2>5. CASE /\ hstate \in {"Upload", "Error"} /\ hstate' = "Error" /\ slice' = NoSlice
             /\ UNCHANGED <<program, sent, finalised, flash, op, sr, keyRefused>>
    <3>1. SliceInv' /\ program = NoProgram /\ IsData(sent)
      BY <2>5 DEF SliceInv, NoSlice, FlashInv, ProgramInv
    <3> QED BY <2>5, <3>1, ProgramDropped DEF FlashInv, CellsInv
  <2> QED BY <1>2, <2>2, <2>3, <2>4, <2>5 DEF IsManifestationInProgress, memVars
<1>3. ASSUME NEW r, HandlerPoll(r) PROVE FlashInv'
  <2>2. CASE /\ Busy /\ Forget
             /\ \E q \in PollAnswers : ProgramPoll(q) /\ hstate' = Owner(q)
             /\ UNCHANGED <<slice, finalised, flash, sr, keyRefused>>
    BY <2>2, PolledKeepsFlash
  <2>3. CASE UNCHANGED handlerVars
    BY <2>3, StutterKeepsFlash
  <2> QED BY <1>3, <2>2, <2>3 DEF HandlerPoll, Busy
<1>4. ASSUME NEW size \in Nat, NEW r, NEW n, Upload(size, r, n) PROVE FlashInv'
  BY <1>4, UploadKeepsFlash
<1>5. CASE ControllerStep
  BY <1>5, ControllerKeepsFlash
<1>6. CASE HandlerReset
  BY <1>6, ResetKeepsFlash
<1>7. CASE UNCHANGED handlerVars
  BY <1>7, StutterKeepsFlash
<1> QED BY <1>1, <1>2, <1>3, <1>4, <1>5, <1>6, <1>7 DEF HandlerStep

-----------------------------------------------------------------------------
\* What the invariant says of a start of the bootloader.

\* The two fields of a manifest.
LEMMA ManifestFields ==
    ASSUME NEW s
    PROVE  /\ \A k \in 1 .. 4 : ManifestBytes(Len(s), s)[k] = <<"len", k, Len(s)>>
           /\ \A k \in 1 .. HASH_LENGTH : ManifestBytes(Len(s), s)[4 + k] = <<"hash", k, s>>
<1> DEFINE b == ManifestBytes(Len(s), s)
           n == Len(s)
<1>1. \A k \in 1 .. 4 + HASH_LENGTH :
          b[k] = IF k <= 4 THEN <<"len", k, n>> ELSE <<"hash", k - 4, s>>
  BY ManifestBytesFacts
<1>2. HASH_LENGTH \in Nat
  BY ManifestFacts
<1> HIDE DEF b, n
<1>3. ASSUME NEW k \in 1 .. 4 PROVE b[k] = <<"len", k, n>>
  <2>1. k \in 1 .. 4 + HASH_LENGTH /\ k <= 4
    BY <1>2
  <2> QED BY <1>1, <2>1
<1>4. ASSUME NEW k \in 1 .. HASH_LENGTH PROVE b[4 + k] = <<"hash", k, s>>
  <2> DEFINE j == 4 + k
  <2>1. j \in 1 .. 4 + HASH_LENGTH /\ ~(j <= 4) /\ j - 4 = k
    BY <1>2
  <2> HIDE DEF j
  <2>2. b[j] = <<"hash", k, s>>
    BY <1>1, <2>1
  <2> QED BY <2>2 DEF j
<1> QED BY <1>3, <1>4 DEF b, n

LEMMA ManifestAtFacts ==
    ASSUME NEW f, NEW k \in 1 .. 4 + HASH_LENGTH
    PROVE  ManifestAt(f)[k] = f[MANIFEST_REGION_START + k - 1]
BY DEF ManifestAt

\* A manifest that is entire, with its image, is what is_firmware_valid looks
\* for.
LEMMA EntireIsValid ==
    ASSUME NEW f, NEW s, IsImage(s), OnFlash(f, s, Len(s)),
           ManifestOnFlash(f, s, 4 + HASH_LENGTH)
    PROVE  HashValid(f)
<1> DEFINE b == ManifestBytes(Len(s), s)
           m == ManifestAt(f)
           n == Len(s)
<1>1. ImageAt(f, n) = s /\ n \in 0 .. APPLICATION_LENGTH
  BY ImageIsOnFlash, ApplicationFacts DEF IsImage
<1>2. m = b
  BY ManifestIsOnFlash
<1>3. /\ \A k \in 1 .. 4 : b[k] = <<"len", k, n>>
      /\ \A k \in 1 .. HASH_LENGTH : b[4 + k] = <<"hash", k, s>>
  BY ManifestFields
<1> HIDE DEF b, m, n
<1>4. \A k \in 1 .. 4 : m[k] = <<"len", k, n>>
  BY <1>2, <1>3
<1>5. \A k \in 1 .. HASH_LENGTH : m[4 + k] = <<"hash", k, s>>
  BY <1>2, <1>3
<1>6. n \in ManifestLengths(f)
  BY <1>1, <1>4 DEF ManifestLengths, m
<1> QED BY <1>1, <1>5, <1>6 DEF HashValid, m

\* A hash that is right is that of an image with an entire manifest.
LEMMA ValidIsEntire ==
    ASSUME NEW f, NEW F, Sealed(f, F), \A image \in F : IsImage(image), HashValid(f)
    PROVE  \E s \in F : /\ ImageAt(f, Len(s)) = s /\ OnFlash(f, s, Len(s))
                        /\ ManifestAt(f) = ManifestBytes(Len(s), s)
                        /\ ManifestOnFlash(f, s, 4 + HASH_LENGTH)
<1>1. PICK len \in ManifestLengths(f) :
          \A k \in 1 .. HASH_LENGTH : ManifestAt(f)[4 + k] = <<"hash", k, ImageAt(f, len)>>
  BY DEF HashValid
<1>2. HASH_LENGTH \in Nat /\ HASH_LENGTH >= 4 /\ MANIFEST_REGION_START \in Nat
  BY ManifestFacts
<1>3. HASH_LENGTH \in 1 .. HASH_LENGTH /\ 4 + HASH_LENGTH \in 1 .. 4 + HASH_LENGTH
      /\ MANIFEST_REGION_START + (4 + HASH_LENGTH) - 1 = LastByte
      /\ ~(4 + HASH_LENGTH <= 4) /\ 4 + HASH_LENGTH - 4 = HASH_LENGTH
  BY <1>2 DEF LastByte
<1>4. ManifestAt(f)[4 + HASH_LENGTH] = <<"hash", HASH_LENGTH, ImageAt(f, len)>>
  BY <1>1, <1>3
<1>5. f[LastByte] = <<"hash", HASH_LENGTH, ImageAt(f, len)>>
  BY <1>3, <1>4, ManifestAtFacts
<1>6. PICK s \in F : ManifestOnFlash(f, s, 4 + HASH_LENGTH)
  BY <1>5 DEF Sealed
<1>7. f[MANIFEST_REGION_START + (4 + HASH_LENGTH) - 1] = ManifestBytes(Len(s), s)[4 + HASH_LENGTH]
  BY <1>3, <1>6 DEF ManifestOnFlash
<1>8. f[LastByte] = <<"hash", HASH_LENGTH, s>>
  BY <1>3, <1>7, ManifestFields
<1>9. ImageAt(f, len) = s
  <2> DEFINE i == ImageAt(f, len)
  <2> HIDE DEF i
  <2>1. <<"hash", HASH_LENGTH, i>>[3] = i /\ <<"hash", HASH_LENGTH, s>>[3] = s
    OBVIOUS
  <2>2. i = s
    BY <1>5, <1>8, <2>1 DEF i
  <2> QED BY <2>2 DEF i
<1>10. len \in 0 .. APPLICATION_LENGTH
  BY DEF ManifestLengths
<1>11. Len(ImageAt(f, len)) = len
  BY <1>10, ImageAtFacts
<1>12. Len(s) = len /\ ImageAt(f, Len(s)) = s
  BY <1>9, <1>11
<1>13. OnFlash(f, s, Len(s)) /\ ManifestAt(f) = ManifestBytes(Len(s), s)
  BY <1>6, <1>12, ImageIsOnFlash, ManifestIsOnFlash
<1> QED BY <1>6, <1>12, <1>13

\* A driver that starts something does not end a manifestation.
LEMMA NotDone ==
    ASSUME NEW drv, NEW s, NEW addr, NEW src, NEW r,
           StartErase(drv, s, r) \/ StartProgram(drv, addr, src, r)
    PROVE  r # "Done"
BY DEF StartErase, StartProgram

\* A poll ends a manifestation only when the last word was read back.
LEMMA DoneIsEntire ==
    ASSUME DriverInv, FlashInv, hstate = "Manifetation", ProgramPoll("Done")
    PROVE  /\ IsImage(sent) /\ OnFlash(flash, sent, Len(sent)) /\ sent \in finalised
           /\ ManifestOnFlash(flash, sent, 4 + HASH_LENGTH)
<1> DEFINE g == Left(program.st)
           q == SubSeq(program.rest, Written + 1, Len(program.rest))
<1>1. /\ LegalProgram(program) /\ sent \in finalised /\ IsImage(sent)
      /\ OnFlash(flash, sent, Len(sent)) /\ ManifestState(flash, memory, op, program, sent)
  BY DEF DriverInv, Busy, FlashInv, ProgramInv, ManifestState
<1>2. program.st # "AwaitData" /\ PollResult = "Ok" /\ Advance("Done")
  BY ErrorsOfHandler DEF ProgramPoll
<1>3. program.st = "AwaitProgramManifest" /\ q = <<>>
  <2>1. ~(program.st = "AwaitEraseBeforeProgram" \/ program.st = "AwaitProgram")
    BY <1>1 DEF ManifestState
  <2>2. ~EraseOrProgramManifest(MemIdle, program, "Done")
    BY NotDone DEF EraseOrProgramManifest
  <2>3. \A addr, src : ~StartProgram(MemIdle, addr, src, "Done")
    BY NotDone
  <2> QED BY <1>2, <2>1, <2>2, <2>3 DEF Advance
<1>4. ManifestSplits(flash, program, sent) /\ Writes(flash, memory, op, program)
  BY <1>1, <1>3 DEF ManifestState
<1>5. Holds(memory) /\ Len(program.rest) > 0
  <2>1. memory.tag = "Programming"
    BY <1>4, OperationFields DEF Writes
  <2>2. op = MemIdle
    BY <1>2, <2>1, OperationFields DEF PollResult
  <2> QED BY <1>1, <1>2, <1>4, <2>1, <2>2, AnswerHolds DEF Writes, LegalProgram, IsBytes
<1>6. ManifestSplits(flash, g, sent)
  <2>1. Advances(flash, program, g, Width(program))
    BY <1>1, <1>4, <1>5, WrittenAdvances
  <2> HIDE DEF g
  <2> QED BY <1>1, <1>4, <1>5, <2>1, AdvancesManifest
<1>7. Len(g.rest) = 0
  <2>1. g.rest = q
    BY DEF Left, Program
  <2> HIDE DEF g, q
  <2> QED BY <1>3, <2>1
<1> HIDE DEF g
<1>8. g.addr - MANIFEST_REGION_START = 4 + HASH_LENGTH
  <2>1. /\ g.addr >= MANIFEST_REGION_START /\ g.addr \in Nat
        /\ 0 = MANIFEST_REGION_START + 4 + HASH_LENGTH - g.addr
    <3>1. g.addr \in Nat
      <4>1. Advances(flash, program, g, Width(program))
        BY <1>1, <1>4, <1>5, WrittenAdvances DEF g
      <4> QED BY <1>1, <4>1, AdvancesLegally DEF LegalProgram
    <3> QED BY <1>6, <1>7, <3>1 DEF ManifestSplits
  <2> QED BY <2>1, ManifestFacts
<1> QED BY <1>1, <1>6, <1>8 DEF ManifestSplits

=============================================================================
