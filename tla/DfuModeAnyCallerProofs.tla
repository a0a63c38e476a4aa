------------------------ MODULE DfuModeAnyCallerProofs ------------------------
(***************************************************************************)
(* What DfuModeImplProofs shows of each step of DFUModeImpl, for every     *)
(* behaviour under any caller, and that it is a FirmwareStore: for every   *)
(* sector table, image, block length, hash length and set of faults, and   *)
(* every order of calls, faults and power cuts.                            *)
(***************************************************************************)
EXTENDS DfuModeAnyCaller, DfuModeImplProofs

\* A block is bytes of an image, and at least one.
LEMMA BlockIsData ==
    ASSUME NEW image, NEW len \in BLOCKS
    PROVE  IsData(Block(image, len)) /\ Len(Block(image, len)) > 0
<1> DEFINE b == Block(image, len)
           from == IF hstate = "Download" THEN Len(sent) ELSE 0
<1>1. len \in Nat /\ len > 0
  BY CallerAssumption
<1>2. b = [k \in 1 .. len |-> <<"data", image, from + k>>]
  BY DEF Block
<1> HIDE DEF b
<1>3. IsBytes(b) /\ Len(b) = len
  BY <1>1, <1>2, TableIsBytes
<1>4. \A k \in 1 .. len : b[k][1] = "data"
  BY <1>2
<1> QED BY <1>1, <1>3, <1>4 DEF IsData, b

\* Every step under any caller is one that keeps both invariants.
LEMMA CallsAreSteps == [Next]_vars => HandlerStep
<1>1. ASSUME NEW image \in IMAGES, NEW len \in BLOCKS, NEW r \in PollAnswers,
             Download(Block(image, len), r)
      PROVE  HandlerStep
  <2> DEFINE b == Block(image, len)
  <2>1. IsData(b) /\ Len(b) > 0
    BY BlockIsData
  <2>2. Download(b, r)
    BY <1>1
  <2> HIDE DEF b
  <2> QED BY <2>1, <2>2 DEF HandlerStep
<1>2. ASSUME NEW r, NEW n, Upload(BUFFER, r, n) PROVE HandlerStep
  BY <1>2, CallerAssumption DEF HandlerStep
<1>3. CallManifestation \/ CallPoll => HandlerStep
  BY DEF CallManifestation, CallPoll, HandlerStep
<1>4. Controller \/ Reset \/ UNCHANGED vars => HandlerStep
  BY DEF Controller, Reset, vars, ControllerStep, HandlerStep
<1> QED BY <1>1, <1>2, <1>3, <1>4 DEF Next, CallDownload, CallUpload

LEMMA InvariantsInit == Init => DriverInv /\ FlashInv
<1>1. \A image \in {FactoryImage} : IsImage(image)
  BY FactoryIsImage
<1> QED BY <1>1, DriverInvInit, FlashInvInit DEF Init

-----------------------------------------------------------------------------
\* The two invariants.

\* The invariant of the driver holds in every reachable state, for every
\* sector table, hash length, set of images and faults, and order of calls.
THEOREM DriverCorrect == Spec => []DriverInv
BY InvariantsInit, CallsAreSteps, DriverInvStep, PTL DEF Spec

\* The driver never starts an operation while the controller is busy, though
\* neither Memory::erase nor Memory::program looks at BSY.
THEOREM OperationsDoNotOverlap == Spec => NoOverlap
<1>1. DriverInv /\ [Next]_vars => [op # MemIdle => op' \in {op, MemIdle}]_vars
  BY DriverInvStep, CallsAreSteps DEF LeftAlone
<1> QED BY <1>1, DriverCorrect, PTL DEF Spec, NoOverlap

\* The flash holds what the handler and its history say, in every reachable
\* state, for every sector table, hash length, block length, set of images and
\* faults, and for every order of calls, faults and power cuts.
THEOREM FlashCorrect == Spec => []FlashInv
BY InvariantsInit, CallsAreSteps, FlashInvStep, DriverCorrect, PTL DEF Spec

-----------------------------------------------------------------------------
\* The flags of the controller.

\* A flag stands only as long as nobody goes on: the operation it is about has
\* not been polled, or its outcome has put an end to everything.
FlagsInv == sr # {} => memory # MemIdle \/ hstate \in {"Error", "Panicked"}

\* A Program asked to go on while a flag stands starts nothing.
LEMMA FlagsStopPoll ==
    ASSUME DriverInv, FlashInv, FlagsInv, Busy, sr # {}, NEW r, ProgramPoll(r)
    PROVE  op' = op /\ (memory' = memory \/ r \in Error)
<1>1. memory # MemIdle /\ program.st # "AwaitData" /\ sr \subseteq {"WRPERR", "OPERR"}
  BY DEF DriverInv, FlashInv, FlagsInv, Busy
<1>2. PollResult # "Ok"
  BY <1>1 DEF PollResult
<1> QED BY <1>1, <1>2 DEF ProgramPoll, Quiet

\* So does every other method, which leaves the flags as they are.
LEMMA FlagsStep ==
    DriverInv /\ FlashInv /\ FlagsInv /\ HandlerStep =>
        FlagsInv' /\ (sr # {} => op' \in {op, MemIdle})
<1> SUFFICES ASSUME DriverInv, FlashInv, FlagsInv, HandlerStep
             PROVE  FlagsInv' /\ (sr # {} => op' \in {op, MemIdle})
  OBVIOUS
<1>0. /\ hstate \in {"Idle", "Upload"} => memory = MemIdle
      /\ hstate = "Download" /\ program.st = "AwaitData" => memory = MemIdle
  BY DEF DriverInv, Busy
<1>1. CASE UNCHANGED memVars /\ hstate' \in {hstate, "Error"}
  BY <1>1 DEF FlagsInv, memVars
<1>2. ASSUME Busy, NEW r \in PollAnswers, ProgramPoll(r), hstate' = Owner(r), sr' = sr
      PROVE  FlagsInv' /\ (sr # {} => op' \in {op, MemIdle})
  <2>1. CASE sr = {}
    BY <1>2, <2>1 DEF FlagsInv
  <2>2. CASE sr # {}
    <3>1. op' = op /\ (memory' = memory \/ r \in Error)
      BY <1>2, <2>2, FlagsStopPoll
    <3>2. CASE r \in Error
      <4>1. hstate' = "Error"
        BY <1>2, <3>2 DEF Owner, Error
      <4> QED BY <3>1, <4>1 DEF FlagsInv
    <3>3. CASE memory' = memory
      <4>1. memory # MemIdle
        BY <1>2, <2>2 DEF FlagsInv, Busy
      <4> QED BY <3>1, <3>3, <4>1 DEF FlagsInv
    <3> QED BY <3>1, <3>2, <3>3
  <2> QED BY <2>1, <2>2
<1>3. ASSUME NEW buf, NEW r, Download(buf, r)
      PROVE  FlagsInv' /\ (sr # {} => op' \in {op, MemIdle})
  <2>1. CASE ProgramNew(buf, r)
    <3>1. sr = {} /\ sr' = sr
      BY <1>0, <2>1 DEF ProgramNew, FlagsInv
    <3> QED BY <3>1 DEF FlagsInv
  <2>2. CASE ProgramUpdate(buf, r) /\ program.st = "AwaitData"
    <3>1. sr = {} /\ sr' = sr
      BY <1>0, <2>2 DEF ProgramUpdate, FlagsInv
    <3> QED BY <3>1 DEF FlagsInv
  <2>3. CASE ProgramUpdate(buf, r) /\ program.st # "AwaitData"
    <3>1. UNCHANGED memVars /\ hstate' = "Error"
      BY <2>3 DEF ProgramUpdate, Quiet, memVars, Owner, Error
    <3> QED BY <1>1, <3>1
  <2>4. CASE UNCHANGED memVars /\ hstate' = "Error"
    BY <1>1, <2>4
  <2> QED BY <1>3, <2>1, <2>2, <2>3, <2>4 DEF Download
<1>4. ASSUME NEW a, IsManifestationInProgress(a)
      PROVE  FlagsInv' /\ (sr # {} => op' \in {op, MemIdle})
  <2>1. CASE Finalize(a) /\ program.st = "AwaitData"
    <3>1. sr = {} /\ sr' = sr
      BY <1>0, <2>1 DEF Finalize, FlagsInv
    <3> QED BY <3>1 DEF FlagsInv
  <2>2. CASE Finalize(a) /\ program.st # "AwaitData"
    <3>1. UNCHANGED memVars /\ hstate' = "Error"
      BY <2>2 DEF Finalize, Quiet, memVars
    <3> QED BY <1>1, <3>1
  <2>3. CASE /\ hstate = "Manifetation" /\ sr' = sr
             /\ \E r \in PollAnswers : ProgramPoll(r) /\ hstate' = Owner(r)
    BY <1>2, <2>3 DEF Busy
  <2>4. CASE UNCHANGED handlerVars
    BY <1>1, <2>4 DEF handlerVars, memVars
  <2>5. CASE hstate' = "Error" /\ UNCHANGED memVars
    BY <1>1, <2>5
  <2> QED BY <1>4, <2>1, <2>2, <2>3, <2>4, <2>5 DEF IsManifestationInProgress
<1>5. ASSUME NEW r, HandlerPoll(r)
      PROVE  FlagsInv' /\ (sr # {} => op' \in {op, MemIdle})
  <2>1. CASE Busy /\ sr' = sr /\ \E q \in PollAnswers : ProgramPoll(q) /\ hstate' = Owner(q)
    BY <1>2, <2>1
  <2>2. CASE UNCHANGED handlerVars
    BY <1>1, <2>2 DEF handlerVars, memVars
  <2> QED BY <1>5, <2>1, <2>2 DEF HandlerPoll, Busy
<1>6. ASSUME NEW size, NEW r, NEW n, Upload(size, r, n)
      PROVE  FlagsInv' /\ (sr # {} => op' \in {op, MemIdle})
  <2>1. CASE hstate \in {"Idle", "Upload"} /\ UNCHANGED memVars
    <3>1. sr = {} /\ sr' = sr
      BY <1>0, <2>1 DEF memVars, FlagsInv
    <3> QED BY <3>1 DEF FlagsInv
  <2>2. CASE UNCHANGED handlerVars
    BY <1>1, <2>2 DEF handlerVars, memVars
  <2> QED BY <1>6, <2>1, <2>2 DEF Upload
<1>7. CASE ControllerStep
  <2>1. op # MemIdle /\ op' = MemIdle /\ memory' = memory /\ hstate' = hstate
    BY <1>7 DEF ControllerStep, ControllerDone
  <2>2. memory' # MemIdle \/ hstate' = "Panicked"
    BY <2>1 DEF DriverInv
  <2> QED BY <2>1, <2>2 DEF FlagsInv
<1>8. CASE HandlerReset
  BY <1>8 DEF HandlerReset, MemReset, FlagsInv
<1>9. CASE UNCHANGED handlerVars
  BY <1>1, <1>9 DEF handlerVars, memVars
<1> QED BY <1>3, <1>4, <1>5, <1>6, <1>7, <1>8, <1>9 DEF HandlerStep

\* The driver never clears the flags of the controller, and no operation is
\* ever started that an earlier one's flags would make fail: for every sector
\* table, set of faults and order of calls.
THEOREM FlagsAreNeverStale == Spec => NoStaleFlags
<1>1. Init => FlagsInv
  BY DEF Init, HandlerInit, FlagsInv
<1>2. DriverInv /\ FlashInv /\ FlagsInv /\ [Next]_vars =>
          FlagsInv' /\ [sr # {} => op' \in {op, MemIdle}]_vars
  BY FlagsStep, CallsAreSteps
<1> QED BY <1>1, <1>2, DriverCorrect, FlashCorrect, PTL DEF Spec, NoStaleFlags

-----------------------------------------------------------------------------
\* What follows of single states and steps.

\* No call, fault or power cut changes a cell below the application: the
\* bootloader survives whatever happens during an update.
THEOREM BootloaderSurvives == Spec => BootloaderUntouched
<1>1. DriverInv /\ [Next]_vars =>
          [\A a \in Address : a < APPLICATION_REGION_START => flash'[a] = flash[a]]_vars
  BY FlashStep, CallsAreSteps
<1> QED BY <1>1, DriverCorrect, PTL DEF Spec, BootloaderUntouched

\* An operation that is legal and well aimed stays in what may be written.
LEMMA LegalIsPermitted ==
    ASSUME NEW o, NEW F, LegalOp(o), WellAimed(flash, o, F)
    PROVE  Permitted(o)
<1>1. CASE o.tag = "Erasing"
  <2>1. o.sector \in Sector /\ APPLICATION_REGION_START <= SectorBase[o.sector]
    BY <1>1 DEF LegalOp, InApplication
  <2> QED BY <1>1, <2>1 DEF Permitted
<1>2. CASE o.tag = "Programming"
  <2>1. /\ o.addr \in Nat /\ APPLICATION_REGION_START <= o.addr /\ Len(o.src) \in Nat
        /\ \/ o.addr + Len(o.src) <= MANIFEST_REGION_START
           \/ Len(o.src) = 4 /\ o.addr + 4 <= MANIFEST_REGION_START + 4 + HASH_LENGTH
    BY <1>2 DEF LegalOp, WellAimed, Seals, IsBytes
  <2> DEFINE n == Len(o.src)
  <2>2. MANIFEST_REGION_START \in Nat /\ HASH_LENGTH \in Nat
    BY ManifestFacts
  <2>3. n \in Nat /\ (n = 4 => o.addr + n = o.addr + 4)
    BY <2>1
  <2>4. o.addr + n <= MANIFEST_REGION_START + 4 + HASH_LENGTH
    <3> HIDE DEF n
    <3> QED BY <2>1, <2>2, <2>3 DEF n
  <2> QED BY <1>2, <2>1, <2>4 DEF Permitted
<1>3. CASE o.tag = "Idle"
  BY <1>3 DEF LegalOp, Permitted
<1> QED BY <1>1, <1>2, <1>3 DEF LegalOp

\* What the controller does is permitted and known to the driver, and the
\* Program of the handler points into what it writes.
THEOREM TypesAreCorrect == Spec => []TypeOK
<1>1. ASSUME DriverInv, FlashInv PROVE TypeOK
  <2>1. /\ memory.tag \in {"Idle", "Erasing", "Programming"}
        /\ op # MemIdle => memory = op \/ hstate = "Panicked"
        /\ hstate \in {"Idle", "Download", "Manifetation", "Upload", "Error", "Panicked"}
    BY <1>1 DEF DriverInv, LegalOp, HandlerState
  <2>2. /\ DOMAIN flash = Address /\ \A a \in Address : flash[a][1] \in ByteTag
        /\ sr \subseteq {"WRPERR", "OPERR"} /\ keyRefused \in BOOLEAN
        /\ hstate = "Upload" <=> slice # NoSlice
    BY <1>1 DEF FlashInv, CellsInv, Fits, SliceInv
  <2>3. \A i \in DOMAIN sent : sent[i][1] = "data"
    <3>1. IsBytes(sent) /\ \A i \in 1 .. Len(sent) : sent[i][1] = "data"
      BY <1>1 DEF FlashInv, ProgramInv, IsData
    <3>2. DOMAIN sent = 1 .. Len(sent)
      BY <3>1 DEF IsBytes
    <3> QED BY <3>1, <3>2
  <2>4. program.st \in ProgramState /\ (Busy <=> program # NoProgram)
    <3>1. NoProgram.st = "None"
      BY DEF NoProgram, Program
    <3>2. CASE hstate = "Download"
      <4>1. program.st \in {"AwaitData", "AwaitEraseBeforeProgram", "AwaitProgram"}
        BY <1>1, <3>2 DEF FlashInv, ProgramInv, DownloadState
      <4> QED BY <3>1, <3>2, <4>1 DEF ProgramState, Busy
    <3>3. CASE hstate = "Manifetation"
      <4>1. program.st \in {"AwaitErase", "AwaitProgramManifest"}
        BY <1>1, <3>3 DEF FlashInv, ProgramInv, ManifestState
      <4> QED BY <3>1, <3>3, <4>1 DEF ProgramState, Busy
    <3>4. CASE hstate \notin {"Download", "Manifetation"}
      <4>1. program = NoProgram
        BY <1>1, <3>4 DEF FlashInv, ProgramInv
      <4> QED BY <3>1, <3>4, <4>1 DEF ProgramState, Busy
    <3> QED BY <3>2, <3>3, <3>4
  <2>5. Permitted(op)
    BY <1>1, LegalIsPermitted DEF DriverInv, FlashInv, CellsInv
  <2>6. ASSUME hstate = "Download"
        PROVE  program.addr \in APPLICATION_REGION_START .. MANIFEST_REGION_START
    <3>1. Placed(program) /\ LegalProgram(program)
      BY <1>1, <2>6 DEF DriverInv, Busy, FlashInv, ProgramInv, DownloadState
    <3> QED BY <3>1, RegionFacts DEF Placed, LegalProgram
  <2>7. ASSUME hstate = "Manifetation"
        PROVE  program.addr \in
                   APPLICATION_REGION_START .. MANIFEST_REGION_START + 4 + HASH_LENGTH
    <3>1. LegalProgram(program) /\ ManifestState(flash, memory, op, program, sent)
      BY <1>1, <2>7 DEF DriverInv, Busy, FlashInv, ProgramInv
    <3>2. program.addr \in Nat /\ APPLICATION_REGION_START <= program.addr
          /\ Len(program.rest) \in Nat
      BY <3>1 DEF LegalProgram, IsBytes
    <3>3. program.addr <= MANIFEST_REGION_START + 4 + HASH_LENGTH
      <4>1. CASE program.addr = APPLICATION_REGION_START + Len(sent)
        <5>1. Len(sent) \in Nat /\ Len(sent) <= APPLICATION_LENGTH
          BY <3>1, ApplicationFacts DEF ManifestState, IsImage
        <5> QED BY <4>1, <5>1, ManifestFacts, ApplicationFacts
      <4>2. CASE Len(program.rest) = MANIFEST_REGION_START + 4 + HASH_LENGTH - program.addr
        BY <3>2, <4>2, ManifestFacts
      <4> QED BY <3>1, <4>1, <4>2 DEF ManifestState, ManifestSplits
    <3> QED BY <3>2, <3>3, RegionFacts, ManifestFacts
  <2> QED BY <2>1, <2>2, <2>3, <2>4, <2>5, <2>6, <2>7 DEF TypeOK
<1> QED BY <1>1, DriverCorrect, FlashCorrect, PTL

\* A Program never polls an idle driver, nor one that does something else; and
\* poll's assert!(wr_ptr <= data_len) and unreachable!() cannot be reached.
THEOREM WrittenIsAlwaysOwed == Spec => []WrittenIsOwed
<1>1. ASSUME DriverInv, FlashInv, Busy,
             program.st \notin {"AwaitData", "AwaitEraseBeforeProgram", "AwaitErase"}
      PROVE  memory.tag = "Programming"
  <2>1. Writes(flash, memory, op, program)
    BY <1>1 DEF FlashInv, ProgramInv, DownloadState, ManifestState, Busy
  <2> QED BY <2>1, OperationFields DEF Writes
<1>2. ASSUME DriverInv, FlashInv, Busy,
             program.st \in {"AwaitEraseBeforeProgram", "AwaitErase"}
      PROVE  memory = Erasing(program.current_sector)
  BY <1>2 DEF FlashInv, ProgramInv, DownloadState, ManifestState, Busy
<1>3. ASSUME DriverInv, FlashInv PROVE WrittenIsOwed
  <2>1. CASE ~Busy
    BY <2>1 DEF WrittenIsOwed
  <2>2. CASE Busy /\ program.st = "AwaitData"
    BY <1>3, <2>2 DEF DriverInv, Busy, WrittenIsOwed
  <2>3. CASE Busy /\ program.st \in {"AwaitEraseBeforeProgram", "AwaitErase"}
    BY <1>2, <1>3, <2>3 DEF WrittenIsOwed
  <2>4. CASE Busy /\ program.st \notin {"AwaitData", "AwaitEraseBeforeProgram", "AwaitErase"}
    <3>1. memory.tag = "Programming" /\ Owed
      BY <1>1, <1>3, <2>4 DEF DriverInv
    <3> QED BY <2>4, <3>1 DEF WrittenIsOwed, Owed
  <2> QED BY <2>1, <2>2, <2>3, <2>4
<1> QED BY <1>3, DriverCorrect, FlashCorrect, PTL

\* No byte of the host is in the manifest area and none of a manifest in that
\* of the application.
THEOREM AreasStayApart == Spec => []AreasApart
<1>1. ASSUME FlashInv PROVE AreasApart
  <2>1. \A a \in Address : Fits(a, flash[a]) /\ a \in Int
    BY <1>1, RegionFacts, ManifestFacts DEF FlashInv, CellsInv, Address
  <2> QED BY <2>1, RegionFacts DEF AreasApart, Fits
<1> QED BY <1>1, FlashCorrect, PTL

\* No byte accepted is lost, doubled or out of place, however it is split into
\* writes and whatever fails.
THEOREM ImageIsFaithful == Spec => []ImageFaithful
<1>1. ASSUME DriverInv, FlashInv PROVE ImageFaithful
  <2>1. ASSUME hstate = "Download"
        PROVE  ImageAt(flash, program.addr - APPLICATION_REGION_START) \o program.rest = sent
    <3> DEFINE d == program.addr - APPLICATION_REGION_START
               i == ImageAt(flash, d)
               q == program.rest
               t == i \o q
    <3>1. /\ Splits(flash, program, sent) /\ Placed(program) /\ LegalProgram(program)
      BY <1>1, <2>1 DEF DriverInv, Busy, FlashInv, ProgramInv, DownloadState
    <3>2. d \in 0 .. APPLICATION_LENGTH
      BY <3>1, RegionFacts DEF LegalProgram, Placed, APPLICATION_LENGTH
    <3>3. /\ Len(sent) = d + Len(q) /\ OnFlash(flash, sent, d)
          /\ \A j \in 1 .. Len(q) : q[j] = sent[d + j]
      BY <3>1 DEF Splits
    <3>4. IsBytes(q) /\ IsBytes(sent)
      BY <3>1 DEF LegalProgram, Splits, IsData
    <3> HIDE DEF d, q
    <3>5. /\ IsBytes(i) /\ Len(i) = d
          /\ \A k \in 1 .. d : i[k] = flash[APPLICATION_REGION_START + k - 1]
      BY <3>2, ImageAtFacts
    <3>6. IsBytes(i)
      BY <3>5
    <3> HIDE DEF i
    <3>7. /\ IsBytes(t) /\ Len(t) = Len(i) + Len(q)
          /\ \A k \in 1 .. Len(i) : t[k] = i[k]
          /\ \A j \in 1 .. Len(q) : t[Len(i) + j] = q[j]
      BY <3>4, <3>6, JoinBytes
    <3> HIDE DEF t
    <3>8. Len(q) \in Nat /\ d \in Nat
      BY <3>2, <3>4, ApplicationFacts DEF IsBytes
    <3>9. ASSUME NEW k \in 1 .. Len(t) PROVE t[k] = sent[k]
      <4>1. CASE k <= d
        <5>1. k \in 1 .. d
          BY <3>8, <4>1
        <5> QED BY <3>3, <3>5, <3>7, <5>1 DEF OnFlash
      <4>2. CASE ~(k <= d)
        <5>1. k - d \in 1 .. Len(q) /\ d + (k - d) = k
          BY <3>5, <3>7, <3>8, <4>2
        <5>2. t[d + (k - d)] = q[k - d] /\ q[k - d] = sent[d + (k - d)]
          BY <3>3, <3>5, <3>7, <5>1
        <5> QED BY <5>1, <5>2
      <4> QED BY <4>1, <4>2
    <3>10. IsBytes(t) /\ Len(t) = Len(sent)
      BY <3>3, <3>5, <3>7
    <3>11. t = sent
      BY <3>4, <3>9, <3>10, SameBytes
    <3> QED BY <3>11 DEF t, i, q, d
  <2>2. ASSUME hstate = "Manifetation" PROVE ImageAt(flash, Len(sent)) = sent
    BY <1>1, <2>2, ImageIsOnFlash DEF FlashInv, ProgramInv, ManifestState
  <2> QED BY <2>1, <2>2 DEF ImageFaithful
<1> QED BY <1>1, DriverCorrect, FlashCorrect, PTL

\* A hash that is right is that of an image the host finished, which is there
\* entire: nothing else would be started after any crash.
THEOREM OnlyFinalisedBoots == Spec => []BootOnlyFinalised
<1>1. ASSUME FlashInv PROVE BootOnlyFinalised
  <2>1. Sealed(flash, finalised) /\ \A image \in finalised : IsImage(image)
    BY <1>1 DEF FlashInv, CellsInv
  <2> QED BY <2>1, ValidIsEntire DEF BootOnlyFinalised
<1> QED BY <1>1, FlashCorrect, PTL

\* A manifestation ends well, which the host takes for success, only with an
\* image that will start.
THEOREM ManifestIsEarned == Spec => ManifestEarned
<1>1. ASSUME DriverInv, FlashInv, hstate = "Manifetation", ProgramPoll("Done")
      PROVE  HashValid(flash) /\ ImageAt(flash, Len(sent)) = sent /\ sent \in finalised
  <2>1. /\ IsImage(sent) /\ OnFlash(flash, sent, Len(sent)) /\ sent \in finalised
        /\ ManifestOnFlash(flash, sent, 4 + HASH_LENGTH)
    BY <1>1, DoneIsEntire
  <2> QED BY <2>1, EntireIsValid, ImageIsOnFlash
<1> QED BY <1>1, DriverCorrect, FlashCorrect, PTL DEF ManifestEarned
-----------------------------------------------------------------------------
\* The store.

\* Label and Startable, of any content of the flash.
LabelOf(f) ==
    LET first == ManifestAt(f)[5]
    IN  IF first[1] = "hash" /\ ManifestAt(f) = ManifestBytes(Len(first[3]), first[3])
        THEN first[3] ELSE NoImage

StartableOf(f) == IF ~HashValid(f) THEN NoImage
                  ELSE IF LabelOf(f) = NoImage THEN <<"unknown">> ELSE LabelOf(f)

LEMMA LabelsOfFlash ==
    /\ Label = LabelOf(flash) /\ Startable = StartableOf(flash)
    /\ Label' = LabelOf(flash') /\ Startable' = StartableOf(flash')
BY DEF Label, LabelOf, Startable, StartableOf

\* An entire manifest names its image.
LEMMA EntireIsLabel ==
    ASSUME NEW f, NEW s, ManifestOnFlash(f, s, 4 + HASH_LENGTH)
    PROVE  LabelOf(f) = s
<1> DEFINE m == ManifestAt(f)
<1>1. m = ManifestBytes(Len(s), s)
  BY ManifestIsOnFlash
<1>2. 1 \in 1 .. HASH_LENGTH /\ 4 + 1 = 5
  BY ManifestFacts
<1>3. ManifestBytes(Len(s), s)[4 + 1] = <<"hash", 1, s>>
  BY <1>2, ManifestFields
<1>4. m[5] = <<"hash", 1, s>>
  BY <1>1, <1>2, <1>3
<1>5. m[5][1] = "hash" /\ m[5][3] = s
  <2> HIDE DEF m
  <2> QED BY <1>4
<1> HIDE DEF m
<1> QED BY <1>1, <1>5 DEF LabelOf, m

LEMMA LabelIsEntire ==
    ASSUME NEW f, LabelOf(f) # NoImage
    PROVE  ManifestOnFlash(f, LabelOf(f), 4 + HASH_LENGTH)
<1>1. ManifestAt(f) = ManifestBytes(Len(LabelOf(f)), LabelOf(f))
  BY DEF LabelOf
<1> QED BY <1>1, ManifestIsOnFlash

LEMMA ImageIsSome ==
    ASSUME NEW s, IsImage(s)
    PROVE  s # NoImage
BY NoBytes, ApplicationFacts DEF IsImage, IsData, NoImage

\* The last byte of an entire manifest.
LEMMA EntireEnds ==
    ASSUME NEW f, NEW s, ManifestOnFlash(f, s, 4 + HASH_LENGTH)
    PROVE  f[LastByte] = <<"hash", HASH_LENGTH, s>>
<1>1. HASH_LENGTH \in Nat /\ HASH_LENGTH >= 4 /\ MANIFEST_REGION_START \in Nat
  BY ManifestFacts
<1> DEFINE k == 4 + HASH_LENGTH
<1>2. /\ k \in 1 .. 4 + HASH_LENGTH /\ MANIFEST_REGION_START + k - 1 = LastByte
      /\ HASH_LENGTH \in 1 .. HASH_LENGTH
  BY <1>1 DEF LastByte
<1>3. ManifestBytes(Len(s), s)[k] = <<"hash", HASH_LENGTH, s>>
  BY <1>2, ManifestFields
<1> HIDE DEF k
<1>4. f[MANIFEST_REGION_START + k - 1] = ManifestBytes(Len(s), s)[k]
  BY <1>2 DEF ManifestOnFlash
<1> QED BY <1>2, <1>3, <1>4

\* What is on record was finished, and what would start is what is on record.
LEMMA LabelFacts ==
    ASSUME NEW f, NEW o, NEW F, CellsInv(f, o, F)
    PROVE  /\ LabelOf(f) = NoImage \/ LabelOf(f) \in F
           /\ StartableOf(f) = LabelOf(f) \/ StartableOf(f) = NoImage
           /\ \A s \in F : /\ s # NoImage
                           /\ LabelOf(f) = s <=> ManifestOnFlash(f, s, 4 + HASH_LENGTH)
<1>1. Sealed(f, F) /\ \A s \in F : IsImage(s)
  BY DEF CellsInv
<1>2. \A s \in F : s # NoImage
  BY <1>1, ImageIsSome
<1>3. ASSUME LabelOf(f) # NoImage PROVE LabelOf(f) \in F
  <2>1. f[LastByte] = <<"hash", HASH_LENGTH, LabelOf(f)>>
    BY <1>3, LabelIsEntire, EntireEnds
  <2>2. f[LastByte][1] = "hash"
    BY <2>1
  <2>3. PICK s \in F : ManifestOnFlash(f, s, 4 + HASH_LENGTH)
    BY <1>1, <2>2 DEF Sealed
  <2> QED BY <2>3, EntireIsLabel
<1>4. ASSUME HashValid(f) PROVE LabelOf(f) # NoImage
  <2>1. PICK s \in F : ManifestOnFlash(f, s, 4 + HASH_LENGTH)
    BY <1>1, <1>4, ValidIsEntire
  <2> QED BY <1>2, <2>1, EntireIsLabel
<1>5. StartableOf(f) = LabelOf(f) \/ StartableOf(f) = NoImage
  BY <1>4 DEF StartableOf
<1>6. ASSUME NEW s \in F, LabelOf(f) = s PROVE ManifestOnFlash(f, s, 4 + HASH_LENGTH)
  BY <1>2, <1>6, LabelIsEntire
<1> QED BY <1>2, <1>3, <1>5, <1>6, EntireIsLabel

\* An image that is there with its manifest would be started.
LEMMA EntireStarts ==
    ASSUME NEW f, NEW s, IsImage(s), OnFlash(f, s, Len(s)),
           ManifestOnFlash(f, s, 4 + HASH_LENGTH)
    PROVE  LabelOf(f) = s /\ StartableOf(f) = s
BY EntireIsLabel, EntireIsValid, ImageIsSome DEF StartableOf

-----------------------------------------------------------------------------
\* The steps of the store.

\* The controller finishes or is cut short.
LEMMA WorkedRefines ==
    ASSUME DriverInv, FlashInv, Worked(flash', op), finalised' = finalised
    PROVE  Store!Damage \/ Store!Withdraw \/ Store!Install
<1> DEFINE f == flash'
           F == finalised
           x == LabelOf(flash)
           y == LabelOf(f)
<1>1. CellsInv(flash, op, F) /\ LegalOp(op) /\ \A s \in F : IsImage(s)
  BY DEF DriverInv, FlashInv, CellsInv
<1>2. CellsInv(f, MemIdle, F)
  BY <1>1, WorkedKeepsCells
<1>3. /\ Label = x /\ Label' = y
      /\ Startable = StartableOf(flash) /\ Startable' = StartableOf(f)
  BY LabelsOfFlash
<1> HIDE DEF f, x, y, F
<1>4. /\ y = NoImage \/ y \in F
      /\ StartableOf(f) = y \/ StartableOf(f) = NoImage
  BY <1>2, LabelFacts DEF y
<1>5. CASE y = x
  <2>1. Startable' \in {Label, NoImage} /\ Label' = Label /\ finalised' = finalised
    BY <1>3, <1>4, <1>5
  <2> QED BY <2>1 DEF Store!Damage
<1>6. CASE y = NoImage
  <2>1. Startable' = NoImage /\ Label' = NoImage /\ finalised' = finalised
    BY <1>3, <1>4, <1>6
  <2> QED BY <2>1 DEF Store!Withdraw
<1>7. CASE y # x /\ y # NoImage
  <2>1. y \in F /\ ManifestOnFlash(f, y, 4 + HASH_LENGTH)
    BY <1>4, <1>7, LabelIsEntire DEF y
  <2>2. f[LastByte][1] = "hash"
    <3>1. f[LastByte] = <<"hash", HASH_LENGTH, y>>
      BY <2>1, EntireEnds
    <3> QED BY <3>1
  <2>3. PICK s \in F : /\ ManifestOnFlash(f, s, 4 + HASH_LENGTH)
                       /\ \/ ManifestOnFlash(flash, s, 4 + HASH_LENGTH)
                          \/ flash[LastByte] = Erased /\ OnFlash(f, s, Len(s))
    BY <1>1, <2>2, WorkedManifest DEF f
  <2>4. y = s
    BY <2>3, EntireIsLabel DEF y
  <2>5. ~ManifestOnFlash(flash, s, 4 + HASH_LENGTH)
    BY <1>7, <2>4, EntireIsLabel DEF x
  <2>6. StartableOf(f) = s
    BY <1>1, <2>3, <2>5, EntireStarts
  <2>7. x = NoImage
    <3> SUFFICES ASSUME x # NoImage PROVE FALSE
      OBVIOUS
    <3>1. flash[LastByte] = <<"hash", HASH_LENGTH, x>>
      BY LabelIsEntire, EntireEnds DEF x
    <3>2. flash[LastByte] = Erased
      BY <2>3, <2>5
    <3>3. flash[LastByte][1] = "hash" /\ flash[LastByte][1] = "erased"
      BY <3>1, <3>2 DEF Erased
    <3> QED BY <3>3
  <2>8. Label = NoImage /\ Label' = s /\ Startable' = s /\ s \in finalised
    BY <1>3, <2>3, <2>4, <2>6, <2>7 DEF F
  <2> QED BY <2>8 DEF Store!Install
<1> QED BY <1>5, <1>6, <1>7

\* Program::finalize offers its image.
LEMMA FinalizeRefines ==
    ASSUME FlashInv, flash' = flash,
           finalised' = {sent} \cup
               {image \in finalised : ManifestAt(flash) = ManifestBytes(Len(image), image)}
    PROVE  Store!Offer
<1> DEFINE K == {image \in finalised : ManifestAt(flash) = ManifestBytes(Len(image), image)}
<1>1. Label' = Label /\ Startable' = Startable /\ Label = LabelOf(flash)
  BY LabelsOfFlash
<1>2. \A s \in finalised : Label = s <=> ManifestAt(flash) = ManifestBytes(Len(s), s)
  BY <1>1, LabelFacts, ManifestIsOnFlash DEF FlashInv
<1>3. K = finalised \cap {Label}
  BY <1>2
<1> HIDE DEF K
<1>4. finalised' = {sent} \cup K
  BY DEF K
<1>5. sent \in finalised' /\ finalised' = {sent} \cup (finalised \cap {Label})
  BY <1>3, <1>4
<1> QED BY <1>1, <1>5 DEF Store!Offer

LEMMA FlashUnchangedRefines ==
    ASSUME UNCHANGED <<flash, finalised>>
    PROVE  UNCHANGED Store!vars
BY LabelsOfFlash DEF Store!vars

LEMMA InitRefines == Init => Store!Init
<1> SUFFICES ASSUME Init PROVE Store!Init
  OBVIOUS
<1>1. Label = LabelOf(flash) /\ Startable = StartableOf(flash)
  BY LabelsOfFlash
<1>2. CASE flash = Blank /\ finalised = {}
  <2>1. LabelOf(flash) = NoImage /\ StartableOf(flash) = NoImage
    BY <1>2, BlankCells, LabelFacts
  <2> QED BY <1>1, <1>2, <2>1 DEF Store!Init
<1>3. CASE flash = Installed(FactoryImage) /\ finalised = {FactoryImage}
  <2>1. LabelOf(flash) = FactoryImage /\ StartableOf(flash) = FactoryImage
    BY <1>3, FactoryIsImage, InstalledCells, EntireStarts
  <2>2. FactoryImage # NoImage
    BY FactoryIsImage, ImageIsSome
  <2> QED BY <1>1, <1>3, <2>1, <2>2 DEF Store!Init
<1> QED BY <1>2, <1>3 DEF Init, HandlerInit

LEMMA StepRefines == DriverInv /\ FlashInv /\ [Next]_vars => [Store!Next]_(Store!vars)
<1> SUFFICES ASSUME DriverInv, FlashInv, [Next]_vars
             PROVE  Store!Next \/ UNCHANGED Store!vars
  OBVIOUS
<1>1. CASE UNCHANGED <<flash, finalised>>
  BY <1>1, FlashUnchangedRefines
<1>2. CASE Worked(flash', op) /\ finalised' = finalised
  BY <1>2, WorkedRefines DEF Store!Next
<1>3. CASE /\ flash' = flash
           /\ finalised' = {sent} \cup
                {image \in finalised : ManifestAt(flash) = ManifestBytes(Len(image), image)}
  BY <1>3, FinalizeRefines DEF Store!Next
<1>4. ASSUME CallDownload PROVE UNCHANGED <<flash, finalised>>
  BY <1>4 DEF CallDownload, Download, ProgramNew, ProgramUpdate, memVars
<1>5. ASSUME NEW a, IsManifestationInProgress(a), ~Finalize(a)
      PROVE  UNCHANGED <<flash, finalised>>
  BY <1>5 DEF IsManifestationInProgress, memVars, handlerVars
<1>6. ASSUME NEW a, Finalize(a)
      PROVE  /\ flash' = flash
             /\ \/ finalised' = finalised
                \/ finalised' = {sent} \cup
                     {image \in finalised : ManifestAt(flash) = ManifestBytes(Len(image), image)}
  BY <1>6 DEF Finalize
<1>7. ASSUME CallPoll \/ CallUpload PROVE UNCHANGED <<flash, finalised>>
  BY <1>7 DEF CallPoll, HandlerPoll, CallUpload, Upload, memVars, handlerVars
<1>8. ASSUME Controller \/ Reset PROVE Worked(flash', op) /\ finalised' = finalised
  BY <1>8 DEF Controller, ControllerDone, Reset, HandlerReset, MemReset, Worked
<1>9. ASSUME UNCHANGED vars PROVE UNCHANGED <<flash, finalised>>
  BY <1>9 DEF vars, handlerVars, memVars
<1> QED BY <1>1, <1>2, <1>3, <1>4, <1>5, <1>6, <1>7, <1>8, <1>9 DEF Next, CallManifestation

\* The handler, its driver and the flash are a FirmwareStore: the firmware
\* changes only to an image that was finished, through a state with none on
\* record, whatever is called, fails or is cut short.
THEOREM StoreIsImplemented == Spec => ImplementsStore
BY InitRefines, StepRefines, DriverCorrect, FlashCorrect, PTL
   DEF Spec, ImplementsStore, Store!Spec
=============================================================================
