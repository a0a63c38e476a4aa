----------------------------- MODULE DfuModeImpl -----------------------------
(***************************************************************************)
(* The handler of the board, DFUModeImpl and its Program                   *)
(* (src/nucleo_f401re/dfu/mode.rs), on top of FlashMemory.  Each method of *)
(* the trait is an operator; a method that changes state takes its result  *)
(* as a parameter:                                                         *)
(*   r   "Ok", an error, or "panic" when the method does not return        *)
(*   a   "true", "false" or an error                                       *)
(* Who calls them, and in which order, is left to DfuModeAnyCaller and to  *)
(* Bootloader.                                                             *)
(***************************************************************************)
EXTENDS FlashMemory

CONSTANTS HASH_LENGTH,
          BAD_VECTORS     \* the images whose initial SP or entry is no good

ASSUME ManifestAssumption ==
    /\ HASH_LENGTH \in Nat \ {0} /\ HASH_LENGTH % 4 = 0
    /\ MANIFEST_REGION_START + 4 + HASH_LENGTH <= FLASH_END

VARIABLES
    hstate,       \* the tag of DFUModeImpl.state; "Panicked": the CPU stopped
    program,      \* the Program of Download and Manifetation
    slice,        \* the &[u8] of Upload, as the addresses [at, end)
    sent,         \* history: the bytes accepted since Program::new
    finalised     \* history: the images finalize was called for, less those
                  \* whose manifest was gone when it was called again

handlerVars == <<hstate, program, slice, sent, finalised, memVars>>

\* struct Program; rest is data[wr_ptr..data_len] of the states with data.
Program(sector, addr, st, rest) ==
    [current_sector |-> sector, addr |-> addr, st |-> st, rest |-> rest]
NoProgram == Program(0, 0, "None", <<>>)
NoSlice   == [at |-> 0, end |-> 0]

-----------------------------------------------------------------------------
\* What a byte on flash can be.
ByteTag == {"erased", "torn", "data", "len", "hash"}

\* ApplicationRef::get_with_length: the first len bytes of the application.
ImageAt(f, len) ==
    [i \in 1 .. (IF len < APPLICATION_LENGTH THEN len ELSE APPLICATION_LENGTH) |->
        f[APPLICATION_REGION_START + i - 1]]

\* struct Manifest as bytes: a length and the hash of the image.  A hash is
\* the content it was computed from, so it has no collision.
ManifestBytes(len, image) ==
    [k \in 1 .. 4 + HASH_LENGTH |->
        IF k <= 4 THEN <<"len", k, len>> ELSE <<"hash", k - 4, image>>]

ManifestAt(f) == [k \in 1 .. 4 + HASH_LENGTH |-> f[MANIFEST_REGION_START + k - 1]]

\* manifest.length: what programmed it, anything if torn; an erased length
\* is 0xFFFF_FFFF, which get_with_length cuts to APPLICATION_LENGTH.
ManifestLengths(f) ==
    LET m == ManifestAt(f)
    IN  {len \in 0 .. APPLICATION_LENGTH :
            \A k \in 1 .. 4 : \/ m[k] = Torn
                              \/ m[k] = <<"len", k, len>>
                              \/ m[k] = Erased /\ len = APPLICATION_LENGTH}

\* Mutants: one byte short; the hash of all the application area.
NewManifestShort(length) == ManifestBytes(length - 1, ImageAt(flash, length - 1))
NewManifestOfAll(length) == ManifestBytes(length, ImageAt(flash, APPLICATION_LENGTH))

\* The manifest of the length bytes on flash, and their hash.
NewManifest(length) == ManifestBytes(length, ImageAt(flash, length))

\* is_firmware_valid without the button: the hash, then the vectors.
HashValid(f) ==
    \E len \in ManifestLengths(f) :
        \A k \in 1 .. HASH_LENGTH :
            ManifestAt(f)[4 + k] = <<"hash", k, ImageAt(f, len)>>

VectorsValid(f) ==
    LET first == f[APPLICATION_REGION_START]
    IN  first[1] = "data" /\ first[2] \notin BAD_VECTORS

\* Mutants: the vectors, the hash, the button are not looked at.
IsFirmwareValidByHash(low)    == ~low /\ HashValid(flash)
IsFirmwareValidByVectors(low) == ~low /\ VectorsValid(flash)
IsFirmwareValidUnasked(low)   == HashValid(flash) /\ VectorsValid(flash)

\* is_firmware_valid: low is the level of the button's pin.
IsFirmwareValid(low) == ~low /\ HashValid(flash) /\ VectorsValid(flash)

-----------------------------------------------------------------------------
\* The Program survives a step unless it failed, which makes the owner drop
\* it, or panicked.
Becomes(p, r) == program' = IF r = "Ok" THEN p ELSE NoProgram

\* Mutant: Memory.state is not reset by a poll that ends an operation.
QuietStale(drv) == memory' = memory /\ op' = op

\* The driver keeps quiet: the state it is left in is drv.
Quiet(drv) == memory' = drv /\ op' = op

\* Mutants: the bound is missing; the next sector is not erased.
EraseOrProgramUnbounded(drv, p, r) ==
    \/ /\ SectorOf(p.addr) # p.current_sector
       /\ StartErase(drv, SectorOf(p.addr), r)
       /\ Becomes(Program(SectorOf(p.addr), p.addr, "AwaitEraseBeforeProgram", p.rest), r)
    \/ /\ SectorOf(p.addr) = p.current_sector
       /\ StartProgram(drv, p.addr, p.rest, r)
       /\ Becomes(Program(p.current_sector, p.addr, "AwaitProgram", p.rest), r)
EraseOrProgramUnerased(drv, p, r) ==
    \/ p.addr >= MANIFEST_REGION_START /\ r = "Address" /\ Quiet(drv) /\ program' = NoProgram
    \/ /\ p.addr < MANIFEST_REGION_START
       /\ StartProgram(drv, p.addr, p.rest, r)
       /\ Becomes(Program(SectorOf(p.addr), p.addr, "AwaitProgram", p.rest), r)

\* Program::erase_or_program, for the program p.
EraseOrProgram(drv, p, r) ==
    \/ /\ p.addr >= MANIFEST_REGION_START
       /\ r = "Address"
       /\ Quiet(drv)
       /\ program' = NoProgram
    \/ /\ p.addr < MANIFEST_REGION_START
       /\ SectorOf(p.addr) # p.current_sector
       /\ StartErase(drv, SectorOf(p.addr), r)
       /\ Becomes(Program(SectorOf(p.addr), p.addr, "AwaitEraseBeforeProgram", p.rest), r)
    \/ /\ p.addr < MANIFEST_REGION_START
       /\ SectorOf(p.addr) = p.current_sector
       /\ StartProgram(drv, p.addr, p.rest, r)
       /\ Becomes(Program(p.current_sector, p.addr, "AwaitProgram", p.rest), r)

\* Program::erase_or_program_manifest: one more sector to erase, or the
\* manifest of what the flash holds by now.
EraseOrProgramManifest(drv, p, r) ==
    LET length == p.addr - APPLICATION_REGION_START
        bytes  == NewManifest(length)
    IN  \/ /\ p.current_sector < LastSector
           /\ StartErase(drv, p.current_sector + 1, r)
           /\ Becomes(Program(p.current_sector + 1, p.addr, "AwaitErase", <<>>), r)
        \/ /\ p.current_sector = LastSector
           /\ StartProgram(drv, MANIFEST_REGION_START, bytes, r)
           /\ Becomes(Program(LastSector, MANIFEST_REGION_START,
                              "AwaitProgramManifest", bytes), r)

\* The arms of Program::poll for a memory.poll() that answered Ok(n).
Advance(r) ==
    LET rest == SubSeq(program.rest, Written + 1, Len(program.rest))
        p == Program(program.current_sector, program.addr + Written, program.st, rest)
    IN  \/ /\ program.st = "AwaitEraseBeforeProgram"
           /\ StartProgram(MemIdle, program.addr, program.rest, r)
           /\ Becomes(Program(program.current_sector, program.addr, "AwaitProgram",
                              program.rest), r)
        \/ /\ program.st = "AwaitProgram"
           /\ rest = <<>>
           /\ r = "Ok"
           /\ Quiet(MemIdle)
           /\ program' = Program(p.current_sector, p.addr, "AwaitData", <<>>)
        \/ /\ program.st = "AwaitProgram"
           /\ rest # <<>>
           /\ EraseOrProgram(MemIdle, p, r)
        \/ /\ program.st = "AwaitErase"
           /\ EraseOrProgramManifest(MemIdle, program, r)
        \/ /\ program.st = "AwaitProgramManifest"
           /\ rest = <<>>
           /\ r = "Done"
           /\ Quiet(MemIdle)
           /\ program' = NoProgram
        \/ /\ program.st = "AwaitProgramManifest"
           /\ rest # <<>>
           /\ StartProgram(MemIdle, p.addr, p.rest, r)
           /\ Becomes(p, r)

\* Program::poll: "Ok" stands for Poll::Pending, "Done" for Ready(Ok(())).
ProgramPoll(r) ==
    \/ /\ program.st = "AwaitData" \/ PollResult = "Pending"
       /\ r = "Ok"
       /\ Quiet(memory)
       /\ program' = program
    \/ /\ program.st # "AwaitData"
       /\ PollResult \in Error
       /\ r = PollResult
       /\ Quiet(MemIdle)
       /\ program' = NoProgram
    \/ /\ program.st # "AwaitData"
       /\ PollResult = "Ok"
       /\ Advance(r)

\* Mutants: an error does not end the download; it leaves the handler idle.
OwnerKeeps(r) == CASE r = "panic" -> "Panicked" [] r = "Done" -> "Idle" [] OTHER -> hstate
OwnerForgives(r) == CASE r \in Error -> "Idle" [] OTHER -> OwnerKeeps(r)

\* The state of the handler after a step of its Program that answered r.
Owner(r) == CASE r \in Error   -> "Error"
              [] r = "panic"   -> "Panicked"
              [] r = "Done"    -> "Idle"
              [] OTHER         -> hstate

\* The bytes sent are those of a Program.
Forget == sent' = IF program' = NoProgram THEN <<>> ELSE sent

\* The handler owns a Program.
Busy == hstate \in {"Download", "Manifetation"}

\* The errors this handler knows, and all that a step can end with.
HandlerError == {"Write", "Erase", "CheckErased", "Programming", "Verify",
                 "Address", "Unknown"}
PollAnswers == {"Ok", "Done", "panic"} \cup HandlerError

-----------------------------------------------------------------------------
\* DFUModeImpl::is_transfer_complete, which changes nothing.
IsTransferComplete ==
    IF hstate # "Download" THEN "Unknown"
    ELSE IF program.st = "AwaitData" THEN "true" ELSE "false"

\* Mutant: the last block may still be being written.
FinalizeUnready(a) ==
    /\ hstate = "Download"
    /\ \E r \in PollAnswers :
          /\ a = IF r = "Ok" THEN "true" ELSE r
          /\ EraseOrProgramManifest(memory, program, r)
          /\ hstate' = IF r = "Ok" THEN "Manifetation" ELSE Owner(r)
    /\ finalised' = {sent} \cup
          {image \in finalised : ManifestAt(flash) = ManifestBytes(Len(image), image)}
    /\ Forget
    /\ UNCHANGED <<slice, flash, sr, keyRefused>>

\* Program::finalize, as is_manifestation_in_progress calls it.
Finalize(a) ==
    /\ hstate = "Download"
    /\ \/ /\ program.st = "AwaitData"
          /\ \E r \in PollAnswers :
                /\ a = IF r = "Ok" THEN "true" ELSE r
                /\ EraseOrProgramManifest(memory, program, r)
                /\ hstate' = IF r = "Ok" THEN "Manifetation" ELSE Owner(r)
          /\ finalised' = {sent} \cup
                {image \in finalised : ManifestAt(flash) = ManifestBytes(Len(image), image)}
       \/ /\ program.st # "AwaitData"
          /\ a = "Unknown"
          /\ Quiet(memory)
          /\ hstate' = "Error"
          /\ program' = NoProgram
          /\ UNCHANGED finalised
    /\ Forget
    /\ UNCHANGED <<slice, flash, sr, keyRefused>>

\* DFUModeImpl::is_manifestation_in_progress
IsManifestationInProgress(a) ==
    \/ Finalize(a)
    \/ /\ hstate = "Manifetation"
       /\ \E r \in PollAnswers :
             /\ a = CASE r = "Ok" -> "true" [] r = "Done" -> "false" [] OTHER -> r
             /\ ProgramPoll(r)
             /\ hstate' = Owner(r)
       /\ Forget
       /\ UNCHANGED <<slice, finalised, flash, sr, keyRefused>>
    \/ hstate = "Idle" /\ a = "false" /\ UNCHANGED handlerVars
    \/ /\ hstate \in {"Upload", "Error"}
       /\ a = "Unknown"
       /\ hstate' = "Error"
       /\ slice' = NoSlice
       /\ UNCHANGED <<program, sent, finalised, memVars>>

\* DFUModeImpl::poll
HandlerPoll(r) ==
    \/ /\ hstate \in {"Download", "Manifetation"}
       /\ \E q \in PollAnswers :
             /\ r = IF q = "Done" THEN "Ok" ELSE q
             /\ ProgramPoll(q)
             /\ hstate' = Owner(q)
       /\ Forget
       /\ UNCHANGED <<slice, finalised, flash, sr, keyRefused>>
    \/ /\ hstate \in {"Idle", "Upload", "Error"}
       /\ r = "Ok"
       /\ UNCHANGED handlerVars

\* DFUModeImpl::upload into a buffer of size bytes; n of them are produced.
Upload(size, r, n) ==
    \/ \E s \in IF hstate = "Idle"
                THEN {[at |-> APPLICATION_REGION_START,
                       end |-> APPLICATION_REGION_START + len] : len \in ManifestLengths(flash)}
                ELSE {slice} :
          /\ hstate \in {"Idle", "Upload"}
          /\ r = "Ok"
          /\ n = IF size < s.end - s.at THEN size ELSE s.end - s.at
          /\ hstate' = IF n = 0 THEN "Idle" ELSE "Upload"
          /\ slice' = IF n = 0 THEN NoSlice ELSE [s EXCEPT !.at = @ + n]
          /\ UNCHANGED <<program, sent, finalised, memVars>>
    \/ /\ hstate \in {"Download", "Manifetation", "Error"}
       /\ r = "Unknown"
       /\ n = 0
       /\ UNCHANGED handlerVars

\* Program::new, called by download in state Idle.  Its errors leave download
\* by the ? operator, before the state could become Error.
ProgramNew(buf, r) ==
    LET first == SectorOf(APPLICATION_REGION_START)
    IN  /\ hstate = "Idle"
        /\ \/ /\ Len(buf) >= APPLICATION_LENGTH
              /\ r = "Address"
              /\ Quiet(memory)
           \/ /\ Len(buf) < APPLICATION_LENGTH
              /\ StartErase(memory, first, r)
        /\ IF r = "Ok"
           THEN /\ hstate' = "Download"
                /\ program' = Program(first, APPLICATION_REGION_START,
                                      "AwaitEraseBeforeProgram", buf)
                /\ sent' = buf
           ELSE UNCHANGED <<hstate, program, sent>>
        /\ UNCHANGED <<slice, finalised, flash, sr, keyRefused>>

\* Program::update, called by download in state Download.
ProgramUpdate(buf, r) ==
    /\ hstate = "Download"
    /\ \/ /\ program.st = "AwaitData"
          /\ EraseOrProgram(memory, Program(program.current_sector, program.addr,
                                             program.st, buf), r)
       \/ /\ program.st # "AwaitData"
          /\ r = "Unknown"
          /\ Quiet(memory)
          /\ program' = NoProgram
    /\ hstate' = Owner(r)
    /\ sent' = IF r = "Ok" THEN sent \o buf ELSE <<>>
    /\ UNCHANGED <<slice, finalised, flash, sr, keyRefused>>

\* DFUModeImpl::download
Download(buf, r) ==
    \/ ProgramNew(buf, r)
    \/ ProgramUpdate(buf, r)
    \/ /\ hstate \in {"Manifetation", "Upload", "Error"}
       /\ r = "Unknown"
       /\ hstate' = "Error"
       /\ program' = NoProgram
       /\ slice' = NoSlice
       /\ Forget
       /\ UNCHANGED <<finalised, memVars>>

\* The reset of the MCU: DFUModeImpl::new on a flash left as it is.
HandlerReset ==
    /\ MemReset
    /\ hstate' = "Idle"
    /\ program' = NoProgram
    /\ slice' = NoSlice
    /\ sent' = <<>>
    /\ UNCHANGED finalised

-----------------------------------------------------------------------------
\* The bytes of the images.  The next block of an image follows the bytes that
\* were accepted before; the board may leave the factory with an image of its
\* own.
Block(image, len) ==
    LET from == IF hstate = "Download" THEN Len(sent) ELSE 0
    IN  [k \in 1 .. len |-> <<"data", image, from + k>>]

FactoryImage == [k \in 1 .. 4 |-> <<"data", 0, k>>]

\* A flash with no application, and one with an image and its manifest.
Blank == [a \in Address |-> Erased]
Installed(image) ==
    [a \in Address |->
        IF a \in APPLICATION_REGION_START .. APPLICATION_REGION_START + Len(image) - 1
        THEN image[a - APPLICATION_REGION_START + 1]
        ELSE IF a \in MANIFEST_REGION_START .. MANIFEST_REGION_START + 3 + HASH_LENGTH
        THEN ManifestBytes(Len(image), image)[a - MANIFEST_REGION_START + 1]
        ELSE Erased]

\* The board leaves the factory with one of images, or with none.
HandlerInit(images) ==
    /\ \/ flash = Blank /\ finalised = {}
       \/ \E image \in images : flash = Installed(image) /\ finalised = {image}
    /\ memory = MemIdle
    /\ op = MemIdle
    /\ sr = {}
    /\ keyRefused \in (IF "KEY" \in FAULTS THEN BOOLEAN ELSE {FALSE})
    /\ hstate = "Idle"
    /\ program = NoProgram
    /\ slice = NoSlice
    /\ sent = <<>>
=============================================================================
