-------------------------- MODULE DfuModeAnyCaller ---------------------------
(***************************************************************************)
(* DFUModeImpl and its flash under a caller that may call any method of    *)
(* the trait at any time, whatever the answers were: what holds here does  *)
(* not depend on the class calling the methods in the right order.         *)
(* Every step of the controller, every fault and every reset interleaves.  *)
(***************************************************************************)
EXTENDS DfuModeImpl

CONSTANTS BLOCKS,     \* the lengths of the blocks a caller downloads
          IMAGES,     \* whose bytes they carry
          BUFFER      \* the size of the buffer an upload fills

ASSUME CallerAssumption == BLOCKS \subseteq Nat \ {0} /\ BUFFER \in Nat \ {0}

vars == handlerVars

Init == HandlerInit({FactoryImage})

CallDownload ==
    \E image \in IMAGES, len \in BLOCKS, r \in PollAnswers : Download(Block(image, len), r)
CallManifestation ==
    \E a \in {"true", "false", "panic"} \cup HandlerError : IsManifestationInProgress(a)
CallPoll   == \E r \in PollAnswers : HandlerPoll(r)
CallUpload == \E r \in PollAnswers, n \in 0 .. BUFFER : Upload(BUFFER, r, n)

Controller == ControllerDone /\ UNCHANGED <<hstate, program, slice, sent, finalised>>
Reset      == HandlerReset

Next == CallDownload \/ CallManifestation \/ CallPoll \/ CallUpload \/ Controller \/ Reset

Spec == Init /\ [][Next]_vars

-----------------------------------------------------------------------------
ProgramState == {"None", "AwaitData", "AwaitEraseBeforeProgram", "AwaitProgram",
                 "AwaitErase", "AwaitProgramManifest"}

\* An operation the controller may be asked for: a sector of the application,
\* or bytes from its start to the end of the manifest.
Permitted(o) ==
    \/ o = MemIdle
    \/ /\ o.tag = "Erasing"
       /\ o.sector \in Sector /\ SectorBase[o.sector] >= APPLICATION_REGION_START
    \/ /\ o.tag = "Programming"
       /\ o.addr >= APPLICATION_REGION_START
       /\ o.addr + Len(o.src) <= MANIFEST_REGION_START + 4 + HASH_LENGTH

\* What the controller does is permitted, and the driver knows of it unless
\* the CPU stopped; a Program exists exactly while the handler owns one, and
\* points at most to the end of what it writes, the image or the manifest.
TypeOK ==
    /\ DOMAIN flash = Address /\ \A a \in Address : flash[a][1] \in ByteTag
    /\ memory.tag \in {"Idle", "Erasing", "Programming"}
    /\ Permitted(op)
    /\ op # MemIdle => memory = op \/ hstate = "Panicked"
    /\ sr \subseteq {"WRPERR", "OPERR"} /\ keyRefused \in BOOLEAN
    /\ hstate \in {"Idle", "Download", "Manifetation", "Upload", "Error", "Panicked"}
    /\ program.st \in ProgramState
    /\ Busy <=> program # NoProgram
    /\ hstate = "Download" =>
          program.addr \in APPLICATION_REGION_START .. MANIFEST_REGION_START
    /\ hstate = "Manifetation" =>
          program.addr \in APPLICATION_REGION_START .. MANIFEST_REGION_START + 4 + HASH_LENGTH
    /\ hstate = "Upload" <=> slice # NoSlice
    /\ \A i \in DOMAIN sent : sent[i][1] = "data"

\* The image on flash followed by what is still to be written of the last
\* block is exactly the bytes accepted since Program::new: no byte is lost,
\* doubled or out of place by the splitting into writes of 1, 2 and 4 bytes,
\* by a sector boundary inside a block, by a fault, or by an odd poll.
ImageFaithful ==
    /\ hstate = "Download" =>
          ImageAt(flash, program.addr - APPLICATION_REGION_START) \o program.rest = sent
    /\ hstate = "Manifetation" => ImageAt(flash, Len(sent)) = sent

\* The hash the bootloader checks at the next start is right only for an
\* image the host finished, entire and unchanged: a reset or a power cut
\* between any two steps, a torn sector, a failed write or a download that
\* was never finished leaves nothing that would be started.
BootOnlyFinalised ==
    HashValid(flash) =>
        \E image \in finalised : /\ ImageAt(flash, Len(image)) = image
                                 /\ ManifestAt(flash) = ManifestBytes(Len(image), image)

\* The manifest area holds no byte of the host and the application area no
\* byte of a manifest, the block that crosses into the manifest included.
AreasApart ==
    \A a \in Address :
        /\ flash[a][1] = "data" => a \in APPLICATION_REGION_START .. MANIFEST_REGION_START - 1
        /\ flash[a][1] \in {"len", "hash"} => a >= MANIFEST_REGION_START

\* A Program polls a driver that is at the operation its state waits for,
\* never an idle one: what poll answers is about that operation.  Of a write
\* no more is done than the Program still has to write, at its address, so
\* poll's assert!(wr_ptr <= data_len) and unreachable!() cannot be reached.
WrittenIsOwed ==
    Busy => CASE program.st = "AwaitData" -> memory = MemIdle
              [] program.st \in {"AwaitEraseBeforeProgram", "AwaitErase"} ->
                    memory = Erasing(program.current_sector)
              [] OTHER -> /\ memory.tag = "Programming"
                          /\ memory.addr = program.addr
                          /\ Len(memory.src) <= Len(program.rest)

\* An operation of the controller is never replaced by another: STRT or PG
\* is written only when BSY is clear, whoever calls whatever.  Writing the
\* control register during an operation is what the code has no check for:
\* it relies on a Program polling the driver before it goes on, and on state
\* Error having no way out.
NoOverlap == [][op # MemIdle => op' \in {op, MemIdle}]_vars

\* No operation begins under the flags an earlier one left: the driver never
\* clears them, and its poll would take them for failures of the new one.  It
\* holds because a Program asks for the outcome before it goes on, an error
\* ends it, and the handler has no way out of its state Error.
NoStaleFlags == [][sr # {} => op' \in {op, MemIdle}]_vars

\* No call, fault or power cut touches the sectors of the bootloader.
BootloaderUntouched ==
    [][\A a \in Address : a < APPLICATION_REGION_START => flash'[a] = flash[a]]_vars

\* A poll that ends a manifestation, which the host takes for success, finds
\* on flash what was accepted, entire, with a manifest whose hash fits it.
ManifestEarned ==
    [][hstate = "Manifetation" /\ ProgramPoll("Done") =>
          HashValid(flash) /\ ImageAt(flash, Len(sent)) = sent /\ sent \in finalised]_vars

-----------------------------------------------------------------------------
\* No host can send an empty image.
NoImage == <<>>

\* The image whose manifest is entire on flash.  A hash is the content it was
\* computed from, so its first byte names the image.
Label ==
    LET first == ManifestAt(flash)[5]
    IN  IF first[1] = "hash" /\ ManifestAt(flash) = ManifestBytes(Len(first[3]), first[3])
        THEN first[3] ELSE NoImage

\* What is_firmware_valid would find, the button aside; <<"unknown">> if a
\* hash were right without an entire manifest.
Startable == IF ~HashValid(flash) THEN NoImage
             ELSE IF Label = NoImage THEN <<"unknown">> ELSE Label

Store == INSTANCE FirmwareStore WITH
             offered <- finalised, label <- Label, firmware <- Startable

\* The handler, its driver and the flash are a FirmwareStore: the firmware
\* changes only to an image that was finished, through a state with none on
\* record, although the sectors are erased and written one at a time, each
\* step may be the last before a power cut, and an operation may end after
\* the handler has given up what it was for.
ImplementsStore == Store!Spec
=============================================================================
