------------------------------ MODULE Bootloader ------------------------------
(***************************************************************************)
(* The bootloader of the board (examples/bootloader.rs): at every start it *)
(* jumps to a valid application or runs DFUModeClass over DFUModeImpl; its *)
(* main loop polls the class and serves the host's control transfers.      *)
(* DfuModeClass and DfuModeImpl are the two components; one transfer or    *)
(* one poll is one step of both, since main() is the only thread.          *)
(* The host sends any request at any time; the flash controller, resets    *)
(* and power cuts interleave with it.                                      *)
(***************************************************************************)
EXTENDS DfuModeImpl, DfuModeClass

CONSTANTS BLOCKS,          \* lengths of the blocks the host downloads
          UPLOADS,         \* wLength of the uploads it asks for
          CONTROL_BUFFER,  \* size of the control endpoint's buffer
          MaxSession       \* bound: downloads started from DfuIdle

ASSUME HostAssumption ==
    /\ BLOCKS \subseteq 1 .. TRANSFER_SIZE
    /\ UPLOADS \subseteq Nat \ {0}
    /\ CONTROL_BUFFER \in Nat /\ TRANSFER_SIZE <= CONTROL_BUFFER
    /\ MaxSession \in Nat

VARIABLES
    mode,         \* "off" until main() runs, then "dfu" or "app"
    session,      \* history: number of the host's current download
    hostSent,     \* history: what the host sent in it
    tidy,         \* history: no request was stalled since the start
    received,     \* history: what the host got in its current upload
    uploads       \* history: "none" since the start, or since an upload that an
                  \* empty frame ended or that was refused; "whole" in and after
                  \* one whose frames all asked for the whole buffer; "other"

uploadVars == <<received, uploads>>
hostVars   == <<mode, session, hostSent, tidy, uploadVars>>
vars       == <<handlerVars, state, hostVars>>

\* While there is no class, the variable of the class has this value.
NoClass == Plain("DfuIdle")

Serving == mode = "dfu" /\ hstate # "Panicked"

\* The class gets to its own part of a step only if the handler returns.
Returns(r, ClassStep) == IF r = "panic" THEN state' = state ELSE ClassStep

Init ==
    /\ HandlerInit({FactoryImage})
    /\ state = NoClass
    /\ mode = "off"
    /\ session = 0
    /\ hostSent = <<>>
    /\ tidy = TRUE
    /\ received = <<>> /\ uploads = "none"

-----------------------------------------------------------------------------
\* main: is_firmware_valid, then DFUModeClass::new, which asks again; first
\* and second are the level of the button's pin at the two readings.
BootWith(first, second) ==
    /\ mode = "off"
    /\ IF IsFirmwareValid(first)
       THEN mode' = "app" /\ state' = NoClass
       ELSE mode' = "dfu" /\ state' = ClassNew(IsFirmwareValid(second))
    /\ UNCHANGED <<handlerVars, session, hostSent, tidy, uploadVars>>

Boot == \E first, second \in BOOLEAN : BootWith(first, second)

\* DFU_DNLOAD of a block of len bytes of the image with this number.
DownloadOf(number, len) ==
    LET block == Block(number, len)
    IN  /\ Serving
        /\ AnswersOut("DFU_DNLOAD", len)
        /\ \E r \in PollAnswers : Download(block, r) /\ Returns(r, AcceptDownload(len, r))
        /\ session' = number
        /\ hostSent' = IF state.tag = "DfuIdle" THEN block ELSE hostSent \o block
        /\ received' = <<>>
        /\ UNCHANGED <<mode, tidy, uploads>>

\* From DfuIdle the host begins another image.
HostDownload ==
    \E len \in BLOCKS :
        LET number == IF state.tag = "DfuIdle" THEN session + 1 ELSE session
        IN  number <= MaxSession /\ DownloadOf(number, len)

\* DFU_DNLOAD of no bytes.
HostEnd ==
    /\ Serving
    /\ EndDownload(IsTransferComplete)
    /\ UNCHANGED <<handlerVars, hostVars>>

\* DFU_GETSTATUS where it asks the handler for news.
HostDownloadStatus ==
    /\ Serving
    /\ DownloadStatus(IsTransferComplete)
    /\ UNCHANGED <<handlerVars, hostVars>>

HostManifestStatus ==
    /\ Serving
    /\ state.tag \in {"DfuManifestSync", "DfuManifest"}
    /\ \E a \in {"true", "false", "panic"} \cup HandlerError :
          /\ IsManifestationInProgress(a)
          /\ Returns(a, ManifestStatus(a))
    /\ UNCHANGED hostVars

\* Of the n bytes the handler has just copied, those the host asked for.
Transferred(n, len) ==
    [k \in 1 .. (IF n < len THEN n ELSE len) |-> flash[slice'.at - n + k - 1]]

\* DFU_UPLOAD: the handler fills the control buffer, whatever wLength is, and
\* the USB stack sends the host as much of it as it asked for.
HostUpload ==
    /\ Serving
    /\ \E len \in UPLOADS, r \in PollAnswers, n \in 0 .. CONTROL_BUFFER :
          /\ AcceptUpload(len, r, n)
          /\ Upload(CONTROL_BUFFER, r, n)
          /\ received' = (IF state.tag = "DfuIdle" THEN <<>> ELSE received)
                            \o Transferred(n, len)
          /\ uploads' = IF \/ len # CONTROL_BUFFER
                           \/ uploads # IF state.tag = "DfuIdle" THEN "none" ELSE "whole"
                        THEN "other" ELSE IF n = 0 THEN "none" ELSE "whole"
    /\ UNCHANGED <<mode, session, hostSent, tidy>>

\* DFU_ABORT of an upload, DFU_CLRSTATUS.
HostAbort == Serving /\ AbortUpload /\ UNCHANGED <<handlerVars, hostVars>>
HostClear == Serving /\ ClearStatus /\ UNCHANGED <<handlerVars, hostVars>>

\* Every other request the class does not expect; DFU_ABORT of a download
\* is one.
HostUnexpected ==
    /\ Serving
    /\ \E req \in Request, len \in {0} \cup BLOCKS :
          UnexpectedIn(req, len) \/ UnexpectedOut(req, len)
    /\ tidy' = FALSE
    /\ UNCHANGED <<handlerVars, mode, session, hostSent, uploadVars>>

\* dfu.poll(0) in every loop and dfu.poll(1) when SysTick has wrapped.
MainPoll(elapsed) ==
    /\ Serving
    /\ PollsHandler
    /\ \E r \in PollAnswers : HandlerPoll(r) /\ Returns(r, Poll(elapsed, r))
    /\ UNCHANGED hostVars

Controller ==
    /\ ControllerDone
    /\ UNCHANGED <<hstate, program, slice, sent, finalised, state, hostVars>>

Reset ==
    /\ HandlerReset
    /\ mode' = "off"
    /\ state' = NoClass
    /\ hostSent' = <<>>
    /\ tidy' = TRUE
    /\ received' = <<>> /\ uploads' = "none"
    /\ UNCHANGED session

PanicReset == hstate = "Panicked" /\ Reset         \* trace.rs: on_panic
PowerCut   == mode # "off" /\ Reset

Device == Boot \/ MainPoll(0) \/ MainPoll(1) \/ Controller \/ PanicReset
Host   == HostDownload \/ HostEnd \/ HostDownloadStatus \/ HostManifestStatus
            \/ HostUpload \/ HostAbort \/ HostClear

Next == Device \/ Host \/ HostUnexpected \/ PowerCut

Spec == Init /\ [][Next]_vars

\* The main loop runs and SysTick wraps, the controller ends what it began,
\* and the host polls as DFU requires it to.
Fairness ==
    /\ WF_vars(MainPoll(1)) /\ WF_vars(Controller)
    /\ WF_vars(HostDownloadStatus) /\ WF_vars(HostManifestStatus)

LiveSpec == Spec /\ Fairness

-----------------------------------------------------------------------------
DownloadTag == {"DfuDnloadSync", "DfuDnloadBusy", "DfuDnloadIdle"}
ManifestTag == {"DfuManifestSync", "DfuManifest"}

\* The class has a state of the DFU mode, and only while it exists one other
\* than DfuIdle; the histories are of their types.
TypeOK ==
    /\ ClassType
    /\ mode \in {"off", "dfu", "app"}
    /\ mode # "dfu" => state = NoClass /\ hstate = "Idle"
    /\ session \in 0 .. MaxSession
    /\ \A i \in DOMAIN hostSent : hostSent[i] \in {"data"} \X (1 .. MaxSession) \X Nat
    /\ tidy \in BOOLEAN /\ uploads \in {"none", "whole", "other"}
    /\ Len(received) <= APPLICATION_LENGTH

\* Two state machines that never look at each other's state agree on what is
\* going on whatever the host sends and whenever it sends it: what the class
\* tells the host (a download, ready for a block, a manifestation, an upload)
\* is what the handler is doing.
ClassAgreesWithHandler ==
    mode = "dfu" /\ hstate # "Panicked" =>
        /\ state.tag \in DownloadTag => hstate = "Download"
        /\ state.tag = "DfuDnloadIdle" => program.st = "AwaitData" /\ op = MemIdle
        /\ state.tag \in ManifestTag =>
              \/ hstate \in {"Manifetation", "Idle"}
              \/ state.tag = "DfuManifestSync" /\ program.st = "AwaitData"
        /\ state.tag = "DfuUploadIdle" => hstate = "Upload"

\* The status the host reads as success, DfuIdle after a manifestation, is
\* given only when the next start will find a valid hash.
SuccessIsValid ==
    [][state.tag \in ManifestTag /\ state'.tag = "DfuIdle" =>
          mode' = "off" \/ HashValid(flash')]_vars

\* main() jumps to an image that the host finished, or that was there, and
\* never to one whose vectors are bad; the image is entire.
StartsOnlyFinished ==
    mode = "app" => /\ VectorsValid(flash)
                    /\ \E image \in finalised : ImageAt(flash, Len(image)) = image

\* A flash that works is never reported as failing: each cell is erased
\* before it is programmed, also after a power cut in the middle of anything
\* and on the second and later downloads, and the bytes read back by poll are
\* those it programmed.
NoSpuriousFlashError ==
    state.tag = "DfuError" =>
        state.error \notin {"Write", "Erase", "CheckErased", "Programming", "Verify"}

\* A panic takes an image whose length, so far as it was sent, is 3 modulo 4:
\* no other block makes the driver write more than it was given, however the
\* blocks before it and the sectors cut the image, and no manifest does.
PanicsOnlyAtThree ==
    [][tidy /\ hstate # "Panicked" /\ hstate' = "Panicked" =>
          state.tag \in DownloadTag /\ Len(hostSent') % 4 = 3]_vars

\* For a host that has not made the class stall since the start, whatever
\* failed, was cut or was done before, a manifestation that ends well has
\* installed exactly the bytes of the host's own download.
HostImageInstalled ==
    [][tidy /\ state.tag \in ManifestTag /\ state'.tag = "DfuIdle" =>
          mode' = "off" \/ ImageAt(flash', Len(hostSent)) = hostSent]_vars

\* The frame that ends an upload is shorter than the host asked for.
UploadEnds == HostUpload /\ state'.tag = "DfuIdle"

\* The whole of the firmware, as its manifest gives its length.
WholeFirmware == {ImageAt(flash, len) : len \in ManifestLengths(flash)}

\* An upload, if it is the first since the start or the last one ended with
\* an empty frame, gives a host that reads whole buffers the firmware, entire
\* and in order, also when its length is a multiple of the buffer's: the class
\* ends it at a short frame, the handler only at an empty one.
UploadDelivers == [][UploadEnds /\ uploads' # "other" => received' \in WholeFirmware]_vars

\* The host never waits for ever for a device that has not panicked: a block
\* ends up written or refused, though every GETSTATUS of a busy device rearms
\* its timer and a block needs many polls.
BlockEnds == state.tag \in {"DfuDnloadSync", "DfuDnloadBusy"}
                ~> \/ state.tag \notin {"DfuDnloadSync", "DfuDnloadBusy"}
                   \/ hstate = "Panicked"

\* A manifestation ends, though only polls and GETSTATUS advance it and the
\* class counts its time apart from the handler's work.
ManifestationEnds == state.tag \in ManifestTag ~> state.tag \notin ManifestTag

-----------------------------------------------------------------------------
\* What the documentation of the crate says and the device does not do.

\* lib.rs:37, TRANSFER_SIZE: blocks up to that size are accepted.
NeverPanics == hstate # "Panicked"

\* lib.rs:24, CAN_UPLOAD: an upload sends the firmware.
UploadIsTheFirmware == [][UploadEnds => received' \in WholeFirmware]_vars

\* lib.rs:27, CAN_DOWNLOAD: a download begun in DfuIdle receives a firmware,
\* and what is programmed is what the host sent.
DownloadStartsAfresh ==
    [][state.tag = "DfuIdle" /\ state'.tag = "DfuDnloadSync" => sent' = hostSent']_vars
=============================================================================
