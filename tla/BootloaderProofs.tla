--------------------------- MODULE BootloaderProofs ---------------------------
(***************************************************************************)
(* The bootloader, class and handler together, under every host: for every *)
(* sector table, block, buffer and hash length, every set of faults, and   *)
(* every order of requests, polls, resets and power cuts.                  *)
(***************************************************************************)
EXTENDS Bootloader, DfuModeImplProofs

(***************************************************************************)
(* The inductive invariant, in parts.  AgreeInv is about the two state     *)
(* machines; each of the others is about a history of the host's, and      *)
(* rests on AgreeInv and on what DriverInv and FlashInv say of the handler.*)
(***************************************************************************)
AgreeInv ==
    /\ mode \in {"off", "dfu", "app"}
    /\ mode # "dfu" => state = NoClass /\ hstate = "Idle"
    /\ ClassAgreesWithHandler

\* A byte of one of the host's images.
HostByte == {"data"} \X (1 .. MaxSession) \X Nat

\* Histories and the class have their types; what the host got is not longer
\* than what the handler gave.
TypeInv ==
    /\ ClassType
    /\ session \in 0 .. MaxSession
    /\ state.tag \in DownloadTag => session > 0
    /\ IsBytes(hostSent) /\ \A i \in 1 .. Len(hostSent) : hostSent[i] \in HostByte
    /\ tidy \in BOOLEAN /\ uploads \in {"none", "whole", "other"}
    /\ IsBytes(received) /\ Len(received) <= APPLICATION_LENGTH
    /\ state.tag = "DfuUploadIdle" => Len(received) <= slice.at - APPLICATION_REGION_START

\* An Idle handler under a manifestation is one that has finished it.
SuccessInv == Serving /\ state.tag \in ManifestTag /\ hstate = "Idle" => HashValid(flash)

\* For a tidy host, what the handler has is what the host sent.
OwnInv ==
    Serving /\ tidy =>
        /\ state.tag \in {"DfuIdle", "DfuError"} => ~Busy
        /\ state.tag \in DownloadTag \cup ManifestTag /\ Busy => sent = hostSent
        /\ state.tag \in ManifestTag /\ hstate = "Idle" =>
              ImageAt(flash, Len(hostSent)) = hostSent

\* What an upload of whole buffers has delivered so far is the firmware up to
\* where the handler stands.
FetchInv ==
    Serving =>
        /\ uploads = "none" => hstate # "Upload"
        /\ state.tag = "DfuUploadIdle" /\ uploads = "whole" =>
              /\ slice.end - APPLICATION_REGION_START \in ManifestLengths(flash)
              /\ received = ImageAt(flash, slice.at - APPLICATION_REGION_START)

-----------------------------------------------------------------------------
\* What the handler answers, as far as the class can tell.

Entire(s) == /\ IsImage(s) /\ OnFlash(flash, s, Len(s))
             /\ ManifestOnFlash(flash, s, 4 + HASH_LENGTH)

LEMMA Remembered ==
    ASSUME FlashInv', Forget, hstate' \in {"Download", "Manifetation"}
    PROVE  sent' = sent
<1>1. NoProgram.st = "None"
  BY DEF NoProgram, Program
<1>2. program'.st # "None"
  BY DEF FlashInv, ProgramInv, DownloadState, ManifestState
<1> QED BY <1>1, <1>2 DEF Forget

\* A Program that is downloading is not Done by a poll.
LEMMA DownloadGoesOn ==
    ASSUME FlashInv, hstate = "Download"
    PROVE  ~ProgramPoll("Done")
<1>1. program.st \in {"AwaitData", "AwaitEraseBeforeProgram", "AwaitProgram"}
  BY DEF FlashInv, ProgramInv, DownloadState
<1>2. \A p : ~EraseOrProgram(MemIdle, p, "Done")
  BY NotDone DEF EraseOrProgram
<1>3. \A addr, src : ~StartProgram(MemIdle, addr, src, "Done")
  BY NotDone
<1>4. ~Advance("Done")
  BY <1>1, <1>2, <1>3 DEF Advance
<1> QED BY <1>4, ErrorsOfHandler DEF ProgramPoll

LEMMA AnswersSorted ==
    /\ \A r \in PollAnswers : r \in {"Ok", "Done", "panic"} \/ r \in HandlerError
    /\ HandlerError \subseteq Error
    /\ {"Ok", "Done", "panic", "true", "false"} \cap Error = {}
BY DEF PollAnswers, HandlerError, Error

LEMMA OwnerOf ==
    ASSUME NEW r
    PROVE  /\ r \in Error => Owner(r) = "Error"
           /\ Owner("panic") = "Panicked" /\ Owner("Done") = "Idle" /\ Owner("Ok") = hstate
BY DEF Owner, Error

\* download: a block is the beginning of what is accepted, or the end of it.
LEMMA DownloadAnswers ==
    ASSUME FlashInv, NEW buf, NEW r \in PollAnswers, Download(buf, r)
    PROVE  /\ UNCHANGED <<flash, finalised>>
           /\ \/ r = "Ok" /\ hstate = "Idle" /\ hstate' = "Download" /\ sent' = buf
              \/ r = "Ok" /\ hstate = "Download" /\ hstate' = "Download" /\ sent' = sent \o buf
              \/ r = "panic" /\ hstate' = "Panicked"
              \/ r \in HandlerError /\ hstate' \in {"Idle", "Error"}
<1>1. CASE ProgramNew(buf, r)
  <2>1. r \in {"Ok", "Write", "Address"}
    BY <1>1 DEF ProgramNew, StartErase
  <2>2. r = "Ok" \/ r \in HandlerError
    BY <2>1 DEF HandlerError
  <2> QED BY <1>1, <2>2 DEF ProgramNew
<1>2. CASE ProgramUpdate(buf, r)
  <2>1. r # "Done"
    BY <1>2, NotDone DEF ProgramUpdate, EraseOrProgram
  <2>2. r \in {"Ok", "panic"} \/ r \in HandlerError
    BY <2>1, AnswersSorted
  <2>3. /\ hstate = "Download" /\ hstate' = Owner(r) /\ UNCHANGED <<flash, finalised>>
        /\ sent' = IF r = "Ok" THEN sent \o buf ELSE <<>>
    BY <1>2 DEF ProgramUpdate
  <2>4. r \in HandlerError => hstate' = "Error"
    BY <2>3, AnswersSorted, OwnerOf
  <2>5. r = "Ok" => hstate' = hstate
    BY <2>3, OwnerOf
  <2>6. r = "panic" => hstate' = "Panicked"
    BY <2>3, OwnerOf
  <2> QED BY <2>2, <2>3, <2>4, <2>5, <2>6
<1>3. CASE r = "Unknown" /\ hstate' = "Error" /\ UNCHANGED <<flash, finalised>>
  BY <1>3 DEF HandlerError
<1> QED BY <1>1, <1>2, <1>3 DEF Download, memVars

\* A poll of the Program, by either method.
LEMMA PolledAnswers ==
    ASSUME DriverInv, FlashInv, FlashInv', Busy, NEW r \in PollAnswers, ProgramPoll(r),
           Forget, hstate' = Owner(r)
    PROVE  \/ r = "Ok" /\ UNCHANGED <<hstate, sent>>
           \/ r = "Done" /\ hstate = "Manifetation" /\ hstate' = "Idle" /\ Entire(sent)
           \/ r = "panic" /\ hstate' = "Panicked"
           \/ r \in HandlerError /\ hstate' = "Error"
<1>1. CASE r = "Ok"
  <2>1. hstate' = hstate
    BY <1>1, OwnerOf
  <2> QED BY <1>1, <2>1, Remembered DEF Busy
<1>2. CASE r = "Done"
  <2>1. hstate = "Manifetation"
    BY <1>2, DownloadGoesOn DEF Busy
  <2>2. Entire(sent)
    BY <1>2, <2>1, DoneIsEntire DEF Entire
  <2> QED BY <1>2, <2>1, <2>2, OwnerOf
<1>3. CASE r = "panic"
  BY <1>3, OwnerOf
<1>4. CASE r \in HandlerError
  BY <1>4, AnswersSorted, OwnerOf
<1> QED BY <1>1, <1>2, <1>3, <1>4, AnswersSorted

LEMMA PollAnswersAre ==
    ASSUME DriverInv, FlashInv, FlashInv', NEW r, HandlerPoll(r)
    PROVE  /\ UNCHANGED <<flash, finalised, slice>>
           /\ \/ r = "Ok" /\ UNCHANGED <<hstate, sent>>
              \/ r = "Ok" /\ hstate = "Manifetation" /\ hstate' = "Idle" /\ Entire(sent)
              \/ r = "panic" /\ hstate' = "Panicked"
              \/ r \in HandlerError /\ hstate' = "Error"
<1>1. CASE UNCHANGED handlerVars /\ r = "Ok"
  BY <1>1 DEF handlerVars, memVars
<1>2. CASE /\ Busy /\ Forget /\ UNCHANGED <<slice, finalised, flash>>
           /\ \E q \in PollAnswers : /\ r = IF q = "Done" THEN "Ok" ELSE q
                                     /\ ProgramPoll(q) /\ hstate' = Owner(q)
  <2>1. PICK q \in PollAnswers : /\ r = IF q = "Done" THEN "Ok" ELSE q
                                 /\ ProgramPoll(q) /\ hstate' = Owner(q)
    BY <1>2
  <2>2. \/ q = "Ok" /\ UNCHANGED <<hstate, sent>>
        \/ q = "Done" /\ hstate = "Manifetation" /\ hstate' = "Idle" /\ Entire(sent)
        \/ q = "panic" /\ hstate' = "Panicked"
        \/ q \in HandlerError /\ hstate' = "Error"
    BY <1>2, <2>1, PolledAnswers
  <2> QED BY <1>2, <2>1, <2>2 DEF HandlerError
<1> QED BY <1>1, <1>2 DEF HandlerPoll, Busy

\* is_manifestation_in_progress: false comes from an Idle handler, or from one
\* that has just read the last word back.
LEMMA ManifestationAnswers ==
    ASSUME DriverInv, FlashInv, FlashInv', NEW a, IsManifestationInProgress(a)
    PROVE  /\ flash' = flash
           /\ \/ a = "true" /\ hstate' = "Manifetation" /\ Busy /\ sent' = sent
              \/ a = "false" /\ hstate = "Manifetation" /\ hstate' = "Idle" /\ Entire(sent)
              \/ a = "false" /\ hstate = "Idle" /\ hstate' = "Idle" /\ UNCHANGED handlerVars
              \/ a = "panic" /\ hstate' = "Panicked"
              \/ a \in HandlerError /\ hstate' = "Error"
<1>1. CASE \E r \in PollAnswers :
              /\ hstate = "Download" /\ Forget /\ flash' = flash
              /\ a = IF r = "Ok" THEN "true" ELSE r
              /\ EraseOrProgramManifest(memory, program, r)
              /\ hstate' = IF r = "Ok" THEN "Manifetation" ELSE Owner(r)
  <2>1. PICK r \in PollAnswers :
              /\ hstate = "Download" /\ Forget /\ flash' = flash
              /\ a = IF r = "Ok" THEN "true" ELSE r
              /\ EraseOrProgramManifest(memory, program, r)
              /\ hstate' = IF r = "Ok" THEN "Manifetation" ELSE Owner(r)
    BY <1>1
  <2>2. r # "Done"
    BY <2>1, NotDone DEF EraseOrProgramManifest
  <2>3. CASE r = "Ok"
    BY <2>1, <2>3, Remembered DEF Busy
  <2>4. CASE r = "panic"
    BY <2>1, <2>4, OwnerOf
  <2>5. CASE r \in HandlerError
    <3>1. r # "Ok" /\ Owner(r) = "Error"
      BY <2>5, AnswersSorted, OwnerOf
    <3> QED BY <2>1, <2>5, <3>1
  <2> QED BY <2>1, <2>2, <2>3, <2>4, <2>5, AnswersSorted
<1>2. CASE /\ hstate = "Manifetation" /\ Forget /\ flash' = flash
           /\ \E r \in PollAnswers :
                 /\ a = CASE r = "Ok" -> "true" [] r = "Done" -> "false" [] OTHER -> r
                 /\ ProgramPoll(r) /\ hstate' = Owner(r)
  <2>1. PICK r \in PollAnswers :
                 /\ a = CASE r = "Ok" -> "true" [] r = "Done" -> "false" [] OTHER -> r
                 /\ ProgramPoll(r) /\ hstate' = Owner(r)
    BY <1>2
  <2>2. \/ r = "Ok" /\ UNCHANGED <<hstate, sent>>
        \/ r = "Done" /\ hstate = "Manifetation" /\ hstate' = "Idle" /\ Entire(sent)
        \/ r = "panic" /\ hstate' = "Panicked"
        \/ r \in HandlerError /\ hstate' = "Error"
    BY <1>2, <2>1, PolledAnswers DEF Busy
  <2>3. r \in HandlerError => a = r
    BY <2>1 DEF HandlerError
  <2> QED BY <1>2, <2>1, <2>2, <2>3 DEF Busy
<1>3. CASE a = "Unknown" /\ hstate' = "Error" /\ flash' = flash
  BY <1>3 DEF HandlerError
<1>4. CASE hstate = "Idle" /\ a = "false" /\ UNCHANGED handlerVars
  BY <1>4 DEF handlerVars, memVars
<1>5. CASE Finalize(a)
  BY <1>1, <1>3, <1>5 DEF Finalize
<1> QED BY <1>2, <1>3, <1>4, <1>5 DEF IsManifestationInProgress, memVars

-----------------------------------------------------------------------------
\* The steps of the bootloader, seen by its handler.

LEMMA HostFacts ==
    /\ TRANSFER_SIZE \in Nat \ {0} /\ CONTROL_BUFFER \in Nat /\ MaxSession \in Nat
    /\ \A len \in BLOCKS : len \in Nat /\ len > 0
    /\ \A len \in UPLOADS : len \in Nat /\ len > 0
BY HostAssumption, CapabilitiesAssumption

LEMMA SentIsData == FlashInv => IsData(sent) /\ Len(sent) \in Nat
BY DEF FlashInv, ProgramInv, IsData, IsBytes

\* A block of the host's is some bytes of its image.
LEMMA BlockFacts ==
    ASSUME FlashInv, NEW number, NEW len \in BLOCKS
    PROVE  /\ IsData(Block(number, len)) /\ Len(Block(number, len)) = len
           /\ \A k \in 1 .. len : \E n \in Nat : Block(number, len)[k] = <<"data", number, n>>
<1> DEFINE b == Block(number, len)
           from == IF hstate = "Download" THEN Len(sent) ELSE 0
<1>1. b = [k \in 1 .. len |-> <<"data", number, from + k>>]
  BY DEF Block
<1>2. from \in Nat /\ len \in Nat
  BY SentIsData, HostFacts
<1> HIDE DEF b, from
<1>3. IsBytes(b) /\ Len(b) = len
  BY <1>1, <1>2, TableIsBytes
<1>4. ASSUME NEW k \in 1 .. len
      PROVE  b[k][1] = "data" /\ \E n \in Nat : b[k] = <<"data", number, n>>
  <2>1. from + k \in Nat /\ b[k] = <<"data", number, from + k>>
    BY <1>1, <1>2
  <2> QED BY <2>1
<1> QED BY <1>3, <1>4 DEF IsData, b

\* A block of any of the images.  What is shown here does not need a host that
\* begins each image with a number of its own, as HostDownload does.
AnyDownload == \E len \in BLOCKS, number \in 1 .. MaxSession : DownloadOf(number, len)
AnyNext     == Next \/ AnyDownload

LEMMA BootloaderSteps == FlashInv /\ [AnyNext]_vars => HandlerStep
<1> SUFFICES ASSUME FlashInv, [AnyNext]_vars PROVE HandlerStep
  OBVIOUS
<1>1. ASSUME NEW number, NEW len \in BLOCKS, NEW r \in PollAnswers,
             Download(Block(number, len), r)
      PROVE  HandlerStep
  <2> DEFINE b == Block(number, len)
  <2>1. IsData(b) /\ Len(b) > 0
    BY BlockFacts, HostFacts
  <2>2. Download(b, r)
    BY <1>1
  <2> HIDE DEF b
  <2> QED BY <2>1, <2>2 DEF HandlerStep
<1>2. HostDownload \/ AnyDownload => HandlerStep
  BY <1>1 DEF HostDownload, AnyDownload, DownloadOf
<1>3. ASSUME NEW r, NEW n, Upload(CONTROL_BUFFER, r, n) PROVE HandlerStep
  BY <1>3, HostFacts DEF HandlerStep
<1>4. HostUpload => HandlerStep
  BY <1>3 DEF HostUpload
<1>5. HostManifestStatus \/ MainPoll(0) \/ MainPoll(1) => HandlerStep
  BY DEF HostManifestStatus, MainPoll, HandlerStep
<1>6. Boot \/ HostEnd \/ HostDownloadStatus \/ HostAbort \/ HostClear \/ HostUnexpected
        \/ UNCHANGED vars => UNCHANGED handlerVars
  BY DEF Boot, BootWith, HostEnd, HostDownloadStatus, HostAbort, HostClear,
         HostUnexpected, vars
<1>7. Controller \/ PanicReset \/ PowerCut => ControllerStep \/ HandlerReset
  BY DEF Controller, PanicReset, PowerCut, Reset,
     ControllerStep
<1> QED BY <1>2, <1>4, <1>5, <1>6, <1>7 DEF AnyNext, Next, Device, Host, HandlerStep

LEMMA BootloaderInit == Init => DriverInv /\ FlashInv
<1>1. \A image \in {FactoryImage} : IsImage(image)
  BY FactoryIsImage
<1> QED BY <1>1, DriverInvInit, FlashInvInit DEF Init

\* The bootloader calls its handler as any caller may.
LEMMA HandlerCorrect == Spec => [](DriverInv /\ FlashInv)
<1>1. DriverInv /\ FlashInv /\ [Next]_vars => (DriverInv /\ FlashInv)'
  BY BootloaderSteps, DriverInvStep, FlashInvStep DEF AnyNext
<1> QED BY <1>1, BootloaderInit, PTL DEF Spec

-----------------------------------------------------------------------------
\* What each action leaves, class and handler together.

HandlerInvs == DriverInv /\ FlashInv

LEMMA StateFields ==
    /\ \A t : Plain(t).tag = t
    /\ \A t, n : Timed(t, n).tag = t /\ Timed(t, n).timeout = n
    /\ \A e : DfuError(e).tag = "DfuError" /\ DfuError(e).error = e
BY DEF Plain, Timed, DfuError

LEMMA TagNames ==
    /\ DownloadTag = {"DfuDnloadSync", "DfuDnloadBusy", "DfuDnloadIdle"}
    /\ ManifestTag = {"DfuManifestSync", "DfuManifest"}
    /\ TimedTag = {"DfuDnloadBusy", "DfuManifest"}
BY DEF DownloadTag, ManifestTag, TimedTag

\* A block: it begins a download, goes on with one, or is refused.
Takes(number, len) ==
    LET block == Block(number, len)
    IN  /\ Serving /\ state.tag \in {"DfuIdle", "DfuDnloadIdle"}
        /\ number \in 1 .. MaxSession
        /\ UNCHANGED <<flash, finalised, mode, tidy, uploads>>
        /\ session' = number /\ received' = <<>>
        /\ hostSent' = IF state.tag = "DfuIdle" THEN block ELSE hostSent \o block
        /\ \/ /\ state' = Plain("DfuDnloadSync") /\ hstate' = "Download"
              /\ \/ hstate = "Idle" /\ sent' = block
                 \/ hstate = "Download" /\ sent' = sent \o block
           \/ state' = state /\ hstate' = "Panicked"
           \/ \E e \in HandlerError : state' = DfuError(e) /\ hstate' \in {"Idle", "Error"}

LEMMA DownloadEffect ==
    ASSUME FlashInv, AnyDownload
    PROVE  \E number : \E len \in BLOCKS : Takes(number, len)
<1>1. PICK len \in BLOCKS, number \in 1 .. MaxSession : DownloadOf(number, len)
  BY DEF AnyDownload
<1> DEFINE block == Block(number, len)
<1>2. PICK r \in PollAnswers : Download(block, r) /\ Returns(r, AcceptDownload(len, r))
  BY <1>1 DEF DownloadOf
<1>3. /\ Serving /\ AnswersOut("DFU_DNLOAD", len) /\ session' = number
      /\ hostSent' = IF state.tag = "DfuIdle" THEN block ELSE hostSent \o block
      /\ received' = <<>> /\ UNCHANGED <<mode, tidy, uploads>>
  BY <1>1 DEF DownloadOf
<1> HIDE DEF block
<1>4. state.tag \in {"DfuIdle", "DfuDnloadIdle"}
  BY <1>3 DEF AnswersOut
<1>5. /\ UNCHANGED <<flash, finalised>>
      /\ \/ r = "Ok" /\ hstate = "Idle" /\ hstate' = "Download" /\ sent' = block
         \/ r = "Ok" /\ hstate = "Download" /\ hstate' = "Download" /\ sent' = sent \o block
         \/ r = "panic" /\ hstate' = "Panicked"
         \/ r \in HandlerError /\ hstate' \in {"Idle", "Error"}
  BY <1>2, DownloadAnswers
<1>6. /\ r = "Ok" => state' = Plain("DfuDnloadSync")
      /\ r = "panic" => state' = state
      /\ r \in HandlerError => state' = DfuError(r)
  BY <1>2 DEF Returns, AcceptDownload, HandlerError
<1> QED BY <1>3, <1>4, <1>5, <1>6 DEF block, Takes

\* A host that has begun a download has a number for it.
LEMMA HostDownloads == ASSUME TypeInv, HostDownload PROVE AnyDownload
<1>1. PICK len \in BLOCKS, number \in {IF state.tag = "DfuIdle" THEN session + 1 ELSE session} :
          number <= MaxSession /\ DownloadOf(number, len)
  BY DEF HostDownload
<1>2. state.tag \in {"DfuIdle", "DfuDnloadIdle"}
  BY <1>1 DEF DownloadOf, AnswersOut
<1>3. number \in 1 .. MaxSession
  BY <1>1, <1>2, HostFacts, TagNames DEF TypeInv
<1> QED BY <1>1, <1>3 DEF AnyDownload

\* A GETSTATUS of a manifestation.
LEMMA ManifestEffect ==
    ASSUME DriverInv, FlashInv, FlashInv', HostManifestStatus
    PROVE  /\ Serving /\ state.tag \in ManifestTag /\ flash' = flash /\ UNCHANGED hostVars
           /\ \/ /\ state' = Timed("DfuManifest", POLL_TIMEOUT)
                 /\ hstate' = "Manifetation" /\ Busy /\ sent' = sent
              \/ /\ hstate' = "Idle" /\ state' \in {Plain("DfuIdle"), DfuError("StalledPkt")}
                 /\ \/ hstate = "Manifetation" /\ Entire(sent)
                    \/ hstate = "Idle" /\ UNCHANGED handlerVars
              \/ state' = state /\ hstate' = "Panicked"
              \/ state' = DfuError("StalledPkt") /\ hstate' = "Error"
<1>1. PICK a : IsManifestationInProgress(a) /\ Returns(a, ManifestStatus(a))
  BY DEF HostManifestStatus
<1>2. /\ flash' = flash
      /\ \/ a = "true" /\ hstate' = "Manifetation" /\ Busy /\ sent' = sent
         \/ a = "false" /\ hstate = "Manifetation" /\ hstate' = "Idle" /\ Entire(sent)
         \/ a = "false" /\ hstate = "Idle" /\ hstate' = "Idle" /\ UNCHANGED handlerVars
         \/ a = "panic" /\ hstate' = "Panicked"
         \/ a \in HandlerError /\ hstate' = "Error"
  BY <1>1, ManifestationAnswers
<1>3. /\ a = "true" => state' = Timed("DfuManifest", POLL_TIMEOUT)
      /\ a = "false" => state' \in {Plain("DfuIdle"), DfuError("StalledPkt")}
      /\ a = "panic" => state' = state
      /\ a \in HandlerError => state' = DfuError("StalledPkt")
  BY <1>1 DEF Returns, ManifestStatus, Stall, HandlerError, Error
<1>4. Serving /\ state.tag \in ManifestTag /\ UNCHANGED hostVars
  BY DEF HostManifestStatus, ManifestTag
<1> QED BY <1>2, <1>3, <1>4

\* A poll of the main loop.
LEMMA MainPollEffect ==
    ASSUME DriverInv, FlashInv, FlashInv', ClassType, NEW elapsed \in {0, 1}, MainPoll(elapsed)
    PROVE  /\ Serving /\ state.tag \in TimedTag /\ UNCHANGED <<flash, slice>>
           /\ UNCHANGED hostVars
           /\ \/ /\ \/ state'.tag = state.tag /\ ClassType'
                    \/ /\ state.tag = "DfuDnloadBusy"
                       /\ state' = Plain("DfuDnloadSync")
                    \/ /\ state.tag = "DfuManifest"
                       /\ state' \in {Plain("DfuManifestSync"), Plain("DfuManifestWaitReset")}
                 /\ \/ UNCHANGED <<hstate, sent>>
                    \/ hstate = "Manifetation" /\ hstate' = "Idle" /\ Entire(sent)
              \/ state' = state /\ hstate' = "Panicked"
              \/ \E e \in HandlerError : state' = DfuError(e) /\ hstate' = "Error"
<1>1. PICK r \in PollAnswers : HandlerPoll(r) /\ Returns(r, Poll(elapsed, r))
  BY DEF MainPoll
<1>2. /\ UNCHANGED <<flash, finalised, slice>>
      /\ \/ r = "Ok" /\ UNCHANGED <<hstate, sent>>
         \/ r = "Ok" /\ hstate = "Manifetation" /\ hstate' = "Idle" /\ Entire(sent)
         \/ r = "panic" /\ hstate' = "Panicked"
         \/ r \in HandlerError /\ hstate' = "Error"
  BY <1>1, PollAnswersAre
<1>3. Serving /\ state.tag \in TimedTag /\ UNCHANGED hostVars
  BY DEF MainPoll, PollsHandler
<1> DEFINE remaining == SaturatingSub(state.timeout, elapsed)
<1>4. ASSUME r = "Ok"
      PROVE  \/ state'.tag = state.tag /\ ClassType'
             \/ /\ state.tag = "DfuDnloadBusy"
                /\ state' = Plain("DfuDnloadSync")
             \/ /\ state.tag = "DfuManifest"
                /\ state' \in {Plain("DfuManifestSync"), Plain("DfuManifestWaitReset")}
  <2>1. PICK tag \in TimedTag, t \in 1 .. POLL_TIMEOUT : state = Timed(tag, t)
    BY <1>3 DEF ClassType, ModeState, Plain, DfuError, PlainTag, TimedTag
  <2>2. state.tag = tag /\ state.timeout = t
    BY <2>1, StateFields
  <2>3. remaining \in 0 .. POLL_TIMEOUT
    BY <2>2, CapabilitiesAssumption DEF SaturatingSub
  <2>4. Poll(elapsed, r)
    BY <1>1, <1>4 DEF Returns
  <2>5. CASE remaining # 0 /\ state' = Timed(tag, remaining)
    <3>1. ClassType'
      BY <2>3, <2>5 DEF ClassType, ModeState
    <3> QED BY <2>2, <2>5, <3>1, StateFields
  <2>6. CASE state' = Plain(IF tag = "DfuDnloadBusy" THEN "DfuDnloadSync"
                            ELSE IF IS_MANIFESTATION_TOLERANT THEN "DfuManifestSync"
                            ELSE "DfuManifestWaitReset")
    BY <2>2, <2>6 DEF TimedTag
  <2> QED BY <1>4, <2>2, <2>4, <2>5, <2>6 DEF Poll
<1>5. /\ r = "panic" => state' = state
      /\ r \in HandlerError => state' = DfuError(r)
  BY <1>1 DEF Returns, Poll, HandlerError
<1> QED BY <1>2, <1>3, <1>4, <1>5

\* What an upload hands over: nothing, or the next n bytes of a slice that it
\* has just begun or goes on with.
NextPart(s, n) ==
    /\ \/ /\ hstate = "Idle" /\ s.at = APPLICATION_REGION_START
          /\ s.end - APPLICATION_REGION_START \in ManifestLengths(flash)
       \/ hstate = "Upload" /\ s = slice
    /\ s.at \in Nat /\ s.end \in Nat
    /\ APPLICATION_REGION_START <= s.at /\ s.at <= s.end /\ s.end <= MANIFEST_REGION_START
    /\ n = IF CONTROL_BUFFER < s.end - s.at THEN CONTROL_BUFFER ELSE s.end - s.at
    /\ IF n = 0 THEN hstate' = "Idle" /\ slice' = NoSlice
       ELSE hstate' = "Upload" /\ slice'.at = s.at + n /\ slice'.end = s.end

LEMMA LengthsFit == \A f : \A n \in ManifestLengths(f) : n \in Nat /\ n <= APPLICATION_LENGTH
BY ApplicationFacts DEF ManifestLengths

LEMMA UploadIsNext ==
    ASSUME FlashInv, NEW r, NEW n, Upload(CONTROL_BUFFER, r, n)
    PROVE  /\ UNCHANGED <<flash, memory, op, program, sent, finalised>>
           /\ \/ r = "Ok" /\ \E s : NextPart(s, n)
              \/ /\ r = "Unknown" /\ n = 0 /\ UNCHANGED handlerVars
                 /\ hstate \in {"Download", "Manifetation", "Error"}
<1>1. CASE r = "Unknown" /\ n = 0 /\ UNCHANGED handlerVars
             /\ hstate \in {"Download", "Manifetation", "Error"}
  BY <1>1 DEF handlerVars, memVars
<1>2. ASSUME NEW s, s \in IF hstate = "Idle"
                    THEN {[at |-> APPLICATION_REGION_START,
                           end |-> APPLICATION_REGION_START + len] : len \in ManifestLengths(flash)}
                    ELSE {slice},
             hstate \in {"Idle", "Upload"}, r = "Ok",
             n = IF CONTROL_BUFFER < s.end - s.at THEN CONTROL_BUFFER ELSE s.end - s.at,
             hstate' = IF n = 0 THEN "Idle" ELSE "Upload",
             slice' = IF n = 0 THEN NoSlice ELSE [s EXCEPT !.at = @ + n],
             UNCHANGED <<program, sent, finalised, memVars>>
      PROVE  UNCHANGED <<flash, memory, op, program, sent, finalised>> /\ NextPart(s, n)
  <2>1. UNCHANGED <<flash, memory, op, program, sent, finalised>>
    BY <1>2 DEF memVars
  <2>2. /\ APPLICATION_REGION_START \in Nat /\ MANIFEST_REGION_START \in Nat
        /\ APPLICATION_REGION_START <= MANIFEST_REGION_START
        /\ APPLICATION_LENGTH = MANIFEST_REGION_START - APPLICATION_REGION_START
    BY ApplicationFacts, ManifestFacts
  <2>3. CASE hstate = "Idle"
    <3>1. PICK len \in ManifestLengths(flash) :
              s = [at |-> APPLICATION_REGION_START, end |-> APPLICATION_REGION_START + len]
      BY <1>2, <2>3
    <3>2. len \in Nat /\ len <= APPLICATION_LENGTH
      BY LengthsFit
    <3>3. /\ s.at = APPLICATION_REGION_START /\ s.end = APPLICATION_REGION_START + len
          /\ n # 0 => slice'.at = s.at + n /\ slice'.end = s.end
      BY <3>1, <1>2
    <3>4. s.end - APPLICATION_REGION_START = len
      BY <3>2, <3>3, <2>2
    <3>5. s.end \in Nat /\ s.at <= s.end /\ s.end <= MANIFEST_REGION_START
      BY <3>2, <3>3, <2>2
    <3> QED BY <1>2, <2>1, <2>2, <2>3, <3>3, <3>4, <3>5 DEF NextPart
  <2>4. CASE hstate = "Upload"
    <3>1. s = slice
      BY <1>2, <2>4
    <3>2. /\ slice \in [at : Nat, end : Nat] /\ slice.at <= slice.end
          /\ APPLICATION_REGION_START < slice.at /\ slice.end <= MANIFEST_REGION_START
      BY <2>4 DEF FlashInv, SliceInv
    <3>3. n # 0 => slice'.at = s.at + n /\ slice'.end = s.end
      BY <3>1, <3>2, <1>2
    <3>4. APPLICATION_REGION_START <= s.at
      BY <3>1, <3>2, <2>2
    <3> QED BY <1>2, <2>1, <2>4, <3>1, <3>2, <3>3, <3>4 DEF NextPart
  <2> QED BY <1>2, <2>3, <2>4
<1> QED BY <1>1, <1>2 DEF Upload

\* An upload, class and handler together; the host gets the first len of n.
LEMMA UploadEffect ==
    ASSUME FlashInv, HostUpload
    PROVE  \E len \in UPLOADS, n \in 0 .. CONTROL_BUFFER :
              /\ Serving /\ state.tag \in {"DfuIdle", "DfuUploadIdle"}
              /\ UNCHANGED <<flash, memory, op, program, sent, finalised,
                             mode, session, hostSent, tidy>>
              /\ received' = (IF state.tag = "DfuIdle" THEN <<>> ELSE received)
                                \o Transferred(n, len)
              /\ uploads' = IF \/ len # CONTROL_BUFFER
                               \/ uploads # IF state.tag = "DfuIdle" THEN "none" ELSE "whole"
                            THEN "other" ELSE IF n = 0 THEN "none" ELSE "whole"
              /\ \/ /\ state' = IF n < len THEN Plain("DfuIdle") ELSE Plain("DfuUploadIdle")
                    /\ \E s : NextPart(s, n)
                 \/ /\ state' = DfuError("Unknown") /\ n = 0 /\ UNCHANGED handlerVars
                    /\ hstate \in {"Download", "Manifetation", "Error"}
<1>1. PICK len \in UPLOADS, r \in PollAnswers, n \in 0 .. CONTROL_BUFFER :
          /\ AcceptUpload(len, r, n) /\ Upload(CONTROL_BUFFER, r, n)
          /\ received' = (IF state.tag = "DfuIdle" THEN <<>> ELSE received)
                            \o Transferred(n, len)
          /\ uploads' = IF \/ len # CONTROL_BUFFER
                           \/ uploads # IF state.tag = "DfuIdle" THEN "none" ELSE "whole"
                        THEN "other" ELSE IF n = 0 THEN "none" ELSE "whole"
  BY DEF HostUpload
<1>2. Serving /\ UNCHANGED <<mode, session, hostSent, tidy>>
  BY DEF HostUpload
<1>3. state.tag \in {"DfuIdle", "DfuUploadIdle"}
  BY <1>1 DEF AcceptUpload, AnswersIn
<1>4. /\ r = "Ok" => state' = IF n < len THEN Plain("DfuIdle") ELSE Plain("DfuUploadIdle")
      /\ r = "Unknown" => state' = DfuError("Unknown")
  BY <1>1 DEF AcceptUpload
<1>5. /\ UNCHANGED <<flash, memory, op, program, sent, finalised>>
      /\ \/ r = "Ok" /\ \E s : NextPart(s, n)
         \/ /\ r = "Unknown" /\ n = 0 /\ UNCHANGED handlerVars
            /\ hstate \in {"Download", "Manifetation", "Error"}
  BY <1>1, UploadIsNext
<1> QED BY <1>1, <1>2, <1>3, <1>4, <1>5

-----------------------------------------------------------------------------
\* Each action keeps the parts.

BootInv == AgreeInv /\ TypeInv /\ SuccessInv /\ OwnInv /\ FetchInv

LEMMA ModeStates ==
    /\ \A t \in PlainTag : Plain(t) \in ModeState(POLL_TIMEOUT)
    /\ \A t \in TimedTag : \A n \in 1 .. POLL_TIMEOUT : Timed(t, n) \in ModeState(POLL_TIMEOUT)
    /\ \A e \in Error : DfuError(e) \in ModeState(POLL_TIMEOUT)
    /\ POLL_TIMEOUT \in 1 .. POLL_TIMEOUT /\ NoClass \in ModeState(POLL_TIMEOUT)
BY CapabilitiesAssumption DEF ModeState, NoClass, PlainTag

\* The controller has nothing to do for a handler that owns no Program.
LEMMA QuietFlash ==
    /\ DriverInv /\ hstate \in {"Idle", "Upload"} => op = MemIdle
    /\ DriverInv /\ Busy /\ program.st = "AwaitData" => op = MemIdle
BY DEF DriverInv, Busy

LEMMA NoClassTag == NoClass.tag = "DfuIdle"
BY DEF NoClass, Plain

\* A step of the class alone.
LEMMA BootKeeps == ASSUME BootInv, Boot PROVE BootInv'
<1>1. /\ mode = "off" /\ state = NoClass /\ hstate = "Idle" /\ UNCHANGED handlerVars
      /\ UNCHANGED <<session, hostSent, tidy, uploadVars>>
      /\ mode' \in {"app", "dfu"}
      /\ mode' = "app" => state' = NoClass
      /\ state' \in {NoClass, DfuError("Firmware")}
  BY DEF Boot, BootWith, BootInv, AgreeInv, ClassNew, NoClass
<1>2. state'.tag \in {"DfuIdle", "DfuError"}
  BY <1>1, NoClassTag, StateFields
<1>3. UNCHANGED <<flash, hstate, program, slice, sent, op, session, hostSent, tidy, received, uploads>>
  BY <1>1 DEF handlerVars, memVars, uploadVars
<1>4. AgreeInv'
  BY <1>1, <1>2, <1>3, TagNames DEF AgreeInv, ClassAgreesWithHandler
<1>5. TypeInv'
  <2>1. state' \in ModeState(POLL_TIMEOUT)
    BY <1>1, ModeStates DEF Error
  <2> QED BY <2>1, <1>2, <1>3, TagNames DEF BootInv, TypeInv, ClassType
<1>6. SuccessInv' /\ OwnInv' /\ FetchInv'
  BY <1>1, <1>2, <1>3, TagNames DEF SuccessInv, OwnInv, FetchInv, Busy
<1> QED BY <1>4, <1>5, <1>6 DEF BootInv

\* The class asks and moves on; the handler does not change.
LEMMA AskEffect ==
    ASSUME BootInv, DriverInv, HostEnd \/ HostDownloadStatus \/ HostAbort \/ HostClear
    PROVE  /\ Serving /\ UNCHANGED handlerVars /\ UNCHANGED hostVars
           /\ \/ /\ state.tag = "DfuDnloadIdle" /\ state' = Plain("DfuManifestSync")
                 /\ hstate = "Download" /\ program.st = "AwaitData"
              \/ /\ state.tag \in {"DfuDnloadSync", "DfuDnloadBusy"} /\ hstate = "Download"
                 /\ \/ /\ state' = Plain("DfuDnloadIdle")
                       /\ program.st = "AwaitData" /\ op = MemIdle
                    \/ state' = Timed("DfuDnloadBusy", POLL_TIMEOUT)
              \/ state.tag = "DfuUploadIdle" /\ state' = Plain("DfuIdle") /\ hstate = "Upload"
              \/ state.tag = "DfuError" /\ state' = Plain("DfuIdle")
<1>1. Serving /\ UNCHANGED handlerVars /\ UNCHANGED hostVars
  BY DEF HostEnd, HostDownloadStatus, HostAbort, HostClear
<1>2. /\ state.tag \in DownloadTag => hstate = "Download"
      /\ state.tag = "DfuDnloadIdle" => program.st = "AwaitData"
      /\ state.tag = "DfuUploadIdle" => hstate = "Upload"
  BY <1>1 DEF Serving, BootInv, AgreeInv, ClassAgreesWithHandler
<1>3. CASE HostEnd
  <2>1. state.tag = "DfuDnloadIdle"
    BY <1>3 DEF HostEnd, EndDownload
  <2>2. IsTransferComplete = "true"
    BY <2>1, <1>2, TagNames DEF IsTransferComplete
  <2>3. state' = Plain("DfuManifestSync")
    BY <2>2, <1>3 DEF HostEnd, EndDownload
  <2> QED BY <1>1, <1>2, <2>1, <2>3, TagNames
<1>4. CASE HostDownloadStatus
  <2>1. state.tag \in {"DfuDnloadSync", "DfuDnloadBusy"} /\ hstate = "Download"
    BY <1>2, <1>4, TagNames DEF HostDownloadStatus, DownloadStatus
  <2>2. CASE program.st = "AwaitData"
    <3>1. IsTransferComplete = "true"
      BY <2>1, <2>2 DEF IsTransferComplete
    <3>2. state' = Plain("DfuDnloadIdle")
      BY <3>1, <1>4 DEF HostDownloadStatus, DownloadStatus
    <3> QED BY <1>1, <2>1, <2>2, <3>2, QuietFlash DEF Busy
  <2>3. CASE program.st # "AwaitData"
    <3>1. IsTransferComplete = "false"
      BY <2>1, <2>3 DEF IsTransferComplete
    <3> QED BY <1>1, <2>1, <3>1, <1>4 DEF HostDownloadStatus, DownloadStatus
  <2> QED BY <2>2, <2>3
<1>5. CASE HostAbort
  BY <1>1, <1>2, <1>5 DEF HostAbort, AbortUpload
<1>6. CASE HostClear
  BY <1>1, <1>6 DEF HostClear, ClearStatus
<1> QED BY <1>3, <1>4, <1>5, <1>6

LEMMA AskKeeps ==
    ASSUME BootInv, DriverInv, HostEnd \/ HostDownloadStatus \/ HostAbort \/ HostClear
    PROVE  BootInv'
<1>1. /\ Serving /\ UNCHANGED <<flash, hstate, program, slice, sent, op>>
      /\ UNCHANGED <<mode, session, hostSent, tidy, received, uploads>>
  BY AskEffect DEF handlerVars, memVars, hostVars, uploadVars
<1>2. \/ /\ state.tag = "DfuDnloadIdle" /\ state' = Plain("DfuManifestSync")
         /\ hstate = "Download" /\ program.st = "AwaitData"
      \/ /\ state.tag \in {"DfuDnloadSync", "DfuDnloadBusy"} /\ hstate = "Download"
         /\ \/ /\ state' = Plain("DfuDnloadIdle")
               /\ program.st = "AwaitData" /\ op = MemIdle
            \/ state' = Timed("DfuDnloadBusy", POLL_TIMEOUT)
      \/ state.tag = "DfuUploadIdle" /\ state' = Plain("DfuIdle") /\ hstate = "Upload"
      \/ state.tag = "DfuError" /\ state' = Plain("DfuIdle")
  BY AskEffect
<1>3. \/ state'.tag = "DfuManifestSync" /\ state.tag = "DfuDnloadIdle"
         /\ hstate = "Download" /\ program.st = "AwaitData"
      \/ /\ state'.tag = "DfuDnloadIdle" /\ state.tag \in DownloadTag
         /\ hstate = "Download" /\ program.st = "AwaitData" /\ op = MemIdle
      \/ state'.tag = "DfuDnloadBusy" /\ state.tag \in DownloadTag /\ hstate = "Download"
      \/ state'.tag = "DfuIdle" /\ state.tag = "DfuUploadIdle" /\ hstate = "Upload"
      \/ state'.tag = "DfuIdle" /\ state.tag = "DfuError"
  BY <1>2, StateFields, TagNames
<1>4. AgreeInv'
  BY <1>1, <1>3, TagNames DEF Serving, AgreeInv, ClassAgreesWithHandler, BootInv
<1>5. TypeInv'
  <2>1. state' \in ModeState(POLL_TIMEOUT)
    BY <1>2, ModeStates DEF PlainTag, TimedTag
  <2> QED BY <2>1, <1>1, <1>3, TagNames DEF BootInv, TypeInv, ClassType
<1>6. SuccessInv'
  BY <1>1, <1>3, TagNames DEF SuccessInv, Serving
<1>7. OwnInv'
  BY <1>1, <1>3, TagNames DEF OwnInv, Serving, Busy, BootInv
<1>8. FetchInv'
  BY <1>1, <1>3 DEF FetchInv, Serving, BootInv
<1> QED BY <1>4, <1>5, <1>6, <1>7, <1>8 DEF BootInv

\* A request the class does not expect stalls: the host is not tidy any more.
LEMMA UnexpectedKeeps == ASSUME BootInv, HostUnexpected PROVE BootInv'
<1>1. /\ Serving /\ UNCHANGED <<flash, hstate, program, slice, sent, op>>
      /\ UNCHANGED <<mode, session, hostSent, received, uploads>> /\ tidy' = FALSE
      /\ state' = DfuError("StalledPkt") /\ state'.tag = "DfuError"
  BY StateFields DEF HostUnexpected, UnexpectedIn, UnexpectedOut, Stall, handlerVars, memVars, uploadVars
<1>2. AgreeInv'
  BY <1>1, TagNames DEF Serving, AgreeInv, ClassAgreesWithHandler, BootInv
<1>3. TypeInv'
  <2>1. state' \in ModeState(POLL_TIMEOUT)
    BY <1>1, ModeStates DEF Error
  <2> QED BY <2>1, <1>1, TagNames DEF BootInv, TypeInv, ClassType
<1>4. SuccessInv' /\ OwnInv' /\ FetchInv'
  BY <1>1, TagNames DEF SuccessInv, OwnInv, FetchInv, Serving, BootInv
<1> QED BY <1>2, <1>3, <1>4 DEF BootInv

\* The flash changes under a handler that waits for it, and no other.
LEMMA ControllerKeeps == ASSUME BootInv, DriverInv, Controller PROVE BootInv'
<1>1. /\ op # MemIdle /\ UNCHANGED <<hstate, program, slice, sent, state>>
      /\ UNCHANGED <<mode, session, hostSent, tidy, received, uploads>>
      /\ op' = MemIdle
  BY DEF Controller, ControllerDone, hostVars, uploadVars
<1>2. hstate \notin {"Idle", "Upload"}
  BY <1>1, QuietFlash
<1>3. AgreeInv'
  BY <1>1, TagNames DEF AgreeInv, ClassAgreesWithHandler, BootInv
<1>4. TypeInv'
  BY <1>1, TagNames DEF BootInv, TypeInv, ClassType
<1>5. SuccessInv' /\ OwnInv'
  BY <1>1, <1>2 DEF SuccessInv, OwnInv, Serving, BootInv, Busy
<1>6. FetchInv'
  <2>1. Serving /\ state.tag = "DfuUploadIdle" => hstate = "Upload"
    BY DEF BootInv, AgreeInv, ClassAgreesWithHandler, Serving
  <2> QED BY <1>1, <1>2, <2>1 DEF FetchInv, BootInv, Serving
<1> QED BY <1>3, <1>4, <1>5, <1>6 DEF BootInv

LEMMA ResetKeeps == ASSUME BootInv, Reset PROVE BootInv'
<1>1. /\ mode' = "off" /\ state' = NoClass /\ hostSent' = <<>> /\ tidy' = TRUE
      /\ received' = <<>> /\ uploads' = "none" /\ session' = session /\ hstate' = "Idle"
  BY DEF Reset, HandlerReset
<1>2. AgreeInv'
  BY <1>1 DEF AgreeInv, ClassAgreesWithHandler
<1>3. TypeInv'
  <2>1. state' \in ModeState(POLL_TIMEOUT) /\ state'.tag = "DfuIdle"
    BY <1>1, ModeStates, NoClassTag
  <2>2. IsBytes(<<>>) /\ Len(<<>>) = 0
    BY EmptyIsBytes
  <2>3. 0 <= APPLICATION_LENGTH
    BY ApplicationFacts
  <2> QED BY <2>1, <2>2, <2>3, <1>1, TagNames DEF BootInv, TypeInv, ClassType
<1>4. SuccessInv' /\ OwnInv' /\ FetchInv'
  BY <1>1 DEF SuccessInv, OwnInv, FetchInv, Serving
<1> QED BY <1>2, <1>3, <1>4 DEF BootInv

LEMMA JoinAll ==
    ASSUME NEW S, NEW q, IsBytes(q), \A i \in 1 .. Len(q) : q[i] \in S,
                  NEW t, IsBytes(t), \A i \in 1 .. Len(t) : t[i] \in S
    PROVE  IsBytes(q \o t) /\ \A i \in 1 .. Len(q \o t) : (q \o t)[i] \in S
<1>1. q \in Seq(S) /\ t \in Seq(S)
  BY DEF IsBytes
<1> DEFINE u == q \o t
<1>2. u \in Seq(S)
  BY <1>1
<1> HIDE DEF u
<1>3. IsBytes(u)
  BY <1>2, SeqIsBytes
<1>4. \A i \in 1 .. Len(u) : u[i] \in S
  BY <1>2
<1> QED BY <1>3, <1>4 DEF u

\* A block: what was sent grows on both sides, or the download is over.
LEMMA DownloadKeeps == ASSUME BootInv, DriverInv, FlashInv, AnyDownload PROVE BootInv'
<1>1. PICK number : \E l \in BLOCKS : Takes(number, l)
  BY DownloadEffect
<1>2. PICK len \in BLOCKS : Takes(number, len)
  BY <1>1
<1> DEFINE block == Block(number, len)
<1>3. /\ Serving /\ state.tag \in {"DfuIdle", "DfuDnloadIdle"}
      /\ number \in 1 .. MaxSession
      /\ UNCHANGED <<flash, mode, tidy, uploads>>
      /\ session' = number /\ received' = <<>>
      /\ hostSent' = IF state.tag = "DfuIdle" THEN block ELSE hostSent \o block
  BY <1>2 DEF Takes
<1>4. \/ /\ state' = Plain("DfuDnloadSync") /\ hstate' = "Download"
         /\ \/ hstate = "Idle" /\ sent' = block
            \/ hstate = "Download" /\ sent' = sent \o block
      \/ state' = state /\ hstate' = "Panicked"
      \/ \E e \in HandlerError : state' = DfuError(e) /\ hstate' \in {"Idle", "Error"}
  BY <1>2 DEF Takes
<1>5. /\ IsBytes(block) /\ Len(block) = len /\ len \in Nat
      /\ \A k \in 1 .. len : \E n \in Nat : block[k] = <<"data", number, n>>
  BY BlockFacts, HostFacts DEF IsData
<1> HIDE DEF block
<1>6. \/ state'.tag = "DfuDnloadSync" /\ hstate' = "Download"
      \/ state' = state /\ hstate' = "Panicked"
      \/ state'.tag = "DfuError" /\ hstate' \in {"Idle", "Error"}
  BY <1>4, StateFields
<1>7. AgreeInv'
  BY <1>3, <1>6, TagNames DEF Serving, AgreeInv, ClassAgreesWithHandler, BootInv
<1>8. number \in 1 .. MaxSession
  BY <1>3
<1>9. TypeInv'
  <2>1. state' \in ModeState(POLL_TIMEOUT)
    BY <1>4, ModeStates, AnswersSorted DEF BootInv, TypeInv, ClassType, PlainTag
  <2>2. \A k \in 1 .. Len(block) : block[k] \in HostByte
    <3>1. SUFFICES ASSUME NEW k \in 1 .. Len(block) PROVE block[k] \in HostByte
      OBVIOUS
    <3>2. PICK n \in Nat : block[k] = <<"data", number, n>>
      BY <1>5
    <3> QED BY <3>2, <1>8 DEF HostByte
  <2>3. IsBytes(hostSent') /\ \A i \in 1 .. Len(hostSent') : hostSent'[i] \in HostByte
    <3>1. CASE state.tag = "DfuIdle"
      BY <1>3, <1>5, <2>2, <3>1
    <3>2. CASE state.tag # "DfuIdle"
      <4>1. IsBytes(hostSent) /\ \A i \in 1 .. Len(hostSent) : hostSent[i] \in HostByte
        BY DEF BootInv, TypeInv
      <4>2. hostSent' = hostSent \o block
        BY <1>3, <3>2
      <4>3. IsBytes(block)
        BY <1>5
      <4> QED BY <4>1, <4>2, <4>3, <2>2, JoinAll
    <3> QED BY <3>1, <3>2
  <2>4. IsBytes(<<>>) /\ Len(<<>>) = 0 /\ 0 <= APPLICATION_LENGTH
    BY EmptyIsBytes, ApplicationFacts
  <2>5. state'.tag # "DfuUploadIdle"
    BY <1>3, <1>6
  <2>6. session' \in 0 .. MaxSession /\ session' > 0
    BY <1>3, <1>8
  <2>7. tidy' \in BOOLEAN /\ uploads' \in {"none", "whole", "other"}
    BY <1>3 DEF BootInv, TypeInv
  <2>8. received' = <<>>
    BY <1>3
  <2> QED BY <2>1, <2>3, <2>4, <2>5, <2>6, <2>7, <2>8 DEF TypeInv, ClassType
<1>10. SuccessInv'
  BY <1>6, TagNames DEF SuccessInv, Serving
<1>11. OwnInv'
  <2>1. ASSUME tidy, state'.tag = "DfuDnloadSync"
        PROVE  sent' = hostSent'
    <3>1. CASE state.tag = "DfuIdle"
      <4>1. ~Busy
        BY <2>1, <3>1, <1>3 DEF BootInv, OwnInv
      <4> QED BY <4>1, <3>1, <2>1, <1>3, <1>4, StateFields DEF Busy, Serving
    <3>2. CASE state.tag = "DfuDnloadIdle"
      <4>1. hstate = "Download"
        BY <1>3, <3>2, TagNames DEF BootInv, AgreeInv, ClassAgreesWithHandler, Serving
      <4>2. sent = hostSent
        BY <2>1, <3>2, <1>3, <4>1, TagNames DEF BootInv, OwnInv, Busy
      <4> QED BY <4>1, <4>2, <3>2, <2>1, <1>3, <1>4, StateFields DEF Serving
    <3> QED BY <3>1, <3>2, <1>3
  <2> QED BY <2>1, <1>3, <1>6, TagNames DEF OwnInv, Serving, Busy
<1>12. FetchInv'
  BY <1>3, <1>6 DEF FetchInv, Serving, BootInv
<1> QED BY <1>7, <1>9, <1>10, <1>11, <1>12 DEF BootInv

\* A handler that ends a manifestation leaves a valid image, the one it has.
LEMMA EntireIsInstalled ==
    ASSUME NEW s, Entire(s)
    PROVE  HashValid(flash) /\ ImageAt(flash, Len(s)) = s
BY EntireIsValid, ImageIsOnFlash DEF Entire

LEMMA ManifestKeeps ==
    ASSUME BootInv, DriverInv, FlashInv, FlashInv', HostManifestStatus
    PROVE  BootInv'
<1>1. /\ Serving /\ state.tag \in ManifestTag /\ flash' = flash
      /\ UNCHANGED <<mode, session, hostSent, tidy, received, uploads>>
  BY ManifestEffect DEF hostVars, uploadVars
<1>2. \/ /\ state' = Timed("DfuManifest", POLL_TIMEOUT)
         /\ hstate' = "Manifetation" /\ Busy /\ sent' = sent
      \/ hstate' = "Idle" /\ state' \in {Plain("DfuIdle"), DfuError("StalledPkt")}
      \/ state' = state /\ hstate' = "Panicked"
      \/ state' = DfuError("StalledPkt") /\ hstate' = "Error"
  BY ManifestEffect
<1>3. \/ /\ state'.tag = "DfuManifest"
         /\ hstate' = "Manifetation" /\ Busy /\ sent' = sent
      \/ hstate' = "Idle" /\ state'.tag \in {"DfuIdle", "DfuError"}
      \/ hstate' = "Panicked"
      \/ state'.tag = "DfuError" /\ hstate' = "Error"
  BY <1>2, StateFields
<1>4. AgreeInv'
  BY <1>1, <1>3, TagNames DEF Serving, AgreeInv, ClassAgreesWithHandler, BootInv
<1>5. TypeInv'
  <2>1. state' \in ModeState(POLL_TIMEOUT)
    BY <1>2, ModeStates DEF PlainTag, TimedTag, Error, BootInv, TypeInv, ClassType
  <2>2. state'.tag \notin DownloadTag /\ state'.tag # "DfuUploadIdle"
    BY <1>1, <1>2, StateFields, TagNames
  <2> QED BY <2>1, <2>2, <1>1 DEF BootInv, TypeInv, ClassType
<1>6. SuccessInv'
  BY <1>3, TagNames DEF SuccessInv, Serving
<1>7. OwnInv'
  BY <1>1, <1>3, TagNames DEF OwnInv, Serving, Busy, BootInv
<1>8. FetchInv'
  BY <1>3 DEF FetchInv, Serving
<1> QED BY <1>4, <1>5, <1>6, <1>7, <1>8 DEF BootInv

LEMMA PollKeeps ==
    ASSUME BootInv, DriverInv, FlashInv, FlashInv', NEW elapsed \in {0, 1}, MainPoll(elapsed)
    PROVE  BootInv'
<1>1. /\ Serving /\ state.tag \in TimedTag /\ UNCHANGED <<flash, slice>>
      /\ UNCHANGED <<mode, session, hostSent, tidy, received, uploads>>
  BY MainPollEffect DEF hostVars, uploadVars, BootInv, TypeInv
<1>2. \/ /\ \/ state'.tag = state.tag /\ ClassType'
            \/ /\ state.tag = "DfuDnloadBusy"
               /\ state' = Plain("DfuDnloadSync")
            \/ /\ state.tag = "DfuManifest"
               /\ state' \in {Plain("DfuManifestSync"), Plain("DfuManifestWaitReset")}
         /\ \/ UNCHANGED <<hstate, sent>>
            \/ hstate = "Manifetation" /\ hstate' = "Idle" /\ Entire(sent)
      \/ state' = state /\ hstate' = "Panicked"
      \/ \E e \in HandlerError : state' = DfuError(e) /\ hstate' = "Error"
  BY MainPollEffect DEF BootInv, TypeInv
<1>3. \/ /\ \/ state.tag = "DfuDnloadBusy" /\ state'.tag \in {"DfuDnloadBusy", "DfuDnloadSync"}
            \/ /\ state.tag = "DfuManifest"
               /\ state'.tag \in {"DfuManifest", "DfuManifestSync", "DfuManifestWaitReset"}
         /\ \/ UNCHANGED <<hstate, sent>>
            \/ hstate = "Manifetation" /\ hstate' = "Idle" /\ Entire(sent)
      \/ state' = state /\ hstate' = "Panicked"
      \/ state'.tag = "DfuError" /\ hstate' = "Error"
  BY <1>1, <1>2, StateFields, TagNames
<1>4. /\ state.tag = "DfuDnloadBusy" => hstate = "Download"
      /\ state.tag = "DfuManifest" => hstate \in {"Manifetation", "Idle"}
  BY <1>1, TagNames DEF BootInv, AgreeInv, ClassAgreesWithHandler, Serving
<1>5. \/ /\ state.tag = "DfuDnloadBusy" /\ state'.tag \in {"DfuDnloadBusy", "DfuDnloadSync"}
         /\ hstate = "Download" /\ UNCHANGED <<hstate, sent>>
      \/ /\ state.tag = "DfuManifest"
         /\ state'.tag \in {"DfuManifest", "DfuManifestSync", "DfuManifestWaitReset"}
         /\ \/ hstate \in {"Manifetation", "Idle"} /\ UNCHANGED <<hstate, sent>>
            \/ hstate = "Manifetation" /\ hstate' = "Idle" /\ Entire(sent)
      \/ state' = state /\ hstate' = "Panicked"
      \/ state'.tag = "DfuError" /\ hstate' = "Error"
  BY <1>3, <1>4
<1>6. AgreeInv'
  BY <1>1, <1>5, TagNames DEF Serving, AgreeInv, ClassAgreesWithHandler, BootInv
<1>7. TypeInv'
  <2>1. state' \in ModeState(POLL_TIMEOUT)
    BY <1>2, ModeStates, AnswersSorted DEF PlainTag, BootInv, TypeInv, ClassType
  <2>2. state'.tag # "DfuUploadIdle" /\ (state'.tag \in DownloadTag => state.tag \in DownloadTag)
    BY <1>1, <1>5, TagNames
  <2> QED BY <2>1, <2>2, <1>1 DEF BootInv, TypeInv, ClassType
<1>8. Entire(sent) => HashValid(flash) /\ ImageAt(flash, Len(sent)) = sent
  BY EntireIsInstalled
<1>9. SuccessInv'
  BY <1>1, <1>5, <1>8, TagNames DEF SuccessInv, Serving, BootInv
<1>10. OwnInv'
  <2>1. CASE /\ state.tag = "DfuDnloadBusy" /\ state'.tag \in {"DfuDnloadBusy", "DfuDnloadSync"}
             /\ hstate = "Download" /\ UNCHANGED <<hstate, sent>>
    BY <2>1, <1>1, TagNames DEF OwnInv, Serving, Busy, BootInv
  <2>2. CASE /\ state.tag = "DfuManifest"
             /\ state'.tag \in {"DfuManifest", "DfuManifestSync", "DfuManifestWaitReset"}
             /\ hstate \in {"Manifetation", "Idle"} /\ UNCHANGED <<hstate, sent>>
    BY <2>2, <1>1, TagNames DEF OwnInv, Serving, Busy, BootInv
  <2>3. CASE /\ state.tag = "DfuManifest"
             /\ state'.tag \in {"DfuManifest", "DfuManifestSync", "DfuManifestWaitReset"}
             /\ hstate = "Manifetation" /\ hstate' = "Idle" /\ Entire(sent)
    <3>1. tidy => sent = hostSent
      BY <2>3, <1>1, TagNames DEF OwnInv, Busy, BootInv
    <3>2. tidy => ImageAt(flash, Len(hostSent)) = hostSent
      BY <3>1, <2>3, <1>8
    <3>3. state'.tag \notin {"DfuIdle", "DfuError"} /\ ~Busy'
      BY <2>3 DEF Busy
    <3>4. (tidy => ImageAt(flash, Len(hostSent)) = hostSent)'
      BY <3>2, <1>1
    <3> QED BY <3>3, <3>4 DEF OwnInv
  <2>4. CASE hstate' = "Panicked" \/ (state'.tag = "DfuError" /\ hstate' = "Error")
    BY <2>4, TagNames DEF OwnInv, Serving, Busy
  <2> QED BY <1>5, <2>1, <2>2, <2>3, <2>4
<1>11. FetchInv'
  BY <1>1, <1>5 DEF FetchInv, Serving, BootInv
<1> QED BY <1>6, <1>7, <1>9, <1>10, <1>11 DEF BootInv

LEMMA TransferredFacts ==
    ASSUME NEW n \in Nat, NEW len \in Nat
    PROVE  /\ IsBytes(Transferred(n, len)) /\ Len(Transferred(n, len)) = IF n < len THEN n ELSE len
           /\ \A k \in 1 .. (IF n < len THEN n ELSE len) :
                 Transferred(n, len)[k] = flash[slice'.at - n + k - 1]
<1> DEFINE t == Transferred(n, len)
           m == IF n < len THEN n ELSE len
<1>1. t = [k \in 1 .. m |-> flash[slice'.at - n + k - 1]]
  BY DEF Transferred
<1>2. m \in Nat
  OBVIOUS
<1> HIDE DEF t, m
<1>3. IsBytes(t) /\ Len(t) = m
  BY <1>1, <1>2, TableIsBytes
<1>4. \A k \in 1 .. m : t[k] = flash[slice'.at - n + k - 1]
  BY <1>1
<1> QED BY <1>3, <1>4 DEF t, m

\* The bytes t are those of the application from its byte d on.
Follows(f, d, t) == \A k \in 1 .. Len(t) : t[k] = f[APPLICATION_REGION_START + d + k - 1]

\* An image and the bytes that follow it are the longer image.
LEMMA ImageGrows ==
    ASSUME NEW f, NEW d \in Nat, NEW tail, IsBytes(tail), d + Len(tail) <= APPLICATION_LENGTH,
           Follows(f, d, tail)
    PROVE  ImageAt(f, d) \o tail = ImageAt(f, d + Len(tail))
<1> DEFINE n == Len(tail)
           head == ImageAt(f, d)
           u == ImageAt(f, d + n)
           j == head \o tail
<1>1. d \in 0 .. APPLICATION_LENGTH /\ d + n \in 0 .. APPLICATION_LENGTH
  BY ApplicationFacts DEF IsBytes
<1>2. /\ IsBytes(head) /\ Len(head) = d
      /\ \A k \in 1 .. d : head[k] = f[APPLICATION_REGION_START + k - 1]
  BY <1>1, ImageAtFacts
<1>3. /\ IsBytes(u) /\ Len(u) = d + n
      /\ \A k \in 1 .. d + n : u[k] = f[APPLICATION_REGION_START + k - 1]
  BY <1>1, ImageAtFacts
<1> HIDE DEF head, u, n
<1>4. IsBytes(head) /\ IsBytes(tail)
  BY <1>2
<1>5. /\ IsBytes(j) /\ Len(j) = Len(head) + Len(tail)
      /\ \A i \in 1 .. Len(head) : j[i] = head[i]
      /\ \A i \in 1 .. Len(tail) : j[Len(head) + i] = tail[i]
  BY <1>4, JoinBytes
<1> HIDE DEF j
<1>6. n \in Nat /\ Len(tail) = n
  BY DEF IsBytes, n
<1>7. ASSUME NEW i \in 1 .. d + n PROVE j[i] = u[i]
  <2>1. u[i] = f[APPLICATION_REGION_START + i - 1]
    BY <1>3
  <2>2. CASE i \in 1 .. d
    BY <2>1, <2>2, <1>2, <1>5
  <2>3. CASE i \notin 1 .. d
    <3> DEFINE k == i - d
    <3>1. k \in 1 .. n /\ i = d + k
      BY <2>3, <1>6
    <3> HIDE DEF k
    <3>2. j[i] = f[APPLICATION_REGION_START + d + k - 1]
      BY <3>1, <1>2, <1>5, <1>6 DEF Follows
    <3>3. APPLICATION_REGION_START + d + k - 1 = APPLICATION_REGION_START + i - 1
      BY <3>1, ApplicationFacts
    <3> QED BY <2>1, <3>2, <3>3
  <2> QED BY <2>2, <2>3
<1>8. Len(j) = Len(u)
  BY <1>2, <1>3, <1>5, <1>6
<1>9. \A i \in 1 .. Len(j) : j[i] = u[i]
  BY <1>3, <1>7, <1>8
<1>10. j = u
  BY <1>3, <1>5, <1>8, <1>9, SameBytes
<1> QED BY <1>10 DEF j, head, u, n

LEMMA EmptyImage == \A f : ImageAt(f, 0) = <<>>
<1>1. ASSUME NEW f PROVE ImageAt(f, 0) = <<>>
  <2>1. 0 \in 0 .. APPLICATION_LENGTH
    BY ApplicationFacts
  <2>2. IsBytes(ImageAt(f, 0)) /\ Len(ImageAt(f, 0)) = 0
    BY <2>1, ImageAtFacts
  <2> QED BY <2>2, NoBytes
<1> QED BY <1>1

LEMMA PartFacts ==
    ASSUME NEW s, NEW n, NextPart(s, n)
    PROVE  LET d == s.at - APPLICATION_REGION_START
           IN  /\ n <= CONTROL_BUFFER /\ d \in Nat /\ n \in Nat /\ d + n <= APPLICATION_LENGTH
               /\ d + n = s.at + n - APPLICATION_REGION_START
               /\ APPLICATION_REGION_START + d = s.at
               /\ n < CONTROL_BUFFER => s.at + n = s.end
<1>1. /\ s.at \in Nat /\ s.end \in Nat /\ CONTROL_BUFFER \in Nat
      /\ APPLICATION_REGION_START \in Nat /\ MANIFEST_REGION_START \in Nat
      /\ APPLICATION_LENGTH = MANIFEST_REGION_START - APPLICATION_REGION_START
      /\ APPLICATION_REGION_START <= s.at /\ s.at <= s.end /\ s.end <= MANIFEST_REGION_START
      /\ n = IF CONTROL_BUFFER < s.end - s.at THEN CONTROL_BUFFER ELSE s.end - s.at
  BY HostFacts, ApplicationFacts, ManifestFacts DEF NextPart
<1> QED BY <1>1

\* A host that reads whole buffers has the firmware up to where the handler is.
LEMMA UploadFetches ==
    ASSUME BootInv, FlashInv, Serving, NEW s, NEW n \in Nat, NextPart(s, n),
           state.tag \in {"DfuIdle", "DfuUploadIdle"},
           uploads = IF state.tag = "DfuIdle" THEN "none" ELSE "whole",
           received' = (IF state.tag = "DfuIdle" THEN <<>> ELSE received)
                          \o Transferred(n, CONTROL_BUFFER)
    PROVE  /\ s.end - APPLICATION_REGION_START \in ManifestLengths(flash)
           /\ received' = ImageAt(flash, s.at + n - APPLICATION_REGION_START)
<1> DEFINE d == s.at - APPLICATION_REGION_START
           q == IF state.tag = "DfuIdle" THEN <<>> ELSE received
           t == Transferred(n, CONTROL_BUFFER)
<1>1. /\ s.at \in Nat /\ s.end \in Nat /\ CONTROL_BUFFER \in Nat
      /\ APPLICATION_REGION_START \in Nat /\ MANIFEST_REGION_START \in Nat
      /\ APPLICATION_LENGTH = MANIFEST_REGION_START - APPLICATION_REGION_START
      /\ APPLICATION_REGION_START <= s.at /\ s.at <= s.end /\ s.end <= MANIFEST_REGION_START
      /\ n = IF CONTROL_BUFFER < s.end - s.at THEN CONTROL_BUFFER ELSE s.end - s.at
  BY HostFacts, ApplicationFacts, ManifestFacts DEF NextPart
<1>2. s.end - APPLICATION_REGION_START \in ManifestLengths(flash) /\ q = ImageAt(flash, d)
  <2>1. CASE state.tag = "DfuIdle"
    <3>1. hstate # "Upload"
      BY <2>1 DEF BootInv, FetchInv
    <3>2. s.at = APPLICATION_REGION_START /\ s.end - APPLICATION_REGION_START \in ManifestLengths(flash)
      BY <3>1 DEF NextPart
    <3>3. d = 0
      BY <3>2, <1>1
    <3> QED BY <2>1, <3>2, <3>3, EmptyImage
  <2>2. CASE state.tag = "DfuUploadIdle"
    <3>1. hstate = "Upload"
      BY <2>2 DEF BootInv, AgreeInv, ClassAgreesWithHandler, Serving
    <3>2. s = slice
      BY <3>1 DEF NextPart
    <3> QED BY <2>2, <3>2 DEF BootInv, FetchInv
  <2> QED BY <2>1, <2>2
<1>3. n <= CONTROL_BUFFER /\ d \in Nat /\ d + n <= APPLICATION_LENGTH
      /\ d + n = s.at + n - APPLICATION_REGION_START
      /\ APPLICATION_REGION_START + d = s.at
  BY PartFacts
<1>4. n # 0 => slice'.at = s.at + n
  BY DEF NextPart
<1>5. (IF n < CONTROL_BUFFER THEN n ELSE CONTROL_BUFFER) = n
  BY <1>1, <1>3
<1>6. /\ IsBytes(t) /\ Len(t) = n
      /\ \A k \in 1 .. n : t[k] = flash[slice'.at - n + k - 1]
  BY <1>1, <1>5, TransferredFacts
<1> HIDE DEF t
<1>7. ASSUME NEW k \in 1 .. n
      PROVE  t[k] = flash[APPLICATION_REGION_START + d + k - 1]
  <2>1. slice'.at = s.at + n
    BY <1>4
  <2>2. slice'.at - n + k - 1 = APPLICATION_REGION_START + d + k - 1
    BY <2>1, <1>1
  <2> QED BY <2>2, <1>6
<1> HIDE DEF d
<1>8. ImageAt(flash, d) \o t = ImageAt(flash, d + n)
  BY <1>3, <1>6, <1>7, ImageGrows DEF Follows
<1>9. received' = q \o t
  BY DEF t
<1> QED BY <1>2, <1>3, <1>8, <1>9

LEMMA UploadKeeps == ASSUME BootInv, DriverInv, FlashInv, FlashInv', HostUpload PROVE BootInv'
<1>1. PICK len \in UPLOADS, n \in 0 .. CONTROL_BUFFER :
              /\ Serving /\ state.tag \in {"DfuIdle", "DfuUploadIdle"}
              /\ UNCHANGED <<flash, memory, op, program, sent, finalised,
                             mode, session, hostSent, tidy>>
              /\ received' = (IF state.tag = "DfuIdle" THEN <<>> ELSE received)
                                \o Transferred(n, len)
              /\ uploads' = IF \/ len # CONTROL_BUFFER
                               \/ uploads # IF state.tag = "DfuIdle" THEN "none" ELSE "whole"
                            THEN "other" ELSE IF n = 0 THEN "none" ELSE "whole"
              /\ \/ /\ state' = IF n < len THEN Plain("DfuIdle") ELSE Plain("DfuUploadIdle")
                    /\ \E s : NextPart(s, n)
                 \/ /\ state' = DfuError("Unknown") /\ n = 0 /\ UNCHANGED handlerVars
                    /\ hstate \in {"Download", "Manifetation", "Error"}
  BY UploadEffect
<1>2. len \in Nat /\ len > 0 /\ n \in Nat
  BY HostFacts
<1>3. CASE state' = DfuError("Unknown") /\ n = 0 /\ UNCHANGED handlerVars
             /\ hstate \in {"Download", "Manifetation", "Error"}
  <2>1. state'.tag = "DfuError" /\ state.tag = "DfuIdle"
    BY <1>1, <1>3, StateFields DEF BootInv, AgreeInv, ClassAgreesWithHandler, Serving
  <2>2. hstate' = hstate /\ slice' = slice
    BY <1>3 DEF handlerVars
  <2>3. AgreeInv'
    BY <2>1, <2>2, <1>1, TagNames DEF BootInv, AgreeInv, ClassAgreesWithHandler, Serving
  <2>4. TypeInv'
    <3>1. state' \in ModeState(POLL_TIMEOUT)
      BY <1>3, ModeStates DEF Error
    <3>2. IsBytes(Transferred(n, len)) /\ Len(Transferred(n, len)) = 0
      BY <1>2, <1>3, TransferredFacts
    <3>3. Transferred(n, len) = <<>>
      BY <3>2, NoBytes
    <3>4. received' = <<>>
      BY <1>1, <2>1, <3>3
    <3>5. IsBytes(<<>>) /\ Len(<<>>) = 0 /\ 0 <= APPLICATION_LENGTH
      BY EmptyIsBytes, ApplicationFacts
    <3> QED BY <1>1, <2>1, <3>1, <3>4, <3>5, TagNames DEF BootInv, TypeInv, ClassType
  <2>5. SuccessInv' /\ FetchInv'
    BY <1>3, <2>1, <2>2, TagNames DEF SuccessInv, FetchInv
  <2>6. OwnInv'
    BY <1>1, <1>3, <2>1, <2>2, TagNames DEF BootInv, OwnInv, Busy, Serving
  <2> QED BY <2>3, <2>4, <2>5, <2>6 DEF BootInv
<1>4. ASSUME NEW s, NextPart(s, n),
             state' = IF n < len THEN Plain("DfuIdle") ELSE Plain("DfuUploadIdle")
      PROVE  BootInv'
  <2>1. /\ n < len => state'.tag = "DfuIdle"
        /\ ~(n < len) => state'.tag = "DfuUploadIdle" /\ n # 0
    BY <1>2, <1>4, StateFields
  <2>2. /\ n = 0 => hstate' = "Idle" /\ slice' = NoSlice
        /\ n # 0 => hstate' = "Upload" /\ slice'.at = s.at + n /\ slice'.end = s.end
        /\ hstate = "Idle" => s.at = APPLICATION_REGION_START
        /\ hstate = "Upload" => s = slice
        /\ hstate \in {"Idle", "Upload"}
    BY <1>4 DEF NextPart
  <2>3. state.tag = "DfuUploadIdle" => hstate = "Upload"
    BY <1>1 DEF BootInv, AgreeInv, ClassAgreesWithHandler, Serving
  <2>4. state'.tag = "DfuUploadIdle" => slice'.at = s.at + n /\ slice'.end = s.end
    BY <2>1, <2>2
  <2>5. s.at \in Nat /\ s.end \in Nat /\ APPLICATION_REGION_START \in Nat
    BY <1>4, ApplicationFacts DEF NextPart
  <2>6. AgreeInv'
    BY <1>1, <2>1, <2>2, TagNames DEF BootInv, AgreeInv, ClassAgreesWithHandler, Serving
  <2>7. TypeInv'
    <3> DEFINE q == IF state.tag = "DfuIdle" THEN <<>> ELSE received
               t == Transferred(n, len)
    <3>1. state' \in ModeState(POLL_TIMEOUT)
      BY <1>4, ModeStates DEF PlainTag
    <3>2. IsBytes(q) /\ Len(q) \in Nat /\ Len(q) <= s.at - APPLICATION_REGION_START
      <4>1. s.at - APPLICATION_REGION_START \in Nat
        BY <1>4, PartFacts
      <4>2. CASE state.tag = "DfuIdle"
        BY <4>1, <4>2, EmptyIsBytes
      <4>3. CASE state.tag = "DfuUploadIdle"
        <5>1. q = received /\ s = slice
          BY <4>3, <2>2, <2>3
        <5> QED BY <4>3, <5>1 DEF BootInv, TypeInv, IsBytes
      <4> QED BY <1>1, <4>2, <4>3
    <3>3. IsBytes(t) /\ Len(t) \in Nat /\ Len(t) <= n
      BY <1>2, TransferredFacts
    <3>4. received' = q \o t
      BY <1>1
    <3> HIDE DEF q, t
    <3>5. IsBytes(q \o t) /\ Len(q \o t) = Len(q) + Len(t)
      BY <3>2, <3>3, JoinBytes
    <3>6. IsBytes(received') /\ Len(received') = Len(q) + Len(t)
      BY <3>4, <3>5
    <3>7. LET d == s.at - APPLICATION_REGION_START
          IN  /\ d \in Nat /\ n \in Nat /\ d + n <= APPLICATION_LENGTH
              /\ d + n = s.at + n - APPLICATION_REGION_START
      BY <1>4, PartFacts
    <3>8. APPLICATION_LENGTH \in Nat
      BY ApplicationFacts
    <3>9. Len(q) + Len(t) <= APPLICATION_LENGTH
          /\ Len(q) + Len(t) <= s.at + n - APPLICATION_REGION_START
      BY <3>2, <3>3, <3>7, <3>8
    <3>10. state'.tag \notin DownloadTag
      BY <2>1, TagNames
    <3>11. uploads' \in {"none", "whole", "other"}
      BY <1>1
    <3>12. state'.tag = "DfuUploadIdle" => Len(received') <= slice'.at - APPLICATION_REGION_START
      <4>1. ASSUME slice'.at = s.at + n PROVE Len(received') <= slice'.at - APPLICATION_REGION_START
        BY <4>1, <3>6, <3>9, <2>5, <1>2
      <4> QED BY <2>4, <4>1
    <3> QED BY <1>1, <3>1, <3>6, <3>9, <3>10, <3>11, <3>12 DEF BootInv, TypeInv, ClassType
  <2>8. SuccessInv'
    BY <2>1, TagNames DEF SuccessInv
  <2>9. OwnInv'
    BY <2>1, <2>2, TagNames DEF OwnInv, Busy
  <2>10. FetchInv'
    <3>1. uploads' = "none" => n = 0
      BY <1>1
    <3>2. ASSUME state'.tag = "DfuUploadIdle", uploads' = "whole"
          PROVE  /\ slice'.end - APPLICATION_REGION_START \in ManifestLengths(flash')
                 /\ received' = ImageAt(flash', slice'.at - APPLICATION_REGION_START)
      <4>1. /\ len = CONTROL_BUFFER /\ flash' = flash
            /\ uploads = IF state.tag = "DfuIdle" THEN "none" ELSE "whole"
        BY <1>1, <3>2
      <4>2. /\ s.end - APPLICATION_REGION_START \in ManifestLengths(flash)
            /\ received' = ImageAt(flash, s.at + n - APPLICATION_REGION_START)
        BY <1>1, <1>2, <1>4, <4>1, UploadFetches
      <4>3. slice'.at = s.at + n /\ slice'.end = s.end
        BY <2>4, <3>2
      <4> QED BY <4>1, <4>2, <4>3, <2>5, <1>2
    <3> QED BY <2>2, <3>1, <3>2 DEF FetchInv
  <2> QED BY <2>6, <2>7, <2>8, <2>9, <2>10 DEF BootInv
<1> QED BY <1>1, <1>3, <1>4

LEMMA BootInvInit == Init => BootInv
<1> SUFFICES ASSUME Init PROVE BootInv
  OBVIOUS
<1>1. /\ mode = "off" /\ state = NoClass /\ hostSent = <<>> /\ tidy = TRUE
      /\ received = <<>> /\ uploads = "none" /\ session = 0 /\ hstate = "Idle"
  BY DEF Init, HandlerInit
<1>2. AgreeInv
  BY <1>1 DEF AgreeInv, ClassAgreesWithHandler
<1>3. TypeInv
  <2>1. state \in ModeState(POLL_TIMEOUT) /\ state.tag = "DfuIdle"
    BY <1>1, ModeStates, NoClassTag
  <2>2. IsBytes(<<>>) /\ Len(<<>>) = 0 /\ 0 <= APPLICATION_LENGTH
    BY EmptyIsBytes, ApplicationFacts
  <2>3. 0 \in 0 .. MaxSession
    BY HostFacts
  <2> QED BY <2>1, <2>2, <2>3, <1>1, TagNames DEF TypeInv, ClassType
<1>4. SuccessInv /\ OwnInv /\ FetchInv
  BY <1>1 DEF SuccessInv, OwnInv, FetchInv, Serving
<1> QED BY <1>2, <1>3, <1>4 DEF BootInv

LEMMA BootInvStep ==
    ASSUME BootInv, DriverInv, FlashInv, FlashInv', [AnyNext]_vars
    PROVE  BootInv'
<1>1. CASE Boot
  BY <1>1, BootKeeps
<1>2. CASE HostEnd \/ HostDownloadStatus \/ HostAbort \/ HostClear
  BY <1>2, AskKeeps
<1>3. CASE HostUnexpected
  BY <1>3, UnexpectedKeeps
<1>4. CASE Controller
  BY <1>4, ControllerKeeps
<1>5. CASE PanicReset \/ PowerCut
  BY <1>5, ResetKeeps DEF PanicReset, PowerCut
<1>6. CASE HostDownload \/ AnyDownload
  BY <1>6, HostDownloads, DownloadKeeps DEF BootInv
<1>7. CASE HostManifestStatus
  BY <1>7, ManifestKeeps
<1>8. CASE HostUpload
  BY <1>8, UploadKeeps
<1>9. CASE MainPoll(0) \/ MainPoll(1)
  BY <1>9, PollKeeps
<1>10. CASE UNCHANGED vars
  BY <1>10 DEF vars, handlerVars, hostVars, uploadVars, memVars, BootInv, AgreeInv,
     ClassAgreesWithHandler, TypeInv, ClassType, SuccessInv, OwnInv, FetchInv, Serving, Busy
<1> QED BY <1>1, <1>2, <1>3, <1>4, <1>5, <1>6, <1>7, <1>8, <1>9, <1>10
   DEF AnyNext, Next, Device, Host

-----------------------------------------------------------------------------
\* The theorems.

AllInv == DriverInv /\ FlashInv /\ BootInv

LEMMA NextInvs == AllInv /\ [AnyNext]_vars => AllInv'
BY BootloaderSteps, DriverInvStep, FlashInvStep, BootInvStep DEF AllInv

\* Class, handler, driver and flash agree in every reachable state.
THEOREM BootloaderCorrect == Spec => []AllInv
<1>1. Init => AllInv
  BY BootloaderInit, BootInvInit DEF AllInv
<1>2. AllInv /\ [Next]_vars => AllInv'
  BY NextInvs DEF AnyNext
<1> QED BY <1>1, <1>2, PTL DEF Spec

\* The state of the DFU interface is one of the standard's, with a timer that
\* was armed, and the histories have their types: a host never gets more than
\* the application area.
THEOREM BootloaderTypes == Spec => []TypeOK
<1>1. ASSUME AllInv PROVE TypeOK
  <2>1. \A i \in DOMAIN hostSent : hostSent[i] \in {"data"} \X (1 .. MaxSession) \X Nat
    <3>1. DOMAIN hostSent = 1 .. Len(hostSent)
      BY <1>1 DEF AllInv, BootInv, TypeInv, IsBytes
    <3> QED BY <3>1, <1>1 DEF AllInv, BootInv, TypeInv, HostByte
  <2> QED BY <2>1, <1>1 DEF AllInv, BootInv, TypeInv, AgreeInv, TypeOK
<1> QED BY <1>1, BootloaderCorrect, PTL

\* What the class tells the host is what the handler is doing, though neither
\* ever looks at the other's state.
THEOREM ClassAndHandlerAgree == Spec => []ClassAgreesWithHandler
<1>1. AllInv => ClassAgreesWithHandler
  BY DEF AllInv, BootInv, AgreeInv
<1> QED BY <1>1, BootloaderCorrect, PTL

\* Success is said by GETSTATUS alone, of an image that is there.
LEMMA SuccessIsRead ==
    ASSUME AllInv, FlashInv', AnyNext, state.tag \in ManifestTag, state'.tag = "DfuIdle", mode' # "off"
    PROVE  /\ HashValid(flash') /\ (tidy => ImageAt(flash', Len(hostSent)) = hostSent)
<1> USE DEF AllInv
<1>1. mode = "dfu"
  BY NoClassTag, TagNames DEF BootInv, AgreeInv
<1>2. ~Boot /\ ~PanicReset /\ ~PowerCut
  BY <1>1 DEF Boot, BootWith, PanicReset, PowerCut, Reset
<1>3. ~HostDownload /\ ~AnyDownload
  <2>1. ASSUME AnyDownload PROVE state.tag \in {"DfuIdle", "DfuDnloadIdle"}
    BY <2>1, DownloadEffect DEF Takes
  <2> QED BY <2>1, HostDownloads, TagNames DEF BootInv
<1>4. ~HostUpload
  BY UploadEffect, TagNames
<1>5. ~(HostEnd \/ HostDownloadStatus \/ HostAbort \/ HostClear)
  <2>1. ASSUME HostEnd \/ HostDownloadStatus \/ HostAbort \/ HostClear
        PROVE  state.tag \in {"DfuDnloadIdle", "DfuDnloadSync", "DfuDnloadBusy",
                              "DfuUploadIdle", "DfuError"}
    BY <2>1, AskEffect
  <2> QED BY <2>1, TagNames
<1>6. ~HostUnexpected /\ ~Controller
  BY StateFields, TagNames DEF HostUnexpected, UnexpectedIn, UnexpectedOut, Stall, Controller
<1>7. ASSUME NEW elapsed \in {0, 1}, MainPoll(elapsed) PROVE FALSE
  <2>1. \/ state'.tag = state.tag
        \/ state' \in {Plain("DfuDnloadSync"), Plain("DfuManifestSync"),
                       Plain("DfuManifestWaitReset")}
        \/ \E e \in HandlerError : state' = DfuError(e)
    BY <1>7, MainPollEffect DEF BootInv, TypeInv
  <2> QED BY <2>1, StateFields, TagNames
<1>8. HostManifestStatus
  BY <1>2, <1>3, <1>4, <1>5, <1>6, <1>7 DEF AnyNext, Next, Device, Host
<1>9. /\ Serving /\ flash' = flash /\ hostSent' = hostSent
      /\ \/ state'.tag = "DfuManifest"
         \/ /\ hstate' = "Idle"
            /\ \/ hstate = "Manifetation" /\ Entire(sent)
               \/ hstate = "Idle"
         \/ state' = state
         \/ state'.tag = "DfuError"
  BY <1>8, ManifestEffect, StateFields DEF hostVars
<1>10. \/ hstate = "Manifetation" /\ Entire(sent)
       \/ hstate = "Idle"
  BY <1>9, TagNames
<1>11. CASE hstate = "Manifetation" /\ Entire(sent)
  <2>1. tidy => sent = hostSent
    BY <1>9, <1>11 DEF BootInv, OwnInv, Busy
  <2> QED BY <1>9, <1>11, <2>1, EntireIsInstalled
<1>12. CASE hstate = "Idle"
  BY <1>9, <1>12 DEF BootInv, SuccessInv, OwnInv
<1> QED BY <1>10, <1>11, <1>12

\* The success a host reads after a manifestation is a valid hash on flash.
THEOREM SuccessIsEarned == Spec => SuccessIsValid
<1>1. AllInv /\ [Next]_vars =>
          [state.tag \in ManifestTag /\ state'.tag = "DfuIdle" =>
              mode' = "off" \/ HashValid(flash')]_vars
  BY NextInvs, SuccessIsRead DEF AllInv, AnyNext
<1> QED BY <1>1, BootloaderCorrect, PTL DEF Spec, SuccessIsValid

\* For a host that has kept to the protocol since the start, success is said
\* of the very bytes it sent.
THEOREM HostImageIsInstalled == Spec => HostImageInstalled
<1>1. AllInv /\ [Next]_vars =>
          [tidy /\ state.tag \in ManifestTag /\ state'.tag = "DfuIdle" =>
              mode' = "off" \/ ImageAt(flash', Len(hostSent)) = hostSent]_vars
  BY NextInvs, SuccessIsRead DEF AllInv, AnyNext
<1> QED BY <1>1, BootloaderCorrect, PTL DEF Spec, HostImageInstalled

\* What the calls of a handler that panics have been given.
LEMMA PanicOfDownload ==
    ASSUME DriverInv, FlashInv, NEW buf, IsData(buf), Len(buf) > 0, Download(buf, "panic")
    PROVE  hstate = "Download" /\ Len(sent \o buf) % 4 = 3
<1>1. ~ProgramNew(buf, "panic")
  BY DEF ProgramNew, StartErase
<1>2. ProgramUpdate(buf, "panic")
  BY <1>1 DEF Download
<1>3. DownloadSteps("panic", sent \o buf, finalised)
  BY <1>2, ProgramUpdateSteps
<1> QED BY <1>2, <1>3 DEF ProgramUpdate, DownloadSteps

LEMMA PanicOfPoll ==
    ASSUME DriverInv, FlashInv, HandlerPoll("panic")
    PROVE  hstate = "Download" /\ Len(sent) % 4 = 3
<1>1. Busy /\ ProgramPoll("panic")
  BY DEF HandlerPoll, Busy
<1>2. /\ hstate = "Download" => DownloadSteps("panic", sent, finalised)
      /\ hstate = "Manifetation" => ManifestSteps("panic", sent, finalised)
  BY <1>1, PolledSteps
<1> QED BY <1>1, <1>2 DEF DownloadSteps, ManifestSteps, Busy

LEMMA NoPanicOfManifestation ==
    ASSUME DriverInv, FlashInv
    PROVE  ~IsManifestationInProgress("panic")
<1>1. ASSUME Finalize("panic") PROVE FALSE
  <2>1. /\ hstate = "Download" /\ program.st = "AwaitData"
        /\ EraseOrProgramManifest(memory, program, "panic")
    BY <1>1 DEF Finalize
  <2>2. \A F : sent \in F => ManifestSteps("panic", sent, F)
    BY <2>1, FinalizeSteps
  <2>3. ManifestSteps("panic", sent, {sent})
    BY <2>2
  <2> QED BY <2>3 DEF ManifestSteps
<1>2. ASSUME hstate = "Manifetation", ProgramPoll("panic") PROVE FALSE
  <2>1. ManifestSteps("panic", sent, finalised)
    BY <1>2, PolledSteps DEF Busy
  <2> QED BY <2>1 DEF ManifestSteps
<1> QED BY <1>1, <1>2 DEF IsManifestationInProgress

\* A step that panics is a block or a poll.
LEMMA PanicSteps ==
    ASSUME AllInv, FlashInv', Next, hstate # "Panicked", hstate' = "Panicked"
    PROVE  HostDownload \/ \E elapsed \in {0, 1} : MainPoll(elapsed)
<1> USE DEF AllInv
<1>1. ~Boot /\ ~PanicReset /\ ~PowerCut
  BY DEF Boot, BootWith, handlerVars, PanicReset, PowerCut, Reset, HandlerReset
<1>2. ~(HostEnd \/ HostDownloadStatus \/ HostAbort \/ HostClear \/ HostUnexpected)
  BY DEF HostEnd, HostDownloadStatus, HostAbort, HostClear, HostUnexpected, handlerVars
<1>3. ~Controller
  BY DEF Controller
<1>4. ~HostUpload
  BY DEF HostUpload, Upload, handlerVars
<1>5. ~HostManifestStatus
  <2> SUFFICES ASSUME HostManifestStatus PROVE FALSE
    OBVIOUS
  <2>1. PICK a : IsManifestationInProgress(a)
    BY DEF HostManifestStatus
  <2>2. a = "panic"
    BY <2>1, ManifestationAnswers
  <2> QED BY <2>1, <2>2, NoPanicOfManifestation
<1> QED BY <1>1, <1>2, <1>3, <1>4, <1>5 DEF Next, Device, Host

LEMMA PanicIsAtThree ==
    ASSUME AllInv, FlashInv', Next, tidy, hstate # "Panicked", hstate' = "Panicked"
    PROVE  state.tag \in DownloadTag /\ Len(hostSent') % 4 = 3
<1> USE DEF AllInv
<1>1. CASE HostDownload
  <2>1. PICK len \in BLOCKS, number \in 1 .. MaxSession : DownloadOf(number, len)
    BY <1>1, HostDownloads DEF BootInv, AnyDownload
  <2> DEFINE block == Block(number, len)
  <2>2. /\ Serving /\ state.tag \in {"DfuIdle", "DfuDnloadIdle"}
        /\ hostSent' = IF state.tag = "DfuIdle" THEN block ELSE hostSent \o block
        /\ \E r \in PollAnswers : Download(block, r)
    BY <2>1 DEF DownloadOf, AnswersOut
  <2>3. IsData(block) /\ Len(block) > 0
    BY BlockFacts, HostFacts
  <2> HIDE DEF block
  <2>4. Download(block, "panic")
    BY <2>2, DownloadAnswers
  <2>5. hstate = "Download" /\ Len(sent \o block) % 4 = 3
    BY <2>3, <2>4, PanicOfDownload
  <2>6. state.tag = "DfuDnloadIdle" /\ sent = hostSent
    BY <2>2, <2>5 DEF BootInv, OwnInv, Busy, DownloadTag
  <2> QED BY <2>2, <2>5, <2>6 DEF DownloadTag
<1>2. CASE \E elapsed \in {0, 1} : MainPoll(elapsed)
  <2>1. Serving /\ state.tag \in TimedTag /\ hostSent' = hostSent
    BY <1>2 DEF MainPoll, PollsHandler, hostVars
  <2>2. PICK r \in PollAnswers : HandlerPoll(r)
    BY <1>2 DEF MainPoll
  <2>3. r = "panic"
    BY <2>2, PollAnswersAre
  <2>4. hstate = "Download" /\ Len(sent) % 4 = 3
    BY <2>2, <2>3, PanicOfPoll
  <2>5. state.tag = "DfuDnloadBusy"
    BY <2>1, <2>4 DEF TimedTag, ManifestTag, BootInv, AgreeInv, ClassAgreesWithHandler, Serving
  <2>6. sent = hostSent
    BY <2>1, <2>4, <2>5 DEF BootInv, OwnInv, Busy, DownloadTag
  <2> QED BY <2>1, <2>4, <2>5, <2>6 DEF DownloadTag
<1> QED BY <1>1, <1>2, PanicSteps

\* The bootloader panics on nothing but a download whose bytes so far are 3
\* modulo 4, whatever the blocks and the sectors.
THEOREM PanicsAreOfThree == Spec => PanicsOnlyAtThree
<1>1. AllInv /\ [Next]_vars =>
          [tidy /\ hstate # "Panicked" /\ hstate' = "Panicked" =>
              state.tag \in DownloadTag /\ Len(hostSent') % 4 = 3]_vars
  BY NextInvs, PanicIsAtThree DEF AllInv, AnyNext
<1> QED BY <1>1, BootloaderCorrect, PTL DEF Spec, PanicsOnlyAtThree

\* An upload of whole buffers delivers the firmware its manifest describes.
THEOREM UploadIsDelivered == Spec => UploadDelivers
<1>1. ASSUME AllInv, UploadEnds, uploads' # "other"
      PROVE  received' \in WholeFirmware
  <2>1. PICK len \in UPLOADS, n \in 0 .. CONTROL_BUFFER :
              /\ Serving /\ state.tag \in {"DfuIdle", "DfuUploadIdle"}
              /\ UNCHANGED <<flash, memory, op, program, sent, finalised,
                             mode, session, hostSent, tidy>>
              /\ received' = (IF state.tag = "DfuIdle" THEN <<>> ELSE received)
                                \o Transferred(n, len)
              /\ uploads' = IF \/ len # CONTROL_BUFFER
                               \/ uploads # IF state.tag = "DfuIdle" THEN "none" ELSE "whole"
                            THEN "other" ELSE IF n = 0 THEN "none" ELSE "whole"
              /\ \/ /\ state' = IF n < len THEN Plain("DfuIdle") ELSE Plain("DfuUploadIdle")
                    /\ \E s : NextPart(s, n)
                 \/ /\ state' = DfuError("Unknown") /\ n = 0 /\ UNCHANGED handlerVars
                    /\ hstate \in {"Download", "Manifetation", "Error"}
    BY <1>1, UploadEffect DEF UploadEnds, AllInv
  <2>2. len = CONTROL_BUFFER /\ uploads = IF state.tag = "DfuIdle" THEN "none" ELSE "whole"
    BY <1>1, <2>1
  <2>3. n < len /\ \E s : NextPart(s, n)
    BY <1>1, <2>1, StateFields DEF UploadEnds
  <2>4. PICK s : NextPart(s, n)
    BY <2>3
  <2>5. n \in Nat /\ s.at + n = s.end
    BY <2>2, <2>3, <2>4, PartFacts
  <2>6. /\ s.end - APPLICATION_REGION_START \in ManifestLengths(flash)
        /\ received' = ImageAt(flash, s.at + n - APPLICATION_REGION_START)
    BY <1>1, <2>1, <2>2, <2>4, <2>5, UploadFetches DEF AllInv
  <2>7. received' = ImageAt(flash, s.end - APPLICATION_REGION_START)
    <3>1. s.at \in Nat /\ s.end \in Nat /\ APPLICATION_REGION_START \in Nat
      BY <2>4, ApplicationFacts DEF NextPart
    <3> QED BY <2>5, <2>6, <3>1
  <2> QED BY <2>6, <2>7 DEF WholeFirmware
<1>2. AllInv /\ [Next]_vars =>
          [UploadEnds /\ uploads' # "other" => received' \in WholeFirmware]_vars
  BY <1>1
<1> QED BY <1>2, BootloaderCorrect, PTL DEF Spec, UploadDelivers

\* An application runs on a flash that nothing changes any more.
LEMMA StartsFinished ==
    ASSUME AllInv, StartsOnlyFinished, [AnyNext]_vars
    PROVE  StartsOnlyFinished'
<1>1. CASE Boot
  <2>1. /\ flash' = flash /\ finalised' = finalised
        /\ mode' = "app" => HashValid(flash) /\ VectorsValid(flash)
    BY <1>1 DEF Boot, BootWith, IsFirmwareValid, handlerVars, memVars
  <2>2. HashValid(flash) => \E image \in finalised : ImageAt(flash, Len(image)) = image
    BY ValidIsEntire DEF AllInv, FlashInv, CellsInv
  <2> QED BY <2>1, <2>2 DEF StartsOnlyFinished
<1>2. CASE Controller
  <2>1. op # MemIdle /\ mode' = mode
    BY <1>2 DEF Controller, ControllerDone, hostVars
  <2>2. mode # "app"
    BY <2>1, QuietFlash DEF AllInv, BootInv, AgreeInv
  <2> QED BY <2>1, <2>2 DEF StartsOnlyFinished
<1>3. CASE PanicReset \/ PowerCut
  BY <1>3 DEF PanicReset, PowerCut, Reset, StartsOnlyFinished
<1>4. CASE Host \/ HostUnexpected \/ AnyDownload \/ MainPoll(0) \/ MainPoll(1)
  <2>1. mode = "dfu" /\ mode' = mode
    BY <1>4 DEF Host, HostDownload, AnyDownload, DownloadOf, HostEnd,
       HostDownloadStatus, HostManifestStatus, HostUpload, HostAbort, HostClear, HostUnexpected, MainPoll,
       Serving, hostVars
  <2> QED BY <2>1 DEF StartsOnlyFinished
<1>5. CASE UNCHANGED vars
  BY <1>5 DEF vars, handlerVars, memVars, hostVars, StartsOnlyFinished
<1> QED BY <1>1, <1>2, <1>3, <1>4, <1>5 DEF AnyNext, Next, Device

\* main() starts an image that a host finished, or that was there, entire.
THEOREM OnlyFinishedStarts == Spec => []StartsOnlyFinished
<1>1. Init => StartsOnlyFinished
  BY DEF Init, StartsOnlyFinished
<1>2. AllInv /\ StartsOnlyFinished /\ [Next]_vars => StartsOnlyFinished'
  BY StartsFinished DEF AnyNext
<1> QED BY <1>1, <1>2, BootloaderCorrect, PTL DEF Spec

-----------------------------------------------------------------------------
\* A flash that works.

FlashFault == {"Write", "Erase", "CheckErased", "Programming", "Verify"}

\* No flag, no refused key, and what the driver still waits for is there.
HealthInv ==
    /\ sr = {} /\ keyRefused = FALSE
    /\ Busy /\ memory # MemIdle /\ op = MemIdle => Holds(memory)

\* The driver waits for an operation that has not ended, or for none.
Waits == memory' = op' \/ memory' = MemIdle

LEMMA StartsWell ==
    ASSUME keyRefused = FALSE, NEW drv, NEW s, NEW addr, NEW src, NEW r,
           StartErase(drv, s, r) \/ StartProgram(drv, addr, src, r)
    PROVE  (r = "Ok" /\ Waits) \/ r = "panic"
BY DEF StartErase, StartProgram, UnlockFails, Waits

LEMMA EraseOrProgramWell ==
    ASSUME keyRefused = FALSE, NEW drv, NEW p, NEW r, EraseOrProgram(drv, p, r)
    PROVE  (r = "Ok" /\ Waits) \/ r \in {"panic", "Address"}
BY StartsWell DEF EraseOrProgram

LEMMA EraseOrProgramManifestWell ==
    ASSUME keyRefused = FALSE, NEW drv, NEW p, NEW r, EraseOrProgramManifest(drv, p, r)
    PROVE  (r = "Ok" /\ Waits) \/ r = "panic"
BY StartsWell DEF EraseOrProgramManifest

LEMMA AdvanceWell ==
    ASSUME keyRefused = FALSE, NEW r, Advance(r)
    PROVE  (r = "Ok" /\ Waits) \/ r \in {"Done", "panic", "Address"}
<1>1. Quiet(MemIdle) => Waits
  BY DEF Quiet, Waits
<1>2. \A addr, src : StartProgram(MemIdle, addr, src, r) => (r = "Ok" /\ Waits) \/ r = "panic"
  BY StartsWell
<1>3. \A p : EraseOrProgram(MemIdle, p, r) => (r = "Ok" /\ Waits) \/ r \in {"panic", "Address"}
  BY EraseOrProgramWell
<1>4. \A p : EraseOrProgramManifest(MemIdle, p, r) => (r = "Ok" /\ Waits) \/ r = "panic"
  BY EraseOrProgramManifestWell
<1> QED BY <1>1, <1>2, <1>3, <1>4 DEF Advance

LEMMA PolledWell ==
    ASSUME HealthInv, Busy, NEW r, ProgramPoll(r)
    PROVE  (r = "Ok" /\ (Waits \/ UNCHANGED <<memory, op>>)) \/ r \in {"Done", "panic", "Address"}
<1>1. PollResult \in {"Ok", "Pending"}
  BY DEF HealthInv, PollResult
<1>2. CASE r = "Ok" /\ Quiet(memory)
  BY <1>2 DEF Quiet
<1>3. CASE Advance(r)
  BY <1>3, AdvanceWell DEF HealthInv
<1> QED BY <1>1, <1>2, <1>3 DEF ProgramPoll, Error

\* A write over erased cells leaves what was to be written.
LEMMA WriteIsRead ==
    ASSUME DOMAIN flash = Address, NEW p, LegalProgram(p), Writes(flash, memory, op, p),
           memory = op, op # MemIdle, p.addr >= SectorBase[p.current_sector],
           p.addr + Width(p) <= SectorBase[p.current_sector + 1],
           flash' = Effect(op), memory' = memory
    PROVE  Holds(memory)'
<1> DEFINE w == Width(p)
           u == SubSeq(p.rest, 1, w)
<1>1. /\ IsBytes(p.rest) /\ p.addr \in Nat /\ InApplication(p.current_sector)
      /\ w \in 1 .. Len(p.rest) /\ op = Programming(p.addr, u)
      /\ Clean(flash, p.current_sector, p.addr)
  BY DEF LegalProgram, Writes
<1>2. IsBytes(u) /\ Len(u) = w
  BY <1>1, FrontOfBytes
<1>3. w \in Nat /\ DOMAIN u = 1 .. w
  BY <1>1, <1>2 DEF IsBytes
<1>4. op.tag = "Programming" /\ op.addr = p.addr /\ op.src = u
  BY <1>1, OperationFields
<1>5. p.addr + w <= SectorBase[p.current_sector + 1]
  OBVIOUS
<1> HIDE DEF u, w
<1>6. ASSUME NEW i \in 1 .. w PROVE flash'[p.addr + i - 1] = u[i]
  <2> DEFINE a == p.addr + i - 1
  <2>1. /\ a \in Region(p.current_sector) /\ a >= p.addr /\ a - p.addr + 1 = i
        /\ a \in p.addr .. p.addr + w - 1
    <3> DEFINE lo == SectorBase[p.current_sector]
               hi == SectorBase[p.current_sector + 1]
    <3>1. /\ lo \in Nat /\ hi \in Nat /\ p.addr \in Nat /\ lo <= p.addr
          /\ p.addr + w <= hi
      BY <1>1, <1>5, SectorFacts
    <3> HIDE DEF lo, hi
    <3>2. a \in lo .. hi - 1
      BY <1>3, <3>1
    <3> QED BY <1>3, <3>1, <3>2 DEF Region, lo, hi
  <2> HIDE DEF a
  <2>2. a \in Address /\ flash[a] = Erased
    BY <1>1, <2>1, SectorFacts DEF Clean
  <2>3. a \in Cells(op)
    BY <1>2, <1>4, <2>1, <2>2, CellsOfWrite
  <2>4. flash'[a] = Nor(flash[a], op.src[a - op.addr + 1])
    BY <1>4, <2>2, <2>3 DEF Effect
  <2>5. flash'[a] = u[i]
    BY <1>4, <2>1, <2>2, <2>4 DEF Nor
  <2> QED BY <2>5 DEF a
<1>7. memory' = op
  OBVIOUS
<1> QED BY <1>3, <1>4, <1>6, <1>7 DEF Holds

LEMMA EraseIsRead ==
    ASSUME DOMAIN flash = Address, NEW s, InApplication(s), op = Erasing(s), memory = op,
           flash' = Effect(op), memory' = memory
    PROVE  Holds(memory)'
<1>1. op.tag = "Erasing" /\ op.sector = s /\ Cells(op) = Region(s)
  BY OperationFields, CellsOfErase
<1>2. ASSUME NEW a \in Region(s) PROVE flash'[a] = Erased
  BY <1>1, SectorFacts DEF Effect
<1> QED BY <1>1, <1>2 DEF Holds

\* What the controller did is what the driver will read back.
LEMMA ControllerWell ==
    ASSUME FAULTS = {}, DriverInv, FlashInv, HealthInv, ControllerStep
    PROVE  HealthInv'
<1>1. /\ op # MemIdle /\ op' = MemIdle /\ flash' = Effect(op) /\ sr' = sr
      /\ UNCHANGED <<hstate, program, slice, sent, finalised, memory, keyRefused>>
  BY DEF ControllerStep, ControllerDone
<1>2. DOMAIN flash = Address
  BY DEF FlashInv, CellsInv
<1>3. ASSUME Busy PROVE Holds(memory)'
  <2>1. memory = op /\ LegalProgram(program) /\ program.st # "AwaitData"
    BY <1>1, <1>3 DEF DriverInv, Busy
  <2> DEFINE p == program
             hi == SectorBase[p.current_sector + 1]
  <2>2. InApplication(p.current_sector) /\ p.addr \in Nat /\ hi \in Nat /\ hi % 4 = 0
    BY <2>1, SectorFacts DEF LegalProgram
  <2>3. memory = Erasing(p.current_sector) => Holds(memory)'
    BY <1>1, <1>2, <2>1, <2>2, EraseIsRead
  <2>4. ASSUME Writes(flash, memory, op, p), p.addr >= SectorBase[p.current_sector],
               p.addr + Width(p) <= hi
        PROVE  Holds(memory)'
    BY <1>1, <1>2, <2>1, <2>4, WriteIsRead
  <2>5. CASE hstate = "Download"
    <3>1. DownloadState(flash, memory, op, p, sent)
      BY <2>5 DEF FlashInv, ProgramInv
    <3>2. CASE p.st = "AwaitEraseBeforeProgram"
      BY <2>3, <3>1, <3>2 DEF DownloadState
    <3>3. CASE p.st = "AwaitProgram"
      <4>1. /\ Writes(flash, memory, op, p) /\ p.addr < hi
            /\ SectorBase[p.current_sector] <= p.addr
        BY <3>1, <3>3 DEF DownloadState, Placed
      <4>2. Len(p.rest) \in Nat /\ Width(p) \in 1 .. Len(p.rest)
        BY <2>1, <4>1 DEF Writes, LegalProgram, IsBytes
      <4>3. Width(p) \in Nat /\ (p.addr % 4) + Width(p) <= 4
        BY <2>1, <4>2, WidthFacts
      <4>4. p.addr + Width(p) <= hi
        <5> DEFINE w == Width(p)
        <5>1. w \in Nat /\ (p.addr % 4) + w <= 4
          BY <4>3
        <5> HIDE DEF w, hi
        <5>2. p.addr + w <= hi
          BY <2>2, <4>1, <5>1, WithinWord
        <5> QED BY <5>2 DEF w
      <4>5. SectorBase[p.current_sector] \in Nat
        BY <2>2, SectorFacts
      <4> QED BY <2>2, <2>4, <4>1, <4>4, <4>5
    <3> QED BY <2>1, <3>1, <3>2, <3>3 DEF DownloadState
  <2>6. CASE hstate = "Manifetation"
    <3>1. ManifestState(flash, memory, op, p, sent)
      BY <2>6 DEF FlashInv, ProgramInv
    <3>2. CASE p.st = "AwaitErase"
      BY <2>3, <3>1, <3>2 DEF ManifestState
    <3>3. CASE p.st = "AwaitProgramManifest"
      <4>1. Writes(flash, memory, op, p) /\ ManifestSplits(flash, p, sent)
        BY <3>1, <3>3 DEF ManifestState
      <4>2. Len(p.rest) \in Nat /\ Width(p) \in 1 .. Len(p.rest)
        BY <2>1, <4>1 DEF Writes, LegalProgram, IsBytes
      <4>3. Len(p.rest) > 0
        BY <4>2
      <4>4. Width(p) = 4 /\ p.addr + 4 <= MANIFEST_REGION_START + 4 + HASH_LENGTH
        BY <2>1, <4>1, <4>3, ManifestWidth
      <4>5. /\ p.current_sector = LastSector /\ p.addr >= MANIFEST_REGION_START
        BY <4>1 DEF ManifestSplits
      <4>6. p.addr >= SectorBase[p.current_sector] /\ p.addr + Width(p) <= hi
        BY <2>2, <4>4, <4>5, ManifestFacts
      <4> QED BY <2>4, <4>1, <4>6
    <3> QED BY <3>1, <3>2, <3>3 DEF ManifestState
  <2> QED BY <1>3, <2>5, <2>6 DEF Busy
<1> QED BY <1>1, <1>3 DEF HealthInv, Busy

\* The answers of the handler, and what it leaves the driver with.
LEMMA DownloadWell ==
    ASSUME DriverInv, HealthInv, NEW buf, NEW r, Download(buf, r)
    PROVE  HealthInv' /\ r \notin FlashFault
<1>1. flash' = flash /\ sr' = sr /\ keyRefused' = keyRefused
  BY DEF Download, ProgramNew, ProgramUpdate, memVars
<1>2. CASE ProgramNew(buf, r)
  <2>1. memory = MemIdle
    BY <1>2 DEF ProgramNew, DriverInv, Busy
  <2>2. r \in {"Ok", "Address", "panic"} /\ (Waits \/ memory' = memory)
    <3>1. /\ keyRefused = FALSE
          /\ \/ r = "Address" /\ Quiet(memory)
             \/ StartErase(memory, SectorOf(APPLICATION_REGION_START), r)
      BY <1>2 DEF ProgramNew, HealthInv
    <3> QED BY <3>1 DEF Quiet, StartErase, UnlockFails, Waits
  <2>3. Waits
    BY <2>1, <2>2 DEF Waits
  <2> QED BY <1>1, <2>2, <2>3 DEF HealthInv, FlashFault, Waits
<1>3. CASE ProgramUpdate(buf, r)
  <2>1. (r = "Ok" /\ Waits) \/ r \in {"panic", "Address", "Unknown"}
    BY <1>3, EraseOrProgramWell DEF ProgramUpdate, HealthInv
  <2>2. hstate' = Owner(r)
    BY <1>3 DEF ProgramUpdate
  <2>3. CASE r = "Ok" /\ Waits
    BY <1>1, <2>3 DEF HealthInv, FlashFault, Waits
  <2>4. CASE r \in {"panic", "Address", "Unknown"}
    <3>1. hstate' \in {"Panicked", "Error"}
      BY <2>2, <2>4, OwnerOf DEF Error
    <3> QED BY <1>1, <2>4, <3>1 DEF HealthInv, FlashFault, Busy
  <2> QED BY <2>1, <2>3, <2>4
<1>4. CASE r = "Unknown" /\ hstate' = "Error"
  BY <1>1, <1>4 DEF HealthInv, FlashFault, Busy
<1> QED BY <1>2, <1>3, <1>4 DEF Download

LEMMA OwnerWell ==
    ASSUME HealthInv, Busy, NEW r, UNCHANGED <<flash, sr, keyRefused>>,
           \/ r = "Ok" /\ (Waits \/ UNCHANGED <<memory, op>>)
           \/ r \in {"Done", "panic", "Address"} /\ hstate' = Owner(r)
    PROVE  HealthInv' /\ r \notin FlashFault
<1>1. CASE r = "Ok" /\ (Waits \/ UNCHANGED <<memory, op>>)
  <2>1. r \notin FlashFault
    BY <1>1 DEF FlashFault
  <2>2. CASE Waits
    BY <2>1, <2>2 DEF HealthInv, Waits
  <2>3. CASE UNCHANGED <<memory, op>>
    <3>1. Holds(memory) => Holds(memory)'
      BY <2>3 DEF Holds
    <3> QED BY <2>1, <2>3, <3>1 DEF HealthInv
  <2> QED BY <1>1, <2>2, <2>3
<1>2. CASE r \in {"Done", "panic", "Address"} /\ hstate' = Owner(r)
  <2>1. hstate' \in {"Idle", "Panicked", "Error"}
    BY <1>2, OwnerOf DEF Error
  <2> QED BY <1>2, <2>1 DEF HealthInv, Busy, FlashFault
<1> QED BY <1>1, <1>2

LEMMA PollWell ==
    ASSUME DriverInv, HealthInv, NEW r, HandlerPoll(r)
    PROVE  HealthInv' /\ r \notin FlashFault
<1>1. CASE UNCHANGED handlerVars /\ r = "Ok"
  BY <1>1 DEF handlerVars, memVars, HealthInv, Busy, Holds, FlashFault
<1>2. CASE /\ Busy /\ UNCHANGED <<flash, sr, keyRefused>>
           /\ \E q \in PollAnswers : /\ r = IF q = "Done" THEN "Ok" ELSE q
                                     /\ ProgramPoll(q) /\ hstate' = Owner(q)
  <2>1. PICK q \in PollAnswers : /\ r = IF q = "Done" THEN "Ok" ELSE q
                                 /\ ProgramPoll(q) /\ hstate' = Owner(q)
    BY <1>2
  <2>2. \/ q = "Ok" /\ (Waits \/ UNCHANGED <<memory, op>>)
        \/ q \in {"Done", "panic", "Address"}
    BY <1>2, <2>1, PolledWell
  <2>3. HealthInv' /\ q \notin FlashFault
    BY <1>2, <2>1, <2>2, OwnerWell
  <2> QED BY <2>1, <2>3 DEF FlashFault
<1> QED BY <1>1, <1>2 DEF HandlerPoll, Busy

LEMMA ManifestationWell ==
    ASSUME DriverInv, HealthInv, NEW a, IsManifestationInProgress(a)
    PROVE  HealthInv'
<1>1. CASE hstate = "Download" /\ Finalize(a)
  <2>1. UNCHANGED <<flash, sr, keyRefused>>
    BY <1>1 DEF Finalize
  <2>2. CASE \E r \in PollAnswers : /\ EraseOrProgramManifest(memory, program, r)
                                    /\ hstate' = IF r = "Ok" THEN "Manifetation" ELSE Owner(r)
    <3>1. PICK r \in PollAnswers : /\ EraseOrProgramManifest(memory, program, r)
                                   /\ hstate' = IF r = "Ok" THEN "Manifetation" ELSE Owner(r)
      BY <2>2
    <3>2. (r = "Ok" /\ Waits) \/ r = "panic"
      BY <3>1, EraseOrProgramManifestWell DEF HealthInv
    <3>3. r = "panic" => hstate' = "Panicked"
      BY <3>1, OwnerOf
    <3> QED BY <2>1, <3>2, <3>3 DEF HealthInv, Busy, Waits
  <2>3. CASE hstate' = "Error"
    BY <2>1, <2>3 DEF HealthInv, Busy
  <2> QED BY <1>1, <2>2, <2>3 DEF Finalize
<1>2. CASE /\ hstate = "Manifetation" /\ UNCHANGED <<flash, sr, keyRefused>>
           /\ \E r \in PollAnswers : ProgramPoll(r) /\ hstate' = Owner(r)
  <2>1. PICK r \in PollAnswers : ProgramPoll(r) /\ hstate' = Owner(r)
    BY <1>2
  <2>2. Busy
    BY <1>2 DEF Busy
  <2>3. \/ r = "Ok" /\ (Waits \/ UNCHANGED <<memory, op>>)
        \/ r \in {"Done", "panic", "Address"}
    BY <2>1, <2>2, PolledWell
  <2> QED BY <1>2, <2>1, <2>2, <2>3, OwnerWell
<1>3. CASE hstate = "Idle" /\ UNCHANGED handlerVars
  BY <1>3 DEF handlerVars, memVars, HealthInv, Busy
<1>4. CASE hstate' = "Error" /\ UNCHANGED memVars
  BY <1>4 DEF memVars, HealthInv, Busy
<1> QED BY <1>1, <1>2, <1>3, <1>4 DEF IsManifestationInProgress, Finalize

LEMMA SameHealth ==
    ASSUME HealthInv, UNCHANGED <<flash, memory, op, sr, keyRefused, hstate>>
    PROVE  HealthInv'
BY DEF HealthInv, Busy, Holds

\* No state but a DfuError has an error code; the class's own are others.
LEMMA ErrorFields ==
    /\ \A t : Plain(t).error \notin FlashFault
    /\ \A t, n : Timed(t, n).error \notin FlashFault
    /\ \A e : DfuError(e).error = e
    /\ {"Firmware", "StalledPkt", "Unknown"} \cap FlashFault = {}
BY DEF Plain, Timed, DfuError, FlashFault

Blameless == HealthInv /\ state.error \notin FlashFault

LEMMA BlamelessInit == ASSUME FAULTS = {}, Init PROVE Blameless
<1>1. sr = {} /\ keyRefused = FALSE /\ memory = MemIdle
  BY DEF Init, HandlerInit
<1>2. state.error \notin FlashFault
  BY ErrorFields DEF Init, NoClass
<1> QED BY <1>1, <1>2 DEF Blameless, HealthInv

\* One step per action; the lemmas above say what the handler answers.
LEMMA BlamelessStep ==
    ASSUME FAULTS = {}, AllInv, AllInv', Blameless, AnyNext
    PROVE  Blameless'
<1> USE DEF AllInv
<1>1. CASE Boot
  <2>1. UNCHANGED handlerVars /\ state' \in {NoClass, DfuError("Firmware"), Plain("DfuIdle")}
    BY <1>1 DEF Boot, BootWith, ClassNew
  <2>2. HealthInv'
    BY <2>1, SameHealth DEF Blameless, handlerVars, memVars
  <2> QED BY <2>1, <2>2, ErrorFields DEF Blameless, NoClass
<1>2. CASE HostEnd \/ HostDownloadStatus \/ HostAbort \/ HostClear
  <2>1. /\ UNCHANGED handlerVars
        /\ state' \in {Plain("DfuManifestSync"), Plain("DfuDnloadIdle"),
                       Timed("DfuDnloadBusy", POLL_TIMEOUT), Plain("DfuIdle")}
    BY <1>2, AskEffect
  <2>2. HealthInv'
    BY <2>1, SameHealth DEF Blameless, handlerVars, memVars
  <2> QED BY <2>1, <2>2, ErrorFields DEF Blameless
<1>3. CASE HostUnexpected
  <2>1. UNCHANGED handlerVars /\ state' = DfuError("StalledPkt")
    BY <1>3 DEF HostUnexpected, UnexpectedIn, UnexpectedOut, Stall
  <2>2. HealthInv'
    BY <2>1, SameHealth DEF Blameless, handlerVars, memVars
  <2> QED BY <2>1, <2>2, ErrorFields DEF Blameless
<1>4. CASE Controller
  <2>1. ControllerStep /\ state' = state
    BY <1>4 DEF Controller, ControllerStep
  <2> QED BY <2>1, ControllerWell DEF Blameless
<1>5. CASE PanicReset \/ PowerCut
  <2>1. HandlerReset /\ state' = NoClass
    BY <1>5 DEF PanicReset, PowerCut, Reset
  <2>2. sr' = {} /\ keyRefused' = FALSE /\ memory' = MemIdle
    BY <2>1 DEF HandlerReset, MemReset
  <2> QED BY <2>1, <2>2, ErrorFields DEF Blameless, HealthInv, NoClass
<1>6. CASE HostDownload \/ AnyDownload
  <2>1. PICK len, number : DownloadOf(number, len)
    BY <1>6 DEF HostDownload, AnyDownload
  <2>2. PICK r \in PollAnswers : /\ Download(Block(number, len), r)
                                 /\ Returns(r, AcceptDownload(len, r))
    BY <2>1 DEF DownloadOf
  <2>3. HealthInv' /\ r \notin FlashFault
    BY <2>2, DownloadWell DEF Blameless
  <2>4. state' \in {state, Plain("DfuDnloadSync"), DfuError(r)}
    BY <2>2 DEF Returns, AcceptDownload
  <2> QED BY <2>3, <2>4, ErrorFields DEF Blameless
<1>7. CASE HostManifestStatus
  <2>1. HealthInv'
    BY <1>7, ManifestationWell DEF HostManifestStatus, Blameless
  <2>2. state' \in {state, Timed("DfuManifest", POLL_TIMEOUT), Plain("DfuIdle"),
                    DfuError("StalledPkt")}
    BY <1>7, ManifestEffect
  <2> QED BY <2>1, <2>2, ErrorFields DEF Blameless
<1>8. CASE HostUpload
  <2>1. PICK len \in UPLOADS, r \in PollAnswers, n \in 0 .. CONTROL_BUFFER :
            AcceptUpload(len, r, n) /\ Upload(CONTROL_BUFFER, r, n)
    BY <1>8 DEF HostUpload
  <2>2. r \in {"Ok", "Unknown"} /\ UNCHANGED memVars
    BY <2>1 DEF Upload, handlerVars
  <2>3. state' \in {Plain("DfuIdle"), Plain("DfuUploadIdle"), DfuError("Unknown")}
    BY <2>1, <2>2 DEF AcceptUpload
  <2>4. hstate' = hstate \/ hstate' \in {"Idle", "Upload"}
    BY <2>1 DEF Upload, handlerVars
  <2>5. HealthInv'
    BY <2>2, <2>4 DEF Blameless, HealthInv, Busy, Holds, memVars
  <2> QED BY <2>3, <2>5, ErrorFields DEF Blameless
<1>9. CASE MainPoll(0) \/ MainPoll(1)
  <2>1. PICK elapsed \in {0, 1} : MainPoll(elapsed)
    BY <1>9
  <2>2. PICK r \in PollAnswers : HandlerPoll(r) /\ Returns(r, Poll(elapsed, r))
    BY <2>1 DEF MainPoll
  <2>3. HealthInv' /\ r \notin FlashFault
    BY <2>2, PollWell DEF Blameless
  <2>4. \/ state' \in {state, DfuError(r)}
        \/ \E t : state' = Plain(t)
        \/ \E t, n : state' = Timed(t, n)
    BY <2>2 DEF Returns, Poll
  <2> QED BY <2>3, <2>4, ErrorFields DEF Blameless
<1> QED BY <1>1, <1>2, <1>3, <1>4, <1>5, <1>6, <1>7, <1>8, <1>9
   DEF AnyNext, Next, Device, Host

\* A flash on which nothing fails is never blamed: whatever the host does and
\* wherever the power is cut, the class reports none of the flash's errors.
THEOREM FlashIsNotBlamed == ASSUME FAULTS = {} PROVE Spec => []NoSpuriousFlashError
<1>1. Init => Blameless
  BY BlamelessInit
<1>2. AllInv /\ AllInv' /\ Blameless /\ [Next]_vars => Blameless'
  <2>1. UNCHANGED vars /\ Blameless => Blameless'
    BY SameHealth DEF Blameless, vars, handlerVars, memVars
  <2> QED BY <2>1, BlamelessStep DEF AnyNext
<1>3. Blameless => NoSpuriousFlashError
  BY DEF Blameless, NoSpuriousFlashError, FlashFault
<1> QED BY <1>1, <1>2, <1>3, BootloaderCorrect, PTL DEF Spec
=============================================================================
