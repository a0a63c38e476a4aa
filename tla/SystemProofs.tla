----------------------------- MODULE SystemProofs -----------------------------
(***************************************************************************)
(* One board under the tool and the user of System: what is proved of the  *)
(* bootloader holds of its steps, and the tool's own view of the update is *)
(* true; for every image and every way to cut it into blocks, every sector *)
(* table and set of faults, any number of power cuts and restarts.         *)
(***************************************************************************)
EXTENDS System, BootloaderProofs

(***************************************************************************)
(* What the tool knows.  DoneIsDurable is not inductive: that the image is *)
(* on flash when GETSTATUS says so needs that the tool's blocks add up to  *)
(* it, which holds while the class has not left the download; and that it  *)
(* stays there needs a handler that is Idle from then on, so that nothing  *)
(* but the controller could touch the flash, and the controller is idle.   *)
(***************************************************************************)
PeopleTypes ==
    /\ held \in BOOLEAN /\ session \in {0, 1} /\ tidy
    /\ tool \in {"find", "send", "manifest", "done"} /\ plan \in PLANS
    /\ block \in 1 .. Len(plan) + 1

ToolKnows ==
    /\ tool = "find" => block = 1
    /\ tool = "send" =>
          /\ mode = "dfu" /\ block > 1
          /\ state.tag \in DownloadTag => hostSent = Prefix(plan[block - 1])
    /\ tool = "manifest" => mode = "dfu" /\ (state.tag \in ManifestTag => hostSent = NewImage)

\* No image but these two was ever finished.
TwoImages == finalised \subseteq {FactoryImage, NewImage}

\* The flash is a table of its cells.
FlashTable == flash = [a \in Address |-> flash[a]]

NewIsThere ==
    tool = "done" =>
        /\ hstate = "Idle" /\ state.tag \in {"DfuIdle", "DfuError"}
        /\ HashValid(flash) /\ ImageAt(flash, Len(NewImage)) = NewImage

ToolInv == PeopleTypes /\ ToolKnows /\ TwoImages /\ FlashTable /\ NewIsThere

\* The tool keeps to its way of cutting the image.
SamePlan == plan' = plan /\ NewImage' = NewImage

SystemInv == AllInv /\ StartsOnlyFinished /\ ToolInv

-----------------------------------------------------------------------------
\* The plan and the image.

LEMMA PlanFacts ==
    ASSUME NEW p \in PLANS
    PROVE  /\ Len(p) \in Nat \ {0}
           /\ \A k \in 1 .. Len(p) :
                 /\ p[k] \in Nat \ {0} /\ From(p, k) \in Nat
                 /\ BlockLength(p, k) \in BLOCKS /\ BlockLength(p, k) \in Nat
                 /\ From(p, k) + BlockLength(p, k) = p[k]
<1>1. /\ p \in Seq(Nat) /\ p # <<>>
      /\ \A k \in 1 .. Len(p) : BlockLength(p, k) \in BLOCKS
  BY SystemAssumption
<1>2. Len(p) \in Nat \ {0} /\ \A k \in 1 .. Len(p) : p[k] \in Nat
  BY <1>1
<1>3. ASSUME NEW k \in 1 .. Len(p)
      PROVE  /\ p[k] \in Nat \ {0} /\ From(p, k) \in Nat
             /\ BlockLength(p, k) \in Nat /\ From(p, k) + BlockLength(p, k) = p[k]
  <2>1. From(p, k) \in Nat
    BY <1>2 DEF From
  <2>2. BlockLength(p, k) \in Nat /\ BlockLength(p, k) > 0
    BY <1>1, HostFacts
  <2> QED BY <1>2, <2>1, <2>2 DEF BlockLength
<1> QED BY <1>1, <1>2, <1>3

LEMMA PrefixFacts ==
    ASSUME NEW n \in Nat
    PROVE  /\ IsBytes(Prefix(n)) /\ Len(Prefix(n)) = n
           /\ \A k \in 1 .. n : Prefix(n)[k] = <<"data", 1, k>>
<1> DEFINE p == Prefix(n)
<1>1. p = [k \in 1 .. n |-> <<"data", 1, k>>]
  BY DEF Prefix
<1> HIDE DEF p
<1>2. IsBytes(p) /\ Len(p) = n
  BY <1>1, TableIsBytes
<1>3. \A k \in 1 .. n : p[k] = <<"data", 1, k>>
  BY <1>1
<1> QED BY <1>2, <1>3 DEF p

LEMMA PrefixGrows ==
    ASSUME NEW n \in Nat, NEW len \in Nat
    PROVE  Prefix(n) \o [k \in 1 .. len |-> <<"data", 1, n + k>>] = Prefix(n + len)
<1> DEFINE p == Prefix(n)
           t == [k \in 1 .. len |-> <<"data", 1, n + k>>]
           u == Prefix(n + len)
           j == p \o t
<1>1. IsBytes(p) /\ Len(p) = n /\ \A k \in 1 .. n : p[k] = <<"data", 1, k>>
  BY PrefixFacts
<1>2. /\ IsBytes(u) /\ Len(u) = n + len
      /\ \A k \in 1 .. n + len : u[k] = <<"data", 1, k>>
  BY PrefixFacts
<1>3. IsBytes(t) /\ Len(t) = len /\ \A k \in 1 .. len : t[k] = <<"data", 1, n + k>>
  <2>1. t = [k \in 1 .. len |-> <<"data", 1, n + k>>]
    OBVIOUS
  <2> HIDE DEF t
  <2>2. IsBytes(t) /\ Len(t) = len
    BY <2>1, TableIsBytes
  <2> QED BY <2>1, <2>2
<1> HIDE DEF p, t, u
<1>4. IsBytes(p) /\ IsBytes(t)
  BY <1>1, <1>3
<1>5. /\ IsBytes(j) /\ Len(j) = Len(p) + Len(t)
      /\ \A i \in 1 .. Len(p) : j[i] = p[i]
      /\ \A i \in 1 .. Len(t) : j[Len(p) + i] = t[i]
  BY <1>4, JoinBytes
<1> HIDE DEF j
<1>6. ASSUME NEW i \in 1 .. n + len PROVE j[i] = u[i]
  <2>1. CASE i \in 1 .. n
    BY <2>1, <1>1, <1>2, <1>5
  <2>2. CASE i \notin 1 .. n
    <3>1. PICK k \in 1 .. len : i = n + k
      <4>1. i - n \in 1 .. len /\ i = n + (i - n)
        BY <2>2
      <4> QED BY <4>1
    <3>2. j[i] = t[k]
      BY <3>1, <1>1, <1>3, <1>5
    <3> QED BY <3>1, <3>2, <1>2, <1>3
  <2> QED BY <2>1, <2>2
<1>7. j = u
  <2>1. Len(j) = n + len
    BY <1>1, <1>3, <1>5
  <2>2. \A i \in 1 .. Len(j) : j[i] = u[i]
    BY <1>6, <2>1
  <2> QED BY <1>2, <1>5, <2>1, <2>2, SameBytes
<1> QED BY <1>7 DEF j, p, t, u

\* A block of the tool's is the next of its image, if what the handler has is
\* the image so far.
LEMMA NextBlock ==
    ASSUME plan \in PLANS, NEW k \in 1 .. Len(plan),
           IF hstate = "Download" THEN Len(sent) = From(plan, k) ELSE From(plan, k) = 0
    PROVE  Prefix(From(plan, k)) \o Block(1, BlockLength(plan, k)) = Prefix(plan[k])
<1>1. From(plan, k) \in Nat /\ BlockLength(plan, k) \in Nat /\ From(plan, k) + BlockLength(plan, k) = plan[k]
  BY PlanFacts
<1>2. Block(1, BlockLength(plan, k)) = [i \in 1 .. BlockLength(plan, k) |-> <<"data", 1, From(plan, k) + i>>]
  BY DEF Block
<1> QED BY <1>1, <1>2, PrefixGrows

LEMMA NewImageFacts ==
    ASSUME plan \in PLANS
    PROVE  /\ NewImage = Prefix(plan[Len(plan)])
           /\ Len(NewImage) \in Nat \ {0} /\ NewImage[1] = <<"data", 1, 1>>
<1>1. plan[Len(plan)] \in Nat \ {0}
  BY PlanFacts
<1> QED BY <1>1, PrefixFacts DEF NewImage

\* The bootloader accepts the tool's image.
LEMMA NewImageStarts ==
    ASSUME plan \in PLANS, ImageAt(flash, Len(NewImage)) = NewImage
    PROVE  VectorsValid(flash)
<1>1. ImageAt(flash, Len(NewImage))[1] = flash[APPLICATION_REGION_START]
  BY NewImageFacts, ApplicationFacts DEF ImageAt
<1>2. flash[APPLICATION_REGION_START] = <<"data", 1, 1>>
  BY <1>1, NewImageFacts
<1> QED BY <1>2, SystemAssumption DEF VectorsValid

-----------------------------------------------------------------------------
\* The steps of the system, seen by the bootloader.

LEMMA SystemCalls ==
    ASSUME ToolInv, [SystemNext]_systemVars
    PROVE  [AnyNext]_vars
<1>1. CASE Start
  BY <1>1 DEF Start, Boot, ToolInv, PeopleTypes, AnyNext, Next, Device
<1>2. CASE AppPoll \/ ToolDetach \/ Button \/ HostRestart \/ UNCHANGED systemVars
  BY <1>2 DEF AppPoll, ToolDetach, Button, HostRestart, systemVars, vars, hostVars
<1>3. CASE BootPoll(0) \/ BootPoll(1) \/ FlashWorks
  BY <1>3 DEF BootPoll, FlashWorks, AnyNext, Next, Device
<1>4. CASE ToolUsbReset \/ UserReset \/ PanicRestart \/ Cut
  BY <1>4 DEF ToolUsbReset, Runtime!UsbReset, UserReset, PanicRestart, Cut, PowerCut, AnyNext,
     Next, Device
<1>5. CASE ToolClear \/ ToolStatus \/ ToolEnd \/ ToolManifestStatus
  BY <1>5 DEF ToolClear, ToolStatus, ToolEnd, ToolManifestStatus, AnyNext, Next, Host
<1>6. CASE ToolBlock
  <2>1. plan \in PLANS /\ block \in 1 .. Len(plan)
    BY <1>6, PlanFacts DEF ToolBlock, ToolInv, PeopleTypes
  <2>2. BlockLength(plan, block) \in BLOCKS /\ 1 \in 1 .. MaxSession
    BY <2>1, PlanFacts, HostFacts, SystemAssumption
  <2> QED BY <1>6, <2>2 DEF ToolBlock, AnyDownload, AnyNext
<1> QED BY <1>1, <1>2, <1>3, <1>4, <1>5, <1>6 DEF SystemNext

LEMMA PlanStays == ASSUME [SystemNext]_systemVars PROVE SamePlan
<1>1. plan' = plan
  BY DEF SystemNext, Start, AppPoll, BootPoll, FlashWorks, ToolDetach, ToolUsbReset, ToolClear,
     ToolBlock, ToolStatus, ToolEnd, ToolManifestStatus, Button, UserReset, PanicRestart, Cut,
     HostRestart, peopleVars, systemVars
<1> QED BY <1>1 DEF SamePlan, NewImage

LEMMA FlashIsTable == ASSUME FlashTable, HandlerStep PROVE FlashTable'
<1>1. flash' \in {flash, Effect(op), Spoilt(op)}
  BY DEF HandlerStep, Download, ProgramNew, ProgramUpdate, IsManifestationInProgress, Finalize,
     HandlerPoll, Upload, ControllerStep, ControllerDone, HandlerReset, MemReset, handlerVars,
     memVars
<1> QED BY <1>1 DEF FlashTable, Effect, Spoilt

\* An operation that nobody began leaves it as it is.
LEMMA NothingTouched ==
    ASSUME FlashTable, op = MemIdle, HandlerReset
    PROVE  flash' = flash
<1>1. Cells(op) = {}
  BY OperationFields DEF Cells
<1> QED BY <1>1 DEF FlashTable, HandlerReset, MemReset, Effect, Spoilt

\* Only the call that ends a download makes its image a finished one.
LEMMA FinishedAre ==
    ASSUME NEW a, IsManifestationInProgress(a)
    PROVE  \/ finalised' = finalised
           \/ hstate = "Download" /\ finalised' \subseteq finalised \cup {sent}
BY DEF IsManifestationInProgress, Finalize, handlerVars

LEMMA ToolInvInit == SystemInit => ToolInv
<1> SUFFICES ASSUME SystemInit PROVE ToolInv
  OBVIOUS
<1>1. /\ tool = "find" /\ block = 1 /\ held = FALSE /\ session = 0 /\ tidy = TRUE
      /\ plan \in PLANS
      /\ finalised \subseteq {FactoryImage}
  BY DEF SystemInit, Init, HandlerInit
<1>2. FlashTable
  BY DEF SystemInit, Init, HandlerInit, Blank, Installed, FlashTable
<1>3. 1 \in 1 .. Len(plan) + 1
  BY <1>1, PlanFacts
<1> QED BY <1>1, <1>2, <1>3 DEF ToolInv, PeopleTypes, ToolKnows, TwoImages, NewIsThere

-----------------------------------------------------------------------------
\* Each action keeps the invariant; that the flash stays a table is shown of
\* all of them at once.

LEMMA StartKeeps == ASSUME AllInv, ToolInv, SamePlan, FlashTable', Start PROVE ToolInv'
<1>1. /\ mode = "off" /\ UNCHANGED <<hstate, flash, finalised, session, tidy>>
      /\ UNCHANGED <<held, tool, block>>
      /\ state' \in {NoClass, DfuError("Firmware"), Plain("DfuIdle")}
  BY DEF Start, BootWith, ClassNew, handlerVars, memVars, peopleVars
<1>2. state'.tag \in {"DfuIdle", "DfuError"}
  BY <1>1, NoClassTag, StateFields
<1>3. tool \notin {"send", "manifest"}
  BY <1>1 DEF ToolInv, ToolKnows
<1> QED BY <1>1, <1>2, <1>3 DEF SamePlan, ToolInv, PeopleTypes, ToolKnows, TwoImages, NewIsThere

\* Steps that the bootloader has no part in, and the host's restart.
LEMMA AsideKeeps ==
    ASSUME ToolInv, SamePlan, FlashTable', UNCHANGED vars, held' \in BOOLEAN,
           UNCHANGED <<tool, block>> \/ (tool' = "find" /\ block' = 1)
    PROVE  ToolInv'
<1>1. /\ UNCHANGED <<hstate, flash, finalised, session, tidy, mode, state, hostSent>>
      /\ 1 \in 1 .. Len(plan) + 1
  BY PlanFacts DEF vars, handlerVars, memVars, hostVars
<1> QED BY <1>1 DEF SamePlan, ToolInv, PeopleTypes, ToolKnows, TwoImages, NewIsThere

\* A poll of the main loop finds the tool in a transfer.
LEMMA BootPollKeeps ==
    ASSUME AllInv, AllInv', ToolInv, SamePlan, FlashTable', NEW elapsed \in {0, 1}, BootPoll(elapsed)
    PROVE  ToolInv'
<1>1. MainPoll(elapsed) /\ UNCHANGED <<held, tool, block>>
  BY DEF BootPoll, peopleVars
<1>2. /\ state.tag \in TimedTag /\ finalised' = finalised
      /\ UNCHANGED <<mode, session, tidy, hostSent>>
  BY <1>1 DEF MainPoll, PollsHandler, HandlerPoll, handlerVars, hostVars
<1>3. \/ state'.tag = state.tag
      \/ /\ state.tag = "DfuDnloadBusy"
         /\ state' = Plain("DfuDnloadSync")
      \/ /\ state.tag = "DfuManifest"
         /\ state' \in {Plain("DfuManifestSync"), Plain("DfuManifestWaitReset")}
      \/ \E e \in HandlerError : state' = DfuError(e)
  BY <1>1, MainPollEffect DEF AllInv, BootInv, TypeInv
<1>4. /\ state'.tag \in DownloadTag => state.tag \in DownloadTag
      /\ state'.tag \in ManifestTag => state.tag \in ManifestTag
  BY <1>2, <1>3, StateFields, TagNames
<1>5. tool # "done"
  BY <1>2, TagNames DEF ToolInv, NewIsThere
<1> QED BY <1>1, <1>2, <1>4, <1>5 DEF SamePlan, ToolInv, PeopleTypes, ToolKnows, TwoImages, NewIsThere

\* The controller has nothing to do for a tool that is done.
LEMMA FlashKeeps == ASSUME AllInv, ToolInv, SamePlan, FlashTable', FlashWorks PROVE ToolInv'
<1>1. /\ op # MemIdle
      /\ UNCHANGED <<state, hstate, finalised, session, tidy, mode, hostSent, held, tool, block>>
  BY DEF FlashWorks, Controller, ControllerDone, hostVars,
     peopleVars
<1>2. tool # "done"
  BY <1>1, QuietFlash DEF ToolInv, NewIsThere, AllInv
<1> QED BY <1>1, <1>2 DEF SamePlan, ToolInv, PeopleTypes, ToolKnows, TwoImages, NewIsThere

\* A reset finds the flash of a tool that is done as it was left.
LEMMA AnyResetKeeps ==
    ASSUME AllInv, ToolInv, SamePlan, FlashTable', Reset, held' = held,
           Disconnected \/ (tool \in {"find", "done"} /\ UNCHANGED <<tool, block>>)
    PROVE  ToolInv'
<1>1. /\ HandlerReset /\ hstate' = "Idle" /\ finalised' = finalised /\ state'.tag = "DfuIdle"
      /\ session' = session /\ tidy' = TRUE
  BY NoClassTag DEF Reset, HandlerReset
<1>2. \/ tool' = "find" /\ block' = 1
      \/ tool = "done" /\ UNCHANGED <<tool, block>>
  BY DEF Disconnected, ToolInv, ToolKnows
<1>3. tool = "done" => flash' = flash
  BY <1>1, NothingTouched, QuietFlash DEF ToolInv, NewIsThere, AllInv
<1>4. 1 \in 1 .. Len(plan) + 1
  BY PlanFacts
<1> QED BY <1>1, <1>2, <1>3, <1>4 DEF SamePlan, ToolInv, PeopleTypes, ToolKnows, TwoImages, NewIsThere

\* The handler has what the tool sent, and nothing before it began to send.
LEMMA SentSoFar ==
    ASSUME AllInv, ToolInv, Serving,
           \/ tool = "find" /\ state.tag = "DfuIdle"
           \/ tool = "send" /\ state.tag = "DfuDnloadIdle",
           block <= Len(plan)
    PROVE  /\ plan \in PLANS /\ block \in 1 .. Len(plan)
           /\ IF hstate = "Download" THEN Len(sent) = From(plan, block) ELSE From(plan, block) = 0
           /\ state.tag = "DfuIdle" => From(plan, block) = 0
           /\ state.tag = "DfuDnloadIdle" => hostSent = Prefix(From(plan, block))
<1>1. plan \in PLANS /\ block \in 1 .. Len(plan)
  BY PlanFacts DEF ToolInv, PeopleTypes
<1>2. CASE tool = "find" /\ state.tag = "DfuIdle"
  <2>1. block = 1
    BY <1>2 DEF ToolInv, ToolKnows
  <2>2. ~Busy
    BY <1>2 DEF AllInv, BootInv, OwnInv, ToolInv, PeopleTypes
  <2> QED BY <1>1, <1>2, <2>1, <2>2 DEF From, Busy
<1>3. CASE tool = "send" /\ state.tag = "DfuDnloadIdle"
  <2>1. block > 1 /\ hostSent = Prefix(plan[block - 1])
    BY <1>3, TagNames DEF ToolInv, ToolKnows
  <2>2. From(plan, block) = plan[block - 1] /\ From(plan, block) \in Nat
    BY <1>1, <2>1, PlanFacts DEF From
  <2>3. hstate = "Download" /\ sent = hostSent
    BY <1>3, TagNames DEF AllInv, BootInv, AgreeInv, ClassAgreesWithHandler, OwnInv, Serving,
       Busy, ToolInv, PeopleTypes
  <2> QED BY <1>1, <1>3, <2>1, <2>2, <2>3, PrefixFacts
<1> QED BY <1>2, <1>3

\* A block of the tool's makes what it has sent the image up to that block.
LEMMA BlockSends ==
    ASSUME AllInv, ToolInv, ToolBlock
    PROVE  hostSent' = Prefix(plan[block])
<1> DEFINE b == Block(1, BlockLength(plan, block))
<1>1. /\ Serving /\ block <= Len(plan)
      /\ \/ tool = "find" /\ state.tag = "DfuIdle"
         \/ tool = "send" /\ state.tag = "DfuDnloadIdle"
      /\ hostSent' = IF state.tag = "DfuIdle" THEN b ELSE hostSent \o b
  BY DEF ToolBlock, DownloadOf
<1>2. /\ plan \in PLANS /\ block \in 1 .. Len(plan)
      /\ IF hstate = "Download" THEN Len(sent) = From(plan, block) ELSE From(plan, block) = 0
      /\ state.tag = "DfuIdle" => From(plan, block) = 0
      /\ state.tag = "DfuDnloadIdle" => hostSent = Prefix(From(plan, block))
  BY <1>1, SentSoFar
<1>3. Prefix(From(plan, block)) \o b = Prefix(plan[block])
  BY <1>2, NextBlock
<1>4. IsBytes(b)
  BY <1>2, BlockFacts, PlanFacts DEF IsData, AllInv
<1> HIDE DEF b
<1>5. Prefix(0) = <<>> /\ <<>> \o b = b
  <2>1. IsBytes(Prefix(0)) /\ Len(Prefix(0)) = 0
    BY PrefixFacts
  <2>2. \E S : b \in Seq(S)
    BY <1>4, BytesAreSeq
  <2> QED BY <2>1, <2>2, NoBytes
<1> QED BY <1>1, <1>2, <1>3, <1>5

LEMMA BlockKeeps == ASSUME AllInv, ToolInv, SamePlan, FlashTable', ToolBlock PROVE ToolInv'
<1>1. /\ Serving /\ session' = 1 /\ tool' = "send" /\ block' = block + 1 /\ block <= Len(plan)
      /\ UNCHANGED <<mode, tidy, held>>
  BY DEF ToolBlock, DownloadOf
<1>2. finalised' = finalised
  BY DEF ToolBlock, DownloadOf, Download, ProgramNew, ProgramUpdate
<1>3. hostSent' = Prefix(plan[block])
  BY BlockSends
<1>4. block' \in 1 .. Len(plan) + 1 /\ block' > 1 /\ block' - 1 = block
  BY <1>1, PlanFacts DEF ToolInv, PeopleTypes
<1>5. hostSent' = Prefix(plan[block' - 1])
  BY <1>3, <1>4
<1> QED BY <1>1, <1>2, <1>4, <1>5
        DEF Serving, SamePlan, ToolInv, PeopleTypes, ToolKnows, TwoImages, NewIsThere

\* The class answers from what it knows; only what the tool believes changes.
LEMMA AnswerKeeps ==
    ASSUME AllInv, ToolInv, SamePlan, FlashTable', ToolClear \/ ToolStatus \/ ToolEnd
    PROVE  ToolInv'
<1>1. HostClear \/ HostDownloadStatus \/ HostEnd
  BY DEF ToolClear, ToolStatus, ToolEnd
<1>2. /\ Serving /\ UNCHANGED <<hstate, finalised, mode, session, tidy, hostSent>>
      /\ \/ state.tag = "DfuDnloadIdle" /\ state' = Plain("DfuManifestSync")
         \/ /\ state.tag \in {"DfuDnloadSync", "DfuDnloadBusy"}
            /\ state' \in {Plain("DfuDnloadIdle"), Timed("DfuDnloadBusy", POLL_TIMEOUT)}
         \/ state.tag = "DfuUploadIdle" /\ state' = Plain("DfuIdle")
         \/ state.tag = "DfuError" /\ state' = Plain("DfuIdle")
  BY <1>1, AskEffect DEF AllInv, handlerVars, hostVars
<1>3. CASE ToolClear
  <2>1. tool' = "find" /\ block' = 1 /\ held' = held /\ 1 \in 1 .. Len(plan) + 1
    BY <1>3, PlanFacts DEF ToolClear
  <2> QED BY <1>2, <2>1 DEF SamePlan, ToolInv, PeopleTypes, ToolKnows, TwoImages, NewIsThere
<1>4. CASE ToolStatus
  <2>1. tool = "send" /\ UNCHANGED <<tool, block, held>>
    BY <1>4 DEF ToolStatus, peopleVars
  <2>2. state'.tag \in DownloadTag => state.tag \in DownloadTag
    BY <1>2, StateFields, TagNames
  <2> QED BY <1>2, <2>1, <2>2 DEF SamePlan, ToolInv, PeopleTypes, ToolKnows, TwoImages, NewIsThere
<1>5. CASE ToolEnd
  <2>1. /\ tool = "send" /\ block > Len(plan) /\ tool' = "manifest" /\ UNCHANGED <<block, held>>
        /\ state.tag = "DfuDnloadIdle"
    BY <1>5 DEF ToolEnd, HostEnd, EndDownload
  <2>2. hostSent = Prefix(plan[block - 1]) /\ mode = "dfu"
    BY <2>1, TagNames DEF ToolInv, ToolKnows
  <2>3. block - 1 = Len(plan)
    BY <2>1, PlanFacts DEF ToolInv, PeopleTypes
  <2>4. hostSent = NewImage
    BY <2>2, <2>3 DEF NewImage
  <2> QED BY <1>2, <2>1, <2>2, <2>4 DEF SamePlan, ToolInv, PeopleTypes, ToolKnows, TwoImages, NewIsThere
<1> QED BY <1>3, <1>4, <1>5

\* The answer that ends a manifestation is said of the tool's image.
LEMMA ManifestStatusKeeps ==
    ASSUME AllInv, AllInv', ToolInv, SamePlan, FlashTable', ToolManifestStatus
    PROVE  ToolInv'
<1>1. /\ HostManifestStatus /\ tool = "manifest" /\ UNCHANGED <<block, held>>
      /\ tool' = IF state'.tag = "DfuIdle" THEN "done" ELSE tool
  BY DEF ToolManifestStatus
<1>2. /\ Serving /\ state.tag \in ManifestTag /\ flash' = flash
      /\ UNCHANGED <<mode, session, tidy, hostSent>>
      /\ \/ state' = Timed("DfuManifest", POLL_TIMEOUT)
         \/ hstate' = "Idle" /\ state' \in {Plain("DfuIdle"), DfuError("StalledPkt")}
         \/ state' = state
         \/ state' = DfuError("StalledPkt")
  BY <1>1, ManifestEffect DEF AllInv, hostVars
<1>3. tidy /\ mode = "dfu" /\ hostSent = NewImage
  BY <1>1, <1>2 DEF ToolInv, PeopleTypes, ToolKnows
<1>4. TwoImages'
  <2>1. PICK a : IsManifestationInProgress(a)
    BY <1>1 DEF HostManifestStatus
  <2>2. hstate = "Download" => sent = NewImage
    BY <1>2, <1>3 DEF AllInv, BootInv, OwnInv, Busy
  <2>3. \/ finalised' = finalised
        \/ hstate = "Download" /\ finalised' \subseteq finalised \cup {sent}
    BY <2>1, FinishedAre
  <2> QED BY <2>2, <2>3 DEF SamePlan, ToolInv, TwoImages
<1>5. NewIsThere'
  <2>1. ASSUME state'.tag = "DfuIdle"
        PROVE  hstate' = "Idle" /\ HashValid(flash') /\ ImageAt(flash', Len(NewImage)) = NewImage
    <3>1. hstate' = "Idle"
      BY <1>2, <2>1, StateFields, TagNames
    <3>2. AnyNext
      BY <1>1 DEF AnyNext, Next, Host
    <3>3. HashValid(flash') /\ ImageAt(flash', Len(hostSent)) = hostSent
      BY <1>2, <1>3, <2>1, <3>2, SuccessIsRead DEF AllInv
    <3> QED BY <1>3, <3>1, <3>3
  <2> QED BY <1>1, <2>1 DEF SamePlan, NewIsThere
<1> QED BY <1>1, <1>2, <1>3, <1>4, <1>5 DEF SamePlan, ToolInv, PeopleTypes, ToolKnows

\* One step per action of the system.
LEMMA ToolInvStep ==
    ASSUME AllInv, AllInv', ToolInv, [SystemNext]_systemVars
    PROVE  ToolInv'
<1>1. SamePlan /\ FlashTable'
  <2>1. HandlerStep
    BY SystemCalls, BootloaderSteps DEF AllInv
  <2> QED BY <2>1, FlashIsTable, PlanStays DEF ToolInv
<1>2. CASE Start
  BY <1>1, <1>2, StartKeeps
<1>3. CASE AppPoll \/ ToolDetach \/ Button \/ HostRestart \/ UNCHANGED systemVars
  <2>1. UNCHANGED vars /\ (UNCHANGED <<tool, block>> \/ (tool' = "find" /\ block' = 1))
    BY <1>3 DEF AppPoll, ToolDetach, Button, HostRestart, systemVars, peopleVars, vars, hostVars
  <2>2. held' \in BOOLEAN
    BY <1>3 DEF AppPoll, ToolDetach, Button, Press, Release, HostRestart, systemVars, peopleVars,
       ToolInv, PeopleTypes
  <2> QED BY <1>1, <2>1, <2>2, AsideKeeps
<1>4. CASE BootPoll(0) \/ BootPoll(1)
  BY <1>1, <1>4, BootPollKeeps
<1>5. CASE FlashWorks
  BY <1>1, <1>5, FlashKeeps
<1>6. CASE ToolUsbReset \/ UserReset \/ PanicRestart \/ Cut
  <2>1. /\ Reset /\ held' = held
        /\ Disconnected \/ (tool \in {"find", "done"} /\ UNCHANGED <<tool, block>>)
    BY <1>6 DEF ToolUsbReset, UserReset, PanicRestart, PanicReset, Cut, PowerCut, peopleVars
  <2> QED BY <1>1, <2>1, AnyResetKeeps
<1>7. CASE ToolClear \/ ToolStatus \/ ToolEnd
  BY <1>1, <1>7, AnswerKeeps
<1>8. CASE ToolBlock
  BY <1>1, <1>8, BlockKeeps
<1>9. CASE ToolManifestStatus
  BY <1>1, <1>9, ManifestStatusKeeps
<1> QED BY <1>2, <1>3, <1>4, <1>5, <1>6, <1>7, <1>8, <1>9 DEF SystemNext

LEMMA SystemInvStep == SystemInv /\ [SystemNext]_systemVars => SystemInv'
BY SystemCalls, NextInvs, StartsFinished, ToolInvStep DEF SystemInv

LEMMA SystemCorrect == SystemSpec => []SystemInv
<1>1. SystemInit => SystemInv
  BY BootloaderInit, BootInvInit, ToolInvInit
     DEF SystemInit, SystemInv, AllInv, Init, StartsOnlyFinished
<1> QED BY <1>1, SystemInvStep, PTL DEF SystemSpec

-----------------------------------------------------------------------------
\* The theorems.

\* What the tool was told stays true: from the DfuIdle it reads on, through
\* every restart and power cut, each start finds the tool's image valid.
THEOREM DoneStaysDone == SystemSpec => []DoneIsDurable
<1>1. SystemInv => DoneIsDurable
  BY NewImageStarts DEF SystemInv, ToolInv, PeopleTypes, NewIsThere, DoneIsDurable
<1> QED BY <1>1, SystemCorrect, PTL

\* An application that runs is the old firmware or the new one, entire, and
\* never the old one after the tool was told that the new one is there.
THEOREM RunsOldOrNew == SystemSpec => []OldOrNew
<1>1. ASSUME SystemInv, mode = "app", ImageAt(flash, Len(NewImage)) # NewImage
      PROVE  /\ tool # "done"
             /\ ImageAt(flash, Len(FactoryImage)) = FactoryImage
  <2>1. PICK image \in finalised : ImageAt(flash, Len(image)) = image
    BY <1>1 DEF SystemInv, StartsOnlyFinished
  <2>2. image \in {FactoryImage, NewImage}
    BY <1>1, <2>1 DEF SystemInv, ToolInv, TwoImages
  <2> QED BY <1>1, <2>1, <2>2 DEF SystemInv, ToolInv, NewIsThere
<1>2. SystemInv => OldOrNew
  BY <1>1 DEF OldOrNew
<1> QED BY <1>2, SystemCorrect, PTL

-----------------------------------------------------------------------------
\* A board that works: no fault of the flash, and an image that fits.

PlanFits ==
    \A p \in PLANS : /\ p[1] < APPLICATION_LENGTH
                     /\ \A k \in 1 .. Len(p) : p[k] <= APPLICATION_LENGTH

\* The run-time class has its two states; mishaps are counted.
AsideInv == app.tag \in {"AppIdle", "AppDetach"} /\ mishaps \in 0 .. MaxMishaps

\* Class and handler stay in an update, and the tool knows in which part.
WorkInv ==
    /\ hstate \in {"Idle", "Download", "Manifetation", "Panicked"}
    /\ state.tag \in {"DfuIdle", "DfuError"} \cup DownloadTag \cup ManifestTag
    /\ state.tag \in {"DfuIdle", "DfuError"} => hstate = "Idle"
    /\ tool = "send" => state.tag \in DownloadTag
    /\ tool = "manifest" => state.tag \in ManifestTag
    /\ Busy => Len(sent) <= APPLICATION_LENGTH

\* Only erase_or_program answers Address, and only past the application.
LEMMA AddressIsPast ==
    ASSUME NEW drv, NEW p, EraseOrProgram(drv, p, "Address")
    PROVE  p.addr >= MANIFEST_REGION_START
BY DEF EraseOrProgram, StartErase, StartProgram

LEMMA StartsAnswer ==
    ASSUME NEW drv, NEW s, NEW addr, NEW src, NEW p
    PROVE  /\ ~StartErase(drv, s, "Address") /\ ~StartProgram(drv, addr, src, "Address")
           /\ ~EraseOrProgramManifest(drv, p, "Address")
BY DEF EraseOrProgramManifest, StartErase, StartProgram

\* A Program with less to write than fits never gets past the application.
LEMMA PolledInside ==
    ASSUME DriverInv, FlashInv, HealthInv, Busy, Len(sent) <= APPLICATION_LENGTH,
           NEW r, ProgramPoll(r)
    PROVE  r \in {"Ok", "Done", "panic"}
<1>1. r \in {"Ok", "Done", "panic", "Address"}
  BY PolledWell
<1>2. ASSUME r = "Address" PROVE FALSE
  <2>1. PollResult \in {"Ok", "Pending"}
    BY DEF HealthInv, PollResult
  <2>2. Advance("Address")
    BY <1>2, <2>1 DEF ProgramPoll
  <2> DEFINE n == Written
             rest == SubSeq(program.rest, n + 1, Len(program.rest))
             p == Program(program.current_sector, program.addr + n, program.st, rest)
  <2>3. program.st = "AwaitProgram" /\ rest # <<>> /\ EraseOrProgram(MemIdle, p, "Address")
    BY <2>2, StartsAnswer DEF Advance
  <2>4. program.addr + n >= MANIFEST_REGION_START
    BY <2>3, AddressIsPast, ProgramFields
  <2>5. hstate = "Download"
    BY <2>3 DEF Busy, FlashInv, ProgramInv, ManifestState
  <2>6. DownloadState(flash, memory, op, program, sent)
    BY <2>5 DEF FlashInv, ProgramInv
  <2>7. /\ Splits(flash, program, sent) /\ Writes(flash, memory, op, program)
        /\ IsBytes(program.rest) /\ program.addr \in Nat
    BY <2>3, <2>6 DEF DownloadState, DriverInv, LegalProgram, Busy
  <2> DEFINE w == Width(program)
             u == SubSeq(program.rest, 1, w)
  <2>8. w \in 1 .. Len(program.rest) /\ memory = Programming(program.addr, u)
    BY <2>7 DEF Writes
  <2>9. Len(u) = w
    BY <2>7, <2>8, SplitBytes
  <2>10. n = w
    <3> HIDE DEF u, w
    <3>1. memory.tag = "Programming" /\ memory.src = u
      BY <2>8, OperationFields
    <3> QED BY <2>9, <3>1 DEF Written
  <2>11. IsBytes(rest) /\ Len(rest) = Len(program.rest) - w
    <3>1. w \in 0 .. Len(program.rest)
      BY <2>8
    <3> HIDE DEF u, w
    <3> QED BY <2>7, <2>10, <3>1, SplitBytes
  <2>12. Len(rest) # 0
    BY <2>3, <2>11, NoBytes
  <2>13. Len(sent) = (program.addr - APPLICATION_REGION_START) + Len(program.rest)
    BY <2>7 DEF Splits
  <2> HIDE DEF n, w, u, rest, p
  <2>14. Len(program.rest) \in Nat
    BY <2>7 DEF IsBytes
  <2>15. w \in Nat
    BY <2>8, <2>14
  <2>16. Len(program.rest) - w > 0
    BY <2>8, <2>11, <2>12, <2>14, <2>15
  <2>17. program.addr + w >= MANIFEST_REGION_START /\ program.addr \in Nat
    BY <2>4, <2>7, <2>10
  <2>18. /\ APPLICATION_REGION_START \in Nat /\ MANIFEST_REGION_START \in Nat
         /\ APPLICATION_LENGTH = MANIFEST_REGION_START - APPLICATION_REGION_START
    BY ApplicationFacts, ManifestFacts
  <2>19. /\ (program.addr - APPLICATION_REGION_START) + Len(program.rest)
              <= MANIFEST_REGION_START - APPLICATION_REGION_START
    BY <2>13, <2>18
  <2> QED BY <2>14, <2>15, <2>16, <2>17, <2>18, <2>19, SMT
<1> QED BY <1>1, <1>2

\* A block that fits is accepted, or ends in the panic of an odd address.
LEMMA FittingDownload ==
    ASSUME DriverInv, FlashInv, HealthInv, hstate \in {"Idle", "Download"},
           hstate = "Download" => program.st = "AwaitData",
           NEW b, IsBytes(b), Len(b) > 0,
           hstate = "Idle" => Len(b) < APPLICATION_LENGTH,
           hstate = "Download" => Len(sent) + Len(b) <= APPLICATION_LENGTH,
           NEW r, Download(b, r)
    PROVE  r = "Ok" \/ (r = "panic" /\ hstate = "Download" /\ hstate' = "Panicked")
<1>1. keyRefused = FALSE
  BY DEF HealthInv
<1>2. CASE ProgramNew(b, r)
  <2>1. hstate = "Idle" /\ ~(Len(b) >= APPLICATION_LENGTH)
    BY <1>2, ApplicationFacts DEF ProgramNew, IsBytes
  <2> QED BY <1>1, <1>2, <2>1 DEF ProgramNew, StartErase, UnlockFails
<1>3. CASE ProgramUpdate(b, r)
  <2> DEFINE p == Program(program.current_sector, program.addr, program.st, b)
  <2>1. hstate = "Download" /\ EraseOrProgram(memory, p, r) /\ hstate' = Owner(r)
    BY <1>3 DEF ProgramUpdate
  <2>2. (r = "Ok" /\ Waits) \/ r \in {"panic", "Address"}
    BY <1>1, <2>1, EraseOrProgramWell
  <2>3. ASSUME r = "Address" PROVE FALSE
    <3>1. program.addr >= MANIFEST_REGION_START
      BY <2>1, <2>3, AddressIsPast, ProgramFields
    <3>2. DownloadState(flash, memory, op, program, sent) /\ program.addr \in Nat
      BY <2>1 DEF FlashInv, ProgramInv, DriverInv, LegalProgram, Busy
    <3>3. Len(program.rest) = 0 /\ Splits(flash, program, sent)
      BY <2>1, <3>2 DEF DownloadState
    <3>4. Len(sent) = program.addr - APPLICATION_REGION_START
      BY <3>2, <3>3, ApplicationFacts DEF Splits
    <3>5. Len(b) \in Nat /\ Len(sent) + Len(b) <= APPLICATION_LENGTH
      BY <2>1 DEF IsBytes
    <3>6. /\ APPLICATION_REGION_START \in Nat /\ MANIFEST_REGION_START \in Nat
          /\ APPLICATION_LENGTH = MANIFEST_REGION_START - APPLICATION_REGION_START
      BY ApplicationFacts, ManifestFacts
    <3> HIDE DEF p
    <3>7. program.addr - APPLICATION_REGION_START + Len(b) <= APPLICATION_LENGTH
      BY <3>4, <3>5
    <3> QED BY <3>1, <3>2, <3>5, <3>6, <3>7, SMT
  <2>4. r = "panic" => hstate' = "Panicked"
    BY <2>1, OwnerOf
  <2> QED BY <2>1, <2>2, <2>3, <2>4
<1> QED BY <1>2, <1>3 DEF Download

\* A poll of what fits goes on, or ends in the panic of a write too wide.
LEMMA WorkingPoll ==
    ASSUME DriverInv, FlashInv, HealthInv, WorkInv, NEW r, HandlerPoll(r)
    PROVE  r \in {"Ok", "panic"}
<1>1. CASE /\ Busy
           /\ \E q \in PollAnswers : r = (IF q = "Done" THEN "Ok" ELSE q) /\ ProgramPoll(q)
  <2>1. PICK q \in PollAnswers : r = (IF q = "Done" THEN "Ok" ELSE q) /\ ProgramPoll(q)
    BY <1>1
  <2>2. q \in {"Ok", "Done", "panic"}
    BY <1>1, <2>1, PolledInside DEF WorkInv
  <2> QED BY <2>1, <2>2
<1>2. CASE r = "Ok"
  BY <1>2
<1> QED BY <1>1, <1>2 DEF HandlerPoll, Busy

\* So does a manifestation that is asked for its news.
LEMMA WorkingManifestation ==
    ASSUME DriverInv, FlashInv, HealthInv, WorkInv,
           hstate = "Download" => program.st = "AwaitData",
           NEW a, IsManifestationInProgress(a)
    PROVE  a \in {"true", "false", "panic"}
<1>1. CASE Finalize(a)
  <2>1. PICK r \in PollAnswers : /\ a = IF r = "Ok" THEN "true" ELSE r
                                 /\ EraseOrProgramManifest(memory, program, r)
    BY <1>1 DEF Finalize
  <2>2. r \in {"Ok", "panic"}
    BY <2>1, EraseOrProgramManifestWell DEF HealthInv
  <2> QED BY <2>1, <2>2
<1>2. CASE /\ hstate = "Manifetation"
           /\ \E r \in PollAnswers :
                 /\ a = CASE r = "Ok" -> "true" [] r = "Done" -> "false" [] OTHER -> r
                 /\ ProgramPoll(r)
  <2>1. PICK r \in PollAnswers :
                 /\ a = CASE r = "Ok" -> "true" [] r = "Done" -> "false" [] OTHER -> r
                 /\ ProgramPoll(r)
    BY <1>2
  <2>2. Busy
    BY <1>2 DEF Busy
  <2>3. r \in {"Ok", "Done", "panic"}
    BY <2>1, <2>2, PolledInside DEF WorkInv
  <2> QED BY <2>1, <2>3
<1>3. CASE a = "false"
  BY <1>3
<1> QED BY <1>1, <1>2, <1>3 DEF IsManifestationInProgress, WorkInv

LEMMA AsideStep == ASSUME AsideInv, [SystemNext]_systemVars PROVE AsideInv'
<1>1. app'.tag \in {"AppIdle", "AppDetach"}
  <2>1. CASE Start
    BY <2>1 DEF Start, Runtime!Restart, Runtime!AppIdle, Runtime!Plain, runtimeVars, AsideInv
  <2>2. CASE AppPoll
    <3>1. \/ app' \in {app, Runtime!AppIdle}
          \/ \E t : app' = Runtime!AppDetach(t)
      BY <2>2 DEF AppPoll, Runtime!Poll
    <3> QED BY <3>1 DEF Runtime!AppIdle, Runtime!AppDetach, Runtime!Plain, Runtime!Timed, AsideInv
  <2>3. CASE ToolDetach
    <3>1. \E t : app' = Runtime!AppDetach(t)
      BY <2>3 DEF ToolDetach, Runtime!Detach
    <3> QED BY <3>1 DEF Runtime!AppDetach, Runtime!Timed
  <2>4. CASE ~(Start \/ AppPoll \/ ToolDetach)
    <3>1. app' = app
      BY <2>4 DEF SystemNext, BootPoll, FlashWorks, ToolUsbReset, Runtime!UsbReset, ToolClear,
         ToolBlock, ToolStatus, ToolEnd, ToolManifestStatus, Button, UserReset,
         PanicRestart, Cut, HostRestart, runtimeVars, systemVars
    <3> QED BY <3>1 DEF AsideInv
  <2> QED BY <2>1, <2>2, <2>3, <2>4
<1>2. mishaps' \in 0 .. MaxMishaps
  <2>1. mishaps' = mishaps \/ (mishaps < MaxMishaps /\ mishaps' = mishaps + 1)
    BY DEF SystemNext, Start, AppPoll, BootPoll, FlashWorks, ToolDetach, ToolUsbReset, ToolClear,
       ToolBlock, ToolStatus, ToolEnd, ToolManifestStatus, Button, UserReset, PanicRestart,
       Cut, HostRestart, peopleVars, systemVars
  <2> QED BY <2>1, SystemAssumption DEF AsideInv
<1> QED BY <1>1, <1>2 DEF AsideInv

-----------------------------------------------------------------------------
\* Each action keeps it.

\* Steps after which the handler is Idle and the class waits for a request.
LEMMA RestKeeps ==
    ASSUME hstate' = "Idle", state'.tag \in {"DfuIdle", "DfuError"},
           tool' \in {"find", "done"}
    PROVE  WorkInv'
BY DEF WorkInv, Busy

LEMMA ResetWorks ==
    ASSUME ToolInv, ToolUsbReset \/ UserReset \/ PanicRestart \/ Cut
    PROVE  WorkInv'
<1>1. /\ Reset
      /\ Disconnected \/ (tool \in {"find", "done"} /\ UNCHANGED tool)
  BY DEF ToolUsbReset, UserReset, PanicRestart, PanicReset, Cut, PowerCut, peopleVars
<1>2. hstate' = "Idle" /\ state'.tag = "DfuIdle"
  BY <1>1, NoClassTag DEF Reset, HandlerReset
<1>3. tool' \in {"find", "done"}
  BY <1>1 DEF Disconnected
<1> QED BY <1>2, <1>3, RestKeeps

LEMMA StartWorks == ASSUME AllInv, ToolInv, Start PROVE WorkInv'
<1>1. /\ mode = "off" /\ hstate' = hstate /\ tool' = tool
      /\ state' \in {NoClass, DfuError("Firmware"), Plain("DfuIdle")}
  BY DEF Start, BootWith, ClassNew, handlerVars, peopleVars
<1>2. hstate = "Idle"
  BY <1>1 DEF AllInv, BootInv, AgreeInv
<1>3. state'.tag \in {"DfuIdle", "DfuError"}
  BY <1>1, NoClassTag, StateFields
<1>4. tool \in {"find", "done"}
  BY <1>1 DEF ToolInv, PeopleTypes, ToolKnows
<1> QED BY <1>1, <1>2, <1>3, <1>4, RestKeeps

\* Steps that class and handler have no part in.
LEMMA AsideWorks ==
    ASSUME WorkInv, UNCHANGED <<hstate, state, sent>>, tool' \in {tool, "find"}
    PROVE  WorkInv'
BY DEF WorkInv, Busy

LEMMA BootPollWorks ==
    ASSUME IS_MANIFESTATION_TOLERANT, AllInv, AllInv', HealthInv, WorkInv,
           NEW elapsed \in {0, 1}, BootPoll(elapsed)
    PROVE  WorkInv'
<1>1. MainPoll(elapsed) /\ tool' = tool
  BY DEF BootPoll, peopleVars
<1>2. PICK r \in PollAnswers : HandlerPoll(r) /\ Returns(r, Poll(elapsed, r))
  BY <1>1 DEF MainPoll
<1>3. r \in {"Ok", "panic"} /\ state.tag \in TimedTag
  BY <1>1, <1>2, WorkingPoll DEF AllInv, MainPoll, PollsHandler
<1>4. \/ r = "Ok" /\ UNCHANGED <<hstate, sent>>
      \/ r = "Ok" /\ hstate' = "Idle"
      \/ r = "panic" /\ hstate' = "Panicked"
  <2>1. \/ r = "Ok" /\ UNCHANGED <<hstate, sent>>
        \/ r = "Ok" /\ hstate = "Manifetation" /\ hstate' = "Idle" /\ Entire(sent)
        \/ r = "panic" /\ hstate' = "Panicked"
        \/ r \in HandlerError /\ hstate' = "Error"
    BY <1>2, PollAnswersAre DEF AllInv
  <2> QED BY <1>3, <2>1 DEF HandlerError
<1>5. \/ state' = state
      \/ \E t : state' = Timed(state.tag, t)
      \/ state.tag = "DfuDnloadBusy" /\ state' = Plain("DfuDnloadSync")
      \/ state.tag = "DfuManifest" /\ state' = Plain("DfuManifestSync")
  BY <1>2, <1>3, TagNames DEF Returns, Poll
<1>6. /\ state'.tag \in DownloadTag \cup ManifestTag
      /\ state.tag \in DownloadTag => state'.tag \in DownloadTag
      /\ state.tag \in ManifestTag => state'.tag \in ManifestTag
  BY <1>3, <1>5, StateFields, TagNames
<1>7. state'.tag \notin {"DfuIdle", "DfuError"}
  BY <1>6, TagNames
<1> QED BY <1>1, <1>3, <1>4, <1>6, <1>7 DEF WorkInv, Busy

\* What the class answers from what it knows.
LEMMA AnswerWorks ==
    ASSUME AllInv, WorkInv, ToolClear \/ ToolStatus \/ ToolEnd
    PROVE  WorkInv'
<1>1. UNCHANGED <<hstate, sent>>
  BY DEF ToolClear, ToolStatus, ToolEnd, HostClear, HostDownloadStatus, HostEnd, handlerVars
<1>2. \/ /\ ToolClear /\ state.tag = "DfuError" /\ state' = Plain("DfuIdle") /\ tool' = "find"
      \/ /\ ToolStatus /\ state.tag \in {"DfuDnloadSync", "DfuDnloadBusy"}
         /\ tool = "send" /\ tool' = tool
      \/ /\ ToolEnd /\ state.tag = "DfuDnloadIdle" /\ tool' = "manifest"
  BY DEF ToolClear, ToolStatus, ToolEnd, HostClear, ClearStatus, HostDownloadStatus,
     DownloadStatus, HostEnd, EndDownload, peopleVars
<1>3. CASE ToolClear /\ state.tag = "DfuError" /\ state' = Plain("DfuIdle") /\ tool' = "find"
  BY <1>1, <1>3, StateFields, RestKeeps DEF WorkInv
<1>4. CASE /\ ToolStatus /\ state.tag \in {"DfuDnloadSync", "DfuDnloadBusy"}
           /\ tool = "send" /\ tool' = tool
  <2>1. state'.tag \in DownloadTag
    BY <1>4, AskEffect, StateFields, TagNames DEF AllInv, ToolStatus
  <2> QED BY <1>1, <1>4, <2>1, TagNames DEF WorkInv, Busy
<1>5. CASE ToolEnd /\ state.tag = "DfuDnloadIdle" /\ tool' = "manifest"
  <2>1. state' = Plain("DfuManifestSync")
    BY <1>5, AskEffect DEF AllInv, ToolEnd
  <2>2. state'.tag \in ManifestTag /\ state'.tag \notin {"DfuIdle", "DfuError"}
    BY <2>1, StateFields, TagNames
  <2> QED BY <1>1, <1>5, <2>2 DEF WorkInv, Busy
<1> QED BY <1>2, <1>3, <1>4, <1>5

\* The blocks of an image that fits are all accepted.
LEMMA BlockWorks ==
    ASSUME PlanFits, AllInv, AllInv', HealthInv, ToolInv, ToolInv', WorkInv, ToolBlock
    PROVE  WorkInv'
<1> DEFINE b == Block(1, BlockLength(plan, block))
<1>1. /\ Serving /\ block <= Len(plan) /\ tool' = "send" /\ UNCHANGED <<mode, tidy>>
      /\ \/ tool = "find" /\ state.tag = "DfuIdle"
         \/ tool = "send" /\ state.tag = "DfuDnloadIdle"
      /\ \E r \in PollAnswers : Download(b, r) /\ Returns(r, AcceptDownload(BlockLength(plan, block), r))
  BY DEF ToolBlock, DownloadOf
<1>2. PICK r \in PollAnswers :
          Download(b, r) /\ Returns(r, AcceptDownload(BlockLength(plan, block), r))
  BY <1>1
<1>3. /\ plan \in PLANS /\ block \in 1 .. Len(plan)
      /\ IF hstate = "Download" THEN Len(sent) = From(plan, block) ELSE From(plan, block) = 0
  BY <1>1, SentSoFar
<1>4. IsBytes(b) /\ Len(b) = BlockLength(plan, block)
  BY <1>3, BlockFacts, PlanFacts DEF IsData, AllInv
<1> HIDE DEF b
<1>5. BlockLength(plan, block) \in Nat \ {0} /\ From(plan, block) \in Nat
  BY <1>3, PlanFacts, HostFacts
<1>6. \/ hstate = "Idle" /\ state.tag = "DfuIdle" /\ block = 1
      \/ hstate = "Download" /\ state.tag = "DfuDnloadIdle" /\ program.st = "AwaitData"
  <2>1. state.tag = "DfuIdle" => hstate = "Idle" /\ block = 1
    BY <1>1, StateFields DEF WorkInv, ToolInv, ToolKnows
  <2>2. state.tag = "DfuDnloadIdle" => hstate = "Download" /\ program.st = "AwaitData"
    BY <1>1, TagNames DEF AllInv, BootInv, AgreeInv, ClassAgreesWithHandler, Serving
  <2> QED BY <1>1, <2>1, <2>2
<1>7. /\ hstate = "Idle" => Len(b) < APPLICATION_LENGTH
      /\ hstate = "Download" => Len(sent) + Len(b) <= APPLICATION_LENGTH
  <2>1. /\ From(plan, block) + BlockLength(plan, block) = plan[block] /\ plan[block] <= APPLICATION_LENGTH
        /\ plan[1] < APPLICATION_LENGTH
    BY <1>3, PlanFacts DEF PlanFits
  <2>2. hstate = "Idle" => block = 1 /\ From(plan, block) = 0
    BY <1>3, <1>6
  <2> QED BY <1>3, <1>4, <1>5, <2>1, <2>2
<1>8. r = "Ok" \/ (r = "panic" /\ hstate = "Download" /\ hstate' = "Panicked")
  <2>1. Len(b) > 0
    BY <1>4, <1>5
  <2>2. hstate \in {"Idle", "Download"} /\ (hstate = "Download" => program.st = "AwaitData")
    BY <1>6
  <2> QED BY <1>2, <1>4, <1>7, <2>1, <2>2, FittingDownload DEF AllInv
<1>9. CASE r = "Ok"
  <2>1. hstate' = "Download"
    BY <1>2, <1>9, DownloadAnswers, AnswersSorted DEF AllInv
  <2>2. state' = Plain("DfuDnloadSync")
    BY <1>2, <1>9 DEF Returns, AcceptDownload
  <2>3. state'.tag \in DownloadTag /\ state'.tag \notin {"DfuIdle", "DfuError"}
    BY <2>2, StateFields, TagNames
  <2>4. Len(sent') <= APPLICATION_LENGTH
    <3>1. sent' = hostSent'
      BY <1>1, <2>1, <2>3 DEF AllInv, BootInv, OwnInv, Serving, Busy, ToolInv, PeopleTypes
    <3>2. hostSent' = Prefix(plan[block]) /\ plan[block] \in Nat
      BY <1>3, BlockSends, PlanFacts
    <3>3. Len(Prefix(plan[block])) = plan[block] /\ plan[block] <= APPLICATION_LENGTH
      BY <1>3, <3>2, PrefixFacts DEF PlanFits
    <3> QED BY <3>1, <3>2, <3>3
  <2> QED BY <1>1, <2>1, <2>3, <2>4 DEF WorkInv
<1>10. CASE r = "panic" /\ hstate = "Download" /\ hstate' = "Panicked"
  <2>1. state' = state /\ state.tag \in DownloadTag /\ state.tag \notin {"DfuIdle", "DfuError"}
    BY <1>2, <1>6, <1>10, TagNames DEF Returns
  <2> QED BY <1>1, <1>10, <2>1 DEF WorkInv, Busy
<1> QED BY <1>8, <1>9, <1>10

\* A manifestation goes on, ends well, or panics with the class unmoved.
LEMMA ManifestStatusWorks ==
    ASSUME IS_MANIFESTATION_TOLERANT, AllInv, AllInv', HealthInv, WorkInv, ToolManifestStatus
    PROVE  WorkInv'
<1>1. /\ HostManifestStatus /\ tool = "manifest" /\ Serving /\ state.tag \in ManifestTag
      /\ tool' = IF state'.tag = "DfuIdle" THEN "done" ELSE tool
  BY DEF ToolManifestStatus, HostManifestStatus, ManifestTag
<1>2. PICK a : IsManifestationInProgress(a) /\ Returns(a, ManifestStatus(a))
  BY <1>1 DEF HostManifestStatus
<1>3. hstate = "Download" => program.st = "AwaitData"
  BY <1>1 DEF AllInv, BootInv, AgreeInv, ClassAgreesWithHandler, Serving
<1>4. a \in {"true", "false", "panic"}
  BY <1>2, <1>3, WorkingManifestation DEF AllInv
<1>5. \/ a = "true" /\ hstate' = "Manifetation" /\ Busy /\ sent' = sent
      \/ a = "false" /\ hstate' = "Idle"
      \/ a = "panic" /\ hstate' = "Panicked"
  <2>1. \/ a = "true" /\ hstate' = "Manifetation" /\ Busy /\ sent' = sent
        \/ a = "false" /\ hstate = "Manifetation" /\ hstate' = "Idle" /\ Entire(sent)
        \/ a = "false" /\ hstate = "Idle" /\ hstate' = "Idle" /\ UNCHANGED handlerVars
        \/ a = "panic" /\ hstate' = "Panicked"
        \/ a \in HandlerError /\ hstate' = "Error"
    BY <1>2, ManifestationAnswers DEF AllInv
  <2> QED BY <1>4, <2>1 DEF HandlerError
<1>6. CASE a = "true" /\ hstate' = "Manifetation" /\ Busy /\ sent' = sent
  <2>1. state' = Timed("DfuManifest", POLL_TIMEOUT)
    BY <1>2, <1>6 DEF Returns, ManifestStatus, Error
  <2>2. state'.tag = "DfuManifest"
    BY <2>1, StateFields
  <2> QED BY <1>1, <1>6, <2>2, TagNames DEF WorkInv
<1>7. CASE a = "false" /\ hstate' = "Idle"
  <2>1. state' = Plain("DfuIdle")
    BY <1>2, <1>7 DEF Returns, ManifestStatus, Error
  <2>2. state'.tag = "DfuIdle" /\ tool' = "done"
    BY <1>1, <2>1, StateFields
  <2> QED BY <1>7, <2>2, RestKeeps
<1>8. CASE a = "panic" /\ hstate' = "Panicked"
  <2>1. state' = state /\ state.tag # "DfuIdle" /\ state.tag # "DfuError" /\ tool' = tool
    BY <1>1, <1>2, <1>8, TagNames DEF Returns
  <2> QED BY <1>1, <1>8, <2>1 DEF WorkInv, Busy
<1> QED BY <1>5, <1>6, <1>7, <1>8

LEMMA WorkInvInit == SystemInit => WorkInv /\ AsideInv
<1> SUFFICES ASSUME SystemInit PROVE WorkInv /\ AsideInv
  OBVIOUS
<1>1. /\ hstate = "Idle" /\ state = NoClass /\ tool = "find" /\ mishaps = 0
      /\ app = Plain("AppIdle")
  BY DEF SystemInit, RuntimeFresh, Init, HandlerInit
<1> QED BY <1>1, NoClassTag, StateFields, SystemAssumption DEF WorkInv, AsideInv, Busy

\* One step per action of the system.
LEMMA WorkInvStep ==
    ASSUME IS_MANIFESTATION_TOLERANT, PlanFits, SystemInv, SystemInv', HealthInv, WorkInv,
           [SystemNext]_systemVars
    PROVE  WorkInv'
<1>1. AllInv /\ AllInv' /\ ToolInv /\ ToolInv'
  BY DEF SystemInv
<1>2. CASE Start
  BY <1>1, <1>2, StartWorks
<1>3. CASE AppPoll \/ ToolDetach \/ Button \/ HostRestart \/ FlashWorks \/ UNCHANGED systemVars
  <2>1. UNCHANGED <<hstate, state, sent>> /\ tool' \in {tool, "find"}
    BY <1>3 DEF AppPoll, ToolDetach, Button, HostRestart, FlashWorks, Controller,
       systemVars, peopleVars, vars, handlerVars
  <2> QED BY <2>1, AsideWorks
<1>4. CASE BootPoll(0) \/ BootPoll(1)
  BY <1>1, <1>4, BootPollWorks
<1>5. CASE ToolUsbReset \/ UserReset \/ PanicRestart \/ Cut
  BY <1>1, <1>5, ResetWorks
<1>6. CASE ToolClear \/ ToolStatus \/ ToolEnd
  BY <1>1, <1>6, AnswerWorks
<1>7. CASE ToolBlock
  BY <1>1, <1>7, BlockWorks
<1>8. CASE ToolManifestStatus
  BY <1>1, <1>8, ManifestStatusWorks
<1> QED BY <1>2, <1>3, <1>4, <1>5, <1>6, <1>7, <1>8 DEF SystemNext

\* On a board that works and for an image that fits, what the tool believes
\* of the class is so: between its requests the class never leaves the part
\* of the update it was in, and no request of the tool's is refused.
THEOREM ToolIsNeverSurprised ==
    ASSUME FAULTS = {}, IS_MANIFESTATION_TOLERANT, PlanFits
    PROVE  SystemSpec => []SystemTypeOK
<1> DEFINE I == Blameless /\ WorkInv /\ AsideInv
<1>1. SystemInit => I
  BY BlamelessInit, WorkInvInit DEF SystemInit
<1>2. SystemInv /\ SystemInv' /\ I /\ [SystemNext]_systemVars => I'
  <2> SUFFICES ASSUME SystemInv, SystemInv', I, [SystemNext]_systemVars PROVE I'
    OBVIOUS
  <2>1. [AnyNext]_vars
    BY SystemCalls DEF SystemInv
  <2>2. Blameless'
    <3>1. UNCHANGED vars => Blameless'
      BY SameHealth DEF Blameless, vars, handlerVars, memVars
    <3> QED BY <2>1, <3>1, BlamelessStep DEF SystemInv
  <2>3. WorkInv'
    BY WorkInvStep DEF Blameless
  <2> QED BY <2>2, <2>3, AsideStep
<1>3. SystemInv /\ I => SystemTypeOK
  BY TagNames DEF SystemInv, ToolInv, PeopleTypes, ToolKnows, WorkInv, AsideInv, SystemTypeOK
<1> HIDE DEF I
<1> QED BY <1>1, <1>2, <1>3, SystemCorrect, PTL DEF SystemSpec
=============================================================================
