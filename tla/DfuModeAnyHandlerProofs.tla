----------------------- MODULE DfuModeAnyHandlerProofs ------------------------
(***************************************************************************)
(* What DfuModeAnyHandler claims, for all capabilities, block sizes and    *)
(* timeouts.                                                               *)
(***************************************************************************)
EXTENDS DfuModeAnyHandler, TLAPS

Inv == TypeOK /\ DownloadStateIsEarned

\* The states the class can be in, by their fields.
LEMMA PlainIsState ==
    ASSUME NEW tag \in PlainTag
    PROVE  Plain(tag) \in ModeState(POLL_TIMEOUT) /\ Plain(tag).tag = tag
BY DEF Plain, ModeState

LEMMA TimedIsState ==
    ASSUME NEW tag \in TimedTag, NEW t \in 1 .. POLL_TIMEOUT
    PROVE  Timed(tag, t) \in ModeState(POLL_TIMEOUT) /\ Timed(tag, t).tag = tag
BY DEF Timed, ModeState

LEMMA ErrorIsState ==
    ASSUME NEW e \in Error
    PROVE  DfuError(e) \in ModeState(POLL_TIMEOUT) /\ DfuError(e).tag = "DfuError"
BY DEF DfuError, ModeState

\* The timer of a state runs exactly in the two timed states.
LEMMA TimerOfState ==
    ASSUME NEW s \in ModeState(POLL_TIMEOUT), s.tag \in TimedTag
    PROVE  s.timeout \in 1 .. POLL_TIMEOUT
BY DEF ModeState, Plain, Timed, DfuError, PlainTag, TimedTag

\* A step to DfuError keeps the invariant whatever dl becomes.
LEMMA StallIsFine ==
    ASSUME NEW e \in Error, state' = DfuError(e),
           dl' \in {"none", "open", "complete", "failed"}
    PROVE  Inv'
<1>1. ClassType'
  BY ErrorIsState DEF ClassType
<1>2. state'.tag = "DfuError"
  BY ErrorIsState
<1> QED BY <1>1, <1>2 DEF Inv, TypeOK, DownloadStateIsEarned, DownloadTag, ManifestTag

\* So does a step to a state that tells the host of no download.
LEMMA QuietIsFine ==
    ASSUME NEW tag \in {"DfuIdle", "DfuUploadIdle"}, state' = Plain(tag),
           dl' \in {"none", "open", "complete", "failed"}
    PROVE  Inv'
<1>1. tag \in PlainTag
  BY DEF PlainTag
<1>2. ClassType' /\ state'.tag = tag
  BY <1>1, PlainIsState DEF ClassType
<1> QED BY <1>2 DEF Inv, TypeOK, DownloadStateIsEarned, DownloadTag, ManifestTag

LEMMA StalledPktIsError == "StalledPkt" \in Error
BY DEF Error

LEMMA OkIsNoError == "Ok" \notin Error /\ "true" \notin Error /\ "false" \notin Error
BY DEF Error

LEMMA InvInit == Init => Inv
<1> SUFFICES ASSUME Init PROVE Inv
  OBVIOUS
<1>1. PICK valid \in BOOLEAN : state = ClassNew(valid)
  BY DEF Init
<1>2. CASE valid
  <2>1. state = Plain("DfuIdle")
    BY <1>1, <1>2 DEF ClassNew
  <2>2. "DfuIdle" \in PlainTag
    BY DEF PlainTag
  <2> QED BY <2>1, <2>2, PlainIsState
          DEF Init, Inv, TypeOK, ClassType, DownloadStateIsEarned, DownloadTag, ManifestTag
<1>3. CASE ~valid
  <2>1. state = DfuError("Firmware")
    BY <1>1, <1>3 DEF ClassNew
  <2>2. "Firmware" \in Error
    BY DEF Error
  <2> QED BY <2>1, <2>2, ErrorIsState
          DEF Init, Inv, TypeOK, ClassType, DownloadStateIsEarned, DownloadTag, ManifestTag
<1> QED BY <1>2, <1>3

LEMMA InvNext == Inv /\ [Next]_vars => Inv'
<1> SUFFICES ASSUME Inv, [Next]_vars PROVE Inv'
  OBVIOUS
<1> DEFINE Dls == {"none", "open", "complete", "failed"}
<1>0. dl \in Dls /\ state \in ModeState(POLL_TIMEOUT)
  BY DEF Inv, TypeOK, ClassType
<1>says. ASSUME NEW answer, NEW then \in Dls PROVE Says(answer, then) \in Dls
  BY <1>says DEF Says
<1>1. CASE Unexpected
  <2>1. state' = DfuError("StalledPkt") /\ dl' = dl
    BY <1>1 DEF Unexpected, UnexpectedIn, UnexpectedOut, Stall
  <2> QED BY <2>1, <1>0, StallIsFine, StalledPktIsError
<1>2. CASE Upload
  <2>1. PICK len \in Lengths, r \in Result :
            /\ \E sz \in 0 .. len : AcceptUpload(len, r, sz)
            /\ dl' = dl
    BY <1>2 DEF Upload
  <2>2. CASE r = "Ok"
    <3>1. state' = Plain("DfuIdle") \/ state' = Plain("DfuUploadIdle")
      BY <2>1, <2>2 DEF AcceptUpload
    <3> QED BY <3>1, <2>1, <1>0, QuietIsFine
  <2>3. CASE r # "Ok"
    <3>1. r \in Error /\ state' = DfuError(r)
      BY <2>1, <2>3 DEF AcceptUpload, Result
    <3> QED BY <3>1, <2>1, <1>0, StallIsFine
  <2> QED BY <2>2, <2>3
<1>3. CASE Abort
  BY <1>3, <1>0, QuietIsFine DEF Abort, AbortUpload
<1>4. CASE Download
  <2>1. PICK len \in Lengths, r \in Result :
            /\ AcceptDownload(len, r)
            /\ dl' = Says(r, IF state.tag = "DfuIdle" THEN "open" ELSE dl)
    BY <1>4 DEF Download
  <2>2. state.tag \in {"DfuIdle", "DfuDnloadIdle"}
    BY <2>1 DEF AcceptDownload, AnswersOut
  <2>3. CASE r = "Ok"
    <3>1. state' = Plain("DfuDnloadSync") /\ dl' = "open"
      BY <2>1, <2>2, <2>3, OkIsNoError
         DEF AcceptDownload, Says, Inv, DownloadStateIsEarned, DownloadTag
    <3>2. "DfuDnloadSync" \in PlainTag
      BY DEF PlainTag
    <3>3. state' \in ModeState(POLL_TIMEOUT) /\ state'.tag = "DfuDnloadSync"
      BY <3>1, <3>2, PlainIsState
    <3> QED BY <3>1, <3>3 DEF Inv, TypeOK, ClassType, DownloadStateIsEarned, ManifestTag
  <2>4. CASE r # "Ok"
    <3>1. r \in Error /\ state' = DfuError(r)
      BY <2>1, <2>4 DEF AcceptDownload, Result
    <3>2. dl' \in Dls
      BY <2>1, <1>0, <1>says
    <3> QED BY <3>1, <3>2, StallIsFine
  <2> QED BY <2>3, <2>4
<1>5. CASE End
  <2>1. PICK a \in Answer :
            /\ EndDownload(a)
            /\ dl' = Says(a, IF a = "true" THEN "complete" ELSE dl)
    BY <1>5 DEF End
  <2>2. dl' \in Dls
    BY <2>1, <1>0, <1>says
  <2>3. CASE a = "true" /\ state' = Plain("DfuManifestSync")
    <3>1. dl' = "complete"
      BY <2>1, <2>3, OkIsNoError DEF Says
    <3>2. "DfuManifestSync" \in PlainTag
      BY DEF PlainTag
    <3>3. state' \in ModeState(POLL_TIMEOUT) /\ state'.tag = "DfuManifestSync"
      BY <2>3, <3>2, PlainIsState
    <3> QED BY <3>1, <3>3 DEF Inv, TypeOK, ClassType, DownloadStateIsEarned, DownloadTag
  <2>4. CASE Stall
    BY <2>2, <2>4, StallIsFine, StalledPktIsError DEF Stall
  <2> QED BY <2>1, <2>3, <2>4 DEF EndDownload
<1>6. CASE Status
  <2>1. PICK a \in Answer : /\ DownloadStatus(a) \/ ManifestStatus(a)
                            /\ dl' = Says(a, dl)
    BY <1>6 DEF Status
  <2>2. dl' \in Dls /\ (a \notin Error => dl' = dl)
    BY <2>1, <1>0, <1>says DEF Says
  <2>3. CASE DownloadStatus(a)
    <3>1. dl = "open"
      BY <2>3 DEF DownloadStatus, Inv, DownloadStateIsEarned, DownloadTag
    <3>2. CASE a = "true"
      <4>1. state' = Plain("DfuDnloadIdle") /\ "DfuDnloadIdle" \in PlainTag
        BY <2>3, <3>2 DEF DownloadStatus, PlainTag
      <4>2. state' \in ModeState(POLL_TIMEOUT) /\ state'.tag = "DfuDnloadIdle"
        BY <4>1, PlainIsState
      <4> QED BY <2>2, <3>1, <3>2, <4>2, OkIsNoError
              DEF Inv, TypeOK, ClassType, DownloadStateIsEarned, ManifestTag
    <3>3. CASE a = "false"
      <4>1. state' = Timed("DfuDnloadBusy", POLL_TIMEOUT) /\ "DfuDnloadBusy" \in TimedTag
        BY <2>3, <3>3 DEF DownloadStatus, TimedTag
      <4>2. state' \in ModeState(POLL_TIMEOUT) /\ state'.tag = "DfuDnloadBusy"
        BY <4>1, TimedIsState, CapabilitiesAssumption
      <4> QED BY <2>2, <3>1, <3>3, <4>2, OkIsNoError
              DEF Inv, TypeOK, ClassType, DownloadStateIsEarned, ManifestTag
    <3>4. CASE a \in Error
      BY <2>2, <2>3, <3>4, OkIsNoError, StallIsFine DEF DownloadStatus
    <3> QED BY <3>2, <3>3, <3>4 DEF Answer
  <2>4. CASE ManifestStatus(a)
    <3>1. dl = "complete"
      BY <2>4 DEF ManifestStatus, Inv, DownloadStateIsEarned, ManifestTag
    <3>2. CASE a = "true" /\ state' = Timed("DfuManifest", POLL_TIMEOUT)
      <4>1. state' \in ModeState(POLL_TIMEOUT) /\ state'.tag = "DfuManifest"
        BY <3>2, TimedIsState, CapabilitiesAssumption DEF TimedTag
      <4> QED BY <2>2, <3>1, <3>2, <4>1, OkIsNoError
              DEF Inv, TypeOK, ClassType, DownloadStateIsEarned, DownloadTag
    <3>3. CASE state' = Plain("DfuIdle")
      BY <2>2, <3>3, QuietIsFine
    <3>4. CASE Stall
      BY <2>2, <3>4, StallIsFine, StalledPktIsError DEF Stall
    <3> QED BY <2>4, <3>2, <3>3, <3>4 DEF ManifestStatus
  <2> QED BY <2>1, <2>3, <2>4
<1>7. CASE Clear
  BY <1>7, <1>0, QuietIsFine DEF Clear, ClearStatus
<1>8. CASE MainPoll
  <2>1. PICK elapsed \in Elapsed, r \in Result : Poll(elapsed, r) /\ dl' = Says(r, dl)
    BY <1>8 DEF MainPoll
  <2>2. state.tag \in TimedTag
    BY <2>1 DEF Poll, PollsHandler
  <2>3. CASE r = "Ok"
    <3> DEFINE remaining == SaturatingSub(state.timeout, elapsed)
    <3> DEFINE expired == IF state.tag = "DfuDnloadBusy" THEN "DfuDnloadSync"
                          ELSE IF IS_MANIFESTATION_TOLERANT THEN "DfuManifestSync"
                          ELSE "DfuManifestWaitReset"
    <3>0. state' = IF remaining # 0 THEN Timed(state.tag, remaining) ELSE Plain(expired)
      BY <2>1, <2>3 DEF Poll
    <3>1. dl' = dl
      BY <2>1, <2>3, OkIsNoError DEF Says
    <3>2. state.timeout \in 1 .. POLL_TIMEOUT
      BY <1>0, <2>2, TimerOfState
    <3>3. CASE remaining # 0
      <4>1. remaining \in 1 .. POLL_TIMEOUT
        BY <3>2, <3>3, CapabilitiesAssumption DEF SaturatingSub, Elapsed
      <4>2. state' = Timed(state.tag, remaining)
        BY <3>0, <3>3
      <4>3. state' \in ModeState(POLL_TIMEOUT) /\ state'.tag = state.tag
        BY <4>1, <4>2, <2>2, TimedIsState
      <4> QED BY <3>1, <4>3, <1>0 DEF Inv, TypeOK, ClassType, DownloadStateIsEarned
    <3>4. CASE remaining = 0 /\ state.tag = "DfuDnloadBusy"
      <4>0. expired = "DfuDnloadSync"
        BY <3>4
      <4>1. state' = Plain("DfuDnloadSync") /\ "DfuDnloadSync" \in PlainTag
        BY <3>0, <3>4, <4>0 DEF PlainTag
      <4>2. state' \in ModeState(POLL_TIMEOUT) /\ state'.tag = "DfuDnloadSync"
        BY <4>1, PlainIsState
      <4> QED BY <3>1, <3>4, <4>2, <1>0
              DEF Inv, TypeOK, ClassType, DownloadStateIsEarned, DownloadTag, ManifestTag
    <3>5. CASE remaining = 0 /\ state.tag = "DfuManifest"
      <4>0. expired \in {"DfuManifestSync", "DfuManifestWaitReset"}
        BY <3>5, CapabilitiesAssumption
      <4>1. \E tag \in {"DfuManifestSync", "DfuManifestWaitReset"} : state' = Plain(tag)
        BY <3>0, <3>5, <4>0
      <4>2. PICK tag \in {"DfuManifestSync", "DfuManifestWaitReset"} : state' = Plain(tag)
        BY <4>1
      <4>3. state' \in ModeState(POLL_TIMEOUT) /\ state'.tag = tag
        BY <4>2, PlainIsState DEF PlainTag
      <4> QED BY <3>1, <3>5, <4>3, <1>0
              DEF Inv, TypeOK, ClassType, DownloadStateIsEarned, DownloadTag, ManifestTag
    <3> QED BY <2>2, <3>3, <3>4, <3>5 DEF TimedTag
  <2>4. CASE r # "Ok"
    <3>1. r \in Error /\ state' = DfuError(r)
      BY <2>1, <2>4 DEF Poll, Result
    <3> QED BY <2>1, <3>1, <1>0, <1>says, StallIsFine
  <2> QED BY <2>3, <2>4
<1>9. CASE UNCHANGED vars
  BY <1>9 DEF vars, Inv, TypeOK, ClassType, DownloadStateIsEarned
<1> QED BY <1>1, <1>2, <1>3, <1>4, <1>5, <1>6, <1>7, <1>8, <1>9 DEF Next

-----------------------------------------------------------------------------
\* The class is always in a state of the DFU mode, its timer within
\* POLL_TIMEOUT (poll and the GETSTATUS handlers of usbd-dfu/src/mode.rs).
THEOREM TypeCorrect == Spec => []TypeOK
<1>1. Inv => TypeOK
  BY DEF Inv
<1> QED BY InvInit, InvNext, <1>1, PTL DEF Spec

\* Whatever the handler answers, no failure of it is hidden behind a state
\* that tells the host its download goes on, and no manifestation is shown
\* before the handler has the whole image (usbd-dfu/src/mode.rs).
THEOREM DownloadIsEarned == Spec => []DownloadStateIsEarned
<1>1. Inv => DownloadStateIsEarned
  BY DEF Inv
<1> QED BY InvInit, InvNext, <1>1, PTL DEF Spec

\* A device that is not manifestation tolerant leaves a manifestation only by
\* an error (manifest_sync_in and poll of usbd-dfu/src/mode.rs).
LEMMA IntolerantStep ==
    Inv /\ [Next]_vars /\ ~IS_MANIFESTATION_TOLERANT /\ state.tag \in ManifestTag
        => state'.tag \in ManifestTag \cup {"DfuError"}
<1> SUFFICES ASSUME Inv, [Next]_vars, ~IS_MANIFESTATION_TOLERANT, state.tag \in ManifestTag
             PROVE  state'.tag \in ManifestTag \cup {"DfuError"}
  OBVIOUS
<1>1. state.tag \in {"DfuManifestSync", "DfuManifest", "DfuManifestWaitReset"}
  BY DEF ManifestTag
<1>2. CASE Unexpected
  BY <1>2 DEF Unexpected, UnexpectedIn, UnexpectedOut, Stall, DfuError
<1>3. CASE Upload
  BY <1>1, <1>3 DEF Upload, AcceptUpload, AnswersIn
<1>4. CASE Abort
  BY <1>1, <1>4 DEF Abort, AbortUpload
<1>5. CASE Download
  BY <1>1, <1>5 DEF Download, AcceptDownload, AnswersOut
<1>6. CASE End
  BY <1>1, <1>6 DEF End, EndDownload
<1>7. CASE Status
  <2>1. PICK a \in Answer : DownloadStatus(a) \/ ManifestStatus(a)
    BY <1>7 DEF Status
  <2>2. ManifestStatus(a)
    BY <1>1, <2>1 DEF DownloadStatus
  <2> QED BY <2>2 DEF ManifestStatus, Stall, DfuError, Timed, ManifestTag
<1>8. CASE Clear
  BY <1>1, <1>8 DEF Clear, ClearStatus
<1>9. CASE MainPoll
  <2>1. PICK elapsed \in Elapsed, r \in Result : Poll(elapsed, r)
    BY <1>9 DEF MainPoll
  <2>2. state.tag = "DfuManifest"
    BY <1>1, <2>1 DEF Poll, PollsHandler, TimedTag
  <2>3. \/ state' = DfuError(r)
        \/ state' = Timed(state.tag, SaturatingSub(state.timeout, elapsed))
        \/ state' = Plain("DfuManifestWaitReset")
    BY <2>1, <2>2 DEF Poll
  <2> QED BY <2>2, <2>3 DEF DfuError, Timed, Plain, ManifestTag
<1>10. CASE UNCHANGED vars
  BY <1>10 DEF vars
<1> QED BY <1>2, <1>3, <1>4, <1>5, <1>6, <1>7, <1>8, <1>9, <1>10 DEF Next

THEOREM IntolerantStops == Spec => IntolerantNeverResumes
<1>1. Inv /\ [Next]_vars =>
        [~IS_MANIFESTATION_TOLERANT /\ state.tag \in ManifestTag
            => state'.tag \in ManifestTag \cup {"DfuError"}]_vars
  BY IntolerantStep
<1> QED BY InvInit, InvNext, <1>1, PTL DEF Spec, IntolerantNeverResumes
=============================================================================
