---------------------------- MODULE DfuModeClass ----------------------------
(***************************************************************************)
(* DFUModeClass (usbd-dfu/src/mode.rs): the USB class that runs in the     *)
(* bootloader.  It owns one variable, the DFU state, and turns control     *)
(* transfers and main-loop polls into calls of a handler.  An action that  *)
(* calls the handler takes the handler's answer as a parameter:            *)
(*   r   "Ok" or an error   download, upload, poll                         *)
(*   a   "true", "false" or an error   is_transfer_complete,               *)
(*                                     is_manifestation_in_progress        *)
(* so the same actions are checked here against a handler that answers     *)
(* anything, and in Bootloader against the handler the board really has.   *)
(* Transfers for another interface, GETSTATE, the GETSTATUS that changes   *)
(* nothing, and the rejects and accepts of DfuError and of                 *)
(* DfuManifestWaitReset leave the state alone: they are stuttering steps.  *)
(***************************************************************************)
EXTENDS Dfu

CONSTANTS CAN_UPLOAD, CAN_DOWNLOAD, IS_MANIFESTATION_TOLERANT,
          TRANSFER_SIZE,    \* largest block, bytes
          POLL_TIMEOUT      \* how long the device asks the host to wait, ms

ASSUME CapabilitiesAssumption ==
    /\ CAN_UPLOAD \in BOOLEAN /\ CAN_DOWNLOAD \in BOOLEAN
    /\ IS_MANIFESTATION_TOLERANT \in BOOLEAN
    /\ TRANSFER_SIZE \in Nat \ {0}
    /\ POLL_TIMEOUT \in Nat \ {0}

VARIABLE state

ClassType == state \in ModeState(POLL_TIMEOUT)

\* DFUModeClass::new: valid is what is_firmware_valid answered.
ClassNew(valid) == IF valid THEN Plain("DfuIdle") ELSE DfuError("Firmware")

-----------------------------------------------------------------------------
\* stall_in, stall_out: reject the transfer and latch StalledPkt.
Stall == state' = DfuError("StalledPkt")

\* The match arms of the *_in functions that do not stall.
AnswersIn(req, len) ==
    \/ req \in {"DFU_GETSTATE", "DFU_GETSTATUS"}
    \/ /\ req = "DFU_UPLOAD"
       /\ \/ state.tag = "DfuIdle" /\ CAN_UPLOAD /\ len <= TRANSFER_SIZE
          \/ state.tag = "DfuUploadIdle"

\* The match arms of the *_out functions that do not stall.
AnswersOut(req, len) ==
    \/ /\ req = "DFU_DNLOAD"
       /\ \/ state.tag = "DfuIdle" /\ CAN_DOWNLOAD /\ len > 0
          \/ state.tag = "DfuDnloadIdle"
    \/ req = "DFU_ABORT" /\ state.tag \in {"DfuIdle", "DfuUploadIdle"}

\* These two never stall: one accepts everything, the other only rejects.
NeverStalls == state.tag \in {"DfuManifestWaitReset", "DfuError"}

UnexpectedIn(req, len)  == ~NeverStalls /\ ~AnswersIn(req, len) /\ Stall
UnexpectedOut(req, len) == ~NeverStalls /\ ~AnswersOut(req, len) /\ Stall

\* Mutant: a full frame ends the upload as well.
AcceptUploadEager(len, r, sz) ==
    /\ AnswersIn("DFU_UPLOAD", len)
    /\ state' = CASE r # "Ok" -> DfuError(r)
                  [] r = "Ok" /\ sz <= len -> Plain("DfuIdle")
                  [] OTHER -> Plain("DfuUploadIdle")

\* accept_upload, from idle_in or upload_in; the handler produced sz bytes
\* (or failed with r) for a host that asked for len.
AcceptUpload(len, r, sz) ==
    /\ AnswersIn("DFU_UPLOAD", len)
    /\ state' = CASE r # "Ok" -> DfuError(r)
                  [] r = "Ok" /\ sz < len -> Plain("DfuIdle")
                  [] OTHER -> Plain("DfuUploadIdle")

\* Mutant: a download is given up as well, in the class alone.
AbortAnything ==
    state.tag \in {"DfuUploadIdle", "DfuDnloadIdle"} /\ state' = Plain("DfuIdle")

\* upload_out: the host gives up an upload.
AbortUpload == state.tag = "DfuUploadIdle" /\ state' = Plain("DfuIdle")

\* Mutant: the state is set and the handler's error dropped.
AcceptDownloadBlindly(len, r) ==
    len > 0 /\ AnswersOut("DFU_DNLOAD", len) /\ state' = Plain("DfuDnloadSync")

\* accept_download, from idle_out, and the first arm of download_idle_out.
\* The transfer is accepted even when the handler failed.
AcceptDownload(len, r) ==
    /\ len > 0
    /\ AnswersOut("DFU_DNLOAD", len)
    /\ state' = IF r = "Ok" THEN Plain("DfuDnloadSync") ELSE DfuError(r)

\* Mutant: any answer that is no error will do.
EndDownloadUnchecked(a) ==
    /\ state.tag = "DfuDnloadIdle"
    /\ IF a \in Error THEN Stall ELSE state' = Plain("DfuManifestSync")

\* download_idle_out, DNLOAD of no bytes: the host has sent everything.
EndDownload(a) ==
    /\ state.tag = "DfuDnloadIdle"
    /\ \/ a = "true" /\ state' = Plain("DfuManifestSync")
       \/ a # "true" /\ Stall

\* download_sync_in, GETSTATUS: has the block been written?
DownloadStatus(a) ==
    /\ state.tag \in {"DfuDnloadSync", "DfuDnloadBusy"}
    /\ state' = CASE a = "true"  -> Plain("DfuDnloadIdle")
                  [] a = "false" -> Timed("DfuDnloadBusy", POLL_TIMEOUT)
                  [] OTHER       -> DfuError(a)

\* Mutants: any answer will do; the capability is not looked at; the state is
\* not updated.
ManifestStatusAtOnce(a) ==
    /\ state.tag \in {"DfuManifestSync", "DfuManifest"}
    /\ IF a \in Error THEN Stall ELSE state' = Plain("DfuIdle")
ManifestStatusTolerant(a) ==
    /\ state.tag \in {"DfuManifestSync", "DfuManifest"}
    /\ \/ a = "true" /\ state' = Timed("DfuManifest", POLL_TIMEOUT)
       \/ a = "false" /\ state' = Plain("DfuIdle")
       \/ a \in Error /\ Stall
ManifestStatusForgetful(a) ==
    /\ state.tag \in {"DfuManifestSync", "DfuManifest"}
    /\ \/ a = "true" /\ state' = Timed("DfuManifest", POLL_TIMEOUT)
       \/ a = "false" /\ state' = state
       \/ a \in Error /\ Stall

\* manifest_sync_in, GETSTATUS: is the manifestation over?
ManifestStatus(a) ==
    /\ state.tag \in {"DfuManifestSync", "DfuManifest"}
    /\ \/ a = "true" /\ state' = Timed("DfuManifest", POLL_TIMEOUT)
       \/ a = "false" /\ IS_MANIFESTATION_TOLERANT /\ state' = Plain("DfuIdle")
       \/ a = "false" /\ ~IS_MANIFESTATION_TOLERANT /\ Stall
       \/ a \in Error /\ Stall

\* error_out: the only way out of DfuError.
ClearStatus == state.tag = "DfuError" /\ state' = Plain("DfuIdle")

\* Mutant: only a manifestation is polled.
PollsManifestation == state.tag = "DfuManifest"

\* Does DFUModeClass::poll call the handler's poll in this state?
PollsHandler == state.tag \in TimedTag

\* Mutant: the timer expires one poll late.
PollLate(elapsed, r) ==
    /\ PollsHandler
    /\ state' = IF r # "Ok" THEN DfuError(r)
                ELSE IF state.timeout >= elapsed
                     THEN Timed(state.tag, state.timeout - elapsed)
                ELSE Plain(IF state.tag = "DfuDnloadBusy" THEN "DfuDnloadSync"
                           ELSE "DfuManifestSync")

\* DFUModeClass::poll, elapsed milliseconds after the previous call.
Poll(elapsed, r) ==
    LET remaining == SaturatingSub(state.timeout, elapsed)
        expired   == IF state.tag = "DfuDnloadBusy" THEN "DfuDnloadSync"
                     ELSE IF IS_MANIFESTATION_TOLERANT THEN "DfuManifestSync"
                     ELSE "DfuManifestWaitReset"
    IN  /\ PollsHandler
        /\ state' = CASE r # "Ok"      -> DfuError(r)
                      [] r = "Ok" /\ remaining # 0 -> Timed(state.tag, remaining)
                      [] OTHER         -> Plain(expired)
=============================================================================
