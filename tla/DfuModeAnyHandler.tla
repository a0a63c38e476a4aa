-------------------------- MODULE DfuModeAnyHandler --------------------------
(***************************************************************************)
(* DFUModeClass against every handler its trait allows: each call may      *)
(* answer anything.  What holds here holds for every board.                *)
(* The history variable dl remembers what the handler said of the download *)
(* the host last started.                                                  *)
(***************************************************************************)
EXTENDS DfuModeClass

VARIABLE dl

vars == <<state, dl>>

Lengths == 0 .. TRANSFER_SIZE + 1      \* wLength, one value above the limit
Elapsed == 0 .. 2                      \* 0 every loop, 1 every tick, 2 if late
Result  == {"Ok"} \cup Error
Answer  == {"true", "false"} \cup Error

Init == /\ \E valid \in BOOLEAN : state = ClassNew(valid)
        /\ dl = "none"

\* What an answer that is no error leaves dl at.
Says(answer, then) == IF answer \in Error THEN "failed" ELSE then

Unexpected ==
    /\ \E req \in Request, len \in Lengths :
          UnexpectedIn(req, len) \/ UnexpectedOut(req, len)
    /\ UNCHANGED dl

Upload ==
    /\ \E len \in Lengths, r \in Result : \E sz \in 0 .. len : AcceptUpload(len, r, sz)
    /\ UNCHANGED dl

Abort == AbortUpload /\ UNCHANGED dl

Download ==
    \E len \in Lengths, r \in Result :
        /\ AcceptDownload(len, r)
        /\ dl' = Says(r, IF state.tag = "DfuIdle" THEN "open" ELSE dl)

End ==
    \E a \in Answer :
        /\ EndDownload(a)
        /\ dl' = Says(a, IF a = "true" THEN "complete" ELSE dl)

Status ==
    \E a \in Answer :
        /\ DownloadStatus(a) \/ ManifestStatus(a)
        /\ dl' = Says(a, dl)

Clear == ClearStatus /\ UNCHANGED dl

MainPoll ==
    \E elapsed \in Elapsed, r \in Result :
        /\ Poll(elapsed, r)
        /\ dl' = Says(r, dl)

Next == \/ Unexpected \/ Upload \/ Abort \/ Download
        \/ End \/ Status \/ Clear \/ MainPoll

Spec == Init /\ [][Next]_vars

-----------------------------------------------------------------------------
DownloadTag == {"DfuDnloadSync", "DfuDnloadBusy", "DfuDnloadIdle"}
ManifestTag == {"DfuManifestSync", "DfuManifest", "DfuManifestWaitReset"}

\* The class state is one a DFU-mode interface can report, its timer never
\* above POLL_TIMEOUT, and dl is one of its four values.
TypeOK == ClassType /\ dl \in {"none", "open", "complete", "failed"}

\* No error is lost and no step skipped: the class reports a download under
\* way only while the handler has failed none of it, whatever call the
\* failure came from (download, poll, is_transfer_complete), and reports a
\* manifestation only after the handler said that it has the whole image.
\* The hazard is the mode.rs code path that sets the state first and the
\* error second, and the results it discards.
DownloadStateIsEarned ==
    /\ state.tag \in DownloadTag => dl = "open"
    /\ state.tag \in ManifestTag => dl = "complete"

\* A device that is not manifestation tolerant never serves another task
\* once the manifestation has begun (lib.rs, IS_MANIFESTATION_TOLERANT):
\* the only way back passes by an error the host has seen.
IntolerantNeverResumes ==
    [][~IS_MANIFESTATION_TOLERANT /\ state.tag \in ManifestTag
            => state'.tag \in ManifestTag \cup {"DfuError"}]_vars
=============================================================================
