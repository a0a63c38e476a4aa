----------------------------- MODULE FirmwareStore -----------------------------
(***************************************************************************)
(* What the board promises about its firmware, whoever calls its handler:  *)
(* it keeps at most one image on record, starts that one or none, and      *)
(* records an image only after it was offered as a whole and the previous  *)
(* record is gone.  DfuModeAnyCaller is shown to implement this.           *)
(***************************************************************************)
CONSTANT NoImage

VARIABLES
    offered,      \* the images that may come to be recorded
    label,        \* the image on record, or NoImage
    firmware      \* the image a start would run, or NoImage

vars == <<offered, label, firmware>>

Init ==
    /\ firmware = label
    /\ offered = {label} \ {NoImage}

\* A host has sent all of an image; what was offered before is forgotten,
\* unless it is the one on record.
Offer ==
    /\ \E image \in offered' : offered' = {image} \cup (offered \cap {label})
    /\ UNCHANGED <<label, firmware>>

\* The image on record is overwritten or damaged, or its bytes are back.
Damage == firmware' \in {label, NoImage} /\ UNCHANGED <<offered, label>>

\* The record is erased or damaged.
Withdraw == label' = NoImage /\ firmware' = NoImage /\ UNCHANGED offered

\* An image that was offered is recorded, over nothing, and can be started.
Install ==
    /\ label = NoImage
    /\ label' \in offered
    /\ firmware' = label'
    /\ UNCHANGED offered

Next == Offer \/ Damage \/ Withdraw \/ Install

Spec == Init /\ [][Next]_vars
=============================================================================
