----------------------------- MODULE PanicMessage -----------------------------
(***************************************************************************)
(* The message the panic handler leaves for the next run of the program    *)
(* (trace.rs).  It is in .uninit memory: a reset keeps it, the power going *)
(* leaves anything there.  Every panic writes the same text, so that its   *)
(* length says all of it.                                                  *)
(***************************************************************************)
EXTENDS Integers

CONSTANTS
    PANIC_SIZE,   \* the size of the buffer
    MESSAGE,      \* the length of what a panic writes
    GARBAGE,      \* lengths found after the power was off
    MaxPanics     \* bound: panics between two reports

ASSUME PanicAssumption ==
    /\ PANIC_SIZE \in Nat /\ MESSAGE \in 1 .. PANIC_SIZE
    /\ PANIC_SIZE % MESSAGE # 0
    /\ GARBAGE \subseteq Nat /\ GARBAGE # {}
    /\ MaxPanics \in Nat

VARIABLES
    err,          \* ERROR.len
    hung,         \* a panic has panicked: the processor goes no further
    known,        \* history: err was cleared since the power came
    unread        \* history: panics since it was cleared, or the power came

panicVars == <<err, hung, known, unread>>

PanicInit ==
    /\ err \in GARBAGE
    /\ hung = FALSE /\ known = FALSE /\ unread = 0

\* LastPanicMessage::write_str: the slice of the buffer panics when it ends
\* beyond it, in the panic handler itself; otherwise the board resets.
OnPanic ==
    /\ ~hung /\ unread < MaxPanics
    /\ unread' = unread + 1
    /\ IF err + MESSAGE > PANIC_SIZE
         THEN hung' = TRUE /\ UNCHANGED err
         ELSE err' = err + MESSAGE /\ UNCHANGED hung
    /\ UNCHANGED known

\* A reset, by a pin, the host or the panic handler; and one by the power.
KeepMessage == hung' = FALSE /\ UNCHANGED <<err, known, unread>>
LoseMessage == err' \in GARBAGE /\ hung' = FALSE /\ known' = FALSE /\ unread' = 0

\* The test of main for a message.
HasMessage == 0 < err /\ err < PANIC_SIZE

\* Mutants of ClearMessage: forgotten, and done only if there was a message.
ClearNothing     == known' = TRUE /\ unread' = 0 /\ UNCHANGED <<err, hung>>
ClearOnlyMessage == /\ err' = IF HasMessage THEN 0 ELSE err
                    /\ known' = TRUE /\ unread' = 0 /\ UNCHANGED hung

\* err.len = 0, after the report.
ClearMessage == err' = 0 /\ known' = TRUE /\ unread' = 0 /\ UNCHANGED hung

-----------------------------------------------------------------------------
\* A panic handler that panics itself has been left with more panics than its
\* buffer holds, or with what was in the memory when the power came.
HangsOnlyUnread == hung /\ known => unread * MESSAGE > PANIC_SIZE
=============================================================================
