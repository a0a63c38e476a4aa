------------------------------ MODULE DfuRuntime ------------------------------
(***************************************************************************)
(* DFURuntimeClass (usbd-dfu/src/runtime.rs): the interface of a running   *)
(* application that turns a DFU_DETACH followed by a USB reset into a      *)
(* reboot, over the board's handler (src/nucleo_f401re/dfu/mod.rs), whose  *)
(* on_reset resets the MCU and whose on_detach_request does nothing.       *)
(* The host sends any request and any number of USB resets.                *)
(***************************************************************************)
EXTENDS Dfu

CONSTANTS TIMEOUTS,           \* wTimeout of the DETACH requests, ms
          ELAPSED             \* what poll may be called with, ms

ASSUME RuntimeAssumption == TIMEOUTS \subseteq Nat /\ ELAPSED \subseteq Nat

VARIABLES
    state,        \* the DFU state of the interface
    rebooted,     \* on_reset was called: the MCU is on its way to main()
    asked,        \* history: wTimeout of the DETACH in force, or NoDetach
    waited,       \* history: ms counted by poll since it came, until over
    polled        \* history: poll was called since it came

vars == <<state, rebooted, asked, waited, polled>>

NoDetach  == -1
AppIdle   == Plain("AppIdle")
AppDetach(t) == Timed("AppDetach", t)

Init ==
    /\ state = AppIdle
    /\ rebooted = FALSE
    /\ asked = NoDetach
    /\ waited = 0
    /\ polled = FALSE

-----------------------------------------------------------------------------
\* Mutant: a timer that has run out keeps its state.
PollStuck(elapsed) ==
    /\ ~rebooted
    /\ state' = IF state.tag = "AppDetach" /\ state.timeout > elapsed
                THEN AppDetach(state.timeout - elapsed) ELSE state
    /\ waited' = IF waited < asked THEN waited + elapsed ELSE waited
    /\ polled' = TRUE
    /\ UNCHANGED <<rebooted, asked>>

\* DFURuntimeClass::poll
Poll(elapsed) ==
    LET rem == SaturatingSub(state.timeout, elapsed)
    IN  /\ ~rebooted
        /\ \/ /\ state.tag = "AppDetach"
              /\ state' = IF rem = 0 THEN AppIdle ELSE AppDetach(rem)
           \/ state.tag = "AppIdle" /\ state' = state
        /\ waited' = IF waited < asked THEN waited + elapsed ELSE waited
        /\ polled' = TRUE
        /\ UNCHANGED <<rebooted, asked>>

\* Mutant: every USB reset reboots.
UsbResetAlways ==
    ~rebooted /\ rebooted' = TRUE /\ UNCHANGED <<state, asked, waited, polled>>

\* UsbClass::reset: only a device that was told to detach reboots.
UsbReset ==
    /\ ~rebooted
    /\ state.tag = "AppDetach"
    /\ rebooted' = TRUE
    /\ UNCHANGED <<state, asked, waited, polled>>

\* control_out, DFU_DETACH: a second one replaces the first.
Detach(timeout) ==
    /\ ~rebooted
    /\ state' = AppDetach(timeout)
    /\ asked' = timeout
    /\ waited' = 0
    /\ polled' = FALSE
    /\ UNCHANGED rebooted

\* Mutant: the request is rejected and the detach stays in force.
OtherRequestRejected ==
    /\ ~rebooted
    /\ state' = state
    /\ asked' = NoDetach
    /\ waited' = 0
    /\ polled' = FALSE
    /\ UNCHANGED rebooted

\* control_in and control_out, any request but DETACH, GETSTATE and
\* GETSTATUS: rejected, and the detach is called off.
OtherRequest ==
    /\ ~rebooted
    /\ state' = AppIdle
    /\ asked' = NoDetach
    /\ waited' = 0
    /\ polled' = FALSE
    /\ UNCHANGED rebooted

\* The bootloader finds the application valid and jumps to it.
Restart ==
    /\ rebooted
    /\ rebooted' = FALSE
    /\ state' = AppIdle
    /\ asked' = NoDetach
    /\ waited' = 0
    /\ polled' = FALSE

Next ==
    \/ \E elapsed \in ELAPSED : Poll(elapsed)
    \/ UsbReset
    \/ \E timeout \in TIMEOUTS : Detach(timeout)
    \/ OtherRequest
    \/ Restart

Spec == Init /\ [][Next]_vars

\* The application polls the class each time SysTick wraps.
LiveSpec == Spec /\ WF_vars(\E elapsed \in ELAPSED \ {0} : Poll(elapsed))

-----------------------------------------------------------------------------
\* The state is one a run-time interface can report, and its timer never
\* exceeds what the host asked for.
TypeOK ==
    /\ state = AppIdle \/ \E t \in 0 .. asked : state = AppDetach(t)
    /\ rebooted \in BOOLEAN
    /\ asked \in TIMEOUTS \cup {NoDetach}
    /\ waited \in Nat /\ polled \in BOOLEAN

\* The time the host asked for is not over, and nothing called it off.  A
\* timeout of zero is over at the first poll.
InWindow == asked # NoDetach /\ (waited < asked \/ ~polled)

\* The interface says AppDetach exactly in the window the host asked for:
\* neither a second DETACH, nor a poll that counts more than is left, nor a
\* timeout of zero makes it close early or stay open.
WindowIsOpen == ~rebooted => (state.tag = "AppDetach" <=> InWindow)

\* A USB reset, which every host sends at will, reboots the device only in
\* the window of a DETACH that nothing called off.
RebootsOnlyInWindow == [][~rebooted /\ rebooted' => InWindow]_vars

\* A device that was told to detach and is never reset goes back to work,
\* unless the host asks it for ever: each DETACH starts the window again.
WindowCloses ==
    (<>[][\A timeout \in TIMEOUTS : ~Detach(timeout)]_vars)
        => (state.tag = "AppDetach" ~> (state = AppIdle \/ rebooted))
=============================================================================
