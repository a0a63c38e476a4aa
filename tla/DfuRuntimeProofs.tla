--------------------------- MODULE DfuRuntimeProofs ---------------------------
(***************************************************************************)
(* The window of a detach, for every set of timeouts, every pace at which  *)
(* the application polls, and any number of DETACH requests.               *)
(***************************************************************************)
EXTENDS DfuRuntime, TLAPS

\* What relates the timer of the class, which counts down, to the history,
\* which counts up.
TimerAgrees ==
    state.tag = "AppDetach" => asked \in Nat /\ state.timeout + waited = asked

RuntimeInv == TypeOK /\ WindowIsOpen /\ TimerAgrees

\* The fields of the two states of the interface.
LEMMA StateFields ==
    /\ AppIdle.tag = "AppIdle" /\ AppIdle.timeout = 0
    /\ \A t : AppDetach(t).tag = "AppDetach" /\ AppDetach(t).timeout = t
BY DEF AppIdle, AppDetach, Plain, Timed

LEMMA RuntimeInvInit == Init => RuntimeInv
<1> SUFFICES ASSUME Init PROVE RuntimeInv
  OBVIOUS
<1>1. state = AppIdle /\ asked = NoDetach /\ waited = 0 /\ polled = FALSE /\ rebooted = FALSE
  BY DEF Init
<1>2. TypeOK
  BY <1>1 DEF TypeOK
<1> QED BY <1>1, <1>2, StateFields DEF RuntimeInv, WindowIsOpen, InWindow, TimerAgrees

LEMMA RuntimeInvStep == RuntimeInv /\ [Next]_vars => RuntimeInv'
<1> SUFFICES ASSUME RuntimeInv, [Next]_vars PROVE RuntimeInv'
  OBVIOUS
<1> USE RuntimeAssumption, StateFields
<1>0. /\ state = AppIdle \/ (state = AppDetach(state.timeout) /\ state.timeout \in 0 .. asked)
      /\ waited \in Nat /\ polled \in BOOLEAN /\ rebooted \in BOOLEAN
      /\ asked \in TIMEOUTS \cup {NoDetach} /\ asked \in Int
  BY DEF RuntimeInv, TypeOK, NoDetach
<1>1. ASSUME NEW elapsed \in ELAPSED, Poll(elapsed) PROVE RuntimeInv'
  <2>0. /\ elapsed \in Nat /\ ~rebooted /\ rebooted' = rebooted /\ asked' = asked
        /\ polled' = TRUE /\ waited' = IF waited < asked THEN waited + elapsed ELSE waited
    BY <1>1 DEF Poll
  <2>1. CASE state.tag = "AppIdle"
    <3>1. state' = state /\ ~(waited < asked) /\ waited' = waited
      <4>1. state' = state
        BY <1>1, <2>1 DEF Poll
      <4>2. ~(waited < asked)
        BY <1>0, <2>0, <2>1 DEF RuntimeInv, WindowIsOpen, InWindow, NoDetach
      <4> QED BY <2>0, <4>1, <4>2
    <3>2. TypeOK'
      BY <1>0, <2>0, <3>1 DEF TypeOK
    <3> QED BY <2>0, <2>1, <3>1, <3>2 DEF RuntimeInv, WindowIsOpen, InWindow, TimerAgrees
  <2>2. CASE state.tag = "AppDetach"
    <3> DEFINE rem == SaturatingSub(state.timeout, elapsed)
    <3>1. /\ state' = IF rem = 0 THEN AppIdle ELSE AppDetach(rem)
          /\ state.timeout \in Nat /\ asked \in Nat /\ asked # NoDetach
          /\ state.timeout + waited = asked
      BY <1>0, <1>1, <2>2 DEF Poll, RuntimeInv, TimerAgrees, NoDetach
    <3>2. rem \in Nat /\ (rem = 0 <=> state.timeout <= elapsed)
          /\ (rem # 0 => rem = state.timeout - elapsed)
      BY <2>0, <3>1 DEF SaturatingSub
    <3> HIDE DEF rem
    <3>3. waited' \in Nat /\ (rem = 0 <=> ~(waited' < asked))
      BY <1>0, <2>0, <3>1, <3>2
    <3>4. TypeOK'
      BY <1>0, <2>0, <3>1, <3>2, <3>3 DEF TypeOK
    <3>5. WindowIsOpen'
      BY <2>0, <3>1, <3>3 DEF WindowIsOpen, InWindow
    <3>6. TimerAgrees'
      <4>1. CASE rem = 0
        BY <3>1, <4>1 DEF TimerAgrees
      <4>2. CASE rem # 0
        <5>1. waited' = waited + elapsed /\ rem + waited' = asked
          BY <1>0, <2>0, <3>1, <3>2, <4>2
        <5> QED BY <2>0, <3>1, <4>2, <5>1 DEF TimerAgrees
      <4> QED BY <4>1, <4>2
    <3> QED BY <3>4, <3>5, <3>6 DEF RuntimeInv
  <2> QED BY <1>1, <2>1, <2>2 DEF Poll
<1>2. CASE UsbReset
  <2>1. rebooted' = TRUE /\ UNCHANGED <<state, asked, waited, polled>>
    BY <1>2 DEF UsbReset
  <2>2. TypeOK'
    BY <2>1 DEF RuntimeInv, TypeOK
  <2> QED BY <2>1, <2>2 DEF RuntimeInv, WindowIsOpen, TimerAgrees
<1>3. ASSUME NEW timeout \in TIMEOUTS, Detach(timeout) PROVE RuntimeInv'
  <2>1. /\ state' = AppDetach(timeout) /\ asked' = timeout /\ waited' = 0 /\ polled' = FALSE
        /\ rebooted' = rebooted /\ timeout \in Nat
    BY <1>3 DEF Detach
  <2>2. timeout \in 0 .. asked'
    BY <2>1
  <2>3. TypeOK'
    BY <1>0, <2>1, <2>2 DEF TypeOK
  <2> QED BY <2>1, <2>3 DEF RuntimeInv, WindowIsOpen, InWindow, TimerAgrees, NoDetach
<1>4. CASE OtherRequest \/ Restart
  <2>1. /\ state' = AppIdle /\ asked' = NoDetach /\ waited' = 0 /\ polled' = FALSE
        /\ rebooted' \in BOOLEAN
    BY <1>0, <1>4 DEF OtherRequest, Restart
  <2>2. TypeOK'
    BY <2>1 DEF TypeOK
  <2> QED BY <2>1, <2>2 DEF RuntimeInv, WindowIsOpen, InWindow, TimerAgrees
<1>5. CASE UNCHANGED vars
  BY <1>5 DEF vars, RuntimeInv, TypeOK, WindowIsOpen, InWindow, TimerAgrees
<1> QED BY <1>1, <1>2, <1>3, <1>4, <1>5 DEF Next

\* The interface says AppDetach exactly in the window the host asked for.
THEOREM WindowIsExact == Spec => []WindowIsOpen
<1>1. RuntimeInv => WindowIsOpen
  BY DEF RuntimeInv
<1> QED BY <1>1, RuntimeInvInit, RuntimeInvStep, PTL DEF Spec

\* The interface only ever has a state it can report, and its timer never more
\* than the host asked for.
THEOREM RuntimeTypeCorrect == Spec => []TypeOK
<1>1. RuntimeInv => TypeOK
  BY DEF RuntimeInv
<1> QED BY <1>1, RuntimeInvInit, RuntimeInvStep, PTL DEF Spec

\* on_reset is called only in that window.
THEOREM RebootsAreAskedFor == Spec => RebootsOnlyInWindow
<1>1. RuntimeInv /\ [Next]_vars => [~rebooted /\ rebooted' => InWindow]_vars
  <2> SUFFICES ASSUME RuntimeInv, Next, ~rebooted, rebooted' PROVE InWindow
    OBVIOUS
  <2>1. UsbReset
    BY DEF Next, Poll, Detach, OtherRequest, Restart
  <2> QED BY <2>1 DEF UsbReset, RuntimeInv, WindowIsOpen
<1> QED BY <1>1, RuntimeInvInit, RuntimeInvStep, PTL DEF Spec, RebootsOnlyInWindow
=============================================================================
