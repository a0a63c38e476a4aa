-------------------------------- MODULE System --------------------------------
(***************************************************************************)
(* One board from application to bootloader and back: the run-time class   *)
(* of the application (DfuRuntime), the bootloader (Bootloader), a host    *)
(* tool that wants its image on the board, a user with the button and the  *)
(* reset key, power cuts at any time, and a host that may restart.         *)
(* The tool and the user are not in the repository.  The tool does what    *)
(* the class lets it do: DETACH and a USB reset while the application      *)
(* runs, CLRSTATUS of an error, DNLOAD and GETSTATUS until DfuIdle, and    *)
(* from the start again when the board restarts.  The user holds the       *)
(* button from some time on, since main() leaves no other way into the     *)
(* bootloader of a valid firmware, until the tool is done.                 *)
(***************************************************************************)
EXTENDS Bootloader

CONSTANTS PLANS,       \* ways to cut an image: where each of its blocks ends
          TIMEOUTS,    \* wTimeout of its DETACH requests
          ELAPSED,     \* what the application calls poll with
          MaxMishaps   \* bound: power cuts and restarts of the host

\* The k-th block of p has the bytes after From(p, k), up to p[k].
From(p, k)        == IF k = 1 THEN 0 ELSE p[k - 1]
BlockLength(p, k) == p[k] - From(p, k)

\* The tool's image is one that the bootloader's vector check lets pass.
ASSUME SystemAssumption ==
    /\ \A p \in PLANS : /\ p \in Seq(Nat) /\ p # <<>>
                       /\ \A k \in 1 .. Len(p) : BlockLength(p, k) \in BLOCKS
    /\ 1 \notin BAD_VECTORS
    /\ MaxMishaps \in Nat /\ MaxSession >= 1

VARIABLES
    app,          \* the state of the run-time interface
    asked, waited, polled,     \* histories of DfuRuntime
    tool,         \* "find" the device, "send" blocks, "manifest" or "done"
    plan,         \* how the tool cuts its image
    block,        \* the next block of plan
    held,         \* the user holds the button
    mishaps       \* power cuts and restarts of the host so far

runtimeVars == <<app, asked, waited, polled>>
peopleVars  == <<tool, plan, block, held, mishaps>>
systemVars  == <<vars, runtimeVars, peopleVars>>

Runtime == INSTANCE DfuRuntime WITH state <- app, rebooted <- (mode # "app")

\* The first n bytes of the tool's image, and all of it.
Prefix(n) == [k \in 1 .. n |-> <<"data", 1, k>>]
NewImage  == Prefix(plan[Len(plan)])

RuntimeFresh == app = Plain("AppIdle") /\ asked = Runtime!NoDetach /\ waited = 0 /\ polled = FALSE

SystemInit ==
    /\ Init
    /\ RuntimeFresh
    /\ plan \in PLANS
    /\ tool = "find" /\ block = 1
    /\ held = FALSE
    /\ mishaps = 0

-----------------------------------------------------------------------------
\* The board starts; an application that is jumped to has a new class.
Start ==
    /\ BootWith(held, held)
    /\ IF mode' = "app" THEN Runtime!Restart ELSE UNCHANGED runtimeVars
    /\ UNCHANGED peopleVars

\* main of the application: dfu.poll when SysTick has wrapped.
AppPoll ==
    /\ mode' = mode
    /\ \E elapsed \in ELAPSED : Runtime!Poll(elapsed)
    /\ UNCHANGED <<handlerVars, state, session, hostSent, tidy, uploadVars, peopleVars>>

BootPoll(elapsed) == MainPoll(elapsed) /\ UNCHANGED <<runtimeVars, peopleVars>>

FlashWorks == Controller /\ UNCHANGED <<runtimeVars, peopleVars>>

\* The tool loses the device and begins again when it is back.
Disconnected == IF tool = "done" THEN UNCHANGED <<tool, block>>
                ELSE tool' = "find" /\ block' = 1

ToolDetach ==
    /\ tool # "done"
    /\ mode' = mode
    /\ \E timeout \in TIMEOUTS : Runtime!Detach(timeout)
    /\ UNCHANGED <<handlerVars, state, session, hostSent, tidy, uploadVars, peopleVars>>

\* A USB reset, which the application's class turns into a restart.
ToolUsbReset ==
    /\ tool # "done"
    /\ Reset
    /\ Runtime!UsbReset
    /\ Disconnected
    /\ UNCHANGED <<plan, held, mishaps>>

ToolClear ==
    /\ tool # "done"
    /\ HostClear
    /\ tool' = "find" /\ block' = 1
    /\ UNCHANGED <<runtimeVars, plan, held, mishaps>>

\* The tool goes by what GETSTATUS tells it of the class.
ToolBlock ==
    /\ \/ tool = "find" /\ state.tag = "DfuIdle"
       \/ tool = "send" /\ state.tag = "DfuDnloadIdle"
    /\ block <= Len(plan)
    /\ DownloadOf(1, BlockLength(plan, block))
    /\ tool' = "send" /\ block' = block + 1
    /\ UNCHANGED <<runtimeVars, plan, held, mishaps>>

ToolStatus ==
    /\ tool = "send"
    /\ HostDownloadStatus
    /\ UNCHANGED <<runtimeVars, peopleVars>>

ToolEnd ==
    /\ tool = "send"
    /\ block > Len(plan)
    /\ HostEnd
    /\ tool' = "manifest"
    /\ UNCHANGED <<runtimeVars, plan, block, held, mishaps>>

ToolManifestStatus ==
    /\ tool = "manifest"
    /\ HostManifestStatus
    /\ tool' = IF state'.tag = "DfuIdle" THEN "done" ELSE tool
    /\ UNCHANGED <<runtimeVars, plan, block, held, mishaps>>

Press   == tool # "done" /\ ~held /\ held' = TRUE
Release == tool = "done" /\ held /\ held' = FALSE
Button  == (Press \/ Release) /\ UNCHANGED <<vars, runtimeVars, tool, plan, block, mishaps>>

\* Nothing ends the bootloader but a reset of the board, and nothing else a
\* download that a host has begun and forgotten.
UserReset ==
    /\ mode = "dfu"
    /\ \/ tool = "done" /\ ~held
       \/ tool = "find" /\ state.tag \notin {"DfuIdle", "DfuError"}
    /\ Reset
    /\ UNCHANGED <<runtimeVars, peopleVars>>

\* on_panic resets the board.
PanicRestart ==
    /\ PanicReset
    /\ Disconnected
    /\ UNCHANGED <<runtimeVars, plan, held, mishaps>>

Cut ==
    /\ mishaps < MaxMishaps
    /\ mishaps' = mishaps + 1
    /\ PowerCut
    /\ Disconnected
    /\ UNCHANGED <<runtimeVars, plan, held>>

\* The bus is reset and the tool begins again.  DFUModeClass has no reset of
\* its own: class and handler stay where they were.
HostRestart ==
    /\ mishaps < MaxMishaps
    /\ mishaps' = mishaps + 1
    /\ tool \in {"send", "manifest"}
    /\ tool' = "find" /\ block' = 1
    /\ UNCHANGED <<vars, runtimeVars, plan, held>>

SystemNext ==
    \/ Start \/ AppPoll \/ BootPoll(0) \/ BootPoll(1) \/ FlashWorks
    \/ ToolDetach \/ ToolUsbReset \/ ToolClear \/ ToolBlock \/ ToolStatus
    \/ ToolEnd \/ ToolManifestStatus
    \/ Button \/ UserReset \/ PanicRestart \/ Cut \/ HostRestart

\* The board runs; the tool and the user go on with what they can do.  The
\* tool's USB reset comes within the window of a DETACH at some time, though
\* polls keep closing it: that one needs strong fairness.
SystemFairness ==
    /\ WF_systemVars(Start) /\ WF_systemVars(BootPoll(1)) /\ WF_systemVars(FlashWorks)
    /\ WF_systemVars(PanicRestart)
    /\ WF_systemVars(ToolDetach) /\ SF_systemVars(ToolUsbReset)
    /\ WF_systemVars(ToolClear) /\ WF_systemVars(ToolBlock) /\ WF_systemVars(ToolStatus)
    /\ WF_systemVars(ToolEnd) /\ WF_systemVars(ToolManifestStatus)
    /\ WF_systemVars(Button) /\ WF_systemVars(UserReset)

SystemSpec == SystemInit /\ [][SystemNext]_systemVars /\ SystemFairness

-----------------------------------------------------------------------------
\* The types; and what the tool believes of the class is so: a board that
\* works never answers it with a state it has not asked for.
SystemTypeOK ==
    /\ app.tag \in {"AppIdle", "AppDetach"}
    /\ held \in BOOLEAN /\ mishaps \in 0 .. MaxMishaps
    /\ block \in 1 .. Len(plan) + 1
    /\ \/ tool = "find" /\ block = 1
       \/ tool = "send" /\ mode = "dfu" /\ state.tag \in DownloadTag
       \/ tool = "manifest" /\ mode = "dfu" /\ state.tag \in ManifestTag
       \/ tool = "done"

\* What runs is the old firmware or the new one, entire, wherever the power
\* was cut; and never the old one again after the new one.
OldOrNew ==
    mode = "app" =>
        \/ ImageAt(flash, Len(NewImage)) = NewImage
        \/ tool # "done" /\ ImageAt(flash, Len(FactoryImage)) = FactoryImage

\* What the tool was told stays true: once it has read DfuIdle, every start
\* finds its image valid, also if the power goes before the user resets.
DoneIsDurable ==
    tool = "done" => /\ HashValid(flash) /\ VectorsValid(flash)
                     /\ ImageAt(flash, Len(NewImage)) = NewImage

\* No block of the tool's leaves Program::poll the three bytes it panics on.
NoBlockPanics == \A k \in 1 .. Len(plan) : plan[k] % 4 # 3

\* The update takes in the end, whatever firmware the board had, wherever the
\* power was cut or the host forgot what it was doing, and however often the
\* window of the DETACH was missed: no state is left that button, reset key
\* and tool cannot get out of.  A tool whose blocks panic the board is left
\* out: on_panic resets it, the tool sends the same again, and so forever.
UpdateTakes ==
    NoBlockPanics => <>[](mode = "app" /\ ImageAt(flash, Len(NewImage)) = NewImage)
=============================================================================
