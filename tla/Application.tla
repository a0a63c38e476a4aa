------------------------------ MODULE Application ------------------------------
(***************************************************************************)
(* The application example (examples/application.rs), with debug-buffer:   *)
(* a serial port that echoes, prints the manifest for a carriage return,   *)
(* reports the last panic once it has run for a while, and sends what was  *)
(* printed.  One round of its loop is one action; the last statement waits *)
(* for the host to read, and nothing else goes on in the meantime.  Its    *)
(* DFU class is DfuRuntime.                                                *)
(***************************************************************************)
EXTENDS PanicMessage, DebugBuffer

LOCAL INSTANCE FiniteSetsExt

CONSTANTS
    OUT_SIZE,     \* the size of buf
    INPUTS,       \* what a read may return; <<>> if there is nothing
    REPORT_AFTER, \* ms the device is configured before it reports
    MANIFEST      \* the length of a printed manifest

ASSUME ApplicationAssumption ==
    /\ OUT_SIZE \in Nat \ {0} /\ REPORT_AFTER \in Nat \ {0} /\ MANIFEST \in Nat \ {0}
    /\ <<>> \in INPUTS /\ INPUTS \subseteq Seq(STRING \X Nat)
    /\ \A input \in INPUTS : Len(input) < OUT_SIZE

VARIABLES
    configured,   \* usb_dev.state() is Configured
    timestamp,    \* up to REPORT_AFTER: it is compared with no more
    trace_printed,
    first,        \* buf[0], the part of buf that outlives a round
    log,          \* WRITER's buffer[.. len]
    was, sent     \* histories: the log before, and what was taken of it

appVars == <<configured, timestamp, trace_printed, first, log, was, sent>>
vars    == <<panicVars, appVars>>

\* Characters: the carriage return, and those of a text by their places.
CR            == <<"return", 0>>
Text(name, n) == [k \in 1 .. n |-> <<name, k>>]
ManifestText  == Text("manifest", MANIFEST)
AllClear      == Text("clear", 1) \o <<CR>>
ErrorText(n)  == Text("error", 1 + n) \o <<CR>>

\* What main sets up.
Fresh ==
    /\ configured' = FALSE /\ timestamp' = 0 /\ trace_printed' = FALSE
    /\ first' = <<"zero", 0>>
    /\ log' = <<>> /\ was' = <<>> /\ sent' = <<>>

Init ==
    /\ PanicInit
    /\ configured = FALSE /\ timestamp = 0 /\ trace_printed = FALSE
    /\ first = <<"zero", 0>>
    /\ log = <<>> /\ was = <<>> /\ sent = <<>>

Tick(wrapped) ==
    timestamp' = CASE wrapped /\ configured -> Min({timestamp + 1, REPORT_AFTER})
                   [] wrapped /\ ~configured -> 0
                   [] ~wrapped -> timestamp

\* buf[0] is what was read, or what an earlier round left there.
FirstRead(input) == IF input = <<>> THEN first ELSE input[1]

Asked(input) == IF FirstRead(input) = CR THEN WriteStr(log, ManifestText) ELSE log

\* The report of the previous error, once per run.
Reports == timestamp' >= REPORT_AFTER /\ configured' /\ ~trace_printed
Report  == IF HasMessage THEN ErrorText(err) ELSE AllClear

\* consume_debug into what the input leaves of buf.
Transfer(input, printed) ==
    LET n == Min({Len(printed), OUT_SIZE - Len(input)})
    IN  /\ was' = printed
        /\ sent' = SubSeq(printed, 1, n)
        /\ log' = Consumed(printed, n)
        /\ first' = IF input = <<>> /\ n > 0 THEN printed[1] ELSE FirstRead(input)

Round(wrapped, input) ==
    /\ ~hung
    /\ configured' \in BOOLEAN
    /\ Tick(wrapped)
    /\ IF Reports
         THEN /\ Transfer(input, WriteStr(Asked(input), Report))
              /\ ClearMessage
              /\ trace_printed' = TRUE
         ELSE /\ Transfer(input, Asked(input))
              /\ UNCHANGED <<panicVars, trace_printed>>

\* A panic starts the program again, unless it panics itself.
Panic == OnPanic /\ IF hung' THEN UNCHANGED appVars ELSE Fresh

Reset == KeepMessage /\ Fresh

PowerCut == LoseMessage /\ Fresh

Next ==
    \/ \E wrapped \in BOOLEAN, input \in INPUTS : Round(wrapped, input)
    \/ Panic \/ Reset \/ PowerCut

\* The loop goes on, while the host reads what it sends.
Spec ==
    /\ Init /\ [][Next]_vars
    /\ WF_vars(\E wrapped \in BOOLEAN, input \in INPUTS : Round(wrapped, input))

-----------------------------------------------------------------------------
TypeOK ==
    /\ err \in Nat /\ hung \in BOOLEAN /\ known \in BOOLEAN /\ unread \in 0 .. MaxPanics
    /\ timestamp \in 0 .. REPORT_AFTER
    /\ Len(log) <= LOG_SIZE /\ Len(sent) <= OUT_SIZE

\* What there is to tell of the panics since the last report: as many as their
\* buffer holds.
Told == IF unread = 0 THEN AllClear
        ELSE ErrorText(MESSAGE * Min({unread, PANIC_SIZE \div MESSAGE}))

\* The report of a run, if it is not the first since power-on, is what there
\* is to tell, behind what the log held and the manifest that may have been
\* asked for, and as much of it as the log has room for.  The rest is lost:
\* the message is cleared all the same.
PanicIsTold ==
    [][~trace_printed /\ trace_printed' /\ known =>
         \E manifest \in {0, MANIFEST} :
             LET used == Min({LOG_SIZE, Len(log) + manifest})
                 fits == Min({LOG_SIZE - used, Len(Told)})
             IN  /\ Len(was') = used + fits
                 /\ SubSeq(was', used + 1, used + fits) = SubSeq(Told, 1, fits)]_vars

\* A host that types nothing hears the device fall silent: the carriage return
\* that stays in buf, or is put there by the log itself, does not make the
\* device print for ever.
FallsSilent ==
    (<>[][\E wrapped \in BOOLEAN : Round(wrapped, <<>>)]_vars)
        => <>[](hung \/ (log = <<>> /\ sent = <<>>))

\* consume_debug hands out the log in the order it was written: what was taken
\* and what is left are what there was.
LogInOrder == sent \o log = was
=============================================================================
