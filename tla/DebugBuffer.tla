------------------------------ MODULE DebugBuffer ------------------------------
(***************************************************************************)
(* The writer behind dbgprint! with the feature debug-buffer               *)
(* (nucleo_f401re/mod.rs).  A log is the sequence buffer[.. len]: what is  *)
(* beyond len is written before it is read.                                *)
(***************************************************************************)
EXTENDS Integers, Sequences

LOCAL INSTANCE FiniteSetsExt

CONSTANT LOG_SIZE        \* the size of DEBUG_BUFFER

ASSUME LogAssumption == LOG_SIZE \in Nat \ {0}

\* Mutant of WriteStr: as if the buffer had no end.
WriteStrUnbounded(log, text) == log \o text

\* DbgWriter::write_str: what does not fit is dropped.  Its test for a len
\* beyond the buffer is left out: a log is buffer[.. len], so it never holds.
WriteStr(log, text) ==
    log \o SubSeq(text, 1, Min({LOG_SIZE - Len(log), Len(text)}))

\* Mutant of Consumed: the length is not taken down.
ConsumedNot(log, n) == log

\* consume_debug, once its reader took n: copy_within(w.len .. len, 0) with
\* the length already taken down moves the last n, whatever is left.
Consumed(log, n) ==
    LET left == Len(log) - n
    IN [i \in 1 .. left |-> log[IF i <= n THEN left + i ELSE i]]
=============================================================================
