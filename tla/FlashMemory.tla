----------------------------- MODULE FlashMemory -----------------------------
(***************************************************************************)
(* The flash of the board and its driver: Sector, Memory::erase,           *)
(* Memory::program and Memory::poll (src/nucleo_f401re/bootloader.rs), and *)
(* the flash controller they drive, which is hardware and modelled from    *)
(* the registers the driver reads and writes.                              *)
(***************************************************************************)
EXTENDS Dfu, Sectors, Sequences

CONSTANTS FAULTS               \* the hardware faults a model admits

\* WRPERR, OPERR: the controller sets the flag of that name.  SILENT: it
\* leaves a wrong content and no flag.  KEY: it refuses the unlock keys.
ASSUME FaultAssumption == FAULTS \subseteq {"WRPERR", "OPERR", "SILENT", "KEY"}

(***************************************************************************)
(* What a flash cell holds.  A byte is a tuple whose first element says    *)
(* what it is; cells are compared, never computed with.                    *)
(***************************************************************************)
Erased == <<"erased">>
Torn   == <<"torn">>       \* neither the old nor the new content

VARIABLES
    flash,        \* the content of the flash, by address
    memory,       \* Memory.state
    op,           \* what the controller is doing; SR.BSY is op # MemIdle
    sr,           \* the error flags of SR: the driver never clears them
    keyRefused    \* CR.LOCK stays set when the driver writes the keys

memVars == <<flash, memory, op, sr, keyRefused>>

MemIdle                == [tag |-> "Idle"]
Erasing(s)             == [tag |-> "Erasing", sector |-> s]
Programming(addr, src) == [tag |-> "Programming", addr |-> addr, src |-> src]

\* The cells an operation works on.
Cells(o) == CASE o.tag = "Erasing"     -> Region(o.sector)
              [] o.tag = "Programming" -> (o.addr .. o.addr + Len(o.src) - 1) \cap Address
              [] OTHER                 -> {}

-----------------------------------------------------------------------------
\* Memory::unlock: LOCK is read again after the keys were written.
UnlockFails == keyRefused

\* The part of Memory::erase that starts the operation.  A refused key leaves
\* the driver in the state drv the caller found it in.
StartErase(drv, s, r) ==
    \/ /\ ~UnlockFails
       /\ r = "Ok"
       /\ memory' = Erasing(s)
       /\ op' = Erasing(s)
    \/ /\ UnlockFails
       /\ r = "Write"
       /\ memory' = drv
       /\ op' = op

\* Mutant: no write of a single byte at an even address.
ToWriteEven(addr, n) ==
    CASE addr % 2 = 1 -> 1
      [] addr % 4 = 2 -> 2
      [] OTHER        -> IF n >= 4 THEN 4 ELSE 2

\* The write size Memory::program picks from the address and what is left.
ToWrite(addr, n) ==
    CASE addr % 2 = 1 -> 1
      [] addr % 4 = 2 -> 2
      [] OTHER        -> IF n >= 4 THEN 4 ELSE IF n = 3 THEN 2 ELSE n

\* Memory::program.  When the write is wider than what is left of src, the
\* cells are written first, with whatever follows the slice, and the slice
\* src[..to_write] then panics.
StartProgram(drv, addr, src, r) ==
    LET w == ToWrite(addr, Len(src))
    IN  \/ /\ ~UnlockFails
           /\ w <= Len(src)
           /\ r = "Ok"
           /\ memory' = Programming(addr, SubSeq(src, 1, w))
           /\ op' = Programming(addr, SubSeq(src, 1, w))
        \/ /\ ~UnlockFails
           /\ w > Len(src)
           /\ r = "panic"
           /\ memory' = drv
           /\ op' = Programming(addr, src \o <<Torn>>)
        \/ /\ UnlockFails
           /\ r = "Write"
           /\ memory' = drv
           /\ op' = op

\* Mutant: what was written is not read back.
HoldsUnread(o) == TRUE

\* The check Memory::poll makes when no flag is set.
Holds(o) == IF o.tag = "Erasing"
            THEN \A a \in Region(o.sector) : flash[a] = Erased
            ELSE \A i \in DOMAIN o.src : flash[o.addr + i - 1] = o.src[i]

\* Mutant: SR.BSY is not read.
PollResultTooSoon ==
    IF memory = MemIdle THEN "Ok"
    ELSE IF sr # {} THEN "Write"
    ELSE IF Holds(memory) THEN "Ok"
    ELSE "Verify"

\* What Memory::poll answers: "Pending", "Ok", or an error.  The caller's
\* action sets memory to MemIdle unless the answer is "Pending".
PollResult ==
    IF memory = MemIdle THEN "Ok"
    ELSE IF op # MemIdle THEN "Pending"
    ELSE IF "WRPERR" \in sr THEN "Write"
    ELSE IF "OPERR" \in sr THEN (IF memory.tag = "Erasing" THEN "Erase" ELSE "Programming")
    ELSE IF Holds(memory) THEN "Ok"
    ELSE (IF memory.tag = "Erasing" THEN "CheckErased" ELSE "Verify")

\* Mutant: a whole word, whatever the width was.
WrittenWord == IF memory.tag = "Programming" THEN 4 ELSE 0

\* How many bytes an "Ok" of Memory::poll says were written.
Written == IF memory.tag = "Programming" THEN Len(memory.src) ELSE 0

-----------------------------------------------------------------------------
\* Flash cells only lose bits between two erases: an erased cell takes any
\* byte, another one keeps its content or is spoilt.
Nor(old, new) == IF old = Erased THEN new
                 ELSE IF new \in {old, Erased} THEN old
                 ELSE Torn

\* The content the operation o produces when it works.
Effect(o) ==
    [a \in Address |->
        IF a \notin Cells(o) THEN flash[a]
        ELSE IF o.tag = "Erasing" THEN Erased
        ELSE Nor(flash[a], o.src[a - o.addr + 1])]

\* The content it leaves when it is cut short or goes wrong.
Spoilt(o) == [a \in Address |-> IF a \in Cells(o) THEN Torn ELSE flash[a]]

\* The controller finishes its operation, well or badly.
ControllerDone ==
    /\ op # MemIdle
    /\ op' = MemIdle
    /\ \/ flash' = Effect(op) /\ sr' = sr
       \/ "WRPERR" \in FAULTS /\ flash' = flash /\ sr' = sr \cup {"WRPERR"}
       \/ "OPERR" \in FAULTS /\ flash' = Spoilt(op) /\ sr' = sr \cup {"OPERR"}
       \/ "SILENT" \in FAULTS /\ flash' = Spoilt(op) /\ sr' = sr
    /\ UNCHANGED <<memory, keyRefused>>

\* A reset or a power cut: the operation under way is done, not done, or
\* left half way; driver and controller start afresh.
MemReset ==
    /\ flash' \in {flash, Effect(op), Spoilt(op)}
    /\ memory' = MemIdle
    /\ op' = MemIdle
    /\ sr' = {}
    /\ keyRefused' \in (IF "KEY" \in FAULTS THEN BOOLEAN ELSE {FALSE})
=============================================================================
