# A verification development of usbd-dfu

TLA+ models of the `usbd-dfu` USB class and of the NUCLEO-F401RE bootloader
built on it, the TLC runs that check them, and TLAPS proofs of the invariants,
action properties and the refinement of the class, the handler, the bootloader, the
application and the whole board under a host tool. Paths below are relative to `src/`.

## 1. The system

| Part | Source | State | Operations |
|---|---|---|---|
| DFU mode class `DFUModeClass` | `usbd-dfu/src/mode.rs` | `state: State` | control IN/OUT transfers, `poll(elapsed)` |
| DFU runtime class `DFURuntimeClass` | `usbd-dfu/src/runtime.rs` | `state: State` | DETACH, GETSTATE, GETSTATUS, USB reset, `poll` |
| Handler `DFUModeImpl` | `src/nucleo_f401re/dfu/mode.rs` | `DFUModeState`, a `Program` inside `Download`/`Manifetation`, a slice inside `Upload` | `is_firmware_valid`, `is_transfer_complete`, `is_manifestation_in_progress`, `poll`, `upload`, `download` |
| Manifest | `src/nucleo_f401re/dfu/mod.rs` | the last 128 bytes of flash: length and hash | read at every start, written at the end of a download |
| Flash driver `Memory` | `src/nucleo_f401re/bootloader.rs` | `MemoryState` | `unlock`, `erase`, `program`, `poll` |
| Flash controller | hardware | flash cells, `SR`, `CR.LOCK` | ends (or spoils) one operation at a time |
| Main loop | `examples/bootloader.rs` | which of application and DFU runs | start, loop, reset |
| Panic handler | `src/trace.rs` | message in `.uninit` memory | write the message, reset |
| Debug buffer | `src/nucleo_f401re/mod.rs` | `DbgWriter`: buffer and length | `write_str`, `consume_debug` |
| Application example | `examples/application.rs` | `buf`, `timestamp`, `trace_printed` | one loop: tick, USB, read, manifest, report, send |
| Board init, executor, two unfinished boards | `src/nucleo_f401re/mod.rs`, `src/executor.rs`, ... | | |

**How they interact.** `main` asks the handler whether the firmware is valid
and jumps to it, or builds the class, which asks again. Then one thread loops:
`dfu.poll(0)`, `dfu.poll(1)` when SysTick wrapped, `usb_dev.poll`. A control
transfer or a poll calls the class, the class calls at most one method of the
handler, the handler at most its `Program`, the `Program` at most one `poll`
and one `erase` or `program` of the driver. Nothing is interrupt driven, so a
transfer and a poll are atomic to each other. What interleaves with them is
the host (any request at any time), the flash controller, and resets.

**What is hard.**
- Two state machines, the class's and the handler's, each moved by calls the
  other does not see, with no operation that resets the handler.
- One `poll` may end an operation and start the next; nothing in
  `erase`/`program` looks at `BSY`.
- Writes of 1, 2 or 4 bytes picked from the address, blocks of any length,
  sectors erased on the way, and the manifest in the last sector.
- A power cut anywhere: half-erased sectors, half-written words, an old
  manifest over a new image.
- Errors that arise in a poll and are reported in a later request.
- Timers of the class that count apart from the work of the handler.
- A USB reset that the class of the bootloader does not see, a host that forgets
  what it was doing, and an update that needs detach, button and reset in order.
- Memory that a reset keeps and the power does not: the panic message.
- A buffer that outlives the round of the loop it was filled in.

**What makes each part correct** is stated at the properties below. The
hazards, each at its line, are in `PROJECT.json`.

## 2. The modules

```
Dfu                     vocabulary: requests, errors, states       lib.rs
 +- DfuModeClass        the class, handler answers as parameters   mode.rs
 |   +- DfuModeAnyHandler          ... under any handler     -> DfuModeAnyHandlerProofs
 +- DfuRuntime          the class of a running application         runtime.rs
 |                                                           -> DfuRuntimeProofs
Sectors                 the layout of the flash, as constants      bootloader.rs
 +- SectorTable         ... and the board's, with its arithmetic -> SectorTableProofs
 |   +- MCSectorTable
 +- FlashMemory         driver and flash controller (and Dfu)      bootloader.rs
     +- DfuModeImpl     the handler and its Program                dfu/mode.rs
         |                      -> DfuModeImplProofs
         +- DfuModeAnyCaller       ... under any caller      -> DfuModeAnyCallerProofs
         |   +- MCDfuModeAnyCaller
         |   +- FirmwareStore      (what it implements)
         +- Bootloader  DfuModeClass over DfuModeImpl, main, a host
             |                                               -> BootloaderProofs
             +- MCBootloader
             +- System  ... and DfuRuntime, a host tool, a user, mishaps
                 |                                           -> SystemProofs
                 +- MCSystem
PanicMessage            the message that survives a reset          trace.rs
DebugBuffer             the writer of dbgprint!                    mod.rs
 +- Application         both, and the loop of the example  -> ApplicationProofs
     +- MCApplication                                  examples/application.rs
```

**DfuModeClass** has one variable, `state`, and one action per function of
`impl DFUModeClass` that can change it. The handler's answer (`r`: `"Ok"` or an
error; `a`: `"true"`, `"false"` or an error) is a parameter, so the actions
serve against a handler that answers anything and against the real one.
Requests no arm answers are `UnexpectedIn` and `UnexpectedOut`, which latch
`StalledPkt`; `AnswersIn` and `AnswersOut` are the arms that do not.

**DfuModeAnyHandler** closes it with arbitrary answers. It is the abstract
specification of what the crate promises whatever the board.

**DfuRuntime** is the class of the application: five actions, one per function
or `match` arm that changes the state, and `Restart`, the reboot that `on_reset`
causes. The class counts a timer down; the history variables `asked`, `waited`
and `polled` count up what the host asked for, so that the window of a detach
is defined without the timer. The host may repeat DETACH for ever.

**Sectors** holds the table as constants, with the assumptions every proof
about the flash uses. **SectorTable** gives it the board's values and compares
`TryFrom`, the shifts and masks of the code, with `SectorOf`, the table lookup the
other modules use for it.

**FlashMemory** is `Memory` and the controller. `memory` is what the driver
believes, `op` what the controller does; they are separate variables since
the driver never reads `BSY` before it writes `CR`. Cells are tagged tuples:
erased, torn, byte *k* of image *i*, byte of a length or of a hash. The faults
admitted are the constant `FAULTS`: a flag (`WRPERR`, `OPERR`), wrong content
without a flag (`SILENT`), and an unlock that is refused (`KEY`). A write wider
than its source starts the write and then panics, as the code does.

**DfuModeImpl** is the handler. `program` is the `Program`; its `data`, `wr_ptr`,
`data_len` are `rest`, the bytes still to be written, which is what the code
slices. `Done` is not kept: its owner drops the `Program` in the same call. A
`Program` in an `Error` handler is not kept either: no method reads it again.
A hash is the content it was computed from: no collisions. `sent` and
`finalised` are history variables: what was accepted since `Program::new`, and
the images the host completed.

**DfuModeAnyCaller** lets any method be called at any time, whatever was
answered, with the controller and resets in between.

**FirmwareStore** is what all of this is for, in three variables: the images that
were offered, the one on record, the one a start would run. An image is recorded
only over nothing and only if it was offered entire; damage takes it out of use.
`ImplementsStore` shows that `DfuModeAnyCaller` is such a store, under the mapping
`offered <- finalised`, `label <- Label` (the image whose manifest is entire) and
`firmware <- Startable` (what `is_firmware_valid` finds). A hash stands for the content
it was computed from, which is why a manifest names its image.

**Bootloader** composes class and handler. Each transfer or poll is one action
that conjoins the class's part with the handler's, with the handler's answer
in between; a panic leaves the class where it was (`Returns`). Both this module and
`DfuModeAnyCaller` are written with the operators of `DfuModeImpl`, so what is proved of
any call of a method (`HandlerStep`, section 4) serves both. Four histories are the host's:
`hostSent` (its download), `received` (its upload: of the bytes the handler
copied, those within wLength), `tidy` (nothing was stalled since the start) and
`uploads` (whether the uploads since the start were whole, of whole buffers).

**System** is one board from application to bootloader and back. It adds to
`Bootloader` the run-time class (`Runtime == INSTANCE DfuRuntime WITH state <- app,
rebooted <- (mode # "app")`), a host tool with an image to install, a user with the
button and the reset key, and mishaps: power cuts, and a host that restarts and
forgets. The tool does what the class lets it do next; the user holds the
button, since `main` leaves no other way past a valid firmware, and presses
reset for a download nobody will finish. Neither is in the repository: they are
the least a person with this board and a DFU tool has to do. `plan`, chosen at the
start from the constant `PLANS`, says where each block of the tool's image ends, so that what
it has sent after *k* blocks is `Prefix(plan[k])` and its image the last of these. A block
that panics the board is one the tool sends again after the reset of `on_panic`
(`PanicRestart`), and again after the next.

**PanicMessage** keeps the length of the message, which says all of it since every
panic writes the same 23 bytes. `known` and `unread` are histories: the length was
cleared since the power came, and the panics since. A panic that does not fit
panics in the panic handler, and the processor hangs until a reset, which
keeps the length. **DebugBuffer** is the writer and `consume_debug` as operators on
the sequence `buffer[..len]`. **Application** is the example's loop over both, one
round an action: what outlives a round is the length of the log, its content and
`buf[0]`. It is the build with `debug-buffer`; without it the loop echoes nothing,
and with `debug-uart` alone it prints the manifest in every round until the next
read, since nothing overwrites `buf[0]`. The write at the end of a round waits
for the host, and nothing else happens meanwhile, so the round is atomic.
Its USB class is `DfuRuntime`, which `System` composes; the two share no state.

Definitions named as mutants are small mutations of the definition that
follows them. No specification uses them; they are there to show, for every
property, a plausible bug that breaks it.

## 3. What the runs check

| Run | Configuration | Shows |
|---|---|---|
| `any_handler` | `DfuModeAnyHandler.cfg` | `DownloadStateIsEarned`, `IntolerantNeverResumes` |
| `any_caller` | `MCAnyCaller.cfg` | `ImageFaithful`, `BootOnlyFinalised`, `AreasApart`, `WrittenIsOwed`, `NoOverlap`, `NoStaleFlags`, `BootloaderUntouched`, `ManifestEarned`, and the refinement `ImplementsStore` |
| `bootloader_any_host` | `MCBootloaderAnyHost.cfg` | `ClassAgreesWithHandler`, `StartsOnlyFinished`, `SuccessIsValid`, `HostImageInstalled`, `PanicsOnlyAtThree`, `UploadDelivers` |
| `bootloader_no_fault` | `MCBootloaderNoFault.cfg` | `NoSpuriousFlashError`, `BlockEnds`, `ManifestationEnds` |
| `runtime` | `DfuRuntime.cfg` | `WindowIsOpen`, `RebootsOnlyInWindow`, `WindowCloses` |
| `sector_table` | `MCSectorTable.cfg` | `FoundIsTheTables`, `NextIsAdjacent`; and that the board's table meets `SectorAssumption` and `RegionAssumption`, which TLC evaluates |
| `system` | `MCSystem.cfg` | `OldOrNew`, `DoneIsDurable`, `UpdateTakes`; `SystemTypeOK` also says that the tool is never told a state it did not ask for |
| `application` | `MCApplication.cfg` | `HangsOnlyUnread`, `PanicIsTold`, `FallsSilent` |
| four violation runs | `MCNeverPanics.cfg`, `MCUploadIsTheFirmware.cfg`, `MCDownloadStartsAfresh.cfg`, `MCLogInOrder.cfg` | where the documentation and the code disagree (section 6) |

In words:
- **The class loses no error and skips no step** under any handler: it shows a
  download only while no call of the handler has failed, and a manifestation
  only after `is_transfer_complete` said true.
- **The image is faithful**: at every step, the image on flash followed by what
  is left of the block is exactly what was accepted.
- **A poll is about the operation it waits for**: a `Program` never polls a driver that is
  idle or at something else, whose answer it would take for its own progress
  (`WrittenIsOwed`); no operation begins while another runs (`NoOverlap`), nor under the
  error flags that an earlier one left in `SR`, which nothing clears (`NoStaleFlags`).
- **What would be started was finished**: a manifest that matches the flash
  matches an image the host completed, entire, after any cut, fault or odd
  order of calls. An old image whose bytes happen to be a prefix of the new
  one stays valid while the new one is written; it is still an image that was
  finished. `ImplementsStore` says the same of every step: the record changes
  to another image only through none.
- **Success means success**: the DfuIdle that ends a manifestation is given
  only with a valid hash, and, for a host that has not made the class stall
  since the start, only with that host's own image. For a host that has, the
  image may be spliced from two downloads, section 6.
- **Done means on flash**: a poll that ends a manifestation finds the accepted image on
  flash, with a manifest whose hash fits it (`ManifestEarned`). It does not say when a
  manifest becomes valid: a word the controller is at may still be written after its
  `Program` was dropped.
- **An upload delivers**: the first one, or one after an upload that an empty frame
  ended, gives a host that reads whole buffers exactly the firmware. No other
  upload is promised anything, section 6.
- **Class and handler agree** whatever the host does, except that the handler
  may keep a download or an upload the class has given up.
- **Flash errors are real**: none is reported when the hardware works, also
  after cuts, since every cell is erased before it is programmed.
- **A panic has one cause**: for a host that has made nothing stall, the bytes it has sent
  so far are 3 modulo 4 in number. Neither the sizes of the blocks they came in nor the
  sectors they cross matter, and a manifestation never panics.
- **Nobody waits for ever**: a block ends written or refused, or the device has
  panicked; a manifestation ends.
- **A reboot is asked for**: the run-time interface is open for a reset exactly as
  long as the last DETACH asked, whatever the polls and requests in between;
  a reset at any other time does nothing.
- **The update takes**: whatever firmware the board had, wherever the power went or
  the host forgot, detach, button, reset key and tool bring the new firmware to
  run, if no block of the tool's ends 3 bytes after a multiple of 4 (a tool whose
  block does panics the board, and does it again after each reset); only the old or the new one, entire, ever runs; and once the tool has
  read DfuIdle its image survives a power cut.
- **Panics are told**: a report that is not the first since power-on counts every panic
  since the last one that fitted the buffer, as far as it fits the log. The log may be full
  of what was echoed or of the manifest; then the end of the report is lost, all of it if
  need be, and the message is cleared all the same (`Told`, and the truncation in
  `PanicIsTold`). A panic handler hangs only after more of them than fit, or on what
  the memory held when the power came.
- **The device falls silent** when the host does, although a carriage return stays
  in `buf` and the log may put one there: the manifest is not printed for ever.
- **The arithmetic is the table**: both sides of every boundary, and everywhere
  by proof.

### Bounds, and why they are enough

- `any_caller`: 24 bytes of flash; a bootloader sector of 4 bytes, application
  sectors of 4, 4 and 12 bytes, the last ending in the 8 bytes of the
  manifest. Images end in any of the sectors, cross every boundary,
  cross into the manifest and reach `APPLICATION_LENGTH`. Blocks of 4 and 5 bytes
  give every address modulo 4, and writes of 1, 2 and 4 bytes. One image
  and a factory image: contents are compared only for equality, and two
  differ wherever they can. All four faults: `WRPERR`, `OPERR`, `SILENT`, `KEY`.
- Bootloader runs: 20 bytes (sectors of 4, 4, 4 + 8), blocks of 2 and 5 bytes,
  which include the length that panics; `POLL_TIMEOUT` 2, so that a timer can run
  out before, at and after the end of the handler's work; control buffer 6,
  uploads of 2 and 6 bytes (6 where uploads are not the question). The images
  have lengths below, at and above a multiple of the buffer. `MaxSession` (2)
  bounds the downloads begun from DfuIdle: with two, each can be cut, given
  up, spliced onto the other or follow it on flash. It is the only bound on
  behaviours; everything else is finite by itself. The faults are split:
  `bootloader_any_host` has `OPERR` and `KEY`, so that an error meets the class from a poll
  and from each method, `Program::new` among them, which leaves the handler Idle;
  `bootloader_no_fault` has none, the premise of its properties. `WRPERR` differs from
  `OPERR` in the answer alone, and what `SILENT` leaves on flash is an error of `Memory::poll`, which
  reads it back; both multiply the states and are in `any_caller`. The proofs are for any set
  of faults.
- `system`: the flash of the bootloader runs; an image that fills the application
  exactly, with writes of every width, cut into blocks of 5, 1 and 2 bytes or of 5, 2 and 1,
  of which the second panics the board.
  `MaxMishaps` (3): the power can go in the download, again in the
  manifestation, and again before the new firmware runs, or the host forget
  twice. DETACH timeouts 0 and 2, so that the window can be missed.
- `runtime`: timeouts 0, 1, 4, 10 and 50 (`DETACH_TIMEOUT`) and polls of 0, 1 and 3 ms,
  so that a timer runs out exactly, early in a poll that counts too much, and
  at once. Nothing else is bounded.
- `application`: a panic buffer of 5 with messages of 2, so that the third does not
  fit, as the 45th of 23 bytes does not fit 1024; 0, a length within, at and above
  the size at power-on; `MaxPanics` (4) between two reports, enough to hang, be
  reset and hang again. A log of 7 and a `buf` of 4 with inputs of up to 2 and texts of
  2 to 6: all of the log fits `buf`, or part of it, and the log itself overflows.
  `timestamp` stops at `REPORT_AFTER` (2 for 5000), beyond which the code does not tell
  it apart.
- `sector_table`: the real addresses; four around each of the nine bases, and
  every 4 KiB from 32 KiB below the flash to 128 KiB above it.
- `any_handler`: `TRANSFER_SIZE` 2 (only the comparisons with 0 and with the limit
  count), `POLL_TIMEOUT` 45, polls of 0, 1 and 2 ms. Deadlock is not checked
  there because `DfuManifestWaitReset` does stop.

### Fairness

`LiveSpec` assumes weak fairness of `MainPoll(1)` (the loop has no blocking call
and SysTick keeps wrapping), of `Controller` (the hardware ends what it
began) and of `HostDownloadStatus` and `HostManifestStatus`: DFU makes the host
poll with GETSTATUS, and a device cannot leave DfuDnloadSync or DfuManifestSync
by itself. There is no fairness of `Boot`, of any other request, of power cuts,
or of the reset after a panic, whose handler may itself panic
(`src/trace.rs:15`): `BlockEnds` therefore lets a panic end the wait.

In `DfuRuntime`, weak fairness of `Poll` with a time that is not 0: the application's
loop polls each time SysTick wrapped. With the feature `debug-buffer` that
holds only while the host reads the serial port (`examples/application.rs:129`).
`WindowCloses` is conditional on DETACH requests that end: a host that repeats
them for ever keeps the window open, as it should.

`SystemFairness` adds weak fairness of the board (`Start`, the polls, the flash, the reset of
`on_panic`) and of
the tool and the user, who do what they can do as long as they can do it. The
USB reset of the tool has strong fairness: polls close the window it has to
fall into again and again, and weak fairness would let the tool miss it for
ever. Both that and the fairness of the button are needed: without either
`UpdateTakes` fails. Mishaps have no fairness; `MaxMishaps` says that they end.

In `Application`, weak fairness of a round: the loop goes on while the host reads.
`FallsSilent` has its premise in the formula: from some time on only rounds
without input happen.

## 4. What is proved

With TLAPS, for every value of the constants that satisfies the named
assumptions.

| Module | Theorems | What they say, for every value of the constants |
|---|---|---|
| `DfuModeAnyHandlerProofs` | `TypeCorrect`, `DownloadIsEarned`, `IntolerantStops` | `TypeOK`, `DownloadStateIsEarned`, `IntolerantNeverResumes` |
| `DfuModeAnyCallerProofs` | `DriverCorrect`, `FlashCorrect` | the inductive invariants `DriverInv` and `FlashInv` |
| | `WrittenIsAlwaysOwed`, `OperationsDoNotOverlap`, `FlagsAreNeverStale`, `BootloaderSurvives` | `WrittenIsOwed`, `NoOverlap`, `NoStaleFlags`, `BootloaderUntouched` |
| | `TypesAreCorrect`, `AreasStayApart`, `ImageIsFaithful`, `OnlyFinalisedBoots`, `ManifestIsEarned` | `TypeOK`, `AreasApart`, `ImageFaithful`, `BootOnlyFinalised`, `ManifestEarned` |
| | `StoreIsImplemented` | the refinement `ImplementsStore` |
| `BootloaderProofs` | `BootloaderCorrect` | the inductive invariant `AllInv` |
| | `BootloaderTypes`, `ClassAndHandlerAgree`, `OnlyFinishedStarts` | `TypeOK`, `ClassAgreesWithHandler`, `StartsOnlyFinished` |
| | `SuccessIsEarned`, `HostImageIsInstalled`, `UploadIsDelivered` | `SuccessIsValid`, `HostImageInstalled`, `UploadDelivers` |
| | `PanicsAreOfThree` | `PanicsOnlyAtThree` |
| | `FlashIsNotBlamed` | `NoSpuriousFlashError`, when `FAULTS = {}` |
| `DfuRuntimeProofs` | `RuntimeTypeCorrect`, `WindowIsExact`, `RebootsAreAskedFor` | `TypeOK`, `WindowIsOpen`, `RebootsOnlyInWindow` |
| `SectorTableProofs` | `FoundIsExact`, `NextIsExact` | `FoundIsTheTables`, `NextIsAdjacent` |
| `SystemProofs` | `DoneStaysDone`, `RunsOldOrNew` | `DoneIsDurable`, `OldOrNew` |
| | `ToolIsNeverSurprised` | `SystemTypeOK`, when `FAULTS = {}` and the image fits |
| `ApplicationProofs` | `ApplicationTypes`, `HangsAreUnread`, `PanicsAreTold` | `TypeOK`, `HangsOnlyUnread`, `PanicIsTold` |

### The class under any handler

From `CapabilitiesAssumption`: for every transfer size, timeout and set of
capabilities. Type correctness bounds the timer; `DownloadStateIsEarned` is
inductive with it.

### The handler, its driver and the flash

From `SectorAssumption` (a sorted table that covers the flash),
`RegionAssumption` (the application starts a sector, the manifest is in the last
one), `ManifestAssumption` and `FaultAssumption`. `SectorAssumption` states that
the table covers the flash rather than deriving it from the order of its
entries, which would need induction. `ManifestAssumption` wants a hash of whole
words and of at least one: with a hash of no bytes every length would be valid.
That was found by a proof that did not go through.

The lemmas are about `HandlerStep`: any call of a method with any bytes, a step of
the controller, a reset. `CallsAreSteps` and `BootloaderSteps` say that the steps
of `DfuModeAnyCaller` and of `Bootloader` are such steps, so the same lemmas serve
both. They come in two layers.

**The driver** (`DfuModeImplProofs`, `DriverInv`). That `op` is idle when `erase` or
`program` is called follows from *who calls when*: when the controller is busy the
driver knows the same operation (or the CPU has stopped); when the driver is
busy, the handler has a `Program` that is not in `AwaitData`, or is in `Error`,
which has no way out that starts anything. Hence `Program::poll` goes on only
after the driver answered Ready, `update` and `finalize` only in `AwaitData`, and
`Program::new` only in `Idle`, each with an idle driver. `DriverInv` also carries
that every operation is *legal* (erases a sector of the application or programs
at an address of it) and *owed* (`Owed`: by its `Program`, at its address).
`Steps(r)` says what any step of a `Program` that answers `r` leaves; one lemma per
helper establishes it, one per method turns it into `DriverInv'`.

**The flash** (`DfuModeImplProofs`, `FlashInv`). None of the properties is inductive
by itself. What is:
- `Splits`: the bytes accepted are on flash up to `program.addr`, and then in
  `program.rest`. It is `ImageFaithful` with the content spelled out.
- `Placed` and `Clean`: the address is in its sector, or at its end, and the sector
  is erased from there on. Without it a write would not leave what it was
  given, since programming only clears bits.
- `Writes`: what the driver writes is the front of `rest`, over cells that were erased
  before it began; once it is done, those after it still are.
- `WellAimed`: an operation of the controller puts into each cell only what may lie
  there, stays within a word, and is either below the manifest or a word of the
  manifest of a finished image that is on flash (`Seals`). It speaks of `op`
  alone, since the controller goes on when the handler has given its `Program` up.
- `Sealed`: when the last byte of the manifest is there, the manifest is entire and
  that of a finished image. It rests on the order of the writes: the last word
  comes last, and an erase takes the last byte away with the others.
- `SliceInv`: what an upload copies from lies in the application.

`ControllerKeepsFlash` and `ResetKeepsFlash` have the cases where an operation ends or is
cut (`Effect`, `Spoilt`), `ProgramNewKeepsFlash` to `UploadKeepsFlash` one method each, and
`FlashInvStep` one step per action. `FlagsAreNeverStale` needs one more, `FlagsInv`: a flag
stands only while the operation it is about has not been polled, or in a handler that is in
`Error` or panicked.
`ValidIsEntire` is the bridge to `is_firmware_valid`: a hash
that is right is that of an entire manifest, whose image is there.

`StoreIsImplemented` maps each step: `finalize` is `Offer`, a last word of the manifest
`Install`, damage and erasures their counterparts, and everything else a stutter.
`CallerAssumption` is needed for the blocks and the buffer alone.

### The bootloader

From the assumptions above, `CapabilitiesAssumption` and `HostAssumption`, which says
that blocks and the control buffer have sizes. `AllInv` is `DriverInv`, `FlashInv` and
five parts:
- `AgreeInv`: class and handler agree (`ClassAgreesWithHandler`); no class, no work.
- `TypeInv`: types, a host image that began has a number, and the host of an upload
  has no more bytes than the handler has given.
- `SuccessInv`: under a manifestation, an `Idle` handler is one that has finished it, and
  the hash is valid. It is what `SuccessIsValid` needs of the state before.
- `OwnInv`: for a tidy host the handler has no download the class has given up, and what
  it accepted is what the host sent. This fails for a host that has made the
  class stall (`DownloadStartsAfresh`, section 6).
- `FetchInv`: an upload of whole buffers has so far delivered the image up to where the
  handler stands, of a length its manifest gives. `NextPart` is what one call of `upload`
  adds, and `ImageGrows` that it follows what is there.

The effects of each request (`DownloadEffect`, `ManifestEffect`, `MainPollEffect`,
`UploadEffect`, `AskEffect`) come first, one lemma each, then one lemma per action that
it keeps the parts.

`PanicsAreOfThree` bounds the violation of `NeverPanics` (section 6). `DownloadSteps` says that a
step of a download that panics has accepted 3 modulo 4 bytes, from `Splits` and the
driver's choice of a width (`PanicIsOfThree`: one byte left, at an address that is 2
modulo 4); `ManifestSteps` says that no step of a manifestation does, since a manifest is written in
words. `AgreeInv` tells which requests can reach such a step, and `OwnInv` that the bytes are the
host's own.

`FlashIsNotBlamed` adds `HealthInv`: no flag is up, the key works, and when the driver waits
for an operation the controller has ended, its cells hold what it was to leave. That an erase
leaves erased cells is plain; that a write leaves its bytes needs `Clean` and that it
stays in its sector, from `FlashInv`. Power cuts are steps like any others. The premise
`FAULTS = {}` is that of the property.

### The whole board

From `SystemAssumption` and those above: the tool's blocks are ones a host may send, and
its image has vectors the bootloader lets pass, whichever of `PLANS` it cuts it by. Nothing is assumed of faults, of how often
the power goes (`MaxMishaps` is any number) or of the times polls and timeouts have.

`SystemCalls` shows each step of `System` to be one of `AnyNext`, which is `Next` with a
download of any image number from DfuIdle: the tool sends the same image again after a
mishap, where `HostDownload` begins another one. `AllInv` and `StartsOnlyFinished` are kept by `AnyNext`, so
they hold of the board. `DoneIsDurable` is not inductive on top of them, since nothing in it says why
GETSTATUS answers DfuIdle. `ToolInv` does:
- `ToolKnows`: while the class is in the download, `hostSent` is the image up to the block the
  tool is at, and all of it in a manifestation. `NextBlock` and `PrefixGrows` are the step:
  the image so far and the next block are the image up to that block.
- `NewIsThere`: a tool that is done has an `Idle` handler, whose class is in DfuIdle or DfuError,
  and its image on flash with a valid hash. Then the controller is idle, so nothing but
  a download could touch the flash, and the tool begins none; `NothingTouched` needs
  `FlashTable` for the reset, after which the flash is the same function and not only the same
  cells.
- `TwoImages`: only the factory image and the tool's were ever finished. With
  `StartsOnlyFinished` it gives `OldOrNew`.

`ToolIsNeverSurprised` is about a board whose flash works (`FAULTS = {}`), that is manifestation
tolerant, as all boards of the crate are, and an image that fits (`PlanFits`): otherwise the
class answers with DfuError, as it should. To `Blameless` it adds `WorkInv`: class
and handler stay in an update, and the handler has accepted no more than fits. That no error
comes of it is `FittingDownload` for a block, `PolledInside` for what a poll does (a
`Program` with bytes left is below the manifest, as those bytes and the ones on flash
are no more than fit) and `WorkingManifestation` for the end. A panic is not
excluded: it leaves the class where it was, until the reset.

### The rest

`DfuRuntimeProofs`, from `RuntimeAssumption`. The window is defined by history, the
interface by its timer; `TimerAgrees` (what is left plus what was waited is what
was asked) ties them and makes the invariant inductive.

`SectorTableProofs`, from `BoardAssumption` (the constants are the board's, and its
table has no gap). `Shift14` and `Shift17` turn each shift and mask into an interval,
`SectorOfIs` says that one sector has it. `NextIsExact` follows from both for the iterator.

`ApplicationProofs`, from `PanicAssumption`, `LogAssumption` and `ApplicationAssumption`.
`HangsOnlyUnread` is inductive with `MessageFits`: a length that was cleared is at most
one message for each panic since. At most, not exactly: a panic that hung has left
none. `PanicIsTold` needs it exactly, and that is `ToldInv`: the length is that of as many
messages as there were panics, or as there is room for. `RoomFacts` has the
arithmetic, and where `PANIC_SIZE % MESSAGE # 0` is needed: a buffer that is exactly
full fails the test of `main` for a message. `LogInv` types the log, which `write_str` never makes
longer than its buffer.

### Only model-checked

Liveness (`BlockEnds`, `ManifestationEnds`, `WindowCloses`, `UpdateTakes`, `FallsSilent`): its fairness
is out of the prover's reach. Every invariant and action property the passing runs check is proved;
`NoSpuriousFlashError` and `SystemTypeOK` under premises that their runs share.

## 5. What is not modelled

- `jump_to_application`, clock and pin setup: register writes, no control flow.
- Two effects in `Memory`: `CR.SER` and `CR.PG` are never cleared, and reads of
  words at addresses that may be unaligned (fine on a Cortex-M4). A flash
  operation works or fails in the model whatever `CR` holds.
- The `usb_device` crate: control transfers arrive whole. Its control buffer is
  128 bytes, so a block never exceeds `TRANSFER_SIZE` (`HostAssumption`). A
  zero-length UPLOAD is left out.
- Wire encodings, descriptors, `bwPollTimeout`, block numbers (ignored by the
  handler).
- Where the panic message lies: application and bootloader each have an `ERROR` of
  their own, placed by their linker scripts; the model assumes that the
  bootloader's run before the application leaves the application's alone.
- The other builds of the application (`debug-uart`, no debug output), the serial
  class, the allocator, and `executor.rs`, whose `block_on` polls one future that is
  never pending.
- A device that is not manifestation tolerant, but for the class under any
  handler: no board of the crate is one.
- `duet3d.rs`, `disco_l475.rs`: unfinished boards that do not implement the trait.

## 6. Where the code and its documentation disagree

Each is a run that TLC finds violated; `PROJECT.json` quotes the line.
- `NeverPanics`: a download of 3 modulo 4 bytes, in one block or several, panics in
  `Memory::program`. `PanicsOnlyAtThree` is the other direction.
- `UploadIsTheFirmware`: the upload after a complete one is empty; after an aborted one
  it starts mid-image; in frames shorter than the control buffer it has gaps.
- `DownloadStartsAfresh`: a download after an abandoned one is appended to it.
- `LogInOrder`: a log that is taken in parts goes on with the wrong bytes.

Not runs, since a line or two of the source show them:
- `control_out` of the run-time class stores the host's timeout whatever it is
  (`usbd-dfu/src/runtime.rs:119`), although `usbd-dfu/src/lib.rs:32` calls
  `DETACH_TIMEOUT` "the maximum time that the device can wait".
- `is_firmware_valid` answers false while the button is held
  (`src/nucleo_f401re/dfu/mode.rs:312`), so a board with a valid firmware starts in
  `Error::Firmware`, which `usbd-dfu/src/lib.rs:78` explains as a corrupt firmware.
- Every error of a manifestation is reported as `StalledPkt`
  (`usbd-dfu/src/mode.rs:129`), which `usbd-dfu/src/lib.rs:88` explains as an unexpected
  request.
- The end of a manifestation checks neither the hash nor the vectors: with bad
  vectors in the image the host is told DfuIdle and the next start stays in the
  bootloader. `SuccessIsValid` is therefore about the hash alone; in `System` the
  tool's image has good vectors.

## 7. Plan

Done: every component with state, its runs, a refinement (`ImplementsStore`), and the proofs of
all invariants and action properties the runs check.

Next:
1. `Bootloader` with `IS_MANIFESTATION_TOLERANT = FALSE`: the handler is not polled in
   DfuManifestWaitReset, and a reset there may leave half a manifest. The proofs hold
   for it, but for `ToolIsNeverSurprised`; no run has it.
2. In `System`, that a tool whose `plan` keeps `NoBlockPanics` never sees a panic: it follows
   from `PanicsOnlyAtThree`, once what a forgotten download has sent is known to be a part of
   the plan. So far only the run of `UpdateTakes` shows it.
