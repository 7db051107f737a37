# ChronOS: models, checks and proofs

ChronOS is a small x86-64 kernel.  A stivale2 boot loader enters `_start`
(`platform/pc64/src/boot.cpp`); the kernel sets up the serial line, its descriptor
tables, a text console on the framebuffer, prints a boot message and halts.  What
remains after that, and at every step before, is the way from a failure to a
report: exceptions, `REQUIRE` and the stack protector all end in `panic`.  This
directory specifies that code in TLA+, checks the specifications with TLC and
proves the results that matter for every size with TLAPS.

Paths below are relative to `src/kernel/`.  `PROJECT.json` maps each definition to
the lines it models.

## Inventory

| Component | State | Operations | Talks to | What is hard |
|---|---|---|---|---|
| Spinlock (`arch/spinlock.h`, `arch/atomic.h`) | `count` | lock, trylock, unlock, guard | `gPanicLock` | processors interleave; unlock is a plain store behind a compiler barrier |
| CMOS clock (`time/cmos.cpp`) | `second` ... `year` | `CMOS::Read`, accessors, `platform_timer_now` | the clock chip; called by `log` | the chip updates its registers while they are read; BCD, 12-hour mode, two-digit years |
| Log and panic (`runtime/log.cpp`, `log.h`) | `gPanicLock`, `panicBuf` | `log`, `panic`, `REQUIRE` | clock, serial line, console | a failure while a failure is being reported; the lock is never released |
| Exception handlers (`exceptions.cpp`, `exceptions.S`) | `inFault`, static buffers | stubs, page fault and general handler, `InstallExceptionHandlers` | `panic`, IDT, TSS stacks | re-entry; frames built by hand; which stubs push an error code |
| Stack protector (`c/stack_guard.c`) | the guard value | `__stack_chk_fail` | `panic` | comes from any function's return, `panic`'s own callees too |
| Framebuffer console (`debug/FramebufferConsole.*`) | cursor, colours, parser state, the pixels | `write`, `clear`; inside: print, newline, SGR, CUP | `log` (both ways), `panic`, boot message | edges found by `==`; parser buffers; colours worked out ahead of use |
| Serial line (`io/serial.cpp`) | the UART | `Init`, `WaitTxRdy`, `Tx` | `log`, `panic` | polling without a bound; `\n` as two bytes |
| Descriptor tables (`gdt.*`, `idt.*`) | GDT, TSS, IDT, GDTR, IDTR, TR | `Init`, `Set32`, `Set64`, `set`, `Load`, `ActivateTask` | `log`, `REQUIRE`, handlers | the order of loads; limits; addresses cut into fields; interrupt stacks |
| Boot (`boot.cpp`, `platform.cpp`, `init.cpp`) | `boot_info`, `gConsole`, `memSize` | `_start`, `PlatformInit`, `FramebufferInit`, `PrintBootMessage` | all of the above | order; missing tags; faults before there is anyone to report them |
| String functions (`c/string.cpp`) | none | `memcpy`, `memmove`, `memcmp`, `strncmp`, `strncpy`, ... | everything | sizes that are no multiple of 4; overlapping memory; ends of strings |
| `printf` (`c/printf.cpp`) | none | `vsnprintf`, `fctprintf`, ... | log, panic, handlers | the bound of the output, and that it is what C prints; third-party code |

Not code with behaviour of its own: the font (`BitmapFonts.*`), the boot protocol's
structures (`stivale2.h`), single-instruction wrappers (`x86_io.h`, `x86_msr.h`).

Only the boot processor runs in this version, with interrupts off.  Concurrency
is therefore of three kinds: hardware that moves on by itself (the clock chip),
failures and the NMI that interrupt the code they report on, and, for the
spinlock, the other processors it is written for.

## Modules

| Module | Is |
|---|---|
| `Mutex` | abstract: one owner, one change per ownership, none lost |
| `SpinLock` | `amd64_spin_lock`/`trylock`/`unlock` on processors with store buffers |
| `SpinLock_proofs` | its inductive invariant, mutual exclusion, refinement of `Mutex` |
| `CmosTime` | pure: the registers' encodings, `CMOS::Read`'s conversions, the packing |
| `Cmos` | `CMOS::Read`, register by register, against the chip |
| `Cmos_proofs` | the snapshot theorem, the conversions' round trips |
| `OneReport` | abstract: one failure is reported, untorn, in order |
| `Panic` | every path from a failure to the halt, failures in failures included |
| `Panic_proofs` | the page fault handler does not recurse; refinement of `OneReport`; `printf`'s bounds, and that it prints what C's does |
| `Terminal` | abstract: a terminal that takes characters and whole sequences |
| `Console` | `FramebufferConsole`, one step per `write(const char)` |
| `Console_proofs` | types, cursor, parser buffer, colours; refinement of `Terminal`; the pixels of `Framebuffer`; the stores of `PanicConsole` refine `Console` |
| `Descriptors` | pure: segment and gate descriptors, byte by byte, and how the processor reads them |
| `ExceptionFrame` | pure: what processor and stubs push, against `amd64_exception_info` |
| `Boot` | `_start` to the final `hlt`, exceptions at any step, the stubs |
| `Boot_proofs` | types, delivery, frames and devices, for all addresses and vectors |
| `Log` | `log` on the serial line and the console, called from inside the console too |
| `Log_proofs` | types, complete lines, CR before LF, no way back to the console; the text on the serial line |
| `PanicConsole` | `Console` store by store, a failure between any two, and panic's report on what it left |
| `Framebuffer` | the pixels behind `Console`'s cells, in lockstep with it |
| `Serial` | `Serial::Init`, `WaitTxRdy` and `Tx` against the UART's registers |
| `Memory` | `memcpy`, `memmove`, `memset`, `memclr`, `strncpy` a store a step; `strncmp` |
| `Memory_proofs` | what each of them leaves in memory, and the order `strncmp` decides by, for all sizes |
| `SequenceLemmas` | induction and recursion along sequences and numbers, how sequences are joined, flattened and reversed, for the proof modules |
| `Printf` | `_vsnprintf` and its four outputs, without floating point |
| `Formats` | formats by their directives, how these are spelled and what C prints for them; what `Printf` is compared with |
| `MCCmos`, `MCFramebuffer`, `MCBoot`, `MCLog`, `MCPanicConsole`, `MCSerial`, `MCMemory`, `MCPrintf` | the instances' constants for TLC |

`Boot` extends `Descriptors` and `ExceptionFrame`, `Cmos` extends `CmosTime`; `SpinLock`,
`Panic` and `Console` each instantiate the abstract specification they implement
(`Mutex`, `OneReport`, `Terminal`).  `PanicConsole` and `Framebuffer` extend `Console`:
the first shows that its own smaller steps implement `Console`'s, so that there is a
chain from single stores to the terminal; the second that the cells are what is on the
screen.

Definitions named "Mutant of X" are X with a bug that code like this may well
have; each property of a run is violated when its mutant replaces X.  They are
used by no specification.

### SpinLock

`mem` is memory, `buf[c]` the store buffer of processor `c` (x86-TSO: a store
enters the buffer, a load sees the processor's own newest store, the buffer drains
in order, `xchg` waits for it to be empty and is one step).  `pc[c]` is where `c`
is: `out`, in `amd64_spin_lock` (`xchg`, `spin`), in `amd64_spin_trylock` (`try`),
or holding the lock (`load`, `store`, `unlock`: a client that increments a shared
word, the shortest code that can tell whether the lock works).  A step is one
memory access.  `SpinLockGuard` is lock and unlock.

The refinement to `Mutex` is where the compiler barrier and the plain store of
the unlock are put to the test: the lock is owned until *memory* sees the unlock,
and every critical section must change the value its predecessor left.

### Cmos

The chip (external; modelled from what the reading code relies on) goes through
`Timeline`, the one its mode is given.  It sets UIP, then updates; while it does (`flux`) a register reads as
the old value, the new one, or junk.  Assumed of it: an update does not begin
before UIP has been visible, it takes less than the second to the next, and two
passes over the registers fit between two updates.  It does *not* wait for the
reader: an update may begin between the test of UIP and any register read, which
is the race the double read is for.

The reader's program counter follows `CMOS::Read`: `poll` (either wait for UIP),
`read` (one register a step), `compare` (the do-while's condition), `convert`,
`return`.  `century_register` is 0 and is never set, so the century branches are
dead; the one read of "century" in the first pass goes to register 0 and is used
by nothing.

### Panic

`stack` is the activations: the kernel's code, then handlers on top of each other.
None of them returns (`panic` does not), so only the last one runs: an earlier one
stays where it was cut off, with what it holds.  A failure may strike wherever
code follows a pointer or fills a buffer, an NMI anywhere.  `panic` is modelled
statement by statement: `SPIN_LOCK`, the `vsnprintf` into the static `panicBuf`,
then the report, in `Pieces`, each to the serial line first and then to the
console, if there is one.  Every piece is of what `panicBuf` holds *at that
moment*, so a second report that got past the lock would show.

### Console

The screen is kept by characters; a cell has a glyph and the two colours it was
painted in.  Characters are byte values, with the test values for final bytes and
digits the code has.  `char` is signed, so a byte above 127 compares greater than
`maxGlyph` (a `size`) and is drawn as `?`.  A step is one call of `write(const
char)`: parser, print, wrap, scroll and all.  `processAnsi` logs a sequence it does
not know to the serial line, which changes nothing here.

The code relies on its callers for two things it does not check: a CUP sequence
names a position on the screen, and a number in a sequence is shorter than
`number[8]`.  The actions take any sequence, as the code does; what callers may send is
said where they send it, in `Next` (`Sent`: `NumbersFit` and `StaysOnScreen`), and the
two are hazards in `PROJECT.json`; the kernel's own sequences (`\033[41m`, `\033[0m`)
keep both.  `Anywhere` is the console with callers that send a CUP to any place.  A
screen has at least `kScrollAmount` rows (`ScreenAssumption`).

Read from the code and kept: an SGR sequence that ends in `;` does not reset, an
empty number elsewhere does; a CUP sequence of a single number, even an empty
one, sets the row and leaves the column.

### Boot

`boot` is the position in `Program`, the calls of `_start` with those of `GDT::Init`,
`IDT::Init`, `PlatformInit` and `kinit` in their places; a step of `Program` is a
call, or a statement where the order of statements matters (`lgdt` before the
flush before `ltr`; the console's memory cleared, constructed, published).  The
tables are bytes: `Set32`, `Set64`, `IDT::set` and the loop over the interrupt
stacks are modelled by which byte of an address goes where, and the processor
(external) reads segments, gates and the TSS back from those bytes.  So a limit
one too small, a swapped half, a missing handler or a table loaded too early shows as a
fault that is not delivered.  Of the GDT's 128 descriptors the first 8 are kept, the others are
zero and beyond the limit.

At any step a vector of `Failing` may strike, in boot code, in a stub or in a
handler.  With no usable gate it becomes a double fault and then a reset; `act.raised` stays
the vector that struck, so that a double fault in its place does not pass for its
delivery.  `Enter`
pushes the processor's words, the stub its own (`PushNumber`, `PushRegisters`), and
`CallHandler` hands them on.  No handler returns, so the activation before is never
resumed, and what the stubs restore after the call is dead code; what handlers do
is `Panic`.

Abstracted: the sum over the memory map and what the boot message says, the text of log lines (a step of `Logging` needs the serial line, no more),
`Serial::Init`'s accesses (`Serial` has them).  Kept as the code has it: the framebuffer is tested before
the serial line is set up, so that a missing one hangs silently; `kinit`'s 10 / 0 is
undefined and unused, so the build may keep the division or drop it.

### Log

`stack` is the calls of `log` that have not returned, each with the devices its
first byte names and the characters it still has to put out; `phase` is where the
last one is in `_outchar_*`.  A character goes to the transmitter through
`WaitTxRdy` and `Tx`, `\n` as `\r`, a second wait and `\n`; writing to a holding
register that is not empty loses what is in it.  The transmitter (external)
empties it whenever it likes.

At the console a character may complete an escape sequence that `processAnsi`
does not know: it then calls `log` before it returns, from inside the outer
call's character.  That message has no device byte and goes to the serial line,
in the middle of what the outer call writes there; only its not coming back to
the console keeps the parser, which still reads a sequence, from being entered
again, where every letter would complete one.

### PanicConsole

`pc` is the next store of the call of `write` that is being executed, `rest` the
characters after it.  `Strike` is a failure between two stores: what was being written
is given up, and `Report`, the shape of panic's two lines, is written to the console
as it is.  `quiet` is a history variable, the console at the last return, by which
the steps refine `Console`.  The order of stores is the source's, which is what the
compiler makes of it at `-O0`, the kernel's setting.

What makes this hard is that both edges are found with `==` and that
`writeState` is set before `ansiBufUsed`.  A failure in the wrong one of a few steps
leaves the cursor beside or below the screen, or `ansiBuf` without a place.
`ReportLegible` says that in every other case the report can be read, wherever it
started from (inside a sequence, in the middle of a scroll); `UnsoundInside` names the
steps that are the exception.  They are a weakness of the code that the model
states and does not hide: whether the processor takes an NMI or the code faults
there is not up to the console.  Writes that go outside of the screen or of
`ansiBuf` change some other memory, which the model does not have.

### Framebuffer

`pixels` is memory from `buffer` on, a word a pixel, `Before` what was in it, every
word another one in the run.  Addresses are computed as
`drawChar`, `newline` and `clear` compute them, strides and all.  `newline`'s `memcpy` is
one step here: `Memory` shows it to be right on ranges that overlap that way.  It copies
whole strides, and with them the words a row has beyond the screen's last column; so
these do not stay what they were.  What `KeepsInside` says of them is that nothing is
ever painted there and that they move up with their rows, whole; behind the last row no
word changes at all.

### Memory

`loops` is the loops a call still has to run, the first one running, and `i` how far
that has got; a step is a word or a byte.  `memmove` is two copies by way of `tmp`.
`Legal` is what a call may ask for; `memcpy` on overlapping ranges is in it when the bytes
move down, which C does not allow and `FramebufferConsole::newline` does.

`strncmp` is the code's loop, a byte a turn, which ends at a difference or with the
count, but not at a NUL.  So where C's returns 0 for two strings that are the same up to
their NULs, this one goes on and compares what is behind them.  `OrdersStrings` says
both: the sign is that of C's order where that tells the strings apart, and two that are
the same compare as equal if and only if the bytes behind their NULs are the same too.
The repository declares `strncmp` and nowhere says which of the two it wants.

### Printf

A format is a sequence of characters, and a step is a character of text or one field of
a directive; the specifier's step formats the argument as `_ntoa_format` and
`_out_rev` do, the buffer of `B` digits included.  Each type has a small number of
values of its own (`Values`), so that the edges of each are among the arguments.  The sink `fct` drops the NULs it is given (`WithoutNul`), as `_out_fct` does; the length
returned counts them.  Of
the memory at `buffer`, `Room` places are the caller's and `Extent` are looked at, so that
a store behind the caller's shows, with whatever count the call was made.  Names
differ from `Panic`'s because `Panic_proofs` extends both: `panicBuf` is what `vsnprintf`
leaves in it.

The reference is C's, in `Formats`.  A format there is a sequence of directives, each with
its flags, width, precision, length, specifier and argument (`WellFormed`); `Spelled` is
the directive's characters, `Arguments` what it takes from the call, `Means` what C says
it prints, and `CallOf` puts the three together along the format.  `Printf` is given the
characters and the arguments, and compared with the meaning.

The code is known to depart from C where `Departs` (in `Formats`) says: a precision on
a left-justified number, `#` with a width of exactly the number's digits (it takes
digits off), octal `#` with a precision, binary `#` with zeros.  Of these the kernel's
formats use none.  Nor do they use more than the buffer of `B` takes (`Short`): it is cut
there, C has no such limit.  `AsInC` is both.  A `*` precision that is negative, a format
that ends inside a directive, a pointer with flags or a width, and a call with fewer
arguments than its format takes (`Passed`), are left out.

### Serial

`made` counts the accesses of `Program` that `Init` has made.  The UART (external) takes a byte from
its FIFO and sends it whenever it likes, with the divisor and the format of that
moment, to the line or back to the receiver.  A loader may
have left any number of bytes in it, its registers (`Left`) as it likes, and it may have
turned DLAB or the loopback mode on; the theorem is about all such states, the run about
those of `MCLeft`.  The loopback test reads its answer at once, without waiting for it, against
"expect to read back the same value"; nothing comes of that, since the panic behind the
comparison is commented out, but the test byte may come out of the line later.  `Test`
and `Loader` are not in the text (`TextAssumption`), so that on the line the three can be
told apart.  Names differ from `Log`'s because `Log_proofs` extends both.

## Runs

| Run | Question | Instance | Outcome |
|---|---|---|---|
| `spinlock` | does the lock exclude, hand over, let somebody in, lose nothing? | 3 processors, counter modulo 3 | holds |
| `cmos` | is what the reader returns a time the chip showed, however reads and updates interleave? | BCD and binary; 24-hour from 31 Dec 2099 to 1 Jan 2100, 12-hour from 1 to 2 pm, two updates each | holds |
| `cmos_noon` | is the hour a 24-hour clock's? | 12-hour, noon | violated |
| `panic` | one report, untorn, and an end, whatever fails on top of it? | 3 exceptions on top of each other, 3 pieces | holds |
| `panic_nested` | is a nested page fault reported as such? | 2 exceptions | violated |
| `console` | does the parser keep its buffer, is the console a terminal, do the pixels show it and stay inside of the framebuffer? | 2 x 2 characters of 8 x 2 pixels on 17 x 5, stride 19; scroll by 1; sequences of up to 4 characters over 7, as callers may send them | holds |
| `boot` | does every exception reach its own handler, with the context it interrupted; are devices ready; does boot end? | 2 failures of any of the 19 vectors, at any step | holds |
| `log` | are lines complete where they belong, is the console not re-entered, does `log` return? | 3 calls, all device bytes, 2 texts, with and without a console | holds |
| `panic_console` | can the report be read, wherever in the console the failure struck? do its stores add up to `Console`'s steps? | 2 x 4 characters, scroll by 1, buffer of 3, 7 texts | holds |
| `serial` | does text come out whole, at the right speed, whatever the UART was doing? | interrupts on or off, 3 line control, 2 modem control and 2 divisor values, 0 to 3 bytes in the FIFO; 3 characters | holds |
| `memory` | is every byte written that should be, none else, and none read too late; does `strncmp` order? | 9 bytes, words of 4, every length and pair of addresses; 5 contents | holds |
| `printf` | does every directive print what C prints, is nothing stored past the end, is there a NUL, is the length right? | integers: 5 flags, 4 widths, 4 precisions, 4 lengths, 6 specifiers, 5 values; 6 formats of several directives on 3 outputs, 6 sizes from 0 on; the run's ASSUMEs: every directive and call meets the theorems' hypotheses | holds |

Deadlock is checked in `spinlock`, `console` and the clock's runs, whose machines never
stop; in the others the code is meant to come to an end.

**Bounds.**  `spinlock`: two processors contend, a third can slip in between an
unlock and a waiter's next exchange; three values of the counter tell a lost
increment from a made one.  `cmos`: one update makes a torn pass, a second one
lets a torn pass be compared with a later one; the midnight timeline carries
through every register and the two-digit year; junk is 0 or a plausible time.
`panic`: three exceptions put a failure into the handling of a failure in the
handling of a failure; three pieces have a first, an inner and a last.
`console`: four characters fill the buffer without a final byte, and hold "44m" and
"2;2H"; two rows scrolled by one keep one, two columns tell a wrap from a step; a column
and a row of pixels are left over, and two words of each stride and behind the last; no two
words had the same in them before, and glyphs differ in all their bits; outside of sequences one character stands for all text, in two inks.  `boot`: one
failure interrupts boot, a second one the stub or the handler of the first, on
its own interrupt stack or on the same; the addresses' bytes all differ, so that
no field can hold another's by luck.  `log`: an outer call, one from inside of it,
and one after both; one text leads into the parser and has a character after the
sequence.  `panic_console`: two columns and four rows have an inner position, both
edges and a scroll of the report itself; the texts end sequences in every way there is,
one of them filling the buffer.  `memory`: nine bytes are two words and one byte, with every overlap; in one of the
contents all bytes differ, so that a misplaced one shows, in the others NULs end
strings with a byte above 127 in one of them, and behind them is the same or not.  `printf`: the values are the smallest of three of
the types, 0, -1, and some with one to four digits, of every base; widths and precisions are
below, at and above them, and the largest fill the conversion's buffer, of 14 in place of
32 places, to its last one; sizes cut every directive somewhere; four places behind the
caller's are looked at.  `serial`: three characters with a newline inside; a FIFO of three
is empty, full and in between.

**Fairness.**  `SpinLock`: a processor that has called the lock goes on executing,
and store buffers drain by themselves; nobody has to call.  The lock gives no
freedom from starvation, and none is claimed: some waiter gets in.  `Cmos`: a
call that has begun goes on; the chip completes an update it has announced; it
may stop between updates.  `Panic`: the processor executes handlers and `panic`;
failures are never promised.  `Boot`: the processor executes `_start` and the
stubs, and completion is claimed only of a boot that nothing from outside
disturbs.  `Log`: a call that has begun goes on, and the transmitter sends what it
was given; both are needed, as `WaitTxRdy` has no timeout.  `Serial`: the same for the
driver and the UART.  The other modules' properties are safety and need none.

**What the violated runs say.**  `cmos_noon`: in 12-hour mode noon is returned as
hour 0 (and midnight as hour 12), against the comment "Convert 12 hour clock to 24
hour clock if necessary".  `panic_nested`: "nested page fault detected!" never
appears, since the nested `panic` waits for the lock of the `panic` before it (the first page fault's,
or one that the page fault struck), which does not run any more.

Smaller disagreements met on the way, with no consequence in this kernel: `InitTss` sets
the offset of the I/O map to the last byte of the TSS, where `gdt.h` says it should be the
size of the TSS; the ninth column of a font of 16 pixels would be drawn from the first
byte of its row; `%033u` prints 32 places, as digits are put together in a buffer of 32;
`strncmp` goes on behind a NUL that ends both of its strings; a scroll moves what is in
memory beyond the screen's last column, too.

## Proofs

All checked by `tlapm`, for every value of the constants under the modules' named
assumptions; the table names the property proved and the strengthening it needs.

| Theorem | Property | Along which argument |
|---|---|---|
| `SpinLock_proofs`: `TypeCorrect`, `MutualExclusionHolds`, `HandOverHolds` | `TypeOK`, `MutualExclusion`, `HandOver` | `IInv`: a store buffer has one of four shapes (empty, the data, the unlock, the data before the unlock); who is inside or has stores on the way *owns* the lock; owners are unique; `count` is 1 while there is one |
| `LockImplementsMutex` | `ImplementsMutex` | `IInv`, and `Mapping`, which reads owner, change and value off it |
| `Cmos_proofs`: `TypeCorrect`, `SnapshotHolds`, `StampHolds` | `TypeOK`, `Snapshot`, `StampIsShown` | what each register read so far may stem from, given whether an update began in this pass or the one before; two equal passes then show one time; round trips of BCD and of the packing |
| `Panic_proofs`: `TypeCorrect`, `PageFaultDoesNotRecurse`, `PanicImplementsOneReport` | `TypeOK`, `PageFaultOnce`, `ImplementsOneReport` | at most one activation is past the lock, and `panicBuf` is its own; `inFault` is set before any formatting |
| `PrintfKeepsBounds` | `Bounded` | `PrintfInv`: what a directive puts out is a sequence, whichever; so `idx` stays a number, and a store at or behind the count, or behind the buffer, is not made, wherever `idx` has run to; the parser of a format never gets behind its end |
| `PrintfPrints` | `Prints` | `PrintsInv`: what the format's first directives mean has come out, and the parser is at a place of the next one's fields that agrees with what it has read of them; so the spelling is read as it was meant, digits of a width as the number they spell. `NumberConverts`: digits, zeros and prefix, put into the buffer last character first, are the reverse of C's sign or prefix, zeros and digits, wherever `AsInC` holds |
| `SprintfKeepsBounds` | `Bounded` | `PrintfInv` and `Prints`: a call that says it has more than its memory puts out what its directives mean, no character more at any time (`NoMoreOut`), and that has its room; so nothing is stored behind the caller's memory, nor behind the last character's NUL |
| `Console_proofs`: `TypesOfConsole`, `CursorStaysOnScreen`, `ColorsFollowIndices`, `AnsiBufHolds` | `TypeOK`, `CursorOnScreen`, `ColorsUpToDate`, `AnsiBufFits` | inductive together; the parsers' folds keep colours and positions in their sets, by induction along the sequence; of texts whose CUPs stay on the screen (`Sent`) |
| `OnlyCupLeavesScreen` | none of a run's | of any text (`Anywhere`): case by case, each step but a CUP that names a place off the screen keeps the cursor on it |
| `ConsoleImplementsTerminal` | `ImplementsTerminal` | a row-wise comparison of the scroll with the terminal's line feed |
| `WritesKeepInside`, `PixelsShowScreen` | `KeepsInside`, `ShowsScreen` | the address of a pixel is unique to its cell, and below that of the buffer's end; a scroll moves whole rows of pixels, the words beside them included; what each step draws is what it put into `screen` |
| `UnsoundOnlyInside`, `StoresImplementConsole` | `UnsoundInside`, `ImplementsConsole` | `CallInv`: for each `pc`, how far the console is from `quiet`, which is the console at the last return; unfinished stores lead to what `Console`'s step would have done at once |
| `ReportIsLegible` | `ReportLegible` | `ReportInv`: for each number of characters of the report that `write` was given, what the parser has made of them, where the cursor may be, and how far above it the first line is, then both; the fifth character ends every sequence that was open, a line counts as far from where the cursor comes back to, and a scroll keeps distances |
| `Boot_proofs`: `TypesHold`, `DeliveredHolds`, `FrameHolds`, `OutputReadyHolds` | `TypeOK`, `Delivered`, `FrameIsContext`, `OutputReady` | `IInv`: for each step of `Program`, what the tables and registers hold once it is done, and how much of the frame is there at each point of a stub; a gate read back yields the address written, so none of a vector that may be raised is unusable, and none is entered as a double fault |
| `Log_proofs`: `ConsoleIsNotReentered` | `ConsoleNotReentered` | a call on top of another one is for the serial line alone, so a call at the console is the only one |
| `LogTypes`, `LinesAreComplete`, `CrComesBeforeLf` | `TypeOK`, `LinesComplete`, `CrBeforeLf` | what a call has put out, followed by what it still has to, is its line: each character leaves the one and joins the other, and a nested call's bytes belong to that call; the wire with the holding register and the half of a newline that is under way is a text with a CR in front of each LF |
| `TextIsLegible` | `TextLegible` | for any `Left` and any number of bytes in the FIFO; `UartInv`: the registers after each access of `Init`; at most one byte of the kernel's in a FIFO that is otherwise empty, noise only ahead of it; the line, the shift register and the FIFO in a row are what is due of the text |
| `Memory_proofs`: `TypeCorrect`, `WrittenHolds`, `SourceAheadHolds`, `StringsAreOrdered` | `TypeOK`, `Written`, `SourceAhead`, `OrdersStrings` | `IInv`: which loops each function may have left, and that the `i` bytes before the loop's position are as it will leave them, all others as at the call; a copy down reads above what it has written; for `strncpy`, no NUL was met in the "string" loop and one was in "pad"; for `strncmp`, the bytes before the loop's position are equal, and the difference it ends at, if any, is the first; C's order is decided there, unless both strings have ended before |

The theorems of `Cmos_proofs` assume `AllReadable`: 24-hour modes, or hours that
are not 0 modulo 12, the rest being what `cmos_noon` shows to fail.  `PixelsShowScreen`
assumes a font of at most eight pixels' width: a wider glyph is what `drawChar` reads
wrongly, and the kernel's font is eight wide.  The theorems about
`PanicConsole` are about calls with a text, not the empty one (`TextsAssumption`), and a
report whose characters are drawn as they are (`ReportAssumption`); `ReportIsLegible`
assumes a screen of more than one column, with three rows more than a scroll takes, and
an `ansiBuf` of more than one byte (`ReportFits`, which the run's instance meets);
`PrintfKeepsBounds` is about calls whose count is not more than the buffer has (`Fits`),
and any format; `sprintf` passes the largest count there is, and `SprintfKeepsBounds` is
about it.  That and `PrintfPrints` assume that every directive is one the code has the room
for and does not depart from C in (`AsInC`), and that the memory of a call has its count, or all
that it prints and a NUL (`FitsOrEnds`); the run checks that its instance meets both.

What is computed along a sequence (the parsers, a text's expansion, the string
functions) is written as a recursive function or a fold, and proved about with
`SequenceLemmas`: its induction is over a set of indices in place of an operator, and its
recursion theorem gives a recursive function its defining equation.

Only model-checked: liveness (`Progress`, `ReadReturns`, `FailureSettles`,
`BootCompletes`, `Returns`, `TextSent`), which is beyond the prover.

## Plan

Done: the lock, the clock, the panic path, the console by characters, by stores and by
pixels, boot with the descriptor tables and the exception frame, `log` and the serial
line, the string functions, `printf` without floating point; and a theorem for every
safety property of theirs.  Next: the sum over the memory map and the layout of the boot
message's box.

## Not modelled

- Floating point in `printf` (`_ftoa`, `_etoa`): the kernel is built without SSE, and no
  format in it uses them.
- `memchr` and `memcmp`: nobody calls them.  (`memcmp` returns in its first turn, and -1 if
  the bytes are equal.)
- What a number of eight digits or more does to `number[8]`, and what is drawn after a CUP
  to a place off the screen: undefined or up to the memory behind; the kernel sends neither.
- The text of `processAnsi`'s log.  Of an unknown sequence that fills `ansiBuf` to its 32nd
  character, `%s` is given no NUL and reads on into the fields behind it.
- Texts of `log` with a carriage return in them, of which there are none: `CrBeforeLf`
  tells the driver's from the text's by there being no others.
- Screens of fewer rows than a scroll: `bufferChars - kScrollAmount` is unsigned there.
- The sum over the memory map, the walk over the loader's tags (whether a tag is there is
  a choice of the model's) and the boot message's box; a loader that leaves out the
  memory map's tag, which `_start` does not check for.
- What the handlers' texts say; the font; the boot protocol's structures;
  single-instruction wrappers; the build.
