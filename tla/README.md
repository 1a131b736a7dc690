# A TLA+ model of chuckles

chuckles is a small i386 kernel: it sets up the processor's tables, the interrupt
controllers, the timer and the PS/2 keyboard, prints the memory map, and then
echoes what is typed. There is one processor and one thread; everything that
happens at the same time as something else happens because a device, an
interrupt handler or a non-maskable interrupt gets in between. That is what the
models are about.

Paths are relative to `src/`; `i386/` stands for `kernel/arch/i386/`.

## Inventory

| component | state it keeps | operations | models |
|---|---|---|---|
| interrupt dispatch: `i386/irq.c`, stubs `irq0..15` in `i386/isrirq.S` | `irq_routines`; the 8259 controllers; the frame on the stack | `irq_remap`, `irq_install`, `irq_install_handler`, `irq_uninstall_handler`, `irq_handler` | `Pic`, `IrqDispatch` |
| keyboard driver: `i386/ps2kb.c`, `libc/include/sys/kb.h` | `ps2kb_state`, `kb_map` | `ps2kb_init`, `ps2kb_handler` | `KbdDecode`, `Keyboard`, `Ps2Kbd` |
| PS/2 controller driver: `i386/ps2_controller.c` | `status`; the controller's output buffer | `ps2_read`, `ps2_write`, `ps2_init` | `Ps2Init`, `Ps2Kbd` |
| timer: `i386/timer.c` | `timer_ticks`, `seconds` | `timer_handler`, `timer_wait`, `timer_phase`, `timer_install` | `Timer`, `Ps2Kbd` |
| exceptions: `i386/isr.c`, stubs `isr0..31` in `i386/isrirq.S` | the stack | the stubs, `isr_common_stub`, `fault_handler` | `Faults` |
| text terminal: `i386/tty.c` | `terminal_row`, `terminal_column`, `terminal_buffer`; the display's cursor registers | `terminal_putchar_attr` and what it calls, `terminal_initialise` | `Tty` |
| key echo: `i386/shell.c` | none | `shell_key` | `KbdDecode` |
| boot and main program: `kernel/kernel/kernel.c`, `i386/boot.S` | the order of the initialisations | `kernel_early`, `kernel_main`, `current_test` | `Ps2Kbd` (the order), `Console` |
| descriptor tables: `i386/idt.c`, `gdt.c`, `tss.S`, `gdt_flush.S`, `idt_load.S` | `IDT`, `gdt`, `tss` | written once | `Descriptors` |
| formatted output: `libc/stdio`, `libc/stdlib/itoa.c`, `libc/sys/debug.c` | `itoa`'s static buffer | `printf`, `serial_printf`, `itoa` | `Console` |
| string functions: `libc/string` | none | `strlen`, `strrev`, `memmove`, ... | `Console` (the first two) |
| kernel log, port I/O, build | none | | not modelled |

How they interact:

* a device raises its line at the **interrupt controllers**; at the next
  instruction boundary with interrupts on, a stub saves the registers and calls
  `irq_handler`, which **calls back** the function in `irq_routines` and tells one
  or both controllers that it is done;
* `timer_handler` and `ps2kb_handler` are the two functions ever installed. The
  first shares `timer_ticks` with `timer_wait`; the second fetches bytes from the
  PS/2 controller with `ps2_read`, keeps the modifiers in `ps2kb_state` and hands
  an event to `shell_key`, which prints through the **text terminal**, which the
  main program prints through as well;
* `ps2_init` talks to the controller and to up to two devices by polling alone,
  with interrupts off, while requests latch behind its back; what it leaves in
  the controller is where `ps2kb_handler` begins;
* `printf` in the main program and the traces of the handlers share the static
  buffer of `itoa`;
* an exception goes through its own stubs to `fault_handler`, which prints and
  never returns.

What is hard about it, and what makes each component correct:

* *interrupt dispatch*: requests come and go between any two steps; a command to
  a controller retires whatever is most urgent there. Correct if nothing stays in
  service that nobody will retire, the table is indexed in bounds, and every
  request is served in the end.
* *keyboard*: frames of one to three bytes pass through a buffer of one byte and
  an edge-triggered line, are read partly by interrupt and partly by polling, and
  drive flags that two keys may share. Correct if each frame is decoded once,
  whole and in order, no byte waits unannounced, and no modifier is on that
  nobody holds.
* *PS/2 controller driver*: it polls for each answer without bound, counts on
  answers in a certain order, sends two commands for the controller to a
  device, and gives others without waiting for the controller to take the last
  one. Correct if it returns, and leaves the keyboard's interrupt on, the
  mouse's off, translation off, and the devices and itself in step.
* *formatted output*: a number is converted up to three times into a buffer that
  a handler may overwrite in between, while it is printed character by character.
  Correct if what is printed denotes the number, as far as the buffer allows.
* *descriptor tables*: bases, limits and attributes are scattered over 64 bits
  that only the processor reads. Correct if it reads what was meant.
* *timer*: a tick may fall between any two steps of a wait, also between the
  comparison and `hlt`; the count wraps around. Correct if a wait is neither short
  nor late by more than the unavoidable, and ends.
* *exceptions*: some push an error code; a non-maskable interrupt comes at any
  moment. Correct if `struct regs` lies on the right words and the report is true.
* *terminal*: it is preempted between any two of its memory accesses and keeps
  copies in registers. Correct if the position is off the screen for no longer
  than between a store past the edge and the next one, and damage does not last.

## The modules

| module | what it is |
|---|---|
| `Pic` | the pair of 8259s as `irq_remap` programs them: pure operators on a record of latched requests, requests in service and line levels. The vectors, the cascade and the mask are `irq_remap`'s; how the chips work is external |
| `IrqDispatch` | the interrupt path, one action per step of the stub and of `irq_handler`; devices raise and lower lines at any time |
| `KbdDecode` | pure: what `ps2kb_handler` makes of a frame, what `shell_key` prints, when the bytes read so far are a frame |
| `Keyboard` | the abstract keyboard driver: one step per frame |
| `Ps2Kbd` | the concrete one: boot order, serial line, output buffer, interrupt path, both handlers, byte by byte. It composes `IrqDispatch`'s actions and implements both `IrqDispatch` and `Keyboard` |
| `Timer` | `timer_handler` and `timer_wait`, statement by statement, in phases of a tick |
| `Tty` | `terminal_putchar_attr` access by access in the main program, and in one piece in a handler |
| `Faults` | exceptions and NMIs, the words on the stack |
| `Ps2Init` | `ps2_init` command by command, the controller, and its devices |
| `Console` | `printf`, `itoa` and `current_test`, with the handlers' traces in between |
| `Descriptors` | pure: segment descriptors and interrupt gates as sets of bits, and how the processor reads them |
| `MC*` | the same with definitions for TLC's constants |
| `*Proofs` | the theorems |

An operator whose comment begins with "Fault" is not part of a specification. It
is a plausible bug in the definition that follows it; each property of a passing run has
been seen to fail when such a bug takes the place of the definition.

### IrqDispatch and the code

`pc` is where the processor is: `main` (any interruptible program), `inta` (the
acknowledge cycle), `irq_handler` (up to the lookup), `handler` (the installed
function), `eoi_slave`, `eoi_master` and `iret`. `int_no` is `regs.int_no`.
`Accept` and `Enter` are two steps because what the processor saw and what it
acknowledges may differ: a more urgent request may have come, or the one it saw
gone, in which case the controller answers with line 7 or 15 and no bit in
service. `BoundCheckFails` keeps the code's comparison, which lets 16 through.
The trace that `irq_handler` writes to the serial port is left out.

The field `keeps` of the controllers names the two machines of the repository's
scripts. `qemu.sh` runs on KVM's controllers, which keep a latched request when
its line drops; `bochs.sh` runs on Bochs', which withdraw it. The driver behaves
differently on the two; every run and proof is about both, and a property that
holds on one only says so.

### Keyboard, Ps2Kbd and the code

A key is a record `[ext, code]`, a frame adds `down`; a character is named by
the cell of `gb` it is read from. `ModifiersAfter` is the two switches one after
the other, `EventOf` the rest of the handler up to `shell_key`. `mods` is the set
of the fields of `ps2kb_state` that are true. `held` and `frames` are the world's:
which keys are down, which frames are not decoded yet. `seen` and `parted` are
history: which keys are down as far as the decoded frames say, and whose twin (the
key of the same code behind E0, or in front of it) came up since their last frame.
`HeldModifierReported` needs the latter to say that this is the one way a held
modifier is lost: lctrl and lalt, which both keys of a pair drive, go off when the
other one comes up, and so does a shift when a navigation key sends its fake shift;
rctrl and ralt, which one key drives, are never lost, and the next typematic repeat
brings back the others.

In `Ps2Kbd`, `ReadScancode` is one call of `ps2_read` in the handler: it is
disabled while the buffer is empty, which is the polling loop, and interrupts are
off meanwhile. `Decode` is the rest of the handler. Of `ps2_init` only the last
command (0xF4) and its polled answer are kept: polling the answer leaves a request
latched that nobody has asked for, which is what matters to the rest.

### Timer, Tty, Faults and the code

`Timer` makes a period of the timer `Phases` long, so that a call may fall
anywhere in it. Time passes while the serial output of the loop is written and
while the processor sleeps; between the end of `hlt` and the comparison after it
no time passes, as these are a few instructions. The kernel does not call
`timer_wait` yet; the model is of its promise to whoever will.

`Tty`'s main program does the accesses of the optimised build (`config.sh` asks
for -O2), where row and column are read once each, kept in registers, and compared
there. It does every store of the source: in the last column `StoreColumn` stores
`terminal_column++` (`i386/tty.c:100`), `Width`, and `ResetColumn` the 0 of line
103; in the last row `StoreRow` stores `terminal_row++` (line 104), `Height`, and
`ResetRow` the 0 of line 108. A compiler may drop the first store of each pair, as
nothing in the function reads it: gcc 12 at -O2 compares the register before it
stores, and stores the 0 only. The model keeps them. A build without them has no
other behaviours: it takes the model's two stores in one go, which is the model
without a handler between the two. With a handler there, the position is off the
screen: `Interrupt` puts its character at `row * Width + column` wherever that is,
compares for equality, steps over the edge and goes further out with each
character; `Beyond` bounds how far. `CursorOnScreen` says that this is the one
window, that it closes with the main program's next store, and that the main
program itself neither reads nor prints at a position off the screen. Words
further out than the one behind the screen are not part of the model, as nothing
reads them; what a handler does to them is in finding 2.

The `outw` to the cursor's index port writes the data port with its high byte, 0,
and the model does too.

`Faults` keeps the stack as words with a name for what was pushed, so that a field
of `struct regs` that lies on the wrong word shows. Interrupt gates clear the
interrupt flag, so of all interrupts only an NMI can nest; the processor then
holds further ones back until an `iret`, and there is none.

### Ps2Init and the code

`line` is the line of `ps2_init` to be executed next. A call of `ps2_read` is
disabled while the output buffer is empty, and takes whatever byte comes next.
`ps2_write` goes to the data port whatever its caller meant, so that the bytes
0xAD and 0xA7 of the lines commented "Disable 1/2" reach the keyboard, which
answers them with a resend, and no port is ever disabled. Bit 5 of the
configuration byte decides whether the driver takes the controller for one of two
channels. Keys may be pressed throughout.

A `machine` is one of `MachineType`. `late`: devices and controller are ready
before the driver's next step, or whenever they like. `queues`: a reply finds room
behind a full output buffer, as in QEMU, or is lost. `keyboard` and `mouse`:
each works, or is not there (`silent`); the keyboard may ask for every byte again
(`refuses`), the mouse may say nothing to a byte it does not know (`ignores`).

A controller that is late and does not queue is `Slow`, as hardware is: it has one
input buffer, and is `busy` from a byte written to it until it takes it (`Take`);
only then is its `reply` in the output buffer, so that the reads at 65, 118, 125,
140, 152, 159, 166 and 255 wait for it. `ps2_write` and the lines 84 and 244 wait
until it is not busy. A bare `outb` to the command port does not: while the
controller is busy the command is lost. Where the lost command is 0xD4 or 0x60, the
byte that follows is taken for the keyboard (`Astray`, `MissConfig`).

What the model showed beyond the properties, none of which contradicts a document
of the repository:

* With prompt devices and one channel every command finds its answer, and the
  buffer is empty when `ps2_init` returns (`InStepAtReturn`). This is where
  `Ps2Kbd` begins.
* With two channels the mouse's answer to its reset (AA, 00) may stay in the
  buffer, with the mouse's interrupt off, and the keyboard may be identified by it.
* Line 190 polls for the answer of a mouse without bound, and yet returns without
  one: the keyboard's resends to 0xAE and its reset leave an answer over, which is
  read for it. `InitReturns` shows it for every machine with a keyboard that works.
* With no keyboard, or one that takes no byte, the boot ends at the read in line
  178, 195 or 200, which waits for an ACK (`InitReturns`, second half).
* A key typed while `ps2_init` runs may be taken for the configuration byte. The
  bits it sets and clears before it writes the byte back are right all the same,
  which is `OnlyKeyboardInterrupts`; but bit 4, which stops the keyboard's clock,
  may come from a scancode, or, with late devices, from a late answer. This is why
  `KeyboardLeftOn` and `InStepAtReturn` are about prompt devices and no typing.
* On a slow controller a command may be lost, because it was given while the last
  byte was not taken, or its reply, because a late answer fills the buffer; the
  driver then waits for the reply in vain. This is what
  `config = ps2_read(); // BLOCKING HERE` (`i386/ps2_controller.c:140`) records:
  line 139 gives 0x20 right after 0xA8 was written, without waiting. The model and
  the comment agree, so there is no finding in it. All of the eight reads of a
  controller's reply can be waited at that way, and `InitReturns` says that the
  driver is held up at no other line.

### Console and the code

`line` is the line of `kernel.c` to be executed next, `call` what is left of the
format and the arguments of the call of `printf` under way, `conv` how far its
`%d` is: `itoa` is called for the pointer, again for the length, and a third time
for the return value, which nobody uses and which is left out. Each store of
`itoa` and each character printed is a step, and `Interrupt`, a handler's whole
trace, comes between any two. `ps2_init` and `shell_key` print with interrupts
off; they stand for `serial_printf` and for the remaining directives. `kernel_main`
prints line 52 itself and calls `current_test`, `line` 66 to 85; 61 is the loop of
`kernel_end`, in which only handlers run.

What the module assumes of its constants is true of the kernel: a word is one of
an even number, and `itoa`'s buffer has room for the digits of the least `int`; an
entry of the memory map is led by its size, of at least 20 bytes and a multiple
of 4, and the map is smaller than the address space (the boot loader's promise;
`current_test` checks nothing); each call's directives have their arguments, and
none mixes numbers, characters and strings, as no call in the repository does;
what handlers write, vectors, lines and scancodes, is not negative. The NUL at the end of
`%x`'s own buffer is not kept: the buffer is on the stack, and `print` is told the
length. `itoa` and `strrev` give the whole text by their loops' recurrences.

`DecimalRight` says what is true of `%d` under interrupts: length and sign are
the number's, and so are the leading digits, down to the length of the longest
number a handler has written. A memory size of 639 can be printed as 630 when the
timer's interrupt comes in between. Further observations, on which no document
says otherwise: `%x` prints a word without the Fs at its front (0xFFFC0000 as
C0000, -1 as nothing); `current_test` announces the length of the map over the
size of its first entry, which is one too many from five entries on; the high
word of an address is shifted by 4, the size of an `int` in bytes, not 32.

### Descriptors and the code

A word is the set of its bits, so that `&` and `|` are intersection and union. The
operators down to `IDT` are the code's; `Base`, `Limit`, `Attributes`, `Offset`
and the rest are the processor's reading, which is external. There is no state:
the tables are made once, before `sti`. `MCFaults` lets TLC evaluate the module's
three statements on a few words; the theorems are about all words.

## The runs

| run | bounds | shows |
|---|---|---|
| `IrqDispatch` | lines 0, 1 and 8; one handler function | no orphan in service, lookup in bounds, requests drain, the timer's line is served, on both machines and after spurious interrupts |
| `Keyboard` | A, both controls, shift and fake shift, GUI, an arrow, a function key; 2 frames under way | no phantom and no stuck modifier, a held one lost to its twin only; physical and decoded keys differ by the frames under way; no character under control |
| `Ps2Kbd` | both controls; 2 frames under way | byte-exact framing, each byte announced, `Keyboard` and the steps of `IrqDispatch` implemented, on both machines; where a request goes with its line, the handler has data when it starts and returns |
| `Timer` | word 16, second 5, 2 phases, output up to 3 phases, waits of -1, 0, 1, 3 ticks, 36 ticks in all | the seconds keep up; waits are not early, not late, and end |
| `Tty` | a screen of 3 x 2; a handler starts at most two places outside it (`Beyond`) | the position leaves the screen in the one window only and is back with the next store; an undisturbed page shows its text; the cursor recovers |
| `Faults` | all 32 vectors, three values of low memory | frame layout, true reports, always a report |
| `Ps2Init` | two bytes of keys; one channel or two; every machine but slow controllers without a keyboard that works | `ps2_init` returns, or waits for a reply of a slow controller, or for a keyboard that is not there; only the keyboard's interrupt is on; a keyboard that works is on; with prompt devices and one channel, driver and devices are in step |
| `Console` | words of 12 bits, 4 digits; maps of 1 to 6 entries, two sizes of entry; three traces | each entry listed once, in order; `%x` right for all signs; `%d` right but for the digits a handler has overwritten |
| `Ps2Kbd_timer`, `Timer_period`, `Tty_cls`, `Faults_nmi` | as above, or smaller | the findings below: each violates what a document or a comment says |

Why the bounds are enough:

* Lines 0, 1 and 8 are the most urgent one, one behind it on the same controller,
  and the first of the slave, whose vector 40 is the boundary of the comparison
  that sends the slave its command. More lines add more of the same ranks. A
  second handler function would change nothing: `irq_handler` only tells a null
  pointer from the others.
* The two controls have frames of one, two and three bytes, one a suffix of the
  other, and share a field. Two frames under way are one being read and one
  behind it; the buffer holds one byte of either. The theorems have no bound.
* Word 16 and second 5 wrap around twice in 36 ticks and, like 2^32 and 100, do
  not divide. A wait of 3 can be overtaken by the wrap during 3 phases of output.
  Two phases to a tick tell "at once" from "a whole period".
* The screen has an inner column, a last one and a last row. A cursor register of
  base 3 makes both bytes change. From outside the screen a handler goes on to the next
  place or back, two places out as well as three. The theorems are for every size of
  at least 2 x 2, and for every bound on how far out handlers start.
* Slow controllers without a keyboard that works are left out of the run of
  `Ps2Init` because nothing is claimed of where the driver ends on them; the other
  properties are proved for them, too.
* Two bytes of keys during `ps2_init` are enough to lie in front of an answer and
  behind it, or to fill the buffer and wait on the wire.
* A word of 12 bits has negative and positive numbers of one to three hexadecimal
  and one to four decimal digits. The traces have numbers of one and two digits,
  shorter than, as long as, and longer than some number being printed. The largest
  map has one entry more than the announced number gets right.

`CHECK_DEADLOCK FALSE` is only in `Faults` and `Faults_nmi`, where the system
halts for good, and in `Ps2Init`, which is over when `ps2_init` has returned.

### Fairness

* `IrqDispatch`: `WF(Interrupt)`. The processor executes the path it is on, and
  recognises a request it sees while interrupts are on. Handlers are assumed to
  return; `Ps2Kbd` shows where that is true. Devices and the main program owe
  nothing, and `RequestsDrain` is conditional on interrupts being on and the
  devices falling silent.
* `Ps2Kbd`: weak fairness of the boot sequence and of the processor, of the
  controller passing on a byte (hardware), and of the square wave, which
  `timer_phase` leaves running. Nobody has to press a key. Nothing makes the
  processor fast enough for two endless sources: `FramesDecoded` assumes that it
  has a moment without an interrupt again and again.
* `Timer`: weak fairness of the loop's statements; strong fairness of time, since
  other interrupts may end `hlt` over and over, each time for a moment only.
* `Faults`: weak fairness of the handling. At most one NMI can come in between.

* `Ps2Init`: weak fairness of `ps2_init`'s steps (nothing else runs: interrupts are
  off), of the controller passing on what a device has sent, and of its taking what
  was written to it (`Take`). Nobody has to type.
* `Console` has no liveness property and states no fairness.

## What is proved

The proofs hold for every value of the constants that satisfies the modules'
assumptions.

| theorem | says | argument |
|---|---|---|
| `IrqDispatchProofs!TypeCorrect`, `NothingOrphaned`, `LookupSafe` | `TypeOK`, `NoOrphanInService`, `LookupInBounds`, for any lines and handlers, on both machines | `IInv` adds `FrameHasVector`: anywhere on the path `int_no` is the vector of a line. Without it `Dispatch` might take the exit of the failed bound check, which skips both commands. That the remapped vectors are distinct, that the slave's are the ones from 40 on, and that a non-specific command retires the right bit, are lemmas |
| `KeyboardProofs!TypeCorrect`, `NoPhantom`, `HeldReported`, `CatchesUp`, `NothingStuck` | `TypeOK` and the four invariants of the modifier flags, for any set of keys and any number of frames under way | `HeldReported` needs the step of `parted` beside that of `seen`. `CatchesUp` needs `LastFrameIsTrue`: the last frame of a key under way says whether it is down. `NothingStuck` follows from the others. The lemma `ModifiersAfterIs` says what the two switches come to |
| `KeyboardProofs!CharOnly` | the action property `CharOnlyUnmodified`, for any set of keys | a step that prints is `Decode`; the frame's key and the flags after its two switches are compared case by case with the cells `EventOf` reads |
| `Ps2KbdProofs!TypeCorrect`, `InSync` | `TypeOK` and `FrameSync`: the bytes read, buffered and on the wire are the frames to be decoded, cut where frames end, for any number of them | `FrameSync` says where each frame ends among the bytes. A byte passed on or read moves no cut; a new frame adds one at the end (`EncodesOneMore`), `Decode` takes the first away (`EncodesRest`). `ScanInFrame` adds that the bytes read are of the first frame; that the handler stops reading just where it ends is `WholeIs`, and needs that no key's code is a prefix (`KeyType`) |
| `Ps2KbdProofs!NeverMute`, `NoEmptyRead` | `ByteAnnounced`, `HandlerHasData`: no byte waits unannounced, on both machines; where a request goes with its line, the handler finds a byte when it starts | `LineFollowsBuffer` and `Announced`: the line is high just while there is a byte, and a byte whose request is latched no more has the handler in service that has read nothing yet |
| `Ps2KbdProofs!KeyboardPromise` | `ImplementsKeyboard`: the byte-exact keyboard is a `Keyboard` | initial states to initial states; `Decode` of a whole frame is `Keyboard`'s step by `FrameSync`, pressing and releasing a key its other two, all else a stutter. `NothingStuck` is carried over by it |
| `Ps2KbdProofs!DispatchSteps` | the safety half of `ImplementsDispatch` | each action of `Ps2Kbd` is an action of `IrqDispatch` or a stutter. `NothingOrphaned` is carried over by it |
| `TimerProofs!TypeCorrect`, `SecondsRight` | `TypeOK`, `SecondsKeepUp`, for every word size and frequency | that the seconds keep up is not inductive; `Counted`, which gives count and seconds as functions of the ticks there have been, round by round of the count, is |
| `TimerProofs!NotEarly`, `NotLate` | `WaitNotEarly` (an action property) and `WaitNotLate`, for every word size, period and output time | `Marked` ties the mark to the moment of the call, `OnTime` says for each statement of the loop how late the wait may be there; that the count has reached the mark tells that the ticks have passed unless the mark wrapped around (`ReachedMark`) |
| `FaultsProofs!TypeCorrect`, `FieldsInPlace`, `Truly` | `TypeOK`, `FrameLayout`, `ReportedTruly`, for any contents of low memory and an NMI at any moment | `ProcessorsPart` and `FrameBelow` follow the frame as it grows: what the processor pushed, what the stub added, what `isr_common_stub` added. An NMI begins another above it |
| `TtyProofs!TypeCorrect`, `CursorStaysOnScreen` | `TypeOK`, `CursorOnScreen`, for every screen of at least 2 x 2, with every store of the source and a handler printing at any access | the copies in the registers are on the screen, too; in the two windows the row or column may be anywhere, and what is stored at their end is a constant, or a copy compared with the edge |
| `TtyProofs!CursorRight` | `CursorShown`: a character that was not preempted leaves the cursor where the next one goes | `Fresh`: unless a handler came in between, the copies in the registers are still what they are copies of |
| `TtyProofs!ScreenRight` | `ScreenShowsText`: an undisturbed page shows its text, for every size of screen and every text | `Screen` says, for each access, how far screen and position are from what the text printed so far calls for. `PositionIn` and `Layout` are recursive functions on the length of a text; what they yield for a longer text is proved by `LeastElement`, the least length at which the claim fails |
| `Ps2InitProofs!TypeCorrect`, `InterruptsRight` | `TypeOK`, `OnlyKeyboardInterrupts`, on every machine, slow controllers and missing devices included, for any keys typed at any time | from the reading of the configuration at line 166 on, the keyboard's bit is in `config`, whatever byte was taken for it; no answer read up to line 239 is stored there; after the last writing no command changes those bits |
| `Ps2InitProofs!KeyboardOn`, `InStep` | `KeyboardLeftOn`, `InStepAtReturn`, on every machine | `QuietInv` follows buffer and queues line by line while the devices are prompt, the keyboard works and nobody types; `Prompt` says that the controller is then never busy (`Prompts`: so no command is lost). `Preparing`: up to line 172 each answer is the one waited for, or the mouse's resend to line 137 puts the driver one byte behind; what it then takes for the configuration is without bit 4 all the same, hence `ClockRuns`. `Answering`: with one channel, the first byte read after the reset is the one left over (a byte behind, or the resend to line 172), the second read finds the reset's own answer, the command 0xF5 makes the keyboard drop what is left of it, and from line 197 on nothing is left between commands. `Untried`, that nothing was retried up to line 177, keeps the count below the limit of three |
| `ConsoleProofs!EntriesRight` | `EntriesListed`, for every memory map whose entries are led by their sizes | `Walk`: `mm` is the sum of the sizes of the entries before the `i`-th (`Ends`), the lines listed are those of these entries, and where `line` may be. `MapIs` says that the words of the map in a row are its entries one behind the other, `FieldIs` that `mm` therefore reads an entry's fields |
| `ConsoleProofs!TypeCorrect`, `DecimalsRight`, `HexadecimalsRight` | `TypeOK`, `DecimalRight`, `HexadecimalRight`, for every number of machine words, every call, and handlers storing any numbers at any moment | `Printing`: the call's directives still have their arguments, and the buffer and what is printed are as far as `conv` says (see below); the last number converted is right |
| `FaultsProofs!DescriptorKeepsFields`, `KernelSegmentsFlat`, `EveryGateEntersItsStub` | what `create_descriptor` packs is what the processor reads, for every base, limit and flag word; the selectors in use name flat segments of the kernel; the gates of the 48 stubs, and no others, lead to them with interrupts off | `create_descriptor`'s word is characterised bit by bit, and each field read back by `ShrMember`, the lemma about shifts; the tables follow by instantiation. This is what the other modules take for granted when an exception or an interrupt enters its stub |

How `DecimalRight` is proved, the longest of the arguments. `Conversion` is its
invariant: at each store and each character printed, the cells stored
so far hold the number's text but for the last `touched` of it, none of them is a
NUL, and what has been printed is the text's beginning, with the same exception.
`Overwritten` is the handler's step: a number of so many characters changes the last so
many cells, and a number printed in between is of the same kind. The length is
always that of the number itself, because `itoa` is called for it and no cell of the
text is ever NUL. What the text denotes (`Value`) is a matter of the recursive
functions `Divided` and `Power`; facts about them are proved by `Induction` over a
*set* of numbers, which the provers can instantiate where they cannot an operator.
C's division and remainder of negative numbers are lemmas of their own, and so
is that `strrev`'s exchanges reverse a text of any length.

What stays with TLC:

* All liveness properties (`RequestsDrain`, `TimerLineServed`, `FramesDecoded`,
  `WaitEnds`, `AlwaysReported`, `InitReturns`) and the fairness in
  `ImplementsDispatch`: the proof system does not reason about `ENABLED`.

## Findings

1. **The keyboard handler can stop the kernel until the next key**
   (`Ps2Kbd_timer`). The bytes of a frame behind the first are polled inside the
   handler, and each latches one more request. Where the controller keeps it, the
   handler is entered with nothing to read and `ps2_read`
   (`i386/ps2_controller.c:26`) polls with interrupts off. Boot ends that way,
   too: the polled answers of `ps2_init` leave a request behind. `README.md:42` has
   "instead of polling" as done, and `README.md:47` the timer.
2. **`terminal_cls` blanks one word too many** (`Tty_cls`, `i386/tty.c:79`). It is
   no more than one (`TypeOK` bounds its index), and the main program's characters
   are on the screen (`CursorOnScreen`). In a build that keeps the stores of the
   lines 100 and 104, a handler that prints between one of them and the 0 that
   follows writes behind the screen as well, further out with each character.
3. **Exceptions 2 to 9 are reported as something else** (`Faults_nmi`,
   `i386/isrirq.S:52`): `push 2` for `push $2`.
4. **`timer_wait` may be short by a period** (`Timer_period`), for all that its
   comment says "(ticks * 10) ms". It is short by less than a period, unless the
   mark wraps around (`NotEarly`).

## Plan

The core came first: the interrupt path, because every other component runs on
it; then the keyboard on top; then the timer, the terminal and the exceptions;
then `ps2_init`, formatted output and the descriptor tables. Every invariant and
every action property of the runs has its theorem. Still to do: the key echo and the
main program's text on `Tty` at once, with the characters taken from `Keyboard` and
`Console`.

## Not modelled

* The build, the linker script and `boot.S`, which only sets the stack up: no
  behaviour at run time beyond what the models start from.
* The set-up of the serial port and the waiting for its transmitter: pure I/O.
* `memmove`, `memcpy`, `memcmp`, `strcpy`: single loops that nothing in the kernel
  calls; `memset`, called twice on whole tables, is in the tables' initial
  contents; `strdup` is unfinished, as its comment says.
* The log levels: stateless, and called by nothing.
* Colours and the cursor's shape: no property is about them. The two arguments of
  the colour helper are the other way round in `terminal_putchar`
  (`i386/tty.c:126`) and in `vga.h:31`.
* `puts`, and the exits of `printf` for a failing `print` or an overflowing count:
  no caller can reach the latter.
* The task state segment's contents: nothing leaves privilege 0.
* `cpu_string.c`, `abort.c`, `io.h`: single instructions.
