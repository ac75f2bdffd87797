# A verification development for the JOS kernel (lab 1)

The repository is the first laboratory of MIT's JOS: a boot loader, a kernel that
initialises a console, prints, and runs a monitor on it, a debugging-information
reader, and the library they share. There is one processor, interrupts are never
enabled (`boot.S` executes `cli` and no interrupt table is loaded) and there are no
processes. What runs concurrently is the kernel and its devices: serial port,
keyboard, printer, disk drive.

This directory holds TLA+ modules that model that code, the TLC configurations that
check them on small instances, and theorems checked by TLAPS for every value of the
constants. `PROJECT.json` maps every definition to the lines it stands for and lists
the hazards, the runs and the theorems.

## 1. Inventory

| Component | State | Operations | Hard behaviour | Correct when | Modules |
|---|---|---|---|---|---|
| Console input, `kern/console.c` 29-76, 363-425, 436-465 | `cons` (`buf`, `rpos`, `wpos`), `serial_exists`, device registers | `cons_intr`, `serial_proc_data`, `kbd_intr`, `cons_getc`, `getchar`, `cons_init` | bytes arrive between any two steps; no check for a full buffer; two indices that wrap in two functions; polling without a bound | the buffer is a queue in arrival order; an overrun loses only whole buffers; all is given out once the devices are silent | `CharQueue`, `ConsInput`, `ConsInputHist`, `InputProofs` |
| Keyboard driver, `kern/console.c` 226-361 | static `shift` | `kbd_proc_data` | keys of two bytes, interrupted between them; keys sharing codes; pairs of modifiers | each key struck gives its character, in order; no modifier sticks | `Keyboard`, `Kbd`, `InputProofs` |
| CGA display, `kern/console.c` 128-209 | `crt_buf`, `crt_pos` | `cga_init`, `cga_putc` | wrap, scroll and erase by arithmetic on one position | writes stay on the page; it behaves as a page of lines with a cursor | `Terminal`, `Cga`, `MonitorProofs` |
| Console output, `kern/console.c` 65-121, 427-455 | waits, the devices' registers | `cons_putc`, `serial_putc`, `lpt_putc`, `cputchar` | slow or absent devices; recursion for tabs | three devices get the same characters in order; a call ends | `ConsOutput`, `MonitorProofs` |
| Line editor, `lib/readline.c` | static `buf`, `i` | `readline` | a full buffer; stale contents; echo and buffer must agree across wraps | the screen shows the line that is held | `Readline`, `MonitorProofs` |
| Debug information, `kern/kdebug.c` | locals of one call | `stab_binsearch`, `debuginfo_eip` | binary search over entries of which few count; duplicates; `addr + 1` | the search brackets the address and ends; the function reported holds it | `DebugInfo`, `DebugInfoProofs` |
| Monitor, `kern/monitor.c` | `argv`, `argc`, the line, the stack of frames | `runcmd`, commands, `mon_backtrace`, `monitor` | splitting in place; a full vector; a walk over saved frame pointers; nesting through `_panic` | a command gets the words of the line; a backtrace lists the callers; there is a prompt again | `RunCmd` (the parser), `Monitor`, `MonitorProofs` |
| Boot loader, `boot/main.c`, `boot/boot.S` | memory, the drive | `bootmain`, `readseg`, `readsect`, `waitdisk` | whole sectors read over their neighbours; header read while memory is filled | memory is as the kernel was linked | `BootLoader`, `BootLoaderProofs` |
| Kernel start and panic, `kern/init.c`, `kern/entry.S` | BSS, `panicstr` | `i386_init`, `_panic`, `_warn`, `test_backtrace` | nothing may be used before the BSS is cleared; `_panic` never returns | the BSS is zero, nothing else is; the first panic is the one reported; none returns | `Monitor`, `MonitorProofs`, `BootLoader` (BSS) |
| Formatted output, `lib/printfmt.c`, `kern/printf.c` | flags of a conversion, argument list, `struct sprintbuf` | `vprintfmt`, `printnum`, `vsnprintf`, `cprintf` | flags that change what the next number means; sizes and signs; backing up over an unknown sequence; truncation | each piece of a format prints what it means, for its own arguments; nothing is written behind the buffer; a number reads back | `PrintFmt`, `ReadBack`, `PrintFmtProofs` |
| String library, `lib/string.c` | memory | `memmove`, `memset`, `strlcpy`, `strtol`, ... | overlap, alignment, the direction flag, terminators, signed characters | agrees with a reference definition; a move reads nothing it has overwritten | `StrLib`, `StrLibProofs`, `StrTol` |
| Linked lists, `inc/queue.h` | links | `LIST_*` | pointers to pointers; a loop whose body changes the list | a sequence, in both directions; a loop misses nothing | `ListSeq`, `ListQueue`, `ListQueueProofs` |
| Network client, `lib/nsipc.c`, `lib/sockets.c` | one request page, the page at `REQVA` | `nsipc` and its callers | a page shared with the server while it is used; replies from anyone; errors and unchecked sizes passed to `memmove` | a reply belongs to its request; only an error stops a call whose sizes are in bounds | `NsIpc`, `NsIpcProofs` (not compiled at this commit) |

Headers (`inc/mmu.h`, `x86.h`, `elf.h`, ...) hold constants and one-instruction
wrappers; scripts and makefiles keep no state of the system.

### How components interact

- `readline` calls `getchar`, which polls `cons_getc`; `cons_getc` calls `serial_intr`
  and `kbd_intr`, which call `cons_intr` with a function that reads one device.
- All output goes through `cputchar` to `cons_putc`, and from there to three devices.
  `cga_putc` calls `cons_putc` again for the blanks of a tab.
- `monitor` loops over `readline` and `runcmd`; `runcmd` splits the static buffer of
  `readline` in place and passes pointers into it to a command.
- `mon_backtrace` walks the frames and calls `debuginfo_eip` for each of them, which is the
  only caller of `_panic`: for an address outside the kernel.
- `_panic` enters `monitor` for ever, on the stack of what has panicked.
- `bootmain` fills memory, `entry.S` sets up the stack and `i386_init` clears the BSS,
  on which every static variable above relies.

## 2. Modules

Each module says at its top what it leaves out. Names of actions are names of the C
functions or of the step of them that the action stands for. An operator marked
"Mutant" is a variant of the definition below it, with a plausible bug; no
specification uses it.

**`CharQueue`** is the abstract console buffer: a queue of at most `Capacity`
characters that forgets everything when one more arrives. **`ConsInput`** is the
code: `buf`, `rpos`, `wpos` and a program counter. `cons_intr`'s loop is one action
per turn (`serial_proc_data`, `kbd_proc_data`) and one for its end; `cons_getc` then
takes a character (`grab`) or does not (`grab_none`, after which `getchar` calls it
again). Bytes arrive at any time: the serial receiver holds one and overruns, since
the FIFO is off; the keyboard controller holds `KbdDepth`. Each keyboard element is
the result of `kbd_proc_data`, 0 included. **`ConsInputHist`** adds history
variables: what was accepted, what was returned, whether the buffer was ever
overrun. They restrict nothing but the number of arrivals.

**`Keyboard`** is a keyboard as its user sees it: events of keys, characters by the
modifiers in force. **`Kbd`** is `kbd_proc_data`, one byte per step, with the flags
of the static variable as a set. Its tables are functions of a code, cut down to at least
one key of every kind of entry. Events waiting in `Keyboard` are the parse of the bytes on
the wire, with the 0xE0 that the driver has already read put back. `Keyboard` has a lock
for each key that toggles one: caps lock changes letters, the two others nothing.

**`Terminal`** is a page of lines and a cursor with a row and a column. **`Cga`** is
the flat array of the code and one position. `Shown(screen, c)` is the whole of
`cga_putc`, as a function so that a prompt or a tab can be composed from it; the
action `cga_putc(c)` applies it. **`ConsOutput`** extends `Cga` with the two slow
devices: one action for a turn of each wait loop, one for the end of each, and a
stack `todo` for the recursion of tabs. The histories `due` and `shown` are what the characters
given to `cputchar` are for a line and for a screen by themselves (`Sent`, `Shown`); `opc`
and `turns` are the place in `cons_putc` and the local `i` of the two waits. **`Readline`** extends `Cga` too: a step is
one character taken from `getchar`, its echo included. **`RunCmd`** extends `Readline`
with the argument vector: `runcmd` up to the lookup, one step per character, in the
buffer of the line editor.

**`Monitor`** extends `RunCmd` to the kernel from its entry: the BSS cleared, the recursion
of `test_backtrace`, the loop of `monitor`, lookup and commands, the walk of
`mon_backtrace`, and `_panic`. Its state is the stack `calls` of C functions, each frame
with its first argument, its caller and the frame pointer it saved, so that the walk
follows what the functions have saved and is compared with the functions that are
there. `runcmd` has no frame: the build inlines it in its one caller. `cprintf` is the
display after some lines of one text (`Lines`, `Says`), so that what is printed scrolls the
prompt of `readline` away as it does on the screen. Panics are numbered.

**`DebugInfo`** is one call of `debuginfo_eip`: a turn of the loop of
`stab_binsearch` is an action by the outcome of its comparison, the two searches are
told apart by the type in `pc`, and the returns are actions of their own. The tables
enumerated have the order a linker produces (`Entries`).

**`PrintFmt`** is one call of `vsnprintf`: a turn of the switch of `vprintfmt` is an
action, an argument is chosen when `va_arg` takes it. A format is composed of pieces
(text, conversions with their fields, sequences with no conversion; `IsPiece` says what may
stand in each); the program sees their spelling only, and `Meaning` says from the pieces
what should be printed. `cprintf`
differs in where the characters go (to `cputchar`) and in its result, which is always
0: `putch` of `kern/printf.c` line 13 increments the pointer to the count. **`StrTol`** is
`strtol` as a function, for a `long` of `LongSize` values; **`ReadBack`** applies it to what
`PrintFmt` prints, which translates in the other direction with code of its own.

**`StrLib`** is one call of a function of `lib/string.c`. `memmove` and `memset` choose a
unit and a direction and start a repeated string instruction, each turn of which is an
action on the registers; the loops over strings are actions by the outcome of their
test. `Filled` says what the memory should be from the memory the call found; `Legal` is what
a call may ask. `Char` is the `int` argument as the byte that is stored or looked for.

**`ListSeq`** is a sequence for each head; **`ListQueue`** has the pointers of `inc/queue.h`,
one action per macro, and a `LIST_FOREACH` whose body may use a macro once in a turn.
`owner`, `must` and `seen` are history. `Follow` is the list that the links describe.

**`NsIpc`** is an environment that calls the network server. The calls of `lib/nsipc.c` and
what `nsipc` does are translated; the two system calls, the server, and the other
environments are external, modelled as the code uses them. The server reads the request
in the page it shares with the client, at a time of its own. Data is the number and the
operation of the call it belongs to. Sizes are integers, from -1 on, that `memmove` takes
for a `size_t`: `copies` is a call that copies into the request page (`bind`, `connect`,
`send`), where a negative size stops the program, and one past the end of the page (`ROOM`)
lets it stop or go on; `send` asserts first, for a signed size, that it is less than
`LIMIT`. `Kills` and `AnyLength` are what `recv` and `accept` do not survive, or may not, when
they take their reply.

**`BootLoader`** is `bootmain` with a drive that runs on its own, to the clearing of
the BSS. A byte of memory is where it came from, so a property can ask for the right
byte of the image. `WellLinked` is what a linked image satisfies, in the physical addresses
(`Phys`) that the mask of `readseg` leaves: two segments whose addresses differ by
16 MB would be loaded over each other.

## 3. Runs

| Run | Question | Instance and why it is enough |
|---|---|---|
| `cons_input` | Is the buffer a queue? What can be lost, and is everything else given out? | 3 slots: 2 characters fill it, 3 overrun it. 7 characters: two overruns, or one and a wrap of both indices. Two characters tell orders apart. |
| `kbd` | Do scan codes give the characters of the keys, and does no modifier stick? | 9 keys: both control keys, shift, an alt key behind 0xE0, caps lock and num lock, a letter, two keys that share a code. 2 bytes waiting: a whole long key, or the second byte of one and a short key. |
| `cons_output` | Do three devices get the same characters, and does output end? | 3 lines of 2 cells, so the five blanks of a tab wrap twice, and anything behind them scrolls. Waits of 2 turns, so a wait succeeds at once, late or not. 3 characters, on an empty page or on a full one with the position in its last cell. |
| `monitor` | Does the screen show the line, does a command get its words, does a backtrace list the callers, what does a panic leave, and is there always a prompt again? | 3 lines of 2 cells, a buffer of 6: line and prompt wrap and scroll off the page, and the buffer gets full. Commands of one and two letters, 2 arguments beside the null pointer: lines have a word more than fits. `test_backtrace(2)`, so the walk sees its recursion; a stack on which a command panics, the monitor entered by that runs a command, and that panics again. |
| `debuginfo` | Does the search end and bracket the address? | Every table of 6 stabs (five kinds, 4 addresses, duplicates) and every address. |
| `printfmt` | Does a format print what it means, and does the buffer get what fits? | Every combination of flag, width, precision and size for `%d`, `%x` and `%s`, and every pair of two conversions or unknown sequences. Integers of 6 and 8 bits, with the least, the greatest and -1 of both; buffers of 0, 1, 4 and 16. `ReadsBack`: of what is printed, `strtol` reads the number, with base 10, 16, 8 or none as the conversion has it. |
| `boot` | Is memory as linked when the kernel starts? | Every well-linked kernel of one or two segments, sectors of 2 bytes, 12 bytes of memory: segments start and end inside sectors, share them, have a BSS or none. |
| `strlib` | Do the string instructions move and fill as if all was read first, and do the loops agree with their definitions? | 12 bytes, words of 4: regions of up to three words at every distance and every alignment, in both directions. Strings of up to 3 bytes with 0, a letter and a byte above 127, looked for as a byte and as a negative `char`. |
| `listqueue` | Are the lists sequences, linked in both directions, also under a loop that changes them? | 2 lists and 4 elements: an element has neighbours on both sides, and can leave for the other list and come back. |
| `nsipc` | Whose answer does a call return, and when does a call stop the program? | Packets of less than 2 bytes, a page with room for 2, sizes from -1 to 3: negative, empty, one that fits, the limit, one past the page; 3 calls and 2 messages from others, so an answer can be late for one call and for the next. |

Two runs end with a violation, each of one sentence of the code's own text.

- `cons_overrun`: `cons_getc` is to return "0 if none waiting" (`console.c:405`).
  After an overrun it returns 0 though characters arrived that nobody has read.
- `pad_right`: `-` is the "flag to pad on the right" (`printfmt.c:108`). A string is, but a
  number is padded on the left, with minus signs: `%-5d` of 3 prints `----3`.

Five more differences between the code and its text were seen and have no run.

- `ctlmap` enters `KEY_HOME` at 0x97 while home is looked up at 0xC7 as in the two other
  maps, so control with home gives no character. `Kbd` has the table as it is.
- The region of `stab_binsearch` "contains addr" (`kdebug.c:30-34`). After an exact match the
  search goes on for `addr + 1`, and ends at a stab of exactly that value.
- The search for a line number is not there (`kdebug.c:173-175` says "If not found, return
  -1"; 0 is returned and `eip_line` stays 0).
- "Space or zero padding and a field width are supported for the numeric formats only"
  (`printfmt.c:12-13`). The code has a width and padding for `%s` as well, and `PrintsMeaning`
  states what it does with them.
- "Too many arguments (max 16)" is printed for the sixteenth, because the null pointer
  needs a slot of `argv`.

`SearchBrackets` and `FunctionHoldsAddress` are stated apart from two cases. The
first is the search for `addr + 1` just described. The second is an address below the
first stab of the type: then the left end stays where the region began, `left <= right`,
and `debuginfo_eip` takes the file's own stab for a function, although lines 33-34 say
that `left > right` tells the caller. In a linked kernel the first function of a C
file begins where the file does, so the second case needs an assembly file.

What `NsIpc` says of a failed call is what the code does, not what it should do.
`nsipc_recv` passes a negative result to `memmove` as a size. `nsipc_accept` copies from
`REQVA` after an error too, where there may be no page, or one of an earlier call; if that is
a packet, its bytes are the length of the copy. After a message from another environment
every later call gets the answer of an earlier one. `DiesForErrorsOnly`, `OwnReply` and
`OneAnswerOwed` delimit the three.

`DiesForErrorsOnly` has sizes in bounds as its premise (`InBounds`), because the code does not
check them all. The assertions of `send` and `recv` compare a signed `int`: a negative size
to send passes, and `memmove` gets it as a huge `size_t`; a negative length to receive fails
the assertion for a reply that was a success. The length of a name is not checked in `bind`
and `connect`. The model has these calls, and the program stops in them, or may. Out of bounds
nothing is promised of it.

Deadlock is checked in the runs of `ConsInput`, `Kbd`, `ConsOutput`, `Monitor` and
`ListQueue`, which never stop. One call of `debuginfo_eip`, of `vsnprintf` or of a
string function, and the boot, do stop; `NsIpc` has a bounded number of calls.

### Fairness

- `ConsInputHist`, `ConsOutput`, `DebugInfo`, `PrintFmt`, `StrLib`, `BootLoader`: weak fairness
  of the steps of the kernel or of the processor as a whole. It never halts or sleeps, and
  one of its steps is enabled whenever a call is in progress.
- `Monitor`: weak fairness of `Kernel`, the steps that are not the user's nor a panic.
  `Running` spells it out with `kpc # "readline"` in the place of `ENABLED`: the kernel can
  move exactly when it is not waiting for a character. Were that not so, the run
  would report a deadlock. Nothing is assumed of the user.
- `BootLoader` assumes that the drive answers in the end: `waitdisk` has no timeout, and
  with a dead drive the boot does hang.
- Nothing is assumed of serial port, keyboard and printer. `OutputEnds` holds because the
  waits are bounded. `GetcharDrains` has the premise that devices fall silent: without
  it a device that always has data keeps `cons_intr` in its loop for ever, and no
  fairness of the code's would exclude that.
- `Kbd`, `ListQueue` and `NsIpc` promise nothing by themselves (they wait for a user, a
  caller or a server), so they have no fairness.

## 4. Proofs

Every theorem is for all values of the constants that the named assumptions allow, and so
for buffers, pages, tables, memories and behaviours of any size; the runs show the same
properties on one instance. A liveness conjunct of a specification is never used.

The prover has no induction over a predicate. Where a proof needs one, it takes the least
element of a set (`WFMin` with `NatLessThanWellFounded`) or of a counterexample; in
`PrintFmtProofs`, `Induction` says it once for any set of naturals, and `Recursion` that a
function defined by recursion exists and obeys its definition. Elsewhere, where the model
computed with recursion or a fold, it has a definition by quantifiers or a function on
naturals (`Thins`, `Parse`, `Follow`, `Says`).

### Console input: `InputProofs`

From `ConsAssumption`: at least two slots, a keyboard controller that holds something, 0 is
no character.

- `TypeCorrect`: `TypeOK` is inductive. That the indices stay in the array is `SuccInSlot`.
- `RingImplementsQueue`: the refinement of `CharQueue`. The mapping is `Window`, the
  characters from `rpos` to before `wpos` around the end of the array. `StoreIsPut` says
  that storing appends, or empties it when `Succ(wpos) = rpos`; `GrabIsGet` that taking a
  character is `Tail`.
- `NothingIsLost`, `LossIsWholeBuffers`: what is given out against what was accepted. Storing
  either appends to both or, when it overruns, takes `CONSBUFSIZE` characters from the end of
  one (`StoredIsGiven`). So the first invariant is inductive with the types, and the second
  extends the `skipped` of `Skips` by one entry, or cuts it.

### Keyboard: `InputProofs`

From `KbdAssumption`: a key has a code of 1 to 127 but 0x60, whose release would be 0xE0.

- `NoModifierSticks`. `NoStuckModifier` speaks of an idle keyboard; `KInv` speaks of the
  stream of bytes still to be obeyed. Its part `LastTells` is that the last event of a
  modifier in the stream, or the driver's flag when there is none, tells no more than the
  keys that are held; `WholeKeys`, that every 0xE0 is followed by a byte of its key, without
  which a step of the driver could take the second byte of a long key for a short one.
- `KbdImplementsKeyboard`: the refinement of `Keyboard`. `Parse` finds events by counting the
  ends of them in the stream. `RInv` adds that some sequence lists these ends (`Lists`): it
  grows at its end when a key is struck and loses its head when the driver completes an
  event, which is what appending an event and taking the first one are. The tables are
  compared entry by entry (`ModifierTable`, `LockTable`, `CharacterTables`). The proof showed
  that a keyboard with only one lock is not what the driver implements once num lock or
  scroll lock is among the keys; `Keyboard` has them now.

### Display, console output, line editor and monitor: `MonitorProofs`

From `CgaAssumption` (at least one line and one column, control characters and the blank are
not printable), `ReadlineAssumption` (NUL is no character either), `RunCmdAssumption` and
`MonitorAssumption` (three commands of letters, a message of characters).

- `CursorStaysOnScreen`: before scrolling, the position is below `CRT_SIZE + CRT_COLS`
  whatever the character was, so one subtraction of a line brings it back.
- `CgaImplementsTerminal`: the refinement of `Terminal`. `View` splits the position in line and
  column, so the proof is division with remainder: one lemma for each kind of character
  (`WriteView`, `LineFeedView`, `ReturnView`, `SpacesView`, ...), each with and without a scroll.
- `SerialGetsAll`, `OutputsAgree`, `OutputImplementsTerminal`, from `OInv`. `due` and `shown` are what
  the calls of `cputchar` ask for, a tab in one go; the invariant says in the middle of a call
  what each device still lacks of it: `PaperRest`, `SerialRest`, and for the display the blanks
  of `todo` (`Spaced`). The serial port has its part as long as no wait ran out. A step of
  `cons_putc` is one of `Cga` or leaves the display alone, so `Terminal` is implemented by
  the lemmas of `CgaImplementsTerminal`. `OutputAssumption`: the first screens are screens.
- `ScreenShowsLine`, from `LineInv`: what is in the buffer is printable, and the cells before
  the cursor, as far as they are on the page, show prompt and line. The property speaks of
  the line only; but a backspace uncovers older cells, so the prompt must be known too.
  That what `cprintf` prints before the prompt leaves the display typed, for any number of
  lines, is one of the two inductions.
- `CommandsGetTheirWords`, `RefusesOnlyTooMany`, from `ParseInv`: the buffer is the line with
  NUL in the place of the white space that has been passed, the n-th pointer is a start of
  a word with n starts before it, and `argc` counts the starts up to the place of the
  scan. Words are told apart by counting starts, since a scan has no other order of them.
- `BacktracesAreComplete`, `PanicsAreForEver`, from `StackInv`: a frame's saved pointer is the
  depth of the frame below (`Linked`), the function that runs is on top, and the walk has
  what it has passed. `FirstPanicIsReported` adds `PanicInv`: `panicstr` is set exactly when a
  `_panic` on the stack has got past its test, and the lowest of these was reported.
- `MonitorIsTyped`: all of it together, from the invariants above.

### Debug information: `DebugInfoProofs`

From `StabAssumption` and tables with the order of `Entries`.

- `SearchesStayInside`, `SearchesBracket`, `ReportsTheFunction`, from `SearchInv`: the stabs of the
  type before `l` are below the address looked for, those behind `r` above the one asked
  for; `left` is the start of the region or such a stab; the address looked for exceeds the
  one asked for only after an exact match. The search skips stabs of other types, so
  that `l`, `r` and the midpoint alone say nothing.

### Boot loader: `BootLoaderProofs`

From `BootAssumption` (the scratch space for the header is whole sectors in memory) and
`ImagesAssumption` (the images are well linked).

- `HeadersSurvive`, `KernelsStartAsLinked`, from `BootInv`. The header is segment 0 of the image,
  since `readseg` loads it as it loads the others. `Held` says of whole sectors that memory
  has the bytes of the image in all that has been read. A sector that two segments share is
  read twice, with the same bytes, because the distance of two segments is the same in
  memory and in the image there; a sector read behind the file bytes of a segment is in
  its BSS, which is cleared later and begins behind the last file byte of all. This is what
  the comment at `main.c:84-85` relies on ("We'd write more to memory than asked, but it
  doesn't matter -- we load in increasing order"). The drive comes in through `offset`, which
  is the sector that belongs at `va`.

### String library: `StrLibProofs`

From `StrLibAssumption`: every call is `Legal`, for a memory and a word of any size.

- `RegionsAreFilled`, `NothingIsOverwritten`, `ResultsAreRight`, from `SInv`, which has one part for
  each kind of loop. `Moving` says which end of the destination is filled with how many bytes
  left, the rest of the memory being as it was. That a round reads what no round has
  written is `MovesRound`: going up is right when the destination starts before the source or
  behind its end, going down when it starts inside. `WholeUnits` shows that a size that is
  moved by words has no remainder. `Turn` is the same for the loops over strings
  (`StrcpyTurn`, `StrncpyTurn`, `StrlcpyTurn`), and for those that only read it says that all
  bytes so far let the loop go on (`Read`); `SearchesAreRight` and `ComparesAreRight` then say what
  stopping means.

### Linked lists: `ListQueueProofs`

From `ListAssumption`: elements, heads and `NULL` are different things, and there are finitely
many elements.

- `LinksAlwaysAgree`, from `IInv`: the type, the agreement, and that the variable of a running loop
  is an element. An insertion behind an element and one at the head are the same
  change to a cell (`InsertAtCell`), which is what the pointer to a pointer in `le_prev` is for.
- `LoopsMissNothing`, `PointersImplementSequences`, from `SInv`. `Listed` says that some sequence
  without repetition is the chain of each head (`Chain`); every macro inserts one member into
  it or takes one out, at the place of its cell. A chain is finite because it does not repeat,
  so `Follow` ends. `Looping` says that a loop is behind the first k members, and that what
  stayed on the list unvisited comes later.

### Network client: `NsIpcProofs`

From `NsIpcAssumption`.

- `CallsAreAnswered`, `CallsDieForErrors`, for sizes that are any integers, from `IInv`: the server owes no answer but the one to the
  request in the page (`OneRequest`), and what is mapped at `REQVA` is of an earlier call
  (`PagesAreOld`). Both hold only while no message from elsewhere has been taken, so the
  invariant has them under that premise, as the properties do.
- `AnswersStayOwed`, from `OInv`: whoever sends, there is at most one answer owed for a call and
  none for a request not sent, so that taking a message for a reply leaves one more owed.

### Formatted output: `PrintFmtProofs`

From `PrintFmtAssumption`: formats are sequences of well-formed pieces of any length, there is a
greatest size of a buffer, an int has at least one bit and no more than a `long long`,
arguments are bit patterns of their size, and strings are characters of `Char`.

- `SpecTruncatesAndTerminates`, from `Buffered`: the buffer and its two pointers are a function
  of what was printed so far and of `n` (`Filled`), so that putting characters one by one or
  many at a time comes to the same (`PutFills`). `Parsing` has the types, and that a `%`
  stands before the pointer inside a sequence, so that the step back over an unknown one
  finds it.
- `SpecPrintsMeaning`, from `Following`: between characters, what was printed is what the pieces
  passed say, and a part of the next one while that is copied (`TextAt`); inside a
  sequence the locals of `vprintfmt` are the fields passed so far, and the arguments taken
  those of the pieces and stars passed (`PieceAt`). The code parses characters and the meaning
  is given by pieces: `Meets` says which characters can be met at each place of a piece, which
  leaves no case of the switch but that of the field. An unknown sequence is printed as it
  stands because `%` is put first and the rest of it is met again as text. That `printnum`,
  which recurses to the first digit, puts the numeral by positional values is
  `PrintnumIsNumeral`; that the padding is what `InField` says, though the code counts the
  width down, `NumberSays`; a number in a format is read to its last digit (`DigitsAt`).
- `SpecReadsBack`, for every number, size, width and base. `Writes` says that each character is
  the digit of its place, with zeros in front or not; `strtol`, read digit by digit, has after
  k of them the number without its lower places, modulo the size of a `long`
  (`ReadWritten`), and stops behind the last (`StrtolIs`). `Alone` is the invariant: a
  format that is one numeric conversion has printed just that conversion of its last
  argument. A `long long` reads back as its lower half, because the size of a `long` divides
  that of a `long long` (`LongLongHolds`), and a negative number because `strtol` negates
  modulo the same size (`ModuloNegated`, `SignedHolds`). A decimal without padding is not
  taken for octal, as a numeral has no leading zero (`NumeralBegins`).

### Only model-checked

- All liveness (`GetcharDrains`, `OutputEnds`, `LookupEnds`, `FormatEnds`, `EndsForward`, `Boots`,
  `PromptsAgain`): the provers do not handle fairness.

## 5. Abstractions

- A cell of the display is its character; the attribute byte (0x07 unless given) and the
  registers of the cursor are left out. The cursor is on the page at the start, as the
  BIOS leaves it; `cga_init` does not check.
- In `Kbd` the user is bounded so that no byte is dropped; a keyboard that drops single
  bytes can leave a modifier or the 0xE0 flag set, with nothing in the code to clear it.
- A serial byte that overruns another between the read of the status and that of the
  data has the effect of one that did so before the status was read.
- Names in stabs are the index of the stab; `n_strx` is valid and the colon in a name is
  a matter of printing. Addresses outside the kernel make `debuginfo_eip` panic and are
  left out. Values of stabs other than `N_SO` and `N_FUN` are 0, for no step reads them.
- A text of the program's own (`"(null)"`, an error string) is one character in
  `PrintFmt`. The width of a number is that of its digits: the sign and `0x` come before
  the field, unlike in C. A precision that begins with 0 (`%.0s`) is taken for the flag 0
  by the code; such formats are left out. So is the least int as an error code, for which
  line 168 has no defined result.
- White space is one character in `RunCmd`: `readline` stores no other.
- `Monitor` lets `debuginfo_eip` panic or not for each frame, up to a depth of `MaxCalls`; its
  test of the address is not modelled. At this commit the frames of the kernel hold
  addresses of the kernel only, so that no command panics; what the properties say of
  panics is about what `_panic` and `monitor` do when one is raised. `cprintf` prints lines of
  one text; `trace` keeps what `mon_backtrace` prints.
- `StrTol` has the digits up to `f`. In `StrLib` a string is inside the memory, the regions of
  a copy of strings do not overlap, and a call keeps inside the memory. Bytes are seen as
  unsigned: a `char` that is looked for is compared modulo 256.
- In `ListQueue` nothing runs between the assignments of a macro. `LIST_INIT` is not used
  inside a loop over the list.
- In `NsIpc` a send always finds the server, and an answer the client: what a failed
  `ipc_send` does is external. What a copy past the request page overwrites is not
  modelled, nor what a stopped call leaves in the page but for the old or the new request;
  the memory that a caller hands over is there as far as it says. `nsipc_close` and the other calls that pass a number on do the
  same and differ in their names.
- The drive of `BootLoader` delivers every sector: `waitdisk` looks at two status bits and
  has no error path. What follows a failed check of the magic is a loop for ever, the
  stop at `bad`.
- The second variant of `memset` and `memmove` in `string.c` (for compilers without inline
  assembly) is not compiled. `_warn` and `read_eip` are called by nothing. `sockets.c` is a
  layer of names over `nsipc.c`.
- `A20`, the switch to protected mode and the temporary segment tables are straight-line
  assembly with two polls, and are not modelled.

## 6. Plan

Next in the model: lost keyboard bytes in `Kbd`, and what they leave behind (a modifier
whose release is lost stays until the next release of that key; a 0xE0 whose second byte is
lost turns the next key into its twin); and the search for line numbers, once the code
has it. Nothing else of the kernel's own logic is left out; the headers and the scripts
keep no state.

In the proofs, what is left of the properties the runs check is liveness: the measures that decrease (the places of a search, the digits and the
characters of a format still ahead) can be stated as action properties and proved as such.
