------------------------------- MODULE Monitor ------------------------------
(***************************************************************************)
(* The kernel from its entry: kern/init.c and kern/monitor.c, with the     *)
(* line editor of Readline and the parser of RunCmd.                       *)
(*                                                                         *)
(* calls is the stack of C functions.  Each keeps its frame pointer (the   *)
(* kernel is compiled so), and the address of a frame is its depth, so     *)
(* that the register ebp is Len(calls) while the last of them runs.        *)
(* runcmd has one caller and is inlined in it by the build.                *)
(*                                                                         *)
(* cprintf is abstracted to lines of one text on the display.              *)
(***************************************************************************)
EXTENDS RunCmd

CONSTANTS
  TestDepth,   \* the argument of test_backtrace, 5 in the code
  Help, Kerninfo, Backtrace,   \* the names of the commands
  Message,     \* a line that cprintf prints
  MaxCalls     \* bound: the depth at which commands panic no more

Commands == {Help, Kerninfo, Backtrace}
NoPanic == 0

ASSUME MonitorAssumption ==
  /\ TestDepth \in Nat /\ MaxCalls \in Nat
  /\ Commands \subseteq Seq(Letter) /\ Cardinality(Commands) = 3
  /\ Message \in Seq(Char)

VARIABLES
  calls,      \* the frames: function, first argument, caller, saved ebp
  ebp,        \* the variable of mon_backtrace
  trace,      \* history: what the running mon_backtrace has printed, up to
              \* one line more than there are frames
  panicstr,   \* the number of a panic, for its message, or NoPanic
  reported    \* history: the panics printed by _panic

kernel == <<line, parse, kpc, calls, ebp, trace, panicstr, reported>>
vars == <<rvars, kernel>>

Depth == Len(calls)
Top == calls[Depth]

Frame(fn, arg, caller, saved) == [fn |-> fn, arg |-> arg, ret |-> caller, ebp |-> saved]
Called(cs, fn, arg) == Append(cs, Frame(fn, arg, cs[Len(cs)].fn, Len(cs)))

\* n lines of cprintf.
Lines(n) ==
  [k \in 1 .. n * Len(Message) |-> Message[1 + ((k - 1) % Len(Message))]]
Says(n) ==
  LET after == Printed(Screen, Lines(n))
  IN  crt_buf' = after.buf /\ crt_pos' = after.pos

\* What boot loader and BIOS leave: a BSS with the bytes of the disk in it.
Init ==
  /\ cga_init
  /\ buf \in {[n \in Index |-> g] : g \in Glyph}
  /\ panicstr \in {NoPanic, 1}
  /\ i = 0 /\ pc = "caller"
  /\ line = << >> /\ ptr = 0 /\ argc = 0 /\ argv = Unset
  /\ calls = << >> /\ ebp = 0 /\ trace = << >> /\ reported = << >>
  /\ kpc = "entry"
-----------------------------------------------------------------------------
(* Kernel start.                                                           *)

\* What memset does to the static variables, all of which are in the BSS.
\* Mutant: the BSS is not cleared.
bss_kept == UNCHANGED <<buf, panicstr>>

bss_cleared == buf' = [n \in Index |-> NUL] /\ panicstr' = NoPanic

\* entry.S calls i386_init with ebp = 0, from where it calls test_backtrace.
i386_init ==
  /\ kpc = "entry"
  /\ bss_cleared
  /\ Says(1)
  /\ calls' = Called(<<Frame("i386_init", 0, "entry.S", 0)>>, "test_backtrace", TestDepth)
  /\ kpc' = "test_backtrace"
  /\ UNCHANGED <<i, pc, line, parse, ebp, trace, reported>>

test_backtrace ==
  /\ kpc = "test_backtrace"
  /\ Says(1)
  /\ IF Top.arg > 0
       THEN /\ calls' = Called(calls, "test_backtrace", Top.arg - 1)
            /\ UNCHANGED <<kpc, ebp>>
       ELSE /\ calls' = Called(calls, "mon_backtrace", 0)
            /\ ebp' = Len(calls')
            /\ kpc' = "backtrace"
  /\ UNCHANGED <<buf, i, pc, line, parse, trace, panicstr, reported>>

\* The way back, and at its end the call of monitor by i386_init.
leaving ==
  /\ kpc = "leaving"
  /\ Says(1)
  /\ IF Top.ret = "test_backtrace"
       THEN calls' = Front(calls) /\ UNCHANGED kpc
       ELSE calls' = Called(Front(calls), "monitor", 0) /\ kpc' = "monitor"
  /\ UNCHANGED <<buf, i, pc, line, parse, ebp, trace, panicstr, reported>>
-----------------------------------------------------------------------------
(* mon_backtrace.                                                          *)

\* Mutant: the walk ends at the frame that has no caller's.
walk_short == calls[ebp].ebp = 0

\* Mutant: entry.S leaves the address of a frame in ebp.
next_cycles == IF ebp = 1 THEN Depth ELSE calls[ebp].ebp

walk_ends == ebp = 0
next_ebp == calls[ebp].ebp

\* A turn of the loop: the return address and the first argument are those of
\* the frame.
backtrace_frame ==
  /\ kpc = "backtrace"
  /\ ~walk_ends
  /\ Says(2)
  /\ trace' = IF Len(trace) > Depth THEN trace
               ELSE Append(trace, <<calls[ebp].ret, calls[ebp].arg>>)
  /\ ebp' = next_ebp
  /\ UNCHANGED <<buf, i, pc, line, parse, kpc, calls, panicstr, reported>>

backtrace_end ==
  /\ kpc = "backtrace"
  /\ walk_ends
  /\ calls' = Front(calls)
  /\ trace' = << >>
  /\ ebp' = 0
  /\ kpc' = IF Top.ret = "test_backtrace" THEN "leaving" ELSE "loop"
  /\ UNCHANGED <<crt, buf, i, pc, line, parse, panicstr, reported>>
-----------------------------------------------------------------------------
(* monitor.                                                                *)
welcome ==
  /\ kpc = "monitor"
  /\ Says(2)
  /\ kpc' = "loop"
  /\ UNCHANGED <<buf, i, pc, line, parse, calls, ebp, trace, panicstr, reported>>

\* The variables of runcmd are automatic, and dead by now.
prompt ==
  /\ kpc = "loop"
  /\ readline
  /\ kpc' = "readline"
  /\ line' = << >> /\ ptr' = 0 /\ argc' = 0 /\ argv' = Unset
  /\ UNCHANGED <<calls, ebp, trace, panicstr, reported>>

type(c) == kpc = "readline" /\ (erase(c) \/ insert(c)) /\ UNCHANGED kernel

enter(c) ==
  /\ kpc = "readline"
  /\ finish(c)
  /\ runcmd
  /\ UNCHANGED <<calls, ebp, trace, panicstr, reported>>

split ==
  /\ gobble \/ word \/ scan \/ parsed
  /\ UNCHANGED <<crt, i, pc, line, calls, ebp, trace, panicstr, reported>>

refuse ==
  /\ too_many
  /\ Says(1)
  /\ UNCHANGED <<i, pc, line, calls, ebp, trace, panicstr, reported>>

unknown ==
  /\ kpc = "lookup"
  /\ StringAt(buf, argv[0]) \notin Commands
  /\ Says(1)
  /\ kpc' = "loop"
  /\ UNCHANGED <<buf, i, pc, line, parse, calls, ebp, trace, panicstr, reported>>

invoke(name) ==
  /\ kpc = "lookup"
  /\ StringAt(buf, argv[0]) = name
  /\ IF name = Backtrace
       THEN /\ calls' = Called(calls, "mon_backtrace", argc)
            /\ ebp' = Len(calls')
            /\ kpc' = "backtrace"
       ELSE /\ calls' = Called(calls, IF name = Help THEN "mon_help" ELSE "mon_kerninfo", argc)
            /\ kpc' = "command"
            /\ UNCHANGED ebp
  /\ UNCHANGED <<crt, buf, i, pc, line, parse, trace, panicstr, reported>>

\* mon_help prints a line for each command, mon_kerninfo six; both return 0,
\* with which the monitor goes on.
LinesOf(fn) == IF fn = "mon_help" THEN Cardinality(Commands) ELSE 6

command ==
  /\ kpc = "command"
  /\ Says(LinesOf(Top.fn))
  /\ calls' = Front(calls)
  /\ kpc' = "loop"
  /\ UNCHANGED <<buf, i, pc, line, parse, ebp, trace, panicstr, reported>>
-----------------------------------------------------------------------------
(* _panic.  Its one caller is debuginfo_eip, which mon_backtrace calls for  *)
(* each frame; whether the address is one it panics for is abstracted.     *)
(* Panics are numbered, so that the message of a later one can be told     *)
(* from that of the first.                                                 *)
panics ==
  /\ kpc = "backtrace"
  /\ ~walk_ends
  /\ Depth < MaxCalls
  /\ calls' = Called(Called(calls, "debuginfo_eip", ebp), "_panic",
                     1 + Cardinality({k \in DOMAIN calls : calls[k].fn = "_panic"}))
  /\ ebp' = 0 /\ trace' = << >>
  /\ Says(1)   \* line 69 of monitor.c, before the call
  /\ kpc' = "panic"
  /\ UNCHANGED <<buf, i, pc, line, parse, panicstr, reported>>

\* Mutant: a second panic returns to its caller.
panic_once ==
  /\ kpc = "panic"
  /\ IF panicstr = NoPanic
       THEN /\ panicstr' = Top.arg
            /\ reported' = Append(reported, Top.arg)
            /\ Says(1)
            /\ calls' = Called(calls, "monitor", 0)
            /\ kpc' = "monitor"
       ELSE /\ calls' = Front(calls)
            /\ kpc' = "loop"
            /\ UNCHANGED <<crt, panicstr, reported>>
  /\ UNCHANGED <<buf, i, pc, line, parse, ebp, trace>>

\* The first panic is reported; all enter the monitor, for ever.
panic ==
  /\ kpc = "panic"
  /\ IF panicstr = NoPanic
       THEN /\ panicstr' = Top.arg
            /\ reported' = Append(reported, Top.arg)
            /\ Says(1)
       ELSE UNCHANGED <<crt, panicstr, reported>>
  /\ calls' = Called(calls, "monitor", 0)
  /\ kpc' = "monitor"
  /\ UNCHANGED <<buf, i, pc, line, parse, ebp, trace>>

Kernel ==
  \/ i386_init \/ test_backtrace \/ leaving
  \/ backtrace_frame \/ backtrace_end
  \/ welcome \/ prompt \/ split \/ refuse \/ unknown
  \/ \E name \in Commands : invoke(name)
  \/ command \/ panic

KernelNext ==
  \/ Kernel
  \/ \E c \in Char : type(c) \/ enter(c)
  \/ panics

(* The processor never stops; nothing is assumed of the user.  This is     *)
(* WF_vars(Kernel): the kernel can move exactly when it is not waiting for *)
(* a character, or the run would report a deadlock.                        *)
Running == <>[](kpc # "readline") => []<><<Kernel>>_vars

KernelSpec == Init /\ [][KernelNext]_vars /\ Running
-----------------------------------------------------------------------------
(* Properties.                                                             *)

\* Type invariant.
MonitorTypeOK ==
  /\ RunCmdTypeOK
  /\ \A k \in DOMAIN calls : calls[k].ebp = k - 1
  /\ ebp \in 0 .. Depth
  /\ panicstr \in Nat
  /\ kpc \in {"entry", "test_backtrace", "leaving", "backtrace", "monitor", "loop",
              "readline", "gobble", "scan", "lookup", "command", "panic"}

\* A finished backtrace has one line for each function on the stack, from
\* mon_backtrace out to i386_init, with the function that called it and its
\* argument: for test_backtrace(5) the eight lines that grade-lab1.sh counts.
BacktraceListsCallers ==
  kpc = "backtrace" /\ walk_ends =>
    trace = [k \in 1 .. Depth |->
              LET f == Depth + 1 - k
              IN  <<IF f = 1 THEN "entry.S" ELSE calls[f - 1].fn, calls[f].arg>>]

\* Where panics are on the stack, but for one that is being reported.
Panicked == {k \in DOMAIN calls : calls[k].fn = "_panic" /\ ~(kpc = "panic" /\ k = Depth)}

\* The message printed is that of the first panic, and of no later one, though
\* panicstr has any value before the BSS is cleared.
FirstPanicReported ==
  reported = IF Panicked = {} THEN << >> ELSE <<calls[Min(Panicked)].arg>>

\* What has panicked never runs again: the stack up to the call stays, through
\* further panics too, so no command finds its arguments overwritten.
PanicNeverReturns ==
  [][\A k \in DOMAIN calls : calls[k].fn = "_panic" =>
       k < Len(calls') /\ SubSeq(calls', 1, k) = SubSeq(calls, 1, k)]_calls

\* Liveness: whatever is typed and whatever panics, there is a prompt again.
PromptsAgain == []<>(kpc = "readline")
=============================================================================
