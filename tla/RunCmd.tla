------------------------------- MODULE RunCmd ------------------------------
(***************************************************************************)
(* runcmd of kern/monitor.c: splits the line that readline returned, in    *)
(* place and in readline's own buffer, into the argument vector of a       *)
(* command.                                                                *)
(***************************************************************************)
EXTENDS Readline

CONSTANT MAXARGS   \* slots of argv, 16 in the code

ASSUME RunCmdAssumption == MAXARGS \in Nat \ {0, 1}

White == {Blank}   \* readline stores no other character of WHITESPACE
Letter == Glyph \ White

VARIABLES
  line,   \* history: the line that readline returned
  ptr,    \* the parameter buf of runcmd, as an index of the buffer
  argv,   \* where each argument starts, or NULL
  argc,
  kpc     \* where the kernel is

parse == <<ptr, argv, argc>>

NULL == -1
UNSET == -2   \* a slot of argv not yet written

Unset == [k \in 0 .. MAXARGS - 1 |-> UNSET]

\* The call, and lines 104 and 105.
runcmd ==
  /\ line' = Line
  /\ ptr' = 0
  /\ argv' = [Unset EXCEPT ![0] = NULL]
  /\ argc' = 0
  /\ kpc' = "gobble"

\* Mutant: white space is skipped and left in the buffer.
gobble_only ==
  /\ kpc = "gobble"
  /\ buf[ptr] \in White
  /\ ptr' = ptr + 1
  /\ UNCHANGED <<buf, argv, argc, kpc>>

\* Line 109: a white space character is overwritten by NUL.
gobble ==
  /\ kpc = "gobble"
  /\ buf[ptr] \in White
  /\ buf' = [buf EXCEPT ![ptr] = NUL]
  /\ ptr' = ptr + 1
  /\ UNCHANGED <<argv, argc, kpc>>

\* Mutant: one slot more is kept free.
too_many_early ==
  /\ kpc = "gobble"
  /\ buf[ptr] \in Letter
  /\ argc = MAXARGS - 2
  /\ kpc' = "loop"
  /\ UNCHANGED <<buf, parse>>

\* Lines 114 to 117: the command is refused.
too_many ==
  /\ kpc = "gobble"
  /\ buf[ptr] \in Letter
  /\ argc = MAXARGS - 1
  /\ kpc' = "loop"
  /\ UNCHANGED <<buf, parse>>

\* Line 118.
word ==
  /\ kpc = "gobble"
  /\ buf[ptr] \in Letter
  /\ argc # MAXARGS - 1
  /\ argv' = [argv EXCEPT ![argc] = ptr]
  /\ argc' = argc + 1
  /\ kpc' = "scan"
  /\ UNCHANGED <<buf, ptr>>

\* Lines 119 and 120.
scan ==
  /\ kpc = "scan"
  /\ IF buf[ptr] \in Letter
       THEN ptr' = ptr + 1 /\ UNCHANGED kpc
       ELSE kpc' = "gobble" /\ UNCHANGED ptr
  /\ UNCHANGED <<buf, argv, argc>>

\* Lines 110, 111 and 122 to 126: the line is parsed.
parsed ==
  /\ kpc = "gobble"
  /\ buf[ptr] = NUL
  /\ argv' = [argv EXCEPT ![argc] = NULL]
  /\ kpc' = IF argc = 0 THEN "loop" ELSE "lookup"
  /\ UNCHANGED <<buf, ptr, argc>>

\* The string at p of the buffer b.
StringAt(b, p) ==
  LET end == Min({k \in p .. BUFLEN - 1 : b[k] = NUL})
  IN  [k \in 1 .. end - p |-> b[p + k - 1]]
-----------------------------------------------------------------------------
(* Properties.                                                             *)

\* Type invariant: the pointer stays in the buffer and argc in the vector.
RunCmdTypeOK ==
  /\ ReadlineTypeOK
  /\ line \in Seq(Glyph)
  /\ ptr \in Index
  /\ argv \in [0 .. MAXARGS - 1 -> Index \cup {NULL, UNSET}]
  /\ argc \in 0 .. MAXARGS - 1

\* Where the words of the line start, as places in the buffer.
Starts ==
  {p \in 0 .. Len(line) - 1 :
     line[p + 1] \in Letter /\ (p > 0 => line[p] \in White)}

\* The word of the line that starts at p.
WordAt(p) ==
  LET end == Max({k \in p + 1 .. Len(line) : \A j \in p + 1 .. k : line[j] \in Letter})
  IN  SubSeq(line, p + 1, end)

\* A command that is looked up or runs has the words of the line, in order,
\* each ended by a NUL of its own, and a null pointer behind the last.  They
\* live in the buffer that the next readline, of a monitor entered by a
\* panic, will fill again.
ArgumentsAreWords ==
  kpc \in {"lookup", "command"} =>
    /\ argc = Cardinality(Starts)
    /\ argv[argc] = NULL
    /\ \A k \in 0 .. argc - 1 :
         /\ argv[k] \in Starts
         /\ Cardinality({p \in Starts : p < argv[k]}) = k
         /\ StringAt(buf, argv[k]) = WordAt(argv[k])

\* A line with words in it is refused only when argv cannot hold them and the
\* null pointer.
RefusesTooMany ==
  [][kpc = "gobble" /\ kpc' = "loop" /\ Starts # {} =>
       Cardinality(Starts) >= MAXARGS]_<<kpc, parse>>
=============================================================================
