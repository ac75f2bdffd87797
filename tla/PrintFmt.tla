------------------------------- MODULE PrintFmt ------------------------------
(***************************************************************************)
(* lib/printfmt.c: vsnprintf and what cprintf shares with it, vprintfmt    *)
(* and printnum.                                                           *)
(*                                                                         *)
(* One behaviour is one call of vsnprintf, for a format and a buffer       *)
(* chosen at the start; each turn of the switch is a step, and an argument *)
(* is chosen when va_arg takes it.  A format is composed of pieces so that *)
(* what it means can be said without the parser.  A text of the program's  *)
(* own (an error string, "(null)", "error") is abstracted to a character.  *)
(***************************************************************************)
EXTENDS Integers, SequencesExt, FiniteSetsExt

CONSTANTS
  Char,           \* the characters of texts and strings
  Formats,        \* bound: the formats, sequences of pieces
  BufSizes,       \* bound: the values of n
  IntBits, LongLongBits,   \* 32 and 64 in the code
  IntArg, LongLongArg,     \* bound: integer arguments, as bit patterns
  StarArg,        \* bound: arguments of `*'
  StrArg,         \* bound: strings; NullString stands for a null pointer
  ErrArg,         \* bound: error codes
  MAXERROR        \* 6 in the code

NullString == <<"(null)">>
Blank == " "
NUL == "NUL"
JUNK == "JUNK"   \* what the buffer held before the call

Digit == {"0", "1", "2", "3", "4", "5", "6", "7", "8", "9"}
Digits == <<"0", "1", "2", "3", "4", "5", "6", "7", "8", "9",
            "a", "b", "c", "d", "e", "f">>
DigitOf(c) == CHOOSE d \in 0 .. 9 : Digits[d + 1] = c
Visible(c) == c # "NP"   \* NP is a character not in ' ' .. '~'

Pow(x, k) ==
  LET pow[j \in 0 .. k] == IF j = 0 THEN 1 ELSE x * pow[j - 1]
  IN  pow[k]

(* Pieces of a format: text as it stands, a sequence that starts with `%'  *)
(* and ends in no conversion, and a conversion with its fields.            *)
Text(cs) == [kind |-> "text", chars |-> cs]
Unknown(cs) == [kind |-> "unknown", chars |-> cs]
Conversion(pad, alt, width, prec, long, conv) ==
  [kind |-> "conversion", pad |-> pad, alt |-> alt, width |-> width,
   prec |-> prec, long |-> long, conv |-> conv]

Spelled(p) ==
  CASE p.kind = "text" -> p.chars
    [] p.kind = "unknown" -> <<"%">> \o p.chars
    [] OTHER ->
         <<"%">> \o (IF p.pad = Blank THEN << >> ELSE <<p.pad>>)
           \o (IF p.alt THEN <<"#">> ELSE << >>)
           \o p.width
           \o (IF p.prec = << >> THEN << >> ELSE <<".">> \o p.prec)
           \o [k \in 1 .. p.long |-> "l"] \o <<p.conv>>

Base == [u |-> 10, o |-> 8, x |-> 16]
Conversions == {"%", "c", "e", "s", "d", "p"} \cup DOMAIN Base

\* What the switch returns to itself for, and what it has a case for.
Flag == Digit \cup {"-", ".", "#", "l", "*"}
Known == Flag \cup Conversions

IsNumber(cs) ==
  \/ cs \in {<< >>, <<"*">>}
  \/ cs \in Seq(Digit) /\ cs # << >> /\ cs[1] # "0"

\* Text has no % and no terminator.  An unknown sequence ends with the first
\* character that is no flag; only at the end of a format may it have none.
IsPiece(p, last) ==
  CASE p.kind = "text" ->
         /\ p = Text(p.chars) /\ p.chars # << >>
         /\ p.chars \in Seq(Char \ {"%", NUL})
    [] p.kind = "unknown" ->
         /\ p = Unknown(p.chars) /\ p.chars \in Seq(Flag \cup Char)
         /\ \A i \in 1 .. Len(p.chars) - 1 : p.chars[i] \in Flag
         /\ \/ p.chars # << >> /\ Last(p.chars) \notin Known \cup {NUL}
            \/ p.chars \in Seq(Flag) /\ last
    [] OTHER ->
         /\ p = Conversion(p.pad, p.alt, p.width, p.prec, p.long, p.conv)
         /\ p.pad \in {Blank, "-", "0"} /\ p.alt \in BOOLEAN
         /\ IsNumber(p.width) /\ IsNumber(p.prec)
         /\ p.long \in Nat /\ p.conv \in Conversions

ASSUME PrintFmtAssumption ==
  /\ \A fm \in Formats :
       /\ fm \in Seq(ToSet(fm))
       /\ \A k \in 1 .. Len(fm) : IsPiece(fm[k], k = Len(fm))
  /\ BufSizes \subseteq Int /\ \E m \in BufSizes : \A k \in BufSizes : m >= k
  /\ IntBits \in Nat \ {0} /\ LongLongBits \in Nat /\ IntBits <= LongLongBits
  /\ IntArg \subseteq 0 .. Pow(2, IntBits) - 1
  /\ LongLongArg \subseteq 0 .. Pow(2, LongLongBits) - 1
  /\ StarArg \subseteq Int /\ ErrArg \subseteq Int /\ MAXERROR \in Nat
  /\ StrArg \subseteq Seq(Char)

VARIABLES
  format,   \* the pieces; constant
  n,        \* the size of the buffer; constant
  fmt,      \* the characters of the format and its terminator; constant
  f,        \* the pointer into fmt
  padc, width, precision, lflag, altflag,   \* the locals of vprintfmt
  b,        \* the struct sprintbuf, and the memory it points into
  ret,      \* what vsnprintf returned
  out,      \* history: all characters given to putch
  args,     \* history: all arguments taken
  pc

flags == <<padc, width, precision, lflag, altflag>>
call == <<format, n, fmt>>
vars == <<call, f, flags, b, ret, out, args, pc>>

Memory == 0 .. Max(BufSizes)

Init ==
  /\ format \in Formats
  /\ n \in BufSizes
  /\ fmt = FlattenSeq([k \in DOMAIN format |-> Spelled(format[k])]) \o <<NUL>>
  /\ f = 1
  /\ padc = Blank /\ width = -1 /\ precision = -1 /\ lflag = 0 /\ altflag = FALSE
  /\ b = [buf |-> 0, ebuf |-> n - 1, cnt |-> 0, mem |-> [k \in Memory |-> JUNK]]
  /\ ret = 0
  /\ out = << >>
  /\ args = << >>
  /\ pc = "vsnprintf"
-----------------------------------------------------------------------------
\* Mutant: the place of the terminator is used too.
stored_late(k) == Min({k, b.ebuf + 1 - b.buf})

\* How many of k characters sprintputch stores: those there is room for.
stored(k) == Min({k, b.ebuf - b.buf})

\* putch of the characters cs: all are counted.
Put(cs) ==
  /\ b' = [buf  |-> b.buf + stored(Len(cs)),
           ebuf |-> b.ebuf,
           cnt  |-> b.cnt + Len(cs),
           mem  |-> [k \in Memory |->
                      IF k - b.buf \in 0 .. stored(Len(cs)) - 1
                        THEN cs[k - b.buf + 1] ELSE b.mem[k]]]
  /\ out' = out \o cs

\* k times the character c; none when k is not positive.
Pads(c, k) == [j \in 1 .. Max({0, k}) |-> c]

\* Mutant: printnum hands the width on as it is.
printnum_wide(num, base, w0, c) ==
  LET digits[m \in Nat] ==
        [w \in Int |->
          (IF m >= base THEN digits[m \div base][w] ELSE Pads(c, w - 1))
            \o <<Digits[(m % base) + 1]>>]
  IN  digits[num][w0]

\* What printnum puts.
printnum(num, base, w0, c) ==
  LET digits[m \in Nat] ==
        [w \in Int |->
          (IF m >= base THEN digits[m \div base][w - 1] ELSE Pads(c, w - 1))
            \o <<Digits[(m % base) + 1]>>]
  IN  digits[num][w0]

\* getint and getuint: the bit pattern of an argument of the size that lflag
\* says, extended to long long with its sign or with zeros.
ArgOf(l) == IF l >= 2 THEN LongLongArg ELSE IntArg
getuint(v, l) == v
getint(v, l) ==
  IF l < 2 /\ v >= Pow(2, IntBits - 1)
    THEN v + Pow(2, LongLongBits) - Pow(2, IntBits)
    ELSE v

strnlen(s, size) == IF size < 0 THEN Len(s) ELSE Min({Len(s), size})
-----------------------------------------------------------------------------
\* vsnprintf refuses a buffer without room for a terminator.
refuse ==
  /\ pc = "vsnprintf"
  /\ n < 1
  /\ ret' = -3   \* -E_INVAL
  /\ pc' = "done"
  /\ UNCHANGED <<call, f, flags, b, out, args>>

start ==
  /\ pc = "vsnprintf"
  /\ n >= 1
  /\ pc' = "text"
  /\ UNCHANGED <<call, f, flags, b, ret, out, args>>

\* Lines 93 to 97.
literal ==
  /\ pc = "text"
  /\ fmt[f] \notin {"%", NUL}
  /\ Put(<<fmt[f]>>)
  /\ f' = f + 1
  /\ UNCHANGED <<call, flags, ret, args, pc>>

\* vprintfmt returns, and vsnprintf terminates the buffer.
finish ==
  /\ pc = "text"
  /\ fmt[f] = NUL
  /\ b' = [b EXCEPT !.mem[b.buf] = NUL]
  /\ ret' = b.cnt
  /\ pc' = "done"
  /\ UNCHANGED <<call, f, flags, out, args>>

\* Lines 99 to 104.
escape ==
  /\ pc = "text"
  /\ fmt[f] = "%"
  /\ f' = f + 1
  /\ padc' = Blank /\ width' = -1 /\ precision' = -1 /\ lflag' = 0 /\ altflag' = FALSE
  /\ pc' = "reswitch"
  /\ UNCHANGED <<call, b, ret, out, args>>

Switch(c) == pc = "reswitch" /\ fmt[f] = c

\* The flags that the switch returns to itself for.
pad ==
  /\ \E c \in {"-", "0"} : Switch(c) /\ padc' = c
  /\ f' = f + 1
  /\ UNCHANGED <<call, width, precision, lflag, altflag, b, ret, out, args, pc>>

dot ==
  /\ Switch(".")
  /\ width' = IF width < 0 THEN 0 ELSE width
  /\ f' = f + 1
  /\ UNCHANGED <<call, padc, precision, lflag, altflag, b, ret, out, args, pc>>

alternate ==
  /\ Switch("#")
  /\ altflag' = TRUE
  /\ f' = f + 1
  /\ UNCHANGED <<call, padc, width, precision, lflag, b, ret, out, args, pc>>

long ==
  /\ Switch("l")
  /\ lflag' = lflag + 1
  /\ f' = f + 1
  /\ UNCHANGED <<call, padc, width, precision, altflag, b, ret, out, args, pc>>

\* process_precision: the number goes to the width, unless that is known.
Precision(v) ==
  IF width < 0 THEN width' = v /\ precision' = -1
               ELSE precision' = v /\ UNCHANGED width

\* The number that the digits cs write, one digit at a time.
Value(cs) ==
  LET read[k \in 0 .. Len(cs)] ==
        IF k = 0 THEN 0 ELSE read[k - 1] * 10 + DigitOf(cs[k])
  IN  read[Len(cs)]

\* Mutant: the loop over the digits does not advance.
number_stay ==
  /\ pc = "reswitch"
  /\ fmt[f] \in Digit \ {"0"}
  /\ Precision(DigitOf(fmt[f]))
  /\ UNCHANGED <<call, f, padc, lflag, altflag, b, ret, out, args, pc>>

\* A number that does not start with 0: all its digits are read.
number ==
  /\ pc = "reswitch"
  /\ fmt[f] \in Digit \ {"0"}
  /\ LET end == Min({k \in f .. Len(fmt) : fmt[k] \notin Digit})
     IN  /\ Precision(Value(SubSeq(fmt, f, end - 1)))
         /\ f' = end
  /\ UNCHANGED <<call, padc, lflag, altflag, b, ret, out, args, pc>>

star ==
  /\ Switch("*")
  /\ \E v \in StarArg : Precision(v) /\ args' = Append(args, v)
  /\ f' = f + 1
  /\ UNCHANGED <<call, padc, lflag, altflag, b, ret, out, pc>>

\* A conversion puts the characters cs and has taken the arguments a.
Converted(cs, a) ==
  /\ Put(cs)
  /\ args' = args \o a
  /\ f' = f + 1
  /\ pc' = "text"
  /\ UNCHANGED <<call, flags, ret>>

percent == Switch("%") /\ Converted(<<"%">>, << >>)

character ==
  /\ Switch("c")
  /\ \E s \in StrArg : s # << >> /\ Converted(<<s[1]>>, <<s>>)

error ==
  /\ Switch("e")
  /\ \E v \in ErrArg :
       LET err == IF v < 0 THEN -v ELSE v
       IN  Converted(
             IF err > MAXERROR \/ err = 0
               THEN <<"error">> \o printnum(err, 10, -1, Blank)
               ELSE <<"error_string">> \o printnum(err, 10, -1, Blank),
             <<v>>)

\* Padding on the left unless the flag is `-', then at most precision
\* characters, then blanks for what is left of the width.
string ==
  /\ Switch("s")
  /\ \E s \in StrArg :
       LET len   == strnlen(s, precision)
           left  == IF width > 0 /\ padc # "-" THEN width - len ELSE 0
           right == IF width > 0 /\ padc # "-" THEN 0 ELSE width - len
           shown == [k \in 1 .. len |->
                      IF altflag /\ ~Visible(s[k]) THEN "?" ELSE s[k]]
       IN  Converted(Pads(padc, left) \o shown \o Pads(Blank, right), <<s>>)

\* The sign is put first, and the negated number formatted as unsigned.
decimal ==
  /\ Switch("d")
  /\ \E v \in ArgOf(lflag) :
       LET num      == getint(v, lflag)
           negative == num >= Pow(2, LongLongBits - 1)
       IN  Converted(
             (IF negative THEN <<"-">> ELSE << >>)
               \o printnum(IF negative THEN Pow(2, LongLongBits) - num ELSE num,
                           10, width, padc),
             <<v>>)

unsigned ==
  \E c \in DOMAIN Base :
    /\ Switch(c)
    /\ \E v \in ArgOf(lflag) :
         Converted(printnum(getuint(v, lflag), Base[c], width, padc), <<v>>)

pointer ==
  /\ Switch("p")
  /\ \E v \in IntArg :
       Converted(<<"0", "x">> \o printnum(v, 16, width, padc), <<v>>)

\* Anything else: the pointer goes back to just behind the `%'.
unknown ==
  /\ pc = "reswitch"
  /\ fmt[f] \notin Known
  /\ Put(<<"%">>)
  /\ f' = Max({k \in 1 .. f - 1 : fmt[k] = "%"}) + 1
  /\ pc' = "text"
  /\ UNCHANGED <<call, flags, ret, args>>

Next ==
  \/ refuse \/ start \/ literal \/ finish \/ escape
  \/ pad \/ dot \/ alternate \/ long \/ number \/ star
  \/ percent \/ character \/ error \/ string
  \/ decimal \/ unsigned \/ pointer \/ unknown

(* Nothing stops a call.                                                   *)
Spec == Init /\ [][Next]_vars /\ WF_vars(Next)
-----------------------------------------------------------------------------
(* What a format means.                                                    *)

Stars(cs) == Cardinality({k \in DOMAIN cs : cs[k] = "*"})
Takes(p) ==
  CASE p.kind = "text" -> 0
    [] p.kind = "unknown" -> Stars(p.chars)
    [] OTHER -> Stars(p.width) + Stars(p.prec) + (IF p.conv = "%" THEN 0 ELSE 1)

\* The first argument of the k-th piece, when each takes its own in order.
FirstArg(k) ==
  LET first[j \in 1 .. Len(format) + 1] ==
        IF j = 1 THEN 1 ELSE first[j - 1] + Takes(format[j - 1])
  IN  first[k]
ArgsOf(k) == SubSeq(args, FirstArg(k), FirstArg(k + 1) - 1)

\* A number written in a format, an argument, or -1 when it is left out.
Field(cs, a) ==
  IF cs = << >> THEN -1
  ELSE IF cs = <<"*">> THEN a
  ELSE Value(cs)

\* The numeral of m without leading zeros, by its positional value.
Numeral(m, base) ==
  LET len == CHOOSE k \in 1 .. m + 1 :
               m < Pow(base, k) /\ (k = 1 \/ m >= Pow(base, k - 1))
  IN  [k \in 1 .. len |-> Digits[((m \div Pow(base, len - k)) % base) + 1]]

\* cs in a field of w characters.
InField(cs, w, c) ==
  IF c = "-" THEN cs \o Pads(Blank, w - Len(cs)) ELSE Pads(c, w - Len(cs)) \o cs

Signed(v, l) ==
  LET bits == IF l >= 2 THEN LongLongBits ELSE IntBits
  IN  IF v >= Pow(2, bits - 1) THEN v - Pow(2, bits) ELSE v

\* What a conversion shows for its arguments a, the last of them the value.
\* The width is that of the digits: a sign or 0x comes before the field.
Shows(p, a) ==
  LET w   == Field(p.width, a[1])
      cut == Field(p.prec, a[Len(a) - 1])
      v   == a[Len(a)]
      num(m, base) == InField(Numeral(m, base), w, p.pad)
      visible(cs) ==
        [k \in DOMAIN cs |-> IF p.alt /\ ~Visible(cs[k]) THEN "?" ELSE cs[k]]
  IN  CASE p.conv = "%" -> <<"%">>
        [] p.conv = "c" -> <<v[1]>>
        [] p.conv = "s" -> InField(
             visible(IF cut < 0 THEN v ELSE SubSeq(v, 1, Min({cut, Len(v)}))),
             w, p.pad)
        [] p.conv = "e" ->
             (IF v \in {-k : k \in 1 .. MAXERROR} \cup 1 .. MAXERROR
                THEN <<"error_string">> ELSE <<"error">>)
             \o Numeral(IF v < 0 THEN -v ELSE v, 10)
        [] p.conv = "d" ->
             IF Signed(v, p.long) < 0
               THEN <<"-">> \o num(-Signed(v, p.long), 10)
               ELSE num(Signed(v, p.long), 10)
        [] p.conv = "p" -> <<"0", "x">> \o num(v, 16)
        [] OTHER        -> num(v, Base[p.conv])

\* What the k-th piece means: text and unknown sequences stand for themselves.
Says(k) ==
  IF format[k].kind = "conversion" THEN Shows(format[k], ArgsOf(k))
                                   ELSE Spelled(format[k])
Meaning == FlattenSeq([k \in DOMAIN format |-> Says(k)])
-----------------------------------------------------------------------------
(* Properties.                                                             *)

Returned == pc = "done" /\ n >= 1

Numeric(p) == p.kind = "conversion" /\ p.conv \in DOMAIN Base \cup {"d", "p"}

\* However flags, widths, precisions and sizes are combined, and whatever
\* came before, a format prints what its pieces mean for the arguments taken
\* in order; a sequence with no conversion is printed as it stands.  The
\* exception is a number with the flag `-', see PadsOnTheRight.
PrintsMeaning ==
  Returned /\ (\A k \in DOMAIN format : Numeric(format[k]) => format[k].pad # "-")
    => out = Meaning

\* The buffer gets as much of the output as leaves room for a terminator,
\* which follows it; nothing else is written; the whole length is returned.
TruncatesAndTerminates ==
  LET kept == Min({Len(out), n - 1})
  IN  /\ \A k \in Memory : k >= n => b.mem[k] = JUNK
      /\ Returned =>
           /\ ret = Len(out)
           /\ b.mem[kept] = NUL
           /\ \A k \in 0 .. kept - 1 : b.mem[k] = out[k + 1]
           /\ \A k \in Memory : k > kept => b.mem[k] = JUNK

\* Liveness: a call ends, although an unknown sequence moves the pointer back.
FormatEnds == <>(pc = "done")

\* lib/printfmt.c:108 calls `-' the `flag to pad on the right', so a number
\* with the flag stands at the left of its field, as a string does.
PadsOnTheRight == Returned => out = Meaning
=============================================================================
