------------------------------- MODULE StrLib -------------------------------
(***************************************************************************)
(* lib/string.c, as the assembly variant (ASM) runs it: memmove and memset *)
(* prepare a repeated string instruction, which moves or stores a byte or  *)
(* a word at a time, up or down; the other functions are loops over bytes. *)
(*                                                                         *)
(* One behaviour is one call.  memory is an array of bytes from address 0, *)
(* and a word of it is aligned when its address is a multiple of WORD.     *)
(***************************************************************************)
EXTENDS Integers, FiniteSetsExt

CONSTANTS
  SIZE,     \* bytes of memory
  WORD,     \* bytes of a word, 4 in the code
  Calls     \* bound: the calls, records of the fields f, dst, src, n, c, mem

Addr == 0 .. SIZE - 1
Byte == 0 .. 255

\* Where the strings that begin at p may end.
Zeros(x, p) == {z \in Addr : z >= p /\ x.mem[z] = 0}

\* What a call x may ask: regions are inside the memory, strings end in it, and
\* a copy of a string goes to where its source is not.
Legal(x) ==
  /\ x.mem \in [Addr -> Byte]
  /\ x.dst \in Addr /\ x.src \in Addr /\ x.n \in Nat /\ x.c \in Int
  /\ \/ /\ x.f \in {"memmove", "memcpy", "memcmp"}
        /\ x.dst + x.n <= SIZE /\ x.src + x.n <= SIZE
     \/ x.f \in {"memset", "memfind"} /\ x.dst + x.n <= SIZE
     \/ /\ x.f \in {"strcpy", "strncpy", "strlcpy"}
        /\ \E z \in Zeros(x, x.src) :
             LET end == x.dst + IF x.f = "strcpy" THEN z - x.src + 1 ELSE x.n
             IN  end <= SIZE /\ (end <= x.src \/ z < x.dst)
     \/ x.f \in {"strlen", "strnlen", "strchr", "strfind"} /\ Zeros(x, x.dst) # {}
     \/ /\ x.f \in {"strcmp", "strncmp"}
        /\ Zeros(x, x.dst) # {} /\ Zeros(x, x.src) # {}

ASSUME StrLibAssumption ==
  /\ SIZE \in Nat /\ WORD \in Nat \ {0}
  /\ \A x \in Calls : Legal(x)

VARIABLES
  call,   \* the function, its arguments and the memory it finds; constant
  mem,
  d, s,   \* the two pointers; the registers edi and esi
  k,      \* what is left of the size, if the function has one; ecx
  unit,   \* the bytes a step moves
  df,     \* the direction flag
  ret,    \* the result
  pc

regs == <<d, s, k, unit, df>>
vars == <<call, mem, regs, ret, pc>>

Init ==
  /\ call \in Calls
  /\ mem = call.mem
  /\ d = call.dst /\ s = call.src /\ k = call.n /\ unit = 1 /\ df = FALSE
  /\ ret = -1
  /\ pc = "call"

Calling(f) == pc = "call" /\ call.f = f /\ UNCHANGED call
Return(r) == ret' = r /\ pc' = "done"

Aligned(x) == x % WORD = 0

\* The int argument as the byte that is stored or looked for.
Char == call.c % 256
-----------------------------------------------------------------------------
(* memmove, memcpy and memset.                                             *)

\* Mutant: the wrong way round.
overlaps_below == d <= s /\ s < d + k

\* Mutant: the size is not looked at.
unit_of_pointers(t, e) == IF Aligned(t) /\ Aligned(e) THEN WORD ELSE 1

\* Whether the destination starts inside the source.
overlaps == s < d /\ s + k > d

\* The unit for a move from t to e.
unit_of(t, e) == IF Aligned(t) /\ Aligned(e) /\ Aligned(k) THEN WORD ELSE 1

\* Mutant: std is not undone.
move_end_std ==
  /\ pc = "movs" /\ k = 0
  /\ Return(call.dst)
  /\ UNCHANGED <<call, mem, regs>>

\* Down from the last unit of the regions when they overlap, else up.
move ==
  /\ df' = overlaps
  /\ unit' = IF overlaps THEN unit_of(s + k, d + k) ELSE unit_of(s, d)
  /\ s' = IF overlaps THEN s + k - unit' ELSE s
  /\ d' = IF overlaps THEN d + k - unit' ELSE d
  /\ k' = k \div unit'
  /\ pc' = "movs"
  /\ UNCHANGED <<mem, ret>>

memmove == Calling("memmove") /\ move
memcpy == Calling("memcpy") /\ move

Next1(p) == IF df THEN p - unit ELSE p + unit

\* One round of rep movsl or rep movsb.
movs ==
  /\ pc = "movs" /\ k > 0
  /\ mem' = [a \in Addr |-> IF a - d \in 0 .. unit - 1 THEN mem[s + a - d] ELSE mem[a]]
  /\ d' = Next1(d) /\ s' = Next1(s) /\ k' = k - 1
  /\ UNCHANGED <<call, unit, df, ret, pc>>

\* The direction flag is clear again, on which the compiler relies.
move_end ==
  /\ pc = "movs" /\ k = 0
  /\ df' = FALSE
  /\ Return(call.dst)
  /\ UNCHANGED <<call, mem, d, s, k, unit>>

memset ==
  /\ Calling("memset")
  /\ unit' = IF Aligned(d) /\ Aligned(k) THEN WORD ELSE 1
  /\ k' = k \div unit'
  /\ df' = FALSE
  /\ pc' = "stos"
  /\ UNCHANGED <<mem, d, s, ret>>

\* One round of rep stosl, with the byte in each place of the word, or stosb.
stos ==
  /\ pc = "stos" /\ k > 0
  /\ mem' = [a \in Addr |-> IF a - d \in 0 .. unit - 1 THEN Char ELSE mem[a]]
  /\ d' = Next1(d) /\ k' = k - 1
  /\ UNCHANGED <<call, s, unit, df, ret, pc>>

set_end ==
  /\ pc = "stos" /\ k = 0
  /\ Return(call.dst)
  /\ UNCHANGED <<call, mem, regs>>
-----------------------------------------------------------------------------
(* The loops that copy strings.                                            *)
Stay == UNCHANGED <<unit, df>>
ToNext == d' = d + 1 /\ UNCHANGED <<ret, pc>> /\ Stay

strcpy ==
  /\ Calling("strcpy")
  /\ mem' = [mem EXCEPT ![d] = mem[s]]
  /\ d' = d + 1 /\ s' = s + 1
  /\ IF mem[s] = 0 THEN Return(call.dst) ELSE UNCHANGED <<ret, pc>>
  /\ UNCHANGED k /\ Stay

strncpy ==
  /\ Calling("strncpy")
  /\ IF k = 0
       THEN Return(call.dst) /\ UNCHANGED <<mem, regs>>
       ELSE /\ mem' = [mem EXCEPT ![d] = mem[s]]
            /\ s' = IF mem[s] # 0 THEN s + 1 ELSE s
            /\ k' = k - 1
            /\ ToNext

strlcpy ==
  /\ Calling("strlcpy")
  /\ CASE k = 0 -> Return(0) /\ UNCHANGED <<mem, regs>>
       [] k > 1 /\ mem[s] # 0 ->
            /\ mem' = [mem EXCEPT ![d] = mem[s]]
            /\ s' = s + 1
            /\ k' = k - 1
            /\ ToNext
       [] OTHER ->
            /\ mem' = [mem EXCEPT ![d] = 0]
            /\ Return(d - call.dst)
            /\ UNCHANGED regs
-----------------------------------------------------------------------------
(* The loops that only read: what keeps one going, and what it returns.    *)
Loop(goes, result) ==
  /\ IF goes
       THEN d' = d + 1 /\ s' = s + 1 /\ k' = k - 1 /\ UNCHANGED <<ret, pc>> /\ Stay
       ELSE Return(result) /\ UNCHANGED regs
  /\ UNCHANGED mem

\* Mutant: bytes are compared as signed characters.
Minus_signed(a, b) ==
  LET char(x) == IF x > 127 THEN x - 256 ELSE x IN char(a) - char(b)

Minus(a, b) == a - b

strlen == Calling("strlen") /\ Loop(mem[d] # 0, d - call.dst)
strnlen == Calling("strnlen") /\ Loop(k > 0 /\ mem[d] # 0, d - call.dst)

strcmp ==
  Calling("strcmp") /\ Loop(mem[d] # 0 /\ mem[d] = mem[s], Minus(mem[d], mem[s]))
strncmp ==
  /\ Calling("strncmp")
  /\ Loop(k > 0 /\ mem[d] # 0 /\ mem[d] = mem[s],
          IF k = 0 THEN 0 ELSE Minus(mem[d], mem[s]))
memcmp ==
  /\ Calling("memcmp")
  /\ Loop(k > 0 /\ mem[d] = mem[s], IF k = 0 THEN 0 ELSE Minus(mem[d], mem[s]))

NULL == -2
strchr ==
  /\ Calling("strchr")
  /\ Loop(mem[d] # 0 /\ mem[d] # Char, IF mem[d] = 0 THEN NULL ELSE d)
strfind == Calling("strfind") /\ Loop(mem[d] # 0 /\ mem[d] # Char, d)
memfind == Calling("memfind") /\ Loop(k > 0 /\ mem[d] # Char, d)

Next ==
  \/ memmove \/ memcpy \/ movs \/ move_end
  \/ memset \/ stos \/ set_end
  \/ strcpy \/ strncpy \/ strlcpy
  \/ strlen \/ strnlen \/ strcmp \/ strncmp \/ memcmp
  \/ strchr \/ strfind \/ memfind

Spec == Init /\ [][Next]_vars /\ WF_vars(Next)
-----------------------------------------------------------------------------
(* What a call should do.                                                  *)
Old == call.mem

\* The length of the string at p of the memory that the call finds.
Length(p) == Min({j \in 0 .. SIZE - 1 - p : Old[p + j] = 0})

\* The places of the destination that a call fills, and with what.
Filled ==
  LET at(j) == Old[call.src + j]
      len   == Length(call.src)
  IN  CASE call.f \in {"memmove", "memcpy"} -> [j \in 0 .. call.n - 1 |-> at(j)]
        [] call.f = "memset"  -> [j \in 0 .. call.n - 1 |-> Char]
        [] call.f = "strcpy"  -> [j \in 0 .. len |-> at(j)]
        [] call.f = "strncpy" -> [j \in 0 .. call.n - 1 |-> IF j < len THEN at(j) ELSE 0]
        [] call.f = "strlcpy" ->
             [j \in 0 .. Min({len, call.n - 1}) |-> IF j < call.n - 1 THEN at(j) ELSE 0]
        [] OTHER -> << >>

\* The bytes that decide a comparison: up to the size, and of a string up to
\* and with its terminator.
Compared(p) ==
  LET m == CASE call.f = "strcmp"  -> Length(p) + 1
             [] call.f = "strncmp" -> Min({Length(p) + 1, call.n})
             [] call.f = "memcmp"  -> call.n
  IN  [j \in 1 .. m |-> Old[p + j - 1]]

Less(a, b) ==
  \E j \in DOMAIN a \cap DOMAIN b :
    a[j] < b[j] /\ \A i \in 1 .. j - 1 : a[i] = b[i]

\* The first place that stops a search, or the end of what is searched.
Found(stops) ==
  LET end == IF call.f \in {"memfind", "strnlen"} THEN call.dst + call.n ELSE SIZE
  IN  Min({end} \cup {p \in Addr : p >= call.dst /\ Old[p] \in stops})

RightResult(r) ==
  CASE call.f \in {"memmove", "memcpy", "memset", "strcpy", "strncpy"} -> r = call.dst
    [] call.f = "strlcpy" -> r = IF call.n = 0 THEN 0 ELSE Min({Length(call.src), call.n - 1})
    [] call.f \in {"strcmp", "strncmp", "memcmp"} ->
         LET a == Compared(call.dst)
             b == Compared(call.src)
         IN  (r = 0 <=> a = b) /\ (r < 0 <=> Less(a, b)) /\ (r > 0 <=> Less(b, a))
    [] call.f \in {"strlen", "strnlen"} -> r = Found({0}) - call.dst
    [] call.f = "strchr" ->
         r = IF Char # 0 /\ Old[Found({Char, 0})] = Char THEN Found({Char, 0}) ELSE NULL
    [] call.f = "strfind" -> r = Found({Char, 0})
    [] call.f = "memfind" -> r = Found({Char})
-----------------------------------------------------------------------------
(* Properties.                                                             *)

\* Whatever the overlap and the alignment, a region is filled as if all of it
\* had been read first, and the rest of the memory is as it was.
FillsItsRegion ==
  pc = "done" =>
    \A a \in Addr :
      mem[a] = IF a - call.dst \in DOMAIN Filled THEN Filled[a - call.dst] ELSE Old[a]

\* At no time is a byte outside the destination changed, nor one that is
\* still to be read from where it was.
NeverStrays ==
  /\ \A a \in Addr : a - call.dst \notin DOMAIN Filled => mem[a] = Old[a]
  /\ pc = "movs" =>
       \A j \in 0 .. k * unit - 1 :
         LET a == IF df THEN s + unit - 1 - j ELSE s + j IN mem[a] = Old[a]

\* Comparisons order strings and memory by unsigned bytes, searches stop at
\* the first place, and copies return what they say.
ReturnsRight == pc = "done" => RightResult(ret)

\* Liveness: a call ends, and with the direction flag clear (line 150).
EndsForward == <>[](pc = "done" /\ ~df)
=============================================================================
