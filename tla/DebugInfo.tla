----------------------------- MODULE DebugInfo -----------------------------
(***************************************************************************)
(* kern/kdebug.c: debuginfo_eip finds the function and the source file of  *)
(* an instruction address in the table of stabs, by two binary searches    *)
(* (stab_binsearch) over entries of which only some count.                 *)
(*                                                                         *)
(* One behaviour is one call, for a table and an address chosen at the     *)
(* start; each turn of the search loop is a step.  A name (n_strx) is      *)
(* abstracted to the index of the stab that holds it.                      *)
(***************************************************************************)
EXTENDS Integers, Sequences, FiniteSetsExt

CONSTANTS
  MaxStab,   \* bound: the index of the last stab of the table
  MaxAddr    \* bound: addresses are 0 .. MaxAddr

ASSUME StabAssumption == MaxStab \in Nat \ {0} /\ MaxAddr \in Nat

N_SO == "N_SO"
N_SOL == "N_SOL"
N_FUN == "N_FUN"
N_PSYM == "N_PSYM"
N_SLINE == "N_SLINE"

Index == 0 .. MaxStab

(* A table as the linker writes it: a header, then for each file an N_SO,  *)
(* and in it functions in the order of their addresses, each with its      *)
(* arguments and then its lines.  Values of other stabs are not addresses. *)
Stab ==
  [n_type : {N_SO, N_FUN}, n_value : 0 .. MaxAddr]
    \cup [n_type : {N_SOL, N_PSYM, N_SLINE}, n_value : {0}]
Header == [n_type |-> "N_UNDF", n_value |-> 0]
Entries ==
  {t \in [1 .. MaxStab -> Stab] :
    /\ t[1].n_type = N_SO
    /\ \A k \in 2 .. MaxStab :
         t[k].n_type = N_PSYM =>
           /\ t[k - 1].n_type \in {N_FUN, N_PSYM}
           /\ k < MaxStab
           /\ t[k + 1].n_type \in {N_PSYM, N_SLINE}
    /\ \A j, k \in 1 .. MaxStab :
         j < k /\ {t[j].n_type, t[k].n_type} \subseteq {N_SO, N_FUN}
           => t[j].n_value <= t[k].n_value}
Tables ==
  {[k \in Index |-> IF k = 0 THEN Header ELSE t[k]] : t \in Entries}

VARIABLES
  stabs,         \* the table; constant
  eip,           \* the address asked for; constant
  region,        \* the region the search began with; constant during it
  left, right,   \* *region_left and *region_right
  l, r, addr, any_matches,   \* the locals of stab_binsearch
  lfile, rfile,  \* the locals of debuginfo_eip
  info,          \* the Eipdebuginfo
  pc

search == <<region, left, right, l, r, addr, any_matches>>
vars == <<stabs, eip, search, lfile, rfile, info, pc>>

(* The call, for an address in the kernel and a valid string table, lines  *)
(* 111 to 142: it begins the search for the file.                          *)
Init ==
  /\ stabs \in Tables
  /\ eip \in 0 .. MaxAddr
  /\ region = <<0, MaxStab>>
  /\ left = 0 /\ right = MaxStab
  /\ l = 0 /\ r = MaxStab
  /\ addr = eip
  /\ any_matches = FALSE
  /\ lfile = 0 /\ rfile = MaxStab
  /\ info = [fn |-> -1, fn_addr |-> eip, narg |-> 0, line |-> 0, file |-> -1,
             ret |-> 0]
  /\ pc = N_SO
-----------------------------------------------------------------------------
(* stab_binsearch.  While it runs, pc is the type it looks for.            *)

Middle == (l + r) \div 2

\* The stabs of the type looked for in [l, m].
Candidates == {k \in l .. Middle : stabs[k].n_type = pc}

Searching == pc \in {N_SO, N_FUN} /\ l <= r

\* No candidate in [l, m].
search_none ==
  /\ Searching
  /\ Candidates = {}
  /\ l' = Middle + 1
  /\ UNCHANGED <<stabs, eip, region, left, right, r, addr, any_matches,
                 lfile, rfile, info, pc>>

\* The candidate nearest to the middle is below the address.
search_below ==
  /\ Searching
  /\ Candidates # {}
  /\ LET m == Max(Candidates)
     IN  /\ stabs[m].n_value < addr
         /\ left' = m
         /\ l' = Middle + 1
  /\ any_matches' = TRUE
  /\ UNCHANGED <<stabs, eip, region, right, r, addr, lfile, rfile, info, pc>>

\* It is above.
search_above ==
  /\ Searching
  /\ Candidates # {}
  /\ LET m == Max(Candidates)
     IN  /\ stabs[m].n_value > addr
         /\ right' = m - 1
         /\ r' = m - 1
  /\ any_matches' = TRUE
  /\ UNCHANGED <<stabs, eip, region, left, l, addr, lfile, rfile, info, pc>>

\* Mutant: the address is not moved past an exact match.
search_exact_again ==
  /\ Searching
  /\ Candidates # {}
  /\ LET m == Max(Candidates)
     IN  /\ stabs[m].n_value = addr
         /\ left' = m
         /\ l' = m
  /\ any_matches' = TRUE
  /\ UNCHANGED <<stabs, eip, region, right, r, addr, lfile, rfile, info, pc>>

\* An exact match: the search goes on for the right end of the region.
search_exact ==
  /\ Searching
  /\ Candidates # {}
  /\ LET m == Max(Candidates)
     IN  /\ stabs[m].n_value = addr
         /\ left' = m
         /\ l' = m
         /\ addr' = addr + 1
  /\ any_matches' = TRUE
  /\ UNCHANGED <<stabs, eip, region, right, r, lfile, rfile, info, pc>>

\* Mutant: the final scan stops at the right end, whatever its type.
LeftAtRight == IF any_matches THEN right ELSE left

\* *region_left on return: the last matching stab up to *region_right.
FoundLeft ==
  IF ~any_matches THEN left
  ELSE IF right < left THEN right
  ELSE Max({left} \cup {k \in left .. right : stabs[k].n_type = pc})
FoundRight == IF any_matches THEN right ELSE left - 1

Searched == pc \in {N_SO, N_FUN} /\ l > r
-----------------------------------------------------------------------------
(* debuginfo_eip.                                                          *)

\* Mutant: the search for the function starts at the first stab.
file_found_all ==
  /\ Searched
  /\ pc = N_SO
  /\ FoundLeft # 0
  /\ lfile' = FoundLeft /\ rfile' = FoundRight
  /\ region' = <<FoundLeft, FoundRight>>
  /\ left' = 0 /\ right' = FoundRight
  /\ l' = 0 /\ r' = FoundRight
  /\ addr' = eip
  /\ any_matches' = FALSE
  /\ pc' = N_FUN
  /\ UNCHANGED <<stabs, eip, info>>

\* The file is found; the search for the function in it begins.
file_found ==
  /\ Searched
  /\ pc = N_SO
  /\ FoundLeft # 0
  /\ lfile' = FoundLeft /\ rfile' = FoundRight
  /\ region' = <<FoundLeft, FoundRight>>
  /\ left' = FoundLeft /\ right' = FoundRight
  /\ l' = FoundLeft /\ r' = FoundRight
  /\ addr' = eip
  /\ any_matches' = FALSE
  /\ pc' = N_FUN
  /\ UNCHANGED <<stabs, eip, info>>

\* No file is found, or the one that starts at stab 0: return -1.
file_missing ==
  /\ Searched
  /\ pc = N_SO
  /\ FoundLeft = 0
  /\ info' = [info EXCEPT !.ret = -1]
  /\ pc' = "done"
  /\ UNCHANGED <<stabs, eip, search, lfile, rfile>>

\* Lines 189 to 194: the nearest N_SOL, or N_SO with an address, at or before
\* stab k of the file; -1 when there is none.
FileOf(k) ==
  Max({-1} \cup {j \in lfile .. k :
                  \/ stabs[j].n_type = N_SOL
                  \/ stabs[j].n_type = N_SO /\ stabs[j].n_value # 0})

\* Mutant: the arguments are counted from the function's own stab on.
ArgsFrom0(lo, hi) ==
  Cardinality({k \in lo .. hi - 1 : \A j \in lo .. k : stabs[j].n_type = N_PSYM})

\* The N_PSYM stabs right behind the function's, up to but not including hi.
Args(lo, hi) ==
  Cardinality({k \in lo + 1 .. hi - 1 :
                \A j \in lo + 1 .. k : stabs[j].n_type = N_PSYM})

\* The function is found, or at least a region of stabs is.  The search for
\* the line number is not there.
function_found ==
  /\ Searched
  /\ pc = N_FUN
  /\ FoundLeft <= FoundRight
  /\ info' = [info EXCEPT !.fn = FoundLeft,
                          !.fn_addr = stabs[FoundLeft].n_value,
                          !.narg = Args(FoundLeft, FoundRight),
                          !.file = FileOf(FoundLeft)]
  /\ left' = FoundLeft /\ right' = FoundRight
  /\ pc' = "done"
  /\ UNCHANGED <<stabs, eip, region, l, r, addr, any_matches, lfile, rfile>>

\* No function: perhaps an assembly file.
function_missing ==
  /\ Searched
  /\ pc = N_FUN
  /\ FoundLeft > FoundRight
  /\ info' = [info EXCEPT !.fn_addr = eip, !.file = FileOf(lfile)]
  /\ left' = FoundLeft /\ right' = FoundRight
  /\ pc' = "done"
  /\ UNCHANGED <<stabs, eip, region, l, r, addr, any_matches, lfile, rfile>>

Next ==
  \/ search_none \/ search_below \/ search_above \/ search_exact
  \/ file_found \/ file_missing \/ function_found \/ function_missing

Spec == Init /\ [][Next]_vars /\ WF_vars(Next)
-----------------------------------------------------------------------------
(* Properties.                                                             *)

\* Type invariant: the searches read stabs of their region only.
TypeOK ==
  /\ stabs \in Tables
  /\ eip \in 0 .. MaxAddr
  /\ {left, right + 1, l, r + 1} \subseteq 0 .. MaxStab + 1
  /\ Searching => region[1] <= l /\ r <= region[2]
  /\ addr \in 0 .. 2 * MaxAddr + 2
  /\ any_matches \in BOOLEAN
  /\ lfile \in Index /\ rfile \in -1 .. MaxStab
  /\ info \in [fn : -1 .. MaxStab, fn_addr : 0 .. MaxAddr, narg : 0 .. MaxStab,
               line : {0}, file : -1 .. MaxStab, ret : {0, -1}]
  /\ pc \in {N_SO, N_FUN, "done"}

\* The stabs of the type looked for in the region of the search, and those
\* of them that are not above the address.
Matching == {k \in region[1] .. region[2] : stabs[k].n_type = pc}
NotAbove == {k \in Matching : stabs[k].n_value <= eip}

\* An exact match makes the search go on with the next address, so it can
\* end at a stab of exactly that address.
NextAddressTaken ==
  /\ \E k \in Matching : stabs[k].n_value = eip
  /\ \E k \in Matching : stabs[k].n_value = eip + 1

\* What a search brackets: the last matching stab that is not above the
\* address, up to just before the next matching stab; with duplicates, and
\* with any number of other stabs in between.
SearchBrackets ==
  Searched /\ NotAbove # {} /\ ~NextAddressTaken =>
    /\ FoundLeft = Max(NotAbove)
    /\ FoundRight = Min({region[2]} \cup {k - 1 : k \in Matching \ NotAbove})

\* The function reported, when the address is at or above the first of the
\* file, is the one whose code holds the address, with all its arguments.
FunctionHoldsAddress ==
  LET own == {k \in lfile .. rfile :
                stabs[k].n_type = N_FUN /\ stabs[k].n_value <= eip}
      nextTaken == \E k \in Index : stabs[k].n_value = eip + 1
      f == info.fn
  IN  pc = "done" /\ info.ret = 0 /\ own # {} /\ ~nextTaken =>
        /\ f = Max(own)
        /\ info.narg = Cardinality({k \in f + 1 .. rfile :
                         \A j \in f + 1 .. k : stabs[j].n_type = N_PSYM})

\* Liveness: the search ends, although an exact match does not shrink the
\* interval.
LookupEnds == <>(pc = "done")
=============================================================================
