---------------------------- MODULE MCBootLoader ---------------------------
(* BootLoader with sectors of two bytes, a header of two sectors, and all  *)
(* well-linked kernels of one or two segments in twelve bytes of memory.   *)
EXTENDS BootLoader

\* Linked above the low memory, as the kernel is above KERNBASE.
Headers ==
  {p \in [p_va : 28 .. 33, p_memsz : 0 .. 4, p_filesz : 0 .. 3, p_offset : 4 .. 7] :
     /\ p.p_offset % 2 = p.p_va % 2
     /\ p.p_filesz <= p.p_memsz /\ p.p_memsz <= p.p_filesz + 2}
Texts == {p \in Headers : p.p_filesz = p.p_memsz}
OneOrTwo ==
  {<<p>> : p \in Headers} \cup
  {s \in Texts \X Headers : s[1].p_va + s[1].p_memsz <= s[2].p_va}

Image(m, s) ==
  [magic |-> m, ph |-> s,
   edata |-> s[Len(s)].p_va + s[Len(s)].p_filesz,
   end   |-> s[Len(s)].p_va + s[Len(s)].p_memsz]

MCImages ==
  {im \in {Image(TRUE, s) : s \in OneOrTwo}
            \cup {Image(FALSE, <<p>>) : p \in Headers} :
     WellLinked(im)}
=============================================================================
