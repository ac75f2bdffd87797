----------------------------- MODULE BootLoader ----------------------------
(***************************************************************************)
(* From the boot sector to the first line of kernel C that may rely on its *)
(* globals: bootmain, readseg and readsect of boot/main.c load the kernel  *)
(* image from the disk, and i386_init of kern/init.c clears its BSS.       *)
(*                                                                         *)
(* A byte of memory is abstracted to where it came from: the number of the *)
(* byte of the image, ZERO when memset wrote it, JUNK when nothing did.    *)
(* The processor and the disk drive interleave.                            *)
(***************************************************************************)
EXTENDS Integers, Sequences, FiniteSets

CONSTANTS
  SECTSIZE,   \* 512 in the code
  HdrSects,   \* sectors read for the ELF header, 8 in the code
  LowMem,     \* 2^24 in the code: an address is taken modulo it
  Elfhdr,     \* where the header goes, 0x10000 in the code
  Images      \* bound: the kernel images, [magic, ph, edata, end]

ASSUME BootAssumption ==
  /\ SECTSIZE \in Nat \ {0} /\ HdrSects \in Nat \ {0}
  /\ LowMem \in Nat \ {0} /\ LowMem % SECTSIZE = 0
  /\ Elfhdr \in Nat /\ Elfhdr % SECTSIZE = 0
  /\ Elfhdr + SECTSIZE * HdrSects <= LowMem

JUNK == -1
ZERO == -2

RoundDown(n) == n - (n % SECTSIZE)
RoundUp(n) == RoundDown(n + SECTSIZE - 1)

ProgramHeader == [p_va : Nat, p_memsz : Nat, p_filesz : Nat, p_offset : Nat]

\* Where segment p goes, and the bytes that loading it may write.
Phys(p) == p.p_va % LowMem
Reach(p) == RoundDown(Phys(p)) .. RoundUp(Phys(p) + p.p_memsz) - 1
Scratch == Elfhdr .. Elfhdr + SECTSIZE * HdrSects - 1

(* What the linker and kern/kernel.ld see to: a segment starts at the same *)
(* place in its sector on disk and in memory; segments come in increasing  *)
(* order, and share a sector in memory only where they do on disk; none is *)
(* near the scratch space; only the last has a BSS, from edata to end.     *)
WellLinked(im) ==
  /\ im \in [magic : BOOLEAN, ph : Seq(ProgramHeader), edata : Nat, end : Nat]
  /\ im.ph # << >>
  /\ \A k \in DOMAIN im.ph :
       LET p == im.ph[k]
       IN  /\ p.p_offset % SECTSIZE = p.p_va % SECTSIZE
           /\ p.p_filesz <= p.p_memsz
           /\ k < Len(im.ph) => p.p_filesz = p.p_memsz
           /\ Reach(p) \subseteq 0 .. LowMem - 1
           /\ Reach(p) \cap Scratch = {}
  /\ \A j, k \in DOMAIN im.ph :
       LET p == im.ph[j]
           q == im.ph[k]
       IN  j < k =>
             /\ Phys(p) + p.p_memsz <= Phys(q)
             /\ \/ Reach(p) \cap Reach(q) = {}
                \/ Phys(q) - Phys(p) = q.p_offset - p.p_offset
  /\ LET last == im.ph[Len(im.ph)]
     IN  im.edata = last.p_va + last.p_filesz /\ im.end = last.p_va + last.p_memsz

ASSUME ImagesAssumption == \A im \in Images : WellLinked(im)

VARIABLES
  image,    \* the kernel on the disk; constant
  mem,      \* physical memory
  drive,    \* the disk: "idle", "busy", or "data" when a sector can be read
  sector,   \* the sector it was told to read
  ph,       \* the segment being loaded, 0 for the header itself
  va, end_va, offset,   \* the locals of readseg
  pc

segment == <<ph, va, end_va, offset>>
vars == <<image, mem, drive, sector, segment, pc>>

\* Mutant: the end is computed from the rounded address.
SegmentStartShort(k, a, count, off) ==
  /\ ph' = k
  /\ va' = RoundDown(a % LowMem)
  /\ end_va' = RoundDown(a % LowMem) + count
  /\ offset' = (off \div SECTSIZE) + 1

\* Mutant: the mask of the address keeps too few bits.
SegmentStartNarrow(k, a, count, off) ==
  /\ ph' = k
  /\ va' = RoundDown(a % (LowMem \div 2))
  /\ end_va' = (a % (LowMem \div 2)) + count
  /\ offset' = (off \div SECTSIZE) + 1

\* The call readseg(a, count, off) for segment k, down to its loop.
SegmentStart(k, a, count, off) ==
  /\ ph' = k
  /\ va' = RoundDown(a % LowMem)
  /\ end_va' = (a % LowMem) + count
  /\ offset' = (off \div SECTSIZE) + 1

\* bootmain begins with the header.  The BIOS may leave the drive at work.
Init ==
  /\ image \in Images
  /\ mem = [a \in 0 .. LowMem - 1 |-> JUNK]
  /\ drive \in {"idle", "busy"}
  /\ sector = 0
  /\ ph = 0
  /\ va = Elfhdr
  /\ end_va = Elfhdr + SECTSIZE * HdrSects
  /\ offset = 1
  /\ pc = "readsect"
-----------------------------------------------------------------------------
\* The drive finishes what it was doing.
drive_ready ==
  /\ drive = "busy"
  /\ drive' = IF sector = 0 THEN "idle" ELSE "data"
  /\ UNCHANGED <<image, mem, sector, segment, pc>>

\* readsect: the drive is ready, the command is given.
command ==
  /\ pc = "readsect"
  /\ va < end_va
  /\ drive = "idle"
  /\ sector' = offset
  /\ drive' = "busy"
  /\ pc' = "waitdisk"
  /\ UNCHANGED <<image, mem, segment>>

\* Mutant: the loop of readseg without `va += SECTSIZE'.
insl_stay ==
  /\ pc = "waitdisk"
  /\ drive = "data"
  /\ mem' = [a \in DOMAIN mem |->
              IF a \in va .. va + SECTSIZE - 1
                THEN (sector - 1) * SECTSIZE + (a - va)
                ELSE mem[a]]
  /\ drive' = "idle"
  /\ sector' = 0
  /\ pc' = "readsect"
  /\ UNCHANGED <<image, segment>>

\* readsect: the drive is ready again, the sector is copied to memory.  Its
\* first byte is byte (sector - 1) * SECTSIZE of the image.
insl ==
  /\ pc = "waitdisk"
  /\ drive = "data"
  /\ mem' = [a \in DOMAIN mem |->
              IF a \in va .. va + SECTSIZE - 1
                THEN (sector - 1) * SECTSIZE + (a - va)
                ELSE mem[a]]
  /\ drive' = "idle"
  /\ sector' = 0
  /\ va' = va + SECTSIZE
  /\ offset' = offset + 1
  /\ pc' = "readsect"
  /\ UNCHANGED <<image, ph, end_va>>

Loaded == pc = "readsect" /\ va >= end_va

\* The header is no ELF header: the processor loops for ever.
bad ==
  /\ Loaded
  /\ ph = 0
  /\ ~image.magic
  /\ pc' = "bad"
  /\ UNCHANGED <<image, mem, drive, sector, segment>>

\* The next program header.  p_memsz bytes are read, p_filesz or more.
next_segment ==
  /\ Loaded
  /\ image.magic
  /\ ph < Len(image.ph)
  /\ LET p == image.ph[ph + 1]
     IN  SegmentStart(ph + 1, p.p_va, p.p_memsz, p.p_offset)
  /\ UNCHANGED <<image, mem, drive, sector, pc>>

\* The jump to the kernel's entry.
enter ==
  /\ Loaded
  /\ image.magic
  /\ ph = Len(image.ph)
  /\ pc' = "i386_init"
  /\ UNCHANGED <<image, mem, drive, sector, segment>>

\* The physical addresses of the BSS, from edata up to end.
Bss ==
  LET first == image.edata % LowMem
  IN  first .. first + (image.end - image.edata) - 1

\* i386_init: memset(edata, 0, end - edata), before anything else.
memset ==
  /\ pc = "i386_init"
  /\ mem' = [a \in DOMAIN mem |->
              IF a \in Bss
                THEN ZERO ELSE mem[a]]
  /\ pc' = "kernel"
  /\ UNCHANGED <<image, drive, sector, segment>>

Processor == command \/ insl \/ bad \/ next_segment \/ enter \/ memset

Next == drive_ready \/ Processor

(* The drive answers in the end, and nothing stops the processor.          *)
Spec == Init /\ [][Next]_vars /\ WF_vars(drive_ready) /\ WF_vars(Processor)
-----------------------------------------------------------------------------
(* Properties.                                                             *)

\* The header that bootmain reads the program headers and the entry point
\* from, in scratch memory, survives until the jump, wherever segments that
\* are read by whole sectors reach.
HeaderSurvives ==
  ph > 0 => \A a \in Scratch : mem[a] = a - Elfhdr

\* When kernel code first runs, every segment holds its bytes of the image,
\* although a segment is read by whole sectors, over its neighbours, and the
\* BSS is read from the disk; and the BSS is zero and nothing else is.
KernelAsLinked ==
  pc = "kernel" =>
    /\ \A k \in DOMAIN image.ph : \A n \in 0 .. image.ph[k].p_filesz - 1 :
         mem[Phys(image.ph[k]) + n] = image.ph[k].p_offset + n
    /\ \A a \in DOMAIN mem :
         mem[a] = ZERO <=> a \in Bss

\* Liveness: the kernel starts unless the image is no ELF image.
Boots == <>(pc = IF image.magic THEN "kernel" ELSE "bad")
=============================================================================
