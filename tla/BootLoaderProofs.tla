-------------------------- MODULE BootLoaderProofs --------------------------
(***************************************************************************)
(* Proofs about BootLoader, for any well-linked kernel, any size of sector *)
(* and any drive.                                                          *)
(***************************************************************************)
EXTENDS BootLoader, TLAPS

-----------------------------------------------------------------------------
(* Sectors.                                                                *)

\* Addresses where a sector may start.
Aligned(n) == \E q \in Nat : n = SECTSIZE * q

\* Multiples of m are at least m apart.
LEMMA MultiplesApart ==
  ASSUME NEW m \in Nat, NEW q \in Nat, NEW r \in Nat, q < r
  PROVE  m * q + m <= m * r /\ m * q \in Nat /\ m * r \in Nat
<1>1. PICK d \in Nat : r = q + 1 + d
  <2>1. r - q - 1 \in Nat /\ r = q + 1 + (r - q - 1)
    OBVIOUS
  <2> QED  BY <2>1
<1>2. m * (q + 1 + d) = m * q + m + m * d
  BY <1>1
<1>3. m * d \in Nat /\ m * q \in Nat
  BY <1>1
<1> QED  BY <1>1, <1>2, <1>3

\* A sector that starts below another ends below it.
LEMMA AlignedApart ==
  ASSUME NEW a, Aligned(a), NEW b, Aligned(b), a < b
  PROVE  a + SECTSIZE <= b
<1>1. PICK q \in Nat : a = SECTSIZE * q
  BY DEF Aligned
<1>2. PICK r \in Nat : b = SECTSIZE * r
  BY DEF Aligned
<1>3. CASE q < r
  BY <1>1, <1>2, <1>3, MultiplesApart, BootAssumption
<1>4. CASE r < q
  <2>1. SECTSIZE * r + SECTSIZE <= SECTSIZE * q /\ SECTSIZE * q \in Nat /\ SECTSIZE * r \in Nat
    BY <1>4, MultiplesApart, BootAssumption
  <2> QED  BY <1>1, <1>2, <2>1, BootAssumption
<1>5. CASE r = q
  <2>1. SECTSIZE * q \in Nat
    BY BootAssumption
  <2> QED  BY <1>1, <1>2, <1>5, <2>1
<1> QED  BY <1>3, <1>4, <1>5

\* Division with remainder.
LEMMA DivisionBy ==
  ASSUME NEW m \in Nat \ {0}, NEW n \in Nat
  PROVE  /\ n % m \in 0 .. m - 1 /\ n \div m \in Nat
         /\ n = m * (n \div m) + (n % m)
         /\ m * (n \div m) \in Nat
<1>1. n % m \in 0 .. m - 1 /\ n \div m \in Nat
  OBVIOUS
<1>2. n = m * (n \div m) + (n % m)
  OBVIOUS
<1>3. m * (n \div m) \in Nat
  BY <1>1
<1> QED  BY <1>1, <1>2, <1>3

\* The place of a byte in its sector.
LEMMA Division ==
  ASSUME NEW n \in Nat
  PROVE  /\ n % SECTSIZE \in 0 .. SECTSIZE - 1 /\ n \div SECTSIZE \in Nat
         /\ n = SECTSIZE * (n \div SECTSIZE) + (n % SECTSIZE)
         /\ SECTSIZE * (n \div SECTSIZE) \in Nat
  BY DivisionBy, BootAssumption

\* No other remainder is possible.
LEMMA Remainder ==
  ASSUME NEW m \in Nat \ {0}, NEW n \in Nat, NEW q \in Nat, NEW r \in 0 .. m - 1,
         n = m * q + r
  PROVE  n % m = r
<1> DEFINE d == n \div m
           s == n % m
<1>1. s \in 0 .. m - 1 /\ d \in Nat /\ n = m * d + s /\ m * d \in Nat
  <2>1. s \in 0 .. m - 1 /\ d \in Nat /\ n = m * d + s
    OBVIOUS
  <2> QED  BY <2>1
<1>2. m * q \in Nat
  OBVIOUS
<1> HIDE DEF d, s
<1>3. ~(d < q)
  <2> SUFFICES ASSUME d < q PROVE FALSE
    OBVIOUS
  <2>1. m * d + m <= m * q
    BY <1>1, MultiplesApart
  <2> QED  BY <1>1, <1>2, <2>1
<1>4. ~(q < d)
  <2> SUFFICES ASSUME q < d PROVE FALSE
    OBVIOUS
  <2>1. m * q + m <= m * d
    BY <1>1, MultiplesApart
  <2> QED  BY <1>1, <1>2, <2>1
<1>5. d = q
  BY <1>1, <1>3, <1>4
<1>6. m * q + s = m * q + r
  BY <1>1, <1>5
<1>7. s = r
  BY <1>1, <1>2, <1>6
<1> QED  BY <1>7 DEF s

\* Rounding gives the start of a sector, less than a sector away.
LEMMA Rounding ==
  ASSUME NEW n \in Nat
  PROVE  /\ RoundDown(n) \in Nat /\ Aligned(RoundDown(n))
         /\ RoundDown(n) <= n /\ n < RoundDown(n) + SECTSIZE
         /\ RoundDown(n) = SECTSIZE * (n \div SECTSIZE)
         /\ RoundUp(n) \in Nat /\ Aligned(RoundUp(n))
         /\ n <= RoundUp(n) /\ RoundUp(n) < n + SECTSIZE
<1>1. SECTSIZE \in Nat \ {0}
  BY BootAssumption
<1>2. ASSUME NEW m \in Nat
      PROVE  /\ RoundDown(m) \in Nat /\ Aligned(RoundDown(m))
             /\ RoundDown(m) <= m /\ m < RoundDown(m) + SECTSIZE
             /\ RoundDown(m) = SECTSIZE * (m \div SECTSIZE)
  <2>1. /\ m % SECTSIZE \in 0 .. SECTSIZE - 1 /\ m \div SECTSIZE \in Nat
        /\ m = SECTSIZE * (m \div SECTSIZE) + (m % SECTSIZE)
        /\ SECTSIZE * (m \div SECTSIZE) \in Nat
    BY Division
  <2>2. RoundDown(m) = m - (m % SECTSIZE)
    BY Zenon DEF RoundDown
  <2>3. RoundDown(m) = SECTSIZE * (m \div SECTSIZE)
    BY <2>1, <2>2
  <2>4. Aligned(RoundDown(m))
    BY <2>1, <2>3 DEF Aligned
  <2>5. RoundDown(m) <= m /\ m < RoundDown(m) + SECTSIZE
    <3> DEFINE x == SECTSIZE * (m \div SECTSIZE)
    <3>1. x \in Nat /\ RoundDown(m) = x /\ \E y \in 0 .. SECTSIZE - 1 : m = x + y
      BY <2>1, <2>3
    <3> HIDE DEF x
    <3> QED  BY <1>1, <3>1
  <2> QED  BY <2>1, <2>3, <2>4, <2>5
<1>3. n + SECTSIZE - 1 \in Nat /\ RoundUp(n) = RoundDown(n + SECTSIZE - 1)
  BY <1>1 DEF RoundUp
<1>4. /\ RoundDown(n + SECTSIZE - 1) \in Nat /\ Aligned(RoundDown(n + SECTSIZE - 1))
      /\ RoundDown(n + SECTSIZE - 1) <= n + SECTSIZE - 1
      /\ n + SECTSIZE - 1 < RoundDown(n + SECTSIZE - 1) + SECTSIZE
  BY <1>2, <1>3
<1>5. /\ RoundUp(n) \in Nat /\ Aligned(RoundUp(n))
      /\ RoundUp(n) <= n + SECTSIZE - 1 /\ n + SECTSIZE - 1 < RoundUp(n) + SECTSIZE
  BY <1>3, <1>4
<1>6. n <= RoundUp(n) /\ RoundUp(n) < n + SECTSIZE
  BY <1>1, <1>5
<1> QED  BY <1>2, <1>5, <1>6

\* A sector that starts below n ends at the rounded n or below it, and one
\* that starts at n or above it starts at the rounded n or above it.
LEMMA SectorOfEnd ==
  ASSUME NEW a \in Nat, Aligned(a), NEW n \in Nat
  PROVE  /\ a < n => a + SECTSIZE <= RoundUp(n)
         /\ n <= a => RoundUp(n) <= a
<1>1. /\ RoundUp(n) \in Nat /\ Aligned(RoundUp(n)) /\ SECTSIZE \in Nat
      /\ n <= RoundUp(n) /\ RoundUp(n) < n + SECTSIZE
  BY Rounding, BootAssumption
<1>2. a < n => a + SECTSIZE <= RoundUp(n)
  <2> SUFFICES ASSUME a < n PROVE a + SECTSIZE <= RoundUp(n)
    OBVIOUS
  <2>1. a < RoundUp(n)
    BY <1>1
  <2> QED  BY <1>1, <2>1, AlignedApart
<1>3. a < RoundUp(n) => a + SECTSIZE <= RoundUp(n)
  BY <1>1, AlignedApart
<1> QED  BY <1>1, <1>2, <1>3

\* Sectors follow each other.
LEMMA NextSector ==
  ASSUME NEW a \in Nat, Aligned(a)
  PROVE  Aligned(a + SECTSIZE) /\ a + SECTSIZE \in Nat
<1>1. PICK q \in Nat : a = SECTSIZE * q
  BY DEF Aligned
<1>2. q + 1 \in Nat /\ SECTSIZE * (q + 1) = SECTSIZE * q + SECTSIZE
  BY BootAssumption
<1> QED  BY <1>1, <1>2, BootAssumption DEF Aligned

\* The start of a segment in its sector is not changed by the mask of readseg.
LEMMA MaskKeepsPlace ==
  ASSUME NEW n \in Nat
  PROVE  /\ n % LowMem \in Nat /\ n % LowMem <= n /\ n % LowMem < LowMem
         /\ (n % LowMem) % SECTSIZE = n % SECTSIZE
<1> DEFINE r == n % LowMem
           d == n \div LowMem
<1>1. /\ r \in 0 .. LowMem - 1 /\ d \in Nat /\ n = LowMem * d + r
      /\ LowMem \in Nat /\ SECTSIZE \in Nat
  BY BootAssumption
<1> HIDE DEF r, d
<1>2. PICK m \in Nat : LowMem = SECTSIZE * m
  <2>1. LowMem = SECTSIZE * (LowMem \div SECTSIZE) + (LowMem % SECTSIZE)
        /\ LowMem \div SECTSIZE \in Nat /\ SECTSIZE * (LowMem \div SECTSIZE) \in Nat
    BY <1>1, Division
  <2> QED  BY <2>1, BootAssumption
<1>3. /\ r % SECTSIZE \in 0 .. SECTSIZE - 1 /\ r \div SECTSIZE \in Nat
      /\ r = SECTSIZE * (r \div SECTSIZE) + (r % SECTSIZE)
  BY <1>1, Division
<1> DEFINE u == r % SECTSIZE
           v == r \div SECTSIZE
<1>4. u \in 0 .. SECTSIZE - 1 /\ v \in Nat /\ r = SECTSIZE * v + u
  BY <1>3
<1> HIDE DEF u, v
<1>5. m * d + v \in Nat
  BY <1>1, <1>2, <1>4
<1>6. n = SECTSIZE * (m * d + v) + u
  <2>1. (SECTSIZE * m) * d = SECTSIZE * (m * d)
    BY <1>1, <1>2
  <2>2. SECTSIZE * (m * d + v) = SECTSIZE * (m * d) + SECTSIZE * v
    BY <1>1, <1>2, <1>4
  <2>3. m * d \in Nat /\ SECTSIZE * (m * d) \in Nat /\ SECTSIZE * v \in Nat
    BY <1>1, <1>2, <1>4
  <2> QED  BY <1>1, <1>2, <1>4, <2>1, <2>2, <2>3
<1>7. n % SECTSIZE = u
  BY <1>1, <1>4, <1>5, <1>6, Remainder, BootAssumption
<1>8. LowMem * d \in Nat
  BY <1>1
<1> QED  BY <1>1, <1>7, <1>8 DEF r, u
-----------------------------------------------------------------------------
(* What is loaded.                                                         *)

\* The header is segment 0: where a segment starts and ends in memory, where
\* it is in the image, and the sectors that it occupies in memory.
Start(im, j) == IF j = 0 THEN Elfhdr ELSE Phys(im.ph[j])
Finish(im, j) ==
  IF j = 0 THEN Elfhdr + SECTSIZE * HdrSects ELSE Phys(im.ph[j]) + im.ph[j].p_memsz
Source(im, j) == IF j = 0 THEN 0 ELSE im.ph[j].p_offset
Area(im, j) == RoundDown(Start(im, j)) .. RoundUp(Finish(im, j)) - 1

\* The memory m holds the bytes of the image in all sectors of the segments
\* before the k-th, and in those of the k-th below v.
Held(im, m, k, v) ==
  \A j \in 0 .. k : \A a \in Area(im, j) :
    j < k \/ a < v => m[a] = a - Start(im, j) + Source(im, j)

\* The inductive invariant.  What readseg has read so far is there; it is at
\* the sector of the image that belongs at va.
BootInv ==
  /\ image \in Images
  /\ mem \in [0 .. LowMem - 1 -> Int]
  /\ ph \in 0 .. Len(image.ph)
  /\ va \in Nat /\ Aligned(va) /\ RoundDown(Start(image, ph)) <= va
  /\ end_va = Finish(image, ph)
  /\ offset \in Nat \ {0}
  /\ (offset - 1) * SECTSIZE = va - Start(image, ph) + Source(image, ph)
  /\ pc \in {"readsect", "waitdisk", "bad", "i386_init", "kernel"}
  /\ pc = "waitdisk" => va < end_va /\ sector = offset
  /\ pc \in {"i386_init", "kernel"} => ph = Len(image.ph) /\ va >= end_va
  /\ pc # "kernel" =>
       /\ Held(image, mem, ph, va)
       /\ \A a \in 0 .. LowMem - 1 : mem[a] # ZERO
  /\ pc = "kernel" => HeaderSurvives /\ KernelAsLinked

\* What the assumptions say of segment k.
LEMMA HeaderFacts ==
  ASSUME NEW im \in Images, NEW k \in 1 .. Len(im.ph)
  PROVE  /\ im.ph[k].p_va \in Nat /\ im.ph[k].p_memsz \in Nat
         /\ im.ph[k].p_filesz \in Nat /\ im.ph[k].p_offset \in Nat
         /\ Phys(im.ph[k]) \in Nat /\ Phys(im.ph[k]) <= im.ph[k].p_va
         /\ Phys(im.ph[k]) < LowMem
         /\ im.ph[k].p_offset % SECTSIZE = Phys(im.ph[k]) % SECTSIZE
         /\ im.ph[k].p_filesz <= im.ph[k].p_memsz
         /\ k < Len(im.ph) => im.ph[k].p_filesz = im.ph[k].p_memsz
         /\ Reach(im.ph[k]) \subseteq 0 .. LowMem - 1
         /\ Reach(im.ph[k]) \cap Scratch = {}
<1>1. WellLinked(im)
  BY ImagesAssumption
<1>2. im.ph \in Seq(ProgramHeader) /\ k \in DOMAIN im.ph
  BY <1>1 DEF WellLinked
<1>3. im.ph[k] \in ProgramHeader
  BY <1>2
<1>4. /\ im.ph[k].p_va \in Nat /\ im.ph[k].p_memsz \in Nat
      /\ im.ph[k].p_filesz \in Nat /\ im.ph[k].p_offset \in Nat
  BY <1>3 DEF ProgramHeader
<1>5. /\ im.ph[k].p_offset % SECTSIZE = im.ph[k].p_va % SECTSIZE
      /\ im.ph[k].p_filesz <= im.ph[k].p_memsz
      /\ k < Len(im.ph) => im.ph[k].p_filesz = im.ph[k].p_memsz
      /\ Reach(im.ph[k]) \subseteq 0 .. LowMem - 1
      /\ Reach(im.ph[k]) \cap Scratch = {}
  BY <1>1, <1>2, Zenon DEF WellLinked
<1>6. /\ Phys(im.ph[k]) \in Nat /\ Phys(im.ph[k]) <= im.ph[k].p_va
      /\ Phys(im.ph[k]) < LowMem
      /\ Phys(im.ph[k]) % SECTSIZE = im.ph[k].p_va % SECTSIZE
  BY <1>4, MaskKeepsPlace DEF Phys
<1> QED  BY <1>4, <1>5, <1>6

\* The scratch space is as many whole sectors as are read.
LEMMA ScratchFacts ==
  /\ Elfhdr \in Nat /\ Aligned(Elfhdr) /\ RoundDown(Elfhdr) = Elfhdr
  /\ SECTSIZE * HdrSects \in Nat /\ Elfhdr + SECTSIZE * HdrSects \in Nat
  /\ RoundUp(Elfhdr + SECTSIZE * HdrSects) = Elfhdr + SECTSIZE * HdrSects
<1>1. /\ Elfhdr \in Nat /\ SECTSIZE \in Nat /\ HdrSects \in Nat
      /\ SECTSIZE * HdrSects \in Nat /\ Elfhdr + SECTSIZE * HdrSects \in Nat
  BY BootAssumption
<1>2. RoundDown(Elfhdr) = Elfhdr
  BY BootAssumption DEF RoundDown
<1>3. PICK q \in Nat : Elfhdr = SECTSIZE * q
  BY <1>1, <1>2, Rounding DEF Aligned
<1> DEFINE n == Elfhdr + SECTSIZE * HdrSects
<1>4. Aligned(n)
  <2>1. n = SECTSIZE * (q + HdrSects) /\ q + HdrSects \in Nat
    BY <1>1, <1>3
  <2> QED  BY <2>1 DEF Aligned
<1>5. n \in Nat
  BY <1>1
<1> HIDE DEF n
<1>6. /\ RoundUp(n) \in Nat /\ Aligned(RoundUp(n)) /\ n <= RoundUp(n)
      /\ RoundUp(n) < n + SECTSIZE
  BY <1>5, Rounding
<1>7. n < RoundUp(n) => n + SECTSIZE <= RoundUp(n)
  BY <1>4, <1>6, AlignedApart
<1>8. RoundUp(n) = n
  BY <1>1, <1>5, <1>6, <1>7
<1> QED  BY <1>1, <1>2, <1>3, <1>8 DEF n, Aligned

\* The same facts for every segment, the header among them.
LEMMA SegmentFacts ==
  ASSUME NEW im \in Images, NEW j \in 0 .. Len(im.ph)
  PROVE  /\ Start(im, j) \in Nat /\ Finish(im, j) \in Nat /\ Source(im, j) \in Nat
         /\ Start(im, j) <= Finish(im, j)
         /\ Source(im, j) % SECTSIZE = Start(im, j) % SECTSIZE
         /\ Area(im, j) = IF j = 0 THEN Scratch ELSE Reach(im.ph[j])
         /\ Area(im, j) \subseteq 0 .. LowMem - 1
<1>1. CASE j = 0
  <2>1. Start(im, j) = Elfhdr /\ Source(im, j) = 0 /\ Finish(im, j) = Elfhdr + SECTSIZE * HdrSects
    BY <1>1 DEF Start, Source, Finish
  <2>2. 0 % SECTSIZE = 0 /\ Elfhdr % SECTSIZE = 0
    BY BootAssumption
  <2>3. Area(im, j) = Scratch
    <3>1. Area(im, j) = RoundDown(Elfhdr) .. RoundUp(Elfhdr + SECTSIZE * HdrSects) - 1
      BY <2>1, Zenon DEF Area
    <3>2. /\ RoundDown(Elfhdr) = Elfhdr
          /\ RoundUp(Elfhdr + SECTSIZE * HdrSects) = Elfhdr + SECTSIZE * HdrSects
      BY ScratchFacts
    <3>3. (Elfhdr + SECTSIZE * HdrSects) - 1 = Elfhdr + (SECTSIZE * HdrSects - 1)
      BY ScratchFacts
    <3> QED  BY <3>1, <3>2, <3>3, Zenon DEF Scratch
  <2>4. Scratch \subseteq 0 .. LowMem - 1
    BY ScratchFacts, BootAssumption DEF Scratch
  <2> QED  BY <1>1, <2>1, <2>2, <2>3, <2>4, ScratchFacts
<1>2. CASE j \in 1 .. Len(im.ph)
  <2>1. /\ Start(im, j) = Phys(im.ph[j]) /\ Source(im, j) = im.ph[j].p_offset
        /\ Finish(im, j) = Phys(im.ph[j]) + im.ph[j].p_memsz
    BY <1>2 DEF Start, Source, Finish
  <2>2. Area(im, j) = Reach(im.ph[j])
    BY <2>1, Zenon DEF Area, Reach
  <2>3. /\ Phys(im.ph[j]) \in Nat /\ im.ph[j].p_memsz \in Nat /\ im.ph[j].p_offset \in Nat
        /\ im.ph[j].p_offset % SECTSIZE = Phys(im.ph[j]) % SECTSIZE
        /\ Reach(im.ph[j]) \subseteq 0 .. LowMem - 1
    BY <1>2, HeaderFacts
  <2>4. j # 0
    BY <1>2
  <2>5. Phys(im.ph[j]) + im.ph[j].p_memsz \in Nat
        /\ Phys(im.ph[j]) <= Phys(im.ph[j]) + im.ph[j].p_memsz
    BY <2>3
  <2> QED  BY <2>1, <2>2, <2>3, <2>4, <2>5
<1>3. im.ph \in Seq(ProgramHeader)
  BY ImagesAssumption DEF WellLinked
<1> QED  BY <1>1, <1>2, <1>3

\* Segments that share a sector in memory have the same distance in the image.
LEMMA SharedSectors ==
  ASSUME NEW im \in Images, NEW k \in 0 .. Len(im.ph), NEW j \in 0 .. k,
         NEW a \in Area(im, j), a \in Area(im, k)
  PROVE  a - Start(im, j) + Source(im, j) = a - Start(im, k) + Source(im, k)
<1>1. im.ph \in Seq(ProgramHeader) /\ WellLinked(im)
  BY ImagesAssumption DEF WellLinked
<1>2. Len(im.ph) \in Nat /\ j \in 0 .. Len(im.ph)
  BY <1>1
<1>3. CASE j = k
  BY <1>3
<1>4. CASE j < k /\ j = 0
  <2>1. a \in Scratch /\ a \in Reach(im.ph[k])
    BY <1>2, <1>4, SegmentFacts
  <2>2. Reach(im.ph[k]) \cap Scratch = {}
    BY <1>2, <1>4, HeaderFacts
  <2> QED  BY <2>1, <2>2
<1>5. CASE j < k /\ j # 0
  <2>1. a \in Reach(im.ph[j]) /\ a \in Reach(im.ph[k])
    BY <1>2, <1>5, SegmentFacts
  <2>2. j \in DOMAIN im.ph /\ k \in DOMAIN im.ph
    BY <1>1, <1>2, <1>5
  <2>3. \/ Reach(im.ph[j]) \cap Reach(im.ph[k]) = {}
        \/ Phys(im.ph[k]) - Phys(im.ph[j]) = im.ph[k].p_offset - im.ph[j].p_offset
    BY <1>1, <1>5, <2>2, Zenon DEF WellLinked
  <2>4. Phys(im.ph[k]) - Phys(im.ph[j]) = im.ph[k].p_offset - im.ph[j].p_offset
    BY <2>1, <2>3
  <2>5. /\ Start(im, k) = Phys(im.ph[k]) /\ Start(im, j) = Phys(im.ph[j])
        /\ Source(im, k) = im.ph[k].p_offset /\ Source(im, j) = im.ph[j].p_offset
    BY <1>5 DEF Start, Source
  <2>6. /\ Start(im, k) \in Nat /\ Start(im, j) \in Nat /\ Source(im, k) \in Nat
        /\ Source(im, j) \in Nat /\ Area(im, k) \subseteq 0 .. LowMem - 1 /\ LowMem \in Nat
    BY <1>2, SegmentFacts, BootAssumption
  <2>7. a \in Int
    BY <2>6
  <2> DEFINE p == Start(im, j)
             q == Start(im, k)
             f == Source(im, j)
             g == Source(im, k)
  <2>8. q - p = g - f
    BY <2>4, <2>5
  <2>9. p \in Int /\ q \in Int /\ f \in Int /\ g \in Int
    BY <2>6
  <2>10. a - p + f = a - q + g
    <3> HIDE DEF p, q, f, g
    <3> QED  BY <2>7, <2>8, <2>9
  <2> QED  BY <2>10
<1> QED  BY <1>2, <1>3, <1>4, <1>5

\* readseg of a segment starts with the sector that its first byte is in.
LEMMA FirstSector ==
  ASSUME NEW im \in Images, NEW j \in 0 .. Len(im.ph)
  PROVE  LET v == RoundDown(Start(im, j))
             o == (Source(im, j) \div SECTSIZE) + 1
         IN  /\ v \in Nat /\ Aligned(v) /\ o \in Nat \ {0}
             /\ (o - 1) * SECTSIZE = v - Start(im, j) + Source(im, j)
<1> DEFINE b == Start(im, j)
           f == Source(im, j)
<1>1. b \in Nat /\ f \in Nat /\ f % SECTSIZE = b % SECTSIZE
  BY SegmentFacts
<1> HIDE DEF b, f
<1>2. /\ f \div SECTSIZE \in Nat /\ f = SECTSIZE * (f \div SECTSIZE) + (f % SECTSIZE)
      /\ f % SECTSIZE \in 0 .. SECTSIZE - 1 /\ SECTSIZE \in Nat
      /\ SECTSIZE * (f \div SECTSIZE) \in Nat
  BY <1>1, Division, BootAssumption
<1>3. RoundDown(b) \in Nat /\ Aligned(RoundDown(b))
  BY <1>1, Rounding
<1>4. RoundDown(b) = b - (f % SECTSIZE)
  BY <1>1, Zenon DEF RoundDown
<1>5. ((f \div SECTSIZE) + 1) - 1 = f \div SECTSIZE
  BY <1>2
<1>6. (f \div SECTSIZE) * SECTSIZE = SECTSIZE * (f \div SECTSIZE)
  BY <1>2
<1>7. f % SECTSIZE \in Nat
  BY <1>2
<1>8. SECTSIZE * (f \div SECTSIZE) = (b - (f % SECTSIZE)) - b + f
  <2> DEFINE x == SECTSIZE * (f \div SECTSIZE)
             y == f % SECTSIZE
  <2>1. x \in Nat /\ y \in Nat /\ f = x + y
    BY <1>2, <1>7
  <2> HIDE DEF x, y
  <2>2. x = (b - y) - b + f
    BY <1>1, <2>1
  <2> QED  BY <2>2 DEF x, y
<1>9. (((f \div SECTSIZE) + 1) - 1) * SECTSIZE = RoundDown(b) - b + f
  BY <1>4, <1>5, <1>6, <1>8
<1>10. (f \div SECTSIZE) + 1 \in Nat \ {0}
  <2>1. \A x \in Nat : x + 1 \in Nat \ {0}
    OBVIOUS
  <2> QED  BY <1>2, <2>1
<1> QED  BY <1>3, <1>9, <1>10 DEF b, f
-----------------------------------------------------------------------------
(* Each step keeps the invariant.                                          *)

\* Types that the steps need.
LEMMA BootTypes ==
  ASSUME BootInv
  PROVE  /\ image \in Images /\ image.ph \in Seq(ProgramHeader) /\ WellLinked(image)
         /\ Len(image.ph) \in Nat /\ ph \in 0 .. Len(image.ph) /\ ph \in Nat
         /\ Start(image, ph) \in Nat /\ Finish(image, ph) \in Nat /\ Source(image, ph) \in Nat
         /\ LowMem \in Nat /\ SECTSIZE \in Nat \ {0}
<1>1. image \in Images /\ ph \in 0 .. Len(image.ph)
  BY DEF BootInv
<1>2. image.ph \in Seq(ProgramHeader) /\ WellLinked(image)
  BY <1>1, ImagesAssumption DEF WellLinked
<1> QED  BY <1>1, <1>2, SegmentFacts, BootAssumption

\* Before the first sector nothing is claimed of the memory.
LEMMA BootStarts == Init => BootInv
<1> SUFFICES ASSUME Init PROVE BootInv
  OBVIOUS
<1>1. /\ image \in Images /\ mem = [a \in 0 .. LowMem - 1 |-> JUNK] /\ ph = 0
      /\ va = Elfhdr /\ end_va = Elfhdr + SECTSIZE * HdrSects /\ offset = 1
      /\ pc = "readsect"
  BY DEF Init
<1>2. Len(image.ph) \in Nat
  BY <1>1, ImagesAssumption DEF WellLinked
<1>3. Start(image, 0) = Elfhdr /\ Source(image, 0) = 0
      /\ Finish(image, 0) = Elfhdr + SECTSIZE * HdrSects
  BY DEF Start, Source, Finish
<1>4. (offset - 1) * SECTSIZE = va - Start(image, ph) + Source(image, ph)
  <2>1. (1 - 1) * SECTSIZE = 0 /\ Elfhdr - Elfhdr + 0 = 0
    BY BootAssumption
  <2> QED  BY <1>1, <1>3, <2>1
<1>5. Held(image, mem, ph, va)
  <2> SUFFICES ASSUME NEW j \in 0 .. 0, NEW a \in Area(image, j), a < Elfhdr PROVE FALSE
    BY <1>1 DEF Held
  <2>1. j = 0 /\ Area(image, 0) = Scratch
    BY <1>1, <1>2, SegmentFacts
  <2> QED  BY <2>1, ScratchFacts DEF Scratch
<1>6. JUNK \in Int /\ JUNK # ZERO
  BY DEF JUNK, ZERO
<1>7. RoundDown(Start(image, ph)) <= va
  BY <1>1, <1>3, ScratchFacts
<1>8. /\ mem \in [0 .. LowMem - 1 -> Int] /\ \A a \in 0 .. LowMem - 1 : mem[a] # ZERO
  BY <1>1, <1>6
<1> QED  BY <1>1, <1>2, <1>3, <1>4, <1>5, <1>7, <1>8, ScratchFacts DEF BootInv

\* The command for the sector that offset says.
LEMMA CommandKeeps == ASSUME BootInv, command PROVE BootInv'
<1>1. /\ pc = "readsect" /\ va < end_va /\ sector' = offset /\ pc' = "waitdisk"
      /\ image' = image /\ mem' = mem /\ UNCHANGED segment
  BY DEF command
<1>2. ph' = ph /\ va' = va /\ end_va' = end_va /\ offset' = offset
  BY <1>1 DEF segment
<1> QED  BY <1>1, <1>2 DEF BootInv, Held

\* A sector that is copied holds what belongs there, for every segment that
\* has a byte of it.
LEMMA InslKeeps == ASSUME BootInv, insl PROVE BootInv'
<1> DEFINE b == Start(image, ph)
           f == Source(image, ph)
           e == Finish(image, ph)
<1>1. /\ pc = "waitdisk" /\ va' = va + SECTSIZE /\ offset' = offset + 1
      /\ pc' = "readsect" /\ image' = image /\ ph' = ph /\ end_va' = end_va
      /\ mem' = [a \in DOMAIN mem |->
                  IF a \in va .. va + SECTSIZE - 1
                    THEN (sector - 1) * SECTSIZE + (a - va)
                    ELSE mem[a]]
  BY DEF insl
<1>2. /\ b \in Nat /\ f \in Nat /\ e \in Nat /\ SECTSIZE \in Nat \ {0} /\ LowMem \in Nat
      /\ Len(image.ph) \in Nat /\ ph \in 0 .. Len(image.ph) /\ image \in Images
      /\ ph \in Nat
  BY BootTypes
<1>3. /\ mem \in [0 .. LowMem - 1 -> Int] /\ va \in Nat /\ Aligned(va)
      /\ RoundDown(b) <= va /\ end_va = e /\ offset \in Nat \ {0}
      /\ (offset - 1) * SECTSIZE = va - b + f
      /\ sector = offset /\ va < end_va
      /\ Held(image, mem, ph, va) /\ \A a \in 0 .. LowMem - 1 : mem[a] # ZERO
  BY <1>1 DEF BootInv
<1>4. /\ Aligned(va + SECTSIZE) /\ va + SECTSIZE \in Nat
  BY <1>3, NextSector
<1>5. /\ Area(image, ph) = RoundDown(b) .. RoundUp(e) - 1
      /\ Area(image, ph) \subseteq 0 .. LowMem - 1
  BY <1>2, SegmentFacts DEF Area
<1>6. /\ RoundDown(b) \in Nat /\ RoundUp(e) \in Nat /\ va + SECTSIZE <= RoundUp(e)
      /\ b < RoundDown(b) + SECTSIZE
  BY <1>2, <1>3, Rounding, SectorOfEnd
<1> HIDE DEF b, f, e
<1>7. \A a \in va .. va + SECTSIZE - 1 : a \in Area(image, ph)
  BY <1>2, <1>3, <1>5, <1>6
<1>8. ASSUME NEW a \in va .. va + SECTSIZE - 1
      PROVE  mem'[a] = a - b + f /\ a - b + f \in Nat
  <2>1. a \in DOMAIN mem
    BY <1>3, <1>5, <1>7
  <2>2. mem'[a] = (offset - 1) * SECTSIZE + (a - va)
    BY <1>1, <1>3, <2>1
  <2>3. mem'[a] = (va - b + f) + (a - va)
    BY <1>3, <2>2
  <2>4. a \in Int /\ va <= a
    BY <1>3
  <2>5. (va - b + f) + (a - va) = a - b + f
    BY <1>2, <1>3, <2>4
  <2>6. va - b + f \in Nat
    <3>1. (offset - 1) * SECTSIZE \in Nat
      BY <1>2, <1>3
    <3> QED  BY <1>3, <3>1
  <2>7. a - va \in Nat
    BY <1>3, <2>4
  <2>8. \A x, y \in Nat : x + y \in Nat
    OBVIOUS
  <2> QED  BY <2>3, <2>5, <2>6, <2>7, <2>8
<1>9. \A a \in 0 .. LowMem - 1 : a \notin va .. va + SECTSIZE - 1 => mem'[a] = mem[a]
  BY <1>1, <1>3
<1>10. Held(image, mem', ph, va + SECTSIZE)
  <2> SUFFICES ASSUME NEW j \in 0 .. ph, NEW a \in Area(image, j),
                      j < ph \/ a < va + SECTSIZE
               PROVE  mem'[a] = a - Start(image, j) + Source(image, j)
    BY DEF Held
  <2>1. j \in 0 .. Len(image.ph) /\ j \in Nat
    BY <1>2
  <2>2. a \in 0 .. LowMem - 1
    BY <1>2, <2>1, SegmentFacts
  <2>3. CASE a \in va .. va + SECTSIZE - 1
    <3>1. a \in Area(image, ph)
      BY <1>7, <2>3
    <3>2. a - Start(image, j) + Source(image, j) = a - b + f
      BY <1>2, <3>1, SharedSectors DEF b, f
    <3> QED  BY <1>8, <2>3, <3>2
  <2>4. CASE a \notin va .. va + SECTSIZE - 1
    <3>1. j < ph \/ a < va
      BY <1>2, <1>3, <2>2, <2>4
    <3>2. mem[a] = a - Start(image, j) + Source(image, j)
      BY <1>3, <3>1 DEF Held
    <3> QED  BY <1>9, <2>2, <2>4, <3>2
  <2> QED  BY <2>3, <2>4
<1>11. ASSUME NEW a \in 0 .. LowMem - 1
       PROVE  mem'[a] \in Int /\ mem'[a] # ZERO
  <2>1. CASE a \in va .. va + SECTSIZE - 1
    BY <1>8, <2>1 DEF ZERO
  <2>2. CASE a \notin va .. va + SECTSIZE - 1
    BY <1>3, <1>9, <2>2
  <2> QED  BY <2>1, <2>2
<1>12. mem' \in [0 .. LowMem - 1 -> Int]
  <2>1. DOMAIN mem = 0 .. LowMem - 1
    BY <1>3
  <2>2. mem' = [a \in 0 .. LowMem - 1 |-> mem'[a]]
    BY <1>1, <2>1
  <2> QED  BY <1>11, <2>2
<1>13. (offset' - 1) * SECTSIZE = va' - b + f
  <2>1. (offset + 1 - 1) * SECTSIZE = (offset - 1) * SECTSIZE + SECTSIZE
    BY <1>2, <1>3
  <2>2. (va - b + f) + SECTSIZE = (va + SECTSIZE) - b + f
    BY <1>2, <1>3
  <2> QED  BY <1>1, <1>3, <2>1, <2>2
<1>14. offset' \in Nat \ {0} /\ RoundDown(b) <= va'
  BY <1>1, <1>2, <1>3, <1>6
<1>15. /\ (offset' - 1) * SECTSIZE = va' - Start(image', ph') + Source(image', ph')
       /\ RoundDown(Start(image', ph')) <= va' /\ end_va' = Finish(image', ph')
  BY <1>1, <1>3, <1>13, <1>14 DEF b, f, e
<1>16. Held(image', mem', ph', va') /\ Aligned(va') /\ va' \in Nat
  BY <1>1, <1>4, <1>10
<1> QED
  BY <1>1, <1>2, <1>11, <1>12, <1>14, <1>15, <1>16 DEF BootInv

\* When readseg ends, every sector of its segment is there.
LEMMA WholeSegment ==
  ASSUME BootInv, va >= end_va, pc # "kernel"
  PROVE  \A j \in 0 .. ph : \A a \in Area(image, j) :
           mem[a] = a - Start(image, j) + Source(image, j)
<1> SUFFICES ASSUME NEW j \in 0 .. ph, NEW a \in Area(image, j)
             PROVE  mem[a] = a - Start(image, j) + Source(image, j)
  OBVIOUS
<1>1. /\ Held(image, mem, ph, va) /\ end_va = Finish(image, ph) /\ va \in Nat
      /\ Aligned(va)
  BY DEF BootInv
<1>2. /\ Finish(image, ph) \in Nat /\ Start(image, ph) \in Nat /\ ph \in Nat
  BY BootTypes
<1>3. RoundUp(Finish(image, ph)) <= va
  BY <1>1, <1>2, SectorOfEnd
<1>4. j = ph => a < va
  <2> SUFFICES ASSUME j = ph PROVE a < va
    OBVIOUS
  <2>1. a \in RoundDown(Start(image, ph)) .. RoundUp(Finish(image, ph)) - 1
    BY DEF Area
  <2>2. RoundDown(Start(image, ph)) \in Nat /\ RoundUp(Finish(image, ph)) \in Nat
    BY <1>2, Rounding
  <2> QED  BY <1>1, <1>3, <2>1, <2>2
<1>5. j < ph \/ a < va
  BY <1>2, <1>4
<1> QED  BY <1>1, <1>5 DEF Held

\* The next call of readseg has nothing of its own to hold yet.
LEMMA NextSegmentKeeps == ASSUME BootInv, next_segment PROVE BootInv'
<1>1. /\ pc = "readsect" /\ va >= end_va /\ ph < Len(image.ph)
      /\ ph' = ph + 1
      /\ va' = RoundDown(image.ph[ph + 1].p_va % LowMem)
      /\ end_va' = (image.ph[ph + 1].p_va % LowMem) + image.ph[ph + 1].p_memsz
      /\ offset' = (image.ph[ph + 1].p_offset \div SECTSIZE) + 1
      /\ image' = image /\ mem' = mem /\ pc' = pc
  BY DEF next_segment, Loaded, SegmentStart
<1> DEFINE k == ph + 1
<1>2. /\ k \in 0 .. Len(image.ph) /\ k # 0 /\ image \in Images /\ ph \in Nat
      /\ Len(image.ph) \in Nat
  BY <1>1, BootTypes
<1>3. /\ Start(image, k) = image.ph[k].p_va % LowMem
      /\ Finish(image, k) = (image.ph[k].p_va % LowMem) + image.ph[k].p_memsz
      /\ Source(image, k) = image.ph[k].p_offset
  BY <1>2 DEF Start, Finish, Source, Phys
<1>4. /\ va' = RoundDown(Start(image, k)) /\ end_va' = Finish(image, k)
      /\ offset' = (Source(image, k) \div SECTSIZE) + 1 /\ ph' = k
  BY <1>1, <1>3
<1>5. /\ mem \in [0 .. LowMem - 1 -> Int] /\ \A a \in 0 .. LowMem - 1 : mem[a] # ZERO
  BY <1>1 DEF BootInv
<1> HIDE DEF k
<1>6. /\ va' \in Nat /\ Aligned(va') /\ offset' \in Nat \ {0}
      /\ (offset' - 1) * SECTSIZE = va' - Start(image, k) + Source(image, k)
  BY <1>2, <1>4, FirstSector
<1>7. Held(image, mem, k, va')
  <2> SUFFICES ASSUME NEW j \in 0 .. k, NEW a \in Area(image, j), j < k \/ a < va'
               PROVE  mem[a] = a - Start(image, j) + Source(image, j)
    BY DEF Held
  <2>1. CASE j < k
    <3>1. j \in 0 .. ph
      BY <1>2, <2>1 DEF k
    <3> QED  BY <1>1, <3>1, WholeSegment
  <2>2. CASE ~(j < k)
    <3>1. j = k /\ a < va'
      BY <1>2, <2>2
    <3>2. a \in RoundDown(Start(image, k)) .. RoundUp(Finish(image, k)) - 1
      BY <3>1 DEF Area
    <3>3. Start(image, k) \in Nat /\ Finish(image, k) \in Nat
      BY <1>2, SegmentFacts
    <3>4. RoundDown(Start(image, k)) \in Nat /\ RoundUp(Finish(image, k)) \in Nat
      BY <3>3, Rounding
    <3> QED  BY <1>4, <3>1, <3>2, <3>4
  <2> QED  BY <2>1, <2>2
<1>8. RoundDown(Start(image, k)) <= va'
  BY <1>4, <1>6
<1> QED  BY <1>1, <1>2, <1>4, <1>5, <1>6, <1>7, <1>8 DEF BootInv

\* The steps that load nothing.
LEMMA OtherKeeps ==
  ASSUME BootInv, drive_ready \/ bad \/ enter \/ UNCHANGED vars
  PROVE  BootInv'
<1>1. /\ image' = image /\ mem' = mem /\ UNCHANGED segment /\ sector' = sector
  BY DEF drive_ready, bad, enter, vars
<1>2. ph' = ph /\ va' = va /\ end_va' = end_va /\ offset' = offset
  BY <1>1 DEF segment
<1>3. CASE pc' = pc
  BY <1>1, <1>2, <1>3 DEF BootInv, Held, HeaderSurvives, KernelAsLinked, Bss
<1>4. CASE bad
  BY <1>1, <1>2, <1>4 DEF bad, Loaded, BootInv, Held
<1>5. CASE enter
  BY <1>1, <1>2, <1>5 DEF enter, Loaded, BootInv, Held
<1>6. pc' = pc \/ bad \/ enter
  BY DEF drive_ready, vars
<1> QED  BY <1>3, <1>4, <1>5, <1>6

\* The BSS is behind the bytes that the last segment has in the image, in the
\* sectors of this segment.
LEMMA BssFacts ==
  ASSUME NEW im \in Images, im = image, NEW a \in Bss
  PROVE  /\ a \in Reach(im.ph[Len(im.ph)])
         /\ Phys(im.ph[Len(im.ph)]) + im.ph[Len(im.ph)].p_filesz <= a
<1> DEFINE n == Len(im.ph)
           p == im.ph[n]
<1>1. /\ im.ph \in Seq(ProgramHeader) /\ im.ph # << >>
      /\ im.edata = p.p_va + p.p_filesz /\ im.end = p.p_va + p.p_memsz
  BY ImagesAssumption, Zenon DEF WellLinked
<1>2. n \in 1 .. Len(im.ph)
  BY <1>1
<1>3. /\ p.p_va \in Nat /\ p.p_memsz \in Nat /\ p.p_filesz \in Nat
      /\ Phys(p) \in Nat /\ Phys(p) < LowMem
      /\ Reach(p) \subseteq 0 .. LowMem - 1
  BY <1>2, HeaderFacts
<1>4. a \in im.edata % LowMem .. (im.edata % LowMem) + (im.end - im.edata) - 1
  BY DEF Bss
<1>5. Phys(p) = p.p_va % LowMem
  BY Zenon DEF Phys
<1>6. Reach(p) = RoundDown(Phys(p)) .. RoundUp(Phys(p) + p.p_memsz) - 1
  BY Zenon DEF Reach
<1> HIDE DEF n, p
<1> DEFINE s == Phys(p)
           e == s + p.p_memsz
<1>7. s \in Nat /\ e \in Nat /\ LowMem \in Nat \ {0}
  BY <1>3, BootAssumption
<1>8. /\ im.edata \in Nat /\ im.end - im.edata = p.p_memsz - p.p_filesz
  BY <1>1, <1>3
<1>9. im.edata % LowMem \in Nat
  BY <1>7, <1>8
<1>10. p.p_filesz < p.p_memsz
  BY <1>3, <1>4, <1>8, <1>9
<1>11. /\ RoundDown(s) \in Nat /\ RoundDown(s) <= s /\ RoundUp(e) \in Nat
       /\ e <= RoundUp(e)
  BY <1>7, Rounding
<1>12. e <= LowMem
  <2>1. RoundUp(e) - 1 \in RoundDown(s) .. RoundUp(e) - 1
    BY <1>3, <1>7, <1>10, <1>11
  <2>2. RoundUp(e) - 1 \in 0 .. LowMem - 1
    BY <1>3, <1>6, <2>1
  <2> QED  BY <1>7, <1>11, <2>2
<1>13. im.edata % LowMem = s + p.p_filesz
  <2> DEFINE d == p.p_va \div LowMem
  <2>1. p.p_va = LowMem * d + s /\ d \in Nat /\ LowMem * d \in Nat
    BY <1>3, <1>5, <1>7, DivisionBy
  <2> HIDE DEF d, s, e
  <2>2. im.edata = LowMem * d + (s + p.p_filesz)
    BY <1>1, <1>3, <1>7, <2>1
  <2>3. s + p.p_filesz \in 0 .. LowMem - 1
    BY <1>3, <1>7, <1>10, <1>12 DEF e
  <2> QED  BY ONLY <1>7, <1>8, <2>1, <2>2, <2>3, Remainder
<1> HIDE DEF s, e
<1>14. s + p.p_filesz <= a /\ a < e /\ a \in Int
  BY <1>3, <1>4, <1>7, <1>8, <1>13 DEF e
<1>15. a \in RoundDown(s) .. RoundUp(e) - 1
  BY <1>3, <1>7, <1>11, <1>14
<1> QED  BY <1>6, <1>14, <1>15 DEF s, e, p, n

\* Clearing the BSS touches no byte that a segment has in the image, nor the
\* header.
LEMMA MemsetKeeps == ASSUME BootInv, memset PROVE BootInv'
<1>1. /\ pc = "i386_init" /\ pc' = "kernel" /\ image' = image /\ UNCHANGED segment
      /\ mem' = [a \in DOMAIN mem |-> IF a \in Bss THEN ZERO ELSE mem[a]]
  BY DEF memset
<1>2. /\ image \in Images /\ mem \in [0 .. LowMem - 1 -> Int]
      /\ ph = Len(image.ph) /\ va >= end_va
      /\ \A a \in 0 .. LowMem - 1 : mem[a] # ZERO
  BY <1>1 DEF BootInv
<1>3. ph' = ph /\ va' = va /\ end_va' = end_va /\ offset' = offset
  BY <1>1 DEF segment
<1>4. \A j \in 0 .. ph : \A a \in Area(image, j) :
        mem[a] = a - Start(image, j) + Source(image, j)
  BY <1>1, <1>2, WholeSegment
<1>5. /\ image.ph \in Seq(ProgramHeader) /\ WellLinked(image) /\ Len(image.ph) \in Nat
      /\ image.ph # << >>
  <2>1. image.ph \in Seq(ProgramHeader) /\ WellLinked(image) /\ Len(image.ph) \in Nat
    BY BootTypes
  <2>2. image.ph # << >>
    BY <2>1, Zenon DEF WellLinked
  <2> QED  BY <2>1, <2>2
<1> DEFINE n == Len(image.ph)
           last == image.ph[n]
<1>6. n \in 1 .. n /\ n \in 0 .. n
  BY <1>5
<1>7. \A a \in Bss : a \in Reach(last) /\ Phys(last) + last.p_filesz <= a
  BY <1>2, BssFacts
<1>8. /\ Reach(last) \subseteq 0 .. LowMem - 1 /\ Reach(last) \cap Scratch = {}
      /\ Phys(last) \in Nat /\ last.p_filesz \in Nat
  BY <1>2, <1>6, HeaderFacts
<1>9. mem' \in [0 .. LowMem - 1 -> Int]
  BY <1>1, <1>2 DEF ZERO
<1>10. \A a \in 0 .. LowMem - 1 : mem'[a] = IF a \in Bss THEN ZERO ELSE mem[a]
  BY <1>1, <1>2
<1>11. HeaderSurvives'
  <2> SUFFICES ASSUME NEW a \in Scratch PROVE mem'[a] = a - Elfhdr
    BY DEF HeaderSurvives, Scratch
  <2>1. Area(image, 0) = Scratch /\ 0 \in 0 .. ph /\ Scratch \subseteq 0 .. LowMem - 1
    BY <1>2, <1>5, <1>6, SegmentFacts
  <2>2. mem[a] = a - Start(image, 0) + Source(image, 0)
    BY <1>4, <2>1
  <2>3. Start(image, 0) = Elfhdr /\ Source(image, 0) = 0
    BY DEF Start, Source
  <2>4. a \in Int /\ Elfhdr \in Int
    BY <2>1, ScratchFacts, BootAssumption
  <2>5. a \notin Bss
    BY <1>7, <1>8
  <2> QED  BY <1>10, <2>1, <2>2, <2>3, <2>4, <2>5
<1>12. ASSUME NEW k \in 1 .. n, NEW m \in 0 .. image.ph[k].p_filesz - 1
       PROVE  mem'[Phys(image.ph[k]) + m] = image.ph[k].p_offset + m
  <2> DEFINE p == image.ph[k]
             a == Phys(p) + m
  <2>1. /\ p.p_memsz \in Nat /\ p.p_filesz \in Nat /\ p.p_offset \in Nat
        /\ Phys(p) \in Nat /\ p.p_filesz <= p.p_memsz
        /\ Reach(p) \subseteq 0 .. LowMem - 1
    BY <1>2, HeaderFacts
  <2>2. k \in 0 .. ph /\ k # 0
    BY <1>2, <1>5
  <2>3. /\ Area(image, k) = Reach(p) /\ Start(image, k) = Phys(p)
        /\ Source(image, k) = p.p_offset
    BY <1>2, <2>2, SegmentFacts DEF Start, Source
  <2>4. Reach(p) = RoundDown(Phys(p)) .. RoundUp(Phys(p) + p.p_memsz) - 1
    BY Zenon DEF Reach
  <2>5. k < n => Phys(p) + p.p_memsz <= Phys(last)
    <3> SUFFICES ASSUME k < n PROVE Phys(p) + p.p_memsz <= Phys(last)
      OBVIOUS
    <3>1. k \in DOMAIN image.ph /\ n \in DOMAIN image.ph
      BY <1>5, <1>6
    <3> QED  BY <1>5, <3>1, Zenon DEF WellLinked
  <2>6. k = n => p = last
    OBVIOUS
  <2>7. k < n \/ k = n
    BY <1>5
  <2> HIDE DEF p, last, n
  <2>8. m \in Nat /\ m < p.p_filesz
    BY <2>1 DEF p
  <2>9. /\ RoundDown(Phys(p)) \in Nat /\ RoundDown(Phys(p)) <= Phys(p)
        /\ RoundUp(Phys(p) + p.p_memsz) \in Nat
        /\ Phys(p) + p.p_memsz <= RoundUp(Phys(p) + p.p_memsz)
    BY <2>1, Rounding
  <2>10. a \in Reach(p)
    BY <2>1, <2>4, <2>8, <2>9
  <2>11. a \notin Bss
    <3>1. CASE k = n
      BY <1>7, <2>1, <2>6, <2>8, <3>1
    <3>2. CASE k < n
      <4>1. a < Phys(last) + last.p_filesz
        BY <1>8, <2>1, <2>5, <2>8, <3>2
      <4>2. a \in Int /\ Phys(last) + last.p_filesz \in Int
        BY <1>8, <2>1, <2>8
      <4>3. ~(Phys(last) + last.p_filesz <= a)
        BY <4>1, <4>2
      <4> QED  BY <1>7, <4>3
    <3> QED  BY <2>7, <3>1, <3>2
  <2>12. mem[a] = a - Phys(p) + p.p_offset
    BY <1>4, <2>2, <2>3, <2>10
  <2>13. a - Phys(p) + p.p_offset = p.p_offset + m
    BY <2>1, <2>8
  <2> QED  BY <1>10, <2>1, <2>10, <2>11, <2>12, <2>13 DEF p
<1>13. \A a \in 0 .. LowMem - 1 : mem'[a] = ZERO <=> a \in Bss
  BY <1>2, <1>10
<1>14. KernelAsLinked'
  <2>1. DOMAIN image.ph = 1 .. n
    BY <1>5
  <2>2. DOMAIN mem' = 0 .. LowMem - 1
    BY <1>9
  <2>3. Bss' = Bss
    BY <1>1 DEF Bss
  <2> QED  BY <1>1, <1>12, <1>13, <2>1, <2>2, <2>3 DEF KernelAsLinked
<1> QED  BY <1>1, <1>3, <1>9, <1>11, <1>14 DEF BootInv

\* The invariant holds for any drive: no step of it changes what is held.
LEMMA BootHolds == Spec => []BootInv
<1>1. BootInv /\ [Next]_vars => BootInv'
  BY CommandKeeps, InslKeeps, NextSegmentKeeps, MemsetKeeps, OtherKeeps
     DEF Next, Processor
<1> QED  BY BootStarts, <1>1, PTL DEF Spec

\* The header survives until the jump to the kernel, for every well-linked
\* kernel: no sector that readseg copies reaches into the scratch space,
\* though it copies whole sectors around a segment.
THEOREM HeadersSurvive == Spec => []HeaderSurvives
<1>1. BootInv => HeaderSurvives
  <2> SUFFICES ASSUME BootInv, ph > 0, pc # "kernel", NEW a \in Scratch
               PROVE  mem[a] = a - Elfhdr
    BY DEF BootInv, HeaderSurvives
  <2>1. /\ image \in Images /\ Len(image.ph) \in Nat /\ ph \in Nat /\ 0 \in 0 .. ph /\ 0 < ph
    BY BootTypes
  <2>2. Area(image, 0) = Scratch /\ Scratch \subseteq 0 .. LowMem - 1
    BY <2>1, SegmentFacts
  <2>3. mem[a] = a - Start(image, 0) + Source(image, 0)
    BY <2>1, <2>2 DEF BootInv, Held
  <2>4. Start(image, 0) = Elfhdr /\ Source(image, 0) = 0
    BY DEF Start, Source
  <2>5. a \in Int /\ Elfhdr \in Int
    BY <2>2, ScratchFacts, BootAssumption
  <2> QED  BY <2>3, <2>4, <2>5
<1> QED  BY <1>1, BootHolds, PTL

\* The kernel starts in memory as it was linked: each segment has its bytes of
\* the image, the BSS is zero, and nothing else is cleared.
THEOREM KernelsStartAsLinked == Spec => []KernelAsLinked
<1>1. BootInv => KernelAsLinked
  BY DEF BootInv, KernelAsLinked
<1> QED  BY <1>1, BootHolds, PTL
=============================================================================
