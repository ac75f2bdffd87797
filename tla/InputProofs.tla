----------------------------- MODULE InputProofs ----------------------------
(***************************************************************************)
(* The two ends of the keyboard's path into the kernel.                    *)
(*                                                                         *)
(* The driver (Kbd): no modifier sticks, and it implements the keyboard of *)
(* events, for every set of keys and however many bytes wait.  Both are    *)
(* about the stream of bytes that the driver still has to obey, the 0xE0   *)
(* it remembers included: while an event of a modifier is in the stream,   *)
(* the last one decides, and else the driver's flag does; and the events   *)
(* of the stream are those of the keyboard that nobody has taken.          *)
(*                                                                         *)
(* The buffer (ConsInput, with its history variables): for every           *)
(* CONSBUFSIZE > 1 and every Char.                                         *)
(***************************************************************************)
EXTENDS ConsInputHist, Kbd, FiniteSetTheorems, SequenceTheorems, TLAPS

Stream == (IF "E0ESC" \in shift THEN <<\hE0>> ELSE << >>) \o wire

\* Every 0xE0 comes before another byte.
WholeKeys ==
  \A i \in 1 .. Len(Stream) :
    Stream[i] = \hE0 => i < Len(Stream) /\ Stream[i + 1] # \hE0

Flags == {"CTL", "ALT", "SHIFT"}
Codes(g) == CASE g = "CTL" -> {\h1D} [] g = "ALT" -> {\h38} [] g = "SHIFT" -> {\h2A, \h36}
KeysOf(g) == CASE g = "CTL" -> CtlKeys [] g = "ALT" -> AltKeys [] g = "SHIFT" -> ShiftKeys

\* The i-th byte of s ends the press or the release of a key of the modifier g.
IsOf(g, s, i) ==
  /\ s[i] \in Codes(g) \/ s[i] - \h80 \in Codes(g)
  /\ g = "SHIFT" => ~(i > 1 /\ s[i - 1] = \hE0)

\* The last event of g in the stream, or the flag when there is none, tells no
\* more than the keys do.
LastTells(g) ==
  /\ \A i \in 1 .. Len(Stream) :
       /\ IsOf(g, Stream, i) /\ Stream[i] < \h80
       /\ \A j \in i + 1 .. Len(Stream) : ~IsOf(g, Stream, j)
       => KeysOf(g) \cap held # {}
  /\ (\A j \in 1 .. Len(Stream) : ~IsOf(g, Stream, j)) /\ g \in shift
       => KeysOf(g) \cap held # {}

\* The inductive invariant.
KInv ==
  /\ wire \in Seq(1 .. 255)
  /\ WholeKeys
  /\ \A g \in Flags : LastTells(g)
-----------------------------------------------------------------------------
LEMMA StreamTyped ==
  ASSUME wire \in Seq(1 .. 255)
  PROVE  /\ Stream \in Seq(1 .. 255)
         /\ "E0ESC" \notin shift => Stream = wire
         /\ "E0ESC" \in shift =>
              /\ Len(Stream) = Len(wire) + 1 /\ Stream[1] = \hE0
              /\ \A i \in 1 .. Len(wire) : Stream[i + 1] = wire[i]
<1>1. CASE "E0ESC" \notin shift
  BY <1>1 DEF Stream
<1>2. CASE "E0ESC" \in shift
  <2>1. <<\hE0>> \in Seq(1 .. 255) /\ Len(<<\hE0>>) = 1
    OBVIOUS
  <2> QED  BY <1>2, <2>1 DEF Stream
<1> QED  BY <1>1, <1>2

LEMMA CodeTyped ==
  ASSUME NEW k \in Key
  PROVE  /\ k.e0 \in BOOLEAN /\ k.code \in 1 .. 127 /\ k.code # \h60
         /\ k.code \in 1 .. 255 /\ k.code + \h80 \in 1 .. 255
<1>1. k.e0 \in BOOLEAN /\ k.code \in 1 .. 127 /\ k.code # \h60
  BY KbdAssumption
<1> QED  BY <1>1

\* The bytes of a key: its code, with a 0xE0 before it if it has one.
LEMMA BytesAre ==
  ASSUME NEW k \in Key, NEW d \in BOOLEAN
  PROVE  \E x \in 1 .. 255 :
           /\ (d /\ x = k.code) \/ (~d /\ x = k.code + \h80)
           /\ (k.e0 /\ Bytes(k, d) = <<\hE0, x>>) \/ (~k.e0 /\ Bytes(k, d) = <<x>>)
<1> DEFINE x == IF d THEN k.code ELSE k.code + \h80
<1>1. x \in 1 .. 255 /\ ((d /\ x = k.code) \/ (~d /\ x = k.code + \h80))
  BY CodeTyped
<1>2. Bytes(k, d) = (IF k.e0 THEN <<\hE0>> ELSE << >>) \o <<x>>
  BY DEF Bytes
<1> HIDE DEF x
<1>3. CASE k.e0
  <2> DEFINE p == <<\hE0>> \o <<x>>
             q == <<\hE0, x>>
  <2>1. p \in Seq(1 .. 255) /\ Len(p) = 2 /\ p[1] = \hE0 /\ p[2] = x
    <3>1. <<\hE0>> \in Seq(1 .. 255) /\ <<x>> \in Seq(1 .. 255)
      BY <1>1
    <3> QED  BY <3>1
  <2>2. q \in Seq(1 .. 255) /\ Len(q) = 2 /\ q[1] = \hE0 /\ q[2] = x
    BY <1>1
  <2>3. Bytes(k, d) = p
    BY <1>2, <1>3
  <2> HIDE DEF p, q
  <2>4. \A i \in 1 .. Len(p) : p[i] = q[i]
    BY <2>1, <2>2
  <2>5. p = q
    BY <2>1, <2>2, <2>4, SeqEqual
  <2> QED  BY <1>1, <1>3, <2>3, <2>5 DEF q
<1>4. CASE ~k.e0
  <2>1. << >> \o <<x>> = <<x>>
    BY <1>1
  <2> QED  BY <1>1, <1>2, <1>4, <2>1
<1> QED  BY <1>3, <1>4

\* A byte that is not 0xE0 is of a modifier if its code is, and no shift key
\* has a 0xE0 before it.
LEMMA ByteOfKey ==
  ASSUME NEW g \in Flags, NEW k \in Key, NEW x, x = k.code \/ x = k.code + \h80
  PROVE  /\ x # \hE0
         /\ k \in KeysOf(g) <=> /\ x \in Codes(g) \/ x - \h80 \in Codes(g)
                                /\ g = "SHIFT" => ~k.e0
<1>1. k.code \in 1 .. 127 /\ k.code # \h60
  BY CodeTyped
<1>2. x # \hE0
  BY <1>1
<1>3. CASE g = "CTL"
  <2>1. KeysOf(g) = CtlKeys /\ Codes(g) = {\h1D} /\ g # "SHIFT"
    BY <1>3 DEF KeysOf, Codes
  <2> QED  BY <1>1, <1>2, <2>1 DEF CtlKeys
<1>4. CASE g = "ALT"
  <2>1. KeysOf(g) = AltKeys /\ Codes(g) = {\h38} /\ g # "SHIFT"
    BY <1>4 DEF KeysOf, Codes
  <2> QED  BY <1>1, <1>2, <2>1 DEF AltKeys
<1>5. CASE g = "SHIFT"
  <2>1. KeysOf(g) = ShiftKeys /\ Codes(g) = {\h2A, \h36}
    BY <1>5 DEF KeysOf, Codes
  <2>2. x \in {\h2A, \h36} \/ x - \h80 \in {\h2A, \h36} <=> k.code \in {\h2A, \h36}
    BY <1>1
  <2> QED  BY <1>2, <1>5, <2>1, <2>2 DEF ShiftKeys
<1> QED  BY <1>3, <1>4, <1>5 DEF Flags

\* The byte 0xE0 is of no modifier.
LEMMA EscapeOfNone ==
  ASSUME NEW g \in Flags, NEW s, NEW i, s[i] = \hE0
  PROVE  ~IsOf(g, s, i)
BY DEF IsOf, Codes, Flags

\* The stream t is s and behind it the bytes of k going down (d) or up, the
\* last of which is x.
Grown(k, d, s, t, x) ==
  /\ (d /\ x = k.code) \/ (~d /\ x = k.code + \h80)
  /\ x # \hE0 /\ (d => x < \h80) /\ (~d => ~(x < \h80))
  /\ \A i \in 1 .. Len(s) : t[i] = s[i]
  /\ \/ /\ k.e0 /\ Len(t) = Len(s) + 2
        /\ t[Len(s) + 1] = \hE0 /\ t[Len(s) + 2] = x
     \/ /\ ~k.e0 /\ Len(t) = Len(s) + 1
        /\ t[Len(s) + 1] = x /\ (Len(s) = 0 \/ t[Len(s)] # \hE0)

\* A key is struck: its bytes go to the end of the stream.
LEMMA StrikeStream ==
  ASSUME KInv, NEW k \in Key, NEW d \in BOOLEAN, Strike(k, d)
  PROVE  /\ wire' \in Seq(1 .. 255) /\ Stream \in Seq(1 .. 255) /\ Stream' \in Seq(1 .. 255)
         /\ \E x \in 1 .. 255 : Grown(k, d, Stream, Stream', x)
<1> DEFINE s == Stream
           t == Stream'
<1>1. wire \in Seq(1 .. 255) /\ s \in Seq(1 .. 255)
  BY StreamTyped DEF KInv
<1>2. Len(s) > 0 => s[Len(s)] # \hE0
  BY <1>1 DEF KInv, WholeKeys
<1>3. PICK x \in 1 .. 255 :
        /\ (d /\ x = k.code) \/ (~d /\ x = k.code + \h80)
        /\ (k.e0 /\ Bytes(k, d) = <<\hE0, x>>) \/ (~k.e0 /\ Bytes(k, d) = <<x>>)
  BY BytesAre
<1>4. x # \hE0 /\ (d => x < \h80) /\ (~d => ~(x < \h80))
  BY <1>3, CodeTyped
<1>5. t = s \o Bytes(k, d) /\ wire' \in Seq(1 .. 255)
  <2>1. Bytes(k, d) \in Seq(1 .. 255)
    <3>1. <<\hE0, x>> \in Seq(1 .. 255) /\ <<x>> \in Seq(1 .. 255)
      OBVIOUS
    <3> QED  BY <1>3, <3>1, Zenon
  <2>2. wire' = wire \o Bytes(k, d) /\ shift' = shift
    BY DEF Strike
  <2>3. <<\hE0>> \in Seq(1 .. 255)
    OBVIOUS
  <2>4. (<<\hE0>> \o wire) \o Bytes(k, d) = <<\hE0>> \o (wire \o Bytes(k, d))
    BY <1>1, <2>1, <2>3, ConcatAssociative
  <2>5. << >> \o wire = wire /\ << >> \o (wire \o Bytes(k, d)) = wire \o Bytes(k, d)
    BY <1>1, <2>1
  <2>6. wire' \in Seq(1 .. 255)
    BY <1>1, <2>1, <2>2
  <2>7. CASE "E0ESC" \in shift
    <3>1. s = <<\hE0>> \o wire /\ t = <<\hE0>> \o (wire \o Bytes(k, d))
      BY <2>2, <2>7 DEF Stream
    <3> QED  BY <2>4, <2>6, <3>1
  <2>8. CASE "E0ESC" \notin shift
    <3>1. s = wire /\ t = wire \o Bytes(k, d)
      BY <2>2, <2>5, <2>8 DEF Stream
    <3> QED  BY <2>6, <3>1
  <2> QED  BY <2>7, <2>8
<1> HIDE DEF s, t
<1>6. /\ t \in Seq(1 .. 255) /\ \A i \in 1 .. Len(s) : t[i] = s[i]
      /\ \/ /\ k.e0 /\ Len(t) = Len(s) + 2
            /\ t[Len(s) + 1] = \hE0 /\ t[Len(s) + 2] = x
         \/ /\ ~k.e0 /\ Len(t) = Len(s) + 1
            /\ t[Len(s) + 1] = x /\ (Len(s) = 0 \/ t[Len(s)] # \hE0)
  <2>1. CASE k.e0
    <3>1. <<\hE0, x>> \in Seq(1 .. 255)
      OBVIOUS
    <3>2. Bytes(k, d) = <<\hE0, x>>
      BY <1>3, <2>1, Zenon
    <3>3. t = s \o <<\hE0, x>>
      BY <1>5, <3>2, Zenon
    <3> QED  BY <1>1, <2>1, <3>1, <3>3
  <2>2. CASE ~k.e0
    <3>1. <<x>> \in Seq(1 .. 255)
      OBVIOUS
    <3>2. Bytes(k, d) = <<x>>
      BY <1>3, <2>2, Zenon
    <3>3. t = s \o <<x>>
      BY <1>5, <3>2, Zenon
    <3> QED  BY <1>1, <1>2, <2>2, <3>1, <3>3
  <2> QED  BY <2>1, <2>2
<1>7. Grown(k, d, s, t, x)
  BY <1>3, <1>4, <1>6 DEF Grown
<1> QED  BY <1>1, <1>5, <1>6, <1>7 DEF s, t

LEMMA StrikeStep ==
  ASSUME KInv, NEW k \in Key, NEW d \in BOOLEAN, Strike(k, d)
  PROVE  KInv'
<1> DEFINE s == Stream
           t == Stream'
<1>1. /\ wire' \in Seq(1 .. 255) /\ s \in Seq(1 .. 255) /\ t \in Seq(1 .. 255)
      /\ \E x \in 1 .. 255 : Grown(k, d, s, t, x)
  BY StrikeStream
<1> HIDE DEF s, t
<1>2. PICK x \in 1 .. 255 : Grown(k, d, s, t, x)
  BY <1>1
<1>3. (d /\ x = k.code) \/ (~d /\ x = k.code + \h80)
  BY <1>2 DEF Grown
<1>4. x # \hE0 /\ (d => x < \h80) /\ (~d => ~(x < \h80))
  BY <1>2 DEF Grown
<1>6. /\ t \in Seq(1 .. 255) /\ \A i \in 1 .. Len(s) : t[i] = s[i]
      /\ \/ /\ k.e0 /\ Len(t) = Len(s) + 2
            /\ t[Len(s) + 1] = \hE0 /\ t[Len(s) + 2] = x
         \/ /\ ~k.e0 /\ Len(t) = Len(s) + 1
            /\ t[Len(s) + 1] = x /\ (Len(s) = 0 \/ t[Len(s)] # \hE0)
  BY <1>1, <1>2 DEF Grown
<1>7. /\ t[Len(t)] = x /\ Len(s) \in Nat
      /\ \A i \in 1 .. Len(t) :
           i \in 1 .. Len(s) \/ i \in Len(s) + 1 .. Len(t) - 1 \/ i = Len(t)
  BY <1>1, <1>6
<1>8. WholeKeys'
  <2> SUFFICES ASSUME NEW i \in 1 .. Len(t), t[i] = \hE0
               PROVE  i < Len(t) /\ t[i + 1] # \hE0
    BY DEF WholeKeys, t
  <2>1. CASE i \in 1 .. Len(s)
    <3>1. i < Len(s) /\ s[i + 1] # \hE0
      BY <1>6, <2>1 DEF KInv, WholeKeys, s
    <3>2. Len(s) < Len(t) /\ Len(t) \in Nat
      BY <1>6, <1>7
    <3>3. t[i + 1] = s[i + 1]
      BY <1>6, <1>7, <2>1, <3>1
    <3> QED  BY <1>7, <2>1, <3>1, <3>2, <3>3
  <2>2. CASE i \in Len(s) + 1 .. Len(t) - 1
    <3>1. i + 1 = Len(t)
      BY <1>6, <1>7, <2>2
    <3> QED  BY <1>4, <1>7, <2>2, <3>1
  <2> QED  BY <1>4, <1>7, <2>1, <2>2
<1>9. ASSUME NEW g \in Flags PROVE LastTells(g)'
  <2>1. \A i \in 1 .. Len(s) : IsOf(g, t, i) <=> IsOf(g, s, i)
    BY <1>6, <1>7 DEF IsOf
  <2>2. \A i \in Len(s) + 1 .. Len(t) - 1 : ~IsOf(g, t, i)
    <3>1. \A i \in Len(s) + 1 .. Len(t) - 1 : t[i] = \hE0
      BY <1>6, <1>7
    <3> QED  BY <3>1, EscapeOfNone
  <2>3. IsOf(g, t, Len(t)) <=> k \in KeysOf(g)
    <3>1. k.e0 <=> Len(t) > 1 /\ t[Len(t) - 1] = \hE0
      BY <1>6, <1>7
    <3>2. k \in KeysOf(g) <=> /\ x \in Codes(g) \/ x - \h80 \in Codes(g)
                              /\ g = "SHIFT" => ~k.e0
      BY <1>3, ByteOfKey
    <3> QED  BY <1>7, <3>1, <3>2 DEF IsOf
  <2>4. CASE k \in KeysOf(g) /\ d
    <3>1. k \in held'
      BY <2>4 DEF Strike, KeysOf, Flags, ModifierKeys
    <3> QED  BY <2>4, <3>1 DEF LastTells
  <2>5. CASE k \in KeysOf(g) /\ ~d
    <3>1. Len(t) \in 1 .. Len(t) /\ IsOf(g, t, Len(t)) /\ ~(t[Len(t)] < \h80)
      BY <1>4, <1>6, <1>7, <2>3, <2>5
    <3>2. \A i \in 1 .. Len(t) : i = Len(t) \/ Len(t) \in i + 1 .. Len(t)
      BY <1>6, <1>7
    <3> QED  BY <3>1, <3>2 DEF LastTells, t
  <2>6. CASE k \notin KeysOf(g)
    <3>1. KeysOf(g) \cap held' = KeysOf(g) \cap held /\ shift' = shift
      BY <2>6 DEF Strike
    <3>2. \A i \in 1 .. Len(t) : IsOf(g, t, i) => i \in 1 .. Len(s) /\ IsOf(g, s, i)
      BY <1>7, <2>1, <2>2, <2>3, <2>6
    <3>3. \A i \in 1 .. Len(s) : i \in 1 .. Len(t)
      BY <1>6, <1>7
    <3>4. /\ \A i \in 1 .. Len(s) :
               /\ IsOf(g, s, i) /\ s[i] < \h80
               /\ \A j \in i + 1 .. Len(s) : ~IsOf(g, s, j)
               => KeysOf(g) \cap held # {}
          /\ (\A j \in 1 .. Len(s) : ~IsOf(g, s, j)) /\ g \in shift
               => KeysOf(g) \cap held # {}
      BY DEF KInv, LastTells, s
    <3>5. ASSUME NEW i \in 1 .. Len(t), IsOf(g, t, i), t[i] < \h80,
                 \A j \in i + 1 .. Len(t) : ~IsOf(g, t, j)
          PROVE  KeysOf(g) \cap held # {}
      <4>1. i \in 1 .. Len(s) /\ IsOf(g, s, i) /\ s[i] < \h80
        BY <1>6, <3>2, <3>5
      <4>2. \A j \in i + 1 .. Len(s) : j \in i + 1 .. Len(t) /\ j \in 1 .. Len(s)
        BY <1>6, <1>7, <4>1
      <4>3. \A j \in i + 1 .. Len(s) : ~IsOf(g, s, j)
        BY <2>1, <3>5, <4>2
      <4> QED  BY <3>4, <4>1, <4>3
    <3>6. (\A j \in 1 .. Len(t) : ~IsOf(g, t, j)) /\ g \in shift
            => KeysOf(g) \cap held # {}
      BY <2>1, <3>3, <3>4
    <3> QED  BY <3>1, <3>5, <3>6 DEF LastTells, t
  <2> QED  BY <2>4, <2>5, <2>6
<1> QED  BY <1>1, <1>8, <1>9 DEF KInv

\* The stream t is s without its first n bytes, of which only the n-th is not
\* 0xE0.
Cut(n, s, t) ==
  /\ Len(s) = Len(t) + n /\ \A i \in 1 .. Len(t) : t[i] = s[i + n]
  /\ s[n] # \hE0 /\ (n = 2 => s[1] = \hE0)

\* The driver takes a byte that is not 0xE0, the n-th of the stream, and with it
\* the 0xE0 before it.
LEMMA TakeStream ==
  ASSUME KInv, wire # << >>, Head(wire) # \hE0, wire' = Tail(wire),
         shift' \cap {"E0ESC"} = {},
         NEW n \in {1, 2}, n = 2 <=> "E0ESC" \in shift
  PROVE  /\ wire' \in Seq(1 .. 255) /\ Stream \in Seq(1 .. 255) /\ Stream' \in Seq(1 .. 255)
         /\ Cut(n, Stream, Stream') /\ Stream[n] = Head(wire)
<1> DEFINE s == Stream
           t == Stream'
<1>1. /\ wire \in Seq(1 .. 255) /\ s \in Seq(1 .. 255)
      /\ "E0ESC" \notin shift => s = wire
      /\ "E0ESC" \in shift =>
           /\ Len(s) = Len(wire) + 1 /\ s[1] = \hE0
           /\ \A i \in 1 .. Len(wire) : s[i + 1] = wire[i]
  BY StreamTyped DEF KInv
<1>2. wire' \in Seq(1 .. 255) /\ t = wire'
  <2>1. wire' \in Seq(1 .. 255)
    BY <1>1
  <2>2. "E0ESC" \notin shift'
    OBVIOUS
  <2>3. << >> \o wire' = wire'
    BY <2>1
  <2> QED  BY <2>1, <2>2, <2>3 DEF Stream
<1> HIDE DEF s, t
<1>3. Len(wire) \in Nat /\ Len(wire) >= 1 /\ Head(wire) = wire[1]
  BY <1>1
<1>4. /\ Len(t) = Len(wire) - 1 /\ \A i \in 1 .. Len(t) : t[i] = wire[i + 1]
  BY <1>1, <1>2, <1>3
<1>5. /\ Len(s) = Len(t) + n /\ \A i \in 1 .. Len(t) : t[i] = s[i + n]
      /\ s[n] = Head(wire) /\ (n = 2 => s[1] = \hE0)
  <2>1. CASE n = 1
    BY <1>1, <1>3, <1>4, <2>1
  <2>2. CASE n = 2
    <3>1. \A i \in 1 .. Len(t) : i + 1 \in 1 .. Len(wire) /\ s[i + 1 + 1] = wire[i + 1]
      BY <1>1, <1>3, <1>4, <2>2
    <3>2. s[1 + 1] = wire[1]
      BY <1>1, <1>3, <2>2
    <3> QED  BY <1>1, <1>3, <1>4, <2>2, <3>1, <3>2
  <2> QED  BY <2>1, <2>2
<1>6. Cut(n, s, t)
  BY <1>5 DEF Cut
<1> QED  BY <1>1, <1>2, <1>5, <1>6 DEF s, t

LEMMA TakeStep ==
  ASSUME KInv, wire # << >>, Head(wire) # \hE0, wire' = Tail(wire), held' = held,
         shift' \cap {"E0ESC"} = {},
         NEW n \in {1, 2}, n = 2 <=> "E0ESC" \in shift,
         \A g \in Flags :
           /\ ~IsOf(g, Stream, n) /\ g \in shift' => g \in shift
           /\ IsOf(g, Stream, n) /\ g \in shift' => Head(wire) < \h80
  PROVE  KInv'
<1> DEFINE s == Stream
           t == Stream'
<1>1. /\ wire' \in Seq(1 .. 255) /\ s \in Seq(1 .. 255) /\ t \in Seq(1 .. 255)
      /\ Cut(n, s, t) /\ s[n] = Head(wire)
  BY TakeStream
<1> HIDE DEF s, t
<1>5. /\ Len(s) = Len(t) + n /\ \A i \in 1 .. Len(t) : t[i] = s[i + n]
      /\ s[n] = Head(wire) /\ (n = 2 => s[1] = \hE0)
  BY <1>1 DEF Cut
<1>6. Len(t) \in Nat
  BY <1>1
<1>7. WholeKeys'
  <2> SUFFICES ASSUME NEW i \in 1 .. Len(t), t[i] = \hE0
               PROVE  i < Len(t) /\ t[i + 1] # \hE0
    BY DEF WholeKeys, t
  <2>1. i + n \in 1 .. Len(s) /\ s[i + n] = \hE0
    BY <1>5, <1>6
  <2>2. i + n < Len(s) /\ s[i + n + 1] # \hE0
    BY <2>1 DEF KInv, WholeKeys, s
  <2>3. i < Len(t) /\ i + 1 \in 1 .. Len(t)
    BY <1>5, <1>6, <2>2
  <2>4. t[i + 1] = s[i + 1 + n] /\ i + 1 + n = i + n + 1
    BY <1>5, <2>3
  <2> QED  BY <2>2, <2>3, <2>4
<1>8. ASSUME NEW g \in Flags PROVE LastTells(g)'
  <2>1. \A i \in 1 .. Len(t) : IsOf(g, t, i) <=> IsOf(g, s, i + n)
    <3> SUFFICES ASSUME NEW i \in 1 .. Len(t)
                 PROVE  IsOf(g, t, i) <=> IsOf(g, s, i + n)
      OBVIOUS
    <3>1. t[i] = s[i + n] /\ i + n > 1
      BY <1>5, <1>6
    <3>2. CASE i = 1
      <4>1. i + n - 1 = n /\ s[i + n - 1] # \hE0
        BY <1>5, <3>2
      <4> QED  BY <3>1, <3>2, <4>1 DEF IsOf
    <3>3. CASE i > 1
      <4>1. i - 1 \in 1 .. Len(t) /\ i - 1 + n = i + n - 1
        BY <1>6, <3>3
      <4>2. t[i - 1] = s[i + n - 1]
        BY <1>5, <4>1
      <4> QED  BY <3>1, <3>3, <4>2 DEF IsOf
    <3> QED  BY <1>6, <3>2, <3>3
  <2>2. n = 2 => ~IsOf(g, s, 1)
    BY <1>5, EscapeOfNone
  <2>3. /\ \A i \in 1 .. Len(s) :
             /\ IsOf(g, s, i) /\ s[i] < \h80
             /\ \A j \in i + 1 .. Len(s) : ~IsOf(g, s, j)
             => KeysOf(g) \cap held # {}
        /\ (\A j \in 1 .. Len(s) : ~IsOf(g, s, j)) /\ g \in shift
             => KeysOf(g) \cap held # {}
    BY DEF KInv, LastTells, s
  <2>4. ASSUME NEW i \in 1 .. Len(t), IsOf(g, t, i), t[i] < \h80,
               \A j \in i + 1 .. Len(t) : ~IsOf(g, t, j)
        PROVE  KeysOf(g) \cap held # {}
    <3>1. i + n \in 1 .. Len(s) /\ IsOf(g, s, i + n) /\ s[i + n] < \h80
      BY <1>5, <1>6, <2>1, <2>4
    <3>2. ASSUME NEW j \in i + n + 1 .. Len(s) PROVE ~IsOf(g, s, j)
      <4>1. j - n \in i + 1 .. Len(t) /\ j - n \in 1 .. Len(t) /\ j - n + n = j
        BY <1>5, <1>6, <3>2
      <4>2. ~IsOf(g, t, j - n)
        BY <2>4, <4>1
      <4> QED  BY <2>1, <4>1, <4>2
    <3> QED  BY <2>3, <3>1, <3>2
  <2>5. ASSUME \A j \in 1 .. Len(t) : ~IsOf(g, t, j), g \in shift'
        PROVE  KeysOf(g) \cap held # {}
    <3>1. ASSUME NEW j \in n + 1 .. Len(s) PROVE ~IsOf(g, s, j)
      <4>1. j - n \in 1 .. Len(t) /\ j - n + n = j
        BY <1>5, <1>6, <3>1
      <4>2. ~IsOf(g, t, j - n)
        BY <2>5, <4>1
      <4> QED  BY <2>1, <4>1, <4>2
    <3>2. /\ n \in 1 .. Len(s)
          /\ \A j \in 1 .. Len(s) : j = n \/ j \in n + 1 .. Len(s) \/ (n = 2 /\ j = 1)
      BY <1>5, <1>6
    <3>3. CASE IsOf(g, s, n)
      <4>1. s[n] < \h80
        BY <1>5, <2>5, <3>3 DEF s
      <4> QED  BY <2>3, <3>1, <3>2, <3>3, <4>1
    <3>4. CASE ~IsOf(g, s, n)
      <4>1. g \in shift
        BY <2>5, <3>4 DEF s
      <4>2. \A j \in 1 .. Len(s) : ~IsOf(g, s, j)
        BY <2>2, <3>1, <3>2, <3>4
      <4> QED  BY <2>3, <4>1, <4>2
    <3> QED  BY <3>3, <3>4
  <2> QED  BY <2>4, <2>5 DEF LastTells, t
<1> QED  BY <1>1, <1>7, <1>8 DEF KInv

\* The driver takes a 0xE0: it stays at the head of the stream.
LEMMA EscapeStream ==
  ASSUME KInv, escape
  PROVE  /\ wire \in Seq(1 .. 255) /\ wire' \in Seq(1 .. 255)
         /\ Stream' = Stream
<1>1. wire \in Seq(1 .. 255) /\ wire' \in Seq(1 .. 255) /\ wire # << >> /\ wire[1] = \hE0
      /\ Len(wire) >= 1
  BY DEF KInv, escape
<1>2. "E0ESC" \notin shift
  <2> SUFFICES ASSUME "E0ESC" \in shift PROVE FALSE
    OBVIOUS
  <2>1. /\ Len(Stream) = Len(wire) + 1 /\ Stream[1] = \hE0 /\ Stream[1 + 1] = wire[1]
    BY <1>1, StreamTyped
  <2>2. 1 \in 1 .. Len(Stream)
    BY <1>1, <2>1
  <2> QED  BY <1>1, <2>1, <2>2 DEF KInv, WholeKeys
<1>3. Stream' = Stream
  <2>1. Stream = wire
    BY <1>1, <1>2, StreamTyped
  <2>2. Stream' = <<\hE0>> \o Tail(wire)
    BY DEF Stream, escape
  <2>3. <<\hE0>> \o Tail(wire) = wire
    <3> DEFINE p == <<\hE0>> \o Tail(wire)
    <3>1. <<\hE0>> \in Seq(1 .. 255) /\ Tail(wire) \in Seq(1 .. 255)
      BY <1>1
    <3>2. p \in Seq(1 .. 255) /\ Len(p) = Len(wire)
      BY <1>1, <3>1
    <3>3. \A i \in 1 .. Len(p) : p[i] = wire[i]
      BY <1>1, <3>1
    <3> HIDE DEF p
    <3>4. p = wire
      BY <1>1, <3>2, <3>3, SeqEqual
    <3> QED  BY <3>4 DEF p
  <2> QED  BY <2>1, <2>2, <2>3
<1> QED  BY <1>1, <1>3

LEMMA EscapeStep ==
  ASSUME KInv, escape
  PROVE  KInv'
<1>1. wire' \in Seq(1 .. 255)
  BY EscapeStream
<1>3. Stream' = Stream
  BY EscapeStream
<1>4. \A g \in Flags : g \in shift' => g \in shift
  BY DEF escape, Flags
<1>5. WholeKeys'
  BY <1>3 DEF KInv, WholeKeys
<1>6. ASSUME NEW g \in Flags PROVE LastTells(g)'
  BY <1>3, <1>4 DEF KInv, LastTells, escape
<1> QED  BY <1>1, <1>5, <1>6 DEF KInv

LEMMA HeadTyped ==
  ASSUME NEW w \in Seq(1 .. 255), w # << >>
  PROVE  Len(w) >= 1 /\ Head(w) = w[1] /\ Head(w) \in 1 .. 255
<1>1. Len(w) >= 1 /\ Len(w) \in Nat
  OBVIOUS
<1>2. Head(w) = w[1]
  OBVIOUS
<1>3. Head(w) \in 1 .. 255
  BY HeadTailProperties
<1> QED  BY <1>1, <1>2, <1>3

\* The next byte of the wire, and its place in the stream.
LEMMA HeadInStream ==
  ASSUME KInv, wire # << >>, NEW n \in {1, 2}, n = 2 <=> "E0ESC" \in shift
  PROVE  /\ Head(wire) \in 1 .. 255 /\ Stream[n] = Head(wire)
         /\ n = 2 => Stream[n - 1] = \hE0
<1>1. wire \in Seq(1 .. 255) /\ Len(wire) >= 1 /\ Head(wire) = wire[1]
      /\ Head(wire) \in 1 .. 255
  <2>1. wire \in Seq(1 .. 255)
    BY DEF KInv
  <2> QED  BY <2>1, HeadTyped
<1>2. CASE n = 1
  BY <1>1, <1>2, StreamTyped
<1>3. CASE n = 2
  <2>1. Stream[1] = \hE0 /\ Stream[1 + 1] = wire[1]
    BY <1>1, <1>3, StreamTyped
  <2>2. n = 1 + 1 /\ n - 1 = 1
    BY <1>3
  <2> QED  BY <1>1, <2>1, <2>2
<1> QED  BY <1>2, <1>3

\* The bytes that shiftcode has a flag for.
LEMMA ShiftcodeTable ==
  ASSUME NEW y \in 0 .. 255
  PROVE  /\ "CTL" \in shiftcode[y] <=> y \in {\h1D, \h9D}
         /\ "SHIFT" \in shiftcode[y] <=> y \in {\h2A, \h36}
         /\ "ALT" \in shiftcode[y] <=> y \in {\h38, \hB8}
         /\ "E0ESC" \notin shiftcode[y]
<1>1. CASE y \in {\h1D, \h9D}
  <2>1. shiftcode[y] = {"CTL"}  BY <1>1 DEF shiftcode
  <2> QED  BY <1>1, <2>1
<1>2. CASE y \in {\h2A, \h36}
  <2>1. shiftcode[y] = {"SHIFT"}  BY <1>2 DEF shiftcode
  <2> QED  BY <1>2, <2>1
<1>3. CASE y \in {\h38, \hB8}
  <2>1. shiftcode[y] = {"ALT"}  BY <1>3 DEF shiftcode
  <2> QED  BY <1>3, <2>1
<1>4. CASE y \notin {\h1D, \h9D, \h2A, \h36, \h38, \hB8}
  <2>1. shiftcode[y] = {}  BY <1>4 DEF shiftcode
  <2> QED  BY <1>4, <2>1
<1> QED  BY <1>1, <1>2, <1>3, <1>4

\* What the driver takes for a press or a release of a modifier is one.
LEMMA ShiftcodeOf ==
  ASSUME KInv, wire # << >>, Head(wire) # \hE0, NEW n \in {1, 2},
         n = 2 <=> "E0ESC" \in shift, NEW g \in Flags, NEW data
  PROVE  /\ Head(wire) < \h80 /\ data = (IF "E0ESC" \in shift THEN Head(wire) + \h80
                                                               ELSE Head(wire))
              => (g \in shiftcode[data] <=> IsOf(g, Stream, n))
         /\ Head(wire) >= \h80 /\ data = (IF "E0ESC" \in shift THEN Head(wire)
                                                               ELSE Head(wire) - \h80)
              => (g \in shiftcode[data] <=> IsOf(g, Stream, n))
<1> DEFINE x == Head(wire)
<1>1. x \in 1 .. 255 /\ Stream[n] = x /\ (n = 2 => Stream[n - 1] = \hE0)
  BY HeadInStream
<1> HIDE DEF x
<1>2. IsOf(g, Stream, n) <=> /\ x \in Codes(g) \/ x - \h80 \in Codes(g)
                             /\ g = "SHIFT" => n # 2
  <2>1. n = 2 <=> (n > 1 /\ Stream[n - 1] = \hE0)
    BY <1>1
  <2> QED  BY <1>1, <2>1 DEF IsOf
<1>4. /\ Codes("CTL") = {\h1D} /\ Codes("ALT") = {\h38} /\ Codes("SHIFT") = {\h2A, \h36}
  BY DEF Codes
<1>5. ASSUME data \in 0 .. 255,
             \/ x < \h80 /\ data = (IF n = 2 THEN x + \h80 ELSE x)
             \/ x >= \h80 /\ data = (IF n = 2 THEN x ELSE x - \h80)
      PROVE  g \in shiftcode[data] <=> IsOf(g, Stream, n)
  <2>1. CASE g = "CTL"
    <3>1. g \in shiftcode[data] <=> data \in {\h1D, \h9D}
      <4>1. data \in 0 .. 255  BY <1>5
      <4>2. "CTL" \in shiftcode[data] <=> data \in {\h1D, \h9D}
        BY ONLY <4>1, ShiftcodeTable
      <4> QED  BY <2>1, <4>2
    <3>2. IsOf(g, Stream, n) <=> x \in {\h1D, \h9D}
      BY <1>1, <1>2, <1>4, <2>1
    <3> QED  BY <1>1, <1>5, <3>1, <3>2
  <2>2. CASE g = "ALT"
    <3>1. g \in shiftcode[data] <=> data \in {\h38, \hB8}
      <4>1. data \in 0 .. 255  BY <1>5
      <4>2. "ALT" \in shiftcode[data] <=> data \in {\h38, \hB8}
        BY ONLY <4>1, ShiftcodeTable
      <4> QED  BY <2>2, <4>2
    <3>2. IsOf(g, Stream, n) <=> x \in {\h38, \hB8}
      BY <1>1, <1>2, <1>4, <2>2
    <3> QED  BY <1>1, <1>5, <3>1, <3>2
  <2>3. CASE g = "SHIFT"
    <3>1. g \in shiftcode[data] <=> data \in {\h2A, \h36}
      <4>1. data \in 0 .. 255  BY <1>5
      <4>2. "SHIFT" \in shiftcode[data] <=> data \in {\h2A, \h36}
        BY ONLY <4>1, ShiftcodeTable
      <4> QED  BY <2>3, <4>2
    <3>2. IsOf(g, Stream, n) <=> n # 2 /\ x \in {\h2A, \h36, \hAA, \hB6}
      BY <1>1, <1>2, <1>4, <2>3
    <3> QED  BY <1>1, <1>5, <3>1, <3>2
  <2> QED  BY <2>1, <2>2, <2>3 DEF Flags
<1>6. ASSUME x < \h80, data = (IF "E0ESC" \in shift THEN x + \h80 ELSE x)
      PROVE  g \in shiftcode[data] <=> IsOf(g, Stream, n)
  <2>1. data = (IF n = 2 THEN x + \h80 ELSE x)
    BY <1>6
  <2>2. data \in 0 .. 255
    BY <1>1, <1>6, <2>1
  <2> QED  BY <1>5, <1>6, <2>1, <2>2
<1>7. ASSUME x >= \h80, data = (IF "E0ESC" \in shift THEN x ELSE x - \h80)
      PROVE  g \in shiftcode[data] <=> IsOf(g, Stream, n)
  <2>1. data = (IF n = 2 THEN x ELSE x - \h80)
    BY <1>7
  <2>2. data \in 0 .. 255
    BY <1>1, <1>7, <2>1
  <2> QED  BY <1>5, <1>7, <2>1, <2>2
<1> QED  BY <1>6, <1>7 DEF x

\* A byte with bit 7 set takes the flag of its key away.
LEMMA ReleasedStep ==
  ASSUME KInv, released
  PROVE  KInv'
<1> DEFINE n == IF "E0ESC" \in shift THEN 2 ELSE 1
           data == IF "E0ESC" \in shift THEN Head(wire) ELSE Head(wire) - \h80
<1>1. /\ wire # << >> /\ Head(wire) # \hE0 /\ Head(wire) >= \h80 /\ wire' = Tail(wire)
      /\ held' = held /\ shift' = shift \ (shiftcode[data] \cup {"E0ESC"})
  BY DEF released
<1>2. n \in {1, 2} /\ (n = 2 <=> "E0ESC" \in shift)
  OBVIOUS
<1>3. \A g \in Flags : g \in shiftcode[data] <=> IsOf(g, Stream, n)
  BY <1>1, <1>2, ShiftcodeOf
<1> HIDE DEF n, data
<1>4. \A g \in Flags : /\ ~IsOf(g, Stream, n) /\ g \in shift' => g \in shift
                       /\ IsOf(g, Stream, n) /\ g \in shift' => Head(wire) < \h80
  BY <1>1, <1>3
<1>5. shift' \cap {"E0ESC"} = {}
  BY <1>1
<1> QED  BY <1>1, <1>2, <1>4, <1>5, TakeStep

\* A byte with bit 7 clear gives the flag of its key.
LEMMA PressedStep ==
  ASSUME KInv, pressed
  PROVE  KInv'
<1> DEFINE n == IF "E0ESC" \in shift THEN 2 ELSE 1
           data == IF "E0ESC" \in shift THEN Head(wire) + \h80 ELSE Head(wire)
<1>1. /\ wire # << >> /\ Head(wire) < \h80 /\ wire' = Tail(wire) /\ held' = held
      /\ shift' = SymDiff((shift \ {"E0ESC"}) \cup shiftcode[data], togglecode[data])
  BY DEF pressed
<1>2. n \in {1, 2} /\ (n = 2 <=> "E0ESC" \in shift)
  OBVIOUS
<1>3. Head(wire) \in 1 .. 255 /\ Head(wire) # \hE0 /\ data \in 0 .. 255
  <2>1. wire # << >> /\ Head(wire) < \h80
    BY <1>1
  <2>2. Head(wire) \in 1 .. 255
    BY <1>2, <2>1, HeadInStream
  <2>3. ASSUME NEW x \in 1 .. 255, x < \h80
        PROVE  x # \hE0 /\ x \in 0 .. 255 /\ x + \h80 \in 0 .. 255
    BY <2>3
  <2> QED  BY <2>1, <2>2, <2>3
<1>4. \A g \in Flags : g \in shiftcode[data] <=> IsOf(g, Stream, n)
  BY <1>1, <1>2, <1>3, ShiftcodeOf
<1> HIDE DEF n, data
<1>5. togglecode[data] \subseteq {"CAPSLOCK", "NUMLOCK", "SCROLLLOCK"}
      /\ "E0ESC" \notin shiftcode[data]
  BY <1>3, ShiftcodeTable, SMTT(60) DEF togglecode
<1>6. \A g \in Flags : /\ ~IsOf(g, Stream, n) /\ g \in shift' => g \in shift
                       /\ IsOf(g, Stream, n) /\ g \in shift' => Head(wire) < \h80
  BY <1>1, <1>4, <1>5 DEF SymDiff, Flags
<1>7. shift' \cap {"E0ESC"} = {}
  BY <1>1, <1>5 DEF SymDiff
<1> QED  BY <1>1, <1>2, <1>3, <1>6, <1>7, TakeStep

LEMMA KInvInit == KbdInit => KInv
<1> SUFFICES ASSUME KbdInit PROVE KInv
  OBVIOUS
<1>1. wire \in Seq(1 .. 255) /\ Stream = << >>
  BY DEF KbdInit, Stream
<1>2. \A g \in Flags : LastTells(g)
  BY <1>1 DEF KbdInit, LastTells, Flags
<1>3. WholeKeys
  BY <1>1 DEF WholeKeys
<1> QED  BY <1>1, <1>2, <1>3 DEF KInv

\* Once every byte is read the driver has no modifier in force whose keys are
\* all up, and waits for no second byte, whatever keys there are and wherever
\* it is called between two bytes (kern/console.c:317-340).
THEOREM NoModifierSticks == KbdSpec => []NoStuckModifier
<1>1. KbdInit => KInv
  BY KInvInit
<1>2. KInv /\ [KbdNext]_kbd_vars => KInv'
  <2> SUFFICES ASSUME KInv, [KbdNext]_kbd_vars PROVE KInv'
    OBVIOUS
  <2>1. ASSUME NEW k \in Key, NEW d \in BOOLEAN, Strike(k, d) PROVE KInv'
    BY <2>1, StrikeStep
  <2>2. CASE escape  BY <2>2, EscapeStep
  <2>3. CASE released  BY <2>3, ReleasedStep
  <2>4. CASE pressed  BY <2>4, PressedStep
  <2>5. CASE UNCHANGED kbd_vars
    BY <2>5 DEF kbd_vars, KInv, WholeKeys, LastTells, Stream
  <2> QED  BY <2>1, <2>2, <2>3, <2>4, <2>5 DEF KbdNext, proc_data
<1>3. KInv => NoStuckModifier
  <2> SUFFICES ASSUME KInv, wire = << >> PROVE NoStuckModifier
    BY DEF NoStuckModifier
  <2>1. "E0ESC" \notin shift
    <3> SUFFICES ASSUME "E0ESC" \in shift PROVE FALSE
      OBVIOUS
    <3>1. Len(Stream) = 1 /\ Stream[1] = \hE0
      BY StreamTyped DEF KInv
    <3>2. 1 \in 1 .. Len(Stream) /\ ~(1 < Len(Stream))
      BY <3>1
    <3> QED  BY <3>1, <3>2 DEF KInv, WholeKeys
  <2>2. 1 .. Len(Stream) = {}
    BY <2>1 DEF Stream
  <2>3. \A g \in Flags : g \in shift => KeysOf(g) \cap held # {}
    BY <2>2 DEF KInv, LastTells
  <2> QED  BY <2>1, <2>3 DEF NoStuckModifier, Flags, KeysOf
<1> QED  BY <1>1, <1>2, <1>3, PTL DEF KbdSpec
-----------------------------------------------------------------------------
(* What the stream means.  Parse counts the ends of events, but a list of  *)
(* them that grows at its end and loses its head tells as much: its n-th   *)
(* member has n ends up to it.                                             *)

\* The sequence p lists the ends of the events of s, in order.
Lists(p, s) ==
  /\ p \in Seq(Nat)
  /\ \A n \in 1 .. Len(p) : p[n] \in Ends(s)
  /\ \A i \in Ends(s) : \E n \in 1 .. Len(p) : p[n] = i
  /\ \A m, n \in 1 .. Len(p) : m < n => p[m] < p[n]

\* The first n members of the list are n ends.
LEMMA FirstEnds ==
  ASSUME NEW s, NEW p, Lists(p, s), NEW n \in 0 .. Len(p)
  PROVE  Cardinality({p[m] : m \in 1 .. n}) = n
<1> DEFINE f == [m \in 1 .. n |-> p[m]]
           S == {p[m] : m \in 1 .. n}
<1>1. n \in Nat /\ Len(p) \in Nat /\ \A m \in 1 .. n : m \in 1 .. Len(p) /\ p[m] \in Nat
  <2>1. p \in Seq(Nat) /\ Len(p) \in Nat
    BY DEF Lists
  <2> QED  BY <2>1
<1>2. \A l, m \in 1 .. n : p[l] = p[m] => l = m
  <2> SUFFICES ASSUME NEW l \in 1 .. n, NEW m \in 1 .. n, p[l] = p[m], l # m
               PROVE  FALSE
    OBVIOUS
  <2>1. l < m \/ m < l
    BY <1>1
  <2> QED  BY <1>1, <2>1 DEF Lists
<1>3. f \in Bijection(1 .. n, S)
  BY <1>2 DEF Bijection, Injection, Surjection, IsInjective
<1> QED  BY <1>1, <1>3, FS_CountingElements DEF ExistsBijection

LEMMA ParseIs ==
  ASSUME NEW s, NEW p, Lists(p, s)
  PROVE  Parse(s) = [n \in 1 .. Len(p) |-> EventAt(s, p[n])]
<1>1. p \in Seq(Nat) /\ Len(p) \in Nat /\ \A n \in 1 .. Len(p) : p[n] \in Nat
  <2>1. p \in Seq(Nat)
    BY DEF Lists
  <2> QED  BY <2>1
<1>2. Cardinality(Ends(s)) = Len(p)
  <2>1. Ends(s) = {p[m] : m \in 1 .. Len(p)}
    BY DEF Lists
  <2>2. Len(p) \in 0 .. Len(p)
    BY <1>1
  <2>3. Cardinality({p[m] : m \in 1 .. Len(p)}) = Len(p)
    BY <2>2, FirstEnds
  <2> QED  BY <2>1, <2>3
<1>3. ASSUME NEW n \in 1 .. Len(p)
      PROVE  Cardinality({j \in Ends(s) : j <= p[n]}) = n
  <2>1. {j \in Ends(s) : j <= p[n]} = {p[m] : m \in 1 .. n}
    <3>1. ASSUME NEW m \in 1 .. n PROVE p[m] \in Ends(s) /\ p[m] <= p[n]
      <4>1. m \in 1 .. Len(p) /\ (m = n \/ m < n)
        BY <1>1
      <4> QED  BY <1>1, <4>1 DEF Lists
    <3>2. ASSUME NEW j \in Ends(s), j <= p[n] PROVE \E m \in 1 .. n : j = p[m]
      <4>1. PICK m \in 1 .. Len(p) : p[m] = j
        BY DEF Lists
      <4>2. ~(n < m)
        BY <1>1, <3>2, <4>1 DEF Lists
      <4> QED  BY <1>1, <4>1, <4>2
    <3> QED  BY <3>1, <3>2
  <2>2. n \in 0 .. Len(p)
    BY <1>1
  <2>3. Cardinality({p[m] : m \in 1 .. n}) = n
    BY <2>2, FirstEnds
  <2> QED  BY <2>1, <2>3
<1>4. ASSUME NEW n \in 1 .. Len(p) PROVE NthEnd(s, n) = p[n]
  <2>1. p[n] \in Ends(s)
    BY DEF Lists
  <2>2. ASSUME NEW i \in Ends(s), Cardinality({j \in Ends(s) : j <= i}) = n
        PROVE  i = p[n]
    <3>1. PICK m \in 1 .. Len(p) : p[m] = i
      BY DEF Lists
    <3>2. Cardinality({j \in Ends(s) : j <= p[m]}) = m
      BY <1>3
    <3> QED  BY <2>2, <3>1, <3>2
  <2> QED  BY <1>3, <2>1, <2>2 DEF NthEnd
<1> QED  BY <1>2, <1>4 DEF Parse

LEMMA Places ==
  ASSUME NEW a \in Nat, NEW b \in Nat, a < b
  PROVE  /\ \A i \in 1 .. b : i \in 1 .. a \/ i \in a + 1 .. b - 1 \/ i = b
         /\ b \in 1 .. b
         /\ \A i \in 1 .. a : i \in 1 .. b
OBVIOUS

LEMMA AppendIs ==
  ASSUME NEW S, NEW u \in Seq(S), NEW e, NEW n \in Nat, Len(u) = n
  PROVE  Append(u, e) = [k \in 1 .. n + 1 |-> IF k = n + 1 THEN e ELSE u[k]]
<1> DEFINE T == S \cup {e}
           v == [k \in 1 .. n + 1 |-> IF k = n + 1 THEN e ELSE u[k]]
           w == Append(u, e)
<1>1. u \in Seq(T) /\ e \in T
  BY SeqMonotonic
<1> HIDE DEF T
<1>2. v \in Seq(T) /\ Len(v) = n + 1 /\ \A k \in 1 .. n + 1 : v[k] = IF k = n + 1 THEN e ELSE u[k]
  <2>1. \A k \in 1 .. n + 1 : (IF k = n + 1 THEN e ELSE u[k]) \in T
    BY <1>1
  <2>2. v \in [1 .. n + 1 -> T]
    BY <2>1
  <2> QED  BY <2>2
<1>3. /\ w \in Seq(T) /\ Len(w) = n + 1 /\ w[n + 1] = e
      /\ \A k \in 1 .. n : w[k] = u[k]
  BY <1>1, AppendProperties
<1> HIDE DEF v, w
<1>4. \A k \in 1 .. Len(w) : w[k] = v[k]
  <2>1. \A k \in 1 .. n + 1 : k \in 1 .. n \/ k = n + 1
    OBVIOUS
  <2> QED  BY <1>2, <1>3, <2>1
<1>5. w = v
  BY <1>2, <1>3, <1>4, SeqEqual
<1> QED  BY <1>5 DEF v, w

\* The b bytes of t are the a bytes of s and more, with one end at the last.
OneMore(s, a, t, b) ==
  /\ a = Len(s) /\ b = Len(t) /\ a < b
  /\ \A i \in 1 .. a : t[i] = s[i]
  /\ \A i \in a + 1 .. b - 1 : t[i] = \hE0
  /\ t[b] # \hE0

\* They add one event.
LEMMA ParseAppend ==
  ASSUME NEW s \in Seq(1 .. 255), NEW t \in Seq(1 .. 255), NEW p, Lists(p, s),
         NEW a \in Nat, NEW b \in Nat, OneMore(s, a, t, b)
  PROVE  /\ Lists(Append(p, b), t)
         /\ Parse(t) = Append(Parse(s), EventAt(t, b))
<1>0. /\ a = Len(s) /\ b = Len(t) /\ a < b
      /\ \A i \in 1 .. a : t[i] = s[i]
      /\ \A i \in a + 1 .. b - 1 : t[i] = \hE0
      /\ t[b] # \hE0
  BY DEF OneMore
<1> DEFINE q == Append(p, b)
<1>1. p \in Seq(Nat) /\ Len(p) \in Nat /\ \A n \in 1 .. Len(p) : p[n] \in Nat
  <2>1. p \in Seq(Nat)
    BY DEF Lists
  <2> QED  BY <2>1
<1>2. DOMAIN s = 1 .. a /\ DOMAIN t = 1 .. b
  BY <1>0
<1>3. /\ q \in Seq(Nat) /\ Len(q) = Len(p) + 1 /\ q[Len(p) + 1] = b
      /\ \A n \in 1 .. Len(p) : q[n] = p[n]
  BY <1>1, <1>2
<1> HIDE DEF q
<1>4. Ends(t) = Ends(s) \cup {b}
  <2>1. /\ \A i \in 1 .. b : i \in 1 .. a \/ i \in a + 1 .. b - 1 \/ i = b
        /\ b \in 1 .. b
        /\ \A i \in 1 .. a : i \in 1 .. b
    BY <1>0, Places
  <2>2. ASSUME NEW i \in 1 .. b
        PROVE  t[i] # \hE0 <=> (i \in 1 .. a /\ s[i] # \hE0) \/ i = b
    BY <1>0, <2>1
  <2>3. Ends(t) = {i \in 1 .. b : t[i] # \hE0} /\ Ends(s) = {i \in 1 .. a : s[i] # \hE0}
    BY <1>2 DEF Ends
  <2> QED  BY <1>0, <2>1, <2>2, <2>3
<1>5. \A i \in Ends(s) : i \in 1 .. a /\ i < b
  BY <1>0, <1>2 DEF Ends
<1>6. \A n \in 1 .. Len(q) : n \in 1 .. Len(p) \/ n = Len(p) + 1
  BY <1>1, <1>3
<1>7. Lists(q, t)
  <2>1. \A n \in 1 .. Len(q) : q[n] \in Ends(t)
    BY <1>3, <1>4, <1>6 DEF Lists
  <2>2. \A i \in Ends(t) : \E n \in 1 .. Len(q) : q[n] = i
    <3>1. Len(p) + 1 \in 1 .. Len(q) /\ \A n \in 1 .. Len(p) : n \in 1 .. Len(q)
      BY <1>1, <1>3
    <3>2. ASSUME NEW i \in Ends(s) PROVE \E n \in 1 .. Len(q) : q[n] = i
      <4>1. PICK n \in 1 .. Len(p) : p[n] = i
        BY DEF Lists
      <4> QED  BY <1>3, <3>1, <4>1
    <3> QED  BY <1>3, <1>4, <3>1, <3>2
  <2>3. ASSUME NEW m \in 1 .. Len(q), NEW n \in 1 .. Len(q), m < n
        PROVE  q[m] < q[n]
    <3>1. m \in 1 .. Len(p)
      BY <1>1, <1>3, <2>3
    <3>2. CASE n \in 1 .. Len(p)
      BY <1>3, <2>3, <3>1, <3>2 DEF Lists
    <3>3. CASE n = Len(p) + 1
      <4>1. p[m] \in Ends(s)
        BY <3>1 DEF Lists
      <4> QED  BY <1>3, <1>5, <3>1, <3>3, <4>1
    <3> QED  BY <1>6, <3>2, <3>3
  <2> QED  BY <1>3, <2>1, <2>2, <2>3 DEF Lists
<1>8. ASSUME NEW i \in Ends(s) PROVE EventAt(t, i) = EventAt(s, i)
  <2>1. i \in 1 .. a /\ (i > 1 => i - 1 \in 1 .. a)
    BY <1>2, <1>5
  <2>2. t[i] = s[i] /\ (i > 1 => t[i - 1] = s[i - 1])
    BY <1>0, <2>1
  <2> QED  BY <2>2 DEF EventAt
<1>9. Parse(s) = [n \in 1 .. Len(p) |-> EventAt(s, p[n])]
  BY ParseIs
<1>10. Parse(t) = [n \in 1 .. Len(p) + 1 |-> EventAt(t, q[n])]
  <2>1. Parse(t) = [n \in 1 .. Len(q) |-> EventAt(t, q[n])]
    BY <1>7, ParseIs
  <2> QED  BY <1>3, <2>1
<1> DEFINE E == {EventAt(s, i) : i \in Ends(s)}
<1>11. Parse(s) \in Seq(E) /\ Len(Parse(s)) = Len(p)
  <2>1. \A n \in 1 .. Len(p) : EventAt(s, p[n]) \in E
    BY DEF Lists
  <2> HIDE DEF E
  <2> QED  BY <1>1, <1>9, <2>1
<1>12. Parse(t) = Append(Parse(s), EventAt(t, b))
  <2> DEFINE e == EventAt(t, b)
  <2>1. ASSUME NEW n \in 1 .. Len(p) PROVE EventAt(t, q[n]) = EventAt(s, p[n])
    BY <1>3, <1>8 DEF Lists
  <2>2. EventAt(t, q[Len(p) + 1]) = e
    BY <1>3
  <2> DEFINE F(n) == EventAt(s, p[n])
             G(n) == EventAt(t, q[n])
  <2>3. /\ Parse(s) = [n \in 1 .. Len(p) |-> F(n)] /\ Parse(t) = [n \in 1 .. Len(p) + 1 |-> G(n)]
        /\ \A n \in 1 .. Len(p) : G(n) = F(n)
        /\ G(Len(p) + 1) = e
    BY <1>9, <1>10, <2>1, <2>2
  <2> HIDE DEF e, F, G, E
  <2>4. Append(Parse(s), e) = [n \in 1 .. Len(p) + 1 |-> IF n = Len(p) + 1 THEN e ELSE Parse(s)[n]]
    BY <1>0, <1>1, <1>11, AppendIs
  <2>5. \A n \in 1 .. Len(p) + 1 : G(n) = IF n = Len(p) + 1 THEN e ELSE Parse(s)[n]
    <3>1. \A n \in 1 .. Len(p) + 1 : n = Len(p) + 1 \/ n \in 1 .. Len(p)
      BY <1>1
    <3> QED  BY <2>3, <3>1
  <2>6. Append(Parse(s), e) = Parse(t)
    BY <2>3, <2>4, <2>5
  <2> QED  BY <2>6 DEF e
<1> QED  BY <1>7, <1>12 DEF q

\* Without its first event, the stream lists the other ones.
LEMMA ListsCut ==
  ASSUME NEW s \in Seq(1 .. 255), NEW t \in Seq(1 .. 255), NEW p, Lists(p, s),
         NEW n \in {1, 2}, NEW b \in Nat, b = Len(t), Cut(n, s, t)
  PROVE  /\ p \in Seq(Nat) /\ Len(p) >= 1 /\ p[1] = n
         /\ Lists([m \in 1 .. Len(p) - 1 |-> p[m + 1] - n], t)
         /\ \A i \in Ends(t) : i + n \in Ends(s) /\ EventAt(t, i) = EventAt(s, i + n)
<1>1. p \in Seq(Nat) /\ Len(p) \in Nat /\ \A m \in 1 .. Len(p) : p[m] \in Nat
  <2>1. p \in Seq(Nat)
    BY DEF Lists
  <2> QED  BY <2>1
<1> DEFINE l == Len(p)
<1>2. l \in Nat
  BY <1>1
<1> HIDE DEF l
<1>3. /\ Ends(s) = {i \in 1 .. b + n : s[i] # \hE0}
      /\ Ends(t) = {i \in 1 .. b : t[i] # \hE0}
      /\ \A i \in 1 .. b : t[i] = s[i + n]
      /\ s[n] # \hE0 /\ (n = 2 => s[1] = \hE0)
  BY DEF Ends, Cut
<1>4. n \in Ends(s) /\ \A i \in Ends(s) : i \in Nat /\ i >= n
  <2>1. \A i \in 1 .. b + n : i \in Nat /\ (i >= n \/ (n = 2 /\ i = 1))
    OBVIOUS
  <2> QED  BY <1>3, <2>1
<1>5. PICK j \in 1 .. l : p[j] = n
  BY <1>4 DEF Lists, l
<1>6. l >= 1 /\ p[1] = n
  <2>1. l >= 1 /\ 1 \in 1 .. l
    BY <1>2, <1>5
  <2>2. p[1] \in Ends(s) /\ (1 < j => p[1] < p[j])
    BY <1>5, <2>1 DEF Lists, l
  <2>3. p[1] >= n /\ p[1] \in Nat
    BY <1>4, <2>2
  <2> QED  BY <1>2, <1>5, <2>1, <2>2, <2>3
<1> DEFINE q == [m \in 1 .. l - 1 |-> p[m + 1] - n]
<1>7. ASSUME NEW m \in 1 .. l - 1
      PROVE  /\ m + 1 \in 1 .. l /\ p[m + 1] \in Ends(s) /\ p[m + 1] > n
             /\ p[m + 1] - n \in Ends(t) /\ p[m + 1] - n \in Nat
  <2>1. m + 1 \in 1 .. l /\ 1 \in 1 .. l /\ 1 < m + 1
    BY <1>2, <1>6
  <2>2. p[m + 1] \in Ends(s) /\ p[1] < p[m + 1]
    BY <2>1 DEF Lists, l
  <2> DEFINE i == p[m + 1]
  <2>3. i \in 1 .. b + n /\ s[i] # \hE0 /\ i > n
    BY <1>3, <1>6, <2>2
  <2> HIDE DEF i
  <2>4. i - n \in 1 .. b /\ i - n + n = i /\ i - n \in Nat
    BY <2>3
  <2>5. t[i - n] = s[i]
    BY <1>3, <2>4
  <2>6. i - n \in Ends(t)
    BY <1>3, <2>3, <2>4, <2>5
  <2> QED  BY <2>1, <2>2, <2>3, <2>4, <2>6 DEF i
<1>8. q \in Seq(Nat) /\ Len(q) = l - 1 /\ \A m \in 1 .. l - 1 : q[m] = p[m + 1] - n
  BY <1>2, <1>6, <1>7
<1> HIDE DEF q
<1>9. ASSUME NEW i \in Ends(t)
      PROVE  i \in 1 .. b /\ i + n \in Ends(s) /\ EventAt(t, i) = EventAt(s, i + n)
  <2>1. i \in 1 .. b /\ t[i] = s[i + n] /\ i + n \in 1 .. b + n
    BY <1>3
  <2>2. i + n \in Ends(s) /\ i + n > 1
    BY <1>3, <2>1
  <2>3. i > 1 /\ t[i - 1] = \hE0 <=> s[i + n - 1] = \hE0
    <3>1. CASE i = 1
      <4>1. i + n - 1 = n
        BY <3>1
      <4> QED  BY <1>3, <3>1, <4>1
    <3>2. CASE i > 1
      <4>1. i - 1 \in 1 .. b /\ i - 1 + n = i + n - 1
        BY <2>1, <3>2
      <4>2. t[i - 1] = s[i + n - 1]
        BY <1>3, <4>1
      <4> QED  BY <3>2, <4>2
    <3> QED  BY <2>1, <3>1, <3>2
  <2> QED  BY <2>1, <2>2, <2>3 DEF EventAt
<1>10. Lists(q, t)
  <2>1. \A m \in 1 .. Len(q) : q[m] \in Ends(t)
    BY <1>7, <1>8
  <2>2. ASSUME NEW i \in Ends(t) PROVE \E m \in 1 .. Len(q) : q[m] = i
    <3>1. i \in 1 .. b /\ i + n \in Ends(s)
      BY <1>9
    <3>2. PICK m \in 1 .. l : p[m] = i + n
      BY <3>1 DEF Lists, l
    <3>3. m # 1
      BY <1>6, <3>1, <3>2
    <3>4. m - 1 \in 1 .. l - 1 /\ m - 1 + 1 = m
      BY <1>2, <3>3
    <3>5. q[m - 1] = p[m] - n
      BY <1>8, <3>4
    <3>6. q[m - 1] = i
      BY <3>1, <3>2, <3>5
    <3> QED  BY <1>8, <3>4, <3>6
  <2>3. ASSUME NEW k \in 1 .. Len(q), NEW m \in 1 .. Len(q), k < m
        PROVE  q[k] < q[m]
    <3>1. /\ k \in 1 .. l - 1 /\ m \in 1 .. l - 1 /\ k + 1 < m + 1
      BY <1>2, <1>8, <2>3
    <3>2. /\ k + 1 \in 1 .. l /\ m + 1 \in 1 .. l
          /\ p[k + 1] \in Ends(s) /\ p[m + 1] \in Ends(s)
      BY <1>7, <3>1
    <3>3. p[k + 1] < p[m + 1] /\ p[k + 1] \in Nat /\ p[m + 1] \in Nat
      BY <1>4, <3>1, <3>2 DEF Lists, l
    <3>4. q[k] = p[k + 1] - n /\ q[m] = p[m + 1] - n
      BY <1>8, <3>1
    <3> QED  BY <3>3, <3>4
  <2> QED  BY <1>8, <2>1, <2>2, <2>3 DEF Lists
<1> QED  BY <1>1, <1>6, <1>9, <1>10 DEF q, l

LEMMA ParseCut ==
  ASSUME NEW s \in Seq(1 .. 255), NEW t \in Seq(1 .. 255), NEW p, Lists(p, s),
         NEW n \in {1, 2}, NEW b \in Nat, b = Len(t), Cut(n, s, t)
  PROVE  /\ Parse(s) # << >> /\ Head(Parse(s)) = EventAt(s, n)
         /\ Parse(t) = Tail(Parse(s))
         /\ n \in Ends(s)
<1> DEFINE q == [m \in 1 .. Len(p) - 1 |-> p[m + 1] - n]
<1>1. /\ p \in Seq(Nat) /\ Len(p) >= 1 /\ p[1] = n /\ Lists(q, t)
      /\ \A i \in Ends(t) : EventAt(t, i) = EventAt(s, i + n)
  <2>1. /\ p \in Seq(Nat) /\ Len(p) >= 1 /\ p[1] = n
        /\ Lists([m \in 1 .. Len(p) - 1 |-> p[m + 1] - n], t)
        /\ \A i \in Ends(t) : i + n \in Ends(s) /\ EventAt(t, i) = EventAt(s, i + n)
    BY ListsCut, ZenonT(60)
  <2> QED  BY <2>1
<1>2. Len(p) \in Nat /\ 1 \in 1 .. Len(p) /\ \A m \in 1 .. Len(p) : p[m] \in Nat
  BY <1>1
<1>3. Len(q) = Len(p) - 1
  BY <1>1, <1>2
<1> DEFINE E == {EventAt(s, p[m]) : m \in 1 .. Len(p)}
           F(m) == EventAt(s, p[m])
           l == Len(p)
<1>4. /\ l \in Nat /\ l >= 1 /\ \A m \in 1 .. l : F(m) \in E
      /\ Parse(s) = [m \in 1 .. l |-> F(m)]
  BY <1>1, <1>2, ParseIs
<1>5. Parse(t) = [m \in 1 .. l - 1 |-> F(m + 1)]
  <2>1. Parse(t) = [m \in 1 .. l - 1 |-> EventAt(t, q[m])]
    <3> HIDE DEF q
    <3>1. Parse(t) = [m \in 1 .. Len(q) |-> EventAt(t, q[m])]
      BY <1>1, ParseIs
    <3> QED  BY <1>3, <3>1
  <2>2. ASSUME NEW m \in 1 .. l - 1 PROVE EventAt(t, q[m]) = F(m + 1)
    <3>1. q[m] \in Ends(t)
      BY <1>1, <1>3 DEF Lists
    <3>2. q[m] = p[m + 1] - n /\ p[m + 1] \in Nat
      BY <1>2
    <3>3. q[m] + n = p[m + 1]
      BY <3>2
    <3>4. EventAt(t, q[m]) = EventAt(s, q[m] + n)
      BY <1>1, <3>1
    <3> QED  BY <3>3, <3>4
  <2> HIDE DEF F, q
  <2> QED  BY <2>1, <2>2
<1>6. n \in Ends(s) /\ F(1) = EventAt(s, n)
  BY <1>1, <1>2 DEF Lists
<1> HIDE DEF E, F, l, q
<1>7. Parse(s) \in Seq(E) /\ Len(Parse(s)) = l
  BY <1>4
<1>8. Parse(s) # << >> /\ Head(Parse(s)) = F(1)
  BY <1>4, <1>7
<1>9. Tail(Parse(s)) = [m \in 1 .. l - 1 |-> F(m + 1)]
  BY <1>4, <1>7
<1> QED  BY <1>5, <1>6, <1>8, <1>9
-----------------------------------------------------------------------------
(* The tables say of a key's byte what is printed on the key.              *)

\* The place of k in the tables.
DataOf(k) == IF k.e0 THEN k.code + \h80 ELSE k.code

LEMMA KeyIs ==
  ASSUME NEW k \in Key, NEW e \in BOOLEAN, NEW c \in 1 .. 127
  PROVE  k = [e0 |-> e, code |-> c] <=> k.e0 = e /\ k.code = c
<1>1. k \in [e0 : BOOLEAN, code : 1 .. 127 \ {\h60}]
  BY KbdAssumption
<1> QED  BY <1>1

LEMMA ModifierTable ==
  ASSUME NEW k \in Key
  PROVE  shiftcode[DataOf(k)] = AbstractKeyboard!ModOf(k)
<1> DEFINE d == DataOf(k)
<1>1. k.e0 \in BOOLEAN /\ k.code \in 1 .. 127 /\ d = IF k.e0 THEN k.code + \h80 ELSE k.code
  BY CodeTyped DEF DataOf
<1>2. d \in 0 .. 255
  BY <1>1
<1> HIDE DEF d
<1>3. CASE k.code = \h1D
  <2>1. d \in {\h1D, \h9D}  BY <1>1, <1>3
  <2>2. shiftcode[d] = {"CTL"}  BY <1>2, <2>1 DEF shiftcode
  <2>3. k \in CtlKeys  BY <1>3 DEF CtlKeys
  <2>4. AbstractKeyboard!ModOf(k) = {"CTL"}
    BY <2>3 DEF AbstractKeyboard!ModOf, ModifierOf, ModifierKeys
  <2> QED  BY <2>2, <2>4 DEF d
<1>4. CASE k.code = \h38
  <2>1. d \in {\h38, \hB8}  BY <1>1, <1>4
  <2>2. shiftcode[d] = {"ALT"}  BY <1>2, <2>1 DEF shiftcode
  <2>3. k \in AltKeys /\ k \notin CtlKeys  BY <1>4 DEF AltKeys, CtlKeys
  <2>4. AbstractKeyboard!ModOf(k) = {"ALT"}
    BY <2>3 DEF AbstractKeyboard!ModOf, ModifierOf, ModifierKeys
  <2> QED  BY <2>2, <2>4 DEF d
<1>5. CASE k.code \in {\h2A, \h36} /\ ~k.e0
  <2>1. d \in {\h2A, \h36}  BY <1>1, <1>5
  <2>2. shiftcode[d] = {"SHIFT"}  BY <1>2, <2>1 DEF shiftcode
  <2>3. k \in ShiftKeys /\ k \notin CtlKeys /\ k \notin AltKeys
    BY <1>5 DEF AltKeys, CtlKeys, ShiftKeys
  <2>4. AbstractKeyboard!ModOf(k) = {"SHIFT"}
    BY <2>3 DEF AbstractKeyboard!ModOf, ModifierOf, ModifierKeys
  <2> QED  BY <2>2, <2>4 DEF d
<1>6. CASE k.code \notin {\h1D, \h38} /\ ~(k.code \in {\h2A, \h36} /\ ~k.e0)
  <2>1. d \notin {\h1D, \h9D, \h2A, \h36, \h38, \hB8}  BY <1>1, <1>6
  <2>2. shiftcode[d] = {}  BY <1>2, <2>1 DEF shiftcode
  <2>3. k \notin ModifierKeys  BY <1>6 DEF ModifierKeys, AltKeys, CtlKeys, ShiftKeys
  <2>4. AbstractKeyboard!ModOf(k) = {}
    BY <2>3 DEF AbstractKeyboard!ModOf, ModifierOf
  <2> QED  BY <2>2, <2>4 DEF d
<1> QED  BY <1>3, <1>4, <1>5, <1>6

LEMMA LockTable ==
  ASSUME NEW k \in Key, NEW m
  PROVE  SymDiff(m, togglecode[DataOf(k)]) = AbstractKeyboard!Flip(k, m)
<1> DEFINE d == DataOf(k)
<1>1. k.e0 \in BOOLEAN /\ k.code \in 1 .. 127 /\ d = IF k.e0 THEN k.code + \h80 ELSE k.code
  BY CodeTyped DEF DataOf
<1>2. d \in 0 .. 255
  BY <1>1
<1> HIDE DEF d
<1>3. ASSUME NEW l, togglecode[d] = {l}, k \in DOMAIN LockOf, LockOf[k] = l
      PROVE  SymDiff(m, togglecode[d]) = AbstractKeyboard!Flip(k, m)
  <2>1. SymDiff(m, {l}) = IF l \in m THEN m \ {l} ELSE m \cup {l}
    BY DEF SymDiff
  <2> QED  BY <1>3, <2>1 DEF AbstractKeyboard!Flip
<1>4. CASE k.code = \h3A /\ ~k.e0
  <2>1. togglecode[d] = {"CAPSLOCK"}  BY <1>1, <1>2, <1>4 DEF togglecode
  <2>2. k \in DOMAIN LockOf /\ LockOf[k] = "CAPSLOCK"  BY <1>4 DEF LockOf
  <2> QED  BY <1>3, <2>1, <2>2 DEF d
<1>5. CASE k.code = \h45 /\ ~k.e0
  <2>1. togglecode[d] = {"NUMLOCK"}  BY <1>1, <1>2, <1>5 DEF togglecode
  <2>2. k \in DOMAIN LockOf /\ LockOf[k] = "NUMLOCK"  BY <1>5 DEF LockOf
  <2> QED  BY <1>3, <2>1, <2>2 DEF d
<1>6. CASE k.code = \h46 /\ ~k.e0
  <2>1. togglecode[d] = {"SCROLLLOCK"}  BY <1>1, <1>2, <1>6 DEF togglecode
  <2>2. k \in DOMAIN LockOf /\ LockOf[k] = "SCROLLLOCK"  BY <1>6 DEF LockOf
  <2> QED  BY <1>3, <2>1, <2>2 DEF d
<1>7. CASE ~(k.code \in {\h3A, \h45, \h46} /\ ~k.e0)
  <2>1. d \notin {\h3A, \h45, \h46}  BY <1>1, <1>7
  <2>2. togglecode[d] = {}  BY <1>2, <2>1 DEF togglecode
  <2>3. k \notin DOMAIN LockOf  BY <1>7 DEF LockOf
  <2>4. SymDiff(m, {}) = m  BY DEF SymDiff
  <2> QED  BY <2>2, <2>3, <2>4 DEF AbstractKeyboard!Flip, d
<1> QED  BY <1>4, <1>5, <1>6, <1>7

LEMMA CharacterTables ==
  ASSUME NEW k \in Key
  PROVE  /\ normalmap[DataOf(k)] = PlainCap[k]
         /\ shiftmap[DataOf(k)] = ShiftedCap[k]
         /\ ctlmap[DataOf(k)] = ControlCap[k]
         /\ PlainCap[k] \in 0 .. 255 /\ ShiftedCap[k] \in 0 .. 255 /\ ControlCap[k] \in 0 .. 255
         /\ \A c \in {PlainCap[k], ShiftedCap[k], ControlCap[k]} :
              LetterCase(c) = IF c \in DOMAIN OtherCase THEN OtherCase[c] ELSE c
<1> DEFINE d == DataOf(k)
<1>1. k.e0 \in BOOLEAN /\ k.code \in 1 .. 127 /\ d = IF k.e0 THEN k.code + \h80 ELSE k.code
  BY CodeTyped DEF DataOf
<1>2. d \in 0 .. 255
  BY <1>1
<1>3. \A e \in BOOLEAN, c \in 1 .. 127 :
        k = [e0 |-> e, code |-> c] <=> k.e0 = e /\ k.code = c
  BY KeyIs
<1> HIDE DEF d
<1>4. C(65) = 1 /\ C(47) = 239
  BY DEF C
<1>5. /\ PlainCap[k] = KeyCap(k)[1] /\ ShiftedCap[k] = KeyCap(k)[2]
      /\ ControlCap[k] = KeyCap(k)[3]
  BY DEF PlainCap, ShiftedCap, ControlCap, CapOf
<1>6. \A c \in {0, 97, 65, 1, 49, 33, 47, 63, 239, 10, 13, 46, KEY_DEL, 55, KEY_HOME} :
        /\ c \in 0 .. 255
        /\ LetterCase(c) = IF c \in DOMAIN OtherCase THEN OtherCase[c] ELSE c
  BY DEF LetterCase, OtherCase, KEY_DEL, KEY_HOME
<1> DEFINE Caps(a, b, c) ==
             /\ KeyCap(k) = <<a, b, c>>
             /\ normalmap[d] = a /\ shiftmap[d] = b /\ ctlmap[d] = c
<1>7. CASE k = [e0 |-> FALSE, code |-> \h1E]
  <2>1. d = \h1E /\ k.code = \h1E /\ k.e0 = FALSE  BY <1>1, <1>7
  <2>2. Caps(97, 65, 1)
    BY <1>2, <1>4, <1>7, <2>1 DEF KeyCap, normalmap, shiftmap, ctlmap, NO
  <2> QED  BY <1>5, <1>6, <2>2 DEF d
<1>8. CASE k = [e0 |-> FALSE, code |-> \h02]
  <2>1. d = \h02 /\ k.code = \h02 /\ k.e0 = FALSE  BY <1>1, <1>8
  <2>2. Caps(49, 33, 0)
    BY <1>2, <1>4, <1>8, <2>1 DEF KeyCap, normalmap, shiftmap, ctlmap, NO
  <2> QED  BY <1>5, <1>6, <2>2 DEF d
<1>9. CASE k = [e0 |-> FALSE, code |-> \h35]
  <2>1. d = \h35 /\ k.code = \h35 /\ k.e0 = FALSE  BY <1>1, <1>9
  <2>2. Caps(47, 63, 239)
    BY <1>2, <1>4, <1>9, <2>1 DEF KeyCap, normalmap, shiftmap, ctlmap, NO
  <2> QED  BY <1>5, <1>6, <2>2 DEF d
<1>10. CASE k = [e0 |-> TRUE, code |-> \h35]
  <2>1. d = \hB5 /\ k.code = \h35 /\ k.e0 = TRUE  BY <1>1, <1>10
  <2>2. Caps(47, 47, 239)
    BY <1>2, <1>4, <1>10, <2>1 DEF KeyCap, normalmap, shiftmap, ctlmap, NO
  <2> QED  BY <1>5, <1>6, <2>2 DEF d
<1>11. CASE k = [e0 |-> FALSE, code |-> \h1C]
  <2>1. d = \h1C /\ k.code = \h1C /\ k.e0 = FALSE  BY <1>1, <1>11
  <2>2. Caps(10, 10, 13)
    BY <1>2, <1>4, <1>11, <2>1 DEF KeyCap, normalmap, shiftmap, ctlmap, NO
  <2> QED  BY <1>5, <1>6, <2>2 DEF d
<1>12. CASE k = [e0 |-> TRUE, code |-> \h1C]
  <2>1. d = \h9C /\ k.code = \h1C /\ k.e0 = TRUE  BY <1>1, <1>12
  <2>2. Caps(10, 10, 0)
    BY <1>2, <1>4, <1>12, <2>1 DEF KeyCap, normalmap, shiftmap, ctlmap, NO
  <2> QED  BY <1>5, <1>6, <2>2 DEF d
<1>13. CASE k = [e0 |-> FALSE, code |-> \h53]
  <2>1. d = \h53 /\ k.code = \h53 /\ k.e0 = FALSE  BY <1>1, <1>13
  <2>2. Caps(46, 46, 0)
    BY <1>2, <1>4, <1>13, <2>1 DEF KeyCap, normalmap, shiftmap, ctlmap, NO
  <2> QED  BY <1>5, <1>6, <2>2 DEF d
<1>14. CASE k = [e0 |-> TRUE, code |-> \h53]
  <2>1. d = \hD3 /\ k.code = \h53 /\ k.e0 = TRUE  BY <1>1, <1>14
  <2>2. Caps(KEY_DEL, KEY_DEL, KEY_DEL)
    BY <1>2, <1>4, <1>14, <2>1 DEF KeyCap, normalmap, shiftmap, ctlmap, NO
  <2> QED  BY <1>5, <1>6, <2>2 DEF d
<1>15. CASE k = [e0 |-> FALSE, code |-> \h47]
  <2>1. d = \h47 /\ k.code = \h47 /\ k.e0 = FALSE  BY <1>1, <1>15
  <2>2. Caps(55, 55, 0)
    BY <1>2, <1>4, <1>15, <2>1 DEF KeyCap, normalmap, shiftmap, ctlmap, NO
  <2> QED  BY <1>5, <1>6, <2>2 DEF d
<1>16. CASE k = [e0 |-> TRUE, code |-> \h47]
  <2>1. d = \hC7 /\ k.code = \h47 /\ k.e0 = TRUE  BY <1>1, <1>16
  <2>2. Caps(KEY_HOME, KEY_HOME, 0)
    BY <1>2, <1>4, <1>16, <2>1 DEF KeyCap, normalmap, shiftmap, ctlmap, NO
  <2> QED  BY <1>5, <1>6, <2>2 DEF d
<1>17. CASE k = [e0 |-> TRUE, code |-> \h17]
  <2>1. d = \h97 /\ k.code = \h17 /\ k.e0 = TRUE  BY <1>1, <1>17
  <2>2. Caps(0, 0, KEY_HOME)
    BY <1>2, <1>4, <1>17, <2>1 DEF KeyCap, normalmap, shiftmap, ctlmap, NO
  <2> QED  BY <1>5, <1>6, <2>2 DEF d
<1>18. CASE /\ k.e0 => k.code \notin {\h35, \h1C, \h53, \h47, \h17}
            /\ ~k.e0 => k.code \notin {\h1E, \h02, \h35, \h1C, \h53, \h47}
  <2>1. d \notin {\h1E, \h02, \h35, \hB5, \h1C, \h9C, \h53, \hD3, \h47, \hC7, \h97}
    BY <1>1, <1>18
  <2>2. normalmap[d] = 0 /\ shiftmap[d] = 0 /\ ctlmap[d] = 0
    BY <1>2, <2>1 DEF normalmap, shiftmap, ctlmap, NO
  <2>3. KeyCap(k) = <<0, 0, 0>>
    BY <1>1, <1>3, <1>18 DEF KeyCap
  <2> QED  BY <1>5, <1>6, <2>2, <2>3 DEF d
<1>19. CASE k.e0
  <2>1. /\ k.code = \h35 => k = [e0 |-> TRUE, code |-> \h35]
        /\ k.code = \h1C => k = [e0 |-> TRUE, code |-> \h1C]
        /\ k.code = \h53 => k = [e0 |-> TRUE, code |-> \h53]
        /\ k.code = \h47 => k = [e0 |-> TRUE, code |-> \h47]
        /\ k.code = \h17 => k = [e0 |-> TRUE, code |-> \h17]
    BY <1>1, <1>3, <1>19
  <2>2. CASE k.code \notin {\h35, \h1C, \h53, \h47, \h17}
    BY <1>18, <1>19, <2>2
  <2>3. CASE k.code \in {\h35, \h1C, \h53, \h47, \h17}
    BY <2>1, <2>3, <1>10, <1>12, <1>14, <1>16, <1>17
  <2> QED  BY <2>2, <2>3
<1>20. CASE ~k.e0
  BY <1>1, <1>3, <1>7, <1>8, <1>9, <1>11, <1>13, <1>15, <1>18, <1>20, SMTT(60)
<1> QED  BY <1>19, <1>20
-----------------------------------------------------------------------------
(* The driver implements the keyboard of events.                           *)

\* The bytes are those of keys.
OfKeys(s) == \A i \in Ends(s) : EventAt(s, i).key \in Key

\* The inductive invariant of the refinement.
RInv == KInv /\ OfKeys(Stream) /\ \E p : Lists(p, Stream)

LEMMA KeyStruck ==
  ASSUME RInv, NEW k \in Key, NEW d \in BOOLEAN, Strike(k, d)
  PROVE  RInv' /\ AbstractKeyboard!Strike(k, d)
<1> DEFINE s == Stream
           t == Stream'
<1>1. /\ wire' \in Seq(1 .. 255) /\ s \in Seq(1 .. 255) /\ t \in Seq(1 .. 255)
      /\ \E x \in 1 .. 255 : Grown(k, d, s, t, x)
  BY StrikeStream DEF RInv
<1>2. PICK p : Lists(p, s)
  BY DEF RInv
<1>3. OfKeys(s) /\ KInv'
  BY StrikeStep DEF RInv
<1>4. /\ Pending = Parse(s) /\ Pending' = Parse(t)
      /\ shift' = shift /\ out' = out
  BY DEF Pending, Stream, Strike
<1> HIDE DEF s, t
<1>5. PICK x \in 1 .. 255 : Grown(k, d, s, t, x)
  BY <1>1
<1> DEFINE a == Len(s)
           b == Len(t)
<1>6. a \in Nat /\ b \in Nat /\ a = Len(s) /\ b = Len(t)
  BY <1>1
<1>7. /\ (d /\ x = k.code) \/ (~d /\ x = k.code + \h80)
      /\ x # \hE0
      /\ \A i \in 1 .. a : t[i] = s[i]
      /\ \/ k.e0 /\ b = a + 2 /\ t[a + 1] = \hE0 /\ t[a + 2] = x
         \/ ~k.e0 /\ b = a + 1 /\ t[a + 1] = x /\ (a = 0 \/ t[a] # \hE0)
  BY <1>5 DEF Grown
<1> HIDE DEF a, b
<1>8. /\ a < b /\ t[b] = x /\ (k.e0 <=> b > 1 /\ t[b - 1] = \hE0)
      /\ \A i \in a + 1 .. b - 1 : t[i] = \hE0
  BY <1>6, <1>7, CodeTyped
<1>9. /\ Lists(Append(p, b), t)
      /\ Parse(t) = Append(Parse(s), EventAt(t, b))
  <2>1. s \in Seq(1 .. 255) /\ t \in Seq(1 .. 255) /\ t[b] # \hE0
    BY <1>1, <1>7, <1>8
  <2>2. OneMore(s, a, t, b)
    BY <1>6, <1>7, <1>8, <2>1 DEF OneMore
  <2> QED  BY <1>2, <1>6, <2>1, <2>2, ParseAppend
<1>10. EventAt(t, b) = [key |-> k, down |-> d]
  <2>1. x % \h80 = k.code /\ (x < \h80 <=> d) /\ k.e0 \in BOOLEAN
    BY <1>7, CodeTyped
  <2>2. k = [e0 |-> k.e0, code |-> k.code]
    BY KbdAssumption
  <2>3. [e0 |-> b > 1 /\ t[b - 1] = \hE0, code |-> x % \h80] = k
    BY <1>8, <2>1, <2>2
  <2> QED  BY <1>8, <2>1, <2>3 DEF EventAt
<1>11. OfKeys(t)
  <2> SUFFICES ASSUME NEW i \in Ends(t) PROVE EventAt(t, i).key \in Key
    BY DEF OfKeys
  <2>1. i \in 1 .. b /\ t[i] # \hE0
    BY <1>1 DEF Ends, b
  <2>2. i \in 1 .. a \/ i \in a + 1 .. b - 1 \/ i = b
    BY <1>6, <1>8, <2>1, Places
  <2>3. CASE i \in 1 .. a
    <3>1. t[i] = s[i] /\ (i > 1 => t[i - 1] = s[i - 1])
      <4>1. i > 1 => i - 1 \in 1 .. a
        BY <1>6, <2>3
      <4> QED  BY <1>7, <2>3, <4>1
    <3>2. i \in Ends(s) /\ EventAt(t, i) = EventAt(s, i)
      BY <1>1, <2>1, <2>3, <3>1 DEF Ends, EventAt, a
    <3> QED  BY <1>3, <3>2 DEF OfKeys
  <2>4. CASE i = b
    BY <1>10, <2>4
  <2> QED  BY <1>8, <2>1, <2>2, <2>3, <2>4
<1>12. RInv'
  BY <1>3, <1>9, <1>11 DEF RInv, t
<1>13. Pending' = Append(Pending, [key |-> k, down |-> d])
  BY <1>4, <1>9, <1>10
<1> QED  BY <1>4, <1>12, <1>13 DEF AbstractKeyboard!Strike

\* A byte that is not 0xE0 is the end of the next event, and the driver looks
\* it up in its key's place.
LEMMA KeyTaken ==
  ASSUME RInv, wire # << >>, Head(wire) # \hE0, wire' = Tail(wire),
         shift' \cap {"E0ESC"} = {}, KInv'
  PROVE  /\ RInv'
         /\ Pending # << >> /\ Pending' = Tail(Pending)
         /\ Head(Pending).down \in BOOLEAN /\ (Head(Pending).down <=> Head(wire) < \h80)
         /\ Head(Pending).key \in Key
         /\ Head(wire) < \h80 =>
              DataOf(Head(Pending).key)
                = IF "E0ESC" \in shift THEN Head(wire) + \h80 ELSE Head(wire)
         /\ Head(wire) >= \h80 =>
              DataOf(Head(Pending).key)
                = IF "E0ESC" \in shift THEN Head(wire) ELSE Head(wire) - \h80
<1> DEFINE s == Stream
           t == Stream'
           n == IF "E0ESC" \in shift THEN 2 ELSE 1
           x == Head(wire)
<1>1. n \in {1, 2} /\ (n = 2 <=> "E0ESC" \in shift) /\ KInv
  BY DEF RInv
<1> HIDE DEF n
<1>2. /\ s \in Seq(1 .. 255) /\ t \in Seq(1 .. 255) /\ Cut(n, s, t) /\ s[n] = x
  BY <1>1, TakeStream
<1>3. x \in 1 .. 255 /\ (n = 2 => s[n - 1] = \hE0)
  BY <1>1, HeadInStream
<1>4. PICK p : Lists(p, s)
  BY DEF RInv
<1>5. OfKeys(s)
  BY DEF RInv
<1>6. Pending = Parse(s) /\ Pending' = Parse(t)
  BY DEF Pending, Stream
<1> HIDE DEF s, t, x
<1> DEFINE b == Len(t)
<1>7. b \in Nat
  BY <1>2
<1> HIDE DEF b
<1>8. /\ Parse(s) # << >> /\ Head(Parse(s)) = EventAt(s, n)
      /\ Parse(t) = Tail(Parse(s)) /\ n \in Ends(s)
  BY <1>1, <1>2, <1>4, <1>7, ParseCut DEF b
<1>9. /\ \E q : Lists(q, t)
      /\ \A i \in Ends(t) : i + n \in Ends(s) /\ EventAt(t, i) = EventAt(s, i + n)
  <2>1. /\ Lists([m \in 1 .. Len(p) - 1 |-> p[m + 1] - n], t)
        /\ \A i \in Ends(t) : i + n \in Ends(s) /\ EventAt(t, i) = EventAt(s, i + n)
    <3>1. /\ s \in Seq(1 .. 255) /\ t \in Seq(1 .. 255) /\ Lists(p, s)
          /\ n \in {1, 2} /\ b \in Nat /\ b = Len(t) /\ Cut(n, s, t)
      BY <1>1, <1>2, <1>4, <1>7 DEF b
    <3> QED  BY ONLY <3>1, ListsCut
  <2> QED  BY <2>1
<1>10. RInv'
  <2>1. OfKeys(t)
    BY <1>5, <1>9 DEF OfKeys
  <2> QED  BY <1>9, <2>1 DEF RInv, t
<1> DEFINE k == EventAt(s, n).key
<1>11. k \in Key
  BY <1>5, <1>8 DEF OfKeys
<1>12. /\ EventAt(s, n).down = (x < \h80)
       /\ k = [e0 |-> n = 2, code |-> x % \h80]
  <2>1. n > 1 /\ s[n - 1] = \hE0 <=> n = 2
    BY <1>1, <1>3
  <2> QED  BY <1>2, <2>1 DEF EventAt
<1>13. (k.e0 <=> n = 2) /\ k.code = x % \h80
  <2> DEFINE e == n = 2
             y == x % \h80
  <2>1. k = [e0 |-> e, code |-> y]
    BY <1>12
  <2> HIDE DEF e, y, k
  <2>2. k.e0 = e /\ k.code = y
    BY <2>1
  <2> QED  BY <2>2 DEF e, y
<1> HIDE DEF k
<1>14. /\ x < \h80 => DataOf(k) = IF n = 2 THEN x + \h80 ELSE x
       /\ x >= \h80 => DataOf(k) = IF n = 2 THEN x ELSE x - \h80
  BY <1>3, <1>13 DEF DataOf
<1>15. Head(Pending) = EventAt(s, n)
  BY <1>6, <1>8
<1>16. /\ Head(Pending).key = k
       /\ Head(Pending).down \in BOOLEAN /\ (Head(Pending).down <=> x < \h80)
  <2> DEFINE e == x < \h80
  <2>1. EventAt(s, n).down = e /\ e \in BOOLEAN
    BY <1>12
  <2> HIDE DEF e
  <2>2. Head(Pending).key = k /\ Head(Pending).down = e
    BY <1>15, <2>1 DEF k
  <2> QED  BY <2>1, <2>2 DEF e
<1>17. Pending # << >> /\ Pending' = Tail(Pending)
  BY <1>6, <1>8
<1> QED  BY <1>1, <1>10, <1>11, <1>14, <1>16, <1>17 DEF x

LEMMA ReleaseTaken ==
  ASSUME RInv, released
  PROVE  RInv' /\ AbstractKeyboard!TakeRelease
<1> DEFINE k == Head(Pending).key
           data == IF "E0ESC" \in shift THEN Head(wire) ELSE Head(wire) - \h80
<1>1. /\ wire # << >> /\ Head(wire) # \hE0 /\ Head(wire) >= \h80 /\ wire' = Tail(wire)
      /\ shift' = shift \ (shiftcode[data] \cup {"E0ESC"}) /\ out' = out
  BY DEF released
<1>2. KInv' /\ shift' \cap {"E0ESC"} = {}
  BY <1>1, ReleasedStep DEF RInv
<1>3. Head(wire) \in 1 .. 255
  BY <1>1, HeadTyped DEF RInv, KInv
<1>4. /\ RInv' /\ Pending # << >> /\ Pending' = Tail(Pending)
      /\ ~Head(Pending).down /\ k \in Key /\ DataOf(k) = data
  <2>1. ~(Head(wire) < \h80)
    <3>1. \A x \in 1 .. 255 : x >= \h80 => ~(x < \h80)
      OBVIOUS
    <3> QED  BY <1>1, <1>3, <3>1
  <2> QED  BY <1>1, <1>2, <2>1, KeyTaken
<1> HIDE DEF k, data
<1>5. shiftcode[data] = AbstractKeyboard!ModOf(k)
  BY <1>4, ModifierTable
<1>6. shift' \ {"E0ESC"} = (shift \ {"E0ESC"}) \ AbstractKeyboard!ModOf(k)
  BY <1>1, <1>5
<1> QED  BY <1>1, <1>4, <1>6 DEF AbstractKeyboard!TakeRelease, k

LEMMA PressTaken ==
  ASSUME RInv, pressed
  PROVE  RInv' /\ AbstractKeyboard!TakePress
<1> DEFINE k == Head(Pending).key
           data == IF "E0ESC" \in shift THEN Head(wire) + \h80 ELSE Head(wire)
           s == SymDiff((shift \ {"E0ESC"}) \cup shiftcode[data], togglecode[data])
           m == charcode(s)[data]
           c == IF "CAPSLOCK" \in s THEN LetterCase(m) ELSE m
<1>1. /\ wire # << >> /\ Head(wire) < \h80 /\ wire' = Tail(wire) /\ shift' = s
      /\ out' = IF c = NO THEN out
                ELSE [char |-> c, reboot |-> {"CTL", "ALT"} \subseteq s /\ c = KEY_DEL]
  BY DEF pressed
<1>2. KInv'
  BY PressedStep DEF RInv
<1>3. Head(wire) \in 1 .. 255 /\ Head(wire) # \hE0 /\ data \in 0 .. 255
  <2>1. wire \in Seq(1 .. 255)
    BY DEF RInv, KInv
  <2>2. Head(wire) \in 1 .. 255
    BY <1>1, <2>1, HeadTyped
  <2>3. ASSUME NEW x \in 1 .. 255, x < \h80
        PROVE  x # \hE0 /\ x \in 0 .. 255 /\ x + \h80 \in 0 .. 255
    BY <2>3
  <2> QED  BY <1>1, <2>2, <2>3
<1>4. "E0ESC" \notin s
  <2>1. togglecode[data] \subseteq {"CAPSLOCK", "NUMLOCK", "SCROLLLOCK"}
        /\ "E0ESC" \notin shiftcode[data]
    BY <1>3, ShiftcodeTable, SMTT(60) DEF togglecode
  <2> QED  BY <2>1 DEF SymDiff
<1>5. /\ RInv' /\ Pending # << >> /\ Pending' = Tail(Pending)
      /\ Head(Pending).down /\ k \in Key /\ DataOf(k) = data
  <2>1. shift' \cap {"E0ESC"} = {}
    BY <1>1, <1>4
  <2> QED  BY <1>1, <1>2, <1>3, <2>1, KeyTaken
<1> HIDE DEF k, data
<1>6. s = AbstractKeyboard!Flip(k, (shift \ {"E0ESC"}) \cup AbstractKeyboard!ModOf(k))
  <2>1. shiftcode[data] = AbstractKeyboard!ModOf(k)
    BY <1>5, ModifierTable
  <2> QED  BY <1>5, <2>1, LockTable
<1> HIDE DEF s
<1>7. c = AbstractKeyboard!CharOf(k, s)
  <2> DEFINE e == IF "CTL" \in s THEN ControlCap[k]
                  ELSE IF "SHIFT" \in s THEN ShiftedCap[k] ELSE PlainCap[k]
  <2>1. m = e
    BY <1>5, CharacterTables DEF charcode
  <2>2. e \in {PlainCap[k], ShiftedCap[k], ControlCap[k]}
    OBVIOUS
  <2>3. LetterCase(e) = IF e \in DOMAIN OtherCase THEN OtherCase[e] ELSE e
    BY <1>5, <2>2, CharacterTables
  <2>4. AbstractKeyboard!CharOf(k, s)
          = IF "CAPSLOCK" \in s /\ e \in DOMAIN OtherCase THEN OtherCase[e] ELSE e
    BY DEF AbstractKeyboard!CharOf
  <2> HIDE DEF e, m
  <2> QED  BY <2>1, <2>3, <2>4
<1> HIDE DEF c
<1>8. shift' \ {"E0ESC"} = s
  BY <1>1, <1>4
<1> QED  BY <1>1, <1>5, <1>6, <1>7, <1>8 DEF AbstractKeyboard!TakePress, k, NO

\* Whatever keys there are, also those that share a code with another one, and
\* wherever kbd_proc_data is called between the bytes of a key, the characters
\* it returns are those printed on the keys in the order of their events, for
\* the modifiers and locks in force then (kern/console.c:311-361).
THEOREM KbdImplementsKeyboard == KbdSpec => ImplementsKeyboard
<1>1. KbdInit => RInv /\ AbstractKeyboard!Init
  <2> SUFFICES ASSUME KbdInit PROVE RInv /\ AbstractKeyboard!Init
    OBVIOUS
  <2>1. KInv
    BY KInvInit
  <2>2. Stream = << >> /\ Ends(Stream) = {}
    <3>1. Stream = << >>
      BY DEF KbdInit, Stream
    <3> QED  BY <3>1 DEF Ends
  <2>3. Lists(<< >>, Stream)
    BY <2>2 DEF Lists
  <2>4. Pending = << >>
    <3>1. Parse(Stream) = [n \in 1 .. Len(<< >>) |-> EventAt(Stream, (<< >>)[n])]
      BY <2>3, ParseIs
    <3> QED  BY <3>1 DEF Pending, Stream
  <2> QED  BY <2>1, <2>2, <2>3, <2>4 DEF RInv, OfKeys, KbdInit, AbstractKeyboard!Init, NO
<1>2. RInv /\ [KbdNext]_kbd_vars => RInv' /\ [AbstractKeyboard!Next]_AbstractKeyboard!vars
  <2> SUFFICES ASSUME RInv, [KbdNext]_kbd_vars
               PROVE  RInv' /\ [AbstractKeyboard!Next]_AbstractKeyboard!vars
    OBVIOUS
  <2>1. ASSUME NEW k \in Key, NEW d \in BOOLEAN, Strike(k, d)
        PROVE  RInv' /\ AbstractKeyboard!Next
    BY <2>1, KeyStruck DEF AbstractKeyboard!Next
  <2>2. CASE escape
    <3>1. Stream' = Stream /\ KInv'
      BY <2>2, EscapeStream, EscapeStep DEF RInv
    <3>2. Pending' = Pending /\ shift' \ {"E0ESC"} = shift \ {"E0ESC"} /\ out' = out
      BY <2>2, <3>1 DEF Pending, Stream, escape
    <3>3. RInv'
      BY <3>1 DEF RInv
    <3> QED  BY <3>2, <3>3 DEF AbstractKeyboard!vars
  <2>3. CASE released
    BY <2>3, ReleaseTaken DEF AbstractKeyboard!Next
  <2>4. CASE pressed
    BY <2>4, PressTaken DEF AbstractKeyboard!Next
  <2>5. CASE UNCHANGED kbd_vars
    <3>1. Stream' = Stream /\ KInv' /\ shift' = shift /\ out' = out
      BY <2>5 DEF kbd_vars, RInv, KInv, WholeKeys, LastTells, Stream
    <3>2. Pending' = Pending
      BY <3>1 DEF Pending, Stream
    <3>3. RInv'
      BY <3>1 DEF RInv
    <3> QED  BY <3>1, <3>2, <3>3 DEF AbstractKeyboard!vars
  <2> QED  BY <2>1, <2>2, <2>3, <2>4, <2>5 DEF KbdNext, proc_data
<1> QED  BY <1>1, <1>2, PTL DEF KbdSpec, ImplementsKeyboard, AbstractKeyboard!Spec
-----------------------------------------------------------------------------
(* Console input.                                                          *)

USE ConsAssumption

\* Succ stays inside the buffer.
LEMMA SuccInSlot == ASSUME NEW p \in Slot PROVE Succ(p) \in Slot
  BY DEF Slot, Succ

\* One turn of cons_intr keeps the buffer and both its indices typed.
LEMMA StoreTyped ==
  ASSUME TypeOK, NEW c \in Byte, Store(c)
  PROVE  buf' \in [Slot -> Byte] /\ rpos' \in Slot /\ wpos' \in Slot
<1>1. CASE c = 0  BY <1>1 DEF Store, TypeOK
<1>2. CASE c # 0  BY <1>2, SuccInSlot DEF Store, TypeOK
<1> QED  BY <1>1, <1>2

\* Type invariant: whatever the devices deliver, cons_intr and cons_getc
\* index cons.buf inside its bounds.
THEOREM TypeCorrect == Spec => []TypeOK
<1>1. Init => TypeOK
  BY DEF Init, TypeOK, Slot, Byte
<1>2. TypeOK /\ [Next]_vars => TypeOK'
  <2> SUFFICES ASSUME TypeOK, [Next]_vars PROVE TypeOK'
    OBVIOUS
  <2>1. ASSUME NEW b \in Byte, SerialArrives(b) PROVE TypeOK'
    BY <2>1 DEF SerialArrives, TypeOK
  <2>2. ASSUME NEW b \in Byte, KbdArrives(b) PROVE TypeOK'
    BY <2>2 DEF KbdArrives, TypeOK
  <2>3. CASE cons_init
    BY <2>3 DEF cons_init, TypeOK
  <2>4. CASE getchar
    BY <2>4 DEF getchar, TypeOK
  <2>5. CASE serial_proc_data
    <3>1. Head(uart) \in Byte  BY <2>5 DEF serial_proc_data, TypeOK
    <3> QED  BY <2>5, <3>1, StoreTyped DEF serial_proc_data, TypeOK
  <2>6. CASE serial_intr_returns
    BY <2>6 DEF serial_intr_returns, TypeOK
  <2>7. CASE kbd_proc_data
    <3>1. Head(kbd) \in Byte  BY <2>7 DEF kbd_proc_data, TypeOK
    <3>2. kbd' \in Seq(Byte) /\ Len(kbd') <= KbdDepth
      BY <2>7 DEF kbd_proc_data, TypeOK
    <3> QED  BY <2>7, <3>1, <3>2, StoreTyped DEF kbd_proc_data, TypeOK
  <2>8. CASE kbd_intr_returns
    BY <2>8 DEF kbd_intr_returns, TypeOK
  <2>9. CASE grab
    BY <2>9, SuccInSlot DEF grab, TypeOK
  <2>10. CASE grab_none
    BY <2>10 DEF grab_none, TypeOK
  <2>11. CASE UNCHANGED vars
    BY <2>11 DEF vars, TypeOK
  <2> QED
    BY <2>1, <2>2, <2>3, <2>4, <2>5, <2>6, <2>7, <2>8, <2>9, <2>10, <2>11
    DEF Next, Arrival, Kernel
<1> QED  BY <1>1, <1>2, PTL DEF Spec
-----------------------------------------------------------------------------
(* The refinement of CharQueue.                                            *)

\* The window is a sequence of fewer than CONSBUFSIZE bytes.
LEMMA WindowType ==
  ASSUME TypeOK
  PROVE  /\ Waiting \in 0 .. CONSBUFSIZE - 1
         /\ Window \in Seq(Byte)
         /\ Len(Window) = Waiting
         /\ \A i \in 1 .. Waiting : SlotOf(i) \in Slot /\ Window[i] = buf[SlotOf(i)]
<1>1. Waiting \in 0 .. CONSBUFSIZE - 1
  BY DEF TypeOK, Waiting, Slot
<1>2. \A i \in 1 .. Waiting : SlotOf(i) \in Slot
  BY DEF TypeOK, Waiting, Slot, SlotOf
<1>3. \A i \in 1 .. Waiting : buf[SlotOf(i)] \in Byte
  BY <1>2 DEF TypeOK
<1> QED  BY <1>1, <1>2, <1>3 DEF Window

\* Storing a character appends it to the window, or empties the window when
\* it already holds CONSBUFSIZE - 1 characters.
LEMMA StoreIsPut ==
  ASSUME TypeOK, NEW c \in Byte \ {0}, Store(c), UNCHANGED got
  PROVE  Queue!Put(c)
<1>1. /\ wpos' = Succ(wpos) /\ rpos' = rpos
      /\ buf' = [buf EXCEPT ![wpos] = c]
  BY DEF Store
<1>3. CASE Waiting < CONSBUFSIZE - 1
  <2>1. Waiting' = Waiting + 1
    BY <1>1, <1>3 DEF TypeOK, Waiting, Slot, Succ
  <2>2. SlotOf(Waiting + 1) = wpos
    BY <1>3 DEF TypeOK, Waiting, Slot, SlotOf
  <2>3. \A i \in 1 .. Waiting : SlotOf(i) \in Slot /\ SlotOf(i) # wpos
    BY <1>3 DEF TypeOK, Waiting, Slot, SlotOf
  <2>4. \A i \in 1 .. Waiting + 1 : SlotOf(i)' = SlotOf(i)
    BY <1>1 DEF SlotOf
  <2>5. \A i \in 1 .. Waiting : buf'[SlotOf(i)] = buf[SlotOf(i)]
    BY <1>1, <2>3 DEF TypeOK
  <2>6. buf'[wpos] = c
    BY <1>1 DEF TypeOK
  <2>7. Window' = [i \in 1 .. Waiting + 1 |-> buf'[SlotOf(i)]]
    BY <2>1, <2>4 DEF Window
  <2>8. Window' = Append(Window, c)
    <3>1. Append(Window, c) \in Seq(Byte) /\ Len(Append(Window, c)) = Waiting + 1
      BY WindowType
    <3>2. \A i \in 1 .. Waiting + 1 : Append(Window, c)[i] = buf'[SlotOf(i)]
      BY <2>2, <2>5, <2>6, WindowType
    <3>3. Window' \in Seq(Byte) /\ Len(Window') = Waiting + 1
      <4>1. \A i \in 1 .. Waiting + 1 : buf'[SlotOf(i)] \in Byte
        BY <2>2, <2>5, <2>6, WindowType DEF TypeOK
      <4> QED  BY <2>7, <4>1, WindowType
    <3>4. \A i \in 1 .. Waiting + 1 : Window'[i] = buf'[SlotOf(i)]
      BY <2>7
    <3> QED  BY <3>1, <3>2, <3>3, <3>4, SeqEqual
  <2> QED  BY <1>3, <2>8, WindowType DEF Queue!Put
<1>4. CASE Waiting = CONSBUFSIZE - 1
  <2>1. Succ(wpos) = rpos
    BY <1>4 DEF TypeOK, Waiting, Slot, Succ
  <2>2. Waiting' = 0
    BY <1>1, <2>1 DEF TypeOK, Waiting, Slot
  <2>3. Window' = << >>
    BY <2>2 DEF Window
  <2> QED  BY <1>4, <2>3, WindowType DEF Queue!Put
<1> QED  BY <1>3, <1>4, WindowType

\* A successful cons_getc takes the oldest character of the window.
LEMMA GrabIsGet ==
  ASSUME TypeOK, grab
  PROVE  Queue!Get
<1>1. /\ rpos # wpos /\ got' = buf[rpos]
      /\ rpos' = Succ(rpos) /\ wpos' = wpos /\ buf' = buf
  BY DEF grab
<1>2. Waiting >= 1
  BY <1>1 DEF TypeOK, Waiting, Slot
<1>3. SlotOf(1) = rpos
  BY DEF TypeOK, SlotOf, Slot
<1>4. Window # << >> /\ Head(Window) = buf[rpos]
  BY <1>2, <1>3, WindowType
<1>5. Waiting' = Waiting - 1
  BY <1>1 DEF TypeOK, Waiting, Slot, Succ
<1>6. \A i \in 1 .. Waiting - 1 : SlotOf(i)' = SlotOf(i + 1)
  BY <1>1 DEF TypeOK, Waiting, Slot, SlotOf, Succ
<1>7. Window' = [i \in 1 .. Waiting - 1 |-> buf[SlotOf(i + 1)]]
  BY <1>1, <1>5, <1>6 DEF Window
<1>8. Window' = Tail(Window)
  <2>1. Window' \in Seq(Byte) /\ Len(Window') = Waiting - 1
    <3>1. \A i \in 1 .. Waiting - 1 : buf[SlotOf(i + 1)] \in Byte
      BY <1>2, WindowType DEF TypeOK
    <3> QED  BY <1>2, <1>7, <3>1, WindowType
  <2>2. Tail(Window) \in Seq(Byte) /\ Len(Tail(Window)) = Waiting - 1
    BY <1>2, WindowType
  <2>3. \A i \in 1 .. Waiting - 1 : Window'[i] = buf[SlotOf(i + 1)]
    BY <1>7
  <2>4. \A i \in 1 .. Waiting - 1 : Tail(Window)[i] = buf[SlotOf(i + 1)]
    BY <1>2, WindowType
  <2> QED  BY <2>1, <2>2, <2>3, <2>4, SeqEqual
<1> QED  BY <1>1, <1>4, <1>8 DEF Queue!Get

\* A step that leaves cons and the result alone leaves the queue alone.
LEMMA NoCharStutters ==
  ASSUME UNCHANGED <<buf, rpos, wpos, got>>
  PROVE  UNCHANGED Queue!vars
<1>1. Window' = Window
  BY DEF Window, Waiting, SlotOf
<1> QED  BY <1>1 DEF Queue!vars

\* The console buffer of kern/console.c implements the queue of CharQueue,
\* for a buffer of any size.
THEOREM RingImplementsQueue == Spec => ImplementsQueue
<1>1. Init => Queue!Init
  <2> SUFFICES ASSUME Init PROVE Queue!Init
    OBVIOUS
  <2>1. Waiting = 0  BY DEF Init, Waiting
  <2>2. Window = << >>  BY <2>1 DEF Window
  <2> QED  BY <2>2 DEF Init, Queue!Init
<1>2. TypeOK /\ [Next]_vars => [Queue!Next]_(Queue!vars)
  <2> SUFFICES ASSUME TypeOK, [Next]_vars PROVE [Queue!Next]_(Queue!vars)
    OBVIOUS
  <2>1. ASSUME NEW c \in Byte, Store(c), UNCHANGED got
        PROVE  [Queue!Next]_(Queue!vars)
    <3>1. CASE c = 0
      BY <2>1, <3>1, NoCharStutters DEF Store
    <3>2. CASE c # 0
      <4>1. c \in Char  BY <3>2 DEF Byte
      <4>2. Queue!Put(c)  BY <2>1, <3>2, StoreIsPut
      <4> QED  BY <4>1, <4>2 DEF Queue!Next
    <3> QED  BY <3>1, <3>2
  <2>2. CASE serial_proc_data
    <3>1. Head(uart) \in Byte  BY <2>2 DEF serial_proc_data, TypeOK
    <3> QED  BY <2>1, <2>2, <3>1 DEF serial_proc_data
  <2>3. CASE kbd_proc_data
    <3>1. Head(kbd) \in Byte  BY <2>3 DEF kbd_proc_data, TypeOK
    <3> QED  BY <2>1, <2>3, <3>1 DEF kbd_proc_data
  <2>4. CASE grab
    BY <2>4, GrabIsGet DEF Queue!Next
  <2>5. CASE Arrival \/ cons_init \/ getchar \/ serial_intr_returns
             \/ kbd_intr_returns \/ grab_none
    <3>1. UNCHANGED <<buf, rpos, wpos, got>>
      BY <2>5 DEF Arrival, SerialArrives, KbdArrives, cons_init, getchar,
                  serial_intr_returns, kbd_intr_returns, grab_none
    <3> QED  BY <3>1, NoCharStutters
  <2>6. CASE UNCHANGED vars
    BY <2>6, NoCharStutters DEF vars
  <2> QED
    BY <2>2, <2>3, <2>4, <2>5, <2>6 DEF Next, Kernel
<1> QED
  BY <1>1, <1>2, TypeCorrect, PTL DEF Spec, ImplementsQueue, Queue!Spec
-----------------------------------------------------------------------------
(* What callers receive, from the history variables.                       *)

\* The history variables add nothing to what the console does.
LEMMA HistoryIsBeside == HistSpec => Spec
<1>1. HistInit => Init
  BY DEF HistInit
<1>2. [HistNext]_histVars => [Next]_vars
  <2> SUFFICES ASSUME [HistNext]_histVars PROVE [Next]_vars
    OBVIOUS
  <2>1. CASE HistNext
    BY <2>1 DEF HistNext, Next, Kernel
  <2>2. CASE UNCHANGED histVars
    BY <2>2 DEF histVars
  <2> QED  BY <2>1, <2>2
<1> QED  BY <1>1, <1>2, PTL DEF HistSpec, Spec

HistTypeOK ==
  /\ accepted \in Seq(Byte)
  /\ returned \in Seq(Byte)
  /\ full \in BOOLEAN

\* A character is given, or the whole buffer with it is not.
LEMMA StoredIsGiven ==
  ASSUME TypeOK, HistTypeOK, NEW b \in Byte \ {0}, Store(b), UNCHANGED got, Accept(b)
  PROVE  /\ accepted' = Append(accepted, b)
         /\ \/ Waiting < CONSBUFSIZE - 1 /\ Given' = Append(Given, b)
            \/ /\ Waiting = CONSBUFSIZE - 1 /\ full'
               /\ Given' = returned /\ Len(Given) = Len(returned) + CONSBUFSIZE - 1
<1>1. accepted' = Append(accepted, b) /\ returned' = returned
  BY DEF Accept
<1>2. Window' = IF Len(Window) < CONSBUFSIZE - 1 THEN Append(Window, b) ELSE << >>
  BY StoreIsPut DEF Queue!Put
<1>3. /\ Len(Window) = Waiting /\ Waiting \in 0 .. CONSBUFSIZE - 1
      /\ Window \in Seq(Byte) /\ returned \in Seq(Byte)
  BY WindowType DEF HistTypeOK
<1>4. CASE Waiting < CONSBUFSIZE - 1
  <2>1. returned \o Append(Window, b) = Append(returned \o Window, b)
    BY <1>3
  <2> QED  BY <1>1, <1>2, <1>3, <1>4, <2>1 DEF Given
<1>5. CASE Waiting = CONSBUFSIZE - 1
  <2>1. Window' = << >> /\ Given' = returned
    BY <1>1, <1>2, <1>3, <1>5 DEF Given
  <2>2. Len(Given) = Len(returned) + CONSBUFSIZE - 1
    BY <1>3, <1>5 DEF Given
  <2>3. full'
    BY <1>5 DEF Accept
  <2> QED  BY <1>1, <1>5, <2>1, <2>2, <2>3
<1> QED  BY <1>3, <1>4, <1>5

\* A character taken is given as before.
LEMMA TakenIsGiven ==
  ASSUME TypeOK, HistTypeOK, grab, returned' = Append(returned, got')
  PROVE  Given' = Given
<1>1. Window # << >> /\ Window' = Tail(Window) /\ got' = Head(Window)
  BY GrabIsGet DEF Queue!Get
<1>2. Window \in Seq(Byte) /\ returned \in Seq(Byte)
  BY WindowType DEF HistTypeOK
<1>3. Append(returned, Head(Window)) \o Tail(Window) = returned \o Window
  BY <1>1, <1>2
<1> QED  BY <1>1, <1>3 DEF Given

\* Every step stores one byte, takes one character, or changes nothing of both.
LEMMA HistSteps ==
  ASSUME TypeOK, HistTypeOK, [HistNext]_histVars
  PROVE  \/ \E b \in Byte \ {0} : Store(b) /\ Accept(b) /\ UNCHANGED got
         \/ grab /\ returned' = Append(returned, got') /\ UNCHANGED <<accepted, full>>
         \/ UNCHANGED <<buf, rpos, wpos, got, accepted, returned, full>>
<1>1. ASSUME NEW b \in Byte, Store(b), Accept(b), UNCHANGED got
      PROVE  \/ b # 0
             \/ UNCHANGED <<buf, rpos, wpos, got, accepted, returned, full>>
  BY <1>1 DEF Store, Accept, HistTypeOK
<1>2. CASE serial_proc_data /\ Accept(Head(uart))
  <2>1. Head(uart) \in Byte  BY <1>2 DEF serial_proc_data, TypeOK
  <2> QED  BY <1>1, <1>2, <2>1 DEF serial_proc_data
<1>3. CASE kbd_proc_data /\ Accept(Head(kbd))
  <2>1. Head(kbd) \in Byte  BY <1>3 DEF kbd_proc_data, TypeOK
  <2> QED  BY <1>1, <1>3, <2>1 DEF kbd_proc_data
<1>4. CASE /\ Arrival \/ cons_init \/ getchar \/ serial_intr_returns
              \/ kbd_intr_returns \/ grab_none
           /\ UNCHANGED <<accepted, returned, full>>
  BY <1>4 DEF Arrival, SerialArrives, KbdArrives, cons_init, getchar,
              serial_intr_returns, kbd_intr_returns, grab_none
<1>5. CASE UNCHANGED histVars
  BY <1>5 DEF histVars, vars
<1> QED  BY <1>2, <1>3, <1>4, <1>5 DEF HistNext

LEMMA HistTyped == HistSpec => []HistTypeOK
<1>1. HistInit => HistTypeOK
  <2>1. << >> \in Seq(Byte)  OBVIOUS
  <2> QED  BY <2>1 DEF HistInit, HistTypeOK
<1>2. TypeOK /\ HistTypeOK /\ [HistNext]_histVars => HistTypeOK'
  <2> SUFFICES ASSUME TypeOK, HistTypeOK, [HistNext]_histVars PROVE HistTypeOK'
    OBVIOUS
  <2>1. ASSUME NEW b \in Byte \ {0}, Store(b), Accept(b) PROVE HistTypeOK'
    BY <2>1 DEF Accept, HistTypeOK
  <2>2. CASE grab /\ returned' = Append(returned, got') /\ UNCHANGED <<accepted, full>>
    <3>1. got' \in Byte  BY <2>2 DEF grab, TypeOK
    <3> QED  BY <2>2, <3>1 DEF HistTypeOK
  <2> QED  BY <2>1, <2>2, HistSteps DEF HistTypeOK
<1> QED  BY <1>1, <1>2, HistoryIsBeside, TypeCorrect, PTL DEF HistSpec

\* While fewer than CONSBUFSIZE characters ever waited at once, getchar returns
\* what cons_intr accepted, all of it and in order, for a buffer of any size.
THEOREM NothingIsLost == HistSpec => []NothingLostBelowCapacity
<1>1. HistInit => NothingLostBelowCapacity
  <2> SUFFICES ASSUME HistInit PROVE NothingLostBelowCapacity
    OBVIOUS
  <2>1. Waiting = 0  BY DEF HistInit, Init, Waiting
  <2>2. Window = << >>  BY <2>1 DEF Window
  <2> QED  BY <2>2 DEF HistInit, NothingLostBelowCapacity, Given
<1>2. /\ TypeOK /\ HistTypeOK /\ NothingLostBelowCapacity
      /\ [HistNext]_histVars
      => NothingLostBelowCapacity'
  <2> SUFFICES ASSUME TypeOK, HistTypeOK, NothingLostBelowCapacity, [HistNext]_histVars
               PROVE  NothingLostBelowCapacity'
    OBVIOUS
  <2>1. ASSUME NEW b \in Byte \ {0}, Store(b), Accept(b), UNCHANGED got
        PROVE  NothingLostBelowCapacity'
    <3>1. full => full'
      BY <2>1 DEF Accept
    <3> QED  BY <2>1, <3>1, StoredIsGiven DEF NothingLostBelowCapacity
  <2>2. CASE grab /\ returned' = Append(returned, got') /\ UNCHANGED <<accepted, full>>
    BY <2>2, TakenIsGiven DEF NothingLostBelowCapacity
  <2>3. CASE UNCHANGED <<buf, rpos, wpos, got, accepted, returned, full>>
    BY <2>3 DEF NothingLostBelowCapacity, Given, Window, Waiting, SlotOf
  <2> QED  BY <2>1, <2>2, <2>3, HistSteps
<1> QED
  BY <1>1, <1>2, HistoryIsBeside, TypeCorrect, HistTyped, PTL DEF HistSpec

\* More blocks are longer.
LEMMA BlocksOrdered ==
  ASSUME NEW m \in Nat, NEW n \in Nat, m <= n
  PROVE  m * CONSBUFSIZE \in Nat /\ m * CONSBUFSIZE <= n * CONSBUFSIZE
<1>1. PICK d \in Nat : n = m + d
  <2>1. n - m \in Nat /\ n = m + (n - m)  OBVIOUS
  <2> QED  BY <2>1
<1>2. m * CONSBUFSIZE \in Nat /\ d * CONSBUFSIZE \in Nat
  OBVIOUS
<1>3. (m + d) * CONSBUFSIZE = m * CONSBUFSIZE + d * CONSBUFSIZE
  OBVIOUS
<1> QED  BY <1>1, <1>2, <1>3

\* What is not skipped is there.
LEMMA SkipsInside ==
  ASSUME NEW t \in Seq(Byte), NEW s \in Seq(Byte), NEW lost \in Nat,
         Len(s) = Len(t) + lost * CONSBUFSIZE,
         NEW skipped \in [1 .. Len(t) -> 0 .. lost], NEW i \in 1 .. Len(t)
  PROVE  i + skipped[i] * CONSBUFSIZE \in 1 .. Len(s)
<1>1. skipped[i] \in Nat /\ skipped[i] <= lost
  OBVIOUS
<1>2. /\ skipped[i] * CONSBUFSIZE \in Nat /\ lost * CONSBUFSIZE \in Nat
      /\ skipped[i] * CONSBUFSIZE <= lost * CONSBUFSIZE
  BY <1>1, BlocksOrdered
<1> QED  BY <1>2

\* A character more at the end of both.
LEMMA ThinsAppend ==
  ASSUME NEW t \in Seq(Byte), NEW s \in Seq(Byte), Thins(t, s), NEW b \in Byte
  PROVE  Thins(Append(t, b), Append(s, b))
<1> DEFINE n == Len(t)
           tb == Append(t, b)
           sb == Append(s, b)
<1>1. PICK lost \in 0 .. Len(s) :
        /\ Len(s) = n + lost * CONSBUFSIZE
        /\ \E skipped \in [1 .. n -> 0 .. lost] : Skips(t, s, skipped)
  BY DEF Thins
<1>2. PICK skipped \in [1 .. n -> 0 .. lost] : Skips(t, s, skipped)
  BY <1>1
<1> DEFINE more == [i \in 1 .. n + 1 |-> IF i = n + 1 THEN lost ELSE skipped[i]]
<1>3. n \in Nat /\ Len(tb) = n + 1 /\ Len(sb) = Len(s) + 1 /\ Len(s) \in Nat
  OBVIOUS
<1>4. lost * CONSBUFSIZE \in Nat /\ lost \in Nat
  BY BlocksOrdered
<1>5. \A i \in 1 .. n : i + skipped[i] * CONSBUFSIZE \in 1 .. Len(s)
  BY <1>1, <1>4, SkipsInside
<1>6. more \in [1 .. n + 1 -> 0 .. lost]
  BY <1>3
<1>7. more[n + 1] = lost /\ \A i \in 1 .. n : more[i] = skipped[i] /\ skipped[i] \in 0 .. lost
  BY <1>3
<1>8. /\ \A i \in 1 .. n : tb[i] = t[i]
      /\ \A i \in 1 .. Len(s) : sb[i] = s[i]
      /\ tb[n + 1] = b /\ sb[Len(s) + 1] = b
  OBVIOUS
<1> HIDE DEF more, sb, tb
<1>9. \A i \in 1 .. n + 1 : i \in 1 .. n \/ i = n + 1
  BY <1>3
<1>10. \A i, j \in 1 .. n + 1 : i <= j => more[i] <= more[j]
  <2> SUFFICES ASSUME NEW i \in 1 .. n + 1, NEW j \in 1 .. n + 1, i <= j
               PROVE  more[i] <= more[j]
    OBVIOUS
  <2>1. CASE j = n + 1
    BY <1>4, <1>7, <1>9, <2>1
  <2>2. CASE j # n + 1
    <3>1. i \in 1 .. n /\ j \in 1 .. n
      BY <1>3, <2>2
    <3> QED  BY <1>2, <1>7, <3>1 DEF Skips
  <2> QED  BY <2>1, <2>2
<1>11. \A i \in 1 .. n + 1 : tb[i] = sb[i + more[i] * CONSBUFSIZE]
  <2>1. ASSUME NEW i \in 1 .. n PROVE tb[i] = sb[i + more[i] * CONSBUFSIZE]
    BY <1>2, <1>5, <1>7, <1>8 DEF Skips
  <2>2. n + 1 + more[n + 1] * CONSBUFSIZE = Len(s) + 1
    BY <1>1, <1>3, <1>4, <1>7
  <2>3. tb[n + 1] = sb[n + 1 + more[n + 1] * CONSBUFSIZE]
    BY <1>8, <2>2
  <2> QED  BY <1>9, <2>1, <2>3
<1>12. \E skips \in [1 .. Len(tb) -> 0 .. lost] : Skips(tb, sb, skips)
  <2>1. Skips(tb, sb, more)
    BY <1>3, <1>10, <1>11 DEF Skips
  <2> QED  BY <1>3, <1>6, <2>1
<1>13. Len(sb) = Len(tb) + lost * CONSBUFSIZE /\ lost \in 0 .. Len(sb)
  BY <1>1, <1>3, <1>4
<1>14. Thins(tb, sb)
  BY <1>12, <1>13 DEF Thins
<1> QED  BY <1>14 DEF tb, sb

\* An overrun: a character more in one, CONSBUFSIZE - 1 fewer at the end of the
\* other.
LEMMA ThinsOverrun ==
  ASSUME NEW r \in Seq(Byte), NEW t \in Seq(Byte), NEW s \in Seq(Byte), Thins(t, s),
         NEW b \in Byte, Len(t) = Len(r) + CONSBUFSIZE - 1,
         \A i \in 1 .. Len(r) : t[i] = r[i]
  PROVE  Thins(r, Append(s, b))
<1> DEFINE n == Len(r)
           sb == Append(s, b)
<1>1. PICK lost \in 0 .. Len(s) :
        /\ Len(s) = Len(t) + lost * CONSBUFSIZE
        /\ \E skipped \in [1 .. Len(t) -> 0 .. lost] : Skips(t, s, skipped)
  BY DEF Thins
<1>2. PICK skipped \in [1 .. Len(t) -> 0 .. lost] : Skips(t, s, skipped)
  BY <1>1
<1> DEFINE left == [i \in 1 .. n |-> skipped[i]]
<1>3. /\ n \in Nat /\ Len(t) \in Nat /\ Len(s) \in Nat /\ Len(t) = n + (CONSBUFSIZE - 1)
      /\ Len(sb) = Len(s) + 1 /\ \A i \in 1 .. n : i \in 1 .. Len(t)
  OBVIOUS
<1>4. lost * CONSBUFSIZE \in Nat /\ lost \in Nat
  BY BlocksOrdered
<1>5. \A i \in 1 .. n : i + skipped[i] * CONSBUFSIZE \in 1 .. Len(s)
  BY <1>1, <1>3, <1>4, SkipsInside
<1>6. left \in [1 .. n -> 0 .. lost + 1] /\ \A i \in 1 .. n : left[i] = skipped[i]
  BY <1>3
<1>7. \A i \in 1 .. Len(s) : sb[i] = s[i]
  OBVIOUS
<1> HIDE DEF left, sb
<1>8. \A i, j \in 1 .. n : i <= j => left[i] <= left[j]
  BY <1>2, <1>3, <1>6 DEF Skips
<1>9. \A i \in 1 .. n : r[i] = sb[i + left[i] * CONSBUFSIZE]
  BY <1>2, <1>3, <1>5, <1>6, <1>7 DEF Skips
<1>10. \E skips \in [1 .. Len(r) -> 0 .. lost + 1] : Skips(r, sb, skips)
  <2>1. Skips(r, sb, left)
    BY <1>8, <1>9 DEF Skips
  <2> QED  BY <1>6, <2>1
<1>11. Len(sb) = Len(r) + (lost + 1) * CONSBUFSIZE
  <2>1. (lost + 1) * CONSBUFSIZE = lost * CONSBUFSIZE + CONSBUFSIZE
    BY <1>4
  <2>2. Len(sb) = n + (lost * CONSBUFSIZE + CONSBUFSIZE)
    BY <1>1, <1>3, <1>4
  <2> QED  BY <2>1, <2>2
<1>12. lost + 1 \in 0 .. Len(sb)
  BY <1>3, <1>4
<1>13. Thins(r, sb)
  BY <1>10, <1>11, <1>12 DEF Thins
<1> QED  BY <1>13 DEF sb

\* What an overrun loses is always a whole buffer of consecutive characters,
\* and the rest is returned once and in order, for a buffer of any size.
THEOREM LossIsWholeBuffers == HistSpec => []LostInWholeBuffers
<1>1. HistInit => LostInWholeBuffers
  <2> SUFFICES ASSUME HistInit PROVE LostInWholeBuffers
    OBVIOUS
  <2>1. Waiting = 0  BY DEF HistInit, Init, Waiting
  <2>2. Given = << >> /\ accepted = << >>
    BY <2>1 DEF HistInit, Given, Window
  <2>3. [i \in 1 .. Len(Given) |-> 0] \in [1 .. Len(Given) -> 0 .. 0]
    BY <2>2
  <2>4. Skips(Given, accepted, [i \in 1 .. Len(Given) |-> 0])
    BY <2>2 DEF Skips
  <2>5. \E skipped \in [1 .. Len(Given) -> 0 .. 0] : Skips(Given, accepted, skipped)
    BY <2>3, <2>4
  <2>6. Len(accepted) = Len(Given) + 0 * CONSBUFSIZE /\ 0 \in 0 .. Len(accepted)
    BY <2>2
  <2> QED  BY <2>5, <2>6 DEF LostInWholeBuffers, Thins
<1>2. /\ TypeOK /\ HistTypeOK /\ LostInWholeBuffers
      /\ [HistNext]_histVars
      => LostInWholeBuffers'
  <2> SUFFICES ASSUME TypeOK, HistTypeOK, LostInWholeBuffers, [HistNext]_histVars
               PROVE  LostInWholeBuffers'
    OBVIOUS
  <2>1. /\ Given \in Seq(Byte) /\ accepted \in Seq(Byte) /\ returned \in Seq(Byte)
        /\ \A i \in 1 .. Len(returned) : Given[i] = returned[i]
    BY WindowType DEF Given, HistTypeOK
  <2>2. Thins(Given, accepted)
    BY DEF LostInWholeBuffers
  <2>3. ASSUME NEW b \in Byte \ {0}, Store(b), Accept(b), UNCHANGED got
        PROVE  LostInWholeBuffers'
    <3>1. /\ accepted' = Append(accepted, b)
          /\ \/ Given' = Append(Given, b)
             \/ Given' = returned /\ Len(Given) = Len(returned) + CONSBUFSIZE - 1
      BY <2>3, StoredIsGiven
    <3>2. Thins(Given', accepted')
      BY <2>1, <2>2, <3>1, ThinsAppend, ThinsOverrun
    <3> QED  BY <3>2 DEF LostInWholeBuffers
  <2>4. CASE grab /\ returned' = Append(returned, got') /\ UNCHANGED <<accepted, full>>
    BY <2>4, TakenIsGiven DEF LostInWholeBuffers
  <2>5. CASE UNCHANGED <<buf, rpos, wpos, got, accepted, returned, full>>
    <3>1. UNCHANGED <<Given, accepted>>
      BY <2>5 DEF Given, Window, Waiting, SlotOf
    <3> QED  BY <3>1 DEF LostInWholeBuffers
  <2> QED  BY <2>3, <2>4, <2>5, HistSteps
<1> QED
  BY <1>1, <1>2, HistoryIsBeside, TypeCorrect, HistTyped, PTL DEF HistSpec
=============================================================================
