--------------------------- MODULE KvCache_proofs ---------------------------
(* Proofs about KvCache for every size of the cache, batch and ubatch, every *)
(* padding and every set of batches.                                         *)
(*                                                                           *)
(* The argument rests on one observation: as bindings.cpp drives the cache,  *)
(* the cells in use are always the first ones, cell c holds position c, and  *)
(* the head stands behind the last of them.                                  *)
EXTENDS KvCache, TLAPS, FiniteSetTheorems, SequenceTheorems

(* The cells when the first n of them hold positions 0 .. n - 1. *)
LayoutPos(n) == [c \in Cells |-> IF c < n THEN c ELSE Free]
Layout(n) == pos = LayoutPos(n) /\ head = n

(* The slot of m tokens behind n used cells. *)
SlotAt(n, m) == [i \in 1 .. m |-> n + i - 1]

-----------------------------------------------------------------------------
(* The helpers of the cache on such a layout. *)

LEMMA LayoutUsed ==
    ASSUME NEW n \in 0 .. Size, pos = LayoutPos(n)
    PROVE  /\ Used = 0 .. n - 1
           /\ Empty = n .. Size - 1
           /\ Cardinality(Used) = n
           /\ Cardinality(Empty) = Size - n
<1>1. Used = 0 .. n - 1
  BY SizesAssumption DEF LayoutPos, Used, Cells, Free
<1>2. Empty = n .. Size - 1
  BY <1>1, SizesAssumption DEF Empty, Cells
<1>3. Cardinality(0 .. n - 1) = n
  BY FS_Interval, SizesAssumption
<1>4. Cardinality(n .. Size - 1) = Size - n
  BY FS_Interval, SizesAssumption
<1> QED BY <1>1, <1>2, <1>3, <1>4

LEMMA LayoutSeqPosMax ==
    ASSUME NEW n \in 0 .. Size, pos = LayoutPos(n)
    PROVE  SeqPosMax = n - 1
<1>1. Used = 0 .. n - 1
  BY LayoutUsed
<1>2. \A c \in Used : pos[c] = c
  BY <1>1, SizesAssumption DEF LayoutPos, Cells
<1>3. CASE n = 0
  BY <1>1, <1>3 DEF SeqPosMax
<1>4. CASE n # 0
  <2>1. n - 1 \in Cells /\ n - 1 \in Used /\ Used # {}
    <3>1. n - 1 \in 0 .. n - 1 /\ n - 1 \in Cells
      BY <1>4, SizesAssumption DEF Cells
    <3> QED BY <1>1, <3>1
  <2>2. /\ \E c \in Used : pos[c] = n - 1
        /\ \A c \in Used : pos[c] <= n - 1
    BY <1>1, <1>2, <2>1
  <2>3. \A p \in Cells : (/\ \E c \in Used : pos[c] = p
                          /\ \A c \in Used : pos[c] <= p) => p = n - 1
    BY <1>1, <1>2, <2>1, SizesAssumption DEF Cells
  <2> QED BY <2>1, <2>2, <2>3 DEF SeqPosMax
<1> QED BY <1>3, <1>4

LEMMA SlotIsNext ==
    ASSUME NEW n \in 0 .. Size, Layout(n), NEW m \in Nat \ {0}
    PROVE  /\ n + m <= Size => FindSlot(m) = SlotAt(n, m) /\ FindSlot(m) # NoSlot
           /\ n + m > Size => FindSlot(m) = NoSlot
<1>1. /\ Empty = n .. Size - 1 /\ Cardinality(Used) = n /\ Cardinality(Empty) = Size - n
  BY LayoutUsed DEF Layout
<1>2. n + m > Size => FindSlot(m) = NoSlot
  BY <1>1, SizesAssumption DEF FindSlot
<1>3. ASSUME n + m <= Size PROVE FindSlot(m) = SlotAt(n, m) /\ FindSlot(m) # NoSlot
  <2>1. Start(m) = n
    BY <1>1 DEF Start, Layout
  <2>2. \A c \in Empty : Turn(m, c) = c - n
    BY <1>1, <2>1, SizesAssumption DEF Turn
  <2>3. \A c \in Empty : Ahead(m, c) = n .. c - 1
    BY <1>1, <2>2, SizesAssumption DEF Ahead
  <2>4. \A c \in Empty : Cardinality(Ahead(m, c)) = c - n
    <3> TAKE c \in Empty
    <3>1. Cardinality(n .. c - 1) = c - n
      BY <1>1, FS_Interval, SizesAssumption
    <3> QED BY <3>1, <2>3
  <2>5. \A i \in 1 .. m : (CHOOSE c \in Empty : Cardinality(Ahead(m, c)) = i - 1) = n + i - 1
    <3> TAKE i \in 1 .. m
    <3>1. n + i - 1 \in Empty
      BY <1>1, <1>3, SizesAssumption
    <3>2. Cardinality(Ahead(m, n + i - 1)) = i - 1
      BY <3>1, <2>4
    <3>3. \A c \in Empty : Cardinality(Ahead(m, c)) = i - 1 => c = n + i - 1
      BY <1>1, <2>4, SizesAssumption
    <3> QED BY <3>1, <3>2, <3>3
  <2>6. FindSlot(m) = SlotAt(n, m)
    <3>1. ~(m > Cardinality(Empty))
      BY <1>1, <1>3, SizesAssumption
    <3>2. FindSlot(m) = [i \in 1 .. m |-> CHOOSE c \in Empty : Cardinality(Ahead(m, c)) = i - 1]
      BY <3>1 DEF FindSlot
    <3> QED BY <3>2, <2>5 DEF SlotAt
  <2>7. 1 \in DOMAIN SlotAt(n, m) /\ DOMAIN NoSlot = {}
    BY DEF SlotAt, NoSlot
  <2> QED BY <2>6, <2>7
<1> QED BY <1>2, <1>3

LEMMA SlotFacts ==
    ASSUME NEW n \in Nat, NEW m \in Nat \ {0}
    PROVE  /\ SlotAt(n, m) \in Seq(Nat) /\ Len(SlotAt(n, m)) = m
           /\ \A i \in 1 .. m : SlotAt(n, m)[i] = n + i - 1
           /\ \A c \in Nat : InSlot(SlotAt(n, m), c) <=> c \in n .. n + m - 1
           /\ \A c \in n .. n + m - 1 : IndexIn(SlotAt(n, m), c) = c - n + 1
<1> DEFINE s == SlotAt(n, m)
<1>1. s \in Seq(Nat) /\ Len(s) = m /\ \A i \in 1 .. m : s[i] = n + i - 1
  BY DEF SlotAt
<1> HIDE DEF s
<1>2. \A c \in Nat : InSlot(s, c) <=> c \in n .. n + m - 1
  <2> TAKE c \in Nat
  <2>1. c \in n .. n + m - 1 => c - n + 1 \in 1 .. m /\ s[c - n + 1] = c
    BY <1>1
  <2> QED BY <2>1, <1>1 DEF InSlot
<1>3. \A c \in n .. n + m - 1 : IndexIn(s, c) = c - n + 1
  <2> TAKE c \in n .. n + m - 1
  <2>1. c - n + 1 \in 1 .. m /\ s[c - n + 1] = c
    BY <1>1
  <2>2. \A i \in 1 .. m : s[i] = c => i = c - n + 1
    BY <1>1
  <2> QED BY <1>1, <2>1, <2>2 DEF IndexIn
<1> QED BY <1>1, <1>2, <1>3 DEF s

LEMMA ApplyLayout ==
    ASSUME NEW n \in Nat, NEW m \in Nat \ {0}, n + m <= Size, pos = LayoutPos(n)
    PROVE  /\ ApplyPos(SlotAt(n, m), n) = LayoutPos(n + m)
           /\ ApplyHead(SlotAt(n, m)) = n + m
<1> DEFINE s == SlotAt(n, m)
<1>1. /\ Len(s) = m /\ s[m] = n + m - 1
      /\ \A c \in Cells : InSlot(s, c) <=> c \in n .. n + m - 1
      /\ \A c \in n .. n + m - 1 : IndexIn(s, c) = c - n + 1
  <2>1. Cells \subseteq Nat
    BY SizesAssumption DEF Cells
  <2>2. /\ Len(s) = m /\ \A i \in 1 .. m : s[i] = n + i - 1
        /\ \A c \in Nat : InSlot(s, c) <=> c \in n .. n + m - 1
        /\ \A c \in n .. n + m - 1 : IndexIn(s, c) = c - n + 1
    BY SlotFacts
  <2> QED BY <2>1, <2>2
<1> HIDE DEF s
<1>2. \A c \in Cells : ApplyPos(s, n)[c] = LayoutPos(n + m)[c]
  BY <1>1, SizesAssumption DEF ApplyPos, LayoutPos, Cells
<1>3. ApplyPos(s, n) = LayoutPos(n + m)
  BY <1>2 DEF ApplyPos, LayoutPos
<1> QED BY <1>1, <1>3 DEF ApplyHead, s

LEMMA RemoveLayout ==
    ASSUME NEW n \in Nat, NEW m \in Nat \ {0}, n + m <= Size
    PROVE  /\ RmPos(LayoutPos(n + m), n) = LayoutPos(n)
           /\ RmHead(LayoutPos(n + m), n + m, n) = n
<1> DEFINE p == LayoutPos(n + m)
<1>1. Removed(p, n) = n .. n + m - 1
  BY SizesAssumption DEF Removed, LayoutPos, Cells, Free
<1>2. \A c \in Cells : RmPos(p, n)[c] = LayoutPos(n)[c]
  BY <1>1, SizesAssumption DEF RmPos, LayoutPos, Cells
<1>3. RmPos(p, n) = LayoutPos(n)
  BY <1>2 DEF RmPos, LayoutPos
<1>4. n \in Removed(p, n) /\ n < n + m /\ \A d \in Removed(p, n) : n <= d
  BY <1>1
<1>5. \A c \in Removed(p, n) : (\A d \in Removed(p, n) : c <= d) => c = n
  BY <1>1, <1>4
<1> HIDE DEF p
<1>6. RmHead(p, n + m, n) = n
  BY <1>4, <1>5 DEF RmHead
<1> QED BY <1>3, <1>6 DEF p

(* Taking a ubatch back restores the cells it covered. *)
LEMMA RestoreLayout ==
    ASSUME NEW n \in Nat, NEW m \in Nat \ {0}, n + m <= Size, pos = LayoutPos(n + m),
           NEW old, old = [i \in 1 .. m |-> Free]
    PROVE  [c \in Cells |-> IF InSlot(SlotAt(n, m), c) THEN old[IndexIn(SlotAt(n, m), c)]
                            ELSE pos[c]] = LayoutPos(n)
<1> DEFINE s == SlotAt(n, m)
           q == [c \in Cells |-> IF InSlot(s, c) THEN old[IndexIn(s, c)] ELSE pos[c]]
<1>1. /\ \A c \in Cells : InSlot(s, c) <=> c \in n .. n + m - 1
      /\ \A c \in n .. n + m - 1 : IndexIn(s, c) = c - n + 1
  <2>1. Cells \subseteq Nat
    BY SizesAssumption DEF Cells
  <2>2. /\ Len(s) = m /\ \A i \in 1 .. m : s[i] = n + i - 1
        /\ \A c \in Nat : InSlot(s, c) <=> c \in n .. n + m - 1
        /\ \A c \in n .. n + m - 1 : IndexIn(s, c) = c - n + 1
    BY SlotFacts
  <2> QED BY <2>1, <2>2
<1> HIDE DEF s
<1>2. \A c \in Cells : q[c] = LayoutPos(n)[c]
  BY <1>1, SizesAssumption DEF LayoutPos, Cells
<1>3. q = LayoutPos(n)
  BY <1>2 DEF LayoutPos
<1> QED BY <1>3 DEF s

-----------------------------------------------------------------------------
(* The attention window covers every cell in use. *)
LEMMA PaddedCovers ==
    ASSUME NEW n \in Nat
    PROVE  Padded(n) \in Nat /\ n <= Padded(n)
<1> DEFINE a == n + Pad - 1
           q == a \div Pad
<1>1. Pad \in Nat /\ Pad > 0 /\ a \in Nat
  BY SizesAssumption
<1>2. q \in Nat /\ a % Pad \in 0 .. Pad - 1 /\ a = Pad * q + (a % Pad)
  BY <1>1
<1>3. Pad * q = q * Pad /\ q * Pad \in Nat
  BY <1>1, <1>2
<1>4. a - (a % Pad) >= n
  BY <1>1, <1>2
<1> QED BY <1>1, <1>2, <1>3, <1>4 DEF Padded

LEMMA WindowCovers ==
    ASSUME NEW n \in 1 .. Size
    PROVE  /\ MaxP1Of(LayoutPos(n)) = n
           /\ NKvOf(n) \in Nat /\ n <= NKvOf(n)
<1> DEFINE p == LayoutPos(n)
<1>1. n - 1 \in Cells /\ \A c \in Cells : p[c] # Free <=> c < n
  BY SizesAssumption DEF LayoutPos, Cells, Free
<1> HIDE DEF p
<1>2. p[n - 1] # Free /\ \A d \in Cells : p[d] # Free => d <= n - 1
  BY <1>1 DEF Cells
<1>3. \A c \in Cells : (p[c] # Free /\ \A d \in Cells : p[d] # Free => d <= c) => c = n - 1
  BY <1>1 DEF Cells
<1>4. MaxP1Of(p) = 1 + (n - 1)
  BY <1>1, <1>2, <1>3 DEF MaxP1Of
<1>5. NKvOf(n) \in Nat /\ n <= NKvOf(n)
  BY PaddedCovers, SizesAssumption DEF NKvOf, AtLeastOnePad
<1> QED BY <1>4, <1>5 DEF p

(* Every row of the mask, the copied ones included, shows exactly the cells  *)
(* of the positions up to the token's own.                                   *)
LEMMA RowIsPast ==
    ASSUME NEW n \in Nat, NEW m \in Nat \ {0}, n + m <= Size,
           NEW nkv \in Nat, n + m <= nkv, NEW i \in 1 .. m
    PROVE  Row(LayoutPos(n + m), nkv, n, i) = 0 .. n + i - 1
<1> DEFINE p == LayoutPos(n + m)
<1>1. \A c \in Cells : Attended(p, nkv, c) <=> c < n + m
  BY SizesAssumption DEF Attended, LayoutPos, Cells, Free
<1>2. \A c \in Cells : c < n + m => p[c] = c
  BY DEF LayoutPos
<1> HIDE DEF p
<1>3. FirstRow(p, nkv, n) = 0 .. n
  BY <1>1, <1>2, SizesAssumption DEF FirstRow, Cells
<1>4. Near(p, nkv, n) = {c \in 0 .. n + m - 1 : c + Margin >= n}
  BY <1>1, <1>2, SizesAssumption DEF Near, Cells
<1>5. {c \in Near(p, nkv, n) : p[c] <= n + i - 1} = {c \in 0 .. n + i - 1 : c + Margin >= n}
  BY <1>2, <1>4, SizesAssumption DEF Cells
<1>6. Row(p, nkv, n, i) = 0 .. n + i - 1
  <2>1. CASE i = 1
    BY <1>3, <2>1 DEF Row
  <2>2. CASE i # 1
    <3>1. Row(p, nkv, n, i) = (0 .. n \ {c \in 0 .. n + m - 1 : c + Margin >= n})
                              \cup {c \in 0 .. n + i - 1 : c + Margin >= n}
      BY <1>3, <1>4, <1>5, <2>2 DEF Row
    <3>2. \A c \in 0 .. n + i - 1 : c <= n \/ c + Margin >= n
      BY SizesAssumption
    <3> QED BY <3>1, <3>2
  <2> QED BY <2>1, <2>2
<1> QED BY <1>6 DEF p

-----------------------------------------------------------------------------
(* What a ubatch computes: with the cells below it right, each of its tokens *)
(* gets exactly the tokens up to it.                                         *)

PrefixOf(s, n) == {<<i - 1, s[i]>> : i \in 1 .. n}
Right == \A c \in 0 .. Len(context) - 1 : kv[c] = PrefixOf(context, c + 1)

LEMMA PrefixIsPrefixOf == \A n : Prefix(n) = PrefixOf(context, n)
  BY DEF Prefix, PrefixOf

LEMMA PrefixOfConcat ==
    ASSUME NEW T, NEW s \in Seq(T), NEW t \in Seq(T), NEW n \in 0 .. Len(s)
    PROVE  PrefixOf(s \o t, n) = PrefixOf(s, n)
<1>1. \A i \in 1 .. Len(s) : (s \o t)[i] = s[i]
  BY ConcatProperties
<1>2. \A i \in 1 .. n : i \in 1 .. Len(s)
  OBVIOUS
<1> QED BY <1>1, <1>2 DEF PrefixOf

(* The tokens of m positions of the batch, and the context grown by them. *)
LEMMA Piece ==
    ASSUME NEW at \in Nat, NEW m \in Nat \ {0}, batch \in Seq(Tokens), at + m <= Len(batch)
    PROVE  LET t == SubSeq(batch, at + 1, at + m)
           IN  t \in Seq(Tokens) /\ Len(t) = m /\ \A j \in 1 .. m : t[j] = batch[at + j]
<1>1. at + 1 \in Int /\ at + m \in Int /\ at + 1 <= at + m /\ (at + m) - (at + 1) + 1 = m
  OBVIOUS
<1>2. \A i \in at + 1 .. at + m : batch[i] \in Tokens
  <2> TAKE i \in at + 1 .. at + m
  <2>1. i \in 1 .. Len(batch)
    OBVIOUS
  <2> QED BY <2>1, ElementOfSeq
<1>3. /\ SubSeq(batch, at + 1, at + m) \in Seq(Tokens)
      /\ Len(SubSeq(batch, at + 1, at + m)) = m
      /\ \A j \in 1 .. m : SubSeq(batch, at + 1, at + m)[j] = batch[(at + 1) + j - 1]
  <2> DEFINE f == at + 1
             l == at + m
  <2>1. f \in Int /\ l \in Int /\ f <= l /\ l - f + 1 = m /\ \A i \in f .. l : batch[i] \in Tokens
    BY <1>1, <1>2
  <2> HIDE DEF f, l
  <2>2. /\ SubSeq(batch, f, l) \in Seq(Tokens)
        /\ Len(SubSeq(batch, f, l)) = IF f <= l THEN l - f + 1 ELSE 0
        /\ \A j \in 1 .. l - f + 1 : SubSeq(batch, f, l)[j] = batch[f + j - 1]
    BY ONLY <2>1, SubSeqProperties
  <2>3. /\ SubSeq(batch, f, l) \in Seq(Tokens) /\ Len(SubSeq(batch, f, l)) = m
        /\ \A j \in 1 .. m : SubSeq(batch, f, l)[j] = batch[f + j - 1]
    BY ONLY <2>1, <2>2
  <2> QED BY <2>3 DEF f, l
<1>4. \A j \in 1 .. m : (at + 1) + j - 1 = at + j
  OBVIOUS
<1> QED BY <1>3, <1>4

(* The ubatch of m tokens from offset at on goes behind the n tokens of the  *)
(* context.                                                                  *)
Behind(u, at, n, m) ==
    /\ u.at = at /\ u.slot = SlotAt(n, m)
    /\ at \in Nat /\ n \in Nat /\ m \in Nat \ {0} /\ n + m <= Size
    /\ context \in Seq(Tokens) /\ Len(context) = n
    /\ batch \in Seq(Tokens) /\ at + m <= Len(batch) /\ p0 \in Nat /\ p0 + at = n

LEMMA UbatchComputesItsPast ==
    ASSUME NEW u, NEW n, NEW m, NEW at, Behind(u, at, n, m), Right,
           NEW nkv \in Nat, n + m <= nkv, NEW i \in 1 .. m
    PROVE  Computed(u, LayoutPos(n + m), nkv, i)
             = PrefixOf(context \o SubSeq(batch, at + 1, at + m), n + i)
<1> USE DEF Behind
<1> DEFINE t == SubSeq(batch, at + 1, at + m)
           new == context \o t
<1>1. t \in Seq(Tokens) /\ Len(t) = m /\ \A j \in 1 .. m : t[j] = batch[at + j]
  BY Piece
<1> HIDE DEF t
<1>2. /\ new \in Seq(Tokens) /\ Len(new) = n + m
      /\ \A j \in 1 .. m : new[n + j] = batch[at + j]
  <2>1. /\ new \in Seq(Tokens) /\ Len(new) = Len(context) + Len(t)
        /\ \A k \in 1 .. Len(context) + Len(t) :
             new[k] = IF k <= Len(context) THEN context[k] ELSE t[k - Len(context)]
    BY <1>1, ConcatProperties
  <2>2. \A j \in 1 .. m : n + j \in 1 .. n + m /\ ~(n + j <= n) /\ (n + j) - n = j
    OBVIOUS
  <2> HIDE DEF new
  <2> QED BY <1>1, <2>1, <2>2
<1>3. \A c \in 0 .. n - 1 : PrefixOf(new, c + 1) = PrefixOf(context, c + 1)
  <2> TAKE c \in 0 .. n - 1
  <2>1. c + 1 \in 0 .. Len(context)
    OBVIOUS
  <2> QED BY <1>1, <2>1, PrefixOfConcat
<1> HIDE DEF new
<1>4. Row(LayoutPos(n + m), nkv, p0 + u.at, i) = 0 .. n + i - 1
  <2>1. Row(LayoutPos(n + m), nkv, n, i) = 0 .. n + i - 1
    BY ONLY n \in Nat, m \in Nat \ {0}, n + m <= Size, nkv \in Nat, n + m <= nkv,
            i \in 1 .. m, RowIsPast
  <2>2. p0 + u.at = n
    OBVIOUS
  <2> QED BY <2>1, <2>2
<1>5. /\ \A c \in Nat : InSlot(u.slot, c) <=> c \in n .. n + m - 1
      /\ \A c \in n .. n + m - 1 : IndexIn(u.slot, c) = c - n + 1
  <2>1. /\ \A c \in Nat : InSlot(SlotAt(n, m), c) <=> c \in n .. n + m - 1
        /\ \A c \in n .. n + m - 1 : IndexIn(SlotAt(n, m), c) = c - n + 1
    BY SlotFacts
  <2> QED BY <2>1
<1>6. \A c \in 0 .. n - 1 : Written(u, c) = PrefixOf(new, c + 1)
  <2> TAKE c \in 0 .. n - 1
  <2>1. ~InSlot(u.slot, c) /\ kv[c] = PrefixOf(context, c + 1)
    BY <1>5 DEF Right
  <2> QED BY <2>1, <1>3 DEF Written
<1>7. \A c \in n .. n + i - 1 : Written(u, c) = {<<c, new[c + 1]>>}
  <2> TAKE c \in n .. n + i - 1
  <2>1. InSlot(u.slot, c) /\ IndexIn(u.slot, c) = c - n + 1
    BY <1>5
  <2>2. p0 + at + (c - n + 1) - 1 = c /\ c - n + 1 \in 1 .. m /\ n + (c - n + 1) = c + 1
    OBVIOUS
  <2>3. batch[at + (c - n + 1)] = new[c + 1]
    BY <1>2, <2>2
  <2> QED BY <2>1, <2>2, <2>3 DEF Written
<1>8. Computed(u, LayoutPos(n + m), nkv, i) = UNION {Written(u, c) : c \in 0 .. n + i - 1}
  BY <1>4 DEF Computed
<1>9. \A c \in 0 .. n + i - 1 : Written(u, c) \subseteq PrefixOf(new, n + i)
  <2> TAKE c \in 0 .. n + i - 1
  <2>1. CASE c < n
    <3>1. Written(u, c) = PrefixOf(new, c + 1)
      BY <1>6, <2>1
    <3> QED BY <3>1, <2>1 DEF PrefixOf
  <2>2. CASE ~(c < n)
    <3>1. Written(u, c) = {<<c, new[c + 1]>>}
      BY <1>7, <2>2
    <3>2. c + 1 \in 1 .. n + i /\ (c + 1) - 1 = c
      OBVIOUS
    <3>3. <<(c + 1) - 1, new[c + 1]>> \in PrefixOf(new, n + i)
      BY <3>2 DEF PrefixOf
    <3> QED BY <3>1, <3>2, <3>3
  <2> QED BY <2>1, <2>2
<1>10. \A j \in 1 .. n + i : <<j - 1, new[j]>> \in Written(u, j - 1)
  <2> TAKE j \in 1 .. n + i
  <2>1. CASE j <= n
    <3>1. Written(u, j - 1) = PrefixOf(new, (j - 1) + 1)
      BY <1>6, <2>1
    <3>2. j \in 1 .. (j - 1) + 1
      OBVIOUS
    <3> QED BY <3>1, <3>2 DEF PrefixOf
  <2>2. CASE ~(j <= n)
    <3>1. Written(u, j - 1) = {<<j - 1, new[(j - 1) + 1]>>} /\ (j - 1) + 1 = j
      BY <1>7, <2>2
    <3> QED BY <3>1
  <2> QED BY <2>1, <2>2
<1>11. PrefixOf(new, n + i) \subseteq UNION {Written(u, c) : c \in 0 .. n + i - 1}
  <2> SUFFICES ASSUME NEW j \in 1 .. n + i
               PROVE  <<j - 1, new[j]>> \in UNION {Written(u, c) : c \in 0 .. n + i - 1}
    BY DEF PrefixOf
  <2>1. j - 1 \in 0 .. n + i - 1
    OBVIOUS
  <2> QED BY <2>1, <1>10
<1>12. UNION {Written(u, c) : c \in 0 .. n + i - 1} \subseteq PrefixOf(new, n + i)
  BY <1>9
<1> QED BY <1>8, <1>11, <1>12 DEF new, t

-----------------------------------------------------------------------------
(* The inductive invariant.  EndAt(k) is the offset in the batch where the   *)
(* k-th placed ubatch ends, Filled the number of cells in use.               *)

Entry(a) == [at |-> a, slot |-> SlotAt(p0 + a, UbatchLen(a)), head |-> p0 + a,
             old |-> [i \in 1 .. UbatchLen(a) |-> Free]]
Entries == {Entry(a) : a \in Nat}
EndAt(k) == IF k = 0 THEN 0 ELSE placed[k].at + UbatchLen(placed[k].at)
Filled == IF pc = "idle" THEN Len(context)
          ELSE IF pc = "compute" THEN p0 + EndAt(cur - 1) ELSE p0 + EndAt(undo)

InvTypes == /\ context \in Seq(Tokens) /\ Len(context) <= Size /\ sound \in BOOLEAN
            /\ batch \in Seq(Tokens) /\ p0 \in 0 .. Size /\ cur \in Nat
            /\ pc \in {"idle", "place", "restore", "compute"}
            /\ ret \in {"done", "full", "no memory", "failed", "thrown"}
            /\ graph.ready \in BOOLEAN
            /\ taken \in 0 .. Len(batch) /\ undo \in 0 .. Len(placed)
            /\ DOMAIN kv = Cells
InvPlaced == /\ placed \in Seq(Entries)
             /\ \A k \in 1 .. Len(placed) : /\ placed[k].at = EndAt(k - 1)
                                            /\ placed[k].at \in 0 .. Len(batch) - 1
             /\ \A k \in 0 .. Len(placed) : EndAt(k) \in 0 .. taken
             /\ taken = EndAt(Len(placed)) /\ p0 + taken <= Size
InvPhase == /\ pc \in {"place", "restore"} =>
                 /\ p0 = Len(context) /\ cur = 1 /\ batch # <<>>
                 /\ before = [pos |-> LayoutPos(p0), head |-> p0]
            /\ pc = "place" => undo = Len(placed) /\ taken < Len(batch)
            /\ (pc = "restore" /\ taken < Len(batch)) => p0 + Len(batch) > Size
            /\ pc = "compute" => /\ cur \in 1 .. Len(placed) /\ taken = Len(batch)
                                 /\ Len(context) = p0 + EndAt(cur - 1)
InvLayout == Layout(Filled)
InvContent == sound => Right
Inv == InvTypes /\ InvPlaced /\ InvPhase /\ InvLayout /\ InvContent /\ LogitsAreOfTheLastToken

LEMMA UbatchLenFacts ==
    ASSUME NEW a \in Nat, batch \in Seq(Tokens), a < Len(batch)
    PROVE  /\ UbatchLen(a) \in Nat \ {0} /\ a + UbatchLen(a) <= Len(batch)
           /\ IsLastUbatch(a) <=> a + UbatchLen(a) = Len(batch)
<1>1. Len(batch) \in Nat /\ NUbatch \in Nat /\ NUbatch >= 1
  BY SizesAssumption
<1> QED BY <1>1 DEF UbatchLen, IsLastUbatch

LEMMA TypeFacts ==
    ASSUME InvTypes
    PROVE  /\ batch \in Seq(Tokens) /\ Len(batch) \in Nat /\ context \in Seq(Tokens)
           /\ Len(context) \in Nat /\ Len(context) <= Size
           /\ p0 \in Nat /\ p0 <= Size /\ taken \in Nat /\ taken <= Len(batch)
<1>1. /\ batch \in Seq(Tokens) /\ context \in Seq(Tokens) /\ p0 \in 0 .. Size
      /\ Len(context) <= Size /\ taken \in 0 .. Len(batch)
  BY Zenon DEF InvTypes
<1> QED BY <1>1, SizesAssumption

LEMMA EntryFacts ==
    ASSUME NEW k \in 1 .. Len(placed), InvTypes, InvPlaced
    PROVE  /\ placed[k].at \in Nat /\ placed[k].at < Len(batch) /\ placed[k].at = EndAt(k - 1)
           /\ placed[k].slot = SlotAt(p0 + placed[k].at, UbatchLen(placed[k].at))
           /\ placed[k].head = p0 + placed[k].at
           /\ placed[k].old = [i \in 1 .. UbatchLen(placed[k].at) |-> Free]
           /\ UbatchLen(placed[k].at) \in Nat \ {0}
           /\ EndAt(k) = placed[k].at + UbatchLen(placed[k].at)
           /\ EndAt(k) <= taken /\ p0 + EndAt(k) <= Size
<1>1. placed[k] \in Entries
  BY ElementOfSeq DEF InvPlaced
<1>2. PICK a \in Nat : placed[k] = Entry(a)
  BY <1>1 DEF Entries
<1>3. /\ placed[k].at = a /\ placed[k].slot = SlotAt(p0 + a, UbatchLen(a))
      /\ placed[k].head = p0 + a /\ placed[k].old = [i \in 1 .. UbatchLen(a) |-> Free]
  <2> DEFINE s == SlotAt(p0 + a, UbatchLen(a))
             o == [i \in 1 .. UbatchLen(a) |-> Free]
             h == p0 + a
  <2>1. placed[k] = [at |-> a, slot |-> s, head |-> h, old |-> o]
    BY <1>2 DEF Entry
  <2> HIDE DEF s, o, h
  <2>2. placed[k].at = a /\ placed[k].slot = s /\ placed[k].head = h /\ placed[k].old = o
    BY ONLY <2>1
  <2> QED BY <2>2 DEF s, o, h
<1>4. placed[k].at \in 0 .. Len(batch) - 1 /\ placed[k].at = EndAt(k - 1)
  BY DEF InvPlaced
<1>5. a < Len(batch) /\ Len(batch) \in Nat
  <2>1. Len(batch) \in Nat /\ a = placed[k].at
    BY <1>3, TypeFacts
  <2> QED BY <1>4, <2>1
<1>6. UbatchLen(a) \in Nat \ {0}
  <2>1. NUbatch \in Nat \ {0}
    BY SizesAssumption
  <2> QED BY <1>5, <2>1 DEF UbatchLen
<1>7. EndAt(k) = a + UbatchLen(a)
  BY <1>3 DEF EndAt
<1>8. EndAt(k) <= taken /\ p0 + EndAt(k) <= Size
  <2>1. k \in 0 .. Len(placed)
    OBVIOUS
  <2>2. EndAt(k) \in 0 .. taken /\ p0 + taken <= Size
    BY <2>1 DEF InvPlaced
  <2>3. taken \in Nat /\ p0 \in Nat
    BY TypeFacts
  <2> QED BY <2>2, <2>3, SizesAssumption
<1> QED BY <1>3, <1>4, <1>5, <1>6, <1>7, <1>8

LEMMA PlacementKept ==
    ASSUME InvPlaced, UNCHANGED <<batch, p0, placed, taken>>
    PROVE  InvPlaced' /\ \A k : EndAt(k)' = EndAt(k)
<1>1. \A k : EndAt(k)' = EndAt(k)
  BY DEF EndAt, UbatchLen
<1>2. Entries' = Entries
  BY DEF Entries, Entry, UbatchLen
<1> QED BY <1>1, <1>2 DEF InvPlaced

LEMMA LayoutZero == LayoutPos(0) = [c \in Cells |-> Free]
<1>1. \A c \in Cells : ~(c < 0)
  BY SizesAssumption DEF Cells
<1> QED BY <1>1 DEF LayoutPos

LEMMA InitInv == Init => Inv
<1> SUFFICES ASSUME Init PROVE Inv
  OBVIOUS
<1>1. InvTypes
  BY SizesAssumption DEF Init, InvTypes, NoGraph
<1>2. InvPlaced
  BY SizesAssumption DEF Init, InvPlaced, EndAt
<1>3. InvPhase
  BY DEF Init, InvPhase
<1>4. InvLayout
  <2>1. Filled = 0
    BY DEF Init, Filled
  <2> QED BY <2>1, LayoutZero DEF Init, InvLayout, Layout
<1>5. InvContent
  BY DEF Init, InvContent, Right
<1>6. LogitsAreOfTheLastToken
  BY DEF Init, LogitsAreOfTheLastToken
<1> QED BY <1>1, <1>2, <1>3, <1>4, <1>5, <1>6 DEF Inv

LEMMA ContentKept ==
    ASSUME InvContent, UNCHANGED <<kv, context, sound>>
    PROVE  InvContent'
BY DEF InvContent, Right, PrefixOf

LEMMA ClearKeeps == ASSUME Inv, Clear PROVE Inv'
<1>1. InvTypes'
  <2>1. context' \in Seq(Tokens) /\ Len(context') <= Size /\ sound' \in BOOLEAN /\ DOMAIN kv' = Cells
    BY SizesAssumption DEF Clear
  <2> QED BY <2>1 DEF Inv, InvTypes, Clear
<1>2. InvPlaced'
  BY PlacementKept DEF Inv, Clear
<1>3. InvPhase'
  <2>1. pc' = "idle"
    BY DEF Clear
  <2> QED BY <2>1 DEF InvPhase
<1>4. InvLayout'
  <2>1. Filled' = 0
    BY DEF Clear, Filled
  <2> QED BY <2>1, LayoutZero DEF Clear, InvLayout, Layout
<1>5. InvContent'
  BY DEF Clear, InvContent, Right
<1>6. LogitsAreOfTheLastToken'
  BY DEF Clear, LogitsAreOfTheLastToken
<1> QED BY <1>1, <1>2, <1>3, <1>4, <1>5, <1>6 DEF Inv

LEMMA DecodeKeeps == ASSUME Inv, NEW b \in Batches, Decode(b) PROVE Inv'
<1>1. b \in Seq(Tokens) /\ b # <<>> /\ Len(b) \in Nat \ {0}
  <2>1. b \in Seq(Tokens) /\ b # <<>>
    BY BatchesAssumption
  <2> QED BY <2>1, EmptySeq
<1>2. p0' = Len(context) /\ Len(context) \in 0 .. Size /\ Layout(Len(context))
  <2>1. Len(context) \in 0 .. Size /\ Layout(Len(context))
    BY TypeFacts DEF Inv, InvLayout, Filled, Decode
  <2>2. SeqPosMax = Len(context) - 1
    BY <2>1, LayoutSeqPosMax DEF Layout
  <2>3. p0' = SeqPosMax + 1
    BY DEF Decode
  <2> QED BY <2>1, <2>2, <2>3
<1>3. InvTypes'
  <2>1. /\ context' \in Seq(Tokens) /\ Len(context') <= Size /\ sound' \in BOOLEAN
        /\ pc' = "place" /\ ret' \in {"done", "full", "no memory", "failed", "thrown"}
        /\ graph'.ready \in BOOLEAN /\ DOMAIN kv' = Cells
    BY Zenon DEF Inv, InvTypes, Decode, cache
  <2>2. batch' \in Seq(Tokens) /\ cur' \in Nat /\ taken' \in 0 .. Len(batch') /\ undo' \in 0 .. Len(placed')
    BY <1>1 DEF Decode
  <2> QED BY <1>2, <2>1, <2>2 DEF InvTypes
<1>4. InvPlaced'
  <2>1. placed' = <<>> /\ Len(placed') = 0 /\ taken' = 0
    BY DEF Decode
  <2>2. EndAt(0)' = 0 /\ p0' \in 0 .. Size /\ (placed \in Seq(Entries))'
    BY <1>2, <2>1 DEF EndAt
  <2>3. /\ \A k \in 1 .. Len(placed') : FALSE
        /\ \A k \in 0 .. Len(placed') : EndAt(k)' \in 0 .. taken'
        /\ taken' = EndAt(Len(placed))' /\ p0' + taken' <= Size
    <3>1. \A k \in 0 .. Len(placed') : EndAt(k)' = 0
      BY <2>1 DEF EndAt
    <3>2. \A j : j = Len(placed') => EndAt(j)' = 0
      BY <2>1 DEF EndAt
    <3>3. p0' + taken' <= Size /\ \A k \in 1 .. Len(placed') : FALSE
      <4>1. p0' \in Nat /\ p0' <= Size
        BY <2>2, SizesAssumption
      <4> QED BY <2>1, <4>1
    <3>4. taken' = EndAt(Len(placed))'
      BY <2>1, <3>2
    <3>5. \A k \in 0 .. Len(placed') : EndAt(k)' \in 0 .. taken'
      BY <2>1, <3>1
    <3> QED BY <3>3, <3>4, <3>5
  <2> QED BY <2>2, <2>3 DEF InvPlaced
<1>5. before' = [pos |-> LayoutPos(p0'), head |-> p0']
  BY <1>2 DEF Decode, Layout
<1>6. InvPhase'
  BY <1>1, <1>2, <1>5 DEF Decode, InvPhase
<1>7. InvLayout'
  <2>1. Filled' = Len(context)
    BY <1>2 DEF Filled, EndAt, Decode
  <2> QED BY <1>2, <2>1 DEF InvLayout, Layout, Decode, cache
<1>8. InvContent'
  BY ContentKept DEF Inv, Decode, cache
<1>9. LogitsAreOfTheLastToken'
  BY DEF LogitsAreOfTheLastToken, Decode
<1> QED BY <1>3, <1>4, <1>6, <1>7, <1>8, <1>9 DEF Inv

LEMMA TooLongKeeps == ASSUME Inv, TooLong PROVE Inv'
<1>1. pc = "place" /\ placed = <<>> /\ undo = 0 /\ Len(context) = p0
  <2>1. pc = "place" /\ placed = <<>> /\ Len(placed) = 0
    BY DEF TooLong
  <2> QED BY <2>1 DEF Inv, InvPhase
<1>2. InvTypes'
  BY DEF Inv, InvTypes, TooLong, Answer, ghosts, cache
<1>3. InvPlaced'
  BY PlacementKept DEF Inv, TooLong
<1>4. InvPhase'
  BY DEF InvPhase, TooLong, Answer
<1>5. InvLayout'
  <2>1. Filled = p0 + 0 /\ Filled' = Len(context)
    BY <1>1 DEF TooLong, Answer, Filled, EndAt, ghosts
  <2>2. Filled' = Filled
    BY <1>1, <2>1, TypeFacts DEF Inv
  <2> QED BY <2>2 DEF Inv, InvLayout, Layout, TooLong, cache
<1>6. InvContent'
  BY ContentKept DEF Inv, TooLong, cache, ghosts
<1>7. LogitsAreOfTheLastToken'
  BY DEF LogitsAreOfTheLastToken, TooLong, Answer
<1> QED BY <1>2, <1>3, <1>4, <1>5, <1>6, <1>7 DEF Inv

(* Placing on trial extends the used cells by the ubatch, ... *)
LEMMA PlaceKeeps == ASSUME Inv, Place PROVE Inv'
<1> DEFINE m == UbatchLen(taken)
           n == p0 + taken
           e == [at |-> taken, slot |-> FindSlot(m), head |-> head,
                 old |-> [i \in 1 .. Len(FindSlot(m)) |-> pos[FindSlot(m)[i]]]]
<1>0. /\ pc = "place" /\ FindSlot(m) # NoSlot
      /\ pos' = ApplyPos(FindSlot(m), p0 + taken) /\ head' = ApplyHead(FindSlot(m))
      /\ placed' = Append(placed, e) /\ taken' = taken + m /\ undo' = undo + 1
      /\ pc' = IF IsLastUbatch(taken) THEN "restore" ELSE "place"
      /\ UNCHANGED <<kv, graph, logits, batch, p0, cur, ret, ghosts>>
  BY DEF Place
<1>1. /\ p0 = Len(context) /\ cur = 1 /\ batch # <<>> /\ undo = Len(placed) /\ taken < Len(batch)
      /\ before = [pos |-> LayoutPos(p0), head |-> p0]
  BY <1>0 DEF Inv, InvPhase
<1>2. m \in Nat \ {0} /\ taken + m <= Len(batch) /\ taken \in Nat /\ n \in Nat /\ Len(batch) \in Nat
  <2>1. taken \in Nat /\ p0 \in Nat /\ batch \in Seq(Tokens) /\ Len(batch) \in Nat
    BY TypeFacts DEF Inv
  <2> QED BY <1>1, <2>1, UbatchLenFacts
<1>3. EndAt(undo) = taken /\ p0 + taken <= Size
  BY <1>1 DEF Inv, InvPlaced
<1>4. Layout(n)
  BY <1>0, <1>3 DEF Inv, InvLayout, Filled
<1>5. FindSlot(m) = SlotAt(n, m) /\ n + m <= Size
  <2>1. n \in 0 .. Size
    BY <1>2, <1>3, SizesAssumption
  <2> HIDE DEF n, m
  <2>2. /\ n + m <= Size => FindSlot(m) = SlotAt(n, m) /\ FindSlot(m) # NoSlot
        /\ n + m > Size => FindSlot(m) = NoSlot
    BY <1>2, <1>4, <2>1, SlotIsNext
  <2> QED BY <1>0, <1>2, <2>1, <2>2, SizesAssumption
<1>6. pos' = LayoutPos(n + m) /\ head' = n + m
  <2> HIDE DEF n, m
  <2>1. ApplyPos(SlotAt(n, m), n) = LayoutPos(n + m) /\ ApplyHead(SlotAt(n, m)) = n + m
    BY <1>2, <1>4, <1>5, ApplyLayout DEF Layout
  <2>2. n = p0 + taken
    BY DEF n
  <2> QED BY <1>0, <1>5, <2>1, <2>2
<1>7. e = Entry(taken)
  <2>1. [i \in 1 .. Len(FindSlot(m)) |-> pos[FindSlot(m)[i]]] = [i \in 1 .. m |-> Free]
    <3> HIDE DEF n, m
    <3>1. Len(SlotAt(n, m)) = m /\ \A i \in 1 .. m : SlotAt(n, m)[i] = n + i - 1
      BY <1>2, SlotFacts
    <3>2. \A i \in 1 .. m : n + i - 1 \in Cells /\ ~(n + i - 1 < n)
      BY <1>2, <1>5, SizesAssumption DEF Cells
    <3>3. \A i \in 1 .. m : pos[n + i - 1] = Free
      BY <1>4, <3>2 DEF Layout, LayoutPos
    <3> QED BY <1>5, <3>1, <3>3
  <2>2. head = p0 + taken
    BY <1>4 DEF Layout
  <2> QED BY <1>5, <2>1, <2>2 DEF Entry
<1> HIDE DEF e
<1>8. InvPlaced'
  <2>1. placed \in Seq(Entries) /\ Entry(taken) \in Entries
    BY <1>2 DEF Inv, InvPlaced, Entries
  <2>2. Entries' = Entries /\ p0' = p0 /\ batch' = batch
    BY <1>0 DEF Entries, Entry, UbatchLen
  <2>3. /\ placed' \in Seq(Entries) /\ Len(placed') = Len(placed) + 1 /\ Len(placed) \in Nat
        /\ \A k \in 1 .. Len(placed) : placed'[k] = placed[k]
        /\ placed'[Len(placed) + 1] = Entry(taken)
    BY <1>0, <1>7, <2>1, AppendProperties
  <2>4. Entry(taken).at = taken
    BY DEF Entry
  <2>5. \A k \in 0 .. Len(placed) : EndAt(k)' = EndAt(k)
    BY <2>2, <2>3 DEF EndAt, UbatchLen
  <2>6. \A k : k = Len(placed) + 1 => EndAt(k)' = taken + m
    BY <2>2, <2>3, <2>4 DEF EndAt, UbatchLen
  <2>7. /\ \A k \in 1 .. Len(placed) : /\ placed[k].at = EndAt(k - 1)
                                       /\ placed[k].at \in 0 .. Len(batch) - 1
        /\ \A k \in 0 .. Len(placed) : EndAt(k) \in 0 .. taken
        /\ taken = EndAt(Len(placed))
    BY DEF Inv, InvPlaced
  <2>8. \A k \in 1 .. Len(placed') : /\ placed'[k].at = EndAt(k - 1)'
                                     /\ placed'[k].at \in 0 .. Len(batch) - 1
    <3> SUFFICES ASSUME NEW k \in 1 .. Len(placed')
                 PROVE  placed'[k].at = EndAt(k - 1)' /\ placed'[k].at \in 0 .. Len(batch) - 1
      OBVIOUS
    <3>1. k \in 1 .. Len(placed) \/ k = Len(placed) + 1
      BY <2>3
    <3>2. CASE k \in 1 .. Len(placed)
      <4>1. k - 1 \in 0 .. Len(placed)
        BY <2>3, <3>2
      <4>2. EndAt(k - 1)' = EndAt(k - 1) /\ placed'[k] = placed[k]
        BY <2>3, <2>5, <3>2, <4>1
      <4> QED BY <2>7, <3>2, <4>2
    <3>3. CASE k = Len(placed) + 1
      <4>1. k - 1 = Len(placed) /\ Len(placed) \in 0 .. Len(placed)
        BY <2>3, <3>3
      <4>2. EndAt(k - 1)' = EndAt(Len(placed))
        BY <2>5, <4>1
      <4> QED BY <1>1, <1>2, <2>3, <2>4, <2>7, <3>3, <4>2
    <3> QED BY <3>1, <3>2, <3>3
  <2>9. \A k \in 0 .. Len(placed') : EndAt(k)' \in 0 .. taken'
    <3> SUFFICES ASSUME NEW k \in 0 .. Len(placed') PROVE EndAt(k)' \in 0 .. taken'
      OBVIOUS
    <3>1. k \in 0 .. Len(placed) \/ k = Len(placed) + 1
      BY <2>3
    <3>2. CASE k \in 0 .. Len(placed)
      BY <1>0, <1>2, <2>5, <2>7, <3>2
    <3>3. CASE k = Len(placed) + 1
      BY <1>0, <1>2, <2>6, <3>3
    <3> QED BY <3>1, <3>2, <3>3
  <2>10. taken' = EndAt(Len(placed))' /\ p0' + taken' <= Size
    <3>1. \A j : j = Len(placed') => EndAt(j)' = taken + m
      BY <2>3, <2>6
    <3>2. p0 \in Nat
      BY TypeFacts DEF Inv
    <3> QED BY <1>0, <1>2, <1>5, <3>1, <3>2
  <2> QED BY <2>2, <2>3, <2>8, <2>9, <2>10 DEF InvPlaced
<1>9. InvTypes'
  <2>1. Len(placed') = Len(placed) + 1 /\ Len(placed) \in Nat
    BY <1>0, AppendProperties DEF Inv, InvPlaced
  <2>2. taken' \in 0 .. Len(batch') /\ undo' \in 0 .. Len(placed')
    BY <1>0, <1>1, <1>2, <2>1
  <2>3. pc' \in {"idle", "place", "restore", "compute"}
    BY <1>0
  <2> QED BY <1>0, <2>2, <2>3 DEF Inv, InvTypes, ghosts
<1>10. InvPhase'
  <2>1. undo' = Len(placed')
    BY <1>0, <1>1, AppendProperties DEF Inv, InvPlaced
  <2>2. \/ pc' = "place" /\ taken' < Len(batch')
        \/ pc' = "restore" /\ taken' = Len(batch')
    <3>1. IsLastUbatch(taken) <=> taken + m = Len(batch)
      BY DEF IsLastUbatch
    <3> QED BY <1>0, <1>2, <3>1
  <2>3. p0' = Len(context') /\ cur' = 1 /\ batch' # <<>> /\ before' = [pos |-> LayoutPos(p0'), head |-> p0']
    BY <1>0, <1>1 DEF ghosts
  <2>4. Len(batch') \in Nat
    BY <1>0, <1>2
  <2> QED BY <2>1, <2>2, <2>3, <2>4 DEF InvPhase
<1>11. InvLayout'
  <2>1. undo' = Len(placed') /\ (pc' = "place" \/ pc' = "restore")
    BY <1>0, <1>1, AppendProperties DEF Inv, InvPlaced
  <2>2. Filled' = p0' + EndAt(undo)'
    BY <2>1 DEF Filled
  <2>3. EndAt(undo)' = taken + m /\ p0' = p0
    BY <1>0, <1>8, <2>1 DEF InvPlaced
  <2>4. Filled' = n + m
    <3>1. p0 \in Nat
      BY TypeFacts DEF Inv
    <3> QED BY <1>2, <2>2, <2>3, <3>1
  <2> QED BY <1>6, <2>4 DEF InvLayout, Layout
<1>12. InvContent'
  BY <1>0, ContentKept DEF Inv, ghosts
<1>13. LogitsAreOfTheLastToken'
  BY <1>0 DEF LogitsAreOfTheLastToken
<1> QED BY <1>8, <1>9, <1>10, <1>11, <1>12, <1>13 DEF Inv

LEMMA NoPlaceKeeps == ASSUME Inv, NoPlace PROVE Inv'
<1>0. /\ pc = "place" /\ pc' = "restore" /\ FindSlot(UbatchLen(taken)) = NoSlot
      /\ UNCHANGED <<cache, graph, logits, batch, p0, taken, placed, undo, cur, ret, ghosts>>
  BY DEF NoPlace
<1>1. InvTypes'
  BY <1>0 DEF Inv, InvTypes, ghosts, cache
<1>2. InvPlaced' /\ \A k : EndAt(k)' = EndAt(k)
  BY <1>0, PlacementKept DEF Inv
<1>3. InvLayout'
  <2>1. Filled' = Filled
    BY <1>0, <1>2 DEF Filled
  <2> QED BY <1>0, <2>1 DEF Inv, InvLayout, Layout, cache
<1>4. InvPhase'
  <2>1. /\ p0 = Len(context) /\ cur = 1 /\ batch # <<>> /\ undo = Len(placed) /\ taken < Len(batch)
        /\ before = [pos |-> LayoutPos(p0), head |-> p0]
    BY <1>0 DEF Inv, InvPhase
  <2>2. taken \in Nat /\ p0 \in Nat /\ Len(batch) \in Nat /\ batch \in Seq(Tokens)
    BY TypeFacts DEF Inv
  <2>3. UbatchLen(taken) \in Nat \ {0} /\ taken + UbatchLen(taken) <= Len(batch)
    BY <2>1, <2>2, UbatchLenFacts
  <2>4. Layout(p0 + taken) /\ p0 + taken <= Size
    BY <1>0, <2>1 DEF Inv, InvPlaced, InvLayout, Filled
  <2>5. ~(p0 + taken + UbatchLen(taken) <= Size)
    <3>1. p0 + taken \in 0 .. Size
      BY <2>2, <2>4, SizesAssumption
    <3>2. \A n \in 0 .. Size : Layout(n) /\ n + UbatchLen(taken) <= Size
            => FindSlot(UbatchLen(taken)) # NoSlot
      BY <2>3, SlotIsNext
    <3> QED BY <1>0, <2>4, <3>1, <3>2
  <2>6. p0 + Len(batch) > Size
    BY <2>2, <2>3, <2>5, SizesAssumption
  <2> QED BY <1>0, <2>1, <2>6 DEF InvPhase, ghosts
<1>5. InvContent'
  BY <1>0, ContentKept DEF Inv, ghosts, cache
<1>6. LogitsAreOfTheLastToken'
  BY <1>0 DEF LogitsAreOfTheLastToken
<1> QED BY <1>1, <1>2, <1>3, <1>4, <1>5, <1>6 DEF Inv

(* ... and taking it back leaves what was there before. *)
LEMMA RestoreKeeps == ASSUME Inv, Restore PROVE Inv'
<1> DEFINE a == placed[undo].at
           m == UbatchLen(a)
           n == p0 + a
<1>0. /\ pc = "restore" /\ undo > 0 /\ head' = placed[undo].head /\ undo' = undo - 1
      /\ pos' = [c \in Cells |-> IF InSlot(placed[undo].slot, c)
                                 THEN placed[undo].old[IndexIn(placed[undo].slot, c)] ELSE pos[c]]
      /\ UNCHANGED <<kv, graph, logits, pc, batch, p0, taken, placed, cur, ret, ghosts>>
  BY DEF Restore
<1>1. undo \in 1 .. Len(placed) /\ Len(placed) \in Nat /\ p0 \in Nat
  <2>1. undo \in 0 .. Len(placed) /\ placed \in Seq(Entries) /\ p0 \in Nat
    BY TypeFacts DEF Inv, InvTypes, InvPlaced
  <2> QED BY <1>0, <2>1
<1>2. /\ a \in Nat /\ a = EndAt(undo - 1) /\ placed[undo].slot = SlotAt(n, m)
      /\ placed[undo].head = n /\ placed[undo].old = [i \in 1 .. m |-> Free]
      /\ m \in Nat \ {0} /\ EndAt(undo) = a + m /\ p0 + EndAt(undo) <= Size
  BY <1>1, EntryFacts DEF Inv
<1>3. Layout(n + m) /\ n + m <= Size /\ n \in Nat
  <2>1. p0 + EndAt(undo) = n + m /\ n \in Nat
    BY <1>1, <1>2
  <2> QED BY <1>0, <1>2, <2>1 DEF Inv, InvLayout, Filled
<1>4. pos' = LayoutPos(n) /\ head' = n
  <2> HIDE DEF n, m
  <2>1. \A old : old = [i \in 1 .. m |-> Free] =>
           [c \in Cells |-> IF InSlot(SlotAt(n, m), c) THEN old[IndexIn(SlotAt(n, m), c)]
                            ELSE pos[c]] = LayoutPos(n)
    BY <1>2, <1>3, RestoreLayout DEF Layout
  <2> QED BY <1>0, <1>2, <2>1
<1>5. InvPlaced' /\ \A k : EndAt(k)' = EndAt(k)
  BY <1>0, PlacementKept DEF Inv
<1>6. InvLayout'
  <2>1. EndAt(undo)' = EndAt(undo - 1)
    BY <1>0, <1>5
  <2>2. Filled' = n
    BY <1>0, <1>2, <2>1 DEF Filled
  <2> QED BY <1>4, <2>2 DEF InvLayout, Layout
<1>7. InvTypes'
  <2>1. undo' \in 0 .. Len(placed')
    BY <1>0, <1>1
  <2> QED BY <1>0, <2>1 DEF Inv, InvTypes, ghosts
<1>8. InvPhase'
  BY <1>0 DEF Inv, InvPhase, ghosts
<1>9. InvContent'
  BY <1>0, ContentKept DEF Inv, ghosts
<1>10. LogitsAreOfTheLastToken'
  BY <1>0 DEF LogitsAreOfTheLastToken
<1> QED BY <1>5, <1>6, <1>7, <1>8, <1>9, <1>10 DEF Inv

LEMMA RefuseKeeps == ASSUME Inv, Refuse PROVE Inv'
<1>0. /\ pc = "restore" /\ undo = 0 /\ pc' = "idle" /\ ret' = "full"
      /\ UNCHANGED <<cache, graph, logits, batch, p0, taken, placed, undo, cur, ghosts>>
  BY DEF Refuse, Answer
<1>1. InvTypes'
  BY <1>0 DEF Inv, InvTypes, ghosts, cache
<1>2. InvPlaced'
  BY <1>0, PlacementKept DEF Inv
<1>3. InvPhase'
  BY <1>0 DEF InvPhase
<1>4. InvLayout'
  <2>1. p0 = Len(context) /\ p0 \in Nat
    BY <1>0, TypeFacts DEF Inv, InvPhase
  <2>2. Filled = p0 + 0 /\ Filled' = Len(context)
    BY <1>0 DEF Filled, EndAt, ghosts
  <2> QED BY <1>0, <2>1, <2>2 DEF Inv, InvLayout, Layout, cache
<1>5. InvContent'
  BY <1>0, ContentKept DEF Inv, ghosts, cache
<1>6. LogitsAreOfTheLastToken'
  BY <1>0 DEF LogitsAreOfTheLastToken
<1> QED BY <1>1, <1>2, <1>3, <1>4, <1>5, <1>6 DEF Inv

LEMMA ReserveKeeps == ASSUME Inv, Reserve PROVE Inv'
<1>0. /\ pc = "restore" /\ undo = 0 /\ taken = Len(batch)
      /\ \/ pc' = "compute" /\ UNCHANGED ret
         \/ pc' = "idle" /\ ret' = "no memory"
      /\ UNCHANGED <<cache, graph, batch, p0, taken, placed, undo, cur, ghosts>>
  BY DEF Reserve, Answer, Prepared
<1>1. p0 = Len(context) /\ p0 \in Nat /\ cur = 1 /\ batch # <<>>
  BY <1>0, TypeFacts DEF Inv, InvPhase
<1>2. InvTypes'
  BY <1>0 DEF Inv, InvTypes, ghosts, cache
<1>3. InvPlaced' /\ \A k : EndAt(k)' = EndAt(k)
  BY <1>0, PlacementKept DEF Inv
<1>4. EndAt(0) = 0 /\ EndAt(cur - 1) = 0
  BY <1>1 DEF EndAt
<1>5. cur \in 1 .. Len(placed)
  <2>1. Len(batch) \in Nat \ {0}
    BY <1>1, TypeFacts, EmptySeq DEF Inv
  <2>2. taken = EndAt(Len(placed)) /\ placed \in Seq(Entries)
    BY DEF Inv, InvPlaced
  <2>3. Len(placed) \in Nat
    BY <2>2
  <2>4. Len(placed) # 0
    BY <1>0, <1>4, <2>1, <2>2
  <2> QED BY <1>1, <2>3, <2>4
<1>6. EndAt(cur - 1)' = 0
  BY <1>0, <1>3, <1>4
<1>sum. \A x : x = 0 => p0 + x = p0
  BY <1>1
<1>7. InvPhase'
  <2>1. pc' = "compute" \/ pc' = "idle"
    BY <1>0
  <2>2. cur' \in 1 .. Len(placed') /\ taken' = Len(batch')
    BY <1>0, <1>5
  <2>3. Len(context') = p0' + EndAt(cur - 1)'
    <3>1. Len(context') = p0 /\ p0' = p0
      BY <1>0, <1>1 DEF ghosts
    <3> QED BY <1>6, <1>sum, <3>1
  <2> QED BY <2>1, <2>2, <2>3 DEF InvPhase
<1>8. InvLayout'
  <2>1. Filled = p0
    <3>1. pc # "idle" /\ pc # "compute" /\ undo = 0
      BY <1>0
    <3> QED BY <1>4, <1>sum, <3>1 DEF Filled
  <2>2. Filled' = p0
    <3>1. p0' = p0 /\ Len(context') = p0 /\ (pc' = "idle" \/ pc' = "compute")
      BY <1>0, <1>1 DEF ghosts
    <3>2. p0' + EndAt(cur - 1)' = p0
      BY <1>6, <1>sum, <3>1
    <3> QED BY <3>1, <3>2 DEF Filled
  <2> QED BY <1>0, <2>1, <2>2 DEF Inv, InvLayout, Layout, cache
<1>9. InvContent'
  BY <1>0, ContentKept DEF Inv, ghosts, cache
<1>10. LogitsAreOfTheLastToken'
  BY <1>0 DEF LogitsAreOfTheLastToken
<1> QED BY <1>2, <1>3, <1>7, <1>8, <1>9, <1>10 DEF Inv

-----------------------------------------------------------------------------
(* The ubatch to compute holds m tokens from offset a on, and its slot is    *)
(* the m cells behind the n tokens of the context.                           *)

CurrentIs(a, n, m) ==
    /\ a \in Nat /\ n \in Nat /\ m \in Nat \ {0} /\ Len(batch) \in Nat
    /\ Ubatch.at = a /\ m = UbatchLen(a) /\ n = p0 + a /\ n = Len(context)
    /\ Slot = SlotAt(n, m) /\ Len(Slot) = m /\ FirstPos = n
    /\ n + m <= Size /\ a + m <= Len(batch) /\ a + m <= taken
    /\ Layout(n) /\ Applied = LayoutPos(n + m) /\ ApplyHead(Slot) = n + m
    /\ cur \in 1 .. Len(placed) /\ taken = Len(batch) /\ EndAt(cur) = a + m
    /\ UbatchTokens \in Seq(Tokens) /\ Len(UbatchTokens) = m
    /\ UbatchTokens = SubSeq(batch, a + 1, a + m)

LEMMA Current ==
    ASSUME Inv, pc = "compute"
    PROVE  \E a, n, m : CurrentIs(a, n, m)
<1> DEFINE a == placed[cur].at
           m == UbatchLen(a)
           n == p0 + a
<1>1. cur \in 1 .. Len(placed) /\ taken = Len(batch) /\ Len(context) = p0 + EndAt(cur - 1)
  BY DEF Inv, InvPhase
<1>2. /\ a \in Nat /\ a = EndAt(cur - 1) /\ placed[cur].slot = SlotAt(n, m) /\ m \in Nat \ {0}
      /\ EndAt(cur) = a + m /\ EndAt(cur) <= taken /\ p0 + EndAt(cur) <= Size
  BY <1>1, EntryFacts DEF Inv
<1>3. Len(batch) \in Nat /\ p0 \in Nat /\ batch \in Seq(Tokens)
  BY TypeFacts DEF Inv
<1>4. n \in Nat /\ n = Len(context) /\ n + m <= Size /\ a + m <= Len(batch) /\ a + m <= taken
  BY <1>1, <1>2, <1>3
<1>5. Layout(n)
  BY <1>1, <1>2 DEF Inv, InvLayout, Filled
<1> HIDE DEF n, m
<1>6. Len(SlotAt(n, m)) = m
  BY <1>2, <1>4, SlotFacts
<1>7. ApplyPos(SlotAt(n, m), n) = LayoutPos(n + m) /\ ApplyHead(SlotAt(n, m)) = n + m
  BY <1>2, <1>4, <1>5, ApplyLayout DEF Layout
<1>8. Slot = SlotAt(n, m) /\ FirstPos = n /\ Ubatch.at = a /\ Applied = LayoutPos(n + m)
  BY <1>2, <1>7 DEF Slot, Ubatch, FirstPos, Applied, n
<1>9. UbatchTokens = SubSeq(batch, a + 1, a + m)
  BY <1>6, <1>8 DEF UbatchTokens
<1>10. SubSeq(batch, a + 1, a + m) \in Seq(Tokens) /\ Len(SubSeq(batch, a + 1, a + m)) = m
  <2> HIDE DEF a
  <2> QED BY <1>2, <1>3, <1>4, Piece
<1>11. n = p0 + a /\ m = UbatchLen(a)
  BY DEF n, m
<1>12. CurrentIs(a, n, m)
  <2> HIDE DEF a
  <2> QED BY <1>1, <1>2, <1>3, <1>4, <1>5, <1>6, <1>7, <1>8, <1>9, <1>10, <1>11 DEF CurrentIs
<1> QED BY <1>12

(* Each token of the ubatch is computed from the tokens up to it. *)
LEMMA ResultIsItsPast ==
    ASSUME Inv, NEW a, NEW n, NEW m, CurrentIs(a, n, m), Right, NEW i \in 1 .. m
    PROVE  Result(i) = PrefixOf(context \o UbatchTokens, n + i)
<1>1. GraphUsed.shape = Wanted
  BY DEF GraphUsed, CanReuse, Built
<1>2. GraphUsed.shape.nkv = NKv
  BY <1>1 DEF Wanted, Shape
<1>3. NKv \in Nat /\ n + m <= NKv
  <2>1. n + m \in 1 .. Size /\ Applied = LayoutPos(n + m)
    <3>1. n \in Nat /\ m \in Nat \ {0} /\ n + m <= Size /\ Applied = LayoutPos(n + m)
      BY Zenon DEF CurrentIs
    <3> QED BY <3>1, SizesAssumption
  <2>2. MaxP1Of(LayoutPos(n + m)) = n + m /\ NKvOf(n + m) \in Nat /\ n + m <= NKvOf(n + m)
    BY <2>1, WindowCovers
  <2> QED BY <2>1, <2>2 DEF NKv
<1>4. /\ a \in Nat /\ n \in Nat /\ m \in Nat \ {0} /\ Ubatch.at = a /\ Ubatch.slot = SlotAt(n, m)
      /\ n + m <= Size /\ Len(context) = n /\ a + m <= Len(batch) /\ p0 + a = n
      /\ Applied = LayoutPos(n + m) /\ UbatchTokens = SubSeq(batch, a + 1, a + m)
  BY DEF CurrentIs, Slot
<1>5. context \in Seq(Tokens) /\ batch \in Seq(Tokens) /\ p0 \in Nat
  BY TypeFacts DEF Inv
<1>6. Behind(Ubatch, a, n, m)
  BY <1>4, <1>5 DEF Behind
<1>7. Computed(Ubatch, LayoutPos(n + m), NKv, i)
        = PrefixOf(context \o SubSeq(batch, a + 1, a + m), n + i)
  BY <1>3, <1>6, UbatchComputesItsPast
<1> QED BY <1>2, <1>4, <1>7 DEF Result

(* A failure takes the positions of the ubatch out again, ... *)
LEMMA FailureKeeps ==
    ASSUME Inv, pc = "compute", Remove, pc' = "idle", ret' \in {"no memory", "failed"},
           graph'.ready \in BOOLEAN, DOMAIN kv' = Cells,
           \A c \in 0 .. Len(context) - 1 : kv'[c] = kv[c],
           UNCHANGED <<batch, p0, taken, placed, undo, cur, ghosts>>
    PROVE  Inv'
<1>1. InvTypes'
  BY DEF Inv, InvTypes, ghosts
<1>2. InvPlaced'
  BY PlacementKept DEF Inv
<1>3. InvPhase'
  BY DEF InvPhase
<1>4. InvLayout'
  <2>1. PICK a, n, m : CurrentIs(a, n, m)
    BY Current
  <2>2. /\ n \in Nat /\ m \in Nat \ {0} /\ n + m <= Size /\ n = Len(context)
        /\ Applied = LayoutPos(n + m) /\ ApplyHead(Slot) = n + m /\ FirstPos = n
    BY <2>1 DEF CurrentIs
  <2>3. RmPos(LayoutPos(n + m), n) = LayoutPos(n) /\ RmHead(LayoutPos(n + m), n + m, n) = n
    BY <2>2, RemoveLayout
  <2>4. Layout(n)'
    BY <2>2, <2>3 DEF Remove, Layout
  <2>5. Filled' = n
    BY <2>2 DEF Filled, ghosts
  <2> QED BY <2>4, <2>5 DEF InvLayout, Layout
<1>5. InvContent'
  <2>1. context' = context /\ sound' = sound /\ InvContent
    BY DEF Inv, ghosts
  <2>2. Right => Right'
    <3> SUFFICES ASSUME Right, NEW c \in 0 .. Len(context) - 1
                 PROVE  kv'[c] = PrefixOf(context, c + 1)
      BY <2>1 DEF Right
    <3> QED BY DEF Right
  <2> QED BY <2>1, <2>2 DEF InvContent
<1>6. LogitsAreOfTheLastToken'
  BY DEF LogitsAreOfTheLastToken
<1> QED BY <1>1, <1>2, <1>3, <1>4, <1>5, <1>6 DEF Inv

(* ... an exception leaves them there. *)
LEMMA ThrowKeeps ==
    ASSUME Inv, pc = "compute", Thrown, graph'.ready \in BOOLEAN, DOMAIN kv' = Cells
    PROVE  Inv'
<1>0. /\ pos' = Applied /\ head' = ApplyHead(Slot) /\ context' = context \o UbatchTokens
      /\ sound' = FALSE /\ pc' = "idle" /\ ret' = "thrown"
      /\ UNCHANGED <<batch, p0, taken, placed, undo, cur>>
  BY DEF Thrown, Answer
<1>1. PICK a, n, m : CurrentIs(a, n, m)
  BY Current
<1>2. /\ n \in Nat /\ m \in Nat \ {0} /\ n + m <= Size /\ n = Len(context)
      /\ Applied = LayoutPos(n + m) /\ ApplyHead(Slot) = n + m
      /\ UbatchTokens \in Seq(Tokens) /\ Len(UbatchTokens) = m
  BY <1>1 DEF CurrentIs
<1>3. context' \in Seq(Tokens) /\ Len(context') = n + m
  <2>1. context \in Seq(Tokens)
    BY TypeFacts DEF Inv
  <2> QED BY <1>0, <1>2, <2>1, ConcatProperties
<1>4. InvTypes'
  BY <1>0, <1>2, <1>3 DEF Inv, InvTypes
<1>5. InvPlaced'
  BY <1>0, PlacementKept DEF Inv
<1>6. InvPhase'
  BY <1>0 DEF InvPhase
<1>7. InvLayout'
  <2>1. Filled' = n + m
    BY <1>0, <1>3 DEF Filled
  <2> QED BY <1>0, <1>2, <2>1 DEF InvLayout, Layout
<1>8. InvContent'
  BY <1>0 DEF InvContent
<1>9. LogitsAreOfTheLastToken'
  BY <1>0 DEF LogitsAreOfTheLastToken
<1> QED BY <1>4, <1>5, <1>6, <1>7, <1>8, <1>9 DEF Inv

LEMMA AllocFailsKeeps == ASSUME Inv, AllocFails PROVE Inv'
<1>1. /\ pc = "compute" /\ Remove /\ pc' = "idle" /\ ret' \in {"no memory", "failed"} /\ kv' = kv
      /\ UNCHANGED <<batch, p0, taken, placed, undo, cur, ghosts>>
  BY DEF AllocFails, Answer
<1>2. graph'.ready \in BOOLEAN
  BY DEF AllocFails, Built
<1>3. DOMAIN kv' = Cells /\ \A c \in 0 .. Len(context) - 1 : kv'[c] = kv[c]
  BY <1>1 DEF Inv, InvTypes
<1> QED BY <1>1, <1>2, <1>3, FailureKeeps

LEMMA ReadyIsBoolean == ASSUME Inv PROVE GraphUsed.ready \in BOOLEAN
<1>1. Built.ready \in BOOLEAN
  BY DEF Built
<1>2. graph.ready \in BOOLEAN
  BY DEF Inv, InvTypes
<1> QED BY <1>1, <1>2 DEF GraphUsed

(* Only cells of the slot can have been written. *)
LEMMA HalfWrittenKeepsPast ==
    ASSUME Inv, NEW a, NEW n, NEW m, CurrentIs(a, n, m), NEW W \in SUBSET SlotCells
    PROVE  /\ DOMAIN HalfWritten(W) = Cells
           /\ \A c \in 0 .. Len(context) - 1 : HalfWritten(W)[c] = kv[c]
<1>1. /\ n \in Nat /\ m \in Nat \ {0} /\ Slot = SlotAt(n, m) /\ Len(Slot) = m
      /\ n = Len(context) /\ n + m <= Size
  BY DEF CurrentIs
<1>2. \A i \in 1 .. m : Slot[i] = n + i - 1
  <2>1. \A i \in 1 .. m : SlotAt(n, m)[i] = n + i - 1
    BY <1>1, SlotFacts
  <2> QED BY <1>1, <2>1
<1>3. \A c \in W : c >= n
  BY <1>1, <1>2 DEF SlotCells
<1>4. \A c \in 0 .. Len(context) - 1 : c \in Cells /\ ~(c \in W)
  BY <1>1, <1>3, SizesAssumption DEF Cells
<1> QED BY <1>4 DEF HalfWritten

LEMMA ComputeFailsKeeps == ASSUME Inv, ComputeFails PROVE Inv'
<1>1. /\ pc = "compute" /\ Remove /\ pc' = "idle" /\ ret' \in {"no memory", "failed"}
      /\ graph' = GraphUsed
      /\ UNCHANGED <<batch, p0, taken, placed, undo, cur, ghosts>>
  BY DEF ComputeFails, Answer
<1>2. PICK W \in SUBSET SlotCells : kv' = HalfWritten(W)
  BY DEF ComputeFails
<1>3. PICK a, n, m : CurrentIs(a, n, m)
  BY <1>1, Current
<1>4. DOMAIN kv' = Cells /\ \A c \in 0 .. Len(context) - 1 : kv'[c] = kv[c]
  BY <1>2, <1>3, HalfWrittenKeepsPast
<1>5. graph'.ready \in BOOLEAN
  BY <1>1, ReadyIsBoolean
<1> QED BY <1>1, <1>4, <1>5, FailureKeeps

LEMMA BuildThrowsKeeps == ASSUME Inv, BuildThrows PROVE Inv'
<1>1. pc = "compute" /\ Thrown /\ kv' = kv
  BY DEF BuildThrows
<1>2. graph'.ready \in BOOLEAN
  BY DEF BuildThrows, Built
<1>3. DOMAIN kv' = Cells
  BY <1>1 DEF Inv, InvTypes
<1> QED BY <1>1, <1>2, <1>3, ThrowKeeps

LEMMA InputsThrowKeeps == ASSUME Inv, InputsThrow PROVE Inv'
<1>1. pc = "compute" /\ Thrown /\ kv' = kv /\ graph' = graph
  BY DEF InputsThrow
<1>2. DOMAIN kv' = Cells /\ graph'.ready \in BOOLEAN
  BY <1>1 DEF Inv, InvTypes
<1> QED BY <1>1, <1>2, ThrowKeeps

LEMMA ComputeThrowsKeeps == ASSUME Inv, ComputeThrows PROVE Inv'
<1>1. pc = "compute" /\ Thrown /\ graph' = GraphUsed
  BY DEF ComputeThrows
<1>2. DOMAIN kv' = Cells
  BY DEF ComputeThrows, HalfWritten
<1>3. graph'.ready \in BOOLEAN
  BY <1>1, ReadyIsBoolean
<1> QED BY <1>1, <1>2, <1>3, ThrowKeeps

LEMMA ComputeKeeps == ASSUME Inv, Compute PROVE Inv'
<1>0. /\ pc = "compute" /\ pos' = Applied /\ head' = ApplyHead(Slot) /\ graph' = GraphUsed
      /\ kv' = [c \in Cells |-> IF InSlot(Slot, c) THEN Result(IndexIn(Slot, c)) ELSE kv[c]]
      /\ logits' = IF GraphUsed.shape.outs = 1 /\ Outputs(Ubatch.at) = 1 THEN Result(Len(Slot))
                   ELSE logits
      /\ context' = context \o UbatchTokens
      /\ \/ cur = Len(placed) /\ pc' = "idle" /\ ret' = "done" /\ cur' = cur
         \/ cur # Len(placed) /\ cur' = cur + 1 /\ pc' = pc /\ ret' = ret
      /\ UNCHANGED <<batch, p0, taken, placed, undo, sound, before>>
  BY DEF Compute, Answer
<1>1. PICK a, n, m : CurrentIs(a, n, m)
  BY <1>0, Current
<1>2. /\ n \in Nat /\ m \in Nat \ {0} /\ n + m <= Size /\ n = Len(context) /\ a \in Nat
      /\ Slot = SlotAt(n, m) /\ Len(Slot) = m
      /\ Applied = LayoutPos(n + m) /\ ApplyHead(Slot) = n + m
      /\ UbatchTokens \in Seq(Tokens) /\ Len(UbatchTokens) = m
  BY <1>1 DEF CurrentIs
<1>3. /\ n = p0 + a /\ EndAt(cur) = a + m /\ cur \in 1 .. Len(placed) /\ taken = Len(batch)
      /\ Ubatch.at = a /\ m = UbatchLen(a)
  BY <1>1 DEF CurrentIs
<1>4. context \in Seq(Tokens) /\ context' \in Seq(Tokens) /\ Len(context') = n + m
  <2>1. context \in Seq(Tokens)
    BY TypeFacts DEF Inv
  <2> QED BY <1>0, <1>2, <2>1, ConcatProperties
<1>5. InvPlaced' /\ \A k : EndAt(k)' = EndAt(k)
  BY <1>0, PlacementKept DEF Inv
<1>6. p0 \in Nat /\ Len(placed) \in Nat /\ cur \in Nat /\ p0 + EndAt(cur) = n + m
  <2>1. placed \in Seq(Entries) /\ cur \in Nat /\ p0 \in Nat
    BY <1>3, TypeFacts DEF Inv, InvPlaced, InvTypes
  <2> QED BY <1>2, <1>3, <2>1
<1>7. InvTypes'
  <2>1. ret' \in {"done", "full", "no memory", "failed", "thrown"} /\ cur' \in Nat
        /\ pc' \in {"idle", "place", "restore", "compute"}
    <3>1. pc \in {"idle", "place", "restore", "compute"}
          /\ ret \in {"done", "full", "no memory", "failed", "thrown"}
      BY Zenon DEF Inv, InvTypes
    <3>2. \/ pc' = "idle" /\ ret' = "done" /\ cur' = cur
          \/ cur' = cur + 1 /\ pc' = pc /\ ret' = ret
      BY <1>0
    <3>3. ret' \in {"done", "full", "no memory", "failed", "thrown"}
      BY ONLY <3>1, <3>2
    <3>4. pc' \in {"idle", "place", "restore", "compute"}
      BY ONLY <3>1, <3>2
    <3>5. cur' \in Nat
      BY ONLY <1>6, <3>2
    <3> QED BY <3>3, <3>4, <3>5
  <2>2. DOMAIN kv' = Cells /\ graph'.ready \in BOOLEAN
    BY <1>0, ReadyIsBoolean
  <2>3. context' \in Seq(Tokens) /\ Len(context') <= Size
    BY <1>2, <1>4
  <2> QED BY <1>0, <2>1, <2>2, <2>3 DEF Inv, InvTypes
<1>8. InvPhase' /\ InvLayout'
  <2>1. CASE cur = Len(placed)
    <3>1. pc' = "idle"
      BY <1>0, <2>1
    <3>2. Filled' = n + m
      BY <1>4, <3>1 DEF Filled
    <3> QED BY <1>0, <1>2, <3>1, <3>2 DEF InvPhase, InvLayout, Layout
  <2>2. CASE cur # Len(placed)
    <3>1. pc' = "compute" /\ cur' = cur + 1
      BY <1>0, <2>2
    <3>2. cur' \in 1 .. Len(placed') /\ cur' - 1 = cur
      BY <1>0, <1>3, <1>6, <2>2, <3>1
    <3>3. EndAt(cur - 1)' = EndAt(cur)
      BY <1>5, <3>2
    <3>4. Filled' = n + m
      BY <1>0, <1>6, <3>1, <3>3 DEF Filled
    <3>5. p0' + EndAt(cur - 1)' = Len(context') /\ taken' = Len(batch')
      BY <1>0, <1>3, <1>4, <1>6, <3>3
    <3>6. InvPhase'
      BY <3>1, <3>2, <3>5 DEF InvPhase
    <3> QED BY <1>0, <1>2, <3>4, <3>6 DEF InvLayout, Layout
  <2> QED BY <2>1, <2>2
<1>9. sound => \A i \in 1 .. m : Result(i) = PrefixOf(context', n + i)
  BY <1>0, <1>1, ResultIsItsPast DEF Inv, InvContent
<1>10. sound => \A c \in 0 .. n + m - 1 : kv'[c] = PrefixOf(context', c + 1)
  <2> SUFFICES ASSUME sound, NEW c \in 0 .. n + m - 1 PROVE kv'[c] = PrefixOf(context', c + 1)
    OBVIOUS
  <2>1. c \in Cells /\ c \in Nat
    BY <1>2, SizesAssumption DEF Cells
  <2>2. /\ InSlot(Slot, c) <=> c \in n .. n + m - 1
        /\ c \in n .. n + m - 1 => IndexIn(Slot, c) = c - n + 1
    <3>1. /\ \A d \in Nat : InSlot(SlotAt(n, m), d) <=> d \in n .. n + m - 1
          /\ \A d \in n .. n + m - 1 : IndexIn(SlotAt(n, m), d) = d - n + 1
      BY <1>2, SlotFacts
    <3> QED BY <1>2, <2>1, <3>1
  <2>3. kv'[c] = IF InSlot(Slot, c) THEN Result(IndexIn(Slot, c)) ELSE kv[c]
    BY <1>0, <2>1
  <2>4. CASE c < n
    <3>1. kv'[c] = kv[c]
      BY <1>2, <2>2, <2>3, <2>4
    <3>2. kv[c] = PrefixOf(context, c + 1)
      BY <1>2, <2>1, <2>4 DEF Inv, InvContent, Right
    <3>3. c + 1 \in 0 .. Len(context)
      BY <1>2, <2>1, <2>4
    <3>4. PrefixOf(context', c + 1) = PrefixOf(context, c + 1)
      BY <1>0, <1>2, <1>4, <3>3, PrefixOfConcat
    <3> QED BY <3>1, <3>2, <3>4
  <2>5. CASE ~(c < n)
    <3>1. c \in n .. n + m - 1 /\ c - n + 1 \in 1 .. m /\ n + (c - n + 1) = c + 1
      BY <1>2, <2>1, <2>5
    <3>2. kv'[c] = Result(c - n + 1)
      BY <2>2, <2>3, <3>1
    <3>3. Result(c - n + 1) = PrefixOf(context', n + (c - n + 1))
      BY <1>9, <3>1
    <3> QED BY <3>1, <3>2, <3>3
  <2> QED BY <2>4, <2>5
<1>11. InvContent'
  <2>1. Len(context') - 1 = n + m - 1
    <3>1. Len(context') = n + m /\ n \in Nat /\ m \in Nat
      BY <1>2, <1>4
    <3> QED BY ONLY <3>1
  <2>2. sound => Right'
    BY <1>10, <2>1 DEF Right
  <2>3. sound' <=> sound
    BY <1>0, Zenon
  <2> QED BY <2>2, <2>3, Zenon DEF InvContent
<1>12. LogitsAreOfTheLastToken'
  <2> SUFFICES ASSUME pc' = "idle", sound PROVE logits' = PrefixOf(context', Len(context'))
    BY <1>0 DEF LogitsAreOfTheLastToken, Prefix, PrefixOf
  <2>1. cur = Len(placed)
    BY <1>0
  <2>2. a + m = Len(batch)
    BY <1>3, <2>1 DEF Inv, InvPlaced
  <2>3. Outputs(Ubatch.at) = 1
    BY <1>3, <2>2 DEF Outputs, IsLastUbatch
  <2>4. GraphUsed.shape = Wanted
    BY DEF GraphUsed, CanReuse, Built
  <2>5. GraphUsed.shape.outs = 1
    BY <2>3, <2>4 DEF Wanted, Shape
  <2>6. logits' = Result(m) /\ m \in 1 .. m
    BY <1>0, <1>2, <2>3, <2>5
  <2> QED BY <1>4, <1>9, <2>6
<1> QED BY <1>5, <1>7, <1>8, <1>11, <1>12 DEF Inv

LEMMA StutterKeeps == ASSUME Inv, UNCHANGED vars PROVE Inv'
<1>1. UNCHANGED <<batch, p0, placed, taken>>
  BY DEF vars
<1>2. InvPlaced' /\ \A k : EndAt(k)' = EndAt(k)
  BY <1>1, PlacementKept DEF Inv
<1>3. InvTypes' /\ InvContent' /\ LogitsAreOfTheLastToken'
  BY DEF Inv, InvTypes, InvContent, Right, LogitsAreOfTheLastToken, Prefix, PrefixOf,
         vars, ghosts, cache
<1>4. InvPhase' /\ InvLayout'
  BY <1>2 DEF Inv, InvPhase, InvLayout, Layout, Filled, vars, ghosts, cache
<1> QED BY <1>2, <1>3, <1>4 DEF Inv

LEMMA StepInv == ASSUME Inv, [Next]_vars PROVE Inv'
<1>1. ASSUME NEW b \in Batches, Decode(b) PROVE Inv'
  BY <1>1, DecodeKeeps
<1> QED BY <1>1, ClearKeeps, TooLongKeeps, PlaceKeeps, NoPlaceKeeps, RestoreKeeps, RefuseKeeps,
           ReserveKeeps, ComputeKeeps, AllocFailsKeeps, ComputeFailsKeeps, BuildThrowsKeeps,
           InputsThrowKeeps, ComputeThrowsKeeps, StutterKeeps DEF Next

THEOREM Invariance == Spec => []Inv
<1>1. Inv /\ [Next]_vars => Inv'
  BY StepInv
<1> QED BY InitInv, <1>1, PTL DEF Spec

-----------------------------------------------------------------------------
(* Every variable has its type and its range. *)
THEOREM TypeCorrect == Spec => []TypeOK
<1>1. Inv => TypeOK
  <2> SUFFICES ASSUME Inv PROVE TypeOK
    OBVIOUS
  <2>1. /\ pc \in {"idle", "place", "restore", "compute"} /\ sound \in BOOLEAN
        /\ ret \in {"done", "full", "no memory", "failed", "thrown"}
        /\ p0 \in 0 .. Size /\ undo \in 0 .. Len(placed) /\ cur \in Nat /\ taken \in 0 .. Len(batch)
        /\ graph.ready \in BOOLEAN
    BY Zenon DEF Inv, InvTypes
  <2>2. Len(context) \in 0 .. Size
    <3>1. Len(context) \in Nat /\ Len(context) <= Size
      BY TypeFacts DEF Inv
    <3> QED BY <3>1, SizesAssumption
  <2>3. Filled \in 0 .. Size /\ Layout(Filled)
    <3>1. CASE pc = "idle"
      BY <2>2, <3>1 DEF Filled, Inv, InvLayout
    <3>2. CASE pc = "compute"
      <4>1. Filled = Len(context)
        BY <3>2 DEF Inv, InvPhase, Filled
      <4> QED BY <2>2, <4>1 DEF Inv, InvLayout
    <3>3. CASE pc # "idle" /\ pc # "compute"
      <4>1. Filled = p0 + EndAt(undo)
        BY <3>3 DEF Filled
      <4>2. EndAt(undo) \in 0 .. taken /\ p0 + taken <= Size
        BY <2>1 DEF Inv, InvPlaced
      <4>3. taken \in Nat /\ p0 \in Nat
        BY TypeFacts DEF Inv
      <4>4. p0 + EndAt(undo) \in 0 .. Size
        BY <4>2, <4>3, SizesAssumption
      <4> QED BY <4>1, <4>4 DEF Inv, InvLayout
    <3> QED BY <3>1, <3>2, <3>3
  <2>4. pos \in [Cells -> Cells \cup {Free}] /\ head \in 0 .. Size
    BY <2>3 DEF Layout, LayoutPos
  <2> QED BY <2>1, <2>2, <2>4 DEF TypeOK
<1> QED BY <1>1, Invariance, PTL

(* Placing a decode's ubatches on trial and taking them back leaves cells    *)
(* and head as the decode found them (llama_kv_cache::prepare).              *)
THEOREM TrialIsUndone == Spec => []TrialLeavesNoTrace
<1>1. Inv => TrialLeavesNoTrace
  <2> SUFFICES ASSUME Inv, pc = "restore", undo = 0
               PROVE  pos = before.pos /\ head = before.head
    BY DEF TrialLeavesNoTrace
  <2>1. before = [pos |-> LayoutPos(p0), head |-> p0]
    BY DEF Inv, InvPhase
  <2>2. Filled = p0 + 0 /\ p0 \in Nat
    BY TypeFacts DEF Inv, Filled, EndAt
  <2>3. Filled = p0
    BY <2>2
  <2> QED BY <2>1, <2>3 DEF Inv, InvLayout, Layout
<1> QED BY <1>1, Invariance, PTL

(* The keys and values of every token come from exactly the tokens up to it, *)
(* for every way the decodes are cut into ubatches, refused or fail          *)
(* (llama_context::decode).                                                  *)
THEOREM ContentCorrect == Spec => []ContentIsOwnPast
<1>1. Inv => ContentIsOwnPast
  <2> SUFFICES ASSUME Inv, sound, NEW c \in Used, pc \in {"idle", "compute"}
               PROVE  kv[c] = Prefix(pos[c] + 1)
    BY DEF ContentIsOwnPast
  <2>1. Filled = Len(context)
    BY DEF Inv, InvPhase, Filled
  <2>2. Len(context) \in 0 .. Size
    <3>1. Len(context) \in Nat /\ Len(context) <= Size
      BY TypeFacts DEF Inv
    <3> QED BY <3>1, SizesAssumption
  <2>3. pos = LayoutPos(Len(context))
    BY <2>1 DEF Inv, InvLayout, Layout
  <2>4. c \in 0 .. Len(context) - 1 /\ c \in Cells
    BY <2>2, <2>3, LayoutUsed DEF Used
  <2>5. pos[c] = c
    BY <2>3, <2>4 DEF LayoutPos
  <2>6. kv[c] = PrefixOf(context, c + 1)
    BY <2>4 DEF Inv, InvContent, Right
  <2> QED BY <2>5, <2>6, PrefixIsPrefixOf
<1> QED BY <1>1, Invariance, PTL

(* A decode that answers 0 leaves the logits of the last token of the        *)
(* context.                                                                  *)
THEOREM LogitsCorrect == Spec => []LogitsAreOfTheLastToken
<1>1. Inv => LogitsAreOfTheLastToken
  BY DEF Inv
<1> QED BY <1>1, Invariance, PTL

-----------------------------------------------------------------------------
(* Every step of a decode is a step of ContextService or changes nothing a   *)
(* caller sees.                                                              *)

LEMMA LeftPieces ==
    ASSUME Inv, NEW a, NEW n, NEW m, CurrentIs(a, n, m), pc = "compute"
    PROVE  /\ Left = SubSeq(batch, a + 1, Len(batch)) /\ Len(Left) = Len(batch) - a
           /\ m \in 1 .. Len(Left)
           /\ SubSeq(Left, 1, m) = UbatchTokens
           /\ m < Len(Left) => SubSeq(Left, m + 1, Len(Left)) = SubSeq(batch, a + m + 1, Len(batch))
<1>1. /\ a \in Nat /\ m \in Nat \ {0} /\ Len(batch) \in Nat /\ a + m <= Len(batch)
      /\ Ubatch.at = a /\ UbatchTokens = SubSeq(batch, a + 1, a + m)
  BY DEF CurrentIs
<1>2. batch \in Seq(Tokens)
  BY TypeFacts DEF Inv
<1>3. Left = SubSeq(batch, a + 1, Len(batch))
  BY <1>1 DEF Left
<1>4. Len(Left) = Len(batch) - a
  <2>1. Len(batch) - a \in Nat \ {0} /\ a + (Len(batch) - a) = Len(batch)
    BY <1>1
  <2>2. \A l \in Nat \ {0} : a + l <= Len(batch) => Len(SubSeq(batch, a + 1, a + l)) = l
    BY <1>1, <1>2, Piece
  <2>3. a + (Len(batch) - a) <= Len(batch)
    BY <1>1
  <2>4. Len(SubSeq(batch, a + 1, a + (Len(batch) - a))) = Len(batch) - a
    BY <2>1, <2>2, <2>3
  <2> QED BY <1>3, <2>1, <2>4
<1>5. a + 1 \in 1 .. Len(batch) /\ Len(batch) \in 1 .. Len(batch)
  BY <1>1
<1>6. \A f \in 1 .. Len(batch) - (a + 1) + 1, l \in 1 .. Len(batch) - (a + 1) + 1 :
         SubSeq(SubSeq(batch, a + 1, Len(batch)), f, l) = SubSeq(batch, a + 1 + f - 1, a + 1 + l - 1)
  <2> DEFINE o == a + 1
             e == Len(batch)
  <2>1. o \in 1 .. Len(batch) /\ e \in 1 .. Len(batch)
    BY <1>5
  <2> HIDE DEF o, e
  <2>2. \A f \in 1 .. e - o + 1, l \in 1 .. e - o + 1 :
           SubSeq(SubSeq(batch, o, e), f, l) = SubSeq(batch, o + f - 1, o + l - 1)
    BY <1>2, <2>1, SubSeqOfSubSeq
  <2> QED BY <2>2 DEF o, e
<1>7. SubSeq(Left, 1, m) = UbatchTokens
  <2>1. 1 \in 1 .. Len(batch) - (a + 1) + 1 /\ m \in 1 .. Len(batch) - (a + 1) + 1
    BY <1>1
  <2>2. a + 1 + 1 - 1 = a + 1 /\ a + 1 + m - 1 = a + m
    BY <1>1
  <2> QED BY <1>1, <1>3, <1>6, <2>1, <2>2
<1>8. ASSUME m < Len(Left)
      PROVE  SubSeq(Left, m + 1, Len(Left)) = SubSeq(batch, a + m + 1, Len(batch))
  <2>1. m + 1 \in 1 .. Len(batch) - (a + 1) + 1 /\ Len(Left) \in 1 .. Len(batch) - (a + 1) + 1
    BY <1>1, <1>4, <1>8
  <2>2. a + 1 + (m + 1) - 1 = a + m + 1 /\ a + 1 + Len(Left) - 1 = Len(batch)
    BY <1>1, <1>4
  <2> QED BY <1>3, <1>6, <2>1, <2>2
<1>9. m \in 1 .. Len(Left)
  BY <1>1, <1>4
<1> QED BY <1>3, <1>4, <1>7, <1>8, <1>9

LEMMA RetIsAnAnswer == ASSUME Inv PROVE ret # "none"
BY DEF Inv, InvTypes

LEMMA ThrownIsThrow ==
    ASSUME Inv, pc = "compute", Thrown
    PROVE  Abstract!Throw
<1>1. PICK a, n, m : CurrentIs(a, n, m)
  BY Current
<1>2. m \in 1 .. Len(Left) /\ SubSeq(Left, 1, m) = UbatchTokens
  BY <1>1, LeftPieces
<1>3. /\ context' = context \o UbatchTokens /\ sound' = FALSE /\ pc' = "idle" /\ ret' = "thrown"
  BY DEF Thrown, Answer
<1>4. Reply = "none" /\ Reply' = "thrown" /\ Left' = <<>>
  BY <1>3 DEF Reply, Left
<1>5. context' = context \o Abstract!First(m)
  BY <1>2, <1>3 DEF Abstract!First
<1>6. \E k \in 1 .. Len(Left) : context' = context \o Abstract!First(k) /\ sound' = FALSE
  BY <1>2, <1>3, <1>5
<1> QED BY <1>4, <1>6 DEF Abstract!Throw

LEMMA FailureIsFail ==
    ASSUME Inv, pc # "idle", pc' = "idle", ret' \in {"no memory", "failed"},
           UNCHANGED <<context, sound>>
    PROVE  Abstract!Fail
<1>1. Reply = "none" /\ Reply' = ret' /\ Left' = <<>>
  BY DEF Reply, Left
<1> QED BY <1>1 DEF Abstract!Fail

LEMMA ComputeExtends == ASSUME Inv, Inv', Compute PROVE \E k \in 1 .. Len(Left) : Abstract!Extend(k)
<1>1. /\ pc = "compute" /\ context' = context \o UbatchTokens
      /\ \/ cur = Len(placed) /\ pc' = "idle" /\ ret' = "done" /\ cur' = cur
         \/ cur # Len(placed) /\ cur' = cur + 1 /\ pc' = pc /\ ret' = ret
      /\ UNCHANGED <<batch, p0, taken, placed, undo, sound, before>>
  BY DEF Compute, Answer
<1>2. PICK a, n, m : CurrentIs(a, n, m)
  BY <1>1, Current
<1>3. /\ m \in 1 .. Len(Left) /\ SubSeq(Left, 1, m) = UbatchTokens /\ Len(Left) = Len(batch) - a
      /\ m < Len(Left) => SubSeq(Left, m + 1, Len(Left)) = SubSeq(batch, a + m + 1, Len(batch))
  BY <1>1, <1>2, LeftPieces
<1>4. /\ a \in Nat /\ n \in Nat /\ m \in Nat \ {0} /\ n = p0 + a /\ n = Len(context)
      /\ Len(batch) \in Nat /\ EndAt(cur) = a + m /\ cur \in 1 .. Len(placed) /\ taken = Len(batch)
  BY <1>2 DEF CurrentIs
<1>5. Len(context) + Len(Left) <= Size
  <2>1. p0 + taken <= Size /\ p0 \in Nat
    BY TypeFacts DEF Inv, InvPlaced
  <2> QED BY <1>3, <1>4, <2>1, SizesAssumption
<1>6. Reply = "none" /\ context' = context \o Abstract!First(m)
  BY <1>1, <1>3 DEF Reply, Abstract!First
<1>7. CASE cur = Len(placed)
  <2>1. m = Len(Left)
    <3>1. a + m = Len(batch)
      BY <1>4, <1>7 DEF Inv, InvPlaced
    <3> QED BY <1>3, <1>4, <3>1
  <2>2. Left' = <<>> /\ Reply' = "done"
    BY <1>1, <1>7 DEF Left, Reply
  <2>3. Abstract!Rest(m) = <<>>
    <3>1. m + 1 \in Int /\ Len(Left) \in Int /\ Len(Left) < m + 1
      BY <1>4, <2>1
    <3> QED BY <3>1, SubSeqEmpty DEF Abstract!Rest
  <2> QED BY <1>1, <1>3, <1>5, <1>6, <2>1, <2>2, <2>3 DEF Abstract!Extend
<1>8. CASE cur # Len(placed)
  <2>1. placed \in Seq(Entries) /\ Len(placed) \in Nat /\ cur + 1 \in 1 .. Len(placed) /\ (cur + 1) - 1 = cur
    <3>1. placed \in Seq(Entries)
      BY DEF Inv, InvPlaced
    <3> QED BY <1>4, <1>8, <3>1
  <2>2. placed[cur + 1].at = a + m /\ a + m < Len(batch)
    <3>1. placed[cur + 1].at = EndAt((cur + 1) - 1) /\ placed[cur + 1].at < Len(batch)
      BY <2>1, EntryFacts DEF Inv
    <3> QED BY <1>4, <2>1, <3>1
  <2>3. m < Len(Left) /\ m # Len(Left)
    BY <1>3, <1>4, <2>2
  <2>4. Left' = SubSeq(batch, a + m + 1, Len(batch)) /\ Reply' = "none"
    BY <1>1, <1>8, <2>2 DEF Left, Reply, Ubatch
  <2>5. Abstract!Rest(m) = Left'
    BY <1>3, <2>3, <2>4 DEF Abstract!Rest
  <2> QED BY <1>1, <1>3, <1>5, <1>6, <2>3, <2>4, <2>5 DEF Abstract!Extend
<1> QED BY <1>7, <1>8

LEMMA TrialStutters ==
    ASSUME Inv, pc \in {"place", "restore"}, pc' \in {"place", "restore"},
           UNCHANGED <<batch, context, sound>>
    PROVE  UNCHANGED Abstract!vars
<1>1. Left = batch /\ Left' = batch /\ Reply = "none" /\ Reply' = "none"
  BY DEF Left, Reply
<1> QED BY <1>1 DEF Abstract!vars

LEMMA ReserveMaps == ASSUME Inv, Reserve PROVE [Abstract!Next]_(Abstract!vars)
<1>1. /\ pc = "restore" /\ undo = 0 /\ taken = Len(batch)
      /\ \/ pc' = "compute" /\ UNCHANGED ret
         \/ pc' = "idle" /\ ret' = "no memory"
      /\ UNCHANGED <<batch, placed, undo, cur, context, sound>>
  BY DEF Reserve, Answer, Prepared, ghosts
<1>2. CASE pc' = "compute"
  <2>1. cur = 1 /\ batch # <<>> /\ batch \in Seq(Tokens) /\ Len(batch) \in Nat \ {0}
    <3>1. batch \in Seq(Tokens) /\ cur = 1 /\ batch # <<>>
      BY <1>1, TypeFacts DEF Inv, InvPhase
    <3> QED BY <3>1, EmptySeq
  <2>2. placed[1].at = 0
    <3>1. EndAt(0) = 0 /\ taken = EndAt(Len(placed)) /\ placed \in Seq(Entries)
      BY DEF EndAt, Inv, InvPlaced
    <3>2. Len(placed) \in Nat /\ Len(placed) # 0
      <4>1. Len(placed) \in Nat
        BY <3>1
      <4>2. Len(placed) # 0
        BY <1>1, <2>1, <3>1
      <4> QED BY <4>1, <4>2
    <3>3. 1 \in 1 .. Len(placed) /\ 1 - 1 = 0
      BY <3>2
    <3>4. placed[1].at = EndAt(1 - 1)
      BY <3>3 DEF Inv, InvPlaced
    <3> QED BY <3>1, <3>3, <3>4
  <2>3. Left' = SubSeq(batch, 0 + 1, Len(batch))
    BY <1>1, <1>2, <2>1, <2>2 DEF Left, Ubatch
  <2>4. SubSeq(batch, 1, Len(batch)) = batch
    BY <2>1, SubSeqFull
  <2>5. Left = batch /\ Reply = "none" /\ Reply' = "none"
    BY <1>1, <1>2 DEF Left, Reply
  <2>6. 0 + 1 = 1
    OBVIOUS
  <2>7. Left' = Left /\ Reply' = Reply
    BY <2>3, <2>4, <2>5, <2>6
  <2> QED BY <1>1, <2>7 DEF Abstract!vars
<1>3. CASE pc' = "idle" /\ ret' = "no memory"
  BY <1>1, <1>3, FailureIsFail DEF Abstract!Next
<1> QED BY <1>1, <1>2, <1>3

LEMMA StepMaps == ASSUME Inv, Inv', [Next]_vars PROVE [Abstract!Next]_(Abstract!vars)
<1>1. CASE Clear
  <2>1. Left = <<>> /\ Left' = <<>> /\ Reply = ret /\ Reply' = ret
    BY <1>1 DEF Clear, Left, Reply
  <2>2. Abstract!Clear
    BY <1>1, <2>1, RetIsAnAnswer DEF Clear, Abstract!Clear
  <2> QED BY <2>2 DEF Abstract!Next
<1>2. ASSUME NEW b \in Batches, Decode(b) PROVE Abstract!Next
  <2>1. Reply = ret /\ Left' = b /\ Reply' = "none" /\ UNCHANGED <<context, sound>>
    BY <1>2 DEF Decode, Left, Reply
  <2>2. Abstract!Ask(b)
    BY <2>1, RetIsAnAnswer DEF Abstract!Ask
  <2> QED BY <2>2 DEF Abstract!Next
<1>3. CASE TooLong
  <2>1. /\ Left = batch /\ Left' = <<>> /\ Reply = "none" /\ Reply' = "thrown"
        /\ Len(batch) > NBatch /\ UNCHANGED <<context, sound>>
    BY <1>3 DEF TooLong, Answer, ghosts, Left, Reply
  <2>2. Abstract!Throw
    BY <2>1 DEF Abstract!Throw
  <2> QED BY <2>2 DEF Abstract!Next
<1>4. CASE Place \/ NoPlace \/ Restore
  <2>1. pc \in {"place", "restore"} /\ pc' \in {"place", "restore"} /\ UNCHANGED <<batch, context, sound>>
    BY <1>4 DEF Place, NoPlace, Restore, ghosts
  <2> QED BY <2>1, TrialStutters
<1>5. CASE Refuse
  <2>1. /\ pc = "restore" /\ ~(taken = Len(batch)) /\ pc' = "idle" /\ ret' = "full"
        /\ UNCHANGED <<context, sound>>
    BY <1>5 DEF Refuse, Answer, Prepared, ghosts
  <2>2. Len(context) + Len(batch) > Size
    <3>1. taken < Len(batch)
      <4>1. taken \in Nat /\ Len(batch) \in Nat /\ taken <= Len(batch)
        BY TypeFacts DEF Inv
      <4> QED BY <2>1, <4>1
    <3> QED BY <2>1, <3>1 DEF Inv, InvPhase
  <2>3. Left = batch /\ Left' = <<>> /\ Reply = "none" /\ Reply' = "full"
    BY <2>1 DEF Left, Reply
  <2>4. Abstract!Refuse
    BY <2>1, <2>2, <2>3 DEF Abstract!Refuse
  <2> QED BY <2>4 DEF Abstract!Next
<1>6. CASE Reserve
  BY <1>6, ReserveMaps
<1>7. CASE Compute
  BY <1>7, ComputeExtends DEF Abstract!Next
<1>8. CASE AllocFails \/ ComputeFails
  <2>1. pc # "idle" /\ pc' = "idle" /\ ret' \in {"no memory", "failed"} /\ UNCHANGED <<context, sound>>
    BY <1>8 DEF AllocFails, ComputeFails, Answer, ghosts
  <2> QED BY <2>1, FailureIsFail DEF Abstract!Next
<1>9. CASE BuildThrows \/ InputsThrow \/ ComputeThrows
  <2>1. pc = "compute" /\ Thrown
    BY <1>9 DEF BuildThrows, InputsThrow, ComputeThrows
  <2> QED BY <2>1, ThrownIsThrow DEF Abstract!Next
<1>10. CASE UNCHANGED vars
  BY <1>10 DEF vars, ghosts, cache, Left, Reply, Ubatch, Abstract!vars
<1> QED BY <1>1, <1>2, <1>3, <1>4, <1>5, <1>6, <1>7, <1>8, <1>9, <1>10 DEF Next

(* What a caller sees of the context is ContextService.                      *)
THEOREM CacheImplementsContext == Spec => ImplementsContext
<1>1. Init => Abstract!Init
  BY DEF Init, Abstract!Init, Left, Reply
<1>2. Inv /\ Inv' /\ [Next]_vars => [Abstract!Next]_(Abstract!vars)
  BY StepMaps
<1> QED BY <1>1, <1>2, Invariance, PTL DEF Spec, ImplementsContext, Abstract!Spec
=============================================================================
