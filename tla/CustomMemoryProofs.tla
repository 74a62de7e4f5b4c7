------------------------- MODULE CustomMemoryProofs -------------------------
(***************************************************************************)
(* What holds of the otoroshi allocator for every page size, threshold and *)
(* set of requests, empty ones too: blocks stay inside the memory, until a *)
(* compaction runs no byte is in two blocks, and until an empty block is   *)
(* freed none is in no block.                                              *)
(***************************************************************************)
EXTENDS CustomMemory, SumProofs, SequenceTheorems

Positive == Nat \ {0}
Blocks == [offset : Positive, length : Nat]

LEMMA BlockFields ==
  ASSUME NEW b \in Blocks
  PROVE  b.offset \in Positive /\ b.length \in Nat /\ End(b) = b.offset + b.length
BY DEF Blocks, End

LEMMA BlockMade ==
  ASSUME NEW o \in Positive, NEW n \in Nat
  PROVE  /\ MemoryBlock(o, n) \in Blocks
         /\ MemoryBlock(o, n).offset = o /\ MemoryBlock(o, n).length = n
         /\ End(MemoryBlock(o, n)) = o + n
BY DEF Blocks, MemoryBlock, End

-----------------------------------------------------------------------------
(* The books, of any map m of live blocks, list s of free ones and end p   *)
(* of what was handed out.                                                 *)

LiveTyped(m) ==
  /\ DOMAIN m \subseteq Positive /\ IsFiniteSet(DOMAIN m)
  /\ m \in [DOMAIN m -> Nat]

Typed(m, s, p) == LiveTyped(m) /\ s \in Seq(Blocks) /\ p \in Positive

Within(m, s, p) ==
  /\ \A o \in DOMAIN m : o + m[o] <= p
  /\ \A i \in DOMAIN s : End(s[i]) <= p

(* Two ranges without a common byte.                                       *)
Clear(o, n, q, k) == o + n <= q \/ q + k <= o

Apart(m, s) ==
  /\ \A o, q \in DOMAIN m : o # q => Clear(o, m[o], q, m[q])
  /\ \A i, j \in DOMAIN s :
       i # j => Clear(s[i].offset, s[i].length, s[j].offset, s[j].length)
  /\ \A o \in DOMAIN m, i \in DOMAIN s : Clear(o, m[o], s[i].offset, s[i].length)

AtMost(m, s, p) == FreeSize(s) + SumFunction(m) <= p - 1
Counted(m, s, p) == FreeSize(s) + SumFunction(m) = p - 1

(* No free block is empty.                                                 *)
Full(s) == \A i \in DOMAIN s : s[i].length > 0

(* The map with one more block, or one less.                               *)
With(m, o, n) == [x \in DOMAIN m \cup {o} |-> IF x = o THEN n ELSE m[x]]
Dropped(m, o) == [x \in DOMAIN m \ {o} |-> m[x]]

LEMMA WithTyped ==
  ASSUME NEW m, LiveTyped(m), NEW o \in Positive, NEW n \in Nat, NEW w, w = With(m, o, n)
  PROVE  LiveTyped(w)
<1>1. IsFiniteSet(DOMAIN m \cup {o})
  BY FS_AddElement DEF LiveTyped
<1>2. DOMAIN w = DOMAIN m \cup {o}
  BY DEF With
<1>3. w \in [DOMAIN m \cup {o} -> Nat]
  BY DEF With, LiveTyped
<1>4. QED
  BY <1>1, <1>2, <1>3 DEF LiveTyped

LEMMA WithoutTyped ==
  ASSUME NEW m, LiveTyped(m), NEW o \in DOMAIN m, NEW w, w = Dropped(m, o)
  PROVE  /\ LiveTyped(w) /\ \A x : x \in DOMAIN w <=> x \in DOMAIN m /\ x # o
         /\ \A x \in DOMAIN w : w[x] = m[x]
<1>1. IsFiniteSet(DOMAIN m \ {o})
  BY FS_Subset DEF LiveTyped
<1>2. DOMAIN w = DOMAIN m \ {o} /\ \A x \in DOMAIN m \ {o} : w[x] = m[x]
  BY DEF Dropped
<1>3. w \in [DOMAIN m \ {o} -> Nat]
  BY DEF Dropped, LiveTyped
<1>4. QED
  BY <1>1, <1>2, <1>3 DEF LiveTyped

-----------------------------------------------------------------------------
(* Their sums.                                                             *)
Lengths(s) == [i \in DOMAIN s |-> s[i].length]

LEMMA FreeSizeIs ==
  ASSUME NEW s
  PROVE  FreeSize(s) = SumFunctionOnSet(Lengths(s), DOMAIN s)
<1>1. DOMAIN [i \in DOMAIN s |-> s[i].length] = DOMAIN s
  OBVIOUS
<1>2. QED
  BY <1>1 DEF FreeSize, Lengths, SumFunction

LEMMA LengthsTyped ==
  ASSUME NEW s \in Seq(Blocks)
  PROVE  /\ Len(s) \in Nat /\ DOMAIN s = 1 .. Len(s) /\ IsFiniteSet(DOMAIN s)
         /\ Numbers(Lengths(s), DOMAIN s)
         /\ \A i \in DOMAIN s :
              s[i] \in Blocks /\ Lengths(s)[i] = s[i].length /\ s[i].length \in Nat
<1>1. Len(s) \in Nat /\ DOMAIN s = 1 .. Len(s) /\ \A i \in DOMAIN s : s[i] \in Blocks
  BY ElementOfSeq
<1>2. IsFiniteSet(DOMAIN s)
  BY <1>1, FS_Interval
<1>3. \A i \in DOMAIN s : Lengths(s)[i] = s[i].length /\ s[i].length \in Nat
  BY <1>1, BlockFields DEF Lengths
<1>4. QED
  BY <1>1, <1>2, <1>3 DEF Numbers

LEMMA LiveNumbers ==
  ASSUME NEW m, LiveTyped(m)
  PROVE  Numbers(m, DOMAIN m) /\ IsFiniteSet(DOMAIN m)
BY DEF LiveTyped, Numbers

LEMMA SizesNat ==
  ASSUME NEW m, LiveTyped(m), NEW s \in Seq(Blocks)
  PROVE  FreeSize(s) \in Nat /\ SumFunction(m) \in Nat
<1>1. FreeSize(s) \in Nat
  BY LengthsTyped, FreeSizeIs, SumSplit
<1>2. SumFunction(m) \in Nat
  BY LiveNumbers, SumSplit DEF SumFunction
<1>3. QED
  BY <1>1, <1>2

(* The length a live block at o has before it is written over.             *)
Old(m, o) == IF o \in DOMAIN m THEN m[o] ELSE 0

LEMMA LiveMore ==
  ASSUME NEW m, LiveTyped(m), NEW o \in Positive, NEW n \in Nat
  PROVE  /\ SumFunction(With(m, o, n)) = SumFunction(m) - Old(m, o) + n
         /\ SumFunction(m) \in Nat /\ Old(m, o) \in Nat
<1>v. PICK v : v = With(m, o, n)
  OBVIOUS
<1>1. PICK S, T : S = DOMAIN m /\ T = DOMAIN v
  OBVIOUS
<1>w. DOMAIN v = DOMAIN m \cup {o} /\ v[o] = n /\ \A x \in DOMAIN m : x # o => v[x] = m[x]
  BY <1>v DEF With
<1>2. IsFiniteSet(S) /\ Numbers(m, S)
  BY <1>1, LiveNumbers
<1>3. SumFunctionOnSet(m, S) \in Nat
  BY <1>2, SumSplit
<1>4. CASE o \notin S
  <2>1. T = S \cup {o} /\ v[o] \in Nat /\ \A y \in S : m[y] = v[y]
    BY <1>1, <1>w, <1>4
  <2>2. SumFunctionOnSet(v, T) = SumFunctionOnSet(m, S) + v[o]
    BY <1>2, <1>4, <2>1, SumMore
  <2>3. Old(m, o) = 0
    BY <1>1, <1>4 DEF Old
  <2>4. QED
    BY <1>1, <1>v, <1>w, <1>3, <2>2, <2>3 DEF SumFunction
<1>5. CASE o \in S
  <2>1. T = S /\ \A y \in S \ {o} : m[y] = v[y]
    BY <1>1, <1>w, <1>5
  <2>2. Numbers(v, S)
    BY <1>1, <1>2, <1>w, <2>1 DEF Numbers
  <2>3. SumFunctionOnSet(v, S) = SumFunctionOnSet(m, S) - m[o] + v[o]
    BY <1>2, <1>5, <2>1, <2>2, SumChange
  <2>4. Old(m, o) = m[o] /\ m[o] \in Nat
    BY <1>1, <1>2, <1>5 DEF Old, Numbers
  <2>5. QED
    BY <1>1, <1>v, <1>w, <1>3, <2>1, <2>3, <2>4 DEF SumFunction
<1>6. QED
  BY <1>4, <1>5

LEMMA LiveLess ==
  ASSUME NEW m, LiveTyped(m), NEW o \in DOMAIN m
  PROVE  SumFunction(m) = SumFunction(Dropped(m, o)) + m[o]
<1>v. PICK v : v = Dropped(m, o)
  OBVIOUS
<1>1. PICK S, T : S = DOMAIN m /\ T = DOMAIN v
  OBVIOUS
<1>w. LiveTyped(v) /\ (\A x : x \in T <=> x \in S /\ x # o) /\ \A y \in T : v[y] = m[y]
  BY <1>1, <1>v, WithoutTyped
<1>2. /\ IsFiniteSet(T) /\ Numbers(v, T) /\ o \notin T /\ S = T \cup {o}
      /\ m[o] \in Nat /\ \A y \in T : v[y] = m[y]
  <2>1. IsFiniteSet(T) /\ Numbers(v, T)
    BY <1>1, <1>w, LiveNumbers
  <2>2. m[o] \in Nat
    BY LiveNumbers DEF Numbers
  <2>3. QED
    BY <1>1, <1>w, <2>1, <2>2
<1>3. SumFunctionOnSet(m, S) = SumFunctionOnSet(v, T) + m[o]
  BY <1>2, SumMore
<1>4. QED
  BY <1>1, <1>v, <1>3 DEF SumFunction

LEMMA FreeAppend ==
  ASSUME NEW s \in Seq(Blocks), NEW b \in Blocks
  PROVE  /\ Append(s, b) \in Seq(Blocks)
         /\ DOMAIN Append(s, b) = DOMAIN s \cup {Len(s) + 1} /\ Len(s) + 1 \notin DOMAIN s
         /\ Append(s, b)[Len(s) + 1] = b /\ \A i \in DOMAIN s : Append(s, b)[i] = s[i]
         /\ FreeSize(Append(s, b)) = FreeSize(s) + b.length
<1>1. PICK t, k : t = Append(s, b) /\ k = Len(s) + 1
  OBVIOUS
<1>2. /\ t \in Seq(Blocks) /\ DOMAIN t = DOMAIN s \cup {k} /\ k \notin DOMAIN s
      /\ t[k] = b /\ \A i \in DOMAIN s : t[i] = s[i]
  BY <1>1, LengthsTyped, AppendProperties
<1>3. PICK S, T, w, v : /\ S = DOMAIN s /\ T = DOMAIN t
                        /\ w = Lengths(s) /\ v = Lengths(t)
  OBVIOUS
<1>4. /\ IsFiniteSet(S) /\ k \notin S /\ T = S \cup {k} /\ Numbers(w, S)
      /\ v[k] = b.length /\ v[k] \in Nat
  BY <1>2, <1>3, LengthsTyped
<1>5. \A y \in S : w[y] = v[y]
  BY <1>2, <1>3, LengthsTyped
<1>6. SumFunctionOnSet(v, T) = SumFunctionOnSet(w, S) + v[k]
  <2>1. IsFiniteSet(S) /\ k \notin S /\ T = S \cup {k}
    BY <1>4
  <2>2. Numbers(w, S) /\ v[k] \in Nat /\ \A y \in S : w[y] = v[y]
    BY <1>4, <1>5
  <2>3. QED
    BY <2>1, <2>2, SumMore
<1>7. FreeSize(t) = SumFunctionOnSet(v, T) /\ FreeSize(s) = SumFunctionOnSet(w, S)
  BY <1>3, FreeSizeIs
<1>8. FreeSize(t) = FreeSize(s) + b.length
  BY <1>4, <1>6, <1>7
<1>9. QED
  BY <1>1, <1>2, <1>8

(* The block at i becomes another one.                                     *)
LEMMA FreeChange ==
  ASSUME NEW s \in Seq(Blocks), NEW i \in DOMAIN s, NEW t \in Seq(Blocks),
         DOMAIN t = DOMAIN s, \A j \in DOMAIN s \ {i} : t[j] = s[j]
  PROVE  FreeSize(t) = FreeSize(s) - s[i].length + t[i].length
<1>1. PICK S, w, v : S = DOMAIN s /\ w = Lengths(s) /\ v = Lengths(t)
  OBVIOUS
<1>2. /\ IsFiniteSet(S) /\ Numbers(w, S) /\ Numbers(v, S) /\ i \in S
      /\ w[i] = s[i].length /\ v[i] = t[i].length
  BY <1>1, LengthsTyped
<1>3. \A y \in S \ {i} : w[y] = v[y]
  BY <1>1, LengthsTyped
<1>4. SumFunctionOnSet(v, S) = SumFunctionOnSet(w, S) - w[i] + v[i]
  BY <1>2, <1>3, SumChange
<1>5. FreeSize(t) = SumFunctionOnSet(v, S) /\ FreeSize(s) = SumFunctionOnSet(w, S)
  BY <1>1, FreeSizeIs
<1>6. QED
  BY <1>2, <1>4, <1>5

(* The block at i goes: every other one has its place in the list.         *)
From(s, i, k) == IF k = i THEN Len(s) ELSE k

LEMMA FreeLess ==
  ASSUME NEW s \in Seq(Blocks), NEW i \in DOMAIN s, NEW t, t = SwapRemove(s, i)
  PROVE  /\ t \in Seq(Blocks) /\ DOMAIN t = 1 .. Len(s) - 1
         /\ \A k \in DOMAIN t : From(s, i, k) \in DOMAIN s \ {i} /\ t[k] = s[From(s, i, k)]
         /\ \A k, l \in DOMAIN t : k # l => From(s, i, k) # From(s, i, l)
         /\ FreeSize(t) = FreeSize(s) - s[i].length
<1> DEFINE n == Len(s)
<1>1. n \in Nat /\ DOMAIN s = 1 .. n /\ i \in 1 .. n /\ n - 1 \in Nat
  BY LengthsTyped
<1>2. DOMAIN t = 1 .. n - 1
  BY DEF SwapRemove
<1>3. \A k \in 1 .. n - 1 : From(s, i, k) \in DOMAIN s \ {i}
  BY <1>1 DEF From
<1>4. \A k \in 1 .. n - 1 : t[k] = s[From(s, i, k)]
  BY DEF SwapRemove, From
<1>5. \A k, l \in 1 .. n - 1 : k # l => From(s, i, k) # From(s, i, l)
  BY <1>1 DEF From
<1>6. t \in Seq(Blocks)
  <2>1. \A k \in 1 .. n - 1 : s[From(s, i, k)] \in Blocks
    BY <1>3, LengthsTyped
  <2>2. t \in [1 .. n - 1 -> Blocks]
    BY <2>1, <1>4 DEF SwapRemove
  <2>3. QED
    BY <1>1, <2>2, SeqDef
<1>7. FreeSize(t) = FreeSize(s) - s[i].length
  <2>1. PICK S, R, w, v : S = DOMAIN s /\ R = 1 .. n - 1 /\ w = Lengths(s) /\ v = Lengths(t)
    OBVIOUS
  <2>2. /\ IsFiniteSet(S) /\ Numbers(w, S) /\ n \in S /\ R = S \ {n} /\ IsFiniteSet(R)
        /\ Numbers(w, R) /\ Numbers(v, R)
    <3>1. n \in S /\ R = S \ {n} /\ R \subseteq S
      BY <1>1, <2>1
    <3>2. Numbers(w, S) /\ IsFiniteSet(S) /\ Numbers(v, R)
      BY <1>2, <1>6, <2>1, LengthsTyped
    <3>3. QED
      BY <3>1, <3>2, FS_Subset DEF Numbers
  <2>3. SumFunctionOnSet(w, S) = w[n] + SumFunctionOnSet(w, R)
        /\ SumFunctionOnSet(w, R) \in Nat
    BY <2>2, SumSplit
  <2>4. FreeSize(t) = SumFunctionOnSet(v, R) /\ FreeSize(s) = SumFunctionOnSet(w, S)
    BY <1>2, <2>1, FreeSizeIs
  <2>5. /\ \A k \in R : w[k] = s[k].length /\ v[k] = s[From(s, i, k)].length
        /\ w[n] = s[n].length /\ w[i] = s[i].length /\ w[n] \in Nat /\ w[i] \in Nat
    <3>1. \A k \in R : v[k] = s[From(s, i, k)].length
      BY <1>2, <1>4, <2>1 DEF Lengths
    <3>2. \A k \in S : w[k] = s[k].length /\ w[k] \in Nat
      BY <2>1, LengthsTyped
    <3>3. QED
      BY <1>1, <2>1, <2>2, <3>1, <3>2
  <2>6. CASE i = n
    <3>1. \A k \in R : w[k] = v[k]
      BY <1>1, <2>1, <2>5, <2>6 DEF From
    <3>2. SumFunctionOnSet(w, R) = SumFunctionOnSet(v, R)
      BY <2>2, <3>1, SumAgree
    <3>3. QED
      BY <2>3, <2>4, <2>5, <2>6, <3>2
  <2>7. CASE i # n
    <3>1. i \in R /\ v[i] = w[n] /\ \A k \in R \ {i} : w[k] = v[k]
      BY <1>1, <2>1, <2>5, <2>7 DEF From
    <3>2. SumFunctionOnSet(v, R) = SumFunctionOnSet(w, R) - w[i] + v[i]
      BY <2>2, <3>1, SumChange
    <3>3. QED
      BY <2>3, <2>4, <2>5, <3>1, <3>2
  <2>8. QED
    BY <2>6, <2>7
<1>8. QED
  BY <1>2, <1>3, <1>4, <1>5, <1>6, <1>7

-----------------------------------------------------------------------------
(* What each operation does to the books.                                  *)

LEMMA BooksBump ==
  ASSUME NEW m, NEW s, NEW p, Typed(m, s, p), Within(m, s, p), NEW n \in Nat,
         NEW w, w = With(m, p, n)
  PROVE  /\ Typed(w, s, p + n) /\ Within(w, s, p + n)
         /\ Apart(m, s) => Apart(w, s)
         /\ AtMost(m, s, p) => AtMost(w, s, p + n)
         /\ Counted(m, s, p) => Counted(w, s, p + n)
<1>1. LiveTyped(m) /\ s \in Seq(Blocks) /\ p \in Positive /\ p + n \in Positive
  BY DEF Typed, Positive
<1>2. /\ LiveTyped(w) /\ DOMAIN w = DOMAIN m \cup {p} /\ w[p] = n
      /\ \A x \in DOMAIN m : x # p => w[x] = m[x]
  <2>1. LiveTyped(w)
    BY <1>1, WithTyped
  <2>2. DOMAIN w = DOMAIN m \cup {p} /\ w[p] = n /\ \A x \in DOMAIN m : x # p => w[x] = m[x]
    BY DEF With
  <2>3. QED
    BY <2>1, <2>2
<1>3. \A x \in DOMAIN m : x \in Positive /\ m[x] \in Nat /\ x + m[x] <= p
  BY <1>1 DEF LiveTyped, Within
<1>4. Old(m, p) = 0
  BY <1>1, <1>3 DEF Old, Positive
<1>5. \A i \in DOMAIN s : /\ s[i].offset \in Positive /\ s[i].length \in Nat
                          /\ End(s[i]) = s[i].offset + s[i].length /\ End(s[i]) <= p
  BY <1>1, LengthsTyped, BlockFields DEF Within
<1>6. SumFunction(w) = SumFunction(m) + n /\ SumFunction(m) \in Nat
  BY <1>1, <1>4, LiveMore
<1>7. Within(w, s, p + n)
  <2>1. \A o \in DOMAIN w : o + w[o] <= p + n
    BY <1>1, <1>2, <1>3 DEF Positive
  <2>2. \A i \in DOMAIN s : End(s[i]) <= p + n
    BY <1>1, <1>5 DEF Positive
  <2>3. QED
    BY <2>1, <2>2 DEF Within
<1>8. ASSUME Apart(m, s) PROVE Apart(w, s)
  <2>1. \A o, q \in DOMAIN w : o # q => Clear(o, w[o], q, w[q])
    BY <1>1, <1>2, <1>3, <1>8 DEF Apart, Clear
  <2>2. \A o \in DOMAIN w, i \in DOMAIN s : Clear(o, w[o], s[i].offset, s[i].length)
    BY <1>1, <1>2, <1>5, <1>8 DEF Apart, Clear
  <2>3. QED
    BY <1>8, <2>1, <2>2 DEF Apart
<1>9. /\ AtMost(m, s, p) => AtMost(w, s, p + n)
      /\ Counted(m, s, p) => Counted(w, s, p + n)
  <2>1. FreeSize(s) \in Nat
    BY <1>1, SizesNat
  <2>2. QED
    BY <1>1, <1>6, <2>1 DEF AtMost, Counted, Positive
<1>10. QED
  BY <1>1, <1>2, <1>7, <1>8, <1>9 DEF Typed

(* Of two blocks that share an offset and no byte, one is empty.           *)
LEMMA SharedOffset ==
  ASSUME NEW m, NEW s, NEW p, Typed(m, s, p), Apart(m, s), NEW i \in DOMAIN s,
         s[i].length > 0
  PROVE  Old(m, s[i].offset) = 0
<1>1. PICK o, n : o = s[i].offset /\ n = s[i].length
  OBVIOUS
<1>2. o \in Positive /\ n \in Nat /\ n > 0
  BY <1>1, LengthsTyped, BlockFields DEF Typed
<1>3. CASE o \in DOMAIN m
  <2>1. Clear(o, m[o], o, n) /\ m[o] \in Nat
    BY <1>1, <1>3 DEF Apart, Typed, LiveTyped
  <2>2. m[o] = 0
    BY <1>2, <2>1 DEF Clear, Positive
  <2>3. QED
    BY <1>1, <1>3, <2>2 DEF Old
<1>4. QED
  BY <1>1, <1>3 DEF Old

LEMMA BooksTakeExact ==
  ASSUME NEW m, NEW s, NEW p, Typed(m, s, p), Within(m, s, p), NEW i \in DOMAIN s,
         NEW w, w = With(m, s[i].offset, s[i].length), NEW t, t = SwapRemove(s, i)
  PROVE  /\ Typed(w, t, p) /\ Within(w, t, p)
         /\ Apart(m, s) => Apart(w, t)
         /\ AtMost(m, s, p) => AtMost(w, t, p)
         /\ Apart(m, s) /\ Counted(m, s, p) /\ Full(s) => Counted(w, t, p) /\ Full(t)
<1>1. LiveTyped(m) /\ s \in Seq(Blocks) /\ p \in Positive
  BY DEF Typed
<1>2. PICK o, n : o = s[i].offset /\ n = s[i].length
  OBVIOUS
<1>3. \A j \in DOMAIN s : /\ s[j].offset \in Positive /\ s[j].length \in Nat
                          /\ End(s[j]) = s[j].offset + s[j].length /\ End(s[j]) <= p
  BY <1>1, LengthsTyped, BlockFields DEF Within
<1>4. o \in Positive /\ n \in Nat /\ o + n <= p
  BY <1>2, <1>3
<1>5. /\ LiveTyped(w) /\ DOMAIN w = DOMAIN m \cup {o} /\ w[o] = n
      /\ \A x \in DOMAIN m : x # o => w[x] = m[x]
  <2>1. w = With(m, o, n) /\ o \in Positive /\ n \in Nat
    BY <1>2, <1>4
  <2>2. LiveTyped(w)
    BY <1>1, <2>1, WithTyped
  <2>3. DOMAIN w = DOMAIN m \cup {o} /\ w[o] = n /\ \A x \in DOMAIN m : x # o => w[x] = m[x]
    BY <2>1 DEF With
  <2>4. QED
    BY <2>2, <2>3
<1>6. \A x \in DOMAIN m : x \in Positive /\ m[x] \in Nat /\ x + m[x] <= p
  BY <1>1 DEF LiveTyped, Within
<1>7. t \in Seq(Blocks)
  BY <1>1, FreeLess
<1>8. /\ \A k \in DOMAIN t : From(s, i, k) \in DOMAIN s \ {i} /\ t[k] = s[From(s, i, k)]
      /\ \A k, l \in DOMAIN t : k # l => From(s, i, k) # From(s, i, l)
  BY <1>1, FreeLess
<1>9. FreeSize(t) = FreeSize(s) - n
  BY <1>1, <1>2, FreeLess
<1>10. Within(w, t, p)
  <2>1. \A x \in DOMAIN w : x + w[x] <= p
    BY <1>4, <1>5, <1>6
  <2>2. \A k \in DOMAIN t : End(t[k]) <= p
    BY <1>3, <1>8
  <2>3. QED
    BY <2>1, <2>2 DEF Within
<1>11. ASSUME Apart(m, s) PROVE Apart(w, t)
  <2>2. \A x \in DOMAIN m : Clear(x, m[x], o, n)
    BY <1>2, <1>11 DEF Apart
  <2>3. \A x, q \in DOMAIN w : x # q => Clear(x, w[x], q, w[q])
    BY <1>5, <1>11, <2>2 DEF Apart, Clear
  <2>4. \A j \in DOMAIN s \ {i} : Clear(o, n, s[j].offset, s[j].length)
    BY <1>2, <1>11 DEF Apart
  <2>5. \A x \in DOMAIN m, j \in DOMAIN s : Clear(x, m[x], s[j].offset, s[j].length)
    BY <1>11 DEF Apart
  <2>6. \A x \in DOMAIN w, j \in DOMAIN s \ {i} : Clear(x, w[x], s[j].offset, s[j].length)
    BY <1>5, <2>4, <2>5
  <2>7. \A x \in DOMAIN w, k \in DOMAIN t : Clear(x, w[x], t[k].offset, t[k].length)
    BY <1>8, <2>6
  <2>8. \A k, l \in DOMAIN t :
          k # l => Clear(t[k].offset, t[k].length, t[l].offset, t[l].length)
    <3>1. \A j, l \in DOMAIN s : j # l => Clear(s[j].offset, s[j].length, s[l].offset, s[l].length)
      BY <1>11 DEF Apart
    <3>2. QED
      BY <1>8, <3>1
  <2>9. QED
    BY <2>3, <2>7, <2>8 DEF Apart
<1>12. PICK old : old = Old(m, o)
  OBVIOUS
<1>13. FreeSize(t) + SumFunction(w) = FreeSize(s) + SumFunction(m) - old /\ old \in Nat
  <2>1. SumFunction(w) = SumFunction(m) - old + n /\ SumFunction(m) \in Nat /\ old \in Nat
    BY <1>1, <1>2, <1>4, <1>12, LiveMore
  <2>2. FreeSize(s) \in Nat
    BY <1>1, SizesNat
  <2>3. QED
    BY <1>4, <1>9, <2>1, <2>2
<1>14. FreeSize(s) \in Nat /\ SumFunction(m) \in Nat
  BY <1>1, SizesNat
<1>15. AtMost(m, s, p) => AtMost(w, t, p)
  BY <1>1, <1>13, <1>14 DEF AtMost, Positive
<1>16. ASSUME Apart(m, s), Counted(m, s, p), Full(s) PROVE Counted(w, t, p) /\ Full(t)
  <2>1. old = 0
    BY <1>2, <1>12, <1>16, SharedOffset DEF Full
  <2>2. Counted(w, t, p)
    BY <1>13, <1>14, <1>16, <2>1 DEF Counted
  <2>3. Full(t)
    BY <1>8, <1>16 DEF Full
  <2>4. QED
    BY <2>2, <2>3
<1>17. QED
  BY <1>1, <1>5, <1>7, <1>10, <1>11, <1>15, <1>16 DEF Typed

LEMMA BooksTakeFront ==
  ASSUME NEW m, NEW s, NEW p, Typed(m, s, p), Within(m, s, p), NEW i \in DOMAIN s,
         NEW n \in Nat, n < s[i].length,
         NEW w, w = With(m, s[i].offset, n),
         NEW t \in Seq(Blocks), DOMAIN t = DOMAIN s, \A j \in DOMAIN s \ {i} : t[j] = s[j],
         t[i] = MemoryBlock(s[i].offset + n, s[i].length - n)
  PROVE  /\ Typed(w, t, p) /\ Within(w, t, p)
         /\ Apart(m, s) => Apart(w, t)
         /\ Apart(m, s) /\ AtMost(m, s, p) => AtMost(w, t, p)
         /\ Apart(m, s) /\ Counted(m, s, p) => Counted(w, t, p)
         /\ Full(s) => Full(t)
<1>1. LiveTyped(m) /\ s \in Seq(Blocks) /\ p \in Positive
  BY DEF Typed
<1>2. PICK o, k : o = s[i].offset /\ k = s[i].length
  OBVIOUS
<1>3. \A j \in DOMAIN s : /\ s[j].offset \in Positive /\ s[j].length \in Nat
                          /\ End(s[j]) = s[j].offset + s[j].length /\ End(s[j]) <= p
  BY <1>1, LengthsTyped, BlockFields DEF Within
<1>4. /\ o \in Positive /\ k \in Nat /\ o + k <= p /\ n < k
      /\ o + n \in Positive /\ k - n \in Nat /\ k - n > 0
  <2>1. o \in Positive /\ k \in Nat /\ o + k <= p /\ n < k
    BY <1>2, <1>3
  <2>2. QED
    BY <2>1 DEF Positive
<1>5. PICK b \in Blocks : b = MemoryBlock(o + n, k - n) /\ b.offset = o + n /\ b.length = k - n
                         /\ End(b) = (o + n) + (k - n)
  BY <1>4, BlockMade
<1>6. t[i] = b
  BY <1>2, <1>5
<1>7. /\ LiveTyped(w) /\ DOMAIN w = DOMAIN m \cup {o} /\ w[o] = n
      /\ \A x \in DOMAIN m : x # o => w[x] = m[x]
  <2>1. w = With(m, o, n) /\ o \in Positive
    BY <1>2, <1>4
  <2>2. LiveTyped(w)
    BY <1>1, <2>1, WithTyped
  <2>3. DOMAIN w = DOMAIN m \cup {o} /\ w[o] = n /\ \A x \in DOMAIN m : x # o => w[x] = m[x]
    BY <2>1 DEF With
  <2>4. QED
    BY <2>2, <2>3
<1>8. \A x \in DOMAIN m : x \in Positive /\ m[x] \in Nat /\ x + m[x] <= p
  BY <1>1 DEF LiveTyped, Within
<1>9. /\ t \in Seq(Blocks) /\ DOMAIN t = DOMAIN s
      /\ t[i] = b /\ \A j \in DOMAIN s \ {i} : t[j] = s[j]
      /\ FreeSize(t) = FreeSize(s) - k + b.length
  <2>1. FreeSize(t) = FreeSize(s) - s[i].length + t[i].length
    BY <1>1, FreeChange
  <2>2. QED
    BY <1>2, <1>6, <2>1
<1>10. Within(w, t, p)
  <2>1. o + n <= p /\ End(b) <= p
    BY <1>1, <1>4, <1>5 DEF Positive
  <2>2. \A x \in DOMAIN w : x + w[x] <= p
    BY <1>7, <1>8, <2>1
  <2>3. \A j \in DOMAIN t : End(t[j]) <= p
    BY <1>3, <1>9, <2>1
  <2>4. QED
    BY <2>2, <2>3 DEF Within
<1>11. ASSUME Apart(m, s) PROVE Apart(w, t)
  <2>1. \A x \in DOMAIN m : Clear(x, m[x], o, k)
    BY <1>2, <1>11 DEF Apart
  <2>2. \A j \in DOMAIN s \ {i} : Clear(o, k, s[j].offset, s[j].length)
                               /\ Clear(s[j].offset, s[j].length, o, k)
    BY <1>2, <1>11 DEF Apart
  <2>4. \A q \in Positive, l \in Nat : Clear(q, l, o, k) =>
          Clear(q, l, o, n) /\ Clear(o, n, q, l) /\ Clear(q, l, o + n, k - n)
    BY <1>4 DEF Clear, Positive
  <2>5. \A q \in Positive, l \in Nat : Clear(o, k, q, l) =>
          Clear(o, n, q, l) /\ Clear(o + n, k - n, q, l) /\ Clear(q, l, o + n, k - n)
    BY <1>4 DEF Clear, Positive
  <2>6. \A x, q \in DOMAIN w : x # q => Clear(x, w[x], q, w[q])
    <3>1. \A x \in DOMAIN m : Clear(x, m[x], o, n) /\ Clear(o, n, x, m[x])
      BY <1>8, <2>1, <2>4
    <3>2. \A x, q \in DOMAIN m : x # q => Clear(x, m[x], q, m[q])
      BY <1>11 DEF Apart
    <3>3. QED
      BY <1>7, <3>1, <3>2
  <2>7. \A x \in DOMAIN w, j \in DOMAIN t : Clear(x, w[x], t[j].offset, t[j].length)
    <3>1. \A x \in DOMAIN m : Clear(x, m[x], b.offset, b.length)
      BY <1>5, <1>8, <2>1, <2>4
    <3>2. \A x \in DOMAIN m, j \in DOMAIN s : Clear(x, m[x], s[j].offset, s[j].length)
      BY <1>11 DEF Apart
    <3>3. \A j \in DOMAIN s \ {i} : Clear(o, n, s[j].offset, s[j].length)
      BY <1>3, <2>2, <2>5
    <3>4. Clear(o, n, b.offset, b.length)
      BY <1>4, <1>5 DEF Clear, Positive
    <3>5. QED
      BY <1>7, <1>9, <3>1, <3>2, <3>3, <3>4
  <2>8. \A j, l \in DOMAIN t :
          j # l => Clear(t[j].offset, t[j].length, t[l].offset, t[l].length)
    <3>1. \A j, l \in DOMAIN s : j # l => Clear(s[j].offset, s[j].length, s[l].offset, s[l].length)
      BY <1>11 DEF Apart
    <3>2. \A j \in DOMAIN s \ {i} : /\ Clear(b.offset, b.length, s[j].offset, s[j].length)
                                 /\ Clear(s[j].offset, s[j].length, b.offset, b.length)
      BY <1>3, <1>5, <2>2, <2>5
    <3>3. QED
      BY <1>9, <3>1, <3>2
  <2>9. QED
    BY <2>6, <2>7, <2>8 DEF Apart
<1>12. ASSUME Apart(m, s) PROVE FreeSize(t) + SumFunction(w) = FreeSize(s) + SumFunction(m)
  <2>1. Old(m, o) = 0
    BY <1>2, <1>4, <1>12, SharedOffset
  <2>2. w = With(m, o, n)
    BY <1>2
  <2>3. SumFunction(w) = SumFunction(m) - Old(m, o) + n /\ SumFunction(m) \in Nat
    BY <1>1, <1>4, <2>2, LiveMore
  <2>4. FreeSize(s) \in Nat
    BY <1>1, SizesNat
  <2>5. b.length = k - n
    BY <1>5
  <2>6. QED
    BY <1>4, <1>9, <2>1, <2>3, <2>4, <2>5
<1>13. ASSUME Full(s) PROVE Full(t)
  BY <1>4, <1>5, <1>9, <1>13 DEF Full
<1>14. QED
  BY <1>1, <1>7, <1>9, <1>10, <1>11, <1>12, <1>13 DEF Typed, AtMost, Counted

Pushed(s, o, n) == Append(s, MemoryBlock(o, n))

LEMMA BooksFree ==
  ASSUME NEW m, NEW s, NEW p, Typed(m, s, p), Within(m, s, p), NEW o \in DOMAIN m,
         NEW w, w = Dropped(m, o), NEW t, t = Pushed(s, o, m[o])
  PROVE  /\ Typed(w, t, p) /\ Within(w, t, p)
         /\ Apart(m, s) => Apart(w, t)
         /\ AtMost(m, s, p) => AtMost(w, t, p)
         /\ Counted(m, s, p) => Counted(w, t, p)
         /\ Full(s) /\ m[o] # 0 => Full(t)
<1>1. LiveTyped(m) /\ s \in Seq(Blocks) /\ p \in Positive
  BY DEF Typed
<1>2. \A x \in DOMAIN m : x \in Positive /\ m[x] \in Nat /\ x + m[x] <= p
  BY <1>1 DEF LiveTyped, Within
<1>3. PICK n : n = m[o]
  OBVIOUS
<1>4. PICK b \in Blocks : b = MemoryBlock(o, n) /\ b.offset = o /\ b.length = n /\ End(b) = o + n
  BY <1>2, <1>3, BlockMade
<1>5. /\ LiveTyped(w) /\ DOMAIN w = DOMAIN m \ {o} /\ \A x \in DOMAIN w : w[x] = m[x]
  <2>1. LiveTyped(w) /\ (\A x : x \in DOMAIN w <=> x \in DOMAIN m /\ x # o)
        /\ \A x \in DOMAIN w : w[x] = m[x]
    BY <1>1, WithoutTyped
  <2>2. QED
    BY <2>1
<1>6. PICK k : k = Len(s) + 1
  OBVIOUS
<1>7. /\ t \in Seq(Blocks) /\ DOMAIN t = DOMAIN s \cup {k} /\ k \notin DOMAIN s
      /\ t[k] = b /\ \A i \in DOMAIN s : t[i] = s[i]
      /\ FreeSize(t) = FreeSize(s) + n
  BY <1>1, <1>3, <1>4, <1>6, FreeAppend DEF Pushed
<1>8. Within(w, t, p)
  <2>1. \A x \in DOMAIN w : x + w[x] <= p
    BY <1>2, <1>5
  <2>2. \A i \in DOMAIN t : End(t[i]) <= p
    BY <1>2, <1>3, <1>4, <1>7 DEF Within
  <2>3. QED
    BY <2>1, <2>2 DEF Within
<1>9. ASSUME Apart(m, s) PROVE Apart(w, t)
  <2>1. /\ \A x, q \in DOMAIN m : x # q => Clear(x, m[x], q, m[q])
        /\ \A i, j \in DOMAIN s :
             i # j => Clear(s[i].offset, s[i].length, s[j].offset, s[j].length)
        /\ \A x \in DOMAIN m, i \in DOMAIN s : Clear(x, m[x], s[i].offset, s[i].length)
    BY <1>9 DEF Apart
  <2>2. \A x, q \in DOMAIN w : x # q => Clear(x, w[x], q, w[q])
    BY <1>5, <2>1
  <2>3. \A i \in DOMAIN s : /\ Clear(b.offset, b.length, s[i].offset, s[i].length)
                            /\ Clear(s[i].offset, s[i].length, b.offset, b.length)
    BY <1>3, <1>4, <2>1 DEF Clear
  <2>4. \A i, j \in DOMAIN t :
          i # j => Clear(t[i].offset, t[i].length, t[j].offset, t[j].length)
    BY <1>7, <2>1, <2>3
  <2>5. \A x \in DOMAIN w : Clear(x, w[x], b.offset, b.length)
    BY <1>3, <1>4, <1>5, <2>1
  <2>6. \A x \in DOMAIN w, i \in DOMAIN t : Clear(x, w[x], t[i].offset, t[i].length)
    BY <1>5, <1>7, <2>1, <2>5
  <2>7. QED
    BY <2>2, <2>4, <2>6 DEF Apart
<1>10. FreeSize(t) + SumFunction(w) = FreeSize(s) + SumFunction(m)
  <2>1. SumFunction(m) = SumFunction(w) + n
    BY <1>1, <1>3, LiveLess
  <2>2. FreeSize(s) \in Nat /\ SumFunction(w) \in Nat /\ n \in Nat
    BY <1>1, <1>2, <1>3, <1>5, SizesNat
  <2>3. QED
    BY <1>7, <2>1, <2>2
<1>11. ASSUME Full(s), m[o] # 0 PROVE Full(t)
  <2>1. b.length > 0
    BY <1>2, <1>3, <1>4, <1>11
  <2>2. QED
    BY <1>7, <1>11, <2>1 DEF Full
<1>12. QED
  BY <1>1, <1>5, <1>7, <1>8, <1>9, <1>10, <1>11 DEF Typed, AtMost, Counted

-----------------------------------------------------------------------------
(* The compaction: its loop is a recursion over the list.                  *)
Merge(s, f, k) ==
  IF k = 1 THEN <<s[1]>>
  ELSE IF End(s[k - 1]) = s[k].offset
    THEN Append(f[k - 1], MemoryBlock(s[k - 1].offset, s[k - 1].length + s[k].length))
    ELSE f[k - 1]

Merges(f, s) == f = [k \in DOMAIN s |-> Merge(s, f, k)]
Merged(s) == CHOOSE f : Merges(f, s)

LEMMA CompactIs ==
  ASSUME NEW s
  PROVE  Compact(s) = Merged(s)[Len(s)]
BY DEF Compact, Merged, Merges, Merge

(* There is such a function: one for the first n blocks, for every n.      *)
LEMMA MergedExists ==
  ASSUME NEW s \in Seq(Blocks)
  PROVE  Merges(Merged(s), s)
<1> DEFINE Good(n) == \E f : f = [k \in 1 .. n |-> Merge(s, f, k)]
           Bad == {n \in Nat : ~Good(n)}
<1>1. Good(0)
  <2>1. PICK f : f = <<>>
    OBVIOUS
  <2>2. f = [k \in 1 .. 0 |-> Merge(s, f, k)]
    BY <2>1
  <2>3. QED
    BY <2>2
<1>2. ASSUME NEW n \in Nat, Good(n) PROVE Good(n + 1)
  <2>1. PICK f : f = [k \in 1 .. n |-> Merge(s, f, k)]
    BY <1>2
  <2> DEFINE g == [k \in 1 .. n + 1 |-> Merge(s, f, k)]
  <2>2. ASSUME NEW k \in 1 .. n PROVE f[k] = Merge(s, f, k) /\ g[k] = f[k]
    <3>1. f[k] = Merge(s, f, k)
      BY <2>1
    <3>2. k \in 1 .. n + 1
      OBVIOUS
    <3>3. g[k] = Merge(s, f, k)
      BY ONLY <3>2
    <3>4. QED
      BY ONLY <3>1, <3>3
  <2>3. ASSUME NEW k \in 1 .. n + 1 PROVE Merge(s, f, k) = Merge(s, g, k)
    <3>1. CASE k = 1
      BY <3>1 DEF Merge
    <3>2. CASE k # 1
      <4>1. k - 1 \in 1 .. n
        BY <3>2
      <4>2. g[k - 1] = f[k - 1]
        BY <2>2, <4>1
      <4> HIDE DEF g
      <4>3. QED
        BY <4>2 DEF Merge
    <3>3. QED
      BY <3>1, <3>2
  <2>4. g = [k \in 1 .. n + 1 |-> Merge(s, g, k)]
    BY <2>3
  <2> HIDE DEF g
  <2>5. QED
    BY <2>4
<1>3. Bad = {}
  <2>1. SUFFICES ASSUME Bad # {} PROVE FALSE
    OBVIOUS
  <2>2. Bad \in SUBSET Nat
    OBVIOUS
  <2> HIDE DEF Good
  <2>3. PICK m \in Bad : \A n \in Bad : m <= n
    BY <2>1, <2>2, LeastNumber
  <2>4. m \in Nat /\ m # 0
    BY <1>1, <2>3
  <2>5. m - 1 \in Nat /\ m - 1 \notin Bad
    BY <2>3, <2>4
  <2>6. Good(m)
    BY <2>4, <2>5, <1>2
  <2>7. QED
    BY <2>3, <2>6
<1>4. Good(Len(s)) /\ DOMAIN s = 1 .. Len(s)
  <2>1. Len(s) \in Nat /\ DOMAIN s = 1 .. Len(s)
    BY LengthsTyped
  <2> HIDE DEF Good
  <2>2. QED
    BY <1>3, <2>1
<1>5. PICK f : Merges(f, s)
  BY <1>4 DEF Merges
<1>6. QED
  BY <1>5 DEF Merged

(* The union of two blocks ends where the second does.                     *)
LEMMA CompactWithin ==
  ASSUME NEW p \in Positive, NEW s \in Seq(Blocks), Len(s) # 0,
         \A i \in DOMAIN s : End(s[i]) <= p
  PROVE  Compact(s) \in Seq(Blocks) /\ \A i \in DOMAIN Compact(s) : End(Compact(s)[i]) <= p
<1> DEFINE Low == {b \in Blocks : End(b) <= p}
           f == Merged(s)
           Bad == {n \in DOMAIN s : f[n] \notin Seq(Low)}
<1>1. Len(s) \in Nat /\ DOMAIN s = 1 .. Len(s) /\ \A i \in DOMAIN s : s[i] \in Low
  BY LengthsTyped
<1>2. \A k \in DOMAIN s : f[k] = Merge(s, f, k)
  BY MergedExists DEF Merges
<1>3. f[1] \in Seq(Low)
  <2>1. 1 \in DOMAIN s /\ s[1] \in Low
    BY <1>1
  <2>2. f[1] = <<s[1]>>
    BY <1>2, <2>1 DEF Merge
  <2> HIDE DEF f, Low
  <2>3. QED
    BY <2>1, <2>2
<1>4. ASSUME NEW k \in DOMAIN s, k # 1, f[k - 1] \in Seq(Low) PROVE f[k] \in Seq(Low)
  <2>1. PICK b, c : b = s[k - 1] /\ c = s[k]
    OBVIOUS
  <2>2. b \in Low /\ c \in Low
    BY <1>1, <1>4, <2>1
  <2>3. f[k] = IF End(b) = c.offset
                 THEN Append(f[k - 1], MemoryBlock(b.offset, b.length + c.length))
                 ELSE f[k - 1]
    BY <1>2, <1>4, <2>1 DEF Merge
  <2>4. CASE End(b) = c.offset
    <3>1. /\ b.offset \in Positive /\ b.length \in Nat /\ End(b) = b.offset + b.length
          /\ c.offset \in Positive /\ c.length \in Nat /\ End(c) = c.offset + c.length
          /\ End(c) <= p
      BY <2>2, BlockFields
    <3>2. b.length + c.length \in Nat
      BY <3>1
    <3>3. PICK u \in Blocks : /\ u = MemoryBlock(b.offset, b.length + c.length)
                             /\ End(u) = b.offset + (b.length + c.length)
      <4>1. PICK o \in Positive, n \in Nat : o = b.offset /\ n = b.length + c.length
        BY <3>1, <3>2
      <4>2. MemoryBlock(o, n) \in Blocks /\ End(MemoryBlock(o, n)) = o + n
        BY <4>1, BlockMade
      <4>3. QED
        BY <4>1, <4>2
    <3>4. End(u) = End(c)
      <4>1. \A x \in Positive, y, z \in Nat : x + (y + z) = (x + y) + z
        BY DEF Positive
      <4>2. b.offset + (b.length + c.length) = (b.offset + b.length) + c.length
        BY <3>1, <4>1
      <4>3. QED
        BY <2>4, <3>1, <3>3, <4>2
    <3>5. u \in Low
      BY <3>1, <3>3, <3>4
    <3>6. PICK before, L : before = f[k - 1] /\ L = Low
      OBVIOUS
    <3>7. f[k] = Append(before, u)
      BY <2>3, <2>4, <3>3, <3>6
    <3>8. Append(before, u) \in Seq(L)
      <4>1. before \in Seq(L) /\ u \in L
        BY <1>4, <3>5, <3>6
      <4> HIDE DEF f, Low
      <4>2. QED
        BY <4>1, AppendProperties
    <3>9. QED
      BY <3>6, <3>7, <3>8
  <2>5. CASE End(b) # c.offset
    BY <1>4, <2>3, <2>5
  <2>6. QED
    BY <2>4, <2>5
<1> HIDE DEF f, Low
<1>5. Bad = {}
  <2>1. SUFFICES ASSUME Bad # {} PROVE FALSE
    OBVIOUS
  <2>2. Bad \in SUBSET Nat
    BY <1>1
  <2>3. PICK m \in Bad : \A n \in Bad : m <= n
    BY <2>1, <2>2, LeastNumber
  <2>4. m \in DOMAIN s /\ m # 1
    BY <1>3, <2>3
  <2>5. m - 1 \in DOMAIN s /\ m - 1 < m
    BY <1>1, <2>4
  <2>6. m - 1 \notin Bad
    BY <1>1, <2>3, <2>4, <2>5
  <2>7. QED
    BY <1>4, <2>3, <2>4, <2>5, <2>6
<1>6. PICK c : c = Compact(s)
  OBVIOUS
<1>7. c \in Seq(Low)
  <2>1. Len(s) \in DOMAIN s
    BY <1>1
  <2>2. QED
    BY <1>5, <1>6, <2>1, CompactIs DEF f
<1>8. \A i \in DOMAIN c : c[i] \in Low
  BY <1>7, ElementOfSeq
<1>9. c \in Seq(Blocks)
  <2>1. Low \subseteq Blocks
    BY DEF Low
  <2>2. QED
    BY <1>7, <2>1, SeqMonotonic
<1>10. QED
  BY <1>6, <1>8, <1>9 DEF Low

-----------------------------------------------------------------------------
(* The inductive invariant: the books are typed and stay below position,   *)
(* position stays inside the memory; until a compaction no two ranges      *)
(* share a byte, and they have no more bytes than there are below position,*)
(* exactly as many if no empty block was freed: only such a block is empty *)
(* in the free list, and only it can be given out at a live offset.        *)
Books(m, s, p, e) ==
  Apart(m, s) /\ AtMost(m, s, p) /\ (~e => Counted(m, s, p) /\ Full(s))

CustomMemoryInv ==
  /\ Typed(live, free, position) /\ Within(live, free, position)
  /\ pages \in Nat /\ compacted \in BOOLEAN /\ emptied \in BOOLEAN
  /\ position <= MemorySize
  /\ ~compacted => Books(live, free, position, emptied)

LEMMA EmptyBooks ==
  /\ Typed(NoLive, <<>>, 1) /\ Within(NoLive, <<>>, 1)
  /\ Books(NoLive, <<>>, 1, FALSE)
<1>1. DOMAIN NoLive = {} /\ DOMAIN <<>> = {} /\ <<>> \in Seq(Blocks) /\ 1 \in Positive
  BY DEF NoLive, Positive
<1>2. LiveTyped(NoLive)
  BY <1>1, FS_EmptySet DEF LiveTyped, NoLive
<1>3. SumFunction(NoLive) = 0
  BY <1>1, SumEmpty DEF SumFunction
<1>4. FreeSize(<<>>) = 0
  BY <1>1, FreeSizeIs, SumEmpty
<1>5. QED
  BY <1>1, <1>2, <1>3, <1>4 DEF Typed, Within, Books, Apart, AtMost, Counted, Full

LEMMA InitGood ==
  ASSUME Init
  PROVE  CustomMemoryInv
<1>1. position <= MemorySize
  <2>1. \A a, b \in Positive : 1 <= a * b
    BY DEF Positive
  <2>2. QED
    BY <2>1, CustomMemoryAssumption DEF Init, MemorySize, Positive
<1>2. QED
  BY <1>1, EmptyBooks, CustomMemoryAssumption DEF Init, CustomMemoryInv

LEMMA SameGood ==
  ASSUME CustomMemoryInv, UNCHANGED vars
  PROVE  CustomMemoryInv'
<1>1. /\ live' = live /\ free' = free /\ position' = position /\ pages' = pages
      /\ compacted' = compacted /\ emptied' = emptied /\ MemorySize' = MemorySize
  BY DEF vars, MemorySize
<1>2. QED
  BY <1>1 DEF CustomMemoryInv

(* The free list gives the front of a block away only if a rest remains.   *)
LEMMA AllocFreeGood ==
  ASSUME CustomMemoryInv, NEW n \in Requests, AllocFree(n)
  PROVE  CustomMemoryInv'
<1>1. PICK i \in DOMAIN free : FirstUsable(i, n) /\ (TakeExact(i, n) \/ TakeFront(i, n))
  BY DEF AllocFree
<1>2. UNCHANGED <<position, pages, compacted, emptied>> /\ MemorySize' = MemorySize
  BY DEF AllocFree, MemorySize
<1>3. /\ Typed(live, free, position) /\ Within(live, free, position)
      /\ emptied \in BOOLEAN
  BY DEF CustomMemoryInv
<1>4. n \in Nat /\ Threshold \in Positive
  BY CustomMemoryAssumption DEF Positive
<1>5. free[i].offset \in Positive /\ free[i].length \in Nat
  BY <1>3, LengthsTyped, BlockFields DEF Typed
<1>6. /\ Typed(live', free', position) /\ Within(live', free', position)
      /\ Books(live, free, position, emptied) => Books(live', free', position, emptied)
  <2>1. CASE TakeExact(i, n)
    <3>1. /\ live' = With(live, free[i].offset, free[i].length)
          /\ free' = SwapRemove(free, i)
      BY <2>1 DEF TakeExact, MakeLive, With
    <3>2. /\ Typed(live', free', position) /\ Within(live', free', position)
          /\ Apart(live, free) => Apart(live', free')
          /\ AtMost(live, free, position) => AtMost(live', free', position)
          /\ Apart(live, free) /\ Counted(live, free, position) /\ Full(free)
               => Counted(live', free', position) /\ Full(free')
      BY <1>3, <3>1, BooksTakeExact
    <3>3. QED
      BY <3>2 DEF Books
  <2>2. CASE TakeFront(i, n)
    <3>1. n < free[i].length
      BY <1>1, <1>4, <1>5, <2>2 DEF FirstUsable, Usable, TakeFront, Positive
    <3>2. live' = With(live, free[i].offset, n)
      <4>1. /\ MemoryBlock(free[i].offset, n).offset = free[i].offset
            /\ MemoryBlock(free[i].offset, n).length = n
        BY <1>4, <1>5, BlockMade
      <4>2. QED
        BY <2>2, <4>1 DEF TakeFront, MakeLive, With
    <3>3. /\ free' \in Seq(Blocks) /\ DOMAIN free' = DOMAIN free
          /\ \A j \in DOMAIN free \ {i} : free'[j] = free[j]
          /\ free'[i] = MemoryBlock(free[i].offset + n, free[i].length - n)
      <4>1. PICK b : b = MemoryBlock(free[i].offset + n, free[i].length - n)
        OBVIOUS
      <4>2. b \in Blocks
        <5>1. \A o \in Positive, k, l \in Nat : k < l => o + k \in Positive /\ l - k \in Nat
          BY DEF Positive
        <5>2. free[i].offset + n \in Positive /\ free[i].length - n \in Nat
          BY <1>4, <1>5, <3>1, <5>1
        <5>3. QED
          BY <4>1, <5>2, BlockMade
      <4>3. free' = [free EXCEPT ![i] = b]
        BY <2>2, <4>1 DEF TakeFront
      <4>4. free \in Seq(Blocks) /\ i \in 1 .. Len(free) /\ DOMAIN free = 1 .. Len(free)
        BY <1>3, LengthsTyped DEF Typed
      <4>5. free' \in Seq(Blocks)
        BY <4>2, <4>3, <4>4, ExceptSeq
      <4>6. /\ DOMAIN free' = DOMAIN free /\ free'[i] = b
            /\ \A j \in DOMAIN free \ {i} : free'[j] = free[j]
        BY <4>3, <4>4
      <4>7. QED
        BY <4>1, <4>5, <4>6
    <3>4. /\ Typed(live', free', position) /\ Within(live', free', position)
          /\ Apart(live, free) => Apart(live', free')
          /\ Apart(live, free) /\ AtMost(live, free, position)
               => AtMost(live', free', position)
          /\ Apart(live, free) /\ Counted(live, free, position)
               => Counted(live', free', position)
          /\ Full(free) => Full(free')
      BY <1>3, <1>4, <3>1, <3>2, <3>3, BooksTakeFront
    <3>5. QED
      BY <3>4 DEF Books
  <2>3. QED
    BY <1>1, <2>1, <2>2
<1>7. QED
  BY <1>2, <1>6 DEF CustomMemoryInv

(* What a growth adds is never less than what was missing.                 *)
LEMMA PagesEnough ==
  ASSUME NEW n \in Nat, position \in Positive, pages \in Nat, NeedsGrowth(n)
  PROVE  PagesNeeded(n) \in Nat /\ position + n <= (pages + PagesNeeded(n)) * PageSize
<1>1. PICK size, a : size = MemorySize /\ a = position + n
  OBVIOUS
<1>2. PageSize \in Positive /\ size \in Nat /\ a \in Nat /\ size <= a
  <2>1. \A q, r \in Nat : q * r \in Nat
    OBVIOUS
  <2>2. PageSize \in Positive /\ MemorySize \in Nat
    BY <2>1, CustomMemoryAssumption DEF MemorySize, Positive
  <2>3. QED
    BY <1>1, <2>2 DEF NeedsGrowth, Positive
<1>3. PICK ceil : ceil = (position + n - MemorySize + PageSize - 1) \div PageSize
  OBVIOUS
<1>4. ceil \in Nat /\ a - size <= ceil * PageSize
  <2>1. \A x \in Nat, d \in Positive :
          (x + d - 1) \div d \in Nat /\ x <= ((x + d - 1) \div d) * d
    <3>1. SUFFICES ASSUME NEW x \in Nat, NEW d \in Positive
                   PROVE  (x + d - 1) \div d \in Nat /\ x <= ((x + d - 1) \div d) * d
      OBVIOUS
    <3>2. PICK y \in Nat : y = x + d - 1
      BY DEF Positive
    <3>3. y \div d \in Nat /\ y = d * (y \div d) + (y % d) /\ y % d < d /\ y % d \in Nat
      BY <3>2 DEF Positive
    <3>4. PICK q, r \in Nat : q = y \div d /\ r = y % d
      BY <3>3
    <3>5. y = d * q + r /\ r < d
      BY <3>3, <3>4
    <3>6. PICK z \in Nat : z = d * q /\ z = q * d
      BY DEF Positive
    <3>7. x <= z
      BY <3>2, <3>5, <3>6 DEF Positive
    <3>8. QED
      BY <3>2, <3>3, <3>4, <3>6, <3>7
  <2>2. PICK x \in Nat : x = a - size
    BY <1>2
  <2>3. ceil = (x + PageSize - 1) \div PageSize
    <3>1. position + n - MemorySize = x
      BY <1>1, <1>2, <2>2 DEF Positive
    <3>2. QED
      BY <1>3, <3>1
  <2>4. QED
    BY <1>2, <2>1, <2>2, <2>3
<1>5. PagesNeeded(n) = IF ceil = 0 THEN 1 ELSE ceil
  BY <1>3 DEF PagesNeeded
<1>6. PICK more \in Nat : more = PagesNeeded(n) /\ a - size <= more * PageSize
  <2>1. 1 * PageSize = PageSize /\ 0 * PageSize = 0
    BY <1>2 DEF Positive
  <2>2. QED
    BY <1>2, <1>4, <1>5, <2>1 DEF Positive
<1>7. (pages + more) * PageSize = size + more * PageSize
  <2>1. \A q, r, d \in Nat : (q + r) * d = q * d + r * d
    OBVIOUS
  <2>2. QED
    BY <1>1, <1>2, <1>6, <2>1 DEF MemorySize, Positive
<1>8. more * PageSize \in Nat
  <2>1. \A q, r \in Nat : q * r \in Nat
    OBVIOUS
  <2>2. QED
    BY <1>2, <2>1 DEF Positive
<1>9. QED
  BY <1>1, <1>2, <1>6, <1>7, <1>8

LEMMA AllocEndGood ==
  ASSUME CustomMemoryInv, NEW n \in Requests, AllocBump(n) \/ AllocGrow(n)
  PROVE  CustomMemoryInv'
<1>1. n \in Nat
  BY CustomMemoryAssumption
<1>2. /\ Typed(live, free, position) /\ Within(live, free, position)
      /\ position \in Positive /\ pages \in Nat
  BY DEF CustomMemoryInv, Typed
<1>3. /\ live' = With(live, position, n) /\ free' = free /\ position' = position + n
      /\ compacted' = compacted /\ emptied' = emptied
  <2>1. MemoryBlock(position, n).offset = position /\ MemoryBlock(position, n).length = n
    BY <1>1, <1>2, BlockMade
  <2>2. QED
    BY <2>1 DEF AllocBump, AllocGrow, Place, MakeLive, With
<1>4. /\ Typed(live', free', position') /\ Within(live', free', position')
      /\ Books(live, free, position, emptied) => Books(live', free', position', emptied)
  <2>1. /\ Typed(live', free, position + n) /\ Within(live', free, position + n)
        /\ Apart(live, free) => Apart(live', free)
        /\ AtMost(live, free, position) => AtMost(live', free, position + n)
        /\ Counted(live, free, position) => Counted(live', free, position + n)
    BY <1>1, <1>2, <1>3, BooksBump
  <2>2. QED
    BY <1>3, <2>1 DEF Books
<1>5. pages' \in Nat /\ position' <= MemorySize'
  <2>1. CASE AllocBump(n)
    <3>1. pages' = pages /\ ~(position + n >= MemorySize)
      BY <2>1 DEF AllocBump, NeedsGrowth
    <3>2. MemorySize' = MemorySize /\ MemorySize \in Nat /\ position + n \in Nat
      <4>1. \A q, r \in Nat : q * r \in Nat
        OBVIOUS
      <4>2. QED
        BY <1>1, <1>2, <3>1, <4>1, CustomMemoryAssumption DEF MemorySize, Positive
    <3>3. QED
      BY <1>2, <1>3, <3>1, <3>2
  <2>2. CASE AllocGrow(n)
    <3>1. pages' = pages + PagesNeeded(n) /\ NeedsGrowth(n)
      BY <2>2 DEF AllocGrow
    <3>2. PagesNeeded(n) \in Nat /\ position + n <= (pages + PagesNeeded(n)) * PageSize
      BY <1>1, <1>2, <3>1, PagesEnough
    <3>3. QED
      BY <1>2, <1>3, <3>1, <3>2 DEF MemorySize
  <2>3. QED
    BY <2>1, <2>2
<1>6. QED
  BY <1>3, <1>4, <1>5 DEF CustomMemoryInv

LEMMA AllocGood ==
  ASSUME CustomMemoryInv, NEW n \in Requests, Alloc(n)
  PROVE  CustomMemoryInv'
<1>1. AllocFails(n) => UNCHANGED vars
  BY DEF AllocFails
<1>2. QED
  BY <1>1, AllocFreeGood, AllocEndGood, SameGood DEF Alloc

(* A compaction may lose bytes and give some out twice, but nothing lies   *)
(* beyond position.                                                        *)
LEMMA FreeGood ==
  ASSUME CustomMemoryInv, NEW o \in DOMAIN live, Free(o)
  PROVE  CustomMemoryInv'
<1>1. PICK pushed, full, empty : /\ pushed = Append(free, MemoryBlock(o, live[o]))
                                 /\ full = (FreeSize(pushed) >= CompactAt)
                                 /\ empty = (live[o] = 0)
  OBVIOUS
<1>2. /\ live' = Dropped(live, o) /\ free' = IF full THEN Compact(pushed) ELSE pushed
      /\ compacted' = (compacted \/ full) /\ emptied' = (emptied \/ empty)
      /\ UNCHANGED <<position, pages>>
  BY <1>1 DEF Free, Dropped
<1>3. /\ Typed(live, free, position) /\ Within(live, free, position)
      /\ compacted \in BOOLEAN /\ emptied \in BOOLEAN
      /\ full \in BOOLEAN /\ empty \in BOOLEAN
  BY <1>1 DEF CustomMemoryInv
<1>4. /\ Typed(live', pushed, position) /\ Within(live', pushed, position)
      /\ Books(live, free, position, emptied)
           => Books(live', pushed, position, emptied \/ empty)
  <2>1. live' = Dropped(live, o) /\ pushed = Append(free, MemoryBlock(o, live[o]))
    BY <1>1, <1>2
  <2>2. PICK m, s, p, w : m = live /\ s = free /\ p = position /\ w = live'
    OBVIOUS
  <2>3. Typed(m, s, p) /\ Within(m, s, p) /\ o \in DOMAIN m /\ w = Dropped(m, o)
    BY <1>3, <2>1, <2>2
  <2>4. pushed = Pushed(s, o, m[o])
    BY <2>1, <2>2 DEF Pushed
  <2>5. /\ Typed(w, pushed, p) /\ Within(w, pushed, p)
        /\ Apart(m, s) => Apart(w, pushed)
        /\ AtMost(m, s, p) => AtMost(w, pushed, p)
        /\ Counted(m, s, p) => Counted(w, pushed, p)
        /\ Full(s) /\ m[o] # 0 => Full(pushed)
    BY <2>3, <2>4, BooksFree
  <2>6. ~empty => m[o] # 0
    BY <1>1, <2>2
  <2>7. Books(m, s, p, emptied) => Books(w, pushed, p, emptied \/ empty)
    BY <2>5, <2>6 DEF Books
  <2>8. QED
    BY <2>2, <2>5, <2>7
<1>5. MemorySize' = MemorySize
  BY <1>2 DEF MemorySize
<1>6. CASE ~full
  <2>1. free' = pushed /\ compacted' = compacted /\ emptied' = (emptied \/ empty)
    BY <1>2, <1>3, <1>6
  <2>2. QED
    BY <1>2, <1>4, <1>5, <2>1 DEF CustomMemoryInv
<1>7. CASE full
  <2>1. free' = Compact(pushed) /\ compacted' = TRUE /\ emptied' \in BOOLEAN
    BY <1>2, <1>3, <1>7
  <2>2. pushed \in Seq(Blocks) /\ Len(pushed) # 0 /\ position \in Positive
    <3>1. free \in Seq(Blocks) /\ pushed \in Seq(Blocks) /\ position \in Positive
      BY <1>3, <1>4 DEF Typed
    <3>2. live[o] \in Nat /\ o \in Positive
      BY <1>3 DEF Typed, LiveTyped
    <3>3. Len(pushed) = Len(free) + 1 /\ Len(free) \in Nat
      BY <1>1, <3>1, <3>2, BlockMade, AppendProperties, LengthsTyped
    <3>4. QED
      BY <3>1, <3>3
  <2>3. free' \in Seq(Blocks) /\ \A i \in DOMAIN free' : End(free'[i]) <= position
    BY <1>4, <2>1, <2>2, CompactWithin DEF Within
  <2>4. Typed(live', free', position) /\ Within(live', free', position)
    BY <1>4, <2>3 DEF Typed, Within
  <2>5. QED
    BY <1>2, <1>5, <2>1, <2>4 DEF CustomMemoryInv
<1>8. QED
  BY <1>3, <1>6, <1>7

LEMMA ResetGood ==
  ASSUME CustomMemoryInv, Reset
  PROVE  CustomMemoryInv'
<1>1. 1 <= MemorySize /\ MemorySize' = MemorySize
  <2>1. \A q, r \in Nat : q * r \in Nat
    OBVIOUS
  <2>2. MemorySize \in Nat /\ position \in Positive /\ position <= MemorySize
    BY <2>1, CustomMemoryAssumption DEF CustomMemoryInv, MemorySize, Typed
  <2>3. MemorySize' = MemorySize
    BY DEF Reset, MemorySize
  <2>4. QED
    BY <2>2, <2>3 DEF Positive
<1>2. QED
  BY <1>1, EmptyBooks DEF Reset, CustomMemoryInv

(* The inductive invariant of the allocator.                               *)
THEOREM CustomMemorySafe == Spec => []CustomMemoryInv
<1>1. ASSUME CustomMemoryInv, [Next]_vars PROVE CustomMemoryInv'
  BY <1>1, AllocGood, FreeGood, ResetGood, SameGood DEF Next
<1>2. Init => CustomMemoryInv
  BY InitGood
<1>3. QED
  BY <1>1, <1>2, PTL DEF Spec

(* Offsets are positive and lengths natural numbers, whatever was split,   *)
(* merged or asked for.                                                    *)
THEOREM CustomMemoryTyped == Spec => []TypeOK
<1>1. CustomMemoryInv => TypeOK
  BY DEF CustomMemoryInv, TypeOK, Typed, LiveTyped, Blocks, Positive
<1>2. QED
  BY <1>1, CustomMemorySafe, PTL

(* Every block handed out or kept lies below position, and position inside *)
(* the guest's memory, for every page size and every request.              *)
THEOREM CustomMemoryWithin == Spec => []BlocksInMemory
<1>1. CustomMemoryInv => BlocksInMemory
  BY DEF CustomMemoryInv, BlocksInMemory, Within
<1>2. QED
  BY <1>1, CustomMemorySafe, PTL

(* Until a compaction, no byte is in two blocks, and until an empty block  *)
(* is freed too, none is in no block.                                      *)
THEOREM CustomMemoryExact == Spec => []ExactUntilCompaction
<1>1. ASSUME CustomMemoryInv, ~compacted PROVE ExactUntilCompaction
  <2>1. Typed(live, free, position) /\ Books(live, free, position, emptied)
    BY <1>1 DEF CustomMemoryInv
  <2>2. LiveDisjoint
    <3>1. \A o, q \in Positive, n, k \in Nat : o < q /\ Clear(o, n, q, k) => o + n <= q
      BY DEF Clear, Positive
    <3>2. \A o \in DOMAIN live : o \in Positive /\ live[o] \in Nat
      BY <2>1 DEF Typed, LiveTyped
    <3>3. \A o, q \in DOMAIN live : o < q => o # q
      BY <3>2 DEF Positive
    <3>4. QED
      BY <2>1, <3>1, <3>2, <3>3 DEF Books, Apart, LiveDisjoint
  <2>3. \A i \in DOMAIN free : End(free[i]) = free[i].offset + free[i].length
    BY DEF End
  <2>4. QED
    BY <2>1, <2>2, <2>3 DEF Books, Apart, Clear, AtMost, Counted, ExactUntilCompaction
<1>2. CustomMemoryInv => ExactUntilCompaction
  BY <1>1 DEF ExactUntilCompaction
<1>3. QED
  BY <1>2, CustomMemorySafe, PTL

=============================================================================
