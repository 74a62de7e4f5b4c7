------------------------------ MODULE PdkProofs -----------------------------
(***************************************************************************)
(* What holds of a plugin and of what its host functions do for it, for    *)
(* every manifest, every set of texts, hosts and handles, and memories of  *)
(* every size: the limiter is never exceeded, the host's memory is its own *)
(* after a reset, and variables are those of the last call that got        *)
(* through.                                                                *)
(***************************************************************************)
EXTENDS Pdk, SumProofs, SequenceTheorems

MemorySet ==
  [type : [min : Nat, max : Nat \cup {None}], pages : Nat, by : {"nobody", "host", "guest"}]

(* The pages of a store: Held, of any sequence of memories.                *)
PagesOf(m) == [i \in DOMAIN m |-> m[i].pages]
HeldIn(m) == SumFunctionOnSet(PagesOf(m), DOMAIN m)

-----------------------------------------------------------------------------
(* The invariant of the memories and the limiter.                          *)

(* The account of the limiter: what it still grants would not make it too  *)
(* much.  Once the instance is made, what it used up before is forgiven.   *)
Accounted ==
  limit # None =>
    Held - Uncounted + left <= IF instance THEN limit + limit ELSE limit

(* The guest keeps the first shared memory; its own is the last one while  *)
(* its start function runs, and neither is the one in the linker.          *)
Parted ==
  /\ imported = 2 /\ export \in 0 .. Len(memory)
  /\ linked # imported => memory[linked].by # "guest" /\ linked # export
  /\ phase = "start" => linked < Len(memory)

(* A guest that is being instantiated is not there yet.                    *)
Starting == instance \in BOOLEAN /\ (phase \in {"instantiate", "start"} => ~instance)

MemInv == MemoriesTypeOK /\ Accounted /\ Parted /\ Starting

LEMMA HeldIs == Held = HeldIn(memory)
<1>1. DOMAIN [i \in DOMAIN memory |-> memory[i].pages] = DOMAIN memory
  OBVIOUS
<1>2. QED
  BY <1>1 DEF Held, HeldIn, PagesOf, SumFunction

LEMMA HeldNext == Held' = HeldIn(memory')
<1>1. DOMAIN [i \in DOMAIN memory' |-> memory'[i].pages] = DOMAIN memory'
  OBVIOUS
<1>2. QED
  BY <1>1 DEF Held, HeldIn, PagesOf, SumFunction

LEMMA MemoryFields ==
  ASSUME NEW m \in MemorySet
  PROVE  /\ m.pages \in Nat /\ m.by \in {"nobody", "host", "guest"}
         /\ m.type \in [min : Nat, max : Nat \cup {None}]
         /\ m.type.min \in Nat /\ m.type.max \in Nat \cup {None}
BY DEF MemorySet

LEMMA HeldNumbers ==
  ASSUME NEW m \in Seq(MemorySet)
  PROVE  /\ Len(m) \in Nat /\ DOMAIN m = 1 .. Len(m) /\ IsFiniteSet(DOMAIN m)
         /\ Numbers(PagesOf(m), DOMAIN m) /\ HeldIn(m) \in Nat
         /\ \A i \in DOMAIN m : m[i] \in MemorySet /\ PagesOf(m)[i] = m[i].pages
<1>1. Len(m) \in Nat /\ DOMAIN m = 1 .. Len(m)
  OBVIOUS
<1>2. IsFiniteSet(DOMAIN m)
  BY <1>1, FS_Interval
<1>3. \A i \in DOMAIN m : m[i] \in MemorySet /\ PagesOf(m)[i] = m[i].pages
  BY DEF PagesOf
<1>4. Numbers(PagesOf(m), DOMAIN m)
  BY <1>3, MemoryFields DEF Numbers
<1>5. HeldIn(m) \in Nat
  BY <1>2, <1>4, SumSplit DEF HeldIn
<1>6. QED
  BY <1>1, <1>2, <1>3, <1>4, <1>5

(* The store grows by a memory, or in one of its memories.                 *)
LEMMA HeldAppend ==
  ASSUME NEW m \in Seq(MemorySet), NEW new \in MemorySet
  PROVE  HeldIn(Append(m, new)) = HeldIn(m) + new.pages
<1> DEFINE n == Len(m)
           more == Append(m, new)
<1>1. n \in Nat /\ DOMAIN m = 1 .. n /\ IsFiniteSet(DOMAIN m) /\ Numbers(PagesOf(m), DOMAIN m)
  BY HeldNumbers
<1>2. /\ more \in Seq(MemorySet) /\ DOMAIN more = DOMAIN m \cup {n + 1} /\ n + 1 \notin DOMAIN m
      /\ more[n + 1] = new /\ \A i \in DOMAIN m : more[i] = m[i]
  BY <1>1, AppendProperties
<1>3. /\ PagesOf(more)[n + 1] = new.pages /\ new.pages \in Nat
      /\ \A i \in DOMAIN m : PagesOf(m)[i] = PagesOf(more)[i]
  BY <1>2, MemoryFields DEF PagesOf
<1> HIDE DEF more
<1>4. HeldIn(more) = HeldIn(m) + PagesOf(more)[n + 1]
  <2>1. PagesOf(more)[n + 1] \in Nat
    BY <1>3
  <2>2. SumFunctionOnSet(PagesOf(more), DOMAIN more)
          = SumFunctionOnSet(PagesOf(m), DOMAIN m) + PagesOf(more)[n + 1]
    <3>1. PICK S, T, k : S = DOMAIN m /\ T = DOMAIN more /\ k = n + 1
      OBVIOUS
    <3>2. IsFiniteSet(S) /\ k \notin S /\ T = S \cup {k}
      BY <1>1, <1>2, <3>1
    <3>3. Numbers(PagesOf(m), S) /\ PagesOf(more)[k] \in Nat
          /\ \A y \in S : PagesOf(m)[y] = PagesOf(more)[y]
      BY <1>1, <1>3, <2>1, <3>1
    <3>4. SumFunctionOnSet(PagesOf(more), T) = SumFunctionOnSet(PagesOf(m), S) + PagesOf(more)[k]
      BY <3>2, <3>3, SumMore
    <3>5. QED
      BY <3>1, <3>4
  <2>3. QED
    BY <1>2, <2>2 DEF HeldIn
<1>5. QED
  BY <1>3, <1>4 DEF more

LEMMA HeldUpdate ==
  ASSUME NEW m \in Seq(MemorySet), NEW i \in DOMAIN m, NEW now \in MemorySet
  PROVE  HeldIn([m EXCEPT ![i] = now]) = HeldIn(m) - m[i].pages + now.pages
<1> DEFINE after == [m EXCEPT ![i] = now]
<1>1. IsFiniteSet(DOMAIN m) /\ Numbers(PagesOf(m), DOMAIN m) /\ PagesOf(m)[i] = m[i].pages
  BY HeldNumbers
<1>2. /\ DOMAIN after = DOMAIN m /\ after[i] = now
      /\ \A j \in DOMAIN m \ {i} : after[j] = m[j]
  OBVIOUS
<1>a. after \in Seq(MemorySet)
  OBVIOUS
<1>3. /\ PagesOf(after)[i] = now.pages /\ Numbers(PagesOf(after), DOMAIN m)
      /\ \A j \in DOMAIN m \ {i} : PagesOf(m)[j] = PagesOf(after)[j]
  BY <1>2, <1>a, HeldNumbers DEF PagesOf
<1> HIDE DEF after
<1>4. HeldIn(after) = HeldIn(m) - PagesOf(m)[i] + PagesOf(after)[i]
  <2>1. SumFunctionOnSet(PagesOf(after), DOMAIN m)
          = SumFunctionOnSet(PagesOf(m), DOMAIN m) - PagesOf(m)[i] + PagesOf(after)[i]
    BY <1>1, <1>3, SumChange
  <2>2. QED
    BY <1>2, <2>1 DEF HeldIn
<1>5. QED
  BY <1>1, <1>3, <1>4 DEF after

(* What type correctness says of the memories.                             *)
LEMMA MemoryTypes ==
  ASSUME MemoriesTypeOK
  PROVE  /\ memory \in Seq(MemorySet) /\ Len(memory) \in Nat /\ Len(memory) >= 2
         /\ DOMAIN memory = 1 .. Len(memory) /\ Kernel \in DOMAIN memory
         /\ \A i \in DOMAIN memory : memory[i] \in MemorySet
         /\ linked \in DOMAIN memory /\ linked \in Nat /\ linked >= 2
         /\ imported \in DOMAIN memory /\ imported \in Nat
         /\ Held \in Nat /\ Uncounted \in Nat
<1>1. memory \in Seq(MemorySet) /\ linked \in 2 .. Len(memory) /\ imported \in 2 .. Len(memory)
  BY DEF MemoriesTypeOK, MemorySet
<1>2. Len(memory) \in Nat /\ DOMAIN memory = 1 .. Len(memory)
      /\ \A i \in DOMAIN memory : memory[i] \in MemorySet
  BY <1>1
<1>3. Len(memory) >= 2 /\ linked \in DOMAIN memory /\ imported \in DOMAIN memory
      /\ Kernel \in DOMAIN memory /\ 2 \in DOMAIN memory
  BY <1>1, <1>2 DEF Kernel
<1>4. Uncounted \in Nat
  BY <1>2, <1>3, MemoryFields, MemoriesAssumption DEF Uncounted
<1>5. Held \in Nat
  BY <1>1, HeldIs, HeldNumbers
<1>6. QED
  BY <1>1, <1>2, <1>3, <1>4, <1>5

LEMMA TypesNext ==
  ASSUME memory' \in Seq(MemorySet), linked' \in 2 .. Len(memory'), imported' \in 2 .. Len(memory'),
         IF limit' = None THEN left' = None ELSE limit' \in Nat /\ left' \in 0 .. limit'
  PROVE  MemoriesTypeOK'
BY DEF MemoriesTypeOK, MemorySet

(* What is spent of the limit is at least what the store grows by.         *)
LEMMA Granting ==
  ASSUME MemoriesTypeOK, NEW n \in Nat, NEW current \in Nat, NEW maximum,
         Granted(current, current + n, maximum), Spend(n), UNCHANGED limit
  PROVE  /\ IF limit' = None THEN left' = None ELSE limit' \in Nat /\ left' \in 0 .. limit'
         /\ limit # None => left' = left - n /\ left \in Nat /\ limit \in Nat
BY DEF MemoriesTypeOK, Granted, MemoryGrowing, Spend, None

-----------------------------------------------------------------------------
(* Inside a call the store may grow, at the cost of the limiter, and be    *)
(* written to; nothing else happens to the memories.                       *)
Calmly ==
  /\ MemoriesTypeOK' /\ UNCHANGED <<limit, linked, imported>>
  /\ Len(memory') = Len(memory) /\ Uncounted' = Uncounted
  /\ limit # None => Held' + left' <= Held + left
  /\ \/ memory'[linked].by = memory[linked].by \/ memory'[linked].by = "host"
     \/ linked = imported

(* The call goes on, ends or starts, without a new instance.               *)
SameInstance ==
  /\ UNCHANGED <<instance, export>>
  /\ phase' = "start" => phase = "start"
  /\ phase' = "instantiate" => phase = "instantiate" \/ ~instance

(* The account, apart from the sizes it is about.                          *)
LEMMA AccountKept ==
  ASSUME MemoriesTypeOK, MemoriesTypeOK', Accounted, UNCHANGED <<limit, instance>>,
         Uncounted' = Uncounted, limit # None => Held' + left' <= Held + left
  PROVE  Accounted'
<1> DEFINE most == IF instance THEN limit + limit ELSE limit
<1>1. SUFFICES ASSUME limit # None PROVE Held' - Uncounted' + left' <= most
  BY DEF Accounted
<1>2. /\ Held \in Nat /\ Uncounted \in Nat /\ limit \in Nat /\ left \in Nat
  BY <1>1, MemoryTypes DEF MemoriesTypeOK
<1>3. Held' \in Nat
  BY HeldNext, HeldNumbers DEF MemoriesTypeOK, MemorySet
<1>4. left' \in Nat
  BY <1>1 DEF MemoriesTypeOK
<1>5. most \in Nat
  BY <1>2
<1>6. Held - Uncounted + left <= most
  BY <1>1 DEF Accounted
<1> HIDE DEF most
<1>7. Held' + left' <= Held + left
  BY <1>1
<1>8. \A h, i, u, k, l, n \in Nat : i + l <= h + k /\ h - u + k <= n => i - u + l <= n
  OBVIOUS
<1>9. Held' - Uncounted + left' <= most
  BY <1>2, <1>3, <1>4, <1>5, <1>6, <1>7, <1>8
<1>10. QED
  BY <1>9

LEMMA CalmGood ==
  ASSUME MemInv, Calmly, SameInstance
  PROVE  MemInv'
<1>1. MemoriesTypeOK /\ Accounted /\ Parted /\ Starting
  BY DEF MemInv
<1>2. Accounted'
  BY <1>1, AccountKept DEF Calmly, SameInstance
<1>3. Parted'
  BY <1>1, MemoryTypes DEF Parted, Calmly, SameInstance
<1>4. Starting'
  BY <1>1 DEF Starting, SameInstance
<1>5. QED
  BY <1>2, <1>3, <1>4 DEF MemInv, Calmly

LEMMA SameCalm ==
  ASSUME MemoriesTypeOK, UNCHANGED memoryVars
  PROVE  Calmly
<1>1. MemoriesTypeOK' /\ Held' = Held
  BY DEF MemoriesTypeOK, memoryVars, Held
<1>2. limit # None => Held \in Nat /\ left \in Nat
  BY MemoryTypes DEF MemoriesTypeOK
<1>3. QED
  BY <1>1, <1>2 DEF Calmly, memoryVars, Uncounted

(* A memory's record as the steps leave it.                                *)
LEMMA PagesSet ==
  ASSUME NEW m \in MemorySet, NEW n \in Nat, NEW now, now = [m EXCEPT !.pages = n]
  PROVE  now \in MemorySet /\ now.pages = n /\ now.by = m.by /\ now.type = m.type
BY DEF MemorySet

LEMMA BySet ==
  ASSUME NEW m \in MemorySet, NEW who \in {"host", "guest"}, NEW now, now = [m EXCEPT !.by = who]
  PROVE  now \in MemorySet /\ now.pages = m.pages /\ now.by = who /\ now.type = m.type
BY DEF MemorySet

(* One memory changes, and keeps its type.                                 *)
LEMMA OneMemory ==
  ASSUME MemoriesTypeOK, NEW i \in DOMAIN memory, NEW now \in MemorySet,
         now.type = memory[i].type, memory' = [memory EXCEPT ![i] = now]
  PROVE  /\ memory' \in Seq(MemorySet) /\ Len(memory') = Len(memory)
         /\ Uncounted' = Uncounted /\ Held' = Held - memory[i].pages + now.pages
         /\ memory'[i] = now /\ \A j \in DOMAIN memory : j # i => memory'[j] = memory[j]
<1>1. /\ memory \in Seq(MemorySet) /\ 2 \in DOMAIN memory /\ DOMAIN memory = 1 .. Len(memory)
      /\ Len(memory) \in Nat
  BY MemoryTypes
<1>2. memory' \in Seq(MemorySet) /\ Len(memory') = Len(memory)
      /\ memory'[i] = now /\ \A j \in DOMAIN memory : j # i => memory'[j] = memory[j]
  BY <1>1
<1>3. Uncounted' = Uncounted
  BY <1>1, <1>2 DEF Uncounted
<1>4. Held' = Held - memory[i].pages + now.pages
  BY <1>1, HeldIs, HeldNext, HeldUpdate
<1>5. QED
  BY <1>2, <1>3, <1>4

LEMMA GrowCalm ==
  ASSUME MemoriesTypeOK, NEW i \in DOMAIN memory, Grow(i, 1)
  PROVE  Calmly
<1> DEFINE m == memory[i]
<1>1. m \in MemorySet /\ m.pages \in Nat /\ m.pages + 1 \in Nat
  BY MemoryTypes, MemoryFields
<1>n. PICK now : now = [m EXCEPT !.pages = m.pages + 1]
  OBVIOUS
<1>3. /\ memory' = [memory EXCEPT ![i] = now] /\ UNCHANGED <<limit, linked, imported>>
      /\ Granted(m.pages, m.pages + 1, m.type.max) /\ Spend(1)
  BY <1>n DEF Grow
<1> HIDE DEF m
<1>2. now \in MemorySet /\ now.pages = m.pages + 1 /\ now.by = m.by /\ now.type = m.type
  BY <1>1, <1>n, PagesSet
<1>4. /\ IF limit' = None THEN left' = None ELSE limit' \in Nat /\ left' \in 0 .. limit'
      /\ limit # None => left' = left - 1 /\ left \in Nat
  BY <1>1, <1>3, Granting
<1>a. /\ memory' \in Seq(MemorySet) /\ Len(memory') = Len(memory) /\ Uncounted' = Uncounted
      /\ Held' = Held - m.pages + now.pages
      /\ memory'[i] = now /\ \A j \in DOMAIN memory : j # i => memory'[j] = memory[j]
  BY <1>2, <1>3, OneMemory DEF m
<1>5. /\ memory' \in Seq(MemorySet) /\ Len(memory') = Len(memory) /\ Uncounted' = Uncounted
      /\ Held' = Held - m.pages + (m.pages + 1)
      /\ memory'[i] = now /\ \A j \in DOMAIN memory : j # i => memory'[j] = memory[j]
  BY <1>2, <1>a
<1>6. MemoriesTypeOK'
  BY <1>3, <1>4, <1>5, TypesNext DEF MemoriesTypeOK
<1>7. memory'[linked].by = memory[linked].by
  BY <1>2, <1>5, MemoryTypes DEF m
<1>8. limit # None => Held' + left' <= Held + left
  <2>1. Held \in Nat
    BY MemoryTypes
  <2>2. \A h, k, p \in Nat : (h - p + (p + 1)) + (k - 1) <= h + k
    OBVIOUS
  <2>3. QED
    BY <1>1, <1>4, <1>5, <2>1, <2>2
<1>9. QED
  BY <1>3, <1>5, <1>6, <1>7, <1>8 DEF Calmly

(* Nothing came of it, but it stays counted.                               *)
LEMMA GrowFailsCalm ==
  ASSUME MemoriesTypeOK, NEW i \in DOMAIN memory, GrowFails(i, 1)
  PROVE  Calmly
<1>1. memory[i].pages \in Nat
  BY MemoryTypes, MemoryFields
<1>2. /\ IF limit' = None THEN left' = None ELSE limit' \in Nat /\ left' \in 0 .. limit'
      /\ limit # None => left' = left - 1 /\ left \in Nat
  BY <1>1, Granting DEF GrowFails
<1>3. UNCHANGED <<limit, memory, linked, imported>>
  BY DEF GrowFails
<1>4. MemoriesTypeOK'
  BY <1>2, <1>3 DEF MemoriesTypeOK
<1>5. Held' = Held /\ Held \in Nat
  BY <1>3, MemoryTypes DEF Held
<1>6. QED
  BY <1>2, <1>3, <1>4, <1>5 DEF Calmly, Uncounted

LEMMA WriteCalm ==
  ASSUME MemoriesTypeOK, NEW i \in {linked, imported}, NEW who \in {"host", "guest"},
         Write(i, who), i = linked => who = "host" \/ linked = imported
  PROVE  Calmly
<1> DEFINE m == memory[i]
<1>1. i \in DOMAIN memory /\ m \in MemorySet /\ m.pages \in Nat
  BY MemoryTypes, MemoryFields
<1>n. PICK now : now = [m EXCEPT !.by = who]
  OBVIOUS
<1>3. memory' = [memory EXCEPT ![i] = now] /\ UNCHANGED <<limit, left, linked, imported>>
  BY <1>n DEF Write
<1> HIDE DEF m
<1>2. now \in MemorySet /\ now.pages = m.pages /\ now.by = who /\ now.type = m.type
  BY <1>1, <1>n, BySet
<1>4. /\ memory' \in Seq(MemorySet) /\ Len(memory') = Len(memory) /\ Uncounted' = Uncounted
      /\ Held' = Held - m.pages + m.pages
      /\ memory'[i] = now /\ \A j \in DOMAIN memory : j # i => memory'[j] = memory[j]
  BY <1>1, <1>2, <1>3, OneMemory DEF m
<1>5. MemoriesTypeOK'
  BY <1>3, <1>4, TypesNext DEF MemoriesTypeOK
<1>6. limit # None => Held' + left' <= Held + left
  <2>1. Held \in Nat /\ (limit # None => left \in Nat)
    BY MemoryTypes DEF MemoriesTypeOK
  <2>2. \A h, p \in Nat : h - p + p = h
    OBVIOUS
  <2>3. Held' = Held /\ left' = left
    BY <1>1, <1>3, <1>4, <2>1, <2>2
  <2>4. QED
    BY <2>1, <2>3
<1>7. \/ memory'[linked].by = memory[linked].by \/ memory'[linked].by = "host"
      \/ linked = imported
  BY <1>2, <1>4, MemoryTypes
<1>8. QED
  BY <1>3, <1>4, <1>5, <1>6, <1>7 DEF Calmly

(* A new memory, after all the others.                                     *)
LEMMA Created ==
  ASSUME MemoriesTypeOK, NEW type \in [min : Nat, max : Nat \cup {None}], Create(type),
         UNCHANGED limit
  PROVE  /\ memory' \in Seq(MemorySet) /\ Len(memory') = Len(memory) + 1
         /\ memory'[Len(memory) + 1].by = "nobody"
         /\ \A j \in DOMAIN memory : memory'[j] = memory[j]
         /\ Uncounted' = Uncounted /\ Held' \in Nat
         /\ limit # None => Held' + left' = Held + left
         /\ IF limit' = None THEN left' = None ELSE limit' \in Nat /\ left' \in 0 .. limit'
<1> DEFINE new == NewMemory(type)
<1>1. type.min \in Nat
  OBVIOUS
<1>2. new \in MemorySet /\ new.pages = type.min /\ new.by = "nobody"
  BY <1>1 DEF NewMemory, MemorySet
<1>3. memory' = Append(memory, new) /\ Granted(0, 0 + type.min, type.max) /\ Spend(type.min)
  BY <1>1 DEF Create
<1> HIDE DEF new
<1>4. /\ IF limit' = None THEN left' = None ELSE limit' \in Nat /\ left' \in 0 .. limit'
      /\ limit # None => left' = left - type.min /\ left \in Nat
  BY <1>1, <1>3, Granting
<1>5. /\ memory \in Seq(MemorySet) /\ 2 \in DOMAIN memory /\ DOMAIN memory = 1 .. Len(memory)
      /\ Held \in Nat
  BY MemoryTypes
<1>6. /\ memory' \in Seq(MemorySet) /\ Len(memory') = Len(memory) + 1
      /\ memory'[Len(memory) + 1] = new /\ \A j \in DOMAIN memory : memory'[j] = memory[j]
  BY <1>2, <1>3, <1>5, AppendProperties
<1>7. Held' = Held + type.min
  BY <1>2, <1>3, <1>5, HeldIs, HeldNext, HeldAppend
<1>8. Uncounted' = Uncounted
  BY <1>5, <1>6 DEF Uncounted
<1>9. QED
  BY <1>1, <1>2, <1>4, <1>5, <1>6, <1>7, <1>8

-----------------------------------------------------------------------------
(* The actions: which of them leave the memories to a calm step.           *)

LEMMA NewCalm ==
  ASSUME MemoriesTypeOK, NEW bytes, MemoryNew(bytes) \/ OutOfMemory(bytes)
  PROVE  Calmly
<1>1. Kernel \in DOMAIN memory
  BY MemoryTypes
<1>2. CASE MemoryNew(bytes)
  BY <1>1, <1>2, SameCalm, GrowCalm DEF MemoryNew, Store
<1>3. CASE OutOfMemory(bytes)
  BY <1>1, <1>3, SameCalm, GrowFailsCalm DEF OutOfMemory, GrowRefused
<1>4. QED
  BY <1>2, <1>3

LEMMA AnswerCalm ==
  ASSUME MemoriesTypeOK, NEW bytes, Answer(bytes)
  PROVE  Calmly
BY NewCalm DEF Answer

LEMMA InputCalm ==
  ASSUME MemoriesTypeOK, NEW bytes, InputStored(bytes)
  PROVE  Calmly
<1>1. Kernel \in DOMAIN memory
  BY MemoryTypes
<1>2. QED
  BY <1>1, SameCalm, GrowCalm, GrowFailsCalm DEF InputStored, GrowRefused

LEMMA GuestGrowsCalm ==
  ASSUME MemInv, GuestGrows
  PROVE  Calmly
<1>1. MemoriesTypeOK /\ export \in 0 .. Len(memory)
  BY DEF MemInv, Parted
<1>2. PICK i \in {imported, IF export = 0 THEN Len(memory) ELSE export} :
         Grow(i, 1) \/ GrowFails(i, 1) \/ GrowRefused(i, 1)
  BY DEF GuestGrows
<1>3. i \in DOMAIN memory
  BY <1>1, MemoryTypes
<1>4. QED
  BY <1>1, <1>2, <1>3, SameCalm, GrowCalm, GrowFailsCalm DEF GrowRefused

(* Every failure ends the call.                                            *)
LEMMA FailSameInstance ==
  ASSUME Fail \/ UNCHANGED phase, UNCHANGED <<instance, export>>
  PROVE  SameInstance
BY DEF Fail, SameInstance

(* instantiate: the guest's own memory is made and counted.                *)
LEMMA InstantiateGood ==
  ASSUME MemInv, own \in [min : Nat, max : Nat \cup {None}], Instantiate
  PROVE  MemInv'
<1>1. MemoriesTypeOK /\ Accounted /\ Parted /\ Starting
  BY DEF MemInv
<1>2. CASE Fail /\ UNCHANGED memoryVars
  BY <1>1, <1>2, SameCalm, CalmGood, FailSameInstance DEF Instantiate
<1>3. CASE Create(own) /\ Goto("start") /\ UNCHANGED <<limit, linked, imported>>
  <2>1. /\ memory' \in Seq(MemorySet) /\ Len(memory') = Len(memory) + 1
        /\ \A j \in DOMAIN memory : memory'[j] = memory[j]
        /\ Uncounted' = Uncounted /\ Held' \in Nat
        /\ limit # None => Held' + left' = Held + left
        /\ IF limit' = None THEN left' = None ELSE limit' \in Nat /\ left' \in 0 .. limit'
    BY <1>1, <1>3, Created
  <2>2. UNCHANGED <<instance, export, limit, linked, imported>> /\ phase = "instantiate"
        /\ phase' = "start"
    BY <1>3 DEF Instantiate, Goto
  <2>3. /\ Len(memory) \in Nat /\ linked \in DOMAIN memory /\ linked \in 2 .. Len(memory)
        /\ imported \in 2 .. Len(memory)
        /\ Held \in Nat /\ Uncounted \in Nat /\ linked <= Len(memory)
    BY <1>1, MemoryTypes DEF MemoriesTypeOK
  <2>4. MemoriesTypeOK'
    BY <2>1, <2>2, <2>3, TypesNext
  <2>5. Accounted'
    <3>1. limit # None => Held' + left' <= Held + left
      BY <1>1, <2>1, <2>3 DEF MemoriesTypeOK
    <3>2. QED
      BY <1>1, <2>1, <2>2, <2>4, <3>1, AccountKept
  <2>6. Parted'
    BY <1>1, <2>1, <2>2, <2>3 DEF Parted
  <2>7. Starting'
    BY <1>1, <2>2 DEF Starting
  <2>8. QED
    BY <2>4, <2>5, <2>6, <2>7 DEF MemInv
<1>4. QED
  BY <1>2, <1>3 DEF Instantiate

(* The instance is there: what it used up is forgiven.                     *)
LEMMA StartedGood ==
  ASSUME MemInv, Started
  PROVE  MemInv'
<1>1. MemoriesTypeOK /\ Accounted /\ Parted /\ Starting
  BY DEF MemInv
<1>2. /\ phase = "start" /\ instance' = TRUE /\ export' = Len(memory) /\ phase' = "init"
      /\ left' = limit /\ UNCHANGED <<limit, memory, linked, imported>>
  BY DEF Started, LimiterReset, Goto
<1>3. Held' = Held /\ Uncounted' = Uncounted /\ Held \in Nat /\ Uncounted \in Nat
      /\ Len(memory) \in Nat
  BY <1>1, <1>2, MemoryTypes DEF Held, Uncounted
<1>4. MemoriesTypeOK'
  BY <1>1, <1>2 DEF MemoriesTypeOK
<1>5. Accounted'
  <2>1. limit # None => limit \in Nat /\ left \in Nat /\ Held - Uncounted + left <= limit
    BY <1>1, <1>2 DEF Accounted, Starting, MemoriesTypeOK
  <2>2. QED
    BY <1>2, <1>3, <2>1 DEF Accounted
<1>6. Parted'
  BY <1>1, <1>2, <1>3, MemoryTypes DEF Parted
<1>7. Starting'
  BY <1>2 DEF Starting
<1>8. QED
  BY <1>4, <1>5, <1>6, <1>7 DEF MemInv

(* linear_memory_reset_from_plugin: the linker gets a memory of its own.   *)
LEMMA HostResetsGood ==
  ASSUME MemInv, HostResets
  PROVE  MemInv'
<1>1. MemoriesTypeOK /\ Accounted /\ Parted /\ Starting
  BY DEF MemInv
<1>2. /\ Create(memory[linked].type) /\ linked' = Len(memory') /\ UNCHANGED <<limit, imported>>
      /\ UNCHANGED <<instance, export, phase>>
  BY DEF HostResets, OnIdle, LinearMemoryReset, KeepsCall
<1>3. memory[linked].type \in [min : Nat, max : Nat \cup {None}]
  BY <1>1, MemoryTypes, MemoryFields
<1>4. /\ memory' \in Seq(MemorySet) /\ Len(memory') = Len(memory) + 1
      /\ memory'[Len(memory) + 1].by = "nobody"
      /\ Uncounted' = Uncounted /\ Held' \in Nat
      /\ limit # None => Held' + left' = Held + left
      /\ IF limit' = None THEN left' = None ELSE limit' \in Nat /\ left' \in 0 .. limit'
  BY <1>1, <1>2, <1>3, Created
<1>5. /\ Len(memory) \in Nat /\ Len(memory) >= 2 /\ imported \in 2 .. Len(memory)
      /\ Held \in Nat /\ Uncounted \in Nat
  BY <1>1, MemoryTypes DEF MemoriesTypeOK
<1>6. MemoriesTypeOK'
  BY <1>2, <1>4, <1>5, TypesNext
<1>7. Accounted'
  <2>1. limit # None => Held' + left' <= Held + left
    BY <1>1, <1>4, <1>5 DEF MemoriesTypeOK
  <2>2. QED
    BY <1>1, <1>2, <1>4, <1>6, <2>1, AccountKept
<1>8. phase # "start"
  BY DEF HostResets, OnIdle
<1>9. Parted'
  BY <1>1, <1>2, <1>4, <1>5, <1>8 DEF Parted
<1>10. Starting'
  BY <1>1, <1>2 DEF Starting
<1>11. QED
  BY <1>6, <1>7, <1>9, <1>10 DEF MemInv

-----------------------------------------------------------------------------
(* Where calls are, and the pointers by which the host follows them.       *)
Phases ==
  {"idle", "instantiate", "start", "init", "input", "guest", "stale", "aborted"}

CallInv ==
  /\ \E p \in Plugins : own = p.own /\ allowed = p.allowed_hosts
  /\ phase \in Phases /\ kind \in {"extism", "native"}
  /\ place \in 1 .. MaxPlaces /\ pointers \in 0 .. MaxPlaces
  /\ OwnPointers

(* Nothing moves, and no call of a guest begins.                           *)
Staying ==
  /\ UNCHANGED <<own, allowed, kind, place, pointers>>
  /\ phase' \in {phase, "idle", "stale", "aborted", "start", "init"}

LEMMA StayingGood ==
  ASSUME CallInv, Staying
  PROVE  CallInv'
BY DEF CallInv, Staying, OwnPointers, Phases

LEMMA FailStays ==
  ASSUME Fail \/ UNCHANGED phase, UNCHANGED <<own, allowed, kind, place, pointers>>
  PROVE  Staying
BY DEF Fail, Staying

-----------------------------------------------------------------------------
(* What the host keeps for the guest.                                      *)
Values == Texts \cup {<<>>}

DataTypes ==
  /\ blocks \in [Handles -> Values] /\ variables \in [Keys -> Values]
  /\ http_status \in Statuses \cup {0}

DataInv == DataTypes /\ StoreBounded

PdkInv == MemInv /\ CallInv /\ DataInv

LEMMA Texting ==
  /\ Keys \subseteq Values /\ <<>> \in Keys /\ <<>> \in Values /\ IsFiniteSet(Keys)
  /\ \A b \in Values : Len(b) \in Nat
<1>1. Values \subseteq Seq(Nat)
  <2>1. <<>> \in Seq(Nat) /\ Texts \subseteq Seq(Nat)
    BY CurrentPluginAssumption
  <2>2. QED
    BY <2>1 DEF Values
<1>2. IsFiniteSet(Keys)
  BY CurrentPluginAssumption, FS_AddElement DEF Keys
<1>3. QED
  BY <1>1, <1>2, CurrentPluginAssumption DEF Keys, Values

LEMMA BytesTyped ==
  ASSUME DataTypes, NEW offs \in Handles \cup {0}
  PROVE  Bytes(offs) \in Values
BY Texting DEF DataTypes, Bytes

(* The rest does not see what buffers there are.                           *)
LEMMA OnlyBlocks ==
  ASSUME DataInv, blocks' \in [Handles -> Values],
         UNCHANGED <<variables, http_status>>
  PROVE  DataInv'
BY DEF DataInv, DataTypes, StoreBounded, Size

LEMMA NoData ==
  ASSUME DataInv, UNCHANGED dataVars
  PROVE  DataInv'
<1>1. blocks' \in [Handles -> Values] /\ UNCHANGED <<variables, http_status>>
  BY DEF DataInv, DataTypes, dataVars
<1>2. QED
  BY <1>1, OnlyBlocks

LEMMA NewBlocks ==
  ASSUME DataTypes, NEW bytes \in Values, MemoryNew(bytes) \/ OutOfMemory(bytes)
  PROVE  blocks' \in [Handles -> Values]
BY DEF DataTypes, MemoryNew, Store, OutOfMemory

LEMMA InputBlocks ==
  ASSUME DataTypes, NEW bytes \in Values, InputStored(bytes)
  PROVE  blocks' \in [Handles -> Values]
<1>1. NoBlocks \in [Handles -> Values]
  BY Texting DEF NoBlocks
<1>2. \A h \in Handles : [NoBlocks EXCEPT ![h] = bytes] \in [Handles -> Values]
  BY <1>1
<1>3. QED
  BY <1>1, <1>2 DEF InputStored

(* The size of the store of variables.                                     *)
Lengths(vs) == [k \in Keys |-> Len(vs[k])]

LEMMA SizeIs == Size = SumFunctionOnSet(Lengths(variables), Keys)
<1>1. DOMAIN [k \in Keys |-> Len(variables[k])] = Keys
  OBVIOUS
<1>2. QED
  BY <1>1 DEF Size, Lengths, SumFunction

LEMMA SizeNext == Size' = SumFunctionOnSet(Lengths(variables'), Keys)
<1>1. DOMAIN [k \in Keys |-> Len(variables'[k])] = Keys
  OBVIOUS
<1>2. QED
  BY <1>1 DEF Size, Lengths, SumFunction

LEMMA LengthNumbers ==
  ASSUME NEW vs \in [Keys -> Values]
  PROVE  /\ Numbers(Lengths(vs), Keys)
         /\ \A k \in Keys : Lengths(vs)[k] = Len(vs[k]) /\ Len(vs[k]) \in Nat
BY Texting DEF Lengths, Numbers

(* var_set looks at the size before it adds a value, and removes without.  *)
LEMMA VarSetBounded ==
  ASSUME DataInv, NEW key \in Keys, NEW bytes \in Values,
         variables' = [variables EXCEPT ![key] = bytes], Size <= VarLimit \/ bytes = <<>>
  PROVE  StoreBounded'
<1>1. variables \in [Keys -> Values] /\ variables' \in [Keys -> Values]
  BY DEF DataInv, DataTypes
<1>a. /\ Numbers(Lengths(variables), Keys)
      /\ \A k \in Keys : Lengths(variables)[k] = Len(variables[k]) /\ Len(variables[k]) \in Nat
  BY <1>1, LengthNumbers
<1>b. /\ Numbers(Lengths(variables'), Keys)
      /\ \A k \in Keys : Lengths(variables')[k] = Len(variables'[k]) /\ Len(variables'[k]) \in Nat
  BY <1>1, LengthNumbers
<1>2. /\ Numbers(Lengths(variables), Keys) /\ Numbers(Lengths(variables'), Keys)
      /\ \A k \in Keys : /\ Lengths(variables)[k] = Len(variables[k])
                         /\ Lengths(variables')[k] = Len(variables'[k])
                         /\ Len(variables[k]) \in Nat /\ Len(variables'[k]) \in Nat
  BY <1>a, <1>b
<1>3. /\ variables'[key] = bytes /\ Len(bytes) \in Nat
      /\ \A k \in Keys \ {key} : variables'[k] = variables[k]
  BY <1>1, Texting
<1>4. ASSUME NEW k \in Keys \ {key} PROVE Lengths(variables)[k] = Lengths(variables')[k]
  <2>1. variables'[k] = variables[k] /\ k \in Keys
    BY <1>3
  <2>2. Lengths(variables)[k] = Len(variables[k]) /\ Lengths(variables')[k] = Len(variables'[k])
    BY <2>1, <1>2
  <2>3. QED
    BY ONLY <2>1, <2>2
<1>5. Size \in Nat
  BY <1>2, Texting, SizeIs, SumSplit
<1>6. Size' = Size - Len(variables[key]) + Len(bytes)
  <2>1. SumFunctionOnSet(Lengths(variables'), Keys)
          = SumFunctionOnSet(Lengths(variables), Keys) - Lengths(variables)[key]
              + Lengths(variables')[key]
    <3>1. PICK S, w, v : S = Keys /\ w = Lengths(variables) /\ v = Lengths(variables')
      OBVIOUS
    <3>2. IsFiniteSet(S) /\ Numbers(w, S) /\ Numbers(v, S) /\ key \in S
      BY <1>2, <3>1, Texting
    <3>3. \A y \in S \ {key} : w[y] = v[y]
      BY <1>4, <3>1
    <3>4. SumFunctionOnSet(v, S) = SumFunctionOnSet(w, S) - w[key] + v[key]
      BY <3>2, <3>3, SumChange
    <3>5. QED
      BY <3>1, <3>4
  <2>2. QED
    BY <1>2, <1>3, <2>1, SizeIs, SizeNext
<1>7. CASE Size <= VarLimit
  <2>1. Size' - Len(variables'[key]) <= VarLimit
    BY <1>2, <1>3, <1>5, <1>6, <1>7, CurrentPluginAssumption
  <2>2. QED
    BY <2>1 DEF StoreBounded
<1>8. CASE bytes = <<>>
  <2>1. PICK j \in Keys : Size - Len(variables[j]) <= VarLimit
    BY DEF DataInv, StoreBounded
  <2>2. Size' - Len(variables'[j]) <= VarLimit
    <3>1. Len(bytes) = 0
      BY <1>8
    <3>2. CASE j = key
      BY <1>2, <1>3, <1>5, <1>6, <2>1, <3>1, <3>2, CurrentPluginAssumption
    <3>3. CASE j # key
      <4>1. Len(variables'[j]) = Len(variables[j])
        BY <1>3, <3>3
      <4>2. \A a, b, c, top \in Nat : a - c <= top => (a - b + 0) - c <= top
        OBVIOUS
      <4>3. /\ Size \in Nat /\ Len(variables[key]) \in Nat /\ Len(variables[j]) \in Nat
            /\ VarLimit \in Nat
        BY <1>2, <1>5, CurrentPluginAssumption
      <4>4. (Size - Len(variables[key]) + 0) - Len(variables[j]) <= VarLimit
        BY <2>1, <4>2, <4>3
      <4>5. QED
        BY <1>6, <3>1, <4>1, <4>4
    <3>4. QED
      BY <3>2, <3>3
  <2>3. QED
    BY <2>2 DEF StoreBounded
<1>9. QED
  BY <1>7, <1>8

-----------------------------------------------------------------------------
(* The functions of the PDK.                                               *)

LEMMA ErrGood ==
  ASSUME PdkInv, Err
  PROVE  PdkInv'
<1>1. MemInv'
  BY SameCalm, CalmGood, FailSameInstance DEF PdkInv, MemInv, Err, KeepsCall
<1>2. CallInv'
  BY FailStays, StayingGood DEF PdkInv, Err, KeepsCall
<1>3. DataInv'
  BY NoData DEF PdkInv, Err, KeepsCall
<1>4. QED
  BY <1>1, <1>2, <1>3 DEF PdkInv

(* An answer goes into a buffer of the guest's, or there is no room.       *)
LEMMA AnswerGood ==
  ASSUME PdkInv, NEW bytes \in Values, Answer(bytes), KeepsCall
  PROVE  MemInv' /\ CallInv' /\ blocks' \in [Handles -> Values]
<1>1. Fail \/ UNCHANGED phase
  BY DEF Answer
<1>2. MemInv'
  BY <1>1, AnswerCalm, CalmGood, FailSameInstance DEF PdkInv, MemInv, KeepsCall
<1>3. CallInv'
  BY <1>1, FailStays, StayingGood DEF PdkInv, KeepsCall
<1>4. blocks' \in [Handles -> Values]
  BY NewBlocks DEF Answer, PdkInv, DataInv
<1>5. QED
  BY <1>2, <1>3, <1>4

LEMMA GetGood ==
  ASSUME PdkInv, NEW k \in Handles \cup {0}, ConfigGet(k) \/ VarGet(k) \/ Log(k)
  PROVE  PdkInv'
<1>1. CASE Err
  BY <1>1, ErrGood
<1>2. ASSUME NEW bytes \in Values, Answer(bytes), KeepsCall,
             UNCHANGED <<variables, http_status>>
      PROVE  PdkInv'
  <2>1. MemInv' /\ CallInv' /\ blocks' \in [Handles -> Values]
    BY <1>2, AnswerGood
  <2>2. DataInv'
    BY <1>2, <2>1, OnlyBlocks DEF PdkInv, KeepsCall
  <2>3. QED
    BY <2>1, <2>2 DEF PdkInv
<1>3. CASE ConfigGet(k)
  BY <1>1, <1>2, <1>3, Texting DEF ConfigGet
<1>4. CASE VarGet(k)
  <2>1. IsStr(k) => variables[Bytes(k)] \in Values
    BY DEF IsStr, PdkInv, DataInv, DataTypes
  <2>2. QED
    BY <1>1, <1>2, <1>4, <2>1 DEF VarGet
<1>5. CASE Log(k)
  BY <1>1, <1>5 DEF Log
<1>6. QED
  BY <1>3, <1>4, <1>5

LEMMA VarSetGood ==
  ASSUME PdkInv, NEW k \in Handles \cup {0}, NEW v \in Handles \cup {0}, VarSet(k, v)
  PROVE  PdkInv'
<1>1. CASE (Size > VarLimit /\ v # 0) \/ ~IsStr(k) \/ ~IsHandle(v)
  BY <1>1, ErrGood DEF VarSet
<1>2. CASE ~((Size > VarLimit /\ v # 0) \/ ~IsStr(k) \/ ~IsHandle(v))
  <2>1. /\ variables' = [variables EXCEPT ![Bytes(k)] = Bytes(v)]
        /\ KeepsCall /\ UNCHANGED <<memoryVars, phase, blocks, http_status>>
        /\ IsStr(k) /\ (~(Size > VarLimit) \/ v = 0)
    BY <1>2 DEF VarSet
  <2>2. PICK key \in Keys, bytes \in Values : key = Bytes(k) /\ bytes = Bytes(v)
    BY <2>1, BytesTyped DEF IsStr, PdkInv, DataInv
  <2>3. DataTypes /\ variables' = [variables EXCEPT ![key] = bytes]
    BY <2>1, <2>2 DEF PdkInv, DataInv
  <2>4. Size <= VarLimit \/ bytes = <<>>
    <3>1. Size \in Nat
      BY <2>3, Texting, SizeIs, LengthNumbers, SumSplit DEF DataTypes
    <3>2. QED
      BY <2>1, <2>2, <3>1, CurrentPluginAssumption DEF Bytes
  <2>5. StoreBounded'
    BY <2>3, <2>4, VarSetBounded DEF PdkInv
  <2>6. DataTypes'
    <3>1. variables' \in [Keys -> Values]
      BY <2>3 DEF DataTypes
    <3>2. QED
      BY <2>1, <2>3, <3>1 DEF DataTypes
  <2>7. MemInv'
    BY <2>1, SameCalm, CalmGood, FailSameInstance DEF PdkInv, MemInv, KeepsCall
  <2>8. CallInv'
    BY <2>1, FailStays, StayingGood DEF PdkInv, KeepsCall
  <2>9. QED
    BY <2>5, <2>6, <2>7, <2>8 DEF PdkInv, DataInv
<1>3. QED
  BY <1>1, <1>2

(* The status is kept as soon as there is one, whatever comes of the rest. *)
LEMMA HttpRequestGood ==
  ASSUME PdkInv, NEW r \in Handles \cup {0}, NEW b \in Handles \cup {0}, HttpRequest(r, b)
  PROVE  PdkInv'
<1>1. CASE Err
  BY <1>1, ErrGood
<1>2. CASE ~Err
  <2>1. /\ \/ /\ http_status' \in Statuses
              /\ \/ Fail /\ UNCHANGED <<memoryVars, blocks>>
                 \/ \E bytes \in Keys : Answer(bytes)
           \/ UNCHANGED <<memoryVars, blocks, phase, http_status>>
        /\ KeepsCall /\ UNCHANGED variables
    BY <1>2 DEF HttpRequest
  <2>2. http_status' \in Statuses \cup {0}
    BY <2>1 DEF PdkInv, DataInv, DataTypes
  <2>3. MemInv' /\ CallInv' /\ blocks' \in [Handles -> Values]
    <3>1. ASSUME Fail \/ UNCHANGED phase, UNCHANGED <<memoryVars, blocks>>
          PROVE  MemInv' /\ CallInv' /\ blocks' \in [Handles -> Values]
      <4>1. MemInv'
        BY <2>1, <3>1, SameCalm, CalmGood, FailSameInstance DEF PdkInv, MemInv, KeepsCall
      <4>2. CallInv'
        BY <2>1, <3>1, FailStays, StayingGood DEF PdkInv, KeepsCall
      <4>3. QED
        BY <3>1, <4>1, <4>2 DEF PdkInv, DataInv, DataTypes
    <3>2. QED
      BY <2>1, <3>1, AnswerGood, Texting
  <2>4. DataTypes'
    BY <2>1, <2>2, <2>3 DEF DataTypes, PdkInv, DataInv
  <2>5. StoreBounded'
    BY <2>1 DEF StoreBounded, Size, PdkInv, DataInv
  <2>6. QED
    BY <2>3, <2>4, <2>5 DEF PdkInv, DataInv
<1>3. QED
  BY <1>1, <1>2

-----------------------------------------------------------------------------
(* Calls, guests and hosts.                                                *)

(* Whatever leaves the memories calm, the plugin in its place and the data *)
(* alone is no danger to anything.                                         *)
LEMMA QuietGood ==
  ASSUME PdkInv, Calmly, SameInstance, Staying, UNCHANGED dataVars
  PROVE  PdkInv'
BY CalmGood, StayingGood, NoData DEF PdkInv, Staying

LEMMA CallsGood ==
  ASSUME PdkInv, Move \/ (\E k \in {"extism", "native"} : Call(k)) \/ Initialized
  PROVE  PdkInv'
<1>1. UNCHANGED memoryVars /\ UNCHANGED dataVars /\ UNCHANGED <<own, allowed>>
  BY DEF Move, Call, Initialized
<1>2. SameInstance
  BY DEF Move, Call, Initialized, SameInstance, Goto, EnterCall, Fail
<1>3. MemInv'
  BY <1>1, <1>2, SameCalm, CalmGood DEF PdkInv, MemInv
<1>4. DataInv'
  BY <1>1, NoData DEF PdkInv
<1>5. CallInv'
  <2>1. CASE Move
    BY <2>1, CurrentPluginAssumption DEF Move, PdkInv, CallInv, OwnPointers, Phases
  <2>2. ASSUME NEW k \in {"extism", "native"}, Call(k) PROVE CallInv'
    BY <2>2 DEF Call, PdkInv, CallInv, OwnPointers, Phases, Goto, EnterCall, Fail
  <2>3. CASE Initialized
    BY <2>3 DEF Initialized, PdkInv, CallInv, OwnPointers, Phases, Goto, EnterCall
  <2>4. QED
    BY <2>1, <2>2, <2>3
<1>6. QED
  BY <1>3, <1>4, <1>5 DEF PdkInv

LEMMA InstanceGood ==
  ASSUME PdkInv, Instantiate \/ Started
  PROVE  PdkInv'
<1>1. own \in [min : Nat, max : Nat \cup {None}]
  BY CurrentPluginAssumption DEF PdkInv, CallInv, PluginRecords
<1>2. MemInv'
  BY <1>1, InstantiateGood, StartedGood DEF PdkInv
<1>3. UNCHANGED dataVars /\ UNCHANGED <<own, allowed, kind, place, pointers>>
  BY DEF Instantiate, Started
<1>4. Staying
  BY <1>3 DEF Instantiate, Started, Staying, Goto, Fail
<1>5. CallInv' /\ DataInv'
  BY <1>3, <1>4, StayingGood, NoData DEF PdkInv
<1>6. QED
  BY <1>2, <1>5 DEF PdkInv

LEMMA SetInputGood ==
  ASSUME PdkInv, NEW bytes \in Values, SetInput(bytes)
  PROVE  PdkInv'
<1>1. /\ phase = "input" /\ pointers' = place /\ InputStored(bytes)
      /\ UNCHANGED <<own, allowed, kind, instance, place, export, variables, http_status>>
  BY DEF SetInput
<1>2. phase' \in {"guest", "idle"}
  BY <1>1 DEF InputStored, Goto
<1>3. MemInv'
  BY <1>1, <1>2, InputCalm, CalmGood DEF PdkInv, MemInv, SameInstance
<1>4. CallInv'
  BY <1>1, <1>2 DEF PdkInv, CallInv, OwnPointers, Phases
<1>5. DataInv'
  BY <1>1, InputBlocks, OnlyBlocks DEF PdkInv, DataInv
<1>6. QED
  BY <1>3, <1>4, <1>5 DEF PdkInv

LEMMA GuestBlocksGood ==
  ASSUME PdkInv,
         (\E bytes \in Texts : GuestAlloc(bytes)) \/ (\E h \in Handles : GuestFree(h))
  PROVE  PdkInv'
<1>1. UNCHANGED <<callVars, variables, http_status>>
  BY DEF GuestAlloc, GuestFree
<1>2. Calmly /\ blocks' \in [Handles -> Values]
  <2>1. MemoriesTypeOK /\ DataTypes /\ Kernel \in DOMAIN memory
    BY MemoryTypes DEF PdkInv, MemInv, DataInv
  <2>2. ASSUME NEW bytes \in Texts, GuestAlloc(bytes)
        PROVE  Calmly /\ blocks' \in [Handles -> Values]
    <3>1. CASE MemoryNew(bytes)
      BY <2>1, <3>1, NewCalm, NewBlocks DEF Values
    <3>2. CASE GrowFails(Kernel, 1) /\ UNCHANGED blocks
      BY <2>1, <3>2, GrowFailsCalm DEF DataTypes
    <3>3. QED
      BY <2>2, <3>1, <3>2 DEF GuestAlloc
  <2>3. ASSUME NEW h \in Handles, GuestFree(h)
        PROVE  Calmly /\ blocks' \in [Handles -> Values]
    <3>1. Calmly
      BY <2>1, <2>3, SameCalm DEF GuestFree
    <3>2. blocks' \in [Handles -> Values]
      BY <2>1, <2>3, Texting DEF GuestFree, DataTypes
    <3>3. QED
      BY <3>1, <3>2
  <2>4. QED
    BY <2>2, <2>3
<1>3. SameInstance /\ Staying
  BY <1>1 DEF callVars, SameInstance, Staying
<1>4. MemInv' /\ CallInv'
  BY <1>2, <1>3, CalmGood, StayingGood DEF PdkInv
<1>5. DataInv'
  BY <1>1, <1>2, OnlyBlocks DEF PdkInv, callVars
<1>6. QED
  BY <1>4, <1>5 DEF PdkInv

LEMMA GuestGood ==
  ASSUME PdkInv, GuestGrows \/ GuestWrites \/ GuestReturns \/ GuestTraps \/ StalePointers
  PROVE  PdkInv'
<1>1. MemoriesTypeOK /\ MemInv
  BY DEF PdkInv, MemInv
<1>2. UNCHANGED dataVars /\ UNCHANGED <<own, allowed, kind, instance, place, pointers, export>>
  BY DEF GuestGrows, GuestWrites, GuestReturns, GuestTraps, StalePointers, KeepsCall, callVars
<1>3. Fail \/ UNCHANGED phase \/ phase' = "idle" \/ phase' = "stale"
  BY DEF GuestGrows, GuestWrites, GuestReturns, GuestTraps, StalePointers, Goto, callVars
<1>4. SameInstance /\ Staying
  BY <1>2, <1>3 DEF Fail, SameInstance, Staying
<1>5. Calmly
  <2>1. CASE GuestGrows
    BY <1>1, <2>1, GuestGrowsCalm
  <2>2. CASE GuestWrites
    <3>1. Write(imported, "guest")
      BY <2>2 DEF GuestWrites
    <3>2. imported = linked => linked = imported
      OBVIOUS
    <3>3. QED
      BY <1>1, <3>1, <3>2, WriteCalm
  <2>3. CASE GuestReturns \/ GuestTraps \/ StalePointers
    BY <1>1, <2>3, SameCalm DEF GuestReturns, GuestTraps, StalePointers
  <2>4. QED
    BY <2>1, <2>2, <2>3
<1>6. QED
  BY <1>2, <1>4, <1>5, QuietGood

LEMMA HostGood ==
  ASSUME PdkInv, HostWrites \/ HostResets \/ HostResetPanics \/ HostReads
  PROVE  PdkInv'
<1>1. MemoriesTypeOK /\ MemInv
  BY DEF PdkInv, MemInv
<1>2. UNCHANGED dataVars /\ UNCHANGED <<own, allowed, kind, instance, place, pointers, export>>
  BY DEF HostWrites, HostResets, HostResetPanics, HostReads, OnIdle, KeepsCall
<1>3. UNCHANGED phase \/ phase' = "aborted" \/ phase' = "stale"
  BY DEF HostWrites, HostResets, HostResetPanics, HostReads, OnIdle, Goto
<1>4. SameInstance /\ Staying
  BY <1>2, <1>3 DEF SameInstance, Staying
<1>5. CASE HostResets
  BY <1>1, <1>2, <1>4, <1>5, HostResetsGood, StayingGood, NoData DEF PdkInv
<1>6. CASE HostWrites
  <2>1. Write(linked, "host")
    BY <1>6 DEF HostWrites, OnIdle, WriteBytes
  <2>2. Calmly
    BY <1>1, <2>1, WriteCalm
  <2>3. QED
    BY <1>2, <1>4, <2>2, QuietGood
<1>7. CASE HostResetPanics \/ HostReads
  <2>1. Calmly
    BY <1>1, <1>7, SameCalm DEF HostResetPanics, HostReads, OnIdle, LinearMemoryResetPanics
  <2>2. QED
    BY <1>2, <1>4, <2>1, QuietGood
<1>8. QED
  BY <1>5, <1>6, <1>7

-----------------------------------------------------------------------------
(* The start: build_new.                                                   *)
LEMMA InitGood == Init => PdkInv
<1> SUFFICES ASSUME Init PROVE PdkInv
  OBVIOUS
<1>1. PICK p \in Plugins : /\ MemoriesInit(p.max_pages, p.min, p.max)
                           /\ own = p.own /\ allowed = p.allowed_hosts
  BY DEF Init
<1>2. /\ p.max_pages \in Nat \cup {None} /\ p.min \in Nat /\ p.max \in Nat
      /\ KernelPages \in Nat
  BY <1>1, CurrentPluginAssumption, MemoriesAssumption DEF PluginRecords
<1> DEFINE kernel == NewMemory(Type(KernelPages, None))
           type == WasmMemory(p.min, p.max)
           shared == NewMemory(type)
<1>3. type \in [min : Nat, max : Nat \cup {None}] /\ type.min = p.min
  BY <1>2 DEF WasmMemory, Type
<1>4. /\ kernel \in MemorySet /\ kernel.pages = KernelPages
      /\ shared \in MemorySet /\ shared.pages = p.min /\ shared.by = "nobody"
      /\ shared.type = type
  <2>1. Type(KernelPages, None) \in [min : Nat, max : Nat \cup {None}]
        /\ Type(KernelPages, None).min = KernelPages
    BY <1>2 DEF Type
  <2> HIDE DEF type
  <2>2. QED
    BY <1>3, <2>1 DEF NewMemory, MemorySet
<1>5. /\ limit = p.max_pages /\ left = p.max_pages /\ memory = <<kernel, shared>>
      /\ linked = 2 /\ imported = 2
  BY <1>1 DEF MemoriesInit
<1> HIDE DEF kernel, shared, type
<1>6. memory \in Seq(MemorySet) /\ Len(memory) = 2 /\ memory[2] = shared
      /\ memory = Append(Append(<<>>, kernel), shared)
  BY <1>4, <1>5
<1>7. Held = KernelPages + p.min
  <2>1. <<>> \in Seq(MemorySet) /\ Append(<<>>, kernel) \in Seq(MemorySet)
    BY <1>4
  <2>2. HeldIn(<<>>) = 0
    BY SumEmpty DEF HeldIn
  <2>3. HeldIn(memory) = (0 + KernelPages) + p.min
    BY <1>4, <1>6, <2>1, <2>2, HeldAppend
  <2>4. QED
    BY <1>2, <2>3, HeldIs
<1>8. Uncounted = KernelPages + p.min
  BY <1>3, <1>4, <1>6 DEF Uncounted
<1>9. phase = "idle" /\ instance = FALSE /\ export = 0
  BY DEF Init
<1>10. MemInv
  <2>1. MemoriesTypeOK
    BY <1>2, <1>5, <1>6 DEF MemoriesTypeOK, MemorySet
  <2>2. Accounted
    BY <1>2, <1>5, <1>7, <1>8, <1>9 DEF Accounted
  <2>3. Parted
    <3>1. 0 \in 0 .. Len(memory)
      BY <1>6
    <3>2. QED
      BY <1>5, <1>9, <3>1 DEF Parted
  <2>4. Starting
    BY <1>9 DEF Starting
  <2>5. QED
    BY <2>1, <2>2, <2>3, <2>4 DEF MemInv
<1>11. CallInv
  BY <1>1, CurrentPluginAssumption DEF Init, CallInv, OwnPointers, Phases
<1>12. DataInv
  <2>1. DataTypes
    BY Texting DEF Init, DataTypes, NoBlocks
  <2>2. \A k \in Keys : Lengths(variables)[k] = 0 /\ Len(variables[k]) = 0
    BY DEF Init, Lengths
  <2>3. Size = 0
    BY <2>2, Texting, SizeIs, SumZero
  <2>4. StoreBounded
    BY <2>2, <2>3, Texting, CurrentPluginAssumption DEF StoreBounded
  <2>5. QED
    BY <2>1, <2>4 DEF DataInv
<1>13. QED
  BY <1>10, <1>11, <1>12 DEF PdkInv

LEMMA Unchanged ==
  ASSUME PdkInv, UNCHANGED vars
  PROVE  PdkInv'
<1>1. UNCHANGED memoryVars /\ UNCHANGED dataVars /\ UNCHANGED callVars
  BY DEF vars
<1>2. Calmly
  BY <1>1, SameCalm DEF PdkInv, MemInv
<1>3. SameInstance /\ Staying
  BY <1>1 DEF callVars, SameInstance, Staying
<1>4. QED
  BY <1>1, <1>2, <1>3, QuietGood

(* The limiter's account, the places of the memories, the calls and the    *)
(* variables stay in order in every run of a store (Memories,              *)
(* CurrentPlugin, Pdk).                                                    *)
THEOREM PdkSafe == Spec => []PdkInv
<1>1. PdkInv /\ [Next]_vars => PdkInv'
  <2> SUFFICES ASSUME PdkInv, [Next]_vars PROVE PdkInv'
    OBVIOUS
  <2>1. CASE Move \/ (\E k \in {"extism", "native"} : Call(k)) \/ Initialized
    BY <2>1, CallsGood
  <2>2. CASE Instantiate \/ Started
    BY <2>2, InstanceGood
  <2>3. ASSUME NEW bytes \in Texts \cup {<<>>}, SetInput(bytes) PROVE PdkInv'
    BY <2>3, SetInputGood DEF Values
  <2>4. CASE (\E bytes \in Texts : GuestAlloc(bytes)) \/ (\E h \in Handles : GuestFree(h))
    BY <2>4, GuestBlocksGood
  <2>5. CASE GuestGrows \/ GuestWrites \/ GuestReturns \/ GuestTraps \/ StalePointers
    BY <2>5, GuestGood
  <2>6. ASSUME NEW k \in Handles \cup {0}, ConfigGet(k) \/ VarGet(k) \/ Log(k) PROVE PdkInv'
    BY <2>6, GetGood
  <2>7. ASSUME NEW k \in Handles \cup {0}, NEW v \in Handles \cup {0},
               VarSet(k, v) \/ HttpRequest(k, v)
        PROVE  PdkInv'
    BY <2>7, VarSetGood, HttpRequestGood
  <2>8. CASE HostWrites \/ HostResets \/ HostResetPanics \/ HostReads
    BY <2>8, HostGood
  <2>9. CASE UNCHANGED vars
    BY <2>9, Unchanged
  <2>10. QED
    BY <2>1, <2>2, <2>3, <2>4, <2>5, <2>6, <2>7, <2>8, <2>9 DEF Next
<1>2. QED
  BY <1>1, InitGood, PTL DEF Spec

(* The memories are typed, and the kernel's, the shared one and export are *)
(* among them.                                                             *)
THEOREM PdkTyped == Spec => []TypeOK
<1>1. PdkInv => TypeOK
  BY DEF PdkInv, MemInv, CallInv, DataInv, Parted, Starting, Phases, DataTypes, Values, TypeOK
<1>2. QED
  BY <1>1, PdkSafe, PTL

(* What a plugin gets is at most its max_pages, and as much again once its *)
(* instance is made, for every number of memories, failed instantiations   *)
(* and resets (memory_growing, instantiate).                               *)
THEOREM PdkWithinLimit == Spec => []WithinLimit
<1>1. PdkInv => WithinLimit
  <2> SUFFICES ASSUME PdkInv, limit # None
               PROVE  Held - Uncounted <= IF instance THEN 2 * limit ELSE limit
    BY DEF WithinLimit
  <2>1. MemoriesTypeOK /\ Held - Uncounted + left <= IF instance THEN limit + limit ELSE limit
    BY DEF PdkInv, MemInv, Accounted
  <2>2. limit \in Nat /\ left \in Nat /\ Held \in Nat /\ Uncounted \in Nat
    BY <2>1, MemoryTypes DEF MemoriesTypeOK
  <2>3. QED
    BY <2>1, <2>2
<1>2. QED
  BY <1>1, PdkSafe, PTL

(* Host functions of an extism call reach the plugin where it is.          *)
THEOREM PdkOwnPointers == Spec => []OwnPointers
<1>1. PdkInv => OwnPointers
  BY DEF PdkInv, CallInv
<1>2. QED
  BY <1>1, PdkSafe, PTL

(* After a reset the host works on a memory no guest ever writes to.       *)
THEOREM PdkPartedByReset == Spec => []PartedByReset
<1>1. PdkInv => PartedByReset
  BY DEF PdkInv, MemInv, Parted, PartedByReset
<1>2. QED
  BY <1>1, PdkSafe, PTL

(* The store of variables holds its limit and one value more at most.      *)
THEOREM PdkStoreBounded == Spec => []StoreBounded
<1>1. PdkInv => StoreBounded
  BY DEF PdkInv, DataInv
<1>2. QED
  BY <1>1, PdkSafe, PTL

(* Only a var_set that returns to its guest changes a variable, and only   *)
(* the one of its key.                                                     *)
THEOREM PdkVariablesKept == Spec => VariablesKept
<1> DEFINE Kept == variables' # variables =>
             /\ GuestRuns /\ phase' = phase
             /\ \E k \in Keys : \A other \in Keys \ {k} : variables'[other] = variables[other]
<1>1. PdkInv /\ [Next]_vars => [Kept]_vars
  <2> SUFFICES ASSUME PdkInv, Next, variables' # variables PROVE Kept
    OBVIOUS
  <2>1. PICK k \in Handles \cup {0}, v \in Handles \cup {0} : VarSet(k, v)
    BY DEF Next, Move, Call, Instantiate, Started, Initialized, SetInput, GuestAlloc, GuestFree,
           GuestGrows, GuestWrites, GuestReturns, GuestTraps, StalePointers, ConfigGet, VarGet,
           Log, HttpRequest, HostWrites, HostResets, HostResetPanics, HostReads, OnIdle, Err,
           dataVars
  <2>2. ~Err
    BY DEF Err, dataVars
  <2>3. /\ variables' = [variables EXCEPT ![Bytes(k)] = Bytes(v)] /\ IsStr(k)
        /\ HostFunction /\ UNCHANGED phase
    BY <2>1, <2>2 DEF VarSet
  <2>4. Bytes(k) \in Keys /\ \A other \in Keys \ {Bytes(k)} : variables'[other] = variables[other]
    BY <2>3 DEF IsStr, PdkInv, DataInv, DataTypes
  <2>5. QED
    BY <2>3, <2>4 DEF HostFunction
<1>2. QED
  BY <1>1, PdkSafe, PTL DEF Spec, VariablesKept

=============================================================================
