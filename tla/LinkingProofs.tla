---------------------------- MODULE LinkingProofs ---------------------------
(***************************************************************************)
(* What `manifest::load` and `build_new` make of a manifest, of any number *)
(* of entries with any names and imports, is what the reference definition *)
(* says: the loop over the entries finds main, tells the others apart and  *)
(* refuses the rest, and what is linked finds its imports.                 *)
(***************************************************************************)
EXTENDS Linking, SumProofs

-----------------------------------------------------------------------------
(* The loop of `modules` as a function of the number of turns.             *)
LoadTurn(wasm, f, i) == IF i = 0 THEN KernelOnly ELSE Add(wasm, f[i - 1], i)
Loads(f, wasm) == f = [i \in 0 .. Len(wasm) |-> LoadTurn(wasm, f, i)]
Loaded(wasm) == CHOOSE f : Loads(f, wasm)

LEMMA ModulesIs ==
  ASSUME NEW wasm
  PROVE  Modules(wasm) =
           IF wasm = <<>> THEN Error
           ELSE IF Len(wasm) = 1
                THEN IF ToModule(wasm[1]) THEN Insert(KernelOnly, MainName, 1) ELSE Error
                ELSE Loaded(wasm)[Len(wasm)]
BY DEF Modules, Loaded, Loads, LoadTurn

(* There is such a function: one for the first n entries, for every n.     *)
LEMMA LoadedExists ==
  ASSUME NEW wasm, Len(wasm) \in Nat
  PROVE  Loads(Loaded(wasm), wasm)
<1> DEFINE Good(n) == \E f : f = [i \in 0 .. n |-> LoadTurn(wasm, f, i)]
           Bad == {n \in Nat : ~Good(n)}
<1>1. Good(0)
  <2> DEFINE f == [i \in 0 .. 0 |-> KernelOnly]
  <2>1. f = [i \in 0 .. 0 |-> LoadTurn(wasm, f, i)]
    BY DEF LoadTurn
  <2>2. QED
    BY <2>1
<1>2. ASSUME NEW n \in Nat, Good(n) PROVE Good(n + 1)
  <2>1. PICK f : f = [i \in 0 .. n |-> LoadTurn(wasm, f, i)]
    BY <1>2
  <2> DEFINE g == [i \in 0 .. n + 1 |-> LoadTurn(wasm, f, i)]
  <2>2. \A i \in 0 .. n : f[i] = LoadTurn(wasm, f, i) /\ g[i] = f[i]
    BY <2>1
  <2>3. ASSUME NEW i \in 0 .. n + 1 PROVE LoadTurn(wasm, f, i) = LoadTurn(wasm, g, i)
    <3>1. CASE i = 0
      BY <3>1 DEF LoadTurn
    <3>2. CASE i # 0
      <4>1. i - 1 \in 0 .. n
        BY <3>2
      <4>2. g[i - 1] = f[i - 1]
        BY <2>2, <4>1
      <4> HIDE DEF g
      <4>3. QED
        BY <4>2 DEF LoadTurn
    <3>3. QED
      BY <3>1, <3>2
  <2>4. g = [i \in 0 .. n + 1 |-> LoadTurn(wasm, g, i)]
    BY <2>3
  <2> HIDE DEF g
  <2>5. QED
    BY <2>4
<1>3. Bad = {}
  <2>1. SUFFICES ASSUME Bad # {} PROVE FALSE
    OBVIOUS
  <2>2. Bad \in SUBSET Nat
    OBVIOUS
  <2> HIDE DEF Good
  <2>3. PICK m \in Bad : \A n \in Bad : m <= n
    BY <2>1, <2>2, LeastNumber
  <2>4. m \in Nat /\ m # 0
    BY <1>1, <2>3
  <2>5. m - 1 \in Nat /\ m - 1 \notin Bad
    BY <2>3, <2>4
  <2>6. Good(m)
    BY <2>4, <2>5, <1>2
  <2>7. QED
    BY <2>3, <2>6
<1>4. Good(Len(wasm))
  <2> HIDE DEF Good
  <2>1. QED
    BY <1>3
<1>5. PICK f : Loads(f, wasm)
  BY <1>4 DEF Loads
<1>6. QED
  BY <1>5 DEF Loaded

-----------------------------------------------------------------------------
(* The name under which an entry ends up among the modules.                *)
Key(wasm, i) ==
  IF i = Len(wasm) /\ \A j \in 1 .. i - 1 : NameOf(wasm[j]) # MainName
  THEN MainName ELSE NameOf(wasm[i])

(* The first i entries are modules that can be told apart.                 *)
Told(wasm, i) ==
  \A j \in 1 .. i : /\ ToModule(wasm[j]) /\ Key(wasm, j) # KernelName
                    /\ \A k \in 1 .. i : Key(wasm, j) = Key(wasm, k) => j = k

Holds(mods, wasm, i) ==
  /\ mods # Error /\ DOMAIN mods = {KernelName} \cup {Key(wasm, j) : j \in 1 .. i}
  /\ mods[KernelName] = 0 /\ \A j \in 1 .. i : mods[Key(wasm, j)] = j

LEMMA NoModules == DOMAIN Error = {}
BY DEF Error

(* One turn gives the entry its name, or refuses it.                       *)
LEMMA AddTold ==
  ASSUME NEW wasm, Len(wasm) \in Nat, NEW i \in 1 .. Len(wasm), NEW mods,
         Told(wasm, i - 1), Holds(mods, wasm, i - 1)
  PROVE  IF Told(wasm, i) THEN Holds(Add(wasm, mods, i), wasm, i)
         ELSE Add(wasm, mods, i) = Error
<1>1. PICK name : name = Key(wasm, i)
  OBVIOUS
<1>2. i - 1 \in Nat /\ 1 .. i = (1 .. i - 1) \cup {i} /\ i \notin 1 .. i - 1
  OBVIOUS
<1>3. \A j \in 1 .. i - 1 : Key(wasm, j) = NameOf(wasm[j])
  BY DEF Key
<1>4. MainName \notin DOMAIN mods <=> \A j \in 1 .. i - 1 : NameOf(wasm[j]) # MainName
  <2>1. KernelName # MainName
    BY LinkingAssumption
  <2>2. MainName \in DOMAIN mods
          <=> MainName = KernelName \/ \E j \in 1 .. i - 1 : Key(wasm, j) = MainName
    BY DEF Holds
  <2>3. QED
    BY <1>3, <2>1, <2>2
<1>5. name = IF i = Len(wasm) /\ MainName \notin DOMAIN mods
             THEN MainName ELSE NameOf(wasm[i])
  BY <1>1, <1>4 DEF Key
<1>6. Add(wasm, mods, i) = IF ~ToModule(wasm[i]) \/ name \in DOMAIN mods
                           THEN Error ELSE Insert(mods, name, i)
  <2>1. mods # Error
    BY DEF Holds
  <2>2. Add(wasm, mods, i) =
          LET n == IF i = Len(wasm) /\ MainName \notin DOMAIN mods
                   THEN MainName ELSE NameOf(wasm[i])
          IN IF mods = Error \/ ~ToModule(wasm[i]) \/ n \in DOMAIN mods THEN Error
             ELSE Insert(mods, n, i)
    BY DEF Add
  <2>3. QED
    BY <1>5, <2>1, <2>2
<1>7. name \in DOMAIN mods <=> name = KernelName \/ \E j \in 1 .. i - 1 : Key(wasm, j) = name
  BY DEF Holds
<1>8. Told(wasm, i) <=> ToModule(wasm[i]) /\ name \notin DOMAIN mods
  <2>1. ASSUME Told(wasm, i) PROVE ToModule(wasm[i]) /\ name \notin DOMAIN mods
    BY <1>1, <1>2, <1>7, <2>1 DEF Told
  <2>2. ASSUME ToModule(wasm[i]), name \notin DOMAIN mods PROVE Told(wasm, i)
    BY <1>1, <1>2, <1>7, <2>2 DEF Told
  <2>3. QED
    BY <2>1, <2>2
<1>9. ASSUME Told(wasm, i) PROVE Holds(Insert(mods, name, i), wasm, i)
  <2>1. PICK more : more = Insert(mods, name, i)
    OBVIOUS
  <2>2. /\ more # Error /\ DOMAIN more = DOMAIN mods \cup {name} /\ more[name] = i
        /\ \A n \in DOMAIN mods : n # name => more[n] = mods[n]
    <3>1. /\ DOMAIN more = DOMAIN mods \cup {name} /\ more[name] = i
          /\ \A n \in DOMAIN mods : n # name => more[n] = mods[n]
      BY <2>1 DEF Insert
    <3>2. QED
      BY <3>1, NoModules
  <2>3. name \notin DOMAIN mods
    BY <1>8, <1>9
  <2>4. DOMAIN more = {KernelName} \cup {Key(wasm, j) : j \in 1 .. i}
    <3>1. {Key(wasm, j) : j \in 1 .. i} = {Key(wasm, j) : j \in 1 .. i - 1} \cup {name}
      BY <1>1, <1>2
    <3>2. DOMAIN mods = {KernelName} \cup {Key(wasm, j) : j \in 1 .. i - 1}
      BY DEF Holds
    <3>3. QED
      BY <2>2, <3>1, <3>2
  <2>5. more[KernelName] = 0
    BY <2>2, <2>3 DEF Holds
  <2>6. \A j \in 1 .. i : more[Key(wasm, j)] = j
    <3>1. \A j \in 1 .. i - 1 : mods[Key(wasm, j)] = j /\ Key(wasm, j) \in DOMAIN mods
      BY DEF Holds
    <3>2. \A j \in 1 .. i - 1 : more[Key(wasm, j)] = j
      BY <2>2, <2>3, <3>1
    <3>3. QED
      BY <1>1, <1>2, <2>2, <3>2
  <2>7. QED
    BY <2>1, <2>2, <2>4, <2>5, <2>6 DEF Holds
<1>10. QED
  BY <1>6, <1>8, <1>9

LEMMA LoadedTold ==
  ASSUME NEW wasm, Len(wasm) \in Nat
  PROVE  \A i \in 0 .. Len(wasm) :
           IF Told(wasm, i) THEN Holds(Loaded(wasm)[i], wasm, i) ELSE Loaded(wasm)[i] = Error
<1> DEFINE f == Loaded(wasm)
           Fine(i) == IF Told(wasm, i) THEN Holds(f[i], wasm, i) ELSE f[i] = Error
           Bad == {i \in 0 .. Len(wasm) : ~Fine(i)}
<1>1. \A i \in 0 .. Len(wasm) : f[i] = LoadTurn(wasm, f, i)
  BY LoadedExists DEF Loads
<1>2. Fine(0)
  <2>1. f[0] = KernelOnly
    BY <1>1 DEF LoadTurn
  <2>2. DOMAIN KernelOnly = {KernelName} /\ KernelOnly[KernelName] = 0 /\ DOMAIN Error = {}
    BY DEF KernelOnly, Error
  <2>3. Holds(KernelOnly, wasm, 0)
    BY <2>2 DEF Holds
  <2>4. Told(wasm, 0)
    BY DEF Told
  <2>5. QED
    BY <2>1, <2>3, <2>4
<1>3. ASSUME NEW i \in 1 .. Len(wasm), Fine(i - 1) PROVE Fine(i)
  <2>1. f[i] = Add(wasm, f[i - 1], i)
    BY <1>1 DEF LoadTurn
  <2>2. CASE Told(wasm, i - 1)
    <3>1. PICK mods : mods = f[i - 1]
      OBVIOUS
    <3>2. Holds(mods, wasm, i - 1)
      BY <1>3, <2>2, <3>1
    <3>3. IF Told(wasm, i) THEN Holds(Add(wasm, mods, i), wasm, i) ELSE Add(wasm, mods, i) = Error
      BY <2>2, <3>2, AddTold
    <3>4. QED
      BY <2>1, <3>1, <3>3
  <2>3. CASE ~Told(wasm, i - 1)
    <3>1. f[i - 1] = Error
      BY <1>3, <2>3
    <3>2. f[i] = Error
      BY <2>1, <3>1 DEF Add
    <3>3. ~Told(wasm, i)
      BY <2>3 DEF Told
    <3>4. QED
      BY <3>2, <3>3
  <2>4. QED
    BY <2>2, <2>3
<1>4. Bad = {}
  <2>1. SUFFICES ASSUME Bad # {} PROVE FALSE
    OBVIOUS
  <2>2. Bad \in SUBSET Nat
    OBVIOUS
  <2> HIDE DEF Fine
  <2>3. PICK m \in Bad : \A n \in Bad : m <= n
    BY <2>1, <2>2, LeastNumber
  <2>4. m \in 1 .. Len(wasm)
    BY <1>2, <2>3
  <2>5. m - 1 \in 0 .. Len(wasm) /\ m - 1 \notin Bad
    BY <2>3, <2>4
  <2>6. Fine(m)
    BY <2>4, <2>5, <1>3
  <2>7. QED
    BY <2>3, <2>6
<1>5. QED
  BY <1>4

(* What `load` makes of a manifest.                                        *)
LEMMA ModulesTold ==
  ASSUME NEW wasm \in Seq(Entries)
  PROVE  IF wasm # <<>> /\ Told(wasm, Len(wasm)) THEN Holds(Modules(wasm), wasm, Len(wasm))
         ELSE Modules(wasm) = Error
<1>1. Len(wasm) \in Nat /\ (wasm = <<>> <=> Len(wasm) = 0)
  OBVIOUS
<1>2. CASE wasm = <<>>
  BY <1>2, ModulesIs
<1>3. CASE Len(wasm) = 1
  <2>1. Key(wasm, 1) = MainName
    BY <1>3 DEF Key
  <2>2. Told(wasm, 1) <=> ToModule(wasm[1])
    <3>1. KernelName # MainName /\ 1 .. 1 = {1}
      BY LinkingAssumption
    <3>2. QED
      BY <2>1, <3>1 DEF Told
  <2>3. PICK mods : mods = Insert(KernelOnly, MainName, 1)
    OBVIOUS
  <2>4. DOMAIN KernelOnly = {KernelName} /\ KernelOnly[KernelName] = 0
    BY DEF KernelOnly
  <2>5. /\ DOMAIN mods = DOMAIN KernelOnly \cup {MainName} /\ mods[MainName] = 1 /\ mods # Error
        /\ \A n \in DOMAIN KernelOnly : n # MainName => mods[n] = KernelOnly[n]
    <3>1. /\ DOMAIN mods = DOMAIN KernelOnly \cup {MainName} /\ mods[MainName] = 1
          /\ \A n \in DOMAIN KernelOnly : n # MainName => mods[n] = KernelOnly[n]
      BY <2>3 DEF Insert
    <3>2. QED
      BY <3>1, NoModules
  <2>6. Holds(mods, wasm, 1)
    <3>1. KernelName # MainName
      BY LinkingAssumption
    <3>2. {Key(wasm, j) : j \in 1 .. 1} = {MainName} /\ \A j \in 1 .. 1 : j = 1
      BY <2>1
    <3>3. QED
      BY <2>1, <2>4, <2>5, <3>1, <3>2 DEF Holds
  <2>7. wasm # <<>> /\ Modules(wasm) = IF ToModule(wasm[1]) THEN mods ELSE Error
    BY <1>1, <1>3, <2>3, ModulesIs
  <2>8. QED
    BY <1>3, <2>2, <2>6, <2>7
<1>4. CASE wasm # <<>> /\ Len(wasm) # 1
  <2>1. Modules(wasm) = Loaded(wasm)[Len(wasm)]
    BY <1>4, ModulesIs
  <2>2. Len(wasm) \in 0 .. Len(wasm)
    BY <1>1
  <2>3. QED
    BY <1>1, <1>4, <2>1, <2>2, LoadedTold
<1>5. QED
  BY <1>1, <1>2, <1>3, <1>4

-----------------------------------------------------------------------------
(* Main's name in the loop is "main", and the others have their own.       *)
LEMMA MainKey ==
  ASSUME NEW wasm \in Seq(Entries), wasm # <<>>
  PROVE  /\ Main(wasm) \in 1 .. Len(wasm) /\ Key(wasm, Main(wasm)) = MainName
         /\ \A j \in 1 .. Len(wasm) : j # Main(wasm) => Key(wasm, j) = NameOf(wasm[j])
<1> DEFINE named == {i \in DOMAIN wasm : wasm[i].name \in {0, MainName}}
<1>1. Len(wasm) \in Nat /\ Len(wasm) # 0 /\ DOMAIN wasm = 1 .. Len(wasm)
  OBVIOUS
<1>2. Main(wasm) = IF Len(wasm) = 1 \/ named = {} THEN Len(wasm) ELSE CHOOSE i \in named : TRUE
  BY DEF Main
<1>3. \A i \in DOMAIN wasm : NameOf(wasm[i]) = MainName <=> i \in named
  BY DEF NameOf
<1>4. named \subseteq 1 .. Len(wasm)
  BY <1>1
<1> HIDE DEF named
<1>5. CASE Len(wasm) = 1
  <2>1. Main(wasm) = 1 /\ \A j \in 1 .. Len(wasm) : j = 1
    BY <1>2, <1>5
  <2>2. Key(wasm, 1) = MainName
    BY <1>5 DEF Key
  <2>3. QED
    BY <1>5, <2>1, <2>2
<1>6. CASE Len(wasm) # 1 /\ named = {}
  <2>1. Main(wasm) = Len(wasm)
    BY <1>2, <1>6
  <2>2. Key(wasm, Len(wasm)) = MainName
    BY <1>1, <1>3, <1>6 DEF Key
  <2>3. \A j : j # Len(wasm) => Key(wasm, j) = NameOf(wasm[j])
    BY DEF Key
  <2>4. Len(wasm) \in 1 .. Len(wasm)
    BY <1>1
  <2>5. QED
    BY <2>1, <2>2, <2>3, <2>4
<1>7. CASE Len(wasm) # 1 /\ named # {}
  <2>1. Main(wasm) \in named
    BY <1>2, <1>7
  <2>2. Main(wasm) \in 1 .. Len(wasm) /\ NameOf(wasm[Main(wasm)]) = MainName
    BY <1>1, <1>3, <1>4, <2>1
  <2>3. Key(wasm, Main(wasm)) = MainName
    BY <2>2 DEF Key
  <2>4. ASSUME NEW j \in 1 .. Len(wasm), j # Main(wasm)
        PROVE  Key(wasm, j) = NameOf(wasm[j])
    <3>1. CASE j # Len(wasm)
      BY <3>1 DEF Key
    <3>2. CASE j = Len(wasm)
      <4>1. Main(wasm) \in 1 .. j - 1
        BY <1>1, <2>2, <2>4, <3>2
      <4>2. QED
        BY <2>2, <4>1 DEF Key
    <3>3. QED
      BY <3>1, <3>2
  <2>5. QED
    BY <2>2, <2>3, <2>4
<1>8. QED
  BY <1>5, <1>6, <1>7

LEMMA EntryFacts ==
  ASSUME NEW wasm \in Seq(Entries), NEW i \in 1 .. Len(wasm)
  PROVE  wasm[i].name \in Names \cup {0} /\ wasm[i].pdk \in BOOLEAN
<1>1. wasm[i] \in Entries
  OBVIOUS
<1>2. QED
  BY <1>1 DEF Entries

(* What the loop can tell apart is what is named well.                     *)
LEMMA ToldNamed ==
  ASSUME NEW wasm \in Seq(Entries), wasm # <<>>
  PROVE  /\ Told(wasm, Len(wasm))
              <=> WellNamed(wasm) /\ \A i \in DOMAIN wasm : ToModule(wasm[i])
         /\ WellNamed(wasm)
              => \A j \in DOMAIN wasm \ {Main(wasm)} :
                   Key(wasm, j) = wasm[j].name /\ wasm[j].name \in LibNames
<1>1. DOMAIN wasm = 1 .. Len(wasm)
  OBVIOUS
<1>2. PICK m : m = Main(wasm)
  OBVIOUS
<1>3. /\ m \in 1 .. Len(wasm) /\ Key(wasm, m) = MainName
      /\ \A j \in 1 .. Len(wasm) : j # m => Key(wasm, j) = NameOf(wasm[j])
  BY <1>2, MainKey
<1>4. /\ MainName # KernelName /\ 0 \notin LibNames
      /\ MainName \notin LibNames /\ KernelName \notin LibNames
  BY LinkingAssumption
<1>5. \A j \in 1 .. Len(wasm) : j # m =>
        /\ wasm[j].name \in LibNames => Key(wasm, j) = wasm[j].name
        /\ Key(wasm, j) # MainName /\ Key(wasm, j) # KernelName
             => wasm[j].name \in LibNames /\ Key(wasm, j) = wasm[j].name
  BY <1>3, <1>4, EntryFacts DEF NameOf, Names
<1>6. WellNamed(wasm) <=>
        /\ \A i \in (1 .. Len(wasm)) \ {m} : wasm[i].name \in LibNames
        /\ \A i, j \in (1 .. Len(wasm)) \ {m} : wasm[i].name = wasm[j].name => i = j
  BY <1>1, <1>2 DEF WellNamed
<1>7. ASSUME Told(wasm, Len(wasm)) PROVE WellNamed(wasm)
  <2>1. \A j \in 1 .. Len(wasm) : j # m => wasm[j].name \in LibNames /\ Key(wasm, j) = wasm[j].name
    BY <1>3, <1>5, <1>7 DEF Told
  <2>2. \A i, j \in 1 .. Len(wasm) : Key(wasm, i) = Key(wasm, j) => i = j
    BY <1>7 DEF Told
  <2>3. QED
    BY <1>6, <2>1, <2>2
<1>8. ASSUME WellNamed(wasm), \A i \in DOMAIN wasm : ToModule(wasm[i])
      PROVE  Told(wasm, Len(wasm))
  <2>1. \A j \in 1 .. Len(wasm) : j # m => wasm[j].name \in LibNames /\ Key(wasm, j) = wasm[j].name
    BY <1>5, <1>6, <1>8
  <2>2. \A j \in 1 .. Len(wasm) : Key(wasm, j) # KernelName
    BY <1>3, <1>4, <2>1
  <2>3. ASSUME NEW i \in 1 .. Len(wasm), NEW j \in 1 .. Len(wasm), Key(wasm, i) = Key(wasm, j)
        PROVE  i = j
    BY <1>3, <1>4, <1>6, <1>8, <2>1, <2>3
  <2>4. QED
    BY <1>1, <1>8, <2>2, <2>3 DEF Told
<1>9. Told(wasm, Len(wasm)) => \A i \in DOMAIN wasm : ToModule(wasm[i])
  BY <1>1 DEF Told
<1>10. WellNamed(wasm)
         => \A j \in DOMAIN wasm \ {Main(wasm)} :
              Key(wasm, j) = wasm[j].name /\ wasm[j].name \in LibNames
  BY <1>1, <1>2, <1>5, <1>6
<1>11. QED
  BY <1>7, <1>8, <1>9, <1>10

(* What is linked finds its imports exactly if it uses what it may.        *)
LEMMA LinkedWell ==
  ASSUME NEW wasm \in Seq(Entries), wasm # <<>>, NEW functions, NEW mods,
         WellNamed(wasm), Holds(mods, wasm, Len(wasm))
  PROVE  Links(wasm, mods, functions) <=> WellLinked(wasm, functions)
<1>1. PICK m : m = Main(wasm)
  OBVIOUS
<1>2. PICK others : others = (1 .. Len(wasm)) \ {m}
  OBVIOUS
<1>3. /\ m \in 1 .. Len(wasm) /\ Key(wasm, m) = MainName
      /\ \A j \in others : Key(wasm, j) = wasm[j].name /\ wasm[j].name \in LibNames
  BY <1>1, <1>2, MainKey, ToldNamed
<1>4. /\ MainName # KernelName /\ MainName \notin LibNames /\ KernelName \notin LibNames
  BY LinkingAssumption
<1>5. PICK libs : libs = DOMAIN mods \ {MainName}
  OBVIOUS
<1>6. /\ MainName \in DOMAIN mods /\ mods[MainName] = m /\ mods[KernelName] = 0
      /\ \A j \in others : mods[wasm[j].name] = j /\ wasm[j].name \in libs
  BY <1>2, <1>3, <1>4, <1>5 DEF Holds
<1>7. \A n : n \in libs <=> n = KernelName \/ \E j \in others : wasm[j].name = n
  <2>1. \A n : n \in DOMAIN mods <=> n = KernelName \/ \E j \in 1 .. Len(wasm) : Key(wasm, j) = n
    BY DEF Holds
  <2>2. QED
    BY <1>2, <1>3, <1>4, <1>5, <2>1
<1>8. (\A n \in libs : LinksLib(wasm, mods, {l \in libs : l < n}, n))
        <=> \A j \in others :
              /\ ~wasm[j].pdk /\ wasm[j].functions = {}
              /\ \A l \in wasm[j].needs : l \in libs /\ l < wasm[j].name
  <2>1. ASSUME NEW j \in others
        PROVE  LinksLib(wasm, mods, {l \in libs : l < wasm[j].name}, wasm[j].name)
                 <=> /\ ~wasm[j].pdk /\ wasm[j].functions = {}
                     /\ \A l \in wasm[j].needs : l \in libs /\ l < wasm[j].name
    <3>1. mods[wasm[j].name] = j /\ j # 0
      BY <1>2, <1>6
    <3>2. LinksLib(wasm, mods, {l \in libs : l < wasm[j].name}, wasm[j].name)
            <=> Resolves(wasm[j], {l \in libs : l < wasm[j].name}, FALSE, {})
      BY <3>1 DEF LinksLib
    <3>3. QED
      BY <3>2 DEF Resolves
  <2>2. LinksLib(wasm, mods, {l \in libs : l < KernelName}, KernelName)
    BY <1>6 DEF LinksLib
  <2>3. QED
    <3> DEFINE Fits(n) == LinksLib(wasm, mods, {l \in libs : l < n}, n)
    <3>1. Fits(KernelName) /\ \A j \in others : Fits(wasm[j].name) <=>
                     /\ ~wasm[j].pdk /\ wasm[j].functions = {}
                     /\ \A l \in wasm[j].needs : l \in libs /\ l < wasm[j].name
      BY <2>1, <2>2
    <3> HIDE DEF Fits
    <3>2. (\A n \in libs : Fits(n)) <=> \A j \in others : Fits(wasm[j].name)
      BY <1>7, <3>1
    <3>3. (\A n \in libs : Fits(n))
            <=> \A j \in others :
                  /\ ~wasm[j].pdk /\ wasm[j].functions = {}
                  /\ \A l \in wasm[j].needs : l \in libs /\ l < wasm[j].name
      BY <3>1, <3>2
    <3>4. QED
      BY <3>3 DEF Fits
<1>9. Resolves(wasm[mods[MainName]], libs, TRUE, functions)
        <=> /\ \A l \in wasm[m].needs : l \in libs
            /\ wasm[m].functions \subseteq functions
  BY <1>6 DEF Resolves
<1>10. Links(wasm, mods, functions) <=>
         /\ \A n \in libs : LinksLib(wasm, mods, {l \in libs : l < n}, n)
         /\ Resolves(wasm[mods[MainName]], libs, TRUE, functions)
  BY <1>5, <1>6 DEF Links
<1>11. WellLinked(wasm, functions) <=>
         /\ \A l \in wasm[m].needs : l \in libs
         /\ wasm[m].functions \subseteq functions
         /\ \A j \in others :
              /\ ~wasm[j].pdk /\ wasm[j].functions = {}
              /\ \A l \in wasm[j].needs : l \in libs /\ l < wasm[j].name
  <2>1. others = DOMAIN wasm \ {Main(wasm)}
    BY <1>1, <1>2
  <2>2. WellLinked(wasm, functions) <=>
         /\ \A n \in wasm[m].needs : n = KernelName \/ \E i \in others : wasm[i].name = n
         /\ wasm[m].functions \subseteq functions
         /\ \A i \in others :
              /\ ~wasm[i].pdk /\ wasm[i].functions = {}
              /\ \A n \in wasm[i].needs :
                   (n = KernelName \/ \E k \in others : wasm[k].name = n) /\ n < wasm[i].name
    BY <1>1, <2>1 DEF WellLinked
  <2>3. QED
    BY <1>7, <2>2
<1>12. QED
  BY <1>8, <1>9, <1>10, <1>11

(* A plugin can be linked from a manifest exactly if its entries can be    *)
(* told apart and use what they may, whatever their number (`load`,        *)
(* `modules`, build_new).                                                  *)
THEOREM LinkingAccepts ==
  ASSUME NEW wasm \in Seq(Entries), NEW functions
  PROVE  Links(wasm, Modules(wasm), functions) <=> Accepted(wasm, functions)
<1>1. CASE wasm # <<>> /\ Told(wasm, Len(wasm))
  <2>1. PICK mods : mods = Modules(wasm)
    OBVIOUS
  <2>2. Holds(mods, wasm, Len(wasm))
    BY <1>1, <2>1, ModulesTold
  <2>3. WellNamed(wasm) /\ \A i \in DOMAIN wasm : ToModule(wasm[i])
    BY <1>1, ToldNamed
  <2>4. Links(wasm, mods, functions) <=> WellLinked(wasm, functions)
    BY <1>1, <2>2, <2>3, LinkedWell
  <2>5. QED
    BY <1>1, <2>1, <2>3, <2>4 DEF Accepted
<1>2. CASE ~(wasm # <<>> /\ Told(wasm, Len(wasm)))
  <2>1. Modules(wasm) = Error
    BY <1>2, ModulesTold
  <2>2. ~Links(wasm, Error, functions)
    BY NoModules DEF Links
  <2>3. ~Accepted(wasm, functions)
    BY <1>2, ToldNamed DEF Accepted
  <2>4. QED
    BY <2>1, <2>2, <2>3
<1>3. QED
  BY <1>1, <1>2

=============================================================================
