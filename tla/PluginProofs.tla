---------------------------- MODULE PluginProofs ----------------------------
(***************************************************************************)
(* What the calls of any number of threads on one plugin guarantee, and    *)
(* that they implement Calls, for every set of threads and every number of *)
(* operations.                                                             *)
(***************************************************************************)
EXTENDS PluginRefinement, TLAPS

(* The numbers of operations: the call that runs has the last one, and no  *)
(* two calls have the same.                                                *)
Numbered ==
  /\ \A t \in Threads : job[t].n <= count
  /\ \A t \in Threads : lock = t => job[t].n = count /\ count > 0
  /\ \A t \in Threads : pc[t] \in {"returned", "length"} => job[t].n > 0
  /\ \A t, u \in Threads : t # u /\ job[t].n = job[u].n => job[t].n = 0

(* Nothing is cached before there is an instance.                          *)
FirstCached == ~instance => cached = Nothing

(* What is known of a call whose name was refused, of any other before its *)
(* guest runs, while it runs and until it is judged, and after a failure.  *)
Refused(t) ==
  ~job[t].named =>
    /\ pc[t] \in {"failed", "returned", "idle", "panicked"}
    /\ job[t].end = "none" /\ job[t].verdict = "err" /\ job[t].rc = -1

Before(t) ==
  pc[t] \in {"instantiate", "input", "lookup"} =>
    /\ job[t].end = "none" /\ job[t].wrote = 0 /\ ~job[t].raised
    /\ job[t].verdict = "none" /\ (pc[t] # "instantiate" => instance)
    /\ ~poisoned /\ (pc[t] = "input" => Extism(t))
    /\ pc[t] = "lookup" /\ Extism(t) => kernel = Nothing /\ cached = Nothing

During(t) ==
  pc[t] \in {"guest", "finish"} =>
    /\ instance /\ ~poisoned
    /\ job[t].verdict = "none" /\ (pc[t] = "guest" <=> job[t].end = "none")
    /\ Extism(t) => /\ cached = Nothing /\ kernel.output = job[t].wrote
                    /\ (job[t].raised <=> HasText(kernel.error))
                    /\ kernel.error.by \in {0, job[t].n}

Failed(t) ==
  pc[t] = "failed" =>
    /\ job[t].verdict = "err" /\ ~poisoned
    /\ Extism(t) /\ job[t].named =>
         /\ cached.output = IF Ran(t) THEN job[t].wrote ELSE 0
         /\ cached.error.by \in {0, job[t].n}
    /\ ~Extism(t) => job[t].end \notin {"return", "exit 0"} \/ HasText(cached.error)

(* The three properties, for one thread and a name that was not refused.   *)
Judged(t) ==
  pc[t] \in {"failed", "returned", "length"} /\ Extism(t) /\ Ran(t)
    => (job[t].verdict = "ok" <=> EndedWell(t))

Shown(t) ==
  pc[t] \in {"returned", "length"} /\ Extism(t) /\ count = job[t].n /\ job[t].named
    => /\ cached.output = IF Ran(t) THEN job[t].wrote ELSE 0
       /\ cached.error.by \in {0, job[t].n}
       /\ job[t].verdict = "ok" => ~HasText(cached.error)

ThreadInv(t) ==
  Refused(t) /\ Before(t) /\ During(t) /\ Failed(t) /\ Judged(t) /\ Shown(t)

PluginInv ==
  /\ TypeOK
  /\ Numbered
  /\ FirstCached
  /\ \A t \in Threads : ThreadInv(t)

LEMMA InvProperties == PluginInv => OwnVerdict /\ FreshOutput /\ OwnError
<1> SUFFICES ASSUME PluginInv PROVE OwnVerdict /\ FreshOutput /\ OwnError
  OBVIOUS
<1>1. OwnVerdict
  BY DEF PluginInv, ThreadInv, Judged, OwnVerdict
<1>2. ASSUME NEW t \in Threads, pc[t] \in {"returned", "length"}, ~job[t].named
      PROVE  /\ pc[t] = "returned" /\ job[t].rc = -1 /\ job[t].verdict = "err"
  BY <1>2 DEF PluginInv, ThreadInv, Refused
<1>3. FreshOutput
  BY <1>2 DEF PluginInv, ThreadInv, Shown, FreshOutput, Throws, At
<1>4. OwnError
  BY <1>2 DEF PluginInv, ThreadInv, Shown, OwnError
<1>5. QED
  BY <1>1, <1>3, <1>4

-----------------------------------------------------------------------------
Jobs ==
  [n : Nat, kind : {"extism", "native"}, named : BOOLEAN,
   end : {"none", "return", "trap", "exit 0", "exit 1"},
   wrote : Nat, raised : BOOLEAN, verdict : {"none", "ok", "err"}, rc : -1 .. 1]

LEMMA InitInv == Init => PluginInv
<1> SUFFICES ASSUME Init PROVE PluginInv
  OBVIOUS
<1> USE DEF Init, Nothing, NoError, Error, NewJob
<1>1. TypeOK
  <2>1. kernel \in Registers /\ cached \in Registers
    BY DEF Registers
  <2>2. pc \in [Threads -> Places]
    BY DEF Places
  <2>3. NewJob(0, "extism") \in Jobs
    BY DEF Jobs
  <2>4. job \in [Threads -> Jobs]
    BY <2>3
  <2>5. \A t \in Threads : lock = t <=> pc[t] \notin {"idle", "returned", "length", "panicked"}
    BY PluginAssumption
  <2>6. QED
    BY <2>1, <2>2, <2>4, <2>5 DEF TypeOK, Jobs
<1>2. Numbered /\ FirstCached
  BY PluginAssumption DEF Numbered, FirstCached
<1>3. \A t \in Threads : ThreadInv(t)
  BY DEF ThreadInv, Refused, Before, During, Failed, Judged, Shown
<1>4. QED
  BY <1>1, <1>2, <1>3 DEF PluginInv

-----------------------------------------------------------------------------
(* A step of the thread that has the lock: the numbers keep the others     *)
(* from what it does to the registers and caches.                          *)
Outside == {"idle", "returned", "length", "panicked"}

Moved(t) ==
  /\ pc' \in [Threads -> Places] /\ job' \in [Threads -> Jobs]
  /\ \A u \in Threads \ {t} : pc'[u] = pc[u] /\ job'[u] = job[u]

LEMMA Types ==
  ASSUME TypeOK
  PROVE  /\ lock \in Threads \cup {NoThread} /\ poisoned \in BOOLEAN /\ instance \in BOOLEAN
         /\ kernel \in Registers /\ cached \in Registers /\ count \in Nat
         /\ pc \in [Threads -> Places] /\ job \in [Threads -> Jobs]
         /\ \A t \in Threads : job[t].n \in Nat
         /\ \A t \in Threads : lock = t <=> pc[t] \notin Outside
BY DEF TypeOK, Jobs, Outside

LEMMA Typed ==
  ASSUME lock' \in Threads \cup {NoThread}, poisoned' \in BOOLEAN, instance' \in BOOLEAN,
         kernel' \in Registers, cached' \in Registers, count' \in Nat,
         pc' \in [Threads -> Places], job' \in [Threads -> Jobs],
         \A t \in Threads : lock' = t <=> pc'[t] \notin Outside
  PROVE  TypeOK'
BY DEF TypeOK, Jobs, Outside

LEMMA NothingShown ==
  Nothing.output = 0 /\ Nothing.error.by = 0 /\ ~HasText(Nothing.error)
BY DEF Nothing, NoError, Error, HasText

LEMMA RegisterTypes ==
  /\ Nothing \in Registers
  /\ \A r \in Registers : r.output \in Nat /\ r.error.by \in Nat /\ r.error.length \in {0, 1}
  /\ \A r \in Registers, n \in Nat, len \in {0, 1} :
       /\ [r EXCEPT !.output = n] \in Registers
       /\ [r EXCEPT !.error = Error(n, len)] \in Registers
       /\ [output |-> n, error |-> Error(n, len)] \in Registers
       /\ [r EXCEPT !.error = NoError] \in Registers
BY DEF Nothing, NoError, Error, Registers

(* A thread that does not move keeps what is known of it, as long as what  *)
(* it depends on stays; outside the lock only the number of the last       *)
(* operation matters.                                                      *)
LEMMA ThreadUnmoved ==
  ASSUME NEW u \in Threads, ThreadInv(u), pc'[u] = pc[u], job'[u] = job[u],
         UNCHANGED <<poisoned, instance, kernel, cached, count>>
  PROVE  ThreadInv(u)'
<1>1. Before(u)'
  BY DEF ThreadInv, Before, Extism
<1>2. During(u)'
  BY DEF ThreadInv, During, Extism
<1>3. Failed(u)'
  BY DEF ThreadInv, Failed, Extism, Ran
<1>4. Judged(u)'
  BY DEF ThreadInv, Judged, Extism, Ran, EndedWell
<1>5. Shown(u)'
  BY DEF ThreadInv, Shown, Extism, Ran
<1>6. Refused(u)'
  BY DEF ThreadInv, Refused
<1>7. QED
  BY <1>1, <1>2, <1>3, <1>4, <1>5, <1>6 DEF ThreadInv

LEMMA OutsideUnmoved ==
  ASSUME NEW u \in Threads, ThreadInv(u), pc[u] \in Outside,
         pc'[u] = pc[u], job'[u] = job[u], count' # job[u].n
  PROVE  ThreadInv(u)'
<1>1. Before(u)' /\ During(u)' /\ Failed(u)'
  BY DEF Before, During, Failed, Outside
<1>2. Judged(u)'
  BY DEF ThreadInv, Judged, Extism, Ran, EndedWell
<1>3. Shown(u)'
  BY DEF Shown
<1>4. Refused(u)'
  BY DEF ThreadInv, Refused
<1>5. QED
  BY <1>1, <1>2, <1>3, <1>4 DEF ThreadInv

LEMMA HolderStep ==
  ASSUME PluginInv, NEW t \in Threads, lock = t, Moved(t),
         kernel' \in Registers, cached' \in Registers, count' = count,
         poisoned' \in BOOLEAN, instance' \in BOOLEAN,
         job'[t].n = job[t].n, lock' \in {t, NoThread}, lock' = t <=> pc'[t] \notin Outside,
         FirstCached', ThreadInv(t)'
  PROVE  PluginInv'
<1> USE PluginAssumption
<1>1. TypeOK'
  <2>1. \A u \in Threads : lock' = u <=> pc'[u] \notin Outside
    BY Types DEF PluginInv, Moved
  <2>2. QED
    BY <2>1, Types, Typed DEF PluginInv, Moved
<1>2. \A u \in Threads \ {t} : pc[u] \in Outside /\ job[u].n # count
  BY Types DEF PluginInv, Numbered
<1>3. \A u \in Threads : job'[u].n = job[u].n /\ job[u].n \in Nat
  BY Types DEF PluginInv, Moved
<1>4. Numbered'
  <2>1. count > 0 /\ job[t].n = count
    BY DEF PluginInv, Numbered
  <2>2. \A u \in Threads : pc'[u] \in {"returned", "length"} => job'[u].n > 0
    BY <1>3, <2>1 DEF PluginInv, Numbered, Moved
  <2>3. \A u \in Threads : job'[u].n <= count'
    BY <1>3 DEF PluginInv, Numbered
  <2>4. \A u, v \in Threads : u # v /\ job'[u].n = job'[v].n => job'[u].n = 0
    BY <1>3 DEF PluginInv, Numbered
  <2>5. \A u \in Threads : lock' = u => job'[u].n = count' /\ count' > 0
    BY <1>3, <2>1
  <2>6. QED
    BY <2>2, <2>3, <2>4, <2>5 DEF Numbered
<1>5. ASSUME NEW u \in Threads \ {t} PROVE ThreadInv(u)'
  <2>1. pc[u] \in Outside /\ job[u].n # count
    BY <1>2
  <2>2. pc'[u] = pc[u] /\ job'[u] = job[u] /\ count' = count
    BY DEF Moved
  <2>3. ThreadInv(u)
    BY DEF PluginInv
  <2>4. QED
    BY <2>1, <2>2, <2>3, OutsideUnmoved
<1>6. QED
  BY <1>1, <1>4, <1>5 DEF PluginInv

(* What the steps of a call do to the thread's own state.                  *)
Same(t) ==
  /\ job'[t].n = job[t].n /\ job'[t].kind = job[t].kind /\ job'[t].end = job[t].end
  /\ job'[t].wrote = job[t].wrote /\ job'[t].raised = job[t].raised
  /\ job'[t].named = job[t].named

LEMMA GotoMoves ==
  ASSUME TypeOK, NEW t \in Threads, NEW place \in Places, Goto(t, place), job' = job
  PROVE  Moved(t) /\ pc'[t] = place /\ Same(t) /\ job'[t] = job[t]
BY Types DEF Goto, Moved, Same

LEMMA JobMoves ==
  ASSUME TypeOK, NEW t \in Threads, NEW j \in Jobs, job' = [job EXCEPT ![t] = j],
         pc' = pc \/ \E place \in Places : Goto(t, place)
  PROVE  Moved(t) /\ job'[t] = j
<1>1. job \in [Threads -> Jobs] /\ pc \in [Threads -> Places]
  BY Types
<1>2. job' \in [Threads -> Jobs] /\ job'[t] = j /\ \A u \in Threads \ {t} : job'[u] = job[u]
  BY <1>1
<1>3. pc' \in [Threads -> Places] /\ \A u \in Threads \ {t} : pc'[u] = pc[u]
  BY <1>1 DEF Goto
<1>4. QED
  BY <1>2, <1>3 DEF Moved

LEMMA VerdictMoves ==
  ASSUME TypeOK, NEW t \in Threads, NEW place \in Places, Goto(t, place),
         NEW verdict \in {"ok", "err"}, NEW rc \in -1 .. 1,
         job' = [job EXCEPT ![t].verdict = verdict, ![t].rc = rc]
  PROVE  Moved(t) /\ pc'[t] = place /\ Same(t) /\ job'[t].verdict = verdict
<1>1. job[t] \in Jobs /\ job \in [Threads -> Jobs] /\ pc \in [Threads -> Places]
  BY Types
<1> DEFINE j == [job[t] EXCEPT !.verdict = verdict, !.rc = rc]
<1>2. j \in Jobs /\ j.n = job[t].n /\ j.kind = job[t].kind /\ j.end = job[t].end
      /\ j.wrote = job[t].wrote /\ j.raised = job[t].raised /\ j.verdict = verdict
      /\ j.named = job[t].named
  BY <1>1 DEF Jobs
<1>3. job' = [job EXCEPT ![t] = j]
  BY <1>1
<1> HIDE DEF j
<1>4. Moved(t) /\ job'[t] = j
  BY <1>2, <1>3, JobMoves
<1>5. pc'[t] = place
  BY <1>1 DEF Goto
<1>6. QED
  BY <1>2, <1>4, <1>5 DEF Same

LEMMA FailMoves ==
  ASSUME TypeOK, NEW t \in Threads, NEW rc \in -1 .. 1, Fail(t, rc)
  PROVE  Moved(t) /\ pc'[t] = "failed" /\ Same(t) /\ job'[t].verdict = "err"
BY VerdictMoves DEF Fail, Places

(* A panic: nobody has the lock, and no call is left to be judged.         *)
LEMMA PanicInv ==
  ASSUME PluginInv, NEW t \in Threads, lock = t, Panic(t)
  PROVE  PluginInv'
<1>1. Moved(t) /\ pc'[t] = "panicked" /\ Same(t) /\ job'[t] = job[t]
  BY GotoMoves DEF PluginInv, Panic, Places
<1>2. ThreadInv(t)'
  <2>1. Refused(t)
    BY DEF PluginInv, ThreadInv
  <2>2. Refused(t)'
    BY <1>1, <2>1 DEF Refused
  <2>3. QED
    BY <1>1, <2>2 DEF ThreadInv, Before, During, Failed, Judged, Shown
<1>3. FirstCached'
  BY DEF PluginInv, FirstCached, Panic
<1>4. kernel' \in Registers /\ cached' \in Registers /\ instance' \in BOOLEAN
      /\ poisoned' \in BOOLEAN /\ count' = count
  BY Types DEF PluginInv, Panic
<1>5. lock' = NoThread /\ t # NoThread
  BY PluginAssumption DEF Panic
<1>6. QED
  BY <1>1, <1>2, <1>3, <1>4, <1>5, HolderStep DEF Same, Outside

(* The record of a call whose name is refused.                             *)
LEMMA UnnamedJob ==
  ASSUME NEW n \in Nat, NEW kind \in {"extism", "native"}, NEW j, j = Unnamed(n, kind)
  PROVE  /\ j \in Jobs /\ j.n = n /\ j.kind = kind /\ j.end = "none" /\ j.wrote = 0
         /\ ~j.raised /\ j.verdict = "err" /\ ~j.named /\ j.rc = -1
<1> DEFINE b == NewJob(n, kind)
<1>1. /\ b \in Jobs /\ b.n = n /\ b.kind = kind /\ b.end = "none" /\ b.wrote = 0
      /\ ~b.raised
  BY DEF NewJob, Jobs
<1>2. j = [b EXCEPT !.named = FALSE, !.verdict = "err", !.rc = -1]
  BY DEF Unnamed
<1> HIDE DEF b
<1>3. -1 \in -1 .. 1
  OBVIOUS
<1>4. QED
  BY <1>1, <1>2, <1>3 DEF Jobs

LEMMA Enters ==
  ASSUME NEW t \in Threads, NEW kind \in {"extism", "native"}, TypeOK, Enter(t, kind)
  PROVE  /\ Moved(t) /\ job'[t].n = count + 1 /\ job'[t].kind = kind
         /\ job'[t].end = "none" /\ job'[t].wrote = 0 /\ ~job'[t].raised
         /\ \/ pc'[t] = "instantiate" /\ job'[t].verdict = "none" /\ job'[t].named
            \/ /\ pc'[t] = "failed" /\ job'[t].verdict = "err" /\ ~job'[t].named
               /\ job'[t].rc = -1
<1>1. count + 1 \in Nat /\ pc \in [Threads -> Places]
  BY Types
<1>2. CASE job' = [job EXCEPT ![t] = NewJob(count + 1, kind)] /\ Goto(t, "instantiate")
  <2> DEFINE j == NewJob(count + 1, kind)
  <2>1. /\ j \in Jobs /\ j.n = count + 1 /\ j.kind = kind /\ j.end = "none" /\ j.wrote = 0
        /\ ~j.raised /\ j.verdict = "none" /\ j.named
    BY <1>1 DEF NewJob, Jobs
  <2> HIDE DEF j
  <2>2. Moved(t) /\ job'[t] = j
    BY <1>2, <2>1, JobMoves DEF Places, j
  <2>3. pc'[t] = "instantiate"
    BY <1>1, <1>2 DEF Goto
  <2>4. QED
    BY <2>1, <2>2, <2>3
<1>3. CASE job' = [job EXCEPT ![t] = Unnamed(count + 1, kind)] /\ Goto(t, "failed")
  <2> DEFINE j == Unnamed(count + 1, kind)
  <2>1. /\ j \in Jobs /\ j.n = count + 1 /\ j.kind = kind /\ j.end = "none" /\ j.wrote = 0
        /\ ~j.raised /\ j.verdict = "err" /\ ~j.named /\ j.rc = -1
    BY <1>1, UnnamedJob
  <2> HIDE DEF j
  <2>2. Moved(t) /\ job'[t] = j
    BY <1>3, <2>1, JobMoves DEF Places, j
  <2>3. pc'[t] = "failed"
    BY <1>1, <1>3 DEF Goto
  <2>4. QED
    BY <2>1, <2>2, <2>3
<1>4. QED
  BY <1>2, <1>3 DEF Enter

LEMMA CallInv ==
  ASSUME PluginInv, NEW t \in Threads, NEW kind \in {"extism", "native"}, Call(t, kind)
  PROVE  PluginInv'
<1> USE PluginAssumption DEF PluginInv
<1>1. count \in Nat /\ \A u \in Threads : job[u].n \in Nat /\ job[u].n <= count
  BY Types DEF Numbered
<1>2. /\ lock = NoThread /\ lock' = t /\ count' = count + 1 /\ ~poisoned /\ Enter(t, kind)
      /\ UNCHANGED <<poisoned, instance, kernel, cached>>
  BY DEF Call
<1>3. /\ Moved(t) /\ job'[t].n = count + 1 /\ job'[t].end = "none" /\ job'[t].wrote = 0
      /\ ~job'[t].raised
      /\ \/ pc'[t] = "instantiate" /\ job'[t].verdict = "none" /\ job'[t].named
         \/ /\ pc'[t] = "failed" /\ job'[t].verdict = "err" /\ ~job'[t].named
            /\ job'[t].rc = -1
  BY <1>2, Enters
<1>4. TypeOK'
  <2>1. \A u \in Threads : lock' = u <=> pc'[u] \notin Outside
    BY <1>2, <1>3, Types DEF Moved, Outside
  <2>2. QED
    BY <1>1, <1>2, <1>3, <2>1, Types, Typed DEF Moved
<1>5. Numbered'
  BY <1>1, <1>2, <1>3 DEF Numbered, Moved
<1>6. ASSUME NEW u \in Threads PROVE ThreadInv(u)'
  <2>1. CASE u = t
    <3>1. Refused(t)' /\ Before(t)' /\ During(t)' /\ Shown(t)'
      BY <1>2, <1>3 DEF Refused, Before, During, Shown
    <3>2. Failed(t)' /\ Judged(t)'
      BY <1>2, <1>3 DEF Failed, Judged, Ran
    <3>3. QED
      BY <2>1, <3>1, <3>2 DEF ThreadInv
  <2>2. CASE u # t
    <3>1. pc'[u] = pc[u] /\ job'[u] = job[u] /\ pc[u] \in Outside
      BY <1>2, <1>3, <2>2, Types DEF Moved
    <3>2. count' # job[u].n
      BY <1>1, <1>2
    <3>3. ThreadInv(u)
      OBVIOUS
    <3>4. QED
      BY <3>1, <3>2, <3>3, OutsideUnmoved
  <2>3. QED
    BY <2>1, <2>2
<1>7. FirstCached'
  BY <1>2 DEF FirstCached
<1>8. QED
  BY <1>4, <1>5, <1>6, <1>7

(* The steps of raw_call and of the guest.                                 *)
LEMMA Holds ==
  ASSUME PluginInv, NEW t \in Threads, pc[t] \notin Outside
  PROVE  /\ lock = t /\ t # NoThread /\ ThreadInv(t) /\ count = job[t].n /\ count > 0
         /\ pc[t] # "failed" => job[t].named
<1>1. lock = t /\ t # NoThread /\ ThreadInv(t) /\ count = job[t].n /\ count > 0
  BY Types, PluginAssumption DEF PluginInv, Numbered
<1>2. pc[t] # "failed" => job[t].named
  BY <1>1 DEF ThreadInv, Refused, Outside
<1>3. QED
  BY <1>1, <1>2

(* Nothing is to be shown of a name that was not refused.                  *)
LEMMA NotRefused ==
  ASSUME NEW t, job'[t].named
  PROVE  Refused(t)'
BY DEF Refused

LEMMA InstantiateInv ==
  ASSUME PluginInv, NEW t \in Threads, Instantiate(t)
  PROVE  PluginInv'
<1>1. pc[t] = "instantiate" /\ pc[t] \notin Outside
  BY DEF Instantiate, At, Outside
<1>2. lock = t /\ t # NoThread /\ ThreadInv(t) /\ job[t].named
  BY <1>1, Holds
<1>3. CASE Panic(t)
  BY <1>2, <1>3, PanicInv
<1>4. CASE ~Panic(t)
  <2>1. lock' = lock /\ cached' = cached /\ count' = count /\ poisoned' = poisoned
    BY <1>4 DEF Instantiate
  <2>7. instance' \in BOOLEAN /\ (instance => instance')
    <3>1. instance \in BOOLEAN
      BY Types DEF PluginInv
    <3>2. (instance /\ instance' = instance) \/ (~instance /\ instance' \in BOOLEAN)
      BY <1>4, <3>1 DEF Instantiate
    <3>3. QED
      BY <3>1, <3>2
  <2>2. kernel' \in Registers
    BY <1>4, Types, RegisterTypes DEF PluginInv, Instantiate
  <2>3. /\ Moved(t) /\ Same(t)
        /\ \/ pc'[t] \in {"input", "lookup"} /\ (pc'[t] = "lookup" => ~Extism(t))
              /\ (pc'[t] = "input" => Extism(t)) /\ job'[t] = job[t] /\ instance'
           \/ pc'[t] = "failed" /\ job'[t].verdict = "err" /\ ~instance
    <3>1. CASE \E rc \in {-1} : Fail(t, rc) /\ ~instance
      BY <3>1, FailMoves DEF PluginInv
    <3>2. CASE Goto(t, IF Extism(t) THEN "input" ELSE "lookup") /\ job' = job /\ instance'
      BY <3>2, GotoMoves DEF PluginInv, Places
    <3>3. QED
      BY <1>4, <3>1, <3>2 DEF Instantiate
  <2>4. FirstCached'
    BY <2>1, <2>7 DEF PluginInv, FirstCached
  <2>5. ThreadInv(t)'
    <3> USE <1>1, <1>2, <2>1, <2>3 DEF ThreadInv, Same, Extism
    <3>1. Before(t)'
      BY DEF Before
    <3>4. During(t)'
      BY DEF During
    <3>5. Judged(t)'
      BY DEF Judged, Before, Ran
    <3>6. Shown(t)'
      BY DEF Shown
    <3>7. Refused(t)'
      BY NotRefused
    <3>2. Failed(t)'
      BY NothingShown DEF PluginInv, FirstCached, Before, Failed, Ran
    <3>3. QED
      BY <3>1, <3>2, <3>4, <3>5, <3>6, <3>7
  <2>6. QED
    BY <1>2, <2>1, <2>2, <2>3, <2>4, <2>5, <2>7, HolderStep, Types DEF PluginInv, Same, Outside
<1>5. QED
  BY <1>3, <1>4

LEMMA SetInputInv ==
  ASSUME PluginInv, NEW t \in Threads, SetInput(t)
  PROVE  PluginInv'
<1>1. pc[t] = "input" /\ pc[t] \notin Outside
  BY DEF SetInput, At, Outside
<1>2. lock = t /\ t # NoThread /\ ThreadInv(t) /\ job[t].named
  BY <1>1, Holds
<1>3. /\ Moved(t) /\ Same(t)
      /\ \/ pc'[t] = "lookup" /\ job'[t] = job[t]
         \/ pc'[t] = "failed" /\ job'[t].verdict = "err"
  BY FailMoves, GotoMoves DEF PluginInv, SetInput, Places
<1>4. cached' = Nothing /\ kernel' = Nothing /\ lock' = lock /\ poisoned' = poisoned
      /\ instance' = instance /\ count' = count
  BY DEF SetInput
<1>5. ThreadInv(t)'
  <2>1. Refused(t)'
    BY <1>2, <1>3, NotRefused DEF Same
  <2>2. Before(t)' /\ During(t)' /\ Failed(t)' /\ Judged(t)' /\ Shown(t)'
    BY <1>1, <1>2, <1>3, <1>4, NothingShown DEF ThreadInv, Same, Extism, Before, During,
                                                Failed, Judged, Shown, Ran
  <2>3. QED
    BY <2>1, <2>2 DEF ThreadInv
<1>6. FirstCached'
  BY <1>4 DEF FirstCached
<1>7. QED
  BY <1>2, <1>3, <1>4, <1>5, <1>6, HolderStep, Types, RegisterTypes DEF PluginInv, Same,
                                                                      Outside

LEMMA StartInv ==
  ASSUME PluginInv, NEW t \in Threads, Start(t)
  PROVE  PluginInv'
<1>1. pc[t] = "lookup" /\ pc[t] \notin Outside
  BY DEF Start, At, Outside
<1>2. lock = t /\ t # NoThread /\ ThreadInv(t) /\ job[t].named
  BY <1>1, Holds
<1>3. CASE Panic(t)
  BY <1>2, <1>3, PanicInv
<1>4. CASE ~Panic(t)
  <2>1. UNCHANGED <<lock, poisoned, instance, kernel, cached, count>>
    BY <1>4 DEF Start
  <2>2. /\ Moved(t) /\ Same(t)
        /\ \/ pc'[t] = "guest" /\ job'[t] = job[t]
           \/ pc'[t] = "failed" /\ job'[t].verdict = "err"
    BY <1>4, FailMoves, GotoMoves DEF PluginInv, Start, Places
  <2>3. ThreadInv(t)'
    <3>1. Refused(t)'
      BY <1>2, <2>2, NotRefused DEF Same
    <3>2. Before(t)' /\ During(t)' /\ Failed(t)' /\ Judged(t)' /\ Shown(t)'
      BY <1>1, <1>2, <2>1, <2>2, NothingShown DEF ThreadInv, Same, Extism, Before, During,
                                                  Failed, Judged, Shown, Ran
    <3>3. QED
      BY <3>1, <3>2 DEF ThreadInv
  <2>4. FirstCached'
    BY <2>1 DEF PluginInv, FirstCached
  <2>5. QED
    BY <1>2, <2>1, <2>2, <2>3, <2>4, HolderStep, Types DEF PluginInv, Same, Outside
<1>5. QED
  BY <1>3, <1>4

(* The guest's steps, and the end of a call.                                *)
LEMMA GuestOutputMoves ==
  ASSUME PluginInv, NEW t \in Threads, GuestOutput(t)
  PROVE  /\ Moved(t) /\ pc' = pc /\ job'[t].n = job[t].n /\ job'[t].kind = job[t].kind
         /\ job'[t].end = job[t].end /\ job'[t].wrote = job[t].n
         /\ job'[t].raised = job[t].raised
         /\ job'[t].verdict = job[t].verdict /\ job'[t].named = job[t].named
<1>1. job \in [Threads -> Jobs] /\ job[t] \in Jobs /\ job[t].n \in Nat
  BY Types DEF PluginInv
<1> DEFINE j == [job[t] EXCEPT !.wrote = job[t].n]
<1>2. /\ j \in Jobs /\ j.named = job[t].named /\ j.n = job[t].n
      /\ j.kind = job[t].kind /\ j.end = job[t].end
      /\ j.wrote = job[t].n /\ j.raised = job[t].raised /\ j.verdict = job[t].verdict
  BY <1>1 DEF Jobs
<1>3. job' = [job EXCEPT ![t] = j] /\ pc' = pc
  BY <1>1 DEF GuestOutput
<1> HIDE DEF j
<1>4. Moved(t) /\ job'[t] = j
  BY <1>2, <1>3, JobMoves DEF PluginInv
<1>5. QED
  BY <1>2, <1>3, <1>4

LEMMA GuestOutputInv ==
  ASSUME PluginInv, NEW t \in Threads, GuestOutput(t)
  PROVE  PluginInv'
<1>1. pc[t] = "guest" /\ pc[t] \notin Outside
  BY DEF GuestOutput, At, Outside
<1>2. lock = t /\ t # NoThread /\ ThreadInv(t) /\ job[t].named
  BY <1>1, Holds
<1>3. kernel \in Registers /\ cached \in Registers /\ job[t].n \in Nat
      /\ poisoned \in BOOLEAN /\ instance \in BOOLEAN
  BY Types DEF PluginInv
<1>4. /\ kernel' \in Registers /\ kernel'.output = job[t].n /\ kernel'.error = kernel.error
      /\ UNCHANGED <<lock, poisoned, instance, cached, count>>
  BY <1>3 DEF GuestOutput, Registers
<1>5. During(t)'
  BY <1>1, <1>2, <1>4, GuestOutputMoves DEF ThreadInv, Extism, During
<1>6. ThreadInv(t)'
  BY <1>1, <1>2, <1>5, GuestOutputMoves, NotRefused DEF ThreadInv, Before, Failed, Judged, Shown
<1>7. FirstCached'
  BY <1>4 DEF PluginInv, FirstCached
<1>8. QED
  BY <1>1, <1>2, <1>3, <1>4, <1>6, <1>7, GuestOutputMoves, HolderStep

LEMMA GuestErrorMoves ==
  ASSUME PluginInv, NEW t \in Threads, GuestError(t)
  PROVE  /\ Moved(t) /\ pc' = pc /\ job'[t].n = job[t].n /\ job'[t].kind = job[t].kind
         /\ job'[t].end = job[t].end /\ job'[t].wrote = job[t].wrote
         /\ job'[t].verdict = job[t].verdict /\ job'[t].named = job[t].named
         /\ \E e \in [by : {0, job[t].n}, length : {0, 1}] :
              kernel' = [kernel EXCEPT !.error = e] /\ (job'[t].raised <=> HasText(e))
<1>1. job \in [Threads -> Jobs] /\ job[t] \in Jobs
  BY Types DEF PluginInv
<1>2. PICK e \in {NoError} \cup {Error(job[t].n, len) : len \in {0, 1}} :
        /\ kernel' = [kernel EXCEPT !.error = e]
        /\ job' = [job EXCEPT ![t].raised = HasText(e)]
  BY DEF GuestError
<1>3. e \in [by : {0, job[t].n}, length : {0, 1}]
  BY DEF NoError, Error
<1>4. PICK raised \in BOOLEAN : raised = HasText(e)
  BY DEF HasText
<1> DEFINE j == [job[t] EXCEPT !.raised = raised]
<1>5. /\ j \in Jobs /\ j.named = job[t].named /\ j.n = job[t].n
      /\ j.kind = job[t].kind /\ j.end = job[t].end
      /\ j.wrote = job[t].wrote /\ j.verdict = job[t].verdict /\ j.raised = raised
  BY <1>1 DEF Jobs
<1>6. job' = [job EXCEPT ![t] = j] /\ pc' = pc
  BY <1>1, <1>2, <1>4 DEF GuestError
<1> HIDE DEF j
<1>7. Moved(t) /\ job'[t] = j
  BY <1>5, <1>6, JobMoves DEF PluginInv
<1>8. job'[t].raised <=> HasText(e)
  BY <1>4, <1>5, <1>7
<1>9. QED
  BY <1>2, <1>3, <1>5, <1>6, <1>7, <1>8

LEMMA GuestErrorInv ==
  ASSUME PluginInv, NEW t \in Threads, GuestError(t)
  PROVE  PluginInv'
<1>1. pc[t] = "guest" /\ pc[t] \notin Outside
  BY DEF GuestError, At, Outside
<1>2. lock = t /\ t # NoThread /\ ThreadInv(t) /\ job[t].named
  BY <1>1, Holds
<1>3. kernel \in Registers /\ cached \in Registers /\ job[t].n \in Nat
      /\ poisoned \in BOOLEAN /\ instance \in BOOLEAN
  BY Types DEF PluginInv
<1>4. PICK e \in [by : {0, job[t].n}, length : {0, 1}] :
        kernel' = [kernel EXCEPT !.error = e] /\ (job'[t].raised <=> HasText(e))
  BY GuestErrorMoves
<1>5. e \in [by : Nat, length : {0, 1}] /\ e.by \in {0, job[t].n}
  BY <1>3
<1>6. kernel' \in Registers /\ kernel'.output = kernel.output /\ kernel'.error = e
  BY <1>3, <1>4, <1>5 DEF Registers
<1>7. UNCHANGED <<lock, poisoned, instance, cached, count>>
  BY DEF GuestError
<1>8. During(t)'
  BY <1>1, <1>2, <1>4, <1>5, <1>6, <1>7, GuestErrorMoves DEF ThreadInv, Extism, During
<1>9. ThreadInv(t)'
  BY <1>1, <1>2, <1>8, GuestErrorMoves, NotRefused DEF ThreadInv, Before, Failed, Judged, Shown
<1>10. FirstCached'
  BY <1>7 DEF PluginInv, FirstCached
<1>11. QED
  BY <1>1, <1>2, <1>3, <1>6, <1>7, <1>9, <1>10, GuestErrorMoves, HolderStep

LEMMA SmallCodes == -1 \in -1 .. 1 /\ 0 \in -1 .. 1 /\ 1 \in -1 .. 1
OBVIOUS

LEMMA CodesTyped == \A t, end : \A rc \in Codes(t, end) : rc \in -1 .. 1
BY SmallCodes DEF Codes

LEMMA GuestEndsMoves ==
  ASSUME PluginInv, NEW t \in Threads, GuestEnds(t)
  PROVE  /\ Moved(t) /\ pc'[t] = "finish" /\ job'[t].n = job[t].n /\ job'[t].kind = job[t].kind
         /\ job'[t].end \in {"return", "trap", "exit 0", "exit 1"}
         /\ job'[t].wrote = job[t].wrote /\ job'[t].raised = job[t].raised
         /\ job'[t].verdict = job[t].verdict /\ job'[t].named = job[t].named
<1>1. job \in [Threads -> Jobs] /\ job[t] \in Jobs /\ pc \in [Threads -> Places]
  BY Types DEF PluginInv
<1>2. PICK end \in {"return", "trap", "exit 0", "exit 1"} : \E rc \in Codes(t, end) :
        job' = [job EXCEPT ![t].end = end, ![t].rc = rc]
  BY DEF GuestEnds
<1>3. PICK rc \in Codes(t, end) : job' = [job EXCEPT ![t].end = end, ![t].rc = rc]
  BY <1>2
<1>4. rc \in -1 .. 1
  BY CodesTyped
<1> DEFINE j == [job[t] EXCEPT !.end = end, !.rc = rc]
<1>5. /\ j \in Jobs /\ j.named = job[t].named /\ j.n = job[t].n
      /\ j.kind = job[t].kind /\ j.end = end
      /\ j.wrote = job[t].wrote /\ j.raised = job[t].raised /\ j.verdict = job[t].verdict
  BY <1>1, <1>4 DEF Jobs
<1>6. job' = [job EXCEPT ![t] = j]
  BY <1>1, <1>3
<1> HIDE DEF j
<1>7. Goto(t, "finish") /\ "finish" \in Places
  BY DEF GuestEnds, Places
<1>8. Moved(t) /\ job'[t] = j
  BY <1>5, <1>6, <1>7, JobMoves DEF PluginInv
<1>9. pc'[t] = "finish"
  BY <1>1, <1>7 DEF Goto
<1>10. QED
  BY <1>5, <1>8, <1>9

LEMMA GuestEndsInv ==
  ASSUME PluginInv, NEW t \in Threads, GuestEnds(t)
  PROVE  PluginInv'
<1>1. pc[t] = "guest" /\ pc[t] \notin Outside
  BY DEF GuestEnds, At, Outside
<1>2. lock = t /\ t # NoThread /\ ThreadInv(t) /\ job[t].named
  BY <1>1, Holds
<1>3. UNCHANGED <<lock, poisoned, instance, kernel, cached, count>>
  BY DEF GuestEnds
<1>4. kernel \in Registers /\ cached \in Registers
      /\ poisoned \in BOOLEAN /\ instance \in BOOLEAN
  BY Types DEF PluginInv
<1>5. During(t)'
  BY <1>1, <1>2, <1>3, GuestEndsMoves DEF ThreadInv, Extism, During
<1>6. ThreadInv(t)'
  BY <1>2, <1>5, GuestEndsMoves, NotRefused DEF ThreadInv, Before, Failed, Judged, Shown
<1>7. FirstCached'
  BY <1>3 DEF PluginInv, FirstCached
<1>8. pc'[t] \notin Outside
  BY GuestEndsMoves DEF Outside
<1>9. QED
  BY <1>2, <1>3, <1>4, <1>6, <1>7, <1>8, GuestEndsMoves, HolderStep

(* A call is judged by the error in the cache, which for an extism call is *)
(* by then the one its guest left in the kernel.                           *)
LEMMA FinishMoves ==
  ASSUME PluginInv, NEW t \in Threads, Finish(t)
  PROVE  /\ cached' = (IF Extism(t) THEN kernel ELSE cached) /\ cached' \in Registers
         /\ UNCHANGED <<poisoned, instance, kernel, count>>
         /\ Moved(t) /\ Same(t)
         /\ \/ /\ pc'[t] = "failed" /\ job'[t].verdict = "err" /\ lock' = lock
               /\ HasText(cached'.error) \/ job[t].end \in {"trap", "exit 1"}
            \/ /\ pc'[t] = "returned" /\ job'[t].verdict = "ok" /\ lock' = NoThread
               /\ ~HasText(cached'.error) /\ job[t].end \in {"return", "exit 0"}
<1>1. job[t].rc \in -1 .. 1 /\ kernel \in Registers /\ cached \in Registers
  BY Types DEF PluginInv, Jobs
<1>2. cached' = (IF Extism(t) THEN kernel ELSE cached) /\ cached' \in Registers
      /\ UNCHANGED <<poisoned, instance, kernel, count>>
  BY <1>1 DEF Finish
<1>3. CASE \E rc \in -1 .. 1 :
             /\ Fail(t, rc) /\ lock' = lock
             /\ HasText(cached'.error) \/ job[t].end \in {"trap", "exit 1"}
  BY <1>2, <1>3, FailMoves DEF PluginInv
<1>4. CASE \E rc \in -1 .. 1 :
             /\ Succeed(t, rc)
             /\ ~HasText(cached'.error) /\ job[t].end \in {"return", "exit 0"}
  BY <1>2, <1>4, VerdictMoves DEF PluginInv, Succeed, Places
<1>5. /\ job[t].end = "return" => job[t].rc \in -1 .. 1
      /\ 0 \in -1 .. 1 /\ 1 \in -1 .. 1
  BY <1>1, SmallCodes
<1>6. QED
  BY <1>1, <1>2, <1>3, <1>4, <1>5 DEF Finish

LEMMA FinishInv ==
  ASSUME PluginInv, NEW t \in Threads, Finish(t)
  PROVE  PluginInv'
<1>1. pc[t] = "finish" /\ pc[t] \notin Outside
  BY DEF Finish, At, Outside
<1>2. lock = t /\ t # NoThread /\ ThreadInv(t) /\ count = job[t].n /\ job[t].named
  BY <1>1, Holds
<1>4. cached' = (IF Extism(t) THEN kernel ELSE cached) /\ cached' \in Registers
      /\ UNCHANGED <<poisoned, instance, kernel, count>>
  BY FinishMoves
<1>5. /\ Moved(t) /\ Same(t)
      /\ \/ /\ pc'[t] = "failed" /\ job'[t].verdict = "err" /\ lock' = lock
            /\ HasText(cached'.error) \/ job[t].end \in {"trap", "exit 1"}
         \/ /\ pc'[t] = "returned" /\ job'[t].verdict = "ok" /\ lock' = NoThread
            /\ ~HasText(cached'.error) /\ job[t].end \in {"return", "exit 0"}
  BY FinishMoves
<1>6. ThreadInv(t)'
  <2>1. job[t].end # "none"
    BY <1>1, <1>2 DEF ThreadInv, During
  <2>2. Extism(t) => /\ cached' = kernel /\ kernel.output = job[t].wrote
                     /\ (job[t].raised <=> HasText(kernel.error))
                     /\ kernel.error.by \in {0, job[t].n}
    BY <1>1, <1>2, <1>4 DEF ThreadInv, During
  <2>3. Before(t)' /\ During(t)'
    BY <1>5 DEF Before, During
  <2>4. Failed(t)'
    BY <1>1, <1>2, <1>4, <1>5, <2>1, <2>2 DEF ThreadInv, During, Failed, Same, Extism, Ran
  <2>5. Judged(t)'
    BY <1>5, <2>1, <2>2 DEF Judged, Same, Extism, Ran, EndedWell
  <2>6. Shown(t)'
    BY <1>5, <2>1, <2>2 DEF Shown, Same, Extism, Ran
  <2>7. Refused(t)'
    BY <1>2, <1>5, NotRefused DEF Same
  <2>8. QED
    BY <2>3, <2>4, <2>5, <2>6, <2>7 DEF ThreadInv
<1>7. FirstCached'
  BY <1>1, <1>2, <1>4 DEF ThreadInv, During, FirstCached
<1>8. QED
  BY <1>2, <1>4, <1>5, <1>6, <1>7, HolderStep, Types DEF PluginInv, Same, Outside

LEMMA ReportTypes ==
  ASSUME PluginInv, NEW n \in Nat, Report(n)
  PROVE  /\ kernel' \in Registers /\ cached' \in Registers
         /\ cached'.output = cached.output
         /\ cached'.error = Error(n, 1) \/ cached' = cached
         /\ ~instance => cached' = cached
<1>1. kernel \in Registers /\ cached \in Registers
  BY Types DEF PluginInv
<1>2. CASE UNCHANGED <<kernel, cached>>
  BY <1>1, <1>2
<1>3. CASE /\ instance
           /\ kernel' = [kernel EXCEPT !.error = Error(n, 1)]
           /\ cached' = [cached EXCEPT !.error = Error(n, 1)]
  BY <1>1, <1>3 DEF Registers, Error
<1>4. QED
  BY <1>2, <1>3 DEF Report

LEMMA ReturnErrorInv ==
  ASSUME PluginInv, NEW t \in Threads, ReturnError(t)
  PROVE  PluginInv'
<1>1. pc[t] = "failed" /\ pc[t] \notin Outside
  BY DEF ReturnError, At, Outside
<1>2. lock = t /\ t # NoThread /\ ThreadInv(t) /\ job[t].n \in Nat
  BY <1>1, Holds, Types DEF PluginInv
<1>3. /\ Moved(t) /\ Same(t) /\ pc'[t] = "returned" /\ job'[t] = job[t] /\ lock' = NoThread
      /\ UNCHANGED <<poisoned, instance, count>>
  BY GotoMoves DEF PluginInv, ReturnError, Places
<1>4. /\ kernel' \in Registers /\ cached' \in Registers
      /\ cached'.output = cached.output
      /\ cached'.error = Error(job[t].n, 1) \/ cached' = cached
      /\ ~instance => cached' = cached
  BY <1>2, ReportTypes DEF ReturnError
<1>5. ThreadInv(t)'
  <2>1. Before(t)' /\ During(t)' /\ Failed(t)'
    BY <1>3 DEF Before, During, Failed
  <2>2. Judged(t)'
    BY <1>1, <1>2, <1>3 DEF ThreadInv, Judged, Extism, Ran, EndedWell
  <2>3. cached'.error.by \in {0, job[t].n} \/ cached' = cached
    BY <1>4 DEF Error
  <2>4. Shown(t)'
    <3>1. ASSUME Extism(t), job[t].named
          PROVE  /\ cached.output = IF Ran(t) THEN job[t].wrote ELSE 0
                 /\ cached.error.by \in {0, job[t].n} /\ job[t].verdict = "err"
      BY <1>1, <1>2, <3>1 DEF ThreadInv, Failed
    <3>2. ASSUME Extism(t), job[t].named
          PROVE  /\ cached'.output = IF Ran(t) THEN job[t].wrote ELSE 0
                 /\ cached'.error.by \in {0, job[t].n} /\ job[t].verdict = "err"
      BY <1>4, <2>3, <3>1, <3>2
    <3>3. QED
      BY <1>3, <3>2 DEF Shown, Extism, Ran
  <2>5. Refused(t)'
    BY <1>2, <1>3 DEF ThreadInv, Refused
  <2>6. QED
    BY <2>1, <2>2, <2>4, <2>5 DEF ThreadInv
<1>6. FirstCached'
  BY <1>3, <1>4 DEF PluginInv, FirstCached
<1>7. QED
  BY <1>2, <1>3, <1>4, <1>5, <1>6, HolderStep, Types DEF PluginInv, Outside

-----------------------------------------------------------------------------
(* The steps without the lock: a read, and an operation of its own, which  *)
(* ends what earlier calls may show.                                       *)
LEMMA ReaderStep ==
  ASSUME PluginInv, NEW t \in Threads, NEW place \in Outside, pc[t] \in Outside,
         Goto(t, place), place \in {"idle", "panicked"} \/ pc[t] \in {"returned", "length"},
         place \in {"idle", "panicked"} \/ job[t].named,
         UNCHANGED <<lock, poisoned, instance, kernel, cached, count, job>>
  PROVE  PluginInv'
<1>1. pc' \in [Threads -> Places] /\ pc'[t] = place /\ \A u \in Threads \ {t} : pc'[u] = pc[u]
  BY Types DEF PluginInv, Goto, Outside, Places
<1>2. TypeOK'
  BY <1>1, Types, Typed DEF PluginInv
<1>3. Numbered'
  BY <1>1 DEF PluginInv, Numbered, Outside
<1>4. FirstCached'
  BY DEF PluginInv, FirstCached
<1>5. ASSUME NEW u \in Threads PROVE ThreadInv(u)'
  <2>1. ThreadInv(u)
    BY DEF PluginInv
  <2>2. CASE u # t
    <3>1. pc'[u] = pc[u]
      BY <1>1, <2>2
    <3>2. QED
      BY <2>1, <3>1, ThreadUnmoved
  <2>3. CASE u = t
    <3>1. Before(u)' /\ During(u)' /\ Failed(u)'
      BY <1>1, <2>3 DEF Before, During, Failed, Outside
    <3>2. Judged(u)' /\ Shown(u)'
      BY <1>1, <2>1, <2>3 DEF ThreadInv, Judged, Shown, Extism, Ran, EndedWell, Outside
    <3>3. Refused(u)'
      BY <1>1, <2>1, <2>3 DEF ThreadInv, Refused
    <3>4. QED
      BY <3>1, <3>2, <3>3 DEF ThreadInv
  <2>4. QED
    BY <2>2, <2>3
<1>6. QED
  BY <1>2, <1>3, <1>4, <1>5 DEF PluginInv

LEMMA OtherStep ==
  ASSUME PluginInv, lock = NoThread, count' = count + 1,
         kernel' \in Registers, cached' \in Registers, ~instance => cached' = cached,
         UNCHANGED <<lock, poisoned, instance, pc, job>>
  PROVE  PluginInv'
<1>1. count \in Nat /\ \A u \in Threads : job[u].n \in Nat /\ pc[u] \in Outside
  BY Types, PluginAssumption DEF PluginInv
<1>2. TypeOK'
  BY <1>1, Types, Typed DEF PluginInv
<1>3. Numbered'
  BY <1>1, PluginAssumption DEF PluginInv, Numbered
<1>4. FirstCached'
  BY DEF PluginInv, FirstCached
<1>5. ASSUME NEW u \in Threads PROVE ThreadInv(u)'
  <2>1. ThreadInv(u) /\ pc[u] \in Outside /\ count' # job[u].n
    BY <1>1 DEF PluginInv, Numbered
  <2>2. QED
    BY <2>1, OutsideUnmoved
<1>6. QED
  BY <1>2, <1>3, <1>4, <1>5 DEF PluginInv

LEMMA ConfigureInv ==
  ASSUME PluginInv, NEW t \in Threads, Configure(t)
  PROVE  PluginInv'
<1>1. count + 1 \in Nat /\ kernel \in Registers /\ cached \in Registers
  BY Types DEF PluginInv
<1>2. kernel' \in Registers /\ cached' \in Registers /\ (~instance => cached' = cached)
  <2>1. CASE Report(count + 1)
    BY <1>1, <2>1, ReportTypes
  <2>2. CASE kernel' = [kernel EXCEPT !.error = NoError] /\ UNCHANGED cached
    BY <1>1, <2>2, RegisterTypes
  <2>3. QED
    BY <2>1, <2>2 DEF Configure
<1>3. QED
  BY <1>2, OtherStep DEF Configure

LEMMA ResetInv ==
  ASSUME PluginInv, NEW t \in Threads, Reset(t)
  PROVE  PluginInv'
BY OtherStep, RegisterTypes, Types DEF PluginInv, Reset

LEMMA NextInv == PluginInv /\ [Next]_vars => PluginInv'
<1> SUFFICES ASSUME PluginInv, [Next]_vars PROVE PluginInv'
  OBVIOUS
<1>1. CASE UNCHANGED vars
  <2>1. UNCHANGED <<lock, poisoned, instance, kernel, cached, count, pc, job>>
    BY <1>1 DEF vars
  <2>2. TypeOK'
    BY <2>1, Types, Typed DEF PluginInv
  <2>3. Numbered'
    BY <2>1 DEF PluginInv, Numbered
  <2>4. FirstCached'
    BY <2>1 DEF PluginInv, FirstCached
  <2>5. ASSUME NEW t \in Threads PROVE ThreadInv(t)'
    BY <2>1, ThreadUnmoved DEF PluginInv
  <2>6. QED
    BY <2>2, <2>3, <2>4, <2>5 DEF PluginInv
<1>2. ASSUME NEW t \in Threads, NEW kind \in {"extism", "native"}, Call(t, kind)
      PROVE  PluginInv'
  BY <1>2, CallInv
<1>3. ASSUME NEW t \in Threads, LockPanics(t) PROVE PluginInv'
  BY <1>3, ReaderStep DEF LockPanics, Outside
<1>4. ASSUME NEW t \in Threads, Step(t) PROVE PluginInv'
  BY <1>4, InstantiateInv, SetInputInv, StartInv, FinishInv, ReturnErrorInv DEF Step
<1>5. ASSUME NEW t \in Threads,
             GuestOutput(t) \/ GuestError(t) \/ GuestEnds(t) \/ HostPanics(t)
      PROVE  PluginInv'
  <2>1. CASE HostPanics(t)
    <3>1. lock = t
      BY <2>1, Holds DEF HostPanics, At, Outside
    <3>2. QED
      BY <2>1, <3>1, PanicInv DEF HostPanics
  <2>2. QED
    BY <1>5, <2>1, GuestOutputInv, GuestErrorInv, GuestEndsInv
<1>6. ASSUME NEW t \in Threads, Configure(t) \/ Reset(t) PROVE PluginInv'
  BY <1>6, ConfigureInv, ResetInv
<1>7. ASSUME NEW t \in Threads, ReadLength(t) PROVE PluginInv'
  <2>1. pc[t] = "returned" /\ ~(Extism(t) /\ job[t].rc = -1) /\ Extism(t)
    BY <1>7 DEF ReadLength, At, Throws
  <2>2. job[t].named
    BY <2>1 DEF PluginInv, ThreadInv, Refused
  <2>3. QED
    BY <1>7, <2>1, <2>2, ReaderStep DEF ReadLength, Outside
<1>8. ASSUME NEW t \in Threads, ReadLast(t) PROVE PluginInv'
  BY <1>8, ReaderStep DEF ReadLast, At, Outside
<1>9. QED
  BY <1>1, <1>2, <1>3, <1>4, <1>5, <1>6, <1>7, <1>8 DEF Next

(* Whatever the threads do, the invariant holds.                           *)
THEOREM PluginSafe == Spec => []PluginInv
BY InitInv, NextInv, PTL DEF Spec

(* The instance lock is held exactly by the thread that is inside a call.  *)
THEOREM PluginTyped == Spec => []TypeOK
<1>1. PluginInv => TypeOK
  BY DEF PluginInv
<1>2. QED
  BY <1>1, PluginSafe, PTL

(* An extism call is judged by what its own guest did, whatever errors the *)
(* operations of other threads left behind.                                *)
THEOREM PluginOwnVerdict == Spec => []OwnVerdict
BY InvProperties, PluginSafe, PTL

(* Until the next operation the cached output is that of the last extism   *)
(* call, or empty.                                                         *)
THEOREM PluginFreshOutput == Spec => []FreshOutput
BY InvProperties, PluginSafe, PTL

(* And the error that is read after it is its own.                         *)
THEOREM PluginOwnError == Spec => []OwnError
BY InvProperties, PluginSafe, PTL

-----------------------------------------------------------------------------
(* The calls implement Calls: how the abstract state follows the lock.     *)
CallOf(t) ==
  [by |-> t, n |-> job[t].n, kind |-> job[t].kind, named |-> job[t].named,
   end |-> job[t].end, wrote |-> job[t].wrote, raised |-> job[t].raised]

(* An extism call of a proper name may change what is on show.             *)
Hides(t) == job[t].kind # "native" /\ job[t].named

Shows ==
  [output |-> cached.output, error |-> IF HasText(cached.error) THEN cached.error.by ELSE 0]

LEMMA Unlocked ==
  ASSUME lock = NoThread
  PROVE  Running = C!Idle /\ OnShow = IF poisoned THEN C!Hidden ELSE Shows
BY DEF Running, OnShow, Visible, Shows, C!Idle, C!Hidden

LEMMA Locked ==
  ASSUME NEW t \in Threads, lock = t, ~poisoned
  PROVE  /\ Running = CallOf(t) /\ Running # C!Idle
         /\ OnShow = IF Hides(t) THEN C!Hidden ELSE Shows
<1>1. t # NoThread
  BY PluginAssumption
<1>2. Running = CallOf(t) /\ Running.by # NoThread
  BY <1>1 DEF Running, CallOf
<1>3. Running # C!Idle
  BY <1>2 DEF C!Idle
<1>4. OnShow = IF Hides(t) THEN C!Hidden ELSE Shows
  BY <1>1 DEF OnShow, Visible, Shows, Hides, C!Hidden
<1>5. QED
  BY <1>2, <1>3, <1>4

LEMMA UnlockedNext ==
  ASSUME lock' = NoThread
  PROVE  Running' = C!Idle /\ OnShow' = IF poisoned' THEN C!Hidden ELSE Shows'
BY DEF Running, OnShow, Visible, Shows, C!Idle, C!Hidden

LEMMA LockedNext ==
  ASSUME NEW t \in Threads, lock' = t, ~poisoned'
  PROVE  /\ Running' = CallOf(t)'
         /\ OnShow' = IF Hides(t)' THEN C!Hidden ELSE Shows'
BY PluginAssumption DEF Running, CallOf, OnShow, Visible, Shows, Hides, C!Hidden

(* What the thread with the lock knows of it.                              *)
LEMMA Inside ==
  ASSUME PluginInv, NEW t \in Threads, pc[t] \notin Outside
  PROVE  /\ lock = t /\ ~poisoned /\ ThreadInv(t) /\ job[t].n > 0 /\ job[t].n \in Nat
         /\ job[t].kind \in {"extism", "native"} /\ (Extism(t) <=> job[t].kind # "native")
         /\ job[t].named \in BOOLEAN /\ (pc[t] # "failed" => job[t].named)
<1>1. /\ lock = t /\ ThreadInv(t) /\ job[t].n = count /\ count > 0
      /\ pc[t] # "failed" => job[t].named
  BY Holds
<1>2. pc[t] \in Places
  BY Types DEF PluginInv
<1>3. ~poisoned
  BY <1>1, <1>2 DEF ThreadInv, Before, During, Failed, Places, Outside
<1>4. job[t] \in Jobs
  BY Types DEF PluginInv
<1>5. job[t].kind \in {"extism", "native"} /\ job[t].n \in Nat /\ job[t].named \in BOOLEAN
  BY <1>4 DEF Jobs
<1>6. QED
  BY <1>1, <1>3, <1>5 DEF Extism

(* A step under the lock is nobody's business but the kernel's.            *)
LEMMA InsideStutters ==
  ASSUME PluginInv, NEW t \in Threads, pc[t] \notin Outside, Moved(t), Same(t),
         UNCHANGED <<lock, poisoned, count>>, pc[t] # "failed", Extism(t) \/ cached' = cached
  PROVE  UNCHANGED C!vars
<1>1. lock = t /\ ~poisoned /\ (Extism(t) <=> Hides(t))
  BY Inside DEF Hides
<1>2. Running' = Running
  BY <1>1, Locked, LockedNext DEF CallOf, Same
<1>3. OnShow' = OnShow
  BY <1>1, Locked, LockedNext DEF Same, Shows, Hides
<1>4. Verdicts' = Verdicts
  BY <1>1 DEF Verdicts, Moved
<1>5. QED
  BY <1>2, <1>3, <1>4 DEF C!vars

LEMMA BeginStep ==
  ASSUME PluginInv, NEW t \in Threads, NEW kind \in {"extism", "native"}, Call(t, kind)
  PROVE  \E named \in BOOLEAN : C!Begin(t, kind, named)
<1>1. lock = NoThread /\ lock' = t /\ ~poisoned /\ ~poisoned' /\ cached' = cached
      /\ count' = count + 1 /\ UNCHANGED poisoned
  BY DEF Call
<1>2. PICK named \in BOOLEAN : job'[t].named = named
  <2>1. job'[t] \in Jobs
    BY Enters DEF PluginInv, Call, Moved
  <2>2. job'[t].named \in BOOLEAN
    BY <2>1 DEF Jobs
  <2>3. QED
    BY <2>2
<1>3. /\ job'[t].n = count + 1 /\ job'[t].kind = kind /\ job'[t].end = "none"
      /\ job'[t].wrote = 0 /\ job'[t].raised = FALSE
      /\ \A u \in Threads \ {t} : job'[u] = job[u]
  <2>1. job'[t] \in Jobs
    BY Enters DEF PluginInv, Call, Moved
  <2>2. job'[t].raised \in BOOLEAN
    BY <2>1 DEF Jobs
  <2>3. /\ Moved(t) /\ job'[t].n = count + 1 /\ job'[t].kind = kind /\ job'[t].end = "none"
        /\ job'[t].wrote = 0 /\ ~job'[t].raised
    BY Enters DEF PluginInv, Call
  <2>4. QED
    BY <2>2, <2>3 DEF Moved
<1>4. Running = C!Idle /\ OnShow = Shows
  BY <1>1, Unlocked
<1>5. Running' = [C!Idle EXCEPT !.by = t, !.n = count + 1, !.kind = kind, !.named = named]
  <2>1. Running' = CallOf(t)'
    BY <1>1, LockedNext
  <2> DEFINE r == [C!Idle EXCEPT !.by = t, !.n = count + 1, !.kind = kind, !.named = named]
  <2>2. r \in [by : {t}, n : {count + 1}, kind : {kind}, named : {named}, end : {"none"},
               wrote : {0}, raised : {FALSE}]
    BY DEF C!Idle
  <2> HIDE DEF r
  <2>3. r = [by |-> t, n |-> count + 1, kind |-> kind, named |-> named, end |-> "none",
             wrote |-> 0, raised |-> FALSE]
    BY <2>2
  <2>4. Running' = r
    BY <1>2, <1>3, <2>1, <2>3 DEF CallOf
  <2>5. QED
    BY <2>4 DEF r
<1>6. OnShow' = IF kind = "extism" /\ named THEN C!Hidden ELSE OnShow
  <2>1. Shows' = Shows /\ (Hides(t)' <=> kind # "native" /\ named)
    BY <1>1, <1>2, <1>3 DEF Shows, Hides
  <2>2. OnShow' = IF Hides(t)' THEN C!Hidden ELSE Shows'
    BY <1>1, LockedNext
  <2>3. QED
    BY <1>4, <2>1, <2>2
<1>7. Verdicts' = [Verdicts EXCEPT ![t] = "none"]
  BY <1>1, <1>3, PluginAssumption DEF Verdicts
<1>8. C!Begin(t, kind, named)
  BY <1>1, <1>4, <1>5, <1>6, <1>7 DEF C!Begin
<1>9. QED
  BY <1>8

LEMMA RunStep ==
  ASSUME PluginInv, NEW t \in Threads, pc[t] = "guest", Moved(t),
         UNCHANGED <<lock, poisoned, count, cached>>,
         job'[t].n = job[t].n, job'[t].kind = job[t].kind, job'[t].named = job[t].named,
         job'[t].end \in {"none", "return", "trap", "exit 0", "exit 1"},
         job'[t].wrote \in {job[t].wrote, job[t].n}, job'[t].raised \in BOOLEAN
  PROVE  C!Run
<1>1. lock = t /\ ~poisoned /\ ThreadInv(t) /\ job[t].named
  BY Inside DEF Outside
<1>2. Running # C!Idle /\ Running = CallOf(t)
  BY <1>1, Locked
<1>3. Running.end = "none" /\ Running.named
  BY <1>1, <1>2 DEF CallOf, ThreadInv, During
<1>4. Running' = [Running EXCEPT !.end = job'[t].end, !.wrote = job'[t].wrote,
                                 !.raised = job'[t].raised]
  <2>1. Running' = CallOf(t)'
    BY <1>1, LockedNext
  <2> DEFINE r == [CallOf(t) EXCEPT !.end = job'[t].end, !.wrote = job'[t].wrote,
                                    !.raised = job'[t].raised]
  <2>2. r \in [by : {t}, n : {job[t].n}, kind : {job[t].kind}, named : {job[t].named},
               end : {job'[t].end}, wrote : {job'[t].wrote}, raised : {job'[t].raised}]
    BY DEF CallOf
  <2> HIDE DEF r
  <2>3. r = [by |-> t, n |-> job[t].n, kind |-> job[t].kind, named |-> job[t].named,
             end |-> job'[t].end, wrote |-> job'[t].wrote, raised |-> job'[t].raised]
    BY <2>2
  <2>4. Running' = r
    BY <2>1, <2>3 DEF CallOf
  <2>5. QED
    BY <1>2, <2>4 DEF r
<1>5. OnShow' = OnShow
  <2>1. Shows' = Shows /\ (Hides(t)' <=> Hides(t))
    BY DEF Shows, Hides
  <2>2. QED
    BY <1>1, <2>1, Locked, LockedNext
<1>6. Verdicts' = Verdicts
  BY <1>1 DEF Verdicts, Moved
<1>7. job'[t].wrote \in {Running.wrote, Running.n}
  BY <1>2 DEF CallOf
<1>8. QED
  BY <1>2, <1>3, <1>4, <1>5, <1>6, <1>7 DEF C!Run

LEMMA BreakStep ==
  ASSUME PluginInv, NEW t \in Threads, pc[t] \in {"instantiate", "lookup", "guest"}, Panic(t)
  PROVE  C!Break
<1>1. lock = t /\ ~poisoned /\ ThreadInv(t) /\ job[t].named
  BY Inside DEF Outside
<1>2. job[t].verdict = "none"
  BY <1>1 DEF ThreadInv, Before, During
<1>3. lock' = NoThread /\ poisoned' /\ UNCHANGED <<job, count>>
  BY DEF Panic
<1>4. Running # C!Idle /\ Running.named /\ Running' = C!Idle /\ OnShow' = C!Hidden
  BY <1>1, <1>3, Locked, UnlockedNext DEF CallOf
<1>5. Verdicts' = Verdicts
  BY <1>1, <1>2, <1>3, PluginAssumption DEF Verdicts
<1>6. poisoned' = TRUE
  BY DEF Panic
<1>7. QED
  BY <1>3, <1>4, <1>5, <1>6 DEF C!Break

LEMMA Reported ==
  ASSUME NEW n \in Nat, n > 0
  PROVE  Error(n, 1).by = n /\ HasText(Error(n, 1))
BY DEF Error, HasText

LEMMA ShowsError ==
  ASSUME NEW n
  PROVE  [Shows EXCEPT !.error = n] = [output |-> cached.output, error |-> n]
<1> DEFINE e == IF HasText(cached.error) THEN cached.error.by ELSE 0
<1>1. Shows = [output |-> cached.output, error |-> e]
  BY DEF Shows
<1> HIDE DEF e
<1>2. QED
  BY <1>1

(* What is on show once the error of call n has been kept.                 *)
LEMMA ShowsReported ==
  ASSUME NEW n \in Nat, n > 0, cached'.output = cached.output, cached'.error = Error(n, 1)
  PROVE  Shows' = [Shows EXCEPT !.error = n]
<1>1. Error(n, 1).by = n /\ HasText(Error(n, 1))
  BY Reported
<1>2. Shows' = [output |-> cached.output, error |-> n]
  BY <1>1 DEF Shows
<1>3. [Shows EXCEPT !.error = n] = [output |-> cached.output, error |-> n]
  BY ShowsError
<1>4. QED
  BY <1>2, <1>3

LEMMA EndStep ==
  ASSUME PluginInv, NEW t \in Threads, pc[t] \notin Outside, Moved(t), Same(t),
         lock' = NoThread, UNCHANGED <<poisoned, count>>,
         Extism(t) /\ job[t].named =>
           /\ cached'.output = IF Ran(t) THEN job[t].wrote ELSE 0
           /\ HasText(cached'.error) => ~EndedWell(t) /\ cached'.error.by = job[t].n
           /\ job'[t].verdict = IF EndedWell(t) THEN "ok" ELSE "err",
         ~job[t].named =>
           /\ job'[t].verdict = "err"
           /\ \/ cached' = cached
              \/ cached'.output = cached.output /\ cached'.error = Error(job[t].n, 1),
         ~Extism(t) /\ job[t].named =>
           \/ /\ cached' = cached
              /\ job'[t].verdict = IF /\ job[t].end \in {"return", "exit 0"}
                                      /\ ~HasText(cached.error)
                                   THEN "ok" ELSE "err"
           \/ /\ job[t].end \notin {"return", "exit 0"} \/ HasText(cached.error)
              /\ cached'.output = cached.output /\ cached'.error = Error(job[t].n, 1)
              /\ job'[t].verdict = "err"
  PROVE  C!End
<1>1. /\ lock = t /\ ~poisoned /\ ThreadInv(t) /\ job[t].n > 0 /\ job[t].n \in Nat
      /\ job[t].kind \in {"extism", "native"} /\ (Extism(t) <=> job[t].kind # "native")
  BY Inside
<1>2. Running = CallOf(t) /\ Running' = C!Idle /\ OnShow' = Shows'
  BY <1>1, Locked, UnlockedNext
<1>3. /\ Running.by = t /\ Running.n = job[t].n /\ Running.kind = job[t].kind
      /\ Running.end = job[t].end /\ Running.wrote = job[t].wrote
      /\ Running.raised = job[t].raised /\ Running.named = job[t].named
  BY <1>2 DEF CallOf
<1>4. Verdicts' = [Verdicts EXCEPT ![Running.by] = job'[t].verdict]
  BY <1>1, <1>3, PluginAssumption DEF Verdicts, Moved
<1>5. C!Good <=> EndedWell(t)
  BY <1>3 DEF C!Good, EndedWell
<1>6. CASE Extism(t) /\ job[t].named
  <2>1. Running.kind = "extism" /\ Running.named
    BY <1>1, <1>3, <1>6
  <2>2. OnShow'.output = IF Running.end = "none" THEN 0 ELSE Running.wrote
    BY <1>2, <1>3, <1>6 DEF Shows, Ran
  <2>3. OnShow'.error \in IF C!Good THEN {0} ELSE {0, Running.n}
    BY <1>2, <1>3, <1>5, <1>6 DEF Shows
  <2>4. Verdicts' = [Verdicts EXCEPT ![Running.by] = IF C!Good THEN "ok" ELSE "err"]
    BY <1>4, <1>5, <1>6
  <2>5. QED
    BY <1>2, <2>1, <2>2, <2>3, <2>4 DEF C!End, C!EndExtism
<1>7. CASE ~Extism(t) /\ job[t].named
  <2> DEFINE good == Running.end \in {"return", "exit 0"} /\ OnShow.error = 0
  <2>1. Running.kind = "native" /\ Running.named /\ OnShow = Shows
    BY <1>1, <1>3, <1>7, Locked DEF Hides
  <2>2. good <=> job[t].end \in {"return", "exit 0"} /\ ~HasText(cached.error)
    BY <1>3, <2>1 DEF Shows, HasText
  <2>3. CASE /\ cached' = cached
             /\ job'[t].verdict = IF /\ job[t].end \in {"return", "exit 0"}
                                     /\ ~HasText(cached.error)
                                  THEN "ok" ELSE "err"
    <3>1. OnShow' = OnShow
      BY <1>2, <2>1, <2>3 DEF Shows
    <3>2. job'[t].verdict = IF good THEN "ok" ELSE "err"
      BY <2>2, <2>3
    <3> HIDE DEF good
    <3>3. Verdicts' = [Verdicts EXCEPT ![Running.by] = IF good THEN "ok" ELSE "err"]
      BY <1>4, <3>2
    <3>4. QED
      BY <1>2, <2>1, <3>1, <3>3 DEF C!End, C!EndNative, good
  <2>4. CASE /\ job[t].end \notin {"return", "exit 0"} \/ HasText(cached.error)
             /\ cached'.output = cached.output /\ cached'.error = Error(job[t].n, 1)
             /\ job'[t].verdict = "err"
    <3>1. ~good
      BY <2>2, <2>4
    <3>2. Error(job[t].n, 1).by = job[t].n /\ HasText(Error(job[t].n, 1))
      BY <1>1, Reported
    <3>3. OnShow' = [OnShow EXCEPT !.error = Running.n]
      BY <1>1, <1>2, <1>3, <2>1, <2>4, ShowsReported
    <3> HIDE DEF good
    <3>4. Verdicts' = [Verdicts EXCEPT ![Running.by] = IF good THEN "ok" ELSE "err"]
      BY <1>4, <2>4, <3>1
    <3>5. QED
      BY <1>2, <2>1, <3>1, <3>3, <3>4 DEF C!End, C!EndNative, good
  <2>5. QED
    BY <1>7, <2>3, <2>4
<1>8. CASE ~job[t].named
  <2>1. ~Running.named /\ OnShow = Shows
    BY <1>1, <1>3, <1>8, Locked DEF Hides
  <2>2. OnShow' = OnShow \/ OnShow' = [OnShow EXCEPT !.error = Running.n]
    <3>1. CASE cached' = cached
      BY <1>2, <2>1, <3>1 DEF Shows
    <3>2. CASE cached'.output = cached.output /\ cached'.error = Error(job[t].n, 1)
      BY <1>1, <1>2, <1>3, <2>1, <3>2, ShowsReported
    <3>3. QED
      BY <1>8, <3>1, <3>2
  <2>3. Verdicts' = [Verdicts EXCEPT ![Running.by] = "err"]
    BY <1>4, <1>8
  <2>4. QED
    BY <1>2, <2>1, <2>2, <2>3 DEF C!End, C!EndUnnamed
<1>9. QED
  BY <1>1, <1>6, <1>7, <1>8

LEMMA FinishRefines ==
  ASSUME PluginInv, NEW t \in Threads, Finish(t)
  PROVE  C!End \/ UNCHANGED C!vars
<1>1. pc[t] = "finish" /\ pc[t] \notin Outside
  BY DEF Finish, At, Outside
<1>2. lock = t /\ ThreadInv(t) /\ job[t].named
  BY <1>1, Inside
<1>3. cached' = (IF Extism(t) THEN kernel ELSE cached) /\ UNCHANGED <<poisoned, count>>
      /\ Moved(t) /\ Same(t)
  BY FinishMoves
<1>4. CASE lock' = lock
  BY <1>1, <1>3, <1>4, InsideStutters
<1>5. CASE /\ job'[t].verdict = "ok" /\ lock' = NoThread
           /\ ~HasText(cached'.error) /\ job[t].end \in {"return", "exit 0"}
  <2>1. Extism(t) => /\ cached'.output = job[t].wrote /\ Ran(t)
                     /\ ~job[t].raised
    BY <1>1, <1>2, <1>3, <1>5 DEF ThreadInv, During, Ran
  <2>2. Extism(t) => /\ cached'.output = IF Ran(t) THEN job[t].wrote ELSE 0
                     /\ job'[t].verdict = IF EndedWell(t) THEN "ok" ELSE "err"
    BY <1>5, <2>1 DEF EndedWell
  <2>3. QED
    BY <1>1, <1>2, <1>3, <1>5, <2>2, EndStep
<1>6. QED
  BY <1>4, <1>5, FinishMoves

LEMMA ReturnErrorRefines ==
  ASSUME PluginInv, NEW t \in Threads, ReturnError(t)
  PROVE  C!End
<1>1. pc[t] = "failed" /\ pc[t] \notin Outside
  BY DEF ReturnError, At, Outside
<1>2. lock = t /\ ThreadInv(t) /\ job[t].n > 0 /\ job[t].n \in Nat
  BY <1>1, Inside
<1>3. /\ Moved(t) /\ Same(t) /\ job'[t] = job[t] /\ lock' = NoThread
      /\ UNCHANGED <<poisoned, count>>
  BY GotoMoves DEF PluginInv, ReturnError, Places
<1>4. /\ cached'.output = cached.output
      /\ cached'.error = Error(job[t].n, 1) \/ cached' = cached
  BY <1>2, ReportTypes DEF ReturnError
<1>5. job[t].verdict = "err"
  BY <1>1, <1>2 DEF ThreadInv, Failed
<1>6. ASSUME Extism(t), job[t].named
      PROVE  /\ cached'.output = IF Ran(t) THEN job[t].wrote ELSE 0
             /\ HasText(cached'.error) => ~EndedWell(t) /\ cached'.error.by = job[t].n
             /\ job'[t].verdict = IF EndedWell(t) THEN "ok" ELSE "err"
  <2>1. cached.output = (IF Ran(t) THEN job[t].wrote ELSE 0) /\ cached.error.by \in {0, job[t].n}
    BY <1>1, <1>2, <1>6 DEF ThreadInv, Failed
  <2>2. ~EndedWell(t)
    BY <1>1, <1>2, <1>5, <1>6 DEF ThreadInv, Judged, EndedWell, Ran
  <2>3. HasText(cached'.error) => cached'.error.by = job[t].n
    BY <1>4, <2>1 DEF HasText, Error
  <2>4. QED
    BY <1>3, <1>4, <1>5, <2>1, <2>2, <2>3
<1>7. ASSUME ~Extism(t) PROVE job[t].end \notin {"return", "exit 0"} \/ HasText(cached.error)
  BY <1>1, <1>2, <1>7 DEF ThreadInv, Failed
<1>8. QED
  BY <1>1, <1>3, <1>4, <1>5, <1>6, <1>7, EndStep

LEMMA OtherRefines ==
  ASSUME PluginInv, lock = NoThread, count' = count + 1,
         UNCHANGED <<lock, poisoned, job>>,
         \/ cached' = cached
         \/ /\ ~poisoned /\ cached'.output = cached.output
            /\ cached'.error = Error(count + 1, 1)
  PROVE  C!Other
<1>1. count \in Nat
  BY Types DEF PluginInv
<1>2. Running = C!Idle /\ Running' = Running
  BY Unlocked, UnlockedNext
<1>3. Verdicts' = Verdicts
  BY DEF Verdicts
<1>4. CASE cached' = cached
  <2>1. OnShow' = OnShow
    BY <1>4, Unlocked, UnlockedNext DEF Shows
  <2>2. QED
    BY <1>2, <1>3, <2>1 DEF C!Other
<1>5. CASE /\ ~poisoned /\ cached'.output = cached.output
           /\ cached'.error = Error(count + 1, 1)
  <2>1. cached'.error.by = count + 1 /\ HasText(cached'.error)
    BY <1>1, <1>5 DEF Error, HasText
  <2>2. OnShow = Shows /\ OnShow' = Shows'
    BY <1>5, Unlocked, UnlockedNext
  <2>3. OnShow' = [OnShow EXCEPT !.error = count + 1]
    BY <1>5, <2>1, <2>2 DEF Shows
  <2>4. QED
    BY <1>2, <1>3, <1>5, <2>3 DEF C!Other
<1>6. QED
  BY <1>4, <1>5

LEMMA PreparesRefines ==
  ASSUME PluginInv, NEW t \in Threads, Instantiate(t) \/ SetInput(t) \/ Start(t)
  PROVE  C!Break \/ UNCHANGED C!vars
<1>1. pc[t] \in {"instantiate", "input", "lookup"} /\ pc[t] \notin Outside
  BY DEF Instantiate, SetInput, Start, At, Outside
<1>2. ThreadInv(t)
  BY <1>1, Inside
<1>3. CASE Panic(t) /\ pc[t] # "input"
  BY <1>1, <1>3, BreakStep
<1>4. CASE /\ (\E rc \in {-1} : Fail(t, rc)) \/ (\E place \in Places : Goto(t, place) /\ job' = job)
           /\ UNCHANGED <<lock, poisoned, count>> /\ (Extism(t) \/ cached' = cached)
  <2>1. Moved(t) /\ Same(t)
    BY <1>4, FailMoves, GotoMoves DEF PluginInv
  <2>2. QED
    BY <1>1, <1>4, <2>1, InsideStutters
<1>5. CASE Instantiate(t)
  BY <1>3, <1>4, <1>5 DEF Instantiate, At, Places
<1>6. CASE SetInput(t)
  <2>1. Extism(t)
    BY <1>2, <1>6 DEF SetInput, At, ThreadInv, Before
  <2>2. QED
    BY <1>4, <1>6, <2>1 DEF SetInput, Places
<1>7. CASE Start(t)
  BY <1>3, <1>4, <1>7 DEF Start, At, Places
<1>8. QED
  BY <1>5, <1>6, <1>7

LEMMA GuestRefines ==
  ASSUME PluginInv, NEW t \in Threads, GuestOutput(t) \/ GuestError(t) \/ GuestEnds(t)
  PROVE  C!Run
<1>1. pc[t] = "guest" /\ UNCHANGED <<lock, poisoned, count, cached>>
  BY DEF GuestOutput, GuestError, GuestEnds, At
<1>2. /\ Moved(t) /\ job'[t].n = job[t].n /\ job'[t].kind = job[t].kind
      /\ job'[t].wrote \in {job[t].wrote, job[t].n} /\ job'[t].named = job[t].named
  BY GuestOutputMoves, GuestErrorMoves, GuestEndsMoves
<1>3. job'[t].end \in {"none", "return", "trap", "exit 0", "exit 1"} /\ job'[t].raised \in BOOLEAN
  <2>1. job'[t] \in Jobs
    BY <1>2 DEF Moved
  <2>2. QED
    BY <2>1 DEF Jobs
<1>4. QED
  BY <1>1, <1>2, <1>3, RunStep

LEMMA OthersRefine ==
  ASSUME PluginInv, NEW t \in Threads, Configure(t) \/ Reset(t)
  PROVE  C!Other
<1>1. count + 1 \in Nat
  BY Types DEF PluginInv
<1>2. lock = NoThread /\ count' = count + 1 /\ UNCHANGED <<lock, poisoned, job>>
  BY DEF Configure, Reset
<1>3. CASE cached' = cached
  BY <1>2, <1>3, OtherRefines
<1>4. CASE Configure(t) /\ Report(count + 1)
  <2>1. cached'.output = cached.output /\ (cached'.error = Error(count + 1, 1) \/ cached' = cached)
    BY <1>1, <1>4, ReportTypes
  <2>2. ~poisoned
    BY <1>4 DEF Configure
  <2>3. QED
    BY <1>2, <2>1, <2>2, OtherRefines
<1>5. QED
  BY <1>3, <1>4 DEF Configure, Reset

LEMMA ReadsStutter ==
  ASSUME UNCHANGED <<lock, poisoned, cached, count, job>>
  PROVE  UNCHANGED C!vars
BY DEF C!vars, Running, OnShow, Visible, Verdicts

LEMMA StepRefines == PluginInv /\ [Next]_vars => [C!Next]_(C!vars)
<1> SUFFICES ASSUME PluginInv, [Next]_vars PROVE C!Next \/ UNCHANGED C!vars
  OBVIOUS
<1>1. CASE UNCHANGED vars
  BY <1>1, ReadsStutter DEF vars
<1>2. ASSUME NEW t \in Threads, NEW kind \in {"extism", "native"}, Call(t, kind)
      PROVE  C!Next
  BY <1>2, BeginStep DEF C!Next
<1>3. ASSUME NEW t \in Threads, Step(t)
      PROVE  C!Next \/ UNCHANGED C!vars
  BY <1>3, PreparesRefines, FinishRefines, ReturnErrorRefines DEF Step, C!Next
<1>4. ASSUME NEW t \in Threads,
             GuestOutput(t) \/ GuestError(t) \/ GuestEnds(t) \/ HostPanics(t)
      PROVE  C!Next
  BY <1>4, GuestRefines, BreakStep DEF HostPanics, At, C!Next
<1>5. ASSUME NEW t \in Threads, Configure(t) \/ Reset(t)
      PROVE  C!Next
  BY <1>5, OthersRefine DEF C!Next
<1>6. ASSUME NEW t \in Threads, LockPanics(t) \/ ReadLength(t) \/ ReadLast(t)
      PROVE  UNCHANGED C!vars
  BY <1>6, ReadsStutter DEF LockPanics, ReadLength, ReadLast
<1>7. QED
  BY <1>1, <1>2, <1>3, <1>4, <1>5, <1>6 DEF Next

LEMMA InitRefines == Init => C!Init
<1> SUFFICES ASSUME Init PROVE C!Init
  OBVIOUS
<1>1. lock = NoThread /\ ~poisoned /\ cached = Nothing
  BY DEF Init
<1>2. Running = C!Idle /\ OnShow = Shows
  BY <1>1, Unlocked
<1>3. Shows = [output |-> 0, error |-> 0]
  BY <1>1, NothingShown DEF Shows
<1>4. Verdicts = [t \in Threads |-> "none"]
  BY PluginAssumption DEF Init, NewJob, Verdicts
<1>5. QED
  BY <1>2, <1>3, <1>4 DEF Init, C!Init

(* The calls of any number of threads take effect one after the other: no  *)
(* step of the code shows anybody a verdict or an output that a run of     *)
(* whole calls would not.                                                  *)
THEOREM PluginCallsAtomic == Spec => CallsAreAtomic
BY InitRefines, StepRefines, PluginSafe, PTL DEF Spec, CallsAreAtomic, C!Spec
=============================================================================
