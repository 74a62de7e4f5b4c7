----------------------------- MODULE TimerProofs -----------------------------
(***************************************************************************)
(* What the timer's channel guarantees, for every set of plugins, every    *)
(* number of calls and every length of the channel.                        *)
(***************************************************************************)
EXTENDS Timer, TLAPS

(* The entry of a plugin is older than its messages, and no message is of  *)
(* a call that is still to come.                                           *)
Bounded(p) ==
  /\ armed[p].call <= call[p]
  /\ \A i \in DOMAIN queue :
       queue[i].id = p => /\ armed[p].call <= queue[i].call /\ queue[i].call <= call[p]
                          /\ queue[i].kind = "Start" => armed[p].call < queue[i].call

(* The messages of a plugin are in the order of its calls, the Start of    *)
(* each first.                                                             *)
Ordered(p) ==
  \A i, j \in DOMAIN queue :
    i < j /\ queue[i].id = p /\ queue[j].id = p
      => /\ queue[i].call <= queue[j].call
         /\ queue[j].kind = "Start" => queue[i].call < queue[j].call

(* OverCallsStop, for one plugin.                                          *)
Follows(p, n, i) == \E j \in DOMAIN queue : i < j /\ Queued("Stop", p, n, j)

Stops(p) ==
  /\ IsArmed(p) /\ Over(p, armed[p].call) => Follows(p, armed[p].call, 0)
  /\ \A i \in DOMAIN queue :
       queue[i].kind = "Start" /\ queue[i].id = p /\ Over(p, queue[i].call)
         => Follows(p, queue[i].call, i)

(* A thread that is gone has left nothing behind.                          *)
Gone == loop = "exited" => queue = <<>> /\ \A p \in Plugins : ~IsArmed(p)

TimerInv ==
  /\ TypeOK
  /\ Gone
  /\ \A p \in Plugins : Bounded(p) /\ Ordered(p) /\ Stops(p)

-----------------------------------------------------------------------------
Messages == [kind : Kinds, id : Plugins \cup {NoPlugin}, call : Nat]
Entries == [call : Nat, deadline : Deadlines]

LEMMA Types ==
  ASSUME TypeOK
  PROVE  /\ queue \in Seq(Messages)
         /\ \A i \in DOMAIN queue :
              /\ queue[i] \in Messages /\ queue[i].call \in Nat /\ queue[i].kind \in Kinds
              /\ queue[i].kind # "Shutdown" => queue[i].id \in Plugins
         /\ armed \in [Plugins -> Entries] /\ \A p \in Plugins : armed[p].call \in Nat
         /\ call \in [Plugins -> Nat] /\ pc \in [Plugins -> {"idle", "guest", "panicked"}]
<1>1. queue \in Seq(Messages) /\ armed \in [Plugins -> Entries]
  BY DEF TypeOK, Messages, Entries
<1>2. \A i \in DOMAIN queue : queue[i] \in Messages
  BY <1>1
<1>3. \A m \in Messages : m.call \in Nat /\ m.kind \in Kinds
  BY DEF Messages
<1>4. \A p \in Plugins : armed[p].call \in Nat
  BY <1>1 DEF Entries
<1>5. QED
  BY <1>1, <1>2, <1>3, <1>4 DEF TypeOK

LEMMA InitInv == Init => TimerInv
<1> SUFFICES ASSUME Init PROVE TimerInv
  OBVIOUS
<1>1. TypeOK
  <2>1. NotArmed \in Entries
    BY DEF NotArmed, Entry, Entries, Deadlines
  <2>2. queue \in Seq(Messages) /\ DOMAIN queue = {}
    BY DEF Init
  <2>3. QED
    BY <2>1, <2>2 DEF Init, TypeOK, Messages, Entries
<1>2. Gone
  BY DEF Init, Gone
<1>3. ASSUME NEW p \in Plugins PROVE Bounded(p) /\ Ordered(p) /\ Stops(p)
  BY DEF Init, Bounded, Ordered, Stops, NotArmed, Entry, IsArmed
<1>4. QED
  BY <1>1, <1>2, <1>3 DEF TimerInv

-----------------------------------------------------------------------------
(* A message is sent: by Start, Stop, Cancel or Shutdown.                  *)
LEMMA Sent ==
  ASSUME TypeOK, NEW m \in Messages, Send(m)
  PROVE  /\ queue' \in Seq(Messages)
         /\ loop = "exited" => queue' = queue
         /\ loop # "exited" => /\ Len(queue') = Len(queue) + 1
                               /\ \A i \in DOMAIN queue : i \in DOMAIN queue' /\ queue'[i] = queue[i]
                               /\ queue'[Len(queue) + 1] = m
         /\ \A i \in DOMAIN queue' : i \in DOMAIN queue \/ i = Len(queue) + 1
BY Types DEF Send, Receiving

LEMMA SendInv ==
  ASSUME TimerInv, NEW m \in Messages, Send(m), UNCHANGED <<armed, loop>>,
         m.kind # "Shutdown" => m.id \in Plugins,
         call' \in [Plugins -> Nat], pc' \in [Plugins -> {"idle", "guest", "panicked"}],
         exit' \in {"no", "joining", "joined"},
         \A p \in Plugins : call[p] <= call'[p],
         \A p \in Plugins :
           m.id = p => m.call = call'[p] /\ (m.kind = "Start" => call[p] < m.call),
         m.kind = "Start" /\ loop # "exited" => ~Over(m.id, m.call)',
         \A p \in Plugins, n \in Nat : Over(p, n)' => Over(p, n) \/ m = Message("Stop", p, n)
  PROVE  TimerInv'
<1>1. TypeOK
  BY DEF TimerInv
<1>2. CASE loop = "exited"
  <2>1. queue = <<>> /\ queue' = <<>> /\ \A p \in Plugins : ~IsArmed(p) /\ ~IsArmed(p)'
    BY <1>1, <1>2, Sent DEF TimerInv, Gone, IsArmed
  <2>2. TypeOK'
    BY <1>1, <2>1 DEF TypeOK
  <2>3. ASSUME NEW p \in Plugins PROVE Bounded(p)' /\ Ordered(p)' /\ Stops(p)'
    <3>1. armed'[p].call <= call'[p]
      BY <1>1, Types DEF TimerInv, Bounded
    <3>2. QED
      BY <2>1, <3>1 DEF Bounded, Ordered, Stops
  <2>4. QED
    BY <2>1, <2>2, <2>3 DEF TimerInv, Gone
<1>3. CASE loop # "exited"
  <2>1. /\ queue \in Seq(Messages) /\ queue' \in Seq(Messages) /\ Len(queue') = Len(queue) + 1
        /\ \A i \in DOMAIN queue : i \in DOMAIN queue' /\ queue'[i] = queue[i] /\ i < Len(queue) + 1
        /\ Len(queue) + 1 \in DOMAIN queue' /\ queue'[Len(queue) + 1] = m
        /\ \A i \in DOMAIN queue' : i \in DOMAIN queue \/ i = Len(queue) + 1
        /\ DOMAIN queue \subseteq Nat /\ Len(queue) \in Nat
    BY <1>1, <1>3, Sent, Types
  <2>2. /\ \A i \in DOMAIN queue : queue[i].call \in Nat
        /\ \A p \in Plugins : armed[p].call \in Nat /\ call[p] \in Nat /\ call'[p] \in Nat
    BY <1>1, Types
  <2>3. TypeOK'
    <3>1. \A i \in DOMAIN queue' : queue'[i].kind # "Shutdown" => queue'[i].id \in Plugins
      BY <1>1, <2>1, Types
    <3>2. QED
      BY <1>1, <2>1, <3>1 DEF TypeOK, Messages
  <2>4. ASSUME NEW p \in Plugins PROVE Bounded(p)'
    <3>1. Bounded(p) /\ armed'[p] = armed[p] /\ call[p] <= call'[p]
      BY <2>4 DEF TimerInv
    <3>2. armed[p].call \in Nat /\ call[p] \in Nat /\ call'[p] \in Nat
      BY <2>2
    <3>3. armed'[p].call <= call'[p]
      BY <3>1, <3>2 DEF Bounded
    <3>4. ASSUME NEW i \in DOMAIN queue, queue[i].id = p
          PROVE  /\ armed[p].call <= queue[i].call /\ queue[i].call <= call'[p]
                 /\ queue[i].kind = "Start" => armed[p].call < queue[i].call
      BY <2>2, <3>1, <3>2, <3>4 DEF Bounded
    <3>5. ASSUME m.id = p
          PROVE  /\ armed[p].call <= m.call /\ m.call <= call'[p]
                 /\ m.kind = "Start" => armed[p].call < m.call
      BY <3>1, <3>2, <3>5 DEF Bounded
    <3>6. QED
      BY <2>1, <3>1, <3>3, <3>4, <3>5 DEF Bounded
  <2>5. ASSUME NEW p \in Plugins PROVE Ordered(p)'
    BY <2>1, <2>2, <2>5 DEF TimerInv, Ordered, Bounded
  <2>6. ASSUME NEW p \in Plugins PROVE Stops(p)'
    <3>1. ASSUME NEW n, NEW i \in Nat, Follows(p, n, i) PROVE Follows(p, n, i)'
      <4>1. PICK j \in DOMAIN queue : i < j /\ Queued("Stop", p, n, j)
        BY <3>1 DEF Follows
      <4>2. j \in DOMAIN queue' /\ queue'[j] = queue[j]
        BY <2>1
      <4>3. QED
        BY <4>1, <4>2 DEF Follows, Queued
    <3>2. ASSUME NEW n, NEW i \in DOMAIN queue \cup {0}, m = Message("Stop", p, n)
          PROVE  Follows(p, n, i)'
      <4>1. Len(queue) + 1 \in DOMAIN queue' /\ queue'[Len(queue) + 1] = m
        BY <2>1
      <4>2. i < Len(queue) + 1
        BY <2>1
      <4>3. QED
        BY <3>2, <4>1, <4>2 DEF Follows, Queued
    <3>3. ASSUME NEW n \in Nat, NEW i \in DOMAIN queue \cup {0}, Over(p, n)',
                 Over(p, n) => Follows(p, n, i)
          PROVE  Follows(p, n, i)'
      BY <2>1, <2>6, <3>1, <3>2, <3>3
    <3>4. IsArmed(p)' /\ Over(p, armed[p].call)' => Follows(p, armed[p].call, 0)'
      <4>1. armed'[p].call = armed[p].call /\ (IsArmed(p)' => IsArmed(p)) /\ armed[p].call \in Nat
        BY <2>2, <2>6 DEF IsArmed
      <4>2. Over(p, armed[p].call)' <=> armed[p].call < call'[p] \/ (armed[p].call = call'[p] /\ pc'[p] = "idle")
        BY <4>1 DEF Over
      <4>3. QED
        <5>1. SUFFICES ASSUME IsArmed(p)', Over(p, armed[p].call)'
                       PROVE  Follows(p, armed[p].call, 0)'
          BY <4>1, <4>2
        <5>2. Over(p, armed[p].call) => Follows(p, armed[p].call, 0)
          BY <2>6, <4>1, <5>1 DEF TimerInv, Stops
        <5>3. QED
          BY <3>3, <4>1, <5>1, <5>2
    <3>5. ASSUME NEW i \in DOMAIN queue', NEW n \in Nat, queue'[i].kind = "Start",
                 queue'[i].id = p, queue'[i].call = n, Over(p, n)'
          PROVE  Follows(p, n, i)'
      <4>1. CASE i \in DOMAIN queue
        <5>1. queue[i].kind = "Start" /\ queue[i].id = p /\ queue[i].call = n
          BY <2>1, <3>5, <4>1
        <5>2. Over(p, n) => Follows(p, n, i)
          BY <2>6, <4>1, <5>1 DEF TimerInv, Stops
        <5>3. QED
          BY <3>3, <3>5, <4>1, <5>2
      <4>2. CASE i = Len(queue) + 1
        BY <1>3, <2>1, <3>5, <4>2 DEF Over
      <4>3. QED
        BY <2>1, <4>1, <4>2
    <3>6. \A i \in DOMAIN queue' : queue'[i].call \in Nat
      <4>1. \A i \in DOMAIN queue' : queue'[i] \in Messages
        BY <2>1
      <4>2. QED
        BY <4>1 DEF Messages
    <3>7. QED
      BY <3>4, <3>5, <3>6 DEF Stops, Over, Follows, Queued
  <2>7. QED
    BY <1>3, <2>3, <2>4, <2>5, <2>6 DEF TimerInv, Gone
<1>4. QED
  BY <1>2, <1>3

-----------------------------------------------------------------------------
(* The thread takes a message.                                             *)
LEMMA Taken ==
  ASSUME TypeOK, queue # <<>>
  PROVE  /\ Head(queue) = queue[1] /\ Head(queue) \in Messages /\ 1 \in DOMAIN queue
         /\ Tail(queue) \in Seq(Messages)
         /\ \A i \in DOMAIN Tail(queue) : i \in Nat /\ i + 1 \in DOMAIN queue
                                          /\ Tail(queue)[i] = queue[i + 1]
         /\ \A i \in DOMAIN queue : i \in Nat /\ (i > 1 => /\ i - 1 \in DOMAIN Tail(queue)
                                                           /\ Tail(queue)[i - 1] = queue[i])
BY Types

(* One entry of a function changes.                                        *)
LEMMA Updated ==
  ASSUME NEW D, NEW S, NEW f \in [D -> S], NEW d \in D, NEW v \in S, NEW g,
         g = [f EXCEPT ![d] = v]
  PROVE  g \in [D -> S] /\ g[d] = v /\ \A c \in D : c # d => g[c] = f[c]
OBVIOUS

(* What is left in the channel keeps its order.                            *)
LEMMA TakenOrder ==
  ASSUME TimerInv, queue # <<>>, queue' = Tail(queue), call' = call, NEW p \in Plugins
  PROVE  Ordered(p)' /\ \A n \in Nat, i \in Nat :
                          /\ Follows(p, n, i + 1) => Follows(p, n, i)'
                          /\ Follows(p, n, 0) /\ queue[1] # Message("Stop", p, n)
                               => Follows(p, n, 0)'
<1> USE Taken DEF TimerInv
<1>1. Ordered(p)'
  BY DEF Ordered
<1>2. ASSUME NEW n \in Nat, NEW i \in Nat, Follows(p, n, i + 1) PROVE Follows(p, n, i)'
  <2>1. PICK j \in DOMAIN queue : i + 1 < j /\ Queued("Stop", p, n, j)
    BY <1>2 DEF Follows
  <2>2. j - 1 \in DOMAIN queue' /\ i < j - 1 /\ queue'[j - 1] = queue[j]
    BY <2>1
  <2>3. QED
    BY <2>1, <2>2 DEF Follows, Queued
<1>3. ASSUME NEW n \in Nat, Follows(p, n, 0), queue[1] # Message("Stop", p, n)
      PROVE  Follows(p, n, 0)'
  <2>1. PICK j \in DOMAIN queue : j > 1 /\ queue[j] = Message("Stop", p, n)
    BY <1>3 DEF Follows, Queued
  <2>2. j - 1 \in DOMAIN queue' /\ 0 < j - 1 /\ queue'[j - 1] = queue[j]
    BY <2>1
  <2>3. QED
    BY <2>1, <2>2 DEF Follows, Queued
<1>4. QED
  BY <1>1, <1>2, <1>3

LEMMA HandleInv ==
  ASSUME TimerInv, NEW next \in {"filter", "drain"}, loop # "exited", Handle(next)
  PROVE  TimerInv'
<1> DEFINE m == Head(queue)
<1>1. /\ TypeOK /\ queue # <<>> /\ m \in Messages /\ m = queue[1] /\ 1 \in DOMAIN queue
      /\ UNCHANGED <<pc, call, exit>> /\ m.call \in Nat
      /\ m.kind # "Shutdown" => m.id \in Plugins
  BY Taken, Types DEF TimerInv, Handle
<1>2. NotArmed \in Entries /\ NotArmed.call = 0
      /\ \A p \in Plugins : Entry(m.call, Deadline(p)) \in Entries
                            /\ Entry(m.call, Deadline(p)).call = m.call
  BY <1>1 DEF NotArmed, Entry, Entries, Deadlines, Deadline
<1> HIDE DEF m
<1>3. CASE m.kind = "Shutdown"
  <2>1. armed' = [p \in Plugins |-> NotArmed] /\ loop' = "exited" /\ queue' = <<>>
    BY <1>3 DEF Handle, m
  <2>2. TypeOK'
    BY <1>1, <1>2, <2>1 DEF TypeOK, Entries
  <2>3. ASSUME NEW p \in Plugins PROVE ~IsArmed(p)' /\ Bounded(p)' /\ Ordered(p)' /\ Stops(p)'
    BY <1>1, <1>2, <2>1, Types DEF IsArmed, Bounded, Ordered, Stops
  <2>4. QED
    BY <2>1, <2>2, <2>3 DEF TimerInv, Gone
<1>4. CASE m.kind # "Shutdown"
  <2>1. /\ queue' = Tail(queue) /\ loop' = next
        /\ \/ m.kind = "Start" /\ armed' = [armed EXCEPT ![m.id] = Entry(m.call, Deadline(m.id))]
           \/ m.kind \in {"Stop", "Cancel"} /\ armed' = [armed EXCEPT ![m.id] = NotArmed]
    BY <1>4 DEF Handle, m
  <2>2. armed \in [Plugins -> Entries] /\ armed' \in [Plugins -> Entries]
        /\ \A p \in Plugins : m.id # p => armed'[p] = armed[p]
    <3>1. armed \in [Plugins -> Entries] /\ m.id \in Plugins
      BY <1>1, <1>4, Types
    <3>2. PICK e \in Entries : armed' = [armed EXCEPT ![m.id] = e]
      BY <1>2, <2>1, <3>1
    <3>3. QED
      BY ONLY <3>1, <3>2, Updated
  <2>3. /\ queue' \in Seq(Messages)
        /\ \A i \in DOMAIN queue' : i \in Nat /\ i + 1 \in DOMAIN queue /\ queue'[i] = queue[i + 1]
        /\ \A i \in DOMAIN queue : queue[i].call \in Nat
        /\ \A p \in Plugins : armed[p].call \in Nat /\ call[p] \in Nat
    BY <1>1, <2>1, Taken, Types
  <2>4. TypeOK'
    <3>1. \A i \in DOMAIN queue' : queue'[i].kind # "Shutdown" => queue'[i].id \in Plugins
      BY <1>1, <2>3, Types
    <3>2. loop' \in {"top", "filter", "drain", "exited"}
      BY <2>1
    <3>3. QED
      BY <1>1, <2>2, <2>3, <3>1, <3>2 DEF TypeOK, Messages, Entries
  <2>5. ASSUME NEW p \in Plugins
        PROVE  /\ m.id = p => \/ armed'[p].call = m.call /\ m.kind = "Start"
                              \/ armed'[p] = NotArmed /\ m.kind # "Start"
               /\ armed'[p].call \in Nat
    BY <1>1, <1>2, <2>1, <2>2, <2>5 DEF Entries
  <2>6. ASSUME NEW p \in Plugins PROVE Bounded(p)'
    <3>1. Bounded(p) /\ Ordered(p)
      BY <2>6 DEF TimerInv
    <3>2. CASE m.id # p
      BY <1>1, <2>2, <2>3, <2>6, <3>1, <3>2 DEF Bounded
    <3>3. CASE m.id = p
      <4>1. armed'[p].call <= m.call /\ m.call <= call[p] /\ armed'[p].call \in Nat
        BY <1>1, <1>2, <2>5, <2>6, <3>1, <3>3 DEF Bounded
      <4>2. \A i \in DOMAIN queue :
              i > 1 /\ queue[i].id = p => m.call <= queue[i].call /\ queue[i].call <= call[p]
                                          /\ (queue[i].kind = "Start" => m.call < queue[i].call)
        BY <1>1, <2>3, <3>1, <3>3 DEF Bounded, Ordered
      <4>3. ASSUME NEW i \in DOMAIN queue', queue'[i].id = p
            PROVE  /\ armed'[p].call <= queue'[i].call /\ queue'[i].call <= call[p]
                   /\ queue'[i].kind = "Start" => armed'[p].call < queue'[i].call
        <5>1. PICK j \in DOMAIN queue : queue'[i] = queue[j] /\ j > 1 /\ queue[j].call \in Nat
          BY <2>3, Types, <1>1
        <5>2. m.call <= queue[j].call /\ queue[j].call <= call[p]
              /\ (queue[j].kind = "Start" => m.call < queue[j].call)
          BY <4>2, <4>3, <5>1
        <5>3. armed'[p].call \in Nat /\ m.call \in Nat /\ armed'[p].call <= m.call
          BY <1>1, <4>1
        <5>4. QED
          BY <5>1, <5>2, <5>3
      <4>4. call'[p] = call[p] /\ armed'[p].call <= call'[p]
        BY <1>1, <2>3, <2>6, <4>1
      <4>5. QED
        BY <4>3, <4>4 DEF Bounded
    <3>4. QED
      BY <3>2, <3>3
  <2>7. ASSUME NEW p \in Plugins PROVE Ordered(p)'
    BY <1>1, <2>1, <2>7, TakenOrder
  <2>8. ASSUME NEW p \in Plugins PROVE Stops(p)'
    <3>1. Stops(p) /\ Bounded(p) /\ Ordered(p)
      BY <2>8 DEF TimerInv
    <3>2. \A n \in Nat, i \in Nat :
            /\ Follows(p, n, i + 1) => Follows(p, n, i)'
            /\ Follows(p, n, 0) /\ m # Message("Stop", p, n) => Follows(p, n, 0)'
      BY <1>1, <2>1, <2>8, TakenOrder
    <3>3. ASSUME NEW i \in DOMAIN queue', NEW n \in Nat, queue'[i].kind = "Start",
                 queue'[i].id = p, queue'[i].call = n, Over(p, n)'
          PROVE  Follows(p, n, i)'
      <4>1. Over(p, n)
        BY <1>1, <3>3 DEF Over
      <4>2. Follows(p, n, i + 1)
        BY <2>3, <3>1, <3>3, <4>1 DEF Stops
      <4>3. QED
        BY <2>3, <3>2, <4>2
    <3>4. ASSUME NEW n \in Nat, IsArmed(p)', armed'[p].call = n, Over(p, n)'
          PROVE  Follows(p, n, 0)'
      <4>1. Over(p, n)
        BY <1>1, <3>4 DEF Over
      <4>2. CASE m.id # p
        <5>1. IsArmed(p) /\ armed[p].call = n
          BY <2>2, <2>8, <3>4, <4>2 DEF IsArmed
        <5>2. Follows(p, n, 0) /\ m # Message("Stop", p, n)
          BY <3>1, <4>1, <4>2, <5>1 DEF Stops, Message
        <5>3. QED
          BY <3>2, <5>2
      <4>3. CASE m.id = p
        <5>1. m.kind = "Start" /\ m.call = n
          BY <2>5, <2>8, <3>4, <4>3 DEF IsArmed
        <5>2. Follows(p, n, 1)
          BY <1>1, <3>1, <4>1, <4>3, <5>1 DEF Stops
        <5>3. QED
          BY <3>2, <5>2
      <4>4. QED
        BY <4>2, <4>3
    <3>5. armed'[p].call \in Nat /\ \A i \in DOMAIN queue' : queue'[i].call \in Nat
      BY <2>3, <2>5, <2>8 DEF Messages
    <3>6. QED
      BY <3>3, <3>4, <3>5 DEF Stops, Over, Follows, Queued, IsArmed
  <2>9. QED
    BY <2>1, <2>4, <2>6, <2>7, <2>8 DEF TimerInv, Gone
<1>5. QED
  BY <1>3, <1>4

-----------------------------------------------------------------------------
(* The other steps: an entry is dropped, or its deadline passes.           *)
LEMMA OtherInv ==
  ASSUME TimerInv, UNCHANGED <<queue, call>>, armed' \in [Plugins -> Entries],
         \A p \in Plugins : armed'[p] = NotArmed \/ (armed'[p].call = armed[p].call /\ IsArmed(p)),
         pc' \in [Plugins -> {"idle", "guest", "panicked"}],
         \A p \in Plugins : pc'[p] = "idle" => pc[p] = "idle",
         loop' \in {"top", "filter", "drain", "exited"}, loop' = "exited" => loop = "exited",
         exit' \in {"no", "joining", "joined"},
         loop = "exited" => armed' = armed
  PROVE  TimerInv'
<1>1. TypeOK'
  BY DEF TimerInv, TypeOK, Entries
<1>2. Gone'
  BY DEF TimerInv, Gone, IsArmed
<1>3. /\ \A i \in DOMAIN queue : queue[i].call \in Nat
      /\ \A p \in Plugins : armed[p].call \in Nat /\ call[p] \in Nat
  BY Types DEF TimerInv
<1>4. NotArmed.call = 0
  BY DEF NotArmed, Entry
<1>5. ASSUME NEW p \in Plugins PROVE Bounded(p)' /\ Ordered(p)' /\ Stops(p)'
  <2>1. Bounded(p) /\ Ordered(p) /\ Stops(p)
    BY <1>5 DEF TimerInv
  <2>2. armed'[p] = NotArmed \/ (armed'[p].call = armed[p].call /\ IsArmed(p))
    BY <1>5
  <2>3. Bounded(p)'
    BY <1>3, <1>4, <1>5, <2>1, <2>2 DEF Bounded
  <2>4. Ordered(p)'
    BY <2>1 DEF Ordered
  <2>5. Stops(p)'
    BY <1>5, <2>1, <2>2 DEF Stops, Over, Follows, Queued, IsArmed
  <2>6. QED
    BY <2>3, <2>4, <2>5
<1>6. QED
  BY <1>1, <1>2, <1>5 DEF TimerInv

LEMMA Quiet ==
  ASSUME TimerInv, UNCHANGED <<queue, armed, call>>,
         pc' \in [Plugins -> {"idle", "guest", "panicked"}],
         \A p \in Plugins : pc'[p] = "idle" => pc[p] = "idle",
         loop' \in {"top", "filter", "drain", "exited"}, loop' = "exited" => loop = "exited",
         exit' \in {"no", "joining", "joined"}
  PROVE  TimerInv'
<1>1. armed' \in [Plugins -> Entries]
  BY Types DEF TimerInv
<1>2. \A p \in Plugins : armed'[p] = NotArmed \/ (armed'[p].call = armed[p].call /\ IsArmed(p))
  BY DEF IsArmed
<1>3. QED
  BY <1>1, <1>2, OtherInv

LEMMA NextInv == TimerInv /\ [Next]_vars => TimerInv'
<1> SUFFICES ASSUME TimerInv, [Next]_vars PROVE TimerInv'
  OBVIOUS
<1> USE TimerAssumption
<1>1. /\ TypeOK /\ armed \in [Plugins -> Entries] /\ call \in [Plugins -> Nat]
      /\ pc \in [Plugins -> {"idle", "guest", "panicked"}]
      /\ loop \in {"top", "filter", "drain", "exited"} /\ exit \in {"no", "joining", "joined"}
      /\ \A p \in Plugins : call[p] \in Nat
  BY Types DEF TimerInv, TypeOK
<1>2. \A p \in Plugins \cup {NoPlugin}, kind \in Kinds, n \in Nat :
        /\ Message(kind, p, n) \in Messages /\ Message(kind, p, n).kind = kind
        /\ Message(kind, p, n).id = p /\ Message(kind, p, n).call = n
  BY DEF Message, Messages
<1>3. "Start" \in Kinds /\ "Stop" \in Kinds /\ "Cancel" \in Kinds /\ "Shutdown" \in Kinds
  BY DEF Kinds
<1>4. ASSUME NEW p \in Plugins, StartCall(p) PROVE TimerInv'
  <2>0. call[p] + 1 \in Nat
    BY <1>1, <1>4
  <2>1. PICK m \in Messages : /\ m = Message("Start", p, call[p] + 1)
                              /\ m.kind = "Start" /\ m.id = p /\ m.call = call[p] + 1
    BY <1>2, <1>3, <1>4, <2>0
  <2>2. Send(m) /\ UNCHANGED <<armed, loop, exit>>
    BY <1>4, <2>1 DEF StartCall
  <2>3. /\ call' \in [Plugins -> Nat] /\ call'[p] = call[p] + 1
        /\ \A q \in Plugins \ {p} : call'[q] = call[q] /\ pc'[q] = pc[q]
        /\ pc' \in [Plugins -> {"idle", "guest", "panicked"}] /\ pc'[p] # "idle"
        /\ pc[p] = "idle"
    BY <1>1, <1>4 DEF StartCall
  <2>4. ~Over(m.id, m.call)'
    BY <1>1, <2>1, <2>3, <1>4 DEF Over
  <2>5. ASSUME NEW q \in Plugins, NEW n \in Nat, Over(q, n)' PROVE Over(q, n)
    BY <1>1, <1>4, <2>3, <2>5 DEF Over
  <2>6. QED
    BY <1>1, <2>1, <2>2, <2>3, <2>4, <2>5, SendInv
<1>5. ASSUME NEW p \in Plugins, StopCall(p) PROVE TimerInv'
  <2> DEFINE m == Message("Stop", p, call[p])
  <2>1. m \in Messages /\ m.kind = "Stop" /\ m.id = p /\ m.call = call[p]
    BY <1>1, <1>2, <1>3, <1>5
  <2>2. Send(m) /\ UNCHANGED <<armed, loop, exit, call>>
    BY <1>5 DEF StopCall
  <2>3. /\ \A q \in Plugins \ {p} : pc'[q] = pc[q]
        /\ pc' \in [Plugins -> {"idle", "guest", "panicked"}]
    BY <1>1, <1>5 DEF StopCall
  <2>4. ASSUME NEW q \in Plugins, NEW n \in Nat, Over(q, n)'
        PROVE  Over(q, n) \/ m = Message("Stop", q, n)
    BY <1>1, <1>5, <2>2, <2>3, <2>4 DEF Over
  <2> HIDE DEF m
  <2>5. QED
    BY <1>1, <2>1, <2>2, <2>3, <2>4, SendInv
<1>6. ASSUME NEW p \in Plugins, Cancel(p) PROVE TimerInv'
  <2> DEFINE m == Message("Cancel", p, call[p])
  <2>1. m \in Messages /\ m.kind = "Cancel" /\ m.id = p /\ m.call = call[p]
    BY <1>1, <1>2, <1>3, <1>6
  <2>2. Send(m) /\ UNCHANGED <<armed, loop, exit, call, pc>>
    BY <1>6 DEF Cancel
  <2>3. \A q \in Plugins, n \in Nat : Over(q, n)' => Over(q, n)
    BY <2>2 DEF Over
  <2> HIDE DEF m
  <2>4. QED
    BY <1>1, <2>1, <2>2, <2>3, SendInv
<1>7. CASE Exit
  <2> DEFINE m == Message("Shutdown", NoPlugin, 0)
  <2>1. m \in Messages /\ m.kind = "Shutdown" /\ m.id = NoPlugin
    BY <1>2, <1>3
  <2>2. Send(m) /\ UNCHANGED <<armed, loop, call, pc>> /\ exit' = "joining"
    BY <1>7 DEF Exit
  <2>3. \A q \in Plugins, n \in Nat : Over(q, n)' => Over(q, n)
    BY <2>2 DEF Over
  <2> HIDE DEF m
  <2>4. QED
    BY <1>1, <2>1, <2>2, <2>3, SendInv
<1>8. ASSUME NEW p \in Plugins, HostPanics(p) PROVE TimerInv'
  <2>1. /\ pc' \in [Plugins -> {"idle", "guest", "panicked"}]
        /\ \A q \in Plugins : pc'[q] = "idle" => pc[q] = "idle"
    BY <1>1, <1>8 DEF HostPanics
  <2>2. QED
    BY <1>1, <1>8, <2>1, Quiet DEF HostPanics
<1>9. ASSUME SkipReceive \/ EndDrain \/ Join \/ UNCHANGED vars PROVE TimerInv'
  BY <1>1, <1>9, Quiet DEF SkipReceive, EndDrain, Join, vars
<1>10. CASE Receive \/ Drain
  BY <1>10, HandleInv DEF Receive, Drain
<1>11. NotArmed \in Entries /\ NotArmed.deadline = "none"
  BY DEF NotArmed, Entry, Entries, Deadlines
<1>12. CASE Filter
  <2>1. armed' = [p \in Plugins |-> IF armed[p].deadline = "due" THEN NotArmed ELSE armed[p]]
        /\ loop # "exited" /\ loop' = "drain" /\ UNCHANGED <<queue, call, pc, exit>>
    BY <1>12 DEF Filter
  <2>2. armed' \in [Plugins -> Entries]
    BY <1>1, <1>11, <2>1
  <2>3. \A p \in Plugins : armed'[p] = NotArmed \/ (armed'[p].call = armed[p].call /\ IsArmed(p))
    BY <2>1 DEF IsArmed
  <2>4. QED
    BY <1>1, <2>1, <2>2, <2>3, OtherInv
<1>13. ASSUME NEW p \in Plugins, Elapse(p) PROVE TimerInv'
  <2> DEFINE e == [armed[p] EXCEPT !.deadline = "due"]
  <2>1. e \in Entries /\ e.call = armed[p].call
    BY <1>1, <1>13 DEF Entries, Deadlines
  <2>2. armed' = [armed EXCEPT ![p] = e] /\ UNCHANGED <<queue, loop, pc, call, exit>>
    BY <1>13 DEF Elapse
  <2> HIDE DEF e
  <2>3. IsArmed(p) /\ loop # "exited"
    BY <1>11, <1>13 DEF Elapse, IsArmed, TimerInv, Gone
  <2>4. armed' \in [Plugins -> Entries] /\ armed'[p].call = armed[p].call
        /\ \A q \in Plugins \ {p} : armed'[q] = armed[q]
    BY <1>1, <1>13, <2>1, <2>2
  <2>5. \A q \in Plugins : armed'[q] = NotArmed \/ (armed'[q].call = armed[q].call /\ IsArmed(q))
    BY <2>3, <2>4 DEF IsArmed
  <2>6. QED
    BY <1>1, <2>2, <2>3, <2>4, <2>5, OtherInv
<1>14. QED
  BY <1>4, <1>5, <1>6, <1>7, <1>8, <1>9, <1>10, <1>12, <1>13 DEF Next

(* The invariant holds whatever the schedules of the threads.              *)
THEOREM TimerSafe == Spec => []TimerInv
BY InitInv, NextInv, PTL DEF Spec

(* Messages name plugins, and nothing of the thread is out of its type.    *)
THEOREM TimerTyped == Spec => []TypeOK
<1>1. TimerInv => TypeOK
  BY DEF TimerInv
<1>2. QED
  BY <1>1, TimerSafe, PTL

(* For every call that is over, the Stop that ends its entry is on its way *)
(* or has been handled.                                                    *)
THEOREM TimerOverCallsStop == Spec => []OverCallsStop
<1>1. TimerInv => OverCallsStop
  <2> SUFFICES ASSUME TimerInv, NEW p \in Plugins
               PROVE  /\ IsArmed(p) /\ Over(p, armed[p].call)
                           => \E j \in DOMAIN queue : Queued("Stop", p, armed[p].call, j)
                      /\ \A i \in DOMAIN queue :
                           queue[i].kind = "Start" /\ queue[i].id = p /\ Over(p, queue[i].call)
                             => \E j \in DOMAIN queue : i < j /\ Queued("Stop", p, queue[i].call, j)
    BY DEF OverCallsStop
  <2>1. Stops(p)
    BY DEF TimerInv
  <2>2. QED
    BY <2>1 DEF Stops, Follows
<1>2. QED
  BY <1>1, TimerSafe, PTL

(* A message for a plugin whose entry is of an earlier call would have     *)
(* passed the Stop of that call.                                           *)
LEMMA OwnMessage ==
  ASSUME TimerInv, queue # <<>>, NEW p \in Plugins, IsArmed(p), Head(queue).id = p,
         Head(queue).kind # "Shutdown"
  PROVE  Head(queue) \in {Message(k, p, armed[p].call) : k \in {"Stop", "Cancel"}}
<1> DEFINE m == Head(queue)
           n == armed[p].call
<1>1. /\ m \in Messages /\ m = queue[1] /\ 1 \in DOMAIN queue /\ m.call \in Nat /\ n \in Nat
      /\ \A i \in DOMAIN queue : i \in Nat /\ queue[i].call \in Nat
      /\ call[p] \in Nat
  BY Taken, Types DEF TimerInv
<1>2. Bounded(p) /\ Ordered(p) /\ Stops(p)
  BY DEF TimerInv
<1> HIDE DEF m
<1>3. n <= m.call /\ m.call <= call[p] /\ (m.kind = "Start" => n < m.call)
  BY <1>1, <1>2 DEF Bounded, m
<1>4. ASSUME n < m.call PROVE FALSE
  <2>1. Follows(p, n, 0)
    BY <1>1, <1>2, <1>3, <1>4 DEF Stops, Over
  <2>2. PICK j \in DOMAIN queue : 0 < j /\ queue[j] = Message("Stop", p, n)
    BY <2>1 DEF Follows, Queued
  <2>3. queue[j].id = p /\ queue[j].call = n
    BY <2>2 DEF Message
  <2>4. j # 1
    BY <1>1, <1>4, <2>3
  <2>5. m.call <= n
    BY <1>1, <1>2, <2>2, <2>3, <2>4 DEF Ordered, m
  <2>6. QED
    BY <1>1, <1>4, <2>5
<1>5. m.call = n /\ m.kind # "Start" /\ m.id = p /\ m.kind \in {"Stop", "Cancel"}
  BY <1>1, <1>3, <1>4 DEF m, Messages, Kinds
<1>6. m = Message(m.kind, p, n)
  BY <1>1, <1>5 DEF Message, Messages
<1>7. QED
  BY <1>5, <1>6 DEF m

(* No message of one call disarms or replaces the entry of another.        *)
THEOREM TimerOwnEntryOnly == Spec => OwnEntryOnly
<1> DEFINE Own == \A p \in Plugins :
                    IsArmed(p) /\ armed'[p] # armed[p] /\ queue' # queue /\ queue # <<>>
                      => Head(queue).kind = "Shutdown" \/ Head(queue) \in
                           {Message(k, p, armed[p].call) : k \in {"Stop", "Cancel"}}
<1>1. TimerInv /\ [Next]_vars => [Own]_vars
  <2> SUFFICES ASSUME TimerInv, [Next]_vars, NEW p \in Plugins, IsArmed(p),
                      armed'[p] # armed[p], queue' # queue, queue # <<>>,
                      Head(queue).kind # "Shutdown"
               PROVE  Head(queue) \in {Message(k, p, armed[p].call) : k \in {"Stop", "Cancel"}}
    OBVIOUS
  <2>1. PICK next \in {"filter", "drain"} : Handle(next)
    BY DEF Next, vars, StartCall, StopCall, HostPanics, Cancel, Exit, Join, Receive,
           SkipReceive, Filter, Drain, EndDrain, Elapse
  <2>2. Head(queue).id = p
    BY <2>1, Types DEF TimerInv, Handle
  <2>3. QED
    BY <2>2, OwnMessage
<1>2. QED
  BY <1>1, TimerSafe, PTL DEF Spec, OwnEntryOnly
=============================================================================
