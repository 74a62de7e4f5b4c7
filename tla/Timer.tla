-------------------------------- MODULE Timer --------------------------------
(***************************************************************************)
(* The timer of the runtime (runtime/src/timer.rs): one thread that learns *)
(* from a channel which plugin calls are running and forgets those that    *)
(* have stopped, were cancelled or are past their deadline.                *)
(*                                                                         *)
(* Its clients are the calls (Plugin::raw_call sends Start and Stop), the  *)
(* holders of cancel handles, and cleanup_timer at process exit.  Different*)
(* plugins run on different threads; calls of one plugin exclude each      *)
(* other by the instance lock.  Every call carries a number, unknown to    *)
(* the code, so that properties can tell the calls of one plugin apart.    *)
(***************************************************************************)
EXTENDS Integers, Sequences

CONSTANTS
  Plugins,    (* plugin ids                                                *)
  Timed,      (* those whose manifest has a timeout                        *)
  NoPlugin,   (* the id of a Shutdown message                              *)
  MaxCalls,   (* bound of the model: calls per plugin                      *)
  MaxQueue    (* bound of the model: a cancel is sent to a shorter queue   *)

ASSUME TimerAssumption ==
  /\ Timed \subseteq Plugins /\ NoPlugin \notin Plugins
  /\ MaxCalls \in Nat /\ MaxQueue \in Nat

VARIABLES
  queue,      (* the mpsc channel                                          *)
  armed,      (* `plugins`: the entry of each plugin                       *)
  loop,       (* where the timer thread is                                 *)
  pc,         (* where the thread calling each plugin is                   *)
  call,       (* number of the last call of each plugin                    *)
  exit        (* progress of cleanup_timer                                 *)

vars == <<queue, armed, loop, pc, call, exit>>

Message(kind, id, n) == [kind |-> kind, id |-> id, call |-> n]
Entry(n, deadline) == [call |-> n, deadline |-> deadline]
NotArmed == Entry(0, "none")

IsArmed(p) == armed[p] # NotArmed

(* Sends to a channel whose receiver is gone fail; all senders but the one *)
(* of Start ignore that.                                                   *)
Receiving == loop # "exited"
(* Mutant: not first-in, first-out.                                        *)
SendFront(m) == queue' = IF Receiving THEN <<m>> \o queue ELSE queue

Send(m) == queue' = IF Receiving THEN Append(queue, m) ELSE queue

-----------------------------------------------------------------------------
(* The clients.                                                            *)

(* `.expect("Timer should start")` panics with the instance lock held, so  *)
(* the lock is poisoned and the plugin cannot be called again.             *)
StartCall(p) ==
  /\ pc[p] = "idle"
  /\ call' = [call EXCEPT ![p] = @ + 1]
  /\ Send(Message("Start", p, call[p] + 1))
  /\ pc' = [pc EXCEPT ![p] = IF Receiving THEN "guest" ELSE "panicked"]
  /\ UNCHANGED <<armed, loop, exit>>

(* Mutants: Stop is not sent, or without the id of the plugin.             *)
StopCallSilent(p) ==
  /\ pc[p] = "guest"
  /\ pc' = [pc EXCEPT ![p] = "idle"]
  /\ UNCHANGED <<queue, armed, loop, call, exit>>

StopCallNoId(p) ==
  /\ pc[p] = "guest"
  /\ Send(Message("Stop", NoPlugin, call[p]))
  /\ pc' = [pc EXCEPT ![p] = "idle"]
  /\ UNCHANGED <<armed, loop, call, exit>>

(* func.call comes back, with a value or a trap.                           *)
StopCall(p) ==
  /\ pc[p] = "guest"
  /\ Send(Message("Stop", p, call[p]))
  /\ pc' = [pc EXCEPT ![p] = "idle"]
  /\ UNCHANGED <<armed, loop, call, exit>>

(* A host function panics: the panic unwinds through raw_call, which has   *)
(* no guard that would send Stop, and poisons the instance lock.           *)
HostPanics(p) ==
  /\ pc[p] = "guest"
  /\ pc' = [pc EXCEPT ![p] = "panicked"]
  /\ UNCHANGED <<queue, armed, loop, call, exit>>

(* CancelHandle::cancel, from any thread, at any time.                     *)
Cancel(p) ==
  /\ Send(Message("Cancel", p, call[p]))
  /\ UNCHANGED <<armed, loop, pc, call, exit>>

(* cleanup_timer drops the Timer, which sends Shutdown and joins.          *)
Exit ==
  /\ exit = "no"
  /\ Send(Message("Shutdown", NoPlugin, 0))
  /\ exit' = "joining"
  /\ UNCHANGED <<armed, loop, pc, call>>

Join ==
  /\ exit = "joining" /\ loop = "exited"
  /\ exit' = "joined"
  /\ UNCHANGED <<queue, armed, loop, pc, call>>

-----------------------------------------------------------------------------
(* The timer thread.                                                       *)

Deadline(p) == IF p \in Timed THEN "pending" ELSE "never"

(* Mutants: the thread keeps the entry of a call that stopped; it does not *)
(* return on Shutdown.                                                     *)
HandleKeepsStopped(next) ==
  LET m == Head(queue)
  IN /\ queue # <<>>
     /\ armed' = CASE m.kind = "Start"            -> [armed EXCEPT ![m.id] = Entry(m.call, Deadline(m.id))]
                   [] m.kind = "Cancel"           -> [armed EXCEPT ![m.id] = NotArmed]
                   [] m.kind = "Stop"             -> armed
                   [] m.kind = "Shutdown"         -> [p \in Plugins |-> NotArmed]
     /\ loop' = IF m.kind = "Shutdown" THEN "exited" ELSE next
     /\ queue' = IF m.kind = "Shutdown" THEN <<>> ELSE Tail(queue)
     /\ UNCHANGED <<pc, call, exit>>

HandleNoReturn(next) ==
  LET m == Head(queue)
  IN /\ queue # <<>>
     /\ armed' = CASE m.kind = "Start"            -> [armed EXCEPT ![m.id] = Entry(m.call, Deadline(m.id))]
                   [] m.kind = "Shutdown"         -> [p \in Plugins |-> NotArmed]
                   [] OTHER                       -> [armed EXCEPT ![m.id] = NotArmed]
     /\ loop' = next /\ queue' = Tail(queue)
     /\ UNCHANGED <<pc, call, exit>>

(* handle!: `next` is where the thread goes unless it returns.  Neither    *)
(* Cancel nor Shutdown touches the engine: increment_epoch is commented    *)
(* out.                                                                    *)
Handle(next) ==
  LET m == Head(queue)
  IN /\ queue # <<>>
     /\ \/ /\ m.kind = "Start"
           /\ armed' = [armed EXCEPT ![m.id] = Entry(m.call, Deadline(m.id))]
           /\ loop' = next /\ queue' = Tail(queue)
        \/ /\ m.kind \in {"Stop", "Cancel"}
           /\ armed' = [armed EXCEPT ![m.id] = NotArmed]
           /\ loop' = next /\ queue' = Tail(queue)
        \/ /\ m.kind = "Shutdown"
           /\ armed' = [p \in Plugins |-> NotArmed]
           /\ loop' = "exited" /\ queue' = <<>>
     /\ UNCHANGED <<pc, call, exit>>

(* rx.recv() blocks, and is only reached while no plugin is known.         *)
Receive ==
  /\ loop = "top" /\ \A p \in Plugins : ~IsArmed(p)
  /\ Handle("filter")

SkipReceive ==
  /\ loop = "top" /\ \E p \in Plugins : IsArmed(p)
  /\ loop' = "filter"
  /\ UNCHANGED <<queue, armed, pc, call, exit>>

(* Entries past their deadline are dropped, and nothing else happens.      *)
Filter ==
  /\ loop = "filter"
  /\ armed' = [p \in Plugins |-> IF armed[p].deadline = "due" THEN NotArmed ELSE armed[p]]
  /\ loop' = "drain"
  /\ UNCHANGED <<queue, pc, call, exit>>

(* try_iter goes on until it finds the channel empty.                      *)
Drain ==
  /\ loop = "drain"
  /\ Handle("drain")

EndDrain ==
  /\ loop = "drain" /\ queue = <<>>
  /\ loop' = "top"
  /\ UNCHANGED <<queue, armed, pc, call, exit>>

TimerThread == Receive \/ SkipReceive \/ Filter \/ Drain \/ EndDrain

(* The clock passes the deadline of an entry.                              *)
Elapse(p) ==
  /\ armed[p].deadline = "pending"
  /\ armed' = [armed EXCEPT ![p].deadline = "due"]
  /\ UNCHANGED <<queue, loop, pc, call, exit>>

-----------------------------------------------------------------------------
Init ==
  /\ queue = <<>>
  /\ armed = [p \in Plugins |-> NotArmed]
  /\ loop = "top"
  /\ pc = [p \in Plugins |-> "idle"]
  /\ call = [p \in Plugins |-> 0]
  /\ exit = "no"

Next ==
  \/ \E p \in Plugins : call[p] < MaxCalls /\ StartCall(p)
  \/ \E p \in Plugins : StopCall(p)
  \/ \E p \in Plugins : HostPanics(p)
  \/ \E p \in Plugins : Len(queue) < MaxQueue /\ Cancel(p)
  \/ Exit
  \/ Join
  \/ Receive \/ SkipReceive \/ Filter \/ Drain \/ EndDrain
  \/ \E p \in Plugins : Elapse(p)

(* The timer thread is scheduled and the clock advances.  Nothing is       *)
(* assumed of the guests, which may run for ever.                          *)
Fairness ==
  /\ WF_vars(TimerThread)
  /\ WF_vars(Join)
  /\ \A p \in Plugins : WF_vars(Elapse(p))

Spec == Init /\ [][Next]_vars /\ Fairness

-----------------------------------------------------------------------------
(* Properties.                                                             *)

Kinds == {"Start", "Stop", "Cancel", "Shutdown"}
Deadlines == {"none", "never", "pending", "due"}

(* Messages name plugins, entries the calls they were made for.            *)
TypeOK ==
  /\ queue \in Seq([kind : Kinds, id : Plugins \cup {NoPlugin}, call : Nat])
  /\ \A i \in DOMAIN queue : queue[i].kind # "Shutdown" => queue[i].id \in Plugins
  /\ armed \in [Plugins -> [call : Nat, deadline : Deadlines]]
  /\ loop \in {"top", "filter", "drain", "exited"}
  /\ pc \in [Plugins -> {"idle", "guest", "panicked"}]
  /\ call \in [Plugins -> Nat]
  /\ exit \in {"no", "joining", "joined"}

Queued(kind, p, n, i) == i \in DOMAIN queue /\ queue[i] = Message(kind, p, n)

(* Call n of p is over: p has returned from it or gone on to another.      *)
Over(p, n) == n < call[p] \/ (n = call[p] /\ pc[p] = "idle")

(* An entry, or a Start that will make one, is always followed by the Stop *)
(* of its own call once that call is over, so the thread never keeps an    *)
(* entry for a call that returned (timer.rs:67, plugin.rs:756).            *)
OverCallsStop ==
  \A p \in Plugins :
    /\ IsArmed(p) /\ Over(p, armed[p].call)
         => \E j \in DOMAIN queue : Queued("Stop", p, armed[p].call, j)
    /\ \A i \in DOMAIN queue :
         queue[i].kind = "Start" /\ queue[i].id = p /\ Over(p, queue[i].call)
           => \E j \in DOMAIN queue : i < j /\ Queued("Stop", p, queue[i].call, j)

(* Stop and Cancel only ever remove the entry of the call they were sent   *)
(* for, and Start never overwrites one: a late Stop or Cancel of one call  *)
(* cannot disarm the next, whatever the threads' schedules.                *)
OwnEntryOnly ==
  [][\A p \in Plugins :
       IsArmed(p) /\ armed'[p] # armed[p] /\ queue' # queue /\ queue # <<>>
         => Head(queue).kind = "Shutdown" \/ Head(queue) \in
              {Message(k, p, armed[p].call) : k \in {"Stop", "Cancel"}}]_vars

(* The thread forgets every call that returned.                            *)
ReturnedForgotten ==
  \A p \in Plugins : pc[p] = "idle" ~> ~IsArmed(p) \/ pc[p] # "idle"

(* Timer::drop never waits for ever: the Shutdown it sends is reached      *)
(* behind whatever the calls and cancels put into the channel.             *)
ShutdownCompletes == exit = "joining" ~> exit = "joined"

(* "`timeout_ms` [...] will interrupt a plugin function's execution if it  *)
(* meets or exceeds this value" (manifest/src/lib.rs:343): a guest still   *)
(* running when the deadline of its own call has passed is stopped.        *)
TimeoutInterrupts ==
  \A p \in Timed :
    armed[p].deadline = "due" /\ armed[p].call = call[p] /\ pc[p] = "guest"
      ~> pc[p] # "guest"

=============================================================================
