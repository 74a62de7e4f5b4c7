------------------------------ MODULE LogBuffer -----------------------------
(***************************************************************************)
(* Logging through the C API (runtime/src/sdk.rs): tracing's one global    *)
(* subscriber, the LogBuffer it may write to, and extism_log_drain, which  *)
(* calls the host's handler for every line with the buffer locked; and the *)
(* other mutex a thread may hold or want while it logs or drains, that of  *)
(* a plugin's instance.                                                    *)
(*                                                                         *)
(* A line is its number in the order in which the buffers got them; one    *)
(* the filter drops, one that goes to a file and one with an interior NUL  *)
(* (CString::new fails) is no line.                                        *)
(***************************************************************************)
EXTENDS Integers, Sequences

CONSTANTS
  Threads,     (* the threads of the host: numbers from 1                  *)
  MaxLines,    (* bounds of the model: numbers of lines and buffers        *)
  MaxBuffers

ASSUME LogBufferAssumption ==
  Threads \subseteq Nat \ {0} /\ MaxLines \in Nat /\ MaxBuffers \in Nat

VARIABLES
  subscriber,  (* what the subscriber writes to: nothing, if there is      *)
               (* none; a file; or the buffer of this number               *)
  log_buffer,  (* LOG_BUFFER: the number of a buffer, 0 for None           *)
  buffer,      (* the buffers                                              *)
  holder,      (* of each buffer's mutex: the thread that drains it, or 0  *)
  drain,       (* of each thread: the lines its drain has yet to hand out, *)
               (* the first to the handler that is running                 *)
  instance,    (* the thread that holds the plugin's instance, or 0        *)
  waits,       (* of each thread: what it waits for a mutex to do          *)
  lines,       (* history: how many lines the buffers got                  *)
  delivered    (* history: the lines handlers were called with             *)

logVars ==
  <<subscriber, log_buffer, buffer, holder, drain, instance, waits, lines, delivered>>

NoSubscriber == -1
File == 0

Draining(t) == \E b \in DOMAIN holder : holder[b] = t

(* To write a line or to drain takes the mutex of a buffer.                *)
HeldBy(w) ==
  CASE w = "line" /\ subscriber > 0  -> holder[subscriber]
    [] w = "drain" /\ log_buffer > 0 -> holder[log_buffer]
    [] w = "instance"                -> instance
    [] OTHER                         -> 0

(* The thread that t waits for, if there is one.                           *)
HolderOf(t) == HeldBy(waits[t])

(* A thread gets to do what needs a mutex when that is free.               *)
Gets(t, w) ==
  /\ waits[t] \in {"nothing", w} /\ HeldBy(w) = 0
  /\ waits' = [waits EXCEPT ![t] = "nothing"]

(* Otherwise it waits, for itself if it comes to that.                     *)
WaitFor(t, w) ==
  /\ waits[t] = "nothing" /\ HeldBy(w) # 0
  /\ waits' = [waits EXCEPT ![t] = w]
  /\ UNCHANGED <<subscriber, log_buffer, buffer, holder, drain, instance, lines, delivered>>

-----------------------------------------------------------------------------
(* extism_log_file; try_init fails when there is a subscriber already.     *)
LogFile ==
  /\ subscriber = NoSubscriber
  /\ subscriber' = File
  /\ UNCHANGED <<log_buffer, buffer, holder, drain, instance, waits, lines, delivered>>

(* extism_log_custom replaces LOG_BUFFER and then tries to install the     *)
(* subscriber.  LOG_BUFFER is unsynchronized: the caller replaces it when  *)
(* no one is in extism_log_drain.                                          *)
LogCustom ==
  /\ Len(buffer) < MaxBuffers
  /\ \A t \in Threads : ~Draining(t) /\ waits[t] # "drain"
  /\ buffer' = Append(buffer, <<>>)
  /\ holder' = Append(holder, 0)
  /\ log_buffer' = Len(buffer')
  /\ subscriber' = IF subscriber = NoSubscriber THEN Len(buffer') ELSE subscriber
  /\ UNCHANGED <<drain, instance, waits, lines, delivered>>

(* LogBuffer::write of thread t.                                           *)
Line(t) ==
  /\ subscriber > 0 /\ lines < MaxLines /\ Gets(t, "line")
  /\ lines' = lines + 1
  /\ buffer' = [buffer EXCEPT ![subscriber] = Append(@, lines')]
  /\ UNCHANGED <<subscriber, log_buffer, holder, drain, instance, delivered>>

WaitLine(t) == lines < MaxLines /\ WaitFor(t, "line")

(* Mutant: the lines are taken out under the lock, which is given back     *)
(* before the handlers run.                                                *)
DrainUnlocked(t) ==
  /\ log_buffer > 0 /\ drain[t] = <<>> /\ Gets(t, "drain")
  /\ drain' = [drain EXCEPT ![t] = buffer[log_buffer]]
  /\ buffer' = [buffer EXCEPT ![log_buffer] = <<>>]
  /\ UNCHANGED <<subscriber, log_buffer, holder, instance, lines, delivered>>

(* Mutant: the lock is given back after the last line only.                *)
DrainLocksEmpty(t) ==
  /\ log_buffer > 0 /\ drain[t] = <<>> /\ Gets(t, "drain")
  /\ holder' = [holder EXCEPT ![log_buffer] = t]
  /\ drain' = [drain EXCEPT ![t] = buffer[log_buffer]]
  /\ buffer' = [buffer EXCEPT ![log_buffer] = <<>>]
  /\ UNCHANGED <<subscriber, log_buffer, instance, lines, delivered>>

(* extism_log_drain: the lock, and all the lines. Without a line the lock  *)
(* is given back at once.                                                  *)
Drain(t) ==
  /\ log_buffer > 0 /\ drain[t] = <<>> /\ Gets(t, "drain")
  /\ holder' = IF buffer[log_buffer] = <<>> THEN holder
               ELSE [holder EXCEPT ![log_buffer] = t]
  /\ drain' = [drain EXCEPT ![t] = buffer[log_buffer]]
  /\ buffer' = [buffer EXCEPT ![log_buffer] = <<>>]
  /\ UNCHANGED <<subscriber, log_buffer, instance, lines, delivered>>

(* Mutant: the lock outlives the last line.                                *)
HandleKeepsLock(t) ==
  /\ waits[t] = "nothing" /\ drain[t] # <<>>
  /\ delivered' = Append(delivered, Head(drain[t]))
  /\ drain' = [drain EXCEPT ![t] = Tail(@)]
  /\ UNCHANGED <<subscriber, log_buffer, buffer, holder, instance, waits, lines>>

(* The handler returns from one line; after the last the lock is given     *)
(* back.                                                                   *)
Handle(t) ==
  /\ waits[t] = "nothing" /\ drain[t] # <<>>
  /\ delivered' = Append(delivered, Head(drain[t]))
  /\ drain' = [drain EXCEPT ![t] = Tail(@)]
  /\ holder' = [b \in DOMAIN holder |->
                  IF holder[b] = t /\ drain'[t] = <<>> THEN 0 ELSE holder[b]]
  /\ UNCHANGED <<subscriber, log_buffer, buffer, instance, waits, lines>>

(* Every function of the C API that looks into a plugin locks its instance *)
(* until it returns, extism_plugin_call for the whole call.                *)
TakeInstance(t) ==
  /\ Gets(t, "instance")
  /\ instance' = t
  /\ UNCHANGED <<subscriber, log_buffer, buffer, holder, drain, lines, delivered>>

LeaveInstance(t) ==
  /\ waits[t] = "nothing" /\ instance = t
  /\ instance' = 0
  /\ UNCHANGED <<subscriber, log_buffer, buffer, holder, drain, waits, lines, delivered>>

LogInit ==
  /\ subscriber = NoSubscriber /\ log_buffer = 0 /\ buffer = <<>> /\ holder = <<>>
  /\ drain = [t \in Threads |-> <<>>]
  /\ instance = 0 /\ waits = [t \in Threads |-> "nothing"]
  /\ lines = 0 /\ delivered = <<>>

-----------------------------------------------------------------------------
LogTypeOK ==
  /\ subscriber \in NoSubscriber .. Len(buffer) /\ log_buffer \in 0 .. Len(buffer)
  /\ buffer \in Seq(Seq(1 .. MaxLines))
  /\ holder \in [DOMAIN buffer -> Threads \cup {0}]
  /\ drain \in [Threads -> Seq(1 .. MaxLines)]
  /\ instance \in Threads \cup {0}
  /\ waits \in [Threads -> {"nothing", "line", "drain", "instance"}]
  /\ lines \in 0 .. MaxLines /\ delivered \in Seq(1 .. MaxLines)

(* The handlers get every line once, in the order in which they were       *)
(* written, whichever threads drain; what has not been handed out is with  *)
(* a drain or in the subscriber's buffer.  That buffer is the one drains   *)
(* look into as long as no call of extism_log_custom was refused           *)
(* (set_log_buffer, extism_log_drain, LogBuffer::write).                   *)
LinesKept ==
  LET handed == {t \in Threads : drain[t] # <<>>}
      rest == IF subscriber > 0 THEN buffer[subscriber] ELSE <<>>
      pending == IF handed = {} THEN <<>> ELSE drain[CHOOSE t \in handed : TRUE]
  IN /\ delivered \o pending \o rest = [i \in 1 .. lines |-> i]
     /\ \A t, u \in handed : t = u
     /\ Len(buffer) = 1 /\ subscriber > 0 => log_buffer = subscriber

(* A drain ends, and gives the buffer back to the threads that log, unless *)
(* its handler comes to wait for a mutex: for the buffer it is called with *)
(* the lock of, or for a plugin another thread uses (extism_log_drain).    *)
DrainEnds == \A t \in Threads : Draining(t) ~> ~Draining(t) \/ HolderOf(t) # 0

=============================================================================
