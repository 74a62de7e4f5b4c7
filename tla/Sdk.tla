-------------------------------- MODULE Sdk ---------------------------------
(***************************************************************************)
(* The C API outside calls into a plugin (runtime/src/sdk.rs): functions   *)
(* and plugins made and freed by the threads of a host, with the log lines *)
(* these operations write, and the callbacks in which they may be called:  *)
(* a handler of extism_log_drain, and a host function of the plugin that   *)
(* the thread calls.                                                       *)
(*                                                                         *)
(* The lines of an operation are represented by the first.  Of the mutexes *)
(* of the plugins' instances one is modelled, that of the first plugin; a  *)
(* handler may take it to look into the plugin (extism_plugin_error, ...), *)
(* not to run its guest.                                                   *)
(***************************************************************************)
EXTENDS HostFunctions, LogBuffer

vars == <<hostVars, logVars>>

Init == HostInit /\ LogInit

First == 1

(* A thread with the instance is in the code of the host only while a host *)
(* function runs.                                                          *)
InHost(t) == instance = t => plugin[First].running # 0

(* The plugins no thread uses, and those whose guest may run: in a thread  *)
(* that holds the instance and is in no handler.                           *)
Idle ==
  {p \in DOMAIN plugin :
     p = First => instance = 0 /\ \A t \in Threads : waits[t] # "instance"}
Calling ==
  {p \in DOMAIN plugin :
     p = First => instance # 0 /\ waits[instance] = "nothing" /\ drain[instance] = <<>>}

-----------------------------------------------------------------------------
(* An operation that writes no line, or none the filter lets through.      *)
Silent(t) ==
  /\ waits[t] = "nothing" /\ InHost(t)
  /\ Unlogged \/ Logged(Idle)
  /\ UNCHANGED logVars

(* One that writes a line first.                                           *)
Traced(t) == InHost(t) /\ Line(t) /\ Logged(Idle)

(* A line from a call, or from a function that looks into the plugin.      *)
Tells(t) == ~InHost(t) /\ Line(t) /\ UNCHANGED hostVars

Waits(t) == WaitLine(t) /\ UNCHANGED hostVars

SetUp(t) ==
  /\ waits[t] = "nothing" /\ InHost(t)
  /\ LogFile \/ LogCustom
  /\ UNCHANGED hostVars

Drains(t) == InHost(t) /\ (Drain(t) \/ WaitFor(t, "drain")) /\ UNCHANGED hostVars

Handled(t) == InHost(t) /\ Handle(t) /\ UNCHANGED hostVars

(* The instance is there, and stays as long as a thread wants it.          *)
Enters(t) ==
  /\ InHost(t)
  /\ First \in DOMAIN plugin /\ plugin[First].state = "live"
  /\ TakeInstance(t) \/ WaitFor(t, "instance")
  /\ UNCHANGED hostVars

Leaves(t) ==
  /\ LeaveInstance(t)
  /\ plugin[First].running = 0
  /\ UNCHANGED hostVars

Next ==
  \/ Internal(Calling) /\ UNCHANGED logVars
  \/ \E t \in Threads :
       \/ Silent(t) \/ Traced(t) \/ Tells(t) \/ Waits(t)
       \/ SetUp(t) \/ Drains(t) \/ Handled(t) \/ Enters(t) \/ Leaves(t)

(* A handler calls the API only so often and returns; what it calls to     *)
(* look into a plugin waits for nothing but the log; and a mutex that      *)
(* becomes free goes to a thread that waits.                               *)
Fairness ==
  \A t \in Threads :
    /\ SF_vars(Handled(t))
    /\ WF_vars(Draining(t) /\ Leaves(t))
    /\ WF_vars(waits[t] = "instance" /\ Enters(t))

Spec == Init /\ [][Next]_vars /\ Fairness

-----------------------------------------------------------------------------
TypeOK == HostTypeOK /\ LogTypeOK

InCallback(t) == drain[t] # <<>> \/ (instance = t /\ plugin[First].running # 0)

(* Threads that all wait for one another, or one that waits for itself,    *)
(* got there through a callback: a handler of extism_log_drain or a host   *)
(* function. Code of the library never wants a second mutex while it holds *)
(* a buffer, and never the mutex it holds (extism_log_drain, the lock of   *)
(* Plugin::instance).                                                      *)
DeadlockFromCallback ==
  \A D \in SUBSET Threads :
    D # {} /\ (\A t \in D : HolderOf(t) \in D) => \E t \in D : InCallback(t)

=============================================================================
