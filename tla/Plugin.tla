------------------------------- MODULE Plugin -------------------------------
(***************************************************************************)
(* The life of a plugin's calls (runtime/src/plugin.rs, sdk.rs and         *)
(* otoroshi/sdk.rs): threads share one Plugin, take its instance lock,     *)
(* run a guest function the extism way (input and output in kernel memory) *)
(* or the native way (wasm values), and read the outcome afterwards as the *)
(* Java Plugin.call does, each read under a lock of its own.               *)
(*                                                                         *)
(* Calls are numbered; data is represented by the number of the call it    *)
(* belongs to, 0 for none.  The timeout branch of raw_call needs an        *)
(* interrupt that nothing raises (see Timer) and reset_store a flag that   *)
(* nothing sets: neither is a step.                                        *)
(***************************************************************************)
EXTENDS Integers

CONSTANTS
  Threads,
  NoThread,
  MaxCalls     (* bound of the model: numbered operations                  *)

ASSUME PluginAssumption == NoThread \notin Threads /\ MaxCalls \in Nat

VARIABLES
  lock,        (* who holds the instance lock                              *)
  poisoned,    (* whether a panic unwound past the lock                    *)
  instance,    (* whether the lock holds Some(instance)                    *)
  kernel,      (* output and error registers in kernel memory              *)
  cached,      (* Plugin::output                                           *)
  count,       (* operations so far                                        *)
  pc,          (* where each thread is                                     *)
  job          (* the current or last call of each thread                  *)

vars == <<lock, poisoned, instance, kernel, cached, count, pc, job>>

-----------------------------------------------------------------------------
(* A register may designate a block that is gone: its length is then 0.    *)
Error(n, len) == [by |-> n, length |-> len]
NoError == Error(0, 0)
Nothing == [output |-> 0, error |-> NoError]
HasText(e) == e.by # 0 /\ e.length # 0

(* named: whether the name of the function is UTF-8.  end: how the guest   *)
(* ended.  wrote and raised: what its function left in the registers.      *)
(* verdict and rc: what raw_call, or the refusal of the name, returned.    *)
NewJob(n, kind) ==
  [n |-> n, kind |-> kind, named |-> TRUE, end |-> "none", wrote |-> 0,
   raised |-> FALSE, verdict |-> "none", rc |-> 0]

Unnamed(n, kind) ==
  [NewJob(n, kind) EXCEPT !.named = FALSE, !.verdict = "err", !.rc = -1]

Goto(t, place) == pc' = [pc EXCEPT ![t] = place]
At(t, place) == pc[t] = place
Extism(t) == job[t].kind = "extism"

(* raw_call returns Err((_, rc)), and its callers go on to return_error.   *)
Fail(t, rc) ==
  /\ job' = [job EXCEPT ![t].verdict = "err", ![t].rc = rc]
  /\ Goto(t, "failed")

Succeed(t, rc) ==
  /\ job' = [job EXCEPT ![t].verdict = "ok", ![t].rc = rc]
  /\ Goto(t, "returned")
  /\ lock' = NoThread

(* A panic in raw_call or in a host function: the guard is dropped while   *)
(* unwinding, and the mutex remembers.                                     *)
Panic(t) ==
  /\ lock' = NoThread /\ poisoned' = TRUE
  /\ Goto(t, "panicked")
  /\ UNCHANGED <<instance, kernel, cached, count, job>>

-----------------------------------------------------------------------------
(* raw_call, from the lock its callers take to the result.                 *)

Enter(t, kind) ==
  \/ job' = [job EXCEPT ![t] = NewJob(count + 1, kind)] /\ Goto(t, "instantiate")
  \/ job' = [job EXCEPT ![t] = Unnamed(count + 1, kind)] /\ Goto(t, "failed")

(* Mutant: the lock is not waited for.                                     *)
CallUnlocked(t, kind) ==
  /\ At(t, "idle") /\ ~poisoned
  /\ lock' = t
  /\ count' = count + 1
  /\ Enter(t, kind)
  /\ UNCHANGED <<poisoned, instance, kernel, cached>>

(* A name that is not UTF-8 goes straight to return_error, past            *)
(* instantiate and set_input: what an earlier call left stays.             *)
Call(t, kind) ==
  /\ At(t, "idle") /\ lock = NoThread /\ ~poisoned
  /\ lock' = t
  /\ count' = count + 1
  /\ Enter(t, kind)
  /\ UNCHANGED <<poisoned, instance, kernel, cached>>

(* `lock().unwrap()` of any of the locking functions.                      *)
LockPanics(t) ==
  /\ pc[t] \in {"idle", "returned", "length"} /\ poisoned
  /\ Goto(t, "panicked")
  /\ UNCHANGED <<lock, poisoned, instance, kernel, cached, count, job>>

(* The first call runs the module's start function and initializes the     *)
(* guest's runtime: guest code, which may use the registers.  The instance *)
(* is stored in between, so a failure after that is an error of this call  *)
(* only.                                                                   *)
Instantiate(t) ==
  LET used == [output |-> job[t].n, error |-> Error(job[t].n, 1)]
      next == IF Extism(t) THEN "input" ELSE "lookup"
  IN /\ At(t, "instantiate")
     /\ \/ /\ instance /\ Goto(t, next)
           /\ UNCHANGED <<lock, poisoned, instance, kernel, cached, count, job>>
        \/ /\ ~instance /\ kernel' \in {kernel, used}
           /\ \/ instance' = TRUE /\ Goto(t, next) /\ UNCHANGED job
              \/ instance' \in BOOLEAN /\ Fail(t, -1)
           /\ UNCHANGED <<lock, poisoned, cached, count>>
        \/ ~instance /\ Panic(t)

(* Mutants: set_input leaves the kernel, or the cache, as it was.          *)
SetInputKeepsKernel(t) ==
  /\ At(t, "input")
  /\ cached' = Nothing
  /\ Fail(t, -1) \/ (Goto(t, "lookup") /\ UNCHANGED job)
  /\ UNCHANGED <<lock, poisoned, instance, kernel, count>>

SetInputKeepsCache(t) ==
  /\ At(t, "input")
  /\ kernel' = Nothing
  /\ Fail(t, -1) \/ (Goto(t, "lookup") /\ UNCHANGED job)
  /\ UNCHANGED <<lock, poisoned, instance, cached, count>>

(* set_input clears the cached output, clears the error and resets the     *)
(* kernel before it tries to allocate the input.                           *)
SetInput(t) ==
  /\ At(t, "input")
  /\ cached' = Nothing
  /\ kernel' = Nothing
  /\ Fail(t, -1) \/ (Goto(t, "lookup") /\ UNCHANGED job)
  /\ UNCHANGED <<lock, poisoned, instance, count>>

(* The function may be missing or have too many results; the timer may be  *)
(* gone ("Timer should start").                                            *)
Start(t) ==
  /\ At(t, "lookup")
  /\ \/ /\ Fail(t, -1) \/ (Goto(t, "guest") /\ UNCHANGED job)
        /\ UNCHANGED <<lock, poisoned, instance, kernel, cached, count>>
     \/ Panic(t)

(* The guest, or a host function for it, uses the registers.               *)
GuestOutput(t) ==
  /\ At(t, "guest")
  /\ kernel' = [kernel EXCEPT !.output = job[t].n]
  /\ job' = [job EXCEPT ![t].wrote = job[t].n]
  /\ UNCHANGED <<lock, poisoned, instance, cached, count, pc>>

GuestError(t) ==
  /\ At(t, "guest")
  /\ \E e \in {NoError} \cup {Error(job[t].n, len) : len \in {0, 1}} :
       /\ kernel' = [kernel EXCEPT !.error = e]
       /\ job' = [job EXCEPT ![t].raised = HasText(e)]
  /\ UNCHANGED <<lock, poisoned, instance, cached, count, pc>>

(* The return code is read from the results array, which a guest that did  *)
(* not return leaves null: -1 if the function has a result, 0 if not.  A   *)
(* native call has no return code.                                         *)
Codes(t, end) ==
  IF ~Extism(t) THEN {0} ELSE IF end = "return" THEN {-1, 0, 1} ELSE {-1, 0}

GuestEnds(t) ==
  /\ At(t, "guest")
  /\ \E end \in {"return", "trap", "exit 0", "exit 1"} : \E rc \in Codes(t, end) :
       job' = [job EXCEPT ![t].end = end, ![t].rc = rc]
  /\ Goto(t, "finish")
  /\ UNCHANGED <<lock, poisoned, instance, kernel, cached, count>>

HostPanics(t) == At(t, "guest") /\ Panic(t)

(* Mutant: get_output_after_call fetches the error only.                   *)
FinishErrorOnly(t) ==
  LET now == [cached EXCEPT !.error = IF Extism(t) THEN kernel.error ELSE @]
  IN /\ At(t, "finish")
     /\ cached' = now
     /\ IF HasText(now.error) \/ job[t].end \notin {"return", "exit 0"}
        THEN Fail(t, job[t].rc) /\ UNCHANGED lock
        ELSE Succeed(t, job[t].rc)
     /\ UNCHANGED <<poisoned, instance, kernel, count>>

(* Only an extism call refreshes the cache, but every call looks at the    *)
(* error in it.  With an error text the WASI exit code is out of sight.    *)
Finish(t) ==
  LET now == IF Extism(t) THEN kernel ELSE cached
  IN /\ At(t, "finish")
     /\ cached' = now
     /\ \/ /\ HasText(now.error) \/ job[t].end = "trap"
           /\ Fail(t, job[t].rc) /\ UNCHANGED lock
        \/ /\ ~HasText(now.error) /\ job[t].end = "exit 1"
           /\ Fail(t, 1) /\ UNCHANGED lock
        \/ /\ ~HasText(now.error) /\ job[t].end \in {"return", "exit 0"}
           /\ Succeed(t, IF job[t].end = "return" THEN job[t].rc ELSE 0)
     /\ UNCHANGED <<poisoned, instance, kernel, count>>

(* return_error: without an instance, or if the kernel has no room for the *)
(* message, the error is lost.                                             *)
Report(n) ==
  \/ /\ instance
     /\ kernel' = [kernel EXCEPT !.error = Error(n, 1)]
     /\ cached' = [cached EXCEPT !.error = Error(n, 1)]
  \/ UNCHANGED <<kernel, cached>>

(* Mutant: the lock is not given back.                                     *)
ReturnErrorKeepsLock(t) ==
  /\ At(t, "failed")
  /\ Report(job[t].n)
  /\ Goto(t, "returned")
  /\ UNCHANGED <<lock, poisoned, instance, count, job>>

ReturnError(t) ==
  /\ At(t, "failed")
  /\ Report(job[t].n)
  /\ Goto(t, "returned")
  /\ lock' = NoThread
  /\ UNCHANGED <<poisoned, instance, count, job>>

-----------------------------------------------------------------------------
(* The other functions of the SDK, and the reads of Java's Plugin.call.    *)

(* extism_plugin_config and extism_plugin_function_exists: bad arguments   *)
(* are reported as errors, good ones clear the kernel's error only.        *)
Configure(t) ==
  /\ At(t, "idle") /\ lock = NoThread /\ ~poisoned
  /\ count' = count + 1
  /\ \/ Report(count + 1)
     \/ kernel' = [kernel EXCEPT !.error = NoError] /\ UNCHANGED cached
  /\ UNCHANGED <<lock, poisoned, instance, pc, job>>

(* extism_plugin_reset takes no lock; its callers must see to it that no   *)
(* other thread is in a call, or two threads use one wasmtime store.       *)
Reset(t) ==
  /\ At(t, "idle") /\ lock = NoThread
  /\ count' = count + 1
  /\ kernel' = Nothing
  /\ UNCHANGED <<lock, poisoned, instance, cached, pc, job>>

(* Only -1 makes the Java extism call read the error and throw.            *)
Throws(t) == IF Extism(t) THEN job[t].rc = -1 ELSE job[t].verdict = "err"

ReadLength(t) ==
  /\ At(t, "returned") /\ lock = NoThread /\ ~poisoned
  /\ ~Throws(t) /\ Extism(t)
  /\ Goto(t, "length")
  /\ UNCHANGED <<lock, poisoned, instance, kernel, cached, count, job>>

(* The last read: of the output, or of the error if there is one.          *)
ReadLast(t) ==
  /\ lock = NoThread /\ ~poisoned
  /\ At(t, "length") \/ (At(t, "returned") /\ (Throws(t) \/ ~Extism(t)))
  /\ Goto(t, "idle")
  /\ UNCHANGED <<lock, poisoned, instance, kernel, cached, count, job>>

-----------------------------------------------------------------------------
Init ==
  /\ lock = NoThread /\ poisoned = FALSE
  /\ instance = FALSE
  /\ kernel = Nothing /\ cached = Nothing
  /\ count = 0
  /\ pc = [t \in Threads |-> "idle"]
  /\ job = [t \in Threads |-> NewJob(0, "extism")]

Step(t) ==
  \/ Instantiate(t) \/ SetInput(t) \/ Start(t)
  \/ Finish(t) \/ ReturnError(t)

Next ==
  \E t \in Threads :
    \/ \E kind \in {"extism", "native"} : count < MaxCalls /\ Call(t, kind)
    \/ LockPanics(t)
    \/ Step(t)
    \/ GuestOutput(t) \/ GuestError(t) \/ GuestEnds(t) \/ HostPanics(t)
    \/ count < MaxCalls /\ (Configure(t) \/ Reset(t))
    \/ ReadLength(t) \/ ReadLast(t)

(* The code between two runs of guest code takes its steps; a guest need   *)
(* never end.                                                              *)
Spec == Init /\ [][Next]_vars /\ \A t \in Threads : WF_vars(Step(t))

-----------------------------------------------------------------------------
(* Properties.                                                             *)

Places == {"idle", "instantiate", "input", "lookup", "guest", "finish", "failed",
           "returned", "length", "panicked"}
Registers == [output : Nat, error : [by : Nat, length : {0, 1}]]

(* Whoever is inside raw_call or return_error holds the lock, and nobody   *)
(* else does.                                                              *)
TypeOK ==
  /\ lock \in Threads \cup {NoThread} /\ poisoned \in BOOLEAN /\ instance \in BOOLEAN
  /\ kernel \in Registers /\ cached \in Registers /\ count \in Nat
  /\ pc \in [Threads -> Places]
  /\ job \in [Threads -> [n : Nat, kind : {"extism", "native"}, named : BOOLEAN,
                          end : {"none", "return", "trap", "exit 0", "exit 1"},
                          wrote : Nat, raised : BOOLEAN,
                          verdict : {"none", "ok", "err"}, rc : -1 .. 1]]
  /\ \A t \in Threads :
       lock = t <=> pc[t] \notin {"idle", "returned", "length", "panicked"}

Ran(t) == job[t].end # "none"
EndedWell(t) == job[t].end \in {"return", "exit 0"} /\ ~job[t].raised

(* An extism call is judged by what its own guest did: errors left behind  *)
(* by earlier calls of any thread, native calls, configuration or a reset  *)
(* never make it fail, and its own never go unnoticed (raw_call).          *)
OwnVerdict ==
  \A t \in Threads :
    pc[t] \in {"failed", "returned", "length"} /\ Extism(t) /\ Ran(t)
      => (job[t].verdict = "ok" <=> EndedWell(t))

(* After an extism call, and until somebody starts another operation, the  *)
(* cached output is what that call wrote, or empty, whatever made the call *)
(* fail, with one exception: a call whose name is refused leaves what an   *)
(* earlier one wrote.  A client that has the plugin to itself and reads    *)
(* the output as Java's does (Throws) never meets that                     *)
(* (extism_plugin_call, set_input, get_output_after_call).                 *)
FreshOutput ==
  \A t \in Threads :
    pc[t] \in {"returned", "length"} /\ Extism(t) /\ count = job[t].n
      => \/ cached.output = IF Ran(t) THEN job[t].wrote ELSE 0
         \/ ~job[t].named /\ At(t, "returned") /\ Throws(t)

(* Likewise the error on show is the call's own, and there is one unless   *)
(* return_error could not store it or the call succeeded.  After a refused *)
(* name, and only then, a message that could not be stored leaves that of  *)
(* an earlier operation on show.                                           *)
OwnError ==
  \A t \in Threads :
    pc[t] \in {"returned", "length"} /\ Extism(t) /\ count = job[t].n
      => /\ cached.error.by \in {0, job[t].n} \/ ~job[t].named
         /\ job[t].verdict = "ok" => ~HasText(cached.error)

(* No path through raw_call keeps the instance lock: whoever has it leaves *)
(* it or is inside a guest.                                                *)
LockReleased ==
  \A t \in Threads : lock = t ~> lock # t \/ At(t, "guest")

(* "The return code [...] used to signal a successful call with no errors" *)
(* (extism.h:9): extism_plugin_call returns 0 only for a successful call.  *)
SuccessCode ==
  \A t \in Threads :
    At(t, "returned") /\ Extism(t) /\ job[t].rc = 0 => job[t].verdict = "ok"

(* `output` is "Information that gets populated after a call"              *)
(* (plugin.rs:72), the call being judged by it: a native call whose guest  *)
(* returns and raises nothing succeeds.                                    *)
NativeVerdict ==
  \A t \in Threads :
    At(t, "returned") /\ ~Extism(t) /\ Ran(t) /\ EndedWell(t) => job[t].verdict = "ok"

=============================================================================
