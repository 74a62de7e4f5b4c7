-------------------------------- MODULE Pdk ---------------------------------
(***************************************************************************)
(* The PDK functions a guest imports (runtime/src/pdk.rs), the functions   *)
(* on linear memories a host calls on an idle plugin                       *)
(* (runtime/src/otoroshi/sdk.rs), and the specification of a plugin seen   *)
(* from its CurrentPlugin.                                                 *)
(*                                                                         *)
(* An error of a PDK function traps the guest.                             *)
(***************************************************************************)
EXTENDS CurrentPlugin

(* What a PDK function leaves alone.                                       *)
KeepsCall == UNCHANGED <<own, allowed, kind, instance, place, pointers, export>>

(* An early return: nothing has changed but that the guest traps.          *)
Err == Fail /\ KeepsCall /\ UNCHANGED <<memoryVars, dataVars>>

(* The value goes into a new buffer of the guest's; without a value, or    *)
(* with an empty one, the guest gets 0.                                    *)
Answer(bytes) ==
  \/ MemoryNew(bytes) /\ UNCHANGED phase
  \/ OutOfMemory(bytes) /\ Fail

(* Any pointer the PDK follows: undefined if the Plugin is elsewhere.      *)
StalePointers ==
  /\ GuestRuns /\ pointers # place
  /\ Goto("stale")
  /\ KeepsCall /\ UNCHANGED <<memoryVars, dataVars>>

(* config_get: the configuration itself changes under the host's hands     *)
(* (extism_plugin_config), so any value may be the answer.                 *)
ConfigGet(k) ==
  /\ HostFunction
  /\ \/ ~IsStr(k) /\ Err
     \/ /\ IsStr(k) /\ \E bytes \in Keys : Answer(bytes)
        /\ KeepsCall /\ UNCHANGED <<variables, http_status>>

VarGet(k) ==
  /\ HostFunction
  /\ \/ ~IsStr(k) /\ Err
     \/ /\ IsStr(k) /\ Answer(variables[Bytes(k)])
        /\ KeepsCall /\ UNCHANGED <<variables, http_status>>

Size == SumFunction([k \in Keys |-> Len(variables[k])])

(* Mutants: the size is not looked at; a value that is not a handle leaves *)
(* the key without one.                                                    *)
VarSetUnlimited(k, v) ==
  /\ HostFunction
  /\ \/ ~IsStr(k) \/ ~IsHandle(v)
     \/ variables' = [variables EXCEPT ![Bytes(k)] = Bytes(v)]
  /\ IF ~IsStr(k) \/ ~IsHandle(v) THEN Err
     ELSE KeepsCall /\ UNCHANGED <<memoryVars, phase, blocks, http_status>>

VarSetRemovesFirst(k, v) ==
  /\ HostFunction
  /\ IF (Size > VarLimit /\ v # 0) \/ ~IsStr(k) THEN Err
     ELSE /\ variables' = [variables EXCEPT ![Bytes(k)] =
                            IF IsHandle(v) THEN Bytes(v) ELSE <<>>]
          /\ IF IsHandle(v) THEN UNCHANGED phase ELSE Fail
          /\ KeepsCall /\ UNCHANGED <<memoryVars, blocks, http_status>>

(* A value of length 0 is that of a key without value: a live buffer is    *)
(* never empty.  Offset 0 removes the key.                                 *)
VarSet(k, v) ==
  /\ HostFunction
  /\ IF (Size > VarLimit /\ v # 0) \/ ~IsStr(k) \/ ~IsHandle(v) THEN Err
     ELSE /\ variables' = [variables EXCEPT ![Bytes(k)] = Bytes(v)]
          /\ KeepsCall /\ UNCHANGED <<memoryVars, phase, blocks, http_status>>

(* Without a list, or with an empty one, no host matches.                  *)
HostMatches(host) == host \in allowed

(* The request is JSON in buffer r, the body in buffer b.  The host may    *)
(* answer with any status, not answer, or answer and break off while the   *)
(* body is read; the status is taken as soon as there is one.  Only the    *)
(* host of the URL is compared: the redirects that ureq's agent follows    *)
(* are not in sight here, nor anywhere in the code, and the status is      *)
(* that of the last answer.                                                *)
HttpRequest(r, b) ==
  /\ HostFunction
  /\ \/ Err
     \/ \E host \in Hosts :
          /\ IsHandle(r) /\ r # 0 /\ HostMatches(host) /\ IsHandle(b)
          /\ \/ /\ http_status' \in Statuses
                /\ \/ Fail /\ UNCHANGED <<memoryVars, blocks>>
                   \/ \E bytes \in Keys : Answer(bytes)
             \/ UNCHANGED <<memoryVars, blocks, phase, http_status>>
          /\ KeepsCall /\ UNCHANGED variables

(* log_warn, log_info, log_debug, log_error: a line whatever the bytes.    *)
Log(offs) ==
  /\ HostFunction
  /\ ~IsHandle(offs) /\ Err

-----------------------------------------------------------------------------
(* Functions a host calls on a plugin that is in no call.                  *)

OnIdle(A) ==
  phase = "idle" /\ A /\ KeepsCall /\ UNCHANGED dataVars

HostWrites == OnIdle(WriteBytes /\ UNCHANGED phase)
HostResets == OnIdle(LinearMemoryReset /\ UNCHANGED phase)
HostResetPanics == OnIdle(LinearMemoryResetPanics /\ Goto("aborted"))

(* extism_plugin_output_data and extism_plugin_error find the kernel's     *)
(* memory by way of the pointers.                                          *)
HostReads == OnIdle(pointers # place /\ Goto("stale") /\ UNCHANGED memoryVars)

-----------------------------------------------------------------------------
(* build_new sets the pointers to its local variable, which it returns.    *)
Init ==
  /\ \E p \in Plugins :
       /\ MemoriesInit(p.max_pages, p.min, p.max)
       /\ own = p.own /\ allowed = p.allowed_hosts
  /\ phase = "idle" /\ kind = "extism" /\ instance = FALSE
  /\ place = 1 /\ pointers = 0 /\ export = 0
  /\ blocks = NoBlocks
  /\ variables = [k \in Keys |-> <<>>]
  /\ http_status = 0

Next ==
  \/ Move \/ \E k \in {"extism", "native"} : Call(k)
  \/ Instantiate \/ Started \/ Initialized
  \/ \E bytes \in Texts \cup {<<>>} : SetInput(bytes)
  \/ \E bytes \in Texts : GuestAlloc(bytes)
  \/ \E h \in Handles : GuestFree(h)
  \/ GuestGrows \/ GuestWrites \/ GuestReturns \/ GuestTraps
  \/ StalePointers
  \/ \E k \in Handles \cup {0} : ConfigGet(k) \/ VarGet(k) \/ Log(k)
  \/ \E k, v \in Handles \cup {0} : VarSet(k, v) \/ HttpRequest(k, v)
  \/ HostWrites \/ HostResets \/ HostResetPanics \/ HostReads

Spec == Init /\ [][Next]_vars

-----------------------------------------------------------------------------
(* Properties.                                                             *)

TypeOK ==
  /\ MemoriesTypeOK
  /\ \E p \in Plugins : own = p.own /\ allowed = p.allowed_hosts
  /\ phase \in {"idle", "instantiate", "start", "init", "input", "guest", "stale",
                "aborted"}
  /\ kind \in {"extism", "native"} /\ instance \in BOOLEAN
  /\ place \in 1 .. MaxPlaces /\ pointers \in 0 .. MaxPlaces
  /\ export \in 0 .. Len(memory)
  /\ blocks \in [Handles -> Texts \cup {<<>>}]
  /\ variables \in [Keys -> Texts \cup {<<>>}]
  /\ http_status \in Statuses \cup {0}

(* What a plugin ever gets beyond the memories it was created with, its    *)
(* instance's included, is at most its max_pages, and as much again once   *)
(* its instance is made: however often instantiation fails, whatever grows *)
(* and whatever is reset (memory_growing, instantiate).                    *)
WithinLimit ==
  limit # None => Held - Uncounted <= IF instance THEN 2 * limit ELSE limit

(* When the guest of an extism call runs, its host functions reach the     *)
(* plugin where it is, however it was moved between calls (set_input).     *)
OwnPointers == phase = "guest" /\ kind = "extism" => pointers = place

(* Once the host has reset the shared memory, be it before the first call, *)
(* it works on a memory of its own that no guest, instantiated before or   *)
(* after, ever writes to (linear_memory_reset_from_plugin, build_new).     *)
PartedByReset == linked # imported => memory[linked].by # "guest" /\ linked # export

(* The store never holds more than its limit and one value more (var_set). *)
StoreBounded == \E k \in Keys : Size - Len(variables[k]) <= VarLimit

(* Variables outlive calls, and change only for the one key of a var_set   *)
(* that returns to its guest: not when a call fails halfway, when the      *)
(* buffers they came from are freed or reused, or when the kernel is reset *)
(* for the next input.                                                     *)
VariablesKept ==
  [][variables' # variables
       => /\ GuestRuns /\ phase' = phase
          /\ \E k \in Keys : \A other \in Keys \ {k} : variables'[other] = variables[other]
    ]_vars

=============================================================================
