-------------------------------- MODULE Calls -------------------------------
(***************************************************************************)
(* What a plugin promises the threads that share it: calls run one at a    *)
(* time, each is judged when it ends, all at once, by what its own guest   *)
(* did, and until the next operation the plugin shows that call's outcome. *)
(* A native call does not replace what is shown, and fails for an error    *)
(* that is on show; nor does a call whose function has no proper name,     *)
(* which fails.                                                            *)
(***************************************************************************)
EXTENDS Integers

CONSTANTS Threads, NoThread

VARIABLES
  broken,    (* a call panicked: there are no more                         *)
  count,     (* operations so far                                          *)
  current,   (* the call that runs                                         *)
  shown,     (* the calls the output and the error on show are from; not   *)
             (* defined during an extism call and after a panic            *)
  verdict    (* of each thread's last call                                 *)

vars == <<broken, count, current, shown, verdict>>

Hidden == [output |-> -1, error |-> -1]
Idle == [by |-> NoThread, n |-> 0, kind |-> "none", named |-> TRUE, end |-> "none",
         wrote |-> 0, raised |-> FALSE]

Init ==
  /\ broken = FALSE /\ count = 0 /\ current = Idle
  /\ shown = [output |-> 0, error |-> 0]
  /\ verdict = [t \in Threads |-> "none"]

Begin(t, kind, named) ==
  /\ ~broken /\ current = Idle
  /\ count' = count + 1
  /\ current' = [Idle EXCEPT !.by = t, !.n = count + 1, !.kind = kind, !.named = named]
  /\ shown' = IF kind = "extism" /\ named THEN Hidden ELSE shown
  /\ verdict' = [verdict EXCEPT ![t] = "none"]
  /\ UNCHANGED broken

(* The guest runs: what it wrote, whether it raised an error, how it ended. *)
Run ==
  /\ current # Idle /\ current.named /\ current.end = "none"
  /\ \E end \in {"none", "return", "trap", "exit 0", "exit 1"},
        wrote \in {current.wrote, current.n}, raised \in BOOLEAN :
       current' = [current EXCEPT !.end = end, !.wrote = wrote, !.raised = raised]
  /\ UNCHANGED <<broken, count, shown, verdict>>

Good == current.end \in {"return", "exit 0"} /\ ~current.raised

(* An extism call ends: what its guest wrote is shown, nothing if it did   *)
(* not run; the error of a call that failed, unless it could not be kept.  *)
EndExtism ==
  /\ current.kind = "extism" /\ current.named
  /\ shown'.output = IF current.end = "none" THEN 0 ELSE current.wrote
  /\ shown'.error \in IF Good THEN {0} ELSE {0, current.n}
  /\ verdict' = [verdict EXCEPT ![current.by] = IF Good THEN "ok" ELSE "err"]

EndNative ==
  LET good == current.end \in {"return", "exit 0"} /\ shown.error = 0
  IN /\ current.kind = "native" /\ current.named
     /\ shown' = shown \/ (~good /\ shown' = [shown EXCEPT !.error = current.n])
     /\ verdict' = [verdict EXCEPT ![current.by] = IF good THEN "ok" ELSE "err"]

(* The output of an earlier call stays on show, and its error too if that  *)
(* of this call could not be kept.                                         *)
EndUnnamed ==
  /\ ~current.named
  /\ shown' = shown \/ shown' = [shown EXCEPT !.error = current.n]
  /\ verdict' = [verdict EXCEPT ![current.by] = "err"]

End ==
  /\ EndExtism \/ EndNative \/ EndUnnamed
  /\ current' = Idle
  /\ UNCHANGED <<broken, count>>

Break ==
  /\ current # Idle /\ current.named
  /\ broken' = TRUE /\ current' = Idle /\ shown' = Hidden
  /\ UNCHANGED <<count, verdict>>

(* Configuration and reset, between calls: an error of theirs is shown.    *)
Other ==
  /\ current = Idle
  /\ count' = count + 1
  /\ shown' = shown \/ (~broken /\ shown' = [shown EXCEPT !.error = count + 1])
  /\ UNCHANGED <<broken, current, verdict>>

Next == (\E t \in Threads, kind \in {"extism", "native"}, named \in BOOLEAN :
           Begin(t, kind, named))
        \/ Run \/ End \/ Break \/ Other

Spec == Init /\ [][Next]_vars
=============================================================================
