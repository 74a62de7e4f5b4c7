-------------------------- MODULE PluginRefinement --------------------------
(***************************************************************************)
(* Plugin implements Calls: the steps between the lock and its release are *)
(* one call, and the cached output is on show when its readers can have    *)
(* the lock.                                                               *)
(***************************************************************************)
EXTENDS Plugin

Visible ==
  ~poisoned /\ (lock = NoThread \/ job[lock].kind = "native" \/ ~job[lock].named)

(* The call of the thread that has the lock.                               *)
Running ==
  IF lock = NoThread
  THEN [by |-> NoThread, n |-> 0, kind |-> "none", named |-> TRUE, end |-> "none",
        wrote |-> 0, raised |-> FALSE]
  ELSE [by |-> lock, n |-> job[lock].n, kind |-> job[lock].kind,
        named |-> job[lock].named, end |-> job[lock].end,
        wrote |-> job[lock].wrote, raised |-> job[lock].raised]

OnShow ==
  IF Visible
  THEN [output |-> cached.output,
        error |-> IF HasText(cached.error) THEN cached.error.by ELSE 0]
  ELSE [output |-> -1, error |-> -1]

Verdicts == [t \in Threads |-> IF lock = t THEN "none" ELSE job[t].verdict]

C == INSTANCE Calls WITH
  broken <- poisoned, count <- count, current <- Running, shown <- OnShow,
  verdict <- Verdicts

(* The calls of any number of threads on one plugin take effect one after  *)
(* the other: what the caches and registers go through in between, and     *)
(* what earlier operations left in them, is in nobody's verdict, and in no *)
(* output but that of a call whose name was refused, which shows the one   *)
(* before (raw_call, set_input, get_output_after_call, return_error).      *)
CallsAreAtomic == C!Spec
=============================================================================
