-------------------------------- MODULE Calls --------------------------------
(***************************************************************************)
(* The calls that a serving process answers, as gin runs them: each in a   *)
(* goroutine of its own, a SQL statement at a time, in any interleaving.   *)
(* go holds the locals of every call so far in the order of arrival, which *)
(* also makes a history of them; op names the service's method and pc the  *)
(* statement that is next, "done" once the reply is out.                   *)
(***************************************************************************)
EXTENDS Startup

(* Bound: the operations that may occur in one behaviour, at most this     *)
(* many calls, and whether also when the catalog is not complete.          *)
CONSTANT Workloads    \* a set of [ops, calls, gaps]

VARIABLES
    go,        \* the locals of the calls
    budget     \* bound: how many more calls and failures there may be

callVars == <<go, budget>>

Spend(n) == budget >= n /\ budget' = budget - n

Serves(op) ==
    /\ proc = "serve"
    /\ \E w \in Workloads :
        /\ {op} \cup {go[i].op : i \in DOMAIN go} \subseteq w.ops
        /\ Len(go) < w.calls
        /\ Complete \/ w.gaps

Receive(call) == Serves(call.op) /\ go' = Append(go, call)

(* Call i has not been answered, and is at this statement.                 *)
Open(i) == proc = "serve" /\ go[i].pc \notin {"done", "gone"}
IsAt(i, op, pc) == Open(i) /\ go[i].op = op /\ go[i].pc = pc

Goto(i, pc) == go' = [go EXCEPT ![i].pc = pc]

(* The process dies with the calls it was working on.                      *)
Abandon ==
    go' = [i \in DOMAIN go |-> IF go[i].pc = "done" THEN go[i]
                                ELSE [go[i] EXCEPT !.pc = "gone"]]
=============================================================================
