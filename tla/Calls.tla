------------------------------- MODULE Calls -------------------------------
(***************************************************************************)
(* What startWorkInAThread promises to the batch handlers that call it: a  *)
(* call starts its program once, if at all, and comes back after the       *)
(* program has ended, when all the handlers that were started on top of it *)
(* have come back; after a close no call is made any more.  Worker, with   *)
(* its threads, events and signals, implements it                          *)
(* (Worker!ImplementsCalls).                                               *)
(***************************************************************************)
EXTENDS Integers

CONSTANT MaxNest    \* bound on handlers on top of each other

VARIABLES
    call,    \* per handler, from the bottom: where its call is
    closed   \* the window was closed

callVars == <<call, closed>>

Levels == 1 .. MaxNest

(* none: there is no handler; own: the handler is not in a call; asked:    *)
(* the program is to be started; running; over: the program has ended or   *)
(* could not be started.                                                   *)
CallsInit ==
    /\ call = [n \in Levels |-> "none"]
    /\ closed = FALSE

(* Whoever is on top, every program is started, or cannot be, and ends.    *)
Runs == {<<"asked", "running">>, <<"asked", "over">>, <<"running", "over">>}

(* A click is delivered to the handler on top, which makes its calls; a    *)
(* call comes back to it or throws; it leaves.                             *)
Stacks == {<<"none", "own">>, <<"own", "asked">>,
           <<"over", "own">>, <<"over", "none">>, <<"own", "none">>}

Moves == Runs \cup Stacks

(* Handlers come on top of each other and leave in the reverse order, and  *)
(* only where none is above does one go on.                                *)
Beneath(n) == {m \in Levels : m < n}
Above(n) == {m \in Levels : m > n}

Step(n) == <<call[n], call'[n]>>

Move(n) ==
    /\ Step(n) \in Moves
    /\ call' = [call EXCEPT ![n] = call'[n]]
    /\ Step(n) \in Stacks => /\ \A m \in Beneath(n) : call[m] # "none"
                             /\ \A m \in Above(n) : call[m] = "none"
    /\ call[n] = "none" \/ call'[n] = "asked" => ~closed
    /\ UNCHANGED closed

Close == ~closed /\ closed' = TRUE /\ UNCHANGED call

CallsNext == Close \/ \E n \in Levels : Move(n)

CallsSpec == CallsInit /\ [][CallsNext]_callVars

=============================================================================
