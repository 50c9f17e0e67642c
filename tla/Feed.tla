--------------------------------- MODULE Feed ---------------------------------
(***************************************************************************)
(* What a session's journal promises its pollers: an endless log of events *)
(* of which each poller sees a growing part, in order and never twice; a   *)
(* poller for whom events are passed over is told so.                      *)
(***************************************************************************)
EXTENDS Naturals, Sequences

CONSTANTS Pollers, Types

VARIABLES
    log,        \* the events, in the order they arrived
    since,      \* the last event a poller is done with
    seen,       \* the events it was given
    told        \* whether it was told that it missed some

vars == <<log, since, seen, told>>

Init == /\ log = <<>>
        /\ since = [p \in Pollers |-> 0]
        /\ seen = [p \in Pollers |-> {}]
        /\ told = [p \in Pollers |-> FALSE]

Arrive == /\ \E t \in Types : log' = Append(log, t)
          /\ UNCHANGED <<since, seen, told>>

\* A poller is given the run of events first..last, all new to it; if that
\* leaves a gap it is told.
Read(p) ==
    \E first, last \in (since[p] + 1)..Len(log) :
        /\ first <= last
        /\ first > since[p] + 1 => told'[p]
        /\ \E b \in BOOLEAN : told' = [told EXCEPT ![p] = @ \/ b]
        /\ seen' = [seen EXCEPT ![p] = @ \cup first..last]
        /\ since' = [since EXCEPT ![p] = last]
        /\ UNCHANGED log

\* A poller that asks for nothing may still be told that events are gone.
Warn(p) == /\ since[p] < Len(log)
           /\ told' = [told EXCEPT ![p] = TRUE]
           /\ UNCHANGED <<log, since, seen>>

\* The feed ends and another begins; its readers begin with it.
Restart == /\ log' = <<>>
           /\ since' = [p \in Pollers |-> 0]
           /\ seen' = [p \in Pollers |-> {}]
           /\ told' = [p \in Pollers |-> FALSE]

Next == Arrive \/ Restart \/ \E p \in Pollers : Read(p) \/ Warn(p)

Spec == Init /\ [][Next]_vars

==============================================================================
