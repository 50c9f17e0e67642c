------------------------------ MODULE Sessions ------------------------------
(***************************************************************************)
(* The registry of viewer sessions (SessionStore,                          *)
(* src/molmcp/providers/molvis/session.py) under concurrent tool calls.    *)
(* open claims an id under the lock, builds the stage outside it, and      *)
(* registers; close looks the session up, closes its stage outside the     *)
(* lock, and unregisters.  Each lock region is a step.                     *)
(***************************************************************************)
EXTENDS Integers

CONSTANTS
    Threads,        \* the server's workers, one tool call at a time each
    Ids,            \* session ids
    SerialClose,    \* whether an id is closed by one call at a time
    MaxOpens, MaxFaults    \* bounds of the runs

ASSUME SessionsAssumption ==
    /\ SerialClose \in BOOLEAN /\ MaxOpens \in Nat /\ MaxFaults \in Nat

VARIABLES
    sessions,       \* _sessions: the stage registered for each id, or NoStage
    opening,        \* _opening: ids claimed and not yet released
    pc, id, stage,  \* of each thread: its place, its id, the stage it holds
    opens,          \* how many opens have begun; an open's number names its stage
    named,          \* the id of each open
    live,           \* the stages that are built and not closed
    leaked,         \* those whose subscribe or close raised
    faults

calls  == <<pc, id, stage>>
vars   == <<sessions, opening, pc, id, stage, opens, named, live, leaked, faults>>

NoStage == 0
NoId    == "none"

Init ==
    /\ sessions = [i \in Ids |-> NoStage] /\ opening = {}
    /\ pc = [t \in Threads |-> "idle"]
    /\ id = [t \in Threads |-> NoId] /\ stage = [t \in Threads |-> NoStage]
    /\ named = [n \in 1..MaxOpens |-> NoId]
    /\ opens = 0 /\ live = {} /\ leaked = {} /\ faults = 0

Goto(t, p) == pc' = [pc EXCEPT ![t] = p]
Fault      == faults < MaxFaults /\ faults' = faults + 1

\* The call returns or raises: nothing of it is left.
Return(t) ==
    /\ pc' = [pc EXCEPT ![t] = "idle"]
    /\ id' = [id EXCEPT ![t] = NoId] /\ stage' = [stage EXCEPT ![t] = NoStage]

-----------------------------------------------------------------------------
(* open *)

\* Mutant: only the registered sessions are looked at.
NotRegistered(i) == sessions[i] = NoStage
\* Neither live nor being opened: otherwise SessionExistsError.
Free(i) == sessions[i] = NoStage /\ i \notin opening

\* Mutant: the stage is handed out under the previous number.
LastStage == opens
NewStage  == opens + 1

Claim(t, i) ==
    /\ pc[t] = "idle" /\ Free(i) /\ opens < MaxOpens
    /\ opening' = opening \cup {i}
    /\ opens' = opens + 1 /\ named' = [named EXCEPT ![opens + 1] = i]
    /\ id' = [id EXCEPT ![t] = i] /\ stage' = [stage EXCEPT ![t] = NewStage]
    /\ Goto(t, "build")
    /\ UNCHANGED <<sessions, live, leaked, faults>>

\* stage_factory: outside the lock, a browser handshake of several seconds.
Build(t) ==
    /\ pc[t] = "build"
    /\ live' = live \cup {stage[t]} /\ Goto(t, "subscribe")
    /\ UNCHANGED <<sessions, opening, id, stage, opens, named, leaked, faults>>

\* Mutant: the claim is not released when the build fails.
AfterFailureNothing == "stuck"
\* The finally clause.
AfterFailure == "release"

BuildFails(t) ==
    /\ pc[t] = "build" /\ Fault /\ Goto(t, AfterFailure)
    /\ UNCHANGED <<sessions, opening, id, stage, opens, named, live, leaked>>

Subscribe(t) ==
    /\ pc[t] = "subscribe" /\ Goto(t, "register")
    /\ UNCHANGED <<sessions, opening, id, stage, opens, named, live, leaked, faults>>

\* stage.on raises: the open fails, and nobody closes the stage.
SubscribeFails(t) ==
    /\ pc[t] = "subscribe" /\ Fault /\ Goto(t, AfterFailure)
    /\ leaked' = leaked \cup {stage[t]}
    /\ UNCHANGED <<sessions, opening, id, stage, opens, named, live>>

Register(t) ==
    /\ pc[t] = "register"
    /\ sessions' = [sessions EXCEPT ![id[t]] = stage[t]]
    /\ Goto(t, "release")
    /\ UNCHANGED <<opening, id, stage, opens, named, live, leaked, faults>>

\* The claim ends, whether the session is registered or not.
Release(t) ==
    /\ pc[t] = "release"
    /\ opening' = opening \ {id[t]}
    /\ Return(t)
    /\ UNCHANGED <<sessions, opens, named, live, leaked, faults>>

-----------------------------------------------------------------------------
(* close *)

Closing(i) == {t \in Threads : id[t] = i /\ pc[t] \in {"close", "drop"}}

\* get under the lock: SessionNotFoundError where there is no session.
Lookup(t, i) ==
    /\ pc[t] = "idle" /\ sessions[i] # NoStage
    /\ SerialClose => Closing(i) = {}
    /\ id' = [id EXCEPT ![t] = i] /\ stage' = [stage EXCEPT ![t] = sessions[i]]
    /\ Goto(t, "close")
    /\ UNCHANGED <<sessions, opening, opens, named, live, leaked, faults>>

\* Mutant: the stage is left open.
NotClosed(t) == live
Closed(t)    == live \ {stage[t]}

\* stage.close outside the lock; closing a closed stage does nothing.
CloseStage(t) ==
    /\ pc[t] = "close"
    /\ live' = Closed(t) /\ Goto(t, "drop")
    /\ UNCHANGED <<sessions, opening, id, stage, opens, named, leaked, faults>>

\* It raises: the session is unregistered all the same.
CloseFails(t) ==
    /\ pc[t] = "close" /\ Fault /\ Goto(t, "drop")
    /\ leaked' = leaked \cup {stage[t]}
    /\ UNCHANGED <<sessions, opening, id, stage, opens, named, live>>

\* _sessions.pop(session_id): whatever is registered under the id by now.
Drop(t) ==
    /\ pc[t] = "drop"
    /\ sessions' = [sessions EXCEPT ![id[t]] = NoStage]
    /\ Return(t)
    /\ UNCHANGED <<opening, opens, named, live, leaked, faults>>

\* A call that has begun goes on to its end.
Step(t) ==
    \/ Build(t) \/ BuildFails(t) \/ Subscribe(t) \/ SubscribeFails(t)
    \/ Register(t) \/ Release(t) \/ CloseStage(t) \/ CloseFails(t) \/ Drop(t)

Next == \E t \in Threads : \/ \E i \in Ids : Claim(t, i) \/ Lookup(t, i)
                           \/ Step(t)

Spec == Init /\ [][Next]_vars

\* The workers are threads of the operating system, and factory and stage return.
FairSpec == Spec /\ \A t \in Threads : WF_vars(Step(t))

-----------------------------------------------------------------------------
(* What the registry promises *)

\* Every variable stays in its domain.
TypeOK ==
    /\ sessions \in [Ids -> 0..MaxOpens] /\ opening \subseteq Ids
    /\ pc \in [Threads -> {"idle", "build", "subscribe", "register", "release",
                           "close", "drop"}]
    /\ id \in [Threads -> Ids \cup {NoId}] /\ stage \in [Threads -> 0..MaxOpens]
    /\ named \in [1..MaxOpens -> Ids \cup {NoId}]
    /\ opens \in 0..MaxOpens
    /\ live \subseteq 1..opens /\ leaked \subseteq 1..opens
    /\ faults \in 0..MaxFaults

\* An id has one live stage at most, however opens and closes of it interleave:
\* "refused rather than building a second stage for it" (session.py:382).
OneStagePerId ==
    \A n, m \in live \ leaked : named[n] = named[m] => n = m

\* A live stage can be closed: it is registered under its id, or its open has not
\* returned yet (a raising subscribe or close gives one up).
NoOrphans ==
    \A n \in live \ leaked :
        \/ sessions[named[n]] = n
        \/ \E t \in Threads : pc[t] \in {"subscribe", "register"} /\ stage[t] = n

\* A registered session is never replaced, only unregistered: an open "leaves
\* the existing session untouched", whoever got there first.
NeverReplaced ==
    [][\A i \in Ids : sessions[i] # NoStage =>
          sessions'[i] \in {sessions[i], NoStage}]_vars

\* A failed open frees its id to retry: no claim outlives its call.
ClaimsFreed == \A i \in Ids : i \in opening ~> i \notin opening

=============================================================================
