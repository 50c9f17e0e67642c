------------------------------- MODULE Journal -------------------------------
(***************************************************************************)
(* The journal of a viewer session (src/molmcp/providers/molvis/session.py)*)
(* and the agents that poll it.  molvis appends from its websocket thread  *)
(* while polls run on the server's workers: append and poll hold one lock, *)
(* so each is a step.  A page travels to its poller in a response that may *)
(* be lost, and the poller asks again from the cursor it knows.            *)
(***************************************************************************)
EXTENDS Integers, Sequences

CONSTANTS
    Pollers,        \* agents, each with a cursor of its own
    Types,          \* SUBSCRIBED_EVENTS
    MaxLen,         \* ring capacity, journal_maxlen
    Limits,         \* the page sizes an agent asks for
    NoPage,         \* no response on its way
    KeepCursors,    \* whether agents hold on to a cursor when an id is reopened
    MaxEvents, MaxLosses, MaxReopens    \* bounds of the runs

ASSUME JournalAssumption ==
    /\ MaxLen \in Nat \ {0}
    /\ Limits \subseteq Nat /\ KeepCursors \in BOOLEAN
    /\ MaxEvents \in Nat /\ MaxLosses \in Nat /\ MaxReopens \in Nat

VARIABLES
    events,         \* the ring: [cursor, type] records, oldest first
    next,           \* _next_cursor
    log,            \* every event of this session, in order of arrival
    since,          \* the cursor each poller will feed back
    page,           \* the response on its way to each poller
    seen,           \* the cursors of this session each poller was given
    polled,         \* whether it has had a page of this session
    told,           \* whether a page of this session was truncated
    losses, reopens

pollers == <<since, page, seen, polled, told>>
vars    == <<events, next, log, since, page, seen, polled, told, losses, reopens>>

Record == [cursor : 1..MaxEvents, type : Types]
Pages  == [asked : 0..MaxEvents, events : Seq(Record),
           next_cursor : 0..MaxEvents, truncated : BOOLEAN]

Init ==
    /\ events = <<>> /\ next = 1 /\ log = <<>>
    /\ since = [p \in Pollers |-> 0]
    /\ page = [p \in Pollers |-> NoPage]
    /\ seen = [p \in Pollers |-> {}]
    /\ polled = [p \in Pollers |-> FALSE]
    /\ told = [p \in Pollers |-> FALSE]
    /\ losses = 0 /\ reopens = 0

\* Mutant: a deque without a maxlen.
PushAlways(r) == Append(events, r)
\* Mutant: a full ring keeps what it has and drops the new record.
PushUnlessFull(r) == IF Len(events) < MaxLen THEN Append(events, r) ELSE events
\* deque(maxlen): a full ring drops its oldest record.
Push(r) == IF Len(events) < MaxLen THEN Append(events, r) ELSE Append(Tail(events), r)

\* An _EventWriter files a notification of the stage.
Arrive(t) ==
    /\ next <= MaxEvents
    /\ events' = Push([cursor |-> next, type |-> t])
    /\ next' = next + 1
    /\ log' = Append(log, t)
    /\ UNCHANGED <<pollers, losses, reopens>>

Oldest == IF events # <<>> THEN events[1].cursor ELSE next

\* Mutants: the boundary one too low, one too high.
TruncatedLate(s)  == s < Oldest - 2
TruncatedEarly(s) == s < Oldest
\* Something in (s, oldest) fell out of the ring unread.
Truncated(s) == s < Oldest - 1

\* The positions of the records newer than s; the first of them.
Newer(s) == {k \in 1..Len(events) : events[k].cursor > s}
\* Mutant: the caller's last event is given again.
FirstAgain(s) == IF \E k \in 1..Len(events) : events[k].cursor >= s
                 THEN CHOOSE k \in 1..Len(events) :
                        /\ events[k].cursor >= s
                        /\ \A m \in 1..Len(events) : events[m].cursor >= s => k <= m
                 ELSE Len(events) + 1
FirstNewer(s) == IF Newer(s) # {}
                 THEN CHOOSE k \in Newer(s) : \A m \in Newer(s) : k <= m
                 ELSE Len(events) + 1

\* islice of the newer records: they are the tail of the ring, CursorsInOrder.
Slice(s, limit) ==
    SubSeq(events, FirstNewer(s),
           IF FirstNewer(s) + limit - 1 < Len(events)
           THEN FirstNewer(s) + limit - 1 ELSE Len(events))

\* Mutants: the cursor does not advance; an empty page sends the caller to the
\* end of the ring.
CursorStays(s, evs) == s
CursorOfEnd(s, evs) == IF evs # <<>> THEN evs[Len(evs)].cursor ELSE next - 1
NextCursor(s, evs)  == IF evs # <<>> THEN evs[Len(evs)].cursor ELSE s

\* poll_events: the page for what poller p knows, sent back to it.
Poll(p, limit) ==
    /\ page[p] = NoPage
    /\ LET evs == Slice(since[p], limit) IN
         page' = [page EXCEPT ![p] =
                    [asked |-> since[p], events |-> evs,
                     next_cursor |-> NextCursor(since[p], evs),
                     truncated |-> Truncated(since[p])]]
    /\ UNCHANGED <<events, next, log, since, seen, polled, told, losses, reopens>>

Cursors(evs) == {evs[k].cursor : k \in 1..Len(evs)}

\* The poller takes in the page and will feed next_cursor straight back.
Deliver(p) ==
    /\ page[p] # NoPage
    /\ seen' = [seen EXCEPT ![p] = @ \cup Cursors(page[p].events)]
    /\ since' = [since EXCEPT ![p] = page[p].next_cursor]
    /\ told' = [told EXCEPT ![p] = @ \/ page[p].truncated]
    /\ polled' = [polled EXCEPT ![p] = TRUE]
    /\ page' = [page EXCEPT ![p] = NoPage]
    /\ UNCHANGED <<events, next, log, losses, reopens>>

\* The response is lost; the journal does not know.
Lose(p) ==
    /\ page[p] # NoPage /\ losses < MaxLosses
    /\ losses' = losses + 1
    /\ page' = [page EXCEPT ![p] = NoPage]
    /\ UNCHANGED <<events, next, log, since, seen, polled, told, reopens>>

\* The session is closed and its id opened again: a new journal.  The pollers
\* start over, or keep their cursors.  (No response is on its way.)
Reopen ==
    /\ reopens < MaxReopens /\ reopens' = reopens + 1
    /\ \A p \in Pollers : page[p] = NoPage
    /\ events' = <<>> /\ next' = 1 /\ log' = <<>>
    /\ seen' = [p \in Pollers |-> {}]
    /\ polled' = [p \in Pollers |-> FALSE]
    /\ told' = [p \in Pollers |-> FALSE]
    /\ since' = IF KeepCursors THEN since ELSE [p \in Pollers |-> 0]
    /\ UNCHANGED <<page, losses>>

PollSome(p) == \E limit \in Limits : Poll(p, limit)
PollMore(p) == \E limit \in Limits \ {0} : Poll(p, limit)

Next ==
    \/ \E t \in Types : Arrive(t)
    \/ \E p \in Pollers : PollSome(p) \/ Deliver(p) \/ Lose(p)
    \/ Reopen

Spec == Init /\ [][Next]_vars

\* An agent that keeps asking for events, as the tool advises (poll_events), even
\* if it sometimes asks for none; the server answers.
FairSpec == Spec /\ \A p \in Pollers : SF_vars(PollMore(p)) /\ WF_vars(Deliver(p))

-----------------------------------------------------------------------------
(* What the journal promises *)

\* Every variable stays in its domain, the ring within its capacity.
TypeOK ==
    /\ events \in Seq(Record) /\ Len(events) <= MaxLen
    /\ next \in 1..(MaxEvents + 1) /\ log \in Seq(Types)
    /\ since \in [Pollers -> 0..MaxEvents]
    /\ page \in [Pollers -> Pages \cup {NoPage}]
    /\ seen \in [Pollers -> SUBSET (1..MaxEvents)]
    /\ polled \in [Pollers -> BOOLEAN] /\ told \in [Pollers -> BOOLEAN]
    /\ losses \in 0..MaxLosses /\ reopens \in 0..MaxReopens

\* "A cursor can never be reused, skipped, or observed out of order": the ring
\* is the last events of the log, each at its own cursor.
CursorsInOrder ==
    /\ Len(log) = next - 1
    /\ Len(events) = IF Len(log) < MaxLen THEN Len(log) ELSE MaxLen
    /\ \A k \in 1..Len(events) :
         /\ events[k].cursor = next - 1 - Len(events) + k
         /\ events[k].type = log[events[k].cursor]

\* No poller passes over an event without being told: every cursor up to its own
\* was in some page it received, unless a page it received was truncated.
NoSilentLoss ==
    \A p \in Pollers : polled[p] /\ ~told[p] =>
        \A n \in 1..since[p] : n <= Len(log) => n \in seen[p]

\* truncated is no false alarm: an event the poller has not seen is gone.
TruncatedIsLoss ==
    \A p \in Pollers : page[p] # NoPage /\ page[p].truncated =>
        \E n \in (page[p].asked + 1)..Len(log) :
            n \notin seen[p] /\ n \notin Cursors(events)

\* A page, a repeated one too, never gives an event twice: what it holds is newer
\* than anything the poller has seen.
NoRepeats ==
    \A p \in Pollers : page[p] # NoPage =>
        \A n \in Cursors(page[p].events), m \in seen[p] : m < n

\* The journal and its responses are an event feed: see Feed.tla.
AbstractFeed == INSTANCE Feed
ImplementsFeed == AbstractFeed!Spec

\* A poller that keeps asking is given every event or told that some are gone,
\* unless the session is reopened and the event with it.
CatchesUp ==
    \A p \in Pollers : \A n \in 1..MaxEvents :
        n <= Len(log) ~> n > Len(log) \/ n \in seen[p] \/ told[p]

==============================================================================
