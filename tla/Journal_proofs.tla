--------------------------- MODULE Journal_proofs ---------------------------
(***************************************************************************)
(* Theorems about Journal, for every ring capacity, page size and number   *)
(* of pollers: the ring is the tail of the log, a page is a run of it, and  *)
(* so a poller that was not told otherwise has seen all it passed over.    *)
(***************************************************************************)
EXTENDS Journal, SequenceTheorems, TLAPS

\* Agents start over when an id is reopened: an assumption of the theorems, the
\* run JournalMC_reopened shows why.
StartOver == ~KeepCursors

\* The number of events that fell out of the ring.
Evicted == Len(log) - Len(events)

\* The last cursor before a page's first record.
Before(g) == g.next_cursor - Len(g.events)

\* A page picks up at the poller's cursor, or says that it does not.
PageInv ==
    \A p \in Pollers : page[p] # NoPage =>
        /\ page[p].asked = since[p]
        /\ page[p].next_cursor <= Len(log)
        /\ since[p] <= Before(page[p])
        /\ Len(page[p].events) = 0 => page[p].next_cursor = since[p]
        /\ ~page[p].truncated => Before(page[p]) = since[p]
        /\ page[p].truncated => since[p] < Evicted
        /\ \A k \in 1..Len(page[p].events) :
               page[p].events[k].cursor = Before(page[p]) + k

\* What a poller has seen is behind its cursor, and all of it unless told.
PollerInv ==
    \A p \in Pollers :
        /\ since[p] <= Len(log)
        /\ seen[p] \subseteq 1..since[p]
        /\ told[p] \/ 1..since[p] \subseteq seen[p]

Inv == TypeOK /\ CursorsInOrder /\ PageInv /\ PollerInv

-----------------------------------------------------------------------------
(* The ring and its pages *)

LEMMA PushProperties ==
    ASSUME TypeOK, CursorsInOrder, NEW r \in Record
    PROVE  /\ Push(r) \in Seq(Record)
           /\ Len(Push(r)) = IF Len(events) < MaxLen THEN Len(events) + 1 ELSE MaxLen
           /\ Push(r)[Len(Push(r))] = r
           /\ \A k \in 1..(Len(Push(r)) - 1) :
                 Push(r)[k] = IF Len(events) < MaxLen THEN events[k] ELSE events[k + 1]
<1> USE JournalAssumption
<1>0. events \in Seq(Record) /\ Len(events) \in Nat
  BY DEF TypeOK
<1>1. CASE Len(events) < MaxLen
  BY <1>0, <1>1 DEF Push
<1>2. CASE ~(Len(events) < MaxLen)
  <2>1. Len(events) = MaxLen
    BY <1>0, <1>2 DEF TypeOK
  <2>2. events # <<>>
    BY <2>1
  <2>3. /\ Tail(events) \in Seq(Record)
        /\ Len(Tail(events)) = Len(events) - 1
        /\ \A k \in 1..Len(Tail(events)) : Tail(events)[k] = events[k + 1]
    BY <1>0, <2>2, HeadTailProperties
  <2> QED
    BY <1>0, <1>2, <2>1, <2>3 DEF Push
<1> QED
  BY <1>1, <1>2

\* The first newer record is the one after s, or the oldest that is left.
LEMMA FirstNewerIs ==
    ASSUME TypeOK, CursorsInOrder, NEW s \in Nat, s <= Len(log)
    PROVE  FirstNewer(s) = IF s < Evicted THEN 1 ELSE s - Evicted + 1
<1> USE JournalAssumption
<1> DEFINE b == IF s < Evicted THEN 1 ELSE s - Evicted + 1
<1>0. Len(events) \in Nat /\ Len(log) \in Nat /\ Evicted \in Nat /\ b \in Nat \ {0}
  BY DEF TypeOK, CursorsInOrder, Evicted
<1>1. \A k \in 1..Len(events) : events[k].cursor = Evicted + k
  BY <1>0 DEF CursorsInOrder, Evicted, TypeOK
<1>2. Newer(s) = b..Len(events)
  BY <1>0, <1>1 DEF Newer
<1>3. CASE b <= Len(events)
  <2>1. b \in Newer(s) /\ \A m \in Newer(s) : b <= m
    BY <1>0, <1>2, <1>3
  <2>a. \A k \in Newer(s) : k \in Int
    BY <1>0 DEF Newer
  <2> HIDE DEF b
  <2>2. \A k \in Newer(s) : (\A m \in Newer(s) : k <= m) => k = b
    BY <1>0, <2>1, <2>a
  <2>3. (CHOOSE k \in Newer(s) : \A m \in Newer(s) : k <= m) = b
    BY <2>1, <2>2
  <2>4. FirstNewer(s) = b
    BY <2>1, <2>3 DEF FirstNewer
  <2> QED
    BY <2>4 DEF b
<1>4. CASE ~(b <= Len(events))
  <2>1. Newer(s) = {}
    BY <1>0, <1>2, <1>4
  <2>2. b = Len(events) + 1
    BY <1>0, <1>4 DEF Evicted, CursorsInOrder
  <2> QED
    BY <2>1, <2>2 DEF FirstNewer
<1> QED
  BY <1>3, <1>4

\* A slice is a run of the log: it starts after s, or after what was evicted.
LEMMA SliceIsARun ==
    ASSUME TypeOK, CursorsInOrder, NEW s \in Nat, s <= Len(log), NEW limit \in Nat
    PROVE  LET before == IF s < Evicted THEN Evicted ELSE s
               evs    == Slice(s, limit)
           IN  /\ evs \in Seq(Record)
               /\ before + Len(evs) <= Len(log)
               /\ \A k \in 1..Len(evs) : evs[k].cursor = before + k
<1> USE JournalAssumption
<1> DEFINE before == IF s < Evicted THEN Evicted ELSE s
           first  == IF s < Evicted THEN 1 ELSE s - Evicted + 1
           last   == IF first + limit - 1 < Len(events) THEN first + limit - 1
                     ELSE Len(events)
           evs    == SubSeq(events, first, last)
<1>0. events \in Seq(Record) /\ Len(events) \in Nat /\ Len(log) \in Nat
  BY DEF TypeOK
<1>a. Evicted \in Nat
  BY <1>0 DEF CursorsInOrder, Evicted
<1>1. first \in Nat \ {0} /\ last \in Int /\ last <= Len(events)
  BY <1>0, <1>a
<1>2. Slice(s, limit) = evs
  BY FirstNewerIs DEF Slice
<1>3. \A k \in 1..Len(events) : events[k].cursor = Evicted + k
  BY <1>0 DEF CursorsInOrder, Evicted, TypeOK
<1>4. \A k \in first..last : events[k] \in Record
  BY <1>0, <1>1, ElementOfSeq
<1> HIDE DEF first, last
<1>5. /\ evs \in Seq(Record)
      /\ Len(evs) = IF first <= last THEN last - first + 1 ELSE 0
      /\ \A k \in 1..(last - first + 1) : evs[k] = events[first + k - 1]
  BY <1>1, <1>4, SubSeqProperties
<1> HIDE DEF evs
<1>6. \A k \in 1..Len(evs) : evs[k].cursor = Evicted + (first + k - 1)
  <2>1. \A k \in 1..Len(evs) : k \in 1..(last - first + 1)
    BY <1>1, <1>5
  <2>2. \A k \in 1..Len(evs) : first + k - 1 \in 1..Len(events)
    BY <1>0, <1>1, <2>1
  <2> QED
    BY <1>3, <1>5, <2>1, <2>2
<1>7. Evicted + first - 1 = before
  BY <1>0, <1>a DEF first
<1>b. before \in Nat
  BY <1>a
<1> HIDE DEF before
<1>8. before + Len(evs) <= Len(log)
  <2>1. Len(evs) = 0 \/ Len(evs) <= Len(events) - first + 1
    BY <1>0, <1>1, <1>5
  <2>2. before <= Len(log)
    BY <1>0 DEF before, Evicted
  <2>3. Len(events) - first + 1 = Len(log) - before
    BY <1>0, <1>1, <1>7 DEF Evicted
  <2>4. Len(evs) \in Nat
    BY <1>5
  <2> QED
    BY <1>0, <1>b, <2>1, <2>2, <2>3, <2>4
<1>9. \A k \in 1..Len(evs) : evs[k].cursor = before + k
  <2> SUFFICES ASSUME NEW k \in 1..Len(evs) PROVE evs[k].cursor = before + k
    OBVIOUS
  <2>1. evs[k].cursor = Evicted + (first + k - 1)
    BY <1>6
  <2>2. k \in Int
    BY <1>5
  <2> QED
    BY <2>1, <2>2, <1>1, <1>a, <1>b, <1>7
<1> QED
  BY <1>2, <1>5, <1>8, <1>9 DEF before

LEMMA CursorsOfPage ==
    ASSUME NEW g \in Pages, Before(g) \in Nat,
           \A k \in 1..Len(g.events) : g.events[k].cursor = Before(g) + k
    PROVE  Cursors(g.events) = (Before(g) + 1)..g.next_cursor
<1>1. g.next_cursor = Before(g) + Len(g.events) /\ Len(g.events) \in Nat
      /\ g.next_cursor \in Nat
  BY JournalAssumption DEF Pages, Before
<1>2. \A n \in (Before(g) + 1)..g.next_cursor :
         n - Before(g) \in 1..Len(g.events) /\ n = Before(g) + (n - Before(g))
  BY <1>1
<1>3. ASSUME NEW n \in (Before(g) + 1)..g.next_cursor
      PROVE  n \in Cursors(g.events)
  BY <1>2, <1>3 DEF Cursors
<1>4. ASSUME NEW n \in Cursors(g.events)
      PROVE  n \in (Before(g) + 1)..g.next_cursor
  BY <1>1, <1>4 DEF Cursors
<1> QED
  BY <1>3, <1>4

-----------------------------------------------------------------------------
(* The invariant *)

LEMMA InitInv == Init => Inv
<1> SUFFICES ASSUME Init PROVE Inv
  OBVIOUS
<1> USE JournalAssumption
<1>1. TypeOK
  BY DEF Init, TypeOK
<1>2. CursorsInOrder
  BY DEF Init, CursorsInOrder
<1>3. PageInv /\ PollerInv
  BY DEF Init, PageInv, PollerInv
<1> QED
  BY <1>1, <1>2, <1>3 DEF Inv

LEMMA ArriveInv ==
    ASSUME Inv, NEW t \in Types, Arrive(t)
    PROVE  Inv'
<1> USE JournalAssumption
<1> DEFINE r == [cursor |-> next, type |-> t]
<1>0. /\ TypeOK /\ CursorsInOrder /\ PageInv /\ PollerInv
      /\ Len(events) \in Nat /\ Len(log) \in Nat /\ next \in 1..MaxEvents
      /\ events' = Push(r) /\ next' = next + 1 /\ log' = Append(log, t)
      /\ r \in Record
  BY DEF Inv, Arrive, TypeOK, Record
<1>1. /\ events' \in Seq(Record)
      /\ Len(events') = IF Len(events) < MaxLen THEN Len(events) + 1 ELSE MaxLen
      /\ events'[Len(events')] = r
      /\ \A k \in 1..(Len(events') - 1) :
            events'[k] = IF Len(events) < MaxLen THEN events[k] ELSE events[k + 1]
  BY <1>0, PushProperties
<1> HIDE DEF r
<1>2. /\ log' \in Seq(Types) /\ Len(log') = Len(log) + 1
      /\ log'[Len(log) + 1] = t
      /\ \A n \in 1..Len(log) : log'[n] = log[n]
  BY <1>0 DEF TypeOK
<1>3. TypeOK'
  <2>1. pollers' = pollers /\ losses' = losses /\ reopens' = reopens
    BY DEF Arrive
  <2>2. Len(events') <= MaxLen /\ next' \in 1..(MaxEvents + 1)
    BY <1>0, <1>1
  <2> QED
    BY <1>0, <1>1, <1>2, <2>1, <2>2 DEF TypeOK, pollers
<1>4. CursorsInOrder'
  <2>1. Len(log') = next' - 1 /\ Len(log) = next - 1
    BY <1>0, <1>2 DEF CursorsInOrder
  <2>2. Len(events') = IF Len(log') < MaxLen THEN Len(log') ELSE MaxLen
    BY <1>0, <1>1, <1>2 DEF CursorsInOrder
  <2>3. ASSUME NEW k \in 1..Len(events')
        PROVE  /\ events'[k].cursor = next' - 1 - Len(events') + k
               /\ events'[k].type = log'[events'[k].cursor]
    <3>1. CASE k = Len(events')
      BY <1>0, <1>1, <1>2, <2>1, <3>1 DEF r
    <3>2. CASE k # Len(events') /\ Len(events) < MaxLen
      <4>1. k \in 1..Len(events) /\ events'[k] = events[k]
        BY <1>0, <1>1, <2>3, <3>2
      <4>2. events[k].cursor = next - 1 - Len(events) + k
            /\ events[k].type = log[events[k].cursor]
        BY <1>0, <4>1 DEF CursorsInOrder
      <4>3. events[k].cursor \in 1..Len(log)
        BY <1>0, <4>1, <4>2, <2>1 DEF CursorsInOrder
      <4> QED
        BY <1>0, <1>1, <1>2, <3>2, <4>1, <4>2, <4>3
    <3>3. CASE k # Len(events') /\ ~(Len(events) < MaxLen)
      <4>0. Len(events) = MaxLen /\ Len(events') = MaxLen
        BY <1>0, <1>1, <3>3 DEF TypeOK
      <4>1. k + 1 \in 1..Len(events) /\ events'[k] = events[k + 1]
        BY <1>0, <1>1, <2>3, <3>3, <4>0
      <4>2. events[k + 1].cursor = next - 1 - Len(events) + (k + 1)
            /\ events[k + 1].type = log[events[k + 1].cursor]
        BY <1>0, <4>1 DEF CursorsInOrder
      <4>3. events[k + 1].cursor \in 1..Len(log)
        BY <1>0, <4>1, <4>2, <2>1 DEF CursorsInOrder
      <4> QED
        BY <1>0, <1>2, <4>0, <4>1, <4>2, <4>3
    <3> QED
      BY <3>1, <3>2, <3>3
  <2> QED
    BY <2>1, <2>2, <2>3 DEF CursorsInOrder
<1>5. Evicted' >= Evicted /\ Evicted' \in Int /\ Evicted \in Int
  BY <1>0, <1>1, <1>2 DEF Evicted
<1>6. PageInv'
  <2>1. page' = page /\ since' = since
    BY DEF Arrive, pollers
  <2>2. \A p \in Pollers : page[p] # NoPage =>
           page[p].next_cursor \in Nat /\ since[p] \in Nat
    BY <1>0 DEF TypeOK, Pages
  <2>3. ASSUME NEW p \in Pollers, page[p] # NoPage
        PROVE  page[p].next_cursor <= Len(log') /\ (page[p].truncated => since[p] < Evicted')
    BY <1>0, <1>2, <1>5, <2>2, <2>3 DEF PageInv
  <2> QED
    BY <1>0, <2>1, <2>3 DEF PageInv, Before
<1>7. PollerInv'
  <2>1. seen' = seen /\ since' = since /\ told' = told
    BY DEF Arrive, pollers
  <2>2. \A p \in Pollers : since[p] \in Nat
    BY <1>0 DEF TypeOK
  <2> QED
    BY <1>0, <1>2, <2>1, <2>2 DEF PollerInv
<1> QED
  BY <1>3, <1>4, <1>6, <1>7 DEF Inv

LEMMA PollInv ==
    ASSUME Inv, NEW p \in Pollers, NEW limit \in Limits, Poll(p, limit)
    PROVE  Inv'
<1> USE JournalAssumption
<1> DEFINE evs == Slice(since[p], limit)
           before == IF since[p] < Evicted THEN Evicted ELSE since[p]
           g == [asked |-> since[p], events |-> evs,
                 next_cursor |-> NextCursor(since[p], evs),
                 truncated |-> Truncated(since[p])]
<1>0. /\ TypeOK /\ CursorsInOrder /\ PageInv /\ PollerInv
      /\ Len(events) \in Nat /\ Len(log) \in Nat /\ next \in 1..(MaxEvents + 1)
      /\ since[p] \in Nat /\ since[p] <= Len(log) /\ limit \in Nat
  BY DEF Inv, TypeOK, PollerInv
<1>a. Evicted \in Nat /\ Len(log) <= MaxEvents
  BY <1>0 DEF CursorsInOrder, Evicted
<1>b. page' = [page EXCEPT ![p] = g] /\ page \in [Pollers -> Pages \cup {NoPage}]
  BY <1>0 DEF Poll, TypeOK
<1>c. /\ events' = events /\ next' = next /\ log' = log /\ since' = since
      /\ seen' = seen /\ polled' = polled /\ told' = told
      /\ losses' = losses /\ reopens' = reopens
  BY DEF Poll
<1>1. /\ evs \in Seq(Record)
      /\ before + Len(evs) <= Len(log)
      /\ \A k \in 1..Len(evs) : evs[k].cursor = before + k
  BY <1>0, SliceIsARun
<1>2. Truncated(since[p]) <=> since[p] < Evicted
  <2>1. CASE events = <<>>
    <3>1. Len(events) = 0
      BY <2>1
    <3>2. Evicted = 0 /\ Oldest = next /\ next = 1
      BY <1>0, <3>1, <2>1 DEF Evicted, Oldest, CursorsInOrder
    <3> QED
      BY <1>0, <3>2 DEF Truncated
  <2>2. CASE events # <<>>
    <3>1. Len(events) >= 1
      BY <1>0, <2>2, EmptySeq DEF TypeOK
    <3>2. Oldest = Evicted + 1
      BY <1>0, <2>2, <3>1 DEF Evicted, Oldest, CursorsInOrder
    <3> QED
      BY <1>0, <1>a, <3>2 DEF Truncated
  <2> QED
    BY <2>1, <2>2
<1>3. evs = <<>> <=> Len(evs) = 0
  BY <1>1, EmptySeq
<1> DEFINE nc == NextCursor(since[p], evs)
<1>4. nc = IF Len(evs) = 0 THEN since[p] ELSE before + Len(evs)
  <2>1. CASE Len(evs) = 0
    BY <1>3, <2>1 DEF NextCursor
  <2>2. CASE Len(evs) # 0
    <3>1. Len(evs) \in 1..Len(evs)
      BY <1>1, <2>2
    <3>2. nc = evs[Len(evs)].cursor
      BY <1>3, <2>2 DEF NextCursor
    <3> HIDE DEF evs, before, nc
    <3> QED
      BY <1>1, <2>2, <3>1, <3>2
  <2> QED
    BY <2>1, <2>2
<1>5. before \in Nat /\ since[p] <= before /\ (~(since[p] < Evicted) => before = since[p])
  BY <1>0, <1>a
<1>6. Len(evs) \in Nat
  BY <1>1
<1> HIDE DEF evs, before, nc
<1>7. nc \in 0..MaxEvents /\ nc <= Len(log)
  BY <1>0, <1>a, <1>1, <1>4, <1>5, <1>6
<1>8. g \in Pages
  <2>1. Truncated(since[p]) \in BOOLEAN
    BY DEF Truncated
  <2>2. since[p] \in 0..MaxEvents
    BY <1>0, <1>a
  <2> QED
    BY <1>1, <1>7, <2>1, <2>2 DEF Pages, nc
<1>9. /\ g.asked = since[p] /\ g.next_cursor <= Len(log)
      /\ since[p] <= Before(g)
      /\ Len(g.events) = 0 => g.next_cursor = since[p]
      /\ ~g.truncated => Before(g) = since[p]
      /\ g.truncated => since[p] < Evicted
      /\ \A k \in 1..Len(g.events) : g.events[k].cursor = Before(g) + k
  <2>1. /\ g.asked = since[p] /\ g.events = evs /\ g.next_cursor = nc
        /\ g.truncated = Truncated(since[p])
    BY DEF nc
  <2> HIDE DEF g
  <2>2. Before(g) = IF Len(evs) = 0 THEN since[p] ELSE before
    BY <1>0, <1>4, <1>5, <1>6, <2>1 DEF Before
  <2>3. \A k \in 1..Len(evs) : Len(evs) # 0
    BY <1>6
  <2>4. \A k \in 1..Len(g.events) : g.events[k].cursor = Before(g) + k
    BY <1>1, <2>1, <2>2, <2>3
  <2> QED
    BY <1>0, <1>2, <1>4, <1>5, <1>7, <2>1, <2>2, <2>4
<1> HIDE DEF g
<1>10. TypeOK'
  BY <1>0, <1>8, <1>b, <1>c DEF TypeOK
<1>11. CursorsInOrder'
  BY <1>0, <1>c DEF CursorsInOrder
<1>12. PageInv'
  <2> SUFFICES ASSUME NEW q \in Pollers, page'[q] # NoPage
               PROVE  /\ page'[q].asked = since[q]
                      /\ page'[q].next_cursor <= Len(log)
                      /\ since[q] <= Before(page'[q])
                      /\ Len(page'[q].events) = 0 => page'[q].next_cursor = since[q]
                      /\ ~page'[q].truncated => Before(page'[q]) = since[q]
                      /\ page'[q].truncated => since[q] < Evicted
                      /\ \A k \in 1..Len(page'[q].events) :
                            page'[q].events[k].cursor = Before(page'[q]) + k
    BY <1>c DEF PageInv, Evicted, Before
  <2>1. CASE q = p
    BY <1>9, <1>b, <2>1
  <2>2. CASE q # p
    <3>1. page'[q] = page[q] /\ page[q] # NoPage
      BY <1>b, <2>2
    <3> QED
      BY <1>0, <3>1 DEF PageInv
  <2> QED
    BY <2>1, <2>2
<1>13. PollerInv'
  BY <1>0, <1>c DEF PollerInv
<1> QED
  BY <1>10, <1>11, <1>12, <1>13 DEF Inv

\* What a delivered page adds to a poller is the run up to its next_cursor.
LEMMA DeliveredRun ==
    ASSUME Inv, NEW p \in Pollers, page[p] # NoPage
    PROVE  /\ page[p] \in Pages /\ since[p] \in Nat /\ Len(log) \in Nat
           /\ Before(page[p]) \in Nat /\ page[p].next_cursor \in Nat
           /\ Before(page[p]) <= page[p].next_cursor
           /\ Len(page[p].events) = 0 <=> Before(page[p]) = page[p].next_cursor
           /\ Cursors(page[p].events) = (Before(page[p]) + 1)..page[p].next_cursor
<1> USE JournalAssumption
<1>1. page[p] \in Pages /\ since[p] \in Nat /\ Len(log) \in Nat
  BY DEF Inv, TypeOK
<1>2. page[p].next_cursor \in Nat /\ Len(page[p].events) \in Nat
  BY <1>1 DEF Pages
<1>3. since[p] <= Before(page[p])
      /\ \A k \in 1..Len(page[p].events) : page[p].events[k].cursor = Before(page[p]) + k
  BY DEF Inv, PageInv
<1>4. Before(page[p]) = page[p].next_cursor - Len(page[p].events)
  BY DEF Before
<1>5. Before(page[p]) \in Nat
  BY <1>1, <1>2, <1>3, <1>4
<1>6. Cursors(page[p].events) = (Before(page[p]) + 1)..page[p].next_cursor
  BY <1>1, <1>3, <1>5, CursorsOfPage
<1> QED
  BY <1>1, <1>2, <1>4, <1>5, <1>6

LEMMA DeliverInv ==
    ASSUME Inv, NEW p \in Pollers, Deliver(p)
    PROVE  Inv'
<1> USE JournalAssumption
<1> DEFINE n == page[p].next_cursor
<1>0. /\ TypeOK /\ CursorsInOrder /\ PageInv /\ PollerInv /\ page[p] # NoPage
      /\ events' = events /\ next' = next /\ log' = log
      /\ losses' = losses /\ reopens' = reopens
      /\ seen' = [seen EXCEPT ![p] = @ \cup Cursors(page[p].events)]
      /\ since' = [since EXCEPT ![p] = n]
      /\ told' = [told EXCEPT ![p] = @ \/ page[p].truncated]
      /\ polled' = [polled EXCEPT ![p] = TRUE]
      /\ page' = [page EXCEPT ![p] = NoPage]
  BY DEF Inv, Deliver
<1>1. /\ page[p] \in Pages /\ since[p] \in Nat /\ Len(log) \in Nat
      /\ Before(page[p]) \in Nat /\ n \in Nat /\ Before(page[p]) <= n
      /\ Cursors(page[p].events) = (Before(page[p]) + 1)..n
  BY <1>0, DeliveredRun
<1>2. n \in 0..MaxEvents /\ page[p].truncated \in BOOLEAN
  BY <1>1 DEF Pages
<1>3. /\ n <= Len(log) /\ since[p] <= Before(page[p])
      /\ ~page[p].truncated => Before(page[p]) = since[p]
  BY <1>0 DEF PageInv
<1> HIDE DEF n
<1>4. TypeOK'
  <2>1. Cursors(page[p].events) \subseteq 1..MaxEvents
    BY <1>1, <1>2
  <2>2. seen' \in [Pollers -> SUBSET (1..MaxEvents)]
    BY <1>0, <2>1 DEF TypeOK
  <2>3. told' \in [Pollers -> BOOLEAN] /\ polled' \in [Pollers -> BOOLEAN]
    BY <1>0, <1>2 DEF TypeOK
  <2>4. since' \in [Pollers -> 0..MaxEvents] /\ page' \in [Pollers -> Pages \cup {NoPage}]
    BY <1>0, <1>2 DEF TypeOK
  <2> QED
    BY <1>0, <2>2, <2>3, <2>4 DEF TypeOK
<1>5. CursorsInOrder'
  BY <1>0 DEF CursorsInOrder
<1>6. PageInv'
  <2> SUFFICES ASSUME NEW q \in Pollers, page'[q] # NoPage
               PROVE  /\ page'[q] = page[q] /\ since'[q] = since[q]
    BY <1>0 DEF PageInv, Evicted, Before
  <2>1. page \in [Pollers -> Pages \cup {NoPage}] /\ since \in [Pollers -> 0..MaxEvents]
    BY <1>0 DEF TypeOK
  <2> QED
    BY <1>0, <2>1
<1>7. PollerInv'
  <2> SUFFICES ASSUME NEW q \in Pollers
               PROVE  /\ since'[q] <= Len(log)
                      /\ seen'[q] \subseteq 1..since'[q]
                      /\ told'[q] \/ 1..since'[q] \subseteq seen'[q]
    BY <1>0 DEF PollerInv
  <2>0. /\ since[q] <= Len(log) /\ seen[q] \subseteq 1..since[q]
        /\ told[q] \/ 1..since[q] \subseteq seen[q]
    BY <1>0 DEF PollerInv
  <2>a. /\ since \in [Pollers -> 0..MaxEvents] /\ told \in [Pollers -> BOOLEAN]
        /\ seen \in [Pollers -> SUBSET (1..MaxEvents)]
    BY <1>0 DEF TypeOK
  <2>1. CASE q = p
    <3>1. since'[q] = n /\ told'[q] = (told[p] \/ page[p].truncated)
      BY <1>0, <2>1, <2>a
    <3>2. seen'[q] = seen[p] \cup ((Before(page[p]) + 1)..n)
      BY <1>0, <1>1, <2>1, <2>a
    <3>3. seen'[q] \subseteq 1..n
      BY <1>1, <1>3, <2>0, <2>1, <3>2
    <3>4. ~page[p].truncated => 1..n \subseteq 1..since[p] \cup ((Before(page[p]) + 1)..n)
      BY <1>1, <1>3
    <3> QED
      BY <1>3, <2>0, <2>1, <3>1, <3>2, <3>3, <3>4
  <2>2. CASE q # p
    BY <1>0, <2>0, <2>2, <2>a
  <2> QED
    BY <2>1, <2>2
<1> QED
  BY <1>4, <1>5, <1>6, <1>7 DEF Inv

LEMMA LoseInv ==
    ASSUME Inv, NEW p \in Pollers, Lose(p)
    PROVE  Inv'
<1> USE JournalAssumption
<1>0. /\ TypeOK /\ CursorsInOrder /\ PageInv /\ PollerInv
      /\ page' = [page EXCEPT ![p] = NoPage] /\ losses' \in 0..MaxLosses
      /\ events' = events /\ next' = next /\ log' = log /\ since' = since
      /\ seen' = seen /\ polled' = polled /\ told' = told /\ reopens' = reopens
  BY DEF Inv, Lose, TypeOK
<1>1. TypeOK'
  BY <1>0 DEF TypeOK
<1>2. CursorsInOrder' /\ PollerInv'
  BY <1>0 DEF CursorsInOrder, PollerInv
<1>3. PageInv'
  BY <1>0 DEF PageInv, Evicted, Before, TypeOK
<1> QED
  BY <1>1, <1>2, <1>3 DEF Inv

LEMMA ReopenInv ==
    ASSUME StartOver, Inv, Reopen
    PROVE  Inv'
<1> USE JournalAssumption
<1>0. /\ TypeOK /\ events' = <<>> /\ next' = 1 /\ log' = <<>> /\ page' = page
      /\ losses' = losses /\ reopens' \in 0..MaxReopens
      /\ since' = [p \in Pollers |-> 0] /\ seen' = [p \in Pollers |-> {}]
      /\ polled' = [p \in Pollers |-> FALSE] /\ told' = [p \in Pollers |-> FALSE]
      /\ \A p \in Pollers : page'[p] = NoPage
  BY DEF StartOver, Inv, Reopen, TypeOK
<1>1. TypeOK'
  BY <1>0 DEF TypeOK
<1>2. CursorsInOrder'
  BY <1>0 DEF CursorsInOrder
<1>3. PageInv'
  BY <1>0 DEF PageInv
<1>4. PollerInv'
  BY <1>0 DEF PollerInv
<1> QED
  BY <1>1, <1>2, <1>3, <1>4 DEF Inv

LEMMA NextInv ==
    ASSUME StartOver
    PROVE  Inv /\ [Next]_vars => Inv'
<1> SUFFICES ASSUME Inv, [Next]_vars PROVE Inv'
  OBVIOUS
<1>1. CASE \E t \in Types : Arrive(t)
  BY <1>1, ArriveInv
<1>2. ASSUME NEW p \in Pollers, PollSome(p) PROVE Inv'
  BY <1>2, PollInv DEF PollSome
<1>3. ASSUME NEW p \in Pollers, Deliver(p) PROVE Inv'
  BY <1>3, DeliverInv
<1>4. ASSUME NEW p \in Pollers, Lose(p) PROVE Inv'
  BY <1>4, LoseInv
<1>5. CASE Reopen
  BY <1>5, ReopenInv
<1>6. CASE UNCHANGED vars
  <2>1. TypeOK'
    BY <1>6 DEF vars, Inv, TypeOK
  <2>2. CursorsInOrder' /\ PollerInv'
    BY <1>6 DEF vars, Inv, CursorsInOrder, PollerInv
  <2>3. PageInv'
    BY <1>6 DEF vars, Inv, PageInv, Evicted, Before
  <2> QED
    BY <2>1, <2>2, <2>3 DEF Inv
<1> QED
  BY <1>1, <1>2, <1>3, <1>4, <1>5, <1>6 DEF Next

LEMMA InvAlways ==
    ASSUME StartOver
    PROVE  Spec => []Inv
<1>1. Init => Inv
  BY InitInv
<1>2. Inv /\ [Next]_vars => Inv'
  BY NextInv
<1> QED
  BY <1>1, <1>2, PTL DEF Spec

-----------------------------------------------------------------------------
(* The promises *)

\* Every variable stays in its domain and the ring within its capacity, for every
\* capacity and page size.
THEOREM TypeCorrect ==
    ASSUME StartOver
    PROVE  Spec => []TypeOK
<1>1. Inv => TypeOK
  BY DEF Inv
<1> QED
  BY <1>1, InvAlways, PTL

\* A cursor is never reused, skipped or out of order (Journal's docstring).
THEOREM CursorsInOrderAlways ==
    ASSUME StartOver
    PROVE  Spec => []CursorsInOrder
<1>1. Inv => CursorsInOrder
  BY DEF Inv
<1> QED
  BY <1>1, InvAlways, PTL

\* No poller passes over an event without a truncated page, whatever is lost on
\* the way and however small the ring.
THEOREM NoSilentLossAlways ==
    ASSUME StartOver
    PROVE  Spec => []NoSilentLoss
<1>1. Inv => NoSilentLoss
  BY DEF Inv, PollerInv, NoSilentLoss
<1> QED
  BY <1>1, InvAlways, PTL

\* No page, repeated or not, holds an event its poller has seen.
THEOREM NoRepeatsAlways ==
    ASSUME StartOver
    PROVE  Spec => []NoRepeats
<1>1. Inv => NoRepeats
  <2> SUFFICES ASSUME Inv, NEW p \in Pollers, page[p] # NoPage,
                      NEW n \in Cursors(page[p].events), NEW m \in seen[p]
               PROVE  m < n
    BY DEF NoRepeats
  <2>1. n \in (Before(page[p]) + 1)..page[p].next_cursor /\ Before(page[p]) \in Nat
        /\ page[p].next_cursor \in Nat /\ since[p] \in Nat
    BY DeliveredRun
  <2>2. m \in 1..since[p] /\ since[p] <= Before(page[p])
    BY DEF Inv, PageInv, PollerInv
  <2> QED
    BY <2>1, <2>2
<1> QED
  BY <1>1, InvAlways, PTL

\* A truncated page is no false alarm: the event after the poller's cursor is gone
\* from the ring, and the poller never saw it.
THEOREM TruncatedIsLossAlways ==
    ASSUME StartOver
    PROVE  Spec => []TruncatedIsLoss
<1>1. Inv => TruncatedIsLoss
  <2> SUFFICES ASSUME Inv, NEW p \in Pollers, page[p] # NoPage, page[p].truncated
               PROVE  \E n \in (page[p].asked + 1)..Len(log) :
                         n \notin seen[p] /\ n \notin Cursors(events)
    BY DEF TruncatedIsLoss
  <2>0. since[p] \in Nat /\ Len(log) \in Nat /\ Len(events) \in Nat
    BY DEF Inv, TypeOK
  <2>1. page[p].asked = since[p] /\ since[p] < Evicted /\ seen[p] \subseteq 1..since[p]
    BY DEF Inv, PageInv, PollerInv
  <2>2. \A k \in 1..Len(events) : events[k].cursor = Evicted + k
    BY <2>0 DEF Inv, CursorsInOrder, Evicted
  <2>3. since[p] + 1 \in (page[p].asked + 1)..Len(log)
    BY <2>0, <2>1 DEF Evicted
  <2>4. since[p] + 1 \notin Cursors(events)
    BY <2>0, <2>1, <2>2 DEF Cursors, Evicted
  <2> QED
    BY <2>0, <2>1, <2>3, <2>4
<1> QED
  BY <1>1, InvAlways, PTL

LEMMA DeliverIsRead ==
    ASSUME Inv, NEW p \in Pollers, Deliver(p)
    PROVE  [AbstractFeed!Next]_AbstractFeed!vars
<1> DEFINE n == page[p].next_cursor
           b == Before(page[p])
<1>0. /\ TypeOK /\ PageInv /\ page[p] # NoPage /\ log' = log
      /\ seen' = [seen EXCEPT ![p] = @ \cup Cursors(page[p].events)]
      /\ since' = [since EXCEPT ![p] = n]
      /\ told' = [told EXCEPT ![p] = @ \/ page[p].truncated]
  BY DEF Inv, Deliver
<1>1. /\ page[p] \in Pages /\ since[p] \in Nat /\ Len(log) \in Nat
      /\ b \in Nat /\ n \in Nat /\ b <= n
      /\ Len(page[p].events) = 0 <=> b = n
      /\ Cursors(page[p].events) = (b + 1)..n
  BY <1>0, DeliveredRun
<1>2. /\ n <= Len(log) /\ since[p] <= b
      /\ Len(page[p].events) = 0 => n = since[p]
      /\ ~page[p].truncated => b = since[p]
      /\ page[p].truncated => since[p] < Evicted
  BY <1>0 DEF PageInv
<1>3. /\ since \in [Pollers -> 0..MaxEvents] /\ told \in [Pollers -> BOOLEAN]
      /\ seen \in [Pollers -> SUBSET (1..MaxEvents)]
      /\ page[p].truncated \in BOOLEAN /\ Len(events) \in Nat
  BY <1>0, <1>1 DEF TypeOK, Pages
<1> HIDE DEF n, b
<1>4. CASE b = n /\ ~page[p].truncated
  <2>1. seen' = seen /\ since' = since
    BY <1>0, <1>1, <1>2, <1>3, <1>4
  <2>2. told' = told
    BY <1>0, <1>3, <1>4
  <2> QED
    BY <1>0, <2>1, <2>2 DEF AbstractFeed!vars
<1>5. CASE b = n /\ page[p].truncated
  <2>1. seen' = seen /\ since' = since
    BY <1>0, <1>1, <1>2, <1>3, <1>5
  <2>2. told' = [told EXCEPT ![p] = TRUE]
    BY <1>0, <1>3, <1>5
  <2>3. since[p] < Len(log)
    BY <1>1, <1>2, <1>3, <1>5 DEF Evicted
  <2>4. AbstractFeed!Warn(p)
    BY <1>0, <2>1, <2>2, <2>3 DEF AbstractFeed!Warn
  <2> QED
    BY <2>4 DEF AbstractFeed!Next
<1>6. CASE b # n
  <2>1. /\ b + 1 \in (since[p] + 1)..Len(log) /\ n \in (since[p] + 1)..Len(log)
        /\ b + 1 <= n
    BY <1>1, <1>2, <1>6
  <2>2. b + 1 > since[p] + 1 => told'[p]
    BY <1>0, <1>1, <1>2, <1>3
  <2>3. seen' = [seen EXCEPT ![p] = @ \cup (b + 1)..n]
    BY <1>0, <1>1
  <2>4. \E first, last \in (since[p] + 1)..Len(log) :
           /\ first <= last
           /\ first > since[p] + 1 => told'[p]
           /\ \E t \in BOOLEAN : told' = [told EXCEPT ![p] = @ \/ t]
           /\ seen' = [seen EXCEPT ![p] = @ \cup first..last]
           /\ since' = [since EXCEPT ![p] = last]
    <3>1. \E t \in BOOLEAN : told' = [told EXCEPT ![p] = @ \/ t]
      BY <1>0, <1>3
    <3> QED
      BY <1>0, <2>1, <2>2, <2>3, <3>1
  <2>5. AbstractFeed!Read(p)
    BY <1>0, <2>4 DEF AbstractFeed!Read
  <2> QED
    BY <2>5 DEF AbstractFeed!Next
<1> QED
  BY <1>4, <1>5, <1>6

\* The journal with its lost responses and evictions is an event feed: each poller
\* sees a growing part of the log, in order, once, and is told of every gap.
THEOREM FeedImplemented ==
    ASSUME StartOver
    PROVE  Spec => ImplementsFeed
<1>1. Init => AbstractFeed!Init
  BY DEF Init, AbstractFeed!Init
<1>2. Inv /\ [Next]_vars => [AbstractFeed!Next]_AbstractFeed!vars
  <2> SUFFICES ASSUME Inv, [Next]_vars
               PROVE  [AbstractFeed!Next]_AbstractFeed!vars
    OBVIOUS
  <2>1. ASSUME NEW t \in Types, Arrive(t)
        PROVE  [AbstractFeed!Next]_AbstractFeed!vars
    BY <2>1 DEF Arrive, pollers, AbstractFeed!Next, AbstractFeed!Arrive
  <2>2. ASSUME NEW p \in Pollers, PollSome(p)
        PROVE  [AbstractFeed!Next]_AbstractFeed!vars
    BY <2>2 DEF PollSome, Poll, AbstractFeed!vars
  <2>3. ASSUME NEW p \in Pollers, Deliver(p)
        PROVE  [AbstractFeed!Next]_AbstractFeed!vars
    BY <2>3, DeliverIsRead
  <2>4. ASSUME NEW p \in Pollers, Lose(p)
        PROVE  [AbstractFeed!Next]_AbstractFeed!vars
    BY <2>4 DEF Lose, AbstractFeed!vars
  <2>5. CASE Reopen
    BY <2>5 DEF StartOver, Reopen, AbstractFeed!Next, AbstractFeed!Restart
  <2>6. CASE UNCHANGED vars
    BY <2>6 DEF vars, AbstractFeed!vars
  <2> QED
    BY <2>1, <2>2, <2>3, <2>4, <2>5, <2>6 DEF Next
<1> QED
  BY <1>1, <1>2, InvAlways, PTL DEF Spec, ImplementsFeed, AbstractFeed!Spec

==============================================================================
