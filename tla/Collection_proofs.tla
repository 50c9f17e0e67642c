-------------------------- MODULE Collection_proofs -------------------------
(* Theorems about Collection, for any number of sources, files and callers,  *)
(* any number of which fail at any time.                                     *)
EXTENDS Collection, SequenceTheorems, TLAPS

Shape ==
    /\ DOMAIN cpc = Callers /\ DOMAIN handles = Callers /\ DOMAIN want = Callers
    /\ DOMAIN wpc = Sources /\ DOMAIN stop = Sources

\* A call that is idle holds nothing open.
HandlesInv ==
    /\ Shape
    /\ \A c \in Callers : cpc[c] \in {"idle", "catalog"} => handles[c] = <<>>

USE DEF Fail, diskVars, lifeVars, watchVars, callVars, vars, CloseStep, WatchStep, CallStep,
        CloseEngine, Return, Refreshed

LEMMA OrderLen == Len(Order) \in Nat /\ DOMAIN Order = 1..Len(Order)
  BY CollectionAssumption, LenProperties

LEMMA SourceAt ==
    ASSUME NEW s \in Sources
    PROVE  \E i \in 1..Len(Order) : s = Order[i]
  BY OrderLen DEF Sources, Range

------------------------------------------------------------------------------
(* HandlesBack *)

LEMMA InitHandles == Init => HandlesInv
  BY DEF Init, HandlesInv, Shape

\* What the server and its watchers do takes no handle.
LEMMA ServerHandles ==
    ASSUME HandlesInv, Start \/ StartWatcher \/ Serve \/ CloseStep
    PROVE  HandlesInv'
<1>1. CASE Start
  BY <1>1 DEF Start, HandlesInv, Shape
<1>2. CASE StartWatcher
  BY <1>2 DEF StartWatcher, HandlesInv, Shape
<1>3. CASE Serve
  BY <1>3 DEF Serve, HandlesInv, Shape
<1>4. CASE BeginClose
  BY <1>4 DEF BeginClose, HandlesInv, Shape
<1>5. CASE SetStop
  BY <1>5 DEF SetStop, HandlesInv, Shape
<1>6. CASE Join
  BY <1>6 DEF Join, HandlesInv, Shape
<1>7. CASE CloseEngine
  BY <1>7 DEF HandlesInv, Shape
<1> QED
  BY <1>1, <1>2, <1>3, <1>4, <1>5, <1>6, <1>7

LEMMA WatcherHandles ==
    ASSUME HandlesInv, NEW s \in Sources,
           WatchStep(s) \/ RefreshFails(s) \/ \E f \in Files : Edit(s, f)
    PROVE  HandlesInv'
<1>1. CASE Notice(s) \/ Exit(s)
  BY <1>1 DEF Notice, Exit, HandlesInv, Shape
<1>2. CASE Stat(s) \/ ReadFiles(s)
  BY <1>2 DEF Stat, ReadFiles, HandlesInv, Shape
<1>3. CASE Refreshed(s) \/ RefreshFails(s)
  BY <1>3 DEF RefreshFails, HandlesInv, Shape
<1>4. CASE \E f \in Files : Edit(s, f)
  BY <1>4 DEF Edit, HandlesInv, Shape
<1> QED
  BY <1>1, <1>2, <1>3, <1>4

LEMMA CallHandles ==
    ASSUME HandlesInv, NEW c \in Callers,
           \/ Search(c) \/ Catalog(c) \/ CallStep(c) \/ OpenFails(c)
           \/ \E r \in refs : OpenRef(c, r) \/ OpenRefFails(c, r)
    PROVE  HandlesInv'
<1>1. CASE Search(c)
  BY <1>1 DEF Search, HandlesInv, Shape
<1>2. CASE Catalog(c)
  BY <1>2 DEF Catalog, HandlesInv, Shape
<1>3. CASE OpenQuery(c)
  BY <1>3 DEF OpenQuery, HandlesInv, Shape
<1>4. CASE Rank(c)
  BY <1>4 DEF Rank, HandlesInv, Shape
<1>5. CASE Card(c)
  BY <1>5 DEF Card, HandlesInv, Shape
<1>6. CASE Return(c)
  BY <1>6 DEF HandlesInv, Shape
<1>7. CASE ReadText(c)
  BY <1>7 DEF ReadText, HandlesInv, Shape
<1>8. CASE OpenFails(c)
  BY <1>8 DEF OpenFails, HandlesInv, Shape
<1>9. ASSUME NEW r \in refs, OpenRef(c, r)
      PROVE  HandlesInv'
  BY <1>9 DEF OpenRef, HandlesInv, Shape
<1>10. ASSUME NEW r \in refs, OpenRefFails(c, r)
       PROVE  HandlesInv'
  BY <1>10 DEF OpenRefFails, HandlesInv, Shape
<1> QED
  BY <1>1, <1>2, <1>3, <1>4, <1>5, <1>6, <1>7, <1>8, <1>9, <1>10

LEMMA NextHandles == HandlesInv /\ [Next]_vars => HandlesInv'
<1> SUFFICES ASSUME HandlesInv, [Next]_vars
             PROVE  HandlesInv'
  OBVIOUS
<1>1. CASE UNCHANGED vars
  BY <1>1 DEF HandlesInv, Shape
<1>2. CASE Next
  BY <1>2, ServerHandles, WatcherHandles, CallHandles DEF Next
<1> QED
  BY <1>1, <1>2

(* A call that has returned holds no query open, however many sources it     *)
(* had opened and wherever it failed (index.py:161, 283).                    *)
THEOREM HandlesBackAlways == Spec => []HandlesBack
<1>1. HandlesInv => HandlesBack
  BY DEF HandlesInv, HandlesBack
<1> QED
  BY <1>1, InitHandles, NextHandles, PTL DEF Spec

------------------------------------------------------------------------------
(* PageOfRef *)

\* The reference that a call is reading is the one of the files as they are.
PageInv ==
    /\ Shape
    /\ \A c \in Callers : cpc[c] = "reading" => want[c][2] = Walk(want[c][1])
    /\ PageOfRef

LEMMA InitPage == Init => PageInv
  BY DEF Init, PageInv, PageOfRef, Shape

\* A step that leaves the files, the calls and the page alone.
LEMMA PageKept ==
    ASSUME PageInv, Shape', UNCHANGED <<disk, cpc, want, page>>
    PROVE  PageInv'
  BY DEF PageInv, PageOfRef, Walk

LEMMA ServerPage ==
    ASSUME PageInv, Start \/ StartWatcher \/ Serve \/ CloseStep
    PROVE  PageInv'
<1>1. CASE Start
  BY <1>1, PageKept DEF Start, PageInv, Shape
<1>2. CASE StartWatcher
  BY <1>2, PageKept DEF StartWatcher, PageInv, Shape
<1>3. CASE Serve
  BY <1>3, PageKept DEF Serve, PageInv, Shape
<1>4. CASE BeginClose
  BY <1>4, PageKept DEF BeginClose, PageInv, Shape
<1>5. CASE SetStop
  BY <1>5, PageKept DEF SetStop, PageInv, Shape
<1>6. CASE Join
  BY <1>6, PageKept DEF Join, PageInv, Shape
<1>7. CASE CloseEngine
  BY <1>7, PageKept DEF PageInv, Shape
<1> QED
  BY <1>1, <1>2, <1>3, <1>4, <1>5, <1>6, <1>7

LEMMA WatcherPage ==
    ASSUME PageInv, NEW s \in Sources, WatchStep(s) \/ RefreshFails(s)
    PROVE  PageInv'
<1>1. CASE Notice(s) \/ Exit(s)
  BY <1>1, PageKept DEF Notice, Exit, PageInv, Shape
<1>2. CASE Stat(s) \/ ReadFiles(s)
  BY <1>2, PageKept DEF Stat, ReadFiles, PageInv, Shape
<1>3. CASE Refreshed(s) \/ RefreshFails(s)
  BY <1>3, PageKept DEF RefreshFails, PageInv, Shape
<1> QED
  BY <1>1, <1>2, <1>3

\* An edit waits until no call is reading.
LEMMA EditPage ==
    ASSUME PageInv, Quiet, NEW s \in Sources, NEW f \in Files, Edit(s, f)
    PROVE  PageInv'
  BY DEF Edit, PageInv, PageOfRef, Shape

\* Of the steps of a call only open and the reading of the text concern it;
\* the others read nothing and at most clear the page.
LEMMA PageNotRead ==
    ASSUME PageInv, Shape', UNCHANGED <<disk, want>>, page' \in {page, NoRef},
           \A d \in Callers : cpc'[d] = "reading" => cpc[d] = "reading"
    PROVE  PageInv'
  BY DEF PageInv, PageOfRef, Walk

LEMMA SearchPage ==
    ASSUME PageInv, NEW c \in Callers,
           Search(c) \/ Catalog(c) \/ OpenQuery(c) \/ Rank(c) \/ Card(c) \/ Return(c)
               \/ OpenFails(c)
    PROVE  PageInv'
<1>1. CASE Search(c)
  BY <1>1, PageNotRead DEF Search, PageInv, Shape
<1>2. CASE Catalog(c)
  BY <1>2, PageNotRead DEF Catalog, PageInv, Shape
<1>3. CASE OpenQuery(c)
  BY <1>3, PageNotRead DEF OpenQuery, PageInv, Shape
<1>4. CASE Rank(c)
  BY <1>4, PageNotRead DEF Rank, PageInv, Shape
<1>5. CASE Card(c)
  BY <1>5, PageNotRead DEF Card, PageInv, Shape
<1>6. CASE Return(c)
  BY <1>6, PageNotRead DEF PageInv, Shape
<1>7. CASE OpenFails(c)
  BY <1>7, PageNotRead DEF OpenFails, PageInv, Shape
<1> QED
  BY <1>1, <1>2, <1>3, <1>4, <1>5, <1>6, <1>7

LEMMA OpenPage ==
    ASSUME PageInv, NEW c \in Callers, NEW r \in refs, OpenRef(c, r)
    PROVE  PageInv'
<1>1. page' = NoRef /\ disk' = disk /\ Shape'
  BY DEF OpenRef, PageInv, Shape
<1>2. CASE Current(r)
  <2>1. cpc' = [cpc EXCEPT ![c] = "reading"] /\ want' = [want EXCEPT ![c] = r]
    BY <1>2 DEF OpenRef
  <2>2. \A d \in Callers : cpc'[d] = "reading" => want'[d][2] = Walk(want'[d][1])
    BY <1>2, <2>1 DEF PageInv, Shape, Current
  <2> QED
    BY <1>1, <2>2 DEF PageInv, PageOfRef, Walk
<1>3. CASE ~Current(r)
  BY <1>1, <1>3 DEF OpenRef, PageInv, PageOfRef, Walk
<1> QED
  BY <1>2, <1>3

LEMMA ReadPage ==
    ASSUME PageInv, NEW c \in Callers, ReadText(c)
    PROVE  PageInv'
<1>1. page' = <<want[c], Walk(want[c][1])>> /\ want[c][2] = Walk(want[c][1])
  BY DEF ReadText, PageInv
<1>2. PageOfRef'
  BY <1>1 DEF PageOfRef
<1>3. \A d \in Callers : cpc'[d] = "reading" => want'[d][2] = Walk(want'[d][1])
  BY DEF ReadText, PageInv, Shape
<1> QED
  BY <1>2, <1>3 DEF ReadText, PageInv, Shape, Walk

LEMMA NextPage == Quiet /\ PageInv /\ [Next]_vars => PageInv'
<1> SUFFICES ASSUME Quiet, PageInv, [Next]_vars
             PROVE  PageInv'
  OBVIOUS
<1>1. CASE UNCHANGED vars
  BY <1>1, PageKept DEF PageInv, Shape
<1>2. ASSUME NEW c \in Callers, NEW r \in refs, OpenRefFails(c, r)
      PROVE  PageInv'
  BY <1>2, PageKept DEF OpenRefFails, PageInv, Shape
<1>3. CASE Next
  BY <1>2, <1>3, ServerPage, WatcherPage, EditPage, SearchPage, OpenPage, ReadPage DEF Next
<1> QED
  BY <1>1, <1>3

(* When no file is edited between the check of a reference and the reading   *)
(* of its text, a page shows the snapshot that its reference names           *)
(* (index.py:186, 769).                                                      *)
THEOREM PageOfRefAlways == Quiet /\ Spec => []PageOfRef
<1>1. PageInv => PageOfRef
  BY DEF PageInv
<1>2. CASE Quiet
  BY <1>1, <1>2, InitPage, NextPage, PTL DEF Spec
<1> QED
  BY <1>2

------------------------------------------------------------------------------
(* ClosedIsClosed *)

\* The case the code's shutdown is written for: the lifespan is entered once,
\* no call is running when it is left, and each watcher ends within its join.
Calm == JoinWaits /\ Drains /\ MaxServes = 1

Ended(s) == wpc[s] \in {"none", "done"}

\* The watchers are joined from the last to the first.
JoinedAfter(i) == \A j \in 1..Len(Order) : j > i => Ended(Order[j])

LifeInv ==
    /\ Shape
    /\ phase \in {"off", "starting", "up", "stopping"} /\ serves \in Nat /\ at \in Int
    /\ serves = 0 => phase = "off" /\ ~closed
    /\ phase \in {"starting", "up"} => ~closed
    /\ phase # "up" => \A c \in Callers : cpc[c] = "idle"
    /\ phase = "stopping" => at \in 0..Len(Order) /\ JoinedAfter(at)
    /\ ClosedIsClosed

LEMMA InitLife == Init => LifeInv
  BY DEF Init, LifeInv, Shape, ClosedIsClosed

LEMMA OpenLife ==
    ASSUME LifeInv, Calm, Start \/ StartWatcher \/ Serve
    PROVE  LifeInv'
<1>1. CASE Start
  <2>1. serves = 0 /\ ~closed
    BY <1>1 DEF Start, Calm, LifeInv
  <2> QED
    BY <1>1, <2>1 DEF Start, LifeInv, Shape, ClosedIsClosed
<1>2. CASE StartWatcher
  BY <1>2 DEF StartWatcher, LifeInv, Shape, ClosedIsClosed
<1>3. CASE Serve
  BY <1>3 DEF Serve, LifeInv, Shape, ClosedIsClosed
<1> QED
  BY <1>1, <1>2, <1>3

LEMMA CloseLife ==
    ASSUME LifeInv, Calm, CloseStep
    PROVE  LifeInv'
<1>1. CASE BeginClose
  <2>1. at' = Len(Order) /\ phase' = "stopping" /\ \A c \in Callers : cpc[c] = "idle"
    BY <1>1 DEF BeginClose, Calm, LifeInv
  <2>2. at' \in 0..Len(Order) /\ JoinedAfter(at)'
    BY <2>1, OrderLen DEF JoinedAfter
  <2> QED
    BY <1>1, <2>1, <2>2 DEF BeginClose, LifeInv, Shape, ClosedIsClosed
<1>2. CASE SetStop
  BY <1>2 DEF SetStop, LifeInv, Shape, ClosedIsClosed, JoinedAfter, Ended
<1>3. CASE Join
  <2>1. at \in 1..Len(Order) /\ Ended(Order[at]) /\ at' = at - 1
    BY <1>3, OrderLen DEF Join, Joined, Calm, LifeInv, Ended
  <2>2. at' \in 0..Len(Order) /\ JoinedAfter(at)'
    BY <1>3, <2>1, OrderLen DEF Join, LifeInv, JoinedAfter, Ended
  <2> QED
    BY <1>3, <2>2, OrderLen DEF Join, LifeInv, Shape, ClosedIsClosed
<1>4. CASE CloseEngine
  <2>1. \A s \in Sources : Ended(s)
    BY <1>4, SourceAt, OrderLen DEF LifeInv, JoinedAfter
  <2>2. ClosedIsClosed'
    BY <1>4, <2>1 DEF ClosedIsClosed, Ended
  <2> QED
    BY <1>4, <2>2 DEF LifeInv, Shape
<1> QED
  BY <1>1, <1>2, <1>3, <1>4

\* A watcher that has ended does not begin again.
LEMMA WatcherLife ==
    ASSUME LifeInv, NEW s \in Sources,
           WatchStep(s) \/ RefreshFails(s) \/ \E f \in Files : Edit(s, f)
    PROVE  LifeInv'
<1>1. CASE \E f \in Files : Edit(s, f)
  BY <1>1 DEF Edit, LifeInv, Shape, ClosedIsClosed, JoinedAfter, Ended
<1>2. CASE WatchStep(s) \/ RefreshFails(s)
  <2>1. ~Ended(s)
    BY <1>2 DEF Notice, Exit, Stat, ReadFiles, RefreshFails, Ended
  <2>2. ~(closed /\ phase = "off")
    BY <2>1 DEF LifeInv, ClosedIsClosed, Ended
  <2>3. /\ UNCHANGED <<lifeVars, callVars>> /\ Shape'
        /\ \A z \in Sources : Ended(z) => Ended(z)'
    BY <1>2, <2>1 DEF Notice, Exit, Stat, ReadFiles, RefreshFails, Ended, LifeInv, Shape
  <2>4. phase = "stopping" => JoinedAfter(at)'
    BY <2>3, OrderLen DEF LifeInv, JoinedAfter, Sources, Range
  <2> QED
    BY <2>2, <2>3, <2>4 DEF LifeInv, ClosedIsClosed
<1> QED
  BY <1>1, <1>2

\* Every step of a call is taken while the server is up.
LEMMA CallLife ==
    ASSUME LifeInv, NEW c \in Callers,
           \/ Search(c) \/ Catalog(c) \/ CallStep(c) \/ OpenFails(c)
           \/ \E r \in refs : OpenRef(c, r)
    PROVE  LifeInv'
<1>1. phase = "up"
  BY DEF LifeInv, Search, Catalog, OpenQuery, Rank, Card, ReadText, OpenFails, OpenRef
<1>2. UNCHANGED <<lifeVars, watchVars>> /\ DOMAIN cpc' = Callers
  BY DEF LifeInv, Shape, Search, Catalog, OpenQuery, Rank, Card, ReadText, OpenFails, OpenRef
<1>3. DOMAIN handles' = Callers /\ DOMAIN want' = Callers
  BY DEF LifeInv, Shape, Search, Catalog, OpenQuery, Rank, Card, ReadText, OpenFails, OpenRef
<1> QED
  BY <1>1, <1>2, <1>3 DEF LifeInv, Shape, ClosedIsClosed

LEMMA NextLife == Calm /\ LifeInv /\ [Next]_vars => LifeInv'
<1> SUFFICES ASSUME Calm, LifeInv, [Next]_vars
             PROVE  LifeInv'
  OBVIOUS
<1>1. CASE UNCHANGED vars
  BY <1>1 DEF LifeInv, Shape, ClosedIsClosed, JoinedAfter, Ended
<1>2. ASSUME NEW c \in Callers, NEW r \in refs, OpenRefFails(c, r)
      PROVE  LifeInv'
  BY <1>2 DEF OpenRefFails, LifeInv, Shape, ClosedIsClosed, JoinedAfter, Ended
<1>3. CASE Next
  BY <1>2, <1>3, OpenLife, CloseLife, WatcherLife, CallLife DEF Next
<1> QED
  BY <1>1, <1>3

(* When the lifespan is over no watcher thread, no read connection and no    *)
(* connection to the extraction cache is left, provided that the joins wait, *)
(* the calls have drained and the lifespan is entered once (index.py:120).   *)
THEOREM ClosedIsClosedAlways == Calm /\ Spec => []ClosedIsClosed
<1>1. LifeInv => ClosedIsClosed
  BY DEF LifeInv
<1>2. CASE Calm
  BY <1>1, <1>2, InitLife, NextLife, PTL DEF Spec
<1> QED
  BY <1>2
=============================================================================
