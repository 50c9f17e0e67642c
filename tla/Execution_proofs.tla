--------------------------- MODULE Execution_proofs ---------------------------
(* Theorems about the parts that act for an agent, for every value of the    *)
(* constants: the jobs, the workspaces and the settings.                     *)
EXTENDS Execution, FiniteSetTheorems, SequenceTheorems, WellFoundedInduction, TLAPS

------------------------------------------------------------------------------
(* A behaviour of the parts is a behaviour of the part it explores. *)

LEMMA JobsPart ==
    /\ PartsInit /\ part = "jobs" => J!Init
    /\ part = "jobs" /\ [PartsNext]_partsVars => [J!Next]_(J!vars) /\ (part = "jobs")'
BY DEF PartsInit, PartsNext, partsVars, jobsVars, J!vars, J!upstream

LEMMA WorkspacePart ==
    /\ PartsInit /\ part = "workspace" => W!Init
    /\ part = "workspace" /\ [PartsNext]_partsVars =>
           [W!Next]_(W!vars) /\ (part = "workspace")'
BY DEF PartsInit, PartsNext, partsVars, workspaceVars, W!vars

LEMMA SettingsPart ==
    /\ PartsInit /\ part = "settings" => L!Init
    /\ part = "settings" /\ [PartsNext]_partsVars => [L!Next]_(L!vars) /\ (part = "settings")'
BY DEF PartsInit, PartsNext, partsVars, settingsVars, L!vars

LEMMA OtherPart ==
    ASSUME NEW p
    PROVE  ~(part = p) /\ [PartsNext]_partsVars => ~(part = p)'
BY DEF PartsNext, partsVars

------------------------------------------------------------------------------
(* The jobs.  A call is known by where it is; what it may count on comes     *)
(* from the records, whose scheduler and cluster never change.               *)

JCounted == {"act", "read", "fetch", "close"}
JPlaces == {"idle", "list", "destinations", "lookup", "open", "done"} \cup JCounted

\* Its record leads to where a job was submitted.
JFollowed(j) == ~J!Shadowed(jTarget[j])

\* A record leads to the target its job was submitted to, and says that it is
\* over only when it is.
JobKept(j) ==
    LET r == jRecords[j] IN
    /\ r = [scheduler |-> r.scheduler, cluster |-> r.cluster, state |-> r.state]
    /\ JFollowed(j) =>
         /\ jTarget[j] = J!Target(r.scheduler, r.cluster, None)
         /\ r.state # "running" => jLive[j] # "running"
    /\ jLog[j] \in Nat

JobsKept ==
    /\ jRecords = [j \in J!Submitted |-> jRecords[j]]
    /\ jTarget = [j \in J!Submitted |-> jTarget[j]]
    /\ jLive = [j \in J!Submitted |-> jLive[j]] /\ jLog = [j \in J!Submitted |-> jLog[j]]
    /\ \A j \in J!Submitted : JobKept(j)

\* A submit asks for a target of its own, and what looks a job up for the record's.
JAsksNew(r) ==
    /\ r.scheduler \in Schedulers /\ r.cluster \in J!Names
    /\ r.profile # None => r.profile \in DOMAIN Profiles
JAsksKept(r) ==
    /\ r.job \in J!Submitted /\ r.profile = None
    /\ r.scheduler = jRecords[r.job].scheduler /\ r.cluster = jRecords[r.job].cluster
JTail(r) == r.op = "logs" => r.tail \in Nat \cup {None}

JCallOK(c) ==
    LET x == jCall[c] r == jCall[c].request IN
    /\ "at" \in DOMAIN x /\ x.at \in JPlaces
    /\ x.at \in {"lookup", "open", "act", "read"} =>
         /\ "op" \in DOMAIN x /\ "request" \in DOMAIN x /\ x.op = r.op
         /\ x.op \in {"submit", "queue", "get", "plain", "cancel", "logs"} /\ JTail(r)
    /\ x.at = "lookup" => x.op \notin {"submit", "queue"}
    /\ x.at \in {"open", "act"} /\ x.op = "submit" => JAsksNew(r)
    /\ x.at \in {"open", "act"} /\ x.op \notin {"submit", "queue"} => JAsksKept(r)
    /\ x.at = "read" => r.job \in J!Submitted
    /\ x.at = "read" /\ x.op = "cancel" /\ JFollowed(r.job) => jLive[r.job] # "running"
    /\ x.at = "fetch" =>
         /\ r.job \in J!Submitted /\ r.tail \in Nat \cup {None}
         /\ x.state # "running" /\ JFollowed(r.job) => jLive[r.job] # "running"
    /\ x.at = "close" /\ x.ok /\ x.op = "cancel" =>
         r.job \in J!Submitted /\ (JFollowed(r.job) => jLive[r.job] # "running")
    /\ x.at = "close" /\ x.ok /\ x.op = "logs" =>
         /\ r.job \in J!Submitted /\ r.tail \in Nat \cup {None}
         /\ x.state # "running" /\ JFollowed(r.job) =>
              /\ jLive[r.job] # "running"
              /\ ~x.missing => x.lines = J!LastLines(jLog[r.job], r.tail)

JHolding == {c \in Calls : jCall[c].at \in JCounted}
JHandles ==
    /\ jDropped \in Nat
    /\ jHandles = Cardinality(JHolding) + jDropped

JobsInv ==
    /\ jCall = [c \in Calls |-> jCall[c]]
    /\ JHandles /\ JobsKept /\ \A c \in Calls : JCallOK(c)

\* What a step of one call or of a job leaves true for the calls of the others.
JKeeps ==
    /\ J!Submitted \subseteq J!Submitted'
    /\ \A j \in J!Submitted :
         /\ jRecords'[j].scheduler = jRecords[j].scheduler
         /\ jRecords'[j].cluster = jRecords[j].cluster
         /\ JFollowed(j)' <=> JFollowed(j)
         /\ jLive[j] # "running" => jLive'[j] # "running" /\ jLog'[j] = jLog[j]

LEMMA JCounts == /\ \A S : J!Cardinality(S) = Cardinality(S)
                 /\ IsFiniteSet(Calls)
BY JobsParts DEF J!Cardinality, Cardinality, J!IsFiniteSet, IsFiniteSet, J!JobsAssumption

LEMMA JFollowedKept ==
    ASSUME NEW j, jTarget'[j] = jTarget[j]
    PROVE  JFollowed(j)' <=> JFollowed(j)
BY DEF JFollowed, J!Shadowed

LEMMA JCallKept ==
    ASSUME NEW c, JCallOK(c), jCall'[c] = jCall[c], JKeeps
    PROVE  JCallOK(c)'
<1>1. ASSUME NEW r, JAsksKept(r) PROVE JAsksKept(r)'
  BY <1>1 DEF JAsksKept, JKeeps
<1>2. ASSUME NEW r, JAsksNew(r) PROVE JAsksNew(r)'
  BY <1>2 DEF JAsksNew
<1>3. ASSUME NEW r, JTail(r) PROVE JTail(r)'
  BY <1>3 DEF JTail
<1> QED  BY <1>1, <1>2, <1>3 DEF JCallOK, JKeeps

\* One handle more is open when a call enters the part where it uses one.
LEMMA JOpenOrClosed ==
    ASSUME jCall = [d \in Calls |-> jCall[d]], NEW c \in Calls, NEW v,
           jCall' = [jCall EXCEPT ![c] = v]
    PROVE  /\ Cardinality(JHolding) \in Nat
           /\ Cardinality(JHolding') = Cardinality(JHolding)
                + (IF v.at \in JCounted THEN 1 ELSE 0)
                - (IF jCall[c].at \in JCounted THEN 1 ELSE 0)
<1>1. IsFiniteSet(JHolding) /\ Cardinality(JHolding) \in Nat
  <2>1. JHolding \subseteq Calls
    BY DEF JHolding
  <2> QED  BY <2>1, JCounts, FS_Subset, FS_CardinalityType
<1>2. JHolding' = IF v.at \in JCounted THEN JHolding \cup {c} ELSE JHolding \ {c}
  BY DEF JHolding
<1>3. c \in JHolding <=> jCall[c].at \in JCounted
  BY DEF JHolding
<1>4. CASE v.at \in JCounted
  <2>1. Cardinality(JHolding \cup {c}) = IF c \in JHolding THEN Cardinality(JHolding)
                                        ELSE Cardinality(JHolding) + 1
    BY <1>1, FS_AddElement
  <2>2. Cardinality(JHolding') = Cardinality(JHolding \cup {c})
    BY <1>2, <1>4
  <2> QED  BY <1>1, <1>3, <1>4, <2>1, <2>2
<1>5. CASE v.at \notin JCounted
  <2>1. Cardinality(JHolding \ {c}) = IF c \in JHolding THEN Cardinality(JHolding) - 1
                                      ELSE Cardinality(JHolding)
    BY <1>1, FS_RemoveElement
  <2>2. Cardinality(JHolding') = Cardinality(JHolding \ {c})
    BY <1>2, <1>5
  <2> QED  BY <1>1, <1>3, <1>5, <2>1, <2>2
<1> QED  BY <1>4, <1>5

LEMMA JobsStep ==
    ASSUME JobsInv, NEW c \in Calls, NEW v, jCall' = [jCall EXCEPT ![c] = v],
           JCallOK(c)', JKeeps, JobsKept', jDropped' \in Nat,
           jHandles' = jHandles + (jDropped' - jDropped)
                         + (IF v.at \in JCounted THEN 1 ELSE 0)
                         - (IF jCall[c].at \in JCounted THEN 1 ELSE 0)
    PROVE  JobsInv'
<1>1. jCall' = [d \in Calls |-> jCall'[d]]
  BY DEF JobsInv
<1>2. JHandles'
  BY JOpenOrClosed DEF JobsInv, JHandles
<1>3. ASSUME NEW d \in Calls PROVE JCallOK(d)'
  BY JCallKept DEF JobsInv
<1> QED  BY <1>1, <1>2, <1>3 DEF JobsInv

LEMMA JobsStill ==
    ASSUME JobsKept, UNCHANGED <<jRecords, jTarget, jLive, jLog>>
    PROVE  JKeeps /\ JobsKept'
<1>1. J!Submitted' = J!Submitted
  BY DEF J!Submitted
<1>2. \A j : JFollowed(j)' <=> JFollowed(j)
  BY JFollowedKept
<1>3. ASSUME NEW j \in J!Submitted, JobKept(j) PROVE JobKept(j)'
  BY <1>2, <1>3 DEF JobKept, J!Target, J!Label
<1> QED  BY <1>1, <1>2, <1>3 DEF JobsKept, JKeeps

\* A step that only moves a call on.
LEMMA JobsMove ==
    ASSUME JobsInv, NEW c \in Calls, NEW v, jCall' = [jCall EXCEPT ![c] = v],
           UNCHANGED <<jRecords, jTarget, jLive, jLog, jDropped>>, JCallOK(c)',
           jHandles' = jHandles + (IF v.at \in JCounted THEN 1 ELSE 0)
                         - (IF jCall[c].at \in JCounted THEN 1 ELSE 0)
    PROVE  JobsInv'
<1>1. JKeeps /\ JobsKept'
  BY JobsStill DEF JobsInv
<1>2. Cardinality(JHolding) \in Nat
  BY JOpenOrClosed DEF JobsInv
<1>3. jDropped \in Nat /\ jDropped' - jDropped = 0 /\ jHandles \in Nat
  BY <1>2 DEF JobsInv, JHandles
<1>4. jHandles' = jHandles + (jDropped' - jDropped)
                    + (IF v.at \in JCounted THEN 1 ELSE 0)
                    - (IF jCall[c].at \in JCounted THEN 1 ELSE 0)
  BY <1>3
<1>5. jDropped' \in Nat
  BY <1>3
<1> QED  BY <1>1, <1>4, <1>5, JobsStep

LEMMA RequestKinds ==
    ASSUME NEW r \in J!Requests
    PROVE  /\ r.op \in {"submit", "queue", "get", "plain", "cancel", "logs", "list",
                        "destinations"}
           /\ r.op \in {"submit", "queue"} => JAsksNew(r)
           /\ JTail(r)
BY JobsParts DEF J!Requests, J!Names, JAsksNew, JTail, J!JobsAssumption

\* The record of a job leads to where it was submitted, though it has no profile,
\* unless a profile put it on a cluster that is named as an SSH host.
LEMMA SubmittedThere ==
    ASSUME NEW r, JAsksNew(r), ~J!Shadowed(J!Target(r.scheduler, r.cluster, r.profile))
    PROVE  J!Target(r.scheduler, J!ClusterOf(r), None)
             = J!Target(r.scheduler, r.cluster, r.profile)
<1> USE JobsParts DEF J!JobsAssumption, JAsksNew, J!Names,
        J!Target, J!ClusterOf, J!Label, J!Shadowed
<1>1. CASE r.cluster = None /\ r.profile = None
  BY <1>1
<1>2. CASE r.cluster = None /\ r.profile # None
  BY <1>2
<1>3. CASE r.cluster # None
  BY <1>3
<1> QED  BY <1>1, <1>2, <1>3

LEMMA JobsInit == J!Init => JobsInv
<1> SUFFICES ASSUME J!Init PROVE JobsInv
  OBVIOUS
<1>1. jCall = [c \in Calls |-> jCall[c]] /\ \A c \in Calls : jCall[c] = J!Idle
  BY DEF J!Init
<1>2. \A c \in Calls : JCallOK(c)
  BY <1>1 DEF JCallOK, J!Idle, JPlaces, JCounted
<1>3. JHandles
  <2>1. JHolding = {}
    BY <1>1 DEF JHolding, J!Idle, JCounted
  <2> QED  BY <2>1, FS_EmptySet DEF JHandles, J!Init
<1>4. JobsKept
  <2>1. PICK r \in J!Requests : \E jobs :
          /\ r.op = "submit"
          /\ jRecords = [j \in jobs |-> J!RecordOf(r)]
          /\ jTarget = [j \in jobs |-> J!Target(r.scheduler, r.cluster, r.profile)]
          /\ jLive = [j \in jobs |-> "running"] /\ jLog = [j \in jobs |-> 0]
    BY DEF J!Init
  <2>2. JAsksNew(r)
    BY <2>1, RequestKinds
  <2>3. ASSUME NEW j \in J!Submitted PROVE JobKept(j)
    BY <2>1, <2>2, SubmittedThere DEF JobKept, JFollowed, J!RecordOf, J!Submitted
  <2> QED  BY <2>1, <2>3 DEF JobsKept, J!Submitted
<1> QED  BY <1>1, <1>2, <1>3, <1>4 DEF JobsInv

LEMMA JHandlesCounted ==
    ASSUME JobsInv
    PROVE  jHandles \in Nat /\ jDropped \in Nat
<1>1. JHolding \subseteq Calls
  BY DEF JHolding
<1>2. Cardinality(JHolding) \in Nat
  BY <1>1, JCounts, FS_Subset, FS_CardinalityType
<1> QED  BY <1>2 DEF JobsInv, JHandles

LEMMA JMoved ==
    ASSUME NEW x, "at" \in DOMAIN x, "op" \in DOMAIN x, "request" \in DOMAIN x, NEW b, NEW q
    PROVE  LET y == [x EXCEPT !.at = b] z == [x EXCEPT !.at = b, !.request = q] IN
           /\ DOMAIN y = DOMAIN x /\ y.at = b /\ y.op = x.op /\ y.request = x.request
           /\ DOMAIN z = DOMAIN x /\ z.at = b /\ z.op = x.op /\ z.request = q
OBVIOUS

\* What a call asks for is the same after a step that leaves the records.
LEMMA JAsksSame ==
    ASSUME NEW r
    PROVE  /\ JAsksNew(r) <=> JAsksNew(r)'
           /\ JTail(r) <=> JTail(r)'
           /\ UNCHANGED jRecords => (JAsksKept(r) <=> JAsksKept(r)')
BY DEF JAsksNew, JTail, JAsksKept, J!Submitted

LEMMA JobsBegin ==
    ASSUME JobsInv, NEW c \in Calls, J!Begin(c)
    PROVE  JobsInv'
<1> USE DEF J!Begin, J!upstream
<1>1. PICK r \in J!Requests :
        \/ UNCHANGED jCall
        \/ jCall' = [jCall EXCEPT ![c] = [op |-> r.op, ok |-> TRUE, request |-> r,
                at |-> IF r.op \in {"list", "destinations"} THEN r.op
                       ELSE IF r.op \in {"submit", "queue"} THEN "open" ELSE "lookup"]]
  OBVIOUS
<1>2. CASE UNCHANGED jCall
  BY <1>2, JobsStill, JCallKept DEF JobsInv, JHandles, JHolding
<1>3. ASSUME NEW at \in {"list", "destinations", "open", "lookup"},
             at = IF r.op \in {"list", "destinations"} THEN r.op
                  ELSE IF r.op \in {"submit", "queue"} THEN "open" ELSE "lookup",
             jCall' = [jCall EXCEPT ![c] = [op |-> r.op, ok |-> TRUE, request |-> r, at |-> at]]
      PROVE  JobsInv'
  <2>1. jCall'[c] = [op |-> r.op, ok |-> TRUE, request |-> r, at |-> at]
    BY <1>3 DEF JobsInv
  <2>2. at = "open" => JAsksNew(r)' /\ r.op \in {"submit", "queue"}
    BY <1>3, RequestKinds, JAsksSame
  <2>3. JTail(r)'
    BY RequestKinds, JAsksSame
  <2>4. at = "lookup" => r.op \in {"get", "plain", "cancel", "logs"}
    BY <1>3, RequestKinds
  <2>5. JCallOK(c)'
    BY <1>3, <2>1, <2>2, <2>3, <2>4 DEF JCallOK, JPlaces, JCounted
  <2>6. jCall[c].at \notin JCounted /\ at \notin JCounted
    BY <1>3 DEF JCounted
  <2>7. jHandles' = jHandles + 0 - 0
    BY JHandlesCounted
  <2> QED  BY <1>3, <2>5, <2>6, <2>7, JobsMove
<1> QED  BY <1>1, <1>2, <1>3, RequestKinds

\* A call that is over, or was refused before it opened anything.
LEMMA JobsUncounted ==
    ASSUME JobsInv, NEW c \in Calls, jCall[c].at \notin JCounted,
           NEW v, "at" \in DOMAIN v, v.at \in {"idle", "done"},
           jCall' = [jCall EXCEPT ![c] = v],
           UNCHANGED <<jRecords, jTarget, jLive, jLog, jDropped, jHandles>>
    PROVE  JobsInv'
<1>1. jCall'[c] = v
  BY DEF JobsInv
<1>2. JCallOK(c)'
  BY <1>1 DEF JCallOK, JPlaces, JCounted
<1>3. jHandles' = jHandles + 0 - 0 /\ v.at \notin JCounted
  BY JHandlesCounted DEF JCounted
<1> QED  BY <1>2, <1>3, JobsMove

LEMMA JobsList ==
    ASSUME JobsInv, NEW c \in Calls, J!List(c) \/ J!ListDestinations(c) \/ J!Return(c)
    PROVE  JobsInv'
<1> USE DEF J!upstream
<1>1. CASE J!List(c)
  <2>1. "at" \in DOMAIN jCall[c]
    BY DEF JobsInv, JCallOK
  <2>2. /\ jCall' = [jCall EXCEPT ![c] = [jCall[c] EXCEPT !.at = "done"]]
        /\ jCall[c].at \notin JCounted
    BY <1>1 DEF J!List, JCounted
  <2> QED  BY <1>1, <2>1, <2>2, JobsUncounted DEF J!List
<1>2. CASE J!ListDestinations(c)
  <2>1. PICK rows : jCall' = [jCall EXCEPT ![c] =
                       [op |-> "destinations", at |-> "done", ok |-> TRUE, rows |-> rows]]
    BY <1>2 DEF J!ListDestinations
  <2>2. PICK v : v = [op |-> "destinations", at |-> "done", ok |-> TRUE, rows |-> rows]
    OBVIOUS
  <2>3. jCall[c].at \notin JCounted /\ "at" \in DOMAIN v /\ v.at = "done"
    BY <1>2, <2>2 DEF J!ListDestinations, JCounted
  <2>4. UNCHANGED <<jRecords, jTarget, jLive, jLog, jDropped, jHandles>>
    BY <1>2 DEF J!ListDestinations
  <2> QED  BY <2>1, <2>2, <2>3, <2>4, JobsUncounted
<1>3. CASE J!Return(c)
  <2>1. jCall' = [jCall EXCEPT ![c] = J!Idle] /\ jCall[c].at \notin JCounted
    BY <1>3 DEF J!Return, JCounted
  <2>2. "at" \in DOMAIN J!Idle /\ J!Idle.at = "idle"
    BY DEF J!Idle
  <2> QED  BY <1>3, <2>1, <2>2, JobsUncounted DEF J!Return
<1> QED  BY <1>1, <1>2, <1>3

LEMMA JobsLookup ==
    ASSUME JobsInv, NEW c \in Calls, J!Lookup(c)
    PROVE  JobsInv'
<1> USE DEF J!Lookup, J!upstream
<1>1. JCallOK(c) /\ jCall[c].at = "lookup" /\ "at" \in DOMAIN jCall[c]
      /\ jCall[c].at \notin JCounted
  BY DEF JobsInv, JCallOK, JCounted
<1>2. PICK r : /\ r = jCall[c].request /\ jCall[c].op = r.op
               /\ "op" \in DOMAIN jCall[c] /\ "request" \in DOMAIN jCall[c]
               /\ r.op \in {"get", "plain", "cancel", "logs"} /\ JTail(r)
  BY <1>1 DEF JCallOK
<1>3. CASE r.job \notin J!Submitted
  <2>1. jCall' = [jCall EXCEPT ![c] = J!Idle]
    BY <1>2, <1>3 DEF J!FailedCall
  <2>2. "at" \in DOMAIN J!Idle /\ J!Idle.at = "idle"
    BY DEF J!Idle
  <2> QED  BY <1>1, <2>1, <2>2, JobsUncounted
<1>4. CASE r.job \in J!Submitted /\ r.op = "plain"
  <2>1. jCall' = [jCall EXCEPT ![c] = [jCall[c] EXCEPT !.at = "done"]]
    BY <1>2, <1>4
  <2>2. PICK v : v = [jCall[c] EXCEPT !.at = "done"]
    OBVIOUS
  <2>3. "at" \in DOMAIN v /\ v.at = "done"
    BY <1>1, <2>2
  <2> QED  BY <1>1, <2>1, <2>2, <2>3, JobsUncounted
<1>5. CASE r.job \in J!Submitted /\ r.op # "plain"
  <2>1. PICK q : q = [op |-> r.op, job |-> r.job, scheduler |-> jRecords[r.job].scheduler,
                      cluster |-> jRecords[r.job].cluster, profile |-> None,
                      tail |-> IF r.op = "logs" THEN r.tail ELSE None]
    OBVIOUS
  <2>2. PICK v : v = [jCall[c] EXCEPT !.at = "open", !.request = q]
    OBVIOUS
  <2>3. jCall' = [jCall EXCEPT ![c] = v]
    <3>1. jCall' = [jCall EXCEPT ![c].at = "open", ![c].request = q]
      BY <1>2, <1>5, <2>1
    <3> QED  BY <2>2, <3>1 DEF JobsInv
  <2>4. DOMAIN v = DOMAIN jCall[c] /\ v.at = "open" /\ v.op = r.op /\ v.request = q
    BY <1>1, <1>2, <2>2, JMoved
  <2>5. jCall'[c] = v
    BY <2>3 DEF JobsInv
  <2>6. JAsksKept(q)'
    BY <1>5, <2>1 DEF JAsksKept, J!Submitted
  <2>7. JTail(q)'
    BY <1>2, <2>1 DEF JTail
  <2>8. q.op = r.op /\ r.op \in {"get", "cancel", "logs"}
    BY <1>2, <1>5, <2>1
  <2>9. JCallOK(c)'
    BY <1>1, <1>2, <2>5, <2>6, <2>7, <2>8, <2>4 DEF JCallOK, JPlaces, JCounted
  <2>10. jHandles' = jHandles + 0 - 0 /\ v.at \notin JCounted
    BY <2>4, JHandlesCounted DEF JCounted
  <2> QED  BY <1>1, <2>3, <2>9, <2>10, JobsMove
<1> QED  BY <1>3, <1>4, <1>5

\* The store is opened with a submitor, or stays open without one.
LEMMA JobsOpen ==
    ASSUME JobsInv, NEW c \in Calls, J!OpenSubmitor(c)
    PROVE  JobsInv'
<1> USE DEF J!OpenSubmitor, J!upstream
<1>1. JCallOK(c) /\ jCall[c].at = "open" /\ jCall[c].at \notin JCounted
  BY DEF JobsInv, JCounted
<1>2. PICK r : r = jCall[c].request /\ jCall[c].op = r.op
        /\ "at" \in DOMAIN jCall[c] /\ "op" \in DOMAIN jCall[c]
        /\ "request" \in DOMAIN jCall[c]
        /\ r.op \in {"submit", "queue", "get", "plain", "cancel", "logs"} /\ JTail(r)
        /\ (r.op = "submit" => JAsksNew(r))
        /\ (r.op \notin {"submit", "queue"} => JAsksKept(r))
  BY <1>1 DEF JCallOK
<1>3. PICK v : v = [jCall[c] EXCEPT !.at = "act"]
  OBVIOUS
<1>4. jCall' = [jCall EXCEPT ![c] = v]
  BY <1>3
<1>5. jCall'[c] = v /\ DOMAIN v = DOMAIN jCall[c] /\ v.at = "act" /\ v.op = r.op
      /\ v.request = r
  BY <1>2, <1>3, <1>4, JMoved DEF JobsInv
<1>6. JTail(r)' /\ (r.op = "submit" => JAsksNew(r)')
      /\ (r.op \notin {"submit", "queue"} => JAsksKept(r)')
  BY <1>2, JAsksSame
<1>7. JCallOK(c)'
  BY <1>2, <1>5, <1>6 DEF JCallOK, JPlaces, JCounted
<1>8. jHandles' = jHandles + 1 - 0 /\ v.at \in JCounted
  BY <1>5, JHandlesCounted DEF JCounted
<1> QED  BY <1>1, <1>4, <1>7, <1>8, JobsMove

LEMMA JobsOpenFails ==
    ASSUME JobsInv, NEW c \in Calls, J!OpenFails(c)
    PROVE  JobsInv'
<1> USE DEF J!OpenFails, J!upstream
<1>1. jCall' = [jCall EXCEPT ![c] = J!Idle] /\ jCall[c].at \notin JCounted
  BY DEF J!FailedCall, JCounted
<1>2. jCall'[c] = J!Idle /\ J!Idle.at = "idle" /\ "at" \in DOMAIN J!Idle
  BY <1>1 DEF JobsInv, J!Idle
<1>3. JCallOK(c)'
  BY <1>2 DEF JCallOK, JPlaces, JCounted
<1>4. JKeeps /\ JobsKept'
  BY JobsStill DEF JobsInv
<1>5. jHandles \in Nat /\ jDropped \in Nat
  BY JHandlesCounted
<1>6. jDropped' \in Nat /\ jHandles' = jHandles + (jDropped' - jDropped) + 0 - 0
      /\ J!Idle.at \notin JCounted
  BY <1>2, <1>5 DEF JCounted
<1> QED  BY <1>1, <1>3, <1>4, <1>6, JobsStep

\* Who uses a submitor finds the record its call looked up.
LEMMA JActs ==
    ASSUME JobsInv, NEW c \in Calls, jCall[c].at \in {"act", "read"}
    PROVE  \E r : /\ r = jCall[c].request /\ jCall[c].op = r.op /\ JTail(r)
                  /\ "at" \in DOMAIN jCall[c] /\ "op" \in DOMAIN jCall[c]
                  /\ "request" \in DOMAIN jCall[c]
                  /\ jCall[c].at = "act" /\ r.op = "submit" => JAsksNew(r)
                  /\ jCall[c].at = "act" /\ r.op \notin {"submit", "queue"} => JAsksKept(r)
                  /\ jCall[c].at = "read" => r.job \in J!Submitted
                  /\ jCall[c].at = "read" /\ r.op = "cancel" /\ JFollowed(r.job) =>
                       jLive[r.job] # "running"
BY DEF JobsInv, JCallOK

\* The call goes on with its submitor open, and nothing of the store that it or
\* another relies on changes.
LEMMA JobsUse ==
    ASSUME JobsInv, NEW c \in Calls, jCall[c].at \in JCounted,
           NEW v, v.at \in JCounted, jCall' = [jCall EXCEPT ![c] = v],
           UNCHANGED <<jHandles, jDropped>>, JKeeps, JobsKept', JCallOK(c)'
    PROVE  JobsInv'
<1>1. jDropped' \in Nat /\ jHandles' = jHandles + (jDropped' - jDropped) + 1 - 1
  BY JHandlesCounted
<1> QED  BY <1>1, JobsStep

LEMMA JobKeptNew ==
    ASSUME NEW j, NEW q, jRecords'[j] = q, jLog'[j] \in Nat, q.state = "running",
           q = [scheduler |-> q.scheduler, cluster |-> q.cluster, state |-> q.state],
           JFollowed(j)' => jTarget'[j] = J!Target(q.scheduler, q.cluster, None)
    PROVE  JobKept(j)'
BY DEF JobKept, J!Target, J!Label

LEMMA JobsSubmit ==
    ASSUME JobsInv, NEW c \in Calls, J!Submit(c)
    PROVE  JobsInv'
<1> USE DEF J!Submit
<1>1. jCall[c].at = "act" /\ jCall[c].op = "submit" /\ "act" \in JCounted
  BY DEF JCounted
<1>2. PICK r : /\ r = jCall[c].request /\ JAsksNew(r) /\ r.op = "submit"
               /\ "at" \in DOMAIN jCall[c] /\ "op" \in DOMAIN jCall[c]
               /\ "request" \in DOMAIN jCall[c]
  BY <1>1, JActs
<1>3. PICK j : /\ j = CHOOSE i \in Ids : i \notin J!Submitted
               /\ j \in Ids /\ j \notin J!Submitted
  OBVIOUS
<1>4. PICK new : new = J!Submitted \cup {j}
  OBVIOUS
<1>5. /\ jRecords' = [i \in new |-> IF i = j THEN J!RecordOf(r) ELSE jRecords[i]]
      /\ jTarget' = [i \in new |-> IF i = j THEN J!Target(r.scheduler, r.cluster, r.profile)
                                   ELSE jTarget[i]]
      /\ jLive' = [i \in new |-> IF i = j THEN "running" ELSE jLive[i]]
      /\ jLog' = [i \in new |-> IF i = j THEN 0 ELSE jLog[i]]
  BY <1>2, <1>3, <1>4 DEF J!TargetOf
<1>6. J!Submitted' = new
  BY <1>5 DEF J!Submitted
<1>7. JKeeps
  <2>1. \A i \in J!Submitted : JFollowed(i)' <=> JFollowed(i)
    BY <1>3, <1>4, <1>5, JFollowedKept
  <2> QED  BY <1>3, <1>4, <1>5, <1>6, <2>1 DEF JKeeps
<1>8. JobsKept'
  <2>1. ASSUME NEW i \in J!Submitted PROVE JobKept(i)'
    <3>1. JobKept(i)
      BY DEF JobsInv, JobsKept
    <3>2. i \in new /\ i # j
      BY <1>3, <1>4
    <3>3. /\ jRecords'[i] = jRecords[i] /\ jTarget'[i] = jTarget[i]
          /\ jLive'[i] = jLive[i] /\ jLog'[i] = jLog[i]
      BY <1>5, <3>2
    <3> QED  BY <3>1, <3>3, JFollowedKept DEF JobKept, J!Target, J!Label
  <2>2. JobKept(j)'
    <3>1. /\ jRecords'[j] = J!RecordOf(r) /\ jLog'[j] = 0
          /\ jTarget'[j] = J!Target(r.scheduler, r.cluster, r.profile)
      BY <1>4, <1>5
    <3>2. JFollowed(j)' => jTarget'[j] = J!Target(r.scheduler, J!ClusterOf(r), None)
      BY <1>2, <3>1, SubmittedThere DEF JFollowed, J!Shadowed
    <3>3. PICK q : q = J!RecordOf(r)
      OBVIOUS
    <3>4. /\ q = [scheduler |-> q.scheduler, cluster |-> q.cluster, state |-> q.state]
          /\ q.scheduler = r.scheduler /\ q.cluster = J!ClusterOf(r)
      BY <3>3 DEF J!RecordOf
    <3>5. JFollowed(j)' => jTarget'[j] = J!Target(q.scheduler, q.cluster, None)
      BY <3>2, <3>4
    <3>6. jRecords'[j] = q /\ jLog'[j] \in Nat /\ q.state = "running"
      BY <3>1, <3>3 DEF J!RecordOf
    <3> QED  BY <3>4, <3>5, <3>6, JobKeptNew
  <2>3. \A i \in new : JobKept(i)'
    BY <1>4, <2>1, <2>2
  <2>4. /\ jRecords' = [i \in new |-> jRecords'[i]] /\ jTarget' = [i \in new |-> jTarget'[i]]
        /\ jLive' = [i \in new |-> jLive'[i]] /\ jLog' = [i \in new |-> jLog'[i]]
    BY <1>5
  <2> QED  BY <1>6, <2>3, <2>4 DEF JobsKept
<1>9. PICK q, v : q = [op |-> "submit", job |-> j]
                  /\ v = [jCall[c] EXCEPT !.at = "read", !.request = q]
  OBVIOUS
<1>10. jCall' = [jCall EXCEPT ![c] = v]
  <2>1. jCall' = [jCall EXCEPT ![c].at = "read", ![c].request = q]
    BY <1>3, <1>9
  <2> QED  BY <1>9, <2>1 DEF JobsInv
<1>11. DOMAIN v = DOMAIN jCall[c] /\ v.at = "read" /\ v.op = "submit" /\ v.request = q
  BY <1>1, <1>2, <1>9, JMoved
<1>12. jCall'[c] = v /\ JTail(q)' /\ q.job \in J!Submitted' /\ q.op = "submit"
  BY <1>4, <1>6, <1>9, <1>10 DEF JobsInv, JTail
<1>13. JCallOK(c)'
  BY <1>2, <1>11, <1>12 DEF JCallOK, JPlaces, JCounted
<1>14. v.at \in JCounted
  BY <1>11 DEF JCounted
<1> QED  BY <1>1, <1>7, <1>8, <1>10, <1>13, <1>14, JobsUse

\* The target rebuilt from the record is where the job was submitted.
LEMMA JobsCancel ==
    ASSUME JobsInv, NEW c \in Calls, J!Cancel(c)
    PROVE  JobsInv'
<1> USE DEF J!Cancel
<1>1. jCall[c].at = "act" /\ jCall[c].op = "cancel" /\ "act" \in JCounted
  BY DEF JCounted
<1>2. PICK r : /\ r = jCall[c].request /\ JAsksKept(r) /\ r.op = "cancel" /\ JTail(r)
               /\ "at" \in DOMAIN jCall[c] /\ "op" \in DOMAIN jCall[c]
               /\ "request" \in DOMAIN jCall[c]
  BY <1>1, JActs
<1>3. r.job \in J!Submitted /\ JobKept(r.job)
  BY <1>2 DEF JAsksKept, JobsInv, JobsKept
<1>4. JFollowed(r.job) => J!TargetOf(c) = jTarget[r.job]
  BY <1>2, <1>3 DEF J!TargetOf, JAsksKept, JobKept
<1>5. /\ \/ UNCHANGED jLive
         \/ jLive' = [jLive EXCEPT ![r.job] = "cancelled"]
      /\ JFollowed(r.job) =>
           jLive' = IF jLive[r.job] = "running" THEN [jLive EXCEPT ![r.job] = "cancelled"]
                    ELSE jLive
      /\ jRecords' = [jRecords EXCEPT ![r.job] = [jRecords[r.job] EXCEPT !.state =
                        IF jRecords[r.job].state = "running" THEN "cancelled"
                        ELSE jRecords[r.job].state]]
      /\ UNCHANGED <<jTarget, jLog, jHandles, jDropped>>
  BY <1>2, <1>4 DEF JobsInv, JobsKept
<1>6. /\ J!Submitted' = J!Submitted
      /\ JFollowed(r.job) => jLive'[r.job] # "running"
      /\ jLive[r.job] # "running" => jLive'[r.job] # "running"
      /\ \A i : JFollowed(i)' <=> JFollowed(i)
  BY <1>3, <1>5, JFollowedKept DEF J!Submitted, JobsInv, JobsKept
<1>7. PICK s : s = [scheduler |-> jRecords[r.job].scheduler,
                    cluster |-> jRecords[r.job].cluster,
                    state |-> IF jRecords[r.job].state = "running" THEN "cancelled"
                              ELSE jRecords[r.job].state]
  OBVIOUS
<1>8. jRecords'[r.job] = s
  BY <1>3, <1>5, <1>7 DEF JobKept, JobsInv, JobsKept
<1>9. \A i \in J!Submitted \ {r.job} : jRecords'[i] = jRecords[i] /\ jLive'[i] = jLive[i]
  BY <1>5 DEF JobsInv, JobsKept
<1>10. JKeeps
  <2>1. ASSUME NEW i \in J!Submitted
        PROVE  /\ jRecords'[i].scheduler = jRecords[i].scheduler
               /\ jRecords'[i].cluster = jRecords[i].cluster
               /\ jLive[i] # "running" => jLive'[i] # "running" /\ jLog'[i] = jLog[i]
    <3>1. CASE i = r.job
      BY <1>5, <1>6, <1>7, <1>8, <3>1
    <3>2. CASE i # r.job
      BY <1>5, <1>9, <3>2
    <3> QED  BY <3>1, <3>2
  <2> QED  BY <1>6, <2>1, Zenon DEF JKeeps
<1>11. JobsKept'
  <2>1. ASSUME NEW i \in J!Submitted \ {r.job} PROVE JobKept(i)'
    <3>1. JobKept(i)
      BY DEF JobsInv, JobsKept
    <3> QED  BY <1>5, <1>6, <1>9, <3>1 DEF JobKept, J!Target, J!Label
  <2>2. JobKept(r.job)'
    <3>1. s = [scheduler |-> s.scheduler, cluster |-> s.cluster, state |-> s.state]
      BY <1>7
    <3>2. /\ JFollowed(r.job) => jTarget[r.job] = J!Target(s.scheduler, s.cluster, None)
          /\ jLog[r.job] \in Nat
      BY <1>3, <1>7 DEF JobKept
    <3>3. /\ JFollowed(r.job) => jTarget'[r.job] = J!Target(s.scheduler, s.cluster, None)'
          /\ jLog'[r.job] \in Nat
      BY <1>5, <3>2 DEF J!Target, J!Label
    <3> QED  BY <1>6, <1>8, <3>1, <3>3 DEF JobKept
  <2> QED  BY <1>5, <1>6, <2>1, <2>2 DEF JobsInv, JobsKept
<1>12. PICK v : v = [jCall[c] EXCEPT !.at = "read"]
  OBVIOUS
<1>13. jCall' = [jCall EXCEPT ![c] = v] /\ jCall'[c] = v
  BY <1>12 DEF J!To, JobsInv
<1>14. DOMAIN v = DOMAIN jCall[c] /\ v.at = "read" /\ v.op = "cancel" /\ v.request = r
  BY <1>1, <1>2, <1>12, JMoved
<1>15. JTail(r)'
  BY <1>2, JAsksSame
<1>16. JCallOK(c)'
  BY <1>2, <1>3, <1>6, <1>13, <1>14, <1>15 DEF JCallOK, JPlaces, JCounted
<1>17. v.at \in JCounted
  BY <1>14 DEF JCounted
<1> QED  BY <1>1, <1>5, <1>10, <1>11, <1>13, <1>16, <1>17, JobsUse

LEMMA JobsRefresh ==
    ASSUME JobsInv, NEW c \in Calls, J!Refresh(c)
    PROVE  JobsInv'
<1> USE DEF J!Refresh
<1>1. jCall[c].at = "act" /\ jCall[c].op \in {"get", "logs"} /\ "act" \in JCounted
  BY DEF JCounted
<1>2. PICK r : /\ r = jCall[c].request /\ JAsksKept(r) /\ r.op = jCall[c].op /\ JTail(r)
               /\ "at" \in DOMAIN jCall[c] /\ "op" \in DOMAIN jCall[c]
               /\ "request" \in DOMAIN jCall[c]
  BY <1>1, JActs
<1>3. JKeeps /\ JobsKept' /\ J!Submitted' = J!Submitted
  <2>1. CASE jRecords' = jRecords
    BY <2>1, JobsStill DEF JobsInv, J!Submitted
  <2>2. CASE jRecords' = J!Reconciled
    <3>1. J!Submitted' = J!Submitted
      BY <2>2 DEF J!Reconciled, J!Submitted
    <3>2. ASSUME NEW i \in J!Submitted
          PROVE  jRecords'[i] = [scheduler |-> jRecords[i].scheduler,
                                 cluster |-> jRecords[i].cluster, state |-> jLive[i]]
      BY <2>2 DEF J!Reconciled, JobsInv, JobsKept, JobKept
    <3>3. ASSUME NEW i \in J!Submitted
          PROVE  /\ JobKept(i)' /\ jRecords'[i].scheduler = jRecords[i].scheduler
                 /\ jRecords'[i].cluster = jRecords[i].cluster
      <4>1. PICK s, k, l : s = jRecords[i].scheduler /\ k = jRecords[i].cluster /\ l = jLive[i]
        OBVIOUS
      <4>2. jRecords'[i] = [scheduler |-> s, cluster |-> k, state |-> l]
        BY <3>2, <4>1
      <4>3. (JFollowed(i) => jTarget[i] = J!Target(s, k, None)) /\ jLog[i] \in Nat
        BY <4>1 DEF JobsInv, JobsKept, JobKept
      <4>4. /\ JFollowed(i) => jTarget'[i] = J!Target(s, k, None)'
            /\ jLog'[i] \in Nat /\ jLive'[i] = l
        BY <4>1, <4>3 DEF J!Target, J!Label
      <4>5. JFollowed(i)' <=> JFollowed(i)
        BY JFollowedKept
      <4> QED  BY <4>1, <4>2, <4>4, <4>5 DEF JobKept
    <3>4. JKeeps
      BY <3>1, <3>3, JFollowedKept DEF JKeeps
    <3>5. jRecords' = [i \in J!Submitted |-> jRecords'[i]]
      BY <2>2 DEF J!Reconciled
    <3> QED  BY <3>1, <3>3, <3>4, <3>5 DEF JobsInv, JobsKept
  <2> QED  BY <2>1, <2>2
<1>4. PICK v : v = [jCall[c] EXCEPT !.at = "read"]
  OBVIOUS
<1>5. jCall' = [jCall EXCEPT ![c] = v] /\ jCall'[c] = v
  BY <1>4 DEF J!To, JobsInv
<1>6. DOMAIN v = DOMAIN jCall[c] /\ v.at = "read" /\ v.op = r.op /\ v.request = r
  BY <1>2, <1>4, JMoved
<1>7. JTail(r)' /\ r.job \in J!Submitted'
  BY <1>2, <1>3, JAsksSame DEF JAsksKept
<1>8. JCallOK(c)'
  BY <1>1, <1>2, <1>5, <1>6, <1>7 DEF JCallOK, JPlaces, JCounted
<1>9. v.at \in JCounted
  BY <1>6 DEF JCounted
<1> QED  BY <1>1, <1>3, <1>5, <1>8, <1>9, JobsUse

LEMMA JobsQueue ==
    ASSUME JobsInv, NEW c \in Calls, J!Queue(c)
    PROVE  JobsInv'
<1> USE DEF J!Queue, J!upstream
<1>1. jCall[c].at = "act" /\ jCall[c].op = "queue" /\ "act" \in JCounted
  BY DEF JCounted
<1>2. "at" \in DOMAIN jCall[c] /\ "op" \in DOMAIN jCall[c] /\ "request" \in DOMAIN jCall[c]
  BY <1>1, JActs
<1>3. JKeeps /\ JobsKept'
  BY JobsStill DEF JobsInv
<1>4. PICK v : v = [jCall[c] EXCEPT !.at = "close"]
  OBVIOUS
<1>5. jCall' = [jCall EXCEPT ![c] = v] /\ jCall'[c] = v
  BY <1>4 DEF J!To, JobsInv
<1>6. DOMAIN v = DOMAIN jCall[c] /\ v.at = "close" /\ v.op = "queue"
  BY <1>1, <1>2, <1>4, JMoved
<1>7. JCallOK(c)'
  BY <1>2, <1>5, <1>6 DEF JCallOK, JPlaces, JCounted
<1>8. v.at \in JCounted
  BY <1>6 DEF JCounted
<1> QED  BY <1>1, <1>3, <1>5, <1>7, <1>8, JobsUse

\* The state is read before the streams: one that is over stays over.
LEMMA JobsGet ==
    ASSUME JobsInv, NEW c \in Calls, J!GetJob(c)
    PROVE  JobsInv'
<1> USE DEF J!GetJob, J!upstream
<1>1. jCall[c].at = "read" /\ "read" \in JCounted
  BY DEF JCounted
<1>2. PICK r : /\ r = jCall[c].request /\ JTail(r) /\ r.job \in J!Submitted
               /\ r.op = "cancel" /\ JFollowed(r.job) => jLive[r.job] # "running"
  BY <1>1, JActs
<1>3. /\ JKeeps /\ JobsKept' /\ J!Submitted' = J!Submitted
      /\ JFollowed(r.job)' <=> JFollowed(r.job)
  BY JobsStill, JFollowedKept DEF JobsInv, J!Submitted
<1>4. PICK v : v = [op |-> r.op, ok |-> TRUE, request |-> r, state |-> jRecords[r.job].state,
                    at |-> IF r.op = "logs" THEN "fetch" ELSE "close"]
  OBVIOUS
<1>5. jCall' = [jCall EXCEPT ![c] = v] /\ jCall'[c] = v
  BY <1>2, <1>4 DEF JobsInv
<1>6. v.state # "running" /\ JFollowed(r.job) => jLive[r.job] # "running"
  BY <1>2, <1>4 DEF JobsInv, JobsKept, JobKept
<1>7. v.at = "close" => v.op # "logs"
  BY <1>4
<1>8. v.at = "fetch" => r.tail \in Nat \cup {None}
  BY <1>2, <1>4 DEF JTail
<1>9. v.at \in {"fetch", "close"} /\ v.op = r.op /\ v.request = r /\ "at" \in DOMAIN v
  BY <1>4
<1>10. JCallOK(c)'
  BY <1>2, <1>3, <1>5, <1>6, <1>7, <1>8, <1>9 DEF JCallOK, JPlaces, JCounted
<1>11. v.at \in JCounted
  BY <1>9 DEF JCounted
<1> QED  BY <1>1, <1>3, <1>5, <1>10, <1>11, JobsUse

LEMMA JobsFetch ==
    ASSUME JobsInv, NEW c \in Calls, J!FetchLogs(c)
    PROVE  JobsInv'
<1> USE DEF J!FetchLogs, J!upstream
<1>1. jCall[c].at = "fetch" /\ "fetch" \in JCounted
  BY DEF JCounted
<1>2. PICK r, state : /\ r = jCall[c].request /\ state = jCall[c].state
                      /\ r.job \in J!Submitted /\ r.tail \in Nat \cup {None}
                      /\ state # "running" /\ JFollowed(r.job) => jLive[r.job] # "running"
  BY <1>1 DEF JobsInv, JCallOK
<1>3. /\ JKeeps /\ JobsKept' /\ J!Submitted' = J!Submitted
      /\ JFollowed(r.job)' <=> JFollowed(r.job)
  BY JobsStill, JFollowedKept DEF JobsInv, J!Submitted
<1>4. PICK missing \in BOOLEAN :
        jCall' = [jCall EXCEPT ![c] =
            [op |-> "logs", at |-> "close", ok |-> TRUE, request |-> r, state |-> state,
             missing |-> missing,
             lines |-> IF missing THEN {} ELSE J!LastLines(jLog[r.job], r.tail)]]
  BY <1>2
<1>5. PICK v : v = [op |-> "logs", at |-> "close", ok |-> TRUE, request |-> r,
                    state |-> state, missing |-> missing,
                    lines |-> IF missing THEN {} ELSE J!LastLines(jLog[r.job], r.tail)]
  OBVIOUS
<1>6. jCall' = [jCall EXCEPT ![c] = v] /\ jCall'[c] = v
  BY <1>4, <1>5 DEF JobsInv
<1>7. ~v.missing => v.lines = J!LastLines(jLog[r.job], r.tail)
  BY <1>5
<1>8. J!LastLines(jLog[r.job], r.tail)' = J!LastLines(jLog[r.job], r.tail)
  BY DEF J!LastLines
<1>9. v.at = "close" /\ v.op = "logs" /\ v.request = r /\ v.state = state
      /\ "at" \in DOMAIN v
  BY <1>5
<1>10. JCallOK(c)'
  BY <1>2, <1>3, <1>6, <1>7, <1>8, <1>9 DEF JCallOK, JPlaces, JCounted
<1>11. v.at \in JCounted
  BY <1>9 DEF JCounted
<1> QED  BY <1>1, <1>3, <1>6, <1>10, <1>11, JobsUse

LEMMA JobsRaises ==
    ASSUME JobsInv, NEW c \in Calls, J!Raises(c)
    PROVE  JobsInv'
<1> USE DEF J!Raises, J!upstream
<1>1. jCall[c].at \in JCounted
  BY DEF JCounted
<1>2. JKeeps /\ JobsKept'
  BY JobsStill DEF JobsInv
<1>3. PICK v : v = [op |-> jCall[c].op, at |-> "close", ok |-> FALSE]
  OBVIOUS
<1>4. jCall' = [jCall EXCEPT ![c] = v] /\ jCall'[c] = v
  BY <1>3 DEF JobsInv
<1>5. v.at = "close" /\ ~v.ok /\ "at" \in DOMAIN v
  BY <1>3
<1>6. JCallOK(c)'
  BY <1>4, <1>5 DEF JCallOK, JPlaces, JCounted
<1>7. v.at \in JCounted
  BY <1>5 DEF JCounted
<1> QED  BY <1>1, <1>2, <1>4, <1>6, <1>7, JobsUse

LEMMA JobsClose ==
    ASSUME JobsInv, NEW c \in Calls, J!Close(c)
    PROVE  JobsInv'
<1> USE DEF J!Close, J!upstream
<1>1. jCall' = [jCall EXCEPT ![c] = J!Idle] /\ jCall[c].at \in JCounted
  BY DEF JCounted
<1>2. jCall'[c] = J!Idle /\ J!Idle.at = "idle" /\ "at" \in DOMAIN J!Idle
  BY <1>1 DEF JobsInv, J!Idle
<1>3. JCallOK(c)'
  BY <1>2 DEF JCallOK, JPlaces, JCounted
<1>4. jHandles' = jHandles + 0 - 1 /\ J!Idle.at \notin JCounted
  BY <1>2, JHandlesCounted DEF JCounted
<1> QED  BY <1>1, <1>3, <1>4, JobsMove

\* A job that writes or ends is running, and no call has been told otherwise.
LEMMA JobsRun ==
    ASSUME JobsInv, NEW j \in J!Submitted, J!JobWrites(j) \/ J!JobEnds(j)
    PROVE  JobsInv'
<1> USE DEF J!JobWrites, J!JobEnds
<1>1. /\ UNCHANGED <<jCall, jHandles, jDropped, jRecords, jTarget>>
      /\ jLive[j] = "running" /\ J!Submitted' = J!Submitted
      /\ \A i \in J!Submitted : /\ jLive[i] # "running" => jLive'[i] # "running"
                                                           /\ jLog'[i] = jLog[i]
                                /\ jLog[i] \in Nat => jLog'[i] \in Nat
      /\ jLive' = [i \in J!Submitted |-> jLive'[i]]
      /\ jLog' = [i \in J!Submitted |-> jLog'[i]]
  BY DEF JobsInv, JobsKept, J!Submitted
<1>2. JKeeps
  BY <1>1, JFollowedKept DEF JKeeps
<1>3. ASSUME NEW i \in J!Submitted PROVE JobKept(i)'
  BY <1>1, JFollowedKept DEF JobsInv, JobsKept, JobKept, J!Target, J!Label
<1>4. JobsKept'
  BY <1>1, <1>3 DEF JobsInv, JobsKept
<1>5. \A c \in Calls : JCallOK(c)'
  BY <1>1, <1>2, JCallKept DEF JobsInv
<1>6. JHandles' /\ jCall' = [c \in Calls |-> jCall'[c]]
  BY <1>1 DEF JobsInv, JHandles, JHolding
<1> QED  BY <1>4, <1>5, <1>6 DEF JobsInv

LEMMA JobsInvKept == JobsInv /\ [J!Next]_(J!vars) => JobsInv'
<1> SUFFICES ASSUME JobsInv, [J!Next]_(J!vars) PROVE JobsInv'
  OBVIOUS
<1>1. CASE UNCHANGED J!vars
  BY <1>1, JobsStill, JCallKept DEF JobsInv, JHandles, JHolding, J!vars
<1>2. CASE J!Next
  BY <1>2, JobsBegin, JobsList, JobsLookup, JobsOpen, JobsOpenFails, JobsSubmit,
     JobsCancel, JobsRefresh, JobsQueue, JobsGet, JobsFetch, JobsRaises, JobsClose,
     JobsRun DEF J!Next
<1> QED  BY <1>1, <1>2

LEMMA JobsInvAlways == PartsSpec => [](part = "jobs" => JobsInv)
<1>1. ~(part = "jobs") /\ [PartsNext]_partsVars => ~(part = "jobs")'
  BY OtherPart
<1> QED
  BY <1>1, JobsPart, JobsInit, JobsInvKept, PTL DEF PartsSpec

\* However a call fails, what it opened is closed, but for the store of a submitor
\* that could not be made.
THEOREM HandlesCountedAlways == PartsSpec => []HandlesCounted
<1>1. (part = "jobs" => JobsInv) => HandlesCounted
  <2>1. JHolding = {c \in Calls : jCall[c].at \in {"act", "read", "fetch", "close"}}
    BY DEF JHolding, JCounted
  <2> QED  BY <2>1, JCounts DEF JobsInv, JHandles, HandlesCounted, J!HandlesCounted
<1> QED
  BY <1>1, JobsInvAlways, PTL

\* A cancel that reports no failure found the job where it was submitted, unless
\* a profile put that on a cluster that has the name of an SSH host.
THEOREM CancelReachesAlways == PartsSpec => []CancelReaches
<1>1. (part = "jobs" => JobsInv) => CancelReaches
  BY DEF JobsInv, JCallOK, JFollowed, CancelReaches, J!CancelReaches, J!Cancelled, J!Reached
<1> QED
  BY <1>1, JobsInvAlways, PTL

\* Logs that come with a state that is over are the last lines of all there are,
\* with the same exception.
THEOREM LogsAreLastAlways == PartsSpec => []LogsAreLast
<1>1. ASSUME NEW n \in Nat, NEW tail \in Nat \cup {None}, tail # 0
      PROVE  J!LastLines(n, tail) = {i \in 1..n : tail = None \/ i > n - tail}
  BY <1>1 DEF J!LastLines
<1>2. (part = "jobs" => JobsInv) => LogsAreLast
  <2> SUFFICES ASSUME JobsInv, NEW c \in Calls, jCall[c].op = "logs", jCall[c].at = "close",
                      jCall[c].ok, jCall[c].state # "running", ~jCall[c].missing,
                      jCall[c].request.tail # 0, JFollowed(jCall[c].request.job)
               PROVE  jCall[c].lines =
                        {i \in 1..jLog[jCall[c].request.job] :
                           \/ jCall[c].request.tail = None
                           \/ i > jLog[jCall[c].request.job] - jCall[c].request.tail}
    BY DEF LogsAreLast, J!LogsAreLast, JFollowed
  <2>1. /\ jCall[c].request.job \in J!Submitted
        /\ jCall[c].request.tail \in Nat \cup {None}
        /\ jCall[c].lines = J!LastLines(jLog[jCall[c].request.job], jCall[c].request.tail)
    BY DEF JobsInv, JCallOK
  <2>2. jLog[jCall[c].request.job] \in Nat
    BY <2>1 DEF JobsInv, JobsKept, JobKept
  <2> QED  BY <1>1, <2>1, <2>2
<1> QED
  BY <1>2, JobsInvAlways, PTL

------------------------------------------------------------------------------
(* Sequences.  What recursion on numbers defines is there, and is what the  *)
(* comments say, by induction on the numbers.                                *)

\* Induction, for a set of numbers.
LEMMA LeastOf ==
    ASSUME NEW T \in SUBSET Nat, T # {}
    PROVE  \E n \in T : \A m \in T : n <= m
<1>1. PICK R : R = OpToRel(<, Nat)
  OBVIOUS
<1>2. IsWellFoundedOn(R, Nat)
  BY <1>1, NatLessThanWellFounded
<1>3. R = {p \in Nat \X Nat : p[1] < p[2]}
  BY <1>1 DEF OpToRel
<1>4. PICK n \in T : \A m \in T : <<m, n>> \notin R
  BY <1>2, WFMin
<1>5. ASSUME NEW m \in T PROVE n <= m
  <2>1. ~(m < n)
    BY <1>3, <1>4
  <2> QED  BY <2>1
<1> QED  BY <1>5

LEMMA Counting ==
    ASSUME NEW T \in SUBSET Nat, 0 \in T, \A n \in T : n + 1 \in T
    PROVE  T = Nat
<1> SUFFICES ASSUME Nat \ T # {} PROVE FALSE
  OBVIOUS
<1>1. PICK n \in Nat \ T : \A m \in Nat \ T : n <= m
  BY LeastOf
<1>2. n - 1 \in T
  BY <1>1
<1> QED  BY <1>1, <1>2

\* A sequence and an element at its end.
LEMMA LAppended ==
    ASSUME NEW S, NEW s \in Seq(S), NEW e \in S
    PROVE  /\ Append(s, e) \in Seq(S) /\ Append(s, e) # <<>>
           /\ W!Range(Append(s, e)) = W!Range(s) \cup {e}
           /\ W!IsInjective(s) /\ e \notin W!Range(s) => W!IsInjective(Append(s, e))
<1>1. /\ Append(s, e) \in Seq(S) /\ Len(Append(s, e)) = Len(s) + 1
      /\ \A i \in 1..Len(s) : Append(s, e)[i] = s[i]
      /\ Append(s, e)[Len(s) + 1] = e
  BY AppendProperties
<1>2. Len(s) \in Nat /\ DOMAIN s = 1..Len(s) /\ DOMAIN Append(s, e) = 1..(Len(s) + 1)
  BY <1>1, LenProperties
<1>3. W!Range(Append(s, e)) = W!Range(s) \cup {e}
  BY <1>1, <1>2 DEF W!Range
<1>4. ASSUME W!IsInjective(s), e \notin W!Range(s),
             NEW i \in DOMAIN Append(s, e), NEW j \in DOMAIN Append(s, e),
             Append(s, e)[i] = Append(s, e)[j]
      PROVE  i = j
  BY <1>1, <1>2, <1>4 DEF W!IsInjective, W!Range
<1> QED  BY <1>1, <1>2, <1>3, <1>4, EmptySeq DEF W!IsInjective

LEMMA ThoseUpTo ==
    ASSUME NEW s, NEW X, Len(s) \in Nat
    PROVE  \E f : /\ f = [n \in 0..Len(s) |->
                            IF n = 0 THEN <<>>
                            ELSE IF s[n] \in X THEN Append(f[n - 1], s[n]) ELSE f[n - 1]]
                  /\ W!Those(s, X) = f[Len(s)]
<1> DEFINE Upto(k) == \E f : f = [n \in 0..k |->
                            IF n = 0 THEN <<>>
                            ELSE IF s[n] \in X THEN Append(f[n - 1], s[n]) ELSE f[n - 1]]
<1>1. PICK T : T = {k \in Nat : Upto(k)}
  OBVIOUS
<1>2. Upto(0)
  <2>1. PICK f : f = [n \in 0..0 |-> <<>>]
    OBVIOUS
  <2>2. f = [n \in 0..0 |-> IF n = 0 THEN <<>>
                            ELSE IF s[n] \in X THEN Append(f[n - 1], s[n]) ELSE f[n - 1]]
    BY <2>1
  <2> QED  BY <2>2
<1>3. ASSUME NEW k \in Nat, Upto(k) PROVE Upto(k + 1)
  <2>1. PICK f : f = [n \in 0..k |->
                            IF n = 0 THEN <<>>
                            ELSE IF s[n] \in X THEN Append(f[n - 1], s[n]) ELSE f[n - 1]]
    BY <1>3
  <2>2. PICK g : g = [n \in 0..(k + 1) |->
                       IF n <= k THEN f[n] 
                       ELSE IF s[k + 1] \in X THEN Append(f[k], s[k + 1]) ELSE f[k]]
    OBVIOUS
  <2>3. ASSUME NEW n \in 0..(k + 1)
        PROVE  g[n] = IF n = 0 THEN <<>>
                      ELSE IF s[n] \in X THEN Append(g[n - 1], s[n]) ELSE g[n - 1]
    <3>1. CASE n <= k /\ n # 0
      <4>1. g[n] = f[n] /\ g[n - 1] = f[n - 1] /\ n \in 0..k
        BY <2>2, <3>1
      <4> QED  BY <2>1, <3>1, <4>1
    <3>2. CASE n = k + 1
      <4>1. g[n] = (IF s[k + 1] \in X THEN Append(f[k], s[k + 1]) ELSE f[k]) /\ g[n - 1] = f[k]
        BY <2>2, <3>2
      <4> QED  BY <3>2, <4>1
    <3>3. CASE n = 0
      <4>1. g[0] = f[0] /\ f[0] = <<>>
        BY <2>1, <2>2
      <4> QED  BY <3>3, <4>1
    <3> QED  BY <3>1, <3>2, <3>3
  <2>4. g = [n \in 0..(k + 1) |-> g[n]]
    BY <2>2
  <2>5. g = [n \in 0..(k + 1) |-> IF n = 0 THEN <<>>
                      ELSE IF s[n] \in X THEN Append(g[n - 1], s[n]) ELSE g[n - 1]]
    BY <2>3, <2>4
  <2> QED  BY <2>5
<1>4. T = Nat
  <2> HIDE DEF Upto
  <2>1. T \in SUBSET Nat /\ 0 \in T
    BY <1>1, <1>2
  <2>2. \A k \in T : k + 1 \in T
    BY <1>1, <1>3
  <2> QED  BY <2>1, <2>2, Counting
<1>5. Upto(Len(s))
  <2> HIDE DEF Upto
  <2> QED  BY <1>1, <1>4
<1> QED  BY <1>5, Zenon DEF W!Those

LEMMA ThoseAre ==
    ASSUME NEW S, NEW s \in Seq(S), NEW X
    PROVE  /\ W!Those(s, X) \in Seq(S)
           /\ W!Range(W!Those(s, X)) = W!Range(s) \cap X
           /\ W!IsInjective(s) => W!IsInjective(W!Those(s, X))
<1>1. Len(s) \in Nat /\ DOMAIN s = 1..Len(s) /\ \A i \in 1..Len(s) : s[i] \in S
  BY LenProperties, ElementOfSeq
<1>2. PICK f : /\ f = [n \in 0..Len(s) |->
                            IF n = 0 THEN <<>>
                            ELSE IF s[n] \in X THEN Append(f[n - 1], s[n]) ELSE f[n - 1]]
               /\ W!Those(s, X) = f[Len(s)]
  BY <1>1, ThoseUpTo
<1> DEFINE Good(n) ==
      /\ f[n] \in Seq(S)
      /\ W!Range(f[n]) = {s[i] : i \in 1..n} \cap X
      /\ W!IsInjective(s) => W!IsInjective(f[n])
<1>3. PICK T : T = {n \in Nat : n <= Len(s) => Good(n)}
  OBVIOUS
<1>4. 0 \in T
  <2>1. f[0] = <<>>
    BY <1>1, <1>2
  <2>2. {s[i] : i \in 1..0} = {} /\ DOMAIN <<>> = {}
    OBVIOUS
  <2>3. W!Range(<<>>) = {} /\ W!IsInjective(<<>>)
    BY <2>2 DEF W!Range, W!IsInjective
  <2> QED  BY <1>3, <2>1, <2>2, <2>3, EmptySeq
<1>5. ASSUME NEW n \in T PROVE n + 1 \in T
  <2> SUFFICES ASSUME n + 1 <= Len(s) PROVE Good(n + 1)
    BY <1>3, <1>5
  <2>1. n \in Nat /\ n \in 0..Len(s) /\ n + 1 \in 0..Len(s) /\ n + 1 \in 1..Len(s) /\ Good(n)
    BY <1>1, <1>3
  <2>2. f[n + 1] = IF s[n + 1] \in X THEN Append(f[n], s[n + 1]) ELSE f[n]
    <3>1. \A m \in 0..Len(s) :
            f[m] = IF m = 0 THEN <<>>
                   ELSE IF s[m] \in X THEN Append(f[m - 1], s[m]) ELSE f[m - 1]
      BY <1>2
    <3>2. n + 1 # 0 /\ (n + 1) - 1 = n
      BY <2>1
    <3> QED  BY <2>1, <3>1, <3>2
  <2>3. {s[i] : i \in 1..(n + 1)} = {s[i] : i \in 1..n} \cup {s[n + 1]}
    <3>1. 1..(n + 1) = 1..n \cup {n + 1}
      BY <2>1
    <3> QED  BY <3>1
  <2>4. s[n + 1] \in S
    BY <1>1, <2>1
  <2>5. CASE s[n + 1] \in X
    <3>1. f[n + 1] = Append(f[n], s[n + 1])
      BY <2>2, <2>5
    <3>2. f[n + 1] \in Seq(S) /\ W!Range(f[n + 1]) = W!Range(f[n]) \cup {s[n + 1]}
      BY <2>1, <2>4, <3>1, LAppended
    <3>3. W!IsInjective(s) => s[n + 1] \notin W!Range(f[n])
      BY <1>1, <2>1 DEF W!IsInjective
    <3>4. W!IsInjective(s) => W!IsInjective(f[n + 1])
      BY <2>1, <2>4, <3>1, <3>3, LAppended
    <3>5. W!Range(f[n + 1]) = {s[i] : i \in 1..(n + 1)} \cap X
      BY <2>1, <2>3, <2>5, <3>2
    <3> QED  BY <3>2, <3>4, <3>5
  <2>6. CASE s[n + 1] \notin X
    <3>1. f[n + 1] = f[n]
      BY <2>2, <2>6
    <3>2. W!Range(f[n + 1]) = {s[i] : i \in 1..(n + 1)} \cap X
      BY <2>1, <2>3, <2>6, <3>1
    <3> QED  BY <2>1, <3>1, <3>2
  <2> QED  BY <2>5, <2>6
<1>6. Good(Len(s))
  <2>1. T = Nat
    <3> HIDE DEF Good
    <3> QED  BY <1>3, <1>4, <1>5, Counting
  <2> HIDE DEF Good
  <2> QED  BY <1>1, <1>3, <2>1
<1>7. W!Range(s) = {s[i] : i \in 1..Len(s)}
  BY <1>1 DEF W!Range
<1> QED  BY <1>2, <1>6, <1>7

LEMMA LConcat ==
    ASSUME NEW S, NEW s \in Seq(S), NEW t \in Seq(S)
    PROVE  /\ s \o t \in Seq(S)
           /\ W!Range(s \o t) = W!Range(s) \cup W!Range(t)
           /\ W!IsInjective(s) /\ W!IsInjective(t) /\ W!Range(s) \cap W!Range(t) = {} =>
                W!IsInjective(s \o t)
<1>1. /\ s \o t \in Seq(S) /\ Len(s \o t) = Len(s) + Len(t)
      /\ \A i \in 1..(Len(s) + Len(t)) :
           (s \o t)[i] = IF i <= Len(s) THEN s[i] ELSE t[i - Len(s)]
  BY ConcatProperties
<1>2. PICK u : u = s \o t
  OBVIOUS
<1>3. /\ Len(s) \in Nat /\ Len(t) \in Nat /\ DOMAIN s = 1..Len(s) /\ DOMAIN t = 1..Len(t)
      /\ DOMAIN u = 1..(Len(s) + Len(t))
  BY <1>1, <1>2, LenProperties
<1>4. /\ \A i \in 1..Len(s) : i \in DOMAIN u /\ u[i] = s[i]
      /\ \A j \in 1..Len(t) : Len(s) + j \in DOMAIN u /\ u[Len(s) + j] = t[j]
  BY <1>1, <1>2, <1>3
<1>5. \A i \in DOMAIN u : \/ i \in 1..Len(s)
                          \/ \E j \in 1..Len(t) : i = Len(s) + j
  <2>1. ASSUME NEW i \in DOMAIN u, i \notin 1..Len(s) PROVE \E j \in 1..Len(t) : i = Len(s) + j
    <3>1. i - Len(s) \in 1..Len(t) /\ i = Len(s) + (i - Len(s))
      BY <1>3, <2>1
    <3> QED  BY <3>1
  <2> QED  BY <2>1
<1>6. /\ \A x : x \in W!Range(s) <=> \E i \in 1..Len(s) : s[i] = x
      /\ \A x : x \in W!Range(t) <=> \E j \in 1..Len(t) : t[j] = x
      /\ \A x : x \in W!Range(u) <=> \E k \in DOMAIN u : u[k] = x
  BY <1>3 DEF W!Range
<1>7. W!Range(u) = W!Range(s) \cup W!Range(t)
  <2>1. ASSUME NEW x \in W!Range(u) PROVE x \in W!Range(s) \cup W!Range(t)
    <3>1. PICK k \in DOMAIN u : u[k] = x
      BY <1>6, <2>1
    <3>2. CASE k \in 1..Len(s)
      <4>1. s[k] = x
        BY <1>4, <3>1, <3>2
      <4> QED  BY <1>6, <3>2, <4>1
    <3>3. CASE k \notin 1..Len(s)
      <4>1. PICK j \in 1..Len(t) : k = Len(s) + j
        BY <1>5, <3>1, <3>3
      <4>2. t[j] = x
        BY <1>4, <3>1, <4>1
      <4> QED  BY <1>6, <4>1, <4>2
    <3> QED  BY <3>2, <3>3
  <2>2. ASSUME NEW x \in W!Range(s) \cup W!Range(t) PROVE x \in W!Range(u)
    BY <1>4, <1>6, <2>2
  <2> QED  BY <2>1, <2>2
<1>8. ASSUME W!IsInjective(s), W!IsInjective(t), W!Range(s) \cap W!Range(t) = {},
             NEW i \in DOMAIN u, NEW j \in DOMAIN u, u[i] = u[j]
      PROVE  i = j
  <2>1. /\ \A k, l \in 1..Len(s) : s[k] = s[l] => k = l
        /\ \A k, l \in 1..Len(t) : t[k] = t[l] => k = l
    BY <1>3, <1>8 DEF W!IsInjective
  <2>2. \A k \in 1..Len(s), l \in 1..Len(t) : s[k] # t[l]
    BY <1>6, <1>8
  <2>3. CASE i \in 1..Len(s)
    BY <1>4, <1>5, <1>8, <2>1, <2>2, <2>3
  <2>4. CASE i \notin 1..Len(s)
    <3>1. PICK k \in 1..Len(t) : i = Len(s) + k
      BY <1>5, <2>4
    <3>2. u[i] = t[k]
      BY <1>4, <3>1
    <3>3. j \notin 1..Len(s)
      BY <1>4, <1>8, <2>2, <3>2
    <3>4. PICK l \in 1..Len(t) : j = Len(s) + l
      BY <1>5, <3>3
    <3>5. u[j] = t[l]
      BY <1>4, <3>4
    <3> QED  BY <1>8, <2>1, <3>1, <3>2, <3>4, <3>5
  <2> QED  BY <2>3, <2>4
<1>9. W!IsInjective(u) <=> \A i, j \in DOMAIN u : u[i] = u[j] => i = j
  BY DEF W!IsInjective
<1> QED  BY <1>1, <1>2, <1>7, <1>8, <1>9

LEMMA FlattenedUpTo ==
    ASSUME NEW ss, Len(ss) \in Nat, Len(ss) # 0
    PROVE  \E f : /\ f = [i \in 1..Len(ss) |-> IF i = 1 THEN ss[i] ELSE f[i - 1] \o ss[i]]
                  /\ W!FlattenSeq(ss) = f[Len(ss)]
<1> DEFINE Upto(k) == \E f : f = [i \in 1..k |-> IF i = 1 THEN ss[i] ELSE f[i - 1] \o ss[i]]
<1>1. PICK T : T = {k \in Nat : Upto(k)}
  OBVIOUS
<1>2. Upto(0)
  <2>1. PICK f : f = [i \in 1..0 |-> ss[i]]
    OBVIOUS
  <2>2. f = [i \in 1..0 |-> IF i = 1 THEN ss[i] ELSE f[i - 1] \o ss[i]]
    BY <2>1
  <2> QED  BY <2>2
<1>3. ASSUME NEW k \in Nat, Upto(k) PROVE Upto(k + 1)
  <2>1. PICK f : f = [i \in 1..k |-> IF i = 1 THEN ss[i] ELSE f[i - 1] \o ss[i]]
    BY <1>3
  <2>2. PICK g : g = [i \in 1..(k + 1) |->
                       IF i <= k THEN f[i] ELSE IF i = 1 THEN ss[i] ELSE f[k] \o ss[i]]
    OBVIOUS
  <2>3. ASSUME NEW i \in 1..(k + 1)
        PROVE  g[i] = IF i = 1 THEN ss[i] ELSE g[i - 1] \o ss[i]
    <3>1. CASE i <= k
      <4>1. i \in 1..k /\ g[i] = f[i] /\ (i # 1 => g[i - 1] = f[i - 1])
        BY <2>2, <3>1
      <4> QED  BY <2>1, <4>1
    <3>2. CASE i = k + 1
      <4>1. /\ g[i] = IF i = 1 THEN ss[i] ELSE f[k] \o ss[i]
            /\ i # 1 => g[i - 1] = f[k]
        BY <2>2, <3>2
      <4> QED  BY <4>1
    <3> QED  BY <3>1, <3>2
  <2>4. g = [i \in 1..(k + 1) |-> g[i]]
    BY <2>2
  <2>5. g = [i \in 1..(k + 1) |-> IF i = 1 THEN ss[i] ELSE g[i - 1] \o ss[i]]
    BY <2>3, <2>4
  <2> QED  BY <2>5
<1>4. T = Nat
  <2> HIDE DEF Upto
  <2>1. T \in SUBSET Nat /\ 0 \in T
    BY <1>1, <1>2
  <2>2. \A k \in T : k + 1 \in T
    BY <1>1, <1>3
  <2> QED  BY <2>1, <2>2, Counting
<1>5. Upto(Len(ss))
  <2> HIDE DEF Upto
  <2> QED  BY <1>1, <1>4
<1> QED  BY <1>5, Zenon DEF W!FlattenSeq

LEMMA FlattenedAre ==
    ASSUME NEW S, NEW ss \in Seq(Seq(S))
    PROVE  /\ W!FlattenSeq(ss) \in Seq(S)
           /\ W!Range(W!FlattenSeq(ss)) = UNION {W!Range(ss[i]) : i \in 1..Len(ss)}
           /\ /\ \A i \in 1..Len(ss) : W!IsInjective(ss[i])
              /\ \A i, j \in 1..Len(ss) : i # j => W!Range(ss[i]) \cap W!Range(ss[j]) = {}
              => W!IsInjective(W!FlattenSeq(ss))
<1>1. Len(ss) \in Nat /\ DOMAIN ss = 1..Len(ss) /\ \A i \in 1..Len(ss) : ss[i] \in Seq(S)
  BY LenProperties, ElementOfSeq
<1>2. CASE Len(ss) = 0
  <2>1. ss = <<>>
    BY <1>2, EmptySeq
  <2>2. W!FlattenSeq(ss) = <<>>
    BY <1>2, <2>1 DEF W!FlattenSeq
  <2>3. DOMAIN <<>> = {} /\ {W!Range(ss[i]) : i \in 1..0} = {}
    OBVIOUS
  <2>4. W!Range(<<>>) = {} /\ W!IsInjective(<<>>)
    BY <2>3 DEF W!Range, W!IsInjective
  <2> QED  BY <1>2, <2>2, <2>3, <2>4, EmptySeq
<1>3. CASE Len(ss) # 0
  <2>1. PICK f : /\ f = [i \in 1..Len(ss) |-> IF i = 1 THEN ss[i] ELSE f[i - 1] \o ss[i]]
                 /\ W!FlattenSeq(ss) = f[Len(ss)]
    BY <1>1, <1>3, FlattenedUpTo
  <2> DEFINE Apart == /\ \A i \in 1..Len(ss) : W!IsInjective(ss[i])
                      /\ \A i, j \in 1..Len(ss) : i # j => W!Range(ss[i]) \cap W!Range(ss[j]) = {}
             Good(n) == /\ f[n] \in Seq(S)
                        /\ W!Range(f[n]) = UNION {W!Range(ss[i]) : i \in 1..n}
                        /\ Apart => W!IsInjective(f[n])
  <2>2. PICK T : T = {n \in Nat : n + 1 <= Len(ss) => Good(n + 1)}
    OBVIOUS
  <2>3. 0 \in T
    <3>1. f[1] = ss[1]
      BY <1>1, <1>3, <2>1
    <3>2. 1 \in 1..Len(ss)
      BY <1>1, <1>3
    <3>3. {W!Range(ss[i]) : i \in 1..1} = {W!Range(ss[1])}
      <4>1. 1..1 = {1}
        OBVIOUS
      <4> QED  BY <4>1
    <3>4. Good(1)
      BY <1>1, <3>1, <3>2, <3>3
    <3> HIDE DEF Good
    <3> QED  BY <2>2, <3>4
  <2>4. ASSUME NEW m \in T PROVE m + 1 \in T
    <3>1. PICK n : n = m + 1
      OBVIOUS
    <3>2. m \in Nat /\ n \in Nat \ {0}
      BY <2>2, <3>1
    <3> SUFFICES ASSUME n + 1 <= Len(ss) PROVE Good(n + 1)
      BY <2>2, <3>1, <3>2
    <3>3. n \in 1..Len(ss) /\ n + 1 \in 1..Len(ss) /\ n + 1 # 1 /\ (n + 1) - 1 = n
      BY <1>1, <3>2
    <3>4. Good(n)
      <4> HIDE DEF Good
      <4> QED  BY <2>2, <3>1, <3>2, <3>3
    <3>5. f[n + 1] = f[n] \o ss[n + 1]
      <4>1. \A k \in 1..Len(ss) : f[k] = IF k = 1 THEN ss[k] ELSE f[k - 1] \o ss[k]
        BY <2>1
      <4> QED  BY <3>3, <4>1
    <3>6. ss[n + 1] \in Seq(S)
      BY <1>1, <3>3
    <3>7. f[n + 1] \in Seq(S) /\ W!Range(f[n + 1]) = W!Range(f[n]) \cup W!Range(ss[n + 1])
      BY <3>4, <3>5, <3>6, LConcat
    <3>8. 1..(n + 1) = 1..n \cup {n + 1}
      BY <3>2
    <3>9. {W!Range(ss[i]) : i \in 1..(n + 1)} = {W!Range(ss[i]) : i \in 1..n} \cup {W!Range(ss[n + 1])}
      BY <3>8
    <3>10. W!Range(f[n + 1]) = UNION {W!Range(ss[i]) : i \in 1..(n + 1)}
      BY <3>4, <3>7, <3>9
    <3>11. ASSUME Apart PROVE W!IsInjective(f[n + 1])
      <4>1. \A i \in 1..n : i \in 1..Len(ss) /\ i # n + 1
        BY <1>1, <3>2, <3>3
      <4>2. \A i \in 1..n : W!Range(ss[i]) \cap W!Range(ss[n + 1]) = {}
        BY <3>3, <3>11, <4>1
      <4>3. W!Range(f[n]) \cap W!Range(ss[n + 1]) = {}
        BY <3>4, <4>2
      <4>4. W!IsInjective(f[n]) /\ W!IsInjective(ss[n + 1])
        BY <3>3, <3>4, <3>11
      <4> QED  BY <3>4, <3>5, <3>6, <4>3, <4>4, LConcat
    <3> QED  BY <3>7, <3>10, <3>11
  <2>5. T = Nat
    <3> HIDE DEF Good
    <3>1. T \in SUBSET Nat
      BY <2>2
    <3> QED  BY <2>3, <2>4, <3>1, Counting
  <2>6. Good(Len(ss))
    <3> HIDE DEF Good
    <3>1. Len(ss) - 1 \in T /\ (Len(ss) - 1) + 1 = Len(ss)
      BY <1>1, <1>3, <2>5
    <3> QED  BY <1>1, <2>2, <3>1
  <2> QED  BY <2>1, <2>6
<1> QED  BY <1>2, <1>3

------------------------------------------------------------------------------
(* The workspaces *)

LEMMA WPrefix ==
    ASSUME NEW s \in Seq(STRING), NEW t \in Seq(STRING)
    PROVE  W!IsStrictPrefix(s, t) <=>
             Len(s) < Len(t) /\ \A i \in 1..Len(s) : s[i] = t[i]
<1>1. /\ Len(s) \in Nat /\ Len(t) \in Nat
      /\ \A i \in 1..Len(s) : s[i] \in STRING
      /\ \A i \in 1..Len(t) : t[i] \in STRING
  BY LenProperties, ElementOfSeq
<1>2. CASE Len(s) <= Len(t)
  <2>1. /\ SubSeq(s, 1, Len(s)) \in Seq(STRING) /\ Len(SubSeq(s, 1, Len(s))) = Len(s)
        /\ \A i \in 1..Len(s) : SubSeq(s, 1, Len(s))[i] = s[i]
    BY <1>1, SubSeqProperties
  <2>2. /\ SubSeq(t, 1, Len(s)) \in Seq(STRING) /\ Len(SubSeq(t, 1, Len(s))) = Len(s)
        /\ \A i \in 1..Len(s) : SubSeq(t, 1, Len(s))[i] = t[i]
    BY <1>1, <1>2, SubSeqProperties
  <2>3. SubSeq(s, 1, Len(s)) = SubSeq(t, 1, Len(s)) <=> \A i \in 1..Len(s) : s[i] = t[i]
    BY <2>1, <2>2, SeqEqual
  <2>4. Len(s) = Len(t) /\ (\A i \in 1..Len(s) : s[i] = t[i]) => s = t
    BY SeqEqual
  <2> QED
    BY <1>1, <1>2, <2>3, <2>4 DEF W!IsStrictPrefix, W!IsPrefix
<1>3. CASE ~(Len(s) <= Len(t))
  BY <1>1, <1>3 DEF W!IsStrictPrefix, W!IsPrefix
<1> QED  BY <1>2, <1>3

LEMMA WPrefixOfPrefix ==
    ASSUME NEW r \in Seq(STRING), NEW s \in Seq(STRING), NEW t \in Seq(STRING),
           W!IsStrictPrefix(r, s), W!IsStrictPrefix(s, t)
    PROVE  W!IsStrictPrefix(r, t)
<1>1. Len(r) \in Nat /\ Len(s) \in Nat /\ Len(t) \in Nat
  BY LenProperties
<1> QED  BY <1>1, WPrefix

LEMMA WPair ==
    ASSUME NEW S, NEW x \in S, NEW y \in S
    PROVE  <<x, y>> \in Seq(S) /\ Len(<<x, y>>) = 2
OBVIOUS

LEMMA WConcat ==
    ASSUME NEW d \in W!Dirs, NEW e \in Seq(STRING), Len(e) = 2
    PROVE  d \o e \in W!Dirs /\ W!IsStrictPrefix(d, d \o e)
<1>1. d \in Seq(STRING) /\ Len(d) \in Nat
  BY LenProperties DEF W!Dirs
<1>2. /\ d \o e \in Seq(STRING) /\ Len(d \o e) = Len(d) + 2
      /\ \A i \in 1..Len(d) : (d \o e)[i] = d[i]
  BY <1>1, ConcatProperties
<1>3. d \o e # <<>>
  BY <1>1, <1>2, EmptySeq
<1>4. Len(d) < Len(d \o e)
  BY <1>1, <1>2
<1>5. W!IsStrictPrefix(d, d \o e)
  BY <1>1, <1>2, <1>4, WPrefix
<1> QED  BY <1>2, <1>3, <1>5 DEF W!Dirs

\* The directories of the layout are below the one they are laid out in.
LEMMA WBelowIt ==
    ASSUME NEW d \in W!Dirs, NEW x \in STRING, NEW y \in STRING
    PROVE  d \o <<x, y>> \in W!Dirs /\ W!IsStrictPrefix(d, d \o <<x, y>>)
<1>1. PICK e : e = <<x, y>>
  OBVIOUS
<1>2. e \in Seq(STRING) /\ Len(e) = 2
  BY <1>1, WPair
<1>3. d \o e \in W!Dirs /\ W!IsStrictPrefix(d, d \o e)
  BY <1>2, WConcat
<1> QED  BY <1>1, <1>3, Zenon

LEMMA WCreated ==
    ASSUME NEW S, NEW s \in Seq(S), NEW e \in S
    PROVE  /\ W!CreateOrGet(s, e) \in Seq(S)
           /\ W!Range(W!CreateOrGet(s, e)) = W!Range(s) \cup {e}
BY LAppended DEF W!CreateOrGet

WRuns == [dir : W!Dirs, params : Params, status : Statuses \cup {"pending"}]

LEMMA WInRange ==
    ASSUME NEW S, NEW s \in Seq(S)
    PROVE  W!Range(s) \subseteq S
BY LenProperties, ElementOfSeq DEF W!Range

WBelow(d) == \E root \in W!Range(wMade) : W!IsStrictPrefix(root, d)

WTree ==
    /\ wSession \in W!Dirs \cup {None}
    /\ wMade \in Seq(W!Dirs) /\ wFolders \in Seq(W!Dirs) /\ wRuns \in Seq(WRuns)
    /\ \A d \in W!Range(wFolders) \cup W!RunDirs : d \in W!Dirs /\ WBelow(d)
WCalls ==
    /\ wCall = [s \in Servers |-> wCall[s]]
    /\ \A s \in Servers : W!Doing(s, "ingest") => "tool" \in DOMAIN wCall[s]
    /\ \A s \in Servers : W!Doing(s, "materialize") => wCall[s].dir \in W!Dirs

\* Every directory of a layout is below a workspace.
WInv == WTree /\ WCalls

LEMMA WInit == W!Init => WInv
<1> SUFFICES ASSUME W!Init PROVE WInv
  OBVIOUS
<1>1. /\ wSession \in W!Dirs \cup {None}
      /\ wMade = <<>> /\ wFolders = <<>> /\ wRuns = <<>>
      /\ wCall = [s \in Servers |-> None]
  BY WorkspaceParts DEF W!Init, W!WorkspaceAssumption
<1>2. \A S : <<>> \in Seq(S)
  BY EmptySeq
<1>3. W!Range(<<>>) = {}
  BY DEF W!Range
<1>4. W!Range(wFolders) = {} /\ W!RunDirs = {}
  BY <1>1, <1>3 DEF W!RunDirs
<1>5. WTree
  BY <1>1, <1>2, <1>4 DEF WTree
<1>6. WCalls
  BY <1>1 DEF WCalls, W!Doing
<1> QED  BY <1>5, <1>6 DEF WInv

LEMMA WTreeKept ==
    ASSUME WTree, UNCHANGED <<wSession, wMade, wFolders, wRuns>>
    PROVE  WTree'
<1>1. /\ (W!Range(wMade))' = W!Range(wMade) /\ (W!Range(wFolders))' = W!Range(wFolders)
      /\ (W!Range(wRuns))' = W!Range(wRuns)
  BY DEF W!Range
<1>2. (W!RunDirs)' = W!RunDirs
  BY <1>1 DEF W!RunDirs
<1>3. \A d : WBelow(d) => WBelow(d)'
  BY <1>1 DEF WBelow, W!IsStrictPrefix, W!IsPrefix
<1>4. WTree'
  BY <1>1, <1>2, <1>3 DEF WTree
<1> QED  BY <1>4

LEMMA WTreeGrows ==
    ASSUME WTree, UNCHANGED wSession, W!Range(wMade) \subseteq (W!Range(wMade))',
           wMade' \in Seq(W!Dirs), wFolders' \in Seq(W!Dirs), wRuns' \in Seq(WRuns),
           \A d \in (W!Range(wFolders) \cup W!RunDirs)' :
             \/ d \in W!Range(wFolders) \cup W!RunDirs
             \/ d \in W!Dirs /\ \E root \in (W!Range(wMade))' : W!IsStrictPrefix(root, d)
    PROVE  WTree'
<1>1. \A d \in W!Range(wFolders) \cup W!RunDirs :
        d \in W!Dirs /\ \E root \in (W!Range(wMade))' : W!IsStrictPrefix(root, d)
  BY DEF WTree, WBelow
<1>2. \A d \in (W!Range(wFolders) \cup W!RunDirs)' :
        d \in W!Dirs /\ \E root \in (W!Range(wMade))' : W!IsStrictPrefix(root, d)
  BY <1>1
<1>3. \A d \in (W!Range(wFolders) \cup W!RunDirs)' : d \in W!Dirs /\ WBelow(d)'
  BY <1>2 DEF WBelow, W!IsStrictPrefix, W!IsPrefix
<1> QED  BY <1>3 DEF WTree

LEMMA WCallsKept ==
    ASSUME WCalls, UNCHANGED wCall
    PROVE  WCalls'
BY DEF WCalls, W!Doing

\* A server begins a call, goes on with it or ends it.
LEMMA WCallSet ==
    ASSUME WCalls, NEW s \in Servers, NEW c, wCall' = [wCall EXCEPT ![s] = c],
           c # None /\ c.tool = "ingest" => "tool" \in DOMAIN c,
           c # None /\ c.tool = "materialize" => c.dir \in W!Dirs
    PROVE  WCalls'
<1>1. /\ wCall' = [t \in Servers |-> wCall'[t]] /\ wCall'[s] = c
      /\ \A t \in Servers \ {s} : wCall'[t] = wCall[t]
  BY DEF WCalls
<1>2. \A t \in Servers \ {s} : \A tool : W!Doing(t, tool)' <=> W!Doing(t, tool)
  BY <1>1 DEF W!Doing
<1>3. \A tool : W!Doing(s, tool)' <=> c # None /\ c.tool = tool
  BY <1>1 DEF W!Doing
<1>4. ASSUME NEW t \in Servers, W!Doing(t, "ingest")' PROVE "tool" \in DOMAIN wCall'[t]
  BY <1>1, <1>2, <1>3, <1>4 DEF WCalls
<1>5. ASSUME NEW t \in Servers, W!Doing(t, "materialize")' PROVE wCall'[t].dir \in W!Dirs
  BY <1>1, <1>2, <1>3, <1>5 DEF WCalls
<1> QED  BY <1>1, <1>4, <1>5 DEF WCalls

LEMMA WBeginMaterialize ==
    ASSUME WInv, NEW s \in Servers, NEW dir \in Places, W!BeginMaterialize(s, dir)
    PROVE  WInv'
<1>1. PICK c : c = [tool |-> "materialize", dir |-> dir]
  OBVIOUS
<1>2. /\ wCall' = [wCall EXCEPT ![s] = c]
      /\ UNCHANGED <<wSession, wMade, wFolders, wRuns>>
  BY <1>1 DEF W!BeginMaterialize
<1>3. WTree'
  BY <1>2, WTreeKept DEF WInv
<1>4. dir \in W!Dirs
  BY WorkspaceParts DEF W!WorkspaceAssumption
<1>5. c.tool = "materialize" /\ c.dir = dir
  BY <1>1
<1>6. WCalls'
  BY <1>2, <1>4, <1>5, WCallSet DEF WInv
<1> QED  BY <1>3, <1>6 DEF WInv

LEMMA WEndMaterialize ==
    ASSUME WInv, NEW s \in Servers, W!EndMaterialize(s)
    PROVE  WInv'
<1>1. PICK dir : dir = wCall[s].dir
  OBVIOUS
<1>2. /\ wMade' = W!CreateOrGet(wMade, dir) /\ wCall' = [wCall EXCEPT ![s] = None]
      /\ UNCHANGED <<wSession, wFolders, wRuns>> /\ W!Doing(s, "materialize")
  BY <1>1 DEF W!EndMaterialize
<1>3. dir \in W!Dirs
  BY <1>1, <1>2 DEF WInv, WCalls
<1>4. wMade' \in Seq(W!Dirs) /\ (W!Range(wMade))' = W!Range(wMade) \cup {dir}
  <2>1. W!CreateOrGet(wMade, dir) \in Seq(W!Dirs)
        /\ W!Range(W!CreateOrGet(wMade, dir)) = W!Range(wMade) \cup {dir}
    BY <1>3, WCreated DEF WInv, WTree
  <2> QED  BY <1>2, <2>1 DEF W!Range
<1>5. WTree'
  <2>1. (W!Range(wFolders) \cup W!RunDirs)' = W!Range(wFolders) \cup W!RunDirs
    BY <1>2 DEF W!Range, W!RunDirs
  <2>2. wFolders' \in Seq(W!Dirs) /\ wRuns' \in Seq(WRuns)
    BY <1>2 DEF WInv, WTree
  <2> QED  BY <1>2, <1>4, <2>1, <2>2, WTreeGrows DEF WInv
<1>6. WCalls'
  BY <1>2, WCallSet DEF WInv
<1> QED  BY <1>5, <1>6 DEF WInv

\* The workspace of a call that names none.
LEMMA WMeant ==
    ASSUME WInv, NEW s \in Servers, NEW root, root = W!Meant(s, None), root # None
    PROVE  root \in W!Dirs
<1>1. CASE wSession # None
  BY <1>1 DEF WInv, WTree, W!Meant
<1>2. CASE wSession = None
  <2>1. root = Cwd(s) /\ W!Marked(Cwd(s))
    BY <1>2 DEF W!Meant
  <2>2. Cwd(s) \in W!Dirs
    BY WorkspaceParts DEF W!WorkspaceAssumption
  <2> QED  BY <2>1, <2>2 DEF WInv, WTree, W!Marked, W!IsRoot
<1> QED  BY <1>1, <1>2

LEMMA WNames == "projects" \in STRING /\ "experiments" \in STRING /\ "runs" \in STRING
BY WorkspaceParts DEF W!WorkspaceAssumption

LEMMA WAddProject ==
    ASSUME WInv, NEW s \in Servers, NEW p \in Projects, W!AddProject(s, None, p)
    PROVE  WInv'
<1>1. PICK root : root = W!Meant(s, None)
  OBVIOUS
<1>2. PICK d : d = W!ProjectDir(root, p)
  OBVIOUS
<1>3. /\ root # None /\ wMade' = W!CreateOrGet(wMade, root)
      /\ wFolders' = W!CreateOrGet(wFolders, d)
      /\ UNCHANGED <<wSession, wRuns, wCall>>
  BY <1>1, <1>2 DEF W!AddProject
<1>4. root \in W!Dirs
  BY <1>1, <1>3, WMeant
<1>5. d \in W!Dirs /\ W!IsStrictPrefix(root, d)
  <2>1. p \in STRING
    BY WorkspaceParts DEF W!WorkspaceAssumption
  <2> QED  BY <1>2, <1>4, <2>1, WNames, WBelowIt DEF W!ProjectDir
<1>6. wMade' \in Seq(W!Dirs) /\ (W!Range(wMade))' = W!Range(wMade) \cup {root}
  <2>1. W!CreateOrGet(wMade, root) \in Seq(W!Dirs)
        /\ W!Range(W!CreateOrGet(wMade, root)) = W!Range(wMade) \cup {root}
    BY <1>4, WCreated DEF WInv, WTree
  <2> QED  BY <1>3, <2>1 DEF W!Range
<1>7. wFolders' \in Seq(W!Dirs) /\ (W!Range(wFolders))' = W!Range(wFolders) \cup {d}
  <2>1. W!CreateOrGet(wFolders, d) \in Seq(W!Dirs)
        /\ W!Range(W!CreateOrGet(wFolders, d)) = W!Range(wFolders) \cup {d}
    BY <1>5, WCreated DEF WInv, WTree
  <2> QED  BY <1>3, <2>1 DEF W!Range
<1>8. WTree'
  <2>1. (W!RunDirs)' = W!RunDirs
    BY <1>3 DEF W!RunDirs, W!Range
  <2>2. wRuns' \in Seq(WRuns)
    BY <1>3 DEF WInv, WTree
  <2>3. ASSUME NEW e \in (W!Range(wFolders) \cup W!RunDirs)'
        PROVE  \/ e \in W!Range(wFolders) \cup W!RunDirs
               \/ e \in W!Dirs /\ \E r \in (W!Range(wMade))' : W!IsStrictPrefix(r, e)
    BY <1>5, <1>6, <1>7, <2>1
  <2> QED  BY <1>3, <1>6, <1>7, <2>2, <2>3, WTreeGrows DEF WInv
<1>9. WCalls'
  BY <1>3, WCallsKept DEF WInv
<1> QED  BY <1>8, <1>9 DEF WInv

\* A directory in one of a layout is one of the layout.
LEMMA WDeeper ==
    ASSUME WTree, NEW d \in W!Range(wFolders), NEW x \in STRING, NEW y \in STRING
    PROVE  d \o <<x, y>> \in W!Dirs /\ WBelow(d \o <<x, y>>)
<1>1. d \in W!Dirs
  BY DEF WTree
<1>2. PICK root \in W!Range(wMade) : W!IsStrictPrefix(root, d)
  BY DEF WTree, WBelow
<1>3. PICK e : e = d \o <<x, y>>
  OBVIOUS
<1>4. e \in W!Dirs /\ W!IsStrictPrefix(d, e)
  BY <1>1, <1>3, WBelowIt
<1>5. root \in W!Dirs
  BY WInRange DEF WTree
<1>6. W!IsStrictPrefix(root, e)
  BY <1>1, <1>2, <1>4, <1>5, WPrefixOfPrefix DEF W!Dirs
<1> QED  BY <1>2, <1>3, <1>4, <1>6, Zenon DEF WBelow

LEMMA WAddExperiment ==
    ASSUME WInv, NEW s \in Servers, NEW p \in Projects, NEW e \in Experiments,
           W!AddExperiment(s, None, p, e)
    PROVE  WInv'
<1>1. PICK d : d = W!ProjectDir(W!Meant(s, None), p)
  OBVIOUS
<1>2. PICK x : x = W!ExperimentDir(W!Meant(s, None), p, e)
  OBVIOUS
<1>3. /\ d \in W!Range(wFolders) /\ wFolders' = W!CreateOrGet(wFolders, x)
      /\ UNCHANGED <<wSession, wMade, wRuns, wCall>>
  BY <1>1, <1>2 DEF W!AddExperiment
<1>4. x \in W!Dirs /\ WBelow(x)
  <2>1. e \in STRING
    BY WorkspaceParts DEF W!WorkspaceAssumption
  <2>2. x = d \o <<"experiments", e>>
    BY <1>1, <1>2, Zenon DEF W!ExperimentDir
  <2> QED  BY <1>3, <2>1, <2>2, WNames, WDeeper DEF WInv
<1>5. wFolders' \in Seq(W!Dirs) /\ (W!Range(wFolders))' = W!Range(wFolders) \cup {x}
  <2>1. W!CreateOrGet(wFolders, x) \in Seq(W!Dirs)
        /\ W!Range(W!CreateOrGet(wFolders, x)) = W!Range(wFolders) \cup {x}
    BY <1>4, WCreated DEF WInv, WTree
  <2> QED  BY <1>3, <2>1 DEF W!Range
<1>6. WTree'
  <2>1. (W!RunDirs)' = W!RunDirs /\ (W!Range(wMade))' = W!Range(wMade)
    BY <1>3 DEF W!RunDirs, W!Range
  <2>2. wRuns' \in Seq(WRuns) /\ wMade' \in Seq(W!Dirs)
    BY <1>3 DEF WInv, WTree
  <2>3. ASSUME NEW f \in (W!Range(wFolders) \cup W!RunDirs)'
        PROVE  \/ f \in W!Range(wFolders) \cup W!RunDirs
               \/ f \in W!Dirs /\ \E r \in (W!Range(wMade))' : W!IsStrictPrefix(r, f)
    BY <1>4, <1>5, <2>1 DEF WBelow
  <2> QED  BY <1>3, <1>5, <2>1, <2>2, <2>3, WTreeGrows DEF WInv
<1>7. WCalls'
  BY <1>3, WCallsKept DEF WInv
<1> QED  BY <1>6, <1>7 DEF WInv

LEMMA WCreateRun ==
    ASSUME WInv, NEW s \in Servers, NEW p \in Projects, NEW e \in Experiments,
           NEW params \in Params, W!CreateRun(s, None, p, e, params)
    PROVE  WInv'
<1>1. PICK x : x = W!ExperimentDir(W!Meant(s, None), p, e)
  OBVIOUS
<1>2. /\ x \in W!Range(wFolders) /\ W!AddRun(x, params)
      /\ UNCHANGED <<wSession, wMade, wFolders, wCall>>
  BY <1>1 DEF W!CreateRun
<1>3. CASE UNCHANGED wRuns
  <2>1. WTree'
    BY <1>2, <1>3, WTreeKept DEF WInv
  <2>2. WCalls'
    BY <1>2, WCallsKept DEF WInv
  <2> QED  BY <2>1, <2>2 DEF WInv
<1>4. ASSUME NEW id \in RunIds,
             wRuns' = Append(wRuns, [dir |-> W!RunDir(x, id), params |-> params,
                                     status |-> "pending"])
      PROVE  WInv'
  <2>1. PICK d : d = W!RunDir(x, id)
    OBVIOUS
  <2>2. d \in W!Dirs /\ WBelow(d)
    <3>1. id \in STRING
      BY WorkspaceParts DEF W!WorkspaceAssumption
    <3> QED  BY <1>2, <2>1, <3>1, WNames, WDeeper DEF WInv, W!RunDir
  <2>3. PICK r : r = [dir |-> d, params |-> params, status |-> "pending"]
    OBVIOUS
  <2>4. r \in WRuns /\ r.dir = d
    BY <2>2, <2>3 DEF WRuns
  <2>5. wRuns' = Append(wRuns, r)
    BY <1>4, <2>1, <2>3
  <2>6. wRuns' \in Seq(WRuns) /\ (W!Range(wRuns))' = W!Range(wRuns) \cup {r}
    <3>1. Append(wRuns, r) \in Seq(WRuns)
          /\ W!Range(Append(wRuns, r)) = W!Range(wRuns) \cup {r}
      BY <2>4, LAppended DEF WInv, WTree
    <3> QED  BY <2>5, <3>1 DEF W!Range
  <2>7. (W!RunDirs)' = W!RunDirs \cup {d}
    BY <2>4, <2>6 DEF W!RunDirs
  <2>8. (W!Range(wFolders))' = W!Range(wFolders) /\ (W!Range(wMade))' = W!Range(wMade)
    BY <1>2 DEF W!Range
  <2>9. WTree'
    <3>1. wFolders' \in Seq(W!Dirs) /\ wMade' \in Seq(W!Dirs)
      BY <1>2 DEF WInv, WTree
    <3>2. ASSUME NEW f \in (W!Range(wFolders) \cup W!RunDirs)'
          PROVE  \/ f \in W!Range(wFolders) \cup W!RunDirs
                 \/ f \in W!Dirs /\ \E root \in (W!Range(wMade))' : W!IsStrictPrefix(root, f)
      BY <2>2, <2>7, <2>8 DEF WBelow
    <3> QED  BY <1>2, <2>6, <2>8, <3>1, <3>2, WTreeGrows DEF WInv
  <2>10. WCalls'
    BY <1>2, WCallsKept DEF WInv
  <2> QED  BY <2>9, <2>10 DEF WInv
<1> QED  BY <1>2, <1>3, <1>4 DEF W!AddRun

\* Whatever drives a run, it stays where it is.
LEMMA WAdvance == ASSUME WInv, W!Advance PROVE WInv'
<1>1. PICK n \in DOMAIN wRuns, status \in Statuses \ {"pending"} :
        wRuns' = [wRuns EXCEPT ![n].status = status]
  BY DEF W!Advance
<1>2. UNCHANGED <<wSession, wMade, wFolders, wCall>>
  BY DEF W!Advance
<1>3. wRuns \in Seq(WRuns) /\ n \in 1..Len(wRuns) /\ DOMAIN wRuns = 1..Len(wRuns)
  BY <1>1, LenProperties DEF WInv, WTree
<1>4. PICK r : r = [wRuns[n] EXCEPT !.status = status]
  OBVIOUS
<1>5. wRuns[n] \in WRuns
  BY <1>3, ElementOfSeq
<1>6. r \in WRuns /\ r.dir = wRuns[n].dir
  BY <1>4, <1>5 DEF WRuns
<1>7. wRuns' = [wRuns EXCEPT ![n] = r]
  BY <1>1, <1>4
<1>8. /\ wRuns' \in Seq(WRuns) /\ Len(wRuns') = Len(wRuns)
      /\ \A m \in 1..Len(wRuns) : wRuns'[m] = IF m = n THEN r ELSE wRuns[m]
  BY <1>3, <1>6, <1>7, ExceptSeq
<1>9. DOMAIN wRuns' = 1..Len(wRuns)
  BY <1>8, LenProperties
<1>10. (W!RunDirs)' = W!RunDirs
  <2>1. \A d : d \in W!RunDirs <=> \E m \in 1..Len(wRuns) : d = wRuns[m].dir
    BY <1>3 DEF W!RunDirs, W!Range
  <2>2. \A d : d \in (W!RunDirs)' <=> \E m \in 1..Len(wRuns) : d = wRuns'[m].dir
    BY <1>9 DEF W!RunDirs, W!Range
  <2>3. \A m \in 1..Len(wRuns) : wRuns'[m].dir = wRuns[m].dir
    BY <1>6, <1>8
  <2> QED  BY <2>1, <2>2, <2>3
<1>11. (W!Range(wFolders))' = W!Range(wFolders) /\ (W!Range(wMade))' = W!Range(wMade)
  BY <1>2 DEF W!Range
<1>12. WTree'
  <2>1. wFolders' \in Seq(W!Dirs) /\ wMade' \in Seq(W!Dirs)
    BY <1>2 DEF WInv, WTree
  <2> QED  BY <1>2, <1>8, <1>10, <1>11, <2>1, WTreeGrows DEF WInv
<1>13. WCalls'
  BY <1>2, WCallsKept DEF WInv
<1> QED  BY <1>12, <1>13 DEF WInv

\* A call of ingest_metrics makes no directory.
LEMMA WIngest ==
    ASSUME WInv, NEW s \in Servers,
           \/ \E dir : W!BeginIngest(s, dir)
           \/ \E failed, writes \in BOOLEAN : W!IngestNext(s, failed, writes)
           \/ W!EndIngest(s)
    PROVE  WInv'
<1>1. UNCHANGED <<wSession, wMade, wFolders, wRuns>>
  BY DEF W!BeginIngest, W!IngestNext, W!EndIngest
<1>2. WTree'
  BY <1>1, WTreeKept DEF WInv
<1>3. CASE W!EndIngest(s)
  <2>1. wCall' = [wCall EXCEPT ![s] = None]
    BY <1>3 DEF W!EndIngest
  <2>2. WCalls'
    BY <2>1, WCallSet DEF WInv
  <2> QED  BY <1>2, <2>2 DEF WInv
<1>4. ASSUME ~W!EndIngest(s)
      PROVE  \E c : /\ wCall' = [wCall EXCEPT ![s] = c]
                    /\ "tool" \in DOMAIN c /\ c.tool = "ingest"
  <2>1. CASE \E dir : W!BeginIngest(s, dir)
    <3>1. PICK dir : W!BeginIngest(s, dir)
      BY <2>1
    <3>2. PICK c : c = [tool |-> "ingest", dir |-> dir, n |-> wIngests',
                        todo |-> W!Targets(dir), runs |-> W!Targets(dir),
                        results |-> {}, problems |-> {}]
      OBVIOUS
    <3>3. "tool" \in DOMAIN c /\ c.tool = "ingest"
      BY <3>2
    <3>4. wCall' = [wCall EXCEPT ![s] = c]
      BY <3>1, <3>2 DEF W!BeginIngest
    <3> QED  BY <3>3, <3>4
  <2>2. CASE \E failed, writes \in BOOLEAN : W!IngestNext(s, failed, writes)
    <3>1. PICK failed \in BOOLEAN, writes \in BOOLEAN : W!IngestNext(s, failed, writes)
      BY <2>2
    <3>2. wCall[s].tool = "ingest" /\ "tool" \in DOMAIN wCall[s]
      BY <3>1 DEF WInv, WCalls, W!IngestNext, W!Doing
    <3>3. PICK c : c = W!Ingested(wCall[s], failed)
      OBVIOUS
    <3>4. "tool" \in DOMAIN c /\ c.tool = "ingest"
      BY <3>2, <3>3 DEF W!Ingested
    <3>5. wCall' = [wCall EXCEPT ![s] = c]
      BY <3>1, <3>3 DEF W!IngestNext
    <3> QED  BY <3>4, <3>5
  <2> QED  BY <1>4, <2>1, <2>2
<1>5. ASSUME ~W!EndIngest(s) PROVE WInv'
  <2>1. PICK c : /\ wCall' = [wCall EXCEPT ![s] = c]
                 /\ "tool" \in DOMAIN c /\ c.tool = "ingest"
    BY <1>4, <1>5
  <2>2. WCalls'
    BY <2>1, WCallSet DEF WInv
  <2> QED  BY <1>2, <2>2 DEF WInv
<1> QED  BY <1>3, <1>5

LEMMA WStep == WInv /\ [W!Next]_(W!vars) => WInv'
<1> SUFFICES ASSUME WInv, [W!Next]_(W!vars) PROVE WInv'
  OBVIOUS
<1>1. CASE UNCHANGED W!vars
  <2>1. UNCHANGED <<wSession, wMade, wFolders, wRuns, wCall>>
    BY <1>1 DEF W!vars
  <2>2. WTree'
    BY <2>1, WTreeKept DEF WInv
  <2>3. WCalls'
    BY <2>1, WCallsKept DEF WInv
  <2> QED  BY <2>2, <2>3 DEF WInv
<1>2. CASE W!Next
  BY <1>2, WBeginMaterialize, WEndMaterialize, WAddProject, WAddExperiment, WCreateRun, WAdvance,
     WIngest DEF W!Next
<1> QED  BY <1>1, <1>2

------------------------------------------------------------------------------
(* What ingest_metrics tells *)

\* A layout has a directory once.
WDistinct ==
    /\ W!IsInjective(wFolders)
    /\ \A m, n \in DOMAIN wRuns : wRuns[m].dir = wRuns[n].dir => m = n

\* The runs of a call are the ones it has told of and the ones it has not yet.
WTells(c) ==
    /\ {"tool", "n", "todo", "runs", "results", "problems"} \subseteq DOMAIN c
    /\ c.todo \in Seq(W!Dirs) /\ W!IsInjective(c.todo)
    /\ c.results \cup c.problems \cup W!Range(c.todo) = W!Range(c.runs)
    /\ c.results \cap c.problems = {} /\ (c.results \cup c.problems) \cap W!Range(c.todo) = {}
    /\ \A dir \in c.results : <<dir, c.n>> \in wCurves
WTold ==
    /\ \A s \in Servers : W!Doing(s, "ingest") => WTells(wCall[s])
    /\ wAnswer # None => WTells(wAnswer) /\ wAnswer.todo = <<>>

LEMMA WCreatedOnce ==
    ASSUME NEW S, NEW s \in Seq(S), NEW e \in S, W!IsInjective(s)
    PROVE  W!IsInjective(W!CreateOrGet(s, e))
BY LAppended DEF W!CreateOrGet

LEMMA WDistinctStep == WInv /\ WDistinct /\ [W!Next]_(W!vars) => WDistinct'
<1> SUFFICES ASSUME WInv, WDistinct, [W!Next]_(W!vars) PROVE WDistinct'
  OBVIOUS
<1>1. ASSUME NEW d \in W!Dirs, wFolders' = W!CreateOrGet(wFolders, d), UNCHANGED wRuns
      PROVE  WDistinct'
  <2>1. W!IsInjective(W!CreateOrGet(wFolders, d))
    BY WCreatedOnce DEF WInv, WTree, WDistinct
  <2> QED  BY <1>1, <2>1 DEF WDistinct, W!IsInjective
<1>2. ASSUME UNCHANGED <<wFolders, wRuns>> PROVE WDistinct'
  BY <1>2 DEF WDistinct, W!IsInjective
<1>3. ASSUME NEW s \in Servers, NEW p \in Projects, W!AddProject(s, None, p) PROVE WDistinct'
  <2>1. PICK d : d = W!ProjectDir(W!Meant(s, None), p)
    OBVIOUS
  <2>2. d \in W!Dirs
    <3>1. W!Meant(s, None) \in W!Dirs
      BY <1>3, WMeant DEF W!AddProject
    <3>2. p \in STRING
      BY WorkspaceParts DEF W!WorkspaceAssumption
    <3> QED  BY <2>1, <3>1, <3>2, WNames, WBelowIt DEF W!ProjectDir
  <2> QED  BY <1>1, <1>3, <2>1, <2>2 DEF W!AddProject
<1>4. ASSUME NEW s \in Servers, NEW p \in Projects, NEW e \in Experiments,
             W!AddExperiment(s, None, p, e)
      PROVE  WDistinct'
  <2>1. PICK d : d = W!ProjectDir(W!Meant(s, None), p)
    OBVIOUS
  <2>2. PICK x : x = W!ExperimentDir(W!Meant(s, None), p, e)
    OBVIOUS
  <2>3. d \in W!Range(wFolders) /\ wFolders' = W!CreateOrGet(wFolders, x) /\ UNCHANGED wRuns
    BY <1>4, <2>1, <2>2 DEF W!AddExperiment
  <2>4. x \in W!Dirs
    <3>1. e \in STRING
      BY WorkspaceParts DEF W!WorkspaceAssumption
    <3>2. x = d \o <<"experiments", e>>
      BY <2>1, <2>2, Zenon DEF W!ExperimentDir
    <3> QED  BY <2>3, <3>1, <3>2, WNames, WDeeper DEF WInv
  <2> QED  BY <1>1, <2>3, <2>4
<1>5. ASSUME NEW s \in Servers, NEW p \in Projects, NEW e \in Experiments, NEW params \in Params,
             W!CreateRun(s, None, p, e, params)
      PROVE  WDistinct'
  <2>1. PICK x : x = W!ExperimentDir(W!Meant(s, None), p, e)
    OBVIOUS
  <2>2. x \in W!Range(wFolders) /\ W!AddRun(x, params) /\ UNCHANGED wFolders
    BY <1>5, <2>1 DEF W!CreateRun
  <2>3. CASE UNCHANGED wRuns
    BY <1>2, <2>2, <2>3
  <2>4. ASSUME NEW id \in RunIds, W!RunDir(x, id) \notin W!RunDirs,
               wRuns' = Append(wRuns, [dir |-> W!RunDir(x, id), params |-> params,
                                       status |-> "pending"])
        PROVE  WDistinct'
    <3>1. PICK r : r = [dir |-> W!RunDir(x, id), params |-> params, status |-> "pending"]
      OBVIOUS
    <3>2. r \in WRuns
      <4>1. id \in STRING
        BY WorkspaceParts DEF W!WorkspaceAssumption
      <4>2. W!RunDir(x, id) \in W!Dirs
        BY <2>2, <4>1, WNames, WDeeper DEF WInv, W!RunDir
      <4> QED  BY <3>1, <4>2 DEF WRuns
    <3>3. wRuns \in Seq(WRuns) /\ wRuns' = Append(wRuns, r)
      BY <2>4, <3>1 DEF WInv, WTree
    <3>4. /\ Len(wRuns) \in Nat /\ DOMAIN wRuns = 1..Len(wRuns)
          /\ DOMAIN wRuns' = 1..(Len(wRuns) + 1)
          /\ \A i \in 1..Len(wRuns) : wRuns'[i] = wRuns[i]
          /\ wRuns'[Len(wRuns) + 1] = r
      BY <3>2, <3>3, AppendProperties, LenProperties
    <3>5. \A i \in 1..Len(wRuns) : wRuns[i].dir # r.dir
      BY <2>4, <3>1, <3>4 DEF W!RunDirs, W!Range
    <3>6. \A m, n \in DOMAIN wRuns' : wRuns'[m].dir = wRuns'[n].dir => m = n
      BY <3>4, <3>5 DEF WDistinct
    <3> QED  BY <2>2, <3>6 DEF WDistinct, W!IsInjective
  <2> QED  BY <2>2, <2>3, <2>4 DEF W!AddRun
<1>6. CASE W!Advance
  <2>1. PICK n \in DOMAIN wRuns, status \in Statuses \ {"pending"} :
          wRuns' = [wRuns EXCEPT ![n].status = status] /\ UNCHANGED wFolders
    BY <1>6 DEF W!Advance
  <2>2. wRuns \in Seq(WRuns) /\ DOMAIN wRuns = 1..Len(wRuns)
    BY LenProperties DEF WInv, WTree
  <2>3. wRuns[n] \in WRuns
    BY <2>1, <2>2, ElementOfSeq
  <2>4. DOMAIN wRuns' = DOMAIN wRuns /\ \A m \in DOMAIN wRuns : wRuns'[m].dir = wRuns[m].dir
    BY <2>1, <2>3 DEF WRuns
  <2> QED  BY <2>1, <2>4 DEF WDistinct, W!IsInjective
<1>7. CASE UNCHANGED W!vars
  BY <1>2, <1>7 DEF W!vars
<1> QED
  BY <1>2, <1>3, <1>4, <1>5, <1>6, <1>7 DEF W!Next, W!BeginMaterialize, W!EndMaterialize,
     W!BeginIngest, W!IngestNext, W!EndIngest

LEMMA WExtended ==
    ASSUME NEW S, NEW s \in Seq(S), NEW x \in S
    PROVE  /\ Append(s, x) \in Seq(S) /\ Len(Append(s, x)) = Len(s) + 1
           /\ \A i \in 1..Len(s) : Append(s, x)[i] = s[i]
BY AppendProperties

\* A directory is in one other only.
LEMMA WInOne ==
    ASSUME NEW a \in W!Dirs, NEW b \in W!Dirs, NEW d \in W!Dirs, NEW x \in STRING,
           W!In(a, x, d), W!In(b, x, d)
    PROVE  a = b
<1>1. /\ a \in Seq(STRING) /\ b \in Seq(STRING) /\ d \in Seq(STRING)
      /\ Len(a) \in Nat /\ Len(b) = Len(a) /\ Len(d) = Len(a) + 2
  BY LenProperties DEF W!Dirs, W!In
<1>2. ASSUME NEW e \in W!Dirs, W!In(e, x, d) PROVE \A i \in 1..Len(e) : e[i] = d[i]
  <2>1. e \in Seq(STRING) /\ Len(e) \in Nat /\ Len(d) = Len(e) + 2
    BY <1>2, LenProperties DEF W!Dirs, W!In
  <2>2. PICK f : f = Append(e, x)
    OBVIOUS
  <2>3. f \in Seq(STRING) /\ Len(f) = Len(e) + 1 /\ \A i \in 1..Len(e) : f[i] = e[i]
    <3>1. /\ Append(e, x) \in Seq(STRING) /\ Len(Append(e, x)) = Len(e) + 1
          /\ \A i \in 1..Len(e) : Append(e, x)[i] = e[i]
      BY <2>1, WExtended
    <3> QED  BY <2>2, <3>1
  <2>4. f # d
    BY <2>1, <2>3
  <2>5. W!IsStrictPrefix(f, d)
    BY <1>2, <2>2, <2>4 DEF W!In, W!IsStrictPrefix
  <2>6. \A i \in 1..Len(f) : f[i] = d[i]
    BY <1>1, <2>3, <2>5, WPrefix
  <2> QED  BY <2>1, <2>3, <2>6
<1> QED  BY <1>1, <1>2, SeqEqual

LEMMA WChildren ==
    ASSUME WInv, WDistinct, NEW dir, NEW x
    PROVE  /\ W!ChildrenOf(dir, x) \in Seq(W!Dirs) /\ W!IsInjective(W!ChildrenOf(dir, x))
           /\ \A d \in W!Range(W!ChildrenOf(dir, x)) : d \in W!Dirs /\ W!In(dir, x, d)
<1>1. wFolders \in Seq(W!Dirs) /\ W!IsInjective(wFolders)
  BY DEF WInv, WTree, WDistinct
<1>2. PICK X : X = {d \in W!Range(wFolders) : W!In(dir, x, d)}
  OBVIOUS
<1>3. PICK c : c = W!ChildrenOf(dir, x)
  OBVIOUS
<1>4. c = W!Those(wFolders, X)
  BY <1>2, <1>3 DEF W!ChildrenOf
<1>5. c \in Seq(W!Dirs) /\ W!IsInjective(c) /\ W!Range(c) = W!Range(wFolders) \cap X
  BY <1>1, <1>4, ThoseAre
<1>6. W!Range(wFolders) \subseteq W!Dirs
  BY <1>1, WInRange
<1> QED  BY <1>2, <1>3, <1>5, <1>6

LEMMA WRunsIn ==
    ASSUME WInv, WDistinct, NEW x
    PROVE  /\ W!RunsIn(x) \in Seq(WRuns) /\ W!IsInjective(W!RunsIn(x))
           /\ \A r \in W!Range(W!RunsIn(x)) :
                r \in W!Range(wRuns) /\ r.dir \in W!Dirs /\ W!In(x, "runs", r.dir)
<1>1. wRuns \in Seq(WRuns) /\ W!IsInjective(wRuns)
  BY DEF WInv, WTree, WDistinct, W!IsInjective
<1>2. PICK X : X = {r \in W!Range(wRuns) : W!In(x, "runs", r.dir)}
  OBVIOUS
<1>3. PICK c : c = W!RunsIn(x)
  OBVIOUS
<1>4. c = W!Those(wRuns, X)
  BY <1>2, <1>3 DEF W!RunsIn
<1>5. c \in Seq(WRuns) /\ W!IsInjective(c) /\ W!Range(c) = W!Range(wRuns) \cap X
  BY <1>1, <1>4, ThoseAre
<1>6. \A r \in W!Range(wRuns) : r.dir \in W!Dirs
  BY <1>1, WInRange DEF WRuns
<1> QED  BY <1>2, <1>3, <1>5, <1>6

\* What the elements of a sequence have in turn, where no two have any in common.
LEMMA LFlattenedOnce ==
    ASSUME NEW S, NEW dirs, Len(dirs) \in Nat, DOMAIN dirs = 1..Len(dirs), NEW ss,
           ss = [n \in DOMAIN dirs |-> ss[n]],
           \A n \in DOMAIN dirs : ss[n] \in Seq(S) /\ W!IsInjective(ss[n]),
           \A m, n \in DOMAIN dirs : m # n => W!Range(ss[m]) \cap W!Range(ss[n]) = {}
    PROVE  /\ W!FlattenSeq(ss) \in Seq(S) /\ W!IsInjective(W!FlattenSeq(ss))
           /\ \A e \in W!Range(W!FlattenSeq(ss)) : \E n \in DOMAIN dirs : e \in W!Range(ss[n])
<1>1. ss \in [1..Len(dirs) -> Seq(S)]
  OBVIOUS
<1>2. ss \in Seq(Seq(S)) /\ Len(ss) = Len(dirs)
  BY <1>1
<1>3. /\ \A i \in 1..Len(ss) : W!IsInjective(ss[i])
      /\ \A i, j \in 1..Len(ss) : i # j => W!Range(ss[i]) \cap W!Range(ss[j]) = {}
  BY <1>2
<1>4. PICK u : u = W!FlattenSeq(ss)
  OBVIOUS
<1>5. /\ u \in Seq(S) /\ W!IsInjective(u)
      /\ W!Range(u) = UNION {W!Range(ss[i]) : i \in 1..Len(ss)}
  BY <1>2, <1>3, <1>4, FlattenedAre
<1> QED  BY <1>2, <1>4, <1>5

\* The runs of a project, each once.
LEMMA WRunsOf ==
    ASSUME WInv, WDistinct, NEW project \in W!Dirs
    PROVE  /\ W!RunsOf(project) \in Seq(WRuns) /\ W!IsInjective(W!RunsOf(project))
           /\ \A r \in W!Range(W!RunsOf(project)) :
                /\ r \in W!Range(wRuns)
                /\ \E x \in W!Dirs : W!In(project, "experiments", x) /\ W!In(x, "runs", r.dir)
<1>1. PICK dirs : dirs = W!ChildrenOf(project, "experiments")
  OBVIOUS
<1>2. /\ dirs \in Seq(W!Dirs) /\ W!IsInjective(dirs)
      /\ Len(dirs) \in Nat /\ DOMAIN dirs = 1..Len(dirs)
      /\ \A n \in DOMAIN dirs : dirs[n] \in W!Dirs /\ W!In(project, "experiments", dirs[n])
  <2>1. /\ dirs \in Seq(W!Dirs) /\ W!IsInjective(dirs)
        /\ \A d \in W!Range(dirs) : d \in W!Dirs /\ W!In(project, "experiments", d)
    BY <1>1, WChildren
  <2>2. Len(dirs) \in Nat /\ DOMAIN dirs = 1..Len(dirs)
    BY <2>1, LenProperties
  <2> QED  BY <2>1, <2>2 DEF W!Range
<1>3. PICK ss : ss = [n \in DOMAIN dirs |-> W!RunsIn(dirs[n])]
  OBVIOUS
<1>4. W!RunsOf(project) = W!FlattenSeq(ss)
  BY <1>1, <1>3 DEF W!RunsOf, W!Each
<1>5. \A n \in DOMAIN dirs :
        /\ ss[n] \in Seq(WRuns) /\ W!IsInjective(ss[n])
        /\ \A r \in W!Range(ss[n]) :
             r \in W!Range(wRuns) /\ r.dir \in W!Dirs /\ W!In(dirs[n], "runs", r.dir)
  BY <1>3, WRunsIn
<1>6. ASSUME NEW m \in DOMAIN dirs, NEW n \in DOMAIN dirs, m # n
      PROVE  W!Range(ss[m]) \cap W!Range(ss[n]) = {}
  <2> SUFFICES ASSUME NEW r \in W!Range(ss[m]), r \in W!Range(ss[n]) PROVE FALSE
    OBVIOUS
  <2>1. r.dir \in W!Dirs /\ W!In(dirs[m], "runs", r.dir) /\ W!In(dirs[n], "runs", r.dir)
    BY <1>5
  <2>2. dirs[m] = dirs[n]
    BY <1>2, <2>1, WInOne, WNames
  <2> QED  BY <1>2, <1>6, <2>2 DEF W!IsInjective
<1>7. ss = [n \in DOMAIN dirs |-> ss[n]]
  BY <1>3
<1>8. /\ W!FlattenSeq(ss) \in Seq(WRuns) /\ W!IsInjective(W!FlattenSeq(ss))
      /\ \A r \in W!Range(W!FlattenSeq(ss)) : \E n \in DOMAIN dirs : r \in W!Range(ss[n])
  BY <1>2, <1>5, <1>6, <1>7, LFlattenedOnce
<1>9. ASSUME NEW r \in W!Range(W!FlattenSeq(ss))
      PROVE  /\ r \in W!Range(wRuns)
             /\ \E x \in W!Dirs : W!In(project, "experiments", x) /\ W!In(x, "runs", r.dir)
  <2>1. PICK n \in DOMAIN dirs : r \in W!Range(ss[n])
    BY <1>8
  <2> QED  BY <1>2, <1>5, <2>1
<1> QED  BY <1>4, <1>8, <1>9

\* The runs of a workspace, each once.
LEMMA WListed ==
    ASSUME WInv, WDistinct, NEW root \in W!Dirs
    PROVE  /\ W!Listed(root) \in Seq(WRuns) /\ W!IsInjective(W!Listed(root))
           /\ W!Range(W!Listed(root)) \subseteq W!Range(wRuns)
<1>1. PICK dirs : dirs = W!ChildrenOf(root, "projects")
  OBVIOUS
<1>2. /\ dirs \in Seq(W!Dirs) /\ W!IsInjective(dirs)
      /\ Len(dirs) \in Nat /\ DOMAIN dirs = 1..Len(dirs)
      /\ \A n \in DOMAIN dirs : dirs[n] \in W!Dirs
  <2>1. dirs \in Seq(W!Dirs) /\ W!IsInjective(dirs)
    BY <1>1, WChildren
  <2>2. Len(dirs) \in Nat /\ DOMAIN dirs = 1..Len(dirs)
    BY <2>1, LenProperties
  <2> QED  BY <2>1, <2>2, ElementOfSeq
<1>3. PICK ss : ss = [n \in DOMAIN dirs |-> W!RunsOf(dirs[n])]
  OBVIOUS
<1>4. W!Listed(root) = W!FlattenSeq(ss)
  BY <1>1, <1>3 DEF W!Listed, W!Each
<1>5. \A n \in DOMAIN dirs :
        /\ ss[n] \in Seq(WRuns) /\ W!IsInjective(ss[n])
        /\ \A r \in W!Range(ss[n]) :
             /\ r \in W!Range(wRuns)
             /\ \E x \in W!Dirs : W!In(dirs[n], "experiments", x) /\ W!In(x, "runs", r.dir)
  BY <1>2, <1>3, WRunsOf
<1>6. ASSUME NEW m \in DOMAIN dirs, NEW n \in DOMAIN dirs, m # n
      PROVE  W!Range(ss[m]) \cap W!Range(ss[n]) = {}
  <2> SUFFICES ASSUME NEW r \in W!Range(ss[m]), r \in W!Range(ss[n]) PROVE FALSE
    OBVIOUS
  <2>1. PICK x \in W!Dirs : W!In(dirs[m], "experiments", x) /\ W!In(x, "runs", r.dir)
    BY <1>5
  <2>2. PICK y \in W!Dirs : W!In(dirs[n], "experiments", y) /\ W!In(y, "runs", r.dir)
    BY <1>5
  <2>3. r.dir \in W!Dirs
    <3>1. r \in W!Range(wRuns) /\ wRuns \in Seq(WRuns)
      BY <1>5 DEF WInv, WTree
    <3>2. r \in WRuns
      BY <3>1, WInRange
    <3> QED  BY <3>2 DEF WRuns
  <2>4. x = y
    BY <2>1, <2>2, <2>3, WInOne, WNames
  <2>5. dirs[m] = dirs[n]
    BY <1>2, <2>1, <2>2, <2>4, WInOne, WNames
  <2> QED  BY <1>2, <1>6, <2>5 DEF W!IsInjective
<1>7. ss = [n \in DOMAIN dirs |-> ss[n]]
  BY <1>3
<1>8. /\ W!FlattenSeq(ss) \in Seq(WRuns) /\ W!IsInjective(W!FlattenSeq(ss))
      /\ \A r \in W!Range(W!FlattenSeq(ss)) : \E n \in DOMAIN dirs : r \in W!Range(ss[n])
  BY <1>2, <1>5, <1>6, <1>7, LFlattenedOnce
<1>9. W!Range(W!FlattenSeq(ss)) \subseteq W!Range(wRuns)
  BY <1>5, <1>8
<1> QED  BY <1>4, <1>8, <1>9

\* A call of ingest_metrics is about a run once.
LEMMA WTargets ==
    ASSUME WInv, WDistinct, NEW dir \in W!Dirs
    PROVE  W!Targets(dir) \in Seq(W!Dirs) /\ W!IsInjective(W!Targets(dir))
<1>1. CASE W!Marked(dir)
  <2>1. PICK l : l = W!Listed(dir)
    OBVIOUS
  <2>2. /\ l \in Seq(WRuns) /\ W!IsInjective(l) /\ W!Range(l) \subseteq W!Range(wRuns)
        /\ DOMAIN l = 1..Len(l) /\ Len(l) \in Nat
    BY <2>1, WListed, LenProperties
  <2>3. PICK t : t = [n \in DOMAIN l |-> l[n].dir]
    OBVIOUS
  <2>4. \A n \in DOMAIN l : l[n] \in WRuns /\ l[n].dir \in W!Dirs /\ l[n] \in W!Range(wRuns)
    <3>1. \A n \in DOMAIN l : l[n] \in WRuns
      BY <2>2, ElementOfSeq
    <3> QED  BY <2>2, <3>1 DEF WRuns, W!Range
  <2>5. t \in [1..Len(l) -> W!Dirs]
    BY <2>2, <2>3, <2>4
  <2>6. t \in Seq(W!Dirs)
    BY <2>2, <2>5
  <2>7. ASSUME NEW m \in DOMAIN t, NEW n \in DOMAIN t, t[m] = t[n] PROVE m = n
    <3>1. m \in DOMAIN l /\ n \in DOMAIN l /\ l[m].dir = l[n].dir
      BY <2>3, <2>7
    <3>2. l[m] = l[n]
      BY <2>4, <3>1 DEF WDistinct, W!Range
    <3> QED  BY <2>2, <3>1, <3>2 DEF W!IsInjective
  <2>8. W!IsInjective(t)
    BY <2>7 DEF W!IsInjective
  <2> QED  BY <1>1, <2>1, <2>3, <2>6, <2>8 DEF W!Targets
<1>2. CASE ~W!Marked(dir)
  <2>1. W!Targets(dir) = <<dir>>
    BY <1>2 DEF W!Targets
  <2> QED  BY <2>1 DEF W!IsInjective
<1> QED  BY <1>1, <1>2

LEMMA WToldInit == W!Init => WDistinct /\ WTold
BY DEF W!Init, WDistinct, WTold, W!IsInjective, W!Doing

\* What is told stays told while curves are added.
LEMMA WTellsKept ==
    ASSUME NEW c, WTells(c), wCurves \subseteq wCurves'
    PROVE  WTells(c)'
BY DEF WTells, W!Range, W!IsInjective

\* The next run of a call is ingested, or fails.
LEMMA WIngestsNext ==
    ASSUME WInv, WTold, NEW s \in Servers, NEW failed \in BOOLEAN, NEW writes \in BOOLEAN,
           W!IngestNext(s, failed, writes), NEW c, c = W!Ingested(wCall[s], failed)
    PROVE  WTells(c)'
<1>1. PICK b : b = wCall[s]
  OBVIOUS
<1>2. WTells(b) /\ b.todo # <<>> /\ (failed \/ writes) /\ c = W!Ingested(b, failed)
  BY <1>1 DEF W!IngestNext, WTold
<1>3. PICK d : d = Head(b.todo)
  OBVIOUS
<1>4. wCurves' = IF writes THEN wCurves \cup {<<d, b.n>>} ELSE wCurves
  BY <1>1, <1>3 DEF W!IngestNext
<1>5. /\ DOMAIN c = DOMAIN b /\ c.n = b.n /\ c.runs = b.runs /\ c.todo = Tail(b.todo)
      /\ c.problems = (IF failed THEN b.problems \cup {d} ELSE b.problems)
      /\ c.results = (IF failed THEN b.results ELSE b.results \cup {d})
  BY <1>2, <1>3 DEF W!Ingested, WTells
<1>6. /\ Tail(b.todo) \in Seq(W!Dirs) /\ W!IsInjective(Tail(b.todo))
      /\ W!Range(b.todo) = W!Range(Tail(b.todo)) \cup {d} /\ d \notin W!Range(Tail(b.todo))
  <2>1. PICK t : t = b.todo
    OBVIOUS
  <2>2. PICK u : u = Tail(t)
    OBVIOUS
  <2>3. t \in Seq(W!Dirs) /\ W!IsInjective(t) /\ Len(t) \in Nat \ {0} /\ DOMAIN t = 1..Len(t)
    BY <1>2, <2>1, EmptySeq, LenProperties DEF WTells
  <2>4. /\ u \in Seq(W!Dirs) /\ Len(u) = Len(t) - 1 /\ DOMAIN u = 1..(Len(t) - 1)
        /\ \A i \in 1..(Len(t) - 1) : u[i] = t[i + 1]
    BY <2>2, <2>3, HeadTailProperties, LenProperties
  <2>5. d = t[1]
    BY <1>3, <2>1
  <2>6. \A i \in DOMAIN u : i + 1 \in DOMAIN t /\ i + 1 # 1 /\ u[i] = t[i + 1]
    BY <2>3, <2>4
  <2>7. \A i \in DOMAIN t : i = 1 \/ (i - 1 \in DOMAIN u /\ t[i] = u[i - 1])
    BY <2>3, <2>4
  <2>8. W!IsInjective(u)
    <3>1. \A i, j \in DOMAIN u : u[i] = u[j] => i + 1 = j + 1
      BY <2>3, <2>6 DEF W!IsInjective
    <3>2. \A i, j \in DOMAIN u : i + 1 = j + 1 => i = j
      BY <2>4
    <3> QED  BY <3>1, <3>2 DEF W!IsInjective
  <2>9. d \notin W!Range(u)
    BY <2>3, <2>5, <2>6 DEF W!IsInjective, W!Range
  <2>10. W!Range(t) = W!Range(u) \cup {d}
    <3>1. 1 \in DOMAIN t
      BY <2>3
    <3> QED  BY <2>5, <2>6, <2>7, <3>1 DEF W!Range
  <2> QED  BY <2>1, <2>2, <2>4, <2>8, <2>9, <2>10
<1>7. PICK u : u = Tail(b.todo)
  OBVIOUS
<1>8. /\ {"tool", "n", "todo", "runs", "results", "problems"} \subseteq DOMAIN c
      /\ c.todo \in Seq(W!Dirs) /\ W!IsInjective(c.todo)
  BY <1>2, <1>5, <1>6 DEF WTells
<1>9. /\ c.results \cup c.problems \cup W!Range(c.todo) = W!Range(c.runs)
      /\ c.results \cap c.problems = {} /\ (c.results \cup c.problems) \cap W!Range(c.todo) = {}
  <2>1. /\ b.results \cup b.problems \cup (W!Range(u) \cup {d}) = W!Range(b.runs)
        /\ b.results \cap b.problems = {}
        /\ (b.results \cup b.problems) \cap (W!Range(u) \cup {d}) = {}
        /\ d \notin W!Range(u)
    BY <1>2, <1>6, <1>7 DEF WTells
  <2>2. W!Range(c.todo) = W!Range(u) /\ W!Range(c.runs) = W!Range(b.runs)
    BY <1>5, <1>7
  <2>3. CASE failed
    BY <1>5, <2>1, <2>2, <2>3
  <2>4. CASE ~failed
    BY <1>5, <2>1, <2>2, <2>4
  <2> QED  BY <2>3, <2>4
<1>10. \A e \in c.results : <<e, c.n>> \in wCurves'
  <2>1. \A e \in b.results : <<e, b.n>> \in wCurves
    BY <1>2 DEF WTells
  <2> QED  BY <1>2, <1>4, <1>5, <2>1
<1> QED  BY <1>8, <1>9, <1>10 DEF WTells, W!Range, W!IsInjective

LEMMA WToldStep == WInv /\ WDistinct /\ WTold /\ [W!Next]_(W!vars) => WTold'
<1> SUFFICES ASSUME WInv, WDistinct, WTold, [W!Next]_(W!vars) PROVE WTold'
  OBVIOUS
\* Whatever ends or begins at s but an ingest.
<1>1. ASSUME NEW s \in Servers, NEW c, wCall' = [wCall EXCEPT ![s] = c],
             c # None /\ c.tool = "ingest" => WTells(c)',
             UNCHANGED wAnswer, wCurves \subseteq wCurves'
      PROVE  WTold'
  <2>1. /\ wCall'[s] = c /\ \A t \in Servers \ {s} : wCall'[t] = wCall[t]
    BY <1>1 DEF WInv, WCalls
  <2>2. ASSUME NEW t \in Servers, W!Doing(t, "ingest")' PROVE WTells(wCall[t])'
    <3>1. PICK d : d = wCall'[t]
      OBVIOUS
    <3>2. CASE t = s
      <4>1. WTells(c)' /\ wCall'[t] = c
        BY <1>1, <2>1, <2>2, <3>2 DEF W!Doing
      <4> QED  BY <4>1 DEF WTells
    <3>3. CASE t # s
      <4>1. WTells(d)
        BY <2>1, <2>2, <3>1, <3>3 DEF W!Doing, WTold
      <4>2. WTells(d)'
        BY <1>1, <4>1, WTellsKept
      <4> QED  BY <3>1, <4>2 DEF WTells
    <3> QED  BY <3>2, <3>3
  <2>3. ASSUME wAnswer # None PROVE WTells(wAnswer)' /\ wAnswer.todo = <<>>
    <3>1. PICK d : d = wAnswer
      OBVIOUS
    <3>2. WTells(d)' /\ d.todo = <<>>
      BY <1>1, <2>3, <3>1, WTellsKept DEF WTold
    <3> QED  BY <1>1, <3>1, <3>2 DEF WTells
  <2> QED  BY <1>1, <2>2, <2>3 DEF WTold
<1>2. ASSUME UNCHANGED <<wCall, wAnswer, wCurves>> PROVE WTold'
  <2>1. ASSUME NEW d, WTells(d) PROVE WTells(d)'
    BY <1>2, <2>1, WTellsKept
  <2>2. ASSUME NEW t \in Servers, W!Doing(t, "ingest")' PROVE WTells(wCall[t])'
    <3>1. PICK d : d = wCall[t]
      OBVIOUS
    <3>2. WTells(d)
      BY <1>2, <2>2, <3>1 DEF W!Doing, WTold
    <3>3. WTells(d)'
      BY <2>1, <3>2
    <3> QED  BY <1>2, <3>1, <3>3 DEF WTells
  <2>3. ASSUME wAnswer # None PROVE WTells(wAnswer)' /\ wAnswer.todo = <<>>
    <3>1. PICK d : d = wAnswer
      OBVIOUS
    <3>2. WTells(d)' /\ d.todo = <<>>
      BY <2>1, <2>3, <3>1 DEF WTold
    <3> QED  BY <1>2, <3>1, <3>2 DEF WTells
  <2> QED  BY <1>2, <2>2, <2>3 DEF WTold
<1>3. ASSUME NEW s \in Servers, NEW dir \in Places \cup W!RunDirs, W!BeginIngest(s, dir)
      PROVE  WTold'
  <2>1. PICK t : t = W!Targets(dir)
    OBVIOUS
  <2>2. PICK c : c = [tool |-> "ingest", dir |-> dir, n |-> wIngests', todo |-> t, runs |-> t,
                      results |-> {}, problems |-> {}]
    OBVIOUS
  <2>3. wCall' = [wCall EXCEPT ![s] = c] /\ UNCHANGED <<wAnswer, wCurves>>
    BY <1>3, <2>1, <2>2 DEF W!BeginIngest
  <2>4. dir \in W!Dirs
    BY WorkspaceParts DEF W!WorkspaceAssumption, WInv, WTree
  <2>5. t \in Seq(W!Dirs) /\ W!IsInjective(t)
    BY <2>1, <2>4, WTargets
  <2>6. /\ {"tool", "n", "todo", "runs", "results", "problems"} \subseteq DOMAIN c
        /\ c.todo = t /\ c.runs = t /\ c.results = {} /\ c.problems = {}
    BY <2>2
  <2>7. WTells(c)
    BY <2>5, <2>6 DEF WTells
  <2>8. WTells(c)'
    BY <2>3, <2>7, WTellsKept
  <2> QED  BY <1>1, <2>3, <2>8
<1>4. ASSUME NEW s \in Servers, NEW failed \in BOOLEAN, NEW writes \in BOOLEAN,
             W!IngestNext(s, failed, writes)
      PROVE  WTold'
  <2>1. PICK c : c = W!Ingested(wCall[s], failed)
    OBVIOUS
  <2>2. /\ wCall' = [wCall EXCEPT ![s] = c] /\ UNCHANGED wAnswer /\ wCurves \subseteq wCurves'
    BY <1>4, <2>1 DEF W!IngestNext
  <2>3. WTells(c)'
    BY <1>4, <2>1, WIngestsNext
  <2> QED  BY <1>1, <2>2, <2>3
<1>5. ASSUME NEW s \in Servers, W!EndIngest(s) PROVE WTold'
  <2>1. PICK d : d = wCall[s]
    OBVIOUS
  <2>2. /\ wAnswer' = d /\ UNCHANGED wCurves /\ wCall' = [wCall EXCEPT ![s] = None]
        /\ WTells(d) /\ d.todo = <<>>
    BY <1>5, <2>1 DEF W!EndIngest, WTold
  <2>3. WTells(d)'
    BY <2>2, WTellsKept
  <2>4. WTells(wAnswer)' /\ wAnswer'.todo = <<>>
    BY <2>2, <2>3 DEF WTells
  <2>5. ASSUME NEW t \in Servers, W!Doing(t, "ingest")' PROVE WTells(wCall[t])'
    <3>1. t # s /\ wCall'[t] = wCall[t] /\ W!Doing(t, "ingest")
      BY <2>2, <2>5 DEF WInv, WCalls, W!Doing
    <3>2. PICK e : e = wCall[t]
      OBVIOUS
    <3>3. WTells(e)'
      BY <2>2, <3>1, <3>2, WTellsKept DEF WTold
    <3> QED  BY <3>1, <3>2, <3>3 DEF WTells
  <2> QED  BY <2>4, <2>5 DEF WTold
<1>6. ASSUME NEW s \in Servers, NEW dir, W!BeginMaterialize(s, dir) PROVE WTold'
  <2>1. PICK c : c = [tool |-> "materialize", dir |-> dir]
    OBVIOUS
  <2>2. wCall' = [wCall EXCEPT ![s] = c] /\ UNCHANGED <<wAnswer, wCurves>> /\ c.tool # "ingest"
    BY <1>6, <2>1 DEF W!BeginMaterialize
  <2> QED  BY <1>1, <2>2
<1>7. ASSUME NEW s \in Servers, W!EndMaterialize(s) PROVE WTold'
  <2>1. wCall' = [wCall EXCEPT ![s] = None] /\ UNCHANGED <<wAnswer, wCurves>>
    BY <1>7 DEF W!EndMaterialize
  <2> QED  BY <1>1, <2>1
<1> QED
  BY <1>2, <1>3, <1>4, <1>5, <1>6, <1>7 DEF W!Next, W!vars, W!AddProject, W!AddExperiment,
     W!CreateRun, W!Advance

\* An ingest tells of each run it was about.
THEOREM TellsOfEachRunAlways == PartsSpec => []TellsOfEachRun
<1> DEFINE Inv == WInv /\ WDistinct /\ WTold
<1>1. PartsInit => (part = "workspace" => Inv)
  BY WorkspacePart, WInit, WToldInit
<1>2. (part = "workspace" => Inv) /\ [PartsNext]_partsVars => (part = "workspace" => Inv)'
  <2>1. ~(part = "workspace") /\ [PartsNext]_partsVars => ~(part = "workspace")'
    BY OtherPart
  <2> QED  BY <2>1, WorkspacePart, WStep, WDistinctStep, WToldStep
<1>3. (part = "workspace" => Inv) => TellsOfEachRun
  <2> SUFFICES ASSUME WTold, wAnswer # None
               PROVE  /\ wAnswer.results \cup wAnswer.problems = W!Range(wAnswer.runs)
                      /\ wAnswer.results \cap wAnswer.problems = {}
                      /\ \A dir \in wAnswer.results : <<dir, wAnswer.n>> \in wCurves
    BY DEF TellsOfEachRun, W!TellsOfEachRun
  <2>1. WTells(wAnswer) /\ wAnswer.todo = <<>>
    BY DEF WTold
  <2>2. W!Range(<<>>) = {}
    BY DEF W!Range
  <2> QED  BY <2>1, <2>2 DEF WTells
<1> QED  BY <1>1, <1>2, <1>3, PTL DEF PartsSpec

------------------------------------------------------------------------------
(* The settings.  What a file says, as facts, changes by a command as the    *)
(* command means it to, and layers over one another as a load merges them.   *)

SettingsWords == {a.value : a \in Commands}

\* The lists of a file hold values that commands gave.
OfWords(data) == \A k \in Lists \cap DOMAIN data : data[k] \in Seq(SettingsWords)

\* What the value of one key says.
Said(k, v) ==
    CASE k \in Dicts -> {<<k, m, v[m]>> : m \in DOMAIN v}
      [] k \in Lists -> {<<k, Unset, w>> : w \in L!Range(v)}
      [] OTHER -> {<<k, Unset, v>>}

LEMMA LSequences ==
    /\ \A t : L!Range(t) = W!Range(t) /\ (L!IsInjective(t) <=> W!IsInjective(t))
    /\ \A s, X : L!Those(s, X) = W!Those(s, X)
BY DEF L!Range, W!Range, L!IsInjective, W!IsInjective, L!Those, W!Those

LEMMA LSaid ==
    ASSUME NEW k, NEW v, NEW x \in Said(k, v)
    PROVE  x = <<k, x[2], x[3]>> /\ x[1] = k
<1>1. CASE k \in Dicts
  BY <1>1 DEF Said
<1>2. CASE k \notin Dicts /\ k \in Lists
  BY <1>2 DEF Said
<1>3. CASE k \notin Dicts /\ k \notin Lists
  BY <1>3 DEF Said
<1> QED  BY <1>1, <1>2, <1>3

LEMMA LFacts == \A data : L!Facts(data) = UNION {Said(k, data[k]) : k \in DOMAIN data}
BY DEF L!Facts, Said

LEMMA LHeld ==
    ASSUME NEW data, NEW k
    PROVE  {x \in L!Facts(data) : x[1] = k} =
               IF k \in DOMAIN data THEN Said(k, data[k]) ELSE {}
<1>1. ASSUME NEW x \in L!Facts(data), x[1] = k
      PROVE  k \in DOMAIN data /\ x \in Said(k, data[k])
  <2>1. PICK j \in DOMAIN data : x \in Said(j, data[j])
    BY LFacts
  <2> QED  BY <1>1, <2>1, LSaid
<1>2. ASSUME k \in DOMAIN data, NEW x \in Said(k, data[k])
      PROVE  x \in L!Facts(data) /\ x[1] = k
  <2>1. x[1] = k
    BY LSaid
  <2> QED  BY <1>2, <2>1, LFacts
<1> QED  BY <1>1, <1>2

\* To put a value is to forget what its key said, and to say the value.
LEMMA LPut ==
    ASSUME NEW data, NEW k, NEW v
    PROVE  /\ L!Facts(L!Put(data, k, v)) = {x \in L!Facts(data) : x[1] # k} \cup Said(k, v)
           /\ OfWords(data) /\ (k \in Lists => v \in Seq(SettingsWords))
                 => OfWords(L!Put(data, k, v))
<1>1. PICK d : d = L!Put(data, k, v)
  OBVIOUS
<1>2. DOMAIN d = DOMAIN data \cup {k} /\ d[k] = v /\ \A j \in DOMAIN data \ {k} : d[j] = data[j]
  BY <1>1 DEF L!Put
<1>3. ASSUME NEW x \in L!Facts(d)
      PROVE  x \in {y \in L!Facts(data) : y[1] # k} \cup Said(k, v)
  <2>1. PICK j \in DOMAIN d : x \in Said(j, d[j])
    BY LFacts
  <2>2. CASE j = k
    BY <1>2, <2>1, <2>2
  <2>3. CASE j # k
    <3>1. x[1] = j
      BY <2>1, LSaid
    <3>2. j \in DOMAIN data /\ d[j] = data[j]
      BY <1>2, <2>3
    <3>3. x \in L!Facts(data)
      BY <2>1, <3>2, LFacts
    <3> QED  BY <2>3, <3>1, <3>3
  <2> QED  BY <2>2, <2>3
<1>4. ASSUME NEW x \in L!Facts(data), x[1] # k
      PROVE  x \in L!Facts(d)
  <2>1. PICK j \in DOMAIN data : x \in Said(j, data[j])
    BY LFacts
  <2>2. x[1] = j
    BY <2>1, LSaid
  <2>3. j \in DOMAIN d /\ d[j] = data[j]
    BY <1>2, <1>4, <2>2
  <2> QED  BY <2>1, <2>3, LFacts
<1>5. Said(k, v) \subseteq L!Facts(d)
  BY <1>2, LFacts
<1>6. L!Facts(d) = {x \in L!Facts(data) : x[1] # k} \cup Said(k, v)
  BY <1>3, <1>4, <1>5
<1>7. OfWords(data) /\ (k \in Lists => v \in Seq(SettingsWords)) => OfWords(d)
  BY <1>2 DEF OfWords
<1> QED  BY <1>1, <1>6, <1>7

LEMMA LWithout ==
    ASSUME NEW data, NEW k
    PROVE  /\ L!Facts(L!Without(data, k)) = {x \in L!Facts(data) : x[1] # k}
           /\ OfWords(data) => OfWords(L!Without(data, k))
<1>1. PICK d : d = L!Without(data, k)
  OBVIOUS
<1>2. DOMAIN d = DOMAIN data \ {k} /\ \A j \in DOMAIN data \ {k} : d[j] = data[j]
  BY <1>1 DEF L!Without, L!Restrict
<1>3. ASSUME NEW x \in L!Facts(d)
      PROVE  x \in L!Facts(data) /\ x[1] # k
  <2>1. PICK j \in DOMAIN d : x \in Said(j, d[j])
    BY LFacts
  <2>2. x[1] = j /\ j \in DOMAIN data /\ d[j] = data[j] /\ j # k
    BY <1>2, <2>1, LSaid
  <2> QED  BY <2>1, <2>2, LFacts
<1>4. ASSUME NEW x \in L!Facts(data), x[1] # k
      PROVE  x \in L!Facts(d)
  <2>1. PICK j \in DOMAIN data : x \in Said(j, data[j])
    BY LFacts
  <2>2. x[1] = j
    BY <2>1, LSaid
  <2>3. j \in DOMAIN d /\ d[j] = data[j]
    BY <1>2, <1>4, <2>2
  <2> QED  BY <2>1, <2>3, LFacts
<1>5. OfWords(data) => OfWords(d)
  BY <1>2 DEF OfWords
<1> QED  BY <1>1, <1>3, <1>4, <1>5

\* The same of one member of a dict.
LEMMA LMember ==
    ASSUME NEW k \in Dicts, NEW c, NEW n
    PROVE  /\ \A v, x : x \in Said(k, L!Put(c, n, v))
                           <=> (x \in Said(k, c) /\ x[2] # n) \/ x = <<k, n, v>>
           /\ \A x : x \in Said(k, L!Without(c, n)) <=> x \in Said(k, c) /\ x[2] # n
<1>1. ASSUME NEW d, NEW x
      PROVE  x \in Said(k, d) <=> \E m \in DOMAIN d : x = <<k, m, d[m]>>
  <2>1. k \in Dicts /\ k \notin Lists
    BY SettingsParts DEF L!SettingsAssumption
  <2> QED  BY <2>1 DEF Said
<1>2. ASSUME NEW v, NEW x
      PROVE  x \in Said(k, L!Put(c, n, v)) <=> (x \in Said(k, c) /\ x[2] # n) \/ x = <<k, n, v>>
  <2>1. PICK d : d = L!Put(c, n, v)
    OBVIOUS
  <2>2. DOMAIN d = DOMAIN c \cup {n} /\ d[n] = v /\ \A m \in DOMAIN c \ {n} : d[m] = c[m]
    BY <2>1 DEF L!Put
  <2>3. (\E m \in DOMAIN d : x = <<k, m, d[m]>>)
            <=> (\E m \in DOMAIN c : x = <<k, m, c[m]>> /\ x[2] # n) \/ x = <<k, n, v>>
    BY <2>2
  <2> QED  BY <1>1, <2>1, <2>3
<1>3. ASSUME NEW x
      PROVE  x \in Said(k, L!Without(c, n)) <=> x \in Said(k, c) /\ x[2] # n
  <2>1. PICK d : d = L!Without(c, n)
    OBVIOUS
  <2>2. DOMAIN d = DOMAIN c \ {n} /\ \A m \in DOMAIN c \ {n} : d[m] = c[m]
    BY <2>1 DEF L!Without, L!Restrict
  <2>3. (\E m \in DOMAIN d : x = <<k, m, d[m]>>)
            <=> (\E m \in DOMAIN c : x = <<k, m, c[m]>> /\ x[2] # n)
    BY <2>2
  <2> QED  BY <1>1, <2>1, <2>3
<1> QED  BY <1>2, <1>3

\* What a command is about, by its key.
LEMMA LCommands ==
    ASSUME NEW a \in Commands
    PROVE  /\ a.verb \in {"set", "add", "remove"} /\ a.key \in Dicts \cup Lists \cup Scalars
           /\ a.verb # "remove" => a.value # Unset
           /\ a.value \in SettingsWords
           /\ a.key \in Dicts => a.key \notin Lists /\ a.key \notin Scalars
           /\ a.key \in Lists => a.key \notin Dicts /\ a.key \notin Scalars
<1>1. a.value \in SettingsWords
  BY DEF SettingsWords
<1>2. Dicts \cap (Lists \cup Scalars) = {} /\ Lists \cap Scalars = {}
  BY SettingsParts DEF L!SettingsAssumption
<1>3. a.verb \in L!Verbs /\ a.key \in L!Keys /\ (a.verb # "remove" => a.value # Unset)
  BY SettingsParts DEF L!SettingsAssumption
<1> QED  BY <1>1, <1>2, <1>3 DEF L!Verbs, L!Keys

\* The facts of a file without those of a key, or of a member.
LEMMA LAbout ==
    ASSUME NEW data, NEW a \in Commands
    PROVE  /\ a.member = Unset => {x \in L!Facts(data) : ~L!About(a, x)}
                                      = {x \in L!Facts(data) : x[1] # a.key}
           /\ a.member # Unset => {x \in L!Facts(data) : ~L!About(a, x)}
                  = {x \in L!Facts(data) : x[1] # a.key}
                    \cup {x \in {y \in L!Facts(data) : y[1] = a.key} : x[2] # a.member}
BY DEF L!About

LEMMA LSets ==
    ASSUME NEW data, OfWords(data), NEW a \in Commands, a.verb = "set", L!Allowed(data, a)
    PROVE  /\ L!Facts(L!Changed(data, a)) = L!Gives(L!Facts(data), a)
           /\ OfWords(L!Changed(data, a))
<1> DEFINE k == a.key
<1>1. /\ L!Gives(L!Facts(data), a)
              = {x \in L!Facts(data) : ~L!About(a, x)} \cup {<<k, a.member, a.value>>}
      /\ L!Changed(data, a)
              = L!Stored(data, a, L!Put(L!Container(data, a), L!Leaf(a), L!Parsed(a)))
      /\ (a.member = Unset \/ k \in Dicts) /\ (a.member # Unset \/ k \notin Dicts)
  BY DEF L!Gives, L!Changed, L!Allowed, L!Settable, L!Parsable
<1>2. CASE a.member = Unset
  <2>1. L!Changed(data, a) = L!Put(data, k, L!Parsed(a)) /\ k \notin Dicts
    BY <1>1, <1>2 DEF L!Stored, L!Container, L!Leaf
  <2>2. /\ Said(k, L!Parsed(a)) = {<<k, Unset, a.value>>}
        /\ k \in Lists => L!Parsed(a) \in Seq(SettingsWords)
    <3>1. CASE k \in Lists
      <4>1. L!Parsed(a) = <<a.value>> /\ DOMAIN <<a.value>> = 1..1 /\ <<a.value>>[1] = a.value
        BY <1>2, <3>1 DEF L!Parsed
      <4>2. L!Range(L!Parsed(a)) = {a.value}
        BY <4>1 DEF L!Range
      <4>3. L!Parsed(a) \in Seq(SettingsWords)
        BY <4>1, LCommands
      <4> QED  BY <2>1, <3>1, <4>2, <4>3 DEF Said
    <3>2. CASE k \notin Lists
      BY <2>1, <3>2 DEF L!Parsed, Said
    <3> QED  BY <3>1, <3>2
  <2> QED  BY <1>1, <1>2, <2>1, <2>2, LPut, LAbout
<1>3. CASE a.member # Unset
  <2>1. k \in Dicts /\ k \notin Lists
    BY <1>1, <1>3, LCommands
  <2> DEFINE c == L!Container(data, a)
  <2>2. L!Changed(data, a) = L!Put(data, k, L!Put(c, a.member, a.value))
    BY <1>1, <1>3, <2>1 DEF L!Stored, L!Leaf, L!Parsed
  <2>3. Said(k, c) = {x \in L!Facts(data) : x[1] = k}
    <3>1. CASE k \in DOMAIN data
      BY <1>3, <3>1, LHeld DEF L!Container
    <3>2. CASE k \notin DOMAIN data
      <4>1. c = L!Empty /\ DOMAIN L!Empty = {}
        BY <1>3, <3>2 DEF L!Container, L!Empty
      <4>2. Said(k, c) = {}
        BY <2>1, <4>1 DEF Said
      <4> QED  BY <3>2, <4>2, LHeld
    <3> QED  BY <3>1, <3>2
  <2> HIDE DEF c, k
  <2>4. Said(k, L!Put(c, a.member, a.value))
            = {x \in {y \in L!Facts(data) : y[1] = k} : x[2] # a.member} \cup {<<k, a.member, a.value>>}
    <3>1. \A x : x \in Said(k, L!Put(c, a.member, a.value))
                    <=> (x \in Said(k, c) /\ x[2] # a.member) \/ x = <<k, a.member, a.value>>
      <4>1. PICK w : w = a.value
        OBVIOUS
      <4>2. PICK n : n = a.member
        OBVIOUS
      <4>3. \A x : x \in Said(k, L!Put(c, n, w)) <=> (x \in Said(k, c) /\ x[2] # n) \/ x = <<k, n, w>>
        BY <2>1, LMember
      <4> QED  BY <4>1, <4>2, <4>3
    <3>2. \A x : x \in Said(k, c) <=> x \in L!Facts(data) /\ x[1] = k
      BY <2>3
    <3> QED  BY <3>1, <3>2
  <2> QED  BY <1>1, <1>3, <2>1, <2>2, <2>4, LPut, LAbout DEF k
<1> QED  BY <1>2, <1>3

LEMMA LAdds ==
    ASSUME NEW data, OfWords(data), NEW a \in Commands, a.verb = "add", L!Allowed(data, a)
    PROVE  /\ L!Facts(L!Changed(data, a)) = L!Gives(L!Facts(data), a)
           /\ OfWords(L!Changed(data, a))
<1> DEFINE k == a.key
           items == L!ListItems(data, a)
<1>1. /\ L!Gives(L!Facts(data), a) = L!Facts(data) \cup {<<k, a.member, a.value>>}
      /\ L!Changed(data, a) = L!Put(data, k, L!Appended(items, a.value))
      /\ k \in Lists /\ k \notin Dicts /\ a.member = Unset
  BY LCommands DEF L!Gives, L!Changed, L!Allowed, L!Settable
<1>2. /\ items \in Seq(SettingsWords)
      /\ {<<k, Unset, w>> : w \in L!Range(items)} = {x \in L!Facts(data) : x[1] = k}
  <2>1. CASE k \in DOMAIN data
    BY <1>1, <2>1, LHeld DEF L!ListItems, OfWords, Said
  <2>2. CASE k \notin DOMAIN data
    <3>1. items = <<>> /\ DOMAIN <<>> = {} /\ <<>> \in Seq(SettingsWords)
      BY <2>2, EmptySeq DEF L!ListItems
    <3>2. L!Range(items) = {}
      BY <3>1 DEF L!Range
    <3> QED  BY <2>2, <3>1, <3>2, LHeld
  <2> QED  BY <2>1, <2>2
<1> HIDE DEF items
<1>3. /\ L!Appended(items, a.value) \in Seq(SettingsWords)
      /\ L!Range(L!Appended(items, a.value)) = L!Range(items) \cup {a.value}
  BY <1>2, LCommands, LAppended, LSequences DEF L!Appended
<1>4. Said(k, L!Appended(items, a.value))
          = {x \in L!Facts(data) : x[1] = k} \cup {<<k, Unset, a.value>>}
  BY <1>1, <1>2, <1>3 DEF Said
<1> QED  BY <1>1, <1>3, <1>4, LPut

LEMMA LRemoves ==
    ASSUME NEW data, OfWords(data), NEW a \in Commands, a.verb = "remove", L!Allowed(data, a)
    PROVE  /\ L!Facts(L!Changed(data, a)) = L!Gives(L!Facts(data), a)
           /\ OfWords(L!Changed(data, a))
<1> DEFINE k == a.key
<1>1. /\ L!Gives(L!Facts(data), a)
              = {x \in L!Facts(data) : ~(L!About(a, x) /\ a.value \in {Unset, x[3]})}
      /\ a.member = Unset \/ k \in Dicts
  BY DEF L!Gives, L!Allowed, L!Settable
<1>2. CASE a.value = Unset /\ a.member = Unset
  <2>1. L!Changed(data, a) = L!Without(data, k)
    BY <1>2 DEF L!Changed, L!Stored, L!Container, L!Leaf
  <2>2. L!Gives(L!Facts(data), a) = {x \in L!Facts(data) : ~L!About(a, x)}
    BY <1>1, <1>2
  <2> QED  BY <1>2, <2>1, <2>2, LAbout, LWithout
<1>3. CASE a.value = Unset /\ a.member # Unset
  <2> DEFINE c == L!Container(data, a)
  <2>1. L!Changed(data, a) = L!Put(data, k, L!Without(c, a.member))
    BY <1>3 DEF L!Changed, L!Stored, L!Leaf
  <2>2. L!Gives(L!Facts(data), a) = {x \in L!Facts(data) : ~L!About(a, x)}
    BY <1>1, <1>3
  <2>3. k \in Dicts /\ k \notin Lists
    BY <1>1, <1>3, LCommands
  <2>4. Said(k, c) = {x \in L!Facts(data) : x[1] = k}
    <3>1. CASE k \in DOMAIN data
      BY <1>3, <3>1, LHeld DEF L!Container
    <3>2. CASE k \notin DOMAIN data
      <4>1. c = L!Empty /\ DOMAIN L!Empty = {}
        BY <1>3, <3>2 DEF L!Container, L!Empty
      <4>2. Said(k, c) = {}
        BY <2>3, <4>1 DEF Said
      <4> QED  BY <3>2, <4>2, LHeld
    <3> QED  BY <3>1, <3>2
  <2> HIDE DEF c
  <2>5. Said(k, L!Without(c, a.member))
            = {x \in {y \in L!Facts(data) : y[1] = k} : x[2] # a.member}
    BY <2>3, <2>4, LMember
  <2> QED  BY <1>3, <2>1, <2>2, <2>3, <2>5, LPut, LAbout
<1>4. CASE a.value # Unset
  <2> DEFINE items == L!ListItems(data, a)
  <2>1. /\ L!Changed(data, a) = L!Put(data, k, L!Those(items, L!Range(items) \ {a.value}))
        /\ a.member = Unset /\ k \in Lists /\ k \notin Dicts
        /\ a.value \in L!Range(items)
    BY <1>4, LCommands DEF L!Changed, L!Allowed
  <2>2. k \in DOMAIN data /\ items = data[k]
    <3>1. CASE k \notin DOMAIN data
      <4>1. items = <<>> /\ DOMAIN <<>> = {}
        BY <3>1 DEF L!ListItems
      <4> QED  BY <2>1, <4>1 DEF L!Range
    <3> QED  BY <3>1 DEF L!ListItems
  <2>3. /\ items \in Seq(SettingsWords)
        /\ {<<k, Unset, w>> : w \in L!Range(items)} = {x \in L!Facts(data) : x[1] = k}
    BY <2>1, <2>2, LHeld DEF OfWords, Said
  <2> HIDE DEF items
  <2>4. PICK kept : kept = L!Those(items, L!Range(items) \ {a.value})
    OBVIOUS
  <2>5. kept \in Seq(SettingsWords) /\ L!Range(kept) = L!Range(items) \ {a.value}
    BY <2>3, <2>4, ThoseAre, LSequences
  <2>6. Said(k, kept) = {x \in {y \in L!Facts(data) : y[1] = k} : x[3] # a.value}
    <3>1. Said(k, kept) = {<<k, Unset, w>> : w \in L!Range(items) \ {a.value}}
      BY <2>1, <2>5 DEF Said
    <3>2. {<<k, Unset, w>> : w \in L!Range(items) \ {a.value}}
              = {x \in {<<k, Unset, w>> : w \in L!Range(items)} : x[3] # a.value}
      OBVIOUS
    <3> QED  BY <2>3, <3>1, <3>2
  <2>7. L!Gives(L!Facts(data), a)
            = {x \in L!Facts(data) : x[1] # k}
              \cup {x \in {y \in L!Facts(data) : y[1] = k} : x[3] # a.value}
    <3>1. \A x : L!About(a, x) <=> x[1] = k
      BY <2>1 DEF L!About
    <3>2. \A x : ~(L!About(a, x) /\ a.value \in {Unset, x[3]})
                    <=> x[1] # k \/ (x[1] = k /\ x[3] # a.value)
      BY <1>4, <3>1
    <3>3. L!Gives(L!Facts(data), a)
              = {x \in L!Facts(data) : x[1] # k \/ (x[1] = k /\ x[3] # a.value)}
      BY <1>1, <3>2
    <3> HIDE DEF k
    <3>4. \A x : x \in L!Gives(L!Facts(data), a)
                    <=> x \in {y \in L!Facts(data) : y[1] # k}
                        \/ x \in {y \in {z \in L!Facts(data) : z[1] = k} : y[3] # a.value}
      BY <3>3
    <3> QED  BY <3>4
  <2>8. PICK key : key = k
    OBVIOUS
  <2>9. /\ L!Facts(L!Put(data, key, kept)) = {x \in L!Facts(data) : x[1] # key} \cup Said(key, kept)
        /\ OfWords(L!Put(data, key, kept))
    BY <2>5, LPut
  <2> QED  BY <2>1, <2>4, <2>6, <2>7, <2>8, <2>9
<1> QED  BY <1>2, <1>3, <1>4

\* A verb changes what a file says as the command means it to.
LEMMA LGives ==
    ASSUME NEW data, OfWords(data), NEW a \in Commands, L!Allowed(data, a)
    PROVE  /\ L!Facts(L!Changed(data, a)) = L!Gives(L!Facts(data), a)
           /\ OfWords(L!Changed(data, a))
BY LCommands, LSets, LAdds, LRemoves

LEMMA LSays ==
    /\ \A k, v, x : k \in Dicts => (x \in Said(k, v) <=> \E m \in DOMAIN v : x = <<k, m, v[m]>>)
    /\ \A k, v, x : k \in Lists => (x \in Said(k, v) <=> \E w \in L!Range(v) : x = <<k, Unset, w>>)
    /\ \A k, v, x : k \notin Dicts \cup Lists => (x \in Said(k, v) <=> x = <<k, Unset, v>>)
    /\ \A data, x : x \in L!Facts(data) <=> x[1] \in DOMAIN data /\ x \in Said(x[1], data[x[1]])
<1>1. Dicts \cap Lists = {}
  BY SettingsParts DEF L!SettingsAssumption
<1>2. ASSUME NEW k \in Dicts, NEW v, NEW x
      PROVE  x \in Said(k, v) <=> \E m \in DOMAIN v : x = <<k, m, v[m]>>
  <2>1. k \in Dicts /\ k \notin Lists
    BY <1>1
  <2> QED  BY <2>1 DEF Said
<1>3. ASSUME NEW k \in Lists, NEW v, NEW x
      PROVE  x \in Said(k, v) <=> \E w \in L!Range(v) : x = <<k, Unset, w>>
  <2>1. k \in Lists /\ k \notin Dicts
    BY <1>1
  <2> QED  BY <2>1 DEF Said
<1>4. ASSUME NEW k, k \notin Dicts \cup Lists, NEW v, NEW x
      PROVE  x \in Said(k, v) <=> x = <<k, Unset, v>>
  <2>1. k \notin Lists /\ k \notin Dicts
    BY <1>4
  <2> QED  BY <2>1 DEF Said
<1>5. ASSUME NEW data, NEW x
      PROVE  x \in L!Facts(data) <=> x[1] \in DOMAIN data /\ x \in Said(x[1], data[x[1]])
  BY LFacts, LSaid
<1> QED  BY <1>2, <1>3, <1>4, <1>5

\* Two facts are about the same setting.
SameSetting(x, y) == y[1] = x[1] /\ y[2] = x[2]

\* A layer over others says what it says, and what they say that it does not
\* say otherwise; and of a list also what they say.
LEMMA LOver ==
    ASSUME NEW d, NEW m, OfWords(d), OfWords(m)
    PROVE  /\ OfWords(L!Over(d, m))
           /\ \A x : x \in L!Facts(L!Over(d, m)) <=>
                  \/ x \in L!Facts(d)
                  \/ /\ x \in L!Facts(m)
                     /\ x[1] \in Lists \/ ~\E y \in L!Facts(d) : SameSetting(x, y)
<1>1. PICK o : o = L!Over(d, m)
  OBVIOUS
<1>2. /\ DOMAIN o = DOMAIN m \cup DOMAIN d
      /\ \A k \in DOMAIN m \ DOMAIN d : o[k] = m[k]
      /\ \A k \in DOMAIN d \ DOMAIN m : o[k] = d[k]
      /\ \A k \in DOMAIN d \cap DOMAIN m : o[k] = L!Combined(k, m[k], d[k])
  BY <1>1 DEF L!Over
<1>3. Dicts \cap Lists = {}
  BY SettingsParts DEF L!SettingsAssumption
<1>4. ASSUME NEW k \in Lists, k \in DOMAIN d, k \in DOMAIN m
      PROVE  o[k] \in Seq(SettingsWords) /\ L!Range(o[k]) = L!Range(m[k]) \cup L!Range(d[k])
  <2>1. o[k] = m[k] \o d[k] /\ m[k] \in Seq(SettingsWords) /\ d[k] \in Seq(SettingsWords)
    <3>1. k \in Lists /\ k \notin Dicts
      BY <1>3
    <3>2. o[k] = L!Combined(k, m[k], d[k])
      BY <1>2, <1>4
    <3> QED  BY <1>4, <3>1, <3>2 DEF L!Combined, OfWords
  <2>2. PICK u, v : u = m[k] /\ v = d[k]
    OBVIOUS
  <2>3. /\ u \o v \in Seq(SettingsWords) /\ Len(u \o v) = Len(u) + Len(v)
        /\ \A i \in 1..(Len(u) + Len(v)) :
               (u \o v)[i] = IF i <= Len(u) THEN u[i] ELSE v[i - Len(u)]
    BY <2>1, <2>2, ConcatProperties
  <2>4. /\ Len(u) \in Nat /\ Len(v) \in Nat /\ DOMAIN u = 1..Len(u) /\ DOMAIN v = 1..Len(v)
        /\ DOMAIN (u \o v) = 1..(Len(u) + Len(v))
    BY <2>1, <2>2, <2>3, LenProperties
  <2>5. ASSUME NEW w \in L!Range(u \o v) PROVE w \in L!Range(u) \cup L!Range(v)
    <3>1. PICK i \in 1..(Len(u) + Len(v)) : w = (u \o v)[i]
      BY <2>4 DEF L!Range
    <3>2. CASE i <= Len(u)
      BY <2>3, <2>4, <3>1, <3>2 DEF L!Range
    <3>3. CASE ~(i <= Len(u))
      <4>1. i - Len(u) \in DOMAIN v /\ w = v[i - Len(u)]
        BY <2>3, <2>4, <3>1, <3>3
      <4> QED  BY <4>1 DEF L!Range
    <3> QED  BY <3>2, <3>3
  <2>6. ASSUME NEW i \in DOMAIN u PROVE u[i] \in L!Range(u \o v)
    <3>1. i \in 1..(Len(u) + Len(v)) /\ (u \o v)[i] = u[i]
      BY <2>3, <2>4
    <3> QED  BY <2>4, <3>1 DEF L!Range
  <2>7. ASSUME NEW i \in DOMAIN v PROVE v[i] \in L!Range(u \o v)
    <3>1. Len(u) + i \in 1..(Len(u) + Len(v)) /\ (u \o v)[Len(u) + i] = v[i]
      BY <2>3, <2>4
    <3> QED  BY <2>4, <3>1 DEF L!Range
  <2>8. L!Range(u \o v) = L!Range(u) \cup L!Range(v)
    BY <2>5, <2>6, <2>7 DEF L!Range
  <2> QED  BY <2>1, <2>2, <2>3, <2>8
<1>5. OfWords(o)
  BY <1>2, <1>4 DEF OfWords
<1>6. ASSUME NEW x
      PROVE  x \in L!Facts(o) <=>
                  \/ x \in L!Facts(d)
                  \/ /\ x \in L!Facts(m)
                     /\ x[1] \in Lists \/ ~\E y \in L!Facts(d) : SameSetting(x, y)
  <2> DEFINE k == x[1]
             Other(y) == y \in L!Facts(d) /\ SameSetting(x, y)
  <2>1. /\ x \in L!Facts(o) <=> k \in DOMAIN o /\ x \in Said(k, o[k])
        /\ x \in L!Facts(d) <=> k \in DOMAIN d /\ x \in Said(k, d[k])
        /\ x \in L!Facts(m) <=> k \in DOMAIN m /\ x \in Said(k, m[k])
    BY LSays
  <2>2. \A y : Other(y) <=> y[1] = k /\ y[2] = x[2] /\ k \in DOMAIN d /\ y \in Said(k, d[k])
    BY LSays DEF SameSetting
  <2> HIDE DEF Other
  <2>3. CASE k \notin DOMAIN d
    BY <1>2, <2>1, <2>2, <2>3 DEF Other
  <2>4. CASE k \in DOMAIN d /\ k \notin DOMAIN m
    BY <1>2, <2>1, <2>4
  <2>5. CASE k \in DOMAIN d /\ k \in DOMAIN m
    <3>1. o[k] = L!Combined(k, m[k], d[k]) /\ k \in DOMAIN o
      BY <1>2, <2>5
    <3>2. CASE k \in Dicts
      <4>1. k \notin Lists /\ o[k] = L!Updated(m[k], d[k])
        BY <1>3, <3>1, <3>2 DEF L!Combined
      <4>2. PICK u, v, w : u = m[k] /\ v = d[k] /\ w = o[k]
        OBVIOUS
      <4>3. /\ DOMAIN w = DOMAIN u \cup DOMAIN v /\ \A n \in DOMAIN v : w[n] = v[n]
            /\ \A n \in DOMAIN u \ DOMAIN v : w[n] = u[n]
        BY <4>1, <4>2 DEF L!Updated
      <4>4. /\ x \in Said(k, u) <=> \E n \in DOMAIN u : x = <<k, n, u[n]>>
            /\ x \in Said(k, v) <=> \E n \in DOMAIN v : x = <<k, n, v[n]>>
            /\ x \in Said(k, w) <=> \E n \in DOMAIN w : x = <<k, n, w[n]>>
        BY <3>2, LSays
      <4>5. (\E y : Other(y)) <=> x[2] \in DOMAIN v
        <5>1. \A y : y \in Said(k, v) <=> \E n \in DOMAIN v : y = <<k, n, v[n]>>
          BY <3>2, LSays
        <5>2. ASSUME x[2] \in DOMAIN v PROVE \E y : Other(y)
          <6>1. Other(<<k, x[2], v[x[2]]>>)
            BY <2>2, <2>5, <4>2, <5>1, <5>2
          <6> QED  BY <6>1
        <5>3. ASSUME NEW y, Other(y) PROVE x[2] \in DOMAIN v
          BY <2>2, <4>2, <5>1, <5>3
        <5> QED  BY <5>2, <5>3
      <4>6. x \in Said(k, w) <=> x \in Said(k, v) \/ (x \in Said(k, u) /\ x[2] \notin DOMAIN v)
        BY <4>3, <4>4
      <4> QED  BY <2>1, <2>5, <3>1, <4>1, <4>2, <4>5, <4>6 DEF Other
    <3>3. CASE k \in Lists
      <4>1. L!Range(o[k]) = L!Range(m[k]) \cup L!Range(d[k])
        BY <1>4, <2>5, <3>3
      <4>2. x \in Said(k, o[k]) <=> x \in Said(k, d[k]) \/ x \in Said(k, m[k])
        BY <3>3, <4>1, LSays
      <4> QED  BY <2>1, <2>5, <3>1, <3>3, <4>2
    <3>4. CASE k \notin Dicts \cup Lists
      <4>1. o[k] = d[k]
        BY <3>1, <3>4 DEF L!Combined
      <4>2. ASSUME x \in Said(k, m[k]) PROVE \E y : Other(y)
        <5>1. x = <<k, Unset, m[k]>> /\ <<k, Unset, d[k]>> \in Said(k, d[k])
          BY <3>4, <4>2, LSays
        <5>2. Other(<<k, Unset, d[k]>>)
          BY <2>2, <2>5, <5>1
        <5> QED  BY <5>2
      <4> QED  BY <2>1, <2>5, <3>1, <3>4, <4>1, <4>2 DEF Other
    <3> QED  BY <3>2, <3>3, <3>4
  <2> QED  BY <2>3, <2>4, <2>5
<1> QED  BY <1>1, <1>5, <1>6

\* The layers, merged one after another.
LEMMA LMergedUpTo ==
    \E f : /\ f = [n \in 0..Len(Layers) |->
                      IF n = 0 THEN L!Empty
                      ELSE L!Over(sFile[Layers[n]].data, f[n - 1])]
           /\ L!Merged = f[Len(Layers)]
<1> DEFINE Upto(k) == \E f : f = [n \in 0..k |->
                      IF n = 0 THEN L!Empty
                      ELSE L!Over(sFile[Layers[n]].data, f[n - 1])]
<1>1. PICK T : T = {k \in Nat : Upto(k)}
  OBVIOUS
<1>2. Upto(0)
  <2>1. PICK f : f = [n \in 0..0 |-> L!Empty]
    OBVIOUS
  <2>2. f = [n \in 0..0 |-> IF n = 0 THEN L!Empty
                      ELSE L!Over(sFile[Layers[n]].data, f[n - 1])]
    BY <2>1
  <2> QED  BY <2>2
<1>3. ASSUME NEW k \in Nat, Upto(k) PROVE Upto(k + 1)
  <2>1. PICK f : f = [n \in 0..k |->
                      IF n = 0 THEN L!Empty
                      ELSE L!Over(sFile[Layers[n]].data, f[n - 1])]
    BY <1>3
  <2>2. PICK g : g = [n \in 0..(k + 1) |->
                       IF n <= k THEN f[n] ELSE L!Over(sFile[Layers[k + 1]].data, f[k])]
    OBVIOUS
  <2>3. ASSUME NEW n \in 0..(k + 1)
        PROVE  g[n] = IF n = 0 THEN L!Empty ELSE L!Over(sFile[Layers[n]].data, g[n - 1])
    <3>1. CASE n <= k /\ n # 0
      <4>1. g[n] = f[n] /\ g[n - 1] = f[n - 1] /\ n \in 0..k
        BY <2>2, <3>1
      <4> QED  BY <2>1, <3>1, <4>1
    <3>2. CASE n = k + 1
      <4>1. g[n] = L!Over(sFile[Layers[k + 1]].data, f[k]) /\ g[n - 1] = f[k]
        BY <2>2, <3>2
      <4> QED  BY <3>2, <4>1
    <3>3. CASE n = 0
      <4>1. g[0] = f[0] /\ f[0] = L!Empty
        BY <2>1, <2>2
      <4> QED  BY <3>3, <4>1
    <3> QED  BY <3>1, <3>2, <3>3
  <2>4. g = [n \in 0..(k + 1) |-> g[n]]
    BY <2>2
  <2>5. g = [n \in 0..(k + 1) |-> IF n = 0 THEN L!Empty
                                  ELSE L!Over(sFile[Layers[n]].data, g[n - 1])]
    BY <2>3, <2>4
  <2> QED  BY <2>5
<1>4. T = Nat
  <2> HIDE DEF Upto
  <2>1. T \in SUBSET Nat /\ 0 \in T
    BY <1>1, <1>2
  <2>2. \A k \in T : k + 1 \in T
    BY <1>1, <1>3
  <2> QED  BY <2>1, <2>2, Counting
<1>5. Upto(Len(Layers))
  <2>1. Len(Layers) \in Nat
    BY SettingsParts, LenProperties DEF L!SettingsAssumption
  <2> HIDE DEF Upto
  <2> QED  BY <1>1, <1>4, <2>1
<1> QED  BY <1>5, Zenon DEF L!Merged

\* Of the first n layers, the i-th says the fact x and none above it says
\* otherwise.
Shows(i, n, x) ==
    /\ x \in L!Facts(sFile[Layers[i]].data)
    /\ \/ x[1] \in Lists
       \/ \A j \in (i + 1)..n : ~\E y \in L!Facts(sFile[Layers[j]].data) : SameSetting(x, y)

LEMMA LMerged ==
    ASSUME \A i \in 1..Len(Layers) : OfWords(sFile[Layers[i]].data)
    PROVE  /\ OfWords(L!Merged)
           /\ \A x : x \in L!Facts(L!Merged)
                        <=> \E i \in 1..Len(Layers) : Shows(i, Len(Layers), x)
<1>1. Len(Layers) \in Nat
  BY SettingsParts, LenProperties DEF L!SettingsAssumption
<1>2. PICK f : /\ f = [n \in 0..Len(Layers) |->
                          IF n = 0 THEN L!Empty
                          ELSE L!Over(sFile[Layers[n]].data, f[n - 1])]
               /\ L!Merged = f[Len(Layers)]
  BY LMergedUpTo
<1> DEFINE Good(n) ==
      /\ OfWords(f[n])
      /\ \A x : x \in L!Facts(f[n]) <=> \E i \in 1..n : Shows(i, n, x)
<1>3. PICK T : T = {n \in Nat : n <= Len(Layers) => Good(n)}
  OBVIOUS
<1>4. 0 \in T
  <2>1. f[0] = L!Empty /\ DOMAIN L!Empty = {}
    BY <1>1, <1>2 DEF L!Empty
  <2>2. OfWords(f[0]) /\ L!Facts(f[0]) = {}
    BY <2>1, LFacts DEF OfWords
  <2> QED  BY <1>3, <2>2
<1>5. ASSUME NEW n \in T PROVE n + 1 \in T
  <2> SUFFICES ASSUME n + 1 <= Len(Layers) PROVE Good(n + 1)
    BY <1>3, <1>5
  <2>1. n \in Nat /\ n + 1 \in 1..Len(Layers) /\ n + 1 \in 0..Len(Layers) /\ Good(n)
    BY <1>1, <1>3
  <2>2. f[n + 1] = L!Over(sFile[Layers[n + 1]].data, f[n])
    <3>1. \A m \in 0..Len(Layers) :
            f[m] = IF m = 0 THEN L!Empty ELSE L!Over(sFile[Layers[m]].data, f[m - 1])
      BY <1>2
    <3>2. n + 1 # 0 /\ (n + 1) - 1 = n
      BY <2>1
    <3> QED  BY <2>1, <3>1, <3>2
  <2>3. PICK d, m : d = sFile[Layers[n + 1]].data /\ m = f[n]
    OBVIOUS
  <2>4. /\ OfWords(f[n + 1])
        /\ \A x : x \in L!Facts(f[n + 1]) <=>
                  \/ x \in L!Facts(d)
                  \/ /\ x \in L!Facts(m)
                     /\ x[1] \in Lists \/ ~\E y \in L!Facts(d) : SameSetting(x, y)
    <3>1. OfWords(d) /\ OfWords(m)
      BY <2>1, <2>3
    <3>2. f[n + 1] = L!Over(d, m)
      BY <2>2, <2>3
    <3> QED  BY <3>1, <3>2, LOver
  <2>5. ASSUME NEW x
        PROVE  /\ Shows(n + 1, n + 1, x) <=> x \in L!Facts(d)
               /\ \A i \in 1..n : Shows(i, n + 1, x) <=>
                     /\ Shows(i, n, x)
                     /\ x[1] \in Lists \/ ~\E y \in L!Facts(d) : SameSetting(x, y)
    <3> DEFINE Hides(j) == \E y \in L!Facts(sFile[Layers[j]].data) : SameSetting(x, y)
    <3>1. \A i, k : Shows(i, k, x) <=>
             /\ x \in L!Facts(sFile[Layers[i]].data)
             /\ x[1] \in Lists \/ \A j \in (i + 1)..k : ~Hides(j)
      BY DEF Shows
    <3>2. Hides(n + 1) <=> \E y \in L!Facts(d) : SameSetting(x, y)
      BY <2>3
    <3> HIDE DEF Hides
    <3>3. (n + 1 + 1)..(n + 1) = {}
      BY <2>1
    <3>4. \A i \in 1..n : (i + 1)..(n + 1) = ((i + 1)..n) \cup {n + 1}
      BY <2>1
    <3>5. Shows(n + 1, n + 1, x) <=> x \in L!Facts(d)
      BY <2>3, <3>1, <3>3
    <3>6. ASSUME NEW i \in 1..n
          PROVE  Shows(i, n + 1, x) <=> Shows(i, n, x) /\ (x[1] \in Lists \/ ~Hides(n + 1))
      <4>1. (\A j \in (i + 1)..(n + 1) : ~Hides(j))
               <=> (\A j \in (i + 1)..n : ~Hides(j)) /\ ~Hides(n + 1)
        BY <3>4
      <4> QED  BY <3>1, <4>1
    <3> QED  BY <3>2, <3>5, <3>6
  <2>6. ASSUME NEW x
        PROVE  x \in L!Facts(f[n + 1]) <=> \E i \in 1..(n + 1) : Shows(i, n + 1, x)
    <3>1. 1..(n + 1) = 1..n \cup {n + 1}
      BY <2>1
    <3>2. (\E i \in 1..(n + 1) : Shows(i, n + 1, x))
             <=> Shows(n + 1, n + 1, x) \/ \E i \in 1..n : Shows(i, n + 1, x)
      BY <3>1
    <3>3. x \in L!Facts(m) <=> \E i \in 1..n : Shows(i, n, x)
      BY <2>1, <2>3
    <3> QED  BY <2>4, <2>5, <3>2, <3>3
  <2> QED  BY <2>4, <2>6
<1>6. Good(Len(Layers))
  <2>1. T = Nat
    <3> HIDE DEF Good
    <3> QED  BY <1>3, <1>4, <1>5, Counting
  <2> HIDE DEF Good
  <2> QED  BY <1>1, <1>3, <2>1
<1> QED  BY <1>2, <1>6

\* A list without its duplicates.
LEMMA LDistinctUpTo ==
    ASSUME NEW s, Len(s) \in Nat
    PROVE  \E f : /\ f = [n \in 0..Len(s) |->
                             IF n = 0 THEN <<>> ELSE L!Appended(f[n - 1], s[n])]
                  /\ L!Distinct(s) = f[Len(s)]
<1> DEFINE Upto(k) == \E f : f = [n \in 0..k |->
                             IF n = 0 THEN <<>> ELSE L!Appended(f[n - 1], s[n])]
<1>1. PICK T : T = {k \in Nat : Upto(k)}
  OBVIOUS
<1>2. Upto(0)
  <2>1. PICK f : f = [n \in 0..0 |-> <<>>]
    OBVIOUS
  <2>2. f = [n \in 0..0 |-> IF n = 0 THEN <<>> ELSE L!Appended(f[n - 1], s[n])]
    BY <2>1
  <2> QED  BY <2>2
<1>3. ASSUME NEW k \in Nat, Upto(k) PROVE Upto(k + 1)
  <2>1. PICK f : f = [n \in 0..k |->
                             IF n = 0 THEN <<>> ELSE L!Appended(f[n - 1], s[n])]
    BY <1>3
  <2>2. PICK g : g = [n \in 0..(k + 1) |->
                       IF n <= k THEN f[n] ELSE L!Appended(f[k], s[k + 1])]
    OBVIOUS
  <2>3. ASSUME NEW n \in 0..(k + 1)
        PROVE  g[n] = IF n = 0 THEN <<>> ELSE L!Appended(g[n - 1], s[n])
    <3>1. CASE n <= k /\ n # 0
      <4>1. g[n] = f[n] /\ g[n - 1] = f[n - 1] /\ n \in 0..k
        BY <2>2, <3>1
      <4> QED  BY <2>1, <3>1, <4>1
    <3>2. CASE n = k + 1
      <4>1. g[n] = L!Appended(f[k], s[k + 1]) /\ g[n - 1] = f[k]
        BY <2>2, <3>2
      <4> QED  BY <3>2, <4>1
    <3>3. CASE n = 0
      <4>1. g[0] = f[0] /\ f[0] = <<>>
        BY <2>1, <2>2
      <4> QED  BY <3>3, <4>1
    <3> QED  BY <3>1, <3>2, <3>3
  <2>4. g = [n \in 0..(k + 1) |-> g[n]]
    BY <2>2
  <2>5. g = [n \in 0..(k + 1) |-> IF n = 0 THEN <<>> ELSE L!Appended(g[n - 1], s[n])]
    BY <2>3, <2>4
  <2> QED  BY <2>5
<1>4. T = Nat
  <2> HIDE DEF Upto
  <2>1. T \in SUBSET Nat /\ 0 \in T
    BY <1>1, <1>2
  <2>2. \A k \in T : k + 1 \in T
    BY <1>1, <1>3
  <2> QED  BY <2>1, <2>2, Counting
<1>5. Upto(Len(s))
  <2> HIDE DEF Upto
  <2> QED  BY <1>1, <1>4
<1> QED  BY <1>5, Zenon DEF L!Distinct

LEMMA LDistinct ==
    ASSUME NEW V, NEW s \in Seq(V)
    PROVE  L!Range(L!Distinct(s)) = L!Range(s) /\ L!IsInjective(L!Distinct(s))
<1>1. Len(s) \in Nat /\ DOMAIN s = 1..Len(s) /\ \A i \in 1..Len(s) : s[i] \in V
  BY LenProperties, ElementOfSeq
<1>2. PICK f : /\ f = [n \in 0..Len(s) |->
                          IF n = 0 THEN <<>> ELSE L!Appended(f[n - 1], s[n])]
               /\ L!Distinct(s) = f[Len(s)]
  BY <1>1, LDistinctUpTo
<1> DEFINE Good(n) == /\ f[n] \in Seq(V)
                      /\ W!Range(f[n]) = {s[i] : i \in 1..n}
                      /\ W!IsInjective(f[n])
<1>3. PICK T : T = {n \in Nat : n <= Len(s) => Good(n)}
  OBVIOUS
<1>4. 0 \in T
  <2>1. f[0] = <<>>
    BY <1>1, <1>2
  <2>2. {s[i] : i \in 1..0} = {} /\ DOMAIN <<>> = {}
    OBVIOUS
  <2>3. W!Range(<<>>) = {} /\ W!IsInjective(<<>>)
    BY <2>2 DEF W!Range, W!IsInjective
  <2> QED  BY <1>3, <2>1, <2>2, <2>3, EmptySeq
<1>5. ASSUME NEW n \in T PROVE n + 1 \in T
  <2> SUFFICES ASSUME n + 1 <= Len(s) PROVE Good(n + 1)
    BY <1>3, <1>5
  <2>1. n \in Nat /\ n + 1 \in 1..Len(s) /\ n + 1 \in 0..Len(s) /\ Good(n)
    BY <1>1, <1>3
  <2>2. f[n + 1] = L!Appended(f[n], s[n + 1])
    <3>1. \A m \in 0..Len(s) : f[m] = IF m = 0 THEN <<>> ELSE L!Appended(f[m - 1], s[m])
      BY <1>2
    <3>2. n + 1 # 0 /\ (n + 1) - 1 = n
      BY <2>1
    <3> QED  BY <2>1, <3>1, <3>2
  <2>3. {s[i] : i \in 1..(n + 1)} = {s[i] : i \in 1..n} \cup {s[n + 1]}
    <3>1. 1..(n + 1) = 1..n \cup {n + 1}
      BY <2>1
    <3> QED  BY <3>1
  <2>4. PICK t, e : t = f[n] /\ e = s[n + 1]
    OBVIOUS
  <2>5. t \in Seq(V) /\ e \in V /\ W!IsInjective(t)
    BY <1>1, <2>1, <2>4
  <2>6. CASE e \in W!Range(t)
    <3>1. f[n + 1] = t
      BY <2>2, <2>4, <2>6, LSequences DEF L!Appended
    <3> QED  BY <2>1, <2>3, <2>4, <2>6, <3>1
  <2>7. CASE e \notin W!Range(t)
    <3>1. f[n + 1] = Append(t, e)
      BY <2>2, <2>4, <2>7, LSequences DEF L!Appended
    <3> QED  BY <2>1, <2>3, <2>4, <2>5, <2>7, <3>1, LAppended
  <2> QED  BY <2>6, <2>7
<1>6. Good(Len(s))
  <2>1. T = Nat
    <3> HIDE DEF Good
    <3> QED  BY <1>3, <1>4, <1>5, Counting
  <2> HIDE DEF Good
  <2> QED  BY <1>1, <1>3, <2>1
<1>7. W!Range(s) = {s[i] : i \in 1..Len(s)}
  BY <1>1 DEF W!Range
<1> QED  BY <1>2, <1>6, <1>7, LSequences

LEMMA LLoaded ==
    ASSUME OfWords(L!Merged)
    PROVE  /\ L!Facts(L!Loaded) = L!Facts(L!Merged)
           /\ \A k \in Lists \cap DOMAIN L!Loaded : L!IsInjective(L!Loaded[k])
<1>1. PICK m, o : m = L!Merged /\ o = L!Loaded
  OBVIOUS
<1>2. DOMAIN o = DOMAIN m /\ \A k \in DOMAIN m : o[k] = IF k \in Lists THEN L!Distinct(m[k]) ELSE m[k]
  BY <1>1 DEF L!Loaded
<1>3. ASSUME NEW k \in Lists, k \in DOMAIN m
      PROVE  L!Range(o[k]) = L!Range(m[k]) /\ L!IsInjective(o[k])
  <2>1. PICK s : s = m[k]
    OBVIOUS
  <2>2. s \in Seq(SettingsWords)
    BY <1>1, <1>3, <2>1 DEF OfWords
  <2> QED  BY <1>2, <1>3, <2>1, <2>2, LDistinct
<1>4. Dicts \cap Lists = {}
  BY SettingsParts DEF L!SettingsAssumption
<1>5. ASSUME NEW k \in DOMAIN m PROVE Said(k, o[k]) = Said(k, m[k])
  <2>1. CASE k \in Lists
    BY <1>3, <1>4, <1>5, <2>1 DEF Said
  <2>2. CASE k \notin Lists
    BY <1>2, <1>5, <2>2
  <2> QED  BY <2>1, <2>2
<1>6. \A x : x \in L!Facts(o) <=> x \in L!Facts(m)
  BY <1>2, <1>5, LFacts
<1> QED  BY <1>1, <1>2, <1>3, <1>6

------------------------------------------------------------------------------
(* The editors keep each file at what the finished commands gave. *)

\* An editor at work holds what its file will say when its command is done.
LWorks(c) ==
    \E p \in {"open", "write"} : \E l \in L!Range(Layers) : \E a \in Commands : \E d :
        /\ c = [at |-> p, layer |-> l, command |-> a, data |-> d]
        /\ OfWords(d) /\ L!Facts(d) = L!Gives(sGiven[l], a)
LEdits == \A e \in Editors : sEdit[e] = L!NoEdit \/ LWorks(sEdit[e])

\* No file has two editors.
LAlone ==
    \A e, d \in Editors : /\ sEdit[e] # L!NoEdit /\ sEdit[d] # L!NoEdit
                          /\ sEdit[e].layer = sEdit[d].layer
                          => e = d

\* A file that can be read says what was given.
LKeeps ==
    \A l \in L!Range(Layers) :
        sFile[l].is # "torn" => /\ OfWords(sFile[l].data)
                                /\ L!Facts(sFile[l].data) = sGiven[l]

LTypes == /\ sFile = [l \in L!Range(Layers) |-> sFile[l]]
          /\ sEdit = [e \in Editors |-> sEdit[e]]
          /\ sGiven = [l \in L!Range(Layers) |-> sGiven[l]]

SettingsInv == LTypes /\ LEdits /\ LAlone /\ LKeeps

LEMMA LEmpty == OfWords(L!Empty) /\ L!Facts(L!Empty) = {}
<1>1. DOMAIN L!Empty = {}
  BY DEF L!Empty
<1> QED  BY <1>1, LFacts DEF OfWords

LEMMA SettingsInit == L!Init => SettingsInv
BY LEmpty DEF L!Init, SettingsInv, LTypes, LEdits, LAlone, LKeeps, L!Missing

LEMMA LStillWorks ==
    ASSUME SettingsInv, sGiven' = sGiven, NEW b \in Editors, sEdit'[b] = sEdit[b]
    PROVE  sEdit'[b] = L!NoEdit \/ LWorks(sEdit[b])'
<1>1. sEdit[b] = L!NoEdit \/ LWorks(sEdit[b])
  BY DEF SettingsInv, LEdits
<1>2. CASE LWorks(sEdit[b])
  BY <1>2 DEF LWorks
<1> QED  BY <1>1, <1>2

LEMMA SettingsBegin ==
    ASSUME SettingsInv, NEW e \in Editors, NEW l \in L!Range(Layers), NEW a \in Commands,
           L!Begin(e, l, a)
    PROVE  SettingsInv'
<1> DEFINE d == L!Changed(sFile[l].data, a)
           c == [at |-> "open", layer |-> l, command |-> a, data |-> d]
<1>1. /\ sEdit' = [sEdit EXCEPT ![e] = c]
      /\ UNCHANGED <<sFile, sGiven>>
      /\ ~\E b \in Editors : sEdit[b] # L!NoEdit /\ sEdit[b].layer = l
      /\ sFile[l].is # "torn" /\ L!Allowed(sFile[l].data, a)
  BY DEF L!Begin
<1>2. OfWords(d) /\ L!Facts(d) = L!Gives(sGiven[l], a)
  <2>1. OfWords(sFile[l].data) /\ L!Facts(sFile[l].data) = sGiven[l]
    BY <1>1 DEF SettingsInv, LKeeps
  <2> QED  BY <1>1, <2>1, LGives
<1> HIDE DEF d
<1>3. sEdit'[e] = c /\ \A b \in Editors \ {e} : sEdit'[b] = sEdit[b]
  BY <1>1 DEF SettingsInv, LTypes
<1>4. LTypes'
  BY <1>1 DEF SettingsInv, LTypes
<1>5. LEdits'
  <2>1. ASSUME NEW b \in Editors \ {e} PROVE sEdit'[b] = L!NoEdit \/ LWorks(sEdit[b])'
    BY <1>1, <1>3, LStillWorks
  <2>2. LWorks(sEdit[e])'
    BY <1>1, <1>2, <1>3 DEF LWorks
  <2> QED  BY <2>1, <2>2 DEF LEdits
<1>6. LAlone'
  <2>1. c.layer = l
    OBVIOUS
  <2> QED  BY <1>1, <1>3, <2>1 DEF SettingsInv, LAlone
<1>7. LKeeps'
  BY <1>1 DEF SettingsInv, LKeeps
<1> QED  BY <1>4, <1>5, <1>6, <1>7 DEF SettingsInv

\* What an editor at work holds, taken apart.
LEMMA LWork ==
    ASSUME SettingsInv, NEW e \in Editors, sEdit[e] # L!NoEdit
    PROVE  /\ sEdit[e].layer \in L!Range(Layers) /\ sEdit[e].command \in Commands
           /\ sEdit[e] = [at |-> sEdit[e].at, layer |-> sEdit[e].layer,
                          command |-> sEdit[e].command, data |-> sEdit[e].data]
           /\ OfWords(sEdit[e].data)
           /\ L!Facts(sEdit[e].data) = L!Gives(sGiven[sEdit[e].layer], sEdit[e].command)
<1>1. PICK p \in {"open", "write"}, l \in L!Range(Layers), a \in Commands :
        \E d : /\ sEdit[e] = [at |-> p, layer |-> l, command |-> a, data |-> d]
               /\ OfWords(d) /\ L!Facts(d) = L!Gives(sGiven[l], a)
  BY DEF SettingsInv, LEdits, LWorks
<1>2. PICK d : /\ sEdit[e] = [at |-> p, layer |-> l, command |-> a, data |-> d]
               /\ OfWords(d) /\ L!Facts(d) = L!Gives(sGiven[l], a)
  BY <1>1
<1> QED  BY <1>2

LEMMA SettingsOpen ==
    ASSUME SettingsInv, NEW e \in Editors, L!Open(e)
    PROVE  SettingsInv'
<1>1. /\ sEdit[e].at = "open"
      /\ sFile' = [sFile EXCEPT ![sEdit[e].layer] = L!TornFile]
      /\ sEdit' = [sEdit EXCEPT ![e].at = "write"]
      /\ sGiven' = sGiven
  BY DEF L!Open
<1>2. sEdit[e] # L!NoEdit
  BY <1>1 DEF L!NoEdit
<1>3. PICK l, a, d : l = sEdit[e].layer /\ a = sEdit[e].command /\ d = sEdit[e].data
  OBVIOUS
<1>4. /\ l \in L!Range(Layers) /\ a \in Commands
      /\ sEdit[e] = [at |-> "open", layer |-> l, command |-> a, data |-> d]
      /\ OfWords(d) /\ L!Facts(d) = L!Gives(sGiven[l], a)
  BY <1>1, <1>2, <1>3, LWork
<1>5. /\ sEdit'[e] = [at |-> "write", layer |-> l, command |-> a, data |-> d]
      /\ \A b \in Editors \ {e} : sEdit'[b] = sEdit[b]
  BY <1>1, <1>4 DEF SettingsInv, LTypes
<1>6. /\ sFile'[l] = L!TornFile
      /\ \A k \in L!Range(Layers) \ {l} : sFile'[k] = sFile[k]
  BY <1>1, <1>3, <1>4 DEF SettingsInv, LTypes
<1>7. LTypes'
  BY <1>1 DEF SettingsInv, LTypes
<1>8. LEdits'
  <2>1. ASSUME NEW b \in Editors \ {e} PROVE sEdit'[b] = L!NoEdit \/ LWorks(sEdit[b])'
    BY <1>1, <1>5, LStillWorks
  <2>2. LWorks(sEdit[e])'
    BY <1>1, <1>4, <1>5 DEF LWorks
  <2> QED  BY <2>1, <2>2 DEF LEdits
<1>9. LAlone'
  <2>1. sEdit'[e].layer = sEdit[e].layer
    BY <1>3, <1>5
  <2> QED  BY <1>2, <1>5, <2>1 DEF SettingsInv, LAlone
<1>10. LKeeps'
  <2>1. L!TornFile.is = "torn"
    BY DEF L!TornFile
  <2> QED  BY <1>1, <1>6, <2>1 DEF SettingsInv, LKeeps
<1> QED  BY <1>7, <1>8, <1>9, <1>10 DEF SettingsInv

LEMMA SettingsWrite ==
    ASSUME SettingsInv, NEW e \in Editors, L!Write(e)
    PROVE  SettingsInv'
<1>1. PICK l, a, d : l = sEdit[e].layer /\ a = sEdit[e].command /\ d = sEdit[e].data
  OBVIOUS
<1>2. /\ sEdit[e].at = "write"
      /\ sFile' = [sFile EXCEPT ![l] = L!Object(d)]
      /\ sGiven' = [sGiven EXCEPT ![l] = L!Gives(@, a)]
      /\ sEdit' = [sEdit EXCEPT ![e] = L!NoEdit]
  BY <1>1 DEF L!Write
<1>3. sEdit[e] # L!NoEdit
  BY <1>2 DEF L!NoEdit
<1>4. /\ l \in L!Range(Layers) /\ a \in Commands
      /\ OfWords(d) /\ L!Facts(d) = L!Gives(sGiven[l], a)
  BY <1>1, <1>3, LWork
<1>5. sEdit'[e] = L!NoEdit /\ \A b \in Editors \ {e} : sEdit'[b] = sEdit[b]
  BY <1>2 DEF SettingsInv, LTypes
<1>6. /\ sFile'[l] = L!Object(d) /\ sGiven'[l] = L!Gives(sGiven[l], a)
      /\ \A k \in L!Range(Layers) \ {l} : sFile'[k] = sFile[k] /\ sGiven'[k] = sGiven[k]
  BY <1>2, <1>4 DEF SettingsInv, LTypes
<1>7. LTypes'
  BY <1>2 DEF SettingsInv, LTypes
<1>8. LEdits'
  <2>1. ASSUME NEW b \in Editors \ {e}, sEdit[b] # L!NoEdit PROVE LWorks(sEdit[b])'
    <3>1. PICK p \in {"open", "write"}, k \in L!Range(Layers), m \in Commands :
            \E v : /\ sEdit[b] = [at |-> p, layer |-> k, command |-> m, data |-> v]
                   /\ OfWords(v) /\ L!Facts(v) = L!Gives(sGiven[k], m)
      BY <2>1 DEF SettingsInv, LEdits, LWorks
    <3>2. k # l
      BY <1>1, <1>3, <2>1, <3>1 DEF SettingsInv, LAlone
    <3>3. sGiven'[k] = sGiven[k]
      BY <1>6, <3>2
    <3>4. sEdit'[b] = sEdit[b]
      BY <1>5, <2>1
    <3> QED  BY <3>1, <3>3, <3>4 DEF LWorks
  <2> QED  BY <1>5, <2>1 DEF LEdits
<1>9. LAlone'
  BY <1>5 DEF SettingsInv, LAlone
<1>10. LKeeps'
  <2>1. L!Object(d).data = d
    BY DEF L!Object
  <2> QED  BY <1>4, <1>6, <2>1 DEF SettingsInv, LKeeps
<1> QED  BY <1>7, <1>8, <1>9, <1>10 DEF SettingsInv

LEMMA SettingsCrash ==
    ASSUME SettingsInv, NEW e \in Editors, L!Crash(e)
    PROVE  SettingsInv'
<1>1. sEdit' = [sEdit EXCEPT ![e] = L!NoEdit] /\ UNCHANGED <<sFile, sGiven>>
  BY DEF L!Crash
<1>2. sEdit'[e] = L!NoEdit /\ \A b \in Editors \ {e} : sEdit'[b] = sEdit[b]
  BY <1>1 DEF SettingsInv, LTypes
<1>3. LTypes' /\ LKeeps'
  BY <1>1 DEF SettingsInv, LTypes, LKeeps
<1>4. LEdits'
  <2>1. ASSUME NEW b \in Editors \ {e} PROVE sEdit'[b] = L!NoEdit \/ LWorks(sEdit[b])'
    BY <1>1, <1>2, LStillWorks
  <2> QED  BY <1>2, <2>1 DEF LEdits
<1>5. LAlone'
  BY <1>2 DEF SettingsInv, LAlone
<1> QED  BY <1>3, <1>4, <1>5 DEF SettingsInv

LEMMA SettingsDiscard ==
    ASSUME SettingsInv, NEW l \in L!Range(Layers), L!Discard(l)
    PROVE  SettingsInv'
<1>1. /\ \A e \in Editors : sEdit[e] = L!NoEdit
      /\ sFile' = [sFile EXCEPT ![l] = L!Missing]
      /\ sGiven' = [sGiven EXCEPT ![l] = {}]
      /\ sEdit' = sEdit
  BY DEF L!Discard
<1>2. /\ sFile'[l] = L!Missing /\ sGiven'[l] = {}
      /\ \A k \in L!Range(Layers) \ {l} : sFile'[k] = sFile[k] /\ sGiven'[k] = sGiven[k]
  BY <1>1 DEF SettingsInv, LTypes
<1>3. LTypes'
  BY <1>1 DEF SettingsInv, LTypes
<1>4. LEdits' /\ LAlone'
  BY <1>1 DEF LEdits, LAlone
<1>5. LKeeps'
  <2>1. L!Missing.data = L!Empty
    BY DEF L!Missing
  <2> QED  BY <1>2, <2>1, LEmpty DEF SettingsInv, LKeeps
<1> QED  BY <1>3, <1>4, <1>5 DEF SettingsInv

LEMMA SettingsStep == SettingsInv /\ [L!Next]_(L!vars) => SettingsInv'
<1> SUFFICES ASSUME SettingsInv, [L!Next]_(L!vars) PROVE SettingsInv'
  OBVIOUS
<1>1. ASSUME NEW e \in Editors, NEW l \in L!Range(Layers), NEW a \in Commands, L!Begin(e, l, a)
      PROVE  SettingsInv'
  BY <1>1, SettingsBegin
<1>2. ASSUME NEW e \in Editors, L!Open(e) \/ L!Write(e) \/ L!Crash(e)
      PROVE  SettingsInv'
  BY <1>2, SettingsOpen, SettingsWrite, SettingsCrash
<1>3. ASSUME NEW l \in L!Range(Layers), L!Discard(l)
      PROVE  SettingsInv'
  BY <1>3, SettingsDiscard
<1>4. CASE UNCHANGED L!vars
  BY <1>4 DEF L!vars, SettingsInv, LTypes, LEdits, LWorks, LAlone, LKeeps
<1> QED  BY <1>1, <1>2, <1>3, <1>4 DEF L!Next

\* What the finished commands mean together, layer by layer.
LEMMA LEffective ==
    ASSUME \A l \in L!Range(Layers) : L!Facts(sFile[l].data) = sGiven[l]
    PROVE  \A x : x \in L!Effective <=> \E i \in 1..Len(Layers) : Shows(i, Len(Layers), x)
<1>1. /\ Len(Layers) \in Nat /\ DOMAIN Layers = 1..Len(Layers)
      /\ \A i, j \in 1..Len(Layers) : Layers[i] = Layers[j] => i = j
  BY SettingsParts, LenProperties DEF L!SettingsAssumption, L!IsInjective
<1>2. ASSUME NEW i \in 1..Len(Layers)
      PROVE  L!Position(Layers[i]) = i /\ Layers[i] \in L!Range(Layers)
  BY <1>1 DEF L!Position, L!Range
<1>3. ASSUME NEW l \in L!Range(Layers) PROVE \E i \in 1..Len(Layers) : l = Layers[i]
  BY <1>1 DEF L!Range
<1>4. ASSUME NEW i \in 1..Len(Layers), NEW x
      PROVE  L!Shadowed(Layers[i], x)
                <=> \E j \in (i + 1)..Len(Layers) :
                        \E y \in L!Facts(sFile[Layers[j]].data) : SameSetting(x, y)
  <2>1. ASSUME L!Shadowed(Layers[i], x)
        PROVE  \E j \in (i + 1)..Len(Layers) :
                   \E y \in L!Facts(sFile[Layers[j]].data) : SameSetting(x, y)
    <3>1. PICK h \in L!Range(Layers) :
            /\ L!Position(h) > L!Position(Layers[i])
            /\ \E y \in sGiven[h] : y[1] = x[1] /\ y[2] = x[2]
      BY <2>1 DEF L!Shadowed
    <3>2. PICK j \in 1..Len(Layers) : h = Layers[j]
      BY <1>3
    <3>3. j > i
      BY <1>2, <3>1, <3>2
    <3>4. j \in (i + 1)..Len(Layers)
      BY <1>1, <3>3
    <3>5. \E y \in L!Facts(sFile[Layers[j]].data) : SameSetting(x, y)
      BY <3>1, <3>2 DEF SameSetting
    <3> QED  BY <3>4, <3>5
  <2>2. ASSUME NEW j \in (i + 1)..Len(Layers),
               \E y \in L!Facts(sFile[Layers[j]].data) : SameSetting(x, y)
        PROVE  L!Shadowed(Layers[i], x)
    <3>1. j \in 1..Len(Layers) /\ j > i
      BY <1>1
    <3>2. L!Position(Layers[j]) > L!Position(Layers[i]) /\ Layers[j] \in L!Range(Layers)
      BY <1>2, <3>1
    <3>3. \E y \in sGiven[Layers[j]] : y[1] = x[1] /\ y[2] = x[2]
      BY <2>2, <3>2 DEF SameSetting
    <3> QED  BY <3>2, <3>3 DEF L!Shadowed
  <2> QED  BY <2>1, <2>2
<1>5. ASSUME NEW i \in 1..Len(Layers), NEW x
      PROVE  Shows(i, Len(Layers), x)
                <=> x \in sGiven[Layers[i]] /\ (x[1] \in Lists \/ ~L!Shadowed(Layers[i], x))
  BY <1>2, <1>4 DEF Shows
<1>6. \A x : x \in L!Effective <=> \E l \in L!Range(Layers) :
            x \in sGiven[l] /\ (x[1] \in Lists \/ ~L!Shadowed(l, x))
  BY DEF L!Effective
<1> QED  BY <1>2, <1>3, <1>5, <1>6

LEMMA SettingsLoad == SettingsInv => L!LoadsWhatWasSet
<1> SUFFICES ASSUME SettingsInv, ~L!Unreadable
             PROVE  /\ L!Facts(L!Loaded) = L!Effective
                    /\ \A k \in Lists \cap DOMAIN L!Loaded : L!IsInjective(L!Loaded[k])
  BY DEF L!LoadsWhatWasSet
<1>1. \A l \in L!Range(Layers) : OfWords(sFile[l].data) /\ L!Facts(sFile[l].data) = sGiven[l]
  BY DEF SettingsInv, LKeeps, L!Unreadable
<1>2. \A i \in 1..Len(Layers) : Layers[i] \in L!Range(Layers)
  BY SettingsParts, LenProperties DEF L!SettingsAssumption, L!Range
<1>3. /\ OfWords(L!Merged)
      /\ \A x : x \in L!Facts(L!Merged)
                   <=> \E i \in 1..Len(Layers) : Shows(i, Len(Layers), x)
  BY <1>1, <1>2, LMerged
<1>4. \A x : x \in L!Effective <=> \E i \in 1..Len(Layers) : Shows(i, Len(Layers), x)
  BY <1>1, LEffective
<1>5. \A x : x \in L!Facts(L!Loaded) <=> x \in L!Effective
  BY <1>3, <1>4, LLoaded
<1>6. L!Facts(L!Loaded) = L!Effective
  <2>1. PICK F, H : F = L!Facts(L!Loaded) /\ H = L!Effective
    OBVIOUS
  <2> QED  BY <1>5, <2>1
<1> QED  BY <1>3, <1>6, LLoaded

\* molmcp config and load_settings: a load of files that can be read gives what
\* the finished commands said, the higher layer first, and a list no value
\* twice, whatever editors died on the way, where no two edit a file at once.
THEOREM LoadsWhatWasSetAlways == PartsSpec => []LoadsWhatWasSet
<1>1. PartsInit => (part = "settings" => SettingsInv)
  BY SettingsPart, SettingsInit
<1>2. (part = "settings" => SettingsInv) /\ [PartsNext]_partsVars
          => (part = "settings" => SettingsInv)'
  <2>1. CASE part = "settings"
    BY <2>1, SettingsPart, SettingsStep
  <2>2. CASE part # "settings"
    BY <2>2, OtherPart
  <2> QED  BY <2>1, <2>2
<1>3. (part = "settings" => SettingsInv) => LoadsWhatWasSet
  BY SettingsLoad DEF LoadsWhatWasSet
<1> QED  BY <1>1, <1>2, <1>3, PTL DEF PartsSpec

=============================================================================
