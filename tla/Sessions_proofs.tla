--------------------------- MODULE Sessions_proofs ---------------------------
(***************************************************************************)
(* Theorems about Sessions, for any number of workers and ids, where an id *)
(* is closed by one call at a time: what an opener and a closer know of    *)
(* the registry between two lock regions, and what follows for the stages. *)
(***************************************************************************)
EXTENDS Sessions, TLAPS

Opener(t) == pc[t] \in {"build", "subscribe", "register", "release"}
Closer(t) == pc[t] \in {"close", "drop"}

\* An opener holds the claim of its id and the stage it named.
OpenerInv ==
    \A t \in Threads : Opener(t) =>
        /\ id[t] \in opening /\ stage[t] \in 1..opens /\ named[stage[t]] = id[t]

\* ... and nobody else opens that id.
OneOpener ==
    \A t, u \in Threads : Opener(t) /\ Opener(u) /\ id[t] = id[u] => t = u

\* Until it registers, nothing is registered there.
Unregistered ==
    \A t \in Threads :
        pc[t] \in {"build", "subscribe", "register"} => sessions[id[t]] = NoStage

\* A closer's session stays registered until it drops it.
CloserInv ==
    \A t \in Threads : Closer(t) =>
        /\ id[t] \in Ids /\ sessions[id[t]] = stage[t] /\ stage[t] # NoStage
        /\ pc[t] = "drop" => stage[t] \notin live \ leaked

OneCloser ==
    \A t, u \in Threads : Closer(t) /\ Closer(u) /\ id[t] = id[u] => t = u

\* A stage is registered under the id it was built for.
RegisteredInv ==
    \A i \in Ids : sessions[i] # NoStage =>
        sessions[i] \in 1..opens /\ named[sessions[i]] = i

Inv == /\ TypeOK /\ OpenerInv /\ OneOpener /\ Unregistered
       /\ CloserInv /\ OneCloser /\ RegisteredInv /\ NoOrphans

LEMMA InitInv == Init => Inv
<1> SUFFICES ASSUME Init PROVE Inv
  OBVIOUS
<1> USE SessionsAssumption DEF Init
<1>1. TypeOK
  BY DEF TypeOK, NoStage, NoId
<1>2. OpenerInv /\ OneOpener /\ Unregistered /\ CloserInv /\ OneCloser
  BY DEF OpenerInv, OneOpener, Unregistered, CloserInv, OneCloser, Opener, Closer
<1>3. RegisteredInv /\ NoOrphans
  BY DEF RegisteredInv, NoOrphans
<1> QED
  BY <1>1, <1>2, <1>3 DEF Inv

LEMMA ClaimInv ==
    ASSUME Inv, NEW t \in Threads, NEW i \in Ids, Claim(t, i)
    PROVE  Inv'
<1> USE SessionsAssumption DEF Claim, Goto, Free, NewStage, NoStage
<1>0. TypeOK
  BY DEF Inv
<1>1. TypeOK'
  BY <1>0 DEF TypeOK
<1>2. OpenerInv'
  BY <1>0 DEF Inv, OpenerInv, Opener, TypeOK
<1>3. OneOpener'
  BY <1>0 DEF Inv, OneOpener, OpenerInv, Opener, TypeOK
<1>4. Unregistered'
  BY <1>0 DEF Inv, Unregistered, TypeOK
<1>5. CloserInv'
  BY <1>0 DEF Inv, CloserInv, Closer, TypeOK
<1>6. OneCloser'
  BY <1>0 DEF Inv, OneCloser, Closer, TypeOK
<1>7. RegisteredInv'
  BY <1>0 DEF Inv, RegisteredInv, TypeOK
<1>8. NoOrphans'
  BY <1>0 DEF Inv, NoOrphans, TypeOK
<1> QED
  BY <1>1, <1>2, <1>3, <1>4, <1>5, <1>6, <1>7, <1>8 DEF Inv

LEMMA LookupInv ==
    ASSUME SerialClose, Inv, NEW t \in Threads, NEW i \in Ids, Lookup(t, i)
    PROVE  Inv'
<1> USE SessionsAssumption DEF Lookup, Goto, NoStage
<1>0. TypeOK
  BY DEF Inv
<1>1. TypeOK'
  BY <1>0 DEF TypeOK
<1>2. OpenerInv'
  BY <1>0 DEF Inv, OpenerInv, Opener, TypeOK
<1>3. OneOpener'
  BY <1>0 DEF Inv, OneOpener, Opener, TypeOK
<1>4. Unregistered'
  BY <1>0 DEF Inv, Unregistered, TypeOK
<1>5. CloserInv'
  BY <1>0 DEF Inv, CloserInv, Closer, TypeOK
<1>6. OneCloser'
  BY <1>0 DEF Inv, OneCloser, Closer, Closing, TypeOK
<1>7. RegisteredInv'
  BY <1>0 DEF Inv, RegisteredInv, TypeOK
<1>8. NoOrphans'
  BY <1>0 DEF Inv, NoOrphans, TypeOK
<1> QED
  BY <1>1, <1>2, <1>3, <1>4, <1>5, <1>6, <1>7, <1>8 DEF Inv

\* The steps of a call that leave the registry and the claims alone.
LEMMA QuietStepInv ==
    ASSUME Inv, NEW t \in Threads,
           \/ Build(t) \/ BuildFails(t) \/ Subscribe(t) \/ SubscribeFails(t)
           \/ CloseStage(t) \/ CloseFails(t)
    PROVE  Inv'
<1> USE SessionsAssumption
    DEF Build, BuildFails, Subscribe, SubscribeFails, CloseStage, CloseFails,
        Goto, Fault, AfterFailure, Closed, NoStage
<1>0. TypeOK
  BY DEF Inv
<1>a. /\ sessions' = sessions /\ opening' = opening /\ id' = id /\ stage' = stage
      /\ opens' = opens /\ named' = named
      /\ \E p \in {"subscribe", "register", "release", "drop"} :
            pc' = [pc EXCEPT ![t] = p] /\ (p = "drop" <=> pc[t] = "close")
      /\ pc[t] \in {"build", "subscribe", "close"}
  OBVIOUS
<1>b. live' \subseteq live \cup {stage[t]} /\ leaked' \subseteq leaked \cup {stage[t]}
      /\ leaked \subseteq leaked' /\ faults' \in 0..MaxFaults
  BY <1>0 DEF TypeOK
<1>c. \A u \in Threads : /\ Opener(u) <=> Opener(u)'
                         /\ Closer(u) <=> Closer(u)'
  BY <1>0, <1>a DEF Opener, Closer, TypeOK
<1>d. stage[t] \in 1..opens
  BY <1>0, <1>a DEF Inv, OpenerInv, Opener, CloserInv, Closer, RegisteredInv
<1>1. TypeOK'
  <2>1. pc' \in [Threads -> {"idle", "build", "subscribe", "register", "release",
                             "close", "drop"}]
    BY <1>0, <1>a DEF TypeOK
  <2>2. live' \subseteq 1..opens /\ leaked' \subseteq 1..opens
    BY <1>0, <1>b, <1>d DEF TypeOK
  <2> QED
    BY <1>0, <1>a, <1>b, <2>1, <2>2 DEF TypeOK
<1>2. OpenerInv' /\ OneOpener'
  BY <1>a, <1>c DEF Inv, OpenerInv, OneOpener
<1>3. Unregistered'
  BY <1>0, <1>a DEF Inv, Unregistered, TypeOK
<1>4. OneCloser'
  BY <1>a, <1>c DEF Inv, OneCloser
<1>5. RegisteredInv'
  BY <1>a DEF Inv, RegisteredInv
<1>6. CloserInv'
  <2> SUFFICES ASSUME NEW u \in Threads, Closer(u)'
               PROVE  /\ id[u] \in Ids /\ sessions[id[u]] = stage[u] /\ stage[u] # NoStage
                      /\ pc'[u] = "drop" => stage[u] \notin live' \ leaked'
    BY <1>a DEF CloserInv
  <2>1. /\ id[u] \in Ids /\ sessions[id[u]] = stage[u] /\ stage[u] # NoStage
        /\ pc[u] = "drop" => stage[u] \notin live \ leaked
    BY <1>c DEF Inv, CloserInv
  <2>2. CASE u = t
    BY <1>0, <2>1, <2>2 DEF TypeOK, Closer
  <2>3. CASE u # t
    <3>1. pc'[u] = pc[u]
      BY <1>0, <1>a, <2>3 DEF TypeOK
    <3>2. Build(t) => stage[t] # stage[u]
      <4> SUFFICES ASSUME Build(t), stage[t] = stage[u] PROVE FALSE
        OBVIOUS
      <4>1. named[stage[t]] = id[t] /\ sessions[id[t]] = NoStage
        BY DEF Inv, OpenerInv, Opener, Unregistered
      <4>2. named[stage[u]] = id[u]
        BY <2>1 DEF Inv, RegisteredInv
      <4> QED
        BY <2>1, <4>1, <4>2
    <3> QED
      BY <1>b, <2>1, <3>1, <3>2
  <2> QED
    BY <2>2, <2>3
<1>7. NoOrphans'
  <2> SUFFICES ASSUME NEW n \in live' \ leaked'
               PROVE  \/ sessions[named[n]] = n
                      \/ \E u \in Threads : pc'[u] \in {"subscribe", "register"}
                                            /\ stage[u] = n
    BY <1>a DEF NoOrphans
  <2>1. CASE Build(t) /\ n = stage[t]
    BY <1>0, <2>1 DEF TypeOK
  <2>2. CASE n \in live \ leaked
    <3>1. CASE sessions[named[n]] = n
      BY <3>1
    <3>2. ASSUME NEW u \in Threads, pc[u] \in {"subscribe", "register"}, stage[u] = n
          PROVE  pc'[u] \in {"subscribe", "register"}
      BY <1>0, <3>2 DEF TypeOK
    <3> QED
      BY <2>2, <3>1, <3>2 DEF Inv, NoOrphans
  <2> QED
    BY <1>b, <2>1, <2>2
<1> QED
  BY <1>1, <1>2, <1>3, <1>4, <1>5, <1>6, <1>7 DEF Inv

LEMMA RegisterInv ==
    ASSUME Inv, NEW t \in Threads, Register(t)
    PROVE  Inv'
<1> USE SessionsAssumption DEF Register, Goto, NoStage
<1>0. TypeOK
  BY DEF Inv
<1>a. /\ id[t] \in opening /\ id[t] \in Ids /\ stage[t] \in 1..opens
      /\ named[stage[t]] = id[t] /\ sessions[id[t]] = NoStage
  BY <1>0 DEF Inv, OpenerInv, Opener, Unregistered, TypeOK
<1>1. TypeOK'
  BY <1>0, <1>a DEF TypeOK
<1>2. OpenerInv' /\ OneOpener'
  BY <1>0 DEF Inv, OpenerInv, OneOpener, Opener, TypeOK
<1>3. Unregistered'
  BY <1>0, <1>a DEF Inv, Unregistered, OneOpener, Opener, TypeOK
<1>4. CloserInv'
  BY <1>0, <1>a DEF Inv, CloserInv, Closer, TypeOK
<1>5. OneCloser'
  BY <1>0 DEF Inv, OneCloser, Closer, TypeOK
<1>6. RegisteredInv'
  BY <1>0, <1>a DEF Inv, RegisteredInv, TypeOK
<1>7. NoOrphans'
  <2> SUFFICES ASSUME NEW n \in live \ leaked
               PROVE  \/ sessions'[named[n]] = n
                      \/ \E u \in Threads : pc'[u] \in {"subscribe", "register"}
                                            /\ stage[u] = n
    BY DEF NoOrphans
  <2>0. n \in 1..opens /\ opens \in 0..MaxOpens /\ sessions \in [Ids -> 0..MaxOpens]
    BY <1>0 DEF TypeOK
  <2>1. CASE n = stage[t]
    BY <1>a, <2>0, <2>1
  <2>2. CASE n # stage[t] /\ sessions[named[n]] = n
    <3>1. named[n] # id[t]
      BY <1>a, <2>0, <2>2
    <3> QED
      BY <2>0, <2>2, <3>1
  <2>3. ASSUME n # stage[t], NEW u \in Threads, pc[u] \in {"subscribe", "register"},
               stage[u] = n
        PROVE  pc'[u] \in {"subscribe", "register"}
    BY <1>0, <2>3 DEF TypeOK
  <2> QED
    BY <2>1, <2>2, <2>3 DEF Inv, NoOrphans
<1> QED
  BY <1>1, <1>2, <1>3, <1>4, <1>5, <1>6, <1>7 DEF Inv

LEMMA ReleaseInv ==
    ASSUME Inv, NEW t \in Threads, Release(t)
    PROVE  Inv'
<1> USE SessionsAssumption DEF Release, Return, NoStage
<1>0. TypeOK
  BY DEF Inv
<1>1. TypeOK'
  BY <1>0 DEF TypeOK
<1>2. OpenerInv'
  BY <1>0 DEF Inv, OpenerInv, OneOpener, Opener, TypeOK
<1>3. OneOpener' /\ Unregistered'
  BY <1>0 DEF Inv, OneOpener, Unregistered, Opener, TypeOK
<1>4. CloserInv' /\ OneCloser'
  BY <1>0 DEF Inv, CloserInv, OneCloser, Closer, TypeOK
<1>5. RegisteredInv' /\ NoOrphans'
  BY <1>0 DEF Inv, RegisteredInv, NoOrphans, TypeOK
<1> QED
  BY <1>1, <1>2, <1>3, <1>4, <1>5 DEF Inv

LEMMA DropInv ==
    ASSUME Inv, NEW t \in Threads, Drop(t)
    PROVE  Inv'
<1> USE SessionsAssumption DEF Drop, Return, NoStage
<1>0. TypeOK
  BY DEF Inv
<1>a. /\ id[t] \in Ids /\ sessions[id[t]] = stage[t]
      /\ stage[t] # NoStage /\ stage[t] \notin live \ leaked
  BY DEF Inv, CloserInv, Closer
<1>1. TypeOK'
  <2>a. sessions' = [sessions EXCEPT ![id[t]] = 0]
    OBVIOUS
  <2>b. sessions \in [Ids -> 0..MaxOpens] /\ 0 \in 0..MaxOpens
    BY <1>0 DEF TypeOK
  <2>1. sessions' \in [Ids -> 0..MaxOpens]
    BY ONLY <2>a, <2>b
  <2>2. pc' \in [Threads -> {"idle", "build", "subscribe", "register", "release",
                             "close", "drop"}]
    BY <1>0 DEF TypeOK
  <2>3. id' \in [Threads -> Ids \cup {NoId}] /\ stage' \in [Threads -> 0..MaxOpens]
    BY <1>0 DEF TypeOK
  <2> QED
    BY <1>0, <2>1, <2>2, <2>3 DEF TypeOK
<1>2. OpenerInv' /\ OneOpener'
  BY <1>0 DEF Inv, OpenerInv, OneOpener, Opener, TypeOK
<1>3. Unregistered'
  BY <1>0 DEF Inv, Unregistered, OpenerInv, Opener, TypeOK
<1>4. CloserInv'
  BY <1>0 DEF Inv, CloserInv, OneCloser, Closer, TypeOK
<1>5. OneCloser'
  BY <1>0 DEF Inv, OneCloser, Closer, TypeOK
<1>6. RegisteredInv'
  BY <1>0 DEF Inv, RegisteredInv, TypeOK
<1>7. NoOrphans'
  BY <1>0, <1>a DEF Inv, NoOrphans, TypeOK
<1> QED
  BY <1>1, <1>2, <1>3, <1>4, <1>5, <1>6, <1>7 DEF Inv

LEMMA NextInv ==
    ASSUME SerialClose
    PROVE  Inv /\ [Next]_vars => Inv'
<1> SUFFICES ASSUME Inv, [Next]_vars PROVE Inv'
  OBVIOUS
<1>1. ASSUME NEW t \in Threads, NEW i \in Ids, Claim(t, i) PROVE Inv'
  BY <1>1, ClaimInv
<1>2. ASSUME NEW t \in Threads, NEW i \in Ids, Lookup(t, i) PROVE Inv'
  BY <1>2, LookupInv
<1>3. ASSUME NEW t \in Threads, Step(t) PROVE Inv'
  BY <1>3, QuietStepInv, RegisterInv, ReleaseInv, DropInv DEF Step
<1>4. CASE UNCHANGED vars
  <2>1. TypeOK'
    BY <1>4 DEF vars, Inv, TypeOK
  <2>2. OpenerInv' /\ OneOpener' /\ Unregistered'
    BY <1>4 DEF vars, Inv, OpenerInv, OneOpener, Unregistered, Opener
  <2>3. CloserInv' /\ OneCloser'
    BY <1>4 DEF vars, Inv, CloserInv, OneCloser, Closer
  <2>4. RegisteredInv' /\ NoOrphans'
    BY <1>4 DEF vars, Inv, RegisteredInv, NoOrphans
  <2> QED
    BY <2>1, <2>2, <2>3, <2>4 DEF Inv
<1> QED
  BY <1>1, <1>2, <1>3, <1>4 DEF Next

LEMMA InvAlways ==
    ASSUME SerialClose
    PROVE  Spec => []Inv
<1>1. Init => Inv
  BY InitInv
<1>2. Inv /\ [Next]_vars => Inv'
  BY NextInv
<1> QED
  BY <1>1, <1>2, PTL DEF Spec

-----------------------------------------------------------------------------
(* The promises *)

\* Every variable stays in its domain.
THEOREM TypeCorrect ==
    ASSUME SerialClose
    PROVE  Spec => []TypeOK
<1>1. Inv => TypeOK
  BY DEF Inv
<1> QED
  BY <1>1, InvAlways, PTL

\* A live stage that no failure gave up is registered, or its open is running.
THEOREM NoOrphansAlways ==
    ASSUME SerialClose
    PROVE  Spec => []NoOrphans
<1>1. Inv => NoOrphans
  BY DEF Inv
<1> QED
  BY <1>1, InvAlways, PTL

\* However opens and closes interleave, an id never has two live stages.
THEOREM OneStagePerIdAlways ==
    ASSUME SerialClose
    PROVE  Spec => []OneStagePerId
<1>1. Inv => OneStagePerId
  <2> SUFFICES ASSUME Inv, NEW n \in live \ leaked, NEW m \in live \ leaked,
                      named[n] = named[m]
               PROVE  n = m
    BY DEF OneStagePerId
  <2> DEFINE Holds(t, k) == pc[t] \in {"subscribe", "register"} /\ stage[t] = k
  <2>0. n # NoStage /\ m # NoStage
    BY DEF Inv, TypeOK, NoStage
  <2>1. /\ sessions[named[n]] = n \/ \E t \in Threads : Holds(t, n)
        /\ sessions[named[m]] = m \/ \E t \in Threads : Holds(t, m)
    BY DEF Inv, NoOrphans
  <2>2. \A t \in Threads, k \in {n, m} : Holds(t, k) =>
           Opener(t) /\ id[t] = named[k] /\ sessions[named[k]] = NoStage
    BY DEF Inv, OpenerInv, Unregistered, Opener
  <2>3. \A t, u \in Threads : Holds(t, n) /\ Holds(u, m) => n = m
    BY <2>2 DEF Inv, OneOpener
  <2> HIDE DEF Holds
  <2> QED
    BY <2>0, <2>1, <2>2, <2>3
<1> QED
  BY <1>1, InvAlways, PTL

\* A registered session is unregistered, never replaced.
THEOREM NeverReplacedAlways ==
    ASSUME SerialClose
    PROVE  Spec => NeverReplaced
<1>1. Inv /\ [Next]_vars =>
        [\A i \in Ids : sessions[i] # NoStage =>
            sessions'[i] \in {sessions[i], NoStage}]_vars
  <2> SUFFICES ASSUME Inv, [Next]_vars, NEW i \in Ids, sessions[i] # NoStage
               PROVE  sessions'[i] \in {sessions[i], NoStage}
    OBVIOUS
  <2>0. sessions \in [Ids -> 0..MaxOpens]
    BY DEF Inv, TypeOK
  <2>1. ASSUME NEW t \in Threads, Register(t)
        PROVE  sessions'[i] = sessions[i]
    BY <2>0, <2>1 DEF Register, Inv, Unregistered
  <2>2. ASSUME NEW t \in Threads, Drop(t)
        PROVE  sessions'[i] \in {sessions[i], NoStage}
    BY <2>0, <2>2 DEF Drop
  <2>3. CASE sessions' = sessions
    BY <2>3
  <2> QED
    BY <2>1, <2>2, <2>3 DEF Next, Step, Claim, Build, BuildFails, Subscribe,
       SubscribeFails, Release, Lookup, CloseStage, CloseFails, vars
<1> QED
  BY <1>1, InvAlways, PTL DEF Spec, NeverReplaced

=============================================================================
