------------------------------ MODULE Queries -------------------------------
(* What is asked of a stored graph: the symbols that a text matches, re-     *)
(* ranked by what the graph knows of them, and walks over its relations.     *)
EXTENDS Linking

CONSTANTS
    Lexical,        \* what full-text search may answer: sequences of ids
    Pool,           \* a search re-ranks this many times its limit
    Limits, Depths, \* what agents ask for
    KindOrder,      \* the kinds, the preferred one for a name first
    KindPrior,      \* KindPrior[k]: of a kind, in 1/10000
    WExported, WCovered, WLexical,  \* weights, in 1/10000
    WCallers        \* WCallers[n]: of n callers: it grows with n

QueriesAssumption ==
    /\ \A s \in Lexical : s \in Seq(Range(s)) /\ IsInjective(s)
    /\ Pool \in Nat /\ Limits \subseteq Nat /\ Depths \subseteq Nat
    /\ \A k \in NodeKinds : KindPrior[k] \in Nat
    /\ {WExported, WCovered, WLexical} \subseteq Nat
    /\ \A m, n \in DOMAIN WCallers :
           {WCallers[m], WCallers[n]} \subseteq Nat /\ (m <= n => WCallers[m] <= WCallers[n])

VARIABLE answer     \* the last answer: [op, asked, limit, got]

queryVars == <<vars, answer>>

NoAnswer == [op |-> "none", asked |-> <<>>, limit |-> 0, got |-> <<>>]

InitQueries == Init /\ answer = NoAnswer

BuildStep == Build /\ UNCHANGED answer

(* Questions change nothing: one of each stored graph is enough. *)
Ready == phase = "stored" /\ answer = NoAnswer

Stored(i) == \E n \in Range(nodes) : Id(n) = i
NodeAt(i) == CHOOSE n \in Range(nodes) : Id(n) = i
FirstOf(s, n) == SubSeq(s, 1, IF n <= Len(s) THEN n ELSE Len(s))
There(s) == Those(s, {i \in Range(s) : Stored(i)})

EdgesTo(i, kinds) == Those(edges, {e \in Range(edges) : e.target = i /\ e.kind \in kinds})
EdgesFrom(i, kind) == Those(edges, {e \in Range(edges) : e.source = i /\ e.kind = kind})

------------------------------------------------------------------------------
(* Search *)

CountTo(i, kind, provs) ==
    Cardinality({k \in DOMAIN edges :
        edges[k].target = i /\ edges[k].kind = kind /\ edges[k].prov \in provs})

AnyProv == {"ast", "resolved", "heuristic"}
AllCallers(i) == CountTo(i, "calls", AnyProv)
(* A guessed caller does not count. *)
Callers(i) == CountTo(i, "calls", {"resolved"})
Covered(i, kind) == CountTo(i, kind, AnyProv) > 0
Asset(i) == NodeAt(i).exported /\ NodeAt(i).kind \notin Modules

When(b, w) == IF b THEN w ELSE 0

Score(s, k) ==
    WLexical \div k + KindPrior[NodeAt(s[k]).kind] + When(Asset(s[k]), WExported)
    + WCallers[Callers(s[k])]
    + When(Covered(s[k], "exemplifies"), WCovered) + When(Covered(s[k], "tests"), WCovered)

(* The better score first; of equal scores the better match. *)
Better(s, j, k) == Score(s, j) > Score(s, k) \/ (Score(s, j) = Score(s, k) /\ j < k)
Ranked(s) ==
    {[n \in DOMAIN order |-> s[order[n]]] : order \in
        {o \in SetToSeqs(DOMAIN s) : \A m, n \in DOMAIN o : m < n => ~Better(s, o[n], o[m])}}

Search(limit) ==
    /\ Ready
    /\ \E s \in Lexical :
        LET there == FirstOf(There(s), limit * Pool) IN
        \E ranked \in Ranked(there) :
            answer' = [op |-> "search", asked |-> there, limit |-> limit,
                       got |-> FirstOf(ranked, limit)]
    /\ UNCHANGED vars

------------------------------------------------------------------------------
(* Walks *)

(* The node a dotted name stands for: of several the one of the best kind. *)
Position(k) == CHOOSE n \in DOMAIN KindOrder : KindOrder[n] = k
BestNode(q) ==
    LET named == {n \in Range(nodes) : n.qual = q} IN
    CHOOSE n \in named : \A m \in named : Position(n.kind) <= Position(m.kind)

Targets(es) == [k \in DOMAIN es |-> es[k].target]
Sources(es) == [k \in DOMAIN es |-> es[k].source]
Added(s, i) == IF i \in Range(s) THEN s ELSE Append(s, i)
Distinct(s) ==
    LET upTo[n \in 0..Len(s)] == IF n = 0 THEN <<>> ELSE Added(upTo[n - 1], s[n]) IN
    upTo[Len(s)]

(* Sources of edges are nodes of the graph; one is listed once. *)
Load(ids, limit) == FirstOf(There(Distinct(ids)), limit)

Outgoing(q, kind, limit) ==
    /\ Ready /\ \E n \in Range(nodes) : n.qual = q
    /\ answer' = [op |-> "outgoing", asked |-> <<Id(BestNode(q)), kind>>, limit |-> limit,
                  got |-> Load(Targets(EdgesFrom(Id(BestNode(q)), kind)), limit)]
    /\ UNCHANGED vars

Incoming(q, kinds, limit) ==
    /\ Ready /\ \E n \in Range(nodes) : n.qual = q
    /\ answer' = [op |-> "incoming", asked |-> <<Id(BestNode(q)), kinds>>, limit |-> limit,
                  got |-> Load(Sources(EdgesTo(Id(BestNode(q)), kinds)), limit)]
    /\ UNCHANGED vars

(* Callers and subclasses, breadth first: of each node of the frontier the   *)
(* sources of its call edges, then those of its extends edges, that were not *)
(* reached before.                                                           *)
SpreadFrom(frontier) ==
    FlattenSeq([k \in DOMAIN frontier |->
        Sources(EdgesTo(frontier[k], {"calls"})) \o Sources(EdgesTo(frontier[k], {"extends"}))])

ImpactUnseen(i, depth) ==
    LET wave[d \in 0..depth] ==
            IF d = 0 THEN <<<<i>>, <<>>>>
            ELSE LET new == Distinct(SpreadFrom(wave[d - 1][1])) IN
                 <<new, wave[d - 1][2] \o new>> IN
    wave[depth][2]

NextWave(i, before) ==
    LET spread == SpreadFrom(before[1])
        new == Distinct(Those(spread, Range(spread) \ ({i} \cup Range(before[2])))) IN
    <<new, before[2] \o new>>
Impact(i, depth) ==
    LET wave[d \in 0..depth] ==
            IF d = 0 THEN <<<<i>>, <<>>>> ELSE NextWave(i, wave[d - 1]) IN
    wave[depth][2]

AskImpact(q, depth, limit) ==
    /\ Ready /\ \E n \in Range(nodes) : n.qual = q
    /\ answer' = [op |-> "impact", asked |-> <<Id(BestNode(q)), depth>>, limit |-> limit,
                  got |-> Load(Impact(Id(BestNode(q)), depth), limit)]
    /\ UNCHANGED vars

(* Conventions whose scope is a prefix of the name, the longest scope first. *)
ScopeOf(c, q) == Max({0} \cup {Len(s) : s \in {t \in Scopes[c] : IsPrefix(t, q)}})
Conventions(q, limit) ==
    /\ Ready /\ \E n \in Range(nodes) : n.qual = q
    /\ LET there == {c \in DOMAIN Scopes : Stored(Id(CatalogNode("convention", c))) /\ ScopeOf(c, q) > 0} IN
       answer' = [op |-> "conventions", asked |-> q, limit |-> limit,
                  got |-> FirstOf(SetToSortSeq(there, LAMBDA c, d :
                                      ScopeOf(c, q) > ScopeOf(d, q)), limit)]
    /\ UNCHANGED vars

NextQueries ==
    \/ BuildStep
    \/ \E limit \in Limits :
        \/ Search(limit)
        \/ \E q \in {n.qual : n \in Range(nodes)} :
            \/ \E kinds \in {{"calls"}, {"tests"}, {"exemplifies"}, {"extends", "implements"},
                            {"calls", "imports", "extends", "tests", "exemplifies",
                             "governs", "provides"}} :
                  Incoming(q, kinds, limit)
            \/ \E kind \in {"calls", "provides"} : Outgoing(q, kind, limit)
            \/ Conventions(q, limit)
            \/ \E depth \in Depths : AskImpact(q, depth, limit)

SpecQueries == InitQueries /\ [][NextQueries]_queryVars

------------------------------------------------------------------------------
(* A call edge that is not marked as a guess has one meaning only: no other  *)
(* symbol of that kind is what the caller's file imports under the name or,  *)
(* if it imports none, is a class of the name, where no file imports two     *)
(* modules of one name (resolve.py:139, 217).                                *)
CallsMeant ==
    phase = "stored" =>
        \A e \in Range(edges) : e.kind = "calls" /\ e.prov = "resolved" =>
            LET x == e.target[2][Len(e.target[2])]
                Known(n) == \E r \in Range(Imports(e.file)) :
                    Absolute(r) = n.qual \/ (Absolute(r) = Front(n.qual))
                Rivals == {n \in Range(nodes) :
                    n.kind = e.target[3] /\ Id(n) # e.source /\ Name(n) = x} IN
            \/ Cardinality({n \in Rivals : Known(n)}) = 1 /\ Known(NodeAt(e.target))
            \/ e.target[3] = "class" /\ Cardinality(Rivals) = 1

Dominates(i, j) ==
    /\ KindPrior[NodeAt(i).kind] >= KindPrior[NodeAt(j).kind]
    /\ CountTo(i, "calls", {"resolved"}) >= CountTo(j, "calls", {"resolved"})
    /\ Asset(j) => Asset(i)
    /\ \A k \in {"exemplifies", "tests"} : Covered(j, k) => Covered(i, k)

(* A symbol that matches better and is behind another in nothing the graph   *)
(* is sure of stays before it: a guessed caller buys no rank (query.py:77,   *)
(* ranking.py:12).                                                           *)
RankEarned ==
    answer.op = "search" =>
        \A j, k \in DOMAIN answer.asked :
            LET a == answer.asked[j]
                b == answer.asked[k] IN
            j < k /\ Dominates(a, b) /\ b \in Range(answer.got) =>
                \E m, n \in DOMAIN answer.got :
                    m < n /\ answer.got[m] = a /\ answer.got[n] = b

(* What calls or extends one of S, and what leads to i in at most d steps,   *)
(* for each d up to the depth.                                               *)
Users(S) ==
    {e.source : e \in {d \in Range(edges) : d.target \in S /\ d.kind \in {"calls", "extends"}}}
Within(i, depth) ==
    LET within[d \in 0..depth] ==
            IF d = 0 THEN {i} ELSE within[d - 1] \cup Users(within[d - 1]) IN
    within

(* Within its limit impact lists each symbol once, exactly those from which  *)
(* a chain of at most depth calls and subclass relations leads to the asked  *)
(* one, nearer ones first, whatever cycles there are (query.py:198).         *)
ImpactExact ==
    answer.op = "impact" =>
        LET from == answer.asked[1]
            depth == answer.asked[2]
            within == Within(from, depth)
            Distance(i) == Min({d \in 0..depth : i \in within[d]})
            all == within[depth] \ {from}
            got == answer.got IN
        /\ Range(got) \subseteq all /\ IsInjective(got)
        /\ Len(got) = Min({answer.limit, Cardinality(all)})
        /\ \A j, k \in DOMAIN got : j < k => Distance(got[j]) <= Distance(got[k])

(* An import that names a module of the snapshot relative to its own package *)
(* is linked to it (docs/concepts/discovery.md:34).                          *)
RelativeImportsLinked ==
    phase = "stored" =>
        \A f \in SourceFiles \ broken : \A s \in Range(source[f]) :
            LET base == IF f \in PackageFiles THEN Module[f] ELSE Front(Module[f]) IN
            s.op = "from" /\ s.dots = 1 =>
                \A n \in Range(nodes) : n.qual = base \o s.mod \o <<s.name>> =>
                    \E e \in Range(edges) : /\ e.source = Id(ModuleNode(f))
                                            /\ e.kind = "imports"
                                            /\ NodeAt(e.target).qual = n.qual
=============================================================================
