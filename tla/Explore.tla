------------------------------ MODULE Explore -------------------------------
(* How the collection answers a task: the registry and each selected source  *)
(* are searched on their own, the ranked channels are fused, every hit is    *)
(* described, and hits and details are fitted into a budget of characters.   *)
EXTENDS Integers, Sequences, SequencesExt, FiniteSetsExt, Functions, Subsequences

CONSTANTS
    Order,          \* the sources, in the order of their names
    Registry,       \* the registry's channel
    Items,          \* Items[ch]: what channel ch can find
    Namespace,      \* Namespace[x]: of a source or a registry item
    Kind,           \* Kind[i]: of an item
    HitSize, DetailSize, IdSize,
                    \* characters of a hit, of its whole detail and of the
                    \* keys that a compact detail keeps
    EnvelopeSize,   \* of a pack without items and without its used_chars
    ActionSize,     \* of one suggested action
    ErrorSize,      \* of a detail that only says what went wrong
    LabelSize,      \* of the "source" key of a compact detail
    Suggested,      \* hits that get a suggested action
    Limit,          \* hits of an answer
    Oversample,     \* a channel is asked for Limit times this many
    RrfK,           \* the constant of reciprocal rank fusion
    Unit,           \* what scores are counted in parts of
    Budgets, KindFilters, NamespaceFilters,  \* what agents ask for
    NoFilter,            \* no filter
    MaxFound,       \* bound: results of one channel
    MaxFaults       \* bound: sources and descriptions that fail

Sources == Range(Order)
AllItems == UNION Range(Items)

ExploreAssumption ==
    /\ Order \in Seq(Sources) /\ Registry \notin Sources
    /\ DOMAIN Items = Sources \cup {Registry} /\ IsFiniteSet(AllItems)
    /\ \A c, d \in DOMAIN Items : c # d => Items[c] \cap Items[d] = {}
    /\ \A i \in AllItems : {HitSize[i], DetailSize[i], IdSize[i]} \subseteq Nat \ {0}
    /\ {EnvelopeSize, ActionSize, ErrorSize, LabelSize, Suggested, RrfK, MaxFaults} \subseteq Nat
    /\ {Limit, Oversample, MaxFound, Unit} \subseteq Nat \ {0} /\ Budgets \subseteq Nat
    /\ \A r \in 1..MaxFound : Unit % (RrfK + r) = 0

VARIABLES
    phase,
    registry,       \* whether one is configured: molmcp ships none
    ask,            \* [sources, namespaces, kinds, budget]: the request
    found,          \* found[ch]: what the channel's own ranking is
    state,          \* state[s]: "new", "ok", "error" or "filtered"
    channels,       \* the searched channels, in order: <<channel, items>>
    faults,
    hits,           \* the fused ranking
    details,        \* what describing them gave: [item, size, id, named]
    keptHits, keptDetails,
    omitted,        \* [hits, details]: how many of each were left out
    used, truncated, clipped

answerVars == <<hits, details>>
packVars == <<keptHits, keptDetails, omitted, used, truncated, clipped>>
vars == <<phase, registry, ask, found, state, channels, faults, answerVars, packVars>>

First(s, n) == SubSeq(s, 1, Min({n, Len(s)}))

PoolLimit == Limit * Oversample

(* Characters of a number: packs are shorter than 100000. *)
Digits(n) ==
    IF n < 10 THEN 1 ELSE IF n < 100 THEN 2 ELSE IF n < 1000 THEN 3 ELSE IF n < 10000 THEN 4 ELSE 5

Fail == faults < MaxFaults /\ faults' = faults + 1

Init ==
    /\ phase = "registry" /\ registry \in BOOLEAN
    /\ ask \in [sources : SUBSET Sources, namespaces : NamespaceFilters,
                kinds : KindFilters, budget : Budgets]
    /\ found \in {f \in [DOMAIN Items -> SeqOf(AllItems, MaxFound)] :
                    /\ \A c \in DOMAIN Items : Range(f[c]) \subseteq Items[c]
                    /\ registry \/ f[Registry] = <<>>}
    /\ state = [s \in Sources |-> "new"] /\ channels = <<>> /\ faults = 0
    /\ hits = <<>> /\ details = <<>> /\ keptHits = <<>> /\ keptDetails = <<>>
    /\ omitted = [hits |-> 0, details |-> 0]
    /\ used = 0 /\ truncated = FALSE /\ clipped = FALSE

------------------------------------------------------------------------------
(* Federated search *)

OfKind(i) == ask.kinds = NoFilter \/ Kind[i] \in ask.kinds

InNamespace(x) == ask.namespaces # NoFilter => Namespace[x] \in ask.namespaces

(* The registry ranks within its pool; what it should have filtered out but *)
(* did not is dropped after that.                                           *)
RegistryResults ==
    Those(First(found[Registry], PoolLimit), {i \in Items[Registry] : OfKind(i) /\ InNamespace(i)})

(* A source is told the kind if there is only one; of several kinds the      *)
(* others are dropped after ranking.                                         *)
SourceResults(s) ==
    IF ask.kinds # NoFilter /\ Cardinality(ask.kinds) = 1
    THEN First(Those(found[s], {i \in Items[s] : OfKind(i)}), PoolLimit)
    ELSE Those(First(found[s], PoolLimit), {i \in Items[s] : OfKind(i)})

Results(ch) == IF ch = Registry THEN RegistryResults ELSE SourceResults(ch)

SearchRegistry ==
    /\ phase = "registry"
    /\ \/ registry /\ channels' = <<<<Registry, RegistryResults>>>> /\ UNCHANGED faults
       \/ registry /\ Fail /\ UNCHANGED channels
       \/ ~registry /\ UNCHANGED <<channels, faults>>
    /\ phase' = "sources"
    /\ UNCHANGED <<registry, ask, found, state, answerVars, packVars>>

(* The sources are searched in the order of their names. *)
Position(c) == IF c = Registry THEN 0 ELSE CHOOSE n \in DOMAIN Order : Order[n] = c
Waiting == {s \in ask.sources : state[s] = "new"}

(* A source that fails adds no channel and the others go on; one outside the *)
(* namespaces is not opened.                                                 *)
SearchSource ==
    /\ phase = "sources"
    /\ \E s \in Waiting :
       /\ \A t \in Waiting : Position(s) <= Position(t)
       /\ \/ /\ ~InNamespace(s) /\ state' = [state EXCEPT ![s] = "filtered"]
             /\ UNCHANGED <<channels, faults>>
          \/ /\ InNamespace(s) /\ state' = [state EXCEPT ![s] = "ok"]
             /\ channels' = Append(channels, <<s, SourceResults(s)>>) /\ UNCHANGED faults
          \/ /\ InNamespace(s) /\ Fail
             /\ state' = [state EXCEPT ![s] = "error"] /\ UNCHANGED channels
    /\ UNCHANGED <<phase, registry, ask, found, answerVars, packVars>>

(* Reciprocal rank fusion, in parts of a common denominator.  Of an item     *)
(* that a channel lists twice the first rank counts.                         *)
Ranks(i, c) == {r \in DOMAIN channels[c][2] : channels[c][2][r] = i}
Listing(i) == {c \in DOMAIN channels : Ranks(i, c) # {}}
ScoreTwice(i) ==
    MapThenSumSet(LAMBDA p : Unit \div (RrfK + p[2]),
                  {p \in (DOMAIN channels) \X (1..MaxFound) : p[2] \in Ranks(i, p[1])})
Score(i) == SumFunction([c \in Listing(i) |-> Unit \div (RrfK + Min(Ranks(i, c)))])
BestRank(i) == Min({Min(Ranks(i, c)) : c \in Listing(i)})

Before(i, j) ==
    \/ Score(i) > Score(j)
    \/ /\ Score(i) = Score(j)
       /\ \/ BestRank(i) < BestRank(j)
          \/ BestRank(i) = BestRank(j) /\ Min(Listing(i)) < Min(Listing(j))

(* Ties are broken by the name. *)
Fuse ==
    /\ phase = "sources" /\ Waiting = {}
    /\ \E ranked \in SetToSeqs({i \in AllItems : Listing(i) # {}}) :
        /\ \A m, n \in DOMAIN ranked : m < n => ~Before(ranked[n], ranked[m])
        /\ hits' = First(ranked, Limit)
    /\ phase' = "describe"
    /\ UNCHANGED <<registry, ask, found, state, channels, faults, details, packVars>>

------------------------------------------------------------------------------
(* Details *)

Item(i) == [item |-> i, size |-> DetailSize[i], id |-> IdSize[i], whole |-> TRUE]
Error(i) == [item |-> i, size |-> ErrorSize, id |-> Min({ErrorSize, IdSize[i]}), whole |-> TRUE]

(* Every hit in turn is described, found to be gone, or reported with the    *)
(* error that describing it raised: only the registry's are caught.          *)
Describe ==
    /\ phase = "describe" /\ hits # <<>>
    /\ \E outcome \in [1..Len(hits) -> {"detail", "gone", "error"}] :
        LET failed == {n \in DOMAIN hits : outcome[n] # "detail"}
            Detail(n) == IF outcome[n] = "error" THEN Error(hits[n]) ELSE Item(hits[n])
            there == Those([n \in DOMAIN hits |-> n], {n \in DOMAIN hits : outcome[n] # "gone"}) IN
        /\ \A n \in DOMAIN hits : outcome[n] = "error" => hits[n] \in Items[Registry]
        /\ faults + Cardinality(failed) <= MaxFaults
        /\ faults' = faults + Cardinality(failed)
        /\ details' = [n \in DOMAIN there |-> Detail(there[n])]
    /\ used' = EnvelopeSize + Digits(ask.budget)
    /\ phase' = "hits"
    /\ UNCHANGED <<registry, ask, found, state, channels, hits, keptHits, keptDetails, omitted,
                   truncated, clipped>>

(* What describing a source's hit raises ends the exploration. *)
DescribeRaises ==
    /\ phase = "describe" /\ \E n \in DOMAIN hits : hits[n] \notin Items[Registry]
    /\ Fail
    /\ phase' = "failed"
    /\ UNCHANGED <<registry, ask, found, state, channels, answerVars, packVars>>

NothingFound ==
    /\ phase = "describe" /\ hits = <<>>
    /\ used' = EnvelopeSize + Digits(ask.budget) /\ phase' = "hits"
    /\ UNCHANGED <<registry, ask, found, state, channels, faults, answerVars, keptHits,
                   keptDetails, omitted, truncated, clipped>>

------------------------------------------------------------------------------
(* Fitting *)

KeepHit ==
    /\ phase = "hits" /\ Len(keptHits) < Len(hits)
    /\ LET hit == hits[Len(keptHits) + 1] IN
       /\ used + HitSize[hit] <= ask.budget
       /\ keptHits' = Append(keptHits, hit) /\ used' = used + HitSize[hit]
    /\ UNCHANGED <<phase, registry, ask, found, state, channels, faults, answerVars, keptDetails,
                   omitted, truncated, clipped>>

(* The first hit that does not fit ends the hits, and the details of those   *)
(* left out go with them.                                                    *)
HitsDone ==
    /\ phase = "hits"
    /\ keptHits # hits => used + HitSize[hits[Len(keptHits) + 1]] > ask.budget
    /\ omitted' = [omitted EXCEPT !.hits = Len(hits) - Len(keptHits)]
    /\ details' = Those(details, {d \in Range(details) : d.item \in Range(keptHits)})
    /\ phase' = "details"
    /\ UNCHANGED <<registry, ask, found, state, channels, faults, hits, keptHits, keptDetails,
                   used, truncated, clipped>>

KeepDetail ==
    /\ phase = "details" /\ Len(keptDetails) < Len(details)
    /\ LET d == details[Len(keptDetails) + 1] IN
       /\ used + d.size <= ask.budget
       /\ keptDetails' = Append(keptDetails, d) /\ used' = used + d.size
    /\ UNCHANGED <<phase, registry, ask, found, state, channels, faults, answerVars, keptHits,
                   omitted, truncated, clipped>>

(* The keys that identify the item, then as much of the label as there is    *)
(* room for.                                                                 *)
Compact(d, room) ==
    [d EXCEPT !.size = IF room > d.id THEN Min({room, d.id + LabelSize}) ELSE d.id,
              !.whole = FALSE]

(* The first detail that does not fit is kept compact if that fits; the ones *)
(* after it are left out.                                                    *)
DetailsDone ==
    /\ phase = "details"
    /\ LET n == Len(keptDetails)
           room == Max({ask.budget - used, 0}) IN
       \/ /\ n = Len(details)
          /\ UNCHANGED <<keptDetails, omitted, clipped>>
       \/ /\ n < Len(details) /\ used + details[n + 1].size > ask.budget
          /\ IF room > 0 /\ details[n + 1].id <= room
             THEN /\ keptDetails' = Append(keptDetails, Compact(details[n + 1], room))
                  /\ omitted' = [omitted EXCEPT !.details = Len(details) - n - 1]
                  /\ clipped' = TRUE
             ELSE /\ omitted' = [omitted EXCEPT !.details = Len(details) - n]
                  /\ UNCHANGED <<keptDetails, clipped>>
    /\ truncated' = (omitted'.hits > 0 \/ omitted'.details > 0 \/ clipped')
    /\ phase' = "check"
    /\ UNCHANGED <<registry, ask, found, state, channels, faults, answerVars, keptHits, used>>

SizeOf(u) ==
    EnvelopeSize + Digits(u)
    + SumFunction([n \in DOMAIN keptHits |-> HitSize[keptHits[n]]])
    + SumFunction([n \in DOMAIN keptDetails |-> keptDetails[n].size])
    + ActionSize * Min({Suggested, Len(keptHits)})

(* The suggested actions were not counted: shed from the tail until all fits *)
(* or nothing is left.                                                       *)
ShedWithGap ==
    /\ phase = "check" /\ SizeOf(0) > ask.budget
    /\ \/ /\ keptHits # <<>> /\ keptHits' = Front(keptHits)
          /\ omitted' = [omitted EXCEPT !.hits = @ + 1] /\ UNCHANGED keptDetails
       \/ /\ keptHits = <<>> /\ keptDetails # <<>> /\ keptDetails' = Front(keptDetails)
          /\ omitted' = [omitted EXCEPT !.details = @ + 1] /\ UNCHANGED keptHits
    /\ truncated' = TRUE
    /\ UNCHANGED <<phase, registry, ask, found, state, channels, faults, answerVars, used, clipped>>

Shed ==
    /\ phase = "check" /\ SizeOf(0) > ask.budget
    /\ \/ /\ keptDetails # <<>> /\ keptDetails' = Front(keptDetails)
          /\ omitted' = [omitted EXCEPT !.details = @ + 1] /\ UNCHANGED keptHits
       \/ /\ keptDetails = <<>> /\ keptHits # <<>> /\ keptHits' = Front(keptHits)
          /\ omitted' = [omitted EXCEPT !.hits = @ + 1] /\ UNCHANGED keptDetails
    /\ truncated' = TRUE
    /\ UNCHANGED <<phase, registry, ask, found, state, channels, faults, answerVars, used, clipped>>

(* used_chars counts its own digits: it is measured until it stays the same. *)
FinishOnceMore ==
    /\ phase = "check"
    /\ SizeOf(0) <= ask.budget \/ (keptHits = <<>> /\ keptDetails = <<>>)
    /\ used' = SizeOf(SizeOf(0))
    /\ phase' = "done"
    /\ UNCHANGED <<registry, ask, found, state, channels, faults, answerVars, keptHits,
                   keptDetails, omitted, truncated, clipped>>

Finish ==
    /\ phase = "check"
    /\ SizeOf(0) <= ask.budget \/ (keptHits = <<>> /\ keptDetails = <<>>)
    /\ LET resized[n \in 0..4] == IF n = 0 THEN 0 ELSE SizeOf(resized[n - 1]) IN
       used' = resized[4]
    /\ phase' = "done"
    /\ UNCHANGED <<registry, ask, found, state, channels, faults, answerVars, keptHits,
                   keptDetails, omitted, truncated, clipped>>

Next ==
    \/ SearchRegistry \/ SearchSource \/ Fuse \/ Describe \/ DescribeRaises \/ NothingFound
    \/ KeepHit \/ HitsDone \/ KeepDetail \/ DetailsDone \/ Shed \/ Finish

Spec == Init /\ [][Next]_vars

------------------------------------------------------------------------------
Searched(c) == c \in Range([n \in DOMAIN channels |-> channels[n][1]])
FirstRank(i, c) == Min({r \in DOMAIN Results(c) : Results(c)[r] = i})

(* The fused ranking takes turns: all first results, registry first and then *)
(* the sources by name, then all second ones, whatever failed; only what is  *)
(* past the limit is missing (index.py:450).                                 *)
TakesTurns ==
    phase = "describe" =>
        LET Placed == {p \in AllItems \X DOMAIN Items :
                          Searched(p[2]) /\ p[1] \in Range(Results(p[2]))}
            Sooner(p, q) ==
                \/ FirstRank(p[1], p[2]) < FirstRank(q[1], q[2])
                \/ /\ FirstRank(p[1], p[2]) = FirstRank(q[1], q[2])
                   /\ Position(p[2]) < Position(q[2]) IN
        /\ Len(hits) = Min({Limit, Cardinality(Placed)})
        /\ \A n \in DOMAIN hits : \E p \in Placed :
              /\ p[1] = hits[n]
              /\ Cardinality({q \in Placed : Sooner(q, p)}) = n - 1

(* used_chars is the length of the pack that carries it, its own digits      *)
(* included (index.py:936-943).                                              *)
SizeTrue == phase = "done" => used = SizeOf(used)

(* No pack is longer than its budget: index.py:211 calls it bounded. One     *)
(* that fits but for the digits of used_chars is longer, and so is an empty  *)
(* one whose envelope alone is (index.py:920-932).                           *)
PackFits == phase = "done" => used <= ask.budget

(* What a pack says about itself is so: each of its details belongs to one   *)
(* of its hits, its counts say what is missing, and one that is not          *)
(* truncated is whole (index.py:905-946).                                    *)
PackTrue ==
    phase = "done" =>
        /\ \A d \in Range(keptDetails) : d.item \in Range(keptHits)
        /\ Len(keptHits) + omitted.hits = Len(hits)
        /\ Len(keptDetails) + omitted.details = Len(details)
        /\ ~truncated => /\ keptHits = hits /\ keptDetails = details
                         /\ omitted = [hits |-> 0, details |-> 0]
=============================================================================
