------------------------------- MODULE Pages --------------------------------
(* The tools of the molcrafts plane: the pages they answer with, and what of *)
(* the sources a knowledgeScope lets through. What a search finds and how an *)
(* exploration is packed is module Explore's.                                *)
EXTENDS Integers, Sequences, SequencesExt, FiniteSets, FiniteSetsExt, Functions

CONSTANTS
    Inventory,      \* the configured sources, in order; a name is a sequence
                    \* of pieces: <<"molcrafts-", "mol", "py">>, <<"mol", "py">>
    Asked,          \* names that agents ask for
    Scopes,         \* values of the setting knowledgeScope: sets of names
    Family,         \* the short names of the packages that have aliases
    RolesOf,        \* RolesOf[s]: the roles that source s fills
    Tasks,          \* the roles that tasks are about
    Up,             \* the sources that can be opened at one time
    Hints,          \* Hints[r]: packages named for a role nothing fills
    Unset,          \* an argument that is not given
    CardSize, GuideSize, PageSize, Ellipsis,
                    \* characters of a source's card, of a role of the guide, of
                    \* a symbol's page, and of the mark that ends a cut page
    Budgets,
    MaxSnaps        \* bound: snapshots of a source

Sources == Range(Inventory)
Dist == "molcrafts-"
Mark == 40      \* the characters kept for the mark, and the least of a page
Least == 80     \* that is worth its mark

(* The root of a name: a distribution is known by its package. *)
Normal(name) == IF Len(name) > 1 /\ Head(name) = Dist THEN Tail(name) ELSE name

PagesAssumption ==
    /\ Inventory \in Seq(Sources) /\ {Dist, "."} \subseteq STRING
    /\ \A n \in Sources \cup Asked \cup UNION Scopes : n \in Seq(STRING) /\ n # <<>>
    /\ Unset \notin Sources /\ Up \subseteq SUBSET Sources
    /\ \A names \in SUBSET Asked : Unset # {Normal(n) : n \in names}
    /\ \A s \in Sources : IsFiniteSet(RolesOf[s])
    /\ \A intents \in Tasks : IsFiniteSet(intents)
    /\ Budgets \subseteq Nat \ {0} /\ {CardSize, GuideSize, PageSize, Ellipsis, MaxSnaps} \subseteq Nat
    /\ Ellipsis <= Mark

VARIABLES
    scope,      \* the allowlist, read when the tools are registered
    snap,       \* snap[s]: the snapshot of the source as it is now
    found,      \* the references that answers have named
    answer      \* of the call that is over, until it is returned
vars == <<scope, snap, found, answer>>

------------------------------------------------------------------------------
(* The scope *)

Allowlist(names) == IF names = {} THEN Unset ELSE {Normal(n) : n \in names}

(* A source is admitted under its own root, and also if that is the          *)
(* beginning of an allowed one.                                              *)
AdmitsAll(name) == TRUE
Admits(name) ==
    scope = Unset \/ \E a \in scope : IsPrefix(Append(a, "."), Normal(name)) \/ IsPrefix(Normal(name), a)

(* What a reference says of its source. That of a symbol goes on after the   *)
(* name of the source with its snapshot.                                     *)
Exact(s) == [form |-> "exact", source |-> s, snap |-> snap[s]]
Short(n) == [form |-> "short", source |-> n]
Registered == [form |-> "registry"]
RefSource(ref) ==
    CASE ref.form = "registry" -> Unset
      [] ref.form = "short" -> Normal(ref.source)
      [] ref.form = "exact" -> Append(Normal(ref.source), "@")

(* The sources a tool is asked for, and of them those in scope; with none    *)
(* asked for, all in scope.                                                  *)
Intersect(requested) ==
    IF requested = Unset \/ requested = {} THEN scope
    ELSE {n \in {Normal(r) : r \in requested} : Admits(n)}
Nothing(requested) == scope # Unset /\ Intersect(requested) = {}

------------------------------------------------------------------------------
(* Which configured source a name is taken for: the one of that name, else   *)
(* the first of its family, else the first that it is part of or that is     *)
(* part of it.                                                               *)
PartOf(a, b) == \E i \in 1..Len(b) : IsPrefix(a, SubSeq(b, i, Len(b)))
Aliases(f) == {f, <<Dist>> \o f}
FirstSource(Takes(_)) ==
    LET takers == {i \in DOMAIN Inventory : Takes(Inventory[i])} IN
    IF takers = {} THEN Unset ELSE Inventory[Min(takers)]
OfFamily(name) ==
    LET fams == {f \in Family : name \in Aliases(f)} IN
    FirstSource(LAMBDA s : \E f \in fams : \E a \in Aliases(f) : PartOf(a, s))
Resolve(name) ==
    IF name \in Sources THEN name
    ELSE IF OfFamily(name) # Unset THEN OfFamily(name)
    ELSE FirstSource(LAMBDA s : PartOf(name, s) \/ PartOf(s, name))

(* The sources a search is for; one that is not known fails it. *)
Selected(names) == IF names = Unset THEN Sources ELSE {Resolve(n) : n \in names}

------------------------------------------------------------------------------
(* The routing guide: the roles a task is about, the sources that fill them, *)
(* and a hint where none does.                                               *)
Fillers(role, up) == {s \in up : role \in RolesOf[s]}
Checked(intents, up) == IF intents # {} THEN intents ELSE UNION {RolesOf[s] : s \in up}
Checklist(intents, up) ==
    {[role |-> r, prefer |-> IF Fillers(r, up) # {} THEN Fillers(r, up) ELSE Hints[r],
      available |-> Fillers(r, up) # {}] : r \in Checked(intents, up)}
Preferred(intents, up) == UNION {Fillers(r, up) : r \in Checked(intents, up)}

------------------------------------------------------------------------------
(* Pages are put together until the budget is full; the last one is cut when *)
(* enough of it would be left. Pages are two newlines apart.                 *)
(* A bug: the cut keeps no room for the mark that says it is one. *)
WithPageUnmarked(was, size, room) ==
    LET left == room - was.used IN
    IF was.full \/ size = 0 THEN was
    ELSE IF size + 2 <= left THEN [was EXCEPT !.used = @ + size + 2]
    ELSE [used |-> was.used + IF left > Least THEN left + Ellipsis + 2 ELSE 0, full |-> TRUE]
WithPage(was, size, room) ==
    LET left == room - was.used IN
    IF was.full \/ size = 0 THEN was
    ELSE IF size + 2 <= left THEN [was EXCEPT !.used = @ + size + 2]
    ELSE [used |-> was.used + IF left - Mark > Least THEN left - Mark + Ellipsis + 2 ELSE 0,
          full |-> TRUE]
Fit(pages, room) ==
    LET upTo[n \in 0..Len(pages)] ==
            IF n = 0 THEN [used |-> 0, full |-> FALSE]
            ELSE WithPage(upTo[n - 1], pages[n], room) IN
    upTo[Len(pages)].used
Fitted(pages, budget) == IF Fit(pages, budget) = 0 THEN 0 ELSE Fit(pages, budget) - 2

CatalogPage == CardSize * Cardinality(Sources)
GuidePage(intents, up) == GuideSize * Cardinality(Checklist(intents, up))

------------------------------------------------------------------------------
NoAnswer == [tool |-> "none"]

Init ==
    /\ scope \in {Allowlist(names) : names \in Scopes}
    /\ snap = [s \in Sources |-> 1] /\ found = {}
    /\ answer = NoAnswer

(* listed: the sources whose entries, pages or symbols an answer has; named: *)
(* all that it names, in its freshness, coverage, warnings and hints too; of *)
(* the references asked for, those that name a symbol, and those it shows.   *)
Tells(tool, listed, named) ==
    answer' = [tool |-> tool, ok |-> TRUE, listed |-> listed, named |-> listed \cup named,
               asked |-> {}, opened |-> {}]
Answers(tool, listed) == Tells(tool, listed, {})
Fails(tool) ==
    answer' = [tool |-> tool, ok |-> FALSE, listed |-> {}, named |-> {}, asked |-> {}, opened |-> {}]

(* A tool denies what is out of scope and fails for a source it does not     *)
(* know, and any source may fail to open when it is looked at: those that    *)
(* do not are up. Of the answers of info and packages the scope filters the  *)
(* entries only: their freshness, coverage, configuration and warnings are   *)
(* of every source.                                                          *)
Info(up) ==
    /\ Tells("info", {s \in Sources : Admits(s)}, Sources)
    /\ UNCHANGED <<scope, snap, found>>
Packages(up) ==
    /\ Tells("packages", {s \in Sources : Admits(s)}, Sources)
    /\ UNCHANGED <<scope, snap, found>>

Outline(name, up) ==
    /\ IF Admits(name) /\ Resolve(name) \in up
       THEN Answers("outline", {Resolve(name)}) ELSE Fails("outline")
    /\ UNCHANGED <<scope, snap, found>>

(* A symbol is described from the snapshot that its reference names. *)
Described(ref, up) == ref.form = "exact" /\ ref.source \in up /\ ref.snap = snap[ref.source]
Open(ref, up) ==
    LET denied == RefSource(ref) # Unset /\ ~Admits(RefSource(ref))
        asked == {r \in {ref} : Described(r, up)}
        opened == {r \in asked : ~denied} IN
    /\ answer' = [tool |-> "open", ok |-> opened # {}, listed |-> {r.source : r \in opened},
                  named |-> {r.source : r \in opened}, asked |-> asked, opened |-> opened]
    /\ UNCHANGED <<scope, snap, found>>

(* The hits of a search may be any symbols of the sources it is for. *)
Hits(names, up) == SUBSET {Exact(s) : s \in Selected(names) \cap up}
Search(requested, up) ==
    /\ IF Nothing(requested) \/ Unset \in Selected(Intersect(requested))
       THEN Fails("search") /\ UNCHANGED found
       ELSE \E hits \in Hits(Intersect(requested), up) :
                /\ Answers("search", {r.source : r \in hits})
                /\ found' = found \cup hits
    /\ UNCHANGED <<scope, snap>>

(* The guide names the packages its checklist prefers, and has the freshness *)
(* of every source.                                                          *)
Suggest(intents, up) ==
    /\ \E hits \in Hits(Unset, up) :
           LET kept == {r \in hits : Admits(r.source)}
               admitted == {s \in up : Admits(s)} IN
           /\ Tells("suggest",
                    {r.source : r \in kept} \cup {s \in Sources : Admits(s)}
                        \cup {p \in Preferred(intents, admitted) : Admits(p)},
                    Sources \cup UNION {c.prefer : c \in Checklist(intents, admitted)})
           /\ found' = found \cup kept
    /\ UNCHANGED <<scope, snap>>

(* compose has the catalog and the guide, an exploration when there is a     *)
(* task, and the page of each reference, fitted into the budget.             *)
Compose(task, intents, refs, requested, budget, up) ==
    /\ IF Nothing(requested) \/ (task /\ Unset \in Selected(Intersect(requested)))
       THEN Fails("compose") /\ UNCHANGED found
       ELSE \E details \in IF task THEN Hits(Intersect(requested), up) ELSE {{}} :
                LET opened == {r \in refs : Described(r, up)} IN
                /\ answer' = [tool |-> "compose", ok |-> TRUE, listed |-> Sources, named |-> Sources,
                              asked |-> opened, opened |-> opened, budget |-> budget,
                              length |-> Fitted(<<CatalogPage, GuidePage(intents, up)>>
                                  \o [i \in 1..Cardinality(details \cup opened) |-> PageSize], budget)]
                /\ found' = found \cup details
    /\ UNCHANGED <<scope, snap>>

(* The resources: they know nothing of the scope. *)
WorkspaceContext(up) == Answers("context", Sources) /\ UNCHANGED <<scope, snap, found>>
Capability == Fails("capability") /\ UNCHANGED <<scope, snap, found>>
SymbolResource(name, ref, up) ==
    /\ IF Described(ref, up) /\ ref.source = name
       THEN Answers("symbol", {name}) ELSE Fails("symbol")
    /\ UNCHANGED <<scope, snap, found>>

Reindex(s) ==
    /\ answer = NoAnswer /\ snap[s] < MaxSnaps
    /\ snap' = [snap EXCEPT ![s] = @ + 1]
    /\ UNCHANGED <<scope, found, answer>>

Refs == found \cup {Short(n) : n \in Asked} \cup {Registered}
Requests == {Unset} \cup {{n} : n \in Asked} \cup {Asked}
Tool(up) ==
    \/ Info(up) \/ Packages(up) \/ WorkspaceContext(up) \/ Capability
    \/ \E n \in Asked : Outline(n, up)
    \/ \E r \in Refs : Open(r, up) \/ \E n \in Asked : SymbolResource(n, r, up)
    \/ \E req \in Requests : Search(req, up)
    \/ \E intents \in Tasks : Suggest(intents, up)
    \/ \E task \in BOOLEAN, intents \in Tasks, req \in Requests, budget \in Budgets :
       \E refs \in {{}, found, Refs} : Compose(task, intents, refs, req, budget, up)

Return == answer # NoAnswer /\ answer' = NoAnswer /\ UNCHANGED <<scope, snap, found>>

Next ==
    \/ answer = NoAnswer /\ \E up \in Up : Tool(up)
    \/ Return
    \/ \E s \in Sources : Reindex(s)
Spec == Init /\ [][Next]_vars

------------------------------------------------------------------------------
Named == {Normal(n) : n \in Sources \cup Asked \cup UNION Scopes}

(* Names are whole: none has a dot or the mark of a distribution in it, no   *)
(* other is a longer form of that of a family, and what is neither a source  *)
(* nor of a family is part of no other name and has none but its beginnings  *)
(* in it. One package may well have the beginning of another's name.         *)
WholeNames ==
    /\ \A x \in Named : {Dist, "."} \cap Range(x) = {}
    /\ \A f \in Family : f \in Named /\ \A y \in Named : PartOf(f, y) => y = f
    /\ \A n \in Asked \cup {Normal(m) : m \in Asked \cup UNION Scopes} :
          \/ n \in Sources \/ OfFamily(n) # Unset
          \/ \A y \in Named : /\ PartOf(Normal(n), y) => y = Normal(n)
                              /\ PartOf(y, Normal(n)) => IsPrefix(y, Normal(n))

InScope(s) == scope = Unset \/ Normal(s) \in scope
(* The scope lets the beginnings of its names through (source_scope.py:92).  *)
LetThrough(s) == InScope(s) \/ \E a \in scope : IsPrefix(Normal(s), a)

(* Asked for sources by whole names, short ones of a package or those of its *)
(* distribution, the tools that look at the scope list entries, pages and    *)
(* symbols of no source but those of the scope and those whose names are the *)
(* beginning of one of it: what a name is taken for (guide.py:134-160) is    *)
(* let through where the name is (source_scope.py:79-93).                    *)
ScopeKept ==
    answer.tool \in {"info", "packages", "outline", "search", "suggest"} =>
        \A s \in answer.listed : LetThrough(s)

(* And they name no other one: so the documentation of the setting has it    *)
(* (source_scope.py:4, mcp_provider.py:104), and the freshness, coverage and *)
(* hints that the answers carry are against it.                              *)
ScopeHidesOthers ==
    answer.tool \in {"info", "packages", "outline", "search", "suggest"} =>
        \A s \in answer.named : LetThrough(s)

(* The text that compose answers with fits the budget it was asked for, the  *)
(* mark of its last page and the lines between its pages included            *)
(* (browse.py:616-629).                                                      *)
MarkdownFits ==
    answer.tool = "compose" /\ answer.ok => answer.length <= answer.budget

(* A scope is about sources: of the symbols that open and compose are asked  *)
(* for they show those of the sources in scope and no others.                *)
ScopeMeansSources ==
    answer.tool \in {"open", "compose"} =>
        answer.opened = {r \in answer.asked : InScope(r.source)}
=============================================================================
