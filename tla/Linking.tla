------------------------------ MODULE Linking -------------------------------
(* How the graph of a snapshot is built: the Python analyzer turns each file *)
(* into nodes and references by name, the resolver links the references,     *)
(* tests and docstring examples, an overlay adds its conventions, and nodes  *)
(* with one id are merged before the graph is stored.                        *)
EXTENDS Integers, Sequences, SequencesExt, FiniteSetsExt, Functions, Subsequences

CONSTANTS
    Paths,          \* the files in the order of the walk
    Module,         \* Module[f]: the dotted name of a file's module, a tuple
    PackageFiles,   \* the __init__ files
    TestFiles,      \* those pytest collects
    Subject,        \* Subject[n]: what follows test_ in the name of a test
    Private,        \* names with a leading underscore
    Programs,       \* the sources: functions from files to statements
    Scopes,         \* Scopes[c]: the dotted names that convention c governs
    Provides,       \* Provides[c]: the dotted names that provide capability c
    MaxErrors       \* bound: files that cannot be read or parsed

(* A statement is [op |-> "import", mod], [op |-> "from", dots, mod, name],  *)
(* [op |-> "class", in, name, bases], [op |-> "assign", in, name],           *)
(* [op |-> "def", in, name, calls, property, overload, blocks] or            *)
(* [op |-> "all", names]; in is the class it is in, blocks the number of     *)
(* code blocks of the docstring, and a dotted name is a tuple.               *)

SourceFiles == Range(Paths)

Written(s) ==
    /\ s.op = "class" => s.bases \in Seq(Range(s.bases))
    /\ s.op = "def" => s.calls \in Seq(Range(s.calls)) /\ s.blocks \in Nat

LinkingAssumption ==
    /\ Paths \in Seq(SourceFiles) /\ IsInjective(Paths)
    /\ DOMAIN Module = SourceFiles /\ PackageFiles \cup TestFiles \subseteq SourceFiles
    /\ \A p \in Programs :
           /\ DOMAIN p = SourceFiles
           /\ \A f \in SourceFiles : p[f] \in Seq(Range(p[f])) /\ \A s \in Range(p[f]) : Written(s)
    /\ \A c \in {Scopes, Provides} :
           IsFiniteSet(DOMAIN c) /\ \A x \in DOMAIN c : IsFiniteSet(c[x])
    /\ MaxErrors \in Nat

VARIABLES
    phase,
    source,     \* the program
    at,         \* files analyzed
    broken,     \* files that gave no nodes
    nodes,      \* the nodes so far, in order
    refs,       \* references still to be linked, in order
    unresolved, \* those that could not be
    edges       \* the edges so far, in order

vars == <<phase, source, at, broken, nodes, refs, unresolved, edges>>

Id(n) == <<n.file, n.qual, n.kind>>
Name(n) == Last(n.qual)
Edge(s, t, k, p, f) == [source |-> s, target |-> t, kind |-> k, prov |-> p, file |-> f]

Callables == {"function", "method", "test"}
Types == {"class"}
Modules == {"module", "package"}
NodeKinds == Callables \cup Types \cup Modules
             \cup {"property", "constant", "field", "example", "convention", "capability"}

Init ==
    /\ phase = "extract" /\ source \in Programs /\ at = 0 /\ broken = {}
    /\ nodes = <<>> /\ refs = <<>> /\ unresolved = <<>> /\ edges = <<>>

------------------------------------------------------------------------------
(* Extraction, file by file *)

ModuleNode(f) ==
    [file |-> f, qual |-> Module[f], blocks |-> 0, exported |-> TRUE,
     kind |-> IF f \in PackageFiles THEN "package" ELSE "module"]

Of(f, op) == Those(source[f], {s \in Range(source[f]) : s.op = op})

(* With __all__ the names it lists are exported, without it the public ones; *)
(* what is in a class is not.                                                *)
Exported(f, s) ==
    /\ s.in = <<>>
    /\ IF Of(f, "all") # <<>> THEN s.name \in Of(f, "all")[1].names ELSE s.name \notin Private

DefKind(f, s) ==
    IF s.name \in DOMAIN Subject /\ f \in TestFiles THEN "test"
    ELSE IF s.in = <<>> THEN "function"
    ELSE IF s.property THEN "property" ELSE "method"

KindOf(f, s) ==
    CASE s.op = "def" -> DefKind(f, s)
      [] s.op = "class" -> "class"
      [] s.op = "assign" -> IF s.in = <<>> THEN "constant" ELSE "field"

Declares(s) == s.op \in {"class", "assign"} \/ (s.op = "def" /\ ~s.overload)

NodeOf(f, s) ==
    [file |-> f, qual |-> Module[f] \o s.in \o <<s.name>>, kind |-> KindOf(f, s),
     blocks |-> IF s.op = "def" THEN s.blocks ELSE 0, exported |-> Exported(f, s)]

Declared(f) ==
    LET s == Those(source[f], {t \in Range(source[f]) : Declares(t)}) IN
    [n \in DOMAIN s |-> NodeOf(f, s[n])]

(* A node is contained in its class or module. *)
Parent(f, n) ==
    LET outer == {m \in Range(Declared(f)) : m.kind = "class" /\ m.qual = Front(n.qual)} IN
    IF outer = {} THEN Id(ModuleNode(f)) ELSE Id(CHOOSE m \in outer : TRUE)

(* The name of a from-import is its dots and module, a dot and what it       *)
(* imports: with no module to name that is one dot more than in the source.  *)
FromDotsAsWritten(s) == s.dots
FromDots(s) == IF s.dots > 0 /\ s.mod = <<>> THEN s.dots + 1 ELSE s.dots

Ref(f, from, kind, dots, name) ==
    [file |-> f, from |-> from, kind |-> kind, dots |-> dots, name |-> name]

RefsOf(f, s) ==
    CASE s.op = "import" -> <<Ref(f, Id(ModuleNode(f)), "imports", 0, s.mod)>>
      [] s.op = "from" -> <<Ref(f, Id(ModuleNode(f)), "imports", FromDots(s),
                               Append(s.mod, s.name))>>
      [] s.op = "class" -> [n \in DOMAIN s.bases |->
                               Ref(f, Id(NodeOf(f, s)), "extends", 0, s.bases[n])]
      [] s.op = "def" -> IF s.overload THEN <<>>
                         ELSE [n \in DOMAIN s.calls |->
                                  Ref(f, Id(NodeOf(f, s)), "calls", 0, s.calls[n])]
      [] OTHER -> <<>>

Analyze ==
    /\ phase = "extract" /\ at < Len(Paths)
    /\ LET f == Paths[at + 1]
           found == Declared(f) IN
       /\ nodes' = nodes \o <<ModuleNode(f)>> \o found
       /\ edges' = edges \o [n \in DOMAIN found |->
                        Edge(Parent(f, found[n]), Id(found[n]), "contains", "ast", f)]
       /\ refs' = refs \o FlattenSeq([n \in DOMAIN source[f] |-> RefsOf(f, source[f][n])])
    /\ at' = at + 1
    /\ UNCHANGED <<phase, source, broken, unresolved>>

(* A file that cannot be read, or whose analyzer raises, has no nodes, and   *)
(* the others go on.                                                         *)
AnalyzeFails ==
    /\ phase = "extract" /\ at < Len(Paths) /\ Cardinality(broken) < MaxErrors
    /\ broken' = broken \cup {Paths[at + 1]} /\ at' = at + 1
    /\ UNCHANGED <<phase, source, nodes, refs, unresolved, edges>>

Extracted ==
    /\ phase = "extract" /\ at = Len(Paths) /\ phase' = "resolve"
    /\ UNCHANGED <<source, at, broken, nodes, refs, unresolved, edges>>

------------------------------------------------------------------------------
(* Resolution *)

ByQual(q) == Those(nodes, {n \in Range(nodes) : n.qual = q})
ByName(x) == Those(nodes, {n \in Range(nodes) : Name(n) = x})

(* The importer's package, less one part for each dot after the first. *)
Absolute(ref) ==
    IF ref.dots = 0 THEN ref.name
    ELSE LET importer == CHOOSE n \in Range(nodes) : Id(n) = ref.from
             base == IF importer.kind = "package" THEN importer.qual ELSE Front(importer.qual) IN
         SubSeq(base, 1, Len(base) - (ref.dots - 1)) \o ref.name

(* What the imports of a file call x, in order and with repetitions.  The    *)
(* map is built before any reference is linked.                              *)
AllRefs ==
    FlattenSeq([n \in 1..Len(Paths) |->
        IF Paths[n] \in broken THEN <<>>
        ELSE FlattenSeq([m \in DOMAIN source[Paths[n]] |->
                            RefsOf(Paths[n], source[Paths[n]][m])])])
Imports(f) == Those(AllRefs, {r \in Range(AllRefs) : r.kind = "imports" /\ r.file = f})
Imported(f, x) ==
    LET named == Those(Imports(f), {r \in Range(Imports(f)) : Last(Absolute(r)) = x}) IN
    FlattenSeq([n \in DOMAIN named |-> ByQual(Absolute(named[n]))])

OfKind(s, kinds) == Those(s, {n \in Range(s) : n.kind \in kinds})
OfFile(s, f) == Those(s, {n \in Range(s) : n.file = f})
Among(s, kinds, ref) == Those(OfKind(s, kinds), {n \in Range(s) : Id(n) # ref.from})

(* Of several candidates one is taken, the one with the smallest id. *)
First(s) == CHOOSE n \in Range(s) : TRUE

(* One candidate, preferably of the same file. *)
Pick(s, f, kinds) ==
    LET pool == OfKind(s, kinds)
        same == OfFile(pool, f) IN
    IF pool = <<>> THEN {} ELSE {First(IF same # <<>> THEN same ELSE pool)}

Link(ref, n, prov) == Edge(ref.from, Id(n), ref.kind, prov, ref.file)
CertainFirst(s) == "resolved"
Certain(s) == IF Len(s) = 1 THEN "resolved" ELSE "heuristic"

(* mod.f() through an imported module, then f() imported by name. *)
ThroughModules(ref) ==
    LET mods == OfKind(Imported(ref.file, Head(ref.name)), Modules)
        Meant(m) == Among(ByQual(m.qual \o Tail(ref.name)), Callables, ref)
        found == {n \in DOMAIN mods : Meant(mods[n]) # <<>>} IN
    IF Len(ref.name) < 2 \/ found = {} THEN <<>> ELSE Meant(mods[Min(found)])

ImportScoped(ref) ==
    IF ThroughModules(ref) # <<>> THEN ThroughModules(ref)
    ELSE Among(Imported(ref.file, Last(ref.name)), Callables, ref)

(* The call of a class: an imported one, or the only one with its name. *)
Instantiated(ref) ==
    LET scoped == Among(Imported(ref.file, Last(ref.name)), Types, ref)
        named == Among(ByName(Last(ref.name)), Types, ref) IN
    IF scoped # <<>> THEN scoped ELSE IF Len(named) = 1 THEN named ELSE <<>>

(* Any callable with the name, if there is only one in the file or else only *)
(* one at all.                                                               *)
FallbackBlind(ref) == Among(ByName(Last(ref.name)), Callables, ref)
Fallback(ref) ==
    LET pool == Among(ByName(Last(ref.name)), Callables, ref)
        same == OfFile(pool, ref.file)
        chosen == IF same # <<>> THEN same ELSE pool IN
    IF Len(chosen) = 1 THEN chosen ELSE <<>>

ResolveCall(ref) ==
    IF Last(ref.name) \in {"self", "cls", "super"} THEN {}
    ELSE IF ImportScoped(ref) # <<>>
         THEN {Link(ref, First(ImportScoped(ref)), Certain(ImportScoped(ref)))}
    ELSE IF Instantiated(ref) # <<>>
         THEN {Link(ref, First(Instantiated(ref)), Certain(Instantiated(ref)))}
    ELSE {Link(ref, n, "heuristic") : n \in Range(Fallback(ref))}

ResolveType(ref) ==
    LET exact == Pick(ByQual(ref.name), ref.file, Types) IN
    IF exact # {} THEN {Link(ref, n, "resolved") : n \in exact}
    ELSE {Link(ref, n, "heuristic") : n \in Pick(ByName(Last(ref.name)), ref.file, Types)}

ResolveImport(ref) ==
    {Link(ref, n, "resolved") : n \in Pick(ByQual(Absolute(ref)), ref.file,
                                           {m.kind : m \in Range(nodes)})}

Resolved(ref) ==
    CASE ref.kind = "calls" -> ResolveCall(ref)
      [] ref.kind = "extends" -> ResolveType(ref)
      [] ref.kind = "imports" -> ResolveImport(ref)

Linked(e) == \E d \in Range(edges) :
    d.source = e.source /\ d.target = e.target /\ d.kind = e.kind

ResolveRef ==
    /\ phase = "resolve" /\ refs # <<>>
    /\ LET e == Resolved(Head(refs)) IN
       /\ unresolved' = IF e = {} THEN Append(unresolved, Head(refs)) ELSE unresolved
       /\ edges' = edges \o SetToSeq({d \in e : ~Linked(d)})
    /\ refs' = Tail(refs)
    /\ UNCHANGED <<phase, source, at, broken, nodes>>

(* A test named after a symbol exercises it. *)
TestEdges ==
    LET tests == {n \in Range(nodes) : n.kind = "test"}
        Target(t) == Pick(ByName(Subject[Name(t)]), t.file, Callables \cup Types)
        pairs == {p \in tests \X Range(nodes) : p[2] \in Target(p[1]) /\ Id(p[2]) # Id(p[1])} IN
    {Edge(Id(p[1]), Id(p[2]), "tests", "heuristic", p[1].file) : p \in pairs}

Example(n, b) ==
    [file |-> n.file, qual |-> Append(n.qual, b), kind |-> "example", blocks |-> 0,
     exported |-> FALSE]
Examples ==
    FlattenSeq([m \in DOMAIN nodes |-> [b \in 1..nodes[m].blocks |-> Example(nodes[m], b)]])
ExampleEdges ==
    FlattenSeq([m \in DOMAIN nodes |->
        [b \in 1..nodes[m].blocks |-> Edge(Id(Example(nodes[m], b)), Id(nodes[m]),
                                           "exemplifies", "heuristic", nodes[m].file)]])

Annotate ==
    /\ phase = "resolve" /\ refs = <<>>
    /\ nodes' = nodes \o Examples
    /\ edges' = edges \o SetToSeq(TestEdges) \o ExampleEdges
    /\ phase' = "overlay"
    /\ UNCHANGED <<source, at, broken, refs, unresolved>>

------------------------------------------------------------------------------
(* Overlay and merge *)

(* A catalog curates conventions, which govern modules, and capabilities,    *)
(* which any node may provide.                                               *)
Curated == [convention |-> Scopes, capability |-> Provides]
Relation == [convention |-> "governs", capability |-> "provides"]
CatalogNode(kind, c) ==
    [file |-> "catalog", qual |-> <<c>>, kind |-> kind, blocks |-> 0, exported |-> FALSE]

Entries == UNION {{k} \X DOMAIN Curated[k] : k \in DOMAIN Curated}
Named(kind, q) ==
    Those(nodes, {n \in Range(nodes) :
                     n.qual = q /\ (kind = "convention" => n.kind \in Modules)})

(* An entry is linked to the first node of each name it lists; a name of     *)
(* none stays unresolved.                                                    *)
ApplyOverlay ==
    /\ phase = "overlay"
    /\ LET listed == UNION {{<<e[1], e[2], q>> : q \in Curated[e[1]][e[2]]} : e \in Entries}
           missed == {x \in listed : Named(x[1], x[3]) = <<>>} IN
       /\ nodes' = nodes \o SetToSeq({CatalogNode(e[1], e[2]) : e \in Entries})
       /\ edges' = edges \o SetToSeq({Edge(Id(CatalogNode(x[1], x[2])), Id(Named(x[1], x[3])[1]),
                                           Relation[x[1]], "resolved", "") : x \in listed \ missed})
       /\ unresolved' = unresolved
              \o SetToSeq({Ref("", Id(CatalogNode(x[1], x[2])), Relation[x[1]], 0, x[3])
                               : x \in missed})
    /\ phase' = "merge"
    /\ UNCHANGED <<source, at, broken, refs>>

(* An overlay that raises contributes nothing. *)
OverlayFails ==
    /\ phase = "overlay" /\ Cardinality(broken) < MaxErrors /\ phase' = "merge"
    /\ UNCHANGED <<source, at, broken, nodes, refs, unresolved, edges>>

(* Of the nodes with one id the last definition is kept. *)
LastOf(k) == \A m \in DOMAIN nodes : Id(nodes[m]) = Id(nodes[k]) => m <= k
Merge ==
    /\ phase = "merge"
    /\ nodes' = LET kept == Those([k \in DOMAIN nodes |-> k], {k \in DOMAIN nodes : LastOf(k)}) IN
                [k \in DOMAIN kept |-> nodes[kept[k]]]
    /\ phase' = "stored"
    /\ UNCHANGED <<source, at, broken, refs, unresolved, edges>>

Build ==
    \/ Analyze \/ AnalyzeFails \/ Extracted \/ ResolveRef \/ Annotate
    \/ ApplyOverlay \/ OverlayFails \/ Merge
=============================================================================
