------------------------------ MODULE Parsers -------------------------------
(* What the analyzers of syntax trees other than Python's make of one file:  *)
(* Rust, TypeScript and JavaScript.                                          *)
EXTENDS Integers, Sequences, SequencesExt, FiniteSetsExt

CONSTANTS
    RustFiles, ScriptFiles, \* sequences of items and of statements
    None

(* An item has a type and, as its type has them, a name, pub or private, its *)
(* items, bases, implements, calls, news and at, the line it starts at. An   *)
(* implementation has the Rust type it is for: a name, arguments, a reference*)

VARIABLES file, graph
vars == <<file, graph>>

Empty == [nodes |-> <<>>, contains |-> <<>>, refs |-> <<>>]
Join(g, h) == [nodes |-> g.nodes \o h.nodes, contains |-> g.contains \o h.contains,
               refs |-> g.refs \o h.refs]
All(gs) == FoldLeft(Join, Empty, gs)

Id(qual, kind) == <<qual, kind>>
Node(qual, kind, exported) == [id |-> Id(qual, kind), exported |-> exported]
Define(parent, qual, kind, exported) ==
    [nodes |-> <<Node(qual, kind, exported)>>, contains |-> <<<<parent, Id(qual, kind)>>>>,
     refs |-> <<>>]
Refer(from, kind, names) ==
    [nodes |-> <<>>, contains |-> <<>>,
     refs |-> [n \in DOMAIN names |-> [from |-> from, kind |-> kind, name |-> names[n]]]]

(* A reference of one kind from one node is kept once. *)
Once(g) ==
    LET firsts == SelectSeq([k \in DOMAIN g.refs |-> k],
                      LAMBDA k : \A j \in 1..(k - 1) : g.refs[j] # g.refs[k]) IN
    [g EXCEPT !.refs = [k \in DOMAIN firsts |-> g.refs[firsts[k]]]]

Init ==
    /\ file \in [lang : {"rust"}, body : RustFiles] \cup [lang : {"script"}, body : ScriptFiles]
    /\ graph = None

------------------------------------------------------------------------------
(* Rust *)

(* Of the type that an implementation is for, references and generics are    *)
(* stripped; its trait is named in full.                                     *)
TypeName(target) == target.base
ImplLabel(it) == <<it.trait, TypeName(it.for), it.at>>
(* What an implementation adds to its type is named by the type and, so that *)
(* two traits with one method stay apart, by the trait.                      *)
MembersOfTarget(qn, it) == Append(qn, <<TypeName(it.for)>>)
MembersOf(qn, it) ==
    Append(qn, <<TypeName(it.for)>>) \o IF it.trait = None THEN <<>> ELSE <<<<"impl", it.trait>>>>

(* A function is a method in a trait or an implementation. What a public     *)
(* trait declares is exported with it.                                       *)
RustFunction(it, parent, q, within, inherited) ==
    LET kind == IF within \in {"trait", "namespace"} THEN "method" ELSE "function" IN
    Join(Define(parent, q, kind, it.pub \/ (inherited /\ within = "trait")),
         Refer(Id(q, kind), "calls", it.calls))

RECURSIVE RustItems(_, _, _, _, _)
Implementation(it, parent, qn) ==
    LET impl == Id(Append(qn, ImplLabel(it)), "namespace") IN
    All(<<Define(parent, impl[1], "namespace", FALSE),
          Refer(impl, "implements", IF it.trait = None THEN <<>> ELSE <<it.trait>>),
          RustItems(it.items, impl, MembersOf(qn, it), "namespace", FALSE)>>)

RustContainer(it, parent, q) ==
    All(<<Define(parent, q, it.type, it.pub),
          Refer(Id(q, it.type), "extends", IF it.type = "trait" THEN it.bases ELSE <<>>),
          RustItems(it.items, Id(q, it.type), q, it.type, it.pub)>>)

(* A module whose body is in a file of its own imports that file. *)
RustModule(it, parent, q) ==
    Join(Define(parent, q, "module", it.pub),
         IF it.items = None THEN Refer(Id(q, "module"), "imports", <<it.name>>)
         ELSE RustItems(it.items, Id(q, "module"), q, "module", it.pub))

RustItem(it, parent, qn, within, inherited) ==
    LET q == Append(qn, <<it.name>>) IN
    CASE it.type = "use" -> Refer(parent, "imports", <<it.name>>)
      [] it.type = "mod" -> RustModule(it, parent, q)
      [] it.type = "impl" -> Implementation(it, parent, qn)
      [] it.type \in {"struct", "enum", "trait"} -> RustContainer(it, parent, q)
      [] it.type = "fn" -> RustFunction(it, parent, q, within, inherited)
      [] it.type \in {"type_alias", "constant"} -> Define(parent, q, it.type, it.pub \/ inherited)
      [] it.type = "field" -> Define(parent, q, "field", it.pub)

RustItems(items, parent, qn, within, inherited) ==
    All([n \in DOMAIN items |-> RustItem(items[n], parent, qn, within, inherited)])

(* A file's module, and what is in it. *)
Root == <<<<"m">>>>
WholeModule(g) == Once(Join([Empty EXCEPT !.nodes = <<Node(Root, "module", TRUE)>>], g))

AnalyzeRust ==
    /\ file.lang = "rust" /\ graph = None
    /\ graph' = WholeModule(RustItems(file.body, Id(Root, "module"), Root, "module", TRUE))
    /\ UNCHANGED file

------------------------------------------------------------------------------
(* TypeScript and JavaScript *)

Function(it, parent, q, kind, exported) ==
    All(<<Define(parent, q, kind, exported /\ ~it.private), Refer(Id(q, kind), "calls", it.calls),
          Refer(Id(q, kind), "instantiates", it.news)>>)

Definition(it, parent, q, kind, exported) == Define(parent, q, kind, exported /\ ~it.private)

Member(m, parent, qn, kind) ==
    LET q == Append(qn, <<m.name>>) IN
    CASE m.type = "method" -> Function(m, parent, q, "method", FALSE)
      [] m.type = "field" -> Definition(m, parent, q, "field", FALSE)
      [] m.type = "variant" -> IF kind = "enum" THEN Definition(m, parent, q, "constant", FALSE) ELSE Empty

RECURSIVE Statements(_, _, _, _)
Container(it, parent, qn, exported) ==
    LET q == Append(qn, <<it.name>>)
        id == Id(q, it.type) IN
    All(<<Define(parent, q, it.type, exported), Refer(id, "extends", it.bases),
          Refer(id, "implements", it.implements),
          IF it.type = "namespace" THEN Statements(it.items, id, q, exported)
          ELSE All([n \in DOMAIN it.items |-> Member(it.items[n], id, q, it.type)])>>)

(* A variable that holds a function is a function, any other a constant. *)
Variable(it, parent, q, exported) ==
    IF it.holds = "function" THEN Function(it, parent, q, "function", exported)
    ELSE Define(parent, q, "constant", exported /\ ~it.private)

Statement(it, parent, qn, exported) ==
    CASE it.type = "export" ->
            Join(Refer(parent, "imports", it.from), Statements(it.items, parent, qn, TRUE))
      [] it.type = "import" -> Refer(parent, "imports", <<it.name>>)
      [] it.type \in {"class", "interface", "enum", "namespace"} ->
            Container(it, parent, qn, exported)
      [] it.type = "function" -> Function(it, parent, Append(qn, <<it.name>>), "function", exported)
      [] it.type = "type_alias" ->
            Definition(it, parent, Append(qn, <<it.name>>), "type_alias", exported)
      [] it.type = "variable" -> Variable(it, parent, Append(qn, <<it.name>>), exported)

Statements(stmts, parent, qn, exported) ==
    All([n \in DOMAIN stmts |-> Statement(stmts[n], parent, qn, exported)])

AnalyzeScript ==
    /\ file.lang = "script" /\ graph = None
    /\ graph' = WholeModule(Statements(file.body, Id(Root, "module"), Root, FALSE))
    /\ UNCHANGED file

Next == AnalyzeRust \/ AnalyzeScript
Spec == Init /\ [][Next]_vars

------------------------------------------------------------------------------
(* Where each definition of a Rust file is: the path of items to it. *)
RECURSIVE ItemPlaces(_, _, _)
ItemPlaces(items, mods, owner) ==
    UNION {LET it == items[n] IN
           CASE it.type = "fn" -> {<<mods, owner, it.name, n, it.at>>}
             [] it.type = "impl" -> ItemPlaces(it.items, mods, <<it.for, it.trait>>)
             [] it.type \in {"trait"} -> ItemPlaces(it.items, mods, <<it.name>>)
             [] it.type = "mod" /\ it.items # None -> ItemPlaces(it.items, Append(mods, it.name), <<>>)
             [] OTHER -> {} : n \in DOMAIN items}

Places == {<<p[1], p[2], p[3]>> : p \in ItemPlaces(file.body, <<>>, <<>>)}
IsOfImpl(place) == Len(place[2]) = 2

(* Two implementations of one trait, or of none, for types that differ in    *)
(* references or arguments only: of S<f32> and S<f64>, of V and &V.          *)
Twins == \E p, q \in Places :
    /\ IsOfImpl(p) /\ IsOfImpl(q) /\ p[1] = q[1] /\ p[2] # q[2]
    /\ TypeName(p[2][1]) = TypeName(q[2][1]) /\ p[2][2] = q[2][2]

NoneReplaced ==
    Cardinality({n.id : n \in {m \in Range(graph.nodes) : m.id[2] \in {"function", "method"}}})
    = Cardinality(Places)

(* No method of a Rust file without twins takes the place of one of another  *)
(* type or trait: there are as many functions and methods as there are pairs *)
(* of a name and the type, trait or module it is of (rust.py:404).           *)
ImplsApart == file.lang = "rust" /\ graph # None /\ ~Twins => NoneReplaced

(* The same of every file, which is false: the methods of twins have one     *)
(* name, and one takes the other's place (rust.py:104-108, 377).             *)
AllImplsApart == file.lang = "rust" /\ graph # None => NoneReplaced
=============================================================================
