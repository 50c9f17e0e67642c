----------------------------- MODULE KnowledgeMC -----------------------------
(* Knowledge on small constants for TLC, and one more part that shares no    *)
(* state: the files of other languages that a graph is made from.            *)
EXTENDS Knowledge, SequencesExt, Functions, TLC

CONSTANTS
    any, reg, src1, src2, r1, r2, a1, a2, b1, sym, cap, ns, \* Explore
    ShortNames, \* whether sources are asked for by short names (Pages)
    Namesakes   \* whether a file imports two modules of one name (Linking)

------------------------------------------------------------------------------
(* Explore: two sources and a registry. *)
SmallOrder == <<src1, src2>>
Found == reg :> {r1, r2} @@ src1 :> {a1, a2} @@ src2 :> {b1}
NamespaceOf == src1 :> ns @@ src2 :> any @@ r1 :> ns @@ r2 :> any
KindOf == r1 :> cap @@ r2 :> sym @@ a1 :> sym @@ a2 :> cap @@ b1 :> sym
SizeOfHit == r1 :> 3 @@ r2 :> 1 @@ a1 :> 2 @@ a2 :> 4 @@ b1 :> 2
SizeOfDetail == r1 :> 6 @@ r2 :> 3 @@ a1 :> 8 @@ a2 :> 5 @@ b1 :> 7
SizeOfIds == r1 :> 3 @@ r2 :> 2 @@ a1 :> 2 @@ a2 :> 2 @@ b1 :> 3
KindsAsked == {any, {sym}}
NamespacesAsked == {any, {ns}}

------------------------------------------------------------------------------
(* Linking and Queries: p/__init__.py, p/a.py, p/b.py and tests/test_p.py. *)
SmallPaths == <<"I", "A", "B", "T">>
ModuleOf == "I" :> <<"p">> @@ "A" :> <<"p", "a">> @@ "B" :> <<"p", "b">>
            @@ "T" :> <<"tests", IF Namesakes THEN "b" ELSE "test_p">>
Def(in, x, calls) == [op |-> "def", in |-> in, name |-> x, calls |-> calls,
                      property |-> FALSE, overload |-> FALSE, blocks |-> 0]
From(dots, mod, x) == [op |-> "from", dots |-> dots, mod |-> mod, name |-> x]
Class(in, x, bases) == [op |-> "class", in |-> in, name |-> x, bases |-> bases]
(* All, all but one or none of some statements. *)
Options(s) == {SelectSeq(s, LAMBDA x : x \notin drop) :
                   drop \in {d \in SUBSET Range(s) : Cardinality(d) \in {0, 1, Len(s)}}}
AlwaysA == <<Def(<<>>, "g", <<<<"f">>, <<"b", "f">>, <<"C">>, <<"self">>>>)>>
OptionalA == <<From(1, <<"b">>, "f"), From(1, <<>>, "b"), [op |-> "import", mod |-> <<"p", "b">>],
               [Def(<<>>, "f", <<<<"g">>>>) EXCEPT !.blocks = 1],
               Class(<<>>, "C", <<<<"b", "C">>>>), [op |-> "all", names |-> {"f"}]>>
AlwaysB == <<Class(<<>>, "C", <<>>), Def(<<>>, "f", <<<<"g">>, <<"x", "f">>>>)>>
OptionalB == <<Def(<<"C">>, "f", <<<<"C">>>>),
               [Def(<<>>, "f", <<>>) EXCEPT !.blocks = 1],
               [op |-> "assign", in |-> <<"C">>, name |-> "_w"]>>
(* A test that imports no f, or one and then the other. *)
AlwaysT == <<Def(<<>>, "test_f", <<<<"f">>>>)>>
EitherT == <<From(0, <<"p", "a">>, "f"), From(0, <<"p", "b">>, "f")>>
TwoModules == "I" :> <<>> @@ "B" :> <<Def(<<>>, "f", <<>>)>> @@ "T" :> <<Def(<<>>, "f", <<>>)>>
              @@ "A" :> <<From(0, <<"p">>, "b"), From(0, <<"tests">>, "b"),
                          Def(<<>>, "g", <<<<"b", "f">>>>)>>
SmallPrograms ==
    IF Namesakes THEN {TwoModules} ELSE
    {("I" :> <<From(1, <<"a">>, "g")>> @@ "A" :> a \o AlwaysA @@ "B" :> AlwaysB \o b
      @@ "T" :> t \o AlwaysT) :
         t \in {<<>>, EitherT}, a \in Options(OptionalA), b \in {<<>>, OptionalB, Tail(OptionalB)}}
SubjectOf == "test_f" :> "f"
Provided == "cap" :> {<<"p", "a", "f">>, <<"p", "b", "f">>}
Governed == "core" :> {<<"p">>, <<"q">>} @@ "io" :> {<<"p", "b">>}
FnF(m) == IF m = "a" THEN <<"A", <<"p", "a", "f">>, "function">>
          ELSE <<"B", <<"p", "b", "f">>, "function">>
FnG == <<"A", <<"p", "a", "g">>, "function">>
ClassC == <<"B", <<"p", "b", "C">>, "class">>
Matches == {<<FnF("b"), FnF("a"), ClassC>>, <<FnG, FnF("b"), FnF("a")>>, <<ClassC, FnG, FnF("a")>>,
            <<FnF("a"), ClassC, FnG>>, <<<<"B", <<"p", "b">>, "module">>, ClassC, FnF("b")>>}
Kinds == <<"package", "module", "capability", "convention", "class", "function", "method", "test",
           "property", "constant", "field", "example">>
PriorOf == [k \in Range(Kinds) |->
    CASE k \in {"module", "package"} -> 0 [] k \in {"class", "function"} -> 10000
      [] k = "method" -> 9000 [] k \in {"constant", "field"} -> 3000 [] OTHER -> 5000]
WeightOfCallers == 0 :> 0 @@ 1 :> 2079 @@ 2 :> 3295 @@ 3 :> 4158 @@ 4 :> 4828

------------------------------------------------------------------------------
(* Parsers *)
Fn(x, pub, calls) == [type |-> "fn", name |-> x, pub |-> pub, calls |-> calls, at |-> 1]
Type(x, args, ref) == [base |-> x, args |-> args, ref |-> ref]
Impl(for, trait, items, at) ==
    [type |-> "impl", for |-> for, trait |-> trait, items |-> items, at |-> at]
Held(type, x, pub, bases, items) ==
    [type |-> type, name |-> x, pub |-> pub, bases |-> bases, items |-> items]
Fs == {<<Fn("f", FALSE, <<>>)>>, <<Fn("f", TRUE, <<"g", "g">>), Fn("g", FALSE, <<>>)>>}
Targets == {Type("A", <<>>, FALSE), Type("A", <<"f32">>, FALSE), Type("B", <<>>, FALSE),
            Type("B", <<>>, TRUE)}
Impls == {Impl(for, trait, items, 1) : for \in Targets, trait \in {None, "T", "U"}, items \in Fs}
Others == {[type |-> "use", name |-> "x"], Held("mod", "n", TRUE, <<>>, None),
           Held("mod", "n", FALSE, <<>>,
                <<Fn("f", TRUE, <<>>), Impl(Type("A", <<>>, FALSE), "T", <<Fn("f", FALSE, <<>>)>>, 3)>>),
           Held("struct", "A", TRUE, <<>>, <<[type |-> "field", name |-> "a", pub |-> FALSE]>>),
           Held("enum", "B", TRUE, <<>>, <<[type |-> "constant", name |-> "V", pub |-> FALSE]>>),
           Held("trait", "T", TRUE, <<"U">>,
                <<Fn("f", FALSE, <<>>), [type |-> "type_alias", name |-> "O", pub |-> FALSE]>>),
           Fn("f", TRUE, <<"g">>), [type |-> "constant", name |-> "K", pub |-> FALSE]}
SmallRust == {<<a, [b EXCEPT !.at = 5], c>> : a \in Impls, b \in Impls, c \in Others}
Script(type, x, items) ==
    [type |-> type, name |-> x, bases |-> <<"B">>, implements |-> <<"I">>, items |-> items,
     private |-> FALSE, calls |-> <<"g">>, news |-> <<"C">>, holds |-> "value"]
Members == <<Script("method", "f", <<>>), Script("field", "f", <<>>), Script("variant", "v", <<>>)>>
Plain == {Script(t, "f", <<>>) : t \in {"function", "variable", "type_alias"}}
         \cup {[Script("variable", "f", <<>>) EXCEPT !.holds = "function"]}
Boxes == {Script(t, "f", Members) : t \in {"class", "interface", "enum"}}
         \cup {Script("namespace", "n", <<p>>) : p \in Plain}
Exports == {[type |-> "export", from |-> from, items |-> <<x>>] :
                from \in {<<>>, <<"m">>}, x \in Plain \cup Boxes}
SmallScript ==
    LET all == Plain \cup Boxes \cup Exports \cup {[type |-> "import", name |-> "m"]} IN
    {<<x, y>> : x \in all, y \in all}

------------------------------------------------------------------------------
(* Markdown *)
Atx(level, title) == [t |-> "atx", level |-> level, title |-> title, newline |-> TRUE]
Fence(char, n) == [t |-> "fence", char |-> char, length |-> n, newline |-> TRUE]
Lines == {[t |-> "blank", newline |-> TRUE],
          [t |-> "text", title |-> "A 2", refs |-> <<"p.q">>, newline |-> TRUE],
          Atx(1, "A"), Atx(2, "A"), [t |-> "under", level |-> 2, title |-> "-", newline |-> TRUE],
          Fence("tick", 3), Fence("tick", 4), Fence("tilde", 3)}
(* Documents whose lines all end with newlines; and some of which lines end  *)
(* with other characters, or the last one with none.                         *)
Ended(lines, newlines) == [k \in DOMAIN lines |-> [lines[k] EXCEPT !.newline = k \in newlines]]
Texts(most) == UNION {[1..n -> Lines] : n \in 1..most}
SmallDocuments == Texts(4) \cup {Ended(lines, some) : lines \in Texts(3), some \in SUBSET (1..2)}
SlugOfTitle(title) ==
    CASE title = "A" -> <<"a">> [] title = "A 2" -> <<"a", 2>> [] OTHER -> <<"section">>

------------------------------------------------------------------------------
(* Pages: two sources of the family, one named by its distribution, and one  *)
(* that is not of it: its name is the beginning of theirs, or, where sources *)
(* are asked for by such short names, another.                               *)
molpy == <<"mol", "py">>
molpack == <<"molcrafts-", "mol", "pack">>
other == IF ShortNames THEN <<"atom">> ELSE <<"mol">>
SmallInventory == <<other, molpack, molpy>>
SmallFamily == {molpy, Tail(molpack)}
TasksAsked == {{}, {"packing", "structure"}}
NamesAsked == {molpy, Tail(molpack), <<"molcrafts-", "mol", "py">>, <<"mol", "vis">>, <<"mol">>}
SmallScopes == {{}, {<<"molcrafts-", "mol", "py">>}, {molpy, molpack}, {molpy, <<"mol", "vis">>}}
RolesFilled == other :> {} @@ molpack :> {"packing"} @@ molpy :> {"structure"}
UpAtOnce == {{other, molpack, molpy}, {molpack, molpy}}
HintsOfRole == "packing" :> {<<"mol", "pack">>} @@ "structure" :> {molpy}

------------------------------------------------------------------------------
VARIABLES fFile, fGraph

F == INSTANCE Parsers WITH
    RustFiles <- SmallRust, ScriptFiles <- SmallScript, None <- None, file <- fFile, graph <- fGraph
filesVars == <<fFile, fGraph>>

(* Names are whole where sources are not asked for by short ones. *)
ASSUME ShortNames \/ P!WholeNames

Init ==
    /\ PartsInit
    /\ IF part = "files" THEN F!Init ELSE fFile = off /\ fGraph = off

(* The other parts' steps leave those of Knowledge alone. *)
Next ==
    \/ PartsNext /\ UNCHANGED filesVars
    \/ part = "files" /\ F!Next /\ UNCHANGED partsVars

Spec == Init /\ [][Next]_<<partsVars, filesVars>>

------------------------------------------------------------------------------
(* Parsers: methods of different types and traits stay apart. *)
ImplsApart == part = "files" => F!ImplsApart
(* Parsers: and so they do where types differ in their arguments only. *)
AllImplsApart == part = "files" => F!AllImplsApart
=============================================================================
