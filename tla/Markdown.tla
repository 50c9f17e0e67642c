------------------------------ MODULE Markdown ------------------------------
(* What the Markdown analyzer makes of one file, by its lines.               *)
EXTENDS Integers, Sequences, FiniteSets, SequencesExt, FiniteSetsExt, Functions

CONSTANTS
    Documents,  \* sequences of lines
    Slug(_),    \* the slug of a title, a tuple
    None

(* A line is blank, text [title, refs], under [level, title], fence [char,   *)
(* length], or atx [level, title]: t says which.  It ends with a newline, or *)
(* it is the last, or it ends with another of the characters that splitlines *)
(* splits at, a form feed or U+2028 (other carriage returns are translated   *)
(* where the file is read).                                                  *)
MarkdownAssumption ==
    \A lines \in Documents :
        /\ lines \in Seq(Range(lines))
        /\ \A k \in DOMAIN lines :
             /\ lines[k].newline \in BOOLEAN
             /\ lines[k].t \in {"atx", "under"} => lines[k].level \in Nat

VARIABLES file, graph
vars == <<file, graph>>

Init == file \in Documents /\ graph = None

------------------------------------------------------------------------------
(* The scan *)

Closes(fence, line) ==
    line.t = "fence" /\ line.char = fence.char /\ line.length >= fence.length

(* The last line of the block that a fence opens: one that is not closed     *)
(* goes on to the end.                                                       *)
FenceEnd(lines, i) ==
    Min({Len(lines)} \cup {k \in (i + 1)..Len(lines) : Closes(lines[i], lines[k])})

IsSetext(lines, i) ==
    i < Len(lines) /\ lines[i + 1].t = "under" /\ lines[i].t # "blank"

(* What the scan has found when it has been at line i or passed it: next is  *)
(* the line that it goes on with.                                            *)
Headed(lines, was, i, level, size) ==
    [was EXCEPT !.headings = Append(@, [line |-> i, level |-> level, title |-> lines[i].title]),
                !.next = i + size]
ScanLine(lines, was, i) ==
    IF i < was.next THEN was
    ELSE IF lines[i].t = "fence"
    THEN [was EXCEPT !.fences = Append(@, [start |-> i, end |-> FenceEnd(lines, i)]),
                     !.next = FenceEnd(lines, i) + 1]
    ELSE IF lines[i].t = "atx" THEN Headed(lines, was, i, lines[i].level, 1)
    ELSE IF IsSetext(lines, i) THEN Headed(lines, was, i, lines[i + 1].level, 2)
    ELSE [was EXCEPT !.next = i + 1]

Scanned(lines) ==
    LET upTo[i \in 0..Len(lines)] ==
            IF i = 0 THEN [headings |-> <<>>, fences |-> <<>>, next |-> 1]
            ELSE ScanLine(lines, upTo[i - 1], i) IN
    upTo[Len(lines)]

------------------------------------------------------------------------------
(* Sections and their text *)

(* One more than the newlines: not the number of the lines. *)
LineCount(lines) == Cardinality({k \in DOMAIN lines : lines[k].newline}) + 1

(* The text of a heading goes to the next heading, its section to the next   *)
(* one that is not deeper.                                                   *)
ContentEndLate(lines, hs, n) == IF n < Len(hs) THEN hs[n + 1].line ELSE LineCount(lines)
ContentEnd(lines, hs, n) == IF n < Len(hs) THEN hs[n + 1].line - 1 ELSE LineCount(lines)
SectionEnd(lines, hs, n) ==
    Min({LineCount(lines)}
        \cup {hs[m].line - 1 : m \in {k \in (n + 1)..Len(hs) : hs[k].level <= hs[n].level}})

Fenced(scan) == UNION {f.start..f.end : f \in Range(scan.fences)}
Prose(lines, scan, from, to) ==
    {k \in (from..to) \cap DOMAIN lines : k \notin Fenced(scan) /\ lines[k].t # "atx"}
Preamble(lines, scan) ==
    Prose(lines, scan, 1,
          IF scan.headings = <<>> THEN LineCount(lines) ELSE scan.headings[1].line - 1)
Body(lines, scan, n) ==
    Prose(lines, scan, scan.headings[n].line + 1, ContentEnd(lines, scan.headings, n))

(* The heading a section is under: the last one before it of a lower level.  *)
Above(hs, n) == Max({0} \cup {m \in 1..(n - 1) : hs[m].level < hs[n].level})

(* Of sections with one slug in the document the later ones are numbered.    *)
SlugOf(hs, n) ==
    LET same == Cardinality({m \in 1..n : Slug(hs[m].title) = Slug(hs[n].title)}) IN
    Slug(hs[n].title) \o IF same = 1 THEN <<>> ELSE <<same>>

Id(qual, kind) == <<qual, kind>>
Document == Id(<<>>, "document")
SectionId(hs, n) ==
    LET upTo[m \in 0..Len(hs)] ==
            IF m = 0 THEN Document
            ELSE Id(Append(upTo[Above(hs, m)][1], SlugOf(hs, m)), "section") IN
    upTo[n]

(* The section of a line: of those around it the deepest, and of those the   *)
(* last.                                                                     *)
SectionAt(lines, hs, k) ==
    LET around == {n \in DOMAIN hs : k \in hs[n].line..SectionEnd(lines, hs, n)} IN
    IF around = {} THEN 0
    ELSE CHOOSE n \in around : \A m \in around :
             hs[m].level < hs[n].level \/ (hs[m].level = hs[n].level /\ hs[m].line <= hs[n].line)

ExampleOf(lines, scan, n) ==
    SectionId(scan.headings, SectionAt(lines, scan.headings, scan.fences[n].start))
ExampleId(lines, scan, n) == Id(Append(ExampleOf(lines, scan, n)[1], <<"example", n>>), "example")

(* A node refers to a name that its text mentions once. *)
Mentions(lines, from, prose) ==
    LET names == FlattenSeq([k \in DOMAIN lines |->
                     IF k \in prose /\ lines[k].t = "text" THEN lines[k].refs ELSE <<>>])
        firsts == SelectSeq([k \in DOMAIN names |-> k],
                      LAMBDA k : \A j \in 1..(k - 1) : names[j] # names[k]) IN
    [k \in DOMAIN firsts |-> [from |-> from, kind |-> "references", name |-> names[firsts[k]]]]

Node(id) == [id |-> id, exported |-> TRUE]
AnalyzeMarkdown ==
    /\ graph = None
    /\ LET lines == file
           scan == Scanned(lines)
           hs == scan.headings
           fs == scan.fences IN
       graph' = [nodes |-> <<Node(Document)>> \o [n \in DOMAIN hs |-> Node(SectionId(hs, n))]
                           \o [n \in DOMAIN fs |-> Node(ExampleId(lines, scan, n))],
                 contains |-> [n \in DOMAIN hs |-> <<SectionId(hs, Above(hs, n)), SectionId(hs, n)>>]
                              \o [n \in DOMAIN fs |-> <<ExampleOf(lines, scan, n),
                                                        ExampleId(lines, scan, n)>>],
                 refs |-> Mentions(lines, Document, Preamble(lines, scan))
                          \o FlattenSeq([n \in DOMAIN hs |->
                                 Mentions(lines, SectionId(hs, n), Body(lines, scan, n))])]
    /\ UNCHANGED file

Next == AnalyzeMarkdown
Spec == Init /\ [][Next]_vars

------------------------------------------------------------------------------
(* Whether lines end with newlines only, as those of most documents do. *)
NewlinesOnly(lines) == \A k \in 1..(Len(lines) - 1) : lines[k].newline

EachOnce ==
    LET lines == file
        scan == Scanned(lines)
        hs == scan.headings
        Texts(k) == {n \in DOMAIN hs : k \in Body(lines, scan, n)}
        Headings(k) == {n \in DOMAIN hs : hs[n].line = k} IN
    /\ \A k \in DOMAIN lines :
           Cardinality(Texts(k)) + Cardinality(Headings(k))
           + Cardinality({f \in Range(scan.fences) : k \in f.start..f.end})
           + Cardinality({0} \cap IF k \in Preamble(lines, scan) THEN {0} ELSE {}) = 1
    /\ \A f \in DOMAIN scan.fences :
           LET n == Max({0} \cup {m \in DOMAIN hs : hs[m].line < scan.fences[f].start})
               p == SectionId(hs, n) IN
           <<p, Id(Append(p[1], <<"example", f>>), "example")>> \in Range(graph.contains)

(* Each line of a document whose lines end with newlines only is a heading,  *)
(* in one fenced block, or in the text of one section or the preamble, never *)
(* in two and never in none, and a block is an example of the section whose  *)
(* heading is the last before it (markdown.py:258, 272, 286).                *)
LinesOnce == graph # None /\ NewlinesOnly(file) => EachOnce

(* The same of every document, which is false: the newlines are counted, and *)
(* what is past that number of lines is in no section (markdown.py:79-80).   *)
AllLinesOnce == graph # None => EachOnce
=============================================================================
