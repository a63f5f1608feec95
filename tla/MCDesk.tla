-------------------------------- MODULE MCDesk --------------------------------
(* Small instances of the offline work on scanned books: a behaviour is *)
(* one of one part, the others stay as they began. *)
EXTENDS PageReading, PageVotes, ScannedImport, Rebuild, BookReading,
        SupportingWork, RecipeStructure, OuterBlocks, NativeModel, DoclingEvidence,
        BoundaryProposals, BookCapture, RevisionChain, TLC

VARIABLE desk

\* A directory with a text and a refusal, and one whose process was killed before it removed a refused page.
MCSeeds ==
    {[saved |-> <<[text |-> TRUE, refused |-> FALSE], <<>>>>,
      sidecar |-> <<NoSidecar, [attempts |-> 1, errors |-> {}, refused |-> TRUE]>>],
     [saved |-> <<[text |-> FALSE, refused |-> TRUE], <<>>>>,
      sidecar |-> <<NoSidecar, [attempts |-> 1, errors |-> {"empty"}, refused |-> FALSE]>>]}

\* Two wordings that are alike and two that are like no other, with a quantity, two or none, and laid
\* out in two ways.
Line(word, qty) == [word |-> word, qty |-> qty, form |-> "page"]
Formatted(word, qty) == [Line(word, qty) EXCEPT !.form = "crop"]
MCPageTexts ==
    {<<Line("x", <<1>>)>>, <<Line("x", <<1>>), Line("x", <<2>>)>>,
     <<Line("z", <<1>>), Line("x", <<1, 2>>)>>, <<Line("x", <<>>)>>}
MCCropReadings ==
    <<{<<Formatted("x", <<1>>)>>, <<Line("x", <<2>>)>>, <<Line("w", <<2>>), Line("y", <<2>>)>>},
      {<<Line("y", <<2, 1>>)>>}>>
MCAlike(v, w) == v = w \/ {v, w} = {"x", "y"}

\* One page with two sections, and rows that fit it or do not.
Row(id, fragment, span, code, section) ==
    [id |-> id, fragment |-> fragment, span |-> span, code |-> code, section |-> section]
Candidate(status, lines, sections, rowsOf) ==
    [status |-> status, evidence |-> FALSE, lines |-> lines, parts |-> sections, rows |-> rowsOf]
MCSections == <<[section |-> "s", from |-> 1, to |-> 2, names |-> {}],
                [section |-> "t", from |-> 3, to |-> 4, names |-> {"u1"}]>>
\* A fragment that is a line, part of one or both; one that may be marked with its line or in it.
MCRowLists ==
    {<<>>, <<Row("u1", <<"m", "b">>, <<"m">>, "amount", "t")>>, <<Row("u1", <<"m">>, <<>>, "amount", "t")>>,
     <<Row("u1", <<"b">>, <<>>, "amount", "t"), Row("u2", <<"m">>, <<"m">>, "label", NoSection)>>}
MCScanCandidates ==
    {Candidate("transcribed", lines, MCSections, rowList) :
        lines \in [1..4 -> {<<"a">>, <<"b">>, <<"m", "b">>}], rowList \in MCRowLists}
    \cup {Candidate("failed", <<>>, <<>>, <<Row("u1", <<>>, <<>>, code, NoSection)>>) :
             code \in {FailedCode, "amount"}}
LedgerRow(from, to, section) == [onPage |-> TRUE, from |-> from, to |-> to, section |-> section]
MCLedgerRows ==
    {LedgerRow(from, to, section) : from \in {<<"a">>, <<"b">>, <<"b", "a">>}, to \in {<<"a">>, <<"c">>},
                                    section \in {"s", "t", NoSection}}
    \cup {LedgerRow(<<"a">>, <<"u1">>, NoSection), LedgerRow(<<"u1">>, <<"c">>, NoSection),
          [LedgerRow(<<"a">>, <<"c">>, NoSection) EXCEPT !.onPage = FALSE]}

\* A PDF of one page that is recognized; what is recognized is in doubt, or is no text.
MCSelections == {{"p"}}
MCFormats == [p |-> {"PDF"}]
MCSourceOf == <<"p", "PDF">> :> "s"
MCOcrPages == [s |-> {1}]
MCRecognitions == {[text |-> "a", flagged |-> TRUE], [text |-> "", flagged |-> FALSE]}

\* Three documents, a text across which a recipe begins and ends, a spine that repeats a document
\* in the second publication.
Element(last) == [kind |-> "element", size |-> 0, last |-> last]
TextNode(length, at) == [kind |-> "text", size |-> length, last |-> at]
MCDocuments ==
    <<<<Element(4), TextNode(3, 1), Element(2), Element(4), TextNode(2, 4)>>,
      <<Element(2), TextNode(2, 1), Element(2)>>, <<Element(1), TextNode(1, 1)>>>>
MCEntities ==
    [recipe |-> <<PartOf(1, SideOf(1, "text_offset", 1), SideOf(4, "text_offset", 1)),
                  PartOf(2, BeforeNode(1), AfterNode(1))>>]
MCBook(spine, nav) == [docs |-> MCDocuments, spine |-> spine, nav |-> nav, entities |-> MCEntities]
MCBookOf ==
    <<MCBook(<<1, 2, 3>>, {<<1, 2>>, <<1, 3>>, <<3, 1>>}),
      MCBook(<<1, 2, 3, 1>>, {<<1, 2>>, <<2, 0>>})>>
Target(kind, at) == [kind |-> kind, at |-> at]
MCReadTargets ==
    {Target("occurrence", 1), Target("nav", <<1, 2>>), Target("nav", <<1, 3>>),
     Target("nav", <<2, 0>>), Target("node", <<1, 3>>), Target("entity", "recipe")}

\* Three recipes that use each other, in a cycle or not, in part or not, or one nobody knows.
UseOf(class, scope, target) == [class |-> class, scope |-> scope, target |-> target]
Needed(target) == UseOf("required", "whole", target)
UpTo(n, S) == UNION {[1..k -> S] : k \in 0..n}
MCBookUses ==
    UpTo(2, {Needed(2), Needed(3), UseOf("optional", "whole", 3), UseOf("required", "part", 2)})
        \X UpTo(1, {Needed(1), Needed(3), UseOf("unknown", "whole", 3)})
        \X UpTo(1, {Needed(1), Needed(2), Needed(NoTarget)})
MCChoicesOf == <<1, 0, 1>>

\* Titles, lines, labels and a stop, before a whole recipe or alone; links to its title and back to
\* a line; an ingredient entered by hand over parts of two lines, in a recipe with a gap.
SetAs(kind, label, wording) == [kind |-> kind, label |-> label, wording |-> wording]
Bare(kind) == SetAs(kind, NoPart, "plain")
Titled == Bare("title")
Line1 == Bare("ingredient")
Step1 == Bare("instruction")
MethodLabel == SetAs("other", "method_group", "plain")
ForLine == SetAs("ingredient", NoPart, "for")
Labels == {SetAs("other", l, "plain") : l \in {"ingredient_group", "equipment", "unresolved"}}
FirstStyles == {Titled, Line1, ForLine, Bare("equipment")} \cup Labels
SecondStyles ==
    Labels \cup {Titled, Line1, Step1, ForLine, MethodLabel, Bare("more"), Bare("equipment"),
                 SetAs("other", NoPart, "for"), SetAs("instruction", "ingredient_group", "method")}
ThirdStyles == {Line1, Step1, Bare("more"), Bare("stop"), Bare("prefixed")}
BlocksOf(styles) ==
    [i \in DOMAIN styles |->
        [kind |-> styles[i].kind, label |-> styles[i].label, wording |-> styles[i].wording,
         doc |-> IF i <= 4 THEN 1 ELSE 2,
         link |-> CASE i = 3 -> 12 [] i = 6 -> 5 [] OTHER -> NoNode,
         chars |-> IF styles[i].kind = "instruction" THEN 3 ELSE 1,
         acts |-> styles[i].kind = "instruction"]]
MCBlocks ==
    {BlocksOf(<<Titled>> \o k \o <<Titled, Line1, Step1>>) : k \in FirstStyles \X SecondStyles \X ThirdStyles}
    \cup {BlocksOf(<<Titled>> \o k) : k \in [1..4 -> {Titled, Line1, Step1, MethodLabel}]}
    \cup {BlocksOf(<<Titled, Line1, MethodLabel, Bare("prefixed"), Line1, k>>) : k \in ThirdStyles}
MCProfiles ==
    {[prose |-> FALSE, trailing |-> TRUE, inline |-> FALSE, kinds |-> {}],
     [prose |-> FALSE, trailing |-> TRUE, inline |-> TRUE, kinds |-> {"method_group", "unresolved"}],
     [prose |-> TRUE, trailing |-> FALSE, inline |-> FALSE, kinds |-> {}]}
MCSupported ==
    {[recipes |-> {}, occurrences |-> {}],
     [recipes |-> {[id |-> 9, blocks |-> {2, 3, 5}]},
      occurrences |-> {[recipe |-> 9, kind |-> "ingredient", from |-> 7, to |-> 11,
                        part |-> NoPart, ordinal |-> 0]}]}

\* Every way four nodes can nest, each of any kind.
Nested(last) == \A m, n \in DOMAIN last : n <= last[n] /\ (m < n /\ n <= last[m] => last[n] <= last[m])
MCDocumentTrees ==
    {[size |-> 4, last |-> l, kind |-> k] :
        l \in {m \in [0..3 -> 0..3] : Nested(m) /\ m[0] = 3},
        k \in [0..3 -> {"wrap", "paragraph", "styled", "hidden"}]}

\* A book, the same with other bytes, and the first beside a scan.
MCShelves ==
    {[epub |-> {<<"a", 1>>}, scan |-> {}], [epub |-> {<<"a", 2>>}, scan |-> {}],
     [epub |-> {<<"a", 1>>}, scan |-> {"s"}]}
MCEvidence ==
    {[editions |-> {}, entities |-> {}],
     [editions |-> {<<"a", 1>>}, entities |-> {<<<<"a", 1>>, 0>>}]}

\* A group and two tables on two pages, whose boxes and cells overlap, reached from the roots or not.
SavedNode(kind, boxes, cells, below) == [kind |-> kind, boxes |-> boxes, cells |-> cells, below |-> below]
NoBoxes == <<>>
MCBoxes == {NoBoxes, <<{<<1, 1>>, <<1, 2>>}>>, <<{<<1, 1>>}, {<<2, 1>>}>>}
MCCells == {<<>>, <<{<<1, 1>>}, {<<1, 1>>, <<1, 2>>}>>, <<{<<1, 2>>}>>}
SavedScan(predicted, nodeSeq, roots) ==
    [lines |-> <<2, 1>>, predicted |-> <<predicted, <<1>>>>, nodes |-> nodeSeq, roots |-> roots]
MCSavedScans ==
    {SavedScan(<<2, 1>>, <<SavedNode("group", b1, <<>>, below), SavedNode("table", b2, c2, below2),
                           SavedNode("table", b3, <<{<<1, 1>>}>>, <<>>)>>, r) :
        b1 \in {NoBoxes, <<{<<1, 1>>}>>}, b2 \in MCBoxes, c2 \in MCCells, b3 \in MCBoxes,
        below \in {<<>>, <<2>>, <<2, 3>>}, below2 \in {<<>>, <<3>>}, r \in {<<1>>, <<1, 2>>}}
    \cup {SavedScan(p, <<>>, <<>>) : p \in {<<1>>, <<1, 1>>, <<1, 2>>}}

\* A recipe in one or two columns, what may go on with it on the next pages, which may not follow;
\* blocks that overlap, a part of a recipe and a picture.
ScanLine(page, at, lanes, words, step) ==
    [page |-> page, row |-> at, lanes |-> lanes, text |-> words, step |-> step]
ScanBlock(page, ls, kind) == [page |-> page, lines |-> ls, kind |-> kind, leaf |-> TRUE]
OwnBlocks(ls, kinds) == [l \in DOMAIN ls |-> ScanBlock(ls[l].page, {l}, kinds[l])]
MCScanLines ==
    {<<ScanLine(1, 1, {1, 2}, "title", 0), ScanLine(1, 2, {1}, "quantity", 0),
       ScanLine(1, 2, {2}, "quantity", 0), ScanLine(1, 3, a, "prose", 1),
       ScanLine(2, 1, b, x, IF x = "prose" THEN n ELSE 0), ScanLine(2, 2, {1}, "prose", 3),
       ScanLine(3, 1, {1}, "prose", m)>> :
        a \in {{1}, {2}}, b \in {{1}, {2}, {1, 2}}, x \in {"prose", "part"}, n \in {1, 2}, m \in {3, 4}}
MCScans ==
    {[pages |-> p, lines |-> ls,
      blocks |-> OwnBlocks(ls, <<"heading", k2, "text", "text", k5, "text", "text">>) \o overlap] :
        p \in {<<1, 2, 3>>, <<1, 3, 4>>}, ls \in MCScanLines, k2 \in {"text", "heading"},
        k5 \in {"text", "heading", "picture"},
        overlap \in {<<>>, <<ScanBlock(1, {2, 3}, "text")>>, <<ScanBlock(2, {5}, "text")>>}}

\* Bodies of four elements, two with one id, two that may be entries of the contents, beside a document
\* that is written after it; what a link leads to; the spine repeats a document or names a resource;
\* members that cannot be read; the file may become another book.
ElementAt(depthOf, txt, tail, ids, kind, href, entry) ==
    [depth |-> depthOf, text |-> txt, tail |-> tail, ids |-> ids, kind |-> kind, href |-> href, entry |-> entry]
Plain(depthOf, txt, tail) == ElementAt(depthOf, txt, tail, {}, "other", NoHref, NoHref)
BodyOf(t1, t2, t3, t4, d3, d4, kind, href) ==
    <<Plain(1, FALSE, FALSE), ElementAt(2, t1, t2, {"f"}, kind, href, <<2, "g">>),
      ElementAt(d3, t3, TRUE, {"f", "h"}, "other", NoHref, <<Here, NoFragment>>),
      ElementAt(d4, FALSE, t4, {}, "a", <<2, "g">>, NoHref)>>
MCLastDocument == <<ElementAt(1, TRUE, FALSE, {"g"}, "other", NoHref, NoHref)>>
MCNcx == <<Plain(1, FALSE, FALSE), ElementAt(2, FALSE, FALSE, {}, "other", NoHref, <<1, "x">>),
           ElementAt(3, FALSE, FALSE, {}, "other", NoHref, <<Here, NoFragment>>)>>
ArchiveOf(sound, docs, ncx, spine) ==
    [sound |-> sound, docs |-> docs, ncx |-> ncx, others |-> {9}, spine |-> [k \in DOMAIN spine |->
        [path |-> spine[k], linear |-> k = 1]]]
MCOther == ArchiveOf(TRUE, <<MCLastDocument>>, <<>>, <<1>>)
MCFilePairs ==
    {<<ArchiveOf(TRUE, <<BodyOf(t1, t2, t3, t4, d3, d4, "a", <<Here, "f">>), MCLastDocument>>, <<MCNcx>>, <<2, 1, 2>>), MCOther>> :
        t1, t2, t3, t4 \in BOOLEAN, d3 \in {2, 3}, d4 \in {2, 3}}
    \cup {<<ArchiveOf(TRUE, <<BodyOf(TRUE, FALSE, TRUE, FALSE, d3, 2, kind, h), MCLastDocument>>, <<MCNcx>>, s), MCOther>> :
        d3 \in {2, 3}, kind \in {"a", "image"}, s \in {<<1, 2>>, <<1, 9>>},
        h \in {<<External, "f">>, <<8, NoFragment>>, <<9, NoFragment>>, <<9, "f">>, <<2, "f">>, <<2, NoFragment>>}}
    \cup {<<ArchiveOf(sound, <<MCLastDocument, d>>, n, <<1>>), MCOther>> :
        sound \in BOOLEAN, d \in {<<>>, MCLastDocument}, n \in {<<>>, <<<<>>>>, <<MCNcx>>}}

\* A line that repeats a quantity, in a cell with the next line or alone; what selects them, settled or
\* not; what reviewers may want of them.
MCSelected(settled) ==
    <<[id |-> "r", lines |-> {1}, settled |-> TRUE], [id |-> "q", lines |-> {1, 2}, settled |-> settled]>>
MCSheets ==
    {[lines |-> <<<<"2", "cups", "2">>, <<"salt">>>>, cells |-> <<c>>, selections |-> MCSelected(k)] :
        c \in {<<1>>, <<1, 2>>}, k \in BOOLEAN}
Proposal(kind, at, value, state) ==
    [on |-> <<kind, at>>, span |-> Whole, of |-> Null, cell |-> Null, value |-> value,
     state |-> state, rivals |-> "none"]
Within(from, to, value, state) ==
    [Proposal("line", 1, value, state) EXCEPT !.span = <<from, to>>, !.of = "r", !.cell = 1]
MCProposals ==
    {{Within(1, 1, <<"1", "or", "2">>, "source_reviewed")},
     {Within(3, 3, <<"4">>, "proposed"), Proposal("member", 1, Null, "unresolved")},
     {[Within(3, 3, <<"3">>, "source_reviewed") EXCEPT !.rivals = "selected"]},
     {[Proposal("line", 1, <<"2", "cups", "2">>, "source_reviewed") EXCEPT !.rivals = "open"]},
     {Within(1, 1, Null, "unresolved")},
     {Proposal("quantity", 1, <<"1", "or", "2", "cups", "2">>, "source_reviewed"),
      Proposal("line", 2, <<"malt">>, "source_reviewed")},
     {Proposal("member", 1, <<"r">>, "source_reviewed"), Proposal("member", 2, <<"q">>, "source_reviewed")}}

Desks == {"reading", "votes", "import", "rebuild", "book", "work", "structure", "scan", "native", "saved",
          "boundary", "capture", "revisions"}

\* The parts that begin in many ways do so in their own behaviours only.
NoScan ==
    /\ document = [size |-> 0, last |-> <<>>, kind |-> <<>>] /\ scan = "none"
    /\ row = 0 /\ covered = 0 /\ spans = {}
NoStructure ==
    /\ markup = "none" /\ blocks = <<>> /\ recipes = {} /\ occurrences = {} /\ parts = {} /\ uses = {}
    /\ build = NoInterpretation
NoWork ==
    /\ usesOf = <<>> /\ depth = 0 /\ limit = 0 /\ walk = <<>> /\ expanding = NoRecipe
    /\ answer = [truncated |-> TRUE]
OneBallot ==
    /\ text = <<Line("x", <<1>>)>>
    /\ ballots = [c \in 1..Crops |-> [s \in 1..PageSamples |-> Unread]]

NoSavedScan ==
    /\ savedScan = SavedScan(<<1, 2>>, <<>>, <<>>) /\ adapted = NoSnapshot /\ trail = <<>> /\ visited = {}
    /\ adapting = [phase |-> "none", roots |-> <<>>, outside |-> {}]
NoBoundaries ==
    /\ scanned = [pages |-> <<1>>, lines |-> <<>>, blocks |-> <<>>] /\ views = {}
    /\ turn = [page |-> 0, views |-> {}, headed |-> <<>>]
    /\ groups = <<>> /\ orphans = <<>> /\ continuations = {} /\ proposal = "none"
NoCapture ==
    /\ file = <<>> /\ disk = [is |-> 0, changes |-> 0]
    /\ capture = [phase |-> "none", handle |-> 0, names |-> 0, ncx |-> 0, doc |-> 1, at |-> 1, order |-> 0]
    /\ parsed = <<>> /\ opened = <<>> /\ nodes = {} /\ book = NoBook
NoRevisions ==
    /\ sheet = [lines |-> <<>>, cells |-> <<>>, selections |-> <<>>] /\ chain = <<>>
    /\ revising = [v \in Reviewers |-> NotRevising]

DeskInit ==
    /\ desk \in Desks
    /\ IF desk = "scan" THEN ScanInit ELSE NoScan
    /\ IF desk = "structure" THEN StructureInit ELSE NoStructure
    /\ IF desk = "work" THEN WorkInit ELSE NoWork
    /\ IF desk = "saved" THEN DocInit ELSE NoSavedScan
    /\ IF desk = "boundary" THEN BoundaryInit ELSE NoBoundaries
    /\ IF desk = "capture" THEN CaptureInit ELSE NoCapture
    /\ IF desk = "revisions" THEN RevisionInit ELSE NoRevisions
    /\ desk = "votes" \/ OneBallot
    /\ ReadingInit /\ ImportInit /\ RebuildInit /\ ReadInit /\ NativeInit /\ VotesInit

Idle(d, vars) == IF desk = d THEN TRUE ELSE UNCHANGED vars

Alone ==
    /\ UNCHANGED desk
    /\ Idle("reading", readingVars) /\ Idle("votes", voteVars) /\ Idle("import", importVars)
    /\ Idle("rebuild", rebuildVars) /\ Idle("book", readVars) /\ Idle("work", workVars)
    /\ Idle("structure", structureVars) /\ Idle("scan", scanVars) /\ Idle("native", nativeVars)
    /\ Idle("saved", docVars) /\ Idle("boundary", boundaryVars) /\ Idle("capture", captureVars)
    /\ Idle("revisions", revisionVars)

ReadingDesk == desk = "reading" /\ ReadingNext /\ Alone
VotesDesk == desk = "votes" /\ VotesNext /\ Alone
ImportDesk == desk = "import" /\ ImportNext /\ Alone
RebuildDesk == desk = "rebuild" /\ RebuildNext /\ Alone
BookDesk == desk = "book" /\ ReadNext /\ Alone
WorkDesk == desk = "work" /\ WorkNext /\ Alone
StructureDesk == desk = "structure" /\ StructureNext /\ Alone
ScanDesk == desk = "scan" /\ ScanNext /\ Alone
NativeDesk == desk = "native" /\ NativeNext /\ Alone
SavedDesk == desk = "saved" /\ DocNext /\ Alone
BoundaryDesk == desk = "boundary" /\ BoundaryNext /\ Alone
CaptureDesk == desk = "capture" /\ CaptureNext /\ Alone
RevisionsDesk == desk = "revisions" /\ RevisionNext /\ Alone

DeskNext == ReadingDesk \/ VotesDesk \/ ImportDesk \/ RebuildDesk \/ BookDesk \/ WorkDesk
            \/ StructureDesk \/ ScanDesk \/ NativeDesk \/ SavedDesk \/ BoundaryDesk \/ CaptureDesk
            \/ RevisionsDesk

deskVars == <<desk, readingVars, voteVars, importVars, rebuildVars, readVars, workVars,
              structureVars, scanVars, nativeVars, docVars, boundaryVars, captureVars,
              revisionVars>>

DeskSpec == DeskInit /\ [][DeskNext]_deskVars
=============================================================================
