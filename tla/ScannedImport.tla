---------------------------- MODULE ScannedImport ----------------------------
(***************************************************************************)
(* The import of a scanned candidate (scanned.py): the page and the parts  *)
(* of its sections become units, unresolved lines become markers, and the  *)
(* corrections of the ledger are applied to both in the order they were    *)
(* decided.  A line is a sequence of words; a served text is words with    *)
(* NewLine between its lines; a marker is a word that stands for nothing   *)
(* else, the id of its unresolved row.                                     *)
(***************************************************************************)
EXTENDS Naturals, Sequences, FiniteSets, SequencesExt

CONSTANTS
    ScanCandidates,  \* candidates of one page that may be offered
    LedgerRows,      \* rows the ledger may hold for the source
    LedgerLength,    \* bound of the model
    NewLine,         \* the end of a line
    FailedCode,      \* the code of the row of a failed page
    NoSection        \* a row that cites no section

\* The assembler cuts the lines of a page into parts that follow one another, so that each line
\* is in one part at most.
ImportAssumption ==
    /\ \A c \in ScanCandidates :
         /\ c.lines \in Seq(Range(c.lines))
         /\ \A i \in DOMAIN c.lines : c.lines[i] \in Seq(Range(c.lines[i]))
         /\ c.rows \in Seq(Range(c.rows)) /\ c.parts \in Seq(Range(c.parts))
         /\ \A k \in DOMAIN c.parts :
              /\ c.parts[k].from \in Nat \ {0} /\ c.parts[k].to \in 1..Len(c.lines)
              /\ c.parts[k].from <= c.parts[k].to
         /\ \A j, k \in DOMAIN c.parts : j < k => c.parts[j].to < c.parts[k].from
    /\ \A row \in LedgerRows : row.to \in Seq(Range(row.to))
ASSUME ImportAssumption

VARIABLES
    offered,     \* the candidate that was imported, <<>> before
    pageText,    \* the text of the page unit
    partText,    \* the text of each section part
    outcomes     \* what became of each row of the ledger

importVars == <<offered, pageText, partText, outcomes>>

ImportInit == offered = <<>> /\ pageText = <<>> /\ partText = <<>> /\ outcomes = <<>>

RowsOf(c) == {c.rows[i] : i \in DOMAIN c.rows}
Marks == IF offered = <<>> THEN {} ELSE {r.id : r \in RowsOf(offered)}

----------------------------------------------------------------------------
(* validate *)

\* An unresolved row of a section, and one a part names, is on a page of that section.
RowsResolve(c) ==
    /\ \A i, j \in DOMAIN c.rows : c.rows[i].id = c.rows[j].id => i = j
    /\ \A r \in RowsOf(c) : r.section # NoSection =>
         \E k \in DOMAIN c.parts : c.parts[k].section = r.section
    /\ \A k \in DOMAIN c.parts : \A id \in c.parts[k].names :
         \E r \in RowsOf(c) : r.id = id /\ r.section \in {NoSection, c.parts[k].section}

\* A page has text exactly when it is transcribed, a row for its failure exactly when it
\* failed, and evidence exactly when it is blank.
StatusHolds(c) ==
    /\ (c.status = "transcribed") <=> (c.lines # <<>>)
    /\ (c.status = "failed") <=> (\E r \in RowsOf(c) : r.code = FailedCode)
    /\ (c.status = "blank") <=> c.evidence

Valid(c) == RowsResolve(c) /\ StatusHolds(c)

----------------------------------------------------------------------------
(* _pattern, _edit: where words occur in a text, whatever lines they run across *)

Content(text) == SelectSeq(text, LAMBDA word : word # NewLine)

Occurs(text, words) ==
    {span \in (DOMAIN text) \X (DOMAIN text) :
        /\ words # <<>> /\ span[1] <= span[2] /\ text[span[1]] = Head(words) /\ text[span[2]] = Last(words)
        /\ Content(SubSeq(text, span[1], span[2])) = words}

\* finditer goes from left to right and leaves out what overlaps an occurrence it has found.
Matches(text, words) ==
    LET all == Occurs(text, words)
        found[i \in DOMAIN text] ==
            \A span \in all : span[1] < i /\ found[span[1]] => span[2] < i
    IN  {span \in all : found[span[1]]}

Edit(text, span, words) ==
    SubSeq(text, 1, span[1] - 1) \o words \o SubSeq(text, span[2] + 1, Len(text))

----------------------------------------------------------------------------
(* mark, _page_text and _section_segments *)

\* The lines that are the row's fragment, else those that hold it.
LinesOf(lines, r) ==
    LET equal == {i \in DOMAIN lines : r.fragment # <<>> /\ lines[i] = r.fragment}
    IN  IF equal # {} THEN equal ELSE {i \in DOMAIN lines : Occurs(lines[i], r.fragment) # {}}

\* The marker takes the place of the row's span where the line has it once, else of the line.
MarkLine(line, r) ==
    IF \E span \in Matches(line, r.span) : Matches(line, r.span) = {span}
    THEN Edit(line, CHOOSE span \in Matches(line, r.span) : TRUE, <<r.id>>)
    ELSE <<r.id>>

\* mark, of one unit of text; in a section a row without a line of its own stands apart, in a
\* segment that no correction edits.
Mark(lines, r) ==
    [i \in DOMAIN lines |-> IF i \in LinesOf(lines, r) THEN MarkLine(lines[i], r) ELSE lines[i]]

\* On the page it follows the text.
MarkPage(lines, r) == IF LinesOf(lines, r) = {} THEN Append(lines, <<r.id>>) ELSE Mark(lines, r)

MarkedPage(c) == FoldLeft(MarkPage, c.lines, c.rows)
MarkedPart(c, k) == FoldLeft(Mark, SubSeq(c.lines, c.parts[k].from, c.parts[k].to), c.rows)

\* "\n".join
JoinLines(lines) ==
    FoldLeft(LAMBDA text, line : IF text = <<>> THEN line ELSE text \o <<NewLine>> \o line, <<>>, lines)

Import ==
    /\ offered = <<>>
    /\ \E c \in {d \in ScanCandidates : Valid(d)} :
         /\ offered' = c
         /\ pageText' = JoinLines(MarkedPage(c))
         /\ partText' = [k \in DOMAIN c.parts |-> JoinLines(MarkedPart(c, k))]
    /\ UNCHANGED outcomes

----------------------------------------------------------------------------
(* _apply: one row of the ledger *)

\* Occurrences that touch no marker.
Spans(text, words) ==
    {span \in Matches(text, words) : \A i \in span[1]..span[2] : text[i] \notin Marks}

PageHits(row) == Spans(pageText, row.from)
PartHits(k, row) == Spans(partText[k], row.from)


Holding(row) == {k \in DOMAIN partText : PartHits(k, row) # {}}
Scoped(row) == {k \in Holding(row) : offered.parts[k].section = row.section}

OnceScoped(row) == \E k \in Scoped(row) : Scoped(row) = {k} /\ Cardinality(PartHits(k, row)) = 1

\* Where the whole text of the cited part is found on the page.
Windows(k) == Matches(pageText, Content(partText[k]))

Lies(inner, outer) == outer[1] <= inner[1] /\ inner[2] <= outer[2]

Inside(k, row) ==
    {span \in PageHits(row) : \E window \in Windows(k) : Windows(k) = {window} /\ Lies(span, window)}

\* The occurrence of the page that is edited and the parts edited with it, or why none is.
Edits(at, parts) ==
    IF \A k \in parts : Cardinality(PartHits(k, at.row)) = 1
    THEN [outcome |-> "applied", page |-> at.page, parts |-> parts]
    ELSE [outcome |-> "ambiguous", page |-> {}, parts |-> {}]

Refusal(outcome) == [outcome |-> outcome, page |-> {}, parts |-> {}]

Decision(row) ==
    IF ~row.onPage THEN Refusal("stale")
    ELSE IF Range(row.to) \cap Marks # {} THEN Refusal("ambiguous")
    ELSE IF Cardinality(PageHits(row)) = 1
         THEN Edits([row |-> row, page |-> PageHits(row)], Holding(row))
    ELSE IF row.section # NoSection /\ OnceScoped(row)
         THEN LET k == CHOOSE j \in Scoped(row) : TRUE IN
              IF PageHits(row) # {} /\ Cardinality(Inside(k, row)) # 1 THEN Refusal("ambiguous")
              ELSE Edits([row |-> row, page |-> Inside(k, row)], {k})
    ELSE IF row.section # NoSection /\ Scoped(row) # {} THEN Refusal("ambiguous")
    ELSE IF PageHits(row) = {} \/ row.section # NoSection THEN Refusal("stale")
    ELSE Refusal("ambiguous")

\* The one occurrence that is edited, if any.
Replaced(text, spans, words) ==
    IF spans = {} THEN text ELSE Edit(text, CHOOSE span \in spans : TRUE, words)

\* The next row of the ledger in decision order.
ApplyRow(row) ==
    /\ offered # <<>> /\ Len(outcomes) < LedgerLength
    /\ \E d \in {Decision(row)} :
         /\ outcomes' = Append(outcomes, d.outcome)
         /\ pageText' = Replaced(pageText, d.page, row.to)
         /\ partText' = [k \in DOMAIN partText |->
                IF k \in d.parts THEN Replaced(partText[k], PartHits(k, row), row.to) ELSE partText[k]]
    /\ UNCHANGED offered

ImportNext == Import \/ \E row \in LedgerRows : ApplyRow(row)
ImportSpec == ImportInit /\ [][ImportNext]_importVars

----------------------------------------------------------------------------
(* Properties *)

\* Places of the page that read as the part does.
Places(k) == Occurs(pageText, Content(partText[k]))

\* The ways in which the parts stand on the page, one after the other.
Alignments ==
    {place \in [DOMAIN partText -> UNION {Places(k) : k \in DOMAIN partText}] :
        /\ \A k \in DOMAIN partText : place[k] \in Places(k)
        /\ \A j, k \in DOMAIN partText : j < k => place[j][2] < place[k][1]}

MarkersIn(text) == {i \in DOMAIN text : text[i] \in Marks}

\* The markers of a text are those of another, in the order in which they stand there.
SameMarkers(old, new) ==
    \E at \in Bijection(MarkersIn(old), MarkersIn(new)) : \A i, j \in MarkersIn(old) :
        new[at[i]] = old[i] /\ (i < j => at[i] < at[j])

\* A fragment of an unresolved row that is part of a longer line: which lines of a text are then
\* marked depends on whether another line of that text is the fragment.
PartOfLine(c) ==
    \E r \in RowsOf(c), i \in DOMAIN c.lines : c.lines[i] # r.fragment /\ Occurs(c.lines[i], r.fragment) # {}

\* What the row corrects on the page has words of a part and words that follow or precede it.
CrossesBorder(row) ==
    \E span \in Decision(row).page, place \in Alignments : \E k \in DOMAIN partText :
        span[1] <= place[k][2] /\ place[k][1] <= span[2] /\ ~Lies(span, place[k])

\* No correction fills a marker, makes one or moves it past another (scanned.py:638-648, 668).
MarkersKept == offered # <<>> =>
    /\ SameMarkers(pageText, pageText')
    /\ \A k \in DOMAIN partText : SameMarkers(partText[k], partText'[k])

=============================================================================
