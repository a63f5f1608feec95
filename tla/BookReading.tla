------------------------------ MODULE BookReading ------------------------------
(***************************************************************************)
(* Reading of a whole book (book_model.py): a target is resolved to parts  *)
(* of documents, and read in pages that each have a budget of bytes and of *)
(* nodes; a cursor says where the next page begins.  A node is an element  *)
(* or a text of some length, which a page may split; nodes are in          *)
(* preorder, from 0.  The publication may change between two pages.        *)
(***************************************************************************)
EXTENDS Integers, Sequences, FiniteSets

CONSTANTS
    BookOf,       \* the book in each publication: docs, spine, nav, entities
    ReadTargets,  \* what a reader may ask for
    ByteBudgets, NodeBudgets,
    Overhead, EntityCost, CiteCost, NodeCost,  \* bytes of what is not text
    SourceChanges, \* bound of the model: publications activated
    NoCall

Sides == {"before", "after", "text_offset"}

\* A part of a book is bounded by nodes, and by characters of their texts (bounds).
BoundedPart(book, part) ==
    /\ part.doc \in DOMAIN book.docs
    /\ \A pos \in {part.start, part.end} :
           /\ pos.node \in 0..(Len(book.docs[part.doc]) - 1) /\ pos.side \in Sides
           /\ pos.offset \in 0..book.docs[part.doc][pos.node + 1].size

\* Nodes are in preorder below one root, and what the model of a book names is in it.
ASSUME BookAssumption ==
    /\ SourceChanges \in Nat /\ ByteBudgets \subseteq Nat /\ NodeBudgets \subseteq Nat
    /\ Overhead \in Nat /\ EntityCost \in Nat /\ CiteCost \in Nat /\ NodeCost \in Nat
    /\ NoCall \notin [bytes : Nat, left : Nat, used : Int, given : Nat, cited : BOOLEAN,
                      part : Nat, at : Int \X Nat]
    /\ \A b \in 1..(SourceChanges + 1) :
           /\ \A d \in DOMAIN BookOf[b].docs :
                  /\ BookOf[b].docs[d] \in Seq([kind : {"element", "text"}, size : Nat, last : Nat])
                  /\ BookOf[b].docs[d] # <<>>
                  /\ BookOf[b].docs[d][1].last = Len(BookOf[b].docs[d]) - 1
           /\ BookOf[b].spine \in Seq(DOMAIN BookOf[b].docs)
           /\ \A v \in BookOf[b].nav : /\ v = <<v[1], v[2]>> /\ v[1] \in DOMAIN BookOf[b].docs
                                      /\ v[2] \in 0..(Len(BookOf[b].docs[v[1]]) - 1)
           /\ \A e \in DOMAIN BookOf[b].entities :
                  LET parts == BookOf[b].entities[e] IN
                  /\ parts \in Seq({parts[i] : i \in DOMAIN parts})
                  /\ \A i \in DOMAIN parts : BoundedPart(BookOf[b], parts[i])

VARIABLES
    activeBook, \* the active publication
    reading,    \* what the reader asked for, the cursor it holds and what it was given
    call        \* the call being answered, NoCall between calls

readVars == <<activeBook, reading, call>>

Book == BookOf[activeBook]

\* A node as rows of the table: kind "element" or "text", size, last node of its subtree.
NodesOf(d) == 0..(Len(Book.docs[d]) - 1)
NodeAt(d, n) == Book.docs[d][n + 1]

NoCursor == [part |-> 0, at |-> <<0, 0>>]
NotReading == [state |-> "none", target |-> NoCall, asked |-> 0, parts |-> <<>>,
               cursor |-> NoCursor, got |-> <<>>]

ReadInit == activeBook = 1 /\ reading = NotReading /\ call = NoCall

----------------------------------------------------------------------------
(* bounds *)

SideOf(node, side, offset) == [node |-> node, side |-> side, offset |-> offset]
BeforeNode(node) == SideOf(node, "before", 0)
AfterNode(node) == SideOf(node, "after", 0)

Position(d, pos) ==
    CASE pos.side = "before" -> <<pos.node, 0>>
      [] pos.side = "after" -> <<NodeAt(d, pos.node).last + 1, 0>>
      [] OTHER -> <<pos.node, pos.offset>>

Lo(part) == Position(part.doc, part.start)
Hi(part) == Position(part.doc, part.end)

----------------------------------------------------------------------------
(* selection *)

PartOf(d, from, to) == [doc |-> d, start |-> from, end |-> to]

WholeDocument(d) == <<PartOf(d, BeforeNode(0), AfterNode(0))>>

OccurrencesOf(d) == {o \in DOMAIN Book.spine : Book.spine[o] = d}

\* In reading order: the occurrence of a document, then the node in it.
Earlier(v, w) == v[1] < w[1] \/ (v[1] = w[1] /\ v[2] < w[2])

Destinations ==
    UNION {{<<o, v[2]>> : v \in {w \in Book.nav : w[1] = Book.spine[o]}} : o \in DOMAIN Book.spine}
Following(o, n) == {v \in Destinations : Earlier(<<o, n>>, v)}
FirstVisit(vs) == CHOOSE v \in vs : \A w \in vs : ~Earlier(w, v)

\* The link could mean more than one occurrence, or ends at such a document.
Ambiguous(d, n) ==
    \/ Cardinality(OccurrencesOf(d)) # 1
    \/ \E o \in OccurrencesOf(d) :
           /\ Following(o, n) # {}
           /\ Cardinality(OccurrencesOf(Book.spine[FirstVisit(Following(o, n))[1]])) # 1

\* From the destination to the next one in the same document.
WithinDocument(d, n) ==
    LET later == {m \in NodesOf(d) : <<d, m>> \in Book.nav /\ m > n}
    IN  <<PartOf(d, BeforeNode(n), IF later = {} THEN AfterNode(0) ELSE BeforeNode(CHOOSE m \in later : \A k \in later : m <= k))>>

\* navigation_parts: across documents, to the next destination in reading order.
NavigationParts(d, n) ==
    LET first == CHOOSE o \in OccurrencesOf(d) : TRUE
        next == Following(first, n)
        \* The last occurrence read, in part when the next destination is inside it.
        stop == IF next = {} THEN Len(Book.spine)
                ELSE LET v == FirstVisit(next) IN IF v[2] = 0 THEN v[1] - 1 ELSE v[1]
        from(o) == BeforeNode(IF o = first THEN n ELSE 0)
        to(o) == IF next # {} /\ FirstVisit(next)[1] = o THEN BeforeNode(FirstVisit(next)[2]) ELSE AfterNode(0)
    IN  [i \in 1..(stop - first + 1) |->
            PartOf(Book.spine[first + i - 1], from(first + i - 1), to(first + i - 1))]

Chapter(d, n) == IF Ambiguous(d, n) THEN WithinDocument(d, n) ELSE NavigationParts(d, n)

Available(t) ==
    CASE t.kind = "occurrence" -> t.at \in DOMAIN Book.spine
      [] t.kind = "nav" -> t.at \in Book.nav
      [] t.kind = "node" -> t.at[1] \in DOMAIN Book.docs /\ t.at[2] \in NodesOf(t.at[1])
      [] OTHER -> t.at \in DOMAIN Book.entities

Selection(t) ==
    CASE t.kind = "occurrence" -> WholeDocument(Book.spine[t.at])
      [] t.kind = "nav" -> Chapter(t.at[1], t.at[2])
      [] t.kind = "node" -> <<PartOf(t.at[1], BeforeNode(t.at[2]), AfterNode(t.at[2]))>>
      [] OTHER -> Book.entities[t.at]

----------------------------------------------------------------------------
(* read *)

\* The digest of the publication, the target and the parts that a cursor carries.
Signed(r) == [by |-> r.asked, target |-> r.target, parts |-> r.parts]

SameSelection ==
    /\ Available(reading.target)
    /\ Signed(reading) = [by |-> activeBook, target |-> reading.target, parts |-> Selection(reading.target)]

Continuing == reading.cursor # NoCursor

Metadata == Overhead + (IF reading.target.kind = "entity" /\ ~Continuing THEN EntityCost ELSE 0)

Answering(bytes, nodes) ==
    [bytes |-> bytes, left |-> nodes, used |-> Metadata, given |-> 0, cited |-> FALSE,
     part |-> IF Continuing THEN reading.cursor.part ELSE 1,
     at |-> IF Continuing THEN reading.cursor.at ELSE <<-1, 0>>]

AskRead(t) ==
    /\ reading.state = "none"
    /\ reading' = [NotReading EXCEPT !.state = "open", !.target = t]
    /\ UNCHANGED <<activeBook, call>>

\* A call is answered from the publication it found; one with a cursor of another selection, or
\* with no room for more than what describes it, is refused and changes nothing.
BeginRead(bytes, nodes) ==
    /\ reading.state = "open" /\ call = NoCall
    /\ IF Continuing THEN SameSelection ELSE Available(reading.target)
    /\ Metadata < bytes
    /\ call' = Answering(bytes, nodes)
    /\ reading' = IF Continuing THEN reading
                  ELSE [reading EXCEPT !.asked = activeBook, !.parts = Selection(reading.target)]
    /\ UNCHANGED activeBook

RefuseRead == call' = NoCall /\ UNCHANGED <<activeBook, reading>>

ReadParts == reading.parts
CurrentPart == ReadParts[call.part]

\* The answer ends with a cursor, or without one.
AnswerPage(cursor) ==
    /\ reading' = [reading EXCEPT !.cursor = cursor, !.state = IF cursor = NoCursor THEN "read" ELSE "open"]
    /\ call' = NoCall
    /\ UNCHANGED activeBook

Continuation(part, at) == AnswerPage([part |-> part, at |-> at])

AtStart == IF call.at = <<-1, 0>> THEN Lo(CurrentPart) ELSE call.at

CitePart ==
    /\ call # NoCall /\ call.part <= Len(ReadParts) /\ ~call.cited
    /\ IF call.used + CiteCost > call.bytes THEN Continuation(call.part, AtStart)
       ELSE /\ call' = [call EXCEPT !.cited = TRUE, !.used = @ + CiteCost, !.at = AtStart]
            /\ UNCHANGED <<activeBook, reading>>

\* Rows from the position to the end of the part; one that begins at the end is not read.
RowLeft == /\ call.at[1] <= Hi(CurrentPart)[1] /\ call.at[1] \in NodesOf(CurrentPart.doc)
           /\ ~(call.at[1] = Hi(CurrentPart)[1] /\ Hi(CurrentPart)[2] = 0)

NextPart ==
    /\ call # NoCall /\ call.part <= Len(ReadParts) /\ call.cited /\ ~RowLeft
    /\ call' = [call EXCEPT !.part = @ + 1, !.cited = FALSE, !.at = <<-1, 0>>]
    /\ UNCHANGED <<activeBook, reading>>

EndOf(row) == IF call.at[1] = Hi(CurrentPart)[1] THEN Hi(CurrentPart)[2] ELSE NodeAt(CurrentPart.doc, call.at[1]).size

CurrentRow == NodeAt(CurrentPart.doc, call.at[1])
IsText == CurrentRow.kind = "text"

\* The characters of a text, or the element itself: of which part, in which node.
UnitsGiven(from, to) ==
    IF IsText THEN [i \in 1..(to - from) |-> <<call.part, call.at[1], from + i>>]
    ELSE <<<<call.part, call.at[1], 0>>>>

RowBytes == NodeCost + (IF IsText THEN EndOf(CurrentRow) - call.at[2] ELSE 0)

TakeRow ==
    /\ call # NoCall /\ call.part <= Len(ReadParts) /\ call.cited /\ RowLeft
    /\ call.given < call.left /\ call.used + RowBytes <= call.bytes
    /\ reading' = [reading EXCEPT !.got = @ \o UnitsGiven(call.at[2], EndOf(CurrentRow))]
    /\ call' = [call EXCEPT !.given = @ + 1, !.used = @ + RowBytes, !.at = <<@[1] + 1, 0>>]
    /\ UNCHANGED activeBook

\* A page that has something ends before a row that does not fit.
EndPage ==
    /\ call # NoCall /\ call.part <= Len(ReadParts) /\ call.cited /\ RowLeft
    /\ call.given >= call.left \/ (call.used + RowBytes > call.bytes /\ call.given > 0)
    /\ Continuation(call.part, call.at)

\* mutant: the next page begins after the text that was split
ResumeAfter(to) == <<call.at[1] + 1, 0>>

ResumeAt(to) == <<call.at[1], to>>

\* A text that does not fit on an empty page is split where it still fits.
SplitText ==
    /\ call # NoCall /\ call.part <= Len(ReadParts) /\ call.cited /\ RowLeft
    /\ call.given = 0 /\ call.left > 0 /\ call.used + RowBytes > call.bytes
    /\ LET room == call.bytes - call.used - NodeCost IN
       IF ~IsText \/ room <= 0 THEN RefuseRead
       ELSE /\ reading' = [reading EXCEPT
                   !.got = @ \o UnitsGiven(call.at[2], call.at[2] + room),
                   !.cursor = [part |-> call.part, at |-> ResumeAt(call.at[2] + room)]]
            /\ call' = NoCall
            /\ UNCHANGED activeBook

LastPage ==
    /\ call # NoCall /\ call.part > Len(ReadParts)
    /\ AnswerPage(NoCursor)

\* A whole publication with its own model replaces the active one.
Republish ==
    /\ activeBook < SourceChanges + 1 /\ activeBook' = activeBook + 1
    /\ call = NoCall
    /\ UNCHANGED <<reading, call>>

ReadNext ==
    \/ \E t \in ReadTargets : AskRead(t)
    \/ \E bytes \in ByteBudgets, nodes \in NodeBudgets : BeginRead(bytes, nodes)
    \/ CitePart \/ TakeRow \/ EndPage \/ SplitText \/ NextPart \/ LastPage \/ Republish

ReadSpec == ReadInit /\ [][ReadNext]_readVars

----------------------------------------------------------------------------
(* Properties *)

\* Where a position is in a document.
PlaceOf(doc, pos) ==
    CASE pos.side = "before" -> <<pos.node, 0>>
      [] pos.side = "after" -> <<doc[pos.node + 1].last + 1, 0>>
      [] OTHER -> <<pos.node, pos.offset>>

\* A character is after the start when it ends after it, and before the end likewise.
Between(from, to, n, i) ==
    /\ n > from[1] \/ (n = from[1] /\ (i = 0 \/ i > from[2]))
    /\ n < to[1] \/ (n = to[1] /\ i <= to[2] /\ to[2] > 0)

\* The characters and the elements of the part p: part, node, and character or 0.
UnitsOfPart(book, parts, p) ==
    LET doc == book.docs[parts[p].doc]
        units(n) == {<<p, n, i>> : i \in IF doc[n + 1].kind = "text" THEN 1..doc[n + 1].size ELSE {0}}
    IN  {u \in UNION {units(n) : n \in 0..(Len(doc) - 1)} :
            Between(PlaceOf(doc, parts[p].start), PlaceOf(doc, parts[p].end), u[2], u[3])}

UnitsOf(book, parts) == UNION {UnitsOfPart(book, parts, p) : p \in DOMAIN parts}

UnitBefore(u, v) == Earlier(u, v) \/ (u[1] = v[1] /\ u[2] = v[2] /\ u[3] < v[3])

GotUnits == {reading.got[i] : i \in DOMAIN reading.got}

\* "Follow `next_cursor` for the complete original source selection."
\* (docs/native-recipe-interpretation.md:61)  Whatever the budgets of each page, what the pages
\* give is the selection of one publication, in its order, each character and element once and
\* none left out before another, and all of it when there is no next cursor.
ReadWhole == reading.asked # 0 =>
    LET units == UnitsOf(BookOf[reading.asked], reading.parts) IN
    /\ \A i, j \in DOMAIN reading.got : i < j => UnitBefore(reading.got[i], reading.got[j])
    /\ GotUnits \subseteq units
    /\ \A u \in units, v \in GotUnits : UnitBefore(u, v) => u \in GotUnits
    /\ reading.state = "read" => GotUnits = units

\* Once a chapter has been read: the chapters of the table of contents cover the reading order
\* from the first destination on, each place once.  A chapter has what is from its destination to
\* the next, document after document (book_model.py:263-265, 290-298).
ChaptersTile ==
    reading.state = "read" /\ reading.target.kind = "nav"
        /\ (\A d \in DOMAIN Book.docs : Cardinality(OccurrencesOf(d)) = 1) =>
    LET whole == UnitsOf(Book, [o \in DOMAIN Book.spine |-> PartOf(Book.spine[o], BeforeNode(0), AfterNode(0))])
    IN  \A v \in Destinations :
            LET chapter == Chapter(Book.spine[v[1]], v[2]) IN
            /\ \A i \in DOMAIN chapter : chapter[i].doc = Book.spine[v[1] + i - 1]
            /\ {<<v[1] + u[1] - 1, u[2], u[3]>> : u \in UnitsOf(Book, chapter)}
               = {u \in whole : ~Earlier(u, v) /\ \A w \in Destinations : Earlier(v, w) => Earlier(u, w)}

\* What is read of a book is whole, and its chapters are the book (book_model.py:290-548).
BookReads == ReadWhole /\ ChaptersTile
=============================================================================
