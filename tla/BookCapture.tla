------------------------------ MODULE BookCapture ------------------------------
(***************************************************************************)
(* Capture of one EPUB into the whole-book model (book_capture.py).  The   *)
(* file is hashed, its archive opened, its documents are parsed one by one *)
(* and walked into nodes: an element, its text, what follows it.  When all *)
(* have been walked, and the older form of the contents (NCX) is read, the *)
(* reading order, links and contents are resolved and the file is hashed   *)
(* again.  The books of a build are captured so one after another, each    *)
(* committed on its own; the first that fails ends the build.  A document  *)
(* is its elements in document order, with their depths; the first is the  *)
(* body.  Resources are numbers: documents, then NCX files, then the rest. *)
(***************************************************************************)
EXTENDS Integers, Sequences, FiniteSets, SequencesExt

CONSTANTS
    Files,      \* what the file may be first and become: pairs of archives,
                \* [sound, docs, ncx, others, spine]; an element is
                \* [depth, text, tail, ids, kind, href, entry]; an address is <<path, fragment>>
    FileChanges, \* bound of the model: changes of the file
    External,   \* the path of an address outside of the archive
    Here,       \* the path of an address that names none: its own document
    NoHref, NoFragment

\* Elements in document order, each below the one before it or beside one that is open.
DocumentOrder(doc) ==
    /\ doc \in Seq({doc[i] : i \in DOMAIN doc})
    /\ \A i \in DOMAIN doc :
        /\ doc[i].depth \in Nat /\ doc[i].text \in BOOLEAN /\ doc[i].tail \in BOOLEAN
        /\ IF i = 1 THEN doc[i].depth = 1 ELSE 2 <= doc[i].depth /\ doc[i].depth <= doc[i - 1].depth + 1

ASSUME CaptureAssumption ==
    /\ FileChanges \in Nat
    /\ \A archives \in Files : \A a \in DOMAIN archives :
        LET docs == archives[a].docs
            ncx == archives[a].ncx IN
        /\ docs \in Seq({docs[d] : d \in DOMAIN docs}) /\ \A d \in DOMAIN docs : DocumentOrder(docs[d])
        /\ ncx \in Seq({ncx[k] : k \in DOMAIN ncx}) /\ \A k \in DOMAIN ncx : DocumentOrder(ncx[k])

VARIABLES
    file,     \* the archives; the first is the recorded source
    disk,     \* which archive the path leads to, and how often that changed
    capture,  \* phase, the archive that is open, how many documents and NCX files it has, the next
              \* of them, its next element, the order of the next node
    parsed,   \* the document being walked
    opened,   \* its elements entered and not left
    nodes,    \* its nodes
    book      \* what is written of the book

captureVars == <<file, disk, capture, parsed, opened, nodes, book>>

NoBook == [resources |-> {}, spine |-> <<>>, docs |-> <<>>, entries |-> {},
           occurrences |-> <<>>, links |-> {}, issues |-> {}, navigation |-> {}]

CaptureInit ==
    /\ file \in Files
    /\ disk \in {[is |-> i, changes |-> 0] : i \in DOMAIN file}
    /\ capture = [phase |-> "new", handle |-> 0, names |-> 0, ncx |-> 0, doc |-> 1, at |-> 1, order |-> 0]
    /\ parsed = <<>> /\ opened = <<>> /\ nodes = {} /\ book = NoBook

Phase(p) == [capture EXCEPT !.phase = p]

\* hashfile before anything is read.
HashSource ==
    /\ capture.phase = "new"
    /\ capture' = Phase(IF disk.is = 1 THEN "hashed" ELSE "failed")
    /\ UNCHANGED <<file, disk, parsed, opened, nodes, book>>

Resources(archive) == 1..(Len(archive.docs) + Len(archive.ncx)) \cup archive.others

\* The archive lists its members; its package lists documents, NCX files and the reading order, which
\* may name what is no document.  Not sound: it is no archive or oversized, names a member twice, or
\* its package cannot be read or orders what it does not list.
OpenArchive ==
    /\ capture.phase = "hashed"
    /\ LET archive == file[disk.is] IN
       IF archive.sound
       THEN /\ capture' = [Phase("read") EXCEPT !.handle = disk.is, !.names = Len(archive.docs),
                                               !.ncx = Len(archive.ncx)]
            /\ book' = [book EXCEPT !.resources = Resources(archive), !.spine = archive.spine]
       ELSE capture' = Phase("failed") /\ UNCHANGED book
    /\ UNCHANGED <<file, disk, parsed, opened, nodes>>

Archive == file[capture.handle]

\* Empty: a member that is oversized, or has no root.
Readable(members, n) == n \in DOMAIN members /\ members[n] # <<>>

ParseDocument ==
    /\ capture.phase = "read" /\ capture.doc <= capture.names
    /\ IF Readable(Archive.docs, capture.doc)
       THEN /\ parsed' = Archive.docs[capture.doc]
            /\ capture' = [Phase("walk") EXCEPT !.at = 1, !.order = 0]
       ELSE capture' = Phase("failed") /\ UNCHANGED parsed
    /\ opened' = <<>> /\ nodes' = {}
    /\ UNCHANGED <<file, disk, book>>

----------------------------------------------------------------------------
(* walk *)

Children(parent) == Cardinality({n \in nodes : n.parent = parent})

NodeOf(i, slot, order, parent, ordinal) ==
    [of |-> i, slot |-> slot, pre |-> order, end |-> order, parent |-> parent, ordinal |-> ordinal]

Inner == IF opened = <<>> THEN 0 ELSE Last(opened)
Descends == capture.at <= Len(parsed) /\ parsed[capture.at].depth > Len(opened)

\* An element and its own text: it ends with what is below it, which is not known yet.
EnterElement ==
    /\ capture.phase = "walk" /\ Descends
    /\ LET i == capture.at
           has == parsed[i].text IN
       /\ opened' = Append(opened, i)
       /\ nodes' = nodes \cup {NodeOf(i, "element", capture.order, Inner, Children(Inner))}
                         \cup (IF has THEN {NodeOf(i, "text", capture.order + 1, i, 0)} ELSE {})
       /\ capture' = [capture EXCEPT !.at = i + 1, !.order = @ + (IF has THEN 2 ELSE 1)]
    /\ UNCHANGED <<file, disk, parsed, book>>

\* mutant: what follows the element is taken for a part of it
EndWithTail(order) == order

SubtreeEnd(order) == order - 1

\* The tail of an element is text of its parent; what follows the body is not read.
LeaveElement ==
    /\ capture.phase = "walk" /\ ~Descends /\ opened # <<>>
    /\ LET i == Inner
           outer == IF Len(opened) = 1 THEN 0 ELSE opened[Len(opened) - 1]
           has == parsed[i].tail /\ outer # 0 IN
       /\ opened' = Front(opened)
       /\ nodes' = {IF n.of = i /\ n.slot = "element" THEN [n EXCEPT !.end = SubtreeEnd(capture.order)] ELSE n :
                        n \in nodes}
                   \cup (IF has THEN {NodeOf(i, "tail", capture.order, outer, Children(outer))} ELSE {})
       /\ capture' = [capture EXCEPT !.order = IF has THEN @ + 1 ELSE @]
    /\ UNCHANGED <<file, disk, parsed, book>>

LastOf(doc, i) ==
    CHOOSE k \in i..Len(doc) : /\ \A m \in (i + 1)..k : doc[m].depth > doc[i].depth
                               /\ k = Len(doc) \/ doc[k + 1].depth <= doc[i].depth

\* The id of several elements is that of the last; a link's name is an id too.
AnchorsOf(doc) ==
    [f \in UNION {doc[i].ids : i \in DOMAIN doc} |->
        CHOOSE i \in DOMAIN doc : f \in doc[i].ids /\ \A j \in DOMAIN doc : f \in doc[j].ids => j <= i]

PathOf(base, href) == IF href[1] = Here THEN base ELSE href[1]

HrefsOf(doc) == {i \in DOMAIN doc : doc[i].href # NoHref}

\* The resource a picture shows, if the archive has it.
PicturesOf(d, doc) ==
    {<<i, PathOf(d, doc[i].href)>> : i \in {j \in HrefsOf(doc) :
        doc[j].kind = "image" /\ PathOf(d, doc[j].href) \in book.resources}}

\* An entry of the contents is below the nearest one it is inside of.
EntriesOf(doc) == {i \in DOMAIN doc : doc[i].entry # NoHref}
EntryAbove(doc, i) ==
    LET around == {j \in EntriesOf(doc) : j < i /\ i <= LastOf(doc, j)}
    IN  IF around = {} THEN 0 ELSE Max(around)
ContentsOf(d, doc) ==
    {[at |-> <<d, i>>, above |-> EntryAbove(doc, i), href |-> doc[i].entry] : i \in EntriesOf(doc)}

\* The texts of the nodes in their order, and those of the body: the text of each element, then what
\* follows the elements that end with it, the innermost first.
Reconstructed ==
    LET rows == SetToSortSeq({n \in nodes : n.slot # "element"}, LAMBDA m, n : m.pre < n.pre)
    IN  [k \in DOMAIN rows |-> <<rows[k].of, rows[k].slot>>]
TextAfter(doc, k) ==
    LET ending == SetToSortSeq({i \in 2..k : doc[i].tail /\ LastOf(doc, i) = k}, >)
    IN  [n \in DOMAIN ending |-> <<ending[n], "tail">>]
BodyText(doc) ==
    FlattenSeq([k \in DOMAIN doc |-> (IF doc[k].text THEN <<<<k, "text">>>> ELSE <<>>) \o TextAfter(doc, k)])

EndDocument ==
    /\ capture.phase = "walk" /\ opened = <<>> /\ ~Descends
    /\ IF Reconstructed = BodyText(parsed)
       THEN /\ book' = [book EXCEPT
                   !.docs = Append(@, [nodes |-> nodes, elements |-> parsed, anchors |-> AnchorsOf(parsed),
                                       pictures |-> PicturesOf(capture.doc, parsed)]),
                   !.entries = @ \cup ContentsOf(capture.doc, parsed)]
            /\ capture' = [Phase("read") EXCEPT !.doc = @ + 1]
       ELSE capture' = Phase("failed") /\ UNCHANGED book
    /\ UNCHANGED <<file, disk, parsed, opened, nodes>>

ReadNcx ==
    /\ capture.phase = "read" /\ capture.names < capture.doc /\ capture.doc <= capture.names + capture.ncx
    /\ LET k == capture.doc - capture.names IN
       IF Readable(Archive.ncx, k)
       THEN /\ book' = [book EXCEPT !.entries = @ \cup ContentsOf(capture.doc, Archive.ncx[k])]
            /\ capture' = [capture EXCEPT !.doc = @ + 1]
       ELSE capture' = Phase("failed") /\ UNCHANGED book
    /\ UNCHANGED <<file, disk, parsed, opened, nodes>>

----------------------------------------------------------------------------
(* What leads from document to document *)

\* The element an address leads to, with its document, if there is one: the first of the document
\* when it names no fragment.
Destination(path, fragment) ==
    IF path \notin DOMAIN book.docs THEN {}
    ELSE IF fragment = NoFragment THEN {<<path, 1>>}
    ELSE LET anchors == book.docs[path].anchors
         IN  {<<path, anchors[f]>> : f \in {fragment} \cap DOMAIN anchors}

Resolve(base, href) ==
    LET path == PathOf(base, href)
        places == Destination(path, href[2])
        state == IF path = External THEN "external"
                 ELSE IF path \notin book.resources THEN "unresolved"
                 ELSE IF places # {} THEN "resolved_node"
                 ELSE IF href[2] = NoFragment THEN "resolved_resource" ELSE "unresolved"
    IN  [state |-> state, at |-> IF state = "resolved_node" THEN places ELSE {}]

LinkOf(d, i) ==
    LET element == book.docs[d].elements[i]
    IN  [of |-> <<d, i>>, relation |-> IF element.kind = "a" THEN "hyperlink" ELSE "image_source",
         target |-> Resolve(d, element.href)]
Links == UNION {{LinkOf(d, i) : i \in HrefsOf(book.docs[d].elements)} : d \in DOMAIN book.docs}

IssueOf(link) ==
    [of |-> link.of, code |-> IF link.relation = "image_source" THEN "unresolved_asset" ELSE "unresolved_link"]

ResolveBook ==
    /\ capture.phase = "read" /\ capture.doc > capture.names + capture.ncx
    /\ IF \E k \in DOMAIN book.spine : book.spine[k].path \notin DOMAIN book.docs
       THEN capture' = Phase("failed") /\ UNCHANGED book
       ELSE /\ capture' = Phase("resolved")
            /\ book' = [book EXCEPT
                   !.occurrences = book.spine, !.links = Links,
                   !.issues = {IssueOf(l) : l \in {k \in Links : k.target.state = "unresolved"}},
                   !.navigation = {[at |-> e.at, above |-> e.above, target |-> Resolve(e.at[1], e.href)] :
                                       e \in book.entries}]
    /\ UNCHANGED <<file, disk, parsed, opened, nodes>>

\* "No changed source or cached snapshot is admitted after the read" (book_capture.py:744).
HashAgain ==
    /\ capture.phase = "resolved"
    /\ capture' = Phase(IF disk.is = 1 THEN "captured" ELSE "failed")
    /\ UNCHANGED <<file, disk, parsed, opened, nodes, book>>

\* The file is replaced, or written over while it is open; then reading it may fail.
ChangeSource ==
    /\ disk.changes < FileChanges /\ capture.phase \notin {"captured", "failed"}
    /\ \E i \in DOMAIN file \ {disk.is} : disk' = [is |-> i, changes |-> disk.changes + 1]
    /\ \/ UNCHANGED capture
       \/ /\ capture.phase \in {"read", "walk"}
          /\ capture' \in {[capture EXCEPT !.handle = disk'.is], Phase("failed")}
    /\ UNCHANGED <<file, parsed, opened, nodes, book>>

CaptureNext ==
    \/ HashSource \/ OpenArchive \/ ParseDocument \/ EnterElement \/ LeaveElement \/ EndDocument
    \/ ReadNcx \/ ResolveBook \/ HashAgain \/ ChangeSource

CaptureSpec == CaptureInit /\ [][CaptureNext]_captureVars

----------------------------------------------------------------------------
(* Properties *)

\* The nodes are the elements and texts of the document, in its order: an element spans what is in
\* it and nothing else, its text comes first, its tail right after it.
Faithful(doc, captured) ==
    LET node(i, slot) == CHOOSE n \in captured : n.of = i /\ n.slot = slot
        element(i) == node(i, "element")
        texts == {<<i, "text">> : i \in {j \in DOMAIN doc : doc[j].text}}
                 \cup {<<i, "tail">> : i \in {j \in DOMAIN doc \ {1} : doc[j].tail}}
    IN  /\ {<<n.of, n.slot>> : n \in captured} = texts \cup {<<i, "element">> : i \in DOMAIN doc}
        /\ {n.pre : n \in captured} = 0..(Cardinality(captured) - 1)
        /\ \A i, j \in DOMAIN doc :
               /\ i < j => element(i).pre < element(j).pre
               /\ i <= j /\ j <= LastOf(doc, i)
                      <=> element(i).pre <= element(j).pre /\ element(j).pre <= element(i).end
        /\ \A t \in texts : IF t[2] = "text" THEN node(t[1], "text").pre = element(t[1]).pre + 1
                            ELSE node(t[1], "tail").pre = element(t[1]).end + 1
        /\ \A m, n \in captured : m.parent = n.parent /\ m.pre < n.pre => m.ordinal < n.ordinal

\* What bears the id in a document.
Bearers(doc, fragment) == {i \in DOMAIN doc : fragment \in doc[i].ids}

\* An address leads out of the archive, or to the first element of the document it names, or to one
\* that bears the id it names, or to a resource that is no document; and nowhere else.
LeadsRight(source, base, href, target) ==
    LET path == PathOf(base, href)
        document == path \in DOMAIN source.docs
        absent == \/ path \notin Resources(source)
                  \/ href[2] # NoFragment /\ (document => Bearers(source.docs[path], href[2]) = {})
    IN  /\ target.state = "external" <=> path = External
        /\ target.state = "unresolved" <=> path # External /\ absent
        /\ target.state = "resolved_resource" => ~document
        /\ target.state = "resolved_node" => document /\ \E i \in DOMAIN source.docs[path] :
               /\ target.at = {<<path, i>>}
               /\ IF href[2] = NoFragment THEN i = 1 ELSE href[2] \in source.docs[path][i].ids

\* The NCX files follow the documents.
MemberOf(source, d) ==
    IF d <= Len(source.docs) THEN source.docs[d] ELSE source.ncx[d - Len(source.docs)]

\* Whatever happens to the file, what is captured is the recorded source (book_capture.py:152, 744):
\* each document as it is, the reading order, and every link and entry of the contents leads where its
\* address says, or it is said that this is not there.
CapturesSource == capture.phase = "captured" =>
    LET source == file[1] IN
    /\ Len(book.docs) = Len(source.docs)
    /\ \A d \in DOMAIN source.docs : Faithful(source.docs[d], book.docs[d].nodes)
    /\ book.occurrences = source.spine
    /\ \A d \in DOMAIN source.docs : \A i \in HrefsOf(source.docs[d]) :
           \E l \in book.links : /\ l.of = <<d, i>> /\ LeadsRight(source, d, source.docs[d][i].href, l.target)
                                 /\ l.target.state = "unresolved" => \E s \in book.issues : s.of = l.of
    /\ \A d \in 1..(Len(source.docs) + Len(source.ncx)) : \A i \in EntriesOf(MemberOf(source, d)) :
           \E n \in book.navigation : /\ n.at = <<d, i>> /\ n.above = EntryAbove(MemberOf(source, d), i)
                                      /\ LeadsRight(source, d, MemberOf(source, d)[i].entry, n.target)
=============================================================================
