---------------------------- MODULE DoclingEvidence ----------------------------
(***************************************************************************)
(* Saved layout evidence of a scan becomes a snapshot (transcription.py    *)
(* adapt_docling, validate_snapshot).  The recognized lines of each page   *)
(* are fixed; predictions must account for each of them once.  The nodes   *)
(* of the document are walked from its roots: each node is a block on      *)
(* every page it has provenance on, with the lines its boxes hold, and a   *)
(* table associates lines with cells.  Geometry is the set of lines whose  *)
(* centre a box holds.  A malformed shape is refused anywhere.             *)
(***************************************************************************)
EXTENDS Integers, SequencesExt

CONSTANTS
    SavedScans, \* [lines, predicted, nodes, roots]: lines and predictions by page; a node is
                \* [kind, boxes, cells, below]: lines by page, lines of each cell, child references
    NoBlock

\* Boxes hold lines of their own page; what is written in order is a sequence.
ASSUME EvidenceAssumption ==
    \A s \in SavedScans :
        /\ s.lines \in Seq(Nat) /\ s.roots \in Seq(ToSet(s.roots))
        /\ \A n \in DOMAIN s.nodes :
               LET node == s.nodes[n] IN
               /\ node.cells \in Seq(ToSet(node.cells)) /\ node.below \in Seq(ToSet(node.below))
               /\ \A page \in DOMAIN node.boxes :
                      page \in DOMAIN s.lines /\ node.boxes[page] \subseteq {<<page, i>> : i \in 1..s.lines[page]}

VARIABLES
    savedScan, \* what was saved of the scan
    adapted,   \* the snapshot: blocks, cells and diagnostics
    trail,     \* nodes entered and not left: [node, next child]
    visited,   \* nodes entered
    adapting   \* phase, roots to come, and nodes outside the roots

docVars == <<savedScan, adapted, trail, visited, adapting>>

NoSnapshot == [blocks |-> {}, parents |-> {}, cells |-> {}, diagnoses |-> {}]

DocInit ==
    /\ savedScan \in SavedScans
    /\ adapted = NoSnapshot /\ trail = <<>> /\ visited = {}
    /\ adapting = [phase |-> "check", roots |-> savedScan.roots, outside |-> {}]

ScanPages == DOMAIN savedScan.lines
LinesOn(page) == {<<page, i>> : i \in 1..savedScan.lines[page]}
AllLines == UNION {LinesOn(page) : page \in ScanPages}
Node(n) == savedScan.nodes[n]

Diagnosis(code, block, lines) == [code |-> code, block |-> block, lines |-> lines]

\* Every recognized line is predicted once.
Frozen(page) ==
    /\ Len(savedScan.predicted[page]) = savedScan.lines[page]
    /\ {<<page, savedScan.predicted[page][i]>> : i \in DOMAIN savedScan.predicted[page]} = LinesOn(page)

CheckPredictions ==
    /\ adapting.phase = "check"
    /\ adapting' = [adapting EXCEPT !.phase = IF \A page \in ScanPages : Frozen(page) THEN "walk" ELSE "refused"]
    /\ UNCHANGED <<savedScan, adapted, trail, visited>>

----------------------------------------------------------------------------
(* walk *)

\* A block of a node on a page, and its lines there.
BlocksFor(n) == {<<page, n>> : page \in DOMAIN Node(n).boxes}
LinesFor(block) == Node(block[2]).boxes[block[1]]

\* The cells that hold the centre of a line of the block.
Claims(block, line) ==
    {i \in DOMAIN Node(block[2]).cells : line \in Node(block[2]).cells[i] \cap LinesFor(block)}

\* mutant: what several cells claim stays with each
EveryClaim(block, line) == Claims(block, line)

\* A line belongs to the only cell that claims it.
CellFor(block, line) == IF Cardinality(Claims(block, line)) = 1 THEN Claims(block, line) ELSE {}

CellsOf(block) ==
    {[block |-> block, cell |-> i, lines |-> {l \in LinesFor(block) : i \in CellFor(block, l)}] :
        i \in DOMAIN Node(block[2]).cells}

TableDiagnoses(block) ==
    {Diagnosis("ambiguous_table_cell", block, {l}) : l \in {m \in LinesFor(block) : Cardinality(Claims(block, m)) > 1}}
    \cup LET unmatched == {l \in LinesFor(block) : Claims(block, l) = {}}
         IN  IF unmatched = {} THEN {} ELSE {Diagnosis("unassigned_table_lines", block, unmatched)}

IsTable(n) == Node(n).kind = "table"

RefusedScan == [adapting EXCEPT !.phase = "refused"]

\* walk(ref) up to its first child: a reference is followed once.
Enter(n, rest, after, said) ==
    /\ UNCHANGED savedScan
    /\ IF n \notin DOMAIN savedScan.nodes \/ n \in visited
       THEN adapting' = RefusedScan /\ UNCHANGED <<adapted, trail, visited>>
       ELSE /\ adapting' = after
            /\ visited' = visited \cup {n}
            /\ trail' = Append(rest, [node |-> n, next |-> 1])
            /\ adapted' = [adapted EXCEPT
                   !.blocks = @ \cup {[id |-> b, lines |-> LinesFor(b)] : b \in BlocksFor(n)},
                   !.cells = @ \cup UNION {CellsOf(b) : b \in {c \in BlocksFor(n) : IsTable(n)}},
                   !.diagnoses = @ \cup said \cup UNION {TableDiagnoses(b) : b \in {c \in BlocksFor(n) : IsTable(n)}}]

EnterRoot ==
    /\ adapting.phase = "walk" /\ trail = <<>> /\ adapting.roots # <<>>
    /\ Enter(Head(adapting.roots), <<>>, [adapting EXCEPT !.roots = Tail(@)], {})

Top == trail[Len(trail)]
Below == Front(trail)

EnterChild ==
    /\ adapting.phase \in {"walk", "outside"} /\ trail # <<>> /\ Top.next <= Len(Node(Top.node).below)
    /\ Enter(Node(Top.node).below[Top.next], Append(Below, [Top EXCEPT !.next = @ + 1]), adapting, {})

\* The blocks of a child hang from those of its parent on the same page.
Hang(parent, child) ==
    {e \in BlocksFor(parent) \X BlocksFor(child) : e[1][1] = e[2][1]}

LeaveNode ==
    /\ adapting.phase \in {"walk", "outside"} /\ trail # <<>> /\ Top.next > Len(Node(Top.node).below)
    /\ trail' = Below
    /\ adapted' = [adapted EXCEPT
           !.parents = IF Below = <<>> THEN @ ELSE @ \cup Hang(Last(Below).node, Top.node),
           !.diagnoses = IF BlocksFor(Top.node) = {} /\ Node(Top.node).kind # "group"
                         THEN @ \cup {Diagnosis("unsupported_node", NoBlock, {})} ELSE @]
    /\ UNCHANGED <<savedScan, visited, adapting>>

\* The nodes no root reaches are found once, then walked in any order.
RootsWalked ==
    /\ adapting.phase = "walk" /\ trail = <<>> /\ adapting.roots = <<>>
    /\ adapting' = [adapting EXCEPT !.phase = "outside", !.outside = DOMAIN savedScan.nodes \ visited]
    /\ UNCHANGED <<savedScan, adapted, trail, visited>>

EnterOutside ==
    /\ adapting.phase = "outside" /\ trail = <<>>
    /\ \E n \in adapting.outside :
          Enter(n, <<>>, [adapting EXCEPT !.outside = @ \ {n}], {Diagnosis("unreachable_node", NoBlock, {})})

\* Lines no block holds become a block of their own.
Unclassified ==
    LET missing(page) == LinesOn(page) \ UNION {b.lines : b \in adapted.blocks}
    IN  {[id |-> <<page, NoBlock>>, lines |-> missing(page)] : page \in {p \in ScanPages : missing(p) # {}}}

Complete(snapshot) ==
    [snapshot EXCEPT
        !.blocks = @ \cup Unclassified,
        !.diagnoses = @ \cup {Diagnosis("unclassified_lines", b.id, b.lines) : b \in Unclassified}]

\* validate_snapshot, of what the walk could have got wrong.
ValidSnapshot(snapshot) ==
    /\ UNION {b.lines : b \in snapshot.blocks} = AllLines
    /\ \A b \in snapshot.blocks : b.lines \subseteq LinesOn(b.id[1])
    /\ \A e, f \in snapshot.parents : e[1][1] = e[2][1] /\ (e[2] = f[2] => e = f)
    /\ \A c, d \in snapshot.cells : c # d => c.lines \cap d.lines = {}

FinishScan ==
    /\ adapting.phase = "outside" /\ trail = <<>> /\ adapting.outside = {}
    /\ adapted' = Complete(adapted)
    /\ adapting' = [adapting EXCEPT !.phase = IF ValidSnapshot(Complete(adapted)) THEN "accepted" ELSE "invalid"]
    /\ UNCHANGED <<savedScan, trail, visited>>

DocNext ==
    \/ CheckPredictions \/ EnterRoot \/ EnterChild \/ LeaveNode \/ RootsWalked \/ EnterOutside \/ FinishScan

DocSpec == DocInit /\ [][DocNext]_docVars

----------------------------------------------------------------------------
(* Properties *)

TableLines(n) == UNION {LinesFor(b) \cap UNION {Node(n).cells[i] : i \in DOMAIN Node(n).cells} : b \in BlocksFor(n)}

\* "preserving frozen recognition and source evidence" (transcription.py:303)  However nodes,
\* boxes and cells overlap, a scan that is walked is a valid snapshot, unless two tables claim a
\* line; in it every node has its blocks, no line is lost, and a line of a table is in one cell or
\* named by a diagnosis.
EvidenceKept ==
    /\ adapting.phase = "invalid" =>
           \E m, n \in visited : m # n /\ IsTable(m) /\ IsTable(n) /\ TableLines(m) \cap TableLines(n) # {}
    /\ adapting.phase = "accepted" =>
           /\ visited = DOMAIN savedScan.nodes
           /\ \A n \in visited, b \in UNION {BlocksFor(m) : m \in visited} : b \in BlocksFor(n) =>
                  /\ [id |-> b, lines |-> LinesFor(b)] \in adapted.blocks
                  /\ IsTable(n) => \A l \in LinesFor(b) :
                         \/ \E c \in adapted.cells : c.block = b /\ l \in c.lines
                         \/ \E d \in adapted.diagnoses : d.block = b /\ l \in d.lines
           /\ \A m \in visited, i \in 1..3 :
                  i \in DOMAIN Node(m).below => Hang(m, Node(m).below[i]) \subseteq adapted.parents
=============================================================================
