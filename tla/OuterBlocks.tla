------------------------------ MODULE OuterBlocks ------------------------------
(***************************************************************************)
(* The two scans that cut the text of a document into units: for search    *)
(* (book_build.py index_units) and into blocks for recipe interpretation   *)
(* (book_interpret.py blocks_for_book).  Both read the nodes in preorder   *)
(* and pass what an earlier node they took, or hid, covers.                *)
(***************************************************************************)
EXTENDS Integers

CONSTANTS
    Documents,    \* documents: the number of nodes, the last node below each, their kinds
    SearchKinds,  \* kinds of element that are a unit of search
    ProfileKinds  \* kinds of element a profile takes for a block

\* Nodes nest, and are numbered from 0 in preorder.
DocumentsAssumption == \A d \in Documents :
    /\ d.size \in Nat
    /\ d.last \in [0..(d.size - 1) -> 0..(d.size - 1)]
    /\ \A n \in 0..(d.size - 1) : n <= d.last[n]
    /\ \A m, n \in 0..(d.size - 1) : m < n /\ n <= d.last[m] => d.last[n] <= d.last[m]

ASSUME DocumentsAssumption

\* What is not for reading is a kind of its own.
KindsAssumption == "hidden" \notin SearchKinds

ASSUME KindsAssumption

VARIABLES
    document,
    scan,     \* "search" or "profile"
    row,      \* the node read next
    covered,  \* the last node that is covered
    spans     \* the nodes taken: each stands for its whole subtree

scanVars == <<document, scan, row, covered, spans>>

ScanInit ==
    /\ document \in Documents
    /\ scan \in {"search", "profile"}
    /\ row = 0 /\ covered = -1 /\ spans = {}

Nodes == 0..(document.size - 1)
LastIn(n) == document.last[n]
KindAt(n) == document.kind[n]

\* Text of its own is a unit of search, unless it is blank.
Opens(n) ==
    IF scan = "search" THEN KindAt(n) \in SearchKinds \cup {"text"} ELSE KindAt(n) \in ProfileKinds

\* What is not for reading hides what is in it from search.
Hides(n) == scan = "search" /\ KindAt(n) = "hidden"

\* mutant: what is inside what was taken is taken too
CoveredElsewhere(n) == n < covered

CoveredRow(n) == n <= covered

Reads == row < document.size
NextRow == row' = row + 1 /\ UNCHANGED <<document, scan>>

\* A hidden element hides its subtree, wherever it stands.
Hide ==
    /\ Reads /\ Hides(row)
    /\ covered' = IF LastIn(row) > covered THEN LastIn(row) ELSE covered
    /\ UNCHANGED spans
    /\ NextRow

Pass ==
    /\ Reads /\ ~Hides(row) /\ (CoveredRow(row) \/ ~Opens(row))
    /\ UNCHANGED <<covered, spans>>
    /\ NextRow

Take ==
    /\ Reads /\ ~Hides(row) /\ ~CoveredRow(row) /\ Opens(row)
    /\ covered' = LastIn(row)
    /\ spans' = spans \cup {row}
    /\ NextRow

ScanNext == Hide \/ Pass \/ Take

ScanSpec == ScanInit /\ [][ScanNext]_scanVars

----------------------------------------------------------------------------
(* Properties *)

Holds(n, m) == m <= n /\ n <= LastIn(m)

\* It opens a unit, and nothing around it opens or hides one.
Outermost(m) == Opens(m) /\ \A k \in Nodes : k < m /\ m <= LastIn(k) => ~Opens(k) /\ ~Hides(k)

\* "Index outer readable blocks so phrases survive emphasis and other inline markup"
\* (book_build.py:119), "Outer text blocks, with inline text intact and no nested li/p
\* duplicates" (book_interpret.py:224).  However elements nest, what has been read is in one unit
\* at most, and in the outermost element that makes it one, unless that is hidden.
TextOnce == \A n \in Nodes : n < row =>
    /\ \A u, v \in spans : Holds(n, u) /\ Holds(n, v) => u = v
    /\ \A u \in Nodes : Holds(n, u) => (u \in spans <=> Outermost(u))
=============================================================================
