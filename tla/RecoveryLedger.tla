---------------------------- MODULE RecoveryLedger ----------------------------
(***************************************************************************)
(* The recovery ledger (recovery.py): one SQLite file that every worker    *)
(* asks before it dispatches a reading of a page region.  A dispatch is    *)
(* charged when it is admitted and stays charged, whether or not its       *)
(* outcome is ever recorded.  A box is the set of the cells it covers; two *)
(* boxes overlap when they share one.                                      *)
(***************************************************************************)
EXTENDS Naturals, Sequences, FiniteSets

CONSTANTS
    RegionBudget,  \* additional dispatches of connected regions (2)
    PageBudget     \* additional dispatches of a page (6)

ASSUME BudgetAssumption == RegionBudget \in Nat /\ PageBudget \in Nat

VARIABLES
    attempts,  \* the dispatch events, each with the events appended to it
    barred     \* history: identities refused as terminal

ledgerVars == <<attempts, barred>>

Charged == DOMAIN attempts

LedgerInit == attempts = <<>> /\ barred = {}

----------------------------------------------------------------------------
(* What is charged against a scope: its source, page, box and book *)

Overlaps(a, b) == a \cap b # {}

OnPage(scope) == {i \in Charged : attempts[i].source = scope.source /\ attempts[i].page = scope.page}

\* The regions that touch the requested one.
Touching(scope) == {i \in OnPage(scope) : Overlaps(attempts[i].box, scope.box)}

\* The dispatches of S and those the pairs lead to from them, one round at a time.
Closure(S, pairs) ==
    LET grown[n \in 0..Cardinality(Charged)] ==
            IF n = 0 THEN S
            ELSE UNION {T \cup {p[2] : p \in {q \in pairs : q[1] \in T}} : T \in {grown[n - 1]}}
    IN  grown[Cardinality(Charged)]

BoxesOverlap(S) == {p \in S \X S : Overlaps(attempts[p[1]].box, attempts[p[2]].box)}

\* _scope: the dispatches of the page that a chain of overlaps leads to.
Connected(scope) == Closure(Touching(scope), BoxesOverlap(OnPage(scope)))

Additional(S) == {i \in S : attempts[i].route = "additional"}

\* An attempt is known by its own source and book and by the aliases refused on its account.
Identities(i) == {[source |-> attempts[i].source, book |-> attempts[i].book]} \cup attempts[i].aliases

SameBook(x, y) == x.source = y.source \/ x.book = y.book

Related(S) == {p \in S \X S : \E x \in Identities(p[1]), y \in Identities(p[2]) : SameBook(x, y)}

\* _terminal_attempts: the page's lineage of sources and books, and its terminal members.
Lineage(scope) ==
    LET onPage == {i \in Charged : attempts[i].page = scope.page}
    IN  Closure({i \in onPage : \E x \in Identities(i) : SameBook(x, scope)}, Related(onPage))

TerminalOf(scope) == {i \in Lineage(scope) : attempts[i].terminal}

----------------------------------------------------------------------------
(* admit and record, each one transaction *)

\* The refusal is appended to a terminal attempt of the lineage: which one makes no difference.
Aliased(scope) == \E i \in TerminalOf(scope) :
    attempts' = [attempts EXCEPT ![i].aliases =
                     @ \cup {[source |-> scope.source, book |-> scope.book]}]

TerminalUnavailable(scope) ==
    /\ TerminalOf(scope) # {}
    /\ Aliased(scope)
    /\ barred' = barred \cup {[source |-> scope.source, book |-> scope.book, page |-> scope.page]}

Spent(scope) ==
    \/ Cardinality(Additional(Connected(scope))) >= RegionBudget
    \/ Cardinality(Additional(OnPage(scope))) >= PageBudget

BudgetExhausted(scope) ==
    /\ TerminalOf(scope) = {}
    /\ Connected(scope) # {}
    /\ Spent(scope)
    /\ UNCHANGED ledgerVars

Dispatch(scope) ==
    /\ TerminalOf(scope) = {}
    /\ Connected(scope) = {} \/ ~Spent(scope)
    /\ attempts' = Append(attempts,
           [source |-> scope.source, page |-> scope.page, box |-> scope.box, book |-> scope.book,
            route |-> IF Connected(scope) = {} THEN "initial" ELSE "additional",
            aliases |-> {}, terminal |-> FALSE, done |-> FALSE])
    /\ UNCHANGED barred

RecordOutcome(i, terminal) ==
    /\ attempts' = [attempts EXCEPT ![i].done = TRUE, ![i].terminal = @ \/ terminal]
    /\ UNCHANGED barred

----------------------------------------------------------------------------
(* Properties *)

\* Regions that a chain of overlaps connects: however they are parted, two overlap.
Chain(S) == \A A \in (SUBSET S) \ {{}, S} :
    \E i \in A, j \in S \ A : Overlaps(attempts[i].box, attempts[j].box)

\* Whatever the order in which workers ask, crash and retry, and however regions are renamed or
\* split, the regions a chain of overlaps connects share one allowance (recovery.py:25-27), and
\* a page has one.
BudgetHolds == \A page \in {OnPage(attempts[i]) : i \in Charged} :
    /\ Cardinality(Additional(page)) <= PageBudget
    /\ \A S \in SUBSET page : Cardinality(Additional(S)) > RegionBudget => ~Chain(S)

\* A refused page stays refused under every source or book it was refused by: alternating the
\* catalogue aliases and the scans does not reopen it (recovery.py:86-87).
NoneReopened == [][\A id \in barred :
    Len(attempts') > Len(attempts)
        => ~ (attempts'[Len(attempts')].page = id.page /\ SameBook(attempts'[Len(attempts')], id))]_ledgerVars

\* The allowances hold and a refusal stays (recovery.py:25-27, 86-87).
LedgerHolds == [][BudgetHolds']_ledgerVars /\ NoneReopened
=============================================================================
