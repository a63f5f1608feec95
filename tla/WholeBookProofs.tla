---------------------------- MODULE WholeBookProofs ----------------------------
(***************************************************************************)
(* Proofs about the whole-book model: what is captured of a book is its    *)
(* file, every document node by node, whenever the file changes while it   *)
(* is read; and an answer about the supporting work of a recipe lists what *)
(* is needed to make it, or says that it does not; and what is found in a  *)
(* book is found once and leads where its links lead; and what is read of  *)
(* a book in pages is whole.  For any books, archives, depths, limits,     *)
(* budgets and sizes.                                                      *)
(***************************************************************************)
EXTENDS SupportingWork, BookCapture, RecipeStructure, BookReading, FiniteSetTheorems, SequenceTheorems,
        WellFoundedInduction, TLAPS

\* A set of natural numbers has a least one.
LEMMA NatMinimum ==
    ASSUME NEW S \in SUBSET Nat, S # {}
    PROVE  \E m \in S : \A n \in S : m <= n
<1> DEFINE Less == OpToRel(<, Nat)
<1>1. IsWellFoundedOn(Less, Nat)
  BY NatLessThanWellFounded
<1>2. \A x, y \in Nat : y < x => <<y, x>> \in Less
  BY DEF OpToRel
<1> HIDE DEF Less
<1>3. PICK m \in S : \A n \in S : <<n, m>> \notin Less
  BY <1>1, WFMin
<1>4. ASSUME NEW n \in S PROVE m <= n
  <2>1. ~(n < m) /\ n \in Nat /\ m \in Nat
    BY <1>2, <1>3
  <2>2. QED BY <2>1
<1>5. QED BY <1>4

----------------------------------------------------------------------------
(* The supporting work of a recipe: what is needed to make it *)

\* What a set of recipes needs directly, with the set.
WithDirect(usage, rs) == rs \cup UNION {FollowedFrom(usage, p) : p \in rs}

ReachRound(g, usage, r, n) ==
    IF n = 0 THEN {r} ELSE g[n - 1] \cup UNION {FollowedFrom(usage, p) : p \in g[n - 1]}
Reaching(g, usage, r, N) == g = [n \in 0..N |-> ReachRound(g, usage, r, n)]

\* The rounds of what is needed exist.
LEMMA ReachExists ==
    ASSUME NEW usage, NEW r, NEW N \in Nat
    PROVE  \E g : Reaching(g, usage, r, N)
<1> DEFINE Bad == {n \in Nat : ~\E g : Reaching(g, usage, r, n)}
<1> SUFFICES ASSUME Bad # {} PROVE FALSE
  OBVIOUS
<1>1. PICK m \in Bad : \A n \in Bad : m <= n
  BY NatMinimum
<1>2. CASE m = 0
  <2>1. Reaching([n \in 0..0 |-> {r}], usage, r, 0)
    BY DEF Reaching, ReachRound
  <2>2. QED BY <1>1, <1>2, <2>1
<1>3. CASE m # 0
  <2>1. m - 1 \in Nat /\ m - 1 \notin Bad
    BY <1>1, <1>3
  <2>2. PICK g : Reaching(g, usage, r, m - 1)
    BY <2>1
  <2> DEFINE h == [n \in 0..m |-> IF n < m THEN g[n] ELSE WithDirect(usage, g[m - 1])]
  <2>3. ASSUME NEW n \in 0..m PROVE h[n] = ReachRound(h, usage, r, n)
    <3>1. CASE n = m
      <4>1. h[m - 1] = g[m - 1] /\ h[m] = WithDirect(usage, g[m - 1])
        BY <1>1, <1>3
      <4> HIDE DEF h
      <4>2. ReachRound(h, usage, r, m) = WithDirect(usage, h[m - 1])
        BY <1>1, <1>3 DEF WithDirect, ReachRound
      <4>3. QED BY <3>1, <4>1, <4>2
    <3>2. CASE n # m
      <4>1. n \in 0..(m - 1) /\ h[n] = g[n] /\ (n # 0 => h[n - 1] = g[n - 1])
        BY <3>2, <1>1
      <4>2. g[n] = ReachRound(g, usage, r, n)
        BY <4>1, <2>2 DEF Reaching
      <4> HIDE DEF h
      <4>3. QED BY <4>1, <4>2 DEF ReachRound
    <3>3. QED BY <3>1, <3>2
  <2>4. h = [n \in 0..m |-> h[n]]
    OBVIOUS
  <2> HIDE DEF h
  <2>5. Reaching(h, usage, r, m)
    BY <2>3, <2>4 DEF Reaching
  <2>6. QED BY <1>1, <2>5
<1>4. QED BY <1>2, <1>3

\* A book whose uses lead to its recipes or to none that is known.
BookOfUses(usage) ==
    /\ IsFiniteSet(DOMAIN usage) /\ Asked \in DOMAIN usage /\ NoTarget \notin DOMAIN usage
    /\ \A r \in DOMAIN usage : /\ \E n \in Nat : DOMAIN usage[r] = 1..n
                              /\ \A i \in DOMAIN usage[r] : usage[r][i].target \in DOMAIN usage \cup {NoTarget}

\* What a recipe requires is in the book.
LEMMA FollowedInBook ==
    ASSUME NEW usage, BookOfUses(usage)
    PROVE  \A p \in DOMAIN usage : FollowedFrom(usage, p) \subseteq DOMAIN usage
BY DEF BookOfUses, FollowedFrom, Followed

\* What is needed has the recipe, is closed under uses that are followed, and is the least such
\* set: it cannot grow in more rounds than the book has recipes.
LEMMA NeedsClose ==
    ASSUME NEW usage, BookOfUses(usage), NEW r \in DOMAIN usage
    PROVE  /\ r \in Needs(usage, r) /\ Needs(usage, r) \subseteq DOMAIN usage
           /\ \A p \in Needs(usage, r) : FollowedFrom(usage, p) \subseteq Needs(usage, r)
           /\ \A U : r \in U /\ (\A p \in U : FollowedFrom(usage, p) \subseteq U) => Needs(usage, r) \subseteq U
<1> DEFINE N == Cardinality(DOMAIN usage)
           reached == CHOOSE g : Reaching(g, usage, r, N)
<1>1. N \in Nat
  BY FS_CardinalityType DEF BookOfUses
<1>2. Reaching(reached, usage, r, N)
  BY <1>1, ReachExists
<1>3. Needs(usage, r) = reached[N]
  BY DEF Needs, Reaching, ReachRound
<1> HIDE DEF reached
<1> DEFINE g == reached
<1>4. g[0] = {r} /\ \A n \in 0..N : n # 0 => g[n] = WithDirect(usage, g[n - 1])
  <2>1. \A n \in 0..N : g[n] = ReachRound(g, usage, r, n)
    BY <1>2 DEF Reaching
  <2> HIDE DEF g
  <2>2. 0 \in 0..N /\ ReachRound(g, usage, r, 0) = {r}
    BY <1>1 DEF ReachRound
  <2>3. \A n \in 0..N : n # 0 => ReachRound(g, usage, r, n) = WithDirect(usage, g[n - 1])
    BY DEF ReachRound, WithDirect
  <2>4. QED BY <2>1, <2>2, <2>3
<1> HIDE DEF g
<1>5. ASSUME NEW U, r \in U, \A p \in U : FollowedFrom(usage, p) \subseteq U
      PROVE  \A n \in 0..N : g[n] \subseteq U
  <2> DEFINE Bad == {n \in Nat : n \in 0..N /\ ~(g[n] \subseteq U)}
  <2> SUFFICES ASSUME Bad # {} PROVE FALSE
    BY <1>1
  <2>1. PICK m \in Bad : \A n \in Bad : m <= n
    BY NatMinimum
  <2>2. m # 0 /\ m - 1 \in 0..N /\ m - 1 \notin Bad
    BY <1>1, <1>4, <1>5, <2>1
  <2>3. QED BY <1>4, <1>5, <2>1, <2>2 DEF WithDirect
<1>6. \A n \in 0..N : g[n] \subseteq DOMAIN usage
  BY <1>5, FollowedInBook
<1>7. \A n \in 0..N : r \in g[n]
  <2> DEFINE Bad == {n \in Nat : n \in 0..N /\ r \notin g[n]}
  <2> SUFFICES ASSUME Bad # {} PROVE FALSE
    BY <1>1
  <2>1. PICK m \in Bad : \A n \in Bad : m <= n
    BY NatMinimum
  <2>2. m # 0 /\ m - 1 \in 0..N /\ m - 1 \notin Bad
    BY <1>1, <1>4, <2>1
  <2>3. QED BY <1>4, <2>1, <2>2 DEF WithDirect
<1>8. WithDirect(usage, g[N]) = g[N]
  <2> SUFFICES ASSUME WithDirect(usage, g[N]) # g[N] PROVE FALSE
    OBVIOUS
  <2>1. \A n \in 0..N : WithDirect(usage, g[n]) # g[n]
    <3> DEFINE Bad == {k \in Nat : k \in 0..N /\ WithDirect(usage, g[N - k]) = g[N - k]}
    <3> HIDE DEF N
    <3> SUFFICES ASSUME Bad # {} PROVE FALSE
      <4>1. ASSUME NEW n \in 0..N PROVE N - n \in 0..N /\ N - (N - n) = n
        BY <1>1
      <4>2. QED BY <4>1
    <3>1. PICK m \in Bad : \A n \in Bad : m <= n
      BY <1>1, NatMinimum
    <3>2. m # 0
      BY <1>1, <3>1
    <3>3. m - 1 \in 0..N /\ m - 1 \notin Bad /\ N - (m - 1) \in 0..N /\ N - (m - 1) # 0
          /\ (N - (m - 1)) - 1 = N - m
      BY <1>1, <3>1, <3>2
    <3>4. g[N - (m - 1)] = WithDirect(usage, g[N - m])
      BY <1>4, <3>3
    <3>5. g[N - (m - 1)] = g[N - m]
      BY <3>1, <3>4
    <3>6. QED BY <3>1, <3>3, <3>4, <3>5
  <2>2. \A n \in 0..N : Cardinality(g[n]) > n
    <3> DEFINE Bad == {n \in Nat : n \in 0..N /\ ~(Cardinality(g[n]) > n)}
    <3> SUFFICES ASSUME Bad # {} PROVE FALSE
      BY <1>1
    <3>1. PICK m \in Bad : \A n \in Bad : m <= n
      BY NatMinimum
    <3>2. \A n \in 0..N : IsFiniteSet(g[n]) /\ Cardinality(g[n]) \in Nat
      BY <1>6, FS_Subset, FS_CardinalityType DEF BookOfUses
    <3>3. m # 0 /\ m - 1 \in 0..N /\ m - 1 \notin Bad
      <4>1. m \in 0..N /\ ~(Cardinality(g[m]) > m) /\ Cardinality(g[m]) \in Nat
        BY <3>1, <3>2
      <4>2. m # 0
        <5>1. Cardinality({r}) = 1
          BY FS_Singleton
        <5>2. m = 0 => g[m] = {r}
          BY <1>4
        <5>3. m = 0 => ~(1 > m)
          BY <4>1, <5>1, <5>2
        <5>4. QED BY <5>3
      <4>3. m - 1 \in 0..N
        BY <1>1, <4>1, <4>2
      <4>4. m - 1 \notin Bad
        BY <3>1, <4>1, <4>3
      <4>5. QED BY <4>2, <4>3, <4>4
    <3>4. g[m] = WithDirect(usage, g[m - 1]) /\ g[m - 1] # g[m] /\ g[m - 1] \subseteq g[m]
      BY <1>4, <2>1, <3>1, <3>3 DEF WithDirect
    <3>5. Cardinality(g[m - 1]) < Cardinality(g[m])
      <4>1. Cardinality(g[m - 1]) <= Cardinality(g[m])
            /\ (Cardinality(g[m - 1]) = Cardinality(g[m]) => g[m - 1] = g[m])
        BY <3>1, <3>2, <3>4, FS_Subset
      <4>2. QED BY <3>1, <3>2, <3>3, <3>4, <4>1
    <3>6. QED BY <3>1, <3>2, <3>3, <3>5
  <2>3. Cardinality(g[N]) > N /\ Cardinality(g[N]) <= N /\ Cardinality(g[N]) \in Nat
    <3>1. N \in 0..N
      BY <1>1
    <3>2. QED BY <1>1, <1>6, <2>2, <3>1, FS_Subset, FS_CardinalityType DEF BookOfUses
  <2>4. QED BY <1>1, <2>3
<1>9. N \in 0..N
  BY <1>1
<1>10. Needs(usage, r) = g[N]
  BY <1>3 DEF g
<1>11. \A p \in g[N] : FollowedFrom(usage, p) \subseteq g[N]
  BY <1>8 DEF WithDirect
<1>12. QED BY <1>5, <1>6, <1>7, <1>9, <1>10, <1>11

\* What is needed for a needed recipe is needed.
LEMMA NeedsGoOn ==
    ASSUME NEW usage, BookOfUses(usage), NEW r \in DOMAIN usage, NEW p \in Needs(usage, r)
    PROVE  Needs(usage, p) \subseteq Needs(usage, r)
<1>1. p \in DOMAIN usage
  BY NeedsClose
<1>2. \A q \in Needs(usage, r) : FollowedFrom(usage, q) \subseteq Needs(usage, r)
  BY NeedsClose
<1>3. QED BY <1>1, <1>2, NeedsClose

\* What is needed for a recipe is the recipe, or needed for one that it requires.
LEMMA NeedsByFirst ==
    ASSUME NEW usage, BookOfUses(usage), NEW r \in DOMAIN usage, NEW p \in Needs(usage, r), p # r
    PROVE  \E q \in FollowedFrom(usage, r) : p \in Needs(usage, q)
<1> DEFINE U == {r} \cup UNION {Needs(usage, q) : q \in FollowedFrom(usage, r)}
<1>1. ASSUME NEW s \in U PROVE FollowedFrom(usage, s) \subseteq U
  <2>1. FollowedFrom(usage, r) \subseteq DOMAIN usage
    BY FollowedInBook
  <2>2. CASE s = r
    BY <2>1, <2>2, NeedsClose
  <2>3. CASE s # r
    BY <1>1, <2>1, <2>3, NeedsClose
  <2>4. QED BY <2>2, <2>3
<1> HIDE DEF U
<1>2. r \in U
  BY DEF U
<1>3. Needs(usage, r) \subseteq U
  BY <1>1, <1>2, NeedsClose
<1>4. QED BY <1>3 DEF U

----------------------------------------------------------------------------
(* The answer: the inductive invariant *)

UsesListed == ToSet(answer.uses)
UseAt(u) == usesOf[u[1]][u[2]]

Entries(usage) == [recipe : DOMAIN usage, level : Nat, path : Seq(DOMAIN usage), read : Nat]

AnswersOf(usage) ==
    [uses : Seq(UsesOfAll(usage, Needs(usage, Asked))), choices : Int, used : Int,
     cycles : SUBSET Seq(DOMAIN usage), unresolved : SUBSET UsesOfAll(usage, DOMAIN usage),
     truncated : BOOLEAN]

WalkTyped ==
    /\ usesOf \in BookUses /\ depth \in Nat /\ limit \in Nat
    /\ walk \in Seq(Entries(usesOf)) /\ \A i \in DOMAIN walk : walk[i].read = 0
    /\ expanding # NoRecipe => /\ expanding \in Entries(usesOf)
                               /\ expanding.read <= Len(usesOf[expanding.recipe])
    /\ answer \in AnswersOf(usesOf)

\* What is to be expanded is needed, by each recipe on the path to it.
Leads(e) == /\ e.recipe \in Needs(usesOf, Asked)
            /\ \A j \in DOMAIN e.path : e.recipe \in Needs(usesOf, e.path[j])
PathsLead == /\ \A i \in DOMAIN walk : Leads(walk[i])
             /\ expanding # NoRecipe => Leads(expanding)

ReadListed == expanding # NoRecipe =>
    \A i \in 1..expanding.read : <<expanding.recipe, i>> \in UsesListed

UnsettledNamed == answer.unresolved = {u \in UsesListed : Unsettled(UseAt(u))}

\* A recipe that is needed to make itself.
CycleNeeded == \E r \in Needs(usesOf, Asked) :
    \E target \in FollowedFrom(usesOf, r) : r \in Needs(usesOf, target)
CyclesReal == answer.cycles # {} => CycleNeeded

\* The recipes that will be expanded, are being expanded, or have all their uses listed.
Hands == {r \in DOMAIN usesOf :
    \/ \E i \in DOMAIN walk : walk[i].recipe = r
    \/ expanding.recipe = r
    \/ \A i \in DOMAIN usesOf[r] : <<r, i>> \in UsesListed}

\* Unless the answer is truncated, each recipe that the uses listed require is among them.
AllInHand == ~answer.truncated =>
    /\ Asked \in Hands
    /\ \A u \in UsesListed : Followed(UseAt(u)) => UseAt(u).target \in Hands
    /\ \A i \in DOMAIN walk : \A j \in DOMAIN walk[i].path : walk[i].path[j] \in Hands
    /\ expanding # NoRecipe => \A j \in DOMAIN expanding.path : expanding.path[j] \in Hands

\* Recipes that have the one asked for, each of which requires one of them.
Recurrent(rs) == /\ rs \subseteq DOMAIN usesOf /\ Asked \in rs
                 /\ \A r \in rs : FollowedFrom(usesOf, r) \cap rs # {}

\* Such recipes cannot all have been passed without a cycle: one is still to be expanded, or has a
\* use that leads to them and is still to be read.
StillLeads(rs) ==
    \/ \E i \in DOMAIN walk : walk[i].recipe \in rs
    \/ /\ expanding # NoRecipe /\ expanding.recipe \in rs
       /\ \E i \in DOMAIN usesOf[expanding.recipe] :
              /\ i > expanding.read /\ Followed(usesOf[expanding.recipe][i])
              /\ usesOf[expanding.recipe][i].target \in rs

CyclesAhead == ~answer.truncated /\ answer.cycles = {} =>
    \A rs \in SUBSET DOMAIN usesOf : Recurrent(rs) => StillLeads(rs)

WorkInv == /\ WalkTyped /\ PathsLead /\ ReadListed /\ UnsettledNamed /\ CyclesReal
           /\ AllInHand /\ CyclesAhead

\* The books of the model are such books.
LEMMA BooksOfUses ==
    ASSUME NEW usage \in BookUses
    PROVE  /\ BookOfUses(usage)
           /\ \A r \in DOMAIN usage : DOMAIN usage[r] = 1..Len(usage[r]) /\ Len(usage[r]) \in Nat
                                     /\ ChoicesOf[r] \in Nat
<1> DEFINE U == [class : {"required", "optional", "unknown"}, scope : {"whole", "part", "unknown"},
                 target : DOMAIN usage \cup {NoTarget}]
<1>1. /\ IsFiniteSet(DOMAIN usage) /\ Asked \in DOMAIN usage /\ NoTarget \notin DOMAIN usage
      /\ \A r \in DOMAIN usage : ChoicesOf[r] \in Nat /\ usage[r] \in Seq(U)
  BY WorkAssumption
<1>2. ASSUME NEW r \in DOMAIN usage
      PROVE  /\ DOMAIN usage[r] = 1..Len(usage[r]) /\ Len(usage[r]) \in Nat
             /\ \A i \in DOMAIN usage[r] : usage[r][i] \in U
  <2>1. usage[r] \in Seq(U)
    BY <1>1
  <2> HIDE DEF U
  <2>2. QED BY <2>1
<1>3. QED BY <1>1, <1>2 DEF BookOfUses

\* The uses of an entry lead on from the recipe asked for.
LEMMA LeadsOn ==
    ASSUME usesOf \in BookUses, NEW e \in Entries(usesOf), Leads(e),
           NEW i \in DOMAIN usesOf[e.recipe], Followed(usesOf[e.recipe][i])
    PROVE  LET target == usesOf[e.recipe][i].target IN
           /\ target \in DOMAIN usesOf /\ target \in FollowedFrom(usesOf, e.recipe)
           /\ target \in Needs(usesOf, Asked) /\ target \in Needs(usesOf, target)
           /\ \A j \in DOMAIN e.path : target \in Needs(usesOf, e.path[j])
<1> DEFINE target == usesOf[e.recipe][i].target
<1>1. BookOfUses(usesOf) /\ e.recipe \in DOMAIN usesOf /\ Asked \in DOMAIN usesOf
      /\ \A j \in DOMAIN e.path : e.path[j] \in DOMAIN usesOf
  BY BooksOfUses DEF Entries, BookOfUses
<1>2. target \in FollowedFrom(usesOf, e.recipe)
  BY DEF FollowedFrom
<1>3. target \in DOMAIN usesOf
  BY <1>1, <1>2, FollowedInBook
<1>4. ASSUME NEW r \in DOMAIN usesOf, e.recipe \in Needs(usesOf, r) PROVE target \in Needs(usesOf, r)
  BY <1>1, <1>2, <1>4, NeedsClose
<1>5. target \in Needs(usesOf, target)
  BY <1>1, <1>3, NeedsClose
<1>6. QED BY <1>1, <1>2, <1>3, <1>4, <1>5 DEF Leads

LEMMA AnswerParts ==
    ASSUME NEW usage
    PROVE  \E L, C, U :
        /\ L = Seq(UsesOfAll(usage, Needs(usage, Asked))) /\ C = SUBSET Seq(DOMAIN usage)
        /\ U = SUBSET UsesOfAll(usage, DOMAIN usage)
        /\ AnswersOf(usage) = [uses : L, choices : Int, used : Int, cycles : C, unresolved : U, truncated : BOOLEAN]
BY Zenon DEF AnswersOf

LEMMA WorkBegins == WorkInit => WorkInv
<1> SUFFICES ASSUME WorkInit PROVE WorkInv
  OBVIOUS
<1> DEFINE first == [recipe |-> Asked, level |-> 0, path |-> <<Asked>>, read |-> 0]
<1>1. usesOf \in BookUses /\ BookOfUses(usesOf) /\ Asked \in DOMAIN usesOf
  BY BooksOfUses DEF WorkInit, BookOfUses
<1>2. walk = <<first>> /\ DOMAIN walk = {1} /\ walk[1] = first /\ first \in Entries(usesOf)
  BY <1>1 DEF WorkInit, Entries
<1>3. expanding = NoRecipe /\ answer.uses = <<>> /\ answer.cycles = {} /\ answer.unresolved = {}
      /\ UsesListed = {}
  BY DEF WorkInit, UsesListed, ToSet
<1>4. WalkTyped
  <2>1. walk \in Seq(Entries(usesOf))
    BY <1>2
  <2>2. answer \in AnswersOf(usesOf)
    BY DEF WorkInit, AnswersOf
  <2>3. QED BY <1>1, <1>2, <1>3, <2>1, <2>2, WorkAssumption DEF WalkTyped, WorkInit
<1>5. PathsLead
  <2>1. Asked \in Needs(usesOf, Asked)
    BY <1>1, NeedsClose
  <2>2. QED BY <1>2, <1>3, <2>1 DEF PathsLead, Leads
<1>6. AllInHand
  BY <1>1, <1>2, <1>3 DEF AllInHand, Hands
<1>7. CyclesAhead
  BY <1>2, <1>3 DEF CyclesAhead, Recurrent, StillLeads
<1>8. QED BY <1>3, <1>4, <1>5, <1>6, <1>7 DEF WorkInv, ReadListed, UnsettledNamed, CyclesReal

LEMMA ExpandKeeps == WorkInv /\ Expand => WorkInv'
<1> SUFFICES ASSUME WorkInv, Expand PROVE WorkInv'
  OBVIOUS
<1> DEFINE next == Head(walk)
           room == Min2(limit - answer.choices, WorkRoom - Min2(answer.used, WorkRoom))
           taken == Min2(ChoicesOf[next.recipe], room)
<1>1. /\ WalkTyped /\ PathsLead /\ ReadListed /\ UnsettledNamed /\ CyclesReal
      /\ AllInHand /\ CyclesAhead
  BY DEF WorkInv
<1>2. usesOf' = usesOf /\ depth' = depth /\ limit' = limit
      /\ expanding = NoRecipe /\ expanding' = next /\ walk' = Tail(walk)
  BY DEF Expand
<1>3. /\ next = walk[1] /\ next \in Entries(usesOf) /\ next.read = 0 /\ 1 \in DOMAIN walk
      /\ next.recipe \in DOMAIN usesOf /\ next # NoRecipe
      /\ Len(walk) \in Nat /\ DOMAIN walk = 1..Len(walk) /\ DOMAIN walk' = 1..(Len(walk) - 1)
      /\ \A i \in DOMAIN walk' : i + 1 \in DOMAIN walk /\ walk'[i] = walk[i + 1]
      /\ \A i \in DOMAIN walk : i # 1 => i - 1 \in DOMAIN walk' /\ walk'[i - 1] = walk[i]
      /\ walk' \in Seq(Entries(usesOf))
  <2>1. walk \in Seq(Entries(usesOf)) /\ walk # <<>>
    BY <1>1 DEF WalkTyped, Expand
  <2>2. next = walk[1] /\ next \in Entries(usesOf) /\ 1 \in DOMAIN walk
        /\ Len(walk) \in Nat /\ DOMAIN walk = 1..Len(walk) /\ DOMAIN walk' = 1..(Len(walk) - 1)
        /\ walk' \in Seq(Entries(usesOf))
        /\ \A i \in DOMAIN walk' : i + 1 \in DOMAIN walk /\ walk'[i] = walk[i + 1]
    BY <1>2, <2>1
  <2>3. \A i \in DOMAIN walk : i # 1 => i - 1 \in DOMAIN walk' /\ walk'[i - 1] = walk[i]
    <3>1. ASSUME NEW i \in DOMAIN walk, i # 1 PROVE i - 1 \in DOMAIN walk' /\ (i - 1) + 1 = i
      BY <2>2, <3>1
    <3>2. QED BY <2>2, <3>1
  <2>4. next.recipe \in DOMAIN usesOf /\ NoTarget \notin DOMAIN usesOf
    BY <1>1, <2>2, BooksOfUses DEF Entries, WalkTyped, BookOfUses
  <2>5. next # NoRecipe
    BY <2>4 DEF NoRecipe
  <2>6. QED BY <1>1, <2>2, <2>3, <2>4, <2>5 DEF WalkTyped
<1>4. /\ answer' = [answer EXCEPT !.choices = @ + taken, !.used = @ + taken,
                                  !.truncated = @ \/ taken < ChoicesOf[next.recipe]]
      /\ taken \in Int /\ ChoicesOf[next.recipe] \in Nat
  <2>1. answer.choices \in Int /\ answer.used \in Int /\ limit \in Nat /\ WorkRoom \in Nat
    BY <1>1, WorkAssumption DEF WalkTyped, AnswersOf
  <2>2. ChoicesOf[next.recipe] \in Nat
    BY <1>1, <1>3, BooksOfUses DEF WalkTyped
  <2>3. Min2(answer.used, WorkRoom) \in Int
    BY <2>1 DEF Min2
  <2>4. room \in Int
    BY <2>1, <2>3 DEF Min2
  <2>5. taken \in Int
    BY <2>2, <2>4 DEF Min2
  <2>6. QED BY <2>2, <2>5 DEF Expand
<1> HIDE DEF next, taken
<1>5. /\ answer'.uses = answer.uses /\ answer'.cycles = answer.cycles
      /\ answer'.unresolved = answer.unresolved
      /\ ~answer'.truncated => ~answer.truncated
      /\ UsesListed' = UsesListed
  BY <1>1, <1>4 DEF WalkTyped, AnswersOf, UsesListed
<1>6. WalkTyped'
  <2>1. (taken < ChoicesOf[next.recipe]) \in BOOLEAN
    BY <1>4
  <2>2. answer' \in AnswersOf(usesOf)
    <3>1. answer \in AnswersOf(usesOf)
      BY <1>1 DEF WalkTyped
    <3>2. /\ answer.choices + taken \in Int /\ answer.used + taken \in Int
          /\ (answer.truncated \/ taken < ChoicesOf[next.recipe]) \in BOOLEAN
      BY <1>4, <3>1 DEF AnswersOf
    <3>3. PICK L, C, U : AnswersOf(usesOf) = [uses : L, choices : Int, used : Int, cycles : C,
                                              unresolved : U, truncated : BOOLEAN]
      BY AnswerParts
    <3>4. answer \in [uses : L, choices : Int, used : Int, cycles : C, unresolved : U, truncated : BOOLEAN]
      BY <3>1, <3>3
    <3>5. answer' \in [uses : L, choices : Int, used : Int, cycles : C, unresolved : U, truncated : BOOLEAN]
      BY <1>4, <3>2, <3>4
    <3>6. QED BY <3>3, <3>5
  <2>3. next.read <= Len(usesOf[next.recipe])
    BY <1>1, <1>3, BooksOfUses DEF WalkTyped
  <2>4. \A i \in DOMAIN walk' : walk'[i].read = 0
    BY <1>1, <1>3 DEF WalkTyped
  <2>5. QED BY <1>1, <1>2, <1>3, <2>2, <2>3, <2>4 DEF WalkTyped
<1>7. PathsLead'
  BY <1>1, <1>2, <1>3 DEF PathsLead, Leads
<1>8. ReadListed'
  BY <1>2, <1>3 DEF ReadListed
<1>9. UnsettledNamed' /\ CyclesReal'
  BY <1>1, <1>2, <1>5 DEF UnsettledNamed, UseAt, CyclesReal, CycleNeeded
<1>10. Hands \subseteq Hands'
  <2> SUFFICES ASSUME NEW r \in Hands PROVE r \in Hands'
    OBVIOUS
  <2>1. r \in DOMAIN usesOf /\ expanding.recipe # r
    BY <1>1, <1>2, BooksOfUses DEF NoRecipe, WalkTyped, BookOfUses, Hands
  <2>2. CASE \E i \in DOMAIN walk : walk[i].recipe = r
    <3>1. PICK i \in DOMAIN walk : walk[i].recipe = r
      BY <2>2
    <3>2. CASE i = 1
      BY <1>2, <1>3, <2>1, <3>1, <3>2 DEF Hands
    <3>3. CASE i # 1
      BY <1>2, <1>3, <2>1, <3>1, <3>3 DEF Hands
    <3>4. QED BY <3>2, <3>3
  <2>3. CASE \A i \in DOMAIN usesOf[r] : <<r, i>> \in UsesListed
    BY <1>2, <1>5, <2>1, <2>3 DEF Hands
  <2>4. QED BY <2>1, <2>2, <2>3 DEF Hands
<1>11. AllInHand'
  BY <1>1, <1>2, <1>3, <1>5, <1>10 DEF AllInHand, UseAt
<1>12. CyclesAhead'
  <2> SUFFICES ASSUME ~answer.truncated, answer.cycles = {}, NEW rs \in SUBSET DOMAIN usesOf,
                      Recurrent(rs)
               PROVE  StillLeads(rs)'
    BY <1>2, <1>5 DEF CyclesAhead, Recurrent
  <2>1. PICK i \in DOMAIN walk : walk[i].recipe \in rs
    BY <1>1, <1>2 DEF CyclesAhead, StillLeads
  <2>2. CASE i = 1
    <3>1. PICK j \in DOMAIN usesOf[next.recipe] :
              Followed(usesOf[next.recipe][j]) /\ usesOf[next.recipe][j].target \in rs
      BY <1>3, <2>1, <2>2 DEF Recurrent, FollowedFrom
    <3>2. j > next.read
      BY <1>1, <1>3, BooksOfUses DEF WalkTyped
    <3>3. QED BY <1>2, <1>3, <2>1, <2>2, <3>1, <3>2 DEF StillLeads
  <2>3. CASE i # 1
    BY <1>3, <2>1, <2>3 DEF StillLeads
  <2>4. QED BY <2>2, <2>3
<1>13. QED BY <1>6, <1>7, <1>8, <1>9, <1>11, <1>12 DEF WorkInv

LEMMA ExpandedKeeps == WorkInv /\ Expanded => WorkInv'
<1> SUFFICES ASSUME WorkInv, Expanded PROVE WorkInv'
  OBVIOUS
<1>1. /\ WalkTyped /\ PathsLead /\ ReadListed /\ UnsettledNamed /\ CyclesReal
      /\ AllInHand /\ CyclesAhead
  BY DEF WorkInv
<1>2. /\ usesOf' = usesOf /\ depth' = depth /\ limit' = limit /\ walk' = walk /\ answer' = answer
      /\ expanding # NoRecipe /\ expanding' = NoRecipe
      /\ UsesListed' = UsesListed
  BY DEF Expanded, UsesListed
<1>3. /\ expanding \in Entries(usesOf) /\ expanding.recipe \in DOMAIN usesOf
      /\ expanding.read = Len(usesOf[expanding.recipe])
      /\ DOMAIN usesOf[expanding.recipe] = 1..expanding.read
  <2>1. expanding \in Entries(usesOf) /\ expanding.recipe \in DOMAIN usesOf
    BY <1>1, <1>2 DEF WalkTyped, Entries
  <2>2. QED BY <1>1, <2>1, BooksOfUses DEF WalkTyped, Expanded
<1>4. Hands \subseteq Hands'
  <2>1. \A i \in DOMAIN usesOf[expanding.recipe] : <<expanding.recipe, i>> \in UsesListed
    BY <1>1, <1>2, <1>3 DEF ReadListed
  <2>2. QED BY <1>2, <2>1 DEF Hands
<1>5. WalkTyped'
  BY <1>1, <1>2 DEF WalkTyped
<1>6. PathsLead' /\ ReadListed' /\ UnsettledNamed' /\ CyclesReal'
  BY <1>1, <1>2 DEF PathsLead, Leads, ReadListed, UnsettledNamed, UseAt, CyclesReal, CycleNeeded
<1>7. AllInHand'
  BY <1>1, <1>2, <1>4 DEF AllInHand, UseAt
<1>8. CyclesAhead'
  <2>1. \A i \in DOMAIN usesOf[expanding.recipe] : ~(i > expanding.read)
    BY <1>1, <1>3, BooksOfUses DEF WalkTyped
  <2>2. \A rs : StillLeads(rs) => StillLeads(rs)'
    BY <1>2, <2>1 DEF StillLeads
  <2>3. QED BY <1>1, <1>2, <2>2 DEF CyclesAhead, Recurrent
<1>9. QED BY <1>5, <1>6, <1>7, <1>8 DEF WorkInv

LEMMA FullKeeps == WorkInv /\ AnswerFull => WorkInv'
<1> SUFFICES ASSUME WorkInv, AnswerFull PROVE WorkInv'
  OBVIOUS
<1>1. /\ WalkTyped /\ PathsLead /\ ReadListed /\ UnsettledNamed /\ CyclesReal
      /\ AllInHand /\ CyclesAhead
  BY DEF WorkInv
<1>2. /\ usesOf' = usesOf /\ depth' = depth /\ limit' = limit
      /\ walk' = <<>> /\ expanding' = NoRecipe
      /\ answer' = [answer EXCEPT !.truncated = TRUE, !.used = @ + 1]
  BY DEF AnswerFull
<1>3. /\ answer'.uses = answer.uses /\ answer'.cycles = answer.cycles
      /\ answer'.unresolved = answer.unresolved /\ answer'.truncated
      /\ UsesListed' = UsesListed
  BY <1>1, <1>2 DEF WalkTyped, AnswersOf, UsesListed
<1>4. WalkTyped'
  <2>1. answer \in AnswersOf(usesOf)
    BY <1>1 DEF WalkTyped
  <2>2. answer.used + 1 \in Int
    BY <2>1 DEF AnswersOf
  <2>3. answer' \in AnswersOf(usesOf)
    <3>1. PICK L, C, U : AnswersOf(usesOf) = [uses : L, choices : Int, used : Int, cycles : C,
                                              unresolved : U, truncated : BOOLEAN]
      BY AnswerParts
    <3>2. answer \in [uses : L, choices : Int, used : Int, cycles : C, unresolved : U, truncated : BOOLEAN]
      BY <2>1, <3>1
    <3>3. answer' \in [uses : L, choices : Int, used : Int, cycles : C, unresolved : U, truncated : BOOLEAN]
      BY <1>2, <2>2, <3>2
    <3>4. QED BY <3>1, <3>3
  <2>4. QED BY <1>1, <1>2, <2>3 DEF WalkTyped
<1>5. PathsLead' /\ ReadListed' /\ AllInHand' /\ CyclesAhead'
  BY <1>2, <1>3 DEF PathsLead, ReadListed, AllInHand, CyclesAhead
<1>6. UnsettledNamed' /\ CyclesReal'
  BY <1>1, <1>2, <1>3 DEF UnsettledNamed, UseAt, CyclesReal, CycleNeeded
<1>7. QED BY <1>4, <1>5, <1>6 DEF WorkInv

\* What is in a sequence that one element is appended to.
LEMMA ElementsOfAppend ==
    ASSUME NEW S, NEW q \in Seq(S), NEW x
    PROVE  ToSet(Append(q, x)) = ToSet(q) \cup {x}
<1> DEFINE more == Append(q, x)
<1>1. /\ Len(q) \in Nat /\ DOMAIN q = 1..Len(q) /\ DOMAIN more = 1..(Len(q) + 1)
      /\ more[Len(q) + 1] = x /\ \A i \in 1..Len(q) : more[i] = q[i]
  OBVIOUS
<1> HIDE DEF more
<1>2. \A i \in DOMAIN more : i \in DOMAIN q \/ i = Len(q) + 1
  BY <1>1
<1>3. DOMAIN q \subseteq DOMAIN more /\ Len(q) + 1 \in DOMAIN more
  BY <1>1
<1>4. {more[i] : i \in DOMAIN more} = {q[i] : i \in DOMAIN q} \cup {x}
  BY <1>1, <1>2, <1>3
<1>5. QED BY <1>4 DEF more, ToSet

LEMMA ReadKeeps == WorkInv /\ ReadUse => WorkInv'
<1> SUFFICES ASSUME WorkInv, ReadUse PROVE WorkInv'
  OBVIOUS
<1> DEFINE r == expanding.recipe
           n == expanding.read + 1
           use == CurrentUse
           u == <<r, n>>
           passed == Visited(expanding.path, use.target)
           next == [recipe |-> use.target, level |-> expanding.level + 1,
                    path |-> Append(expanding.path, use.target), read |-> 0]
           follows == Followed(use) /\ ~passed /\ expanding.level < depth
<1>1. /\ WalkTyped /\ PathsLead /\ ReadListed /\ UnsettledNamed /\ CyclesReal
      /\ AllInHand /\ CyclesAhead
  BY DEF WorkInv
<1>2. /\ usesOf' = usesOf /\ depth' = depth /\ limit' = limit /\ usesOf \in BookUses
      /\ expanding # NoRecipe /\ expanding' = [expanding EXCEPT !.read = @ + 1]
      /\ walk' = IF follows THEN Append(walk, next) ELSE walk
  BY <1>1 DEF ReadUse, WalkTyped
<1>3. /\ expanding \in Entries(usesOf) /\ Leads(expanding) /\ expanding' \in Entries(usesOf)
      /\ r \in DOMAIN usesOf /\ n \in DOMAIN usesOf[r] /\ use = usesOf[r][n]
      /\ expanding.level \in Nat /\ expanding.read \in Nat /\ n <= Len(usesOf[r]) /\ depth \in Nat
      /\ expanding'.recipe = r /\ expanding'.read = n /\ expanding'.path = expanding.path
      /\ expanding' # NoRecipe
  <2>1. expanding \in Entries(usesOf) /\ Leads(expanding) /\ depth \in Nat
    BY <1>1, <1>2 DEF WalkTyped, PathsLead
  <2>2. r \in DOMAIN usesOf /\ expanding.level \in Nat /\ expanding.read \in Nat
    BY <2>1 DEF Entries
  <2>3. DOMAIN usesOf[r] = 1..Len(usesOf[r]) /\ Len(usesOf[r]) \in Nat /\ r # NoTarget
    BY <1>2, <2>2, BooksOfUses DEF BookOfUses
  <2>4. expanding.read < Len(usesOf[r])
    BY DEF ReadUse
  <2>5. n \in DOMAIN usesOf[r] /\ n <= Len(usesOf[r])
    BY <2>2, <2>3, <2>4
  <2>6. expanding' \in Entries(usesOf) /\ expanding'.recipe = r /\ expanding'.read = n
        /\ expanding'.path = expanding.path
    <3>1. PICK P : Entries(usesOf) = [recipe : DOMAIN usesOf, level : Nat, path : P, read : Nat]
      BY DEF Entries
    <3>2. expanding \in [recipe : DOMAIN usesOf, level : Nat, path : P, read : Nat] /\ n \in Nat
      BY <2>1, <2>2, <3>1
    <3>3. expanding' = [expanding EXCEPT !.read = n]
      BY <1>2
    <3> HIDE DEF n
    <3>4. expanding' \in [recipe : DOMAIN usesOf, level : Nat, path : P, read : Nat]
      BY <3>2, <3>3
    <3>5. expanding'.recipe = r /\ expanding'.read = n /\ expanding'.path = expanding.path
      BY <3>2, <3>3
    <3>6. QED BY <3>1, <3>4, <3>5
  <2>7. QED BY <2>1, <2>2, <2>3, <2>5, <2>6 DEF CurrentUse, NoRecipe
<1>4. Followed(use) => /\ use.target \in DOMAIN usesOf /\ use.target \in FollowedFrom(usesOf, r)
                       /\ use.target \in Needs(usesOf, Asked)
                       /\ use.target \in Needs(usesOf, use.target)
                       /\ \A j \in DOMAIN expanding.path : use.target \in Needs(usesOf, expanding.path[j])
  BY <1>2, <1>3, LeadsOn
<1>5. /\ answer \in AnswersOf(usesOf)
      /\ answer' = [answer EXCEPT
           !.uses = Append(@, u), !.used = @ + 1,
           !.unresolved = @ \cup {v \in {u} : Unsettled(use)},
           !.cycles = @ \cup {p \in {Append(expanding.path, use.target)} : Followed(use) /\ passed},
           !.truncated = @ \/ TooDeep]
  BY <1>1 DEF ReadUse, WalkTyped
<1>6. TooDeep <=> Followed(use) /\ ~passed /\ ~(expanding.level < depth)
  BY <1>3 DEF TooDeep
<1>7. /\ answer.uses \in Seq(UsesOfAll(usesOf, Needs(usesOf, Asked)))
      /\ answer'.uses = Append(answer.uses, u)
      /\ answer'.unresolved = answer.unresolved \cup {v \in {u} : Unsettled(use)}
      /\ answer'.cycles = answer.cycles \cup {p \in {Append(expanding.path, use.target)} : Followed(use) /\ passed}
      /\ answer'.truncated = (answer.truncated \/ TooDeep)
  BY <1>5 DEF AnswersOf
<1> HIDE DEF use, r, next, passed
<1>8. UsesListed' = UsesListed \cup {u}
  <2>1. PICK S : answer.uses \in Seq(S)
    BY <1>7
  <2>2. ToSet(Append(answer.uses, u)) = ToSet(answer.uses) \cup {u}
    BY <2>1, ElementsOfAppend
  <2>3. QED BY <1>7, <2>2 DEF UsesListed
<1>9. /\ next.recipe = use.target /\ next.read = 0
      /\ Followed(use) => /\ next \in Entries(usesOf) /\ Leads(next)
                          /\ \A j \in DOMAIN next.path :
                                 next.path[j] = use.target \/ \E k \in DOMAIN expanding.path : next.path[j] = expanding.path[k]
  <2>1. next.recipe = use.target /\ next.read = 0 /\ next.path = Append(expanding.path, use.target)
        /\ next.level = expanding.level + 1
    BY DEF next
  <2>2. expanding.path \in Seq(DOMAIN usesOf)
    BY <1>3 DEF Entries
  <2> SUFFICES ASSUME Followed(use)
               PROVE  /\ next \in Entries(usesOf) /\ Leads(next)
                      /\ \A j \in DOMAIN next.path :
                                 next.path[j] = use.target \/ \E k \in DOMAIN expanding.path : next.path[j] = expanding.path[k]
    BY <2>1
  <2>3. next.path \in Seq(DOMAIN usesOf)
    BY <1>4, <2>1, <2>2
  <2>4. \A j \in DOMAIN next.path :
            next.path[j] = use.target \/ \E k \in DOMAIN expanding.path : next.path[j] = expanding.path[k]
    <3>1. ASSUME NEW j \in DOMAIN next.path
          PROVE  next.path[j] = use.target \/ (j \in DOMAIN expanding.path /\ next.path[j] = expanding.path[j])
      BY <2>1, <2>2
    <3>2. QED BY <3>1
  <2>5. next \in Entries(usesOf)
    <3>1. next = [recipe |-> use.target, level |-> expanding.level + 1, path |-> next.path, read |-> 0]
      BY <2>1 DEF next
    <3>2. QED BY <1>3, <1>4, <2>3, <3>1 DEF Entries
  <2>6. Leads(next)
    BY <1>4, <2>1, <2>4 DEF Leads
  <2>7. QED BY <2>4, <2>5, <2>6
<1> HIDE DEF next
<1>10. /\ walk \in Seq(Entries(usesOf)) /\ walk' \in Seq(Entries(usesOf))
       /\ \A i \in DOMAIN walk : i \in DOMAIN walk' /\ walk'[i] = walk[i]
       /\ \A i \in DOMAIN walk' : (i \in DOMAIN walk /\ walk'[i] = walk[i]) \/ (follows /\ walk'[i] = next)
       /\ follows => \E i \in DOMAIN walk' : walk'[i] = next
  <2>1. walk \in Seq(Entries(usesOf))
    BY <1>1 DEF WalkTyped
  <2>2. CASE ~follows
    BY <1>2, <2>1, <2>2
  <2>3. CASE follows
    <3>1. next \in Entries(usesOf)
      BY <1>9, <2>3
    <3>2. walk' = Append(walk, next)
      BY <1>2, <2>3
    <3> HIDE DEF follows
    <3>3. Len(walk) \in Nat /\ DOMAIN walk = 1..Len(walk) /\ DOMAIN walk' = 1..(Len(walk) + 1)
          /\ walk' \in Seq(Entries(usesOf)) /\ walk'[Len(walk) + 1] = next
          /\ \A i \in 1..Len(walk) : walk'[i] = walk[i]
      BY <2>1, <3>1, <3>2
    <3>4. QED BY <2>1, <2>3, <3>3
  <2>4. QED BY <2>2, <2>3
<1>11. WalkTyped'
  <2>1. answer' \in AnswersOf(usesOf)
    <3>1. PICK L, C, U :
              /\ L = Seq(UsesOfAll(usesOf, Needs(usesOf, Asked))) /\ C = SUBSET Seq(DOMAIN usesOf)
              /\ U = SUBSET UsesOfAll(usesOf, DOMAIN usesOf)
              /\ AnswersOf(usesOf) = [uses : L, choices : Int, used : Int, cycles : C, unresolved : U, truncated : BOOLEAN]
      BY AnswerParts
    <3>2. Append(answer.uses, u) \in L
      <4>1. u \in UsesOfAll(usesOf, Needs(usesOf, Asked))
        BY <1>3 DEF UsesOfAll, Leads, r
      <4>2. QED BY <1>7, <3>1, <4>1
    <3>3. answer.unresolved \cup {v \in {u} : Unsettled(use)} \in U
      <4>1. answer.unresolved \in SUBSET UsesOfAll(usesOf, DOMAIN usesOf)
        BY <1>5 DEF AnswersOf
      <4>2. u \in UsesOfAll(usesOf, DOMAIN usesOf)
        BY <1>3 DEF UsesOfAll
      <4>3. QED BY <3>1, <4>1, <4>2
    <3>4. answer.cycles \cup {p \in {Append(expanding.path, use.target)} : Followed(use) /\ passed} \in C
      <4>1. answer.cycles \in SUBSET Seq(DOMAIN usesOf)
        BY <1>5 DEF AnswersOf
      <4>2. expanding.path \in Seq(DOMAIN usesOf)
        BY <1>3 DEF Entries
      <4>3. Followed(use) => Append(expanding.path, use.target) \in Seq(DOMAIN usesOf)
        BY <1>4, <4>2
      <4>4. QED BY <3>1, <4>1, <4>3
    <3>5. (answer.truncated \/ TooDeep) \in BOOLEAN
      BY DEF TooDeep
    <3>6. answer \in [uses : L, choices : Int, used : Int, cycles : C, unresolved : U, truncated : BOOLEAN]
      BY <1>5, <3>1
    <3> DEFINE us == answer.unresolved \cup {v \in {u} : Unsettled(use)}
               cs == answer.cycles \cup {p \in {Append(expanding.path, use.target)} : Followed(use) /\ passed}
               list == Append(answer.uses, u)
               t == answer.truncated \/ TooDeep
    <3>7. us \in U /\ cs \in C /\ list \in L /\ t \in BOOLEAN
          /\ answer' = [answer EXCEPT !.uses = list, !.used = @ + 1, !.unresolved = us, !.cycles = cs, !.truncated = t]
      BY <1>5, <3>2, <3>3, <3>4, <3>5
    <3> HIDE DEF us, cs, list, t
    <3>8. answer.used + 1 \in Int
      BY <3>6
    <3>9. answer' \in [uses : L, choices : Int, used : Int, cycles : C, unresolved : U, truncated : BOOLEAN]
      BY <3>6, <3>7, <3>8
    <3>10. QED BY <3>1, <3>9
  <2>2. \A i \in DOMAIN walk' : walk'[i].read = 0
    BY <1>1, <1>9, <1>10 DEF WalkTyped
  <2>3. QED BY <1>1, <1>2, <1>3, <1>10, <2>1, <2>2 DEF WalkTyped
<1>12. PathsLead'
  <2>1. \A e : Leads(e) => Leads(e)'
    BY <1>2 DEF Leads
  <2>2. \A i \in DOMAIN walk' : Leads(walk'[i])
    BY <1>1, <1>9, <1>10 DEF PathsLead
  <2>3. Leads(expanding')
    BY <1>3 DEF Leads, r
  <2>4. QED BY <1>2, <2>2, <2>3 DEF PathsLead, Leads
<1>13. ReadListed'
  <2>1. \A i \in 1..expanding'.read : i \in 1..expanding.read \/ i = n
    BY <1>3
  <2>2. QED BY <1>1, <1>2, <1>3, <1>8, <2>1 DEF ReadListed, r
<1>14. UnsettledNamed'
  <2>1. UseAt(u) = use
    BY <1>3 DEF UseAt
  <2>2. QED BY <1>1, <1>2, <1>7, <1>8, <2>1 DEF UnsettledNamed, UseAt
<1>15. CyclesReal'
  <2>1. ASSUME Followed(use), passed PROVE CycleNeeded
    <3>1. PICK j \in DOMAIN expanding.path : expanding.path[j] = use.target
      BY <2>1 DEF Visited, passed
    <3>2. r \in Needs(usesOf, Asked) /\ r \in Needs(usesOf, use.target) /\ use.target \in FollowedFrom(usesOf, r)
      BY <1>3, <1>4, <2>1, <3>1 DEF Leads, r
    <3>3. QED BY <3>2 DEF CycleNeeded
  <2>2. CycleNeeded' <=> CycleNeeded
    BY <1>2 DEF CycleNeeded
  <2>3. QED BY <1>1, <1>7, <2>1, <2>2 DEF CyclesReal
<1>16. Hands \subseteq Hands'
  BY <1>2, <1>3, <1>8, <1>10 DEF Hands, r
<1>17. AllInHand'
  <2> SUFFICES ASSUME ~answer'.truncated PROVE AllInHand'
    BY DEF AllInHand
  <2>1. ~answer.truncated /\ ~TooDeep
    BY <1>7
  <2>2. ASSUME Followed(use) PROVE use.target \in Hands'
    <3>1. CASE passed
      BY <1>1, <1>2, <1>16, <2>1, <3>1 DEF AllInHand, Visited, passed
    <3>2. CASE ~passed
      <4>1. follows
        BY <1>6, <2>1, <2>2, <3>2
      <4>2. QED BY <1>2, <1>4, <1>9, <1>10, <2>2, <4>1 DEF Hands
    <3>3. QED BY <3>1, <3>2
  <2>3. UseAt(u) = use
    BY <1>3 DEF UseAt
  <2>4. \A v \in UsesListed' : Followed(UseAt(v)) => UseAt(v).target \in Hands'
    BY <1>1, <1>8, <1>16, <2>1, <2>2, <2>3 DEF AllInHand
  <2>5. \A j \in DOMAIN expanding.path : expanding.path[j] \in Hands'
    BY <1>1, <1>2, <1>16, <2>1 DEF AllInHand
  <2>6. \A i \in DOMAIN walk' : \A j \in DOMAIN walk'[i].path : walk'[i].path[j] \in Hands'
    <3> SUFFICES ASSUME NEW i \in DOMAIN walk', NEW j \in DOMAIN walk'[i].path PROVE walk'[i].path[j] \in Hands'
      OBVIOUS
    <3>1. CASE i \in DOMAIN walk /\ walk'[i] = walk[i]
      BY <1>1, <1>16, <2>1, <3>1 DEF AllInHand
    <3>2. CASE follows /\ walk'[i] = next
      BY <1>9, <2>2, <2>5, <3>2
    <3>3. QED BY <1>10, <3>1, <3>2
  <2>7. Asked \in Hands'
    BY <1>1, <1>16, <2>1 DEF AllInHand
  <2>8. QED BY <1>2, <1>3, <2>4, <2>5, <2>6, <2>7 DEF AllInHand, UseAt
<1>18. CyclesAhead'
  <2> SUFFICES ASSUME ~answer'.truncated, answer'.cycles = {}, NEW rs \in SUBSET DOMAIN usesOf,
                      Recurrent(rs)
               PROVE  StillLeads(rs)'
    BY <1>2 DEF CyclesAhead, Recurrent
  <2>1. ~answer.truncated /\ ~TooDeep /\ answer.cycles = {} /\ ~(Followed(use) /\ passed)
    BY <1>7
  <2>2. StillLeads(rs)
    BY <1>1, <2>1 DEF CyclesAhead
  <2>3. CASE \E i \in DOMAIN walk : walk[i].recipe \in rs
    BY <1>10, <2>3 DEF StillLeads
  <2>4. CASE ~\E i \in DOMAIN walk : walk[i].recipe \in rs
    <3>1. r \in rs
      BY <2>2, <2>4 DEF StillLeads, r
    <3>2. PICK i \in DOMAIN usesOf[r] : i > expanding.read /\ Followed(usesOf[r][i]) /\ usesOf[r][i].target \in rs
      BY <2>2, <2>4 DEF StillLeads, r
    <3>3. CASE i = n
      <4>1. Followed(use) /\ use.target \in rs
        BY <1>3, <3>2, <3>3
      <4>2. follows
        BY <1>6, <2>1, <4>1
      <4>3. QED BY <1>9, <1>10, <4>1, <4>2 DEF StillLeads
    <3>4. CASE i # n
      <4>1. i > n
        <5>1. i \in Nat
          BY <1>2, <1>3, BooksOfUses
        <5>2. QED BY <1>3, <3>2, <3>4, <5>1
      <4>2. QED BY <1>2, <1>3, <3>1, <3>2, <4>1 DEF StillLeads
    <3>5. QED BY <3>3, <3>4
  <2>5. QED BY <2>3, <2>4
<1>19. QED BY <1>11, <1>12, <1>13, <1>14, <1>15, <1>17, <1>18 DEF WorkInv

\* What has been found is needed, and what is needed has been found or is in hand, while the uses of
\* recipes are followed in any book (book_model.py:565-610).
THEOREM WorkInvariant == WorkSpec => []WorkInv
<1>1. WorkInv /\ [WorkNext]_workVars => WorkInv'
  <2>1. WorkInv /\ UNCHANGED workVars => WorkInv'
    <3> SUFFICES ASSUME WorkInv, UNCHANGED workVars PROVE WorkInv'
      OBVIOUS
    <3>1. /\ usesOf' = usesOf /\ depth' = depth /\ limit' = limit /\ walk' = walk
          /\ expanding' = expanding /\ answer' = answer /\ UsesListed' = UsesListed /\ Hands' = Hands
      BY DEF workVars, UsesListed, Hands
    <3>2. WalkTyped' /\ PathsLead' /\ ReadListed'
      BY <3>1 DEF WorkInv, WalkTyped, PathsLead, Leads, ReadListed
    <3>3. UnsettledNamed' /\ CyclesReal' /\ AllInHand'
      BY <3>1 DEF WorkInv, UnsettledNamed, UseAt, CyclesReal, CycleNeeded, AllInHand
    <3>4. CyclesAhead'
      BY <3>1 DEF WorkInv, CyclesAhead, Recurrent, StillLeads
    <3>5. QED BY <3>2, <3>3, <3>4 DEF WorkInv
  <2>2. QED BY <2>1, ExpandKeeps, ReadKeeps, FullKeeps, ExpandedKeeps DEF WorkNext
<1>2. QED BY <1>1, WorkBegins, PTL DEF WorkSpec

\* An answer that does not say it is truncated is whole, for any book, depth, limit and size: every
\* use of every recipe needed, each that is not settled, and a cycle if there is one
\* (book_model.py:550-620).
THEOREM AnswersAlwaysWhole == WorkSpec => []AnswersWhole
<1>1. WorkInv => AnswersWhole
  <2> SUFFICES ASSUME WorkInv, Answered, ~answer.truncated
               PROVE  /\ UsesListed = UsesOfAll(usesOf, Needs(usesOf, Asked))
                      /\ answer.unresolved = {u \in UsesOfAll(usesOf, Needs(usesOf, Asked)) : Unsettled(UseAt(u))}
                      /\ answer.cycles # {} <=> CycleNeeded
    BY DEF AnswersWhole, UsesListed, ToSet, UseAt, CycleNeeded
  <2> DEFINE needed == Needs(usesOf, Asked)
  <2>1. /\ WalkTyped /\ UnsettledNamed /\ CyclesReal /\ AllInHand /\ CyclesAhead
        /\ walk = <<>> /\ expanding = NoRecipe
    BY DEF WorkInv, Answered
  <2>2. usesOf \in BookUses /\ BookOfUses(usesOf) /\ Asked \in DOMAIN usesOf /\ NoTarget \notin DOMAIN usesOf
    BY <2>1, BooksOfUses DEF WalkTyped, BookOfUses
  <2>3. UsesListed \subseteq UsesOfAll(usesOf, needed)
    <3>1. answer.uses \in Seq(UsesOfAll(usesOf, needed))
      BY <2>1 DEF WalkTyped, AnswersOf
    <3> HIDE DEF needed
    <3>2. QED BY <3>1 DEF UsesListed, ToSet
  <2>4. \A r \in Hands : \A i \in DOMAIN usesOf[r] : <<r, i>> \in UsesListed
    BY <2>1, <2>2 DEF Hands, NoRecipe
  <2>5. ASSUME NEW r \in Hands PROVE FollowedFrom(usesOf, r) \subseteq Hands
    <3>1. ASSUME NEW i \in DOMAIN usesOf[r], Followed(usesOf[r][i]) PROVE usesOf[r][i].target \in Hands
      <4>1. <<r, i>> \in UsesListed /\ UseAt(<<r, i>>) = usesOf[r][i]
        BY <2>4 DEF UseAt
      <4>2. QED BY <2>1, <3>1, <4>1 DEF AllInHand
    <3>2. QED BY <3>1 DEF FollowedFrom
  <2>6. needed \subseteq Hands
    BY <2>1, <2>2, <2>5, NeedsClose DEF AllInHand
  <2>7. UsesOfAll(usesOf, needed) \subseteq UsesListed
    BY <2>4, <2>6 DEF UsesOfAll
  <2>8. answer.unresolved = {u \in UsesOfAll(usesOf, needed) : Unsettled(UseAt(u))}
    BY <2>1, <2>3, <2>7 DEF UnsettledNamed
  <2>9. ASSUME CycleNeeded, answer.cycles = {} PROVE FALSE
    <3>1. PICK r \in needed : \E target \in FollowedFrom(usesOf, r) : r \in Needs(usesOf, target)
      BY <2>9 DEF CycleNeeded
    <3>2. PICK target \in FollowedFrom(usesOf, r) : r \in Needs(usesOf, target)
      BY <3>1
    <3> DEFINE rs == {p \in needed : r \in Needs(usesOf, p)}
    <3>3. needed \subseteq DOMAIN usesOf /\ Asked \in needed
          /\ \A p \in needed : FollowedFrom(usesOf, p) \subseteq needed
      BY <2>2, NeedsClose
    <3>4. ASSUME NEW p \in rs PROVE FollowedFrom(usesOf, p) \cap rs # {}
      <4>1. CASE p = r
        BY <3>2, <3>3, <4>1
      <4>2. CASE p # r
        <5>1. PICK q \in FollowedFrom(usesOf, p) : r \in Needs(usesOf, q)
          BY <2>2, <3>3, <4>2, NeedsByFirst
        <5>2. QED BY <3>3, <5>1
      <4>3. QED BY <4>1, <4>2
    <3>5. Recurrent(rs)
      BY <3>1, <3>3, <3>4 DEF Recurrent
    <3>6. rs \in SUBSET DOMAIN usesOf
      BY <3>3
    <3> HIDE DEF rs
    <3>7. StillLeads(rs)
      BY <2>1, <2>9, <3>5, <3>6 DEF CyclesAhead
    <3>8. QED BY <2>1, <3>7 DEF StillLeads
  <2>10. QED BY <2>1, <2>3, <2>7, <2>8, <2>9 DEF CyclesReal
<1>2. QED BY <1>1, WorkInvariant, PTL

----------------------------------------------------------------------------
(* The capture of a document: its elements and what is inside them *)

\* The elements from i to j are inside the first of them.
InElement(doc, i, j) == i <= j /\ \A m \in (i + 1)..j : doc[m].depth > doc[i].depth

\* Every element but the first is below another, at most one deeper than the one before it.
LEMMA DocumentOrdered ==
    ASSUME NEW doc, DocumentOrder(doc)
    PROVE  /\ Len(doc) \in Nat /\ DOMAIN doc = 1..Len(doc)
           /\ \A i \in 1..Len(doc) :
                /\ doc[i].depth \in Nat \ {0} /\ doc[i].text \in BOOLEAN /\ doc[i].tail \in BOOLEAN
                /\ i = 1 => doc[i].depth = 1
                /\ i # 1 => doc[i].depth # 1 /\ doc[i].depth <= doc[i - 1].depth + 1
<1> DEFINE S == {doc[i] : i \in DOMAIN doc}
<1>1. doc \in Seq(S)
  BY DEF DocumentOrder
<1> HIDE DEF S
<1>2. Len(doc) \in Nat /\ DOMAIN doc = 1..Len(doc)
  BY <1>1
<1>3. ASSUME NEW i \in 1..Len(doc)
      PROVE  /\ doc[i].depth \in Nat /\ doc[i].text \in BOOLEAN /\ doc[i].tail \in BOOLEAN
             /\ IF i = 1 THEN doc[i].depth = 1 ELSE 2 <= doc[i].depth /\ doc[i].depth <= doc[i - 1].depth + 1
  BY <1>2 DEF DocumentOrder
<1>4. ASSUME NEW i \in 1..Len(doc)
      PROVE  /\ doc[i].depth \in Nat \ {0} /\ doc[i].text \in BOOLEAN /\ doc[i].tail \in BOOLEAN
             /\ i = 1 => doc[i].depth = 1
             /\ i # 1 => doc[i].depth # 1 /\ doc[i].depth <= doc[i - 1].depth + 1
  BY <1>3
<1>5. QED BY <1>2, <1>4

\* What is inside an element ends where the depth falls back to its own.
LEMMA LastInside ==
    ASSUME NEW doc, DocumentOrder(doc), NEW i \in 1..Len(doc)
    PROVE  \A j \in i..Len(doc) : j <= LastOf(doc, i) <=> InElement(doc, i, j)
<1> DEFINE Ends(k) == /\ \A m \in (i + 1)..k : doc[m].depth > doc[i].depth
                      /\ k = Len(doc) \/ doc[k + 1].depth <= doc[i].depth
           Beyond == {m \in (i + 1)..Len(doc) : ~(doc[m].depth > doc[i].depth)}
<1>1. Len(doc) \in Nat /\ \A m \in 1..Len(doc) : doc[m].depth \in Nat
  BY DocumentOrdered
<1>2. \E k \in i..Len(doc) : Ends(k)
  <2>1. CASE Beyond = {}
    <3>1. Len(doc) \in i..Len(doc)
      BY <1>1
    <3>2. Ends(Len(doc))
      BY <2>1
    <3>3. QED BY <3>1, <3>2
  <2>2. CASE Beyond # {}
    <3>1. PICK n \in Beyond : \A m \in Beyond : n <= m
      <4>1. Beyond \in SUBSET Nat
        BY <1>1
      <4>2. QED BY <2>2, <4>1, NatMinimum
    <3>2. n - 1 \in i..Len(doc) /\ (n - 1) + 1 = n
      BY <1>1
    <3>3. \A m \in (i + 1)..(n - 1) : m \notin Beyond /\ m \in (i + 1)..Len(doc)
      BY <1>1, <3>1
    <3>4. Ends(n - 1)
      BY <1>1, <3>1, <3>2, <3>3
    <3>5. QED BY <3>2, <3>4
  <2>3. QED BY <2>1, <2>2
<1>3. PICK k \in i..Len(doc) : LastOf(doc, i) = k /\ Ends(k)
  <2>1. LastOf(doc, i) = CHOOSE k \in i..Len(doc) : Ends(k)
    BY DEF LastOf
  <2> HIDE DEF Ends
  <2>2. QED BY <1>2, <2>1
<1>4. ASSUME NEW j \in i..Len(doc), j <= k PROVE InElement(doc, i, j)
  <2>1. \A m \in (i + 1)..j : m \in (i + 1)..k
    BY <1>1, <1>4
  <2>2. QED BY <1>3, <2>1 DEF InElement
<1>5. ASSUME NEW j \in i..Len(doc), ~(j <= k) PROVE ~InElement(doc, i, j)
  <2>1. k + 1 \in (i + 1)..j /\ k # Len(doc) /\ k + 1 \in 1..Len(doc)
    BY <1>1, <1>5
  <2>2. ~(doc[k + 1].depth > doc[i].depth)
    BY <1>1, <1>3, <2>1
  <2>3. QED BY <2>1, <2>2 DEF InElement
<1>6. QED BY <1>3, <1>4, <1>5

----------------------------------------------------------------------------
(* The walk: the inductive invariant *)

Slots == {"element", "text", "tail"}
NodeRows == [of : Nat, slot : Slots, pre : Nat, end : Nat, parent : Nat, ordinal : Nat]

OpenElements == ToSet(opened)

NodesTyped ==
    /\ DocumentOrder(parsed)
    /\ capture.at \in 1..(Len(parsed) + 1) /\ capture.order \in Nat
    /\ IsFiniteSet(nodes) /\ nodes \subseteq NodeRows
    /\ \A n \in nodes : /\ n.of \in 1..(capture.at - 1) /\ n.parent \in 0..(capture.at - 1)
                        /\ n.pre < capture.order

\* The elements that are open are one below the other; the next one is below the last, or beside one.
StackHolds ==
    /\ opened \in Seq(1..(capture.at - 1))
    /\ \A k \in DOMAIN opened : parsed[opened[k]].depth = k
    /\ \A k, l \in DOMAIN opened : k < l => opened[k] < opened[l]
    /\ capture.at <= Len(parsed) => parsed[capture.at].depth <= Len(opened) + 1

\* What has been read of the elements is there, once: of one that is open, not what follows it.
RowsHold ==
    /\ \A n \in nodes : /\ n.slot = "text" => parsed[n.of].text
                        /\ n.slot = "tail" => parsed[n.of].tail /\ n.of # 1 /\ n.of \notin OpenElements
    /\ \A i \in 1..(capture.at - 1) :
        /\ \E n \in nodes : n.of = i /\ n.slot = "element"
        /\ parsed[i].text => \E n \in nodes : n.of = i /\ n.slot = "text"
        /\ parsed[i].tail /\ i # 1 /\ i \notin OpenElements => \E n \in nodes : n.of = i /\ n.slot = "tail"
    /\ \A m, n \in nodes : m.of = n.of /\ m.slot = n.slot => m = n

\* Each place in the order is one node's.
OrderHolds ==
    /\ \A k \in 0..(capture.order - 1) : \E n \in nodes : n.pre = k
    /\ \A m, n \in nodes : m.pre = n.pre => m = n
    /\ \A m, n \in nodes : m.slot = "element" /\ n.slot = "element" /\ m.of < n.of => m.pre < n.pre

\* An element that has been left spans what is inside it, and nothing to come is; all that came after
\* one that is open is inside it.
SpanHolds(m) ==
    IF m.of \in OpenElements THEN \A j \in m.of..(capture.at - 1) : InElement(parsed, m.of, j)
    ELSE /\ m.pre <= m.end /\ m.end < capture.order
         /\ \A n \in nodes : n.slot = "element" =>
               (InElement(parsed, m.of, n.of) <=> m.pre <= n.pre /\ n.pre <= m.end)
         /\ \A j \in capture.at..Len(parsed) : ~InElement(parsed, m.of, j)
SpansHold == \A m \in nodes : m.slot = "element" => SpanHolds(m)

NodeTextsHold == \A e, t \in nodes : e.slot = "element" /\ t.of = e.of =>
    /\ t.slot = "text" => t.pre = e.pre + 1
    /\ t.slot = "tail" => t.pre = e.end + 1

ChildrenIn(rows, parent) == Cardinality({n \in rows : n.parent = parent})
Counted(rows) ==
    /\ \A n \in rows : n.ordinal < ChildrenIn(rows, n.parent)
    /\ \A m, n \in rows : m.parent = n.parent /\ m.pre < n.pre => m.ordinal < n.ordinal

WalkInv == /\ NodesTyped /\ StackHolds /\ RowsHold /\ OrderHolds /\ SpansHold /\ NodeTextsHold
           /\ Counted(nodes)

\* A walk begins before the first element.
LEMMA WalkBegins ==
    ASSUME DocumentOrder(parsed'), capture'.at = 1, capture'.order = 0, opened' = <<>>, nodes' = {}
    PROVE  WalkInv'
<1>1. Len(parsed') \in Nat /\ (1 <= Len(parsed') => parsed'[1].depth = 1)
  BY DocumentOrdered
<1>2. OpenElements' = {} /\ Len(opened') = 0 /\ DOMAIN opened' = {}
  BY DEF OpenElements, ToSet
<1>3. NodesTyped'
  BY <1>1, FS_EmptySet DEF NodesTyped
<1>4. StackHolds'
  BY <1>1, <1>2 DEF StackHolds
<1>5. QED BY <1>2, <1>3, <1>4 DEF WalkInv, RowsHold, OrderHolds, SpansHold, NodeTextsHold, Counted

\* Nothing else is known of a walk.
LEMMA WalkStays ==
    ASSUME WalkInv, UNCHANGED <<capture, parsed, opened, nodes>>
    PROVE  WalkInv'
  BY DEF WalkInv, NodesTyped, StackHolds, RowsHold, OrderHolds, SpansHold, SpanHolds, NodeTextsHold, Counted,
         OpenElements, ChildrenIn

\* Capture is complete when all elements have been left.
LEMMA WalkEnds ==
    ASSUME WalkInv, opened = <<>>, ~Descends
    PROVE  Faithful(parsed, nodes)
<1> DEFINE node(i, slot) == CHOOSE n \in nodes : n.of = i /\ n.slot = slot
           element(i) == node(i, "element")
           texts == {<<i, "text">> : i \in {j \in DOMAIN parsed : parsed[j].text}}
                    \cup {<<i, "tail">> : i \in {j \in DOMAIN parsed \ {1} : parsed[j].tail}}
<1>0. /\ NodesTyped /\ StackHolds /\ RowsHold /\ OrderHolds /\ SpansHold /\ NodeTextsHold
      /\ Counted(nodes) /\ OpenElements = {}
  BY DEF WalkInv, OpenElements, ToSet
<1>1. /\ Len(parsed) \in Nat /\ DOMAIN parsed = 1..Len(parsed)
      /\ \A i \in 1..Len(parsed) : parsed[i].depth \in Nat \ {0}
  BY <1>0, DocumentOrdered DEF NodesTyped
<1>2. capture.at - 1 = Len(parsed)
  <2>1. Len(opened) = 0 /\ capture.at \in 1..(Len(parsed) + 1)
    BY <1>0 DEF NodesTyped
  <2>2. ~(capture.at <= Len(parsed))
    BY <1>1, <2>1 DEF Descends
  <2>3. QED BY <1>1, <2>1, <2>2
<1>3. ASSUME NEW n \in nodes PROVE node(n.of, n.slot) = n /\ n.of \in DOMAIN parsed /\ n.slot \in Slots
  BY <1>0, <1>1, <1>2 DEF NodesTyped, NodeRows, RowsHold
<1>4. ASSUME NEW i \in DOMAIN parsed PROVE element(i) \in nodes /\ element(i).of = i /\ element(i).slot = "element"
  <2>1. PICK n \in nodes : n.of = i /\ n.slot = "element"
    BY <1>0, <1>1, <1>2 DEF RowsHold
  <2>2. QED BY <1>3, <2>1
<1>5. ASSUME NEW t \in texts
      PROVE  node(t[1], t[2]) \in nodes /\ node(t[1], t[2]).of = t[1] /\ node(t[1], t[2]).slot = t[2]
             /\ t[1] \in DOMAIN parsed /\ t[2] \in {"text", "tail"}
  <2>1. t[1] \in 1..(capture.at - 1) /\ t[2] \in {"text", "tail"}
        /\ (t[2] = "text" => parsed[t[1]].text) /\ (t[2] = "tail" => parsed[t[1]].tail /\ t[1] # 1)
    BY <1>1, <1>2
  <2>2. PICK n \in nodes : n.of = t[1] /\ n.slot = t[2]
    BY <1>0, <2>1 DEF RowsHold
  <2>3. QED BY <1>1, <1>2, <1>3, <2>1, <2>2
<1> HIDE DEF node
<1>6. {<<n.of, n.slot>> : n \in nodes} = texts \cup {<<i, "element">> : i \in DOMAIN parsed}
  <2>1. ASSUME NEW n \in nodes PROVE <<n.of, n.slot>> \in texts \cup {<<i, "element">> : i \in DOMAIN parsed}
    BY <1>0, <1>3 DEF RowsHold, Slots
  <2>2. ASSUME NEW i \in DOMAIN parsed PROVE <<i, "element">> \in {<<n.of, n.slot>> : n \in nodes}
    BY <1>4
  <2>3. ASSUME NEW t \in texts PROVE t \in {<<n.of, n.slot>> : n \in nodes}
    <3>1. t = <<t[1], t[2]>>
      OBVIOUS
    <3>2. QED BY <1>5, <3>1
  <2>4. QED BY <2>1, <2>2, <2>3
<1>7. {n.pre : n \in nodes} = 0..(Cardinality(nodes) - 1)
  <2> DEFINE f == [n \in nodes |-> n.pre]
             P == 0..(capture.order - 1)
  <2>1. capture.order \in Nat /\ IsFiniteSet(nodes) /\ \A n \in nodes : n.pre \in P
    BY <1>0 DEF NodesTyped, NodeRows
  <2>2. f \in Bijection(nodes, P)
    <3>1. f \in [nodes -> P] /\ \A m, n \in nodes : f[m] = f[n] => m = n
      BY <1>0, <2>1 DEF OrderHolds
    <3>2. \A k \in P : \E n \in nodes : f[n] = k
      BY <1>0, <2>1 DEF OrderHolds
    <3> HIDE DEF f, P
    <3>3. QED BY <3>1, <3>2 DEF Bijection, Injection, Surjection, IsInjective
  <2>3. Cardinality(P) = Cardinality(nodes)
    BY <2>1, <2>2, FS_Bijection DEF ExistsBijection
  <2>4. Cardinality(P) = capture.order
    <3>1. 0 \in Int /\ capture.order - 1 \in Int
      BY <2>1
    <3>2. Cardinality(P) = IF 0 > capture.order - 1 THEN 0 ELSE (capture.order - 1) - 0 + 1
      BY <3>1, FS_Interval
    <3>3. QED BY <2>1, <3>2
  <2>5. {n.pre : n \in nodes} = P
    BY <1>0, <2>1 DEF OrderHolds
  <2>6. QED BY <2>3, <2>4, <2>5
<1>8. ASSUME NEW i \in DOMAIN parsed, NEW j \in DOMAIN parsed
      PROVE  /\ i < j => element(i).pre < element(j).pre
             /\ i <= j /\ j <= LastOf(parsed, i)
                    <=> element(i).pre <= element(j).pre /\ element(j).pre <= element(i).end
  <2>1. /\ element(i) \in nodes /\ element(i).of = i /\ element(i).slot = "element"
        /\ element(j) \in nodes /\ element(j).of = j /\ element(j).slot = "element"
    BY <1>4
  <2> HIDE DEF element
  <2>2. i < j => element(i).pre < element(j).pre
    BY <1>0, <2>1 DEF OrderHolds
  <2>3. InElement(parsed, i, j) <=> element(i).pre <= element(j).pre /\ element(j).pre <= element(i).end
    BY <1>0, <2>1 DEF SpansHold, SpanHolds
  <2>4. InElement(parsed, i, j) <=> i <= j /\ j <= LastOf(parsed, i)
    <3>1. CASE i <= j
      <4>1. i \in 1..Len(parsed) /\ j \in i..Len(parsed)
        BY <1>1, <3>1
      <4>2. QED BY <1>0, <3>1, <4>1, LastInside DEF NodesTyped
    <3>2. CASE ~(i <= j)
      BY <3>2 DEF InElement
    <3>3. QED BY <3>1, <3>2
  <2>5. QED BY <2>2, <2>3, <2>4
<1>9. ASSUME NEW t \in texts
      PROVE  IF t[2] = "text" THEN node(t[1], "text").pre = element(t[1]).pre + 1
             ELSE node(t[1], "tail").pre = element(t[1]).end + 1
  <2>1. /\ node(t[1], t[2]) \in nodes /\ node(t[1], t[2]).of = t[1] /\ node(t[1], t[2]).slot = t[2]
        /\ t[1] \in DOMAIN parsed /\ t[2] \in {"text", "tail"}
    BY <1>5
  <2>2. element(t[1]) \in nodes /\ element(t[1]).of = t[1] /\ element(t[1]).slot = "element"
    BY <1>4, <2>1
  <2> HIDE DEF element, texts
  <2>3. QED BY <1>0, <2>1, <2>2 DEF NodeTextsHold
<1>10. \A m, n \in nodes : m.parent = n.parent /\ m.pre < n.pre => m.ordinal < n.ordinal
  BY <1>0 DEF Counted
<1>11. QED BY <1>6, <1>7, <1>8, <1>9, <1>10 DEF Faithful, node


----------------------------------------------------------------------------
(* The walk: what a step changes *)

\* A node that is after the others is the last below its parent.
LEMMA CountedLast ==
    ASSUME NEW rows, IsFiniteSet(rows), Counted(rows), NEW x,
           x.ordinal = ChildrenIn(rows, x.parent), x.pre \in Nat,
           \A n \in rows : n.pre \in Nat /\ n.pre < x.pre /\ n.ordinal \in Nat
    PROVE  Counted(rows \cup {x})
<1> DEFINE all == rows \cup {x}
           Of(p) == {n \in rows : n.parent = p}
           OfAll(p) == {n \in all : n.parent = p}
<1>1. ASSUME NEW p
      PROVE  /\ ChildrenIn(rows, p) \in Nat /\ ChildrenIn(all, p) \in Nat
             /\ ChildrenIn(rows, p) <= ChildrenIn(all, p)
             /\ p = x.parent => ChildrenIn(all, p) = ChildrenIn(rows, p) + 1
  <2>1. IsFiniteSet(all)
    BY FS_AddElement
  <2>2. Of(p) \subseteq OfAll(p) /\ IsFiniteSet(OfAll(p)) /\ IsFiniteSet(Of(p))
    BY <2>1, FS_Subset
  <2>3. Cardinality(Of(p)) \in Nat /\ Cardinality(OfAll(p)) \in Nat /\ Cardinality(Of(p)) <= Cardinality(OfAll(p))
    BY <2>2, FS_CardinalityType, FS_Subset
  <2>4. ASSUME p = x.parent PROVE Cardinality(OfAll(p)) = Cardinality(Of(p)) + 1
    <3>1. OfAll(p) = Of(p) \cup {x} /\ x \notin Of(p)
      BY <2>4
    <3>2. QED BY <2>2, <3>1, FS_AddElement
  <2>5. QED BY <2>3, <2>4 DEF ChildrenIn
<1> HIDE DEF all
<1>2. ASSUME NEW n \in all PROVE n.ordinal < ChildrenIn(all, n.parent)
  <2>1. CASE n \in rows
    BY <1>1, <2>1 DEF Counted
  <2>2. CASE n = x
    <3>1. ChildrenIn(all, n.parent) = n.ordinal + 1 /\ n.ordinal \in Nat
      BY <1>1, <2>2
    <3>2. QED BY <3>1
  <2>3. QED BY <2>1, <2>2 DEF all
<1>3. ASSUME NEW m \in all, NEW n \in all, m.parent = n.parent, m.pre < n.pre PROVE m.ordinal < n.ordinal
  <2>1. CASE m \in rows /\ n \in rows
    BY <1>3, <2>1 DEF Counted
  <2>2. CASE m \in rows /\ n = x
    BY <1>3, <2>2 DEF Counted
  <2>3. CASE m = x
    BY <1>3, <2>3 DEF all
  <2>4. QED BY <2>1, <2>2, <2>3 DEF all
<1>4. Counted(all)
  BY <1>2, <1>3 DEF Counted
<1>5. QED BY <1>4 DEF all

\* Where an element ends says nothing of what is beside it.
LEMMA CountedEnded ==
    ASSUME NEW rows, IsFiniteSet(rows), Counted(rows), NEW x \in rows, NEW y, y \notin rows \ {x},
           y.parent = x.parent, y.pre = x.pre, y.ordinal = x.ordinal
    PROVE  LET all == (rows \ {x}) \cup {y}
           IN  IsFiniteSet(all) /\ Counted(all) /\ \A p : ChildrenIn(all, p) = ChildrenIn(rows, p)
<1> DEFINE all == (rows \ {x}) \cup {y}
           Of(p) == {n \in rows : n.parent = p}
           OfAll(p) == {n \in all : n.parent = p}
<1>1. ASSUME NEW p PROVE ChildrenIn(all, p) = ChildrenIn(rows, p)
  <2>1. IsFiniteSet(Of(p))
    BY FS_Subset
  <2>2. CASE p = x.parent
    <3>1. OfAll(p) = (Of(p) \ {x}) \cup {y} /\ x \in Of(p) /\ y \notin Of(p) \ {x}
      BY <2>2
    <3>2. /\ IsFiniteSet(Of(p) \ {x}) /\ Cardinality(Of(p) \ {x}) = Cardinality(Of(p)) - 1
          /\ Cardinality(Of(p)) \in Nat
      BY <2>1, <3>1, FS_RemoveElement, FS_CardinalityType
    <3>3. Cardinality(OfAll(p)) = Cardinality(Of(p) \ {x}) + 1
      BY <3>1, <3>2, FS_AddElement
    <3>4. QED BY <3>2, <3>3 DEF ChildrenIn
  <2>3. CASE p # x.parent
    <3>1. OfAll(p) = Of(p)
      BY <2>3
    <3>2. QED BY <3>1 DEF ChildrenIn
  <2>4. QED BY <2>2, <2>3
<1>2. \A n \in all : \E r \in rows : n.parent = r.parent /\ n.pre = r.pre /\ n.ordinal = r.ordinal
  OBVIOUS
<1> HIDE DEF all
<1>3. Counted(all)
  <2>1. ASSUME NEW n \in all PROVE n.ordinal < ChildrenIn(all, n.parent)
    BY <1>1, <1>2 DEF Counted
  <2>2. ASSUME NEW m \in all, NEW n \in all, m.parent = n.parent, m.pre < n.pre PROVE m.ordinal < n.ordinal
    BY <1>2, <2>2 DEF Counted
  <2>3. QED BY <2>1, <2>2 DEF Counted
<1>4. IsFiniteSet(all)
  BY FS_Subset, FS_AddElement DEF all
<1>5. QED BY <1>1, <1>3, <1>4 DEF all

CaptureShape ==
    capture = [phase |-> capture.phase, handle |-> capture.handle, names |-> capture.names,
               ncx |-> capture.ncx, doc |-> capture.doc, at |-> capture.at, order |-> capture.order]

\* What a step of the walk finds: the order, the open elements and the nodes.
LEMMA Around ==
    ASSUME WalkInv
    PROVE  /\ capture.at \in Nat \ {0} /\ capture.order \in Nat /\ Len(opened) \in Nat /\ Len(parsed) \in Nat
           /\ DOMAIN opened = 1..Len(opened)
           /\ \A k \in 1..Len(opened) : opened[k] \in 1..(capture.at - 1)
           /\ Inner \in 0..(capture.at - 1) /\ (opened # <<>> <=> Len(opened) # 0)
           /\ OpenElements = {opened[k] : k \in 1..Len(opened)}
           /\ opened # <<>> => Inner = opened[Len(opened)] /\ Inner \in OpenElements
           /\ \A p : ChildrenIn(nodes, p) \in Nat /\ Children(p) = ChildrenIn(nodes, p)
           /\ \A n \in nodes : /\ n.of \in 1..(capture.at - 1) /\ n.slot \in Slots /\ n.pre \in Nat
                               /\ n.pre < capture.order /\ n.end \in Nat /\ n.ordinal \in Nat
<1>1. NodesTyped /\ StackHolds
  BY DEF WalkInv
<1>2. capture.at \in Nat \ {0} /\ capture.order \in Nat /\ Len(parsed) \in Nat
  BY <1>1, DocumentOrdered DEF NodesTyped
<1>3. /\ Len(opened) \in Nat /\ DOMAIN opened = 1..Len(opened) /\ (opened # <<>> <=> Len(opened) # 0)
      /\ \A k \in 1..Len(opened) : opened[k] \in 1..(capture.at - 1)
  <2>1. opened \in Seq(1..(capture.at - 1))
    BY <1>1 DEF StackHolds
  <2>2. opened # <<>> <=> Len(opened) # 0
    BY <2>1, EmptySeq
  <2>3. Len(opened) \in Nat /\ DOMAIN opened = 1..Len(opened)
    BY <2>1
  <2>4. ASSUME NEW k \in 1..Len(opened) PROVE opened[k] \in 1..(capture.at - 1)
    BY <2>1, ElementOfSeq
  <2>5. QED BY <2>2, <2>3, <2>4
<1>4. OpenElements = {opened[k] : k \in 1..Len(opened)}
  BY <1>3 DEF OpenElements, ToSet
<1>5. opened # <<>> => Inner = opened[Len(opened)] /\ Len(opened) \in 1..Len(opened)
  BY <1>3 DEF Inner, Last
<1>6. Inner \in 0..(capture.at - 1) /\ (opened # <<>> => Inner \in OpenElements)
  BY <1>2, <1>3, <1>4, <1>5 DEF Inner
<1>7. ASSUME NEW p PROVE ChildrenIn(nodes, p) \in Nat /\ Children(p) = ChildrenIn(nodes, p)
  <2>1. IsFiniteSet({n \in nodes : n.parent = p})
    BY <1>1, FS_Subset DEF NodesTyped
  <2>2. QED BY <2>1, FS_CardinalityType DEF ChildrenIn, Children
<1>8. \A n \in nodes : /\ n.of \in 1..(capture.at - 1) /\ n.slot \in Slots /\ n.pre \in Nat
                       /\ n.pre < capture.order /\ n.end \in Nat /\ n.ordinal \in Nat
  BY <1>1 DEF NodesTyped, NodeRows
<1>9. QED BY <1>2, <1>3, <1>4, <1>5, <1>6, <1>7, <1>8

\* An element is entered below the last that is open, and its text follows it.
LEMMA EnterKeeps ==
    ASSUME WalkInv, CaptureShape, EnterElement
    PROVE  WalkInv'
<1> DEFINE i == capture.at
           o == capture.order
           has == parsed[i].text
           e == NodeOf(i, "element", o, Inner, Children(Inner))
           t == NodeOf(i, "text", o + 1, i, 0)
<1>1. /\ opened' = Append(opened, i) /\ parsed' = parsed
      /\ nodes' = nodes \cup {e} \cup (IF has THEN {t} ELSE {})
      /\ i <= Len(parsed) /\ parsed[i].depth > Len(opened)
  BY DEF EnterElement, Descends
<1>2. capture'.at = i + 1 /\ capture'.order = o + (IF has THEN 2 ELSE 1)
  BY DEF EnterElement, CaptureShape
<1>3. /\ i \in Nat \ {0} /\ o \in Nat /\ Len(opened) \in Nat /\ DOMAIN opened = 1..Len(opened)
      /\ Inner \in 0..(i - 1) /\ OpenElements = {opened[k] : k \in 1..Len(opened)}
      /\ \A k \in 1..Len(opened) : opened[k] \in 1..(i - 1)
      /\ Children(Inner) \in Nat /\ Children(Inner) = ChildrenIn(nodes, Inner)
      /\ \A n \in nodes : /\ n.of \in 1..(i - 1) /\ n.slot \in Slots /\ n.pre \in Nat /\ n.pre < o
                          /\ n.end \in Nat /\ n.ordinal \in Nat
  BY Around
<1>4. /\ Len(parsed) \in Nat /\ i \in 1..Len(parsed)
      /\ \A j \in 1..Len(parsed) :
           /\ parsed[j].depth \in Nat \ {0} /\ parsed[j].text \in BOOLEAN /\ parsed[j].tail \in BOOLEAN
           /\ j # 1 => parsed[j].depth <= parsed[j - 1].depth + 1
  BY <1>1, <1>3, DocumentOrdered, SMTT(30) DEF WalkInv, NodesTyped
<1>5. /\ NodesTyped /\ StackHolds /\ RowsHold /\ OrderHolds /\ SpansHold /\ NodeTextsHold /\ Counted(nodes)
  BY DEF WalkInv
<1>6. /\ e.of = i /\ e.slot = "element" /\ e.pre = o /\ e.end = o /\ e.parent = Inner
      /\ e.ordinal = Children(Inner)
      /\ t.of = i /\ t.slot = "text" /\ t.pre = o + 1 /\ t.end = o + 1 /\ t.parent = i /\ t.ordinal = 0
      /\ e \in NodeRows /\ t \in NodeRows
  BY <1>3 DEF NodeOf, NodeRows, Slots
<1>7. /\ \A n \in nodes : n \in nodes'
      /\ e \in nodes' /\ (has => t \in nodes')
      /\ \A n \in nodes' : n \in nodes \/ n = e \/ (has /\ n = t)
  BY <1>1
<1>8. has \in BOOLEAN /\ (has => capture'.order = o + 2) /\ (~has => capture'.order = o + 1)
  BY <1>2, <1>4
<1> HIDE DEF e, t
<1>9. parsed[i].depth = Len(opened) + 1
  BY <1>1, <1>3, <1>4, <1>5 DEF StackHolds
<1>10. /\ Len(opened') = Len(opened) + 1 /\ DOMAIN opened' = 1..(Len(opened) + 1)
       /\ opened'[Len(opened) + 1] = i /\ \A k \in 1..Len(opened) : opened'[k] = opened[k]
       /\ opened' \in Seq(1..i)
  <2>1. opened \in Seq(1..(i - 1)) /\ 1..(i - 1) \subseteq 1..i /\ i \in 1..i
    BY <1>3, <1>5 DEF StackHolds
  <2>2. opened \in Seq(1..i)
    BY <2>1
  <2>3. QED BY <1>1, <2>1, <2>2
<1>11. OpenElements' = OpenElements \cup {i}
  <2>1. OpenElements' = {opened'[k] : k \in 1..(Len(opened) + 1)}
    BY <1>10 DEF OpenElements, ToSet
  <2>2. ASSUME NEW k \in 1..(Len(opened) + 1) PROVE opened'[k] \in OpenElements \cup {i}
    <3>1. k \in 1..Len(opened) \/ k = Len(opened) + 1
      BY <1>3
    <3>2. QED BY <1>3, <1>10, <3>1
  <2>3. ASSUME NEW k \in 1..Len(opened) PROVE k \in 1..(Len(opened) + 1) /\ opened'[k] = opened[k]
    BY <1>3, <1>10
  <2>4. Len(opened) + 1 \in 1..(Len(opened) + 1)
    BY <1>3
  <2>5. OpenElements' \subseteq OpenElements \cup {i}
    BY <2>1, <2>2
  <2>6. ASSUME NEW j \in OpenElements PROVE j \in OpenElements'
    <3>1. PICK k \in 1..Len(opened) : j = opened[k]
      BY <1>3
    <3>2. QED BY <2>1, <2>3, <3>1
  <2>7. i \in OpenElements'
    BY <1>10, <2>1, <2>4
  <2>8. QED BY <2>5, <2>6, <2>7
<1>12. NodesTyped'
  <2>1. IsFiniteSet(nodes')
    <3>1. IsFiniteSet(nodes \cup {e})
      BY <1>5, FS_AddElement DEF NodesTyped
    <3>2. CASE has
      BY <1>1, <3>1, <3>2, FS_AddElement
    <3>3. CASE ~has
      <4>1. nodes' = nodes \cup {e}
        BY <1>1, <3>3
      <4>2. QED BY <3>1, <4>1
    <3>4. QED BY <3>2, <3>3
  <2>2. nodes' \subseteq NodeRows
    BY <1>5, <1>6, <1>7 DEF NodesTyped
  <2>3. ASSUME NEW n \in nodes'
        PROVE  n.of \in 1..i /\ n.parent \in 0..i /\ n.pre < capture'.order
    <3>1. CASE n \in nodes
      <4>1. n.of \in 1..(i - 1) /\ n.parent \in 0..(i - 1) /\ n.pre \in Nat /\ n.pre < o
        BY <1>3, <1>5, <3>1 DEF NodesTyped
      <4>2. capture'.order \in Nat /\ o < capture'.order /\ i \in Nat /\ o \in Nat
        BY <1>3, <1>8
      <4> HIDE DEF i, o
      <4>3. QED BY <4>1, <4>2
    <3>2. CASE n = e
      BY <1>3, <1>6, <1>8, <3>2
    <3>3. CASE has /\ n = t
      BY <1>3, <1>6, <1>8, <3>3
    <3>4. QED BY <1>7, <3>1, <3>2, <3>3
  <2>4. DocumentOrder(parsed') /\ capture'.at \in 1..(Len(parsed') + 1) /\ capture'.order \in Nat
        /\ capture'.at - 1 = i
    <3>1. DocumentOrder(parsed')
      BY <1>1, <1>5 DEF NodesTyped
    <3>2. capture'.at = i + 1 /\ capture'.order \in Nat
      BY <1>2, <1>3, <1>8
    <3>3. i + 1 \in 1..(Len(parsed) + 1) /\ (i + 1) - 1 = i
      BY <1>3, <1>4
    <3>4. QED BY <1>1, <3>1, <3>2, <3>3
  <2>5. QED BY <2>1, <2>2, <2>3, <2>4 DEF NodesTyped
<1>13. StackHolds'
  <2> DEFINE L == Len(opened)
  <2>0. /\ \A k \in 1..L : parsed[opened[k]].depth = k /\ opened[k] \in 1..(i - 1)
        /\ \A k, l \in 1..L : k < l => opened[k] < opened[l]
        /\ L \in Nat /\ \A k \in 1..(L + 1) : k \in 1..L \/ k = L + 1
    <3>1. /\ \A k \in DOMAIN opened : parsed[opened[k]].depth = k
          /\ \A k, l \in DOMAIN opened : k < l => opened[k] < opened[l]
      BY <1>5 DEF StackHolds
    <3>2. L \in Nat /\ DOMAIN opened = 1..L /\ \A k \in 1..L : opened[k] \in 1..(i - 1)
      BY <1>3
    <3> HIDE DEF L
    <3>3. QED BY <3>1, <3>2
  <2>1. ASSUME NEW k \in 1..(L + 1) PROVE parsed[opened'[k]].depth = k
    BY <1>9, <1>10, <2>0
  <2>2. ASSUME NEW k \in 1..(L + 1), NEW l \in 1..(L + 1), k < l PROVE opened'[k] < opened'[l]
    <3>1. k \in 1..L
      BY <2>0, <2>2
    <3>2. CASE l \in 1..L
      BY <1>10, <2>0, <2>2, <3>1, <3>2
    <3>3. CASE l = L + 1
      BY <1>3, <1>10, <2>0, <3>1, <3>3
    <3>4. QED BY <2>0, <3>2, <3>3
  <2>3. capture'.at <= Len(parsed) => parsed[capture'.at].depth <= Len(opened') + 1
    <3>1. i + 1 <= Len(parsed) => parsed[i + 1].depth <= parsed[(i + 1) - 1].depth + 1
      <4>1. i + 1 <= Len(parsed) => i + 1 \in 1..Len(parsed) /\ i + 1 # 1
        BY <1>3
      <4>2. ASSUME NEW j \in 1..Len(parsed), j # 1 PROVE parsed[j].depth <= parsed[j - 1].depth + 1
        BY <1>4, <4>2
      <4>3. QED BY <4>1, <4>2
    <3>2. (i + 1) - 1 = i
      BY <1>3
    <3>3. QED BY <1>2, <1>3, <1>4, <1>9, <1>10, <3>1, <3>2
  <2>4. capture'.at - 1 = i
    BY <1>2, <1>3
  <2>5. QED BY <1>1, <1>10, <2>1, <2>2, <2>3, <2>4 DEF StackHolds
<1>14. RowsHold'
  <2>1. ASSUME NEW n \in nodes'
        PROVE  /\ n.slot = "text" => parsed[n.of].text
               /\ n.slot = "tail" => parsed[n.of].tail /\ n.of # 1 /\ n.of \notin OpenElements'
    <3>1. CASE n \in nodes
      BY <1>3, <1>5, <1>11, <3>1 DEF RowsHold
    <3>2. CASE n = e \/ (has /\ n = t)
      BY <1>6, <3>2
    <3>3. QED BY <1>7, <3>1, <3>2
  <2>2. ASSUME NEW j \in 1..i
        PROVE  /\ \E n \in nodes' : n.of = j /\ n.slot = "element"
               /\ parsed[j].text => \E n \in nodes' : n.of = j /\ n.slot = "text"
               /\ parsed[j].tail /\ j # 1 /\ j \notin OpenElements' => \E n \in nodes' : n.of = j /\ n.slot = "tail"
    <3>1. CASE j = i
      BY <1>6, <1>7, <1>11, <3>1
    <3>2. CASE j # i
      <4>1. j \in 1..(i - 1)
        BY <1>3, <3>2
      <4>2. QED BY <1>5, <1>7, <1>11, <4>1 DEF RowsHold
    <3>3. QED BY <3>1, <3>2
  <2>3. ASSUME NEW m \in nodes', NEW n \in nodes', m.of = n.of, m.slot = n.slot PROVE m = n
    <3>1. CASE m \in nodes /\ n \in nodes
      BY <1>5, <2>3, <3>1 DEF RowsHold
    <3>2. CASE m \notin nodes /\ n \notin nodes
      BY <1>6, <1>7, <2>3, <3>2
    <3>3. CASE (m \in nodes /\ n \notin nodes) \/ (m \notin nodes /\ n \in nodes)
      BY <1>3, <1>6, <1>7, <2>3, <3>3
    <3>4. QED BY <3>1, <3>2, <3>3
  <2>4. capture'.at - 1 = i
    BY <1>2, <1>3
  <2>5. QED BY <1>1, <2>1, <2>2, <2>3, <2>4 DEF RowsHold
<1>15. OrderHolds'
  <2>1. ASSUME NEW k \in 0..(capture'.order - 1) PROVE \E n \in nodes' : n.pre = k
    <3>1. CASE k \in 0..(o - 1)
      BY <1>5, <1>7, <3>1 DEF OrderHolds
    <3>2. CASE k = o
      BY <1>6, <1>7, <3>2
    <3>3. CASE has /\ k = o + 1
      <4>1. t \in nodes' /\ t.pre = k
        BY <1>6, <1>7, <3>3
      <4>2. QED BY <4>1
    <3>4. k \in 0..(o - 1) \/ k = o \/ (has /\ k = o + 1)
      <4>1. o \in Nat /\ (has => capture'.order = o + 2) /\ (~has => capture'.order = o + 1)
        BY <1>3, <1>8
      <4> HIDE DEF i, o, has
      <4>2. QED BY <4>1
    <3>5. QED BY <3>1, <3>2, <3>3, <3>4
  <2>2. ASSUME NEW m \in nodes', NEW n \in nodes'
        PROVE  /\ m.pre = n.pre => m = n
               /\ m.slot = "element" /\ n.slot = "element" /\ m.of < n.of => m.pre < n.pre
    <3>1. CASE m \in nodes /\ n \in nodes
      BY <1>5, <3>1 DEF OrderHolds
    <3>2. CASE m \notin nodes \/ n \notin nodes
      <4>1. \A r \in nodes' : \/ r \in nodes /\ r.pre \in Nat /\ r.pre < o /\ r.of \in Nat /\ r.of < i
                              \/ r = e
                              \/ has /\ r = t
        BY <1>3, <1>7
      <4>2. /\ o \in Nat /\ i \in Nat /\ e.pre = o /\ e.of = i
            /\ t.pre = o + 1 /\ t.slot # "element"
        BY <1>3, <1>6
      <4>3. CASE m = e
        BY <4>1, <4>2, <4>3
      <4>4. CASE has /\ m = t
        BY <4>1, <4>2, <4>4
      <4>5. CASE m \in nodes
        BY <3>2, <4>1, <4>2, <4>5
      <4>6. QED BY <4>1, <4>3, <4>4, <4>5
    <3>3. QED BY <3>1, <3>2
  <2>3. QED BY <2>1, <2>2 DEF OrderHolds
<1>16. SpansHold'
  <2> DEFINE SpanOf(m) ==
        IF m.of \in OpenElements' THEN \A j \in m.of..i : InElement(parsed, m.of, j)
        ELSE /\ m.pre <= m.end /\ m.end < capture'.order
             /\ \A n \in nodes' : n.slot = "element" =>
                   (InElement(parsed, m.of, n.of) <=> m.pre <= n.pre /\ n.pre <= m.end)
             /\ \A j \in (i + 1)..Len(parsed) : ~InElement(parsed, m.of, j)
  <2>1. SpanOf(e)
    <3>1. \A j \in i..i : InElement(parsed, i, j)
      BY <1>3 DEF InElement
    <3>2. QED BY <1>6, <1>11, <3>1
  <2>2. ASSUME NEW m \in nodes, m.slot = "element", m.of \in OpenElements PROVE SpanOf(m)
    <3>1. \A j \in m.of..(i - 1) : InElement(parsed, m.of, j)
      BY <1>5, <2>2 DEF SpansHold, SpanHolds
    <3>2. parsed[i].depth > parsed[m.of].depth
      <4>1. PICK k \in 1..Len(opened) : m.of = opened[k]
        BY <1>3, <2>2
      <4>2. parsed[m.of].depth = k
        BY <1>3, <1>5, <4>1 DEF StackHolds
      <4>3. QED BY <1>3, <1>9, <4>2
    <3>3. m.of \in 1..(i - 1) /\ i - 1 \in m.of..(i - 1)
      BY <1>3, <2>2
    <3>4. InElement(parsed, m.of, i)
      <4>1. \A k \in (m.of + 1)..(i - 1) : parsed[k].depth > parsed[m.of].depth
        BY <3>1, <3>3 DEF InElement
      <4>2. \A k \in (m.of + 1)..i : k \in (m.of + 1)..(i - 1) \/ k = i
        BY <1>3, <3>3
      <4>3. QED BY <1>3, <3>2, <3>3, <4>1, <4>2 DEF InElement
    <3>5. \A j \in m.of..i : j \in m.of..(i - 1) \/ j = i
      BY <1>3, <3>3
    <3>6. QED BY <1>11, <2>2, <3>1, <3>4, <3>5
  <2>3. ASSUME NEW m \in nodes, m.slot = "element", m.of \notin OpenElements PROVE SpanOf(m)
    <3>1. /\ m.pre <= m.end /\ m.end < o
          /\ \A n \in nodes : n.slot = "element" =>
                (InElement(parsed, m.of, n.of) <=> m.pre <= n.pre /\ n.pre <= m.end)
          /\ \A j \in i..Len(parsed) : ~InElement(parsed, m.of, j)
      BY <1>5, <2>3 DEF SpansHold, SpanHolds
    <3>2. m.of \in 1..(i - 1) /\ m.end \in Nat
      BY <1>3, <2>3
    <3>3. m.of \notin OpenElements'
      BY <1>3, <1>11, <2>3, <3>2
    <3>4. ASSUME NEW n \in nodes', n.slot = "element"
          PROVE  InElement(parsed, m.of, n.of) <=> m.pre <= n.pre /\ n.pre <= m.end
      <4>1. CASE n \in nodes
        BY <3>1, <3>4, <4>1
      <4>2. CASE n = e
        <5>1. ~InElement(parsed, m.of, n.of)
          BY <1>4, <1>6, <3>1, <4>2
        <5>2. ~(n.pre <= m.end)
          BY <1>3, <1>6, <3>1, <3>2, <4>2
        <5>3. QED BY <5>1, <5>2
      <4>3. CASE n = t
        BY <1>6, <3>4, <4>3
      <4>4. QED BY <1>7, <4>1, <4>2, <4>3
    <3>5. m.end < capture'.order
      BY <1>3, <1>8, <3>1, <3>2
    <3>6. \A j \in (i + 1)..Len(parsed) : j \in i..Len(parsed)
      BY <1>3
    <3>7. QED BY <3>1, <3>3, <3>4, <3>5, <3>6
  <2>4. ASSUME NEW m \in nodes', m.slot = "element" PROVE SpanOf(m)
    <3>1. CASE m \in nodes
      BY <2>2, <2>3, <2>4, <3>1
    <3>2. CASE m = e
      BY <2>1, <3>2
    <3>3. CASE m = t
      BY <1>6, <2>4, <3>3
    <3>4. QED BY <1>7, <3>1, <3>2, <3>3
  <2>5. capture'.at - 1 = i /\ capture'.at = i + 1
    BY <1>2, <1>3
  <2>6. QED BY <1>1, <2>4, <2>5 DEF SpansHold, SpanHolds
<1>17. NodeTextsHold'
  <2>1. ASSUME NEW d \in nodes', NEW r \in nodes', d.slot = "element", r.of = d.of
        PROVE  (r.slot = "text" => r.pre = d.pre + 1) /\ (r.slot = "tail" => r.pre = d.end + 1)
    <3>1. CASE d \in nodes /\ r \in nodes
      BY <1>5, <2>1, <3>1 DEF NodeTextsHold
    <3>2. CASE d \notin nodes /\ r \notin nodes
      BY <1>6, <1>7, <2>1, <3>2
    <3>3. CASE (d \in nodes /\ r \notin nodes) \/ (d \notin nodes /\ r \in nodes)
      BY <1>3, <1>6, <1>7, <2>1, <3>3
    <3>4. QED BY <3>1, <3>2, <3>3
  <2>2. QED BY <2>1 DEF NodeTextsHold
<1>18. Counted(nodes')
  <2>1. IsFiniteSet(nodes) /\ \A n \in nodes : n.parent \in 0..(i - 1)
    BY <1>5 DEF NodesTyped
  <2>2. Counted(nodes \cup {e}) /\ IsFiniteSet(nodes \cup {e})
    BY <1>3, <1>5, <1>6, <2>1, CountedLast, FS_AddElement
  <2>3. CASE has
    <3>1. {n \in nodes \cup {e} : n.parent = i} = {}
      BY <1>3, <1>6, <2>1
    <3>2. ChildrenIn(nodes \cup {e}, i) = 0
      BY <3>1, FS_EmptySet DEF ChildrenIn
    <3>3. \A n \in nodes \cup {e} : n.pre \in Nat /\ n.pre < t.pre /\ n.ordinal \in Nat
      BY <1>3, <1>6
    <3>4. t.ordinal = ChildrenIn(nodes \cup {e}, t.parent) /\ t.pre \in Nat
      BY <1>3, <1>6, <3>2
    <3>5. Counted((nodes \cup {e}) \cup {t})
      BY <2>2, <3>3, <3>4, CountedLast
    <3>6. QED BY <1>1, <2>3, <3>5
  <2>4. CASE ~has
    <3>1. nodes' = nodes \cup {e}
      BY <1>1, <2>4
    <3>2. QED BY <2>2, <3>1
  <2>5. QED BY <2>3, <2>4
<1>19. QED BY <1>12, <1>13, <1>14, <1>15, <1>16, <1>17, <1>18 DEF WalkInv

\* An element is left with all that is inside it, and its tail follows that.
LEMMA LeaveKeeps ==
    ASSUME WalkInv, CaptureShape, LeaveElement
    PROVE  WalkInv'
<1> DEFINE i == Inner
           o == capture.order
           L == Len(opened)
           outer == IF Len(opened) = 1 THEN 0 ELSE opened[Len(opened) - 1]
           has == parsed[i].tail /\ outer # 0
           t == NodeOf(i, "tail", o, outer, Children(outer))
           EndedAs(n) == IF n.of = i /\ n.slot = "element" THEN [n EXCEPT !.end = SubtreeEnd(o)] ELSE n
<1>1. /\ opened # <<>> /\ opened' = Front(opened) /\ parsed' = parsed
      /\ nodes' = {EndedAs(n) : n \in nodes} \cup (IF has THEN {t} ELSE {})
  BY DEF LeaveElement
<1>2. /\ capture'.at = capture.at /\ capture'.order = IF has THEN o + 1 ELSE o
      /\ (capture.at <= Len(parsed) => ~(parsed[capture.at].depth > L))
  BY DEF LeaveElement, CaptureShape, Descends
<1>3. /\ capture.at \in Nat \ {0} /\ o \in Nat /\ L \in Nat \ {0} /\ DOMAIN opened = 1..L
      /\ \A k \in 1..L : opened[k] \in 1..(capture.at - 1)
      /\ OpenElements = {opened[k] : k \in 1..L}
      /\ i = opened[L] /\ i \in OpenElements /\ i \in 1..(capture.at - 1)
      /\ \A p : ChildrenIn(nodes, p) \in Nat /\ Children(p) = ChildrenIn(nodes, p)
      /\ \A n \in nodes : /\ n.of \in 1..(capture.at - 1) /\ n.slot \in Slots /\ n.pre \in Nat /\ n.pre < o
                          /\ n.end \in Nat /\ n.ordinal \in Nat
  <2>1. L \in 1..L /\ L \in Nat \ {0}
    BY <1>1, Around
  <2>2. QED BY <1>1, <2>1, Around
<1>4. /\ Len(parsed) \in Nat /\ capture.at - 1 \in 1..Len(parsed)
      /\ \A j \in 1..Len(parsed) :
           /\ parsed[j].depth \in Nat \ {0} /\ parsed[j].text \in BOOLEAN /\ parsed[j].tail \in BOOLEAN
           /\ (j = 1 <=> parsed[j].depth = 1)
  <2>1. DocumentOrder(parsed) /\ capture.at \in 1..(Len(parsed) + 1)
    BY DEF WalkInv, NodesTyped
  <2>2. QED BY <1>3, <2>1, DocumentOrdered
<1>5. /\ NodesTyped /\ StackHolds /\ RowsHold /\ OrderHolds /\ SpansHold /\ NodeTextsHold /\ Counted(nodes)
  BY DEF WalkInv
<1>6. /\ \A k \in 1..L : parsed[opened[k]].depth = k
      /\ \A k, l \in 1..L : k < l => opened[k] < opened[l]
  <2>1. /\ \A k \in DOMAIN opened : parsed[opened[k]].depth = k
        /\ \A k, l \in DOMAIN opened : k < l => opened[k] < opened[l]
    BY <1>5 DEF StackHolds
  <2> HIDE DEF L
  <2>2. QED BY <1>3, <2>1
<1>7. /\ parsed[i].depth = L /\ parsed[i].tail \in BOOLEAN /\ i \in Nat
      /\ outer \in 0..(capture.at - 1)
      /\ (has <=> parsed[i].tail /\ i # 1)
  <2>1. L \in 1..L /\ i \in 1..Len(parsed)
    BY <1>3, <1>4
  <2>2. parsed[i].depth = L /\ (i = 1 <=> L = 1) /\ parsed[i].tail \in BOOLEAN
    BY <1>3, <1>4, <1>6, <2>1
  <2>3. L # 1 => L - 1 \in 1..L
    <3>1. L \in Nat \ {0}
      BY <1>3
    <3> HIDE DEF L
    <3>2. QED BY <3>1
  <2>4. outer \in 0..(capture.at - 1) /\ (outer = 0 <=> L = 1)
    <3>1. CASE L = 1
      <4>1. outer = 0 /\ capture.at - 1 \in Nat
        BY <1>3, <3>1
      <4>2. QED BY <3>1, <4>1
    <3>2. CASE L # 1
      <4>1. outer = opened[L - 1]
        BY <3>2
      <4>2. opened[L - 1] \in 1..(capture.at - 1)
        BY <1>3, <2>3, <3>2
      <4> HIDE DEF outer
      <4>3. QED BY <1>3, <3>2, <4>1, <4>2
    <3>3. QED BY <3>1, <3>2
  <2>5. QED BY <2>1, <2>2, <2>4
<1> HIDE DEF has, outer
<1>8. PICK x \in nodes : x.of = i /\ x.slot = "element"
  BY <1>3, <1>5 DEF RowsHold
<1> DEFINE y == [x EXCEPT !.end = SubtreeEnd(o)]
<1>9. /\ y.of = i /\ y.slot = "element" /\ y.pre = x.pre /\ y.end = o - 1 /\ y.parent = x.parent
      /\ y.ordinal = x.ordinal /\ o - 1 \in Nat /\ y \in NodeRows /\ x.pre <= o - 1
      /\ t.of = i /\ t.slot = "tail" /\ t.pre = o /\ t.end = o /\ t.parent = outer
      /\ t.ordinal = Children(outer) /\ t \in NodeRows
  <2>1. x \in NodeRows /\ x.pre \in Nat /\ x.pre < o
    BY <1>3, <1>5, <1>8 DEF NodesTyped
  <2>2. o - 1 \in Nat /\ x.pre <= o - 1
    BY <1>3, <2>1
  <2>3. /\ y.of = i /\ y.slot = "element" /\ y.pre = x.pre /\ y.end = o - 1 /\ y.parent = x.parent
        /\ y.ordinal = x.ordinal /\ y \in NodeRows
    BY <1>8, <2>1, <2>2 DEF SubtreeEnd, NodeRows
  <2>4. Children(outer) \in Nat /\ outer \in Nat
    BY <1>3, <1>7
  <2>5. /\ t.of = i /\ t.slot = "tail" /\ t.pre = o /\ t.end = o /\ t.parent = outer
        /\ t.ordinal = Children(outer) /\ t \in NodeRows
    BY <1>3, <1>7, <2>4 DEF NodeOf, NodeRows, Slots
  <2>6. QED BY <2>2, <2>3, <2>5
<1>10. \A n \in nodes : EndedAs(n) = IF n = x THEN y ELSE n
  BY <1>5, <1>8 DEF RowsHold
<1> HIDE DEF EndedAs, y, t
<1> DEFINE left == (nodes \ {x}) \cup {y}
<1>11. nodes' = left \cup (IF has THEN {t} ELSE {})
  <2>1. {EndedAs(n) : n \in nodes} = left
    BY <1>8, <1>10
  <2>2. QED BY <1>1, <2>1
<1>12. /\ \A n \in nodes : n # x => n \in nodes'
       /\ y \in nodes' /\ (has => t \in nodes')
       /\ \A n \in nodes' : (n \in nodes /\ n # x) \/ n = y \/ (has /\ n = t)
  BY <1>11
<1>13. (has => capture'.order = o + 1) /\ (~has => capture'.order = o)
  BY <1>2
<1> HIDE DEF i, o
<1>14. /\ Len(opened') = L - 1 /\ DOMAIN opened' = 1..(L - 1)
       /\ (\A k \in 1..(L - 1) : opened'[k] = opened[k])
       /\ opened' \in Seq(1..(capture.at - 1))
  <2>1. opened' = SubSeq(opened, 1, L - 1)
    BY <1>1 DEF Front
  <2>2. 1 \in Int /\ L - 1 \in Int /\ \A k \in 1..(L - 1) : opened[k] \in 1..(capture.at - 1)
    BY <1>3
  <2> HIDE DEF L
  <2>3. /\ opened' \in Seq(1..(capture.at - 1))
        /\ Len(opened') = IF 1 <= L - 1 THEN (L - 1) - 1 + 1 ELSE 0
        /\ \A k \in 1..((L - 1) - 1 + 1) : opened'[k] = opened[1 + k - 1]
    BY <2>1, <2>2, SubSeqProperties
  <2>4. (L - 1) - 1 + 1 = L - 1 /\ \A k \in 1..(L - 1) : 1 + k - 1 = k
    BY <1>3
  <2>5. QED BY <1>3, <2>3, <2>4
<1>15. OpenElements' = OpenElements \ {i}
  <2>1. OpenElements' = {opened'[k] : k \in 1..(L - 1)}
    BY <1>14 DEF OpenElements, ToSet
  <2>2. ASSUME NEW k \in 1..(L - 1) PROVE opened'[k] \in OpenElements \ {i}
    <3>1. k \in 1..L /\ L \in 1..L /\ k < L
      BY <1>3
    <3>2. opened[k] < opened[L] /\ opened[k] \in Nat
      BY <1>3, <1>6, <3>1
    <3>3. opened[k] # i /\ opened[k] \in OpenElements
      BY <1>3, <3>1, <3>2
    <3>4. QED BY <1>14, <3>3
  <2>3. ASSUME NEW j \in OpenElements, j # i PROVE j \in OpenElements'
    <3>1. PICK k \in 1..L : j = opened[k]
      <4>1. OpenElements = {opened[k] : k \in 1..L}
        BY <1>3
      <4> HIDE DEF L
      <4>2. QED BY <2>3, <4>1
    <3>2. k # L
      <4>1. i = opened[L]
        BY <1>3
      <4>2. QED BY <2>3, <3>1, <4>1
    <3>3. k \in 1..(L - 1)
      <4>1. L \in Nat \ {0}
        BY <1>3
      <4> HIDE DEF L
      <4>2. QED BY <3>1, <3>2, <4>1
    <3>4. QED BY <1>14, <2>1, <3>1, <3>3
  <2>4. QED BY <2>1, <2>2, <2>3
<1>16. NodesTyped'
  <2>1. IsFiniteSet(nodes')
    <3>1. IsFiniteSet(nodes \ {x})
      BY <1>5, FS_Subset DEF NodesTyped
    <3>2. IsFiniteSet(left)
      BY <3>1, FS_AddElement
    <3>3. IsFiniteSet(left \cup {t})
      BY <3>2, FS_AddElement
    <3>4. QED BY <1>11, <3>2, <3>3
  <2>2. nodes' \subseteq NodeRows
    BY <1>5, <1>9, <1>12 DEF NodesTyped
  <2>3. ASSUME NEW n \in nodes'
        PROVE  n.of \in 1..(capture.at - 1) /\ n.parent \in 0..(capture.at - 1) /\ n.pre < capture'.order
    <3>1. ASSUME NEW r \in nodes
          PROVE  r.of \in 1..(capture.at - 1) /\ r.parent \in 0..(capture.at - 1) /\ r.pre < capture'.order
      BY <1>3, <1>5, <1>13 DEF NodesTyped
    <3>2. CASE n \in nodes
      BY <3>1, <3>2
    <3>3. CASE n = y
      BY <1>3, <1>8, <1>9, <3>1, <3>3
    <3>4. CASE has /\ n = t
      BY <1>3, <1>7, <1>9, <1>13, <3>4, SMTT(30)
    <3>5. QED BY <1>12, <3>2, <3>3, <3>4
  <2>4. DocumentOrder(parsed') /\ capture'.at \in 1..(Len(parsed') + 1)
    BY <1>1, <1>2, <1>5 DEF NodesTyped
  <2>5. capture'.order \in Nat
    BY <1>3, <1>13
  <2>6. QED BY <1>2, <2>1, <2>2, <2>3, <2>4, <2>5 DEF NodesTyped
<1>17. StackHolds'
  <2>1. ASSUME NEW k \in 1..(L - 1) PROVE k \in 1..L
    BY <1>3
  <2>2. \A k \in DOMAIN opened' : parsed[opened'[k]].depth = k
    BY <1>6, <1>14, <2>1
  <2>3. \A k, l \in DOMAIN opened' : k < l => opened'[k] < opened'[l]
    BY <1>6, <1>14, <2>1
  <2>4. capture.at <= Len(parsed) => parsed[capture.at].depth <= Len(opened') + 1
    BY <1>2, <1>3, <1>4, <1>14
  <2>5. QED BY <1>1, <1>2, <1>14, <2>2, <2>3, <2>4 DEF StackHolds
<1>18. RowsHold'
  <2>1. ASSUME NEW n \in nodes'
        PROVE  /\ n.slot = "text" => parsed[n.of].text
               /\ n.slot = "tail" => parsed[n.of].tail /\ n.of # 1 /\ n.of \notin OpenElements'
    <3>1. CASE n \in nodes
      BY <1>5, <1>15, <3>1 DEF RowsHold
    <3>2. CASE n = y
      BY <1>9, <3>2
    <3>3. CASE has /\ n = t
      BY <1>7, <1>9, <1>15, <3>3
    <3>4. QED BY <1>12, <3>1, <3>2, <3>3
  <2>2. ASSUME NEW j \in 1..(capture.at - 1)
        PROVE  /\ \E n \in nodes' : n.of = j /\ n.slot = "element"
               /\ parsed[j].text => \E n \in nodes' : n.of = j /\ n.slot = "text"
               /\ parsed[j].tail /\ j # 1 /\ j \notin OpenElements' => \E n \in nodes' : n.of = j /\ n.slot = "tail"
    <3>1. \E n \in nodes' : n.of = j /\ n.slot = "element"
      BY <1>5, <1>8, <1>9, <1>12 DEF RowsHold
    <3>2. parsed[j].text => \E n \in nodes' : n.of = j /\ n.slot = "text"
      BY <1>5, <1>8, <1>12 DEF RowsHold
    <3>3. ASSUME parsed[j].tail, j # 1, j \notin OpenElements' PROVE \E n \in nodes' : n.of = j /\ n.slot = "tail"
      <4>1. CASE j = i
        BY <1>7, <1>9, <1>12, <3>3, <4>1
      <4>2. CASE j # i
        BY <1>5, <1>8, <1>12, <1>15, <3>3, <4>2 DEF RowsHold
      <4>3. QED BY <4>1, <4>2
    <3>4. QED BY <3>1, <3>2, <3>3
  <2>3. ASSUME NEW m \in nodes', NEW n \in nodes', m.of = n.of, m.slot = n.slot PROVE m = n
    <3>1. \A r \in nodes' : \/ r \in nodes /\ r # x /\ ~(r.of = i /\ r.slot \in {"tail", "element"})
                            \/ r = y
                            \/ has /\ r = t
      BY <1>3, <1>5, <1>8, <1>12 DEF RowsHold
    <3>2. CASE m \in nodes /\ n \in nodes
      BY <1>5, <2>3, <3>2 DEF RowsHold
    <3>3. CASE m \notin nodes \/ n \notin nodes
      BY <1>9, <2>3, <3>1, <3>3
    <3>4. QED BY <3>2, <3>3
  <2>4. QED BY <1>1, <1>2, <2>1, <2>2, <2>3 DEF RowsHold
<1>19. OrderHolds'
  <2>1. ASSUME NEW k \in 0..(capture'.order - 1) PROVE \E n \in nodes' : n.pre = k
    <3>1. CASE k \in 0..(o - 1)
      <4>1. PICK n \in nodes : n.pre = k
        BY <1>5, <3>1 DEF OrderHolds, o
      <4>2. QED BY <1>9, <1>12, <4>1
    <3>2. CASE has /\ k = o
      BY <1>9, <1>12, <3>2
    <3>3. QED BY <1>3, <1>13, <3>1, <3>2
  <2>2. ASSUME NEW m \in nodes', NEW n \in nodes'
        PROVE  /\ m.pre = n.pre => m = n
               /\ m.slot = "element" /\ n.slot = "element" /\ m.of < n.of => m.pre < n.pre
    <3>1. \A r \in nodes' : \/ r \in nodes /\ r # x /\ r.pre # x.pre /\ r.pre \in Nat /\ r.pre < o
                            \/ r = y
                            \/ has /\ r = t
      BY <1>3, <1>5, <1>8, <1>12 DEF OrderHolds
    <3>2. m.pre = n.pre => m = n
      <4>1. CASE m \in nodes /\ n \in nodes
        BY <1>5, <4>1 DEF OrderHolds
      <4>2. CASE m = t \/ n = t
        BY <1>3, <1>9, <3>1, <4>2
      <4>3. CASE m = y \/ n = y
        BY <1>3, <1>9, <3>1, <4>3
      <4>4. QED BY <3>1, <4>1, <4>2, <4>3
    <3>3. ASSUME m.slot = "element", n.slot = "element", m.of < n.of PROVE m.pre < n.pre
      <4>1. ASSUME NEW r \in nodes', r.slot = "element"
            PROVE  \E q \in nodes : q.of = r.of /\ q.slot = "element" /\ q.pre = r.pre
        BY <1>8, <1>9, <1>12, <4>1
      <4>2. QED BY <1>5, <3>3, <4>1 DEF OrderHolds
    <3>4. QED BY <3>2, <3>3
  <2>3. QED BY <2>1, <2>2 DEF OrderHolds
<1>20. SpansHold'
  <2> DEFINE SpanOf(m) ==
        IF m.of \in OpenElements' THEN \A j \in m.of..(capture.at - 1) : InElement(parsed, m.of, j)
        ELSE /\ m.pre <= m.end /\ m.end < capture'.order
             /\ \A n \in nodes' : n.slot = "element" =>
                   (InElement(parsed, m.of, n.of) <=> m.pre <= n.pre /\ n.pre <= m.end)
             /\ \A j \in capture.at..Len(parsed) : ~InElement(parsed, m.of, j)
  <2>1. ASSUME NEW r \in nodes', r.slot = "element"
        PROVE  \E q \in nodes : q.of = r.of /\ q.slot = "element" /\ q.pre = r.pre
    BY <1>8, <1>9, <1>12, <2>1
  <2>2. SpanOf(y)
    <3>1. \A j \in i..(capture.at - 1) : InElement(parsed, i, j)
      BY <1>3, <1>5, <1>8 DEF SpansHold, SpanHolds
    <3>2. ASSUME NEW n \in nodes', n.slot = "element"
          PROVE  InElement(parsed, i, n.of) <=> y.pre <= n.pre /\ n.pre <= y.end
      <4>1. PICK q \in nodes : q.of = n.of /\ q.slot = "element" /\ q.pre = n.pre
        BY <2>1, <3>2
      <4>2. q.of \in 1..(capture.at - 1) /\ q.pre \in Nat /\ q.pre <= o - 1 /\ x.pre \in Nat
        BY <1>3, <1>8
      <4>3. CASE i <= q.of
        <5>1. InElement(parsed, i, n.of)
          BY <1>3, <1>7, <3>1, <4>1, <4>2, <4>3
        <5>2. x.pre <= q.pre
          <6>1. CASE i = q.of
            BY <1>5, <1>8, <4>1, <4>2, <6>1 DEF RowsHold
          <6>2. CASE i < q.of
            BY <1>5, <1>8, <4>1, <4>2, <6>2 DEF OrderHolds
          <6>3. QED BY <1>7, <4>2, <4>3, <6>1, <6>2
        <5>3. QED BY <1>9, <4>1, <4>2, <5>1, <5>2
      <4>4. CASE ~(i <= q.of)
        <5>1. ~InElement(parsed, i, n.of)
          BY <4>1, <4>4 DEF InElement
        <5>2. q.pre < x.pre
          BY <1>5, <1>7, <1>8, <4>1, <4>2, <4>4 DEF OrderHolds
        <5>3. QED BY <1>9, <4>1, <4>2, <5>1, <5>2
      <4>5. QED BY <4>3, <4>4
    <3>3. ASSUME NEW j \in capture.at..Len(parsed) PROVE ~InElement(parsed, i, j)
      <4>1. capture.at \in (i + 1)..j /\ capture.at \in 1..Len(parsed)
        BY <1>3, <1>4
      <4>2. ~(parsed[capture.at].depth > parsed[i].depth)
        BY <1>2, <1>7, <4>1
      <4>3. QED BY <4>1, <4>2 DEF InElement
    <3>4. y.pre <= y.end /\ y.end < capture'.order /\ y.of = i /\ i \notin OpenElements'
      BY <1>3, <1>9, <1>13, <1>15
    <3>5. QED BY <3>2, <3>3, <3>4
  <2>3. ASSUME NEW m \in nodes, m # x, m.slot = "element" PROVE SpanOf(m)
    <3>1. m.of # i
      BY <1>5, <1>8, <2>3 DEF RowsHold
    <3>2. CASE m.of \in OpenElements
      BY <1>5, <1>15, <2>3, <3>1, <3>2 DEF SpansHold, SpanHolds
    <3>3. CASE m.of \notin OpenElements
      <4>1. /\ m.pre <= m.end /\ m.end < o
            /\ \A n \in nodes : n.slot = "element" =>
                  (InElement(parsed, m.of, n.of) <=> m.pre <= n.pre /\ n.pre <= m.end)
            /\ \A j \in capture.at..Len(parsed) : ~InElement(parsed, m.of, j)
        BY <1>5, <2>3, <3>3 DEF SpansHold, SpanHolds, o
      <4>2. m.end < capture'.order
        BY <1>3, <1>13, <4>1
      <4>3. \A n \in nodes' : n.slot = "element" =>
                (InElement(parsed, m.of, n.of) <=> m.pre <= n.pre /\ n.pre <= m.end)
        BY <2>1, <4>1
      <4>4. QED BY <1>15, <3>3, <4>1, <4>2, <4>3
    <3>4. QED BY <3>2, <3>3
  <2>4. ASSUME NEW m \in nodes', m.slot = "element" PROVE SpanOf(m)
    <3>1. (m \in nodes /\ m # x) \/ m = y
      BY <1>9, <1>12, <2>4
    <3>2. QED BY <2>2, <2>3, <2>4, <3>1
  <2>5. QED BY <1>1, <1>2, <2>4 DEF SpansHold, SpanHolds
<1>21. NodeTextsHold'
  <2>1. ASSUME NEW d \in nodes', NEW r \in nodes', d.slot = "element", r.of = d.of
        PROVE  (r.slot = "text" => r.pre = d.pre + 1) /\ (r.slot = "tail" => r.pre = d.end + 1)
    <3>1. (d \in nodes /\ d # x /\ d.of # i) \/ d = y
      BY <1>5, <1>8, <1>9, <1>12, <2>1 DEF RowsHold
    <3>2. (r \in nodes /\ r # x) \/ r = y \/ (has /\ r = t)
      BY <1>12
    <3>3. CASE d \in nodes /\ d.of # i
      <4>1. r \in nodes
        BY <1>9, <2>1, <3>2, <3>3
      <4>2. QED BY <1>5, <2>1, <3>3, <4>1 DEF NodeTextsHold
    <3>4. CASE d = y
      <4>1. CASE r \in nodes
        <5>1. r.slot # "tail"
          BY <1>3, <1>5, <1>9, <2>1, <3>4, <4>1 DEF RowsHold
        <5>2. r.slot = "text" => r.pre = x.pre + 1
          BY <1>5, <1>8, <1>9, <2>1, <3>4, <4>1 DEF NodeTextsHold
        <5>3. QED BY <1>9, <3>4, <5>1, <5>2
      <4>2. CASE r = y
        BY <1>9, <4>2
      <4>3. CASE r = t
        BY <1>3, <1>9, <3>4, <4>3
      <4>4. QED BY <3>2, <4>1, <4>2, <4>3
    <3>5. QED BY <3>1, <3>3, <3>4
  <2>2. QED BY <2>1 DEF NodeTextsHold
<1>22. Counted(nodes')
  <2>1. IsFiniteSet(nodes)
    BY <1>5 DEF NodesTyped
  <2>2. y \notin nodes \ {x}
    BY <1>5, <1>8, <1>9 DEF RowsHold
  <2>3. Counted(left) /\ IsFiniteSet(left) /\ ChildrenIn(left, outer) = ChildrenIn(nodes, outer)
    BY <1>5, <1>8, <1>9, <2>1, <2>2, CountedEnded
  <2>4. ASSUME NEW n \in left PROVE n.pre \in Nat /\ n.pre < t.pre /\ n.ordinal \in Nat
    BY <1>3, <1>8, <1>9
  <2>5. t.ordinal = ChildrenIn(left, t.parent) /\ t.pre \in Nat
    BY <1>3, <1>9, <2>3
  <2> HIDE DEF left
  <2>6. Counted(left \cup {t})
    BY <2>3, <2>4, <2>5, CountedLast
  <2>7. QED BY <1>11, <2>3, <2>6
<1>23. QED BY <1>16, <1>17, <1>18, <1>19, <1>20, <1>21, <1>22 DEF WalkInv

----------------------------------------------------------------------------
(* The capture: the recorded source is what was read *)

CapturePhases == {"new", "hashed", "read", "walk", "resolved", "captured", "failed"}
BookShape ==
    book = [resources |-> book.resources, spine |-> book.spine, docs |-> book.docs, entries |-> book.entries,
            occurrences |-> book.occurrences, links |-> book.links, issues |-> book.issues,
            navigation |-> book.navigation]
CapturedDocs(source) ==
    [nodes : SUBSET NodeRows, elements : {source.docs[d] : d \in DOMAIN source.docs},
     anchors : {AnchorsOf(source.docs[d]) : d \in DOMAIN source.docs},
     pictures : SUBSET (Nat \X Resources(source))]

\* A change is seen: the path then leads away from the source for good, so what was read while it
\* leads to the source is the source.
ChangesSeen ==
    /\ file \in Files /\ disk = [is |-> disk.is, changes |-> disk.changes] /\ disk.changes \in Nat
    /\ disk.is \in DOMAIN file /\ CaptureShape /\ capture.phase \in CapturePhases /\ BookShape
    /\ capture.phase \notin {"new", "failed"} /\ disk.is # 1 => disk.changes # 0
    /\ capture.phase \in {"new", "hashed"} => capture.doc = 1 /\ book.docs = <<>> /\ book.entries = {}
    /\ capture.phase = "captured" => disk.is = 1

\* The members before the one to be read are captured.
MembersCounted(source) ==
    /\ capture.handle = 1 /\ capture.names = Len(source.docs) /\ capture.ncx = Len(source.ncx)
    /\ book.resources = Resources(source) /\ book.spine = source.spine
    /\ capture.doc \in Nat \ {0} /\ capture.doc <= capture.names + capture.ncx + 1
    /\ Len(book.docs) = IF capture.doc <= capture.names THEN capture.doc - 1 ELSE capture.names
MembersRead(source) ==
    /\ book.docs \in Seq(CapturedDocs(source))
    /\ \A d \in DOMAIN book.docs :
        /\ book.docs[d].elements = source.docs[d] /\ book.docs[d].anchors = AnchorsOf(source.docs[d])
        /\ source.docs[d] # <<>> /\ Faithful(source.docs[d], book.docs[d].nodes)
    /\ book.entries = UNION {ContentsOf(d, MemberOf(source, d)) : d \in 1..(capture.doc - 1)}
DocsHold(source) == MembersCounted(source) /\ MembersRead(source)

LinkLeads(source, d, i) ==
    \E l \in book.links : /\ l.of = <<d, i>> /\ LeadsRight(source, d, source.docs[d][i].href, l.target)
                          /\ l.target.state = "unresolved" => \E s \in book.issues : s.of = l.of
EntryLeads(source, d, i) ==
    \E n \in book.navigation : /\ n.at = <<d, i>> /\ n.above = EntryAbove(MemberOf(source, d), i)
                               /\ LeadsRight(source, d, MemberOf(source, d)[i].entry, n.target)
LinksLead(source) ==
    /\ capture.doc = capture.names + capture.ncx + 1 /\ book.occurrences = source.spine
    /\ \A d \in DOMAIN source.docs : \A i \in HrefsOf(source.docs[d]) : LinkLeads(source, d, i)
    /\ \A d \in 1..(Len(source.docs) + Len(source.ncx)) : \A i \in EntriesOf(MemberOf(source, d)) :
           EntryLeads(source, d, i)

SourceRead(source) ==
    /\ capture.phase \in {"read", "walk", "resolved", "captured"} => DocsHold(source)
    /\ capture.phase = "walk" =>
         /\ capture.doc <= capture.names /\ parsed = source.docs[capture.doc] /\ parsed # <<>> /\ WalkInv
    /\ capture.phase \in {"resolved", "captured"} => LinksLead(source)

CaptureInv == ChangesSeen /\ (disk.is = 1 => SourceRead(file[1]))

\* The file changes once at most while it is captured.
OneExchange == FileChanges <= 1

\* Counting documents and NCX files.
LEMMA Counting ==
    \A n, m \in Nat : \A d \in Nat :
        /\ 1 <= n + m + 1 /\ (n + m + 1) - 1 = n + m
        /\ n < d /\ d <= n + m => d + 1 <= n + m + 1 /\ ~(d + 1 <= n) /\ ~(d <= n) /\ d + 1 \in Nat \ {0}
        /\ d > n + m => ~(d <= n)
        /\ d > n + m /\ d <= n + m + 1 => d = n + m + 1
        /\ d = n + m + 1 => ~(d <= n)
  OBVIOUS

LEMMA OneLess == \A n, m \in Nat : (n + m + 1) - 1 = n + m
  OBVIOUS

\* What is known of a capture is known of its archives and its numbers.
LEMMA MembersStay ==
    ASSUME NEW source, DocsHold(source), book'.docs = book.docs, book'.entries = book.entries,
           book'.resources = book.resources, book'.spine = book.spine,
           capture'.handle = capture.handle, capture'.names = capture.names, capture'.ncx = capture.ncx,
           capture'.doc = capture.doc
    PROVE  DocsHold(source)'
<1>1. MembersCounted(source)'
  BY DEF DocsHold, MembersCounted
<1>2. MembersRead(source)'
  BY DEF DocsHold, MembersRead
<1>3. QED BY <1>1, <1>2 DEF DocsHold

LEMMA LinksStay ==
    ASSUME NEW source, LinksLead(source), UNCHANGED book, capture'.names = capture.names,
           capture'.ncx = capture.ncx, capture'.doc = capture.doc
    PROVE  LinksLead(source)'
  BY DEF LinksLead, LinkLeads, EntryLeads

\* Nothing is read of a file that was not hashed.
LEMMA CaptureBegins == CaptureInit => CaptureInv
<1> SUFFICES ASSUME CaptureInit PROVE CaptureInv
  OBVIOUS
<1>1. ChangesSeen
  BY DEF CaptureInit, NoBook, ChangesSeen, CaptureShape, BookShape, CapturePhases
<1>2. QED BY <1>1 DEF CaptureInit, CaptureInv, SourceRead

\* The documents of the recorded source are in document order.
LEMMA SourceOrdered ==
    ASSUME file \in Files, 1 \in DOMAIN file
    PROVE  /\ Len(file[1].docs) \in Nat /\ DOMAIN file[1].docs = 1..Len(file[1].docs)
           /\ Len(file[1].ncx) \in Nat /\ DOMAIN file[1].ncx = 1..Len(file[1].ncx)
           /\ \A d \in 1..Len(file[1].docs) : DocumentOrder(file[1].docs[d])
<1> DEFINE docs == file[1].docs
           ncx == file[1].ncx
           S == {docs[d] : d \in DOMAIN docs}
           T == {ncx[k] : k \in DOMAIN ncx}
<1>1. docs \in Seq(S) /\ (\A d \in DOMAIN docs : DocumentOrder(docs[d])) /\ ncx \in Seq(T)
  BY CaptureAssumption DEF CaptureAssumption
<1> HIDE DEF docs, S, ncx, T
<1>2. Len(docs) \in Nat /\ DOMAIN docs = 1..Len(docs) /\ Len(ncx) \in Nat /\ DOMAIN ncx = 1..Len(ncx)
  BY <1>1
<1>3. QED BY <1>1, <1>2 DEF docs, ncx

\* The id of several elements is that of the last.
LEMMA Anchored ==
    ASSUME NEW doc, DocumentOrder(doc), NEW f \in DOMAIN AnchorsOf(doc)
    PROVE  AnchorsOf(doc)[f] \in DOMAIN doc /\ f \in doc[AnchorsOf(doc)[f]].ids
<1> DEFINE Bears == {i \in DOMAIN doc : f \in doc[i].ids}
           From == {n \in Nat : \A j \in Bears : j <= n}
           Is(i) == f \in doc[i].ids /\ \A j \in DOMAIN doc : f \in doc[j].ids => j <= i
<1>1. Len(doc) \in Nat /\ DOMAIN doc = 1..Len(doc)
  BY DocumentOrdered
<1>2. f \in UNION {doc[i].ids : i \in DOMAIN doc}
  BY DEF AnchorsOf
<1>3. PICK b \in DOMAIN doc : f \in doc[b].ids
  BY <1>2
<1>4. PICK m \in From : \A n \in From : m <= n
  <2>1. Len(doc) \in From /\ From \in SUBSET Nat
    BY <1>1
  <2>2. QED BY <2>1, NatMinimum
<1>5. m \in Bears
  <2>1. SUFFICES ASSUME m \notin Bears PROVE FALSE
    OBVIOUS
  <2>2. \A j \in Bears : j \in Nat \ {0} /\ j <= m /\ j # m
    BY <1>1, <1>4, <2>1
  <2>3. m \in Nat \ {0}
    BY <1>3, <1>4, <2>2
  <2>4. m - 1 \in From
    BY <2>2, <2>3
  <2>5. QED BY <1>4, <2>3, <2>4
<1>6. m \in DOMAIN doc /\ Is(m)
  BY <1>4, <1>5
<1>7. AnchorsOf(doc)[f] = CHOOSE i \in DOMAIN doc : Is(i)
  BY <1>2 DEF AnchorsOf
<1> HIDE DEF Is
<1>8. (CHOOSE i \in DOMAIN doc : Is(i)) \in DOMAIN doc /\ Is(CHOOSE i \in DOMAIN doc : Is(i))
  BY <1>6
<1>9. QED BY <1>7, <1>8 DEF Is

\* What is found of an address in the captured documents is what the source has.
LEMMA Found ==
    ASSUME file \in Files, 1 \in DOMAIN file, DocsHold(file[1]), capture.doc > capture.names + capture.ncx,
           NEW path, NEW f
    PROVE  /\ DOMAIN book.docs = DOMAIN file[1].docs /\ DOMAIN file[1].docs \subseteq Resources(file[1])
           /\ path \notin DOMAIN file[1].docs => Destination(path, f) = {}
           /\ path \in DOMAIN file[1].docs =>
                \/ \E i \in DOMAIN file[1].docs[path] :
                     /\ Destination(path, f) = {<<path, i>>}
                     /\ IF f = NoFragment THEN i = 1 ELSE f \in file[1].docs[path][i].ids
                \/ Destination(path, f) = {} /\ f # NoFragment /\ Bearers(file[1].docs[path], f) = {}
<1> DEFINE source == file[1]
           doc == source.docs[path]
           anchors == book.docs[path].anchors
<1>1. /\ Len(source.docs) \in Nat /\ DOMAIN source.docs = 1..Len(source.docs) /\ Len(source.ncx) \in Nat
      /\ \A c \in 1..Len(source.docs) : DocumentOrder(source.docs[c])
  BY SourceOrdered
<1>2. DOMAIN book.docs = DOMAIN source.docs
  <2>1. DOMAIN book.docs = 1..Len(book.docs)
    BY DEF DocsHold, MembersRead
  <2>2. Len(book.docs) = Len(source.docs)
    <3>1. /\ capture.names = Len(source.docs) /\ capture.ncx \in Nat /\ capture.names \in Nat /\ capture.doc \in Nat
          /\ Len(book.docs) = IF capture.doc <= capture.names THEN capture.doc - 1 ELSE capture.names
      BY <1>1 DEF DocsHold, MembersCounted
    <3>2. ~(capture.doc <= capture.names)
      BY <3>1
    <3>3. QED BY <3>1, <3>2
  <2>3. QED BY <1>1, <2>1, <2>2
<1>3. DOMAIN source.docs \subseteq Resources(source)
  <2>1. ASSUME NEW n \in Nat, NEW m \in Nat PROVE 1..n \subseteq 1..(n + m)
    OBVIOUS
  <2>2. 1..Len(source.docs) \subseteq 1..(Len(source.docs) + Len(source.ncx))
    BY <1>1, <2>1
  <2>3. QED BY <1>1, <2>2 DEF Resources
<1>4. CASE path \notin DOMAIN source.docs
  BY <1>2, <1>3, <1>4 DEF Destination
<1>5. CASE path \in DOMAIN source.docs
  <2>1. DocumentOrder(doc) /\ doc # <<>> /\ anchors = AnchorsOf(doc)
    BY <1>1, <1>2, <1>5 DEF DocsHold, MembersRead
  <2>2. Len(doc) \in Nat /\ DOMAIN doc = 1..Len(doc)
    BY <2>1, DocumentOrdered
  <2>3. CASE f = NoFragment
    <3>1. Destination(path, f) = {<<path, 1>>}
      BY <1>2, <1>5, <2>3 DEF Destination
    <3>2. 1 \in DOMAIN doc
      <4>1. doc \in Seq({doc[i] : i \in DOMAIN doc})
        BY <2>1 DEF DocumentOrder
      <4>2. Len(doc) # 0
        BY <2>1, <4>1
      <4>3. QED BY <2>2, <4>2
    <3>3. QED BY <1>2, <1>3, <1>5, <2>3, <3>1, <3>2
  <2>4. CASE f # NoFragment
    <3>1. Destination(path, f) = {<<path, anchors[g]>> : g \in {f} \cap DOMAIN anchors}
      BY <1>2, <1>5, <2>4 DEF Destination
    <3>2. CASE f \in DOMAIN anchors
      <4>1. anchors[f] \in DOMAIN doc /\ f \in doc[anchors[f]].ids
        BY <2>1, <3>2, Anchored
      <4>2. Destination(path, f) = {<<path, anchors[f]>>}
        BY <3>1, <3>2
      <4>3. QED BY <1>2, <1>3, <1>5, <2>4, <4>1, <4>2
    <3>3. CASE f \notin DOMAIN anchors
      <4>1. Destination(path, f) = {}
        BY <3>1, <3>3
      <4>2. Bearers(doc, f) = {}
        BY <2>1, <3>3 DEF AnchorsOf, Bearers
      <4>3. QED BY <1>2, <1>3, <1>5, <2>4, <4>1, <4>2
    <3>4. QED BY <3>2, <3>3
  <2>5. QED BY <2>3, <2>4
<1>6. QED BY <1>4, <1>5

\* An address of the captured documents leads where it does in the source.
LEMMA Resolves ==
    ASSUME file \in Files, 1 \in DOMAIN file, DocsHold(file[1]), capture.doc > capture.names + capture.ncx,
           NEW base, NEW href
    PROVE  LeadsRight(file[1], base, href, Resolve(base, href))
<1> DEFINE source == file[1]
           f == href[2]
           docs == source.docs
<1>1. PICK path : path = PathOf(base, href)
  OBVIOUS
<1>2. PICK places : places = Destination(path, f)
  OBVIOUS
<1>3. /\ docs = source.docs /\ book.resources = Resources(source) /\ DOMAIN docs \subseteq Resources(source)
      /\ path \notin DOMAIN docs => places = {}
      /\ path \in DOMAIN docs =>
           \/ \E i \in DOMAIN docs[path] : places = {<<path, i>>} /\ IF f = NoFragment THEN i = 1 ELSE f \in docs[path][i].ids
           \/ places = {} /\ f # NoFragment /\ Bearers(docs[path], f) = {}
  BY <1>2, Found DEF DocsHold, MembersCounted
<1>4. PICK target : target = Resolve(base, href)
  OBVIOUS
<1>5. /\ target.state = IF path = External THEN "external"
                        ELSE IF path \notin Resources(source) THEN "unresolved"
                        ELSE IF places # {} THEN "resolved_node"
                        ELSE IF f = NoFragment THEN "resolved_resource" ELSE "unresolved"
      /\ target.state = "resolved_node" => target.at = places
  BY <1>1, <1>2, <1>3, <1>4 DEF Resolve
<1> DEFINE absent == \/ path \notin Resources(source)
                     \/ f # NoFragment /\ (path \in DOMAIN docs => Bearers(docs[path], f) = {})
<1>6. target.state = "external" <=> path = External
  BY <1>5
<1>7. path \in DOMAIN docs /\ f # NoFragment => (places = {} <=> Bearers(docs[path], f) = {})
  BY <1>3 DEF Bearers
<1>8. target.state = "unresolved" <=> path # External /\ absent
  <2>1. CASE path \notin Resources(source)
    BY <1>5, <2>1
  <2>2. CASE path \in Resources(source) /\ path \in DOMAIN docs
    <3>1. CASE f = NoFragment
      <4>1. places # {}
        BY <1>3, <2>2, <3>1
      <4>2. QED BY <1>5, <2>2, <3>1, <4>1
    <3>2. CASE f # NoFragment
      BY <1>5, <1>7, <2>2, <3>2
    <3>3. QED BY <3>1, <3>2
  <2>3. CASE path \in Resources(source) /\ path \notin DOMAIN docs
    BY <1>3, <1>5, <2>3
  <2>4. QED BY <2>1, <2>2, <2>3
<1>9. target.state = "resolved_resource" => path \notin DOMAIN docs
  <2>1. target.state = "resolved_resource" => places = {} /\ f = NoFragment
    BY <1>5
  <2>2. QED BY <1>3, <2>1
<1>10. target.state = "resolved_node" => path \in DOMAIN docs /\ \E i \in DOMAIN docs[path] :
           target.at = {<<path, i>>} /\ IF f = NoFragment THEN i = 1 ELSE f \in docs[path][i].ids
  <2>1. target.state = "resolved_node" => places # {} /\ target.at = places
    BY <1>5
  <2>2. QED BY <1>3, <2>1
<1> HIDE DEF docs
<1>11. LeadsRight(source, base, href, target)
  BY <1>1, <1>3, <1>6, <1>8, <1>9, <1>10 DEF LeadsRight
<1>12. QED BY <1>4, <1>11

\* A capture that waits keeps what it read.
LEMMA SourceStays ==
    ASSUME CaptureInv, UNCHANGED captureVars
    PROVE  CaptureInv'
<1>1. UNCHANGED <<file, disk, book, capture>> /\ UNCHANGED <<capture, parsed, opened, nodes>>
  BY DEF captureVars
<1>2. WalkInv => WalkInv'
  BY <1>1, WalkStays
<1>3. ChangesSeen'
  BY <1>1 DEF CaptureInv, ChangesSeen, CaptureShape, BookShape
<1>4. ASSUME NEW source, SourceRead(source) PROVE SourceRead(source)'
  <2>1. DocsHold(source) => DocsHold(source)'
    BY <1>1, MembersStay
  <2>2. LinksLead(source) => LinksLead(source)'
    BY <1>1, LinksStay
  <2>3. QED BY <1>1, <1>2, <1>4, <2>1, <2>2 DEF SourceRead
<1>5. disk.is = 1 /\ SourceRead(file[1]) => SourceRead(file[1])'
  BY <1>1, <1>4
<1>6. QED BY <1>1, <1>3, <1>5 DEF CaptureInv

ReadingStep ==
    \/ HashSource \/ OpenArchive \/ ParseDocument \/ EnterElement \/ LeaveElement \/ EndDocument
    \/ ReadNcx \/ ResolveBook \/ HashAgain

\* What is read of an archive keeps what is known of changes.
LEMMA ReadingKeeps ==
    ASSUME CaptureInv, ReadingStep
    PROVE  /\ ChangesSeen' /\ disk' = disk /\ file' = file
           /\ disk.is = 1 => SourceRead(file[1]) /\ 1 \in DOMAIN file
<1>1. ChangesSeen
  BY DEF CaptureInv
<1>2. disk' = disk /\ file' = file
  BY DEF ReadingStep, HashSource, OpenArchive, ParseDocument, EnterElement, LeaveElement, EndDocument, ReadNcx,
         ResolveBook, HashAgain
<1>3. disk.is = 1 => SourceRead(file[1]) /\ 1 \in DOMAIN file
  BY DEF CaptureInv, ChangesSeen
<1>4. CaptureShape' /\ capture'.phase \in CapturePhases /\ capture.phase # "failed"
      /\ (capture'.phase = "captured" => disk.is = 1)
      /\ (capture.phase = "new" => capture'.phase \in {"hashed", "failed"})
      /\ (capture'.phase = "hashed" => disk.is = 1 /\ capture'.doc = 1)
      /\ capture'.phase # "new"
  BY <1>1 DEF ReadingStep, ChangesSeen, CaptureShape, CapturePhases, Phase, HashSource, OpenArchive, ParseDocument,
              EnterElement, LeaveElement, EndDocument, ReadNcx, ResolveBook, HashAgain
<1>5. BookShape' /\ (capture'.phase = "hashed" => book' = book /\ capture.phase = "new")
  <2>1. CASE HashSource \/ ParseDocument \/ EnterElement \/ LeaveElement \/ HashAgain
    <3>1. book' = book /\ (capture'.phase = "hashed" => capture.phase = "new")
      BY <1>1, <2>1 DEF ChangesSeen, CaptureShape, Phase, HashSource, ParseDocument, EnterElement, LeaveElement,
                        HashAgain
    <3>2. QED BY <1>1, <3>1 DEF ChangesSeen, BookShape
  <2>2. CASE OpenArchive
    <3>1. \/ book' = book /\ capture' = Phase("failed")
          \/ /\ book' = [book EXCEPT !.resources = Resources(file[disk.is]), !.spine = file[disk.is].spine]
             /\ capture'.phase = "read"
      BY <1>1, <2>2 DEF ChangesSeen, CaptureShape, Phase, OpenArchive
    <3>2. capture' = Phase("failed") => capture'.phase = "failed"
      BY <1>1 DEF ChangesSeen, CaptureShape, Phase
    <3>3. BookShape'
      BY <1>1, <3>1 DEF ChangesSeen, BookShape
    <3>4. QED BY <3>1, <3>2, <3>3
  <2>3. CASE EndDocument
    BY <1>1, <2>3 DEF ChangesSeen, CaptureShape, BookShape, Phase, EndDocument
  <2>4. CASE ReadNcx
    BY <1>1, <2>4 DEF ChangesSeen, CaptureShape, BookShape, Phase, ReadNcx
  <2>5. CASE ResolveBook
    BY <1>1, <2>5 DEF ChangesSeen, CaptureShape, BookShape, Phase, ResolveBook
  <2>6. QED BY <2>1, <2>2, <2>3, <2>4, <2>5 DEF ReadingStep
<1>6. QED BY <1>1, <1>2, <1>3, <1>4, <1>5 DEF ChangesSeen

\* A capture that fails promises nothing.
LEMMA FailureReads ==
    ASSUME ChangesSeen, capture' = Phase("failed")
    PROVE  SourceRead(file[1])'
<1>1. capture'.phase = "failed"
  BY DEF ChangesSeen, CaptureShape, Phase
<1>2. QED BY <1>1 DEF SourceRead

\* The archive that is opened is the source if the path still leads to it.
LEMMA OpenReads ==
    ASSUME CaptureInv, OpenArchive, disk.is = 1
    PROVE  SourceRead(file[1])'
<1> DEFINE source == file[1]
<1>1. /\ ChangesSeen /\ capture.phase = "hashed" /\ capture.doc = 1 /\ book.docs = <<>> /\ book.entries = {}
      /\ 1 \in DOMAIN file /\ file \in Files
  BY DEF CaptureInv, ChangesSeen, OpenArchive
<1>2. CASE ~source.sound
  BY <1>1, <1>2, FailureReads DEF OpenArchive
<1>3. CASE source.sound
  <2>1. capture' = [Phase("read") EXCEPT !.handle = 1, !.names = Len(source.docs), !.ncx = Len(source.ncx)]
        /\ book' = [book EXCEPT !.resources = Resources(source), !.spine = source.spine] /\ file' = file
    BY <1>3 DEF OpenArchive
  <2>2. /\ capture'.phase = "read" /\ capture'.handle = 1 /\ capture'.names = Len(source.docs)
        /\ capture'.ncx = Len(source.ncx) /\ capture'.doc = 1
    BY <1>1, <2>1 DEF Phase, ChangesSeen, CaptureShape
  <2>3. /\ book'.docs = <<>> /\ book'.entries = {} /\ book'.resources = Resources(source)
        /\ book'.spine = source.spine
    BY <1>1, <2>1 DEF ChangesSeen, BookShape
  <2>4. Len(source.docs) \in Nat /\ Len(source.ncx) \in Nat
    BY <1>1, SourceOrdered
  <2>5. UNION {ContentsOf(d, MemberOf(source, d)) : d \in 1..(1 - 1)} = {}
    OBVIOUS
  <2>6. DocsHold(source)'
    <3>1. MembersCounted(source)'
      <4>1. Len(book'.docs) = 0 /\ (1 <= Len(source.docs) => 1 - 1 = 0) /\ (~(1 <= Len(source.docs)) => Len(source.docs) = 0)
        BY <2>3, <2>4
      <4>2. 1 \in Nat \ {0} /\ 1 <= Len(source.docs) + Len(source.ncx) + 1
        <5>1. 1 \in Nat \ {0}
          OBVIOUS
        <5>2. QED BY <2>4, <5>1, Counting, Zenon
      <4>3. QED BY <2>1, <2>2, <2>3, <4>1, <4>2 DEF MembersCounted
    <3>2. MembersRead(source)'
      <4>1. book'.docs \in Seq(CapturedDocs(source)) /\ DOMAIN book'.docs = {}
        BY <2>3
      <4>2. QED BY <2>1, <2>2, <2>3, <2>5, <4>1 DEF MembersRead, CapturedDocs, Resources
    <3>3. QED BY <3>1, <3>2 DEF DocsHold
  <2>7. QED BY <2>2, <2>6 DEF SourceRead
<1>4. QED BY <1>2, <1>3

\* The document that is parsed is the next of the source.
LEMMA ParseReads ==
    ASSUME CaptureInv, ParseDocument, disk.is = 1
    PROVE  SourceRead(file[1])'
<1> DEFINE source == file[1]
<1>1. /\ ChangesSeen /\ capture.phase = "read" /\ capture.doc <= capture.names /\ DocsHold(source)
      /\ 1 \in DOMAIN file /\ file \in Files
  BY DEF CaptureInv, ChangesSeen, ParseDocument, SourceRead
<1>2. /\ Len(source.docs) \in Nat /\ DOMAIN source.docs = 1..Len(source.docs)
      /\ \A d \in 1..Len(source.docs) : DocumentOrder(source.docs[d])
  BY <1>1, SourceOrdered
<1>3. Archive = source
  BY <1>1 DEF Archive, DocsHold, MembersCounted
<1>4. CASE ~Readable(source.docs, capture.doc)
  BY <1>1, <1>3, <1>4, FailureReads DEF ParseDocument
<1>5. CASE Readable(source.docs, capture.doc)
  <2>1. /\ parsed' = source.docs[capture.doc] /\ capture' = [Phase("walk") EXCEPT !.at = 1, !.order = 0]
        /\ opened' = <<>> /\ nodes' = {} /\ file' = file /\ book' = book
    BY <1>3, <1>5 DEF ParseDocument
  <2>2. /\ capture'.phase = "walk" /\ capture'.at = 1 /\ capture'.order = 0 /\ capture'.doc = capture.doc
        /\ capture'.names = capture.names /\ capture'.ncx = capture.ncx /\ capture'.handle = capture.handle
    BY <1>1, <2>1 DEF ChangesSeen, CaptureShape, Phase
  <2>3. capture.doc \in DOMAIN source.docs /\ source.docs[capture.doc] # <<>>
    BY <1>5 DEF Readable
  <2>4. WalkInv'
    BY <1>2, <2>1, <2>2, <2>3, WalkBegins
  <2>5. DocsHold(source)'
    BY <1>1, <2>1, <2>2, MembersStay
  <2>6. QED BY <1>1, <2>1, <2>2, <2>3, <2>4, <2>5 DEF SourceRead
<1>6. QED BY <1>4, <1>5

\* A step of the walk keeps what was read.
LEMMA WalkReads ==
    ASSUME CaptureInv, EnterElement \/ LeaveElement, disk.is = 1
    PROVE  SourceRead(file[1])'
<1> DEFINE source == file[1]
<1>1. /\ ChangesSeen /\ capture.phase = "walk" /\ DocsHold(source) /\ capture.doc <= capture.names
      /\ parsed = source.docs[capture.doc] /\ parsed # <<>> /\ WalkInv /\ CaptureShape
  BY DEF CaptureInv, ChangesSeen, EnterElement, LeaveElement, SourceRead
<1>2. WalkInv'
  BY <1>1, EnterKeeps, LeaveKeeps, SMTT(30)
<1>3. /\ capture'.phase = "walk" /\ capture'.doc = capture.doc /\ capture'.names = capture.names
      /\ capture'.ncx = capture.ncx /\ capture'.handle = capture.handle
      /\ file' = file /\ book' = book /\ parsed' = parsed
  BY <1>1 DEF EnterElement, LeaveElement, CaptureShape
<1>4. DocsHold(source)'
  BY <1>1, <1>3, MembersStay
<1>5. QED BY <1>1, <1>2, <1>3, <1>4 DEF SourceRead

\* The entries of one member more.
LEMMA EntriesRead ==
    ASSUME NEW source, NEW d \in Nat \ {0}, NEW entries,
           entries = UNION {ContentsOf(c, MemberOf(source, c)) : c \in 1..(d - 1)}
    PROVE  entries \cup ContentsOf(d, MemberOf(source, d))
           = UNION {ContentsOf(c, MemberOf(source, c)) : c \in 1..((d + 1) - 1)}
<1>1. 1..((d + 1) - 1) = 1..(d - 1) \cup {d}
  OBVIOUS
<1>2. QED BY <1>1

\* A document that was walked to its end is captured.
LEMMA EndReads ==
    ASSUME CaptureInv, EndDocument, disk.is = 1
    PROVE  SourceRead(file[1])'
<1> DEFINE source == file[1]
           taken == [nodes |-> nodes, elements |-> parsed, anchors |-> AnchorsOf(parsed),
                     pictures |-> PicturesOf(capture.doc, parsed)]
           S == CapturedDocs(source)
<1>1. /\ ChangesSeen /\ capture.phase = "walk" /\ DocsHold(source) /\ capture.doc <= capture.names
      /\ parsed = source.docs[capture.doc] /\ parsed # <<>> /\ WalkInv /\ CaptureShape /\ BookShape
      /\ 1 \in DOMAIN file /\ file \in Files
  BY DEF CaptureInv, ChangesSeen, EndDocument, SourceRead
<1>2. CASE Reconstructed # BodyText(parsed)
  BY <1>1, <1>2, FailureReads DEF EndDocument
<1>3. CASE Reconstructed = BodyText(parsed)
  <2>1. /\ book' = [book EXCEPT !.docs = Append(@, taken), !.entries = @ \cup ContentsOf(capture.doc, parsed)]
        /\ capture' = [Phase("read") EXCEPT !.doc = @ + 1] /\ file' = file
    BY <1>3 DEF EndDocument
  <2>2. /\ capture'.phase = "read" /\ capture'.doc = capture.doc + 1 /\ capture'.names = capture.names
        /\ capture'.ncx = capture.ncx /\ capture'.handle = capture.handle
    BY <1>1, <2>1 DEF Phase, CaptureShape
  <2>3. /\ book'.docs = Append(book.docs, taken) /\ book'.entries = book.entries \cup ContentsOf(capture.doc, parsed)
        /\ book'.resources = book.resources /\ book'.spine = book.spine
    BY <1>1, <2>1 DEF BookShape
  <2>4. Faithful(parsed, nodes)
    BY <1>1, WalkEnds DEF EndDocument
  <2>5. /\ Len(source.docs) \in Nat /\ DOMAIN source.docs = 1..Len(source.docs) /\ Len(source.ncx) \in Nat
        /\ DocumentOrder(parsed)
    BY <1>1, SourceOrdered DEF WalkInv, NodesTyped
  <2>6. /\ book.docs \in Seq(S) /\ capture.doc = Len(book.docs) + 1 /\ Len(book.docs) \in Nat
        /\ capture.names = Len(source.docs) /\ DOMAIN book.docs = 1..Len(book.docs)
        /\ capture.doc \in Nat \ {0} /\ capture.ncx = Len(source.ncx)
    <3>1. book.docs \in Seq(S) /\ capture.doc \in Nat \ {0} /\ capture.doc <= capture.names + capture.ncx + 1
          /\ Len(book.docs) = capture.doc - 1 /\ capture.names = Len(source.docs) /\ capture.ncx = Len(source.ncx)
      BY <1>1 DEF DocsHold, MembersCounted, MembersRead
    <3> HIDE DEF S
    <3>2. Len(book.docs) \in Nat /\ DOMAIN book.docs = 1..Len(book.docs)
      BY <3>1
    <3>3. QED BY <2>5, <3>1, <3>2
  <2>7. taken \in S
    <3>1. capture.doc \in DOMAIN source.docs
      BY <1>1, <2>5, <2>6
    <3>2. nodes \in SUBSET NodeRows
      BY <1>1 DEF WalkInv, NodesTyped
    <3>3. PicturesOf(capture.doc, parsed) \in SUBSET (Nat \X Resources(source))
      <4>1. DOMAIN parsed \subseteq Nat /\ book.resources = Resources(source)
        BY <1>1, <2>5, DocumentOrdered DEF DocsHold, MembersCounted
      <4>2. QED BY <4>1 DEF PicturesOf, HrefsOf
    <3>4. QED BY <1>1, <3>1, <3>2, <3>3 DEF CapturedDocs
  <2>8. /\ taken.nodes = nodes /\ taken.elements = source.docs[capture.doc]
        /\ taken.anchors = AnchorsOf(source.docs[capture.doc])
    BY <1>1
  <2> HIDE DEF taken, S
  <2>9. /\ book'.docs \in Seq(S) /\ Len(book'.docs) = Len(book.docs) + 1
        /\ DOMAIN book'.docs = 1..(Len(book.docs) + 1)
        /\ (\A d \in 1..Len(book.docs) : book'.docs[d] = book.docs[d]) /\ book'.docs[Len(book.docs) + 1] = taken
    BY <2>3, <2>6, <2>7
  <2>10. ASSUME NEW d \in 1..(Len(book.docs) + 1)
         PROVE  /\ book'.docs[d].elements = source.docs[d] /\ book'.docs[d].anchors = AnchorsOf(source.docs[d])
                /\ source.docs[d] # <<>> /\ Faithful(source.docs[d], book'.docs[d].nodes)
    <3>1. CASE d \in 1..Len(book.docs)
      BY <1>1, <2>6, <2>9, <3>1 DEF DocsHold, MembersRead
    <3>2. CASE d = Len(book.docs) + 1
      BY <1>1, <2>4, <2>6, <2>8, <2>9, <3>2
    <3>3. QED BY <2>6, <3>1, <3>2
  <2>11. MembersCounted(source)'
    <3>1. capture.names \in Nat /\ capture.ncx \in Nat /\ capture.doc \in Nat \ {0} /\ capture.doc <= capture.names
      BY <1>1, <2>5, <2>6
    <3>2. capture.doc + 1 \in Nat \ {0} /\ capture.doc + 1 <= capture.names + capture.ncx + 1
      BY <3>1
    <3>3. Len(book'.docs) = capture.doc
      BY <2>6, <2>9
    <3>4. capture.doc = IF capture.doc + 1 <= capture.names THEN (capture.doc + 1) - 1 ELSE capture.names
      BY <3>1
    <3>5. MembersCounted(source)
      BY <1>1 DEF DocsHold
    <3>6. QED BY <2>1, <2>2, <2>3, <3>2, <3>3, <3>4, <3>5 DEF MembersCounted
  <2>12. book'.entries = UNION {ContentsOf(d, MemberOf(source, d)) : d \in 1..(capture'.doc - 1)}
    <3>1. MemberOf(source, capture.doc) = parsed /\ capture.doc \in Nat \ {0}
      BY <1>1, <2>6 DEF MemberOf
    <3>2. book.entries = UNION {ContentsOf(d, MemberOf(source, d)) : d \in 1..(capture.doc - 1)}
      BY <1>1 DEF DocsHold, MembersRead
    <3>3. QED BY <2>2, <2>3, <3>1, <3>2, EntriesRead
  <2>13. MembersRead(source)'
    BY <2>1, <2>9, <2>10, <2>12 DEF MembersRead, S
  <2>14. QED BY <2>2, <2>11, <2>13 DEF SourceRead, DocsHold
<1>4. QED BY <1>2, <1>3

\* The older contents are read after the documents.
LEMMA NcxReads ==
    ASSUME CaptureInv, ReadNcx, disk.is = 1
    PROVE  SourceRead(file[1])'
<1> DEFINE source == file[1]
           k == capture.doc - capture.names
<1>1. /\ ChangesSeen /\ capture.phase = "read" /\ capture.names < capture.doc /\ DocsHold(source)
      /\ capture.doc <= capture.names + capture.ncx
      /\ CaptureShape /\ BookShape /\ 1 \in DOMAIN file /\ file \in Files
  BY DEF CaptureInv, ChangesSeen, ReadNcx, SourceRead
<1>2. Archive = source
  BY <1>1 DEF Archive, DocsHold, MembersCounted
<1>3. CASE ~Readable(source.ncx, k)
  BY <1>1, <1>2, <1>3, FailureReads DEF ReadNcx
<1>4. CASE Readable(source.ncx, k)
  <2>1. /\ book' = [book EXCEPT !.entries = @ \cup ContentsOf(capture.doc, source.ncx[k])]
        /\ capture' = [capture EXCEPT !.doc = @ + 1] /\ file' = file
    BY <1>2, <1>4 DEF ReadNcx
  <2>2. /\ capture'.phase = "read" /\ capture'.doc = capture.doc + 1 /\ capture'.names = capture.names
        /\ capture'.ncx = capture.ncx /\ capture'.handle = capture.handle
    BY <1>1, <2>1 DEF CaptureShape
  <2>3. /\ book'.docs = book.docs /\ book'.entries = book.entries \cup ContentsOf(capture.doc, source.ncx[k])
        /\ book'.resources = book.resources /\ book'.spine = book.spine
    BY <1>1, <2>1 DEF BookShape
  <2>4. /\ Len(source.docs) \in Nat /\ Len(source.ncx) \in Nat /\ capture.names = Len(source.docs)
        /\ capture.ncx = Len(source.ncx) /\ capture.doc \in Nat \ {0}
        /\ book.entries = UNION {ContentsOf(d, MemberOf(source, d)) : d \in 1..(capture.doc - 1)}
        /\ MembersCounted(source) /\ MembersRead(source)
    BY <1>1, SourceOrdered DEF DocsHold, MembersCounted, MembersRead
  <2>5. MemberOf(source, capture.doc) = source.ncx[k] /\ capture.doc \in Nat \ {0}
    BY <1>1, <2>4 DEF MemberOf
  <2>6. book'.entries = UNION {ContentsOf(d, MemberOf(source, d)) : d \in 1..(capture'.doc - 1)}
    BY <2>2, <2>3, <2>4, <2>5, EntriesRead
  <2>7. MembersCounted(source)'
    <3>1. /\ capture.doc + 1 \in Nat \ {0} /\ capture.doc + 1 <= capture.names + capture.ncx + 1
          /\ ~(capture.doc + 1 <= capture.names) /\ ~(capture.doc <= capture.names)
      <4>1. capture.names \in Nat /\ capture.ncx \in Nat /\ capture.doc \in Nat
        BY <2>4
      <4>2. QED BY <1>1, <4>1, Counting, Zenon
    <3>2. QED BY <2>1, <2>2, <2>3, <2>4, <3>1 DEF MembersCounted
  <2>8. MembersRead(source)'
    BY <2>1, <2>3, <2>4, <2>6 DEF MembersRead
  <2>9. QED BY <2>2, <2>7, <2>8 DEF SourceRead, DocsHold
<1>5. QED BY <1>3, <1>4

\* Links and contents are resolved among all documents of the source.
LEMMA LinksRead ==
    ASSUME CaptureInv, ResolveBook, disk.is = 1
    PROVE  SourceRead(file[1])'
<1> DEFINE source == file[1]
           unresolved == {k \in Links : k.target.state = "unresolved"}
           navigation == {[at |-> e.at, above |-> e.above, target |-> Resolve(e.at[1], e.href)] : e \in book.entries}
<1>1. /\ ChangesSeen /\ capture.phase = "read" /\ DocsHold(source) /\ capture.doc > capture.names + capture.ncx
      /\ CaptureShape /\ BookShape /\ 1 \in DOMAIN file /\ file \in Files
  BY DEF CaptureInv, ChangesSeen, ResolveBook, SourceRead
<1>2. file' = file
  BY DEF ResolveBook
<1>3. CASE capture' = Phase("failed")
  BY <1>1, <1>3, FailureReads
<1>4. CASE /\ capture' = Phase("resolved")
           /\ book' = [book EXCEPT !.occurrences = book.spine, !.links = Links,
                                   !.issues = {IssueOf(l) : l \in unresolved}, !.navigation = navigation]
  <2>1. /\ capture'.phase = "resolved" /\ capture'.doc = capture.doc /\ capture'.names = capture.names
        /\ capture'.ncx = capture.ncx /\ capture'.handle = capture.handle
    BY <1>1, <1>4 DEF CaptureShape, Phase
  <2>2. /\ book'.docs = book.docs /\ book'.entries = book.entries /\ book'.resources = book.resources
        /\ book'.spine = book.spine /\ book'.occurrences = book.spine /\ book'.links = Links
        /\ book'.issues = {IssueOf(l) : l \in unresolved} /\ book'.navigation = navigation
    BY <1>1, <1>4 DEF BookShape
  <2>3. DocsHold(source)'
    BY <1>1, <1>2, <2>1, <2>2, MembersStay
  <2>4. /\ Len(source.docs) \in Nat /\ Len(source.ncx) \in Nat
        /\ capture.names = Len(source.docs) /\ capture.ncx = Len(source.ncx) /\ book.spine = source.spine
        /\ capture.doc = capture.names + capture.ncx + 1
        /\ book.entries = UNION {ContentsOf(d, MemberOf(source, d)) : d \in 1..(capture.doc - 1)}
    <3>1. MembersCounted(source) /\ MembersRead(source) /\ Len(source.docs) \in Nat /\ Len(source.ncx) \in Nat
      BY <1>1, SourceOrdered DEF DocsHold
    <3>2. capture.doc \in Nat /\ capture.names \in Nat /\ capture.ncx \in Nat /\ capture.doc <= capture.names + capture.ncx + 1
      BY <3>1 DEF MembersCounted
    <3>3. capture.doc = capture.names + capture.ncx + 1
      BY <1>1, <3>2
    <3>4. QED BY <3>1, <3>3 DEF MembersCounted, MembersRead
  <2>5. capture'.doc = capture'.names + capture'.ncx + 1
    BY <2>1, <2>4
  <2>6. ASSUME NEW d \in DOMAIN source.docs, NEW i \in HrefsOf(source.docs[d])
        PROVE  \E l \in book'.links : /\ l.of = <<d, i>> /\ LeadsRight(source, d, source.docs[d][i].href, l.target)
                                      /\ l.target.state = "unresolved" => \E s \in book'.issues : s.of = l.of
    <3>1. d \in DOMAIN book.docs /\ book.docs[d].elements = source.docs[d]
      BY <1>1, Found DEF DocsHold, MembersRead
    <3>2. PICK l : l = LinkOf(d, i)
      OBVIOUS
    <3>3. l \in Links
      BY <3>1, <3>2 DEF Links
    <3>4. l.of = <<d, i>> /\ l.target = Resolve(d, source.docs[d][i].href)
      BY <3>1, <3>2 DEF LinkOf
    <3>5. LeadsRight(source, d, source.docs[d][i].href, l.target)
      BY <1>1, <3>4, Resolves
    <3>6. l.target.state = "unresolved" => IssueOf(l) \in book'.issues /\ IssueOf(l).of = l.of
      BY <2>2, <3>3 DEF IssueOf
    <3>7. QED BY <2>2, <3>3, <3>4, <3>5, <3>6
  <2>7. ASSUME NEW d \in 1..(Len(source.docs) + Len(source.ncx)), NEW i \in EntriesOf(MemberOf(source, d))
        PROVE  \E n \in book'.navigation : /\ n.at = <<d, i>> /\ n.above = EntryAbove(MemberOf(source, d), i)
                                           /\ LeadsRight(source, d, MemberOf(source, d)[i].entry, n.target)
    <3> DEFINE doc == MemberOf(source, d)
               e == [at |-> <<d, i>>, above |-> EntryAbove(doc, i), href |-> doc[i].entry]
    <3>1. e \in ContentsOf(d, doc)
      BY DEF ContentsOf
    <3>2. d \in 1..(capture.doc - 1)
      <4>1. (Len(source.docs) + Len(source.ncx) + 1) - 1 = Len(source.docs) + Len(source.ncx)
        BY <2>4, OneLess, Zenon
      <4>2. capture.doc = Len(source.docs) + Len(source.ncx) + 1
        BY <2>4, Zenon
      <4>3. QED BY <4>1, <4>2, Zenon
    <3>3. e \in book.entries
      BY <2>4, <3>1, <3>2
    <3>4. PICK n : n = [at |-> e.at, above |-> e.above, target |-> Resolve(e.at[1], e.href)]
      OBVIOUS
    <3>5. n \in book'.navigation
      BY <2>2, <3>3, <3>4
    <3>6. n.at = <<d, i>> /\ n.above = EntryAbove(doc, i) /\ n.target = Resolve(d, doc[i].entry)
      BY <3>4
    <3>7. LeadsRight(source, d, doc[i].entry, n.target)
      BY <1>1, <3>6, Resolves
    <3>8. QED BY <3>5, <3>6, <3>7
  <2>8. LinksLead(source)'
    <3>1. ASSUME NEW d \in DOMAIN file'[1].docs, NEW i \in HrefsOf(file'[1].docs[d])
          PROVE  LinkLeads(file[1], d, i)'
      BY <1>2, <2>6, <3>1 DEF LinkLeads
    <3>2. ASSUME NEW d \in 1..(Len(file'[1].docs) + Len(file'[1].ncx)), NEW i \in EntriesOf(MemberOf(file'[1], d))
          PROVE  EntryLeads(file[1], d, i)'
      BY <1>2, <2>7, <3>2 DEF EntryLeads
    <3>3. book'.occurrences = file'[1].spine
      BY <1>2, <2>2, <2>4
    <3>4. QED BY <2>5, <3>1, <3>2, <3>3 DEF LinksLead
  <2>9. QED BY <1>2, <2>1, <2>3, <2>8 DEF SourceRead
<1>5. QED BY <1>3, <1>4 DEF ResolveBook

\* The hashes keep what was read.
LEMMA HashReads ==
    ASSUME CaptureInv, HashSource \/ HashAgain, disk.is = 1
    PROVE  SourceRead(file[1])'
<1>1. ChangesSeen /\ CaptureShape /\ SourceRead(file[1])
  BY DEF CaptureInv, ChangesSeen
<1>2. CASE HashSource
  <2>1. capture'.phase = "hashed"
    BY <1>1, <1>2 DEF HashSource, Phase, CaptureShape
  <2>2. QED BY <2>1 DEF SourceRead
<1>3. CASE HashAgain
  <2>1. /\ capture.phase = "resolved" /\ capture'.phase = "captured" /\ file' = file /\ book' = book
        /\ capture'.doc = capture.doc /\ capture'.names = capture.names /\ capture'.ncx = capture.ncx
        /\ capture'.handle = capture.handle
    BY <1>1, <1>3 DEF HashAgain, Phase, CaptureShape
  <2>2. DocsHold(file[1]) /\ LinksLead(file[1])
    BY <1>1, <2>1 DEF SourceRead
  <2>3. DocsHold(file[1])' /\ LinksLead(file[1])'
    <3>1. DocsHold(file[1])'
      BY <2>1, <2>2, MembersStay
    <3>2. LinksLead(file[1])'
      <4>1. ASSUME NEW source, LinksLead(source) PROVE LinksLead(source)'
        BY <2>1, <4>1, LinksStay
      <4>2. LinksLead(file[1]) => LinksLead(file[1])'
        BY <2>1, <4>1
      <4>3. QED BY <2>2, <4>2
    <3>3. QED BY <3>1, <3>2
  <2>4. QED BY <2>1, <2>3 DEF SourceRead
<1>4. QED BY <1>2, <1>3

\* A file that was changed does not become what it was.
LEMMA ChangeKeeps ==
    ASSUME CaptureInv, ChangeSource, OneExchange
    PROVE  CaptureInv'
<1>1. ChangesSeen /\ CaptureShape /\ disk.changes = 0 /\ capture.phase \notin {"captured", "failed"}
  BY CaptureAssumption DEF CaptureInv, ChangesSeen, ChangeSource, OneExchange, CaptureAssumption
<1>2. PICK i \in DOMAIN file \ {disk.is} : disk' = [is |-> i, changes |-> disk.changes + 1]
  BY DEF ChangeSource
<1>3. /\ disk'.is = i /\ i # disk.is /\ disk'.changes = 1 /\ file' = file /\ book' = book
      /\ disk' = [is |-> disk'.is, changes |-> disk'.changes]
  BY <1>1, <1>2 DEF ChangeSource
<1>4. capture.phase \in {"new"} \/ disk.is = 1
  BY <1>1 DEF ChangesSeen
<1>5. /\ capture'.phase \in CapturePhases /\ CaptureShape' /\ capture'.doc = capture.doc
      /\ capture'.phase # "failed" => capture'.phase = capture.phase
  BY <1>1 DEF ChangeSource, ChangesSeen, CaptureShape, Phase, CapturePhases
<1>6. ChangesSeen'
  BY <1>1, <1>3, <1>5 DEF ChangesSeen, BookShape
<1>7. disk'.is = 1 => SourceRead(file[1])'
  <2>1. disk'.is = 1 => capture.phase = "new"
    BY <1>3, <1>4
  <2>2. capture.phase = "new" => capture'.phase \in {"new", "failed"}
    BY <1>5
  <2>3. QED BY <2>1, <2>2 DEF SourceRead
<1>8. QED BY <1>6, <1>7 DEF CaptureInv

\* The inductive step: reading keeps what was read, a change is seen.
LEMMA CaptureStep ==
    ASSUME CaptureInv, [CaptureNext]_captureVars, OneExchange
    PROVE  CaptureInv'
<1>1. CASE ChangeSource
  BY <1>1, ChangeKeeps
<1>2. CASE UNCHANGED captureVars
  BY <1>2, SourceStays
<1>3. ASSUME ReadingStep
      PROVE  CaptureInv'
  <2>1. ChangesSeen' /\ disk' = disk /\ file' = file
    BY <1>3, ReadingKeeps
  <2>2. disk.is = 1 => SourceRead(file[1])'
    BY <1>3, OpenReads, ParseReads, WalkReads, EndReads, NcxReads, LinksRead, HashReads DEF ReadingStep
  <2>3. QED BY <2>1, <2>2 DEF CaptureInv
<1>4. QED BY <1>1, <1>2, <1>3 DEF CaptureNext, ReadingStep

\* For any archives whose documents are read once or more while the file changes once at most: what
\* is captured is the recorded source, every document node by node, and every link of it leads to an
\* element that bears the id it names, or says that it leads nowhere (book_capture.py:152, 744).
THEOREM SourceCaptured == CaptureSpec /\ OneExchange => []CapturesSource
<1>1. CaptureInit => CaptureInv
  BY CaptureBegins
<1>2. CaptureInv /\ [CaptureNext]_captureVars /\ OneExchange => CaptureInv'
  BY CaptureStep
<1>3. CaptureInv => CapturesSource
  <2> SUFFICES ASSUME CaptureInv, capture.phase = "captured" PROVE CapturesSource
    BY DEF CapturesSource
  <2> DEFINE source == file[1]
  <2>1. DocsHold(source) /\ LinksLead(source) /\ file \in Files /\ 1 \in DOMAIN file
    BY DEF CaptureInv, ChangesSeen, SourceRead
  <2>2. Len(source.docs) \in Nat /\ DOMAIN source.docs = 1..Len(source.docs) /\ Len(source.ncx) \in Nat
    BY <2>1, SourceOrdered
  <2>3. Len(book.docs) = Len(source.docs) /\ DOMAIN book.docs = 1..Len(book.docs)
    <3>1. /\ capture.names = Len(source.docs) /\ capture.ncx = Len(source.ncx)
          /\ capture.doc = capture.names + capture.ncx + 1 /\ book.docs \in Seq(CapturedDocs(source))
          /\ Len(book.docs) = IF capture.doc <= capture.names THEN capture.doc - 1 ELSE capture.names
      BY <2>1 DEF DocsHold, LinksLead, MembersCounted, MembersRead
    <3>2. ~(capture.doc <= capture.names)
      <4>1. capture.names \in Nat /\ capture.ncx \in Nat /\ capture.doc = capture.names + capture.ncx + 1
        BY <2>2, <3>1, Zenon
      <4>2. capture.doc \in Nat
        BY <4>1
      <4>3. QED BY <4>1, <4>2, Counting, Zenon
    <3>3. QED BY <3>1, <3>2
  <2>4. \A d \in DOMAIN source.docs : Faithful(source.docs[d], book.docs[d].nodes)
    BY <2>1, <2>2, <2>3 DEF DocsHold, MembersRead
  <2>5. QED BY <2>1, <2>3, <2>4 DEF CapturesSource, LinksLead, LinkLeads, EntryLeads
<1>4. OneExchange => []OneExchange
  <2>1. OneExchange => OneExchange'
    BY DEF OneExchange
  <2>2. QED BY <2>1, PTL
<1>5. QED BY <1>1, <1>2, <1>3, <1>4, PTL DEF CaptureSpec

----------------------------------------------------------------------------
(* The interpretation of a book: what is found in it, and where its links lead *)

PartKinds == STRING \cup {"ingredient_group", "method_group", "equipment", NoPart}
ReadStates == [ingredient : BOOLEAN, instruction : BOOLEAN, part : Nat \cup {NoPart},
               partKind : PartKinds, groups : Nat, ingredients : Nat, instructions : Nat]
Interpreting == [phase : {"none", "propose", "annotate", "read"}, runs : Nat,
                 at : 1..(Len(blocks) + 1), queue : SUBSET recipes, state : ReadStates,
                 parts : SUBSET parts, occurrences : SUBSET occurrences, added : SUBSET occurrences]

BookOfBlocks == blocks \in Seq(BlockType) /\ markup \in Profiles

RecipesKept ==
    /\ IsFiniteSet(recipes)
    /\ \A r \in recipes : r.id \in Nat /\ r.blocks \in SUBSET Indexes
    /\ \A r, s \in recipes : r.id = s.id => r = s
    /\ NoBlockShared \/ \E s \in Supported : s.recipes = recipes

\* While recipes are proposed those there are stand before the place that is reached.
ProposingHolds == build.phase = "propose" =>
    /\ build.queue = recipes /\ uses = {} /\ build.added = {} /\ NoBlockShared
    /\ \A r \in recipes : r.id < build.at /\ \A j \in r.blocks : j < build.at

OccurrencesKept ==
    /\ \A c \in occurrences : c.from \in Nat /\ c.to \in Nat
    /\ FoundApart
    /\ \A c \in build.added : \E j \in Indexes : c.from = Start(j)

MethodKinds == markup.kinds \ {"ingredient_group", "equipment"}

\* What is added of a recipe stands before the block that is read, and what stands there is found.
ReadingHolds == build.phase = "read" =>
    /\ build.queue # {}
    /\ build.at \in Reading.blocks \cup {Len(blocks) + 1}
    /\ \A c \in build.occurrences : c.recipe = Reading.id
    /\ \A c \in occurrences \ build.occurrences : c.recipe = Reading.id =>
          \E j \in BlocksBefore(Reading, build.at) : c.from = Start(j) /\ c.to = End(j) + 1
    /\ NoEquipment(Reading, build.at) => build.state.partKind # "equipment"
    /\ HasIngredient(Reading, build.at) /\ NoEquipment(Reading, build.at) => build.state.ingredient
    /\ InMethod(Reading, build.at) => build.state.partKind \in MethodKinds
    /\ \A i \in BlocksBefore(Reading, build.at) : FoundAt(Reading, i)

FoundWhole ==
    build.phase \in {"annotate", "read"} \/ Interpreted =>
        \A r \in recipes \ build.queue : \A i \in r.blocks : FoundAt(r, i)

UsesKept ==
    /\ recipes = {} => uses = {} /\ build.added = {}
    /\ build.phase = "none" => build.queue = {}
    /\ \A use \in uses : Resolved(use)

StructureInv ==
    /\ BookOfBlocks /\ build \in Interpreting
    /\ RecipesKept /\ ProposingHolds /\ OccurrencesKept /\ ReadingHolds /\ FoundWhole /\ UsesKept

\* The least of some numbers, or the default.
LEMMA LeastIn ==
    ASSUME NEW S \in SUBSET Nat, NEW default
    PROVE  /\ S = {} => LeastOf(S, default) = default
           /\ S # {} => LeastOf(S, default) \in S /\ \A j \in S : LeastOf(S, default) <= j
  BY NatMinimum DEF LeastOf

\* A finite set of natural numbers has a greatest one: the one with the fewest from it on.
LEMMA FiniteMaximum ==
    ASSUME NEW S \in SUBSET Nat, IsFiniteSet(S), S # {}
    PROVE  \E m \in S : \A n \in S : n <= m
<1> DEFINE From(x) == {y \in S : y >= x}
           Sizes == {Cardinality(From(x)) : x \in S}
<1>1. \A x \in S : IsFiniteSet(From(x)) /\ Cardinality(From(x)) \in Nat
  BY FS_Subset, FS_CardinalityType
<1>2. PICK k \in Sizes : \A n \in Sizes : k <= n
  <2>1. Sizes \in SUBSET Nat /\ Sizes # {}
    BY <1>1
  <2>2. QED BY <2>1, NatMinimum
<1>3. PICK m \in S : k = Cardinality(From(m))
  BY <1>2
<1>4. ASSUME NEW n \in S, ~(n <= m) PROVE FALSE
  <2>1. From(n) \subseteq From(m) /\ From(n) # From(m)
    <3>1. m \in Nat /\ n \in Nat
      OBVIOUS
    <3>2. m \in From(m) /\ m \notin From(n)
      BY <3>1, <1>4
    <3>3. \A y \in From(n) : y \in From(m)
      BY <3>1, <1>4
    <3>4. QED BY <3>2, <3>3
  <2>2. Cardinality(From(n)) < Cardinality(From(m))
    <3>1. IsFiniteSet(From(m)) /\ Cardinality(From(m)) \in Nat /\ Cardinality(From(n)) \in Nat
      BY <1>1
    <3> HIDE DEF From
    <3>2. Cardinality(From(n)) <= Cardinality(From(m)) /\ Cardinality(From(n)) # Cardinality(From(m))
      BY <2>1, <3>1, FS_Subset
    <3>3. QED BY <3>1, <3>2
  <2>3. Cardinality(From(n)) \in Sizes /\ Cardinality(From(m)) \in Nat /\ Cardinality(From(n)) \in Nat
    BY <1>1
  <2>4. k <= Cardinality(From(n))
    BY <2>3, <1>2
  <2>5. QED BY <2>2, <2>3, <2>4, <1>3
<1>5. QED BY <1>4

\* A recipe that is proposed at a title ends before the next one.
LEMMA Proposable ==
    ASSUME BookOfBlocks, NEW i \in Indexes
    PROVE  /\ NextStart(i) \in (i + 1)..(Len(blocks) + 1)
           /\ Bounded(i) => RecipeEnd(i) \in Nat /\ RecipeEnd(i) < NextStart(i)
<1>0. Len(blocks) \in Nat /\ Indexes = 1..Len(blocks) /\ i \in Nat
  BY DEF BookOfBlocks, Indexes
<1>1. NextStart(i) \in (i + 1)..(Len(blocks) + 1)
  <2> DEFINE S == {j \in Starts : j > i}
  <2>1. S \in SUBSET Nat /\ \A j \in S : j \in (i + 1)..Len(blocks)
    BY <1>0 DEF Starts
  <2>2. NextStart(i) = LeastOf(S, Len(blocks) + 1)
    BY DEF NextStart
  <2> HIDE DEF S
  <2>3. (S = {} => LeastOf(S, Len(blocks) + 1) = Len(blocks) + 1) /\ (S # {} => LeastOf(S, Len(blocks) + 1) \in S)
    BY <2>1, LeastIn
  <2>4. CASE S = {}
    BY <2>1, <2>2, <2>3, <2>4, <1>0
  <2>5. CASE S # {}
    <3>1. NextStart(i) \in (i + 1)..Len(blocks)
      BY <2>1, <2>2, <2>3, <2>5
    <3>2. QED BY <3>1, <1>0
  <2>6. QED BY <2>4, <2>5
<1>2. TitleEnd(i) \in Nat
  <2> DEFINE S == {j \in (i + 1)..NextStart(i) :
                 j = NextStart(i) \/ KindOf(j) # "title" \/ ~SameDocument(i, j)}
  <2>1. S \in SUBSET Nat
    BY <1>0, <1>1
  <2>2. TitleEnd(i) = LeastOf(S, NextStart(i))
    BY DEF TitleEnd
  <2> HIDE DEF S
  <2>3. (S = {} => LeastOf(S, NextStart(i)) = NextStart(i)) /\ (S # {} => LeastOf(S, NextStart(i)) \in S)
    BY <2>1, LeastIn
  <2>4. CASE S = {}
    BY <2>1, <2>2, <2>3, <2>4, <1>0, <1>1
  <2>5. CASE S # {}
    BY <2>1, <2>2, <2>3, <2>5, <1>0, <1>1
  <2>6. QED BY <2>4, <2>5
<1>3. WindowEnd(i) \in Nat /\ WindowEnd(i) <= NextStart(i)
  <2> DEFINE S == {j \in TitleEnd(i)..(NextStart(i) - 1) : KindOf(j) = "stop"}
  <2>1. S \in SUBSET Nat /\ \A j \in S : j <= NextStart(i)
    BY <1>0, <1>1, <1>2
  <2>2. WindowEnd(i) = LeastOf(S, NextStart(i))
    BY DEF WindowEnd
  <2> HIDE DEF S
  <2>3. (S = {} => LeastOf(S, NextStart(i)) = NextStart(i)) /\ (S # {} => LeastOf(S, NextStart(i)) \in S)
    BY <2>1, LeastIn
  <2>4. CASE S = {}
    BY <2>1, <2>2, <2>3, <2>4, <1>0, <1>1
  <2>5. CASE S # {}
    BY <2>1, <2>2, <2>3, <2>5, <1>0, <1>1
  <2>6. QED BY <2>4, <2>5
<1>4. ASSUME Bounded(i) PROVE RecipeEnd(i) \in Nat /\ RecipeEnd(i) < NextStart(i)
  <2> DEFINE R == Ingredients(i) \cup Methods(i)
  <2>1. R # {} /\ R \in SUBSET Nat /\ \A j \in R : i <= j /\ j <= WindowEnd(i) - 1
    BY <1>4, <1>0, <1>3 DEF Bounded, Ingredients, Methods
  <2>2. IsFiniteSet(R)
    <3>1. IsFiniteSet(i..WindowEnd(i))
      BY <1>0, <1>3, FS_Interval
    <3>0. R \subseteq i..WindowEnd(i)
      BY <2>1, <1>0, <1>3
    <3>2. QED BY <3>0, <3>1, FS_Subset
  <2>3. LastRecognized(i) \in R
    <3>1. \E m \in R : \A n \in R : n <= m
      BY <2>1, <2>2, FiniteMaximum
    <3>2. QED BY <3>1 DEF LastRecognized
  <2>4. LastRecognized(i) \in Nat /\ LastRecognized(i) <= WindowEnd(i) - 1
    BY <2>1, <2>3
  <2> DEFINE S == {j \in LastRecognized(i)..(WindowEnd(i) - 1) :
                      j + 1 = WindowEnd(i) \/ ~SameDocument(j, j + 1)}
  <2>5. RecipeEnd(i) = LastRecognized(i) \/ RecipeEnd(i) = LeastOf(S, LastRecognized(i))
    BY DEF RecipeEnd
  <2>6. S \in SUBSET Nat /\ \A j \in S : j <= WindowEnd(i) - 1
    BY <2>4, <1>3
  <2> HIDE DEF S
  <2>7. RecipeEnd(i) \in Nat /\ RecipeEnd(i) <= WindowEnd(i) - 1
    BY <2>4, <2>5, <2>6, LeastIn
  <2>8. QED BY <2>7, <1>3, <1>1
<1>5. QED BY <1>1, <1>4

\* The fields of a block.
LEMMA BlockFields ==
    ASSUME BookOfBlocks, NEW i \in Indexes
    PROVE  blocks[i].label \in STRING \cup {NoPart} /\ blocks[i].link \in Nat \cup {NoNode}
<1>1. blocks \in Seq(BlockType) /\ Indexes = DOMAIN blocks
  BY DEF BookOfBlocks, Indexes
<1>2. \A b \in BlockType : b.label \in STRING \cup {NoPart} /\ b.link \in Nat \cup {NoNode}
  BY DEF BlockType
<1> HIDE DEF BlockType
<1>3. blocks[i] \in BlockType
  BY <1>1
<1>4. QED BY <1>2, <1>3

\* The recipe that is read is one of those that wait.
LEMMA ReadingWaits ==
    ASSUME RecipesKept, build.queue \subseteq recipes, build.queue # {}
    PROVE  Reading \in build.queue
<1> DEFINE Ids == {r.id : r \in build.queue}
<1>1. Ids \in SUBSET Nat /\ Ids # {}
  BY DEF RecipesKept
<1>2. PICK m \in Ids : \A n \in Ids : m <= n
  BY <1>1, NatMinimum
<1>3. \E r \in build.queue : \A s \in build.queue : r.id <= s.id
  BY <1>2
<1>4. QED BY <1>3 DEF Reading

\* What a recipe should have at a block depends on the book and its profile only.
LEMMA ExpectedStays ==
    ASSUME UNCHANGED <<markup, blocks>>, NEW r, NEW kind, NEW i
    PROVE  PartKind(i)' = PartKind(i) /\ Expected(r, kind, i)' = Expected(r, kind, i)
<1>1. \A j : PartKind(j)' = PartKind(j)
  BY DEF PartKind, NamedPart, IngredientRole, KindOf
<1>2. NoEquipment(r, i)' = NoEquipment(r, i) /\ HasIngredient(r, i)' = HasIngredient(r, i)
  BY <1>1 DEF NoEquipment, HasIngredient, BlocksBefore, IngredientRole, KindOf
<1>3. InMethod(r, i)' = InMethod(r, i)
  BY <1>1 DEF InMethod, BlocksBefore
<1>4. QED BY <1>1, <1>2, <1>3 DEF Expected, IngredientRole, InstructionRole, KindOf

\* What is found stays found.
LEMMA StaysFound ==
    ASSUME NEW r, NEW i, occurrences \subseteq occurrences', UNCHANGED <<markup, blocks>>, FoundAt(r, i)
    PROVE  FoundAt(r, i)'
<1>1. \A kind : Expected(r, kind, i)' = Expected(r, kind, i)
  BY ExpectedStays
<1>2. \A kind : InOccurrence(r, kind, i) => InOccurrence(r, kind, i)'
  BY DEF InOccurrence, Start, End
<1>3. QED BY <1>1, <1>2 DEF FoundAt

\* A link is followed to a recipe that has the block it leads to, or to none when none has it.
LEMMA TargetLeads ==
    ASSUME BookOfBlocks, RecipesKept, NEW node \in Nat, node # NoNode
    PROVE  \/ TargetOf(node) = NoPart /\ HaveNode(node) = {}
           \/ TargetOf(node) # NoPart /\ \E r \in HaveNode(node) : r.id = TargetOf(node)
<1> DEFINE ranges == StartsBy(node)
           Later(v, w) == w[1] < v[1] \/ (w[1] = v[1] /\ w[2].id <= v[2].id)
<1>0. /\ Len(blocks) \in Nat /\ Indexes = 1..Len(blocks)
      /\ \A r \in recipes : r.id \in Nat /\ r.blocks \in SUBSET Indexes
  BY DEF BookOfBlocks, Indexes, RecipesKept
<1>1. \A v \in ranges : /\ v = <<v[1], v[2]>> /\ v[1] \in Indexes /\ v[2] \in recipes
                        /\ v[1] \in v[2].blocks /\ 3 * v[1] <= node
  BY DEF StartsBy, Start
<1>2. ASSUME NEW r \in recipes, NEW i \in r.blocks, 3 * i <= node PROVE <<i, r>> \in ranges
  BY <1>2, <1>0 DEF StartsBy, Start
<1>3. CASE ranges = {}
  <2>1. HaveNode(node) = {}
    BY <1>3, <1>2 DEF HaveNode, Start
  <2>2. QED BY <2>1, <1>3 DEF TargetOf
<1>4. CASE ranges # {}
  <2> DEFINE last == CHOOSE v \in ranges : \A w \in ranges : Later(v, w)
  <2>1. last \in ranges /\ \A w \in ranges : Later(last, w)
    <3> DEFINE Firsts == {v[1] : v \in ranges}
    <3>1. Firsts \in SUBSET Nat /\ Firsts # {} /\ IsFiniteSet(Firsts)
      <4>1. Firsts \subseteq 1..Len(blocks) /\ IsFiniteSet(1..Len(blocks))
        BY <1>1, <1>0, FS_Interval
      <4>2. QED BY <4>1, <1>4, FS_Subset
    <3>2. PICK m \in Firsts : \A n \in Firsts : n <= m
      BY <3>1, FiniteMaximum
    <3> DEFINE There == {s \in recipes : <<m, s>> \in ranges}
               Ids == {r.id : r \in There}
    <3>3. Ids \in SUBSET Nat /\ Ids # {}
      <4>1. PICK v \in ranges : v[1] = m
        BY <3>2
      <4>2. v[2] \in There
        BY <4>1, <1>1
      <4>3. QED BY <4>2, <1>0
    <3>4. IsFiniteSet(Ids)
      <4>1. IsFiniteSet(There)
        BY FS_Subset DEF RecipesKept
      <4> DEFINE f == [s \in There |-> s.id]
      <4>2. f \in Surjection(There, Ids)
        BY DEF Surjection
      <4> HIDE DEF There, f, Ids
      <4>3. QED BY <4>1, <4>2, FS_Surjection
    <3>5. PICK k \in Ids : \A n \in Ids : n <= k
      BY <3>3, <3>4, FiniteMaximum
    <3>6. PICK r \in recipes : <<m, r>> \in ranges /\ k = r.id
      BY <3>5
    <3>7. ASSUME NEW w \in ranges PROVE Later(<<m, r>>, w)
      <4>1. w[1] \in Firsts /\ m \in Nat /\ w[1] \in Nat
        BY <3>1, <3>2
      <4>2. CASE w[1] = m
        <5>1. w[2].id \in Ids
          BY <4>2, <1>1
        <5>2. QED BY <5>1, <3>5, <3>6, <4>2
      <4>3. QED BY <4>1, <4>2, <3>2
    <3>8. \E v \in ranges : \A w \in ranges : Later(v, w)
      BY <3>6, <3>7
    <3>9. QED BY <3>8
  <2>2. TargetOf(node) = IF node <= End(last[1]) THEN last[2].id ELSE NoPart
    BY <1>4 DEF TargetOf
  <2>3. last[1] \in Nat /\ last[2].id \in Nat /\ last[2] \in recipes /\ last[1] \in last[2].blocks
        /\ 3 * last[1] <= node
    BY <2>1, <1>1, <1>0
  <2> HIDE DEF last
  <2>4. CASE node <= End(last[1])
    <3>1. last[2] \in HaveNode(node)
      BY <2>3, <2>4 DEF HaveNode, Start
    <3>2. TargetOf(node) = last[2].id /\ TargetOf(node) # NoPart
      BY <2>2, <2>3, <2>4, StructureAssumption
    <3>3. QED BY <3>1, <3>2
  <2>5. CASE ~(node <= End(last[1]))
    <3>1. ASSUME NEW r \in recipes, NEW i \in r.blocks, Start(i) <= node, node <= End(i) PROVE FALSE
      <4>1. <<i, r>> \in ranges /\ i \in Nat
        BY <3>1, <1>2, <1>0 DEF Start
      <4>2. i <= last[1]
        BY <4>1, <2>1, <2>3
      <4>3. QED BY <4>1, <4>2, <2>3, <2>5, <3>1 DEF End
    <3>2. HaveNode(node) = {}
      BY <3>1 DEF HaveNode
    <3>3. QED BY <3>2, <2>2, <2>5
  <2>6. QED BY <2>4, <2>5
<1>5. QED BY <1>3, <1>4

LEMMA StructureBegins == StructureInit => StructureInv
<1> SUFFICES ASSUME StructureInit PROVE StructureInv
  OBVIOUS
<1>1. PICK s \in Supported : recipes = s.recipes /\ occurrences = s.occurrences
  BY DEF StructureInit
<1>2. blocks \in Blocks /\ parts = {} /\ uses = {} /\ build = NoInterpretation
  BY DEF StructureInit
<1>3. BookOfBlocks
  BY <1>2, StructureAssumption DEF BookOfBlocks, StructureInit
<1>4. build \in Interpreting
  <2>1. Fresh \in ReadStates
    BY DEF Fresh, ReadStates, PartKinds
  <2>2. Len(blocks) \in Nat
    BY <1>3 DEF BookOfBlocks
  <2>3. 1 \in 1..(Len(blocks) + 1)
    BY <2>2
  <2>4. QED BY <1>2, <2>1, <2>3 DEF Interpreting, NoInterpretation
<1>5. RecipesKept
  BY <1>1, <1>2, StructureAssumption DEF RecipesKept, Indexes
<1>6. build.phase = "none" /\ build.runs = 0 /\ build.added = {} /\ build.queue = {}
  BY <1>2 DEF NoInterpretation
<1>7. OccurrencesKept
  <2>1. \A c \in occurrences : c.from \in Nat /\ c.to \in Nat
    BY <1>1, StructureAssumption
  <2>2. FoundApart
    BY <1>1, StructureAssumption DEF FoundApart
  <2>3. QED BY <2>1, <2>2, <1>6 DEF OccurrencesKept
<1>8. ProposingHolds /\ ReadingHolds /\ FoundWhole /\ UsesKept
  BY <1>6, <1>2 DEF ProposingHolds, ReadingHolds, FoundWhole, UsesKept, Interpreted
<1>9. QED BY <1>3, <1>4, <1>5, <1>7, <1>8 DEF StructureInv

\* The first start of a recipe, and the place that is reached before and after.
LEMMA Length == BookOfBlocks => Len(blocks) \in Nat /\ Indexes = 1..Len(blocks)
  BY DEF BookOfBlocks, Indexes

\* What only the blocks, recipes, occurrences and uses say stays as it was.
LEMMA BookStays ==
    ASSUME StructureInv, UNCHANGED <<markup, blocks, recipes, occurrences, uses>>
    PROVE  /\ BookOfBlocks' /\ RecipesKept' /\ Indexes' = Indexes
           /\ FoundApart' /\ NoBlockShared' = NoBlockShared
           /\ \A c \in occurrences' : c.from \in Nat /\ c.to \in Nat
           /\ \A use \in uses' : Resolved(use)'
           /\ \A r, i : FoundAt(r, i)' = FoundAt(r, i)
<1>1. BookOfBlocks' /\ Indexes' = Indexes
  BY DEF StructureInv, BookOfBlocks, Indexes
<1>2. NoBlockShared' = NoBlockShared
  BY DEF NoBlockShared
<1>3. RecipesKept'
  BY <1>1, <1>2 DEF StructureInv, RecipesKept
<1>4. FoundApart' /\ \A c \in occurrences' : c.from \in Nat /\ c.to \in Nat
  BY DEF StructureInv, OccurrencesKept, FoundApart
<1>5. ASSUME NEW use \in uses PROVE Resolved(use)'
  BY DEF StructureInv, UsesKept, Resolved, HaveNode, Start, End
<1>6. ASSUME NEW r, NEW i PROVE FoundAt(r, i)' = FoundAt(r, i)
  <2>1. \A kind : Expected(r, kind, i)' = Expected(r, kind, i)
    BY ExpectedStays
  <2>2. \A kind : InOccurrence(r, kind, i)' = InOccurrence(r, kind, i)
    BY DEF InOccurrence, Start, End
  <2>3. QED BY <2>1, <2>2 DEF FoundAt
<1>7. QED BY <1>1, <1>2, <1>3, <1>4, <1>5, <1>6

LEMMA InterpretKeeps == StructureInv /\ Interpret => StructureInv'
<1> SUFFICES ASSUME StructureInv, Interpret PROVE StructureInv'
  OBVIOUS
<1> DEFINE edition == [NoInterpretation EXCEPT !.runs = build.runs + 1]
<1>0. /\ build.phase = "none" /\ build.runs \in Nat /\ build' = Begin(edition)
      /\ UNCHANGED <<markup, blocks, recipes, parts, occurrences, uses>>
  BY DEF Interpret, StructureInv, Interpreting
<1>1. /\ BookOfBlocks' /\ RecipesKept' /\ FoundApart'
      /\ \A c \in occurrences' : c.from \in Nat /\ c.to \in Nat
      /\ \A use \in uses' : Resolved(use)'
  BY <1>0, BookStays
<1>2. LeastOf(Starts, Len(blocks) + 1) \in 1..(Len(blocks) + 1)
  <2>1. Len(blocks) \in Nat /\ Starts \in SUBSET (1..Len(blocks))
    BY Length DEF StructureInv, Starts
  <2>2. (Starts = {} => LeastOf(Starts, Len(blocks) + 1) = Len(blocks) + 1)
        /\ (Starts # {} => LeastOf(Starts, Len(blocks) + 1) \in Starts)
    <3>1. Starts \in SUBSET Nat
      BY <2>1
    <3>2. QED BY <3>1, LeastIn
  <2>3. CASE Starts = {}
    BY <2>1, <2>2, <2>3
  <2>4. CASE Starts # {}
    <3>1. LeastOf(Starts, Len(blocks) + 1) \in 1..Len(blocks)
      BY <2>1, <2>2, <2>4
    <3>2. QED BY <3>1, <2>1
  <2>5. QED BY <2>3, <2>4
<1>3. /\ Fresh \in ReadStates /\ 1 \in 1..(Len(blocks) + 1)
  BY Length DEF StructureInv, Fresh, ReadStates, PartKinds
<1>4. CASE recipes = {}
  <2>1. build' = [phase |-> "propose", runs |-> build.runs + 1, at |-> LeastOf(Starts, Len(blocks) + 1),
                  queue |-> {}, state |-> Fresh, parts |-> {}, occurrences |-> {}, added |-> {}]
    BY <1>4, <1>0 DEF Begin, NoInterpretation
  <2>2. build' \in Interpreting'
    BY <2>1, <1>0, <1>2, <1>3 DEF Interpreting, ReadStates
  <2>3. ProposingHolds' /\ UsesKept'
    BY <2>1, <1>0, <1>1, <1>4 DEF ProposingHolds, StructureInv, UsesKept, NoBlockShared
  <2>4. OccurrencesKept' /\ ReadingHolds' /\ FoundWhole'
    BY <2>1, <1>1 DEF OccurrencesKept, ReadingHolds, FoundWhole, Interpreted
  <2>5. QED BY <1>1, <2>2, <2>3, <2>4 DEF StructureInv
<1>5. CASE recipes # {}
  <2>1. build' = [phase |-> "annotate", runs |-> build.runs + 1, at |-> 1,
                  queue |-> recipes, state |-> Fresh, parts |-> {}, occurrences |-> {}, added |-> {}]
    BY <1>5, <1>0 DEF Begin, NoInterpretation
  <2>2. build' \in Interpreting'
    BY <2>1, <1>0, <1>3 DEF Interpreting, ReadStates
  <2>3. ProposingHolds' /\ UsesKept'
    BY <2>1, <1>0, <1>1, <1>5 DEF ProposingHolds, UsesKept
  <2>4. OccurrencesKept' /\ ReadingHolds'
    BY <2>1, <1>1 DEF OccurrencesKept, ReadingHolds
  <2>5. FoundWhole'
    BY <2>1, <1>0 DEF FoundWhole
  <2>6. QED BY <1>1, <2>2, <2>3, <2>4, <2>5 DEF StructureInv
<1>6. QED BY <1>4, <1>5

LEMMA ProposeKeeps == StructureInv /\ Propose => StructureInv'
<1> SUFFICES ASSUME StructureInv, Propose PROVE StructureInv'
  OBVIOUS
<1> DEFINE i == build.at
           recipe == [id |-> i, blocks |-> i..RecipeEnd(i)]
<1>0. /\ build.phase = "propose" /\ i <= Len(blocks)
      /\ UNCHANGED <<markup, blocks, parts, occurrences, uses>>
  BY DEF Propose
<1>1. /\ BookOfBlocks /\ Len(blocks) \in Nat /\ Indexes = 1..Len(blocks) /\ Indexes' = Indexes
      /\ build \in Interpreting /\ i \in 1..(Len(blocks) + 1)
  BY <1>0, Length DEF StructureInv, Interpreting, Indexes
<1>2. i \in Indexes /\ i \in Nat
  BY <1>0, <1>1
<1>3. /\ NextStart(i) \in (i + 1)..(Len(blocks) + 1)
      /\ Bounded(i) => RecipeEnd(i) \in Nat /\ RecipeEnd(i) < NextStart(i)
  BY <1>1, <1>2, Proposable
<1>4. /\ build.queue = recipes /\ uses = {} /\ build.added = {} /\ NoBlockShared
      /\ \A r \in recipes : r.id < i /\ \A j \in r.blocks : j < i
  BY <1>0 DEF StructureInv, ProposingHolds
<1>5. /\ IsFiniteSet(recipes)
      /\ \A r \in recipes : r.id \in Nat /\ r.blocks \in SUBSET Indexes
      /\ \A r, s \in recipes : r.id = s.id => r = s
  BY DEF StructureInv, RecipesKept
<1>6. OccurrencesKept /\ BookOfBlocks'
  BY <1>0 DEF StructureInv, BookOfBlocks
<1>7. OccurrencesKept' /\ ReadingHolds' /\ FoundWhole' /\ build'.phase = "propose" /\ build'.added = {}
      /\ build'.at = NextStart(i)
  <2>1. build'.phase = "propose" /\ build'.added = {} /\ build'.at = NextStart(i)
    BY <1>0, <1>1, <1>4 DEF Propose, Interpreting
  <2>2. QED BY <2>1, <1>0, <1>6 DEF OccurrencesKept, FoundApart, ReadingHolds, FoundWhole, Interpreted
<1>8. CASE Bounded(i)
  <2>1. recipes' = recipes \cup {recipe}
        /\ build' = [build EXCEPT !.queue = @ \cup {recipe}, !.at = NextStart(i)]
    BY <1>8 DEF Propose
  <2>2. recipe.id = i /\ recipe.blocks = i..RecipeEnd(i) /\ recipe.blocks \in SUBSET Indexes
        /\ \A j \in recipe.blocks : i <= j /\ j < NextStart(i)
    BY <1>8, <1>1, <1>2, <1>3
  <2> HIDE DEF recipe
  <2>3. NoBlockShared'
    <3>1. \A r \in recipes : r.blocks \cap recipe.blocks = {}
      <4>1. ASSUME NEW r \in recipes, NEW j \in r.blocks, j \in recipe.blocks PROVE FALSE
        <5>1. j < i /\ i <= j /\ j \in Nat
          BY <4>1, <1>4, <1>5, <2>2, <1>1
        <5>2. QED BY <5>1, <1>2
      <4>2. QED BY <4>1
    <3>2. \A r, s \in recipes : r # s => r.blocks \cap s.blocks = {}
      BY <1>4 DEF NoBlockShared
    <3>3. QED BY <3>1, <3>2, <2>1 DEF NoBlockShared
  <2>4. RecipesKept'
    <3>1. IsFiniteSet(recipes \cup {recipe})
      BY <1>5, FS_AddElement
    <3>2. \A r \in recipes : r.id # i
      BY <1>4, <1>5, <1>2
    <3>3. \A r \in recipes' : r.id \in Nat /\ r.blocks \in SUBSET Indexes'
      BY <2>1, <2>2, <1>5, <1>1, <1>2
    <3>4. \A r, s \in recipes' : r.id = s.id => r = s
      BY <2>1, <2>2, <3>2, <1>5
    <3>5. QED BY <3>1, <3>3, <3>4, <2>1, <2>3 DEF RecipesKept
  <2>5. build' \in Interpreting'
    <3>1. NextStart(i) \in 1..(Len(blocks') + 1)
      BY <1>0, <1>1, <1>2, <1>3
    <3>2. build.queue \cup {recipe} \in SUBSET recipes'
      BY <1>4, <2>1
    <3>3. QED BY <2>1, <3>1, <3>2, <1>0, <1>1 DEF Interpreting, ReadStates
  <2>6. build'.queue = recipes'
    BY <2>1, <1>1, <1>4 DEF Interpreting
  <2>7. \A r \in recipes' : r.id < NextStart(i) /\ \A j \in r.blocks : j < NextStart(i)
    <3>1. \A r \in recipes : r.id < NextStart(i)
      BY <1>4, <1>5, <1>3, <1>2
    <3>2. ASSUME NEW r \in recipes, NEW j \in r.blocks PROVE j < NextStart(i)
      <4>1. j \in Nat /\ j < i
        BY <1>4, <1>5, <1>1
      <4>2. QED BY <4>1, <1>2, <1>3
    <3>3. recipe.id < NextStart(i) /\ \A j \in recipe.blocks : j < NextStart(i)
      <4>1. i < NextStart(i)
        BY <1>2, <1>3
      <4>2. QED BY <4>1, <2>2
    <3>4. QED BY <3>1, <3>2, <3>3, <2>1
  <2>8. ProposingHolds'
    BY <2>3, <2>6, <2>7, <1>0, <1>4, <1>7 DEF ProposingHolds
  <2>9. UsesKept'
    BY <1>0, <1>4, <1>7 DEF UsesKept
  <2>10. QED BY <1>6, <1>7, <2>4, <2>5, <2>8, <2>9 DEF StructureInv
<1>9. CASE ~Bounded(i)
  <2>1. UNCHANGED recipes /\ build' = [build EXCEPT !.at = NextStart(i)]
    BY <1>9 DEF Propose
  <2>2. build' \in Interpreting'
    BY <2>1, <1>0, <1>1, <1>2, <1>3 DEF Interpreting
  <2>3. RecipesKept' /\ NoBlockShared'
    BY <1>0, <2>1, <1>4, BookStays
  <2>4. build'.queue = recipes'
    BY <2>1, <1>1, <1>4 DEF Interpreting
  <2>5. \A r \in recipes' : r.id < NextStart(i) /\ \A j \in r.blocks : j < NextStart(i)
    <3>1. \A r \in recipes : r.id < NextStart(i)
      BY <1>4, <1>5, <1>3, <1>2
    <3>2. ASSUME NEW r \in recipes, NEW j \in r.blocks PROVE j < NextStart(i)
      <4>1. j \in Nat /\ j < i
        BY <1>4, <1>5, <1>1
      <4>2. QED BY <4>1, <1>2, <1>3
    <3>3. QED BY <3>1, <3>2, <2>1
  <2>6. ProposingHolds' /\ UsesKept'
    BY <2>3, <2>4, <2>5, <1>0, <1>4, <1>7 DEF ProposingHolds, UsesKept
  <2>7. QED BY <1>6, <1>7, <2>2, <2>3, <2>6 DEF StructureInv
<1>10. QED BY <1>8, <1>9

LEMMA ProposedKeeps == StructureInv /\ Proposed => StructureInv'
<1> SUFFICES ASSUME StructureInv, Proposed PROVE StructureInv'
  OBVIOUS
<1>0. /\ build.phase = "propose" /\ build' = [build EXCEPT !.phase = "annotate"]
      /\ UNCHANGED <<markup, blocks, recipes, parts, occurrences, uses>> /\ build \in Interpreting
  BY DEF Proposed, StructureInv
<1>1. /\ BookOfBlocks' /\ RecipesKept' /\ FoundApart' /\ Indexes' = Indexes
      /\ \A c \in occurrences' : c.from \in Nat /\ c.to \in Nat
      /\ \A use \in uses' : Resolved(use)'
  BY <1>0, BookStays
<1>2. build' \in Interpreting' /\ build'.phase = "annotate" /\ build'.queue = recipes' /\ build'.added = {}
      /\ uses' = {}
  BY <1>0 DEF Interpreting, StructureInv, ProposingHolds
<1>3. ProposingHolds' /\ OccurrencesKept' /\ ReadingHolds' /\ FoundWhole' /\ UsesKept'
  BY <1>1, <1>2 DEF ProposingHolds, OccurrencesKept, ReadingHolds, FoundWhole, UsesKept
<1>4. QED BY <1>1, <1>2, <1>3 DEF StructureInv

LEMMA TakeRecipeKeeps == StructureInv /\ TakeRecipe => StructureInv'
<1> SUFFICES ASSUME StructureInv, TakeRecipe PROVE StructureInv'
  OBVIOUS
<1>0. /\ build.phase = "annotate" /\ build.queue # {}
      /\ UNCHANGED <<markup, blocks, recipes, parts, occurrences, uses>> /\ build \in Interpreting
      /\ build.queue \subseteq recipes
  BY DEF TakeRecipe, StructureInv, Interpreting
<1>1. /\ BookOfBlocks' /\ RecipesKept' /\ FoundApart' /\ Indexes' = Indexes
      /\ \A c \in occurrences' : c.from \in Nat /\ c.to \in Nat
      /\ \A use \in uses' : Resolved(use)'
      /\ \A r, i : FoundAt(r, i)' = FoundAt(r, i)
  BY <1>0, BookStays
<1>2. Reading \in build.queue /\ Reading \in recipes
  BY <1>0, ReadingWaits DEF StructureInv
<1> DEFINE first == LeastOf(Reading.blocks, Len(blocks) + 1)
<1>3. /\ first \in Reading.blocks \cup {Len(blocks) + 1} /\ first \in 1..(Len(blocks) + 1)
      /\ \A j \in Reading.blocks : first <= j
  <2>1. /\ Reading.blocks \in SUBSET (1..Len(blocks)) /\ Reading.blocks \in SUBSET Nat
        /\ Len(blocks) \in Nat
    BY <1>2, Length DEF StructureInv, RecipesKept
  <2>2. /\ Reading.blocks = {} => first = Len(blocks) + 1
        /\ Reading.blocks # {} => first \in Reading.blocks /\ \A j \in Reading.blocks : first <= j
    BY <2>1, LeastIn
  <2>3. CASE Reading.blocks = {}
    BY <2>1, <2>2, <2>3
  <2>4. CASE Reading.blocks # {}
    <3>1. first \in 1..Len(blocks)
      BY <2>1, <2>2, <2>4
    <3>2. QED BY <3>1, <2>1, <2>2, <2>4
  <2>5. QED BY <2>3, <2>4
<1>4. build' = [build EXCEPT !.phase = "read", !.state = Fresh, !.at = first,
                   !.parts = {p \in parts : p.recipe = Reading.id},
                   !.occurrences = {c \in occurrences : c.recipe = Reading.id}]
  BY DEF TakeRecipe
<1>5. Fresh \in ReadStates
  BY DEF Fresh, ReadStates, PartKinds
<1> HIDE DEF first
<1>6. build' \in Interpreting'
  BY <1>4, <1>5, <1>3, <1>0 DEF Interpreting, ReadStates
<1>7. /\ build'.phase = "read" /\ build'.queue = build.queue /\ build'.at = first
      /\ build'.state = Fresh /\ build'.added = build.added
      /\ build'.occurrences = {c \in occurrences : c.recipe = Reading.id}
  BY <1>4, <1>0 DEF Interpreting
<1>8. Reading' = Reading
  BY <1>7 DEF Reading
<1>9. BlocksBefore(Reading, first) = {}
  <2>1. Reading.blocks \in SUBSET Nat /\ first \in Nat
    BY <1>2, <1>3, Length DEF StructureInv, RecipesKept
  <2>2. QED BY <2>1, <1>3 DEF BlocksBefore
<1>10. ReadingHolds'
  <2>2. build'.state.partKind # "equipment"
    BY <1>7, StructureAssumption DEF Fresh
  <2>3. BlocksBefore(Reading, build.at)' = {}
    BY <1>7, <1>8, <1>9 DEF BlocksBefore
  <2>4. ~HasIngredient(Reading, build.at)' /\ ~InMethod(Reading, build.at)'
    BY <2>3 DEF HasIngredient, InMethod
  <2>5. /\ build'.queue # {} /\ build'.at \in Reading'.blocks \cup {Len(blocks') + 1}
        /\ \A c \in build'.occurrences : c.recipe = Reading'.id
        /\ \A c \in occurrences' \ build'.occurrences : c.recipe # Reading'.id
    BY <1>0, <1>3, <1>7, <1>8
  <2>6. QED BY <2>2, <2>3, <2>4, <2>5 DEF ReadingHolds
<1>11. OccurrencesKept' /\ FoundWhole' /\ UsesKept' /\ ProposingHolds'
  <2>1. OccurrencesKept'
    BY <1>0, <1>1, <1>7 DEF StructureInv, OccurrencesKept, Start
  <2>2. FoundWhole'
    BY <1>0, <1>1, <1>7 DEF StructureInv, FoundWhole
  <2>3. UsesKept' /\ ProposingHolds'
    BY <1>0, <1>1, <1>7 DEF StructureInv, UsesKept, ProposingHolds
  <2>4. QED BY <2>1, <2>2, <2>3
<1>12. QED BY <1>1, <1>6, <1>10, <1>11 DEF StructureInv

\* The next block of the recipe: what stands before it is what stood before this one, and this one.
LEMMA NextStands ==
    ASSUME StructureInv, ReadingBlock
    PROVE  /\ Reading \in recipes /\ Reading \in build.queue
           /\ build.at \in Indexes /\ build.at \in Reading.blocks
           /\ NextBlock \in Reading.blocks \cup {Len(blocks) + 1} /\ NextBlock \in 1..(Len(blocks) + 1)
           /\ BlocksBefore(Reading, NextBlock) = BlocksBefore(Reading, build.at) \cup {build.at}
<1> DEFINE S == {j \in Reading.blocks : j > build.at}
<1>1. /\ build.phase = "read" /\ build.at <= Len(blocks) /\ build.queue # {} /\ build.queue \subseteq recipes
      /\ build.at \in Reading.blocks \cup {Len(blocks) + 1} /\ Len(blocks) \in Nat /\ Indexes = 1..Len(blocks)
      /\ build.at \in 1..(Len(blocks) + 1)
  BY Length DEF ReadingBlock, StructureInv, ReadingHolds, Interpreting
<1>2. Reading \in build.queue /\ Reading \in recipes
  BY <1>1, ReadingWaits DEF StructureInv
<1>3. build.at \in Indexes /\ build.at \in Reading.blocks
  BY <1>1
<1>4. Reading.blocks \in SUBSET (1..Len(blocks)) /\ S \in SUBSET Nat
  BY <1>1, <1>2 DEF StructureInv, RecipesKept
<1>5. NextBlock = LeastOf(S, Len(blocks) + 1)
  BY DEF NextBlock
<1>6. \A j \in Reading.blocks : j \in S <=> j > build.at
  OBVIOUS
<1>7. S \subseteq Reading.blocks
  OBVIOUS
<1>8. /\ S = {} => NextBlock = Len(blocks) + 1
      /\ S # {} => NextBlock \in S /\ \A j \in S : NextBlock <= j
  BY <1>4, <1>5, LeastIn
<1> HIDE DEF S
<1>9. NextBlock \in Reading.blocks \cup {Len(blocks) + 1} /\ NextBlock \in 1..(Len(blocks) + 1)
  <2>1. CASE S = {}
    BY <2>1, <1>8, <1>1
  <2>2. CASE S # {}
    <3>1. NextBlock \in 1..Len(blocks) /\ NextBlock \in Reading.blocks
      BY <2>2, <1>8, <1>7, <1>4
    <3>2. QED BY <3>1, <1>1
  <2>3. QED BY <2>1, <2>2
<1>10. ASSUME NEW j \in Reading.blocks PROVE j < NextBlock <=> j < build.at \/ j = build.at
  <2>1. j \in Nat /\ j <= Len(blocks) /\ build.at \in Nat /\ NextBlock \in Nat
    BY <1>1, <1>3, <1>4, <1>9
  <2>2. CASE S = {}
    BY <2>1, <2>2, <1>6, <1>8, <1>1
  <2>3. CASE S # {}
    <3>1. NextBlock > build.at
      BY <2>3, <1>8, <1>6, <1>7
    <3>2. j > build.at => NextBlock <= j
      BY <2>3, <1>8, <1>6
    <3>3. QED BY <2>1, <3>1, <3>2
  <2>4. QED BY <2>2, <2>3
<1>11. BlocksBefore(Reading, NextBlock) = BlocksBefore(Reading, build.at) \cup {build.at}
  BY <1>10, <1>3 DEF BlocksBefore
<1>12. QED BY <1>2, <1>3, <1>9, <1>11

\* Two places of blocks share no node.
LEMMA PlacesApart ==
    ASSUME NEW i \in Nat, NEW j \in Nat, i < j PROVE End(i) + 1 <= Start(j)
  BY DEF Start, End

IngredientLine(j) == IngredientRole(j) /\ PartKind(j) \in {NoPart, "ingredient_group"}

\* A block is read: nothing that was there is added again, and what it is is found.
LEMMA AdvanceKeeps ==
    ASSUME StructureInv, ReadingBlock, build' \in Interpreting', UNCHANGED <<markup, blocks, recipes, uses>>,
           build'.phase = "read", build'.queue = build.queue, build'.occurrences = build.occurrences,
           build'.at = NextBlock,
           NEW new, occurrences' = occurrences \cup new, build'.added \subseteq build.added \cup new,
           \A c \in new : /\ c.recipe = Reading.id /\ c.from = Start(build.at) /\ c.to = End(build.at) + 1
                          /\ ~Covered(c.kind, build.at),
           \A c, d \in new : c = d,
           NoEquipment(Reading, build.at) /\ PartKind(build.at) # "equipment" => build'.state.partKind # "equipment",
           NoEquipment(Reading, build.at) /\ (HasIngredient(Reading, build.at) \/ IngredientLine(build.at))
               => build'.state.ingredient,
           IF PartKind(build.at) = NoPart THEN InMethod(Reading, build.at) => build'.state.partKind \in MethodKinds
                                          ELSE build'.state.partKind = PartKind(build.at),
           \A r, i : r = Reading /\ i = build.at => FoundAt(r, i)'
    PROVE  StructureInv'
<1> DEFINE i == build.at
           R == Reading
<1>1. /\ R \in recipes /\ R \in build.queue /\ i \in Indexes /\ i \in R.blocks
      /\ NextBlock \in R.blocks \cup {Len(blocks) + 1} /\ NextBlock \in 1..(Len(blocks) + 1)
      /\ BlocksBefore(R, NextBlock) = BlocksBefore(R, i) \cup {i}
  BY NextStands
<1>2. build.phase = "read" /\ R' = R /\ Len(blocks) \in Nat /\ Indexes = 1..Len(blocks) /\ Indexes' = Indexes
  BY Length DEF ReadingBlock, Reading, StructureInv, Indexes
<1>3. BookOfBlocks' /\ RecipesKept' /\ NoBlockShared' = NoBlockShared
  BY <1>2 DEF StructureInv, BookOfBlocks, RecipesKept, NoBlockShared
<1>4. /\ \A c \in build.occurrences : c.recipe = R.id
      /\ \A c \in occurrences \ build.occurrences : c.recipe = R.id =>
            \E j \in BlocksBefore(R, i) : c.from = Start(j) /\ c.to = End(j) + 1
      /\ NoEquipment(R, i) => build.state.partKind # "equipment"
      /\ HasIngredient(R, i) /\ NoEquipment(R, i) => build.state.ingredient
      /\ InMethod(R, i) => build.state.partKind \in MethodKinds
      /\ \A j \in BlocksBefore(R, i) : FoundAt(R, j)
  BY <1>2 DEF StructureInv, ReadingHolds
<1>5. \A r, j : FoundAt(r, j) => FoundAt(r, j)'
  BY StaysFound
<1>6. i \in Nat /\ \A j \in BlocksBefore(R, i) : j \in Nat /\ j < i
  BY <1>1, <1>2 DEF BlocksBefore, StructureInv, RecipesKept
<1>7. \A c \in occurrences' : c.from \in Nat /\ c.to \in Nat
  BY <1>6 DEF StructureInv, OccurrencesKept, Start, End
<1>8. ASSUME NEW c \in occurrences, NEW d \in new, c.recipe = d.recipe, c.kind = d.kind
      PROVE Apart(c, d) /\ Apart(d, c)
  <2>0. c.from \in Nat /\ c.to \in Nat /\ d.recipe = R.id /\ d.from = Start(i) /\ d.to = End(i) + 1
        /\ ~Covered(d.kind, i)
    BY DEF StructureInv, OccurrencesKept
  <2>1. CASE c \in build.occurrences
    <3>1. ~(c.from < End(i) + 1 /\ c.to > Start(i))
      BY <2>0, <2>1, <1>8 DEF Covered
    <3>2. QED BY <3>1, <2>0, <1>6 DEF Apart, Start, End
  <2>2. CASE c \notin build.occurrences
    <3>1. PICK j \in BlocksBefore(R, i) : c.from = Start(j) /\ c.to = End(j) + 1
      BY <2>2, <2>0, <1>4, <1>8
    <3>2. c.to <= d.from
      BY <3>1, <2>0, <1>6, PlacesApart
    <3>3. QED BY <3>2 DEF Apart
  <2>3. QED BY <2>1, <2>2
<1>9. FoundApart'
  <2>1. FoundApart
    BY DEF StructureInv, OccurrencesKept
  <2>2. QED BY <2>1, <1>8 DEF FoundApart
<1>10. \A c \in build'.added : \E j \in Indexes' : c.from = Start(j)
  BY <1>1, <1>2 DEF StructureInv, OccurrencesKept
<1>11. OccurrencesKept'
  BY <1>7, <1>9, <1>10 DEF OccurrencesKept, Start
<1>19. \A j : PartKind(j)' = PartKind(j) /\ IngredientRole(j)' = IngredientRole(j)
  BY DEF PartKind, NamedPart, IngredientRole, KindOf
<1>12. NoEquipment(Reading, build.at)' <=> NoEquipment(R, i) /\ PartKind(i) # "equipment"
  <2>1. NoEquipment(Reading, build.at)' <=> \A j \in BlocksBefore(R, NextBlock) : PartKind(j) # "equipment"
    BY <1>2, <1>19 DEF NoEquipment, BlocksBefore
  <2>2. QED BY <2>1, <1>1 DEF NoEquipment
<1>13. HasIngredient(Reading, build.at)' <=> HasIngredient(R, i) \/ IngredientLine(i)
  <2>1. HasIngredient(Reading, build.at)' <=> \E j \in BlocksBefore(R, NextBlock) : IngredientLine(j)
    BY <1>2, <1>19 DEF HasIngredient, BlocksBefore, IngredientLine
  <2>2. QED BY <2>1, <1>1 DEF HasIngredient, IngredientLine
<1>20. InMethod(Reading, build.at)' =>
          IF PartKind(i) = NoPart THEN InMethod(R, i) ELSE PartKind(i) \in MethodKinds
  <2>1. SUFFICES ASSUME InMethod(Reading, build.at)'
                 PROVE IF PartKind(i) = NoPart THEN InMethod(R, i) ELSE PartKind(i) \in MethodKinds
    OBVIOUS
  <2>2. PICK j \in BlocksBefore(R, i) \cup {i} :
           /\ PartKind(j) \in MethodKinds
           /\ \A k \in BlocksBefore(R, i) \cup {i} : k > j => PartKind(k) = NoPart
    BY <2>1, <1>1, <1>2, <1>19 DEF InMethod, BlocksBefore, MethodKinds
  <2>3. NoPart \notin MethodKinds
    BY StructureAssumption DEF StructureInv, BookOfBlocks, MethodKinds
  <2>4. CASE j = i
    BY <2>2, <2>3, <2>4
  <2>5. CASE j # i
    <3>1. j \in BlocksBefore(R, i) /\ i > j
      BY <2>2, <2>5, <1>6
    <3>2. PartKind(i) = NoPart /\ InMethod(R, i)
      BY <3>1, <2>2 DEF InMethod, MethodKinds
    <3>3. QED BY <3>2
  <2>6. QED BY <2>4, <2>5
<1>14. BlocksBefore(Reading, build.at)' = BlocksBefore(R, i) \cup {i}
  <2>1. BlocksBefore(Reading, build.at)' = BlocksBefore(R, NextBlock)
    BY <1>2 DEF BlocksBefore
  <2>2. QED BY <2>1, <1>1
<1>15. ReadingHolds'
  <2>1. build'.queue # {} /\ build'.at \in Reading'.blocks \cup {Len(blocks') + 1}
    BY <1>1, <1>2
  <2>2. \A c \in build'.occurrences : c.recipe = Reading'.id
    BY <1>2, <1>4
  <2>3. ASSUME NEW c \in occurrences' \ build'.occurrences, c.recipe = R.id
        PROVE \E j \in BlocksBefore(R, i) \cup {i} : c.from = Start(j) /\ c.to = End(j) + 1
    <3>1. CASE c \in new
      BY <3>1
    <3>2. CASE c \notin new
      <4>1. c \in occurrences \ build.occurrences
        BY <3>2, <2>3
      <4>2. QED BY <4>1, <2>3, <1>4
    <3>3. QED BY <3>1, <3>2
  <2>4. NoEquipment(Reading, build.at)' => build'.state.partKind # "equipment"
    BY <1>12
  <2>5. HasIngredient(Reading, build.at)' /\ NoEquipment(Reading, build.at)' => build'.state.ingredient
    BY <1>12, <1>13
  <2>6. ASSUME NEW r, NEW j \in BlocksBefore(R, i) \cup {i}, r = R PROVE FoundAt(r, j)'
    <3>1. CASE j \in BlocksBefore(R, i)
      <4>1. FoundAt(r, j)
        BY <3>1, <2>6, <1>4
      <4>2. QED BY <4>1, <1>5
    <3>2. CASE j = i
      BY <3>2, <2>6
    <3>3. QED BY <3>1, <3>2
  <2>7. \A j \in BlocksBefore(Reading, build.at)' : FoundAt(Reading, j)'
    <3>1. \A r, j : r = R /\ j \in BlocksBefore(R, i) \cup {i} => FoundAt(r, j)'
      BY <2>6
    <3>2. QED BY <3>1, <1>14, <1>2
  <2>8. \A c \in (occurrences \ build.occurrences)' : c.recipe = Reading'.id =>
            \E j \in BlocksBefore(Reading, build.at)' : c.from = Start(j) /\ c.to = End(j) + 1
    BY <2>3, <1>14, <1>2
  <2>9. InMethod(Reading, build.at)' => build'.state.partKind \in MethodKinds'
    BY <1>20 DEF MethodKinds
  <2>10. QED BY <2>1, <2>2, <2>4, <2>5, <2>7, <2>8, <2>9 DEF ReadingHolds, Start, End
<1>16. FoundWhole'
  <2>1. \A r \in recipes \ build.queue : \A j \in r.blocks : FoundAt(r, j)
    BY <1>2 DEF StructureInv, FoundWhole
  <2>2. QED BY <2>1, <1>5 DEF FoundWhole
<1>17. UsesKept' /\ ProposingHolds'
  <2>1. \A use \in uses : Resolved(use)'
    BY DEF StructureInv, UsesKept, Resolved, HaveNode, Start, End
  <2>2. recipes # {}
    BY <1>1
  <2>3. QED BY <2>1, <2>2 DEF UsesKept, ProposingHolds
<1>18. QED BY <1>3, <1>11, <1>15, <1>16, <1>17 DEF StructureInv

LEMMA ReadLabelKeeps == StructureInv /\ ReadLabel => StructureInv'
<1> SUFFICES ASSUME StructureInv, ReadLabel PROVE StructureInv'
  OBVIOUS
<1> DEFINE i == build.at
           known == KnownPart(i)
           kind == PartKind(i)
<1>0. /\ ReadingBlock /\ kind # NoPart /\ UNCHANGED <<markup, blocks, recipes, occurrences, uses>>
      /\ build \in Interpreting /\ build.phase = "read" /\ parts \subseteq parts'
      /\ build' = [build EXCEPT
              !.at = NextBlock,
              !.state.part = IF known THEN NoPart ELSE i,
              !.state.partKind = kind,
              !.state.ingredient = @ \/ (kind = "ingredient_group" /\ IngredientRole(i)),
              !.state.groups = IF known THEN @ ELSE @ + 1]
  BY DEF ReadLabel, StructureInv, ReadingBlock
<1>1. /\ i \in Indexes /\ i \in Nat /\ NextBlock \in 1..(Len(blocks) + 1)
  BY <1>0, NextStands, Length DEF StructureInv
<1>2. kind \in PartKinds
  <2>1. blocks[i].label \in STRING \cup {NoPart}
    BY <1>1, BlockFields DEF StructureInv
  <2>2. NamedPart(i) \in PartKinds
    BY <2>1 DEF NamedPart, PartKinds
  <2>3. PartKind(i) \in {NamedPart(i), "ingredient_group", "method_group"}
    BY DEF PartKind
  <2>4. QED BY <2>2, <2>3 DEF PartKinds
<1>3. build.state \in ReadStates
  BY <1>0 DEF Interpreting
<1>4. build'.state = [build.state EXCEPT !.part = IF known THEN NoPart ELSE i, !.partKind = kind,
                 !.ingredient = @ \/ (kind = "ingredient_group" /\ IngredientRole(i)),
                 !.groups = IF known THEN @ ELSE @ + 1]
  BY <1>0, <1>3 DEF Interpreting, ReadStates
<1> HIDE DEF known
<1>13. kind = PartKind(i)
  OBVIOUS
<1> HIDE DEF kind
<1>5. /\ build'.state \in ReadStates /\ build'.state.partKind = kind
      /\ build'.state.ingredient = (build.state.ingredient \/ (kind = "ingredient_group" /\ IngredientRole(i)))
  <2> DEFINE seen == build.state.ingredient \/ (kind = "ingredient_group" /\ IngredientRole(i))
             part == IF known THEN NoPart ELSE i
             groups == IF known THEN build.state.groups ELSE build.state.groups + 1
  <2>1. build'.state = [build.state EXCEPT !.part = part, !.partKind = kind, !.ingredient = seen,
                                          !.groups = groups]
    BY <1>3, <1>4 DEF ReadStates
  <2>2. seen \in BOOLEAN /\ part \in Nat \cup {NoPart} /\ groups \in Nat
    BY <1>3, <1>1 DEF ReadStates
  <2>3. seen = (build.state.ingredient \/ (kind = "ingredient_group" /\ IngredientRole(i)))
    OBVIOUS
  <2> HIDE DEF seen, part, groups
  <2>4. build'.state \in ReadStates /\ build'.state.partKind = kind
    BY <1>3, <1>2, <2>1, <2>2 DEF ReadStates
  <2>5. build'.state.ingredient = seen
    BY <1>3, <2>1 DEF ReadStates
  <2>6. QED BY <2>3, <2>4, <2>5
<1>6. build' = [build EXCEPT !.at = NextBlock, !.state = build'.state]
  BY <1>0 DEF Interpreting
<1>7. build' \in Interpreting'
  <2>1. /\ NextBlock \in 1..(Len(blocks') + 1) /\ build'.state \in ReadStates /\ build \in Interpreting
        /\ blocks' = blocks /\ recipes' = recipes /\ occurrences' = occurrences /\ parts \subseteq parts'
    BY <1>0, <1>1, <1>5
  <2>2. QED BY <1>6, <2>1 DEF Interpreting
<1>8. /\ build'.phase = "read" /\ build'.queue = build.queue /\ build'.occurrences = build.occurrences
      /\ build'.at = NextBlock /\ build'.added = build.added
  BY <1>0, <1>6 DEF Interpreting
<1>9. HasIngredient(Reading, i) /\ NoEquipment(Reading, i) => build.state.ingredient
  BY <1>0 DEF StructureInv, ReadingHolds
<1>12. \A j : PartKind(j)' = PartKind(j)
  BY <1>0, ExpectedStays
<1>10. \A r, j : r = Reading /\ j = i => FoundAt(r, j)'
  BY <1>0, <1>12, <1>13 DEF FoundAt, Expected
<1>11. QED
  <2> DEFINE new == {}
  <2>1. occurrences' = occurrences \cup new /\ build'.added \subseteq build.added \cup new
    BY <1>0, <1>8
  <2>2. NoEquipment(Reading, i) /\ PartKind(i) # "equipment" => build'.state.partKind # "equipment"
    BY <1>5, <1>13
  <2>3. NoEquipment(Reading, i) /\ (HasIngredient(Reading, i) \/ IngredientLine(i))
            => build'.state.ingredient
    BY <1>0, <1>5, <1>9, <1>13 DEF IngredientLine
  <2>7. IF PartKind(i) = NoPart THEN InMethod(Reading, i) => build'.state.partKind \in MethodKinds
                                ELSE build'.state.partKind = PartKind(i)
    BY <1>0, <1>5, <1>13
  <2>4. \A c \in new : /\ c.recipe = Reading.id /\ c.from = Start(build.at) /\ c.to = End(build.at) + 1
                       /\ ~Covered(c.kind, build.at)
    OBVIOUS
  <2>5. \A c, d \in new : c = d
    OBVIOUS
  <2> HIDE DEF new
  <2>6. QED BY <1>0, <1>7, <1>8, <1>10, <2>1, <2>2, <2>3, <2>4, <2>5, <2>7, AdvanceKeeps

LEMMA PassBlockKeeps == StructureInv /\ PassBlock => StructureInv'
<1> SUFFICES ASSUME StructureInv, PassBlock PROVE StructureInv'
  OBVIOUS
<1> DEFINE i == build.at
<1>0. /\ ReadingBlock /\ PartKind(i) = NoPart /\ UNCHANGED <<markup, blocks, recipes, parts, occurrences, uses>>
      /\ ~IsIngredient(i) /\ ~IsInstruction(i)
      /\ build \in Interpreting /\ build.phase = "read" /\ build' = [build EXCEPT !.at = NextBlock]
  BY DEF PassBlock, StructureInv, ReadingBlock
<1>1. /\ i \in Indexes /\ NextBlock \in 1..(Len(blocks) + 1)
  BY <1>0, NextStands
<1>2. build' \in Interpreting'
  BY <1>0, <1>1 DEF Interpreting
<1>3. /\ build'.phase = "read" /\ build'.queue = build.queue /\ build'.occurrences = build.occurrences
      /\ build'.at = NextBlock /\ build'.added = build.added /\ build'.state = build.state
  BY <1>0 DEF Interpreting
<1>4. /\ HasIngredient(Reading, i) /\ NoEquipment(Reading, i) => build.state.ingredient
      /\ NoEquipment(Reading, i) => build.state.partKind # "equipment"
      /\ InMethod(Reading, i) => build.state.partKind \in MethodKinds
  BY <1>0 DEF StructureInv, ReadingHolds
<1>5. ~Expected(Reading, "ingredient", i)
  BY <1>0, <1>4 DEF IsIngredient, Expected
<1>6. ~Expected(Reading, "instruction", i)
  BY <1>0, <1>4 DEF IsInstruction, Expected, MethodKinds
<1>7. \A r, j : r = Reading /\ j = i => FoundAt(r, j)'
  <2>1. \A r, j, kind : Expected(r, kind, j)' = Expected(r, kind, j)
    BY <1>0, ExpectedStays
  <2>2. QED BY <1>5, <1>6, <2>1 DEF FoundAt
<1>8. QED
  <2> DEFINE new == {}
  <2>1. occurrences' = occurrences \cup new /\ build'.added \subseteq build.added \cup new
    BY <1>0, <1>3
  <2>3. NoEquipment(Reading, i) /\ IngredientLine(i) => build.state.ingredient
    BY <1>0, <1>4 DEF IngredientLine, IsIngredient
  <2>4. \A c \in new : /\ c.recipe = Reading.id /\ c.from = Start(build.at) /\ c.to = End(build.at) + 1
                       /\ ~Covered(c.kind, build.at)
    OBVIOUS
  <2>5. \A c, d \in new : c = d
    OBVIOUS
  <2> HIDE DEF new
  <2>6. QED BY <1>0, <1>2, <1>3, <1>4, <1>7, <2>1, <2>3, <2>4, <2>5, AdvanceKeeps

\* What is added for a block, or what is there already, has the block in it.
LEMMA AddsFound ==
    ASSUME StructureInv, ReadingBlock, NEW kind, NEW ordinal, NEW part, NEW new,
           new = Adds(Occurrence(kind, build.at, ordinal, part), build.at)
    PROVE  /\ \A c \in new : /\ c.recipe = Reading.id /\ c.kind = kind
                             /\ c.from = Start(build.at) /\ c.to = End(build.at) + 1
                             /\ ~Covered(c.kind, build.at)
           /\ \A c, d \in new : c = d
           /\ \E c \in occurrences \cup new :
                 /\ c.recipe = Reading.id /\ c.kind = kind
                 /\ c.from <= End(build.at) /\ c.to > Start(build.at)
<1> DEFINE i == build.at
           occurrence == Occurrence(kind, i, ordinal, part)
<1>1. /\ occurrence.recipe = Reading.id /\ occurrence.kind = kind
      /\ occurrence.from = Start(i) /\ occurrence.to = End(i) + 1
  BY DEF Occurrence
<1>2. new = IF Covered(kind, i) THEN {} ELSE {occurrence}
  BY <1>1 DEF Adds
<1> HIDE DEF occurrence
<1>3. i \in Nat
  BY NextStands, Length DEF StructureInv
<1>4. /\ \A c \in build.occurrences : c \in occurrences /\ c.recipe = Reading.id
      /\ \A c \in occurrences : c.from \in Nat /\ c.to \in Nat
  BY DEF StructureInv, Interpreting, ReadingBlock, ReadingHolds, OccurrencesKept
<1>5. CASE Covered(kind, i)
  <2>1. PICK c \in build.occurrences : c.kind = kind /\ c.from < End(i) + 1 /\ c.to > Start(i)
    BY <1>5 DEF Covered
  <2>2. c.from <= End(i)
    BY <2>1, <1>3, <1>4 DEF End
  <2>3. QED BY <2>1, <2>2, <1>2, <1>4, <1>5
<1>6. CASE ~Covered(kind, i)
  <2>1. Start(i) <= End(i) /\ End(i) + 1 > Start(i)
    BY <1>3 DEF Start, End
  <2>2. QED BY <2>1, <1>1, <1>2, <1>6
<1>7. QED BY <1>5, <1>6

LEMMA ReadIngredientKeeps == StructureInv /\ ReadIngredient => StructureInv'
<1> SUFFICES ASSUME StructureInv, ReadIngredient PROVE StructureInv'
  OBVIOUS
<1> DEFINE i == build.at
<1>0. PICK new :
      /\ ReadingBlock /\ PartKind(i) = NoPart /\ UNCHANGED <<markup, blocks, recipes, parts, uses>>
      /\ IsIngredient(i) /\ build \in Interpreting /\ build.phase = "read"
      /\ new = Adds(Occurrence("ingredient", i, build.state.ingredients, build.state.part), i)
      /\ occurrences' = occurrences \cup new
      /\ build' = [build EXCEPT !.at = NextBlock, !.added = @ \cup new,
                                 !.state.ingredient = TRUE, !.state.ingredients = @ + 1]
  BY DEF ReadIngredient, StructureInv, ReadingBlock
<1>1. /\ i \in Indexes /\ NextBlock \in 1..(Len(blocks) + 1)
  BY <1>0, NextStands
<1>2. /\ \A c \in new : /\ c.recipe = Reading.id /\ c.kind = "ingredient"
                        /\ c.from = Start(i) /\ c.to = End(i) + 1 /\ ~Covered(c.kind, i)
      /\ \A c, d \in new : c = d
      /\ \E c \in occurrences \cup new :
            c.recipe = Reading.id /\ c.kind = "ingredient" /\ c.from <= End(i) /\ c.to > Start(i)
  BY <1>0, AddsFound
<1>3. build.state \in ReadStates
  BY <1>0 DEF Interpreting
<1>4. build'.state = [build.state EXCEPT !.ingredient = TRUE, !.ingredients = @ + 1]
  BY <1>0, <1>3 DEF Interpreting, ReadStates
<1>5. /\ build'.state \in ReadStates /\ build'.state.partKind = build.state.partKind
      /\ build'.state.ingredient
  <2>1. build.state.ingredients + 1 \in Nat
    BY <1>3 DEF ReadStates
  <2>2. build'.state \in ReadStates /\ build'.state.partKind = build.state.partKind
    BY <1>3, <1>4, <2>1 DEF ReadStates
  <2>3. build'.state.ingredient = TRUE
    BY <1>3, <1>4 DEF ReadStates
  <2>4. QED BY <2>2, <2>3
<1>6. build' = [build EXCEPT !.at = NextBlock, !.added = @ \cup new, !.state = build'.state]
  BY <1>0 DEF Interpreting
<1>7. build' \in Interpreting'
  BY <1>0, <1>1, <1>5, <1>6 DEF Interpreting
<1>8. /\ build'.phase = "read" /\ build'.queue = build.queue /\ build'.occurrences = build.occurrences
      /\ build'.at = NextBlock /\ build'.added = build.added \cup new
  BY <1>0, <1>6 DEF Interpreting
<1>9. NoEquipment(Reading, i) => build.state.partKind # "equipment"
  BY <1>0 DEF StructureInv, ReadingHolds
<1>10. \A r, j : r = Reading /\ j = i => FoundAt(r, j)'
  <2>1. ASSUME NEW r, NEW j, r = Reading, j = i PROVE FoundAt(r, j)'
    <3>1. ~InstructionRole(j)'
      BY <1>0, <2>1 DEF IsIngredient, IngredientRole, InstructionRole, KindOf
    <3>2. InOccurrence(r, "ingredient", j)'
      BY <1>0, <1>2, <2>1 DEF InOccurrence, Start, End
    <3>3. QED BY <3>1, <3>2 DEF FoundAt, Expected
  <2>2. QED BY <2>1
<1>12. InMethod(Reading, i) => build'.state.partKind \in MethodKinds
  BY <1>0, <1>5 DEF StructureInv, ReadingHolds
<1>11. QED BY <1>0, <1>2, <1>5, <1>7, <1>8, <1>9, <1>10, <1>12, AdvanceKeeps

LEMMA ReadInstructionKeeps == StructureInv /\ ReadInstruction => StructureInv'
<1> SUFFICES ASSUME StructureInv, ReadInstruction PROVE StructureInv'
  OBVIOUS
<1> DEFINE i == build.at
           ends == build.state.partKind \in {"ingredient_group", "equipment"}
           part == IF ends THEN NoPart ELSE build.state.part
<1>0. PICK new :
      /\ ReadingBlock /\ PartKind(i) = NoPart /\ UNCHANGED <<markup, blocks, recipes, parts, uses>>
      /\ ~IsIngredient(i) /\ IsInstruction(i) /\ build \in Interpreting /\ build.phase = "read"
      /\ new = Adds(Occurrence("instruction", i, build.state.instructions, part), i)
      /\ occurrences' = occurrences \cup new
      /\ build' = [build EXCEPT
              !.at = NextBlock, !.added = @ \cup new,
              !.state.instruction = TRUE, !.state.instructions = @ + 1, !.state.part = part,
              !.state.partKind = IF ends THEN NoPart ELSE @]
  BY DEF ReadInstruction, StructureInv, ReadingBlock
<1>1. /\ i \in Indexes /\ NextBlock \in 1..(Len(blocks) + 1)
  BY <1>0, NextStands
<1>2. /\ \A c \in new : /\ c.recipe = Reading.id /\ c.kind = "instruction"
                        /\ c.from = Start(i) /\ c.to = End(i) + 1 /\ ~Covered(c.kind, i)
      /\ \A c, d \in new : c = d
      /\ \E c \in occurrences \cup new :
            c.recipe = Reading.id /\ c.kind = "instruction" /\ c.from <= End(i) /\ c.to > Start(i)
  BY <1>0, AddsFound
<1>3. build.state \in ReadStates /\ part \in Nat \cup {NoPart}
  BY <1>0 DEF Interpreting, ReadStates
<1>4. build'.state = [build.state EXCEPT !.instruction = TRUE, !.instructions = @ + 1, !.part = part,
                                        !.partKind = IF ends THEN NoPart ELSE @]
  BY <1>0, <1>3 DEF Interpreting, ReadStates
<1> HIDE DEF part
<1>5. /\ build'.state \in ReadStates
      /\ build'.state.partKind # "equipment" /\ build'.state.ingredient = build.state.ingredient
  <2> DEFINE kind == IF ends THEN NoPart ELSE build.state.partKind
  <2>1. build'.state = [build.state EXCEPT !.instruction = TRUE, !.instructions = build.state.instructions + 1,
                                          !.part = part, !.partKind = kind]
    BY <1>3, <1>4 DEF ReadStates
  <2>2. kind \in PartKinds /\ kind # "equipment" /\ build.state.instructions + 1 \in Nat
    BY <1>3, StructureAssumption DEF ReadStates, PartKinds
  <2> HIDE DEF kind
  <2>3. build'.state \in ReadStates /\ build'.state.partKind = kind
    BY <1>3, <2>1, <2>2 DEF ReadStates
  <2>4. build'.state.ingredient = build.state.ingredient
    BY <1>3, <2>1 DEF ReadStates
  <2>5. QED BY <2>2, <2>3, <2>4
<1>6. build' = [build EXCEPT !.at = NextBlock, !.added = @ \cup new, !.state = build'.state]
  BY <1>0 DEF Interpreting
<1>7. build' \in Interpreting'
  <2>1. /\ build' = [build EXCEPT !.at = NextBlock, !.added = build.added \cup new, !.state = build'.state]
        /\ NextBlock \in 1..(Len(blocks') + 1) /\ build'.state \in ReadStates /\ build \in Interpreting
        /\ blocks' = blocks /\ recipes' = recipes /\ parts' = parts
        /\ occurrences' = occurrences \cup new
    BY <1>0, <1>1, <1>5, <1>6
  <2>2. /\ build'.phase = build.phase /\ build'.runs = build.runs /\ build'.at = NextBlock
        /\ build'.queue = build.queue /\ build'.state \in ReadStates /\ build'.parts = build.parts
        /\ build'.occurrences = build.occurrences /\ build'.added = build.added \cup new
    BY <2>1 DEF Interpreting
  <2>3. build'.at \in 1..(Len(blocks') + 1) /\ build'.added \subseteq occurrences'
        /\ build'.occurrences \subseteq occurrences'
    BY <2>1, <2>2 DEF Interpreting
  <2>4. build' = [phase |-> build'.phase, runs |-> build'.runs, at |-> build'.at, queue |-> build'.queue,
                  state |-> build'.state, parts |-> build'.parts, occurrences |-> build'.occurrences,
                  added |-> build'.added]
    BY <2>1 DEF Interpreting
  <2>5. QED BY <2>1, <2>2, <2>3, <2>4 DEF Interpreting
<1>8. /\ build'.phase = "read" /\ build'.queue = build.queue /\ build'.occurrences = build.occurrences
      /\ build'.at = NextBlock /\ build'.added = build.added \cup new
  BY <1>0, <1>6 DEF Interpreting
<1>9. /\ NoEquipment(Reading, i) => build.state.partKind # "equipment"
      /\ HasIngredient(Reading, i) /\ NoEquipment(Reading, i) => build.state.ingredient
  BY <1>0 DEF StructureInv, ReadingHolds
<1>10. NoEquipment(Reading, i) => ~IngredientRole(i)
  BY <1>0, <1>9 DEF IsIngredient
<1>13. InMethod(Reading, i) => build'.state.partKind \in MethodKinds
  <2>1. InMethod(Reading, i) => build.state.partKind \in MethodKinds
    BY <1>0 DEF StructureInv, ReadingHolds
  <2>2. build.state.partKind \in MethodKinds => build'.state.partKind = build.state.partKind
    BY <1>3, <1>4 DEF ReadStates, MethodKinds
  <2>3. QED BY <2>1, <2>2
<1>11. \A r, j : r = Reading /\ j = i => FoundAt(r, j)'
  <2>1. ASSUME NEW r, NEW j, r = Reading, j = i PROVE FoundAt(r, j)'
    <3>1. ~(IngredientRole(j)' /\ NoEquipment(r, j)')
      BY <1>0, <1>10, <2>1 DEF NoEquipment, BlocksBefore, PartKind, NamedPart, IngredientRole, KindOf
    <3>2. InOccurrence(r, "instruction", j)'
      BY <1>0, <1>2, <2>1 DEF InOccurrence, Start, End
    <3>3. QED BY <3>1, <3>2 DEF FoundAt, Expected
  <2>2. QED BY <2>1
<1>14. PartKind(i) = NoPart /\ NoEquipment(Reading, i) /\ IngredientLine(i) => build'.state.ingredient
  BY <1>10 DEF IngredientLine
<1>15. /\ NoEquipment(Reading, i) /\ PartKind(i) # "equipment" => build'.state.partKind # "equipment"
       /\ NoEquipment(Reading, i) /\ (HasIngredient(Reading, i) \/ IngredientLine(i)) => build'.state.ingredient
  BY <1>0, <1>5, <1>9, <1>14
<1>12. QED BY <1>0, <1>2, <1>7, <1>8, <1>11, <1>13, <1>15, AdvanceKeeps

LEMMA RecipeReadKeeps == StructureInv /\ RecipeRead => StructureInv'
<1> SUFFICES ASSUME StructureInv, RecipeRead PROVE StructureInv'
  OBVIOUS
<1>0. /\ build.phase = "read" /\ build.at > Len(blocks)
      /\ build' = [build EXCEPT !.phase = "annotate", !.queue = @ \ {Reading}]
      /\ UNCHANGED <<markup, blocks, recipes, parts, occurrences, uses>> /\ build \in Interpreting
  BY DEF RecipeRead, StructureInv
<1>1. /\ BookOfBlocks' /\ RecipesKept' /\ FoundApart' /\ Indexes' = Indexes
      /\ \A c \in occurrences' : c.from \in Nat /\ c.to \in Nat
      /\ \A use \in uses' : Resolved(use)'
      /\ \A r, i : FoundAt(r, i)' = FoundAt(r, i)
  BY <1>0, BookStays
<1>2. /\ build' \in Interpreting' /\ build'.phase = "annotate" /\ build'.queue = build.queue \ {Reading}
      /\ build'.added = build.added
  BY <1>0 DEF Interpreting
<1>3. Reading \in recipes /\ build.queue \subseteq recipes
  BY <1>0, ReadingWaits DEF StructureInv, Interpreting, ReadingHolds
<1>4. \A i \in Reading.blocks : i \in BlocksBefore(Reading, build.at)
  <2>1. \A i \in Reading.blocks : i \in Nat /\ i <= Len(blocks)
    BY <1>3, Length DEF StructureInv, RecipesKept
  <2>2. build.at \in Nat /\ Len(blocks) \in Nat
    BY <1>0, Length DEF StructureInv, Interpreting
  <2>3. QED BY <2>1, <2>2, <1>0 DEF BlocksBefore
<1>5. \A i \in Reading.blocks : FoundAt(Reading, i)
  BY <1>0, <1>4 DEF StructureInv, ReadingHolds
<1>6. \A r \in recipes \ build.queue : \A i \in r.blocks : FoundAt(r, i)
  BY <1>0 DEF StructureInv, FoundWhole
<1>7. FoundWhole'
  <2>1. \A r \in recipes \ (build.queue \ {Reading}) : \A i \in r.blocks : FoundAt(r, i)
    BY <1>5, <1>6
  <2>2. QED BY <2>1, <1>0, <1>1, <1>2 DEF FoundWhole
<1>8. OccurrencesKept' /\ ReadingHolds' /\ UsesKept' /\ ProposingHolds'
  <2>1. OccurrencesKept'
    BY <1>0, <1>1, <1>2 DEF StructureInv, OccurrencesKept, Start
  <2>2. ReadingHolds' /\ ProposingHolds'
    BY <1>2 DEF ReadingHolds, ProposingHolds
  <2>3. UsesKept'
    BY <1>0, <1>1, <1>2 DEF StructureInv, UsesKept
  <2>4. QED BY <2>1, <2>2, <2>3
<1>9. QED BY <1>1, <1>2, <1>7, <1>8 DEF StructureInv

LEMMA FindUsesKeeps == StructureInv /\ FindUses => StructureInv'
<1> SUFFICES ASSUME StructureInv, FindUses PROVE StructureInv'
  OBVIOUS
<1> DEFINE linking == {c \in build.added : blocks[BlockOf(c)].link # NoNode}
           leading == {d \in linking : TargetOf(blocks[BlockOf(d)].link) # d.recipe}
           UseBy(c) == [recipe |-> c.recipe, link |-> BlockOf(c), part |-> c.part,
                        target |-> TargetOf(blocks[BlockOf(c)].link)]
<1>0. /\ build.phase = "annotate" /\ build.queue = {} /\ uses' = uses \cup {UseBy(c) : c \in leading}
      /\ build' = [NoInterpretation EXCEPT !.runs = build.runs]
      /\ UNCHANGED <<markup, blocks, recipes, parts, occurrences>> /\ build.runs \in Nat
  BY DEF FindUses, StructureInv, Interpreting
<1>1. build' = [phase |-> "none", runs |-> build.runs, at |-> 1, queue |-> {},
                state |-> Fresh, parts |-> {}, occurrences |-> {}, added |-> {}]
  BY <1>0 DEF NoInterpretation
<1>2. build' \in Interpreting'
  <2>1. Fresh \in ReadStates
    BY DEF Fresh, ReadStates, PartKinds
  <2>2. 1 \in 1..(Len(blocks') + 1)
    BY <1>0, Length DEF StructureInv
  <2> HIDE DEF linking, leading, UseBy
  <2>3. /\ build'.phase \in {"none", "propose", "annotate", "read"} /\ build'.runs \in Nat
        /\ build'.at \in 1..(Len(blocks') + 1) /\ build'.state \in ReadStates
        /\ build'.queue = {} /\ build'.parts = {} /\ build'.occurrences = {} /\ build'.added = {}
    BY <2>1, <2>2, <1>0, <1>1
  <2>4. QED BY <2>3, <1>1 DEF Interpreting, ReadStates
<1>3. /\ BookOfBlocks' /\ NoBlockShared' = NoBlockShared /\ Indexes' = Indexes /\ FoundApart'
  BY <1>0 DEF StructureInv, BookOfBlocks, NoBlockShared, Indexes, OccurrencesKept, FoundApart
<1>4. RecipesKept'
  BY <1>0, <1>3 DEF StructureInv, RecipesKept
<1>5. OccurrencesKept'
  BY <1>0, <1>1, <1>3 DEF StructureInv, OccurrencesKept
<1>6. ReadingHolds' /\ ProposingHolds'
  BY <1>1 DEF ReadingHolds, ProposingHolds
<1>7. FoundWhole'
  <2>1. \A r \in recipes : \A i \in r.blocks : FoundAt(r, i)
    BY <1>0 DEF StructureInv, FoundWhole
  <2>2. \A r, i : FoundAt(r, i) => FoundAt(r, i)'
    BY <1>0, StaysFound
  <2>3. QED BY <2>1, <2>2, <1>0 DEF FoundWhole
<1>8. \A use \in uses : Resolved(use)'
  BY <1>0 DEF StructureInv, UsesKept, Resolved, HaveNode, Start, End
<1>9. ASSUME NEW c \in leading, NEW use, use = UseBy(c) PROVE Resolved(use)'
  <2>1. PICK j \in Indexes : c.from = Start(j)
    BY DEF StructureInv, OccurrencesKept
  <2>2. j \in Nat /\ Indexes = 1..Len(blocks)
    BY Length DEF StructureInv
  <2>3. BlockOf(c) = j
    BY <2>1, <2>2 DEF BlockOf, Start
  <2> DEFINE node == blocks[j].link
  <2>4. node \in Nat /\ node # NoNode
    <3>1. node # NoNode
      BY <2>3
    <3>2. node \in Nat \cup {NoNode}
      BY BlockFields DEF StructureInv
    <3>3. QED BY <3>1, <3>2
  <2> HIDE DEF node
  <2>5. TargetOf(node) # c.recipe
    BY <2>3 DEF node
  <2>6. \/ TargetOf(node) = NoPart /\ HaveNode(node) = {}
        \/ TargetOf(node) # NoPart /\ \E r \in HaveNode(node) : r.id = TargetOf(node)
    BY <2>4, TargetLeads DEF StructureInv
  <2>7. use.recipe = c.recipe /\ use.link = j /\ use.target = TargetOf(node)
    BY <2>3, <1>9 DEF node
  <2>8. Resolved(use)
    BY <2>5, <2>6, <2>7 DEF Resolved, node
  <2>9. QED BY <2>8, <1>0 DEF Resolved, HaveNode, Start, End
<1>10. UsesKept'
  <2>1. recipes = {} => uses' = {}
    BY <1>0 DEF StructureInv, UsesKept
  <2>2. \A use \in uses' : Resolved(use)'
    <3>1. ASSUME NEW use \in uses' PROVE Resolved(use)'
      <4>1. CASE use \in uses
        BY <4>1, <1>8
      <4>2. CASE use \notin uses
        <5>1. PICK c \in leading : use = UseBy(c)
          BY <1>0, <4>2
        <5>2. QED BY <5>1, <1>9
      <4>3. QED BY <4>1, <4>2
    <3>2. QED BY <3>1
  <2>3. QED BY <2>1, <2>2, <1>0, <1>1 DEF UsesKept
<1>11. QED BY <1>2, <1>3, <1>4, <1>5, <1>6, <1>7, <1>10 DEF StructureInv

LEMMA StructureStutters == StructureInv /\ UNCHANGED structureVars => StructureInv'
<1> SUFFICES ASSUME StructureInv, UNCHANGED structureVars PROVE StructureInv'
  OBVIOUS
<1>0. UNCHANGED <<markup, blocks, recipes, parts, occurrences, uses, build>>
  BY DEF structureVars
<1>1. /\ BookOfBlocks' /\ RecipesKept' /\ FoundApart' /\ Indexes' = Indexes
      /\ \A c \in occurrences' : c.from \in Nat /\ c.to \in Nat
      /\ \A use \in uses' : Resolved(use)' /\ NoBlockShared' = NoBlockShared
      /\ \A r, i : FoundAt(r, i)' = FoundAt(r, i)
  BY <1>0, BookStays
<1>2. build' \in Interpreting' /\ OccurrencesKept' /\ UsesKept' /\ ProposingHolds' /\ FoundWhole'
  <2>1. build' \in Interpreting'
    BY <1>0 DEF StructureInv, Interpreting
  <2>2. OccurrencesKept' /\ UsesKept'
    BY <1>0, <1>1 DEF StructureInv, OccurrencesKept, UsesKept, Start
  <2>3. ProposingHolds' /\ FoundWhole'
    <3>1. ProposingHolds'
      <4>1. NoBlockShared => NoBlockShared'
        BY <1>0 DEF NoBlockShared
      <4>2. QED BY <1>0, <4>1 DEF StructureInv, ProposingHolds
    <3>2. (build.phase \in {"annotate", "read"} \/ Interpreted)' =>
              build.phase \in {"annotate", "read"} \/ Interpreted
      BY <1>0 DEF Interpreted
    <3>3. FoundWhole'
      BY <3>2, <1>0, <1>1 DEF StructureInv, FoundWhole
    <3>4. QED BY <3>1, <3>3
  <2>4. QED BY <2>1, <2>2, <2>3
<1>3. ReadingHolds'
  <2>1. Reading' = Reading
    BY <1>0 DEF Reading
  <2>2. QED BY <1>0, <1>1, <2>1 DEF StructureInv, ReadingHolds, NoEquipment, HasIngredient, InMethod, MethodKinds,
     BlocksBefore, PartKind, NamedPart, KindOf, IngredientRole, Start, End
<1>4. QED BY <1>1, <1>2, <1>3 DEF StructureInv

\* The invariant that the interpretation of a book keeps, block by block.
THEOREM StructureInvariant == StructureSpec => []StructureInv
<1>1. StructureInv /\ [StructureNext]_structureVars => StructureInv'
  BY InterpretKeeps, ProposeKeeps, ProposedKeeps, TakeRecipeKeeps, ReadLabelKeeps, ReadIngredientKeeps,
     ReadInstructionKeeps, PassBlockKeeps, RecipeReadKeeps, FindUsesKeeps, StructureStutters DEF StructureNext
<1>2. QED BY StructureBegins, <1>1, PTL DEF StructureSpec

\* What is found in a book is found once, however often it is interpreted and whatever a person
\* entered before, and every use leads where its link leads (book_interpret.py:712-808).
THEOREM InterpretationAlwaysHolds == StructureSpec => []InterpretationHolds
<1>1. StructureInv => InterpretationHolds
  <2> SUFFICES ASSUME StructureInv, Interpreted PROVE InterpretationHolds
    BY DEF InterpretationHolds, OccurrencesOnce, UsesResolve
  <2>1. (\A s \in Supported : s.recipes # recipes) => NoBlockShared
    BY DEF StructureInv, RecipesKept
  <2>2. build.queue = {}
    BY DEF Interpreted, StructureInv, UsesKept
  <2>3. \A r \in recipes : \A i \in r.blocks : FoundAt(r, i)
    BY <2>2 DEF StructureInv, FoundWhole
  <2>4. FoundApart /\ \A use \in uses : Resolved(use)
    BY DEF StructureInv, OccurrencesKept, UsesKept
  <2>5. QED BY <2>1, <2>3, <2>4 DEF InterpretationHolds, OccurrencesOnce, UsesResolve
<1>2. QED BY StructureInvariant, <1>1, PTL

----------------------------------------------------------------------------
(* Reading: the units that pages have passed *)

UnitTriple == Nat \X Nat \X Nat

StartOf(vol, part) == PlaceOf(vol.docs[part.doc], part.start)
StopOf(vol, part) == PlaceOf(vol.docs[part.doc], part.end)
NodesIn(vol, part) == 0..(Len(vol.docs[part.doc]) - 1)
NodeIn(vol, part, n) == vol.docs[part.doc][n + 1]
CharsIn(vol, part, n) == IF NodeIn(vol, part, n).kind = "text" THEN 1..NodeIn(vol, part, n).size ELSE {0}

\* A part of a document of the book; a text in which it ends has that many characters.
SoundPart(vol, part) ==
    /\ part.doc \in DOMAIN vol.docs
    /\ StartOf(vol, part) \in Nat \X Nat /\ StopOf(vol, part) \in Nat \X Nat
    /\ StopOf(vol, part)[1] \in NodesIn(vol, part) =>
           StopOf(vol, part)[2] <= NodeIn(vol, part, StopOf(vol, part)[1]).size

SoundParts(vol, sel) ==
    /\ Len(sel) \in Nat /\ DOMAIN sel = 1..Len(sel)
    /\ \A p \in DOMAIN sel : SoundPart(vol, sel[p])

\* The units before a position of a part.
PassedUnits(vol, sel, p, at) ==
    {u \in UnitsOf(vol, sel) :
        \/ u[1] < p
        \/ u[1] = p /\ (u[2] < at[1] \/ (u[2] = at[1] /\ 0 < u[3] /\ u[3] <= at[2]))}

SoundBook(vol) ==
    \A d \in DOMAIN vol.docs :
        /\ vol.docs[d] \in Seq([kind : {"element", "text"}, size : Nat, last : Nat])
        /\ vol.docs[d] # <<>>
        /\ vol.docs[d][1].last = Len(vol.docs[d]) - 1

LEMMA UnitIs ==
    ASSUME NEW vol, NEW sel, NEW p, NEW n, NEW i
    PROVE  <<p, n, i>> \in UnitsOf(vol, sel) <=>
               /\ p \in DOMAIN sel
               /\ n \in NodesIn(vol, sel[p]) /\ i \in CharsIn(vol, sel[p], n)
               /\ Between(StartOf(vol, sel[p]), StopOf(vol, sel[p]), n, i)
<1>1. ASSUME NEW q \in DOMAIN sel
      PROVE  <<p, n, i>> \in UnitsOfPart(vol, sel, q) <=>
               /\ p = q
               /\ n \in NodesIn(vol, sel[p]) /\ i \in CharsIn(vol, sel[p], n)
               /\ Between(StartOf(vol, sel[p]), StopOf(vol, sel[p]), n, i)
  <2> DEFINE units(m) == {<<q, m, c>> : c \in CharsIn(vol, sel[q], m)}
  <2>1. UnitsOfPart(vol, sel, q) =
          {u \in UNION {units(m) : m \in NodesIn(vol, sel[q])} :
              Between(StartOf(vol, sel[q]), StopOf(vol, sel[q]), u[2], u[3])}
    BY Zenon DEF UnitsOfPart, NodesIn, CharsIn, NodeIn, StartOf, StopOf
  <2>2. <<p, n, i>>[2] = n /\ <<p, n, i>>[3] = i
    OBVIOUS
  <2>3. <<p, n, i>> \in UNION {units(m) : m \in NodesIn(vol, sel[q])} <=>
          p = q /\ n \in NodesIn(vol, sel[q]) /\ i \in CharsIn(vol, sel[q], n)
    OBVIOUS
  <2> HIDE DEF units
  <2>4. QED BY <2>1, <2>2, <2>3, Zenon
<1>2. QED BY <1>1 DEF UnitsOf

LEMMA UnitsAreTriples ==
    ASSUME NEW vol, NEW sel, NEW u \in UnitsOf(vol, sel)
    PROVE  u = <<u[1], u[2], u[3]>>
<1>1. PICK q \in DOMAIN sel : u \in UnitsOfPart(vol, sel, q)
  BY DEF UnitsOf
<1>2. QED BY <1>1 DEF UnitsOfPart

\* A unit of a sound selection in numbers.
LEMMA UnitNumbers ==
    ASSUME NEW vol, SoundBook(vol), NEW sel, SoundParts(vol, sel), NEW u \in UnitsOf(vol, sel)
    PROVE  u \in UnitTriple /\ u[1] \in DOMAIN sel /\ u = <<u[1], u[2], u[3]>>
<1>1. u = <<u[1], u[2], u[3]>>
  BY UnitsAreTriples
<1>2. /\ u[1] \in DOMAIN sel
      /\ u[2] \in NodesIn(vol, sel[u[1]]) /\ u[3] \in CharsIn(vol, sel[u[1]], u[2])
  BY <1>1, UnitIs
<1> DEFINE doc == vol.docs[sel[u[1]].doc]
<1>3. doc \in Seq([kind : {"element", "text"}, size : Nat, last : Nat]) /\ u[1] \in Nat
  BY <1>2, SMTT(30) DEF SoundParts, SoundPart, SoundBook
<1>4. u[2] \in Nat /\ u[3] \in Nat
  <2>1. u[2] \in 0..(Len(doc) - 1) /\ u[3] \in IF doc[u[2] + 1].kind = "text" THEN 1..doc[u[2] + 1].size ELSE {0}
    BY <1>2 DEF NodesIn, CharsIn, NodeIn
  <2> HIDE DEF doc
  <2>2. u[2] \in Nat /\ u[2] + 1 \in 1..Len(doc)
    BY <1>3, <2>1
  <2>3. doc[u[2] + 1] \in [kind : {"element", "text"}, size : Nat, last : Nat]
    BY <1>3, <2>2, ElementOfSeq
  <2>4. QED BY <2>1, <2>2, <2>3
<1>5. QED BY <1>1, <1>2, <1>3, <1>4 DEF UnitTriple

\* Nothing is passed where a part begins that is not where the part before it ended.
LEMMA PassedAtStart ==
    ASSUME NEW vol, SoundBook(vol), NEW sel, SoundParts(vol, sel), NEW p \in DOMAIN sel
    PROVE  PassedUnits(vol, sel, p, StartOf(vol, sel[p])) = PassedUnits(vol, sel, p, <<-1, 0>>)
<1>1. StartOf(vol, sel[p]) \in Nat \X Nat
  BY DEF SoundParts, SoundPart
<1>2. ASSUME NEW u \in UnitsOf(vol, sel), u[1] = p
      PROVE  ~(u[2] < StartOf(vol, sel[p])[1] \/
               (u[2] = StartOf(vol, sel[p])[1] /\ 0 < u[3] /\ u[3] <= StartOf(vol, sel[p])[2]))
  <2>1. u \in UnitTriple /\ u = <<u[1], u[2], u[3]>>
    BY UnitNumbers
  <2>2. Between(StartOf(vol, sel[p]), StopOf(vol, sel[p]), u[2], u[3])
    BY <1>2, <2>1, UnitIs
  <2>3. QED BY <1>1, <2>1, <2>2 DEF Between, UnitTriple
<1>3. ASSUME NEW u \in UnitsOf(vol, sel)
      PROVE  ~(u[2] < <<-1, 0>>[1] \/ (u[2] = <<-1, 0>>[1] /\ 0 < u[3] /\ u[3] <= <<-1, 0>>[2]))
  <2>1. u \in UnitTriple
    BY UnitNumbers
  <2>2. QED BY <2>1 DEF UnitTriple
<1>4. QED BY <1>2, <1>3 DEF PassedUnits

\* A row that a part has left, in a document of the book.
HasRow(vol, sel, p, at) ==
    /\ at[1] <= StopOf(vol, sel[p])[1] /\ at[1] \in NodesIn(vol, sel[p])
    /\ ~(at[1] = StopOf(vol, sel[p])[1] /\ StopOf(vol, sel[p])[2] = 0)
RowEnd(vol, sel, p, at) ==
    IF at[1] = StopOf(vol, sel[p])[1] THEN StopOf(vol, sel[p])[2] ELSE NodeIn(vol, sel[p], at[1]).size

FromStart(vol, sel, p, at) ==
    \/ StartOf(vol, sel[p])[1] < at[1]
    \/ StartOf(vol, sel[p])[1] = at[1] /\ StartOf(vol, sel[p])[2] <= at[2]

\* The units of a row from a position on.
LEMMA RowUnits ==
    ASSUME NEW vol, SoundBook(vol), NEW sel, SoundParts(vol, sel), NEW p \in DOMAIN sel,
           NEW at \in Nat \X Nat, FromStart(vol, sel, p, at), HasRow(vol, sel, p, at), NEW i
    PROVE  /\ NodeIn(vol, sel[p], at[1]).kind = "text" =>
                  (<<p, at[1], i>> \in UnitsOf(vol, sel) /\ ~(0 < i /\ i <= at[2])
                   <=> i \in (at[2] + 1)..RowEnd(vol, sel, p, at))
           /\ NodeIn(vol, sel[p], at[1]).kind # "text" =>
                  (<<p, at[1], i>> \in UnitsOf(vol, sel) <=> i = 0)
           /\ RowEnd(vol, sel, p, at) \in Nat
<1> DEFINE from == StartOf(vol, sel[p])
           to == StopOf(vol, sel[p])
           size == NodeIn(vol, sel[p], at[1]).size
<1>1. from \in Nat \X Nat /\ to \in Nat \X Nat /\ (to[1] = at[1] => to[2] <= size)
  BY DEF SoundParts, SoundPart, HasRow
<1>2. size \in Nat
  <2> DEFINE doc == vol.docs[sel[p].doc]
  <2>1. doc \in Seq([kind : {"element", "text"}, size : Nat, last : Nat])
    BY DEF SoundParts, SoundPart, SoundBook
  <2>2. at[1] \in 0..(Len(doc) - 1) /\ size = doc[at[1] + 1].size
    BY DEF HasRow, NodesIn, NodeIn
  <2> HIDE DEF doc, size
  <2>3. at[1] + 1 \in 1..Len(doc)
    BY <2>1, <2>2
  <2>4. doc[at[1] + 1] \in [kind : {"element", "text"}, size : Nat, last : Nat]
    BY <2>1, <2>3, ElementOfSeq
  <2>5. QED BY <2>2, <2>4
<1>3. <<p, at[1], i>> \in UnitsOf(vol, sel) <=>
         i \in CharsIn(vol, sel[p], at[1]) /\ Between(from, to, at[1], i)
  BY UnitIs DEF HasRow
<1>4. /\ at[1] <= to[1] /\ ~(at[1] = to[1] /\ to[2] = 0)
      /\ from[1] < at[1] \/ (from[1] = at[1] /\ from[2] <= at[2])
      /\ RowEnd(vol, sel, p, at) = IF at[1] = to[1] THEN to[2] ELSE size
      /\ CharsIn(vol, sel[p], at[1]) = IF NodeIn(vol, sel[p], at[1]).kind = "text" THEN 1..size ELSE {0}
  BY DEF HasRow, FromStart, RowEnd, CharsIn
<1> HIDE DEF from, to, size
<1>5. QED BY <1>1, <1>2, <1>3, <1>4 DEF Between

LEMMA RowEndIs ==
    ASSUME NEW vol, SoundBook(vol), NEW sel, SoundParts(vol, sel), NEW p \in DOMAIN sel,
           NEW at \in Nat \X Nat, FromStart(vol, sel, p, at), HasRow(vol, sel, p, at)
    PROVE  RowEnd(vol, sel, p, at) \in Nat
  BY RowUnits

RowOf(vol, sel, p, at) ==
    IF NodeIn(vol, sel[p], at[1]).kind = "text"
    THEN {<<p, at[1], i>> : i \in (at[2] + 1)..RowEnd(vol, sel, p, at)} ELSE {<<p, at[1], 0>>}

\* A row that is taken is passed.
LEMMA RowTaken ==
    ASSUME NEW vol, SoundBook(vol), NEW sel, SoundParts(vol, sel), NEW p \in DOMAIN sel,
           NEW at \in Nat \X Nat, FromStart(vol, sel, p, at), HasRow(vol, sel, p, at)
    PROVE  PassedUnits(vol, sel, p, <<at[1] + 1, 0>>) =
               PassedUnits(vol, sel, p, at) \cup RowOf(vol, sel, p, at)
<1> DEFINE row == IF NodeIn(vol, sel[p], at[1]).kind = "text"
                  THEN {<<p, at[1], i>> : i \in (at[2] + 1)..RowEnd(vol, sel, p, at)} ELSE {<<p, at[1], 0>>}
<1>1. ASSUME NEW u \in UnitsOf(vol, sel)
      PROVE  u \in PassedUnits(vol, sel, p, <<at[1] + 1, 0>>) <=>
                 u \in PassedUnits(vol, sel, p, at) \/ u \in row
  <2>1. u \in UnitTriple /\ u = <<u[1], u[2], u[3]>> /\ p \in Nat
    BY UnitNumbers DEF SoundParts
  <2>2. u \in PassedUnits(vol, sel, p, <<at[1] + 1, 0>>) <=>
           u \in PassedUnits(vol, sel, p, at) \/
           (u[1] = p /\ u[2] = at[1] /\ ~(0 < u[3] /\ u[3] <= at[2]))
    BY <2>1 DEF PassedUnits, UnitTriple
  <2>3. u[1] = p /\ u[2] = at[1] => (u \in row <=> ~(0 < u[3] /\ u[3] <= at[2]) \/ NodeIn(vol, sel[p], at[1]).kind # "text")
    BY <2>1, RowUnits
  <2>4. u \in row => u[1] = p /\ u[2] = at[1]
    OBVIOUS
  <2>5. u[1] = p /\ u[2] = at[1] /\ NodeIn(vol, sel[p], at[1]).kind # "text" => u[3] = 0
    BY <2>1, RowUnits
  <2> HIDE DEF row
  <2>6. QED BY <2>2, <2>3, <2>4, <2>5
<1>2. row \subseteq UnitsOf(vol, sel)
  BY RowUnits
<1>3. row = RowOf(vol, sel, p, at)
  BY DEF RowOf
<1> HIDE DEF row
<1>4. PassedUnits(vol, sel, p, <<at[1] + 1, 0>>) = PassedUnits(vol, sel, p, at) \cup row
  BY <1>1, <1>2 DEF PassedUnits
<1>5. QED BY <1>3, <1>4

\* A text that is split is passed so far.
LEMMA TextPassed ==
    ASSUME NEW vol, SoundBook(vol), NEW sel, SoundParts(vol, sel), NEW p \in DOMAIN sel,
           NEW at \in Nat \X Nat, FromStart(vol, sel, p, at), HasRow(vol, sel, p, at),
           NodeIn(vol, sel[p], at[1]).kind = "text",
           NEW to \in Nat, at[2] <= to, to <= RowEnd(vol, sel, p, at)
    PROVE  PassedUnits(vol, sel, p, <<at[1], to>>) =
               PassedUnits(vol, sel, p, at) \cup {<<p, at[1], i>> : i \in (at[2] + 1)..to}
<1> DEFINE row == {<<p, at[1], i>> : i \in (at[2] + 1)..to}
<1>1. ASSUME NEW u \in UnitsOf(vol, sel)
      PROVE  u \in PassedUnits(vol, sel, p, <<at[1], to>>) <=>
                 u \in PassedUnits(vol, sel, p, at) \/ u \in row
  <2>1. u \in UnitTriple /\ u = <<u[1], u[2], u[3]>> /\ p \in Nat
    BY UnitNumbers DEF SoundParts
  <2>2. u \in PassedUnits(vol, sel, p, <<at[1], to>>) <=>
           u \in PassedUnits(vol, sel, p, at) \/
           (u[1] = p /\ u[2] = at[1] /\ at[2] < u[3] /\ u[3] <= to)
    BY <2>1 DEF PassedUnits, UnitTriple
  <2>3. u \in row <=> u[1] = p /\ u[2] = at[1] /\ u[3] \in (at[2] + 1)..to
    BY <2>1
  <2>4. u[3] \in (at[2] + 1)..to <=> at[2] < u[3] /\ u[3] <= to
    BY <2>1 DEF UnitTriple
  <2> HIDE DEF row
  <2>5. QED BY <2>2, <2>3, <2>4
<1>2. row \subseteq UnitsOf(vol, sel)
  <2>1. RowEnd(vol, sel, p, at) \in Nat
    BY RowUnits
  <2>2. ASSUME NEW i \in (at[2] + 1)..to PROVE i \in (at[2] + 1)..RowEnd(vol, sel, p, at)
    BY <2>1
  <2>3. QED BY <2>2, RowUnits
<1>3. QED BY <1>1, <1>2 DEF PassedUnits

\* A part without a row left is passed.
LEMMA PartPassed ==
    ASSUME NEW vol, SoundBook(vol), NEW sel, SoundParts(vol, sel), NEW p \in DOMAIN sel,
           NEW at \in Nat \X Nat, ~HasRow(vol, sel, p, at)
    PROVE  PassedUnits(vol, sel, p + 1, <<-1, 0>>) = PassedUnits(vol, sel, p, at)
<1> DEFINE to == StopOf(vol, sel[p])
           doc == vol.docs[sel[p].doc]
<1>1. to \in Nat \X Nat /\ Len(doc) \in Nat /\ NodesIn(vol, sel[p]) = 0..(Len(doc) - 1)
  BY DEF SoundParts, SoundPart, SoundBook, NodesIn
<1>2. ASSUME NEW u \in UnitsOf(vol, sel)
      PROVE  u \in PassedUnits(vol, sel, p + 1, <<-1, 0>>) <=> u \in PassedUnits(vol, sel, p, at)
  <2>1. u \in UnitTriple /\ u = <<u[1], u[2], u[3]>> /\ p \in Nat
    BY UnitNumbers DEF SoundParts
  <2>2. u[1] = p => u[2] < at[1]  \/ (u[2] = at[1] /\ 0 < u[3] /\ u[3] <= at[2])
    <3>1. u[1] = p => u[2] \in NodesIn(vol, sel[p]) /\ Between(StartOf(vol, sel[p]), to, u[2], u[3])
      BY <2>1, UnitIs
    <3>2. ~(at[1] <= to[1] /\ at[1] \in 0..(Len(doc) - 1) /\ ~(at[1] = to[1] /\ to[2] = 0))
      BY <1>1 DEF HasRow
    <3> HIDE DEF to, doc
    <3>3. QED BY <1>1, <2>1, <3>1, <3>2 DEF Between, UnitTriple
  <2>3. QED BY <2>1, <2>2 DEF PassedUnits, UnitTriple
<1>3. QED BY <1>2 DEF PassedUnits

LEMMA AllPassed ==
    ASSUME NEW vol, SoundBook(vol), NEW sel, SoundParts(vol, sel), NEW p \in Nat, p > Len(sel), NEW at
    PROVE  PassedUnits(vol, sel, p, at) = UnitsOf(vol, sel)
<1>1. ASSUME NEW u \in UnitsOf(vol, sel) PROVE u[1] < p
  BY UnitNumbers DEF SoundParts
<1>2. QED BY <1>1 DEF PassedUnits

LEMMA NonePassed ==
    ASSUME NEW vol, SoundBook(vol), NEW sel, SoundParts(vol, sel), NEW p \in {0, 1}
    PROVE  PassedUnits(vol, sel, p, <<-1, 0>>) = {} /\ PassedUnits(vol, sel, 0, <<0, 0>>) = {}
<1>1. ASSUME NEW u \in UnitsOf(vol, sel) PROVE u \in UnitTriple /\ u[1] >= 1
  BY UnitNumbers DEF SoundParts
<1>2. QED BY <1>1 DEF PassedUnits, UnitTriple

----------------------------------------------------------------------------
(* Reading: what is selected is in the book *)

LEMMA ActiveBook ==
    ASSUME activeBook \in 1..(SourceChanges + 1)
    PROVE  /\ SoundBook(Book)
           /\ Len(Book.spine) \in Nat /\ DOMAIN Book.spine = 1..Len(Book.spine)
           /\ \A o \in DOMAIN Book.spine : Book.spine[o] \in DOMAIN Book.docs
           /\ \A v \in Book.nav : /\ v = <<v[1], v[2]>> /\ v[1] \in DOMAIN Book.docs
                                  /\ v[2] \in 0..(Len(Book.docs[v[1]]) - 1)
<1>1. Book.spine \in Seq(DOMAIN Book.docs)
  BY BookAssumption DEF Book
<1>2. \A v \in Book.nav : /\ v = <<v[1], v[2]>> /\ v[1] \in DOMAIN Book.docs
                          /\ v[2] \in 0..(Len(Book.docs[v[1]]) - 1)
  BY BookAssumption, Zenon DEF Book
<1>3. SoundBook(Book)
  BY BookAssumption, Zenon DEF Book, SoundBook
<1> HIDE DEF Book
<1>4. QED BY <1>1, <1>2, <1>3

\* A document has a root, over which its nodes are, each with a size.
LEMMA DocumentNodes ==
    ASSUME NEW vol, SoundBook(vol), NEW d \in DOMAIN vol.docs
    PROVE  /\ Len(vol.docs[d]) \in Nat /\ 0 \in 0..(Len(vol.docs[d]) - 1)
           /\ \A n \in 0..(Len(vol.docs[d]) - 1) :
                  vol.docs[d][n + 1].size \in Nat /\ vol.docs[d][n + 1].last \in Nat
<1> DEFINE doc == vol.docs[d]
<1>1. doc \in Seq([kind : {"element", "text"}, size : Nat, last : Nat]) /\ doc # <<>>
  BY DEF SoundBook
<1> HIDE DEF doc
<1>2. Len(doc) \in Nat /\ 0 \in 0..(Len(doc) - 1)
  BY <1>1, EmptySeq, LenProperties
<1>3. ASSUME NEW n \in 0..(Len(doc) - 1) PROVE doc[n + 1].size \in Nat /\ doc[n + 1].last \in Nat
  <2>1. n + 1 \in 1..Len(doc)
    BY <1>2
  <2>2. doc[n + 1] \in [kind : {"element", "text"}, size : Nat, last : Nat]
    BY <1>1, <2>1, ElementOfSeq
  <2>3. QED BY <2>2
<1>4. QED BY <1>2, <1>3 DEF doc

LEMMA BoundedIsSound ==
    ASSUME NEW vol, SoundBook(vol), NEW part, BoundedPart(vol, part)
    PROVE  SoundPart(vol, part)
<1> DEFINE doc == vol.docs[part.doc]
<1>1. /\ part.doc \in DOMAIN vol.docs /\ Len(doc) \in Nat
      /\ \A n \in 0..(Len(doc) - 1) : doc[n + 1].size \in Nat /\ doc[n + 1].last \in Nat
  BY DocumentNodes DEF BoundedPart
<1>2. ASSUME NEW pos \in {part.start, part.end}
      PROVE  /\ PlaceOf(doc, pos) \in Nat \X Nat
             /\ PlaceOf(doc, pos)[1] \in 0..(Len(doc) - 1) => PlaceOf(doc, pos)[2] <= doc[PlaceOf(doc, pos)[1] + 1].size
  <2>1. pos.node \in 0..(Len(doc) - 1) /\ pos.side \in Sides /\ pos.offset \in 0..doc[pos.node + 1].size
    BY DEF BoundedPart
  <2> HIDE DEF doc
  <2>2. CASE pos.side = "before"
    <3>1. PlaceOf(doc, pos) = <<pos.node, 0>>
      BY <2>2 DEF PlaceOf
    <3>2. QED BY <1>1, <2>1, <3>1
  <2>3. CASE pos.side = "after"
    <3>1. PlaceOf(doc, pos) = <<doc[pos.node + 1].last + 1, 0>>
      BY <2>3 DEF PlaceOf
    <3>2. doc[pos.node + 1].last \in Nat
      BY <1>1, <2>1
    <3>3. QED BY <1>1, <3>1, <3>2, SMTT(30)
  <2>4. CASE pos.side = "text_offset"
    <3>1. PlaceOf(doc, pos) = <<pos.node, pos.offset>>
      BY <2>4 DEF PlaceOf
    <3>2. pos.node \in Nat /\ pos.offset \in Nat /\ pos.offset <= doc[pos.node + 1].size
      BY <1>1, <2>1
    <3>3. QED BY <3>1, <3>2
  <2>5. QED BY <2>1, <2>2, <2>3, <2>4 DEF Sides
<1>3. QED BY <1>1, <1>2 DEF SoundPart, StartOf, StopOf, NodesIn, NodeIn

\* Parts between nodes of one document.
LEMMA NodesBound ==
    ASSUME NEW vol, SoundBook(vol), NEW d \in DOMAIN vol.docs,
           NEW n \in 0..(Len(vol.docs[d]) - 1), NEW m \in 0..(Len(vol.docs[d]) - 1),
           NEW to \in {BeforeNode(m), AfterNode(m)}
    PROVE  BoundedPart(vol, PartOf(d, BeforeNode(n), to))
<1>1. 0 \in 0..vol.docs[d][n + 1].size /\ 0 \in 0..vol.docs[d][m + 1].size
  BY DocumentNodes
<1>2. QED BY <1>1 DEF BoundedPart, PartOf, BeforeNode, AfterNode, SideOf, Sides

\* Visits of documents have an earliest one.
LEMMA FirstVisitIs ==
    ASSUME NEW S \in SUBSET (Nat \X Nat), S # {}
    PROVE  FirstVisit(S) \in S /\ \A w \in S : ~Earlier(w, FirstVisit(S))
<1> DEFINE firsts == {v[1] : v \in S}
           seconds(o) == {v[2] : v \in {w \in S : w[1] = o}}
<1>a. firsts \subseteq Nat /\ firsts # {}
  OBVIOUS
<1>1. PICK o \in firsts : \A p \in firsts : o <= p
  <2> HIDE DEF firsts
  <2>1. QED BY <1>a, NatMinimum
<1>b. seconds(o) \subseteq Nat /\ seconds(o) # {}
  BY <1>1
<1>2. PICK n \in seconds(o) : \A m \in seconds(o) : n <= m
  <2> HIDE DEF seconds
  <2>1. QED BY <1>b, NatMinimum
<1>3. <<o, n>> \in S
  BY <1>2
<1>4. ASSUME NEW w \in S PROVE ~Earlier(w, <<o, n>>)
  <2>1. w \in Nat \X Nat /\ o \in Nat /\ n \in Nat /\ o <= w[1]
    BY <1>1, <1>3
  <2>2. w[1] = o => n <= w[2]
    BY <1>2
  <2>3. QED BY <2>1, <2>2 DEF Earlier
<1>5. QED BY <1>3, <1>4 DEF FirstVisit

LEMMA DestinationsAre ==
    ASSUME activeBook \in 1..(SourceChanges + 1), NEW v \in Destinations
    PROVE  /\ v = <<v[1], v[2]>> /\ v[1] \in DOMAIN Book.spine /\ <<Book.spine[v[1]], v[2]>> \in Book.nav
           /\ v[2] \in 0..(Len(Book.docs[Book.spine[v[1]]]) - 1) /\ v \in Nat \X Nat
<1>1. PICK o \in DOMAIN Book.spine, w \in Book.nav : w[1] = Book.spine[o] /\ v = <<o, w[2]>>
  BY DEF Destinations
<1>2. w = <<w[1], w[2]>> /\ w[1] \in DOMAIN Book.docs /\ w[2] \in 0..(Len(Book.docs[w[1]]) - 1)
  BY ActiveBook
<1>3. v[1] = o /\ v[2] = w[2] /\ o \in Nat /\ w[2] \in Nat
  BY <1>1, <1>2, ActiveBook, DocumentNodes
<1>4. QED BY <1>1, <1>2, <1>3

\* Where a chapter ends: with the reading order, or where the next destination is.
ChapterEnds(first, n, stop, to) ==
    \/ /\ Following(first, n) = {} /\ stop = Len(Book.spine)
       /\ to = [o \in DOMAIN Book.spine |-> AfterNode(0)]
    \/ \E v \in Following(first, n) :
           /\ \A w \in Following(first, n) : ~Earlier(w, v)
           /\ stop = IF v[2] = 0 THEN v[1] - 1 ELSE v[1]
           /\ to = [o \in DOMAIN Book.spine |-> IF o = v[1] THEN BeforeNode(v[2]) ELSE AfterNode(0)]

ChapterIs(chapter, first, n, stop, to) ==
    /\ stop - first + 1 \in Nat /\ DOMAIN chapter = 1..(stop - first + 1) /\ Len(chapter) = stop - first + 1
    /\ \A i \in 1..(stop - first + 1) :
           /\ first + i - 1 \in first..stop /\ first + i - 1 \in DOMAIN Book.spine
           /\ chapter[i] = PartOf(Book.spine[first + i - 1],
                                  BeforeNode(IF i = 1 THEN n ELSE 0), to[first + i - 1])

LEMMA ChapterParts ==
    ASSUME activeBook \in 1..(SourceChanges + 1), NEW d, NEW n \in Nat, ~Ambiguous(d, n)
    PROVE  \E first, stop \in DOMAIN Book.spine : \E to :
               /\ Book.spine[first] = d /\ first <= stop
               /\ ChapterEnds(first, n, stop, to) /\ ChapterIs(NavigationParts(d, n), first, n, stop, to)
<1> DEFINE first == CHOOSE o \in OccurrencesOf(d) : TRUE
           next == Following(first, n)
           v == FirstVisit(next)
           stop == IF next = {} THEN Len(Book.spine) ELSE IF v[2] = 0 THEN v[1] - 1 ELSE v[1]
           to == [o \in DOMAIN Book.spine |-> IF next # {} /\ v[1] = o THEN BeforeNode(v[2]) ELSE AfterNode(0)]
           chapter == NavigationParts(d, n)
<1>1. Len(Book.spine) \in Nat /\ DOMAIN Book.spine = 1..Len(Book.spine)
  BY ActiveBook
<1>2. first \in DOMAIN Book.spine /\ Book.spine[first] = d
  <2>1. OccurrencesOf(d) # {}
    BY FS_EmptySet DEF Ambiguous
  <2>2. QED BY <2>1 DEF OccurrencesOf
<1>3. next # {} => v \in next /\ \A w \in next : ~Earlier(w, v)
  <2>1. next \subseteq Nat \X Nat
    BY DestinationsAre DEF Following
  <2>2. QED BY <2>1, FirstVisitIs
<1>4. next # {} => /\ v[1] \in DOMAIN Book.spine /\ v[2] \in Nat
                   /\ first < v[1] \/ (first = v[1] /\ n < v[2])
  BY <1>3, DestinationsAre DEF Following, Earlier
<1>5. chapter = [i \in 1..(stop - first + 1) |->
                    PartOf(Book.spine[first + i - 1],
                           BeforeNode(IF first + i - 1 = first THEN n ELSE 0),
                           IF next # {} /\ v[1] = first + i - 1 THEN BeforeNode(v[2]) ELSE AfterNode(0))]
  BY Zenon DEF NavigationParts
<1> HIDE DEF first, next, v
<1>6. stop \in DOMAIN Book.spine /\ first <= stop /\ stop - first + 1 \in Nat
  <2>1. CASE next = {}
    BY <1>1, <1>2, <2>1
  <2>2. CASE next # {}
    <3>1. stop = IF v[2] = 0 THEN v[1] - 1 ELSE v[1]
      BY <2>2
    <3> HIDE DEF stop
    <3>2. /\ first \in 1..Len(Book.spine) /\ v[1] \in 1..Len(Book.spine) /\ v[2] \in Nat
          /\ first < v[1] \/ (first = v[1] /\ n < v[2])
      BY <1>1, <1>2, <1>4, <2>2
    <3>3. stop \in 1..Len(Book.spine) /\ first <= stop /\ stop - first + 1 \in Nat
      <4>1. CASE v[2] = 0
        <5>1. stop = v[1] - 1 /\ first < v[1]
          BY <3>1, <3>2, <4>1
        <5>2. QED BY <1>1, <3>2, <5>1
      <4>2. CASE v[2] # 0
        <5>1. stop = v[1] /\ first <= v[1]
          BY <1>1, <3>1, <3>2, <4>2
        <5>2. QED BY <1>1, <3>2, <5>1
      <4>3. QED BY <4>1, <4>2
    <3>4. QED BY <1>1, <3>3
  <2>3. QED BY <2>1, <2>2
<1>7. ChapterEnds(first, n, stop, to)
  <2>1. CASE next = {}
    <3>1. stop = Len(Book.spine) /\ to = [o \in DOMAIN Book.spine |-> AfterNode(0)]
      BY <2>1
    <3>2. QED BY <2>1, <3>1 DEF ChapterEnds, next
  <2>2. CASE next # {}
    <3>1. /\ stop = IF v[2] = 0 THEN v[1] - 1 ELSE v[1]
          /\ to = [o \in DOMAIN Book.spine |-> IF o = v[1] THEN BeforeNode(v[2]) ELSE AfterNode(0)]
      BY <2>2
    <3> HIDE DEF stop, to
    <3>2. QED BY <1>3, <2>2, <3>1 DEF ChapterEnds, next
  <2>3. QED BY <2>1, <2>2
<1> HIDE DEF stop
<1>8. Len(chapter) = stop - first + 1 /\ DOMAIN chapter = 1..(stop - first + 1)
  BY <1>5, <1>6
<1>9. ASSUME NEW i \in 1..(stop - first + 1)
      PROVE  /\ first + i - 1 \in first..stop /\ first + i - 1 \in DOMAIN Book.spine
             /\ chapter[i] = PartOf(Book.spine[first + i - 1],
                                    BeforeNode(IF i = 1 THEN n ELSE 0), to[first + i - 1])
  <2>1. first + i - 1 \in first..stop /\ first + i - 1 \in DOMAIN Book.spine /\ (first + i - 1 = first <=> i = 1)
    BY <1>1, <1>2, <1>6
  <2>2. to[first + i - 1] = IF next # {} /\ v[1] = first + i - 1 THEN BeforeNode(v[2]) ELSE AfterNode(0)
    BY <2>1
  <2>3. QED BY <1>5, <2>1, <2>2, Zenon
<1> HIDE DEF to, chapter
<1>10. ChapterIs(chapter, first, n, stop, to)
  BY <1>6, <1>8, <1>9 DEF ChapterIs
<1>11. QED BY <1>2, <1>6, <1>7, <1>10 DEF chapter

\* Whatever a reader asks for is parts of the book.
LEMMA SelectionIsSound ==
    ASSUME activeBook \in 1..(SourceChanges + 1), NEW t, Available(t)
    PROVE  SoundParts(Book, Selection(t))
<1>1. SoundBook(Book)
  BY ActiveBook
<1>2. ASSUME NEW d \in DOMAIN Book.docs, NEW n \in NodesOf(d), NEW m \in NodesOf(d), NEW to \in {BeforeNode(m), AfterNode(m)}
      PROVE  SoundParts(Book, <<PartOf(d, BeforeNode(n), to)>>)
  <2>1. SoundPart(Book, PartOf(d, BeforeNode(n), to))
    BY <1>1, NodesBound, BoundedIsSound DEF NodesOf
  <2>2. QED BY <2>1 DEF SoundParts
<1>3. \A d \in DOMAIN Book.docs : 0 \in NodesOf(d)
  BY <1>1, DocumentNodes DEF NodesOf
<1>4. CASE t.kind = "occurrence"
  <2>1. Book.spine[t.at] \in DOMAIN Book.docs /\ Selection(t) = WholeDocument(Book.spine[t.at])
    BY <1>4, ActiveBook DEF Available, Selection
  <2>2. QED BY <1>2, <1>3, <2>1 DEF WholeDocument
<1>5. CASE t.kind = "node"
  <2>1. t.at[1] \in DOMAIN Book.docs /\ t.at[2] \in NodesOf(t.at[1])
        /\ Selection(t) = <<PartOf(t.at[1], BeforeNode(t.at[2]), AfterNode(t.at[2]))>>
    BY <1>5 DEF Available, Selection
  <2>2. QED BY <1>2, <2>1
<1>6. CASE t.kind = "nav"
  <2> DEFINE d == t.at[1]
             n == t.at[2]
  <2>1. d \in DOMAIN Book.docs /\ n \in NodesOf(d) /\ n \in Nat /\ Selection(t) = Chapter(d, n)
    BY <1>6, ActiveBook, DocumentNodes DEF Available, Selection, NodesOf
  <2> HIDE DEF d, n
  <2>2. CASE Ambiguous(d, n)
    <3> DEFINE later == {m \in NodesOf(d) : <<d, m>> \in Book.nav /\ m > n}
               end == CHOOSE m \in later : \A k \in later : m <= k
    <3>1. Selection(t) = <<PartOf(d, BeforeNode(n), IF later = {} THEN AfterNode(0) ELSE BeforeNode(end))>>
      BY <2>1, <2>2, Zenon DEF Chapter, WithinDocument
    <3>2. later # {} => end \in NodesOf(d)
      <4>1. later \subseteq Nat
        BY <1>1, <2>1, DocumentNodes DEF NodesOf
      <4>2. later # {} => \E m \in later : \A k \in later : m <= k
        BY <4>1, NatMinimum
      <4>3. QED BY <4>2
    <3> HIDE DEF later, end
    <3>3. CASE later = {}
      BY <1>2, <1>3, <2>1, <3>1, <3>3
    <3>4. CASE later # {}
      BY <1>2, <2>1, <3>1, <3>2, <3>4
    <3>5. QED BY <3>3, <3>4
  <2>3. CASE ~Ambiguous(d, n)
    <3>1. Selection(t) = NavigationParts(d, n)
      BY <2>1, <2>3 DEF Chapter
    <3>2. PICK first, stop \in DOMAIN Book.spine : \E to :
               /\ Book.spine[first] = d /\ first <= stop
               /\ ChapterEnds(first, n, stop, to) /\ ChapterIs(NavigationParts(d, n), first, n, stop, to)
      BY <2>1, <2>3, ChapterParts
    <3>a. PICK to : ChapterEnds(first, n, stop, to) /\ ChapterIs(NavigationParts(d, n), first, n, stop, to)
      BY <3>2
    <3>3. ASSUME NEW o \in DOMAIN Book.spine
          PROVE  \E m \in NodesOf(Book.spine[o]) : to[o] \in {BeforeNode(m), AfterNode(m)}
      <4>1. 0 \in NodesOf(Book.spine[o])
        BY <1>3, ActiveBook
      <4>2. ASSUME NEW v \in Following(first, n) PROVE v[2] \in NodesOf(Book.spine[v[1]])
        BY DestinationsAre DEF Following, NodesOf
      <4>3. QED BY <3>a, <4>1, <4>2 DEF ChapterEnds
    <3>4. ASSUME NEW i \in DOMAIN NavigationParts(d, n)
          PROVE  SoundPart(Book, NavigationParts(d, n)[i])
      <4> DEFINE o == first + i - 1
                 e == Book.spine[o]
                 from == IF i = 1 THEN n ELSE 0
      <4>1. o \in DOMAIN Book.spine /\ NavigationParts(d, n)[i] = PartOf(e, BeforeNode(from), to[o]) /\ (i = 1 => o = first)
        BY <3>2, <3>a, ActiveBook DEF ChapterIs
      <4>2. e \in DOMAIN Book.docs
        BY <4>1, ActiveBook
      <4>3. from \in NodesOf(e)
        BY <1>3, <2>1, <3>2, <4>1, <4>2
      <4>4. PICK m \in NodesOf(e) : to[o] \in {BeforeNode(m), AfterNode(m)}
        BY <3>3, <4>1
      <4> HIDE DEF o, e, from
      <4>5. BoundedPart(Book, PartOf(e, BeforeNode(from), to[o]))
        BY <1>1, <4>2, <4>3, <4>4, NodesBound DEF NodesOf
      <4>6. QED BY <1>1, <4>1, <4>5, BoundedIsSound
    <3>5. Len(NavigationParts(d, n)) \in Nat /\ DOMAIN NavigationParts(d, n) = 1..Len(NavigationParts(d, n))
      BY <3>a DEF ChapterIs
    <3>6. QED BY <3>1, <3>4, <3>5 DEF SoundParts
  <2>4. QED BY <2>2, <2>3
<1>7. CASE t.kind \notin {"occurrence", "node", "nav"}
  <2> DEFINE sel == Book.entities[t.at]
  <2>1. t.at \in DOMAIN Book.entities /\ Selection(t) = sel
    BY <1>7 DEF Available, Selection
  <2>2. sel \in Seq({sel[i] : i \in DOMAIN sel}) /\ \A i \in DOMAIN sel : BoundedPart(Book, sel[i])
    BY <2>1, BookAssumption, Zenon DEF Book
  <2> HIDE DEF sel
  <2>3. Len(sel) \in Nat /\ DOMAIN sel = 1..Len(sel)
    BY <2>2, LenProperties
  <2>4. QED BY <1>1, <2>1, <2>2, <2>3, BoundedIsSound DEF SoundParts
<1>8. QED BY <1>4, <1>5, <1>6, <1>7

----------------------------------------------------------------------------
(* Reading: the invariant *)

ReadCall == [bytes : Nat, left : Nat, used : Int, given : Nat, cited : BOOLEAN, part : Nat, at : Int \X Nat]

AskedBook == BookOf[reading.asked]
PassedBy(p, at) == PassedUnits(AskedBook, reading.parts, p, at)
InPart(p, at) == /\ p \in DOMAIN reading.parts /\ at \in Nat \X Nat
                 /\ FromStart(AskedBook, reading.parts, p, at)
InSequence(got) == \A i, j \in DOMAIN got : i < j => UnitBefore(got[i], got[j])

ReadTyped ==
    /\ activeBook \in 1..(SourceChanges + 1) /\ reading.asked \in 0..(SourceChanges + 1)
    /\ reading = [state |-> reading.state, target |-> reading.target, asked |-> reading.asked,
                  parts |-> reading.parts, cursor |-> reading.cursor, got |-> reading.got]
    /\ reading.state \in {"none", "open", "read"}
    /\ reading.got \in Seq(UnitTriple) /\ call \in ReadCall \cup {NoCall}

\* Before the first call nothing has been given; afterwards the parts are those of the book asked.
AskedHolds ==
    /\ reading.asked = 0 => /\ reading.got = <<>> /\ reading.cursor = NoCursor
                            /\ call = NoCall /\ reading.state # "read"
    /\ reading.asked # 0 => SoundParts(AskedBook, reading.parts)

\* The cursor is where the pages given so far end, unless nothing is left.
CursorHolds ==
    /\ reading.cursor # NoCursor => InPart(reading.cursor.part, reading.cursor.at)
    /\ reading.state # "read" /\ call = NoCall /\ reading.asked # 0 =>
           GotUnits = PassedBy(reading.cursor.part, reading.cursor.at)
    /\ reading.state = "read" => call = NoCall /\ GotUnits = UnitsOf(AskedBook, reading.parts)

\* A call that is answered reads the active book, and has given what is before where it is.
CallHolds == call # NoCall =>
    /\ reading.asked = activeBook /\ reading.state = "open"
    /\ call.part \in 1..(Len(reading.parts) + 1)
    /\ (call.at = <<-1, 0>> /\ ~call.cited) \/ InPart(call.part, call.at)
    /\ GotUnits = PassedBy(call.part, call.at)
    /\ call.given = 0 => GotUnits = PassedBy(reading.cursor.part, reading.cursor.at)

ReadInv == ReadTyped /\ AskedHolds /\ CursorHolds /\ CallHolds /\ InSequence(reading.got)

LEMMA AskedBookIsSound ==
    ASSUME ReadTyped, reading.asked # 0
    PROVE  SoundBook(AskedBook)
<1>1. reading.asked \in 1..(SourceChanges + 1)
  BY DEF ReadTyped
<1>2. QED BY <1>1, BookAssumption, Zenon DEF AskedBook, SoundBook

\* What the call that is answered sees, in terms of the selection.
LEMMA CallSees ==
    ASSUME ReadInv, call # NoCall
    PROVE  /\ AskedBook = Book /\ SoundBook(Book) /\ SoundParts(Book, reading.parts)
           /\ call \in ReadCall /\ reading.state = "open" /\ Len(reading.parts) \in Nat
           /\ call.part <= Len(reading.parts) => call.part \in DOMAIN reading.parts
           /\ Lo(CurrentPart) = StartOf(Book, reading.parts[call.part])
           /\ Hi(CurrentPart) = StopOf(Book, reading.parts[call.part])
           /\ RowLeft <=> HasRow(Book, reading.parts, call.part, call.at)
           /\ EndOf(CurrentRow) = RowEnd(Book, reading.parts, call.part, call.at)
           /\ IsText <=> NodeIn(Book, reading.parts[call.part], call.at[1]).kind = "text"
<1>1. reading.asked = activeBook /\ reading.state = "open" /\ call \in ReadCall
      /\ call.part \in 1..(Len(reading.parts) + 1) /\ reading.asked # 0
  BY DEF ReadInv, ReadTyped, CallHolds
<1>2. AskedBook = Book /\ SoundBook(Book) /\ SoundParts(Book, reading.parts)
  BY <1>1, AskedBookIsSound DEF ReadInv, AskedHolds, AskedBook, Book
<1>3. call.part <= Len(reading.parts) => call.part \in DOMAIN reading.parts
  BY <1>1, <1>2 DEF SoundParts
<1>4. /\ Lo(CurrentPart) = StartOf(Book, reading.parts[call.part])
      /\ Hi(CurrentPart) = StopOf(Book, reading.parts[call.part])
  BY Zenon DEF Lo, Hi, Position, StartOf, StopOf, PlaceOf, CurrentPart, ReadParts, NodeAt
<1>5. RowLeft <=> HasRow(Book, reading.parts, call.part, call.at)
  BY <1>4 DEF RowLeft, HasRow, NodesOf, NodesIn, CurrentPart, ReadParts
<1>6. EndOf(CurrentRow) = RowEnd(Book, reading.parts, call.part, call.at)
  BY <1>4 DEF EndOf, RowEnd, NodeAt, NodeIn, CurrentPart, ReadParts
<1>7. IsText <=> NodeIn(Book, reading.parts[call.part], call.at[1]).kind = "text"
  BY DEF IsText, CurrentRow, NodeAt, NodeIn, CurrentPart, ReadParts
<1>8. QED BY <1>1, <1>2, <1>3, <1>4, <1>5, <1>6, <1>7 DEF SoundParts

\* What is given of a row is put behind what was given before.
LEMMA GotExtends ==
    ASSUME NEW got \in Seq(UnitTriple), InSequence(got), NEW given \in Seq(UnitTriple), InSequence(given),
           \A i \in DOMAIN got, j \in DOMAIN given : UnitBefore(got[i], given[j])
    PROVE  /\ got \o given \in Seq(UnitTriple) /\ InSequence(got \o given)
           /\ {(got \o given)[i] : i \in DOMAIN (got \o given)}
              = {got[i] : i \in DOMAIN got} \cup {given[i] : i \in DOMAIN given}
<1>1. /\ got \o given \in Seq(UnitTriple) /\ Len(got \o given) = Len(got) + Len(given)
      /\ \A k \in 1..(Len(got) + Len(given)) :
             (got \o given)[k] = IF k <= Len(got) THEN got[k] ELSE given[k - Len(got)]
  BY ConcatProperties
<1>2. /\ DOMAIN got = 1..Len(got) /\ DOMAIN given = 1..Len(given) /\ DOMAIN (got \o given) = 1..(Len(got) + Len(given))
      /\ Len(got) \in Nat /\ Len(given) \in Nat
  BY <1>1, LenProperties
<1> DEFINE all == got \o given
<1>3. ASSUME NEW k \in DOMAIN all
      PROVE  \/ k \in DOMAIN got /\ all[k] = got[k]
             \/ k > Len(got) /\ k - Len(got) \in DOMAIN given /\ all[k] = given[k - Len(got)]
  BY <1>1, <1>2
<1>4. \A k \in DOMAIN got : k \in DOMAIN all /\ all[k] = got[k]
  BY <1>1, <1>2
<1>5. ASSUME NEW k \in DOMAIN given PROVE k + Len(got) \in DOMAIN all /\ all[k + Len(got)] = given[k]
  <2>1. k + Len(got) \in 1..(Len(got) + Len(given)) /\ ~(k + Len(got) <= Len(got)) /\ k + Len(got) - Len(got) = k
    BY <1>2
  <2>2. QED BY <1>1, <1>2, <2>1
<1>6. DOMAIN all \subseteq Nat /\ DOMAIN got = 1..Len(got)
  BY <1>2
<1> HIDE DEF all
<1>7. InSequence(all)
  <2> SUFFICES ASSUME NEW i \in DOMAIN all, NEW j \in DOMAIN all, i < j PROVE UnitBefore(all[i], all[j])
    BY DEF InSequence
  <2>1. CASE i \in DOMAIN got /\ j \in DOMAIN got
    BY <1>4, <2>1 DEF InSequence
  <2>2. CASE i \in DOMAIN got /\ j \notin DOMAIN got
    BY <1>3, <1>4, <2>2
  <2>3. CASE i \notin DOMAIN got
    <3>1. i > Len(got) /\ i - Len(got) \in DOMAIN given /\ all[i] = given[i - Len(got)]
      BY <1>3, <2>3
    <3>2. j \notin DOMAIN got
      BY <1>2, <1>6, <3>1
    <3>3. j - Len(got) \in DOMAIN given /\ all[j] = given[j - Len(got)]
      BY <1>3, <3>2
    <3>4. i - Len(got) < j - Len(got)
      BY <1>2, <1>6
    <3>5. QED BY <3>1, <3>3, <3>4 DEF InSequence
  <2>4. QED BY <2>1, <2>2, <2>3
<1>8. {all[i] : i \in DOMAIN all} = {got[i] : i \in DOMAIN got} \cup {given[i] : i \in DOMAIN given}
  BY <1>3, <1>4, <1>5
<1>9. QED BY <1>1, <1>7, <1>8 DEF all

CharactersOf(p, n, from, to) == {<<p, n, i>> : i \in (from + 1)..to}
ItemsOf(seq) == {seq[i] : i \in DOMAIN seq}
RunOf(p, n, from, to) == [i \in 1..(to - from) |-> <<p, n, from + i>>]

\* The characters of a text from one position to another, one after the other.
LEMMA CharactersGiven ==
    ASSUME NEW p \in Nat, NEW n \in Nat, NEW from \in Nat, NEW to \in Nat
    PROVE  /\ RunOf(p, n, from, to) \in Seq(UnitTriple) /\ InSequence(RunOf(p, n, from, to))
           /\ ItemsOf(RunOf(p, n, from, to)) = CharactersOf(p, n, from, to)
<1> DEFINE given == RunOf(p, n, from, to)
<1>0. given = [i \in 1..(to - from) |-> <<p, n, from + i>>]
  BY DEF RunOf
<1> HIDE DEF given
<1>1. PICK size \in Nat : 1..(to - from) = 1..size
  <2>1. CASE to <= from
    <3>1. 1..(to - from) = 1..0
      BY <2>1
    <3>2. QED BY <3>1
  <2>2. CASE ~(to <= from)
    <3>1. to - from \in Nat
      BY <2>2
    <3>2. QED BY <3>1
  <2>3. QED BY <2>1, <2>2
<1>2. DOMAIN given = 1..size /\ \A i \in 1..size : given[i] = <<p, n, from + i>> /\ given[i] \in UnitTriple
  BY <1>0, <1>1 DEF UnitTriple
<1>3. given \in Seq(UnitTriple)
  <2>1. given \in [1..size -> UnitTriple]
    BY <1>0, <1>1 DEF UnitTriple
  <2>2. QED BY <2>1, SeqDef
<1>4. ItemsOf(given) = CharactersOf(p, n, from, to)
  <2>1. ASSUME NEW i \in 1..(to - from) PROVE from + i \in (from + 1)..to
    OBVIOUS
  <2>2. ASSUME NEW c \in (from + 1)..to PROVE c - from \in 1..(to - from) /\ from + (c - from) = c
    OBVIOUS
  <2>3. ASSUME NEW c \in (from + 1)..to PROVE \E i \in DOMAIN given : given[i] = <<p, n, c>>
    BY <1>1, <1>2, <2>2
  <2>4. ASSUME NEW i \in DOMAIN given PROVE \E c \in (from + 1)..to : given[i] = <<p, n, c>>
    BY <1>1, <1>2, <2>1
  <2>5. QED BY <2>3, <2>4 DEF CharactersOf, ItemsOf
<1>5. InSequence(given)
  <2> SUFFICES ASSUME NEW i \in 1..size, NEW j \in 1..size, i < j PROVE UnitBefore(given[i], given[j])
    BY <1>2 DEF InSequence
  <2>1. given[i] = <<p, n, from + i>> /\ given[j] = <<p, n, from + j>> /\ from + i < from + j
    BY <1>2
  <2>2. QED BY <2>1 DEF UnitBefore
<1>6. QED BY <1>3, <1>4, <1>5 DEF given

\* What is passed is before what is read from there on.
LEMMA PassedBefore ==
    ASSUME NEW vol, SoundBook(vol), NEW sel, SoundParts(vol, sel), NEW p \in Nat, NEW at \in Nat \X Nat,
           NEW u \in PassedUnits(vol, sel, p, at), NEW i \in Nat,
           i > at[2] \/ (i = 0 /\ <<p, at[1], 0>> \in UnitsOf(vol, sel))
    PROVE  UnitBefore(u, <<p, at[1], i>>)
<1>1. u \in UnitTriple /\ u = <<u[1], u[2], u[3]>> /\ u \in UnitsOf(vol, sel)
  BY UnitNumbers DEF PassedUnits
<1>2. \/ u[1] < p
      \/ u[1] = p /\ (u[2] < at[1] \/ (u[2] = at[1] /\ 0 < u[3] /\ u[3] <= at[2]))
  BY DEF PassedUnits
<1>3. ASSUME u[1] = p, u[2] = at[1], 0 < u[3], i = 0, <<p, at[1], 0>> \in UnitsOf(vol, sel)
      PROVE  FALSE
  <2>1. u[3] \in CharsIn(vol, sel[p], at[1]) /\ 0 \in CharsIn(vol, sel[p], at[1])
    BY <1>1, <1>3, UnitIs
  <2>2. ASSUME NodeIn(vol, sel[p], at[1]).kind = "text" PROVE FALSE
    <3>1. 0 \in 1..NodeIn(vol, sel[p], at[1]).size
      BY <2>1, <2>2 DEF CharsIn
    <3>2. QED BY <3>1
  <2>3. u[3] = 0
    BY <2>1, <2>2 DEF CharsIn
  <2>4. QED BY <1>3, <2>3
<1>4. QED BY <1>1, <1>2, <1>3 DEF UnitBefore, Earlier, UnitTriple

\* What has been passed leaves no unit out before one that it has.
LEMMA PassedDownward ==
    ASSUME NEW vol, SoundBook(vol), NEW sel, SoundParts(vol, sel), NEW p \in Nat, NEW at \in Int \X Nat,
           NEW v \in PassedUnits(vol, sel, p, at), NEW u \in UnitsOf(vol, sel), UnitBefore(u, v)
    PROVE  u \in PassedUnits(vol, sel, p, at)
<1>1. /\ u \in UnitTriple /\ u = <<u[1], u[2], u[3]>>
      /\ v \in UnitTriple /\ v = <<v[1], v[2], v[3]>> /\ v \in UnitsOf(vol, sel)
  BY UnitNumbers DEF PassedUnits
<1>2. ASSUME u[1] = v[1], u[2] = v[2], v[3] > 0 PROVE u[3] > 0
  <2>1. v[3] \in CharsIn(vol, sel[v[1]], v[2]) /\ u[3] \in CharsIn(vol, sel[v[1]], v[2])
    BY <1>1, <1>2, UnitIs
  <2>2. v[3] # 0
    BY <1>2
  <2>3. u[3] \in 1..NodeIn(vol, sel[v[1]], v[2]).size
    BY <2>1, <2>2 DEF CharsIn
  <2>4. QED BY <1>1, <2>3 DEF UnitTriple
<1>3. QED BY <1>1, <1>2 DEF PassedUnits, UnitBefore, Earlier, UnitTriple

----------------------------------------------------------------------------
(* Reading: the steps *)

LEMMA ReadInitInv == ReadInit => ReadInv
<1> SUFFICES ASSUME ReadInit PROVE ReadInv
  OBVIOUS
<1>1. activeBook = 1 /\ reading = NotReading /\ call = NoCall
  BY DEF ReadInit
<1>2. 1 \in 1..(SourceChanges + 1) /\ 0 \in 0..(SourceChanges + 1)
  BY BookAssumption
<1>3. <<>> \in Seq(UnitTriple) /\ InSequence(<<>>)
  BY DEF InSequence
<1>4. /\ reading.state = "none" /\ reading.asked = 0 /\ reading.got = <<>> /\ reading.cursor = NoCursor
      /\ reading = [state |-> reading.state, target |-> reading.target, asked |-> reading.asked,
                    parts |-> reading.parts, cursor |-> reading.cursor, got |-> reading.got]
  BY <1>1 DEF NotReading
<1>5. QED BY <1>1, <1>2, <1>3, <1>4 DEF ReadInv, ReadTyped, AskedHolds, CursorHolds, CallHolds

LEMMA AskReadInv ==
    ASSUME ReadInv, NEW t \in ReadTargets, AskRead(t)
    PROVE  ReadInv'
<1>1. reading.state = "none" /\ call = NoCall /\ UNCHANGED <<activeBook, call>>
  BY DEF AskRead, ReadInv, CallHolds
<1>2. reading' = [state |-> "open", target |-> t, asked |-> 0, parts |-> <<>>, cursor |-> NoCursor, got |-> <<>>]
  BY DEF AskRead, NotReading
<1>3. <<>> \in Seq(UnitTriple) /\ InSequence(<<>>) /\ 0 \in 0..(SourceChanges + 1)
  BY BookAssumption DEF InSequence
<1>4. QED BY <1>1, <1>2, <1>3 DEF ReadInv, ReadTyped, AskedHolds, CursorHolds, CallHolds

\* A first call selects the parts, of which nothing was given; one with a cursor goes on.
LEMMA BeginReadInv ==
    ASSUME ReadInv, NEW bytes \in ByteBudgets, NEW rows \in NodeBudgets, BeginRead(bytes, rows)
    PROVE  ReadInv'
<1>1. reading.state = "open" /\ call = NoCall /\ activeBook' = activeBook /\ call' = Answering(bytes, rows)
  BY DEF BeginRead
<1>2. activeBook \in 1..(SourceChanges + 1) /\ activeBook # 0 /\ reading.got \in Seq(UnitTriple) /\ InSequence(reading.got)
  BY BookAssumption DEF ReadInv, ReadTyped
<1>3. Metadata \in Nat /\ bytes \in Nat /\ rows \in Nat
  BY BookAssumption DEF Metadata
<1>4. CASE Continuing
  <2>1. reading' = reading /\ SameSelection /\ reading.cursor # NoCursor
    BY <1>4 DEF BeginRead, Continuing
  <2>2. reading.asked = activeBook
    BY <2>1 DEF SameSelection, Signed
  <2>3. InPart(reading.cursor.part, reading.cursor.at) /\ SoundParts(AskedBook, reading.parts)
    BY <1>2, <2>1, <2>2 DEF ReadInv, AskedHolds, CursorHolds
  <2>4. reading.cursor.part \in 1..Len(reading.parts) /\ Len(reading.parts) \in Nat /\ reading.cursor.at \in Nat \X Nat
    BY <2>3 DEF InPart, SoundParts
  <2>5. call' = [bytes |-> bytes, left |-> rows, used |-> Metadata, given |-> 0, cited |-> FALSE,
                 part |-> reading.cursor.part, at |-> reading.cursor.at]
    BY <1>1, <1>4 DEF Answering
  <2>6. call' \in ReadCall
    BY <1>3, <2>4, <2>5 DEF ReadCall
  <2>7. GotUnits = PassedBy(reading.cursor.part, reading.cursor.at)
    BY <1>1, <1>2, <2>2 DEF ReadInv, CursorHolds
  <2>8. ReadTyped' /\ AskedHolds' /\ CursorHolds'
    <3>1. call' # NoCall
      BY <2>6, BookAssumption DEF ReadCall
    <3>2. QED
      BY <1>1, <1>2, <2>1, <2>2, <2>3, <2>6, <3>1 DEF ReadInv, ReadTyped, AskedHolds, CursorHolds, InPart, AskedBook
  <2>9. CallHolds'
    <3>1. call'.part = reading.cursor.part /\ call'.at = reading.cursor.at /\ call'.part \in 1..(Len(reading.parts) + 1)
      BY <2>4, <2>5
    <3>2. QED BY <1>1, <2>1, <2>2, <2>3, <2>7, <3>1 DEF CallHolds, InPart, AskedBook, GotUnits, PassedBy
  <2>10. QED BY <1>2, <2>1, <2>8, <2>9 DEF ReadInv
<1>5. CASE ~Continuing
  <2>1. Available(reading.target) /\ reading' = [reading EXCEPT !.asked = activeBook, !.parts = Selection(reading.target)]
        /\ reading.cursor = NoCursor
    BY <1>5 DEF BeginRead, Continuing
  <2>2. SoundParts(Book, Selection(reading.target)) /\ SoundBook(Book)
    BY <1>2, <2>1, SelectionIsSound, ActiveBook
  <2>3. /\ reading' = [state |-> "open", target |-> reading.target, asked |-> activeBook,
                       parts |-> Selection(reading.target), cursor |-> NoCursor, got |-> reading.got]
        /\ AskedBook' = Book
    <3>1. reading = [state |-> reading.state, target |-> reading.target, asked |-> reading.asked,
                     parts |-> reading.parts, cursor |-> reading.cursor, got |-> reading.got]
      BY DEF ReadInv, ReadTyped
    <3>2. reading' = [state |-> "open", target |-> reading.target, asked |-> activeBook,
                       parts |-> Selection(reading.target), cursor |-> NoCursor, got |-> reading.got]
      BY <1>1, <2>1, <3>1
    <3>3. AskedBook' = Book
      BY <3>2 DEF AskedBook, Book
    <3>4. QED BY <3>2, <3>3
  <2>4. call' = [bytes |-> bytes, left |-> rows, used |-> Metadata, given |-> 0, cited |-> FALSE,
                 part |-> 1, at |-> <<-1, 0>>]
    BY <1>1, <1>5 DEF Answering
  <2>5. call' \in ReadCall
    <3>1. <<-1, 0>> \in Int \X Nat
      OBVIOUS
    <3>2. QED BY <1>3, <2>4, <3>1 DEF ReadCall
  <2>6. GotUnits = {}
    <3>1. CASE reading.asked = 0
      <4>1. reading.got = <<>>
        BY <3>1 DEF ReadInv, AskedHolds
      <4>2. QED BY <4>1 DEF GotUnits
    <3>2. CASE reading.asked # 0
      <4>1. GotUnits = PassedBy(0, <<0, 0>>)
        BY <1>1, <2>1, <3>2 DEF ReadInv, CursorHolds, NoCursor
      <4>2. SoundBook(AskedBook) /\ SoundParts(AskedBook, reading.parts)
        BY <3>2, AskedBookIsSound DEF ReadInv, AskedHolds
      <4>3. QED BY <4>1, <4>2, NonePassed DEF PassedBy
    <3>3. QED BY <3>1, <3>2
  <2>7. GotUnits' = {}
    BY <2>3, <2>6 DEF GotUnits
  <2>8. PassedBy(1, <<-1, 0>>)' = {} /\ PassedBy(0, <<0, 0>>)' = {}
    BY <2>2, <2>3, NonePassed DEF PassedBy
  <2>9. call'.given = 0 /\ call'.part = 1 /\ call'.at = <<-1, 0>> /\ ~call'.cited
    BY <2>4
  <2>10. Len(reading'.parts) \in Nat /\ reading'.parts = Selection(reading.target)
    BY <2>2, <2>3 DEF SoundParts
  <2>11. 1 \in 1..(Len(reading'.parts) + 1)
    BY <2>10
  <2>12. CallHolds'
    BY <1>1, <2>3, <2>7, <2>8, <2>9, <2>11 DEF CallHolds, NoCursor, PassedBy
  <2>13. activeBook \in 0..(SourceChanges + 1)
    BY <1>2, BookAssumption
  <2>14. ReadTyped'
    BY <1>1, <1>2, <2>3, <2>5, <2>13 DEF ReadTyped
  <2>15. AskedHolds' /\ CursorHolds'
    BY <1>2, <2>2, <2>3, <2>5, <2>7, <2>8 DEF AskedHolds, CursorHolds, NoCursor, PassedBy
  <2>16. InSequence(reading'.got)
    BY <1>2, <2>3
  <2>17. QED BY <2>12, <2>14, <2>15, <2>16 DEF ReadInv
<1>6. QED BY <1>4, <1>5

\* An answer that ends where the call is; nothing else of the reading changes.
LEMMA AnswerPageInv ==
    ASSUME ReadInv, call # NoCall, NEW p, NEW at, InPart(p, at), GotUnits = PassedBy(p, at), Continuation(p, at)
    PROVE  ReadInv'
<1>1. call' = NoCall /\ activeBook' = activeBook
  BY DEF Continuation, AnswerPage
<1>2. SoundParts(AskedBook, reading.parts) /\ reading.asked # 0 /\ reading.state = "open"
  BY DEF ReadInv, CallHolds, AskedHolds, ReadTyped
<1>3. [part |-> p, at |-> at] # NoCursor
  <2>1. p # 0
    BY <1>2 DEF InPart, SoundParts
  <2>2. QED BY <2>1 DEF NoCursor
<1>4. reading' = [state |-> "open", target |-> reading.target, asked |-> reading.asked,
                  parts |-> reading.parts, cursor |-> [part |-> p, at |-> at], got |-> reading.got]
  <2>1. reading' = [reading EXCEPT !.cursor = [part |-> p, at |-> at], !.state = "open"]
    BY <1>3 DEF Continuation, AnswerPage
  <2>2. reading = [state |-> reading.state, target |-> reading.target, asked |-> reading.asked,
                   parts |-> reading.parts, cursor |-> reading.cursor, got |-> reading.got]
    BY DEF ReadInv, ReadTyped
  <2>3. QED BY <2>1, <2>2
<1>5. ReadTyped' /\ AskedHolds' /\ InSequence(reading'.got)
  BY <1>1, <1>2, <1>4 DEF ReadInv, ReadTyped, AskedHolds, AskedBook
<1>6. CursorHolds'
  <2>1. reading'.cursor.part = p /\ reading'.cursor.at = at /\ reading'.state = "open"
    BY <1>4
  <2>2. InPart(p, at)' /\ GotUnits' = GotUnits /\ PassedBy(p, at)' = PassedBy(p, at)
    BY <1>4 DEF InPart, GotUnits, PassedBy, AskedBook
  <2>3. QED BY <2>1, <2>2 DEF CursorHolds, PassedBy
<1>7. QED BY <1>1, <1>5, <1>6 DEF ReadInv, CallHolds

\* A call that goes on without giving anything.
LEMMA CallMovesInv ==
    ASSUME ReadInv, call # NoCall, UNCHANGED <<activeBook, reading>>, call' \in ReadCall,
           call'.given = call.given, call'.part \in 1..(Len(reading.parts) + 1),
           (call'.at = <<-1, 0>> /\ ~call'.cited) \/ InPart(call'.part, call'.at),
           PassedBy(call'.part, call'.at) = PassedBy(call.part, call.at)
    PROVE  ReadInv'
<1>1. reading.asked = activeBook /\ reading.state = "open" /\ reading.asked # 0
  BY DEF ReadInv, CallHolds, AskedHolds
<1>2. call' # NoCall
  BY BookAssumption DEF ReadCall
<1>3. ReadTyped' /\ AskedHolds' /\ InSequence(reading'.got)
  BY <1>1 DEF ReadInv, ReadTyped, AskedHolds, AskedBook
<1>4. CursorHolds'
  BY <1>1, <1>2 DEF ReadInv, CursorHolds, InPart, AskedBook
<1>5. CallHolds'
  BY <1>1 DEF ReadInv, CallHolds, InPart, AskedBook, GotUnits, PassedBy
<1>6. QED BY <1>3, <1>4, <1>5 DEF ReadInv

LEMMA CitePartInv ==
    ASSUME ReadInv, CitePart
    PROVE  ReadInv'
<1> DEFINE p == call.part
           at == AtStart
<1>1. call # NoCall /\ p <= Len(reading.parts) /\ ~call.cited
  BY DEF CitePart, ReadParts
<1>2. /\ AskedBook = Book /\ SoundBook(Book) /\ SoundParts(Book, reading.parts) /\ p \in DOMAIN reading.parts
      /\ call \in ReadCall /\ Lo(CurrentPart) = StartOf(Book, reading.parts[p]) /\ Len(reading.parts) \in Nat
  BY <1>1, CallSees
<1>3. /\ call.at = <<-1, 0>> \/ InPart(p, call.at)
      /\ p \in 1..(Len(reading.parts) + 1) /\ GotUnits = PassedBy(p, call.at)
  BY <1>1 DEF ReadInv, CallHolds
<1>4. InPart(p, at) /\ PassedBy(p, at) = PassedBy(p, call.at)
  <2>1. CASE call.at = <<-1, 0>>
    <3>1. at = StartOf(Book, reading.parts[p])
      BY <1>2, <2>1 DEF AtStart
    <3>2. PassedBy(p, at) = PassedBy(p, call.at)
      BY <1>2, <2>1, <3>1, PassedAtStart DEF PassedBy
    <3>3. at \in Nat \X Nat
      BY <1>2, <3>1 DEF SoundParts, SoundPart
    <3>4. FromStart(Book, reading.parts, p, at)
      BY <3>1, <3>3 DEF FromStart
    <3>5. QED BY <1>2, <3>2, <3>3, <3>4 DEF InPart
  <2>2. CASE call.at # <<-1, 0>>
    BY <1>3, <2>2 DEF AtStart
  <2>3. QED BY <2>1, <2>2
<1> HIDE DEF p, at
<1>5. CASE call.used + CiteCost > call.bytes
  <2>1. Continuation(p, at)
    BY <1>5 DEF CitePart, p, at
  <2>2. QED BY <1>1, <1>3, <1>4, <2>1, AnswerPageInv
<1>6. CASE ~(call.used + CiteCost > call.bytes)
  <2>1. call' = [call EXCEPT !.cited = TRUE, !.used = @ + CiteCost, !.at = at] /\ UNCHANGED <<activeBook, reading>>
    BY <1>6 DEF CitePart, at
  <2>2. at \in Int \X Nat
    BY <1>4 DEF InPart
  <2>3. call.used + CiteCost \in Int
    BY <1>2, BookAssumption DEF ReadCall
  <2>4. call' \in ReadCall /\ call'.given = call.given /\ call'.part = p /\ call'.at = at
    BY <1>2, <2>1, <2>2, <2>3 DEF ReadCall, p
  <2>5. QED BY <1>1, <1>3, <1>4, <2>1, <2>4, CallMovesInv DEF p
<1>7. QED BY <1>5, <1>6

\* A call that has cited a part is in it.
LEMMA CallInPart ==
    ASSUME ReadInv, call # NoCall, call.part <= Len(reading.parts), call.cited
    PROVE  /\ InPart(call.part, call.at) /\ GotUnits = PassedBy(call.part, call.at)
           /\ FromStart(Book, reading.parts, call.part, call.at) /\ call.part \in DOMAIN reading.parts
           /\ call.at \in Nat \X Nat /\ call.part \in Nat
<1>1. InPart(call.part, call.at) /\ GotUnits = PassedBy(call.part, call.at)
  BY DEF ReadInv, CallHolds
<1>2. AskedBook = Book /\ SoundParts(Book, reading.parts)
  BY CallSees
<1>3. QED BY <1>1, <1>2 DEF InPart, SoundParts

LEMMA NextPartInv ==
    ASSUME ReadInv, NextPart
    PROVE  ReadInv'
<1>1. /\ call # NoCall /\ call.part <= Len(reading.parts) /\ call.cited /\ ~RowLeft
      /\ call' = [call EXCEPT !.part = @ + 1, !.cited = FALSE, !.at = <<-1, 0>>] /\ UNCHANGED <<activeBook, reading>>
  BY DEF NextPart, ReadParts
<1>2. /\ AskedBook = Book /\ SoundBook(Book) /\ SoundParts(Book, reading.parts) /\ call \in ReadCall
      /\ ~HasRow(Book, reading.parts, call.part, call.at) /\ Len(reading.parts) \in Nat
  BY <1>1, CallSees
<1>3. call.part \in DOMAIN reading.parts /\ call.at \in Nat \X Nat /\ call.part \in Nat
  BY <1>1, CallInPart
<1>4. PassedBy(call.part + 1, <<-1, 0>>) = PassedBy(call.part, call.at)
  BY <1>2, <1>3, PartPassed DEF PassedBy
<1>5. call.part + 1 \in Nat /\ <<-1, 0>> \in Int \X Nat /\ call.part + 1 \in 1..(Len(reading.parts) + 1)
  BY <1>1, <1>2, <1>3
<1>6. call' \in ReadCall /\ call'.given = call.given /\ call'.part = call.part + 1 /\ call'.at = <<-1, 0>> /\ ~call'.cited
  BY <1>1, <1>2, <1>5 DEF ReadCall
<1>7. QED BY <1>1, <1>4, <1>5, <1>6, CallMovesInv

LEMMA EndPageInv ==
    ASSUME ReadInv, EndPage
    PROVE  ReadInv'
<1>1. call # NoCall /\ call.part <= Len(reading.parts) /\ call.cited /\ Continuation(call.part, call.at)
  BY DEF EndPage, ReadParts
<1>2. QED BY <1>1, CallInPart, AnswerPageInv

\* What is given of the row where the call is comes after all that was given.
LEMMA RowGiven ==
    ASSUME ReadInv, call # NoCall, call.part <= Len(reading.parts), call.cited, RowLeft,
           NEW to \in Nat, ~IsText => to = 0
    PROVE  LET given == UnitsGiven(call.at[2], to) IN
           /\ given \in Seq(UnitTriple) /\ InSequence(given)
           /\ {given[i] : i \in DOMAIN given} =
                  IF IsText THEN {<<call.part, call.at[1], i>> : i \in (call.at[2] + 1)..to}
                  ELSE {<<call.part, call.at[1], 0>>}
           /\ \A i \in DOMAIN reading.got, j \in DOMAIN given : UnitBefore(reading.got[i], given[j])
<1> DEFINE p == call.part
           n == call.at[1]
           from == call.at[2]
           given == UnitsGiven(from, to)
<1>1. p \in DOMAIN reading.parts /\ p \in Nat /\ n \in Nat /\ from \in Nat /\ call.at \in Nat \X Nat
  BY CallInPart
<1>2. /\ AskedBook = Book /\ SoundBook(Book) /\ SoundParts(Book, reading.parts)
      /\ HasRow(Book, reading.parts, p, call.at) /\ FromStart(Book, reading.parts, p, call.at)
      /\ IsText <=> NodeIn(Book, reading.parts[p], n).kind = "text"
  BY CallSees, CallInPart
<1>3. given = IF IsText THEN [i \in 1..(to - from) |-> <<p, n, from + i>>] ELSE <<<<p, n, 0>>>>
  BY DEF UnitsGiven
<1>4. \A i \in DOMAIN reading.got : reading.got[i] \in PassedUnits(Book, reading.parts, p, call.at)
  BY <1>2, CallInPart DEF GotUnits, PassedBy
<1> HIDE DEF p, n, from, given
<1>5. CASE IsText
  <2>1. /\ given \in Seq(UnitTriple) /\ InSequence(given)
        /\ {given[i] : i \in DOMAIN given} = {<<p, n, i>> : i \in (from + 1)..to}
    <3>1. given = RunOf(p, n, from, to)
      BY <1>3, <1>5 DEF RunOf
    <3>2. /\ given \in Seq(UnitTriple) /\ InSequence(given)
          /\ ItemsOf(given) = CharactersOf(p, n, from, to)
      <4>1. p \in Nat /\ n \in Nat /\ from \in Nat /\ to \in Nat
        BY <1>1
      <4>2. RunOf(p, n, from, to) \in Seq(UnitTriple)
        BY <4>1, CharactersGiven
      <4>3. InSequence(RunOf(p, n, from, to))
        BY <4>1, CharactersGiven
      <4>4. ItemsOf(RunOf(p, n, from, to)) = CharactersOf(p, n, from, to)
        BY <4>1, CharactersGiven
      <4>5. QED BY <3>1, <4>2, <4>3, <4>4
    <3>3. QED BY <3>2, Zenon DEF CharactersOf, ItemsOf
  <2>2. ASSUME NEW i \in DOMAIN reading.got, NEW j \in DOMAIN given PROVE UnitBefore(reading.got[i], given[j])
    <3>1. PICK c \in (from + 1)..to : given[j] = <<p, n, c>>
      BY <2>1
    <3>2. c \in Nat /\ c > call.at[2]
      BY <1>1 DEF from
    <3>3. QED BY <1>1, <1>2, <1>4, <3>1, <3>2, PassedBefore DEF n
  <2>3. QED BY <1>5, <2>1, <2>2 DEF p, n, from, given
<1>6. CASE ~IsText
  <2>1. given = <<<<p, n, 0>>>> /\ <<p, n, 0>> \in UnitTriple
    BY <1>1, <1>3, <1>6 DEF UnitTriple
  <2>2. /\ given \in Seq(UnitTriple) /\ DOMAIN given = {1} /\ given[1] = <<p, n, 0>>
    BY <2>1
  <2>3. InSequence(given) /\ {given[i] : i \in DOMAIN given} = {<<p, n, 0>>}
    <3>1. InSequence(given)
      BY <2>2 DEF InSequence
    <3>2. QED BY <2>2, <3>1
  <2>4. <<p, n, 0>> \in UnitsOf(Book, reading.parts)
    BY <1>1, <1>2, <1>6, RowUnits DEF n
  <2>5. ASSUME NEW i \in DOMAIN reading.got, NEW j \in DOMAIN given PROVE UnitBefore(reading.got[i], given[j])
    BY <1>1, <1>2, <1>4, <2>2, <2>4, PassedBefore DEF n
  <2>6. QED BY <1>6, <2>2, <2>3, <2>5 DEF p, n, from, given
<1>7. QED BY <1>5, <1>6

LEMMA TakeRowInv ==
    ASSUME ReadInv, TakeRow
    PROVE  ReadInv'
<1> DEFINE p == call.part
           n == call.at[1]
           to == IF IsText THEN EndOf(CurrentRow) ELSE 0
           given == UnitsGiven(call.at[2], EndOf(CurrentRow))
<1>1. /\ call # NoCall /\ call.part <= Len(reading.parts) /\ call.cited /\ RowLeft
      /\ reading' = [reading EXCEPT !.got = @ \o given]
      /\ call' = [call EXCEPT !.given = @ + 1, !.used = @ + RowBytes, !.at = <<n + 1, 0>>]
      /\ call.used + RowBytes <= call.bytes /\ UNCHANGED activeBook
  BY DEF TakeRow, ReadParts
<1>2. /\ p \in DOMAIN reading.parts /\ p \in Nat /\ n \in Nat /\ call.at \in Nat \X Nat
      /\ GotUnits = PassedBy(p, call.at) /\ FromStart(Book, reading.parts, p, call.at)
  BY <1>1, CallInPart
<1>3. /\ AskedBook = Book /\ SoundBook(Book) /\ SoundParts(Book, reading.parts) /\ call \in ReadCall
      /\ HasRow(Book, reading.parts, p, call.at) /\ EndOf(CurrentRow) = RowEnd(Book, reading.parts, p, call.at)
      /\ IsText <=> NodeIn(Book, reading.parts[p], n).kind = "text"
  BY <1>1, CallSees
<1>4. EndOf(CurrentRow) \in Nat
  BY <1>2, <1>3, RowEndIs
<1>5. given = UnitsGiven(call.at[2], to) /\ to \in Nat /\ (~IsText => to = 0)
  BY <1>4 DEF UnitsGiven
<1>6. /\ given \in Seq(UnitTriple) /\ InSequence(given)
      /\ {given[i] : i \in DOMAIN given} =
             IF IsText THEN {<<p, n, i>> : i \in (call.at[2] + 1)..EndOf(CurrentRow)} ELSE {<<p, n, 0>>}
      /\ \A i \in DOMAIN reading.got, j \in DOMAIN given : UnitBefore(reading.got[i], given[j])
  <2>1. IsText => to = EndOf(CurrentRow)
    OBVIOUS
  <2> HIDE DEF to, given
  <2>2. QED BY <1>1, <1>5, <2>1, RowGiven
<1> HIDE DEF given, to
<1>7. /\ reading.got \o given \in Seq(UnitTriple) /\ InSequence(reading.got \o given)
      /\ {(reading.got \o given)[i] : i \in DOMAIN (reading.got \o given)} =
             GotUnits \cup {given[i] : i \in DOMAIN given}
  BY <1>6, GotExtends DEF ReadInv, ReadTyped, GotUnits
<1>8. reading' = [state |-> reading.state, target |-> reading.target, asked |-> reading.asked,
                  parts |-> reading.parts, cursor |-> reading.cursor, got |-> reading.got \o given]
  <2>1. reading = [state |-> reading.state, target |-> reading.target, asked |-> reading.asked,
                   parts |-> reading.parts, cursor |-> reading.cursor, got |-> reading.got]
    BY DEF ReadInv, ReadTyped
  <2>2. QED BY <1>1, <2>1
<1>9. GotUnits' = PassedUnits(Book, reading.parts, p, <<n + 1, 0>>)
  <2>1. GotUnits' = GotUnits \cup {given[i] : i \in DOMAIN given}
    BY <1>7, <1>8 DEF GotUnits
  <2>2. PassedUnits(Book, reading.parts, p, <<n + 1, 0>>) =
            PassedUnits(Book, reading.parts, p, call.at) \cup {given[i] : i \in DOMAIN given}
    <3>1. PassedUnits(Book, reading.parts, p, <<n + 1, 0>>) =
              PassedUnits(Book, reading.parts, p, call.at) \cup RowOf(Book, reading.parts, p, call.at)
      BY <1>2, <1>3, RowTaken
    <3>2. {given[i] : i \in DOMAIN given} = RowOf(Book, reading.parts, p, call.at)
      <4>1. EndOf(CurrentRow) = RowEnd(Book, reading.parts, p, call.at)
        BY <1>3
      <4>2. IsText <=> NodeIn(Book, reading.parts[p], call.at[1]).kind = "text"
        BY <1>3
      <4>3. QED BY <1>6, <4>1, <4>2, Zenon DEF RowOf
    <3>3. QED BY <3>1, <3>2, Zenon
  <2>3. QED BY <1>2, <1>3, <2>1, <2>2 DEF PassedBy
<1>10. call' \in ReadCall /\ call'.given # 0 /\ call'.part = p /\ call'.at = <<n + 1, 0>> /\ call'.cited
  <2>1. call.used + RowBytes \in Int
    <3>1. call.used \in Int /\ NodeCost \in Int /\ call.at[2] \in Int /\ EndOf(CurrentRow) \in Int
      BY <1>2, <1>3, <1>4, BookAssumption DEF ReadCall
    <3>2. RowBytes \in Int
      <4>1. CASE IsText
        <5>1. RowBytes = NodeCost + (EndOf(CurrentRow) - call.at[2])
          BY <4>1 DEF RowBytes
        <5>2. QED BY <3>1, <5>1
      <4>2. CASE ~IsText
        BY <3>1, <4>2 DEF RowBytes
      <4>3. QED BY <4>1, <4>2
    <3>3. QED BY <3>1, <3>2
  <2>2. call.given + 1 \in Nat /\ call.given + 1 # 0 /\ <<n + 1, 0>> \in Int \X Nat
    BY <1>2, <1>3 DEF ReadCall
  <2>3. QED BY <1>1, <1>3, <2>1, <2>2 DEF ReadCall
<1>11. p \in DOMAIN reading'.parts /\ <<n + 1, 0>> \in Nat \X Nat
       /\ FromStart(AskedBook', reading'.parts, p, <<n + 1, 0>>) /\ AskedBook' = Book /\ reading'.parts = reading.parts
  <2>1. FromStart(Book, reading.parts, p, <<n + 1, 0>>) /\ <<n + 1, 0>> \in Nat \X Nat
    <3>1. StartOf(Book, reading.parts[p]) \in Nat \X Nat
      BY <1>2, <1>3 DEF SoundParts, SoundPart
    <3>2. QED BY <1>2, <3>1 DEF FromStart
  <2>2. AskedBook' = Book /\ reading'.parts = reading.parts
    BY <1>3, <1>8 DEF AskedBook
  <2>3. QED BY <1>2, <2>1, <2>2
<1>12. reading.asked = activeBook /\ reading.state = "open" /\ reading.asked # 0 /\ p \in 1..(Len(reading.parts) + 1)
  BY <1>1 DEF ReadInv, CallHolds, AskedHolds
<1>13. call' # NoCall
  BY <1>10, BookAssumption DEF ReadCall
<1>14. ReadTyped' /\ AskedHolds'
  BY <1>1, <1>7, <1>8, <1>10, <1>12 DEF ReadInv, ReadTyped, AskedHolds, AskedBook
<1>15. CursorHolds'
  BY <1>8, <1>12, <1>13 DEF ReadInv, CursorHolds, InPart, AskedBook
<1>16. CallHolds'
  <2>1. GotUnits' = PassedBy(call.part, call.at)' /\ InPart(call.part, call.at)'
    BY <1>9, <1>10, <1>11 DEF PassedBy, InPart
  <2>2. QED BY <1>1, <1>8, <1>10, <1>12, <2>1 DEF CallHolds
<1>17. QED BY <1>7, <1>8, <1>14, <1>15, <1>16 DEF ReadInv

LEMMA SplitTextInv ==
    ASSUME ReadInv, SplitText
    PROVE  ReadInv'
<1> DEFINE p == call.part
           n == call.at[1]
           room == call.bytes - call.used - NodeCost
           to == call.at[2] + room
           given == UnitsGiven(call.at[2], to)
<1>1. call # NoCall /\ call.part <= Len(reading.parts) /\ call.cited /\ RowLeft /\ call.given = 0
      /\ call.used + RowBytes > call.bytes
  BY DEF SplitText, ReadParts
<1>2. /\ p \in DOMAIN reading.parts /\ p \in Nat /\ n \in Nat /\ call.at \in Nat \X Nat /\ call.at[2] \in Nat
      /\ GotUnits = PassedBy(p, call.at) /\ FromStart(Book, reading.parts, p, call.at)
  BY <1>1, CallInPart
<1>3. /\ AskedBook = Book /\ SoundBook(Book) /\ SoundParts(Book, reading.parts) /\ call \in ReadCall
      /\ HasRow(Book, reading.parts, p, call.at) /\ EndOf(CurrentRow) = RowEnd(Book, reading.parts, p, call.at)
      /\ IsText <=> NodeIn(Book, reading.parts[p], n).kind = "text"
  BY <1>1, CallSees
<1>4. /\ reading.asked = activeBook /\ reading.state = "open" /\ reading.asked # 0
      /\ GotUnits = PassedBy(reading.cursor.part, reading.cursor.at)
  BY <1>1 DEF ReadInv, CallHolds, AskedHolds
<1>5. CASE ~IsText \/ room <= 0
  <2>1. call' = NoCall /\ UNCHANGED <<activeBook, reading>>
    BY <1>5 DEF SplitText, RefuseRead
  <2>2. QED
    BY <1>4, <2>1 DEF ReadInv, ReadTyped, AskedHolds, CursorHolds, CallHolds, InPart, AskedBook, PassedBy, GotUnits
<1>6. CASE IsText /\ ~(room <= 0)
  <2>1. /\ reading' = [reading EXCEPT !.got = @ \o given, !.cursor = [part |-> p, at |-> <<n, to>>]]
        /\ call' = NoCall /\ UNCHANGED activeBook
    BY <1>6 DEF SplitText, ResumeAt
  <2>2. room \in Nat /\ to \in Nat /\ call.at[2] <= to
    <3>1. room \in Int
      BY <1>3, BookAssumption DEF ReadCall
    <3> HIDE DEF room
    <3>2. QED BY <1>2, <1>6, <3>1
  <2>3. EndOf(CurrentRow) \in Nat /\ to <= EndOf(CurrentRow)
    <3>1. EndOf(CurrentRow) \in Nat
      BY <1>2, <1>3, RowEndIs
    <3>2. RowBytes = NodeCost + (EndOf(CurrentRow) - call.at[2])
      BY <1>6 DEF RowBytes
    <3>3. call.used \in Int /\ call.bytes \in Nat /\ NodeCost \in Nat
      BY <1>3, BookAssumption DEF ReadCall
    <3>4. QED BY <1>1, <1>2, <3>1, <3>2, <3>3
  <2> HIDE DEF room, to, given
  <2>4. /\ given \in Seq(UnitTriple) /\ InSequence(given)
        /\ {given[i] : i \in DOMAIN given} = {<<p, n, i>> : i \in (call.at[2] + 1)..to}
        /\ \A i \in DOMAIN reading.got, j \in DOMAIN given : UnitBefore(reading.got[i], given[j])
    BY <1>1, <1>6, <2>2, RowGiven DEF given
  <2>5. /\ reading.got \o given \in Seq(UnitTriple) /\ InSequence(reading.got \o given)
        /\ {(reading.got \o given)[i] : i \in DOMAIN (reading.got \o given)} =
               GotUnits \cup {given[i] : i \in DOMAIN given}
    BY <2>4, GotExtends DEF ReadInv, ReadTyped, GotUnits
  <2>6. reading' = [state |-> reading.state, target |-> reading.target, asked |-> reading.asked,
                    parts |-> reading.parts, cursor |-> [part |-> p, at |-> <<n, to>>], got |-> reading.got \o given]
    <3>1. reading = [state |-> reading.state, target |-> reading.target, asked |-> reading.asked,
                     parts |-> reading.parts, cursor |-> reading.cursor, got |-> reading.got]
      BY DEF ReadInv, ReadTyped
    <3>2. QED BY <2>1, <3>1
  <2>7. AskedBook' = Book /\ reading'.parts = reading.parts
    BY <1>3, <2>6 DEF AskedBook
  <2>8. GotUnits' = PassedUnits(Book, reading.parts, p, <<n, to>>)
    <3>1. GotUnits' = GotUnits \cup {given[i] : i \in DOMAIN given}
      BY <2>5, <2>6 DEF GotUnits
    <3>2. PassedUnits(Book, reading.parts, p, <<n, to>>) =
              PassedUnits(Book, reading.parts, p, call.at) \cup {<<p, n, i>> : i \in (call.at[2] + 1)..to}
      BY <1>2, <1>3, <1>6, <2>2, <2>3, TextPassed
    <3>3. QED BY <1>2, <1>3, <2>4, <3>1, <3>2 DEF PassedBy
  <2>9. p \in DOMAIN reading'.parts /\ <<n, to>> \in Nat \X Nat /\ FromStart(AskedBook', reading'.parts, p, <<n, to>>)
    <3>1. StartOf(Book, reading.parts[p]) \in Nat \X Nat
      BY <1>2, <1>3 DEF SoundParts, SoundPart
    <3>2. FromStart(Book, reading.parts, p, <<n, to>>) /\ <<n, to>> \in Nat \X Nat
      BY <1>2, <2>2, <3>1 DEF FromStart
    <3>3. QED BY <1>2, <2>7, <3>2
  <2>10. ReadTyped' /\ AskedHolds'
    BY <1>4, <2>1, <2>5, <2>6 DEF ReadInv, ReadTyped, AskedHolds, AskedBook
  <2>11. CursorHolds'
    <3>1. reading'.cursor.part = p /\ reading'.cursor.at = <<n, to>> /\ reading'.state = "open"
      BY <1>4, <2>6
    <3>2. QED BY <2>7, <2>8, <2>9, <3>1 DEF CursorHolds, PassedBy, InPart
  <2>12. QED BY <2>1, <2>5, <2>6, <2>10, <2>11 DEF ReadInv, CallHolds
<1>7. QED BY <1>5, <1>6

LEMMA LastPageInv ==
    ASSUME ReadInv, LastPage
    PROVE  ReadInv'
<1>1. call # NoCall /\ call.part > Len(reading.parts) /\ AnswerPage(NoCursor)
  BY DEF LastPage, ReadParts
<1>2. /\ AskedBook = Book /\ SoundBook(Book) /\ SoundParts(Book, reading.parts) /\ call \in ReadCall
      /\ Len(reading.parts) \in Nat
  BY <1>1, CallSees
<1>3. GotUnits = UnitsOf(AskedBook, reading.parts) /\ reading.asked # 0
  <2>1. GotUnits = PassedBy(call.part, call.at) /\ reading.asked # 0
    BY <1>1 DEF ReadInv, CallHolds, AskedHolds
  <2>2. call.part \in Nat
    BY <1>2 DEF ReadCall
  <2>3. QED BY <1>1, <1>2, <2>1, <2>2, AllPassed DEF PassedBy
<1>4. /\ reading' = [state |-> "read", target |-> reading.target, asked |-> reading.asked,
                     parts |-> reading.parts, cursor |-> NoCursor, got |-> reading.got]
      /\ call' = NoCall /\ activeBook' = activeBook
  <2>1. reading' = [reading EXCEPT !.cursor = NoCursor, !.state = "read"] /\ call' = NoCall /\ activeBook' = activeBook
    BY <1>1 DEF AnswerPage
  <2>2. reading = [state |-> reading.state, target |-> reading.target, asked |-> reading.asked,
                   parts |-> reading.parts, cursor |-> reading.cursor, got |-> reading.got]
    BY DEF ReadInv, ReadTyped
  <2>3. QED BY <2>1, <2>2
<1>5. GotUnits' = GotUnits /\ AskedBook' = AskedBook
  BY <1>4 DEF GotUnits, AskedBook
<1>6. ReadTyped' /\ AskedHolds'
  BY <1>3, <1>4, <1>5 DEF ReadInv, ReadTyped, AskedHolds
<1>7. CursorHolds' /\ CallHolds'
  BY <1>3, <1>4, <1>5 DEF CursorHolds, CallHolds
<1>8. QED BY <1>4, <1>6, <1>7 DEF ReadInv

LEMMA RepublishInv ==
    ASSUME ReadInv, Republish \/ UNCHANGED readVars
    PROVE  ReadInv'
<1>1. CASE Republish
  <2>1. activeBook' \in 1..(SourceChanges + 1) /\ UNCHANGED <<reading, call>> /\ call = NoCall
    BY <1>1, BookAssumption DEF Republish, ReadInv, ReadTyped
  <2>2. QED
    BY <2>1 DEF ReadInv, ReadTyped, AskedHolds, CursorHolds, CallHolds, InPart, AskedBook, PassedBy, GotUnits
<1>2. CASE UNCHANGED readVars
  BY <1>2 DEF readVars, ReadInv, ReadTyped, AskedHolds, CursorHolds, CallHolds, InPart, AskedBook, PassedBy, GotUnits
<1>3. QED BY <1>1, <1>2

LEMMA ReadStep ==
    ASSUME ReadInv, [ReadNext]_readVars
    PROVE  ReadInv'
  BY AskReadInv, BeginReadInv, CitePartInv, TakeRowInv, EndPageInv, SplitTextInv, NextPartInv, LastPageInv,
     RepublishInv DEF ReadNext

LEMMA ReadWholeHolds == ReadInv => ReadWhole
<1> SUFFICES ASSUME ReadInv, reading.asked # 0 PROVE ReadWhole
  BY DEF ReadWhole
<1> DEFINE units == UnitsOf(AskedBook, reading.parts)
<1>1. SoundBook(AskedBook) /\ SoundParts(AskedBook, reading.parts)
  BY AskedBookIsSound DEF ReadInv, AskedHolds
<1>2. \/ GotUnits = units
      \/ \E p \in Nat, at \in Int \X Nat : GotUnits = PassedUnits(AskedBook, reading.parts, p, at)
  <2>1. CASE reading.state = "read"
    BY <2>1 DEF ReadInv, CursorHolds
  <2>2. CASE call # NoCall
    <3>1. GotUnits = PassedBy(call.part, call.at) /\ call \in ReadCall
      BY <2>2 DEF ReadInv, CallHolds, ReadTyped
    <3>2. QED BY <3>1 DEF PassedBy, ReadCall
  <2>3. CASE reading.state # "read" /\ call = NoCall
    <3>1. GotUnits = PassedBy(reading.cursor.part, reading.cursor.at)
      BY <2>3 DEF ReadInv, CursorHolds
    <3>2. reading.cursor.part \in Nat /\ reading.cursor.at \in Int \X Nat
      <4>1. CASE reading.cursor = NoCursor
        BY <4>1 DEF NoCursor
      <4>2. CASE reading.cursor # NoCursor
        BY <1>1, <4>2 DEF ReadInv, CursorHolds, InPart, SoundParts
      <4>3. QED BY <4>1, <4>2
    <3>3. QED BY <3>1, <3>2 DEF PassedBy
  <2>4. QED BY <2>1, <2>2, <2>3
<1>3. GotUnits \subseteq units
  BY <1>2 DEF PassedUnits
<1>4. \A u \in units, v \in GotUnits : UnitBefore(u, v) => u \in GotUnits
  BY <1>1, <1>2, PassedDownward
<1>5. reading.state = "read" => GotUnits = units
  BY DEF ReadInv, CursorHolds
<1>6. InSequence(reading.got)
  BY DEF ReadInv
<1>7. QED BY <1>3, <1>4, <1>5, <1>6 DEF ReadWhole, InSequence, AskedBook

----------------------------------------------------------------------------
(* Reading: the chapters are the book *)

NodesAt(o) == 0..(Len(Book.docs[Book.spine[o]]) - 1)
CharsAt(o, n) == IF Book.docs[Book.spine[o]][n + 1].kind = "text"
                 THEN 1..Book.docs[Book.spine[o]][n + 1].size ELSE {0}

OccursOnce == \A d \in DOMAIN Book.docs : Cardinality(OccurrencesOf(d)) = 1
WholeOrder == [o \in DOMAIN Book.spine |-> PartOf(Book.spine[o], BeforeNode(0), AfterNode(0))]

\* What is between two nodes.
LEMMA BetweenNodes ==
    ASSUME NEW a \in Nat, NEW b \in Nat, NEW n \in Nat, NEW i \in Nat
    PROVE  Between(<<a, 0>>, <<b, 0>>, n, i) <=> a <= n /\ n < b
  BY DEF Between

LEMMA CharsAreNumbers ==
    ASSUME activeBook \in 1..(SourceChanges + 1), NEW o \in DOMAIN Book.spine, NEW n \in NodesAt(o), NEW i \in CharsAt(o, n)
    PROVE  n \in Nat /\ i \in Nat /\ o \in Nat
<1>1. Book.spine[o] \in DOMAIN Book.docs /\ SoundBook(Book) /\ o \in Nat
  BY ActiveBook
<1>2. Len(Book.docs[Book.spine[o]]) \in Nat /\ Book.docs[Book.spine[o]][n + 1].size \in Nat
  BY <1>1, DocumentNodes DEF NodesAt
<1>3. n \in Nat
  BY <1>2 DEF NodesAt
<1>4. i \in Nat
  BY <1>2 DEF CharsAt
<1>5. QED BY <1>1, <1>3, <1>4

\* The place of a node's side, when it is before a node or after the root.
LEMMA PlacesOfSides ==
    ASSUME activeBook \in 1..(SourceChanges + 1), NEW o \in DOMAIN Book.spine, NEW n
    PROVE  /\ PlaceOf(Book.docs[Book.spine[o]], BeforeNode(n)) = <<n, 0>>
           /\ PlaceOf(Book.docs[Book.spine[o]], AfterNode(0)) = <<Len(Book.docs[Book.spine[o]]), 0>>
<1>1. Book.spine[o] \in DOMAIN Book.docs /\ SoundBook(Book)
  BY ActiveBook
<1> DEFINE doc == Book.docs[Book.spine[o]]
<1>2. doc[1].last = Len(doc) - 1 /\ Len(doc) \in Nat
  BY <1>1, DocumentNodes DEF SoundBook
<1> HIDE DEF doc
<1>3. PlaceOf(doc, BeforeNode(n)) = <<n, 0>>
  BY DEF PlaceOf, BeforeNode, SideOf
<1>4. PlaceOf(doc, AfterNode(0)) = <<doc[0 + 1].last + 1, 0>>
  BY DEF PlaceOf, AfterNode, SideOf
<1>5. QED BY <1>2, <1>3, <1>4 DEF doc

LEMMA UnitOfWhole ==
    ASSUME activeBook \in 1..(SourceChanges + 1), NEW o, NEW n, NEW i
    PROVE  <<o, n, i>> \in UnitsOf(Book, WholeOrder) <=>
               o \in DOMAIN Book.spine /\ n \in NodesAt(o) /\ i \in CharsAt(o, n)
<1>1. CASE o \in DOMAIN Book.spine
  <2>1. /\ DOMAIN WholeOrder = DOMAIN Book.spine /\ WholeOrder[o].doc = Book.spine[o]
        /\ WholeOrder[o].start = BeforeNode(0) /\ WholeOrder[o].end = AfterNode(0)
    BY <1>1 DEF WholeOrder, PartOf
  <2>2. /\ StartOf(Book, WholeOrder[o]) = <<0, 0>>
        /\ StopOf(Book, WholeOrder[o]) = <<Len(Book.docs[Book.spine[o]]), 0>>
    BY <1>1, <2>1, PlacesOfSides DEF StartOf, StopOf
  <2>3. /\ NodesIn(Book, WholeOrder[o]) = NodesAt(o)
        /\ CharsIn(Book, WholeOrder[o], n) = CharsAt(o, n)
    BY <2>1 DEF NodesIn, CharsIn, NodeIn, NodesAt, CharsAt
  <2>4. <<o, n, i>> \in UnitsOf(Book, WholeOrder) <=>
            /\ n \in NodesAt(o) /\ i \in CharsAt(o, n)
            /\ Between(<<0, 0>>, <<Len(Book.docs[Book.spine[o]]), 0>>, n, i)
    BY <1>1, <2>1, <2>2, <2>3, UnitIs
  <2>5. ASSUME n \in NodesAt(o), i \in CharsAt(o, n)
        PROVE  Between(<<0, 0>>, <<Len(Book.docs[Book.spine[o]]), 0>>, n, i)
    <3>1. n \in Nat /\ i \in Nat /\ Len(Book.docs[Book.spine[o]]) \in Nat
      BY <1>1, <2>5, CharsAreNumbers, ActiveBook, DocumentNodes
    <3>2. 0 <= n /\ n < Len(Book.docs[Book.spine[o]])
      BY <2>5, <3>1 DEF NodesAt
    <3>3. QED BY <3>1, <3>2, BetweenNodes
  <2>6. QED BY <1>1, <2>4, <2>5
<1>2. CASE o \notin DOMAIN Book.spine
  <2>1. DOMAIN WholeOrder = DOMAIN Book.spine
    BY DEF WholeOrder
  <2>2. QED BY <1>2, <2>1, UnitIs
<1>3. QED BY <1>1, <1>2

\* Where the last node that is read in an occurrence is.
EndIn(o, to) == PlaceOf(Book.docs[Book.spine[o]], to[o])

LEMMA UnitOfChapter ==
    ASSUME activeBook \in 1..(SourceChanges + 1), NEW first \in DOMAIN Book.spine, NEW stop \in DOMAIN Book.spine,
           NEW v2 \in Nat, NEW to, NEW chapter, ChapterIs(chapter, first, v2, stop, to),
           \A o \in DOMAIN Book.spine : EndIn(o, to) = <<EndIn(o, to)[1], 0>> /\ EndIn(o, to)[1] \in Nat,
           NEW o, NEW n, NEW i
    PROVE  (\E p \in 1..(stop - first + 1) : o = first + p - 1 /\ <<p, n, i>> \in UnitsOf(Book, chapter)) <=>
               /\ o \in first..stop /\ n \in NodesAt(o) /\ i \in CharsAt(o, n)
               /\ (o = first => v2 <= n) /\ n < EndIn(o, to)[1]
<1>1. Len(Book.spine) \in Nat /\ DOMAIN Book.spine = 1..Len(Book.spine)
  BY ActiveBook
<1>2. ASSUME NEW p \in 1..(stop - first + 1)
      PROVE  <<p, n, i>> \in UnitsOf(Book, chapter) <=>
                 /\ n \in NodesAt(first + p - 1) /\ i \in CharsAt(first + p - 1, n)
                 /\ (p = 1 => v2 <= n) /\ n < EndIn(first + p - 1, to)[1]
  <2> DEFINE q == first + p - 1
             from == IF p = 1 THEN v2 ELSE 0
  <2>1. q \in DOMAIN Book.spine /\ chapter[p] = PartOf(Book.spine[q], BeforeNode(from), to[q]) /\ p \in DOMAIN chapter
    BY DEF ChapterIs
  <2> HIDE DEF q
  <2>2. chapter[p].doc = Book.spine[q] /\ chapter[p].start = BeforeNode(from) /\ chapter[p].end = to[q]
    BY <2>1 DEF PartOf
  <2>3. StartOf(Book, chapter[p]) = <<from, 0>> /\ StopOf(Book, chapter[p]) = <<EndIn(q, to)[1], 0>>
    BY <2>1, <2>2, PlacesOfSides DEF StartOf, StopOf, EndIn
  <2>4. NodesIn(Book, chapter[p]) = NodesAt(q) /\ CharsIn(Book, chapter[p], n) = CharsAt(q, n)
    BY <2>2 DEF NodesIn, CharsIn, NodeIn, NodesAt, CharsAt
  <2>5. <<p, n, i>> \in UnitsOf(Book, chapter) <=>
            n \in NodesAt(q) /\ i \in CharsAt(q, n) /\ Between(<<from, 0>>, <<EndIn(q, to)[1], 0>>, n, i)
    BY <2>1, <2>3, <2>4, UnitIs
  <2>6. ASSUME n \in NodesAt(q), i \in CharsAt(q, n)
        PROVE  Between(<<from, 0>>, <<EndIn(q, to)[1], 0>>, n, i) <=> (p = 1 => v2 <= n) /\ n < EndIn(q, to)[1]
    <3>1. n \in Nat /\ i \in Nat /\ EndIn(q, to)[1] \in Nat
      BY <2>1, <2>6, CharsAreNumbers
    <3>2. from \in Nat /\ (from <= n <=> (p = 1 => v2 <= n))
      BY <3>1
    <3> HIDE DEF from
    <3>3. QED BY <3>1, <3>2, BetweenNodes
  <2> HIDE DEF from
  <2>7. QED BY <2>5, <2>6 DEF q
<1>3. stop - first + 1 \in Nat
  BY DEF ChapterIs
<1>4. ASSUME NEW p \in 1..(stop - first + 1), o = first + p - 1
      PROVE  o \in first..stop /\ (o = first <=> p = 1)
  BY <1>1, <1>3, <1>4
<1>5. ASSUME o \in first..stop
      PROVE  o - first + 1 \in 1..(stop - first + 1) /\ o = first + (o - first + 1) - 1
  BY <1>1, <1>3, <1>5
<1>6. ASSUME NEW p \in 1..(stop - first + 1), o = first + p - 1, <<p, n, i>> \in UnitsOf(Book, chapter)
      PROVE  /\ o \in first..stop /\ n \in NodesAt(o) /\ i \in CharsAt(o, n)
             /\ (o = first => v2 <= n) /\ n < EndIn(o, to)[1]
  BY <1>2, <1>4, <1>6
<1>7. ASSUME o \in first..stop, n \in NodesAt(o), i \in CharsAt(o, n), o = first => v2 <= n, n < EndIn(o, to)[1]
      PROVE  \E p \in 1..(stop - first + 1) : o = first + p - 1 /\ <<p, n, i>> \in UnitsOf(Book, chapter)
  <2> DEFINE p == o - first + 1
  <2>1. p \in 1..(stop - first + 1) /\ o = first + p - 1
    BY <1>5, <1>7
  <2>2. o = first <=> p = 1
    BY <1>4, <2>1
  <2> HIDE DEF p
  <2>3. <<p, n, i>> \in UnitsOf(Book, chapter)
    BY <1>2, <1>7, <2>1, <2>2
  <2>4. QED BY <2>1, <2>3
<1>8. QED BY <1>6, <1>7

\* Where every document occurs once, each destination has a chapter over the reading order.
LEMMA ChapterOfDestination ==
    ASSUME activeBook \in 1..(SourceChanges + 1), OccursOnce, NEW v \in Destinations
    PROVE  \E stop \in DOMAIN Book.spine : \E to :
               /\ v[1] <= stop /\ ChapterEnds(v[1], v[2], stop, to)
               /\ ChapterIs(Chapter(Book.spine[v[1]], v[2]), v[1], v[2], stop, to)
<1> DEFINE d == Book.spine[v[1]]
           n == v[2]
<1>1. v[1] \in DOMAIN Book.spine /\ d \in DOMAIN Book.docs /\ n \in Nat
  BY DestinationsAre, ActiveBook
<1>2. ASSUME NEW e \in DOMAIN Book.docs, NEW o \in OccurrencesOf(e), NEW p \in OccurrencesOf(e) PROVE o = p
  <2>1. IsFiniteSet(OccurrencesOf(e))
    <3>1. IsFiniteSet(1..Len(Book.spine))
      BY ActiveBook, FS_Interval
    <3>2. OccurrencesOf(e) \subseteq 1..Len(Book.spine)
      BY ActiveBook DEF OccurrencesOf
    <3>3. QED BY <3>1, <3>2, FS_Subset
  <2>2. \E x : OccurrencesOf(e) = {x}
    BY <2>1, FS_Singleton DEF OccursOnce
  <2>3. QED BY <2>2
<1>3. ~Ambiguous(d, n)
  <2>1. ASSUME NEW o \in OccurrencesOf(d), Following(o, n) # {}
        PROVE  Cardinality(OccurrencesOf(Book.spine[FirstVisit(Following(o, n))[1]])) = 1
    <3>1. Following(o, n) \subseteq Nat \X Nat
      BY DestinationsAre DEF Following
    <3>2. FirstVisit(Following(o, n)) \in Destinations
      BY <2>1, <3>1, FirstVisitIs DEF Following
    <3>3. Book.spine[FirstVisit(Following(o, n))[1]] \in DOMAIN Book.docs
      BY <3>2, DestinationsAre, ActiveBook
    <3>4. QED BY <3>3 DEF OccursOnce
  <2>2. Cardinality(OccurrencesOf(d)) = 1
    BY <1>1 DEF OccursOnce
  <2>3. QED BY <2>1, <2>2 DEF Ambiguous
<1>4. PICK first, stop \in DOMAIN Book.spine : \E to :
          /\ Book.spine[first] = d /\ first <= stop
          /\ ChapterEnds(first, n, stop, to) /\ ChapterIs(NavigationParts(d, n), first, n, stop, to)
  BY <1>1, <1>3, ChapterParts
<1>5. first = v[1]
  <2>1. first \in OccurrencesOf(d) /\ v[1] \in OccurrencesOf(d)
    BY <1>1, <1>4 DEF OccurrencesOf
  <2>2. QED BY <1>1, <1>2, <2>1
<1>6. Chapter(d, n) = NavigationParts(d, n)
  BY <1>3 DEF Chapter
<1>7. QED BY <1>4, <1>5, <1>6

\* A chapter is what is between its destination and the next.
LEMMA ChaptersAreTheBook ==
    ASSUME activeBook \in 1..(SourceChanges + 1), OccursOnce, NEW v \in Destinations
    PROVE  /\ \A i \in DOMAIN Chapter(Book.spine[v[1]], v[2]) :
                  Chapter(Book.spine[v[1]], v[2])[i].doc = Book.spine[v[1] + i - 1]
           /\ {<<v[1] + u[1] - 1, u[2], u[3]>> : u \in UnitsOf(Book, Chapter(Book.spine[v[1]], v[2]))}
              = {u \in UnitsOf(Book, WholeOrder) :
                    ~Earlier(u, v) /\ \A w \in Destinations : Earlier(v, w) => Earlier(u, w)}
<1> DEFINE first == v[1]
           n == v[2]
           chapter == Chapter(Book.spine[first], n)
           later == Following(first, n)
<1>1. /\ Len(Book.spine) \in Nat /\ DOMAIN Book.spine = 1..Len(Book.spine)
      /\ first \in DOMAIN Book.spine /\ v = <<first, n>> /\ n \in Nat /\ first \in Nat
  BY ActiveBook, DestinationsAre
<1>2. PICK stop \in DOMAIN Book.spine : \E to :
          first <= stop /\ ChapterEnds(first, n, stop, to) /\ ChapterIs(chapter, first, n, stop, to)
  BY ChapterOfDestination
<1>3. PICK to : ChapterEnds(first, n, stop, to) /\ ChapterIs(chapter, first, n, stop, to)
  BY <1>2
<1> HIDE DEF chapter
<1>4. ASSUME NEW i \in DOMAIN chapter PROVE chapter[i].doc = Book.spine[first + i - 1]
  <2>1. chapter[i] = PartOf(Book.spine[first + i - 1], chapter[i].start, chapter[i].end)
    <3>1. i \in 1..(stop - first + 1)
      BY <1>3 DEF ChapterIs
    <3>2. chapter[i] = PartOf(Book.spine[first + i - 1], BeforeNode(IF i = 1 THEN n ELSE 0), to[first + i - 1])
      BY <1>3, <3>1 DEF ChapterIs
    <3>3. QED BY <3>2 DEF PartOf
  <2>2. QED BY <2>1 DEF PartOf
<1>5. later \subseteq Nat \X Nat /\ \A w \in later : w[1] \in DOMAIN Book.spine /\ w[2] \in NodesAt(w[1])
  BY DestinationsAre DEF Following, NodesAt
<1>6. ASSUME NEW o \in DOMAIN Book.spine
      PROVE  /\ EndIn(o, to) = <<EndIn(o, to)[1], 0>> /\ EndIn(o, to)[1] \in Nat
             /\ to[o] = AfterNode(0) => EndIn(o, to)[1] = Len(Book.docs[Book.spine[o]])
             /\ \A m \in Nat : to[o] = BeforeNode(m) => EndIn(o, to)[1] = m
  <2>1. Len(Book.docs[Book.spine[o]]) \in Nat
    BY ActiveBook, DocumentNodes
  <2>2. to[o] = AfterNode(0) => EndIn(o, to) = <<Len(Book.docs[Book.spine[o]]), 0>>
    BY PlacesOfSides DEF EndIn
  <2>3. \A m \in Nat : to[o] = BeforeNode(m) => EndIn(o, to) = <<m, 0>>
    BY PlacesOfSides DEF EndIn
  <2>4. to[o] = AfterNode(0) \/ \E m \in Nat : to[o] = BeforeNode(m)
    BY <1>3, <1>5 DEF ChapterEnds
  <2>5. QED BY <2>1, <2>2, <2>3, <2>4
<1>7. ASSUME NEW o \in DOMAIN Book.spine, NEW m \in NodesAt(o), NEW i \in CharsAt(o, m)
      PROVE  o <= stop /\ m < EndIn(o, to)[1] <=> \A w \in later : Earlier(<<o, m, i>>, w)
  <2>1. o \in Nat /\ m \in Nat /\ m < Len(Book.docs[Book.spine[o]])
    <3>1. m \in Nat /\ o \in Nat
      BY CharsAreNumbers
    <3>2. Len(Book.docs[Book.spine[o]]) \in Nat
      BY ActiveBook, DocumentNodes
    <3>3. QED BY <3>1, <3>2 DEF NodesAt
  <2>2. CASE later = {} /\ stop = Len(Book.spine) /\ to[o] = AfterNode(0)
    BY <1>1, <1>6, <2>1, <2>2
  <2>3. ASSUME NEW w \in later, \A x \in later : ~Earlier(x, w),
               stop = IF w[2] = 0 THEN w[1] - 1 ELSE w[1],
               to[o] = IF o = w[1] THEN BeforeNode(w[2]) ELSE AfterNode(0)
        PROVE  o <= stop /\ m < EndIn(o, to)[1] <=> \A x \in later : Earlier(<<o, m, i>>, x)
    <3>1. (\A x \in later : Earlier(<<o, m, i>>, x)) <=> o < w[1] \/ (o = w[1] /\ m < w[2])
      <4>1. ASSUME NEW x \in later, o < w[1] \/ (o = w[1] /\ m < w[2]) PROVE Earlier(<<o, m, i>>, x)
        <5>1. x \in Nat \X Nat /\ w \in Nat \X Nat /\ ~Earlier(x, w)
          BY <1>5, <2>3
        <5> HIDE DEF later
        <5>2. QED BY <2>1, <4>1, <5>1 DEF Earlier
      <4>2. Earlier(<<o, m, i>>, w) <=> o < w[1] \/ (o = w[1] /\ m < w[2])
        BY DEF Earlier
      <4> HIDE DEF later
      <4>3. QED BY <2>3, <4>1, <4>2
    <3>2. w[1] \in Nat /\ w[2] \in Nat
      BY <1>5
    <3>3. CASE o = w[1]
      <4>1. EndIn(o, to)[1] = w[2]
        BY <1>6, <2>3, <3>2, <3>3
      <4>2. QED BY <2>1, <2>3, <3>1, <3>2, <3>3, <4>1
    <3>4. CASE o # w[1]
      <4>1. m < EndIn(o, to)[1]
        BY <1>6, <2>1, <2>3, <3>4
      <4>2. QED BY <2>1, <2>3, <3>1, <3>2, <3>4, <4>1
    <3>5. QED BY <3>3, <3>4
  <2>4. QED BY <1>3, <2>2, <2>3 DEF ChapterEnds
<1>8. ASSUME NEW o, NEW m, NEW i
      PROVE  (\E p \in 1..(stop - first + 1) : o = first + p - 1 /\ <<p, m, i>> \in UnitsOf(Book, chapter)) <=>
                 /\ <<o, m, i>> \in UnitsOf(Book, WholeOrder)
                 /\ ~Earlier(<<o, m, i>>, v)
                 /\ \A w \in Destinations : Earlier(v, w) => Earlier(<<o, m, i>>, w)
  <2>1. (\E p \in 1..(stop - first + 1) : o = first + p - 1 /\ <<p, m, i>> \in UnitsOf(Book, chapter)) <=>
            /\ o \in first..stop /\ m \in NodesAt(o) /\ i \in CharsAt(o, m)
            /\ (o = first => n <= m) /\ m < EndIn(o, to)[1]
    <3>1. \A q \in DOMAIN Book.spine : EndIn(q, to) = <<EndIn(q, to)[1], 0>> /\ EndIn(q, to)[1] \in Nat
      BY <1>6
    <3>2. first \in DOMAIN Book.spine /\ n \in Nat /\ ChapterIs(chapter, first, n, stop, to)
      BY <1>1, <1>3
    <3> HIDE DEF first, n
    <3>3. QED BY <3>1, <3>2, UnitOfChapter, Zenon
  <2>2. <<o, m, i>> \in UnitsOf(Book, WholeOrder) <=>
            o \in DOMAIN Book.spine /\ m \in NodesAt(o) /\ i \in CharsAt(o, m)
    BY UnitOfWhole
  <2>3. (\A w \in Destinations : Earlier(v, w) => Earlier(<<o, m, i>>, w)) <=>
            \A w \in later : Earlier(<<o, m, i>>, w)
    BY <1>1 DEF Following
  <2>4. ASSUME o \in DOMAIN Book.spine, m \in NodesAt(o), i \in CharsAt(o, m)
        PROVE  ~Earlier(<<o, m, i>>, v) <=> first <= o /\ (o = first => n <= m)
    <3>1. o \in Nat /\ m \in Nat
      BY <2>4, CharsAreNumbers
    <3>2. QED BY <1>1, <3>1 DEF Earlier
  <2>5. o \in first..stop <=> o \in DOMAIN Book.spine /\ first <= o /\ o <= stop
    BY <1>1
  <2>6. QED BY <1>7, <2>1, <2>2, <2>3, <2>4, <2>5
<1>9. ASSUME NEW u \in UnitsOf(Book, chapter)
      PROVE  u = <<u[1], u[2], u[3]>> /\ u[1] \in 1..(stop - first + 1)
  <2>1. u = <<u[1], u[2], u[3]>>
    BY UnitsAreTriples
  <2>2. u[1] \in DOMAIN chapter
    BY <2>1, UnitIs
  <2>3. QED BY <1>3, <2>1, <2>2 DEF ChapterIs
<1>10. ASSUME NEW u \in UnitsOf(Book, WholeOrder) PROVE u = <<u[1], u[2], u[3]>>
  BY UnitsAreTriples
<1> DEFINE Read == {<<first + u[1] - 1, u[2], u[3]>> : u \in UnitsOf(Book, chapter)}
           Between2 == {u \in UnitsOf(Book, WholeOrder) :
                           ~Earlier(u, v) /\ \A w \in Destinations : Earlier(v, w) => Earlier(u, w)}
<1>11. ASSUME NEW u \in UnitsOf(Book, chapter) PROVE <<first + u[1] - 1, u[2], u[3]>> \in Between2
  <2>1. <<u[1], u[2], u[3]>> \in UnitsOf(Book, chapter) /\ u[1] \in 1..(stop - first + 1)
    BY <1>9
  <2>2. QED BY <1>8, <2>1
<1>12. ASSUME NEW u \in Between2 PROVE u \in Read
  <2>1. u = <<u[1], u[2], u[3]>>
    BY <1>10
  <2>2. PICK p \in 1..(stop - first + 1) : u[1] = first + p - 1 /\ <<p, u[2], u[3]>> \in UnitsOf(Book, chapter)
    BY <1>8, <2>1
  <2>3. QED BY <2>1, <2>2
<1>13. Read = Between2
  BY <1>11, <1>12
<1>14. QED BY <1>4, <1>13 DEF chapter

LEMMA ChaptersTileHolds == ReadTyped => ChaptersTile
<1> SUFFICES ASSUME activeBook \in 1..(SourceChanges + 1), OccursOnce, NEW v \in Destinations
             PROVE  LET chapter == Chapter(Book.spine[v[1]], v[2]) IN
                    /\ \A i \in DOMAIN chapter : chapter[i].doc = Book.spine[v[1] + i - 1]
                    /\ {<<v[1] + u[1] - 1, u[2], u[3]>> : u \in UnitsOf(Book, chapter)}
                       = {u \in UnitsOf(Book, WholeOrder) :
                             ~Earlier(u, v) /\ \A w \in Destinations : Earlier(v, w) => Earlier(u, w)}
  BY Zenon DEF ReadTyped, ChaptersTile, OccursOnce, WholeOrder
<1>1. QED BY ChaptersAreTheBook, Zenon

\* For any books, targets, budgets and publications: whatever is given in pages is the selection of
\* one publication in order, whole at its end, and the chapters of the contents are the book.
THEOREM BooksAreRead == ReadSpec => []BookReads
<1>1. ReadInit => ReadInv
  BY ReadInitInv
<1>2. ReadInv /\ [ReadNext]_readVars => ReadInv'
  BY ReadStep
<1>3. ReadInv => BookReads
  BY ReadWholeHolds, ChaptersTileHolds DEF BookReads, ReadInv
<1>4. QED BY <1>1, <1>2, <1>3, PTL DEF ReadSpec
=============================================================================
