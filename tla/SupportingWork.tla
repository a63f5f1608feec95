---------------------------- MODULE SupportingWork ----------------------------
(***************************************************************************)
(* The supporting work of a recipe (book_model.py supporting_work): its    *)
(* uses of other recipes of the book are followed breadth first, as far as *)
(* they are required as a whole and the depth, the limit and the size of   *)
(* the answer allow.                                                       *)
(***************************************************************************)
EXTENDS Naturals, Sequences, FiniteSets

CONSTANTS
    BookUses,     \* for each book that may be asked: the uses of each recipe, in order
    ChoicesOf,    \* the number of choices recorded for each recipe
    Asked,        \* the recipe asked for
    Depths, WorkLimits, \* what a caller may ask for
    WorkRoom,     \* the uses and choices that fit the answer's size (24000 bytes)
    NoTarget      \* a use of a recipe that is not known

ASSUME WorkAssumption ==
    /\ WorkRoom \in Nat /\ Depths \subseteq Nat /\ WorkLimits \subseteq Nat
    /\ \A uses \in BookUses :
        LET recipes == DOMAIN uses IN
        /\ IsFiniteSet(recipes) /\ Asked \in recipes /\ NoTarget \notin recipes
        /\ \A r \in recipes : ChoicesOf[r] \in Nat
        /\ \A r \in recipes : uses[r] \in Seq([class : {"required", "optional", "unknown"},
                                             scope : {"whole", "part", "unknown"},
                                             target : recipes \cup {NoTarget}])

VARIABLES
    usesOf,      \* the uses of each recipe of the book
    depth, limit,
    walk,        \* the recipes to be expanded, each with its level and the path to it
    expanding,   \* the recipe being expanded, its uses read so far
    answer       \* uses, choices, cycles, unresolved uses and whether the answer is truncated

workVars == <<usesOf, depth, limit, walk, expanding, answer>>

NoRecipe == [recipe |-> NoTarget, level |-> 0, path |-> <<>>, read |-> 0]

WorkInit ==
    /\ usesOf \in BookUses /\ depth \in Depths /\ limit \in WorkLimits
    /\ walk = <<[recipe |-> Asked, level |-> 0, path |-> <<Asked>>, read |-> 0]>>
    /\ expanding = NoRecipe
    /\ answer = [uses |-> <<>>, choices |-> 0, used |-> 0, cycles |-> {}, unresolved |-> {},
                 truncated |-> FALSE]

Min2(a, b) == IF a <= b THEN a ELSE b

\* The choices of the recipe, as many as the limit and the size leave room for.
Expand ==
    /\ expanding = NoRecipe /\ walk # <<>>
    /\ LET next == Head(walk)
           room == Min2(limit - answer.choices, WorkRoom - Min2(answer.used, WorkRoom))
           taken == Min2(ChoicesOf[next.recipe], room) IN
       /\ expanding' = next
       /\ answer' = [answer EXCEPT !.choices = @ + taken, !.used = @ + taken,
                                   !.truncated = @ \/ taken < ChoicesOf[next.recipe]]
    /\ walk' = Tail(walk)
    /\ UNCHANGED <<usesOf, depth, limit>>

Followed(use) == use.class = "required" /\ use.scope = "whole" /\ use.target # NoTarget

\* A use whose kind, scope or target nobody settled; a required one in part is not followed.
Unsettled(use) ==
    \/ use.class = "unknown" \/ use.scope = "unknown" \/ use.target = NoTarget
    \/ use.class = "required" /\ use.scope # "whole"

Visited(path, r) == \E i \in DOMAIN path : path[i] = r

CurrentUse == usesOf[expanding.recipe][expanding.read + 1]

\* The answer is full: nothing more is read.
AnswerFull ==
    /\ expanding # NoRecipe /\ expanding.read < Len(usesOf[expanding.recipe])
    /\ Len(answer.uses) >= limit \/ answer.used + 1 > WorkRoom
    /\ answer' = [answer EXCEPT !.truncated = TRUE, !.used = @ + 1]
    /\ walk' = <<>> /\ expanding' = NoRecipe
    /\ UNCHANGED <<usesOf, depth, limit>>

\* mutant: nothing is said of a recipe below the depth
TooDeepSilently == FALSE

\* A use followed below the depth asked for.
TooDeep == Followed(CurrentUse) /\ ~Visited(expanding.path, CurrentUse.target) /\ expanding.level >= depth

ReadUse ==
    /\ expanding # NoRecipe /\ expanding.read < Len(usesOf[expanding.recipe])
    /\ Len(answer.uses) < limit /\ answer.used + 1 <= WorkRoom
    /\ answer' = [answer EXCEPT
           !.uses = Append(@, <<expanding.recipe, expanding.read + 1>>),
           !.used = @ + 1,
           !.unresolved = @ \cup {u \in {<<expanding.recipe, expanding.read + 1>>} : Unsettled(CurrentUse)},
           !.cycles = @ \cup {p \in {Append(expanding.path, CurrentUse.target)} :
                                  Followed(CurrentUse) /\ Visited(expanding.path, CurrentUse.target)},
           !.truncated = @ \/ TooDeep]
    /\ walk' = IF Followed(CurrentUse) /\ ~Visited(expanding.path, CurrentUse.target) /\ expanding.level < depth
               THEN Append(walk, [recipe |-> CurrentUse.target, level |-> expanding.level + 1,
                                  path |-> Append(expanding.path, CurrentUse.target), read |-> 0])
               ELSE walk
    /\ expanding' = [expanding EXCEPT !.read = @ + 1]
    /\ UNCHANGED <<usesOf, depth, limit>>

Expanded ==
    /\ expanding # NoRecipe /\ expanding.read = Len(usesOf[expanding.recipe])
    /\ expanding' = NoRecipe
    /\ UNCHANGED <<usesOf, depth, limit, walk, answer>>

WorkNext == Expand \/ ReadUse \/ AnswerFull \/ Expanded

WorkSpec == WorkInit /\ [][WorkNext]_workVars

----------------------------------------------------------------------------
(* Properties *)

Answered == walk = <<>> /\ expanding = NoRecipe

\* The recipes whose whole work a recipe of the book requires.
FollowedFrom(uses, p) == {uses[p][i].target : i \in {j \in DOMAIN uses[p] : Followed(uses[p][j])}}

\* What is needed to make a recipe: the recipes reached by required uses of whole recipes.
Needs(uses, r) ==
    LET recipes == Cardinality(DOMAIN uses)
        reach[n \in 0..recipes] ==
            IF n = 0 THEN {r} ELSE reach[n - 1] \cup UNION {FollowedFrom(uses, p) : p \in reach[n - 1]}
    IN  reach[recipes]

UsesOfAll(uses, rs) == UNION {{<<r, i>> : i \in DOMAIN uses[r]} : r \in rs}

\* An answer that does not say it is truncated lists every use of every recipe needed, names as
\* unresolved each of them that is not settled, and finds a cycle if there is one, in whatever
\* order the recipes share and repeat each other (book_model.py:563-620).
AnswersWhole == Answered /\ ~answer.truncated =>
    LET listed == {answer.uses[i] : i \in DOMAIN answer.uses}
        needed == UsesOfAll(usesOf, Needs(usesOf, Asked)) IN
    /\ listed = needed
    /\ answer.unresolved = {u \in needed : Unsettled(usesOf[u[1]][u[2]])}
    /\ answer.cycles # {} <=> \E r \in Needs(usesOf, Asked) :
           \E target \in FollowedFrom(usesOf, r) : r \in Needs(usesOf, target)
=============================================================================
