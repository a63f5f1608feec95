---------------------------- MODULE RecipeStructure ----------------------------
(***************************************************************************)
(* Interpretation of a native book (book_interpret.py): recipes are        *)
(* proposed between title runs, or retained when there are some; each is   *)
(* read block by block into parts and occurrences of ingredients and       *)
(* instructions, beside those it already has; links between recipes are    *)
(* recorded as uses.  An interpretation may be built on top of another.    *)
(* Block i stands at the nodes 3i and 3i + 1; 3i + 2 is between blocks.    *)
(***************************************************************************)
EXTENDS Integers, Sequences, FiniteSetsExt

CONSTANTS
    Blocks,     \* what the books may be: sequences of blocks, BlockType below
    Supported,  \* recipes and occurrences entered by hand that a book may begin with
    Profiles,   \* the profiles of markup a book may have, ProfileType below
    WindowBlocks, WindowChars, \* what a proposed recipe may have at most
    Interpretations, \* bound of the model: builds, one on top of another
    NoPart, NoNode

\* A block: its role or style; the part its style or text names; whether its text begins with
\* "for" or is "method"; document, link, length; whether a verb of preparation is in it.
BlockType ==
    [kind : STRING, label : STRING \cup {NoPart}, wording : STRING, doc : Nat,
     link : Nat \cup {NoNode}, chars : Nat, acts : BOOLEAN]

\* prose_recipe, retain_trailing_document, inline_ingredient_groups and instruction_part_kinds.
ProfileType == [prose : BOOLEAN, trailing : BOOLEAN, inline : BOOLEAN, kinds : SUBSET STRING]

\* Two occurrences share no node.
Apart(c, d) == c.to <= d.from \/ d.to <= c.from

\* Recipes have IDs of their own and select blocks of their book; a person marks no place twice.
ASSUME StructureAssumption ==
    /\ \A p \in Profiles : p \in ProfileType /\ NoPart \notin p.kinds
    /\ WindowBlocks \in Nat /\ WindowChars \in Nat /\ Interpretations \in Nat
    /\ NoPart \notin Nat /\ NoPart \notin {"ingredient_group", "method_group", "equipment"}
    /\ \A bs \in Blocks : bs \in Seq(BlockType)
    /\ \A s \in Supported :
          /\ IsFiniteSet(s.recipes)
          /\ \A r \in s.recipes : r.id \in Nat /\ \A bs \in Blocks : r.blocks \subseteq DOMAIN bs
          /\ \A r, t \in s.recipes : r.id = t.id => r = t
          /\ \A c \in s.occurrences : c.from \in Nat /\ c.to \in Nat
          /\ \A c, d \in s.occurrences :
                c # d /\ c.recipe = d.recipe /\ c.kind = d.kind => Apart(c, d)

VARIABLES
    markup,     \* the profile of the book
    blocks,     \* the text blocks of the book
    recipes,    \* the recipes of the model: id, and the blocks of its selection
    parts,      \* recipe parts: recipe, the block that names it, kind, ordinal, blocks
    occurrences, \* ingredients and instructions: recipe, kind, from and to (nodes), part, ordinal
    uses,       \* uses of a recipe by another
    build       \* the interpretation being made

structureVars == <<markup, blocks, recipes, parts, occurrences, uses, build>>

Indexes == DOMAIN blocks
Start(i) == 3 * i
End(i) == 3 * i + 1
KindOf(i) == blocks[i].kind
SameDocument(i, j) == blocks[i].doc = blocks[j].doc

\* What a recipe that is read has been found to have so far.
Fresh == [ingredient |-> FALSE, instruction |-> FALSE, part |-> NoPart, partKind |-> NoPart,
          groups |-> 0, ingredients |-> 0, instructions |-> 0]
NoInterpretation == [phase |-> "none", runs |-> 0, at |-> 1, queue |-> {},
          state |-> Fresh, parts |-> {}, occurrences |-> {}, added |-> {}]

StructureInit ==
    /\ markup \in Profiles /\ blocks \in Blocks
    /\ \E s \in Supported : recipes = s.recipes /\ occurrences = s.occurrences
    /\ parts = {} /\ uses = {}
    /\ build = NoInterpretation

----------------------------------------------------------------------------
(* proposed_recipes *)

\* "prefixed": an instruction by the prefix of its text.
IngredientRole(i) == KindOf(i) = "ingredient"
InstructionRole(i) == KindOf(i) \in {"instruction", "prefixed"}

Starts == {i \in Indexes : KindOf(i) = "title" /\ (i = 1 \/ KindOf(i - 1) # "title" \/ ~SameDocument(i - 1, i))}

LeastOf(S, default) == IF S = {} THEN default ELSE CHOOSE i \in S : \A j \in S : i <= j

NextStart(i) == LeastOf({j \in Starts : j > i}, Len(blocks) + 1)

\* Titles of one document that follow each other are one title.
TitleEnd(i) == LeastOf({j \in (i + 1)..NextStart(i) :
    j = NextStart(i) \/ KindOf(j) # "title" \/ ~SameDocument(i, j)}, NextStart(i))

WindowEnd(i) == LeastOf({j \in TitleEnd(i)..(NextStart(i) - 1) : KindOf(j) = "stop"}, NextStart(i))

Ingredients(i) == {j \in i..(WindowEnd(i) - 1) : IngredientRole(j)}
Methods(i) == {j \in i..(WindowEnd(i) - 1) :
    InstructionRole(j) /\ (markup.prose \/ \E k \in Ingredients(i) : k < j)}

Window(i) == i..(WindowEnd(i) - 1)
CharsOf(i) == blocks[i].chars

\* Ingredients before a method, or prose that prepares something, of no more than its bounds.
Bounded(i) ==
    /\ Methods(i) # {}
    /\ Cardinality(Window(i)) <= WindowBlocks /\ MapThenSumSet(CharsOf, Window(i)) <= WindowChars
    /\ IF markup.prose THEN \E j \in Window(i) : blocks[j].acts ELSE Ingredients(i) # {}

LastRecognized(i) == CHOOSE j \in Ingredients(i) \cup Methods(i) :
                         \A k \in Ingredients(i) \cup Methods(i) : k <= j

\* The rest of the document after the last recognized block belongs to the recipe.
RecipeEnd(i) ==
    IF ~markup.trailing THEN LastRecognized(i)
    ELSE LeastOf({j \in LastRecognized(i)..(WindowEnd(i) - 1) :
                      j + 1 = WindowEnd(i) \/ ~SameDocument(j, j + 1)}, LastRecognized(i))

Begin(edition) ==
    IF recipes = {}
    THEN [edition EXCEPT !.phase = "propose", !.at = LeastOf(Starts, Len(blocks) + 1)]
    ELSE [edition EXCEPT !.phase = "annotate", !.queue = recipes]

\* interpretation_build and interpret: of the copied model of the build before.
Interpret ==
    /\ build.phase = "none" /\ build.runs < Interpretations
    /\ build' = Begin([NoInterpretation EXCEPT !.runs = build.runs + 1])
    /\ UNCHANGED <<markup, blocks, recipes, parts, occurrences, uses>>

Propose ==
    /\ build.phase = "propose" /\ build.at <= Len(blocks)
    /\ LET i == build.at
           recipe == [id |-> i, blocks |-> i..RecipeEnd(i)] IN
       IF Bounded(i)
       THEN /\ recipes' = recipes \cup {recipe}
            /\ build' = [build EXCEPT !.queue = @ \cup {recipe},
                                      !.at = NextStart(i)]
       ELSE build' = [build EXCEPT !.at = NextStart(i)] /\ UNCHANGED recipes
    /\ UNCHANGED <<markup, blocks, parts, occurrences, uses>>

Proposed ==
    /\ build.phase = "propose" /\ build.at > Len(blocks)
    /\ build' = [build EXCEPT !.phase = "annotate"]
    /\ UNCHANGED <<markup, blocks, recipes, parts, occurrences, uses>>

----------------------------------------------------------------------------
(* annotate_recipe *)

\* Retained recipes are read by ID, proposed ones as they were proposed, which is the same.
Reading == CHOOSE r \in build.queue : \A s \in build.queue : r.id <= s.id

\* What the recipe has before it is read, and its first block.
TakeRecipe ==
    /\ build.phase = "annotate" /\ build.queue # {}
    /\ build' = [build EXCEPT
           !.phase = "read", !.state = Fresh,
           !.at = LeastOf(Reading.blocks, Len(blocks) + 1),
           !.parts = {p \in parts : p.recipe = Reading.id},
           !.occurrences = {c \in occurrences : c.recipe = Reading.id}]
    /\ UNCHANGED <<markup, blocks, recipes, parts, occurrences, uses>>

NextBlock == LeastOf({j \in Reading.blocks : j > build.at}, Len(blocks) + 1)
ReadingBlock == build.phase = "read" /\ build.at <= Len(blocks)

NamedPart(i) == IF KindOf(i) = "equipment" THEN "equipment" ELSE blocks[i].label

\* "For the sauce" names a group where ingredients are set so; "Method" names the method.
PartKind(i) ==
    CASE blocks[i].wording = "for" /\ (IngredientRole(i) \/ markup.inline) -> "ingredient_group"
      [] blocks[i].wording = "method" /\ NamedPart(i) # NoPart -> "method_group"
      [] OTHER -> NamedPart(i)

\* A part ends at the next label of the profile, a group of ingredients at an instruction too.
PartEnd(i) ==
    IF KindOf(i) = "equipment" THEN i
    ELSE LeastOf({j \in Reading.blocks : j > i /\ (blocks[j].label # NoPart
                     \/ (PartKind(i) = "ingredient_group" /\ InstructionRole(j)))}, Len(blocks) + 1) - 1

KnownPart(i) == \E p \in build.parts : i \in p.blocks

ReadLabel ==
    /\ ReadingBlock /\ PartKind(build.at) # NoPart
    /\ LET i == build.at
           known == KnownPart(i)
           part == [recipe |-> Reading.id, at |-> i, kind |-> PartKind(i),
                    ordinal |-> build.state.groups,
                    blocks |-> {j \in Reading.blocks : i <= j /\ j <= PartEnd(i)}] IN
       /\ parts' = parts \cup {p \in {part} : ~known}
       /\ build' = [build EXCEPT
              !.at = NextBlock,
              !.state.part = IF known THEN NoPart ELSE i,
              !.state.partKind = PartKind(i),
              !.state.ingredient = @ \/ (PartKind(i) = "ingredient_group" /\ IngredientRole(i)),
              !.state.groups = IF known THEN @ ELSE @ + 1]
    /\ UNCHANGED <<markup, blocks, recipes, occurrences, uses>>

IsIngredient(i) == IngredientRole(i) /\ build.state.partKind # "equipment"

\* A profile may take instructions from some kinds of parts only, besides those with its prefix.
IsInstruction(i) ==
    \/ /\ InstructionRole(i) /\ (build.state.ingredient \/ markup.prose)
       /\ markup.kinds = {} \/ KindOf(i) = "prefixed" \/ build.state.partKind \in markup.kinds
    \/ build.state.instruction /\ KindOf(i) = "more"

\* mutant: only what begins with the block is compared
SameStart(kind, i) == \E c \in build.occurrences : c.kind = kind /\ c.from = Start(i)

\* The recipe had an occurrence of this kind that shares a node with the block.
Covered(kind, i) == \E c \in build.occurrences : c.kind = kind /\ c.from < End(i) + 1 /\ c.to > Start(i)

Occurrence(kind, i, ordinal, part) ==
    [recipe |-> Reading.id, kind |-> kind, from |-> Start(i), to |-> End(i) + 1,
     part |-> part, ordinal |-> ordinal]

Adds(occurrence, i) ==
    IF Covered(occurrence.kind, i) THEN {} ELSE {occurrence}

ReadIngredient ==
    /\ ReadingBlock /\ PartKind(build.at) = NoPart /\ IsIngredient(build.at)
    /\ LET i == build.at
           new == Adds(Occurrence("ingredient", i, build.state.ingredients, build.state.part), i) IN
       /\ occurrences' = occurrences \cup new
       /\ build' = [build EXCEPT !.at = NextBlock, !.added = @ \cup new,
                                 !.state.ingredient = TRUE, !.state.ingredients = @ + 1]
    /\ UNCHANGED <<markup, blocks, recipes, parts, uses>>

\* An instruction ends a group of ingredients, or of equipment.
ReadInstruction ==
    /\ ReadingBlock /\ PartKind(build.at) = NoPart
    /\ ~IsIngredient(build.at) /\ IsInstruction(build.at)
    /\ LET i == build.at
           ends == build.state.partKind \in {"ingredient_group", "equipment"}
           part == IF ends THEN NoPart ELSE build.state.part
           new == Adds(Occurrence("instruction", i, build.state.instructions, part), i) IN
       /\ occurrences' = occurrences \cup new
       /\ build' = [build EXCEPT
              !.at = NextBlock, !.added = @ \cup new,
              !.state.instruction = TRUE, !.state.instructions = @ + 1, !.state.part = part,
              !.state.partKind = IF ends THEN NoPart ELSE @]
    /\ UNCHANGED <<markup, blocks, recipes, parts, uses>>

PassBlock ==
    /\ ReadingBlock /\ PartKind(build.at) = NoPart
    /\ ~IsIngredient(build.at) /\ ~IsInstruction(build.at)
    /\ build' = [build EXCEPT !.at = NextBlock]
    /\ UNCHANGED <<markup, blocks, recipes, parts, occurrences, uses>>

RecipeRead ==
    /\ build.phase = "read" /\ build.at > Len(blocks)
    /\ build' = [build EXCEPT !.phase = "annotate", !.queue = @ \ {Reading}]
    /\ UNCHANGED <<markup, blocks, recipes, parts, occurrences, uses>>

----------------------------------------------------------------------------
(* authored_uses *)

StartsBy(node) == {v \in Indexes \X recipes : v[1] \in v[2].blocks /\ Start(v[1]) <= node}

\* The recipe that has the block at the node; of several, the last.
TargetOf(node) ==
    LET ranges == StartsBy(node) IN
    IF node = NoNode \/ ranges = {} THEN NoPart
    ELSE LET last == CHOOSE v \in ranges : \A w \in ranges :
                         w[1] < v[1] \/ (w[1] = v[1] /\ w[2].id <= v[2].id)
         IN  IF node <= End(last[1]) THEN last[2].id ELSE NoPart

BlockOf(occurrence) == occurrence.from \div 3

\* Of the links in the occurrences that were added; not those to the recipe itself.
FindUses ==
    /\ build.phase = "annotate" /\ build.queue = {}
    /\ LET linking == {c \in build.added : blocks[BlockOf(c)].link # NoNode} IN
       uses' = uses \cup
           {[recipe |-> c.recipe, link |-> BlockOf(c), part |-> c.part,
             target |-> TargetOf(blocks[BlockOf(c)].link)] :
                c \in {d \in linking : TargetOf(blocks[BlockOf(d)].link) # d.recipe}}
    /\ build' = [NoInterpretation EXCEPT !.runs = build.runs]
    /\ UNCHANGED <<markup, blocks, recipes, parts, occurrences>>

StructureNext ==
    \/ Interpret \/ Propose \/ Proposed \/ TakeRecipe \/ ReadLabel \/ ReadIngredient
    \/ ReadInstruction \/ PassBlock \/ RecipeRead \/ FindUses

StructureSpec == StructureInit /\ [][StructureNext]_structureVars

----------------------------------------------------------------------------
(* Properties *)

Interpreted == build.phase = "none" /\ build.runs > 0

BlocksBefore(r, i) == {j \in r.blocks : j < i}
NoEquipment(r, i) == \A j \in BlocksBefore(r, i) : PartKind(j) # "equipment"
HasIngredient(r, i) ==
    \E j \in BlocksBefore(r, i) : IngredientRole(j) /\ PartKind(j) \in {NoPart, "ingredient_group"}

\* The last part named before the block is of a kind the profile takes instructions from.
InMethod(r, i) == \E j \in BlocksBefore(r, i) :
    /\ PartKind(j) \in markup.kinds \ {"ingredient_group", "equipment"}
    /\ \A k \in BlocksBefore(r, i) : k > j => PartKind(k) = NoPart

InOccurrence(r, kind, i) == \E c \in occurrences :
    c.recipe = r.id /\ c.kind = kind /\ c.from <= End(i) /\ c.to > Start(i)

\* Before any equipment, an ingredient; and an instruction after one where instructions are taken.
Expected(r, kind, i) ==
    /\ PartKind(i) = NoPart /\ NoEquipment(r, i)
    /\ IF kind = "ingredient" THEN IngredientRole(i)
       ELSE /\ InstructionRole(i) /\ (HasIngredient(r, i) \/ markup.prose)
            /\ markup.kinds = {} \/ KindOf(i) = "prefixed" \/ InMethod(r, i)

FoundAt(r, i) == \A kind \in {"ingredient", "instruction"} :
    Expected(r, kind, i) => InOccurrence(r, kind, i)

NoBlockShared == \A r, s \in recipes : r # s => r.blocks \cap s.blocks = {}

FoundApart == \A c, d \in occurrences :
    c # d /\ c.recipe = d.recipe /\ c.kind = d.kind => Apart(c, d)

\* "retains existing recipe IDs and supported records, adds uncovered candidate occurrences"
\* (docs/native-recipe-interpretation.md:16)  However often a book is interpreted, every
\* ingredient line of a recipe that is not equipment, and every instruction that follows an
\* ingredient in a part the profile takes instructions from, is in exactly one occurrence of its
\* kind; proposed recipes share no block.
OccurrencesOnce == Interpreted =>
    /\ (\A s \in Supported : s.recipes # recipes) => NoBlockShared
    /\ FoundApart
    /\ \A r \in recipes : \A i \in r.blocks : FoundAt(r, i)

\* The recipes that have the block at the node.
HaveNode(node) == {r \in recipes : \E i \in r.blocks : Start(i) <= node /\ node <= End(i)}

Resolved(use) ==
    LET there == HaveNode(blocks[use.link].link) IN
    IF use.target = NoPart THEN there = {}
    ELSE use.target # use.recipe /\ \E r \in there : r.id = use.target

\* A use names another recipe that has the block its link leads to, or none when no recipe of
\* the book has it (book_interpret.py:768-805).
UsesResolve == Interpreted => \A use \in uses : Resolved(use)

\* What is found in a book is found once, and leads where its links lead
\* (book_interpret.py:712-808).
InterpretationHolds == OccurrencesOnce /\ UsesResolve
=============================================================================
