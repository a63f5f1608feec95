--------------------------- MODULE BoundaryProposals ---------------------------
(***************************************************************************)
(* Proposals of what belongs together on scanned pages                     *)
(* (transcription_boundaries.py).  Each line is seen through the smallest  *)
(* block that has it.  Page by page, headings open groups, other views     *)
(* join the closest heading above them or are left over; what is left over *)
(* in a lane may continue the recipe of the page before.  Geometry is two  *)
(* lanes of a page and rows.  All pages are of one size.                   *)
(***************************************************************************)
EXTENDS Integers, SequencesExt

CONSTANTS
    Scans   \* [pages, lines, blocks]: physical page numbers; lines [page, row, lanes, text, step];
            \* blocks [page, lines, kind, leaf]

\* A block has lines of its page (validate_snapshot).
ASSUME ScansAssumption == \A s \in Scans :
    /\ s.pages \in Seq(Nat)
    /\ s.lines \in Seq([page : 1..Len(s.pages), row : Nat, lanes : SUBSET {1, 2}, text : STRING, step : Nat])
    /\ s.blocks \in Seq([page : 1..Len(s.pages), lines : SUBSET DOMAIN s.lines, kind : STRING, leaf : BOOLEAN])
    /\ \A b \in DOMAIN s.blocks : \A l \in s.blocks[b].lines : s.lines[l].page = s.blocks[b].page

VARIABLES
    scanned,       \* the snapshot
    views,         \* the lines that are seen together
    turn,          \* the page, and its views to come
    groups,        \* what belongs together so far
    orphans,       \* what the page has left over, by lane
    continuations, \* of a recipe: group, from page, to page, lines
    proposal       \* what validation said of it all

boundaryVars == <<scanned, views, turn, groups, orphans, continuations, proposal>>

TextLine(l) == scanned.lines[l]
TextLines == DOMAIN scanned.lines

----------------------------------------------------------------------------
(* _views *)

BlocksHolding(l) == {b \in DOMAIN scanned.blocks : l \in scanned.blocks[b].lines}
Leaves(l) == LET leaves == {b \in BlocksHolding(l) : scanned.blocks[b].leaf}
             IN  IF leaves = {} THEN BlocksHolding(l) ELSE leaves
Smallest(l) ==
    {b \in Leaves(l) : \A c \in Leaves(l) :
        Cardinality(scanned.blocks[b].lines) <= Cardinality(scanned.blocks[c].lines)}

\* The lines that are seen through a block: those for which it is the only smallest one.
SeenThrough(b) == {l \in scanned.blocks[b].lines : Smallest(l) = {b}}

Isolated == {"picture", "caption"}

\* The numbers of the lines that are steps.
StepsOf(ls) ==
    FlattenSeq([l \in TextLines |-> IF l \in ls /\ TextLine(l).step > 0 THEN <<TextLine(l).step>> ELSE <<>>])

\* Several lines read like no heading that is looked for.
WordsOf(ls) == IF \E l \in ls : ls = {l} THEN TextLine(CHOOSE l \in ls : TRUE).text ELSE "lines"

View(b) ==
    LET ls == SeenThrough(b) IN
    [lines |-> ls, kind |-> scanned.blocks[b].kind, page |-> scanned.blocks[b].page,
     lanes |-> UNION {TextLine(l).lanes : l \in ls},
     top |-> Min({TextLine(l).row : l \in ls}), bottom |-> Max({TextLine(l).row : l \in ls}) + 1,
     text |-> WordsOf(ls), steps |-> StepsOf(ls),
     quantities |-> {l \in ls : TextLine(l).text = "quantity"}]

Views == {View(b) : b \in {c \in DOMAIN scanned.blocks :
                               SeenThrough(c) # {} /\ scanned.blocks[c].kind \notin Isolated}}

\* Lines with equal claims and isolated ones are nobody's.
Unowned == TextLines \ UNION {v.lines : v \in views}

LeftEdge(lanes) == Min(lanes)

ViewsOf(page) == {v \in views : v.page = page}

\* From top to bottom, and from left to right.
Before(v, w) ==
    \/ v.top < w.top
    \/ v.top = w.top /\ LeftEdge(v.lanes) < LeftEdge(w.lanes)
    \/ v.top = w.top /\ LeftEdge(v.lanes) = LeftEdge(w.lanes) /\ Min(v.lines) < Min(w.lines)

\* The steps of views one after another.
StepsIn(vs) == FlattenSeq([i \in DOMAIN vs |-> vs[i].steps])

----------------------------------------------------------------------------
(* Lanes and kinds *)

SameLane(a, b) == a = b \/ LeftEdge(a) = LeftEdge(b)
UnderHeading(a, b) == a = {1, 2} \/ SameLane(a, b)

Headings == {"heading"}
IsPart(view) == view.text = "part"

LinesIn(group) == UNION {group.views[i].lines : i \in DOMAIN group.views}
QuantitiesIn(group) == UNION {group.views[i].quantities : i \in DOMAIN group.views}

\* _classify
KindOfGroup(group) ==
    LET kinds == {group.views[i].kind : i \in DOMAIN group.views}
        steps == StepsIn(group.views) IN
    IF "reference" \in kinds THEN "reference_entry"
    ELSE IF "passage" \in kinds \/ \E i \in DOMAIN group.views :
                group.views[i].kind \in Headings /\ group.views[i].text = "menu" THEN "passage"
    ELSE IF group.headed /\ steps # <<>> /\ steps[1] = 1 /\ Cardinality(QuantitiesIn(group)) >= 2 THEN "recipe"
    ELSE "unclassified"

GroupOf(view, headed) ==
    [views |-> <<view>>, headed |-> headed, lanes |-> view.lanes, top |-> view.top,
     bottom |-> view.bottom, page |-> view.page]

\* A group with one more view, which does not move its box.
With(group, view) == [group EXCEPT !.views = Append(@, view)]

BoundaryInit ==
    /\ scanned \in Scans /\ views = Views
    /\ turn = [page |-> 0, views |-> {}, headed |-> <<>>]
    /\ groups = <<>> /\ orphans = <<>> /\ continuations = {} /\ proposal = "none"

----------------------------------------------------------------------------
(* propose_boundaries *)

\* The view that comes next, in the order of reading.
Sees(view) == view \in turn.views /\ \A v \in turn.views : ~Before(v, view)
Onward(view) == [turn EXCEPT !.views = @ \ {view}]

IsHeading(view) == view.kind \in Headings /\ ~IsPart(view)
OpensGroup(view) == IsHeading(view) \/ view.kind \in {"passage", "reference"}

\* The heading before, if this one goes on with it: below it, no further than its own height.
GoesOn(view) ==
    {g \in (IF turn.headed = <<>> THEN {} ELSE {Last(turn.headed)}) :
        /\ IsHeading(view)
        /\ \A i \in DOMAIN groups[g].views : groups[g].views[i].kind \in Headings
        /\ SameLane(groups[g].lanes, view.lanes)
        /\ 0 <= view.top - groups[g].bottom
        /\ 2 * (view.top - groups[g].bottom) <= 3 * (view.bottom - view.top)}

OpenGroup(view) ==
    /\ Sees(view) /\ OpensGroup(view) /\ GoesOn(view) = {}
    /\ groups' = Append(groups, GroupOf(view, IsHeading(view)))
    /\ turn' = [Onward(view) EXCEPT !.headed = Append(@, Len(groups) + 1)]
    /\ UNCHANGED <<scanned, views, orphans, continuations, proposal>>

GoOn(view) ==
    /\ Sees(view) /\ OpensGroup(view)
    /\ \E g \in GoesOn(view) :
          groups' = [groups EXCEPT ![g] = [With(@, view) EXCEPT !.lanes = view.lanes, !.bottom = view.bottom]]
    /\ turn' = Onward(view)
    /\ UNCHANGED <<scanned, views, orphans, continuations, proposal>>

\* The headings of the page that are above the view and reach its lane; the closest of them.
Above(view) ==
    {g \in ToSet(turn.headed) : groups[g].top <= view.top /\ UnderHeading(groups[g].lanes, view.lanes)}
Closest(view) == {g \in Above(view) : \A h \in Above(view) : groups[h].top <= groups[g].top}

Gather(view) ==
    /\ Sees(view) /\ ~OpensGroup(view)
    /\ \E g \in Closest(view) : Closest(view) = {g} /\ groups' = [groups EXCEPT ![g] = With(@, view)]
    /\ turn' = Onward(view)
    /\ UNCHANGED <<scanned, views, orphans, continuations, proposal>>

Compatible(view) == {o \in DOMAIN orphans : SameLane(orphans[o].lanes, view.lanes)}

LeaveOver(view) ==
    /\ Sees(view) /\ ~OpensGroup(view) /\ Cardinality(Closest(view)) # 1
    /\ orphans' = IF Cardinality(Compatible(view)) = 1
                  THEN [o \in DOMAIN orphans |->
                           IF o \in Compatible(view) THEN With(orphans[o], view) ELSE orphans[o]]
                  ELSE Append(orphans, GroupOf(view, FALSE))
    /\ turn' = Onward(view)
    /\ UNCHANGED <<scanned, views, groups, continuations, proposal>>

Physical(page) == scanned.pages[page]

\* mutant: the page before in the snapshot, whatever its number
FollowsInSnapshot(page, before) == page = before + 1

Follows(page, before) == Physical(page) = Physical(before) + 1

Ascending(ns) == \A i, j \in DOMAIN ns : i < j => ns[i] < ns[j]

\* Views that only go on with numbered steps.
OnlySteps(orphan) ==
    /\ \A i \in DOMAIN orphan.views : orphan.views[i].steps # <<>>
    /\ Ascending(StepsIn(orphan.views))

LastSteps(group) == Last(SelectSeq(group.views, LAMBDA v : v.steps # <<>>))

\* The step that comes after those of the views.
StepAfter(vs) == Last(StepsIn(vs)) + 1

\* The recipes of the page before whose next step it is, in the lane of their last one.
Owners(orphan) ==
    {g \in DOMAIN groups :
        /\ OnlySteps(orphan) /\ KindOfGroup(groups[g]) = "recipe"
        /\ Follows(orphan.page, groups[g].page)
        /\ StepsIn(orphan.views)[1] = StepAfter(groups[g].views)
        /\ SameLane(LastSteps(groups[g]).lanes, orphan.lanes)}

LeftOver == turn.views = {} /\ orphans # <<>>

Continue ==
    /\ LeftOver /\ Cardinality(Owners(Head(orphans))) = 1
    /\ LET o == Head(orphans)
           g == CHOOSE h \in Owners(o) : TRUE IN
       /\ continuations' = continuations \cup
              {[group |-> g, from |-> groups[g].page, to |-> o.page, lines |-> LinesIn(o)]}
       /\ groups' = [groups EXCEPT ![g] = [@ EXCEPT !.views = groups[g].views \o o.views, !.page = o.page,
                                                    !.lanes = o.lanes, !.top = o.top, !.bottom = o.bottom]]
    /\ orphans' = Tail(orphans)
    /\ UNCHANGED <<scanned, views, turn, proposal>>

KeepOrphan ==
    /\ LeftOver /\ Cardinality(Owners(Head(orphans))) # 1
    /\ groups' = Append(groups, Head(orphans))
    /\ orphans' = Tail(orphans)
    /\ UNCHANGED <<scanned, views, turn, continuations, proposal>>

TurnPage ==
    /\ turn.views = {} /\ orphans = <<>> /\ turn.page < Len(scanned.pages)
    /\ turn' = [page |-> turn.page + 1, views |-> ViewsOf(turn.page + 1), headed |-> <<>>]
    /\ UNCHANGED <<scanned, views, groups, orphans, continuations, proposal>>

\* Each unowned line is a selection of its own.
ProposedSelections ==
    {[kind |-> KindOfGroup(groups[g]), group |-> g, lines |-> LinesIn(groups[g])] : g \in DOMAIN groups}
    \cup {[kind |-> "unclassified", group |-> 0, lines |-> {l}] : l \in Unowned}

ValidLink(link) ==
    /\ KindOfGroup(groups[link.group]) = "recipe"
    /\ Physical(link.to) = Physical(link.from) + 1
    /\ link.lines \subseteq LinesIn(groups[link.group])
    /\ \A l \in link.lines : TextLine(l).page = link.to
    /\ \E l \in LinesIn(groups[link.group]) : TextLine(l).page = link.from

\* validate_boundaries: every line has one owner, and the links hold.
ValidBoundaries ==
    /\ \A s \in ProposedSelections : s.lines # {}
    /\ \A l \in TextLines : Cardinality({s \in ProposedSelections : l \in s.lines}) = 1
    /\ \A link \in continuations : ValidLink(link)

ValidateProposal ==
    /\ proposal = "none" /\ turn.page = Len(scanned.pages) /\ turn.views = {} /\ orphans = <<>>
    /\ proposal' = IF ValidBoundaries THEN "proposed" ELSE "refused"
    /\ UNCHANGED <<scanned, views, turn, groups, orphans, continuations>>

BoundaryNext ==
    \/ \E view \in turn.views : OpenGroup(view) \/ GoOn(view) \/ Gather(view) \/ LeaveOver(view)
    \/ Continue \/ KeepOrphan \/ TurnPage \/ ValidateProposal

BoundarySpec == BoundaryInit /\ [][BoundaryNext]_boundaryVars

----------------------------------------------------------------------------
(* Properties *)

\* Where views go over to another page, it is the next one, and they go on, as far as they stay on
\* it, with the step that comes next.
StepsCountOn(vs) ==
    \A i, j \in DOMAIN vs :
        i < j /\ vs[i].page # vs[i + 1].page /\ (\A k \in (i + 1)..j : vs[k].page = vs[i + 1].page) =>
            LET on == StepsIn(SubSeq(vs, i + 1, j)) IN
            /\ Physical(vs[i + 1].page) = Physical(vs[i].page) + 1
            /\ on # <<>> /\ on[1] = StepAfter(SubSeq(vs, 1, i)) /\ Ascending(on)

\* "every recognized line has one owner.  ... Only an exact next step can continue a recipe on the
\* immediately following physical page in a compatible layout lane."
\* (transcription_boundaries.py:161-166)  However blocks overlap and columns, titles and pages
\* follow each other, what is proposed passes its own validation (line 344), and across a page the
\* steps of a recipe count on.
ProposalsHold ==
    /\ proposal # "refused"
    /\ \A g \in DOMAIN groups : StepsCountOn(groups[g].views)
=============================================================================
