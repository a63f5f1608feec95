---------------------------- MODULE RevisionChain ----------------------------
(***************************************************************************)
(* The chain of corrections over the evidence of a scan                    *)
(* (transcription_review.py, before ReviewStore): reviewers prepare        *)
(* changes of lines, table quantities and memberships against what they    *)
(* read, make a revision of them, and save a candidate with it.  A text is *)
(* a sequence of tokens.  The snapshot, the selections and with them the   *)
(* evidence of a change are fixed; every cell has a line.                  *)
(***************************************************************************)
EXTENDS Naturals, Sequences, FiniteSets, SequencesExt

CONSTANTS
    Sheets,      \* [lines, cells, selections]: the tokens of each line; the lines of each cell;
                 \* a sequence of selections [id, lines, settled]
    Proposals,   \* what a reviewer may want: sets of [on, span, of, cell, value, state, rivals]
    Reviewers,
    ChainBound,  \* bound: revisions in the chain
    Whole,       \* the span of a change that replaces the reading
    Null

ASSUME ChainAssumption == \A s \in Sheets : s.selections \in Seq(Range(s.selections))

VARIABLES
    sheet,    \* what was recognized and selected
    chain,    \* the revisions of the candidate saved last: [after, changes]
    revising  \* each reviewer's changes, the chain they follow, and what they are to make

revisionVars == <<sheet, chain, revising>>

NotRevising == [stage |-> "none", changes |-> {}, after |-> <<>>, meant |-> <<>>]

RevisionInit ==
    /\ sheet \in Sheets /\ chain = <<>>
    /\ revising = [v \in Reviewers |-> NotRevising]

----------------------------------------------------------------------------
(* _context, _initial *)

LineIds == DOMAIN sheet.lines
CellIds == DOMAIN sheet.cells
SelectionIds == {sheet.selections[i].id : i \in DOMAIN sheet.selections}

Targets == ({"line"} \X LineIds) \cup ({"quantity"} \X CellIds) \cup ({"member"} \X LineIds)

Selecting(l) ==
    FoldLeft(LAMBDA chosen, s : IF l \in s.lines THEN Append(chosen, s) ELSE chosen, <<>>,
             sheet.selections)
SelectedIn(l) == [i \in DOMAIN Selecting(l) |-> Selecting(l)[i].id]

\* The texts of a cell's lines, joined.
Joined(cell, textOf) == FlattenSeq([i \in DOMAIN sheet.cells[cell] |->
    (IF i = 1 THEN <<>> ELSE <<"/">>) \o textOf[sheet.cells[cell][i]]])

ReadAs(value, state) == [value |-> value, state |-> state]

Original == [t \in Targets |->
    CASE t[1] = "line" -> ReadAs(sheet.lines[t[2]], "original")
      [] t[1] = "quantity" -> ReadAs(Joined(t[2], sheet.lines), "unparsed")
      [] OTHER ->
         IF SelectedIn(t[2]) = <<>> \/ \E s \in Range(Selecting(t[2])) : ~s.settled
         THEN ReadAs(Null, "unresolved") ELSE ReadAs(SelectedIn(t[2]), "candidate")]

----------------------------------------------------------------------------
(* _validate_change, _replay *)

\* The change of an occurrence replaces its span of the line, unless it is left unresolved.
Spliced(now, c) ==
    IF c.span = Whole \/ c.value = Null THEN c.value
    ELSE SubSeq(now, 1, c.span.from - 1) \o c.value \o SubSeq(now, c.span.to + 1, Len(now))

Amended(now, c) == ReadAs(Spliced(now.value, c), c.state)

StateFits(c) ==
    /\ c.state = "unresolved" <=> c.value = Null
    /\ c.value # <<>>
    /\ c.on[1] = "member" /\ c.value # Null => \E s \in SelectionIds : c.value = <<s>>

\* A reading that was selected is the value; no review leaves competing readings open.
RivalsFit(c) ==
    /\ c.rivals = "selected" => c.on[1] # "member" /\ c.value # Null
    /\ c.state = "source_reviewed" => c.rivals # "open"

OccurrenceFits(now, c) ==
    /\ c.on[1] = "line" /\ now.value # Null
    /\ c.span.from <= c.span.to /\ c.span.to <= Len(now.value)
    /\ SubSeq(now.value, c.span.from, c.span.to) = c.span.before
    /\ c.of \in Range(SelectedIn(c.on[2]))
    /\ c.cell = Null \/ c.on[2] \in Range(sheet.cells[c.cell])

\* mutant: a change is made to whatever is read by now
ValidForAny(now, c) ==
    /\ StateFits(c) /\ RivalsFit(c)
    /\ c.span # Whole => OccurrenceFits(now, c)

ValidChange(now, c) ==
    /\ StateFits(c) /\ RivalsFit(c)
    /\ c.before = now
    /\ c.span # Whole => OccurrenceFits(now, c)

\* A revision has one change of a target, so each meets the reading before the revision.
ValidRevision(readings, changes) ==
    /\ \A c, d \in changes : c.on = d.on => c = d
    /\ \A c \in changes : ValidChange(readings[c.on], c)

Revised(readings, revision) == [t \in Targets |->
    IF \E c \in revision.changes : c.on = t
    THEN Amended(readings[t], CHOOSE c \in revision.changes : c.on = t) ELSE readings[t]]

\* reviewed_view: what the lines, quantities and memberships read.
ReviewedView(revisions) == FoldLeft(Revised, Original, revisions)

Replays(revisions) == \A i \in DOMAIN revisions :
    LET earlier == SubSeq(revisions, 1, i - 1) IN
    /\ revisions[i].after = earlier
    /\ ValidRevision(ReviewedView(earlier), revisions[i].changes)

----------------------------------------------------------------------------
(* The reviewers *)

Keep(v, job) == revising' = [revising EXCEPT ![v] = job]

\* The tokens a proposal is about are there.
InSight(view, p) ==
    p.span # Whole /\ view[p.on].value # Null => p.span[2] <= Len(view[p.on].value)

\* A reviewer looks at the view and names what is read there (target_digest).
Prepared(view, p) ==
    [on |-> p.on, before |-> view[p.on], value |-> p.value, state |-> p.state, rivals |-> p.rivals,
     of |-> p.of, cell |-> p.cell,
     span |-> IF p.span = Whole \/ view[p.on].value = Null THEN Whole
              ELSE [from |-> p.span[1], to |-> p.span[2],
                    before |-> SubSeq(view[p.on].value, p.span[1], p.span[2])]]

Prepare(v) ==
    /\ revising[v].stage = "none" /\ Len(chain) < ChainBound
    /\ LET view == ReviewedView(chain) IN
       \E wanted \in Proposals :
          /\ \A p \in wanted : p.on \in Targets /\ InSight(view, p)
          /\ LET changes == {Prepared(view, p) : p \in wanted} IN
             Keep(v, [stage |-> "prepared", changes |-> changes, after |-> <<>>,
                      meant |-> Revised(view, [after |-> chain, changes |-> changes])])
    /\ UNCHANGED <<sheet, chain>>

\* make_revision, over the chain as it is by now.
MakeRevision(v) ==
    /\ revising[v].stage = "prepared"
    /\ IF ValidRevision(ReviewedView(chain), revising[v].changes)
       THEN Keep(v, [revising[v] EXCEPT !.stage = "made", !.after = chain])
       ELSE Keep(v, NotRevising)
    /\ UNCHANGED <<sheet, chain>>

\* A candidate is saved, if it replays: the revision after those it follows, or after the last
\* candidate's, whatever they are by now.
SaveRevision(v) ==
    /\ revising[v].stage = "made"
    /\ \E earlier \in {chain, revising[v].after} :
          LET longer == Append(earlier, [after |-> revising[v].after, changes |-> revising[v].changes])
          IN  chain' = IF Replays(longer) THEN longer ELSE chain
    /\ Keep(v, NotRevising) /\ UNCHANGED sheet

RevisionNext == \E v \in Reviewers : Prepare(v) \/ MakeRevision(v) \/ SaveRevision(v)

RevisionSpec == RevisionInit /\ [][RevisionNext]_revisionVars

----------------------------------------------------------------------------
(* What is made of the view *)

EffectiveText(l) ==
    LET r == ReviewedView(chain)[<<"line", l>>] IN IF r.value = Null THEN <<>> ELSE r.value

\* _effective_selections: reviewed membership moves a line.
Moved(l) == ReviewedView(chain)[<<"member", l>>].state = "source_reviewed"
EffectiveLines(s) ==
    {l \in LineIds : IF Moved(l) THEN ReviewedView(chain)[<<"member", l>>].value = <<s>>
                     ELSE s \in Range(SelectedIn(l))}

\* review_queue: what is to be inspected, apart from headers and amounts that look doubtful.
Queue ==
    {<<"quantity", c>> : c \in {d \in CellIds :
        ReviewedView(chain)[<<"quantity", d>>].state \in {"unresolved", "unparsed", "proposed"}}}
    \cup {<<"member", l>> : l \in {k \in LineIds :
        LET r == ReviewedView(chain)[<<"member", k>>] IN
        r.state = "unresolved" \/ (r.value # Null /\ Len(r.value) # 1)}}
    \cup {<<"line", l>> : l \in {k \in LineIds : ReviewedView(chain)[<<"line", k>>].state = "unresolved"}}

\* _consistency_reasons, _check_clearance
Disagreeing ==
    {c \in CellIds : LET r == ReviewedView(chain)[<<"quantity", c>>] IN
        r.state = "source_reviewed" /\ r.value # Joined(c, [l \in LineIds |-> EffectiveText(l)])}
Cleared ==
    /\ Disagreeing = {}
    /\ \A l \in LineIds : ReviewedView(chain)[<<"line", l>>].state \notin {"proposed", "unresolved"}
    /\ \A c \in CellIds :
          ReviewedView(chain)[<<"quantity", c>>].state \notin {"unparsed", "proposed", "unresolved"}

----------------------------------------------------------------------------
(* Properties *)

\* "Missing, stale, ambiguous or unmatched targets raise an explicit validation error and are never
\* relocated or applied" (docs/scanned-transcription-review.md:44).  Whatever reviewers do
\* meanwhile, a saved revision makes of its targets what its reviewer meant on what he read,
\* occurrence by occurrence, and leaves every other reading of the chain it follows as it is.
CorrectionsLand == [][\A v \in Reviewers :
    chain' # chain /\ revising[v].stage = "made" /\ revising'[v].stage = "none" =>
        \A t \in Targets : ReviewedView(chain')[t] =
            IF \E c \in revising[v].changes : c.on = t
            THEN revising[v].meant[t] ELSE ReviewedView(Front(chain'))[t]]_revisionVars

\* However lines are moved and moved back, each that somebody selected stays in a selection, and
\* one whose membership was reviewed is in one; and with nothing left in the queue, only
\* proposed text or a quantity that no longer reads as its lines holds clearance up.
NothingLost ==
    /\ \A l \in LineIds :
          LET holders == {s \in SelectionIds : l \in EffectiveLines(s)} IN
          /\ SelectedIn(l) # <<>> => holders # {}
          /\ Moved(l) => Cardinality(holders) = 1
    /\ Queue = {} /\ ~Cleared =>
          Disagreeing # {} \/ \E l \in LineIds : ReviewedView(chain)[<<"line", l>>].state = "proposed"

\* Corrections are what was meant, and lose nothing (transcription_review.py:148-463).
RevisionsHold == CorrectionsLand /\ []NothingLost
=============================================================================
