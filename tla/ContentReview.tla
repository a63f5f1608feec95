---------------------------- MODULE ContentReview ----------------------------
(***************************************************************************)
(* ReviewStore of transcription_review.py, with the decision algebra of    *)
(* withdrawal.py: the append-only file of candidates and decisions that    *)
(* says which content is approved.                                         *)
(*                                                                         *)
(* Every operation runs under the file's lock, so an operation is a step.  *)
(* A candidate's or a decision's digest is its position: both lists only   *)
(* grow, and each decision names its predecessor.  A line's text, geometry *)
(* and evidence are one reading; a scope has the portion another scope may *)
(* require, and the rest.                                                  *)
(***************************************************************************)
EXTENDS Naturals, Sequences, FiniteSets

CONSTANTS
    Scopes,         \* the selections of the book
    Drafts,         \* the candidates a reviewer may save
    Unsettled,      \* the text of a line that is proposed or unresolved
    People,         \* human reviewers, each with a configuration and a policy
    None,
    MaxCandidates,  \* bound: candidates saved
    MaxRecords      \* bound: candidates and decisions in the file

VARIABLES candidates, decisions

vars == <<candidates, decisions>>

Kinds   == {"whole", "portion"}

\* A book has finitely many selections, and each requires whole others or portions of them.
ASSUME ReviewAssumption ==
    /\ IsFiniteSet(Scopes) /\ Scopes # {}
    /\ \A d \in Drafts, s \in Scopes : d.support[s] \subseteq Scopes \X Kinds
    /\ MaxCandidates \in Nat /\ MaxRecords \in Nat

Actions == {"apply_draft", "approve", "review_portion", "validate_workflow", "undo", "revoke",
            "confirm_error", "clear_flag", "metadata_amendment"}

\* A decision's dependency bindings: which decision vouches for which required content.
Bindings(n) == SUBSET (Scopes \X Kinds \X (1..n))

Event(n) == [action : Actions, scope : Scopes, candidate : 1..Len(candidates), actor : People \cup {None},
             related : 0..n, validation : 0..n, deps : Bindings(n), affected : SUBSET (1..n),
             checks : BOOLEAN \X BOOLEAN]

ReviewTypeOK ==
    /\ candidates \in Seq(Drafts) /\ Len(candidates) <= MaxCandidates
    /\ Len(candidates) + Len(decisions) <= MaxRecords
    /\ \A i \in 1..Len(decisions) : decisions[i] \in Event(i - 1)

Init == candidates = <<>> /\ decisions = <<>>

----------------------------------------------------------------------------
(* Bindings *)

Greatest(S) == CHOOSE x \in S : \A y \in S : y <= x

\* _scope_binding of a whole scope, or of the portion another one requires: the extraction
\* run is part of it, and a scope's own requirements are part of the whole.
Binding(c, s, kind) ==
    LET d == candidates[c]
    IN  IF kind = "whole" THEN <<d.run, d.text[s], d.support[s]>> ELSE <<d.run, d.text[s].portion>>

\* The interpretation of a scope, whatever extraction it came from.
Interpretation(c, s) == <<candidates[c].text[s], candidates[c].support[s]>>

Settled(c, s, kind) ==
    LET t == candidates[c].text[s]
    IN  t.portion # Unsettled /\ (kind = "whole" => t.rest # Unsettled)

\* _continuous_binding: no candidate in between read the scope differently.
Continuous(from, c, s, kind) ==
    /\ from <= c
    /\ \A j \in from..c : Binding(j, s, kind) = Binding(c, s, kind)

----------------------------------------------------------------------------
(* Revocation, over a log of decisions *)

\* mutant: one round of dependents
DependentsOnce(log, affected) ==
    affected \cup {i \in 1..Len(log) : \E b \in log[i].deps : b[3] \in affected}

\* dependent_decisions: with everything that rests on them.
Dependents(log, affected) ==
    LET rests[i \in 1..Len(log)] ==
            i \in affected \/ \E b \in log[i].deps : rests[b[3]]
    IN  {i \in 1..Len(log) : rests[i]}

Reviews(log, s) ==
    {i \in 1..Len(log) : log[i].action \in {"approve", "review_portion"} /\ log[i].scope = s}

\* revoked_approvals: of the scope, or the one decision named, or those it validated.
RevokedApprovals(log, s, related) ==
    Dependents(log,
        IF related = 0 THEN Reviews(log, s)
        ELSE {i \in UNION {Reviews(log, t) : t \in Scopes} :
                \/ i = related /\ log[i].scope = s
                \/ log[i].validation = related})

\* affected_decisions: the reviews of this interpretation, and their dependents.
AffectedDecisions(log, c, s) ==
    Dependents(log, {i \in Reviews(log, s) :
                        Interpretation(log[i].candidate, s) = Interpretation(c, s)})

\* _revoked_decisions
Revoked(log) ==
    UNION {log[i].affected \cup
           (IF log[i].action # "revoke" THEN {}
            ELSE IF log[i].related # 0 THEN {log[i].related}
            ELSE {j \in 1..(i - 1) : log[j].scope = log[i].scope}) : i \in 1..Len(log)}

----------------------------------------------------------------------------
(* Eligibility *)

\* The reviews of a kind that still describe the candidate.
Matching(log, c, s, kind) ==
    {i \in Reviews(log, s) :
        /\ log[i].action = IF kind = "whole" THEN "approve" ELSE "review_portion"
        /\ Continuous(log[i].candidate, c, s, kind)
        /\ kind = "portion" => i \notin Revoked(log)}

\* mutant: that something vouches for each requirement is enough
SameSupportAny(deps, needs) == \A b \in needs : b[3] # 0

\* The bindings a decision recorded are those of today.
SameSupport(deps, needs) == needs = deps

\* _eligibility and _support_decision: the decision that vouches for a scope, or for the
\* portion required of it, or 0.  It counts while it is the latest, is not revoked, and
\* rests on the very decisions that vouch for its requirements today.
Standing(log, c) ==
    LET vouches[v \in Kinds \X Scopes \X SUBSET Scopes] ==  \* v: kind, scope, scopes visited
            LET found == Matching(log, c, v[2], v[1])
                last  == Greatest(found)
                needs == {<<u[1], u[2], vouches[<<u[2], u[1], v[3] \cup {v[2]}>>]>> :
                            u \in candidates[c].support[v[2]]}
            IN  IF /\ v[2] \notin v[3] /\ found # {}
                   /\ last \notin Revoked(log)
                   /\ SameSupport(log[last].deps, needs)
                THEN last ELSE 0
    IN  vouches

Eligible(log, c, s) == Standing(log, c)[<<"whole", s, {}>>]

\* _support_bindings
SupportBindings(log, c, s) ==
    {<<u[1], u[2], Standing(log, c)[<<u[2], u[1], {s}>>]>> : u \in candidates[c].support[s]}

Supported(log, c, s) == \A b \in SupportBindings(log, c, s) : b[3] # 0

\* _workflow_validation: the first reviewer needs none, any other one a validation that
\* is not revoked.
First(log) ==
    LET reviews == UNION {Reviews(log, s) : s \in Scopes}
    IN  {log[i].actor : i \in {j \in reviews : \A k \in reviews : j <= k}}

Validations(log, p) ==
    {i \in 1..Len(log) : log[i].action = "validate_workflow" /\ log[i].actor = p} \ Revoked(log)

Authorized(log, p) == First(log) \subseteq {p} \/ Validations(log, p) # {}

Validation(log, p) == IF First(log) \subseteq {p} THEN 0 ELSE Greatest(Validations(log, p))

\* An edited candidate is approved after its draft has been applied.
Applied(log, c, s) ==
    candidates[c].edited =>
        \E i \in 1..Len(log) : log[i].action = "apply_draft" /\ log[i].candidate = c /\ log[i].scope = s

\* _require_undo: an interpretation that was left and has come back is undone first.
Undone(log, c, s) ==
    LET same == {i \in 1..Len(log) : log[i].action \in {"approve", "undo"} /\ log[i].scope = s
                                     /\ Binding(log[i].candidate, s, "whole") = Binding(c, s, "whole")}
    IN  same # {} => \E i \in same : Continuous(log[i].candidate, c, s, "whole")

\* _check_undo's target, and what it records of it.
UndoTarget(log, c, s, related) ==
    /\ related \in 1..Len(log)
    /\ log[related].scope = s /\ log[related].action \in {"approve", "apply_draft", "undo"}
    /\ Binding(log[related].candidate, s, "whole") = Binding(c, s, "whole")
    /\ Settled(c, s, "whole")

\* mutant: eligibility as of the latest candidate
UndoChecksLatest(log, c, s, related) ==
    <<related \in Revoked(log), Eligible(log, Len(candidates), s) # 0>>

UndoChecks(log, c, s, related) == <<related \in Revoked(log), Eligible(log, c, s) # 0>>

\* _check_clearance: of the whole candidate.
Clear(c) == \A s \in Scopes : Settled(c, s, "whole")

----------------------------------------------------------------------------
(* Operations *)

SaveCandidate(d) ==
    /\ Len(candidates) < MaxCandidates /\ Len(candidates) + Len(decisions) < MaxRecords
    /\ candidates' = Append(candidates, d)
    /\ UNCHANGED decisions

Decision(action, c, s, p) ==
    [action |-> action, scope |-> s, candidate |-> c, actor |-> p, related |-> 0,
     validation |-> 0, deps |-> {}, affected |-> {}, checks |-> <<FALSE, FALSE>>]

\* decide: the new decision is appended.
Record(event) ==
    /\ Len(candidates) + Len(decisions) < MaxRecords
    /\ decisions' = Append(decisions, event)
    /\ UNCHANGED candidates

\* What a review rests on: who may review, and what vouches for the required content.
Review(action, c, s, p) ==
    [Decision(action, c, s, p) EXCEPT !.validation = Validation(decisions, p),
                                      !.deps = SupportBindings(decisions, c, s)]

Reviewable(c, s, p) == Authorized(decisions, p) /\ Supported(decisions, c, s)

Approve(c, s, p) ==
    /\ Reviewable(c, s, p)
    /\ Undone(decisions, c, s)
    /\ Applied(decisions, c, s)
    /\ Settled(c, s, "whole")
    /\ Record(Review("approve", c, s, p))

ReviewPortion(c, s, p) ==
    /\ Reviewable(c, s, p)
    /\ Applied(decisions, c, s)
    /\ Settled(c, s, "portion")
    /\ Record(Review("review_portion", c, s, p))

Undo(c, s, p) == \E i \in 1..Len(decisions) :
    /\ UndoTarget(decisions, c, s, i)
    /\ Reviewable(c, s, p)
    /\ Record([Review("undo", c, s, p) EXCEPT
                 !.related = i, !.checks = UndoChecks(decisions, c, s, i)])

\* Who takes a decision matters where it is a review or validates a reviewer.
ValidateWorkflow(c, s, p) == Record(Decision("validate_workflow", c, s, p))

ApplyDraft(c, s) == Record(Decision("apply_draft", c, s, None))

\* Flags are cleared of a candidate without unresolved text; metadata may always be amended; which
\* scope such a remark names changes nothing.
Remark(c) == \E action \in {"clear_flag", "metadata_amendment"} :
    /\ action = "clear_flag" => Clear(c)
    /\ Record(Decision(action, c, CHOOSE s \in Scopes : TRUE, None))

\* The whole scope, or one decision of the scope that is named.
Revoke(c, s) ==
    \E i \in {0} \cup {j \in 1..Len(decisions) : decisions[j].scope = s} :
        Record([Decision("revoke", c, s, None) EXCEPT
                  !.related = i, !.affected = RevokedApprovals(decisions, s, i)])

ConfirmError(c, s) ==
    /\ AffectedDecisions(decisions, c, s) # {}
    /\ Record([Decision("confirm_error", c, s, None) EXCEPT
                 !.affected = AffectedDecisions(decisions, c, s)])

Decide(c, s) ==
    \/ \E p \in People : \/ Approve(c, s, p) \/ ReviewPortion(c, s, p) \/ Undo(c, s, p)
                        \/ ValidateWorkflow(c, s, p)
    \/ ApplyDraft(c, s) \/ Revoke(c, s) \/ ConfirmError(c, s)

Next ==
    \/ \E d \in Drafts : SaveCandidate(d)
    \/ \E c \in 1..Len(candidates) : Remark(c) \/ \E s \in Scopes : Decide(c, s)

Spec == Init /\ [][Next]_vars

----------------------------------------------------------------------------
(* _load: every decision is checked again against its candidate and its predecessors *)

Replayed(log, e) ==
    /\ e.action = "clear_flag" => Clear(e.candidate)
    /\ e.action \in {"approve", "review_portion"} =>
         /\ Applied(log, e.candidate, e.scope)
         /\ Settled(e.candidate, e.scope, IF e.action = "approve" THEN "whole" ELSE "portion")
    /\ e.action \in {"approve", "review_portion", "undo"} =>
         /\ Supported(log, e.candidate, e.scope)
         /\ e.deps = SupportBindings(log, e.candidate, e.scope)
         /\ Authorized(log, e.actor) /\ e.validation = Validation(log, e.actor)
    /\ e.action = "approve" => Undone(log, e.candidate, e.scope)
    /\ e.action = "undo" =>
         /\ UndoTarget(log, e.candidate, e.scope, e.related)
         /\ e.checks = UndoChecks(log, e.candidate, e.scope, e.related)
    /\ e.action = "revoke" => e.affected = RevokedApprovals(log, e.scope, e.related)
    /\ e.action = "confirm_error" => e.affected = AffectedDecisions(log, e.candidate, e.scope)

----------------------------------------------------------------------------
(* Properties *)

Latest == Len(candidates)

\* Whatever is recorded later, and whichever candidates are saved, the file can be loaded
\* again: each decision replays against the decisions before it (decide, _load).
Loadable == \A i \in 1..Len(decisions) : Replayed(SubSeq(decisions, 1, i - 1), decisions[i])

\* Everything a decision rests on, itself included.
Grounds(i) == {j \in 1..Len(decisions) : i \in Dependents(decisions, {j})}

\* What a decision vouched for read the same in every candidate since, up to the latest.
Unbroken(d) ==
    LET kind == IF d.action = "approve" THEN "whole" ELSE "portion"
    IN  \A c \in d.candidate..Latest :
            Binding(c, d.scope, kind) = Binding(d.candidate, d.scope, kind)

\* Whatever is eligible rests, however indirectly, on decisions none of which is revoked and
\* each of which describes the latest candidate (_eligibility, _support_decision); a change in
\* between ends a decision for good, even if the original text returns
\* (docs/scanned-transcription-review.md:246).
GroundsStand == \A s \in Scopes :
    LET i == Eligible(decisions, Latest, s)
    IN  decisions # <<>> /\ i # 0 =>
            \A j \in Grounds(i) : j \notin Revoked(decisions) /\ Unbroken(decisions[j])

\* A revocation reaches everything that rests on what it revokes, so that the withdrawals
\* readers see leave no dependent in force (dependent_decisions).
RevocationCloses == \A i \in 1..Len(decisions) :
    (\E b \in decisions[i].deps : b[3] \in Revoked(decisions)) => i \in Revoked(decisions)

\* An error confirmed in a scope leaves nothing in force that vouches for the same
\* candidate's scope, or for the required portion of it (affected_decisions).
ErrorReachesReviews == [][\A c \in 1..Latest, s \in Scopes :
    ConfirmError(c, s) => \A kind \in Kinds : Standing(decisions', c)[<<kind, s, {}>>] = 0]_vars
=============================================================================
