-------------------------------- MODULE Rebuild --------------------------------
(***************************************************************************)
(* What goes into a publication (build.py, extract.py, ocr.py, quality.py) *)
(* and what a refresh of it takes over (refresh.py).  A build reads its    *)
(* sources page by page; a recognized page that is in doubt waits for a    *)
(* person, whose decision is about one exact result.  Finalizing a build   *)
(* takes the decisions and the approved content of the review in, the gate *)
(* of publication checks it, and a refresh builds the active publication   *)
(* again with a new correction ledger.                                     *)
(***************************************************************************)
EXTENDS Naturals, FiniteSets

CONSTANTS
    Selections,   \* the sets of books an owner may approve
    FormatsOf,    \* the formats each book has
    SourceOf,     \* the source each book's format is
    OcrPagesOf,   \* the numbers of the pages of each source
    LowText,      \* pages without a text layer
    Recognitions, \* what recognizing a page may come to: its text, and whether it is in doubt
    Verdicts,     \* what a person may decide: "accept", "correct", "nontext"
    Engines,      \* versions of the engine
    CacheChangeBound, JudgementBound, EditBound,  \* bounds of the model
    NoBuild, NoResult, NoDecision

ASSUME RebuildAssumption ==
    /\ \A s \in DOMAIN OcrPagesOf : OcrPagesOf[s] \subseteq Nat
    /\ \A books \in Selections : \A b \in books : \A f \in FormatsOf[b] :
          SourceOf[<<b, f>>] \in DOMAIN OcrPagesOf
    /\ 1 \in Engines
    /\ NoDecision \notin Verdicts \cup {"correct", "nontext"}

VARIABLES
    snapshot,    \* the version of the verified snapshot
    registered,  \* sources with a registered scanned candidate, by its version
    corrections, \* the version of the correction ledger
    approved,    \* the version of the approved content in the review store
    engine,      \* the version of the engine
    cache,       \* v2/<review id>: the images and the result of a page by one engine
    verdicts,    \* reviews/<review id>: the decision, and the result it is about
    making,      \* a build under way
    built,       \* the build directory, or the finalized one made from it
    live,        \* the active publication
    judged,      \* history: what people decided about which results
    acts         \* bounds: changes, judgements, edits

rebuildVars == <<snapshot, registered, corrections, approved, engine, cache, verdicts, making, built,
                 live, judged, acts>>

OcrPages == UNION {OcrPagesOf[s] : s \in DOMAIN OcrPagesOf}

\* key_for: a page under the configuration of one engine.
ReviewIds == OcrPages \X Engines

NoReview == [images |-> NoResult, result |-> NoResult]

RebuildInit ==
    /\ snapshot = 1 /\ corrections = 1 /\ approved = 0 /\ engine = 1
    /\ registered = [s \in DOMAIN OcrPagesOf |-> 0]
    /\ cache = [id \in ReviewIds |-> NoReview]
    /\ verdicts = [id \in ReviewIds |-> NoDecision]
    /\ making = NoBuild /\ built = NoBuild /\ live = NoBuild
    /\ judged = {}
    /\ acts = [changes |-> 0, judgements |-> 0, edits |-> 0]

----------------------------------------------------------------------------
(* build_snapshot: what is selected and how each source is read *)

\* select_format
Selectable(b) == "EPUB" \in FormatsOf[b] \/ (FormatsOf[b] # {} /\ Cardinality(FormatsOf[b]) = 1)
Format(b) == IF "EPUB" \in FormatsOf[b] THEN "EPUB" ELSE CHOOSE f \in FormatsOf[b] : TRUE
Source(b) == SourceOf[<<b, Format(b)>>]

\* A forced book is a PDF or a DjVu; a PDF is read from its candidate or is forced, not both.
Admissible(books, forced, candidates) ==
    /\ forced \subseteq books
    /\ \A b \in books : Selectable(b)
    /\ \A b \in forced : Format(b) # "EPUB"
    /\ \A b \in books : Format(b) = "PDF" => ((candidates[Source(b)] > 0) <=> (b \notin forced))

ForcedSources(forced) == {Source(b) : b \in forced}

\* The pages that need recognition: all of a forced source, else those without a text layer.
Recognized(books, forced, candidates) ==
    UNION {IF s \in ForcedSources(forced) THEN OcrPagesOf[s] ELSE OcrPagesOf[s] \cap LowText :
               s \in {Source(b) : b \in {c \in books : Format(c) # "EPUB"
                                                       /\ candidates[Source(c)] = 0}}}

\* The inputs recorded with the publication, and the pages read so far.
NewBuild(books, forced, candidates, snap, refresh) ==
    [books |-> books, forced |-> forced, candidates |-> candidates, snapshot |-> snap,
     corrections |-> corrections, review |-> 0, refresh |-> refresh, pages |-> [p \in {} |-> 0]]

Build ==
    /\ making = NoBuild
    /\ \E books \in Selections : \E forced \in SUBSET books :
         /\ Admissible(books, forced, registered)
         /\ making' = NewBuild(books, forced, registered, snapshot, FALSE)
    /\ UNCHANGED <<snapshot, registered, corrections, approved, engine, cache, verdicts, built,
                   live, judged, acts>>

\* Corrections are of sources read from a candidate.
FromCandidates(b) == {k \in b.books : Format(k) = "PDF" /\ b.candidates[Source(k)] > 0}

LedgerChanged == FromCandidates(live) # {} /\ corrections # live.corrections

\* republish and rebuild: the recorded inputs with the ledger of now.
Refresh ==
    /\ making = NoBuild /\ live # NoBuild
    /\ LedgerChanged /\ snapshot = live.snapshot
    /\ making' = NewBuild(live.books, live.forced, live.candidates, live.snapshot, TRUE)
    /\ UNCHANGED <<snapshot, registered, corrections, approved, engine, cache, verdicts, built,
                   live, judged, acts>>

----------------------------------------------------------------------------
(* ocr_page, effective and decide *)

Left == Recognized(making.books, making.forced, making.candidates) \ DOMAIN making.pages
NextPage == CHOOSE p \in Left : \A q \in Left : p <= q

\* process_image: the images are in place before the result that says which they are.
Recognize ==
    /\ making # NoBuild /\ Left # {}
    /\ cache[<<NextPage, engine>>].result = NoResult
    /\ \E r \in Recognitions : cache' = [cache EXCEPT ![<<NextPage, engine>>].images = r]
    /\ UNCHANGED <<snapshot, registered, corrections, approved, engine, verdicts, making, built,
                   live, judged, acts>>

SaveResult ==
    /\ making # NoBuild /\ Left # {}
    /\ LET id == <<NextPage, engine>> IN
       /\ cache[id].images # NoResult /\ cache[id].result = NoResult
       /\ cache' = [cache EXCEPT ![id].result = cache[id].images]
    /\ UNCHANGED <<snapshot, registered, corrections, approved, engine, verdicts, making, built,
                   live, judged, acts>>

\* mutant: a decision is taken for the page, whatever result it was about
StandsAnyway(id) == verdicts[id] # NoDecision

\* A decision counts for the result it is about.
Stands(id) == verdicts[id] # NoDecision /\ verdicts[id].about = cache[id].result

DecisionOf(id) == IF Stands(id) THEN verdicts[id].kind ELSE NoDecision

TextOf(result, kind) ==
    IF kind = "correct" THEN "corrected" ELSE IF kind = "nontext" THEN "" ELSE result.text

Effective(id) ==
    [id |-> id, result |-> cache[id].result, decision |-> DecisionOf(id),
     text |-> TextOf(cache[id].result, DecisionOf(id))]

InDoubt(item) == item.result.flagged /\ item.decision = NoDecision

\* paged: where nothing was recognized and nobody decided, the text layer stays.
WithNative(item) ==
    IF item.result.text = "" /\ item.decision = NoDecision THEN [item EXCEPT !.text = "native"]
    ELSE item

PageItem(p) ==
    IF p \in UNION {OcrPagesOf[s] : s \in ForcedSources(making.forced)}
    THEN Effective(<<p, engine>>) ELSE WithNative(Effective(<<p, engine>>))

ReadPage ==
    /\ making # NoBuild /\ Left # {}
    /\ cache[<<NextPage, engine>>].result # NoResult
    /\ making' = [making EXCEPT !.pages = [p \in DOMAIN @ \cup {NextPage} |->
                                         IF p = NextPage THEN PageItem(p) ELSE @[p]]]
    /\ UNCHANGED <<snapshot, registered, corrections, approved, engine, cache, verdicts, built,
                   live, judged, acts>>

\* A build that dies leaves what is in the cache.
BuildDies ==
    /\ making # NoBuild
    /\ making' = NoBuild
    /\ UNCHANGED <<snapshot, registered, corrections, approved, engine, cache, verdicts, built,
                   live, judged, acts>>

\* decide: a person sees a result of the build on its review page, and the command carries the
\* digest of that result: nothing is written unless the result is still the one in the cache.
Judge(p, kind) ==
    /\ built # NoBuild /\ p \in DOMAIN built.pages /\ acts.judgements < JudgementBound
    /\ LET id == built.pages[p].id IN
       /\ cache[id].result # NoResult
       /\ verdicts' = [verdicts EXCEPT ![id] = [about |-> cache[id].result, kind |-> kind]]
       /\ judged' = judged \cup {[id |-> id, result |-> cache[id].result, kind |-> kind]}
    /\ acts' = [acts EXCEPT !.judgements = @ + 1]
    /\ UNCHANGED <<snapshot, registered, corrections, approved, engine, cache, making, built, live>>

----------------------------------------------------------------------------
(* finalize, the gate of publication, and publish *)

Read == making # NoBuild /\ Left = {}

\* The build directory: a refresh publishes its own at once, under the publisher's lock.
BuildEnds ==
    /\ Read /\ ~making.refresh
    /\ built' = making /\ making' = NoBuild
    /\ UNCHANGED <<snapshot, registered, corrections, approved, engine, cache, verdicts, live,
                   judged, acts>>

Unaltered(p) == cache[built.pages[p].id].result = built.pages[p].result

\* Finalizing keeps the text of the build where nobody decided.
Reread(item) ==
    LET now == Effective(item.id)
    IN  [now EXCEPT !.text = IF now.decision = NoDecision THEN item.text ELSE @]

Finalize(withReview) ==
    /\ built # NoBuild
    /\ \A p \in DOMAIN built.pages :
         /\ cache[built.pages[p].id].result # NoResult
         /\ Unaltered(p) /\ ~InDoubt(Effective(built.pages[p].id))
    /\ withReview => approved > 0
    /\ built' = [built EXCEPT !.review = IF withReview THEN approved ELSE @,
                              !.pages = [p \in DOMAIN @ |-> Reread(@[p])]]
    /\ UNCHANGED <<snapshot, registered, corrections, approved, engine, cache, verdicts, making,
                   live, judged, acts>>

\* check_publish_quality: nothing is pending, and a decided page has the text decided on.
Gate(b) == \A p \in DOMAIN b.pages :
    /\ ~InDoubt(b.pages[p])
    /\ b.pages[p].decision # NoDecision =>
           b.pages[p].text = TextOf(b.pages[p].result, b.pages[p].decision)

\* A refresh holds the publisher's lock while it builds and publishes.
PublishBuild ==
    /\ built # NoBuild /\ Gate(built)
    /\ making # NoBuild => ~making.refresh
    /\ live' = built
    /\ UNCHANGED <<snapshot, registered, corrections, approved, engine, cache, verdicts, making,
                   built, judged, acts>>

PublishRefresh ==
    /\ Read /\ making.refresh
    /\ live' = IF Gate(making) THEN making ELSE live
    /\ making' = NoBuild
    /\ UNCHANGED <<snapshot, registered, corrections, approved, engine, cache, verdicts, built,
                   judged, acts>>

----------------------------------------------------------------------------
(* The owner's edits, and changes from outside *)

OwnerEdits ==
    /\ acts.edits < EditBound
    /\ acts' = [acts EXCEPT !.edits = @ + 1]
    /\ \/ corrections' = corrections + 1 /\ UNCHANGED <<approved, registered, snapshot>>
       \/ approved' = approved + 1 /\ UNCHANGED <<corrections, registered, snapshot>>
       \/ /\ \E s \in DOMAIN registered : registered' = [registered EXCEPT ![s] = @ + 1]
          /\ UNCHANGED <<corrections, approved, snapshot>>
       \/ snapshot' = snapshot + 1 /\ UNCHANGED <<corrections, approved, registered>>
    /\ UNCHANGED <<engine, cache, verdicts, making, built, live, judged>>

\* The cache of a page is deleted, or another version of the engine installed.
CacheChanges ==
    /\ acts.changes < CacheChangeBound
    /\ acts' = [acts EXCEPT !.changes = @ + 1]
    /\ \/ \E id \in ReviewIds : /\ cache[id].result # NoResult
                                /\ cache' = [cache EXCEPT ![id] = NoReview]
                                /\ UNCHANGED engine
       \/ making = NoBuild /\ engine' \in Engines \ {engine} /\ UNCHANGED cache
    /\ UNCHANGED <<snapshot, registered, corrections, approved, verdicts, making, built, live,
                   judged>>

RebuildNext ==
    \/ Build \/ Refresh \/ Recognize \/ SaveResult \/ ReadPage \/ BuildDies \/ BuildEnds
    \/ PublishBuild \/ PublishRefresh \/ OwnerEdits \/ CacheChanges
    \/ \E p \in OcrPages, kind \in Verdicts : Judge(p, kind)
    \/ \E withReview \in BOOLEAN : Finalize(withReview)

RebuildSpec == RebuildInit /\ [][RebuildNext]_rebuildVars

----------------------------------------------------------------------------
(* Properties *)

Decided(item, kind) ==
    /\ [id |-> item.id, result |-> item.result, kind |-> kind] \in judged
    /\ item.text = TextOf(item.result, kind)

\* A published page has the text it was recognized as, unless some person decided on its text
\* having seen exactly the result it was recognized as, and somebody did if that was in doubt;
\* however builds die, results are recognized again, engines change and decisions are taken
\* again in between (ocr.py:1, quality.py:1).
ServedReviewed == live # NoBuild => \A p \in DOMAIN live.pages :
    LET item == live.pages[p] IN
    IF item.decision = NoDecision
    THEN /\ ~item.result.flagged
         /\ item.text \in {item.result.text, "native"} \/ \E kind \in Verdicts : Decided(item, kind)
    ELSE Decided(item, item.decision)

\* "... and the candidates come back out of its backup inventory, so only the ledger differs."
\* (refresh.py:6-7): what a refresh publishes has the reviewed content that was active.
OnlyLedgerDiffers ==
    [][making # NoBuild /\ making.refresh /\ live' # live => live'.review = live.review]_rebuildVars
=============================================================================
