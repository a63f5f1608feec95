----------------------------- MODULE LibraryWalk -----------------------------
(***************************************************************************)
(* Reading the library page by page (library.py): search hits, table of    *)
(* contents, images and relations are cut by an offset and a               *)
(* limit that the client may choose anew for every page, whole-book search *)
(* by a page number; the engine stops searching after 1500 ms and answers  *)
(* with what it has found.  Meanwhile publications are activated and       *)
(* content is withdrawn.                                                   *)
(***************************************************************************)
EXTENDS Naturals, Sequences

CONSTANTS
    Walked,  \* publications a runtime retains
    WalkHits,      \* what a query or a listing finds in each, in order
    Limits,    \* limits a client asks for
    LastOffset,  \* offsets accepted, by kind: 10000 for a search, 100000 for a listing
    LastPage   \* page <= 100

VARIABLES
    current,  \* the active publication
    gone,     \* withdrawn content
    walk      \* the client's listing: its kind, publication, next offset or page, what it was given,
              \* and whether an answer said search_cutoff

walkVars == <<current, gone, walk>>

WalkDone == 0  \* next_offset: null
Sections == UNION {{WalkHits[p][i] : i \in DOMAIN WalkHits[p]} : p \in Walked}

\* A search has no repeated hits (library.py:455), and neither has a listing.
ASSUME WalkAssumption ==
    /\ LastPage \in Nat \ {0} /\ Limits \subseteq Nat \ {0}
    /\ LastOffset \in [{"search", "listing"} -> Nat]
    /\ \A p \in Walked :
          /\ WalkHits[p] \in Seq(Sections)
          /\ \A i, j \in DOMAIN WalkHits[p] : WalkHits[p][i] = WalkHits[p][j] => i = j

NoWalk ==
    [kind |-> "none", pub |-> "none", next |-> 0, limit |-> 0, given |-> <<>>, cut |-> FALSE]

WalkInit == current \in Walked /\ gone = {} /\ walk = NoWalk

Lesser(a, b) == IF a < b THEN a ELSE b

Cut(hits, offset, limit) == SubSeq(hits, offset + 1, Lesser(offset + limit, Len(hits)))

\* The items that are in the set, in their order: SelectSeq, as a function of the position.
Among(items, set) ==
    LET upTo[i \in 0..Len(items)] ==
            IF i = 0 THEN <<>>
            ELSE IF items[i] \in set THEN Append(upTo[i - 1], items[i]) ELSE upTo[i - 1]
    IN  upTo[Len(items)]

Served(items, kind) == Among(items, IF kind = "search" THEN Sections \ gone ELSE Sections)

\* mutant: the next offset counts what was served
NextByServed(pub, kind, offset, limit) ==
    LET served == Len(Served(Cut(WalkHits[pub], offset, limit), kind))
    IN  IF offset + served < Len(WalkHits[pub]) /\ served > 0 THEN offset + served ELSE WalkDone

\* next_offset: where the cut ended, if anything is left.
NextOffset(pub, kind, offset, limit) ==
    IF offset + limit < Len(WalkHits[pub]) THEN offset + limit ELSE WalkDone

\* A continuation names the publication the first page came from.
ContinueIn(w) == w.pub

Answer1(kind, pub, offset, limit, given) ==
    [kind |-> kind, pub |-> pub, limit |-> limit, cut |-> FALSE,
     next |-> NextOffset(pub, kind, offset, limit),
     given |-> given \o Served(Cut(WalkHits[pub], offset, limit), kind)]

\* search, get_book, list_images and section_navigation, from the start.
OpenWalk == \E kind \in {"search", "listing"}, limit \in Limits :
    /\ walk' = Answer1(kind, current, 0, limit, <<>>)
    /\ UNCHANGED <<current, gone>>

\* An offset that is too large is refused.
Continue == \E limit \in Limits :
    /\ walk.kind \in {"search", "listing"} /\ walk.next # WalkDone
    /\ walk.next <= LastOffset[walk.kind]
    /\ walk' = Answer1(walk.kind, ContinueIn(walk), walk.next, limit, walk.given)
    /\ UNCHANGED <<current, gone>>

\* The engine has found everything, or says that it stopped with what it had: its ranking of that.
Stops(found, cut) == found \subseteq Sections /\ cut \in BOOLEAN /\ (cut \/ found = Sections)

\* find_book_content: next_page while pages come back full, up to the last page.
PageOf(pub, page, limit, found, cut, before) ==
    LET results == Cut(Among(WalkHits[pub], found), (page - 1) * limit, limit)
    IN  [kind |-> "pages", pub |-> pub, limit |-> limit, given |-> before.given \o results,
         cut |-> before.cut \/ cut,
         next |-> IF Len(results) = limit /\ page < LastPage THEN page + 1 ELSE WalkDone]

FindFirst == \E limit \in Limits, found \in SUBSET Sections, cut \in BOOLEAN :
    /\ Stops(found, cut)
    /\ walk' = PageOf(current, 1, limit, found, cut, NoWalk)
    /\ UNCHANGED <<current, gone>>

FindNext == \E found \in SUBSET Sections, cut \in BOOLEAN :
    /\ walk.kind = "pages" /\ walk.next # WalkDone
    /\ Stops(found, cut)
    /\ walk' = PageOf(ContinueIn(walk), walk.next, walk.limit, found, cut, walk)
    /\ UNCHANGED <<current, gone>>

Reactivate == current' \in Walked /\ current' # current /\ UNCHANGED <<gone, walk>>

Withdraw1 == \E s \in Sections \ gone : gone' = gone \cup {s} /\ UNCHANGED <<current, walk>>

WalkNext == OpenWalk \/ Continue \/ FindFirst \/ FindNext \/ Reactivate \/ Withdraw1

WalkSpec == WalkInit /\ [][WalkNext]_walkVars

----------------------------------------------------------------------------

\* How far into the results the walk is: at its end all of them, or what the pages reach.
Reached(w) ==
    LET all == WalkHits[w.pub]
    IN  IF w.next = WalkDone
        THEN IF w.kind = "pages" THEN Lesser(LastPage * w.limit, Len(all)) ELSE Len(all)
        ELSE IF w.kind = "pages" THEN (w.next - 1) * w.limit ELSE w.next

\* A client that follows the continuations, to the end or until an offset is refused, has been given
\* one publication's results up to there in order, each once, and missed only what was withdrawn,
\* unless an answer said that the search was cut off; whatever was activated or withdrawn meanwhile
\* and whatever limits it asked for (library.py:233-234, 417-418, 511).  What a search that was cut
\* off gave is of that publication too.
WalkWhole ==
    walk.kind # "none" =>
        LET all == WalkHits[walk.pub]
            given == {walk.given[i] : i \in DOMAIN walk.given}
            due == SubSeq(all, 1, Reached(walk))
        IN  /\ given \subseteq {all[i] : i \in DOMAIN all}
            /\ ~walk.cut =>
                 /\ walk.given = Among(due, given)
                 /\ \A i \in DOMAIN due :
                       due[i] \in given \/ (walk.kind = "search" /\ due[i] \in gone)
=============================================================================
