----------------------------- MODULE PageReading -----------------------------
(***************************************************************************)
(* The page run of the transcription (reader_bench/production.py,          *)
(* pipeline.py, readers.py): workers read the pages of a registered book   *)
(* with several samples of one reader, and resume after limits and kills.  *)
(* A page takes a reading of the page, a list of regions from each sample  *)
(* and readings of the crops from each.  A page that was read stays in a   *)
(* file of its own; a page whose reading failed is told in a sidecar.      *)
(* Pages that were read into another work directory can be copied first.   *)
(***************************************************************************)
EXTENDS Naturals, FiniteSets

CONSTANTS
    BookPages,   \* the registered pages of the book
    PageSlots,   \* the workers of a pass
    Rounds,      \* the passes of a run, and the passes of a blank page (2, 2)
    Killable,    \* whether the process may be killed
    Seeds,       \* other work directories of this reader: [saved, sidecar] of each
    ReadingFaults, ReadingRuns,  \* bounds of the model: limits and kills, runs
    NoJob        \* a worker without a page

ASSUME RoundsAssumption == Rounds \in Nat \ {0}

\* What a run can have left there: page files, and the failures of pages that were asked.
ASSUME SeedsAssumption == \A s \in Seeds :
    /\ s.saved \in [BookPages -> {<<>>} \cup [text : BOOLEAN, refused : BOOLEAN]]
    /\ s.sidecar \in [BookPages -> [attempts : Nat, refused : BOOLEAN,
                                   errors : SUBSET {"empty", "failed", "limit", "refused", "stopped"}]]

VARIABLES
    saved,      \* work/pages: what the file of a page says, <<>> without one
    sidecar,    \* work/failures: the attempts recorded, the errors of their page readings
    passes,     \* the passes that the process may still start; 0 when none runs
    jobs,       \* pages of the pass that no worker has taken
    work,       \* the page of each worker
    stopped,    \* STOP of the process
    candidate,  \* the status of each page in the book's scanned candidate, <<>> without one
    seeding,    \* what a seed has still to copy: [kind, page, is], a page file or a sidecar
    bounds      \* limits and kills met, runs started

readingVars == <<saved, sidecar, passes, jobs, work, stopped, candidate, seeding, bounds>>

NoSidecar == [attempts |-> 0, errors |-> {}, refused |-> FALSE]

ReadingInit ==
    /\ saved = [p \in BookPages |-> <<>>]
    /\ sidecar = [p \in BookPages |-> NoSidecar]
    /\ passes = 0 /\ jobs = {}
    /\ work = [w \in PageSlots |-> NoJob]
    /\ stopped = FALSE
    /\ candidate = <<>>
    /\ seeding = {}
    /\ bounds = [faults |-> 0, runs |-> 0]

----------------------------------------------------------------------------
(* What the files say of a page *)

HasFile(p) == saved[p] # <<>>

\* blank_evidence: enough passes, and every answer to the page reading was empty.
BlankEvidence(p) == sidecar[p].attempts >= Rounds /\ sidecar[p].errors = {"empty"}

Blank(p) == ~HasFile(p) /\ BlankEvidence(p)

Refused(p) == sidecar[p].refused \/ (HasFile(p) /\ saved[p].refused)

\* mutant: a refusal is taken for a failure that the next pass retries
JobsWithRefused == {p \in BookPages : ~HasFile(p) /\ ~Blank(p)}

Jobs == {p \in BookPages : ~HasFile(p) /\ ~Blank(p) /\ ~Refused(p)}

----------------------------------------------------------------------------
(* readers.call and pipeline.run_page *)

\* What the calls of a stage come to, with their attempts: an answer, only empty answers, some
\* timed out, an answer that says the usage limit is met, or the provider's refusal.  An answer
\* on its way when another worker meets the limit counts as one before it: its page is dropped
\* either way.
Answers == {"read", "empty", "failed", "limit", "refused"}

NewJob(p) == [page |-> p, stage |-> "page", read |-> FALSE, errors |-> {}, refused |-> FALSE]

Calling == {"page", "regions", "crops"}

\* A failed page reading is followed by the other calls all the same.  Crops are read when two
\* samples name a region and its guard grants it.
After(stage, answer) ==
    IF stage = "page" THEN {"regions"}
    ELSE IF stage = "regions" /\ answer = "read" THEN {"crops", "write"} ELSE {"write"}

Heard(job, answer) ==
    IF job.stage = "page"
    THEN [job EXCEPT !.read = (answer = "read"), !.errors = {answer} \ {"read"}]
    ELSE job

\* preserve_refusal: no text is kept and nothing more is asked about the page.
Preserved(job) == [job EXCEPT !.read = FALSE, !.refused = TRUE, !.stage = "write"]

Call(w, answer) ==
    /\ work[w] # NoJob /\ work[w].stage \in Calling
    /\ ~stopped
    /\ answer = "limit" => bounds.faults < ReadingFaults
    /\ bounds' = [bounds EXCEPT !.faults = @ + (IF answer = "limit" THEN 1 ELSE 0)]
    /\ stopped' = (answer = "limit")
    /\ \E stage \in After(work[w].stage, answer) :
           work' = [work EXCEPT ![w] =
               IF answer = "refused" THEN Preserved(@) ELSE [Heard(@, answer) EXCEPT !.stage = stage]]
    /\ UNCHANGED <<saved, sidecar, passes, jobs, candidate, seeding>>

\* After a limit the remaining calls of every page come back without reaching the provider.
CallStopped(w) ==
    /\ work[w] # NoJob /\ work[w].stage \in Calling
    /\ stopped
    /\ work' = [work EXCEPT ![w] = [Heard(@, "stopped") EXCEPT !.stage = "write"]]
    /\ UNCHANGED <<saved, sidecar, passes, jobs, stopped, candidate, seeding, bounds>>

Write(w) ==
    /\ work[w] # NoJob /\ work[w].stage = "write"
    /\ saved' = [saved EXCEPT ![work[w].page] = [text |-> work[w].read, refused |-> work[w].refused]]
    /\ work' = [work EXCEPT ![w].stage = "settle"]
    /\ UNCHANGED <<sidecar, passes, jobs, stopped, candidate, seeding, bounds>>

----------------------------------------------------------------------------
(* production.run_book and transcribe *)

StartRun ==
    /\ passes = 0 /\ seeding = {} /\ bounds.runs < ReadingRuns
    /\ bounds' = [bounds EXCEPT !.runs = @ + 1]
    /\ stopped' = FALSE
    /\ passes' = Rounds /\ jobs' = Jobs
    /\ UNCHANGED <<saved, sidecar, work, candidate, seeding>>

TakePage(w) ==
    /\ work[w] = NoJob
    /\ \E p \in {q \in jobs : \A r \in jobs : q <= r} :
         /\ work' = [work EXCEPT ![w] = NewJob(p)]
         /\ jobs' = jobs \ {p}
    /\ UNCHANGED <<saved, sidecar, passes, stopped, candidate, seeding, bounds>>

Told(job) ==
    [attempts |-> sidecar[job.page].attempts + 1,
     errors |-> sidecar[job.page].errors \cup job.errors,
     refused |-> sidecar[job.page].refused \/ job.refused]

\* A page without text, or one that ends after STOP, has its file removed; only without STOP
\* its calls are told in the sidecar.
RecordFailure(job) == IF stopped THEN sidecar[job.page] ELSE Told(job)

Settle(w) ==
    /\ work[w] # NoJob /\ work[w].stage = "settle"
    /\ LET job == work[w] IN
       IF stopped \/ ~job.read
       THEN /\ saved' = [saved EXCEPT ![job.page] = <<>>]
            /\ sidecar' = [sidecar EXCEPT ![job.page] = RecordFailure(job)]
       ELSE UNCHANGED <<saved, sidecar>>
    /\ work' = [work EXCEPT ![w] = NoJob]
    /\ UNCHANGED <<passes, jobs, stopped, candidate, seeding, bounds>>

EndPass ==
    /\ passes > 0 /\ jobs = {} /\ \A w \in PageSlots : work[w] = NoJob
    /\ passes' = IF stopped THEN 0 ELSE passes - 1
    /\ jobs' = IF passes' = 0 THEN {} ELSE Jobs
    /\ UNCHANGED <<saved, sidecar, work, stopped, candidate, seeding, bounds>>

Kill ==
    /\ Killable /\ (passes > 0 \/ seeding # {}) /\ bounds.faults < ReadingFaults
    /\ bounds' = [bounds EXCEPT !.faults = @ + 1]
    /\ passes' = 0 /\ jobs' = {} /\ seeding' = {}
    /\ work' = [w \in PageSlots |-> NoJob]
    /\ UNCHANGED <<saved, sidecar, stopped, candidate>>

----------------------------------------------------------------------------
(* production.assemble_book: the candidate of the book *)

Lost == {p \in BookPages : (~HasFile(p) /\ ~Blank(p)) \/ Refused(p)}

Status(p) ==
    IF HasFile(p) /\ saved[p].text /\ ~Refused(p) THEN "transcribed"
    ELSE IF BlankEvidence(p) THEN "blank" ELSE "failed"

Assemble(allowMissing) ==
    /\ passes = 0 /\ seeding = {}
    /\ Lost = {} \/ allowMissing
    /\ candidate' = [p \in BookPages |-> Status(p)]
    /\ UNCHANGED <<saved, sidecar, passes, jobs, work, stopped, seeding, bounds>>

----------------------------------------------------------------------------
(* production.seed: what was read into another work directory is not paid again *)

Copies(s) ==
    {[kind |-> "page", page |-> p, is |-> s.saved[p]] : p \in {q \in BookPages : s.saved[q] # <<>>}}
    \cup {[kind |-> "failure", page |-> p, is |-> s.sidecar[p]] :
              p \in {q \in BookPages : s.sidecar[q] # NoSidecar}}

There(copy) == IF copy.kind = "page" THEN HasFile(copy.page) ELSE sidecar[copy.page] # NoSidecar
Equal(copy) == copy.is = IF copy.kind = "page" THEN saved[copy.page] ELSE sidecar[copy.page]

\* Nothing is copied when a file that is here already says something else.
Seed(s) ==
    /\ passes = 0 /\ seeding = {}
    /\ \A copy \in Copies(s) : There(copy) => Equal(copy)
    /\ seeding' = Copies(s)
    /\ UNCHANGED <<saved, sidecar, passes, jobs, work, stopped, candidate, bounds>>

\* Page files come first, in the order of the pages, then the sidecars.
Sooner(copy, other) ==
    IF copy.kind = other.kind THEN copy.page < other.page ELSE copy.kind = "page"

\* A file that is here already stays.
CopyFile(copy) ==
    /\ saved' = IF copy.kind = "page" /\ ~There(copy) THEN [saved EXCEPT ![copy.page] = copy.is] ELSE saved
    /\ sidecar' = IF copy.kind = "failure" /\ ~There(copy)
                  THEN [sidecar EXCEPT ![copy.page] = copy.is] ELSE sidecar

CopyNext ==
    \E copy \in seeding :
        /\ \A other \in seeding \ {copy} : Sooner(copy, other)
        /\ CopyFile(copy)
        /\ seeding' = seeding \ {copy}
        /\ UNCHANGED <<passes, jobs, work, stopped, candidate, bounds>>

ReadingNext ==
    \/ \E w \in PageSlots : TakePage(w) \/ CallStopped(w) \/ Write(w) \/ Settle(w)
    \/ \E w \in PageSlots, answer \in Answers : Call(w, answer)
    \/ StartRun \/ EndPass \/ Kill
    \/ \E allowMissing \in BOOLEAN : Assemble(allowMissing)
    \/ (\E s \in Seeds : Seed(s)) \/ CopyNext

ReadingSpec == ReadingInit /\ [][ReadingNext]_readingVars

----------------------------------------------------------------------------
(* Properties *)

WorkedOn(p) == \E w \in PageSlots : work[w] # NoJob /\ work[w].page = p

\* A recorded refusal stays on record, no worker takes its page again and no candidate has text
\* of it, whatever limits, kills and resumed runs come between (production.py:164-169).
RefusalsKept == [][\A p \in BookPages : Refused(p) /\ ~WorkedOn(p) =>
    /\ Refused(p)' /\ ~WorkedOn(p)'
    /\ candidate' # candidate => candidate'[p] # "transcribed"]_readingVars
=============================================================================
