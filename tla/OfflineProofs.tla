----------------------------- MODULE OfflineProofs -----------------------------
(***************************************************************************)
(* Proofs about what is prepared away from readers: the page run, the      *)
(* votes of crops, builds and their reviews, the scan of a document's      *)
(* blocks, the models of publications, saved evidence of scans,            *)
(* corrections of an imported page and proposals of what belongs together. *)
(* For any books, pages, workers, people and limits, a refused page is not *)
(* taken again, a line is reviewed by most of its readers, a published     *)
(* page reads as recognized or decided, every unit is taken once, a model  *)
(* stands for the books it was built from, a snapshot keeps what was       *)
(* recognized, no correction touches a marker, and what is proposed passes *)
(* its validation.                                                         *)
(***************************************************************************)
EXTENDS PageReading, PageVotes, Rebuild, OuterBlocks, NativeModel, DoclingEvidence, ScannedImport,
        BoundaryProposals, FiniteSetTheorems, SequenceTheorems, WellFoundedInduction, TLAPS

\* A set of natural numbers has a least one.
LEMMA NatMinimum ==
    ASSUME NEW S \in SUBSET Nat, S # {}
    PROVE  \E m \in S : \A n \in S : m <= n
<1> DEFINE Less == OpToRel(<, Nat)
<1>1. IsWellFoundedOn(Less, Nat)
  BY NatLessThanWellFounded
<1>2. \A x, y \in Nat : y < x => <<y, x>> \in Less
  BY DEF OpToRel
<1> HIDE DEF Less
<1>3. PICK m \in S : \A n \in S : <<n, m>> \notin Less
  BY <1>1, WFMin
<1>4. ASSUME NEW n \in S PROVE m <= n
  <2>1. ~(n < m) /\ n \in Nat /\ m \in Nat
    BY <1>2, <1>3
  <2>2. QED BY <2>1
<1>5. QED BY <1>4

----------------------------------------------------------------------------
(* The page run *)

Outcomes == Answers \cup {"stopped"}

JobOfWorker == [page : BookPages, stage : Calling \cup {"write", "settle"}, read : BOOLEAN,
                errors : SUBSET Outcomes, refused : BOOLEAN]
PageFile == [text : BOOLEAN, refused : BOOLEAN]
PageSidecar == [attempts : Nat, errors : SUBSET Outcomes, refused : BOOLEAN]

FilesTyped == /\ saved \in [BookPages -> {<<>>} \cup PageFile]
              /\ sidecar \in [BookPages -> PageSidecar]
WorkTyped  == work \in [PageSlots -> {NoJob} \cup JobOfWorker]

\* A page waits or is worked on, not both; what waits is not refused; between runs nobody works.
Taken == /\ jobs \subseteq BookPages
         /\ \A p \in jobs : ~Refused(p) /\ ~WorkedOn(p)
         /\ passes = 0 => jobs = {} /\ \A w \in PageSlots : work[w] = NoJob

ReadingInv == FilesTyped /\ WorkTyped /\ Taken

\* A seed copies files of a run while none is under way here.
SeedInv ==
    /\ seeding # {} => passes = 0
    /\ \A copy \in seeding :
           /\ copy.page \in BookPages
           /\ copy.kind = "page" => copy.is \in PageFile
           /\ copy.kind = "failure" => copy.is \in PageSidecar

----------------------------------------------------------------------------
(* What a step changes *)

\* Of the pages nobody works on, what the files say stays, and no worker takes one that is refused.
OthersStay == \A p \in BookPages : ~WorkedOn(p) =>
    /\ Refused(p)' = Refused(p)
    /\ p \notin jobs => ~WorkedOn(p)'

LEMMA FilesSame ==
    ASSUME UNCHANGED <<saved, sidecar>>
    PROVE  \A p \in BookPages : Refused(p)' = Refused(p)
  BY DEF Refused, HasFile

LEMMA ReadingInitInv == ReadingInit => ReadingInv
<1> SUFFICES ASSUME ReadingInit PROVE ReadingInv
  OBVIOUS
<1>1. FilesTyped /\ WorkTyped
  BY DEF ReadingInit, FilesTyped, WorkTyped, PageSidecar, NoSidecar
<1>2. Taken
  BY DEF ReadingInit, Taken
<1>3. QED BY <1>1, <1>2 DEF ReadingInv

\* What a worker hears leaves it a job of the same page.
LEMMA HeardJob ==
    ASSUME NEW j \in JobOfWorker, NEW a \in Outcomes, NEW s \in Calling \cup {"write"}
    PROVE  /\ [Heard(j, a) EXCEPT !.stage = s] \in JobOfWorker
           /\ [Heard(j, a) EXCEPT !.stage = s].page = j.page
           /\ Preserved(j) \in JobOfWorker /\ Preserved(j).page = j.page
           /\ [j EXCEPT !.stage = "settle"] \in JobOfWorker
           /\ [j EXCEPT !.stage = "settle"].page = j.page
<1>1. Heard(j, a) \in JobOfWorker /\ Heard(j, a).page = j.page
  BY DEF Heard, JobOfWorker
<1>2. QED BY <1>1 DEF JobOfWorker, Preserved, Calling

\* A worker goes on with its page, or puts it down: no page is taken.
LEMMA WorkerStep ==
    ASSUME ReadingInv, NEW w \in PageSlots, NEW j \in {NoJob} \cup JobOfWorker, work[w] # NoJob,
           j # NoJob => j.page = work[w].page,
           work' = [work EXCEPT ![w] = j], UNCHANGED <<jobs, passes>>, FilesTyped',
           \A p \in BookPages \ {work[w].page} : saved'[p] = saved[p] /\ sidecar'[p] = sidecar[p]
    PROVE  ReadingInv' /\ OthersStay
<1>1. WorkTyped' /\ work[w].page \in BookPages /\ WorkedOn(work[w].page)
  BY DEF ReadingInv, WorkTyped, JobOfWorker, WorkedOn
<1>2. \A p \in BookPages : WorkedOn(p)' => WorkedOn(p)
  BY DEF ReadingInv, WorkTyped, WorkedOn
<1>3. \A p \in BookPages \ {work[w].page} : Refused(p)' = Refused(p)
  BY DEF Refused, HasFile
<1>4. OthersStay
  BY <1>1, <1>2, <1>3 DEF OthersStay
<1>5. Taken'
  <2>1. \A p \in jobs : ~Refused(p)' /\ ~WorkedOn(p)'
    BY <1>1, <1>2, <1>3 DEF ReadingInv, Taken
  <2>2. passes # 0
    BY DEF ReadingInv, Taken
  <2>3. QED BY <2>1, <2>2 DEF ReadingInv, Taken
<1>6. QED BY <1>1, <1>4, <1>5 DEF ReadingInv

LEMMA CallInv ==
    ASSUME ReadingInv, NEW w \in PageSlots, NEW a \in Answers, Call(w, a)
    PROVE  ReadingInv' /\ OthersStay
<1>1. work[w] # NoJob /\ work[w] \in JobOfWorker /\ work[w].stage \in Calling
  BY DEF Call, ReadingInv, WorkTyped
<1>2. PICK s \in After(work[w].stage, a) :
        work' = [work EXCEPT ![w] =
            IF a = "refused" THEN Preserved(@) ELSE [Heard(@, a) EXCEPT !.stage = s]]
  BY DEF Call
<1> DEFINE j == IF a = "refused" THEN Preserved(work[w]) ELSE [Heard(work[w], a) EXCEPT !.stage = s]
<1>3. s \in Calling \cup {"write"}
  BY DEF After, Calling
<1>4. j \in JobOfWorker /\ j.page = work[w].page
  <2>1. a \in Outcomes
    BY DEF Outcomes
  <2>2. /\ [Heard(work[w], a) EXCEPT !.stage = s] \in JobOfWorker
        /\ [Heard(work[w], a) EXCEPT !.stage = s].page = work[w].page
        /\ Preserved(work[w]) \in JobOfWorker /\ Preserved(work[w]).page = work[w].page
    BY <1>1, <1>3, <2>1, HeardJob, Zenon
  <2>3. CASE a = "refused"
    BY <2>2, <2>3
  <2>4. CASE a # "refused"
    BY <2>2, <2>4
  <2>5. QED BY <2>3, <2>4
<1>5. work' = [work EXCEPT ![w] = j]
  BY <1>2
<1> HIDE DEF j
<1>6. UNCHANGED <<saved, sidecar, jobs, passes>>
  BY DEF Call
<1>7. QED BY <1>1, <1>4, <1>5, <1>6, WorkerStep DEF ReadingInv, FilesTyped

LEMMA CallStoppedInv ==
    ASSUME ReadingInv, NEW w \in PageSlots, CallStopped(w)
    PROVE  ReadingInv' /\ OthersStay
<1>1. work[w] # NoJob /\ work[w] \in JobOfWorker
  BY DEF CallStopped, ReadingInv, WorkTyped
<1> DEFINE j == [Heard(work[w], "stopped") EXCEPT !.stage = "write"]
<1>2. j \in JobOfWorker /\ j.page = work[w].page
  <2>1. "stopped" \in Outcomes /\ "write" \in Calling \cup {"write"}
    BY DEF Outcomes
  <2>2. QED BY <1>1, <2>1, HeardJob, Zenon
<1>3. work' = [work EXCEPT ![w] = j] /\ UNCHANGED <<saved, sidecar, jobs, passes>>
  BY DEF CallStopped
<1> HIDE DEF j
<1>4. QED BY <1>1, <1>2, <1>3, WorkerStep DEF ReadingInv, FilesTyped

LEMMA WriteInv ==
    ASSUME ReadingInv, NEW w \in PageSlots, Write(w)
    PROVE  ReadingInv' /\ OthersStay
<1>1. work[w] # NoJob /\ work[w] \in JobOfWorker
  BY DEF Write, ReadingInv, WorkTyped
<1> DEFINE j == [work[w] EXCEPT !.stage = "settle"]
<1>2. j \in JobOfWorker /\ j.page = work[w].page
  BY <1>1 DEF JobOfWorker
<1>3. work' = [work EXCEPT ![w] = j] /\ UNCHANGED <<sidecar, jobs, passes>>
  BY DEF Write
<1> HIDE DEF j
<1>4. /\ FilesTyped'
      /\ \A p \in BookPages \ {work[w].page} : saved'[p] = saved[p] /\ sidecar'[p] = sidecar[p]
  <2>1. [text |-> work[w].read, refused |-> work[w].refused] \in PageFile
    BY <1>1 DEF JobOfWorker, PageFile
  <2>2. saved' = [saved EXCEPT ![work[w].page] = [text |-> work[w].read, refused |-> work[w].refused]]
    BY DEF Write
  <2>3. QED BY <2>1, <2>2, <1>3 DEF ReadingInv, FilesTyped
<1>5. QED BY <1>1, <1>2, <1>3, <1>4, WorkerStep

LEMMA SettleInv ==
    ASSUME ReadingInv, NEW w \in PageSlots, Settle(w)
    PROVE  ReadingInv' /\ OthersStay
<1>1. work[w] # NoJob /\ work[w] \in JobOfWorker
  BY DEF Settle, ReadingInv, WorkTyped
<1>2. work' = [work EXCEPT ![w] = NoJob] /\ UNCHANGED <<jobs, passes>>
  BY DEF Settle
<1>3. RecordFailure(work[w]) \in PageSidecar
  <2>1. sidecar[work[w].page] \in PageSidecar
    BY <1>1 DEF ReadingInv, FilesTyped, JobOfWorker
  <2>2. Told(work[w]) \in PageSidecar
    BY <1>1, <2>1 DEF Told, PageSidecar, JobOfWorker
  <2>3. QED BY <2>1, <2>2 DEF RecordFailure
<1>4. /\ FilesTyped'
      /\ \A p \in BookPages \ {work[w].page} : saved'[p] = saved[p] /\ sidecar'[p] = sidecar[p]
  <2>1. \/ UNCHANGED <<saved, sidecar>>
        \/ /\ saved' = [saved EXCEPT ![work[w].page] = <<>>]
           /\ sidecar' = [sidecar EXCEPT ![work[w].page] = RecordFailure(work[w])]
    BY DEF Settle
  <2>2. QED BY <2>1, <1>3 DEF ReadingInv, FilesTyped
<1>5. QED BY <1>1, <1>2, <1>4, WorkerStep

\* A worker takes a page that waits, which is not refused.
LEMMA TakePageInv ==
    ASSUME ReadingInv, NEW w \in PageSlots, TakePage(w)
    PROVE  ReadingInv' /\ OthersStay
<1>1. PICK p \in jobs : work' = [work EXCEPT ![w] = NewJob(p)] /\ jobs' = jobs \ {p}
  BY DEF TakePage
<1>2. UNCHANGED <<saved, sidecar, passes>>
  BY DEF TakePage
<1>3. p \in BookPages /\ NewJob(p) \in JobOfWorker /\ NewJob(p).page = p
  BY DEF ReadingInv, Taken, NewJob, JobOfWorker, Calling
<1>4. WorkTyped' /\ \A q \in BookPages \ {p} : WorkedOn(q)' => WorkedOn(q)
  BY <1>1, <1>3 DEF ReadingInv, WorkTyped, WorkedOn
<1>5. Taken'
  BY <1>1, <1>2, <1>4, FilesSame DEF ReadingInv, Taken
<1>6. OthersStay
  BY <1>1, <1>2, <1>4, FilesSame DEF OthersStay
<1>7. QED BY <1>2, <1>4, <1>5, <1>6 DEF ReadingInv, FilesTyped

\* A pass begins where nobody works, with the pages that are not refused; or nobody works any more.
LEMMA PassInv ==
    ASSUME ReadingInv, StartRun \/ EndPass \/ Kill
    PROVE  ReadingInv' /\ OthersStay
<1>1. UNCHANGED <<saved, sidecar>> /\ WorkTyped'
      /\ \A w \in PageSlots : work'[w] = NoJob
  BY DEF StartRun, EndPass, Kill, ReadingInv, Taken, WorkTyped
<1>2. /\ jobs' \in {{}, Jobs}
      /\ passes' = 0 => jobs' = {}
  BY RoundsAssumption DEF StartRun, EndPass, Kill
<1>3. Jobs \subseteq BookPages /\ \A p \in Jobs : ~Refused(p)
  BY DEF Jobs
<1>4. \A p \in BookPages : ~WorkedOn(p)'
  BY <1>1 DEF WorkedOn
<1>5. Taken'
  BY <1>1, <1>2, <1>3, <1>4, FilesSame DEF Taken
<1>6. OthersStay
  BY <1>1, <1>4, FilesSame DEF OthersStay
<1>7. QED BY <1>1, <1>5, <1>6 DEF ReadingInv, FilesTyped

LEMMA RestInv ==
    ASSUME ReadingInv,
           (\E m \in BOOLEAN : Assemble(m)) \/ (\E s \in Seeds : Seed(s)) \/ UNCHANGED readingVars
    PROVE  ReadingInv' /\ OthersStay
<1>1. UNCHANGED <<saved, sidecar, passes, jobs, work>>
  BY DEF Assemble, Seed, readingVars
<1>2. QED
  BY <1>1 DEF ReadingInv, FilesTyped, WorkTyped, Taken, OthersStay, Refused, HasFile, WorkedOn

LEMMA SeedInitInv == ReadingInit => SeedInv
  BY DEF ReadingInit, SeedInv

LEMMA SeedStep ==
    ASSUME SeedInv, [ReadingNext]_readingVars
    PROVE  SeedInv'
<1>1. ASSUME NEW s \in Seeds, Seed(s) PROVE SeedInv'
  <2>1. ASSUME NEW p \in BookPages
        PROVE  /\ s.saved[p] # <<>> => s.saved[p] \in PageFile
               /\ s.sidecar[p] \in PageSidecar
    BY SeedsAssumption DEF PageFile, PageSidecar, Outcomes, Answers
  <2>2. ASSUME NEW copy \in Copies(s)
        PROVE  /\ copy.page \in BookPages
               /\ copy.kind = "page" => copy.is \in PageFile
               /\ copy.kind = "failure" => copy.is \in PageSidecar
    BY <2>1 DEF Copies
  <2>3. seeding' = Copies(s) /\ passes' = 0
    BY <1>1 DEF Seed
  <2>4. QED BY <2>2, <2>3 DEF SeedInv
<1>2. CASE CopyNext
  <2>1. seeding' \subseteq seeding /\ passes' = passes
    BY <1>2 DEF CopyNext
  <2>2. QED BY <2>1 DEF SeedInv
<1>3. CASE StartRun \/ EndPass \/ Kill
  <2>1. seeding' \in {{}, seeding} /\ (passes' # passes => seeding' = {})
    BY <1>3 DEF StartRun, EndPass, Kill, SeedInv
  <2>2. QED BY <2>1 DEF SeedInv
<1>4. CASE UNCHANGED <<seeding, passes>>
  BY <1>4 DEF SeedInv
<1>5. QED
  BY <1>1, <1>2, <1>3, <1>4
     DEF ReadingNext, TakePage, CallStopped, Write, Settle, Call, Assemble, readingVars

\* What is here stays, and what is copied beside it takes no refusal back; nobody works meanwhile.
LEMMA CopyInv ==
    ASSUME ReadingInv, SeedInv, CopyNext, NEW p \in BookPages
    PROVE  ReadingInv' /\ ~WorkedOn(p)' /\ (Refused(p) => Refused(p)')
<1>1. PICK copy \in seeding : CopyFile(copy) /\ UNCHANGED <<passes, jobs, work>>
  BY DEF CopyNext
<1>2. copy.page \in BookPages /\ jobs' = {} /\ work' = work /\ \A w \in PageSlots : work'[w] = NoJob
  BY <1>1 DEF SeedInv, ReadingInv, Taken
<1>3. /\ saved' = saved \/ (~HasFile(copy.page) /\ copy.is \in PageFile
                             /\ saved' = [saved EXCEPT ![copy.page] = copy.is])
      /\ sidecar' = sidecar \/ (sidecar[copy.page] = NoSidecar /\ copy.is \in PageSidecar
                                 /\ sidecar' = [sidecar EXCEPT ![copy.page] = copy.is])
  <2>1. CASE copy.kind = "page"
    BY <1>1, <2>1 DEF CopyFile, There, SeedInv
  <2>2. CASE copy.kind = "failure"
    BY <1>1, <2>2 DEF CopyFile, There, SeedInv
  <2>3. CASE copy.kind \notin {"page", "failure"}
    BY <1>1, <2>3 DEF CopyFile
  <2>4. QED BY <2>1, <2>2, <2>3
<1>4. FilesTyped'
  BY <1>2, <1>3 DEF ReadingInv, FilesTyped
<1>5. WorkTyped' /\ Taken' /\ ~WorkedOn(p)'
  BY <1>1, <1>2 DEF ReadingInv, WorkTyped, Taken, WorkedOn
<1>6. ASSUME Refused(p) PROVE Refused(p)'
  <2>1. HasFile(p) => saved'[p] = saved[p]
    BY <1>3 DEF HasFile, ReadingInv, FilesTyped
  <2>2. sidecar[p].refused => sidecar'[p] = sidecar[p]
    BY <1>3 DEF ReadingInv, FilesTyped, NoSidecar
  <2>3. QED BY <1>6, <2>1, <2>2 DEF Refused, HasFile
<1>7. QED BY <1>4, <1>5, <1>6 DEF ReadingInv

LEMMA ReadingStep ==
    ASSUME ReadingInv, SeedInv, [ReadingNext]_readingVars
    PROVE  ReadingInv' /\ (OthersStay \/ CopyNext)
<1>1. CASE CopyNext
  <2>1. \E p \in BookPages : TRUE
    BY <1>1 DEF CopyNext, SeedInv
  <2>2. QED BY <1>1, <2>1, CopyInv
<1>2. CASE ~CopyNext
  BY <1>2, CallInv, CallStoppedInv, WriteInv, SettleInv, TakePageInv, PassInv, RestInv DEF ReadingNext
<1>3. QED BY <1>1, <1>2

----------------------------------------------------------------------------
(* Theorems *)

\* A candidate has no text of a page that is refused.
LEMMA CandidateDeclines ==
    ASSUME [ReadingNext]_readingVars, NEW p \in BookPages, Refused(p), candidate' # candidate
    PROVE  candidate'[p] # "transcribed"
<1>1. candidate' = [q \in BookPages |-> Status(q)]
  BY DEF ReadingNext, TakePage, CallStopped, Write, Settle, Call, StartRun, EndPass, Kill,
         Assemble, Seed, CopyNext, readingVars
<1>2. QED BY <1>1 DEF Status

\* However many workers, limits, kills, runs and pages copied from elsewhere: a recorded refusal stays on record, no worker
\* takes its page again and no candidate has text of it (production.py:147-188, 322-363).
THEOREM RefusalsAreKept == ReadingSpec => RefusalsKept
<1>1. ReadingInv /\ SeedInv /\ [ReadingNext]_readingVars => ReadingInv' /\ SeedInv'
  BY ReadingStep, SeedStep
<1>2. ReadingInv /\ SeedInv /\ [ReadingNext]_readingVars =>
        \A p \in BookPages : Refused(p) /\ ~WorkedOn(p) =>
            /\ Refused(p)' /\ ~WorkedOn(p)'
            /\ candidate' # candidate => candidate'[p] # "transcribed"
  <2> SUFFICES ASSUME ReadingInv, SeedInv, [ReadingNext]_readingVars,
                      NEW p \in BookPages, Refused(p), ~WorkedOn(p)
               PROVE  /\ Refused(p)' /\ ~WorkedOn(p)'
                      /\ candidate' # candidate => candidate'[p] # "transcribed"
    OBVIOUS
  <2>1. p \notin jobs
    BY DEF ReadingInv, Taken
  <2>2. Refused(p)' /\ ~WorkedOn(p)'
    BY <2>1, ReadingStep, CopyInv DEF OthersStay
  <2>3. QED BY <2>2, CandidateDeclines
<1>3. QED BY <1>1, <1>2, ReadingInitInv, SeedInitInv, PTL DEF ReadingSpec, RefusalsKept

----------------------------------------------------------------------------
(* The votes of the crops *)

\* A list of lines.
Listed(t) == t \in Seq(Items(t))

Words == {line.word : line \in CropLines}

\* Lines that samples read in the crop, one of each, alike a wording that one of them read.
ReadAlike(c, key, by) ==
    /\ by \in [DOMAIN by -> CropLines] /\ DOMAIN by \subseteq Readers(c)
    /\ \A s \in DOMAIN by : by[s] \in Items(ballots[c][s]) /\ Alike(key, by[s].word)
    /\ \E s \in Readers(c) : \E read \in Items(ballots[c][s]) : key = read.word

Readings == UNION {[S -> CropLines] : S \in SUBSET (1..PageSamples)}
Piles(c) == {p \in [key : Words, by : Readings] : ReadAlike(c, p.key, p.by)}
VotesRead ==
    {v \in [crop : 1..Crops, key : Words, by : Readings] : ReadAlike(v.crop, v.key, v.by)}

BallotsTypeOK == ballots \in [1..Crops -> [1..PageSamples -> Seq(CropLines) \cup {Unread}]]

CursorTypeOK ==
    /\ cursor \in [crop : Nat \ {0}, sample : Nat \ {0}, line : Nat \ {0}]
    /\ cursor.crop <= Crops + 1

\* A group and a vote are what was read, and what has been listed is what landed on the text that the
\* votes of all crops corrected.
VotesInv ==
    /\ Listed(text) /\ BallotsTypeOK /\ CursorTypeOK
    /\ grouped \in Seq(Piles(cursor.crop))
    /\ cursor.crop > Crops => grouped = <<>>
    /\ votes \in Seq(VotesRead)
    /\ voted \in 0..Len(votes)
    /\ reviewed # <<>> =>
          /\ cursor.crop > Crops /\ voted = Len(votes)
          /\ reviewed = [c \in 1..Crops |->
                 UNION {{text[i] : i \in Lands(v)} : v \in {w \in Items(votes) : w.crop = c}}]

\* The first of some numbers is one of them.
LEMMA FirstIn ==
    ASSUME NEW S \in SUBSET Nat, S # {}
    PROVE  FirstOf(S) \in S
<1>1. \E m \in S : \A n \in S : m <= n
  BY NatMinimum
<1>2. QED BY <1>1 DEF FirstOf

\* What samples read is among the lines of the crops.
LEMMA ReadLines ==
    ASSUME BallotsTypeOK, NEW c \in 1..Crops, NEW s \in Readers(c)
    PROVE  /\ s \in 1..PageSamples /\ ballots[c][s] \in Seq(CropLines)
           /\ Items(ballots[c][s]) \subseteq CropLines
<1>1. s \in 1..PageSamples /\ ballots[c][s] \in Seq(CropLines)
  BY DEF Readers, BallotsTypeOK
<1>2. QED BY <1>1, ElementOfSeq DEF Items

\* Where a voted line lands it has the voted quantities, and is that line or has a wording alike.
LEMMA LandedLine ==
    ASSUME Listed(text), NEW v, NEW i \in Landed(v)
    PROVE  /\ i \in DOMAIN text /\ text[i].qty = VotedLine(v).qty
           /\ text[i] = VotedLine(v) \/ Alike(text[i].word, v.key)
<1> DEFINE line == VotedLine(v)
           stands == {j \in DOMAIN text : text[j] = line}
           alike == {j \in DOMAIN text : Alike(text[j].word, v.key) /\ text[j].qty = line.qty}
<1>1. DOMAIN text \subseteq Nat
  BY DEF Listed
<1>2. CASE stands # {}
  <2>1. Landed(v) = {FirstOf(stands)}
    BY <1>2 DEF Landed
  <2>2. FirstOf(stands) \in stands
    BY <1>1, <1>2, FirstIn
  <2>3. QED BY <2>1, <2>2
<1>3. CASE stands = {}
  <2>1. Landed(v) \subseteq alike
    BY <1>3 DEF Landed
  <2>2. QED BY <2>1
<1>4. QED BY <1>2, <1>3

\* A voted line that is not tied was read by most samples.
LEMMA VotedIsMostRead ==
    ASSUME BallotsTypeOK, NEW v \in VotesRead, ~Tied(v)
    PROVE  /\ VotedLine(v) \in CropLines /\ MostRead(v.crop, VotedLine(v))
           /\ \E s \in Readers(v.crop) : \E read \in Items(ballots[v.crop][s]) :
                 v.key = read.word /\ Alike(read.word, VotedLine(v).word)
<1>1. PICK c \in 1..Crops : c = v.crop
  BY DEF VotesRead
<1>2. PICK line : line = VotedLine(v)
  OBVIOUS
<1>3. PICK same : same = Same(v, Best(v))
  OBVIOUS
<1>4. PICK readers : readers = {s \in Readers(c) : line \in Items(ballots[c][s])}
  OBVIOUS
<1>5. ReadAlike(c, v.key, v.by)
  BY <1>1 DEF VotesRead
<1>6. \A s \in same : s \in DOMAIN v.by /\ v.by[s] = line
  BY <1>2, <1>3 DEF Same, VotedLine
<1>7. same \subseteq readers
  BY <1>4, <1>5, <1>6 DEF ReadAlike
<1>8. IsFiniteSet(Readers(c)) /\ IsFiniteSet(readers) /\ IsFiniteSet(same)
  <2>1. IsFiniteSet(1..PageSamples)
    <3>1. 1 \in Int /\ PageSamples \in Int
      BY VotesAssumption
    <3>2. QED BY <3>1, FS_Interval
  <2>2. Readers(c) \subseteq 1..PageSamples /\ readers \subseteq Readers(c)
    BY <1>4 DEF Readers
  <2>3. QED BY <2>1, <2>2, <1>7, FS_Subset
<1>9. /\ Cardinality(same) \in Nat /\ Cardinality(readers) \in Nat /\ Cardinality(Readers(c)) \in Nat
      /\ Cardinality(same) <= Cardinality(readers)
  BY <1>7, <1>8, FS_Subset, FS_CardinalityType
<1>10. /\ ~(Cardinality(same) < 2) /\ ~(2 * Cardinality(same) <= Cardinality(Readers(c)))
  BY <1>1, <1>3 DEF Tied, Tie, Support
<1>11. 2 * Cardinality(readers) > Cardinality(Readers(c))
  BY <1>9, <1>10
<1>12. PICK s \in same : TRUE
  <2>1. same # {}
    BY <1>10, FS_EmptySet
  <2>2. QED BY <2>1
<1>13. s \in Readers(c) /\ line \in Items(ballots[c][s]) /\ Alike(v.key, line.word)
  <2>1. s \in DOMAIN v.by /\ v.by[s] = line
    BY <1>6, <1>12
  <2>2. QED BY <2>1, <1>5 DEF ReadAlike
<1>14. line \in CropLines
  BY <1>13, ReadLines
<1>15. QED BY <1>1, <1>2, <1>4, <1>5, <1>11, <1>13, <1>14 DEF MostRead, ReadAlike

\* A sequence lists what is in it.
LEMMA SequenceListed ==
    ASSUME NEW S, NEW t \in Seq(S)
    PROVE  Listed(t)
<1> DEFINE T == Items(t)
<1>1. Len(t) \in Nat /\ t \in [1..Len(t) -> S] /\ DOMAIN t = 1..Len(t)
  BY LenProperties
<1>2. t \in [1..Len(t) -> T]
  BY <1>1 DEF Items
<1> HIDE DEF T
<1>3. t \in Seq(T)
  BY <1>1, <1>2, SeqDef
<1>4. QED BY <1>3 DEF Listed, T

\* A list stays one when a line of it is replaced or one more is appended.
LEMMA ListedAgain ==
    ASSUME NEW t, Listed(t), NEW line
    PROVE  /\ Listed(Append(t, line))
           /\ \A i \in DOMAIN t : Listed([t EXCEPT ![i] = line])
<1> DEFINE T == Items(t) \cup {line}
<1>1. t \in Seq(Items(t))
  BY DEF Listed
<1>2. t \in Seq(T) /\ line \in T
  BY <1>1, SeqMonotonic
<1> HIDE DEF T
<1>3. Append(t, line) \in Seq(T)
  BY <1>2
<1>4. \A i \in 1..Len(t) : [t EXCEPT ![i] = line] \in Seq(T)
  BY <1>2, ExceptSeq
<1>5. DOMAIN t = 1..Len(t)
  BY <1>2, LenProperties
<1>6. QED BY <1>3, <1>4, <1>5, SequenceListed

\* Where a vote lands depends on the text, on what was read and on what was rejected.
LEMMA LandsStay ==
    ASSUME UNCHANGED <<text, ballots, rejected>>, NEW v
    PROVE  Lands(v)' = Lands(v)
<1>1. Readers(v.crop)' = Readers(v.crop)
  BY DEF Readers
<1>2. Tied(v)' = Tied(v)
  BY <1>1 DEF Tied
<1>3. Landed(v)' = Landed(v)
  BY DEF Landed
<1>4. QED BY <1>2, <1>3 DEF Lands

\* What was read does not change.
LEMMA ReadStays ==
    ASSUME UNCHANGED ballots
    PROVE  /\ BallotsTypeOK' = BallotsTypeOK /\ VotesRead' = VotesRead
           /\ \A c : Piles(c)' = Piles(c)
<1>1. \A c : Readers(c)' = Readers(c)
  BY DEF Readers
<1>2. \A c, key, by : ReadAlike(c, key, by)' = ReadAlike(c, key, by)
  BY <1>1 DEF ReadAlike
<1>3. QED BY <1>2 DEF BallotsTypeOK, VotesRead, Piles

\* One more line joins the first group that takes it, or opens one.
LEMMA GroupFits ==
    ASSUME BallotsTypeOK, NEW c \in 1..Crops, grouped \in Seq(Piles(c)),
           NEW s \in Readers(c), NEW line \in Items(ballots[c][s])
    PROVE  Placed(s, line) \in Seq(Piles(c))
<1>1. s \in 1..PageSamples /\ line \in CropLines
  BY ReadLines
<1>2. CASE Joinable(s, line) = {}
  <2>1. PICK by : by = [r \in {s} |-> line]
    OBVIOUS
  <2>2. by \in [{s} -> CropLines] /\ DOMAIN by = {s} /\ by[s] = line
    BY <2>1, <1>1
  <2>3. by \in Readings /\ line.word \in Words /\ Alike(line.word, line.word)
    BY <2>2, <1>1, VotesAssumption DEF Readings, Words
  <2>4. ReadAlike(c, line.word, by)
    BY <2>2, <2>3 DEF ReadAlike
  <2>5. [key |-> line.word, by |-> by] \in Piles(c)
    BY <2>3, <2>4 DEF Piles
  <2>6. Placed(s, line) = Append(grouped, [key |-> line.word, by |-> by])
    BY <2>1, <1>2 DEF Placed
  <2>7. QED BY <2>5, <2>6
<1>3. CASE Joinable(s, line) # {}
  <2>1. PICK g : g = FirstOf(Joinable(s, line))
    OBVIOUS
  <2>2. g \in Joinable(s, line)
    <3>1. Joinable(s, line) \in SUBSET Nat
      BY DEF Joinable
    <3>2. QED BY <2>1, <3>1, <1>3, FirstIn
  <2>3. PICK p \in Piles(c) : p = grouped[g]
    <3>1. g \in 1..Len(grouped)
      BY <2>2 DEF Joinable
    <3>2. QED BY <3>1, ElementOfSeq
  <2>4. s \notin DOMAIN p.by /\ Alike(p.key, line.word) /\ g \in 1..Len(grouped)
    BY <2>2, <2>3 DEF Joinable
  <2>5. p \in [key : Words, by : Readings] /\ ReadAlike(c, p.key, p.by)
    BY <2>3 DEF Piles
  <2>6. PICK by : by = Added(p.by, s, line)
    OBVIOUS
  <2>7. /\ DOMAIN by = DOMAIN p.by \cup {s} /\ by[s] = line
        /\ \A r \in DOMAIN p.by : by[r] = p.by[r]
    BY <2>4, <2>6 DEF Added
  <2>8. by \in [DOMAIN by -> CropLines]
    <3>1. \A r \in DOMAIN p.by : p.by[r] \in CropLines
      BY <2>5 DEF ReadAlike
    <3>2. \A r \in DOMAIN p.by \cup {s} : (IF r = s THEN line ELSE p.by[r]) \in CropLines
      BY <3>1, <1>1
    <3>3. QED BY <3>2, <2>6, <2>7 DEF Added
  <2>9. DOMAIN by \subseteq Readers(c)
    BY <2>5, <2>7 DEF ReadAlike
  <2>10. by \in Readings
    <3>1. DOMAIN by \in SUBSET (1..PageSamples)
      BY <2>9 DEF Readers
    <3>2. QED BY <3>1, <2>8 DEF Readings
  <2>11. ReadAlike(c, p.key, by)
    <3>1. \A r \in DOMAIN by : by[r] \in Items(ballots[c][r]) /\ Alike(p.key, by[r].word)
      BY <2>4, <2>5, <2>7 DEF ReadAlike
    <3>2. \E r \in Readers(c) : \E read \in Items(ballots[c][r]) : p.key = read.word
      BY <2>5 DEF ReadAlike
    <3>3. QED BY <2>8, <2>9, <3>1, <3>2 DEF ReadAlike
  <2>12. PICK q : q = [p EXCEPT !.by = by]
    OBVIOUS
  <2>13. q \in Piles(c)
    <3>1. q \in [key : Words, by : Readings] /\ q.key = p.key /\ q.by = by
      BY <2>5, <2>10, <2>12
    <3>2. QED BY <3>1, <2>11 DEF Piles
  <2>14. Placed(s, line) = [grouped EXCEPT ![g] = q]
    BY <1>3, <2>1, <2>3, <2>6, <2>12 DEF Placed
  <2>15. QED BY <2>4, <2>13, <2>14, ExceptSeq
<1>4. QED BY <1>2, <1>3

\* Votes keep the text a list, and what is reviewed is the text at the end of them.
LEMMA VotesNextInv == VotesInv /\ [VotesNext]_voteVars => VotesInv'
<1> SUFFICES ASSUME VotesInv, [VotesNext]_voteVars PROVE VotesInv'
  OBVIOUS
<1>1. CASE UNCHANGED voteVars
  <2>1. \A v : Lands(v)' = Lands(v)
    BY <1>1, LandsStay DEF voteVars
  <2>2. VotesRead' = VotesRead /\ BallotsTypeOK' /\ Piles(cursor.crop)' = Piles(cursor.crop)
    BY <1>1, ReadStays DEF voteVars, VotesInv
  <2>3. QED BY <1>1, <2>1, <2>2 DEF voteVars, VotesInv, Listed, CursorTypeOK
<1>2. CASE GroupLine
  <2>1. /\ HasLine /\ UNCHANGED <<text, ballots, votes, voted, used, rejected, reviewed>>
        /\ cursor' = [cursor EXCEPT !.line = @ + 1]
        /\ grouped' = Placed(cursor.sample, ballots[cursor.crop][cursor.sample][cursor.line])
    BY <1>2 DEF GroupLine
  <2>2. PICK c \in 1..Crops : c = cursor.crop
    BY <2>1 DEF HasLine, VotesInv, CursorTypeOK
  <2>3. /\ cursor.sample \in Readers(c)
        /\ ballots[c][cursor.sample][cursor.line] \in Items(ballots[c][cursor.sample])
    BY <2>1, <2>2 DEF HasLine, Items
  <2>4. grouped' \in Seq(Piles(c))
    BY <2>1, <2>2, <2>3, GroupFits DEF VotesInv
  <2>5. cursor'.crop = c /\ CursorTypeOK'
    BY <2>1, <2>2 DEF VotesInv, CursorTypeOK
  <2>6. c <= Crops /\ reviewed = <<>>
    BY <2>2, VotesAssumption DEF VotesInv
  <2>7. grouped' \in Seq(Piles(cursor.crop)') /\ BallotsTypeOK' /\ VotesRead' = VotesRead
    <3>1. Piles(c)' = Piles(c)
      BY <2>1, ReadStays
    <3>2. QED BY <2>1, <2>4, <2>5, <3>1, ReadStays DEF VotesInv
  <2>8. ~(cursor'.crop > Crops) /\ reviewed' = <<>> /\ text' = text /\ votes' = votes /\ voted' = voted
    BY <2>1, <2>5, <2>6, VotesAssumption
  <2>9. QED BY <2>5, <2>7, <2>8 DEF VotesInv, Listed
<1>3. CASE NextSample
  <2>1. /\ cursor.crop <= Crops /\ cursor' = [cursor EXCEPT !.sample = @ + 1, !.line = 1]
        /\ UNCHANGED <<text, ballots, grouped, votes, voted, used, rejected, reviewed>>
    BY <1>3 DEF NextSample
  <2>2. cursor'.crop = cursor.crop /\ CursorTypeOK'
    <3>1. PICK k, n, l \in Nat \ {0} : cursor = [crop |-> k, sample |-> n, line |-> l]
      BY DEF VotesInv, CursorTypeOK
    <3>2. cursor' = [crop |-> k, sample |-> n + 1, line |-> 1]
      BY <2>1, <3>1
    <3>3. QED BY <3>1, <3>2 DEF VotesInv, CursorTypeOK
  <2>3. reviewed = <<>>
    BY <2>1, VotesAssumption DEF VotesInv, CursorTypeOK
  <2>4. QED BY <2>1, <2>2, <2>3, ReadStays DEF VotesInv, Listed
<1>4. CASE CloseGroup
  <2>1. /\ cursor.crop <= Crops /\ grouped # <<>> /\ grouped' = Tail(grouped)
        /\ UNCHANGED <<text, ballots, cursor, voted, used, rejected, reviewed>>
    BY <1>4 DEF CloseGroup
  <2>2. PICK c \in 1..Crops : c = cursor.crop
    BY <2>1 DEF VotesInv, CursorTypeOK
  <2>3. Head(grouped) \in Piles(c) /\ Tail(grouped) \in Seq(Piles(c))
    BY <2>1, <2>2, HeadTailProperties DEF VotesInv
  <2>4. PICK v : v = [crop |-> c, key |-> Head(grouped).key, by |-> Head(grouped).by]
    OBVIOUS
  <2>5. v \in VotesRead
    BY <2>3, <2>4 DEF Piles, VotesRead
  <2>6. votes' = votes \/ votes' = Append(votes, v)
    BY <1>4, <2>2, <2>4 DEF CloseGroup
  <2>7. votes' \in Seq(VotesRead) /\ voted \in 0..Len(votes')
    BY <2>5, <2>6, AppendProperties DEF VotesInv
  <2>8. reviewed = <<>>
    BY <2>1, VotesAssumption DEF VotesInv, CursorTypeOK
  <2>9. CursorTypeOK' /\ BallotsTypeOK' /\ VotesRead' = VotesRead /\ Piles(c)' = Piles(c)
    BY <2>1, ReadStays DEF VotesInv, CursorTypeOK
  <2>10. QED BY <2>1, <2>2, <2>3, <2>7, <2>8, <2>9 DEF VotesInv, Listed
<1>5. CASE NextCrop
  <2>1. /\ cursor.crop <= Crops /\ grouped = <<>>
        /\ cursor' = [crop |-> cursor.crop + 1, sample |-> 1, line |-> 1]
        /\ UNCHANGED <<text, ballots, grouped, votes, voted, used, rejected, reviewed>>
    BY <1>5 DEF NextCrop
  <2>2. CursorTypeOK' /\ reviewed = <<>>
    BY <2>1, VotesAssumption DEF VotesInv, CursorTypeOK
  <2>3. grouped' \in Seq(Piles(cursor.crop)') /\ grouped' = <<>>
    BY <2>1
  <2>4. QED BY <2>1, <2>2, <2>3, ReadStays DEF VotesInv, Listed
<1>6. CASE Vote
  <2>1. /\ cursor.crop > Crops /\ voted < Len(votes) /\ voted' = voted + 1
        /\ UNCHANGED <<ballots, cursor, grouped, votes, reviewed>>
    BY <1>6 DEF Vote
  <2>2. reviewed = <<>> /\ voted' \in 0..Len(votes)
    BY <2>1 DEF VotesInv
  <2>3. PICK v : v = votes[voted + 1]
    OBVIOUS
  <2>4. Listed(text')
    <3>1. CASE Patch(v)
      <4>1. PICK i, line : text' = [text EXCEPT ![i] = line] /\ i = FirstOf(Matching(v))
        BY <3>1 DEF Patch
      <4>2. Matching(v) # {} /\ Matching(v) \subseteq DOMAIN text /\ DOMAIN text \subseteq Nat
        BY <3>1 DEF Patch, Matching, VotesInv, Listed
      <4>3. i \in DOMAIN text
        BY <4>1, <4>2, FirstIn
      <4>4. QED BY <4>1, <4>3, ListedAgain DEF VotesInv
    <3>2. CASE AppendVote(v)
      BY <3>2, ListedAgain DEF AppendVote, VotesInv
    <3>3. QED BY <1>6, <2>3, <3>1, <3>2 DEF Vote
  <2>5. Listed(text)'
    BY <2>4 DEF Listed
  <2>6. CursorTypeOK'
    BY <2>1 DEF VotesInv, CursorTypeOK
  <2>7. QED BY <2>1, <2>2, <2>5, <2>6, ReadStays DEF VotesInv
<1>7. CASE Review
  <2>1. /\ UNCHANGED <<text, ballots, cursor, grouped, votes, voted, used, rejected>>
        /\ cursor.crop > Crops /\ voted = Len(votes)
        /\ reviewed' = [c \in 1..Crops |->
               UNION {{text[i] : i \in Lands(v)} : v \in {w \in Items(votes) : w.crop = c}}]
    BY <1>7 DEF Review
  <2>2. \A v : Lands(v)' = Lands(v)
    BY <2>1, LandsStay
  <2>3. reviewed' = [c \in 1..Crops |->
            UNION {{text'[i] : i \in Lands(v)'} : v \in {w \in Items(votes') : w.crop = c}}]
    BY <2>1, <2>2
  <2>4. CursorTypeOK' /\ BallotsTypeOK' /\ VotesRead' = VotesRead /\ Piles(cursor.crop)' = Piles(cursor.crop)
    BY <2>1, ReadStays DEF VotesInv, CursorTypeOK
  <2>5. QED BY <2>1, <2>3, <2>4 DEF VotesInv, Listed
<1>8. QED BY <1>1, <1>2, <1>3, <1>4, <1>5, <1>6, <1>7 DEF VotesNext

\* Groups and votes are what samples read, and what is listed as reviewed is what landed on the text
\* as every crop corrected it.
THEOREM VotesInvariant == VotesSpec => []VotesInv
<1>1. VotesInit => VotesInv
  <2> SUFFICES ASSUME VotesInit PROVE VotesInv
    OBVIOUS
  <2>1. Listed(text) /\ BallotsTypeOK
    BY VotesAssumption DEF VotesInit, Listed, BallotsTypeOK
  <2>2. /\ cursor = [crop |-> 1, sample |-> 1, line |-> 1] /\ grouped = <<>> /\ votes = <<>>
        /\ voted = 0 /\ reviewed = <<>>
    BY DEF VotesInit
  <2>3. QED BY <2>1, <2>2, VotesAssumption DEF VotesInv, CursorTypeOK
<1>2. QED BY <1>1, VotesNextInv, PTL DEF VotesSpec

\* What is listed as reviewed stands in the text, and most samples that read the crop read a line with
\* its quantities that is about the same.
THEOREM ReviewedReadByMost == VotesSpec => []ReviewedByMajority
<1>1. VotesInv => ReviewedByMajority
  <2> SUFFICES ASSUME VotesInv, NEW c \in DOMAIN reviewed, NEW line \in reviewed[c]
               PROVE  /\ line \in Items(text)
                      /\ \E seen \in CropLines :
                            seen.qty = line.qty /\ About(c, line, seen) /\ MostRead(c, seen)
    BY DEF ReviewedByMajority
  <2>1. reviewed # <<>>
    OBVIOUS
  <2>2. /\ c \in 1..Crops
        /\ reviewed[c] = UNION {{text[i] : i \in Lands(v)} : v \in {w \in Items(votes) : w.crop = c}}
    BY <2>1 DEF VotesInv
  <2>3. PICK v \in Items(votes) : v.crop = c /\ \E i \in Lands(v) : line = text[i]
    BY <2>2
  <2>4. PICK i \in Lands(v) : line = text[i]
    BY <2>3
  <2>5. v \in VotesRead
    <3>1. \A j \in 1..Len(votes) : votes[j] \in VotesRead
      BY ElementOfSeq DEF VotesInv
    <3>2. QED BY <2>3, <3>1 DEF Items, VotesInv
  <2>6. ~Tied(v) /\ i \in Landed(v)
    BY <2>4 DEF Lands
  <2>7. PICK seen : seen = VotedLine(v)
    OBVIOUS
  <2>8. i \in DOMAIN text /\ line.qty = seen.qty /\ (line = seen \/ Alike(line.word, v.key))
    BY <2>4, <2>6, <2>7, LandedLine DEF VotesInv
  <2>9. /\ seen \in CropLines /\ MostRead(c, seen)
        /\ \E s \in Readers(c) : \E read \in Items(ballots[c][s]) :
              v.key = read.word /\ Alike(read.word, seen.word)
    BY <2>3, <2>5, <2>6, <2>7, VotedIsMostRead DEF VotesInv
  <2>10. About(c, line, seen)
    BY <2>8, <2>9 DEF About
  <2>11. line \in Items(text)
    BY <2>4, <2>8 DEF Items
  <2>12. QED BY <2>8, <2>9, <2>10, <2>11
<1>2. QED BY <1>1, VotesInvariant, PTL

----------------------------------------------------------------------------
(* Builds and reviews: the inductive invariant *)

BuildFields == {"books", "forced", "candidates", "snapshot", "corrections", "review", "refresh",
                "pages"}

\* A page of a build: what was decided on it was decided on the result it has.
ItemFits(item) ==
    /\ DOMAIN item = {"id", "result", "decision", "text"}
    /\ item.id \in ReviewIds
    /\ item.decision \in Verdicts \cup {NoDecision}
    /\ item.decision = NoDecision =>
          item.text \in {item.result.text, "native"} \/ \E kind \in Verdicts : Decided(item, kind)
    /\ item.decision # NoDecision => Decided(item, item.decision)

BuildHolds(b) ==
    /\ DOMAIN b = BuildFields
    /\ \A k \in b.books : Source(k) \in DOMAIN OcrPagesOf
    /\ \A p \in DOMAIN b.pages : ItemFits(b.pages[p])

\* A decision that is kept was taken by somebody on the result it is about.
VerdictFits(id) == verdicts[id] # NoDecision =>
    /\ verdicts[id].kind \in Verdicts
    /\ [id |-> id, result |-> verdicts[id].about, kind |-> verdicts[id].kind] \in judged

RebuildInv ==
    /\ engine \in Engines
    /\ DOMAIN verdicts = ReviewIds /\ \A id \in ReviewIds : VerdictFits(id)
    /\ making # NoBuild => BuildHolds(making)
    /\ built # NoBuild => BuildHolds(built)
    /\ live # NoBuild => BuildHolds(live) /\ \A p \in DOMAIN live.pages : ~InDoubt(live.pages[p])

----------------------------------------------------------------------------
(* Pages *)

\* The text of a page that nobody decided on is the text it was recognized as.
LEMMA EffectiveFits ==
    ASSUME RebuildInv, NEW id \in ReviewIds
    PROVE  /\ ItemFits(Effective(id))
           /\ Effective(id).id = id /\ Effective(id).result = cache[id].result
<1> DEFINE item == Effective(id)
<1>1. /\ DOMAIN item = {"id", "result", "decision", "text"}
      /\ item.id = id /\ item.result = cache[id].result /\ item.decision = DecisionOf(id)
      /\ item.text = TextOf(cache[id].result, DecisionOf(id))
  BY DEF Effective
<1>2. VerdictFits(id)
  BY DEF RebuildInv
<1>3. CASE ~Stands(id)
  <2>1. item.decision = NoDecision
    BY <1>1, <1>3 DEF DecisionOf
  <2>2. TextOf(cache[id].result, NoDecision) = cache[id].result.text
    BY RebuildAssumption DEF TextOf
  <2> HIDE DEF item
  <2>3. QED BY <1>1, <2>1, <2>2 DEF ItemFits, item
<1>4. CASE Stands(id)
  <2>1. /\ item.decision = verdicts[id].kind /\ item.decision \in Verdicts
        /\ [id |-> id, result |-> cache[id].result, kind |-> item.decision] \in judged
    BY <1>1, <1>2, <1>4 DEF DecisionOf, Stands, VerdictFits
  <2>2. item.decision # NoDecision
    BY <2>1, RebuildAssumption
  <2> HIDE DEF item
  <2>3. QED BY <1>1, <2>1, <2>2 DEF ItemFits, Decided, item
<1>5. QED BY <1>1, <1>3, <1>4

\* The text layer in place of no text keeps a page as it should be.
LEMMA WithNativeFits ==
    ASSUME NEW item, ItemFits(item)
    PROVE  ItemFits(WithNative(item))
<1> DEFINE native == [item EXCEPT !.text = "native"]
<1>1. CASE item.result.text = "" /\ item.decision = NoDecision
  <2>1. /\ WithNative(item) = native /\ DOMAIN native = DOMAIN item
        /\ native.id = item.id /\ native.result = item.result
        /\ native.decision = item.decision /\ native.text = "native"
    BY <1>1 DEF WithNative, ItemFits
  <2> HIDE DEF native
  <2>2. QED BY <1>1, <2>1 DEF ItemFits
<1>2. CASE ~(item.result.text = "" /\ item.decision = NoDecision)
  BY <1>2 DEF WithNative
<1>3. QED BY <1>1, <1>2

\* Finalizing keeps what was decided, on the result that was decided on.
LEMMA RereadFits ==
    ASSUME RebuildInv, NEW item, ItemFits(item), cache[item.id].result = item.result
    PROVE  ItemFits(Reread(item))
<1> DEFINE current == Effective(item.id)
           kept == IF current.decision = NoDecision THEN item.text ELSE current.text
           next == Reread(item)
<1>1. /\ ItemFits(current) /\ current.id = item.id /\ current.result = item.result
  BY EffectiveFits DEF ItemFits
<1>2. next = [current EXCEPT !.text = kept]
  BY DEF Reread
<1> HIDE DEF current, kept, next
<1>3. /\ DOMAIN next = DOMAIN current /\ next.id = item.id /\ next.result = item.result
      /\ next.decision = current.decision /\ next.text = kept
  BY <1>1, <1>2 DEF ItemFits
<1>4. CASE current.decision = NoDecision
  <2>1. kept = item.text
    BY <1>4 DEF kept
  <2>2. \A kind : Decided(item, kind) => Decided(next, kind)
    BY <1>3, <2>1 DEF Decided
  <2>3. item.text \in {item.result.text, "native"} \/ \E kind \in Verdicts : Decided(item, kind)
    BY DEF ItemFits
  <2>4. QED BY <1>1, <1>3, <1>4, <2>1, <2>2, <2>3 DEF ItemFits, next
<1>5. CASE current.decision # NoDecision
  <2>1. kept = current.text
    BY <1>5 DEF kept
  <2>2. Decided(current, current.decision)
    BY <1>1, <1>5 DEF ItemFits
  <2>3. Decided(next, next.decision)
    BY <1>1, <1>3, <2>1, <2>2 DEF Decided
  <2>4. QED BY <1>1, <1>3, <1>5, <2>3 DEF ItemFits, next
<1>6. QED BY <1>4, <1>5

\* The next page of a build is a page of one of its sources.
LEMMA NextPageFits ==
    ASSUME RebuildInv, making # NoBuild, Left # {}
    PROVE  NextPage \in OcrPages
<1>1. Left \subseteq OcrPages
  <2> SUFFICES ASSUME NEW p \in Left PROVE p \in OcrPages
    OBVIOUS
  <2>1. PICK k \in making.books : p \in OcrPagesOf[Source(k)]
    BY DEF Left, Recognized
  <2>2. Source(k) \in DOMAIN OcrPagesOf
    BY DEF RebuildInv, BuildHolds
  <2>3. QED BY <2>1, <2>2 DEF OcrPages
<1>2. OcrPages \subseteq Nat
  BY RebuildAssumption DEF OcrPages
<1>3. \E p \in Left : \A q \in Left : p <= q
  BY <1>1, <1>2, NatMinimum
<1>4. NextPage \in Left
  BY <1>3 DEF NextPage
<1>5. QED BY <1>1, <1>4

\* What people decided is not forgotten, so builds hold on.
LEMMA HoldsOn ==
    ASSUME judged \subseteq judged'
    PROVE  \A b : BuildHolds(b) => BuildHolds(b)'
<1>1. \A item, kind : Decided(item, kind) => Decided(item, kind)'
  BY DEF Decided
<1>2. \A item : ItemFits(item) => ItemFits(item)'
  BY <1>1 DEF ItemFits
<1>3. QED BY <1>2 DEF BuildHolds

\* A step that takes no decision, and leaves what was decided, disturbs no verdict.
LEMMA VerdictsStay ==
    ASSUME RebuildInv, UNCHANGED <<verdicts, judged>>
    PROVE  /\ DOMAIN verdicts' = ReviewIds /\ \A id \in ReviewIds : VerdictFits(id)'
           /\ \A b : BuildHolds(b) => BuildHolds(b)'
<1>1. \A id \in ReviewIds : VerdictFits(id)'
  BY DEF RebuildInv, VerdictFits
<1>2. QED BY <1>1, HoldsOn DEF RebuildInv

\* A build that begins has no pages, and sources for its books.
LEMMA NewBuildHolds ==
    ASSUME NEW books, NEW forced, NEW candidates, NEW snap, NEW refresh,
           \A k \in books : Source(k) \in DOMAIN OcrPagesOf
    PROVE  BuildHolds(NewBuild(books, forced, candidates, snap, refresh))
  BY DEF BuildHolds, NewBuild, BuildFields

\* A step that takes no decision and leaves builds that hold preserves the invariant.
LEMMA NoDecisionTaken ==
    ASSUME RebuildInv, UNCHANGED <<verdicts, judged>>, engine' \in Engines,
           making' # NoBuild => BuildHolds(making'),
           built' # NoBuild => BuildHolds(built'),
           live' # NoBuild => BuildHolds(live') /\ \A p \in DOMAIN live'.pages : ~InDoubt(live'.pages[p])
    PROVE  RebuildInv'
<1>1. /\ making' # NoBuild => BuildHolds(making)'
      /\ built' # NoBuild => BuildHolds(built)'
      /\ live' # NoBuild => BuildHolds(live)'
  BY DEF BuildHolds, ItemFits, Decided
<1>2. QED BY <1>1, VerdictsStay DEF RebuildInv, InDoubt

\* What an owner may select has a source.
LEMMA SelectedHasSource ==
    ASSUME NEW books \in Selections, NEW k \in books, Selectable(k)
    PROVE  Source(k) \in DOMAIN OcrPagesOf
<1>1. FormatsOf[k] # {}
  BY FS_EmptySet DEF Selectable
<1>2. Format(k) \in FormatsOf[k]
  BY <1>1 DEF Format
<1>3. QED BY <1>2, RebuildAssumption DEF Source

\* A build begins with what an owner may approve.
LEMMA BuildKeeps == RebuildInv /\ Build => RebuildInv'
<1> SUFFICES ASSUME RebuildInv, Build PROVE RebuildInv'
  OBVIOUS
<1>1. PICK books \in Selections : \E forced \in SUBSET books :
        Admissible(books, forced, registered) /\ making' = NewBuild(books, forced, registered, snapshot, FALSE)
  BY DEF Build
<1>2. PICK forced \in SUBSET books :
        Admissible(books, forced, registered) /\ making' = NewBuild(books, forced, registered, snapshot, FALSE)
  BY <1>1
<1>3. \A k \in books : Source(k) \in DOMAIN OcrPagesOf
  BY <1>2, SelectedHasSource DEF Admissible
<1>4. BuildHolds(making')
  BY <1>2, <1>3, NewBuildHolds
<1>5. QED BY <1>4, NoDecisionTaken DEF Build, RebuildInv

\* A refresh begins with the books that are published.
LEMMA RefreshKeeps == RebuildInv /\ Refresh => RebuildInv'
<1> SUFFICES ASSUME RebuildInv, Refresh PROVE RebuildInv'
  OBVIOUS
<1>1. \A k \in live.books : Source(k) \in DOMAIN OcrPagesOf
  BY DEF Refresh, RebuildInv, BuildHolds
<1>2. BuildHolds(making')
  BY <1>1, NewBuildHolds DEF Refresh
<1>3. QED BY <1>2, NoDecisionTaken DEF Refresh, RebuildInv

\* The page that is read comes from the cache as it is.
LEMMA ReadPageKeeps == RebuildInv /\ ReadPage => RebuildInv'
<1> SUFFICES ASSUME RebuildInv, ReadPage PROVE RebuildInv'
  OBVIOUS
<1> DEFINE pages == [p \in DOMAIN making.pages \cup {NextPage} |->
                        IF p = NextPage THEN PageItem(p) ELSE making.pages[p]]
<1>1. BuildHolds(making) /\ NextPage \in OcrPages
  BY NextPageFits DEF ReadPage, RebuildInv
<1>2. ItemFits(PageItem(NextPage))
  <2>1. <<NextPage, engine>> \in ReviewIds
    BY <1>1 DEF RebuildInv, ReviewIds
  <2>2. QED BY <2>1, EffectiveFits, WithNativeFits DEF PageItem
<1>3. /\ DOMAIN making' = DOMAIN making /\ making'.books = making.books
      /\ making'.pages = pages
  BY <1>1 DEF ReadPage, BuildHolds, BuildFields
<1>4. \A p \in DOMAIN pages : ItemFits(pages[p])
  BY <1>1, <1>2 DEF BuildHolds
<1> HIDE DEF pages
<1>5. BuildHolds(making')
  BY <1>1, <1>3, <1>4 DEF BuildHolds
<1>6. QED BY <1>5, NoDecisionTaken DEF ReadPage, RebuildInv

\* A decision is about the result that the cache has.
LEMMA JudgeKeeps ==
    ASSUME RebuildInv, NEW p, NEW kind \in Verdicts, Judge(p, kind)
    PROVE  RebuildInv'
<1> DEFINE id == built.pages[p].id
           taken == [about |-> cache[id].result, kind |-> kind]
<1>1. id \in ReviewIds
  BY DEF Judge, RebuildInv, BuildHolds, ItemFits
<1>2. /\ verdicts' = [verdicts EXCEPT ![id] = taken]
      /\ judged' = judged \cup {[id |-> id, result |-> cache[id].result, kind |-> kind]}
      /\ UNCHANGED <<engine, making, built, live>>
  BY DEF Judge
<1>3. judged \subseteq judged'
  BY <1>2
<1>4. ASSUME NEW other \in ReviewIds PROVE VerdictFits(other)'
  <2>1. CASE other = id
    <3>1. /\ verdicts'[other] = taken
          /\ taken.about = cache[id].result /\ taken.kind = kind
      BY <1>1, <1>2, <2>1 DEF RebuildInv
    <3> HIDE DEF taken
    <3>2. [id |-> other, result |-> taken.about, kind |-> taken.kind] \in judged'
      BY <1>2, <2>1, <3>1
    <3>3. QED BY <3>1, <3>2 DEF VerdictFits
  <2>2. CASE other # id
    <3>1. verdicts'[other] = verdicts[other]
      BY <1>1, <1>2, <2>2 DEF RebuildInv
    <3>2. QED BY <1>3, <3>1 DEF RebuildInv, VerdictFits
  <2>3. QED BY <2>1, <2>2
<1>5. DOMAIN verdicts' = ReviewIds
  BY <1>2 DEF RebuildInv
<1>6. \A b : BuildHolds(b) => BuildHolds(b)'
  BY <1>3, HoldsOn
<1> HIDE DEF id, taken
<1>7. QED BY <1>2, <1>4, <1>5, <1>6 DEF RebuildInv, InDoubt

\* A finalized build takes in the decisions that stand.
LEMMA FinalizeKeeps ==
    ASSUME RebuildInv, NEW withReview, Finalize(withReview)
    PROVE  RebuildInv'
<1> DEFINE pages == [p \in DOMAIN built.pages |-> Reread(built.pages[p])]
<1>1. BuildHolds(built)
  BY DEF Finalize, RebuildInv
<1>2. /\ DOMAIN built' = DOMAIN built /\ built'.books = built.books
      /\ built'.pages = pages
  BY <1>1 DEF Finalize, BuildHolds, BuildFields
<1>3. ASSUME NEW p \in DOMAIN built.pages PROVE ItemFits(Reread(built.pages[p]))
  <2>1. ItemFits(built.pages[p])
    BY <1>1 DEF BuildHolds
  <2>2. cache[built.pages[p].id].result = built.pages[p].result
    BY DEF Finalize, Unaltered
  <2>3. QED BY <2>1, <2>2, RereadFits
<1>4. \A p \in DOMAIN pages : ItemFits(pages[p])
  BY <1>3
<1> HIDE DEF pages
<1>5. BuildHolds(built')
  BY <1>1, <1>2, <1>4 DEF BuildHolds
<1>6. QED BY <1>5, NoDecisionTaken DEF Finalize, RebuildInv

\* Every step of a build, of a person and of a publication preserves the invariant.
LEMMA RebuildNextInv == RebuildInv /\ [RebuildNext]_rebuildVars => RebuildInv'
<1> SUFFICES ASSUME RebuildInv, [RebuildNext]_rebuildVars PROVE RebuildInv'
  OBVIOUS
<1>1. CASE UNCHANGED rebuildVars
  BY <1>1, NoDecisionTaken DEF rebuildVars, RebuildInv
<1>2. CASE Build
  BY <1>2, BuildKeeps
<1>3. CASE Refresh
  BY <1>3, RefreshKeeps
<1>4. CASE Recognize \/ SaveResult
  BY <1>4, NoDecisionTaken DEF Recognize, SaveResult, RebuildInv
<1>5. CASE ReadPage
  BY <1>5, ReadPageKeeps
<1>6. CASE BuildDies \/ BuildEnds
  BY <1>6, NoDecisionTaken DEF BuildDies, BuildEnds, Read, RebuildInv
<1>7. CASE PublishBuild
  BY <1>7, NoDecisionTaken DEF PublishBuild, Gate, RebuildInv
<1>8. CASE PublishRefresh
  BY <1>8, NoDecisionTaken DEF PublishRefresh, Read, Gate, RebuildInv
<1>9. CASE OwnerEdits
  BY <1>9, NoDecisionTaken DEF OwnerEdits, RebuildInv
<1>10. CASE CacheChanges
  BY <1>10, NoDecisionTaken DEF CacheChanges, RebuildInv
<1>11. ASSUME NEW p \in OcrPages, NEW kind \in Verdicts, Judge(p, kind) PROVE RebuildInv'
  BY <1>11, JudgeKeeps
<1>12. ASSUME NEW withReview \in BOOLEAN, Finalize(withReview) PROVE RebuildInv'
  BY <1>12, FinalizeKeeps
<1>13. QED
  BY <1>1, <1>2, <1>3, <1>4, <1>5, <1>6, <1>7, <1>8, <1>9, <1>10, <1>11, <1>12 DEF RebuildNext

\* Every decision kept was taken on the result it names, and every page of a build, of what was
\* built and of what is published has the text of its result or the text somebody decided on.
THEOREM RebuildInvariant == RebuildSpec => []RebuildInv
<1>1. RebuildInit => RebuildInv
  BY RebuildAssumption DEF RebuildInit, RebuildInv, VerdictFits
<1>2. QED BY <1>1, RebuildNextInv, PTL DEF RebuildSpec

\* What is published was recognized, or decided on by somebody who saw what was recognized.
THEOREM PublishedReviewed == RebuildSpec => []ServedReviewed
<1>1. RebuildInv => ServedReviewed
  BY DEF RebuildInv, BuildHolds, ItemFits, InDoubt, ServedReviewed
<1>2. QED BY <1>1, RebuildInvariant, PTL

----------------------------------------------------------------------------
(* The scan of a document's blocks *)

\* What is read, and how far it covers what is not: a node that was not read is covered when it
\* is in one that was read and opens or hides a unit.
ScanInvariant ==
    /\ document \in Documents
    /\ row \in Nat /\ row <= document.size
    /\ covered \in Int
    /\ spans \subseteq 0..(row - 1)
    /\ \A n \in 0..(row - 1) : n \in spans <=> Outermost(n)
    /\ \A n \in Nodes : n >= row =>
           (n <= covered <=> \E k \in 0..(row - 1) : (Opens(k) \/ Hides(k)) /\ n <= LastIn(k))

\* The nesting of the document that is read.
LEMMA Nesting ==
    ASSUME document \in Documents
    PROVE  /\ document.size \in Nat
           /\ \A n \in Nodes : LastIn(n) \in Nodes /\ n <= LastIn(n)
           /\ \A m, n \in Nodes : m < n /\ n <= LastIn(m) => LastIn(n) <= LastIn(m)
BY DocumentsAssumption DEF DocumentsAssumption, Nodes, LastIn

\* At the start nothing is read.
LEMMA ScanBegins == ScanInit => ScanInvariant
<1> SUFFICES ASSUME ScanInit PROVE ScanInvariant
    OBVIOUS
<1>1. document.size \in Nat
    BY Nesting DEF ScanInit
<1> QED
    BY <1>1 DEF ScanInit, ScanInvariant, Nodes

\* A row is taken exactly when it is outermost: what covers it is what is around it.
LEMMA TakenWhenOutermost ==
    ASSUME ScanInvariant, Reads
    PROVE  Outermost(row) <=> Opens(row) /\ ~CoveredRow(row)
<1>1. document.size \in Nat /\ row \in Nodes
    BY Nesting DEF ScanInvariant, Reads, Nodes
<1>2. row <= covered <=> \E k \in 0..(row - 1) : (Opens(k) \/ Hides(k)) /\ row <= LastIn(k)
    BY <1>1 DEF ScanInvariant
<1>3. 0..(row - 1) = {k \in Nodes : k < row}
    BY <1>1 DEF Nodes
<1> QED
    BY <1>2, <1>3 DEF Outermost, CoveredRow

\* Each step keeps the invariant.
LEMMA ScanContinues == ScanInvariant /\ [ScanNext]_scanVars => ScanInvariant'
<1> SUFFICES ASSUME ScanInvariant, [ScanNext]_scanVars PROVE ScanInvariant'
    OBVIOUS
<1>1. CASE UNCHANGED scanVars
    BY <1>1 DEF ScanInvariant, scanVars, Nodes, LastIn, KindAt, Opens, Hides, Outermost
<1>2. CASE ScanNext
  <2>1. Reads /\ NextRow
      BY <1>2 DEF ScanNext, Hide, Pass, Take
  <2>2. /\ document.size \in Nat /\ row \in Nat /\ row \in Nodes
        /\ \A n \in Nodes : LastIn(n) \in Nodes /\ n <= LastIn(n)
        /\ \A m, n \in Nodes : m < n /\ n <= LastIn(m) => LastIn(n) <= LastIn(m)
      BY <2>1, Nesting DEF ScanInvariant, Reads, Nodes
  <2>3. /\ document' = document /\ scan' = scan /\ row' = row + 1
        /\ row' \in Nat /\ row' <= document.size
      BY <2>1, <2>2 DEF NextRow, Reads, ScanInvariant
  <2>4. /\ Nodes' = Nodes
        /\ \A n : Opens(n)' = Opens(n) /\ Hides(n)' = Hides(n) /\ LastIn(n)' = LastIn(n)
        /\ \A n : Outermost(n)' = Outermost(n)
      BY <2>3 DEF Nodes, LastIn, KindAt, Opens, Hides, Outermost
  <2>5. Outermost(row) <=> Opens(row) /\ ~CoveredRow(row)
      BY <2>1, TakenWhenOutermost
  <2>6. 0..(row' - 1) = (0..(row - 1)) \cup {row}
      BY <2>2, <2>3
  <2>7. /\ spans' = spans \cup {n \in {row} : Outermost(row)}
        /\ covered' \in Int
    <3>1. CASE Hide
        BY <3>1, <2>2, KindsAssumption
        DEF Hide, Outermost, Opens, Hides, ScanInvariant, Nodes, KindsAssumption
    <3>2. CASE Pass
        BY <3>2, <2>5 DEF Pass, ScanInvariant
    <3>3. CASE Take
        BY <3>3, <2>2, <2>5 DEF Take, Nodes
    <3> QED
        BY <1>2, <3>1, <3>2, <3>3 DEF ScanNext
  <2>8. spans' \subseteq 0..(row' - 1) /\ \A n \in 0..(row' - 1) : n \in spans' <=> Outermost(n)
      BY <2>2, <2>6, <2>7 DEF ScanInvariant
  <2>9. ASSUME NEW n \in Nodes, n >= row'
        PROVE  n <= covered' <=> \E k \in 0..(row' - 1) : (Opens(k) \/ Hides(k)) /\ n <= LastIn(k)
    <3> DEFINE around(k) == (Opens(k) \/ Hides(k)) /\ n <= LastIn(k)
    <3>1. n > row /\ n \in Int
        BY <2>2, <2>3, <2>9 DEF Nodes
    <3>2. n <= covered <=> \E k \in 0..(row - 1) : around(k)
        BY <3>1, <2>2 DEF ScanInvariant
    <3>3. (\E k \in 0..(row' - 1) : around(k)) <=> (\E k \in 0..(row - 1) : around(k)) \/ around(row)
        BY <2>6
    \* What covers this row covers all of it.
    <3>4. ASSUME row <= covered, n <= LastIn(row) PROVE n <= covered
      <4>1. PICK k \in 0..(row - 1) : (Opens(k) \/ Hides(k)) /\ row <= LastIn(k)
          BY <3>4, <2>2 DEF ScanInvariant
      <4>2. k \in Nodes /\ k < row
          BY <2>2 DEF Nodes
      <4>3. LastIn(row) <= LastIn(k)
          BY <4>1, <4>2, <2>2
      <4>4. n <= LastIn(k)
          BY <4>2, <4>3, <3>1, <3>4, <2>2 DEF Nodes
      <4> QED
          BY <4>1, <4>4, <3>2
    <3>5. CASE Hide
      <4>1. Hides(row) /\ (n <= covered' <=> n <= covered \/ n <= LastIn(row))
          BY <3>5, <3>1, <2>2 DEF Hide, ScanInvariant, Nodes
      <4> QED
          BY <4>1, <3>2, <3>3
    <3>6. CASE Pass
      <4>1. covered' = covered /\ ~Hides(row) /\ (row <= covered \/ ~Opens(row))
          BY <3>6 DEF Pass, CoveredRow
      <4> QED
          BY <4>1, <3>2, <3>3, <3>4
    <3>7. CASE Take
      <4>1. covered' = LastIn(row) /\ Opens(row) /\ ~(row <= covered)
          BY <3>7 DEF Take, CoveredRow
      <4>2. ~(n <= covered)
          BY <4>1, <3>1, <2>2 DEF ScanInvariant, Nodes
      <4> QED
          BY <4>1, <4>2, <3>2, <3>3
    <3> QED
        BY <1>2, <3>5, <3>6, <3>7 DEF ScanNext
  <2> QED
      BY <2>3, <2>4, <2>7, <2>8, <2>9 DEF ScanInvariant
<1> QED
    BY <1>1, <1>2 DEF ScanNext

\* Outermost blocks do not overlap, so what was read is in one of them at most.
LEMMA InvariantSuffices == ScanInvariant => TextOnce
<1> SUFFICES ASSUME ScanInvariant, NEW n \in Nodes, n < row
             PROVE  /\ \A u, v \in spans : Holds(n, u) /\ Holds(n, v) => u = v
                    /\ \A u \in Nodes : Holds(n, u) => (u \in spans <=> Outermost(u))
    BY DEF TextOnce
<1>1. /\ document.size \in Nat /\ row \in Nat
      /\ \A m \in Nodes : LastIn(m) \in Nodes
    BY Nesting DEF ScanInvariant
<1>2. spans \subseteq Nodes /\ \A u \in spans : Outermost(u)
    BY <1>1 DEF ScanInvariant, Nodes
<1>3. ASSUME NEW u \in spans, NEW v \in spans, Holds(n, u), Holds(n, v), u < v PROVE FALSE
  <2>1. u \in Nodes /\ v \in Nodes /\ v <= LastIn(u)
      BY <1>1, <1>2, <1>3 DEF Holds, Nodes
  <2> QED
      BY <2>1, <1>2, <1>3 DEF Outermost
<1>4. \A u, v \in spans : Holds(n, u) /\ Holds(n, v) => u = v
    BY <1>1, <1>2, <1>3 DEF Nodes
<1>5. ASSUME NEW u \in Nodes, Holds(n, u) PROVE u \in spans <=> Outermost(u)
  <2>1. u \in 0..(row - 1)
      BY <1>1, <1>5 DEF Holds, Nodes
  <2> QED
      BY <2>1 DEF ScanInvariant
<1> QED
    BY <1>4, <1>5

\* Whatever the document, what has been read is in one unit at most, the outermost that takes it.
THEOREM ReadOnce == ScanSpec => []TextOnce
<1>1. ScanSpec => []ScanInvariant
    BY ScanBegins, ScanContinues, PTL DEF ScanSpec
<1> QED
    BY <1>1, InvariantSuffices, PTL

----------------------------------------------------------------------------
(* The whole-book model: the inductive invariant *)

\* What a build and a model are made of.
BuildShaped(b) == DOMAIN b = {"index", "epub", "scan", "model"}
ModelShaped(m) ==
    DOMAIN m = {"pub", "editions", "entities", "units", "snapshot", "report", "keyword"}

\* A keyword index belongs to a publication that was indexed itself.
KeywordFits(keyword) == keyword # NoModel =>
    /\ keyword.pub \in Pubs /\ HasModel(keyword.pub)
    /\ builds[keyword.pub].model.keyword = NoModel
    /\ builds[keyword.pub].model.units = keyword.units

\* A model with the snapshot of another reads as that one.
SameAs(model, q) == HasModel(q) /\ builds[q].model.snapshot = model.snapshot =>
    builds[q].model.units = model.units /\ builds[q].model.entities = model.entities

\* A model that bears the identity of publication p, of a build of the books epub.
ModelFits(model, p, epub) ==
    /\ ModelShaped(model)
    /\ model.pub = p /\ model.report = p /\ model.editions = epub
    /\ model.snapshot[1] \in Nat /\ model.snapshot[1] <= p
    /\ KeywordFits(model.keyword)
    /\ \A q \in Pubs : SameAs(model, q)

BuildFits(p) ==
    /\ BuildShaped(builds[p]) /\ builds[p].index = p
    /\ HasModel(p) => ModelFits(builds[p].model, p, builds[p].epub)

NativeInv ==
    /\ \E n \in Nat : Pubs = 1..n
    /\ profile \in Nat
    /\ online \subseteq Pubs
    /\ \A p \in Pubs : BuildFits(p)

----------------------------------------------------------------------------

\* Publication ids are numbered as the builds are made.
LEMMA PubsNumbered ==
    ASSUME NativeInv
    PROVE  NewPub \in Nat \ {0} /\ Pubs = 1..(NewPub - 1) /\ NewPub \notin Pubs
<1>1. PICK n \in Nat : Pubs = 1..n
  BY DEF NativeInv
<1>2. Cardinality(1..n) = n
  BY FS_Interval
<1>3. NewPub = n + 1
  BY <1>1, <1>2 DEF NewPub
<1>4. QED BY <1>1, <1>3

\* A build that is added disturbs no other, if what it holds stands by itself.
LEMMA AddFits ==
    ASSUME NativeInv, NEW build, Add(build), BuildShaped(build), build.index = NewPub,
           build.model # NoModel => ModelFits(build.model, NewPub, build.epub)
    PROVE  Pubs \subseteq Pubs' /\ (\E n \in Nat : Pubs' = 1..n) /\ \A p \in Pubs' : BuildFits(p)'
<1> SUFFICES ASSUME NEW new, new = NewPub
             PROVE  Pubs \subseteq Pubs' /\ (\E n \in Nat : Pubs' = 1..n) /\ \A p \in Pubs' : BuildFits(p)'
  OBVIOUS
<1>1. new \in Nat \ {0} /\ Pubs = 1..(new - 1) /\ new \notin Pubs
  BY PubsNumbered
<1>2. builds' = [p \in Pubs \cup {new} |-> IF p = new THEN build ELSE builds[p]]
  BY DEF Add
<1>3. Pubs' = Pubs \cup {new} /\ builds'[new] = build /\ \A p \in Pubs : builds'[p] = builds[p]
  BY <1>1, <1>2 DEF Pubs
<1>4. \E n \in Nat : Pubs' = 1..n
  <2>1. Pubs' = 1..new
    BY <1>1, <1>3
  <2>2. QED BY <2>1, <1>1
<1>5. \A keyword : KeywordFits(keyword) => KeywordFits(keyword)'
  BY <1>3 DEF KeywordFits, HasModel
<1>6. HasModel(new)' => ModelFits(build.model, new, build.epub)
  BY <1>3 DEF HasModel
<1>7. ASSUME NEW p \in Pubs, HasModel(p), HasModel(new)',
             build.model.snapshot = builds[p].model.snapshot
      PROVE  /\ build.model.units = builds[p].model.units
             /\ build.model.entities = builds[p].model.entities
  BY <1>6, <1>7 DEF ModelFits, SameAs
<1>8. ASSUME NEW p \in Pubs PROVE BuildFits(p)'
  <2>1. BuildFits(p) /\ builds'[p] = builds[p]
    BY <1>3 DEF NativeInv
  <2>2. ASSUME HasModel(p), NEW q \in Pubs' PROVE SameAs(builds[p].model, q)'
    <3>1. CASE q \in Pubs
      BY <3>1, <2>1, <2>2, <1>3 DEF BuildFits, ModelFits, SameAs, HasModel
    <3>2. CASE q = new
      BY <3>2, <2>2, <1>3, <1>7 DEF SameAs
    <3>3. QED BY <3>1, <3>2, <1>3
  <2>3. HasModel(p) => ModelFits(builds[p].model, p, builds[p].epub)'
    BY <2>1, <2>2, <1>5 DEF BuildFits, ModelFits
  <2>4. QED BY <2>1, <2>3 DEF BuildFits, HasModel
<1>9. BuildFits(new)'
  <2>1. ASSUME HasModel(new)', NEW q \in Pubs' PROVE SameAs(build.model, q)'
    <3>1. CASE q \in Pubs
      BY <3>1, <2>1, <1>3, <1>6 DEF ModelFits, SameAs, HasModel
    <3>2. CASE q = new
      BY <3>2, <1>3 DEF SameAs
    <3>3. QED BY <3>1, <3>2, <1>3
  <2>2. HasModel(new)' => ModelFits(build.model, new, build.epub)'
    BY <2>1, <1>5, <1>6 DEF ModelFits
  <2>3. QED BY <2>2, <1>3 DEF BuildFits, HasModel
<1>10. QED BY <1>3, <1>4, <1>8, <1>9

\* A snapshot of a new publication is no other's.
LEMMA NewSnapshot ==
    ASSUME NativeInv, NEW model, model.snapshot[1] = NewPub, NEW q \in Pubs
    PROVE  SameAs(model, q)
<1>1. NewPub \in Nat /\ q \in Nat /\ q < NewPub
  BY PubsNumbered
<1>2. HasModel(q) => builds[q].model.snapshot[1] \in Nat /\ builds[q].model.snapshot[1] <= q
  BY DEF NativeInv, BuildFits, ModelFits
<1>3. QED BY <1>1, <1>2 DEF SameAs

\* Every build, and every model that is made, shared or published, preserves the invariant.
LEMMA NativeNextInv == NativeInv /\ [NativeNext]_nativeVars => NativeInv'
<1> SUFFICES ASSUME NativeInv, [NativeNext]_nativeVars PROVE NativeInv'
  OBVIOUS
<1>0. NewPub \in Nat
  BY PubsNumbered
<1>1. CASE UNCHANGED nativeVars
  BY <1>1 DEF nativeVars, NativeInv, Pubs, BuildFits, HasModel, ModelFits, KeywordFits, SameAs
<1>2. ASSUME NEW shelf \in Shelves, SourceBuild(shelf) PROVE NativeInv'
  <2> DEFINE build == [index |-> NewPub, epub |-> shelf.epub, scan |-> shelf.scan, model |-> NoModel]
  <2>1. Add(build) /\ UNCHANGED <<profile, online>>
    BY <1>2 DEF SourceBuild
  <2>2. BuildShaped(build) /\ build.index = NewPub /\ build.model = NoModel
    BY DEF BuildShaped
  <2> HIDE DEF build
  <2>3. QED BY <2>1, <2>2, AddFits DEF NativeInv
<1>3. ASSUME NEW p \in Pubs, NEW found \in Evidence, Structure(p, found) PROVE NativeInv'
  <2> DEFINE model == Model(builds[p].epub, found.entities, <<NewPub, 0>>)
             build == [builds[p] EXCEPT !.index = NewPub, !.model = model]
  <2>1. Add(build) /\ UNCHANGED <<profile, online>>
    BY <1>3 DEF Structure
  <2>2. BuildShaped(builds[p])
    BY DEF NativeInv, BuildFits
  <2>3. /\ ModelShaped(model) /\ model.pub = NewPub /\ model.report = NewPub
        /\ model.editions = builds[p].epub /\ model.snapshot = <<NewPub, 0>>
        /\ model.keyword = NoModel
    BY DEF Model, ModelShaped
  <2> HIDE DEF model
  <2>4. BuildShaped(build) /\ build.index = NewPub /\ build.model = model /\ build.epub = builds[p].epub
    BY <2>2 DEF BuildShaped
  <2> HIDE DEF build
  <2>5. model.snapshot[1] = NewPub /\ NewPub <= NewPub
    BY <2>3, <1>0
  <2>6. ModelFits(model, NewPub, build.epub)
    BY <2>3, <2>4, <2>5, <1>0, NewSnapshot DEF ModelFits, KeywordFits
  <2>7. QED BY <2>1, <2>4, <2>6, AddFits DEF NativeInv
<1>4. ASSUME NEW p \in Pubs, InterpretModel(p) PROVE NativeInv'
  <2>0. PICK found \in SUBSET FoundBy(builds[p].model.editions) :
          Add([builds[p] EXCEPT !.index = NewPub,
               !.model = [builds[p].model EXCEPT !.pub = NewPub, !.report = NewPub,
                             !.entities = Interpretation(builds[p].model, found),
                             !.units = UnitsFor(builds[p].model.editions, Interpretation(builds[p].model, found)),
                             !.snapshot = <<NewPub, profile>>]])
    BY <1>4 DEF InterpretModel
  <2> DEFINE old == builds[p].model
             entities == Interpretation(old, found)
             model == [old EXCEPT !.pub = NewPub, !.report = NewPub, !.entities = entities,
                                  !.units = UnitsFor(old.editions, entities),
                                  !.snapshot = <<NewPub, profile>>]
             build == [builds[p] EXCEPT !.index = NewPub, !.model = model]
  <2>1. HasModel(p) /\ Add(build) /\ UNCHANGED <<profile, online>>
    BY <1>4, <2>0 DEF InterpretModel
  <2>2. BuildShaped(builds[p]) /\ ModelFits(old, p, builds[p].epub)
    BY <2>1 DEF NativeInv, BuildFits
  <2> HIDE DEF entities, old
  <2>3. /\ ModelShaped(model) /\ model.pub = NewPub /\ model.report = NewPub
        /\ model.editions = builds[p].epub /\ model.snapshot = <<NewPub, profile>>
        /\ model.keyword = old.keyword
    BY <2>2 DEF ModelFits, ModelShaped
  <2> HIDE DEF model
  <2>4. BuildShaped(build) /\ build.index = NewPub /\ build.model = model /\ build.epub = builds[p].epub
    BY <2>2 DEF BuildShaped
  <2> HIDE DEF build
  <2>5. model.snapshot[1] = NewPub /\ NewPub <= NewPub
    BY <2>3, <1>0
  <2>6. KeywordFits(model.keyword)
    BY <2>2, <2>3 DEF ModelFits
  <2>7. ModelFits(model, NewPub, build.epub)
    BY <2>3, <2>4, <2>5, <2>6, <1>0, NewSnapshot DEF ModelFits
  <2>8. QED BY <2>1, <2>4, <2>7, AddFits DEF NativeInv
<1>5. ASSUME NEW p \in Pubs, NEW q \in online, Retain(p, q) PROVE NativeInv'
  <2> DEFINE old == builds[q].model
             model == [old EXCEPT !.pub = NewPub, !.report = NewPub, !.keyword = KeywordOf(q)]
             build == [builds[p] EXCEPT !.index = NewPub, !.model = model]
  <2>1. HasModel(q) /\ Add(build) /\ UNCHANGED <<profile, online>> /\ builds[p].epub = old.editions
    BY <1>5 DEF Retain, SameEditions
  <2>2. q \in Pubs /\ BuildShaped(builds[p]) /\ ModelFits(old, q, builds[q].epub)
    BY <2>1 DEF NativeInv, BuildFits
  <2>3. KeywordFits(KeywordOf(q))
    BY <2>1, <2>2 DEF KeywordOf, KeywordFits, ModelFits
  <2> HIDE DEF old
  <2>4. /\ ModelShaped(model) /\ model.pub = NewPub /\ model.report = NewPub
        /\ model.editions = builds[p].epub /\ model.snapshot = old.snapshot
        /\ model.units = old.units /\ model.entities = old.entities
        /\ model.keyword = KeywordOf(q)
    BY <2>1, <2>2 DEF ModelFits, ModelShaped
  <2> HIDE DEF model
  <2>5. BuildShaped(build) /\ build.index = NewPub /\ build.model = model /\ build.epub = builds[p].epub
    BY <2>2 DEF BuildShaped
  <2> HIDE DEF build
  <2>6. model.snapshot[1] \in Nat /\ model.snapshot[1] <= NewPub
    <3>1. q \in Nat /\ q < NewPub
      BY <2>2, PubsNumbered
    <3>2. QED BY <2>2, <2>4, <3>1, <1>0 DEF ModelFits
  <2>7. \A x \in Pubs : SameAs(model, x)
    BY <2>2, <2>4 DEF ModelFits, SameAs
  <2>8. ModelFits(model, NewPub, build.epub)
    BY <2>3, <2>4, <2>5, <2>6, <2>7 DEF ModelFits
  <2>9. QED BY <2>1, <2>5, <2>8, AddFits DEF NativeInv
<1>6. ASSUME NEW p \in Pubs, PublishModel(p) PROVE NativeInv'
  BY <1>6 DEF PublishModel, NativeInv, Pubs, BuildFits, HasModel, ModelFits, KeywordFits, SameAs
<1>7. CASE NewProfile
  BY <1>7 DEF NewProfile, NativeInv, Pubs, BuildFits, HasModel, ModelFits, KeywordFits, SameAs
<1>8. QED BY <1>1, <1>2, <1>3, <1>4, <1>5, <1>6, <1>7 DEF NativeNext

LEMMA NativeInitInv == NativeInit => NativeInv
<1> SUFFICES ASSUME NativeInit PROVE NativeInv
  OBVIOUS
<1>1. Pubs = {} /\ 0 \in Nat /\ 1..0 = {}
  BY DEF NativeInit, Pubs
<1>2. QED BY <1>1 DEF NativeInit, NativeInv

\* Every model fits the build it is in, and those it shares a snapshot or an index with.
THEOREM NativeInvariant == NativeSpec => []NativeInv
  BY NativeInitInv, NativeNextInv, PTL DEF NativeSpec

\* The model of a publication is of the books its index was built from, models with one
\* snapshot read the same, and a shared keyword index is that of a publication indexed itself
\* (book_build.py:508-514, 552-583).
THEOREM ModelStands == NativeSpec => []NativeModelStands
<1>1. NativeInv => NativeModelStands
  <2> SUFFICES ASSUME NativeInv PROVE NativeModelStands
    OBVIOUS
  <2>1. ASSUME NEW p \in online, HasModel(p)
        PROVE  ModelFits(builds[p].model, p, builds[p].epub) /\ builds[p].index = p
    BY <2>1 DEF NativeInv, BuildFits
  <2>2. ASSUME NEW p \in online, HasModel(p), builds[p].model.keyword # NoModel
        PROVE  LET first == builds[builds[p].model.keyword.pub].model IN
               /\ first.keyword = NoModel /\ first.units = builds[p].model.keyword.units
               /\ first.snapshot = builds[p].model.snapshot => first.units = builds[p].model.units
    <3>1. PICK q \in Pubs : /\ HasModel(q) /\ q = builds[p].model.keyword.pub
                            /\ builds[q].model.keyword = NoModel
                            /\ builds[q].model.units = builds[p].model.keyword.units
      BY <2>1, <2>2 DEF ModelFits, KeywordFits
    <3>2. SameAs(builds[p].model, q)
      BY <2>1, <2>2, <3>1 DEF ModelFits
    <3>3. QED BY <3>1, <3>2 DEF SameAs
  <2>3. QED BY <2>1, <2>2 DEF NativeModelStands, ModelFits, SameAs
<1>2. QED BY <1>1, NativeInvariant, PTL

----------------------------------------------------------------------------
(* Saved evidence of a scan *)

SavedNodes == DOMAIN savedScan.nodes
WalkStep == [node : SavedNodes, next : Nat \ {0}]
Ended == adapting.phase \in {"accepted", "invalid"}
Entering == {trail[k].node : k \in DOMAIN trail}

AdaptingTyped == [phase : {"check", "walk", "outside", "accepted", "invalid", "refused"},
             roots : Seq(ToSet(savedScan.roots)), outside : SUBSET SavedNodes]

SnapshotShape ==
    adapted = [blocks |-> adapted.blocks, parents |-> adapted.parents, cells |-> adapted.cells,
               diagnoses |-> adapted.diagnoses]

DocTyped ==
    /\ savedScan \in SavedScans
    /\ adapting \in AdaptingTyped
    /\ visited \subseteq SavedNodes
    /\ trail \in Seq(WalkStep)
    /\ SnapshotShape

\* The trail goes down from node to child; a node is on it once.  The nodes that are not entered
\* are still to come, and the end is reached only when none are.
TrailHolds ==
    /\ \A k \in DOMAIN trail :
           /\ trail[k].node \in visited /\ trail[k].next <= Len(Node(trail[k].node).below) + 1
           /\ k < Len(trail) => /\ trail[k].next > 1
                                /\ Node(trail[k].node).below[trail[k].next - 1] = trail[k + 1].node
    /\ \A j, k \in DOMAIN trail : trail[j].node = trail[k].node => j = k
    /\ adapting.phase = "outside" => adapting.outside \cup visited = SavedNodes
    /\ Ended => visited = SavedNodes /\ trail = <<>>

\* The block of a node on a page.
BlockOf(b) == [id |-> b, lines |-> LinesFor(b)]

\* Nodes entered have their blocks, and tables their cells and diagnoses; until the scan ends there
\* are no others.
BlocksHold ==
    /\ \A n \in visited : \A b \in BlocksFor(n) :
           /\ BlockOf(b) \in adapted.blocks
           /\ IsTable(n) => CellsOf(b) \subseteq adapted.cells /\ TableDiagnoses(b) \subseteq adapted.diagnoses
    /\ ~Ended => \A x \in adapted.blocks : \E n \in visited : \E b \in BlocksFor(n) : x = BlockOf(b)
    /\ \A c \in adapted.cells : \E n \in visited : \E b \in BlocksFor(n) : IsTable(n) /\ c \in CellsOf(b)

\* The children of node n before the i-th hang from it.
Hung(n, i) == \A j \in DOMAIN Node(n).below : j < i => Hang(n, Node(n).below[j]) \subseteq adapted.parents

\* Of a node on the trail all children hang but the one above it; of one that was left, all do.
\* Only nodes that were left hang, each from one node.
ParentsHold ==
    /\ \A k \in DOMAIN trail :
           Hung(trail[k].node, IF k < Len(trail) THEN trail[k].next - 1 ELSE trail[k].next)
    /\ \A n \in visited \ Entering : Hung(n, Len(Node(n).below) + 1)
    /\ \A e \in adapted.parents : \E m \in visited, n \in visited \ Entering : e \in Hang(m, n)
    /\ \A e, f \in adapted.parents : e[2] = f[2] => e = f

DocInv == DocTyped /\ TrailHolds /\ BlocksHold /\ ParentsHold

LEMMA DocInitInv == DocInit => DocInv
<1> SUFFICES ASSUME DocInit PROVE DocInv
  OBVIOUS
<1>1. savedScan \in SavedScans /\ savedScan.roots \in Seq(ToSet(savedScan.roots))
  BY EvidenceAssumption DEF DocInit
<1>2. /\ adapted = [blocks |-> {}, parents |-> {}, cells |-> {}, diagnoses |-> {}]
      /\ adapting = [phase |-> "check", roots |-> savedScan.roots, outside |-> {}]
      /\ trail = <<>> /\ visited = {} /\ DOMAIN trail = {}
  BY DEF DocInit, NoSnapshot
<1>3. DocTyped
  <2>1. adapting \in AdaptingTyped
    BY <1>1, <1>2 DEF AdaptingTyped
  <2>2. <<>> \in Seq(WalkStep)
    OBVIOUS
  <2>3. SnapshotShape
    BY <1>2 DEF SnapshotShape
  <2>4. QED BY <1>1, <1>2, <2>1, <2>2, <2>3 DEF DocTyped
<1>4. TrailHolds /\ BlocksHold /\ ParentsHold
  BY <1>2 DEF TrailHolds, BlocksHold, ParentsHold, Ended
<1>5. QED BY <1>3, <1>4 DEF DocInv

\* The blocks of the scan are where the lines are.
LEMMA BoxesFit ==
    ASSUME DocTyped, NEW n \in SavedNodes, NEW b \in BlocksFor(n)
    PROVE  /\ b = <<b[1], n>> /\ b[1] \in ScanPages /\ b[2] = n /\ b[1] \in DOMAIN Node(n).boxes
           /\ LinesFor(b) \subseteq LinesOn(b[1])
<1>1. savedScan \in SavedScans
  BY DEF DocTyped
<1>2. PICK page \in DOMAIN Node(n).boxes : b = <<page, n>>
  BY DEF BlocksFor
<1>3. page \in DOMAIN savedScan.lines /\ Node(n).boxes[page] \subseteq {<<page, i>> : i \in 1..savedScan.lines[page]}
  BY <1>1, <1>2, EvidenceAssumption DEF SavedNodes, Node
<1>4. QED BY <1>2, <1>3 DEF LinesFor, LinesOn, ScanPages, Node

LEMMA BelowListed ==
    ASSUME DocTyped, NEW n \in SavedNodes
    PROVE  /\ Len(Node(n).below) \in Nat /\ DOMAIN Node(n).below = 1..Len(Node(n).below)
           /\ Node(n).cells \in Seq(ToSet(Node(n).cells))
<1>1. /\ Node(n).below \in Seq(ToSet(Node(n).below)) /\ Node(n).cells \in Seq(ToSet(Node(n).cells))
  BY EvidenceAssumption DEF DocTyped, SavedNodes, Node
<1>2. QED BY <1>1

\* The scan stays, and with it all that is read from it.
LEMMA ScanSame ==
    ASSUME UNCHANGED savedScan
    PROVE  /\ SavedNodes' = SavedNodes /\ WalkStep' = WalkStep /\ AdaptingTyped' = AdaptingTyped
           /\ \A n : Node(n)' = Node(n) /\ BlocksFor(n)' = BlocksFor(n) /\ IsTable(n)' = IsTable(n)
           /\ \A b : /\ BlockOf(b)' = BlockOf(b) /\ CellsOf(b)' = CellsOf(b)
                    /\ TableDiagnoses(b)' = TableDiagnoses(b)
           /\ \A m, n : Hang(m, n)' = Hang(m, n)
<1>1. SavedNodes' = SavedNodes /\ \A n : Node(n)' = Node(n)
  BY DEF SavedNodes, Node
<1>2. /\ WalkStep' = WalkStep /\ AdaptingTyped' = AdaptingTyped
      /\ \A n : BlocksFor(n)' = BlocksFor(n) /\ IsTable(n)' = IsTable(n)
      /\ \A b : LinesFor(b)' = LinesFor(b)
      /\ \A b, l : Claims(b, l)' = Claims(b, l)
  BY <1>1 DEF WalkStep, AdaptingTyped, BlocksFor, IsTable, LinesFor, Claims
<1>3. \A b, l : CellFor(b, l)' = CellFor(b, l)
  BY <1>2 DEF CellFor
<1>4. \A b : /\ BlockOf(b)' = BlockOf(b) /\ CellsOf(b)' = CellsOf(b)
            /\ TableDiagnoses(b)' = TableDiagnoses(b)
  BY <1>1, <1>2, <1>3 DEF BlockOf, CellsOf, TableDiagnoses
<1>5. \A m, n : Hang(m, n)' = Hang(m, n)
  BY <1>2 DEF Hang
<1>6. QED BY <1>1, <1>2, <1>4, <1>5

LEMMA AppendOne ==
    ASSUME NEW S, NEW s \in Seq(S), NEW x \in S
    PROVE  /\ Append(s, x) \in Seq(S) /\ Len(Append(s, x)) = Len(s) + 1 /\ Len(s) \in Nat
           /\ DOMAIN s = 1..Len(s) /\ DOMAIN Append(s, x) = 1..(Len(s) + 1)
           /\ \A k \in DOMAIN s : Append(s, x)[k] = s[k]
           /\ Append(s, x)[Len(s) + 1] = x
  OBVIOUS

\* Entering a node extends a trail that holds.
LEMMA EnterHolds ==
    ASSUME DocInv, adapting.phase \in {"walk", "outside"},
           NEW n, NEW rest \in Seq(WalkStep), NEW after, NEW said,
           after \in AdaptingTyped, after.phase = adapting.phase,
           after.outside \cup {n} \cup visited = adapting.outside \cup {n} \cup visited,
           \* the trail so far, its last node at the child after n
           Len(rest) = Len(trail), {rest[k].node : k \in DOMAIN rest} = Entering,
           \A k \in DOMAIN rest : /\ rest[k].node = trail[k].node
                                  /\ rest[k].next <= Len(Node(rest[k].node).below) + 1
                                  /\ k < Len(rest) => rest[k].next = trail[k].next
                                  /\ k = Len(rest) => /\ rest[k].next = trail[k].next + 1
                                                      /\ Node(rest[k].node).below[rest[k].next - 1] = n,
           Enter(n, rest, after, said)
    PROVE  DocInv'
<1>1. CASE n \notin SavedNodes \/ n \in visited
  <2>1. adapting' = RefusedScan /\ UNCHANGED <<savedScan, adapted, trail, visited>>
    BY <1>1 DEF Enter, SavedNodes
  <2>2. adapting'.phase = "refused" /\ adapting' \in AdaptingTyped
    BY <2>1 DEF DocInv, DocTyped, RefusedScan, AdaptingTyped
  <2>3. DocTyped'
    BY <2>1, <2>2, ScanSame DEF DocInv, DocTyped, SnapshotShape
  <2>4. TrailHolds'
    BY <2>1, <2>2 DEF DocInv, TrailHolds, Ended, Node
  <2>5. BlocksHold'
    BY <2>1, <2>2, ScanSame DEF DocInv, BlocksHold, Ended
  <2>6. ParentsHold'
    <3>1. Entering' = Entering /\ \A m, i : Hung(m, i)' = Hung(m, i)
      BY <2>1, ScanSame DEF Hung, Entering
    <3>2. QED BY <2>1, <3>1, ScanSame DEF DocInv, ParentsHold
  <2>7. QED BY <2>3, <2>4, <2>5, <2>6 DEF DocInv
<1>2. CASE n \in SavedNodes /\ n \notin visited
  <2> DEFINE tables == {c \in BlocksFor(n) : IsTable(n)}
             top == [node |-> n, next |-> 1]
  <2>1. /\ adapting' = after /\ visited' = visited \cup {n} /\ trail' = Append(rest, top)
        /\ UNCHANGED savedScan
        /\ adapted' = [adapted EXCEPT
              !.blocks = @ \cup {[id |-> b, lines |-> LinesFor(b)] : b \in BlocksFor(n)},
              !.cells = @ \cup UNION {CellsOf(b) : b \in tables},
              !.diagnoses = @ \cup said \cup UNION {TableDiagnoses(b) : b \in tables}]
    BY <1>2 DEF Enter, SavedNodes
  <2>2. /\ adapted'.blocks = adapted.blocks \cup {BlockOf(b) : b \in BlocksFor(n)}
        /\ adapted'.cells = adapted.cells \cup UNION {CellsOf(b) : b \in tables}
        /\ adapted'.diagnoses = adapted.diagnoses \cup said \cup UNION {TableDiagnoses(b) : b \in tables}
        /\ adapted'.parents = adapted.parents
        /\ SnapshotShape'
    BY <2>1 DEF DocInv, DocTyped, SnapshotShape, BlockOf
  <2>3. /\ top \in WalkStep /\ Len(rest) \in Nat /\ DOMAIN rest = 1..Len(rest) /\ DOMAIN trail = 1..Len(trail)
        /\ trail' \in Seq(WalkStep) /\ Len(trail') = Len(rest) + 1 /\ DOMAIN trail' = 1..(Len(rest) + 1)
        /\ \A k \in DOMAIN rest : trail'[k] = rest[k]
        /\ trail'[Len(rest) + 1] = top
    <3>1. top \in WalkStep
      BY <1>2 DEF WalkStep
    <3>2. trail \in Seq(WalkStep)
      BY DEF DocInv, DocTyped
    <3>3. DOMAIN trail = 1..Len(trail)
      BY <3>2
    <3>4. QED BY <2>1, <3>1, <3>3, AppendOne
  <2>4. DocTyped'
    BY <1>2, <2>1, <2>2, <2>3, ScanSame DEF DocInv, DocTyped
  <2>5. ~Ended /\ ~Ended' /\ Entering' = Entering \cup {n} /\ n \notin Entering /\ Entering \subseteq visited
    <3>1. ~Ended /\ ~Ended'
      BY <2>1 DEF Ended
    <3>2. Entering \subseteq visited
      BY DEF DocInv, TrailHolds, Entering
    <3>3. Entering' = Entering \cup {n}
      <4>1. DOMAIN trail' = DOMAIN rest \cup {Len(rest) + 1} /\ trail'[Len(rest) + 1].node = n
        BY <2>3
      <4>2. {trail'[k].node : k \in DOMAIN trail'} = {rest[k].node : k \in DOMAIN rest} \cup {n}
        <5>1. \A k \in DOMAIN rest : trail'[k].node = rest[k].node
          BY <2>3
        <5>2. QED BY <4>1, <5>1
      <4>3. QED BY <4>2 DEF Entering
    <3>4. QED BY <1>2, <3>1, <3>2, <3>3
  <2>6. TrailHolds'
    <3>1. ASSUME NEW k \in DOMAIN trail'
          PROVE  /\ trail'[k].node \in visited' /\ trail'[k].next <= Len(Node(trail'[k].node).below) + 1
                 /\ k < Len(trail') => /\ trail'[k].next > 1
                                       /\ Node(trail'[k].node).below[trail'[k].next - 1] = trail'[k + 1].node
      <4>1. CASE k = Len(rest) + 1
        BY <1>2, <2>1, <2>3, <4>1, BelowListed DEF DocInv
      <4>2. CASE k \in DOMAIN rest
        <5>1. /\ trail'[k] = rest[k] /\ rest[k] \in WalkStep /\ trail[k] \in WalkStep /\ k \in DOMAIN trail
              /\ rest[k].node \in visited
          BY <2>3, <4>2, ElementOfSeq DEF DocInv, DocTyped, TrailHolds
        <5>2. CASE k = Len(rest)
          <6>1. rest[k].next > 1
            BY <2>3, <4>2, <5>1, <5>2 DEF WalkStep
          <6>2. trail'[k + 1].node = n
            BY <2>3, <5>2
          <6>3. QED BY <2>1, <4>2, <5>1, <5>2, <6>1, <6>2
        <5>3. CASE k < Len(rest)
          <6>1. k + 1 \in DOMAIN rest
            BY <2>3, <4>2, <5>3
          <6>2. /\ trail[k].next > 1
                /\ Node(trail[k].node).below[trail[k].next - 1] = trail[k + 1].node
            BY <2>3, <5>1, <5>3 DEF DocInv, TrailHolds
          <6>3. trail'[k + 1].node = trail[k + 1].node
            BY <2>3, <6>1
          <6>4. QED BY <2>1, <4>2, <5>1, <5>3, <6>2, <6>3
        <5>4. QED BY <2>3, <4>2, <5>2, <5>3
      <4>3. QED BY <2>3, <4>1, <4>2
    <3>2. ASSUME NEW j \in DOMAIN trail', NEW k \in DOMAIN trail', trail'[j].node = trail'[k].node PROVE j = k
      <4>1. ASSUME NEW i \in DOMAIN rest
            PROVE  trail'[i].node = trail[i].node /\ i \in DOMAIN trail /\ trail[i].node # n
        BY <2>3, <2>5 DEF Entering
      <4>2. CASE j \in DOMAIN rest /\ k \in DOMAIN rest
        BY <3>2, <4>1, <4>2 DEF DocInv, TrailHolds
      <4>3. CASE j \notin DOMAIN rest \/ k \notin DOMAIN rest
        <5>1. trail'[Len(rest) + 1].node = n /\ DOMAIN trail' = DOMAIN rest \cup {Len(rest) + 1}
          BY <2>3
        <5>2. QED BY <3>2, <4>1, <4>3, <5>1
      <4>4. QED BY <4>2, <4>3
    <3>3. adapting'.phase = "outside" => adapting'.outside \cup visited' = SavedNodes
      BY <1>2, <2>1 DEF DocInv, TrailHolds
    <3>4. QED BY <2>1, <2>5, <3>1, <3>2, <3>3 DEF TrailHolds, Node, SavedNodes
  <2>7. BlocksHold'
    <3>1. /\ \A m \in visited' : \A b \in BlocksFor(m) :
                 /\ BlockOf(b) \in adapted'.blocks
                 /\ IsTable(m) => CellsOf(b) \subseteq adapted'.cells /\ TableDiagnoses(b) \subseteq adapted'.diagnoses
      <4>1. ASSUME NEW b \in BlocksFor(n)
            PROVE  /\ BlockOf(b) \in adapted'.blocks
                   /\ IsTable(n) => CellsOf(b) \subseteq adapted'.cells /\ TableDiagnoses(b) \subseteq adapted'.diagnoses
        BY <2>2
      <4>2. QED BY <2>1, <2>2, <4>1 DEF DocInv, BlocksHold
    <3>2. \A x \in adapted'.blocks : \E m \in visited' : \E b \in BlocksFor(m) : x = BlockOf(b)
      BY <2>1, <2>2, <2>5 DEF DocInv, BlocksHold
    <3>3. \A c \in adapted'.cells : \E m \in visited' : \E b \in BlocksFor(m) : IsTable(m) /\ c \in CellsOf(b)
      BY <2>1, <2>2 DEF DocInv, BlocksHold
    <3>4. (\A m \in visited : \A b \in BlocksFor(m) :
              /\ BlockOf(b) \in adapted.blocks
              /\ IsTable(m) => CellsOf(b) \subseteq adapted.cells /\ TableDiagnoses(b) \subseteq adapted.diagnoses)'
      BY <2>1, <3>1, ScanSame
    <3>5. (\A x \in adapted.blocks : \E m \in visited : \E b \in BlocksFor(m) : x = BlockOf(b))'
      BY <2>1, <3>2, ScanSame
    <3>6. (\A c \in adapted.cells : \E m \in visited : \E b \in BlocksFor(m) : IsTable(m) /\ c \in CellsOf(b))'
      BY <2>1, <3>3, ScanSame
    <3>7. QED BY <2>5, <3>4, <3>5, <3>6 DEF BlocksHold
  <2>8. ParentsHold'
    <3>1. ASSUME NEW k \in DOMAIN trail'
          PROVE  Hung(trail'[k].node, IF k < Len(trail') THEN trail'[k].next - 1 ELSE trail'[k].next)
      <4>1. CASE k = Len(rest) + 1
        <5>1. \A j \in DOMAIN Node(n).below : ~(j < 1)
          BY <1>2, BelowListed DEF DocInv
        <5>2. QED BY <2>3, <4>1, <5>1 DEF Hung
      <4>2. CASE k \in DOMAIN rest
        <5>1. /\ rest[k] \in WalkStep /\ trail[k] \in WalkStep /\ k \in DOMAIN trail /\ k < Len(trail')
              /\ trail'[k] = rest[k] /\ rest[k].node = trail[k].node
          BY <2>3, <4>2, ElementOfSeq DEF DocInv, DocTyped
        <5>2. Hung(trail[k].node, IF k < Len(trail) THEN trail[k].next - 1 ELSE trail[k].next)
          BY <5>1 DEF DocInv, ParentsHold
        <5>3. rest[k].next - 1 = IF k < Len(trail) THEN trail[k].next - 1 ELSE trail[k].next
          BY <2>3, <4>2, <5>1 DEF WalkStep
        <5>4. QED BY <5>1, <5>2, <5>3
      <4>3. QED BY <2>3, <4>1, <4>2
    <3>2. \A m \in visited' \ Entering' : Hung(m, Len(Node(m).below) + 1)
      BY <2>1, <2>5 DEF DocInv, ParentsHold
    <3>3. \A e \in adapted'.parents : \E m \in visited', x \in visited' \ Entering' : e \in Hang(m, x)
      BY <1>2, <2>1, <2>2, <2>5 DEF DocInv, ParentsHold
    <3>4. \A m, i : Hung(m, i)' = Hung(m, i)
      BY <2>1, <2>2, ScanSame DEF Hung
    <3>5. (\A k \in DOMAIN trail :
              Hung(trail[k].node, IF k < Len(trail) THEN trail[k].next - 1 ELSE trail[k].next))'
      BY <3>1, <3>4
    <3>6. (\A m \in visited \ Entering : Hung(m, Len(Node(m).below) + 1))'
      BY <2>1, <3>2, <3>4, ScanSame
    <3>7. \A m, x : Hang(m, x)' = Hang(m, x)
      BY <2>1, ScanSame
    <3>8. (\A e \in adapted.parents : \E m \in visited, x \in visited \ Entering : e \in Hang(m, x))'
      BY <3>3, <3>7
    <3>9. QED BY <2>2, <3>5, <3>6, <3>8 DEF DocInv, ParentsHold
  <2>9. QED BY <2>4, <2>6, <2>7, <2>8 DEF DocInv
<1>3. QED BY <1>1, <1>2

LEMMA FrontOne ==
    ASSUME NEW S, NEW s \in Seq(S), s # <<>>
    PROVE  /\ Front(s) \in Seq(S) /\ Len(s) \in Nat \ {0} /\ Len(Front(s)) = Len(s) - 1
           /\ DOMAIN s = 1..Len(s) /\ DOMAIN Front(s) = 1..(Len(s) - 1)
           /\ \A k \in DOMAIN Front(s) : Front(s)[k] = s[k] /\ k \in DOMAIN s
           /\ s[Len(s)] \in S
<1>1. Len(s) \in Nat \ {0} /\ DOMAIN s = 1..Len(s) /\ s[Len(s)] \in S
  BY EmptySeq
<1>2. /\ SubSeq(s, 1, Len(s) - 1) \in Seq(S) /\ Len(SubSeq(s, 1, Len(s) - 1)) = Len(s) - 1
      /\ \A k \in 1..(Len(s) - 1) : SubSeq(s, 1, Len(s) - 1)[k] = s[k]
  BY <1>1
<1>3. QED BY <1>1, <1>2 DEF Front

LEMMA EntersHold ==
    ASSUME DocInv, EnterRoot \/ EnterChild \/ EnterOutside
    PROVE  DocInv'
<1>0. /\ adapting \in AdaptingTyped /\ trail \in Seq(WalkStep)
      /\ <<>> \in Seq(WalkStep) /\ Len(<<>>) = 0 /\ DOMAIN <<>> = {}
  BY DEF DocInv, DocTyped
<1>1. CASE EnterRoot
  <2> DEFINE after == [adapting EXCEPT !.roots = Tail(@)]
  <2>1. /\ adapting.phase \in {"walk", "outside"} /\ trail = <<>> /\ adapting.roots # <<>>
        /\ Enter(Head(adapting.roots), <<>>, after, {})
    BY <1>1 DEF EnterRoot
  <2>2. Tail(adapting.roots) \in Seq(ToSet(savedScan.roots))
    BY <1>0, <2>1 DEF AdaptingTyped
  <2>3. after \in AdaptingTyped /\ after.phase = adapting.phase /\ after.outside = adapting.outside
    BY <1>0, <2>2 DEF AdaptingTyped
  <2>4. Entering = {} /\ {<<>>[k].node : k \in DOMAIN <<>>} = {}
    BY <1>0, <2>1 DEF Entering
  <2> HIDE DEF after
  <2>5. QED BY <1>0, <2>1, <2>2, <2>3, <2>4, EnterHolds
<1>2. CASE EnterOutside
  <2>1. PICK n \in adapting.outside :
            Enter(n, <<>>, [adapting EXCEPT !.outside = @ \ {n}], {Diagnosis("unreachable_node", NoBlock, {})})
    BY <1>2 DEF EnterOutside
  <2> DEFINE after == [adapting EXCEPT !.outside = @ \ {n}]
  <2>2. after \in AdaptingTyped /\ after.phase = adapting.phase /\ after.outside = adapting.outside \ {n}
    BY <1>0 DEF AdaptingTyped
  <2>3. adapting.phase = "outside" /\ trail = <<>>
    BY <1>2 DEF EnterOutside
  <2>4. Entering = {} /\ {<<>>[k].node : k \in DOMAIN <<>>} = {}
    BY <1>0, <2>3 DEF Entering
  <2>5. Enter(n, <<>>, after, {Diagnosis("unreachable_node", NoBlock, {})})
    BY <2>1
  <2>6. after.outside \cup {n} \cup visited = adapting.outside \cup {n} \cup visited
    BY <2>2
  <2> HIDE DEF after
  <2>7. QED BY <1>0, <2>2, <2>3, <2>4, <2>5, <2>6, EnterHolds
<1>3. CASE EnterChild
  <2> DEFINE top == [Top EXCEPT !.next = @ + 1]
             rest == Append(Below, top)
             n == Node(Top.node).below[Top.next]
             last == Len(trail)
  <2>1. /\ adapting.phase \in {"walk", "outside"} /\ trail # <<>> /\ Top.next <= Len(Node(Top.node).below)
        /\ Enter(n, rest, adapting, {})
    BY <1>3 DEF EnterChild
  <2>2. /\ Front(trail) \in Seq(WalkStep) /\ last \in Nat \ {0} /\ Len(Front(trail)) = last - 1
        /\ DOMAIN trail = 1..last /\ DOMAIN Front(trail) = 1..(last - 1)
        /\ \A k \in DOMAIN Front(trail) : Front(trail)[k] = trail[k] /\ k \in DOMAIN trail
        /\ trail[last] \in WalkStep
    BY <1>0, <2>1, FrontOne
  <2>3. /\ Top = trail[last] /\ Top.next \in Nat \ {0} /\ Top.node \in SavedNodes
        /\ top \in WalkStep /\ top.node = Top.node /\ top.next = Top.next + 1
    BY <2>2 DEF Top, WalkStep
  <2>4. /\ rest \in Seq(WalkStep) /\ Len(rest) = last /\ DOMAIN rest = 1..last
        /\ \A k \in 1..(last - 1) : rest[k] = trail[k]
        /\ rest[last] = top
    BY <2>2, <2>3, AppendOne DEF Below
  <2> HIDE DEF rest, top, last
  <2>5. \A k \in DOMAIN rest : rest[k].node = trail[k].node
    BY <2>2, <2>3, <2>4
  <2>6. {rest[k].node : k \in DOMAIN rest} = Entering
    BY <2>2, <2>4, <2>5 DEF Entering
  <2>7. /\ Len(Node(Top.node).below) \in Nat
    BY <2>3, BelowListed DEF DocInv
  <2>8. ASSUME NEW k \in DOMAIN rest
        PROVE  /\ rest[k].node = trail[k].node
               /\ rest[k].next <= Len(Node(rest[k].node).below) + 1
               /\ k < Len(rest) => rest[k].next = trail[k].next
               /\ k = Len(rest) => /\ rest[k].next = trail[k].next + 1
                                   /\ Node(rest[k].node).below[rest[k].next - 1] = n
    <3>1. CASE k = last
      BY <2>1, <2>3, <2>4, <2>7, <3>1
    <3>2. CASE k \in 1..(last - 1)
      BY <2>2, <2>4, <3>2 DEF DocInv, TrailHolds
    <3>3. QED BY <2>2, <2>4, <3>1, <3>2
  <2> HIDE DEF n
  <2>9. QED BY <1>0, <2>1, <2>4, <2>6, <2>8, EnterHolds DEF last
<1>4. QED BY <1>1, <1>2, <1>3

LEMMA LeaveHolds ==
    ASSUME DocInv, LeaveNode
    PROVE  DocInv'
<1> DEFINE last == Len(trail)
           n == Top.node
           hung == IF Below = <<>> THEN {} ELSE Hang(Last(Below).node, n)
           HungAfter(m, i) == \A j \in DOMAIN Node(m).below :
                                  j < i => Hang(m, Node(m).below[j]) \subseteq adapted'.parents
<1>1. /\ adapting.phase \in {"walk", "outside"} /\ trail # <<>> /\ Top.next > Len(Node(n).below)
      /\ trail' = Front(trail) /\ UNCHANGED <<savedScan, visited, adapting>>
  BY DEF LeaveNode, Below
<1>2. /\ adapted'.blocks = adapted.blocks /\ adapted'.cells = adapted.cells
      /\ adapted.diagnoses \subseteq adapted'.diagnoses
      /\ adapted'.parents = adapted.parents \cup hung
      /\ SnapshotShape'
  BY DEF LeaveNode, DocInv, DocTyped, SnapshotShape
<1>3. /\ Front(trail) \in Seq(WalkStep) /\ last \in Nat \ {0} /\ Len(Front(trail)) = last - 1
      /\ DOMAIN trail = 1..last /\ DOMAIN Front(trail) = 1..(last - 1)
      /\ \A k \in DOMAIN Front(trail) : Front(trail)[k] = trail[k] /\ k \in DOMAIN trail
      /\ trail[last] \in WalkStep
  BY <1>1, FrontOne DEF DocInv, DocTyped
<1>4. /\ trail' \in Seq(WalkStep) /\ DOMAIN trail' = 1..(last - 1) /\ Len(trail') = last - 1
      /\ \A k \in 1..(last - 1) : trail'[k] = trail[k] /\ trail[k] \in WalkStep /\ k \in DOMAIN trail
      /\ Top = trail[last] /\ n \in SavedNodes /\ n \in visited /\ last \in DOMAIN trail
      /\ Top.next \in Nat \ {0}
  <2>1. \A k \in 1..(last - 1) : trail[k] \in WalkStep
    BY <1>3, ElementOfSeq DEF DocInv, DocTyped
  <2>2. last \in DOMAIN trail /\ Top = trail[last] /\ n \in SavedNodes /\ Top.next \in Nat \ {0}
    BY <1>3 DEF Top, WalkStep
  <2>3. n \in visited
    BY <2>2 DEF DocInv, TrailHolds
  <2>4. QED BY <1>1, <1>3, <2>1, <2>2, <2>3
<1> HIDE DEF last
<1>5. DocTyped'
  BY <1>1, <1>2, <1>4, ScanSame DEF DocInv, DocTyped
<1>6. ~Ended /\ ~Ended'
  BY <1>1 DEF Ended
<1>7. TrailHolds'
  <2>1. ASSUME NEW k \in DOMAIN trail'
        PROVE  /\ trail'[k].node \in visited' /\ trail'[k].next <= Len(Node(trail'[k].node).below) + 1
               /\ k < Len(trail') => /\ trail'[k].next > 1
                                     /\ Node(trail'[k].node).below[trail'[k].next - 1] = trail'[k + 1].node
    <3>1. trail'[k] = trail[k] /\ k \in DOMAIN trail /\ k < last
      BY <1>3, <1>4
    <3>2. k < Len(trail') => trail'[k + 1] = trail[k + 1]
      BY <1>3, <1>4
    <3>3. QED BY <1>1, <3>1, <3>2 DEF DocInv, TrailHolds, last
  <2>2. \A j, k \in DOMAIN trail' : trail'[j].node = trail'[k].node => j = k
    BY <1>4 DEF DocInv, TrailHolds
  <2>3. (\A k \in DOMAIN trail :
           /\ trail[k].node \in visited /\ trail[k].next <= Len(Node(trail[k].node).below) + 1
           /\ k < Len(trail) => /\ trail[k].next > 1
                                /\ Node(trail[k].node).below[trail[k].next - 1] = trail[k + 1].node)'
    BY <1>1, <2>1, ScanSame
  <2>4. (adapting.phase = "outside" => adapting.outside \cup visited = SavedNodes)'
    BY <1>1, ScanSame DEF DocInv, TrailHolds
  <2>5. QED BY <1>6, <2>2, <2>3, <2>4 DEF TrailHolds
<1>8. BlocksHold'
  <2>1. (\A m \in visited : \A b \in BlocksFor(m) :
            /\ BlockOf(b) \in adapted.blocks
            /\ IsTable(m) => CellsOf(b) \subseteq adapted.cells /\ TableDiagnoses(b) \subseteq adapted.diagnoses)'
    BY <1>1, <1>2, ScanSame DEF DocInv, BlocksHold
  <2>2. (\A x \in adapted.blocks : \E m \in visited : \E b \in BlocksFor(m) : x = BlockOf(b))'
    BY <1>1, <1>2, <1>6, ScanSame DEF DocInv, BlocksHold
  <2>3. (\A c \in adapted.cells : \E m \in visited : \E b \in BlocksFor(m) : IsTable(m) /\ c \in CellsOf(b))'
    BY <1>1, <1>2, ScanSame DEF DocInv, BlocksHold
  <2>4. QED BY <1>6, <2>1, <2>2, <2>3 DEF BlocksHold
<1>9. ParentsHold'
  <2>1. Entering = Entering' \cup {n} /\ n \notin Entering'
    <3>1. ASSUME NEW k \in DOMAIN trail' PROVE trail'[k].node = trail[k].node /\ trail[k].node # n
      BY <1>3, <1>4 DEF DocInv, TrailHolds
    <3>2. Entering' \subseteq Entering
      BY <1>4, <3>1 DEF Entering
    <3>3. n \notin Entering'
      BY <3>1 DEF Entering
    <3>4. ASSUME NEW k \in DOMAIN trail PROVE trail[k].node \in Entering' \cup {n}
      <4>1. k = last \/ k \in DOMAIN trail'
        BY <1>3, <1>4
      <4>2. QED BY <1>4, <3>1, <4>1 DEF Entering
    <3>5. n \in Entering
      BY <1>4 DEF Entering
    <3>6. QED BY <3>2, <3>3, <3>4, <3>5 DEF Entering
  <2>2. Hung(n, Top.next)
    BY <1>4 DEF DocInv, ParentsHold, last
  <2>3. \A m, i : /\ Hung(m, i) => HungAfter(m, i)
                  /\ Hung(m, i)' = HungAfter(m, i)
    BY <1>1, <1>2, ScanSame DEF Hung
  <2> HIDE DEF HungAfter
  <2>4. ASSUME NEW k \in DOMAIN trail'
        PROVE  HungAfter(trail'[k].node, IF k < Len(trail') THEN trail'[k].next - 1 ELSE trail'[k].next)
    <3>1. /\ trail'[k] = trail[k] /\ k \in DOMAIN trail /\ k < last /\ trail[k] \in WalkStep
          /\ Hung(trail[k].node, trail[k].next - 1)
      BY <1>3, <1>4 DEF DocInv, ParentsHold, last
    <3>2. CASE k < Len(trail')
      BY <2>3, <3>1, <3>2
    <3>3. CASE k = last - 1
      <4>1. Last(Below) = trail[k] /\ Below # <<>>
        BY <1>1, <1>3, <1>4, <3>3, EmptySeq DEF Last, Below
      <4>2. hung = Hang(trail[k].node, n)
        BY <4>1
      <4>3. Node(trail[k].node).below[trail[k].next - 1] = n
        <5>1. k \in DOMAIN trail /\ k < Len(trail) /\ trail[k + 1] = Top
          BY <1>3, <1>4, <3>1, <3>3 DEF Top, last
        <5>2. \A i \in DOMAIN trail : i < Len(trail) =>
                 Node(trail[i].node).below[trail[i].next - 1] = trail[i + 1].node
          BY DEF DocInv, TrailHolds
        <5>3. QED BY <5>1, <5>2
      <4>4. trail[k].node \in SavedNodes
        BY <3>1 DEF WalkStep
      <4>5. ASSUME NEW j \in DOMAIN Node(trail[k].node).below, j < trail[k].next
            PROVE  Hang(trail[k].node, Node(trail[k].node).below[j]) \subseteq adapted'.parents
        <5>1. j \in Nat /\ trail[k].next \in Nat
          BY <3>1, <4>4, BelowListed DEF DocInv, WalkStep
        <5>2. CASE j = trail[k].next - 1
          BY <1>2, <4>2, <4>3, <5>2
        <5>3. CASE j < trail[k].next - 1
          BY <1>2, <3>1, <5>3 DEF Hung
        <5>4. QED BY <4>5, <5>1, <5>2, <5>3
      <4>6. HungAfter(trail[k].node, trail[k].next)
        BY <4>5 DEF HungAfter
      <4>7. QED BY <1>4, <3>1, <3>3, <4>6
    <3>4. QED BY <1>3, <1>4, <3>2, <3>3
  <2>5. ASSUME NEW m \in visited \ Entering' PROVE HungAfter(m, Len(Node(m).below) + 1)
    <3>1. CASE m = n
      <4>1. Hung(n, Len(Node(n).below) + 1)
        <5>1. Len(Node(n).below) \in Nat /\ DOMAIN Node(n).below = 1..Len(Node(n).below)
          BY <1>4, BelowListed DEF DocInv
        <5>2. \A j \in DOMAIN Node(n).below : j < Top.next
          BY <1>1, <1>4, <5>1
        <5>3. QED BY <2>2, <5>2 DEF Hung
      <4>2. QED BY <2>3, <3>1, <4>1
    <3>2. CASE m # n
      BY <2>1, <2>3, <3>2 DEF DocInv, ParentsHold
    <3>3. QED BY <3>1, <3>2
  <2>6. \A e \in hung : e[2][2] = n /\ \E m \in visited : e \in Hang(m, n)
    <3>1. CASE Below = <<>>
      BY <3>1
    <3>2. CASE Below # <<>>
      <4>1. last - 1 \in DOMAIN trail' /\ Last(Below) = trail[last - 1]
        <5>1. Below = trail' /\ Len(trail') # 0
          BY <1>1, <1>4, <3>2, EmptySeq DEF Below
        <5>2. QED BY <1>3, <1>4, <5>1 DEF Last
      <4>2. Last(Below).node \in visited
        BY <1>4, <4>1 DEF DocInv, TrailHolds
      <4>3. hung = Hang(Last(Below).node, n)
        BY <3>2
      <4>4. QED BY <4>2, <4>3 DEF Hang, BlocksFor
    <3>3. QED BY <3>1, <3>2
  <2>7. \A e \in adapted.parents : e[2][2] # n /\ \E m \in visited, x \in visited \ Entering : e \in Hang(m, x)
    <3>1. \A m : \A x \in visited \ Entering : \A e \in Hang(m, x) : e[2][2] = x
      BY DEF Hang, BlocksFor
    <3>2. QED BY <2>1, <3>1 DEF DocInv, ParentsHold
  <2>8. \A e, f \in hung : e[2] = f[2] => e = f
    <3>1. \A m : \A e, f \in Hang(m, n) : e[2] = f[2] => e = f
      BY DEF Hang, BlocksFor
    <3>2. QED BY <3>1
  <2> HIDE DEF hung
  <2>9. (\A e, f \in adapted.parents : e[2] = f[2] => e = f)'
    BY <1>2, <2>6, <2>7, <2>8 DEF DocInv, ParentsHold
  <2>10. (\A e \in adapted.parents : \E m \in visited, x \in visited \ Entering : e \in Hang(m, x))'
    BY <1>1, <1>2, <1>4, <2>1, <2>6, <2>7, ScanSame
  <2>11. (\A m \in visited \ Entering : Hung(m, Len(Node(m).below) + 1))'
    BY <1>1, <2>3, <2>5, ScanSame
  <2>12. (\A k \in DOMAIN trail :
             Hung(trail[k].node, IF k < Len(trail) THEN trail[k].next - 1 ELSE trail[k].next))'
    BY <2>3, <2>4
  <2>13. QED BY <2>9, <2>10, <2>11, <2>12 DEF ParentsHold
<1>10. QED BY <1>5, <1>7, <1>8, <1>9 DEF DocInv

\* What the walk leaves is a valid snapshot, but for tables that claim a line together.
TablesApart == \A m, n \in visited : m # n /\ IsTable(m) /\ IsTable(n) => TableLines(m) \cap TableLines(n) = {}

LEMMA TablesSame ==
    ASSUME UNCHANGED <<savedScan, visited>>
    PROVE  TablesApart' = TablesApart
<1>1. \A n : Node(n)' = Node(n) /\ BlocksFor(n)' = BlocksFor(n) /\ IsTable(n)' = IsTable(n)
  BY ScanSame
<1>2. \A b : LinesFor(b)' = LinesFor(b)
  BY <1>1 DEF LinesFor
<1>3. \A n : TableLines(n)' = TableLines(n)
  BY <1>1, <1>2 DEF TableLines
<1>4. QED BY <1>1, <1>3 DEF TablesApart

LEMMA CellsApart ==
    ASSUME DocInv, TablesApart, NEW c \in adapted.cells, NEW d \in adapted.cells, c # d
    PROVE  c.lines \cap d.lines = {}
<1>1. PICK m \in visited : \E b \in BlocksFor(m) : IsTable(m) /\ c \in CellsOf(b)
  BY DEF DocInv, BlocksHold
<1>2. PICK n \in visited : \E b \in BlocksFor(n) : IsTable(n) /\ d \in CellsOf(b)
  BY DEF DocInv, BlocksHold
<1>3. PICK b1 \in BlocksFor(m) : IsTable(m) /\ c \in CellsOf(b1)
  BY <1>1
<1>4. PICK b2 \in BlocksFor(n) : IsTable(n) /\ d \in CellsOf(b2)
  BY <1>2
<1>5. /\ b1[2] = m /\ b1 = <<b1[1], m>> /\ LinesFor(b1) \subseteq LinesOn(b1[1])
      /\ b2[2] = n /\ b2 = <<b2[1], n>> /\ LinesFor(b2) \subseteq LinesOn(b2[1])
  BY BoxesFit DEF DocInv, DocTyped
<1>6. PICK i \in DOMAIN Node(m).cells :
          /\ c = [block |-> b1, cell |-> i, lines |-> {l \in LinesFor(b1) : i \in CellFor(b1, l)}]
  BY <1>3, <1>5 DEF CellsOf
<1>7. PICK j \in DOMAIN Node(n).cells :
          /\ d = [block |-> b2, cell |-> j, lines |-> {l \in LinesFor(b2) : j \in CellFor(b2, l)}]
  BY <1>4, <1>5 DEF CellsOf
<1>8. SUFFICES ASSUME NEW l, l \in LinesFor(b1), l \in LinesFor(b2), i \in CellFor(b1, l), j \in CellFor(b2, l)
               PROVE  FALSE
  BY <1>6, <1>7
<1>9. i \in Claims(b1, l) /\ j \in Claims(b2, l)
  BY <1>8 DEF CellFor
<1>10. m = n
  <2>1. l \in TableLines(m)
    BY <1>3, <1>5, <1>6, <1>8, <1>9 DEF TableLines, Claims
  <2>2. l \in TableLines(n)
    BY <1>4, <1>5, <1>7, <1>8, <1>9 DEF TableLines, Claims
  <2>3. QED BY <1>3, <1>4, <2>1, <2>2 DEF TablesApart
<1>11. b1 = b2
  <2>1. l[1] = b1[1] /\ l[1] = b2[1]
    BY <1>5, <1>8 DEF LinesOn
  <2>2. QED BY <1>5, <1>10, <2>1
<1>12. i # j
  BY <1>6, <1>7, <1>11
<1>13. \E x : Claims(b1, l) = {x}
  <2>1. Cardinality(Claims(b1, l)) = 1
    BY <1>8 DEF CellFor
  <2>2. IsFiniteSet(Claims(b1, l))
    <3>1. m \in SavedNodes
      BY DEF DocInv, DocTyped
    <3>2. Node(m).cells \in Seq(ToSet(Node(m).cells))
      BY <3>1, BelowListed DEF DocInv
    <3>3. DOMAIN Node(m).cells = 1..Len(Node(m).cells) /\ Len(Node(m).cells) \in Nat
      BY <3>2
    <3>4. IsFiniteSet(DOMAIN Node(m).cells)
      BY <3>3, FS_Interval
    <3>5. Claims(b1, l) \subseteq DOMAIN Node(m).cells
      BY <1>5 DEF Claims
    <3>6. QED BY <3>4, <3>5, FS_Subset
  <2>3. QED BY <2>1, <2>2, FS_Singleton
<1>14. QED BY <1>9, <1>11, <1>12, <1>13

LEMMA SnapshotHolds ==
    ASSUME DocInv, TablesApart, ~Ended
    PROVE  ValidSnapshot(Complete(adapted))
<1> DEFINE whole == Complete(adapted)
<1>1. /\ whole.blocks = adapted.blocks \cup Unclassified /\ whole.parents = adapted.parents
      /\ whole.cells = adapted.cells
  BY DEF DocInv, DocTyped, SnapshotShape, Complete
<1>2. \A x \in adapted.blocks : x.id[1] \in ScanPages /\ x.lines \subseteq LinesOn(x.id[1])
  <2> SUFFICES ASSUME NEW x \in adapted.blocks PROVE x.id[1] \in ScanPages /\ x.lines \subseteq LinesOn(x.id[1])
    OBVIOUS
  <2>1. PICK n \in visited : \E b \in BlocksFor(n) : x = BlockOf(b)
    BY DEF DocInv, BlocksHold
  <2>2. PICK b \in BlocksFor(n) : x = BlockOf(b)
    BY <2>1
  <2>3. b[1] \in ScanPages /\ LinesFor(b) \subseteq LinesOn(b[1])
    BY BoxesFit DEF DocInv, DocTyped
  <2>4. QED BY <2>2, <2>3 DEF BlockOf
<1>3. \A x \in Unclassified : x.id[1] \in ScanPages /\ x.lines \subseteq LinesOn(x.id[1])
  BY DEF Unclassified
<1>4. ASSUME NEW page \in ScanPages, NEW l \in LinesOn(page)
      PROVE  \E x \in whole.blocks : l \in x.lines
  <2>1. CASE \E x \in adapted.blocks : l \in x.lines
    BY <1>1, <2>1
  <2>2. CASE ~\E x \in adapted.blocks : l \in x.lines
    <3> DEFINE missing == LinesOn(page) \ UNION {b.lines : b \in adapted.blocks}
    <3>1. l \in missing
      BY <2>2
    <3>2. [id |-> <<page, NoBlock>>, lines |-> missing] \in Unclassified
      BY <3>1 DEF Unclassified
    <3>3. QED BY <1>1, <3>1, <3>2
  <2>3. QED BY <2>1, <2>2
<1>5. UNION {b.lines : b \in whole.blocks} = AllLines
  <2>1. \A x \in whole.blocks : x.lines \subseteq AllLines
    BY <1>1, <1>2, <1>3 DEF AllLines
  <2>2. \A l \in AllLines : \E x \in whole.blocks : l \in x.lines
    BY <1>4 DEF AllLines
  <2> HIDE DEF whole
  <2>3. QED BY <2>1, <2>2
<1>6. \A b \in whole.blocks : b.lines \subseteq LinesOn(b.id[1])
  BY <1>1, <1>2, <1>3
<1>7. \A e, f \in whole.parents : e[1][1] = e[2][1] /\ (e[2] = f[2] => e = f)
  BY <1>1 DEF DocInv, ParentsHold, Hang
<1>8. \A c, d \in whole.cells : c # d => c.lines \cap d.lines = {}
  BY <1>1, CellsApart
<1> HIDE DEF whole
<1>9. ValidSnapshot(whole)
  BY <1>5, <1>6, <1>7, <1>8 DEF ValidSnapshot
<1>10. QED BY <1>9 DEF whole

LEMMA FinishHolds ==
    ASSUME DocInv, FinishScan
    PROVE  DocInv'
<1>1. /\ adapting.phase = "outside" /\ trail = <<>> /\ adapting.outside = {}
      /\ adapted' = Complete(adapted) /\ adapting' = [adapting EXCEPT !.phase = adapting'.phase]
      /\ adapting'.phase \in {"accepted", "invalid"}
      /\ UNCHANGED <<savedScan, trail, visited>>
  BY DEF FinishScan, DocInv, DocTyped, AdaptingTyped
<1>2. /\ adapted.blocks \subseteq adapted'.blocks /\ adapted'.parents = adapted.parents
      /\ adapted'.cells = adapted.cells /\ adapted.diagnoses \subseteq adapted'.diagnoses
      /\ SnapshotShape'
  BY <1>1 DEF DocInv, DocTyped, SnapshotShape, Complete
<1>3. Ended' /\ visited = SavedNodes
  BY <1>1 DEF Ended, DocInv, TrailHolds
<1>4. DocTyped'
  <2>1. adapting' \in AdaptingTyped
    BY <1>1 DEF DocInv, DocTyped, AdaptingTyped
  <2>2. QED BY <1>1, <1>2, <2>1, ScanSame DEF DocInv, DocTyped
<1>5. TrailHolds'
  <2>1. adapting'.phase # "outside"
    BY <1>1
  <2>2. QED BY <1>1, <1>3, <2>1, ScanSame DEF TrailHolds
<1>6. BlocksHold'
  <2>1. (\A m \in visited : \A b \in BlocksFor(m) :
            /\ BlockOf(b) \in adapted.blocks
            /\ IsTable(m) => CellsOf(b) \subseteq adapted.cells /\ TableDiagnoses(b) \subseteq adapted.diagnoses)'
    BY <1>1, <1>2, ScanSame DEF DocInv, BlocksHold
  <2>2. (\A c \in adapted.cells : \E m \in visited : \E b \in BlocksFor(m) : IsTable(m) /\ c \in CellsOf(b))'
    BY <1>1, <1>2, ScanSame DEF DocInv, BlocksHold
  <2>3. QED BY <1>3, <2>1, <2>2 DEF BlocksHold
<1>7. ParentsHold'
  <2>1. Entering' = Entering /\ \A m, i : Hung(m, i)' = Hung(m, i)
    BY <1>1, <1>2, ScanSame DEF Hung, Entering
  <2>2. QED BY <1>1, <1>2, <2>1, ScanSame DEF DocInv, ParentsHold
<1>8. QED BY <1>4, <1>5, <1>6, <1>7 DEF DocInv

LEMMA PhaseHolds ==
    ASSUME DocInv, CheckPredictions \/ RootsWalked
    PROVE  DocInv'
<1>1. /\ UNCHANGED <<savedScan, adapted, trail, visited>>
      /\ adapting' \in AdaptingTyped /\ ~Ended /\ ~Ended'
      /\ adapting'.phase = "outside" => adapting'.outside \cup visited = SavedNodes
  <2>1. CASE CheckPredictions
    BY <2>1 DEF CheckPredictions, DocInv, DocTyped, AdaptingTyped, Ended
  <2>2. CASE RootsWalked
    BY <2>2 DEF RootsWalked, DocInv, DocTyped, AdaptingTyped, Ended, SavedNodes
  <2>3. QED BY <2>1, <2>2
<1>2. DocTyped'
  BY <1>1, ScanSame DEF DocInv, DocTyped, SnapshotShape
<1>3. TrailHolds'
  BY <1>1, ScanSame DEF DocInv, TrailHolds
<1>4. BlocksHold'
  BY <1>1, ScanSame DEF DocInv, BlocksHold
<1>5. ParentsHold'
  <2>1. Entering' = Entering /\ \A m, i : Hung(m, i)' = Hung(m, i)
    BY <1>1, ScanSame DEF Hung, Entering
  <2>2. QED BY <1>1, <2>1, ScanSame DEF DocInv, ParentsHold
<1>6. QED BY <1>2, <1>3, <1>4, <1>5 DEF DocInv

LEMMA DocNextInv == DocInv /\ [DocNext]_docVars => DocInv'
<1> SUFFICES ASSUME DocInv, [DocNext]_docVars PROVE DocInv'
  OBVIOUS
<1>1. CASE CheckPredictions \/ RootsWalked
  BY <1>1, PhaseHolds
<1>2. CASE EnterRoot \/ EnterChild \/ EnterOutside
  BY <1>2, EntersHold
<1>3. CASE LeaveNode
  BY <1>3, LeaveHolds
<1>4. CASE FinishScan
  BY <1>4, FinishHolds
<1>5. CASE UNCHANGED docVars
  <2>1. UNCHANGED <<savedScan, adapted, trail, visited, adapting>>
    BY <1>5 DEF docVars
  <2>2. Ended' = Ended /\ Entering' = Entering /\ \A m, i : Hung(m, i)' = Hung(m, i)
    BY <2>1, ScanSame DEF Ended, Entering, Hung
  <2>3. DocTyped'
    BY <2>1, ScanSame DEF DocInv, DocTyped, SnapshotShape
  <2>4. TrailHolds'
    BY <2>1, <2>2, ScanSame DEF DocInv, TrailHolds
  <2>5. BlocksHold'
    BY <2>1, <2>2, ScanSame DEF DocInv, BlocksHold
  <2>6. ParentsHold'
    BY <2>1, <2>2, ScanSame DEF DocInv, ParentsHold
  <2>7. QED BY <2>3, <2>4, <2>5, <2>6 DEF DocInv
<1>6. QED BY <1>1, <1>2, <1>3, <1>4, <1>5 DEF DocNext

\* A scan that is refused by its validation has two tables that claim a line.
RefusedForTables == adapting.phase = "invalid" => ~TablesApart

LEMMA FinishRefuses ==
    ASSUME DocInv, RefusedForTables, [DocNext]_docVars
    PROVE  RefusedForTables'
<1>1. CASE FinishScan
  <2>1. adapting.phase = "outside" /\ UNCHANGED <<savedScan, visited>>
    BY <1>1 DEF FinishScan
  <2>2. ~Ended
    BY <2>1 DEF Ended
  <2>3. TablesApart' = TablesApart
    BY <2>1, TablesSame
  <2>4. ASSUME adapting'.phase = "invalid" PROVE ~TablesApart
    <3>1. ~ValidSnapshot(Complete(adapted))
      BY <1>1, <2>4 DEF FinishScan, DocInv, DocTyped, AdaptingTyped
    <3>2. QED BY <2>2, <3>1, SnapshotHolds
  <2>5. QED BY <2>3, <2>4 DEF RefusedForTables
<1>2. CASE ~FinishScan
  <2>1. adapting'.phase = "invalid" => adapting.phase = "invalid" /\ UNCHANGED <<savedScan, visited>>
    <3>1. adapting \in AdaptingTyped
      BY DEF DocInv, DocTyped
    <3>2. CASE CheckPredictions \/ RootsWalked
      BY <3>1, <3>2 DEF CheckPredictions, RootsWalked, AdaptingTyped
    <3>3. CASE EnterRoot \/ EnterChild \/ EnterOutside
      <4>1. adapting'.phase # "invalid"
        <5>1. CASE EnterRoot
          BY <3>1, <5>1 DEF EnterRoot, Enter, RefusedScan, AdaptingTyped
        <5>2. CASE EnterChild
          BY <3>1, <5>2 DEF EnterChild, Enter, RefusedScan, AdaptingTyped
        <5>3. CASE EnterOutside
          BY <3>1, <5>3 DEF EnterOutside, Enter, RefusedScan, AdaptingTyped
        <5>4. QED BY <3>3, <5>1, <5>2, <5>3
      <4>2. QED BY <4>1
    <3>4. CASE LeaveNode
      BY <3>4 DEF LeaveNode
    <3>5. CASE UNCHANGED docVars
      BY <3>5 DEF docVars
    <3>6. QED BY <1>2, <3>2, <3>3, <3>4, <3>5 DEF DocNext
  <2>2. UNCHANGED <<savedScan, visited>> => TablesApart' = TablesApart
    BY TablesSame
  <2>3. QED BY <2>1, <2>2 DEF RefusedForTables
<1>3. QED BY <1>1, <1>2

\* The lines of a block of a table are in one cell, or named by a diagnosis.
LEMMA LinesAccounted ==
    ASSUME DocInv, NEW n \in visited, NEW b \in BlocksFor(n), IsTable(n), NEW l \in LinesFor(b)
    PROVE  \/ \E c \in adapted.cells : c.block = b /\ l \in c.lines
           \/ \E d \in adapted.diagnoses : d.block = b /\ l \in d.lines
<1>1. CellsOf(b) \subseteq adapted.cells /\ TableDiagnoses(b) \subseteq adapted.diagnoses
  BY DEF DocInv, BlocksHold
<1>2. n \in SavedNodes /\ b[2] = n
  BY BoxesFit DEF DocInv, DocTyped
<1>3. IsFiniteSet(Claims(b, l))
  <2>1. Node(n).cells \in Seq(ToSet(Node(n).cells))
    BY <1>2, BelowListed DEF DocInv
  <2>2. DOMAIN Node(n).cells = 1..Len(Node(n).cells) /\ Len(Node(n).cells) \in Nat
    BY <2>1
  <2>3. IsFiniteSet(DOMAIN Node(n).cells)
    BY <2>2, FS_Interval
  <2>4. Claims(b, l) \subseteq DOMAIN Node(n).cells
    BY <1>2 DEF Claims
  <2>5. QED BY <2>3, <2>4, FS_Subset
<1>4. CASE Claims(b, l) = {}
  <2> DEFINE unmatched == {x \in LinesFor(b) : Claims(b, x) = {}}
  <2>1. l \in unmatched
    BY <1>4
  <2>2. Diagnosis("unassigned_table_lines", b, unmatched) \in TableDiagnoses(b)
    BY <2>1 DEF TableDiagnoses
  <2>3. QED BY <1>1, <2>1, <2>2 DEF Diagnosis
<1>5. CASE Cardinality(Claims(b, l)) = 1
  <2>1. PICK i : Claims(b, l) = {i}
    BY <1>3, <1>5, FS_Singleton
  <2>2. i \in DOMAIN Node(b[2]).cells /\ i \in CellFor(b, l)
    BY <1>5, <2>1 DEF Claims, CellFor
  <2>3. [block |-> b, cell |-> i, lines |-> {x \in LinesFor(b) : i \in CellFor(b, x)}] \in CellsOf(b)
    BY <2>2 DEF CellsOf
  <2>4. QED BY <1>1, <2>2, <2>3
<1>6. CASE Cardinality(Claims(b, l)) > 1
  <2>1. Diagnosis("ambiguous_table_cell", b, {l}) \in TableDiagnoses(b)
    BY <1>6 DEF TableDiagnoses
  <2>2. QED BY <1>1, <2>1 DEF Diagnosis
<1>7. Cardinality(Claims(b, l)) \in Nat /\ (Cardinality(Claims(b, l)) = 0 => Claims(b, l) = {})
  BY <1>3, FS_CardinalityType, FS_EmptySet
<1>8. QED BY <1>4, <1>5, <1>6, <1>7

\* The walk enters each node once, hangs each from one node and gives each its blocks, in whatever
\* order nodes are reached (transcription.py:417-561).
THEOREM WalkHolds == DocSpec => []DocInv
  BY DocInitInv, DocNextInv, PTL DEF DocSpec

\* "preserving frozen recognition and source evidence": what is accepted has every node, with its
\* blocks below one another and its table lines in one cell or diagnosed; what validation refuses
\* has two tables that claim a line (transcription.py:303, 417-583).
THEOREM EvidenceIsKept == DocSpec => []EvidenceKept
<1>1. DocInit => RefusedForTables
  BY DEF DocInit, RefusedForTables
<1>2. DocInv /\ RefusedForTables /\ [DocNext]_docVars => RefusedForTables'
  BY FinishRefuses
<1>3. DocInv /\ RefusedForTables => EvidenceKept
  <2> SUFFICES ASSUME DocInv, RefusedForTables PROVE EvidenceKept
    OBVIOUS
  <2>1. ASSUME adapting.phase = "invalid"
        PROVE  \E m, n \in visited : m # n /\ IsTable(m) /\ IsTable(n) /\ TableLines(m) \cap TableLines(n) # {}
    BY <2>1 DEF RefusedForTables, TablesApart
  <2>2. ASSUME adapting.phase = "accepted"
        PROVE  /\ visited = SavedNodes
               /\ \A n \in visited, b \in UNION {BlocksFor(m) : m \in visited} : b \in BlocksFor(n) =>
                      /\ BlockOf(b) \in adapted.blocks
                      /\ IsTable(n) => \A l \in LinesFor(b) :
                             \/ \E c \in adapted.cells : c.block = b /\ l \in c.lines
                             \/ \E d \in adapted.diagnoses : d.block = b /\ l \in d.lines
               /\ \A m \in visited, i \in 1..3 :
                      i \in DOMAIN Node(m).below => Hang(m, Node(m).below[i]) \subseteq adapted.parents
    <3>1. visited = SavedNodes /\ trail = <<>>
      BY <2>2 DEF Ended, DocInv, TrailHolds
    <3>2. Entering = {}
      BY <3>1 DEF Entering
    <3>3. ASSUME NEW m \in visited, NEW i \in DOMAIN Node(m).below
          PROVE  Hang(m, Node(m).below[i]) \subseteq adapted.parents
      <4>1. Hung(m, Len(Node(m).below) + 1)
        BY <3>2 DEF DocInv, ParentsHold
      <4>2. Len(Node(m).below) \in Nat /\ DOMAIN Node(m).below = 1..Len(Node(m).below)
        BY <3>1, BelowListed DEF DocInv
      <4>3. QED BY <4>1, <4>2 DEF Hung
    <3>4. ASSUME NEW n \in visited, NEW b \in BlocksFor(n)
          PROVE  /\ BlockOf(b) \in adapted.blocks
                 /\ IsTable(n) => \A l \in LinesFor(b) :
                        \/ \E c \in adapted.cells : c.block = b /\ l \in c.lines
                        \/ \E d \in adapted.diagnoses : d.block = b /\ l \in d.lines
      BY LinesAccounted DEF DocInv, BlocksHold
    <3>5. QED BY <3>1, <3>3, <3>4
  <2>3. QED BY <2>1, <2>2 DEF EvidenceKept, SavedNodes, BlockOf
<1>4. QED BY <1>1, <1>2, <1>3, WalkHolds, PTL DEF DocSpec
----------------------------------------------------------------------------
(* The import of a scanned candidate *)

\* The greatest of some of the first n numbers.
LEMMA MaxIs ==
    ASSUME NEW n \in Nat, NEW T \in SUBSET (1..n), T # {}
    PROVE  Max(T) \in T /\ \A y \in T : y <= Max(T)
<1> DEFINE Bounds == {m \in Nat : \A y \in T : y <= m}
<1>1. n \in Bounds
  OBVIOUS
<1>2. PICK m \in Bounds : \A k \in Bounds : m <= k
  <2>1. Bounds \in SUBSET Nat /\ Bounds # {}
    BY <1>1
  <2>2. QED BY <2>1, NatMinimum
<1>3. m \in T
  <2>1. SUFFICES ASSUME m \notin T PROVE FALSE
    OBVIOUS
  <2>2. PICK y \in T : TRUE
    OBVIOUS
  <2>3. m \in Nat /\ y \in Nat /\ y >= 1 /\ y <= m
    BY <1>2, <2>2
  <2>4. \A z \in T : z \in Nat /\ z <= m /\ z # m
    BY <1>2, <2>1
  <2>5. m - 1 \in Nat /\ \A z \in T : z <= m - 1
    BY <2>3, <2>4
  <2>6. m - 1 \in Bounds
    BY <2>5
  <2>7. m <= m - 1
    BY <2>6, <1>2
  <2>8. QED BY <2>3, <2>7
<1>4. m \in Nat /\ \A y \in T : y \in Nat /\ m >= y
  BY <1>2
<1>5. Max(T) \in T /\ \A y \in T : Max(T) >= y
  BY <1>3, <1>4 DEF Max
<1>6. QED BY <1>5

LEMMA MaxUpTo ==
    ASSUME NEW n \in Nat, n # 0
    PROVE  /\ 1..n # {} /\ Max(1..n) = n /\ (1..n) \ {n} = 1..(n - 1)
           /\ \A T \in SUBSET (1..n) : n \in T => Max(T) = n /\ T \ {n} \in SUBSET (1..(n - 1))
           /\ \A T \in SUBSET (1..n) : n \notin T => T \in SUBSET (1..(n - 1))
<1>1. ASSUME NEW T \in SUBSET (1..n), n \in T PROVE Max(T) = n /\ T \ {n} \in SUBSET (1..(n - 1))
  <2>1. Max(T) \in T /\ n <= Max(T)
    BY <1>1, MaxIs
  <2>2. Max(T) \in 1..n
    BY <2>1
  <2>3. QED BY <2>1, <2>2
<1>2. 1..n \in SUBSET (1..n) /\ n \in 1..n
  OBVIOUS
<1>3. Max(1..n) = n
  BY <1>1, <1>2
<1>4. QED BY <1>1, <1>2, <1>3


\* Words that texts may have.
TextWords ==
    (UNION {(UNION {Range(c.lines[i]) : i \in DOMAIN c.lines}) \cup {r.id : r \in RowsOf(c)} : c \in ScanCandidates})
    \cup (UNION {Range(entry.to) : entry \in LedgerRows}) \cup {NewLine}

Texts == Seq(TextWords)

\* One step of what the import folds: a line joined to a text, a row marked on a page or in a part.
Step(joins, page, u, x) ==
    IF joins THEN IF u = <<>> THEN x ELSE u \o <<NewLine>> \o x
    ELSE IF page THEN MarkPage(u, x) ELSE Mark(u, x)

Folding(h, joins, page, base, seq, n) == h = [T \in SUBSET (1..n) |->
    IF T = {} THEN base ELSE Step(joins, page, h[T \ {Max(T)}], seq[Max(T)])]

\* Each of these folds is defined for every sequence.
LEMMA FoldingExists ==
    ASSUME NEW joins \in BOOLEAN, NEW page \in BOOLEAN, NEW base, NEW seq, NEW n \in Nat
    PROVE  \E h : Folding(h, joins, page, base, seq, n)
<1> DEFINE Bad == {k \in Nat : ~\E h : Folding(h, joins, page, base, seq, k)}
<1> SUFFICES ASSUME Bad # {} PROVE FALSE
  OBVIOUS
<1>1. PICK k \in Bad : \A m \in Bad : k <= m
  BY NatMinimum
<1>2. k \in Nat /\ ~\E h : Folding(h, joins, page, base, seq, k)
  OBVIOUS
<1>3. CASE k = 0
  <2>1. \A T \in SUBSET (1..k) : T = {}
    BY <1>3
  <2>2. Folding([T \in SUBSET (1..k) |-> base], joins, page, base, seq, k)
    BY <2>1 DEF Folding
  <2>3. QED BY <1>2, <2>2
<1>4. CASE k # 0
  <2>1. k - 1 \in Nat /\ k - 1 \notin Bad
    BY <1>1, <1>2, <1>4
  <2>2. PICK g : Folding(g, joins, page, base, seq, k - 1)
    BY <2>1
  <2> DEFINE Next1(u, x) == Step(joins, page, u, x)
             h == [T \in SUBSET (1..k) |-> IF k \in T THEN Next1(g[T \ {k}], seq[k]) ELSE g[T]]
  <2> HIDE DEF Next1
  <2>3. ASSUME NEW T \in SUBSET (1..k)
        PROVE  h[T] = IF T = {} THEN base ELSE Next1(h[T \ {Max(T)}], seq[Max(T)])
    <3>1. CASE k \in T
      <4>1. Max(T) = k /\ T # {} /\ T \ {k} \in SUBSET (1..k)
        BY <3>1, <1>2, <1>4, MaxUpTo
      <4>2. h[T \ {k}] = g[T \ {k}]
        BY <4>1
      <4>3. h[T] = Next1(g[T \ {k}], seq[k])
        BY <3>1
      <4>4. QED BY <4>1, <4>2, <4>3
    <3>2. CASE k \notin T
      <4>1. T \in SUBSET (1..(k - 1))
        BY <3>2, <1>2, <1>4, MaxUpTo
      <4>2. h[T] = g[T]
        BY <3>2
      <4>3. g[T] = IF T = {} THEN base ELSE Next1(g[T \ {Max(T)}], seq[Max(T)])
        BY <4>1, <2>2 DEF Folding, Next1
      <4>4. h[T \ {Max(T)}] = g[T \ {Max(T)}]
        BY <3>2
      <4>5. QED BY <4>2, <4>3, <4>4
    <3>3. QED BY <3>1, <3>2
  <2>4. h = [T \in SUBSET (1..k) |-> IF T = {} THEN base ELSE Next1(h[T \ {Max(T)}], seq[Max(T)])]
    BY <2>3
  <2>5. Folding(h, joins, page, base, seq, k)
    BY <2>4 DEF Folding, Next1
  <2>6. QED BY <1>2, <2>5
<1>5. QED BY <1>3, <1>4

\* A fold whose steps stay in a set ends in it.
LEMMA FoldStays ==
    ASSUME NEW joins \in BOOLEAN, NEW page \in BOOLEAN, NEW D, NEW base \in D, NEW seq, NEW n \in Nat,
           NEW h, Folding(h, joins, page, base, seq, n),
           \A u \in D, i \in 1..n : Step(joins, page, u, seq[i]) \in D
    PROVE  h[1..n] \in D
<1> DEFINE Bad == {k \in Nat : k <= n /\ h[1..k] \notin D}
<1>1. Bad = {}
  <2> SUFFICES ASSUME Bad # {} PROVE FALSE
    OBVIOUS
  <2>1. PICK k \in Bad : \A m \in Bad : k <= m
    BY NatMinimum
  <2>2. k \in Nat /\ k <= n /\ h[1..k] \notin D
    OBVIOUS
  <2>3. 1..k \in SUBSET (1..n)
    BY <2>2
  <2>4. h[1..k] = IF 1..k = {} THEN base ELSE Step(joins, page, h[(1..k) \ {Max(1..k)}], seq[Max(1..k)])
    BY <2>3 DEF Folding
  <2>5. CASE k = 0
    BY <2>2, <2>4, <2>5
  <2>6. CASE k # 0
    <3>1. 1..k # {} /\ Max(1..k) = k /\ (1..k) \ {k} = 1..(k - 1)
      BY <2>2, <2>6, MaxUpTo
    <3>2. k - 1 \in Nat /\ k - 1 <= n /\ ~(k <= k - 1) /\ k \in 1..n
      BY <2>2, <2>6
    <3>3. h[1..(k - 1)] \in D
      BY <2>1, <3>2
    <3>4. QED BY <2>2, <2>4, <3>1, <3>2, <3>3
  <2>7. QED BY <2>5, <2>6
<1>2. QED BY <1>1

\* What the import makes of a page, of a part and of lines.
LEMMA MarkedIs ==
    ASSUME NEW c, NEW R, c.rows \in Seq(R), NEW k
    PROVE  /\ \E h : /\ Folding(h, FALSE, TRUE, c.lines, c.rows, Len(c.rows))
                     /\ MarkedPage(c) = h[1..Len(c.rows)]
           /\ \E h : /\ Folding(h, FALSE, FALSE, SubSeq(c.lines, c.parts[k].from, c.parts[k].to), c.rows, Len(c.rows))
                     /\ MarkedPart(c, k) = h[1..Len(c.rows)]
<1>1. PICK n \in Nat : n = Len(c.rows) /\ DOMAIN c.rows = 1..n
  OBVIOUS
<1>2. MarkedPage(c) = (CHOOSE h : Folding(h, FALSE, TRUE, c.lines, c.rows, n))[1..n]
  BY <1>1 DEF MarkedPage, FoldLeft, MapThenFoldSet, Folding, Step
<1>3. Folding(CHOOSE h : Folding(h, FALSE, TRUE, c.lines, c.rows, n), FALSE, TRUE, c.lines, c.rows, n)
  BY FoldingExists
<1> DEFINE cut == SubSeq(c.lines, c.parts[k].from, c.parts[k].to)
<1>4. MarkedPart(c, k) = (CHOOSE h : Folding(h, FALSE, FALSE, cut, c.rows, n))[1..n]
  BY <1>1 DEF MarkedPart, FoldLeft, MapThenFoldSet, Folding, Step
<1>5. Folding(CHOOSE h : Folding(h, FALSE, FALSE, cut, c.rows, n), FALSE, FALSE, cut, c.rows, n)
  BY FoldingExists
<1>6. QED BY <1>1, <1>2, <1>3, <1>4, <1>5

LEMMA JoinedIs ==
    ASSUME NEW L, NEW lines \in Seq(L)
    PROVE  \E h : Folding(h, TRUE, TRUE, <<>>, lines, Len(lines)) /\ JoinLines(lines) = h[1..Len(lines)]
<1>1. PICK n \in Nat : n = Len(lines) /\ DOMAIN lines = 1..n
  OBVIOUS
<1>2. JoinLines(lines) = (CHOOSE h : Folding(h, TRUE, TRUE, <<>>, lines, n))[1..n]
  BY <1>1 DEF JoinLines, FoldLeft, MapThenFoldSet, Folding, Step
<1>3. Folding(CHOOSE h : Folding(h, TRUE, TRUE, <<>>, lines, n), TRUE, TRUE, <<>>, lines, n)
  BY FoldingExists
<1>4. QED BY <1>1, <1>2, <1>3

\* An edit leaves what precedes the span where it is and moves what follows it.
EditsTo(new, W, txt, a, b, words) ==
    /\ new \in Seq(W) /\ Len(new) = Len(txt) - (b - a + 1) + Len(words)
    /\ \A i \in 1..(a - 1) : new[i] = txt[i]
    /\ \A i \in 1..Len(words) : new[a - 1 + i] = words[i]
    /\ \A i \in (b + 1)..Len(txt) : new[i - (b - a + 1) + Len(words)] = txt[i]

LEMMA EditIs ==
    ASSUME NEW W, NEW txt \in Seq(W), NEW words \in Seq(W),
           NEW a \in 1..Len(txt), NEW b \in 1..Len(txt), a <= b
    PROVE  EditsTo(Edit(txt, <<a, b>>, words), W, txt, a, b, words)
<1> DEFINE n == Len(txt)
           m == Len(words)
           before == SubSeq(txt, 1, a - 1)
           after == SubSeq(txt, b + 1, n)
<1>1. n \in Nat /\ m \in Nat /\ DOMAIN txt = 1..n /\ a \in 1..n /\ b \in 1..n
  OBVIOUS
<1>2. before \in Seq(W) /\ Len(before) = a - 1 /\ \A i \in 1..(a - 1) : before[i] = txt[i]
  <2>1. \A i \in 1..(a - 1) : txt[i] \in W
    BY <1>1
  <2>2. /\ before \in Seq(W) /\ Len(before) = IF 1 <= a - 1 THEN a - 1 - 1 + 1 ELSE 0
        /\ \A i \in 1..(a - 1 - 1 + 1) : before[i] = txt[1 + i - 1]
    BY <1>1, <2>1, SubSeqProperties
  <2> HIDE DEF before, n
  <2>3. QED BY <1>1, <2>2
<1>3. after \in Seq(W) /\ Len(after) = n - b /\ \A i \in 1..(n - b) : after[i] = txt[b + i]
  <2>1. \A i \in (b + 1)..n : txt[i] \in W
    BY <1>1
  <2>2. /\ after \in Seq(W) /\ Len(after) = IF b + 1 <= n THEN n - (b + 1) + 1 ELSE 0
        /\ \A i \in 1..(n - (b + 1) + 1) : after[i] = txt[(b + 1) + i - 1]
    BY <1>1, <2>1, SubSeqProperties
  <2> HIDE DEF after, n
  <2>3. n - (b + 1) + 1 = n - b /\ \A i \in 1..(n - b) : (b + 1) + i - 1 = b + i
    BY <1>1
  <2>4. QED BY <1>1, <2>2, <2>3
<1>4. Edit(txt, <<a, b>>, words) = (before \o words) \o after
  BY DEF Edit
<1> HIDE DEF before, after, n, m
<1> DEFINE front == before \o words
<1>5. /\ front \in Seq(W) /\ Len(front) = a - 1 + m
      /\ \A i \in 1..(a - 1 + m) : front[i] = IF i <= a - 1 THEN before[i] ELSE words[i - (a - 1)]
  <2>1. /\ before \o words \in Seq(W) /\ Len(before \o words) = Len(before) + Len(words)
        /\ \A i \in 1..(Len(before) + Len(words)) : (before \o words)[i] =
               IF i <= Len(before) THEN before[i] ELSE words[i - Len(before)]
    BY <1>2, ConcatProperties
  <2>2. QED BY <1>2, <2>1 DEF m
<1> HIDE DEF front
<1>6. /\ front \o after \in Seq(W) /\ Len(front \o after) = (a - 1 + m) + (n - b)
      /\ \A i \in 1..((a - 1 + m) + (n - b)) : (front \o after)[i] =
             IF i <= a - 1 + m THEN front[i] ELSE after[i - (a - 1 + m)]
  <2>1. /\ front \o after \in Seq(W) /\ Len(front \o after) = Len(front) + Len(after)
        /\ \A i \in 1..(Len(front) + Len(after)) : (front \o after)[i] =
               IF i <= Len(front) THEN front[i] ELSE after[i - Len(front)]
    BY <1>3, <1>5, ConcatProperties
  <2>2. QED BY <1>3, <1>5, <2>1
<1>7. ASSUME NEW i \in 1..(a - 1) PROVE (front \o after)[i] = txt[i]
  <2>1. i \in 1..(a - 1 + m) /\ i \in 1..((a - 1 + m) + (n - b)) /\ i <= a - 1 + m /\ i <= a - 1
    BY <1>1
  <2>2. (front \o after)[i] = front[i] /\ front[i] = before[i]
    BY <1>5, <1>6, <2>1
  <2>3. QED BY <1>2, <2>2
<1>8. ASSUME NEW i \in 1..m PROVE (front \o after)[a - 1 + i] = words[i]
  <2>1. a - 1 + i \in 1..(a - 1 + m) /\ ~(a - 1 + i <= a - 1) /\ (a - 1 + i) - (a - 1) = i
        /\ a - 1 + i \in 1..((a - 1 + m) + (n - b)) /\ a - 1 + i <= a - 1 + m
    BY <1>1
  <2>2. (front \o after)[a - 1 + i] = front[a - 1 + i]
    BY <1>6, <2>1
  <2>3. front[a - 1 + i] = words[i]
    BY <1>5, <2>1
  <2>4. QED BY <2>2, <2>3
<1>9. ASSUME NEW i \in (b + 1)..n PROVE (front \o after)[i - (b - a + 1) + m] = txt[i]
  <2> DEFINE j == i - (b - a + 1) + m
  <2>1. /\ j \in 1..((a - 1 + m) + (n - b)) /\ ~(j <= a - 1 + m)
        /\ j - (a - 1 + m) = i - b /\ i - b \in 1..(n - b) /\ b + (i - b) = i
    BY <1>1
  <2> HIDE DEF j
  <2>2. (front \o after)[j] = after[i - b]
    BY <1>6, <2>1
  <2>3. after[i - b] = txt[i]
    BY <1>3, <2>1
  <2>4. QED BY <2>2, <2>3 DEF j
<1>10. (a - 1 + m) + (n - b) = n - (b - a + 1) + m
  BY <1>1
<1>11. Edit(txt, <<a, b>>, words) = front \o after
  BY <1>4 DEF front
<1>12. QED BY <1>6, <1>7, <1>8, <1>9, <1>10, <1>11 DEF n, m, EditsTo

\* An occurrence that is found is a piece of the text.
LEMMA MatchIs ==
    ASSUME NEW W, NEW txt \in Seq(W), NEW words, NEW span \in Matches(txt, words)
    PROVE  \E a, b \in 1..Len(txt) : a <= b /\ span = <<a, b>>
<1>1. span \in Occurs(txt, words)
  BY DEF Matches
<1>2. span \in (1..Len(txt)) \X (1..Len(txt)) /\ span[1] <= span[2]
  BY <1>1 DEF Occurs
<1>3. PICK a \in 1..Len(txt), b \in 1..Len(txt) : span = <<a, b>>
  BY <1>2
<1>4. QED BY <1>2, <1>3

\* Marking a line leaves words, on a page and in a part.
LEMMA MarkTyped ==
    ASSUME NEW lines \in Seq(Texts), NEW r, r.id \in TextWords
    PROVE  Mark(lines, r) \in Seq(Texts) /\ MarkPage(lines, r) \in Seq(Texts)
<1>1. <<r.id>> \in Texts
  BY DEF Texts
<1>2. ASSUME NEW line \in Texts PROVE MarkLine(line, r) \in Texts
  <2>1. CASE \E span \in Matches(line, r.span) : Matches(line, r.span) = {span}
    <3> DEFINE found == CHOOSE span \in Matches(line, r.span) : TRUE
    <3>1. found \in Matches(line, r.span)
      BY <2>1
    <3>2. MarkLine(line, r) = Edit(line, found, <<r.id>>)
      BY <2>1 DEF MarkLine
    <3> HIDE DEF found
    <3>3. PICK a, b \in 1..Len(line) : a <= b /\ found = <<a, b>>
      BY <3>1, MatchIs DEF Texts
    <3>4. Edit(line, <<a, b>>, <<r.id>>) \in Texts
      BY <1>1, <3>3, EditIs DEF Texts, EditsTo
    <3>5. QED BY <3>2, <3>3, <3>4
  <2>2. CASE ~\E span \in Matches(line, r.span) : Matches(line, r.span) = {span}
    BY <1>1, <2>2 DEF MarkLine
  <2>3. QED BY <2>1, <2>2
<1>3. Len(lines) \in Nat /\ DOMAIN lines = 1..Len(lines) /\ \A i \in 1..Len(lines) : lines[i] \in Texts
  OBVIOUS
<1>4. Mark(lines, r) = [i \in 1..Len(lines) |-> IF i \in LinesOf(lines, r) THEN MarkLine(lines[i], r) ELSE lines[i]]
  BY <1>3 DEF Mark
<1>5. \A i \in 1..Len(lines) : (IF i \in LinesOf(lines, r) THEN MarkLine(lines[i], r) ELSE lines[i]) \in Texts
  BY <1>2, <1>3
<1>6. Mark(lines, r) \in Seq(Texts)
  <2>1. Mark(lines, r) \in [1..Len(lines) -> Texts]
    BY <1>4, <1>5
  <2>2. QED BY <1>3, <2>1
<1>7. Append(lines, <<r.id>>) \in Seq(Texts)
  BY <1>1
<1>8. QED BY <1>6, <1>7 DEF MarkPage

\* Joined lines are a text.
LEMMA JoinTyped == \A lines \in Seq(Texts) : JoinLines(lines) \in Texts
<1> SUFFICES ASSUME NEW lines \in Seq(Texts) PROVE JoinLines(lines) \in Texts
  OBVIOUS
<1>1. PICK h : Folding(h, TRUE, TRUE, <<>>, lines, Len(lines)) /\ JoinLines(lines) = h[1..Len(lines)]
  BY JoinedIs
<1>2. <<>> \in Texts /\ <<NewLine>> \in Texts
  BY DEF Texts, TextWords
<1>3. Len(lines) \in Nat /\ \A i \in 1..Len(lines) : lines[i] \in Texts
  OBVIOUS
<1>4. ASSUME NEW u \in Texts, NEW i \in 1..Len(lines) PROVE Step(TRUE, TRUE, u, lines[i]) \in Texts
  <2>1. lines[i] \in Texts
    BY <1>3
  <2>2. u \o <<NewLine>> \o lines[i] \in Texts
    BY <1>2, <2>1 DEF Texts
  <2>3. QED BY <2>1, <2>2 DEF Step
<1>5. h[1..Len(lines)] \in Texts
  BY <1>1, <1>2, <1>3, <1>4, FoldStays
<1>6. QED BY <1>1, <1>5

\* What the assumption says of one candidate.
LEMMA CandidateIs ==
    ASSUME NEW c \in ScanCandidates
    PROVE  /\ c.lines \in Seq(Texts) /\ c.rows \in Seq(Range(c.rows))
           /\ \A i \in 1..Len(c.rows) : c.rows[i].id \in TextWords
           /\ \A k \in DOMAIN c.parts : c.parts[k].from \in Nat \ {0} /\ c.parts[k].to \in 1..Len(c.lines)
<1>1. /\ c.lines \in Seq(Range(c.lines)) /\ c.rows \in Seq(Range(c.rows))
      /\ \A i \in DOMAIN c.lines : c.lines[i] \in Seq(Range(c.lines[i]))
      /\ \A k \in DOMAIN c.parts : c.parts[k].from \in Nat \ {0} /\ c.parts[k].to \in 1..Len(c.lines)
  BY ImportAssumption DEF ImportAssumption
<1>2. ASSUME NEW i \in DOMAIN c.lines PROVE c.lines[i] \in Texts
  <2>1. Range(c.lines[i]) \subseteq TextWords
    BY DEF TextWords
  <2>2. QED BY <1>1, <2>1, SeqMonotonic DEF Texts
<1>3. Len(c.lines) \in Nat /\ DOMAIN c.lines = 1..Len(c.lines) /\ c.lines = [i \in 1..Len(c.lines) |-> c.lines[i]]
  BY <1>1
<1>4. c.lines \in Seq(Texts)
  BY <1>2, <1>3
<1>5. \A i \in DOMAIN c.rows : c.rows[i].id \in {r.id : r \in RowsOf(c)}
  BY DEF RowsOf
<1>6. \A i \in DOMAIN c.rows : c.rows[i].id \in TextWords
  BY <1>5 DEF TextWords
<1>7. DOMAIN c.rows = 1..Len(c.rows)
  BY <1>1
<1>8. QED BY <1>1, <1>4, <1>6, <1>7

\* The texts are words.
TextsTyped == pageText \in Texts /\ \A k \in DOMAIN partText : partText[k] \in Texts

LEMMA ImportTyped == Import => TextsTyped'
<1> SUFFICES ASSUME Import PROVE TextsTyped'
  OBVIOUS
<1>1. PICK c \in ScanCandidates :
        /\ pageText' = JoinLines(MarkedPage(c))
        /\ partText' = [k \in DOMAIN c.parts |-> JoinLines(MarkedPart(c, k))]
  BY DEF Import
<1>2. /\ c.lines \in Seq(Texts) /\ c.rows \in Seq(Range(c.rows)) /\ Len(c.rows) \in Nat
      /\ \A i \in 1..Len(c.rows) : c.rows[i].id \in TextWords
  BY CandidateIs
<1>3. \A u \in Seq(Texts), i \in 1..Len(c.rows) : Step(FALSE, TRUE, u, c.rows[i]) \in Seq(Texts)
  BY <1>2, MarkTyped DEF Step
<1>4. \A u \in Seq(Texts), i \in 1..Len(c.rows) : Step(FALSE, FALSE, u, c.rows[i]) \in Seq(Texts)
  BY <1>2, MarkTyped DEF Step
<1>5. MarkedPage(c) \in Seq(Texts)
  <2>1. PICK h : Folding(h, FALSE, TRUE, c.lines, c.rows, Len(c.rows)) /\ MarkedPage(c) = h[1..Len(c.rows)]
    BY <1>2, MarkedIs
  <2>2. PICK D : D = Seq(Texts)
    OBVIOUS
  <2>3. h[1..Len(c.rows)] \in D
    <3>1. c.lines \in D /\ \A u \in D, i \in 1..Len(c.rows) : Step(FALSE, TRUE, u, c.rows[i]) \in D
      BY <1>2, <1>3, <2>2
    <3>2. QED BY <1>2, <2>1, <3>1, FoldStays
  <2>4. QED BY <2>1, <2>2, <2>3
<1>6. ASSUME NEW k \in DOMAIN c.parts PROVE MarkedPart(c, k) \in Seq(Texts)
  <2> DEFINE cut == SubSeq(c.lines, c.parts[k].from, c.parts[k].to)
  <2>1. PICK h : Folding(h, FALSE, FALSE, cut, c.rows, Len(c.rows)) /\ MarkedPart(c, k) = h[1..Len(c.rows)]
    BY <1>2, MarkedIs
  <2>2. cut \in Seq(Texts)
    <3>1. c.parts[k].from \in Nat \ {0} /\ c.parts[k].to \in 1..Len(c.lines) /\ Len(c.lines) \in Nat
      BY <1>2, CandidateIs
    <3>2. \A i \in c.parts[k].from..c.parts[k].to : c.lines[i] \in Texts
      BY <1>2, <3>1
    <3>3. QED BY <3>1, <3>2, SubSeqProperties
  <2> HIDE DEF cut
  <2>3. PICK D : D = Seq(Texts)
    OBVIOUS
  <2>4. h[1..Len(c.rows)] \in D
    <3>1. cut \in D /\ \A u \in D, i \in 1..Len(c.rows) : Step(FALSE, FALSE, u, c.rows[i]) \in D
      BY <1>4, <2>2, <2>3
    <3>2. QED BY <1>2, <2>1, <3>1, FoldStays
  <2>5. QED BY <2>1, <2>3, <2>4
<1>7. QED BY <1>1, <1>5, <1>6, JoinTyped DEF TextsTyped

\* An edit of words none of which is a marker, to such words, keeps the markers.
LEMMA EditKeepsMarkers ==
    ASSUME NEW txt \in Texts, NEW from, NEW span \in Spans(txt, from),
           NEW words \in Texts, Range(words) \cap Marks = {}
    PROVE  Edit(txt, span, words) \in Texts /\ SameMarkers(txt, Edit(txt, span, words))
<1>1. span \in Matches(txt, from) /\ \A i \in span[1]..span[2] : txt[i] \notin Marks
  BY DEF Spans
<1>2. PICK a, b \in 1..Len(txt) : a <= b /\ span = <<a, b>>
  BY <1>1, MatchIs DEF Texts
<1> DEFINE new == Edit(txt, <<a, b>>, words)
           n == Len(txt)
           m == Len(words)
           wide == b - a + 1
           old == MarkersIn(txt)
           at == [i \in old |-> IF i < a THEN i ELSE i - wide + m]
<1>3. /\ new \in Texts /\ Len(new) = n - wide + m /\ n \in Nat /\ m \in Nat
      /\ DOMAIN txt = 1..n /\ DOMAIN words = 1..m /\ DOMAIN new = 1..Len(new)
      /\ \A i \in 1..(a - 1) : new[i] = txt[i]
      /\ \A i \in 1..m : new[a - 1 + i] = words[i]
      /\ \A i \in (b + 1)..n : new[i - wide + m] = txt[i]
  <2>1. txt \in Seq(TextWords) /\ words \in Seq(TextWords)
    BY DEF Texts
  <2>2. EditsTo(new, TextWords, txt, a, b, words)
    BY <1>2, <2>1, EditIs
  <2>3. /\ new \in Seq(TextWords) /\ Len(new) = Len(txt) - (b - a + 1) + Len(words)
        /\ \A i \in 1..(a - 1) : new[i] = txt[i]
        /\ \A i \in 1..Len(words) : new[a - 1 + i] = words[i]
        /\ \A i \in (b + 1)..Len(txt) : new[i - (b - a + 1) + Len(words)] = txt[i]
    BY <2>2 DEF EditsTo
  <2> HIDE DEF new
  <2>4. DOMAIN txt = 1..Len(txt) /\ DOMAIN words = 1..Len(words) /\ DOMAIN new = 1..Len(new)
        /\ Len(txt) \in Nat /\ Len(words) \in Nat
    BY <2>1, <2>3
  <2>5. QED BY <2>3, <2>4 DEF Texts
<1>4. \A i \in a..b : txt[i] \notin Marks
  BY <1>1, <1>2
<1>5. \A i \in 1..m : words[i] \notin Marks
  BY <1>3 DEF Range
<1>6. old = {i \in 1..n : txt[i] \in Marks} /\ MarkersIn(new) = {i \in 1..Len(new) : new[i] \in Marks}
  BY <1>3 DEF MarkersIn
<1> HIDE DEF new, n, m, old
<1>7. a \in 1..n /\ b \in 1..n /\ a <= b /\ a \in Nat /\ b \in Nat /\ a # 0
  BY <1>2, <1>3 DEF n
<1>8. ASSUME NEW i \in old
      PROVE  at[i] \in MarkersIn(new) /\ new[at[i]] = txt[i] /\ at[i] \in Nat /\ i \in 1..n
             /\ (i < a \/ b < i)
  <2>1. i \in 1..n /\ txt[i] \in Marks /\ ~(i \in a..b)
    BY <1>4, <1>6
  <2>2. i < a \/ b < i
    BY <1>7, <2>1
  <2>3. CASE i < a
    <3>1. i \in 1..(a - 1) /\ i \in 1..(n - wide + m) /\ at[i] = i
      BY <1>3, <1>7, <2>1, <2>3
    <3>2. QED BY <1>3, <1>6, <2>1, <2>2, <3>1
  <2>4. CASE b < i
    <3>1. i \in (b + 1)..n /\ i - wide + m \in 1..(n - wide + m) /\ ~(i < a)
      BY <1>3, <1>7, <2>1, <2>4
    <3>2. at[i] = i - wide + m /\ new[i - wide + m] = txt[i]
      BY <1>3, <3>1
    <3>3. QED BY <1>3, <1>6, <2>1, <2>2, <3>1, <3>2
  <2>5. QED BY <2>2, <2>3, <2>4
<1>9. ASSUME NEW i \in old, NEW j \in old, i < j PROVE at[i] < at[j]
  <2>1. /\ i \in 1..n /\ j \in 1..n /\ (i < a \/ b < i) /\ (j < a \/ b < j)
        /\ at[i] = (IF i < a THEN i ELSE i - wide + m) /\ at[j] = (IF j < a THEN j ELSE j - wide + m)
    BY <1>8
  <2> HIDE DEF at
  <2>2. QED BY <1>3, <1>7, <1>9, <2>1
<1>10. ASSUME NEW t \in MarkersIn(new) PROVE \E i \in old : at[i] = t
  <2>1. t \in 1..(n - wide + m) /\ new[t] \in Marks
    BY <1>3, <1>6
  <2>2. CASE t < a
    <3>1. t \in 1..(a - 1) /\ t \in 1..n
      BY <1>3, <1>7, <2>1, <2>2
    <3>2. t \in old
      BY <1>3, <1>6, <2>1, <3>1
    <3>3. QED BY <2>2, <3>2
  <2>3. CASE a <= t /\ t <= a - 1 + m
    <3>1. t - (a - 1) \in 1..m /\ a - 1 + (t - (a - 1)) = t
      BY <1>3, <1>7, <2>1, <2>3
    <3>2. new[t] = words[t - (a - 1)]
      BY <1>3, <3>1
    <3>3. QED BY <1>5, <2>1, <3>1, <3>2
  <2>4. CASE a - 1 + m < t
    <3> DEFINE i == t + wide - m
    <3>1. i \in (b + 1)..n /\ i \in 1..n /\ i - wide + m = t /\ ~(i < a)
      BY <1>3, <1>7, <2>1, <2>4
    <3> HIDE DEF i
    <3>2. txt[i] = new[t]
      BY <1>3, <3>1
    <3>3. i \in old
      BY <1>6, <2>1, <3>1, <3>2
    <3>4. QED BY <3>1, <3>3
  <2>5. QED BY <1>3, <1>7, <2>1, <2>2, <2>3, <2>4
<1>11. at \in Bijection(old, MarkersIn(new))
  <2>1. at \in [old -> MarkersIn(new)]
    BY <1>8
  <2>2. IsInjective(at)
    <3>1. \A i, j \in old : i \in Nat /\ j \in Nat
      BY <1>8
    <3>2. \A i, j \in old : at[i] = at[j] => i = j
      <4> SUFFICES ASSUME NEW i \in old, NEW j \in old, at[i] = at[j], i # j PROVE FALSE
        OBVIOUS
      <4>1. i < j \/ j < i
        BY <3>1
      <4>2. at[i] < at[j] \/ at[j] < at[i]
        BY <1>9, <4>1
      <4>3. at[i] \in Nat /\ at[j] \in Nat
        BY <1>8
      <4> HIDE DEF at
      <4>4. QED BY <4>2, <4>3
    <3>3. DOMAIN at = old
      OBVIOUS
    <3> HIDE DEF at
    <3>4. QED BY <3>2, <3>3 DEF IsInjective
  <2> HIDE DEF at
  <2>3. QED BY <1>10, <2>1, <2>2 DEF Bijection, Injection, Surjection
<1>12. SameMarkers(txt, new)
  <2> HIDE DEF at
  <2>1. \A i, j \in old : new[at[i]] = txt[i] /\ (i < j => at[i] < at[j])
    BY <1>8, <1>9
  <2>2. QED BY <1>11, <2>1 DEF SameMarkers, old
<1>13. QED BY <1>2, <1>3, <1>12 DEF new

\* What a decision edits: nothing, or occurrences of the row's words, for words none of which is a marker.
LEMMA DecisionEdits ==
    ASSUME NEW entry
    PROVE  \/ Decision(entry).page = {} /\ Decision(entry).parts = {}
           \/ Range(entry.to) \cap Marks = {} /\ Decision(entry).page \in SUBSET PageHits(entry)
              /\ \A k \in Decision(entry).parts : Cardinality(PartHits(k, entry)) = 1
<1>1. ASSUME NEW spans1 \in SUBSET PageHits(entry), NEW parts1, Range(entry.to) \cap Marks = {},
             Decision(entry) = Edits([row |-> entry, page |-> spans1], parts1)
      PROVE  \/ Decision(entry).page = {} /\ Decision(entry).parts = {}
             \/ Range(entry.to) \cap Marks = {} /\ Decision(entry).page \in SUBSET PageHits(entry)
                /\ \A k \in Decision(entry).parts : Cardinality(PartHits(k, entry)) = 1
  <2>1. CASE \A k \in parts1 : Cardinality(PartHits(k, entry)) = 1
    BY <1>1, <2>1 DEF Edits
  <2>2. CASE ~\A k \in parts1 : Cardinality(PartHits(k, entry)) = 1
    BY <1>1, <2>2 DEF Edits
  <2>3. QED BY <2>1, <2>2
<1>2. CASE ~entry.onPage \/ Range(entry.to) \cap Marks # {}
  BY <1>2 DEF Decision, Refusal
<1>3. CASE entry.onPage /\ Range(entry.to) \cap Marks = {} /\ Cardinality(PageHits(entry)) = 1
  <2>1. Decision(entry) = Edits([row |-> entry, page |-> PageHits(entry)], Holding(entry))
    BY <1>3 DEF Decision
  <2>2. QED BY <1>1, <1>3, <2>1
<1>4. CASE /\ entry.onPage /\ Range(entry.to) \cap Marks = {} /\ Cardinality(PageHits(entry)) # 1
           /\ entry.section # NoSection /\ OnceScoped(entry)
  <2> DEFINE k == CHOOSE j \in Scoped(entry) : TRUE
  <2>1. Decision(entry) = IF PageHits(entry) # {} /\ Cardinality(Inside(k, entry)) # 1 THEN Refusal("ambiguous")
                        ELSE Edits([row |-> entry, page |-> Inside(k, entry)], {k})
    BY <1>4 DEF Decision
  <2>2. Inside(k, entry) \in SUBSET PageHits(entry)
    BY DEF Inside
  <2> HIDE DEF k
  <2>3. CASE PageHits(entry) # {} /\ Cardinality(Inside(k, entry)) # 1
    BY <2>1, <2>3 DEF Refusal
  <2>4. CASE ~(PageHits(entry) # {} /\ Cardinality(Inside(k, entry)) # 1)
    BY <1>1, <1>4, <2>1, <2>2, <2>4
  <2>5. QED BY <2>3, <2>4
<1>5. CASE /\ entry.onPage /\ Range(entry.to) \cap Marks = {} /\ Cardinality(PageHits(entry)) # 1
           /\ ~(entry.section # NoSection /\ OnceScoped(entry))
  BY <1>5 DEF Decision, Refusal
<1>6. QED BY <1>2, <1>3, <1>4, <1>5

\* A text keeps its markers when nothing is edited.
LEMMA NothingEdited == \A txt : SameMarkers(txt, txt)
<1> SUFFICES ASSUME NEW txt PROVE SameMarkers(txt, txt)
  OBVIOUS
<1> DEFINE at == [i \in MarkersIn(txt) |-> i]
<1>1. at \in [MarkersIn(txt) -> MarkersIn(txt)] /\ \A i \in MarkersIn(txt) : at[i] = i
  OBVIOUS
<1>2. DOMAIN at = MarkersIn(txt)
  OBVIOUS
<1> HIDE DEF at
<1>3. at \in Bijection(MarkersIn(txt), MarkersIn(txt))
  BY <1>1, <1>2 DEF Bijection, Injection, Surjection, IsInjective
<1>4. QED BY <1>1, <1>3 DEF SameMarkers

\* A row of the ledger keeps the markers of every text.
LEMMA RowKeepsMarkers ==
    ASSUME TextsTyped, NEW entry \in LedgerRows, ApplyRow(entry)
    PROVE  TextsTyped' /\ MarkersKept
<1> DEFINE d == Decision(entry)
<1>1. /\ pageText' = Replaced(pageText, d.page, entry.to)
      /\ partText' = [k \in DOMAIN partText |->
             IF k \in d.parts THEN Replaced(partText[k], PartHits(k, entry), entry.to) ELSE partText[k]]
  BY DEF ApplyRow
<1>2. entry.to \in Texts
  <2>1. entry.to \in Seq(Range(entry.to)) /\ Range(entry.to) \subseteq TextWords
    BY ImportAssumption DEF ImportAssumption, TextWords
  <2>2. QED BY <2>1, SeqMonotonic DEF Texts
<1>3. \/ d.page = {} /\ d.parts = {}
      \/ Range(entry.to) \cap Marks = {} /\ d.page \in SUBSET PageHits(entry)
  BY DecisionEdits
<1> HIDE DEF d
<1>4. ASSUME NEW txt \in Texts, NEW spans1 \in SUBSET Spans(txt, entry.from),
             spans1 = {} \/ Range(entry.to) \cap Marks = {}
      PROVE  Replaced(txt, spans1, entry.to) \in Texts /\ SameMarkers(txt, Replaced(txt, spans1, entry.to))
  <2>1. CASE spans1 = {}
    BY <2>1, NothingEdited DEF Replaced
  <2>2. CASE spans1 # {}
    <3> DEFINE span == CHOOSE s \in spans1 : TRUE
    <3>1. span \in Spans(txt, entry.from)
      BY <2>2
    <3>2. Replaced(txt, spans1, entry.to) = Edit(txt, span, entry.to)
      BY <2>2 DEF Replaced
    <3> HIDE DEF span
    <3>3. QED BY <1>2, <1>4, <2>2, <3>1, <3>2, EditKeepsMarkers
  <2>3. QED BY <2>1, <2>2
<1>5. pageText' \in Texts /\ SameMarkers(pageText, pageText')
  <2>1. pageText \in Texts /\ d.page \in SUBSET Spans(pageText, entry.from)
    BY <1>3 DEF TextsTyped, PageHits
  <2>2. QED BY <1>1, <1>3, <1>4, <2>1
<1>6. ASSUME NEW k \in DOMAIN partText
      PROVE  partText'[k] \in Texts /\ SameMarkers(partText[k], partText'[k])
  <2>1. partText[k] \in Texts
    BY DEF TextsTyped
  <2>2. CASE k \in d.parts
    <3>1. partText'[k] = Replaced(partText[k], PartHits(k, entry), entry.to)
      BY <1>1, <2>2
    <3>2. PartHits(k, entry) \in SUBSET Spans(partText[k], entry.from)
      BY DEF PartHits
    <3>3. QED BY <1>3, <1>4, <2>1, <2>2, <3>1, <3>2
  <2>3. CASE k \notin d.parts
    BY <1>1, <2>1, <2>3, NothingEdited
  <2>4. QED BY <2>2, <2>3
<1>7. DOMAIN partText' = DOMAIN partText
  BY <1>1
<1>8. QED BY <1>5, <1>6, <1>7 DEF TextsTyped, MarkersKept

\* Whatever rows of the ledger are applied in whatever order, no correction fills a marker, makes one or
\* moves it past another.
THEOREM MarkersUntouched == ImportSpec => [][MarkersKept]_importVars
<1>1. ImportInit => TextsTyped
  BY DEF ImportInit, TextsTyped, Texts
<1>2. ASSUME TextsTyped, [ImportNext]_importVars PROVE TextsTyped' /\ [MarkersKept]_importVars
  <2>1. CASE Import
    <3>1. MarkersKept
      BY <2>1 DEF Import, MarkersKept
    <3>2. QED BY <2>1, <3>1, ImportTyped
  <2>2. ASSUME NEW entry \in LedgerRows, ApplyRow(entry) PROVE TextsTyped' /\ MarkersKept
    BY <1>2, <2>2, RowKeepsMarkers
  <2>3. CASE UNCHANGED importVars
    BY <1>2, <2>3 DEF importVars, TextsTyped
  <2>4. QED BY <1>2, <2>1, <2>2, <2>3 DEF ImportNext
<1>3. QED BY <1>1, <1>2, PTL DEF ImportSpec

----------------------------------------------------------------------------
(* Proposals on scanned pages *)

\* Sequences joined one after another.
Joining(f, seqs, N) == f = [i \in 1..N |-> IF i = 1 THEN seqs[i] ELSE f[i - 1] \o seqs[i]]

LEMMA JoiningStep ==
    ASSUME NEW f, NEW seqs, NEW N \in Nat, Joining(f, seqs, N), NEW i \in 1..N
    PROVE  f[i] = IF i = 1 THEN seqs[i] ELSE f[i - 1] \o seqs[i]
BY DEF Joining

LEMMA JoiningExists ==
    ASSUME NEW seqs, NEW N \in Nat
    PROVE  \E f : Joining(f, seqs, N)
<1> DEFINE Bad == {n \in Nat : ~\E f : Joining(f, seqs, n)}
<1> SUFFICES ASSUME Bad # {} PROVE FALSE
  OBVIOUS
<1>1. PICK m \in Bad : \A n \in Bad : m <= n
  BY NatMinimum
<1>2. CASE m = 0
  <2>1. Joining([i \in 1..0 |-> seqs[i]], seqs, 0)
    BY DEF Joining
  <2>2. QED BY <1>1, <1>2, <2>1
<1>3. CASE m # 0
  <2>1. m - 1 \in Nat /\ m - 1 \notin Bad
    BY <1>1, <1>3
  <2>2. PICK f : Joining(f, seqs, m - 1)
    BY <2>1
  <2> DEFINE h == [i \in 1..m |-> IF i < m THEN f[i] ELSE IF m = 1 THEN seqs[m] ELSE f[m - 1] \o seqs[m]]
  <2>3. ASSUME NEW i \in 1..m PROVE h[i] = IF i = 1 THEN seqs[i] ELSE h[i - 1] \o seqs[i]
    <3>1. CASE i = m
      <4>1. m # 1 => h[m - 1] = f[m - 1]
        BY <1>1, <1>3
      <4>2. h[m] = IF m = 1 THEN seqs[m] ELSE f[m - 1] \o seqs[m]
        BY <1>1, <1>3
      <4> HIDE DEF h
      <4>3. QED BY <3>1, <4>1, <4>2
    <3>2. CASE i # m
      <4>1. i \in 1..(m - 1) /\ h[i] = f[i] /\ (i # 1 => h[i - 1] = f[i - 1])
        BY <3>2, <1>1
      <4>2. f[i] = IF i = 1 THEN seqs[i] ELSE f[i - 1] \o seqs[i]
        BY <4>1, <2>2 DEF Joining
      <4> HIDE DEF h
      <4>3. QED BY <4>1, <4>2
    <3>3. QED BY <3>1, <3>2
  <2>4. h = [i \in 1..m |-> h[i]]
    OBVIOUS
  <2> HIDE DEF h
  <2>5. Joining(h, seqs, m)
    BY <2>3, <2>4 DEF Joining
  <2>6. QED BY <1>1, <2>5
<1>4. QED BY <1>2, <1>3

\* The same sequences join alike, whatever follows them.
LEMMA JoiningAgrees ==
    ASSUME NEW s, NEW t, NEW f, NEW g, NEW M \in Nat, NEW N \in Nat, M <= N,
           Joining(f, s, M), Joining(g, t, N), \A i \in 1..M : s[i] = t[i]
    PROVE  \A i \in 1..M : f[i] = g[i]
<1> DEFINE Bad == {n \in Nat : n \in 1..M /\ f[n] # g[n]}
<1> SUFFICES ASSUME Bad # {} PROVE FALSE
  OBVIOUS
<1>1. PICK m \in Bad : \A n \in Bad : m <= n
  BY NatMinimum
<1>2. m \in 1..M /\ m \in 1..N /\ f[m] # g[m] /\ s[m] = t[m]
  BY <1>1
<1>3. f[m] = (IF m = 1 THEN s[m] ELSE f[m - 1] \o s[m]) /\ g[m] = (IF m = 1 THEN t[m] ELSE g[m - 1] \o t[m])
  BY <1>2 DEF Joining
<1>4. m # 1 => f[m - 1] = g[m - 1]
  <2>1. m # 1 => m - 1 \in Nat /\ m - 1 \in 1..M /\ m - 1 \notin Bad
    BY <1>1, <1>2
  <2>2. QED BY <2>1
<1>5. QED BY <1>2, <1>3, <1>4

LEMMA FlattenIs ==
    ASSUME NEW T, NEW seqs \in Seq(T), seqs # <<>>
    PROVE  \E f : Joining(f, seqs, Len(seqs)) /\ FlattenSeq(seqs) = f[Len(seqs)]
<1>1. Len(seqs) \in Nat /\ Len(seqs) # 0
  BY EmptySeq
<1>2. FlattenSeq(seqs) = (CHOOSE f : Joining(f, seqs, Len(seqs)))[Len(seqs)]
  BY <1>1 DEF FlattenSeq, Joining
<1>3. QED BY <1>1, <1>2, JoiningExists

\* One more sequence is joined at the end.
LEMMA FlattenAppend ==
    ASSUME NEW S, NEW seqs \in Seq(Seq(S)), NEW x \in Seq(S)
    PROVE  FlattenSeq(Append(seqs, x)) = FlattenSeq(seqs) \o x
<1> DEFINE more == Append(seqs, x)
           n == Len(seqs)
<1>1. n \in Nat /\ more \in Seq(Seq(S)) /\ more # <<>> /\ Len(more) = n + 1
  BY AppendProperties
<1>2. more[n + 1] = x /\ \A i \in 1..n : more[i] = seqs[i]
  OBVIOUS
<1> HIDE DEF more
<1>3. PICK g : Joining(g, more, n + 1) /\ FlattenSeq(more) = g[n + 1]
  BY <1>1, FlattenIs
<1>4. g[n + 1] = IF n = 0 THEN x ELSE g[n] \o x
  <2> HIDE DEF n
  <2>1. n + 1 \in 1..(n + 1) /\ (n + 1) - 1 = n /\ (n + 1 = 1 <=> n = 0)
    BY <1>1
  <2>2. g[n + 1] = IF n + 1 = 1 THEN more[n + 1] ELSE g[(n + 1) - 1] \o more[n + 1]
    BY <1>1, <1>3, <2>1, JoiningStep
  <2>3. QED BY <1>2, <2>1, <2>2
<1>5. CASE seqs = <<>>
  <2>1. n = 0 /\ FlattenSeq(seqs) = <<>>
    BY <1>5 DEF FlattenSeq
  <2>2. <<>> \o x = x
    BY ConcatEmptySeq
  <2>3. QED BY <1>2, <1>3, <1>4, <2>1, <2>2 DEF more
<1>6. CASE seqs # <<>>
  <2>1. n # 0
    BY <1>6, EmptySeq
  <2>2. PICK f : Joining(f, seqs, n) /\ FlattenSeq(seqs) = f[n]
    BY <1>6, FlattenIs
  <2>3. f[n] = g[n]
    <3> HIDE DEF n
    <3>1. n + 1 \in Nat /\ n <= n + 1 /\ n \in 1..n /\ \A i \in 1..n : seqs[i] = more[i]
      BY <1>1, <1>2, <2>1
    <3>2. \A i \in 1..n : f[i] = g[i]
      BY <1>1, <1>3, <2>2, <3>1, JoiningAgrees
    <3>3. QED BY <3>1, <3>2
  <2> HIDE DEF n
  <2>4. QED BY <1>3, <1>4, <2>1, <2>2, <2>3 DEF more
<1>7. QED BY <1>5, <1>6

LEMMA JoinAppend ==
    ASSUME NEW T, NEW t \in Seq(T), NEW w \in Seq(T), NEW e \in T
    PROVE  t \o Append(w, e) = Append(t \o w, e)
<1>1. Append(w, e) = w \o <<e>> /\ <<e>> \in Seq(T)
  BY AppendIsConcat
<1>2. t \o w \in Seq(T) /\ Append(t \o w, e) = (t \o w) \o <<e>>
  BY ConcatProperties, AppendIsConcat
<1>3. QED BY <1>1, <1>2, ConcatAssociative

\* What comes of joining sequences is one.
LEMMA FlattenTyped ==
    ASSUME NEW S
    PROVE  \A s \in Seq(Seq(S)) : FlattenSeq(s) \in Seq(S)
<1> DEFINE Bad == {n \in Nat : \E s \in Seq(Seq(S)) : Len(s) = n /\ FlattenSeq(s) \notin Seq(S)}
<1>1. ASSUME Bad # {} PROVE FALSE
  <2>1. PICK m \in Bad : \A n \in Bad : m <= n
    BY <1>1, NatMinimum
  <2>2. PICK s \in Seq(Seq(S)) : Len(s) = m /\ FlattenSeq(s) \notin Seq(S)
    BY <2>1
  <2>3. s # <<>>
    <3>1. ASSUME s = <<>> PROVE FlattenSeq(s) = <<>>
      BY <3>1 DEF FlattenSeq
    <3>2. QED BY <2>2, <3>1
  <2>4. PICK w \in Seq(Seq(S)), e \in Seq(S) : s = Append(w, e)
    BY <2>3, SequenceEmptyOrAppend
  <2>5. Len(w) \in Nat /\ Len(w) < m
    BY <2>2, <2>4
  <2>6. FlattenSeq(w) \in Seq(S)
    BY <2>1, <2>5
  <2>7. FlattenSeq(s) = FlattenSeq(w) \o e
    BY <2>4, FlattenAppend
  <2>8. QED BY <2>2, <2>6, <2>7, ConcatProperties
<1>2. ASSUME NEW s \in Seq(Seq(S)) PROVE FlattenSeq(s) \in Seq(S)
  <2>1. Len(s) \in Nat /\ Len(s) \notin Bad
    BY <1>1
  <2>2. QED BY <2>1
<1>3. QED BY <1>2

LEMMA JoinThree ==
    ASSUME NEW S, NEW p \in Seq(S), NEW q \in Seq(S), NEW r \in Seq(S)
    PROVE  (p \o q) \o r = p \o (q \o r)
BY ConcatAssociative

\* Sequences join in turn.
LEMMA FlattenJoin ==
    ASSUME NEW S, NEW t \in Seq(Seq(S))
    PROVE  \A s \in Seq(Seq(S)) : FlattenSeq(t \o s) = FlattenSeq(t) \o FlattenSeq(s)
<1> DEFINE Joined(s) == FlattenSeq(t \o s) = FlattenSeq(t) \o FlattenSeq(s)
           Bad == {n \in Nat : \E s \in Seq(Seq(S)) : Len(s) = n /\ ~Joined(s)}
<1> HIDE DEF Joined
<1>1. \A p, q, r \in Seq(S) : (p \o q) \o r = p \o (q \o r)
  BY JoinThree
<1>2. ASSUME Bad # {} PROVE FALSE
  <2>1. PICK m \in Bad : \A n \in Bad : m <= n
    BY <1>2, NatMinimum
  <2>2. PICK s \in Seq(Seq(S)) : Len(s) = m /\ ~Joined(s)
    BY <2>1
  <2>3. FlattenSeq(t) \in Seq(S)
    BY FlattenTyped
  <2>4. s # <<>>
    <3>1. FlattenSeq(<<>>) = <<>>
      BY DEF FlattenSeq
    <3>2. t \o <<>> = t /\ FlattenSeq(t) \o <<>> = FlattenSeq(t)
      BY <2>3, ConcatEmptySeq
    <3>3. ASSUME s = <<>> PROVE Joined(s)
      BY <3>1, <3>2, <3>3 DEF Joined
    <3>4. QED BY <2>2, <3>3
  <2>5. PICK w \in Seq(Seq(S)), e \in Seq(S) : s = Append(w, e)
    BY <2>4, SequenceEmptyOrAppend
  <2>6. Len(w) \in Nat /\ Len(w) < m
    BY <2>2, <2>5
  <2>7. Joined(w)
    BY <2>1, <2>6
  <2>8. t \o s = Append(t \o w, e)
    BY <2>5, JoinAppend
  <2>9. t \o w \in Seq(Seq(S))
    BY ConcatProperties
  <2>10. FlattenSeq(t \o s) = FlattenSeq(t \o w) \o e
    BY <2>8, <2>9, FlattenAppend
  <2>11. FlattenSeq(s) = FlattenSeq(w) \o e /\ FlattenSeq(w) \in Seq(S)
    BY <2>5, FlattenAppend, FlattenTyped
  <2>12. (FlattenSeq(t) \o FlattenSeq(w)) \o e = FlattenSeq(t) \o (FlattenSeq(w) \o e)
    <3>1. FlattenSeq(t) \in Seq(S) /\ FlattenSeq(w) \in Seq(S) /\ e \in Seq(S)
      BY <2>3, <2>11
    <3>2. QED BY <1>1, <3>1
  <2>13. Joined(s)
    BY <2>7, <2>10, <2>11, <2>12 DEF Joined
  <2>14. QED BY <2>2, <2>13
<1>3. ASSUME NEW s \in Seq(Seq(S)) PROVE Joined(s)
  <2>1. Len(s) \in Nat /\ Len(s) \notin Bad
    BY <1>2
  <2>2. QED BY <2>1
<1>4. QED BY <1>3 DEF Joined

\* What the views of a snapshot are: of lines of one page, no line of two views.
ViewStands(v) ==
    /\ v.lines # {} /\ v.lines \subseteq TextLines
    /\ v.page \in 1..Len(scanned.pages)
    /\ \A l \in v.lines : TextLine(l).page = v.page
    /\ v.steps \in Seq(Nat) /\ v.quantities \subseteq v.lines

ViewsStand ==
    /\ scanned \in Scans
    /\ \A v \in views : ViewStands(v)
    /\ \A v, w \in views : v # w => v.lines \cap w.lines = {}

LEMMA LinesAre ==
    ASSUME scanned \in Scans
    PROVE  /\ \E n \in Nat : TextLines = 1..n
           /\ \A l \in TextLines : TextLine(l).step \in Nat
           /\ \A b \in DOMAIN scanned.blocks :
                 /\ scanned.blocks[b].page \in 1..Len(scanned.pages)
                 /\ scanned.blocks[b].lines \subseteq TextLines
                 /\ \A l \in scanned.blocks[b].lines : TextLine(l).page = scanned.blocks[b].page
<1> DEFINE LineSet == [page : 1..Len(scanned.pages), row : Nat, lanes : SUBSET {1, 2}, text : STRING, step : Nat]
           BlockSet == [page : 1..Len(scanned.pages), lines : SUBSET DOMAIN scanned.lines, kind : STRING, leaf : BOOLEAN]
<1>1. scanned.lines \in Seq(LineSet)
  BY ScansAssumption
<1>2. scanned.blocks \in Seq(BlockSet)
  BY ScansAssumption
<1>3. \A b \in DOMAIN scanned.blocks : scanned.blocks[b] \in BlockSet
  <2> HIDE DEF BlockSet
  <2>1. QED BY <1>2
<1>4. \A l \in DOMAIN scanned.lines : scanned.lines[l] \in LineSet
  <2> HIDE DEF LineSet
  <2>1. QED BY <1>1
<1>5. \E n \in Nat : TextLines = 1..n
  <2> HIDE DEF LineSet
  <2>1. QED BY <1>1 DEF TextLines
<1>6. \A l \in TextLines : TextLine(l).step \in Nat
  BY <1>4 DEF TextLines, TextLine
<1>7. \A b \in DOMAIN scanned.blocks : scanned.blocks[b].page \in 1..Len(scanned.pages) /\ scanned.blocks[b].lines \subseteq TextLines
  BY <1>3 DEF TextLines
<1>8. \A b \in DOMAIN scanned.blocks : \A l \in scanned.blocks[b].lines : TextLine(l).page = scanned.blocks[b].page
  BY ScansAssumption DEF TextLine
<1>9. QED BY <1>5, <1>6, <1>7, <1>8

LEMMA PagesAre ==
    ASSUME scanned \in Scans
    PROVE  /\ Len(scanned.pages) \in Nat /\ DOMAIN scanned.pages = 1..Len(scanned.pages)
           /\ \A p \in 1..Len(scanned.pages) : scanned.pages[p] \in Nat
<1>1. scanned.pages \in Seq(Nat)
  BY ScansAssumption
<1>2. QED BY <1>1

LEMMA StepsTyped ==
    ASSUME scanned \in Scans, NEW ls
    PROVE  StepsOf(ls) \in Seq(Nat)
<1> DEFINE one == [l \in TextLines |-> IF l \in ls /\ TextLine(l).step > 0 THEN <<TextLine(l).step>> ELSE <<>>]
<1>1. PICK n \in Nat : TextLines = 1..n /\ \A l \in 1..n : TextLine(l).step \in Nat
  BY LinesAre DEF TextLine
<1>2. \A l \in 1..n : one[l] \in Seq(Nat)
  BY <1>1
<1>3. one = [l \in 1..n |-> one[l]]
  BY <1>1
<1>4. StepsOf(ls) = FlattenSeq(one)
  BY DEF StepsOf
<1> HIDE DEF one
<1>5. one \in Seq(Seq(Nat))
  BY <1>2, <1>3
<1>6. QED BY <1>4, <1>5, FlattenTyped

LEMMA LinesFinite ==
    ASSUME scanned \in Scans
    PROVE  IsFiniteSet(TextLines)
<1>1. PICK n \in Nat : TextLines = 1..n
  BY LinesAre
<1>2. QED BY <1>1, FS_Interval

\* Each line is seen through one block, if any.
LEMMA ViewsHold ==
    ASSUME scanned \in Scans, views = Views
    PROVE  ViewsStand
<1>1. ASSUME NEW b \in DOMAIN scanned.blocks, SeenThrough(b) # {} PROVE ViewStands(View(b))
  <2> DEFINE ls == SeenThrough(b)
             v == View(b)
  <2>1. /\ v.lines = ls /\ v.page = scanned.blocks[b].page /\ v.steps = StepsOf(ls)
        /\ v.quantities = {l \in ls : TextLine(l).text = "quantity"}
    BY DEF View
  <2>2. scanned.blocks[b].page \in 1..Len(scanned.pages) /\ scanned.blocks[b].lines \subseteq TextLines
    BY LinesAre
  <2>3. \A l \in scanned.blocks[b].lines : TextLine(l).page = scanned.blocks[b].page
    BY LinesAre
  <2>4. ls \subseteq scanned.blocks[b].lines
    BY DEF SeenThrough
  <2>5. {l \in ls : TextLine(l).text = "quantity"} \subseteq ls
    OBVIOUS
  <2>6. StepsOf(ls) \in Seq(Nat)
    BY StepsTyped
  <2> HIDE DEF v, ls
  <2>7. QED BY <1>1, <2>1, <2>2, <2>3, <2>4, <2>5, <2>6 DEF ViewStands, v, ls
<1>2. ASSUME NEW b \in DOMAIN scanned.blocks, NEW c \in DOMAIN scanned.blocks,
             View(b).lines \cap View(c).lines # {}
      PROVE  b = c
  <2>1. PICK l : l \in SeenThrough(b) /\ l \in SeenThrough(c)
    BY <1>2 DEF View
  <2>2. Smallest(l) = {b} /\ Smallest(l) = {c}
    BY <2>1 DEF SeenThrough
  <2>3. QED BY <2>2
<1>3. QED BY <1>1, <1>2 DEF ViewsStand, Views

LEMMA StepsJoin ==
    ASSUME ViewsStand, NEW vs \in Seq(views), NEW ws \in Seq(views)
    PROVE  /\ StepsIn(vs) \in Seq(Nat) /\ StepsIn(ws) \in Seq(Nat)
           /\ StepsIn(vs \o ws) = StepsIn(vs) \o StepsIn(ws)
<1> DEFINE Of(us) == [i \in DOMAIN us |-> us[i].steps]
<1>1. ASSUME NEW us \in Seq(views) PROVE Of(us) \in Seq(Seq(Nat)) /\ Len(Of(us)) = Len(us)
  <2>1. PICK n \in Nat : DOMAIN us = 1..n /\ Len(us) = n
    OBVIOUS
  <2>2. \A i \in 1..n : us[i].steps \in Seq(Nat)
    BY <2>1 DEF ViewsStand, ViewStands
  <2>3. QED BY <2>1, <2>2
<1>2. \A us : StepsIn(us) = FlattenSeq(Of(us))
  BY DEF StepsIn
<1>3. vs \o ws \in Seq(views) /\ Len(vs \o ws) = Len(vs) + Len(ws)
  BY ConcatProperties
<1>4. Of(vs \o ws) = Of(vs) \o Of(ws)
  <2>1. \A i \in 1..(Len(vs) + Len(ws)) : Of(vs \o ws)[i] = (Of(vs) \o Of(ws))[i]
    <3>1. ASSUME NEW i \in 1..(Len(vs) + Len(ws)) PROVE Of(vs \o ws)[i] = (Of(vs) \o Of(ws))[i]
      <4>1. (Of(vs) \o Of(ws))[i] = IF i <= Len(vs) THEN Of(vs)[i] ELSE Of(ws)[i - Len(vs)]
        <5>1. Of(vs) \in Seq(Seq(Nat)) /\ Of(ws) \in Seq(Seq(Nat)) /\ Len(Of(vs)) = Len(vs) /\ Len(Of(ws)) = Len(ws)
          BY <1>1
        <5> HIDE DEF Of
        <5>2. QED BY <5>1, ConcatProperties
      <4>2. (vs \o ws)[i] = IF i <= Len(vs) THEN vs[i] ELSE ws[i - Len(vs)]
        BY ConcatProperties
      <4>3. Of(vs \o ws)[i] = (vs \o ws)[i].steps
        BY <1>3
      <4>4. /\ i <= Len(vs) => Of(vs)[i] = vs[i].steps
            /\ i > Len(vs) => Of(ws)[i - Len(vs)] = ws[i - Len(vs)].steps
        OBVIOUS
      <4> HIDE DEF Of
      <4>5. QED BY <4>1, <4>2, <4>3, <4>4
    <3>2. QED BY <3>1
  <2>2. Of(vs \o ws) \in Seq(Seq(Nat)) /\ Len(Of(vs \o ws)) = Len(vs) + Len(ws)
    BY <1>1, <1>3
  <2>3. Of(vs) \in Seq(Seq(Nat)) /\ Of(ws) \in Seq(Seq(Nat)) /\ Len(Of(vs)) = Len(vs) /\ Len(Of(ws)) = Len(ws)
    BY <1>1
  <2> HIDE DEF Of
  <2>4. Of(vs) \o Of(ws) \in Seq(Seq(Nat)) /\ Len(Of(vs) \o Of(ws)) = Len(vs) + Len(ws)
    <3>1. PICK a \in Seq(Seq(Nat)), b \in Seq(Seq(Nat)) : a = Of(vs) /\ b = Of(ws)
      BY <2>3
    <3>2. a \o b \in Seq(Seq(Nat)) /\ Len(a \o b) = Len(a) + Len(b)
      BY ConcatProperties
    <3>3. QED BY <2>3, <3>1, <3>2
  <2>5. QED BY <2>1, <2>2, <2>4, SeqEqual
<1>5. Of(vs) \in Seq(Seq(Nat)) /\ Of(ws) \in Seq(Seq(Nat))
  BY <1>1
<1> HIDE DEF Of
<1>6. QED BY <1>2, <1>4, <1>5, FlattenTyped, FlattenJoin

\* Views that begin with a step go on, up to any of them, from that step, in order if they all are.
LEMMA StepsUpTo ==
    ASSUME ViewsStand, NEW vs \in Seq(views), NEW j \in 1..Len(vs), vs[1].steps # <<>>
    PROVE  /\ StepsIn(SubSeq(vs, 1, j)) # <<>>
           /\ StepsIn(SubSeq(vs, 1, j))[1] = StepsIn(vs)[1]
           /\ Ascending(StepsIn(vs)) => Ascending(StepsIn(SubSeq(vs, 1, j)))
<1> DEFINE n == Len(vs)
           Part(i, k) == SubSeq(vs, i, k)
<1>1. n \in Nat /\ n >= 1 /\ \A i \in 1..n : vs[i] \in views
  OBVIOUS
<1>2. \A i \in 1..(n + 1), k \in 0..n : Part(i, k) \in Seq(views)
  <2>1. ASSUME NEW i \in 1..(n + 1), NEW k \in 0..n PROVE Part(i, k) \in Seq(views)
    <3>1. \A m \in i..k : vs[m] \in views
      BY <1>1
    <3>2. QED BY <1>1, <3>1, SubSeqProperties
  <2>2. QED BY <2>1
<1>3. Part(1, 1) \o Part(2, j) = Part(1, j) /\ Part(1, j) \o Part(j + 1, n) = vs
  <2>1. Part(1, 1) \o Part(2, j) = Part(1, j)
    <3>1. 1 \in 1..(Len(vs) + 1) /\ 1 \in (1 - 1)..Len(vs) /\ j \in 1..Len(vs)
      BY <1>1
    <3>2. SubSeq(vs, 1, 1) \o SubSeq(vs, 1 + 1, j) = SubSeq(vs, 1, j)
      BY <3>1, ConcatAdjacentSubSeq
    <3>3. 1 + 1 = 2
      OBVIOUS
    <3>4. QED BY <3>2, <3>3
  <2>2. Part(1, j) \o Part(j + 1, n) = Part(1, n)
    BY <1>1, ConcatAdjacentSubSeq
  <2>3. Part(1, n) = vs
    BY SubSeqFull
  <2>4. QED BY <2>1, <2>2, <2>3
<1>4. /\ Part(1, 1) \in Seq(views) /\ Part(2, j) \in Seq(views)
      /\ Part(1, j) \in Seq(views) /\ Part(j + 1, n) \in Seq(views)
  BY <1>1, <1>2
<1>5. StepsIn(Part(1, 1)) = vs[1].steps
  <2>1. Part(1, 1) = <<vs[1]>>
    <3>1. Part(1, 1) \in Seq(views) /\ Len(Part(1, 1)) = 1 /\ Part(1, 1)[1] = vs[1]
      <4>1. \A m \in 1..1 : vs[m] \in views
        BY <1>1
      <4>2. QED BY <4>1, SubSeqProperties
    <3> HIDE DEF Part
    <3>2. QED BY <3>1
  <2>2. StepsIn(<<vs[1]>>) = FlattenSeq(<<vs[1].steps>>)
    <3>1. [i \in DOMAIN <<vs[1]>> |-> <<vs[1]>>[i].steps] = <<vs[1].steps>>
      OBVIOUS
    <3>2. QED BY <3>1 DEF StepsIn
  <2>3. vs[1].steps \in Seq(Nat)
    BY <1>1 DEF ViewsStand, ViewStands
  <2>4. FlattenSeq(<<vs[1].steps>>) = vs[1].steps
    <3>1. PICK e \in Seq(Nat) : e = vs[1].steps
      BY <2>3
    <3>2. FlattenSeq(Append(<<>>, e)) = FlattenSeq(<<>>) \o e
      <4>1. <<>> \in Seq(Seq(Nat))
        OBVIOUS
      <4>2. QED BY <3>1, <4>1, FlattenAppend
    <3>3. Append(<<>>, e) = <<e>> /\ FlattenSeq(<<>>) = <<>> /\ <<>> \o e = e
      BY <3>1, ConcatEmptySeq DEF FlattenSeq
    <3>4. QED BY <3>1, <3>2, <3>3
  <2>5. QED BY <2>1, <2>2, <2>4
<1> HIDE DEF Part, n
<1> DEFINE a == StepsIn(Part(1, 1))
           b == StepsIn(Part(2, j))
           c == StepsIn(Part(1, j))
           d == StepsIn(Part(j + 1, n))
<1>6. a \in Seq(Nat) /\ b \in Seq(Nat) /\ c = a \o b
  BY <1>3, <1>4, StepsJoin
<1>7. c \in Seq(Nat) /\ d \in Seq(Nat) /\ StepsIn(vs) = c \o d
  BY <1>3, <1>4, StepsJoin
<1>8. a # <<>>
  BY <1>5
<1>9. c = StepsIn(SubSeq(vs, 1, j))
  BY DEF Part
<1> HIDE DEF a, b, c, d
<1>10. Len(a) >= 1 /\ Len(c) >= 1 /\ c # <<>>
  <2>1. Len(c) = Len(a) + Len(b) /\ Len(a) \in Nat \ {0} /\ Len(b) \in Nat
    BY <1>6, <1>8, ConcatProperties, EmptySeq
  <2>2. QED BY <2>1
<1>11. \A i \in 1..Len(c) : (c \o d)[i] = c[i]
  BY <1>7, ConcatProperties
<1>12. Len(c) <= Len(c \o d)
  BY <1>7, ConcatProperties
<1>13. Ascending(c \o d) => Ascending(c)
  <2>1. DOMAIN c = 1..Len(c) /\ DOMAIN (c \o d) = 1..Len(c \o d) /\ Len(c) \in Nat /\ Len(c \o d) \in Nat
    BY <1>7, ConcatProperties
  <2>2. QED BY <1>11, <1>12, <2>1 DEF Ascending
<1>14. QED BY <1>7, <1>9, <1>10, <1>11, <1>13
\* Groups of views of the snapshot, where one of them is.
Boxes ==
    [views : Seq(views), headed : BOOLEAN, lanes : {v.lanes : v \in views}, top : {v.top : v \in views},
     bottom : {v.bottom : v \in views}, page : {v.page : v \in views}]

ViewsIn(group) == ToSet(group.views)
OnPage(group, page) == \A v \in ViewsIn(group) : v.page = page

BoundaryTyped ==
    /\ ViewsStand
    /\ turn \in [page : 0..Len(scanned.pages), views : SUBSET views, headed : Seq(DOMAIN groups)]
    /\ groups \in Seq(Boxes) /\ orphans \in Seq(Boxes)
    /\ proposal \in {"none", "proposed"}

\* A group ends on its page, and its steps count on.
GroupStands(group) ==
    /\ group.views # <<>> /\ Last(group.views).page = group.page
    /\ \A v \in ViewsIn(group) : v.page <= turn.page
    /\ StepsCountOn(group.views)

\* What is left over is of this page, and no group could open with it.
OrphanStands(orphan) ==
    /\ orphan.views # <<>> /\ orphan.page = turn.page /\ OnPage(orphan, turn.page)
    /\ \A v \in ViewsIn(orphan) : ~OpensGroup(v)

\* Only groups of this page have more views gathered, and none that was continued.
HeadedStand == \A g \in ToSet(turn.headed) : OnPage(groups[g], turn.page)
LinksStand ==
    \A link \in continuations : link.group \in DOMAIN groups /\ link.group \notin ToSet(turn.headed) /\ ValidLink(link)

\* Every view of the pages so far is in one place.
PlacedOnce ==
    /\ \A v \in turn.views : v.page = turn.page
    /\ \A g \in DOMAIN groups : ViewsIn(groups[g]) \cap turn.views = {}
    /\ \A o \in DOMAIN orphans : ViewsIn(orphans[o]) \cap turn.views = {}
    /\ \A g, h \in DOMAIN groups : g # h => ViewsIn(groups[g]) \cap ViewsIn(groups[h]) = {}
    /\ \A o, p \in DOMAIN orphans : o # p => ViewsIn(orphans[o]) \cap ViewsIn(orphans[p]) = {}
    /\ \A g \in DOMAIN groups, o \in DOMAIN orphans : ViewsIn(groups[g]) \cap ViewsIn(orphans[o]) = {}
AllPlaced ==
    \A v \in views : v.page <= turn.page =>
        \/ v \in turn.views
        \/ \E g \in DOMAIN groups : v \in ViewsIn(groups[g])
        \/ \E o \in DOMAIN orphans : v \in ViewsIn(orphans[o])

BoundaryInv ==
    /\ BoundaryTyped
    /\ \A g \in DOMAIN groups : GroupStands(groups[g])
    /\ \A o \in DOMAIN orphans : OrphanStands(orphans[o])
    /\ HeadedStand /\ LinksStand /\ PlacedOnce /\ AllPlaced


\* The views and the box of a group of the snapshot.
LEMMA BoxIs ==
    ASSUME NEW g \in Boxes
    PROVE  /\ g.views \in Seq(views) /\ DOMAIN g.views = 1..Len(g.views) /\ Len(g.views) \in Nat
           /\ ViewsIn(g) \subseteq views
           /\ g.views # <<>> => /\ Last(g.views) \in ViewsIn(g) /\ Last(g.views) = g.views[Len(g.views)]
                                /\ Len(g.views) # 0
<1>1. g.views \in Seq(views)
  BY DEF Boxes
<1>2. DOMAIN g.views = 1..Len(g.views) /\ Len(g.views) \in Nat /\ \A i \in 1..Len(g.views) : g.views[i] \in views
  BY <1>1
<1>3. g.views # <<>> => Len(g.views) # 0
  BY <1>1, EmptySeq
<1>4. QED BY <1>1, <1>2, <1>3 DEF ViewsIn, ToSet, Last

LEMMA WithIs ==
    ASSUME NEW g \in Boxes, NEW view \in views
    PROVE  /\ With(g, view) \in Boxes
           /\ [With(g, view) EXCEPT !.lanes = view.lanes, !.bottom = view.bottom] \in Boxes
           /\ With(g, view).views = Append(g.views, view) /\ With(g, view).page = g.page
           /\ [With(g, view) EXCEPT !.lanes = view.lanes, !.bottom = view.bottom].views = Append(g.views, view)
           /\ [With(g, view) EXCEPT !.lanes = view.lanes, !.bottom = view.bottom].page = g.page
<1>1. g.views \in Seq(views)
  BY DEF Boxes
<1>2. Append(g.views, view) \in Seq(views)
  BY <1>1, AppendProperties
<1>3. view.lanes \in {v.lanes : v \in views} /\ view.bottom \in {v.bottom : v \in views}
  OBVIOUS
<1> DEFINE more == With(g, view)
<1>4. more = [g EXCEPT !.views = Append(g.views, view)]
  BY DEF With
<1>5. more \in Boxes /\ more.views = Append(g.views, view) /\ more.page = g.page
  BY <1>2, <1>4 DEF Boxes
<1> HIDE DEF more
<1> DEFINE moved == [more EXCEPT !.lanes = view.lanes, !.bottom = view.bottom]
<1>6. moved \in Boxes
  BY <1>3, <1>5 DEF Boxes
<1>7. moved.views = more.views /\ moved.page = more.page
  BY <1>5 DEF Boxes
<1>8. QED BY <1>5, <1>6, <1>7 DEF more

LEMMA AppendViews ==
    ASSUME NEW g \in Boxes, NEW h, NEW view \in views, h.views = Append(g.views, view)
    PROVE  ViewsIn(h) = ViewsIn(g) \cup {view} /\ h.views # <<>> /\ Last(h.views) = view
<1>1. g.views \in Seq(views)
  BY DEF Boxes
<1>2. PICK n \in Nat : Len(g.views) = n /\ DOMAIN g.views = 1..n
  BY <1>1
<1>3. /\ h.views \in Seq(views) /\ Len(h.views) = n + 1 /\ h.views # <<>> /\ h.views[n + 1] = view
      /\ \A i \in 1..n : h.views[i] = g.views[i]
  BY <1>1, <1>2, AppendProperties
<1>4. DOMAIN h.views = 1..(n + 1)
  BY <1>3
<1>5. 1..(n + 1) = (1..n) \cup {n + 1}
  BY <1>2
<1>6. ToSet(h.views) = {h.views[i] : i \in 1..n} \cup {h.views[n + 1]}
  BY <1>4, <1>5 DEF ToSet
<1>7. ToSet(g.views) = {g.views[i] : i \in 1..n}
  BY <1>2 DEF ToSet
<1>8. QED BY <1>3, <1>6, <1>7 DEF ViewsIn, Last

LEMMA GroupOfIs ==
    ASSUME NEW view \in views, NEW headed \in BOOLEAN
    PROVE  /\ GroupOf(view, headed) \in Boxes /\ GroupOf(view, headed).views = <<view>>
           /\ GroupOf(view, headed).page = view.page
           /\ ViewsIn(GroupOf(view, headed)) = {view} /\ Last(<<view>>) = view
<1>1. GroupOf(view, headed) \in Boxes /\ GroupOf(view, headed).views = <<view>> /\ GroupOf(view, headed).page = view.page
  BY DEF GroupOf, Boxes
<1>2. ToSet(<<view>>) = {view} /\ Last(<<view>>) = view
  BY DEF ToSet, Last
<1>3. QED BY <1>1, <1>2 DEF ViewsIn

\* Views of one page go over to no other.
LEMMA OnePageCounts ==
    ASSUME NEW vs \in Seq(views), NEW page, \A v \in ToSet(vs) : v.page = page
    PROVE  StepsCountOn(vs)
<1>1. PICK n \in Nat : DOMAIN vs = 1..n
  OBVIOUS
<1>2. \A i \in 1..n : vs[i].page = page
  BY <1>1 DEF ToSet
<1>3. ASSUME NEW i \in 1..n, NEW j \in 1..n, i < j PROVE vs[i].page = vs[i + 1].page
  <2>1. i + 1 \in 1..n
    BY <1>3
  <2>2. QED BY <1>2, <2>1
<1>4. QED BY <1>1, <1>3 DEF StepsCountOn

LEMMA JoinViews ==
    ASSUME NEW vs \in Seq(views), NEW ws \in Seq(views)
    PROVE  ToSet(vs \o ws) = ToSet(vs) \cup ToSet(ws)
<1>1. PICK n \in Nat, m \in Nat : Len(vs) = n /\ Len(ws) = m /\ DOMAIN vs = 1..n /\ DOMAIN ws = 1..m
  OBVIOUS
<1> DEFINE us == vs \o ws
<1>2. us \in Seq(views) /\ Len(us) = n + m /\ \A i \in 1..(n + m) : us[i] = IF i <= n THEN vs[i] ELSE ws[i - n]
  BY <1>1, ConcatProperties
<1>3. DOMAIN us = 1..(n + m)
  BY <1>2
<1> HIDE DEF us
<1>4. ASSUME NEW i \in 1..(n + m) PROVE us[i] \in ToSet(vs) \cup ToSet(ws)
  <2>1. CASE i <= n
    <3>1. i \in 1..n
      BY <2>1
    <3>2. QED BY <1>1, <1>2, <2>1, <3>1 DEF ToSet
  <2>2. CASE i > n
    <3>1. i - n \in 1..m /\ ~(i <= n)
      BY <1>1, <2>2
    <3>2. QED BY <1>1, <1>2, <3>1 DEF ToSet
  <2>3. QED BY <2>1, <2>2
<1>5. ASSUME NEW i \in 1..n PROVE vs[i] \in ToSet(us)
  <2>1. i \in 1..(n + m) /\ i <= n
    BY <1>1
  <2>2. QED BY <1>2, <1>3, <2>1 DEF ToSet
<1>6. ASSUME NEW i \in 1..m PROVE ws[i] \in ToSet(us)
  <2>1. n + i \in 1..(n + m) /\ ~(n + i <= n) /\ (n + i) - n = i
    BY <1>1
  <2>2. QED BY <1>2, <1>3, <2>1 DEF ToSet
<1>7. QED BY <1>1, <1>3, <1>4, <1>5, <1>6 DEF ToSet, us

\* Views that begin with the next step, on the next page, go on with it.
LEMMA ContinuedCounts ==
    ASSUME ViewsStand, NEW vs \in Seq(views), NEW ws \in Seq(views), vs # <<>>, ws # <<>>, NEW page,
           \A w \in ToSet(ws) : w.page = page, Last(vs).page # page, Physical(page) = Physical(Last(vs).page) + 1,
           ws[1].steps # <<>>, Ascending(StepsIn(ws)), StepsIn(ws)[1] = StepAfter(vs), StepsCountOn(vs)
    PROVE  StepsCountOn(vs \o ws)
<1>1. PICK n \in Nat \ {0}, m \in Nat \ {0} : Len(vs) = n /\ Len(ws) = m /\ DOMAIN vs = 1..n /\ DOMAIN ws = 1..m
  BY EmptySeq
<1> DEFINE us == vs \o ws
<1>2. us \in Seq(views) /\ Len(us) = n + m /\ \A i \in 1..(n + m) : us[i] = IF i <= n THEN vs[i] ELSE ws[i - n]
  BY <1>1, ConcatProperties
<1>3. DOMAIN us = 1..(n + m)
  BY <1>2
<1>4. \A i \in 1..n : us[i] = vs[i]
  BY <1>1, <1>2
<1>5. \A i \in (n + 1)..(n + m) : us[i].page = page
  <2>1. ASSUME NEW i \in (n + 1)..(n + m) PROVE us[i].page = page
    <3>1. i - n \in 1..m /\ ~(i <= n) /\ i \in 1..(n + m)
      BY <1>1
    <3>2. us[i] = ws[i - n]
      BY <1>2, <3>1
    <3>3. QED BY <1>1, <3>1, <3>2 DEF ToSet
  <2>2. QED BY <2>1
<1>6. Last(vs) = vs[n]
  BY <1>1 DEF Last
<1>7. \A i, j \in 1..n : SubSeq(us, i, j) = SubSeq(vs, i, j)
  BY <1>1, SubSeqOfConcat1
<1>8. \A j \in (n + 1)..(n + m) : SubSeq(us, n + 1, j) = SubSeq(ws, 1, j - n)
  <2>1. ASSUME NEW j \in (n + 1)..(n + m) PROVE SubSeq(us, n + 1, j) = SubSeq(ws, 1, j - n)
    <3>1. n + 1 \in (Len(vs) + 1)..(Len(vs) + Len(ws)) /\ j \in (Len(vs) + 1)..(Len(vs) + Len(ws))
      BY <1>1
    <3>2. SubSeq(us, n + 1, j) = SubSeq(ws, (n + 1) - Len(vs), j - Len(vs))
      BY <3>1, SubSeqOfConcat2
    <3>3. (n + 1) - n = 1
      BY <1>1
    <3>4. QED BY <1>1, <3>2, <3>3
  <2>2. QED BY <2>1
<1>9. us[n + 1] = ws[1]
  <2>1. n + 1 \in 1..(n + m) /\ ~(n + 1 <= n) /\ (n + 1) - n = 1
    BY <1>1
  <2>2. QED BY <1>2, <2>1
<1> HIDE DEF us
<1>10. ASSUME NEW i \in 1..(n + m), NEW j \in 1..(n + m), i < j, us[i].page # us[i + 1].page,
              \A k \in (i + 1)..j : us[k].page = us[i + 1].page
       PROVE  LET on == StepsIn(SubSeq(us, i + 1, j)) IN
              /\ Physical(us[i + 1].page) = Physical(us[i].page) + 1
              /\ on # <<>> /\ on[1] = StepAfter(SubSeq(us, 1, i)) /\ Ascending(on)
  <2>1. CASE j <= n
    <3>1. i \in 1..n /\ j \in 1..n /\ i + 1 \in 1..n /\ 1 \in 1..n
      BY <1>10, <2>1
    <3>2. us[i] = vs[i] /\ us[i + 1] = vs[i + 1] /\ \A k \in (i + 1)..j : k \in 1..n /\ us[k] = vs[k]
      BY <1>4, <3>1
    <3>3. vs[i].page # vs[i + 1].page /\ \A k \in (i + 1)..j : vs[k].page = vs[i + 1].page
      BY <1>10, <3>2
    <3>4. SubSeq(us, i + 1, j) = SubSeq(vs, i + 1, j) /\ SubSeq(us, 1, i) = SubSeq(vs, 1, i)
      BY <1>7, <3>1
    <3>5. LET on == StepsIn(SubSeq(vs, i + 1, j)) IN
          /\ Physical(vs[i + 1].page) = Physical(vs[i].page) + 1
          /\ on # <<>> /\ on[1] = StepAfter(SubSeq(vs, 1, i)) /\ Ascending(on)
      BY <1>1, <1>10, <3>1, <3>3 DEF StepsCountOn
    <3>6. QED BY <3>2, <3>4, <3>5
  <2>2. CASE j > n /\ i < n
    <3>1. n \in (i + 1)..j /\ j \in (i + 1)..j /\ n \in 1..n /\ j \in (n + 1)..(n + m)
      BY <1>10, <2>2
    <3>2. us[n].page = us[j].page
      BY <1>10, <3>1
    <3>3. QED BY <1>4, <1>5, <1>6, <3>1, <3>2
  <2>3. CASE i = n
    <3>1. j \in (n + 1)..(n + m) /\ j - n \in 1..Len(ws) /\ i + 1 = n + 1 /\ n \in 1..n /\ 1 \in 1..n /\ 1 \in 1..m
      BY <1>1, <1>10, <2>3
    <3>2. SubSeq(us, i + 1, j) = SubSeq(ws, 1, j - n)
      BY <1>8, <2>3, <3>1
    <3>3. SubSeq(us, 1, i) = vs
      BY <1>1, <1>7, <2>3, <3>1, SubSeqFull
    <3>4. Physical(us[i + 1].page) = Physical(us[i].page) + 1
      <4>1. us[i] = Last(vs) /\ us[i + 1] = ws[1]
        BY <1>4, <1>6, <1>9, <2>3, <3>1
      <4>2. ws[1].page = page
        BY <1>1, <3>1 DEF ToSet
      <4>3. QED BY <4>1, <4>2
    <3>5. /\ StepsIn(SubSeq(ws, 1, j - n)) # <<>> /\ StepsIn(SubSeq(ws, 1, j - n))[1] = StepsIn(ws)[1]
          /\ Ascending(StepsIn(SubSeq(ws, 1, j - n)))
      BY <3>1, StepsUpTo
    <3>6. QED BY <3>2, <3>3, <3>4, <3>5
  <2>4. CASE i > n
    <3>1. i \in (n + 1)..(n + m) /\ i + 1 \in (n + 1)..(n + m)
      BY <1>10, <2>4
    <3>2. QED BY <1>5, <1>10, <3>1
  <2>5. QED BY <1>10, <2>1, <2>2, <2>3, <2>4
<1>11. QED BY <1>3, <1>10 DEF StepsCountOn, us

\* A recipe that goes on with such views is still one.
LEMMA StillRecipe ==
    ASSUME ViewsStand, NEW g, NEW h, g.views \in Seq(views), KindOfGroup(g) = "recipe", NEW ws \in Seq(views),
           h.views = g.views \o ws, h.headed = g.headed, \A w \in ToSet(ws) : ~OpensGroup(w)
    PROVE  KindOfGroup(h) = "recipe"
<1>1. /\ "reference" \notin {g.views[i].kind : i \in DOMAIN g.views}
      /\ "passage" \notin {g.views[i].kind : i \in DOMAIN g.views}
      /\ ~\E i \in DOMAIN g.views : g.views[i].kind \in Headings /\ g.views[i].text = "menu"
      /\ g.headed /\ StepsIn(g.views) # <<>> /\ StepsIn(g.views)[1] = 1 /\ Cardinality(QuantitiesIn(g)) >= 2
  BY DEF KindOfGroup
<1>2. \A v \in ToSet(g.views) : v.kind \notin {"reference", "passage"} /\ ~(v.kind \in Headings /\ v.text = "menu")
  BY <1>1 DEF ToSet
<1>3. \A v \in ToSet(ws) : v.kind \notin {"reference", "passage"} /\ ~(v.kind \in Headings /\ v.text = "menu")
  BY DEF OpensGroup, IsHeading, IsPart
<1>4. \A v \in ToSet(h.views) : v.kind \notin {"reference", "passage"} /\ ~(v.kind \in Headings /\ v.text = "menu")
  BY <1>2, <1>3, JoinViews
<1>5. StepsIn(h.views) # <<>> /\ StepsIn(h.views)[1] = 1
  <2>1. PICK a \in Seq(Nat), b \in Seq(Nat) : a = StepsIn(g.views) /\ StepsIn(h.views) = a \o b
    <3>1. /\ StepsIn(g.views) \in Seq(Nat) /\ StepsIn(ws) \in Seq(Nat)
          /\ StepsIn(g.views \o ws) = StepsIn(g.views) \o StepsIn(ws)
      BY StepsJoin
    <3>2. QED BY <3>1
  <2>2. a # <<>> /\ a[1] = 1 /\ Len(a) \in Nat \ {0} /\ Len(b) \in Nat
    BY <1>1, <2>1, EmptySeq
  <2>3. Len(a \o b) = Len(a) + Len(b) /\ (a \o b)[1] = a[1] /\ a \o b \in Seq(Nat)
    BY <2>1, <2>2, ConcatProperties
  <2>4. a \o b # <<>>
    BY <2>2, <2>3
  <2>5. QED BY <2>1, <2>2, <2>3, <2>4
<1>6. Cardinality(QuantitiesIn(h)) >= 2
  <2>1. QuantitiesIn(g) = UNION {v.quantities : v \in ToSet(g.views)}
    BY DEF QuantitiesIn, ToSet
  <2>2. QuantitiesIn(h) = UNION {v.quantities : v \in ToSet(h.views)}
    BY DEF QuantitiesIn, ToSet
  <2>3. QuantitiesIn(g) \subseteq QuantitiesIn(h)
    BY <2>1, <2>2, JoinViews
  <2>4. IsFiniteSet(QuantitiesIn(h))
    <3>1. \A v \in ToSet(h.views) : v \in views
      <4>1. h.views \in Seq(views)
        BY ConcatProperties
      <4>2. QED BY <4>1 DEF ToSet
    <3>2. \A v \in ToSet(h.views) : v.quantities \subseteq TextLines
      BY <3>1 DEF ViewsStand, ViewStands
    <3>3. QuantitiesIn(h) \subseteq TextLines
      BY <2>2, <3>2
    <3>4. IsFiniteSet(TextLines)
      BY LinesFinite DEF ViewsStand
    <3>5. QED BY <3>3, <3>4, FS_Subset
  <2>5. Cardinality(QuantitiesIn(g)) <= Cardinality(QuantitiesIn(h)) /\ IsFiniteSet(QuantitiesIn(g))
    BY <2>3, <2>4, FS_Subset
  <2>6. Cardinality(QuantitiesIn(g)) \in Nat /\ Cardinality(QuantitiesIn(h)) \in Nat
    BY <2>4, <2>5, FS_CardinalityType
  <2>7. QED BY <1>1, <2>5, <2>6
<1>7. /\ "reference" \notin {h.views[i].kind : i \in DOMAIN h.views}
      /\ "passage" \notin {h.views[i].kind : i \in DOMAIN h.views}
      /\ ~\E i \in DOMAIN h.views : h.views[i].kind \in Headings /\ h.views[i].text = "menu"
  BY <1>4 DEF ToSet
<1>8. QED BY <1>1, <1>5, <1>6, <1>7 DEF KindOfGroup

LEMMA BoundaryFacts ==
    ASSUME BoundaryInv
    PROVE  /\ DOMAIN groups = 1..Len(groups) /\ Len(groups) \in Nat /\ \A g \in DOMAIN groups : groups[g] \in Boxes
           /\ DOMAIN orphans = 1..Len(orphans) /\ Len(orphans) \in Nat /\ \A o \in DOMAIN orphans : orphans[o] \in Boxes
           /\ turn.page \in 0..Len(scanned.pages) /\ Len(scanned.pages) \in Nat /\ turn.views \subseteq views
           /\ turn.headed \in Seq(DOMAIN groups) /\ ToSet(turn.headed) \subseteq DOMAIN groups
           /\ turn = [page |-> turn.page, views |-> turn.views, headed |-> turn.headed]
<1>1. DOMAIN groups = 1..Len(groups) /\ Len(groups) \in Nat /\ \A g \in DOMAIN groups : groups[g] \in Boxes
  BY DEF BoundaryInv, BoundaryTyped
<1>2. DOMAIN orphans = 1..Len(orphans) /\ Len(orphans) \in Nat /\ \A o \in DOMAIN orphans : orphans[o] \in Boxes
  BY DEF BoundaryInv, BoundaryTyped
<1>3. /\ turn.page \in 0..Len(scanned.pages) /\ turn.views \subseteq views /\ turn.headed \in Seq(DOMAIN groups)
      /\ turn = [page |-> turn.page, views |-> turn.views, headed |-> turn.headed]
  BY DEF BoundaryInv, BoundaryTyped
<1>4. ToSet(turn.headed) \subseteq DOMAIN groups
  <2>1. \A i \in DOMAIN turn.headed : turn.headed[i] \in DOMAIN groups
    BY <1>3
  <2>2. QED BY <2>1 DEF ToSet
<1>5. Len(scanned.pages) \in Nat
  BY PagesAre DEF BoundaryInv, BoundaryTyped, ViewsStand
<1>6. QED BY <1>1, <1>2, <1>3, <1>4, <1>5

\* What says nothing of what belongs together stays.
LEMMA ScanStays ==
    ASSUME scanned' = scanned, views' = views
    PROVE  /\ ViewsStand' <=> ViewsStand
           /\ Boxes' = Boxes
           /\ \A vs : StepsCountOn(vs)' <=> StepsCountOn(vs)
<1>1. ViewsStand' <=> ViewsStand
  BY DEF ViewsStand, ViewStands, TextLines, TextLine
<1>2. Boxes' = Boxes
  BY DEF Boxes
<1>3. \A vs : StepsCountOn(vs)' <=> StepsCountOn(vs)
  BY DEF StepsCountOn, Physical
<1>4. QED BY <1>1, <1>2, <1>3

LEMMA LinkStays ==
    ASSUME NEW link, ValidLink(link), scanned' = scanned, groups'[link.group] = groups[link.group]
    PROVE  ValidLink(link)'
BY DEF ValidLink, Physical, TextLine

\* A group of the page has one more view of it.
LEMMA AddedKeeps ==
    ASSUME BoundaryInv, NEW view \in turn.views, NEW g \in ToSet(turn.headed), NEW more \in Boxes,
           more.views = Append(groups[g].views, view), more.page = groups[g].page,
           groups' = [groups EXCEPT ![g] = more], turn' = Onward(view),
           UNCHANGED <<scanned, views, orphans, continuations, proposal>>
    PROVE  BoundaryInv'
<1>1. g \in DOMAIN groups /\ groups[g] \in Boxes /\ view \in views /\ groups[g].views # <<>>
  BY BoundaryFacts DEF BoundaryInv, GroupStands
<1>2. /\ turn'.page = turn.page /\ turn'.views = turn.views \ {view} /\ turn'.headed = turn.headed
      /\ turn' = [page |-> turn'.page, views |-> turn'.views, headed |-> turn'.headed]
  BY BoundaryFacts DEF Onward
<1>3. DOMAIN groups' = DOMAIN groups /\ groups'[g] = more /\ \A h \in DOMAIN groups : h # g => groups'[h] = groups[h]
  BY <1>1, BoundaryFacts
<1>4. groups' \in Seq(Boxes)
  BY <1>1 DEF BoundaryInv, BoundaryTyped
<1>5. ViewsIn(more) = ViewsIn(groups[g]) \cup {view} /\ more.views # <<>> /\ Last(more.views) = view
  BY <1>1, AppendViews
<1>6. OnPage(groups[g], turn.page) /\ view.page = turn.page
  BY DEF BoundaryInv, HeadedStand, PlacedOnce
<1>7. OnPage(more, turn.page)
  BY <1>5, <1>6 DEF OnPage
<1>8. BoundaryTyped'
  <2>1. turn' \in [page : 0..Len(scanned.pages), views : SUBSET views, headed : Seq(DOMAIN groups)]
    BY <1>2, BoundaryFacts
  <2>2. QED BY <1>3, <1>4, <2>1, ScanStays DEF BoundaryInv, BoundaryTyped
<1>9. ASSUME NEW h \in DOMAIN groups PROVE GroupStands(groups[h])'
  <2>1. CASE h = g
    <3>1. more.page = turn.page
      <4>1. Last(groups[g].views) \in ViewsIn(groups[g]) /\ Last(groups[g].views).page = groups[g].page
        BY <1>1, BoxIs DEF BoundaryInv, GroupStands
      <4>2. QED BY <1>6, <4>1 DEF OnPage
    <3>2. \A v \in ViewsIn(more) : v.page <= turn.page
      BY <1>7, BoundaryFacts DEF OnPage
    <3>3. StepsCountOn(more.views)
      BY <1>7, BoxIs, OnePageCounts DEF OnPage, ViewsIn
    <3>4. QED BY <1>2, <1>3, <1>5, <1>6, <2>1, <3>1, <3>2, <3>3, ScanStays DEF GroupStands
  <2>2. CASE h # g
    <3>1. GroupStands(groups[h])
      BY DEF BoundaryInv
    <3>2. QED BY <1>2, <1>3, <2>2, <3>1, ScanStays DEF GroupStands
  <2>3. QED BY <2>1, <2>2
<1>10. ASSUME NEW o \in DOMAIN orphans PROVE OrphanStands(orphans[o])'
  BY <1>2 DEF BoundaryInv, OrphanStands, OnPage
<1>11. HeadedStand'
  <2>1. ASSUME NEW h \in ToSet(turn.headed) PROVE OnPage(groups'[h], turn.page)
    BY <1>3, <1>7, BoundaryFacts DEF BoundaryInv, HeadedStand
  <2>2. QED BY <1>2, <2>1 DEF HeadedStand
<1>12. LinksStand'
  <2>1. ASSUME NEW link \in continuations
        PROVE  link.group \in DOMAIN groups /\ link.group \notin ToSet(turn.headed) /\ ValidLink(link)'
    <3>1. link.group \in DOMAIN groups /\ link.group \notin ToSet(turn.headed) /\ ValidLink(link)
      BY DEF BoundaryInv, LinksStand
    <3>2. groups'[link.group] = groups[link.group]
      BY <1>3, <3>1
    <3>3. QED BY <3>1, <3>2, LinkStays
  <2>2. QED BY <1>2, <1>3, <2>1 DEF LinksStand
<1>13. PlacedOnce'
  <2>1. \A h \in DOMAIN groups : ViewsIn(groups'[h]) = IF h = g THEN ViewsIn(groups[h]) \cup {view} ELSE ViewsIn(groups[h])
    BY <1>3, <1>5
  <2>2. \A h \in DOMAIN groups : view \notin ViewsIn(groups[h])
    BY DEF BoundaryInv, PlacedOnce
  <2>3. \A o \in DOMAIN orphans : view \notin ViewsIn(orphans[o])
    BY DEF BoundaryInv, PlacedOnce
  <2>4. \A v \in turn'.views : v.page = turn'.page
    BY <1>2 DEF BoundaryInv, PlacedOnce
  <2>5. \A h \in DOMAIN groups : ViewsIn(groups'[h]) \cap turn'.views = {}
    BY <1>2, <2>1 DEF BoundaryInv, PlacedOnce
  <2>6. \A o \in DOMAIN orphans : ViewsIn(orphans[o]) \cap turn'.views = {}
    BY <1>2 DEF BoundaryInv, PlacedOnce
  <2>7. \A h, k \in DOMAIN groups : h # k => ViewsIn(groups'[h]) \cap ViewsIn(groups'[k]) = {}
    <3>1. \A h, k \in DOMAIN groups : h # k => ViewsIn(groups[h]) \cap ViewsIn(groups[k]) = {}
      BY DEF BoundaryInv, PlacedOnce
    <3>2. ASSUME NEW h \in DOMAIN groups, NEW k \in DOMAIN groups, h # k,
                 NEW v \in ViewsIn(groups'[h]), v \in ViewsIn(groups'[k])
          PROVE  FALSE
      <4>1. CASE v = view
        BY <2>1, <2>2, <3>2, <4>1
      <4>2. CASE v # view
        <5>1. v \in ViewsIn(groups[h]) /\ v \in ViewsIn(groups[k])
          BY <2>1, <3>2, <4>2
        <5>2. QED BY <3>1, <3>2, <5>1
      <4>3. QED BY <4>1, <4>2
    <3>3. QED BY <3>2
  <2>8. \A h \in DOMAIN groups, o \in DOMAIN orphans : ViewsIn(groups'[h]) \cap ViewsIn(orphans[o]) = {}
    BY <2>1, <2>3 DEF BoundaryInv, PlacedOnce
  <2>9. \A o, p \in DOMAIN orphans : o # p => ViewsIn(orphans[o]) \cap ViewsIn(orphans[p]) = {}
    BY DEF BoundaryInv, PlacedOnce
  <2>10. QED BY <1>3, <2>4, <2>5, <2>6, <2>7, <2>8, <2>9 DEF PlacedOnce
<1>14. AllPlaced'
  <2>1. ASSUME NEW v \in views, v.page <= turn.page
        PROVE  v \in turn'.views \/ (\E h \in DOMAIN groups : v \in ViewsIn(groups'[h])) \/ (\E o \in DOMAIN orphans : v \in ViewsIn(orphans[o]))
    <3>1. CASE v \in turn.views
      BY <1>1, <1>2, <1>3, <1>5, <3>1
    <3>2. CASE v \notin turn.views
      <4>1. (\E h \in DOMAIN groups : v \in ViewsIn(groups[h])) \/ (\E o \in DOMAIN orphans : v \in ViewsIn(orphans[o]))
        BY <2>1, <3>2 DEF BoundaryInv, AllPlaced
      <4>2. \A h \in DOMAIN groups : ViewsIn(groups[h]) \subseteq ViewsIn(groups'[h])
        BY <1>3, <1>5
      <4>3. QED BY <4>1, <4>2
    <3>3. QED BY <3>1, <3>2
  <2>2. QED BY <1>2, <1>3, <2>1 DEF AllPlaced, ViewsIn
<1>15. QED BY <1>3, <1>8, <1>9, <1>10, <1>11, <1>12, <1>13, <1>14 DEF BoundaryInv

LEMMA OneMore ==
    ASSUME BoundaryInv, NEW more \in Boxes, groups' = Append(groups, more)
    PROVE  /\ DOMAIN groups' = DOMAIN groups \cup {Len(groups) + 1} /\ groups'[Len(groups) + 1] = more
           /\ Len(groups) + 1 \notin DOMAIN groups
           /\ \A h \in DOMAIN groups : groups'[h] = groups[h]
           /\ groups' \in Seq(Boxes)
<1>1. groups \in Seq(Boxes)
  BY DEF BoundaryInv, BoundaryTyped
<1>2. PICK n \in Nat : n = Len(groups) /\ DOMAIN groups = 1..n
  BY <1>1
<1>3. /\ groups' \in Seq(Boxes) /\ Len(groups') = n + 1 /\ groups'[n + 1] = more
      /\ \A h \in 1..n : groups'[h] = groups[h]
  BY <1>1, <1>2, AppendProperties
<1>4. DOMAIN groups' = 1..(n + 1)
  BY <1>3
<1>5. 1..(n + 1) = (1..n) \cup {n + 1} /\ n + 1 \notin 1..n
  BY <1>2
<1>6. QED BY <1>2, <1>3, <1>4, <1>5

LEMMA OpenGroupKeeps ==
    ASSUME BoundaryInv, NEW view \in turn.views, OpenGroup(view)
    PROVE  BoundaryInv'
<1> DEFINE n == Len(groups)
           more == GroupOf(view, IsHeading(view))
<1>1. view \in views /\ view.page = turn.page /\ IsHeading(view) \in BOOLEAN
  BY BoundaryFacts DEF BoundaryInv, PlacedOnce, IsHeading
<1>2. more \in Boxes /\ more.views = <<view>> /\ more.page = view.page /\ ViewsIn(more) = {view} /\ Last(<<view>>) = view
  BY <1>1, GroupOfIs
<1>3. /\ groups' = Append(groups, more)
      /\ scanned' = scanned /\ views' = views /\ orphans' = orphans /\ continuations' = continuations
      /\ proposal' = proposal
  BY DEF OpenGroup
<1>4. /\ turn'.page = turn.page /\ turn'.views = turn.views \ {view} /\ turn'.headed = Append(turn.headed, n + 1)
      /\ turn' = [page |-> turn'.page, views |-> turn'.views, headed |-> turn'.headed]
  BY BoundaryFacts DEF OpenGroup, Onward
<1> HIDE DEF more
<1>5. /\ DOMAIN groups' = DOMAIN groups \cup {n + 1} /\ groups'[n + 1] = more /\ n + 1 \notin DOMAIN groups
      /\ (\A h \in DOMAIN groups : groups'[h] = groups[h]) /\ groups' \in Seq(Boxes)
  BY <1>2, <1>3, OneMore
<1> HIDE DEF n
<1>6. turn'.headed \in Seq(DOMAIN groups') /\ ToSet(turn'.headed) = ToSet(turn.headed) \cup {n + 1}
  <2>1. turn.headed \in Seq(DOMAIN groups')
    BY <1>5, BoundaryFacts, SeqMonotonic
  <2>2. PICK m \in Nat : Len(turn.headed) = m /\ DOMAIN turn.headed = 1..m
    BY <2>1
  <2>3. /\ turn'.headed \in Seq(DOMAIN groups') /\ Len(turn'.headed) = m + 1 /\ turn'.headed[m + 1] = n + 1
        /\ \A i \in 1..m : turn'.headed[i] = turn.headed[i]
    BY <1>4, <1>5, <2>1, <2>2, AppendProperties
  <2>4. DOMAIN turn'.headed = (1..m) \cup {m + 1}
    BY <2>2, <2>3
  <2>5. QED BY <2>2, <2>3, <2>4 DEF ToSet
<1>7. OnPage(more, turn.page)
  BY <1>1, <1>2 DEF OnPage
<1>8. BoundaryTyped'
  <2>1. turn' \in [page : 0..Len(scanned.pages), views : SUBSET views, headed : Seq(DOMAIN groups')]
    BY <1>4, <1>6, BoundaryFacts
  <2>2. QED BY <1>3, <1>5, <2>1, ScanStays DEF BoundaryInv, BoundaryTyped
<1>9. ASSUME NEW h \in DOMAIN groups' PROVE GroupStands(groups[h])'
  <2>1. CASE h = n + 1
    <3>1. more.views # <<>> /\ more.views \in Seq(views)
      BY <1>2, BoxIs
    <3>2. StepsCountOn(more.views)
      BY <1>7, <3>1, OnePageCounts DEF OnPage, ViewsIn
    <3>3. \A v \in ViewsIn(more) : v.page <= turn.page
      BY <1>1, <1>2, BoundaryFacts
    <3>4. QED BY <1>2, <1>3, <1>4, <1>5, <2>1, <3>1, <3>2, <3>3, ScanStays DEF GroupStands
  <2>2. CASE h # n + 1
    <3>1. GroupStands(groups[h]) /\ groups'[h] = groups[h]
      BY <1>5, <2>2 DEF BoundaryInv
    <3>2. QED BY <1>3, <1>4, <3>1, ScanStays DEF GroupStands
  <2>3. QED BY <2>1, <2>2
<1>10. ASSUME NEW o \in DOMAIN orphans PROVE OrphanStands(orphans[o])'
  BY <1>3, <1>4 DEF BoundaryInv, OrphanStands, OnPage
<1>11. HeadedStand'
  <2>1. ASSUME NEW h \in ToSet(turn'.headed) PROVE OnPage(groups'[h], turn.page)
    BY <1>5, <1>6, <1>7, BoundaryFacts DEF BoundaryInv, HeadedStand
  <2>2. QED BY <1>4, <2>1 DEF HeadedStand
<1>12. LinksStand'
  <2>1. ASSUME NEW link \in continuations
        PROVE  link.group \in DOMAIN groups' /\ link.group \notin ToSet(turn'.headed) /\ ValidLink(link)'
    <3>1. link.group \in DOMAIN groups /\ link.group \notin ToSet(turn.headed) /\ ValidLink(link)
      BY DEF BoundaryInv, LinksStand
    <3>2. groups'[link.group] = groups[link.group]
      BY <1>5, <3>1
    <3>3. QED BY <1>3, <1>5, <1>6, <3>1, <3>2, LinkStays
  <2>2. QED BY <1>3, <2>1 DEF LinksStand
<1>13. PlacedOnce'
  <2>1. \A h \in DOMAIN groups' : ViewsIn(groups'[h]) = IF h = n + 1 THEN {view} ELSE ViewsIn(groups[h])
    BY <1>2, <1>5
  <2>2. \A h \in DOMAIN groups : view \notin ViewsIn(groups[h])
    BY DEF BoundaryInv, PlacedOnce
  <2>3. \A o \in DOMAIN orphans : view \notin ViewsIn(orphans[o])
    BY DEF BoundaryInv, PlacedOnce
  <2>4. \A v \in turn'.views : v.page = turn'.page
    BY <1>4 DEF BoundaryInv, PlacedOnce
  <2>5. \A h \in DOMAIN groups' : ViewsIn(groups'[h]) \cap turn'.views = {}
    BY <1>4, <1>5, <2>1 DEF BoundaryInv, PlacedOnce
  <2>6. \A o \in DOMAIN orphans : ViewsIn(orphans[o]) \cap turn'.views = {}
    BY <1>4 DEF BoundaryInv, PlacedOnce
  <2>7. \A h, k \in DOMAIN groups' : h # k => ViewsIn(groups'[h]) \cap ViewsIn(groups'[k]) = {}
    <3>1. \A h, k \in DOMAIN groups : h # k => ViewsIn(groups[h]) \cap ViewsIn(groups[k]) = {}
      BY DEF BoundaryInv, PlacedOnce
    <3>2. ASSUME NEW h \in DOMAIN groups', NEW k \in DOMAIN groups', h # k,
                 NEW v \in ViewsIn(groups'[h]), v \in ViewsIn(groups'[k])
          PROVE  FALSE
      <4>1. CASE h # n + 1 /\ k # n + 1
        <5>1. h \in DOMAIN groups /\ k \in DOMAIN groups
          BY <1>5, <4>1
        <5>2. QED BY <2>1, <3>1, <3>2, <4>1, <5>1
      <4>2. CASE h = n + 1 /\ k # n + 1
        <5>1. k \in DOMAIN groups
          BY <1>5, <4>2
        <5>2. QED BY <2>1, <2>2, <3>2, <4>2, <5>1
      <4>3. CASE h # n + 1 /\ k = n + 1
        <5>1. h \in DOMAIN groups
          BY <1>5, <4>3
        <5>2. QED BY <2>1, <2>2, <3>2, <4>3, <5>1
      <4>4. QED BY <3>2, <4>1, <4>2, <4>3
    <3>3. QED BY <3>2
  <2>8. \A h \in DOMAIN groups', o \in DOMAIN orphans : ViewsIn(groups'[h]) \cap ViewsIn(orphans[o]) = {}
    BY <1>5, <2>1, <2>3 DEF BoundaryInv, PlacedOnce
  <2>9. \A o, p \in DOMAIN orphans : o # p => ViewsIn(orphans[o]) \cap ViewsIn(orphans[p]) = {}
    BY DEF BoundaryInv, PlacedOnce
  <2>10. QED BY <1>3, <2>4, <2>5, <2>6, <2>7, <2>8, <2>9 DEF PlacedOnce
<1>14. AllPlaced'
  <2>1. ASSUME NEW v \in views, v.page <= turn.page
        PROVE  v \in turn'.views \/ (\E h \in DOMAIN groups' : v \in ViewsIn(groups'[h])) \/ (\E o \in DOMAIN orphans : v \in ViewsIn(orphans[o]))
    <3>1. CASE v \in turn.views
      BY <1>2, <1>4, <1>5, <3>1
    <3>2. CASE v \notin turn.views
      <4>1. (\E h \in DOMAIN groups : v \in ViewsIn(groups[h])) \/ (\E o \in DOMAIN orphans : v \in ViewsIn(orphans[o]))
        BY <2>1, <3>2 DEF BoundaryInv, AllPlaced
      <4>2. QED BY <1>5, <4>1
    <3>3. QED BY <3>1, <3>2
  <2>2. QED BY <1>3, <1>4, <2>1 DEF AllPlaced
<1>15. QED BY <1>3, <1>8, <1>9, <1>10, <1>11, <1>12, <1>13, <1>14 DEF BoundaryInv

\* A view that no group of the page can have is left over.
LEMMA LeaveOverKeeps ==
    ASSUME BoundaryInv, NEW view \in turn.views, LeaveOver(view)
    PROVE  BoundaryInv'
<1>1. view \in views /\ view.page = turn.page /\ ~OpensGroup(view)
  BY BoundaryFacts DEF BoundaryInv, PlacedOnce, LeaveOver
<1>2. /\ scanned' = scanned /\ views' = views /\ groups' = groups /\ continuations' = continuations
      /\ proposal' = proposal
  BY DEF LeaveOver
<1>3. /\ turn'.page = turn.page /\ turn'.views = turn.views \ {view} /\ turn'.headed = turn.headed
      /\ turn' = [page |-> turn'.page, views |-> turn'.views, headed |-> turn'.headed]
  BY BoundaryFacts DEF LeaveOver, Onward
<1>4. \E c \in Nat :
         /\ orphans' \in Seq(Boxes) /\ DOMAIN orphans' = DOMAIN orphans \cup {c}
         /\ OrphanStands(orphans'[c]) /\ view \in ViewsIn(orphans'[c])
         /\ ViewsIn(orphans'[c]) = {view} \cup (IF c \in DOMAIN orphans THEN ViewsIn(orphans[c]) ELSE {})
         /\ \A o \in DOMAIN orphans : o # c => orphans'[o] = orphans[o]
  <2>1. orphans \in Seq(Boxes)
    BY DEF BoundaryInv, BoundaryTyped
  <2>2. CASE Cardinality(Compatible(view)) = 1
    <3>1. IsFiniteSet(Compatible(view))
      <4>1. PICK m \in Nat : DOMAIN orphans = 1..m
        BY <2>1
      <4>2. IsFiniteSet(1..m)
        BY FS_Interval
      <4>3. Compatible(view) \subseteq 1..m
        BY <4>1 DEF Compatible
      <4>4. QED BY <4>2, <4>3, FS_Subset
    <3>2. PICK c : Compatible(view) = {c}
      BY <2>2, <3>1, FS_Singleton
    <3>3. c \in DOMAIN orphans /\ c \in Nat
      BY <3>2, BoundaryFacts DEF Compatible
    <3> DEFINE more == With(orphans[c], view)
    <3>4. orphans[c] \in Boxes /\ OrphanStands(orphans[c])
      BY <3>3, BoundaryFacts DEF BoundaryInv
    <3>5. more \in Boxes /\ more.views = Append(orphans[c].views, view) /\ more.page = orphans[c].page
      BY <1>1, <3>4, WithIs
    <3> HIDE DEF more
    <3>6. ViewsIn(more) = ViewsIn(orphans[c]) \cup {view} /\ more.views # <<>>
      BY <1>1, <3>4, <3>5, AppendViews
    <3>7. OrphanStands(more)
      BY <1>1, <3>4, <3>5, <3>6 DEF OrphanStands, OnPage
    <3>8. orphans' = [orphans EXCEPT ![c] = more]
      BY <2>2, <3>2, <3>3 DEF LeaveOver, more
    <3>9. orphans' \in Seq(Boxes) /\ DOMAIN orphans' = DOMAIN orphans
      BY <2>1, <3>3, <3>5, <3>8
    <3>10. QED BY <3>3, <3>6, <3>7, <3>8, <3>9
  <2>3. CASE Cardinality(Compatible(view)) # 1
    <3> DEFINE more == GroupOf(view, FALSE)
    <3>1. more \in Boxes /\ more.views = <<view>> /\ more.page = view.page /\ ViewsIn(more) = {view}
      BY <1>1, GroupOfIs
    <3>2. orphans' = Append(orphans, more)
      BY <2>3 DEF LeaveOver
    <3> HIDE DEF more
    <3>3. more.views # <<>>
      BY <3>1
    <3>4. OrphanStands(more)
      BY <1>1, <3>1, <3>3 DEF OrphanStands, OnPage
    <3>5. PICK m \in Nat : Len(orphans) = m /\ DOMAIN orphans = 1..m
      BY <2>1
    <3>6. /\ orphans' \in Seq(Boxes) /\ Len(orphans') = m + 1 /\ orphans'[m + 1] = more
          /\ \A o \in 1..m : orphans'[o] = orphans[o]
      BY <2>1, <3>1, <3>2, <3>5, AppendProperties
    <3>7. DOMAIN orphans' = (1..m) \cup {m + 1} /\ m + 1 \notin 1..m /\ m + 1 \in Nat
      BY <3>5, <3>6
    <3>8. QED BY <3>1, <3>4, <3>5, <3>6, <3>7
  <2>4. QED BY <2>2, <2>3
<1>5. PICK c \in Nat :
         /\ orphans' \in Seq(Boxes) /\ DOMAIN orphans' = DOMAIN orphans \cup {c}
         /\ OrphanStands(orphans'[c]) /\ view \in ViewsIn(orphans'[c])
         /\ ViewsIn(orphans'[c]) = {view} \cup (IF c \in DOMAIN orphans THEN ViewsIn(orphans[c]) ELSE {})
         /\ \A o \in DOMAIN orphans : o # c => orphans'[o] = orphans[o]
  BY <1>4
<1>6. BoundaryTyped'
  <2>1. turn' \in [page : 0..Len(scanned.pages), views : SUBSET views, headed : Seq(DOMAIN groups)]
    BY <1>3, BoundaryFacts
  <2>2. QED BY <1>2, <1>5, <2>1, ScanStays DEF BoundaryInv, BoundaryTyped
<1>7. ASSUME NEW h \in DOMAIN groups PROVE GroupStands(groups[h])'
  BY <1>2, <1>3, ScanStays DEF BoundaryInv, GroupStands
<1>8. ASSUME NEW o \in DOMAIN orphans' PROVE OrphanStands(orphans[o])'
  <2>1. OrphanStands(orphans'[o])
    BY <1>5 DEF BoundaryInv
  <2>2. QED BY <1>3, <2>1 DEF OrphanStands, OnPage
<1>9. HeadedStand' /\ LinksStand'
  <2>1. HeadedStand /\ LinksStand
    BY DEF BoundaryInv
  <2>2. HeadedStand'
    BY <1>2, <1>3, <2>1 DEF HeadedStand
  <2>3. \A link \in continuations : ValidLink(link)'
    BY <1>2, <2>1, LinkStays DEF LinksStand
  <2>4. QED BY <1>2, <1>3, <2>1, <2>2, <2>3 DEF LinksStand
<1>10. PlacedOnce'
  <2>1. \A h \in DOMAIN groups : view \notin ViewsIn(groups[h])
    BY DEF BoundaryInv, PlacedOnce
  <2>2. \A o \in DOMAIN orphans : view \notin ViewsIn(orphans[o])
    BY DEF BoundaryInv, PlacedOnce
  <2>3. \A v \in turn'.views : v.page = turn'.page
    BY <1>3 DEF BoundaryInv, PlacedOnce
  <2>4. \A h \in DOMAIN groups : ViewsIn(groups[h]) \cap turn'.views = {}
    BY <1>3 DEF BoundaryInv, PlacedOnce
  <2>5. \A o \in DOMAIN orphans' : \A v \in ViewsIn(orphans'[o]) : (v = view /\ o = c) \/ (o \in DOMAIN orphans /\ v \in ViewsIn(orphans[o]))
    BY <1>5
  <2>6. \A o \in DOMAIN orphans' : ViewsIn(orphans'[o]) \cap turn'.views = {}
    BY <1>3, <2>5 DEF BoundaryInv, PlacedOnce
  <2>7. \A h, k \in DOMAIN groups : h # k => ViewsIn(groups[h]) \cap ViewsIn(groups[k]) = {}
    BY DEF BoundaryInv, PlacedOnce
  <2>8. \A o, p \in DOMAIN orphans' : o # p => ViewsIn(orphans'[o]) \cap ViewsIn(orphans'[p]) = {}
    <3>1. \A o, p \in DOMAIN orphans : o # p => ViewsIn(orphans[o]) \cap ViewsIn(orphans[p]) = {}
      BY DEF BoundaryInv, PlacedOnce
    <3>2. ASSUME NEW o \in DOMAIN orphans', NEW p \in DOMAIN orphans', o # p,
                 NEW v \in ViewsIn(orphans'[o]), v \in ViewsIn(orphans'[p])
          PROVE  FALSE
      BY <2>2, <2>5, <3>1, <3>2
    <3>3. QED BY <3>2
  <2>9. \A h \in DOMAIN groups, o \in DOMAIN orphans' : ViewsIn(groups[h]) \cap ViewsIn(orphans'[o]) = {}
    BY <2>1, <2>5 DEF BoundaryInv, PlacedOnce
  <2>10. QED BY <1>2, <2>3, <2>4, <2>6, <2>7, <2>8, <2>9 DEF PlacedOnce
<1>11. AllPlaced'
  <2>1. ASSUME NEW v \in views, v.page <= turn.page
        PROVE  v \in turn'.views \/ (\E h \in DOMAIN groups : v \in ViewsIn(groups[h])) \/ (\E o \in DOMAIN orphans' : v \in ViewsIn(orphans'[o]))
    <3>1. CASE v \in turn.views
      BY <1>3, <1>5, <3>1
    <3>2. CASE v \notin turn.views
      <4>1. (\E h \in DOMAIN groups : v \in ViewsIn(groups[h])) \/ (\E o \in DOMAIN orphans : v \in ViewsIn(orphans[o]))
        BY <2>1, <3>2 DEF BoundaryInv, AllPlaced
      <4>2. \A o \in DOMAIN orphans : o \in DOMAIN orphans' /\ ViewsIn(orphans[o]) \subseteq ViewsIn(orphans'[o])
        BY <1>5
      <4>3. QED BY <4>1, <4>2
    <3>3. QED BY <3>1, <3>2
  <2>2. QED BY <1>2, <1>3, <2>1 DEF AllPlaced
<1>12. QED BY <1>2, <1>6, <1>7, <1>8, <1>9, <1>10, <1>11 DEF BoundaryInv

LEMMA GoOnKeeps ==
    ASSUME BoundaryInv, NEW view \in turn.views, GoOn(view)
    PROVE  BoundaryInv'
<1>1. PICK g \in GoesOn(view) :
        groups' = [groups EXCEPT ![g] = [With(@, view) EXCEPT !.lanes = view.lanes, !.bottom = view.bottom]]
  BY DEF GoOn
<1>2. g \in ToSet(turn.headed)
  <2>1. turn.headed # <<>> /\ g = Last(turn.headed)
    BY DEF GoesOn
  <2>2. turn.headed \in Seq(DOMAIN groups)
    BY BoundaryFacts
  <2>3. Len(turn.headed) \in DOMAIN turn.headed
    BY <2>1, <2>2, EmptySeq
  <2>4. QED BY <2>1, <2>3 DEF ToSet, Last
<1>3. groups[g] \in Boxes /\ view \in views /\ g \in DOMAIN groups
  BY <1>2, BoundaryFacts
<1> DEFINE more == [With(groups[g], view) EXCEPT !.lanes = view.lanes, !.bottom = view.bottom]
<1>4. more \in Boxes /\ more.views = Append(groups[g].views, view) /\ more.page = groups[g].page
  BY <1>3, WithIs
<1>5. groups' = [groups EXCEPT ![g] = more]
  BY <1>1, <1>3
<1> HIDE DEF more
<1>6. turn' = Onward(view) /\ UNCHANGED <<scanned, views, orphans, continuations, proposal>>
  BY DEF GoOn
<1>7. QED BY <1>2, <1>4, <1>5, <1>6, AddedKeeps

LEMMA GatherKeeps ==
    ASSUME BoundaryInv, NEW view \in turn.views, Gather(view)
    PROVE  BoundaryInv'
<1>1. PICK g \in Closest(view) : groups' = [groups EXCEPT ![g] = With(@, view)]
  BY DEF Gather
<1>2. g \in ToSet(turn.headed)
  BY <1>1 DEF Closest, Above
<1>3. groups[g] \in Boxes /\ view \in views /\ g \in DOMAIN groups
  BY <1>2, BoundaryFacts
<1> DEFINE more == With(groups[g], view)
<1>4. more \in Boxes /\ more.views = Append(groups[g].views, view) /\ more.page = groups[g].page
  BY <1>3, WithIs
<1>5. groups' = [groups EXCEPT ![g] = more]
  BY <1>1, <1>3
<1> HIDE DEF more
<1>6. turn' = Onward(view) /\ UNCHANGED <<scanned, views, orphans, continuations, proposal>>
  BY DEF Gather
<1>7. QED BY <1>2, <1>4, <1>5, <1>6, AddedKeeps

\* The first of what is left over, and the rest.
LEMMA RestOfOrphans ==
    ASSUME BoundaryInv, orphans # <<>>, orphans' = Tail(orphans)
    PROVE  /\ 1 \in DOMAIN orphans /\ Head(orphans) = orphans[1] /\ Head(orphans) \in Boxes
           /\ orphans' \in Seq(Boxes)
           /\ \A o \in DOMAIN orphans' : /\ o \in Nat /\ o + 1 \in DOMAIN orphans /\ o + 1 # 1
                                         /\ orphans'[o] = orphans[o + 1]
           /\ \A o \in DOMAIN orphans : o # 1 => o - 1 \in DOMAIN orphans' /\ orphans'[o - 1] = orphans[o]
<1>1. orphans \in Seq(Boxes)
  BY DEF BoundaryInv, BoundaryTyped
<1>2. PICK m \in Nat \ {0} : Len(orphans) = m /\ DOMAIN orphans = 1..m
  BY <1>1, EmptySeq
<1>3. /\ Head(orphans) \in Boxes /\ orphans' \in Seq(Boxes) /\ Len(orphans') = m - 1
      /\ \A o \in 1..(m - 1) : orphans'[o] = orphans[o + 1]
  BY <1>1, <1>2, HeadTailProperties
<1>4. DOMAIN orphans' = 1..(m - 1)
  BY <1>2, <1>3
<1>5. Head(orphans) = orphans[1] /\ 1 \in 1..m
  BY <1>1, <1>2
<1>6. \A o \in 1..(m - 1) : o \in Nat /\ o + 1 \in 1..m /\ o + 1 # 1
  BY <1>2
<1>7. \A o \in 1..m : o # 1 => o - 1 \in 1..(m - 1) /\ (o - 1) + 1 = o
  BY <1>2
<1>8. \A o \in 1..m : o # 1 => orphans'[o - 1] = orphans[o]
  BY <1>3, <1>7
<1>9. QED BY <1>2, <1>3, <1>4, <1>5, <1>6, <1>7, <1>8

LEMMA KeepOrphanKeeps ==
    ASSUME BoundaryInv, KeepOrphan
    PROVE  BoundaryInv'
<1> DEFINE n == Len(groups)
           more == Head(orphans)
<1>1. /\ groups' = Append(groups, more) /\ orphans' = Tail(orphans) /\ orphans # <<>>
      /\ scanned' = scanned /\ views' = views /\ turn' = turn /\ continuations' = continuations
      /\ proposal' = proposal
  BY DEF KeepOrphan, LeftOver
<1>2. /\ 1 \in DOMAIN orphans /\ more = orphans[1] /\ more \in Boxes /\ orphans' \in Seq(Boxes)
      /\ \A o \in DOMAIN orphans' : o + 1 \in DOMAIN orphans /\ o + 1 # 1 /\ orphans'[o] = orphans[o + 1] /\ o \in Nat
      /\ \A o \in DOMAIN orphans : o # 1 => o - 1 \in DOMAIN orphans' /\ orphans'[o - 1] = orphans[o]
  BY <1>1, RestOfOrphans
<1>3. OrphanStands(more)
  BY <1>2 DEF BoundaryInv
<1> HIDE DEF more
<1>4. /\ DOMAIN groups' = DOMAIN groups \cup {n + 1} /\ groups'[n + 1] = more /\ n + 1 \notin DOMAIN groups
      /\ (\A h \in DOMAIN groups : groups'[h] = groups[h]) /\ groups' \in Seq(Boxes)
  BY <1>1, <1>2, OneMore
<1> HIDE DEF n
<1>5. BoundaryTyped'
  <2>1. turn.headed \in Seq(DOMAIN groups')
    BY <1>4, BoundaryFacts, SeqMonotonic
  <2>2. turn' \in [page : 0..Len(scanned.pages), views : SUBSET views, headed : Seq(DOMAIN groups')]
    BY <1>1, <2>1, BoundaryFacts
  <2>3. QED BY <1>1, <1>2, <1>4, <2>2, ScanStays DEF BoundaryInv, BoundaryTyped
<1>6. ASSUME NEW h \in DOMAIN groups' PROVE GroupStands(groups[h])'
  <2>1. CASE h = n + 1
    <3>1. more.views # <<>> /\ more.views \in Seq(views) /\ Last(more.views) \in ViewsIn(more)
      BY <1>2, <1>3, BoxIs DEF OrphanStands
    <3>2. StepsCountOn(more.views)
      BY <1>3, <3>1, OnePageCounts DEF OrphanStands, OnPage, ViewsIn
    <3>3. \A v \in ViewsIn(more) : v.page <= turn.page
      BY <1>3, BoundaryFacts DEF OrphanStands, OnPage
    <3>4. Last(more.views).page = more.page
      BY <1>3, <3>1 DEF OrphanStands, OnPage
    <3>5. QED BY <1>1, <1>4, <2>1, <3>1, <3>2, <3>3, <3>4, ScanStays DEF GroupStands
  <2>2. CASE h # n + 1
    <3>1. GroupStands(groups[h]) /\ groups'[h] = groups[h]
      BY <1>4, <2>2 DEF BoundaryInv
    <3>2. QED BY <1>1, <3>1, ScanStays DEF GroupStands
  <2>3. QED BY <2>1, <2>2
<1>7. ASSUME NEW o \in DOMAIN orphans' PROVE OrphanStands(orphans[o])'
  <2>1. OrphanStands(orphans'[o])
    BY <1>2 DEF BoundaryInv
  <2>2. QED BY <1>1, <2>1 DEF OrphanStands, OnPage
<1>8. HeadedStand'
  <2>1. ASSUME NEW h \in ToSet(turn.headed) PROVE OnPage(groups'[h], turn.page)
    BY <1>4, BoundaryFacts DEF BoundaryInv, HeadedStand
  <2>2. QED BY <1>1, <2>1 DEF HeadedStand
<1>9. LinksStand'
  <2>1. ASSUME NEW link \in continuations
        PROVE  link.group \in DOMAIN groups' /\ link.group \notin ToSet(turn.headed) /\ ValidLink(link)'
    <3>1. link.group \in DOMAIN groups /\ link.group \notin ToSet(turn.headed) /\ ValidLink(link)
      BY DEF BoundaryInv, LinksStand
    <3>2. groups'[link.group] = groups[link.group]
      BY <1>4, <3>1
    <3>3. QED BY <1>1, <1>4, <3>1, <3>2, LinkStays
  <2>2. QED BY <1>1, <2>1 DEF LinksStand
<1>10. PlacedOnce'
  <2>1. \A h \in DOMAIN groups' : ViewsIn(groups'[h]) = IF h = n + 1 THEN ViewsIn(orphans[1]) ELSE ViewsIn(groups[h])
    BY <1>2, <1>4
  <2>2. \A h \in DOMAIN groups : ViewsIn(groups[h]) \cap ViewsIn(orphans[1]) = {}
    BY <1>2 DEF BoundaryInv, PlacedOnce
  <2>3. \A o \in DOMAIN orphans' : ViewsIn(orphans'[o]) \cap ViewsIn(orphans[1]) = {}
    BY <1>2 DEF BoundaryInv, PlacedOnce
  <2>4. \A h \in DOMAIN groups' : ViewsIn(groups'[h]) \cap turn.views = {}
    BY <1>2, <1>4, <2>1 DEF BoundaryInv, PlacedOnce
  <2>5. \A o \in DOMAIN orphans' : ViewsIn(orphans'[o]) \cap turn.views = {}
    BY <1>2 DEF BoundaryInv, PlacedOnce
  <2>6. \A h, k \in DOMAIN groups' : h # k => ViewsIn(groups'[h]) \cap ViewsIn(groups'[k]) = {}
    <3>1. \A h, k \in DOMAIN groups : h # k => ViewsIn(groups[h]) \cap ViewsIn(groups[k]) = {}
      BY DEF BoundaryInv, PlacedOnce
    <3>2. ASSUME NEW h \in DOMAIN groups', NEW k \in DOMAIN groups', h # k
          PROVE  ViewsIn(groups'[h]) \cap ViewsIn(groups'[k]) = {}
      <4>1. CASE h # n + 1 /\ k # n + 1
        <5>1. h \in DOMAIN groups /\ k \in DOMAIN groups
          BY <1>4, <4>1
        <5>2. QED BY <2>1, <3>1, <3>2, <4>1, <5>1
      <4>2. CASE h = n + 1 /\ k # n + 1
        <5>1. k \in DOMAIN groups
          BY <1>4, <4>2
        <5>2. QED BY <2>1, <2>2, <4>2, <5>1
      <4>3. CASE h # n + 1 /\ k = n + 1
        <5>1. h \in DOMAIN groups
          BY <1>4, <4>3
        <5>2. QED BY <2>1, <2>2, <4>3, <5>1
      <4>4. QED BY <3>2, <4>1, <4>2, <4>3
    <3>3. QED BY <3>2
  <2>7. \A h \in DOMAIN groups', o \in DOMAIN orphans' : ViewsIn(groups'[h]) \cap ViewsIn(orphans'[o]) = {}
    <3>1. ASSUME NEW h \in DOMAIN groups', NEW o \in DOMAIN orphans'
          PROVE  ViewsIn(groups'[h]) \cap ViewsIn(orphans'[o]) = {}
      <4>1. CASE h = n + 1
        BY <2>1, <2>3, <4>1
      <4>2. CASE h # n + 1
        <5>1. h \in DOMAIN groups
          BY <1>4, <4>2
        <5>2. QED BY <1>2, <2>1, <4>2, <5>1 DEF BoundaryInv, PlacedOnce
      <4>3. QED BY <4>1, <4>2
    <3>2. QED BY <3>1
  <2>8. \A o, p \in DOMAIN orphans' : o # p => ViewsIn(orphans'[o]) \cap ViewsIn(orphans'[p]) = {}
    <3>1. \A o, p \in DOMAIN orphans : o # p => ViewsIn(orphans[o]) \cap ViewsIn(orphans[p]) = {}
      BY DEF BoundaryInv, PlacedOnce
    <3>2. \A o, p \in DOMAIN orphans' : o # p => o + 1 # p + 1
      BY <1>2
    <3>3. QED BY <1>2, <3>1, <3>2
  <2>9. \A v \in turn.views : v.page = turn.page
    BY DEF BoundaryInv, PlacedOnce
  <2>10. QED BY <1>1, <2>4, <2>5, <2>6, <2>7, <2>8, <2>9 DEF PlacedOnce
<1>11. AllPlaced'
  <2>1. ASSUME NEW v \in views, v.page <= turn.page
        PROVE  v \in turn.views \/ (\E h \in DOMAIN groups' : v \in ViewsIn(groups'[h])) \/ (\E o \in DOMAIN orphans' : v \in ViewsIn(orphans'[o]))
    <3>1. CASE v \in turn.views
      BY <3>1
    <3>2. CASE \E h \in DOMAIN groups : v \in ViewsIn(groups[h])
      BY <1>4, <3>2
    <3>3. ASSUME NEW o \in DOMAIN orphans, v \in ViewsIn(orphans[o])
          PROVE  (\E h \in DOMAIN groups' : v \in ViewsIn(groups'[h])) \/ (\E p \in DOMAIN orphans' : v \in ViewsIn(orphans'[p]))
      BY <1>2, <1>4, <3>3
    <3>4. QED BY <2>1, <3>1, <3>2, <3>3 DEF BoundaryInv, AllPlaced
  <2>2. QED BY <1>1, <2>1 DEF AllPlaced
<1>12. QED BY <1>1, <1>5, <1>6, <1>7, <1>8, <1>9, <1>10, <1>11 DEF BoundaryInv

LEMMA TurnPageKeeps ==
    ASSUME BoundaryInv, TurnPage
    PROVE  BoundaryInv'
<1> DEFINE next == turn.page + 1
<1>1. /\ turn.views = {} /\ orphans = <<>> /\ turn.page < Len(scanned.pages)
      /\ turn' = [page |-> next, views |-> ViewsOf(next), headed |-> <<>>]
      /\ scanned' = scanned /\ views' = views /\ groups' = groups /\ orphans' = orphans
      /\ continuations' = continuations /\ proposal' = proposal
  BY DEF TurnPage
<1>2. turn.page \in Nat /\ next \in 0..Len(scanned.pages) /\ \A v \in views : v.page \in Nat
  BY <1>1, BoundaryFacts DEF BoundaryInv, BoundaryTyped, ViewsStand, ViewStands
<1>3. ViewsOf(next) = {v \in views : v.page = next} /\ turn'.page = next /\ turn'.views = ViewsOf(next) /\ turn'.headed = <<>>
  BY <1>1 DEF ViewsOf
<1> HIDE DEF next
<1>4. DOMAIN orphans = {} /\ DOMAIN orphans' = {} /\ ToSet(turn'.headed) = {}
  BY <1>1, <1>3 DEF ToSet
<1>5. \A h \in DOMAIN groups : \A v \in ViewsIn(groups[h]) : v \in views /\ v.page <= turn.page
  BY BoundaryFacts, BoxIs DEF BoundaryInv, GroupStands
<1>6. BoundaryTyped'
  <2>1. <<>> \in Seq(DOMAIN groups)
    OBVIOUS
  <2>2. turn' \in [page : 0..Len(scanned.pages), views : SUBSET views, headed : Seq(DOMAIN groups)]
    BY <1>1, <1>2, <1>3, <2>1
  <2>3. QED BY <1>1, <2>2, ScanStays DEF BoundaryInv, BoundaryTyped
<1>7. ASSUME NEW h \in DOMAIN groups PROVE GroupStands(groups[h])'
  <2>1. GroupStands(groups[h])
    BY DEF BoundaryInv
  <2>2. \A v \in ViewsIn(groups[h]) : v.page <= next
    BY <1>2, <1>5 DEF next
  <2>3. QED BY <1>1, <1>3, <2>1, <2>2, ScanStays DEF GroupStands
<1>8. HeadedStand'
  BY <1>4 DEF HeadedStand
<1>9. LinksStand'
  <2>1. \A link \in continuations : link.group \in DOMAIN groups /\ ValidLink(link)'
    BY <1>1, LinkStays DEF BoundaryInv, LinksStand
  <2>2. QED BY <1>1, <1>4, <2>1 DEF LinksStand
<1>10. PlacedOnce'
  <2>1. \A h \in DOMAIN groups : ViewsIn(groups[h]) \cap turn'.views = {}
    <3>1. ~(next <= turn.page)
      BY <1>2 DEF next
    <3>2. QED BY <1>3, <1>5, <3>1
  <2>2. \A h, k \in DOMAIN groups : h # k => ViewsIn(groups[h]) \cap ViewsIn(groups[k]) = {}
    BY DEF BoundaryInv, PlacedOnce
  <2>3. QED BY <1>1, <1>3, <1>4, <2>1, <2>2 DEF PlacedOnce
<1>11. AllPlaced'
  <2>1. ASSUME NEW v \in views, v.page <= next
        PROVE  v \in turn'.views \/ \E h \in DOMAIN groups : v \in ViewsIn(groups[h])
    <3>1. CASE v.page = next
      BY <1>3, <3>1
    <3>2. CASE v.page # next
      <4>1. v.page <= turn.page
        BY <1>2, <2>1, <3>2 DEF next
      <4>2. QED BY <1>1, <1>4, <4>1 DEF BoundaryInv, AllPlaced
    <3>3. QED BY <3>1, <3>2
  <2>2. QED BY <1>1, <1>3, <2>1 DEF AllPlaced
<1>12. QED BY <1>1, <1>4, <1>6, <1>7, <1>8, <1>9, <1>10, <1>11 DEF BoundaryInv

LEMMA LinesOfViews ==
    ASSUME NEW g
    PROVE  LinesIn(g) = UNION {v.lines : v \in ViewsIn(g)}
BY DEF LinesIn, ViewsIn, ToSet

\* The group that what is left over goes on with: a recipe that ends on the page before, and that
\* is one still when it has gone on.
LEMMA OwnerIs ==
    ASSUME BoundaryInv, Continue
    PROVE  \E g \in DOMAIN groups, more \in Boxes :
             LET o == orphans[1] IN
             /\ groups' = [groups EXCEPT ![g] = more]
             /\ continuations' = continuations \cup
                    {[group |-> g, from |-> groups[g].page, to |-> o.page, lines |-> LinesIn(o)]}
             /\ g \notin ToSet(turn.headed)
             /\ Physical(o.page) = Physical(groups[g].page) + 1
             /\ ViewsIn(more) = ViewsIn(groups[g]) \cup ViewsIn(o)
             /\ more.views # <<>> /\ Last(more.views).page = more.page /\ more.page = turn.page
             /\ StepsCountOn(more.views) /\ KindOfGroup(more) = "recipe"
<1> DEFINE o == Head(orphans)
           g == CHOOSE h \in Owners(o) : TRUE
           vs == groups[g].views
           ws == o.views
           more == [groups[g] EXCEPT !.views = vs \o ws, !.page = o.page, !.lanes = o.lanes, !.top = o.top,
                                     !.bottom = o.bottom]
<1>1. /\ orphans # <<>> /\ orphans' = Tail(orphans) /\ Cardinality(Owners(o)) = 1
      /\ continuations' = continuations \cup {[group |-> g, from |-> groups[g].page, to |-> o.page, lines |-> LinesIn(o)]}
      /\ groups' = [groups EXCEPT ![g] = [@ EXCEPT !.views = vs \o ws, !.page = o.page, !.lanes = o.lanes,
                                                   !.top = o.top, !.bottom = o.bottom]]
  BY DEF Continue, LeftOver
<1>2. o = orphans[1] /\ o \in Boxes /\ OrphanStands(o)
  BY <1>1, RestOfOrphans DEF BoundaryInv
<1>3. g \in Owners(o)
  <2>1. ASSUME Owners(o) = {} PROVE FALSE
    <3>1. Cardinality(Owners(o)) = 0
      BY <2>1, FS_EmptySet
    <3>2. Cardinality(Owners(o)) = 1
      BY <1>1
    <3>3. QED BY <3>1, <3>2
  <2>2. QED BY <2>1
<1> HIDE DEF g, o
<1>4. /\ g \in DOMAIN groups /\ OnlySteps(o) /\ KindOfGroup(groups[g]) = "recipe"
      /\ Physical(o.page) = Physical(groups[g].page) + 1 /\ StepsIn(ws)[1] = StepAfter(vs)
  BY <1>3 DEF Owners, Follows
<1>5. groups[g] \in Boxes /\ GroupStands(groups[g]) /\ ViewsStand
  BY <1>4, BoundaryFacts DEF BoundaryInv, BoundaryTyped
<1>6. vs \in Seq(views) /\ ws \in Seq(views) /\ vs # <<>> /\ ws # <<>> /\ Last(vs) \in ViewsIn(groups[g])
  BY <1>2, <1>5, BoxIs DEF GroupStands, OrphanStands
<1>7. vs \o ws \in Seq(views) /\ vs \o ws # <<>> /\ Last(vs \o ws) = Last(ws) /\ Last(ws) \in ToSet(ws)
  <2>1. PICK n \in Nat \ {0}, m \in Nat \ {0} : Len(vs) = n /\ Len(ws) = m /\ DOMAIN ws = 1..m
    BY <1>6, EmptySeq
  <2>2. /\ vs \o ws \in Seq(views) /\ Len(vs \o ws) = n + m
        /\ (vs \o ws)[n + m] = IF n + m <= n THEN vs[n + m] ELSE ws[(n + m) - n]
    <3>1. n + m \in 1..(n + m)
      BY <2>1
    <3>2. QED BY <1>6, <2>1, <3>1, ConcatProperties
  <2>3. ~(n + m <= n) /\ (n + m) - n = m /\ n + m # 0 /\ m \in 1..m
    BY <2>1
  <2> HIDE DEF vs, ws
  <2>4. vs \o ws # <<>>
    BY <2>2, <2>3
  <2>5. QED BY <2>1, <2>2, <2>3, <2>4 DEF Last, ToSet
<1>8. ToSet(vs \o ws) = ToSet(vs) \cup ToSet(ws)
  BY <1>6, JoinViews
<1> HIDE DEF vs, ws
<1>9. /\ more \in Boxes /\ more.views = vs \o ws /\ more.page = o.page /\ more.headed = groups[g].headed
  <2>1. o.page \in {v.page : v \in views} /\ o.lanes \in {v.lanes : v \in views}
    BY <1>2 DEF Boxes
  <2>2. o.top \in {v.top : v \in views} /\ o.bottom \in {v.bottom : v \in views}
    BY <1>2 DEF Boxes
  <2>3. groups[g] \in [views : Seq(views), headed : BOOLEAN, lanes : {v.lanes : v \in views}, top : {v.top : v \in views},
                       bottom : {v.bottom : v \in views}, page : {v.page : v \in views}]
    BY <1>5 DEF Boxes
  <2>4. more \in Boxes
    BY <1>7, <2>1, <2>2, <2>3 DEF Boxes
  <2>5. QED BY <2>3, <2>4
<1>10. groups' = [groups EXCEPT ![g] = more]
  BY <1>1, <1>4
<1> HIDE DEF more
<1>11. o.page = turn.page /\ (\A w \in ToSet(ws) : w.page = turn.page /\ ~OpensGroup(w))
  BY <1>2 DEF OrphanStands, OnPage, ViewsIn, ws
<1>12. Last(vs).page = groups[g].page
  BY <1>5 DEF GroupStands, vs
<1>13. groups[g].page # turn.page
  <2>1. PICK p \in DOMAIN scanned.pages : groups[g].page = p
    <3>1. Last(vs) \in views
      BY <1>5, <1>6, BoxIs
    <3>2. Last(vs).page \in 1..Len(scanned.pages)
      BY <1>5, <3>1 DEF ViewsStand, ViewStands
    <3>3. QED BY <1>5, <1>12, <3>2, PagesAre DEF ViewsStand
  <2>2. scanned.pages[p] \in Nat
    BY <1>5, <2>1, PagesAre DEF ViewsStand
  <2>3. scanned.pages[p] # scanned.pages[p] + 1
    BY <2>2
  <2>4. QED BY <1>4, <1>11, <2>1, <2>3 DEF Physical
<1>14. g \notin ToSet(turn.headed)
  <2>1. ASSUME g \in ToSet(turn.headed) PROVE Last(vs).page = turn.page
    BY <1>6, <2>1 DEF BoundaryInv, HeadedStand, OnPage
  <2>2. QED BY <1>12, <1>13, <2>1
<1>15. StepsCountOn(vs \o ws)
  <2>1. ws[1].steps # <<>> /\ Ascending(StepsIn(ws))
    <3>1. 1 \in DOMAIN ws
      BY <1>6, EmptySeq
    <3>2. QED BY <1>4, <3>1 DEF OnlySteps, ws
  <2>2. StepsCountOn(vs)
    BY <1>5 DEF GroupStands, vs
  <2>3. Physical(turn.page) = Physical(Last(vs).page) + 1 /\ Last(vs).page # turn.page
    BY <1>4, <1>11, <1>12, <1>13
  <2>4. QED BY <1>4, <1>5, <1>6, <1>11, <2>1, <2>2, <2>3, ContinuedCounts
<1>16. KindOfGroup(more) = "recipe"
  <2>1. more.views = groups[g].views \o ws /\ groups[g].views \in Seq(views)
    BY <1>6, <1>9 DEF vs
  <2>2. QED BY <1>4, <1>5, <1>6, <1>9, <1>11, <2>1, StillRecipe
<1>17. ViewsIn(more) = ViewsIn(groups[g]) \cup ViewsIn(o)
  BY <1>8, <1>9 DEF ViewsIn, vs, ws
<1>18. more.views # <<>> /\ Last(more.views).page = more.page /\ more.page = turn.page
  BY <1>7, <1>9, <1>11
<1>19. QED BY <1>1, <1>2, <1>4, <1>9, <1>10, <1>14, <1>15, <1>16, <1>17, <1>18

LEMMA ContinueKeeps ==
    ASSUME BoundaryInv, Continue
    PROVE  BoundaryInv'
<1> DEFINE o == orphans[1]
<1>1. PICK g \in DOMAIN groups, more \in Boxes :
             /\ groups' = [groups EXCEPT ![g] = more]
             /\ continuations' = continuations \cup
                    {[group |-> g, from |-> groups[g].page, to |-> o.page, lines |-> LinesIn(o)]}
             /\ g \notin ToSet(turn.headed)
             /\ Physical(o.page) = Physical(groups[g].page) + 1
             /\ ViewsIn(more) = ViewsIn(groups[g]) \cup ViewsIn(o)
             /\ more.views # <<>> /\ Last(more.views).page = more.page /\ more.page = turn.page
             /\ StepsCountOn(more.views) /\ KindOfGroup(more) = "recipe"
  BY OwnerIs
<1>2. /\ orphans' = Tail(orphans) /\ orphans # <<>> /\ scanned' = scanned /\ views' = views /\ turn' = turn
      /\ proposal' = proposal
  BY DEF Continue, LeftOver
<1>3. /\ 1 \in DOMAIN orphans /\ o \in Boxes /\ orphans' \in Seq(Boxes)
      /\ \A p \in DOMAIN orphans' : p + 1 \in DOMAIN orphans /\ p + 1 # 1 /\ orphans'[p] = orphans[p + 1] /\ p \in Nat
      /\ \A p \in DOMAIN orphans : p # 1 => p - 1 \in DOMAIN orphans' /\ orphans'[p - 1] = orphans[p]
  BY <1>2, RestOfOrphans
<1>4. OrphanStands(o)
  BY <1>3 DEF BoundaryInv
<1>5. DOMAIN groups' = DOMAIN groups /\ groups'[g] = more /\ \A h \in DOMAIN groups : h # g => groups'[h] = groups[h]
  BY <1>1, BoundaryFacts
<1>6. PICK link : /\ link = [group |-> g, from |-> groups[g].page, to |-> o.page, lines |-> LinesIn(o)]
                  /\ continuations' = continuations \cup {link}
  BY <1>1
<1>7. link.group = g /\ link.from = groups[g].page /\ link.to = o.page /\ link.lines = LinesIn(o)
  BY <1>6
<1> HIDE DEF o
<1>8. groups' \in Seq(Boxes)
  BY <1>1 DEF BoundaryInv, BoundaryTyped
<1>9. BoundaryTyped'
  BY <1>2, <1>3, <1>5, <1>8, ScanStays DEF BoundaryInv, BoundaryTyped
<1>10. ASSUME NEW h \in DOMAIN groups PROVE GroupStands(groups[h])'
  <2>1. CASE h = g
    <3>1. \A v \in ViewsIn(more) : v.page <= turn.page
      BY <1>1, <1>4, BoundaryFacts DEF BoundaryInv, GroupStands, OrphanStands, OnPage
    <3>2. QED BY <1>1, <1>2, <1>5, <2>1, <3>1, ScanStays DEF GroupStands
  <2>2. CASE h # g
    <3>1. GroupStands(groups[h]) /\ groups'[h] = groups[h]
      BY <1>5, <2>2 DEF BoundaryInv
    <3>2. QED BY <1>2, <3>1, ScanStays DEF GroupStands
  <2>3. QED BY <2>1, <2>2
<1>11. ASSUME NEW p \in DOMAIN orphans' PROVE OrphanStands(orphans[p])'
  <2>1. OrphanStands(orphans'[p])
    BY <1>3 DEF BoundaryInv
  <2>2. QED BY <1>2, <2>1 DEF OrphanStands, OnPage
<1>12. HeadedStand'
  <2>1. ASSUME NEW h \in ToSet(turn.headed) PROVE OnPage(groups'[h], turn.page)
    BY <1>1, <1>5, BoundaryFacts DEF BoundaryInv, HeadedStand
  <2>2. QED BY <1>2, <2>1 DEF HeadedStand
<1>13. LinesIn(more) = LinesIn(groups[g]) \cup LinesIn(o)
  BY <1>1, LinesOfViews
<1>14. ValidLink(link)'
  <2>1. LinesIn(o) \subseteq LinesIn(more)
    BY <1>13
  <2>2. \A l \in LinesIn(o) : TextLine(l).page = o.page
    <3>1. ASSUME NEW v \in ViewsIn(o), NEW l \in v.lines PROVE TextLine(l).page = o.page
      <4>1. v \in views /\ v.page = o.page
        BY <1>3, <1>4, BoxIs DEF OrphanStands, OnPage
      <4>2. QED BY <4>1 DEF BoundaryInv, BoundaryTyped, ViewsStand, ViewStands
    <3>2. QED BY <3>1, LinesOfViews
  <2>3. \E l \in LinesIn(more) : TextLine(l).page = groups[g].page
    <3>1. PICK v : v \in ViewsIn(groups[g]) /\ v \in views /\ v.page = groups[g].page
      <4>1. groups[g] \in Boxes /\ groups[g].views # <<>> /\ Last(groups[g].views).page = groups[g].page
        BY BoundaryFacts DEF BoundaryInv, GroupStands
      <4>2. QED BY <4>1, BoxIs
    <3>2. PICK l \in v.lines : TextLine(l).page = groups[g].page
      BY <3>1 DEF BoundaryInv, BoundaryTyped, ViewsStand, ViewStands
    <3>3. l \in LinesIn(groups[g])
      BY <3>1, LinesOfViews
    <3>4. QED BY <1>13, <3>2, <3>3
  <2>4. groups'[link.group] = more
    BY <1>5, <1>7
  <2>5. Physical(link.to) = Physical(link.from) + 1
    BY <1>1, <1>7
  <2>6. QED BY <1>1, <1>2, <1>7, <2>1, <2>2, <2>3, <2>4, <2>5 DEF ValidLink, Physical, TextLine
<1>15. LinksStand'
  <2>1. ASSUME NEW k \in continuations
        PROVE  k.group \in DOMAIN groups /\ k.group \notin ToSet(turn.headed) /\ ValidLink(k)'
    <3>1. k.group \in DOMAIN groups /\ k.group \notin ToSet(turn.headed) /\ ValidLink(k)
      BY DEF BoundaryInv, LinksStand
    <3>2. CASE k.group = g
      BY <1>1, <1>2, <1>5, <1>13, <3>1, <3>2 DEF ValidLink, Physical, TextLine
    <3>3. CASE k.group # g
      <4>1. groups'[k.group] = groups[k.group]
        BY <1>5, <3>1, <3>3
      <4>2. QED BY <1>2, <3>1, <4>1, LinkStays
    <3>4. QED BY <3>1, <3>2, <3>3
  <2>2. ASSUME NEW k \in continuations'
        PROVE  k.group \in DOMAIN groups /\ k.group \notin ToSet(turn.headed) /\ ValidLink(k)'
    <3>1. CASE k \in continuations
      BY <2>1, <3>1
    <3>2. CASE k = link
      <4>1. k.group = g /\ ValidLink(k)'
        BY <1>7, <1>14, <3>2
      <4>2. QED BY <1>1, <4>1
    <3>3. QED BY <1>6, <2>2, <3>1, <3>2
  <2>3. QED BY <1>2, <1>5, <2>2 DEF LinksStand
<1>16. PlacedOnce'
  <2>1. \A h \in DOMAIN groups : ViewsIn(groups'[h]) = IF h = g THEN ViewsIn(groups[h]) \cup ViewsIn(o) ELSE ViewsIn(groups[h])
    BY <1>1, <1>5
  <2>2. \A h \in DOMAIN groups : ViewsIn(groups[h]) \cap ViewsIn(o) = {}
    BY <1>3 DEF BoundaryInv, PlacedOnce, o
  <2>3. \A p \in DOMAIN orphans' : ViewsIn(orphans'[p]) \cap ViewsIn(o) = {}
    BY <1>3 DEF BoundaryInv, PlacedOnce, o
  <2>4. ViewsIn(o) \cap turn.views = {}
    BY <1>3 DEF BoundaryInv, PlacedOnce, o
  <2>5. \A h \in DOMAIN groups : ViewsIn(groups'[h]) \cap turn.views = {}
    <3>1. \A h \in DOMAIN groups : ViewsIn(groups[h]) \cap turn.views = {}
      BY DEF BoundaryInv, PlacedOnce
    <3>2. QED BY <2>1, <2>4, <3>1
  <2>6. \A p \in DOMAIN orphans' : ViewsIn(orphans'[p]) \cap turn.views = {}
    BY <1>3 DEF BoundaryInv, PlacedOnce
  <2>7. \A h, k \in DOMAIN groups : h # k => ViewsIn(groups'[h]) \cap ViewsIn(groups'[k]) = {}
    <3>1. \A h, k \in DOMAIN groups : h # k => ViewsIn(groups[h]) \cap ViewsIn(groups[k]) = {}
      BY DEF BoundaryInv, PlacedOnce
    <3>2. ASSUME NEW h \in DOMAIN groups, NEW k \in DOMAIN groups, h # k,
                 NEW v \in ViewsIn(groups'[h]), v \in ViewsIn(groups'[k])
          PROVE  FALSE
      <4>1. CASE v \in ViewsIn(o)
        BY <2>1, <2>2, <3>2, <4>1
      <4>2. CASE v \notin ViewsIn(o)
        <5>1. v \in ViewsIn(groups[h]) /\ v \in ViewsIn(groups[k])
          BY <2>1, <3>2, <4>2
        <5>2. QED BY <3>1, <3>2, <5>1
      <4>3. QED BY <4>1, <4>2
    <3>3. QED BY <3>2
  <2>8. \A h \in DOMAIN groups, p \in DOMAIN orphans' : ViewsIn(groups'[h]) \cap ViewsIn(orphans'[p]) = {}
    <3>1. \A h \in DOMAIN groups, p \in DOMAIN orphans' : ViewsIn(groups[h]) \cap ViewsIn(orphans'[p]) = {}
      BY <1>3 DEF BoundaryInv, PlacedOnce
    <3>2. QED BY <2>1, <2>3, <3>1
  <2>9. \A p, q \in DOMAIN orphans' : p # q => ViewsIn(orphans'[p]) \cap ViewsIn(orphans'[q]) = {}
    <3>1. \A p, q \in DOMAIN orphans : p # q => ViewsIn(orphans[p]) \cap ViewsIn(orphans[q]) = {}
      BY DEF BoundaryInv, PlacedOnce
    <3>2. \A p, q \in DOMAIN orphans' : p # q => p + 1 # q + 1
      BY <1>3
    <3>3. QED BY <1>3, <3>1, <3>2
  <2>10. \A v \in turn.views : v.page = turn.page
    BY DEF BoundaryInv, PlacedOnce
  <2>11. QED BY <1>2, <1>5, <2>5, <2>6, <2>7, <2>8, <2>9, <2>10 DEF PlacedOnce
<1>17. AllPlaced'
  <2>1. ASSUME NEW v \in views, v.page <= turn.page
        PROVE  v \in turn.views \/ (\E h \in DOMAIN groups : v \in ViewsIn(groups'[h])) \/ (\E p \in DOMAIN orphans' : v \in ViewsIn(orphans'[p]))
    <3>1. CASE v \in turn.views
      BY <3>1
    <3>2. ASSUME NEW h \in DOMAIN groups, v \in ViewsIn(groups[h]) PROVE \E k \in DOMAIN groups : v \in ViewsIn(groups'[k])
      BY <1>1, <1>5, <3>2
    <3>3. ASSUME NEW p \in DOMAIN orphans, v \in ViewsIn(orphans[p])
          PROVE  (\E h \in DOMAIN groups : v \in ViewsIn(groups'[h])) \/ (\E q \in DOMAIN orphans' : v \in ViewsIn(orphans'[q]))
      <4>1. CASE p = 1
        BY <1>1, <1>5, <3>3, <4>1 DEF o
      <4>2. CASE p # 1
        BY <1>3, <3>3, <4>2
      <4>3. QED BY <4>1, <4>2
    <3>4. QED BY <2>1, <3>1, <3>2, <3>3 DEF BoundaryInv, AllPlaced
  <2>2. QED BY <1>2, <1>5, <2>1 DEF AllPlaced
<1>18. QED BY <1>2, <1>5, <1>9, <1>10, <1>11, <1>12, <1>15, <1>16, <1>17 DEF BoundaryInv

\* What is proposed in the end passes: each line has one owner, and the links hold.
LEMMA AllValid ==
    ASSUME BoundaryInv, turn.page = Len(scanned.pages), turn.views = {}, orphans = <<>>
    PROVE  ValidBoundaries
<1> DEFINE Of(g) == [kind |-> KindOfGroup(groups[g]), group |-> g, lines |-> LinesIn(groups[g])]
           Alone(l) == [kind |-> "unclassified", group |-> 0, lines |-> {l}]
<1>1. ProposedSelections = {Of(g) : g \in DOMAIN groups} \cup {Alone(l) : l \in Unowned}
  BY DEF ProposedSelections
<1>2. (\A g : Of(g).lines = LinesIn(groups[g])) /\ (\A l : Alone(l).lines = {l})
  OBVIOUS
<1> HIDE DEF Of, Alone
<1>3. ViewsStand
  BY DEF BoundaryInv, BoundaryTyped
<1>4. \A g \in DOMAIN groups : ViewsIn(groups[g]) \subseteq views /\ \E v \in ViewsIn(groups[g]) : TRUE
  BY BoundaryFacts, BoxIs DEF BoundaryInv, GroupStands
<1>5. ASSUME NEW s \in ProposedSelections PROVE s.lines # {}
  <2>1. ASSUME NEW g \in DOMAIN groups PROVE LinesIn(groups[g]) # {}
    <3>1. PICK v \in ViewsIn(groups[g]) : v \in views
      BY <1>4
    <3>2. v.lines # {}
      BY <1>3, <3>1 DEF ViewsStand, ViewStands
    <3>3. PICK l : l \in v.lines
      BY <3>2
    <3>4. l \in LinesIn(groups[g])
      BY <3>1, <3>3, LinesOfViews
    <3>5. QED BY <3>4
  <2>2. QED BY <1>1, <1>2, <1>5, <2>1
<1>6. ASSUME NEW l \in TextLines PROVE \E s : {t \in ProposedSelections : l \in t.lines} = {s}
  <2>1. CASE l \in Unowned
    <3>1. \A g \in DOMAIN groups : l \notin LinesIn(groups[g])
      BY <1>4, <2>1, LinesOfViews DEF Unowned
    <3>2. {t \in ProposedSelections : l \in t.lines} = {Alone(l)}
      BY <1>1, <1>2, <2>1, <3>1
    <3>3. QED BY <3>2
  <2>2. CASE l \notin Unowned
    <3>1. PICK v \in views : l \in v.lines
      BY <2>2 DEF Unowned
    <3>2. v.page <= turn.page
      BY <1>3, BoundaryFacts DEF ViewsStand, ViewStands
    <3>3. DOMAIN orphans = {}
      OBVIOUS
    <3>4. PICK g \in DOMAIN groups : v \in ViewsIn(groups[g])
      BY <3>2, <3>3 DEF BoundaryInv, AllPlaced
    <3>5. l \in LinesIn(groups[g])
      BY <3>1, <3>4, LinesOfViews
    <3>6. ASSUME NEW h \in DOMAIN groups, l \in LinesIn(groups[h]) PROVE h = g
      <4>1. PICK w \in ViewsIn(groups[h]) : l \in w.lines
        BY <3>6, LinesOfViews
      <4>2. w = v
        BY <1>3, <1>4, <3>1, <4>1 DEF ViewsStand
      <4>3. QED BY <3>4, <4>1, <4>2 DEF BoundaryInv, PlacedOnce
    <3>7. {t \in ProposedSelections : l \in t.lines} = {Of(g)}
      BY <1>1, <1>2, <2>2, <3>5, <3>6
    <3>8. QED BY <3>7
  <2>3. QED BY <2>1, <2>2
<1>7. \A l \in TextLines : Cardinality({s \in ProposedSelections : l \in s.lines}) = 1
  BY <1>6, FS_Singleton
<1>8. \A link \in continuations : ValidLink(link)
  BY DEF BoundaryInv, LinksStand
<1>9. QED BY <1>5, <1>7, <1>8 DEF ValidBoundaries

LEMMA ValidateProposalKeeps ==
    ASSUME BoundaryInv, ValidateProposal
    PROVE  BoundaryInv'
<1>1. proposal' = "proposed"
  BY AllValid DEF ValidateProposal
<1>2. /\ scanned' = scanned /\ views' = views /\ turn' = turn /\ groups' = groups /\ orphans' = orphans
      /\ continuations' = continuations
  BY DEF ValidateProposal
<1>3. BoundaryTyped'
  BY <1>1, <1>2, ScanStays DEF BoundaryInv, BoundaryTyped
<1>4. \A g \in DOMAIN groups : GroupStands(groups[g])'
  BY <1>2, ScanStays DEF BoundaryInv, GroupStands
<1>5. \A o \in DOMAIN orphans : OrphanStands(orphans[o])'
  BY <1>2 DEF BoundaryInv, OrphanStands, OnPage
<1>6. \A link \in continuations : ValidLink(link)'
  BY <1>2, LinkStays DEF BoundaryInv, LinksStand
<1>7. HeadedStand' /\ LinksStand' /\ PlacedOnce' /\ AllPlaced'
  BY <1>2, <1>6 DEF BoundaryInv, HeadedStand, LinksStand, PlacedOnce, AllPlaced
<1>8. QED BY <1>2, <1>3, <1>4, <1>5, <1>7 DEF BoundaryInv

LEMMA BoundaryStarts == BoundaryInit => BoundaryInv
<1> SUFFICES ASSUME BoundaryInit PROVE BoundaryInv
  OBVIOUS
<1>1. /\ scanned \in Scans /\ views = Views /\ turn = [page |-> 0, views |-> {}, headed |-> <<>>]
      /\ groups = <<>> /\ orphans = <<>> /\ continuations = {} /\ proposal = "none"
  BY DEF BoundaryInit
<1>2. ViewsStand
  BY <1>1, ViewsHold
<1>3. turn.page = 0 /\ turn.views = {} /\ turn.headed = <<>>
  BY <1>1
<1>4. DOMAIN groups = {} /\ DOMAIN orphans = {} /\ ToSet(turn.headed) = {}
  BY <1>1, <1>3 DEF ToSet
<1>5. BoundaryTyped
  <2>1. <<>> \in Seq(DOMAIN groups) /\ <<>> \in Seq(Boxes)
    OBVIOUS
  <2>2. 0 \in 0..Len(scanned.pages)
    BY <1>1, PagesAre
  <2>3. turn \in [page : 0..Len(scanned.pages), views : SUBSET views, headed : Seq(DOMAIN groups)]
    BY <1>1, <2>1, <2>2
  <2>4. QED BY <1>1, <1>2, <2>1, <2>3 DEF BoundaryTyped
<1>6. AllPlaced
  <2>1. \A v \in views : ~(v.page <= turn.page)
    BY <1>1, <1>2, <1>3, PagesAre DEF ViewsStand, ViewStands
  <2>2. QED BY <2>1 DEF AllPlaced
<1>7. HeadedStand /\ LinksStand /\ PlacedOnce
  BY <1>1, <1>3, <1>4 DEF HeadedStand, LinksStand, PlacedOnce
<1>8. QED BY <1>4, <1>5, <1>6, <1>7 DEF BoundaryInv

LEMMA BoundaryStays == BoundaryInv /\ [BoundaryNext]_boundaryVars => BoundaryInv'
<1> SUFFICES ASSUME BoundaryInv, [BoundaryNext]_boundaryVars PROVE BoundaryInv'
  OBVIOUS
<1>1. CASE \E view \in turn.views : OpenGroup(view) \/ GoOn(view) \/ Gather(view) \/ LeaveOver(view)
  BY <1>1, OpenGroupKeeps, GoOnKeeps, GatherKeeps, LeaveOverKeeps
<1>2. CASE Continue
  BY <1>2, ContinueKeeps
<1>3. CASE KeepOrphan
  BY <1>3, KeepOrphanKeeps
<1>4. CASE TurnPage
  BY <1>4, TurnPageKeeps
<1>5. CASE ValidateProposal
  BY <1>5, ValidateProposalKeeps
<1>6. CASE UNCHANGED boundaryVars
  <2>1. /\ scanned' = scanned /\ views' = views /\ turn' = turn /\ groups' = groups /\ orphans' = orphans
        /\ continuations' = continuations /\ proposal' = proposal
    BY <1>6 DEF boundaryVars
  <2>2. BoundaryTyped'
    BY <2>1, ScanStays DEF BoundaryInv, BoundaryTyped
  <2>3. \A g \in DOMAIN groups : GroupStands(groups[g])'
    BY <2>1, ScanStays DEF BoundaryInv, GroupStands
  <2>4. \A o \in DOMAIN orphans : OrphanStands(orphans[o])'
    BY <2>1 DEF BoundaryInv, OrphanStands, OnPage
  <2>5. \A link \in continuations : ValidLink(link)'
    BY <2>1, LinkStays DEF BoundaryInv, LinksStand
  <2>6. HeadedStand' /\ LinksStand' /\ PlacedOnce' /\ AllPlaced'
    BY <2>1, <2>5 DEF BoundaryInv, HeadedStand, LinksStand, PlacedOnce, AllPlaced
  <2>7. QED BY <2>1, <2>2, <2>3, <2>4, <2>6 DEF BoundaryInv
<1>7. QED BY <1>1, <1>2, <1>3, <1>4, <1>5, <1>6 DEF BoundaryNext

\* Each view of the pages so far is in one place, what is left over is of the page, no group that was
\* continued has more gathered, and its steps count on (transcription_boundaries.py:172-286).
THEOREM BoundaryInvariant == BoundarySpec => []BoundaryInv
<1>1. QED BY BoundaryStarts, BoundaryStays, PTL DEF BoundarySpec

\* However the blocks of a scan overlap and its pages follow each other, what is proposed passes its
\* own validation, and the steps of a recipe count on over a page (transcription_boundaries.py:344).
THEOREM ProposalsAlwaysHold == BoundarySpec => []ProposalsHold
<1>1. BoundaryInv => ProposalsHold
  BY DEF BoundaryInv, BoundaryTyped, GroupStands, ProposalsHold
<1>2. QED BY <1>1, BoundaryInvariant, PTL
================================================================================
