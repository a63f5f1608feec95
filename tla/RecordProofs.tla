----------------------------- MODULE RecordProofs -----------------------------
(***************************************************************************)
(* Proofs about records that are the sum of what was done: an owner's      *)
(* personal state, for any operations, threads, repeated requests, late    *)
(* and lost writes; the protected sender's books, for any packets, prices, *)
(* caps, senders and failures; the recovery ledger under the triage, for   *)
(* any reports, regions, runs and kills; and the caches of files and       *)
(* rendered pages, for any sizes, budgets, threads, crashes and decay.     *)
(***************************************************************************)
EXTENDS PersonalState, PilotLedger, ReportTriage, LibraryCaches, FiniteSetTheorems, SequenceTheorems,
        WellFoundedInduction, TLAPS

----------------------------------------------------------------------------
(* An owner's personal state: the inductive invariant *)

Marks == [at : {op.at : op \in Operations}, name : {op.name : op \in Operations}]
Entries == [op : Operations, revision : Nat]
RecordType == [bookmarks : [Ids -> Marks \cup {Absent}],
               resume : [Resumable -> {op.name : op \in Operations} \cup {Absent}],
               operations : SUBSET Entries, revision : Nat]
RequestType == [pc : {"free", "load", "put"}, op : Operations \cup {Absent},
                seen : RecordType, try : Nat]

PersonalTypeOK ==
    /\ record \in RecordType
    /\ request \in [Requests -> RequestType]
    /\ answered \subseteq Entries
    /\ mishaps \in Nat

\* What a thread knows where it is: the record it prepared a write for takes the operation.
Prepared(r) ==
    /\ request[r].pc # "free" => request[r].op \in Operations
    /\ request[r].pc = "put" =>
          /\ Prior(request[r].seen, request[r].op) = {}
          /\ ~PutRefused(request[r].seen, request[r].op)

\* Each operation acted once, at a revision of its own.
OncePerId(rec) == \A d, e \in rec.operations : d.op.id = e.op.id => d = e
OncePerRevision(rec) == \A d, e \in rec.operations : d.revision = e.revision => d = e
Numbered(rec) == {d.revision : d \in rec.operations} = 1..rec.revision

Naming(rec, i) == {d \in rec.operations : d.op.action # "resume" /\ Target(d.op) = i}
Resumes(rec, e) == {d \in rec.operations : d.op.action = "resume" /\ d.op.at = e}
Saved(rec, i) == CHOOSE d \in Naming(rec, i) : d.op.action = "save"

Marked(rec, i) == rec.bookmarks[i] =
    IF /\ \E d \in Naming(rec, i) : d.op.action = "save"
       /\ Newest(Naming(rec, i)).op.action # "remove"
    THEN [at |-> Saved(rec, i).op.at, name |-> Newest(Naming(rec, i)).op.name]
    ELSE Absent

Resumed(rec, e) == rec.resume[e] =
    IF Resumes(rec, e) = {} THEN Absent ELSE Newest(Resumes(rec, e)).op.name

Replayed(rec) ==
    /\ OncePerId(rec) /\ OncePerRevision(rec) /\ Numbered(rec)
    /\ \A i \in Ids : Marked(rec, i)
    /\ \A e \in Resumable : Resumed(rec, e)

Within(rec) ==
    /\ IsFiniteSet(rec.operations) /\ Cardinality(rec.operations) <= MaxOperations
    /\ IsFiniteSet(Kept(rec)) /\ Cardinality(Kept(rec)) <= MaxBookmarks

PersonalInv ==
    /\ PersonalTypeOK
    /\ \A r \in Requests : Prepared(r)
    /\ answered \subseteq record.operations
    /\ Replayed(record) /\ Within(record)

\* The record holds at most the operations and the bookmarks an owner may have.
RecordWithin == Within(record)

----------------------------------------------------------------------------
(* The newest of a set of operations *)

\* An operation numbered above all others of a set is the newest of the set with it.
LEMMA NewestAdded ==
    ASSUME NEW S \in SUBSET Entries, NEW d \in Entries, \A e \in S : e.revision < d.revision
    PROVE  Newest(S \cup {d}) = d
<1>1. \A e \in S \cup {d} : e.revision <= d.revision
  BY DEF Entries
<1>2. \A c \in S \cup {d} : (\A e \in S \cup {d} : e.revision <= c.revision) => c = d
  BY DEF Entries
<1>3. QED BY <1>1, <1>2 DEF Newest

\* The operation that a write adds to the record.
Added(rec, op) == [op |-> op, revision |-> rec.revision + 1]

\* A write keeps the shape of the record, and adds one operation, above all others.
LEMMA ApplyType ==
    ASSUME NEW rec \in RecordType, NEW op \in Operations
    PROVE  /\ Apply(rec, op) \in RecordType
           /\ Apply(rec, op).operations = rec.operations \cup {Added(rec, op)}
           /\ Added(rec, op) \in Entries /\ Added(rec, op).op = op
           /\ Added(rec, op).revision = rec.revision + 1
           /\ Apply(rec, op).revision = rec.revision + 1
           /\ Apply(rec, op).bookmarks = Bookmarks(rec, op)
<1>1. Added(rec, op) \in Entries
  BY DEF Added, Entries, RecordType
<1>2. Bookmarks(rec, op) \in [Ids -> Marks \cup {Absent}]
  <2>1. rec.bookmarks \in [Ids -> Marks \cup {Absent}] /\ [at |-> op.at, name |-> op.name] \in Marks
    BY DEF RecordType, Marks
  <2>2. ASSUME op.target \in Ids, rec.bookmarks[op.target] # Absent
        PROVE  [at |-> rec.bookmarks[op.target].at, name |-> op.name] \in Marks
    BY <2>1, <2>2 DEF Marks
  <2>3. op.id \in Ids
    BY DEF Ids
  <2> DEFINE renamed == [at |-> IF rec.bookmarks[op.target] = Absent THEN op.at
                                ELSE rec.bookmarks[op.target].at, name |-> op.name]
  <2>4. op.target \in Ids => renamed \in Marks
    BY <2>1, <2>2
  <2>5. CASE op.action = "save"
    BY <2>5, <2>1, <2>3 DEF Bookmarks
  <2>6. CASE op.action = "rename"
    <3>1. Bookmarks(rec, op) = [rec.bookmarks EXCEPT ![op.target] = renamed]
      BY <2>6 DEF Bookmarks
    <3> HIDE DEF renamed
    <3>2. QED BY <3>1, <2>1, <2>4
  <2>7. CASE op.action = "remove"
    BY <2>7, <2>1 DEF Bookmarks
  <2>8. CASE op.action = "resume"
    BY <2>8, <2>1 DEF Bookmarks
  <2>9. QED BY <2>5, <2>6, <2>7, <2>8, PersonalAssumption
<1>3. (IF op.action = "resume" THEN [rec.resume EXCEPT ![op.at] = op.name] ELSE rec.resume)
         \in [Resumable -> {o.name : o \in Operations} \cup {Absent}]
  BY DEF RecordType
<1>4. rec.operations \cup {Added(rec, op)} \in SUBSET Entries /\ rec.revision + 1 \in Nat
  BY <1>1 DEF RecordType
<1>5. QED BY <1>1, <1>2, <1>3, <1>4 DEF Apply, Added, RecordType

\* Every operation of the record is numbered up to its revision, so a write's is the last.
LEMMA AddedLast ==
    ASSUME NEW rec \in RecordType, Numbered(rec), NEW op \in Operations
    PROVE  \A d \in rec.operations : d.revision < Added(rec, op).revision
<1> TAKE d \in rec.operations
<1>1. d.revision \in 1..rec.revision
  BY DEF Numbered
<1>2. rec.revision \in Nat
  BY DEF RecordType
<1>3. QED BY <1>1, <1>2 DEF Added

\* The first write of an operation keeps the identities and the numbers of the record.
LEMMA ApplyNumbers ==
    ASSUME NEW rec \in RecordType, NEW op \in Operations,
           OncePerId(rec), OncePerRevision(rec), Numbered(rec), Prior(rec, op) = {}
    PROVE  /\ OncePerId(Apply(rec, op)) /\ OncePerRevision(Apply(rec, op))
           /\ Numbered(Apply(rec, op))
<1> DEFINE d == Added(rec, op)
           next == Apply(rec, op)
<1>1. /\ next.operations = rec.operations \cup {d}
      /\ d.op = op /\ d.revision = rec.revision + 1 /\ next.revision = rec.revision + 1
      /\ rec.revision \in Nat
  BY ApplyType DEF RecordType
<1>2. \A e \in rec.operations : e.op.id # op.id
  BY DEF Prior
<1>3. \A e \in rec.operations : e.revision < d.revision
  BY AddedLast
<1>4. rec.operations \in SUBSET Entries
  BY DEF RecordType
<1> HIDE DEF d, next
<1>5. OncePerId(next)
  BY <1>1, <1>2 DEF OncePerId
<1>6. OncePerRevision(next)
  BY <1>1, <1>3, <1>4 DEF OncePerRevision, Entries
<1>7. Numbered(next)
  <2>1. {e.revision : e \in next.operations} =
          {e.revision : e \in rec.operations} \cup {d.revision}
    BY <1>1
  <2>2. {e.revision : e \in rec.operations} = 1..rec.revision
    BY DEF Numbered
  <2>3. (1..rec.revision) \cup {rec.revision + 1} = 1..(rec.revision + 1)
    BY <1>1
  <2>4. QED BY <2>1, <2>2, <2>3, <1>1 DEF Numbered
<1>8. QED BY <1>5, <1>6, <1>7 DEF next

\* What an operation does to the bookmark it names.
LEMMA ApplyMarks ==
    ASSUME NEW rec \in RecordType, NEW op \in Operations, Replayed(rec),
           Prior(rec, op) = {}, ~PutRefused(rec, op), NEW i \in Ids
    PROVE  Marked(Apply(rec, op), i)
<1> DEFINE d == Added(rec, op)
           next == Apply(rec, op)
           old == Naming(rec, i)
<1>1. /\ next.operations = rec.operations \cup {d}
      /\ d \in Entries /\ d.op = op
      /\ next.bookmarks = Bookmarks(rec, op)
      /\ rec.bookmarks \in [Ids -> Marks \cup {Absent}]
      /\ rec.operations \in SUBSET Entries
  BY ApplyType DEF RecordType
<1>2. \A e \in rec.operations : e.op.id # op.id
  BY DEF Prior
<1>3. \A e \in rec.operations : e.revision < d.revision
  BY AddedLast DEF Replayed
<1>4. OncePerId(next)
  BY ApplyNumbers DEF Replayed
<1>5. Marked(rec, i)
  BY DEF Replayed
<1> SUFFICES Marked(next, i)
  OBVIOUS
<1> HIDE DEF d, next
<1>6. CASE op.action = "resume" \/ Target(op) # i
  <2>1. Naming(next, i) = old
    BY <1>1, <1>6 DEF Naming
  <2>2. next.bookmarks[i] = rec.bookmarks[i]
    BY <1>1, <1>6, PersonalAssumption DEF Bookmarks, Target
  <2>3. Saved(next, i) = Saved(rec, i)
    BY <2>1 DEF Saved
  <2> HIDE DEF old
  <2>4. QED BY <2>1, <2>2, <2>3, <1>5 DEF Marked, old
<1>7. CASE op.action # "resume" /\ Target(op) = i
  <2>1. Naming(next, i) = old \cup {d}
    BY <1>1, <1>7 DEF Naming
  <2>2. Newest(old \cup {d}) = d
    <3>1. old \in SUBSET Entries /\ \A e \in old : e.revision < d.revision
      BY <1>1, <1>3 DEF Naming
    <3>2. QED BY <3>1, <1>1, NewestAdded
  <2>3. Newest(Naming(next, i)) = d
    BY <2>1, <2>2
  <2>4. CASE op.action = "save"
    <3>1. i = op.id
      BY <1>7, <2>4 DEF Target
    <3>2. next.bookmarks[i] = [at |-> op.at, name |-> op.name]
      BY <1>1, <2>4, <3>1 DEF Bookmarks
    <3>3. d \in Naming(next, i) /\ d.op.action = "save"
      BY <2>1, <1>1, <2>4
    <3>4. \A c \in Naming(next, i) : c.op.action = "save" => c = d
      <4>1. \A c \in Naming(next, i) :
              /\ c \in next.operations
              /\ c.op.action = "save" => c.op.id = i
        BY DEF Naming, Target
      <4>2. d \in next.operations /\ d.op.id = i
        BY <1>1, <3>1
      <4>3. QED BY <4>1, <4>2, <1>4 DEF OncePerId
    <3>5. Saved(next, i) = d
      BY <3>3, <3>4 DEF Saved
    <3>6. QED BY <3>2, <3>3, <3>5, <2>3, <1>1 DEF Marked
  <2>5. CASE op.action = "rename"
    <3>1. i = op.target /\ rec.bookmarks[i] # Absent
      BY <1>7, <2>5 DEF Target, PutRefused, Kept
    <3>2. next.bookmarks[i] = [at |-> rec.bookmarks[i].at, name |-> op.name]
      BY <1>1, <2>5, <3>1 DEF Bookmarks
    <3>3. /\ \E c \in old : c.op.action = "save"
          /\ rec.bookmarks[i] = [at |-> Saved(rec, i).op.at, name |-> Newest(old).op.name]
      BY <3>1, <1>5 DEF Marked
    <3>4. \E c \in Naming(next, i) : c.op.action = "save"
      BY <3>3, <2>1
    <3>5. Saved(next, i) = Saved(rec, i)
      <4>1. PICK c \in old : c.op.action = "save"
        BY <3>3
      <4>2. \A b, e \in Naming(next, i) :
              b.op.action = "save" /\ e.op.action = "save" => b = e
        BY <1>4 DEF OncePerId, Naming, Target
      <4>3. c \in Naming(next, i)
        BY <2>1, <4>1
      <4>4. Saved(next, i) = c
        BY <4>1, <4>2, <4>3 DEF Saved
      <4>5. Saved(rec, i) = c
        BY <4>1, <4>2, <2>1 DEF Saved
      <4>6. QED BY <4>4, <4>5
    <3>6. rec.bookmarks[i].at = Saved(rec, i).op.at
      BY <3>3
    <3>7. QED BY <3>2, <3>4, <3>5, <3>6, <2>3, <2>5, <1>1 DEF Marked
  <2>6. CASE op.action = "remove"
    <3>1. next.bookmarks[i] = Absent
      BY <1>1, <2>6, <1>7 DEF Bookmarks, Target
    <3>2. QED BY <3>1, <2>3, <2>6, <1>1 DEF Marked
  <2>7. QED BY <2>4, <2>5, <2>6, <1>7, PersonalAssumption
<1>8. QED BY <1>6, <1>7

\* What an operation does to the resume point it names.
LEMMA ApplyResumes ==
    ASSUME NEW rec \in RecordType, NEW op \in Operations, Replayed(rec), NEW e \in Resumable
    PROVE  Resumed(Apply(rec, op), e)
<1> DEFINE d == Added(rec, op)
           next == Apply(rec, op)
           old == Resumes(rec, e)
<1>1. /\ next.operations = rec.operations \cup {d}
      /\ d \in Entries /\ d.op = op
      /\ rec.operations \in SUBSET Entries
      /\ rec.resume \in [Resumable -> {o.name : o \in Operations} \cup {Absent}]
  BY ApplyType DEF RecordType
<1>2. next.resume = IF op.action = "resume" THEN [rec.resume EXCEPT ![op.at] = op.name]
                    ELSE rec.resume
  BY DEF Apply
<1>3. \A c \in rec.operations : c.revision < d.revision
  BY AddedLast DEF Replayed
<1>4. Resumed(rec, e)
  BY DEF Replayed
<1> SUFFICES Resumed(next, e)
  OBVIOUS
<1> HIDE DEF d, next
<1>5. CASE op.action = "resume" /\ op.at = e
  <2>1. Resumes(next, e) = old \cup {d}
    BY <1>1, <1>5 DEF Resumes
  <2>2. Newest(old \cup {d}) = d
    <3>1. old \in SUBSET Entries /\ \A c \in old : c.revision < d.revision
      BY <1>1, <1>3 DEF Resumes
    <3>2. QED BY <3>1, <1>1, NewestAdded
  <2>3. next.resume[e] = op.name
    BY <1>1, <1>2, <1>5
  <2>4. QED BY <2>1, <2>2, <2>3, <1>1 DEF Resumed
<1>6. CASE ~(op.action = "resume" /\ op.at = e)
  <2>1. Resumes(next, e) = old
    BY <1>1, <1>6 DEF Resumes
  <2>2. next.resume[e] = rec.resume[e]
    BY <1>1, <1>2, <1>6
  <2> HIDE DEF old
  <2>3. QED BY <2>1, <2>2, <1>4 DEF Resumed, old
<1>7. QED BY <1>5, <1>6

LEMMA ApplyReplayed ==
    ASSUME NEW rec \in RecordType, NEW op \in Operations, Replayed(rec),
           Prior(rec, op) = {}, ~PutRefused(rec, op)
    PROVE  Replayed(Apply(rec, op))
  BY ApplyNumbers, ApplyMarks, ApplyResumes DEF Replayed

\* A write that was not refused leaves the record within its limits.
LEMMA ApplyWithin ==
    ASSUME NEW rec \in RecordType, NEW op \in Operations, Within(rec), ~PutRefused(rec, op)
    PROVE  Within(Apply(rec, op))
<1> DEFINE next == Apply(rec, op)
<1>1. next.operations = rec.operations \cup {Added(rec, op)} /\ next.bookmarks = Bookmarks(rec, op)
  BY ApplyType
<1>2. rec.bookmarks \in [Ids -> Marks \cup {Absent}]
  BY DEF RecordType
<1> HIDE DEF next
<1>3. Cardinality(rec.operations) \in Nat /\ Cardinality(Kept(rec)) \in Nat
  BY FS_CardinalityType DEF Within
<1>4. IsFiniteSet(next.operations) /\ Cardinality(next.operations) <= MaxOperations
  <2>1. /\ IsFiniteSet(next.operations)
        /\ Cardinality(next.operations) \in {Cardinality(rec.operations), Cardinality(rec.operations) + 1}
    BY <1>1, FS_AddElement DEF Within
  <2>2. Cardinality(rec.operations) < MaxOperations
    BY <1>3, PersonalAssumption DEF PutRefused
  <2>3. QED BY <2>1, <2>2, <1>3, PersonalAssumption
<1>5. CASE op.action = "save"
  <2>1. Kept(next) \subseteq Kept(rec) \cup {op.id}
    BY <1>1, <1>2, <1>5 DEF Kept, Bookmarks
  <2>2. Cardinality(Kept(rec)) < MaxBookmarks
    BY <1>3, <1>5, PersonalAssumption DEF PutRefused
  <2>3. /\ IsFiniteSet(Kept(rec) \cup {op.id})
        /\ Cardinality(Kept(rec) \cup {op.id}) \in {Cardinality(Kept(rec)), Cardinality(Kept(rec)) + 1}
    BY FS_AddElement DEF Within
  <2>4. /\ IsFiniteSet(Kept(next))
        /\ Cardinality(Kept(next)) <= Cardinality(Kept(rec) \cup {op.id})
    BY <2>1, <2>3, FS_Subset
  <2>5. Cardinality(Kept(next)) \in Nat
    BY <2>4, FS_CardinalityType
  <2>6. QED BY <2>2, <2>3, <2>4, <2>5, <1>3, <1>4, PersonalAssumption DEF Within, next
<1>6. CASE op.action # "save"
  <2>1. Kept(next) \subseteq Kept(rec)
    BY <1>1, <1>2, <1>6, PersonalAssumption DEF Kept, Bookmarks, PutRefused
  <2>2. /\ IsFiniteSet(Kept(next))
        /\ Cardinality(Kept(next)) <= Cardinality(Kept(rec))
    BY <2>1, FS_Subset DEF Within
  <2>3. Cardinality(Kept(next)) \in Nat
    BY <2>2, FS_CardinalityType
  <2>4. QED BY <2>2, <2>3, <1>3, <1>4, PersonalAssumption DEF Within, next
<1>7. QED BY <1>5, <1>6
----------------------------------------------------------------------------
(* Every step *)

LEMMA EmptyFits ==
    Empty \in RecordType /\ Replayed(Empty) /\ Within(Empty)
<1>1. Empty \in RecordType
  BY DEF Empty, RecordType
<1>2. /\ Empty.operations = {} /\ Empty.revision = 0
      /\ \A i \in Ids : Empty.bookmarks[i] = Absent
      /\ \A e \in Resumable : Empty.resume[e] = Absent
  BY DEF Empty
<1>3. OncePerId(Empty) /\ OncePerRevision(Empty) /\ Numbered(Empty)
  BY <1>2 DEF OncePerId, OncePerRevision, Numbered
<1>4. \A i \in Ids : Marked(Empty, i)
  BY <1>2 DEF Marked, Naming
<1>5. \A e \in Resumable : Resumed(Empty, e)
  BY <1>2 DEF Resumed, Resumes
<1>6. Within(Empty)
  <2>1. Kept(Empty) = {}
    BY <1>2 DEF Kept
  <2>2. QED BY <2>1, <1>2, FS_EmptySet, PersonalAssumption DEF Within
<1>7. QED BY <1>1, <1>3, <1>4, <1>5, <1>6 DEF Replayed

LEMMA PersonalInitInv == PersonalInit => PersonalInv
<1> SUFFICES ASSUME PersonalInit PROVE PersonalInv
  OBVIOUS
<1>1. Free \in RequestType /\ Free.pc = "free"
  BY EmptyFits DEF Free, RequestType
<1>2. PersonalTypeOK
  BY <1>1, EmptyFits DEF PersonalInit, PersonalTypeOK
<1>3. \A r \in Requests : Prepared(r)
  BY <1>1 DEF PersonalInit, Prepared
<1>4. QED BY <1>2, <1>3, EmptyFits DEF PersonalInit, PersonalInv

\* The conditional write stores what was prepared from the record as it still is.
LEMMA PutsFit ==
    ASSUME PersonalInv, NEW r \in Requests, request[r].pc = "put", Puts(r)
    PROVE  /\ record' \in RecordType /\ Replayed(record') /\ Within(record')
           /\ request[r].op \in Operations
           /\ record'.operations = record.operations \cup {Added(record, request[r].op)}
           /\ record'.revision = record.revision + 1
<1>1. /\ record \in RecordType /\ Replayed(record) /\ Within(record)
      /\ request[r].op \in Operations
      /\ Prior(record, request[r].op) = {} /\ ~PutRefused(record, request[r].op)
  BY DEF PersonalInv, PersonalTypeOK, Prepared, Puts
<1>2. record' = Apply(record, request[r].op)
  BY DEF Puts
<1>3. QED BY <1>1, <1>2, ApplyType, ApplyReplayed, ApplyWithin

\* A thread that leaves, or starts again, carries no claim.
LEMMA LeavesFit ==
    ASSUME PersonalInv, NEW r \in Requests, Finish(r) \/ (request[r].pc # "free" /\ Retry(r))
    PROVE  /\ request' \in [Requests -> RequestType]
           /\ \A q \in Requests : Prepared(q)'
<1> DEFINE again == [request[r] EXCEPT !.pc = "load", !.try = request[r].try + 1]
<1>1. Free \in RequestType /\ Free.pc = "free"
  BY EmptyFits DEF Free, RequestType
<1>2. request[r] \in RequestType /\ request \in [Requests -> RequestType]
  BY DEF PersonalInv, PersonalTypeOK
<1>3. again \in RequestType /\ again.pc = "load" /\ again.op = request[r].op
  <2>1. request[r].try + 1 \in Nat
    BY <1>2 DEF RequestType
  <2>2. QED BY <1>2, <2>1 DEF RequestType
<1>4. \/ request' = [request EXCEPT ![r] = Free]
      \/ request[r].pc # "free" /\ request' = [request EXCEPT ![r] = again]
  BY DEF Finish, Retry
<1> HIDE DEF again
<1>5. request' \in [Requests -> RequestType]
  BY <1>1, <1>2, <1>3, <1>4
<1>6. ASSUME NEW q \in Requests PROVE Prepared(q)'
  <2>1. Prepared(q) /\ Prepared(r)
    BY DEF PersonalInv
  <2>2. CASE q = r
    BY <2>2, <2>1, <1>1, <1>2, <1>3, <1>4 DEF Prepared
  <2>3. CASE q # r
    <3>1. request'[q] = request[q]
      BY <2>3, <1>2, <1>4
    <3>2. QED BY <3>1, <2>1 DEF Prepared
  <2>4. QED BY <2>2, <2>3
<1>7. QED BY <1>5, <1>6

\* A thread that goes on, with a claim of its own.
LEMMA GoesOnFit ==
    ASSUME PersonalInv, NEW r \in Requests, NEW next \in RequestType,
           request' = [request EXCEPT ![r] = next],
           next.pc # "free" => next.op \in Operations,
           next.pc = "put" => Prior(next.seen, next.op) = {} /\ ~PutRefused(next.seen, next.op)
    PROVE  /\ request' \in [Requests -> RequestType]
           /\ \A q \in Requests : Prepared(q)'
<1>1. request \in [Requests -> RequestType] /\ \A q \in Requests : Prepared(q)
  BY DEF PersonalInv, PersonalTypeOK
<1>2. request' \in [Requests -> RequestType] /\ request'[r] = next
  BY <1>1
<1>3. Prepared(r)'
  BY <1>2 DEF Prepared
<1>4. ASSUME NEW q \in Requests \ {r} PROVE Prepared(q)'
  <2>1. request'[q] = request[q]
    BY <1>1
  <2>2. QED BY <2>1, <1>1 DEF Prepared
<1>5. QED BY <1>2, <1>3, <1>4

\* Every step of a request, and every lost or failed one, preserves the invariant.
LEMMA PersonalNextInv == PersonalInv /\ [PersonalNext]_personalVars => PersonalInv'
<1> SUFFICES ASSUME PersonalInv, [PersonalNext]_personalVars PROVE PersonalInv'
  OBVIOUS
<1>1. CASE UNCHANGED personalVars
  BY <1>1 DEF personalVars, PersonalInv, PersonalTypeOK, Prepared
<1>2. ASSUME NEW r \in Requests, NEW op \in Operations, Receive(r, op) PROVE PersonalInv'
  <2> DEFINE next == [pc |-> "load", op |-> op, seen |-> Empty, try |-> 0]
  <2>1. next \in RequestType /\ request' = [request EXCEPT ![r] = next]
    BY <1>2, EmptyFits DEF Receive, RequestType
  <2>2. request' \in [Requests -> RequestType] /\ \A q \in Requests : Prepared(q)'
    BY <2>1, GoesOnFit
  <2>3. QED BY <1>2, <2>2 DEF Receive, PersonalInv, PersonalTypeOK
<1>3. ASSUME NEW r \in Requests, Repeat(r) PROVE PersonalInv'
  <2>1. request' \in [Requests -> RequestType] /\ \A q \in Requests : Prepared(q)'
    BY <1>3, LeavesFit DEF Repeat
  <2>2. answered' \subseteq record.operations /\ record.operations \in SUBSET Entries
    BY <1>3 DEF Repeat, Prior, PersonalInv, PersonalTypeOK, RecordType
  <2>3. QED BY <1>3, <2>1, <2>2 DEF Repeat, PersonalInv, PersonalTypeOK
<1>4. ASSUME NEW r \in Requests, Refuse(r) PROVE PersonalInv'
  <2>1. request' \in [Requests -> RequestType] /\ \A q \in Requests : Prepared(q)'
    BY <1>4, LeavesFit DEF Refuse
  <2>2. QED BY <1>4, <2>1 DEF Refuse, PersonalInv, PersonalTypeOK
<1>5. ASSUME NEW r \in Requests, PreparePut(r) PROVE PersonalInv'
  <2> DEFINE next == [request[r] EXCEPT !.pc = "put", !.seen = record]
  <2>1. request[r] \in RequestType /\ record \in RecordType /\ request[r].op \in Operations
    BY <1>5 DEF PreparePut, PersonalInv, PersonalTypeOK, Prepared
  <2>2. /\ next \in RequestType /\ next.seen = record /\ next.op = request[r].op
        /\ next.pc = "put" /\ request' = [request EXCEPT ![r] = next]
    BY <1>5, <2>1 DEF PreparePut, RequestType
  <2> HIDE DEF next
  <2>3. request' \in [Requests -> RequestType] /\ \A q \in Requests : Prepared(q)'
    BY <1>5, <2>1, <2>2, GoesOnFit DEF PreparePut
  <2>4. QED BY <1>5, <2>3 DEF PreparePut, PersonalInv, PersonalTypeOK
<1>6. ASSUME NEW r \in Requests, Save(r) PROVE PersonalInv'
  <2>1. request' \in [Requests -> RequestType] /\ \A q \in Requests : Prepared(q)'
    BY <1>6, LeavesFit DEF Save
  <2>2. /\ record' \in RecordType /\ Replayed(record') /\ Within(record')
        /\ record'.operations = record.operations \cup {Added(record, request[r].op)}
    BY <1>6, PutsFit DEF Save
  <2>3. answered' \subseteq record'.operations
    BY <1>6, <2>2 DEF Save, Puts, Added, PersonalInv
  <2>4. answered' \subseteq Entries
    BY <2>2, <2>3 DEF RecordType
  <2>5. QED BY <1>6, <2>1, <2>2, <2>3, <2>4 DEF Save, PersonalInv, PersonalTypeOK
<1>7. ASSUME NEW r \in Requests, Outdated(r) PROVE PersonalInv'
  <2>1. request' \in [Requests -> RequestType] /\ \A q \in Requests : Prepared(q)'
    BY <1>7, LeavesFit DEF Outdated
  <2>2. QED BY <1>7, <2>1 DEF Outdated, PersonalInv, PersonalTypeOK
<1>8. ASSUME NEW r \in Requests, StoredOutdated(r) PROVE PersonalInv'
  <2>1. request' \in [Requests -> RequestType] /\ \A q \in Requests : Prepared(q)'
    BY <1>8, LeavesFit DEF StoredOutdated
  <2>2. /\ record' \in RecordType /\ Replayed(record') /\ Within(record')
        /\ record'.operations = record.operations \cup {Added(record, request[r].op)}
    BY <1>8, PutsFit DEF StoredOutdated
  <2>3. mishaps' \in Nat /\ answered' = answered
    BY <1>8 DEF StoredOutdated, Mishap, PersonalInv, PersonalTypeOK
  <2>4. QED BY <2>1, <2>2, <2>3 DEF PersonalInv, PersonalTypeOK
<1>9. ASSUME NEW r \in Requests, Unconfirmed(r) PROVE PersonalInv'
  <2>1. request' \in [Requests -> RequestType] /\ \A q \in Requests : Prepared(q)'
    BY <1>9, LeavesFit DEF Unconfirmed
  <2>2. /\ record' \in RecordType /\ Replayed(record') /\ Within(record')
        /\ record.operations \subseteq record'.operations
    BY <1>9, PutsFit DEF Unconfirmed, PersonalInv, PersonalTypeOK
  <2>3. mishaps' \in Nat /\ answered' = answered
    BY <1>9 DEF Unconfirmed, Mishap, PersonalInv, PersonalTypeOK
  <2>4. QED BY <2>1, <2>2, <2>3 DEF PersonalInv, PersonalTypeOK
<1>10. QED BY <1>1, <1>2, <1>3, <1>4, <1>5, <1>6, <1>7, <1>8, <1>9 DEF PersonalNext

----------------------------------------------------------------------------
(* What holds of every behaviour *)

\* The record of an owner is what its operations made of it, within its bounds.
THEOREM PersonalInvariant == PersonalSpec => []PersonalInv
  BY PersonalInitInv, PersonalNextInv, PTL DEF PersonalSpec

\* The record is the replay of its operations, and every 200 names the revision at which its
\* operation acted (reader_personal.py:38-86).
THEOREM RecordReplayed == PersonalSpec => []RecordIsReplay
<1>1. PersonalInv => RecordIsReplay
  BY DEF PersonalInv, RecordIsReplay, Replayed, OncePerId, Numbered, Marked, Naming, Saved,
         TouchingMark, Resumed, Resumes
<1>2. QED BY <1>1, PersonalInvariant, PTL

\* No interleaving of the retries of many devices takes the record over 10000 operations or
\* 1000 bookmarks (reader_personal.py:44, 58).
THEOREM RecordBounded == PersonalSpec => []RecordWithin
<1>1. PersonalInv => RecordWithin
  BY DEF PersonalInv, RecordWithin
<1>2. QED BY <1>1, PersonalInvariant, PTL

\* An operation's result, and what a device was answered, is never changed or forgotten, so
\* that a repeat is always answered with it (reader_personal.py:38-43).
THEOREM ResultsKept ==
    PersonalSpec => [][/\ record.operations \subseteq record'.operations
                       /\ answered \subseteq answered']_personalVars
<1>1. PersonalInv /\ [PersonalNext]_personalVars =>
        [/\ record.operations \subseteq record'.operations
         /\ answered \subseteq answered']_personalVars
  <2> SUFFICES ASSUME PersonalInv, PersonalNext
               PROVE  record.operations \subseteq record'.operations /\ answered \subseteq answered'
    OBVIOUS
  <2>1. PICK r \in Requests :
          \/ \E op \in Operations : Receive(r, op)
          \/ Repeat(r) \/ Refuse(r) \/ PreparePut(r) \/ Save(r)
          \/ Outdated(r) \/ StoredOutdated(r) \/ Unconfirmed(r)
    BY DEF PersonalNext
  <2>2. record.operations \subseteq record'.operations
    <3>1. request[r].pc = "put" /\ Puts(r) => record.operations \subseteq record'.operations
      BY PutsFit
    <3>2. record' = record \/ (request[r].pc = "put" /\ Puts(r))
      BY <2>1 DEF Receive, Repeat, Refuse, PreparePut, Save, Outdated, StoredOutdated, Unconfirmed
    <3>3. QED BY <3>1, <3>2
  <2>3. answered \subseteq answered'
    BY <2>1 DEF Receive, Repeat, Refuse, PreparePut, Save, Outdated, StoredOutdated, Unconfirmed,
                Mishap
  <2>4. QED BY <2>2, <2>3
<1>2. QED BY <1>1, PersonalInvariant, PTL DEF PersonalSpec

----------------------------------------------------------------------------
(* The least number of a set *)

\* A set of natural numbers has a least one.
LEMMA LeastOf ==
    ASSUME NEW S \in SUBSET Nat, S # {}
    PROVE  \E m \in S : \A n \in S : m <= n
<1> DEFINE Below == OpToRel(<, Nat)
<1>1. IsWellFoundedOn(Below, Nat)
  BY NatLessThanWellFounded
<1>2. \A x, y \in Nat : y < x => <<y, x>> \in Below
  BY DEF OpToRel
<1> HIDE DEF Below
<1>3. PICK m \in S : \A n \in S : <<n, m>> \notin Below
  BY <1>1, WFMin
<1>4. ASSUME NEW n \in S PROVE m <= n
  <2>1. ~(n < m) /\ n \in Nat /\ m \in Nat
    BY <1>2, <1>3
  <2>2. QED BY <2>1
<1>5. QED BY <1>4

----------------------------------------------------------------------------
(* Sums over finite sets *)

SumOf(g, S) == MapThenSumSet(LAMBDA x : g[x], S)

Picked(S) == CHOOSE x \in S : TRUE

\* The sums of g over the subsets of S.
Sums(h, g, S) == h = [T \in SUBSET S |->
    IF T = {} THEN 0 ELSE g[Picked(T)] + h[T \ {Picked(T)}]]

\* The picked element is one of the set, and the others are fewer.
LEMMA PickedOut ==
    ASSUME NEW T, IsFiniteSet(T), T # {}
    PROVE  /\ Picked(T) \in T /\ IsFiniteSet(T \ {Picked(T)})
           /\ Cardinality(T) \in Nat /\ Cardinality(T \ {Picked(T)}) \in Nat
           /\ Cardinality(T \ {Picked(T)}) < Cardinality(T)
<1>1. Picked(T) \in T
  BY DEF Picked
<1>2. Cardinality(T) \in Nat
  BY FS_CardinalityType
<1>3. IsFiniteSet(T \ {Picked(T)}) /\ Cardinality(T \ {Picked(T)}) = Cardinality(T) - 1
  BY <1>1, FS_RemoveElement
<1>4. Cardinality(T \ {Picked(T)}) \in Nat
  BY <1>3, FS_CardinalityType
<1>5. QED BY <1>1, <1>2, <1>3, <1>4

\* The sums exist.
LEMMA SumsExist ==
    ASSUME NEW g, NEW S, IsFiniteSet(S)
    PROVE  \E h : Sums(h, g, S)
<1> DEFINE Next1(h, T) == IF T = {} THEN 0 ELSE g[Picked(T)] + h[T \ {Picked(T)}]
           To(h, k) == \A T \in SUBSET S : Cardinality(T) < k => h[T] = Next1(h, T)
           Bad == {k \in Nat : ~\E h : To(h, k)}
<1>1. \A T \in SUBSET S : IsFiniteSet(T) /\ Cardinality(T) \in Nat /\ Cardinality(T) <= Cardinality(S)
  BY FS_Subset, FS_CardinalityType
<1>2. ASSUME NEW k \in Bad, \A n \in Bad : k <= n PROVE FALSE
  <2>1. CASE k = 0
    <3>1. \A T \in SUBSET S : ~(Cardinality(T) < k)
      BY <2>1, <1>1
    <3>2. To([T \in SUBSET S |-> 0], k)
      BY <3>1
    <3>3. QED BY <3>2
  <2>2. CASE k # 0
    <3>1. k - 1 \in Nat /\ k - 1 \notin Bad
      <4> HIDE DEF To
      <4>1. k \in Nat /\ Bad \subseteq Nat
        OBVIOUS
      <4> HIDE DEF Bad
      <4>2. QED BY <4>1, <1>2, <2>2
    <3>2. PICK h : To(h, k - 1)
      BY <3>1
    <3> DEFINE f == [T \in SUBSET S |-> Next1(h, T)]
    <3>3. \A T \in SUBSET S : Cardinality(T) < k - 1 => f[T] = h[T]
      BY <3>2
    <3>4. ASSUME NEW T \in SUBSET S, Cardinality(T) < k PROVE f[T] = Next1(f, T)
      <4>1. CASE T = {}
        BY <4>1
      <4>2. CASE T # {}
        <5> HIDE DEF f
        <5>1. T \ {Picked(T)} \in SUBSET S /\ Cardinality(T \ {Picked(T)}) < k - 1
          BY <1>1, <4>2, <3>4, <3>1, PickedOut
        <5>2. f[T \ {Picked(T)}] = h[T \ {Picked(T)}]
          BY <5>1, <3>3
        <5>3. Next1(f, T) = Next1(h, T)
          BY <5>2
        <5>4. f[T] = Next1(h, T)
          BY DEF f
        <5>5. QED BY <5>3, <5>4
      <4>3. QED BY <4>1, <4>2
    <3> HIDE DEF f, Next1
    <3>5. To(f, k)
      BY <3>4
    <3>6. QED BY <3>5
  <2>3. QED BY <2>1, <2>2
<1>3. Bad = {}
  <2> HIDE DEF To
  <2>1. SUFFICES ASSUME Bad # {} PROVE FALSE
    OBVIOUS
  <2>2. PICK k \in Bad : \A n \in Bad : k <= n
    BY <2>1, LeastOf
  <2>3. QED BY <2>2, <1>2
<1>4. Cardinality(S) + 1 \in Nat /\ Cardinality(S) \in Nat
  BY FS_CardinalityType
<1>5. PICK h : To(h, Cardinality(S) + 1)
  BY <1>3, <1>4
<1>6. ASSUME NEW T \in SUBSET S PROVE h[T] = Next1(h, T)
  <2>1. Cardinality(T) < Cardinality(S) + 1
    BY <1>1, <1>4
  <2>2. QED BY <2>1, <1>5
<1> DEFINE f == [T \in SUBSET S |-> h[T]]
<1>7. ASSUME NEW T \in SUBSET S PROVE f[T] = Next1(f, T)
  <2>1. T # {} => T \ {Picked(T)} \in SUBSET S
    OBVIOUS
  <2>2. QED BY <2>1, <1>6
<1> HIDE DEF Next1
<1>8. f = [T \in SUBSET S |-> f[T]]
  OBVIOUS
<1> HIDE DEF f
<1>9. f = [T \in SUBSET S |-> Next1(f, T)]
  BY <1>7, <1>8
<1>10. QED BY <1>9 DEF Sums, Next1

\* The sums over the subsets of two sets agree where both say something.
LEMMA SumsAgree ==
    ASSUME NEW g, NEW S, NEW T, IsFiniteSet(S), NEW h, NEW f, Sums(h, g, S), Sums(f, g, T)
    PROVE  \A U \in SUBSET (S \cap T) : h[U] = f[U]
<1> DEFINE Differ == {U \in SUBSET (S \cap T) : h[U] # f[U]}
           Sizes == {Cardinality(U) : U \in Differ}
<1>1. \A U \in SUBSET (S \cap T) : IsFiniteSet(U) /\ Cardinality(U) \in Nat
  BY FS_Subset, FS_CardinalityType
<1>2. ASSUME Differ # {} PROVE FALSE
  <2>1. Sizes # {} /\ Sizes \subseteq Nat
    BY <1>1, <1>2
  <2>2. PICK m \in Sizes : \A n \in Sizes : m <= n
    BY <2>1, LeastOf
  <2>3. PICK U \in Differ : Cardinality(U) = m
    BY <2>2
  <2>4. /\ h[U] = IF U = {} THEN 0 ELSE g[Picked(U)] + h[U \ {Picked(U)}]
        /\ f[U] = IF U = {} THEN 0 ELSE g[Picked(U)] + f[U \ {Picked(U)}]
    BY DEF Sums
  <2>5. CASE U # {}
    <3>1. U \ {Picked(U)} \in SUBSET (S \cap T) /\ Cardinality(U \ {Picked(U)}) < m
      BY <1>1, <2>3, <2>5, PickedOut
    <3>2. Cardinality(U \ {Picked(U)}) \in Nat /\ m \in Nat
      BY <3>1, <1>1, <2>1
    <3>3. U \ {Picked(U)} \notin Differ
      BY <3>1, <3>2, <2>2
    <3>4. QED BY <3>1, <3>3, <2>4, <2>3
  <2>6. QED BY <2>3, <2>4, <2>5
<1>3. QED BY <1>2

\* A sum is one of these sums.
LEMMA SumIs ==
    ASSUME NEW g, NEW S, IsFiniteSet(S)
    PROVE  \E h : Sums(h, g, S) /\ SumOf(g, S) = h[S]
<1>1. SumOf(g, S) = (CHOOSE h : Sums(h, g, S))[S]
  BY DEF SumOf, MapThenSumSet, MapThenFoldSet, Sums, Picked
<1>2. Sums(CHOOSE h : Sums(h, g, S), g, S)
  BY SumsExist
<1>3. QED BY <1>1, <1>2

\* A sum is what one element adds to the sum of the others, for the element that is picked...
LEMMA SumPicked ==
    ASSUME NEW g, NEW S, IsFiniteSet(S)
    PROVE  /\ S = {} => SumOf(g, S) = 0
           /\ S # {} => SumOf(g, S) = g[Picked(S)] + SumOf(g, S \ {Picked(S)})
<1>1. PICK h : Sums(h, g, S) /\ SumOf(g, S) = h[S]
  BY SumIs
<1>2. h[S] = IF S = {} THEN 0 ELSE g[Picked(S)] + h[S \ {Picked(S)}]
  BY <1>1 DEF Sums
<1>3. ASSUME S # {} PROVE h[S \ {Picked(S)}] = SumOf(g, S \ {Picked(S)})
  <2> DEFINE T == S \ {Picked(S)}
  <2>1. IsFiniteSet(T)
    BY <1>3, PickedOut
  <2>2. T \in SUBSET (S \cap T)
    OBVIOUS
  <2> HIDE DEF T
  <2>3. PICK f : Sums(f, g, T) /\ SumOf(g, T) = f[T]
    BY <2>1, SumIs
  <2>4. h[T] = f[T]
    BY <1>1, <2>2, <2>3, SumsAgree
  <2>5. h[T] = SumOf(g, T)
    BY <2>3, <2>4
  <2>6. QED BY <2>5 DEF T
<1>4. QED BY <1>1, <1>2, <1>3

\* ... and for any element.
LEMMA SumRemove ==
    ASSUME NEW D, IsFiniteSet(D), NEW g \in [D -> Nat]
    PROVE  \A S \in SUBSET D :
              /\ SumOf(g, S) \in Nat
              /\ \A x \in S : SumOf(g, S) = g[x] + SumOf(g, S \ {x})
<1> DEFINE Good(S) == /\ SumOf(g, S) \in Nat
                      /\ \A x \in S : SumOf(g, S) = g[x] + SumOf(g, S \ {x})
           Bad == {S \in SUBSET D : ~Good(S)}
           Sizes == {Cardinality(S) : S \in Bad}
<1>1. \A S \in SUBSET D : IsFiniteSet(S) /\ Cardinality(S) \in Nat
  BY FS_Subset, FS_CardinalityType
<1>2. ASSUME NEW S \in SUBSET D, \A T \in SUBSET D : Cardinality(T) < Cardinality(S) => Good(T)
      PROVE  Good(S)
  <2> HIDE DEF Good
  <2>1. CASE S = {}
    <3>1. SumOf(g, S) = 0
      BY <2>1, <1>1, SumPicked
    <3>2. QED BY <2>1, <3>1 DEF Good
  <2>2. CASE S # {}
    <3> DEFINE c == Picked(S)
    <3>1. /\ c \in S /\ SumOf(g, S) = g[c] + SumOf(g, S \ {c})
      BY <2>2, <1>1, SumPicked, PickedOut
    <3> HIDE DEF c
    <3>2. ASSUME NEW x \in S PROVE Good(S \ {x})
      <4>1. Cardinality(S \ {x}) = Cardinality(S) - 1 /\ S \ {x} \in SUBSET D
        BY <1>1, FS_RemoveElement
      <4>2. Cardinality(S \ {x}) < Cardinality(S)
        BY <4>1, <1>1
      <4>3. QED BY <4>1, <4>2, <1>2
    <3>3. SumOf(g, S) \in Nat
      BY <3>1, <3>2 DEF Good
    <3>4. ASSUME NEW x \in S, x # c PROVE SumOf(g, S) = g[x] + SumOf(g, S \ {x})
      <4>1. SumOf(g, S \ {c}) = g[x] + SumOf(g, (S \ {c}) \ {x})
        BY <3>1, <3>2, <3>4 DEF Good
      <4>2. SumOf(g, S \ {x}) = g[c] + SumOf(g, (S \ {x}) \ {c})
        BY <3>1, <3>2, <3>4 DEF Good
      <4>3. (S \ {c}) \ {x} = (S \ {x}) \ {c}
        OBVIOUS
      <4>4. SumOf(g, (S \ {c}) \ {x}) = SumOf(g, (S \ {x}) \ {c})
        BY <4>3
      <4>5. SumOf(g, (S \ {x}) \ {c}) \in Nat
        <5>1. SumOf(g, S \ {x}) \in Nat /\ Good(S \ {x})
          BY <3>2 DEF Good
        <5>2. Cardinality((S \ {x}) \ {c}) < Cardinality(S)
          <6>1. Cardinality(S \ {x}) = Cardinality(S) - 1 /\ IsFiniteSet(S \ {x}) /\ c \in S \ {x}
            BY <1>1, <3>1, <3>4, FS_RemoveElement
          <6>2. Cardinality((S \ {x}) \ {c}) = Cardinality(S \ {x}) - 1
            BY <6>1, FS_RemoveElement
          <6>3. Cardinality(S) \in Nat
            BY <1>1
          <6>4. QED BY <6>1, <6>2, <6>3
        <5>3. (S \ {x}) \ {c} \in SUBSET D
          OBVIOUS
        <5>4. QED BY <5>2, <5>3, <1>2 DEF Good
      <4>6. g[x] \in Nat /\ g[c] \in Nat
        BY <3>1
      <4>7. QED BY <3>1, <4>1, <4>2, <4>4, <4>5, <4>6
    <3>5. QED BY <3>1, <3>3, <3>4 DEF Good
  <2>3. QED BY <2>1, <2>2
<1> HIDE DEF Good
<1>3. ASSUME Bad # {} PROVE FALSE
  <2>1. Sizes # {} /\ Sizes \subseteq Nat
    BY <1>1, <1>3
  <2>2. PICK m \in Sizes : \A n \in Sizes : m <= n
    BY <2>1, LeastOf
  <2>3. PICK S \in Bad : Cardinality(S) = m
    BY <2>2
  <2>4. ASSUME NEW T \in SUBSET D, Cardinality(T) < Cardinality(S) PROVE Good(T)
    <3>1. S \in SUBSET D /\ Cardinality(T) \in Nat /\ Cardinality(S) \in Nat
      BY <1>1
    <3>2. Cardinality(T) \notin Sizes
      <4> HIDE DEF Sizes
      <4>1. QED BY <3>1, <2>2, <2>3, <2>4
    <3>3. QED BY <3>2
  <2>5. QED BY <1>2, <2>3, <2>4
<1>4. \A S \in SUBSET D : Good(S)
  BY <1>3
<1>5. QED BY <1>4 DEF Good

\* Sums of smaller numbers are smaller.
LEMMA SumMonotone ==
    ASSUME NEW D, IsFiniteSet(D), NEW g \in [D -> Nat], NEW f \in [D -> Nat]
    PROVE  \A S \in SUBSET D : (\A x \in S : g[x] <= f[x]) => SumOf(g, S) <= SumOf(f, S)
<1> DEFINE Good(S) == (\A x \in S : g[x] <= f[x]) => SumOf(g, S) <= SumOf(f, S)
           Bad == {S \in SUBSET D : ~Good(S)}
           Sizes == {Cardinality(S) : S \in Bad}
<1>1. \A S \in SUBSET D : IsFiniteSet(S) /\ Cardinality(S) \in Nat
  BY FS_Subset, FS_CardinalityType
<1>2. ASSUME NEW S \in SUBSET D, \A T \in SUBSET D : Cardinality(T) < Cardinality(S) => Good(T)
      PROVE  Good(S)
  <2>1. CASE S = {}
    <3>1. SumOf(g, S) = 0 /\ SumOf(f, S) = 0
      BY <2>1, <1>1, SumPicked
    <3>2. QED BY <3>1
  <2>2. CASE S # {}
    <3> HIDE DEF Good
    <3>1. PICK x \in S : TRUE
      BY <2>2
    <3>2. Cardinality(S \ {x}) = Cardinality(S) - 1 /\ S \ {x} \in SUBSET D
      BY <1>1, FS_RemoveElement
    <3>3. Good(S \ {x})
      BY <3>2, <1>1, <1>2
    <3>4. /\ SumOf(g, S) = g[x] + SumOf(g, S \ {x}) /\ SumOf(f, S) = f[x] + SumOf(f, S \ {x})
          /\ SumOf(g, S \ {x}) \in Nat /\ SumOf(f, S \ {x}) \in Nat
      BY <3>2, SumRemove
    <3>5. g[x] \in Nat /\ f[x] \in Nat
      OBVIOUS
    <3>6. QED BY <3>3, <3>4, <3>5 DEF Good
  <2>3. QED BY <2>1, <2>2
<1> HIDE DEF Good
<1>3. ASSUME Bad # {} PROVE FALSE
  <2>1. Sizes # {} /\ Sizes \subseteq Nat
    BY <1>1, <1>3
  <2>2. PICK m \in Sizes : \A n \in Sizes : m <= n
    BY <2>1, LeastOf
  <2>3. PICK S \in Bad : Cardinality(S) = m
    BY <2>2
  <2>4. ASSUME NEW T \in SUBSET D, Cardinality(T) < Cardinality(S) PROVE Good(T)
    <3>1. S \in SUBSET D /\ Cardinality(T) \in Nat /\ Cardinality(S) \in Nat
      BY <1>1
    <3>2. Cardinality(T) \notin Sizes
      <4> HIDE DEF Sizes
      <4>1. QED BY <3>1, <2>2, <2>3, <2>4
    <3>3. QED BY <3>2
  <2>5. QED BY <1>2, <2>3, <2>4
<1>4. \A S \in SUBSET D : Good(S)
  BY <1>3
<1>5. QED BY <1>4 DEF Good

\* One number of a sum changes.
LEMMA SumChanged ==
    ASSUME NEW D, IsFiniteSet(D), NEW S \in SUBSET D, NEW g \in [D -> Nat], NEW f \in [D -> Nat],
           NEW x \in S, \A y \in S \ {x} : f[y] = g[y]
    PROVE  /\ SumOf(g, S) \in Nat /\ SumOf(f, S) \in Nat /\ g[x] <= SumOf(g, S)
           /\ SumOf(f, S) = SumOf(g, S) - g[x] + f[x]
<1>1. S \ {x} \in SUBSET D
  OBVIOUS
<1>2. /\ SumOf(g, S) = g[x] + SumOf(g, S \ {x}) /\ SumOf(f, S) = f[x] + SumOf(f, S \ {x})
      /\ SumOf(g, S \ {x}) \in Nat /\ SumOf(f, S \ {x}) \in Nat
      /\ SumOf(g, S) \in Nat /\ SumOf(f, S) \in Nat
  BY <1>1, SumRemove
<1>3. \A y \in S \ {x} : g[y] <= f[y] /\ f[y] <= g[y]
  OBVIOUS
<1>4. SumOf(g, S \ {x}) <= SumOf(f, S \ {x}) /\ SumOf(f, S \ {x}) <= SumOf(g, S \ {x})
  BY <1>1, <1>3, SumMonotone
<1>5. g[x] \in Nat /\ f[x] \in Nat
  OBVIOUS
<1>6. QED BY <1>2, <1>4, <1>5

\* Equal numbers have equal sums.
LEMMA SumSame ==
    ASSUME NEW D, IsFiniteSet(D), NEW S \in SUBSET D, NEW g \in [D -> Nat], NEW f \in [D -> Nat],
           \A y \in S : f[y] = g[y]
    PROVE  SumOf(f, S) = SumOf(g, S) /\ SumOf(g, S) \in Nat
<1>1. \A y \in S : g[y] <= f[y] /\ f[y] <= g[y]
  OBVIOUS
<1>2. SumOf(g, S) <= SumOf(f, S) /\ SumOf(f, S) <= SumOf(g, S)
  BY <1>1, SumMonotone
<1>3. SumOf(g, S) \in Nat /\ SumOf(f, S) \in Nat
  BY SumRemove
<1>4. QED BY <1>2, <1>3

----------------------------------------------------------------------------
(* The sender's books: the inductive invariant *)

Dispatching == {"send", "exchange", "answer", "receipt"}

ReservationType == [state : {"none", "uncertain", "settled", "investigation"}, reservation : Nat, actual : Nat]
SenderType == [pc : {"idle", "reserve"} \cup Dispatching, packet : Packets \cup {NoPacket}]

PilotTypeOK ==
    /\ spent \in Nat /\ liabilities \in Nat /\ blocked \in BOOLEAN
    /\ used \in [Scopes -> Nat]
    /\ requests \in [Packets -> ReservationType]
    /\ output \in [Packets -> {"fresh", "claimed", "answered", "receipted"}]
    /\ sender \in [Senders -> SenderType]
    /\ sends \in [Packets -> Nat] /\ billed \in [Packets -> Nat]

\* A sender has a packet while it is busy; one that dispatches has it for itself, its charge
\* is uncertain, and until the exchange the packet was not sent.
DispatchesHold ==
    /\ \A s \in Senders : sender[s].pc # "idle" => sender[s].packet \in Packets
    /\ \A s \in Senders : sender[s].pc \in Dispatching => requests[sender[s].packet].state = "uncertain"
    /\ \A s, t \in Senders :
          sender[s].pc \in Dispatching /\ sender[t].pc \in Dispatching /\ s # t =>
            sender[s].packet # sender[t].packet
    /\ \A s \in Senders : sender[s].pc \in {"send", "exchange"} => sends[sender[s].packet] = 0

\* What a request says of its packet.
RequestFits(p) ==
    /\ requests[p].state = "none" => requests[p].reservation = 0 /\ sends[p] = 0
    /\ requests[p].state = "uncertain" => requests[p].reservation = CostOf[p]
    /\ requests[p].state = "settled" => requests[p].actual = billed[p]
    /\ requests[p].state = "investigation" => requests[p].reservation = billed[p]
    /\ sends[p] <= 1
    /\ sends[p] = 0 => billed[p] = 0

OneUncertain == \A p, q \in Packets :
    p # q /\ IdentityOf[p] = IdentityOf[q] =>
      ~(requests[p].state = "uncertain" /\ requests[q].state = "uncertain")

\* What a packet keeps reserved, what it has obliged the owner to, and that it was admitted.
Due == [p \in Packets |-> IF requests[p].state \in {"uncertain", "investigation"}
                          THEN requests[p].reservation ELSE 0]
Owed == [p \in Packets |-> IF requests[p].state = "settled" THEN requests[p].actual ELSE Due[p]]
Taken == [p \in Packets |-> IF requests[p].state = "none" THEN 0 ELSE 1]

Consumers(k) == {p \in Packets : k \in ScopesOf[p]}

\* The rows are the sums of the requests.
BooksBalance ==
    /\ liabilities = PriorObligations + SumOf(Due, Packets)
    /\ spent + liabilities = PriorObligations + SumOf(Owed, Packets)
    /\ blocked \/ spent + liabilities <= Ceiling
    /\ \A k \in Scopes : used[k] = SumOf(Taken, Consumers(k)) /\ used[k] <= CapOf[k]

PilotInv ==
    /\ PilotTypeOK /\ DispatchesHold /\ OneUncertain
    /\ \A p \in Packets : RequestFits(p)
    /\ BooksBalance

\* The amounts are numbers.
LEMMA AmountTypes ==
    ASSUME PilotTypeOK
    PROVE  Due \in [Packets -> Nat] /\ Owed \in [Packets -> Nat] /\ Taken \in [Packets -> Nat]
<1>1. \A p \in Packets : requests[p].reservation \in Nat /\ requests[p].actual \in Nat
  BY DEF PilotTypeOK, ReservationType
<1>2. Due \in [Packets -> Nat]
  BY <1>1 DEF Due
<1>3. Owed \in [Packets -> Nat]
  BY <1>1, <1>2 DEF Owed
<1>4. QED BY <1>2, <1>3 DEF Taken

\* The invariant says what was sent is sent once and covered by the books.
LEMMA InvCovers ==
    ASSUME PilotInv
    PROVE  ObligationsHold
<1>1. IsFiniteSet(Packets) /\ PriorObligations \in Nat
  BY PilotAssumption
<1>2. sends \in [Packets -> Nat] /\ billed \in [Packets -> Nat] /\ CostOf \in [Packets -> Nat]
  BY PilotAssumption DEF PilotInv, PilotTypeOK
<1>3. ASSUME NEW k \in Scopes PROVE SumOf(sends, Consumers(k)) <= CapOf[k]
  <2>1. \A p \in Consumers(k) : sends[p] <= Taken[p]
    BY <1>2 DEF PilotInv, RequestFits, Consumers, Taken
  <2>2. Consumers(k) \in SUBSET Packets
    BY DEF Consumers
  <2>3. SumOf(sends, Consumers(k)) <= SumOf(Taken, Consumers(k))
    BY <1>1, <1>2, <2>1, <2>2, AmountTypes, SumMonotone DEF PilotInv
  <2>4. SumOf(sends, Consumers(k)) \in Nat /\ SumOf(Taken, Consumers(k)) \in Nat
    BY <1>1, <1>2, <2>2, AmountTypes, SumRemove DEF PilotInv
  <2>5. CapOf[k] \in Nat
    BY PilotAssumption DEF Scopes
  <2>6. QED BY <2>3, <2>4, <2>5 DEF PilotInv, BooksBalance
<1>4. SentOnce
  <2>1. \A p \in Packets : sends[p] <= 1
    BY DEF PilotInv, RequestFits
  <2>2. \A k \in Scopes :
          MapThenSumSet(LAMBDA p : sends[p], {p \in Packets : k \in ScopesOf[p]}) <= CapOf[k]
    BY <1>3 DEF SumOf, Consumers
  <2>3. QED BY <2>1, <2>2 DEF SentOnce, PilotInv, OneUncertain
<1>5. ChargesCovered
  <2> DEFINE within == [p \in Packets |-> IF billed[p] > CostOf[p] THEN CostOf[p] ELSE billed[p]]
  <2>1. within \in [Packets -> Nat]
    BY <1>2
  <2>2. \A p \in Packets : within[p] <= Owed[p]
    <3>1. TAKE p \in Packets
    <3>2. RequestFits(p) /\ billed[p] \in Nat /\ CostOf[p] \in Nat
      BY <1>2 DEF PilotInv
    <3>3. requests[p].state \in {"none", "uncertain", "settled", "investigation"}
      BY DEF PilotInv, PilotTypeOK, ReservationType
    <3>4. Owed[p] = IF requests[p].state = "settled" THEN requests[p].actual
                    ELSE IF requests[p].state \in {"uncertain", "investigation"}
                    THEN requests[p].reservation ELSE 0
      BY DEF Owed, Due
    <3>5. within[p] = IF billed[p] > CostOf[p] THEN CostOf[p] ELSE billed[p]
      OBVIOUS
    <3> HIDE DEF within
    <3>6. QED BY <3>2, <3>3, <3>4, <3>5 DEF RequestFits
  <2> HIDE DEF within
  <2>3. SumOf(within, Packets) <= SumOf(Owed, Packets)
    BY <1>1, <2>1, <2>2, AmountTypes, SumMonotone DEF PilotInv
  <2>4. SumOf(within, Packets) \in Nat /\ SumOf(Owed, Packets) \in Nat
    BY <1>1, <2>1, AmountTypes, SumRemove DEF PilotInv
  <2>5. PriorObligations + SumOf(within, Packets) <= spent + liabilities
    BY <1>1, <2>3, <2>4 DEF PilotInv, BooksBalance
  <2>6. PriorObligations + MapThenSumSet(LAMBDA p : within[p], Packets) <= spent + liabilities
    BY <2>5 DEF SumOf
  <2>7. QED BY <2>6 DEF ChargesCovered, within, PilotInv, BooksBalance
<1>6. QED BY <1>4, <1>5 DEF ObligationsHold

----------------------------------------------------------------------------
(* The sender's operations keep it *)

\* The sum of nothing but zeros is zero.
LEMMA SumZero ==
    ASSUME NEW D, IsFiniteSet(D), NEW g \in [D -> Nat], \A x \in D : g[x] = 0
    PROVE  \A S \in SUBSET D : SumOf(g, S) = 0
<1> DEFINE Bad == {S \in SUBSET D : SumOf(g, S) # 0}
           Sizes == {Cardinality(S) : S \in Bad}
<1>1. \A S \in SUBSET D : IsFiniteSet(S) /\ Cardinality(S) \in Nat
  BY FS_Subset, FS_CardinalityType
<1>2. ASSUME Bad # {} PROVE FALSE
  <2>1. Sizes # {} /\ Sizes \subseteq Nat
    BY <1>1, <1>2
  <2>2. PICK m \in Sizes : \A n \in Sizes : m <= n
    BY <2>1, LeastOf
  <2>3. PICK S \in Bad : Cardinality(S) = m
    BY <2>2
  <2>4. S # {}
    BY <1>1, <2>3, SumPicked
  <2>5. PICK x \in S : TRUE
    BY <2>4
  <2>6. /\ Cardinality(S \ {x}) = Cardinality(S) - 1 /\ Cardinality(S) \in Nat
        /\ S \ {x} \in SUBSET D /\ Cardinality(S \ {x}) \in Nat
    BY <1>1, FS_RemoveElement
  <2>7. S \ {x} \notin Bad
    <3>1. Cardinality(S \ {x}) \notin Sizes
      <4> HIDE DEF Sizes
      <4>1. QED BY <2>2, <2>3, <2>6
    <3>2. QED BY <3>1
  <2>8. SumOf(g, S) = g[x] + SumOf(g, S \ {x})
    BY SumRemove
  <2>9. SumOf(g, S \ {x}) = 0
    BY <2>6, <2>7
  <2>10. QED BY <2>8, <2>9
<1>3. QED BY <1>2

\* New books balance.
LEMMA PilotInitHolds ==
    ASSUME PilotInit
    PROVE  PilotInv
<1>1. PriorObligations \in Nat /\ Ceiling \in Nat /\ PriorObligations <= Ceiling /\ IsFiniteSet(Packets)
  BY PilotAssumption
<1>2. PilotTypeOK
  BY <1>1 DEF PilotInit, PilotTypeOK, ReservationType, SenderType, Unreserved, AtRest, Scopes
<1>3. \A p \in Packets : Due[p] = 0 /\ Owed[p] = 0 /\ Taken[p] = 0
  BY DEF PilotInit, Unreserved, Due, Owed, Taken
<1>4. /\ SumOf(Due, Packets) = 0 /\ SumOf(Owed, Packets) = 0
      /\ \A k \in Scopes : SumOf(Taken, Consumers(k)) = 0
  <2>1. \A k \in Scopes : Consumers(k) \in SUBSET Packets
    BY DEF Consumers
  <2>2. QED BY <1>1, <1>2, <1>3, <2>1, AmountTypes, SumZero
<1>5. \A k \in Scopes : CapOf[k] \in Nat
  BY PilotAssumption DEF Scopes
<1>6. BooksBalance
  BY <1>1, <1>4, <1>5 DEF PilotInit, BooksBalance
<1>7. DispatchesHold /\ OneUncertain /\ \A p \in Packets : RequestFits(p)
  BY DEF PilotInit, DispatchesHold, OneUncertain, RequestFits, Dispatching, AtRest, Unreserved
<1>8. QED BY <1>2, <1>6, <1>7 DEF PilotInv

\* The books balance while no request changes.
LEMMA BooksStay ==
    ASSUME BooksBalance, UNCHANGED <<pilotRow, used, requests>>
    PROVE  BooksBalance'
<1>1. Due' = Due /\ Owed' = Owed /\ Taken' = Taken
  BY DEF Due, Owed, Taken
<1>2. QED BY <1>1 DEF BooksBalance, pilotRow

\* A packet is taken, or not admitted.
LEMMA LoadHolds ==
    ASSUME PilotInv, NEW s \in Senders, Load(s) \/ NotAdmitted(s)
    PROVE  PilotInv'
<1>1. /\ UNCHANGED <<pilotRow, used, requests, output, sends, billed>>
      /\ \E step \in SenderType : sender' = [sender EXCEPT ![s] = step]
                                  /\ step.pc \in {"idle", "reserve"}
                                  /\ (step.pc = "reserve" => step.packet \in Packets)
  <2>1. CASE Load(s)
    <3>1. PICK p \in Packets : sender' = [sender EXCEPT ![s] = [pc |-> "reserve", packet |-> p]]
      BY <2>1 DEF Load
    <3>2. [pc |-> "reserve", packet |-> p] \in SenderType
      BY DEF SenderType
    <3>3. QED BY <2>1, <3>1, <3>2 DEF Load
  <2>2. CASE NotAdmitted(s)
    <3>1. AtRest \in SenderType /\ AtRest.pc = "idle"
      BY DEF SenderType, AtRest
    <3>2. QED BY <2>2, <3>1 DEF NotAdmitted
  <2>3. QED BY <2>1, <2>2
<1>2. PICK step \in SenderType : /\ sender' = [sender EXCEPT ![s] = step] /\ step.pc \in {"idle", "reserve"}
                                 /\ (step.pc = "reserve" => step.packet \in Packets)
  BY <1>1
<1>3. PilotTypeOK'
  BY <1>1, <1>2 DEF PilotInv, PilotTypeOK, pilotRow
<1>4. \A t \in Senders : sender'[t] = IF t = s THEN step ELSE sender[t]
  BY <1>2 DEF PilotInv, PilotTypeOK
<1>5. DispatchesHold'
  BY <1>1, <1>2, <1>4 DEF PilotInv, DispatchesHold, Dispatching
<1>6. OneUncertain' /\ (\A p \in Packets : RequestFits(p))' /\ BooksBalance'
  BY <1>1, BooksStay DEF PilotInv, OneUncertain, RequestFits
<1>7. QED BY <1>3, <1>5, <1>6 DEF PilotInv

\* A dispatch moves on or ends, without the exchange.
LEMMA DispatchHolds ==
    ASSUME PilotInv, NEW s \in Senders, Claim(s) \/ Answer(s) \/ Receipt(s) \/ Fail(s)
    PROVE  PilotInv'
<1>1. /\ UNCHANGED <<pilotRow, used, requests, sends, billed>>
      /\ output' \in [Packets -> {"fresh", "claimed", "answered", "receipted"}]
  BY DEF Claim, Answer, Receipt, Fail, FailsCharged, PilotInv, PilotTypeOK
<1>2. \/ sender[s].pc = "send" /\ sender' = [sender EXCEPT ![s].pc = "exchange"]
      \/ sender[s].pc = "answer" /\ sender' = [sender EXCEPT ![s].pc = "receipt"]
      \/ sender' = [sender EXCEPT ![s] = AtRest]
  BY DEF Claim, Answer, Receipt, Fail
<1>3. PilotTypeOK'
  BY <1>1, <1>2 DEF PilotInv, PilotTypeOK, pilotRow, SenderType, AtRest, Dispatching
<1>4. /\ \A t \in Senders \ {s} : sender'[t] = sender[t]
      /\ \/ sender'[s].pc = "idle"
         \/ /\ sender'[s].packet = sender[s].packet
            /\ \/ sender[s].pc = "send" /\ sender'[s].pc = "exchange"
               \/ sender[s].pc = "answer" /\ sender'[s].pc = "receipt"
  BY <1>2 DEF PilotInv, PilotTypeOK, SenderType, AtRest
<1>5. DispatchesHold'
  BY <1>1, <1>4 DEF PilotInv, DispatchesHold, Dispatching
<1>6. OneUncertain' /\ (\A p \in Packets : RequestFits(p))' /\ BooksBalance'
  BY <1>1, BooksStay DEF PilotInv, OneUncertain, RequestFits
<1>7. QED BY <1>3, <1>5, <1>6 DEF PilotInv

\* The provider charges what it receives.
LEMMA ExchangeHolds ==
    ASSUME PilotInv, NEW s \in Senders, Exchange(s)
    PROVE  PilotInv'
<1> DEFINE p == sender[s].packet
<1>1. PICK charge \in 0..LargestCharge :
        /\ sender[s].pc = "exchange"
        /\ sends' = [sends EXCEPT ![p] = @ + 1] /\ billed' = [billed EXCEPT ![p] = @ + charge]
        /\ sender' = [sender EXCEPT ![s].pc = "answer"]
        /\ UNCHANGED <<pilotRow, used, requests, output>>
  BY DEF Exchange
<1>2. p \in Packets /\ sends[p] = 0 /\ requests[p].state = "uncertain" /\ billed[p] = 0
  BY <1>1 DEF PilotInv, DispatchesHold, Dispatching, RequestFits
<1> HIDE DEF p
<1>3. charge \in Nat
  BY PilotAssumption
<1>4. /\ \A q \in Packets : sends'[q] = (IF q = p THEN 1 ELSE sends[q])
      /\ \A q \in Packets : billed'[q] = (IF q = p THEN charge ELSE billed[q])
      /\ sends' \in [Packets -> Nat] /\ billed' \in [Packets -> Nat]
  BY <1>1, <1>2, <1>3 DEF PilotInv, PilotTypeOK
<1>5. PilotTypeOK'
  BY <1>1, <1>4 DEF PilotInv, PilotTypeOK, pilotRow, SenderType, Dispatching
<1>6. /\ \A t \in Senders \ {s} : sender'[t] = sender[t]
      /\ sender'[s].pc = "answer" /\ sender'[s].packet = p
  BY <1>1 DEF PilotInv, PilotTypeOK, SenderType, p
<1>7. \A t \in Senders \ {s} : sender[t].pc \in Dispatching => sender[t].packet # p
  BY <1>1 DEF PilotInv, DispatchesHold, Dispatching, p
<1>8. DispatchesHold'
  BY <1>1, <1>2, <1>4, <1>6, <1>7 DEF PilotInv, DispatchesHold, Dispatching
<1>9. (\A q \in Packets : RequestFits(q))'
  BY <1>1, <1>2, <1>4 DEF PilotInv, RequestFits
<1>10. OneUncertain' /\ BooksBalance'
  BY <1>1, BooksStay DEF PilotInv, OneUncertain
<1>11. QED BY <1>5, <1>8, <1>9, <1>10 DEF PilotInv

\* What a change of one request does to the sums.
LEMMA AmountsChange ==
    ASSUME PilotTypeOK, PilotTypeOK', NEW p \in Packets,
           \A q \in Packets \ {p} : requests'[q] = requests[q]
    PROVE  /\ SumOf(Due, Packets) \in Nat /\ Due[p] <= SumOf(Due, Packets)
           /\ SumOf(Due', Packets) = SumOf(Due, Packets) - Due[p] + Due'[p]
           /\ SumOf(Owed, Packets) \in Nat /\ Owed[p] <= SumOf(Owed, Packets)
           /\ SumOf(Owed', Packets) = SumOf(Owed, Packets) - Owed[p] + Owed'[p]
<1>1. IsFiniteSet(Packets)
  BY PilotAssumption
<1>2. /\ Due \in [Packets -> Nat] /\ Owed \in [Packets -> Nat]
      /\ Due' \in [Packets -> Nat] /\ Owed' \in [Packets -> Nat]
  <2>1. \A q \in Packets : requests'[q].reservation \in Nat /\ requests'[q].actual \in Nat
    BY DEF PilotTypeOK, ReservationType
  <2>2. Due' \in [Packets -> Nat]
    BY <2>1 DEF Due
  <2>3. Owed' \in [Packets -> Nat]
    BY <2>1, <2>2 DEF Owed
  <2>4. QED BY <2>2, <2>3, AmountTypes
<1>3. \A q \in Packets \ {p} : Due'[q] = Due[q] /\ Owed'[q] = Owed[q]
  BY DEF Due, Owed
<1>4. PICK d, e, n, o : d = Due /\ e = Owed /\ n = Due' /\ o = Owed'
  OBVIOUS
<1>5. /\ d \in [Packets -> Nat] /\ e \in [Packets -> Nat]
      /\ n \in [Packets -> Nat] /\ o \in [Packets -> Nat]
      /\ (\A q \in Packets \ {p} : n[q] = d[q]) /\ (\A q \in Packets \ {p} : o[q] = e[q])
      /\ Packets \in SUBSET Packets
  BY <1>2, <1>3, <1>4
<1>6. /\ SumOf(d, Packets) \in Nat /\ d[p] <= SumOf(d, Packets)
      /\ SumOf(n, Packets) = SumOf(d, Packets) - d[p] + n[p]
  BY <1>1, <1>5, SumChanged
<1>7. /\ SumOf(e, Packets) \in Nat /\ e[p] <= SumOf(e, Packets)
      /\ SumOf(o, Packets) = SumOf(e, Packets) - e[p] + o[p]
  BY <1>1, <1>5, SumChanged
<1>8. QED BY <1>4, <1>6, <1>7

\* A request that stays admitted leaves the attempts as they are.
LEMMA AttemptsStay ==
    ASSUME NEW p \in Packets, \A q \in Packets \ {p} : requests'[q] = requests[q],
           requests[p].state # "none", requests'[p].state # "none"
    PROVE  Taken' = Taken
BY DEF Taken

\* A reservation adds its worst charge and its attempts.
LEMMA ReserveHolds ==
    ASSUME PilotInv, NEW s \in Senders, Reserve(s)
    PROVE  PilotInv'
<1> DEFINE p == sender[s].packet
<1>1. /\ sender[s].pc = "reserve" /\ ~Known(p) /\ ~blocked /\ Affordable(p) /\ WithinCaps(p)
      /\ used' = [k \in Scopes |-> used[k] + (IF k \in ScopesOf[p] THEN 1 ELSE 0)]
      /\ liabilities' = liabilities + CostOf[p]
      /\ requests' = [requests EXCEPT ![p] = [state |-> "uncertain", reservation |-> CostOf[p], actual |-> 0]]
      /\ sender' = [sender EXCEPT ![s].pc = "send"]
      /\ UNCHANGED <<spent, blocked, output, sends, billed>>
  BY DEF Reserve
<1>2. p \in Packets
  BY <1>1 DEF PilotInv, DispatchesHold
<1>3. requests[p].state = "none" /\ requests[p].reservation = 0 /\ sends[p] = 0 /\ billed[p] = 0
  BY <1>1, <1>2 DEF PilotInv, RequestFits, Known
<1>4. \A t \in Senders : sender[t].pc \in Dispatching => sender[t].packet # p
  BY <1>3 DEF PilotInv, DispatchesHold
<1> HIDE DEF p
<1>5. CostOf[p] \in Nat /\ IsFiniteSet(Packets) /\ PriorObligations \in Nat /\ Ceiling \in Nat
  BY <1>2, PilotAssumption
<1>6. requests'[p] = [state |-> "uncertain", reservation |-> CostOf[p], actual |-> 0]
      /\ \A q \in Packets \ {p} : requests'[q] = requests[q]
  BY <1>1, <1>2 DEF PilotInv, PilotTypeOK
<1>7. PilotTypeOK'
  <2>1. [state |-> "uncertain", reservation |-> CostOf[p], actual |-> 0] \in ReservationType
    BY <1>5 DEF ReservationType
  <2>2. requests' \in [Packets -> ReservationType]
    BY <1>1, <2>1 DEF PilotInv, PilotTypeOK
  <2>3. used' \in [Scopes -> Nat]
    BY <1>1 DEF PilotInv, PilotTypeOK
  <2>4. sender' \in [Senders -> SenderType]
    BY <1>1 DEF PilotInv, PilotTypeOK, SenderType, Dispatching
  <2>5. liabilities' \in Nat
    BY <1>1, <1>5 DEF PilotInv, PilotTypeOK
  <2>6. QED BY <1>1, <2>2, <2>3, <2>4, <2>5 DEF PilotInv, PilotTypeOK
<1>8. /\ \A t \in Senders \ {s} : sender'[t] = sender[t]
      /\ sender'[s].pc = "send" /\ sender'[s].packet = p
  BY <1>1 DEF PilotInv, PilotTypeOK, SenderType, p
<1>9. DispatchesHold'
  BY <1>1, <1>2, <1>3, <1>4, <1>6, <1>8 DEF PilotInv, DispatchesHold, Dispatching
<1>10. (\A q \in Packets : RequestFits(q))'
  BY <1>1, <1>3, <1>6 DEF PilotInv, RequestFits
<1>11. OneUncertain'
  BY <1>1, <1>6 DEF PilotInv, OneUncertain, Known
<1>12. BooksBalance'
  <2>1. /\ Due[p] = 0 /\ Owed[p] = 0 /\ Due'[p] = CostOf[p] /\ Owed'[p] = CostOf[p]
    BY <1>2, <1>3, <1>6 DEF Due, Owed
  <2>2. /\ SumOf(Due', Packets) = SumOf(Due, Packets) + CostOf[p]
        /\ SumOf(Owed', Packets) = SumOf(Owed, Packets) + CostOf[p]
        /\ SumOf(Due, Packets) \in Nat /\ SumOf(Owed, Packets) \in Nat
    BY <1>2, <1>5, <1>6, <1>7, <2>1, AmountsChange DEF PilotInv
  <2>3. liabilities' = PriorObligations + SumOf(Due', Packets)
    BY <1>1, <1>5, <2>2 DEF PilotInv, BooksBalance
  <2>4. spent' + liabilities' = PriorObligations + SumOf(Owed', Packets)
    BY <1>1, <1>5, <2>2 DEF PilotInv, BooksBalance, PilotTypeOK
  <2>5. spent' + liabilities' <= Ceiling
    BY <1>1, <1>5 DEF Affordable, PilotInv, PilotTypeOK
  <2>6. ASSUME NEW k \in Scopes
        PROVE  used'[k] = SumOf(Taken', Consumers(k)) /\ used'[k] <= CapOf[k]
    <3>1. Consumers(k) \in SUBSET Packets
      BY DEF Consumers
    <3>2. PICK a, b : a = Taken /\ b = Taken'
      OBVIOUS
    <3>3. a \in [Packets -> Nat] /\ b \in [Packets -> Nat]
      BY <3>2 DEF Taken
    <3>4. a[p] = 0 /\ b[p] = 1 /\ \A q \in Packets \ {p} : b[q] = a[q]
      BY <3>2, <1>2, <1>3, <1>6 DEF Taken
    <3>5. used[k] = SumOf(a, Consumers(k)) /\ used[k] <= CapOf[k] /\ used[k] \in Nat
      BY <3>2 DEF PilotInv, BooksBalance, PilotTypeOK
    <3>6. CapOf[k] \in Nat
      BY PilotAssumption DEF Scopes
    <3>7. CASE k \in ScopesOf[p]
      <4>1. p \in Consumers(k)
        BY <3>7, <1>2 DEF Consumers
      <4>2. SumOf(b, Consumers(k)) = SumOf(a, Consumers(k)) - a[p] + b[p]
        <5>1. PICK C : C = Consumers(k)
          OBVIOUS
        <5>2. C \in SUBSET Packets /\ p \in C /\ \A q \in C \ {p} : b[q] = a[q]
          BY <5>1, <4>1, <3>1, <3>4
        <5>3. SumOf(b, C) = SumOf(a, C) - a[p] + b[p]
          <6>1. IsFiniteSet(Packets) /\ a \in [Packets -> Nat] /\ b \in [Packets -> Nat]
            BY <1>5, <3>3
          <6>2. QED BY <6>1, <5>2, SumChanged, SMTT(60)
        <5>4. QED BY <5>1, <5>3
      <4>3. used'[k] = used[k] + 1 /\ used[k] < CapOf[k]
        BY <3>7, <1>1 DEF WithinCaps
      <4>4. QED BY <3>2, <3>4, <3>5, <3>6, <4>2, <4>3
    <3>8. CASE k \notin ScopesOf[p]
      <4>1. p \notin Consumers(k)
        BY <3>8 DEF Consumers
      <4>2. SumOf(b, Consumers(k)) = SumOf(a, Consumers(k))
        BY <4>1, <3>1, <3>3, <3>4, <1>5, SumSame
      <4>3. used'[k] = used[k]
        BY <3>8, <3>5, <1>1
      <4>4. QED BY <3>2, <3>5, <4>2, <4>3
    <3>9. QED BY <3>7, <3>8
  <2>7. QED BY <2>3, <2>4, <2>5, <2>6 DEF BooksBalance, Consumers
<1>13. QED BY <1>7, <1>9, <1>10, <1>11, <1>12 DEF PilotInv

\* A verified charge of a dispatch that is over settles its request, or opens an investigation.
LEMMA SettleHolds ==
    ASSUME PilotInv, NEW p \in Packets, Settle(p) \/ Overrun(p)
    PROVE  PilotInv'
<1>1. /\ requests[p].state = "uncertain" /\ \A t \in Senders : sender[t].packet # p
      /\ UNCHANGED <<used, output, sender, sends, billed>>
  BY DEF Settle, Overrun, Over, OpenAttempt
<1>2. /\ requests[p].reservation = CostOf[p] /\ CostOf[p] \in Nat /\ billed[p] \in Nat
      /\ requests[p] \in ReservationType /\ PriorObligations \in Nat /\ Ceiling \in Nat
      /\ spent \in Nat /\ liabilities \in Nat
  BY <1>1, PilotAssumption DEF PilotInv, RequestFits, PilotTypeOK
<1>3. PICK r \in ReservationType :
        /\ requests' = [requests EXCEPT ![p] = r]
        /\ r.state \in {"settled", "investigation"} /\ r.actual = billed[p]
        /\ r.state = "investigation" => r.reservation = billed[p]
        /\ \/ /\ r.state = "settled" /\ billed[p] <= CostOf[p] /\ blocked' = blocked
              /\ spent' = spent + billed[p] /\ liabilities' = liabilities - CostOf[p]
           \/ /\ r.state = "investigation" /\ billed[p] > CostOf[p] /\ blocked' = TRUE
              /\ spent' = spent /\ liabilities' = liabilities + (billed[p] - CostOf[p])
  <2>1. CASE Settle(p)
    <3>1. PICK r : r = [requests[p] EXCEPT !.state = "settled", !.actual = billed[p]]
      OBVIOUS
    <3>2. r \in ReservationType /\ r.state = "settled" /\ r.actual = billed[p]
      BY <3>1, <1>2 DEF ReservationType
    <3>3. requests' = [requests EXCEPT ![p] = r]
      BY <2>1, <3>1 DEF Settle, PilotInv, PilotTypeOK, ReservationType
    <3>4. QED BY <2>1, <1>2, <3>2, <3>3 DEF Settle
  <2>2. CASE Overrun(p)
    <3>1. PICK r : r = [state |-> "investigation", reservation |-> billed[p], actual |-> billed[p]]
      OBVIOUS
    <3>2. r \in ReservationType /\ r.state = "investigation" /\ r.actual = billed[p] /\ r.reservation = billed[p]
      BY <3>1, <1>2 DEF ReservationType
    <3>3. QED BY <2>2, <1>2, <3>1, <3>2 DEF Overrun
  <2>3. QED BY <2>1, <2>2
<1>4. requests'[p] = r /\ \A q \in Packets \ {p} : requests'[q] = requests[q]
  BY <1>3 DEF PilotInv, PilotTypeOK
<1>5. Due[p] = CostOf[p] /\ Owed[p] = CostOf[p]
  BY <1>1, <1>2 DEF Due, Owed
<1>6. CostOf[p] <= liabilities
  <2>1. CostOf[p] <= SumOf(Due, Packets) /\ SumOf(Due, Packets) \in Nat
    <3>1. Due \in [Packets -> Nat] /\ IsFiniteSet(Packets) /\ Packets \in SUBSET Packets
      BY AmountTypes, PilotAssumption DEF PilotInv
    <3>2. PICK d : d = Due
      OBVIOUS
    <3>3. d[p] <= SumOf(d, Packets) /\ SumOf(d, Packets) \in Nat
      BY <3>1, <3>2, SumChanged
    <3>4. QED BY <3>2, <3>3, <1>5
  <2>2. liabilities = PriorObligations + SumOf(Due, Packets)
    BY DEF PilotInv, BooksBalance
  <2>3. QED BY <2>1, <2>2, <1>2
<1>7. PilotTypeOK'
  <2>1. requests' \in [Packets -> ReservationType]
    BY <1>3 DEF PilotInv, PilotTypeOK
  <2>2. spent' \in Nat /\ liabilities' \in Nat /\ blocked' \in BOOLEAN
    <3>1. spent' \in Nat /\ liabilities' \in Nat
      BY <1>2, <1>3, <1>6
    <3>2. (blocked' = blocked) \/ (blocked' = TRUE)
      BY <1>3
    <3>3. QED BY <3>1, <3>2 DEF PilotInv, PilotTypeOK
  <2>3. QED BY <1>1, <2>1, <2>2 DEF PilotInv, PilotTypeOK
<1>8. DispatchesHold'
  BY <1>1, <1>4 DEF PilotInv, DispatchesHold, Dispatching
<1>9. (\A q \in Packets : RequestFits(q))' /\ OneUncertain'
  BY <1>1, <1>3, <1>4 DEF PilotInv, RequestFits, OneUncertain
<1>10. BooksBalance'
  <2>1. /\ SumOf(Due', Packets) = SumOf(Due, Packets) - CostOf[p] + Due'[p]
        /\ SumOf(Owed', Packets) = SumOf(Owed, Packets) - CostOf[p] + Owed'[p]
        /\ SumOf(Due, Packets) \in Nat /\ SumOf(Owed, Packets) \in Nat
        /\ CostOf[p] <= SumOf(Due, Packets) /\ CostOf[p] <= SumOf(Owed, Packets)
    BY <1>4, <1>5, <1>7, AmountsChange DEF PilotInv
  <2>2. Owed'[p] = billed[p] /\ Due'[p] = IF r.state = "settled" THEN 0 ELSE billed[p]
    BY <1>3, <1>4 DEF Due, Owed
  <2>3. /\ liabilities = PriorObligations + SumOf(Due, Packets)
        /\ spent + liabilities = PriorObligations + SumOf(Owed, Packets)
        /\ blocked \/ spent + liabilities <= Ceiling
    BY DEF PilotInv, BooksBalance
  <2>4. liabilities' = PriorObligations + SumOf(Due', Packets)
    BY <1>2, <1>3, <2>1, <2>2, <2>3
  <2>5. spent' + liabilities' = PriorObligations + SumOf(Owed', Packets)
    BY <1>2, <1>3, <1>6, <2>1, <2>2, <2>3
  <2>6. blocked' \/ spent' + liabilities' <= Ceiling
    BY <1>2, <1>3, <1>6, <2>3
  <2>7. Taken' = Taken
    BY <1>1, <1>3, <1>4, AttemptsStay
  <2>8. \A k \in Scopes : used'[k] = SumOf(Taken', Consumers(k)) /\ used'[k] <= CapOf[k]
    BY <1>1, <2>7 DEF PilotInv, BooksBalance
  <2>9. QED BY <2>4, <2>5, <2>6, <2>8 DEF BooksBalance, Consumers
<1>11. QED BY <1>7, <1>8, <1>9, <1>10 DEF PilotInv

\* Books that are left alone still balance.
LEMMA PilotStutterHolds ==
    ASSUME PilotInv, UNCHANGED pilotVars
    PROVE  PilotInv'
<1>1. BooksBalance'
  BY BooksStay DEF PilotInv, pilotVars, pilotRow
<1>2. QED BY <1>1 DEF PilotInv, pilotVars, PilotTypeOK, DispatchesHold, OneUncertain, RequestFits

\* The pilot's books hold: each charge stays reserved until it is known, one sender at a time
\* dispatches a packet, and the rows are the sums of the requests (ledger.py).
THEOREM PilotInvariant == PilotSpec => []PilotInv
<1>1. PilotInit => PilotInv
  BY PilotInitHolds
<1>2. PilotInv /\ [PilotNext]_pilotVars => PilotInv'
  BY LoadHolds, ReserveHolds, DispatchHolds, ExchangeHolds, SettleHolds, PilotStutterHolds DEF PilotNext
<1>3. QED BY <1>1, <1>2, PTL DEF PilotSpec

\* No packet is sent twice, no page or region read beyond its cap, nothing asked again while a
\* charge for it is uncertain, and the books cover what was charged (ledger.py:92-144).
THEOREM ObligationsCovered == PilotSpec => []ObligationsHold
BY PilotInvariant, InvCovers, PTL

----------------------------------------------------------------------------
(* The closure of a set of dispatches under pairs *)

Grow(T, pairs) == T \cup {p[2] : p \in {q \in pairs : q[1] \in T}}

\* The rounds in which the closure grows.
Round(g, S, pairs, n) ==
    IF n = 0 THEN S ELSE UNION {T \cup {p[2] : p \in {q \in pairs : q[1] \in T}} : T \in {g[n - 1]}}
Growth(g, S, pairs, N) == g = [n \in 0..N |-> Round(g, S, pairs, n)]

\* The rounds exist.
LEMMA RoundsExist ==
    ASSUME NEW S, NEW pairs, NEW N \in Nat
    PROVE  \E g : Growth(g, S, pairs, N)
<1> DEFINE Bad == {n \in Nat : ~\E g : Growth(g, S, pairs, n)}
<1> SUFFICES ASSUME Bad # {} PROVE FALSE
  OBVIOUS
<1>1. PICK m \in Bad : \A n \in Bad : m <= n
  BY LeastOf
<1>2. CASE m = 0
  <2>1. Growth([n \in 0..0 |-> S], S, pairs, 0)
    BY DEF Growth, Round
  <2>2. QED BY <1>1, <1>2, <2>1
<1>3. CASE m # 0
  <2>1. m - 1 \in Nat /\ m - 1 \notin Bad
    BY <1>1, <1>3
  <2>2. PICK g : Growth(g, S, pairs, m - 1)
    BY <2>1
  <2> DEFINE h == [n \in 0..m |-> IF n < m THEN g[n] ELSE Grow(g[m - 1], pairs)]
  <2>3. ASSUME NEW n \in 0..m PROVE h[n] = Round(h, S, pairs, n)
    <3>1. CASE n = m
      <4>1. h[m - 1] = g[m - 1] /\ h[m] = Grow(g[m - 1], pairs)
        BY <1>1, <1>3
      <4> HIDE DEF h
      <4>2. Round(h, S, pairs, m) = Grow(h[m - 1], pairs)
        BY <1>1, <1>3 DEF Grow, Round
      <4>3. QED BY <3>1, <4>1, <4>2
    <3>2. CASE n # m
      <4>1. n \in 0..(m - 1) /\ h[n] = g[n] /\ (n # 0 => h[n - 1] = g[n - 1])
        BY <3>2, <1>1
      <4>2. g[n] = Round(g, S, pairs, n)
        BY <4>1, <2>2 DEF Growth
      <4> HIDE DEF h
      <4>3. QED BY <4>1, <4>2 DEF Round
    <3>3. QED BY <3>1, <3>2
  <2>4. h = [n \in 0..m |-> h[n]]
    OBVIOUS
  <2> HIDE DEF h
  <2>5. Growth(h, S, pairs, m)
    BY <2>3, <2>4 DEF Growth
  <2>6. QED BY <1>1, <2>5
<1>4. QED BY <1>2, <1>3

\* The closure is the last round.
LEMMA ClosureRounds ==
    ASSUME NEW S, NEW pairs, Cardinality(Charged) \in Nat
    PROVE  \E g : Growth(g, S, pairs, Cardinality(Charged))
                  /\ Closure(S, pairs) = g[Cardinality(Charged)]
<1> DEFINE N == Cardinality(Charged)
           grown == CHOOSE g : Growth(g, S, pairs, N)
<1>1. Growth(grown, S, pairs, N)
  BY RoundsExist
<1>2. Closure(S, pairs) = grown[N]
  BY DEF Closure, Growth, Round
<1>3. QED BY <1>1, <1>2

\* Each round holds the one before, and no round leaves a set that the pairs do not lead out of.
LEMMA GrowthSteps ==
    ASSUME NEW g, NEW S, NEW pairs, NEW N \in Nat, Growth(g, S, pairs, N)
    PROVE  /\ g[0] = S
           /\ \A n \in 0..N : n # 0 => g[n] = Grow(g[n - 1], pairs)
           /\ \A n \in 0..N : S \subseteq g[n]
           /\ \A U : S \subseteq U /\ (\A p \in pairs : p[2] \in U) => \A n \in 0..N : g[n] \subseteq U
<1>1. \A n \in 0..N : g[n] = Round(g, S, pairs, n)
  BY DEF Growth
<1>2. g[0] = S
  <2>1. Round(g, S, pairs, 0) = S
    BY DEF Round
  <2>2. QED BY <1>1, <2>1
<1>3. ASSUME NEW n \in 0..N, n # 0 PROVE g[n] = Grow(g[n - 1], pairs)
  <2>1. Round(g, S, pairs, n) = Grow(g[n - 1], pairs)
    BY <1>3 DEF Round, Grow
  <2>2. QED BY <1>1, <2>1
<1>4. \A n \in 0..N : S \subseteq g[n]
  <2> DEFINE Bad == {n \in Nat : n \in 0..N /\  ~(S \subseteq g[n])}
  <2> SUFFICES ASSUME Bad # {} PROVE FALSE
    OBVIOUS
  <2>1. PICK m \in Bad : \A n \in Bad : m <= n
    BY LeastOf
  <2>2. m # 0 /\ m - 1 \in 0..N /\ m - 1 \notin Bad
    BY <1>2, <2>1
  <2>3. QED BY <1>3, <2>1, <2>2 DEF Grow
<1>5. ASSUME NEW U, S \subseteq U, \A p \in pairs : p[2] \in U
      PROVE  \A n \in 0..N : g[n] \subseteq U
  <2> DEFINE Bad == {n \in Nat : n \in 0..N /\  ~(g[n] \subseteq U)}
  <2> SUFFICES ASSUME Bad # {} PROVE FALSE
    OBVIOUS
  <2>1. PICK m \in Bad : \A n \in Bad : m <= n
    BY LeastOf
  <2>2. m # 0 /\ m - 1 \in 0..N /\ m - 1 \notin Bad
    BY <1>2, <1>5, <2>1
  <2>3. QED BY <1>3, <1>5, <2>1, <2>2 DEF Grow
<1>6. QED BY <1>2, <1>3, <1>4, <1>5

\* The closure holds what it begins with, and the pairs do not lead out of it: a set of dispatches
\* cannot grow in more rounds than there are dispatches.
LEMMA ClosureCloses ==
    ASSUME IsFiniteSet(Charged), NEW S \in SUBSET Charged, NEW pairs,
           \A p \in pairs : p[2] \in Charged
    PROVE  /\ S \subseteq Closure(S, pairs)
           /\ \A p \in pairs : p[1] \in Closure(S, pairs) => p[2] \in Closure(S, pairs)
           /\ \A U : S \subseteq U /\ (\A p \in pairs : p[2] \in U) => Closure(S, pairs) \subseteq U
<1> DEFINE N == Cardinality(Charged)
<1>1. N \in Nat
  BY FS_CardinalityType
<1>2. PICK g : Growth(g, S, pairs, N) /\ Closure(S, pairs) = g[N]
  BY <1>1, ClosureRounds
<1>3. /\ g[0] = S /\ \A n \in 0..N : S \subseteq g[n]
      /\ \A n \in 0..N : n # 0 => g[n] = Grow(g[n - 1], pairs)
      /\ \A U : S \subseteq U /\ (\A p \in pairs : p[2] \in U) => \A n \in 0..N : g[n] \subseteq U
  BY <1>1, <1>2, GrowthSteps
<1>4. \A n \in 0..N : g[n] \subseteq Charged
  BY <1>3
<1>5. Grow(g[N], pairs) = g[N]
  <2> SUFFICES ASSUME Grow(g[N], pairs) # g[N] PROVE FALSE
    OBVIOUS
  <2>1. \A n \in 0..N : Grow(g[n], pairs) # g[n]
    <3> DEFINE Bad == {k \in Nat : k \in 0..N /\  Grow(g[N - k], pairs) = g[N - k]}
    <3> HIDE DEF N
    <3> SUFFICES ASSUME Bad # {} PROVE FALSE
      <4>1. ASSUME NEW n \in 0..N PROVE N - n \in 0..N /\ N - (N - n) = n
        BY <1>1
      <4>2. QED BY <4>1
    <3>1. PICK m \in Bad : \A n \in Bad : m <= n
      BY <1>1, LeastOf
    <3>2. m # 0
      BY <1>1, <3>1
    <3>3. m - 1 \in 0..N /\ m - 1 \notin Bad /\ N - (m - 1) \in 0..N /\ N - (m - 1) # 0
          /\ (N - (m - 1)) - 1 = N - m
      BY <1>1, <3>1, <3>2
    <3>4. g[N - (m - 1)] = Grow(g[N - m], pairs)
      BY <1>3, <3>3
    <3>5. g[N - (m - 1)] = g[N - m]
      BY <3>1, <3>4
    <3>6. QED BY <3>1, <3>3, <3>4, <3>5
  <2>2. \A n \in 0..N : Cardinality(g[n]) >= n
    <3> DEFINE Bad == {n \in Nat : n \in 0..N /\  ~(Cardinality(g[n]) >= n)}
    <3> SUFFICES ASSUME Bad # {} PROVE FALSE
      OBVIOUS
    <3>1. PICK m \in Bad : \A n \in Bad : m <= n
      BY LeastOf
    <3>2. \A n \in 0..N : IsFiniteSet(g[n]) /\ Cardinality(g[n]) \in Nat
      BY <1>4, FS_Subset, FS_CardinalityType
    <3>3. m # 0 /\ m - 1 \in 0..N /\ m - 1 \notin Bad
      <4>1. m \in 0..N /\ ~(Cardinality(g[m]) >= m) /\ Cardinality(g[m]) \in Nat
        BY <3>1, <3>2
      <4>2. m # 0
        BY <4>1
      <4>3. m - 1 \in 0..N
        BY <1>1, <4>1, <4>2
      <4>4. m - 1 \notin Bad
        BY <3>1, <4>1, <4>3
      <4>5. QED BY <4>2, <4>3, <4>4
    <3>4. g[m] = Grow(g[m - 1], pairs) /\ g[m - 1] # g[m] /\ g[m - 1] \subseteq g[m]
      BY <1>3, <2>1, <3>1, <3>3 DEF Grow
    <3>5. Cardinality(g[m - 1]) < Cardinality(g[m])
      <4>1. Cardinality(g[m - 1]) <= Cardinality(g[m])
            /\ (Cardinality(g[m - 1]) = Cardinality(g[m]) => g[m - 1] = g[m])
        BY <3>1, <3>2, <3>4, FS_Subset
      <4>2. QED BY <3>1, <3>2, <3>3, <3>4, <4>1
    <3>6. QED BY <3>1, <3>2, <3>3, <3>5
  <2>3. g[N] = Charged
    <3>1. Cardinality(g[N]) >= N /\ g[N] \subseteq Charged /\ Cardinality(g[N]) <= N
      BY <1>1, <1>4, <2>2, FS_Subset
    <3>2. Cardinality(g[N]) = Cardinality(Charged)
      <4>1. Cardinality(g[N]) \in Nat
        BY <1>1, <1>4, FS_Subset, FS_CardinalityType
      <4>2. QED BY <1>1, <3>1, <4>1
    <3>3. QED BY <3>1, <3>2, FS_Subset
  <2>4. QED BY <2>3 DEF Grow
<1>6. \A p \in pairs : p[1] \in g[N] => p[2] \in g[N]
  BY <1>5 DEF Grow
<1>7. N \in 0..N
  BY <1>1
<1>8. QED BY <1>2, <1>3, <1>6, <1>7

----------------------------------------------------------------------------
(* The recovery ledger: the inductive invariant *)

FieldOf(name) == {ScopeOf[rep][name] : rep \in Reports}

Alias == [source : FieldOf("source"), book : FieldOf("book")]
Attempt == [source : FieldOf("source"), page : FieldOf("page"), box : FieldOf("box"),
            book : FieldOf("book"), route : {"initial", "additional"}, aliases : SUBSET Alias,
            terminal : BOOLEAN, done : BOOLEAN]

\* A refusal is kept, by its source and book, with a terminal attempt of its page.
RefusalStays == \A id \in barred : \E i \in Charged :
    /\ attempts[i].terminal /\ attempts[i].page = id.page
    /\ [source |-> id.source, book |-> id.book] \in attempts[i].aliases

LedgerInv == attempts \in Seq(Attempt) /\ BudgetHolds /\ RefusalStays

\* The dispatches of a page.
SamePage(i) == OnPage(attempts[i])

\* A set of regions within the allowance, or not connected.
Allowed(S) == Cardinality(Additional(S)) > RegionBudget => ~Chain(S)

PageAllowed(P) == /\ Cardinality(Additional(P)) <= PageBudget
                  /\ \A S \in SUBSET P : Allowed(S)

\* The page budget may be counted at any one of the page's dispatches.
LEMMA BudgetByPage == BudgetHolds <=> \A i \in Charged : PageAllowed(SamePage(i))
BY DEF BudgetHolds, PageAllowed, SamePage, Allowed

\* What is appended to dispatches leaves their pages, boxes and routes; terminal stays terminal.
Appends ==
    /\ attempts' \in Seq(Attempt) /\ DOMAIN attempts' = DOMAIN attempts
    /\ \A i \in Charged :
         /\ attempts'[i].source = attempts[i].source /\ attempts'[i].page = attempts[i].page
         /\ attempts'[i].box = attempts[i].box /\ attempts'[i].route = attempts[i].route
         /\ attempts[i].terminal => attempts'[i].terminal
         /\ attempts[i].aliases \subseteq attempts'[i].aliases

\* Outcomes and aliases change neither what a page was charged nor which regions its dispatches join.
LEMMA AppendsKeep ==
    ASSUME BudgetHolds, Appends
    PROVE  BudgetHolds'
<1>1. \A i \in Charged : SamePage(i)' = SamePage(i)
  BY DEF Appends, SamePage, OnPage, Charged
<1>2. ASSUME NEW S \in SUBSET Charged PROVE Additional(S)' = Additional(S) /\ Chain(S)' = Chain(S)
  <2>1. Additional(S)' = Additional(S)
    BY DEF Appends, Additional
  <2>2. \A i, j \in S : Overlaps(attempts[i].box, attempts[j].box)' = Overlaps(attempts[i].box, attempts[j].box)
    BY DEF Appends, Overlaps
  <2>3. Chain(S)' = Chain(S)
    <3>1. Chain(S)' => Chain(S)
      BY <2>2 DEF Chain
    <3>2. Chain(S) => Chain(S)'
      BY <2>2 DEF Chain
    <3>3. QED BY <3>1, <3>2 DEF Chain
  <2>4. QED BY <2>1, <2>3
<1>3. ASSUME NEW i \in Charged PROVE PageAllowed(SamePage(i))'
  <2>1. SamePage(i) \subseteq Charged
    BY DEF SamePage, OnPage
  <2>2. PageAllowed(SamePage(i))
    BY BudgetByPage
  <2>3. \A S \in SUBSET SamePage(i) : Additional(S)' = Additional(S) /\ Chain(S)' = Chain(S)
    BY <1>2, <2>1
  <2>4. QED BY <1>1, <2>2, <2>3 DEF PageAllowed, Allowed
<1>4. Charged' = Charged
  BY DEF Appends, Charged
<1>5. QED BY <1>3, <1>4 DEF BudgetHolds, PageAllowed, SamePage, Allowed

\* What a chain of overlaps leads to from a region is of the region's page, holds what touches the
\* region, and no overlap leads out of it.
LEMMA ConnectedCloses ==
    ASSUME attempts \in Seq(Attempt), NEW scope
    PROVE  /\ Connected(scope) \subseteq OnPage(scope)
           /\ Touching(scope) \subseteq Connected(scope)
           /\ \A i \in Connected(scope), j \in OnPage(scope) :
                Overlaps(attempts[i].box, attempts[j].box) => j \in Connected(scope)
<1> DEFINE pairs == BoxesOverlap(OnPage(scope))
<1>1. IsFiniteSet(Charged)
  BY FS_Interval DEF Charged
<1>2. Touching(scope) \subseteq OnPage(scope) /\ OnPage(scope) \subseteq Charged
  BY DEF Touching, OnPage
<1>3. /\ \A p \in pairs : p[1] \in OnPage(scope) /\ p[2] \in OnPage(scope)
      /\ \A i, j \in OnPage(scope) : Overlaps(attempts[i].box, attempts[j].box) => <<i, j>> \in pairs
  BY DEF BoxesOverlap
<1> HIDE DEF pairs
<1>4. /\ Touching(scope) \subseteq Closure(Touching(scope), pairs)
      /\ \A p \in pairs : p[1] \in Closure(Touching(scope), pairs) => p[2] \in Closure(Touching(scope), pairs)
      /\ Closure(Touching(scope), pairs) \subseteq OnPage(scope)
  <2>1. Touching(scope) \in SUBSET Charged /\ \A p \in pairs : p[2] \in Charged
    BY <1>2, <1>3
  <2>2. /\ Touching(scope) \subseteq Closure(Touching(scope), pairs)
        /\ \A p \in pairs : p[1] \in Closure(Touching(scope), pairs) => p[2] \in Closure(Touching(scope), pairs)
        /\ \A U : Touching(scope) \subseteq U /\ (\A p \in pairs : p[2] \in U)
                  => Closure(Touching(scope), pairs) \subseteq U
    BY <1>1, <2>1, ClosureCloses
  <2>3. QED BY <1>2, <1>3, <2>2
<1>5. Connected(scope) = Closure(Touching(scope), pairs)
  BY DEF Connected, pairs
<1>6. ASSUME NEW i \in Connected(scope), NEW j \in OnPage(scope), Overlaps(attempts[i].box, attempts[j].box)
      PROVE  j \in Connected(scope)
  <2>1. <<i, j>> \in pairs
    BY <1>3, <1>4, <1>5, <1>6
  <2>2. <<i, j>>[1] = i /\ <<i, j>>[2] = j
    OBVIOUS
  <2>3. QED BY <1>4, <1>5, <2>1, <2>2
<1>7. QED BY <1>4, <1>5, <1>6

\* A set of dispatches and one more.
LEMMA OneMore ==
    ASSUME NEW S, NEW n, IsFiniteSet(S)
    PROVE  /\ Cardinality(S) \in Nat /\ IsFiniteSet(S \cup {n}) /\ Cardinality(S \cup {n}) \in Nat
           /\ Cardinality(S \cup {n}) <= Cardinality(S) + 1
<1>1. Cardinality(S) \in Nat
  BY FS_CardinalityType
<1>2. IsFiniteSet(S \cup {n})
      /\ Cardinality(S \cup {n}) = IF n \in S THEN Cardinality(S) ELSE Cardinality(S) + 1
  BY FS_AddElement
<1>3. QED BY <1>1, <1>2

\* The dispatches of a region's page are within the allowances, if there are any.
LEMMA PageOfScope ==
    ASSUME attempts \in Seq(Attempt), BudgetHolds, NEW scope
    PROVE  PageAllowed(OnPage(scope))
<1>1. CASE OnPage(scope) = {}
  <2>1. Cardinality(Additional({})) = 0
    <3>1. Additional({}) = {}
      BY DEF Additional
    <3>2. QED BY <3>1, FS_EmptySet
  <2>2. Cardinality(Additional({})) <= PageBudget /\ Allowed({})
    BY <2>1, BudgetAssumption DEF Allowed
  <2>3. QED BY <1>1, <2>2 DEF PageAllowed
<1>2. CASE OnPage(scope) # {}
  <2>1. PICK i \in OnPage(scope) : TRUE
    BY <1>2
  <2>2. i \in Charged /\ SamePage(i) = OnPage(scope)
    BY <2>1 DEF OnPage, SamePage
  <2>3. QED BY <2>2, BudgetByPage
<1>3. QED BY <1>1, <1>2

\* A dispatch that is admitted keeps the allowances.
LEMMA DispatchKeeps ==
    ASSUME attempts \in Seq(Attempt), BudgetHolds, NEW rep \in Reports, Dispatch(ScopeOf[rep])
    PROVE  attempts' \in Seq(Attempt) /\ BudgetHolds'
<1> DEFINE scope == ScopeOf[rep]
           new == [source |-> scope.source, page |-> scope.page, box |-> scope.box, book |-> scope.book,
                   route |-> IF Connected(scope) = {} THEN "initial" ELSE "additional",
                   aliases |-> {}, terminal |-> FALSE, done |-> FALSE]
<1> HIDE DEF scope
<1>0. PICK n, P : n = Len(attempts) + 1 /\ P = OnPage(scope)
  OBVIOUS
<1> USE DEF scope
<1>1. new \in Attempt
  BY DEF Attempt, FieldOf
<1>2. attempts' = Append(attempts, new) /\ (Connected(scope) = {} \/ ~Spent(scope))
  BY DEF Dispatch
<1>3. /\ new.source = scope.source /\ new.page = scope.page /\ new.box = scope.box
      /\ new.route = "additional" => Connected(scope) # {}
  OBVIOUS
<1> HIDE DEF new
<1>4. /\ attempts' \in Seq(Attempt) /\ Charged' = Charged \cup {n} /\ n \notin Charged
      /\ attempts'[n] = new /\ \A i \in Charged : attempts'[i] = attempts[i]
  BY <1>0, <1>1, <1>2 DEF Charged
<1> HIDE DEF scope
<1>5. ASSUME NEW S \in SUBSET Charged
      PROVE  /\ Additional(S)' = Additional(S) /\ (Allowed(S) => Allowed(S)')
             /\ IsFiniteSet(S) /\ IsFiniteSet(Additional(S))
             /\ Additional(S \cup {n})' = Additional(S) \cup {i \in {n} : new.route = "additional"}
  <2>1. Additional(S)' = Additional(S)
    BY <1>4 DEF Additional
  <2>2. Chain(S)' => Chain(S)
    BY <1>4 DEF Chain, Overlaps
  <2>3. IsFiniteSet(S) /\ IsFiniteSet(Additional(S))
    <3>1. IsFiniteSet(Charged) /\ Additional(S) \subseteq Charged
      BY FS_Interval DEF Charged, Additional
    <3>2. QED BY <3>1, FS_Subset
  <2>4. Additional(S \cup {n})' = Additional(S) \cup {i \in {n} : new.route = "additional"}
    BY <1>4 DEF Additional
  <2>5. QED BY <2>1, <2>2, <2>3, <2>4 DEF Allowed
<1>6. P \subseteq Charged /\ Connected(scope) \subseteq P /\ PageAllowed(P)
  BY <1>0, ConnectedCloses, PageOfScope DEF OnPage
<1>7. PageAllowed(P \cup {n})'
  <2>1. Cardinality(Additional(P \cup {n})') <= PageBudget
    <3>1. CASE new.route = "additional"
      <4>1. Cardinality(Additional(P)) < PageBudget
        <5>1. ~(Cardinality(Additional(P)) >= PageBudget)
          BY <1>0, <1>2, <1>3, <3>1 DEF Spent
        <5>2. Cardinality(Additional(P)) \in Nat
          BY <1>5, <1>6, FS_CardinalityType
        <5>3. QED BY <5>1, <5>2, BudgetAssumption
      <4>2. Additional(P \cup {n})' = Additional(P) \cup {n}
        BY <1>5, <1>6, <3>1
      <4>3. /\ Cardinality(Additional(P)) \in Nat
            /\ Cardinality(Additional(P) \cup {n}) \in Nat
            /\ Cardinality(Additional(P) \cup {n}) <= Cardinality(Additional(P)) + 1
        BY <1>5, <1>6, OneMore
      <4>4. Cardinality(Additional(P)) + 1 <= PageBudget
        BY <4>1, <4>3, BudgetAssumption
      <4>5. Cardinality(Additional(P) \cup {n}) <= PageBudget
        BY <4>3, <4>4, BudgetAssumption
      <4>6. QED BY <4>2, <4>5
    <3>2. CASE new.route # "additional"
      <4>1. Additional(P \cup {n})' = Additional(P)
        BY <1>5, <1>6, <3>2
      <4>2. QED BY <1>6, <4>1 DEF PageAllowed
    <3>3. QED BY <3>1, <3>2
  <2>2. ASSUME NEW S \in SUBSET (P \cup {n}) PROVE Allowed(S)'
    <3>1. CASE n \notin S
      <4>1. S \subseteq P
        BY <3>1
      <4>2. QED BY <1>5, <1>6, <4>1 DEF PageAllowed
    <3>2. CASE n \in S
      <4> DEFINE old == S \ {n}
      <4>1. old \subseteq P /\ S = old \cup {n} /\ n \notin old
        BY <3>2
      <4>2. Chain(S)' => old \subseteq Connected(scope)
        <5> SUFFICES ASSUME Chain(S)', ~(old \subseteq Connected(scope)) PROVE FALSE
          OBVIOUS
        <5> DEFINE A == (old \cap Connected(scope)) \cup {n}
        <5>1. A \in (SUBSET S) \ {{}, S}
          BY <4>1
        <5>2. PICK i \in A, j \in S \ A : Overlaps(attempts'[i].box, attempts'[j].box)
          BY <5>1 DEF Chain
        <5>3. j \in P /\ j \notin Connected(scope) /\ j \in Charged
          BY <1>6, <4>1
        <5>4. CASE i = n
          <6>1. Overlaps(scope.box, attempts[j].box)
            BY <1>3, <1>4, <5>2, <5>3, <5>4
          <6>2. j \in Touching(scope)
              BY <1>0, <5>3, <6>1 DEF Touching, Overlaps
          <6>3. QED BY <5>3, <6>2, <1>0, ConnectedCloses
        <5>5. CASE i # n
          <6>1. i \in Connected(scope) /\ i \in Charged
            BY <1>6, <4>1, <5>5
          <6>2. Overlaps(attempts[i].box, attempts[j].box)
            BY <1>4, <5>2, <5>3, <6>1
          <6>3. QED BY <5>3, <6>1, <6>2, <1>0, ConnectedCloses
        <5>6. QED BY <5>4, <5>5
      <4> HIDE DEF old
      <4>3. ASSUME old \subseteq Connected(scope) PROVE Cardinality(Additional(S)') <= RegionBudget
        <5>1. Additional(old) \subseteq Additional(Connected(scope)) /\ IsFiniteSet(Additional(Connected(scope)))
          BY <1>5, <1>6, <4>3 DEF Additional
        <5>2. CASE new.route = "additional"
          <6>1. Additional(S)' = Additional(old) \cup {n}
            BY <1>5, <1>6, <4>1, <5>2
          <6>2. ~(Cardinality(Additional(Connected(scope))) >= RegionBudget)
            BY <1>2, <1>3, <5>2 DEF Spent
          <6>3. Cardinality(Additional(old)) <= Cardinality(Additional(Connected(scope)))
            BY <5>1, FS_Subset
          <6>4. Cardinality(Additional(Connected(scope))) \in Nat /\ IsFiniteSet(Additional(old))
            BY <5>1, FS_Subset, FS_CardinalityType
          <6>5. /\ Cardinality(Additional(old)) \in Nat
                /\ Cardinality(Additional(old) \cup {n}) \in Nat
                /\ Cardinality(Additional(old) \cup {n}) <= Cardinality(Additional(old)) + 1
            BY <6>4, OneMore
          <6>6. QED BY <6>1, <6>2, <6>3, <6>4, <6>5, BudgetAssumption
        <5>3. CASE new.route # "additional" /\ Connected(scope) = {}
          <6>1. old = {}
            BY <4>3, <5>3
          <6>2. Additional(S)' = {}
            BY <1>5, <1>6, <4>1, <5>3, <6>1 DEF Additional
          <6>3. QED BY <6>2, FS_EmptySet, BudgetAssumption
        <5>4. new.route # "additional" => Connected(scope) = {}
          BY DEF new
        <5>5. QED BY <5>2, <5>3, <5>4
      <4>4. Cardinality(Additional(S)') \in Nat
        <5>1. IsFiniteSet(Additional(old) \cup {i \in {n} : new.route = "additional"})
          <6>1. IsFiniteSet(Additional(old) \cup {n})
            BY <1>5, <1>6, <4>1, OneMore
          <6>2. QED BY <6>1, FS_Subset
        <5>2. QED BY <1>5, <1>6, <4>1, <5>1, FS_CardinalityType
      <4>5. QED BY <4>2, <4>3, <4>4, BudgetAssumption DEF Allowed
    <3>3. QED BY <3>1, <3>2
  <2>3. QED BY <2>1, <2>2 DEF PageAllowed
<1>8. ASSUME NEW i \in Charged' PROVE PageAllowed(SamePage(i))'
  <2>1. CASE attempts'[i].source = scope.source /\ attempts'[i].page = scope.page
    <3>1. SamePage(i)' = P \cup {n}
      BY <1>0, <1>3, <1>4, <2>1 DEF SamePage, OnPage
    <3>2. QED BY <1>7, <3>1 DEF PageAllowed, Allowed
  <2>2. CASE ~(attempts'[i].source = scope.source /\ attempts'[i].page = scope.page)
    <3>1. i \in Charged /\ i # n
      BY <1>3, <1>4, <2>2
    <3>2. SamePage(i)' = SamePage(i) /\ SamePage(i) \subseteq Charged
      BY <1>3, <1>4, <2>2, <3>1 DEF SamePage, OnPage
    <3>3. PageAllowed(SamePage(i))
      BY <3>1, BudgetByPage
    <3>4. \A S \in SUBSET SamePage(i) : Additional(S)' = Additional(S) /\ (Allowed(S) => Allowed(S)')
      BY <1>5, <3>2
    <3>5. QED BY <3>2, <3>3, <3>4 DEF PageAllowed, Allowed
  <2>3. QED BY <2>1, <2>2
<1>9. QED BY <1>4, <1>8 DEF BudgetHolds, PageAllowed, SamePage, Allowed

\* Events appended to a dispatch leave it where it is, and what was refused stays refused.
LEMMA EventKeeps ==
    ASSUME LedgerInv, Appends, barred' = barred
    PROVE  LedgerInv'
<1>1. RefusalStays'
  BY DEF Appends, LedgerInv, RefusalStays, Charged
<1>2. QED BY <1>1, AppendsKeep DEF LedgerInv, Appends

\* What one more alias makes of a dispatch.
LEMMA AliasOf ==
    ASSUME NEW a \in Attempt, NEW alias \in Alias, NEW b, b = [a EXCEPT !.aliases = @ \cup {alias}]
    PROVE  /\ b \in Attempt /\ b.source = a.source /\ b.page = a.page /\ b.box = a.box
           /\ b.route = a.route /\ b.terminal = a.terminal
           /\ a.aliases \subseteq b.aliases /\ alias \in b.aliases
<1>1. b.aliases = a.aliases \cup {alias} /\ b.aliases \in SUBSET Alias
  BY DEF Attempt
<1>2. QED BY <1>1 DEF Attempt

\* The outcome of a dispatch is recorded.
LEMMA RecordKeeps ==
    ASSUME LedgerInv, NEW n, NEW terminal \in BOOLEAN, RecordOutcome(n, terminal)
    PROVE  LedgerInv'
<1>1. attempts \in Seq(Attempt) /\ attempts' = [attempts EXCEPT ![n].done = TRUE, ![n].terminal = @ \/ terminal]
  BY DEF LedgerInv, RecordOutcome
<1>2. ASSUME NEW i \in Charged
      PROVE  /\ attempts'[i] = IF i = n THEN [attempts[i] EXCEPT !.done = TRUE, !.terminal = @ \/ terminal]
                                ELSE attempts[i]
             /\ attempts[i] \in Attempt
  <2>1. attempts \in [Charged -> Attempt]
    BY <1>1 DEF Charged
  <2>2. attempts[i] \in Attempt
    BY <2>1
  <2>3. CASE i = n
    <3>1. attempts'[i] = [[attempts[i] EXCEPT !.done = TRUE] EXCEPT !.terminal = @ \/ terminal]
      BY <1>1, <2>1, <2>3
    <3>2. QED BY <2>2, <2>3, <3>1
  <2>4. CASE i # n
    BY <1>1, <2>1, <2>2, <2>4
  <2>5. QED BY <2>3, <2>4
<1>3. ASSUME NEW i \in Charged
      PROVE  /\ attempts'[i] \in Attempt
             /\ attempts'[i].source = attempts[i].source /\ attempts'[i].page = attempts[i].page
             /\ attempts'[i].box = attempts[i].box /\ attempts'[i].route = attempts[i].route
             /\ attempts[i].terminal => attempts'[i].terminal
             /\ attempts[i].aliases \subseteq attempts'[i].aliases
  <2>1. CASE i = n
    <3> DEFINE t == attempts[i].terminal \/ terminal
    <3>1. attempts'[i] = [attempts[i] EXCEPT !.done = TRUE, !.terminal = t]
      BY <1>2, <2>1
    <3>2. attempts[i] \in Attempt /\ t \in BOOLEAN /\ (attempts[i].terminal => t)
      BY <1>2
    <3> HIDE DEF t
    <3>3. PICK a, b, x : a = attempts[i] /\ b = attempts'[i] /\ x = t
      OBVIOUS
    <3>4. a \in Attempt /\ x \in BOOLEAN /\ (a.terminal => x)
          /\ b = [a EXCEPT !.done = TRUE, !.terminal = x]
      BY <3>1, <3>2, <3>3
    <3>5. /\ b \in Attempt /\ b.source = a.source /\ b.page = a.page /\ b.box = a.box
          /\ b.route = a.route /\ b.aliases = a.aliases /\ (a.terminal => b.terminal)
      <4>1. /\ b.source = a.source /\ b.page = a.page /\ b.box = a.box /\ b.book = a.book
            /\ b.route = a.route /\ b.aliases = a.aliases /\ b.done = TRUE /\ b.terminal = x
        BY <3>4 DEF Attempt
      <4>2. b = [source |-> b.source, page |-> b.page, box |-> b.box, book |-> b.book, route |-> b.route,
                 aliases |-> b.aliases, terminal |-> b.terminal, done |-> b.done]
        BY <3>4 DEF Attempt
      <4>3. b \in Attempt
        BY <3>4, <4>1, <4>2 DEF Attempt
      <4>4. QED BY <3>4, <4>1, <4>3
    <3>6. QED BY <3>3, <3>5
  <2>2. CASE i # n
    BY <1>2, <2>2
  <2>3. QED BY <2>1, <2>2
<1>4. DOMAIN attempts' = DOMAIN attempts /\ Len(attempts) \in Nat /\ DOMAIN attempts = 1..Len(attempts)
  BY <1>1
<1>5. attempts' = [i \in 1..Len(attempts) |-> attempts'[i]]
  BY <1>1, <1>4
<1>6. attempts' \in Seq(Attempt)
  BY <1>3, <1>4, <1>5 DEF Charged
<1>7. QED BY <1>3, <1>4, <1>6, EventKeeps DEF Appends, RecordOutcome

\* A report whose region came to an end is refused: the terminal attempt takes its alias, and no budget moves.
LEMMA RefusalKeeps ==
    ASSUME LedgerInv, NEW rep \in Reports, TerminalUnavailable(ScopeOf[rep])
    PROVE  LedgerInv'
<1> DEFINE scope == ScopeOf[rep]
           alias == [source |-> scope.source, book |-> scope.book]
<1>1. PICK n \in TerminalOf(scope) :
        attempts' = [attempts EXCEPT ![n].aliases = @ \cup {alias}]
  BY DEF TerminalUnavailable, Aliased
<1>2. attempts \in Seq(Attempt) /\ DOMAIN attempts = 1..Len(attempts) /\ Len(attempts) \in Nat
      /\ alias \in Alias
  BY DEF LedgerInv, Alias, FieldOf
<1>3. n \in Charged /\ attempts[n].page = scope.page /\ attempts[n].terminal
  <2> DEFINE onPage == {i \in Charged : attempts[i].page = scope.page}
             first == {i \in onPage : \E x \in Identities(i) : SameBook(x, scope)}
             pairs == Related(onPage)
  <2>1. first \in SUBSET Charged /\ first \subseteq onPage /\ \A p \in pairs : p[2] \in onPage /\ p[2] \in Charged
    BY DEF Related
  <2>2. IsFiniteSet(Charged)
    BY <1>2, FS_Interval DEF Charged
  <2>3. Lineage(scope) = Closure(first, pairs)
    BY DEF Lineage
  <2> HIDE DEF first, pairs
  <2>4. \A U : first \subseteq U /\ (\A p \in pairs : p[2] \in U) => Closure(first, pairs) \subseteq U
    BY <2>1, <2>2, ClosureCloses
  <2> HIDE DEF onPage
  <2>5. Closure(first, pairs) \subseteq onPage
    BY <2>1, <2>4
  <2>6. n \in onPage /\ attempts[n].terminal
    BY <1>1, <2>3, <2>5 DEF TerminalOf
  <2>7. QED BY <2>6 DEF onPage
<1> HIDE DEF scope, alias
<1>4. ASSUME NEW i \in Charged
      PROVE  /\ attempts'[i] = IF i = n THEN [attempts[i] EXCEPT !.aliases = @ \cup {alias}] ELSE attempts[i]
             /\ attempts[i] \in Attempt
  <2>1. attempts \in [Charged -> Attempt]
    BY <1>2 DEF Charged
  <2>2. QED BY <1>1, <2>1
<1>5. ASSUME NEW i \in Charged
      PROVE  /\ attempts'[i] \in Attempt
             /\ attempts'[i].source = attempts[i].source /\ attempts'[i].page = attempts[i].page
             /\ attempts'[i].box = attempts[i].box /\ attempts'[i].route = attempts[i].route
             /\ attempts'[i].terminal = attempts[i].terminal
             /\ attempts[i].aliases \subseteq attempts'[i].aliases
             /\ i = n => alias \in attempts'[i].aliases
  <2>1. CASE i = n
    <3>1. attempts'[i] = [attempts[i] EXCEPT !.aliases = @ \cup {alias}]
      BY <1>4, <2>1
    <3>2. QED BY <1>2, <1>4, <2>1, <3>1, AliasOf
  <2>2. CASE i # n
    BY <1>4, <2>2
  <2>3. QED BY <2>1, <2>2
<1>6. DOMAIN attempts' = DOMAIN attempts /\ attempts' = [i \in 1..Len(attempts) |-> attempts'[i]]
  BY <1>1, <1>2
<1>7. attempts' \in Seq(Attempt)
  BY <1>2, <1>5, <1>6 DEF Charged
<1>8. Appends
  BY <1>5, <1>6, <1>7 DEF Appends
<1>9. barred' = barred \cup {[source |-> scope.source, book |-> scope.book, page |-> scope.page]}
  BY DEF TerminalUnavailable, scope
<1>10. RefusalStays'
  <2> SUFFICES ASSUME NEW id \in barred'
               PROVE  \E i \in Charged' :
                        /\ attempts'[i].terminal /\ attempts'[i].page = id.page
                        /\ [source |-> id.source, book |-> id.book] \in attempts'[i].aliases
    BY DEF RefusalStays
  <2>1. CASE id \in barred
    BY <1>5, <1>6, <2>1 DEF LedgerInv, RefusalStays, Charged
  <2>2. CASE id = [source |-> scope.source, book |-> scope.book, page |-> scope.page]
    <3>1. [source |-> id.source, book |-> id.book] = alias /\ id.page = scope.page
      BY <2>2 DEF alias
    <3>2. QED BY <1>3, <1>5, <1>6, <3>1 DEF Charged
  <2>3. QED BY <1>9, <2>1, <2>2
<1>11. QED BY <1>7, <1>8, <1>10, AppendsKeep DEF LedgerInv

\* A dispatch that is admitted leaves the budgets kept, and is on no page of a book that is barred.
LEMMA AdmissionKeeps ==
    ASSUME LedgerInv, NEW rep \in Reports, Dispatch(ScopeOf[rep])
    PROVE  /\ LedgerInv'
           /\ \A id \in barred :
                ~(attempts'[Len(attempts')].page = id.page /\ SameBook(attempts'[Len(attempts')], id))
<1> DEFINE scope == ScopeOf[rep]
<1>1. attempts' \in Seq(Attempt) /\ BudgetHolds'
  BY DispatchKeeps DEF LedgerInv
<1>2. attempts \in Seq(Attempt) /\ barred' = barred /\ TerminalOf(scope) = {}
  BY DEF LedgerInv, Dispatch
<1> DEFINE new == [source |-> scope.source, page |-> scope.page, box |-> scope.box, book |-> scope.book,
                   route |-> IF Connected(scope) = {} THEN "initial" ELSE "additional",
                   aliases |-> {}, terminal |-> FALSE, done |-> FALSE]
<1>3. /\ attempts' = Append(attempts, new) /\ new.source = scope.source
      /\ new.page = scope.page /\ new.book = scope.book /\ new \in Attempt
  BY DEF Dispatch, Attempt, FieldOf
<1> HIDE DEF new
<1>4. /\ Charged \subseteq Charged' /\ \A i \in Charged : attempts'[i] = attempts[i]
      /\ attempts'[Len(attempts')] = new
  BY <1>2, <1>3 DEF Charged
<1>5. RefusalStays'
  BY <1>2, <1>4 DEF LedgerInv, RefusalStays
<1>6. ASSUME NEW id \in barred, new.page = id.page, SameBook(new, id) PROVE FALSE
  <2>1. PICK i \in Charged : /\ attempts[i].terminal /\ attempts[i].page = id.page
                             /\ [source |-> id.source, book |-> id.book] \in attempts[i].aliases
    BY DEF LedgerInv, RefusalStays
  <2> DEFINE onPage == {j \in Charged : attempts[j].page = scope.page}
             first == {j \in onPage : \E x \in Identities(j) : SameBook(x, scope)}
             pairs == Related(onPage)
  <2>2. i \in first
    <3> DEFINE x == [source |-> id.source, book |-> id.book]
    <3>1. x \in Identities(i)
      BY <2>1 DEF Identities
    <3>2. SameBook(x, scope)
      BY <1>3, <1>6 DEF SameBook
    <3>3. QED BY <1>3, <1>6, <2>1, <3>1, <3>2
  <2>3. first \in SUBSET Charged /\ \A p \in pairs : p[2] \in Charged
    BY DEF Related
  <2>4. IsFiniteSet(Charged)
    BY <1>2, FS_Interval DEF Charged
  <2>5. Lineage(scope) = Closure(first, pairs)
    BY DEF Lineage
  <2> HIDE DEF first, pairs
  <2>6. first \subseteq Closure(first, pairs)
    BY <2>3, <2>4, ClosureCloses
  <2>7. i \in TerminalOf(scope)
    BY <2>1, <2>2, <2>5, <2>6 DEF TerminalOf
  <2>8. QED BY <1>2, <2>7
<1>7. QED BY <1>1, <1>4, <1>5, <1>6 DEF LedgerInv

----------------------------------------------------------------------------
(* The ledger under the triage *)

RunTyped == /\ filed \subseteq Reports
            /\ DOMAIN run = Runners
            /\ \A r \in Runners : run[r].batch \subseteq Reports

\* The oldest of some reports is one of them.
LEMMA OldestIs ==
    ASSUME RunTyped, NEW r \in Runners, run[r].batch # {}
    PROVE  OldestPending(r) \in run[r].batch
<1>1. run[r].batch \in SUBSET Nat
  BY TriageAssumption DEF RunTyped
<1>2. \E m \in run[r].batch : \A n \in run[r].batch : m <= n
  BY <1>1, LeastOf
<1>3. QED BY <1>2 DEF OldestPending, Min

LEMMA OldestReport ==
    ASSUME RunTyped, NEW r \in Runners, run[r].batch # {}
    PROVE  OldestPending(r) \in Reports
BY OldestIs DEF RunTyped

\* A run's batch is made of reports.
LEMMA RunsTyped ==
    ASSUME RunTyped, [TriageNext]_triageVars
    PROVE  RunTyped'
<1> DEFINE Stays(r) == /\ DOMAIN run' = Runners /\ \A q \in Runners : q # r => run'[q] = run[q]
                      /\ run'[r].batch \subseteq Reports
<1>1. ASSUME NEW r \in Runners, filed' = filed, Stays(r) PROVE RunTyped'
  BY <1>1 DEF RunTyped
<1>2. Pending \subseteq Reports
  BY DEF RunTyped, Pending
<1>3. ASSUME NEW r \in Runners, Work(r) \/ Killed(r) PROVE filed' = filed /\ Stays(r)
  <2>1. run[r].batch \subseteq Reports /\ DOMAIN run = Runners
    BY DEF RunTyped
  <2>2. CASE Start(r)
    BY <1>2, <2>1, <2>2 DEF Start, NoRun
  <2>3. CASE Rebuild(r) \/ Killed(r)
    <3>1. run' = [run EXCEPT ![r] = NoRun] /\ filed' = filed /\ NoRun.batch = {}
      BY <2>3 DEF Rebuild, Killed, NoRun
    <3>2. QED BY <2>1, <3>1
  <2>4. CASE LedgerRefused(r)
    BY <2>1, <2>4 DEF LedgerRefused
  <2>5. CASE Admitted(r)
    BY <2>1, <2>5 DEF Admitted, NoRun
  <2>6. CASE \E vote \in {"proposed", "current", "neither", "failed"} : Reading(r, vote)
    BY <2>1, <2>6 DEF Reading
  <2>7. ASSUME NEW outcome, Conclude(r, outcome) PROVE Stays(r)
    BY <2>1, <2>7 DEF Conclude, NoRun
  <2>8. ASSUME NEW pc, LeaveRun(r, pc) PROVE Stays(r)
    BY <2>1, <2>8 DEF LeaveRun, NoRun
  <2>9. CASE Counted(r) \/ Unregistered(r) \/ ReaderRefused(r) \/ ReadingFailed(r) \/ Limited(r)
    <3>1. filed' = filed /\ ((\E outcome : Conclude(r, outcome)) \/ \E pc : LeaveRun(r, pc))
      BY <2>9 DEF Counted, Unregistered, ReaderRefused, ReadingFailed, Limited
    <3>2. QED BY <2>7, <2>8, <3>1
  <2>10. QED BY <1>3, <2>2, <2>3, <2>4, <2>5, <2>6, <2>9 DEF Work
<1>4. QED BY <1>1, <1>3 DEF TriageNext, File, TriageSecond, triageVars, RunTyped

\* What a step does with the ledger.
LEMMA LedgerSteps ==
    ASSUME RunTyped, [TriageNext]_triageVars
    PROVE  \/ UNCHANGED ledgerVars
           \/ \E n : RecordOutcome(n, TRUE) \/ RecordOutcome(n, FALSE)
           \/ \E rep \in Reports : TerminalUnavailable(ScopeOf[rep]) \/ Dispatch(ScopeOf[rep])
<1> DEFINE Stepped == \/ UNCHANGED ledgerVars
                   \/ \E n : RecordOutcome(n, TRUE) \/ RecordOutcome(n, FALSE)
                   \/ \E rep \in Reports : TerminalUnavailable(ScopeOf[rep]) \/ Dispatch(ScopeOf[rep])
<1>1. ASSUME NEW r \in Runners, Work(r) \/ Killed(r) PROVE Stepped
  <2>1. CASE Start(r) \/ Rebuild(r) \/ \E vote \in {"proposed", "current", "neither", "failed"} : Reading(r, vote)
    BY <2>1 DEF Start, Rebuild, Reading, ledgerVars
  <2>2. CASE Counted(r) \/ Unregistered(r) \/ ReaderRefused(r) \/ ReadingFailed(r) \/ Limited(r)
    BY <2>2 DEF Counted, Unregistered, ReaderRefused, ReadingFailed, Limited
  <2>3. CASE Admitted(r)
    BY <2>3, OldestReport DEF Admitted
  <2>4. CASE LedgerRefused(r)
    BY <2>4, OldestReport DEF LedgerRefused, BudgetExhausted
  <2>5. CASE Killed(r)
    BY <2>5, OldestReport DEF Killed
  <2>6. QED BY <1>1, <2>1, <2>2, <2>3, <2>4, <2>5 DEF Work
<1>2. QED BY <1>1 DEF TriageNext, File, TriageSecond, triageVars, ledgerVars

\* The ledger stays within its allowances under any number of runs, and keeps what it refused
\* (recovery.py, triage_reports.py).
THEOREM LedgerInvariant == TriageSpec => [](RunTyped /\ LedgerInv)
<1>1. TriageInit => RunTyped /\ LedgerInv
  <2> SUFFICES ASSUME TriageInit PROVE RunTyped /\ LedgerInv
    OBVIOUS
  <2>1. RunTyped
    BY TriageAssumption DEF TriageInit, RunTyped, NoRun
  <2>2. attempts = <<>> /\ barred = {} /\ Charged = {}
    BY DEF TriageInit, LedgerInit, Charged
  <2>3. BudgetHolds /\ RefusalStays
    BY <2>2 DEF BudgetHolds, RefusalStays
  <2>4. QED BY <2>1, <2>2, <2>3 DEF LedgerInv
<1>2. RunTyped /\ LedgerInv /\ [TriageNext]_triageVars => RunTyped' /\ LedgerInv'
  <2> SUFFICES ASSUME RunTyped, LedgerInv, [TriageNext]_triageVars PROVE RunTyped' /\ LedgerInv'
    OBVIOUS
  <2>1. CASE UNCHANGED ledgerVars
    <3>1. Appends
      BY <2>1 DEF ledgerVars, Appends, LedgerInv, Charged
    <3>2. QED BY <2>1, <3>1, RunsTyped, EventKeeps DEF ledgerVars
  <2>2. CASE \E n : RecordOutcome(n, TRUE) \/ RecordOutcome(n, FALSE)
    BY <2>2, RunsTyped, RecordKeeps
  <2>3. CASE \E rep \in Reports : TerminalUnavailable(ScopeOf[rep]) \/ Dispatch(ScopeOf[rep])
    BY <2>3, RunsTyped, RefusalKeeps, AdmissionKeeps
  <2>4. QED BY <2>1, <2>2, <2>3, LedgerSteps
<1>3. QED BY <1>1, <1>2, PTL DEF TriageSpec

\* For any reports, overlaps of regions, runs, refusals and kills: regions that a chain of overlaps
\* connects share one allowance, a page has one, and a page that was refused is not reopened under
\* any alias (recovery.py:25-27, 86-87).
THEOREM LedgerAlwaysHolds == TriageSpec => LedgerHolds
<1> DEFINE Reopens == \A id \in barred : Len(attempts') > Len(attempts)
              => ~(attempts'[Len(attempts')].page = id.page /\ SameBook(attempts'[Len(attempts')], id))
<1>1. RunTyped /\ LedgerInv /\ [TriageNext]_triageVars => Reopens
  <2> SUFFICES ASSUME RunTyped, LedgerInv, [TriageNext]_triageVars PROVE Reopens
    OBVIOUS
  <2>0. attempts \in Seq(Attempt) /\ Len(attempts) \in Nat
    BY DEF LedgerInv
  <2>1. CASE UNCHANGED ledgerVars
    BY <2>0, <2>1 DEF ledgerVars
  <2>2. CASE \E n : RecordOutcome(n, TRUE) \/ RecordOutcome(n, FALSE)
    BY <2>0, <2>2 DEF RecordOutcome
  <2>3. CASE \E rep \in Reports : TerminalUnavailable(ScopeOf[rep])
    BY <2>0, <2>3 DEF TerminalUnavailable, Aliased
  <2>4. CASE \E rep \in Reports : Dispatch(ScopeOf[rep])
    BY <2>4, AdmissionKeeps
  <2>5. QED BY <2>1, <2>2, <2>3, <2>4, LedgerSteps
<1>2. LedgerInv' => BudgetHolds'
  BY DEF LedgerInv
<1> HIDE DEF Reopens
<1>3. [][Reopens]_ledgerVars => NoneReopened
  BY PTL DEF Reopens, NoneReopened
<1>4. UNCHANGED triageVars => UNCHANGED ledgerVars
  BY DEF triageVars, ledgerVars
<1>5. QED BY <1>1, <1>2, <1>3, <1>4, LedgerInvariant, PTL DEF TriageSpec, LedgerHolds

----------------------------------------------------------------------------
(* The corrections of the triage *)

\* Among decided reports one is the first.
LEMMA FirstOf ==
    ASSUME NEW S \in SUBSET Reports, S # {}, \A rep \in Reports : decisions[rep].at \in Nat
    PROVE  \E m \in S : \A rep \in S \ {m} : Earlier(m, rep)
<1>1. S \in SUBSET Nat
  BY TriageAssumption
<1> DEFINE times == {decisions[rep].at : rep \in S}
<1>2. times \in SUBSET Nat /\ times # {}
  OBVIOUS
<1>3. PICK time \in times : \A t \in times : time <= t
  BY <1>2, LeastOf
<1> DEFINE then == {rep \in S : decisions[rep].at = time}
<1>4. then \in SUBSET Nat /\ then # {}
  BY <1>1, <1>3
<1>5. PICK m \in then : \A rep \in then : m <= rep
  BY <1>4, LeastOf
<1>6. ASSUME NEW rep \in S \ {m} PROVE Earlier(m, rep)
  <2>1. time <= decisions[rep].at /\ decisions[m].at = time /\ time \in Nat /\ decisions[rep].at \in Nat
    BY <1>2, <1>3, <1>5
  <2>2. CASE decisions[rep].at = time
    <3>1. m <= rep /\ m # rep /\ m \in Nat /\ rep \in Nat
      BY <1>1, <1>4, <1>5, <2>2
    <3>2. QED BY <2>1, <2>2, <3>1 DEF Earlier
  <2>3. CASE decisions[rep].at # time
    BY <2>1, <2>3 DEF Earlier
  <2>4. QED BY <2>2, <2>3
<1>7. QED BY <1>5, <1>6

\* Reports in the order of their decisions.
InOrder(s) == \A i, j \in DOMAIN s : i < j => Earlier(s[i], s[j])

LEMMA OrderExists ==
    ASSUME NEW S \in SUBSET Reports, IsFiniteSet(S), \A rep \in Reports : decisions[rep].at \in Nat
    PROVE  \E s \in [1..Cardinality(S) -> S] : InOrder(s)
<1> DEFINE Orders(n) == \A T \in SUBSET Reports :
                IsFiniteSet(T) /\ Cardinality(T) = n => \E s \in [1..n -> T] : InOrder(s)
           Bad == {n \in Nat : ~Orders(n)}
<1>1. ASSUME Bad # {} PROVE FALSE
  <2>1. PICK n \in Bad : \A k \in Bad : n <= k
    BY <1>1, LeastOf
  <2>2. PICK T \in SUBSET Reports : IsFiniteSet(T) /\ Cardinality(T) = n /\ ~\E s \in [1..n -> T] : InOrder(s)
    BY <2>1
  <2>3. CASE n = 0
    <3>1. <<>> \in [1..n -> T] /\ DOMAIN <<>> = {}
      BY <2>3
    <3>2. QED BY <2>2, <3>1 DEF InOrder
  <2>4. CASE n # 0
    <3>1. n \in Nat \ {0} /\ n - 1 \in Nat /\ T # {}
      BY <2>1, <2>2, <2>4, FS_EmptySet
    <3>2. PICK m \in T : \A rep \in T \ {m} : Earlier(m, rep)
      BY <3>1, FirstOf
    <3>3. IsFiniteSet(T \ {m}) /\ Cardinality(T \ {m}) = n - 1
      BY <2>2, <3>2, FS_RemoveElement
    <3>4. Orders(n - 1)
      <4>1. ~(n <= n - 1)
        BY <3>1
      <4>2. n - 1 \notin Bad
        BY <2>1, <4>1
      <4>3. QED BY <3>1, <4>2
    <3>5. PICK t \in [1..(n - 1) -> T \ {m}] : InOrder(t)
      BY <3>3, <3>4
    <3> DEFINE s == [i \in 1..n |-> IF i = 1 THEN m ELSE t[i - 1]]
    <3>6. \A i \in 1..n : i # 1 => i - 1 \in 1..(n - 1) /\ s[i] = t[i - 1]
      BY <3>1
    <3>7. s \in [1..n -> T]
      BY <3>2, <3>5, <3>6
    <3>8. ASSUME NEW i \in 1..n, NEW j \in 1..n, i < j PROVE Earlier(s[i], s[j])
      <4>1. j # 1 /\ s[j] = t[j - 1] /\ t[j - 1] \in T \ {m} /\ j - 1 \in 1..(n - 1)
        BY <3>5, <3>6, <3>8
      <4>2. CASE i = 1
        BY <3>2, <4>1, <4>2
      <4>3. CASE i # 1
        <5>1. i - 1 \in 1..(n - 1) /\ s[i] = t[i - 1] /\ i - 1 < j - 1
          BY <3>6, <3>8, <4>3
        <5>2. QED BY <3>5, <4>1, <5>1 DEF InOrder
      <4>4. QED BY <4>2, <4>3
    <3>9. DOMAIN s = 1..n
      OBVIOUS
    <3>10. InOrder(s)
      BY <3>8, <3>9 DEF InOrder
    <3>11. QED BY <2>2, <3>7, <3>10
  <2>5. QED BY <2>3, <2>4
<1>2. Cardinality(S) \in Nat
  BY FS_CardinalityType
<1>3. Orders(Cardinality(S))
  BY <1>1, <1>2
<1>4. QED BY <1>3

\* Reports in an order are all there once they are as many.
LEMMA OrderCovers ==
    ASSUME NEW S \in SUBSET Reports, IsFiniteSet(S), \A rep \in Reports : decisions[rep].at \in Nat,
           NEW s \in [1..Cardinality(S) -> S], InOrder(s)
    PROVE  \A rep \in S : \E i \in DOMAIN s : s[i] = rep
<1> DEFINE n == Cardinality(S)
<1>1. n \in Nat
  BY FS_CardinalityType
<1>2. \A rep \in S : rep \in Nat /\ decisions[rep].at \in Nat
  BY TriageAssumption
<1> HIDE DEF n
<1>3. s \in [1..n -> S] /\ DOMAIN s = 1..n
  BY DEF n
<1>4. ASSUME NEW i \in 1..n, NEW j \in 1..n, i < j PROVE s[i] # s[j]
  <2>1. Earlier(s[i], s[j]) /\ s[i] \in S
    BY <1>3, <1>4 DEF InOrder
  <2>2. QED BY <1>2, <2>1 DEF Earlier
<1>5. \A i, j \in 1..n : s[i] = s[j] => i = j
  <2>1. ASSUME NEW i \in 1..n, NEW j \in 1..n, s[i] = s[j], i # j PROVE FALSE
    <3>1. i < j \/ j < i
      BY <1>1, <2>1
    <3>2. QED BY <1>4, <2>1, <3>1
  <2>2. QED BY <2>1
<1>6. s \in Injection(1..n, S)
  BY <1>3, <1>5 DEF Injection, IsInjective
<1>7. Cardinality(1..n) = n
  BY <1>1, FS_Interval
<1>8. s \in Surjection(1..n, S)
  BY <1>6, <1>7, FS_Injection DEF n
<1>9. QED BY <1>3, <1>8 DEF Surjection

AcceptedClaims == {ClaimOf[rep] : rep \in Accepted}

\* What the ledger is rebuilt from has one row for each claim that is accepted.
LEMMA CorrectionsCover ==
    ASSUME IsFiniteSet(Accepted), \A rep \in Reports : decisions[rep].at \in Nat
    PROVE  {ClaimOf[Corrections[i]] : i \in DOMAIN Corrections} = AcceptedClaims
<1> DEFINE first == FirstDecided
           rows1 == Corrections
<1>1. first \subseteq Accepted /\ first \in SUBSET Reports /\ Accepted \in SUBSET Reports
  BY DEF FirstDecided, Accepted
<1>2. IsFiniteSet(first)
  BY <1>1, FS_Subset
<1>3. rows1 = CHOOSE s \in [1..Cardinality(first) -> first] : InOrder(s)
  BY DEF Corrections, InOrder
<1>4. ASSUME NEW rep \in Accepted PROVE \E m \in first : ClaimOf[m] = ClaimOf[rep]
  <2> DEFINE same == {other \in Accepted : ClaimOf[other] = ClaimOf[rep]}
  <2>1. same \in SUBSET Reports /\ same # {}
    BY <1>1
  <2>2. PICK m \in same : \A other \in same \ {m} : Earlier(m, other)
    BY <2>1, FirstOf
  <2>3. m \in first
    BY <2>2 DEF FirstDecided
  <2>4. QED BY <2>2, <2>3
<1> HIDE DEF first, rows1
<1>5. \E s \in [1..Cardinality(first) -> first] : InOrder(s)
  BY <1>1, <1>2, OrderExists
<1>6. rows1 \in [1..Cardinality(first) -> first] /\ InOrder(rows1)
  BY <1>3, <1>5
<1>7. \A rep \in first : \E i \in DOMAIN rows1 : rows1[i] = rep
  BY <1>1, <1>2, <1>6, OrderCovers
<1>8. {ClaimOf[rows1[i]] : i \in DOMAIN rows1} = AcceptedClaims
  <2>1. \A i \in DOMAIN rows1 : rows1[i] \in Accepted
    BY <1>1, <1>6
  <2>2. \A rep \in Accepted : \E i \in DOMAIN rows1 : ClaimOf[rows1[i]] = ClaimOf[rep]
    BY <1>4, <1>7
  <2>3. QED BY <2>1, <2>2 DEF AcceptedClaims
<1>9. QED BY <1>8 DEF rows1

\* A single run takes undecided reports only, and the rows are of reports that were accepted.
TriageHolds(r) ==
    /\ RunTyped /\ DOMAIN decisions = Reports /\ second \in Nat /\ run[r].at \in Nat
    /\ \A rep \in Reports : decisions[rep].at \in Nat
    /\ IsFiniteSet(Accepted)
    /\ \A rep \in run[r].batch : decisions[rep] = Undecided
    /\ run[r].pc = "read" => /\ run[r].rep \in Reports /\ run[r].rep \notin run[r].batch
                             /\ decisions[run[r].rep] = Undecided
    /\ {ClaimOf[rows[i]] : i \in DOMAIN rows} \subseteq AcceptedClaims

\* A decision on an undecided report leaves the other decisions, and what was accepted, as they are.
LEMMA DecidesOnce ==
    ASSUME DOMAIN decisions = Reports, \A rep \in Reports : decisions[rep].at \in Nat, IsFiniteSet(Accepted),
           NEW rep \in Reports, decisions[rep] = Undecided, NEW outcome, NEW at \in Nat, Decided(rep, outcome, at)
    PROVE  /\ DOMAIN decisions' = Reports /\ \A other \in Reports : decisions'[other].at \in Nat
           /\ IsFiniteSet(Accepted') /\ AcceptedClaims \subseteq AcceptedClaims'
           /\ \A other \in Reports : other # rep => decisions'[other] = decisions[other]
<1>1. decisions' = [decisions EXCEPT ![rep] = [outcome |-> outcome, at |-> at]]
  BY DEF Decided
<1>2. /\ DOMAIN decisions' = Reports /\ decisions'[rep] = [outcome |-> outcome, at |-> at]
      /\ \A other \in Reports : other # rep => decisions'[other] = decisions[other]
  BY <1>1
<1>3. \A other \in Reports : decisions'[other].at \in Nat
  BY <1>2
<1>4. rep \notin Accepted
  BY DEF Accepted, Undecided
<1>5. Accepted \subseteq Accepted' /\ Accepted' \subseteq Accepted \cup {rep}
  BY <1>2, <1>4 DEF Accepted
<1>6. IsFiniteSet(Accepted')
  <2>1. IsFiniteSet(Accepted \cup {rep})
    BY FS_AddElement
  <2>2. QED BY <1>5, <2>1, FS_Subset
<1>7. AcceptedClaims \subseteq AcceptedClaims'
  BY <1>5 DEF AcceptedClaims
<1>8. QED BY <1>2, <1>3, <1>6, <1>7

RowClaims == {ClaimOf[rows[i]] : i \in DOMAIN rows}

LEMMA TriageStep ==
    ASSUME NEW r, Runners = {r}, TriageHolds(r), [TriageNext]_triageVars
    PROVE  TriageHolds(r)' /\ RowClaims \subseteq RowClaims'
<1>1. /\ RunTyped /\ DOMAIN decisions = Reports /\ second \in Nat /\ run[r].at \in Nat
      /\ \A rep \in Reports : decisions[rep].at \in Nat
      /\ IsFiniteSet(Accepted)
      /\ \A rep \in run[r].batch : decisions[rep] = Undecided
      /\ run[r].pc = "read" => /\ run[r].rep \in Reports /\ run[r].rep \notin run[r].batch
                               /\ decisions[run[r].rep] = Undecided
      /\ RowClaims \subseteq AcceptedClaims
  BY DEF TriageHolds, RowClaims
<1>2. DOMAIN run = {r} /\ run[r].batch \subseteq Reports /\ filed \subseteq Reports
  BY <1>1 DEF RunTyped
<1>3. RunTyped'
  BY <1>1, RunsTyped
<1> DEFINE RunHolds == /\ run'[r].at \in Nat
                       /\ \A rep \in run'[r].batch : decisions'[rep] = Undecided
                       /\ run'[r].pc = "read" => /\ run'[r].rep \in Reports /\ run'[r].rep \notin run'[r].batch
                                                 /\ decisions'[run'[r].rep] = Undecided
           DecisionsHold == /\ DOMAIN decisions' = Reports /\ \A rep \in Reports : decisions'[rep].at \in Nat
                            /\ IsFiniteSet(Accepted') /\ AcceptedClaims \subseteq AcceptedClaims'
<1>4. ASSUME RunHolds, DecisionsHold, second' \in Nat, rows' = rows
      PROVE  TriageHolds(r)' /\ RowClaims \subseteq RowClaims'
  <2>1. RowClaims' = RowClaims
    BY <1>4 DEF RowClaims
  <2>2. RowClaims' \subseteq AcceptedClaims'
    BY <1>1, <1>4, <2>1
  <2>3. QED BY <1>3, <1>4, <2>1, <2>2 DEF TriageHolds, RowClaims
<1>5. ASSUME decisions' = decisions PROVE DecisionsHold
  BY <1>1, <1>5 DEF Accepted, AcceptedClaims
<1>6. ASSUME decisions' = decisions, run' = run PROVE RunHolds
  BY <1>1, <1>6
<1>7. NoRun.batch = {} /\ NoRun.pc = "idle" /\ NoRun.at = 0
  BY DEF NoRun
<1> HIDE DEF RunHolds, DecisionsHold
<1>8. CASE File \/ TriageSecond \/ UNCHANGED triageVars
  <2>1. decisions' = decisions /\ run' = run /\ rows' = rows /\ second' \in Nat
    BY <1>1, <1>8 DEF File, TriageSecond, triageVars
  <2>2. QED BY <1>4, <1>5, <1>6, <2>1
<1>9. CASE Start(r)
  <2>1. /\ decisions' = decisions /\ rows' = rows /\ second' = second
        /\ run'[r] = [NoRun EXCEPT !.pc = "next", !.batch = Pending]
    BY <1>2, <1>9 DEF Start
  <2>2. run'[r].pc = "next" /\ run'[r].batch = Pending /\ run'[r].at = 0
    BY <2>1 DEF NoRun
  <2>3. \A rep \in Pending : decisions'[rep] = Undecided
    BY <2>1 DEF Pending
  <2>4. RunHolds
    BY <2>2, <2>3 DEF RunHolds
  <2>5. QED BY <1>1, <1>4, <1>5, <2>1, <2>4
<1>10. CASE Rebuild(r)
  <2>1. decisions' = decisions /\ rows' = Corrections /\ second' = second /\ run'[r] = NoRun
    BY <1>2, <1>10 DEF Rebuild
  <2>2. RunHolds /\ DecisionsHold
    BY <1>5, <1>7, <2>1 DEF RunHolds
  <2>3. RowClaims' = AcceptedClaims
    BY <1>1, <2>1, CorrectionsCover DEF RowClaims
  <2>4. RowClaims' \subseteq AcceptedClaims' /\ RowClaims \subseteq RowClaims'
    BY <1>1, <2>2, <2>3 DEF DecisionsHold
  <2>5. QED BY <1>1, <1>3, <2>1, <2>2, <2>4 DEF TriageHolds, RowClaims, RunHolds, DecisionsHold
<1>11. CASE LedgerRefused(r)
  <2> DEFINE rep == OldestPending(r)
  <2>1. /\ run[r].batch # {} /\ Decided(rep, "owner_queue", second) /\ rows' = rows /\ second' = second
        /\ run' = [run EXCEPT ![r].batch = @ \ {rep}] /\ run[r].pc = "next"
    BY <1>11 DEF LedgerRefused, Queued
  <2>2. rep \in run[r].batch
    BY <1>1, <1>2, <2>1, OldestIs
  <2>3. /\ DecisionsHold /\ \A other \in Reports : other # rep => decisions'[other] = decisions[other]
    BY <1>1, <1>2, <2>1, <2>2, DecidesOnce DEF DecisionsHold
  <2>4. run'[r].batch = run[r].batch \ {rep} /\ run'[r].pc = "next" /\ run'[r].at = run[r].at
    BY <1>2, <2>1
  <2>5. RunHolds
    BY <1>1, <1>2, <2>3, <2>4 DEF RunHolds
  <2>6. QED BY <1>1, <1>4, <2>1, <2>3, <2>5
<1>12. CASE Admitted(r)
  <2> DEFINE rep == OldestPending(r)
  <2>1. /\ run[r].batch # {} /\ decisions' = decisions /\ rows' = rows /\ second' = second
        /\ run' = [run EXCEPT ![r] = [NoRun EXCEPT !.pc = "read", !.batch = run[r].batch \ {rep}, !.rep = rep,
                                                   !.attempt = Len(attempts) + 1, !.at = second]]
    BY <1>12 DEF Admitted
  <2>2. rep \in run[r].batch
    BY <1>1, <1>2, <2>1, OldestIs
  <2>3. run'[r].batch = run[r].batch \ {rep} /\ run'[r].rep = rep /\ run'[r].at = second
    BY <1>2, <2>1 DEF NoRun
  <2>4. RunHolds
    BY <1>1, <1>2, <2>1, <2>2, <2>3 DEF RunHolds
  <2>5. QED BY <1>1, <1>4, <1>5, <2>1, <2>4
<1>13. CASE \E vote \in {"proposed", "current", "neither", "failed"} : Reading(r, vote)
  <2>1. decisions' = decisions /\ rows' = rows /\ second' = second
    BY <1>13 DEF Reading
  <2>2. run'[r].batch = run[r].batch /\ run'[r].rep = run[r].rep /\ run'[r].at = run[r].at /\ run[r].pc = "read"
    BY <1>2, <1>13 DEF Reading
  <2>3. RunHolds
    BY <1>1, <2>1, <2>2 DEF RunHolds
  <2>4. QED BY <1>1, <1>4, <1>5, <2>1, <2>3
<1>14. ASSUME NEW outcome, Conclude(r, outcome), run[r].pc = "read", rows' = rows, second' = second
       PROVE  TriageHolds(r)' /\ RowClaims \subseteq RowClaims'
  <2> DEFINE rep == run[r].rep
  <2>1. Decided(rep, outcome, run[r].at) /\ run' = [run EXCEPT ![r] = [NoRun EXCEPT !.pc = "next", !.batch = run[r].batch]]
    BY <1>14 DEF Conclude
  <2>2. rep \in Reports /\ rep \notin run[r].batch /\ decisions[rep] = Undecided
    BY <1>1, <1>14
  <2>3. DecisionsHold /\ \A other \in Reports : other # rep => decisions'[other] = decisions[other]
    BY <1>1, <2>1, <2>2, DecidesOnce DEF DecisionsHold
  <2>4. run'[r].batch = run[r].batch /\ run'[r].pc = "next" /\ run'[r].at = 0
    BY <1>2, <2>1 DEF NoRun
  <2>5. RunHolds
    BY <1>1, <1>2, <2>2, <2>3, <2>4 DEF RunHolds
  <2>6. QED BY <1>1, <1>4, <1>14, <2>3, <2>5
<1>15. ASSUME NEW pc, LeaveRun(r, pc), pc # "read", rows' = rows, second' = second
       PROVE  TriageHolds(r)' /\ RowClaims \subseteq RowClaims'
  <2>1. decisions' = decisions /\ run' = [run EXCEPT ![r] = [NoRun EXCEPT !.pc = pc, !.batch = run[r].batch]]
    BY <1>15 DEF LeaveRun
  <2>2. run'[r].batch = run[r].batch /\ run'[r].pc = pc /\ run'[r].at = 0
    BY <1>2, <2>1 DEF NoRun
  <2>3. RunHolds
    BY <1>1, <1>15, <2>1, <2>2 DEF RunHolds
  <2>4. QED BY <1>1, <1>4, <1>5, <1>15, <2>1, <2>3
<1>16. CASE Counted(r)
  BY <1>14, <1>15, <1>16 DEF Counted
<1>17. CASE Unregistered(r) \/ ReaderRefused(r) \/ ReadingFailed(r) \/ Limited(r)
  BY <1>14, <1>15, <1>17 DEF Unregistered, ReaderRefused, ReadingFailed, Limited
<1>18. CASE Killed(r)
  <2>1. decisions' = decisions /\ rows' = rows /\ second' = second /\ run'[r] = NoRun
    BY <1>2, <1>18 DEF Killed
  <2>2. RunHolds
    BY <1>7, <2>1 DEF RunHolds
  <2>3. QED BY <1>1, <1>4, <1>5, <2>1, <2>2
<1>19. File \/ TriageSecond \/ UNCHANGED triageVars \/ Work(r) \/ Killed(r)
  BY DEF TriageNext
<1>20. QED BY <1>8, <1>9, <1>10, <1>11, <1>12, <1>13, <1>16, <1>17, <1>18, <1>19 DEF Work

\* As long as one run at a time works on the reports: it decides undecided ones only, and each rebuild has
\* a row for every claim that was ever accepted, so that no correction is lost from the ledger
\* (triage_reports.py:383-401).
THEOREM ClaimsStay ==
    ASSUME NEW r, Runners = {r}
    PROVE  TriageSpec => ClaimsKept
<1>1. TriageInit => TriageHolds(r)
  <2> SUFFICES ASSUME TriageInit PROVE TriageHolds(r)
    OBVIOUS
  <2>1. /\ filed = FiledBefore /\ decisions = [rep \in Reports |-> Undecided] /\ rows = <<>>
        /\ run = [q \in Runners |-> NoRun] /\ second = 0 /\ run[r] = NoRun
    BY DEF TriageInit
  <2>2. RunTyped
    BY <2>1, TriageAssumption DEF RunTyped, NoRun
  <2>3. Accepted = {}
    BY <2>1 DEF Accepted, Undecided
  <2>4. IsFiniteSet(Accepted)
    BY <2>3, FS_EmptySet
  <2>5. \A rep \in Reports : decisions[rep].at \in Nat
    BY <2>1 DEF Undecided
  <2>6. run[r].batch = {} /\ run[r].pc = "idle" /\ run[r].at = 0
    BY <2>1 DEF NoRun
  <2>7. {ClaimOf[rows[i]] : i \in DOMAIN rows} = {}
    BY <2>1
  <2>8. QED BY <2>1, <2>2, <2>4, <2>5, <2>6, <2>7 DEF TriageHolds
<1> DEFINE ClaimsStand == {ClaimOf[rows[i]] : i \in DOMAIN rows} \subseteq {ClaimOf[rows'[i]] : i \in DOMAIN rows'}
<1>2. TriageHolds(r) /\ [TriageNext]_triageVars => TriageHolds(r)' /\ ClaimsStand
  BY TriageStep DEF RowClaims
<1> HIDE DEF ClaimsStand
<1>3. [][ClaimsStand]_triageVars => ClaimsKept
  BY PTL DEF ClaimsKept, ClaimsStand
<1>4. QED BY <1>1, <1>2, <1>3, PTL DEF TriageSpec

----------------------------------------------------------------------------
(* What files and pages weigh *)

Weighed == [bytes : Nat]
Weights(files) == [i \in DOMAIN files |-> files[i].bytes]
Weighs(files) == \A i \in DOMAIN files : files[i].bytes \in Nat

\* A fold of a sequence's bytes, over some of its positions.
Folds(h, s, D) == h = [T \in SUBSET D |->
    IF T = {} THEN 0 ELSE s[Picked(T)].bytes + h[T \ {Picked(T)}]]

\* It is a sum.
LEMMA FoldsAreSums ==
    ASSUME NEW s, NEW D \in SUBSET DOMAIN s, NEW h
    PROVE  Folds(h, s, D) <=> Sums(h, Weights(s), D)
<1>1. ASSUME NEW T \in SUBSET D, T # {} PROVE Weights(s)[Picked(T)] = s[Picked(T)].bytes
  BY <1>1 DEF Weights, Picked
<1>2. [T \in SUBSET D |-> IF T = {} THEN 0 ELSE s[Picked(T)].bytes + h[T \ {Picked(T)}]]
      = [T \in SUBSET D |-> IF T = {} THEN 0 ELSE Weights(s)[Picked(T)] + h[T \ {Picked(T)}]]
  BY <1>1
<1>3. QED BY <1>2 DEF Sums, Folds

\* The bytes of a sequence are the sum over its positions.
LEMMA BytesAreSum ==
    ASSUME NEW S, NEW s \in Seq(S)
    PROVE  BytesOf(s) = SumOf(Weights(s), DOMAIN s)
<1>1. IsFiniteSet(DOMAIN s)
  BY FS_Interval
<1>2. PICK h : Sums(h, Weights(s), DOMAIN s) /\ SumOf(Weights(s), DOMAIN s) = h[DOMAIN s]
  BY <1>1, SumIs
<1>3. BytesOf(s) = (CHOOSE f : Folds(f, s, DOMAIN s))[DOMAIN s]
  BY DEF BytesOf, FoldSeq, FoldFunction, FoldFunctionOnSet, MapThenFoldSet, Picked, Folds
<1>4. Folds(CHOOSE f : Folds(f, s, DOMAIN s), s, DOMAIN s)
  BY <1>2, FoldsAreSums
<1>5. PICK f : Sums(f, Weights(s), DOMAIN s) /\ BytesOf(s) = f[DOMAIN s]
  BY <1>3, <1>4, FoldsAreSums
<1>6. \A U \in SUBSET (DOMAIN s \cap DOMAIN s) : f[U] = h[U]
  <2>1. PICK D, g : D = DOMAIN s /\ g = Weights(s)
    OBVIOUS
  <2>2. \A U \in SUBSET (D \cap D) : f[U] = h[U]
    BY <2>1, <1>1, <1>2, <1>5, SumsAgree
  <2>3. QED BY <2>1, <2>2
<1>7. QED BY <1>2, <1>5, <1>6

\* A sum is over what its terms are there.
LEMMA SumOfPart ==
    ASSUME NEW g, NEW E, IsFiniteSet(E)
    PROVE  SumOf([y \in E |-> g[y]], E) = SumOf(g, E)
<1> DEFINE e == [y \in E |-> g[y]]
<1>1. \A T \in SUBSET E : T # {} => e[Picked(T)] = g[Picked(T)]
  BY DEF Picked
<1>2. PICK h : Sums(h, g, E) /\ SumOf(g, E) = h[E]
  BY SumIs
<1>3. PICK f : Sums(f, e, E) /\ SumOf(e, E) = f[E]
  BY SumIs
<1>4. Sums(f, g, E)
  <2>1. [T \in SUBSET E |-> IF T = {} THEN 0 ELSE e[Picked(T)] + f[T \ {Picked(T)}]]
        = [T \in SUBSET E |-> IF T = {} THEN 0 ELSE g[Picked(T)] + f[T \ {Picked(T)}]]
    BY <1>1
  <2>2. QED BY <2>1, <1>3 DEF Sums
<1>5. \A U \in SUBSET (E \cap E) : f[U] = h[U]
  BY <1>2, <1>4, SumsAgree
<1>6. QED BY <1>2, <1>3, <1>5

\* Whatever has bytes: what a sequence of it weighs, and with one more.
LEMMA BytesOfMore ==
    ASSUME NEW S, \A x \in S : x.bytes \in Nat, NEW s \in Seq(S)
    PROVE  /\ BytesOf(s) \in Nat
           /\ s = <<>> => BytesOf(s) = 0
           /\ \A x \in S : BytesOf(Append(s, x)) = BytesOf(s) + x.bytes
<1>1. IsFiniteSet(1..Len(s)) /\ DOMAIN s = 1..Len(s) /\ Len(s) \in Nat
  BY FS_Interval
<1>2. Weights(s) \in [1..Len(s) -> Nat]
  BY <1>1 DEF Weights
<1>3. BytesOf(s) = SumOf(Weights(s), 1..Len(s))
  BY <1>1, BytesAreSum
<1>4. BytesOf(s) \in Nat /\ (s = <<>> => BytesOf(s) = 0)
  <2>1. PICK g : g = Weights(s)
    OBVIOUS
  <2>2. PICK D : D = 1..Len(s)
    OBVIOUS
  <2>3. SumOf(g, D) \in Nat /\ (D = {} => SumOf(g, D) = 0)
    BY <2>1, <2>2, <1>1, <1>2, SumRemove, SumPicked
  <2>4. s = <<>> => D = {}
    BY <1>1, <2>2
  <2>5. QED BY <2>1, <2>2, <2>3, <2>4, <1>3
<1>5. ASSUME NEW x \in S PROVE BytesOf(Append(s, x)) = BytesOf(s) + x.bytes
  <2>1. /\ Append(s, x) \in Seq(S) /\ DOMAIN Append(s, x) = 1..(Len(s) + 1)
        /\ \A i \in 1..Len(s) : Append(s, x)[i] = s[i]
        /\ Append(s, x)[Len(s) + 1] = x
    BY <1>1
  <2>2. PICK t : t = Append(s, x)
    OBVIOUS
  <2>3. PICK g, f, D, n : g = Weights(t) /\ f = Weights(s) /\ D = 1..(Len(s) + 1) /\ n = Len(s) + 1
    OBVIOUS
  <2>4. g \in [D -> Nat] /\ IsFiniteSet(D) /\ g[n] = x.bytes /\ n \in D /\ D \ {n} = 1..Len(s)
    <3>1. IsFiniteSet(D)
      BY <2>3, <1>1, FS_Interval
    <3>2. n \in D /\ D \ {n} = 1..Len(s) /\ D = DOMAIN t
      BY <2>1, <2>2, <2>3, <1>1
    <3>3. \A i \in D : t[i] \in S
      BY <2>1, <2>2, <2>3, <1>1, <3>2
    <3>4. \A i \in D : t[i].bytes \in Nat
      BY <3>3
    <3>5. g = [i \in D |-> t[i].bytes] /\ t[n] = x
      BY <2>1, <2>2, <2>3, <3>2 DEF Weights
    <3>6. QED BY <3>1, <3>2, <3>4, <3>5
  <2>5. \A y \in 1..Len(s) : g[y] = f[y]
    BY <2>1, <2>2, <2>3, <1>1 DEF Weights
  <2>6. SumOf(g, D) = g[n] + SumOf(g, D \ {n}) /\ SumOf(g, D \ {n}) \in Nat
    BY <2>4, SumRemove
  <2>7. SumOf(g, D \ {n}) = SumOf(f, D \ {n})
    <3>1. PICK E : E = D \ {n}
      OBVIOUS
    <3>2. [y \in E |-> g[y]] \in [E -> Nat] /\ f \in [E -> Nat] /\ IsFiniteSet(E) /\ E \in SUBSET E
      BY <3>1, <2>3, <2>4, <1>1, <1>2
    <3>3. PICK e : e = [y \in E |-> g[y]]
      OBVIOUS
    <3>4. SumOf(f, E) = SumOf(e, E)
      BY <3>2, <3>3, <3>1, <2>4, <2>5, SumSame
    <3>5. SumOf(e, E) = SumOf(g, E)
      BY <3>3, <3>2, SumOfPart
    <3>6. QED BY <3>1, <3>4, <3>5
  <2>8. BytesOf(t) = SumOf(g, D)
    BY <2>1, <2>2, <2>3, BytesAreSum
  <2>9. SumOf(f, D \ {n}) = BytesOf(s)
    BY <2>3, <2>4, <1>3
  <2>10. QED BY <2>2, <2>4, <2>6, <2>7, <2>8, <2>9, <1>4
<1>6. QED BY <1>4, <1>5

\* A sequence weighs what its parts weigh.
LEMMA BytesOfJoined ==
    ASSUME NEW S, \A x \in S : x.bytes \in Nat, NEW s \in Seq(S), NEW t \in Seq(S)
    PROVE  BytesOf(s \o t) = BytesOf(s) + BytesOf(t)
<1> DEFINE Begin(k) == SubSeq(t, 1, k)
           Bad == {k \in 0..Len(t) : BytesOf(s \o Begin(k)) # BytesOf(s) + BytesOf(Begin(k))}
<1>1. ASSUME Bad # {} PROVE FALSE
  <2>1. PICK k \in Bad : \A n \in Bad : k <= n
    <3>1. Bad \in SUBSET Nat
      OBVIOUS
    <3>2. QED BY <3>1, <1>1, LeastOf
  <2>2. k \in 0..Len(t) /\ BytesOf(s \o Begin(k)) # BytesOf(s) + BytesOf(Begin(k))
    OBVIOUS
  <2>3. CASE k = 0
    <3>1. Begin(k) = <<>> /\ s \o Begin(k) = s
      BY <2>3
    <3>2. BytesOf(<<>>) = 0 /\ BytesOf(s) \in Nat
      <4>1. PICK e \in Seq(S) : e = <<>>
        BY EmptySeq
      <4>2. BytesOf(e) = 0
        BY <4>1, BytesOfMore
      <4>3. BytesOf(s) \in Nat
        BY BytesOfMore
      <4>4. QED BY <4>1, <4>2, <4>3
    <3>3. BytesOf(s \o Begin(k)) = BytesOf(s) /\ BytesOf(Begin(k)) = 0
      BY <3>1, <3>2
    <3> HIDE DEF Begin
    <3>4. QED BY <3>2, <3>3, <2>2
  <2>4. CASE k # 0
    <3>1. k - 1 \in 0..Len(t) /\ k \in 1..Len(t)
      BY <2>2, <2>4
    <3>2. BytesOf(s \o Begin(k - 1)) = BytesOf(s) + BytesOf(Begin(k - 1))
      BY <3>1, <2>1
    <3>3. Begin(k - 1) \in Seq(S) /\ t[k] \in S /\ Begin(k) = Append(Begin(k - 1), t[k])
      BY <3>1
    <3>4. s \o Begin(k) = Append(s \o Begin(k - 1), t[k]) /\ s \o Begin(k - 1) \in Seq(S)
      <4> HIDE DEF Begin
      <4>1. PICK u, e : u = Begin(k - 1) /\ e = t[k]
        OBVIOUS
      <4>2. u \in Seq(S) /\ e \in S /\ Append(u, e) = u \o <<e>> /\ <<e>> \in Seq(S) /\ s \o u \in Seq(S)
        <5>1. u \in Seq(S) /\ e \in S
          BY <4>1, <3>3
        <5>2. Append(u, e) = u \o <<e>>
          BY <5>1, AppendIsConcat
        <5>3. s \o u \in Seq(S)
          BY <5>1, ConcatProperties
        <5>4. <<e>> \in Seq(S)
          BY <5>1
        <5>5. QED BY <5>1, <5>2, <5>3, <5>4
      <4>3. Append(s \o u, e) = (s \o u) \o <<e>>
        BY <4>2, AppendIsConcat
      <4>4. (s \o u) \o <<e>> = s \o (u \o <<e>>)
        BY <4>2, ConcatAssociative
      <4>5. QED BY <4>1, <4>2, <4>3, <4>4, <3>3
    <3> HIDE DEF Begin
    <3>5. /\ BytesOf(Begin(k)) = BytesOf(Begin(k - 1)) + t[k].bytes
          /\ BytesOf(s \o Begin(k)) = BytesOf(s \o Begin(k - 1)) + t[k].bytes
      BY <3>3, <3>4, BytesOfMore
    <3>6. BytesOf(s) \in Nat /\ BytesOf(Begin(k - 1)) \in Nat /\ t[k].bytes \in Nat
      BY <3>3, BytesOfMore
    <3>7. QED BY <2>2, <3>2, <3>5, <3>6
  <2>5. QED BY <2>3, <2>4
<1>2. Begin(Len(t)) = t /\ Len(t) \in 0..Len(t)
  OBVIOUS
<1>3. QED BY <1>1, <1>2

\* All but the last of a sequence that got one more.
LEMMA FrontOfAppend ==
    ASSUME NEW S, NEW s \in Seq(S), NEW x \in S
    PROVE  SubSeq(Append(s, x), 1, Len(Append(s, x)) - 1) = s
OBVIOUS

\* A sequence weighs what comes up to a place and what comes after.
LEMMA BytesOfSplit ==
    ASSUME NEW S, \A x \in S : x.bytes \in Nat, NEW s \in Seq(S), NEW i \in 0..Len(s)
    PROVE  /\ SubSeq(s, 1, i) \in Seq(S) /\ SubSeq(s, i + 1, Len(s)) \in Seq(S)
           /\ BytesOf(s) = BytesOf(SubSeq(s, 1, i)) + BytesOf(SubSeq(s, i + 1, Len(s)))
<1>1. SubSeq(s, 1, i) \in Seq(S) /\ SubSeq(s, i + 1, Len(s)) \in Seq(S)
  OBVIOUS
<1>2. s = SubSeq(s, 1, i) \o SubSeq(s, i + 1, Len(s))
  <2>1. SubSeq(s, 1, i) \o SubSeq(s, i + 1, Len(s)) = SubSeq(s, 1, Len(s))
    <3>1. Len(s) \in Nat /\ 1 \in 1..(Len(s) + 1) /\ i \in (1 - 1)..Len(s) /\ Len(s) \in i..Len(s)
      OBVIOUS
    <3>2. QED BY <3>1, ConcatAdjacentSubSeq
  <2>2. QED BY <2>1, SubSeqFull
<1>3. QED BY <1>1, <1>2, BytesOfJoined

\* What is taken out, and what takes another's place.
LEMMA BytesOfOthers ==
    ASSUME NEW S, \A x \in S : x.bytes \in Nat, NEW s \in Seq(S), NEW i \in DOMAIN s
    PROVE  /\ RemoveAt(s, i) \in Seq(S) /\ Len(RemoveAt(s, i)) = Len(s) - 1
           /\ BytesOf(RemoveAt(s, i)) + s[i].bytes = BytesOf(s)
           /\ \A x \in S : BytesOf([s EXCEPT ![i] = x]) = BytesOf(RemoveAt(s, i)) + x.bytes
<1> DEFINE a == SubSeq(s, 1, i - 1)
           b == SubSeq(s, i + 1, Len(s))
<1>1. /\ a \in Seq(S) /\ b \in Seq(S) /\ RemoveAt(s, i) = a \o b /\ s[i] \in S
      /\ Len(a) = i - 1 /\ Len(b) = Len(s) - i
  <2>1. i \in 1..Len(s) /\ Len(s) \in Nat /\ s[i] \in S
    OBVIOUS
  <2>2. RemoveAt(s, i) = a \o b
    BY DEF RemoveAt
  <2>3. a \in Seq(S) /\ Len(a) = i - 1
    BY <2>1
  <2>4. b \in Seq(S) /\ Len(b) = Len(s) - i
    BY <2>1
  <2>5. QED BY <2>1, <2>2, <2>3, <2>4
<1>2. BytesOf(RemoveAt(s, i)) = BytesOf(a) + BytesOf(b) /\ BytesOf(a) \in Nat /\ BytesOf(b) \in Nat
  <2> HIDE DEF a, b
  <2>1. QED BY <1>1, BytesOfJoined, BytesOfMore
<1>3. ASSUME NEW x \in S PROVE BytesOf([s EXCEPT ![i] = x]) = BytesOf(a) + BytesOf(b) + x.bytes
  <2>1. /\ \A j \in 1..Len(a) : a[j] = s[j]
        /\ \A j \in 1..Len(b) : b[j] = s[i + j]
    <3>1. i \in 1..Len(s) /\ Len(s) \in Nat
      OBVIOUS
    <3>2. \A j \in 1..Len(a) : a[j] = s[j]
      BY <3>1, <1>1
    <3>3. \A j \in 1..Len(b) : b[j] = s[i + j]
      <4>1. i + 1 \in Int /\ Len(s) \in Int /\ \A j \in (i + 1)..Len(s) : s[j] \in S
        BY <3>1, ElementOfSeq
      <4>2. \A j \in 1..(Len(s) - (i + 1) + 1) : b[j] = s[i + 1 + j - 1]
        BY <4>1, SubSeqProperties
      <4>3. Len(s) - (i + 1) + 1 = Len(b) /\ \A j \in 1..Len(b) : i + 1 + j - 1 = i + j
        <5> HIDE DEF b
        <5>1. Len(b) = Len(s) - i
          BY <1>1
        <5>2. QED BY <5>1, <3>1
      <4>4. QED BY <4>2, <4>3
    <3>4. QED BY <3>2, <3>3
  <2> HIDE DEF a, b
  <2>0. [s EXCEPT ![i] = x] = Append(a, x) \o b
    <3>1. PICK n, m : n = [s EXCEPT ![i] = x] /\ m = Append(a, x) \o b
      OBVIOUS
    <3>2. /\ n \in Seq(S) /\ Len(n) = Len(s)
          /\ \A j \in 1..Len(s) : n[j] = IF j = i THEN x ELSE s[j]
      BY <3>1, ExceptSeq
    <3>3. /\ Append(a, x) \in Seq(S) /\ Len(Append(a, x)) = i
          /\ \A j \in 1..i : Append(a, x)[j] = IF j = i THEN x ELSE s[j]
      BY <1>1, <2>1, AppendProperties
    <3>4. /\ m \in Seq(S) /\ Len(m) = Len(s)
          /\ \A j \in 1..Len(s) : m[j] = IF j <= i THEN Append(a, x)[j] ELSE b[j - i]
      BY <3>1, <3>3, <1>1, ConcatProperties
    <3>5. \A j \in 1..Len(s) : m[j] = n[j]
      <4>1. ASSUME NEW j \in 1..Len(s), j <= i PROVE m[j] = n[j]
        <5>1. j \in 1..i /\ i \in Nat
          BY <4>1
        <5>2. m[j] = Append(a, x)[j]
          BY <4>1, <3>4
        <5>3. Append(a, x)[j] = IF j = i THEN x ELSE s[j]
          BY <5>1, <3>3
        <5>4. QED BY <5>2, <5>3, <3>2
      <4>2. ASSUME NEW j \in 1..Len(s), ~(j <= i) PROVE m[j] = n[j]
        <5>1. j - i \in 1..Len(b) /\ i + (j - i) = j
          BY <4>2, <1>1
        <5>2. b[j - i] = s[j] /\ j # i
          BY <5>1, <2>1, <4>2
        <5>3. QED BY <4>2, <5>2, <3>2, <3>4
      <4>3. QED BY <4>1, <4>2
    <3>6. QED BY <3>1, <3>2, <3>4, <3>5, SeqEqual
  <2>2. Append(a, x) \in Seq(S) /\ BytesOf(Append(a, x)) = BytesOf(a) + x.bytes /\ x.bytes \in Nat
    BY <1>1, BytesOfMore
  <2>3. BytesOf(Append(a, x) \o b) = BytesOf(Append(a, x)) + BytesOf(b)
    BY <1>1, <2>2, BytesOfJoined
  <2>4. BytesOf([s EXCEPT ![i] = x]) = BytesOf(Append(a, x) \o b)
    BY <2>0
  <2>5. QED BY <1>2, <2>2, <2>3, <2>4
<1>4. [s EXCEPT ![i] = s[i]] = s
  OBVIOUS
<1> HIDE DEF a, b
<1>5. s[i].bytes \in Nat
  BY <1>1
<1>6. BytesOf(s) = BytesOf(a) + BytesOf(b) + s[i].bytes
  BY <1>1, <1>3, <1>4
<1>7. RemoveAt(s, i) \in Seq(S) /\ Len(RemoveAt(s, i)) = Len(s) - 1
  BY <1>1
<1>8. QED BY <1>2, <1>3, <1>5, <1>6, <1>7

----------------------------------------------------------------------------
(* The caches behind pages and pictures: the inductive invariant *)

FileType == [name : Assets \cup {"temp"}, bytes : Nat, good : BOOLEAN]
\* A rendered page is of the asset it is kept under.
PageType == {p \in [key : Views, value : Assets, bytes : Nat] : p.value = p.key.asset}
ViewerType == [pc : {"free", "raster", "asset", "fetch", "have", "render"},
               view : Views \cup {NoView}, bytes : Assets \cup {NoView}]

CachesTypeOK ==
    /\ disk \in Seq(FileType) /\ rasters \in Seq(PageType)
    /\ viewer \in [Viewers -> ViewerType]

Locking == {"fetch", "have"}

\* What a thread knows where it is: room was made for what it fetches; what it has is whole.
Posted(t) ==
    /\ viewer[t].pc # "free" => viewer[t].view \in Views
    /\ viewer[t].pc \in {"raster", "render"} => viewer[t].view.view # 0
    /\ viewer[t].pc = "fetch" =>
         /\ disk # <<>> /\ disk[Len(disk)].bytes <= SizeOf[Asset(t)]
         /\ BytesOf(Front(disk)) + SizeOf[Asset(t)] <= CacheBytes
    /\ viewer[t].pc = "have" => Verified(Asset(t))
    /\ viewer[t].pc = "render" => viewer[t].bytes = Asset(t)

OneHolds == \A t, u \in Viewers : viewer[t].pc \in Locking /\ viewer[u].pc \in Locking => t = u

CachesInv ==
    /\ CachesTypeOK /\ CachesWithin /\ ShowsWhatIsNamed
    /\ OneHolds /\ \A t \in Viewers : Posted(t)

\* One thread moves; what others rely on stays when it leaves the directory alone or has the lock.
LEMMA OneThreadMoves ==
    ASSUME CachesInv, NEW t \in Viewers, NEW v \in ViewerType, viewer' = [viewer EXCEPT ![t] = v],
           disk' \in Seq(FileType), rasters' \in Seq(PageType),
           CachesWithin', ShowsWhatIsNamed', Posted(t)',
           (disk' = disk /\ v.pc \notin Locking) \/ \A u \in Viewers \ {t} : viewer[u].pc \notin Locking
    PROVE  CachesInv'
<1>1. /\ viewer' \in [Viewers -> ViewerType] /\ viewer'[t] = v
      /\ \A u \in Viewers \ {t} : viewer'[u] = viewer[u]
  BY DEF CachesInv, CachesTypeOK
<1>2. CachesTypeOK'
  BY <1>1 DEF CachesTypeOK
<1>3. OneHolds'
  BY <1>1 DEF CachesInv, OneHolds
<1>4. ASSUME NEW u \in Viewers PROVE Posted(u)'
  <2>1. CASE u = t
    BY <2>1
  <2>2. CASE u # t
    <3>1. viewer'[u] = viewer[u] /\ Posted(u)
      BY <1>1, <2>2 DEF CachesInv
    <3>2. CASE disk' = disk
      BY <3>1, <3>2 DEF Posted, Asset, Verified, Under
    <3>3. CASE viewer[u].pc \notin Locking
      BY <3>1, <3>3 DEF Posted, Asset, Locking
    <3>4. QED BY <2>2, <3>2, <3>3
  <2>3. QED BY <2>1, <2>2
<1>5. QED BY <1>2, <1>3, <1>4 DEF CachesInv

\* Whoever has the asset lock, or finds it free, is alone with the directory.
LEMMA LockAlone ==
    ASSUME CachesInv, NEW t \in Viewers, AssetLockFree \/ viewer[t].pc \in Locking
    PROVE  \A u \in Viewers \ {t} : viewer[u].pc \notin Locking
BY DEF CachesInv, OneHolds, AssetLockFree, Locking

\* Files and pages have bytes.
LEMMA FilesWeigh == /\ \A f \in FileType : f.bytes \in Nat
                    /\ \A p \in PageType : p.bytes \in Nat
BY DEF FileType, PageType

\* The files that stay make room for the asset.
LEMMA EvictionMakesRoom ==
    ASSUME NEW files \in Seq(FileType), NEW n \in Nat, n <= CacheBytes
    PROVE  Evicted(files, n) \in Seq(FileType) /\ BytesOf(Evicted(files, n)) + n <= CacheBytes
<1> DEFINE Room(i) == i = Len(files) \/ BytesOf(SubSeq(files, i + 1, Len(files))) + n <= CacheBytes
           Rooms == {i \in 0..Len(files) : Room(i)}
<1>1. Len(files) \in Nat
  OBVIOUS
<1>2. Rooms \in SUBSET Nat /\ Len(files) \in Rooms
  BY <1>1
<1>3. \E m \in Rooms : \A k \in Rooms : m <= k
  <2> HIDE DEF Rooms
  <2>1. QED BY <1>2, LeastOf
<1>4. PICK m : m = Min(Rooms) /\ m \in Rooms
  <2> HIDE DEF Rooms
  <2>1. QED BY <1>3 DEF Min
<1>5. m \in 0..Len(files) /\ Room(m)
  BY <1>4
<1>6. Evicted(files, n) = SubSeq(files, m + 1, Len(files))
  BY <1>4 DEF Evicted
<1>7. SubSeq(files, m + 1, Len(files)) \in Seq(FileType)
  BY <1>5, BytesOfSplit, FilesWeigh
<1>8. CASE m = Len(files)
  <2>1. SubSeq(files, m + 1, Len(files)) = <<>>
    BY <1>1, <1>8, SubSeqEmpty
  <2>2. BytesOf(SubSeq(files, m + 1, Len(files))) = 0
    BY <2>1, <1>7, BytesOfMore, FilesWeigh
  <2>3. QED BY <2>2, <1>6, <1>7
<1>9. QED BY <1>5, <1>6, <1>7, <1>8

\* What is left when a name is unlinked.
LEMMA UnlinkedFiles ==
    ASSUME CachesInv, NEW name
    PROVE  Unlinked(name) \in Seq(FileType)
<1>1. disk \in Seq(FileType)
  BY DEF CachesInv, CachesTypeOK
<1>2. CASE Under(name) = {}
  BY <1>1, <1>2 DEF Unlinked
<1>3. CASE Under(name) # {}
  <2>1. PICK i \in DOMAIN disk : Unlinked(name) = RemoveAt(disk, i)
    BY <1>3 DEF Unlinked, Under
  <2>2. QED BY <1>1, <2>1, BytesOfOthers, FilesWeigh
<1>4. QED BY <1>2, <1>3

\* The steps of a thread that touch neither the directory nor the pages.
LEMMA ThreadLooks ==
    ASSUME CachesInv, NEW t \in Viewers,
           Ask(t) \/ RasterMiss(t) \/ TooLarge(t) \/ ServeImage(t) \/ LinkOriginal(t) \/ RenderFails(t)
    PROVE  CachesInv'
<1>1. /\ UNCHANGED <<disk, rasters, rasterSize>>
      /\ viewer \in [Viewers -> ViewerType] /\ Posted(t) /\ CachesWithin
  BY DEF CachesInv, CachesTypeOK, Ask, RasterMiss, TooLarge, ServeImage, LinkOriginal, RenderFails
<1>2. disk' \in Seq(FileType) /\ rasters' \in Seq(PageType) /\ CachesWithin' /\ disk' = disk
  BY <1>1 DEF CachesInv, CachesTypeOK, CachesWithin
<1>3. \A name : Contents(name) # name => ~Verified(name)
  BY DEF Contents
<1> DEFINE v == viewer'[t]
<1>4. ShowsWhatIsNamed'
  <2>1. CASE ServeImage(t)
    BY <2>1, <1>1, <1>3 DEF ServeImage, ShowsWhatIsNamed, Posted, At, Asset
  <2>2. CASE ~ServeImage(t)
    <3>1. shown' = shown
      BY <2>2 DEF Ask, RasterMiss, TooLarge, LinkOriginal, RenderFails
    <3>2. QED BY <3>1 DEF CachesInv, ShowsWhatIsNamed
  <2>3. QED BY <2>1, <2>2
<1>5. v \in ViewerType /\ viewer' = [viewer EXCEPT ![t] = v] /\ v.pc \notin Locking /\ Posted(t)'
  <2>1. CASE Ask(t)
    <3>1. PICK w \in Views : v = [pc |-> IF w.view = 0 THEN "asset" ELSE "raster", view |-> w, bytes |-> NoView]
                              /\ viewer' = [viewer EXCEPT ![t] = v]
      BY <2>1, <1>1 DEF Ask
    <3>2. QED BY <3>1 DEF ViewerType, Posted, Locking
  <2>2. CASE RasterMiss(t)
    <3>1. viewer' = [viewer EXCEPT ![t] = v] /\ v = [viewer[t] EXCEPT !.pc = "asset"] /\ viewer[t].pc = "raster"
      BY <2>2, <1>1 DEF RasterMiss, Go, At
    <3>2. QED BY <3>1, <1>1 DEF ViewerType, Posted, Locking
  <2>3. CASE TooLarge(t) \/ ServeImage(t) \/ RenderFails(t)
    <3>1. viewer' = [viewer EXCEPT ![t] = v] /\ v = AtEase
      BY <2>3, <1>1 DEF TooLarge, ServeImage, RenderFails, Done
    <3>2. QED BY <3>1 DEF ViewerType, Posted, Locking, AtEase
  <2>4. CASE LinkOriginal(t)
    <3>1. /\ viewer' = [viewer EXCEPT ![t] = v] /\ viewer[t].pc = "have" /\ viewer[t].view.view # 0
          /\ v = [viewer[t] EXCEPT !.pc = "render", !.bytes = Contents(Asset(t))]
      BY <2>4, <1>1 DEF LinkOriginal, At
    <3>2. Contents(Asset(t)) = Asset(t) /\ Asset(t) \in Assets
      BY <3>1, <1>1, <1>3 DEF Posted, Asset, Assets
    <3>3. QED BY <3>1, <3>2, <1>1 DEF ViewerType, Posted, Locking, Asset
  <2>5. QED BY <2>1, <2>2, <2>3, <2>4
<1> HIDE DEF v
<1>6. QED BY <1>2, <1>4, <1>5, OneThreadMoves

\* A page that is kept moves to the end of the line.
LEMMA RasterHitKeeps ==
    ASSUME CachesInv, NEW t \in Viewers, RasterHit(t)
    PROVE  CachesInv'
<1>1. PICK i \in Hits(t) : /\ rasters' = Append(RemoveAt(rasters, i), rasters[i])
                           /\ shown' = [view |-> viewer[t].view, asset |-> rasters[i].value]
  BY DEF RasterHit
<1>2. /\ i \in DOMAIN rasters /\ rasters \in Seq(PageType) /\ rasters[i] \in PageType
      /\ rasters[i].key = viewer[t].view /\ rasters[i].value = rasters[i].key.asset
      /\ UNCHANGED <<disk, rasterSize>> /\ disk \in Seq(FileType) /\ viewer \in [Viewers -> ViewerType]
      /\ viewer' = [viewer EXCEPT ![t] = AtEase]
  BY <1>1 DEF CachesInv, CachesTypeOK, PageType, Hits, Key, RasterHit, Done
<1>3. /\ RemoveAt(rasters, i) \in Seq(PageType) /\ Len(RemoveAt(rasters, i)) = Len(rasters) - 1
      /\ BytesOf(RemoveAt(rasters, i)) + rasters[i].bytes = BytesOf(rasters)
  BY <1>2, BytesOfOthers, FilesWeigh
<1>4. PICK r, p : r = RemoveAt(rasters, i) /\ p = rasters[i]
  OBVIOUS
<1>5. /\ rasters' \in Seq(PageType) /\ Len(rasters') = Len(rasters) /\ BytesOf(rasters') = BytesOf(rasters)
  <2>1. r \in Seq(PageType) /\ p \in PageType /\ rasters' = Append(r, p)
    BY <1>1, <1>2, <1>3, <1>4
  <2>2. rasters' \in Seq(PageType) /\ Len(rasters') = Len(r) + 1
    BY <2>1, AppendProperties
  <2>3. BytesOf(rasters') = BytesOf(r) + p.bytes
    BY <2>1, BytesOfMore, FilesWeigh
  <2>4. Len(rasters) \in Nat
    BY <1>2
  <2>5. QED BY <2>2, <2>3, <2>4, <1>3, <1>4
<1>6. ShowsWhatIsNamed'
  BY <1>1, <1>2 DEF ShowsWhatIsNamed
<1>7. CachesWithin'
  BY <1>2, <1>5 DEF CachesInv, CachesWithin
<1>8. AtEase \in ViewerType /\ AtEase.pc \notin Locking /\ Posted(t)'
  BY <1>2 DEF AtEase, ViewerType, Locking, Posted
<1>9. QED BY <1>2, <1>5, <1>6, <1>7, <1>8, OneThreadMoves

\* The directory changes, the pages do not.
LEMMA DiskChanges ==
    ASSUME CachesInv, NEW t \in Viewers, NEW v \in ViewerType, viewer' = [viewer EXCEPT ![t] = v],
           UNCHANGED <<rasters, rasterSize, shown>>, disk' \in Seq(FileType), BytesOf(disk') <= CacheBytes,
           Posted(t)', AssetLockFree \/ viewer[t].pc \in Locking
    PROVE  CachesInv'
<1>1. rasters' \in Seq(PageType) /\ CachesWithin' /\ ShowsWhatIsNamed'
  BY DEF CachesInv, CachesTypeOK, CachesWithin, ShowsWhatIsNamed
<1>2. \A u \in Viewers \ {t} : viewer[u].pc \notin Locking
  BY LockAlone
<1>3. QED BY <1>1, <1>2, OneThreadMoves

\* A file that is whole is used, and counts as the newest.
LEMMA ReuseKeeps ==
    ASSUME CachesInv, NEW t \in Viewers, Reuse(t)
    PROVE  CachesInv'
<1>1. PICK i \in DOMAIN disk : /\ disk[i].name = Asset(t) /\ disk[i].good
                               /\ disk' = Append(RemoveAt(disk, i), disk[i])
  BY DEF Reuse, Under
<1>2. PICK f, g : f = RemoveAt(disk, i) /\ g = disk[i]
  OBVIOUS
<1>3. /\ f \in Seq(FileType) /\ g \in FileType /\ BytesOf(f) + g.bytes = BytesOf(disk)
      /\ disk' = Append(f, g)
  BY <1>1, <1>2, BytesOfOthers, FilesWeigh DEF CachesInv, CachesTypeOK
<1>4. /\ disk' \in Seq(FileType) /\ disk'[Len(f) + 1] = g /\ Len(disk') = Len(f) + 1 /\ Len(f) \in Nat
  BY <1>3, AppendProperties
<1>5. BytesOf(disk') = BytesOf(disk)
  BY <1>3, BytesOfMore, FilesWeigh
<1>6. BytesOf(disk') <= CacheBytes
  BY <1>5 DEF CachesInv, CachesWithin
<1> DEFINE v == [viewer[t] EXCEPT !.pc = "have"]
<1>7. /\ v \in ViewerType /\ viewer' = [viewer EXCEPT ![t] = v] /\ viewer'[t] = v
      /\ viewer[t].pc = "asset" /\ viewer[t].view \in Views /\ v.pc = "have" /\ v.view = viewer[t].view
  BY DEF Reuse, Go, At, CachesInv, CachesTypeOK, ViewerType, Posted
<1> HIDE DEF v
<1>8. Verified(Asset(t))'
  <2>1. Len(f) + 1 \in DOMAIN disk'
    BY <1>4
  <2>2. Asset(t)' = Asset(t) /\ g.name = Asset(t) /\ g.good
    BY <1>1, <1>2, <1>7 DEF Asset
  <2>3. QED BY <2>1, <2>2, <1>4 DEF Verified, Under
<1>9. Posted(t)'
  BY <1>7, <1>8 DEF Posted
<1>10. AssetLockFree /\ UNCHANGED <<rasters, rasterSize, shown>>
  BY DEF Reuse
<1>11. QED BY <1>4, <1>6, <1>7, <1>9, <1>10, DiskChanges

\* Room is made before anything is fetched.
LEMMA MakeRoomKeeps ==
    ASSUME CachesInv, NEW t \in Viewers, MakeRoom(t)
    PROVE  CachesInv'
<1> DEFINE temp == [name |-> "temp", bytes |-> 0, good |-> FALSE]
<1>1. /\ viewer[t] \in ViewerType /\ viewer[t].pc = "asset" /\ viewer[t].view \in Views
      /\ Asset(t) \in Assets /\ SizeOf[Asset(t)] \in Nat /\ SizeOf[Asset(t)] <= CacheBytes
      /\ CacheBytes \in Nat
  BY CachesAssumption DEF MakeRoom, At, CachesInv, CachesTypeOK, Posted, Asset, Assets
<1>2. PICK f : f = Evicted(Unlinked(Asset(t)), SizeOf[Asset(t)])
  OBVIOUS
<1>3. f \in Seq(FileType) /\ BytesOf(f) + SizeOf[Asset(t)] <= CacheBytes /\ BytesOf(f) \in Nat
  <2>1. Unlinked(Asset(t)) \in Seq(FileType)
    BY UnlinkedFiles
  <2>2. f \in Seq(FileType) /\ BytesOf(f) + SizeOf[Asset(t)] <= CacheBytes
    BY <2>1, <1>1, <1>2, EvictionMakesRoom
  <2>3. QED BY <2>2, BytesOfMore, FilesWeigh
<1>4. disk' = Append(f, temp) /\ temp \in FileType /\ temp.bytes = 0
  BY <1>2 DEF MakeRoom, FileType
<1> HIDE DEF temp
<1>5. /\ disk' \in Seq(FileType) /\ disk'[Len(disk')] = temp /\ disk' # <<>>
      /\ Len(disk') = Len(f) + 1
  BY <1>3, <1>4, AppendProperties
<1>6. Front(disk') = f
  <2>1. Front(disk') = SubSeq(disk', 1, Len(disk') - 1)
    BY DEF Front
  <2>2. QED BY <2>1, <1>3, <1>4, <1>5, FrontOfAppend
<1>7. BytesOf(disk') = BytesOf(f)
  BY <1>3, <1>4, BytesOfMore, FilesWeigh
<1> DEFINE v == [viewer[t] EXCEPT !.pc = "fetch"]
<1>8. /\ v \in ViewerType /\ viewer' = [viewer EXCEPT ![t] = v] /\ viewer'[t] = v
      /\ v.pc = "fetch" /\ v.view = viewer[t].view
  BY <1>1 DEF MakeRoom, Go, CachesInv, CachesTypeOK, ViewerType
<1> HIDE DEF v
<1>9. Posted(t)'
  <2>1. Asset(t)' = Asset(t)
    BY <1>8 DEF Asset
  <2>2. BytesOf(Front(disk'))+ SizeOf[Asset(t)] <= CacheBytes /\ disk'[Len(disk')].bytes <= SizeOf[Asset(t)]
    BY <1>1, <1>3, <1>4, <1>5, <1>6
  <2>3. QED BY <2>1, <2>2, <1>1, <1>5, <1>8 DEF Posted
<1>10. AssetLockFree /\ UNCHANGED <<rasters, rasterSize, shown>>
  BY DEF MakeRoom
<1>11. BytesOf(disk') <= CacheBytes
  BY <1>1, <1>3, <1>7
<1>12. QED BY <1>5, <1>8, <1>9, <1>10, <1>11, DiskChanges

\* The file that arrives is the last; what it may still weigh was made room for.
LEMMA ArrivingFile ==
    ASSUME CachesInv, NEW t \in Viewers, viewer[t].pc = "fetch"
    PROVE  /\ Front(disk) \in Seq(FileType) /\ BytesOf(Front(disk)) \in Nat
           /\ Temp \in FileType /\ Temp.bytes <= SizeOf[Asset(t)] /\ Asset(t) \in Assets
           /\ SizeOf[Asset(t)] \in Nat /\ CacheBytes \in Nat
           /\ BytesOf(Front(disk)) + SizeOf[Asset(t)] <= CacheBytes
           /\ Len(disk) \in DOMAIN disk /\ disk \in Seq(FileType)
           /\ \A f \in FileType : \A d : d = [disk EXCEPT ![Len(disk)] = f] =>
                 /\ d \in Seq(FileType) /\ Len(d) = Len(disk) /\ d[Len(disk)] = f /\ d # <<>>
                 /\ Front(d) = Front(disk) /\ BytesOf(d) = BytesOf(Front(disk)) + f.bytes
<1>1. /\ disk \in Seq(FileType) /\ disk # <<>> /\ viewer[t].view \in Views
      /\ Temp.bytes <= SizeOf[Asset(t)] /\ BytesOf(Front(disk)) + SizeOf[Asset(t)] <= CacheBytes
  BY DEF CachesInv, CachesTypeOK, Posted, Temp
<1>2. Asset(t) \in Assets /\ SizeOf[Asset(t)] \in Nat /\ CacheBytes \in Nat
  BY <1>1, CachesAssumption DEF Asset, Assets
<1>3. Len(disk) \in 1..Len(disk) /\ Len(disk) \in DOMAIN disk /\ Temp \in FileType
  BY <1>1 DEF Temp
<1>4. Front(disk) = SubSeq(disk, 1, Len(disk) - 1) /\ Front(disk) \in Seq(FileType)
  BY <1>1, <1>3 DEF Front
<1>5. BytesOf(Front(disk)) \in Nat
  BY <1>4, BytesOfMore, FilesWeigh
<1>6. ASSUME NEW f \in FileType, NEW d, d = [disk EXCEPT ![Len(disk)] = f]
      PROVE  /\ d \in Seq(FileType) /\ Len(d) = Len(disk) /\ d[Len(disk)] = f /\ d # <<>>
             /\ Front(d) = Front(disk) /\ BytesOf(d) = BytesOf(Front(disk)) + f.bytes
  <2>1. /\ d \in Seq(FileType) /\ Len(d) = Len(disk) /\ d[Len(disk)] = f
        /\ \A j \in 1..Len(disk) : d[j] = IF j = Len(disk) THEN f ELSE disk[j]
    BY <1>1, <1>3, <1>6, ExceptSeq
  <2>2. Len(disk) \in Nat \ {0} /\ d # <<>>
    BY <1>1, <2>1
  <2>3. Front(d) = Front(disk)
    <3>1. Front(d) = SubSeq(d, 1, Len(disk) - 1) /\ Len(disk) - 1 \in Nat
      BY <2>1, <2>2 DEF Front
    <3>2. Front(d) \in Seq(FileType) /\ Len(Front(d)) = Len(disk) - 1
      BY <2>1, <2>2, <3>1
    <3>3. Front(disk) \in Seq(FileType) /\ Len(Front(disk)) = Len(disk) - 1
      <4>1. \A j \in 1..(Len(disk) - 1) : disk[j] \in FileType
        BY <1>1, <2>2
      <4>2. 1 \in Int /\ Len(disk) - 1 \in Nat
        BY <2>2
      <4>3. Len(SubSeq(disk, 1, Len(disk) - 1)) = IF 1 <= Len(disk) - 1 THEN Len(disk) - 1 - 1 + 1 ELSE 0
        BY <4>1, <4>2, SubSeqProperties
      <4>4. Len(SubSeq(disk, 1, Len(disk) - 1)) = Len(disk) - 1
        <5>1. PICK n \in Nat : n = Len(disk) - 1
          BY <4>2
        <5>2. Len(SubSeq(disk, 1, n)) = IF 1 <= n THEN n - 1 + 1 ELSE 0
          BY <5>1, <4>3
        <5>3. QED BY <5>1, <5>2
      <4>5. QED BY <1>4, <4>4
    <3>4. ASSUME NEW j \in 1..(Len(disk) - 1) PROVE Front(d)[j] = Front(disk)[j]
      <4>1. j \in 1..Len(disk) /\ j # Len(disk)
        BY <2>2
      <4>2. Front(d)[j] = d[j] /\ Front(disk)[j] = disk[j]
        BY <4>1, <1>1, <1>4, <2>1, <2>2, <3>1
      <4>3. QED BY <4>1, <4>2, <2>1
    <3>5. QED BY <3>2, <3>3, <3>4, SeqEqual
  <2>4. d = Append(Front(d), f)
    BY <2>1, <2>2 DEF Front
  <2>5. Front(disk) \in Seq(FileType) /\ d = Append(Front(disk), f)
    BY <1>4, <2>3, <2>4
  <2>6. BytesOf(d) = BytesOf(Front(disk)) + f.bytes
    BY <2>5, BytesOfMore, FilesWeigh
  <2>7. QED BY <2>1, <2>2, <2>3, <2>6
<1>7. QED BY <1>1, <1>2, <1>3, <1>4, <1>5, <1>6

\* What arrives stays below what room was made for.
LEMMA StreamKeeps ==
    ASSUME CachesInv, NEW t \in Viewers, Stream(t)
    PROVE  CachesInv'
<1>1. viewer[t].pc = "fetch" /\ Temp.bytes < SizeOf[Asset(t)] /\ disk' = [disk EXCEPT ![Len(disk)].bytes = @ + 1]
  BY DEF Stream, At
<1> DEFINE f == [Temp EXCEPT !.bytes = @ + 1]
<1>2. f \in FileType /\ f.bytes = Temp.bytes + 1 /\ Temp.bytes \in Nat /\ disk' = [disk EXCEPT ![Len(disk)] = f]
  <2>1. PICK g : g = Temp /\ g \in FileType
    BY <1>1, ArrivingFile
  <2>2. f = [g EXCEPT !.bytes = g.bytes + 1]
    BY <2>1
  <2>3. f \in FileType /\ f.bytes = g.bytes + 1 /\ g.bytes \in Nat
    BY <2>1, <2>2 DEF FileType
  <2>4. disk' = [disk EXCEPT ![Len(disk)] = f]
    BY <1>1 DEF Temp
  <2>5. QED BY <2>1, <2>3, <2>4
<1> HIDE DEF f
<1>3. /\ disk' \in Seq(FileType) /\ Len(disk') = Len(disk) /\ disk'[Len(disk)] = f /\ disk' # <<>>
      /\ Front(disk') = Front(disk) /\ BytesOf(disk') = BytesOf(Front(disk)) + f.bytes
  BY <1>1, <1>2, ArrivingFile
<1>4. /\ BytesOf(disk') <= CacheBytes /\ f.bytes <= SizeOf[Asset(t)]
      /\ BytesOf(Front(disk)) + SizeOf[Asset(t)] <= CacheBytes
  BY <1>1, <1>2, <1>3, ArrivingFile
<1>5. viewer' = [viewer EXCEPT ![t] = viewer[t]] /\ viewer' = viewer /\ viewer[t] \in ViewerType
      /\ viewer[t].view \in Views
  BY <1>1 DEF Stream, CachesInv, CachesTypeOK, Posted
<1>6. Posted(t)'
  BY <1>1, <1>3, <1>4, <1>5 DEF Posted, Asset
<1>7. QED BY <1>1, <1>3, <1>4, <1>5, <1>6, DiskChanges DEF Stream, Locking

\* A file takes its name when all of it is there.
LEMMA KeepKeeps ==
    ASSUME CachesInv, NEW t \in Viewers, Keep(t)
    PROVE  CachesInv'
<1> DEFINE f == [name |-> Asset(t), bytes |-> Temp.bytes, good |-> TRUE]
<1>1. /\ viewer[t].pc = "fetch" /\ Temp.bytes = SizeOf[Asset(t)] /\ disk' = [disk EXCEPT ![Len(disk)] = f]
      /\ f \in FileType
  BY ArrivingFile DEF Keep, At, FileType
<1>2. f.name = Asset(t) /\ f.good /\ f.bytes = SizeOf[Asset(t)]
  BY <1>1
<1> HIDE DEF f
<1>3. /\ disk' \in Seq(FileType) /\ Len(disk') = Len(disk) /\ disk'[Len(disk)] = f /\ disk' # <<>>
      /\ BytesOf(disk') = BytesOf(Front(disk)) + f.bytes
  BY <1>1, ArrivingFile
<1>4. BytesOf(disk') <= CacheBytes
  BY <1>1, <1>2, <1>3, ArrivingFile
<1> DEFINE v == [viewer[t] EXCEPT !.pc = "have"]
<1>5. /\ v \in ViewerType /\ viewer' = [viewer EXCEPT ![t] = v] /\ viewer'[t] = v
      /\ v.pc = "have" /\ v.view = viewer[t].view /\ v.view \in Views
  BY <1>1 DEF Keep, Go, CachesInv, CachesTypeOK, ViewerType, Posted
<1> HIDE DEF v
<1>6. Verified(Asset(t))'
  <2>1. Len(disk) \in DOMAIN disk'
    BY <1>3
  <2>2. Asset(t)' = Asset(t)
    BY <1>5 DEF Asset
  <2>3. QED BY <2>1, <2>2, <1>2, <1>3 DEF Verified, Under
<1>7. Posted(t)'
  BY <1>5, <1>6 DEF Posted
<1>8. QED BY <1>1, <1>3, <1>4, <1>5, <1>7, DiskChanges DEF Keep, Locking

\* What arrived is removed.
LEMMA FetchFailsKeeps ==
    ASSUME CachesInv, NEW t \in Viewers, FetchFails(t)
    PROVE  CachesInv'
<1>1. viewer[t].pc = "fetch" /\ disk' = Front(disk)
  BY DEF FetchFails, At
<1>2. disk' \in Seq(FileType) /\ BytesOf(disk') <= CacheBytes
  BY <1>1, ArrivingFile
<1>3. AtEase \in ViewerType /\ viewer' = [viewer EXCEPT ![t] = AtEase] /\ viewer'[t] = AtEase
  BY DEF FetchFails, Done, AtEase, ViewerType, CachesInv, CachesTypeOK
<1>4. Posted(t)'
  BY <1>3 DEF Posted, AtEase
<1>5. QED BY <1>1, <1>2, <1>3, <1>4, DiskChanges DEF FetchFails, Locking

\* The pages that stay make room for the one that is rendered, in bytes and in number.
LEMMA RenderKeeps ==
    ASSUME CachesInv, NEW t \in Viewers, Render(t)
    PROVE  CachesInv'
<1> DEFINE n == PixelsOf[Asset(t)][viewer[t].view.view]
           Froms == {i \in 1..Len(rasters) + 1 : i = Len(rasters) + 1 \/ Fits(i, n)}
           from == Min(Froms)
           kept == SubSeq(rasters, from, Len(rasters))
           page == [key |-> viewer[t].view, value |-> viewer[t].bytes, bytes |-> n]
<1>1. /\ viewer[t].view \in Views /\ viewer[t].view.view # 0 /\ viewer[t].bytes = Asset(t)
      /\ Asset(t) \in Assets /\ viewer[t].view.asset = Asset(t)
      /\ rasters \in Seq(PageType) /\ Len(rasters) \in Nat
      /\ viewer \in [Viewers -> ViewerType]
  <2>1. viewer[t].pc = "render"
    BY DEF Render, At
  <2>2. viewer[t].view \in Views /\ viewer[t].view.view # 0 /\ viewer[t].bytes = Asset(t)
    BY <2>1 DEF CachesInv, Posted
  <2>3. Asset(t) \in Assets /\ viewer[t].view.asset = Asset(t)
    BY <2>2 DEF Asset, Assets
  <2>4. rasters \in Seq(PageType) /\ Len(rasters) \in Nat /\ viewer \in [Viewers -> ViewerType]
    BY DEF CachesInv, CachesTypeOK
  <2>5. QED BY <2>2, <2>3, <2>4
<1>2. n \in Nat
  BY <1>1, CachesAssumption DEF Asset
<1>3. /\ IF n <= RasterBytes
         THEN /\ rasters' = Append(kept, page)
              /\ rasterSize' = rasterSize - BytesOf(SubSeq(rasters, 1, from - 1)) + n
         ELSE UNCHANGED <<rasters, rasterSize>>
      /\ shown' = [view |-> viewer[t].view, asset |-> viewer[t].bytes]
      /\ viewer' = [viewer EXCEPT ![t] = AtEase] /\ UNCHANGED disk
  BY DEF Render, Key, Done
<1>4. page \in PageType /\ page.bytes = n
  BY <1>1, <1>2 DEF PageType
<1>5. /\ from \in 1..(Len(rasters) + 1)
      /\ from = Len(rasters) + 1 \/ Fits(from, n)
  <2>1. Froms \in SUBSET Nat /\ Len(rasters) + 1 \in Froms
    BY <1>1
  <2>2. from \in Froms
    <3> HIDE DEF Froms
    <3>1. QED BY <2>1, LeastOf DEF Min
  <2>3. QED BY <2>2
<1> HIDE DEF n, from, page
<1>6. /\ kept \in Seq(PageType) /\ BytesOf(kept) \in Nat /\ Len(kept) = Len(rasters) + 1 - from
      /\ SubSeq(rasters, 1, from - 1) \in Seq(PageType)
      /\ BytesOf(rasters) = BytesOf(SubSeq(rasters, 1, from - 1)) + BytesOf(kept)
      /\ BytesOf(SubSeq(rasters, 1, from - 1)) \in Nat
  <2>1. PICK i \in 0..Len(rasters) : i = from - 1 /\ i + 1 = from
    BY <1>1, <1>5
  <2>2. /\ SubSeq(rasters, 1, i) \in Seq(PageType) /\ SubSeq(rasters, i + 1, Len(rasters)) \in Seq(PageType)
        /\ BytesOf(rasters) = BytesOf(SubSeq(rasters, 1, i)) + BytesOf(SubSeq(rasters, i + 1, Len(rasters)))
    BY <1>1, BytesOfSplit, FilesWeigh
  <2>3. Len(SubSeq(rasters, i + 1, Len(rasters))) = Len(rasters) - i
    BY <1>1, <2>1
  <2>4. kept = SubSeq(rasters, i + 1, Len(rasters)) /\ SubSeq(rasters, 1, from - 1) = SubSeq(rasters, 1, i)
    BY <2>1
  <2>5. Len(rasters) - i = Len(rasters) + 1 - from
    BY <1>1, <2>1, <1>5
  <2> HIDE DEF kept
  <2>6. QED BY <2>2, <2>3, <2>4, <2>5, BytesOfMore, FilesWeigh
<1>7. BytesOf(kept) + n <= RasterBytes \/ n > RasterBytes
  <2>1. CASE from = Len(rasters) + 1
    <3>1. kept = <<>>
      BY <1>1, <2>1, SubSeqEmpty
    <3>2. BytesOf(kept) = 0
      BY <3>1, <1>6, BytesOfMore, FilesWeigh
    <3>3. RasterBytes \in Nat
      BY CachesAssumption
    <3>4. QED BY <3>2, <3>3, <1>2
  <2>2. CASE Fits(from, n)
    BY <2>2 DEF Fits
  <2>3. QED BY <2>1, <2>2, <1>5
<1>8. Len(kept) < RasterEntries /\ Len(kept) \in Nat
  <2>1. RasterEntries \in Nat \ {0}
    BY CachesAssumption
  <2>2. CASE from = Len(rasters) + 1
    BY <2>1, <2>2, <1>1, <1>6
  <2>3. CASE Fits(from, n)
    BY <2>3, <1>1, <1>5, <1>6 DEF Fits
  <2>4. QED BY <2>2, <2>3, <1>5
<1> HIDE DEF kept
<1>9. rasters' \in Seq(PageType) /\ CachesWithin'
  <2>1. rasterSize = BytesOf(rasters) /\ BytesOf(disk') <= CacheBytes
    BY <1>3 DEF CachesInv, CachesWithin
  <2>2. CASE n <= RasterBytes
    <3>1. rasters' = Append(kept, page) /\ rasterSize' = rasterSize - BytesOf(SubSeq(rasters, 1, from - 1)) + n
      BY <1>3, <2>2
    <3>2. BytesOf(rasters') = BytesOf(kept) + n /\ rasters' \in Seq(PageType) /\ Len(rasters') = Len(kept) + 1
      BY <3>1, <1>4, <1>6, BytesOfMore, FilesWeigh, AppendProperties
    <3>3. rasterSize' = BytesOf(rasters')
      BY <3>1, <3>2, <2>1, <1>2, <1>6
    <3>4. BytesOf(rasters') <= RasterBytes
      BY <3>2, <1>2, <1>6, <1>7, <2>2, CachesAssumption
    <3>5. Len(rasters') <= RasterEntries
      BY <3>2, <1>8, CachesAssumption
    <3>6. QED BY <2>1, <3>2, <3>3, <3>4, <3>5 DEF CachesWithin
  <2>3. CASE ~(n <= RasterBytes)
    <3>1. UNCHANGED <<rasters, rasterSize, disk>>
      BY <1>3, <2>3
    <3>2. QED BY <3>1, <1>1 DEF CachesInv, CachesWithin
  <2>4. QED BY <2>2, <2>3
<1>10. ShowsWhatIsNamed'
  BY <1>1, <1>3 DEF ShowsWhatIsNamed, Asset
<1>11. AtEase \in ViewerType /\ AtEase.pc \notin Locking /\ Posted(t)'
  BY <1>1, <1>3 DEF AtEase, ViewerType, Locking, Posted
<1>12. disk' \in Seq(FileType) /\ disk' = disk
  BY <1>3 DEF CachesInv, CachesTypeOK
<1>13. QED BY <1>3, <1>9, <1>10, <1>11, <1>12, OneThreadMoves

\* A crash leaves the directory, and nothing in memory.
LEMMA CrashKeepsCaches ==
    ASSUME CachesInv, WorkerCrash
    PROVE  CachesInv'
<1>1. rasters' = <<>> /\ rasterSize' = 0 /\ viewer' = [t \in Viewers |-> AtEase] /\ UNCHANGED <<disk, shown>>
  BY DEF WorkerCrash
<1>2. BytesOf(rasters') = 0 /\ Len(rasters') = 0 /\ rasters' \in Seq(PageType)
  <2>1. PICK e \in Seq(PageType) : e = <<>>
    BY EmptySeq
  <2>2. BytesOf(e) = 0 /\ Len(e) = 0
    BY <2>1, BytesOfMore, FilesWeigh
  <2>3. QED BY <1>1, <2>1, <2>2
<1>3. CachesWithin'
  <2>1. RasterBytes \in Nat /\ RasterEntries \in Nat /\ BytesOf(disk') <= CacheBytes
    BY <1>1, CachesAssumption DEF CachesInv, CachesWithin
  <2>2. QED BY <1>1, <1>2, <2>1 DEF CachesWithin
<1>4. CachesTypeOK'
  BY <1>1, <1>2 DEF CachesInv, CachesTypeOK, AtEase, ViewerType
<1>5. OneHolds' /\ \A t \in Viewers : Posted(t)'
  BY <1>1 DEF OneHolds, Posted, AtEase, Locking
<1>6. ShowsWhatIsNamed'
  BY <1>1 DEF CachesInv, ShowsWhatIsNamed
<1>7. QED BY <1>3, <1>4, <1>5, <1>6 DEF CachesInv

\* A file that goes bad weighs the same, and nobody relies on it.
LEMMA DecayKeeps ==
    ASSUME CachesInv, Decay
    PROVE  CachesInv'
<1>1. PICK i \in DOMAIN disk : disk' = [disk EXCEPT ![i].good = FALSE]
  BY DEF Decay
<1>2. UNCHANGED <<rasters, rasterSize, viewer, shown>> /\ AssetLockFree
  BY DEF Decay
<1>3. PICK g, f : g = disk[i] /\ f = [g EXCEPT !.good = FALSE]
  OBVIOUS
<1>4. disk \in Seq(FileType) /\ g \in FileType /\ f \in FileType /\ f.bytes = g.bytes
  <2>1. disk \in Seq(FileType) /\ g \in FileType
    BY <1>3 DEF CachesInv, CachesTypeOK
  <2>2. QED BY <1>3, <2>1 DEF FileType
<1>5. disk' = [disk EXCEPT ![i] = f]
  BY <1>1, <1>3
<1>6. disk' \in Seq(FileType)
  BY <1>4, <1>5
<1>7. BytesOf(disk') = BytesOf(disk)
  <2>1. PICK o \in Nat : /\ o + g.bytes = BytesOf(disk)
                         /\ BytesOf([disk EXCEPT ![i] = f]) = o + f.bytes
    <3>1. RemoveAt(disk, i) \in Seq(FileType) /\ BytesOf(RemoveAt(disk, i)) \in Nat
      BY <1>4, BytesOfOthers, BytesOfMore, FilesWeigh
    <3>2. /\ BytesOf(RemoveAt(disk, i)) + g.bytes = BytesOf(disk)
          /\ BytesOf([disk EXCEPT ![i] = f]) = BytesOf(RemoveAt(disk, i)) + f.bytes
      <4>1. BytesOf(RemoveAt(disk, i)) + disk[i].bytes = BytesOf(disk)
        BY <1>4, BytesOfOthers, FilesWeigh
      <4>2. \A x \in FileType : BytesOf([disk EXCEPT ![i] = x]) = BytesOf(RemoveAt(disk, i)) + x.bytes
        BY <1>4, BytesOfOthers, FilesWeigh
      <4>3. QED BY <4>1, <4>2, <1>3, <1>4
    <3>3. QED BY <3>1, <3>2
  <2>2. QED BY <2>1, <1>4, <1>5
<1>8. CachesTypeOK' /\ CachesWithin' /\ ShowsWhatIsNamed' /\ OneHolds'
  BY <1>2, <1>6, <1>7 DEF CachesInv, CachesTypeOK, CachesWithin, ShowsWhatIsNamed, OneHolds
<1>9. ASSUME NEW t \in Viewers PROVE Posted(t)'
  <2>1. viewer[t].pc \notin Locking /\ Posted(t) /\ viewer' = viewer
    BY <1>2 DEF AssetLockFree, Locking, CachesInv
  <2>2. QED BY <2>1 DEF Posted, Asset, Locking
<1>10. QED BY <1>8, <1>9 DEF CachesInv

\* Nothing of the caches changes.
LEMMA CachesStay ==
    ASSUME CachesInv, UNCHANGED cacheVars
    PROVE  CachesInv'
<1>1. CachesTypeOK' /\ CachesWithin' /\ ShowsWhatIsNamed' /\ OneHolds'
  BY DEF cacheVars, CachesInv, CachesTypeOK, CachesWithin, ShowsWhatIsNamed, OneHolds
<1>2. \A t \in Viewers : Posted(t)'
  BY DEF cacheVars, CachesInv, Posted, Asset, Verified, Under
<1>3. QED BY <1>1, <1>2 DEF CachesInv

\* For any books, sizes and budgets, threads, crashes and decay: the directory and the rendered
\* pages keep to their budgets, and an answer is what the publication names (library.py:680-687,
\* 848-886).
THEOREM CachesAlwaysHold == CachesSpec => []CachesHold
<1>1. CachesInit => CachesInv
  <2> SUFFICES ASSUME CachesInit PROVE CachesInv
    OBVIOUS
  <2>1. disk = <<>> /\ rasters = <<>> /\ rasterSize = 0 /\ viewer = [t \in Viewers |-> AtEase] /\ shown = NotShown
    BY DEF CachesInit
  <2>2. PICK d \in Seq(FileType), r \in Seq(PageType) : d = <<>> /\ r = <<>>
    BY EmptySeq
  <2>3. BytesOf(disk) = 0 /\ BytesOf(rasters) = 0
    BY <2>1, <2>2, BytesOfMore, FilesWeigh
  <2>4. CachesWithin
    BY <2>1, <2>3, CachesAssumption DEF CachesWithin
  <2>5. CachesTypeOK /\ OneHolds /\ ShowsWhatIsNamed /\ \A t \in Viewers : Posted(t)
    BY <2>1 DEF CachesTypeOK, OneHolds, ShowsWhatIsNamed, Posted, AtEase, ViewerType, Locking
  <2>6. QED BY <2>4, <2>5 DEF CachesInv
<1>2. CachesInv /\ [CachesNext]_cacheVars => CachesInv'
  <2> SUFFICES ASSUME CachesInv, [CachesNext]_cacheVars PROVE CachesInv'
    OBVIOUS
  <2>1. CASE UNCHANGED cacheVars
    BY <2>1, CachesStay
  <2>2. CASE WorkerCrash
    BY <2>2, CrashKeepsCaches
  <2>3. CASE Decay
    BY <2>3, DecayKeeps
  <2>4. ASSUME NEW t \in Viewers,
               \/ Ask(t) \/ RasterHit(t) \/ RasterMiss(t) \/ TooLarge(t) \/ Reuse(t) \/ MakeRoom(t)
               \/ Stream(t) \/ Keep(t) \/ FetchFails(t) \/ ServeImage(t) \/ LinkOriginal(t)
               \/ RenderFails(t) \/ Render(t)
        PROVE  CachesInv'
    BY <2>4, ThreadLooks, RasterHitKeeps, ReuseKeeps, MakeRoomKeeps, StreamKeeps, KeepKeeps,
       FetchFailsKeeps, RenderKeeps
  <2>5. QED BY <2>1, <2>2, <2>3, <2>4 DEF CachesNext
<1>3. CachesInv => CachesHold
  BY DEF CachesInv, CachesHold
<1>4. QED BY <1>1, <1>2, <1>3, PTL DEF CachesSpec
=============================================================================
