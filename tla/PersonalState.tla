---------------------------- MODULE PersonalState ----------------------------
(***************************************************************************)
(* An owner's bookmarks and resume points (reader_personal.py): one record *)
(* per owner, rewritten whole by compare-and-swap, with the result of      *)
(* every operation so that an operation sent again acts once.              *)
(*                                                                         *)
(* A device may send an operation again whenever it likes: it cannot tell  *)
(* a lost answer from a lost request.                                      *)
(***************************************************************************)
EXTENDS Naturals, FiniteSets

CONSTANTS
    Operations,     \* what devices send: [id, action, target, at, name]
    Resumable,       \* what resume points are kept for: the "at" of a resume
    Requests,       \* request threads, of any replica
    PersonalTries,  \* mutate's range(8)
    MaxOperations,  \* 10000
    MaxBookmarks,   \* 1000
    PersonalFaults, \* bound: lost answers, store errors
    Absent

ASSUME PersonalAssumption ==
    /\ PersonalTries \in Nat \ {0} /\ MaxOperations \in Nat
    /\ MaxBookmarks \in Nat /\ PersonalFaults \in Nat
    /\ \A op \in Operations : op.action \in {"save", "rename", "remove", "resume"}

VARIABLES
    record,     \* reader-personal/owners/<owner>; its version is its content
    request,    \* where each thread is in mutate
    answered,   \* history: operations answered with 200, and the revision answered
    mishaps

personalVars == <<record, request, answered, mishaps>>

Ids == {op.id : op \in Operations}
Empty == [bookmarks |-> [i \in Ids |-> Absent], resume |-> [e \in Resumable |-> Absent],
          operations |-> {}, revision |-> 0]
Free == [pc |-> "free", op |-> Absent, seen |-> Empty, try |-> 0]

PersonalInit ==
    /\ record = Empty
    /\ request = [r \in Requests |-> Free]
    /\ answered = {}
    /\ mishaps = 0

----------------------------------------------------------------------------
(* What an operation does to the record *)

Kept(rec) == {i \in Ids : rec.bookmarks[i] # Absent}

\* A bookmark is known by the operation that saved it.
Target(op) == IF op.action = "save" THEN op.id ELSE op.target

\* The record has no room, or there is nothing to rename.
PutRefused(rec, op) ==
    \/ Cardinality(rec.operations) >= MaxOperations
    \/ op.action = "save" /\ Cardinality(Kept(rec)) >= MaxBookmarks
    \/ op.action = "rename" /\ op.target \notin Kept(rec)

Bookmarks(rec, op) ==
    CASE op.action = "save" -> [rec.bookmarks EXCEPT ![op.id] = [at |-> op.at, name |-> op.name]]
      [] op.action = "rename" ->
            [rec.bookmarks EXCEPT ![op.target] =
                [at |-> IF @ = Absent THEN op.at ELSE @.at, name |-> op.name]]
      [] op.action = "remove" -> [rec.bookmarks EXCEPT ![op.target] = Absent]
      [] OTHER -> rec.bookmarks

Apply(rec, op) ==
    [bookmarks |-> Bookmarks(rec, op),
     resume |-> IF op.action = "resume" THEN [rec.resume EXCEPT ![op.at] = op.name] ELSE rec.resume,
     operations |-> rec.operations \cup {[op |-> op, revision |-> rec.revision + 1]},
     revision |-> rec.revision + 1]

----------------------------------------------------------------------------
(* mutate *)

Receive(r, op) ==
    /\ request[r].pc = "free"
    /\ request' = [request EXCEPT ![r] = [pc |-> "load", op |-> op, seen |-> Empty, try |-> 0]]
    /\ UNCHANGED <<record, answered, mishaps>>

\* The operation's earlier result.
Prior(rec, op) == {done \in rec.operations : done.op.id = op.id}

Finish(r) == request' = [request EXCEPT ![r] = Free]

\* An answer of 200 to the operation as it was sent, from what is stored; 409 to another
\* operation under its id.
Repeat(r) ==
    LET op == request[r].op IN
    /\ request[r].pc = "load"
    /\ Prior(record, op) # {}
    /\ answered' = answered \cup {done \in Prior(record, op) : done.op = op}
    /\ Finish(r)
    /\ UNCHANGED <<record, mishaps>>

\* 429, 404 for a bookmark that is missing, or a location the library cannot resolve.
Refuse(r) ==
    /\ request[r].pc = "load"
    /\ Prior(record, request[r].op) = {}
    /\ PutRefused(record, request[r].op) \/ request[r].op.action \in {"save", "resume"}
    /\ Finish(r)
    /\ UNCHANGED <<record, answered, mishaps>>

PreparePut(r) ==
    /\ request[r].pc = "load"
    /\ Prior(record, request[r].op) = {}
    /\ ~PutRefused(record, request[r].op)
    /\ request' = [request EXCEPT ![r] = [@ EXCEPT !.pc = "put", !.seen = record]]
    /\ UNCHANGED <<record, answered, mishaps>>

\* mutant: the write is unconditional
PutsAlways(r) == record' = Apply(request[r].seen, request[r].op)

\* The conditional write of the record that was prepared.
Puts(r) ==
    /\ record = request[r].seen
    /\ record' = Apply(record, request[r].op)

Save(r) ==
    /\ request[r].pc = "put"
    /\ Puts(r)
    /\ answered' = answered \cup
          {[op |-> request[r].op, revision |-> request[r].seen.revision + 1]}
    /\ Finish(r)
    /\ UNCHANGED mishaps

\* After a conflict: from the start, or 503.
Retry(r) ==
    request' = [request EXCEPT ![r] =
        IF request[r].try + 1 = PersonalTries THEN Free
        ELSE [request[r] EXCEPT !.pc = "load", !.try = @ + 1]]

Outdated(r) ==
    /\ request[r].pc = "put"
    /\ record # request[r].seen
    /\ Retry(r)
    /\ UNCHANGED <<record, answered, mishaps>>

Mishap ==
    /\ mishaps < PersonalFaults
    /\ mishaps' = mishaps + 1
    /\ UNCHANGED answered

\* The write is stored, sent again by the client library, and refused.
StoredOutdated(r) ==
    /\ request[r].pc = "put"
    /\ Puts(r)
    /\ Retry(r)
    /\ Mishap

\* persistence_unconfirmed: the store fails before or after the write, or the answer is
\* late and the write goes on without anybody who waits for it.
Unconfirmed(r) ==
    /\ request[r].pc # "free"
    /\ \/ UNCHANGED record
       \/ request[r].pc = "put" /\ Puts(r)
    /\ Finish(r)
    /\ Mishap

PersonalNext == \E r \in Requests :
    \/ \E op \in Operations : Receive(r, op)
    \/ Repeat(r) \/ Refuse(r) \/ PreparePut(r) \/ Save(r)
    \/ Outdated(r) \/ StoredOutdated(r) \/ Unconfirmed(r)

PersonalSpec == PersonalInit /\ [][PersonalNext]_personalVars

----------------------------------------------------------------------------
(* Properties *)

\* The operations that touched a bookmark, and the last of them.
TouchingMark(i) == {d \in record.operations : d.op.action # "resume" /\ Target(d.op) = i}
Newest(S) == CHOOSE d \in S : \A e \in S : e.revision <= d.revision

\* The record is what its operations make of it in the order of their revisions: no update
\* of another device is lost, half applied, or applied again; and every 200 to an operation
\* names the one revision at which it acted (reader_personal.py:39-43, 82).
RecordIsReplay ==
    /\ answered \subseteq record.operations
    /\ \A d, e \in record.operations : d.op.id = e.op.id => d = e
    /\ {d.revision : d \in record.operations} = 1..record.revision
    /\ \A i \in Ids : record.bookmarks[i] =
          IF /\ \E d \in TouchingMark(i) : d.op.action = "save"
             /\ Newest(TouchingMark(i)).op.action # "remove"
          THEN [at |-> (CHOOSE d \in TouchingMark(i) : d.op.action = "save").op.at,
                name |-> Newest(TouchingMark(i)).op.name]
          ELSE Absent
    /\ \A e \in Resumable :
          LET resumed == {d \in record.operations : d.op.action = "resume" /\ d.op.at = e}
          IN  record.resume[e] = IF resumed = {} THEN Absent ELSE Newest(resumed).op.name
=============================================================================
