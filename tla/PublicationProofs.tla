-------------------------- MODULE PublicationProofs --------------------------
(***************************************************************************)
(* Proofs about Publication: its types, the completeness of whatever the   *)
(* remote pointer names, the history's entries, the implementation of      *)
(* ActivePointer, and that whatever activations, damaged disks and stops   *)
(* inside a quarantine do, active.json of the runtime directory names a    *)
(* version that is there.  Then the order of publications: where every     *)
(* command takes one lock, none replaces a choice it has not seen, and     *)
(* whoever advances the successful history, it loses no entry and has what *)
(* was reported. For any builds, publishers, locks and faults.             *)
(***************************************************************************)
EXTENDS Publication, SequenceTheorems, TLAPS

\* What holds of one command at each point.  A build is known from the reservation on;
\* what the readback has passed over is good; a command about to commit has passed all;
\* one that awaits or has got its confirmation has committed.
Fit(p) ==
    /\ pc[p] \in {"reserve", "upload", "readback", "commit", "confirm", "record", "advance"}
         => job[p].build \in Builds
    /\ pc[p] = "activating" /\ job[p].kind \notin Recovering => job[p].build \in Builds
    /\ pc[p] = "readback" =>
         \A d \in Files[job[p].build] \ job[p].todo : object[d] = "good"
    /\ pc[p] = "commit" => Complete(job[p].build)
    /\ pc[p] = "confirm" => job[p].build \in chosen
    /\ pc[p] \in {"record", "advance"} => job[p].build \in served

\* An activation in progress is of a build the remote pointer has named, and a local
\* command's is of its own build.
Apt(a) == act[a].at # "out" =>
    /\ act[a].build \in chosen
    /\ a \in Local => /\ pc[a] = "activating"
                      /\ job[a].kind \notin Recovering => job[a].build = act[a].build

\* Every choice ever made is complete, and nothing else is named, served or recorded.
Choices ==
    /\ active \in chosen \cup {None}
    /\ \A b \in chosen : Complete(b)
    /\ served \subseteq chosen
    /\ local \in served \cup {None}
    /\ HistoryConfirmed

IInv == /\ TypeOK
        /\ \A p \in Publishers : Fit(p)
        /\ \A a \in Activators : Apt(a)
        /\ Choices

----------------------------------------------------------------------------
(* The history as a sequence *)

\* The entries of other publications are entries of the history.
LEMMA OthersAreEntries ==
    ASSUME NEW s \in Seq(Builds), NEW b \in Builds
    PROVE  Others(s, b) \in Seq(Builds) /\ RangeOf(Others(s, b)) \subseteq RangeOf(s)
<1>1. CASE PubId[b] \notin IdsOf(s)
  BY <1>1 DEF Others
<1>2. CASE PubId[b] \in IdsOf(s)
  <2> DEFINE i == CHOOSE j \in 1..Len(s) : PubId[s[j]] = PubId[b]
             l == SubSeq(s, 1, i - 1)
             r == SubSeq(s, i + 1, Len(s))
  <2>1. i \in 1..Len(s)
    BY <1>2 DEF IdsOf
  <2> HIDE DEF i
  <2>2. /\ l \in Seq(Builds) /\ Len(l) = i - 1
        /\ \A k \in 1..Len(l) : l[k] = s[k]
    BY <2>1
  <2>3. /\ r \in Seq(Builds) /\ Len(r) = Len(s) - i
        /\ \A k \in 1..Len(r) : r[k] = s[i + k]
    BY <2>1
  <2> HIDE DEF l, r
  <2>4. Others(s, b) = l \o r
    BY <1>2 DEF Others, i, l, r
  <2>5. l \o r \in Seq(Builds)
    BY <2>2, <2>3
  <2>6. ASSUME NEW k \in 1..Len(l \o r) PROVE (l \o r)[k] \in RangeOf(s)
    <3>1. CASE k \in 1..Len(l)
      BY <3>1, <2>1, <2>2, <2>3 DEF RangeOf
    <3>2. CASE k \notin 1..Len(l)
      <4>1. k - Len(l) \in 1..Len(r) /\ (l \o r)[k] = r[k - Len(l)]
        <5>0. Len(l \o r) = Len(l) + Len(r)
          BY <2>2, <2>3, ConcatProperties
        <5>1. Len(l) \in Nat /\ Len(r) \in Nat /\ Len(l \o r) = Len(l) + Len(r)
          BY <5>0, <2>1, <2>2, <2>3
        <5>2. k \in 1..(Len(l) + Len(r)) /\ ~(k <= Len(l))
          BY <3>2, <5>1
        <5>3. (l \o r)[k] = r[k - Len(l)]
          BY <5>2, <2>2, <2>3, ConcatProperties
        <5>4. QED BY <5>1, <5>2, <5>3
      <4>2. i + (k - Len(l)) \in 1..Len(s)
        BY <4>1, <2>1, <2>2, <2>3
      <4>3. QED BY <4>1, <4>2, <2>3 DEF RangeOf
    <3>3. QED BY <3>1, <3>2
  <2>7. QED BY <2>4, <2>5, <2>6 DEF RangeOf
<1>3. QED BY <1>1, <1>2

\* Prepending an entry adds that entry to the range.
LEMMA PrependEntry ==
    ASSUME NEW s \in Seq(Builds), NEW b \in Builds
    PROVE  <<b>> \o s \in Seq(Builds) /\ RangeOf(<<b>> \o s) = {b} \cup RangeOf(s)
<1> DEFINE t == <<b>> \o s
<1>1. t \in Seq(Builds) /\ Len(t) = Len(s) + 1 /\ t[1] = b
  OBVIOUS
<1>2. \A k \in 1..Len(s) : t[k + 1] = s[k]
  OBVIOUS
<1>3. ASSUME NEW k \in 1..Len(t) PROVE t[k] \in {b} \cup RangeOf(s)
  <2>1. CASE k = 1
    BY <2>1, <1>1
  <2>2. CASE k # 1
    <3>1. k - 1 \in 1..Len(s) /\ t[(k - 1) + 1] = s[k - 1]
      BY <2>2, <1>1, <1>2
    <3>2. QED BY <3>1 DEF RangeOf
  <2>3. QED BY <2>1, <2>2
<1>4. b \in RangeOf(t)
  BY <1>1 DEF RangeOf
<1> HIDE DEF t
<1>5. ASSUME NEW k \in 1..Len(s) PROVE s[k] \in RangeOf(t)
  <2>1. k + 1 \in 1..Len(t) /\ t[k + 1] = s[k]
    BY <1>1, <1>2
  <2>2. QED BY <2>1 DEF RangeOf
<1>6. QED BY <1>1, <1>3, <1>4, <1>5 DEF RangeOf, t
----------------------------------------------------------------------------
(* What every step keeps *)

\* Nothing verified is lost: objects and manifests are immutable, choices are remembered.
Kept == /\ \A d \in Digests : object[d] = "good" => object'[d] = "good"
        /\ \A b \in Builds : Complete(b) => Complete(b)'
        /\ chosen \subseteq chosen'
        /\ served \subseteq served'

LEMMA UnchangedKept ==
    ASSUME UNCHANGED <<manifest, object>>, chosen \subseteq chosen', served \subseteq served'
    PROVE  Kept
  BY DEF Kept, Complete, Stored, Good

\* A reserved manifest is never replaced by another build's.
LEMMA ReserveKept ==
    ASSUME IInv, NEW p \in Publishers, Reserve(p)
    PROVE  Kept
<1>1. \A c \in Builds : Stored(c) => Stored(c)'
  BY BuildsAssumption DEF IInv, TypeOK, Stored, Fit, Reserve
<1>2. QED BY <1>1 DEF Kept, Complete, Good, ghosts, Reserve

\* An object that is there is never replaced.
LEMMA UploadKept ==
    ASSUME IInv, NEW p \in Publishers, NEW d \in Digests, Upload(p, d)
    PROVE  Kept
<1>1. \A e \in Digests : object[e] = "good" => object'[e] = "good"
  BY DEF IInv, TypeOK, Upload
<1>2. \A c \in Builds : Good(c) => Good(c)'
  BY <1>1, BuildsAssumption DEF Good
<1>3. QED BY <1>1, <1>2 DEF Kept, Complete, Stored, ghosts, Upload

LEMMA FitKept ==
    ASSUME TypeOK, Kept, NEW q \in Publishers, Fit(q), pc'[q] = pc[q], job'[q] = job[q]
    PROVE  Fit(q)'
<1>1. job[q].build \in Builds => Files[job[q].build] \subseteq Digests
  BY BuildsAssumption
<1>2. QED BY <1>1 DEF Kept, Fit

\* A step of one command that is not activating disturbs no other command or activation.
LEMMA OthersKept ==
    ASSUME IInv, Kept, NEW p \in Publishers, pc[p] # "activating", UNCHANGED act,
           \A q \in Publishers \ {p} : pc'[q] = pc[q] /\ job'[q] = job[q], Fit(p)'
    PROVE  (\A q \in Publishers : Fit(q)') /\ (\A a \in Activators : Apt(a)')
<1>1. \A q \in Publishers : Fit(q)'
  BY FitKept DEF IInv
<1>2. ASSUME NEW a \in Activators PROVE Apt(a)'
  BY BuildsAssumption DEF IInv, Apt, Kept, Activators
<1>3. QED BY <1>1, <1>2

\* A step that leaves the commands alone disturbs none of them.
LEMMA CommandsKept ==
    ASSUME IInv, Kept, UNCHANGED <<pc, job>>
    PROVE  \A q \in Publishers : Fit(q)'
  BY FitKept DEF IInv

LEMMA ChoicesKept ==
    ASSUME IInv, Kept, UNCHANGED <<active, history, local, chosen, served>>
    PROVE  Choices'
  BY DEF IInv, TypeOK, Choices, Kept, HistoryConfirmed, RangeOf

LEMMA JobEdits ==
    /\ NoJob \in Job
    /\ \A j \in Job : /\ \A t \in SUBSET Digests : [j EXCEPT !.todo = t] \in Job
                      /\ \A h \in Seq(Builds) : [j EXCEPT !.seen = h] \in Job
                      /\ [j EXCEPT !.base = None, !.expected = None, !.moved = TRUE] \in Job
                      /\ \A b, e \in Builds \cup {None} : \A t \in SUBSET Digests :
                           [j EXCEPT !.build = b, !.expected = e, !.todo = t] \in Job
    /\ \A k \in Kinds : \A b, c, e \in Builds \cup {None} : \A t \in SUBSET Digests :
         [kind |-> k, build |-> b, base |-> c, expected |-> e, todo |-> t,
          seen |-> <<>>, moved |-> FALSE] \in Job
<1>1. <<>> \in Seq(Builds)
  OBVIOUS
<1>2. QED BY <1>1 DEF Job, NoJob, Kinds

\* A command that ends fits its outcome.
LEMMA EndFits ==
    ASSUME TypeOK, NEW p \in Publishers, NEW o \in Ended, End(p, o)
    PROVE  /\ Fit(p)'
           /\ pc' \in [Publishers -> Ended \cup Working] /\ job' \in [Publishers -> Job]
           /\ \A q \in Publishers \ {p} : pc'[q] = pc[q] /\ job'[q] = job[q]
<1>1. pc'[p] = o /\ job'[p] = NoJob
  BY DEF TypeOK, End, Goto
<1>2. Fit(p)'
  BY <1>1 DEF Fit, Ended
<1>3. job' \in [Publishers -> Job]
  BY JobEdits DEF TypeOK, End
<1>4. QED BY <1>2, <1>3 DEF TypeOK, End, Goto

----------------------------------------------------------------------------
(* The inductive invariant *)

LEMMA InitIInv == Init => IInv
  BY BuildsAssumption DEF Init, IInv, TypeOK, Fit, Apt, Choices,
     HistoryConfirmed, RangeOf, NoJob, NotActivating, Job, Kinds, Ended, Working, Activators

LEMMA PublishInv ==
    ASSUME IInv, NEW p \in Publishers, NEW b \in Builds, Publish(p, b)
    PROVE  IInv'
<1> USE DEF Publish, Begin, Goto
<1>1. Kept
  BY UnchangedKept DEF remote, ghosts
<1>2. \A q \in Publishers \ {p} : pc'[q] = pc[q] /\ job'[q] = job[q]
  BY DEF IInv, TypeOK
<1>3. Fit(p)'
  BY BuildsAssumption DEF IInv, TypeOK, Fit, Complete, Stored, Good, remote, ghosts
<1>4. job' \in [Publishers -> Job]
  BY JobEdits, BuildsAssumption DEF IInv, TypeOK, Kinds
<1>5. TypeOK'
  BY <1>4 DEF IInv, TypeOK, remote, runtime, ghosts, Working
<1>6. QED
  BY <1>1, <1>2, <1>3, <1>5, OthersKept, ChoicesKept DEF IInv, Ended, remote, runtime, ghosts

LEMMA RefreshInv ==
    ASSUME IInv, NEW p \in Publishers, Refresh(p)
    PROVE  IInv'
<1> USE DEF Refresh, Begin, Goto
<1>1. Kept
  BY UnchangedKept DEF remote, ghosts
<1>2. \A q \in Publishers \ {p} : pc'[q] = pc[q] /\ job'[q] = job[q]
  BY DEF IInv, TypeOK
<1>3. Fit(p)'
  BY BuildsAssumption DEF IInv, TypeOK, Fit, Complete, Stored, Good, remote, ghosts
<1>4. job' \in [Publishers -> Job]
  BY JobEdits, BuildsAssumption DEF IInv, TypeOK, Kinds
<1>5. TypeOK'
  BY <1>4 DEF IInv, TypeOK, remote, runtime, ghosts, Working
<1>6. QED
  BY <1>1, <1>2, <1>3, <1>5, OthersKept, ChoicesKept DEF IInv, Ended, remote, runtime, ghosts

LEMMA RollbackInv ==
    ASSUME IInv, NEW p \in Publishers, NEW b \in Builds, Rollback(p, b)
    PROVE  IInv'
<1> USE DEF Rollback, Begin, Goto
<1>1. Kept
  BY UnchangedKept DEF remote, ghosts
<1>2. \A q \in Publishers \ {p} : pc'[q] = pc[q] /\ job'[q] = job[q]
  BY DEF IInv, TypeOK
<1>3. Fit(p)'
  BY BuildsAssumption DEF IInv, TypeOK, Fit, Complete, Stored, Good, remote, ghosts
<1>4. job' \in [Publishers -> Job]
  BY JobEdits, BuildsAssumption DEF IInv, TypeOK, Kinds
<1>5. TypeOK'
  BY <1>4 DEF IInv, TypeOK, remote, runtime, ghosts, Working
<1>6. QED
  BY <1>1, <1>2, <1>3, <1>5, OthersKept, ChoicesKept DEF IInv, Ended, remote, runtime, ghosts

LEMMA WaitActiveInv ==
    ASSUME IInv, NEW p \in Publishers, NEW b \in Builds, WaitActive(p, b)
    PROVE  IInv'
<1> USE DEF WaitActive, Begin, Goto
<1>1. Kept
  BY UnchangedKept DEF remote, ghosts
<1>2. \A q \in Publishers \ {p} : pc'[q] = pc[q] /\ job'[q] = job[q]
  BY DEF IInv, TypeOK
<1>3. Fit(p)'
  BY BuildsAssumption DEF IInv, TypeOK, Fit, Complete, Stored, Good, remote, ghosts
<1>4. job' \in [Publishers -> Job]
  BY JobEdits, BuildsAssumption DEF IInv, TypeOK, Kinds
<1>5. TypeOK'
  BY <1>4 DEF IInv, TypeOK, remote, runtime, ghosts, Working
<1>6. QED
  BY <1>1, <1>2, <1>3, <1>5, OthersKept, ChoicesKept DEF IInv, Ended, remote, runtime, ghosts

LEMMA RebuiltInv ==
    ASSUME IInv, NEW p \in Publishers, NEW b \in Builds, Rebuilt(p, b)
    PROVE  IInv'
<1> USE DEF Rebuilt, Goto
<1>1. Kept
  BY UnchangedKept DEF remote, ghosts
<1>2. \A q \in Publishers \ {p} : pc'[q] = pc[q] /\ job'[q] = job[q]
  BY DEF IInv, TypeOK
<1>3. Fit(p)'
  BY BuildsAssumption DEF IInv, TypeOK, Fit, Complete, Stored, Good, remote, ghosts
<1>4. job' \in [Publishers -> Job]
  <2>1. [job[p] EXCEPT !.build = b, !.expected = active, !.todo = Files[b]] \in Job
    BY JobEdits, BuildsAssumption DEF IInv, TypeOK
  <2>2. QED BY <2>1 DEF IInv, TypeOK
<1>5. TypeOK'
  BY <1>4, BuildsAssumption DEF IInv, TypeOK, remote, runtime, ghosts, Working, Fit
<1>6. QED
  BY <1>1, <1>2, <1>3, <1>5, OthersKept, ChoicesKept DEF IInv, Ended, remote, runtime, ghosts

LEMMA ReserveInv ==
    ASSUME IInv, NEW p \in Publishers, Reserve(p)
    PROVE  IInv'
<1> USE DEF Reserve, Goto
<1>1. Kept
  BY ReserveKept
<1>2. \A q \in Publishers \ {p} : pc'[q] = pc[q] /\ job'[q] = job[q]
  BY DEF IInv, TypeOK
<1>3. Fit(p)'
  BY BuildsAssumption DEF IInv, TypeOK, Fit, Complete, Stored, Good, remote, ghosts
<1>4. job' \in [Publishers -> Job]
  BY JobEdits, BuildsAssumption DEF IInv, TypeOK, Job
<1>5. TypeOK'
  BY <1>4, BuildsAssumption DEF IInv, TypeOK, remote, runtime, ghosts, Working, Fit
<1>6. QED
  BY <1>1, <1>2, <1>3, <1>5, OthersKept, ChoicesKept DEF IInv, Ended, remote, runtime, ghosts

LEMMA UploadInv ==
    ASSUME IInv, NEW p \in Publishers, NEW d \in Digests, Upload(p, d)
    PROVE  IInv'
<1> USE DEF Upload, Goto
<1>1. Kept
  BY UploadKept
<1>2. \A q \in Publishers \ {p} : pc'[q] = pc[q] /\ job'[q] = job[q]
  BY DEF IInv, TypeOK
<1>3. Fit(p)'
  <2>1. job[p].build \in Builds /\ job[p] \in Job
    BY DEF IInv, Fit, TypeOK
  <2>2. CASE job[p].todo = {d}
    <3>1. pc'[p] = "readback" /\ job'[p] = [job[p] EXCEPT !.todo = Files[job[p].build]]
      BY <2>2 DEF IInv, TypeOK
    <3>2. job'[p].build = job[p].build /\ job'[p].todo = Files[job[p].build]
      BY <3>1, <2>1 DEF Job
    <3>3. QED BY <2>1, <3>1, <3>2 DEF Fit
  <2>3. CASE job[p].todo # {d}
    <3>1. pc'[p] = "upload" /\ job'[p] = [job[p] EXCEPT !.todo = @ \ {d}]
      BY <2>3 DEF IInv, TypeOK
    <3>2. job'[p].build = job[p].build
      BY <3>1, <2>1 DEF Job
    <3>3. QED BY <2>1, <3>1, <3>2 DEF Fit
  <2>4. QED BY <2>2, <2>3
<1>4. job' \in [Publishers -> Job]
  <2>1. job[p] \in Job /\ job[p].todo \ {d} \in SUBSET Digests
    BY DEF IInv, TypeOK, Job
  <2>2. Files[job[p].build] \in SUBSET Digests
    BY BuildsAssumption DEF IInv, Fit
  <2>3. /\ [job[p] EXCEPT !.todo = @ \ {d}] \in Job
        /\ [job[p] EXCEPT !.todo = Files[job[p].build]] \in Job
    BY <2>1, <2>2, JobEdits
  <2>4. QED BY <2>3 DEF IInv, TypeOK
<1>5. TypeOK'
  BY <1>4, BuildsAssumption DEF IInv, TypeOK, remote, runtime, ghosts, Working, Fit
<1>6. QED
  BY <1>1, <1>2, <1>3, <1>5, OthersKept, ChoicesKept DEF IInv, Ended, remote, runtime, ghosts

LEMMA ReadbackInv ==
    ASSUME IInv, NEW p \in Publishers, NEW d \in Digests, Readback(p, d)
    PROVE  IInv'
<1> USE DEF Readback, Goto
<1>1. Kept
  BY UnchangedKept DEF remote, ghosts
<1>2. \A q \in Publishers \ {p} : pc'[q] = pc[q] /\ job'[q] = job[q]
  BY DEF IInv, TypeOK
<1>3. Fit(p)'
  BY BuildsAssumption DEF IInv, TypeOK, Fit, Complete, Stored, Good, remote, ghosts
<1>4. job' \in [Publishers -> Job]
  <2>1. job[p] \in Job /\ job[p].todo \ {d} \in SUBSET Digests
    BY DEF IInv, TypeOK, Job
  <2>2. [job[p] EXCEPT !.todo = @ \ {d}] \in Job
    BY <2>1, JobEdits
  <2>3. QED BY <2>2 DEF IInv, TypeOK
<1>5. TypeOK'
  BY <1>4, BuildsAssumption DEF IInv, TypeOK, remote, runtime, ghosts, Working, Fit
<1>6. QED
  BY <1>1, <1>2, <1>3, <1>5, OthersKept, ChoicesKept DEF IInv, Ended, remote, runtime, ghosts

LEMMA ReadHistoryInv ==
    ASSUME IInv, NEW p \in Publishers, ReadHistory(p)
    PROVE  IInv'
<1> USE DEF ReadHistory, Goto
<1>1. Kept
  BY UnchangedKept DEF remote, ghosts
<1>2. \A q \in Publishers \ {p} : pc'[q] = pc[q] /\ job'[q] = job[q]
  BY DEF IInv, TypeOK
<1>3. Fit(p)'
  BY BuildsAssumption DEF IInv, TypeOK, Fit, Complete, Stored, Good, remote, ghosts
<1>4. job' \in [Publishers -> Job]
  <2>1. [job[p] EXCEPT !.seen = history] \in Job
    BY JobEdits DEF IInv, TypeOK
  <2>2. QED BY <2>1 DEF IInv, TypeOK
<1>5. TypeOK'
  BY <1>4, BuildsAssumption DEF IInv, TypeOK, remote, runtime, ghosts, Working, Fit
<1>6. QED
  BY <1>1, <1>2, <1>3, <1>5, OthersKept, ChoicesKept DEF IInv, Ended, remote, runtime, ghosts

LEMMA GiveUpInv ==
    ASSUME IInv, NEW p \in Publishers, GiveUp(p)
    PROVE  IInv'
<1> USE DEF GiveUp
<1>1. Kept
  BY UnchangedKept DEF remote, ghosts
<1>2. \E o \in Ended : End(p, o)
  BY DEF Ended
<1>3. TypeOK'
  BY <1>2, EndFits DEF IInv, TypeOK, remote, runtime, ghosts
<1>4. QED
  BY <1>1, <1>2, <1>3, EndFits, OthersKept, ChoicesKept DEF IInv, Ended, remote, runtime, ghosts

LEMMA RaiseInv ==
    ASSUME IInv, NEW p \in Publishers, Raise(p)
    PROVE  IInv'
<1> USE DEF Raise
<1>1. Kept
  BY UnchangedKept DEF remote, ghosts
<1>2. \E o \in Ended : End(p, o)
  BY DEF Ended
<1>3. TypeOK'
  BY <1>2, EndFits DEF IInv, TypeOK, remote, runtime, ghosts
<1>4. QED
  BY <1>1, <1>2, <1>3, EndFits, OthersKept, ChoicesKept DEF IInv, Ended, remote, runtime, ghosts

LEMMA CommitInv ==
    ASSUME IInv, NEW p \in Publishers, Commit(p)
    PROVE  IInv'
<1> USE DEF Commit, Moved, Goto
<1>1. Kept
  BY UnchangedKept
<1>2. job[p] \in Job /\ job[p].build \in Builds /\ Complete(job[p].build)
  BY DEF IInv, TypeOK, Fit
<1>3. \A q \in Publishers \ {p} : pc'[q] = pc[q] /\ job'[q] = job[q]
  BY DEF IInv, TypeOK, End
<1>4. Fit(p)' /\ job' \in [Publishers -> Job]
  <2>1. CASE End(p, "raised")
    BY <2>1, EndFits DEF IInv, Ended
  <2>2. CASE Goto(p, "confirm") /\ job' = [job EXCEPT ![p].base = None, ![p].expected = None,
                                                    ![p].moved = TRUE]
    <3>1. [job[p] EXCEPT !.base = None, !.expected = None, !.moved = TRUE] \in Job
      BY <1>2, JobEdits
    <3>2. job' \in [Publishers -> Job] /\ pc'[p] = "confirm" /\ job'[p].build = job[p].build
      BY <2>2, <3>1, <1>2 DEF IInv, TypeOK, Job
    <3>3. QED BY <1>2, <3>2 DEF Fit
  <2>3. QED BY <2>1, <2>2
<1>5. TypeOK'
  BY <1>2, <1>4 DEF IInv, TypeOK, End, Ended, Working, runtime
<1>6. Choices'
  <2>1. \A b \in chosen' : Complete(b)'
    BY <1>1, <1>2 DEF IInv, TypeOK, Choices, Kept
  <2>2. QED
    BY <2>1 DEF IInv, TypeOK, Choices, HistoryConfirmed, RangeOf, runtime
<1>7. QED
  BY <1>1, <1>3, <1>4, <1>5, <1>6, OthersKept DEF IInv

LEMMA ActivateHereInv ==
    ASSUME IInv, NEW p \in Publishers, ActivateHere(p)
    PROVE  IInv'
<1> USE DEF ActivateHere, Goto
<1>1. Kept
  BY UnchangedKept DEF remote, ghosts
<1>2. job[p].build \in chosen
  BY DEF IInv, Fit
<1>3. TypeOK'
  BY <1>2 DEF IInv, TypeOK, remote, runtime, ghosts, Working
<1>4. \A q \in Publishers : Fit(q)'
  <2>1. Fit(p)'
    BY <1>2, <1>3 DEF IInv, TypeOK, Fit
  <2>2. \A q \in Publishers \ {p} : pc'[q] = pc[q] /\ job'[q] = job[q]
    BY DEF IInv, TypeOK
  <2>3. QED BY <1>1, <2>1, <2>2, FitKept DEF IInv
<1>5. ASSUME NEW a \in Activators PROVE Apt(a)'
  <2>1. CASE a = p
    <3>1. /\ act'[a] = [at |-> "waiting", build |-> job[p].build]
          /\ pc'[a] = "activating" /\ job' = job /\ chosen' = chosen
      BY <2>1 DEF IInv, TypeOK, ghosts
    <3>2. QED BY <3>1, <2>1, <1>2 DEF Apt
  <2>2. CASE a # p
    <3>1. act'[a] = act[a] /\ job' = job /\ chosen' = chosen /\ (a \in Local => pc'[a] = pc[a])
      BY <2>2, BuildsAssumption DEF IInv, TypeOK, ghosts
    <3>2. QED BY <3>1 DEF IInv, Apt
  <2>3. QED BY <2>1, <2>2
<1>6. QED
  BY <1>1, <1>3, <1>4, <1>5, ChoicesKept DEF IInv, remote, runtime, ghosts

\* After a confirmation the command goes on to the history, or ends.
LEMMA ConfirmedFits ==
    ASSUME TypeOK, NEW p \in Publishers, Confirmed(p),
           job[p].kind \in {"publish", "refresh"} =>
             job[p].build \in Builds /\ job[p].build \in served'
    PROVE  /\ Fit(p)'
           /\ pc' \in [Publishers -> Ended \cup Working] /\ job' \in [Publishers -> Job]
           /\ \A q \in Publishers \ {p} : pc'[q] = pc[q] /\ job'[q] = job[q]
<1>1. CASE job[p].kind \in {"publish", "refresh"}
  <2>1. pc'[p] = "record" /\ job' = job /\ pc' \in [Publishers -> Ended \cup Working]
    BY <1>1 DEF TypeOK, Confirmed, Goto, Working
  <2>2. QED BY <1>1, <2>1 DEF TypeOK, Confirmed, Goto, Fit
<1>2. CASE job[p].kind \notin {"publish", "refresh"}
  BY <1>2, EndFits DEF Confirmed, Ended
<1>3. QED BY <1>1, <1>2

LEMMA AcknowledgeInv ==
    ASSUME IInv, NEW p \in Publishers, Acknowledge(p)
    PROVE  IInv'
<1> USE DEF Acknowledge
<1>1. Kept
  BY UnchangedKept DEF remote, ghosts
<1>2. job[p].build \in Builds /\ job[p].build \in served'
  BY BuildsAssumption DEF IInv, Fit, Choices, ghosts
<1>3. TypeOK'
  BY <1>2, ConfirmedFits DEF IInv, TypeOK, remote, runtime, ghosts
<1>4. QED
  BY <1>1, <1>2, <1>3, ConfirmedFits, OthersKept, ChoicesKept DEF IInv, remote, runtime, ghosts

LEMMA WriteHistoryInv ==
    ASSUME IInv, NEW p \in Publishers, WriteHistory(p)
    PROVE  IInv'
<1> USE DEF WriteHistory
<1>1. Kept
  BY UnchangedKept DEF ghosts
<1>2. \E o \in Ended : End(p, o)
  BY DEF Ended
<1>3. job[p].build \in Builds /\ job[p].build \in served /\ history \in Seq(Builds)
  BY DEF IInv, TypeOK, Fit
<1>4. /\ history' \in Seq(Builds)
      /\ RangeOf(history') \subseteq {job[p].build} \cup RangeOf(history)
  BY <1>3, OthersAreEntries, PrependEntry
<1>5. TypeOK'
  BY <1>2, <1>4, EndFits DEF IInv, TypeOK, runtime, ghosts
<1>6. RangeOf(history') \subseteq served'
  BY <1>3, <1>4 DEF IInv, Choices, HistoryConfirmed, ghosts
<1>7. Choices'
  <2>1. \A b \in chosen' : Complete(b)'
    BY <1>1 DEF IInv, TypeOK, Choices, Kept, ghosts
  <2>2. HistoryConfirmed'
    BY <1>6 DEF HistoryConfirmed, RangeOf
  <2>3. QED BY <2>1, <2>2 DEF IInv, Choices, runtime, ghosts
<1>8. QED
  BY <1>1, <1>2, <1>5, <1>7, EndFits, OthersKept DEF IInv

LEMMA CrashInv ==
    ASSUME IInv, NEW p \in Publishers, Crash(p)
    PROVE  IInv'
<1> USE DEF Crash
<1>1. Kept
  BY UnchangedKept DEF remote, ghosts
<1>2. End(p, "idle") /\ "idle" \in Ended
  BY DEF Ended
<1>3. act' \in [Activators -> [at : {"out", "waiting", "locked", "staged"},
                               build : Builds \cup {None}]]
  BY DEF IInv, TypeOK, NotActivating
<1>4. TypeOK'
  BY <1>2, <1>3, EndFits DEF IInv, TypeOK, remote, runtime, ghosts
<1>5. \A q \in Publishers : Fit(q)'
  BY <1>1, <1>2, EndFits, FitKept DEF IInv
<1>6. ASSUME NEW a \in Activators PROVE Apt(a)'
  <2>1. CASE a = p
    <3>1. a \in Local
      BY <2>1, BuildsAssumption DEF Activators
    <3>2. act'[a] = NotActivating
      BY <2>1, <3>1 DEF IInv, TypeOK
    <3>3. QED BY <3>2 DEF Apt, NotActivating
  <2>2. CASE a # p
    <3>1. act'[a] = act[a] /\ (a \in Local => pc'[a] = pc[a] /\ job'[a] = job[a])
      BY <1>2, <2>2, EndFits, BuildsAssumption DEF IInv, TypeOK
    <3>2. QED BY <3>1 DEF IInv, Apt, ghosts
  <2>3. QED BY <2>1, <2>2
<1>7. QED
  BY <1>1, <1>4, <1>5, <1>6, ChoicesKept DEF IInv, remote, runtime, ghosts

LEMMA RecoverInv ==
    ASSUME IInv, NEW p \in Publishers, NEW kind \in Recovering, Recover(p, kind)
    PROVE  IInv'
<1> USE DEF Recover, Begin, Goto
<1>1. Kept
  BY UnchangedKept DEF remote, ghosts
<1>2. active \in chosen
  BY DEF IInv, Choices
<1>3. job' \in [Publishers -> Job]
  BY JobEdits DEF IInv, TypeOK, Kinds, Recovering
<1>4. TypeOK'
  BY <1>3 DEF IInv, TypeOK, remote, runtime, ghosts, Working
<1>5. \A q \in Publishers : Fit(q)'
  <2>1. Fit(p)'
    BY DEF IInv, TypeOK, Fit
  <2>2. \A q \in Publishers \ {p} : pc'[q] = pc[q] /\ job'[q] = job[q]
    BY DEF IInv, TypeOK
  <2>3. QED BY <1>1, <2>1, <2>2, FitKept DEF IInv
<1>6. ASSUME NEW a \in Activators PROVE Apt(a)'
  <2>1. CASE a = p
    <3>1. /\ act'[a] = [at |-> "waiting", build |-> active] /\ chosen' = chosen
          /\ pc'[a] = "activating" /\ job'[a].kind \in Recovering
      BY <2>1 DEF IInv, TypeOK, ghosts
    <3>2. QED BY <3>1, <1>2 DEF Apt
  <2>2. CASE a # p
    <3>1. act'[a] = act[a] /\ (a \in Local => pc'[a] = pc[a] /\ job'[a] = job[a])
      BY <2>2, BuildsAssumption DEF IInv, TypeOK
    <3>2. QED BY <3>1 DEF IInv, Apt, ghosts
  <2>3. QED BY <2>1, <2>2
<1>7. QED
  BY <1>1, <1>4, <1>5, <1>6, ChoicesKept DEF IInv, remote, runtime, ghosts

\* The steps of one activation before its last.
LEMMA LockOrStageInv ==
    ASSUME IInv, NEW a \in Activators, LockRuntime(a) \/ Stage(a)
    PROVE  IInv'
<1>1. Kept
  BY UnchangedKept DEF LockRuntime, Stage, remote, ghosts
<1>2. /\ UNCHANGED <<manifest, object, active, history, pc, job, local, server, spoiled,
                     chosen, served>>
      /\ staged' \in [Pubs -> Builds \cup {None, Damaged}]
      /\ act[a].at # "out"
  <2>1. CASE LockRuntime(a)
    BY <2>1 DEF LockRuntime, remote, runtime, ghosts, IInv, TypeOK
  <2>2. CASE Stage(a)
    <3>1. act[a].build \in Builds
      BY <2>2 DEF Stage, IInv, TypeOK, Apt
    <3>2. QED BY <2>2, <3>1, BuildsAssumption DEF Stage, remote, ghosts, IInv, TypeOK
  <2>3. QED BY <2>1, <2>2
<1>3. /\ act' \in [Activators -> [at : {"out", "waiting", "locked", "staged"},
                                   build : Builds \cup {None}]]
      /\ act'[a].build = act[a].build
      /\ \A c \in Activators \ {a} : act'[c] = act[c]
  BY DEF LockRuntime, Stage, IInv, TypeOK
<1>4. TypeOK'
  BY <1>2, <1>3 DEF IInv, TypeOK
<1>5. ASSUME NEW c \in Activators PROVE Apt(c)'
  BY <1>2, <1>3 DEF IInv, Apt
<1>6. QED
  BY <1>1, <1>2, <1>4, <1>5, CommandsKept, ChoicesKept DEF IInv

LEMMA SwitchInv ==
    ASSUME IInv, NEW a \in Activators, Switch(a)
    PROVE  IInv'
<1> USE DEF Switch
<1>1. Kept
  BY UnchangedKept DEF remote
<1>2. act[a].build \in chosen /\ act[a].build \in Builds
  BY DEF IInv, TypeOK, Apt
<1>3. act'[a].at = "out" /\ \A c \in Activators \ {a} : act'[c] = act[c]
  BY DEF IInv, TypeOK, NotActivating
<1>4. act' \in [Activators -> [at : {"out", "waiting", "locked", "staged"},
                               build : Builds \cup {None}]]
  BY DEF IInv, TypeOK, NotActivating
<1>5. /\ pc' \in [Publishers -> Ended \cup Working] /\ job' \in [Publishers -> Job]
      /\ \A q \in Publishers : q # a => pc'[q] = pc[q] /\ job'[q] = job[q]
      /\ a \in Publishers => Fit(a)'
  <2>1. CASE a \in Local
    <3>1. a \in Publishers /\ Confirmed(a)
      BY <2>1, BuildsAssumption
    <3>2. job[a].kind \in {"publish", "refresh"} =>
            job[a].build \in Builds /\ job[a].build \in served'
      BY <2>1, <1>2 DEF IInv, Apt, Recovering
    <3>3. QED BY <3>1, <3>2, ConfirmedFits DEF IInv
  <2>2. CASE a \notin Local
    BY <2>2, BuildsAssumption DEF IInv, TypeOK, Activators
  <2>3. QED BY <2>1, <2>2
<1>6. TypeOK'
  BY <1>2, <1>4, <1>5 DEF IInv, TypeOK, remote
<1>7. \A q \in Publishers : Fit(q)'
  BY <1>1, <1>5, FitKept DEF IInv
<1>8. ASSUME NEW c \in Activators PROVE Apt(c)'
  <2>1. CASE c = a
    BY <2>1, <1>3 DEF Apt
  <2>2. CASE c # a
    <3>1. act'[c] = act[c] /\ (c \in Local => pc'[c] = pc[c] /\ job'[c] = job[c])
      BY <1>3, <1>5, <2>2, BuildsAssumption
    <3>2. QED BY <3>1 DEF IInv, Apt
  <2>3. QED BY <2>1, <2>2
<1>9. Choices'
  <2>1. \A b \in chosen' : Complete(b)'
    BY <1>1 DEF IInv, TypeOK, Choices, Kept
  <2>2. QED
    BY <2>1, <1>2 DEF IInv, Choices, HistoryConfirmed, RangeOf, remote
<1>10. QED
  BY <1>6, <1>7, <1>8, <1>9 DEF IInv

LEMMA AbortActivationInv ==
    ASSUME IInv, NEW a \in Activators, AbortActivation(a)
    PROVE  IInv'
<1> USE DEF AbortActivation
<1>1. Kept
  BY UnchangedKept DEF remote, ghosts
<1>2. act'[a].at = "out" /\ \A c \in Activators \ {a} : act'[c] = act[c]
  BY DEF IInv, TypeOK, NotActivating
<1>3. act' \in [Activators -> [at : {"out", "waiting", "locked", "staged"},
                               build : Builds \cup {None}]]
  BY DEF IInv, TypeOK, NotActivating
<1>4. /\ pc' \in [Publishers -> Ended \cup Working] /\ job' \in [Publishers -> Job]
      /\ \A q \in Publishers : q # a => pc'[q] = pc[q] /\ job'[q] = job[q]
      /\ a \in Publishers => Fit(a)'
  <2>1. CASE a \in Local
    <3>1. a \in Publishers /\ \E o \in Ended : End(a, o)
      BY <2>1, BuildsAssumption DEF Ended
    <3>2. QED BY <3>1, EndFits DEF IInv
  <2>2. CASE a \notin Local
    BY <2>2, BuildsAssumption DEF IInv, TypeOK, Activators
  <2>3. QED BY <2>1, <2>2
<1>5. TypeOK'
  BY <1>3, <1>4 DEF IInv, TypeOK, remote, runtime, ghosts
<1>6. \A q \in Publishers : Fit(q)'
  BY <1>1, <1>4, FitKept DEF IInv
<1>7. ASSUME NEW c \in Activators PROVE Apt(c)'
  <2>1. CASE c = a
    BY <2>1, <1>2 DEF Apt
  <2>2. CASE c # a
    <3>1. act'[c] = act[c] /\ (c \in Local => pc'[c] = pc[c] /\ job'[c] = job[c])
      BY <1>2, <1>4, <2>2, BuildsAssumption
    <3>2. QED BY <3>1 DEF IInv, Apt, ghosts
  <2>3. QED BY <2>1, <2>2
<1>8. QED
  BY <1>1, <1>5, <1>6, <1>7, ChoicesKept DEF IInv, remote, runtime, ghosts

\* The service and its disk: no command, object or choice is touched.
LEMMA ServerInv ==
    ASSUME IInv,
           \/ Tick \/ Resume \/ ResumeInvalid \/ Quarantine \/ Stop
           \/ \E u \in Pubs : Damage(u)
    PROVE  IInv'
<1> USE DEF Tick, Resume, ResumeInvalid, Quarantine, Stop, Damage
<1>1. /\ UNCHANGED <<manifest, object, active, history, pc, job, chosen, served>>
      /\ local' \in {local, None}
  BY DEF remote, runtime, ghosts
<1>2. Kept
  BY <1>1, UnchangedKept
<1>3. /\ act' \in [Activators -> [at : {"out", "waiting", "locked", "staged"},
                                   build : Builds \cup {None}]]
      /\ \A c \in Activators : \/ act'[c] = act[c]
                               \/ act'[c].at = "out"
                               \/ c = Updater /\ act'[c].build \in chosen
  BY DEF IInv, TypeOK, Choices, NotActivating, Activators
<1>4. TypeOK'
  <2>1. staged' \in [Pubs -> Builds \cup {None, Damaged}]
    BY DEF IInv, TypeOK, runtime
  <2>2. /\ server' \in {"down", "up", "quarantine"}
        /\ spoiled' \in Pubs \cup {None}
    BY BuildsAssumption DEF IInv, TypeOK, runtime
  <2>3. QED BY <1>1, <1>3, <2>1, <2>2 DEF IInv, TypeOK
<1>5. ASSUME NEW c \in Activators PROVE Apt(c)'
  BY <1>1, <1>3, BuildsAssumption DEF IInv, Apt
<1>6. Choices'
  <2>1. \A b \in chosen' : Complete(b)'
    BY <1>1, <1>2 DEF IInv, TypeOK, Choices, Kept
  <2>2. QED BY <1>1, <2>1 DEF IInv, Choices, HistoryConfirmed, RangeOf
<1>7. QED
  BY <1>1, <1>2, <1>4, <1>5, <1>6, CommandsKept DEF IInv

LEMMA NextIInv == IInv /\ [Next]_vars => IInv'
<1> SUFFICES ASSUME IInv, [Next]_vars PROVE IInv'
  OBVIOUS
<1>1. ASSUME NEW p \in Publishers, Command(p) PROVE IInv'
  BY <1>1, PublishInv, RollbackInv, WaitActiveInv, RefreshInv, RecoverInv DEF Command
<1>2. ASSUME NEW p \in Publishers, Proceed(p) PROVE IInv'
  BY <1>2, RebuiltInv, ReserveInv, UploadInv, ReadbackInv, CommitInv, ActivateHereInv,
     AcknowledgeInv, GiveUpInv, ReadHistoryInv, WriteHistoryInv, RaiseInv DEF Proceed
<1>3. ASSUME NEW a \in Activators, Activation(a) PROVE IInv'
  BY <1>3, LockOrStageInv, SwitchInv, AbortActivationInv DEF Activation
<1>4. CASE Tick \/ Resume \/ ResumeInvalid \/ Quarantine \/ Stop \/ \E u \in Pubs : Damage(u)
  BY <1>4, ServerInv
<1>5. CASE UNCHANGED vars
  <2>1. UNCHANGED <<manifest, object, active, history, pc, job, act, staged, local, server,
                    spoiled, chosen, served>>
    BY <1>5 DEF vars, remote, runtime, ghosts
  <2>2. QED
    BY <2>1 DEF IInv, TypeOK, Fit, Apt, Choices, HistoryConfirmed, RangeOf, Complete, Stored, Good
<1>6. QED
  BY <1>1, <1>2, <1>3, <1>4, <1>5, CrashInv, BuildsAssumption DEF Next

----------------------------------------------------------------------------
(* Theorems *)

\* Commands, activations and the service keep what each of them relies on.
THEOREM Invariance == Spec => []IInv
  BY InitIInv, NextIInv, PTL DEF Spec

\* Every variable keeps its type, for any builds, publishers and faults.
THEOREM TypeCorrect == Spec => []TypeOK
<1>1. IInv => TypeOK
  BY DEF IInv
<1>2. QED BY <1>1, Invariance, PTL

\* Whatever control/active.json names is stored in full and correct (publish, rollback).
THEOREM PointerComplete == Spec => []ActiveComplete
<1>1. IInv => ActiveComplete
  BY DEF IInv, Choices, ActiveComplete
<1>2. QED BY <1>1, Invariance, PTL

\* control/successful.json lists only builds a runtime has served (publish_build).
THEOREM HistoryIsConfirmed == Spec => []HistoryConfirmed
<1>1. IInv => HistoryConfirmed
  BY DEF IInv, Choices
<1>2. QED BY <1>1, Invariance, PTL

----------------------------------------------------------------------------
(* Refinement of ActivePointer *)

complete == {b \in Builds : Complete(b)}

\* A step that chooses and serves nothing is an upload of ActivePointer, or a stutter.
LEMMA UploadRefines ==
    ASSUME Kept, UNCHANGED <<active, chosen, local>>
    PROVE  Pointer!Next
<1>1. complete \subseteq complete'
  BY DEF Kept, complete
<1>2. QED BY <1>1 DEF Pointer!Next, Pointer!Upload, complete

LEMMA CommitRefines ==
    ASSUME IInv, NEW p \in Publishers, Commit(p)
    PROVE  Pointer!Next
<1>1. job[p].build \in complete /\ job[p].build \in Builds
  BY DEF IInv, Fit, Commit, complete
<1>2. complete' = complete
  BY DEF Commit, complete, Complete, Stored, Good
<1>3. Pointer!Choose(job[p].build)
  BY <1>1, <1>2 DEF Pointer!Choose, Commit, Moved, complete, runtime
<1>4. QED BY <1>1, <1>3 DEF Pointer!Next

LEMMA SwitchRefines ==
    ASSUME IInv, NEW a \in Activators, Switch(a)
    PROVE  Pointer!Next
<1>1. act[a].build \in chosen /\ act[a].build \in Builds
  BY DEF IInv, TypeOK, Apt, Switch
<1>2. complete' = complete
  BY DEF Switch, complete, Complete, Stored, Good, remote
<1>3. Pointer!Serve(act[a].build)
  BY <1>1, <1>2 DEF Pointer!Serve, Switch, complete, remote
<1>4. QED BY <1>1, <1>3 DEF Pointer!Next

LEMMA WithdrawRefines ==
    ASSUME ResumeInvalid
    PROVE  Pointer!Next
<1>1. complete' = complete
  BY DEF ResumeInvalid, complete, Complete, Stored, Good, remote
<1>2. QED BY <1>1 DEF Pointer!Next, Pointer!Withdraw, ResumeInvalid, complete, remote, ghosts

\* Every step that neither commits, switches nor withdraws.
LEMMA OthersRefine ==
    ASSUME IInv,
           \/ \E p \in Publishers : \/ Command(p) \/ Crash(p)
                                    \/ Proceed(p) /\ ~Commit(p)
           \/ \E a \in Activators : Activation(a) /\ ~Switch(a)
           \/ Tick \/ Resume \/ Quarantine \/ Stop
           \/ \E u \in Pubs : Damage(u)
    PROVE  Pointer!Next
<1>1. CASE \E p \in Publishers : Command(p) \/ Crash(p)
  BY <1>1, UnchangedKept, UploadRefines
     DEF Command, Publish, Refresh, Rollback, Recover, WaitActive, Begin, Crash,
         remote, runtime, ghosts
<1>2. ASSUME NEW p \in Publishers, Proceed(p), ~Commit(p) PROVE Pointer!Next
  <2>1. CASE Reserve(p)
    BY <2>1, ReserveKept, UploadRefines DEF Reserve, runtime, ghosts
  <2>2. CASE \E d \in Digests : Upload(p, d)
    BY <2>2, UploadKept, UploadRefines DEF Upload, runtime, ghosts
  <2>3. CASE ~Reserve(p) /\ ~\E d \in Digests : Upload(p, d)
    BY <1>2, <2>3, UnchangedKept, UploadRefines
       DEF Proceed, Rebuilt, Readback, ActivateHere, Acknowledge, GiveUp, ReadHistory,
           WriteHistory, Raise, remote, runtime, ghosts
  <2>4. QED BY <2>1, <2>2, <2>3
<1>3. CASE \E a \in Activators : Activation(a) /\ ~Switch(a)
  BY <1>3, UnchangedKept, UploadRefines
     DEF Activation, LockRuntime, Stage, AbortActivation, remote, runtime, ghosts
<1>4. CASE Tick \/ Resume \/ Quarantine \/ Stop \/ \E u \in Pubs : Damage(u)
  BY <1>4, UnchangedKept, UploadRefines
     DEF Tick, Resume, Quarantine, Stop, Damage, remote, runtime, ghosts
<1>5. QED BY <1>1, <1>2, <1>3, <1>4

\* The publication lifecycle implements ActivePointer: whatever commands, the updater,
\* crashes and damaged disks do, only complete builds are chosen and only chosen ones served.
THEOREM Refinement == Spec => PointerSpec
<1>1. Init => Pointer!Init
  BY BuildsAssumption DEF Init, Pointer!Init, Complete, Stored
<1>2. IInv /\ [Next]_vars => [Pointer!Next]_(Pointer!vars)
  <2> SUFFICES ASSUME IInv, [Next]_vars PROVE [Pointer!Next]_(Pointer!vars)
    OBVIOUS
  <2>1. ASSUME NEW p \in Publishers, Command(p) \/ Proceed(p) \/ Crash(p)
        PROVE  Pointer!Next
    BY <2>1, CommitRefines, OthersRefine
  <2>2. ASSUME NEW a \in Activators, Activation(a) PROVE Pointer!Next
    BY <2>2, SwitchRefines, OthersRefine
  <2>3. CASE Tick \/ Resume \/ ResumeInvalid \/ Quarantine \/ Stop \/ \E u \in Pubs : Damage(u)
    BY <2>3, WithdrawRefines, OthersRefine
  <2>4. CASE UNCHANGED vars
    BY <2>4 DEF vars, remote, runtime, ghosts, Pointer!vars, Complete, Stored, Good
  <2>5. QED
    BY <2>1, <2>2, <2>3, <2>4, BuildsAssumption DEF Next
<1>3. QED BY <1>1, <1>2, Invariance, PTL DEF Spec, PointerSpec, Pointer!Spec

----------------------------------------------------------------------------
(* The runtime's pointer *)

\* A service that is down activates nothing, and one that sets a version aside has no pointer to it.
ServerSound ==
    /\ server \in {"down", "quarantine"} => act[Updater].at = "out"
    /\ server = "quarantine" => Local = {} /\ local = None

RuntimeInv == IInv /\ ServerSound /\ LocalStaged

\* What is staged stays, or decays; the pointer stays, or is withdrawn.
LEMMA StagedStays ==
    ASSUME IInv, LocalStaged, local' \in {local, None},
           \A u \in Pubs : staged'[u] \in {staged[u], Damaged} \/ staged[u] = None
    PROVE  LocalStaged'
<1>1. local \in Builds => PubId[local] \in Pubs
  BY BuildsAssumption
<1>2. QED BY <1>1, BuildsAssumption DEF IInv, TypeOK, LocalStaged

\* A step of a command, or its death, changes neither the service nor what is staged.
LEMMA CommandRuntime ==
    ASSUME IInv, RuntimeInv, NEW p \in Publishers, Command(p) \/ Proceed(p) \/ Crash(p)
    PROVE  ServerSound' /\ LocalStaged'
<1>1. UNCHANGED <<staged, local, server>>
  BY DEF Command, Publish, Refresh, Rollback, Recover, WaitActive, Begin, Proceed, Rebuilt,
         Reserve, Upload, Readback, Commit, ActivateHere, Acknowledge, GiveUp, ReadHistory,
         WriteHistory, Raise, Crash, runtime
<1>2. act'[Updater] = act[Updater]
  <2>1. p # Updater
    BY BuildsAssumption
  <2>2. QED
    BY <2>1 DEF IInv, TypeOK, Activators,
         Command, Publish, Refresh, Rollback, Recover, WaitActive, Begin, Proceed, Rebuilt,
         Reserve, Upload, Readback, Commit, ActivateHere, Acknowledge, GiveUp, ReadHistory,
         WriteHistory, Raise, Crash
<1>3. QED BY <1>1, <1>2 DEF RuntimeInv, ServerSound, LocalStaged

LEMMA ActivationRuntime ==
    ASSUME RuntimeInv, NEW a \in Activators, Activation(a)
    PROVE  ServerSound' /\ LocalStaged'
<1>1. act[a].at # "out" /\ act[a].build \in Builds /\ PubId[act[a].build] \in Pubs
  BY BuildsAssumption
     DEF Activation, LockRuntime, Stage, Switch, AbortActivation, RuntimeInv, IInv, TypeOK, Apt
<1>2. server # "quarantine" /\ server' = server
  BY <1>1 DEF Activation, LockRuntime, Stage, Switch, AbortActivation, runtime,
              RuntimeInv, ServerSound, Activators
<1>3. ServerSound'
  <2>1. \A c \in Activators \ {a} : act'[c] = act[c]
    BY DEF Activation, LockRuntime, Stage, Switch, AbortActivation, RuntimeInv, IInv, TypeOK
  <2>2. QED BY <1>1, <1>2, <2>1 DEF RuntimeInv, ServerSound, Activators
<1>4. LocalStaged'
  <2>1. CASE LockRuntime(a) \/ AbortActivation(a)
    BY <2>1 DEF LockRuntime, AbortActivation, runtime, RuntimeInv, LocalStaged
  <2>2. CASE Stage(a)
    <3>1. local' = local /\ \A u \in Pubs : staged'[u] = staged[u] \/ staged[u] = None
      BY <2>2, <1>1 DEF Stage, RuntimeInv, IInv, TypeOK
    <3>2. QED BY <3>1, StagedStays DEF RuntimeInv
  <2>3. CASE Switch(a)
    BY <2>3 DEF Switch, LocalStaged
  <2>4. QED BY <2>1, <2>2, <2>3 DEF Activation
<1>5. QED BY <1>3, <1>4

LEMMA ServiceRuntime ==
    ASSUME RuntimeInv,
           \/ Tick \/ Resume \/ ResumeInvalid \/ Quarantine \/ Stop
           \/ \E u \in Pubs : Damage(u)
           \/ UNCHANGED vars
    PROVE  ServerSound' /\ LocalStaged'
<1>1. CASE Tick \/ Resume
  BY <1>1 DEF Tick, Resume, runtime, RuntimeInv, ServerSound, LocalStaged, IInv, TypeOK
<1>2. CASE ResumeInvalid
  BY <1>2 DEF ResumeInvalid, RuntimeInv, ServerSound, LocalStaged
<1>3. CASE Quarantine
  BY <1>3 DEF Quarantine, RuntimeInv, ServerSound, LocalStaged
<1>4. CASE Stop
  BY <1>4 DEF Stop, RuntimeInv, ServerSound, LocalStaged, IInv, TypeOK, Activators, NotActivating
<1>5. CASE \E u \in Pubs : Damage(u)
  <2>1. /\ UNCHANGED <<local, server, act>>
        /\ \A u \in Pubs : staged'[u] \in {staged[u], Damaged}
    BY <1>5 DEF Damage, RuntimeInv, IInv, TypeOK
  <2>2. QED BY <2>1, StagedStays DEF RuntimeInv, ServerSound
<1>6. CASE UNCHANGED vars
  BY <1>6 DEF vars, runtime, RuntimeInv, ServerSound, LocalStaged
<1>7. QED BY <1>1, <1>2, <1>3, <1>4, <1>5, <1>6

\* A pointer never names what is not there: the remote one a publication that is complete, the
\* runtime's a version that is staged (resume_cached, publication.py:448-480).
THEOREM PointersAlwaysHold == Spec => []PointersHold
<1>1. Init => ServerSound /\ LocalStaged
  BY DEF Init, ServerSound, LocalStaged, Activators, NotActivating
<1>2. IInv /\ ServerSound /\ LocalStaged /\ [Next]_vars => ServerSound' /\ LocalStaged'
  <2> SUFFICES ASSUME RuntimeInv, [Next]_vars PROVE ServerSound' /\ LocalStaged'
    BY DEF RuntimeInv
  <2>1. IInv
    BY DEF RuntimeInv
  <2>2. QED
    BY <2>1, CommandRuntime, ActivationRuntime, ServiceRuntime, BuildsAssumption DEF Next
<1>3. Spec => [](ServerSound /\ LocalStaged)
  BY <1>1, <1>2, Invariance, PTL DEF Spec
<1>4. ActiveComplete /\ ServerSound /\ LocalStaged => PointersHold
  BY DEF PointersHold
<1>5. QED BY <1>3, <1>4, PointerComplete, PTL

----------------------------------------------------------------------------
(* The order of publications *)

\* All commands take the same .publisher.lock, as the commands of one --runtime do.
OneLock == \A p, q \in Publishers : LockOf[p] = LockOf[q]

Locked(p) == pc[p] \in Working /\ job[p].kind \notin Unlocked

BeforeCommit == {"rebuild", "reserve", "upload", "readback", "commit"}

\* One command holds the lock, and until a command moves the pointer it is as it found it.
Sole == \A p, q \in Publishers : Locked(p) /\ Locked(q) => p = q
Based == \A p \in Publishers : pc[p] \in BeforeCommit =>
    job[p].kind \in {"publish", "refresh", "rollback"} /\ job[p].base = active

OrderInv == TypeOK /\ Sole /\ Based

----------------------------------------------------------------------------
(* What a step does to a command *)

\* The command ends, or goes on with what it has.
Onward(q) ==
    \/ pc'[q] \in Ended
    \/ /\ pc[q] \in Working /\ pc'[q] \in Working /\ job'[q].kind = job[q].kind
       /\ pc'[q] \in BeforeCommit => pc[q] \in BeforeCommit /\ job'[q].base = job[q].base

LEMMA StillOnward ==
    ASSUME TypeOK, NEW q \in Publishers, pc'[q] = pc[q], job'[q] = job[q]
    PROVE  Onward(q)
  BY DEF TypeOK, Onward

LEMMA EndOnward ==
    ASSUME TypeOK, NEW p \in Publishers, NEW o \in Ended, End(p, o)
    PROVE  \A q \in Publishers : Onward(q)
<1>1. pc'[p] = o /\ \A q \in Publishers \ {p} : pc'[q] = pc[q] /\ job'[q] = job[q]
  BY DEF TypeOK, End, Goto
<1>2. QED BY <1>1, StillOnward DEF Onward

LEMMA ConfirmedOnward ==
    ASSUME TypeOK, NEW p \in Publishers, pc[p] \in Working, Confirmed(p)
    PROVE  \A q \in Publishers : Onward(q)
<1>1. CASE Goto(p, "record") /\ UNCHANGED job
  <2>1. pc'[p] = "record" /\ \A q \in Publishers \ {p} : pc'[q] = pc[q] /\ job'[q] = job[q]
    BY <1>1 DEF TypeOK, Goto
  <2>2. Onward(p)
    BY <1>1, <2>1 DEF Onward, Working, BeforeCommit
  <2>3. QED BY <2>1, <2>2, StillOnward
<1>2. CASE End(p, "reported") \/ End(p, "raised")
  BY <1>2, EndOnward DEF Ended
<1>3. QED BY <1>1, <1>2 DEF Confirmed

LEMMA ProceedOnward ==
    ASSUME TypeOK, NEW p \in Publishers, Proceed(p)
    PROVE  \A q \in Publishers : Onward(q)
<1> DEFINE Others_ == \A q \in Publishers \ {p} : pc'[q] = pc[q] /\ job'[q] = job[q]
<1>1. CASE (\E b \in Builds : Rebuilt(p, b)) \/ Reserve(p) \/ ReadHistory(p) \/ ActivateHere(p)
  <2>1. Others_
    BY <1>1 DEF TypeOK, Rebuilt, Reserve, ReadHistory, ActivateHere, Goto
  <2>2. job[p] \in Job
    BY DEF TypeOK
  <2>3. /\ job'[p].kind = job[p].kind /\ job'[p].base = job[p].base
    <3>1. CASE Reserve(p) \/ ActivateHere(p)
      BY <3>1 DEF Reserve, ActivateHere
    <3>2. CASE ReadHistory(p)
      <4>1. job'[p] = [job[p] EXCEPT !.seen = history]
        BY <3>2 DEF TypeOK, ReadHistory
      <4>2. QED BY <4>1, <2>2 DEF Job
    <3>3. CASE \E b \in Builds : Rebuilt(p, b)
      <4>1. PICK b \in Builds : Rebuilt(p, b)
        BY <3>3
      <4>2. job'[p] = [job[p] EXCEPT !.build = b, !.expected = active, !.todo = Files[b]]
        BY <4>1 DEF TypeOK, Rebuilt
      <4>3. QED BY <4>2, <2>2 DEF Job
    <3>4. QED BY <1>1, <3>1, <3>2, <3>3
  <2>4. /\ pc[p] \in Working /\ pc'[p] \in Working
        /\ pc'[p] \in BeforeCommit => pc[p] \in BeforeCommit
    BY <1>1 DEF TypeOK, Rebuilt, Reserve, ReadHistory, ActivateHere, Goto, Working, BeforeCommit
  <2>5. Onward(p)
    BY <2>3, <2>4 DEF Onward
  <2>6. QED BY <2>1, <2>5, StillOnward
<1>2. CASE \E d \in Digests : Upload(p, d) \/ Readback(p, d)
  <2>1. PICK d \in Digests : Upload(p, d) \/ Readback(p, d)
    BY <1>2
  <2>2. Others_
    BY <2>1 DEF TypeOK, Upload, Readback, Goto
  <2>3. job[p] \in Job
    BY DEF TypeOK
  <2>4. job'[p].kind = job[p].kind /\ job'[p].base = job[p].base
    BY <2>1, <2>3 DEF TypeOK, Upload, Readback, Job
  <2>5. /\ pc[p] \in {"upload", "readback"} /\ pc'[p] \in {"upload", "readback", "commit"}
    BY <2>1 DEF TypeOK, Upload, Readback, Goto
  <2>6. QED BY <2>2, <2>4, <2>5, StillOnward DEF Onward, Working, BeforeCommit
<1>3. CASE Commit(p)
  <2>1. CASE End(p, "raised")
    BY <2>1, EndOnward DEF Ended
  <2>2. CASE Goto(p, "confirm") /\ job' = [job EXCEPT ![p].base = None, ![p].expected = None,
                                                    ![p].moved = TRUE]
    <3>1. Others_ /\ pc'[p] = "confirm" /\ pc[p] = "commit"
      BY <1>3, <2>2 DEF TypeOK, Goto, Commit
    <3>2. job[p] \in Job
      BY DEF TypeOK
    <3>3. job'[p].kind = job[p].kind
      BY <2>2, <3>2 DEF TypeOK, Job
    <3>4. QED BY <3>1, <3>3, StillOnward DEF Onward, Working, BeforeCommit
  <2>3. QED BY <1>3, <2>1, <2>2 DEF Commit
<1>4. CASE Acknowledge(p)
  BY <1>4, ConfirmedOnward DEF Acknowledge, Working
<1>5. CASE GiveUp(p) \/ WriteHistory(p) \/ Raise(p)
  BY <1>5, EndOnward DEF GiveUp, WriteHistory, Raise, Ended
<1>6. QED BY <1>1, <1>2, <1>3, <1>4, <1>5 DEF Proceed

\* A local command is activating while its activation runs.
LEMMA ActivationOnward ==
    ASSUME IInv, NEW a \in Activators, Activation(a)
    PROVE  \A q \in Publishers : Onward(q)
<1>1. CASE LockRuntime(a) \/ Stage(a) \/ a \notin Local
  <2>1. UNCHANGED <<pc, job>>
    BY <1>1 DEF Activation, LockRuntime, Stage, Switch, AbortActivation
  <2>2. QED BY <2>1, StillOnward DEF IInv
<1>2. CASE Switch(a) /\ a \in Local
  <2>1. a \in Publishers /\ Confirmed(a) /\ pc[a] \in Working
    BY <1>2, BuildsAssumption DEF Switch, IInv, Apt, Working
  <2>2. QED BY <2>1, ConfirmedOnward DEF IInv
<1>3. CASE AbortActivation(a) /\ a \in Local
  <2>1. a \in Publishers /\ (End(a, "pending") \/ End(a, "raised"))
    BY <1>3, BuildsAssumption DEF AbortActivation
  <2>2. QED BY <2>1, EndOnward DEF IInv, Ended
<1>4. QED BY <1>1, <1>2, <1>3 DEF Activation

\* A step of the service, and a command that dies.
LEMMA RestOnward ==
    ASSUME TypeOK,
           \/ \E p \in Publishers : Crash(p)
           \/ Tick \/ Resume \/ ResumeInvalid \/ Quarantine \/ Stop
           \/ \E u \in Pubs : Damage(u)
           \/ UNCHANGED vars
    PROVE  (\A q \in Publishers : Onward(q)) /\ active' = active
<1>1. CASE \E p \in Publishers : Crash(p)
  BY <1>1, EndOnward DEF Crash, Ended, remote
<1>2. CASE ~\E p \in Publishers : Crash(p)
  <2>1. UNCHANGED <<pc, job, active>>
    BY <1>2 DEF Tick, Resume, ResumeInvalid, Quarantine, Stop, Damage, vars, remote
  <2>2. QED BY <2>1, StillOnward
<1>3. QED BY <1>1, <1>2

\* A command that begins takes the lock, or is one that needs none.
LEMMA CommandBegins ==
    ASSUME TypeOK, NEW p \in Publishers, Command(p)
    PROVE  /\ \A q \in Publishers \ {p} : pc'[q] = pc[q] /\ job'[q] = job[q]
           /\ active' = active
           /\ LockFree(p) \/ job'[p].kind \in Unlocked
           /\ pc'[p] \in BeforeCommit =>
                job'[p].kind \in {"publish", "refresh", "rollback"} /\ job'[p].base = active
<1>1. \E l, k, b, e, t : /\ Begin(p, l, k, b, e, t)
                         /\ LockFree(p) \/ k \in Unlocked
                         /\ l \in BeforeCommit => k \in {"publish", "refresh", "rollback"}
  <2>1. CASE \E b \in Builds : Publish(p, b)
    BY <2>1 DEF Publish
  <2>2. CASE Refresh(p)
    BY <2>2 DEF Refresh
  <2>3. CASE \E b \in Builds : Rollback(p, b)
    BY <2>3 DEF Rollback
  <2>4. CASE \E b \in Builds : WaitActive(p, b)
    BY <2>4 DEF WaitActive, Unlocked, BeforeCommit
  <2>5. CASE \E kind \in Recovering : Recover(p, kind)
    BY <2>5 DEF Recover, Recovering, Unlocked, BeforeCommit
  <2>6. QED BY <2>1, <2>2, <2>3, <2>4, <2>5 DEF Command
<1>2. QED BY <1>1 DEF TypeOK, Begin, Goto, remote

----------------------------------------------------------------------------
(* One lock *)

\* A step in which every command goes on, and at most one of them commits.
LEMMA OnwardOrder ==
    ASSUME OrderInv, \A q \in Publishers : Onward(q),
           active' = active \/ \E p \in Publishers : Commit(p)
    PROVE  Sole' /\ Based'
<1>1. \A q \in Publishers : Locked(q)' => Locked(q)
  BY DEF Onward, Locked, Ended, Working
<1>2. Sole'
  BY <1>1 DEF OrderInv, Sole
<1>3. ASSUME NEW q \in Publishers, pc'[q] \in BeforeCommit
      PROVE  job'[q].kind \in {"publish", "refresh", "rollback"} /\ job'[q].base = active'
  <2>1. pc[q] \in BeforeCommit /\ job'[q].base = job[q].base /\ job'[q].kind = job[q].kind
    BY <1>3 DEF Onward, BeforeCommit, Ended
  <2>2. job[q].kind \in {"publish", "refresh", "rollback"} /\ job[q].base = active
    BY <2>1 DEF OrderInv, Based
  <2>3. ASSUME NEW p \in Publishers, Commit(p) PROVE FALSE
    <3>1. pc[p] = "commit" /\ pc'[p] \notin BeforeCommit
      BY <2>3 DEF Commit, End, Goto, OrderInv, TypeOK, BeforeCommit
    <3>2. Locked(p) /\ Locked(q)
      BY <2>1, <2>2, <3>1 DEF OrderInv, Based, Locked, Working, BeforeCommit, Unlocked
    <3>3. QED BY <1>3, <3>1, <3>2 DEF OrderInv, Sole
  <2>4. QED BY <2>1, <2>2, <2>3
<1>4. QED BY <1>2, <1>3 DEF Based

LEMMA CommandOrder ==
    ASSUME OneLock, OrderInv, NEW p \in Publishers, Command(p)
    PROVE  Sole' /\ Based'
<1> USE CommandBegins DEF OrderInv
<1>1. \A q \in Publishers \ {p} : Locked(q)' <=> Locked(q)
  BY DEF Locked
<1>2. Locked(p)' => \A q \in Publishers \ {p} : ~Locked(q)
  <2>1. SUFFICES ASSUME Locked(p)', NEW q \in Publishers \ {p} PROVE ~Locked(q)
    OBVIOUS
  <2>2. LockFree(p)
    BY <2>1 DEF Locked
  <2>3. pc[q] \in Ended \/ job[q].kind \in Unlocked
    BY <2>2 DEF LockFree, OneLock
  <2>4. QED BY <2>3 DEF Locked, Ended, Working
<1>3. Sole'
  BY <1>1, <1>2 DEF Sole
<1>4. Based'
  BY DEF Based
<1>5. QED BY <1>3, <1>4

LEMMA OrderNext ==
    ASSUME OneLock, IInv, OrderInv, [Next]_vars
    PROVE  Sole' /\ Based'
<1> USE DEF OrderInv
<1>1. ASSUME NEW p \in Publishers, Command(p) PROVE Sole' /\ Based'
  BY <1>1, CommandOrder
<1>2. ASSUME NEW p \in Publishers, Proceed(p) PROVE Sole' /\ Based'
  <2>1. active' = active \/ Commit(p)
    BY <1>2 DEF Proceed, Rebuilt, Reserve, Upload, Readback, ActivateHere, Acknowledge, GiveUp,
                ReadHistory, WriteHistory, Raise, remote
  <2>2. QED BY <1>2, <2>1, ProceedOnward, OnwardOrder
<1>3. ASSUME NEW a \in Activators, Activation(a) PROVE Sole' /\ Based'
  <2>1. active' = active
    BY <1>3 DEF Activation, LockRuntime, Stage, Switch, AbortActivation, remote
  <2>2. QED BY <1>3, <2>1, ActivationOnward, OnwardOrder
<1>4. CASE \/ \E p \in Publishers : Crash(p)
           \/ Tick \/ Resume \/ ResumeInvalid \/ Quarantine \/ Stop
           \/ \E u \in Pubs : Damage(u)
           \/ UNCHANGED vars
  BY <1>4, RestOnward, OnwardOrder
<1>5. QED BY <1>1, <1>2, <1>3, <1>4, BuildsAssumption DEF Next

\* Where all commands share one lock, a command replaces only the choice it started from: the
\* pointer publish_build read, or the publication a refresh rebuilt (refresh.py:99-168).
THEOREM NothingOverwritten ==
    ASSUME OneLock
    PROVE  Spec => NoStaleOverwrite
<1>1. Init => Sole /\ Based
  BY DEF Init, Sole, Based, Locked, Working, BeforeCommit
<1>2. OneLock
  OBVIOUS
<1>3. IInv /\ Sole /\ Based /\ [Next]_vars => (Sole /\ Based)'
  BY <1>2, OrderNext DEF OrderInv, IInv
<1>4. Sole /\ Based => \A p \in Publishers : Commit(p) => active = job[p].base
  BY DEF Based, Commit, BeforeCommit
<1>5. QED BY <1>1, <1>3, <1>4, Invariance, PTL DEF Spec, NoStaleOverwrite

----------------------------------------------------------------------------
(* The successful history *)

Distinct(s) == \A i, j \in 1..Len(s) : PubId[s[i]] = PubId[s[j]] => i = j

\* Taking one publication out of a history leaves the others, in their order.
LEMMA OthersShift ==
    ASSUME NEW s \in Seq(Builds), NEW b \in Builds, PubId[b] \in IdsOf(s)
    PROVE  \E i \in 1..Len(s) :
             /\ PubId[s[i]] = PubId[b]
             /\ Len(Others(s, b)) = Len(s) - 1
             /\ \A k \in 1..(Len(s) - 1) :
                  Others(s, b)[k] = s[IF k < i THEN k ELSE k + 1]
<1> DEFINE i == CHOOSE j \in 1..Len(s) : PubId[s[j]] = PubId[b]
           l == SubSeq(s, 1, i - 1)
           r == SubSeq(s, i + 1, Len(s))
<1>1. i \in 1..Len(s) /\ PubId[s[i]] = PubId[b]
  BY DEF IdsOf
<1> HIDE DEF i
<1>2. /\ l \in Seq(Builds) /\ Len(l) = i - 1
      /\ \A k \in 1..Len(l) : l[k] = s[k]
  BY <1>1
<1>3. /\ r \in Seq(Builds) /\ Len(r) = Len(s) - i
      /\ \A k \in 1..Len(r) : r[k] = s[i + k]
  BY <1>1
<1>4. Others(s, b) = l \o r
  BY DEF Others, i
<1> HIDE DEF l, r
<1>5. Len(l \o r) = Len(s) - 1
  <2>1. Len(l \o r) = Len(l) + Len(r)
    BY <1>2, <1>3, ConcatProperties
  <2>2. QED BY <2>1, <1>1, <1>2, <1>3
<1>6. ASSUME NEW k \in 1..(Len(s) - 1)
      PROVE  (l \o r)[k] = s[IF k < i THEN k ELSE k + 1]
  <2>1. CASE k < i
    BY <2>1, <1>1, <1>2, <1>3
  <2>2. CASE ~(k < i)
    <3>1. k - Len(l) \in 1..Len(r) /\ k \in 1..(Len(l) + Len(r)) /\ ~(k <= Len(l))
      BY <2>2, <1>1, <1>2, <1>3
    <3>2. (l \o r)[k] = r[k - Len(l)]
      BY <3>1, <1>2, <1>3, ConcatProperties
    <3>3. r[k - Len(l)] = s[i + (k - Len(l))] /\ i + (k - Len(l)) = k + 1
      BY <3>1, <1>1, <1>2, <1>3
    <3>4. QED BY <2>2, <3>2, <3>3
  <2>3. QED BY <2>1, <2>2
<1>7. QED BY <1>1, <1>4, <1>5, <1>6

\* In a history without repetition, the others keep every other entry and have none of the one.
LEMMA OthersDistinct ==
    ASSUME NEW s \in Seq(Builds), NEW b \in Builds, Distinct(s)
    PROVE  LET t == Others(s, b) IN
           /\ Distinct(t)
           /\ \A k \in 1..Len(t) : PubId[t[k]] # PubId[b]
           /\ \A j \in 1..Len(s) : PubId[s[j]] # PubId[b] => s[j] \in RangeOf(t)
<1> DEFINE t == Others(s, b)
<1>1. CASE PubId[b] \notin IdsOf(s)
  <2>1. t = s
    BY <1>1 DEF Others
  <2>2. QED BY <1>1, <2>1 DEF IdsOf, RangeOf
<1>2. CASE PubId[b] \in IdsOf(s)
  <2>1. PICK i \in 1..Len(s) :
          /\ PubId[s[i]] = PubId[b]
          /\ Len(t) = Len(s) - 1
          /\ \A k \in 1..(Len(s) - 1) : t[k] = s[IF k < i THEN k ELSE k + 1]
    BY <1>2, OthersShift
  <2> HIDE DEF t
  <2>2. ASSUME NEW k \in 1..Len(t)
        PROVE  /\ (IF k < i THEN k ELSE k + 1) \in 1..Len(s)
               /\ (IF k < i THEN k ELSE k + 1) # i
               /\ t[k] = s[IF k < i THEN k ELSE k + 1]
    BY <2>1
  <2>3. ASSUME NEW k \in 1..Len(t) PROVE PubId[t[k]] # PubId[b]
    BY <2>1, <2>2 DEF Distinct
  <2>4. ASSUME NEW j \in 1..Len(t), NEW k \in 1..Len(t), PubId[t[j]] = PubId[t[k]]
        PROVE  j = k
    <3>1. (IF j < i THEN j ELSE j + 1) = (IF k < i THEN k ELSE k + 1)
      BY <2>2, <2>4 DEF Distinct
    <3>2. QED BY <3>1
  <2>5. ASSUME NEW j \in 1..Len(s), PubId[s[j]] # PubId[b] PROVE s[j] \in RangeOf(t)
    <3> DEFINE k == IF j < i THEN j ELSE j - 1
    <3>1. j # i
      BY <2>1, <2>5
    <3>2. k \in 1..Len(t) /\ (IF k < i THEN k ELSE k + 1) = j
      BY <3>1, <2>1
    <3>3. t[k] = s[j]
      BY <3>2, <2>2
    <3>4. QED BY <3>2, <3>3 DEF RangeOf
  <2>6. QED BY <2>3, <2>4, <2>5 DEF Distinct, t
<1>3. QED BY <1>1, <1>2

LEMMA PrependDistinct ==
    ASSUME NEW s \in Seq(Builds), NEW b \in Builds, Distinct(s),
           \A k \in 1..Len(s) : PubId[s[k]] # PubId[b]
    PROVE  Distinct(<<b>> \o s)
<1> DEFINE t == <<b>> \o s
<1>1. t \in Seq(Builds) /\ Len(t) = Len(s) + 1 /\ t[1] = b
  OBVIOUS
<1>2. \A k \in 1..Len(s) : t[k + 1] = s[k]
  OBVIOUS
<1> HIDE DEF t
<1>3. \A k \in 1..Len(t) : k # 1 => k - 1 \in 1..Len(s) /\ t[k] = s[k - 1]
  <2>1. TAKE k \in 1..Len(t)
  <2>2. HAVE k # 1
  <2>3. k - 1 \in 1..Len(s) /\ (k - 1) + 1 = k
    BY <1>1, <2>2
  <2>4. QED BY <1>2, <2>3
<1>4. ASSUME NEW j \in 1..Len(t), NEW k \in 1..Len(t), PubId[t[j]] = PubId[t[k]]
      PROVE  j = k
  <2>1. CASE j = 1 /\ k # 1
    BY <2>1, <1>1, <1>3, <1>4
  <2>2. CASE j # 1 /\ k = 1
    BY <2>2, <1>1, <1>3, <1>4
  <2>3. CASE j # 1 /\ k # 1
    <3>1. /\ j - 1 \in 1..Len(s) /\ k - 1 \in 1..Len(s)
          /\ PubId[s[j - 1]] = PubId[s[k - 1]]
      BY <2>3, <1>3, <1>4
    <3>2. \A m, n \in 1..Len(s) : PubId[s[m]] = PubId[s[n]] => m = n
      BY DEF Distinct
    <3>3. j - 1 = k - 1
      BY <3>1, <3>2
    <3>4. QED BY <3>3, <1>1
  <2>4. CASE j = 1 /\ k = 1
    BY <2>4
  <2>5. QED BY <2>1, <2>2, <2>3, <2>4
<1>5. QED BY <1>4 DEF Distinct, t

\* Two builds that were chosen under one publication id are one build: manifests are immutable.
LEMMA OneBuildPerId ==
    ASSUME IInv, NEW b \in chosen, NEW c \in chosen, PubId[b] = PubId[c]
    PROVE  b = c
  BY DEF IInv, Choices, Complete, Stored

LEMMA WriteHistoryWhole ==
    ASSUME IInv, HistoryDistinct, NEW p \in Publishers, WriteHistory(p)
    PROVE  /\ HistoryDistinct'
           /\ RangeOf(history) \subseteq RangeOf(history')
           /\ job[p].build \in RangeOf(history')
<1> DEFINE b == job[p].build
           t == Others(history, b)
<1>1. b \in Builds /\ b \in served /\ history \in Seq(Builds) /\ history' = <<b>> \o t
  BY DEF IInv, TypeOK, Fit, WriteHistory
<1>2. Distinct(history)
  BY DEF HistoryDistinct, Distinct
<1>3. t \in Seq(Builds)
  BY <1>1, OthersAreEntries
<1>4. /\ Distinct(t) /\ \A k \in 1..Len(t) : PubId[t[k]] # PubId[b]
      /\ \A j \in 1..Len(history) : PubId[history[j]] # PubId[b] => history[j] \in RangeOf(t)
  BY <1>1, <1>2, OthersDistinct
<1> HIDE DEF t, b
<1>5. RangeOf(history') = {b} \cup RangeOf(t)
  BY <1>1, <1>3, PrependEntry
<1>6. Distinct(history')
  BY <1>1, <1>3, <1>4, PrependDistinct
<1>7. ASSUME NEW j \in 1..Len(history) PROVE history[j] \in {b} \cup RangeOf(t)
  <2>1. history[j] \in chosen /\ b \in chosen
    BY <1>1 DEF IInv, Choices, HistoryConfirmed, RangeOf
  <2>2. CASE PubId[history[j]] = PubId[b]
    BY <2>1, <2>2, OneBuildPerId
  <2>3. CASE PubId[history[j]] # PubId[b]
    BY <2>3, <1>4
  <2>4. QED BY <2>2, <2>3
<1>8. HistoryDistinct'
  BY <1>6 DEF HistoryDistinct, Distinct
<1>9. QED BY <1>5, <1>7, <1>8 DEF RangeOf, b

\* Only the last write of a publish or refresh changes the history or reports it.
LEMMA HistoryStep ==
    ASSUME IInv, [Next]_vars
    PROVE  \/ \E p \in Publishers : /\ WriteHistory(p)
                                    /\ \A q \in Publishers \ {p} : pc'[q] = pc[q]
           \/ /\ history' = history
              /\ \A q \in Publishers :
                   pc'[q] = "reported" /\ pc[q] # "reported" =>
                     job[q].kind \notin {"publish", "refresh"}
<1> DEFINE Still == /\ history' = history
                    /\ \A q \in Publishers :
                         pc'[q] = "reported" /\ pc[q] # "reported" =>
                           job[q].kind \notin {"publish", "refresh"}
<1> USE DEF IInv, TypeOK
<1>1. ASSUME NEW p \in Publishers, Command(p) PROVE Still
  <2>1. history' = history
    BY <1>1 DEF Command, Publish, Refresh, Rollback, Recover, WaitActive, Begin, remote
  <2>2. pc'[p] # "reported" /\ \A q \in Publishers \ {p} : pc'[q] = pc[q]
    BY <1>1 DEF Command, Publish, Refresh, Rollback, Recover, WaitActive, Begin, Goto
  <2>3. QED BY <2>1, <2>2
<1>2. ASSUME NEW p \in Publishers, Proceed(p), ~WriteHistory(p) PROVE Still
  <2>1. history' = history
    BY <1>2 DEF Proceed, Rebuilt, Reserve, Upload, Readback, Commit, ActivateHere, Acknowledge,
                GiveUp, ReadHistory, Raise, remote
  <2>2. \A q \in Publishers \ {p} : pc'[q] = pc[q]
    BY <1>2 DEF Proceed, Rebuilt, Reserve, Upload, Readback, Commit, ActivateHere, Acknowledge,
                GiveUp, ReadHistory, Raise, Confirmed, End, Goto
  <2>3. pc'[p] = "reported" => job[p].kind \notin {"publish", "refresh"} \/ pc[p] = "reported"
    BY <1>2 DEF Proceed, Rebuilt, Reserve, Upload, Readback, Commit, ActivateHere, Acknowledge,
                GiveUp, ReadHistory, Raise, Confirmed, End, Goto
  <2>4. QED BY <2>1, <2>2, <2>3
<1>3. ASSUME NEW a \in Activators, Activation(a) PROVE Still
  <2>1. history' = history
    BY <1>3 DEF Activation, LockRuntime, Stage, Switch, AbortActivation, remote
  <2>2. ASSUME NEW q \in Publishers, pc'[q] = "reported", pc[q] # "reported"
        PROVE  job[q].kind \notin {"publish", "refresh"}
    BY <1>3, <2>2 DEF Activation, LockRuntime, Stage, Switch, AbortActivation, Confirmed, End, Goto
  <2>3. QED BY <2>1, <2>2
<1>4. ASSUME \/ \E p \in Publishers : Crash(p)
             \/ Tick \/ Resume \/ ResumeInvalid \/ Quarantine \/ Stop
             \/ \E u \in Pubs : Damage(u)
             \/ UNCHANGED vars
      PROVE  Still
  <2>1. history' = history
    BY <1>4 DEF Crash, Tick, Resume, ResumeInvalid, Quarantine, Stop, Damage, vars, remote
  <2>2. \A q \in Publishers : pc'[q] \in {pc[q], "idle"}
    BY <1>4 DEF Crash, End, Goto, Tick, Resume, ResumeInvalid, Quarantine, Stop, Damage, vars
  <2>3. QED BY <2>1, <2>2
<1>5. ASSUME NEW p \in Publishers, WriteHistory(p)
      PROVE  \A q \in Publishers \ {p} : pc'[q] = pc[q]
  BY <1>5 DEF WriteHistory, End, Goto
<1>6. QED BY <1>1, <1>2, <1>3, <1>4, <1>5, BuildsAssumption DEF Next

\* Whoever advances the successful history, it loses no entry and lists none twice, and what a
\* publish or refresh reports is in it (publication.py:302-325).
THEOREM HistoryNotLost == Spec => HistoryWhole
<1>1. Init => HistoryDistinct
  BY DEF Init, HistoryDistinct
<1>2. IInv /\ HistoryDistinct /\ [Next]_vars =>
        /\ HistoryDistinct'
        /\ RangeOf(history) \subseteq RangeOf(history')
        /\ \A p \in Publishers :
             pc'[p] = "reported" /\ pc[p] # "reported" /\ job[p].kind \in {"publish", "refresh"}
               => job[p].build \in RangeOf(history')
  <2> SUFFICES ASSUME IInv, HistoryDistinct, [Next]_vars
               PROVE  /\ HistoryDistinct'
                      /\ RangeOf(history) \subseteq RangeOf(history')
                      /\ \A p \in Publishers :
                           pc'[p] = "reported" /\ pc[p] # "reported"
                           /\ job[p].kind \in {"publish", "refresh"}
                             => job[p].build \in RangeOf(history')
    OBVIOUS
  <2>1. CASE \E p \in Publishers : /\ WriteHistory(p)
                                   /\ \A q \in Publishers \ {p} : pc'[q] = pc[q]
    BY <2>1, WriteHistoryWhole
  <2>2. CASE /\ history' = history
             /\ \A q \in Publishers :
                  pc'[q] = "reported" /\ pc[q] # "reported" =>
                    job[q].kind \notin {"publish", "refresh"}
    BY <2>2 DEF HistoryDistinct
  <2>3. QED BY <2>1, <2>2, HistoryStep
<1>3. QED BY <1>1, <1>2, Invariance, PTL
          DEF Spec, HistoryWhole, HistoryKeeps, ReportedInHistory
=============================================================================
