----------------------------- MODULE Publication -----------------------------
(***************************************************************************)
(* The publication lifecycle: publication.py (publish, publish_build,      *)
(* restore, Runtime), the updater of hosted.py, the publisher commands of  *)
(* cli.py and scripts/refresh_library.py, over the object store of         *)
(* storage.py.                                                             *)
(*                                                                         *)
(* A build is a manifest and the files it names.  Publishing reserves the  *)
(* manifest, uploads and reads back every object, and moves the remote     *)
(* pointer control/active.json by compare-and-swap; a runtime then stages  *)
(* the build and moves its own pointer active.json; a confirmed activation *)
(* is recorded in control/successful.json.  Every remote call is a step of *)
(* its own, so commands, the updater and restarts interleave between them. *)
(***************************************************************************)
EXTENDS Naturals, Sequences, FiniteSets

CONSTANTS
    Builds,      \* build directories: each stands for one manifest's bytes
    Pubs,        \* publication ids
    Digests,     \* content addresses, the keys objects/<sha256>
    PubId,       \* the publication id a build's manifest carries
    Files,       \* the digests a build's manifest lists
    Publishers,  \* publisher commands: publish, refresh, rollback, recover, wait
    Local,       \* the publishers that run beside the runtime (--store --runtime)
    LockOf,      \* the .publisher.lock file each publisher takes
    Updater,     \* the hosted service's updater thread
    Fragile,     \* bound: the publications whose staged bytes may decay
    None,        \* no build, no manifest, no staged directory
    Damaged      \* a staged directory whose bytes no longer match its manifest

ASSUME BuildsAssumption ==
    /\ PubId \in [Builds -> Pubs]
    /\ Files \in [Builds -> (SUBSET Digests) \ {{}}]
    /\ Local \subseteq Publishers
    /\ Fragile \subseteq Pubs
    /\ Updater \notin Publishers
    /\ None \notin Builds
    /\ Damaged \notin Builds \cup {None}

VARIABLES
    manifest,    \* publications/<id>/manifest.json of each publication id
    object,      \* objects/<sha256>: absent, or the right or the wrong bytes
    active,      \* control/active.json; its version is its content
    history,     \* control/successful.json, newest first
    pc, job,     \* each publisher command: where it is, what it carries
    act,         \* each activator's progress through Runtime.activate
    staged,      \* versions/<id> of the runtime directory
    local,       \* active.json of the runtime directory
    server,      \* the hosted service process
    spoiled,     \* the staged directory a restart is about to set aside
    chosen,      \* every build the remote pointer ever named (history variable)
    served       \* every build the local pointer ever named (history variable)

remote  == <<manifest, object, active, history>>
runtime == <<staged, local, server, spoiled>>
ghosts  == <<chosen, served>>
vars    == <<remote, pc, job, act, runtime, ghosts>>

Activators == Local \cup {Updater}

Ended == {"idle", "reported", "pending", "raised"}
Working == {"rebuild", "reserve", "upload", "readback", "commit", "confirm",
            "activating", "record", "advance"}
Kinds == {"none", "publish", "refresh", "rollback", "recover", "serve", "wait"}
Recovering == {"recover", "serve"}
Unlocked == {"serve", "wait"}  \* serve-local and wait-active take no publisher lock

NoJob == [kind |-> "none", build |-> None, base |-> None, expected |-> None, todo |-> {},
          seen |-> <<>>, moved |-> FALSE]
NotActivating == [at |-> "out", build |-> None]

Job == [kind : Kinds, build : Builds \cup {None},
        base : Builds \cup {None}, expected : Builds \cup {None},
        todo : SUBSET Digests, seen : Seq(Builds), moved : BOOLEAN]

TypeOK ==
    /\ manifest \in [Pubs -> Builds \cup {None}]
    /\ object \in [Digests -> {"absent", "good", "bad"}]
    /\ active \in Builds \cup {None}
    /\ history \in Seq(Builds)
    /\ pc \in [Publishers -> Ended \cup Working]
    /\ job \in [Publishers -> Job]
    /\ act \in [Activators -> [at : {"out", "waiting", "locked", "staged"},
                               build : Builds \cup {None}]]
    /\ staged \in [Pubs -> Builds \cup {None, Damaged}]
    /\ local \in Builds \cup {None}
    /\ server \in {"down", "up", "quarantine"}
    /\ spoiled \in Pubs \cup {None}
    /\ chosen \subseteq Builds
    /\ served \subseteq Builds

Init ==
    /\ manifest = [u \in Pubs |-> None]
    /\ object = [d \in Digests |-> "absent"]
    /\ active = None
    /\ history = <<>>
    /\ pc = [p \in Publishers |-> "idle"]
    /\ job = [p \in Publishers |-> NoJob]
    /\ act = [a \in Activators |-> NotActivating]
    /\ staged = [u \in Pubs |-> None]
    /\ local = None
    /\ server = "down"
    /\ spoiled = None
    /\ chosen = {}
    /\ served = {}

----------------------------------------------------------------------------
(* Helpers *)

Stored(b) == manifest[PubId[b]] = b
Good(b)   == \A d \in Files[b] : object[d] = "good"

\* load_manifest and a verification of every object succeed for b.
Complete(b) == Stored(b) /\ Good(b)

\* mutant: every state directory has a lock of its own
LockPerCommand(p) == pc[p] \in Ended

\* flock: the lock file is free when no running command that takes it holds it.
LockFree(p) == \A q \in Publishers :
    LockOf[q] = LockOf[p] => pc[q] \in Ended \/ job[q].kind \in Unlocked

Goto(p, label) == pc' = [pc EXCEPT ![p] = label]

\* A command begins, having looked at the remote pointer (its base).
Begin(p, label, kind, b, expected, todo) ==
    /\ pc[p] \in Ended
    /\ Goto(p, label)
    /\ job' = [job EXCEPT ![p] =
                 [kind |-> kind, build |-> b, base |-> active, expected |-> expected,
                  todo |-> todo, seen |-> <<>>, moved |-> FALSE]]
    /\ UNCHANGED <<remote, runtime, ghosts>>

\* The command ends with an outcome; what it carried is gone.
End(p, outcome) ==
    /\ Goto(p, outcome)
    /\ job' = [job EXCEPT ![p] = NoJob]

IdsOf(s) == {PubId[s[i]] : i \in 1..Len(s)}

\* The entries of other publications.  An id occurs at most once (HistoryDistinct).
Others(s, b) ==
    IF PubId[b] \notin IdsOf(s) THEN s
    ELSE LET i == CHOOSE j \in 1..Len(s) : PubId[s[j]] = PubId[b]
         IN  SubSeq(s, 1, i - 1) \o SubSeq(s, i + 1, Len(s))

----------------------------------------------------------------------------
(* A publisher command: publish-s3, publish-local, refresh_library *)

\* publish_build takes the lock, reads the build and the pointer's version.
Publish(p, b) ==
    /\ LockFree(p)
    /\ Begin(p, "reserve", "publish", b, active, Files[b])
    /\ UNCHANGED act

\* republish reads the active publication before it rebuilds it.
Refresh(p) ==
    /\ LockFree(p)
    /\ active # None
    /\ Begin(p, "rebuild", "refresh", None, None, {})
    /\ UNCHANGED act

\* The rebuild has a fresh id; publish_build now reads the pointer's version again.
Rebuilt(p, b) ==
    /\ pc[p] = "rebuild"
    /\ manifest[PubId[b]] = None
    /\ Goto(p, "reserve")
    /\ job' = [job EXCEPT ![p].build = b, ![p].expected = active, ![p].todo = Files[b]]
    /\ UNCHANGED <<remote, act, runtime, ghosts>>

\* The immutable manifest: created, or found with the same bytes; otherwise a conflict.
Reserve(p) ==
    LET b == job[p].build
    IN  /\ pc[p] = "reserve"
        /\ manifest[PubId[b]] \in {None, b}
        /\ manifest' = [manifest EXCEPT ![PubId[b]] = b]
        /\ Goto(p, "upload")
        /\ UNCHANGED <<object, active, history, job, act, runtime, ghosts>>

\* mutant: an unconditional put, replacing an object another publication relies on
UploadReplace(p, d) ==
    /\ pc[p] = "upload"
    /\ d \in job[p].todo
    /\ \E q \in {"good", "bad"} : object' = [object EXCEPT ![d] = q]
    /\ IF job[p].todo = {d}
       THEN Goto(p, "readback") /\ job' = [job EXCEPT ![p].todo = Files[job[p].build]]
       ELSE job' = [job EXCEPT ![p].todo = @ \ {d}] /\ UNCHANGED pc
    /\ UNCHANGED <<manifest, active, history, act, runtime, ghosts>>

\* Create-only put of one object, whose input may have changed since its digest was taken.
Upload(p, d) ==
    /\ pc[p] = "upload"
    /\ d \in job[p].todo
    /\ \/ object[d] = "absent" /\ \E q \in {"good", "bad"} : object' = [object EXCEPT ![d] = q]
       \/ object[d] # "absent" /\ UNCHANGED object
    /\ IF job[p].todo = {d}
       THEN Goto(p, "readback") /\ job' = [job EXCEPT ![p].todo = Files[job[p].build]]
       ELSE job' = [job EXCEPT ![p].todo = @ \ {d}] /\ UNCHANGED pc
    /\ UNCHANGED <<manifest, active, history, act, runtime, ghosts>>

\* mutant: the readback accepts whatever object is there
ReadbackUnverified(p, d) ==
    /\ pc[p] = "readback"
    /\ d \in job[p].todo
    /\ object[d] # "absent"
    /\ job' = [job EXCEPT ![p].todo = @ \ {d}]
    /\ IF job[p].todo = {d} THEN Goto(p, "commit") ELSE UNCHANGED pc
    /\ UNCHANGED <<remote, act, runtime, ghosts>>

\* One streamed readback; after the last, load_manifest and the withdrawals are read.
Readback(p, d) ==
    /\ pc[p] = "readback"
    /\ d \in job[p].todo
    /\ object[d] = "good"
    /\ job' = [job EXCEPT ![p].todo = @ \ {d}]
    /\ IF job[p].todo = {d}
       THEN Stored(job[p].build) /\ Goto(p, "commit")
       ELSE UNCHANGED pc
    /\ UNCHANGED <<remote, act, runtime, ghosts>>

Moved(p) == /\ active' = job[p].build
            /\ chosen' = chosen \cup {job[p].build}

\* The compare-and-swap of the pointer.  Its answer may be lost: the command then
\* raises although the pointer has moved.
Commit(p) ==
    /\ pc[p] = "commit"
    /\ active = job[p].expected
    /\ Moved(p)
    /\ \/ Goto(p, "confirm") /\ job' = [job EXCEPT ![p].base = None, ![p].expected = None,
                                                  ![p].moved = TRUE]
       \/ End(p, "raised")
    /\ UNCHANGED <<manifest, object, history, act, runtime, served>>

\* confirm_activation beside the runtime: activate(pointer) is Runtime.activate.
ActivateHere(p) ==
    /\ pc[p] = "confirm"
    /\ p \in Local
    /\ Goto(p, "activating")
    /\ act' = [act EXCEPT ![p] = [at |-> "waiting", build |-> job[p].build]]
    /\ UNCHANGED <<remote, job, runtime, ghosts>>

\* publish_build goes on to the history; rollback and recover-local report the runtime's
\* status, which verifies local files again and may raise.
Confirmed(p) ==
    \/ job[p].kind \in {"publish", "refresh"} /\ Goto(p, "record") /\ UNCHANGED job
    \/ job[p].kind \notin {"publish", "refresh"} /\ End(p, "reported")
    \/ job[p].kind \in {"rollback", "recover"} /\ End(p, "raised")

\* mutant: the readiness answer need not name the pointer
AcknowledgeAny(p) ==
    /\ pc[p] = "confirm" /\ p \notin Local /\ server = "up" /\ local # None
    /\ Confirmed(p)
    /\ UNCHANGED <<remote, act, runtime, ghosts>>

\* confirm_activation from afar: /readyz answers ready with exactly this pointer.
Acknowledge(p) ==
    /\ pc[p] = "confirm"
    /\ p \notin Local
    /\ server = "up"
    /\ local = job[p].build
    /\ Confirmed(p)
    /\ UNCHANGED <<remote, act, runtime, ghosts>>

\* The deadline of wait_for_activation passes first.
GiveUp(p) ==
    /\ pc[p] = "confirm"
    /\ p \notin Local
    /\ End(p, "pending")
    /\ UNCHANGED <<remote, act, runtime, ghosts>>

\* publish_build reads the successful history and its version.
ReadHistory(p) ==
    /\ pc[p] = "record"
    /\ Goto(p, "advance")
    /\ job' = [job EXCEPT ![p].seen = history]
    /\ UNCHANGED <<remote, act, runtime, ghosts>>

\* mutant: an unconditional write of the history
WriteHistoryBlindly(p) ==
    /\ pc[p] = "advance"
    /\ history' = <<job[p].build>> \o Others(job[p].seen, job[p].build)
    /\ End(p, "reported")
    /\ UNCHANGED <<manifest, object, active, act, runtime, ghosts>>

\* The compare-and-swap of the history, whose answer may be lost as well.
WriteHistory(p) ==
    /\ pc[p] = "advance"
    /\ history = job[p].seen
    /\ history' = <<job[p].build>> \o Others(history, job[p].build)
    /\ End(p, "reported") \/ End(p, "raised")
    /\ UNCHANGED <<manifest, object, active, act, runtime, ghosts>>

\* An exception: a conflict, a mismatch, an unreadable control file, a store error.
\* confirm_activation catches those of the activation itself.
Raise(p) ==
    /\ pc[p] \in Working \ {"confirm", "activating"}
    /\ End(p, "raised")
    /\ UNCHANGED <<remote, act, runtime, ghosts>>

\* The process dies anywhere; the operating system releases its locks.
Crash(p) ==
    /\ pc[p] \in Working
    /\ End(p, "idle")
    /\ act' = IF p \in Local THEN [act EXCEPT ![p] = NotActivating] ELSE act
    /\ UNCHANGED <<remote, runtime, ghosts>>

\* rollback-local: a pointer to a staged, valid and still complete version.
Rollback(p, b) ==
    /\ p \in Local
    /\ LockFree(p)
    /\ staged[PubId[b]] = b
    /\ Complete(b)
    /\ Begin(p, "commit", "rollback", b, active, {})
    /\ UNCHANGED act

\* recover-local, or the start of serve-local: activate what the pointer names now.
Recover(p, kind) ==
    /\ p \in Local
    /\ kind = "recover" => LockFree(p)
    /\ active # None
    /\ Begin(p, "activating", kind, active, None, {})
    /\ act' = [act EXCEPT ![p] = [at |-> "waiting", build |-> active]]

\* wait-active: the acknowledgement alone, for a pointer recorded as pending; no lock.
WaitActive(p, b) ==
    /\ p \notin Local
    /\ b \in chosen
    /\ Begin(p, "confirm", "wait", b, None, {})
    /\ UNCHANGED act

----------------------------------------------------------------------------
(* Runtime.activate, by a local publisher or by the updater *)

Holding(a) == act[a].at \in {"locked", "staged"}

\* mutant: only a runtime that serves nothing is updated
TickWhenEmpty ==
    /\ server = "up" /\ act[Updater].at = "out" /\ active # None /\ local = None
    /\ act' = [act EXCEPT ![Updater] = [at |-> "waiting", build |-> active]]
    /\ UNCHANGED <<remote, pc, job, runtime, ghosts>>

\* PublicationUpdater.tick: the remote pointer differs from the local one.
Tick ==
    /\ server = "up"
    /\ act[Updater].at = "out"
    /\ active \notin {None, local}
    /\ act' = [act EXCEPT ![Updater] = [at |-> "waiting", build |-> active]]
    /\ UNCHANGED <<remote, pc, job, runtime, ghosts>>

\* .activation.lock, the withdrawals and the manifest.
LockRuntime(a) ==
    /\ act[a].at = "waiting"
    /\ \A c \in Activators : ~Holding(c)
    /\ Stored(act[a].build)
    /\ act' = [act EXCEPT ![a].at = "locked"]
    /\ UNCHANGED <<remote, pc, job, runtime, ghosts>>

\* restore: nothing is staged until every file is verified and the directory renamed.
Stage(a) ==
    LET b == act[a].build
    IN  /\ act[a].at = "locked"
        /\ \/ staged[PubId[b]] = None /\ Good(b) /\ staged' = [staged EXCEPT ![PubId[b]] = b]
           \/ staged[PubId[b]] # None /\ UNCHANGED staged
        /\ act' = [act EXCEPT ![a].at = "staged"]
        /\ UNCHANGED <<remote, pc, job, local, server, spoiled, ghosts>>

\* validate_version and prepare succeed; active.json is replaced, the lock released.
Switch(a) ==
    LET b == act[a].build
    IN  /\ act[a].at = "staged"
        /\ staged[PubId[b]] = b
        /\ local' = b
        /\ served' = served \cup {b}
        /\ act' = [act EXCEPT ![a] = NotActivating]
        /\ IF a \in Local THEN Confirmed(a) ELSE UNCHANGED <<pc, job>>
        /\ UNCHANGED <<remote, staged, server, spoiled, chosen>>

\* Any step of it raises.  confirm_activation catches that (the publication is reported
\* pending), a recovery does not, and a rollback's status may raise after it; the updater
\* tries again at its next tick.
AbortActivation(a) ==
    /\ act[a].at # "out"
    /\ act' = [act EXCEPT ![a] = NotActivating]
    /\ \/ a \notin Local /\ UNCHANGED <<pc, job>>
       \/ a \in Local /\ job[a].kind \notin Recovering /\ End(a, "pending")
       \/ a \in Local /\ job[a].kind \in Recovering \cup {"rollback"} /\ End(a, "raised")
    /\ UNCHANGED <<remote, runtime, ghosts>>

----------------------------------------------------------------------------
(* The hosted service process and its disk *)

\* Some byte of a staged version changes on disk.
Damage(u) ==
    /\ staged[u] \in Builds
    /\ staged' = [staged EXCEPT ![u] = Damaged]
    /\ UNCHANGED <<remote, pc, job, act, local, server, spoiled, ghosts>>

\* Startup, resume_cached: no pointer, or a pointer whose version validates.
Resume ==
    /\ Local = {}
    /\ server = "down"
    /\ local # None => staged[PubId[local]] = local
    /\ server' = "up"
    /\ UNCHANGED <<remote, pc, job, act, staged, local, spoiled, ghosts>>

\* resume_cached on an invalid version: first the pointer is renamed away ...
ResumeInvalid ==
    /\ Local = {}
    /\ server = "down"
    /\ local # None
    /\ staged[PubId[local]] # local
    /\ local' = None
    /\ spoiled' = PubId[local]
    /\ server' = "quarantine"
    /\ UNCHANGED <<remote, pc, job, act, staged, ghosts>>

\* ... then its directory; the exception is logged and the service starts.
Quarantine ==
    /\ server = "quarantine"
    /\ staged' = IF spoiled = None THEN staged ELSE [staged EXCEPT ![spoiled] = None]
    /\ spoiled' = None
    /\ server' = "up"
    /\ UNCHANGED <<remote, pc, job, act, local, ghosts>>

\* The service stops anywhere, inside an activation too.
Stop ==
    /\ server # "down"
    /\ server' = "down"
    /\ spoiled' = None
    /\ act' = [act EXCEPT ![Updater] = NotActivating]
    /\ UNCHANGED <<remote, pc, job, staged, local, ghosts>>

----------------------------------------------------------------------------

\* What a publisher does on its own, once begun.
Proceed(p) ==
    \/ \E b \in Builds : Rebuilt(p, b)
    \/ Reserve(p)
    \/ \E d \in Digests : Upload(p, d) \/ Readback(p, d)
    \/ Commit(p)
    \/ ActivateHere(p) \/ Acknowledge(p) \/ GiveUp(p)
    \/ ReadHistory(p) \/ WriteHistory(p)
    \/ Raise(p)

Command(p) ==
    \/ \E b \in Builds : Publish(p, b) \/ Rollback(p, b) \/ WaitActive(p, b)
    \/ Refresh(p)
    \/ \E kind \in Recovering : Recover(p, kind)

Activation(a) == LockRuntime(a) \/ Stage(a) \/ Switch(a) \/ AbortActivation(a)

Next ==
    \/ \E p \in Publishers : Command(p) \/ Proceed(p) \/ Crash(p)
    \/ \E a \in Activators : Activation(a)
    \/ Tick
    \/ Resume \/ ResumeInvalid \/ Quarantine \/ Stop
    \/ \E u \in Fragile : Damage(u)

Fairness ==
    /\ \A p \in Publishers : WF_vars(Proceed(p))
    /\ \A a \in Activators : WF_vars(Activation(a))
    /\ WF_vars(Tick)
    /\ SF_vars(LockRuntime(Updater)) /\ SF_vars(Stage(Updater)) /\ SF_vars(Switch(Updater))

Spec == Init /\ [][Next]_vars
FairSpec == Spec /\ Fairness

----------------------------------------------------------------------------
(* Properties *)

RangeOf(s) == {s[i] : i \in 1..Len(s)}

\* The remote pointer only ever names a publication whose manifest is stored and whose
\* objects all hold the right bytes, whatever other commands, changed inputs and wrong
\* objects do: an empty volume can always be rebuilt from it (publish, rollback).
ActiveComplete == active # None => Complete(active)

\* The runtime's pointer names a staged directory of that very build at every instant,
\* also between the two renames of a quarantine and after a stop there (resume_cached);
\* the directory may have decayed on disk, but it is never missing or another build's.
LocalStaged == local # None => staged[PubId[local]] \in {local, Damaged}

\* A pointer never names what is not there, remotely or beside the runtime.
PointersHold == ActiveComplete /\ LocalStaged

\* control/successful.json lists only builds a runtime has served: a publication that
\* stayed pending is never offered for rollback (publish_build, confirm_activation).
HistoryConfirmed == RangeOf(history) \subseteq served

\* No publication is listed twice, however often it is published again (publish_build).
HistoryDistinct ==
    \A i, j \in 1..Len(history) : PubId[history[i]] = PubId[history[j]] => i = j

\* Two publishers advancing the history at once lose neither entry (publish_build's
\* compare-and-swap): a listed publication stays listed, once.
HistoryKeeps == [][RangeOf(history) \subseteq RangeOf(history') /\ HistoryDistinct']_vars

\* A publish or refresh that reports "active" has its build in the successful history.
ReportedInHistory == [][\A p \in Publishers :
    pc'[p] = "reported" /\ pc[p] # "reported" /\ job[p].kind \in {"publish", "refresh"}
        => job[p].build \in RangeOf(history')]_vars

\* The successful history loses nothing and has what was reported, whoever else advances it
\* (publish_build, publication.py:302-325).
HistoryWhole == HistoryKeeps /\ ReportedInHistory

\* A command replaces only the choice it started from: the pointer publish_build read,
\* or the publication a refresh rebuilt.  It holds where all commands share one lock.
NoStaleOverwrite == [][\A p \in Publishers : Commit(p) => active = job[p].base]_vars

\* Every command ends: a service that never answers or a failed step cannot hold it, and
\* with it the publisher lock, forever (wait_for_activation's deadline).
CommandsEnd == \A p \in Publishers : pc[p] \in Working ~> pc[p] \in Ended

\* The hosted service follows the pointer: once the pointer, the service and the staged
\* bytes stay as they are, the updater makes the runtime serve that publication for good.
EventuallyCurrent == \A b \in Builds :
    <>[](active = b /\ server = "up" /\ staged[PubId[b]] # Damaged) => <>[](local = b)

\* Neither side waits for the other forever, and the service gets to where commands pointed it.
Progress == CommandsEnd /\ EventuallyCurrent

\* The lifecycle keeps the promise of ActivePointer: only complete publications are
\* chosen, and only chosen ones are served.
Pointer == INSTANCE ActivePointer
    WITH complete <- {b \in Builds : Complete(b)}, serving <- local
PointerSpec == Pointer!Spec
=============================================================================
