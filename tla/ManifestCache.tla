---------------------------- MODULE ManifestCache ----------------------------
(***************************************************************************)
(* The process cache of publication manifests (publication.py, Runtime     *)
(* .manifest): a file is read between looks at its fingerprint, and kept   *)
(* under the fingerprint it had.  Activation, quarantine and maintenance   *)
(* change the directory meanwhile; their writes are not locked out.        *)
(*                                                                         *)
(* Every change of a file changes its fingerprint (inode, size, mtime,     *)
(* ctime): a write within the clock's granularity and size is left out.    *)
(***************************************************************************)
EXTENDS Naturals, Sequences

CONSTANTS
    Publications,      \* publication ids
    ManifestCapacity,  \* _manifest_capacity
    Changes            \* bound: changes of the files

ASSUME ManifestAssumption ==
    ManifestCapacity \in Nat \ {0} /\ Changes \in Nat /\ "-" \notin Publications

Gone == [inode |-> 0, print |-> 0, holds |-> "missing"]

VARIABLES
    file,      \* versions/<id>/manifest.json: [inode, print, holds]; holds stands for the
               \* content, "torn" if a write is half done, "other" for another publication's
    manifests, \* _manifests: a sequence of [id, print, holds], the least recent first
    call,      \* the call under _manifest_lock
    held,      \* history: the whole contents the file had during the call
    got,       \* history: what the last call returned
    changes

manifestVars == <<file, manifests, call, held, got, changes>>

NoCall == [pc |-> "free", id |-> "-", seen |-> Gone, mixed |-> FALSE, try |-> 0]

ManifestInit ==
    /\ file = [p \in Publications |-> [inode |-> 1, print |-> 1, holds |-> "first"]]
    /\ manifests = <<>>
    /\ call = NoCall
    /\ held = {}
    /\ got = "missing"
    /\ changes = 0

----------------------------------------------------------------------------

\* A publication has one entry at most.
Resident(id) == {i \in DOMAIN manifests : manifests[i].id = id}
Cached(id) == manifests[CHOOSE i \in Resident(id) : TRUE]
Without(id) ==
    IF Resident(id) = {} THEN manifests
    ELSE LET i == CHOOSE i \in Resident(id) : TRUE
         IN  SubSeq(manifests, 1, i - 1) \o SubSeq(manifests, i + 1, Len(manifests))

Whole(holds) == {h \in {holds} : h \notin {"torn", "missing", "other"}}

Fresh(id) == Resident(id) # {} /\ Cached(id).print = file[id].print

\* unavailable publication: the entry goes, and the call ends.
Unavailable(id) ==
    /\ manifests' = Without(id)
    /\ call' = NoCall
    /\ UNCHANGED <<file, held, got, changes>>

\* The first look: a hit, a missing file, or a load to be done.
Enter == \E id \in Publications :
    /\ call.pc = "free"
    /\ held' = Whole(file[id].holds)
    /\ IF file[id] # Gone /\ Fresh(id)
       THEN /\ manifests' = Append(Without(id), Cached(id))
            /\ got' = Cached(id).holds
            /\ UNCHANGED call
       ELSE /\ manifests' = Without(id)
            /\ got' = "missing"
            /\ call' = IF file[id] = Gone THEN NoCall ELSE [NoCall EXCEPT !.pc = "open", !.id = id]
    /\ UNCHANGED <<file, changes>>

OpenManifest ==
    /\ call.pc = "open"
    /\ file[call.id] # Gone
    /\ call' = [call EXCEPT !.pc = "reading", !.seen = file[call.id], !.mixed = FALSE]
    /\ UNCHANGED <<file, manifests, held, got, changes>>

\* continue, or "publication changed during manifest load"
Again ==
    /\ call' = IF call.try = 0 THEN [call EXCEPT !.pc = "open", !.try = 1] ELSE NoCall
    /\ UNCHANGED <<file, manifests, held, got, changes>>

\* mutant: the descriptor is not looked at again
AlwaysSteady == TRUE

\* before = after: nobody wrote to the open file while it was read.
Steady == ~call.mixed

\* fstat of the descriptor after the read
After ==
    IF file[call.id].inode = call.seen.inode THEN file[call.id].print ELSE call.seen.print

Read ==
    /\ call.pc = "reading"
    /\ file[call.id] # Gone
    /\ IF Steady /\ After = file[call.id].print
       THEN /\ call' = [call EXCEPT !.pc = "parsed", !.seen.print = After,
                          !.seen.holds = IF call.mixed THEN "torn" ELSE call.seen.holds]
            /\ UNCHANGED <<file, manifests, held, got, changes>>
       ELSE Again

\* The file is not there any more.
Vanished ==
    /\ call.pc \in {"open", "reading", "parsed"}
    /\ file[call.id] = Gone
    /\ Unavailable(call.id)

\* A write that was never finished, or another publication's manifest: an error.
Invalid ==
    /\ call.pc = "parsed"
    /\ call.seen.holds = "other" \/ (call.seen.holds = "torn" /\ ~call.mixed)
    /\ call' = NoCall
    /\ UNCHANGED <<file, manifests, held, got, changes>>

OldestEntry(entries) == IF Len(entries) > ManifestCapacity THEN Tail(entries) ELSE entries

\* A mixture of two writes may still parse.
Retain ==
    /\ call.pc = "parsed"
    /\ call.seen.holds # "other" /\ (call.seen.holds = "torn" => call.mixed)
    /\ file[call.id] # Gone
    /\ IF file[call.id].print = call.seen.print
       THEN /\ manifests' = OldestEntry(Append(manifests,
                    [id |-> call.id, print |-> call.seen.print, holds |-> call.seen.holds]))
            /\ got' = call.seen.holds
            /\ call' = NoCall
            /\ UNCHANGED <<file, held, changes>>
       ELSE Again

\* activate, resume_cached: the entry is dropped, when no call holds the lock.
InvalidateManifest == \E id \in Publications :
    /\ call.pc = "free"
    /\ Resident(id) # {}
    /\ manifests' = Without(id)
    /\ UNCHANGED <<file, call, held, got, changes>>

\* The directory: a version is quarantined, restored or replaced (a new inode), or its
\* manifest is written in place.
ChangeFile == \E id \in Publications, holds \in {"missing", "first", "second", "torn", "other"},
                 inPlace \in BOOLEAN :
    /\ changes < Changes
    /\ inPlace => file[id] # Gone /\ holds # "missing"
    /\ changes' = changes + 1
    /\ file' = [file EXCEPT ![id] =
          IF holds = "missing" THEN Gone
          ELSE [inode |-> IF inPlace THEN @.inode ELSE changes + 2, print |-> changes + 2,
                holds |-> holds]]
    /\ held' = IF id = call.id THEN held \cup Whole(holds) ELSE held
    /\ call' = IF /\ inPlace /\ call.pc = "reading" /\ id = call.id
                  /\ file[id].inode = call.seen.inode
               THEN [call EXCEPT !.mixed = TRUE] ELSE call
    /\ UNCHANGED <<manifests, got>>

ManifestNext ==
    \/ Enter \/ OpenManifest \/ Read \/ Vanished \/ Invalid \/ Retain
    \/ InvalidateManifest \/ ChangeFile

ManifestSpec == ManifestInit /\ [][ManifestNext]_manifestVars

----------------------------------------------------------------------------
(* Properties *)

\* A manifest is only ever answered whole, for the publication asked for, and as the file
\* had it during the call: never torn, and never what an earlier version of the file said
\* (publication.py:508-539).
ManifestOfTheCall == got # "missing" => got \in held
=============================================================================
