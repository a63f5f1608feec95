------------------------------ MODULE NativeModel ------------------------------
(***************************************************************************)
(* The whole-book model of a publication and how it gets from one build to *)
(* the next (book_build.py, book_interpret.py interpretation_build): it is *)
(* captured from the EPUBs of a build, interpreted in a new build, or      *)
(* retained in a build of other content.  Every build has a publication id *)
(* of its own, which the index, the model and its report bear.  Its files  *)
(* are verified against its manifest before they are used.                 *)
(***************************************************************************)
EXTENDS Naturals, FiniteSets

CONSTANTS
    Shelves,      \* what the library may hold: [epub, scan], sources of each by book
    Evidence,     \* interpretation files that may be imported: [editions, entities]
    BuildBound,   \* bound of the model: builds
    NoModel

VARIABLES
    builds,    \* the builds made, by publication id
    profile,   \* the version of the markup profiles
    online     \* the publications that were published

nativeVars == <<builds, profile, online>>

NativeInit == builds = <<>> /\ profile = 1 /\ online = {}

Pubs == DOMAIN builds
NewPub == Cardinality(Pubs) + 1
HasModel(p) == builds[p].model # NoModel

\* Search units: of the text of each book, and of each semantic entity.
UnitsFor(editions, entities) == editions \cup entities

Add(build) ==
    /\ NewPub <= BuildBound
    /\ builds' = [p \in Pubs \cup {NewPub} |-> IF p = NewPub THEN build ELSE builds[p]]

\* A build of the library's books, without a model (build_snapshot).
SourceBuild(shelf) ==
    /\ Add([index |-> NewPub, epub |-> shelf.epub, scan |-> shelf.scan, model |-> NoModel])
    /\ UNCHANGED <<profile, online>>

\* import_interpretations: evidence of editions that are these books, from the same bytes.
Importable(file, epub) == file.editions \subseteq epub

Model(editions, entities, snapshot) ==
    [pub |-> NewPub, editions |-> editions, entities |-> entities,
     units |-> UnitsFor(editions, entities), snapshot |-> snapshot,
     report |-> NewPub, keyword |-> NoModel]

\* structure_build: a capture of the EPUBs of a build that has nothing else.
Structure(p, file) ==
    /\ builds[p].index = p /\ builds[p].scan = {}
    /\ Importable(file, builds[p].epub)
    /\ Add([builds[p] EXCEPT !.index = NewPub,
                             !.model = Model(builds[p].epub, file.entities, <<NewPub, 0>>)])
    /\ UNCHANGED <<profile, online>>

\* What the markup profile of an edition has found in it.
FoundBy(editions) == {<<ed, profile>> : ed \in editions}

\* interpret: what is there stays, with what the profile finds beside it: recipes where there are
\* none, children of those there are; nothing where all is covered or the profile is of other bytes.
Interpretation(model, found) == model.entities \cup found

\* interpretation_build: the report of the build before is kept but for what is its own.
InterpretModel(p) ==
    /\ HasModel(p) /\ builds[p].model.pub = p
    /\ \E found \in SUBSET FoundBy(builds[p].model.editions) :
          LET old == builds[p].model
              entities == Interpretation(old, found) IN
          Add([builds[p] EXCEPT !.index = NewPub,
               !.model = [old EXCEPT !.pub = NewPub, !.report = NewPub, !.entities = entities,
                                     !.units = UnitsFor(old.editions, entities),
                                     !.snapshot = <<NewPub, profile>>]])
    /\ UNCHANGED <<profile, online>>

\* mutant: the books are compared, not what they are made of
SameBooks(epub, model) == {e[1] : e \in epub} = {e[1] : e \in model.editions}

\* The EPUBs of the new build are the editions of the model, from the same source.
SameEditions(epub, model) == epub = model.editions

\* The keyword index that is known to hold the model's search units.
KeywordOf(q) ==
    IF builds[q].model.keyword # NoModel THEN builds[q].model.keyword
    ELSE [pub |-> q, units |-> builds[q].model.units]

\* retain_native_model: the model of a publication, in a build of its books and others.
Retain(p, q) ==
    /\ builds[p].model = NoModel
    /\ q \in online /\ HasModel(q)
    /\ builds[q].model.pub = q /\ builds[q].model.report = q
    /\ SameEditions(builds[p].epub, builds[q].model)
    /\ Add([builds[p] EXCEPT !.index = NewPub,
            !.model = [builds[q].model EXCEPT !.pub = NewPub, !.report = NewPub,
                                              !.keyword = KeywordOf(q)]])
    /\ UNCHANGED <<profile, online>>

PublishModel(p) ==
    /\ p \notin online
    /\ online' = online \cup {p}
    /\ UNCHANGED <<builds, profile>>

NewProfile ==
    /\ profile = 1 /\ profile' = 2
    /\ UNCHANGED <<builds, online>>

NativeNext ==
    \/ \E shelf \in Shelves : SourceBuild(shelf)
    \/ \E p \in Pubs :
          \/ \E file \in Evidence : Structure(p, file)
          \/ InterpretModel(p)
          \/ \E q \in online : Retain(p, q)
          \/ PublishModel(p)
    \/ NewProfile

NativeSpec == NativeInit /\ [][NativeNext]_nativeVars
----------------------------------------------------------------------------
(* Properties *)

\* The model of a publication is of the bytes its index was built from, however builds, shelves
\* and publications followed each other; models with one snapshot read the same; and the shared
\* keyword index is that of a publication with an index of its own, which holds what the model
\* has unless it was interpreted since (book_build.py:508-514, 552-583, book_search.py:199-221).
NativeModelStands == \A p \in online : HasModel(p) =>
    LET model == builds[p].model IN
    /\ model.pub = p /\ model.report = p /\ builds[p].index = p
    /\ model.editions = builds[p].epub
    /\ \A q \in Pubs : HasModel(q) /\ builds[q].model.snapshot = model.snapshot =>
           builds[q].model.units = model.units /\ builds[q].model.entities = model.entities
    /\ model.keyword # NoModel =>
           LET first == builds[model.keyword.pub].model IN
           /\ first.keyword = NoModel /\ first.units = model.keyword.units
           /\ first.snapshot = model.snapshot => first.units = model.units
=============================================================================
