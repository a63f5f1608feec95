------------------------------ MODULE BookSearch ------------------------------
(***************************************************************************)
(* The keyword engine a worker owns (book_search.py) and what the hosted   *)
(* server does with it.  Threads prepare a publication's collection under  *)
(* one lock, unless it is known prepared; a publication may share the      *)
(* collection of an earlier one.  The engine keeps its collections on      *)
(* disk, so a crash leaves whatever had been imported.                     *)
(***************************************************************************)
EXTENDS Naturals, FiniteSets

CONSTANTS
    Indexed,     \* publications with a whole-book model
    Units,       \* the search units of each publication's model
    ReuseOf,     \* the publication whose index its report names, or NoIndex
    Importers,   \* threads: the updater and the requests
    BatchUnits,  \* units of one import request
    EngineStops, \* bound: crashes of the engine or its worker
    NoIndex

ASSUME SearchAssumption ==
    /\ \A p \in Indexed : IsFiniteSet(Units[p]) /\ Units[p] # NoIndex
    /\ ReuseOf \in [Indexed -> Indexed \cup {NoIndex}]
    /\ NoIndex \notin Importers
    /\ BatchUnits \in Nat /\ EngineStops \in Nat

VARIABLES
    collection,  \* the engine's collections: NoIndex, or the units imported
    engine,      \* whether the engine runs
    prepared,    \* BookSearch.prepared
    shared,      \* BookSearch.shared
    importer,    \* each thread's publication and step in prepare
    lock,        \* the thread that holds BookSearch.lock
    stops

searchVars == <<collection, engine, prepared, shared, importer, lock, stops>>

Parked == [pc |-> "parked", pub |-> NoIndex]

SearchInit ==
    /\ collection = [p \in Indexed |-> NoIndex]
    /\ engine = TRUE
    /\ prepared = {}
    /\ shared = [p \in Indexed |-> p]
    /\ importer = [t \in Importers |-> Parked]
    /\ lock = NoIndex
    /\ stops = 0

----------------------------------------------------------------------------

To(t, pc) == importer' = [importer EXCEPT ![t].pc = pc]
Unlock(t) == lock' = NoIndex /\ importer' = [importer EXCEPT ![t] = Parked]

\* prepare's first look at prepared takes no lock.
Prepare(t) == \E p \in Indexed \ prepared :
    /\ importer[t] = Parked
    /\ importer' = [importer EXCEPT ![t] = [pc |-> "wait", pub |-> p]]
    /\ UNCHANGED <<collection, engine, prepared, shared, lock, stops>>

Lock(t) ==
    /\ importer[t].pc = "wait" /\ lock = NoIndex
    /\ lock' = t
    /\ To(t, "look")
    /\ UNCHANGED <<collection, engine, prepared, shared, stops>>

\* The collection bears this model's identity and holds as many documents as it has units.
Matches(p) == collection[p] # NoIndex /\ Cardinality(collection[p]) = Cardinality(Units[p])

Searchable(p) == p \in prepared \/ Matches(p)

\* Found prepared, here or in the engine.
Found(t) == LET p == importer[t].pub IN
    /\ importer[t].pc = "look" /\ engine
    /\ Searchable(p)
    /\ prepared' = prepared \cup {p}
    /\ Unlock(t)
    /\ UNCHANGED <<collection, engine, shared, stops>>

\* search_units_digest: the shared collection is complete and its documents are these.
SharedAgrees(p) ==
    /\ Cardinality(collection[ReuseOf[p]]) = Cardinality(Units[p])
    /\ Units[ReuseOf[p]] = Units[p]

Shareable(p) == ReuseOf[p] # NoIndex /\ collection[ReuseOf[p]] # NoIndex

\* mutant: the publication is prepared before its search is redirected
PreparedFirst(t) == LET p == importer[t].pub IN
    prepared' = prepared \cup {p} /\ UNCHANGED shared

\* The search is redirected first, then the publication counts as prepared.
SharesFirst(t) == LET p == importer[t].pub IN
    shared' = [shared EXCEPT ![p] = ReuseOf[p]] /\ UNCHANGED prepared

Share(t) == LET p == importer[t].pub IN
    /\ importer[t].pc = "look" /\ engine
    /\ ~Searchable(p) /\ Shareable(p) /\ SharedAgrees(p)
    /\ SharesFirst(t)
    /\ To(t, "shared")
    /\ UNCHANGED <<collection, engine, lock, stops>>

Shared(t) == LET p == importer[t].pub IN
    /\ importer[t].pc = "shared"
    /\ shared' = [shared EXCEPT ![p] = ReuseOf[p]]
    /\ prepared' = prepared \cup {p}
    /\ Unlock(t)
    /\ UNCHANGED <<collection, engine, stops>>

SharedDiffers(t) == LET p == importer[t].pub IN
    /\ importer[t].pc = "look" /\ engine
    /\ ~Searchable(p) /\ Shareable(p) /\ ~SharedAgrees(p)
    /\ Unlock(t)
    /\ UNCHANGED <<collection, engine, prepared, shared, stops>>

\* An incomplete collection is deleted; the new one starts empty.
Recreate(t) == LET p == importer[t].pub IN
    /\ importer[t].pc = "look" /\ engine
    /\ ~Searchable(p) /\ ~Shareable(p)
    /\ \/ collection[p] # NoIndex /\ collection' = [collection EXCEPT ![p] = NoIndex] /\ UNCHANGED importer
       \/ collection[p] = NoIndex /\ collection' = [collection EXCEPT ![p] = {}] /\ To(t, "import")
    /\ UNCHANGED <<engine, prepared, shared, lock, stops>>

Batches(p) == {b \in SUBSET (Units[p] \ collection[p]) :
    b # {} /\ Cardinality(b) <= BatchUnits}

Import(t) == LET p == importer[t].pub IN
    /\ importer[t].pc = "import" /\ engine
    /\ \E b \in Batches(p) : collection' = [collection EXCEPT ![p] = @ \cup b]
    /\ UNCHANGED <<engine, prepared, shared, importer, lock, stops>>

\* The final count; the thread can still be overtaken by the engine's end before it is noted.
Verify(t) == LET p == importer[t].pub IN
    /\ importer[t].pc = "import" /\ engine
    /\ Cardinality(collection[p]) = Cardinality(Units[p])
    /\ To(t, "noted")
    /\ UNCHANGED <<collection, engine, prepared, shared, lock, stops>>

Note(t) ==
    /\ importer[t].pc = "noted"
    /\ prepared' = prepared \cup {importer[t].pub}
    /\ Unlock(t)
    /\ UNCHANGED <<collection, engine, shared, stops>>

\* A request to the engine fails: some of the batch may have been imported.
Fails(t) == LET p == importer[t].pub IN
    /\ importer[t].pc \in {"look", "import"}
    /\ \/ UNCHANGED collection
       \/ importer[t].pc = "import" /\ \E b \in Batches(p) : collection' = [collection EXCEPT ![p] = @ \cup b]
    /\ Unlock(t)
    /\ stops < EngineStops /\ stops' = stops + 1
    /\ UNCHANGED <<engine, prepared, shared>>

\* The engine dies: its requests fail, and /healthz lets the supervisor restart the worker.
Crash ==
    /\ engine /\ stops < EngineStops
    /\ engine' = FALSE
    /\ stops' = stops + 1
    /\ UNCHANGED <<collection, prepared, shared, importer, lock>>

\* A new worker: a new BookSearch, the collections as they were.
Restart ==
    /\ ~engine
    /\ engine' = TRUE
    /\ prepared' = {}
    /\ shared' = [p \in Indexed |-> p]
    /\ importer' = [t \in Importers |-> Parked]
    /\ lock' = NoIndex
    /\ UNCHANGED <<collection, stops>>

SearchNext ==
    \/ Crash \/ Restart
    \/ \E t \in Importers :
          \/ Prepare(t) \/ Lock(t) \/ Found(t) \/ Share(t) \/ Shared(t) \/ SharedDiffers(t)
          \/ Recreate(t) \/ Import(t) \/ Verify(t) \/ Note(t) \/ Fails(t)

SearchSpec == SearchInit /\ [][SearchNext]_searchVars

----------------------------------------------------------------------------

\* Whatever crashed or raced, a publication that counts as prepared, and so is reported ready and
\* searched without a lock, is searched in a collection that holds exactly its units
\* (book_search.py:152-155, 199-200; server.py:636-647).
SearchesWhole == \A p \in prepared : collection[shared[p]] = Units[p]
=============================================================================
