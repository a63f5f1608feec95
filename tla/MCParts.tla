------------------------------- MODULE MCParts -------------------------------
(* Small instances of the parts that share nothing: a behaviour is one of *)
(* one of them, the others stay as they began. *)
EXTENDS PersonalState, OwnerReports, BookSearch, LibraryWalk, LibraryCaches, Supervision,
        ManifestCache, UsageLog, PilotLedger, Dashboard, TLC

VARIABLE part

CONSTANTS indexA, indexB, indexC, editionP, editionQ

Op(id, action, target, at, name) ==
    [id |-> id, action |-> action, target |-> target, at |-> at, name |-> name]
\* Two devices save, one renames or removes the first bookmark, two resume under one id.
MCOperations ==
    {Op(1, "save", 0, "p", "x"), Op(2, "save", 0, "p", "y"), Op(3, "rename", 1, "p", "z"),
     Op(4, "remove", 1, "p", "-"), Op(5, "resume", 0, "q", "here"), Op(5, "resume", 0, "q", "there")}

\* B holds the units of A, C does not.
MCUnits == (indexA :> {1, 2}) @@ (indexB :> {1, 2}) @@ (indexC :> {1, 3})
MCReuse == (indexA :> NoIndex) @@ (indexB :> indexA) @@ (indexC :> indexA)

MCLastOffset == [search |-> 1, listing |-> 2]
MCWalkHits == (editionP :> <<"a", "b", "c", "d">>) @@ (editionQ :> <<"b", "a", "e">>)

\* A book with an asset that is too large for the cache, and two that do not fit together.
MCViews ==
    {[book |-> "p", asset |-> a, view |-> v] :
        <<a, v>> \in {<<"huge", 0>>, <<"one", 0>>, <<"one", 1>>, <<"two", 1>>, <<"two", 2>>}}
MCSizeOf == [huge |-> 4, one |-> 1, two |-> 2]
MCPixelsOf == [huge |-> <<1, 2>>, one |-> <<1>>, two |-> <<1, 2>>]

\* Two packets of one identity, and one of another over the same scopes.
MCIdentity == (1 :> "a") @@ (2 :> "a") @@ (3 :> "b")
MCCost == (1 :> 2) @@ (2 :> 2) @@ (3 :> 1)
MCPacketScopes == (1 :> {"g", "r"}) @@ (2 :> {"g"}) @@ (3 :> {"g", "r"})
MCCap == [g |-> 2, r |-> 1]

MCSaying == [index |-> {{[dimension |-> "publication", state |-> "catalog present"]}, {}}]
MCOnce == [index |-> 1]

Parts == {"personal", "intake", "search", "walk", "caches", "supervision", "manifests", "usage",
          "pilot", "dashboard"}

PartsInit ==
    /\ part \in Parts
    /\ PersonalInit /\ OwnerInit /\ SearchInit /\ WalkInit /\ CachesInit /\ SupervisionInit
    /\ ManifestInit /\ UsageInit /\ PilotInit /\ DashboardInit
    \* One initial state of the parts that have several, except in their own behaviours.
    /\ part = "walk" \/ current = editionP
    /\ part = "dashboard" \/ \A s \in Sources : truth[s] = {}

Still(p, vars) == IF part = p THEN TRUE ELSE UNCHANGED vars

Only ==
    /\ UNCHANGED part
    /\ Still("personal", personalVars) /\ Still("intake", intakeVars)
    /\ Still("search", searchVars) /\ Still("walk", walkVars)
    /\ Still("caches", cacheVars) /\ Still("supervision", watchVars)
    /\ Still("manifests", manifestVars) /\ Still("usage", usageVars)
    /\ Still("pilot", pilotVars) /\ Still("dashboard", dashboardVars)

PersonalPart == part = "personal" /\ PersonalNext /\ Only
IntakePart == part = "intake" /\ OwnerNext /\ Only
SearchPart == part = "search" /\ SearchNext /\ Only
WalkPart == part = "walk" /\ WalkNext /\ Only
CachesPart == part = "caches" /\ CachesNext /\ Only
SupervisionPart == part = "supervision" /\ SupervisionNext /\ Only
ManifestsPart == part = "manifests" /\ ManifestNext /\ Only
UsagePart == part = "usage" /\ UsageNext /\ Only
PilotPart == part = "pilot" /\ PilotNext /\ Only
DashboardPart == part = "dashboard" /\ DashboardNext /\ Only

PartsNext ==
    \/ PersonalPart \/ IntakePart \/ SearchPart \/ WalkPart
    \/ CachesPart \/ SupervisionPart \/ ManifestsPart \/ UsagePart
    \/ PilotPart \/ DashboardPart

partsVars == <<part, personalVars, intakeVars, searchVars, walkVars, cacheVars, watchVars,
               manifestVars, usageVars, pilotVars, dashboardVars>>

\* The fairness of the part that has one, in its own behaviours.
PartsSpec == PartsInit /\ [][PartsNext]_partsVars /\ WF_watchVars(part = "supervision" /\ Supervisor)
=============================================================================
