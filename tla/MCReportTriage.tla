---------------------------- MODULE MCReportTriage ----------------------------
(* One run of the triage over five reports that share pages, books and a claim. *)
EXTENDS ReportTriage, TLC

CONSTANTS s1, s2, k1, k2

MCScope(source, book, box) == [source |-> source, page |-> 1, box |-> box, book |-> book]
\* The first report filed a second time by another reader, regions that overlap in a chain under
\* two books, and the page again in another source.
MCScopeOf ==
    (1 :> MCScope(s1, k1, {1})) @@ (2 :> MCScope(s1, k1, {1})) @@ (3 :> MCScope(s1, k2, {1, 2}))
    @@ (4 :> MCScope(s1, k1, {2})) @@ (5 :> MCScope(s2, k2, {2}))
MCClaimOf == (1 :> "a") @@ (2 :> "a") @@ (3 :> "b") @@ (4 :> "c") @@ (5 :> "d")
=============================================================================
