--------------------------- MODULE MCContentReview ---------------------------
(* Small instances of ContentReview: a dish that requires a sauce, which requires *)
(* a portion of a stock.                                                          *)
EXTENDS ContentReview, TLC

CONSTANTS dish, sauce, stock, old, new, unread, owner, guest

Text(portion, rest) == [portion |-> portion, rest |-> rest]

Draft(run, edited, texts) ==
    [run |-> run, edited |-> edited,
     text |-> [s \in Scopes |-> texts[s]],
     support |-> [s \in Scopes |-> {u \in {<<sauce, "whole">>} : s = dish}
                                   \cup {u \in {<<stock, "portion">>} : s = sauce}]]

Original == [s \in {dish, sauce, stock} |-> Text(old, old)]

\* The original; another reading of the portion of the stock the sauce requires; and a
\* fresh extraction, edited, whose sauce is not all read.
Readings == {
    Draft(1, FALSE, Original),
    Draft(1, FALSE, [Original EXCEPT ![stock] = Text(new, old)]),
    Draft(2, TRUE, [Original EXCEPT ![sauce] = Text(old, unread)]) }

\* The original, and an edit of the stock outside that portion.
Corrections == {
    Draft(1, FALSE, Original),
    Draft(1, TRUE, [Original EXCEPT ![stock] = Text(old, new)]) }

Reviewers == Permutations(People)
=============================================================================
