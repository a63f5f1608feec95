---------------------------- MODULE MCWithdrawal ----------------------------
EXTENDS Withdrawal, TLC

\* Books and commands are interchangeable.
Symmetry == Permutations(Books) \cup Permutations(Operators)
=============================================================================
