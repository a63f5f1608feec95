------------------------- MODULE ContentReviewProofs -------------------------
(***************************************************************************)
(* Proofs about reviews.  The file of candidates and decisions: for any    *)
(* book, any candidates, and any number of reviewers and decisions, the    *)
(* file can be loaded again, what is eligible rests on standing grounds,   *)
(* and a revocation reaches everything that rests on what it revokes.  The *)
(* chain of corrections: for any evidence and reviewers, a revision lands  *)
(* as it was meant and loses no line.                                      *)
(*                                                                         *)
(* Dependents and Standing are defined by recursion, a view is a fold over *)
(* revisions; that the recursive function exists, and is the only one, is  *)
(* shown from a least counterexample.                                      *)
(***************************************************************************)
EXTENDS ContentReview, RevisionChain, FiniteSetTheorems, SequenceTheorems, WellFoundedInduction,
        TLAPS

\* Every set of numbers has a least one.
LEMMA LeastNumber ==
    ASSUME NEW S \in SUBSET Nat, S # {}
    PROVE  \E m \in S : \A n \in S : m <= n
<1> DEFINE Smaller == OpToRel(<, Nat)
<1>1. IsWellFoundedOn(Smaller, Nat)
  BY NatLessThanWellFounded
<1>2. \A x, y \in Nat : y < x => <<y, x>> \in Smaller
  BY DEF OpToRel
<1> HIDE DEF Smaller
<1>3. PICK m \in S : \A n \in S : <<n, m>> \notin Smaller
  BY <1>1, WFMin
<1>4. ASSUME NEW n \in S PROVE m <= n
  <2>1. ~(n < m) /\ n \in Nat /\ m \in Nat
    BY <1>2, <1>3
  <2>2. QED BY <2>1
<1>5. QED BY <1>4

----------------------------------------------------------------------------
(* What rests on a set of decisions *)

\* Each decision rests on earlier ones.
Earlier(log) == \A i \in 1..Len(log) : \A b \in log[i].deps : b[3] \in 1..(i - 1)

\* Up to the k-th decision, D are those of A and what rests on D.
ClosedTo(log, A, D, k) == \A i \in 1..Len(log) :
    i <= k => (i \in D <=> (i \in A \/ \E b \in log[i].deps : b[3] \in D))

\* There are such decisions, up to any one.
LEMMA ClosureExists ==
    ASSUME NEW log, Len(log) \in Nat, Earlier(log), NEW A, NEW k \in Nat
    PROVE  \E D : ClosedTo(log, A, D, k)
<1> DEFINE Bad == {m \in Nat : ~\E D : ClosedTo(log, A, D, m)}
<1> SUFFICES ASSUME Bad # {} PROVE FALSE
  OBVIOUS
<1>1. PICK m \in Bad : \A n \in Bad : m <= n
  BY LeastNumber
<1>2. CASE m = 0
  <2>1. ClosedTo(log, A, {}, m)
    BY <1>2 DEF ClosedTo
  <2>2. QED BY <2>1, <1>1
<1>3. CASE m # 0
  <2>1. m - 1 \in Nat /\ m - 1 \notin Bad
    BY <1>1, <1>3
  <2>2. PICK D : ClosedTo(log, A, D, m - 1)
    BY <2>1
  <2> DEFINE E == {i \in D : i < m} \cup
                  {i \in {m} : i \in A \/ \E b \in log[i].deps : b[3] \in D}
  <2>3. ASSUME NEW i \in 1..Len(log), i <= m
        PROVE  i \in E <=> (i \in A \/ \E b \in log[i].deps : b[3] \in E)
    <3>1. \A b \in log[i].deps : b[3] \in 1..(i - 1)
      BY DEF Earlier
    <3>2. \A b \in log[i].deps : b[3] \in E <=> b[3] \in D
      BY <3>1, <2>3, <1>1
    <3>3. CASE i = m
      BY <3>2, <3>3
    <3>4. CASE i # m
      <4>1. i <= m - 1 /\ i < m /\ (i \in E <=> i \in D)
        BY <3>4, <2>3, <1>1
      <4>2. i \in D <=> (i \in A \/ \E b \in log[i].deps : b[3] \in D)
        BY <4>1, <2>2 DEF ClosedTo
      <4> HIDE DEF E
      <4>3. QED BY <4>1, <4>2, <3>2
    <3>5. QED BY <3>3, <3>4
  <2>4. ClosedTo(log, A, E, m)
    BY <2>3 DEF ClosedTo
  <2>5. QED BY <2>4, <1>1
<1>4. QED BY <1>2, <1>3

\* The dependents of decisions are these and what rests on dependents.
LEMMA DependentsClosed ==
    ASSUME NEW log, Len(log) \in Nat, Earlier(log), NEW A
    PROVE  \A i \in 1..Len(log) :
             i \in Dependents(log, A) <=>
               (i \in A \/ \E b \in log[i].deps : b[3] \in Dependents(log, A))
<1> DEFINE Rests(f) == f = [i \in 1..Len(log) |-> i \in A \/ \E b \in log[i].deps : f[b[3]]]
           rests == CHOOSE f : Rests(f)
<1>1. PICK D : ClosedTo(log, A, D, Len(log))
  BY ClosureExists
<1> DEFINE g == [i \in 1..Len(log) |-> i \in D]
<1>2. \A i \in 1..Len(log) : g[i] = (i \in A \/ \E b \in log[i].deps : g[b[3]])
  <2>1. TAKE i \in 1..Len(log)
  <2>2. \A b \in log[i].deps : b[3] \in 1..Len(log)
    BY DEF Earlier
  <2>3. i \in D <=> (i \in A \/ \E b \in log[i].deps : b[3] \in D)
    BY <1>1 DEF ClosedTo
  <2>4. \A b \in log[i].deps : g[b[3]] = (b[3] \in D)
    BY <2>2
  <2>5. g[i] = (i \in D)
    OBVIOUS
  <2> HIDE DEF g
  <2>6. (\E b \in log[i].deps : g[b[3]]) <=> (\E b \in log[i].deps : b[3] \in D)
    BY <2>4
  <2>7. (i \in A \/ \E b \in log[i].deps : g[b[3]]) = (i \in D)
    BY <2>3, <2>6
  <2>8. QED BY <2>5, <2>7
<1>3. Rests(g)
  BY <1>2
<1> HIDE DEF Rests
<1>4. Rests(rests)
  BY <1>3
<1>5. Dependents(log, A) = {i \in 1..Len(log) : rests[i]}
  BY DEF Dependents, Rests
<1> HIDE DEF rests
<1>6. \A i \in 1..Len(log) : rests[i] = (i \in A \/ \E b \in log[i].deps : rests[b[3]])
  BY <1>4 DEF Rests
<1>7. ASSUME NEW i \in 1..Len(log)
      PROVE  i \in Dependents(log, A) <=>
               (i \in A \/ \E b \in log[i].deps : b[3] \in Dependents(log, A))
  <2>1. \A b \in log[i].deps : b[3] \in 1..Len(log)
    BY DEF Earlier
  <2>2. QED BY <1>5, <1>6, <2>1
<1>8. QED BY <1>7

\* They are decisions of the file.
LEMMA DependentsListed ==
    ASSUME NEW log, NEW A
    PROVE  Dependents(log, A) \subseteq 1..Len(log)
BY DEF Dependents

----------------------------------------------------------------------------
(* Which decision vouches for what *)

Calls == Kinds \X Scopes \X SUBSET Scopes

\* What a scope requires, each with the decision that a function says vouches for it.
Needs(F, c, v) == {<<u[1], u[2], F[<<u[2], u[1], v[3] \cup {v[2]}>>]>> :
                     u \in candidates[c].support[v[2]]}

LastVouch(log, c, v) == Greatest(Matching(log, c, v[2], v[1]))

\* The latest matching decision counts, if those vouch that the function says.
Counts(F, log, c, v) ==
    /\ v[2] \notin v[3] /\ Matching(log, c, v[2], v[1]) # {}
    /\ LastVouch(log, c, v) \notin Revoked(log)
    /\ log[LastVouch(log, c, v)].deps = Needs(F, c, v)

Vouch(F, log, c, v) == IF Counts(F, log, c, v) THEN LastVouch(log, c, v) ELSE 0

Vouches(F, log, c) == F = [v \in Calls |-> Vouch(F, log, c, v)]

\* A candidate's scopes require scopes of the book.
Supports(c) == \A s \in Scopes : candidates[c].support[s] \subseteq Scopes \X Kinds

\* How many scopes are left to visit.
Depth(v) == Cardinality(Scopes \ v[3])

\* A call about what a scope requires has one scope less to visit.
LEMMA DepthLess ==
    ASSUME NEW v \in Calls, v[2] \notin v[3], NEW k \in Kinds, NEW s \in Scopes
    PROVE  /\ <<k, s, v[3] \cup {v[2]}>> \in Calls
           /\ Depth(v) \in Nat
           /\ Depth(<<k, s, v[3] \cup {v[2]}>>) = Depth(v) - 1
           /\ Depth(v) > 0
<1>1. IsFiniteSet(Scopes \ v[3]) /\ v[2] \in Scopes \ v[3]
  BY ReviewAssumption, FS_Subset DEF Calls
<1>2. Scopes \ (v[3] \cup {v[2]}) = (Scopes \ v[3]) \ {v[2]}
  OBVIOUS
<1>3. Cardinality((Scopes \ v[3]) \ {v[2]}) = Cardinality(Scopes \ v[3]) - 1
  BY <1>1, FS_RemoveElement
<1>4. Cardinality(Scopes \ v[3]) \in Nat /\ Cardinality((Scopes \ v[3]) \ {v[2]}) \in Nat
  BY <1>1, FS_CardinalityType, FS_RemoveElement
<1>5. <<k, s, v[3] \cup {v[2]}>> \in Calls
  BY DEF Calls
<1>6. Depth(v) = Cardinality(Scopes \ v[3])
  BY DEF Depth
<1>7. Depth(<<k, s, v[3] \cup {v[2]}>>) = Cardinality(Scopes \ (v[3] \cup {v[2]}))
  BY DEF Depth
<1>8. Cardinality(Scopes \ (v[3] \cup {v[2]})) = Cardinality((Scopes \ v[3]) \ {v[2]})
  BY <1>2
<1>9. Depth(<<k, s, v[3] \cup {v[2]}>>) = Depth(v) - 1
  BY <1>3, <1>6, <1>7, <1>8
<1>10. Depth(v) \in Nat /\ Depth(v) > 0
  BY <1>3, <1>4, <1>6
<1>11. QED BY <1>5, <1>9, <1>10

\* How many are left is a number.
LEMMA DepthNat ==
    ASSUME NEW v \in Calls
    PROVE  Depth(v) \in Nat
BY ReviewAssumption, FS_Subset, FS_CardinalityType DEF Calls, Depth

\* The verdict is a matter of calls with fewer scopes left to visit.
LEMMA VouchLocal ==
    ASSUME NEW log, NEW c, Supports(c), NEW F, NEW G, NEW v \in Calls,
           \A w \in Calls : Depth(w) < Depth(v) => F[w] = G[w]
    PROVE  Vouch(F, log, c, v) = Vouch(G, log, c, v)
<1>1. CASE v[2] \in v[3]
  BY <1>1 DEF Vouch, Counts
<1>2. CASE v[2] \notin v[3]
  <2>1. ASSUME NEW u \in candidates[c].support[v[2]]
        PROVE  F[<<u[2], u[1], v[3] \cup {v[2]}>>] = G[<<u[2], u[1], v[3] \cup {v[2]}>>]
    <3>1. v[2] \in Scopes /\ u[1] \in Scopes /\ u[2] \in Kinds
      BY DEF Supports, Calls
    <3>2. QED BY <3>1, <1>2, DepthLess
  <2>2. Needs(F, c, v) = Needs(G, c, v)
    BY <2>1 DEF Needs
  <2>3. QED BY <2>2 DEF Vouch, Counts
<1>3. QED BY <1>1, <1>2

\* The function that the code's recursion computes exists.
LEMMA VouchesExists ==
    ASSUME NEW log, NEW c, Supports(c)
    PROVE  \E F : Vouches(F, log, c)
<1> DEFINE To(F, k) == \A v \in Calls : Depth(v) < k => F[v] = Vouch(F, log, c, v)
           Bad == {k \in Nat : ~\E F : To(F, k)}
<1>1. ASSUME NEW k \in Bad, \A n \in Bad : k <= n PROVE FALSE
  <2>1. CASE k = 0
    <3>1. \A v \in Calls : ~(Depth(v) < k)
      BY <2>1, DepthNat
    <3>2. To([v \in Calls |-> 0], k)
      BY <3>1
    <3>3. QED BY <3>2
  <2>2. CASE k # 0
    <3>1. k - 1 \in Nat /\ k - 1 \notin Bad
      BY <1>1, <2>2
    <3>2. PICK F : To(F, k - 1)
      BY <3>1
    <3> DEFINE G == [v \in Calls |-> Vouch(F, log, c, v)]
    <3>3. \A v \in Calls : Depth(v) < k - 1 => F[v] = G[v]
      BY <3>2
    <3>4. ASSUME NEW v \in Calls, Depth(v) < k PROVE G[v] = Vouch(G, log, c, v)
      <4> HIDE DEF G
      <4>1. \A w \in Calls : Depth(w) < Depth(v) => Depth(w) < k - 1
        BY <3>4, DepthNat, <3>1
      <4>2. \A w \in Calls : Depth(w) < Depth(v) => F[w] = G[w]
        BY <4>1, <3>3
      <4>3. Vouch(F, log, c, v) = Vouch(G, log, c, v)
        BY <4>2, VouchLocal
      <4>4. QED BY <4>3 DEF G
    <3> HIDE DEF G
    <3>5. To(G, k)
      BY <3>4
    <3>6. QED BY <3>5
  <2>3. QED BY <2>1, <2>2
<1>2. Bad = {}
  <2> HIDE DEF To
  <2>1. SUFFICES ASSUME Bad # {} PROVE FALSE
    OBVIOUS
  <2>2. PICK k \in Bad : \A n \in Bad : k <= n
    BY <2>1, LeastNumber
  <2>3. QED BY <2>2, <1>1
<1>3. Cardinality(Scopes) + 1 \in Nat
  BY ReviewAssumption, FS_CardinalityType
<1>4. PICK F : To(F, Cardinality(Scopes) + 1)
  BY <1>2, <1>3
<1> DEFINE G == [v \in Calls |-> Vouch(F, log, c, v)]
<1>5. ASSUME NEW v \in Calls PROVE F[v] = G[v]
  <2>1. Depth(v) \in Nat /\ Depth(v) <= Cardinality(Scopes) /\ Cardinality(Scopes) \in Nat
    BY ReviewAssumption, FS_Subset, FS_CardinalityType DEF Depth
  <2>2. Depth(v) < Cardinality(Scopes) + 1
    BY <2>1
  <2>3. F[v] = Vouch(F, log, c, v)
    BY <1>4, <2>2
  <2>4. QED BY <2>3
<1>6. ASSUME NEW v \in Calls PROVE G[v] = Vouch(G, log, c, v)
  <2> HIDE DEF G
  <2>1. Vouch(F, log, c, v) = Vouch(G, log, c, v)
    BY <1>5, VouchLocal
  <2>2. QED BY <2>1 DEF G
<1>7. G = [v \in Calls |-> G[v]]
  OBVIOUS
<1> HIDE DEF G
<1>8. G = [v \in Calls |-> Vouch(G, log, c, v)]
  BY <1>6, <1>7
<1>9. QED BY <1>8 DEF Vouches

\* It is the only one.
LEMMA VouchesUnique ==
    ASSUME NEW log, NEW c, Supports(c), NEW F, NEW G, Vouches(F, log, c), Vouches(G, log, c)
    PROVE  F = G
<1> DEFINE Differ == {v \in Calls : F[v] # G[v]}
           Depths == {Depth(v) : v \in Differ}
<1>1. ASSUME Differ # {} PROVE FALSE
  <2>1. Depths # {} /\ Depths \subseteq Nat
    BY <1>1, DepthNat
  <2>2. PICK m \in Depths : \A n \in Depths : m <= n
    BY <2>1, LeastNumber
  <2>3. PICK v \in Differ : Depth(v) = m
    BY <2>2
  <2>4. ASSUME NEW w \in Calls, Depth(w) < Depth(v) PROVE F[w] = G[w]
    <3>1. Depth(w) \in Nat /\ Depth(v) \in Nat /\ Depth(w) \notin Depths
      BY <2>2, <2>3, <2>4, DepthNat
    <3>2. QED BY <3>1
  <2>5. Vouch(F, log, c, v) = Vouch(G, log, c, v)
    BY <2>4, VouchLocal
  <2>6. F[v] = Vouch(F, log, c, v) /\ G[v] = Vouch(G, log, c, v)
    BY DEF Vouches
  <2>7. QED BY <2>3, <2>5, <2>6
<1>2. \A v \in Calls : F[v] = G[v]
  BY <1>1
<1>3. F = [v \in Calls |-> F[v]] /\ G = [v \in Calls |-> G[v]]
  BY DEF Vouches
<1>4. QED BY <1>2, <1>3

\* Standing is that function.
LEMMA StandingVouches ==
    ASSUME NEW log, NEW c, Supports(c)
    PROVE  /\ Vouches(Standing(log, c), log, c)
           /\ \A v \in Calls : Standing(log, c)[v] = Vouch(Standing(log, c), log, c, v)
<1>1. Standing(log, c) = CHOOSE F : Vouches(F, log, c)
  BY DEF Standing, Vouches, Vouch, Counts, LastVouch, Needs, Calls, SameSupport
<1>2. Vouches(Standing(log, c), log, c)
  BY <1>1, VouchesExists
<1>3. QED BY <1>2 DEF Vouches

----------------------------------------------------------------------------
(* What a decision that vouches is *)

\* A set of decisions has a latest one.
LEMMA GreatestIn ==
    ASSUME NEW n \in Nat, NEW S \in SUBSET (1..n), S # {}
    PROVE  Greatest(S) \in S /\ \A y \in S : y <= Greatest(S)
<1>1. {n - x : x \in S} \subseteq Nat /\ {n - x : x \in S} # {}
  <2>1. \A x \in S : n - x \in Nat
    OBVIOUS
  <2>2. PICK x : x \in S
    OBVIOUS
  <2>3. n - x \in {n - y : y \in S}
    BY <2>2
  <2>4. QED BY <2>1, <2>3
<1>2. PICK m \in {n - x : x \in S} : \A k \in {n - x : x \in S} : m <= k
  BY <1>1, LeastNumber
<1>3. PICK x \in S : m = n - x
  BY <1>2
<1>4. \A y \in S : n - x <= n - y
  BY <1>2, <1>3
<1>5. \A y \in S : y <= x
  BY <1>4
<1>6. QED BY <1>5 DEF Greatest

\* What Standing answers is a review of the scope that matches the candidate, is not
\* revoked, and rests on what vouches today.
LEMMA StandingSound ==
    ASSUME NEW log, Len(log) \in Nat, NEW c, Supports(c), NEW v \in Calls,
           NEW i, i = Standing(log, c)[v]
    PROVE  \/ i = 0
           \/ /\ i \in Matching(log, c, v[2], v[1])
              /\ i \notin Revoked(log)
              /\ log[i].deps = Needs(Standing(log, c), c, v)
<1>1. i = Vouch(Standing(log, c), log, c, v)
  BY StandingVouches
<1>2. CASE ~Counts(Standing(log, c), log, c, v)
  BY <1>1, <1>2 DEF Vouch
<1>3. CASE Counts(Standing(log, c), log, c, v)
  <2>1. i = LastVouch(log, c, v)
    BY <1>1, <1>3 DEF Vouch
  <2>2. Matching(log, c, v[2], v[1]) \in SUBSET (1..Len(log))
    BY DEF Matching, Reviews
  <2>3. LastVouch(log, c, v) \in Matching(log, c, v[2], v[1])
    BY <1>3, <2>2, GreatestIn DEF Counts, LastVouch
  <2>4. QED BY <1>3, <2>1, <2>3 DEF Counts
<1>4. QED BY <1>2, <1>3

----------------------------------------------------------------------------
(* The inductive invariant *)

Entry == [action : Actions, scope : Scopes, candidate : Nat, actor : People \cup {None},
          related : Nat, validation : Nat, deps : SUBSET (Scopes \X Kinds \X Nat),
          affected : SUBSET Nat, checks : BOOLEAN \X BOOLEAN]

\* Each decision rests on reviews of the scopes it names.
OnReviews(log) == \A i \in 1..Len(log) : \A b \in log[i].deps : b[3] \in Reviews(log, b[1])

FileHolds ==
    /\ decisions \in Seq(Entry)
    /\ ReviewTypeOK
    /\ OnReviews(decisions)
    /\ RevocationCloses

\* A file that holds has sensible candidates, and decisions that rest on earlier ones.
LEMMA FileFacts ==
    ASSUME FileHolds
    PROVE  /\ Len(candidates) \in Nat /\ Len(decisions) \in Nat
           /\ candidates \in Seq(Drafts)
           /\ \A c \in 1..Len(candidates) : Supports(c)
           /\ Earlier(decisions)
           /\ \A i \in 1..Len(decisions) : decisions[i].candidate \in 1..Len(candidates)
<1>1. Len(candidates) \in Nat /\ Len(decisions) \in Nat /\ candidates \in Seq(Drafts)
  BY DEF FileHolds, ReviewTypeOK
<1>2. \A c \in 1..Len(candidates) : Supports(c)
  BY <1>1, ReviewAssumption DEF Supports
<1>3. \A i \in 1..Len(decisions) : /\ decisions[i].candidate \in 1..Len(candidates)
                                   /\ decisions[i].deps \in SUBSET (Scopes \X Kinds \X (1..(i - 1)))
  BY DEF FileHolds, ReviewTypeOK, Event, Bindings
<1>4. Earlier(decisions)
  <2> SUFFICES ASSUME NEW i \in 1..Len(decisions), NEW b \in decisions[i].deps
               PROVE  b[3] \in 1..(i - 1)
    BY DEF Earlier
  <2>1. b \in Scopes \X Kinds \X (1..(i - 1))
    BY <1>3
  <2>2. QED BY <2>1
<1>5. QED BY <1>1, <1>2, <1>3, <1>4

\* What the i-th decision revokes.
Falls(log, i) == log[i].affected \cup
    (IF log[i].action # "revoke" THEN {}
     ELSE IF log[i].related # 0 THEN {log[i].related}
     ELSE {j \in 1..(i - 1) : log[j].scope = log[i].scope})

\* What is revoked is what some decision revokes.
LEMMA RevokedFalls ==
    ASSUME NEW log
    PROVE  Revoked(log) = UNION {Falls(log, i) : i \in 1..Len(log)}
BY DEF Revoked, Falls

\* A longer file says what the file said, and its last decision.
Extends(longer, log, e) ==
    /\ longer \in Seq(Entry) /\ Len(longer) = Len(log) + 1
    /\ \A i \in 1..Len(log) : longer[i] = log[i]
    /\ longer[Len(longer)] = e
    /\ Revoked(longer) = Revoked(log) \cup Falls(longer, Len(longer))
    /\ \A s : Reviews(log, s) = Reviews(longer, s) \cap 1..Len(log)

\* One more decision revokes what it revokes, and leaves what was said before.
LEMMA Appended ==
    ASSUME NEW log \in Seq(Entry), NEW e \in Entry, NEW longer, longer = Append(log, e)
    PROVE  Extends(longer, log, e)
<1>1. /\ longer \in Seq(Entry) /\ Len(longer) = Len(log) + 1 /\ Len(log) \in Nat
      /\ \A i \in 1..Len(log) : longer[i] = log[i]
      /\ longer[Len(longer)] = e
  OBVIOUS
<1>2. \A i \in 1..Len(log) : Falls(longer, i) = Falls(log, i)
  <2>1. TAKE i \in 1..Len(log)
  <2>2. \A j \in 1..(i - 1) : longer[j] = log[j]
    BY <1>1
  <2>3. longer[i] = log[i]
    BY <1>1
  <2>4. QED BY <2>2, <2>3 DEF Falls
<1>3. Revoked(longer) = Revoked(log) \cup Falls(longer, Len(longer))
  <2>1. 1..Len(longer) = (1..Len(log)) \cup {Len(longer)}
    BY <1>1
  <2>2. Revoked(longer) = UNION {Falls(longer, i) : i \in 1..Len(longer)}
    BY RevokedFalls
  <2>3. Revoked(log) = UNION {Falls(longer, i) : i \in 1..Len(log)}
    BY <1>2, RevokedFalls
  <2>4. QED BY <2>1, <2>2, <2>3
<1>4. \A s : Reviews(log, s) = Reviews(longer, s) \cap 1..Len(log)
  BY <1>1 DEF Reviews
<1>5. QED BY <1>1, <1>3, <1>4 DEF Extends

\* A recorded decision that rests on unrevoked reviews, and revokes whatever rests on what
\* it revokes, leaves the file in order.
LEMMA RecordHolds ==
    ASSUME FileHolds, NEW e, Record(e), e \in Event(Len(decisions)),
           \A b \in e.deps : b[3] \in Reviews(decisions, b[1]) /\ b[3] \notin Revoked(decisions),
           e.deps = {} \/ (e.affected = {} /\ e.action # "revoke"),
           \A i \in 1..Len(decisions) : \A b \in decisions[i].deps :
               b[3] \in Falls(decisions', Len(decisions')) => i \in Falls(decisions', Len(decisions'))
    PROVE  FileHolds'
<1>1. Len(decisions) \in Nat /\ decisions \in Seq(Entry) /\ Len(candidates) \in Nat
  BY FileFacts DEF FileHolds
<1>2. e \in Entry
  BY <1>1 DEF Event, Entry, Bindings
<1>3. decisions' = Append(decisions, e) /\ candidates' = candidates
  BY DEF Record
<1>4. Extends(decisions', decisions, e)
  <2>1. PICK log, longer : log = decisions /\ longer = decisions'
    OBVIOUS
  <2>2. log \in Seq(Entry) /\ longer = Append(log, e)
    BY <2>1, <1>1, <1>3
  <2>3. Extends(longer, log, e)
    BY <2>2, <1>2, Appended
  <2>4. QED BY <2>1, <2>3
<1>5. ReviewTypeOK'
  <2>1. ASSUME NEW i \in 1..Len(decisions') PROVE decisions'[i] \in Event(i - 1)'
    <3>1. Event(i - 1)' = Event(i - 1)
      BY <1>3 DEF Event
    <3>2. CASE i \in 1..Len(decisions)
      BY <3>1, <3>2, <1>4 DEF Extends, FileHolds, ReviewTypeOK
    <3>3. CASE i = Len(decisions) + 1
      <4>1. i - 1 = Len(decisions) /\ decisions'[i] = e
        BY <3>3, <1>1, <1>4 DEF Extends
      <4>2. QED BY <4>1, <3>1
    <3>4. QED BY <3>2, <3>3, <1>1, <1>4 DEF Extends
  <2>2. Len(candidates') + Len(decisions') <= MaxRecords
    BY <1>1, <1>3, <1>4, ReviewAssumption DEF Record
  <2>3. QED BY <2>1, <2>2, <1>3 DEF ReviewTypeOK, FileHolds
<1>6. ASSUME NEW i \in 1..Len(decisions'), NEW b \in decisions'[i].deps
      PROVE  /\ b[3] \in Reviews(decisions', b[1])
             /\ b[3] \in Revoked(decisions') => i \in Revoked(decisions')
  <2>1. CASE i \in 1..Len(decisions)
    <3>1. b \in decisions[i].deps
      BY <2>1, <1>4 DEF Extends
    <3>2. b[3] \in Reviews(decisions, b[1])
      BY <2>1, <3>1 DEF FileHolds, OnReviews
    <3>3. b[3] \in Revoked(decisions) => i \in Revoked(decisions)
      BY <2>1, <3>1 DEF FileHolds, RevocationCloses
    <3>4. QED BY <2>1, <3>1, <3>2, <3>3, <1>4 DEF Extends
  <2>2. CASE i = Len(decisions')
    <3>1. b \in e.deps /\ e.affected = {} /\ e.action # "revoke"
      BY <2>2, <1>4 DEF Extends
    <3>2. Falls(decisions', Len(decisions')) = {}
      BY <3>1, <1>4 DEF Extends, Falls
    <3>3. QED BY <3>1, <3>2, <1>4 DEF Extends
  <2>3. QED BY <2>1, <2>2, <1>1, <1>4 DEF Extends
<1>7. OnReviews(decisions')
  BY <1>6 DEF OnReviews
<1>8. RevocationCloses'
  BY <1>6 DEF RevocationCloses
<1>9. decisions' \in Seq(Entry)
  BY <1>4 DEF Extends
<1>10. OnReviews(decisions)'
  BY <1>7
<1>11. QED BY <1>5, <1>8, <1>9, <1>10 DEF FileHolds

----------------------------------------------------------------------------
(* The operations keep the file in order *)

\* What most decisions leave out may follow n decisions.
LEMMA Blank ==
    ASSUME NEW n \in Nat
    PROVE  /\ <<FALSE, FALSE>> \in BOOLEAN \X BOOLEAN
           /\ {} \in Bindings(n) /\ {} \in SUBSET (1..n) /\ 0 \in 0..n
<1>1. <<FALSE, FALSE>> \in BOOLEAN \X BOOLEAN
  OBVIOUS
<1>2. {} \in Bindings(n)
  BY DEF Bindings
<1>3. QED BY <1>1, <1>2

\* A decision that rests on nothing and revokes nothing.
LEMMA PlainHolds ==
    ASSUME FileHolds, NEW action \in Actions \ {"revoke"}, NEW c \in 1..Len(candidates), NEW s \in Scopes,
           NEW p \in People \cup {None}, Record(Decision(action, c, s, p))
    PROVE  FileHolds'
<1> DEFINE e == Decision(action, c, s, p)
<1>1. /\ e.deps = {} /\ e.affected = {} /\ e.action # "revoke"
      /\ e \in Event(Len(decisions))
  <2>1. e = [action |-> action, scope |-> s, candidate |-> c, actor |-> p, related |-> 0,
             validation |-> 0, deps |-> {}, affected |-> {}, checks |-> <<FALSE, FALSE>>]
    BY DEF Decision
  <2>2. Len(decisions) \in Nat
    BY FileFacts
  <2> HIDE DEF e
  <2>3. e \in Event(Len(decisions))
    BY <2>1, <2>2, Blank DEF Event
  <2>4. QED BY <2>1, <2>3
<1>2. decisions' = Append(decisions, e) /\ decisions \in Seq(Entry)
  BY DEF Record, FileHolds
<1> HIDE DEF e
<1>3. decisions'[Len(decisions')] = e
  BY <1>2
<1>4. Falls(decisions', Len(decisions')) = {}
  BY <1>1, <1>3 DEF Falls
<1>5. Record(e)
  BY DEF e
<1>6. QED BY <1>1, <1>4, <1>5, RecordHolds

\* What a review that may be taken records: it rests on unrevoked reviews of what the scope
\* requires, taken earlier.
LEMMA ReviewGrounds ==
    ASSUME FileHolds, NEW c \in 1..Len(candidates), NEW s \in Scopes, NEW p \in People,
           Reviewable(c, s, p)
    PROVE  /\ Validation(decisions, p) \in 0..Len(decisions)
           /\ \A b \in SupportBindings(decisions, c, s) :
                 /\ b \in Scopes \X Kinds \X (1..Len(decisions))
                 /\ b[3] \in Reviews(decisions, b[1]) /\ b[3] \notin Revoked(decisions)
<1>1. Len(decisions) \in Nat /\ Supports(c)
  BY FileFacts
<1>2. Validation(decisions, p) \in 0..Len(decisions)
  <2>1. Validations(decisions, p) \in SUBSET (1..Len(decisions))
    BY DEF Validations
  <2>2. CASE First(decisions) \subseteq {p}
    BY <2>2, <1>1 DEF Validation
  <2>3. CASE ~(First(decisions) \subseteq {p})
    <3>1. Validations(decisions, p) # {}
      BY <2>3 DEF Reviewable, Authorized
    <3>2. Greatest(Validations(decisions, p)) \in Validations(decisions, p)
      BY <3>1, <2>1, <1>1, GreatestIn
    <3>3. QED BY <3>2, <2>1, <2>3, <1>1 DEF Validation
  <2>4. QED BY <2>2, <2>3
<1>3. ASSUME NEW b \in SupportBindings(decisions, c, s)
      PROVE  /\ b \in Scopes \X Kinds \X (1..Len(decisions))
             /\ b[3] \in Reviews(decisions, b[1]) /\ b[3] \notin Revoked(decisions)
  <2>1. b[3] # 0
    BY <1>3 DEF Reviewable, Supported
  <2>2. PICK u \in candidates[c].support[s] :
            b = <<u[1], u[2], Standing(decisions, c)[<<u[2], u[1], {s}>>]>>
    BY <1>3 DEF SupportBindings
  <2>3. u[1] \in Scopes /\ u[2] \in Kinds
    BY <1>1 DEF Supports
  <2>4. <<u[2], u[1], {s}>> \in Calls
    BY <2>3 DEF Calls
  <2>5. b[1] = u[1] /\ b[2] = u[2] /\ b[3] = Standing(decisions, c)[<<u[2], u[1], {s}>>]
    BY <2>2
  <2>6. b[3] \in Matching(decisions, c, u[1], u[2]) /\ b[3] \notin Revoked(decisions)
    BY <2>1, <2>4, <2>5, <1>1, StandingSound
  <2>7. b[3] \in Reviews(decisions, u[1])
    BY <2>6 DEF Matching
  <2>8. QED BY <2>2, <2>3, <2>5, <2>6, <2>7 DEF Reviews
<1>4. QED BY <1>2, <1>3

\* A review, or an undo, keeps the file in order.
LEMMA ReviewHolds ==
    ASSUME FileHolds, NEW action \in {"approve", "review_portion", "undo"}, NEW c \in 1..Len(candidates),
           NEW s \in Scopes, NEW p \in People, Reviewable(c, s, p),
           NEW related \in 0..Len(decisions), NEW a \in BOOLEAN, NEW b \in BOOLEAN,
           NEW checks, checks = <<a, b>>, NEW e,
           e = [action |-> action, scope |-> s, candidate |-> c, actor |-> p, related |-> related,
                validation |-> Validation(decisions, p), deps |-> SupportBindings(decisions, c, s),
                affected |-> {}, checks |-> checks],
           Record(e)
    PROVE  FileHolds'
<1>1. e.deps = SupportBindings(decisions, c, s) /\ e.affected = {} /\ e.action = action
  OBVIOUS
<1>2. SupportBindings(decisions, c, s) \in Bindings(Len(decisions))
  <2>1. SupportBindings(decisions, c, s) \subseteq Scopes \X Kinds \X (1..Len(decisions))
    BY ReviewGrounds
  <2>2. QED BY <2>1 DEF Bindings
<1>3. /\ e \in Event(Len(decisions)) /\ e.deps = SupportBindings(decisions, c, s)
      /\ e.affected = {} /\ e.action # "revoke"
  <2>1. Len(decisions) \in Nat /\ Validation(decisions, p) \in 0..Len(decisions)
    BY FileFacts, ReviewGrounds
  <2>2. action \in Actions /\ p \in People \cup {None} /\ action # "revoke"
    BY DEF Actions
  <2>3. checks \in BOOLEAN \X BOOLEAN
    OBVIOUS
  <2>4. e \in Event(Len(decisions))
    BY <1>2, <2>1, <2>2, <2>3, Blank DEF Event
  <2>5. QED BY <1>1, <2>2, <2>4
<1>4. decisions' = Append(decisions, e) /\ decisions \in Seq(Entry)
  BY DEF Record, FileHolds
<1>5. decisions'[Len(decisions')] = e
  BY <1>4
<1>6. Falls(decisions', Len(decisions')) = {}
  BY <1>3, <1>5 DEF Falls
<1>7. QED BY <1>3, <1>6, ReviewGrounds, RecordHolds

\* What a decision revokes takes along whatever rests on it, when its affected decisions are
\* the dependents of a set that holds every review it revokes by name or by scope.
LEMMA RevokesClosed ==
    ASSUME FileHolds, NEW e, Record(e), NEW A, e.affected = Dependents(decisions, A),
           \A j \in 1..Len(decisions) :
              j \in Falls(decisions', Len(decisions')) /\ j \in Reviews(decisions, decisions[j].scope) =>
                j \in A \/ j \in e.affected
    PROVE  \A i \in 1..Len(decisions) : \A b \in decisions[i].deps :
               b[3] \in Falls(decisions', Len(decisions')) => i \in Falls(decisions', Len(decisions'))
<1>1. TAKE i \in 1..Len(decisions)
<1>2. TAKE b \in decisions[i].deps
<1>3. HAVE b[3] \in Falls(decisions', Len(decisions'))
<1>4. Earlier(decisions) /\ Len(decisions) \in Nat
  BY FileFacts
<1>5. b[3] \in 1..Len(decisions)
  BY <1>4 DEF Earlier
<1>6. b[3] \in Reviews(decisions, decisions[b[3]].scope)
  BY DEF FileHolds, OnReviews, Reviews
<1>7. b[3] \in Dependents(decisions, A)
  BY <1>3, <1>4, <1>5, <1>6, DependentsClosed
<1>8. i \in e.affected
  BY <1>4, <1>7, DependentsClosed
<1>9. decisions' = Append(decisions, e) /\ decisions \in Seq(Entry)
  BY DEF Record, FileHolds
<1>10. decisions'[Len(decisions')] = e
  BY <1>9
<1>11. QED BY <1>8, <1>10 DEF Falls

\* A revocation keeps the file in order.
LEMMA RevokeHolds ==
    ASSUME FileHolds, NEW c \in 1..Len(candidates), NEW s \in Scopes, Revoke(c, s)
    PROVE  FileHolds'
<1>1. PICK i \in {0} \cup {j \in 1..Len(decisions) : decisions[j].scope = s} :
          Record([Decision("revoke", c, s, None) EXCEPT
                    !.related = i, !.affected = RevokedApprovals(decisions, s, i)])
  BY DEF Revoke
<1>2. PICK e : e = [Decision("revoke", c, s, None) EXCEPT
                      !.related = i, !.affected = RevokedApprovals(decisions, s, i)]
  OBVIOUS
<1> DEFINE A == IF i = 0 THEN Reviews(decisions, s)
                ELSE {j \in UNION {Reviews(decisions, t) : t \in Scopes} :
                        \/ j = i /\ decisions[j].scope = s
                        \/ decisions[j].validation = i}
<1>3. Len(decisions) \in Nat /\ decisions \in Seq(Entry) /\ i \in 0..Len(decisions)
  BY FileFacts DEF FileHolds
<1>4. RevokedApprovals(decisions, s, i) = Dependents(decisions, A)
  BY DEF RevokedApprovals
<1>5. Dependents(decisions, A) \subseteq 1..Len(decisions)
  BY DependentsListed
<1>6. e = [action |-> "revoke", scope |-> s, candidate |-> c, actor |-> None, related |-> i,
           validation |-> 0, deps |-> {}, affected |-> Dependents(decisions, A),
           checks |-> <<FALSE, FALSE>>]
  BY <1>2, <1>4 DEF Decision
<1>7. decisions' = Append(decisions, e) /\ Record(e)
  BY <1>1, <1>2 DEF Record
<1> HIDE DEF A
<1>8. e \in Event(Len(decisions)) /\ e.deps = {}
  <2>1. Dependents(decisions, A) \in SUBSET (1..Len(decisions))
    BY <1>5
  <2>2. "revoke" \in Actions /\ None \in People \cup {None}
    BY DEF Actions
  <2>3. e \in Event(Len(decisions))
    BY <1>3, <1>6, <2>1, <2>2, Blank DEF Event
  <2>4. QED BY <1>6, <2>3
<1>9. /\ decisions'[Len(decisions')] = e /\ Len(decisions') = Len(decisions) + 1
      /\ \A j \in 1..Len(decisions) : decisions'[j] = decisions[j]
  BY <1>3, <1>7
<1>10. ASSUME NEW j \in 1..Len(decisions), j \in Falls(decisions', Len(decisions')),
              j \in Reviews(decisions, decisions[j].scope)
       PROVE  j \in A \/ j \in e.affected
  <2>1. \/ j \in e.affected
        \/ i # 0 /\ j = i
        \/ i = 0 /\ decisions[j].scope = s
    BY <1>10, <1>9, <1>6 DEF Falls
  <2>2. i # 0 => decisions[i].scope = s
    OBVIOUS
  <2>3. QED BY <2>1, <2>2, <1>10 DEF A
<1>11. e.affected = Dependents(decisions, A)
  BY <1>6
<1>12. \A j \in 1..Len(decisions) : \A b \in decisions[j].deps :
          b[3] \in Falls(decisions', Len(decisions')) => j \in Falls(decisions', Len(decisions'))
  BY <1>7, <1>10, <1>11, RevokesClosed
<1>13. QED BY <1>7, <1>8, <1>12, RecordHolds

\* So does a confirmed error.
LEMMA ConfirmHolds ==
    ASSUME FileHolds, NEW c \in 1..Len(candidates), NEW s \in Scopes, ConfirmError(c, s)
    PROVE  FileHolds'
<1>1. PICK e : e = [Decision("confirm_error", c, s, None) EXCEPT
                      !.affected = AffectedDecisions(decisions, c, s)]
  OBVIOUS
<1>2. PICK A : A = {i \in Reviews(decisions, s) :
                      Interpretation(decisions[i].candidate, s) = Interpretation(c, s)}
  OBVIOUS
<1>3. Len(decisions) \in Nat /\ decisions \in Seq(Entry)
  BY FileFacts DEF FileHolds
<1>4. AffectedDecisions(decisions, c, s) = Dependents(decisions, A)
  BY <1>2 DEF AffectedDecisions
<1>5. Dependents(decisions, A) \subseteq 1..Len(decisions)
  BY DependentsListed
<1>6. e = [action |-> "confirm_error", scope |-> s, candidate |-> c, actor |-> None, related |-> 0,
           validation |-> 0, deps |-> {}, affected |-> Dependents(decisions, A),
           checks |-> <<FALSE, FALSE>>]
  BY <1>1, <1>4 DEF Decision
<1>7. decisions' = Append(decisions, e) /\ Record(e)
  BY <1>1 DEF Record, ConfirmError
<1>8. e \in Event(Len(decisions)) /\ e.deps = {}
  <2>1. Dependents(decisions, A) \in SUBSET (1..Len(decisions))
    BY <1>5
  <2>2. "confirm_error" \in Actions /\ None \in People \cup {None}
    BY DEF Actions
  <2>3. e \in Event(Len(decisions))
    BY <1>3, <1>6, <2>1, <2>2, Blank DEF Event
  <2>4. QED BY <1>6, <2>3
<1>9. decisions'[Len(decisions')] = e
  BY <1>3, <1>7
<1>10. Falls(decisions', Len(decisions')) = e.affected
  BY <1>6, <1>9 DEF Falls
<1>11. e.affected = Dependents(decisions, A)
  BY <1>6
<1>12. \A j \in 1..Len(decisions) : \A b \in decisions[j].deps :
          b[3] \in Falls(decisions', Len(decisions')) => j \in Falls(decisions', Len(decisions'))
  BY <1>7, <1>10, <1>11, RevokesClosed
<1>13. QED BY <1>7, <1>8, <1>12, RecordHolds

\* So does another candidate.
LEMMA SaveHolds ==
    ASSUME FileHolds, NEW d \in Drafts, SaveCandidate(d)
    PROVE  FileHolds'
<1>1. /\ candidates \in Seq(Drafts) /\ Len(candidates) \in Nat /\ Len(decisions) \in Nat
      /\ candidates' = Append(candidates, d) /\ decisions' = decisions
  BY FileFacts DEF SaveCandidate
<1>2. candidates' \in Seq(Drafts) /\ Len(candidates') = Len(candidates) + 1
  BY <1>1
<1>3. Len(candidates') <= MaxCandidates /\ Len(candidates') + Len(decisions') <= MaxRecords
  BY <1>1, <1>2, ReviewAssumption DEF SaveCandidate
<1>4. ASSUME NEW i \in 1..Len(decisions) PROVE decisions[i] \in Event(i - 1)'
  <2>1. decisions[i] \in Event(i - 1)
    BY DEF FileHolds, ReviewTypeOK
  <2>2. 1..Len(candidates) \subseteq 1..Len(candidates')
    BY <1>1, <1>2
  <2>3. QED BY <2>1, <2>2 DEF Event
<1>5. ReviewTypeOK'
  BY <1>1, <1>2, <1>3, <1>4 DEF ReviewTypeOK
<1>6. OnReviews(decisions)' /\ RevocationCloses'
  BY <1>1 DEF FileHolds, OnReviews, RevocationCloses
<1>7. QED BY <1>1, <1>5, <1>6 DEF FileHolds

\* The undo's checks are two answers.
LEMMA UndoHolds ==
    ASSUME FileHolds, NEW c \in 1..Len(candidates), NEW s \in Scopes, NEW p \in People, Undo(c, s, p)
    PROVE  FileHolds'
<1>1. PICK i \in 1..Len(decisions) :
        /\ Reviewable(c, s, p)
        /\ Record([Review("undo", c, s, p) EXCEPT
                      !.related = i, !.checks = UndoChecks(decisions, c, s, i)])
  BY DEF Undo
<1>2. PICK a, b \in BOOLEAN : UndoChecks(decisions, c, s, i) = <<a, b>>
  <2>1. (i \in Revoked(decisions)) \in BOOLEAN /\ (Eligible(decisions, c, s) # 0) \in BOOLEAN
    OBVIOUS
  <2>2. UndoChecks(decisions, c, s, i) = <<i \in Revoked(decisions), Eligible(decisions, c, s) # 0>>
    BY DEF UndoChecks
  <2>3. QED BY <2>1, <2>2
<1>3. PICK checks : checks = UndoChecks(decisions, c, s, i)
  OBVIOUS
<1>4. PICK e : e = [Review("undo", c, s, p) EXCEPT !.related = i, !.checks = checks]
  OBVIOUS
<1>5. e = [action |-> "undo", scope |-> s, candidate |-> c, actor |-> p, related |-> i,
           validation |-> Validation(decisions, p), deps |-> SupportBindings(decisions, c, s),
           affected |-> {}, checks |-> checks]
  BY <1>4 DEF Review, Decision
<1>6. Record(e)
  BY <1>1, <1>3, <1>4
<1>7. i \in 0..Len(decisions) /\ checks = <<a, b>>
  BY <1>2, <1>3
<1>8. QED BY <1>1, <1>5, <1>6, <1>7, ReviewHolds

\* Approvals and portions' reviews.
LEMMA VouchHolds ==
    ASSUME FileHolds, NEW c \in 1..Len(candidates), NEW s \in Scopes, NEW p \in People,
           Approve(c, s, p) \/ ReviewPortion(c, s, p)
    PROVE  FileHolds'
<1>1. PICK action \in {"approve", "review_portion"} :
        Reviewable(c, s, p) /\ Record(Review(action, c, s, p))
  BY DEF Approve, ReviewPortion
<1>2. PICK e : e = Review(action, c, s, p)
  OBVIOUS
<1>3. PICK checks : checks = <<FALSE, FALSE>>
  OBVIOUS
<1>4. e = [action |-> action, scope |-> s, candidate |-> c, actor |-> p, related |-> 0,
           validation |-> Validation(decisions, p), deps |-> SupportBindings(decisions, c, s),
           affected |-> {}, checks |-> checks]
  BY <1>2, <1>3 DEF Review, Decision
<1>5. Record(e)
  BY <1>1, <1>2
<1>6. 0 \in 0..Len(decisions) /\ FALSE \in BOOLEAN
  BY FileFacts
<1>7. QED BY <1>1, <1>3, <1>4, <1>5, <1>6, ReviewHolds

\* Every step keeps the file in order.
LEMMA NextHolds ==
    ASSUME FileHolds, Next
    PROVE  FileHolds'
<1>1. CASE \E d \in Drafts : SaveCandidate(d)
  BY <1>1, SaveHolds
<1>2. ASSUME NEW c \in 1..Len(candidates), Remark(c) PROVE FileHolds'
  <2>1. PICK action \in {"clear_flag", "metadata_amendment"} :
            Record(Decision(action, c, CHOOSE s \in Scopes : TRUE, None))
    BY <1>2 DEF Remark
  <2>2. (CHOOSE s \in Scopes : TRUE) \in Scopes
    BY ReviewAssumption
  <2>3. action \in Actions \ {"revoke"} /\ None \in People \cup {None}
    BY DEF Actions
  <2>4. QED BY <2>1, <2>2, <2>3, PlainHolds
<1>3. ASSUME NEW c \in 1..Len(candidates), NEW s \in Scopes, Decide(c, s) PROVE FileHolds'
  <2>1. ASSUME NEW p \in People, ValidateWorkflow(c, s, p) PROVE FileHolds'
    <3>1. "validate_workflow" \in Actions \ {"revoke"} /\ p \in People \cup {None}
      BY DEF Actions
    <3>2. QED BY <2>1, <3>1, PlainHolds DEF ValidateWorkflow
  <2>2. CASE ApplyDraft(c, s)
    <3>1. "apply_draft" \in Actions \ {"revoke"} /\ None \in People \cup {None}
      BY DEF Actions
    <3>2. QED BY <2>2, <3>1, PlainHolds DEF ApplyDraft
  <2>3. QED BY <1>3, <2>1, <2>2, VouchHolds, UndoHolds, RevokeHolds, ConfirmHolds DEF Decide
<1>4. QED BY <1>1, <1>2, <1>3 DEF Next

\* An empty file is in order.
LEMMA InitHolds ==
    ASSUME Init
    PROVE  FileHolds
BY ReviewAssumption DEF Init, FileHolds, ReviewTypeOK, OnReviews, RevocationCloses

\* A file that is left alone stays in order.
LEMMA StutterHolds ==
    ASSUME FileHolds, UNCHANGED vars
    PROVE  FileHolds'
<1>1. candidates' = candidates /\ decisions' = decisions
  BY DEF vars
<1>2. QED BY <1>1 DEF FileHolds, ReviewTypeOK, Event, OnReviews, RevocationCloses

\* The file of a book holds its types and bounds, each decision rests on reviews taken before
\* it, and a revocation reaches all that rests on what it revokes (decide).
THEOREM ReviewInvariant == Spec => []FileHolds
<1>1. Init => FileHolds
  BY InitHolds
<1>2. FileHolds /\ [Next]_vars => FileHolds'
  BY NextHolds, StutterHolds
<1>3. QED BY <1>1, <1>2, PTL DEF Spec

\* Candidates and decisions keep their types and bounds (save_candidate, decide).
THEOREM ReviewTypeCorrect == Spec => []ReviewTypeOK
<1>1. FileHolds => ReviewTypeOK
  BY DEF FileHolds
<1>2. QED BY <1>1, ReviewInvariant, PTL

\* A revocation reaches everything that rests on what it revokes (dependent_decisions).
THEOREM RevocationsClose == Spec => []RevocationCloses
<1>1. FileHolds => RevocationCloses
  BY DEF FileHolds
<1>2. QED BY <1>1, ReviewInvariant, PTL

----------------------------------------------------------------------------
(* What is eligible rests on standing grounds *)

\* Whatever vouches for something today rests on unrevoked decisions that describe the
\* latest candidate: else there is an earliest decision that vouches and does not.
LEMMA VouchersStand ==
    ASSUME FileHolds, decisions # <<>>
    PROVE  \A v \in Calls : \A i, j \in 1..Len(decisions) :
             i = Standing(decisions, Latest)[v] /\ i \in Dependents(decisions, {j}) =>
               j \notin Revoked(decisions) /\ Unbroken(decisions[j])
<1> DEFINE Stands(i) == \A v \in Calls : \A j \in 1..Len(decisions) :
             i = Standing(decisions, Latest)[v] /\ i \in Dependents(decisions, {j}) =>
               j \notin Revoked(decisions) /\ Unbroken(decisions[j])
           Bad == {i \in 1..Len(decisions) : ~Stands(i)}
<1>1. /\ Len(candidates) \in Nat /\ Len(decisions) \in Nat /\ Earlier(decisions)
      /\ \A i \in 1..Len(decisions) : decisions[i].candidate \in 1..Len(candidates)
  BY FileFacts
<1>2. Latest \in 1..Len(candidates) /\ Supports(Latest)
  <2>1. 1 \in 1..Len(decisions)
    BY <1>1 DEF FileHolds
  <2>2. QED BY <1>1, <2>1, FileFacts DEF Latest
<1>3. ASSUME NEW i \in 1..Len(decisions), \A k \in 1..Len(decisions) : k < i => Stands(k)
      PROVE  Stands(i)
  <2> HIDE DEF Stands
  <2>1. SUFFICES ASSUME NEW v \in Calls, NEW j \in 1..Len(decisions),
                        i = Standing(decisions, Latest)[v], i \in Dependents(decisions, {j})
                 PROVE  j \notin Revoked(decisions) /\ Unbroken(decisions[j])
    BY DEF Stands
  <2>2. /\ i \in Matching(decisions, Latest, v[2], v[1]) /\ i \notin Revoked(decisions)
        /\ decisions[i].deps = Needs(Standing(decisions, Latest), Latest, v)
    BY <2>1, <1>1, <1>2, StandingSound
  <2>3. CASE i = j
    <3>1. /\ decisions[i].scope = v[2] /\ v[1] \in Kinds
          /\ decisions[i].action = IF v[1] = "whole" THEN "approve" ELSE "review_portion"
          /\ Continuous(decisions[i].candidate, Latest, v[2], v[1])
      BY <2>2 DEF Matching, Reviews, Calls
    <3>2. v[1] = IF decisions[i].action = "approve" THEN "whole" ELSE "portion"
      BY <3>1 DEF Kinds
    <3>3. \A k \in decisions[i].candidate..Latest : Binding(k, v[2], v[1]) = Binding(Latest, v[2], v[1])
      BY <3>1 DEF Continuous
    <3>4. decisions[i].candidate \in decisions[i].candidate..Latest
      BY <1>1, <1>2, <3>1 DEF Continuous
    <3>5. Unbroken(decisions[i])
      BY <3>1, <3>2, <3>3, <3>4 DEF Unbroken
    <3>6. QED BY <2>2, <2>3, <3>5
  <2>4. CASE i # j
    <3>1. PICK b \in decisions[i].deps : b[3] \in Dependents(decisions, {j})
      BY <2>1, <2>4, <1>1, DependentsClosed
    <3>2. b[3] \in 1..(i - 1)
      BY <1>1 DEF Earlier
    <3>3. PICK u \in candidates[Latest].support[v[2]] :
            b = <<u[1], u[2], Standing(decisions, Latest)[<<u[2], u[1], v[3] \cup {v[2]}>>]>>
      BY <2>2 DEF Needs
    <3>4. <<u[2], u[1], v[3] \cup {v[2]}>> \in Calls
      <4>1. v[2] \in Scopes /\ v[3] \in SUBSET Scopes
        BY DEF Calls
      <4>2. u[1] \in Scopes /\ u[2] \in Kinds
        BY <1>2, <4>1 DEF Supports
      <4>3. QED BY <4>1, <4>2 DEF Calls
    <3>5. b[3] = Standing(decisions, Latest)[<<u[2], u[1], v[3] \cup {v[2]}>>]
      BY <3>3
    <3>6. b[3] \in 1..Len(decisions) /\ b[3] < i
      BY <3>2, <1>1
    <3>7. Stands(b[3])
      BY <3>6, <1>3
    <3>8. QED BY <3>1, <3>4, <3>5, <3>7 DEF Stands
  <2>5. QED BY <2>3, <2>4
<1> HIDE DEF Stands
<1>4. ASSUME Bad # {} PROVE FALSE
  <2>1. PICK i \in Bad : \A k \in Bad : i <= k
    <3>1. Bad \subseteq Nat
      OBVIOUS
    <3> HIDE DEF Bad
    <3>2. QED BY <3>1, <1>4, LeastNumber
  <2>2. \A k \in 1..Len(decisions) : k < i => Stands(k)
    BY <2>1
  <2>3. QED BY <2>1, <2>2, <1>3
<1>5. \A i \in 1..Len(decisions) : Stands(i)
  BY <1>4
<1>6. QED BY <1>5 DEF Stands

\* Whatever is eligible rests, however indirectly, on decisions none of which is revoked, and
\* each of which describes the latest candidate (_eligibility, _support_decision).
THEOREM EligibleOnStandingGrounds == Spec => []GroundsStand
<1>1. ASSUME FileHolds PROVE GroundsStand
  <2> SUFFICES ASSUME NEW s \in Scopes, decisions # <<>>,
                      Eligible(decisions, Latest, s) # 0,
                      NEW j \in Grounds(Eligible(decisions, Latest, s))
               PROVE  j \notin Revoked(decisions) /\ Unbroken(decisions[j])
    BY DEF GroundsStand
  <2>1. <<"whole", s, {}>> \in Calls
    BY DEF Calls, Kinds
  <2>2. PICK i : i = Eligible(decisions, Latest, s)
    OBVIOUS
  <2>3. j \in 1..Len(decisions) /\ i \in Dependents(decisions, {j})
    BY <2>2 DEF Grounds
  <2>4. i \in 1..Len(decisions)
    BY <2>3, DependentsListed
  <2>5. i = Standing(decisions, Latest)[<<"whole", s, {}>>]
    BY <2>2 DEF Eligible
  <2>6. QED BY <1>1, <2>1, <2>3, <2>4, <2>5, VouchersStand
<1>2. QED BY <1>1, ReviewInvariant, PTL

----------------------------------------------------------------------------
(* The file can be loaded again *)

\* Candidates are saved behind those of the file.
Longer ==
    /\ Len(candidates) \in Nat /\ Len(candidates') \in Nat /\ Len(candidates) <= Len(candidates')
    /\ \A c \in 1..Len(candidates) : candidates'[c] = candidates[c] /\ Supports(c)

\* A log of decisions about the file's candidates.
Known(log) == log \in Seq(Entry) /\ \A i \in 1..Len(log) : log[i].candidate \in 1..Len(candidates)

\* What a candidate's scopes read stays.
LEMMA ReadAlike ==
    ASSUME Longer, NEW c \in 1..Len(candidates), NEW s \in Scopes
    PROVE  /\ \A kind : Binding(c, s, kind)' = Binding(c, s, kind)
           /\ \A kind : Settled(c, s, kind)' <=> Settled(c, s, kind)
           /\ Interpretation(c, s)' = Interpretation(c, s)
           /\ candidates'[c].edited = candidates[c].edited
           /\ candidates'[c].support = candidates[c].support
<1>1. candidates'[c] = candidates[c]
  BY DEF Longer
<1>2. QED BY <1>1 DEF Binding, Settled, Interpretation

\* A later candidate does not end what was continuous up to an earlier one,
LEMMA ContinuousAlike ==
    ASSUME Longer, NEW c \in 1..Len(candidates), NEW s \in Scopes, NEW kind,
           NEW from \in 1..Len(candidates)
    PROVE  Continuous(from, c, s, kind)' <=> Continuous(from, c, s, kind)
<1>1. \A j \in from..c : j \in 1..Len(candidates)
  BY DEF Longer
<1>2. \A j \in from..c : Binding(j, s, kind)' = Binding(j, s, kind)
  BY <1>1, ReadAlike
<1>3. Binding(c, s, kind)' = Binding(c, s, kind)
  BY ReadAlike
<1>4. QED BY <1>2, <1>3 DEF Continuous

\* nor change which reviews match an earlier one,
LEMMA MatchingAlike ==
    ASSUME Longer, NEW log, Known(log), NEW c \in 1..Len(candidates), NEW s \in Scopes, NEW kind
    PROVE  Matching(log, c, s, kind)' = Matching(log, c, s, kind)
<1>1. \A i \in Reviews(log, s) :
         Continuous(log[i].candidate, c, s, kind)' <=> Continuous(log[i].candidate, c, s, kind)
  <2>1. TAKE i \in Reviews(log, s)
  <2>2. log[i].candidate \in 1..Len(candidates)
    BY DEF Known, Reviews
  <2>3. QED BY <2>2, ContinuousAlike
<1>2. QED BY <1>1 DEF Matching

\* nor what vouches for an earlier one.
LEMMA StandingAlike ==
    ASSUME Longer, NEW log, Known(log), NEW c \in 1..Len(candidates)
    PROVE  Standing(log, c)' = Standing(log, c)
<1>1. Supports(c) /\ candidates'[c].support = candidates[c].support
  BY DEF Longer
<1>2. ASSUME NEW F, NEW v \in Calls PROVE Vouch(F, log, c, v)' = Vouch(F, log, c, v)
  <2>1. v[2] \in Scopes
    BY DEF Calls
  <2>2. Matching(log, c, v[2], v[1])' = Matching(log, c, v[2], v[1])
    BY <2>1, MatchingAlike
  <2>3. Needs(F, c, v)' = Needs(F, c, v)
    BY <1>1 DEF Needs
  <2>4. QED BY <2>2, <2>3 DEF Vouch, Counts, LastVouch
<1>3. ASSUME NEW F PROVE Vouches(F, log, c)' <=> Vouches(F, log, c)
  BY <1>2 DEF Vouches
<1>4. PICK F : F = Standing(log, c)
  OBVIOUS
<1>5. PICK G : G = Standing(log, c)'
  OBVIOUS
<1>6. Vouches(F, log, c)
  BY <1>1, <1>4, StandingVouches
<1>7. Standing(log, c)' = CHOOSE H : Vouches(H, log, c)'
  BY DEF Standing, Vouches, Vouch, Counts, LastVouch, Needs, Calls, SameSupport
<1>8. Vouches(G, log, c)'
  BY <1>3, <1>5, <1>6, <1>7
<1>9. QED BY <1>1, <1>3, <1>4, <1>5, <1>6, <1>8, VouchesUnique

\* A decision that could be loaded can be loaded beside later candidates.
LEMMA ReplayedAlike ==
    ASSUME Longer, NEW log, Known(log), NEW e \in Entry, e.candidate \in 1..Len(candidates),
           Replayed(log, e)
    PROVE  Replayed(log, e)'
<1> DEFINE c == e.candidate
           s == e.scope
<1>1. s \in Scopes /\ c \in 1..Len(candidates)
  BY DEF Entry
<1> HIDE DEF c, s
<1>2. \A i \in 1..Len(log) : log[i].candidate \in 1..Len(candidates)
  BY DEF Known
<1>3. Standing(log, c)' = Standing(log, c)
  BY <1>1, StandingAlike
<1>4. /\ SupportBindings(log, c, s)' = SupportBindings(log, c, s)
      /\ Eligible(log, c, s)' = Eligible(log, c, s)
  BY <1>1, <1>3, ReadAlike DEF SupportBindings, Eligible
<1>5. Supported(log, c, s)' <=> Supported(log, c, s)
  BY <1>4 DEF Supported
<1>6. /\ Applied(log, c, s)' <=> Applied(log, c, s)
      /\ Clear(c)' <=> Clear(c)
  BY <1>1, ReadAlike DEF Applied, Clear
<1>7. Undone(log, c, s)' <=> Undone(log, c, s)
  <2> DEFINE same == {i \in 1..Len(log) : log[i].action \in {"approve", "undo"} /\ log[i].scope = s
                                     /\ Binding(log[i].candidate, s, "whole") = Binding(c, s, "whole")}
  <2>1. \A i \in 1..Len(log) :
           /\ Binding(log[i].candidate, s, "whole")' = Binding(log[i].candidate, s, "whole")
           /\ Continuous(log[i].candidate, c, s, "whole")' <=> Continuous(log[i].candidate, c, s, "whole")
    BY <1>1, <1>2, ReadAlike, ContinuousAlike
  <2>2. Binding(c, s, "whole")' = Binding(c, s, "whole")
    BY <1>1, ReadAlike
  <2>3. same' = same
    BY <2>1, <2>2
  <2>4. Undone(log, c, s) <=> (same # {} => \E i \in same : Continuous(log[i].candidate, c, s, "whole"))
    BY DEF Undone
  <2>5. Undone(log, c, s)' <=> (same' # {} => \E i \in same' : Continuous(log[i].candidate, c, s, "whole")')
    BY DEF Undone
  <2>6. same \subseteq 1..Len(log)
    OBVIOUS
  <2> HIDE DEF same
  <2>7. QED BY <2>1, <2>3, <2>4, <2>5, <2>6
<1>8. ASSUME NEW related
      PROVE  /\ UndoTarget(log, c, s, related)' <=> UndoTarget(log, c, s, related)
             /\ UndoChecks(log, c, s, related)' = UndoChecks(log, c, s, related)
  <2>1. related \in 1..Len(log) =>
          Binding(log[related].candidate, s, "whole")' = Binding(log[related].candidate, s, "whole")
    BY <1>1, <1>2, ReadAlike
  <2>2. /\ Binding(c, s, "whole")' = Binding(c, s, "whole")
        /\ Settled(c, s, "whole")' <=> Settled(c, s, "whole")
    BY <1>1, ReadAlike
  <2>3. UndoTarget(log, c, s, related)' <=> UndoTarget(log, c, s, related)
    BY <2>1, <2>2 DEF UndoTarget
  <2>4. QED BY <2>3, <1>4 DEF UndoChecks
<1>9. AffectedDecisions(log, c, s)' = AffectedDecisions(log, c, s)
  <2> DEFINE A == {i \in Reviews(log, s) : Interpretation(log[i].candidate, s) = Interpretation(c, s)}
  <2>1. \A i \in Reviews(log, s) : Interpretation(log[i].candidate, s)' = Interpretation(log[i].candidate, s)
    <3>1. \A i \in Reviews(log, s) : log[i].candidate \in 1..Len(candidates)
      BY <1>2 DEF Reviews
    <3>2. QED BY <3>1, <1>1, ReadAlike
  <2>2. A' = A
    BY <2>1, <1>1, ReadAlike
  <2>3. AffectedDecisions(log, c, s) = Dependents(log, A) /\ AffectedDecisions(log, c, s)' = Dependents(log, A')
    BY DEF AffectedDecisions
  <2> HIDE DEF A
  <2>4. QED BY <2>2, <2>3
<1>10. \A kind : Settled(c, s, kind)' <=> Settled(c, s, kind)
  BY <1>1, ReadAlike
<1>11. QED BY <1>4, <1>5, <1>6, <1>7, <1>8, <1>9, <1>10 DEF Replayed, c, s

\* The decisions before one are those about the file's candidates.
LEMMA PrefixKnown ==
    ASSUME FileHolds, NEW i \in 1..Len(decisions)
    PROVE  /\ Known(SubSeq(decisions, 1, i - 1))
           /\ decisions[i] \in Entry /\ decisions[i].candidate \in 1..Len(candidates)
<1>1. decisions \in Seq(Entry) /\ Len(decisions) \in Nat
  BY FileFacts DEF FileHolds
<1>2. \A j \in 1..Len(decisions) : decisions[j].candidate \in 1..Len(candidates)
  BY FileFacts
<1>3. PICK log : log = SubSeq(decisions, 1, i - 1)
  OBVIOUS
<1>4. log \in Seq(Entry) /\ Len(log) = i - 1 /\ \A j \in 1..(i - 1) : log[j] = decisions[j]
  BY <1>1, <1>3
<1>5. Known(log)
  BY <1>1, <1>2, <1>4 DEF Known
<1>6. QED BY <1>1, <1>2, <1>3, <1>5

\* What could be loaded can be loaded beside later candidates and decisions.
LEMMA StillLoaded ==
    ASSUME FileHolds, Loadable, Longer, NEW i \in 1..Len(decisions),
           SubSeq(decisions', 1, i - 1) = SubSeq(decisions, 1, i - 1), decisions'[i] = decisions[i]
    PROVE  Replayed(SubSeq(decisions, 1, i - 1), decisions[i])'
<1>1. PICK log, d : log = SubSeq(decisions, 1, i - 1) /\ d = decisions[i]
  OBVIOUS
<1>2. Known(log) /\ d \in Entry /\ d.candidate \in 1..Len(candidates)
  BY <1>1, PrefixKnown
<1>3. Replayed(log, d)
  BY <1>1 DEF Loadable
<1>4. Replayed(log, d)'
  BY <1>2, <1>3, ReplayedAlike
<1>5. QED BY <1>1, <1>4

\* With a decision that can be loaded the file can be loaded.
LEMMA RecordLoads ==
    ASSUME FileHolds, FileHolds', Loadable, NEW e, Record(e), Replayed(decisions, e)
    PROVE  Loadable'
<1>1. /\ decisions' = Append(decisions, e) /\ candidates' = candidates
      /\ decisions \in Seq(Entry) /\ decisions' \in Seq(Entry) /\ Len(decisions) \in Nat
  BY FileFacts DEF Record, FileHolds
<1>2. /\ Len(decisions') = Len(decisions) + 1 /\ decisions'[Len(decisions) + 1] = e
      /\ \A i \in 1..Len(decisions) : decisions'[i] = decisions[i]
  BY <1>1
<1>3. Longer
  BY <1>1, FileFacts DEF Longer
<1>4. ASSUME NEW i \in 1..Len(decisions) PROVE Replayed(SubSeq(decisions, 1, i - 1), decisions[i])'
  <2>1. SubSeq(decisions', 1, i - 1) = SubSeq(decisions, 1, i - 1)
    BY <1>1
  <2>2. QED BY <2>1, <1>2, <1>3, StillLoaded
<1>5. ASSUME NEW i, i = Len(decisions) + 1
      PROVE  Replayed(SubSeq(decisions, 1, i - 1), decisions[i])'
  <2>1. PICK log : log = decisions
    OBVIOUS
  <2>2. SubSeq(decisions', 1, i - 1) = log /\ decisions'[i] = e
    BY <1>1, <1>2, <1>5, <2>1
  <2>3. Known(log)
    BY <2>1, <1>1, FileFacts DEF Known
  <2>4. e \in Entry
    BY <1>1, <1>2
  <2>5. e.candidate \in 1..Len(candidates)
    <3>1. \A j \in 1..Len(decisions') : decisions'[j].candidate \in 1..Len(candidates')
      BY FileFacts DEF FileHolds, ReviewTypeOK, Event
    <3>2. QED BY <3>1, <1>1, <1>2
  <2>6. Replayed(log, e)'
    BY <2>1, <2>3, <2>4, <2>5, <1>3, ReplayedAlike
  <2>7. QED BY <2>2, <2>6
<1>6. \A i \in 1..Len(decisions') : i \in 1..Len(decisions) \/ i = Len(decisions) + 1
  BY <1>1, <1>2
<1>7. \A i \in 1..Len(decisions') : Replayed(SubSeq(decisions, 1, i - 1), decisions[i])'
  BY <1>4, <1>5, <1>6
<1>8. QED BY <1>7 DEF Loadable

\* A decision is checked when it is taken as it is when it is loaded.
LEMMA DecideLoads ==
    ASSUME FileHolds, NEW c \in 1..Len(candidates), NEW s \in Scopes, Decide(c, s)
    PROVE  \E e : Record(e) /\ Replayed(decisions, e)
<1>1. ASSUME NEW p \in People, NEW action \in {"approve", "review_portion"},
             Reviewable(c, s, p), Record(Review(action, c, s, p)), Applied(decisions, c, s),
             Settled(c, s, IF action = "approve" THEN "whole" ELSE "portion"),
             action = "approve" => Undone(decisions, c, s)
      PROVE  Replayed(decisions, Review(action, c, s, p))
  <2>1. PICK e : e = Review(action, c, s, p)
    OBVIOUS
  <2>2. /\ e.action = action /\ e.scope = s /\ e.candidate = c /\ e.actor = p
        /\ e.deps = SupportBindings(decisions, c, s) /\ e.validation = Validation(decisions, p)
    BY <2>1 DEF Review, Decision
  <2>3. Replayed(decisions, e)
    BY <1>1, <2>2 DEF Replayed, Reviewable
  <2>4. QED BY <2>1, <2>3
<1>2. ASSUME NEW p \in People, Approve(c, s, p) PROVE \E e : Record(e) /\ Replayed(decisions, e)
  <2>1. Replayed(decisions, Review("approve", c, s, p)) /\ Record(Review("approve", c, s, p))
    BY <1>1, <1>2 DEF Approve
  <2>2. QED BY <2>1
<1>3. ASSUME NEW p \in People, ReviewPortion(c, s, p) PROVE \E e : Record(e) /\ Replayed(decisions, e)
  <2>1. Replayed(decisions, Review("review_portion", c, s, p)) /\ Record(Review("review_portion", c, s, p))
    BY <1>1, <1>3 DEF ReviewPortion
  <2>2. QED BY <2>1
<1>4. ASSUME NEW p \in People, Undo(c, s, p) PROVE \E e : Record(e) /\ Replayed(decisions, e)
  <2>1. PICK i \in 1..Len(decisions) :
          /\ UndoTarget(decisions, c, s, i) /\ Reviewable(c, s, p)
          /\ Record([Review("undo", c, s, p) EXCEPT
                        !.related = i, !.checks = UndoChecks(decisions, c, s, i)])
    BY <1>4 DEF Undo
  <2>2. PICK e : e = [Review("undo", c, s, p) EXCEPT
                        !.related = i, !.checks = UndoChecks(decisions, c, s, i)]
    OBVIOUS
  <2>3. /\ e.action = "undo" /\ e.scope = s /\ e.candidate = c /\ e.actor = p /\ e.related = i
        /\ e.deps = SupportBindings(decisions, c, s) /\ e.validation = Validation(decisions, p)
        /\ e.checks = UndoChecks(decisions, c, s, i)
    BY <2>2 DEF Review, Decision
  <2>4. Replayed(decisions, e)
    BY <2>1, <2>3 DEF Replayed, Reviewable
  <2>5. QED BY <2>1, <2>2, <2>4
<1>5. ASSUME NEW action \in {"validate_workflow", "apply_draft"}, NEW p,
             Record(Decision(action, c, s, p))
      PROVE  \E e : Record(e) /\ Replayed(decisions, e)
  <2>1. Decision(action, c, s, p).action = action
    BY DEF Decision
  <2>2. Replayed(decisions, Decision(action, c, s, p))
    BY <2>1 DEF Replayed
  <2>3. QED BY <1>5, <2>2
<1>6. CASE Revoke(c, s)
  <2>1. PICK i : Record([Decision("revoke", c, s, None) EXCEPT
                           !.related = i, !.affected = RevokedApprovals(decisions, s, i)])
    BY <1>6 DEF Revoke
  <2>2. PICK e : e = [Decision("revoke", c, s, None) EXCEPT
                        !.related = i, !.affected = RevokedApprovals(decisions, s, i)]
    OBVIOUS
  <2>3. /\ e.action = "revoke" /\ e.scope = s /\ e.related = i
        /\ e.affected = RevokedApprovals(decisions, s, i)
    BY <2>2 DEF Decision
  <2>4. Replayed(decisions, e)
    BY <2>3 DEF Replayed
  <2>5. QED BY <2>1, <2>2, <2>4
<1>7. CASE ConfirmError(c, s)
  <2>1. PICK e : e = [Decision("confirm_error", c, s, None) EXCEPT
                        !.affected = AffectedDecisions(decisions, c, s)]
    OBVIOUS
  <2>2. /\ e.action = "confirm_error" /\ e.scope = s /\ e.candidate = c
        /\ e.affected = AffectedDecisions(decisions, c, s)
    BY <2>1 DEF Decision
  <2>3. Replayed(decisions, e)
    BY <2>2 DEF Replayed
  <2>4. QED BY <1>7, <2>1, <2>3 DEF ConfirmError
<1>8. QED BY <1>2, <1>3, <1>4, <1>5, <1>6, <1>7 DEF Decide, ValidateWorkflow, ApplyDraft

\* Every step leaves a file that can be loaded.
LEMMA NextLoads ==
    ASSUME FileHolds, FileHolds', Loadable, Next
    PROVE  Loadable'
<1>1. ASSUME NEW d \in Drafts, SaveCandidate(d) PROVE Loadable'
  <2>1. /\ decisions' = decisions /\ candidates' = Append(candidates, d)
        /\ candidates \in Seq(Drafts) /\ Len(candidates) \in Nat
    BY <1>1, FileFacts DEF SaveCandidate
  <2>2. Longer
    BY <2>1, FileFacts DEF Longer
  <2>3. \A i \in 1..Len(decisions) : Replayed(SubSeq(decisions, 1, i - 1), decisions[i])'
    <3>1. TAKE i \in 1..Len(decisions)
    <3>2. SubSeq(decisions', 1, i - 1) = SubSeq(decisions, 1, i - 1) /\ decisions'[i] = decisions[i]
      BY <2>1
    <3>3. QED BY <2>2, <3>2, StillLoaded
  <2>4. QED BY <2>1, <2>3 DEF Loadable
<1>2. ASSUME NEW c \in 1..Len(candidates), Remark(c) PROVE Loadable'
  <2>1. PICK action \in {"clear_flag", "metadata_amendment"} :
          /\ action = "clear_flag" => Clear(c)
          /\ Record(Decision(action, c, CHOOSE s \in Scopes : TRUE, None))
    BY <1>2 DEF Remark
  <2>2. PICK e : e = Decision(action, c, CHOOSE s \in Scopes : TRUE, None)
    OBVIOUS
  <2>3. e.action = action /\ e.candidate = c
    BY <2>2 DEF Decision
  <2>4. Replayed(decisions, e)
    BY <2>1, <2>3 DEF Replayed
  <2>5. QED BY <2>1, <2>2, <2>4, RecordLoads
<1>3. ASSUME NEW c \in 1..Len(candidates), NEW s \in Scopes, Decide(c, s) PROVE Loadable'
  <2>1. PICK e : Record(e) /\ Replayed(decisions, e)
    BY <1>3, DecideLoads
  <2>2. QED BY <2>1, RecordLoads
<1>4. QED BY <1>1, <1>2, <1>3 DEF Next

\* Whatever is recorded later, and whichever candidates are saved, the file can be loaded
\* again: each decision replays against the decisions before it (decide, _load).
THEOREM FileLoads == Spec => []Loadable
<1>1. Init => Loadable
  BY DEF Init, Loadable
<1>2. FileHolds /\ FileHolds' /\ Loadable /\ [Next]_vars => Loadable'
  <2>1. ASSUME FileHolds, Loadable, UNCHANGED vars PROVE Loadable'
    <3>1. decisions' = decisions /\ candidates' = candidates
      BY <2>1 DEF vars
    <3>2. Longer
      BY <2>1, <3>1, FileFacts DEF Longer
    <3>3. \A i \in 1..Len(decisions) : Replayed(SubSeq(decisions, 1, i - 1), decisions[i])'
      <4>1. TAKE i \in 1..Len(decisions)
      <4>2. SubSeq(decisions', 1, i - 1) = SubSeq(decisions, 1, i - 1) /\ decisions'[i] = decisions[i]
        BY <3>1
      <4>3. QED BY <2>1, <3>2, <4>2, StillLoaded
    <3>4. QED BY <3>1, <3>3 DEF Loadable
  <2>2. QED BY <2>1, NextLoads
<1>3. QED BY <1>1, <1>2, ReviewInvariant, PTL DEF Spec

----------------------------------------------------------------------------
(* Folds over the revisions of a chain *)

\* The greatest of some of the first n numbers.
LEMMA MaxIs ==
    ASSUME NEW n \in Nat, NEW T \in SUBSET (1..n), T # {}
    PROVE  Max(T) \in T /\ \A y \in T : y <= Max(T)
<1> DEFINE Above == {m \in Nat : \A y \in T : y <= m}
<1>1. n \in Above
  OBVIOUS
<1>2. PICK m \in Above : \A k \in Above : m <= k
  <2>1. Above \in SUBSET Nat /\ Above # {}
    BY <1>1
  <2>2. QED BY <2>1, LeastNumber
<1>3. m \in T
  <2>1. SUFFICES ASSUME m \notin T PROVE FALSE
    OBVIOUS
  <2>2. PICK y \in T : TRUE
    OBVIOUS
  <2>3. m \in Nat /\ y \in Nat /\ y >= 1 /\ y <= m
    BY <1>2, <2>2
  <2>4. \A z \in T : z \in Nat /\ z <= m /\ z # m
    BY <1>2, <2>1
  <2>5. m - 1 \in Nat /\ \A z \in T : z <= m - 1
    BY <2>3, <2>4
  <2>6. m - 1 \in Above
    BY <2>5
  <2>7. m <= m - 1
    BY <2>6, <1>2
  <2>8. QED BY <2>3, <2>7
<1>4. m \in Nat /\ \A y \in T : y \in Nat /\ m >= y
  BY <1>2
<1>5. Max(T) \in T /\ \A y \in T : Max(T) >= y
  BY <1>3, <1>4 DEF Max
<1>6. QED BY <1>5

LEMMA MaxUpTo ==
    ASSUME NEW n \in Nat, n # 0
    PROVE  /\ 1..n # {} /\ Max(1..n) = n /\ (1..n) \ {n} = 1..(n - 1)
           /\ \A T \in SUBSET (1..n) : n \in T => Max(T) = n /\ T \ {n} \in SUBSET (1..(n - 1))
           /\ \A T \in SUBSET (1..n) : n \notin T => T \in SUBSET (1..(n - 1))
<1>1. ASSUME NEW T \in SUBSET (1..n), n \in T PROVE Max(T) = n /\ T \ {n} \in SUBSET (1..(n - 1))
  <2>1. Max(T) \in T /\ n <= Max(T)
    BY <1>1, MaxIs
  <2>2. Max(T) \in 1..n
    BY <2>1
  <2>3. QED BY <2>1, <2>2
<1>2. 1..n \in SUBSET (1..n) /\ n \in 1..n
  OBVIOUS
<1>3. Max(1..n) = n
  BY <1>1, <1>2
<1>4. QED BY <1>1, <1>2, <1>3

\* The view over some of the first n revisions.
FoldsViews(h, revs, n) == h = [T \in SUBSET (1..n) |->
    IF T = {} THEN Original ELSE Revised(h[T \ {Max(T)}], revs[Max(T)])]

LEMMA ViewsFold ==
    ASSUME NEW revs, NEW n \in Nat
    PROVE  \E h : FoldsViews(h, revs, n)
<1> DEFINE Bad == {k \in Nat : ~\E h : FoldsViews(h, revs, k)}
<1> SUFFICES ASSUME Bad # {} PROVE FALSE
  OBVIOUS
<1>1. PICK k \in Bad : \A m \in Bad : k <= m
  BY LeastNumber
<1>2. k \in Nat /\ ~\E h : FoldsViews(h, revs, k)
  OBVIOUS
<1>3. CASE k = 0
  <2>1. \A T \in SUBSET (1..k) : T = {}
    BY <1>3
  <2>2. FoldsViews([T \in SUBSET (1..k) |-> Original], revs, k)
    BY <2>1 DEF FoldsViews
  <2>3. QED BY <1>2, <2>2
<1>4. CASE k # 0
  <2>1. k - 1 \in Nat /\ k - 1 \notin Bad
    BY <1>1, <1>2, <1>4
  <2>2. PICK g : FoldsViews(g, revs, k - 1)
    BY <2>1
  <2> DEFINE h == [T \in SUBSET (1..k) |-> IF k \in T THEN Revised(g[T \ {k}], revs[k]) ELSE g[T]]
  <2>3. ASSUME NEW T \in SUBSET (1..k)
        PROVE  h[T] = IF T = {} THEN Original ELSE Revised(h[T \ {Max(T)}], revs[Max(T)])
    <3>1. CASE k \in T
      <4>1. Max(T) = k /\ T # {} /\ T \ {k} \in SUBSET (1..k)
        BY <3>1, <1>2, <1>4, MaxUpTo
      <4>2. h[T \ {k}] = g[T \ {k}]
        BY <4>1
      <4>3. h[T] = Revised(g[T \ {k}], revs[k])
        BY <3>1
      <4>4. QED BY <4>1, <4>2, <4>3
    <3>2. CASE k \notin T
      <4>1. T \in SUBSET (1..(k - 1))
        BY <3>2, <1>2, <1>4, MaxUpTo
      <4>2. h[T] = g[T]
        BY <3>2
      <4>3. g[T] = IF T = {} THEN Original ELSE Revised(g[T \ {Max(T)}], revs[Max(T)])
        BY <4>1, <2>2 DEF FoldsViews
      <4>4. h[T \ {Max(T)}] = g[T \ {Max(T)}]
        BY <3>2
      <4>5. QED BY <4>2, <4>3, <4>4
    <3>3. QED BY <3>1, <3>2
  <2>4. FoldsViews(h, revs, k)
    BY <2>3 DEF FoldsViews
  <2>5. QED BY <1>2, <2>4
<1>5. QED BY <1>3, <1>4

LEMMA ViewsAgree ==
    ASSUME NEW s, NEW t, NEW n \in Nat, NEW m \in Nat, NEW k \in Nat, k <= n, k <= m,
           NEW f, FoldsViews(f, s, n), NEW g, FoldsViews(g, t, m), \A i \in 1..k : s[i] = t[i]
    PROVE  f[1..k] = g[1..k]
<1> DEFINE Bad == {i \in Nat : i <= k /\ f[1..i] # g[1..i]}
<1> SUFFICES ASSUME Bad # {} PROVE FALSE
  OBVIOUS
<1>1. PICK i \in Bad : \A j \in Bad : i <= j
  BY LeastNumber
<1>2. i \in Nat /\ i <= k /\ f[1..i] # g[1..i]
  OBVIOUS
<1>3. 1..i \in SUBSET (1..n) /\ 1..i \in SUBSET (1..m)
  BY <1>2
<1>4. /\ f[1..i] = IF 1..i = {} THEN Original ELSE Revised(f[(1..i) \ {Max(1..i)}], s[Max(1..i)])
      /\ g[1..i] = IF 1..i = {} THEN Original ELSE Revised(g[(1..i) \ {Max(1..i)}], t[Max(1..i)])
  BY <1>3 DEF FoldsViews
<1>5. CASE i = 0
  <2>1. 1..i = {}
    BY <1>5
  <2>2. QED BY <2>1, <1>2, <1>4
<1>6. CASE i # 0
  <2>1. 1..i # {} /\ Max(1..i) = i /\ (1..i) \ {i} = 1..(i - 1)
    BY <1>2, <1>6, MaxUpTo
  <2>2. i - 1 \in Nat /\ i - 1 \notin Bad /\ i \in 1..k
    BY <1>1, <1>2, <1>6
  <2>3. f[1..(i - 1)] = g[1..(i - 1)] /\ s[i] = t[i]
    BY <2>2, <1>2
  <2>4. QED BY <2>1, <2>3, <1>2, <1>4
<1>7. QED BY <1>5, <1>6

LEMMA ViewIs ==
    ASSUME NEW R, NEW revs \in Seq(R)
    PROVE  \E h : FoldsViews(h, revs, Len(revs)) /\ ReviewedView(revs) = h[1..Len(revs)]
<1>1. PICK n \in Nat : n = Len(revs) /\ DOMAIN revs = 1..n
  OBVIOUS
<1>2. ReviewedView(revs) = (CHOOSE h : FoldsViews(h, revs, n))[1..n]
  BY <1>1 DEF ReviewedView, FoldLeft, MapThenFoldSet, FoldsViews
<1>3. FoldsViews(CHOOSE h : FoldsViews(h, revs, n), revs, n)
  BY ViewsFold
<1>4. QED BY <1>1, <1>2, <1>3

\* The view over no revision, and over one more.
LEMMA ViewOfNone == ReviewedView(<<>>) = Original
<1>1. PICK e : e = <<>>
  OBVIOUS
<1>2. DOMAIN e = 1..0 /\ 0 \in Nat
  BY <1>1
<1>3. ReviewedView(e) = (CHOOSE h : FoldsViews(h, e, 0))[1..0]
  BY <1>2 DEF ReviewedView, FoldLeft, MapThenFoldSet, FoldsViews
<1>4. FoldsViews(CHOOSE h : FoldsViews(h, e, 0), e, 0)
  BY ViewsFold
<1>5. 1..0 = {} /\ 1..0 \in SUBSET (1..0)
  OBVIOUS
<1>6. (CHOOSE h : FoldsViews(h, e, 0))[1..0] = Original
  BY <1>4, <1>5 DEF FoldsViews
<1>7. QED BY <1>1, <1>3, <1>6

LEMMA ViewOfMore ==
    ASSUME NEW R, NEW c \in Seq(R), NEW r \in R
    PROVE  ReviewedView(Append(c, r)) = Revised(ReviewedView(c), r)
<1>1. PICK d : d = Append(c, r)
  OBVIOUS
<1>2. PICK n \in Nat : n = Len(c)
  OBVIOUS
<1>3. d \in Seq(R) /\ Len(d) = n + 1 /\ (\A i \in 1..n : c[i] = d[i]) /\ d[n + 1] = r
  BY <1>1, <1>2
<1>4. PICK f : FoldsViews(f, c, n) /\ ReviewedView(c) = f[1..n]
  BY <1>2, ViewIs
<1>5. PICK g : FoldsViews(g, d, n + 1) /\ ReviewedView(d) = g[1..(n + 1)]
  <2>1. PICK g : FoldsViews(g, d, Len(d)) /\ ReviewedView(d) = g[1..Len(d)]
    BY <1>3, ViewIs
  <2>2. QED BY <2>1, <1>3
<1>6. n + 1 \in Nat /\ n <= n /\ n <= n + 1
  OBVIOUS
<1>7. f[1..n] = g[1..n]
  BY <1>3, <1>4, <1>5, <1>6, ViewsAgree
<1>8. 1..(n + 1) # {} /\ Max(1..(n + 1)) = n + 1 /\ (1..(n + 1)) \ {n + 1} = 1..n
  <2>1. n + 1 # 0 /\ n + 1 - 1 = n
    OBVIOUS
  <2>2. QED BY <2>1, <1>6, MaxUpTo
<1>9. g[1..(n + 1)] = Revised(g[1..n], d[n + 1])
  <2>1. 1..(n + 1) \in SUBSET (1..(n + 1))
    OBVIOUS
  <2>2. g[1..(n + 1)] = IF 1..(n + 1) = {} THEN Original
                       ELSE Revised(g[(1..(n + 1)) \ {Max(1..(n + 1))}], d[Max(1..(n + 1))])
    BY <2>1, <1>5 DEF FoldsViews
  <2>3. QED BY <2>2, <1>8
<1>10. QED BY <1>1, <1>3, <1>4, <1>5, <1>7, <1>9

\* What selects a line is among the selections.
FoldsSelected(h, l, s, n) == h = [T \in SUBSET (1..n) |->
    IF T = {} THEN <<>>
    ELSE IF l \in s[Max(T)].lines THEN Append(h[T \ {Max(T)}], s[Max(T)]) ELSE h[T \ {Max(T)}]]

LEMMA SelectedFold ==
    ASSUME NEW l, NEW s, NEW n \in Nat
    PROVE  \E h : FoldsSelected(h, l, s, n)
<1> DEFINE Bad == {k \in Nat : ~\E h : FoldsSelected(h, l, s, k)}
<1> DEFINE More(a, k) == IF l \in s[k].lines THEN Append(a, s[k]) ELSE a
<1> SUFFICES ASSUME Bad # {} PROVE FALSE
  OBVIOUS
<1>1. PICK k \in Bad : \A m \in Bad : k <= m
  BY LeastNumber
<1>2. k \in Nat /\ ~\E h : FoldsSelected(h, l, s, k)
  OBVIOUS
<1>3. CASE k = 0
  <2>1. \A T \in SUBSET (1..k) : T = {}
    BY <1>3
  <2>2. FoldsSelected([T \in SUBSET (1..k) |-> <<>>], l, s, k)
    BY <2>1 DEF FoldsSelected
  <2>3. QED BY <1>2, <2>2
<1>4. CASE k # 0
  <2>1. k - 1 \in Nat /\ k - 1 \notin Bad
    BY <1>1, <1>2, <1>4
  <2>2. PICK g : FoldsSelected(g, l, s, k - 1)
    BY <2>1
  <2> DEFINE h == [T \in SUBSET (1..k) |-> IF k \in T THEN More(g[T \ {k}], k) ELSE g[T]]
  <2>3. ASSUME NEW T \in SUBSET (1..k)
        PROVE  h[T] = IF T = {} THEN <<>> ELSE More(h[T \ {Max(T)}], Max(T))
    <3>1. CASE k \in T
      <4>1. Max(T) = k /\ T # {} /\ T \ {k} \in SUBSET (1..k)
        BY <3>1, <1>2, <1>4, MaxUpTo
      <4>2. h[T \ {k}] = g[T \ {k}]
        BY <4>1
      <4>3. h[T] = More(g[T \ {k}], k)
        BY <3>1
      <4>4. QED BY <4>1, <4>2, <4>3
    <3>2. CASE k \notin T
      <4>1. T \in SUBSET (1..(k - 1))
        BY <3>2, <1>2, <1>4, MaxUpTo
      <4>2. h[T] = g[T]
        BY <3>2
      <4>3. g[T] = IF T = {} THEN <<>> ELSE More(g[T \ {Max(T)}], Max(T))
        BY <4>1, <2>2 DEF FoldsSelected
      <4>4. h[T \ {Max(T)}] = g[T \ {Max(T)}]
        BY <3>2
      <4>5. QED BY <4>2, <4>3, <4>4
    <3>3. QED BY <3>1, <3>2
  <2>4. FoldsSelected(h, l, s, k)
    BY <2>3 DEF FoldsSelected
  <2>5. QED BY <1>2, <2>4
<1>5. QED BY <1>3, <1>4

LEMMA SelectedAreSelections ==
    ASSUME sheet \in Sheets, NEW l
    PROVE  /\ Selecting(l) \in Seq(Range(sheet.selections))
           /\ \A i \in DOMAIN SelectedIn(l) : SelectedIn(l)[i] \in SelectionIds
<1>1. PICK s : s = sheet.selections
  OBVIOUS
<1>2. PICK A : A = Range(s)
  OBVIOUS
<1>3. s \in Seq(A)
  BY <1>1, <1>2, ChainAssumption
<1>4. PICK n \in Nat : n = Len(s) /\ DOMAIN s = 1..n
  BY <1>3
<1>5. Selecting(l) = (CHOOSE h : FoldsSelected(h, l, s, n))[1..n]
  BY <1>1, <1>4 DEF Selecting, FoldLeft, MapThenFoldSet, FoldsSelected
<1>6. PICK h : FoldsSelected(h, l, s, n) /\ Selecting(l) = h[1..n]
  <2>1. FoldsSelected(CHOOSE h : FoldsSelected(h, l, s, n), l, s, n)
    BY SelectedFold
  <2>2. QED BY <2>1, <1>5
<1> DEFINE Bad == {i \in Nat : i <= n /\ h[1..i] \notin Seq(A)}
<1>7. ASSUME Bad # {} PROVE FALSE
  <2>1. PICK i \in Bad : \A j \in Bad : i <= j
    <3>1. Bad \in SUBSET Nat
      OBVIOUS
    <3>2. QED BY <1>7, <3>1, LeastNumber
  <2>2. i \in Nat /\ i <= n /\ h[1..i] \notin Seq(A) /\ 1..i \in SUBSET (1..n)
    OBVIOUS
  <2>3. h[1..i] = IF 1..i = {} THEN <<>>
                  ELSE IF l \in s[Max(1..i)].lines
                       THEN Append(h[(1..i) \ {Max(1..i)}], s[Max(1..i)])
                       ELSE h[(1..i) \ {Max(1..i)}]
    BY <2>2, <1>6 DEF FoldsSelected
  <2>4. CASE i = 0
    <3>1. 1..i = {} /\ <<>> \in Seq(A)
      BY <2>4
    <3>2. QED BY <3>1, <2>2, <2>3
  <2>5. CASE i # 0
    <3>1. 1..i # {} /\ Max(1..i) = i /\ (1..i) \ {i} = 1..(i - 1)
      BY <2>2, <2>5, MaxUpTo
    <3>2. i - 1 \in Nat /\ i - 1 \notin Bad /\ i - 1 <= n /\ i \in 1..n
      BY <2>1, <2>2, <2>5
    <3>3. PICK a : a = h[1..(i - 1)]
      OBVIOUS
    <3>4. a \in Seq(A) /\ s[i] \in A
      BY <3>2, <3>3, <1>3, <1>4
    <3>5. Append(a, s[i]) \in Seq(A)
      BY <3>4
    <3>6. QED BY <3>1, <3>3, <3>4, <3>5, <2>2, <2>3
  <2>6. QED BY <2>4, <2>5
<1>8. h[1..n] \in Seq(A)
  BY <1>7
<1>9. PICK c : c = Selecting(l) /\ c \in Seq(A)
  BY <1>6, <1>8
<1>10. \A i \in DOMAIN c : c[i] \in A
  BY <1>9
<1>11. \A x \in A : x.id \in SelectionIds
  BY <1>1, <1>2 DEF Range, SelectionIds
<1>12. QED BY <1>1, <1>2, <1>9, <1>10, <1>11 DEF SelectedIn

----------------------------------------------------------------------------
(* Revisions *)

\* A sequence of revisions after which a reviewed membership is in one selection.
GoodChain(c) ==
    /\ \E R : c \in Seq(R)
    /\ \A l \in LineIds : ReviewedView(c)[<<"member", l>>].state = "source_reviewed" =>
          \E s \in SelectionIds : ReviewedView(c)[<<"member", l>>].value = <<s>>

\* What a reviewer means of a target is his change of what he read there.
Means(job) == \A t \in Targets : (\E c \in job.changes : c.on = t) =>
    LET c == CHOOSE c \in job.changes : c.on = t IN job.meant[t] = Amended(c.before, c)

RevisionInv ==
    /\ sheet \in Sheets
    /\ GoodChain(chain)
    /\ DOMAIN revising = Reviewers
    /\ \A v \in Reviewers :
          /\ DOMAIN revising[v] = {"stage", "changes", "after", "meant"}
          /\ revising[v].stage \in {"prepared", "made"} => Means(revising[v])
          /\ revising[v].stage = "made" => GoodChain(revising[v].after)

\* A revision that replays after a chain.
LEMMA RevisionReplays ==
    ASSUME NEW c, GoodChain(c), NEW r, Replays(Append(c, r))
    PROVE  /\ ValidRevision(ReviewedView(c), r.changes)
           /\ ReviewedView(Append(c, r)) = Revised(ReviewedView(c), r)
           /\ Front(Append(c, r)) = c
           /\ \E R : Append(c, r) \in Seq(R)
<1>1. PICK Q : c \in Seq(Q)
  BY DEF GoodChain
<1>2. PICK R : R = Q \cup {r}
  OBVIOUS
<1>3. c \in Seq(R) /\ r \in R
  BY <1>1, <1>2
<1>4. PICK d : d = Append(c, r)
  OBVIOUS
<1>5. PICK n \in Nat : n = Len(c)
  BY <1>3
<1>6. d \in Seq(R) /\ Len(d) = n + 1 /\ (\A i \in 1..n : d[i] = c[i]) /\ d[n + 1] = r /\ DOMAIN d = 1..(n + 1)
  BY <1>3, <1>4, <1>5
<1>7. SubSeq(d, 1, n) = c
  <2>1. n + 1 - 1 = n /\ 1 \in Int /\ n \in Int
    OBVIOUS
  <2>2. \A i \in 1..n : d[i] \in R
    BY <1>6
  <2>3. SubSeq(d, 1, n) \in Seq(R) /\ Len(SubSeq(d, 1, n)) = n
    BY <2>1, <2>2, SubSeqProperties
  <2>4. \A i \in 1..(n - 1 + 1) : SubSeq(d, 1, n)[i] = d[1 + i - 1]
    BY <2>1, <2>2, SubSeqProperties
  <2>5. \A i \in 1..n : SubSeq(d, 1, n)[i] = c[i]
    BY <2>4, <1>6
  <2>6. QED BY <2>3, <2>5, <1>3, <1>5, SeqEqual
<1>8. Front(d) = c
  BY <1>6, <1>7 DEF Front
<1>9. ValidRevision(ReviewedView(c), r.changes)
  <2>1. n + 1 \in DOMAIN d /\ n + 1 - 1 = n
    BY <1>6
  <2>2. Replays(d)
    BY <1>4
  <2>3. \A i \in DOMAIN d : ValidRevision(ReviewedView(SubSeq(d, 1, i - 1)), d[i].changes)
    BY <2>2 DEF Replays
  <2>4. ValidRevision(ReviewedView(SubSeq(d, 1, n)), d[n + 1].changes)
    BY <2>1, <2>3
  <2>5. QED BY <2>4, <1>6, <1>7
<1>10. ReviewedView(Append(c, r)) = Revised(ReviewedView(c), r)
  BY <1>3, ViewOfMore
<1>11. QED BY <1>4, <1>6, <1>8, <1>9, <1>10

LEMMA GoodChainMore ==
    ASSUME NEW c, GoodChain(c), NEW r, Replays(Append(c, r))
    PROVE  GoodChain(Append(c, r))
<1>1. /\ ValidRevision(ReviewedView(c), r.changes)
      /\ ReviewedView(Append(c, r)) = Revised(ReviewedView(c), r)
      /\ \E R : Append(c, r) \in Seq(R)
  BY RevisionReplays
<1>2. ASSUME NEW l \in LineIds,
             ReviewedView(Append(c, r))[<<"member", l>>].state = "source_reviewed"
      PROVE  \E s \in SelectionIds : ReviewedView(Append(c, r))[<<"member", l>>].value = <<s>>
  <2>1. PICK t : t = <<"member", l>>
    OBVIOUS
  <2>2. t \in Targets /\ t[1] = "member"
    BY <2>1 DEF Targets
  <2>3. ReviewedView(Append(c, r))[t] =
            IF \E d \in r.changes : d.on = t
            THEN Amended(ReviewedView(c)[t], CHOOSE d \in r.changes : d.on = t) ELSE ReviewedView(c)[t]
    BY <2>2, <1>1 DEF Revised
  <2>4. CASE \E d \in r.changes : d.on = t
    <3>1. PICK d : d = CHOOSE e \in r.changes : e.on = t
      OBVIOUS
    <3>2. d \in r.changes /\ d.on = t
      BY <2>4, <3>1
    <3>3. StateFits(d) /\ (d.span # Whole => d.on[1] = "line")
      BY <3>2, <1>1 DEF ValidRevision, ValidChange, OccurrenceFits
    <3>4. d.span = Whole
      BY <2>2, <3>2, <3>3
    <3>5. ReviewedView(Append(c, r))[t] = [value |-> d.value, state |-> d.state]
      BY <2>3, <2>4, <3>1, <3>4 DEF Amended, Spliced, ReadAs
    <3>6. d.state = "source_reviewed"
      BY <1>2, <2>1, <3>5
    <3>7. d.value # Null
      BY <3>3, <3>6 DEF StateFits
    <3>8. \E s \in SelectionIds : d.value = <<s>>
      BY <2>2, <3>2, <3>3, <3>7 DEF StateFits
    <3>9. QED BY <2>1, <3>5, <3>8
  <2>5. CASE ~\E d \in r.changes : d.on = t
    BY <2>1, <2>3, <2>5, <1>2 DEF GoodChain
  <2>6. QED BY <2>4, <2>5
<1>3. QED BY <1>1, <1>2 DEF GoodChain

\* A revision that is saved makes of its targets what was meant.
LEMMA Lands ==
    ASSUME NEW c, GoodChain(c), NEW job, Means(job),
           NEW r, r.changes = job.changes, Replays(Append(c, r)), NEW t \in Targets
    PROVE  ReviewedView(Append(c, r))[t] =
               IF \E d \in job.changes : d.on = t THEN job.meant[t]
               ELSE ReviewedView(Front(Append(c, r)))[t]
<1>1. /\ ValidRevision(ReviewedView(c), job.changes)
      /\ ReviewedView(Append(c, r)) = Revised(ReviewedView(c), r)
      /\ Front(Append(c, r)) = c
  BY RevisionReplays
<1>2. ReviewedView(Append(c, r))[t] =
          IF \E d \in job.changes : d.on = t
          THEN Amended(ReviewedView(c)[t], CHOOSE d \in job.changes : d.on = t) ELSE ReviewedView(c)[t]
  BY <1>1 DEF Revised
<1>3. ASSUME \E d \in job.changes : d.on = t
      PROVE  job.meant[t] = Amended(ReviewedView(c)[t], CHOOSE d \in job.changes : d.on = t)
  <2>1. PICK d : d = CHOOSE e \in job.changes : e.on = t
    OBVIOUS
  <2>2. d \in job.changes /\ d.on = t
    BY <1>3, <2>1
  <2>3. d.before = ReviewedView(c)[t]
    BY <2>2, <1>1 DEF ValidRevision, ValidChange
  <2>4. job.meant[t] = Amended(d.before, d)
    BY <1>3, <2>1 DEF Means
  <2>5. QED BY <2>1, <2>3, <2>4
<1>4. QED BY <1>1, <1>2, <1>3

\* What is prepared is meant.
LEMMA PreparedMeans ==
    ASSUME NEW view, NEW wanted, NEW job,
           job.changes = {Prepared(view, p) : p \in wanted},
           job.meant = Revised(view, [after |-> chain, changes |-> job.changes])
    PROVE  Means(job)
<1> SUFFICES ASSUME NEW t \in Targets, \E c \in job.changes : c.on = t
             PROVE  LET c == CHOOSE c \in job.changes : c.on = t IN job.meant[t] = Amended(c.before, c)
  BY DEF Means
<1>1. PICK c : c = CHOOSE e \in job.changes : e.on = t
  OBVIOUS
<1>2. c \in job.changes /\ c.on = t
  BY <1>1
<1>3. PICK p \in wanted : c = Prepared(view, p)
  BY <1>2
<1>4. c.before = view[t]
  BY <1>2, <1>3 DEF Prepared
<1>5. job.meant[t] = Amended(view[t], c)
  BY <1>1 DEF Revised
<1>6. QED BY <1>1, <1>4, <1>5

\* The evidence is fixed: what is made of it stays.
LEMMA SheetStays ==
    ASSUME sheet' = sheet
    PROVE  /\ GoodChain(chain)' <=> GoodChain(chain')
           /\ \A v \in Reviewers :
                 /\ GoodChain(revising[v].after)' <=> GoodChain(revising'[v].after)
                 /\ Means(revising[v])' <=> Means(revising'[v])
<1>1. Targets' = Targets /\ LineIds' = LineIds /\ SelectionIds' = SelectionIds
  BY DEF Targets, LineIds, CellIds, SelectionIds
<1>2. ReviewedView(chain)' = ReviewedView(chain')
  BY DEF ReviewedView, FoldLeft, MapThenFoldSet, Original, Joined, Targets, LineIds, CellIds,
         SelectedIn, Selecting, Revised, Amended
<1>3. GoodChain(chain)' <=> GoodChain(chain')
  BY <1>1, <1>2 DEF GoodChain
<1>4. ASSUME NEW v \in Reviewers
      PROVE  /\ GoodChain(revising[v].after)' <=> GoodChain(revising'[v].after)
             /\ Means(revising[v])' <=> Means(revising'[v])
  <2>1. ReviewedView(revising[v].after)' = ReviewedView(revising'[v].after)
    BY DEF ReviewedView, FoldLeft, MapThenFoldSet, Original, Joined, Targets, LineIds, CellIds,
           SelectedIn, Selecting, Revised, Amended
  <2>2. GoodChain(revising[v].after)' <=> GoodChain(revising'[v].after)
    BY <1>1, <2>1 DEF GoodChain
  <2>3. Means(revising[v])' <=> Means(revising'[v])
    BY <1>1 DEF Means
  <2>4. QED BY <2>2, <2>3
<1>5. QED BY <1>3, <1>4

LEMMA RevisionsBegin == RevisionInit => RevisionInv
<1> SUFFICES ASSUME RevisionInit PROVE RevisionInv
  OBVIOUS
<1>1. sheet \in Sheets /\ chain = <<>> /\ revising = [v \in Reviewers |-> NotRevising]
  BY DEF RevisionInit
<1>2. ASSUME NEW l \in LineIds PROVE Original[<<"member", l>>].state # "source_reviewed"
  <2>1. PICK t : t = <<"member", l>>
    OBVIOUS
  <2>2. t \in Targets /\ t[1] = "member"
    BY <2>1 DEF Targets
  <2>3. Original[t].state \in {"unresolved", "candidate"}
    BY <2>2 DEF Original, ReadAs
  <2>4. QED BY <2>1, <2>3
<1>3. GoodChain(chain)
  <2>1. <<>> \in Seq({})
    OBVIOUS
  <2>2. QED BY <2>1, <1>1, <1>2, ViewOfNone DEF GoodChain
<1>4. \A v \in Reviewers : /\ DOMAIN revising[v] = {"stage", "changes", "after", "meant"}
                          /\ revising[v].stage = "none"
  BY <1>1 DEF NotRevising
<1>5. QED BY <1>1, <1>3, <1>4 DEF RevisionInv

\* One reviewer goes on; the others stay where they are.
LEMMA OneRevises ==
    ASSUME RevisionInv, sheet' = sheet, NEW v \in Reviewers, NEW job,
           revising' = [revising EXCEPT ![v] = job],
           GoodChain(chain'), DOMAIN job = {"stage", "changes", "after", "meant"},
           job.stage \in {"prepared", "made"} => Means(job),
           job.stage = "made" => GoodChain(job.after)
    PROVE  RevisionInv'
<1>1. \A w \in Reviewers : revising'[w] = IF w = v THEN job ELSE revising[w]
  BY DEF RevisionInv
<1>2. \A w \in Reviewers :
          /\ DOMAIN revising'[w] = {"stage", "changes", "after", "meant"}
          /\ revising'[w].stage \in {"prepared", "made"} => Means(revising'[w])
          /\ revising'[w].stage = "made" => GoodChain(revising'[w].after)
  BY <1>1 DEF RevisionInv
<1>3. GoodChain(chain)' /\ \A w \in Reviewers :
          /\ DOMAIN revising'[w] = {"stage", "changes", "after", "meant"}
          /\ revising'[w].stage \in {"prepared", "made"} => Means(revising[w])'
          /\ revising'[w].stage = "made" => GoodChain(revising[w].after)'
  BY <1>2, SheetStays
<1>6. sheet' \in Sheets /\ DOMAIN revising' = Reviewers
  BY DEF RevisionInv
<1>7. QED BY <1>3, <1>6 DEF RevisionInv

\* What a reviewer's save does.
LEMMA SavedChain ==
    ASSUME RevisionInv, NEW v \in Reviewers, SaveRevision(v)
    PROVE  chain' = chain \/ \E c, r : /\ GoodChain(c) /\ r.changes = revising[v].changes
                                       /\ Replays(Append(c, r)) /\ chain' = Append(c, r)
<1>1. revising[v].stage = "made"
  BY DEF SaveRevision
<1>2. PICK c \in {chain, revising[v].after} :
          LET longer == Append(c, [after |-> revising[v].after, changes |-> revising[v].changes])
          IN  chain' = IF Replays(longer) THEN longer ELSE chain
  BY DEF SaveRevision
<1>3. GoodChain(c)
  BY <1>1, <1>2 DEF RevisionInv
<1>4. PICK r : r = [after |-> revising[v].after, changes |-> revising[v].changes]
  OBVIOUS
<1>5. r.changes = revising[v].changes
  BY <1>4
<1>6. chain' = IF Replays(Append(c, r)) THEN Append(c, r) ELSE chain
  BY <1>2, <1>4
<1>7. QED BY <1>3, <1>5, <1>6

LEMMA RevisionStep == RevisionInv /\ [RevisionNext]_revisionVars => RevisionInv'
<1> SUFFICES ASSUME RevisionInv, [RevisionNext]_revisionVars PROVE RevisionInv'
  OBVIOUS
<1> DEFINE Idle == DOMAIN NotRevising = {"stage", "changes", "after", "meant"} /\ NotRevising.stage = "none"
<1>0. Idle
  BY DEF NotRevising
<1>1. ASSUME NEW v \in Reviewers, Prepare(v) PROVE RevisionInv'
  <2> DEFINE view == ReviewedView(chain)
  <2>1. PICK wanted \in Proposals :
            LET changes == {Prepared(view, p) : p \in wanted} IN
            revising' = [revising EXCEPT ![v] =
                [stage |-> "prepared", changes |-> changes, after |-> <<>>,
                 meant |-> Revised(view, [after |-> chain, changes |-> changes])]]
    BY <1>1 DEF Prepare, Keep
  <2> DEFINE job == [stage |-> "prepared", changes |-> {Prepared(view, p) : p \in wanted}, after |-> <<>>,
                     meant |-> Revised(view, [after |-> chain,
                                              changes |-> {Prepared(view, p) : p \in wanted}])]
  <2>2. /\ job.changes = {Prepared(view, p) : p \in wanted} /\ job.stage = "prepared"
        /\ job.meant = Revised(view, [after |-> chain, changes |-> job.changes])
        /\ DOMAIN job = {"stage", "changes", "after", "meant"}
        /\ revising' = [revising EXCEPT ![v] = job]
    BY <2>1
  <2> HIDE DEF job
  <2>3. Means(job)
    BY <2>2, PreparedMeans
  <2>4. sheet' = sheet /\ GoodChain(chain')
    BY <1>1 DEF Prepare, RevisionInv
  <2>5. QED BY <2>2, <2>3, <2>4, OneRevises
<1>2. ASSUME NEW v \in Reviewers, MakeRevision(v) PROVE RevisionInv'
  <2>1. sheet' = sheet /\ chain' = chain /\ GoodChain(chain) /\ revising[v].stage = "prepared"
    BY <1>2 DEF MakeRevision, RevisionInv
  <2>2. /\ Means(revising[v])
        /\ DOMAIN revising[v] = {"stage", "changes", "after", "meant"}
    BY <2>1 DEF RevisionInv
  <2>3. PICK job : revising' = [revising EXCEPT ![v] = job]
                   /\ (job = NotRevising \/ job = [revising[v] EXCEPT !.stage = "made", !.after = chain])
    BY <1>2 DEF MakeRevision, Keep
  <2>4. CASE job = NotRevising
    BY <2>1, <2>3, <2>4, <1>0, OneRevises
  <2>5. CASE job = [revising[v] EXCEPT !.stage = "made", !.after = chain]
    <3>1. /\ DOMAIN job = {"stage", "changes", "after", "meant"}
          /\ job.stage = "made" /\ job.after = chain
          /\ job.changes = revising[v].changes /\ job.meant = revising[v].meant
      BY <2>2, <2>5
    <3>2. Means(job)
      BY <2>2, <3>1 DEF Means
    <3>3. QED BY <2>1, <2>3, <3>1, <3>2, OneRevises
  <2>6. QED BY <2>3, <2>4, <2>5
<1>3. ASSUME NEW v \in Reviewers, SaveRevision(v) PROVE RevisionInv'
  <2>1. sheet' = sheet /\ revising' = [revising EXCEPT ![v] = NotRevising]
    BY <1>3 DEF SaveRevision, Keep
  <2>2. GoodChain(chain')
    <3>1. CASE chain' = chain
      BY <3>1 DEF RevisionInv
    <3>2. CASE \E c, r : /\ GoodChain(c) /\ r.changes = revising[v].changes
                         /\ Replays(Append(c, r)) /\ chain' = Append(c, r)
      BY <3>2, GoodChainMore
    <3>3. QED BY <3>1, <3>2, <1>3, SavedChain
  <2>3. QED BY <2>1, <2>2, <1>0, OneRevises
<1>4. ASSUME UNCHANGED revisionVars PROVE RevisionInv'
  <2>1. sheet' = sheet /\ chain' = chain /\ revising' = revising
    BY <1>4 DEF revisionVars
  <2>2. GoodChain(chain') /\ \A v \in Reviewers :
          /\ DOMAIN revising'[v] = {"stage", "changes", "after", "meant"}
          /\ revising'[v].stage \in {"prepared", "made"} => Means(revising'[v])
          /\ revising'[v].stage = "made" => GoodChain(revising'[v].after)
    BY <2>1 DEF RevisionInv
  <2>3. GoodChain(chain)' /\ \A v \in Reviewers :
          /\ DOMAIN revising'[v] = {"stage", "changes", "after", "meant"}
          /\ revising'[v].stage \in {"prepared", "made"} => Means(revising[v])'
          /\ revising'[v].stage = "made" => GoodChain(revising[v].after)'
    BY <2>1, <2>2, SheetStays
  <2>4. sheet' \in Sheets /\ DOMAIN revising' = Reviewers
    BY <2>1 DEF RevisionInv
  <2>5. QED BY <2>3, <2>4 DEF RevisionInv
<1>5. QED BY <1>1, <1>2, <1>3, <1>4 DEF RevisionNext

\* A step saves what was meant.
LEMMA StepLands ==
    ASSUME RevisionInv, [RevisionNext]_revisionVars, NEW v \in Reviewers,
           chain' # chain, revising[v].stage = "made", revising'[v].stage = "none", NEW t \in Targets
    PROVE  ReviewedView(chain')[t] =
               IF \E c \in revising[v].changes : c.on = t
               THEN revising[v].meant[t] ELSE ReviewedView(Front(chain'))[t]
<1>1. PICK w \in Reviewers : SaveRevision(w)
  BY DEF RevisionNext, revisionVars, Prepare, MakeRevision
<1>2. w = v
  <2>1. revising' = [revising EXCEPT ![w] = NotRevising]
    BY <1>1 DEF SaveRevision, Keep
  <2>2. w # v => revising'[v] = revising[v]
    BY <2>1 DEF RevisionInv
  <2>3. QED BY <2>2
<1>3. PICK c, r : /\ GoodChain(c) /\ r.changes = revising[v].changes
                  /\ Replays(Append(c, r)) /\ chain' = Append(c, r)
  BY <1>1, <1>2, SavedChain
<1>4. Means(revising[v])
  BY DEF RevisionInv
<1>5. QED BY <1>3, <1>4, Lands

LEMMA NothingIsLost == RevisionInv => NothingLost
<1> SUFFICES ASSUME RevisionInv PROVE NothingLost
  OBVIOUS
<1>1. ASSUME NEW l \in LineIds
      PROVE  LET holders == {s \in SelectionIds : l \in EffectiveLines(s)} IN
             /\ SelectedIn(l) # <<>> => holders # {}
             /\ Moved(l) => Cardinality(holders) = 1
  <2> DEFINE holders == {s \in SelectionIds : l \in EffectiveLines(s)}
  <2>1. ASSUME Moved(l) PROVE \E s \in SelectionIds : holders = {s}
    <3>1. PICK s \in SelectionIds : ReviewedView(chain)[<<"member", l>>].value = <<s>>
      BY <2>1 DEF Moved, RevisionInv, GoodChain
    <3>2. \A q \in SelectionIds : q \in holders <=> <<s>> = <<q>>
      BY <2>1, <3>1 DEF EffectiveLines
    <3>3. \A q : <<s>> = <<q>> <=> s = q
      OBVIOUS
    <3>4. holders = {s}
      BY <3>2, <3>3
    <3>5. QED BY <3>4
  <2>2. ASSUME ~Moved(l), SelectedIn(l) # <<>> PROVE holders # {}
    <3>1. PICK c : c = Selecting(l) /\ c \in Seq(Range(sheet.selections))
      BY SelectedAreSelections DEF RevisionInv
    <3>2. SelectedIn(l) = [i \in DOMAIN c |-> c[i].id]
      BY <3>1 DEF SelectedIn
    <3>3. 1 \in DOMAIN c
      <4>1. Len(c) # 0
        <5>1. SUFFICES ASSUME Len(c) = 0 PROVE FALSE
          OBVIOUS
        <5>2. [i \in DOMAIN c |-> c[i].id] = <<>>
          BY <3>1, <5>1
        <5>3. QED BY <5>2, <3>2, <2>2
      <4>2. QED BY <4>1, <3>1
    <3>4. SelectedIn(l)[1] \in SelectionIds /\ 1 \in DOMAIN SelectedIn(l)
      BY <3>2, <3>3, SelectedAreSelections DEF RevisionInv
    <3>5. SelectedIn(l)[1] \in holders
      BY <2>2, <3>4 DEF EffectiveLines, Range
    <3>6. QED BY <3>5
  <2>3. Moved(l) => Cardinality(holders) = 1 /\ holders # {}
    BY <2>1, FS_Singleton
  <2>4. QED BY <2>2, <2>3
<1>2. Queue = {} /\ ~Cleared =>
          Disagreeing # {} \/ \E l \in LineIds : ReviewedView(chain)[<<"line", l>>].state = "proposed"
  BY DEF Queue, Cleared
<1>3. QED BY <1>1, <1>2 DEF NothingLost

\* For any evidence, proposals and reviewers: what a saved revision makes of its targets is what its
\* reviewer meant on what he read, every other reading stays as it is, no line that was selected drops
\* out of all selections, and what holds clearance up is in the queue or shown as disagreeing
\* (transcription_review.py:148-463).
THEOREM CorrectionsStand == RevisionSpec => RevisionsHold
<1>1. RevisionSpec => []RevisionInv
  BY RevisionsBegin, RevisionStep, PTL DEF RevisionSpec
<1>2. RevisionInv /\ [RevisionNext]_revisionVars =>
        [\A v \in Reviewers :
            chain' # chain /\ revising[v].stage = "made" /\ revising'[v].stage = "none" =>
                \A t \in Targets : ReviewedView(chain')[t] =
                    IF \E c \in revising[v].changes : c.on = t
                    THEN revising[v].meant[t] ELSE ReviewedView(Front(chain'))[t]]_revisionVars
  BY StepLands
<1>3. RevisionSpec => CorrectionsLand
  BY <1>1, <1>2, PTL DEF RevisionSpec, CorrectionsLand
<1>4. RevisionSpec => []NothingLost
  BY <1>1, NothingIsLost, PTL
<1>5. QED BY <1>3, <1>4 DEF RevisionsHold
=============================================================================
