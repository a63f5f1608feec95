--------------------------- MODULE SessionBookProofs ---------------------------
(***************************************************************************)
(* Proofs about SessionBook: for any number of sessions, requests, faults  *)
(* and late writes, every variable keeps its type, a logout is final, no   *)
(* write disturbs another device's session, and the cap on sessions holds; *)
(* no refresh token is used twice, and none that is kept has been revoked. *)
(***************************************************************************)
EXTENDS SessionBook, FiniteSetTheorems, TLAPS

Record == [Keys -> Entry \cup {None}]
Open   == {"decide", "put", "late"}   \* where a decision is taken or written
Access == {"passive", "active"}

\* A session under a lease has a refresh token to renew it with.
Leased(s) == \A k \in Keys : s[k] # None /\ s[k].lease # None => s[k].refresh \in Tokens

Bounded(s) == IsFiniteSet(Present(s)) /\ Cardinality(Present(s)) <= SessionCap

\* What a request may make of the record s: it changes its own session, which only a login
\* creates; a logout of all devices removes, and a login removes what has expired.
ByRight(op, key, s, t, at) == \A k \in Keys : t[k] # s[k] =>
    \/ k = key /\ (s[k] = None => op = "begin")
    \/ s[k] # None /\ op = "all"
    \/ s[k] # None /\ op = "begin" /\ Ended(s[k], at)

\* An acknowledged logout leaves none of the sessions it is about.
LogsOut(op, key, t) == IF op = "all" THEN \A k \in Keys : t[k] = None
                                     ELSE op = "device" /\ t[key] = None

----------------------------------------------------------------------------
(* The inductive invariant *)

\* What a request carries where it is.
Carries(r) ==
    \/ pc[r] = "idle" /\ job[r] = NoJob
    \/ /\ pc[r] # "idle"
       /\ job[r].op \in Operations /\ job[r].key \in Keys
       /\ job[r].op \notin Access => job[r].stage = "main"
       /\ job[r].op # "begin" => job[r].key \in delivered
       /\ job[r].op = "begin" /\ pc[r] \in Open => job[r].tokens \in Pair /\ job[r].key \notin delivered
       /\ job[r].stage = "settle" => job[r].tokens \in Pair
       /\ pc[r] = "renew" => job[r].op \in Access /\ job[r].refresh \in Tokens

\* What a write that is on its way will do, if it is sound when it arrives.
Writes(r) == pc[r] \in {"put", "late"} =>
    /\ pc[r] = "put" => job[r].attempt < WriteAttempts
    /\ Leased(job[r].next)
    /\ job[r].then = "created" => job[r].op = "begin"
    /\ job[r].then = "lease" => job[r].op \in Access /\ job[r].next[job[r].key].refresh \in Tokens

\* A write whose version is current does what its request has the right to.
Sound(r) == r \in fresh =>
    /\ pc[r] \in {"put", "late"}
    /\ ByRight(job[r].op, job[r].key, sessions, job[r].next, now)
    /\ Bounded(job[r].next)
    /\ job[r].then = "ended" => LogsOut(job[r].op, job[r].key, job[r].next)

\* Every login has a key of its own, and a cookie is handed out for such a key only.
OwnKeys ==
    /\ \A q, r \in Requests : /\ job[q].op = "begin" /\ job[r].op = "begin"
                               /\ job[q].key \in Keys /\ job[q].key = job[r].key
                             => q = r
    /\ delivered \subseteq {First} \cup {job[q].key : q \in Requests}

ClosedGone == closed \subseteq delivered /\ \A k \in closed : sessions[k] = None

SInv == /\ SessionTypeOK
        /\ \A r \in Requests : Carries(r) /\ Writes(r) /\ Sound(r)
        /\ OwnKeys /\ ClosedGone
        /\ Leased(sessions) /\ Bounded(sessions)

----------------------------------------------------------------------------
(* Entries and jobs *)

\* An expired session stays expired.
LEMMA EndedLater ==
    ASSUME NEW e \in Entry, NEW t \in Times, NEW u \in Times, t <= u, Ended(e, t)
    PROVE  Ended(e, u)
  BY SessionAssumption DEF Ended, Entry, Times

LEMMA RightLater ==
    ASSUME NEW s \in Record, NEW t, NEW op, NEW key, NEW a \in Times, NEW b \in Times, a <= b,
           ByRight(op, key, s, t, a)
    PROVE  ByRight(op, key, s, t, b)
<1>1. ASSUME NEW k \in Keys, s[k] # None, Ended(s[k], a) PROVE Ended(s[k], b)
  BY <1>1, EndedLater DEF Record
<1>2. QED BY <1>1 DEF ByRight

LEMMA EntryEdits ==
    ASSUME NEW e \in Entry
    PROVE  /\ \A t \in Times : [e EXCEPT !.seen = t] \in Entry
           /\ \A t \in Times : [e EXCEPT !.seen = t].lease = e.lease
                               /\ [e EXCEPT !.seen = t].refresh = e.refresh
           /\ \A t \in Times, r \in Requests :
                /\ [e EXCEPT !.renewing = t, !.lease = r] \in Entry
                /\ [e EXCEPT !.renewing = t, !.lease = r].refresh = e.refresh
  BY DEF Entry

LEMMA NothingIsRecord == Nothing \in Record /\ NoJob \in Job
<1>1. 0 \in Times /\ 0 \in 0..WriteAttempts
  BY SessionAssumption DEF Times
<1>2. Nothing \in Record
  BY DEF Nothing, Record
<1>3. QED BY <1>1, <1>2 DEF NoJob, Job, Record, Operations, Decisions, Outcomes

\* What is left of a request that has returned.
LEMMA ReturnJob ==
    ASSUME SessionTypeOK, NEW r \in Requests, NEW o \in Stopped, Return(r, o)
    PROVE  /\ pc' = [pc EXCEPT ![r] = o] /\ job' \in [Requests -> Job]
           /\ job'[r].op = job[r].op /\ job'[r].key = job[r].key
           /\ job'[r].stage = "main"
           /\ \A q \in Requests \ {r} : pc'[q] = pc[q] /\ job'[q] = job[q]
<1> DEFINE j == [NoJob EXCEPT !.op = job[r].op, !.key = job[r].key]
<1>1. job[r].op \in Operations \cup {None} /\ job[r].key \in Keys \cup {None}
  BY DEF SessionTypeOK, Job
<1>2. j \in Job /\ j.op = job[r].op /\ j.key = job[r].key /\ j.stage = "main"
  BY <1>1, NothingIsRecord DEF Job, NoJob
<1>3. pc' = [pc EXCEPT ![r] = o] /\ job' = [job EXCEPT ![r] = j]
  BY DEF Return, Goto
<1> HIDE DEF j
<1>4. QED BY <1>2, <1>3 DEF SessionTypeOK

\* What a request carries to the store.
LEMMA WriteJob ==
    ASSUME SessionTypeOK, NEW r \in Requests, NEW next \in Record,
           NEW removed \in SUBSET (Tokens \cup {None}), NEW then \in Outcomes \cup {"lease"},
           Write(r, next, removed, then),
           job[r].stage = "main" /\ then \in {"grant", "lease"} => next[job[r].key] \in Entry
    PROVE  /\ pc' = [pc EXCEPT ![r] = "put"] /\ job' \in [Requests -> Job]
           /\ job'[r].op = job[r].op /\ job'[r].key = job[r].key
           /\ job'[r].stage = job[r].stage /\ job'[r].tokens = job[r].tokens
           /\ job'[r].attempt = job[r].attempt /\ job[r].attempt < WriteAttempts
           /\ job'[r].next = next /\ job'[r].then = then
           /\ \A q \in Requests \ {r} : pc'[q] = pc[q] /\ job'[q] = job[q]
<1> DEFINE v == IF job[r].stage = "main" /\ then \in {"grant", "lease"}
                THEN job[r].verified \cup {<<next[job[r].key].access,
                                             IF then = "grant" THEN "live" ELSE "expired">>}
                ELSE job[r].verified
           p == job[r].pending \cap Refreshes(sessions)
           j == [job[r] EXCEPT !.next = next, !.removed = removed \ {None}, !.then = then,
                               !.pending = p, !.verified = v]
<1>1. job[r] \in Job
  BY DEF SessionTypeOK
<1>2. v \in SUBSET (Tokens \X {"live", "expired"})
  <2>1. job[r].verified \in SUBSET (Tokens \X {"live", "expired"})
    BY <1>1 DEF Job
  <2>2. ASSUME job[r].stage = "main", then \in {"grant", "lease"}
        PROVE  next[job[r].key].access \in Tokens
    BY <2>2 DEF Entry
  <2>3. QED BY <2>1, <2>2
<1>3. p \in SUBSET Tokens /\ removed \ {None} \in SUBSET Tokens
  BY <1>1 DEF Job
<1>4. pc' = [pc EXCEPT ![r] = "put"] /\ job' = [job EXCEPT ![r] = j] /\ job[r].attempt < WriteAttempts
  BY DEF Write, Goto
<1> HIDE DEF v, p
<1>5. /\ j \in Job /\ j.op = job[r].op /\ j.key = job[r].key /\ j.stage = job[r].stage
      /\ j.tokens = job[r].tokens /\ j.attempt = job[r].attempt /\ j.next = next /\ j.then = then
  BY <1>1, <1>2, <1>3 DEF Job, Record
<1> HIDE DEF j
<1>6. QED BY <1>4, <1>5 DEF SessionTypeOK

\* What a request carries into its next loop.
LEMMA AgainJob ==
    ASSUME SessionTypeOK, NEW r \in Requests, NEW label, NEW stage \in Decisions,
           NEW refresh \in Tokens \cup {None}, NEW tokens \in Pair \cup {None},
           Again(r, label, stage, refresh, tokens)
    PROVE  /\ pc' = [pc EXCEPT ![r] = label] /\ job' \in [Requests -> Job]
           /\ job'[r].op = job[r].op /\ job'[r].key = job[r].key
           /\ job'[r].stage = stage /\ job'[r].tokens = tokens /\ job'[r].refresh = refresh
           /\ \A q \in Requests \ {r} : pc'[q] = pc[q] /\ job'[q] = job[q]
<1> DEFINE j == [job[r] EXCEPT !.stage = stage, !.refresh = refresh, !.tokens = tokens,
                               !.proposed = now, !.attempt = 0, !.pending = {}, !.removed = {},
                               !.next = Nothing]
<1>1. job[r] \in Job /\ now \in Times /\ 0 \in 0..WriteAttempts
  BY SessionAssumption DEF SessionTypeOK
<1>2. pc' = [pc EXCEPT ![r] = label] /\ job' = [job EXCEPT ![r] = j]
  BY DEF Again, Goto
<1>3. /\ j \in Job /\ j.op = job[r].op /\ j.key = job[r].key /\ j.stage = stage
      /\ j.tokens = tokens /\ j.refresh = refresh
  BY <1>1, NothingIsRecord DEF Job, Record
<1> HIDE DEF j
<1>4. QED BY <1>2, <1>3 DEF SessionTypeOK

----------------------------------------------------------------------------
(* What one request's step leaves of the invariant *)

\* The only cookie that may be handed out is that of the request's own login.
Hands(r) == \/ delivered' = delivered
            \/ job[r].op = "begin" /\ pc[r] # "idle" /\ delivered' = delivered \cup {job[r].key}

\* A step that moves request r only, and moves it soundly.
Moves(r) ==
    /\ \A q \in Requests \ {r} : pc'[q] = pc[q] /\ job'[q] = job[q]
    /\ job'[r].op = job[r].op /\ job'[r].key = job[r].key
    /\ now' = now /\ Hands(r)
    /\ Carries(r)' /\ Writes(r)' /\ Sound(r)'

\* The record is left alone, or replaced by the sound write of request r.
Replaces(r) ==
    \/ sessions' = sessions /\ fresh' \subseteq fresh \cup {r}
    \/ r \in fresh /\ sessions' = job[r].next /\ fresh' = {}

\* The others keep what they carry, and their writes stay sound or lose their version.
LEMMA OthersKeep ==
    ASSUME SInv, NEW r \in Requests, Moves(r), Replaces(r)
    PROVE  \A q \in Requests : Carries(q)' /\ Writes(q)' /\ Sound(q)'
<1> SUFFICES ASSUME NEW q \in Requests, q # r
             PROVE  Carries(q)' /\ Writes(q)' /\ Sound(q)'
  BY DEF Moves
<1>1. pc'[q] = pc[q] /\ job'[q] = job[q] /\ now' = now
  BY DEF Moves
<1>2. Carries(q) /\ Writes(q) /\ Sound(q)
  BY DEF SInv
<1>3. delivered \subseteq delivered'
  BY DEF Moves, Hands
<1>4. pc[q] # "idle" /\ job[q].op = "begin" /\ job[q].key \notin delivered => job[q].key \notin delivered'
  <2>1. SUFFICES ASSUME pc[q] # "idle", job[q].op = "begin", job[q].key \notin delivered,
                        job[r].op = "begin", pc[r] # "idle", job[r].key = job[q].key
                 PROVE  FALSE
    BY DEF Moves, Hands
  <2>2. job[r].key \in Keys
    BY <1>2, <2>1 DEF Carries
  <2>3. QED BY <2>1, <2>2 DEF SInv, OwnKeys
<1>5. Carries(q)'
  BY <1>1, <1>2, <1>3, <1>4 DEF Carries
<1>6. Writes(q)'
  BY <1>1, <1>2 DEF Writes
<1>7. Sound(q)'
  BY <1>1, <1>2 DEF Sound, Replaces
<1>8. QED BY <1>5, <1>6, <1>7

\* Keys stay with their requests.
LEMMA KeysKept ==
    ASSUME SInv, NEW r \in Requests, Moves(r)
    PROVE  OwnKeys'
<1>1. \A q \in Requests : job'[q].op = job[q].op /\ job'[q].key = job[q].key
  BY DEF Moves
<1>2. OwnKeys
  BY DEF SInv
<1>3. delivered' \subseteq delivered \cup {job[r].key}
  BY DEF Moves, Hands
<1>4. QED BY <1>1, <1>2, <1>3 DEF OwnKeys

\* A sound write brings no closed session back.
LEMMA ReplacedGone ==
    ASSUME SInv, NEW r \in Requests, Replaces(r)
    PROVE  /\ \A k \in closed : sessions'[k] = None
           /\ Leased(sessions') /\ Bounded(sessions')
<1>1. CASE sessions' = sessions
  BY <1>1 DEF SInv, ClosedGone
<1>2. CASE r \in fresh /\ sessions' = job[r].next
  <2>1. Sound(r) /\ Writes(r) /\ Carries(r)
    BY DEF SInv
  <2>2. pc[r] \in {"put", "late"} /\ ByRight(job[r].op, job[r].key, sessions, job[r].next, now)
    BY <1>2, <2>1 DEF Sound
  <2>3. Leased(sessions') /\ Bounded(sessions')
    BY <1>2, <2>1, <2>2 DEF Sound, Writes
  <2>4. ASSUME NEW k \in closed PROVE sessions'[k] = None
    <3>1. k \in Keys /\ k \in delivered /\ sessions[k] = None
      BY DEF SInv, ClosedGone, SessionTypeOK
    <3>2. job[r].op = "begin" => job[r].key \notin delivered
      BY <2>1, <2>2 DEF Carries, Open
    <3>3. job[r].next[k] = sessions[k]
      BY <2>2, <3>1, <3>2 DEF ByRight
    <3>4. QED BY <1>2, <3>1, <3>3
  <2>5. QED BY <2>3, <2>4
<1>3. QED BY <1>1, <1>2 DEF Replaces

\* Together: a step of one request preserves the invariant.
LEMMA OneMoves ==
    ASSUME SInv, SessionTypeOK', NEW r \in Requests, Moves(r), Replaces(r),
           \A k \in closed' \ closed : k \in delivered' /\ sessions'[k] = None
    PROVE  SInv'
<1>1. \A q \in Requests : Carries(q)' /\ Writes(q)' /\ Sound(q)'
  BY OthersKeep
<1>2. /\ \A k \in closed : sessions'[k] = None
      /\ Leased(sessions') /\ Bounded(sessions')
  BY ReplacedGone
<1>3. closed \subseteq delivered /\ delivered \subseteq delivered'
  BY DEF SInv, ClosedGone, Moves, Hands
<1>4. ClosedGone'
  BY <1>2, <1>3 DEF ClosedGone
<1>5. OwnKeys'
  BY KeysKept
<1>6. QED BY <1>1, <1>2, <1>4, <1>5 DEF SInv, Leased, Bounded, Present

----------------------------------------------------------------------------
(* The three ends of a decision *)

LEMMA FaultsBounded == ASSUME SessionTypeOK, Fault PROVE faults' \in 0..MaxFaults
  BY SessionAssumption DEF SessionTypeOK, Fault

LEMMA RevokesTokens ==
    ASSUME SessionTypeOK, NEW set \in SUBSET (Tokens \cup {None}), Revoke(set)
    PROVE  revoked' \subseteq Tokens
  BY DEF SessionTypeOK, Revoke

LEMMA GoneAreTokens == ASSUME SessionTypeOK, NEW r \in Requests PROVE Gone(r) \subseteq Tokens
  BY DEF SessionTypeOK, Job, Gone

\* A decision writes nothing but what its request carries and what it revokes.
LEMMA DecisionTypes ==
    ASSUME SessionTypeOK, NEW r \in Requests, Load(r),
           pc' \in [Requests -> {"idle"} \cup Working \cup Stopped], job' \in [Requests -> Job],
           faults' \in 0..MaxFaults, revoked' \subseteq Tokens,
           delivered' \subseteq Keys, closed' \subseteq Keys
    PROVE  SessionTypeOK'
  BY DEF SessionTypeOK, Load

\* It returns.
LEMMA DecisionReturns ==
    ASSUME SInv, NEW r \in Requests, pc[r] = "decide", NEW o \in Outcomes, Return(r, o), Load(r),
           Hands(r)
    PROVE  /\ Moves(r) /\ Replaces(r)
           /\ pc' \in [Requests -> {"idle"} \cup Working \cup Stopped] /\ job' \in [Requests -> Job]
<1>1. SessionTypeOK /\ Carries(r) /\ Sound(r)
  BY DEF SInv
<1>2. /\ pc' = [pc EXCEPT ![r] = o] /\ job' \in [Requests -> Job]
      /\ job'[r].op = job[r].op /\ job'[r].key = job[r].key /\ job'[r].stage = "main"
      /\ \A q \in Requests \ {r} : pc'[q] = pc[q] /\ job'[q] = job[q]
  BY <1>1, ReturnJob DEF Stopped
<1>3. pc'[r] = o /\ pc' \in [Requests -> {"idle"} \cup Working \cup Stopped]
  BY <1>1, <1>2 DEF SessionTypeOK, Stopped
<1>4. o \notin Open /\ o # "idle" /\ o # "renew"
  BY DEF Outcomes, Open
<1>5. r \notin fresh /\ fresh' = fresh /\ sessions' = sessions /\ now' = now
  BY <1>1, <1>3, <1>4 DEF Sound, Load, Open
<1>6. Carries(r)'
  BY <1>1, <1>2, <1>3, <1>4 DEF Carries, Hands
<1>7. Writes(r)' /\ Sound(r)'
  BY <1>3, <1>4, <1>5 DEF Writes, Sound, Open
<1>8. Moves(r) /\ Replaces(r)
  BY <1>2, <1>5, <1>6, <1>7 DEF Moves, Replaces
<1>9. QED BY <1>2, <1>3, <1>8

\* It asks for a write its request has the right to.
LEMMA DecisionWrites ==
    ASSUME SInv, NEW r \in Requests, pc[r] = "decide", NEW next \in Record,
           NEW removed \in SUBSET (Tokens \cup {None}), NEW then \in Outcomes \cup {"lease"},
           Write(r, next, removed, then), Load(r), delivered' = delivered,
           job[r].stage = "main" /\ then \in {"grant", "lease"} => next[job[r].key] \in Entry,
           ByRight(job[r].op, job[r].key, sessions, next, now), Leased(next), Bounded(next),
           then = "created" => job[r].op = "begin",
           then = "lease" => job[r].op \in Access /\ next[job[r].key].refresh \in Tokens,
           then = "ended" => LogsOut(job[r].op, job[r].key, next)
    PROVE  /\ Moves(r) /\ Replaces(r)
           /\ pc' \in [Requests -> {"idle"} \cup Working \cup Stopped] /\ job' \in [Requests -> Job]
<1>1. SessionTypeOK /\ Carries(r)
  BY DEF SInv
<1>2. /\ pc' = [pc EXCEPT ![r] = "put"] /\ job' \in [Requests -> Job]
      /\ job'[r].op = job[r].op /\ job'[r].key = job[r].key
      /\ job'[r].stage = job[r].stage /\ job'[r].tokens = job[r].tokens
      /\ job'[r].attempt < WriteAttempts
      /\ job'[r].next = next /\ job'[r].then = then
      /\ \A q \in Requests \ {r} : pc'[q] = pc[q] /\ job'[q] = job[q]
  BY <1>1, WriteJob
<1>3. pc'[r] = "put" /\ pc' \in [Requests -> {"idle"} \cup Working \cup Stopped]
  BY <1>1, <1>2 DEF SessionTypeOK, Working
<1>4. fresh' = fresh \cup {r} /\ sessions' = sessions /\ now' = now
  BY <1>3 DEF Load
<1>5. Carries(r)'
  BY <1>1, <1>2, <1>3 DEF Carries, Open
<1>6. Writes(r)'
  BY <1>2 DEF Writes, Leased
<1>7. Sound(r)'
  BY <1>2, <1>3, <1>4 DEF Sound, ByRight, Bounded, Present, LogsOut, Ended
<1>8. Moves(r) /\ Replaces(r)
  BY <1>2, <1>4, <1>5, <1>6, <1>7 DEF Moves, Hands, Replaces
<1>9. QED BY <1>2, <1>3, <1>8

\* It begins its next loop: it looks again, or it renews.
LEMMA DecisionAgain ==
    ASSUME SInv, NEW r \in Requests, pc[r] = "decide", NEW label \in {"decide", "renew"},
           NEW refresh \in Tokens \cup {None}, Again(r, label, "main", refresh, None), Load(r),
           job[r].op \in Access, label = "renew" => refresh \in Tokens, delivered' = delivered
    PROVE  /\ Moves(r) /\ Replaces(r)
           /\ pc' \in [Requests -> {"idle"} \cup Working \cup Stopped] /\ job' \in [Requests -> Job]
<1>1. SessionTypeOK /\ Carries(r) /\ Sound(r)
  BY DEF SInv
<1>2. /\ pc' = [pc EXCEPT ![r] = label] /\ job' \in [Requests -> Job]
      /\ job'[r].op = job[r].op /\ job'[r].key = job[r].key
      /\ job'[r].stage = "main" /\ job'[r].refresh = refresh
      /\ \A q \in Requests \ {r} : pc'[q] = pc[q] /\ job'[q] = job[q]
  BY <1>1, AgainJob DEF Decisions
<1>3. pc'[r] = label /\ pc' \in [Requests -> {"idle"} \cup Working \cup Stopped]
  BY <1>1, <1>2 DEF SessionTypeOK, Working
<1>4. r \notin fresh /\ fresh' = fresh /\ sessions' = sessions /\ now' = now
  BY <1>1, <1>3 DEF Sound, Load
<1>5. Carries(r)'
  BY <1>1, <1>2, <1>3 DEF Carries, Access
<1>6. Writes(r)' /\ Sound(r)'
  BY <1>3, <1>4 DEF Writes, Sound
<1>7. Moves(r) /\ Replaces(r)
  BY <1>2, <1>4, <1>5, <1>6 DEF Moves, Hands, Replaces
<1>8. QED BY <1>2, <1>3, <1>7

----------------------------------------------------------------------------
(* The decisions *)

\* A record with fewer sessions, or with the same ones changed, stays within the cap.
LEMMA FewerBounded ==
    ASSUME NEW s \in Record, NEW t \in Record, Bounded(s), Present(t) \subseteq Present(s)
    PROVE  Bounded(t)
<1>1. IsFiniteSet(Present(s)) /\ Cardinality(Present(s)) <= SessionCap
  BY DEF Bounded
<1>2. IsFiniteSet(Present(t)) /\ Cardinality(Present(t)) <= Cardinality(Present(s))
  BY <1>1, FS_Subset
<1>3. Cardinality(Present(s)) \in Nat /\ Cardinality(Present(t)) \in Nat
  BY <1>1, <1>2, FS_CardinalityType
<1>4. QED BY <1>1, <1>2, <1>3, SessionAssumption DEF Bounded

\* The request removes its own session.
LEMMA Removes ==
    ASSUME SInv, NEW r \in Requests, pc[r] = "decide", job[r].key \in Keys,
           sessions[job[r].key] # None, Remove(r), Load(r), delivered' = delivered
    PROVE  /\ Moves(r) /\ Replaces(r)
           /\ pc' \in [Requests -> {"idle"} \cup Working \cup Stopped] /\ job' \in [Requests -> Job]
<1> DEFINE k == job[r].key
           next == [sessions EXCEPT ![k] = None]
           removed == {sessions[k].refresh}
<1>1. sessions \in Record /\ Leased(sessions) /\ Bounded(sessions)
  BY DEF SInv, SessionTypeOK, Record
<1>2. next \in Record /\ removed \in SUBSET (Tokens \cup {None}) /\ next[k] = None
  BY <1>1 DEF Record, Entry
<1>3. ByRight(job[r].op, k, sessions, next, now) /\ Leased(next) /\ Present(next) \subseteq Present(sessions)
  BY <1>1 DEF Record, ByRight, Leased, Present
<1>4. Bounded(next)
  BY <1>1, <1>2, <1>3, FewerBounded
<1>5. Write(r, next, removed, "signin")
  BY DEF Remove
<1> HIDE DEF next, removed
<1>6. QED BY <1>2, <1>3, <1>4, <1>5, DecisionWrites DEF Outcomes

\* The request changes its own session and keeps what a lease needs.
LEMMA Changes ==
    ASSUME SInv, NEW r \in Requests, pc[r] = "decide", NEW e \in Entry, NEW then \in {"grant", "lease"},
           job[r].key \in Keys, sessions[job[r].key] # None,
           Write(r, [sessions EXCEPT ![job[r].key] = e], {}, then), Load(r), delivered' = delivered,
           e.lease # None => e.refresh \in Tokens,
           then = "lease" => job[r].op \in Access /\ e.refresh \in Tokens
    PROVE  /\ Moves(r) /\ Replaces(r)
           /\ pc' \in [Requests -> {"idle"} \cup Working \cup Stopped] /\ job' \in [Requests -> Job]
<1> DEFINE k == job[r].key
           next == [sessions EXCEPT ![k] = e]
<1>1. sessions \in Record /\ Leased(sessions) /\ Bounded(sessions)
  BY DEF SInv, SessionTypeOK, Record
<1>2. next \in Record /\ next[k] = e
  BY <1>1 DEF Record
<1>3. ByRight(job[r].op, k, sessions, next, now) /\ Leased(next) /\ Present(next) \subseteq Present(sessions)
  BY <1>1 DEF Record, ByRight, Leased, Present
<1>4. Bounded(next)
  BY <1>1, <1>2, <1>3, FewerBounded
<1>5. {} \in SUBSET (Tokens \cup {None}) /\ then \in Outcomes \cup {"lease"} /\ then # "created" /\ then # "ended"
  BY DEF Outcomes
<1> HIDE DEF next
<1>6. QED BY <1>2, <1>3, <1>4, <1>5, DecisionWrites DEF next

LEMMA OnePresent == ASSUME NEW s \in Record, NEW k \in Keys, s[k] # None PROVE s[k] \in Entry
  BY DEF Record

LEMMA DecideBeginKeeps == ASSUME SInv, NEW r \in Requests, DecideBegin(r) PROVE SInv'
<1> DEFINE k == job[r].key
           entry == NewEntry(job[r].tokens, job[r].proposed)
           live == {j \in Present(sessions) : ~Ended(sessions[j], now)}
           next == [j \in Keys |-> IF j = k THEN entry ELSE IF j \in live THEN sessions[j] ELSE None]
<1>1. SessionTypeOK /\ Carries(r) /\ sessions \in Record /\ Leased(sessions) /\ Bounded(sessions)
  BY DEF SInv, SessionTypeOK, Record
<1>2. pc[r] = "decide" /\ job[r].op = "begin" /\ k \in Keys /\ job[r].tokens \in Pair /\ job[r] \in Job
  BY <1>1 DEF DecideBegin, Carries, SessionTypeOK, Open
<1>3. /\ Moves(r) /\ Replaces(r) /\ delivered' \subseteq Keys
      /\ pc' \in [Requests -> {"idle"} \cup Working \cup Stopped] /\ job' \in [Requests -> Job]
  <2>1. delivered \subseteq Keys /\ Load(r)
    BY <1>1 DEF SessionTypeOK, DecideBegin
  <2>2. ASSUME NEW o \in Outcomes, Return(r, o), Hands(r)
        PROVE  /\ Moves(r) /\ Replaces(r) /\ delivered' \subseteq Keys
               /\ pc' \in [Requests -> {"idle"} \cup Working \cup Stopped] /\ job' \in [Requests -> Job]
    BY <1>2, <2>1, <2>2, DecisionReturns DEF Hands
  <2>3. CASE \/ Return(r, "created") /\ delivered' = delivered \cup {k}
             \/ Return(r, "limit") /\ delivered' = delivered
    <3>1. Hands(r) /\ "created" \in Outcomes /\ "limit" \in Outcomes
      BY <1>2, <2>3 DEF Hands, Outcomes
    <3>2. QED BY <2>2, <2>3, <3>1
  <2>4. CASE /\ sessions[k] = None /\ Cardinality(live) < SessionCap
             /\ Write(r, next, {}, "created") /\ delivered' = delivered
    <3>1. entry \in Entry /\ entry.lease = None
      BY <1>2 DEF NewEntry, Entry, Pair, Job
    <3>2. next \in Record
      BY <1>1, <3>1 DEF Record, Present
    <3>3. ByRight(job[r].op, k, sessions, next, now)
      BY <1>2 DEF ByRight, Present
    <3>4. Leased(next)
      BY <1>1, <3>1 DEF Leased, Present
    <3>5. Bounded(next)
      <4>1. live \subseteq Present(sessions) /\ IsFiniteSet(Present(sessions))
        BY <1>1 DEF Bounded
      <4>2. IsFiniteSet(live)
        BY <4>1, FS_Subset
      <4>3. IsFiniteSet(live \cup {k}) /\ Cardinality(live \cup {k}) <= SessionCap
        <5> HIDE DEF live
        <5>1. Cardinality(live) \in Nat
          BY <4>2, FS_CardinalityType
        <5>2. /\ IsFiniteSet(live \cup {k})
              /\ Cardinality(live \cup {k}) = Cardinality(live)
                 \/ Cardinality(live \cup {k}) = Cardinality(live) + 1
          BY <4>2, FS_AddElement
        <5>3. QED BY <2>4, <5>1, <5>2, SessionAssumption
      <4>4. Present(next) \subseteq live \cup {k}
        BY DEF Present
      <4>5. IsFiniteSet(Present(next)) /\ Cardinality(Present(next)) <= Cardinality(live \cup {k})
        BY <4>3, <4>4, FS_Subset
      <4>6. Cardinality(Present(next)) \in Nat /\ Cardinality(live \cup {k}) \in Nat
        BY <4>3, <4>5, FS_CardinalityType
      <4>7. QED BY <4>3, <4>5, <4>6, SessionAssumption DEF Bounded
    <3>6. Load(r) /\ {} \in SUBSET (Tokens \cup {None}) /\ "created" \in Outcomes \cup {"lease"}
      BY DEF DecideBegin, Outcomes
    <3> HIDE DEF next
    <3>7. QED BY <1>2, <2>1, <2>4, <3>2, <3>3, <3>4, <3>5, <3>6, DecisionWrites
  <2>5. QED BY <2>3, <2>4 DEF DecideBegin
<1>4. revoked' \subseteq Tokens
  BY <1>1, GoneAreTokens, RevokesTokens DEF DecideBegin
<1>5. Load(r) /\ faults' = faults /\ closed' = closed
  BY DEF DecideBegin
<1>6. SessionTypeOK'
  BY <1>1, <1>3, <1>4, <1>5, DecisionTypes DEF SessionTypeOK
<1>7. QED BY <1>3, <1>5, <1>6, OneMoves

LEMMA DecideEndKeeps == ASSUME SInv, NEW r \in Requests, DecideEnd(r) PROVE SInv'
<1> DEFINE k == job[r].key
           gone == IF job[r].op = "all" THEN Present(sessions) ELSE {k} \cap Present(sessions)
           next == [j \in Keys |-> IF j \in gone THEN None ELSE sessions[j]]
           removed == {sessions[j].refresh : j \in gone}
<1>1. SessionTypeOK /\ Carries(r) /\ sessions \in Record /\ Leased(sessions) /\ Bounded(sessions)
  BY DEF SInv, SessionTypeOK, Record
<1>2. pc[r] = "decide" /\ job[r].op \in {"device", "all"} /\ k \in delivered /\ k \in Keys /\ Load(r)
  BY <1>1 DEF DecideEnd, Carries
<1>3. delivered' = delivered /\ faults' = faults
  BY DEF DecideEnd
<1>4. /\ Moves(r) /\ Replaces(r) /\ \A j \in closed' \ closed : j \in delivered' /\ sessions'[j] = None
      /\ pc' \in [Requests -> {"idle"} \cup Working \cup Stopped] /\ job' \in [Requests -> Job]
  <2>1. CASE gone = {} /\ Return(r, "ended") /\ closed' = closed \cup Closes(r)
    <3>1. "ended" \in Outcomes
      BY DEF Outcomes
    <3>2. \A j \in Closes(r) : j \in delivered /\ j \in Keys
      BY <1>1, <1>2 DEF Closes, SessionTypeOK
    <3>3. \A j \in Closes(r) : sessions[j] = None
      BY <2>1, <1>2, <3>2 DEF Closes, Present
    <3>4. sessions' = sessions
      BY <1>2 DEF Load
    <3>5. Moves(r) /\ Replaces(r)
      BY <1>2, <1>3, <2>1, <3>1, DecisionReturns DEF Hands
    <3>6. QED BY <1>2, <1>3, <2>1, <3>1, <3>2, <3>3, <3>4, <3>5, DecisionReturns DEF Hands
  <2>2. CASE Write(r, next, removed, "ended") /\ closed' = closed
    <3>1. gone \subseteq Present(sessions) /\ Present(sessions) \subseteq Keys
      BY DEF Present
    <3>2. next \in Record /\ removed \in SUBSET (Tokens \cup {None})
      BY <1>1, <3>1 DEF Record, Present, Entry
    <3>3. ByRight(job[r].op, k, sessions, next, now)
      BY <3>1 DEF ByRight, Present
    <3>4. Leased(next) /\ Present(next) \subseteq Present(sessions)
      BY <1>1 DEF Leased, Present
    <3>5. Bounded(next)
      BY <1>1, <3>2, <3>4, FewerBounded
    <3>6. LogsOut(job[r].op, k, next)
      BY <1>2 DEF LogsOut, Present
    <3>7. "ended" \in Outcomes \cup {"lease"}
      BY DEF Outcomes
    <3> HIDE DEF next, removed
    <3>8. QED BY <1>2, <1>3, <2>2, <3>2, <3>3, <3>4, <3>5, <3>6, <3>7, DecisionWrites
  <2>3. QED BY <2>1, <2>2 DEF DecideEnd
<1>5. revoked' \subseteq Tokens
  BY <1>1, GoneAreTokens, RevokesTokens DEF DecideEnd
<1>6. delivered' \subseteq Keys /\ closed' \subseteq Keys /\ faults' \in 0..MaxFaults
  BY <1>1, <1>2, <1>3 DEF SessionTypeOK, DecideEnd, Closes
<1>7. SessionTypeOK'
  BY <1>1, <1>2, <1>4, <1>5, <1>6, DecisionTypes
<1>8. QED BY <1>4, <1>7, OneMoves

\* What every decision about an access has in common.
LEMMA AccessKeeps ==
    ASSUME SInv, NEW r \in Requests, Moves(r), Replaces(r), Load(r), UNCHANGED ghosts,
           pc' \in [Requests -> {"idle"} \cup Working \cup Stopped], job' \in [Requests -> Job],
           NEW set \in SUBSET (Tokens \cup {None}), Revoke(set), faults' = faults \/ Fault
    PROVE  SInv'
<1>1. SessionTypeOK /\ delivered' = delivered /\ closed' = closed
  BY DEF SInv, ghosts
<1>2. faults' \in 0..MaxFaults /\ revoked' \subseteq Tokens
  BY <1>1, FaultsBounded, RevokesTokens DEF SessionTypeOK
<1>3. SessionTypeOK'
  BY <1>1, <1>2, DecisionTypes DEF SessionTypeOK
<1>4. QED BY <1>1, <1>3, OneMoves

LEMMA AccessCarries ==
    ASSUME SInv, NEW r \in Requests, Authorizing(r)
    PROVE  /\ pc[r] = "decide" /\ job[r].op \in Access /\ job[r].key \in Keys /\ Revoke(Gone(r))
           /\ Gone(r) \in SUBSET (Tokens \cup {None}) /\ UNCHANGED ghosts /\ delivered' = delivered
           /\ sessions[job[r].key] # None => sessions[job[r].key] \in Entry
<1>1. SessionTypeOK /\ Carries(r)
  BY DEF SInv
<1>2. pc[r] = "decide" /\ job[r].op \in Access /\ Revoke(Gone(r)) /\ UNCHANGED ghosts
  BY DEF Authorizing, Access
<1>3. job[r].key \in Keys
  BY <1>1, <1>2 DEF Carries
<1>4. QED BY <1>1, <1>2, <1>3, GoneAreTokens DEF SessionTypeOK, ghosts

LEMMA DecideEndedKeeps == ASSUME SInv, NEW r \in Requests, DecideEnded(r) PROVE SInv'
<1>1. Authorizing(r) /\ Load(r) /\ faults' = faults /\ "signin" \in Outcomes
  BY DEF DecideEnded, Outcomes
<1>2. CASE Return(r, "signin")
  <2>1. Hands(r)
    BY <1>1, AccessCarries DEF Hands
  <2>2. /\ Moves(r) /\ Replaces(r)
        /\ pc' \in [Requests -> {"idle"} \cup Working \cup Stopped] /\ job' \in [Requests -> Job]
    BY <1>1, <1>2, <2>1, AccessCarries, DecisionReturns
  <2>3. QED BY <1>1, <2>2, AccessCarries, AccessKeeps
<1>3. CASE sessions[job[r].key] # None /\ Remove(r)
  BY <1>1, <1>3, AccessCarries, AccessKeeps, Removes
<1>4. QED BY <1>2, <1>3 DEF DecideEnded

LEMMA DecideLeasedKeeps == ASSUME SInv, NEW r \in Requests, DecideLeased(r) PROVE SInv'
<1> DEFINE e == sessions[job[r].key]
<1>1. Authorizing(r) /\ Load(r) /\ faults' = faults /\ e # None
  BY DEF DecideLeased
<1>2. CASE e.lease = r /\ Again(r, "renew", "main", e.refresh, None)
  <2>1. e.refresh \in Tokens
    <3>1. Leased(sessions) /\ job[r].key \in Keys /\ r # None
      BY <1>1, AccessCarries, SessionAssumption DEF SInv
    <3>2. QED BY <1>1, <1>2, <3>1 DEF Leased
  <2>2. QED BY <1>1, <1>2, <2>1, AccessCarries, AccessKeeps, DecisionAgain
<1>3. CASE Again(r, "decide", "main", None, None)
  BY <1>1, <1>3, AccessCarries, AccessKeeps, DecisionAgain
<1>4. QED BY <1>2, <1>3 DEF DecideLeased

LEMMA DecideTokenKeeps == ASSUME SInv, NEW r \in Requests, DecideToken(r) PROVE SInv'
<1> DEFINE k == job[r].key
           e == sessions[k]
<1>1. SessionTypeOK /\ Authorizing(r) /\ Load(r) /\ e # None /\ e.renewing = None /\ (faults' = faults \/ Fault)
  BY DEF DecideToken, SInv
<1>2. /\ pc[r] = "decide" /\ job[r].op \in Access /\ k \in Keys /\ Revoke(Gone(r))
      /\ Gone(r) \in SUBSET (Tokens \cup {None}) /\ UNCHANGED ghosts /\ delivered' = delivered /\ e \in Entry
  BY <1>1, AccessCarries
<1>3. now \in Times /\ job[r].proposed \in Times
  BY <1>1 DEF SessionTypeOK, Job
<1>4. e.lease # None => e.refresh \in Tokens
  BY <1>1, <1>2 DEF SInv, Leased
<1>5. SUFFICES /\ Moves(r) /\ Replaces(r)
               /\ pc' \in [Requests -> {"idle"} \cup Working \cup Stopped] /\ job' \in [Requests -> Job]
  BY <1>1, <1>2, AccessKeeps
<1>6. CASE Remove(r)
  BY <1>1, <1>2, <1>6, Removes
<1>7. CASE e.refresh # None /\ Write(r, [sessions EXCEPT ![k] = [e EXCEPT !.renewing = now, !.lease = r]], {}, "lease")
  <2> DEFINE d == [e EXCEPT !.renewing = now, !.lease = r]
  <2>1. d \in Entry /\ d.refresh = e.refresh /\ e.refresh \in Tokens
    BY <1>2, <1>3, <1>7, EntryEdits DEF Entry
  <2> HIDE DEF d
  <2>2. QED BY <1>1, <1>2, <1>7, <2>1, Changes DEF d
<1>8. CASE Write(r, [sessions EXCEPT ![k] = [e EXCEPT !.seen = job[r].proposed]], {}, "grant")
  <2> DEFINE d == [e EXCEPT !.seen = job[r].proposed]
  <2>1. d \in Entry /\ d.refresh = e.refresh /\ d.lease = e.lease
    BY <1>2, <1>3, EntryEdits
  <2> HIDE DEF d
  <2>2. QED BY <1>1, <1>2, <1>4, <1>8, <2>1, Changes DEF d
<1>9. CASE Return(r, "grant")
  <2>1. Hands(r) /\ "grant" \in Outcomes
    BY <1>2 DEF Hands, Outcomes
  <2>2. QED BY <1>1, <1>2, <1>9, <2>1, DecisionReturns
<1>10. QED BY <1>6, <1>7, <1>8, <1>9 DEF DecideToken

LEMMA DecideDropKeeps == ASSUME SInv, NEW r \in Requests, DecideDrop(r) PROVE SInv'
<1> DEFINE issuedTo == IF job[r].tokens = None THEN None ELSE job[r].tokens.refresh
<1>1. SessionTypeOK /\ Carries(r) /\ Load(r) /\ pc[r] = "decide" /\ job[r].stage = "drop"
  BY DEF DecideDrop, SInv
<1>2. UNCHANGED ghosts /\ delivered' = delivered /\ faults' = faults
  BY DEF DecideDrop, calm, ghosts
<1>3. job[r].key \in Keys
  BY <1>1 DEF Carries
<1>4. Gone(r) \in SUBSET (Tokens \cup {None}) /\ Gone(r) \cup {issuedTo} \in SUBSET (Tokens \cup {None})
  <2>1. job[r].tokens \in Pair \cup {None}
    BY <1>1 DEF SessionTypeOK, Job
  <2>2. issuedTo \in Tokens \cup {None}
    BY <2>1 DEF Pair
  <2>3. QED BY <1>1, <2>2, GoneAreTokens
<1>5. CASE Return(r, "signin") /\ Revoke(Gone(r) \cup {issuedTo})
  <2>1. Hands(r) /\ "signin" \in Outcomes
    BY <1>2 DEF Hands, Outcomes
  <2>2. /\ Moves(r) /\ Replaces(r)
        /\ pc' \in [Requests -> {"idle"} \cup Working \cup Stopped] /\ job' \in [Requests -> Job]
    BY <1>1, <1>5, <2>1, DecisionReturns
  <2>3. QED BY <1>1, <1>2, <1>4, <1>5, <2>2, AccessKeeps
<1>6. CASE Mine(r) /\ Remove(r) /\ Revoke(Gone(r))
  <2>1. sessions[job[r].key] # None
    BY <1>6 DEF Mine
  <2>2. /\ Moves(r) /\ Replaces(r)
        /\ pc' \in [Requests -> {"idle"} \cup Working \cup Stopped] /\ job' \in [Requests -> Job]
    BY <1>1, <1>2, <1>3, <1>6, <2>1, Removes
  <2>3. QED BY <1>1, <1>2, <1>4, <1>6, <2>2, AccessKeeps
<1>7. QED BY <1>5, <1>6 DEF DecideDrop

LEMMA DecideSettleKeeps == ASSUME SInv, NEW r \in Requests, DecideSettle(r) PROVE SInv'
<1> DEFINE k == job[r].key
           e == sessions[k]
           t == job[r].tokens
           seen == IF Touches(r, e) THEN job[r].proposed ELSE e.seen
           refresh == IF t.refresh = None THEN e.refresh ELSE t.refresh
           d == [e EXCEPT !.access = t.access, !.refresh = refresh,
                          !.renewing = None, !.lease = None, !.seen = seen]
<1>1. SessionTypeOK /\ Carries(r) /\ Load(r) /\ pc[r] = "decide" /\ job[r].stage = "settle"
  BY DEF DecideSettle, SInv
<1>2. UNCHANGED ghosts /\ delivered' = delivered /\ faults' = faults
  BY DEF DecideSettle, calm, ghosts
<1>3. k \in Keys /\ t \in Pair
  BY <1>1 DEF Carries
<1>4. Gone(r) \in SUBSET (Tokens \cup {None}) /\ Gone(r) \cup {t.refresh} \in SUBSET (Tokens \cup {None})
  BY <1>1, <1>3, GoneAreTokens DEF Pair
<1>5. ASSUME NEW o \in {"grant", "signin"}, Return(r, o), NEW set \in SUBSET (Tokens \cup {None}), Revoke(set)
      PROVE  SInv'
  <2>1. Hands(r) /\ o \in Outcomes
    BY <1>2 DEF Hands, Outcomes
  <2>2. /\ Moves(r) /\ Replaces(r)
        /\ pc' \in [Requests -> {"idle"} \cup Working \cup Stopped] /\ job' \in [Requests -> Job]
    BY <1>1, <1>5, <2>1, DecisionReturns
  <2>3. QED BY <1>1, <1>2, <1>5, <2>2, AccessKeeps
<1>6. CASE Mine(r) /\ Write(r, [sessions EXCEPT ![k] = d], {}, "grant") /\ Revoke(Gone(r))
  <2>1. e # None /\ e \in Entry
    BY <1>1, <1>3, <1>6 DEF Mine, SessionTypeOK
  <2>2. refresh \in Tokens \cup {None} /\ t.access \in Tokens
    BY <1>3, <2>1 DEF Entry, Pair
  <2>3. seen \in Times
    BY <1>1, <2>1 DEF SessionTypeOK, Job, Entry
  <2> HIDE DEF refresh, seen
  <2>4. d \in Entry /\ d.lease = None
    <3> HIDE DEF e, t
    <3>1. QED BY <2>1, <2>2, <2>3 DEF Entry
  <2> HIDE DEF d
  <2>5. /\ Moves(r) /\ Replaces(r)
        /\ pc' \in [Requests -> {"idle"} \cup Working \cup Stopped] /\ job' \in [Requests -> Job]
    BY <1>1, <1>2, <1>3, <1>6, <2>1, <2>4, Changes
  <2>6. QED BY <1>1, <1>2, <1>4, <1>6, <2>5, AccessKeeps
<1>7. QED BY <1>4, <1>5, <1>6 DEF DecideSettle

----------------------------------------------------------------------------
(* Writes, errors and late answers *)

\* A request that is done, or has failed, no longer holds a version.
LEMMA ReturnsAnywhere ==
    ASSUME SInv, NEW r \in Requests, pc[r] # "idle", NEW o \in Outcomes \cup {"failed"}, Return(r, o),
           r \notin fresh', Hands(r), now' = now
    PROVE  /\ Moves(r) /\ pc' \in [Requests -> {"idle"} \cup Working \cup Stopped]
           /\ job' \in [Requests -> Job] /\ pc'[r] = o
<1>1. SessionTypeOK /\ Carries(r)
  BY DEF SInv
<1>2. /\ pc' = [pc EXCEPT ![r] = o] /\ job' \in [Requests -> Job]
      /\ job'[r].op = job[r].op /\ job'[r].key = job[r].key /\ job'[r].stage = "main"
      /\ \A q \in Requests \ {r} : pc'[q] = pc[q] /\ job'[q] = job[q]
  BY <1>1, ReturnJob DEF Stopped
<1>3. pc'[r] = o /\ pc' \in [Requests -> {"idle"} \cup Working \cup Stopped]
  BY <1>1, <1>2 DEF SessionTypeOK, Stopped
<1>4. o \notin Open /\ o # "idle" /\ o # "renew"
  BY DEF Outcomes, Open
<1>5. Carries(r)'
  BY <1>1, <1>2, <1>3, <1>4 DEF Carries, Hands
<1>6. Writes(r)' /\ Sound(r)'
  BY <1>3, <1>4 DEF Writes, Sound, Open
<1>7. Moves(r)
  BY <1>2, <1>5, <1>6 DEF Moves
<1>8. QED BY <1>2, <1>3, <1>7

\* A request that is working, begins its next loop.
LEMMA AgainAnywhere ==
    ASSUME SInv, NEW r \in Requests, pc[r] # "idle", NEW label \in {"decide", "renew"},
           NEW stage \in Decisions, NEW refresh \in Tokens, NEW tokens \in Pair \cup {None},
           Again(r, label, stage, refresh, tokens), job[r].op \in Access,
           stage = "settle" => tokens \in Pair, r \notin fresh', delivered' = delivered, now' = now
    PROVE  /\ Moves(r) /\ pc' \in [Requests -> {"idle"} \cup Working \cup Stopped]
           /\ job' \in [Requests -> Job] /\ pc'[r] = label
<1>1. SessionTypeOK /\ Carries(r)
  BY DEF SInv
<1>2. /\ pc' = [pc EXCEPT ![r] = label] /\ job' \in [Requests -> Job]
      /\ job'[r].op = job[r].op /\ job'[r].key = job[r].key
      /\ job'[r].stage = stage /\ job'[r].tokens = tokens /\ job'[r].refresh = refresh
      /\ \A q \in Requests \ {r} : pc'[q] = pc[q] /\ job'[q] = job[q]
  BY <1>1, AgainJob
<1>3. pc'[r] = label /\ pc' \in [Requests -> {"idle"} \cup Working \cup Stopped]
  BY <1>1, <1>2 DEF SessionTypeOK, Working
<1>4. Carries(r)'
  BY <1>1, <1>2, <1>3 DEF Carries, Access
<1>5. Writes(r)' /\ Sound(r)'
  BY <1>3 DEF Writes, Sound
<1>6. Moves(r)
  BY <1>2, <1>4, <1>5 DEF Moves, Hands
<1>7. QED BY <1>2, <1>3, <1>6

\* A record replaced by a request's write is a record.
LEMMA StoreTypes ==
    ASSUME SessionTypeOK, NEW r \in Requests, Store(r)
    PROVE  /\ sessions' \in Record /\ fresh' = {} /\ dropped' \subseteq Keys
           /\ sessions' = job[r].next
<1>1. job[r].next \in Record
  BY DEF SessionTypeOK, Job, Record
<1>2. QED BY <1>1 DEF SessionTypeOK, Store, Present

LEMMA StoredKeeps == ASSUME SInv, NEW r \in Requests, Stored(r) PROVE SInv'
<1>1. /\ SessionTypeOK /\ Carries(r) /\ Writes(r) /\ Sound(r) /\ ClosedGone
      /\ pc[r] = "put" /\ r \in fresh /\ now' = now /\ job[r] \in Job
      /\ issued' = issued /\ expired' = expired /\ spent' = spent /\ faults' = faults
  BY DEF Stored, SInv, SessionTypeOK
<1>2. sessions' \in Record /\ fresh' = {} /\ dropped' \subseteq Keys /\ sessions' = job[r].next
  BY <1>1, StoreTypes DEF Stored
<1>3. Replaces(r)
  BY <1>1, <1>2 DEF Replaces
<1>4. Hands(r) /\ delivered' \subseteq Keys /\ delivered \subseteq delivered'
  BY <1>1 DEF Stored, Hands, Writes, Carries, SessionTypeOK
<1>5. Moves(r) /\ pc' \in [Requests -> {"idle"} \cup Working \cup Stopped] /\ job' \in [Requests -> Job]
  <2>1. CASE job[r].then = "lease"
    <3>1. job[r].op \in Access /\ job[r].next[job[r].key].refresh \in Tokens
      BY <1>1, <2>1 DEF Writes
    <3>2. Again(r, "renew", "main", job[r].next[job[r].key].refresh, None) /\ delivered' = delivered
      BY <2>1 DEF Stored
    <3>3. "main" \in Decisions /\ None \in Pair \cup {None}
      BY DEF Decisions
    <3>4. QED BY <1>1, <1>2, <3>1, <3>2, <3>3, AgainAnywhere
  <2>2. CASE job[r].then # "lease"
    <3>1. job[r].then \in Outcomes \cup {"failed"}
      BY <1>1, <2>2 DEF Job
    <3>2. Return(r, job[r].then)
      BY <2>2 DEF Stored
    <3>3. QED BY <1>1, <1>2, <1>4, <3>1, <3>2, ReturnsAnywhere
  <2>3. QED BY <2>1, <2>2
<1>6. closed' \subseteq Keys /\ \A k \in closed' \ closed : k \in delivered' /\ sessions'[k] = None
  <2>1. CASE job[r].then = "ended"
    <3>1. LogsOut(job[r].op, job[r].key, job[r].next) /\ closed' = closed \cup Closes(r)
      BY <1>1, <2>1 DEF Sound, Stored
    <3>2. job[r].op # "begin" /\ job[r].key \in delivered /\ delivered \subseteq Keys
      BY <1>1, <3>1 DEF LogsOut, Carries, SessionTypeOK
    <3>3. \A k \in Closes(r) : k \in delivered /\ k \in Keys /\ job[r].next[k] = None
      BY <3>1, <3>2 DEF LogsOut, Closes
    <3>4. QED BY <1>1, <1>2, <1>4, <3>1, <3>3 DEF SessionTypeOK
  <2>2. CASE job[r].then # "ended"
    BY <1>1, <2>2 DEF Stored, SessionTypeOK
  <2>3. QED BY <2>1, <2>2
<1>7. revoked' \subseteq Tokens
  <2>1. Freed(r) \in SUBSET (Tokens \cup {None})
    BY <1>1 DEF Freed, Job, Pair
  <2>2. QED BY <1>1, <2>1, RevokesTokens DEF Stored
<1>8. SessionTypeOK'
  BY <1>1, <1>2, <1>4, <1>5, <1>6, <1>7 DEF SessionTypeOK, Record
<1>9. QED BY <1>3, <1>5, <1>6, <1>8, OneMoves

\* However a write ends, it leaves a record that it had the right to leave.
LEMMA StoredOrKept ==
    ASSUME SInv, NEW r \in Requests, (r \in fresh /\ Store(r)) \/ Keep(r)
    PROVE  /\ Replaces(r) /\ r \notin fresh' /\ fresh' \subseteq Requests
           /\ sessions' \in Record /\ dropped' \subseteq Keys
<1>1. SessionTypeOK
  BY DEF SInv
<1>2. CASE r \in fresh /\ Store(r)
  BY <1>1, <1>2, StoreTypes DEF Replaces
<1>3. CASE Keep(r)
  BY <1>1, <1>3 DEF Keep, Replaces, SessionTypeOK, Record
<1>4. QED BY <1>2, <1>3

LEMMA ConflictKeeps == ASSUME SInv, NEW r \in Requests, Conflict(r) PROVE SInv'
<1> DEFINE j == [job[r] EXCEPT !.attempt = job[r].attempt + 1, !.pending = job[r].pending \cup job[r].removed,
                               !.removed = {}, !.next = Nothing]
<1>1. /\ SessionTypeOK /\ Carries(r) /\ Writes(r) /\ pc[r] = "put" /\ job[r] \in Job
      /\ UNCHANGED <<now, provider, ghosts>>
  BY DEF Conflict, SInv, SessionTypeOK
<1>2. job[r].attempt + 1 \in 0..WriteAttempts
  BY <1>1, SessionAssumption DEF Writes, Job
<1>3. /\ j \in Job /\ j.op = job[r].op /\ j.key = job[r].key /\ j.stage = job[r].stage
      /\ j.tokens = job[r].tokens
  BY <1>1, <1>2, NothingIsRecord DEF Job, Record
<1>4. pc' = [pc EXCEPT ![r] = "decide"] /\ job' = [job EXCEPT ![r] = j]
  BY DEF Conflict, Goto
<1>5. (r \in fresh /\ Store(r)) \/ Keep(r)
  BY DEF Conflict
<1>6. /\ Replaces(r) /\ r \notin fresh' /\ fresh' \subseteq Requests
      /\ sessions' \in Record /\ dropped' \subseteq Keys
  BY <1>5, StoredOrKept
<1> HIDE DEF j
<1>7. /\ pc'[r] = "decide" /\ job'[r] = j /\ job' \in [Requests -> Job]
      /\ pc' \in [Requests -> {"idle"} \cup Working \cup Stopped]
      /\ \A q \in Requests \ {r} : pc'[q] = pc[q] /\ job'[q] = job[q]
  BY <1>1, <1>3, <1>4 DEF SessionTypeOK, Working
<1>8. Carries(r)'
  BY <1>1, <1>3, <1>7 DEF Carries, Open, ghosts
<1>9. Moves(r)
  BY <1>1, <1>3, <1>6, <1>7, <1>8 DEF Moves, Hands, Writes, Sound, ghosts
<1>10. faults' \in 0..MaxFaults
  BY <1>1, FaultsBounded DEF Conflict, SessionTypeOK
<1>11. SessionTypeOK'
  BY <1>1, <1>6, <1>7, <1>10 DEF SessionTypeOK, Record, provider, ghosts
<1>12. QED BY <1>1, <1>6, <1>9, <1>11, OneMoves DEF ghosts

\* What ends a request that had asked for a write, or was about to.
LEMMA EndsKeep ==
    ASSUME SInv, NEW r \in Requests, pc[r] # "idle", Return(r, "failed"), Replaces(r), r \notin fresh',
           fresh' \subseteq Requests, sessions' \in Record, dropped' \subseteq Keys,
           UNCHANGED <<now, issued, expired, ghosts>>, revoked' \subseteq Tokens, spent' \subseteq Tokens,
           faults' \in 0..MaxFaults
    PROVE  SInv'
<1>1. SessionTypeOK /\ Hands(r) /\ "failed" \in Outcomes \cup {"failed"}
  BY DEF SInv, Hands, ghosts
<1>2. Moves(r) /\ pc' \in [Requests -> {"idle"} \cup Working \cup Stopped] /\ job' \in [Requests -> Job]
  BY <1>1, ReturnsAnywhere
<1>3. SessionTypeOK'
  BY <1>1, <1>2 DEF SessionTypeOK, Record, ghosts
<1>4. QED BY <1>2, <1>3, OneMoves DEF ghosts

LEMMA FailKeeps == ASSUME SInv, NEW r \in Requests, Fail(r) PROVE SInv'
<1>1. SessionTypeOK /\ Carries(r) /\ pc[r] \in {"decide", "put"} /\ job[r] \in Job
  BY DEF Fail, SInv, SessionTypeOK
<1>2. (r \in fresh /\ Store(r)) \/ Keep(r)
  BY DEF Fail
<1>3. /\ Replaces(r) /\ r \notin fresh' /\ fresh' \subseteq Requests
      /\ sessions' \in Record /\ dropped' \subseteq Keys
  BY <1>2, StoredOrKept
<1>4. revoked' \subseteq Tokens
  <2>1. CASE job[r].stage = "settle" /\ Revoke({job[r].tokens.refresh})
    <3>1. {job[r].tokens.refresh} \in SUBSET (Tokens \cup {None})
      BY <1>1, <2>1 DEF Carries, NoJob, Pair
    <3>2. QED BY <1>1, <2>1, <3>1, RevokesTokens
  <2>2. CASE UNCHANGED revoked
    BY <1>1, <2>2 DEF SessionTypeOK
  <2>3. QED BY <2>1, <2>2 DEF Fail
<1>5. /\ faults' \in 0..MaxFaults /\ spent' \subseteq Tokens /\ Return(r, "failed")
      /\ UNCHANGED <<now, issued, expired, ghosts>>
  BY <1>1, FaultsBounded DEF Fail, SessionTypeOK
<1>6. QED BY <1>1, <1>3, <1>4, <1>5, EndsKeep

LEMMA LateKeeps == ASSUME SInv, NEW r \in Requests, Late(r) PROVE SInv'
<1>1. SessionTypeOK /\ pc[r] = "late" /\ Return(r, "failed") /\ UNCHANGED <<now, provider, calm>>
  BY DEF Late, SInv
<1>2. (r \in fresh /\ Store(r)) \/ Keep(r)
  BY DEF Late
<1>3. /\ Replaces(r) /\ r \notin fresh' /\ fresh' \subseteq Requests
      /\ sessions' \in Record /\ dropped' \subseteq Keys
  BY <1>2, StoredOrKept
<1>4. /\ revoked' \subseteq Tokens /\ spent' \subseteq Tokens /\ faults' \in 0..MaxFaults
      /\ UNCHANGED <<now, issued, expired, ghosts>>
  BY <1>1 DEF SessionTypeOK, provider, calm
<1>5. QED BY <1>1, <1>3, <1>4, EndsKeep

LEMMA CancelKeeps == ASSUME SInv, NEW r \in Requests, Cancel(r) PROVE SInv'
<1>1. /\ SessionTypeOK /\ Carries(r) /\ Writes(r) /\ Sound(r) /\ pc[r] \in Working /\ job[r] \in Job
      /\ UNCHANGED <<record, now, issued, expired, revoked, ghosts>>
      /\ sessions' = sessions /\ fresh' = fresh /\ dropped' = dropped
  BY DEF Cancel, SInv, SessionTypeOK, record
<1>2. spent' \subseteq Tokens
  BY <1>1 DEF Cancel, Carries, SessionTypeOK
<1>3. faults' \in 0..MaxFaults
  BY <1>1, FaultsBounded DEF Cancel
<1>4. CASE pc[r] = "put"
  <2>1. pc' = [pc EXCEPT ![r] = "late"] /\ job' = job
    BY <1>4 DEF Cancel, Goto
  <2>2. /\ pc'[r] = "late" /\ pc' \in [Requests -> {"idle"} \cup Working \cup Stopped]
        /\ \A q \in Requests \ {r} : pc'[q] = pc[q] /\ job'[q] = job[q]
    BY <1>1, <2>1 DEF SessionTypeOK, Stopped
  <2>3. Carries(r)' /\ Writes(r)'
    BY <1>1, <1>4, <2>1, <2>2 DEF Carries, Writes, Open, Leased, ghosts
  <2>4. Sound(r)'
    BY <1>1, <2>1, <2>2 DEF Sound, ByRight, Bounded, Present, LogsOut, Ended
  <2>5. Moves(r) /\ Replaces(r)
    BY <1>1, <2>1, <2>2, <2>3, <2>4 DEF Moves, Hands, Replaces, ghosts
  <2>6. SessionTypeOK'
    BY <1>1, <1>2, <1>3, <2>1, <2>2 DEF SessionTypeOK, ghosts
  <2>7. QED BY <1>1, <2>5, <2>6, OneMoves DEF ghosts
<1>5. CASE pc[r] # "put" /\ Return(r, "failed")
  <2>1. pc[r] # "idle" /\ r \notin fresh' /\ Replaces(r)
    BY <1>1, <1>5 DEF Working, Sound, Replaces
  <2>2. fresh' \subseteq Requests /\ sessions' \in Record /\ dropped' \subseteq Keys /\ revoked' \subseteq Tokens
    BY <1>1 DEF SessionTypeOK, Record
  <2>3. QED BY <1>1, <1>2, <1>3, <1>5, <2>1, <2>2, EndsKeep
<1>6. QED BY <1>4, <1>5 DEF Cancel

----------------------------------------------------------------------------
(* The provider, time and new calls *)

LEMMA AnsweredKeeps ==
    ASSUME SInv, NEW r \in Requests, pc[r] = "renew", NEW stage \in {"settle", "drop"},
           NEW tokens \in Pair \cup {None}, Again(r, "decide", stage, job[r].refresh, tokens),
           stage = "settle" => tokens \in Pair,
           UNCHANGED <<record, now, expired, revoked, ghosts>>, issued' \in 0..MaxTokens,
           spent' \subseteq spent \cup {job[r].refresh}, faults' = faults \/ Fault
    PROVE  SInv'
<1>1. /\ SessionTypeOK /\ Carries(r) /\ Sound(r) /\ stage \in Decisions
      /\ sessions' = sessions /\ fresh' = fresh /\ dropped' = dropped /\ delivered' = delivered
  BY DEF SInv, Decisions, record, ghosts
<1>2. job[r].op \in Access /\ job[r].refresh \in Tokens /\ r \notin fresh'
  BY <1>1 DEF Carries, Sound
<1>3. Moves(r) /\ pc' \in [Requests -> {"idle"} \cup Working \cup Stopped] /\ job' \in [Requests -> Job]
  BY <1>1, <1>2, AgainAnywhere
<1>4. Replaces(r) /\ faults' \in 0..MaxFaults
  BY <1>1, FaultsBounded DEF Replaces, SessionTypeOK
<1>5. SessionTypeOK'
  BY <1>1, <1>2, <1>3, <1>4 DEF SessionTypeOK, ghosts
<1>6. QED BY <1>3, <1>4, <1>5, OneMoves DEF ghosts

LEMMA RenewedKeeps == ASSUME SInv, NEW r \in Requests, Renewed(r) PROVE SInv'
<1>1. PICK rotated \in BOOLEAN, stage \in {"settle", "drop"} :
        /\ IF stage = "drop" THEN Fault ELSE UNCHANGED faults
        /\ spent' = IF rotated THEN spent \cup {job[r].refresh} ELSE spent
        /\ Again(r, "decide", stage, job[r].refresh,
                 [access |-> issued', refresh |-> IF rotated THEN issued' ELSE None])
  BY DEF Renewed
<1> DEFINE pair == [access |-> issued', refresh |-> IF rotated THEN issued' ELSE None]
<1>2. /\ pc[r] = "renew" /\ issued \in 0..MaxTokens /\ issued < MaxTokens /\ issued' = issued + 1
      /\ UNCHANGED <<record, now, expired, revoked, ghosts>>
  BY DEF Renewed, SInv, SessionTypeOK
<1>3. issued' \in Tokens /\ issued' \in 0..MaxTokens
  BY <1>2, SessionAssumption DEF Tokens
<1>4. pair \in Pair
  BY <1>3 DEF Pair
<1>5. faults' = faults \/ Fault
  BY <1>1
<1>6. spent' \subseteq spent \cup {job[r].refresh}
  BY <1>1
<1> HIDE DEF pair
<1>7. Again(r, "decide", stage, job[r].refresh, pair)
  BY <1>1 DEF pair
<1>8. QED BY <1>2, <1>3, <1>4, <1>5, <1>6, <1>7, AnsweredKeeps

LEMMA NotRenewedKeeps == ASSUME SInv, NEW r \in Requests, NotRenewed(r) PROVE SInv'
<1>1. /\ pc[r] = "renew" /\ Again(r, "decide", "drop", job[r].refresh, None)
      /\ UNCHANGED <<record, now, issued, expired, revoked, ghosts>>
      /\ spent' \in {spent, spent \cup {job[r].refresh}}
  BY DEF NotRenewed
<1>2. issued' \in 0..MaxTokens /\ None \in Pair \cup {None}
  BY <1>1 DEF SInv, SessionTypeOK
<1>3. spent' \subseteq spent \cup {job[r].refresh}
  BY <1>1
<1>4. faults' = faults \/ Fault
  BY DEF NotRenewed
<1>5. QED BY <1>1, <1>2, <1>3, <1>4, AnsweredKeeps

\* A step that moves no request and leaves the record alone, however the clock moves.
LEMMA UntouchedKeeps ==
    ASSUME SInv, SessionTypeOK', now <= now',
           UNCHANGED <<sessions, fresh, pc, job, delivered, closed>>
    PROVE  SInv'
<1>1. now \in Times /\ now' \in Times
  BY DEF SInv, SessionTypeOK
<1>2. \A r \in Requests : Carries(r)' /\ Writes(r)'
  BY DEF SInv, Carries, Writes, Leased
<1>3. ASSUME NEW r \in Requests PROVE Sound(r)'
  <2>1. Sound(r) /\ sessions \in Record
    BY DEF SInv, SessionTypeOK, Record
  <2>2. r \in fresh => ByRight(job[r].op, job[r].key, sessions, job[r].next, now')
    BY <1>1, <2>1, RightLater DEF Sound
  <2>3. QED BY <2>1, <2>2 DEF Sound, Bounded, Present, LogsOut, ByRight, Ended
<1>4. (OwnKeys /\ ClosedGone /\ Leased(sessions) /\ Bounded(sessions))'
  BY DEF SInv, OwnKeys, ClosedGone, Leased, Bounded, Present
<1>5. QED BY <1>2, <1>3, <1>4 DEF SInv

LEMMA ExpireKeeps == ASSUME SInv, NEW t \in Tokens, Expire(t) PROVE SInv'
<1>1. /\ expired' = expired \cup {t}
      /\ UNCHANGED <<sessions, fresh, dropped, pc, job, now, issued, spent, revoked, faults, delivered, closed>>
  BY DEF Expire, record, calm, ghosts
<1>2. SessionTypeOK' /\ now <= now'
  BY <1>1, SessionAssumption DEF SInv, SessionTypeOK, Times
<1>3. QED BY <1>1, <1>2, UntouchedKeeps

LEMMA TickKeeps == ASSUME SInv, Tick PROVE SInv'
<1>1. /\ now' = now + 1 /\ now < MaxTime
      /\ UNCHANGED <<sessions, fresh, dropped, pc, job, issued, expired, spent, revoked, faults, delivered, closed>>
  BY DEF Tick, record, provider, calm, ghosts
<1>2. now' \in Times /\ now <= now'
  BY <1>1, SessionAssumption DEF SInv, SessionTypeOK, Times
<1>3. SessionTypeOK'
  BY <1>1, <1>2 DEF SInv, SessionTypeOK
<1>4. QED BY <1>1, <1>2, <1>3, UntouchedKeeps

\* A new request: a login has a key nobody has had, any other a cookie that was handed out.
LEMMA CalledKeeps ==
    ASSUME SInv, NEW r \in Requests, pc[r] = "idle", NEW k \in Keys, NEW op \in Operations, NEW j \in Job,
           Goto(r, "decide"), job' = [job EXCEPT ![r] = j],
           j.op = op, j.key = k, j.stage = "main",
           op = "begin" => k # First /\ (\A q \in Requests : job[q].key # k) /\ j.tokens \in Pair,
           op # "begin" => k \in delivered,
           UNCHANGED <<record, now, expired, spent, revoked, calm>>, issued' \in 0..MaxTokens
    PROVE  SInv'
<1>1. /\ SessionTypeOK /\ OwnKeys /\ ClosedGone /\ Carries(r) /\ Sound(r)
      /\ UNCHANGED <<sessions, fresh, dropped, now, expired, spent, revoked, faults, delivered, closed>>
  BY DEF SInv, record, calm, ghosts
<1>2. /\ pc' \in [Requests -> {"idle"} \cup Working \cup Stopped] /\ job' \in [Requests -> Job]
      /\ pc'[r] = "decide" /\ job'[r] = j
      /\ \A q \in Requests \ {r} : pc'[q] = pc[q] /\ job'[q] = job[q]
  BY <1>1 DEF Goto, SessionTypeOK, Working
<1>3. job[r].key = None /\ None \notin Keys
  BY <1>1, SessionAssumption DEF Carries, NoJob
<1>4. SessionTypeOK'
  BY <1>1, <1>2 DEF SessionTypeOK
<1>5. op = "begin" => k \notin delivered
  BY <1>1 DEF OwnKeys
<1>6. ASSUME NEW q \in Requests PROVE Carries(q)' /\ Writes(q)' /\ Sound(q)'
  <2>1. CASE q = r
    BY <1>1, <1>2, <1>5, <2>1 DEF Carries, Writes, Sound
  <2>2. CASE q # r
    BY <1>1, <1>2, <2>2 DEF SInv, Carries, Writes, Sound, Leased, Bounded, Present, ByRight, LogsOut, Ended
  <2>3. QED BY <2>1, <2>2
<1>7. OwnKeys'
  <2>1. ASSUME NEW p \in Requests, NEW q \in Requests, job'[p].op = "begin", job'[q].op = "begin",
               job'[p].key \in Keys, job'[p].key = job'[q].key
        PROVE  p = q
    BY <1>1, <1>2, <2>1 DEF OwnKeys
  <2>2. ASSUME NEW d \in delivered, d # First PROVE \E q \in Requests : job'[q].key = d
    <3>1. PICK q \in Requests : job[q].key = d
      BY <1>1, <2>2 DEF OwnKeys
    <3>2. d \in Keys
      BY <1>1, <2>2 DEF SessionTypeOK
    <3>3. q # r
      BY <1>3, <3>1, <3>2
    <3>4. QED BY <1>2, <3>1, <3>3
  <2>3. QED BY <1>1, <2>1, <2>2 DEF OwnKeys
<1>8. (ClosedGone /\ Leased(sessions) /\ Bounded(sessions))'
  BY <1>1 DEF SInv, ClosedGone, Leased, Bounded, Present
<1>9. QED BY <1>4, <1>6, <1>7, <1>8 DEF SInv

LEMMA BeginKeeps == ASSUME SInv, NEW r \in Requests, NEW k \in Keys, Begin(r, k) PROVE SInv'
<1>1. PICK refresh \in {issued', None} :
        job' = [job EXCEPT ![r] = [NoJob EXCEPT !.op = "begin", !.key = k, !.proposed = now,
                                                !.tokens = [access |-> issued', refresh |-> refresh]]]
  BY DEF Begin
<1> DEFINE pair == [access |-> issued', refresh |-> refresh]
           j == [NoJob EXCEPT !.op = "begin", !.key = k, !.proposed = now, !.tokens = pair]
<1>2. /\ pc[r] = "idle" /\ Goto(r, "decide") /\ k # First /\ \A q \in Requests : job[q].key # k
      /\ UNCHANGED <<record, now, expired, spent, revoked, calm>>
      /\ issued' = issued + 1 /\ issued < MaxTokens /\ issued \in 0..MaxTokens /\ now \in Times
  BY DEF Begin, SInv, SessionTypeOK
<1>3. issued' \in Tokens /\ issued' \in 0..MaxTokens
  BY <1>2, SessionAssumption DEF Tokens
<1>4. pair \in Pair
  BY <1>3 DEF Pair
<1> HIDE DEF pair
<1>5. "begin" \in Operations
  BY DEF Operations
<1>6. j \in Job /\ j.op = "begin" /\ j.key = k /\ j.stage = "main" /\ j.tokens = pair
  BY <1>2, <1>4, <1>5, NothingIsRecord DEF NoJob, Job
<1>7. job' = [job EXCEPT ![r] = j]
  BY <1>1 DEF pair
<1> HIDE DEF j
<1>8. QED BY <1>2, <1>3, <1>4, <1>5, <1>6, <1>7, CalledKeeps

LEMMA CallKeeps ==
    ASSUME SInv, NEW r \in Requests, NEW k \in Keys, NEW op \in Operations \ {"begin"},
           k \in delivered, Call(r, op, k), UNCHANGED issued
    PROVE  SInv'
<1> DEFINE j == [NoJob EXCEPT !.op = op, !.key = k, !.proposed = now]
<1>1. /\ pc[r] = "idle" /\ Goto(r, "decide") /\ job' = [job EXCEPT ![r] = j]
      /\ UNCHANGED <<record, now, expired, spent, revoked, calm>>
      /\ issued' \in 0..MaxTokens /\ now \in Times
  BY DEF Call, SInv, SessionTypeOK
<1>2. j \in Job /\ j.op = op /\ j.key = k /\ j.stage = "main"
  BY <1>1, NothingIsRecord DEF NoJob, Job
<1> HIDE DEF j
<1>3. QED BY <1>1, <1>2, CalledKeeps

----------------------------------------------------------------------------
(* The theorems *)

LEMMA InitHolds == ASSUME Init PROVE SInv
<1> DEFINE e == NewEntry([access |-> 1, refresh |-> 1], 0)
<1>1. 0 \in Times /\ 1 \in Tokens /\ 0 \in 0..MaxFaults /\ 1 \in 0..MaxTokens
  BY SessionAssumption DEF Times, Tokens
<1>2. e \in Entry /\ e.lease = None
  BY <1>1 DEF NewEntry, Entry
<1> HIDE DEF e
<1>3. sessions = [Nothing EXCEPT ![First] = e] /\ First \in Keys
  BY SessionAssumption DEF Init, e
<1>4. sessions \in Record /\ Leased(sessions) /\ Present(sessions) \subseteq {First}
  BY <1>2, <1>3, NothingIsRecord DEF Record, Leased, Present, Nothing
<1>5. Bounded(sessions)
  <2>1. IsFiniteSet({First}) /\ Cardinality({First}) = 1
    BY FS_Singleton
  <2>2. IsFiniteSet(Present(sessions)) /\ Cardinality(Present(sessions)) <= 1
    BY <1>4, <2>1, FS_Subset
  <2>3. Cardinality(Present(sessions)) \in Nat
    BY <2>2, FS_CardinalityType
  <2>4. QED BY <2>2, <2>3, SessionAssumption DEF Bounded
<1>6. SessionTypeOK
  BY <1>1, <1>3, <1>4, NothingIsRecord DEF Init, SessionTypeOK, Record
<1>7. \A r \in Requests : Carries(r) /\ Writes(r) /\ Sound(r)
  BY DEF Init, Carries, Writes, Sound
<1>8. OwnKeys
  BY SessionAssumption DEF Init, OwnKeys, NoJob
<1>9. ClosedGone
  BY DEF Init, ClosedGone
<1>10. QED BY <1>4, <1>5, <1>6, <1>7, <1>8, <1>9 DEF SInv

LEMMA StepHolds == ASSUME SInv, Next PROVE SInv'
<1>1. ASSUME NEW r \in Requests, Start(r) PROVE SInv'
  <2>1. PICK k \in Keys :
          \/ Begin(r, k)
          \/ \E scope \in {"device", "all"} : End(r, k, scope)
          \/ \E access \in {"passive", "active"} : Authorize(r, k, access)
    BY <1>1 DEF Start
  <2>2. CASE Begin(r, k)
    BY <2>2, BeginKeeps
  <2>3. ASSUME NEW op \in Operations \ {"begin"}, End(r, k, op) \/ Authorize(r, k, op) PROVE SInv'
    BY <2>3, CallKeeps DEF End, Authorize
  <2>4. {"device", "all"} \subseteq Operations \ {"begin"} /\ {"passive", "active"} \subseteq Operations \ {"begin"}
    BY DEF Operations
  <2>5. QED BY <2>1, <2>2, <2>3, <2>4
<1>2. ASSUME NEW r \in Requests, Decide(r) PROVE SInv'
  BY <1>2, DecideBeginKeeps, DecideEndKeeps, DecideEndedKeeps, DecideLeasedKeeps, DecideTokenKeeps,
     DecideDropKeeps, DecideSettleKeeps DEF Decide
<1>3. ASSUME NEW r \in Requests, Proceed(r) \/ Cancel(r) PROVE SInv'
  BY <1>2, <1>3, StoredKeeps, ConflictKeeps, FailKeeps, LateKeeps, RenewedKeeps, NotRenewedKeeps,
     CancelKeeps DEF Proceed
<1>4. QED BY <1>1, <1>3, ExpireKeeps, TickKeeps DEF Next

LEMMA StutterHolds == ASSUME SInv, UNCHANGED vars PROVE SInv'
<1>1. UNCHANGED <<sessions, fresh, dropped, pc, job, now, issued, expired, spent, revoked, faults, delivered, closed>>
  BY DEF vars, record, provider, calm, ghosts
<1>2. SessionTypeOK' /\ now <= now'
  BY <1>1, SessionAssumption DEF SInv, SessionTypeOK, Times
<1>3. QED BY <1>1, <1>2, UntouchedKeeps

\* The record changes only when the write of a request whose version is current arrives.
LEMMA OneWriter ==
    ASSUME SInv, Next
    PROVE  \/ sessions' = sessions
           \/ \E r \in Requests : r \in fresh /\ sessions' = job[r].next /\ pc'[r] # pc[r]
<1>1. SessionTypeOK
  BY DEF SInv
<1>2. ASSUME NEW r \in Requests, Start(r) PROVE sessions' = sessions
  BY <1>2 DEF Start, Begin, End, Authorize, Call, record
<1>3. ASSUME NEW r \in Requests, Decide(r) PROVE sessions' = sessions
  <2>1. Load(r)
    BY <1>3 DEF Decide, DecideBegin, DecideEnd, DecideEnded, DecideLeased, DecideToken, DecideDrop, DecideSettle
  <2>2. QED BY <2>1 DEF Load
<1>4. ASSUME NEW r \in Requests, Renewed(r) \/ NotRenewed(r) \/ Cancel(r) PROVE sessions' = sessions
  BY <1>4 DEF Renewed, NotRenewed, Cancel, record
<1>5. ASSUME NEW r \in Requests, Stored(r) \/ Conflict(r) \/ Fail(r) \/ Late(r)
      PROVE  sessions' = sessions \/ (r \in fresh /\ sessions' = job[r].next /\ pc'[r] # pc[r])
  <2>1. (r \in fresh /\ Store(r)) \/ Keep(r)
    BY <1>5 DEF Stored, Conflict, Fail, Late
  <2>2. pc'[r] # pc[r]
    <3>1. CASE Stored(r)
      BY <1>1, <3>1 DEF Stored, Again, Return, Goto, SessionTypeOK, Job, Outcomes
    <3>2. CASE Conflict(r)
      BY <1>1, <3>2 DEF Conflict, Goto, SessionTypeOK
    <3>3. CASE Fail(r) \/ Late(r)
      BY <1>1, <3>3 DEF Fail, Late, Return, Goto, SessionTypeOK
    <3>4. QED BY <1>5, <3>1, <3>2, <3>3
  <2>3. QED BY <2>1, <2>2 DEF Store, Keep
<1>6. ASSUME Tick \/ \E t \in Tokens : Expire(t) PROVE sessions' = sessions
  BY <1>6 DEF Tick, Expire, record
<1>7. QED BY <1>2, <1>3, <1>4, <1>5, <1>6 DEF Next, Proceed

\* Every variable keeps its type, and what requests carry stays sound, however many sessions,
\* requests, faults and late writes there are (reader_sessions.py:73-183).
THEOREM SessionInvariant == Spec => []SInv
<1>1. Init => SInv
  BY InitHolds
<1>2. SInv /\ [Next]_vars => SInv'
  BY StepHolds, StutterHolds
<1>3. QED BY <1>1, <1>2, PTL DEF Spec

\* For any number of sessions and requests: a logout is final, other devices' sessions are left
\* alone and the record never overflows, whatever is retried, lost or late (_commit, begin, end).
THEOREM WritesHold == Spec => WritesKept
<1>1. SInv /\ SInv' => WithinCap'
  BY DEF SInv, Bounded, WithinCap, Present
<1>2. SInv' => \A k \in closed' : sessions'[k] = None
  BY DEF SInv, ClosedGone
<1> DEFINE Rightful == \A k \in Present(sessions) : sessions'[k] # sessions[k] =>
              \E r \in Requests :
                  /\ pc[r] \in {"put", "late"} /\ pc'[r] # pc[r]
                  /\ \/ job[r].key = k \/ job[r].op = "all"
                     \/ job[r].op = "begin" /\ Ended(sessions[k], now)
<1>3. SInv /\ Next => Rightful
  <2> SUFFICES ASSUME SInv, Next, NEW k \in Present(sessions), sessions'[k] # sessions[k]
               PROVE  \E r \in Requests :
                        /\ pc[r] \in {"put", "late"} /\ pc'[r] # pc[r]
                        /\ \/ job[r].key = k \/ job[r].op = "all"
                           \/ job[r].op = "begin" /\ Ended(sessions[k], now)
    OBVIOUS
  <2>1. PICK r \in Requests : r \in fresh /\ sessions' = job[r].next /\ pc'[r] # pc[r]
    BY OneWriter
  <2>2. pc[r] \in {"put", "late"} /\ ByRight(job[r].op, job[r].key, sessions, job[r].next, now)
    BY <2>1 DEF SInv, Sound
  <2>3. k \in Keys
    BY DEF Present
  <2>4. QED BY <2>1, <2>2, <2>3 DEF ByRight
<1>4. Spec => []SInv
  BY SessionInvariant
<1> HIDE DEF Rightful
<1>5. [][Rightful]_vars => OthersPreserved
  BY PTL DEF Rightful, OthersPreserved
<1>6. QED BY <1>1, <1>2, <1>3, <1>4, <1>5, PTL DEF Spec, WritesKept, LogoutFinal

----------------------------------------------------------------------------
(* The refresh tokens: the inductive invariant *)

\* The new refresh token a login or an answered renewal has brought, while it is not yet handed over.
Held(r) == IF job[r].tokens = None THEN None ELSE job[r].tokens.refresh

\* The tokens whose removal a request has asked for.
Removing(r) == job[r].pending \cup job[r].removed

\* What has been in the record or has been revoked.
Touched == revoked \cup Refreshes(sessions) \cup UNION {Removing(r) : r \in Requests}

\* Every token has been issued.
KnownTokens ==
    /\ revoked \cup spent \cup expired \subseteq 1..issued
    /\ \A k \in Present(sessions) : sessions[k].access \in 1..issued
                                    /\ sessions[k].refresh \in 1..issued \cup {None}
    /\ \A r \in Requests :
         /\ job[r].tokens # None => job[r].tokens.access \in 1..issued
         /\ Held(r) \in 1..issued \cup {None} /\ job[r].refresh \in 1..issued \cup {None}
         /\ Removing(r) \subseteq 1..issued

\* A login has new tokens, or a request whose renewal was answered; they do not expire meanwhile.
Holds(r) ==
    /\ job[r].stage # "main" => pc[r] \in Open /\ job[r].op \in Access
    /\ job[r].tokens # None => /\ pc[r] \in Open /\ job[r].tokens.access \notin expired
                               /\ job[r].stage = "main" => job[r].op = "begin"
    /\ \A t \in Tokens : <<t, "expired">> \in job[r].verified => t \in expired

\* A new refresh token is its request's own; in the record it is found in the request's session
\* only, as this request stored it.
Owned(r) == Held(r) # None =>
    /\ Held(r) \notin spent
    /\ \A q \in Requests : /\ q # r => Held(q) # Held(r)
                           /\ pc[q] = "renew" => job[q].refresh # Held(r)
    /\ \A k \in Present(sessions) : sessions[k].refresh = Held(r) =>
         /\ k = job[r].key /\ job[r].stage # "drop"
         /\ sessions[k].access = job[r].tokens.access /\ sessions[k].lease = None

\* Before it is stored it has been nowhere.
Unstored(r) == \/ job[r].stage = "settle" /\ Mine(r)
               \/ job[r].op = "begin" /\ sessions[job[r].key] = None /\ job[r].key \notin dropped
Untouched(r) == Unstored(r) /\ Held(r) # None => Held(r) \notin Touched

\* A lease is held by a request of the session.  A token that may be consumed is under the lease of
\* a request that has presented it and does not store it again.
LeaseHolds(k) ==
    /\ sessions[k].renewing = None <=> sessions[k].lease = None
    /\ \A r \in Requests : sessions[k].lease = r =>
         pc[r] # "idle" /\ job[r].key = k /\ job[r].op \in Access
    /\ sessions[k].refresh \in spent => \E r \in Requests :
         /\ sessions[k].lease = r
         /\ ~(job[r].stage = "main" /\ pc[r] \in Working)
         /\ ~(job[r].stage = "settle" /\ Held(r) = None)

\* A refresh token that is presented can be used, and is presented under the lease.
Presents(r) == pc[r] = "renew" =>
    /\ job[r].refresh \notin spent
    /\ \A q \in Requests \ {r} : pc[q] = "renew" => job[q].refresh # job[r].refresh
    /\ \A k \in Present(sessions) : sessions[k].refresh = job[r].refresh => sessions[k].lease = r

\* Two sessions never hold the same refresh token.
Apart == \A j, k \in Present(sessions) :
    sessions[j].refresh = sessions[k].refresh /\ sessions[j].refresh # None => j = k

\* What a write of request r makes of a session: it opens, uses, leases or renews it.
Opened(r, e) == /\ job[r].op = "begin"
                /\ e.access = job[r].tokens.access /\ e.refresh = Held(r)
                /\ e.renewing = None /\ e.lease = None
Used(d, e) == /\ d.renewing = None /\ d.lease = None
              /\ e.access = d.access /\ e.refresh = d.refresh /\ e.renewing = None /\ e.lease = None
TakesLease(r, d, e) == /\ job[r].op \in Access /\ job[r].stage = "main"
                       /\ d.lease = None /\ d.access \in expired
                       /\ e.access = d.access /\ e.refresh = d.refresh
                       /\ e.renewing # None /\ e.lease = r
Settles(r, d, e) == /\ job[r].stage = "settle" /\ d.lease = r
                    /\ e.access = job[r].tokens.access /\ e.renewing = None /\ e.lease = None
                    /\ e.refresh = IF Held(r) = None THEN d.refresh ELSE Held(r)
Becomes(r, k, d, e) ==
    \/ e = d
    \/ k = job[r].key /\ d = None /\ Opened(r, e)
    \/ k = job[r].key /\ d # None /\ (Used(d, e) \/ TakesLease(r, d, e) \/ Settles(r, d, e))

\* A write whose version is current follows from the record.
Follows(r) == r \in fresh =>
    /\ Removing(r) \subseteq Refreshes(sessions)
    /\ job[r].then = "lease" => job[r].stage = "main"
    /\ job[r].op = "begin" => job[r].next[job[r].key] # None
    /\ job[r].stage = "settle" => job[r].next[job[r].key].lease = None
    /\ job[r].then = "lease" => /\ job[r].next[job[r].key] # None
                                /\ job[r].next[job[r].key].lease = r
    /\ \A k \in Present(job[r].next) : Becomes(r, k, sessions[k], job[r].next[k])

TokensInv ==
    /\ KnownTokens /\ Apart /\ StoredNotRevoked
    /\ \A r \in Requests : Holds(r) /\ Owned(r) /\ Untouched(r) /\ Presents(r) /\ Follows(r)
    /\ \A k \in Present(sessions) : LeaseHolds(k)

----------------------------------------------------------------------------
(* What a step of one request does with tokens *)

RecordMoves(r) ==
    \/ sessions' = sessions /\ dropped' = dropped /\ fresh' \subseteq fresh \cup {r}
    \/ r \in fresh /\ Store(r)

\* It keeps its new tokens, gives them up, or gets some.
Receives(r) ==
    \/ /\ issued' = issued
       /\ \/ job'[r].tokens = None
          \/ job'[r].tokens = job[r].tokens /\ job'[r].stage = job[r].stage
    \/ /\ issued' = issued + 1 /\ sessions' = sessions /\ revoked' = revoked
       /\ job'[r].tokens # None /\ job'[r].tokens.access = issued' /\ Held(r)' \in {None, issued'}

\* A token is consumed by whom presented it.
Spends(r) ==
    \/ spent' = spent
    \/ /\ pc[r] = "renew" /\ pc'[r] # "renew" /\ sessions' = sessions
       /\ spent' = spent \cup {job[r].refresh}
       /\ ~(job'[r].stage = "main" /\ pc'[r] \in Working)
       /\ ~(job'[r].stage = "settle" /\ Held(r)' = None)

\* What it revokes is not in the record, and will not be.
Revokes(r) == \A t \in revoked' \ revoked :
    /\ t \notin Refreshes(sessions')
    /\ t \in Touched \/ (t = Held(r) /\ job'[r].tokens = None)

\* It goes on where it was, or presents the token of the session it has leased.
Proceeds(r) ==
    /\ pc[r] # "idle" => /\ pc'[r] # "idle" /\ job'[r].op = job[r].op /\ job'[r].key = job[r].key
                         /\ job'[r].stage = "main" /\ pc'[r] \in Working
                              => job[r].stage = "main" /\ pc[r] \in Working
    /\ job'[r].stage = "settle" /\ Held(r)' = None
         => (job[r].stage = "settle" /\ Held(r) = None) \/ pc[r] = "renew"
    /\ pc'[r] = "renew" =>
         /\ job'[r].key \in Present(sessions') /\ job'[r].stage = "main"
         /\ sessions'[job'[r].key].lease = r /\ sessions'[job'[r].key].refresh = job'[r].refresh
    /\ pc'[r] # "renew" => job'[r].refresh \in {None, job[r].refresh}
    /\ Removing(r)' \subseteq Removing(r) \cup Refreshes(sessions)

TokenMoves(r) ==
    /\ \A q \in Requests \ {r} : pc'[q] = pc[q] /\ job'[q] = job[q]
    /\ expired' = expired
    /\ RecordMoves(r) /\ Receives(r) /\ Spends(r) /\ Revokes(r) /\ Proceeds(r)
    /\ Holds(r)' /\ Follows(r)'

----------------------------------------------------------------------------
(* Such a step keeps the invariant *)

\* None is no token, no request, no pair and no entry.
LEMMA NoneIsNoToken == None \notin Tokens /\ (\A n \in Nat : None \notin 1..n) /\ None \notin Requests
  BY SessionAssumption DEF Tokens

LEMMA NoneIsPair == None \notin Pair /\ None \notin Entry
  BY AbsenceAssumption

\* What a session of the new record was.
LEMMA EntryAfter ==
    ASSUME SInv, TokensInv, NEW r \in Requests, RecordMoves(r), NEW k \in Present(sessions')
    PROVE  /\ k \in Keys /\ sessions'[k] # None
           /\ Becomes(r, k, sessions[k], sessions'[k])
           /\ sessions'[k] # sessions[k] => pc[r] \in {"put", "late"}
<1>1. k \in Keys /\ sessions'[k] # None
  BY DEF Present
<1>2. CASE sessions' = sessions
  BY <1>1, <1>2 DEF Becomes
<1>3. CASE r \in fresh /\ Store(r)
  <2>1. sessions' = job[r].next /\ Follows(r) /\ Sound(r)
    BY <1>3 DEF Store, TokensInv, SInv
  <2>2. QED BY <1>1, <1>3, <2>1 DEF Follows, Sound
<1>4. QED BY <1>2, <1>3 DEF RecordMoves

\* A request that writes is past its renewal.
LEMMA WritersSpendNothing ==
    ASSUME NEW r \in Requests, Spends(r), pc[r] \in {"put", "late"}
    PROVE  spent' = spent
  BY DEF Spends

\* A token comes into the record from the request that got it.
LEMMA RefreshAfter ==
    ASSUME SInv, TokensInv, NEW r \in Requests, RecordMoves(r), NEW k \in Present(sessions')
    PROVE  \/ k \in Present(sessions) /\ sessions'[k].refresh = sessions[k].refresh
           \/ /\ k = job[r].key /\ sessions'[k].refresh = Held(r)
              /\ sessions'[k].access = job[r].tokens.access /\ sessions'[k].lease = None
              /\ job[r].stage # "drop"
              /\ k \in dropped \/ Unstored(r)
<1>1. k \in Keys /\ sessions'[k] # None /\ Becomes(r, k, sessions[k], sessions'[k])
  BY EntryAfter
<1>2. job[r].op = "begin" => job[r].stage = "main"
  BY DEF TokensInv, Holds, Access
<1>3. CASE sessions'[k] = sessions[k]
  BY <1>1, <1>3 DEF Present
<1>4. CASE k = job[r].key /\ sessions[k] = None /\ Opened(r, sessions'[k])
  BY <1>1, <1>2, <1>4 DEF Opened, Unstored
<1>5. CASE k = job[r].key /\ sessions[k] # None /\ Settles(r, sessions[k], sessions'[k])
  BY <1>1, <1>5 DEF Settles, Unstored, Mine, Present
<1>6. CASE sessions[k] # None /\ (Used(sessions[k], sessions'[k]) \/ TakesLease(r, sessions[k], sessions'[k]))
  BY <1>1, <1>6 DEF Used, TakesLease, Present
<1>7. QED BY <1>1, <1>3, <1>4, <1>5, <1>6 DEF Becomes

\* The facts a step needs of another request's new token.
LEMMA NewTokensApart ==
    ASSUME SInv, TokensInv, NEW r \in Requests, NEW q \in Requests, q # r, Held(q) # None
    PROVE  /\ Held(q) # Held(r) /\ Held(q) \in 1..issued /\ Held(q) \notin spent
           /\ pc[r] = "renew" => job[r].refresh # Held(q)
           /\ job[q].tokens # None /\ job[q].tokens.access \notin expired
           /\ pc[q] # "renew"
  BY NoneIsNoToken DEF TokensInv, Owned, KnownTokens, Holds, Held, Open

\* Only tokens are consumed or revoked.
LEMMA SpentAreTokens == ASSUME SInv PROVE None \notin spent /\ None \notin revoked
  BY NoneIsNoToken DEF SInv, SessionTypeOK

\* A step of a request leaves every token an issued one.
LEMMA KnownAfter ==
    ASSUME SInv, TokensInv, SInv', NEW r \in Requests, TokenMoves(r)
    PROVE  KnownTokens'
<1>1. issued \in Nat /\ issued' \in Nat /\ (issued' = issued \/ issued' = issued + 1)
  BY SessionAssumption DEF SInv, SessionTypeOK, TokenMoves, Receives
<1>2. 1..issued \subseteq 1..issued' /\ (issued' = issued + 1 => issued' \in 1..issued')
  BY <1>1
<1>3. KnownTokens
  BY DEF TokensInv
<1>4. Removing(r) \subseteq 1..issued /\ Removing(r)' \subseteq Tokens
  BY <1>3 DEF KnownTokens, Removing, SInv, SessionTypeOK, Job
<1>5. Touched \subseteq 1..issued \cup {None}
  BY <1>3 DEF KnownTokens, Touched, Refreshes
<1>6. revoked' \subseteq 1..issued'
  <2>1. revoked' \subseteq Tokens
    BY DEF SInv, SessionTypeOK
  <2>2. ASSUME NEW t \in revoked' \ revoked PROVE t \in 1..issued \cup {None}
    BY <1>3, <1>5 DEF TokenMoves, Revokes, KnownTokens
  <2>3. QED BY <1>2, <1>3, <2>1, <2>2, NoneIsNoToken DEF KnownTokens
<1>7. spent' \subseteq 1..issued'
  <2>1. spent' \subseteq Tokens
    BY DEF SInv, SessionTypeOK
  <2>2. spent' \subseteq spent \cup {job[r].refresh}
    BY DEF TokenMoves, Spends
  <2>3. QED BY <1>2, <1>3, <2>1, <2>2, NoneIsNoToken DEF KnownTokens
<1>8. expired' \subseteq 1..issued'
  BY <1>2, <1>3 DEF KnownTokens, TokenMoves
<1>9. ASSUME NEW k \in Present(sessions')
      PROVE  sessions'[k].access \in 1..issued' /\ sessions'[k].refresh \in 1..issued' \cup {None}
  <2>1. k \in Keys /\ sessions'[k] # None /\ Becomes(r, k, sessions[k], sessions'[k]) /\ sessions'[k] \in Entry
    BY EntryAfter DEF TokenMoves, SInv, SessionTypeOK
  <2>2. sessions[k] # None => sessions[k].access \in 1..issued /\ sessions[k].refresh \in 1..issued \cup {None}
    BY <1>3, <2>1 DEF KnownTokens, Present
  <2>3. Held(r) \in 1..issued \cup {None} /\ (job[r].tokens # None => job[r].tokens.access \in 1..issued)
    BY <1>3 DEF KnownTokens
  <2>4. CASE \/ sessions'[k] = sessions[k]
             \/ sessions[k] # None /\ Used(sessions[k], sessions'[k])
             \/ sessions[k] # None /\ TakesLease(r, sessions[k], sessions'[k])
    BY <1>2, <2>1, <2>2, <2>4 DEF Used, TakesLease
  <2>5. CASE sessions'[k] # sessions[k] /\ (Opened(r, sessions'[k]) \/ (Settles(r, sessions[k], sessions'[k]) /\ sessions[k] # None))
    <3>1. pc[r] \in {"put", "late"} /\ Carries(r)
      BY <2>5, EntryAfter DEF TokenMoves, SInv
    <3>2. job[r].tokens # None
      BY <2>5, <3>1, NoneIsPair DEF Carries, Opened, Settles, Open
    <3>3. QED BY <1>2, <2>2, <2>3, <2>5, <3>2 DEF Opened, Settles
  <2>6. QED BY <2>1, <2>4, <2>5 DEF Becomes
<1>10. ASSUME NEW q \in Requests
       PROVE  /\ job'[q].tokens # None => job'[q].tokens.access \in 1..issued'
              /\ Held(q)' \in 1..issued' \cup {None} /\ job'[q].refresh \in 1..issued' \cup {None}
              /\ Removing(q)' \subseteq 1..issued'
  <2>1. CASE q # r
    <3>1. job'[q] = job[q]
      BY <2>1 DEF TokenMoves
    <3>2. QED BY <1>2, <1>3, <3>1 DEF KnownTokens, Held, Removing
  <2>2. CASE q = r
    <3>1. (job'[r].tokens # None => job'[r].tokens.access \in 1..issued') /\ Held(r)' \in 1..issued' \cup {None}
      BY <1>1, <1>2, <1>3 DEF TokenMoves, Receives, KnownTokens, Held
    <3>2. Removing(r)' \subseteq 1..issued'
      <4>1. Removing(r)' \subseteq 1..issued \cup Refreshes(sessions)
        BY <1>4 DEF TokenMoves, Proceeds
      <4>2. Refreshes(sessions) \subseteq 1..issued \cup {None}
        BY <1>3 DEF KnownTokens, Refreshes
      <4>3. QED BY <1>2, <1>4, <4>1, <4>2, NoneIsNoToken
    <3>3. job'[r].refresh \in 1..issued' \cup {None}
      <4>1. CASE pc'[r] = "renew"
        BY <1>9, <4>1 DEF TokenMoves, Proceeds
      <4>2. CASE pc'[r] # "renew"
        BY <1>2, <1>3, <4>2 DEF TokenMoves, Proceeds, KnownTokens
      <4>3. QED BY <4>1, <4>2
    <3>4. QED BY <2>2, <3>1, <3>2, <3>3
  <2>3. QED BY <2>1, <2>2
<1>11. QED BY <1>6, <1>7, <1>8, <1>9, <1>10 DEF KnownTokens

\* What has been in the record after the step was there before, or is the request's new token.
LEMMA TouchedAfter ==
    ASSUME SInv, TokensInv, NEW r \in Requests, TokenMoves(r)
    PROVE  /\ Touched' \subseteq Touched \cup {Held(r)}
           /\ job'[r].tokens # None /\ sessions' = sessions => Touched' \subseteq Touched
<1>1. Refreshes(sessions') \subseteq Refreshes(sessions) \cup {Held(r)}
  BY RefreshAfter DEF Refreshes, TokenMoves
<1>2. revoked' \subseteq Touched \cup {Held(r)} /\ (job'[r].tokens # None => revoked' \subseteq Touched)
  BY DEF TokenMoves, Revokes, Touched
<1>3. UNION {Removing(q)' : q \in Requests} \subseteq Touched
  <2>1. ASSUME NEW q \in Requests, NEW t \in Removing(q)' PROVE t \in Touched
    <3>1. CASE q = r
      BY <2>1, <3>1 DEF TokenMoves, Proceeds, Touched
    <3>2. CASE q # r
      BY <2>1, <3>2 DEF TokenMoves, Touched, Removing
    <3>3. QED BY <3>1, <3>2
  <2>2. QED BY <2>1
<1>4. QED BY <1>1, <1>2, <1>3 DEF Touched, Refreshes, Present

\* It gives no two sessions the same refresh token, and stores none that was revoked.
LEMMA ApartAfter ==
    ASSUME SInv, TokensInv, NEW r \in Requests, TokenMoves(r)
    PROVE  Apart'
<1> SUFFICES ASSUME NEW j \in Present(sessions'), NEW k \in Present(sessions'),
                    sessions'[j].refresh = sessions'[k].refresh, sessions'[j].refresh # None
             PROVE  j = k
  BY DEF Apart, Present
<1>1. Apart /\ Owned(r) /\ RecordMoves(r)
  BY DEF TokensInv, TokenMoves
<1>2. ASSUME NEW i \in Present(sessions'), sessions'[i].refresh = sessions'[j].refresh
      PROVE  \/ i \in Present(sessions) /\ sessions[i].refresh = sessions'[j].refresh
             \/ i = job[r].key /\ sessions'[j].refresh = Held(r)
  BY <1>1, <1>2, RefreshAfter
<1>3. CASE sessions'[j].refresh = Held(r)
  BY <1>1, <1>2, <1>3 DEF Owned
<1>4. CASE sessions'[j].refresh # Held(r)
  BY <1>1, <1>2, <1>4 DEF Apart
<1>5. QED BY <1>3, <1>4

\* What the record holds is not revoked, but in a session that was recreated.
LEMMA StoredAfter ==
    ASSUME SInv, TokensInv, NEW r \in Requests, TokenMoves(r)
    PROVE  StoredNotRevoked'
<1> SUFFICES ASSUME NEW k \in Present(sessions') \ dropped' PROVE sessions'[k].refresh \notin revoked'
  BY DEF StoredNotRevoked, Present
<1>1. StoredNotRevoked /\ Untouched(r) /\ RecordMoves(r) /\ Revokes(r) /\ revoked \subseteq Tokens
  BY DEF TokensInv, TokenMoves, SInv, SessionTypeOK
<1>2. dropped \subseteq dropped'
  BY <1>1 DEF RecordMoves, Store
<1>3. sessions'[k].refresh \notin revoked
  <2>1. CASE k \in Present(sessions) /\ sessions'[k].refresh = sessions[k].refresh
    BY <1>1, <1>2, <2>1 DEF StoredNotRevoked
  <2>2. CASE sessions'[k].refresh = Held(r) /\ Unstored(r)
    BY <1>1, <2>2, NoneIsNoToken DEF Untouched, Touched
  <2>3. QED BY <1>1, <1>2, <2>1, <2>2, RefreshAfter
<1>4. sessions'[k].refresh \in Refreshes(sessions')
  BY DEF Refreshes
<1>5. QED BY <1>1, <1>3, <1>4 DEF Revokes

\* A new refresh token is still its request's own after a step of any request.
LEMMA OwnedAfter ==
    ASSUME SInv, TokensInv, SInv', NEW r \in Requests, TokenMoves(r), NEW q \in Requests
    PROVE  Owned(q)'
<1> SUFFICES ASSUME Held(q)' # None PROVE Owned(q)'
  BY DEF Owned
<1>1. /\ RecordMoves(r) /\ Receives(r) /\ Spends(r) /\ Proceeds(r) /\ Holds(r)'
      /\ \A p \in Requests \ {r} : pc'[p] = pc[p] /\ job'[p] = job[p]
      /\ \A p \in Requests : Owned(p) /\ Holds(p)
  BY DEF TokensInv, TokenMoves
<1>2. job'[q].tokens # None /\ Held(q)' = job'[q].tokens.refresh
  BY DEF Held
<1>3. pc'[r] = "renew" => Held(r)' = None
  BY <1>1 DEF Holds, Held, Open
<1>4. CASE q # r
  <2>1. /\ job'[q] = job[q] /\ pc'[q] = pc[q] /\ Held(q)' = Held(q) /\ Held(q) # None
        /\ Held(q) # Held(r) /\ Held(q) \in 1..issued /\ Held(q) \notin spent
        /\ pc[r] = "renew" => job[r].refresh # Held(q)
        /\ job[q].tokens.access \notin expired /\ pc[q] # "renew"
    BY <1>1, <1>4, NewTokensApart DEF Held
  <2>2. Held(q) \notin spent'
    BY <1>1, <2>1 DEF Spends
  <2>3. issued' # issued => Held(r)' \in {None, issued + 1}
    BY <1>1 DEF Receives
  <2>4. Held(r)' # Held(q)
    <3>1. CASE issued' = issued
      BY <1>1, <2>1, <3>1, NoneIsNoToken DEF Receives, Held, SInv, SessionTypeOK
    <3>2. CASE issued' # issued
      BY <2>1, <2>3, <3>2 DEF SInv, SessionTypeOK
    <3>3. QED BY <3>1, <3>2
  <2>5. ASSUME NEW k \in Present(sessions'), sessions'[k].refresh = Held(q)
        PROVE  /\ k = job[q].key /\ job[q].stage # "drop"
               /\ sessions'[k].access = job[q].tokens.access /\ sessions'[k].lease = None
    <3>1. k \in Keys /\ sessions'[k] # None /\ Becomes(r, k, sessions[k], sessions'[k])
      BY <1>1, EntryAfter
    <3>2. k \in Present(sessions) /\ sessions[k].refresh = Held(q)
      BY <1>1, <2>1, <2>5, RefreshAfter
    <3>3. /\ k = job[q].key /\ job[q].stage # "drop"
          /\ sessions[k].access = job[q].tokens.access /\ sessions[k].lease = None
      BY <1>1, <2>1, <3>2 DEF Owned
    <3>4. ~TakesLease(r, sessions[k], sessions'[k]) /\ ~Settles(r, sessions[k], sessions'[k])
      BY <2>1, <3>3, NoneIsNoToken DEF TakesLease, Settles
    <3>5. sessions[k] # None
      BY <3>2 DEF Present
    <3>6. QED BY <3>1, <3>3, <3>4, <3>5 DEF Becomes, Used
  <2>6. ASSUME NEW p \in Requests
        PROVE  (p # q => Held(p)' # Held(q)) /\ (pc'[p] = "renew" => job'[p].refresh # Held(q))
    <3>1. CASE p # r
      BY <1>1, <2>1, <3>1 DEF Owned, Held
    <3>2. CASE p = r
      <4>1. ASSUME pc'[r] = "renew", job'[r].refresh = Held(q) PROVE FALSE
        <5>1. job'[r].key \in Present(sessions') /\ sessions'[job'[r].key].lease = r
              /\ sessions'[job'[r].key].refresh = Held(q)
          BY <1>1, <4>1 DEF Proceeds
        <5>2. QED BY <2>5, <5>1, NoneIsNoToken
      <4>2. QED BY <2>4, <3>2, <4>1
    <3>3. QED BY <3>1, <3>2
  <2>7. QED BY <2>1, <2>2, <2>5, <2>6 DEF Owned, Present
<1>5. CASE q = r /\ issued' = issued
  <2>1. job'[r].tokens = job[r].tokens /\ job'[r].stage = job[r].stage /\ Held(r)' = Held(r) /\ Held(r) # None
    <3>1. issued + 1 # issued
      BY DEF SInv, SessionTypeOK
    <3>2. QED BY <1>1, <1>2, <1>5, <3>1 DEF Receives, Held
  <2>2. pc[r] \in Open /\ job[r].tokens # None /\ job[r].tokens.access \notin expired
    BY <1>1, <2>1 DEF Holds, Held
  <2>3. job'[r].key = job[r].key
    BY <1>1, <2>2 DEF Proceeds, Open
  <2>4. spent' = spent
    BY <1>1, <2>2 DEF Spends, Open
  <2>5. ASSUME NEW p \in Requests
        PROVE  (p # r => Held(p)' # Held(r)) /\ (pc'[p] = "renew" => job'[p].refresh # Held(r))
    BY <1>1, <1>3, <2>1 DEF Owned, Held
  <2>6. ASSUME NEW k \in Present(sessions'), sessions'[k].refresh = Held(r)
        PROVE  /\ k = job[r].key /\ job[r].stage # "drop"
               /\ sessions'[k].access = job[r].tokens.access /\ sessions'[k].lease = None
    <3>1. k \in Keys /\ sessions'[k] # None /\ Becomes(r, k, sessions[k], sessions'[k])
      BY <1>1, EntryAfter
    <3>2. CASE k \in Present(sessions) /\ sessions[k].refresh = Held(r)
      <4>1. /\ k = job[r].key /\ job[r].stage # "drop"
            /\ sessions[k].access = job[r].tokens.access /\ sessions[k].lease = None
        BY <1>1, <2>1, <3>2 DEF Owned
      <4>2. ~TakesLease(r, sessions[k], sessions'[k]) /\ ~Settles(r, sessions[k], sessions'[k])
        BY <2>2, <4>1, NoneIsNoToken DEF TakesLease, Settles
      <4>3. QED BY <3>1, <3>2, <4>1, <4>2 DEF Becomes, Used, Present
    <3>3. CASE ~(k \in Present(sessions) /\ sessions[k].refresh = Held(r))
      BY <1>1, <2>6, <3>3, RefreshAfter
    <3>4. QED BY <3>2, <3>3
  <2>7. QED BY <1>1, <1>5, <2>1, <2>3, <2>4, <2>5, <2>6 DEF Owned, Present
<1>6. CASE q = r /\ issued' # issued
  <2>1. /\ issued' = issued + 1 /\ sessions' = sessions /\ Held(r)' = issued + 1 /\ issued \in Nat
    BY <1>1, <1>6 DEF Receives, SInv, SessionTypeOK
  <2>2. issued + 1 \notin 1..issued /\ issued + 1 # None
    BY <2>1, SessionAssumption
  <2>3. KnownTokens
    BY DEF TokensInv
  <2>4. spent' \subseteq 1..issued \cup {None}
    BY <1>1, <2>3 DEF Spends, KnownTokens
  <2>5. \A k \in Present(sessions) : sessions[k].refresh # issued + 1
    BY <2>2, <2>3 DEF KnownTokens
  <2>6. ASSUME NEW p \in Requests
        PROVE  (p # r => Held(p)' # issued + 1) /\ (pc'[p] = "renew" => job'[p].refresh # issued + 1)
    <3>1. CASE p # r
      BY <1>1, <2>2, <2>3, <3>1 DEF KnownTokens, Held
    <3>2. CASE p = r
      BY <1>3, <1>6, <2>2, <3>2
    <3>3. QED BY <3>1, <3>2
  <2>7. QED BY <1>6, <2>1, <2>2, <2>4, <2>5, <2>6 DEF Owned, Present
<1>7. QED BY <1>4, <1>5, <1>6

\* A new refresh token that is not stored has still been nowhere.
LEMMA UntouchedAfter ==
    ASSUME SInv, TokensInv, SInv', NEW r \in Requests, TokenMoves(r), NEW q \in Requests
    PROVE  Untouched(q)'
<1> SUFFICES ASSUME Unstored(q)', Held(q)' # None PROVE Held(q)' \notin Touched'
  BY DEF Untouched
<1>1. /\ RecordMoves(r) /\ Receives(r) /\ Spends(r) /\ Proceeds(r) /\ Revokes(r)
      /\ \A p \in Requests \ {r} : pc'[p] = pc[p] /\ job'[p] = job[p]
      /\ Untouched(q) /\ Carries(q)' /\ Holds(q) /\ Follows(r)
  BY DEF TokensInv, TokenMoves, SInv
<1>2. job'[q].tokens # None
  BY DEF Held
<1>3. CASE q # r
  <2>1. job'[q] = job[q] /\ pc'[q] = pc[q] /\ Held(q)' = Held(q) /\ Held(q) # None /\ Held(q) # Held(r)
    BY <1>1, <1>3, NewTokensApart DEF Held
  <2>2. job[q].key \in Keys
    BY <1>1, <1>2, <2>1 DEF Carries, NoJob, Unstored
  <2>3. Unstored(q)
    <3>1. CASE job[q].stage = "settle" /\ Mine(q)'
      <4>1. job[q].key \in Present(sessions') /\ sessions'[job[q].key].lease = q
        BY <2>1, <2>2, <3>1 DEF Mine, Present
      <4>2. Becomes(r, job[q].key, sessions[job[q].key], sessions'[job[q].key])
        BY <1>1, <4>1, EntryAfter
      <4>3. sessions'[job[q].key] = sessions[job[q].key]
        BY <1>3, <4>1, <4>2, NoneIsNoToken DEF Becomes, Opened, Used, TakesLease, Settles
      <4>4. QED BY <3>1, <4>1, <4>3 DEF Unstored, Mine, Present
    <3>2. CASE job[q].op = "begin" /\ sessions'[job[q].key] = None /\ job[q].key \notin dropped'
      BY <1>1, <2>2, <3>2 DEF RecordMoves, Store, Unstored, Present
    <3>3. QED BY <2>1, <3>1, <3>2 DEF Unstored
  <2>4. QED BY <1>1, <2>1, <2>3, TouchedAfter DEF Untouched
<1>4. CASE q = r /\ issued' = issued
  <2>1. job'[r].tokens = job[r].tokens /\ job'[r].stage = job[r].stage /\ Held(r)' = Held(r) /\ Held(r) # None
    <3>1. issued + 1 # issued
      BY DEF SInv, SessionTypeOK
    <3>2. QED BY <1>1, <1>2, <1>4, <3>1 DEF Receives, Held
  <2>2. pc[r] \in Open /\ job'[r].key = job[r].key /\ job'[r].op = job[r].op
    BY <1>1, <1>4, <2>1 DEF Holds, Held, Open, Proceeds
  <2>3. CASE sessions' = sessions /\ dropped' = dropped
    BY <1>1, <1>2, <1>4, <2>1, <2>2, <2>3, TouchedAfter DEF Untouched, Unstored, Mine
  <2>4. CASE r \in fresh /\ Store(r)
    <3>1. job[r].stage = "settle" => sessions'[job[r].key].lease = None
      BY <1>1, <2>4 DEF Follows, Store
    <3>2. job[r].op = "begin" => sessions'[job[r].key] # None
      BY <1>1, <2>4 DEF Follows, Store
    <3>3. QED BY <1>4, <2>1, <2>2, <3>1, <3>2, NoneIsNoToken DEF Unstored, Mine
  <2>5. QED BY <1>1, <2>3, <2>4 DEF RecordMoves
<1>5. CASE q = r /\ issued' # issued
  <2>1. /\ issued' = issued + 1 /\ sessions' = sessions /\ Held(r)' = issued + 1 /\ issued \in Nat
        /\ revoked' = revoked
    BY <1>1, <1>5 DEF Receives, SInv, SessionTypeOK
  <2>2. Touched \subseteq 1..issued \cup {None}
    BY DEF TokensInv, KnownTokens, Touched, Refreshes
  <2>3. issued + 1 \notin 1..issued /\ issued + 1 # None
    BY <2>1, SessionAssumption
  <2>4. QED BY <1>2, <1>5, <2>1, <2>2, <2>3, TouchedAfter
<1>6. QED BY <1>3, <1>4, <1>5

\* A lease keeps a holder that answers for the token that may be consumed.
LEMMA LeaseAfter ==
    ASSUME SInv, TokensInv, SInv', NEW r \in Requests, TokenMoves(r), NEW k \in Present(sessions')
    PROVE  LeaseHolds(k)'
<1> DEFINE d == sessions[k]
           e == sessions'[k]
<1>1. /\ RecordMoves(r) /\ Spends(r) /\ Proceeds(r)
      /\ \A p \in Requests \ {r} : pc'[p] = pc[p] /\ job'[p] = job[p]
      /\ Owned(r) /\ Presents(r) /\ Holds(r)
  BY DEF TokensInv, TokenMoves
<1>2. /\ k \in Keys /\ e # None /\ Becomes(r, k, d, e)
      /\ e # d => pc[r] \in {"put", "late"}
  BY <1>1, EntryAfter
<1>3. d # None => LeaseHolds(k)
  BY <1>2 DEF TokensInv, Present
<1>4. e.renewing = None <=> e.lease = None
  BY <1>2, <1>3, NoneIsNoToken DEF Becomes, Opened, Used, TakesLease, Settles, LeaseHolds
<1>5. ASSUME NEW q \in Requests, e.lease = q
      PROVE  pc'[q] # "idle" /\ job'[q].key = k /\ job'[q].op \in Access
  <2>1. CASE e = d
    <3>1. pc[q] # "idle" /\ job[q].key = k /\ job[q].op \in Access
      BY <1>2, <1>3, <1>5, <2>1 DEF LeaseHolds
    <3>2. QED BY <1>1, <3>1 DEF Proceeds
  <2>2. CASE e # d
    <3>1. k = job[r].key /\ TakesLease(r, d, e)
      BY <1>2, <1>5, <2>2, NoneIsNoToken DEF Becomes, Opened, Used, Settles
    <3>2. q = r /\ pc[r] # "idle"
      BY <1>2, <1>5, <2>2, <3>1 DEF TakesLease
    <3>3. QED BY <1>1, <3>1, <3>2 DEF TakesLease, Proceeds
  <2>3. QED BY <2>1, <2>2
<1>6. ASSUME e.refresh \in spent'
      PROVE  \E q \in Requests : /\ e.lease = q
                                 /\ ~(job'[q].stage = "main" /\ pc'[q] \in Working)
                                 /\ ~(job'[q].stage = "settle" /\ Held(q)' = None)
  <2>1. CASE e # d
    <3>1. spent' = spent
      BY <1>1, <1>2, <2>1, WritersSpendNothing
    <3>2. ~Opened(r, e)
      BY <1>1, <1>6, <3>1, SpentAreTokens DEF Opened, Owned
    <3>3. d # None
      BY <1>2, <2>1, <3>2 DEF Becomes
    <3>4. ASSUME d.refresh \in spent
          PROVE  d.lease # None /\ ~(job[r].stage = "settle" /\ Held(r) = None /\ d.lease = r)
      BY <1>3, <3>3, <3>4, NoneIsNoToken DEF LeaseHolds
    <3>5. ~Used(d, e) /\ ~TakesLease(r, d, e)
      BY <1>6, <3>1, <3>4 DEF Used, TakesLease
    <3>6. ~Settles(r, d, e)
      BY <1>1, <1>6, <3>1, <3>4 DEF Settles, Owned
    <3>7. QED BY <1>2, <2>1, <3>2, <3>5, <3>6 DEF Becomes
  <2>2. CASE e = d /\ e.refresh \in spent
    <3>1. PICK q \in Requests : /\ d.lease = q
                                /\ ~(job[q].stage = "main" /\ pc[q] \in Working)
                                /\ ~(job[q].stage = "settle" /\ Held(q) = None)
      BY <1>2, <1>3, <2>2 DEF LeaseHolds
    <3>2. pc[q] # "idle"
      BY <1>2, <1>3, <2>2, <3>1 DEF LeaseHolds
    <3>3. CASE q # r
      BY <1>1, <2>2, <3>1, <3>3 DEF Held
    <3>4. CASE q = r
      <4>1. ~(job'[r].stage = "main" /\ pc'[r] \in Working)
        BY <1>1, <3>1, <3>2, <3>4 DEF Proceeds
      <4>2. pc[r] # "renew"
        BY <1>1, <3>1, <3>4 DEF Holds, Open, Working
      <4>3. ~(job'[r].stage = "settle" /\ Held(r)' = None)
        BY <1>1, <3>1, <3>4, <4>2 DEF Proceeds
      <4>4. QED BY <2>2, <3>1, <3>4, <4>1, <4>3
    <3>5. QED BY <3>3, <3>4
  <2>3. CASE e = d /\ e.refresh \notin spent
    <3>1. /\ pc[r] = "renew" /\ e.refresh = job[r].refresh
          /\ ~(job'[r].stage = "main" /\ pc'[r] \in Working)
          /\ ~(job'[r].stage = "settle" /\ Held(r)' = None)
      BY <1>1, <1>6, <2>3 DEF Spends
    <3>2. k \in Present(sessions)
      BY <1>2, <2>3 DEF Present
    <3>3. e.lease = r
      BY <1>1, <2>3, <3>1, <3>2 DEF Presents
    <3>4. QED BY <3>1, <3>3
  <2>4. QED BY <2>1, <2>2, <2>3
<1>7. QED BY <1>4, <1>5, <1>6 DEF LeaseHolds

\* A refresh token that is presented can still be used by its presenter only.
LEMMA PresentsAfter ==
    ASSUME SInv, TokensInv, SInv', NEW r \in Requests, TokenMoves(r), NEW q \in Requests
    PROVE  Presents(q)'
<1>1. /\ RecordMoves(r) /\ Spends(r) /\ Proceeds(r)
      /\ \A p \in Requests \ {r} : pc'[p] = pc[p] /\ job'[p] = job[p]
      /\ Owned(r) /\ \A p \in Requests : Presents(p)
  BY DEF TokensInv, TokenMoves
\* Another's token stays under its lease.
<1>2. ASSUME NEW p \in Requests \ {r}, pc[p] = "renew", NEW k \in Present(sessions'),
             sessions'[k].refresh = job[p].refresh
      PROVE  sessions'[k].lease = p
  <2>1. k \in Keys /\ sessions'[k] # None /\ Becomes(r, k, sessions[k], sessions'[k])
    BY <1>1, EntryAfter
  <2>2. job[p].refresh \in Tokens /\ job[p].refresh # Held(r)
    BY <1>1, <1>2, NoneIsNoToken DEF Owned, SInv, Carries
  <2>3. k \in Present(sessions) /\ sessions[k].refresh = job[p].refresh
    BY <1>1, <1>2, <2>2, RefreshAfter
  <2>4. sessions[k].lease = p
    BY <1>1, <1>2, <2>3 DEF Presents
  <2>5. QED BY <2>1, <2>3, <2>4, NoneIsNoToken DEF Becomes, Used, TakesLease, Settles, Present
\* The token that r presents is the one it has leased.
<1>3. ASSUME pc'[r] = "renew"
      PROVE  /\ job'[r].key \in Present(sessions') /\ sessions'[job'[r].key].lease = r
             /\ sessions'[job'[r].key].refresh = job'[r].refresh
             /\ job'[r].refresh \in Tokens /\ job'[r].stage = "main"
  BY <1>1, <1>3 DEF Proceeds, SInv, Carries
<1>4. ASSUME pc'[r] = "renew", NEW p \in Requests \ {r}, pc[p] = "renew"
      PROVE  job'[r].refresh # job[p].refresh
  BY <1>2, <1>3, <1>4
<1>5. CASE q # r /\ pc[q] = "renew"
  <2>1. pc'[q] = "renew" /\ job'[q] = job[q] /\ job[q].refresh \notin spent
    BY <1>1, <1>5 DEF Presents
  <2>2. job[q].refresh \notin spent'
    BY <1>1, <1>5, <2>1 DEF Spends, Presents
  <2>3. \A p \in Requests \ {q} : pc'[p] = "renew" => job'[p].refresh # job[q].refresh
    BY <1>1, <1>4, <1>5 DEF Presents
  <2>4. QED BY <1>2, <1>5, <2>1, <2>2, <2>3 DEF Presents, Present
<1>6. CASE q = r /\ pc'[r] = "renew"
  <2>1. PICK k \in Present(sessions') : k = job'[r].key
    BY <1>3, <1>6
  <2>2. job'[r].refresh \notin spent'
    <3>1. LeaseHolds(k)'
      BY LeaseAfter
    <3>2. QED BY <1>3, <1>6, <2>1, <3>1 DEF LeaseHolds, Working
  <2>3. \A j \in Present(sessions') : sessions'[j].refresh = job'[r].refresh => j = job'[r].key
    BY <1>3, <1>6, ApartAfter, NoneIsNoToken DEF Apart, Present
  <2>4. QED BY <1>1, <1>3, <1>4, <1>6, <2>2, <2>3 DEF Presents, Present
<1>7. CASE pc'[q] # "renew"
  BY <1>7 DEF Presents
<1>8. QED BY <1>1, <1>5, <1>6, <1>7

\* A step of one request keeps the invariant.
LEMMA TokensKept ==
    ASSUME SInv, TokensInv, SInv', NEW r \in Requests, TokenMoves(r)
    PROVE  TokensInv'
<1>1. ASSUME NEW q \in Requests PROVE Holds(q)' /\ Follows(q)'
  <2>1. CASE q = r
    BY <2>1 DEF TokenMoves
  <2>2. CASE q # r
    <3>1. pc'[q] = pc[q] /\ job'[q] = job[q] /\ expired' = expired /\ Holds(q) /\ Follows(q)
      BY <2>2 DEF TokenMoves, TokensInv
    <3>2. fresh' = {} \/ (sessions' = sessions /\ fresh' \subseteq fresh \cup {r})
      BY DEF TokenMoves, RecordMoves, Store
    <3>3. Holds(q)'
      BY <3>1 DEF Holds
    <3>4. Follows(q)'
      BY <2>2, <3>1, <3>2 DEF Follows, Becomes, Opened, Used, TakesLease, Settles, Held, Removing, Present, Refreshes
    <3>5. QED BY <3>3, <3>4
  <2>3. QED BY <2>1, <2>2
<1>2. \A q \in Requests : Owned(q)' /\ Untouched(q)' /\ Presents(q)'
  BY OwnedAfter, UntouchedAfter, PresentsAfter
<1>3. \A k \in Present(sessions') : LeaseHolds(k)'
  BY LeaseAfter
<1>4. KnownTokens' /\ Apart' /\ StoredNotRevoked'
  BY KnownAfter, ApartAfter, StoredAfter
<1>5. QED BY <1>1, <1>2, <1>3, <1>4 DEF TokensInv, Present

----------------------------------------------------------------------------
(* The kinds of steps a request takes *)

\* A request returns.
LEMMA ReturnMoves ==
    ASSUME SInv, TokensInv, NEW r \in Requests, pc[r] # "idle", NEW o \in Stopped \ {"late"}, Return(r, o),
           RecordMoves(r), r \notin fresh', expired' = expired, issued' = issued,
           \/ spent' = spent
           \/ pc[r] = "renew" /\ sessions' = sessions /\ spent' = spent \cup {job[r].refresh},
           \A t \in revoked' \ revoked : t \notin Refreshes(sessions') /\ (t \in Touched \/ t = Held(r))
    PROVE  TokenMoves(r)
<1>1. /\ pc' = [pc EXCEPT ![r] = o] /\ o \notin Open /\ o \notin Working /\ o # "idle"
      /\ job' = [job EXCEPT ![r] = [NoJob EXCEPT !.op = job[r].op, !.key = job[r].key]]
      /\ pc \in [Requests -> {"idle"} \cup Working \cup Stopped] /\ job \in [Requests -> Job]
  BY DEF Return, Goto, Stopped, Outcomes, Open, Working, SInv, SessionTypeOK
<1>2. /\ pc'[r] = o /\ job'[r] = [NoJob EXCEPT !.op = job[r].op, !.key = job[r].key]
      /\ \A q \in Requests \ {r} : pc'[q] = pc[q] /\ job'[q] = job[q]
  BY <1>1
<1>3. /\ job'[r].tokens = None /\ job'[r].refresh = None /\ job'[r].pending = {}
      /\ job'[r].removed = {} /\ job'[r].verified = {} /\ job'[r].stage = "main"
      /\ job'[r].op = job[r].op /\ job'[r].key = job[r].key
  BY <1>2 DEF NoJob
<1>4. pc'[r] # "renew" /\ Receives(r) /\ Revokes(r)
  BY <1>1, <1>2, <1>3 DEF Receives, Revokes, Working
<1>5. Spends(r)
  BY <1>1, <1>2, <1>3, <1>4 DEF Spends
<1>6. Proceeds(r)
  BY <1>1, <1>2, <1>3, <1>4 DEF Proceeds, Removing
<1>7. Holds(r)' /\ Follows(r)'
  BY <1>3 DEF Holds, Follows
<1>8. QED BY <1>2, <1>4, <1>5, <1>6, <1>7 DEF TokenMoves

\* A request begins its next loop.
LEMMA AgainMoves ==
    ASSUME SInv, TokensInv, NEW r \in Requests, pc[r] # "idle", job[r].op \in Access,
           NEW label \in {"decide", "renew"}, NEW stage \in Decisions,
           NEW refresh, NEW tokens, Again(r, label, stage, refresh, tokens),
           RecordMoves(r), r \notin fresh', expired' = expired, Receives(r), Spends(r), Revokes(r),
           stage = "main" => job[r].stage = "main" /\ pc[r] \in Working /\ tokens = None,
           stage # "main" => label = "decide" /\ pc[r] = "renew",
           tokens # None => tokens.access \notin expired,
           label = "decide" => refresh \in {None, job[r].refresh},
           label = "renew" => /\ job[r].key \in Present(sessions')
                              /\ sessions'[job[r].key].lease = r
                              /\ sessions'[job[r].key].refresh = refresh
    PROVE  TokenMoves(r)
<1>1. /\ pc' = [pc EXCEPT ![r] = label]
      /\ job' = [job EXCEPT ![r] = [@ EXCEPT !.stage = stage, !.refresh = refresh, !.tokens = tokens,
                    !.proposed = now, !.attempt = 0, !.pending = {}, !.removed = {}, !.next = Nothing]]
      /\ pc \in [Requests -> {"idle"} \cup Working \cup Stopped] /\ job \in [Requests -> Job]
  BY DEF Again, Goto, SInv, SessionTypeOK
<1>2. pc'[r] = label /\ \A q \in Requests \ {r} : pc'[q] = pc[q] /\ job'[q] = job[q]
  BY <1>1
<1>3. /\ job'[r].tokens = tokens /\ job'[r].refresh = refresh /\ job'[r].pending = {}
      /\ job'[r].removed = {} /\ job'[r].verified = job[r].verified /\ job'[r].stage = stage
      /\ job'[r].op = job[r].op /\ job'[r].key = job[r].key
  <2>1. job[r] \in Job
    BY <1>1
  <2>2. QED BY <1>1, <2>1 DEF Job
<1>4. Proceeds(r)
  BY <1>2, <1>3 DEF Proceeds, Removing, Working
<1>5. Holds(r)
  BY DEF TokensInv
<1>6. Holds(r)'
  <2>1. stage # "main" => pc'[r] \in Open
    BY <1>2 DEF Open
  <2>2. tokens # None => pc'[r] \in Open /\ stage # "main"
    BY <1>2 DEF Open
  <2>3. QED BY <1>3, <1>5, <2>1, <2>2 DEF Holds
<1>7. Follows(r)'
  BY DEF Follows
<1>8. QED BY <1>2, <1>4, <1>6, <1>7 DEF TokenMoves

\* The tokens whose removal has been stored are not in the record.
LEMMA GoneRevoked ==
    ASSUME NEW r \in Requests, Revoke(Gone(r)), sessions' = sessions
    PROVE  Revokes(r)
<1>1. \A t \in revoked' \ revoked : t \in Removing(r) /\ t \notin Refreshes(sessions)
  BY DEF Revoke, Gone, Removing
<1>2. QED BY <1>1 DEF Revokes, Touched, Refreshes, Present

\* A request asks for a write that follows from the record.
LEMMA WriteMoves ==
    ASSUME SInv, TokensInv, NEW r \in Requests, pc[r] = "decide", NEW next, NEW removed, NEW then,
           Write(r, next, removed, then), Load(r), Revoke(Gone(r)), removed \subseteq Refreshes(sessions),
           then = "lease" => /\ job[r].stage = "main" /\ next[job[r].key] # None
                             /\ next[job[r].key].lease = r /\ next[job[r].key].access \in expired,
           job[r].op = "begin" => next[job[r].key] # None,
           job[r].stage = "settle" => next[job[r].key].lease = None,
           \A k \in Present(next) : Becomes(r, k, sessions[k], next[k])
    PROVE  TokenMoves(r)
<1> DEFINE v == IF job[r].stage = "main" /\ then \in {"grant", "lease"}
                THEN job[r].verified \cup {<<next[job[r].key].access,
                                             IF then = "grant" THEN "live" ELSE "expired">>}
                ELSE job[r].verified
           p == job[r].pending \cap Refreshes(sessions)
<1>1. /\ pc' = [pc EXCEPT ![r] = "put"]
      /\ job' = [job EXCEPT ![r] = [@ EXCEPT !.next = next, !.removed = removed \ {None}, !.then = then,
                                             !.pending = p, !.verified = v]]
      /\ pc \in [Requests -> {"idle"} \cup Working \cup Stopped] /\ job \in [Requests -> Job]
  BY DEF Write, Goto, SInv, SessionTypeOK
<1>2. \A t : <<t, "expired">> \in v => <<t, "expired">> \in job[r].verified \/ t \in expired
  OBVIOUS
<1> HIDE DEF v, p
<1>3. pc'[r] = "put" /\ \A q \in Requests \ {r} : pc'[q] = pc[q] /\ job'[q] = job[q]
  BY <1>1
<1>4. /\ job'[r].tokens = job[r].tokens /\ job'[r].refresh = job[r].refresh /\ job'[r].pending = p
      /\ job'[r].removed = removed \ {None} /\ job'[r].verified = v /\ job'[r].stage = job[r].stage
      /\ job'[r].op = job[r].op /\ job'[r].key = job[r].key
      /\ job'[r].next = next /\ job'[r].then = then
  <2>1. job[r] \in Job
    BY <1>1
  <2>2. QED BY <1>1, <2>1 DEF Job
<1>5. /\ sessions' = sessions /\ dropped' = dropped /\ fresh' = fresh \cup {r}
      /\ issued' = issued /\ expired' = expired /\ spent' = spent
  BY <1>3 DEF Load
<1>6. RecordMoves(r) /\ Receives(r) /\ Spends(r) /\ Revokes(r)
  BY <1>4, <1>5, GoneRevoked DEF RecordMoves, Receives, Spends
<1>7. Removing(r)' \subseteq Refreshes(sessions)
  BY <1>4 DEF Removing, p
<1>8. Held(r)' = Held(r)
  BY <1>4 DEF Held
<1>9. Proceeds(r)
  BY <1>3, <1>4, <1>7, <1>8 DEF Proceeds, Working
<1>10. Holds(r)'
  <2>1. Holds(r)
    BY DEF TokensInv
  <2>2. QED BY <1>2, <1>3, <1>4, <1>5, <2>1 DEF Holds, Open
<1>11. Follows(r)'
  <2>1. \A k \in Present(next) : Becomes(r, k, sessions[k], next[k]) =>
           Becomes(r, k, sessions[k], next[k])'
    BY <1>4, <1>5, <1>8 DEF Becomes, Opened, Used, TakesLease, Settles
  <2>2. QED BY <1>4, <1>5, <1>7, <2>1 DEF Follows, Present, Refreshes
<1>12. QED BY <1>3, <1>5, <1>6, <1>9, <1>10, <1>11 DEF TokenMoves

----------------------------------------------------------------------------
(* The steps *)

\* A decision that returns revokes what is gone, and a new token that is not in the record.
LEMMA DecisionReturnMoves ==
    ASSUME SInv, TokensInv, NEW r \in Requests, pc[r] = "decide", NEW o \in Outcomes, Return(r, o), Load(r),
           Revoke(Gone(r)) \/ (Revoke(Gone(r) \cup {Held(r)}) /\ Held(r) \notin Refreshes(sessions) \ {None})
    PROVE  TokenMoves(r)
<1>1. pc'[r] = o /\ o # "put" /\ o \in Stopped \ {"late"}
  BY DEF Return, Goto, Stopped, Outcomes, SInv, SessionTypeOK
<1>2. r \notin fresh /\ fresh' = fresh /\ sessions' = sessions /\ dropped' = dropped
      /\ issued' = issued /\ expired' = expired /\ spent' = spent
  BY <1>1 DEF Load, SInv, Sound
<1>3. \A t \in revoked' \ revoked : t \notin Refreshes(sessions') /\ (t \in Touched \/ t = Held(r))
  <2>1. Gone(r) \subseteq Touched /\ Gone(r) \cap Refreshes(sessions) = {}
    BY DEF Gone, Touched, Removing
  <2>2. \A t \in revoked' \ revoked : t # None /\ (t \in Gone(r) \/ (t = Held(r) /\ Held(r) \notin Refreshes(sessions) \ {None}))
    BY DEF Revoke
  <2>3. QED BY <1>2, <2>1, <2>2 DEF Refreshes, Present
<1>4. QED BY <1>1, <1>2, <1>3, ReturnMoves DEF RecordMoves

\* A decision that removes a session.
LEMMA RemoveMoves ==
    ASSUME SInv, TokensInv, NEW r \in Requests, pc[r] = "decide", job[r].op \in Access,
           job[r].stage # "settle", sessions[job[r].key] # None,
           Remove(r), Load(r), Revoke(Gone(r))
    PROVE  TokenMoves(r)
<1> DEFINE k == job[r].key
           next == [sessions EXCEPT ![k] = None]
<1>1. k \in Keys /\ Write(r, next, {sessions[k].refresh}, "signin")
  BY DEF Remove, SInv, Carries
<1>2. {sessions[k].refresh} \subseteq Refreshes(sessions)
  BY <1>1 DEF Refreshes, Present
<1>3. \A j \in Present(next) : Becomes(r, j, sessions[j], next[j])
  BY DEF Present, Becomes, SInv, SessionTypeOK
<1>4. job[r].op # "begin"
  BY DEF Access
<1> HIDE DEF next
<1>5. QED BY <1>1, <1>2, <1>3, <1>4, WriteMoves

\* What the decisions of each stage do with tokens.
LEMMA BeginMoves == ASSUME SInv, TokensInv, NEW r \in Requests, DecideBegin(r) PROVE TokenMoves(r)
<1> DEFINE k == job[r].key
           entry == NewEntry(job[r].tokens, job[r].proposed)
           live == {j \in Present(sessions) : ~Ended(sessions[j], now)}
           next == [j \in Keys |-> IF j = k THEN entry ELSE IF j \in live THEN sessions[j] ELSE None]
<1>1. /\ pc[r] = "decide" /\ job[r].op = "begin" /\ k \in Keys /\ job[r].tokens \in Pair /\ job[r] \in Job
      /\ Load(r) /\ Revoke(Gone(r)) /\ job[r].stage # "settle"
  BY DEF DecideBegin, SInv, Carries, SessionTypeOK, Open, Access
<1>2. ASSUME NEW o \in Outcomes, Return(r, o) PROVE TokenMoves(r)
  BY <1>1, <1>2, DecisionReturnMoves
<1>3. CASE sessions[k] = None /\ Write(r, next, {}, "created")
  <2>1. entry \in Entry /\ entry # None /\ job[r].tokens # None
    BY <1>1, NoneIsPair DEF NewEntry, Entry, Pair, Job
  <2>2. Opened(r, entry)
    BY <1>1, <2>1 DEF Opened, NewEntry, Held
  <2>3. ASSUME NEW j \in Present(next) PROVE Becomes(r, j, sessions[j], next[j])
    BY <1>3, <2>2 DEF Becomes, Present
  <2>4. next[k] = entry
    BY <1>1
  <2> HIDE DEF next, entry
  <2>5. QED BY <1>1, <1>3, <2>1, <2>3, <2>4, WriteMoves
<1>4. "created" \in Outcomes /\ "limit" \in Outcomes
  BY DEF Outcomes
<1>5. QED BY <1>2, <1>3, <1>4 DEF DecideBegin

LEMMA EndMoves == ASSUME SInv, TokensInv, NEW r \in Requests, DecideEnd(r) PROVE TokenMoves(r)
<1> DEFINE gone == IF job[r].op = "all" THEN Present(sessions) ELSE {job[r].key} \cap Present(sessions)
           next == [j \in Keys |-> IF j \in gone THEN None ELSE sessions[j]]
           removed == {sessions[j].refresh : j \in gone}
<1>1. /\ pc[r] = "decide" /\ job[r].op \in {"device", "all"} /\ job[r].op # "begin"
      /\ Load(r) /\ Revoke(Gone(r)) /\ job[r].stage = "main" /\ "ended" \in Outcomes
  BY DEF DecideEnd, SInv, Carries, Access, Outcomes
<1>2. CASE Return(r, "ended")
  BY <1>1, <1>2, DecisionReturnMoves
<1>3. CASE Write(r, next, removed, "ended")
  <2>1. removed \subseteq Refreshes(sessions)
    BY DEF Refreshes, Present
  <2>2. \A j \in Present(next) : Becomes(r, j, sessions[j], next[j])
    BY DEF Present, Becomes
  <2> HIDE DEF next, removed
  <2>3. QED BY <1>1, <1>3, <2>1, <2>2, WriteMoves
<1>4. QED BY <1>2, <1>3 DEF DecideEnd

LEMMA EndedMoves == ASSUME SInv, TokensInv, NEW r \in Requests, DecideEnded(r) PROVE TokenMoves(r)
<1>1. /\ pc[r] = "decide" /\ job[r].op \in Access /\ job[r].stage # "settle" /\ Load(r) /\ Revoke(Gone(r))
      /\ "signin" \in Outcomes
  BY DEF DecideEnded, Authorizing, Access, Outcomes
<1>2. Return(r, "signin") \/ (sessions[job[r].key] # None /\ Remove(r))
  BY DEF DecideEnded
<1>3. QED BY <1>1, <1>2, DecisionReturnMoves, RemoveMoves

LEMMA LeasedMoves == ASSUME SInv, TokensInv, NEW r \in Requests, DecideLeased(r) PROVE TokenMoves(r)
<1> DEFINE k == job[r].key
           e == sessions[k]
<1>1. /\ pc[r] = "decide" /\ job[r].op \in Access /\ job[r].stage = "main" /\ Load(r) /\ Revoke(Gone(r))
      /\ k \in Keys /\ e # None
      /\ IF e.lease = r THEN Again(r, "renew", "main", e.refresh, None)
                        ELSE Again(r, "decide", "main", None, None)
  BY DEF DecideLeased, Authorizing, Access, SInv, Carries
<1>2. PICK label \in {"decide", "renew"}, refresh \in {None, e.refresh} :
        /\ Again(r, label, "main", refresh, None)
        /\ label = "decide" => refresh = None
        /\ label = "renew" => e.lease = r /\ refresh = e.refresh
  BY <1>1
<1>3. pc'[r] # "put" /\ job'[r].tokens = None
  BY <1>2 DEF Again, Goto, SInv, SessionTypeOK, Job
<1>4. r \notin fresh /\ fresh' = fresh /\ sessions' = sessions /\ dropped' = dropped
      /\ issued' = issued /\ expired' = expired /\ spent' = spent
  BY <1>1, <1>3 DEF Load, SInv, Sound
<1>5. RecordMoves(r) /\ Receives(r) /\ Spends(r) /\ Revokes(r)
  BY <1>1, <1>3, <1>4, GoneRevoked DEF RecordMoves, Receives, Spends
<1>6. k \in Present(sessions') /\ "main" \in Decisions /\ pc[r] \in Working /\ pc[r] # "idle"
  BY <1>1, <1>4 DEF Present, Decisions, Working
<1>7. QED BY <1>1, <1>2, <1>4, <1>5, <1>6, AgainMoves

LEMMA TokenDecisionMoves == ASSUME SInv, TokensInv, NEW r \in Requests, DecideToken(r) PROVE TokenMoves(r)
<1> DEFINE k == job[r].key
           e == sessions[k]
<1>1. /\ pc[r] = "decide" /\ job[r].op \in Access /\ job[r].stage = "main" /\ Load(r) /\ Revoke(Gone(r))
      /\ k \in Keys /\ e # None /\ e.renewing = None /\ e \in Entry /\ now \in Times
      /\ sessions \in [Keys -> Entry \cup {None}] /\ job[r].proposed \in Times
      /\ job[r].op # "begin" /\ "grant" \in Outcomes
  BY DEF DecideToken, Authorizing, Access, SInv, Carries, SessionTypeOK, Job, Outcomes
<1>2. e.lease = None
  BY <1>1 DEF TokensInv, LeaseHolds, Present
<1>3. CASE Remove(r)
  BY <1>1, <1>3, RemoveMoves
<1>4. CASE Return(r, "grant")
  BY <1>1, <1>4, DecisionReturnMoves
<1>5. ASSUME NEW c \in Entry, NEW then \in {"lease", "grant"}, Write(r, [sessions EXCEPT ![k] = c], {}, then),
             (Used(e, c) /\ then = "grant") \/ (TakesLease(r, e, c) /\ then = "lease")
      PROVE  TokenMoves(r)
  <2> DEFINE next == [sessions EXCEPT ![k] = c]
  <2>1. next[k] = c /\ c # None
    BY <1>1, NoneIsPair
  <2>2. \A j \in Present(next) : Becomes(r, j, sessions[j], next[j])
    BY <1>1, <1>5 DEF Present, Becomes
  <2>3. Write(r, next, {}, then)
    BY <1>5
  <2> HIDE DEF next
  <2>4. then = "lease" => c.lease = r /\ c.access \in expired
    BY <1>5 DEF TakesLease
  <2>5. QED BY <1>1, <2>1, <2>2, <2>3, <2>4, WriteMoves
<1>6. ASSUME "expired" \in Verdicts(r, e.access), e.refresh # None,
             Write(r, [sessions EXCEPT ![k] = [e EXCEPT !.renewing = now, !.lease = r]], {}, "lease")
      PROVE  TokenMoves(r)
  <2> DEFINE c == [e EXCEPT !.renewing = now, !.lease = r]
  <2>1. c \in Entry /\ c.access = e.access /\ c.refresh = e.refresh /\ c.renewing = now /\ c.lease = r
    BY <1>1 DEF Entry
  <2>2. now # None
    BY <1>1, SessionAssumption DEF Times
  <2>3. e.access \in expired
    <3>1. <<e.access, "expired">> \in job[r].verified => e.access \in expired
      BY <1>1 DEF TokensInv, Holds, Entry
    <3>2. QED BY <1>6, <3>1 DEF Verdicts
  <2>4. TakesLease(r, e, c)
    BY <1>1, <1>2, <2>1, <2>2, <2>3 DEF TakesLease
  <2> HIDE DEF c
  <2>5. QED BY <1>5, <1>6, <2>1, <2>4 DEF c
<1>7. ASSUME Write(r, [sessions EXCEPT ![k] = [e EXCEPT !.seen = job[r].proposed]], {}, "grant")
      PROVE  TokenMoves(r)
  <2> DEFINE c == [e EXCEPT !.seen = job[r].proposed]
  <2>1. c \in Entry /\ c.access = e.access /\ c.refresh = e.refresh /\ c.renewing = e.renewing /\ c.lease = e.lease
    BY <1>1 DEF Entry
  <2>2. Used(e, c)
    BY <1>1, <1>2, <2>1 DEF Used
  <2>3. Write(r, [sessions EXCEPT ![k] = c], {}, "grant")
    BY <1>7
  <2>4. c \in Entry /\ "grant" \in {"lease", "grant"}
    BY <2>1
  <2> HIDE DEF c, k, e
  <2>5. QED BY <1>5, <2>2, <2>3, <2>4
<1>8. QED BY <1>3, <1>4, <1>6, <1>7 DEF DecideToken

LEMMA DropMoves == ASSUME SInv, TokensInv, NEW r \in Requests, DecideDrop(r) PROVE TokenMoves(r)
<1>1. /\ pc[r] = "decide" /\ job[r].stage = "drop" /\ Load(r) /\ "signin" \in Outcomes
      /\ job[r].op \in Access
  BY DEF DecideDrop, Outcomes, TokensInv, Holds
<1>2. CASE Mine(r) /\ Remove(r) /\ Revoke(Gone(r))
  BY <1>1, <1>2, RemoveMoves DEF Mine
<1>3. CASE Return(r, "signin") /\ Revoke(Gone(r) \cup {Held(r)})
  <2>1. Held(r) \notin Refreshes(sessions) \ {None}
    BY <1>1 DEF TokensInv, Owned, Refreshes
  <2>2. QED BY <1>1, <1>3, <2>1, DecisionReturnMoves
<1>4. QED BY <1>2, <1>3 DEF DecideDrop, Held

LEMMA SettleMoves == ASSUME SInv, TokensInv, NEW r \in Requests, DecideSettle(r) PROVE TokenMoves(r)
<1> DEFINE k == job[r].key
           e == sessions[k]
           t == job[r].tokens
           seen == IF Touches(r, e) THEN job[r].proposed ELSE e.seen
           c == [e EXCEPT !.access = t.access,
                          !.refresh = IF t.refresh = None THEN e.refresh ELSE t.refresh,
                          !.renewing = None, !.lease = None, !.seen = seen]
           next == [sessions EXCEPT ![k] = c]
<1>1. /\ pc[r] = "decide" /\ job[r].stage = "settle" /\ Load(r)
      /\ "grant" \in Outcomes /\ "signin" \in Outcomes
      /\ job[r].op \in Access /\ k \in Keys /\ t \in Pair /\ t # None /\ Held(r) = t.refresh
      /\ sessions \in [Keys -> Entry \cup {None}] /\ job[r].proposed \in Times
  BY NoneIsPair DEF DecideSettle, Outcomes, TokensInv, Holds, SInv, Carries, Held, SessionTypeOK, Job
<1>2. CASE Return(r, "grant") /\ Revoke(Gone(r))
  BY <1>1, <1>2, DecisionReturnMoves
<1>3. CASE /\ ~(e # None /\ e.renewing = None /\ e.access = t.access)
           /\ Return(r, "signin") /\ Revoke(Gone(r) \cup {t.refresh})
  <2>1. ASSUME NEW j \in Present(sessions), sessions[j].refresh = t.refresh, t.refresh # None PROVE FALSE
    <3>1. j = k /\ e.access = t.access /\ e.lease = None
      BY <1>1, <2>1 DEF TokensInv, Owned
    <3>2. e # None /\ LeaseHolds(k)
      BY <2>1, <3>1 DEF Present, TokensInv
    <3>3. QED BY <1>3, <3>1, <3>2 DEF LeaseHolds
  <2>2. Held(r) \notin Refreshes(sessions) \ {None}
    BY <1>1, <2>1 DEF Refreshes
  <2>3. QED BY <1>1, <1>3, <2>2, DecisionReturnMoves
<1>4. CASE Mine(r) /\ Write(r, next, {}, "grant") /\ Revoke(Gone(r))
  <2>1. e # None /\ e.lease = r /\ e \in Entry
    BY <1>1, <1>4 DEF Mine
  <2>2. seen \in Times
    BY <1>1, <2>1 DEF Entry
  <2> HIDE DEF seen
  <2>3. /\ c \in Entry /\ c.access = t.access /\ c.renewing = None /\ c.lease = None
        /\ c.refresh = IF t.refresh = None THEN e.refresh ELSE t.refresh
    BY <1>1, <2>1, <2>2 DEF Entry, Pair
  <2>4. Settles(r, e, c) /\ c # None
    BY <1>1, <2>1, <2>3, NoneIsPair DEF Settles
  <2> HIDE DEF c
  <2>5. next[k] = c /\ \A j \in Present(next) : Becomes(r, j, sessions[j], next[j])
    BY <1>1, <2>1, <2>4 DEF Present, Becomes
  <2>6. job[r].op # "begin"
    BY <1>1 DEF Access
  <2> HIDE DEF next
  <2>7. QED BY <1>1, <1>4, <2>3, <2>5, <2>6, WriteMoves
<1>5. QED BY <1>2, <1>3, <1>4 DEF DecideSettle

\* What a request with new tokens may revoke when its write is stored.
LEMMA FreedMoves ==
    ASSUME SInv, TokensInv, NEW r \in Requests, r \in fresh, Store(r), Revoke(Freed(r))
    PROVE  \A t \in revoked' \ revoked : t \notin Refreshes(sessions') /\ (t \in Touched \/ t = Held(r))
<1>1. RecordMoves(r) /\ sessions' = job[r].next
  BY DEF RecordMoves, Store
<1> SUFFICES ASSUME NEW t \in revoked', t \notin revoked
             PROVE  t \notin Refreshes(sessions') /\ (t \in Touched \/ t = Held(r))
  OBVIOUS
<1>2. t \in Freed(r) /\ t # None
  BY DEF Revoke
<1>3. CASE t \in Removing(r) /\ t \notin Refreshes(job[r].next)
  BY <1>1, <1>3 DEF Touched, Refreshes, Present
<1>4. CASE job[r].stage = "drop" /\ job[r].tokens # None /\ t = job[r].tokens.refresh
  <2>1. t = Held(r)
    BY <1>4 DEF Held
  <2>2. ASSUME NEW k \in Present(sessions'), sessions'[k].refresh = t PROVE FALSE
    <3>1. k \in Present(sessions) /\ sessions[k].refresh = t
      BY <1>1, <1>4, <2>2, RefreshAfter
    <3>2. QED BY <1>2, <1>4, <2>1, <3>1 DEF TokensInv, Owned
  <2>3. QED BY <2>1, <2>2 DEF Refreshes
<1>5. QED BY <1>2, <1>3, <1>4 DEF Freed, Removing

\* What the answers to a write do with tokens.
LEMMA StoredMoves == ASSUME SInv, TokensInv, NEW r \in Requests, Stored(r) PROVE TokenMoves(r)
<1>1. /\ pc[r] = "put" /\ r \in fresh /\ Store(r) /\ Revoke(Freed(r))
      /\ issued' = issued /\ expired' = expired /\ spent' = spent /\ r \notin fresh'
      /\ sessions' = job[r].next /\ Follows(r) /\ Carries(r) /\ Writes(r) /\ job[r].then \in Outcomes \cup {"lease"}
  BY DEF Stored, Store, TokensInv, SInv, SessionTypeOK, Job
<1>2. \A t \in revoked' \ revoked : t \notin Refreshes(sessions') /\ (t \in Touched \/ t = Held(r))
  BY <1>1, FreedMoves
<1>3. RecordMoves(r)
  BY <1>1 DEF RecordMoves
<1>4. CASE job[r].then # "lease"
  <2>1. Return(r, job[r].then) /\ job[r].then \in Stopped \ {"late"} /\ pc[r] # "idle"
    BY <1>1, <1>4 DEF Stored, Stopped, Outcomes
  <2>2. QED BY <1>1, <1>2, <1>3, <2>1, ReturnMoves
<1>5. CASE job[r].then = "lease"
  <2>1. Again(r, "renew", "main", job[r].next[job[r].key].refresh, None)
    BY <1>5 DEF Stored
  <2>2. /\ job[r].op \in Access /\ job[r].key \in Keys /\ job[r].stage = "main"
        /\ job[r].key \in Present(sessions') /\ sessions'[job[r].key].lease = r
    BY <1>1, <1>5 DEF Follows, Carries, Writes, Present
  <2>3. job'[r].tokens = None
    BY <2>1 DEF Again, SInv, SessionTypeOK, Job
  <2>4. Receives(r) /\ Spends(r) /\ Revokes(r)
    BY <1>1, <1>2, <2>3 DEF Receives, Spends, Revokes
  <2>5. "main" \in Decisions /\ pc[r] \in Working /\ pc[r] # "idle"
    BY <1>1 DEF Decisions, Working
  <2>6. QED BY <1>1, <1>3, <2>1, <2>2, <2>4, <2>5, AgainMoves
<1>6. QED BY <1>4, <1>5

\* A write that may have been stored.
LEMMA StoreOrKeepMoves ==
    ASSUME NEW r \in Requests, (r \in fresh /\ Store(r)) \/ Keep(r)
    PROVE  RecordMoves(r) /\ r \notin fresh'
  BY DEF RecordMoves, Store, Keep

LEMMA ConflictMoves == ASSUME SInv, TokensInv, NEW r \in Requests, Conflict(r) PROVE TokenMoves(r)
<1>1. /\ pc[r] = "put" /\ pc' = [pc EXCEPT ![r] = "decide"]
      /\ job' = [job EXCEPT ![r] = [@ EXCEPT
                 !.attempt = job[r].attempt + 1, !.pending = job[r].pending \cup job[r].removed,
                 !.removed = {}, !.next = Nothing]]
      /\ issued' = issued /\ expired' = expired /\ spent' = spent /\ revoked' = revoked
      /\ RecordMoves(r) /\ r \notin fresh' /\ Holds(r)
      /\ pc \in [Requests -> {"idle"} \cup Working \cup Stopped] /\ job \in [Requests -> Job]
  BY StoreOrKeepMoves DEF Conflict, Goto, provider, TokensInv, SInv, SessionTypeOK
<1>2. pc'[r] = "decide" /\ \A q \in Requests \ {r} : pc'[q] = pc[q] /\ job'[q] = job[q]
  BY <1>1
<1>3. /\ job'[r].tokens = job[r].tokens /\ job'[r].refresh = job[r].refresh
      /\ job'[r].pending = Removing(r) /\ job'[r].removed = {}
      /\ job'[r].verified = job[r].verified /\ job'[r].stage = job[r].stage
      /\ job'[r].op = job[r].op /\ job'[r].key = job[r].key
  <2>1. job[r] \in Job
    BY <1>1
  <2>2. QED BY <1>1, <2>1 DEF Job, Removing
<1>4. Held(r)' = Held(r) /\ Removing(r)' = Removing(r)
  BY <1>3 DEF Held, Removing
<1>5. Receives(r) /\ Spends(r) /\ Revokes(r)
  BY <1>1, <1>3 DEF Receives, Spends, Revokes
<1>6. Proceeds(r)
  BY <1>1, <1>2, <1>3, <1>4 DEF Proceeds, Working
<1>7. Holds(r)' /\ Follows(r)'
  BY <1>1, <1>2, <1>3 DEF Holds, Follows, Open
<1>8. QED BY <1>1, <1>2, <1>5, <1>6, <1>7 DEF TokenMoves

LEMMA FailMoves == ASSUME SInv, TokensInv, NEW r \in Requests, Fail(r) PROVE TokenMoves(r)
<1>1. /\ pc[r] \in {"decide", "put"} /\ Return(r, "failed") /\ RecordMoves(r) /\ r \notin fresh'
      /\ issued' = issued /\ expired' = expired /\ spent' = spent /\ Carries(r) /\ Holds(r)
  BY StoreOrKeepMoves DEF Fail, TokensInv, SInv
<1>2. ASSUME NEW t \in revoked' \ revoked PROVE t \notin Refreshes(sessions') /\ t = Held(r)
  <2>1. job[r].stage = "settle" /\ t = job[r].tokens.refresh /\ t \notin Refreshes(sessions')
    BY <1>2 DEF Fail, Revoke
  <2>2. job[r].tokens # None
    BY <1>1, <2>1, NoneIsPair DEF Carries, NoJob
  <2>3. QED BY <2>1, <2>2 DEF Held
<1>3. "failed" \in Stopped \ {"late"} /\ pc[r] # "idle"
  BY <1>1 DEF Stopped
<1>4. QED BY <1>1, <1>2, <1>3, ReturnMoves

LEMMA LateMoves == ASSUME SInv, TokensInv, NEW r \in Requests, Late(r) PROVE TokenMoves(r)
<1>1. /\ pc[r] = "late" /\ Return(r, "failed") /\ RecordMoves(r) /\ r \notin fresh'
      /\ issued' = issued /\ expired' = expired /\ spent' = spent /\ revoked' = revoked
  BY StoreOrKeepMoves DEF Late, provider
<1>2. "failed" \in Stopped \ {"late"} /\ pc[r] # "idle"
  BY <1>1 DEF Stopped
<1>3. QED BY <1>1, <1>2, ReturnMoves

LEMMA CancelMoves == ASSUME SInv, TokensInv, NEW r \in Requests, Cancel(r) PROVE TokenMoves(r)
<1>1. /\ pc[r] \in Working /\ sessions' = sessions /\ fresh' = fresh /\ dropped' = dropped
      /\ issued' = issued /\ expired' = expired /\ revoked' = revoked
      /\ spent' = spent \/ (pc[r] = "renew" /\ spent' = spent \cup {job[r].refresh})
      /\ pc \in [Requests -> {"idle"} \cup Working \cup Stopped] /\ job \in [Requests -> Job]
      /\ RecordMoves(r)
  BY DEF Cancel, record, RecordMoves, SInv, SessionTypeOK
<1>2. CASE pc[r] = "put"
  <2>1. pc' = [pc EXCEPT ![r] = "late"] /\ job' = job /\ spent' = spent
    BY <1>1, <1>2 DEF Cancel, Goto
  <2>2. pc'[r] = "late" /\ \A q \in Requests \ {r} : pc'[q] = pc[q] /\ job'[q] = job[q]
    BY <1>1, <2>1
  <2>3. Held(r)' = Held(r) /\ Removing(r)' = Removing(r) /\ Holds(r) /\ Follows(r)
    BY <2>1 DEF Held, Removing, TokensInv
  <2>4. Receives(r) /\ Spends(r) /\ Revokes(r)
    BY <1>1, <2>1 DEF Receives, Spends, Revokes
  <2>5. Proceeds(r)
    BY <1>2, <2>1, <2>2, <2>3 DEF Proceeds, Working
  <2>6. Holds(r)'
    BY <1>1, <2>1, <2>2, <2>3 DEF Holds, Open
  <2>7. Follows(r)'
    BY <1>1, <2>1, <2>3 DEF Follows, Becomes, Opened, Used, TakesLease, Settles, Held, Removing, Present, Refreshes
  <2>8. QED BY <1>1, <2>2, <2>4, <2>5, <2>6, <2>7 DEF TokenMoves
<1>3. CASE pc[r] # "put"
  <2>1. Return(r, "failed") /\ "failed" \in Stopped \ {"late"} /\ pc[r] # "idle"
    BY <1>1, <1>3 DEF Cancel, Stopped, Working
  <2>2. r \notin fresh'
    BY <1>1, <1>3 DEF SInv, Sound, Working
  <2>3. QED BY <1>1, <2>1, <2>2, ReturnMoves
<1>4. QED BY <1>2, <1>3

\* The provider has answered, or has not.
LEMMA AnsweredMoves ==
    ASSUME SInv, TokensInv, NEW r \in Requests, Renewed(r) \/ NotRenewed(r)
    PROVE  TokenMoves(r)
<1>1. /\ pc[r] = "renew" /\ sessions' = sessions /\ fresh' = fresh /\ dropped' = dropped
      /\ expired' = expired /\ revoked' = revoked /\ r \notin fresh
      /\ job[r].op \in Access /\ issued \in Nat
      /\ pc \in [Requests -> {"idle"} \cup Working \cup Stopped] /\ job \in [Requests -> Job]
  BY DEF Renewed, NotRenewed, record, SInv, Sound, Carries, SessionTypeOK
<1>2. RecordMoves(r) /\ Revokes(r)
  BY <1>1 DEF RecordMoves, Revokes
<1>3. PICK stage \in {"settle", "drop"}, tokens \in Pair \cup {None} :
        /\ Again(r, "decide", stage, job[r].refresh, tokens)
        /\ \/ /\ tokens = None /\ issued' = issued /\ stage = "drop"
              /\ spent' \in {spent, spent \cup {job[r].refresh}}
           \/ /\ issued' = issued + 1
              /\ \E rotated \in BOOLEAN :
                   /\ tokens = [access |-> issued', refresh |-> IF rotated THEN issued' ELSE None]
                   /\ spent' = IF rotated THEN spent \cup {job[r].refresh} ELSE spent
  <2>1. CASE NotRenewed(r)
    BY <2>1 DEF NotRenewed
  <2>2. CASE Renewed(r)
    <3>1. PICK rotated \in BOOLEAN, stage \in {"settle", "drop"} :
            /\ spent' = IF rotated THEN spent \cup {job[r].refresh} ELSE spent
            /\ Again(r, "decide", stage, job[r].refresh,
                     [access |-> issued', refresh |-> IF rotated THEN issued' ELSE None])
      BY <2>2 DEF Renewed
    <3>2. issued' = issued + 1 /\ issued' \in Tokens
      BY <1>1, <2>2, SessionAssumption DEF Renewed, Tokens
    <3>3. [access |-> issued', refresh |-> IF rotated THEN issued' ELSE None] \in Pair
      BY <3>2 DEF Pair
    <3>4. QED BY <3>1, <3>2, <3>3
  <2>3. QED BY <2>1, <2>2
<1>4. pc'[r] = "decide" /\ job'[r].tokens = tokens /\ job'[r].stage = stage
  BY <1>1, <1>3 DEF Again, Goto, Job
<1>6. CASE tokens = None /\ issued' = issued /\ stage = "drop" /\ spent' \in {spent, spent \cup {job[r].refresh}}
  <2>1. Receives(r) /\ Spends(r)
    BY <1>1, <1>4, <1>6 DEF Receives, Spends
  <2>2. QED BY <1>1, <1>2, <1>3, <1>6, <2>1, AgainMoves DEF Decisions
<1>7. ASSUME NEW rotated \in BOOLEAN, issued' = issued + 1,
             tokens = [access |-> issued', refresh |-> IF rotated THEN issued' ELSE None],
             spent' = IF rotated THEN spent \cup {job[r].refresh} ELSE spent
      PROVE  TokenMoves(r)
  <2>1. issued' # None /\ issued + 1 \notin 1..issued /\ issued \in 0..MaxTokens /\ issued' \in 0..MaxTokens
    BY <1>1, <1>3, <1>7, SessionAssumption DEF SInv, SessionTypeOK, Renewed, NotRenewed
  <2>2. tokens # None
    <3>1. tokens \in Pair
      BY <1>1, <1>7, <2>1, SessionAssumption DEF Pair, Tokens
    <3>2. QED BY <3>1, NoneIsPair
  <2>3. Held(r)' = (IF rotated THEN issued' ELSE None)
    BY <1>4, <1>7, <2>2 DEF Held
  <2>4. Receives(r)
    BY <1>1, <1>4, <1>7, <2>2, <2>3 DEF Receives
  <2>5. Spends(r)
    BY <1>1, <1>3, <1>4, <1>7, <2>1, <2>3 DEF Spends
  <2>6. tokens.access \notin expired
    BY <1>7, <2>1 DEF TokensInv, KnownTokens
  <2>7. QED BY <1>1, <1>2, <1>3, <2>4, <2>5, <2>6, AgainMoves DEF Decisions
<1>8. QED BY <1>3, <1>6, <1>7

\* A request is called.
LEMMA CalledMoves ==
    ASSUME SInv, TokensInv, NEW r \in Requests, NEW j, pc[r] = "idle", Goto(r, "decide"),
           job' = [job EXCEPT ![r] = j],
           UNCHANGED <<sessions, fresh, dropped, expired, spent, revoked>>,
           j.stage = "main" /\ j.refresh = None /\ j.pending = {} /\ j.removed = {} /\ j.verified = {},
           \/ j.tokens = None /\ issued' = issued
           \/ /\ issued' = issued + 1 /\ j.op = "begin"
              /\ j.tokens # None /\ j.tokens.access = issued' /\ j.tokens.refresh \in {None, issued'}
    PROVE  TokenMoves(r)
<1>1. pc \in [Requests -> {"idle"} \cup Working \cup Stopped] /\ job \in [Requests -> Job]
      /\ issued \in Nat /\ r \notin fresh
  BY DEF SInv, SessionTypeOK, Sound
<1>2. /\ pc'[r] = "decide" /\ job'[r] = j
      /\ \A q \in Requests \ {r} : pc'[q] = pc[q] /\ job'[q] = job[q]
  BY <1>1 DEF Goto
<1>3. RecordMoves(r) /\ Receives(r) /\ Spends(r) /\ Revokes(r)
  BY <1>2 DEF RecordMoves, Receives, Spends, Revokes, Held
<1>4. Proceeds(r)
  BY <1>2 DEF Proceeds, Removing
<1>5. issued + 1 \notin expired
  BY <1>1 DEF TokensInv, KnownTokens
<1>6. Holds(r)' /\ Follows(r)'
  BY <1>1, <1>2, <1>5 DEF Holds, Follows, Open
<1>7. QED BY <1>2, <1>3, <1>4, <1>6 DEF TokenMoves

\* What a call does with tokens.
LEMMA StartMoves == ASSUME SInv, TokensInv, NEW r \in Requests, Start(r) PROVE TokenMoves(r)
<1>1. PICK k \in Keys :
        \/ Begin(r, k)
        \/ \E scope \in {"device", "all"} : End(r, k, scope)
        \/ \E access \in {"passive", "active"} : Authorize(r, k, access)
  BY DEF Start
<1>2. CASE Begin(r, k)
  <2>1. PICK refresh \in {issued', None} :
          job' = [job EXCEPT ![r] = [NoJob EXCEPT !.op = "begin", !.key = k, !.proposed = now,
                                                  !.tokens = [access |-> issued', refresh |-> refresh]]]
    BY <1>2 DEF Begin
  <2> DEFINE pair == [access |-> issued', refresh |-> refresh]
             j == [NoJob EXCEPT !.op = "begin", !.key = k, !.proposed = now, !.tokens = pair]
  <2>2. /\ pc[r] = "idle" /\ Goto(r, "decide") /\ issued' = issued + 1 /\ issued < MaxTokens
        /\ UNCHANGED <<sessions, fresh, dropped, expired, spent, revoked>> /\ issued \in 0..MaxTokens
    BY <1>2 DEF Begin, record, SInv, SessionTypeOK
  <2>3. pair # None
    <3>1. pair \in Pair
      BY <2>2, SessionAssumption DEF Pair, Tokens
    <3>2. QED BY <3>1, NoneIsPair
  <2>4. pair.access = issued' /\ pair.refresh \in {None, issued'}
    OBVIOUS
  <2>5. job' = [job EXCEPT ![r] = j]
    BY <2>1
  <2> HIDE DEF pair
  <2>6. /\ j.stage = "main" /\ j.refresh = None /\ j.pending = {} /\ j.removed = {} /\ j.verified = {}
        /\ j.op = "begin" /\ j.tokens = pair
    BY DEF NoJob
  <2> HIDE DEF j
  <2>7. QED BY <2>2, <2>3, <2>4, <2>5, <2>6, CalledMoves
<1>3. ASSUME NEW op, Call(r, op, k), UNCHANGED issued PROVE TokenMoves(r)
  <2> DEFINE j == [NoJob EXCEPT !.op = op, !.key = k, !.proposed = now]
  <2>1. /\ pc[r] = "idle" /\ Goto(r, "decide") /\ job' = [job EXCEPT ![r] = j]
        /\ UNCHANGED <<sessions, fresh, dropped, expired, spent, revoked>>
    BY <1>3 DEF Call, record
  <2>2. /\ j.stage = "main" /\ j.refresh = None /\ j.pending = {} /\ j.removed = {} /\ j.verified = {}
        /\ j.tokens = None
    BY DEF NoJob
  <2> HIDE DEF j
  <2>3. QED BY <1>3, <2>1, <2>2, CalledMoves
<1>4. QED BY <1>1, <1>2, <1>3 DEF End, Authorize

\* Tokens expire, and time passes.
LEMMA TokensRest ==
    ASSUME SInv, TokensInv,
           UNCHANGED <<sessions, fresh, dropped, pc, job, issued, spent, revoked>>,
           expired' = expired \/ (\E t \in Tokens : Expire(t))
    PROVE  TokensInv'
<1>1. /\ expired \subseteq expired' /\ expired' \subseteq 1..issued
      /\ \A r \in Requests : job[r].tokens # None => job[r].tokens.access \notin expired'
  BY DEF Expire, TokensInv, KnownTokens, Holds, Present
<1>2. KnownTokens'
  BY <1>1 DEF TokensInv, KnownTokens, Held, Removing, Present
<1>3. ASSUME NEW r \in Requests PROVE Holds(r)' /\ Follows(r)'
  <2>1. Holds(r)'
    BY <1>1 DEF TokensInv, Holds
  <2>2. Follows(r)'
    <3>1. Held(r)' = Held(r) /\ Removing(r)' = Removing(r) /\ Refreshes(sessions)' = Refreshes(sessions)
          /\ Present(job[r].next)' = Present(job[r].next)
      BY DEF Held, Removing, Refreshes, Present
    <3>2. ASSUME NEW k, NEW d, NEW e, Becomes(r, k, d, e) PROVE Becomes(r, k, d, e)'
      <4>1. /\ Opened(r, e) => Opened(r, e)'
            /\ TakesLease(r, d, e) => TakesLease(r, d, e)'
            /\ Settles(r, d, e) => Settles(r, d, e)'
        BY <1>1, <3>1 DEF Opened, TakesLease, Settles
      <4>2. Used(d, e)' = Used(d, e)
        BY DEF Used
      <4>3. QED BY <3>2, <4>1, <4>2 DEF Becomes
    <3>3. r \in fresh => \A k \in Present(job[r].next) : Becomes(r, k, sessions[k], job[r].next[k])
      BY DEF TokensInv, Follows
    <3>4. r \in fresh => \A k \in Present(job[r].next) : Becomes(r, k, sessions[k], job[r].next[k])'
      BY <3>2, <3>3
    <3>5. QED BY <3>1, <3>4 DEF TokensInv, Follows
  <2>3. QED BY <2>1, <2>2
<1>4. ASSUME NEW r \in Requests PROVE Owned(r)' /\ Untouched(r)' /\ Presents(r)'
  BY DEF TokensInv, Owned, Untouched, Unstored, Mine, Presents, Held, Touched, Removing, Present, Refreshes
<1>5. \A k \in Present(sessions) : LeaseHolds(k)'
  BY DEF TokensInv, LeaseHolds, Held
<1>6. Apart' /\ StoredNotRevoked'
  BY DEF TokensInv, Apart, StoredNotRevoked, Present
<1>7. QED BY <1>2, <1>3, <1>4, <1>5, <1>6 DEF TokensInv, Present

\* What any step of a request does with tokens.
LEMMA RequestMoves ==
    ASSUME SInv, TokensInv, NEW r \in Requests, Start(r) \/ Proceed(r) \/ Cancel(r)
    PROVE  TokenMoves(r)
  BY StartMoves, CancelMoves, BeginMoves, EndMoves, EndedMoves, LeasedMoves, TokenDecisionMoves, DropMoves,
     SettleMoves, StoredMoves, ConflictMoves, FailMoves, LateMoves, AnsweredMoves DEF Proceed, Decide

\* At the start one session holds the one token pair.
LEMMA TokensBegin == ASSUME Init PROVE TokensInv
<1>1. /\ First \in Keys /\ None \notin {1} /\ 1 \in Tokens
      /\ sessions = [Nothing EXCEPT ![First] = NewEntry([access |-> 1, refresh |-> 1], 0)]
      /\ pc = [r \in Requests |-> "idle"] /\ job = [r \in Requests |-> NoJob] /\ fresh = {}
      /\ issued = 1 /\ spent = {} /\ revoked = {} /\ expired = {}
  BY SessionAssumption DEF Init, Tokens
<1>2. Present(sessions) \subseteq {First} /\ sessions[First] = NewEntry([access |-> 1, refresh |-> 1], 0)
  BY <1>1 DEF Present, Nothing
<1>3. ASSUME NEW k \in Present(sessions)
      PROVE  /\ k = First /\ sessions[k].access = 1 /\ sessions[k].refresh = 1
             /\ sessions[k].renewing = None /\ sessions[k].lease = None
  BY <1>2 DEF NewEntry
<1>4. \A r \in Requests : Held(r) = None /\ Removing(r) = {}
  BY <1>1 DEF Held, Removing, NoJob
<1>5. KnownTokens
  <2>1. 1 \in 1..issued
    BY <1>1
  <2>2. revoked \cup spent \cup expired \subseteq 1..issued
    BY <1>1
  <2>3. \A k \in Present(sessions) : sessions[k].access \in 1..issued
                                   /\ sessions[k].refresh \in 1..issued \cup {None}
    BY <1>3, <2>1
  <2>4. \A r \in Requests : job[r].tokens = None /\ job[r].refresh = None
    BY <1>1 DEF NoJob
  <2>5. \A r \in Requests :
         /\ job[r].tokens # None => job[r].tokens.access \in 1..issued
         /\ Held(r) \in 1..issued \cup {None} /\ job[r].refresh \in 1..issued \cup {None}
         /\ Removing(r) \subseteq 1..issued
    BY <1>4, <2>4
  <2>6. QED BY <2>2, <2>3, <2>5 DEF KnownTokens
<1>6. Apart /\ StoredNotRevoked
  <2>1. Apart
    <3>1. \A k \in Present(sessions) : k = First
      BY <1>3
    <3>2. QED BY <3>1 DEF Apart
  <2>2. StoredNotRevoked
    BY <1>1 DEF StoredNotRevoked
  <2>3. QED BY <2>1, <2>2
<1>7. \A k \in Present(sessions) : LeaseHolds(k)
  BY <1>1, <1>3, NoneIsNoToken DEF LeaseHolds
<1>8. \A r \in Requests : Holds(r) /\ Owned(r) /\ Untouched(r) /\ Presents(r) /\ Follows(r)
  BY <1>1, <1>4 DEF Holds, Owned, Untouched, Presents, Follows, NoJob
<1>9. QED BY <1>5, <1>6, <1>7, <1>8 DEF TokensInv

\* Who has which token stays as it should, however requests, renewals and late writes interleave
\* (reader_sessions.py:186-385).
THEOREM TokensInvariant == Spec => []TokensInv
<1>1. Init => TokensInv
  BY TokensBegin
<1>2. SInv /\ TokensInv /\ SInv' /\ [Next]_vars => TokensInv'
  <2> SUFFICES ASSUME SInv, TokensInv, SInv', [Next]_vars PROVE TokensInv'
    OBVIOUS
  <2>1. ASSUME NEW r \in Requests, Start(r) \/ Proceed(r) \/ Cancel(r) PROVE TokensInv'
    BY <2>1, RequestMoves, TokensKept
  <2>2. CASE (\E t \in Tokens : Expire(t)) \/ Tick \/ UNCHANGED vars
    <3>1. UNCHANGED <<sessions, fresh, dropped, pc, job, issued, spent, revoked>>
      BY <2>2 DEF Expire, Tick, vars, record, provider, calm
    <3>2. expired' = expired \/ (\E t \in Tokens : Expire(t))
      BY <2>2 DEF Tick, vars, provider
    <3>3. QED BY <3>1, <3>2, TokensRest
  <2>3. QED BY <2>1, <2>2 DEF Next
<1>3. QED BY <1>1, <1>2, SessionInvariant, PTL DEF Spec

\* For any number of sessions, requests and renewals: what the record holds has not been revoked, but
\* in a session that a login has recreated, and no request presents a refresh token that the provider
\* has, or may have, consumed (_commit, _renew).
THEOREM TokensStaySafe == Spec => TokensSafe
<1> DEFINE NoReplay == \A r \in Requests :
              pc[r] = "renew" /\ pc'[r] = "decide" => job[r].refresh \notin spent
<1>1. TokensInv' => StoredNotRevoked'
  BY DEF TokensInv
<1>2. TokensInv => NoReplay
  BY DEF TokensInv, Presents
<1> HIDE DEF NoReplay
<1>3. [][NoReplay]_vars => NeverReplayed
  BY PTL DEF NoReplay, NeverReplayed
<1>4. QED BY <1>1, <1>2, <1>3, TokensInvariant, PTL DEF Spec, TokensSafe
=============================================================================
