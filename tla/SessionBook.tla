----------------------------- MODULE SessionBook -----------------------------
(***************************************************************************)
(* Reader sessions: SessionBook of reader_sessions.py over one owner       *)
(* record, reader/owners/<subject>, shared by every replica.               *)
(*                                                                         *)
(* Every operation is a bounded compare-and-swap loop: load the record,    *)
(* decide, write it back, and decide again after a definite conflict.  The *)
(* record's ciphertext is new with every write, so a version is never met  *)
(* twice: a request's version is current until anybody writes.  A write    *)
(* may commit and still be answered with a conflict (the client retried    *)
(* it) or with an error, and a cancelled request's write may still arrive. *)
(***************************************************************************)
EXTENDS Naturals, FiniteSets

CONSTANTS
    Keys,           \* session keys, the digests of cookies
    Requests,       \* requests; each is one call, and its own lease nonce
    SessionCap, Idle, Lifetime, LeaseSeconds, WriteAttempts,
    MaxTime,        \* bound: the clock stops here
    MaxTokens,      \* bound: the provider issues this many token pairs
    MaxFaults,      \* bound: refusals, errors, cancellations and lost answers
    First,          \* the session an earlier run left in the record
    None

ASSUME SessionAssumption ==
    /\ First \in Keys
    /\ SessionCap \in Nat \ {0}
    /\ WriteAttempts \in Nat
    /\ LeaseSeconds \in Nat /\ Idle \in Nat /\ Lifetime \in Nat
    /\ MaxTime \in Nat /\ MaxTokens \in Nat \ {0} /\ MaxFaults \in Nat
    /\ None \notin Keys \cup Requests \cup Nat

VARIABLES
    sessions,   \* the record: each key's entry, or None
    pc, job,    \* each request: where it is, what it carries
    fresh,      \* the requests whose version of the record is still current
    now,        \* the clock, shared by the replicas
    issued,     \* token pairs the provider has issued: 1..issued
    faults,     \* how many faults have happened
    expired,    \* the access tokens that have expired
    spent,      \* refresh tokens the provider has consumed, or may have
    revoked,    \* refresh tokens whose revocation was requested
    delivered,  \* keys whose cookie was handed out (history variable)
    closed,     \* keys whose logout was acknowledged (history variable)
    dropped     \* keys a write has removed from the record (history variable)

provider == <<issued, expired, spent, revoked>>
ghosts   == <<delivered, closed>>
calm     == <<faults, ghosts>>
record   == <<sessions, fresh, dropped>>
vars     == <<record, pc, job, now, provider, calm>>

Tokens == 1..MaxTokens
Times  == 0..MaxTime

Entry == [access : Tokens, refresh : Tokens \cup {None}, created : Times, seen : Times,
          renewing : Times \cup {None}, lease : Requests \cup {None}]

Operations == {"begin", "device", "all", "passive", "active"}
Decisions  == {"main", "drop", "settle"}
Outcomes   == {"created", "limit", "ended", "grant", "signin"}
Working    == {"decide", "put", "renew"}
Stopped    == {"late", "failed"} \cup Outcomes

Pair == [access : Tokens, refresh : Tokens \cup {None}]

ASSUME AbsenceAssumption == None \notin Entry \cup Pair

\* What a write will store, what it removes, and what the request does once it is stored.
Job == [op : Operations \cup {None}, key : Keys \cup {None}, stage : Decisions,
        attempt : 0..WriteAttempts, proposed : Times,
        verified : SUBSET (Tokens \X {"live", "expired"}),
        next : [Keys -> Entry \cup {None}], removed : SUBSET Tokens, then : Outcomes \cup {"lease"},
        pending : SUBSET Tokens, refresh : Tokens \cup {None}, tokens : Pair \cup {None}]

Nothing == [k \in Keys |-> None]

NoJob == [op |-> None, key |-> None, stage |-> "main", attempt |-> 0, proposed |-> 0,
          verified |-> {}, next |-> Nothing, removed |-> {},
          then |-> "signin", pending |-> {}, refresh |-> None, tokens |-> None]

NewEntry(pair, at) == [access |-> pair.access, refresh |-> pair.refresh, created |-> at,
                       seen |-> at, renewing |-> None, lease |-> None]

SessionTypeOK ==
    /\ sessions \in [Keys -> Entry \cup {None}]
    /\ pc \in [Requests -> {"idle"} \cup Working \cup Stopped]
    /\ job \in [Requests -> Job]
    /\ fresh \subseteq Requests
    /\ now \in Times
    /\ issued \in 0..MaxTokens /\ faults \in 0..MaxFaults
    /\ expired \subseteq Tokens /\ spent \subseteq Tokens /\ revoked \subseteq Tokens
    /\ delivered \subseteq Keys /\ closed \subseteq Keys /\ dropped \subseteq Keys

Init ==
    /\ now = 0
    /\ sessions = [Nothing EXCEPT ![First] = NewEntry([access |-> 1, refresh |-> 1], 0)]
    /\ pc = [r \in Requests |-> "idle"]
    /\ job = [r \in Requests |-> NoJob]
    /\ fresh = {}
    /\ issued = 1 /\ faults = 0
    /\ expired = {} /\ spent = {} /\ revoked = {}
    /\ delivered = {First} /\ closed = {} /\ dropped = {}

----------------------------------------------------------------------------
(* Helpers *)

\* _ended: idle or lifetime expiry.
Ended(e, t) ==
    \/ t - (IF e.seen < t THEN e.seen ELSE t) >= Idle
    \/ t - e.created >= Lifetime

Present(s) == {k \in Keys : s[k] # None}
Refreshes(s) == {s[k].refresh : k \in Present(s)}

Goto(r, label) == pc' = [pc EXCEPT ![r] = label]

Fault == faults < MaxFaults /\ faults' = faults + 1

\* _revoke: a request to the provider for each token; its failure is ignored.
Revoke(set) == revoked' = revoked \cup (set \ {None})

\* The removed tokens a reread no longer finds: their removal did commit.
Gone(r) == job[r].pending \ Refreshes(sessions)

\* A decision that changes nothing returns its outcome.
Return(r, outcome) ==
    /\ Goto(r, outcome)
    /\ job' = [job EXCEPT ![r] = [NoJob EXCEPT !.op = job[r].op, !.key = job[r].key]]

\* A decision that changes the record: it is written next, if attempts are left.  The
\* verdict on the access token is remembered.
Write(r, next, removed, then) ==
    /\ job[r].attempt < WriteAttempts
    /\ Goto(r, "put")
    /\ job' = [job EXCEPT ![r] = [@ EXCEPT
                 !.next = next, !.removed = removed \ {None}, !.then = then,
                 !.pending = job[r].pending \cap Refreshes(sessions),
                 !.verified = IF job[r].stage = "main" /\ then \in {"grant", "lease"}
                              THEN job[r].verified
                                   \cup {<<next[job[r].key].access,
                                            IF then = "grant" THEN "live" ELSE "expired">>}
                              ELSE job[r].verified]]

\* The next bounded loop of the same request begins.
Again(r, label, stage, refresh, tokens) ==
    /\ Goto(r, label)
    /\ job' = [job EXCEPT ![r] = [@ EXCEPT
                 !.stage = stage, !.refresh = refresh, !.tokens = tokens, !.proposed = now,
                 !.attempt = 0, !.pending = {}, !.removed = {}, !.next = Nothing]]

\* Deletion of the request's own session.
Remove(r) == LET k == job[r].key
             IN  Write(r, [sessions EXCEPT ![k] = None], {sessions[k].refresh}, "signin")

\* _load: the version read is kept for the write the decision asks for.
Load(r) ==
    /\ fresh' = IF pc'[r] = "put" THEN fresh \cup {r} ELSE fresh
    /\ UNCHANGED <<sessions, dropped, now, issued, expired, spent>>

----------------------------------------------------------------------------
(* begin, end and authorize are called *)

Call(r, op, k) ==
    /\ pc[r] = "idle"
    /\ Goto(r, "decide")
    /\ job' = [job EXCEPT ![r] = [NoJob EXCEPT !.op = op, !.key = k, !.proposed = now]]
    /\ UNCHANGED <<record, now, expired, spent, revoked, calm>>

\* The login callback: a cookie of its own, a token pair with or without a refresh token.
Begin(r, k) ==
    /\ issued < MaxTokens
    /\ issued' = issued + 1
    /\ k # First /\ \A q \in Requests : job[q].key # k
    /\ pc[r] = "idle"
    /\ Goto(r, "decide")
    /\ \E refresh \in {issued', None} :
         job' = [job EXCEPT ![r] = [NoJob EXCEPT
                   !.op = "begin", !.key = k, !.proposed = now,
                   !.tokens = [access |-> issued', refresh |-> refresh]]]
    /\ UNCHANGED <<record, now, expired, spent, revoked, calm>>

\* A logout, or a protected request, with a cookie that was handed out.
End(r, k, scope) ==
    /\ k \in delivered /\ sessions[k] # None
    /\ Call(r, scope, k)
    /\ UNCHANGED issued

Authorize(r, k, access) ==
    /\ k \in delivered
    /\ Call(r, access, k)
    /\ UNCHANGED issued

----------------------------------------------------------------------------
(* The decisions *)

DecideBegin(r) ==
    LET k == job[r].key
        entry == NewEntry(job[r].tokens, job[r].proposed)
        live == {j \in Present(sessions) : ~Ended(sessions[j], now)}
    IN  /\ pc[r] = "decide" /\ job[r].op = "begin"
        /\ Revoke(Gone(r))
        /\ \/ /\ sessions[k] # None
              /\ Return(r, "created")
              /\ delivered' = delivered \cup {k}
           \/ /\ sessions[k] = None
              /\ Cardinality(live) >= SessionCap
              /\ Return(r, "limit")
              /\ UNCHANGED delivered
           \/ /\ sessions[k] = None
              /\ Cardinality(live) < SessionCap
              /\ Write(r, [j \in Keys |-> IF j = k THEN entry
                                          ELSE IF j \in live THEN sessions[j] ELSE None],
                       {}, "created")
              /\ UNCHANGED delivered
        /\ UNCHANGED <<closed, faults>>
        /\ Load(r)

\* The keys an acknowledged logout closes.
Closes(r) == IF job[r].op = "all" THEN delivered ELSE {job[r].key}

DecideEnd(r) ==
    LET gone == IF job[r].op = "all" THEN Present(sessions)
                ELSE {job[r].key} \cap Present(sessions)
    IN  /\ pc[r] = "decide" /\ job[r].op \in {"device", "all"}
        /\ Revoke(Gone(r))
        /\ \/ /\ gone = {}
              /\ Return(r, "ended")
              /\ closed' = closed \cup Closes(r)
           \/ /\ gone # {}
              /\ Write(r, [j \in Keys |-> IF j \in gone THEN None ELSE sessions[j]],
                       {sessions[j].refresh : j \in gone}, "ended")
              /\ UNCHANGED closed
        /\ UNCHANGED <<delivered, faults>>
        /\ Load(r)

\* verify_token: the scopes and keys it checks may change, and within one request its
\* verdict is remembered.
Verdicts(r, t) ==
    LET known == {v \in {"live", "expired"} : <<t, v>> \in job[r].verified}
    IN  IF known # {} THEN known
        ELSE {"rejected", IF t \in expired THEN "expired" ELSE "live"}

Authorizing(r) ==
    /\ pc[r] = "decide" /\ job[r].op \in {"passive", "active"} /\ job[r].stage = "main"
    /\ Revoke(Gone(r))
    /\ UNCHANGED ghosts

\* mutant: a lease is waited for however old it is
StaleNever(e) == FALSE

Stale(e) == e.renewing # None /\ now - e.renewing >= LeaseSeconds

\* Active use moves the session's activity forward.
Touches(r, e) == job[r].op = "active" /\ job[r].proposed > e.seen

\* The session is not in the record, has expired, or its lease is stale.
DecideEnded(r) ==
    LET e == sessions[job[r].key]
    IN  /\ Authorizing(r)
        /\ UNCHANGED faults
        /\ \/ e = None /\ Return(r, "signin")
           \/ e # None /\ (Ended(e, now) \/ Stale(e)) /\ Remove(r)
        /\ Load(r)

\* A renewal is under way: the request's own lease is taken up, another's waited for.
DecideLeased(r) ==
    LET e == sessions[job[r].key]
    IN  /\ Authorizing(r)
        /\ UNCHANGED faults
        /\ e # None /\ e.renewing # None /\ ~Ended(e, now) /\ ~Stale(e)
        /\ IF e.lease = r THEN Again(r, "renew", "main", e.refresh, None)
                          ELSE Again(r, "decide", "main", None, None)
        /\ Load(r)

\* mutant: an expired access token is renewed without a lease
DecideTokenUnleased(r) ==
    LET e == sessions[job[r].key]
    IN  /\ Authorizing(r)
        /\ e # None /\ ~Ended(e, now) /\ e.renewing = None
        /\ UNCHANGED faults
        /\ e.access \in expired /\ e.refresh # None
        /\ Again(r, "renew", "main", e.refresh, None)
        /\ Load(r)

\* The access token decides: rejected, expired and to be renewed under a lease, or live.
DecideToken(r) ==
    LET k == job[r].key
        e == sessions[k]
    IN  /\ Authorizing(r)
        /\ e # None /\ e.renewing = None /\ ~Ended(e, now)
        /\ \E verdict \in Verdicts(r, e.access) :
             \/ verdict = "rejected" /\ Fault /\ Remove(r)
             \/ /\ verdict = "expired" /\ e.refresh = None
                /\ Remove(r)
                /\ UNCHANGED faults
             \/ /\ verdict = "expired" /\ e.refresh # None
                /\ Write(r, [sessions EXCEPT ![k] = [e EXCEPT !.renewing = now, !.lease = r]], {}, "lease")
                /\ UNCHANGED faults
             \/ /\ verdict = "live" /\ Touches(r, e)
                /\ Write(r, [sessions EXCEPT ![k] = [e EXCEPT !.seen = job[r].proposed]], {}, "grant")
                /\ UNCHANGED faults
             \/ verdict = "live" /\ ~Touches(r, e) /\ Return(r, "grant") /\ UNCHANGED faults
        /\ Load(r)

\* The lease of the session is the request's own.
Mine(r) == LET e == sessions[job[r].key] IN e # None /\ e.lease = r

\* The renewal failed: the session is removed if the lease is still the request's own.
\* Tokens the provider did issue are revoked with it, or at once.
DecideDrop(r) ==
    LET issuedTo == IF job[r].tokens = None THEN None ELSE job[r].tokens.refresh
    IN  /\ pc[r] = "decide" /\ job[r].stage = "drop"
        /\ \/ /\ ~Mine(r)
              /\ Return(r, "signin")
              /\ Revoke(Gone(r) \cup {issuedTo})
           \/ /\ Mine(r)
              /\ Remove(r)
              /\ Revoke(Gone(r))
        /\ UNCHANGED calm
        /\ Load(r)

\* The renewal succeeded: its tokens are stored, were stored by a write thought lost, or
\* are revoked because the session ended meanwhile.
DecideSettle(r) ==
    LET k == job[r].key
        e == sessions[k]
        t == job[r].tokens
        settled == e # None /\ e.renewing = None /\ e.access = t.access
        seen == IF Touches(r, e) THEN job[r].proposed ELSE e.seen
    IN  /\ pc[r] = "decide" /\ job[r].stage = "settle"
        /\ \/ /\ settled
              /\ Return(r, "grant")
              /\ Revoke(Gone(r))
           \/ /\ ~settled /\ ~Mine(r)
              /\ Return(r, "signin")
              /\ Revoke(Gone(r) \cup {t.refresh})
           \/ /\ Mine(r)
              /\ Write(r, [sessions EXCEPT ![k] = [e EXCEPT
                             !.access = t.access,
                             !.refresh = IF t.refresh = None THEN e.refresh ELSE t.refresh,
                             !.renewing = None, !.lease = None, !.seen = seen]], {}, "grant")
              /\ Revoke(Gone(r))
        /\ UNCHANGED calm
        /\ Load(r)

----------------------------------------------------------------------------
(* The write *)

Store(r) ==
    /\ sessions' = job[r].next
    /\ fresh' = {}
    /\ dropped' = dropped \cup (Present(sessions) \ Present(job[r].next))

\* The record is left alone.
Keep(r) ==
    /\ fresh' = fresh \ {r}
    /\ UNCHANGED <<sessions, dropped>>

\* What a confirmed write revokes: what it removed, unless another session stores it, and
\* tokens issued to a renewal that was dropped.
Freed(r) ==
    ((job[r].pending \cup job[r].removed) \ Refreshes(job[r].next))
    \cup (IF job[r].stage = "drop" /\ job[r].tokens # None THEN {job[r].tokens.refresh} ELSE {})

\* mutant: a write without its condition
StoredUnconditionally(r) ==
    /\ pc[r] = "put"
    /\ Store(r)
    /\ Revoke(Freed(r))
    /\ IF job[r].then = "lease"
       THEN Again(r, "renew", "main", job[r].next[job[r].key].refresh, None)
       ELSE Return(r, job[r].then)
    /\ delivered' = IF job[r].then = "created" THEN delivered \cup {job[r].key} ELSE delivered
    /\ closed' = IF job[r].then = "ended" THEN closed \cup Closes(r) ELSE closed
    /\ UNCHANGED <<now, issued, expired, spent, faults>>

\* The record is stored and the store says so.
Stored(r) ==
    /\ pc[r] = "put" /\ r \in fresh
    /\ Store(r)
    /\ Revoke(Freed(r))
    /\ IF job[r].then = "lease"
       THEN Again(r, "renew", "main", job[r].next[job[r].key].refresh, None)
       ELSE Return(r, job[r].then)
    /\ delivered' = IF job[r].then = "created" THEN delivered \cup {job[r].key} ELSE delivered
    /\ closed' = IF job[r].then = "ended" THEN closed \cup Closes(r) ELSE closed
    /\ UNCHANGED <<now, issued, expired, spent, faults>>

\* A definite conflict: the record has moved on, or this very write had been stored.
Conflict(r) ==
    /\ pc[r] = "put"
    /\ \/ r \notin fresh /\ Keep(r) /\ UNCHANGED faults
       \/ r \in fresh /\ (Store(r) \/ Keep(r)) /\ Fault
    /\ Goto(r, "decide")
    /\ job' = [job EXCEPT ![r] = [@ EXCEPT
                 !.attempt = job[r].attempt + 1, !.pending = job[r].pending \cup job[r].removed,
                 !.removed = {}, !.next = Nothing]]
    /\ UNCHANGED <<now, provider, ghosts>>

\* An error: of the load, of the write, stored or not, or for want of attempts.  A failed
\* settlement rereads the record and revokes the new token if no session stores it.
Fail(r) ==
    /\ pc[r] \in {"decide", "put"}
    /\ (r \in fresh /\ Store(r)) \/ Keep(r)
    /\ \/ /\ job[r].stage = "settle" /\ job[r].tokens.refresh \notin Refreshes(sessions')
          /\ Revoke({job[r].tokens.refresh})
       \/ UNCHANGED revoked
    /\ Return(r, "failed")
    /\ IF job[r].attempt = WriteAttempts THEN UNCHANGED faults ELSE Fault
    /\ UNCHANGED <<now, issued, expired, spent, ghosts>>

\* The request is cancelled wherever it waits; a write handed to its thread goes on.
Cancel(r) ==
    /\ pc[r] \in Working
    /\ IF pc[r] = "put" THEN Goto(r, "late") /\ UNCHANGED job ELSE Return(r, "failed")
    /\ spent' \in {spent, spent \cup (IF pc[r] = "renew" THEN {job[r].refresh} ELSE {})}
    /\ Fault
    /\ UNCHANGED <<record, now, issued, expired, revoked, ghosts>>

Late(r) ==
    /\ pc[r] = "late"
    /\ (r \in fresh /\ Store(r)) \/ Keep(r)
    /\ Return(r, "failed")
    /\ UNCHANGED <<now, provider, calm>>

----------------------------------------------------------------------------
(* The identity provider and time *)

\* identity.renew: a new pair, with or without a new refresh token, which must then verify.
Renewed(r) ==
    /\ pc[r] = "renew"
    /\ job[r].refresh \notin spent \cup revoked
    /\ issued < MaxTokens
    /\ issued' = issued + 1
    /\ \E rotated \in BOOLEAN, stage \in {"settle", "drop"} :
         /\ IF stage = "drop" THEN Fault ELSE UNCHANGED faults
         /\ spent' = IF rotated THEN spent \cup {job[r].refresh} ELSE spent
         /\ Again(r, "decide", stage, job[r].refresh,
                  [access |-> issued', refresh |-> IF rotated THEN issued' ELSE None])
    /\ UNCHANGED <<record, now, expired, revoked, ghosts>>

\* The provider refuses, or does not answer in time, having consumed the token or not.
NotRenewed(r) ==
    /\ pc[r] = "renew"
    /\ spent' \in {spent, spent \cup {job[r].refresh}}
    /\ Again(r, "decide", "drop", job[r].refresh, None)
    /\ IF job[r].refresh \in spent \cup revoked \/ issued = MaxTokens THEN UNCHANGED faults ELSE Fault
    /\ UNCHANGED <<record, now, issued, expired, revoked, ghosts>>

\* An access token expires, never during the request that obtained it: it lives for many
\* minutes, a request for seconds.
Expire(t) ==
    /\ t \in {sessions[k].access : k \in Present(sessions)} \ expired
    /\ \A r \in Requests : job[r].tokens # None => job[r].tokens.access # t
    /\ expired' = expired \cup {t}
    /\ UNCHANGED <<record, pc, job, now, issued, spent, revoked, calm>>

Tick ==
    /\ now < MaxTime
    /\ now' = now + 1
    /\ UNCHANGED <<record, pc, job, provider, calm>>

----------------------------------------------------------------------------

Decide(r) ==
    \/ DecideBegin(r) \/ DecideEnd(r)
    \/ DecideEnded(r) \/ DecideLeased(r) \/ DecideToken(r)
    \/ DecideDrop(r) \/ DecideSettle(r)

Proceed(r) == Decide(r) \/ Stored(r) \/ Conflict(r) \/ Fail(r) \/ Late(r) \/ Renewed(r) \/ NotRenewed(r)

Start(r) == \E k \in Keys :
    \/ Begin(r, k)
    \/ \E scope \in {"device", "all"} : End(r, k, scope)
    \/ \E access \in {"passive", "active"} : Authorize(r, k, access)

Next ==
    \/ \E r \in Requests : Start(r) \/ Proceed(r) \/ Cancel(r)
    \/ \E t \in Tokens : Expire(t)
    \/ Tick

Spec == Init /\ [][Next]_vars
FairSpec == Spec /\ WF_vars(Tick) /\ \A r \in Requests : WF_vars(Proceed(r))

----------------------------------------------------------------------------
(* Properties *)

\* However many logins race, the record never holds more sessions than the cap (begin).
WithinCap == Cardinality(Present(sessions)) <= SessionCap

\* Once a logout has been acknowledged, its session is gone for good: no activity update,
\* renewal, retried or late write of another request brings it back (end, _commit).
LogoutFinal == [][\A k \in closed' : sessions'[k] = None]_vars

\* A refresh token the record holds has not been revoked (_commit, _renew), except that
\* of a session begin has recreated.
StoredNotRevoked ==
    \A k \in Present(sessions) \ dropped : sessions[k].refresh \notin revoked

\* No request presents a refresh token the provider has, or may have, consumed (_renew).
NeverReplayed == [][\A r \in Requests :
    pc[r] = "renew" /\ pc'[r] = "decide" => job[r].refresh \notin spent]_vars

\* What the record holds can still be used, and what cannot is presented by nobody.
TokensSafe == [][StoredNotRevoked']_vars /\ NeverReplayed

\* A session is changed by its own requests only, by an all-device logout, and by a login
\* that prunes it after its expiry: no write loses another device's (_commit).
OthersPreserved == [][\A k \in Present(sessions) : sessions'[k] # sessions[k] =>
    \E r \in Requests :
        /\ pc[r] \in {"put", "late"} /\ pc'[r] # pc[r]
        /\ \/ job[r].key = k \/ job[r].op = "all"
           \/ job[r].op = "begin" /\ Ended(sessions[k], now)]_vars

\* However requests and their late writes interleave, no write undoes another: a logout is final,
\* other devices' sessions are left alone and the record never overflows (_commit,
\* reader_sessions.py:144-183).
WritesKept == LogoutFinal /\ OthersPreserved /\ [][WithinCap']_vars

\* A lease so young that the clock's bound comes before its end.
UnendedLease(r) ==
    LET k == job[r].key
    IN  now = MaxTime /\ k # None /\ sessions[k] # None
        /\ sessions[k].renewing # None /\ sessions[k].renewing + LeaseSeconds > MaxTime

\* Every request ends, whatever happened to the one whose lease it waits for (_authorize's
\* polling, LEASE_SECONDS, WRITE_ATTEMPTS).
RequestsEnd == \A r \in Requests : pc[r] # "idle" ~> pc[r] \in Stopped \/ UnendedLease(r)
=============================================================================
