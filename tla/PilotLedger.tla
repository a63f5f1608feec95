----------------------------- MODULE PilotLedger -----------------------------
(***************************************************************************)
(* The protected sender's accounting (protected_sender/ledger.py) and the  *)
(* dispatch that lives by it (worker.py, transport.py).  A dispatch        *)
(* reserves its worst charge and its page and region attempts in one       *)
(* transaction before anything is sent; only a verified charge settles it. *)
(* The provider, which charges what it receives, is external.              *)
(***************************************************************************)
EXTENDS Naturals, FiniteSets, FiniteSetsExt

CONSTANTS
    NoPacket,
    Packets,          \* sealed packets: each names its request id
    IdentityOf,       \* digest of what a packet asks, whatever its id and its cost
    CostOf,           \* maximum_cost
    ScopesOf,         \* the pages and regions it consumes an attempt of
    CapOf,            \* 6 for a page, 3 for a region
    Ceiling,          \* CEILING_MICROUSD
    PriorObligations, \* reconciled spend and liabilities at initialize
    LargestCharge,    \* bound: what the provider may charge for one request
    Senders           \* sender containers

ASSUME PilotAssumption ==
    /\ Ceiling \in Nat /\ LargestCharge \in Nat
    /\ PriorObligations \in 0..Ceiling
    /\ NoPacket \notin Packets
    /\ CostOf \in [Packets -> Nat \ {0}] /\ IsFiniteSet(Packets)
    /\ \A p \in Packets : \A k \in ScopesOf[p] : CapOf[k] \in Nat

VARIABLES
    spent, liabilities, blocked,  \* the pilot row
    used,      \* attempts of each scope
    requests,  \* reserved requests: state, reservation and actual
    output,    \* each dispatch directory: fresh, claimed, answered, receipted
    sender,    \* each sender's packet and step
    sends,     \* history: how often a packet was sent
    billed     \* history: what the provider charged for it

pilotRow == <<spent, liabilities, blocked>>
pilotVars == <<spent, liabilities, blocked, used, requests, output, sender, sends, billed>>

Unreserved == [state |-> "none", reservation |-> 0, actual |-> 0]
AtRest == [pc |-> "idle", packet |-> NoPacket]
Scopes == UNION {ScopesOf[p] : p \in Packets}

PilotInit ==
    /\ spent = 0 /\ liabilities = PriorObligations /\ blocked = FALSE
    /\ used = [k \in Scopes |-> 0]
    /\ requests = [p \in Packets |-> Unreserved]
    /\ output = [p \in Packets |-> "fresh"]
    /\ sender = [s \in Senders |-> AtRest]
    /\ sends = [p \in Packets |-> 0]
    /\ billed = [p \in Packets |-> 0]

----------------------------------------------------------------------------
(* reserve *)

\* mutant: only the request id is looked up
KnownById(p) == requests[p].state # "none"

\* The id is admitted already, or its identity has an uncertain liability.
Known(p) ==
    \/ requests[p].state # "none"
    \/ \E q \in Packets : IdentityOf[q] = IdentityOf[p] /\ requests[q].state = "uncertain"

Affordable(p) == spent + liabilities + CostOf[p] <= Ceiling

WithinCaps(p) == \A k \in ScopesOf[p] : used[k] < CapOf[k]

Load(s) == \E p \in Packets :
    /\ sender[s].pc = "idle"
    /\ output[p] = "fresh"
    /\ sender' = [sender EXCEPT ![s] = [pc |-> "reserve", packet |-> p]]
    /\ UNCHANGED <<pilotRow, used, requests, output, sends, billed>>

Reserve(s) == LET p == sender[s].packet IN
    /\ sender[s].pc = "reserve"
    /\ ~Known(p) /\ ~blocked /\ Affordable(p) /\ WithinCaps(p)
    /\ used' = [k \in Scopes |-> used[k] + (IF k \in ScopesOf[p] THEN 1 ELSE 0)]
    /\ liabilities' = liabilities + CostOf[p]
    /\ requests' = [requests EXCEPT ![p] = [state |-> "uncertain", reservation |-> CostOf[p], actual |-> 0]]
    /\ sender' = [sender EXCEPT ![s].pc = "send"]
    /\ UNCHANGED <<spent, blocked, output, sends, billed>>

NotAdmitted(s) == LET p == sender[s].packet IN
    /\ sender[s].pc = "reserve"
    /\ Known(p) \/ blocked \/ ~Affordable(p) \/ ~WithinCaps(p)
    /\ sender' = [sender EXCEPT ![s] = AtRest]
    /\ UNCHANGED <<pilotRow, used, requests, output, sends, billed>>

----------------------------------------------------------------------------
(* One transaction with the provider *)

\* The child claims response.json before it connects.
Claim(s) ==
    /\ sender[s].pc = "send" /\ output[sender[s].packet] = "fresh"
    /\ output' = [output EXCEPT ![sender[s].packet] = "claimed"]
    /\ sender' = [sender EXCEPT ![s].pc = "exchange"]
    /\ UNCHANGED <<pilotRow, used, requests, sends, billed>>

\* The request reaches the provider, which charges what it charges.
Exchange(s) == \E charge \in 0..LargestCharge :
    /\ sender[s].pc = "exchange"
    /\ sends' = [sends EXCEPT ![sender[s].packet] = @ + 1]
    /\ billed' = [billed EXCEPT ![sender[s].packet] = @ + charge]
    /\ sender' = [sender EXCEPT ![s].pc = "answer"]
    /\ UNCHANGED <<pilotRow, used, requests, output>>

Answer(s) ==
    /\ sender[s].pc = "answer"
    /\ output' = [output EXCEPT ![sender[s].packet] = "answered"]
    /\ sender' = [sender EXCEPT ![s].pc = "receipt"]
    /\ UNCHANGED <<pilotRow, used, requests, sends, billed>>

Receipt(s) ==
    /\ sender[s].pc = "receipt"
    /\ output' = [output EXCEPT ![sender[s].packet] = "receipted"]
    /\ sender' = [sender EXCEPT ![s] = AtRest]
    /\ UNCHANGED <<pilotRow, used, requests, sends, billed>>

FailsCharged(s) == UNCHANGED <<pilotRow, requests>>

\* The deadline passes, the exchange fails or the container is killed: the liability stays.
Fail(s) ==
    /\ sender[s].pc \in {"send", "exchange", "answer", "receipt"}
    /\ FailsCharged(s)
    /\ sender' = [sender EXCEPT ![s] = AtRest]
    /\ UNCHANGED <<used, output, sends, billed>>

----------------------------------------------------------------------------
(* settle, with a charge the owner verified once the dispatch was over *)

Over(p) == requests[p].state # "none" /\ \A s \in Senders : sender[s].packet # p

OpenAttempt(p) == requests[p].state = "uncertain"

Settle(p) ==
    /\ Over(p) /\ OpenAttempt(p) /\ billed[p] <= requests[p].reservation
    /\ spent' = spent + billed[p]
    /\ liabilities' = liabilities - requests[p].reservation
    /\ requests' = [requests EXCEPT ![p].state = "settled", ![p].actual = billed[p]]
    /\ UNCHANGED <<blocked, used, output, sender, sends, billed>>

\* More than was reserved: the larger obligation stays and admission closes.
Overrun(p) ==
    /\ Over(p) /\ OpenAttempt(p) /\ billed[p] > requests[p].reservation
    /\ liabilities' = liabilities + (billed[p] - requests[p].reservation)
    /\ blocked' = TRUE
    /\ requests' = [requests EXCEPT ![p] =
                       [state |-> "investigation", reservation |-> billed[p], actual |-> billed[p]]]
    /\ UNCHANGED <<spent, used, output, sender, sends, billed>>

PilotNext ==
    \/ \E s \in Senders :
          \/ Load(s) \/ Reserve(s) \/ NotAdmitted(s) \/ Claim(s) \/ Exchange(s)
          \/ Answer(s) \/ Receipt(s) \/ Fail(s)
    \/ \E p \in Packets : Settle(p) \/ Overrun(p)

PilotSpec == PilotInit /\ [][PilotNext]_pilotVars

----------------------------------------------------------------------------
(* Properties *)

\* No packet is sent twice, and what it asks is not asked again under another id while a charge
\* for it is uncertain, however dispatches fail and senders race (ledger.py:92-96); and no page
\* or region is read more often than its cap, whatever the packets (ledger.py:102-108).
SentOnce ==
    /\ \A p \in Packets : sends[p] <= 1
    /\ \A k \in Scopes :
          MapThenSumSet(LAMBDA p : sends[p], {p \in Packets : k \in ScopesOf[p]}) <= CapOf[k]
    /\ \A p, q \in Packets :
          /\ p # q /\ IdentityOf[p] = IdentityOf[q]
          => ~ (requests[p].state = "uncertain" /\ requests[q].state = "uncertain")

\* The books cover every charge that no more than the reservation allows, before and after it is
\* known, and stay under the ceiling until an overrun blocks admission (ledger.py:100, 137-144).
ChargesCovered ==
    /\ LET within == [p \in Packets |-> IF billed[p] > CostOf[p] THEN CostOf[p] ELSE billed[p]]
       IN  PriorObligations + MapThenSumSet(LAMBDA p : within[p], Packets) <= spent + liabilities
    /\ blocked \/ spent + liabilities <= Ceiling

\* What was sent is sent once and covered by the books (ledger.py:92-144).
ObligationsHold == SentOnce /\ ChargesCovered
=============================================================================
