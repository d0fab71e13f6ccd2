------------------------ MODULE ApprovalTicket_proofs ------------------------
(***************************************************************************)
(* What each operation makes of a single ticket and of the consents given   *)
(* to it: the lemmas that the proofs about the queue, about its file and    *)
(* about the boundary share.                                               *)
(***************************************************************************)
EXTENDS ApprovalTicket, FiniteSetTheorems, SequenceTheorems, TLAPS

(* A verdict always requires at least one approval (the max(1, ...)).      *)
LEMMA RequiredType ==
  ASSUME NEW v \in Verdict
  PROVE  RequiredApprovals(v) \in Nat \ {0}
BY RouteAssumption DEF RequiredApprovals

LEMMA NoTicketType == NoTicket \in Ticket
BY EmptySeq DEF NoTicket, Ticket, Status, Terminal, NoExpiry

LEMMA OpenedType ==
  ASSUME NEW need \in Nat \ {0}
  PROVE  Opened(need) \in Ticket
BY EmptySeq DEF Opened, Ticket, Status, Terminal, NoExpiry

(* Raising touches the requirement only, and meets the asker's need on     *)
(* every ticket that exists.                                               *)
LEMMA RaisedType ==
  ASSUME NEW t \in Ticket, NEW need \in Nat \ {0}
  PROVE  /\ Raised(t, need) \in Ticket
         /\ Raised(t, need).status = t.status
         /\ Raised(t, need).approvers = t.approvers
         /\ Raised(t, need).expires = t.expires
         /\ t.status # "none" => Raised(t, need).required >= need
BY DEF Raised, NeedsRaise, Ticket

(* The three outcomes of request_approval: the ticket is consumed, replaced *)
(* by a fresh pending one, or left as it was but for its requirement.      *)
LEMMA AfterRequestCases ==
  ASSUME NEW t \in Ticket, NEW need \in Nat \ {0}, NEW time \in Nat
  PROVE  \/ /\ Permits(t, need, time)
            /\ AfterRequest(t, need, time) = [Raised(t, need) EXCEPT !.status = "consumed"]
         \/ /\ ~Permits(t, need, time)
            /\ Reopens(t, time)
            /\ AfterRequest(t, need, time) = Opened(need)
         \/ /\ ~Permits(t, need, time)
            /\ ~Reopens(t, time)
            /\ AfterRequest(t, need, time) = Raised(t, need)
<1>1. Reopens(Raised(t, need), time) <=> Reopens(t, time)
  BY RaisedType DEF Reopens, IsExpired
<1> QED BY <1>1 DEF AfterRequest, Permits

LEMMA AfterRequestType ==
  ASSUME NEW t \in Ticket, NEW need \in Nat \ {0}, NEW time \in Nat
  PROVE  AfterRequest(t, need, time) \in Ticket
<1>1. Raised(t, need) \in Ticket
  BY RaisedType
<1>2. [Raised(t, need) EXCEPT !.status = "consumed"] \in Ticket
  BY <1>1 DEF Ticket, Status, Terminal
<1> QED BY <1>1, <1>2, OpenedType, AfterRequestCases

LEMMA ApprovedType ==
  ASSUME NEW t \in Ticket, NEW who \in Approver, NEW time \in Nat
  PROVE  /\ Approved(t, who, time) \in Ticket
         /\ Approved(t, who, time).approvers = Append(t.approvers, who)
         /\ Approved(t, who, time).status \in {"pending", "approved"}
         /\ Approved(t, who, time).status = "approved" =>
              Approved(t, who, time).expires = time + TTL
         /\ Approved(t, who, time).status = "pending" =>
              Approved(t, who, time).expires = NoExpiry
<1>1. Append(t.approvers, who) \in Seq(Approver)
  BY AppendProperties DEF Ticket
<1>2. time + TTL \in Nat
  BY TTLAssumption
<1> QED BY <1>1, <1>2 DEF Approved, Ticket, Status, NoExpiry

LEMMA DeniedType ==
  ASSUME NEW t \in Ticket
  PROVE  Denied(t) \in Ticket /\ Denied(t).status = "denied" /\ Denied(t).expires = NoExpiry
BY DEF Denied, Ticket, Status, Terminal, NoExpiry

-----------------------------------------------------------------------------
(* The inductive invariant of whoever keeps tickets: one ticket t with the   *)
(* consents c given to it.                                                 *)
TicketInv(t, c) ==
  /\ Live(t) => \A i \in 1 .. Len(t.approvers) : t.approvers[i] \in {x.who : x \in c}
  /\ \A i, j \in 1 .. Len(t.approvers) : t.approvers[i] = t.approvers[j] => i = j
  /\ t.status = "approved" => \E x \in c : t.expires = x.at + TTL
  /\ t.expires # NoExpiry => t.status \in {"approved", "consumed"}

LEMMA OpenedInv ==
  ASSUME NEW need \in Nat \ {0}, NEW c
  PROVE  TicketInv(Opened(need), c)
<1>1. Len(<<>>) = 0 /\ 1 .. 0 = {}
  OBVIOUS
<1> QED BY <1>1 DEF Opened, TicketInv, Live

LEMMA RaisedInv ==
  ASSUME NEW t \in Ticket, NEW need \in Nat \ {0}, NEW c, TicketInv(t, c)
  PROVE  TicketInv(Raised(t, need), c)
BY RaisedType DEF TicketInv, Live

LEMMA AfterRequestInv ==
  ASSUME NEW t \in Ticket, NEW need \in Nat \ {0}, NEW time \in Nat, NEW c,
         TicketInv(t, c)
  PROVE  TicketInv(AfterRequest(t, need, time),
                   IF Reopens(t, time) \/ AfterRequest(t, need, time).status = "consumed"
                   THEN {} ELSE c)
<1> DEFINE r == Raised(t, need)
           u == [r EXCEPT !.status = "consumed"]
<1>1. r \in Ticket /\ TicketInv(r, c)
  BY RaisedType, RaisedInv
<1>2. CASE Permits(t, need, time)
  <2>1. AfterRequest(t, need, time) = u
    BY <1>2, AfterRequestCases
  <2>2. u.status = "consumed" /\ u.approvers = r.approvers
    BY <1>1 DEF Ticket
  <2>3. TicketInv(u, {})
    BY <1>1, <2>2 DEF TicketInv, Live
  <2> QED BY <2>1, <2>2, <2>3
<1>3. CASE ~Permits(t, need, time) /\ Reopens(t, time)
  BY <1>3, AfterRequestCases, OpenedInv
<1>4. CASE ~Permits(t, need, time) /\ ~Reopens(t, time)
  <2>1. AfterRequest(t, need, time) = r
    BY <1>4, AfterRequestCases
  <2>2. r.status # "consumed"
    BY <1>4, RaisedType DEF Reopens, Terminal
  <2> QED BY <1>1, <1>4, <2>1, <2>2
<1> QED BY <1>2, <1>3, <1>4

LEMMA ApprovedInv ==
  ASSUME NEW t \in Ticket, NEW who \in Approver, NEW time \in Nat, NEW c,
         TicketInv(t, c), CanApprove(t, who)
  PROVE  TicketInv(Approved(t, who, time), c \cup {[who |-> who, at |-> time]})
<1> DEFINE a == Approved(t, who, time)
           n == Len(t.approvers)
           w == [who |-> who, at |-> time]
           e == c \cup {w}
<1>0. w \in e /\ w.who = who /\ w.at = time
  OBVIOUS
<1>1. t.approvers \in Seq(Approver) /\ n \in Nat
  BY LenProperties DEF Ticket
<1>2. /\ Len(a.approvers) = n + 1
      /\ \A i \in 1 .. n : a.approvers[i] = t.approvers[i]
      /\ a.approvers[n + 1] = who
  <2>1. a.approvers = Append(t.approvers, who)
    BY ApprovedType
  <2>2. /\ Len(Append(t.approvers, who)) = n + 1
        /\ \A i \in 1 .. n : Append(t.approvers, who)[i] = t.approvers[i]
        /\ Append(t.approvers, who)[n + 1] = who
    BY <1>1, AppendProperties
  <2> QED BY <2>1, <2>2
<1>3. \A i \in 1 .. n : t.approvers[i] \in {x.who : x \in c} /\ t.approvers[i] # who
  BY DEF TicketInv, CanApprove, Signed, Live
<1>4. \A i \in 1 .. n + 1 : i = n + 1 \/ i \in 1 .. n
  BY <1>1
<1>5. \A i \in 1 .. n + 1 : a.approvers[i] \in {x.who : x \in e}
  <2>1. \A x \in c : x \in e
    OBVIOUS
  <2>2. who \in {x.who : x \in e}
    BY <1>0
  <2>3. \A i \in 1 .. n : a.approvers[i] \in {x.who : x \in e}
    BY <1>2, <1>3, <2>1
  <2> QED BY <1>2, <1>4, <2>2, <2>3
<1>6. \A i, j \in 1 .. n + 1 : a.approvers[i] = a.approvers[j] => i = j
  BY <1>1, <1>2, <1>3, <1>4 DEF TicketInv
<1>7. a.status = "approved" => \E x \in e : a.expires = x.at + TTL
  <2>1. a.status = "approved" => a.expires = w.at + TTL
    BY <1>0, ApprovedType
  <2> QED BY <1>0, <2>1
<1>8. a.expires # NoExpiry => a.status = "approved"
  BY ApprovedType
<1> QED BY <1>2, <1>5, <1>6, <1>7, <1>8 DEF TicketInv

LEMMA DeniedInv ==
  ASSUME NEW t \in Ticket, NEW c, TicketInv(t, c)
  PROVE  TicketInv(Denied(t), {})
<1>1. Denied(t).approvers = t.approvers
  BY DEF Denied, Ticket
<1> QED BY <1>1, DeniedType DEF TicketInv, Live

(* A list of distinct names from a finite set is no longer than the set.    *)
LEMMA DistinctLength ==
  ASSUME NEW S, IsFiniteSet(S), NEW s \in Seq(Approver),
         \A i \in 1 .. Len(s) : s[i] \in S,
         \A i, j \in 1 .. Len(s) : s[i] = s[j] => i = j
  PROVE  Len(s) <= Cardinality(S)
<1> DEFINE n == Len(s)
           f == [i \in 1 .. n |-> s[i]]
<1>1. n \in Nat
  BY LenProperties
<1>2. f \in Injection(1 .. n, S)
  BY DEF Injection, IsInjective
<1>3. Cardinality(1 .. n) <= Cardinality(S)
  BY <1>2, FS_Injection
<1>4. Cardinality(1 .. n) = n
  <2>1. Cardinality(1 .. n) = IF 1 > n THEN 0 ELSE n - 1 + 1
    BY <1>1, FS_Interval
  <2> QED BY <1>1, <2>1
<1> QED BY <1>3, <1>4

(* What a permit rests on: an approved, unexpired ticket with at least as   *)
(* many signatures as this verdict requires.                               *)
LEMMA PermitFacts ==
  ASSUME NEW t \in Ticket, NEW need \in Nat \ {0}, NEW time \in Nat, Permits(t, need, time)
  PROVE  t.status = "approved" /\ Len(t.approvers) >= need /\ ~IsExpired(t, time)
<1> DEFINE r == Raised(t, need)
<1>1. /\ r.status = t.status /\ r.approvers = t.approvers /\ r.expires = t.expires
      /\ t.status # "none" => r.required >= need
      /\ r \in Ticket
  BY RaisedType
<1>2. /\ r.status = "approved" /\ Len(r.approvers) >= r.required
      /\ ~IsExpired(r, time)
  BY DEF Permits, Consumable
<1>3. Len(t.approvers) \in Nat /\ r.required \in Nat
  BY <1>1, LenProperties DEF Ticket
<1>4. IsExpired(r, time) <=> IsExpired(t, time)
  BY <1>1 DEF IsExpired
<1> QED BY <1>1, <1>2, <1>3, <1>4

(* Dual control and freshness, of one ticket: a permit has the consents of   *)
(* as many different operators as it needs, and one within TTL.             *)
LEMMA PermitConsented ==
  ASSUME IsFiniteSet(Approver), NEW t \in Ticket, NEW need \in Nat \ {0}, NEW time \in Nat,
         NEW c \in SUBSET Consent, TicketInv(t, c), Permits(t, need, time)
  PROVE  /\ Cardinality({x.who : x \in c}) >= need
         /\ \E x \in c : time - x.at <= TTL
<1> DEFINE s == t.approvers
           who == {x.who : x \in c}
<1>1. t.status = "approved" /\ Len(s) >= need /\ ~IsExpired(t, time)
  BY PermitFacts
<1>2. s \in Seq(Approver)
  BY DEF Ticket
<1>3. who \subseteq Approver
  BY DEF Consent
<1>4. IsFiniteSet(who)
  BY <1>3, FS_Subset
<1>5. /\ \A i \in 1 .. Len(s) : s[i] \in who
      /\ \A i, j \in 1 .. Len(s) : s[i] = s[j] => i = j
  BY <1>1 DEF TicketInv, Live
<1>6. PICK x \in c : t.expires = x.at + TTL
  BY <1>1 DEF TicketInv
<1>7. time - x.at <= TTL
  <2>1. x.at \in Nat /\ TTL \in Nat
    BY TTLAssumption DEF Consent
  <2>2. ~ (time > x.at + TTL)
    BY <1>1, <1>6, <2>1 DEF IsExpired, NoExpiry
  <2> QED BY <2>1, <2>2
<1> HIDE DEF who
<1>8. Len(s) <= Cardinality(who)
  BY <1>2, <1>4, <1>5, DistinctLength
<1>9. Len(s) \in Nat /\ Cardinality(who) \in Nat
  BY <1>2, <1>4, LenProperties, FS_CardinalityType
<1>10. Cardinality(who) >= need
  BY <1>1, <1>8, <1>9
<1> QED BY <1>7, <1>10 DEF who
=============================================================================
