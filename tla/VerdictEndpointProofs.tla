------------------------ MODULE VerdictEndpointProofs ------------------------
(***************************************************************************)
(* Proofs about VerdictEndpoint: for any number of servers, proposals and  *)
(* accounts, any books and any precedence rules, what is held back is not  *)
(* approved, what was approved is delivered or known not to be, and the    *)
(* surfaces implement Authorization.                                       *)
(***************************************************************************)
EXTENDS VerdictEndpoint, SequenceTheorems, TLAPS

Proposal == [req : Requests, status : {"pending", "approved", "denied"},
             by : Servers \union {"none"}]

Call == [pc : {"idle", "record", "supersede", "outbox", "crm", "report"}, p : Nat,
         verdict : {"none", "approve", "deny", "revise"}]

(* Accounts completed since the first boot.  What they make of a book only *)
(* removes findings, so a call that was let through stays unheld.          *)
Completed == completions \union wiped.accounts

(* A handler that runs is one of a server that is up; the approval of a    *)
(* call has been checked; what is committed is outreach this server has    *)
(* approved, and what it has written is on disk until it boots again.      *)
CallOK(s) ==
    LET c == call[s] IN
    c.pc # "idle" =>
        /\ s \in up /\ c.p \in Ids /\ c.verdict # "none"
        /\ c.pc = "record" /\ c.verdict = "approve" /\ proposals[c.p].req.action = "call"
               => Blockers(s, proposals[c.p].req, Completed) = {}
        /\ c.pc \in {"outbox", "crm", "report"} => s \in Demo /\ Approved(c.p, "outreach")
        /\ c.pc \in {"crm", "report"} => c.p \in outbox
        /\ c.pc = "report" => c.p \in activities

ByServers == \A p \in Ids : proposals[p].status = "approved" => proposals[p].by \in Servers

IInv ==
    /\ proposals \in Seq(Proposal) /\ Len(proposals) <= MaxProposals
    /\ call \in [Servers -> Call]
    /\ up \subseteq Servers
    /\ \A s \in Servers : CallOK(s)
    /\ \A s \in Demo \ up : session = {}
    /\ session \subseteq Ids
    /\ Performed \subseteq {p \in Ids : proposals[p].status = "approved"}
    /\ ByServers
    /\ HeldIsNotApproved
    /\ ApprovedIsDelivered

-----------------------------------------------------------------------------
(* What is completed can only take findings away. *)
LEMMA BlockersShrink ==
    ASSUME NEW s \in Servers, NEW r \in Requests, NEW C, NEW D, C \subseteq D,
           Blockers(s, r, C) = {}
    PROVE  Blockers(s, r, D) = {}
  <1>1. CASE s \in Api
    BY <1>1 DEF Blockers
  <1>2. CASE s \notin Api
    <2> DEFINE f == ServedFacts(s, r.account, C)
               g == ServedFacts(s, r.account, D)
               b == Book[SERVED][r.account]
    <2>1. b \in Facts
      BY BookAssumption, RequestAssumption DEF Request
    <2>2. /\ f.onboarding = b.onboarding /\ g.onboarding = b.onboarding
          /\ f.cta = b.cta /\ g.cta = b.cta /\ f.band = b.band /\ g.band = b.band
          /\ g.late => f.late
      BY <2>1 DEF ServedFacts, Facts
    <2>3. FindingsOf(f) = {}
      BY <1>2 DEF Blockers
    <2> HIDE DEF f, g
    <2>4. FindingsOf(g) = {}
      BY <2>2, <2>3 DEF FindingsOf
    <2> QED
      BY <1>2, <2>4 DEF Blockers, g
  <1> QED
    BY <1>1, <1>2

LEMMA KnownProposal ==
    ASSUME IInv, NEW q \in Ids
    PROVE  /\ proposals[q] \in Proposal /\ proposals[q].req \in Requests
           /\ Ids = 1..Len(proposals) /\ Len(proposals) \in Nat
  <1>1. proposals \in Seq(Proposal) /\ Ids = 1..Len(proposals) /\ Len(proposals) \in Nat
    BY DEF IInv, Ids
  <1>2. proposals[q] \in Proposal
    BY <1>1, ElementOfSeq
  <1> QED
    BY <1>1, <1>2 DEF Proposal

(* A new proposal is the last one; deciding one leaves the others alone. *)
LEMMA AppendAdds ==
    ASSUME IInv, Len(proposals) < MaxProposals, NEW req \in Requests,
           proposals' = Append(proposals, New(req))
    PROVE  /\ proposals' \in Seq(Proposal) /\ Len(proposals') <= MaxProposals
           /\ Ids' = Ids \union {Len(proposals) + 1} /\ Len(proposals) + 1 \notin Ids
           /\ \A q \in Ids : proposals'[q] = proposals[q]
           /\ proposals'[Len(proposals) + 1] = New(req)
  <1>1. New(req) \in Proposal
    BY DEF New, Proposal
  <1>2. proposals \in Seq(Proposal) /\ Len(proposals) \in Nat /\ MaxProposals \in Nat
    BY BoundAssumption DEF IInv
  <1>3. /\ proposals' \in Seq(Proposal) /\ Len(proposals') = Len(proposals) + 1
        /\ \A i \in 1..Len(proposals) : proposals'[i] = proposals[i]
        /\ proposals'[Len(proposals) + 1] = New(req)
    BY <1>1, <1>2, AppendProperties
  <1>4. Ids = 1..Len(proposals) /\ Ids' = 1..(Len(proposals) + 1)
    BY <1>2, <1>3 DEF Ids
  <1> QED
    BY <1>2, <1>3, <1>4

LEMMA DecisionStays ==
    ASSUME IInv, NEW s \in Servers, NEW p \in Ids, Decided(s, p)
    PROVE  /\ proposals' \in Seq(Proposal) /\ Len(proposals') <= MaxProposals
           /\ Ids' = Ids
           /\ \A q \in Ids \ {p} : proposals'[q] = proposals[q]
           /\ proposals'[p].req = proposals[p].req /\ proposals'[p].by = s
           /\ proposals'[p].status = StatusAfter(call[s].verdict)
  <1>1. proposals \in Seq(Proposal) /\ Ids = 1..Len(proposals) /\ proposals[p] \in Proposal
    BY DEF IInv, Ids
  <1> DEFINE x == [proposals[p] EXCEPT !.status = StatusAfter(call[s].verdict), !.by = s]
  <1>2. /\ x \in Proposal /\ x.req = proposals[p].req /\ x.by = s
        /\ x.status = StatusAfter(call[s].verdict)
    BY <1>1 DEF Proposal, StatusAfter
  <1>3. proposals' = [proposals EXCEPT ![p] = x]
    BY DEF Decided
  <1> HIDE DEF x
  <1>4. /\ proposals' \in Seq(Proposal) /\ Len(proposals') = Len(proposals)
        /\ proposals'[p] = x /\ \A q \in Ids \ {p} : proposals'[q] = proposals[q]
    BY <1>1, <1>2, <1>3, ExceptSeq
  <1> QED
    BY <1>1, <1>2, <1>4 DEF IInv, Ids

-----------------------------------------------------------------------------
(* What is decided stays so, whatever else a step does. *)
Grows ==
    /\ Ids \subseteq Ids'
    /\ \A q \in Ids : proposals'[q].req = proposals[q].req
    /\ \A q \in Ids : proposals[q].status # "pending" => proposals'[q] = proposals[q]
    /\ Completed \subseteq Completed'

LEMMA CallsKeep ==
    ASSUME IInv, Grows, NEW T, T \subseteq Servers,
           \/ outbox \subseteq outbox' /\ activities \subseteq activities'
           \/ T \intersect Demo = {},
           \A t \in T : call'[t] = call[t],
           up \intersect T \subseteq up'
    PROVE  \A t \in T : CallOK(t)'
  <1> SUFFICES ASSUME NEW t \in T PROVE CallOK(t)'
    OBVIOUS
  <1> DEFINE c == call[t]
  <1>1. c' = c /\ CallOK(t)
    BY DEF IInv
  <1>2. CASE c.pc = "idle"
    BY <1>1, <1>2 DEF CallOK
  <1>3. CASE c.pc # "idle"
    <2>1. t \in up' /\ c.p \in Ids /\ c.p \in Ids' /\ c.verdict # "none"
      BY <1>1, <1>3 DEF CallOK, Grows
    <2>2. proposals'[c.p].req = proposals[c.p].req
      BY <2>1 DEF Grows
    <2>3. proposals[c.p].req \in Requests
      BY <2>1, KnownProposal
    <2>4. Blockers(t, proposals[c.p].req, Completed) = {} =>
              Blockers(t, proposals[c.p].req, Completed') = {}
      BY <2>3, BlockersShrink DEF Grows
    <2>5. Approved(c.p, "outreach") => Approved(c.p, "outreach")'
      BY <1>1, <2>1 DEF Approved, Grows
    <2> QED
      BY <1>1, <1>3, <2>1, <2>2, <2>4, <2>5 DEF CallOK, Approved
  <1> QED
    BY <1>2, <1>3

LEMMA HeldKeeps ==
    ASSUME IInv, Grows,
           \A q \in Ids' : \/ q \in Ids /\ proposals[q].status # "pending"
                           \/ proposals'[q].status # "approved"
                           \/ proposals'[q].req.action # "call"
                           \/ Blockers(proposals'[q].by, proposals'[q].req, Completed') = {}
    PROVE  HeldIsNotApproved'
  <1> SUFFICES ASSUME NEW q \in Ids', Approved(q, "call")'
               PROVE  Blockers(proposals'[q].by, proposals'[q].req, Completed') = {}
    BY DEF HeldIsNotApproved, Completed
  <1>1. CASE q \in Ids /\ proposals[q].status # "pending"
    <2>1. proposals'[q] = proposals[q] /\ proposals[q].req \in Requests
      BY <1>1, KnownProposal DEF Grows
    <2>2. Blockers(proposals[q].by, proposals[q].req, Completed) = {}
      BY <1>1, <2>1 DEF IInv, HeldIsNotApproved, Approved, Completed
    <2>3. proposals[q].by \in Servers
      BY <1>1, <2>1 DEF IInv, Approved, ByServers
    <2> QED
      BY <2>1, <2>2, <2>3, BlockersShrink DEF Grows
  <1>2. CASE ~ (q \in Ids /\ proposals[q].status # "pending")
    BY <1>2 DEF Approved
  <1> QED
    BY <1>1, <1>2

(* What was approved stays delivered, in hand or abandoned. *)
LEMMA DeliveryKeeps ==
    ASSUME IInv, Grows,
           outbox \union wiped.rows \subseteq outbox' \union wiped'.rows,
           activities \union wiped.activities \subseteq activities' \union wiped'.activities,
           abandoned \subseteq abandoned',
           \A t \in Demo : \A q \in Unfinished(t) :
               q \in Unfinished(t)' \/ q \in abandoned' \/ Delivered(q)',
           \A q \in Ids' : \/ q \in Ids /\ proposals[q].status # "pending"
                           \/ ~ Approved(q, "outreach")'
                           \/ proposals'[q].by \notin Demo
                           \/ InHand(q)'
    PROVE  \A q \in Ids' : Approved(q, "outreach")' /\ proposals'[q].by \in Demo =>
               Delivered(q)' \/ InHand(q)' \/ q \in abandoned'
  <1> SUFFICES ASSUME NEW q \in Ids', Approved(q, "outreach")', proposals'[q].by \in Demo,
                      q \in Ids, proposals[q].status # "pending"
               PROVE  Delivered(q)' \/ InHand(q)' \/ q \in abandoned'
    OBVIOUS
  <1>1. proposals'[q] = proposals[q]
    BY DEF Grows
  <1>2. Delivered(q) \/ InHand(q) \/ q \in abandoned
    BY <1>1 DEF IInv, ApprovedIsDelivered, Approved
  <1>3. CASE Delivered(q) \/ q \in abandoned
    BY <1>3 DEF Delivered
  <1>4. CASE InHand(q)
    <2>1. PICK t \in Demo : q \in Unfinished(t)
      BY <1>4 DEF InHand
    <2> QED
      BY <2>1 DEF InHand
  <1> QED
    BY <1>2, <1>3, <1>4

-----------------------------------------------------------------------------
(* A step that decides and proposes nothing. *)
LEMMA QuietKeeps ==
    ASSUME IInv, UNCHANGED <<proposals, wiped>>, NEW T, T \subseteq Servers,
           call' \in [Servers -> Call],
           \A t \in T : call'[t] = call[t],
           \A t \in Servers \ T : CallOK(t)',
           up \intersect T \subseteq up', up' \subseteq Servers,
           outbox \subseteq outbox', activities \subseteq activities',
           completions \subseteq completions', abandoned \subseteq abandoned',
           \A t \in Demo \ T : \A q \in Unfinished(t) :
               q \in Unfinished(t)' \/ q \in abandoned' \/ Delivered(q)',
           \A q \in (outbox' \union activities') \ (outbox \union activities) :
               q \in Ids /\ proposals[q].status = "approved",
           \A t \in Demo \ up' : session' = {},
           \A q \in session' \ session :
               q \in Ids /\ Approved(q, "outreach") /\ q \in outbox' \intersect activities'
    PROVE  IInv'
  <1>1. Grows /\ Ids' = Ids
    BY DEF Grows, Ids, Completed
  <1>2. \A t \in Servers : CallOK(t)'
    BY <1>1, CallsKeep
  <1>3. Performed' \subseteq {q \in Ids' : proposals'[q].status = "approved"}
    BY <1>1 DEF IInv, Performed
  <1>4. ByServers'
    BY <1>1 DEF IInv, ByServers
  <1>5. HeldIsNotApproved'
    <2>1. \A q \in Ids : proposals'[q].status = "approved" => proposals[q].status # "pending"
      OBVIOUS
    <2> QED
      BY <1>1, <2>1, HeldKeeps
  <1>6. \A t \in Demo : \A q \in Unfinished(t) :
            q \in Unfinished(t)' \/ q \in abandoned' \/ Delivered(q)'
    BY DEF Unfinished
  <1>7. \A q \in Ids' : Approved(q, "outreach")' /\ proposals'[q].by \in Demo =>
            Delivered(q)' \/ InHand(q)' \/ q \in abandoned'
    <2>1. \A q \in Ids' : (q \in Ids /\ proposals[q].status # "pending")
                            \/ ~ Approved(q, "outreach")'
      BY <1>1 DEF Approved
    <2> QED
      BY <1>1, <1>6, <2>1, DeliveryKeeps
  <1>8. \A q \in session' :
            q \in Ids' /\ Approved(q, "outreach")' /\ q \in outbox' \intersect activities'
    BY <1>1 DEF IInv, ApprovedIsDelivered, Approved
  <1>9. ApprovedIsDelivered'
    BY <1>7, <1>8 DEF ApprovedIsDelivered
  <1> QED
    BY <1>2, <1>3, <1>4, <1>5, <1>8, <1>9 DEF IInv

(* The same, when only the handler of one server has moved. *)
LEMMA QuietStep ==
    ASSUME IInv, UNCHANGED <<proposals, wiped>>, NEW s \in Servers, NEW c \in Call,
           call' = [call EXCEPT ![s] = c], CallOK(s)',
           up' \in {up, up \ {s}},
           outbox \subseteq outbox', activities \subseteq activities',
           completions' = completions, abandoned \subseteq abandoned',
           s \in Demo => \A q \in Unfinished(s) :
               q \in Unfinished(s)' \/ q \in abandoned' \/ Delivered(q)',
           \A q \in (outbox' \union activities') \ (outbox \union activities) :
               q \in Ids /\ proposals[q].status = "approved",
           s \in Demo \ up' => session' = {},
           session' # {} => \A q \in session' \ session :
               s \in Demo \intersect up' /\ Approved(q, "outreach")
               /\ q \in Ids /\ q \in outbox' \intersect activities',
           session' = {} \/ session \subseteq session'
    PROVE  IInv'
  <1> DEFINE T == Servers \ {s}
  <1>1. T \subseteq Servers /\ Servers \ T = {s}
    OBVIOUS
  <1>2. call' \in [Servers -> Call] /\ \A t \in T : call'[t] = call[t]
    BY DEF IInv
  <1>3. up \intersect T \subseteq up' /\ up' \subseteq Servers
    BY DEF IInv
  <1>4. \A t \in Demo \ T : t = s
    BY DEF Servers
  <1>5. \A t \in Demo \ up' : session' = {}
    <2> SUFFICES ASSUME NEW t \in Demo \ up', session' # {} PROVE FALSE
      OBVIOUS
    <2>1. t # s
      OBVIOUS
    <2>2. t \notin up /\ session = {}
      BY <2>1 DEF IInv
    <2>3. s \in Demo
      BY <2>2
    <2> QED
      BY <2>1, <2>3, DemoAssumption
  <1>6. \A q \in session' \ session :
            q \in Ids /\ Approved(q, "outreach") /\ q \in outbox' \intersect activities'
    OBVIOUS
  <1> HIDE DEF T
  <1> QED
    BY <1>1, <1>2, <1>3, <1>4, <1>5, <1>6, QuietKeeps

LEMMA CallTypes ==
    ASSUME IInv, NEW s \in Servers
    PROVE  call[s] \in Call /\ NoCall \in Call /\ NoCall.pc = "idle"
  BY DEF IInv, NoCall, Call

LEMMA SubmitKeeps ==
    ASSUME IInv, NEW s \in Servers, NEW p \in Ids, NEW v \in {"approve", "deny", "revise"},
           Submit(s, p, v)
    PROVE  IInv'
  <1> DEFINE c == [pc |-> "record", p |-> p, verdict |-> v]
  <1>1. c \in Call /\ call' = [call EXCEPT ![s] = c] /\ s \in up
    BY KnownProposal DEF Submit, At, Call
  <1>2. call' \in [Servers -> Call] /\ call'[s] = c /\ \A t \in Servers \ {s} : call'[t] = call[t]
    BY <1>1 DEF IInv
  <1>3. v = "approve" /\ proposals[p].req.action = "call"
            => Blockers(s, proposals[p].req, Completed') = {}
    <2>1. v = "approve" /\ proposals[p].req.action = "call"
              => Blockers(s, proposals[p].req, completions) = {}
      BY DEF Submit, MayRecord
    <2>2. proposals[p].req \in Requests /\ completions \subseteq Completed'
      BY KnownProposal DEF Submit, Completed, files
    <2> QED
      BY <2>1, <2>2, BlockersShrink
  <1>4. CallOK(s)'
    BY <1>1, <1>2, <1>3 DEF CallOK, Submit, Ids
  <1>5. Unfinished(s) = {}
    BY DEF Submit, At, Unfinished
  <1> QED
    BY <1>1, <1>4, <1>5, QuietStep DEF Submit, files, IInv

LEMMA EndsKeep ==
    ASSUME IInv, NEW s \in Servers, RecordRefused(s) \/ SupersedeFails(s)
    PROVE  IInv'
  <1>1. call' \in [Servers -> Call] /\ call'[s] = NoCall /\ \A t \in Servers \ {s} : call'[t] = call[t]
    BY CallTypes DEF RecordRefused, SupersedeFails, Finish, IInv
  <1>2. CallOK(s)'
    BY <1>1 DEF CallOK, NoCall
  <1>3. Unfinished(s) = {}
    BY DEF RecordRefused, SupersedeFails, At, Unfinished
  <1> QED
    BY <1>2, <1>3, CallTypes, QuietStep
       DEF RecordRefused, SupersedeFails, Finish, files, IInv

(* A handler at its commits: its server and what it has approved. *)
LEMMA Committing ==
    ASSUME IInv, NEW s \in Servers, At(s, "outbox") \/ At(s, "crm") \/ At(s, "report")
    PROVE  /\ s \in up /\ s \in Demo /\ call[s].p \in Ids /\ Approved(call[s].p, "outreach")
           /\ call[s].verdict # "none"
           /\ call[s].pc \in {"crm", "report"} => call[s].p \in outbox
           /\ call[s].pc = "report" => call[s].p \in activities
  BY DEF At, IInv, CallOK

LEMMA CommitKeeps ==
    ASSUME IInv, NEW s \in Servers, CommitOutbox(s) \/ CommitCrm(s)
    PROVE  IInv'
  <1> DEFINE pc == IF CommitOutbox(s) THEN "crm" ELSE "report"
             c == [call[s] EXCEPT !.pc = pc]
  <1>1. At(s, "outbox") \/ At(s, "crm")
    BY DEF CommitOutbox, CommitCrm
  <1>2. call' = [call EXCEPT ![s] = c]
    BY DEF CommitOutbox, CommitCrm, Goto
  <1>3. c \in Call /\ c.p = call[s].p /\ c.verdict = call[s].verdict /\ c.pc = pc
    BY CallTypes DEF Call
  <1>4. call'[s] = c
    BY <1>2 DEF IInv
  <1>5. /\ UNCHANGED <<proposals, wiped, up, session, completions, abandoned>>
        /\ outbox \subseteq outbox' /\ activities \subseteq activities'
        /\ call[s].p \in outbox'
        /\ pc = "report" => call[s].p \in activities'
        /\ (outbox' \union activities') \ (outbox \union activities) \subseteq {call[s].p}
    BY <1>1, Committing DEF CommitOutbox, CommitCrm, At
  <1>6. CallOK(s)'
    BY <1>1, <1>3, <1>4, <1>5, Committing DEF CallOK, Ids, Approved
  <1>7. \A q \in Unfinished(s) : q \in Unfinished(s)' \/ Delivered(q)'
    BY <1>1, <1>3, <1>4, <1>5 DEF Unfinished, Delivered
  <1>8. s \in up /\ call[s].p \in Ids /\ proposals[call[s].p].status = "approved"
    BY <1>1, Committing DEF Approved
  <1> HIDE DEF c, pc
  <1> QED
    BY <1>2, <1>3, <1>5, <1>6, <1>7, <1>8, QuietStep

LEMMA ReportKeeps ==
    ASSUME IInv, NEW s \in Servers, Report(s)
    PROVE  IInv'
  <1>1. At(s, "report") /\ call[s].pc = "report"
    BY DEF Report, At
  <1>2. call' = [call EXCEPT ![s] = NoCall] /\ call'[s] = NoCall
    BY DEF Report, Finish, IInv
  <1>3. CallOK(s)'
    BY <1>2 DEF CallOK, NoCall
  <1>4. Unfinished(s) = {}
    BY <1>1 DEF Unfinished
  <1>5. /\ session' = session \union {call[s].p}
        /\ UNCHANGED <<proposals, up, outbox, activities, completions, abandoned, wiped>>
    BY DEF Report, files
  <1> QED
    BY <1>1, <1>2, <1>3, <1>4, <1>5, Committing, CallTypes, QuietStep

LEMMA RaiseKeeps ==
    ASSUME IInv, NEW s \in Servers, CommitRaises(s)
    PROVE  IInv'
  <1>1. At(s, "outbox") \/ At(s, "crm")
    BY DEF CommitRaises
  <1>2. call' = [call EXCEPT ![s] = NoCall] /\ call'[s] = NoCall
    BY DEF CommitRaises, Finish, IInv
  <1>3. CallOK(s)'
    BY <1>2 DEF CallOK, NoCall
  <1>4. \A q \in Unfinished(s) : q \in abandoned'
    BY DEF CommitRaises, Unfinished
  <1>5. /\ UNCHANGED <<proposals, up, session, completions, wiped>>
        /\ abandoned \subseteq abandoned'
        /\ outbox \subseteq outbox' /\ activities \subseteq activities'
        /\ (outbox' \union activities') \ (outbox \union activities) \subseteq {call[s].p}
    BY DEF CommitRaises
  <1>6. s \in up /\ call[s].p \in Ids /\ proposals[call[s].p].status = "approved"
    BY <1>1, Committing DEF Approved
  <1> QED
    BY <1>2, <1>3, <1>4, <1>5, <1>6, CallTypes, QuietStep

LEMMA CrashKeeps ==
    ASSUME IInv, NEW s \in Servers, Crash(s)
    PROVE  IInv'
  <1>1. call' = [call EXCEPT ![s] = NoCall] /\ call'[s] = NoCall
    BY DEF Crash, Finish, IInv
  <1>2. CallOK(s)'
    BY <1>1 DEF CallOK, NoCall
  <1>3. /\ UNCHANGED <<proposals, outbox, activities, completions, wiped>>
        /\ abandoned' = abandoned \union Unfinished(s) /\ up' = up \ {s}
        /\ session' = IF s \in Demo THEN {} ELSE session
    BY DEF Crash, files
  <1> QED
    BY <1>1, <1>2, <1>3, CallTypes, QuietStep

LEMMA AdvanceKeeps ==
    ASSUME IInv, Advance
    PROVE  IInv'
  <1> DEFINE T == Servers
  <1>1. T \subseteq Servers /\ Servers \ T = {} /\ Demo \ T = {}
    BY DEF Servers
  <1>2. /\ UNCHANGED <<proposals, call, up, session, outbox, activities, abandoned, wiped>>
        /\ completions \subseteq completions'
    BY DEF Advance
  <1>3. call' \in [Servers -> Call] /\ up' \subseteq Servers /\ \A t \in Demo \ up' : session' = {}
    BY <1>2 DEF IInv
  <1> HIDE DEF T
  <1> QED
    BY <1>1, <1>2, <1>3, QuietKeeps

(* A boot keeps in wiped what it deletes; no other server has a commit at  *)
(* hand that would miss it.                                                *)
LEMMA BootKeeps ==
    ASSUME IInv, NEW s \in Servers, Boot(s)
    PROVE  IInv'
  <1> DEFINE T == Servers \ {s}
  <1>1. /\ UNCHANGED <<proposals, call, session, abandoned>>
        /\ s \notin up /\ up' = up \union {s}
        /\ outbox' \union wiped'.rows = outbox \union wiped.rows
        /\ activities' \union wiped'.activities = activities \union wiped.activities
        /\ completions' \union wiped'.accounts = completions \union wiped.accounts
        /\ s \notin Demo => UNCHANGED <<outbox, activities>>
    BY DEF Boot, Wiped, files
  <1>2. Grows /\ Ids' = Ids
    BY <1>1 DEF Grows, Ids, Completed
  <1>3. CallOK(s)'
    BY <1>1 DEF IInv, CallOK
  <1>4. \A t \in T : CallOK(t)'
    <2>1. T \subseteq Servers /\ (\A t \in T : call'[t] = call[t]) /\ up \intersect T \subseteq up'
      BY <1>1
    <2>2. \/ outbox \subseteq outbox' /\ activities \subseteq activities'
          \/ T \intersect Demo = {}
      BY <1>1, DemoAssumption
    <2> HIDE DEF T
    <2> QED
      BY <1>2, <2>1, <2>2, CallsKeep
  <1>5. Performed' \subseteq {q \in Ids' : proposals'[q].status = "approved"}
    BY <1>1, <1>2 DEF IInv, Performed
  <1>6. ByServers'
    BY <1>1, <1>2 DEF IInv, ByServers
  <1>7. HeldIsNotApproved'
    <2>1. \A q \in Ids : proposals'[q].status = "approved" => proposals[q].status # "pending"
      BY <1>1
    <2> QED
      BY <1>2, <2>1, HeldKeeps
  <1>8. \A q \in Ids' : Approved(q, "outreach")' /\ proposals'[q].by \in Demo =>
            Delivered(q)' \/ InHand(q)' \/ q \in abandoned'
    <2>1. \A q \in Ids' : (q \in Ids /\ proposals[q].status # "pending")
                            \/ ~ Approved(q, "outreach")'
      BY <1>1, <1>2 DEF Approved
    <2>2. \A t \in Demo : \A q \in Unfinished(t) : q \in Unfinished(t)'
      BY <1>1 DEF Unfinished
    <2> QED
      BY <1>1, <1>2, <2>1, <2>2, DeliveryKeeps
  <1>9. session' # {} => s \notin Demo
    BY <1>1 DEF IInv
  <1>10. \A q \in session' : Approved(q, "outreach")' /\ q \in outbox' \intersect activities'
    BY <1>1, <1>9 DEF IInv, ApprovedIsDelivered, Approved
  <1>11. \A t \in Demo \ up' : session' = {}
    BY <1>1 DEF IInv
  <1>12. ApprovedIsDelivered'
    BY <1>8, <1>10 DEF ApprovedIsDelivered
  <1>13. up' \subseteq Servers
    BY <1>1 DEF IInv
  <1> QED
    BY <1>1, <1>2, <1>3, <1>4, <1>5, <1>6, <1>7, <1>11, <1>12, <1>13 DEF IInv

-----------------------------------------------------------------------------
(* A step that touches no file: it decides a pending proposal or makes one. *)
LEMMA DecidingKeeps ==
    ASSUME IInv, NEW s \in Servers, Grows,
           proposals' \in Seq(Proposal), Len(proposals') <= MaxProposals,
           call' \in [Servers -> Call], CallOK(s)',
           \A t \in Servers \ {s} : call'[t] = call[t],
           UNCHANGED <<up, session, outbox, activities, completions, abandoned, wiped>>,
           s \in Demo => Unfinished(s) \subseteq Unfinished(s)',
           \A q \in Ids' :
               (q \notin Ids \/ Pending(q)) /\ proposals'[q].status = "approved" =>
                   /\ proposals'[q].by = s
                   /\ proposals'[q].req.action = "call" =>
                          Blockers(s, proposals'[q].req, Completed) = {}
                   /\ proposals'[q].req.action = "outreach" /\ s \in Demo => InHand(q)'
    PROVE  IInv'
  <1>1. Completed' = Completed
    BY DEF Completed
  <1>2. \A t \in Servers : CallOK(t)'
    <2> DEFINE T == Servers \ {s}
    <2>1. T \subseteq Servers /\ (\A t \in T : call'[t] = call[t]) /\ up \intersect T \subseteq up'
      OBVIOUS
    <2>2. \A t \in Servers : t = s \/ t \in T
      OBVIOUS
    <2> HIDE DEF T
    <2> QED
      BY <2>1, <2>2, CallsKeep
  <1>3. \A q \in Ids : proposals[q].status = "approved" => q \in Ids' /\ proposals'[q] = proposals[q]
    BY DEF Grows
  <1>4. Performed' \subseteq {q \in Ids' : proposals'[q].status = "approved"}
    BY <1>3 DEF IInv, Performed
  <1>5. ByServers'
    <2> SUFFICES ASSUME NEW q \in Ids', proposals'[q].status = "approved"
                 PROVE  proposals'[q].by \in Servers
      BY DEF ByServers
    <2>1. CASE q \in Ids /\ ~ Pending(q)
      BY <2>1 DEF IInv, ByServers, Grows, Pending
    <2>2. CASE ~ (q \in Ids /\ ~ Pending(q))
      BY <2>2
    <2> QED
      BY <2>1, <2>2
  <1>6. HeldIsNotApproved'
    BY <1>1, HeldKeeps DEF Pending
  <1>7. \A q \in Ids' : Approved(q, "outreach")' /\ proposals'[q].by \in Demo =>
            Delivered(q)' \/ InHand(q)' \/ q \in abandoned'
    <2>1. \A t \in Demo : \A q \in Unfinished(t) : q \in Unfinished(t)'
      <3> SUFFICES ASSUME NEW t \in Demo, t # s PROVE \A q \in Unfinished(t) : q \in Unfinished(t)'
        OBVIOUS
      <3>1. call'[t] = call[t]
        BY DEF Servers
      <3> QED
        BY <3>1 DEF Unfinished
    <2>2. \A q \in Ids' : \/ q \in Ids /\ proposals[q].status # "pending"
                          \/ ~ Approved(q, "outreach")'
                          \/ proposals'[q].by \notin Demo
                          \/ InHand(q)'
      BY DEF Approved, Pending
    <2> QED
      BY <2>1, <2>2, DeliveryKeeps
  <1>8. \A q \in session' : /\ q \in Ids' /\ Approved(q, "outreach")'
                            /\ q \in outbox' \intersect activities'
    BY <1>3 DEF IInv, ApprovedIsDelivered, Approved
  <1>9. ApprovedIsDelivered'
    BY <1>7, <1>8 DEF ApprovedIsDelivered
  <1> QED
    BY <1>2, <1>4, <1>5, <1>6, <1>8, <1>9 DEF IInv

LEMMA RecordKeeps ==
    ASSUME IInv, NEW s \in Servers, Record(s)
    PROVE  IInv'
  <1>1. PICK p, v : p = call[s].p /\ v = call[s].verdict
    OBVIOUS
  <1>2. s \in up /\ call[s].pc = "record" /\ Pending(p) /\ Decided(s, p)
    BY <1>1 DEF Record, At, StillPending
  <1>3. p \in Ids /\ v # "none" /\ call[s] \in Call
    BY <1>1, <1>2 DEF IInv, CallOK
  <1>4. /\ proposals' \in Seq(Proposal) /\ Len(proposals') <= MaxProposals
        /\ Ids' = Ids
        /\ \A q \in Ids \ {p} : proposals'[q] = proposals[q]
        /\ proposals'[p].req = proposals[p].req /\ proposals'[p].by = s
        /\ proposals'[p].status = StatusAfter(v)
    BY <1>1, <1>2, <1>3, DecisionStays
  <1>5. UNCHANGED <<up, session, outbox, activities, completions, abandoned, wiped>>
    BY DEF Record, files
  <1>6. Grows
    BY <1>2, <1>3, <1>4, <1>5 DEF Grows, Pending, Completed
  <1>7. PICK c \in Call : /\ call' = [call EXCEPT ![s] = c]
                          /\ \/ c.pc \in {"supersede", "idle"} /\ ~ (v = "approve" /\ Commits(s, p))
                             \/ c.pc = "outbox" /\ c.p = p /\ c.verdict = v /\ v # "revise" /\ Commits(s, p)
                          /\ c.pc = "supersede" => c.p = p /\ c.verdict = v
    <2>1. CASE v = "revise"
      <3>1. [call[s] EXCEPT !.pc = "supersede"] \in Call
        BY <1>3 DEF Call
      <3> QED
        BY <1>1, <1>3, <2>1, <3>1 DEF Record, Goto, Call
    <2>2. CASE v # "revise" /\ Commits(s, p)
      <3>1. [call[s] EXCEPT !.pc = "outbox"] \in Call
        BY <1>3 DEF Call
      <3> QED
        BY <1>1, <1>3, <2>2, <3>1 DEF Record, Goto, Call
    <2>3. CASE v # "revise" /\ ~ Commits(s, p)
      BY <1>1, <2>3, CallTypes DEF Record, Finish
    <2> QED
      BY <2>1, <2>2, <2>3
  <1>8. call' \in [Servers -> Call] /\ call'[s] = c /\ \A t \in Servers \ {s} : call'[t] = call[t]
    BY <1>7 DEF IInv
  <1>9. CallOK(s)'
    BY <1>1, <1>2, <1>3, <1>4, <1>5, <1>7, <1>8 DEF CallOK, Commits, Approved, StatusAfter
  <1>10. Unfinished(s) = {}
    BY <1>2 DEF Unfinished
  <1>11. ASSUME proposals'[p].status = "approved"
         PROVE  /\ v = "approve"
                /\ proposals'[p].req.action = "call" => Blockers(s, proposals'[p].req, Completed) = {}
                /\ proposals'[p].req.action = "outreach" /\ s \in Demo => InHand(p)'
    <2>1. v = "approve"
      BY <1>4, <1>11 DEF StatusAfter
    <2>2. proposals[p].req.action = "call" => Blockers(s, proposals[p].req, Completed) = {}
      BY <1>1, <1>2, <2>1 DEF IInv, CallOK
    <2>3. proposals[p].req.action = "outreach" /\ s \in Demo => p \in Unfinished(s)'
      BY <1>1, <1>7, <1>8, <2>1 DEF Commits, Unfinished
    <2> QED
      BY <1>4, <2>1, <2>2, <2>3 DEF InHand
  <1>12. \A q \in Ids' :
            (q \notin Ids \/ Pending(q)) /\ proposals'[q].status = "approved" =>
                /\ proposals'[q].by = s
                /\ proposals'[q].req.action = "call" =>
                       Blockers(s, proposals'[q].req, Completed) = {}
                /\ proposals'[q].req.action = "outreach" /\ s \in Demo => InHand(q)'
    <2> SUFFICES ASSUME NEW q \in Ids', q = p \/ q # p,
                        q \notin Ids \/ Pending(q), proposals'[q].status = "approved"
                 PROVE  /\ proposals'[q].by = s
                        /\ proposals'[q].req.action = "call" =>
                               Blockers(s, proposals'[q].req, Completed) = {}
                        /\ proposals'[q].req.action = "outreach" /\ s \in Demo => InHand(q)'
      OBVIOUS
    <2>1. CASE q = p
      BY <1>4, <1>11, <2>1
    <2>2. CASE q # p
      BY <1>4, <2>2 DEF Pending
    <2> QED
      BY <2>1, <2>2
  <1> QED
    BY <1>4, <1>5, <1>6, <1>8, <1>9, <1>10, <1>12, DecidingKeeps

(* A revision or a sweep appends a pending proposal. *)
LEMMA ProposingKeeps ==
    ASSUME IInv, NEW s \in Servers, NEW req \in Requests, Len(proposals) < MaxProposals,
           proposals' = Append(proposals, New(req)), NEW c \in Call,
           call' = [call EXCEPT ![s] = c], c.pc = "idle", Unfinished(s) = {},
           UNCHANGED <<up, session, outbox, activities, completions, abandoned, wiped>>
    PROVE  IInv'
  <1>1. /\ proposals' \in Seq(Proposal) /\ Len(proposals') <= MaxProposals
        /\ Ids' = Ids \union {Len(proposals) + 1} /\ Len(proposals) + 1 \notin Ids
        /\ \A q \in Ids : proposals'[q] = proposals[q]
        /\ proposals'[Len(proposals) + 1] = New(req)
    BY AppendAdds
  <1>2. Grows
    BY <1>1 DEF Grows, Completed
  <1>3. call' \in [Servers -> Call] /\ call'[s] = c /\ \A t \in Servers \ {s} : call'[t] = call[t]
    BY DEF IInv
  <1>4. CallOK(s)'
    BY <1>3 DEF CallOK
  <1>5. \A q \in Ids' : q \notin Ids \/ Pending(q) => proposals'[q].status # "approved"
    <2>1. New(req).status = "pending"
      BY DEF New
    <2>2. \A q \in Ids : Pending(q) => proposals'[q].status # "approved"
      BY <1>1 DEF Pending
    <2> QED
      BY <1>1, <2>1, <2>2
  <1> QED
    BY <1>1, <1>2, <1>3, <1>4, <1>5, DecidingKeeps

LEMMA SupersedeKeeps ==
    ASSUME IInv, NEW s \in Servers, Supersede(s)
    PROVE  IInv'
  <1>1. s \in up /\ call[s].pc = "supersede"
    BY DEF Supersede, At
  <1>2. call[s].p \in Ids
    BY <1>1 DEF IInv, CallOK
  <1>3. proposals[call[s].p].req \in Requests
    BY <1>2, KnownProposal
  <1>4. call' = [call EXCEPT ![s] = NoCall]
    BY DEF Supersede, Finish
  <1> QED
    BY <1>1, <1>3, <1>4, CallTypes, ProposingKeeps DEF Supersede, files, Unfinished

LEMMA SweepKeeps ==
    ASSUME IInv, NEW s \in Servers, NEW req \in Requests, Sweep(s, req)
    PROVE  IInv'
  <1>1. call[s].pc = "idle" /\ call[s] \in Call
    BY CallTypes DEF Sweep, At
  <1>2. call' = [call EXCEPT ![s] = call[s]]
    BY DEF Sweep, IInv
  <1> QED
    BY <1>1, <1>2, ProposingKeeps DEF Sweep, files, Unfinished

-----------------------------------------------------------------------------
(* Init establishes IInv, and every step keeps it. *)
LEMMA InitEstablishes == Init => IInv
  <1> SUFFICES ASSUME Init PROVE IInv
    OBVIOUS
  <1>1. proposals \in Seq(Proposal) /\ Len(proposals) = 0 /\ Ids = {}
    BY DEF Init, Ids
  <1>2. call \in [Servers -> Call] /\ \A s \in Servers : CallOK(s)
    BY DEF Init, NoCall, Call, CallOK
  <1>3. session = {} /\ Performed = {} /\ up = {}
    BY DEF Init, Performed
  <1>4. ByServers /\ HeldIsNotApproved /\ ApprovedIsDelivered
    BY <1>1, <1>3 DEF ByServers, HeldIsNotApproved, ApprovedIsDelivered
  <1> QED
    BY <1>1, <1>2, <1>3, <1>4, BoundAssumption DEF IInv

LEMMA StepKeeps ==
    ASSUME IInv, [Next]_vars
    PROVE  IInv'
  <1>1. CASE UNCHANGED vars
    <2>1. /\ UNCHANGED <<proposals, wiped, call, up, outbox, activities, completions, abandoned>>
          /\ UNCHANGED session
      BY <1>1 DEF vars
    <2> DEFINE T == Servers
    <2>2. T \subseteq Servers /\ Servers \ T = {} /\ Demo \ T = {}
      BY DEF Servers
    <2>3. call' \in [Servers -> Call] /\ up' \subseteq Servers /\ \A t \in Demo \ up' : session' = {}
      BY <2>1 DEF IInv
    <2> HIDE DEF T
    <2> QED
      BY <2>1, <2>2, <2>3, QuietKeeps
  <1>2. CASE \E s \in Servers, p \in Ids, v \in {"approve", "deny", "revise"} : Submit(s, p, v)
    BY <1>2, SubmitKeeps
  <1>3. ASSUME NEW s \in Servers,
               \/ Record(s) \/ RecordRefused(s) \/ Supersede(s) \/ SupersedeFails(s)
               \/ CommitOutbox(s) \/ CommitCrm(s) \/ Report(s)
               \/ CommitRaises(s) \/ Crash(s) \/ Boot(s)
        PROVE  IInv'
    BY <1>3, RecordKeeps, EndsKeep, SupersedeKeeps, CommitKeeps, ReportKeeps, RaiseKeeps,
       CrashKeeps, BootKeeps
  <1>4. CASE \E s \in Servers, req \in Requests : Sweep(s, req)
    BY <1>4, SweepKeeps
  <1>5. CASE Advance
    BY <1>5, AdvanceKeeps
  <1> QED
    BY <1>1, <1>2, <1>3, <1>4, <1>5 DEF Next

(* IInv holds in every reachable state: the types, and what each handler   *)
(* has checked, approved and written (api.py:2204, mcp_server.py:1762).    *)
THEOREM Invariance == Spec => []IInv
  <1>1. Init => IInv
    BY InitEstablishes
  <1>2. IInv /\ [Next]_vars => IInv'
    BY StepKeeps
  <1> QED
    BY <1>1, <1>2, PTL DEF Spec

(* An approved call was not held by the book its surface consults, whatever*)
(* the servers interleave and the simulation completes (api.py:2240,       *)
(* mcp_server.py:1852).                                                    *)
THEOREM HeldIsHeld == Spec => []HeldIsNotApproved
  <1>1. IInv => HeldIsNotApproved
    BY DEF IInv
  <1> QED
    BY <1>1, Invariance, PTL

(* Outreach the demo server approves is delivered, in hand, or known to    *)
(* have been abandoned or wiped, and every receipt has its row and its     *)
(* activity (mcp_server.py:1887, 1904).                                    *)
THEOREM ApprovalsAreDelivered == Spec => []ApprovedIsDelivered
  <1>1. IInv => ApprovedIsDelivered
    BY DEF IInv
  <1> QED
    BY <1>1, Invariance, PTL

-----------------------------------------------------------------------------
(* Refinement of Authorization.  A step that decides nothing leaves what   *)
(* Authorization sees of the proposals, and performs at most one of them.  *)
LEMMA DecisionSame ==
    ASSUME UNCHANGED proposals
    PROVE  UNCHANGED decisionBar
  BY DEF decisionBar, DecisionOf, Pending, Ids, Person, Agent

LEMMA QuietMaps ==
    ASSUME UNCHANGED proposals, UNCHANGED Performed
    PROVE  UNCHANGED Abstract!vars
  <1>1. UNCHANGED performedBar
    BY DEF performedBar
  <1> QED
    BY <1>1, DecisionSame DEF Abstract!vars

LEMMA PerformMaps ==
    ASSUME IInv, NEW p \in Ids, proposals[p].status = "approved",
           UNCHANGED proposals, Performed' = Performed \union {p}
    PROVE  Abstract!Next
  <1>1. p \in 1..MaxProposals
    BY KnownProposal, BoundAssumption DEF IInv
  <1>2. decisionBar[p] = DecisionOf(p)
    BY <1>1 DEF decisionBar
  <1>3. decisionBar[p].state = "granted" /\ decisionBar[p].payload = proposals[p].req
    BY <1>2 DEF DecisionOf, StateOf
  <1>4. performedBar' = performedBar \union {<<p, proposals[p].req>>}
    BY DEF performedBar
  <1>5. Abstract!Perform(p)
    BY <1>3, <1>4, DecisionSame DEF Abstract!Perform
  <1> QED
    BY <1>1, <1>5 DEF Abstract!Next

LEMMA ProposeMaps ==
    ASSUME IInv, NEW req \in Requests, Len(proposals) < MaxProposals,
           proposals' = Append(proposals, New(req)), UNCHANGED Performed
    PROVE  Abstract!Next
  <1>1. PICK n \in 1..MaxProposals : n = Len(proposals) + 1
    BY BoundAssumption DEF IInv
  <1>2. /\ Ids' = Ids \union {n} /\ n \notin Ids
        /\ \A q \in Ids : proposals'[q] = proposals[q]
        /\ proposals'[n] = New(req)
    BY <1>1, AppendAdds
  <1> DEFINE open == [state |-> "open", proposer |-> Agent, tier |-> 2,
                      payload |-> "none", by |-> "none"]
  <1>3. decisionBar[n].state = "none"
    BY <1>2 DEF decisionBar
  <1>4. decisionBar'[n] = open
    <2>1. proposals'[n].status = "pending"
      <3>1. New(req).status = "pending"
        BY DEF New
      <3> QED
        BY <1>2, <3>1
    <2>2. DecisionOf(n)' = open
      BY <2>1 DEF DecisionOf, Pending, StateOf
    <2>3. decisionBar'[n] = DecisionOf(n)'
      BY <1>2 DEF decisionBar
    <2> QED
      BY <2>2, <2>3
  <1>5. \A q \in 1..MaxProposals \ {n} : decisionBar'[q] = decisionBar[q]
    BY <1>2 DEF decisionBar, DecisionOf, Pending
  <1>6. decisionBar' = [decisionBar EXCEPT ![n] = open]
    <2>1. /\ decisionBar = [q \in 1..MaxProposals |-> decisionBar[q]]
          /\ decisionBar' = [q \in 1..MaxProposals |-> decisionBar'[q]]
      BY DEF decisionBar
    <2> HIDE DEF open
    <2> QED
      BY <1>4, <1>5, <2>1
  <1>7. UNCHANGED performedBar
    BY <1>2 DEF performedBar, IInv
  <1>8. Abstract!Open(n, Agent, 2)
    BY <1>3, <1>6, <1>7 DEF Abstract!Open
  <1> QED
    BY <1>8 DEF Abstract!Next

LEMMA RecordMaps ==
    ASSUME IInv, NEW s \in Servers, Record(s)
    PROVE  Abstract!Next
  <1>1. PICK p, v : p = call[s].p /\ v = call[s].verdict
    OBVIOUS
  <1>2. s \in up /\ call[s].pc = "record" /\ Pending(p) /\ Decided(s, p)
    BY <1>1 DEF Record, At, StillPending
  <1>3. p \in Ids
    BY <1>1, <1>2 DEF IInv, CallOK
  <1>4. p \in 1..MaxProposals /\ proposals[p].req \in Requests
    BY <1>3, KnownProposal, BoundAssumption DEF IInv
  <1>5. /\ Ids' = Ids
        /\ \A q \in Ids \ {p} : proposals'[q] = proposals[q]
        /\ proposals'[p].req = proposals[p].req
        /\ proposals'[p].status = StatusAfter(v)
    BY <1>1, <1>2, <1>3, DecisionStays
  <1> DEFINE decided == [state |-> IF v = "approve" THEN "granted" ELSE "refused",
                         proposer |-> Agent, tier |-> 2,
                         payload |-> IF v = "approve" THEN proposals[p].req ELSE "none",
                         by |-> Person]
  <1>6. /\ decisionBar[p].state = "open" /\ decisionBar[p].proposer = Agent
        /\ decisionBar[p].tier = 2
    BY <1>2, <1>3, <1>4 DEF decisionBar, DecisionOf, Pending, StateOf
  <1>7. decisionBar'[p] = decided
    BY <1>3, <1>4, <1>5 DEF decisionBar, DecisionOf, Pending, StateOf, StatusAfter
  <1>8. \A q \in 1..MaxProposals \ {p} : decisionBar'[q] = decisionBar[q]
    BY <1>5 DEF decisionBar, DecisionOf, Pending
  <1>9. decisionBar' = [decisionBar EXCEPT ![p] = decided]
    <2>1. /\ decisionBar = [q \in 1..MaxProposals |-> decisionBar[q]]
          /\ decisionBar' = [q \in 1..MaxProposals |-> decisionBar'[q]]
      BY DEF decisionBar
    <2> HIDE DEF decided
    <2> QED
      BY <1>4, <1>7, <1>8, <2>1
  <1>10. UNCHANGED performedBar
    <2>1. UNCHANGED Performed
      BY DEF Record, files, Performed
    <2>2. \A q \in Performed : q \in Ids \ {p}
      BY <1>2 DEF IInv, Pending
    <2> QED
      BY <1>5, <2>1, <2>2 DEF performedBar
  <1>11. CASE v = "approve"
    <2>1. Abstract!Grant(p, proposals[p].req, Person)
      BY <1>6, <1>9, <1>10, <1>11 DEF Abstract!Grant, Person, Agent
    <2> QED
      BY <1>4, <2>1 DEF Abstract!Next
  <1>12. CASE v # "approve"
    <2>1. Abstract!Refuse(p, Person)
      BY <1>6, <1>9, <1>10, <1>12 DEF Abstract!Refuse
    <2> QED
      BY <1>4, <2>1 DEF Abstract!Next
  <1> QED
    BY <1>11, <1>12

(* Every behaviour of the surfaces is one Authorization allows: a proposal *)
(* is decided once, and nothing but what was approved is performed         *)
(* (api.py:2204, mcp_server.py:1762).                                      *)
THEOREM SurfacesImplementAuthorization == Spec => ImplementsAuthorization
  <1>1. Init => Abstract!Init
    <2> SUFFICES ASSUME Init PROVE Abstract!Init
      OBVIOUS
    <2>1. Ids = {} /\ Performed = {}
      BY DEF Init, Ids, Performed
    <2> QED
      BY <2>1 DEF Abstract!Init, Abstract!Undecided, decisionBar, performedBar
  <1>2. IInv /\ [Next]_vars => [Abstract!Next]_(Abstract!vars)
    <2> SUFFICES ASSUME IInv, [Next]_vars PROVE Abstract!Next \/ UNCHANGED Abstract!vars
      OBVIOUS
    <2>1. ASSUME NEW s \in Servers, Record(s)
          PROVE  Abstract!Next
      BY <2>1, RecordMaps
    <2>2. ASSUME NEW s \in Servers, Supersede(s)
          PROVE  Abstract!Next
      <3>1. call[s].p \in Ids
        BY <2>2 DEF Supersede, At, IInv, CallOK
      <3>2. proposals[call[s].p].req \in Requests
        BY <3>1, KnownProposal
      <3>3. UNCHANGED Performed
        BY <2>2 DEF Supersede, files, Performed
      <3> QED
        BY <2>2, <3>2, <3>3, ProposeMaps DEF Supersede
    <2>3. ASSUME NEW s \in Servers, NEW req \in Requests, Sweep(s, req)
          PROVE  Abstract!Next
      <3>1. UNCHANGED Performed
        BY <2>3 DEF Sweep, files, Performed
      <3> QED
        BY <2>3, <3>1, ProposeMaps DEF Sweep
    <2>4. ASSUME NEW s \in Servers, CommitOutbox(s) \/ CommitCrm(s) \/ CommitRaises(s)
          PROVE  Abstract!Next \/ UNCHANGED Abstract!vars
      <3>1. UNCHANGED <<proposals, wiped>>
        BY <2>4 DEF CommitOutbox, CommitCrm, CommitRaises
      <3>2. At(s, "outbox") \/ At(s, "crm")
        BY <2>4 DEF CommitOutbox, CommitCrm, CommitRaises
      <3>3. call[s].p \in Ids /\ proposals[call[s].p].status = "approved"
        BY <3>2, Committing DEF Approved
      <3>4. UNCHANGED Performed \/ Performed' = Performed \union {call[s].p}
        BY <2>4 DEF CommitOutbox, CommitCrm, CommitRaises, Performed
      <3> QED
        BY <3>1, <3>3, <3>4, PerformMaps, QuietMaps
    <2>5. ASSUME NEW s \in Servers,
                 RecordRefused(s) \/ SupersedeFails(s) \/ Report(s) \/ Crash(s) \/ Boot(s)
          PROVE  UNCHANGED Abstract!vars
      <3>1. UNCHANGED <<proposals, Performed>>
        BY <2>5 DEF RecordRefused, SupersedeFails, Report, Crash, Boot, Wiped, files, Performed
      <3> QED
        BY <3>1, QuietMaps
    <2>6. CASE \/ Advance \/ UNCHANGED vars
               \/ \E s \in Servers, p \in Ids, v \in {"approve", "deny", "revise"} : Submit(s, p, v)
      <3>1. UNCHANGED <<proposals, Performed>>
        BY <2>6 DEF Advance, Submit, vars, files, Performed
      <3> QED
        BY <3>1, QuietMaps
    <2> QED
      BY <2>1, <2>2, <2>3, <2>4, <2>5, <2>6 DEF Next
  <1> QED
    BY <1>1, <1>2, Invariance, PTL DEF Spec, ImplementsAuthorization, Abstract!Spec
=============================================================================
