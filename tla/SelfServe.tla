------------------------------ MODULE SelfServe ------------------------------
(***************************************************************************)
(* Self-serve activation: POST /integrations/self-serve/signup (api.py),   *)
(* the workflow it runs over the data plane (self_serve_activation.py),    *)
(* and what it leaves in the database: the consent fact of the contact, a  *)
(* proposal, the packet (self_serve_activation_store.py) and three rows of *)
(* the audit ledger (audit_ledger.py), each in a transaction of its own.   *)
(*                                                                         *)
(* The product delivers a signup any number of times.  Each server runs    *)
(* one call at a time; a call may end in an error, or its server die,      *)
(* between any two transactions.  What the workflow reads is read in one   *)
(* step, from a book that may be another one at every call.                *)
(***************************************************************************)
EXTENDS Integers, Sequences, FiniteSets, FiniteSetsExt, SequencesExt

CONSTANTS
    Servers,
    Events,    \* signups that may be delivered
    BooksRead, \* what the data plane may say
    Personal,  \* PERSONAL_EMAIL_DOMAINS
    MaxCalls,  \* bound on deliveries
    MaxFaults, \* bound on calls that fail
    NONE

(* An event is received at some second, and part is the rest of            *)
(* observed_at.  Values of usage signals are counted in halves.  Among     *)
(* contacts, level 0 is none, and equal levels are told apart by address,  *)
(* in an order that is fixed but left open.                                *)
IsEmail(x) == DOMAIN x = {"name", "domain"}

IsEvent(e) ==
    /\ DOMAIN e = {"workspace", "email", "second", "part", "account", "plan"}
    /\ IsEmail(e.email)
    /\ e.plan \in {"free", "enterprise"}

IsBook(b) ==
    /\ DOMAIN b = {"accounts", "listed", "contacts", "signals", "cases", "adoption"}
    /\ b.listed \subseteq b.accounts
    /\ IsFiniteSet(b.contacts) /\ IsFiniteSet(b.signals) /\ IsFiniteSet(b.cases)
    /\ \A c \in b.contacts :
          /\ DOMAIN c = {"account", "email", "consent", "level"}
          /\ c.account \in b.accounts /\ IsEmail(c.email)
          /\ c.consent \in BOOLEAN /\ c.level \in Nat
    /\ \A s \in b.signals : DOMAIN s = {"account", "metric", "nth", "value"} /\ s.value \in Nat
    /\ \A k \in b.cases : DOMAIN k = {"account", "nth"}

ASSUME EventAssumption == \A e \in Events : IsEvent(e)
ASSUME BookAssumption  == \A b \in BooksRead : IsBook(b)
ASSUME CallsAssumption == MaxCalls \in Nat /\ MaxFaults \in Nat

VARIABLES
    calls,      \* the call each server is running
    delivered,  \* deliveries so far, at most MaxCalls
    consents,   \* contacts whose consent is recorded (outreach_contact_consent_ref)
    proposals,  \* action_proposal, in the order of creation
    packets,    \* workflow_packet
    ledger,     \* audit.event_log
    answered,   \* calls that returned, with their proposals
    disturbed,  \* packet ids of calls that failed or overlapped
    faults      \* calls that failed, at most MaxFaults

signupVars == <<calls, delivered, consents, proposals, packets, ledger, answered, disturbed, faults>>

-----------------------------------------------------------------------------
(* Whose workspace it is.                                                  *)
AccountsOf(contacts) == {c.account : c \in contacts}

Candidates(e, b) ==
    LET exact  == {c \in b.contacts : c.email = e.email}
        domain == {c \in b.contacts : c.account \in b.listed /\ c.email.domain = e.email.domain}
    IN  IF e.account # NONE THEN {e.account} \intersect b.accounts
        ELSE IF exact # {} THEN AccountsOf(exact)
        ELSE IF e.email.domain \in Personal \union {NONE} THEN {}
        ELSE AccountsOf(domain)

ExactlyOne(e, b) == Cardinality(Candidates(e, b)) = 1

AccountFor(e, b) ==
    IF ExactlyOne(e, b) THEN CHOOSE a \in Candidates(e, b) : TRUE
    ELSE IF e.account # NONE THEN e.account ELSE e.workspace

(* What is known of account a.                                             *)
Contacts(a, b) == {c \in b.contacts : c.account = a}
Signals(a, b)  == {s \in b.signals : s.account = a}
Cases(a, b)    == {k \in b.cases : k.account = a}

Seen(a, b, metrics) == {s \in Signals(a, b) : s.metric \in metrics /\ s.value > 0}

Level(c) == IF c.level = 0 THEN 99 ELSE c.level

PreferredContact(a, b) ==
    LET consented == {c \in Contacts(a, b) : c.consent}
    IN  IF consented = {} THEN NONE
        ELSE CHOOSE c \in consented : \A d \in consented : Level(c) <= Level(d)

MissingSources(e, b) ==
    LET a == AccountFor(e, b)
    IN  {x \in {"resolved_organization", "product_telemetry", "contact_record"} :
            CASE x = "resolved_organization" -> ~ExactlyOne(e, b)
              [] x = "product_telemetry"     -> Signals(a, b) = {}
              [] x = "contact_record"        -> Contacts(a, b) = {}}

Blockers(e, b) ==
    MissingSources(e, b)
    \union (IF PreferredContact(AccountFor(e, b), b) = NONE THEN {"no_consented_contact"} ELSE {})
    \union (IF e.email.domain \in Personal THEN {"personal_email_domain"} ELSE {})

-----------------------------------------------------------------------------
(* The value path.  A milestone is complete when enough whole signals of   *)
(* its metrics were seen, of any of them or of all.                        *)
Milestone(id, metrics) == [id |-> id, metrics |-> metrics, all |-> FALSE, min |-> 1]
Both(m)  == [m EXCEPT !.all = TRUE, !.min = 2]
Twice(m) == [m EXCEPT !.min = 2]

CrmInterest == {"crm_integration_viewed", "crm_connect_clicked", "crm_connection_requested"}
CrmSponsor  == {"enterprise_plan_viewed", "stakeholder_invited", "champion_invited"}
Created     == Milestone("signup", {"workspace_created"})

PathDefinitions == [
    solo_evaluator |-> [
        selection  |-> {"workspace_created", "profile_completed", "context_added",
                        "saved_view_created", "insight_saved", "first_search_run", "insight_viewed"},
        milestones |-> <<Created,
            Milestone("setup", {"profile_completed", "context_added"}),
            Milestone("first_value", {"saved_view_created", "insight_saved", "first_search_run"}),
            Twice(Milestone("habit", {"return_session", "insight_viewed"}))>>],
    team_workspace_creator |-> [
        selection  |-> {"team_workspace_created", "invite_sent", "invited_user_activated",
                        "shared_workflow_created", "weekly_active_team_members"},
        milestones |-> <<Milestone("signup", {"workspace_created", "team_workspace_created"}),
            Milestone("invite", {"invite_sent"}),
            Milestone("first_value", {"invited_user_activated", "shared_workflow_created"}),
            Twice(Milestone("depth", {"shared_workflow_run", "weekly_active_team_members"}))>>],
    integration_led_evaluator |-> [
        selection  |-> {"integration_catalog_viewed", "integration_connected", "sync_succeeded",
                        "workflow_run", "synced_record_used"},
        milestones |-> <<Created,
            Milestone("integration_selected", {"integration_catalog_viewed"}),
            Both(Milestone("first_value", {"integration_connected", "sync_succeeded"})),
            Milestone("workflow", {"workflow_run", "synced_record_used"})>>],
    crm_enterprise_curious |-> [
        selection  |-> CrmInterest \union CrmSponsor \union {"integration_boundary_hit"},
        milestones |-> <<Created,
            Milestone("crm_interest", CrmInterest),
            Milestone("first_value", CrmSponsor),
            Milestone("next_step", {"enterprise_intro_requested", "demo_requested"})>>],
    workflow_automation_evaluator |-> [
        selection  |-> {"workflow_created", "workflow_run", "automation_success", "repeat_workflow_run"},
        milestones |-> <<Created,
            Milestone("workflow_created", {"workflow_created"}),
            Both(Milestone("first_value", {"workflow_run", "automation_success"})),
            Twice(Milestone("habit", {"repeat_workflow_run"}))>>],
    reporting_visibility_evaluator |-> [
        selection  |-> {"dashboard_viewed", "report_viewed", "report_created", "export_shared",
                        "report_revisited"},
        milestones |-> <<Created,
            Milestone("report_viewed", {"dashboard_viewed", "report_viewed"}),
            Milestone("first_value", {"report_created", "export_shared"}),
            Twice(Milestone("habit", {"return_session", "report_revisited"}))>>],
    support_friction_signup |-> [
        selection  |-> {"support_chat_opened", "help_doc_viewed", "resolution_confirmed",
                        "profile_completed", "workflow_created"},
        milestones |-> <<Created,
            Milestone("friction", {"support_chat_opened", "help_doc_viewed"}),
            Milestone("first_value", {"resolution_confirmed", "profile_completed", "workflow_created"}),
            Milestone("habit", {"return_session"})>>]]

ByName == <<"crm_enterprise_curious", "integration_led_evaluator",
            "reporting_visibility_evaluator", "solo_evaluator", "support_friction_signup",
            "team_workspace_creator", "workflow_automation_evaluator">>

(* The support path counts cases as well, by three quarters; the scores    *)
(* are in quarters.                                                        *)
Evidence(p, a, b) ==
    Seen(a, b, PathDefinitions[p].selection)
    \union (IF p = "support_friction_signup" THEN Cases(a, b) ELSE {})

Score(p, a, b) ==
    4 * Cardinality(Seen(a, b, PathDefinitions[p].selection))
    + CASE p = "support_friction_signup" -> 3 * Cardinality(Cases(a, b))
        [] p = "crm_enterprise_curious"  -> 2
        [] p = "team_workspace_creator"  -> IF a \in b.adoption THEN 1 ELSE 0
        [] OTHER -> 0

FirstByName(paths) ==
    ByName[CHOOSE i \in DOMAIN ByName :
              ByName[i] \in paths /\ \A j \in 1..(i - 1) : ByName[j] \notin paths]

PrimaryPath(a, b) ==
    LET hypotheses == {p \in DOMAIN PathDefinitions : Evidence(p, a, b) # {}}
        best == {p \in hypotheses : \A q \in hypotheses : Score(q, a, b) <= Score(p, a, b)}
    IN  IF best = {} THEN "solo_evaluator"
        ELSE FirstByName(best)

Completed(m, a, b) ==
    LET matching == {s \in Signals(a, b) : s.metric \in m.metrics /\ s.value >= 2}
        metrics  == {s.metric : s \in matching}
    IN  /\ IF m.all THEN metrics = m.metrics ELSE metrics # {}
        /\ Cardinality(matching) >= m.min

FirstValueReached(a, b) ==
    \E m \in Range(PathDefinitions[PrimaryPath(a, b)].milestones) :
        m.id = "first_value" /\ Completed(m, a, b)

(* No milestone is ever stale here: the workflow runs as of the day of the *)
(* event.                                                                  *)
CurrentMilestone(a, b) ==
    LET incomplete == SelectSeq(PathDefinitions[PrimaryPath(a, b)].milestones,
                                LAMBDA m : ~Completed(m, a, b))
    IN  IF incomplete = <<>> THEN NONE ELSE Head(incomplete).id

ActionType(a, b) ==
    CASE PrimaryPath(a, b) = "crm_enterprise_curious" -> "route_to_sales_assisted_expansion"
      [] PrimaryPath(a, b) # "crm_enterprise_curious" /\ FirstValueReached(a, b) -> "recommend_next_feature"
      [] OTHER -> IF CurrentMilestone(a, b) = "invite" THEN "send_invite_followup"
                  ELSE "send_activation_nudge"

ForgetsTheNudge(e, b) ==  \* mutant
    Blockers(e, b)
    \union (IF e.plan = "enterprise" THEN {"enterprise_plan"} ELSE {})
    \union (IF ActionType(AccountFor(e, b), b) = "route_to_sales_assisted_expansion"
            THEN {"sales_assisted_review"} ELSE {})

Suppressions(e, b) ==
    LET a == AccountFor(e, b)
    IN  Blockers(e, b)
        \union (IF Seen(a, b, {"activation_nudge_sent"}) # {} THEN {"recent_nudge"} ELSE {})
        \union (IF e.plan = "enterprise" THEN {"enterprise_plan"} ELSE {})
        \union (IF ActionType(a, b) = "route_to_sales_assisted_expansion"
                THEN {"sales_assisted_review"} ELSE {})

Status(e, b) ==
    IF "product_telemetry" \in MissingSources(e, b) THEN "needs_data"
    ELSE IF Suppressions(e, b) # {} THEN "internal_only" ELSE "ready"

(* What the call will propose: a draft to the contact, or with none a      *)
(* recommendation that stays inside.                                       *)
Plan == [eb \in Events \X BooksRead |->
    LET e       == eb[1]
        b       == eb[2]
        a       == AccountFor(e, b)
        outward == Status(e, b) = "ready"
    IN  [event |-> e, account |-> a, read |-> b,
         action  |-> IF outward THEN ActionType(a, b) ELSE "internal_only_packet",
         contact |-> IF outward THEN PreferredContact(a, b) ELSE NONE]]

-----------------------------------------------------------------------------
NamedBySecond(e) == <<e.second>>  \* mutant

(* Packets are named by the workspace and the digits of observed_at up to  *)
(* the second; the trigger's ledger row by the workspace and the address.  *)
PacketId(e) == <<e.workspace, e.second>>
TriggerRef(e) == <<e.workspace, e.email>>

AuditEvents == <<"trigger", "packet", "value_path">>

SourceRef(type, e) == IF type = "trigger" THEN TriggerRef(e) ELSE PacketId(e)

NoCall == [pc |-> "idle", plan |-> NONE, proposal |-> 0, logged |-> 0]

SignupInit ==
    /\ calls = [s \in Servers |-> NoCall]
    /\ delivered = 0
    /\ consents = {}
    /\ proposals = <<>>
    /\ packets = {} /\ ledger = {}
    /\ answered = {} /\ disturbed = {}
    /\ faults = 0

Running(s) == calls[s].pc # "idle"

Receive(s, e, b) ==
    LET plan == Plan[<<e, b>>]
    IN  /\ ~Running(s)
        /\ delivered < MaxCalls
        /\ delivered' = delivered + 1
        /\ calls' = [calls EXCEPT ![s] =
               [NoCall EXCEPT !.pc = IF plan.contact = NONE THEN "propose" ELSE "consent",
                              !.plan = plan]]
        /\ disturbed' = disturbed \union
               {PacketId(e) : r \in {r \in Servers : Running(r) /\ PacketId(calls[r].plan.event) = PacketId(e)}}
        /\ UNCHANGED <<consents, proposals, packets, ledger, answered, faults>>

RecordConsent(s) ==
    /\ calls[s].pc = "consent"
    /\ consents' = consents \union {calls[s].plan.contact}
    /\ calls' = [calls EXCEPT ![s].pc = "propose"]
    /\ UNCHANGED <<delivered, proposals, packets, ledger, answered, disturbed, faults>>

Propose(s) ==
    /\ calls[s].pc = "propose"
    /\ proposals' = Append(proposals, calls[s].plan)
    /\ calls' = [calls EXCEPT ![s].pc = "store", ![s].proposal = Len(proposals) + 1]
    /\ UNCHANGED <<delivered, consents, packets, ledger, answered, disturbed, faults>>

(* The upsert: the last delivery names the packet.                         *)
StorePacket(s) ==
    LET plan == calls[s].plan
        id   == PacketId(plan.event)
    IN  /\ calls[s].pc = "store"
        /\ packets' = {x \in packets : x.id # id}
                      \union {[id |-> id, account |-> plan.account, proposal |-> calls[s].proposal,
                               status |-> Status(plan.event, plan.read)]}
        /\ calls' = [calls EXCEPT ![s].pc = "log"]
        /\ UNCHANGED <<delivered, consents, proposals, ledger, answered, disturbed, faults>>

Overwritten(row) ==  \* mutant
    {x \in ledger : x.type # row.type \/ x.ref # row.ref} \union {row}

(* ON CONFLICT DO NOTHING: the first delivery names the row.  Only the     *)
(* rows of the packet and of the value path carry a proposal.              *)
Inserted(row) ==
    IF \E x \in ledger : x.type = row.type /\ x.ref = row.ref THEN ledger
    ELSE ledger \union {row}

RecordAuditEvent(s) ==
    LET call == calls[s]
        e    == call.plan.event
        type == AuditEvents[call.logged + 1]
    IN  /\ call.pc = "log"
        /\ ledger' = Inserted([type |-> type, ref |-> SourceRef(type, e),
                               proposal |-> IF type = "trigger" THEN 0 ELSE call.proposal])
        /\ IF call.logged + 1 < Len(AuditEvents)
           THEN /\ calls' = [calls EXCEPT ![s].logged = @ + 1]
                /\ UNCHANGED answered
           ELSE /\ calls' = [calls EXCEPT ![s] = NoCall]
                /\ answered' = answered \union {call.proposal}
        /\ UNCHANGED <<delivered, consents, proposals, packets, disturbed, faults>>

(* The call raises, or the server dies.                                    *)
Fail(s) ==
    /\ Running(s)
    /\ faults < MaxFaults
    /\ faults' = faults + 1
    /\ disturbed' = disturbed \union {PacketId(calls[s].plan.event)}
    /\ calls' = [calls EXCEPT ![s] = NoCall]
    /\ UNCHANGED <<delivered, consents, proposals, packets, ledger, answered>>

SignupNext ==
    \E s \in Servers :
        \/ \E e \in Events, b \in BooksRead : Receive(s, e, b)
        \/ RecordConsent(s)
        \/ Propose(s)
        \/ StorePacket(s)
        \/ RecordAuditEvent(s)
        \/ Fail(s)

SignupSpec == SignupInit /\ [][SignupNext]_signupVars

-----------------------------------------------------------------------------
(* Properties.                                                             *)

(* Whoever is to be written to was meant: what the call read knows of one  *)
(* account only that may be the signup's, by its id, by the very address,  *)
(* or else by a company's domain within the tenant; the contact is of that *)
(* account, consents, and its consent was recorded; the product has seen   *)
(* the account, but no earlier nudge, and any interest in the CRM is       *)
(* outnumbered by other evidence; and neither the address nor the plan is  *)
(* one the workflow leaves alone (self_serve_activation.py:371, 617, 953,  *)
(* 1055).                                                                  *)
BelongsTo(e, a, b) ==
    LET same   == {c \in b.contacts : c.email = e.email}
        domain == {c \in b.contacts : c.email.domain = e.email.domain /\ c.account \in b.listed}
    IN  \/ e.account = a
        \/ e.account = NONE /\ same # {} /\ \A c \in same : c.account = a
        \/ e.account = NONE /\ same = {} /\ domain # {} /\ \A c \in domain : c.account = a

Known(a, b) == {s \in b.signals : s.account = a /\ s.value > 0}
Crm(a, b) == {s \in Known(a, b) : s.metric \in PathDefinitions["crm_enterprise_curious"].selection}
Others(a, b) == (Known(a, b) \ Crm(a, b)) \union {k \in b.cases : k.account = a}

Warranted(p) ==
    LET e == p.event
        a == p.account
        b == p.read
    IN  /\ a \in b.accounts /\ BelongsTo(e, a, b)
        /\ p.contact \in consents
        /\ p.contact.account = a /\ p.contact.consent
        /\ e.email.domain \notin Personal /\ e.plan # "enterprise"
        /\ \A s \in Known(a, b) : s.metric # "activation_nudge_sent"
        /\ \E s \in b.signals : s.account = a
        /\ Cardinality(Crm(a, b)) > 0 => Cardinality(Crm(a, b)) < Cardinality(Others(a, b))

OutreachIsWarranted ==
    \A p \in DOMAIN proposals : proposals[p].contact # NONE => Warranted(proposals[p])

(* A delivery that comes again proposes again.  Of the proposals that were *)
(* made for one workspace and second, the ledger keeps naming the first    *)
(* and the packet the last, so that after one repetition both are found,   *)
(* unless a call failed or two of them overlapped (audit_ledger.py:84,     *)
(* self_serve_activation_store.py:45).                                     *)
InHand == {calls[s].proposal : s \in Servers}

NamedFor(id) ==
    {x.proposal : x \in {x \in packets : x.id = id}}
    \union {x.proposal : x \in {x \in ledger : x.type # "trigger" /\ x.ref = id}}

FirstAndLastAreFound ==
    \A p \in DOMAIN proposals :
        LET id     == PacketId(proposals[p].event)
            others == {q \in DOMAIN proposals \ {p} : PacketId(proposals[q].event) = id}
        IN  id \notin disturbed /\ ((\A q \in others : p < q) \/ (\A q \in others : q < p))
                => p \in NamedFor(id) \union InHand

(* What was answered is on record, whatever is delivered later: a packet   *)
(* and a row of each kind for its workspace and second, a trigger row for  *)
(* its address, and a packet that is ready exactly when the proposal it    *)
(* names is addressed to somebody (api.py:2025, 1111).                     *)
SameSignup(e, f) == e.workspace = f.workspace /\ e.second = f.second

HasPacket(e) ==
    \E x \in packets :
        LET p == proposals[x.proposal]
        IN  /\ SameSignup(p.event, e) /\ x.account = p.account
            /\ x.status = "ready" <=> p.contact # NONE

HasRow(type, e) ==
    \E x \in ledger : x.type = type /\ SameSignup(proposals[x.proposal].event, e)

AnsweredIsRecorded ==
    \A p \in answered :
        LET e == proposals[p].event
        IN  /\ HasPacket(e)
            /\ HasRow("packet", e) /\ HasRow("value_path", e)
            /\ \E x \in ledger : x.type = "trigger" /\ x.ref = <<e.workspace, e.email>>
=============================================================================
