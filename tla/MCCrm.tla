-------------------------------- MODULE MCCrm --------------------------------
(* The attribution side of the CRM: assertions and merges, lead and sale order *)
(* events, the native UTM classification, the convergence of conversations,    *)
(* the Google click lookup, the admission of Meta leads, the split of an       *)
(* event's amount and the revisions of a touchpoint.  Each part holds the rows *)
(* it writes, the automatic messages to new leads included; one part is chosen *)
(* at the start and the others rest.                                           *)
EXTENDS Integers, TLC

CONSTANTS Leads, Credited, Authorities, Writers, MaxAssertions,
          PageSize, MaxTracking, MaxPages,
          Touchpoints, Workers, MaxTurns,
          ConversationLinks, Evidence, Businesses, LinksPerJob, Converters, MaxChanges,
          Accounts, Lookers, EmptyRetries, Deferrals, MaxLookupTurns,
          OrderLeads, MaxTracked,
          Submissions, Intakes, MaxAdmissionTurns,
          Clicks, MaxNamed, Unit, MaxRevisions,
          Contents, Connected, Resolvers, MaxVersions, MaxResolveTurns,
          Prospects, Senders, MaxIncidents

VARIABLES part,
          evidence, revoked, anchored, alive, mergedInto, eventLeads, capturing, dropped, writers,
          captures, top, made, sequence, events, cursor, pages,
          mode, mapping, resolved, links, lead, due, scopes, open, workers, raced, turns,
          bonds, proofs, credits, convergeJobs, failedJobs, converters, changes,
          usable, needed, erasedClick, lookup, lookupJobs, lookers, enriched, lookupTurns,
          captured, leadsCaptured, order, tracked, saleSequence, saleEvents, synced, orderLeads, projected, hidden,
          linking,
          entry, admitJobs, views, enqueues, business, guarded, accepts, admissionTurns,
          models, effective, calculation,
          versions, rows, items, resolvers, crossed, resolveTurns,
          workflow, prospects, entryJobs, step, stepJobs, senders, hushed, incidents

\* Each touchpoint has a campaign of its own.
CampaignOf == [t \in Touchpoints |-> t]
\* Two demands of one phone, whose advertisements agree or do not, and the phone
\* of a third that differs from it by one digit.
Arrivals ==
  {[phone |-> "full", origin |-> "a"], [phone |-> "variant", origin |-> "b"],
   [phone |-> "full", origin |-> "none"]}

\* Four touchpoints, two of one instant and one after the subject, and what a
\* producer may name of them: one twice, one under two weights.
OccurredAt == [c \in Clicks |-> CASE c = 1 -> 3 [] c \in {2, 3} -> 1 [] OTHER -> 5]
SubjectAt == 4
Subjects == {-8, 2}
Windows == {[from |-> 0, to |-> 4], [from |-> 2, to |-> 4]}
Candidates ==
  LET named(c, b, r, w) == [click |-> c, basis |-> b, ref |-> r, weight |-> w]
  IN  {named(c, "deterministic_first_party", 1, 0) : c \in Clicks}
        \cup {named(1, "deterministic_first_party", 2, 0), named(1, "provider_reported", 1, 6),
              named(2, "provider_reported", 1, 4), named(1, "provider_reported", 1, 4)}

\* An occurrence told by one producer, enriched by another and contradicted by a
\* third; an advertisement and a campaign of two accounts share an identifier.
Ref(ns, is, account, type, object) ==
  [ns |-> ns, is |-> is, account |-> account, type |-> type, object |-> object]
KindOf ==
  [c \in Contents |->
    CASE c = "told" -> "observation" [] c = "enriched" -> "enrichment" [] OTHER -> "conflict"]
AssetsOf ==
  [c \in Contents |->
    CASE c = "told" -> {Ref("source_id", "any", 0, "none", 7), Ref("form_id", "typed", 0, "form", 7)}
      [] c = "enriched" -> {Ref("ad_id", "typed", 1, "ad", 7), Ref("account_id", "source", 1, "none", 0)}
      [] OTHER -> {Ref("ad_id", "typed", 2, "ad", 7)}]
Items == {[account |-> 1, type |-> "ad", object |-> 7], [account |-> 2, type |-> "campaign", object |-> 7]}

Credit == INSTANCE CrmEvidence WITH Touchpoints <- Credited
Events == INSTANCE LeadEvents
Utm == INSTANCE NativeUtm
Converge == INSTANCE ContactConvergence
Lookup == INSTANCE ClickLookup
Sale == INSTANCE SaleLedger
Admit == INSTANCE LeadAdmission
Calc == INSTANCE AttributionCalculation
Told == INSTANCE TouchpointLedger
Steps == INSTANCE AutomationSteps

ASSUME CreditBounds == Credit!EvidenceConstants
ASSUME EventBounds == Events!EventConstants
ASSUME UtmBounds == Utm!UtmConstants
ASSUME ConvergeBounds == Converge!ConvergenceConstants
ASSUME LookupBounds == Lookup!LookupConstants
ASSUME SaleBounds == Sale!SaleConstants
ASSUME AdmitBounds == Admit!AdmissionConstants
ASSUME CalcBounds == Calc!CalculationConstants
ASSUME ToldBounds == Told!LedgerConstants
ASSUME StepBounds == Steps!AutomationConstants

Parts == {"credit", "events", "utm", "converge", "lookup", "sale", "admit", "calc", "told", "steps"}

ofCredit == <<evidence, revoked, anchored, alive, mergedInto, eventLeads, capturing, dropped, writers>>
ofEvents == <<captures, top, made, sequence, events, cursor, pages>>
ofUtm == <<mode, mapping, resolved, links, lead, due, scopes, open, workers, raced, turns>>
ofConverge == <<bonds, proofs, credits, convergeJobs, failedJobs, converters, changes>>
ofLookup == <<usable, needed, erasedClick, lookup, lookupJobs, lookers, enriched, lookupTurns>>
ofSale ==
  <<captured, leadsCaptured, order, tracked, saleSequence, saleEvents, synced, orderLeads, projected, hidden, linking>>
ofAdmit == <<entry, admitJobs, views, enqueues, business, guarded, accepts, admissionTurns>>
ofCalc == <<models, effective, calculation>>
ofTold == <<versions, rows, items, resolvers, crossed, resolveTurns>>
ofSteps == <<workflow, prospects, entryJobs, step, stepJobs, senders, hushed, incidents>>
vars == <<part, ofCredit, ofEvents, ofUtm, ofConverge, ofLookup, ofSale, ofAdmit, ofCalc,
          ofTold, ofSteps>>

\* A part that is not chosen stays in one of its initial states.
MCInit ==
  /\ part \in Parts
  /\ Credit!Init /\ Events!Init /\ Utm!Init /\ Converge!Init
  /\ Lookup!Init /\ Sale!Init /\ Admit!Init /\ Calc!Init /\ Told!Init /\ Steps!Init
  /\ part /= "events" => captures = FALSE
  /\ part /= "lookup" => usable = {}
  /\ part /= "credit" => capturing = FALSE
  /\ part /= "sale" => captured = FALSE /\ leadsCaptured = FALSE
  /\ part /= "admit" => guarded = FALSE

MCNext ==
  /\ UNCHANGED part
  /\ \/ part = "credit" /\ Credit!Next
     \/ part /= "credit" /\ UNCHANGED ofCredit
  /\ \/ part = "events" /\ Events!Next
     \/ part /= "events" /\ UNCHANGED ofEvents
  /\ \/ part = "utm" /\ Utm!Next
     \/ part /= "utm" /\ UNCHANGED ofUtm
  /\ \/ part = "converge" /\ Converge!Next
     \/ part /= "converge" /\ UNCHANGED ofConverge
  /\ \/ part = "lookup" /\ Lookup!Next
     \/ part /= "lookup" /\ UNCHANGED ofLookup
  /\ \/ part = "sale" /\ Sale!Next
     \/ part /= "sale" /\ UNCHANGED ofSale
  /\ \/ part = "admit" /\ Admit!Next
     \/ part /= "admit" /\ UNCHANGED ofAdmit
  /\ \/ part = "calc" /\ Calc!Next
     \/ part /= "calc" /\ UNCHANGED ofCalc
  /\ \/ part = "told" /\ Told!Next
     \/ part /= "told" /\ UNCHANGED ofTold
  /\ \/ part = "steps" /\ Steps!Next
     \/ part /= "steps" /\ UNCHANGED ofSteps

MCSpec == MCInit /\ [][MCNext]_vars

Interchangeable == Permutations(Writers) \cup Permutations(Businesses)

\* The type invariant of the chosen part.
TypesOK ==
  CASE part = "credit" -> Credit!EvidenceTypeOK
    [] part = "events" -> Events!EventsTypeOK
    [] part = "utm" -> Utm!UtmTypeOK
    [] part = "converge" -> Converge!ConvergenceTypeOK
    [] part = "lookup" -> Lookup!LookupTypeOK
    [] part = "sale" -> Sale!SaleTypeOK
    [] part = "admit" -> Admit!AdmissionTypeOK
    [] part = "calc" -> Calc!CalculationTypeOK
    [] part = "told" -> Told!LedgerTypeOK
    [] part = "steps" -> Steps!AutomationTypeOK

\* CrmEvidence, ContactConvergence and AttributionCalculation: whatever jobs,
\* merges and revocations overlap, a lead has exactly the credit that its evidence
\* gives it, with the event links that no merge made without capture has dropped,
\* and an event's amount is split as its model says, to the last micro.
CreditIsKept ==
  /\ part = "credit" => Credit!CreditSurvivesMerges /\ Credit!CreditIsGrounded
  /\ part = "converge" => Converge!PairsMeet
  /\ part = "calc" => Calc!CreditIsExact /\ Calc!SplitFollowsModel /\ Calc!OrderIsNothing

\* LeadEvents, SaleLedger and TouchpointLedger: a transition is one event whether
\* it was seen live or imported, an order's revenue follows its confirmations, its
\* leads see its events but for what they missed while CRM events were not
\* captured, and what is told twice of a touchpoint is one revision.
EventsCountOnce ==
  /\ part = "events" => Events!ReportedOnce
  /\ part = "sale" => Sale!SaleCountedOnce /\ Sale!RevenueFollowsOrder /\ Sale!LeadsSeeTheOrder
  /\ part = "told" => Told!RevisionsAreTold

\* NativeUtm and TouchpointLedger: with no job and no scope left open, the lead's
\* native UTM is what its evidence says, and what a touchpoint names is resolved
\* as the catalog has it or will be looked at again.
ClassificationSettles ==
  /\ part = "utm" => Utm!ClassificationSettles
  /\ part = "told" => Told!ProjectionHeals

\* ClickLookup: a click is answered once, and a run that is active is carried by
\* the job that may end it.
LookupKeepsWord == part = "lookup" => Lookup!AnsweredOnce /\ Lookup!RunIsCarried

\* LeadAdmission and AutomationSteps: one demand is one business, one entry one
\* lead, what a failed protection holds back stays held, and no entry is left
\* without a job; a lead is enrolled once, gets one message of a step, and none
\* that a person or a deactivation came before.
AdmissionKeepsWord ==
  /\ part = "admit" =>
       /\ Admit!OneDemandOneLead /\ Admit!OneLeadPerEntry
       /\ Admit!HoldOutlastsGuard /\ Admit!Carried
  /\ part = "steps" => Steps!EnrolledOnce /\ Steps!OneMessagePerStep /\ Steps!SilenceIsKept
==============================================================================
