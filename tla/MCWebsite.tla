------------------------------ MODULE MCWebsite ------------------------------
(* The Website addons: public ingress, form intents, native form leads, and *)
(* the WhatsApp clicks, their tokens, claims and journeys.  Their transactions *)
(* share no rows but the endpoint and the handoff, which each part models as *)
(* it reads it; one part is chosen at the start and the others rest.        *)
EXTENDS Naturals, TLC

CONSTANTS Handlers, Borrowers, EventKeys, Digests, Purposes, Days, RateLimit, Window, Keep,
          MaxClock, MaxRequests, MaxRevision,
          Hands, IntentJobs, Visits, MaxAttempts,
          Posts, FormData, MaxPosts,
          Clickers, ClickEvents, Handoffs, MaxAliases, MaxClicks,
          Writers, Clicks, Messages, CandidateLimit,
          ConversationLinks, Businesses, Batch, MaxTurns,
          Bearers, Presses, Lifetime, GrantRetention, MaxTokens, MaxTime, MaxSettings

VARIABLES part,
          ingress, clock, admissions, captured, hits, loans, answers, requests,
          intent, intentJobs, form, evidence, visits, linked, window, due, hands,
          lead, native, formEvent, inTime, posts, posted, replies,
          clicks, clickers, eventLock, sessionLock, requested, clickAnswers,
          matches, analyzed, writers,
          match, link, handoff, support, homed, journeyJobs, utmDue, shown, turns,
          site, pressed, grants, bearers, issued, redirects, astray, refused, time, settings

Ingress == INSTANCE WebIngress
Intents == INSTANCE WebIntent
Forms == INSTANCE NativeForms
Click == INSTANCE WhatsappClicks
Claims == INSTANCE WhatsappClaims
Journey == INSTANCE WhatsappJourney
Grant == INSTANCE RedirectGrants

ASSUME IngressBounds == Ingress!IngressConstants
ASSUME IntentBounds == Intents!IntentConstants
ASSUME JourneyBounds == Journey!JourneyConstants
ASSUME GrantBounds == Grant!GrantConstants

Parts == {"ingress", "intent", "forms", "clicks", "claims", "journey", "grants"}

ofIngress == <<ingress, clock, admissions, captured, hits, loans, answers, requests>>
ofIntent == <<intent, intentJobs, form, evidence, visits, linked, window, due, hands>>
ofForms == <<lead, native, formEvent, inTime, posts, posted, replies>>
ofClicks == <<clicks, clickers, eventLock, sessionLock, requested, clickAnswers>>
ofClaims == <<matches, analyzed, writers>>
ofJourney == <<match, link, handoff, support, homed, journeyJobs, utmDue, shown, turns>>
ofGrants ==
  <<site, pressed, grants, bearers, issued, redirects, astray, refused, time, settings>>
vars ==
  <<part, ofIngress, ofIntent, ofForms, ofClicks, ofClaims, ofJourney, ofGrants>>

\* A part that is not chosen stays in one of its initial states.
MCInit ==
  /\ part \in Parts
  /\ Ingress!Init /\ Intents!Init /\ Forms!Init
  /\ Click!Init /\ Claims!Init /\ Journey!Init /\ Grant!Init
  /\ part /= "ingress" =>
       /\ ingress = [ingress EXCEPT !.purpose = CHOOSE p \in Purposes : TRUE, !.days = CHOOSE d \in Days : TRUE]
       /\ \A k \in EventKeys : captured[k] = Ingress!NoEvent
  /\ part /= "intent" => intent = Intents!NoIntent
  /\ part /= "journey" => \A l \in ConversationLinks : link[l] = Journey!NoLink
  /\ part /= "grants" => Grant!Claimable(site)

MCNext ==
  /\ UNCHANGED part
  /\ \/ part = "ingress" /\ Ingress!Next
     \/ part /= "ingress" /\ UNCHANGED ofIngress
  /\ \/ part = "intent" /\ Intents!Next
     \/ part /= "intent" /\ UNCHANGED ofIntent
  /\ \/ part = "forms" /\ Forms!Next
     \/ part /= "forms" /\ UNCHANGED ofForms
  /\ \/ part = "clicks" /\ Click!Next
     \/ part /= "clicks" /\ UNCHANGED ofClicks
  /\ \/ part = "claims" /\ Claims!Next
     \/ part /= "claims" /\ UNCHANGED ofClaims
  /\ \/ part = "journey" /\ Journey!Next
     \/ part /= "journey" /\ UNCHANGED ofJourney
  /\ \/ part = "grants" /\ Grant!Next
     \/ part /= "grants" /\ UNCHANGED ofGrants

MCSpec == MCInit /\ [][MCNext]_vars

Interchangeable == Permutations(Handlers) \cup Permutations(Digests)

\* The type invariant of the chosen part.
TypesOK ==
  CASE part = "ingress" -> Ingress!IngressTypeOK
    [] part = "intent" -> Intents!IntentTypeOK
    [] part = "forms" -> Forms!NativeTypeOK
    [] part = "clicks" -> Click!ClicksTypeOK
    [] part = "claims" -> Claims!ClaimsTypeOK
    [] part = "journey" -> Journey!JourneyTypeOK
    [] part = "grants" -> Grant!GrantTypeOK

\* WebIngress: repeated and racing events agree on one body per key, a burst
\* is bounded, and a held click value is lawful.
IngressKeepsFaith ==
  part = "ingress" => Ingress!AnswersAgree /\ Ingress!BurstIsBounded /\ Ingress!HeldClickIsLawful

\* NativeForms and WebIntent: a submission posted again is one lead of its own
\* data, whose click values have one home; a finished intent owns exactly its
\* projection.
FormsKeepFaith ==
  /\ part = "forms" => Forms!OneLeadPerSubmission /\ Forms!ClicksHaveOneHome
  /\ part = "intent" => Intents!ProjectionIsExact

\* WhatsappClicks, WhatsappClaims and RedirectGrants: a reference once answered is
\* found again, a claim leaves nothing it competes with open, and a click has one
\* token, which redirects once and only while its action is on.
ClicksAndClaims ==
  /\ part = "clicks" => Click!AliasesAreKept
  /\ part = "claims" => Claims!NothingOpenBesideClaim
  /\ part = "grants" => Grant!OneTokenPerClick /\ Grant!RedirectsAreCurrent

\* WhatsappJourney: whatever the order of the workers, a click credits exactly
\* the businesses it may.
JourneyConverges == part = "journey" => Journey!JourneyConverges

\* WebIntent: erased values are never written back, and no later job or cron
\* changes what the intent has come to.
ErasedIsFinal == Intents!ErasedIsFinal
==============================================================================
