--------------------------- MODULE WhatsappJourney ---------------------------
(* A claimed Website click credits the businesses of its conversation.  Two *)
(* ordered authorities, the revision of the match and the revision of each  *)
(* conversation link, queue paged workers that converge the CRM assertions  *)
(* while claims are rejected, businesses transferred and evidence erased.   *)
(* A worker locks the leads, the channel, the handoff and the match, and    *)
(* every writer touches one of these rows: each page is one step.           *)
EXTENDS FiniteSets, Naturals

CONSTANTS ConversationLinks,   \* link generations 1..n of one channel, by id
          Businesses,          \* CRM leads
          Batch,               \* BATCH
          MaxTurns             \* bound on the writers' steps

VARIABLES match, link, handoff,
          support,             \* link x lead -> none, active, revoked
          homed,               \* leads whose company is the capture's
          journeyJobs,
          utmDue,              \* leads queued for the native UTM projection
          shown,               \* leads whose native UTM shows the click
          turns                \* steps of the writers so far

journeyVars == <<match, link, handoff, support, homed, journeyJobs, utmDue, shown, turns>>

\* Ids are positive: the first page is the one after 0.
JourneyConstants ==
  /\ ConversationLinks \subseteq Nat \ {0} /\ IsFiniteSet(ConversationLinks)
  /\ Batch \in Nat \ {0} /\ MaxTurns \in Nat

NoBusiness == "none"
NoMatch == [state |-> "none", revision |-> 0, pending |-> FALSE]
NoLink == [state |-> "none", lead |-> NoBusiness, revision |-> 0, pending |-> FALSE]

\* No conversation yet, or conversations from before the addon.
Init ==
  /\ match = NoMatch
  /\ \/ link = [l \in ConversationLinks |-> NoLink]
     \/ \E b \in Businesses :
          link = [l \in ConversationLinks |-> [NoLink EXCEPT !.state = "active", !.lead = b]]
  /\ handoff = [point |-> "none", erased |-> FALSE, due |-> FALSE, allowed |-> TRUE, withdrawn |-> FALSE]
  /\ support = [l \in ConversationLinks |-> [b \in Businesses |-> "none"]]
  /\ homed = Businesses /\ journeyJobs = {} /\ utmDue = {} /\ shown = {} /\ turns = 0

(****************************** predicates *********************************)

ClaimValid == match.state = "claimed"

\* _journey_privacy_status
PrivacyReady == ~handoff.erased /\ ~handoff.due /\ handoff.point /= "erased"

Grounded(l, b) == ClaimValid /\ link[l].state = "active" /\ link[l].lead = b /\ PrivacyReady

\* _assertion_scope: what a lead may show of this click at the moment.
Effective(b) ==
  /\ ~match.pending /\ b \in homed
  /\ \E l \in ConversationLinks :
       support[l][b] = "active" /\ Grounded(l, b) /\ handoff.point = "live" /\ ~link[l].pending

(******************************** writers **********************************)

Job(kind, l, revision, after) == [kind |-> kind, link |-> l, revision |-> revision, after |-> after]

\* _enqueue_journey of the match in state.
MatchTurned(state) ==
  [state |-> state, revision |-> match.revision + 1, pending |-> TRUE]
MatchJob(m) == Job("match", 0, m.revision, 0)
ToMatch(state) ==
  /\ match' = MatchTurned(state)
  /\ journeyJobs' = journeyJobs \cup {MatchJob(match')}

\* create, action_confirm: a claim; a suggestion queues nothing yet.
Suggest ==
  /\ match = NoMatch
  /\ match' = [match EXCEPT !.state = "suggested"]
  /\ UNCHANGED <<link, handoff, support, homed, journeyJobs, utmDue, shown>>
Claim ==
  /\ match.state \in {"none", "suggested"} /\ ~handoff.erased
  /\ ToMatch("claimed") /\ UNCHANGED <<link, handoff, support, homed, utmDue, shown>>
Reject ==
  /\ match.state \in {"suggested", "claimed"}
  /\ ToMatch("rejected") /\ UNCHANGED <<link, handoff, support, homed, utmDue, shown>>

\* _enqueue_website_journey of links changed as in next.
LinksTurned(turned, next) ==
  [l \in ConversationLinks |->
     IF l \in turned THEN [next[l] EXCEPT !.revision = @ + 1, !.pending = match.state /= "none"]
     ELSE next[l]]
ToLinks(turned, next) ==
  /\ link' = LinksTurned(turned, next)
  /\ journeyJobs' = journeyJobs \cup {Job("link", l, link'[l].revision, 0) : l \in turned}

\* A conversation gets a business; the business changes hands, with the old
\* one woken; the link goes.
Converse(l, b) ==
  /\ link[l] = NoLink
  /\ ToLinks({l}, [link EXCEPT ![l] = [@ EXCEPT !.state = "active", !.lead = b]])
  /\ UNCHANGED <<match, handoff, support, homed, utmDue, shown>>
Transfer(l, b) ==
  /\ link[l].state = "active" /\ link[l].lead /= b
  /\ ToLinks({l}, [link EXCEPT ![l].lead = b])
  /\ utmDue' = utmDue \cup {link[l].lead}
  /\ UNCHANGED <<match, handoff, support, homed, shown>>
Unlink(l) ==
  /\ link[l].state = "active"
  /\ ToLinks({l}, [link EXCEPT ![l].state = "dead"])
  /\ UNCHANGED <<match, handoff, support, homed, utmDue, shown>>

\* CrmLead.write: the company of a lead with conversations changes.
MoveCompany(b) ==
  /\ homed' = IF b \in homed THEN homed \ {b} ELSE homed \cup {b}
  /\ ToLinks({l \in ConversationLinks : link[l].state = "active" /\ link[l].lead = b}, link)
  /\ UNCHANGED <<match, handoff, support, utmDue, shown>>

\* _explicit_refusal; the retention deadline; the capture configuration moves on.
Withdraw ==
  /\ ~handoff.withdrawn
  /\ handoff' = [handoff EXCEPT !.withdrawn = TRUE]
  /\ journeyJobs' = journeyJobs \cup {Job("withdrawal", 0, 0, 0)}
  /\ UNCHANGED <<match, link, support, homed, utmDue, shown>>
Lapse ==
  /\ \/ ~handoff.due /\ handoff' = [handoff EXCEPT !.due = TRUE]
     \/ handoff.allowed /\ handoff' = [handoff EXCEPT !.allowed = FALSE]
  /\ UNCHANGED <<match, link, support, homed, journeyJobs, utmDue, shown>>

(******************************** workers **********************************)

\* _erase_journey_values, with the touchpoint and the follow-up job.
ErasedHandoff ==
  [handoff EXCEPT !.erased = TRUE, !.point = IF @ = "live" THEN "erased" ELSE @]
Erase(rest) ==
  /\ ~handoff.erased
  /\ handoff' = ErasedHandoff
  /\ journeyJobs' = rest \cup {Job("erasure", 0, 0, 0)}

Retention ==
  /\ handoff.due /\ Erase(journeyJobs)
  /\ UNCHANGED <<match, link, support, homed, utmDue, shown>>

\* A worker that commits may run once more before its job is marked done.
Rest(j) == {journeyJobs, journeyJobs \ {j}}

\* The erasure failed within its savepoint and a later attempt is queued, or
\* it succeeded.
Withdrawal(j) ==
  /\ j.kind = "withdrawal"
  /\ \/ handoff.erased /\ journeyJobs' = journeyJobs \ {j} /\ UNCHANGED handoff
     \/ \E rest \in Rest(j) : Erase(rest)
  /\ UNCHANGED <<match, link, support, homed, utmDue, shown>>

Erasure(j) ==
  /\ j.kind = "erasure"
  /\ \/ match.state = "none" /\ journeyJobs' = journeyJobs \ {j} /\ UNCHANGED match
     \/ /\ match.state /= "none"
        /\ match' = MatchTurned(match.state)
        /\ journeyJobs' = (journeyJobs \ {j}) \cup {MatchJob(match')}
  /\ UNCHANGED <<link, handoff, support, homed, utmDue, shown>>

\* _project_claim
Projected ==
  IF handoff.point = "none" /\ ClaimValid /\ PrivacyReady /\ handoff.allowed
     /\ ~handoff.withdrawn
  THEN [handoff EXCEPT !.point = "live"] ELSE handoff

\* _pair: generations of an earlier business are retired, then those whose
\* ground is gone; a new generation needs the company and the touchpoint.  A
\* revoked generation is an answer already given.
Stale(l, b) == link[l].state = "active" /\ link[l].lead /= b
Retired(l, b) == support[l][b] = "active" /\ (Stale(l, b) \/ ~Grounded(l, b))
Granted(l, b, point) ==
  support[l][b] = "none" /\ Grounded(l, b) /\ b \in homed /\ point = "live"
Paired(page, point) ==
  [l \in ConversationLinks |-> [b \in Businesses |->
     IF l \notin page THEN support[l][b]
     ELSE IF Retired(l, b) THEN "revoked"
     ELSE IF Granted(l, b, point) THEN "active" ELSE support[l][b]]]
Woken(page) ==
  {b \in Businesses : \E l \in page : support'[l][b] /= support[l][b] \/ Grounded(l, b)}

\* The next page of links after an id.
After(n) == {l \in ConversationLinks : l > n /\ link[l].state /= "none"}
Page(n) == {l \in After(n) : Cardinality({k \in After(n) : k < l}) < Batch}
Last(page) == CHOOSE l \in page : \A k \in page : k <= l

\* _job_whatsapp_match and the wake it queues: the businesses of earlier
\* pages were classified while the claim was pending.
WakeNobody == {}
WakeAll == {link[l].lead : l \in {k \in ConversationLinks : link[k].state = "active"}}
ConvergeMatch(j) ==
  /\ j.kind = "match"
  /\ \/ /\ match.revision /= j.revision
        /\ journeyJobs' = journeyJobs \ {j} /\ UNCHANGED <<match, handoff, support, utmDue>>
     \/ /\ match.revision = j.revision
        /\ handoff' = Projected
        /\ support' = Paired(Page(j.after), handoff'.point)
        /\ \E rest \in Rest(j) :
             \/ /\ After(j.after) /= Page(j.after)
                /\ journeyJobs' = rest \cup {Job("match", 0, j.revision, Last(Page(j.after)))}
                /\ utmDue' = utmDue \cup Woken(Page(j.after)) /\ UNCHANGED match
             \/ /\ After(j.after) = Page(j.after)
                /\ match' = [match EXCEPT !.pending = FALSE]
                /\ journeyJobs' = rest \cup {Job("wake", 0, j.revision, 0)}
                /\ utmDue' = utmDue \cup Woken(Page(j.after))
  /\ UNCHANGED <<link, homed, shown>>
Wake(j) ==
  /\ j.kind = "wake"
  /\ journeyJobs' = journeyJobs \ {j}
  /\ utmDue' = utmDue \cup (IF match.revision = j.revision THEN WakeAll ELSE {})
  /\ UNCHANGED <<match, link, handoff, support, homed, shown>>

\* _job_whatsapp_link
ConvergeLink(j) ==
  /\ j.kind = "link"
  /\ \/ /\ link[j.link].revision /= j.revision
        /\ journeyJobs' = journeyJobs \ {j} /\ UNCHANGED <<link, support, utmDue>>
     \/ /\ link[j.link].revision = j.revision
        /\ support' = IF match.state = "none" THEN support ELSE Paired({j.link}, handoff.point)
        /\ link' = [link EXCEPT ![j.link].pending = FALSE]
        /\ utmDue' = utmDue \cup Woken({j.link}) \cup {link[j.link].lead}
        /\ journeyJobs' \in Rest(j)
  /\ UNCHANGED <<match, handoff, homed, shown>>

\* The native UTM job of a lead.
ProjectUtm(b) ==
  /\ b \in utmDue
  /\ utmDue' = utmDue \ {b}
  /\ shown' = IF Effective(b) THEN shown \cup {b} ELSE shown \ {b}
  /\ UNCHANGED <<match, link, handoff, support, homed, journeyJobs>>

Next ==
  \/ /\ turns < MaxTurns /\ turns' = turns + 1
     /\ \/ Suggest \/ Claim \/ Reject \/ Withdraw \/ Lapse
        \/ \E l \in ConversationLinks :
             Unlink(l) \/ \E b \in Businesses : Converse(l, b) \/ Transfer(l, b)
        \/ \E b \in Businesses : MoveCompany(b)
  \/ /\ UNCHANGED turns
     /\ \/ Retention \/ \E b \in Businesses : ProjectUtm(b)
        \/ \E j \in journeyJobs :
             Withdrawal(j) \/ Erasure(j) \/ ConvergeMatch(j) \/ Wake(j) \/ ConvergeLink(j)

Spec == Init /\ [][Next]_journeyVars

\* The type invariant.
JourneyTypeOK ==
  /\ match.state \in {"none", "suggested", "claimed", "rejected"} /\ match.pending \in BOOLEAN
  /\ \A l \in ConversationLinks :
       /\ link[l].state \in {"none", "active", "dead"} /\ link[l].pending \in BOOLEAN
       /\ \A b \in Businesses : support[l][b] \in {"none", "active", "revoked"}
  /\ handoff.point \in {"none", "live", "erased"}
  /\ homed \subseteq Businesses /\ utmDue \subseteq Businesses /\ shown \subseteq Businesses

AtRest == journeyJobs = {} /\ utmDue = {} /\ (handoff.due => handoff.erased)

\* Whatever the order in which claims, reviews, transfers, company moves and
\* erasures arrive and their outdated, paged and repeated workers run: once
\* nothing is queued, an assertion is in force only on its ground, every
\* grounded one was made, and the native UTM shows exactly what the click
\* may be credited for (_job_whatsapp_match, _job_whatsapp_link, _pair).
JourneyConverges ==
  AtRest =>
    /\ ~match.pending /\ (\A l \in ConversationLinks : ~link[l].pending)
    /\ \A l \in ConversationLinks, b \in Businesses :
         /\ support[l][b] = "active" => Grounded(l, b)
         /\ Grounded(l, b) /\ b \in homed /\ handoff.point = "live" => support[l][b] /= "none"
    /\ shown = {b \in Businesses : Effective(b)}

==============================================================================
