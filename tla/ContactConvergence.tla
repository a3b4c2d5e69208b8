-------------------------- MODULE ContactConvergence --------------------------
(* How a conversation's attribution reaches the CRM: each conversation link  *)
(* to a lead, and each projected evidence of the conversation, starts a chain *)
(* of jobs that pairs it with the other side, a page after a cursor at a      *)
(* time.  The jobs read snapshots, lock the conversation links they pair, and *)
(* overlap each other, native merges and unlinking.                           *)
EXTENDS Naturals, FiniteSets, FiniteSetsExt

CONSTANTS ConversationLinks, Evidence, Businesses, LinksPerJob, Converters, MaxChanges

VARIABLES bonds, proofs, credits, convergeJobs, failedJobs, converters, changes
vars == <<bonds, proofs, credits, convergeJobs, failedJobs, converters, changes>>

ConvergenceConstants ==
  /\ ConversationLinks \subseteq Nat \ {0} /\ Evidence \subseteq Nat \ {0}
  /\ IsFiniteSet(ConversationLinks) /\ IsFiniteSet(Evidence)
  /\ LinksPerJob \in Nat \ {0} /\ MaxChanges \in Nat

\* A conversation link has a lead while it is active, and its scope is pending
\* from its confirmation to the end of its chain.  Evidence counts once it is
\* bound to the conversation.
NoBond == [state |-> "none", lead |-> {}, pending |-> FALSE]
Tombstone == [NoBond EXCEPT !.state = "tombstone"]
Active(l) == bonds[l].state = "active"
Bound(e) == proofs[e] = "bound"
Linked(lead) == \E l \in ConversationLinks : bonds[l].lead = {lead}

\* An unrevoked assertion of this authority: the link that made it, or none for
\* one that a merge copied to another lead.
Copied == 0
Credit(l, e, lead) == [link |-> l, evidence |-> e, lead |-> lead]

\* A job is known by its side and its cursor: asked for again while it is
\* still to run, it is the same one.
Job(side, id, after) == [side |-> side, id |-> id, after |-> after]
LinkJobs(ls) == {Job("link", l, 0) : l \in ls}
EvidenceJobs(es) == {Job("evidence", e, 0) : e \in es}
Enqueue(new) == convergeJobs' = convergeJobs \cup new

Init ==
  /\ bonds = [l \in ConversationLinks |-> NoBond]
  /\ proofs = [e \in Evidence |-> "none"]
  /\ credits = {}
  /\ convergeJobs = {}
  /\ failedJobs = {}
  /\ converters = [c \in Converters |-> [does |-> "rest"]]
  /\ changes = 0
Change == changes < MaxChanges /\ changes' = changes + 1

\* --- Transactions that overlap.  Each holds the links it is about to lock and
\* the page it read; what commits meanwhile decides its fate.
Rest == [does |-> "rest"]
Stale(x) == [does |-> "stale", job |-> x.job]
Clashing(x) == [does |-> "clash", job |-> x.job]
Resting(c) == converters[c] = Rest
Working(c, does) == converters[c].does = does
Locks(x) == IF x.does = "evidence" THEN x.page ELSE {x.job.id}
Pairs(x) ==
  IF x.does = "link" THEN {x.job.id} \X x.page
  ELSE IF x.does = "evidence" THEN x.page \X {x.job.id} ELSE {}

\* Writing a link row makes those that lock it later run again; adding an
\* assertion that another job is about to add makes that one fail, and escapes
\* the snapshot of whoever is unlinking.
After(rows, added) ==
  [c \in Converters |->
    LET x == converters[c]
    IN  IF x.does \in {"rest", "stale", "clash"} THEN x
        ELSE IF Locks(x) \cap rows /= {} THEN Stale(x)
        ELSE IF \E k \in added : <<k.link, k.evidence>> \in Pairs(x) THEN Clashing(x)
        ELSE x]
Commit(rows, added) == converters' = After(rows, added)
Ends(c, rows, added) == converters' = [After(rows, added) EXCEPT ![c] = Rest]

\* --- The requests that start a chain.  A lead has one link per conversation.
CreateLink(l, lead, pending) ==
  /\ bonds[l] = NoBond /\ ~Linked(lead) /\ Change
  /\ bonds' = [bonds EXCEPT ![l] = [state |-> "active", lead |-> {lead}, pending |-> pending]]
  /\ Enqueue(LinkJobs({l}))
  /\ UNCHANGED <<proofs, credits, failedJobs, converters>>

CreateEvidence(e, bound) ==
  /\ proofs[e] = "none" /\ Change
  /\ proofs' = [proofs EXCEPT ![e] = IF bound THEN "bound" ELSE "unbound"]
  /\ Enqueue(IF bound THEN EvidenceJobs({e}) ELSE {})
  /\ UNCHANGED <<bonds, credits, failedJobs, converters>>

\* Contact Center finds the conversation of evidence it had received before.
Bind(e) ==
  /\ proofs[e] = "unbound"
  /\ proofs' = [proofs EXCEPT ![e] = "bound"]
  /\ Enqueue(EvidenceJobs({e}))
  /\ UNCHANGED <<bonds, credits, failedJobs, converters, changes>>

\* A native merge moves a link to the surviving lead, to which the merge ledger
\* copies the credits, and starts the chain again for the new lead.
Transfer(l, lead) ==
  /\ Active(l) /\ ~Linked(lead) /\ Change
  /\ LET moved == {k \in credits : {k.lead} = bonds[l].lead}
     IN  credits' = (credits \ moved) \cup {Credit(Copied, k.evidence, lead) : k \in moved}
  /\ bonds' = [bonds EXCEPT ![l].lead = {lead}]
  /\ Enqueue(LinkJobs({l}))
  /\ Commit({l}, {})
  /\ UNCHANGED <<proofs, failedJobs>>

\* Installation starts the chain of every link there is.
Backfill ==
  /\ Change
  /\ Enqueue(LinkJobs({l \in ConversationLinks : Active(l)}))
  /\ UNCHANGED <<bonds, proofs, credits, failedJobs, converters>>

\* Unlinking revokes what its snapshot shows the conversation to assert of the
\* lead, in the transaction that leaves the tombstone.
BeginUnlink(c, l) ==
  /\ Resting(c) /\ Active(l) /\ Change
  /\ converters' = [converters EXCEPT ![c] =
       [does |-> "unlink", job |-> Job("unlink", l, 0),
        page |-> {k \in credits : {k.lead} = bonds[l].lead}]]
  /\ UNCHANGED <<bonds, proofs, credits, convergeJobs, failedJobs>>
Unlink(c) ==
  /\ Working(c, "unlink")
  /\ LET l == converters[c].job.id
     IN  /\ bonds' = [bonds EXCEPT ![l] = Tombstone]
         /\ credits' = credits \ converters[c].page
         /\ Ends(c, {l}, {})
  /\ UNCHANGED <<proofs, convergeJobs, failedJobs, changes>>

\* --- The jobs.
FirstAfter(ids, after) ==
  {i \in ids : i > after /\ Cardinality({j \in ids : after < j /\ j <= i}) <= LinksPerJob}
PageOf(job) ==
  IF job.side = "link" THEN FirstAfter({e \in Evidence : Bound(e)}, job.after)
  ELSE FirstAfter({l \in ConversationLinks : Active(l)}, job.after)

Begin(c) ==
  /\ Resting(c)
  /\ \E job \in convergeJobs :
       /\ convergeJobs' = convergeJobs \ {job}
       /\ converters' =
            IF job.side = "link" /\ ~Active(job.id) THEN converters
            ELSE [converters EXCEPT ![c] =
                    [does |-> job.side, job |-> job, page |-> PageOf(job)]]
  /\ UNCHANGED <<bonds, proofs, credits, failedJobs, changes>>

\* The pairs of the page are credited to the lead the link has, then the chain
\* goes on after a full page; at its end the link is no longer pending.
New(x) == {Credit(p[1], p[2], CHOOSE lead \in bonds[p[1]].lead : TRUE) : p \in Pairs(x)}
NextJob(x) == {[x.job EXCEPT !.after = Max(x.page)] : full \in {LinksPerJob} \cap {Cardinality(x.page)}}
Finish(c) ==
  /\ converters[c].does \in {"link", "evidence"}
  /\ LET x == converters[c]
         settled == {l \in ConversationLinks :
                      x.does = "link" /\ x.job.id = l /\ NextJob(x) = {} /\ bonds[l].pending}
     IN  /\ credits' = credits \cup New(x)
         /\ Enqueue(NextJob(x))
         /\ bonds' = [l \in ConversationLinks |->
                       IF l \in settled THEN [bonds[l] EXCEPT !.pending = FALSE] ELSE bonds[l]]
         /\ Ends(c, settled, New(x) \ credits)
  /\ UNCHANGED <<proofs, failedJobs, changes>>

\* A serialization failure is retried, a unique violation fails the job; an
\* operator may requeue it.
Retry(c) ==
  /\ Working(c, "stale")
  /\ Enqueue({converters[c].job} \ {Job("unlink", l, 0) : l \in ConversationLinks})
  /\ converters' = [converters EXCEPT ![c] = Rest]
  /\ UNCHANGED <<bonds, proofs, credits, failedJobs, changes>>
Fail(c) ==
  /\ Working(c, "clash")
  /\ failedJobs' = failedJobs \cup {converters[c].job}
  /\ converters' = [converters EXCEPT ![c] = Rest]
  /\ UNCHANGED <<bonds, proofs, credits, convergeJobs, changes>>
Requeue ==
  /\ failedJobs /= {}
  /\ \E job \in failedJobs : Enqueue({job}) /\ failedJobs' = failedJobs \ {job}
  /\ UNCHANGED <<bonds, proofs, credits, converters, changes>>

Next ==
  \/ \E l \in ConversationLinks, lead \in Businesses :
       Transfer(l, lead) \/ \E pending \in BOOLEAN : CreateLink(l, lead, pending)
  \/ \E e \in Evidence : Bind(e) \/ \E bound \in BOOLEAN : CreateEvidence(e, bound)
  \/ \E c \in Converters :
       \/ Begin(c) \/ Finish(c) \/ Unlink(c) \/ Retry(c) \/ Fail(c)
       \/ \E l \in ConversationLinks : BeginUnlink(c, l)
  \/ Backfill \/ Requeue

Spec == Init /\ [][Next]_vars

ConvergenceTypeOK ==
  /\ \A l \in ConversationLinks :
       /\ bonds[l].state \in {"none", "active", "tombstone"}
       /\ bonds[l].lead \subseteq Businesses /\ Cardinality(bonds[l].lead) = IF Active(l) THEN 1 ELSE 0
       /\ bonds[l].pending => Active(l)
  /\ \A e \in Evidence : proofs[e] \in {"none", "unbound", "bound"}
  /\ \A k \in credits :
       k.link \in ConversationLinks \cup {Copied} /\ k.evidence \in Evidence /\ k.lead \in Businesses
  /\ \A job \in convergeJobs \cup failedJobs : job.side \in {"link", "evidence"}
  /\ changes \in 0..MaxChanges

\* Whichever side came first, however its chain was cut into pages and whatever
\* merged or unlinked meanwhile: once no job is left, queued, running or
\* failed, every active link of the conversation credits its lead with every
\* evidence bound to it, and none is still pending.
PairsMeet ==
  /\ convergeJobs = {} /\ failedJobs = {} /\ \A c \in Converters : Resting(c)
  => \A l \in ConversationLinks :
       Active(l) =>
         /\ ~bonds[l].pending
         /\ \A e \in Evidence :
              Bound(e) => \E k \in credits : k.evidence = e /\ {k.lead} = bonds[l].lead
==============================================================================
