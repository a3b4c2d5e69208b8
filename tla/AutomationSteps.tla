--------------------------- MODULE AutomationSteps ---------------------------
(* Automatic Contact Center messages to CRM leads: a lead is enrolled by the    *)
(* job its creation queues or by the periodic cron, its step is handed to a     *)
(* queue job, and the job admits one message unless the workflow, the lead or   *)
(* the conversation says otherwise.  Transactions are REPEATABLE READ: the      *)
(* configuration row fences enrollments, the step row fences its jobs, and all  *)
(* else is read as the snapshot has it.                                         *)
EXTENDS Naturals, FiniteSets

CONSTANTS Prospects,      \* crm.lead, numbered in the order of their creation
          Senders,        \* transactions that enroll or send
          MaxIncidents

VARIABLES workflow,       \* the configuration: enabled, cc_entry_lead_id
          prospects,      \* the leads
          entryJobs,      \* leads with an entry job
          step,           \* the step of each enrolled lead
          stepJobs,       \* steps with a job that waits (identity_key)
          senders,        \* the open transactions
          hushed,         \* leads silenced before a job that could still write to them
          incidents

vars == <<workflow, prospects, entryJobs, step, stepJobs, senders, hushed, incidents>>

AutomationConstants == Prospects \subseteq Nat \ {0} /\ MaxIncidents \in Nat

NoProspect == [there |-> FALSE, phone |-> "none", paused |-> FALSE, human |-> FALSE]
NoStep == [enrolled |-> 0, state |-> "none", status |-> "none", talks |-> {}, receipt |-> "none"]
Idle == [does |-> "rest"]

There == {l \in Prospects : prospects[l].there}
Newest(ls) == IF ls = {} THEN 0 ELSE CHOOSE l \in ls : \A k \in ls : k <= l

Init ==
  /\ workflow = [enabled |-> FALSE, after |-> 0]
  /\ prospects = [l \in Prospects |-> NoProspect]
  /\ entryJobs = {}
  /\ step = [l \in Prospects |-> NoStep]
  /\ stepJobs = {}
  /\ senders = [s \in Senders |-> Idle]
  /\ hushed = {}
  /\ incidents = 0
Incident == incidents < MaxIncidents /\ incidents' = incidents + 1

\* --- Leads and administration.

\* A lead is created; _cc_queue_automation_entry asks the workflow of now.
Entering(l) == workflow.enabled /\ workflow.after < l
Create(l) ==
  /\ ~prospects[l].there /\ \A k \in Prospects : k < l => prospects[k].there
  /\ prospects' = [prospects EXCEPT ![l] = [NoProspect EXCEPT !.there = TRUE, !.phone = "first"]]
  /\ entryJobs' = IF Entering(l) THEN entryJobs \cup {l} ELSE entryJobs
  /\ UNCHANGED <<workflow, step, stepJobs, senders, hushed, incidents>>

Enrolling(s) == senders[s].does = "enroll"
Sending(s, l) == senders[s].does = "send" /\ senders[s].lead = l
\* What writes the configuration ends the enrollments that overlap it, what
\* writes a step the jobs of that step.
EndEnrollments(s) == [r \in Senders |-> IF r = s \/ Enrolling(r) THEN Idle ELSE senders[r]]
EndJobs(s, l) == [r \in Senders |-> IF r = s \/ Sending(r, l) THEN Idle ELSE senders[r]]
\* A job that was ended so is run again.
JobsAgain(s, l) == {l : r \in {q \in Senders \ {s} : Sending(q, l)}}
EntriesAgain(s) == UNION {senders[r].only : r \in {q \in Senders \ {s} : Enrolling(q)}}

\* Leads nobody may write to any more: no message was admitted, no job is open.
Silenced(ls) ==
  hushed \cup {l \in ls : step[l].talks = {} /\ \A s \in Senders : ~Sending(s, l)}

\* Mutated form: the entry point of the first activation stays.
FirstEntry == IF workflow.after = 0 THEN Newest(There) ELSE workflow.after
\* write: an activation receives only leads that are created later.
NewEntry == Newest(There)
Enable ==
  /\ Incident /\ ~workflow.enabled
  /\ workflow' = [enabled |-> TRUE, after |-> NewEntry]
  /\ senders' = EndEnrollments("nobody") /\ entryJobs' = entryJobs \cup EntriesAgain("nobody")
  /\ UNCHANGED <<prospects, step, stepJobs, hushed>>
Disable ==
  /\ Incident /\ workflow.enabled
  /\ workflow' = [workflow EXCEPT !.enabled = FALSE]
  /\ hushed' = Silenced(There)
  /\ senders' = EndEnrollments("nobody") /\ entryJobs' = entryJobs \cup EntriesAgain("nobody")
  /\ UNCHANGED <<prospects, step, stepJobs>>

\* Somebody answers the lead, or the lead writes; a seller pauses the lead, or
\* corrects its phone.
Contact(l) ==
  /\ Incident /\ prospects[l].there /\ ~prospects[l].human
  /\ prospects' = [prospects EXCEPT ![l].human = TRUE]
  /\ hushed' = Silenced({l})
  /\ UNCHANGED <<workflow, entryJobs, step, stepJobs, senders>>
Pause(l) ==
  /\ Incident /\ prospects[l].there
  /\ prospects' = [prospects EXCEPT ![l].paused = ~@]
  /\ UNCHANGED <<workflow, entryJobs, step, stepJobs, senders, hushed>>
CorrectPhone(l) ==
  /\ Incident /\ prospects[l].phone = "first"
  /\ prospects' = [prospects EXCEPT ![l].phone = "second"]
  /\ UNCHANGED <<workflow, entryJobs, step, stepJobs, senders, hushed>>

\* --- Enrollment: one lead by its job, all of them by the cron.
Enrollable(l) == l \in There /\ l > workflow.after /\ step[l].enrolled = 0
StartEnrollment(s, only) ==
  /\ senders[s] = Idle
  /\ senders' = [senders EXCEPT ![s] =
       [does |-> "enroll", only |-> only,
        finds |-> IF workflow.enabled
                  THEN {l \in Prospects : Enrollable(l) /\ (only = {} \/ l \in only)} ELSE {}]]
  /\ UNCHANGED <<workflow, prospects, step, stepJobs, hushed, incidents>>
StartEntryJob(s, l) == l \in entryJobs /\ StartEnrollment(s, {l}) /\ entryJobs' = entryJobs \ {l}
StartCron(s) == workflow.enabled /\ StartEnrollment(s, {}) /\ UNCHANGED entryJobs

\* Mutated form: the configuration row is locked, not written.
EnrolledUnfenced(s) == [senders EXCEPT ![s] = Idle]
\* _get_automation_records_to_create writes a version of the configuration row.
EnrolledFenced(s) == EndEnrollments(s)
Enroll(s) ==
  /\ Enrolling(s)
  /\ step' = [l \in Prospects |->
       IF l \in senders[s].finds
       THEN [step[l] EXCEPT !.enrolled = @ + 1, !.state = IF @ = "none" THEN "scheduled" ELSE @]
       ELSE step[l]]
  /\ senders' = EnrolledFenced(s)
  /\ entryJobs' = entryJobs \cup EntriesAgain(s)
  /\ UNCHANGED <<workflow, prospects, stepJobs, hushed, incidents>>

\* --- run: the due step is queued, once as long as its job waits.
Due(l) == step[l].state = "scheduled"
Queue(l) ==
  /\ Due(l) /\ workflow.enabled
  /\ step' = [step EXCEPT ![l].status = "queued"]
  /\ stepJobs' = stepJobs \cup {l} \cup JobsAgain("nobody", l)
  /\ senders' = EndJobs("nobody", l)
  /\ UNCHANGED <<workflow, prospects, entryJobs, hushed, incidents>>
RunDisabled(l) ==
  /\ Due(l) /\ ~workflow.enabled
  /\ step' = [step EXCEPT ![l].status = "disabled", ![l].state = "rejected"]
  /\ stepJobs' = stepJobs \cup JobsAgain("nobody", l)
  /\ senders' = EndJobs("nobody", l)
  /\ UNCHANGED <<workflow, prospects, entryJobs, hushed, incidents>>
\* A failed step is scheduled again by hand.
RetryStep(l) ==
  /\ Incident /\ step[l].state = "error"
  /\ step' = [step EXCEPT ![l].state = "scheduled"]
  /\ UNCHANGED <<workflow, prospects, entryJobs, stepJobs, senders, hushed>>

\* --- _job_cc_execute.
StartJob(s, l) ==
  /\ senders[s] = Idle /\ l \in stepJobs
  /\ stepJobs' = stepJobs \ {l}
  /\ senders' = [senders EXCEPT ![s] =
       [does |-> "send", lead |-> l, workflow |-> workflow, prospect |-> prospects[l]]]
  /\ UNCHANGED <<workflow, prospects, entryJobs, step, hushed, incidents>>

Finish(s, l, new) ==
  /\ step' = [step EXCEPT ![l] = new]
  /\ senders' = EndJobs(s, l)
  /\ stepJobs' = stepJobs \cup JobsAgain(s, l)
  /\ UNCHANGED <<workflow, prospects, entryJobs, hushed, incidents>>

\* The step is settled already, or the job dies before it commits.
JobIdle(s, l) ==
  /\ Sending(s, l) /\ ~Due(l)
  /\ senders' = [senders EXCEPT ![s] = Idle]
  /\ UNCHANGED <<workflow, prospects, entryJobs, step, stepJobs, hushed, incidents>>
JobDies(s, l) ==
  /\ Incident /\ Sending(s, l)
  /\ senders' = [senders EXCEPT ![s] = Idle] /\ stepJobs' = stepJobs \cup {l}
  /\ UNCHANGED <<workflow, prospects, entryJobs, step, hushed>>

JobDisabled(s, l) ==
  /\ Sending(s, l) /\ Due(l) /\ ~senders[s].workflow.enabled
  /\ Finish(s, l, [step[l] EXCEPT !.status = "disabled", !.state = "rejected"])

\* _run_contact_center stops for a pause, an entry point that has moved past the
\* lead, or a person in the conversation.
Stopped(s) ==
  \/ senders[s].prospect.paused \/ senders[s].prospect.human
  \/ senders[s].lead <= senders[s].workflow.after
JobStopped(s, l) ==
  /\ Sending(s, l) /\ Due(l) /\ senders[s].workflow.enabled /\ Stopped(s)
  /\ Finish(s, l, [step[l] EXCEPT !.status = "stopped", !.state = "done"])

\* Mutated form: the receipt of an admitted message is not asked for.
AdmittedAlways(s, l) == TRUE
\* A message that was admitted before stays the only one.
Admits(s, l) == step[l].receipt = "none"
\* The message of this step's request in the conversation of a phone; the same
\* request in the same conversation is the same message.
Admitted(s, l) ==
  IF Admits(s, l)
  THEN [step[l] EXCEPT !.talks = @ \cup {senders[s].prospect.phone}, !.status = "submitted",
                       !.receipt = senders[s].prospect.phone]
  ELSE step[l]
Willing(s, l) == Sending(s, l) /\ Due(l) /\ senders[s].workflow.enabled /\ ~Stopped(s)
JobSends(s, l) ==
  /\ Willing(s, l) /\ Finish(s, l, [Admitted(s, l) EXCEPT !.state = "done"])
\* The children of the step fail after the admission, which stays.
ChildrenFail(s, l) ==
  /\ Incident /\ Willing(s, l)
  /\ step' = [step EXCEPT ![l] = [Admitted(s, l) EXCEPT !.state = "error"]]
  /\ senders' = EndJobs(s, l) /\ stepJobs' = stepJobs \cup JobsAgain(s, l)
  /\ UNCHANGED <<workflow, prospects, entryJobs, hushed>>
\* The admission fails in its savepoint.
AdmissionFails(s, l) ==
  /\ Incident /\ Willing(s, l) /\ Admits(s, l)
  /\ step' = [step EXCEPT ![l].state = "error"]
  /\ senders' = EndJobs(s, l) /\ stepJobs' = stepJobs \cup JobsAgain(s, l)
  /\ UNCHANGED <<workflow, prospects, entryJobs, hushed>>

Next ==
  \/ Enable \/ Disable
  \/ \E l \in Prospects :
       Create(l) \/ Contact(l) \/ Pause(l) \/ CorrectPhone(l) \/ Queue(l) \/ RunDisabled(l) \/ RetryStep(l)
  \/ \E s \in Senders :
       \/ StartCron(s) \/ Enroll(s)
       \/ \E l \in Prospects :
            \/ StartEntryJob(s, l) \/ StartJob(s, l)
            \/ JobIdle(s, l) \/ JobDies(s, l) \/ JobDisabled(s, l) \/ JobStopped(s, l)
            \/ JobSends(s, l) \/ ChildrenFail(s, l) \/ AdmissionFails(s, l)

Spec == Init /\ [][Next]_vars

\* --- Properties.
\* The type invariant.
AutomationTypeOK ==
  /\ workflow.enabled \in BOOLEAN /\ workflow.after \in Prospects \cup {0}
  /\ entryJobs \subseteq There /\ stepJobs \subseteq There /\ incidents \in 0..MaxIncidents
  /\ \A l \in Prospects :
       /\ step[l].enrolled > 0 <=> step[l].state /= "none"
       /\ step[l].receipt /= "none" => step[l].talks /= {}

\* Whatever cron and jobs overlap, a lead is enrolled once
\* (_get_automation_records_to_create).
EnrolledOnce == \A l \in Prospects : step[l].enrolled <= 1

\* However often a step fails and is retried, and whatever phone the lead has by
\* then, one message is admitted for it (_run_contact_center).
OneMessagePerStep == \A l \in Prospects : Cardinality(step[l].talks) <= 1

\* A lead that a person has answered, or that was there when the workflow was
\* switched off, hears nothing from a job that starts later, and activating the
\* workflow again does not release its step
\* (test_reactivation_does_not_release_old_pending_steps).
SilenceIsKept == \A l \in hushed : step[l].talks = {}
=============================================================================
