----------------------------- MODULE NativeForms -----------------------------
(* A Website form in native mode: one submission, posted once or several    *)
(* times, becomes one CRM lead with a frozen acquisition snapshot, which is *)
(* captured as an ingress event at once or by the recovery cron, and goes   *)
(* when the event expires.                                                  *)
EXTENDS Naturals

CONSTANTS Posts,        \* transactions: HTTP requests and crons
          FormData,     \* request_hash
          MaxPosts

VARIABLES lead,         \* the lead row of the submission, if any
          native,       \* the binding is native, active and may capture
          formEvent,    \* the ingress event of the submission
          inTime,       \* the replay window of the endpoint is open
          posts, posted,
          replies       \* what was replied to which form data

nativeVars == <<lead, native, formEvent, inTime, posts, posted, replies>>

NoLead == [data |-> "none", capture |-> "none", snapshot |-> "none", linked |-> FALSE]
Waiting == [at |-> "waiting"]

Leads ==
  {NoLead} \cup
  [data : FormData, capture : {"pending", "done", "skipped", "error"},
   snapshot : {"none", "raw", "reference"}, linked : BOOLEAN]

Init ==
  /\ lead = NoLead /\ native = TRUE /\ formEvent = "none" /\ inTime = TRUE
  /\ posts = [h \in Posts |-> Waiting] /\ posted = 0 /\ replies = {}

\* A post, or a run of the cron, takes its snapshot.
Arrive(h, d) ==
  /\ posts[h] = Waiting /\ posted < MaxPosts
  /\ posts' = [posts EXCEPT ![h] = [at |-> "post", data |-> d, seen |-> lead, native |-> native]]
  /\ posted' = posted + 1
  /\ UNCHANGED <<lead, native, formEvent, inTime, replies>>

StartRecovery(h) ==
  /\ posts[h] = Waiting
  /\ lead.capture \in {"pending", "error"} /\ lead.snapshot /= "none"
  /\ posts' = [posts EXCEPT ![h] = [at |-> "recovery", seen |-> lead, native |-> native]]
  /\ UNCHANGED <<lead, native, formEvent, inTime, posted, replies>>

StartErasure(h) ==
  /\ posts[h] = Waiting /\ formEvent = "done"
  /\ posts' = [posts EXCEPT ![h] = [at |-> "erasure", seen |-> lead, native |-> native]]
  /\ UNCHANGED <<lead, native, formEvent, inTime, posted, replies>>

Leave(h) == posts' = [posts EXCEPT ![h] = Waiting]
Goes(h, p) == posts' = [posts EXCEPT ![h] = p]

\* A changed lead row or a busy submission lock: run again from the start.
Restart(h) ==
  /\ \/ posts[h].at = "post" /\ Goes(h, [posts[h] EXCEPT !.seen = lead, !.native = native])
     \/ posts[h].at /= "post" /\ Leave(h)
  /\ UNCHANGED <<lead, native, formEvent, inTime, posted, replies>>

Replied(h, what) == replies' = replies \cup {<<posts[h].data, what>>}

CapturedWithClicks(row) == [row EXCEPT !.capture = "done", !.linked = TRUE]
\* _capture_native_submission for a row: the event is ingested and linked,
\* the vault now owns the click values.  Its savepoint may fail instead.
Captured(row) == [row EXCEPT !.capture = "done", !.snapshot = "reference", !.linked = TRUE]

CaptureNow(row, failures) ==
  \/ /\ row.capture = "done" \/ row.snapshot = "none"
     /\ lead' = row /\ UNCHANGED formEvent
  \/ /\ row.capture /= "done" /\ row.snapshot /= "none"
     /\ \/ native /\ inTime /\ formEvent' = "done" /\ lead' = Captured(row)
        \/ UNCHANGED formEvent /\ \E f \in failures : lead' = [row EXCEPT !.capture = f]

PostByReference(h) ==
  /\ posts[h].at = "post"
  /\ Replied(h, "lead") /\ CaptureNow(IF lead = NoLead THEN
       [data |-> posts[h].data, snapshot |-> "raw", linked |-> FALSE, capture |-> "pending"]
     ELSE lead, {"error"})
  /\ Leave(h) /\ UNCHANGED <<native, inTime, posted>>
\* website_form: the submission lock, then the existing lead for the same
\* data, a refusal for other data, or a new lead, captured at once.  A lead
\* committed since the snapshot is met by the unique index only.
Post(h) ==
  /\ posts[h].at = "post"
  /\ LET p == posts[h]
         fresh(snapshot) == [data |-> p.data, snapshot |-> snapshot, linked |-> FALSE,
                             capture |-> IF snapshot = "raw" THEN "pending" ELSE "skipped"] IN
     \/ /\ p.seen /= NoLead /\ p.seen.data /= p.data
        /\ Replied(h, "conflict") /\ UNCHANGED <<lead, formEvent>>
     \/ /\ p.seen /= NoLead /\ p.seen.data = p.data /\ p.seen = lead
        /\ CaptureNow(lead, {"error"}) /\ Replied(h, "lead")
     \/ /\ p.seen = NoLead /\ lead = NoLead /\ p.native
        /\ \E snapshot \in {"raw", "none"} : CaptureNow(fresh(snapshot), {"error"})
        /\ Replied(h, "lead")
     \/ /\ p.seen = NoLead /\ (lead /= NoLead \/ ~p.native)
        /\ UNCHANGED <<lead, formEvent, replies>>
  /\ Leave(h) /\ UNCHANGED <<native, inTime, posted>>

\* _cron_recover_native_submissions.
Recover(h) ==
  /\ posts[h].at = "recovery" /\ posts[h].seen = lead
  /\ \/ ~inTime /\ lead' = [lead EXCEPT !.capture = "skipped"] /\ UNCHANGED formEvent
     \/ inTime /\ CaptureNow(lead, {"skipped", "error"})
  /\ Leave(h) /\ UNCHANGED <<native, inTime, posted, replies>>

\* The event expires: the snapshot of every lead it is correlated with, as
\* the cron sees them, goes in the same transaction.
Erase(h) ==
  /\ posts[h].at = "erasure" /\ formEvent = "done"
  /\ posts[h].seen.linked => posts[h].seen = lead
  /\ formEvent' = "erased"
  /\ lead' = IF posts[h].seen.linked THEN [lead EXCEPT !.snapshot = "none"] ELSE lead
  /\ Leave(h) /\ UNCHANGED <<native, inTime, posted, replies>>

\* action_retry_native_acquisition.
RetryCapture ==
  /\ lead.snapshot /= "none" /\ lead.capture \in {"skipped", "error"}
  /\ lead' = [lead EXCEPT !.capture = "pending"]
  /\ UNCHANGED <<native, formEvent, inTime, posts, posted, replies>>

\* The binding is paused or changes its mode; the replay window ends.
Around ==
  /\ \/ native /\ native' = FALSE /\ UNCHANGED inTime
     \/ inTime /\ inTime' = FALSE /\ UNCHANGED native
  /\ UNCHANGED <<lead, formEvent, posts, posted, replies>>

Next ==
  \/ \E h \in Posts :
       \/ (\E d \in FormData : Arrive(h, d)) \/ StartRecovery(h) \/ StartErasure(h)
       \/ Restart(h) \/ Post(h) \/ Recover(h) \/ Erase(h)
  \/ RetryCapture \/ Around

Spec == Init /\ [][Next]_nativeVars

\* The type invariant.
NativeTypeOK ==
  /\ lead \in Leads /\ native \in BOOLEAN /\ formEvent \in {"none", "done", "erased"}
  /\ replies \subseteq FormData \X {"lead", "conflict"}

\* A submission that is posted again, concurrently or after a failure, is
\* always the lead of its own form data, never of other data
\* (_native_existing_submission and the unique index).
OneLeadPerSubmission ==
  \A r \in replies : lead /= NoLead /\ (r[2] = "lead" <=> lead.data = r[1])

\* Raw click values have one home: the lead keeps them only until the event
\* exists, and nothing of the snapshot survives the event, whichever of a
\* replay, the recovery and the erasure commits last.
ClicksHaveOneHome ==
  /\ formEvent = "none" <=> ~lead.linked
  /\ formEvent = "done" => lead.snapshot = "reference"
  /\ formEvent = "erased" => lead.snapshot = "none"
==============================================================================
