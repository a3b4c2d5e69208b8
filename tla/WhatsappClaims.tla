---------------------------- MODULE WhatsappClaims ----------------------------
(* Which WhatsApp message came from which Website click: exact references,  *)
(* proximity suggestions and their review.  The advisory lock of the        *)
(* account orders the writers but keeps an older snapshot; the write to the *)
(* clicks a writer relies on (_fence_handoffs) makes an outdated one fail.  *)
EXTENDS FiniteSets, Naturals

CONSTANTS Writers,       \* transactions
          Clicks,        \* handoffs of one account
          Messages,      \* inbound messages of that account
          CandidateLimit

VARIABLES matches,         \* Clicks \X Messages -> state
          analyzed,      \* messages whose creation committed
          writers

claimVars == <<matches, analyzed, writers>>

Claimed == {"reference", "confirmed"}
MatchStates == {"none", "suggested", "rejected", "superseded"} \cup Claimed
Pairs == Clicks \X Messages
Away == [kind |-> "away"]

Init ==
  /\ matches = [p \in Pairs |-> "none"] /\ analyzed = {}
  /\ writers = [w \in Writers |-> Away]

\* fenced: clicks, rows: matches that others wrote since the snapshot.
Open(w, kind, pair) ==
  /\ writers[w] = Away
  /\ writers' = [writers EXCEPT ![w] =
       [kind |-> kind, pair |-> pair, seen |-> matches, fenced |-> {}, rows |-> {}]]
  /\ UNCHANGED <<matches, analyzed>>

\* A message is created; an operator confirms or rejects a suggestion.
BeingAnalyzed == {writers[v].pair[2] : v \in {u \in Writers : writers[u].kind = "analyze"}}
Receive(w, p) == p[2] \notin analyzed \cup BeingAnalyzed /\ Open(w, "analyze", p)
Review(w, p) == matches[p] \in {"suggested"} \cup Claimed /\ \E k \in {"confirm", "reject"} : Open(w, k, p)

\* _fence_handoffs
NoFence(w, clicks) == clicks \subseteq Clicks
Fence(w, clicks) == clicks \cap writers[w].fenced = {}

\* The transaction commits: clicks is what it fenced, new the matches.
Commit(w, clicks, new) ==
  /\ matches' = new
  /\ writers' = [v \in Writers |->
       IF v = w \/ writers[v] = Away THEN Away
       ELSE [writers[v] EXCEPT !.fenced = @ \cup clicks,
                               !.rows = @ \cup {p \in Pairs : new[p] /= matches[p]}]]
Ends(w) == writers' = [writers EXCEPT ![w] = Away] /\ UNCHANGED matches

\* _supersede_competitors of claim p, as the snapshot shows them.
Competitors(w, p) ==
  {q \in Pairs : q /= p /\ writers[w].seen[q] = "suggested" /\ (q[1] = p[1] \/ q[2] = p[2])}
Superseded(w, p, state) ==
  [q \in Pairs |-> IF q = p THEN state ELSE IF q \in Competitors(w, p) THEN "superseded" ELSE matches[q]]

\* The two partial unique indexes, which look beyond the snapshot.
Unclaimed(p) == \A q \in Pairs \ {p} : matches[q] \in Claimed => q[1] /= p[1] /\ q[2] /= p[2]
\* No row this transaction writes changed since its snapshot.
Current(w, rows) == rows \cap writers[w].rows = {}

ClaimOf(w, clicks, msgs) == {q \in Pairs : writers[w].seen[q] \in Claimed /\ (q[1] \in clicks \/ q[2] \in msgs)}

\* _analyze_inbound with an exact reference to click p[1].
AnalyzeReference(w) ==
  /\ writers[w].kind = "analyze"
  /\ LET p == writers[w].pair IN
     /\ Fence(w, {p[1]})
     /\ \/ ClaimOf(w, {p[1]}, {}) /= {} /\ Commit(w, {p[1]}, matches)
        \/ /\ ClaimOf(w, {p[1]}, {}) = {} /\ Unclaimed(p) /\ Current(w, Competitors(w, p))
           /\ Commit(w, {p[1]}, Superseded(w, p, "reference"))
     /\ analyzed' = analyzed \cup {p[2]}

\* Without one: the clicks of the window the snapshot shows unclaimed.
AnalyzeProximity(w) ==
  /\ writers[w].kind = "analyze"
  /\ \E near \in SUBSET {c \in Clicks : ClaimOf(w, {c}, {}) = {}} :
       /\ Cardinality(near) <= CandidateLimit /\ Fence(w, near)
       /\ Commit(w, near, [q \in Pairs |->
            IF q[1] \in near /\ q[2] = writers[w].pair[2] THEN "suggested" ELSE matches[q]])
  /\ analyzed' = analyzed \cup {writers[w].pair[2]}

\* action_confirm
Confirm(w) ==
  /\ writers[w].kind = "confirm"
  /\ LET p == writers[w].pair
         now == writers[w].seen[p] IN
     \/ now \in Claimed /\ Ends(w)
     \/ now \notin Claimed /\ now /= "suggested" /\ Ends(w)
     \/ /\ now = "suggested" /\ Fence(w, {p[1]})
        /\ \/ ClaimOf(w, {p[1]}, {p[2]}) /= {} /\ Ends(w)
           \/ /\ ClaimOf(w, {p[1]}, {p[2]}) = {} /\ Unclaimed(p)
              /\ Current(w, Competitors(w, p) \cup {p})
              /\ Commit(w, {p[1]}, Superseded(w, p, "confirmed"))
  /\ UNCHANGED analyzed

\* action_reject
Reject(w) ==
  /\ writers[w].kind = "reject"
  /\ LET p == writers[w].pair IN
     \/ writers[w].seen[p] = "rejected" /\ Ends(w)
     \/ /\ writers[w].seen[p] /= "rejected" /\ Fence(w, {p[1]}) /\ Current(w, {p})
        /\ Commit(w, {p[1]}, [matches EXCEPT ![p] = "rejected"])
  /\ UNCHANGED analyzed

\* A serialization failure, or any other: run again, or give up.
Retry(w) ==
  /\ writers[w] /= Away
  /\ writers' = [writers EXCEPT ![w] = Away]
  /\ UNCHANGED <<matches, analyzed>>

Next ==
  \E w \in Writers :
    \/ (\E p \in Pairs : Receive(w, p) \/ Review(w, p))
    \/ AnalyzeReference(w) \/ AnalyzeProximity(w) \/ Confirm(w) \/ Reject(w) \/ Retry(w)

Spec == Init /\ [][Next]_claimVars

\* The type invariant.
ClaimsTypeOK == matches \in [Pairs -> MatchStates] /\ analyzed \subseteq Messages

\* A claim closes what it competes with: beside a reference or a confirmed
\* match, no other match of the same click or message is open for review,
\* although a claim and a suggestion may be made by transactions that do not
\* see each other (_fence_handoffs, _supersede_competitors).
NothingOpenBesideClaim ==
  \A p, q \in Pairs :
    p /= q /\ matches[p] \in Claimed /\ (p[1] = q[1] \/ p[2] = q[2]) =>
      matches[q] \notin {"suggested"} \cup Claimed
==============================================================================
