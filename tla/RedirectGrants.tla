--------------------------- MODULE RedirectGrants ---------------------------
(* The legacy WhatsApp handoff of a Website action: a claim records the click  *)
(* and is answered with a token, the token redirects its bearer once.  Claims, *)
(* redirects and administration are REPEATABLE READ transactions; all of them  *)
(* lock the endpoint first, the configuration by writing a version of it.      *)
EXTENDS Naturals, FiniteSets

CONSTANTS Bearers,        \* HTTP workers and administrators
          Presses,        \* event_id of a claim
          Lifetime,       \* token_ttl_seconds
          GrantRetention, \* _GRANT_RETENTION
          MaxTokens, MaxTime, MaxSettings

VARIABLES site,           \* endpoint, binding and action: what is switched on
          pressed,        \* the events recorded
          grants,         \* the grants by their token
          bearers,        \* the open transactions
          issued,         \* tokens answered to a claim
          redirects,      \* how often each token redirected
          astray,         \* a redirect left an action that was off
          refused,        \* a claim broke the index of issued grants
          time, settings

vars == <<site, pressed, grants, bearers, issued, redirects, astray, refused, time, settings>>

GrantConstants ==
  /\ Lifetime \in Nat /\ GrantRetention \in Nat
  /\ MaxTokens \in Nat /\ MaxTime \in Nat /\ MaxSettings \in Nat
  /\ "none" \notin Presses

Tokens == 1..MaxTokens
NoGrant == [state |-> "none", press |-> "none", until |-> 0, used |-> 0]
Idle == [does |-> "rest"]

\* A website is bound to the endpoint in legacy or in native mode, or not at all.
Switches == [endpoint |-> {"on", "off"}, binding |-> {"legacy", "native", "off"}, action |-> {"on", "off"}]
Usable(s) == \A switch \in DOMAIN s : s[switch] /= "off"
Claimable(s) == Usable(s) /\ s.binding = "legacy"
\* _check_active_endpoint: an active binding needs an active endpoint.
Coherent(s) == s.binding /= "off" => s.endpoint = "on"

Init ==
  /\ \E bound \in {"legacy", "off"} :
       site = [endpoint |-> "on", binding |-> bound, action |-> "on"]
  /\ pressed = {}
  /\ grants = [k \in Tokens |-> NoGrant]
  /\ bearers = [b \in Bearers |-> Idle]
  /\ issued = {} /\ redirects = [k \in Tokens |-> 0] /\ astray = FALSE /\ refused = FALSE
  /\ time = 0 /\ settings = 0

\* --- Transactions: a snapshot, then the locks, the writes and the commit.
Live(p) == {k \in Tokens : grants[k].state = "issued" /\ grants[k].press = p}
OfClaim(p, at) ==
  [does |-> "claim", press |-> p, at |-> at, known |-> p \in pressed, live |-> Live(p),
   site |-> site]
OfFollow(k) == [does |-> "follow", token |-> k, grant |-> grants[k], site |-> site]
OfSetting(switch, value) == [does |-> "set", switch |-> switch, value |-> value, site |-> site]

Kept == UNCHANGED <<site, pressed, grants, issued, redirects, astray, refused, time>>
Begin(b, transaction) ==
  /\ bearers[b] = Idle
  /\ bearers' = [bearers EXCEPT ![b] = transaction]
  /\ Kept

\* A click is claimed, also again; a redirect is followed, also again; an
\* administrator saves a form.
Claim(b, p) == Begin(b, OfClaim(p, time)) /\ UNCHANGED settings
Follow(b, k) == k \in issued /\ Begin(b, OfFollow(k)) /\ UNCHANGED settings
Administer(b, switch) ==
  /\ settings < MaxSettings /\ settings' = settings + 1
  /\ \E value \in Switches[switch] \ {site[switch]} : Begin(b, OfSetting(switch, value))

\* A row locked after somebody wrote it ends the transaction; it is run again,
\* with a new snapshot and the first time of its request.
Stale(x) ==
  CASE x.does = "claim" -> [does |-> "claim again", press |-> x.press, at |-> x.at]
    [] x.does = "follow" -> [does |-> "follow again", token |-> x.token]
    [] x.does = "set" -> [does |-> "set again", switch |-> x.switch, value |-> x.value]
    [] OTHER -> x
Fresh(x) ==
  CASE x.does = "claim again" -> OfClaim(x.press, x.at)
    [] x.does = "follow again" -> OfFollow(x.token)
    [] x.does = "set again" -> OfSetting(x.switch, x.value)
Retry(b) ==
  /\ bearers[b].does \in {"claim again", "follow again", "set again"}
  /\ bearers' = [bearers EXCEPT ![b] = Fresh(bearers[b])]
  /\ Kept /\ UNCHANGED settings

\* Who is going to lock what a transaction writes: the endpoint everybody, the
\* action every claim and redirect, a grant its bearer and who saw it issued.
ByEndpoint == Bearers
ByAction == {c \in Bearers : bearers[c].does \in {"claim", "follow"}}
ByGrants(ks) ==
  {c \in Bearers :
    \/ bearers[c].does = "follow" /\ bearers[c].token \in ks
    \/ bearers[c].does = "claim" /\ bearers[c].live \cap ks /= {}}
Spoiled(cs) == [c \in Bearers |-> IF c \in cs THEN Stale(bearers[c]) ELSE bearers[c]]
Ends(b, cs) == bearers' = [Spoiled(cs) EXCEPT ![b] = Idle]

\* --- A claim: the event and its grant in one savepoint.
Claiming(b) == bearers[b].does = "claim"
Known(b) == bearers[b].press \in pressed /\ ~bearers[b].known

\* _active_action refuses, or the event was recorded meanwhile, which its unique
\* index tells: nothing is recorded.
ClaimRefused(b) ==
  /\ Claiming(b) /\ (Known(b) \/ ~Claimable(bearers[b].site))
  /\ Ends(b, {})
  /\ Kept /\ UNCHANGED settings

\* Mutated form: the action row is locked, not written.
ActionLocked == {}
\* _issue writes a version of the action row.
ActionWritten == ByAction

\* The grants that the claim saw issued are revoked, a new one is created.
Granted(b, k) ==
  [g \in Tokens |->
    IF g = k THEN [state |-> "issued", press |-> bearers[b].press, until |-> bearers[b].at + Lifetime, used |-> 0]
    ELSE IF g \in bearers[b].live THEN [grants[g] EXCEPT !.state = "revoked"]
    ELSE grants[g]]
NextToken == {k \in Tokens \ issued : \A j \in Tokens \ issued : k <= j}
Issue(b) ==
  /\ Claiming(b) /\ ~Known(b) /\ Claimable(bearers[b].site)
  /\ \/ /\ Live(bearers[b].press) \subseteq bearers[b].live
        /\ \E k \in NextToken : grants' = Granted(b, k) /\ issued' = issued \cup {k}
        /\ pressed' = pressed \cup {bearers[b].press}
        /\ Ends(b, ActionWritten \cup ByGrants(bearers[b].live))
        /\ UNCHANGED refused
     \/ /\ ~(Live(bearers[b].press) \subseteq bearers[b].live)
        /\ refused' = TRUE /\ Ends(b, {})
        /\ UNCHANGED <<pressed, grants, issued>>
  /\ UNCHANGED <<site, redirects, astray, time, settings>>

\* --- A redirect: _consume.
Valid(b, g) == g.state = "issued" /\ g.until >= time /\ Usable(bearers[b].site)
Consume(b) ==
  /\ bearers[b].does = "follow"
  /\ LET k == bearers[b].token
         g == bearers[b].grant
     IN \/ /\ Valid(b, g)
           /\ grants' = [grants EXCEPT ![k] = [@ EXCEPT !.state = "consumed", !.used = time]]
           /\ redirects' = [redirects EXCEPT ![k] = @ + 1]
           /\ astray' = (astray \/ ~Usable(site))
           /\ Ends(b, ByGrants({k}))
        \/ /\ ~Valid(b, g) /\ g.state = "issued"
           /\ grants' = [grants EXCEPT ![k].state = "revoked"]
           /\ Ends(b, ByGrants({k}))
           /\ UNCHANGED <<redirects, astray>>
        \/ /\ g.state /= "issued"
           /\ Ends(b, {})
           /\ UNCHANGED <<grants, redirects, astray>>
  /\ UNCHANGED <<site, pressed, issued, refused, time, settings>>

\* --- Administration.
\* Mutated form: only the row that changes is written.
ChangedOnly(switch) == IF switch = "endpoint" THEN ByEndpoint ELSE {}
\* _fence_configuration_rows: every change writes a version of the endpoint.
Fence(switch) == ByEndpoint
SetUp(b) ==
  /\ bearers[b].does = "set"
  /\ LET switch == bearers[b].switch
         value == bearers[b].value
     IN \/ /\ Coherent([bearers[b].site EXCEPT ![switch] = value])
           /\ site' = [site EXCEPT ![switch] = value]
           /\ Ends(b, Fence(switch))
        \/ /\ ~Coherent([bearers[b].site EXCEPT ![switch] = value])
           /\ Ends(b, {}) /\ UNCHANGED site
  /\ UNCHANGED <<pressed, grants, issued, redirects, astray, refused, time, settings>>

\* _gc_expired_grants.
Expired ==
  {k \in Tokens : grants[k] /= NoGrant /\
    \/ grants[k].until + GrantRetention < time
    \/ grants[k].state = "consumed" /\ grants[k].used + GrantRetention < time}
Collect ==
  /\ Expired /= {}
  /\ grants' = [k \in Tokens |-> IF k \in Expired THEN NoGrant ELSE grants[k]]
  /\ bearers' = Spoiled(ByGrants(Expired))
  /\ UNCHANGED <<site, pressed, issued, redirects, astray, refused, time, settings>>

Tick ==
  /\ time < MaxTime /\ time' = time + 1
  /\ UNCHANGED <<site, pressed, grants, bearers, issued, redirects, astray, refused, settings>>

Next ==
  \/ \E b \in Bearers :
       \/ \E p \in Presses : Claim(b, p)
       \/ \E k \in Tokens : Follow(b, k)
       \/ \E switch \in DOMAIN Switches : Administer(b, switch)
       \/ Retry(b) \/ ClaimRefused(b) \/ Issue(b) \/ Consume(b) \/ SetUp(b)
  \/ Collect \/ Tick

Spec == Init /\ [][Next]_vars

\* --- Properties.
\* The type invariant.
GrantTypeOK ==
  /\ \A switch \in DOMAIN Switches : site[switch] \in Switches[switch]
  /\ pressed \subseteq Presses /\ issued \subseteq Tokens
  /\ time \in 0..MaxTime /\ settings \in 0..MaxSettings
  /\ \A k \in Tokens :
       grants[k] = NoGrant
       \/ /\ grants[k].state \in {"issued", "consumed", "revoked"}
          /\ grants[k].press \in pressed /\ k \in issued

\* However claims of one click overlap, it has one redeemable token, its latest,
\* and none of them fails on the index of issued grants (_issue).
OneTokenPerClick ==
  /\ ~refused
  /\ \A k, j \in issued :
       k < j /\ grants[k].state = "issued" => grants[j].press /= grants[k].press

\* A token redirects once, and only while endpoint, binding and action are on:
\* _consume reads the binding without a lock and relies on the fence of the
\* endpoint, whose writers keep an active binding on an active endpoint.
RedirectsAreCurrent ==
  /\ ~astray /\ Coherent(site)
  /\ \A k \in Tokens : redirects[k] <= 1
=============================================================================
