------------------------ MODULE WebhookSubscriptions ------------------------
(***************************************************************************)
(* meta.webhook.subscription.service: what Meta sends to an endpoint.      *)
(*                                                                         *)
(* Consumers subscribe to fields of Meta objects for a Page.  A job writes *)
(* the union of these subscriptions to Meta, per object at the App and per *)
(* installed Page, reads it back and records what it saw.  It only ever    *)
(* adds: what nobody wants any more is reported as drift and left to a     *)
(* person.                                                                 *)
(*                                                                         *)
(* The job's transaction takes an advisory lock, then locks the endpoint   *)
(* and the App FOR SHARE until it ends; configuration is changed under     *)
(* FOR UPDATE of the endpoint and waits for it.  Meta cannot be rolled     *)
(* back: a job that fails or dies has written there what it has written,   *)
(* and a request whose answer was lost may still take effect later.        *)
(*                                                                         *)
(* Left out: tokens, callback URL and the provider's pages; WhatsApp       *)
(* owners, which are never reconciled; when an observation is old enough   *)
(* to be refreshed (the cron may come at any time).  version stands for    *)
(* the revisions of endpoint, App and Pages.                               *)
(***************************************************************************)
EXTENDS Naturals

CONSTANTS Pages, Objects, Names,
          PageObject,      \* the object whose fields are installed on Pages
          Jobs, NoJob, Reconcilers, Idle,
          AttemptCeiling,  \* _ATTEMPT_CEILING
          MaxVersion,      \* bound on configuration changes
          MaxDisturbances  \* bound on failures, crashes and foreign changes

SubscriptionConstants ==
  /\ PageObject \in Objects /\ NoJob \notin Jobs
  /\ AttemptCeiling \in Nat \ {0} /\ MaxVersion \in Nat /\ MaxDisturbances \in Nat

VARIABLES config,       \* endpoint, App, Pages and subscriptions
          endpoint,     \* its recorded observation and its job
          installed,    \* the recorded observation of each Page
          jobs, txn,
          remote, late, \* Meta, and requests on their way to it
          disturbances

subscriptionVars ==
  <<config, endpoint, installed, jobs, txn, remote, late, disturbances>>

Targets == ({"app"} \X Objects) \cup ({"page"} \X Pages)
Config == [active : BOOLEAN, app : BOOLEAN, on : SUBSET Pages,
           want : [Pages -> SUBSET (Objects \X Names)], version : 0..MaxVersion]
Observed == [Objects -> SUBSET Names]
States == {"unknown", "in_sync", "drift", "error", "uncertain"}
Nothing == [o \in Objects |-> {}]
Unknown == [state |-> "unknown", observed |-> {}]
ErrorPage == [state |-> "error", observed |-> {}]

\* _configuration: the union over the active Pages, and the union of a Page's
\* own fields.
Union(c) == [o \in Objects |-> {n \in Names : \E p \in c.on : <<o, n>> \in c.want[p]}]
Fields(c, p) == {n \in Names : <<PageObject, n>> \in c.want[p]}
Desired(c) ==
  [t \in Targets |-> IF t[1] = "app" THEN Union(c)[t[2]]
                     ELSE IF t[2] \in c.on THEN Fields(c, t[2]) ELSE {}]

\* What a job is made for: the revisions and the hash of the union.
Plan(c) == [version |-> c.version, on |-> c.on]
NoRun == [state |-> "none", retry |-> 0, plan |-> [version |-> 0, on |-> {}]]

Init ==
  /\ \E want \in SUBSET (Objects \X Names), on \in SUBSET Pages :
       /\ config = [active |-> TRUE, app |-> TRUE, on |-> on, version |-> 0,
                    want |-> [p \in Pages |-> IF p \in on THEN want ELSE {}]]
       /\ installed = [p \in Pages |-> IF p \in on THEN Unknown
                                       ELSE [Unknown EXCEPT !.state = "absent"]]
  /\ endpoint = [state |-> "unknown", observed |-> Nothing, job |-> NoJob]
  /\ jobs = [j \in Jobs |-> NoRun]
  /\ txn = [w \in Reconcilers |-> Idle]
  /\ remote \in [Targets -> {{}, Names}] /\ late = {}
  /\ disturbances = 0

\* The steps of a job: "lock" waits for the advisory lock; the others hold it.
Steps == {"lock", "read", "post", "reread", "pages", "install", "reinstall"}

SubscriptionTypeOK ==
  /\ config \in Config
  /\ endpoint \in [state : States, observed : Observed, job : Jobs \cup {NoJob}]
  /\ installed \in [Pages -> [state : States \cup {"absent"}, observed : SUBSET Names]]
  /\ \A p \in config.on : installed[p].state # "absent"
  /\ jobs \in [Jobs -> [state : {"none", "pending", "started"}, retry : 0..AttemptCeiling,
                        plan : [version : 0..MaxVersion, on : SUBSET Pages]]]
  /\ \A w \in Reconcilers : txn[w] # Idle =>
       /\ txn[w].at \in Steps /\ txn[w].job \in Jobs /\ txn[w].seen \in Observed
       /\ txn[w].todo \subseteq Objects /\ txn[w].left \subseteq Pages
  /\ remote \in [Targets -> SUBSET Names]
  /\ late \subseteq Targets \X SUBSET Names
  /\ disturbances \in 0..MaxDisturbances

Disturb == /\ disturbances < MaxDisturbances
           /\ disturbances' = disturbances + 1

Holds(w) == txn[w] # Idle /\ txn[w].at # "lock"
Locked == \E w \in Reconcilers : Holds(w)
Active(j) == jobs[j].state \in {"pending", "started"}
Running(j) == \E w \in Reconcilers : txn[w] # Idle /\ txn[w].job = j

\* A transaction that has not locked the endpoint yet will fail on a row that
\* has changed; and any will when it stores a job that has changed.
Spoiled(w) ==
  IF /\ txn[w] # Idle
     /\ \/ endpoint' # endpoint \/ config'.version # config.version
        \/ jobs'[txn[w].job] # jobs[txn[w].job]
    THEN [txn[w] EXCEPT !.stale = TRUE] ELSE txn[w]
Becomes(w, t) == txn' = [v \in Reconcilers |-> IF v = w THEN t ELSE Spoiled(v)]
KeepOpen == txn' = [v \in Reconcilers |-> Spoiled(v)]

-----------------------------------------------------------------------------
(* Configuration.  Every change waits for a job in progress.               *)

Reset(p) == installed' = [installed EXCEPT ![p] = Unknown]

\* The next revision, taken under FOR UPDATE.
Renewed(c) == [c EXCEPT !.version = @ + 1]

\* _meta_subscription_configuration_changed, and the same in endpoint.write.
Changed(c, state) ==
  /\ ~Locked /\ config.version < MaxVersion
  /\ config' = Renewed(c)
  /\ endpoint' = [endpoint EXCEPT !.state = state, !.observed = Nothing]
  /\ UNCHANGED <<jobs, remote, late, disturbances>>
  /\ KeepOpen

\* Mutated form: the Page is reset, the endpoint is not.
WriteSubscriptionOnly(p, s) ==
  /\ installed[p].state # "absent" /\ ~Locked /\ config.version < MaxVersion
  /\ config' = [config EXCEPT !.version = @ + 1, !.want[p] =
       IF s \in @ THEN @ \ {s} ELSE @ \cup {s}]
  /\ Reset(p)
  /\ UNCHANGED <<endpoint, jobs, remote, late, disturbances>>
  /\ KeepOpen

\* meta.webhook.subscription: create, archive and unarchive.
WriteSubscription(p, s) ==
  /\ installed[p].state # "absent"
  /\ Changed([config EXCEPT !.want[p] = IF s \in @ THEN @ \ {s} ELSE @ \cup {s}],
             "unknown")
  /\ Reset(p)

\* A Page is archived or restored, or gets another token.
WritePage(p) ==
  /\ installed[p].state # "absent"
  /\ \E on \in {config.on, config.on \cup {p}, config.on \ {p}} :
       Changed([config EXCEPT !.on = on], "unknown")
  /\ Reset(p)

\* A new Page changes neither the endpoint nor its revision, and does not wait.
CreatePage(p) ==
  /\ installed[p].state = "absent"
  /\ config' = [config EXCEPT !.on = @ \cup {p}]
  /\ installed' = [installed EXCEPT ![p] = IF config.app THEN Unknown ELSE ErrorPage]
  /\ UNCHANGED <<endpoint, jobs, txn, remote, late, disturbances>>

\* The endpoint is paused or resumed, or gets another verify token.
WriteEndpoint ==
  /\ \E on \in BOOLEAN : Changed([config EXCEPT !.active = on], "unknown")
  /\ UNCHANGED installed

\* meta.api.app: every dependent observation becomes unknown, or an error
\* while the App is paused.
WriteApp ==
  \E on \in BOOLEAN :
    /\ Changed([config EXCEPT !.app = on], IF on THEN "unknown" ELSE "error")
    /\ installed' = [p \in Pages |-> IF p \notin config.on THEN installed[p]
                                     ELSE IF on THEN Unknown ELSE ErrorPage]

-----------------------------------------------------------------------------
(* Enqueueing, under FOR UPDATE of the endpoint.                           *)

\* _locked_runtime and _resolve_runtime: nothing is paused.
Resolvable == config.active /\ config.app

EnqueueEndpoint ==
  /\ ~Locked /\ Resolvable
  /\ LET same == {j \in Jobs : Active(j) /\ jobs[j].plan = Plan(config)}
     IN \/ /\ \E j \in same : endpoint' = [endpoint EXCEPT !.job = j]
           /\ UNCHANGED jobs
        \/ /\ same = {}
           /\ \E j \in Jobs :
                /\ jobs[j].state = "none" /\ ~Running(j)
                /\ jobs' = [jobs EXCEPT ![j] =
                     [state |-> "pending", retry |-> 0, plan |-> Plan(config)]]
                /\ endpoint' = [endpoint EXCEPT !.job = j]
  /\ UNCHANGED <<config, installed, remote, late, disturbances>>
  /\ KeepOpen

\* Mutated form: an endpoint that names a job is not looked at.
CronWithoutJob == endpoint.job = NoJob /\ EnqueueEndpoint

\* _cron_reconcile_subscriptions: unless the endpoint's job is still active.
Cron ==
  /\ endpoint.job # NoJob => ~Active(endpoint.job)
  /\ EnqueueEndpoint

ActionEnqueue == EnqueueEndpoint

-----------------------------------------------------------------------------
(* The job.                                                                *)

Fresh(j) ==
  [at |-> "lock", job |-> j, config |-> config, stale |-> FALSE, seen |-> Nothing,
   todo |-> {}, left |-> {}, result |-> installed, page |-> {}]

\* A postponed job waits for longer than another execution of it, which has
\* been spoiled, takes to find out.
Begin(w, j) ==
  /\ txn[w] = Idle /\ jobs[j].state = "pending" /\ ~Running(j)
  /\ jobs' = [jobs EXCEPT ![j].state = "started"]
  /\ UNCHANGED <<config, endpoint, installed, remote, late, disturbances>>
  /\ Becomes(w, Fresh(j))

Only(w, changes) ==
  /\ txn' = [txn EXCEPT ![w] = changes]
  /\ UNCHANGED <<config, endpoint, installed, jobs>>

Quit(w) ==
  /\ jobs' = [jobs EXCEPT ![txn[w].job] = NoRun]
  /\ UNCHANGED <<config, endpoint, installed, remote, late, disturbances>>
  /\ Becomes(w, Idle)

Postpone(w) ==
  LET n == jobs[txn[w].job].retry IN
  /\ jobs' = [jobs EXCEPT ![txn[w].job].state = "pending",
                          ![txn[w].job].retry = IF n < AttemptCeiling THEN n + 1 ELSE n]
  /\ UNCHANGED <<config, endpoint, installed, remote, late>>
  /\ Becomes(w, Idle)

\* The endpoint has changed when the advisory lock is won, or the job when it
\* is stored.
Conflict(w) ==
  /\ txn[w] # Idle /\ txn[w].stale /\ (Holds(w) \/ ~Locked)
  /\ Postpone(w) /\ UNCHANGED disturbances

Admitted(w) == txn[w] # Idle /\ ~Holds(w) /\ ~Locked /\ ~txn[w].stale

Current(w) ==
  /\ endpoint.job = txn[w].job
  /\ Plan(txn[w].config) = jobs[txn[w].job].plan
  /\ Resolvable

\* Superseded by another job, or made for another configuration.
Outdated(w) == Admitted(w) /\ ~Current(w) /\ Quit(w)

\* Mutated form: neither the union nor the revisions are compared.
OwnAnyPlan(w) ==
  /\ Admitted(w) /\ endpoint.job = txn[w].job
  /\ Only(w, [txn[w] EXCEPT !.at = "read"])
  /\ UNCHANGED <<remote, late, disturbances>>

Own(w) ==
  /\ Admitted(w) /\ Current(w)
  /\ Only(w, [txn[w] EXCEPT !.at = "read"])
  /\ UNCHANGED <<remote, late, disturbances>>

AtMeta == [o \in Objects |-> remote[<<"app", o>>]]

\* Every write is preceded by a read that showed the need for it.
ReadApp(w) ==
  /\ Holds(w) /\ txn[w].at = "read"
  /\ LET union == Union(txn[w].config)
         step == IF AtMeta = union \/ union = Nothing THEN "pages" ELSE "post"
     IN Only(w, [txn[w] EXCEPT !.at = step, !.seen = AtMeta, !.left = txn[w].config.on,
                               !.todo = {o \in Objects : union[o] # {}}])
  /\ UNCHANGED <<remote, late, disturbances>>

PostApp(w) ==
  /\ Holds(w) /\ txn[w].at = "post"
  /\ \E o \in txn[w].todo :
       /\ remote' = [remote EXCEPT ![<<"app", o>>] = Union(txn[w].config)[o]]
       /\ Only(w, [txn[w] EXCEPT !.todo = @ \ {o},
                                 !.at = IF txn[w].todo = {o} THEN "reread" ELSE "post"])
  /\ UNCHANGED <<late, disturbances>>

RereadApp(w) ==
  /\ Holds(w) /\ txn[w].at = "reread"
  /\ Only(w, [txn[w] EXCEPT !.at = "pages", !.seen = AtMeta])
  /\ UNCHANGED <<remote, late, disturbances>>

PageDone(w, p, state, observed) ==
  Only(w, [txn[w] EXCEPT !.at = "pages", !.left = @ \ {p},
                         !.result[p] = [state |-> state, observed |-> observed]])

ReadPage(w, p) ==
  /\ Holds(w) /\ txn[w].at = "pages" /\ p \in txn[w].left
  /\ LET fields == Fields(txn[w].config, p)
         seen == remote[<<"page", p>>]
     IN \/ fields = {} /\ PageDone(w, p, IF seen = {} THEN "in_sync" ELSE "drift", seen)
        \/ fields # {} /\ seen = fields /\ PageDone(w, p, "in_sync", seen)
        \/ /\ fields # {} /\ seen # fields
           /\ Only(w, [txn[w] EXCEPT !.at = "install", !.page = p])
  /\ UNCHANGED <<remote, late, disturbances>>

PostPage(w) ==
  /\ Holds(w) /\ txn[w].at = "install"
  /\ remote' = [remote EXCEPT ![<<"page", txn[w].page>>] =
                  Fields(txn[w].config, txn[w].page)]
  /\ Only(w, [txn[w] EXCEPT !.at = "reinstall"])
  /\ UNCHANGED <<late, disturbances>>

RereadPage(w) ==
  /\ Holds(w) /\ txn[w].at = "reinstall"
  /\ LET p == txn[w].page
         seen == remote[<<"page", p>>]
     IN PageDone(w, p, IF seen = Fields(txn[w].config, p) THEN "in_sync" ELSE "drift", seen)
  /\ UNCHANGED <<remote, late, disturbances>>

\* _project_endpoint: its job is released with what was seen.
Project(w, state, observed, pages) ==
  /\ ~txn[w].stale
  /\ endpoint' = [state |-> state, observed |-> observed, job |-> NoJob]
  /\ installed' = pages
  /\ jobs' = [jobs EXCEPT ![txn[w].job] = NoRun]
  /\ UNCHANGED <<config, remote>>
  /\ Becomes(w, Idle)

Verdict(w) ==
  LET found == {txn[w].result[p].state : p \in txn[w].config.on}
  IN IF txn[w].seen # Union(txn[w].config) THEN "drift"
     ELSE IF "uncertain" \in found THEN "uncertain"
     ELSE IF found \cap {"error", "drift"} # {} THEN "drift" ELSE "in_sync"

\* A Page created meanwhile is not in the snapshot and keeps its record.
Finish(w) ==
  /\ Holds(w) /\ txn[w].at = "pages" /\ txn[w].left = {}
  /\ Project(w, Verdict(w), txn[w].seen,
             [p \in Pages |-> IF p \in txn[w].config.on THEN txn[w].result[p]
                              ELSE installed[p]])
  /\ UNCHANGED <<late, disturbances>>

-----------------------------------------------------------------------------
(* What may go wrong.                                                      *)

\* The request a job was about to send, as far as it was sent.
Sent(w) ==
  CASE txn[w].at = "post" ->
         {<< <<"app", o>>, Union(txn[w].config)[o]>> : o \in txn[w].todo}
    [] txn[w].at = "install" ->
         {<< <<"page", txn[w].page>>, Fields(txn[w].config, txn[w].page)>>}
    [] OTHER -> {}

MaySend(w) == late' = late \/ \E r \in Sent(w) : late' = late \cup {r}

\* A rate limit or a transient error; the savepoint takes back what the Pages
\* were given.
Transient(w) ==
  /\ Holds(w) /\ txn[w].at \notin {"reread", "reinstall"} /\ Disturb
  /\ UNCHANGED late
  /\ LET n == jobs[txn[w].job].retry IN
     \/ n + 1 < AttemptCeiling /\ ~txn[w].stale /\ Postpone(w)
     \/ n + 1 >= AttemptCeiling /\ Project(w, "error", Nothing, installed)

\* Meta refuses, or the App's credentials cannot be resolved.
Rejected(w) ==
  /\ Holds(w) /\ txn[w].at \in {"read", "post", "reread"} /\ Disturb
  /\ Project(w, "error", Nothing, installed)
  /\ UNCHANGED late

\* The answer to a write, or its readback, is lost.
Uncertain(w) ==
  /\ Holds(w) /\ txn[w].at \in {"post", "reread"} /\ Disturb
  /\ MaySend(w)
  /\ Project(w, "uncertain", Nothing, installed)

\* The same for one Page: the job goes on with the others.
PageFails(w) ==
  /\ Holds(w) /\ Disturb
  /\ \/ /\ txn[w].at \in {"install", "reinstall"}
        /\ PageDone(w, txn[w].page, "uncertain", {}) /\ MaySend(w)
     \/ /\ txn[w].at = "pages" /\ UNCHANGED late
        /\ \E p \in txn[w].left : PageDone(w, p, "error", {})
     \/ /\ txn[w].at \in {"install", "reinstall"} /\ UNCHANGED late
        /\ PageDone(w, txn[w].page, "error", {})
  /\ UNCHANGED remote

Crash(w) ==
  /\ txn[w] # Idle /\ Disturb /\ MaySend(w)
  /\ txn' = [txn EXCEPT ![w] = Idle]
  /\ UNCHANGED <<config, endpoint, installed, jobs, remote>>

\* A lost request takes effect after all.
Land ==
  /\ \E r \in late : /\ remote' = [remote EXCEPT ![r[1]] = r[2]]
                     /\ late' = late \ {r}
  /\ UNCHANGED <<config, endpoint, installed, jobs, txn, disturbances>>

\* Somebody changes the subscriptions at Meta.
Foreign ==
  /\ Disturb
  /\ \E t \in Targets, names \in SUBSET Names : remote' = [remote EXCEPT ![t] = names]
  /\ UNCHANGED <<config, endpoint, installed, jobs, txn, late>>

RunnerReset(j) ==
  /\ jobs[j].state = "started" /\ ~Running(j)
  /\ jobs' = [jobs EXCEPT ![j].state = "pending"]
  /\ UNCHANGED <<config, endpoint, installed, remote, late, disturbances>>
  /\ KeepOpen

\* The queue starts a job again that is still running, which can store no more.
StartsTwice(w, j) ==
  /\ Disturb /\ txn[w] = Idle /\ jobs[j].state = "started" /\ Running(j)
  /\ txn' = [v \in Reconcilers |->
               IF v = w THEN Fresh(j)
               ELSE IF txn[v] # Idle /\ txn[v].job = j THEN [txn[v] EXCEPT !.stale = TRUE]
               ELSE txn[v]]
  /\ UNCHANGED <<config, endpoint, installed, jobs, remote, late>>

\* A job is lost.
JobLost(j) ==
  /\ Disturb /\ Active(j) /\ ~Running(j)
  /\ jobs' = [jobs EXCEPT ![j] = NoRun]
  /\ UNCHANGED <<config, endpoint, installed, remote, late>>
  /\ KeepOpen

-----------------------------------------------------------------------------
Configure ==
  \/ \E p \in Pages : \/ WritePage(p) \/ CreatePage(p)
                      \/ \E s \in Objects \X Names : WriteSubscription(p, s)
  \/ WriteEndpoint \/ WriteApp

Reconcile(w) ==
  \/ Conflict(w) \/ Outdated(w) \/ Own(w) \/ ReadApp(w) \/ PostApp(w) \/ RereadApp(w)
  \/ \E p \in Pages : ReadPage(w, p)
  \/ PostPage(w) \/ RereadPage(w) \/ Finish(w)

Trouble(w) ==
  Transient(w) \/ Rejected(w) \/ Uncertain(w) \/ PageFails(w) \/ Crash(w)

Next ==
  \/ Configure \/ Cron \/ ActionEnqueue
  \/ \E w \in Reconcilers : \/ \E j \in Jobs : Begin(w, j) \/ StartsTwice(w, j)
                            \/ Reconcile(w) \/ Trouble(w)
  \/ Land \/ Foreign
  \/ \E j \in Jobs : RunnerReset(j) \/ JobLost(j)

Spec == Init /\ [][Next]_subscriptionVars

\* Workers, queue and cron go on; the cron meets an unlocked endpoint again and
\* again.
Fairness ==
  /\ WF_subscriptionVars(\E w \in Reconcilers : Reconcile(w))
  /\ SF_subscriptionVars(\E w \in Reconcilers, j \in Jobs : Begin(w, j))
  /\ WF_subscriptionVars(\E j \in Jobs : RunnerReset(j))
  /\ SF_subscriptionVars(Cron)

FairSpec == Spec /\ Fairness

-----------------------------------------------------------------------------
(* Properties.                                                             *)

\* An observation that says "in sync" is one of the present configuration:
\* whatever job recorded it, nobody has subscribed, unsubscribed, archived or
\* restored anything since.
InSyncIsCurrent ==
  /\ endpoint.state = "in_sync" => endpoint.observed = Union(config)
  /\ \A p \in config.on :
       installed[p].state = "in_sync" => installed[p].observed = Fields(config, p)

\* Meta is only ever told what the consumers want at that moment, and nothing
\* while endpoint or App is paused: no job writes for an older configuration.
WritesFollowConfig ==
  [][ \A w \in Reconcilers, t \in Targets :
        (txn'[w] # txn[w] /\ remote'[t] # remote[t]) =>
          /\ remote'[t] = Desired(config)[t] /\ Desired(config)[t] # {}
          /\ config.active /\ config.app ]_subscriptionVars

\* Once nobody changes the configuration and Meta answers, Meta sends what the
\* consumers want, and the endpoint says so unless Meta sends more than that:
\* after crashes, lost jobs and answers, and requests that took effect late.
Extra == \E t \in Targets : Desired(config)[t] = {} /\ remote[t] # {}
Converges ==
  <>[](config.active /\ config.app =>
         /\ \A t \in Targets : Desired(config)[t] # {} => remote[t] = Desired(config)[t]
         /\ ~Extra => endpoint.state = "in_sync")
=============================================================================
