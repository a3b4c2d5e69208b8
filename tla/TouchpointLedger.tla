--------------------------- MODULE TouchpointLedger ---------------------------
(* The evidence of one occurrence: append-only revisions, of which the last   *)
(* that does not conflict is effective; their erasure; and the projection of  *)
(* the assets it names onto the catalog, rewritten by ingestion, by catalog   *)
(* upserts and by a cron.  Transactions are REPEATABLE READ and try advisory  *)
(* locks that they are refused when busy but may take with an old snapshot.   *)
EXTENDS Naturals, Sequences, FiniteSets, SequencesExt

\* What may be told of the occurrence (Contents): KindOf gives its revision kind,
\* AssetsOf the references it makes, each under a namespace of its own.
CONSTANTS Contents, KindOf, AssetsOf, Connected, Items, Resolvers, MaxVersions, MaxResolveTurns

VARIABLES versions, rows, items, resolvers, crossed, resolveTurns
vars == <<versions, rows, items, resolvers, crossed, resolveTurns>>

NoAccount == 0
Namespaces == {r.ns : r \in UNION {AssetsOf[c] : c \in Contents}}
LedgerConstants ==
  /\ Connected \subseteq Nat \ {NoAccount} /\ IsFiniteSet(Connected) /\ IsFiniteSet(Items)
  /\ MaxResolveTurns \in Nat
  /\ \A c \in Contents :
       /\ KindOf[c] \in {"observation", "enrichment", "correction", "conflict"}
       /\ \A r, s \in AssetsOf[c] : r.ns = s.ns => r = s
  /\ \A e \in Items : e.account \in Connected

\* --- Revisions.
Disposition(c, earlier) ==
  IF KindOf[c] = "conflict" THEN "conflict"
  ELSE IF earlier = <<>> THEN "accepted"
  ELSE IF KindOf[c] = "correction" THEN "revised"
  ELSE IF KindOf[c] = "enrichment" THEN "enriched"
  ELSE "conflict"
Revision(c, earlier) == [content |-> c, disposition |-> Disposition(c, earlier), erased |-> FALSE]
Standing(seen) == {n \in DOMAIN seen : seen[n].disposition /= "conflict"}
Effective(seen) == IF Standing(seen) = {} THEN 0 ELSE Max(Standing(seen))

\* An occurrence that is erased in any revision takes no further one, and what
\* is told again adds none.
Retired(seen) == \E n \in DOMAIN seen : seen[n].erased
Repeats(c, seen) == seen /= <<>> /\ (Retired(seen) \/ Last(seen).content = c)

\* --- Resolution of one reference among all those of a revision.  A reference is
\* to an account, to an entity of one type, or to an entity of any; an entity's
\* account is the one that the references name, if they agree on one.
Hints(refs) == {r.account : r \in refs} \ {NoAccount}
Owners(refs) == IF Hints(refs) = {} THEN Connected ELSE Connected \cap Hints(refs)
AnyItem(r, refs, catalog) == {e \in catalog : e.object = r.object /\ e.account \in Owners(refs)}
TypedItem(r, refs, catalog) == {e \in AnyItem(r, refs, catalog) : e.type = r.type}
Matches(r, refs, catalog) ==
  IF r.is = "any" THEN AnyItem(r, refs, catalog) ELSE TypedItem(r, refs, catalog)
NoItem == [account |-> NoAccount, type |-> "none", object |-> 0]
Verdict(state, account, item) == [state |-> state, account |-> account, item |-> item]
ResolvedSource(r) ==
  IF r.account \in Connected THEN Verdict("resolved", r.account, NoItem)
  ELSE Verdict("unresolved", NoAccount, NoItem)
ResolvedItem(r, refs, catalog) ==
  LET found == Matches(r, refs, catalog)
      owners == Owners(refs)
      item == CHOOSE e \in found : TRUE
      owner == CHOOSE a \in owners : TRUE
  IN  CASE Cardinality(found) = 1 -> Verdict("resolved", item.account, item)
        [] Cardinality(found) > 1 -> Verdict("ambiguous", NoAccount, NoItem)
        [] found = {} /\ Cardinality(owners) = 1 -> Verdict("unresolved", owner, NoItem)
        [] found = {} /\ Cardinality(owners) > 1 -> Verdict("ambiguous", NoAccount, NoItem)
        [] owners = {} -> Verdict("unresolved", NoAccount, NoItem)
\* No sync brings forms into the catalog, so that they are not looked for.
Resolve(r, refs, catalog) ==
  CASE r.type = "form" -> Verdict("unsupported", NoAccount, NoItem)
    [] r.type /= "form" /\ Cardinality(Hints(refs)) > 1 -> Verdict("ambiguous", NoAccount, NoItem)
    [] OTHER -> IF r.is = "source" THEN ResolvedSource(r) ELSE ResolvedItem(r, refs, catalog)

\* The projection holds one row per namespace of the effective revision.
NoRow == [of |-> 0]
Row(n, r, verdict) == [of |-> n, ref |-> r, verdict |-> verdict]
Projection(seen, catalog) ==
  LET n == Effective(seen)
      refs == IF n = 0 THEN {} ELSE AssetsOf[seen[n].content]
  IN  [ns \in Namespaces |->
        IF \E r \in refs : r.ns = ns
          THEN LET r == CHOOSE r \in refs : r.ns = ns IN Row(n, r, Resolve(r, refs, catalog))
          ELSE NoRow]
Present(table) == {ns \in Namespaces : table[ns] /= NoRow}

\* The cron takes up an occurrence that has assets and no row of its effective
\* revision, or a row of another one, or a reference that is not resolved.
Takes(seen, table) ==
  LET n == Effective(seen)
  IN  /\ n /= 0
      /\ \/ AssetsOf[seen[n].content] /= {} /\ \A ns \in Namespaces : table[ns].of /= n
         \/ \E ns \in Present(table) : table[ns].of /= n
         \/ \E ns \in Present(table) : table[ns].verdict.state \in {"unresolved", "ambiguous"}

\* The rows that an upsert of item e makes the resolver try again.
Concerned(e, table) ==
  {ns \in Present(table) :
     \/ /\ table[ns].verdict.state \in {"unresolved", "ambiguous"}
        /\ table[ns].verdict.account \in {e.account, NoAccount}
     \/ table[ns].ref.is = "any" /\ table[ns].ref.object = e.object}

\* --- Transactions: a job and the snapshot it works on, with the namespaces whose
\* rows were changed or deleted since.
Idle == [job |-> "idle"]
Init ==
  /\ versions = <<>>
  /\ rows = [ns \in Namespaces |-> NoRow]
  /\ items = {}
  /\ resolvers = [w \in Resolvers |-> Idle]
  /\ crossed = FALSE
  /\ resolveTurns = 0

Start(w, job, content, item) ==
  /\ resolvers[w] = Idle /\ resolveTurns < MaxResolveTurns
  /\ resolveTurns' = resolveTurns + 1
  /\ resolvers' = [resolvers EXCEPT ![w] =
       [job |-> job, content |-> content, item |-> item,
        seen |-> versions, table |-> rows, catalog |-> items, stale |-> {}]]
  /\ UNCHANGED <<versions, rows, items, crossed>>
BeginIngest(w) ==
  \E c \in Contents : Len(versions) < MaxVersions /\ Start(w, "ingest", c, NoItem)
BeginUpsert(w) == \E e \in Items : Start(w, "upsert", "none", e)
BeginCron(w) == Takes(versions, rows) /\ Start(w, "cron", "none", NoItem)
BeginErase(w) == versions /= <<>> /\ Start(w, "erase", "none", NoItem)

\* The transaction that ends, and what the others now have an old row of.
Ends(w, written) ==
  resolvers' = [v \in Resolvers |->
    CASE v = w -> Idle
      [] v /= w /\ resolvers[v] = Idle -> Idle
      [] OTHER -> [resolvers[v] EXCEPT !.stale = @ \cup written]]

\* The projection a transaction writes: it updates or deletes every row that it
\* sees and adds the missing ones.  A row changed since makes the whole
\* transaction start again; a row added since, or any other failure, ends its
\* savepoint only and is logged.
Outdated(w) == Present(resolvers[w].table) \cap resolvers[w].stale /= {}
Taken(w, target) ==
  \E ns \in Present(target) \ Present(resolvers[w].table) : rows[ns] /= NoRow
Project(w, seen, catalog) ==
  LET target == Projection(seen, catalog)
      known == Present(resolvers[w].table)
  IN  \/ /\ ~Outdated(w) /\ ~Taken(w, target)
         /\ rows' = [ns \in Namespaces |->
                      IF ns \in known \cup Present(target) THEN target[ns] ELSE rows[ns]]
         /\ Ends(w, known)
      \/ rows' = rows /\ Ends(w, {})

\* A revision that another transaction numbered first fails the ingestion.
Ingest(w) ==
  LET t == resolvers[w]
      repeats == Repeats(t.content, t.seen)
      made == Revision(t.content, t.seen)
      view == IF repeats THEN t.seen ELSE Append(t.seen, made)
  IN  /\ t.job = "ingest"
      /\ \/ /\ ~repeats /\ Len(versions) > Len(t.seen)
            /\ Ends(w, {}) /\ UNCHANGED <<versions, rows, crossed>>
         \/ /\ repeats
            /\ Project(w, view, t.catalog) /\ UNCHANGED <<versions, crossed>>
         \/ /\ ~repeats /\ Len(versions) = Len(t.seen)
            /\ versions' = Append(versions, made)
            /\ crossed' = (crossed \/ (Retired(versions) /\ ~Retired(t.seen)))
            /\ Project(w, view, t.catalog)
      /\ UNCHANGED <<items, resolveTurns>>

\* An upsert, of an item that is new or not, then the projections it concerns.
Upsert(w) ==
  LET t == resolvers[w]
  IN  /\ t.job = "upsert"
      /\ items' = items \cup {t.item}
      /\ IF Concerned(t.item, t.table) = {} THEN rows' = rows /\ Ends(w, {})
         ELSE Project(w, t.seen, t.catalog \cup {t.item})
      /\ UNCHANGED <<versions, crossed, resolveTurns>>

Backfill(w) ==
  /\ resolvers[w].job = "cron"
  /\ Project(w, resolvers[w].seen, resolvers[w].catalog)
  /\ UNCHANGED <<versions, items, crossed, resolveTurns>>

\* The erasure keeps the rows and the references that were resolved.
Erase(w) ==
  LET seen == resolvers[w].seen
  IN  /\ resolvers[w].job = "erase"
      /\ versions' = [n \in DOMAIN versions |->
                       IF n \in DOMAIN seen THEN [versions[n] EXCEPT !.erased = TRUE] ELSE versions[n]]
      /\ crossed' = (crossed \/ Len(versions) > Len(seen))
      /\ Ends(w, {})
      /\ UNCHANGED <<rows, items, resolveTurns>>

\* A busy lock or an outdated row: the transaction runs again, from a new
\* snapshot; a cron starts anew by itself.
Retry(w) ==
  /\ resolvers[w] /= Idle /\ Outdated(w)
  /\ resolvers' = [resolvers EXCEPT ![w] =
       IF @.job = "cron" THEN Idle
       ELSE [@ EXCEPT !.seen = versions, !.table = rows, !.catalog = items, !.stale = {}]]
  /\ UNCHANGED <<versions, rows, items, crossed, resolveTurns>>

Next ==
  \E w \in Resolvers :
    \/ BeginIngest(w) \/ BeginUpsert(w) \/ BeginCron(w) \/ BeginErase(w)
    \/ Ingest(w) \/ Upsert(w) \/ Backfill(w) \/ Erase(w) \/ Retry(w)

Spec == Init /\ [][Next]_vars

\* --- Properties.

\* Every row is of a revision that does not conflict, and of a reference it makes.
LedgerTypeOK ==
  /\ versions \in Seq([content : Contents, erased : BOOLEAN,
                       disposition : {"accepted", "revised", "enriched", "conflict"}])
  /\ items \subseteq Items /\ crossed \in BOOLEAN
  /\ \A ns \in Present(rows) :
       /\ rows[ns].of \in DOMAIN versions /\ versions[rows[ns].of].disposition /= "conflict"
       /\ rows[ns].ref \in AssetsOf[versions[rows[ns].of].content] /\ rows[ns].ref.ns = ns

\* What is told twice in a row is one revision, however the two overlap, and an
\* occurrence that is erased gets no revision that its erasure does not reach,
\* unless the two ran at the same time.
RevisionsAreTold ==
  /\ \A n \in 1..Len(versions) - 1 : versions[n].content /= versions[n + 1].content
  /\ Retired(versions) /\ ~crossed => \A n \in DOMAIN versions : versions[n].erased

\* A row that is not what the ledger and the catalog now say is one that the
\* cron takes up; only a reference that was resolved stays as it was resolved,
\* to an item that it still matches.
Stands(ns) ==
  LET now == Projection(versions, items)[ns]
  IN  \/ rows[ns] = now
      \/ /\ NoRow \notin {rows[ns], now}
         /\ rows[ns].of = now.of
         /\ rows[ns].verdict.state = "resolved"
         /\ rows[ns].verdict.item \in
              Matches(now.ref, AssetsOf[versions[now.of].content], items)
ProjectionHeals == (\A ns \in Namespaces : Stands(ns)) \/ Takes(versions, rows)
==============================================================================
