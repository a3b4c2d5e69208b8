------------------------------ MODULE CrmProofs ------------------------------
(* Proofs about what becomes of a lead's demand and of the credit for it      *)
(* (MCCrm), for every value of the constants: the lookup of its click, its    *)
(* automation steps, its admission, the pairing of its conversations with     *)
(* their evidence, the credit that merges carry, and the split of an event's  *)
(* amount.  Each part has an inductive invariant of its own, proved of its    *)
(* Init and its Next; the last section composes them, since a part that is    *)
(* not chosen does not move.                                                  *)
EXTENDS MCCrm, Sequences, TLAPS, FiniteSetTheorems, WellFoundedInduction

\* The instances have their own names for the sizes of sets.
LEMMA SameSizes ==
  \A S : Lookup!Cardinality(S) = Cardinality(S) /\ Steps!Cardinality(S) = Cardinality(S)
BY DEF Lookup!IsFiniteSet, Lookup!Cardinality, Steps!IsFiniteSet, Steps!Cardinality,
       IsFiniteSet, Cardinality

LEMMA SameSizesToo ==
  \A S : /\ Converge!Cardinality(S) = Cardinality(S) /\ Converge!IsFiniteSet(S) = IsFiniteSet(S)
         /\ Credit!Cardinality(S) = Cardinality(S) /\ Credit!IsFiniteSet(S) = IsFiniteSet(S)
<1>1. \A S : Converge!Cardinality(S) = Cardinality(S) /\ Converge!IsFiniteSet(S) = IsFiniteSet(S)
  BY DEF Converge!IsFiniteSet, Converge!Cardinality, IsFiniteSet, Cardinality
<1>2. \A S : Credit!Cardinality(S) = Cardinality(S) /\ Credit!IsFiniteSet(S) = IsFiniteSet(S)
  BY DEF Credit!IsFiniteSet, Credit!Cardinality, IsFiniteSet, Cardinality
<1> QED BY <1>1, <1>2

LEMMA SizesOfCalc ==
  \A S : Calc!Cardinality(S) = Cardinality(S) /\ Calc!IsFiniteSet(S) = IsFiniteSet(S)
BY DEF Calc!IsFiniteSet, Calc!Cardinality, IsFiniteSet, Cardinality

\* Sets of numbers have their least, and where they end their greatest, element.
LEMMA LeastNumber ==
  ASSUME NEW S \in SUBSET Nat, S # {} PROVE \E m \in S : \A k \in S : m <= k
<1> DEFINE R == OpToRel(<, Nat)
<1>1. IsWellFoundedOn(R, Nat)
  BY NatLessThanWellFounded DEF R
<1> HIDE DEF R
<1>2. PICK m \in S : \A k \in S : <<k, m>> \notin R
  BY <1>1, WFMin
<1>3. \A k \in S : ~(k < m)
  BY <1>2 DEF OpToRel, R
<1>4. \A k \in S : m <= k
  BY <1>3
<1> QED BY <1>4

LEMMA GreatestNumber ==
  ASSUME NEW S \in SUBSET Nat, S # {}, NEW b \in Nat, \A k \in S : k <= b
  PROVE  \E m \in S : \A k \in S : m >= k
<1> DEFINE T == {b - k : k \in S}
<1>1. T \in SUBSET Nat /\ T # {}
  <2>1. \A k \in S : b - k \in Nat
    OBVIOUS
  <2> QED BY <2>1
<1>2. PICK t \in T : \A u \in T : t <= u
  <2> HIDE DEF T
  <2> QED BY <1>1, LeastNumber
<1>3. PICK m \in S : t = b - m
  OBVIOUS
<1>4. \A k \in S : b - m <= b - k
  BY <1>2, <1>3
<1>5. \A k \in S : m >= k
  <2> TAKE k \in S
  <2>1. b - m <= b - k
    BY <1>4
  <2>2. m \in Nat /\ k \in Nat
    OBVIOUS
  <2> HIDE DEF T
  <2> QED BY <2>1, <2>2
<1> QED BY <1>5

\* Induction on a set of numbers, from the well-foundedness of <: the theorem of
\* NaturalsInduction would need an operator as a parameter.
LEMMA NatSets ==
  ASSUME NEW S, 0 \in S, \A n \in Nat : n \in S => n + 1 \in S
  PROVE  Nat \subseteq S
<1> SUFFICES ASSUME NEW n \in Nat \ S PROVE FALSE
  OBVIOUS
<1>1. PICK m \in Nat \ S : \A k \in Nat \ S : m <= k
  BY LeastNumber
<1>2. m # 0 /\ m - 1 \in Nat /\ (m - 1) + 1 = m
  BY <1>1
<1>3. m - 1 \notin S
  BY <1>1, <1>2
<1> QED BY <1>1, <1>2, <1>3

\* --- Places of numbers in a finite set of them: each place up to its size is taken
\* by exactly one, and the first n of them are n.
UpTo(T, i) == {j \in T : j <= i}

LEMMA Places ==
  ASSUME NEW T \in SUBSET Nat, IsFiniteSet(T)
  PROVE  /\ \A i \in T : Cardinality(UpTo(T, i)) \in 1..Cardinality(T)
         /\ \A i, k \in T : Cardinality(UpTo(T, i)) = Cardinality(UpTo(T, k)) => i = k
         /\ \A n \in 1..Cardinality(T) : \E i \in T : Cardinality(UpTo(T, i)) = n
         /\ \A i, k \in T : i < k => Cardinality(UpTo(T, i)) < Cardinality(UpTo(T, k))
<1>1. \A i \in T : IsFiniteSet(UpTo(T, i)) /\ Cardinality(UpTo(T, i)) \in 1..Cardinality(T)
  <2> TAKE i \in T
  <2>1. UpTo(T, i) \in SUBSET T /\ UpTo(T, i) # {}
    BY DEF UpTo
  <2>2. IsFiniteSet(UpTo(T, i)) /\ Cardinality(UpTo(T, i)) <= Cardinality(T)
    BY <2>1, FS_Subset
  <2>3. Cardinality(UpTo(T, i)) \in Nat /\ Cardinality(T) \in Nat
    BY <2>2, FS_CardinalityType
  <2>4. Cardinality(UpTo(T, i)) # 0
    BY <2>1, <2>2, FS_EmptySet
  <2> QED BY <2>2, <2>3, <2>4
<1>2. ASSUME NEW i \in T, NEW k \in T, i < k
      PROVE  Cardinality(UpTo(T, i)) < Cardinality(UpTo(T, k))
  <2>1. UpTo(T, i) \in SUBSET UpTo(T, k) /\ k \in UpTo(T, k) /\ k \notin UpTo(T, i)
    <3>1. i \in Nat /\ k \in Nat /\ \A j \in T : j \in Nat
      OBVIOUS
    <3>2. \A j \in T : j <= i => j <= k
      BY <1>2, <3>1
    <3>3. k <= k /\ ~(k <= i)
      BY <1>2, <3>1
    <3>4. \A j \in UpTo(T, i) : j \in UpTo(T, k)
      BY <3>2 DEF UpTo
    <3> QED BY <3>3, <3>4 DEF UpTo
  <2>2. Cardinality(UpTo(T, i)) <= Cardinality(UpTo(T, k))
        /\ (Cardinality(UpTo(T, k)) = Cardinality(UpTo(T, i)) => UpTo(T, k) = UpTo(T, i))
    BY <1>1, <2>1, FS_Subset
  <2>3. Cardinality(UpTo(T, i)) \in Nat /\ Cardinality(UpTo(T, k)) \in Nat
    BY <1>1
  <2> QED BY <2>1, <2>2, <2>3
<1>3. \A i, k \in T : Cardinality(UpTo(T, i)) = Cardinality(UpTo(T, k)) => i = k
  <2> TAKE i, k \in T
  <2>1. i < k \/ k < i \/ i = k
    OBVIOUS
  <2>2. Cardinality(UpTo(T, i)) \in Nat /\ Cardinality(UpTo(T, k)) \in Nat
    BY <1>1
  <2> QED BY <1>2, <2>1, <2>2
<1>4. \A n \in 1..Cardinality(T) : \E i \in T : Cardinality(UpTo(T, i)) = n
  <2> DEFINE m == Cardinality(T)
             f == [i \in T |-> Cardinality(UpTo(T, i))]
  <2>1. m \in Nat
    BY FS_CardinalityType
  <2>2. IsFiniteSet(1..m) /\ Cardinality(1..m) = m
    BY <2>1, FS_Interval
  <2>3. f \in Injection(T, 1..m)
    BY <1>1, <1>3 DEF Injection, IsInjective
  <2>4. \A i \in T : f[i] = Cardinality(UpTo(T, i))
    OBVIOUS
  <2>5. m = Cardinality(T)
    OBVIOUS
  <2> HIDE DEF f, m
  <2>6. f \in Surjection(T, 1..m)
    BY <2>2, <2>3, <2>5, FS_Injection
  <2>7. \A n \in 1..m : \E i \in T : f[i] = n
    BY <2>6 DEF Surjection
  <2> QED BY <2>4, <2>5, <2>7
<1> QED BY <1>1, <1>2, <1>3, <1>4

\* Once a number is not among the first n, these are n, and it is behind them.
LEMMA FirstOnes ==
  ASSUME NEW T \in SUBSET Nat, IsFiniteSet(T), NEW n \in Nat,
         NEW first, first = {i \in T : Cardinality(UpTo(T, i)) <= n}, NEW k \in T, k \notin first
  PROVE  /\ IsFiniteSet(first) /\ Cardinality(first) = n
         /\ \A i \in first : i < k
<1>1. \A i \in T : Cardinality(UpTo(T, i)) \in Nat
  BY Places, FS_CardinalityType
<1>2. Cardinality(UpTo(T, k)) > n
  BY <1>1
<1>3. \A i \in first : i < k
  <2> TAKE i \in first
  <2>1. i \in T /\ Cardinality(UpTo(T, i)) <= n
    OBVIOUS
  <2>2. ~(k < i)
    BY <1>1, <1>2, <2>1, Places
  <2> QED BY <1>2, <2>1, <2>2, <1>1
<1>4. first \in SUBSET T /\ IsFiniteSet(first)
  BY FS_Subset
<1>5. n <= Cardinality(T) /\ Cardinality(T) \in Nat
  <2>1. Cardinality(UpTo(T, k)) \in 1..Cardinality(T) /\ Cardinality(T) \in Nat
    BY Places, FS_CardinalityType
  <2> QED BY <1>2, <2>1
<1> DEFINE f == [i \in first |-> Cardinality(UpTo(T, i))]
<1>6. f \in Bijection(first, 1..n)
  <2>1. \A i \in first : Cardinality(UpTo(T, i)) \in 1..n
    <3> TAKE i \in first
    <3>1. i \in T /\ Cardinality(UpTo(T, i)) <= n
      OBVIOUS
    <3>2. Cardinality(UpTo(T, i)) \in 1..Cardinality(T)
      BY <3>1, Places
    <3> QED BY <3>1, <3>2, <1>5
  <2>2. f \in Injection(first, 1..n)
    <3>1. f \in [first -> 1..n]
      BY <2>1
    <3>2. \A i, j \in first : Cardinality(UpTo(T, i)) = Cardinality(UpTo(T, j)) => i = j
      BY <1>4, Places
    <3>3. \A i, j \in first : f[i] = f[j] => i = j
      BY <3>2
    <3> HIDE DEF f
    <3> QED BY <3>1, <3>3 DEF Injection, IsInjective
  <2>3. \A r \in 1..n : \E i \in first : f[i] = r
    <3> TAKE r \in 1..n
    <3>1. r \in 1..Cardinality(T)
      BY <1>5
    <3>2. PICK i \in T : Cardinality(UpTo(T, i)) = r
      BY <3>1, Places
    <3> QED BY <3>2
  <2>4. f \in Surjection(first, 1..n)
    BY <2>1, <2>3 DEF Surjection
  <2> QED BY <2>2, <2>4 DEF Bijection
<1>7. ExistsBijection(first, 1..n)
  BY <1>6 DEF ExistsBijection
<1>8. Cardinality(1..n) = Cardinality(first)
  BY <1>4, <1>7, FS_Bijection
<1>9. Cardinality(1..n) = n
  BY FS_Interval
<1> QED BY <1>3, <1>4, <1>8, <1>9

------------------------------------------------------------------------------
\* AutomationSteps: enrolled once, told once, and silent when it must be.
Phones == {"first", "second"}
Workflow == [enabled : BOOLEAN, after : Prospects \cup {0}]
Prospect == [there : BOOLEAN, phone : Phones \cup {"none"}, paused : BOOLEAN, human : BOOLEAN]
Step == [enrolled : Nat, state : {"none", "scheduled", "done", "error", "rejected"},
         status : {"none", "queued", "disabled", "stopped", "submitted"},
         talks : SUBSET Phones, receipt : Phones \cup {"none"}]
Enrollment == [does : {"enroll"}, only : SUBSET Prospects, finds : SUBSET Prospects]
Job == [does : {"send"}, lead : Prospects, workflow : Workflow, prospect : Prospect]

StepsTypes ==
  /\ workflow \in Workflow /\ prospects \in [Prospects -> Prospect]
  /\ step \in [Prospects -> Step] /\ senders \in [Senders -> {Steps!Idle} \cup Enrollment \cup Job]
  /\ incidents \in 0..MaxIncidents
  /\ entryJobs \subseteq Steps!There /\ stepJobs \subseteq Steps!There /\ hushed \subseteq Steps!There

\* Only a lead that exists is enrolled, queued or written to.
LeadsAreKnown ==
  /\ \A l \in Prospects : l \in Steps!There <=> prospects[l].phone \in Phones
  /\ \A l \in Prospects : step[l].enrolled > 0 <=> step[l].state # "none"
  /\ \A l \in Prospects : step[l].enrolled > 0 => l \in Steps!There
  /\ \A s \in Senders, l \in Prospects :
       Steps!Sending(s, l) => l \in Steps!There /\ senders[s].prospect.phone \in Phones
  /\ \A s \in Senders : Steps!Enrolling(s) => senders[s].only \subseteq Steps!There

\* Leads are created in the order of their numbers, so that there is a newest.
LeadsAreOrdered ==
  /\ \A l \in Steps!There, k \in Prospects : k < l => k \in Steps!There
  /\ Steps!There # {} => \E l \in Steps!There : \A k \in Steps!There : k <= l

\* What an open enrollment has found, nobody has enrolled since.
FindsAreFresh ==
  \A s \in Senders : Steps!Enrolling(s) =>
    \A l \in senders[s].finds : step[l].enrolled = 0 /\ l \in Steps!There

\* The message of a step is the one its receipt names.
ReceiptIsMessage ==
  \A l \in Prospects : step[l].talks = IF step[l].receipt = "none" THEN {} ELSE {step[l].receipt}

\* A job that reads the lead and the workflow as they are now stops, and so does
\* every job that is open already.
Hushed(l) == prospects[l].human \/ ~workflow.enabled \/ l <= workflow.after
Silent(s) == ~senders[s].workflow.enabled \/ Steps!Stopped(s)
Hush ==
  \A l \in hushed :
    /\ step[l].talks = {} /\ Hushed(l)
    /\ \A s \in Senders : Steps!Sending(s, l) => Silent(s)

StepsInv ==
  StepsTypes /\ LeadsAreKnown /\ LeadsAreOrdered /\ FindsAreFresh /\ ReceiptIsMessage /\ Steps!EnrolledOnce /\ Hush

\* --- Frames.

\* Transactions end, or stay as they are.
Ended == senders' \in [Senders -> {Steps!Idle} \cup Enrollment \cup Job]
         /\ \A s \in Senders : senders'[s] = senders[s] \/ senders'[s] = Steps!Idle
Counted == incidents' \in 0..MaxIncidents

LEMMA IncidentCounted ==
  ASSUME Steps!AutomationConstants, StepsTypes, Steps!Incident PROVE Counted
BY DEF Steps!AutomationConstants, StepsTypes, Steps!Incident, Counted

LEMMA NobodyCounted == ASSUME StepsTypes, UNCHANGED incidents PROVE Counted
BY DEF StepsTypes, Counted

LEMMA JobsEnd ==
  ASSUME StepsTypes, NEW s, NEW l, senders' = Steps!EndJobs(s, l) PROVE Ended
BY DEF StepsTypes, Steps!EndJobs, Ended

LEMMA EnrollmentsEnd ==
  ASSUME StepsTypes, NEW s, senders' = Steps!EndEnrollments(s) PROVE Ended
BY DEF StepsTypes, Steps!EndEnrollments, Ended

LEMMA OneEnds ==
  ASSUME StepsTypes, NEW s \in Senders, senders' = [senders EXCEPT ![s] = Steps!Idle] PROVE Ended
BY DEF StepsTypes, Ended

\* What is run again concerns leads that exist.
LEMMA AgainIsKnown ==
  ASSUME StepsInv, NEW s
  PROVE  /\ \A l \in Steps!There : Steps!JobsAgain(s, l) \subseteq Steps!There
         /\ Steps!EntriesAgain(s) \subseteq Steps!There
<1>1. \A l \in Steps!There : Steps!JobsAgain(s, l) \subseteq Steps!There
  BY DEF Steps!JobsAgain
<1>2. \A r \in Senders : Steps!Enrolling(r) => senders[r].only \subseteq Steps!There
  BY DEF StepsInv, LeadsAreKnown
<1> QED BY <1>1, <1>2 DEF Steps!EntriesAgain

\* Nothing but the end of transactions: the leads and the workflow stay.
LEMMA EndedPreserves ==
  ASSUME StepsInv, Ended, Counted, UNCHANGED <<workflow, prospects, step, hushed>>,
         entryJobs' \subseteq Steps!There, stepJobs' \subseteq Steps!There
  PROVE  StepsInv'
<1>1. Steps!There' = Steps!There
  BY DEF Steps!There
<1>2. \A s \in Senders : senders'[s] = Steps!Idle => ~Steps!Enrolling(s)' /\ \A l : ~Steps!Sending(s, l)'
  BY DEF Steps!Enrolling, Steps!Sending, Steps!Idle
<1>3. StepsTypes'
  BY <1>1 DEF StepsInv, StepsTypes, Ended, Counted
<1>4. LeadsAreKnown'
  BY <1>1, <1>2 DEF StepsInv, LeadsAreKnown, Ended, Steps!Enrolling, Steps!Sending
<1>5. LeadsAreOrdered'
  BY <1>1 DEF StepsInv, LeadsAreOrdered
<1>6. FindsAreFresh'
  BY <1>1, <1>2 DEF StepsInv, FindsAreFresh, Ended, Steps!Enrolling
<1>7. ReceiptIsMessage' /\ Steps!EnrolledOnce'
  BY DEF StepsInv, ReceiptIsMessage, Steps!EnrolledOnce
<1>8. Hush'
  BY <1>2 DEF StepsInv, Hush, Hushed, Silent, Steps!Stopped, Ended, Steps!Sending
<1> QED BY <1>3, <1>4, <1>5, <1>6, <1>7, <1>8 DEF StepsInv

\* The step of one enrolled lead is written, and transactions end.
LEMMA WrittenPreserves ==
  ASSUME StepsInv, NEW l \in Prospects, NEW new \in Step, step' = [step EXCEPT ![l] = new],
         step[l].state # "none", new.state # "none", new.enrolled = step[l].enrolled,
         new.talks = IF new.receipt = "none" THEN {} ELSE {new.receipt},
         l \in hushed => new.talks = {},
         Ended, Counted, UNCHANGED <<workflow, prospects, entryJobs, hushed>>,
         stepJobs' \subseteq Steps!There
  PROVE  StepsInv'
<1>1. Steps!There' = Steps!There
  BY DEF Steps!There
<1>2. \A s \in Senders : senders'[s] = Steps!Idle => ~Steps!Enrolling(s)' /\ \A k : ~Steps!Sending(s, k)'
  BY DEF Steps!Enrolling, Steps!Sending, Steps!Idle
<1>a. step \in [Prospects -> Step]
  BY DEF StepsInv, StepsTypes
<1>b. step'[l] = new /\ \A k \in Prospects \ {l} : step'[k] = step[k]
  BY <1>a
<1>c. \A k \in Prospects : step'[k].enrolled = step[k].enrolled
  BY <1>b
<1>3. StepsTypes'
  <2>1. step' \in [Prospects -> Step]
    BY <1>a
  <2> QED BY <1>1, <2>1 DEF StepsInv, StepsTypes, Ended, Counted
<1>4. LeadsAreKnown'
  <2>1. \A k \in Prospects : step'[k].enrolled > 0 <=> step'[k].state # "none"
    BY <1>b, <1>c DEF StepsInv, LeadsAreKnown
  <2>2. \A k \in Prospects : step'[k].enrolled > 0 => k \in Steps!There'
    BY <1>1, <1>c DEF StepsInv, LeadsAreKnown
  <2> QED BY <1>1, <1>2, <2>1, <2>2 DEF StepsInv, LeadsAreKnown, Ended, Steps!Enrolling, Steps!Sending
<1>5. LeadsAreOrdered'
  BY <1>1 DEF StepsInv, LeadsAreOrdered
<1>6. FindsAreFresh'
  <2> SUFFICES ASSUME NEW s \in Senders, Steps!Enrolling(s)', NEW k \in senders'[s].finds
               PROVE  step'[k].enrolled = 0 /\ k \in Steps!There'
    BY DEF FindsAreFresh
  <2>1. Steps!Enrolling(s) /\ senders'[s] = senders[s]
    BY <1>2 DEF Ended, Steps!Enrolling
  <2>2. k \in Prospects
    BY <2>1 DEF StepsInv, FindsAreFresh, Steps!There
  <2> QED BY <1>1, <1>c, <2>1, <2>2 DEF StepsInv, FindsAreFresh
<1>7. ReceiptIsMessage'
  BY <1>b DEF StepsInv, ReceiptIsMessage
<1>8. Steps!EnrolledOnce'
  BY <1>c DEF StepsInv, Steps!EnrolledOnce
<1>9. Hush'
  <2> SUFFICES ASSUME NEW k \in hushed
               PROVE  /\ step'[k].talks = {} /\ Hushed(k)'
                      /\ \A s \in Senders : Steps!Sending(s, k)' => Silent(s)'
    BY DEF Hush
  <2>1. k \in Prospects
    BY DEF StepsInv, StepsTypes, Steps!There
  <2>2. step'[k].talks = {}
    BY <1>b, <2>1 DEF StepsInv, Hush
  <2>3. Hushed(k)'
    BY DEF StepsInv, Hush, Hushed
  <2>4. \A s \in Senders : Steps!Sending(s, k)' => Silent(s)'
    BY <1>2 DEF StepsInv, Hush, Silent, Steps!Stopped, Ended, Steps!Sending
  <2> QED BY <2>2, <2>3, <2>4
<1> QED BY <1>3, <1>4, <1>5, <1>6, <1>7, <1>8, <1>9 DEF StepsInv

\* --- Steps and their jobs.

LEMMA DuePreserves ==
  ASSUME Steps!AutomationConstants, StepsInv, NEW l \in Prospects, Steps!Queue(l) \/ Steps!RunDisabled(l) \/ Steps!RetryStep(l)
  PROVE  StepsInv'
<1> DEFINE known == step[l] \in Step /\ step[l].talks = IF step[l].receipt = "none" THEN {} ELSE {step[l].receipt}
<1>1. known /\ (l \in hushed => step[l].talks = {})
  BY DEF StepsInv, StepsTypes, ReceiptIsMessage, Hush
<1>2. step[l].state # "none" => l \in Steps!There
  BY DEF StepsInv, LeadsAreKnown, StepsTypes
<1>3. CASE Steps!Queue(l)
  <2> DEFINE new == [step[l] EXCEPT !.status = "queued"]
  <2>1. new \in Step /\ step' = [step EXCEPT ![l] = new]
    BY <1>1, <1>3 DEF Steps!Queue, Step
  <2>2. Ended /\ Counted /\ step[l].state = "scheduled"
    BY <1>3, JobsEnd, NobodyCounted DEF StepsInv, Steps!Queue, Steps!Due
  <2>3. stepJobs' \subseteq Steps!There
    BY <1>2, <1>3, <2>2, AgainIsKnown DEF StepsInv, StepsTypes, Steps!Queue
  <2>4. new.state = step[l].state /\ new.enrolled = step[l].enrolled
        /\ new.talks = step[l].talks /\ new.receipt = step[l].receipt
    BY <1>1 DEF Step
  <2> HIDE DEF new
  <2> QED BY <1>1, <1>3, <2>1, <2>2, <2>3, <2>4, WrittenPreserves DEF Steps!Queue
<1>4. CASE Steps!RunDisabled(l)
  <2> DEFINE new == [step[l] EXCEPT !.status = "disabled", !.state = "rejected"]
  <2>1. new \in Step /\ step' = [step EXCEPT ![l] = new]
    BY <1>1, <1>4 DEF Steps!RunDisabled, Step
  <2>2. Ended /\ Counted /\ step[l].state = "scheduled"
    BY <1>4, JobsEnd, NobodyCounted DEF StepsInv, Steps!RunDisabled, Steps!Due
  <2>3. stepJobs' \subseteq Steps!There
    BY <1>2, <1>4, <2>2, AgainIsKnown DEF StepsInv, StepsTypes, Steps!RunDisabled
  <2>4. new.state = "rejected" /\ new.enrolled = step[l].enrolled
        /\ new.talks = step[l].talks /\ new.receipt = step[l].receipt
    BY <1>1 DEF Step
  <2> HIDE DEF new
  <2> QED BY <1>1, <1>4, <2>1, <2>2, <2>3, <2>4, WrittenPreserves DEF Steps!RunDisabled
<1>5. CASE Steps!RetryStep(l)
  <2> DEFINE new == [step[l] EXCEPT !.state = "scheduled"]
  <2>1. new \in Step /\ step' = [step EXCEPT ![l] = new]
    BY <1>1, <1>5 DEF Steps!RetryStep, Step
  <2>2. Ended /\ Counted /\ step[l].state = "error"
    BY <1>5, IncidentCounted DEF StepsInv, StepsTypes, Steps!RetryStep, Ended
  <2>3. stepJobs' \subseteq Steps!There
    BY <1>5 DEF StepsInv, StepsTypes, Steps!RetryStep
  <2>4. new.state = "scheduled" /\ new.enrolled = step[l].enrolled
        /\ new.talks = step[l].talks /\ new.receipt = step[l].receipt
    BY <1>1 DEF Step
  <2> HIDE DEF new
  <2> QED BY <1>1, <1>5, <2>1, <2>2, <2>3, <2>4, WrittenPreserves DEF Steps!RetryStep
<1> QED BY <1>3, <1>4, <1>5

\* A job that ends writes the step of an enrolled lead.
LEMMA EndPreserves ==
  ASSUME StepsInv, NEW s \in Senders, NEW l \in Prospects, NEW new \in Step,
         Steps!Sending(s, l), Steps!Due(l), step' = [step EXCEPT ![l] = new], senders' = Steps!EndJobs(s, l),
         stepJobs' = stepJobs \cup Steps!JobsAgain(s, l), Counted,
         UNCHANGED <<workflow, prospects, entryJobs, hushed>>,
         new.state # "none", new.enrolled = step[l].enrolled,
         new.talks = IF new.receipt = "none" THEN {} ELSE {new.receipt},
         l \in hushed => new.talks = {}
  PROVE  StepsInv'
<1>1. Ended /\ step[l].state # "none"
  BY JobsEnd DEF StepsInv, Steps!Due
<1>2. stepJobs' \subseteq Steps!There
  BY AgainIsKnown DEF StepsInv, LeadsAreKnown, StepsTypes
<1> QED BY <1>1, <1>2, WrittenPreserves

LEMMA JobStopPreserves ==
  ASSUME StepsInv, NEW s \in Senders, NEW l \in Prospects, Steps!JobDisabled(s, l) \/ Steps!JobStopped(s, l)
  PROVE  StepsInv'
<1>1. step[l] \in Step /\ (l \in hushed => step[l].talks = {})
      /\ step[l].talks = IF step[l].receipt = "none" THEN {} ELSE {step[l].receipt}
  BY DEF StepsInv, StepsTypes, ReceiptIsMessage, Hush
<1>2. ASSUME NEW status \in {"disabled", "stopped"}, NEW state \in {"rejected", "done"},
             Steps!Sending(s, l), Steps!Due(l),
             Steps!Finish(s, l, [step[l] EXCEPT !.status = status, !.state = state])
      PROVE  StepsInv'
  <2> DEFINE new == [step[l] EXCEPT !.status = status, !.state = state]
  <2>1. new \in Step /\ new.state # "none" /\ new.enrolled = step[l].enrolled
        /\ new.talks = step[l].talks /\ new.receipt = step[l].receipt
    BY <1>1, <1>2 DEF Step
  <2>2. step' = [step EXCEPT ![l] = new] /\ Counted
    BY <1>2, NobodyCounted DEF StepsInv, Steps!Finish
  <2> HIDE DEF new
  <2> QED BY <1>1, <1>2, <2>1, <2>2, EndPreserves DEF Steps!Finish
<1>3. CASE Steps!JobDisabled(s, l)
  BY <1>2, <1>3 DEF Steps!JobDisabled
<1>4. CASE Steps!JobStopped(s, l)
  BY <1>2, <1>4 DEF Steps!JobStopped
<1> QED BY <1>3, <1>4

\* A job that is willing writes to nobody silenced, and its message is the only one.
LEMMA WillingFacts ==
  ASSUME StepsInv, NEW s \in Senders, NEW l \in Prospects, Steps!Willing(s, l)
  PROVE  /\ Steps!Sending(s, l) /\ Steps!Due(l) /\ l \notin hushed
         /\ Steps!Admitted(s, l) \in Step /\ Steps!Admitted(s, l).enrolled = step[l].enrolled
         /\ Steps!Admitted(s, l).talks
              = IF Steps!Admitted(s, l).receipt = "none" THEN {} ELSE {Steps!Admitted(s, l).receipt}
<1>1. Steps!Sending(s, l) /\ Steps!Due(l) /\ l \notin hushed
  BY DEF Steps!Willing, StepsInv, Hush, Silent
<1>2. step[l] \in Step /\ senders[s].prospect.phone \in Phones
      /\ step[l].talks = IF step[l].receipt = "none" THEN {} ELSE {step[l].receipt}
  BY <1>1 DEF StepsInv, StepsTypes, ReceiptIsMessage, LeadsAreKnown
<1>3. CASE step[l].receipt = "none"
  BY <1>1, <1>2, <1>3 DEF Steps!Admitted, Steps!Admits, Step, Phones
<1>4. CASE step[l].receipt # "none"
  BY <1>1, <1>2, <1>4 DEF Steps!Admitted, Steps!Admits
<1> QED BY <1>3, <1>4

LEMMA JobSendPreserves ==
  ASSUME Steps!AutomationConstants, StepsInv, NEW s \in Senders, NEW l \in Prospects,
         Steps!JobSends(s, l) \/ Steps!ChildrenFail(s, l) \/ Steps!AdmissionFails(s, l)
  PROVE  StepsInv'
<1>1. Steps!Willing(s, l)
  BY DEF Steps!JobSends, Steps!ChildrenFail, Steps!AdmissionFails
<1>2. Steps!Sending(s, l) /\ Steps!Due(l) /\ l \notin hushed
  BY <1>1, WillingFacts
<1>3. ASSUME NEW row \in Step, NEW state \in {"done", "error"}, row.enrolled = step[l].enrolled,
             row.talks = IF row.receipt = "none" THEN {} ELSE {row.receipt},
             step' = [step EXCEPT ![l] = [row EXCEPT !.state = state]], Counted,
             senders' = Steps!EndJobs(s, l), stepJobs' = stepJobs \cup Steps!JobsAgain(s, l),
             UNCHANGED <<workflow, prospects, entryJobs, hushed>>
      PROVE  StepsInv'
  <2> DEFINE new == [row EXCEPT !.state = state]
  <2>1. new \in Step /\ new.state # "none" /\ new.enrolled = row.enrolled
        /\ new.talks = row.talks /\ new.receipt = row.receipt
    BY <1>3 DEF Step
  <2>2. step' = [step EXCEPT ![l] = new]
    BY <1>3
  <2> HIDE DEF new
  <2> QED BY <1>2, <1>3, <2>1, <2>2, EndPreserves
<1>4. CASE Steps!JobSends(s, l)
  <2>1. Counted /\ step' = [step EXCEPT ![l] = [Steps!Admitted(s, l) EXCEPT !.state = "done"]]
    BY <1>4, NobodyCounted DEF StepsInv, Steps!JobSends, Steps!Finish
  <2> QED BY <1>1, <1>3, <1>4, <2>1, WillingFacts DEF Steps!JobSends, Steps!Finish
<1>5. CASE Steps!ChildrenFail(s, l)
  BY <1>1, <1>3, <1>5, WillingFacts, IncidentCounted DEF StepsInv, Steps!ChildrenFail
<1>6. CASE Steps!AdmissionFails(s, l)
  <2>1. step[l] \in Step /\ step[l].talks = IF step[l].receipt = "none" THEN {} ELSE {step[l].receipt}
    BY DEF StepsInv, StepsTypes, ReceiptIsMessage
  <2>2. step' = [step EXCEPT ![l] = [step[l] EXCEPT !.state = "error"]]
    BY <1>6 DEF Steps!AdmissionFails
  <2> QED BY <1>3, <1>6, <2>1, <2>2, IncidentCounted DEF StepsInv, Steps!AdmissionFails
<1> QED BY <1>4, <1>5, <1>6

LEMMA JobLeavesPreserves ==
  ASSUME Steps!AutomationConstants, StepsInv, NEW s \in Senders, NEW l \in Prospects,
         Steps!JobIdle(s, l) \/ Steps!JobDies(s, l)
  PROVE  StepsInv'
<1>1. CASE Steps!JobIdle(s, l)
  BY <1>1, OneEnds, NobodyCounted, EndedPreserves DEF StepsInv, StepsTypes, Steps!JobIdle
<1>2. CASE Steps!JobDies(s, l)
  <2>1. Ended /\ Counted
    BY <1>2, OneEnds, IncidentCounted DEF StepsInv, Steps!JobDies
  <2>2. stepJobs' \subseteq Steps!There /\ entryJobs' \subseteq Steps!There
    BY <1>2 DEF StepsInv, StepsTypes, LeadsAreKnown, Steps!JobDies
  <2> QED BY <1>2, <2>1, <2>2, EndedPreserves DEF Steps!JobDies
<1> QED BY <1>1, <1>2

\* --- Enrollment.

LEMMA StartPreserves ==
  ASSUME StepsInv, NEW s \in Senders, NEW only \in SUBSET Steps!There, Steps!StartEnrollment(s, only),
         entryJobs' \subseteq entryJobs
  PROVE  StepsInv'
<1> DEFINE found == IF workflow.enabled
                    THEN {l \in Prospects : Steps!Enrollable(l) /\ (only = {} \/ l \in only)} ELSE {}
           new == [does |-> "enroll", only |-> only, finds |-> found]
<1>1. Steps!There' = Steps!There
  BY DEF Steps!There, Steps!StartEnrollment
<1>2. senders' = [senders EXCEPT ![s] = new] /\ senders[s] = Steps!Idle
      /\ UNCHANGED <<workflow, prospects, step, stepJobs, hushed, incidents>>
  BY DEF Steps!StartEnrollment
<1>3. \A l \in found : l \in Prospects /\ l \in Steps!There /\ step[l].enrolled = 0
  BY DEF Steps!Enrollable
<1>4. new \in Enrollment /\ new.does = "enroll" /\ new.only = only /\ new.finds = found
  BY <1>3 DEF Enrollment, Steps!There
<1> HIDE DEF found, new
<1>5. senders'[s] = new /\ \A r \in Senders \ {s} : senders'[r] = senders[r]
  BY <1>2 DEF StepsInv, StepsTypes
<1>6. \A l : ~Steps!Sending(s, l)'
  BY <1>4, <1>5 DEF Steps!Sending
<1>7. StepsTypes'
  BY <1>1, <1>2, <1>4 DEF StepsInv, StepsTypes
<1>8. LeadsAreKnown'
  BY <1>1, <1>2, <1>4, <1>5, <1>6 DEF StepsInv, LeadsAreKnown, Steps!Enrolling, Steps!Sending
<1>9. LeadsAreOrdered' /\ ReceiptIsMessage' /\ Steps!EnrolledOnce'
  BY <1>1, <1>2 DEF StepsInv, LeadsAreOrdered, ReceiptIsMessage, Steps!EnrolledOnce
<1>10. FindsAreFresh'
  BY <1>1, <1>2, <1>3, <1>4, <1>5 DEF StepsInv, FindsAreFresh, Steps!Enrolling
<1>11. Hush'
  BY <1>2, <1>5, <1>6 DEF StepsInv, Hush, Hushed, Silent, Steps!Stopped, Steps!Sending
<1> QED BY <1>7, <1>8, <1>9, <1>10, <1>11 DEF StepsInv

\* Whoever found a lead before it was enrolled is ended by the enrollment.
LEMMA EnrollPreserves ==
  ASSUME StepsInv, NEW s \in Senders, Steps!Enroll(s) PROVE StepsInv'
<1> DEFINE finds == senders[s].finds
<1>1. Steps!There' = Steps!There /\ UNCHANGED <<workflow, prospects, stepJobs, hushed>> /\ Steps!Enrolling(s)
  BY DEF Steps!There, Steps!Enroll
<1>2. finds \subseteq Steps!There /\ \A l \in finds : step[l].enrolled = 0 /\ step[l].state = "none"
  <2>1. \A l \in finds : step[l].enrolled = 0 /\ l \in Steps!There
    BY <1>1 DEF StepsInv, FindsAreFresh
  <2>2. \A l \in Steps!There : l \in Prospects
    BY DEF Steps!There
  <2>3. \A l \in Prospects : step[l].enrolled > 0 <=> step[l].state # "none"
    BY DEF StepsInv, LeadsAreKnown
  <2>4. \A l \in finds : ~(step[l].enrolled > 0)
    BY <2>1
  <2> HIDE DEF finds
  <2> QED BY <2>1, <2>2, <2>3, <2>4
<1>3. \A l \in Prospects :
        step'[l] = IF l \in finds
                   THEN [step[l] EXCEPT !.enrolled = @ + 1, !.state = IF @ = "none" THEN "scheduled" ELSE @]
                   ELSE step[l]
  BY DEF Steps!Enroll
<1>4. \A l \in Prospects :
        /\ step'[l] \in Step /\ step'[l].talks = step[l].talks /\ step'[l].receipt = step[l].receipt
        /\ l \in finds => step'[l].enrolled = 1 /\ step'[l].state = "scheduled"
        /\ l \notin finds => step'[l] = step[l]
  <2> SUFFICES ASSUME NEW l \in Prospects
               PROVE  /\ step'[l] \in Step /\ step'[l].talks = step[l].talks
                      /\ step'[l].receipt = step[l].receipt
                      /\ l \in finds => step'[l].enrolled = 1 /\ step'[l].state = "scheduled"
                      /\ l \notin finds => step'[l] = step[l]
    OBVIOUS
  <2>1. step[l] \in Step
    BY DEF StepsInv, StepsTypes
  <2>2. CASE l \in finds
    <3> HIDE DEF finds
    <3> DEFINE row == step[l]
               new == step'[l]
               enrolled == row.enrolled + 1
               state == IF row.state = "none" THEN "scheduled" ELSE row.state
    <3>1. new = [row EXCEPT !.enrolled = enrolled, !.state = state]
      BY <1>3, <2>2
    <3>2. row \in Step /\ enrolled = 1 /\ state = "scheduled"
      BY <1>2, <2>1, <2>2
    <3> HIDE DEF row, new, enrolled, state
    <3>3. /\ new \in Step /\ new.enrolled = 1 /\ new.state = "scheduled"
          /\ new.talks = row.talks /\ new.receipt = row.receipt
      BY <3>1, <3>2 DEF Step
    <3> QED BY <2>2, <3>3 DEF row, new
  <2>3. CASE l \notin finds
    BY <1>3, <2>1, <2>3
  <2> QED BY <2>2, <2>3
<1>5. Ended /\ Counted /\ senders' = Steps!EndEnrollments(s)
  BY EnrollmentsEnd, NobodyCounted DEF StepsInv, Steps!Enroll, Steps!EnrolledFenced
<1>6. \A r \in Senders : ~Steps!Enrolling(r)'
  BY <1>5 DEF Steps!EndEnrollments, Steps!Enrolling, Steps!Idle
<1>7. \A r \in Senders, l \in Prospects : Steps!Sending(r, l)' => Steps!Sending(r, l) /\ senders'[r] = senders[r]
  BY <1>5 DEF Ended, Steps!Sending, Steps!Idle
<1>8. StepsTypes'
  <2>1. step' \in [Prospects -> Step]
    <3>1. step' = [l \in Prospects |-> step'[l]]
      BY DEF Steps!Enroll
    <3> QED BY <1>4, <3>1
  <2>2. entryJobs' \subseteq Steps!There
    BY AgainIsKnown DEF StepsInv, StepsTypes, Steps!Enroll
  <2> QED BY <1>1, <1>5, <2>1, <2>2 DEF StepsInv, StepsTypes, Ended, Counted
<1> HIDE DEF finds
<1>9. LeadsAreKnown'
  <2>1. \A l \in Prospects : step'[l].enrolled > 0 <=> step'[l].state # "none"
    BY <1>4 DEF StepsInv, LeadsAreKnown
  <2>2. \A l \in Prospects : step'[l].enrolled > 0 => l \in Steps!There
    BY <1>2, <1>4 DEF StepsInv, LeadsAreKnown
  <2>3. \A r \in Senders, l \in Prospects :
          Steps!Sending(r, l)' => l \in Steps!There /\ senders'[r].prospect.phone \in Phones
    BY <1>7 DEF StepsInv, LeadsAreKnown
  <2> QED BY <1>1, <1>6, <2>1, <2>2, <2>3 DEF StepsInv, LeadsAreKnown
<1>10. LeadsAreOrdered'
  BY <1>1 DEF StepsInv, LeadsAreOrdered
<1>11. FindsAreFresh'
  BY <1>6 DEF FindsAreFresh
<1>12. ReceiptIsMessage' /\ Steps!EnrolledOnce'
  BY <1>4 DEF StepsInv, ReceiptIsMessage, Steps!EnrolledOnce
<1>13. Hush'
  <2> SUFFICES ASSUME NEW k \in hushed
               PROVE  /\ step'[k].talks = {} /\ Hushed(k)'
                      /\ \A r \in Senders : Steps!Sending(r, k)' => Silent(r)'
    BY <1>1 DEF Hush
  <2>1. k \in Prospects
    BY DEF StepsInv, StepsTypes, Steps!There
  <2>2. step'[k].talks = {} /\ Hushed(k)'
    BY <1>1, <1>4, <2>1 DEF StepsInv, Hush, Hushed
  <2>3. \A r \in Senders : Steps!Sending(r, k)' => Silent(r)'
    BY <1>7, <2>1 DEF StepsInv, Hush, Silent, Steps!Stopped
  <2> QED BY <2>2, <2>3
<1> QED BY <1>8, <1>9, <1>10, <1>11, <1>12, <1>13 DEF StepsInv

\* A job that starts for a silenced lead reads what silences it.
LEMMA StartJobPreserves ==
  ASSUME StepsInv, NEW s \in Senders, NEW l \in Prospects, Steps!StartJob(s, l) PROVE StepsInv'
<1> DEFINE new == [does |-> "send", lead |-> l, workflow |-> workflow, prospect |-> prospects[l]]
<1>1. Steps!There' = Steps!There /\ UNCHANGED <<workflow, prospects, entryJobs, step, hushed, incidents>>
  BY DEF Steps!There, Steps!StartJob
<1>2. senders' = [senders EXCEPT ![s] = new] /\ l \in Steps!There
  BY DEF StepsInv, StepsTypes, Steps!StartJob
<1>3. /\ new \in Job /\ new.does = "send" /\ new.lead = l /\ new.workflow = workflow
      /\ new.prospect = prospects[l]
  BY DEF StepsInv, StepsTypes, Job
<1> HIDE DEF new
<1>4. senders'[s] = new /\ \A r \in Senders \ {s} : senders'[r] = senders[r]
  BY <1>2 DEF StepsInv, StepsTypes
<1>5. ~Steps!Enrolling(s)' /\ \A k \in Prospects : Steps!Sending(s, k)' => k = l
  BY <1>3, <1>4 DEF Steps!Enrolling, Steps!Sending
<1>6. StepsTypes'
  BY <1>1, <1>2, <1>3 DEF StepsInv, StepsTypes, Steps!StartJob
<1>7. LeadsAreKnown'
  BY <1>1, <1>2, <1>3, <1>4, <1>5 DEF StepsInv, LeadsAreKnown, Steps!Enrolling, Steps!Sending
<1>8. LeadsAreOrdered' /\ ReceiptIsMessage' /\ Steps!EnrolledOnce'
  BY <1>1 DEF StepsInv, LeadsAreOrdered, ReceiptIsMessage, Steps!EnrolledOnce
<1>9. FindsAreFresh'
  BY <1>1, <1>4, <1>5 DEF StepsInv, FindsAreFresh, Steps!Enrolling
<1>10. Hush'
  <2>1. l \in hushed => Silent(s)'
    BY <1>3, <1>4 DEF StepsInv, Hush, Hushed, Silent, Steps!Stopped
  <2>2. \A k \in hushed : k \in Prospects
    BY DEF StepsInv, StepsTypes, Steps!There
  <2> QED BY <1>1, <1>4, <1>5, <2>1, <2>2 DEF StepsInv, Hush, Hushed, Silent, Steps!Stopped, Steps!Sending
<1> QED BY <1>6, <1>7, <1>8, <1>9, <1>10 DEF StepsInv

\* --- Leads and administration.

LEMMA NewestIsLast ==
  ASSUME Steps!AutomationConstants, StepsInv
  PROVE  Steps!Newest(Steps!There) \in Prospects \cup {0} /\ \A l \in Steps!There : l <= Steps!Newest(Steps!There)
<1>1. CASE Steps!There = {}
  BY <1>1 DEF Steps!Newest
<1>2. CASE Steps!There # {}
  <2>1. \E l \in Steps!There : \A k \in Steps!There : k <= l
    BY <1>2 DEF StepsInv, LeadsAreOrdered
  <2>2. Steps!Newest(Steps!There) \in Steps!There /\ \A k \in Steps!There : k <= Steps!Newest(Steps!There)
    BY <1>2, <2>1 DEF Steps!Newest
  <2> QED BY <2>2 DEF Steps!There
<1> QED BY <1>1, <1>2

LEMMA SilencedFacts ==
  ASSUME StepsInv, NEW ls \in SUBSET Steps!There
  PROVE  /\ Steps!Silenced(ls) \subseteq Steps!There
         /\ \A k \in Steps!Silenced(ls) :
              /\ k \in hushed \/ k \in ls
              /\ step[k].talks = {}
              /\ \A s \in Senders : Steps!Sending(s, k) => Silent(s)
BY DEF Steps!Silenced, StepsInv, StepsTypes, Hush

\* The workflow is switched on or off.
LEMMA WorkflowPreserves ==
  ASSUME StepsInv, workflow' \in Workflow, Ended, Counted, entryJobs' \subseteq Steps!There,
         UNCHANGED <<prospects, step, stepJobs>>, hushed' \subseteq Steps!There,
         \A k \in hushed' :
           /\ step[k].talks = {} /\ \A s \in Senders : Steps!Sending(s, k) => Silent(s)
           /\ ~workflow'.enabled \/ k <= workflow'.after
  PROVE  StepsInv'
<1>1. Steps!There' = Steps!There
  BY DEF Steps!There
<1>2. \A s \in Senders : senders'[s] = Steps!Idle => ~Steps!Enrolling(s)' /\ \A k : ~Steps!Sending(s, k)'
  BY DEF Steps!Enrolling, Steps!Sending, Steps!Idle
<1>3. StepsTypes'
  BY <1>1 DEF StepsInv, StepsTypes, Ended, Counted
<1>4. LeadsAreKnown'
  BY <1>1, <1>2 DEF StepsInv, LeadsAreKnown, Ended, Steps!Enrolling, Steps!Sending
<1>5. LeadsAreOrdered'
  BY <1>1 DEF StepsInv, LeadsAreOrdered
<1>6. FindsAreFresh'
  BY <1>1, <1>2 DEF StepsInv, FindsAreFresh, Ended, Steps!Enrolling
<1>7. ReceiptIsMessage' /\ Steps!EnrolledOnce'
  BY DEF StepsInv, ReceiptIsMessage, Steps!EnrolledOnce
<1>8. Hush'
  <2> SUFFICES ASSUME NEW k \in hushed'
               PROVE  /\ step'[k].talks = {} /\ Hushed(k)'
                      /\ \A s \in Senders : Steps!Sending(s, k)' => Silent(s)'
    BY DEF Hush
  <2>1. step'[k].talks = {} /\ Hushed(k)'
    BY DEF Hushed
  <2>2. \A s \in Senders : Steps!Sending(s, k)' => Silent(s)'
    BY <1>2 DEF Silent, Steps!Stopped, Ended, Steps!Sending
  <2> QED BY <2>1, <2>2
<1> QED BY <1>3, <1>4, <1>5, <1>6, <1>7, <1>8 DEF StepsInv

LEMMA SwitchPreserves ==
  ASSUME Steps!AutomationConstants, StepsInv, Steps!Enable \/ Steps!Disable PROVE StepsInv'
<1>1. entryJobs \cup Steps!EntriesAgain("nobody") \subseteq Steps!There
  BY AgainIsKnown DEF StepsInv, StepsTypes
<1>2. CASE Steps!Enable
  <2>1. workflow' \in Workflow /\ workflow'.after = Steps!Newest(Steps!There)
    BY <1>2, NewestIsLast DEF Steps!Enable, Steps!NewEntry, Workflow
  <2>2. Ended /\ Counted /\ hushed' = hushed /\ hushed \subseteq Steps!There
    BY <1>2, EnrollmentsEnd, IncidentCounted DEF StepsInv, StepsTypes, Steps!Enable
  <2>3. \A k \in hushed' :
           /\ step[k].talks = {} /\ \A s \in Senders : Steps!Sending(s, k) => Silent(s)
           /\ k <= workflow'.after
    BY <2>1, <2>2, NewestIsLast DEF StepsInv, Hush
  <2> QED BY <1>1, <1>2, <2>1, <2>2, <2>3, WorkflowPreserves DEF Steps!Enable
<1>3. CASE Steps!Disable
  <2>1. workflow' \in Workflow /\ ~workflow'.enabled
    BY <1>3 DEF StepsInv, StepsTypes, Steps!Disable, Workflow
  <2>2. Ended /\ Counted
    BY <1>3, EnrollmentsEnd, IncidentCounted DEF StepsInv, Steps!Disable
  <2> QED BY <1>1, <1>3, <2>1, <2>2, SilencedFacts, WorkflowPreserves DEF Steps!Disable
<1> QED BY <1>2, <1>3

\* A lead is answered, paused, or gets another phone.
LEMMA LeadPreserves ==
  ASSUME Steps!AutomationConstants, StepsInv, NEW l \in Prospects, Steps!Contact(l) \/ Steps!Pause(l) \/ Steps!CorrectPhone(l)
  PROVE  StepsInv'
<1>1. ASSUME NEW new \in Prospect, new.there, new.phone \in Phones, l \in Steps!There,
             prospects' = [prospects EXCEPT ![l] = new], prospects[l].human => new.human,
             hushed' = hushed \/ (new.human /\ hushed' = Steps!Silenced({l})), Counted,
             UNCHANGED <<workflow, entryJobs, step, stepJobs, senders>>
      PROVE  StepsInv'
  <2>1. prospects'[l] = new /\ \A k \in Prospects \ {l} : prospects'[k] = prospects[k]
    BY <1>1 DEF StepsInv, StepsTypes
  <2>2. Steps!There' = Steps!There
    BY <1>1, <2>1 DEF Steps!There
  <2>3. /\ hushed' \subseteq Steps!There
        /\ \A k \in hushed' :
             /\ k \in hushed \/ (k = l /\ new.human)
             /\ step[k].talks = {} /\ \A s \in Senders : Steps!Sending(s, k) => Silent(s)
    <3>1. CASE hushed' = hushed
      BY <3>1 DEF StepsInv, StepsTypes, Hush
    <3>2. CASE new.human /\ hushed' = Steps!Silenced({l})
      BY <1>1, <3>2, SilencedFacts
    <3> QED BY <1>1, <3>1, <3>2
  <2>4. StepsTypes'
    BY <1>1, <2>2, <2>3 DEF StepsInv, StepsTypes, Counted
  <2>5. LeadsAreKnown'
    <3>1. \A k \in Prospects : k \in Steps!There <=> prospects'[k].phone \in Phones
      BY <1>1, <2>1 DEF StepsInv, LeadsAreKnown, Steps!There
    <3> QED BY <1>1, <2>2, <3>1 DEF StepsInv, LeadsAreKnown, Steps!Enrolling, Steps!Sending
  <2>6. LeadsAreOrdered'
    BY <2>2 DEF StepsInv, LeadsAreOrdered
  <2>7. FindsAreFresh' /\ ReceiptIsMessage' /\ Steps!EnrolledOnce'
    BY <1>1, <2>2 DEF StepsInv, FindsAreFresh, ReceiptIsMessage, Steps!EnrolledOnce, Steps!Enrolling
  <2>8. Hush'
    <3> SUFFICES ASSUME NEW k \in hushed'
                 PROVE  /\ step'[k].talks = {} /\ Hushed(k)'
                        /\ \A s \in Senders : Steps!Sending(s, k)' => Silent(s)'
      BY DEF Hush
    <3>1. k \in Prospects
      BY <2>3 DEF Steps!There
    <3>2. Hushed(k)'
      BY <1>1, <2>1, <2>3, <3>1 DEF StepsInv, Hush, Hushed
    <3>3. \A s \in Senders : Steps!Sending(s, k)' => Silent(s)'
      BY <1>1, <2>3 DEF Silent, Steps!Stopped, Steps!Sending
    <3> QED BY <1>1, <2>3, <3>2, <3>3
  <2> QED BY <2>4, <2>5, <2>6, <2>7, <2>8 DEF StepsInv
<1>2. prospects[l] \in Prospect /\ (l \in Steps!There => prospects[l].phone \in Phones)
      /\ (l \in Steps!There <=> prospects[l].there)
  BY DEF StepsInv, StepsTypes, LeadsAreKnown, Steps!There
<1>3. CASE Steps!Contact(l)
  <2> DEFINE new == [prospects[l] EXCEPT !.human = TRUE]
  <2>1. new \in Prospect /\ new.there = prospects[l].there /\ new.phone = prospects[l].phone /\ new.human
    BY <1>2 DEF Prospect
  <2>2. prospects' = [prospects EXCEPT ![l] = new]
    BY <1>3 DEF Steps!Contact
  <2> HIDE DEF new
  <2> QED BY <1>1, <1>2, <1>3, <2>1, <2>2, IncidentCounted DEF StepsInv, Steps!Contact
<1>4. CASE Steps!Pause(l)
  <2> DEFINE new == [prospects[l] EXCEPT !.paused = ~@]
  <2>1. new \in Prospect /\ new.there = prospects[l].there /\ new.phone = prospects[l].phone
        /\ new.human = prospects[l].human
    BY <1>2 DEF Prospect
  <2>2. prospects' = [prospects EXCEPT ![l] = new]
    BY <1>4 DEF Steps!Pause
  <2> HIDE DEF new
  <2> QED BY <1>1, <1>2, <1>4, <2>1, <2>2, IncidentCounted DEF StepsInv, Steps!Pause
<1>5. CASE Steps!CorrectPhone(l)
  <2> DEFINE new == [prospects[l] EXCEPT !.phone = "second"]
  <2>1. new \in Prospect /\ new.there = prospects[l].there /\ new.phone = "second"
        /\ new.human = prospects[l].human
    BY <1>2 DEF Prospect, Phones
  <2>2. prospects' = [prospects EXCEPT ![l] = new]
    BY <1>5 DEF Steps!CorrectPhone
  <2>3. l \in Steps!There
    BY <1>5 DEF StepsInv, LeadsAreKnown, Phones, Steps!CorrectPhone
  <2> HIDE DEF new
  <2> QED BY <1>1, <1>2, <1>5, <2>1, <2>2, <2>3, IncidentCounted DEF StepsInv, Steps!CorrectPhone, Phones
<1> QED BY <1>3, <1>4, <1>5

\* A lead that is created is newer than every other.
LEMMA CreatePreserves ==
  ASSUME Steps!AutomationConstants, StepsInv, NEW l \in Prospects, Steps!Create(l) PROVE StepsInv'
<1> DEFINE new == [Steps!NoProspect EXCEPT !.there = TRUE, !.phone = "first"]
<1>1. /\ new \in Prospect /\ new.there /\ new.phone = "first"
      /\ prospects' = [prospects EXCEPT ![l] = new]
  BY DEF Steps!NoProspect, Prospect, Phones, Steps!Create
<1>2. UNCHANGED <<workflow, step, stepJobs, senders, hushed, incidents>>
  BY DEF Steps!Create
<1> HIDE DEF new
<1>3. prospects'[l] = new /\ \A k \in Prospects \ {l} : prospects'[k] = prospects[k]
  BY <1>1 DEF StepsInv, StepsTypes
<1>4. Steps!There' = Steps!There \cup {l} /\ l \notin Steps!There
  BY <1>1, <1>3 DEF Steps!There, Steps!Create
<1>5. StepsTypes'
  <2>1. entryJobs' \subseteq Steps!There' /\ stepJobs' \subseteq Steps!There' /\ hushed' \subseteq Steps!There'
    BY <1>2, <1>4 DEF StepsInv, StepsTypes, Steps!Create
  <2> QED BY <1>1, <1>2, <2>1 DEF StepsInv, StepsTypes
<1>6. LeadsAreKnown'
  <2>1. \A k \in Prospects : k \in Steps!There' <=> prospects'[k].phone \in Phones
    BY <1>1, <1>3, <1>4 DEF StepsInv, LeadsAreKnown, Phones
  <2> QED BY <1>2, <1>4, <2>1 DEF StepsInv, LeadsAreKnown, Steps!Enrolling, Steps!Sending
<1>7. LeadsAreOrdered'
  <2>1. \A k \in Prospects : k < l => k \in Steps!There
    BY DEF Steps!Create, Steps!There
  <2>2. \A k \in Steps!There' : k \in Prospects /\ k \in Nat
    BY <1>4 DEF Steps!There, Steps!AutomationConstants
  <2>3. \A k \in Steps!There' : k <= l
    <3> SUFFICES ASSUME NEW k \in Steps!There', ~(k <= l) PROVE FALSE
      OBVIOUS
    <3>1. l < k /\ k \in Steps!There
      BY <1>4, <2>2 DEF Steps!AutomationConstants
    <3> QED BY <1>4, <3>1 DEF StepsInv, LeadsAreOrdered
  <2>4. \A i \in Steps!There', k \in Prospects : k < i => k \in Steps!There'
    BY <1>4, <2>1 DEF StepsInv, LeadsAreOrdered
  <2> QED BY <1>4, <2>3, <2>4 DEF LeadsAreOrdered
<1>8. FindsAreFresh'
  BY <1>2, <1>4 DEF StepsInv, FindsAreFresh, Steps!Enrolling
<1>9. ReceiptIsMessage' /\ Steps!EnrolledOnce'
  BY <1>2 DEF StepsInv, ReceiptIsMessage, Steps!EnrolledOnce
<1>10. Hush'
  <2>1. \A k \in hushed : k \in Prospects /\ k # l
    BY <1>4 DEF StepsInv, StepsTypes, Steps!There
  <2>2. \A k \in hushed : Hushed(k)'
    BY <1>2, <1>3, <2>1 DEF StepsInv, Hush, Hushed
  <2> QED BY <1>2, <2>2 DEF StepsInv, Hush, Silent, Steps!Stopped, Steps!Sending
<1> QED BY <1>5, <1>6, <1>7, <1>8, <1>9, <1>10 DEF StepsInv

\* --- The invariant, and what it gives.

LEMMA StepsInitInv ==
  ASSUME Steps!AutomationConstants, Steps!Init PROVE StepsInv
<1>1. Steps!There = {}
  BY DEF Steps!Init, Steps!There, Steps!NoProspect
<1>2. \A s \in Senders : ~Steps!Enrolling(s) /\ \A l : ~Steps!Sending(s, l)
  BY DEF Steps!Init, Steps!Enrolling, Steps!Sending, Steps!Idle
<1>3. Steps!NoProspect \in Prospect /\ Steps!NoProspect.phone = "none"
  BY DEF Steps!NoProspect, Prospect
<1>4. /\ Steps!NoStep \in Step /\ Steps!NoStep.enrolled = 0 /\ Steps!NoStep.state = "none" /\ Steps!NoStep.talks = {}
      /\ Steps!NoStep.receipt = "none"
  BY DEF Steps!NoStep, Step
<1>5. \A l \in Prospects : step[l] = Steps!NoStep /\ prospects[l] = Steps!NoProspect
  BY DEF Steps!Init
<1>6. StepsTypes
  <2>1. workflow \in Workflow /\ incidents \in 0..MaxIncidents
    BY DEF Steps!Init, Workflow, Steps!AutomationConstants
  <2>2. prospects \in [Prospects -> Prospect] /\ step \in [Prospects -> Step]
    BY <1>3, <1>4 DEF Steps!Init
  <2>3. senders \in [Senders -> {Steps!Idle} \cup Enrollment \cup Job]
    BY DEF Steps!Init
  <2> QED BY <2>1, <2>2, <2>3 DEF Steps!Init, StepsTypes
<1>7. LeadsAreKnown
  BY <1>1, <1>2, <1>3, <1>4, <1>5 DEF LeadsAreKnown, Phones
<1>8. LeadsAreOrdered /\ FindsAreFresh
  BY <1>1, <1>2 DEF LeadsAreOrdered, FindsAreFresh
<1>9. ReceiptIsMessage /\ Steps!EnrolledOnce
  BY <1>4, <1>5 DEF ReceiptIsMessage, Steps!EnrolledOnce
<1>10. Hush
  BY DEF Steps!Init, Hush
<1> QED BY <1>6, <1>7, <1>8, <1>9, <1>10 DEF StepsInv

LEMMA StepsNextInv ==
  ASSUME Steps!AutomationConstants, StepsInv, [Steps!Next]_Steps!vars PROVE StepsInv'
<1>1. CASE UNCHANGED Steps!vars
  <2>1. Ended /\ Counted
    BY <1>1, NobodyCounted DEF StepsInv, StepsTypes, Ended, Steps!vars
  <2> QED BY <1>1, <2>1, EndedPreserves DEF StepsInv, StepsTypes, Steps!vars
<1>2. CASE Steps!Enable \/ Steps!Disable
  BY <1>2, SwitchPreserves
<1>3. ASSUME NEW l \in Prospects,
             \/ Steps!Create(l) \/ Steps!Contact(l) \/ Steps!Pause(l) \/ Steps!CorrectPhone(l)
             \/ Steps!Queue(l) \/ Steps!RunDisabled(l) \/ Steps!RetryStep(l)
      PROVE  StepsInv'
  BY <1>3, CreatePreserves, LeadPreserves, DuePreserves
<1>4. ASSUME NEW s \in Senders, Steps!StartCron(s) \/ Steps!Enroll(s)
      PROVE  StepsInv'
  <2>1. CASE Steps!StartCron(s)
    BY <2>1, StartPreserves DEF Steps!StartCron
  <2>2. CASE Steps!Enroll(s)
    BY <2>2, EnrollPreserves
  <2> QED BY <1>4, <2>1, <2>2
<1>5. ASSUME NEW s \in Senders, NEW l \in Prospects, Steps!StartEntryJob(s, l)
      PROVE  StepsInv'
  <2>1. {l} \in SUBSET Steps!There /\ entryJobs' \subseteq entryJobs
    BY <1>5 DEF StepsInv, StepsTypes, Steps!StartEntryJob
  <2> QED BY <1>5, <2>1, StartPreserves DEF Steps!StartEntryJob
<1>6. ASSUME NEW s \in Senders, NEW l \in Prospects,
             \/ Steps!StartJob(s, l) \/ Steps!JobIdle(s, l) \/ Steps!JobDies(s, l)
             \/ Steps!JobDisabled(s, l) \/ Steps!JobStopped(s, l)
             \/ Steps!JobSends(s, l) \/ Steps!ChildrenFail(s, l) \/ Steps!AdmissionFails(s, l)
      PROVE  StepsInv'
  BY <1>6, StartJobPreserves, JobLeavesPreserves, JobStopPreserves, JobSendPreserves
<1> QED BY <1>1, <1>2, <1>3, <1>4, <1>5, <1>6 DEF Steps!Next

LEMMA StepsGive ==
  StepsInv => Steps!AutomationTypeOK /\ Steps!EnrolledOnce /\ Steps!OneMessagePerStep /\ Steps!SilenceIsKept
<1> SUFFICES ASSUME StepsInv
             PROVE  Steps!AutomationTypeOK /\ Steps!EnrolledOnce /\ Steps!OneMessagePerStep /\ Steps!SilenceIsKept
  OBVIOUS
<1>1. Steps!AutomationTypeOK
  <2>1. workflow.enabled \in BOOLEAN /\ workflow.after \in Prospects \cup {0}
    BY DEF StepsInv, StepsTypes, Workflow
  <2>2. \A l \in Prospects :
          /\ step[l].enrolled > 0 <=> step[l].state # "none"
          /\ step[l].receipt # "none" => step[l].talks # {}
    BY DEF StepsInv, LeadsAreKnown, ReceiptIsMessage
  <2> QED BY <2>1, <2>2 DEF StepsInv, StepsTypes, Steps!AutomationTypeOK
<1>2. Steps!OneMessagePerStep
  <2> SUFFICES ASSUME NEW l \in Prospects PROVE Steps!Cardinality(step[l].talks) <= 1
    BY DEF Steps!OneMessagePerStep
  <2>1. CASE step[l].talks = {}
    BY <2>1, FS_EmptySet, SameSizes
  <2>2. CASE step[l].talks = {step[l].receipt}
    <3>1. Steps!Cardinality({step[l].receipt}) = 1
      BY FS_Singleton, SameSizes
    <3> QED BY <2>2, <3>1
  <2> QED BY <2>1, <2>2 DEF StepsInv, ReceiptIsMessage
<1>3. Steps!SilenceIsKept
  BY DEF StepsInv, Hush, Steps!SilenceIsKept
<1> QED BY <1>1, <1>2, <1>3 DEF StepsInv

------------------------------------------------------------------------------
\* ClickLookup: a run that is active is carried.
\* A lookup, its jobs and those at work on them.
LookupRow ==
  [state : Lookup!LookupStates, again : BOOLEAN, attempts : Nat, run : Nat, active : BOOLEAN,
   account : Accounts \cup {0}, outdated : BOOLEAN, job : Nat, answer : BOOLEAN]
LookupJobs == [run : Nat, id : Nat, attempt : Nat, deferred : 0..Deferrals]
LookerRow ==
  {Lookup!Asleep} \cup [busy : {TRUE}, stale : BOOLEAN, job : LookupJobs, usable : SUBSET Accounts, needed : BOOLEAN]

LookupTypes ==
  /\ usable \subseteq Accounts /\ needed \in BOOLEAN /\ erasedClick \in BOOLEAN
  /\ lookup \in LookupRow /\ lookupJobs \subseteq LookupJobs
  /\ lookers \in [Lookers -> LookerRow] /\ enriched \in {0, 1} /\ lookupTurns \in 0..MaxLookupTurns

\* No job is ahead of its lookup, which counts an attempt beyond the retries only
\* when it has ended.
JobsFollow ==
  /\ \A j \in lookupJobs : j.run <= lookup.run
  /\ lookup.active => lookup.run > 0 /\ lookup.attempts <= EmptyRetries
  /\ lookup.attempts <= EmptyRetries + 1

\* Who was answered is not asked for again.
AnsweredRests ==
  enriched = 1 => /\ ~lookup.active /\ lookup.run > 0
                  /\ erasedClick \/ lookup.state = "found"
AnswerTells ==
  /\ lookup.answer <=> (enriched = 1 /\ ~erasedClick)
  /\ lookup.answer => lookup.state = "found"

\* The job an active run knows, at its attempt, is queued.
Carries(j) == j.run = lookup.run /\ j.id = lookup.job /\ j.attempt = lookup.attempts
RunCarried == lookup.active => \E j \in lookupJobs : Carries(j)

LookupInv == LookupTypes /\ JobsFollow /\ AnsweredRests /\ AnswerTells /\ RunCarried

LEMMA LookupNumbers == EmptyRetries \in Nat /\ Deferrals \in Nat /\ MaxLookupTurns \in Nat
BY LookupBounds DEF Lookup!LookupConstants

LEMMA LookupStatesAre ==
  /\ "none" \in Lookup!LookupStates /\ "pending" \in Lookup!LookupStates /\ "waiting" \in Lookup!LookupStates
  /\ "found" \in Lookup!LookupStates /\ "no_match" \in Lookup!LookupStates /\ "ambiguous" \in Lookup!LookupStates
  /\ "blocked" \in Lookup!LookupStates /\ "stale" \in Lookup!LookupStates /\ "expired" \in Lookup!LookupStates
  /\ "error" \in Lookup!LookupStates
BY DEF Lookup!LookupStates

LEMMA LookupInitInv == Lookup!Init => LookupInv
<1> SUFFICES ASSUME Lookup!Init PROVE LookupInv
  OBVIOUS
<1>1. Lookup!NoLookup \in LookupRow
  BY LookupStatesAre DEF Lookup!NoLookup, LookupRow
<1>2. ~Lookup!NoLookup.active /\ ~Lookup!NoLookup.answer /\ Lookup!NoLookup.attempts = 0
  BY DEF Lookup!NoLookup
<1>3. lookers \in [Lookers -> LookerRow]
  BY DEF Lookup!Init, LookerRow
<1>4. LookupTypes
  <2>1. 0 \in 0..MaxLookupTurns
    BY LookupNumbers
  <2>2. needed \in BOOLEAN /\ erasedClick \in BOOLEAN /\ lookupTurns \in 0..MaxLookupTurns
    BY <2>1, Zenon DEF Lookup!Init
  <2>3. usable \subseteq Accounts /\ lookup \in LookupRow /\ lookupJobs \subseteq LookupJobs /\ enriched \in {0, 1}
    BY <1>1 DEF Lookup!Init
  <2> QED BY <1>3, <2>2, <2>3 DEF LookupTypes
<1> QED BY <1>2, <1>4, LookupNumbers
    DEF Lookup!Init, LookupInv, JobsFollow, AnsweredRests, AnswerTells, RunCarried

\* Whoever was at work starts over, or stays as it is.
LEMMA LookersTypes ==
  ASSUME LookupTypes
  PROVE  /\ Lookup!Outrun \in [Lookers -> LookerRow]
         /\ \A w : [Lookup!Outrun EXCEPT ![w] = Lookup!Asleep] \in [Lookers -> LookerRow]
         /\ \A w : [lookers EXCEPT ![w] = Lookup!Asleep] \in [Lookers -> LookerRow]
<1>1. \A x \in LookerRow : x.busy => [x EXCEPT !.stale = TRUE] \in LookerRow
  BY DEF LookerRow, Lookup!Asleep
<1>2. Lookup!Outrun \in [Lookers -> LookerRow]
  BY <1>1 DEF LookupTypes, Lookup!Outrun
<1> QED BY <1>2 DEF LookupTypes, LookerRow

\* A job at work knows a job, which is queued no longer only if others were.
LEMMA MineFacts ==
  ASSUME LookupInv, NEW w \in Lookers, Lookup!Mine(w)
  PROVE  /\ lookers[w].job \in LookupJobs /\ lookup.active /\ lookup.attempts <= EmptyRetries
         /\ lookers[w].job.run = lookup.run /\ lookers[w].job.id = lookup.job
         /\ lookers[w].job.attempt = lookup.attempts
         /\ enriched = 0 /\ lookup.run > 0 /\ ~lookup.answer
<1>1. lookers[w] \in LookerRow /\ lookers[w].busy
  BY DEF LookupInv, LookupTypes, Lookup!Mine
<1>2. lookers[w].job \in LookupJobs
  <2>1. ~Lookup!Asleep.busy
    BY DEF Lookup!Asleep
  <2> QED BY <1>1, <2>1 DEF LookerRow
<1>3. lookup.active /\ enriched \in {0, 1} /\ (enriched = 1 => ~lookup.active)
  BY DEF LookupInv, LookupTypes, AnsweredRests, Lookup!Mine
<1> QED BY <1>2, <1>3 DEF Lookup!Mine, LookupInv, JobsFollow, AnswerTells

\* A run that ends asks for nothing any more.
LEMMA LookerEndsKeeps ==
  ASSUME LookupInv, NEW w \in Lookers, Lookup!Mine(w), NEW state \in Lookup!LookupStates, NEW again \in BOOLEAN,
         Lookup!Ends(w, state, again)
  PROVE  LookupInv'
<1>1. /\ lookup \in LookupRow /\ lookup.run > 0 /\ enriched = 0 /\ ~lookup.answer
      /\ lookup.attempts \in Nat /\ lookup.attempts <= EmptyRetries
  BY MineFacts DEF LookupInv, LookupTypes, LookupRow
<1>2. /\ lookup' \in LookupRow /\ ~lookup'.active /\ lookup'.answer = lookup.answer
      /\ lookup'.run = lookup.run /\ lookup'.attempts = lookup.attempts
  BY <1>1 DEF Lookup!Ends, LookupRow
<1>3. lookupJobs' \subseteq lookupJobs /\ lookers' \in [Lookers -> LookerRow]
  BY LookersTypes DEF Lookup!Ends, Lookup!Done, LookupInv
<1>4. UNCHANGED <<usable, needed, erasedClick, enriched, lookupTurns>>
  BY DEF Lookup!Ends, Lookup!world
<1>5. LookupTypes'
  BY <1>2, <1>3, <1>4 DEF LookupInv, LookupTypes
<1>6. JobsFollow'
  BY <1>1, <1>2, <1>3, LookupNumbers DEF LookupInv, JobsFollow
<1> QED BY <1>1, <1>2, <1>4, <1>5, <1>6 DEF LookupInv, AnsweredRests, AnswerTells, RunCarried

\* A successor takes over what the job had to do.
LEMMA SuccessorKeeps ==
  ASSUME LookupInv, NEW w \in Lookers, Lookup!Mine(w), NEW record \in LookupRow, NEW attempt \in Nat,
         NEW deferred \in 0..Deferrals, attempt <= EmptyRetries,
         record.run = lookup.run, record.active, record.attempts = attempt, ~record.answer,
         Lookup!Successor(w, record, attempt, deferred)
  PROVE  LookupInv'
<1> DEFINE next == Lookup!LookupJob(lookup.run, lookup.job + 1, attempt, deferred)
<1>1. lookup \in LookupRow /\ lookup.run > 0 /\ enriched = 0 /\ lookup.run \in Nat /\ lookup.job \in Nat
  BY MineFacts DEF LookupInv, LookupTypes, LookupRow
<1>2. /\ next \in LookupJobs /\ next.run = lookup.run /\ next.id = lookup.job + 1
      /\ next.attempt = attempt
  BY <1>1 DEF Lookup!LookupJob, LookupJobs
<1>3. /\ lookup' \in LookupRow /\ lookup'.active /\ ~lookup'.answer
      /\ lookup'.run = lookup.run /\ lookup'.attempts = attempt /\ lookup'.job = lookup.job + 1
  BY <1>1 DEF Lookup!Successor, LookupRow
<1>4. next \in lookupJobs' /\ lookupJobs' \subseteq lookupJobs \cup {next}
  BY DEF Lookup!Successor
<1>5. lookers' \in [Lookers -> LookerRow] /\ UNCHANGED <<usable, needed, erasedClick, enriched, lookupTurns>>
  BY LookersTypes DEF Lookup!Successor, Lookup!world, LookupInv
<1> HIDE DEF next
<1>6. LookupTypes'
  BY <1>2, <1>3, <1>4, <1>5 DEF LookupInv, LookupTypes
<1>7. JobsFollow'
  <2>1. \A j \in lookupJobs' : j.run <= lookup'.run
    BY <1>1, <1>2, <1>3, <1>4 DEF LookupInv, JobsFollow
  <2> QED BY <2>1, <1>1, <1>3, LookupNumbers DEF JobsFollow
<1>8. RunCarried'
  BY <1>2, <1>3, <1>4 DEF RunCarried, Carries
<1> QED BY <1>1, <1>3, <1>5, <1>6, <1>7, <1>8 DEF LookupInv, AnsweredRests, AnswerTells

LEMMA DeferKeeps == ASSUME LookupInv, NEW w \in Lookers, Lookup!Defer(w) PROVE LookupInv'
<1>1. Lookup!Mine(w) /\ lookup \in LookupRow
  BY DEF Lookup!Defer, Lookup!Admitted, LookupInv, LookupTypes
<1>2. /\ lookers[w].job \in LookupJobs /\ lookers[w].job.attempt = lookup.attempts /\ ~lookup.answer
      /\ lookup.active /\ lookup.attempts <= EmptyRetries
  BY <1>1, MineFacts
<1>3. lookers[w].job.attempt \in Nat /\ lookers[w].job.deferred \in 0..Deferrals /\ lookup.state \in Lookup!LookupStates
  BY <1>1, <1>2 DEF LookupJobs, LookupRow
<1>4. CASE lookers[w].job.deferred < Deferrals
  <2>1. lookers[w].job.deferred + 1 \in 0..Deferrals
    BY <1>3, <1>4, LookupNumbers
  <2>2. Lookup!Successor(w, lookup, lookers[w].job.attempt, lookers[w].job.deferred + 1)
    BY <1>4 DEF Lookup!Defer
  <2> QED BY <1>1, <1>2, <1>3, <2>1, <2>2, SuccessorKeeps
<1>5. CASE ~(lookers[w].job.deferred < Deferrals)
  <2>1. Lookup!Ends(w, lookup.state, FALSE)
    BY <1>5 DEF Lookup!Defer
  <2> QED BY <1>1, <1>3, <2>1, LookerEndsKeeps
<1> QED BY <1>4, <1>5

LEMMA NoMatchKeeps == ASSUME LookupInv, NEW w \in Lookers, Lookup!NoMatch(w) PROVE LookupInv'
<1>1. Lookup!Mine(w) /\ lookup \in LookupRow
  BY DEF Lookup!NoMatch, Lookup!Admitted, LookupInv, LookupTypes
<1>2. lookup.active /\ ~lookup.answer /\ lookup.attempts \in Nat
  BY <1>1, MineFacts DEF LookupRow
<1>3. CASE Lookup!Counted <= EmptyRetries
  <2> DEFINE record == [lookup EXCEPT !.state = "waiting", !.attempts = Lookup!Counted]
  <2>0. Lookup!Counted \in Nat
    BY <1>2 DEF Lookup!Counted
  <2>1. record \in LookupRow /\ record.attempts = Lookup!Counted
    BY <1>1, <2>0, LookupStatesAre DEF LookupRow
  <2>4. record.run = lookup.run /\ record.active = lookup.active /\ record.answer = lookup.answer
    BY <1>1 DEF LookupRow
  <2>2. Lookup!Successor(w, record, Lookup!Counted, 0)
    BY <1>3 DEF Lookup!NoMatch
  <2>3. Lookup!Counted \in Nat /\ 0 \in 0..Deferrals
    BY <1>2, LookupNumbers DEF Lookup!Counted
  <2> HIDE DEF record
  <2> QED BY <1>1, <1>3, <2>1, <2>2, <2>3, <2>4, <1>2, SuccessorKeeps
<1>4. CASE ~(Lookup!Counted <= EmptyRetries)
  <2>1. Lookup!Ends(w, "no_match", FALSE)
    BY <1>4 DEF Lookup!NoMatch
  <2> QED BY <1>1, <2>1, LookerEndsKeeps DEF Lookup!LookupStates
<1> QED BY <1>3, <1>4

LEMMA MatchKeeps == ASSUME LookupInv, NEW w \in Lookers, Lookup!Match(w) PROVE LookupInv'
<1>1. Lookup!Mine(w) /\ ~erasedClick /\ lookup \in LookupRow
  BY DEF Lookup!Match, Lookup!Admitted, LookupInv, LookupTypes
<1>2. CASE Lookup!Ends(w, "blocked", FALSE)
  BY <1>1, <1>2, LookerEndsKeeps DEF Lookup!LookupStates
<1>3. CASE /\ lookup' = [lookup EXCEPT !.state = "found", !.active = FALSE, !.attempts = Lookup!Counted,
                          !.again = FALSE, !.answer = TRUE]
           /\ enriched' = enriched + 1
           /\ Lookup!Done(w)
           /\ UNCHANGED <<Lookup!world, lookupTurns>>
  <2>1. lookup.attempts \in Nat /\ lookup.attempts <= EmptyRetries /\ enriched = 0 /\ lookup.run > 0
    BY <1>1, MineFacts DEF LookupRow
  <2>0. Lookup!Counted \in Nat /\ Lookup!Counted = lookup.attempts + 1
    BY <2>1 DEF Lookup!Counted
  <2>a. /\ lookup' \in LookupRow /\ lookup'.state = "found"
        /\ lookup'.attempts = Lookup!Counted /\ lookup'.run = lookup.run
    BY <1>1, <1>3, <2>0, LookupStatesAre DEF LookupRow
  <2>b. lookup'.active = FALSE /\ lookup'.answer = TRUE
    BY <1>1, <1>3 DEF LookupRow
  <2>2. /\ lookup' \in LookupRow /\ lookup'.state = "found" /\ ~lookup'.active /\ lookup'.answer
        /\ lookup'.attempts = lookup.attempts + 1 /\ lookup'.run = lookup.run
    BY <2>0, <2>a, <2>b
  <2>3. lookupJobs' \subseteq lookupJobs /\ lookers' \in [Lookers -> LookerRow]
    BY <1>3, LookersTypes DEF Lookup!Done, LookupInv
  <2>4. enriched' = 1 /\ UNCHANGED <<usable, needed, erasedClick, lookupTurns>>
    BY <1>3, <2>1 DEF Lookup!world
  <2>5. LookupTypes'
    BY <2>2, <2>3, <2>4 DEF LookupInv, LookupTypes
  <2>6. JobsFollow'
    BY <2>1, <2>2, <2>3, LookupNumbers DEF LookupInv, JobsFollow
  <2> QED BY <1>1, <2>1, <2>2, <2>4, <2>5, <2>6 DEF LookupInv, AnsweredRests, AnswerTells, RunCarried
<1> QED BY <1>2, <1>3 DEF Lookup!Match

LEMMA RejectKeeps ==
  ASSUME LookupInv, NEW w \in Lookers, Lookup!Reject(w) \/ Lookup!Expire(w) \/ Lookup!Refuse(w)
  PROVE  LookupInv'
<1>1. Lookup!Mine(w) /\ lookup.state \in Lookup!LookupStates
  BY DEF Lookup!Reject, Lookup!Expire, Lookup!Refuse, Lookup!Admitted, LookupInv, LookupTypes, LookupRow
<1>2. \E state \in Lookup!LookupStates, again \in BOOLEAN : Lookup!Ends(w, state, again)
  BY <1>1 DEF Lookup!Reject, Lookup!Expire, Lookup!Refuse, Lookup!LookupStates
<1> QED BY <1>1, <1>2, LookerEndsKeeps

\* The job that is dropped is not the one the run knows.
LEMMA DropKeeps == ASSUME LookupInv, NEW w \in Lookers, Lookup!DropJob(w) PROVE LookupInv'
<1>1. ~Lookup!Mine(w) /\ lookers[w].busy /\ ~lookers[w].stale
  BY DEF Lookup!DropJob, Lookup!Superseded
<1>2. /\ lookupJobs' = lookupJobs \ {lookers[w].job} /\ lookers' \in [Lookers -> LookerRow]
      /\ UNCHANGED <<usable, needed, erasedClick, lookup, enriched, lookupTurns>>
  BY LookersTypes DEF Lookup!DropJob, Lookup!world, LookupInv
<1>3. RunCarried'
  BY <1>1, <1>2 DEF LookupInv, RunCarried, Carries, Lookup!Mine
<1> QED BY <1>2, <1>3 DEF LookupInv, LookupTypes, JobsFollow, AnsweredRests, AnswerTells

LEMMA TurnsStay ==
  ASSUME LookupTypes, Lookup!LookupTurn PROVE lookupTurns' \in 0..MaxLookupTurns
BY LookupNumbers DEF LookupTypes, Lookup!LookupTurn

LEMMA BeginLookupKeeps ==
  ASSUME LookupInv, NEW w \in Lookers, Lookup!BeginLookup(w) \/ Lookup!Restarts(w) PROVE LookupInv'
<1>1. UNCHANGED <<usable, needed, erasedClick, lookup, lookupJobs, enriched, lookupTurns>>
  BY DEF Lookup!BeginLookup, Lookup!Restarts, Lookup!world
<1>2. lookers' \in [Lookers -> LookerRow]
  <2>1. CASE Lookup!Restarts(w)
    BY <2>1, LookersTypes DEF Lookup!Restarts, LookupInv
  <2>2. CASE Lookup!BeginLookup(w)
    <3>1. PICK job \in lookupJobs :
            lookers' = [lookers EXCEPT ![w] =
              [busy |-> TRUE, stale |-> FALSE, job |-> job, usable |-> usable, needed |-> needed]]
      BY <2>2 DEF Lookup!BeginLookup
    <3> QED BY <3>1 DEF LookupInv, LookupTypes, LookerRow
  <2> QED BY <2>1, <2>2
<1> QED BY <1>1, <1>2
    DEF LookupInv, LookupTypes, JobsFollow, AnsweredRests, AnswerTells, RunCarried, Carries

\* What happens around a lookup gives it no answer and no attempt.
LEMMA AroundLookupKeeps ==
  ASSUME LookupInv, Lookup!Settle \/ Lookup!Erase \/ Lookup!EndRun \/ \E a \in Accounts : Lookup!SwitchAccount(a)
  PROVE  LookupInv'
<1> USE LookupNumbers
<1>0. lookup \in LookupRow /\ LookupTypes
  BY DEF LookupInv, LookupTypes
<1>1. CASE Lookup!Settle
  <2>1. UNCHANGED <<usable, erasedClick, lookup, lookupJobs, lookers, enriched>> /\ needed' \in BOOLEAN
    BY <1>1 DEF Lookup!Settle
  <2>2. lookupTurns' \in 0..MaxLookupTurns
    BY <1>0, <1>1, TurnsStay DEF Lookup!Settle
  <2> QED BY <2>1, <2>2
      DEF LookupInv, LookupTypes, JobsFollow, AnsweredRests, AnswerTells, RunCarried, Carries
<1>2. CASE Lookup!Erase
  <2>1. /\ UNCHANGED <<usable, needed, lookupJobs, enriched, lookupTurns>> /\ erasedClick' = TRUE
        /\ lookers' \in [Lookers -> LookerRow]
    BY <1>0, <1>2, LookersTypes DEF Lookup!Erase
  <2>2. /\ lookup' \in LookupRow /\ ~lookup'.answer
        /\ lookup'.run = lookup.run /\ lookup'.job = lookup.job /\ lookup'.active = lookup.active
        /\ lookup'.attempts = lookup.attempts
    <3>1. CASE lookup = Lookup!NoLookup
      <4>1. lookup' = lookup /\ ~Lookup!NoLookup.answer
        BY <1>2, <3>1 DEF Lookup!Erase, Lookup!NoLookup
      <4> QED BY <1>0, <3>1, <4>1
    <3>2. CASE lookup # Lookup!NoLookup
      <4>1. lookup' = [lookup EXCEPT !.state = "blocked", !.again = FALSE, !.answer = FALSE]
        BY <1>2, <3>2 DEF Lookup!Erase
      <4>2. /\ lookup' \in LookupRow /\ lookup'.run = lookup.run /\ lookup'.job = lookup.job
            /\ lookup'.attempts = lookup.attempts
        BY <1>0, <4>1, LookupStatesAre DEF LookupRow
      <4>3. lookup'.active = lookup.active /\ lookup'.answer = FALSE
        BY <1>0, <4>1 DEF LookupRow
      <4> QED BY <4>2, <4>3
    <3> QED BY <3>1, <3>2
  <2>3. LookupTypes'
    BY <2>1, <2>2 DEF LookupInv, LookupTypes
  <2> QED BY <2>1, <2>2, <2>3
      DEF LookupInv, JobsFollow, AnsweredRests, AnswerTells, RunCarried, Carries
<1>3. CASE Lookup!EndRun
  <2>1. /\ UNCHANGED <<usable, needed, erasedClick, lookupJobs, enriched>>
        /\ lookers' \in [Lookers -> LookerRow]
    BY <1>0, <1>3, LookersTypes DEF Lookup!EndRun, Lookup!world
  <2>2. /\ lookup' \in LookupRow /\ ~lookup'.active /\ lookup'.answer = lookup.answer
        /\ lookup'.run = lookup.run /\ lookup'.attempts = lookup.attempts /\ lookup'.state = lookup.state
    BY <1>0, <1>3 DEF Lookup!EndRun, LookupRow
  <2>3. LookupTypes'
    BY <1>0, <1>3, <2>1, <2>2, TurnsStay DEF Lookup!EndRun, LookupTypes
  <2> QED BY <2>1, <2>2, <2>3
      DEF LookupInv, JobsFollow, AnsweredRests, AnswerTells, RunCarried
<1>4. CASE \E a \in Accounts : Lookup!SwitchAccount(a)
  <2>1. PICK a \in Accounts : Lookup!SwitchAccount(a)
    BY <1>4
  <2>2. /\ UNCHANGED <<needed, erasedClick, lookupJobs, enriched>> /\ usable' \subseteq Accounts
        /\ lookers' \in [Lookers -> LookerRow]
    BY <1>0, <2>1, LookersTypes DEF Lookup!SwitchAccount, LookupTypes
  <2>3. /\ lookup' \in LookupRow /\ lookup'.answer = lookup.answer /\ lookup'.active = lookup.active
        /\ lookup'.run = lookup.run /\ lookup'.attempts = lookup.attempts /\ lookup'.state = lookup.state
        /\ lookup'.job = lookup.job
    BY <1>0, <2>1 DEF Lookup!SwitchAccount, LookupRow
  <2>4. LookupTypes'
    BY <1>0, <2>1, <2>2, <2>3, TurnsStay DEF Lookup!SwitchAccount, LookupTypes
  <2> QED BY <2>2, <2>3, <2>4
      DEF LookupInv, JobsFollow, AnsweredRests, AnswerTells, RunCarried, Carries
<1> QED BY <1>1, <1>2, <1>3, <1>4

LEMMA PlannedRow ==
  ASSUME NEW record \in LookupRow, NEW n \in Nat, n = record.run + 1,
         NEW a \in Accounts, a = CHOOSE b \in usable : TRUE
  PROVE  /\ Lookup!Planned(record) \in LookupRow /\ Lookup!Planned(record).run = n /\ Lookup!Planned(record).attempts = 0
         /\ Lookup!Planned(record).active = TRUE /\ Lookup!Planned(record).answer = record.answer
<1> DEFINE anew == [record EXCEPT !.attempts = 0, !.run = n, !.outdated = FALSE, !.account = a]
<1>1. anew \in LookupRow /\ anew.run = n /\ anew.attempts = 0
  BY DEF LookupRow
<1>2. anew.answer = record.answer
  BY DEF LookupRow
<1>3. Lookup!Planned(record) = [anew EXCEPT !.state = "pending", !.again = FALSE, !.active = TRUE]
  BY DEF Lookup!Planned, LookupRow
<1> HIDE DEF anew
<1>4. /\ Lookup!Planned(record) \in LookupRow /\ Lookup!Planned(record).run = n /\ Lookup!Planned(record).attempts = 0
  BY <1>1, <1>3, LookupStatesAre DEF LookupRow
<1>5. Lookup!Planned(record).active = TRUE /\ Lookup!Planned(record).answer = record.answer
  BY <1>1, <1>2, <1>3 DEF LookupRow
<1> QED BY <1>4, <1>5

\* A click that was answered gets no new plan.
LEMMA ScheduleKeeps == ASSUME LookupInv, NEW explicit, Lookup!Schedule(explicit) PROVE LookupInv'
<1> USE LookupNumbers
<1>1. /\ lookup \in LookupRow /\ LookupTypes /\ ~lookup.active /\ lookup.state # "found"
      /\ ~(erasedClick /\ lookup # Lookup!NoLookup)
  BY DEF LookupInv, LookupTypes, Lookup!Schedule, Lookup!Refused
<1>2. enriched = 0 /\ ~lookup.answer
  <2>1. lookup.run > 0 => lookup # Lookup!NoLookup
    BY DEF Lookup!NoLookup
  <2>2. enriched # 1
    BY <1>1, <2>1 DEF LookupInv, AnsweredRests
  <2> QED BY <2>2 DEF LookupInv, LookupTypes, AnswerTells
<1>3. /\ UNCHANGED <<usable, needed, erasedClick, enriched>> /\ lookers' \in [Lookers -> LookerRow]
      /\ lookupTurns' \in 0..MaxLookupTurns
  BY <1>1, LookersTypes, TurnsStay DEF Lookup!Schedule, Lookup!world
<1>4. CASE ~lookup'.active /\ lookupJobs' = lookupJobs
  <2>1. /\ lookup' \in LookupRow /\ ~lookup'.answer
        /\ lookup'.run = lookup.run /\ lookup'.attempts = lookup.attempts
    <3>1. CASE Lookup!Cardinality(usable) = 1
      <4>1. \/ Lookup!Queued(Lookup!Planned(lookup), 0, 0)
            \/ lookup' \in {[lookup EXCEPT !.state = "expired", !.again = FALSE],
                            [lookup EXCEPT !.state = "blocked", !.again = TRUE]}
        BY <3>1 DEF Lookup!Schedule
      <4>2. ~Lookup!Queued(Lookup!Planned(lookup), 0, 0)
        BY <1>1, <1>4 DEF Lookup!Queued, Lookup!Planned, LookupRow
      <4> QED BY <1>1, <1>2, <4>1, <4>2, LookupStatesAre DEF LookupRow
    <3>2. CASE Lookup!Cardinality(usable) # 1
      BY <1>1, <1>2, <3>2, LookupStatesAre DEF Lookup!Schedule, LookupRow
    <3> QED BY <3>1, <3>2
  <2>2. LookupTypes'
    BY <1>1, <1>3, <1>4, <2>1 DEF LookupTypes
  <2> QED BY <1>2, <1>3, <1>4, <2>1, <2>2 DEF LookupInv, JobsFollow, AnsweredRests, AnswerTells, RunCarried
<1>5. CASE Lookup!Queued(Lookup!Planned(lookup), 0, 0) /\ Lookup!Cardinality(usable) = 1
  <2> DEFINE next == Lookup!LookupJob(Lookup!Planned(lookup).run, lookup.job + 1, 0, 0)
  <2>1. (CHOOSE a \in usable : TRUE) \in Accounts
    BY <1>1, <1>5, FS_EmptySet, SameSizes DEF LookupTypes
  <2>0. lookup.run + 1 \in Nat
    BY <1>1 DEF LookupRow
  <2>2. /\ Lookup!Planned(lookup) \in LookupRow /\ Lookup!Planned(lookup).run = lookup.run + 1 /\ Lookup!Planned(lookup).active
        /\ Lookup!Planned(lookup).attempts = 0 /\ ~Lookup!Planned(lookup).answer
    BY <1>1, <1>2, <2>0, <2>1, PlannedRow
  <2>3. lookup.job \in Nat /\ lookup.run \in Nat /\ lookup.job + 1 \in Nat
    BY <1>1 DEF LookupRow
  <2>4. /\ lookup' \in LookupRow /\ lookup'.active /\ ~lookup'.answer
        /\ lookup'.run = lookup.run + 1 /\ lookup'.attempts = 0 /\ lookup'.job = lookup.job + 1
    BY <1>5, <2>2, <2>3 DEF Lookup!Queued, LookupRow
  <2>5. lookupJobs' = lookupJobs \cup {next}
    BY <1>5 DEF Lookup!Queued
  <2>6. next \in LookupJobs /\ next.run = lookup.run + 1 /\ next.id = lookup.job + 1 /\ next.attempt = 0
    BY <2>2, <2>3 DEF Lookup!LookupJob, LookupJobs
  <2> HIDE DEF next
  <2>7. LookupTypes'
    BY <1>1, <1>3, <2>4, <2>5, <2>6 DEF LookupTypes
  <2>8. JobsFollow'
    <3>1. \A j \in lookupJobs : j.run \in Nat /\ j.run <= lookup.run
      BY DEF LookupInv, LookupTypes, LookupJobs, JobsFollow
    <3>2. \A j \in lookupJobs' : j.run <= lookup'.run
      BY <2>3, <2>4, <2>5, <2>6, <3>1
    <3> QED BY <2>3, <2>4, <3>2 DEF JobsFollow
  <2>9. RunCarried'
    BY <2>4, <2>5, <2>6 DEF RunCarried, Carries
  <2> QED BY <1>2, <1>3, <2>4, <2>7, <2>8, <2>9 DEF LookupInv, AnsweredRests, AnswerTells
<1>6. \/ Lookup!Queued(Lookup!Planned(lookup), 0, 0) /\ Lookup!Cardinality(usable) = 1
      \/ ~lookup'.active /\ lookupJobs' = lookupJobs
  BY <1>1 DEF Lookup!Schedule, LookupRow
<1> QED BY <1>4, <1>5, <1>6

\* Every step of a lookup keeps its invariant.
LEMMA LookupNextInv == LookupInv /\ [Lookup!Next]_Lookup!vars => LookupInv'
<1> SUFFICES ASSUME LookupInv, [Lookup!Next]_Lookup!vars PROVE LookupInv'
  OBVIOUS
<1>1. CASE UNCHANGED Lookup!vars
  <2>1. UNCHANGED <<usable, needed, erasedClick, lookup, lookupJobs, lookers, enriched, lookupTurns>>
    BY <1>1 DEF Lookup!vars
  <2> QED BY <2>1
      DEF LookupInv, LookupTypes, JobsFollow, AnsweredRests, AnswerTells, RunCarried, Carries
<1>2. CASE Lookup!Next
  BY <1>2, ScheduleKeeps, AroundLookupKeeps, BeginLookupKeeps, DropKeeps, RejectKeeps, DeferKeeps,
     NoMatchKeeps, MatchKeeps DEF Lookup!Next
<1> QED BY <1>1, <1>2

\* What the invariant says of the click and its run.
LEMMA LookupGives == LookupInv => Lookup!LookupTypeOK /\ Lookup!AnsweredOnce /\ Lookup!RunIsCarried
<1> SUFFICES ASSUME LookupInv PROVE Lookup!LookupTypeOK /\ Lookup!AnsweredOnce /\ Lookup!RunIsCarried
  OBVIOUS
<1>1. lookup \in LookupRow /\ lookupJobs \subseteq LookupJobs
  BY DEF LookupInv, LookupTypes
<1>2. Lookup!LookupTypeOK
  <2>1. lookup.attempts \in 0..(EmptyRetries + 1)
    BY <1>1, LookupNumbers DEF LookupRow, LookupInv, JobsFollow
  <2> QED BY <1>1, <2>1 DEF LookupInv, LookupTypes, LookupRow, LookupJobs, JobsFollow, Lookup!LookupTypeOK
<1>3. Lookup!AnsweredOnce
  BY DEF LookupInv, LookupTypes, AnswerTells, Lookup!AnsweredOnce
<1>4. Lookup!RunIsCarried
  <2> SUFFICES ASSUME lookup.active
               PROVE  Lookup!LookupJob(lookup.run, lookup.job, lookup.attempts, 0)
                        \in {[j EXCEPT !.deferred = 0] : j \in lookupJobs}
    BY DEF Lookup!RunIsCarried
  <2>1. PICK j \in lookupJobs : Carries(j)
    BY DEF LookupInv, RunCarried
  <2>2. [j EXCEPT !.deferred = 0] = Lookup!LookupJob(lookup.run, lookup.job, lookup.attempts, 0)
    BY <1>1, <2>1 DEF LookupJobs, Carries, Lookup!LookupJob
  <2> QED BY <2>2
<1> QED BY <1>2, <1>3, <1>4

------------------------------------------------------------------------------
\* LeadAdmission: what a job has found stays true until it ends.
Verdicts == {"rest", "over", "hold", "void", "skip", "create", "reuse", "review"}
EntryRow ==
  [state : {"none", "pending", "failed", "skipped", "review", "done", "dismissed"},
   phone : Admit!Phones, origin : Admit!Origins, key : {"none", "kept", "erased"}, cohort : BOOLEAN,
   target : SUBSET Admit!Entries, offered : SUBSET Admit!Entries,
   by : {"nobody", "guarded", "bypassed", "unguarded", "human"}, held : BOOLEAN,
   uuid : {"none", "current", "ended"}, made : {0, 1}]
ViewRow == [does : Verdicts, lead : SUBSET Admit!Entries, offers : SUBSET Admit!Entries]
Handled == {"none", "open", "manual", "closed", "deleted"}

QueueTypes ==
  /\ admitJobs \in [Submissions -> {"none", "waiting", "started", "failed"}]
  /\ views \in [Submissions -> ViewRow]
  /\ \A s \in Submissions : views[s] # Admit!NoView <=> admitJobs[s] = "started"
  /\ enqueues \in [Submissions -> {"rest", "adopts", "asks"}]
AdmitTypes ==
  /\ entry \in [Admit!Entries -> EntryRow] /\ business \in [Admit!Entries -> Handled]
  /\ guarded \in BOOLEAN /\ accepts \in BOOLEAN /\ QueueTypes

\* An entry has a target when it is done, its own business when it made one, and
\* is held only while it waits.
RowTells(e) ==
  /\ entry[e].state = "done" <=> entry[e].target # {}
  /\ entry[e].made = 1 <=> entry[e].target = {e}
  /\ business[e] # "none" <=> entry[e].made = 1
  /\ entry[e].held => entry[e].state = "pending" /\ e \in Submissions
  /\ entry[e].by # "bypassed"
RowsTell == \A e \in Admit!Entries : RowTells(e)

\* Only an entry that is not decided is enqueued.
Retriable == {"pending", "failed", "skipped"}
QueueTells ==
  \A s \in Submissions :
    /\ admitJobs[s] # "none" => entry[s].state # "none"
    /\ enqueues[s] # "rest" => entry[s].state \in Retriable

\* What a job found when it began holds until it ends: nobody it may be compared
\* with was admitted since under the protection, and the business it is to reuse
\* was made.
Unmatched(e) == \A f \in Admit!Entries \ {e} : entry[f].key = "kept" => ~Admit!Alike(e, f)
ViewTells(s) ==
  LET does == views[s].does IN
  /\ does = "over" => entry[s].state \in Admit!Decided
  /\ does \in {"void", "hold"} => entry[s].state \in Retriable
  /\ does = "void" => ~Admit!Claimed(s)
  /\ does \in {"skip", "create", "reuse", "review"} => Admit!Claimed(s) /\ ~Admit!Barred(s)
  /\ does = "create" /\ guarded => Unmatched(s)
  /\ does = "reuse" => \E l \in Admit!Entries : views[s].lead = {l} /\ business[l] # "none"
ViewsTell == \A s \in Submissions : ViewTells(s)

AdmitInv ==
  AdmitTypes /\ RowsTell /\ QueueTells /\ ViewsTell /\ Admit!OneDemandOneLead /\ Admit!Carried

LEMMA AdmitNumbers ==
  /\ Submissions \cap Intakes = {} /\ Admit!Entries = Submissions \cup Intakes
  /\ \A a \in Arrivals : a.phone \in Admit!Phones /\ a.origin \in Admit!Origins
BY AdmitBounds DEF Admit!AdmissionConstants, Admit!Entries

LEMMA NoEntryRow ==
  /\ Admit!NoEntry \in EntryRow /\ Admit!NoEntry.state = "none" /\ Admit!NoEntry.made = 0 /\ Admit!NoEntry.target = {}
  /\ Admit!NoEntry.key = "none" /\ Admit!NoEntry.uuid = "none" /\ Admit!NoEntry.by = "nobody" /\ Admit!NoEntry.held = FALSE
BY DEF Admit!NoEntry, EntryRow, Admit!Phones, Admit!Origins

LEMMA NoViewRow == Admit!NoView \in ViewRow /\ Admit!NoView.does = "rest"
BY DEF Admit!NoView, ViewRow, Verdicts

LEMMA AdmitInitInv == Admit!Init => AdmitInv
<1> SUFFICES ASSUME Admit!Init PROVE AdmitInv
  OBVIOUS
<1> USE NoEntryRow, NoViewRow, AdmitNumbers
<1>1. /\ entry \in [Admit!Entries -> EntryRow] /\ \A e \in Admit!Entries : entry[e] = Admit!NoEntry
      /\ \A e \in Admit!Entries : business[e] = "none"
      /\ \A s \in Submissions : views[s] = Admit!NoView /\ admitJobs[s] = "none" /\ enqueues[s] = "rest"
  BY DEF Admit!Init
<1>2. AdmitTypes
  <2>1. business \in [Admit!Entries -> Handled] /\ guarded \in BOOLEAN /\ accepts \in BOOLEAN
    BY DEF Admit!Init, Handled
  <2>2. QueueTypes
    BY DEF Admit!Init, QueueTypes
  <2> QED BY <1>1, <2>1, <2>2 DEF AdmitTypes
<1>3. RowsTell
  BY <1>1 DEF RowsTell, RowTells
<1>4. QueueTells /\ ViewsTell /\ Admit!Carried
  BY <1>1 DEF QueueTells, ViewsTell, ViewTells, Admit!Carried
<1>5. Admit!OneDemandOneLead
  BY <1>1 DEF Admit!OneDemandOneLead
<1> QED BY <1>2, <1>3, <1>4, <1>5 DEF AdmitInv

\* --- What the invariant says of single rows.
LEMMA AlikeIsMutual ==
  \A e, f : Admit!Alike(e, f) <=> Admit!Alike(f, e)
BY DEF Admit!Alike, Admit!Weak

LEMMA RowFacts ==
  ASSUME AdmitInv, NEW e \in Admit!Entries
  PROVE  /\ entry[e] \in EntryRow /\ RowTells(e) /\ entry[e].made \in {0, 1}
         /\ entry[e].state # "done" => entry[e].made = 0 /\ business[e] = "none" /\ entry[e].target = {}
<1>1. entry[e] \in EntryRow /\ RowTells(e)
  BY DEF AdmitInv, AdmitTypes, RowsTell
<1> QED BY <1>1 DEF RowTells, EntryRow

\* A view stands for its job as long as the rows it was made of do.
Standing(s) ==
  /\ views'[s] = views[s] /\ guarded' = guarded
  /\ entry'[s].state = entry[s].state /\ entry'[s].uuid = entry[s].uuid
  /\ entry'[s].held = entry[s].held /\ entry'[s].phone = entry[s].phone
  /\ \A f \in Admit!Entries : entry'[f].key = "kept" => entry[f].key = "kept" /\ entry'[f].phone = entry[f].phone
BusinessStays == \A l \in Admit!Entries : business[l] # "none" => business'[l] # "none"

LEMMA ViewsKeep ==
  ASSUME AdmitInv, BusinessStays, \A s \in Submissions : views'[s] = Admit!NoView \/ Standing(s)
  PROVE  ViewsTell'
<1> SUFFICES ASSUME NEW s \in Submissions PROVE ViewTells(s)'
  BY DEF ViewsTell
<1>1. CASE views'[s] = Admit!NoView
  BY <1>1, NoViewRow DEF ViewTells
<1>2. CASE Standing(s)
  <2>1. ViewTells(s)
    BY DEF AdmitInv, ViewsTell
  <2>2. (Admit!Claimed(s) <=> Admit!Claimed(s)') /\ (Admit!Barred(s) <=> Admit!Barred(s)')
    BY <1>2 DEF Standing, Admit!Claimed, Admit!Barred
  <2>3. Unmatched(s) => Unmatched(s)'
    BY <1>2 DEF Standing, Unmatched, Admit!Alike, Admit!Weak
  <2>4. /\ views'[s] = views[s] /\ entry'[s].state = entry[s].state /\ guarded' = guarded
    BY <1>2 DEF Standing
  <2> QED BY <2>1, <2>2, <2>3, <2>4 DEF ViewTells, BusinessStays
<1> QED BY <1>1, <1>2

\* One entry x is written; every other one is as before.
\* What is written of x is in order, and x is either marked as it was, has made
\* nothing, or resembles nobody.
Marked(row) == row.by = "guarded" /\ row.key = "kept"
InOrder(x, row) ==
  /\ row \in EntryRow
  /\ row.state = "done" <=> row.target # {}
  /\ row.made = 1 <=> row.target = {x}
  /\ business'[x] # "none" <=> row.made = 1
  /\ row.held => row.state = "pending" /\ x \in Submissions
  /\ row.by # "bypassed"
  /\ Marked(row) =>
       \/ Marked(entry[x]) /\ row.phone = entry[x].phone /\ row.made = entry[x].made
       \/ row.made = 0
       \/ row.phone = entry[x].phone /\ Unmatched(x)
Writes(x, row) ==
  /\ entry' = [entry EXCEPT ![x] = row]
  /\ guarded' = guarded
  /\ business' \in [Admit!Entries -> Handled]
  /\ \A l \in Admit!Entries \ {x} : business'[l] # "none" <=> business[l] # "none"
  /\ business[x] # "none" => business'[x] # "none"
  /\ row.key = "kept" =>
       \/ entry[x].key = "kept" /\ row.phone = entry[x].phone
       \/ \A s \in Submissions : views'[s] = Admit!NoView
\* Of the jobs, that of x alone changes what it stands for.
Requeues(x, row) ==
  /\ QueueTypes' /\ accepts' \in BOOLEAN
  /\ \A s \in Submissions : views'[s] = Admit!NoView \/ (s # x /\ views'[s] = views[s])
  /\ \A s \in Submissions \ {x} :
       /\ admitJobs'[s] = "none" <=> admitJobs[s] = "none"
       /\ enqueues'[s] = enqueues[s]
  /\ x \in Submissions =>
       /\ admitJobs'[x] # "none" => row.state # "none"
       /\ enqueues'[x] # "rest" => row.state \in Retriable
       /\ row.state = "pending" /\ ~row.held =>
            (row.uuid = "current" /\ admitJobs'[x] # "none") \/ row.uuid = "ended"

LEMMA WriteKeeps ==
  ASSUME AdmitInv, NEW x \in Admit!Entries, NEW row, InOrder(x, row), Writes(x, row), Requeues(x, row)
  PROVE  AdmitInv'
<1>1. /\ entry' \in [Admit!Entries -> EntryRow] /\ entry'[x] = row
      /\ \A e \in Admit!Entries \ {x} : entry'[e] = entry[e]
  BY DEF AdmitInv, AdmitTypes, InOrder, Writes
<1>2. AdmitTypes'
  <2>1. guarded' \in BOOLEAN
    BY DEF AdmitInv, AdmitTypes, Writes
  <2> QED BY <1>1, <2>1 DEF AdmitTypes, Writes, Requeues
<1>3. RowsTell'
  <2> SUFFICES ASSUME NEW e \in Admit!Entries PROVE RowTells(e)'
    BY DEF RowsTell
  <2>1. CASE e = x
    BY <1>1, <2>1 DEF InOrder, RowTells
  <2>2. CASE e # x
    <3>1. RowTells(e)
      BY RowFacts
    <3>2. entry'[e] = entry[e] /\ (business'[e] # "none" <=> business[e] # "none")
      BY <1>1, <2>2 DEF Writes
    <3> QED BY <3>1, <3>2 DEF RowTells
  <2> QED BY <2>1, <2>2
<1>4. Submissions \subseteq Admit!Entries
  BY AdmitNumbers
<1>5. QueueTells'
  <2> SUFFICES ASSUME NEW s \in Submissions
               PROVE  /\ admitJobs'[s] # "none" => entry'[s].state # "none"
                      /\ enqueues'[s] # "rest" => entry'[s].state \in Retriable
    BY DEF QueueTells
  <2>1. CASE s = x
    BY <1>1, <2>1 DEF Requeues
  <2>2. CASE s # x
    BY <1>1, <1>4, <2>2 DEF Requeues, AdmitInv, QueueTells
  <2> QED BY <2>1, <2>2
<1>6. ViewsTell'
  <2>1. BusinessStays
    BY DEF BusinessStays, Writes
  <2>2. ASSUME NEW s \in Submissions, views'[s] # Admit!NoView PROVE Standing(s)
    <3>1. s # x /\ views'[s] = views[s] /\ guarded' = guarded /\ entry'[s] = entry[s]
      BY <1>1, <1>4, <2>2 DEF Requeues, Writes
    <3>2. row.key = "kept" => entry[x].key = "kept" /\ row.phone = entry[x].phone
      BY <2>2 DEF Writes
    <3>3. \A f \in Admit!Entries :
            entry'[f].key = "kept" => entry[f].key = "kept" /\ entry'[f].phone = entry[f].phone
      BY <1>1, <3>2
    <3> QED BY <3>1, <3>3 DEF Standing
  <2> QED BY <2>1, <2>2, ViewsKeep
<1>7. Admit!Carried'
  <2> SUFFICES ASSUME NEW s \in Submissions, entry'[s].state = "pending", ~entry'[s].held
               PROVE  \/ entry'[s].uuid = "current" /\ admitJobs'[s] # "none"
                      \/ entry'[s].uuid = "ended"
    BY DEF Admit!Carried
  <2>1. CASE s = x
    BY <1>1, <2>1 DEF Requeues
  <2>2. CASE s # x
    BY <1>1, <1>4, <2>2 DEF Requeues, AdmitInv, Admit!Carried
  <2> QED BY <2>1, <2>2
<1>8. Admit!OneDemandOneLead'
  <2>1. \A e \in Admit!Entries : entry[e].made \in {0, 1} /\ entry'[e].made \in {0, 1}
    BY <1>1 DEF AdmitInv, AdmitTypes, EntryRow
  <2>2. ASSUME NEW f \in Admit!Entries, f # x, Admit!Alike(x, f)', Marked(row), Marked(entry[f])
        PROVE  row.made + entry[f].made < 2
    <3>1. CASE Marked(entry[x]) /\ row.phone = entry[x].phone /\ row.made = entry[x].made
      <4>1. Admit!Alike(x, f)
        BY <1>1, <2>2, <3>1 DEF Admit!Alike, Admit!Weak
      <4> QED BY <2>2, <3>1, <4>1 DEF AdmitInv, Admit!OneDemandOneLead, Marked
    <3>2. CASE row.made = 0
      BY <2>1, <3>2
    <3>3. CASE row.phone = entry[x].phone /\ Unmatched(x)
      <4>1. Admit!Alike(x, f)
        BY <1>1, <2>2, <3>3 DEF Admit!Alike, Admit!Weak
      <4> QED BY <2>2, <3>3, <4>1 DEF Unmatched, Marked
    <3> QED BY <2>2, <3>1, <3>2, <3>3 DEF InOrder
  <2> SUFFICES ASSUME NEW e \in Admit!Entries, NEW f \in Admit!Entries, e # f, Admit!Alike(e, f)',
                      Marked(entry'[e]), Marked(entry'[f])
               PROVE  entry'[e].made + entry'[f].made < 2
    BY DEF Admit!OneDemandOneLead, Marked
  <2>3. CASE e = x
    BY <1>1, <2>2, <2>3
  <2>4. CASE f = x
    <3>1. Admit!Alike(f, e)'
      BY DEF Admit!Alike, Admit!Weak
    <3>2. row.made + entry[e].made < 2
      BY <1>1, <2>2, <2>4, <3>1
    <3> QED BY <1>1, <2>1, <2>4, <3>2
  <2>5. CASE e # x /\ f # x
    <3>1. entry'[e] = entry[e] /\ entry'[f] = entry[f]
      BY <1>1, <2>5
    <3>2. Admit!Alike(e, f)
      BY <3>1 DEF Admit!Alike, Admit!Weak
    <3> QED BY <3>1, <3>2 DEF AdmitInv, Admit!OneDemandOneLead, Marked
  <2> QED BY <2>3, <2>4, <2>5
<1> QED BY <1>2, <1>3, <1>5, <1>6, <1>7, <1>8 DEF AdmitInv

\* A step that writes no entry.
LEMMA MoveKeeps ==
  ASSUME AdmitInv, QueueTypes', UNCHANGED <<entry, guarded, accepts>>,
         business' \in [Admit!Entries -> Handled],
         \A l \in Admit!Entries : business'[l] # "none" <=> business[l] # "none",
         \A s \in Submissions :
           /\ admitJobs'[s] # "none" => entry[s].state # "none"
           /\ enqueues'[s] # "rest" => entry[s].state \in Retriable
           /\ views'[s] = Admit!NoView \/ views'[s] = views[s] \/ ViewTells(s)'
           /\ entry[s].state = "pending" /\ ~entry[s].held =>
                (entry[s].uuid = "current" /\ admitJobs'[s] # "none") \/ entry[s].uuid = "ended"
  PROVE  AdmitInv'
<1>1. AdmitTypes'
  BY DEF AdmitInv, AdmitTypes
<1>2. RowsTell'
  BY DEF AdmitInv, RowsTell, RowTells
<1>3. QueueTells' /\ Admit!Carried'
  BY DEF QueueTells, Admit!Carried
<1>4. Admit!OneDemandOneLead'
  BY DEF AdmitInv, Admit!OneDemandOneLead, Admit!Alike, Admit!Weak
<1>5. ViewsTell'
  <2> SUFFICES ASSUME NEW s \in Submissions, ~ViewTells(s)' PROVE FALSE
    BY DEF ViewsTell
  <2>1. CASE views'[s] = Admit!NoView
    BY <2>1, NoViewRow DEF ViewTells
  <2>2. CASE views'[s] = views[s]
    BY <2>2 DEF AdmitInv, ViewsTell, ViewTells, Admit!Claimed, Admit!Barred, Unmatched, Admit!Alike, Admit!Weak
  <2> QED BY <2>1, <2>2
<1> QED BY <1>1, <1>2, <1>3, <1>4, <1>5 DEF AdmitInv

\* Who is put back starts again; who is not stays.
LEMMA DoomQueue ==
  ASSUME QueueTypes, NEW runs, NEW puts, Admit!Doom(runs, puts)
  PROVE  /\ QueueTypes'
         /\ \A s \in Submissions :
              /\ views'[s] = Admit!NoView \/ views'[s] = views[s]
              /\ s \in runs => views'[s] = Admit!NoView
              /\ admitJobs'[s] = "none" <=> admitJobs[s] = "none"
              /\ enqueues'[s] = IF s \in puts THEN "rest" ELSE enqueues[s]
<1>1. /\ admitJobs' \in [Submissions -> {"none", "waiting", "started", "failed"}]
      /\ views' \in [Submissions -> ViewRow] /\ enqueues' \in [Submissions -> {"rest", "adopts", "asks"}]
  BY NoViewRow DEF QueueTypes, Admit!Doom
<1>2. \A s \in Submissions : views'[s] # Admit!NoView <=> admitJobs'[s] = "started"
  BY DEF QueueTypes, Admit!Doom
<1> QED BY <1>1, <1>2 DEF QueueTypes, Admit!Doom

\* Everybody at work is put back.
LEMMA GateQueue ==
  ASSUME QueueTypes, NEW puts, Admit!Doom(Admit!GateRuns, puts)
  PROVE  \A s \in Submissions : views'[s] = Admit!NoView
<1> SUFFICES ASSUME NEW s \in Submissions PROVE views'[s] = Admit!NoView
  OBVIOUS
<1>1. s \notin Admit!GateRuns => views[s] = Admit!NoView
  BY DEF QueueTypes, Admit!GateRuns
<1> QED BY <1>1, DoomQueue

LEMMA EndQueue ==
  ASSUME QueueTypes, NEW s \in Submissions, NEW state \in {"none", "failed"}, Admit!Ends(s, state),
         enqueues' = enqueues \/ enqueues' = [enqueues EXCEPT ![s] = "rest"]
  PROVE  /\ QueueTypes' /\ views'[s] = Admit!NoView /\ admitJobs'[s] = state
         /\ \A t \in Submissions \ {s} :
              views'[t] = views[t] /\ admitJobs'[t] = admitJobs[t] /\ enqueues'[t] = enqueues[t]
<1>1. /\ admitJobs' \in [Submissions -> {"none", "waiting", "started", "failed"}]
      /\ views' \in [Submissions -> ViewRow] /\ enqueues' \in [Submissions -> {"rest", "adopts", "asks"}]
  BY NoViewRow DEF QueueTypes, Admit!Ends
<1>2. \A t \in Submissions : views'[t] # Admit!NoView <=> admitJobs'[t] = "started"
  BY DEF QueueTypes, Admit!Ends
<1> QED BY <1>1, <1>2 DEF QueueTypes, Admit!Ends

\* What a job that is not over knows of its entry.
LEMMA ViewFacts ==
  ASSUME AdmitInv, NEW s \in Submissions
  PROVE  /\ QueueTypes /\ s \in Admit!Entries /\ views[s] \in ViewRow /\ ViewTells(s)
         /\ views[s].does # "rest" => admitJobs[s] = "started"
         /\ views[s].does \notin {"rest", "over"} => entry[s].state \in Retriable
<1>1. QueueTypes /\ s \in Admit!Entries /\ ViewTells(s)
  BY AdmitNumbers DEF AdmitInv, AdmitTypes, ViewsTell
<1>2. views[s] \in ViewRow /\ (views[s].does # "rest" => admitJobs[s] = "started")
  BY <1>1, NoViewRow DEF QueueTypes
<1>3. views[s].does \notin {"rest", "over"} => entry[s].state \in Retriable
  BY <1>1, <1>2 DEF ViewTells, ViewRow, Verdicts, Admit!Claimed, Retriable
<1> QED BY <1>1, <1>2, <1>3

\* An undecided entry that is only put aside.
PutAside(x, row) ==
  /\ row \in EntryRow /\ row.state # "done"
  /\ row.phone = entry[x].phone /\ row.key = entry[x].key
  /\ row.by \in {entry[x].by, "human"}
  /\ row.made = entry[x].made /\ row.target = entry[x].target
  /\ row.held => row.state = "pending" /\ x \in Submissions
LEMMA PutAsideIsInOrder ==
  ASSUME AdmitInv, NEW x \in Admit!Entries, NEW row, PutAside(x, row), entry[x].state # "done",
         UNCHANGED <<business, guarded>>, entry' = [entry EXCEPT ![x] = row]
  PROVE  InOrder(x, row) /\ Writes(x, row)
<1>1. entry[x] \in EntryRow /\ RowTells(x) /\ entry[x].made = 0 /\ business[x] = "none" /\ entry[x].target = {}
  BY RowFacts
<1>2. business \in [Admit!Entries -> Handled]
  BY DEF AdmitInv, AdmitTypes
<1> QED BY <1>1, <1>2 DEF PutAside, InOrder, Writes, RowTells

LEMMA SettleKeeps ==
  ASSUME AdmitInv, NEW s \in Submissions, NEW row, PutAside(s, row),
         row.state \in {"skipped", "failed"} \/ (row.state = "pending" /\ row.held),
         entry[s].state \in Retriable, Admit!Settles(s, row, "none"),
         UNCHANGED <<business, guarded, accepts>>
  PROVE  AdmitInv'
<1>1. QueueTypes /\ s \in Admit!Entries /\ accepts \in BOOLEAN
  BY ViewFacts DEF AdmitInv, AdmitTypes
<1>2. InOrder(s, row) /\ Writes(s, row)
  BY <1>1, PutAsideIsInOrder DEF Admit!Settles, Retriable
<1>3. /\ QueueTypes' /\ views'[s] = Admit!NoView /\ admitJobs'[s] = "none"
      /\ \A t \in Submissions \ {s} :
           views'[t] = views[t] /\ admitJobs'[t] = admitJobs[t] /\ enqueues'[t] = enqueues[t]
  BY <1>1, EndQueue DEF Admit!Settles
<1>4. enqueues'[s] = "rest"
  BY <1>1 DEF Admit!Settles, QueueTypes
<1>5. Requeues(s, row)
  BY <1>1, <1>3, <1>4 DEF Requeues
<1> QED BY <1>1, <1>2, <1>5, WriteKeeps

LEMMA SkipKeeps ==
  ASSUME AdmitInv, NEW s \in Submissions, Admit!Skip(s) \/ Admit!Reject(s) \/ Admit!Hold(s) PROVE AdmitInv'
<1>1. s \in Admit!Entries /\ entry[s] \in EntryRow /\ entry[s].state \in Retriable
  BY ViewFacts, RowFacts DEF Admit!Skip, Admit!Reject, Admit!Hold
<1>2. CASE Admit!Skip(s)
  <2> DEFINE row == Admit!Skipped([entry[s] EXCEPT !.held = FALSE])
  <2>1. PutAside(s, row) /\ row.state = "skipped"
    BY <1>1 DEF PutAside, Admit!Skipped, EntryRow
  <2>2. Admit!Settles(s, row, "none") /\ UNCHANGED <<business, guarded, accepts>>
    BY <1>2 DEF Admit!Skip
  <2> QED BY <1>1, <2>1, <2>2, SettleKeeps
<1>3. CASE Admit!Reject(s)
  <2>1. PutAside(s, Admit!Failed(entry[s])) /\ Admit!Failed(entry[s]).state = "failed"
    BY <1>1 DEF PutAside, Admit!Failed, EntryRow
  <2>2. Admit!Settles(s, Admit!Failed(entry[s]), "none") /\ UNCHANGED <<business, guarded, accepts>>
    BY <1>3 DEF Admit!Reject
  <2> QED BY <1>1, <2>1, <2>2, SettleKeeps
<1>4. CASE Admit!Hold(s)
  <2>1. PutAside(s, Admit!Held(entry[s])) /\ Admit!Held(entry[s]).state = "pending" /\ Admit!Held(entry[s]).held
    BY <1>1 DEF PutAside, Admit!Held, EntryRow
  <2>2. Admit!Settles(s, Admit!Held(entry[s]), "none") /\ UNCHANGED <<business, guarded, accepts>>
    BY <1>4 DEF Admit!Hold
  <2> QED BY <1>1, <2>1, <2>2, SettleKeeps
<1> QED BY <1>2, <1>3, <1>4

\* A job that has nothing to do, fails, or begins.
LEMMA EndsKeeps ==
  ASSUME AdmitInv, NEW s \in Submissions, Admit!EndsNothing(s) \/ Admit!Crash(s) PROVE AdmitInv'
<1>1. QueueTypes /\ s \in Admit!Entries /\ ViewTells(s) /\ business \in [Admit!Entries -> Handled]
  BY ViewFacts DEF AdmitInv, AdmitTypes
<1>2. UNCHANGED <<entry, enqueues, business, guarded, accepts>>
  BY DEF Admit!EndsNothing, Admit!Crash
<1>3. PICK state \in {"none", "failed"} :
        Admit!Ends(s, state) /\ (state = "none" => views[s].does \in {"over", "void"})
  BY DEF Admit!EndsNothing, Admit!Crash
<1>4. /\ QueueTypes' /\ views'[s] = Admit!NoView /\ admitJobs'[s] = state
      /\ \A t \in Submissions \ {s} : views'[t] = views[t] /\ admitJobs'[t] = admitJobs[t]
  BY <1>1, <1>2, <1>3, EndQueue
<1>5. entry[s].state # "none"
  BY <1>3, ViewFacts DEF AdmitInv, QueueTells, Admit!EndsNothing, Admit!Crash
<1>6. ASSUME NEW t \in Submissions
      PROVE  /\ admitJobs'[t] # "none" => entry[t].state # "none"
             /\ enqueues'[t] # "rest" => entry[t].state \in Retriable
             /\ views'[t] = Admit!NoView \/ views'[t] = views[t]
             /\ entry[t].state = "pending" /\ ~entry[t].held =>
                  (entry[t].uuid = "current" /\ admitJobs'[t] # "none") \/ entry[t].uuid = "ended"
  <2>1. CASE t = s
    <3>1. state = "none" => entry[s].state # "pending" \/ entry[s].uuid # "current"
      BY <1>1, <1>3 DEF ViewTells, Admit!Claimed, Admit!Decided
    <3> QED BY <1>2, <1>4, <1>5, <2>1, <3>1 DEF AdmitInv, QueueTells, Admit!Carried
  <2>2. CASE t # s
    BY <1>2, <1>4, <2>2 DEF AdmitInv, QueueTells, Admit!Carried
  <2> QED BY <2>1, <2>2
<1> QED BY <1>1, <1>2, <1>4, <1>6, MoveKeeps

\* What the comparison finds: one that may be reused was made, and one that
\* creates resembles no entry that was admitted under the protection.
LEMMA AdmissionFacts ==
  ASSUME AdmitInv, NEW e \in Admit!Entries
  PROVE  /\ Admit!Admission(e) \in ViewRow /\ Admit!Admission(e).does \in {"create", "reuse", "review"}
         /\ Admit!Admission(e).does = "create" => Unmatched(e)
         /\ Admit!Admission(e).does = "reuse" =>
              \E l \in Admit!Entries : Admit!Admission(e).lead = {l} /\ business[l] # "none"
<1> DEFINE offers == Admit!Candidates(e) \cup Admit!Resembling(e)
           first == CHOOSE l \in offers : TRUE
<1>1. offers \subseteq Admit!Entries
  <2>1. \A f \in Admit!Entries : entry[f].target \subseteq Admit!Entries
    BY DEF AdmitInv, AdmitTypes, EntryRow
  <2> QED BY <2>1 DEF Admit!Candidates, Admit!Named, Admit!Targets, Admit!Receipts, Admit!Resembling
<1>2. CASE entry[e].phone = "none"
  <2>1. Admit!Admission(e) = Admit!View("create", {}, {})
    BY <1>2 DEF Admit!Admission
  <2>2. Unmatched(e)
    BY <1>2 DEF Unmatched, Admit!Alike
  <2> QED BY <2>1, <2>2 DEF Admit!View, ViewRow, Verdicts
<1>3. CASE entry[e].phone # "none" /\ Admit!Unclear(e)
  <2>1. Admit!Admission(e) = Admit!View("review", {}, offers)
    BY <1>3 DEF Admit!Admission
  <2> QED BY <1>1, <2>1 DEF Admit!View, ViewRow, Verdicts
<1>4. CASE entry[e].phone # "none" /\ ~Admit!Unclear(e) /\ offers = {}
  <2>1. Admit!Admission(e) = Admit!View("create", {}, {})
    BY <1>4 DEF Admit!Admission
  <2>2. Unmatched(e)
    <3> SUFFICES ASSUME NEW f \in Admit!Entries \ {e}, entry[f].key = "kept", Admit!Alike(e, f) PROVE FALSE
      BY DEF Unmatched
    <3>1. f \in Admit!Receipts(e)
      BY DEF Admit!Receipts
    <3>2. entry[f].target # {} /\ Admit!Targets(e) \subseteq Admit!Candidates(e)
      BY <1>4, <3>1 DEF Admit!Unclear
    <3>3. PICK l \in entry[f].target : TRUE
      BY <3>2
    <3>4. l \in Admit!Targets(e)
      BY <3>1, <3>3 DEF Admit!Targets
    <3> QED BY <1>4, <3>2, <3>4
  <2> QED BY <2>1, <2>2 DEF Admit!View, ViewRow, Verdicts
<1>5. CASE entry[e].phone # "none" /\ ~Admit!Unclear(e) /\ offers # {}
  <2>1. first \in Admit!Entries
    BY <1>1, <1>5
  <2>2. CASE Admit!Open(first) /\ (e \in Intakes \/ Admit!Creditable(e, first))
    <3>1. Admit!Admission(e) = Admit!View("reuse", {first}, offers)
      BY <1>5, <2>2 DEF Admit!Admission
    <3>2. business[first] # "none"
      BY <2>2 DEF Admit!Open
    <3> HIDE DEF first, offers
    <3> QED BY <1>1, <2>1, <3>1, <3>2 DEF Admit!View, ViewRow, Verdicts
  <2>3. CASE ~(Admit!Open(first) /\ (e \in Intakes \/ Admit!Creditable(e, first)))
    <3>1. Admit!Admission(e) = Admit!View("review", {}, offers)
      BY <1>5, <2>3 DEF Admit!Admission
    <3> QED BY <1>1, <3>1 DEF Admit!View, ViewRow, Verdicts
  <2> QED BY <2>2, <2>3
<1> QED BY <1>2, <1>3, <1>4, <1>5

\* What a job that begins is to do, it may do now.
LEMMA VerdictFacts ==
  ASSUME AdmitInv, NEW s \in Submissions, entry[s].state # "none",
         views'[s] = Admit!Verdict(s), UNCHANGED <<entry, business, guarded>>
  PROVE  Admit!Verdict(s) \in ViewRow /\ Admit!Verdict(s).does # "rest" /\ ViewTells(s)'
<1>1. s \in Admit!Entries /\ entry[s] \in EntryRow
  BY ViewFacts, RowFacts
<1>2. /\ Admit!Claimed(s)' <=> Admit!Claimed(s)
      /\ Admit!Barred(s)' <=> Admit!Barred(s)
      /\ Unmatched(s)' <=> Unmatched(s)
  BY DEF Admit!Claimed, Admit!Barred, Unmatched, Admit!Alike, Admit!Weak
<1>3. entry[s].state \notin Admit!Decided => entry[s].state \in Retriable
  BY <1>1 DEF EntryRow, Admit!Decided, Retriable
<1>4. CASE entry[s].state \in Admit!Decided
  <2>1. Admit!Verdict(s) = Admit!View("over", {}, {})
    BY <1>4 DEF Admit!Verdict
  <2> QED BY <1>4, <2>1 DEF Admit!View, ViewRow, Verdicts, ViewTells
<1>5. CASE entry[s].state \notin Admit!Decided /\ Admit!Barred(s)
  <2>1. Admit!Verdict(s) = Admit!View("hold", {}, {})
    BY <1>5 DEF Admit!Verdict
  <2> QED BY <1>3, <1>5, <2>1 DEF Admit!View, ViewRow, Verdicts, ViewTells
<1>6. CASE entry[s].state \notin Admit!Decided /\ ~Admit!Barred(s) /\ ~Admit!Claimed(s)
  <2>1. Admit!Verdict(s) = Admit!View("void", {}, {})
    BY <1>6 DEF Admit!Verdict
  <2> QED BY <1>2, <1>3, <1>6, <2>1 DEF Admit!View, ViewRow, Verdicts, ViewTells
<1>7. CASE entry[s].state \notin Admit!Decided /\ ~Admit!Barred(s) /\ Admit!Claimed(s)
  <2>1. \/ Admit!Verdict(s) = Admit!View("skip", {}, {})
        \/ Admit!Verdict(s) = Admit!View("create", {}, {}) /\ ~guarded
        \/ Admit!Verdict(s) = Admit!View("review", {}, {})
        \/ Admit!Verdict(s) = Admit!Admission(s)
    BY <1>7 DEF Admit!Verdict
  <2>2. /\ Admit!Verdict(s) \in ViewRow /\ Admit!Verdict(s).does \in {"skip", "create", "reuse", "review"}
        /\ Admit!Verdict(s).does = "create" /\ guarded => Unmatched(s)
        /\ Admit!Verdict(s).does = "reuse" => \E l \in Admit!Entries : Admit!Verdict(s).lead = {l} /\ business[l] # "none"
    <3>1. CASE Admit!Verdict(s) = Admit!Admission(s)
      BY <1>1, <3>1, AdmissionFacts
    <3>2. CASE Admit!Verdict(s) # Admit!Admission(s)
      BY <2>1, <3>2 DEF Admit!View, ViewRow, Verdicts
    <3> QED BY <3>1, <3>2
  <2> QED BY <1>2, <1>7, <2>2 DEF ViewTells
<1> QED BY <1>4, <1>5, <1>6, <1>7

LEMMA BeginKeeps == ASSUME AdmitInv, NEW s \in Submissions, Admit!Begin(s) PROVE AdmitInv'
<1>1. QueueTypes /\ business \in [Admit!Entries -> Handled]
  BY ViewFacts DEF AdmitInv, AdmitTypes
<1>2. /\ admitJobs[s] = "waiting" /\ UNCHANGED <<entry, enqueues, business, guarded, accepts>>
      /\ admitJobs' = [admitJobs EXCEPT ![s] = "started"] /\ views' = [views EXCEPT ![s] = Admit!Verdict(s)]
  BY DEF Admit!Begin
<1>3. entry[s].state # "none" /\ views'[s] = Admit!Verdict(s)
  BY <1>1, <1>2 DEF AdmitInv, QueueTells, QueueTypes
<1>4. Admit!Verdict(s) \in ViewRow /\ Admit!Verdict(s) # Admit!NoView /\ ViewTells(s)'
  BY <1>2, <1>3, VerdictFacts, NoViewRow
<1>5. QueueTypes'
  BY <1>1, <1>2, <1>4 DEF QueueTypes
<1>6. ASSUME NEW t \in Submissions
      PROVE  /\ admitJobs'[t] # "none" => entry[t].state # "none"
             /\ enqueues'[t] # "rest" => entry[t].state \in Retriable
             /\ views'[t] = views[t] \/ ViewTells(t)'
             /\ entry[t].state = "pending" /\ ~entry[t].held =>
                  (entry[t].uuid = "current" /\ admitJobs'[t] # "none") \/ entry[t].uuid = "ended"
  <2>1. admitJobs'[t] = "none" <=> admitJobs[t] = "none"
    BY <1>1, <1>2 DEF QueueTypes
  <2>2. views'[t] = views[t] \/ ViewTells(t)'
    BY <1>1, <1>2, <1>4 DEF QueueTypes
  <2> QED BY <1>2, <2>1, <2>2 DEF AdmitInv, QueueTells, Admit!Carried
<1> QED BY <1>1, <1>2, <1>5, <1>6, MoveKeeps

LEMMA BeginEnqueueKeeps == ASSUME AdmitInv, NEW s \in Submissions, Admit!BeginEnqueue(s) PROVE AdmitInv'
<1>1. QueueTypes /\ business \in [Admit!Entries -> Handled]
  BY ViewFacts DEF AdmitInv, AdmitTypes
<1>2. /\ UNCHANGED <<entry, admitJobs, views, business, guarded, accepts>>
      /\ entry[s].state \in Retriable
  BY DEF Admit!BeginEnqueue, Admit!Resumes, Admit!Backfills, Retriable
<1>3. /\ enqueues' \in [Submissions -> {"rest", "adopts", "asks"}]
      /\ \A t \in Submissions : t = s \/ enqueues'[t] = enqueues[t]
  BY <1>1 DEF Admit!BeginEnqueue, QueueTypes
<1>4. QueueTypes'
  BY <1>1, <1>2, <1>3 DEF QueueTypes
<1> QED BY <1>1, <1>2, <1>3, <1>4, MoveKeeps DEF AdmitInv, QueueTells, Admit!Carried

LEMMA HandleKeeps ==
  ASSUME AdmitInv, NEW l \in Admit!Entries, NEW as \in {"manual", "closed", "deleted"}, Admit!Handle(l, as)
  PROVE  AdmitInv'
<1>1. QueueTypes /\ UNCHANGED <<entry, guarded, accepts>> /\ Admit!Doom(Admit!LeadRuns(l), {})
  BY DEF Admit!Handle, AdmitInv, AdmitTypes
<1>2. /\ business' \in [Admit!Entries -> Handled]
      /\ \A k \in Admit!Entries : business'[k] # "none" <=> business[k] # "none"
  BY DEF Admit!Handle, Admit!Exists, AdmitInv, AdmitTypes, Handled
<1>3. /\ QueueTypes'
      /\ \A s \in Submissions :
           /\ views'[s] = Admit!NoView \/ views'[s] = views[s]
           /\ admitJobs'[s] = "none" <=> admitJobs[s] = "none"
           /\ enqueues'[s] = enqueues[s]
  BY <1>1, DoomQueue
<1> QED BY <1>1, <1>2, <1>3, MoveKeeps DEF AdmitInv, QueueTells, Admit!Carried

\* An enqueuer writes its entry, with the job it found or a new one.
LEMMA FinishKeeps == ASSUME AdmitInv, NEW s \in Submissions, Admit!FinishEnqueue(s) PROVE AdmitInv'
<1> DEFINE row == Admit!Adopted(s)
<1>1. /\ QueueTypes /\ s \in Admit!Entries /\ accepts \in BOOLEAN /\ entry[s] \in EntryRow /\ RowTells(s)
      /\ enqueues[s] \in {"adopts", "asks"} /\ entry[s].state \in Retriable
  BY ViewFacts, RowFacts DEF AdmitInv, AdmitTypes, Admit!FinishEnqueue, QueueTells, QueueTypes
<1>2. /\ entry' = [entry EXCEPT ![s] = row] /\ UNCHANGED <<business, guarded, accepts>>
      /\ enqueues' = [enqueues EXCEPT ![s] = "rest"] /\ views' = [views EXCEPT ![s] = Admit!NoView]
      /\ admitJobs' = [admitJobs EXCEPT ![s] =
           IF enqueues[s] = "asks" THEN "waiting"
           ELSE IF admitJobs[s] = "started" THEN "waiting" ELSE admitJobs[s]]
  BY DEF Admit!FinishEnqueue
<1>3. PutAside(s, row) /\ row.state = "pending" /\ row.uuid \in {"current", "ended"}
      /\ (row.uuid = "current" => enqueues[s] = "asks" \/ admitJobs[s] # "none")
  BY <1>1 DEF Admit!Adopted, PutAside, EntryRow
<1> HIDE DEF row
<1>4. InOrder(s, row) /\ Writes(s, row)
  BY <1>1, <1>2, <1>3, PutAsideIsInOrder DEF Retriable
<1>5. QueueTypes' /\ views'[s] = Admit!NoView /\ enqueues'[s] = "rest"
  <2>1. /\ admitJobs' \in [Submissions -> {"none", "waiting", "started", "failed"}]
        /\ views' \in [Submissions -> ViewRow] /\ enqueues' \in [Submissions -> {"rest", "adopts", "asks"}]
    BY <1>1, <1>2, NoViewRow DEF QueueTypes
  <2>2. \A t \in Submissions : views'[t] # Admit!NoView <=> admitJobs'[t] = "started"
    BY <1>1, <1>2 DEF QueueTypes
  <2> QED BY <1>1, <1>2, <2>1, <2>2 DEF QueueTypes
<1>6. admitJobs'[s] # "none" \/ row.uuid = "ended"
  BY <1>1, <1>2, <1>3 DEF QueueTypes
<1>7. \A t \in Submissions \ {s} :
        views'[t] = views[t] /\ enqueues'[t] = enqueues[t] /\ admitJobs'[t] = admitJobs[t]
  BY <1>1, <1>2 DEF QueueTypes
<1>8. Requeues(s, row)
  BY <1>1, <1>2, <1>3, <1>5, <1>6, <1>7 DEF Requeues, Retriable
<1> QED BY <1>1, <1>4, <1>8, WriteKeeps

LEMMA ReleaseKeeps == ASSUME AdmitInv, NEW s \in Submissions, Admit!Release(s) PROVE AdmitInv'
<1>1. /\ QueueTypes /\ s \in Admit!Entries /\ accepts \in BOOLEAN /\ entry[s] \in EntryRow /\ RowTells(s)
      /\ entry[s].held /\ entry[s].state = "pending"
  BY ViewFacts, RowFacts DEF AdmitInv, AdmitTypes, Admit!Release, RowTells
<1>2. /\ UNCHANGED <<business, guarded, accepts>> /\ enqueues' = [enqueues EXCEPT ![s] = "rest"]
      /\ views' = [t \in Submissions |-> Admit!NoView]
  BY DEF Admit!Release
<1> DEFINE free == [entry[s] EXCEPT !.held = FALSE]
<1>3. PICK row :
        /\ entry' = [entry EXCEPT ![s] = row]
        /\ IF accepts THEN row = [free EXCEPT !.uuid = "current"] ELSE row = Admit!Skipped(free)
  BY DEF Admit!Release
<1>4. /\ admitJobs' \in [Submissions -> {"none", "waiting", "started", "failed"}]
      /\ \A t \in Submissions : admitJobs'[t] # "started"
      /\ \A t \in Submissions \ {s} : admitJobs'[t] = "none" <=> admitJobs[t] = "none"
      /\ accepts => admitJobs'[s] = "waiting"
  <2>1. CASE accepts
    <3>1. admitJobs' = [t \in Submissions |->
                         IF t = s \/ admitJobs[t] = "started" THEN "waiting" ELSE admitJobs[t]]
      BY <2>1 DEF Admit!Release
    <3> QED BY <1>1, <3>1 DEF QueueTypes
  <2>2. CASE ~accepts
    <3>1. admitJobs' = [t \in Submissions |->
                         IF admitJobs[t] = "started" THEN "waiting" ELSE admitJobs[t]]
      BY <2>2 DEF Admit!Release
    <3> QED BY <1>1, <2>2, <3>1 DEF QueueTypes
  <2> QED BY <2>1, <2>2
<1>5. free \in EntryRow /\ free.held = FALSE /\ free.state = "pending"
      /\ free.phone = entry[s].phone /\ free.key = entry[s].key /\ free.by = entry[s].by
      /\ free.made = entry[s].made /\ free.target = entry[s].target
  BY <1>1 DEF EntryRow
<1> HIDE DEF free
<1>6. /\ PutAside(s, row) /\ row.state \in {"pending", "skipped"}
      /\ row.state = "pending" => row.uuid = "current" /\ admitJobs'[s] = "waiting"
  <2>1. CASE accepts
    BY <1>3, <1>4, <1>5, <2>1 DEF PutAside, EntryRow
  <2>2. CASE ~accepts
    BY <1>3, <1>5, <2>2 DEF PutAside, EntryRow, Admit!Skipped
  <2> QED BY <2>1, <2>2
<1>7. InOrder(s, row) /\ Writes(s, row)
  BY <1>1, <1>2, <1>3, <1>6, PutAsideIsInOrder
<1>8. QueueTypes'
  BY <1>1, <1>2, <1>4, NoViewRow DEF QueueTypes
<1>9. Requeues(s, row)
  BY <1>1, <1>2, <1>4, <1>6, <1>8 DEF Requeues, Retriable, QueueTypes
<1> QED BY <1>1, <1>7, <1>9, WriteKeeps

LEMMA EraseKeeps == ASSUME AdmitInv, NEW e \in Admit!Entries, Admit!Erase(e) PROVE AdmitInv'
<1> DEFINE row == [entry[e] EXCEPT !.key = "erased"]
<1>1. QueueTypes /\ accepts \in BOOLEAN /\ entry[e] \in EntryRow /\ RowTells(e) /\ business \in [Admit!Entries -> Handled]
  BY RowFacts DEF AdmitInv, AdmitTypes
<1>2. /\ entry' = [entry EXCEPT ![e] = row] /\ UNCHANGED <<business, guarded, accepts>>
      /\ Admit!Doom({e} \cap Submissions, {e} \cap Submissions)
  BY DEF Admit!Erase, AdmitInv, AdmitTypes
<1>3. /\ row \in EntryRow /\ row.key = "erased" /\ row.state = entry[e].state /\ row.phone = entry[e].phone
      /\ row.by = entry[e].by /\ row.made = entry[e].made /\ row.target = entry[e].target
      /\ row.held = entry[e].held /\ row.uuid = entry[e].uuid
  BY <1>1 DEF EntryRow
<1> HIDE DEF row
<1>4. InOrder(e, row) /\ Writes(e, row)
  BY <1>1, <1>2, <1>3 DEF InOrder, Writes, RowTells, Marked
<1>5. /\ QueueTypes'
      /\ \A s \in Submissions :
           /\ views'[s] = Admit!NoView \/ views'[s] = views[s]
           /\ s = e => views'[s] = Admit!NoView
           /\ admitJobs'[s] = "none" <=> admitJobs[s] = "none"
           /\ enqueues'[s] = IF s = e THEN "rest" ELSE enqueues[s]
  BY <1>1, <1>2, DoomQueue
<1>6. Requeues(e, row)
  BY <1>1, <1>2, <1>3, <1>5 DEF Requeues, AdmitInv, QueueTells, Admit!Carried
<1> QED BY <1>4, <1>6, WriteKeeps

\* A person decides a review.
LEMMA ConfirmKeeps ==
  ASSUME AdmitInv, NEW s \in Submissions, NEW row, NEW founded, Admit!Confirm(s, row, founded),
         InOrder(s, row), Writes(s, row), row.state \notin {"none", "pending"}
  PROVE  AdmitInv'
<1>1. /\ QueueTypes /\ s \in Admit!Entries /\ accepts \in BOOLEAN /\ accepts' = accepts
      /\ Admit!Doom(Admit!GateRuns, {s})
  BY ViewFacts DEF AdmitInv, AdmitTypes, Admit!Confirm
<1>2. QueueTypes' /\ \A t \in Submissions :
                       /\ views'[t] = Admit!NoView
                       /\ admitJobs'[t] = "none" <=> admitJobs[t] = "none"
                       /\ enqueues'[t] = IF t = s THEN "rest" ELSE enqueues[t]
  BY <1>1, DoomQueue, GateQueue
<1>3. Requeues(s, row)
  BY <1>1, <1>2 DEF Requeues
<1> QED BY <1>1, <1>3, WriteKeeps

LEMMA HumanKeeps ==
  ASSUME AdmitInv, NEW s \in Submissions,
         Admit!Dismiss(s) \/ Admit!CreateNew(s) \/ \E l \in Admit!Entries : Admit!LinkTo(s, l)
  PROVE  AdmitInv'
<1>1. /\ s \in Admit!Entries /\ entry[s] \in EntryRow /\ RowTells(s) /\ entry[s].state = "review"
      /\ entry[s].made = 0 /\ business[s] = "none" /\ entry[s].target = {}
      /\ business \in [Admit!Entries -> Handled]
  BY ViewFacts, RowFacts DEF AdmitInv, AdmitTypes, Admit!Dismiss, Admit!CreateNew, Admit!LinkTo
<1>2. /\ Admit!Human(s) \in EntryRow /\ Admit!Human(s).by = "human" /\ Admit!Human(s).state = "review"
      /\ Admit!Human(s).made = 0 /\ Admit!Human(s).target = {} /\ Admit!Human(s).held = entry[s].held
      /\ Admit!Human(s).phone = entry[s].phone /\ Admit!Human(s).key = entry[s].key
  BY <1>1 DEF Admit!Human, EntryRow
<1>3. CASE Admit!Dismiss(s)
  <2> DEFINE row == [Admit!Human(s) EXCEPT !.state = "dismissed"]
  <2>1. PutAside(s, row) /\ row.state = "dismissed"
    BY <1>1, <1>2 DEF PutAside, EntryRow, RowTells
  <2>2. Admit!Confirm(s, row, business)
    BY <1>3 DEF Admit!Dismiss
  <2> HIDE DEF row
  <2>3. InOrder(s, row) /\ Writes(s, row)
    BY <1>1, <2>1, <2>2, PutAsideIsInOrder DEF Admit!Confirm
  <2> QED BY <2>1, <2>2, <2>3, ConfirmKeeps
<1>4. CASE Admit!CreateNew(s)
  <2> DEFINE row == Admit!Done([Admit!Human(s) EXCEPT !.made = @ + 1], {s})
             founded == [business EXCEPT ![s] = "open"]
  <2>0. [Admit!Human(s) EXCEPT !.made = @ + 1] = [Admit!Human(s) EXCEPT !.made = 1]
    BY <1>2
  <2>1. /\ row \in EntryRow /\ row.state = "done" /\ row.made = 1 /\ row.target = {s} /\ row.held = FALSE
        /\ row.by = "human" /\ row.phone = entry[s].phone /\ row.key = entry[s].key
    <3> DEFINE once == [Admit!Human(s) EXCEPT !.made = 1]
    <3>1. /\ once \in EntryRow /\ once.made = 1 /\ once.by = "human"
          /\ once.phone = entry[s].phone /\ once.key = entry[s].key
      BY <1>2 DEF EntryRow
    <3>2. row = Admit!Done(once, {s})
      BY <2>0
    <3> HIDE DEF once, row
    <3> QED BY <1>1, <3>1, <3>2 DEF Admit!Done, EntryRow
  <2>2. Admit!Confirm(s, row, founded)
    BY <1>4 DEF Admit!CreateNew
  <2>3. /\ founded \in [Admit!Entries -> Handled] /\ founded[s] = "open"
        /\ \A l \in Admit!Entries \ {s} : founded[l] = business[l]
    BY <1>1 DEF Handled
  <2> HIDE DEF row, founded
  <2>4. InOrder(s, row) /\ Writes(s, row)
    BY <1>1, <2>1, <2>2, <2>3 DEF Admit!Confirm, InOrder, Writes, Marked
  <2> QED BY <2>1, <2>2, <2>4, ConfirmKeeps
<1>5. CASE \E l \in Admit!Entries : Admit!LinkTo(s, l)
  <2>1. PICK l \in Admit!Entries : Admit!LinkTo(s, l)
    BY <1>5
  <2> DEFINE row == Admit!Done(Admit!Human(s), {l})
  <2>2. l # s
    BY <1>1, <2>1 DEF Admit!LinkTo, Admit!Exists
  <2>3. /\ row \in EntryRow /\ row.state = "done" /\ row.made = 0 /\ row.target = {l} /\ row.held = FALSE
        /\ row.by = "human" /\ row.phone = entry[s].phone /\ row.key = entry[s].key
    BY <1>2 DEF Admit!Done, EntryRow
  <2>4. Admit!Confirm(s, row, business)
    BY <2>1 DEF Admit!LinkTo
  <2> HIDE DEF row
  <2>5. InOrder(s, row) /\ Writes(s, row)
    BY <1>1, <2>2, <2>3, <2>4 DEF Admit!Confirm, InOrder, Writes, Marked
  <2> QED BY <2>3, <2>4, <2>5, ConfirmKeeps
<1> QED BY <1>3, <1>4, <1>5

\* A new entry has neither job nor enqueuer yet.
LEMMA ArriveKeeps ==
  ASSUME AdmitInv, (\E s \in Submissions : Admit!Ingest(s)) \/ (\E b \in Intakes : Admit!Receive(b))
  PROVE  AdmitInv'
<1>1. PICK e \in Admit!Entries, a \in Arrivals, uuid \in {"none", "current"} :
        /\ entry[e].state = "none" /\ UNCHANGED <<views, enqueues, business, guarded, accepts>>
        /\ entry' = [entry EXCEPT ![e] = [Admit!Arrived(a) EXCEPT !.uuid = uuid]]
        /\ \/ e \in Submissions /\ uuid = "current" /\ admitJobs' = [admitJobs EXCEPT ![e] = "waiting"]
           \/ e \notin Submissions /\ admitJobs' = admitJobs
  <2>1. CASE \E s \in Submissions : Admit!Ingest(s)
    BY <2>1, AdmitNumbers DEF Admit!Ingest
  <2>2. CASE \E b \in Intakes : Admit!Receive(b)
    <3>1. PICK b \in Intakes, a \in Arrivals :
            /\ entry[b].state = "none" /\ entry' = [entry EXCEPT ![b] = Admit!Arrived(a)]
            /\ UNCHANGED <<admitJobs, views, enqueues, business, guarded, accepts>>
      BY <2>2 DEF Admit!Receive
    <3>2. [Admit!Arrived(a) EXCEPT !.uuid = "none"] = Admit!Arrived(a)
      <4> DEFINE next == Admit!Arrived(a)
      <4>1. next \in EntryRow /\ next.uuid = "none"
        BY NoEntryRow, AdmitNumbers DEF Admit!Arrived, EntryRow
      <4> HIDE DEF next
      <4>2. [next EXCEPT !.uuid = "none"] = next
        BY <4>1 DEF EntryRow
      <4> QED BY <4>2 DEF next
    <3> QED BY <3>1, <3>2, AdmitNumbers
  <2> QED BY <2>1, <2>2
<1> DEFINE row == [Admit!Arrived(a) EXCEPT !.uuid = uuid]
<1>2. /\ row \in EntryRow /\ row.state = "pending" /\ row.key = "none" /\ row.by = "nobody"
      /\ row.made = 0 /\ row.target = {} /\ row.held = FALSE /\ row.uuid = uuid
  <2> DEFINE next == Admit!Arrived(a)
  <2>1. /\ next \in EntryRow /\ next.state = "pending" /\ next.key = "none" /\ next.by = "nobody"
        /\ next.made = 0 /\ next.target = {} /\ next.held = FALSE
    BY NoEntryRow, AdmitNumbers DEF Admit!Arrived, EntryRow
  <2>2. row = [next EXCEPT !.uuid = uuid]
    OBVIOUS
  <2> HIDE DEF next, row
  <2> QED BY <2>1, <2>2 DEF EntryRow
<1>3. QueueTypes /\ accepts \in BOOLEAN /\ business \in [Admit!Entries -> Handled] /\ business[e] = "none"
  BY <1>1, RowFacts DEF AdmitInv, AdmitTypes
<1>4. e \in Submissions => admitJobs[e] = "none" /\ views[e] = Admit!NoView /\ enqueues[e] = "rest"
  BY <1>1, <1>3 DEF AdmitInv, QueueTells, QueueTypes, Retriable
<1> HIDE DEF row
<1>5. InOrder(e, row) /\ Writes(e, row)
  BY <1>1, <1>2, <1>3 DEF InOrder, Writes, Marked, row
<1>6. QueueTypes' /\ \A s \in Submissions \ {e} : admitJobs'[s] = admitJobs[s]
  BY <1>1, <1>3, <1>4 DEF QueueTypes
<1>7. e \in Submissions => admitJobs'[e] # "none" /\ enqueues'[e] = "rest" /\ views'[e] = Admit!NoView
  BY <1>1, <1>3, <1>4 DEF QueueTypes
<1>8. Requeues(e, row)
  BY <1>1, <1>2, <1>3, <1>6, <1>7 DEF Requeues
<1> QED BY <1>5, <1>8, WriteKeeps

\* A decision leaves the entry in order.
LEMMA DecisionInOrder ==
  ASSUME AdmitInv, NEW e \in Admit!Entries, entry[e].state = "pending", entry[e].held => guarded,
         NEW view \in ViewRow, view.does \in {"create", "reuse", "review"},
         view.does = "create" /\ guarded => Unmatched(e),
         view.does = "reuse" => view.lead # {} /\ e \notin view.lead,
         business' = Admit!Founded(e, view), guarded' = guarded,
         entry' = [entry EXCEPT ![e] = Admit!Decision(e, view)],
         \A s \in Submissions : views'[s] = Admit!NoView
  PROVE  /\ InOrder(e, Admit!Decision(e, view)) /\ Writes(e, Admit!Decision(e, view))
         /\ Admit!Decision(e, view).state \in {"done", "review"}
<1>1. /\ entry[e] \in EntryRow /\ entry[e].made = 0 /\ business[e] = "none" /\ entry[e].target = {}
      /\ business \in [Admit!Entries -> Handled]
  BY RowFacts DEF AdmitInv, AdmitTypes
<1> DEFINE row == [entry[e] EXCEPT !.key = Admit!Keyed(e), !.by = Admit!Actor(e)]
<1>2. /\ Admit!Keyed(e) \in {"none", "kept", "erased"} /\ Admit!Actor(e) \in {"guarded", "unguarded"}
      /\ Admit!Actor(e) = "guarded" => guarded
  BY <1>1 DEF Admit!Keyed, Admit!Actor, EntryRow
<1>3. /\ row \in EntryRow /\ row.key = Admit!Keyed(e) /\ row.by = Admit!Actor(e) /\ row.made = 0 /\ row.target = {}
      /\ row.phone = entry[e].phone
  BY <1>1, <1>2 DEF EntryRow
<1>4. Admit!Decision(e, view) =
        CASE view.does = "create" -> Admit!Done([row EXCEPT !.made = @ + 1], {e})
          [] view.does = "reuse" -> Admit!Done(row, view.lead)
          [] view.does = "review" -> Admit!Reviewed(row, view.offers)
  BY DEF Admit!Decision
<1> HIDE DEF row
<1>5. view.lead \subseteq Admit!Entries /\ view.offers \subseteq Admit!Entries
  BY DEF ViewRow
<1> DEFINE new == Admit!Decision(e, view)
<1>6. CASE view.does = "create"
  <2> DEFINE once == [row EXCEPT !.made = 1]
  <2>1. /\ once \in EntryRow /\ once.made = 1 /\ once.by = Admit!Actor(e) /\ once.phone = entry[e].phone
    BY <1>3 DEF EntryRow
  <2>2. new = Admit!Done(once, {e})
    BY <1>3, <1>4, <1>6
  <2> HIDE DEF once, new
  <2>3. /\ new \in EntryRow /\ new.state = "done" /\ new.made = 1 /\ new.target = {e} /\ new.held = FALSE
        /\ new.by = Admit!Actor(e) /\ new.phone = entry[e].phone
    BY <2>1, <2>2 DEF Admit!Done, EntryRow
  <2>4. business' \in [Admit!Entries -> Handled] /\ business'[e] = "open"
        /\ \A l \in Admit!Entries \ {e} : business'[l] = business[l]
    BY <1>1, <1>6 DEF Admit!Founded, Handled
  <2>5. InOrder(e, new)
    BY <1>2, <1>6, <2>3, <2>4 DEF InOrder, Marked
  <2>6. Writes(e, new)
    BY <1>1, <2>4 DEF Writes, new
  <2> QED BY <2>3, <2>5, <2>6 DEF new
<1>7. CASE view.does # "create"
  <2>1. /\ new \in EntryRow /\ new.made = 0 /\ new.held = FALSE /\ new.by = Admit!Actor(e)
        /\ new.state \in {"done", "review"} /\ (new.state = "done" <=> new.target # {})
        /\ e \notin new.target
    <3>1. CASE view.does = "reuse"
      <4>1. new = Admit!Done(row, view.lead)
        BY <1>4, <3>1
      <4> HIDE DEF new
      <4> QED BY <1>3, <1>5, <3>1, <4>1 DEF Admit!Done, EntryRow
    <3>2. CASE view.does = "review"
      <4>1. new = Admit!Reviewed(row, view.offers)
        BY <1>4, <3>2
      <4> HIDE DEF new
      <4> QED BY <1>3, <1>5, <4>1 DEF Admit!Reviewed, EntryRow
    <3> QED BY <1>7, <3>1, <3>2
  <2>2. business' = business
    BY <1>7 DEF Admit!Founded
  <2> HIDE DEF new
  <2>3. InOrder(e, new)
    BY <1>1, <1>2, <2>1, <2>2 DEF InOrder
  <2>4. Writes(e, new)
    BY <1>1, <2>2 DEF Writes, new
  <2> QED BY <2>1, <2>3, <2>4 DEF new
<1> QED BY <1>6, <1>7

LEMMA DecideKeeps == ASSUME AdmitInv, NEW s \in Submissions, Admit!Decide(s) PROVE AdmitInv'
<1>1. /\ QueueTypes /\ s \in Admit!Entries /\ views[s] \in ViewRow /\ ViewTells(s) /\ accepts \in BOOLEAN
      /\ views[s].does \in {"create", "reuse", "review"} /\ admitJobs[s] = "started"
  BY ViewFacts DEF AdmitInv, AdmitTypes, Admit!Decide
<1>2. /\ entry[s].state = "pending" /\ (entry[s].held => guarded)
      /\ views[s].does = "create" /\ guarded => Unmatched(s)
  BY <1>1 DEF ViewTells, Admit!Claimed, Admit!Barred
<1>3. views[s].does = "reuse" => views[s].lead # {} /\ s \notin views[s].lead
  BY <1>1, <1>2, RowFacts DEF ViewTells
<1>4. /\ entry' = [entry EXCEPT ![s] = Admit!Decision(s, views[s])] /\ business' = Admit!Founded(s, views[s])
      /\ UNCHANGED <<guarded, accepts>> /\ enqueues' = [enqueues EXCEPT ![s] = "rest"]
      /\ views' = [t \in Submissions |-> IF t \in (Admit!GateRuns \ {s}) \cup {s} THEN Admit!NoView ELSE views[t]]
      /\ admitJobs' = [t \in Submissions |->
           IF t = s THEN "none" ELSE IF t \in Admit!GateRuns \ {s} THEN "waiting" ELSE admitJobs[t]]
  BY DEF Admit!Decide
<1>5. \A t \in Submissions : views'[t] = Admit!NoView
  BY <1>1, <1>4 DEF QueueTypes, Admit!GateRuns
<1>6. InOrder(s, Admit!Decision(s, views[s])) /\ Writes(s, Admit!Decision(s, views[s]))
      /\ Admit!Decision(s, views[s]).state \in {"done", "review"}
  BY <1>1, <1>2, <1>3, <1>4, <1>5, DecisionInOrder
<1>7. /\ QueueTypes' /\ admitJobs'[s] = "none" /\ enqueues'[s] = "rest"
      /\ \A t \in Submissions \ {s} :
           (admitJobs'[t] = "none" <=> admitJobs[t] = "none") /\ enqueues'[t] = enqueues[t]
  <2>1. /\ admitJobs' \in [Submissions -> {"none", "waiting", "started", "failed"}]
        /\ views' \in [Submissions -> ViewRow] /\ enqueues' \in [Submissions -> {"rest", "adopts", "asks"}]
        /\ \A t \in Submissions : admitJobs'[t] # "started"
    BY <1>1, <1>4, NoViewRow DEF QueueTypes, Admit!GateRuns
  <2> QED BY <1>1, <1>4, <1>5, <2>1 DEF QueueTypes, Admit!GateRuns
<1>8. Requeues(s, Admit!Decision(s, views[s]))
  BY <1>1, <1>4, <1>5, <1>6, <1>7 DEF Requeues
<1> QED BY <1>1, <1>6, <1>8, WriteKeeps

\* A conversation is compared like any other entry, or by its phone alone.
LEMMA IntakeKeeps == ASSUME AdmitInv, NEW b \in Intakes, Admit!Intake(b) PROVE AdmitInv'
<1> DEFINE named == {l \in Admit!Entries : Admit!Open(l) /\ entry[l].phone = entry[b].phone}
<1>1. /\ QueueTypes /\ b \in Admit!Entries /\ b \notin Submissions /\ accepts \in BOOLEAN
      /\ entry[b].state = "pending" /\ business[b] = "none" /\ ~entry[b].held
  <2>1. b \in Admit!Entries /\ b \notin Submissions
    BY AdmitNumbers
  <2>2. RowTells(b) /\ entry[b].state = "pending" /\ business[b] = "none"
    BY <2>1, RowFacts DEF Admit!Intake
  <2> QED BY <2>1, <2>2 DEF AdmitInv, AdmitTypes, RowTells
<1>2. PICK view :
        /\ \/ view = Admit!View("review", {}, {})
           \/ view = Admit!Native(b) /\ ~guarded
           \/ view = Admit!Admission(b)
        /\ entry' = [entry EXCEPT ![b] = Admit!Decision(b, view)] /\ business' = Admit!Founded(b, view)
        /\ Admit!Doom(Admit!GateRuns, {}) /\ UNCHANGED <<guarded, accepts>>
  BY DEF Admit!Intake
<1>3. /\ view \in ViewRow /\ view.does \in {"create", "reuse", "review"}
      /\ view.does = "create" /\ guarded => Unmatched(b)
      /\ view.does = "reuse" => view.lead # {} /\ b \notin view.lead
  <2>1. CASE view = Admit!View("review", {}, {})
    BY <2>1 DEF Admit!View, ViewRow, Verdicts
  <2>2. CASE view = Admit!Admission(b)
    <3>1. \A l \in Admit!Entries : business[l] # "none" => l # b
      BY <1>1
    <3> QED BY <1>1, <2>2, <3>1, AdmissionFacts
  <2>3. CASE view = Admit!Native(b) /\ ~guarded
    <3>1. named \subseteq Admit!Entries /\ b \notin named
      BY <1>1 DEF Admit!Open
    <3>2. \/ view = Admit!View("create", {}, {})
          \/ view = Admit!View("reuse", named, named) /\ named # {}
          \/ view = Admit!View("review", {}, named)
      BY <2>3 DEF Admit!Native
    <3> HIDE DEF named
    <3> QED BY <2>3, <3>1, <3>2 DEF Admit!View, ViewRow, Verdicts
  <2> QED BY <1>2, <2>1, <2>2, <2>3
<1>4. QueueTypes' /\ \A t \in Submissions :
                       /\ views'[t] = Admit!NoView
                       /\ admitJobs'[t] = "none" <=> admitJobs[t] = "none"
                       /\ enqueues'[t] = enqueues[t]
  BY <1>1, <1>2, DoomQueue, GateQueue
<1>5. InOrder(b, Admit!Decision(b, view)) /\ Writes(b, Admit!Decision(b, view))
  BY <1>1, <1>2, <1>3, <1>4, DecisionInOrder
<1>6. Requeues(b, Admit!Decision(b, view))
  BY <1>1, <1>2, <1>4 DEF Requeues
<1> QED BY <1>1, <1>5, <1>6, WriteKeeps

\* Only the cohort of a row moves.
LEMMA CohortRow == ASSUME NEW row \in EntryRow, NEW c \in BOOLEAN, NEW new, new = [row EXCEPT !.cohort = c]
                   PROVE  /\ new \in EntryRow /\ new.state = row.state /\ new.uuid = row.uuid
                          /\ new.phone = row.phone /\ new.key = row.key
                          /\ new.by = row.by /\ new.made = row.made
                          /\ new.target = row.target /\ new.held = row.held
BY DEF EntryRow

\* Switching the route off puts aside what waits, and everybody at work starts
\* again; the protection changes what may be credited, not what was made.
LEMMA SwitchKeeps == ASSUME AdmitInv, Admit!SwitchRoute \/ Admit!SwitchGuard PROVE AdmitInv'
<1> DEFINE aside == {s \in Submissions : Admit!SwitchRoute /\ accepts /\ Admit!Skippable(s)}
<1>1. QueueTypes /\ entry \in [Admit!Entries -> EntryRow] /\ Submissions \subseteq Admit!Entries /\ business' = business
      /\ guarded' \in BOOLEAN /\ accepts' \in BOOLEAN /\ business \in [Admit!Entries -> Handled]
  BY AdmitNumbers DEF AdmitInv, AdmitTypes, Admit!SwitchRoute, Admit!SwitchGuard
<1>2. PICK puts : Admit!Doom(Admit!GateRuns, puts) /\ aside \subseteq puts
  <2>1. CASE Admit!SwitchRoute
    BY <2>1 DEF Admit!SwitchRoute
  <2>2. CASE Admit!SwitchGuard
    <3>1. ~Admit!SwitchRoute
      BY <1>1, <2>2 DEF Admit!SwitchRoute, Admit!SwitchGuard
    <3> QED BY <2>2, <3>1 DEF Admit!SwitchGuard
  <2> QED BY <2>1, <2>2
<1>3. QueueTypes' /\ \A t \in Submissions :
                       /\ views'[t] = Admit!NoView
                       /\ admitJobs'[t] = "none" <=> admitJobs[t] = "none"
                       /\ enqueues'[t] = "rest" \/ (enqueues'[t] = enqueues[t] /\ t \notin aside)
  BY <1>1, <1>2, DoomQueue, GateQueue
<1>4. /\ entry' \in [Admit!Entries -> EntryRow]
      /\ \A e \in Admit!Entries :
           /\ entry'[e].phone = entry[e].phone /\ entry'[e].key = entry[e].key
           /\ entry'[e].by = entry[e].by /\ entry'[e].made = entry[e].made
           /\ entry'[e].target = entry[e].target /\ entry'[e].held = entry[e].held
           /\ \/ e \in aside /\ entry[e].state \in Retriable /\ entry'[e].state = "skipped"
              \/ e \notin aside /\ entry'[e].state = entry[e].state /\ entry'[e].uuid = entry[e].uuid
  <2>1. CASE Admit!SwitchRoute
    <3>1. entry' = [e \in Admit!Entries |-> IF e \in aside THEN Admit!Skipped(entry[e]) ELSE entry[e]]
      BY <2>1 DEF Admit!SwitchRoute
    <3>2. \A e \in aside : entry[e].state \in Retriable
      BY DEF Admit!Skippable, Retriable
    <3>3. ASSUME NEW row \in EntryRow
          PROVE  /\ Admit!Skipped(row) \in EntryRow /\ Admit!Skipped(row).state = "skipped"
                 /\ Admit!Skipped(row).phone = row.phone /\ Admit!Skipped(row).key = row.key
                 /\ Admit!Skipped(row).by = row.by /\ Admit!Skipped(row).made = row.made
                 /\ Admit!Skipped(row).target = row.target /\ Admit!Skipped(row).held = row.held
      BY <3>3 DEF Admit!Skipped, EntryRow
    <3> HIDE DEF aside
    <3> QED BY <1>1, <3>1, <3>2, <3>3
  <2>2. CASE Admit!SwitchGuard
    <3>1. aside = {}
      BY <1>1, <2>2 DEF Admit!SwitchRoute, Admit!SwitchGuard
    <3> DEFINE still == [e \in Admit!Entries |-> entry[e].cohort /\ guarded]
    <3>2. \A e \in Admit!Entries : entry[e].cohort = TRUE \/ entry[e].cohort = FALSE
      BY <1>1 DEF EntryRow
    <3>3. still \in [Admit!Entries -> BOOLEAN] /\ \A e \in Admit!Entries : still[e] = (entry[e].cohort /\ guarded)
      OBVIOUS
    <3> HIDE DEF still
    <3>4. entry' = [e \in Admit!Entries |-> [entry[e] EXCEPT !.cohort = still[e]]]
      BY <2>2, <3>3 DEF Admit!SwitchGuard
    <3>5. \A e \in Admit!Entries : entry'[e] = [entry[e] EXCEPT !.cohort = still[e]]
      BY <3>4
    <3> HIDE DEF aside
    <3>6. SUFFICES ASSUME NEW e \in Admit!Entries
                   PROVE  /\ entry'[e] \in EntryRow
                          /\ entry'[e].phone = entry[e].phone /\ entry'[e].key = entry[e].key
                          /\ entry'[e].by = entry[e].by /\ entry'[e].made = entry[e].made
                          /\ entry'[e].target = entry[e].target /\ entry'[e].held = entry[e].held
                          /\ entry'[e].state = entry[e].state /\ entry'[e].uuid = entry[e].uuid
      BY <1>1, <3>1, <3>4
    <3>7. entry[e] \in EntryRow /\ still[e] \in BOOLEAN /\ entry'[e] = [entry[e] EXCEPT !.cohort = still[e]]
      BY <1>1, <3>3, <3>5
    <3> QED BY <3>7, CohortRow
  <2> QED BY <2>1, <2>2
<1>5. \A e \in aside : ~entry[e].held
  BY DEF Admit!Skippable
<1> HIDE DEF aside
<1>6. AdmitTypes'
  BY <1>1, <1>3, <1>4 DEF AdmitTypes
<1>7. RowsTell'
  <2> SUFFICES ASSUME NEW e \in Admit!Entries PROVE RowTells(e)'
    BY DEF RowsTell
  <2>1. RowTells(e)
    BY RowFacts
  <2>2. entry'[e].state # entry[e].state =>
          entry[e].state # "done" /\ entry'[e].state # "done" /\ ~entry[e].held
    BY <1>4, <1>5 DEF Retriable
  <2>3. entry'[e].by = entry[e].by /\ entry'[e].made = entry[e].made
        /\ entry'[e].target = entry[e].target /\ entry'[e].held = entry[e].held
    BY <1>4
  <2> QED BY <1>1, <2>1, <2>2, <2>3 DEF RowTells
<1>8. QueueTells'
  BY <1>1, <1>3, <1>4 DEF QueueTells, AdmitInv, Retriable
<1>9. ViewsTell'
  BY <1>3, NoViewRow DEF ViewsTell, ViewTells
<1>10. Admit!Carried'
  BY <1>1, <1>3, <1>4 DEF Admit!Carried, AdmitInv
<1>11. Admit!OneDemandOneLead'
  BY <1>4 DEF AdmitInv, Admit!OneDemandOneLead, Admit!Alike, Admit!Weak
<1> QED BY <1>6, <1>7, <1>8, <1>9, <1>10, <1>11 DEF AdmitInv

\* Every step of the admission keeps its invariant.
LEMMA AdmitNextInv == AdmitInv /\ [Admit!Next]_Admit!vars => AdmitInv'
<1> SUFFICES ASSUME AdmitInv, [Admit!Next]_Admit!vars PROVE AdmitInv'
  OBVIOUS
<1>1. CASE UNCHANGED Admit!vars
  <2>1. /\ UNCHANGED <<entry, admitJobs, views, enqueues, business, guarded, accepts>>
        /\ QueueTypes /\ business \in [Admit!Entries -> Handled]
    BY <1>1 DEF Admit!vars, AdmitInv, AdmitTypes
  <2>2. QueueTypes'
    BY <2>1 DEF QueueTypes
  <2> QED BY <2>1, <2>2, MoveKeeps DEF AdmitInv, QueueTells, Admit!Carried
<1>2. CASE Admit!Next
  BY <1>2, ArriveKeeps, BeginKeeps, EndsKeeps, SkipKeeps, DecideKeeps, BeginEnqueueKeeps,
     FinishKeeps, HumanKeeps, ReleaseKeeps, EraseKeeps, HandleKeeps, IntakeKeeps, SwitchKeeps DEF Admit!Next
<1> QED BY <1>1, <1>2

\* What the invariant says of entries and their businesses.
LEMMA AdmitGives ==
  AdmitInv => Admit!AdmissionTypeOK /\ Admit!OneDemandOneLead /\ Admit!OneLeadPerEntry /\ Admit!HoldOutlastsGuard /\ Admit!Carried
<1> SUFFICES ASSUME AdmitInv PROVE Admit!AdmissionTypeOK /\ Admit!OneLeadPerEntry /\ Admit!HoldOutlastsGuard
  BY DEF AdmitInv
<1>1. \A e \in Admit!Entries : entry[e] \in EntryRow /\ RowTells(e) /\ entry[e].made \in {0, 1}
  BY RowFacts
<1>2. Admit!OneLeadPerEntry /\ Admit!HoldOutlastsGuard
  BY <1>1 DEF RowTells, Admit!OneLeadPerEntry, Admit!HoldOutlastsGuard
<1>3. Admit!AdmissionTypeOK
  BY <1>1 DEF EntryRow, Admit!AdmissionTypeOK, AdmitInv, AdmitTypes, QueueTypes, Handled
<1> QED BY <1>2, <1>3

------------------------------------------------------------------------------
\* ContactConvergence: what an active link and its evidence lack, somebody will pair.
\* A job is of one side; what unlinks has a job of neither.
PairJob(j) ==
  /\ j = Converge!Job(j.side, j.id, j.after) /\ j.after \in Nat
  /\ \/ j.side = "link" /\ j.id \in ConversationLinks
     \/ j.side = "evidence" /\ j.id \in Evidence
UnlinkJob(j) == \E l \in ConversationLinks : j = Converge!Job("unlink", l, 0)

\* A converter at work has read a page that is still there, as it holds the
\* links it will lock, and what it unlinks is what the link's lead has.
AtWork(x) ==
  \/ x = Converge!Rest
  \/ x = Converge!Stale(x) /\ (PairJob(x.job) \/ UnlinkJob(x.job))
  \/ x = Converge!Clashing(x) /\ PairJob(x.job)
  \/ /\ x = [does |-> "link", job |-> x.job, page |-> x.page]
     /\ PairJob(x.job) /\ x.job.side = "link" /\ Converge!Active(x.job.id)
     /\ \A e \in x.page : e \in Evidence /\ Converge!Bound(e) /\ e > x.job.after
  \/ /\ x = [does |-> "evidence", job |-> x.job, page |-> x.page]
     /\ PairJob(x.job) /\ x.job.side = "evidence"
     /\ \A l \in x.page : l \in ConversationLinks /\ Converge!Active(l) /\ l > x.job.after
  \/ /\ x = [does |-> "unlink", job |-> x.job, page |-> x.page]
     /\ UnlinkJob(x.job) /\ Converge!Active(x.job.id)
     /\ \A k \in x.page : {k.lead} = bonds[x.job.id].lead

\* Whatever active link and bound evidence have no credit, somebody will pair.
Covers(j, l, e) ==
  \/ j.side = "link" /\ j.id = l /\ j.after < e
  \/ j.side = "evidence" /\ j.id = e /\ j.after < l
Ahead(x, i) == i \in x.page \/ (Converge!Cardinality(x.page) = LinksPerJob /\ \A k \in x.page : k < i)
Owes(x, l, e) ==
  \/ x.does \in {"stale", "clash"} /\ Covers(x.job, l, e)
  \/ x.does = "link" /\ x.job.id = l /\ Ahead(x, e)
  \/ x.does = "evidence" /\ x.job.id = e /\ Ahead(x, l)
Owed(l, e) ==
  \/ \E j \in convergeJobs \cup failedJobs : Covers(j, l, e)
  \/ \E c \in Converters : Owes(converters[c], l, e)
Paid(l, e) == \E k \in credits : k.evidence = e /\ {k.lead} = bonds[l].lead

\* A pending link has a chain that is not at its end.
Chains(j, l) == j.side = "link" /\ j.id = l
Chained(l) ==
  \/ \E j \in convergeJobs \cup failedJobs : Chains(j, l)
  \/ \E c \in Converters : converters[c].does # "rest" /\ Chains(converters[c].job, l)

BondsTell ==
  /\ bonds \in [ConversationLinks -> [state : {"none", "active", "tombstone"},
                                      lead : SUBSET Businesses, pending : BOOLEAN]]
  /\ \A l \in ConversationLinks :
       \/ Converge!Active(l) /\ \E b \in Businesses : bonds[l].lead = {b}
       \/ ~Converge!Active(l) /\ bonds[l].lead = {} /\ ~bonds[l].pending
  /\ \A l, k \in ConversationLinks : Converge!Active(l) /\ bonds[k].lead = bonds[l].lead => l = k
CreditsTell ==
  \A k \in credits :
    k.link \in ConversationLinks \cup {Converge!Copied} /\ k.evidence \in Evidence /\ k.lead \in Businesses

ConvergeTypes ==
  /\ BondsTell /\ CreditsTell
  /\ proofs \in [Evidence -> {"none", "unbound", "bound"}]
  /\ \A j \in convergeJobs \cup failedJobs : PairJob(j)
  /\ converters = [c \in Converters |-> converters[c]]
  /\ \A c \in Converters : AtWork(converters[c])
  /\ changes \in 0..MaxChanges
ConvergeInv ==
  /\ ConvergeTypes
  /\ \A l \in ConversationLinks, e \in Evidence : Converge!Active(l) /\ Converge!Bound(e) => Paid(l, e) \/ Owed(l, e)
  /\ \A l \in ConversationLinks : bonds[l].pending => Chained(l)

LEMMA JobParts ==
  ASSUME NEW s, NEW i, NEW n
  PROVE  Converge!Job(s, i, n).side = s /\ Converge!Job(s, i, n).id = i /\ Converge!Job(s, i, n).after = n
BY DEF Converge!Job

LEMMA RowParts ==
  /\ Converge!Rest.does = "rest"
  /\ \A x : Converge!Stale(x).does = "stale" /\ Converge!Stale(x).job = x.job
            /\ Converge!Clashing(x).does = "clash" /\ Converge!Clashing(x).job = x.job
  /\ \A d, j, p : LET x == [does |-> d, job |-> j, page |-> p]
                  IN  x.does = d /\ x.job = j /\ x.page = p
BY DEF Converge!Rest, Converge!Stale, Converge!Clashing

\* The kind of work says what the row is.
LEMMA WorkKinds ==
  ASSUME NEW x, AtWork(x)
  PROVE  /\ x.does \in {"rest", "stale", "clash", "link", "evidence", "unlink"}
         /\ x.does = "rest" => x = Converge!Rest
         /\ x.does = "stale" => PairJob(x.job) \/ UnlinkJob(x.job)
         /\ x.does = "clash" => PairJob(x.job)
         /\ x.does = "link" => /\ PairJob(x.job) /\ x.job.side = "link" /\ Converge!Active(x.job.id)
                               /\ \A e \in x.page : e \in Evidence /\ Converge!Bound(e) /\ e > x.job.after
         /\ x.does = "evidence" =>
              /\ PairJob(x.job) /\ x.job.side = "evidence"
              /\ \A l \in x.page : l \in ConversationLinks /\ Converge!Active(l) /\ l > x.job.after
         /\ x.does = "unlink" =>
              /\ UnlinkJob(x.job) /\ Converge!Active(x.job.id)
              /\ \A k \in x.page : {k.lead} = bonds[x.job.id].lead
<1>1. CASE x = Converge!Rest
  BY <1>1 DEF Converge!Rest
<1>2. CASE x = Converge!Stale(x) /\ (PairJob(x.job) \/ UnlinkJob(x.job))
  <2>1. x.does = "stale"
    BY <1>2 DEF Converge!Stale
  <2> QED BY <1>2, <2>1
<1>3. CASE x = Converge!Clashing(x) /\ PairJob(x.job)
  <2>1. x.does = "clash"
    BY <1>3 DEF Converge!Clashing
  <2> QED BY <1>3, <2>1
<1>4. CASE ~(x = Converge!Rest) /\ ~(x = Converge!Stale(x) /\ (PairJob(x.job) \/ UnlinkJob(x.job)))
           /\ ~(x = Converge!Clashing(x) /\ PairJob(x.job))
  <2>1. \A d : x = [does |-> d, job |-> x.job, page |-> x.page] => x.does = d
    OBVIOUS
  <2> QED BY <1>4, <2>1 DEF AtWork
<1> QED BY <1>1, <1>2, <1>3, <1>4

Fate(x, y, written, added) ==
  y = IF x.does \in {"rest", "stale", "clash"} THEN x
      ELSE IF Converge!Locks(x) \cap written /= {} THEN Converge!Stale(x)
      ELSE IF \E k \in added : <<k.link, k.evidence>> \in Converge!Pairs(x) THEN Converge!Clashing(x)
      ELSE x
RowsOnly(written) ==
  /\ \A l \in ConversationLinks : l \notin written /\ Converge!Active(l) => bonds'[l] = bonds[l]
  /\ \A e \in Evidence : Converge!Bound(e) => Converge!Bound(e)'
\* What a commit makes of another's work: it goes on, or it is to be done again.
LEMMA WorkKept ==
  ASSUME ConvergeInv, NEW x, AtWork(x), NEW written, NEW added, NEW y, Fate(x, y, written, added),
         RowsOnly(written)
  PROVE  /\ AtWork(y)'
         /\ \A l \in ConversationLinks, e \in Evidence : Owes(x, l, e) => Owes(y, l, e)
         /\ x.does # "rest" => y.does # "rest" /\ y.job = x.job
         /\ x.does = "rest" => y = Converge!Rest
<1>0. /\ \A l \in ConversationLinks : l \notin written /\ Converge!Active(l) => bonds'[l] = bonds[l]
      /\ \A e \in Evidence : Converge!Bound(e) => Converge!Bound(e)'
  BY DEF RowsOnly
<1> DEFINE met == \E k \in added : <<k.link, k.evidence>> \in Converge!Pairs(x)
<1>a. x.does \in {"rest", "stale", "clash"} => y = x
  BY DEF Fate
<1>b. x.does \notin {"rest", "stale", "clash"} /\ Converge!Locks(x) \cap written # {} => y = Converge!Stale(x)
  BY DEF Fate
<1>c. x.does \notin {"rest", "stale", "clash"} /\ Converge!Locks(x) \cap written = {} /\ met => y = Converge!Clashing(x)
  BY DEF Fate
<1>d. x.does \notin {"rest", "stale", "clash"} /\ Converge!Locks(x) \cap written = {} /\ ~met => y = x
  BY DEF Fate
<1> HIDE DEF met
<1>1. CASE x.does \in {"rest", "stale", "clash"}
  <2>1. y = x
    BY <1>1, <1>a
  <2>2. AtWork(x)'
    <3>1. PairJob(x.job) => PairJob(x.job)'
      BY DEF PairJob
    <3>2. UnlinkJob(x.job) => UnlinkJob(x.job)'
      BY DEF UnlinkJob
    <3> QED BY <1>1, <3>1, <3>2, RowParts DEF AtWork
  <2> QED BY <2>1, <2>2, WorkKinds
<1>2. ASSUME x.does \in {"link", "evidence", "unlink"},
             y = Converge!Stale(x) \/ (x.does # "unlink" /\ y = Converge!Clashing(x))
      PROVE  /\ AtWork(y)' /\ y.does # "rest" /\ y.job = x.job
             /\ \A l \in ConversationLinks, e \in Evidence : Owes(x, l, e) => Owes(y, l, e)
  <2>1. y.job = x.job /\ y.does \in {"stale", "clash"} /\ (y = Converge!Stale(y) \/ (x.does # "unlink" /\ y = Converge!Clashing(y)))
    BY <1>2, RowParts DEF Converge!Stale, Converge!Clashing
  <2>2. (PairJob(x.job) \/ UnlinkJob(x.job)) /\ (x.does # "unlink" => PairJob(x.job))
    BY <1>2, WorkKinds
  <2>3. AtWork(y)'
    BY <2>1, <2>2 DEF AtWork, PairJob, UnlinkJob
  <2>4. ASSUME NEW l \in ConversationLinks, NEW e \in Evidence, Owes(x, l, e)
        PROVE  Covers(x.job, l, e)
    <3>0. l \in Nat /\ e \in Nat /\ LinksPerJob \in Nat \ {0}
      BY ConvergeBounds DEF Converge!ConvergenceConstants
    <3>1. CASE x.does = "link"
      <4>1. x.job.side = "link" /\ x.job.id = l /\ Ahead(x, e) /\ x.job.after \in Nat
            /\ \A i \in x.page : i \in Evidence /\ i > x.job.after
        BY <2>4, <3>1, WorkKinds DEF Owes, PairJob
      <4>2. x.page = {} => Converge!Cardinality(x.page) # LinksPerJob
        BY <3>0, FS_EmptySet, SameSizesToo
      <4>3. x.job.after < e
        <5>1. CASE e \in x.page
          BY <4>1, <5>1, <3>0
        <5>2. CASE e \notin x.page
          <6>1. PICK i \in x.page : i < e
            BY <4>1, <4>2, <5>2 DEF Ahead
          <6>2. i \in Nat /\ i > x.job.after
            BY <4>1, ConvergeBounds DEF Converge!ConvergenceConstants
          <6> QED BY <4>1, <6>1, <6>2, <3>0
        <5> QED BY <5>1, <5>2
      <4> QED BY <4>1, <4>3 DEF Covers
    <3>2. CASE x.does = "evidence"
      <4>1. x.job.side = "evidence" /\ x.job.id = e /\ Ahead(x, l) /\ x.job.after \in Nat
            /\ \A i \in x.page : i \in ConversationLinks /\ i > x.job.after
        BY <2>4, <3>2, WorkKinds DEF Owes, PairJob
      <4>2. x.page = {} => Converge!Cardinality(x.page) # LinksPerJob
        BY <3>0, FS_EmptySet, SameSizesToo
      <4>3. x.job.after < l
        <5>1. CASE l \in x.page
          BY <4>1, <5>1, <3>0
        <5>2. CASE l \notin x.page
          <6>1. PICK i \in x.page : i < l
            BY <4>1, <4>2, <5>2 DEF Ahead
          <6>2. i \in Nat /\ i > x.job.after
            BY <4>1, ConvergeBounds DEF Converge!ConvergenceConstants
          <6> QED BY <4>1, <6>1, <6>2, <3>0
        <5> QED BY <5>1, <5>2
      <4> QED BY <4>1, <4>3 DEF Covers
    <3> QED BY <1>2, <2>4, <3>1, <3>2 DEF Owes
  <2> QED BY <2>1, <2>3, <2>4 DEF Owes
<1>3. CASE x.does \in {"link", "evidence", "unlink"} /\ Converge!Locks(x) \cap written = {} /\ y = x
  <2>1. AtWork(x)'
    <3>0. (PairJob(x.job) => PairJob(x.job)') /\ (UnlinkJob(x.job) => UnlinkJob(x.job)')
      BY DEF PairJob, UnlinkJob
    <3>1. CASE x.does = "link"
      <4>1. x.job.id \in ConversationLinks /\ Converge!Active(x.job.id) /\ x.job.id \notin written
        BY <1>3, <3>1, WorkKinds DEF Converge!Locks, PairJob
      <4>2. Converge!Active(x.job.id)'
        BY <1>0, <4>1 DEF Converge!Active
      <4> QED BY <1>0, <3>0, <3>1, <4>2, WorkKinds, RowParts DEF AtWork
    <3>2. CASE x.does = "evidence"
      <4>1. \A l \in x.page : l \in ConversationLinks /\ Converge!Active(l) /\ l \notin written
        BY <1>3, <3>2, WorkKinds DEF Converge!Locks
      <4>2. \A l \in x.page : Converge!Active(l)'
        BY <1>0, <4>1 DEF Converge!Active
      <4> QED BY <3>0, <3>2, <4>1, <4>2, WorkKinds, RowParts DEF AtWork
    <3>3. CASE x.does = "unlink"
      <4>1. x.job.id \in ConversationLinks /\ Converge!Active(x.job.id) /\ x.job.id \notin written
        BY <1>3, <3>3, WorkKinds, JobParts DEF Converge!Locks, UnlinkJob
      <4>2. Converge!Active(x.job.id)' /\ bonds'[x.job.id].lead = bonds[x.job.id].lead
        BY <1>0, <4>1 DEF Converge!Active
      <4> QED BY <3>0, <3>3, <4>2, WorkKinds, RowParts DEF AtWork
    <3> QED BY <1>3, <3>1, <3>2, <3>3
  <2> QED BY <1>3, <2>1
<1>6. x.does = "unlink" => ~met
  BY DEF Converge!Pairs, met
<1>5. CASE x.does \in {"link", "evidence", "unlink"}
  <2>1. CASE Converge!Locks(x) \cap written /= {}
    BY <1>2, <1>5, <1>b, <2>1
  <2>2. CASE Converge!Locks(x) \cap written = {} /\ met
    BY <1>2, <1>6, <1>5, <1>c, <2>2
  <2>3. CASE Converge!Locks(x) \cap written = {} /\ ~met
    BY <1>3, <1>5, <1>d, <2>3
  <2> QED BY <2>1, <2>2, <2>3
<1> QED BY <1>1, <1>5, WorkKinds

LEMMA Committed ==
  ASSUME ConvergeInv, NEW written, NEW added, NEW c \in Converters, RowsOnly(written),
         NEW x, x = converters[c], NEW y, y = Converge!After(written, added)[c]
  PROVE  /\ AtWork(y)'
         /\ \A l \in ConversationLinks, e \in Evidence : Owes(x, l, e) => Owes(y, l, e)
         /\ x.does # "rest" => y.does # "rest" /\ y.job = x.job
         /\ x.does = "rest" => y = Converge!Rest
<1>1. AtWork(x)
  BY DEF ConvergeInv, ConvergeTypes
<1>2. Fate(x, y, written, added)
  BY DEF Converge!After, Fate
<1> QED BY <1>1, <1>2, WorkKept

\* A converter goes on when its work is kept; nobody else's commit stops it.
Goes(c) ==
  /\ AtWork(converters[c])'
  /\ \A l \in ConversationLinks, e \in Evidence : Owes(converters[c], l, e) => Owes(converters'[c], l, e)
  /\ converters[c].does # "rest" =>
       converters'[c].does # "rest" /\ converters'[c].job = converters[c].job

LEMMA CommitGoes ==
  ASSUME ConvergeInv, NEW written, NEW added, NEW c \in Converters, RowsOnly(written),
         converters'[c] = Converge!After(written, added)[c]
  PROVE  Goes(c)
<1>1. PICK x, y : x = converters[c] /\ y = Converge!After(written, added)[c]
  OBVIOUS
<1>2. AtWork(y)'
  BY <1>1, Committed
<1>3. \A l \in ConversationLinks, e \in Evidence : Owes(x, l, e) => Owes(y, l, e)
  BY <1>1, Committed
<1>4. x.does # "rest" => y.does # "rest" /\ y.job = x.job
  BY <1>1, Committed
<1>5. y = converters'[c]
  BY <1>1
<1>6. AtWork(converters[c])'
  BY <1>2, <1>5
<1> QED BY <1>1, <1>3, <1>4, <1>5, <1>6 DEF Goes

LEMMA StandsGoes ==
  ASSUME ConvergeInv, NEW c \in Converters, RowsOnly({}), converters'[c] = converters[c]
  PROVE  Goes(c)
<1>1. Converge!After({}, {})[c] = converters[c]
  BY DEF Converge!After
<1> QED BY <1>1, CommitGoes

\* What is asked of the jobs and of the converters is still asked of them.
LEMMA AllGo ==
  ASSUME ConvergeInv, \A c \in Converters : Goes(c),
         convergeJobs \cup failedJobs \subseteq (convergeJobs \cup failedJobs)'
  PROVE  /\ \A c \in Converters : AtWork(converters[c])'
         /\ \A l \in ConversationLinks, e \in Evidence : Owed(l, e) => Owed(l, e)'
         /\ \A l \in ConversationLinks : Chained(l) => Chained(l)'
<1>1. \A c \in Converters : AtWork(converters[c])'
  BY DEF Goes
<1>2. \A l \in ConversationLinks, e \in Evidence : Owed(l, e) => Owed(l, e)'
  BY DEF Goes, Owed
<1>3. \A l \in ConversationLinks : Chained(l) => Chained(l)'
  BY DEF Goes, Chained
<1> QED BY <1>1, <1>2, <1>3

\* A first job of a side covers every pair of its own.
LEMMA FirstJobs ==
  /\ \A l \in ConversationLinks, e \in Evidence :
       Covers(Converge!Job("link", l, 0), l, e) /\ Covers(Converge!Job("evidence", e, 0), l, e)
  /\ \A l \in ConversationLinks : PairJob(Converge!Job("link", l, 0)) /\ Chains(Converge!Job("link", l, 0), l)
  /\ \A e \in Evidence : PairJob(Converge!Job("evidence", e, 0))
<1>1. \A i \in ConversationLinks \cup Evidence : i \in Nat /\ 0 < i
  BY ConvergeBounds DEF Converge!ConvergenceConstants
<1> QED BY <1>1, JobParts DEF Covers, PairJob, Chains

\* What a step must show: the rows tell what they are, and no pair is forgotten.
LEMMA ConvergeAgain ==
  ASSUME ConvergeInv, BondsTell', CreditsTell',
         proofs' \in [Evidence -> {"none", "unbound", "bound"}],
         \A j \in (convergeJobs \cup failedJobs)' : PairJob(j),
         converters' = [c \in Converters |-> converters'[c]],
         \A c \in Converters : AtWork(converters[c])', changes' \in 0..MaxChanges,
         \A l \in ConversationLinks, e \in Evidence :
           Converge!Active(l)' /\ Converge!Bound(e)' => Paid(l, e)' \/ Owed(l, e)',
         \A l \in ConversationLinks : bonds'[l].pending => Chained(l)'
  PROVE  ConvergeInv'
<1>1. \A j \in (convergeJobs \cup failedJobs)' : PairJob(j)'
  BY DEF PairJob
<1>2. ConvergeTypes'
  BY <1>1 DEF ConvergeTypes
<1> QED BY <1>2 DEF ConvergeInv

LEMMA Changed ==
  ASSUME ConvergeInv, Converge!Change
  PROVE  changes' \in 0..MaxChanges
BY ConvergeBounds DEF Converge!Change, ConvergeInv, ConvergeTypes, Converge!ConvergenceConstants

LEMMA CreateLinkConverges ==
  ASSUME ConvergeInv, NEW i \in ConversationLinks, NEW who \in Businesses, NEW p \in BOOLEAN,
         Converge!CreateLink(i, who, p)
  PROVE  ConvergeInv'
<1>1. bonds \in [ConversationLinks -> [state : {"none", "active", "tombstone"},
                                      lead : SUBSET Businesses, pending : BOOLEAN]]
  BY DEF ConvergeInv, ConvergeTypes, BondsTell
<1>2. bonds[i].state = "none" /\ bonds[i].lead = {} /\ ~Converge!Active(i)
  BY DEF Converge!CreateLink, Converge!NoBond, Converge!Active
<1>3. \A l \in ConversationLinks : l # i => bonds'[l] = bonds[l]
  BY <1>1 DEF Converge!CreateLink
<1>4. bonds'[i].state = "active" /\ bonds'[i].lead = {who} /\ bonds'[i].pending = p
  BY <1>1 DEF Converge!CreateLink
<1>5. \A l \in ConversationLinks : l # i => (Converge!Active(l)' <=> Converge!Active(l))
  BY <1>3 DEF Converge!Active
<1>6. BondsTell'
  <2>1. bonds' \in [ConversationLinks -> [state : {"none", "active", "tombstone"},
                                         lead : SUBSET Businesses, pending : BOOLEAN]]
    BY <1>1 DEF Converge!CreateLink
  <2>2. \A l \in ConversationLinks :
          \/ Converge!Active(l)' /\ \E b \in Businesses : bonds'[l].lead = {b}
          \/ ~Converge!Active(l)' /\ bonds'[l].lead = {} /\ ~bonds'[l].pending
    BY <1>3, <1>4, <1>5 DEF ConvergeInv, ConvergeTypes, BondsTell, Converge!Active
  <2>3. \A l \in ConversationLinks : bonds[l].lead # {who}
    BY DEF Converge!CreateLink, Converge!Linked
  <2>4. \A l, k \in ConversationLinks : Converge!Active(l)' /\ bonds'[k].lead = bonds'[l].lead => l = k
    BY <1>3, <1>4, <1>5, <2>3 DEF ConvergeInv, ConvergeTypes, BondsTell
  <2> QED BY <2>1, <2>2, <2>4 DEF BondsTell
<1>7. RowsOnly({})
  <2>1. \A l \in ConversationLinks : Converge!Active(l) => bonds'[l] = bonds[l]
    BY <1>2, <1>3
  <2>2. \A e \in Evidence : Converge!Bound(e) => Converge!Bound(e)'
    BY DEF Converge!CreateLink, Converge!Bound
  <2> QED BY <2>1, <2>2 DEF RowsOnly
<1>8. \A c \in Converters : Goes(c)
  BY <1>7, StandsGoes DEF Converge!CreateLink
<1>9. convergeJobs' = convergeJobs \cup {Converge!Job("link", i, 0)} /\ failedJobs' = failedJobs
  BY DEF Converge!CreateLink, Converge!Enqueue, Converge!LinkJobs
<1>10. /\ \A c \in Converters : AtWork(converters[c])'
       /\ \A l \in ConversationLinks, e \in Evidence : Owed(l, e) => Owed(l, e)'
       /\ \A l \in ConversationLinks : Chained(l) => Chained(l)'
  BY <1>8, <1>9, AllGo
<1>11. \A l \in ConversationLinks, e \in Evidence :
         Converge!Active(l)' /\ Converge!Bound(e)' => Paid(l, e)' \/ Owed(l, e)'
  <2> SUFFICES ASSUME NEW l \in ConversationLinks, NEW e \in Evidence, Converge!Active(l)', Converge!Bound(e)'
               PROVE  Paid(l, e)' \/ Owed(l, e)'
    OBVIOUS
  <2>1. CASE l = i
    BY <1>9, <2>1, FirstJobs DEF Owed, Covers
  <2>2. CASE l # i
    <3>1. Converge!Active(l) /\ Converge!Bound(e) /\ bonds'[l].lead = bonds[l].lead
      BY <1>3, <1>5, <2>2 DEF Converge!CreateLink, Converge!Bound
    <3>2. Paid(l, e) => Paid(l, e)'
      BY <3>1 DEF Paid, Converge!CreateLink
    <3> QED BY <1>10, <3>1, <3>2 DEF ConvergeInv
  <2> QED BY <2>1, <2>2
<1>12. \A l \in ConversationLinks : bonds'[l].pending => Chained(l)'
  <2> SUFFICES ASSUME NEW l \in ConversationLinks, bonds'[l].pending PROVE Chained(l)'
    OBVIOUS
  <2>1. CASE l = i
    BY <1>9, <2>1, FirstJobs DEF Chained, Chains
  <2>2. CASE l # i
    BY <1>3, <1>10, <2>2 DEF ConvergeInv
  <2> QED BY <2>1, <2>2
<1>13. CreditsTell' /\ proofs' \in [Evidence -> {"none", "unbound", "bound"}]
       /\ converters' = [c \in Converters |-> converters'[c]]
  BY DEF Converge!CreateLink, ConvergeInv, ConvergeTypes, CreditsTell
<1>14. \A j \in (convergeJobs \cup failedJobs)' : PairJob(j)
  BY <1>9, FirstJobs DEF ConvergeInv, ConvergeTypes
<1>15. changes' \in 0..MaxChanges
  BY Changed DEF Converge!CreateLink
<1> QED BY <1>6, <1>10, <1>11, <1>12, <1>13, <1>14, <1>15, ConvergeAgain

\* Evidence that becomes bound asks for its own pairs; nothing else changes.
LEMMA EvidenceConverges ==
  ASSUME ConvergeInv, NEW i \in Evidence,
         \/ \E bound \in BOOLEAN : Converge!CreateEvidence(i, bound)
         \/ Converge!Bind(i)
  PROVE  ConvergeInv'
<1>0. /\ bonds' = bonds /\ credits' = credits /\ converters' = converters /\ failedJobs' = failedJobs
      /\ proofs' \in [Evidence -> {"none", "unbound", "bound"}]
      /\ \A e \in Evidence : e # i => proofs'[e] = proofs[e]
      /\ proofs[i] # "bound"
      /\ \/ convergeJobs' = convergeJobs \cup {Converge!Job("evidence", i, 0)}
         \/ convergeJobs' = convergeJobs /\ proofs'[i] # "bound"
      /\ changes' \in 0..MaxChanges
  <2>0. proofs \in [Evidence -> {"none", "unbound", "bound"}] /\ changes \in 0..MaxChanges
    BY DEF ConvergeInv, ConvergeTypes
  <2>1. CASE Converge!Bind(i)
    BY <2>0, <2>1 DEF Converge!Bind, Converge!Enqueue, Converge!EvidenceJobs
  <2>2. ASSUME NEW bound \in BOOLEAN, Converge!CreateEvidence(i, bound)
        PROVE  <1>0!:
    BY <2>0, <2>2, Changed DEF Converge!CreateEvidence, Converge!Enqueue, Converge!EvidenceJobs
  <2> QED BY <2>1, <2>2
<1>1. \A l \in ConversationLinks : Converge!Active(l)' <=> Converge!Active(l)
  BY <1>0 DEF Converge!Active
<1>2. BondsTell' /\ CreditsTell'
  BY <1>0, <1>1 DEF ConvergeInv, ConvergeTypes, BondsTell, CreditsTell
<1>3. RowsOnly({})
  BY <1>0 DEF RowsOnly, Converge!Bound
<1>4. \A c \in Converters : Goes(c)
  BY <1>0, <1>3, StandsGoes
<1>5. convergeJobs \cup failedJobs \subseteq (convergeJobs \cup failedJobs)'
  BY <1>0
<1>6. /\ \A c \in Converters : AtWork(converters[c])'
      /\ \A l \in ConversationLinks, e \in Evidence : Owed(l, e) => Owed(l, e)'
      /\ \A l \in ConversationLinks : Chained(l) => Chained(l)'
  BY <1>4, <1>5, AllGo
<1>7. \A l \in ConversationLinks, e \in Evidence :
         Converge!Active(l)' /\ Converge!Bound(e)' => Paid(l, e)' \/ Owed(l, e)'
  <2> SUFFICES ASSUME NEW l \in ConversationLinks, NEW e \in Evidence, Converge!Active(l)', Converge!Bound(e)'
               PROVE  Paid(l, e)' \/ Owed(l, e)'
    OBVIOUS
  <2>1. CASE e = i
    <3>1. Converge!Job("evidence", i, 0) \in convergeJobs'
      BY <1>0, <2>1 DEF Converge!Bound
    <3> QED BY <3>1, <2>1, FirstJobs DEF Owed, Covers
  <2>2. CASE e # i
    <3>1. Converge!Active(l) /\ Converge!Bound(e)
      BY <1>0, <1>1, <2>2 DEF Converge!Bound
    <3>2. Paid(l, e) => Paid(l, e)'
      BY <1>0 DEF Paid
    <3> QED BY <1>6, <3>1, <3>2 DEF ConvergeInv
  <2> QED BY <2>1, <2>2
<1>8. \A l \in ConversationLinks : bonds'[l].pending => Chained(l)'
  BY <1>0, <1>6 DEF ConvergeInv
<1>9. converters' = [c \in Converters |-> converters'[c]]
  BY <1>0 DEF ConvergeInv, ConvergeTypes
<1>10. \A j \in (convergeJobs \cup failedJobs)' : PairJob(j)
  BY <1>0, FirstJobs DEF ConvergeInv, ConvergeTypes
<1> QED BY <1>0, <1>2, <1>6, <1>7, <1>8, <1>9, <1>10, ConvergeAgain

LEMMA BackfillConverges ==
  ASSUME ConvergeInv, Converge!Backfill
  PROVE  ConvergeInv'
<1>0. /\ bonds' = bonds /\ proofs' = proofs /\ credits' = credits /\ converters' = converters
      /\ failedJobs' = failedJobs
      /\ convergeJobs' = convergeJobs \cup {Converge!Job("link", l, 0) : l \in {k \in ConversationLinks : Converge!Active(k)}}
  BY DEF Converge!Backfill, Converge!Enqueue, Converge!LinkJobs
<1>1. \A l \in ConversationLinks : Converge!Active(l)' <=> Converge!Active(l)
  BY <1>0 DEF Converge!Active
<1>2. BondsTell' /\ CreditsTell' /\ proofs' \in [Evidence -> {"none", "unbound", "bound"}]
      /\ converters' = [c \in Converters |-> converters'[c]]
  BY <1>0, <1>1 DEF ConvergeInv, ConvergeTypes, BondsTell, CreditsTell
<1>3. RowsOnly({})
  BY <1>0 DEF RowsOnly, Converge!Bound
<1>4. \A c \in Converters : Goes(c)
  BY <1>0, <1>3, StandsGoes
<1>5. convergeJobs \cup failedJobs \subseteq (convergeJobs \cup failedJobs)'
  BY <1>0
<1>6. /\ \A c \in Converters : AtWork(converters[c])'
      /\ \A l \in ConversationLinks, e \in Evidence : Owed(l, e) => Owed(l, e)'
      /\ \A l \in ConversationLinks : Chained(l) => Chained(l)'
  BY <1>4, <1>5, AllGo
<1>7. \A l \in ConversationLinks, e \in Evidence :
         Converge!Active(l)' /\ Converge!Bound(e)' => Paid(l, e)' \/ Owed(l, e)'
  BY <1>0, <1>1, <1>6 DEF ConvergeInv, Converge!Bound, Paid
<1>8. \A l \in ConversationLinks : bonds'[l].pending => Chained(l)'
  BY <1>0, <1>6 DEF ConvergeInv
<1>10. \A j \in (convergeJobs \cup failedJobs)' : PairJob(j)
  BY <1>0, FirstJobs DEF ConvergeInv, ConvergeTypes
<1>11. changes' \in 0..MaxChanges
  BY Changed DEF Converge!Backfill
<1> QED BY <1>2, <1>6, <1>7, <1>8, <1>10, <1>11, ConvergeAgain

\* A merge leaves the other links and what their leads are credited as they are.
LEMMA TransferConverges ==
  ASSUME ConvergeInv, NEW i \in ConversationLinks, NEW who \in Businesses, Converge!Transfer(i, who)
  PROVE  ConvergeInv'
<1>1. bonds \in [ConversationLinks -> [state : {"none", "active", "tombstone"},
                                      lead : SUBSET Businesses, pending : BOOLEAN]]
      /\ Converge!Active(i) /\ \A l \in ConversationLinks : bonds[l].lead # {who}
  BY DEF ConvergeInv, ConvergeTypes, BondsTell, Converge!Transfer, Converge!Linked
<1>2. \A l \in ConversationLinks : l # i => bonds'[l] = bonds[l]
  BY <1>1 DEF Converge!Transfer
<1>3. bonds'[i].state = "active" /\ bonds'[i].lead = {who} /\ bonds'[i].pending = bonds[i].pending
  BY <1>1 DEF Converge!Transfer, Converge!Active
<1>4. \A l \in ConversationLinks : Converge!Active(l)' <=> Converge!Active(l)
  BY <1>1, <1>2, <1>3 DEF Converge!Active
<1>5. BondsTell'
  <2>1. bonds' \in [ConversationLinks -> [state : {"none", "active", "tombstone"},
                                         lead : SUBSET Businesses, pending : BOOLEAN]]
    BY <1>1 DEF Converge!Transfer
  <2>2. \A l \in ConversationLinks :
          \/ Converge!Active(l)' /\ \E b \in Businesses : bonds'[l].lead = {b}
          \/ ~Converge!Active(l)' /\ bonds'[l].lead = {} /\ ~bonds'[l].pending
    BY <1>1, <1>2, <1>3, <1>4 DEF ConvergeInv, ConvergeTypes, BondsTell
  <2>4. \A l, k \in ConversationLinks : Converge!Active(l)' /\ bonds'[k].lead = bonds'[l].lead => l = k
    BY <1>1, <1>2, <1>3, <1>4 DEF ConvergeInv, ConvergeTypes, BondsTell
  <2> QED BY <2>1, <2>2, <2>4 DEF BondsTell
<1>6. RowsOnly({i})
  <2>1. \A e \in Evidence : Converge!Bound(e) => Converge!Bound(e)'
    BY DEF Converge!Transfer, Converge!Bound
  <2> QED BY <1>2, <2>1 DEF RowsOnly
<1>7. converters' = Converge!After({i}, {}) /\ failedJobs' = failedJobs /\ proofs' = proofs
      /\ convergeJobs' = convergeJobs \cup {Converge!Job("link", i, 0)}
  BY DEF Converge!Transfer, Converge!Commit, Converge!Enqueue, Converge!LinkJobs
<1>8. \A c \in Converters : Goes(c)
  BY <1>6, <1>7, CommitGoes
<1>9. convergeJobs \cup failedJobs \subseteq (convergeJobs \cup failedJobs)'
  BY <1>7
<1>10. /\ \A c \in Converters : AtWork(converters[c])'
       /\ \A l \in ConversationLinks, e \in Evidence : Owed(l, e) => Owed(l, e)'
       /\ \A l \in ConversationLinks : Chained(l) => Chained(l)'
  BY <1>8, <1>9, AllGo
<1> DEFINE moved == {k \in credits : {k.lead} = bonds[i].lead}
           copies == {Converge!Credit(Converge!Copied, k.evidence, who) : k \in moved}
<1>11. credits' = (credits \ moved) \cup copies
  BY DEF Converge!Transfer
<1>12. CreditsTell'
  <2>1. \A k \in copies : k.link = Converge!Copied /\ k.evidence \in Evidence /\ k.lead = who
    BY DEF ConvergeInv, ConvergeTypes, CreditsTell, Converge!Credit
  <2> HIDE DEF copies
  <2> QED BY <1>11, <2>1 DEF ConvergeInv, ConvergeTypes, CreditsTell
<1>13. \A l \in ConversationLinks, e \in Evidence :
         Converge!Active(l)' /\ Converge!Bound(e)' => Paid(l, e)' \/ Owed(l, e)'
  <2> SUFFICES ASSUME NEW l \in ConversationLinks, NEW e \in Evidence, Converge!Active(l)', Converge!Bound(e)'
               PROVE  Paid(l, e)' \/ Owed(l, e)'
    OBVIOUS
  <2>1. CASE l = i
    BY <1>7, <2>1, FirstJobs DEF Owed, Covers
  <2>2. CASE l # i
    <3>1. Converge!Active(l) /\ Converge!Bound(e) /\ bonds'[l].lead = bonds[l].lead
      BY <1>2, <1>4, <1>7, <2>2 DEF Converge!Bound
    <3>2. bonds[i].lead # bonds[l].lead
      BY <2>2, <3>1 DEF ConvergeInv, ConvergeTypes, BondsTell
    <3>3. Paid(l, e) => Paid(l, e)'
      <4>1. \A k \in credits : {k.lead} = bonds[l].lead => k \in credits'
        BY <1>11, <3>2
      <4> QED BY <3>1, <4>1 DEF Paid
    <3> QED BY <1>10, <3>1, <3>3 DEF ConvergeInv
  <2> QED BY <2>1, <2>2
<1>14. \A l \in ConversationLinks : bonds'[l].pending => Chained(l)'
  <2> SUFFICES ASSUME NEW l \in ConversationLinks, bonds'[l].pending PROVE Chained(l)'
    OBVIOUS
  <2>1. bonds[l].pending
    BY <1>2, <1>3
  <2> QED BY <1>10, <2>1 DEF ConvergeInv
<1>15. proofs' \in [Evidence -> {"none", "unbound", "bound"}]
       /\ converters' = [c \in Converters |-> converters'[c]]
  BY <1>7 DEF Converge!After, ConvergeInv, ConvergeTypes
<1>16. \A j \in (convergeJobs \cup failedJobs)' : PairJob(j)
  BY <1>7, FirstJobs DEF ConvergeInv, ConvergeTypes
<1>17. changes' \in 0..MaxChanges
  BY Changed DEF Converge!Transfer
<1> QED BY <1>5, <1>10, <1>12, <1>13, <1>14, <1>15, <1>16, <1>17, ConvergeAgain

\* A step that leaves the links' and the evidence's rows as they are.
LEMMA SameRowsAgain ==
  ASSUME ConvergeInv, UNCHANGED <<bonds, proofs, credits>>,
         \A j \in (convergeJobs \cup failedJobs)' : PairJob(j),
         converters' = [c \in Converters |-> converters'[c]],
         \A c \in Converters : AtWork(converters[c])', changes' \in 0..MaxChanges,
         \A l \in ConversationLinks, e \in Evidence :
           Converge!Active(l) /\ Converge!Bound(e) /\ Owed(l, e) => Owed(l, e)',
         \A l \in ConversationLinks : Converge!Active(l) /\ Chained(l) => Chained(l)'
  PROVE  ConvergeInv'
<1>1. \A l \in ConversationLinks : Converge!Active(l)' <=> Converge!Active(l)
  BY DEF Converge!Active
<1>2. BondsTell' /\ CreditsTell' /\ proofs' \in [Evidence -> {"none", "unbound", "bound"}]
  BY <1>1 DEF ConvergeInv, ConvergeTypes, BondsTell, CreditsTell
<1>3. \A l \in ConversationLinks, e \in Evidence :
         Converge!Active(l)' /\ Converge!Bound(e)' => Paid(l, e)' \/ Owed(l, e)'
  BY <1>1 DEF ConvergeInv, Converge!Bound, Paid
<1>4. \A l \in ConversationLinks : bonds'[l].pending => Chained(l)'
  BY DEF ConvergeInv, ConvergeTypes, BondsTell
<1> QED BY <1>2, <1>3, <1>4, ConvergeAgain

LEMMA SameRowsOnly ==
  ASSUME UNCHANGED <<bonds, proofs>>
  PROVE  RowsOnly({})
BY DEF RowsOnly, Converge!Bound

LEMMA BeginUnlinkConverges ==
  ASSUME ConvergeInv, NEW d \in Converters, NEW i \in ConversationLinks, Converge!BeginUnlink(d, i)
  PROVE  ConvergeInv'
<1>0. PICK x : x = [does |-> "unlink", job |-> Converge!Job("unlink", i, 0),
                     page |-> {k \in credits : {k.lead} = bonds[i].lead}]
  OBVIOUS
<1>1. converters[d] = Converge!Rest /\ Converge!Active(i) /\ UNCHANGED <<bonds, proofs, credits, convergeJobs, failedJobs>>
  BY DEF Converge!BeginUnlink, Converge!Resting
<1>2. converters' = [converters EXCEPT ![d] = x]
  BY <1>0 DEF Converge!BeginUnlink
<1>3. x.does = "unlink" /\ x.job = Converge!Job("unlink", i, 0) /\ \A k \in x.page : {k.lead} = bonds[i].lead
  BY <1>0
<1>4. AtWork(x)'
  <2>1. x = [does |-> "unlink", job |-> x.job, page |-> x.page]
    BY <1>0
  <2>2. UnlinkJob(x.job) /\ x.job.id = i
    BY <1>3, JobParts DEF UnlinkJob
  <2>3. Converge!Active(x.job.id)' /\ \A k \in x.page : {k.lead} = bonds'[x.job.id].lead
    BY <1>1, <1>3, <2>2 DEF Converge!Active
  <2> QED BY <2>1, <2>2, <2>3 DEF AtWork, UnlinkJob
<1>5. \A c \in Converters : c # d => converters'[c] = converters[c]
  BY <1>2 DEF ConvergeInv, ConvergeTypes
<1>6. converters'[d] = x
  BY <1>2 DEF ConvergeInv, ConvergeTypes
<1>7. \A c \in Converters : c # d => Goes(c)
  BY <1>1, <1>5, SameRowsOnly, StandsGoes
<1>8. \A c \in Converters : AtWork(converters[c])'
  BY <1>4, <1>6, <1>7 DEF Goes
<1>9. converters[d].does = "rest"
  BY <1>1, RowParts
<1>10. ASSUME NEW l \in ConversationLinks, NEW e \in Evidence, Owed(l, e)
       PROVE  Owed(l, e)'
  <2>1. ~Owes(converters[d], l, e)
    BY <1>9 DEF Owes
  <2> QED BY <1>1, <1>7, <1>10, <2>1 DEF Owed, Goes
<1>11. ASSUME NEW l \in ConversationLinks, Chained(l)
       PROVE  Chained(l)'
  BY <1>1, <1>7, <1>9, <1>11 DEF Chained, Goes
<1>12. \A j \in (convergeJobs \cup failedJobs)' : PairJob(j)
  BY <1>1 DEF ConvergeInv, ConvergeTypes
<1>13. converters' = [c \in Converters |-> converters'[c]]
  BY <1>2 DEF ConvergeInv, ConvergeTypes
<1>14. changes' \in 0..MaxChanges
  BY Changed DEF Converge!BeginUnlink
<1> QED BY <1>1, <1>8, <1>10, <1>11, <1>12, <1>13, <1>14, SameRowsAgain

\* Unlinking takes the credits of the link's lead, which is no other link's.
LEMMA UnlinkConverges ==
  ASSUME ConvergeInv, NEW d \in Converters, Converge!Unlink(d)
  PROVE  ConvergeInv'
<1>0. PICK x, i : x = converters[d] /\ i = x.job.id
  OBVIOUS
<1>1. x.does = "unlink" /\ UnlinkJob(x.job) /\ Converge!Active(i) /\ \A k \in x.page : {k.lead} = bonds[i].lead
  <2>1. AtWork(x) /\ x.does = "unlink"
    BY <1>0 DEF ConvergeInv, ConvergeTypes, Converge!Unlink, Converge!Working
  <2>2. UnlinkJob(x.job) /\ Converge!Active(x.job.id) /\ \A k \in x.page : {k.lead} = bonds[x.job.id].lead
    BY <2>1, WorkKinds
  <2> QED BY <1>0, <2>1, <2>2
<1>2. i \in ConversationLinks
  BY <1>0, <1>1, JobParts DEF UnlinkJob
<1>3. /\ bonds' = [bonds EXCEPT ![i] = Converge!Tombstone] /\ credits' = credits \ x.page
      /\ converters' = [Converge!After({i}, {}) EXCEPT ![d] = Converge!Rest]
      /\ UNCHANGED <<proofs, convergeJobs, failedJobs, changes>>
  BY <1>0 DEF Converge!Unlink, Converge!Ends
<1>4. x.job.side = "unlink"
  BY <1>1, JobParts DEF UnlinkJob
<1>5. bonds \in [ConversationLinks -> [state : {"none", "active", "tombstone"},
                                      lead : SUBSET Businesses, pending : BOOLEAN]]
  BY DEF ConvergeInv, ConvergeTypes, BondsTell
<1>6. \A l \in ConversationLinks : l # i => bonds'[l] = bonds[l] /\ (Converge!Active(l)' <=> Converge!Active(l))
  BY <1>3, <1>5 DEF Converge!Active
<1>7. bonds'[i] = Converge!Tombstone
  BY <1>2, <1>3, <1>5
<1>8. bonds'[i].state = "tombstone" /\ bonds'[i].lead = {} /\ bonds'[i].pending = FALSE /\ ~Converge!Active(i)'
  BY <1>7 DEF Converge!Tombstone, Converge!NoBond, Converge!Active
<1>9. BondsTell'
  <2>0. Converge!Tombstone \in [state : {"none", "active", "tombstone"}, lead : SUBSET Businesses, pending : BOOLEAN]
    BY DEF Converge!Tombstone, Converge!NoBond
  <2>1. bonds' \in [ConversationLinks -> [state : {"none", "active", "tombstone"},
                                         lead : SUBSET Businesses, pending : BOOLEAN]]
    BY <1>3, <1>5, <2>0
  <2>2. \A l \in ConversationLinks :
          \/ Converge!Active(l)' /\ \E b \in Businesses : bonds'[l].lead = {b}
          \/ ~Converge!Active(l)' /\ bonds'[l].lead = {} /\ ~bonds'[l].pending
    BY <1>6, <1>8 DEF ConvergeInv, ConvergeTypes, BondsTell
  <2>3. \A l, k \in ConversationLinks : Converge!Active(l)' /\ bonds'[k].lead = bonds'[l].lead => l = k
    <3> SUFFICES ASSUME NEW l \in ConversationLinks, NEW k \in ConversationLinks, Converge!Active(l)',
                        bonds'[k].lead = bonds'[l].lead
                 PROVE  l = k
      OBVIOUS
    <3>1. l # i
      BY <1>8
    <3>2. bonds'[l].lead # {}
      BY <1>6, <3>1 DEF ConvergeInv, ConvergeTypes, BondsTell
    <3>3. k # i
      BY <1>8, <3>2
    <3> QED BY <1>6, <3>1, <3>3 DEF ConvergeInv, ConvergeTypes, BondsTell
  <2> QED BY <2>1, <2>2, <2>3 DEF BondsTell
<1>10. RowsOnly({i})
  BY <1>3, <1>6 DEF RowsOnly, Converge!Bound
<1>11. \A c \in Converters : c # d => Goes(c)
  <2> SUFFICES ASSUME NEW c \in Converters, c # d PROVE Goes(c)
    OBVIOUS
  <2>1. converters'[c] = Converge!After({i}, {})[c]
    BY <1>3 DEF Converge!After
  <2> QED BY <1>10, <2>1, CommitGoes
<1>12. converters'[d] = Converge!Rest
  BY <1>3 DEF Converge!After
<1>13. \A c \in Converters : AtWork(converters[c])'
  <2>1. AtWork(converters[d])'
    BY <1>12 DEF AtWork
  <2> QED BY <1>11, <2>1 DEF Goes
<1>14. \A l \in ConversationLinks, e \in Evidence : Owed(l, e) => Owed(l, e)'
  <2> SUFFICES ASSUME NEW l \in ConversationLinks, NEW e \in Evidence, Owed(l, e) PROVE Owed(l, e)'
    OBVIOUS
  <2>1. ~Owes(converters[d], l, e)
    BY <1>0, <1>1 DEF Owes
  <2> QED BY <1>3, <1>11, <2>1 DEF Owed, Goes
<1>15. \A l \in ConversationLinks : Chained(l) => Chained(l)'
  <2> SUFFICES ASSUME NEW l \in ConversationLinks, Chained(l) PROVE Chained(l)'
    OBVIOUS
  <2>1. ~Chains(converters[d].job, l)
    BY <1>0, <1>4 DEF Chains
  <2> QED BY <1>3, <1>11, <2>1 DEF Chained, Goes
<1>16. \A l \in ConversationLinks, e \in Evidence :
         Converge!Active(l)' /\ Converge!Bound(e)' => Paid(l, e)' \/ Owed(l, e)'
  <2> SUFFICES ASSUME NEW l \in ConversationLinks, NEW e \in Evidence, Converge!Active(l)', Converge!Bound(e)'
               PROVE  Paid(l, e)' \/ Owed(l, e)'
    OBVIOUS
  <2>1. l # i
    BY <1>8
  <2>2. Converge!Active(l) /\ Converge!Bound(e) /\ bonds'[l].lead = bonds[l].lead
    BY <1>3, <1>6, <2>1 DEF Converge!Bound
  <2>3. bonds[i].lead # bonds[l].lead
    BY <1>2, <2>1, <2>2 DEF ConvergeInv, ConvergeTypes, BondsTell
  <2>4. Paid(l, e) => Paid(l, e)'
    <3>1. \A k \in credits : {k.lead} = bonds[l].lead => k \in credits'
      BY <1>1, <1>3, <2>3
    <3> QED BY <2>2, <3>1 DEF Paid
  <2> QED BY <1>14, <2>2, <2>4 DEF ConvergeInv
<1>17. \A l \in ConversationLinks : bonds'[l].pending => Chained(l)'
  BY <1>6, <1>8, <1>15 DEF ConvergeInv
<1>18. CreditsTell' /\ proofs' \in [Evidence -> {"none", "unbound", "bound"}]
       /\ converters' = [c \in Converters |-> converters'[c]] /\ changes' \in 0..MaxChanges
  BY <1>3 DEF Converge!After, ConvergeInv, ConvergeTypes, CreditsTell
<1>19. \A j \in (convergeJobs \cup failedJobs)' : PairJob(j)
  BY <1>3 DEF ConvergeInv, ConvergeTypes
<1> QED BY <1>9, <1>13, <1>16, <1>17, <1>18, <1>19, ConvergeAgain

\* A page is the next ones, and it is full when it is not all of them.
LEMMA PageFacts ==
  ASSUME NEW ids \in SUBSET Nat, Converge!IsFiniteSet(ids), NEW from \in Nat,
         NEW page, page = Converge!FirstAfter(ids, from)
  PROVE  /\ \A i \in page : i \in ids /\ i > from
         /\ \A k \in ids : from < k =>
              k \in page \/ (Converge!Cardinality(page) = LinksPerJob /\ \A i \in page : i < k)
<1>1. LinksPerJob \in Nat
  BY ConvergeBounds DEF Converge!ConvergenceConstants
<1>2. PICK T : T = {i \in ids : from < i}
  OBVIOUS
<1>3. T \in SUBSET Nat /\ Converge!IsFiniteSet(T)
  BY <1>2, FS_Subset, SameSizesToo
<1>4. \A i \in T : UpTo(T, i) = {j \in ids : from < j /\ j <= i}
  BY <1>2 DEF UpTo
<1>5. page = {i \in ids : i > from /\ Converge!Cardinality({j \in ids : from < j /\ j <= i}) <= LinksPerJob}
  BY DEF Converge!FirstAfter
<1>6. page = {i \in T : Converge!Cardinality(UpTo(T, i)) <= LinksPerJob}
  <2>1. \A i \in page : i \in T /\ Converge!Cardinality(UpTo(T, i)) <= LinksPerJob
    BY <1>2, <1>4, <1>5
  <2>2. \A i \in T : Converge!Cardinality(UpTo(T, i)) <= LinksPerJob => i \in page
    BY <1>2, <1>4, <1>5
  <2> QED BY <2>1, <2>2
<1>7. ASSUME NEW k \in ids, from < k, k \notin page
      PROVE  Converge!Cardinality(page) = LinksPerJob /\ \A i \in page : i < k
  <2>1. k \in T
    BY <1>2, <1>7
  <2>2. IsFiniteSet(T) /\ page = {i \in T : Cardinality(UpTo(T, i)) <= LinksPerJob}
    BY <1>3, <1>6, SameSizesToo
  <2>3. Cardinality(page) = LinksPerJob /\ \A i \in page : i < k
    BY <1>1, <1>3, <1>7, <2>1, <2>2, FirstOnes
  <2> QED BY <2>3, SameSizesToo
<1>8. \A i \in page : i \in ids /\ i > from
  BY <1>2, <1>6
<1> QED BY <1>7, <1>8

LEMMA JobBegins ==
  ASSUME ConvergeInv, NEW j, PairJob(j), j.side = "link" => Converge!Active(j.id),
         NEW x, x = [does |-> j.side, job |-> j, page |-> Converge!PageOf(j)]
  PROVE  /\ AtWork(x) /\ x.does # "rest" /\ x.job = j
         /\ \A l \in ConversationLinks, e \in Evidence :
              Converge!Active(l) /\ Converge!Bound(e) /\ Covers(j, l, e) => Owes(x, l, e)
<1>1. x.does = j.side /\ x.job = j /\ x.page = Converge!PageOf(j)
      /\ x = [does |-> x.does, job |-> x.job, page |-> x.page]
  OBVIOUS
<1>2. j.after \in Nat /\ (j.side = "link" \/ j.side = "evidence")
  BY DEF PairJob
<1>3. /\ {e \in Evidence : Converge!Bound(e)} \in SUBSET Nat /\ Converge!IsFiniteSet({e \in Evidence : Converge!Bound(e)})
      /\ {l \in ConversationLinks : Converge!Active(l)} \in SUBSET Nat
      /\ Converge!IsFiniteSet({l \in ConversationLinks : Converge!Active(l)})
  <2>1. {e \in Evidence : Converge!Bound(e)} \in SUBSET Evidence
        /\ {l \in ConversationLinks : Converge!Active(l)} \in SUBSET ConversationLinks
    OBVIOUS
  <2> QED BY <2>1, FS_Subset, SameSizesToo, ConvergeBounds DEF Converge!ConvergenceConstants
<1>4. CASE j.side = "link"
  <2>1. x.page = Converge!FirstAfter({e \in Evidence : Converge!Bound(e)}, j.after)
    BY <1>1, <1>4 DEF Converge!PageOf
  <2>0. PICK ids : ids = {e \in Evidence : Converge!Bound(e)}
    OBVIOUS
  <2>a. ids \in SUBSET Nat /\ Converge!IsFiniteSet(ids) /\ x.page = Converge!FirstAfter(ids, j.after)
    BY <1>3, <2>0, <2>1
  <2>b. \A i \in x.page : i \in ids /\ i > j.after
    BY <1>2, <2>a, PageFacts
  <2>c. \A k \in ids : j.after < k =>
          k \in x.page \/ (Converge!Cardinality(x.page) = LinksPerJob /\ \A i \in x.page : i < k)
    BY <1>2, <2>a, PageFacts
  <2>2. /\ \A i \in x.page : i \in {e \in Evidence : Converge!Bound(e)} /\ i > j.after
        /\ \A k \in {e \in Evidence : Converge!Bound(e)} : j.after < k =>
             k \in x.page \/ (Converge!Cardinality(x.page) = LinksPerJob /\ \A i \in x.page : i < k)
    BY <2>0, <2>b, <2>c
  <2>3. AtWork(x)
    <3>1. x = [does |-> "link", job |-> x.job, page |-> x.page]
      BY <1>1, <1>4
    <3>2. PairJob(x.job) /\ x.job.side = "link" /\ Converge!Active(x.job.id)
      BY <1>1, <1>4
    <3>3. \A e \in x.page : e \in Evidence /\ Converge!Bound(e) /\ e > x.job.after
      BY <1>1, <2>2
    <3> QED BY <3>1, <3>2, <3>3 DEF AtWork
  <2>4. \A l \in ConversationLinks, e \in Evidence :
          Converge!Active(l) /\ Converge!Bound(e) /\ Covers(j, l, e) => Owes(x, l, e)
    BY <1>1, <1>4, <2>2 DEF Covers, Owes, Ahead
  <2> QED BY <1>1, <1>4, <2>3, <2>4
<1>5. CASE j.side = "evidence"
  <2>1. x.page = Converge!FirstAfter({l \in ConversationLinks : Converge!Active(l)}, j.after)
    BY <1>1, <1>5 DEF Converge!PageOf
  <2>0. PICK ids : ids = {l \in ConversationLinks : Converge!Active(l)}
    OBVIOUS
  <2>a. ids \in SUBSET Nat /\ Converge!IsFiniteSet(ids) /\ x.page = Converge!FirstAfter(ids, j.after)
    BY <1>3, <2>0, <2>1
  <2>b. \A i \in x.page : i \in ids /\ i > j.after
    BY <1>2, <2>a, PageFacts
  <2>c. \A k \in ids : j.after < k =>
          k \in x.page \/ (Converge!Cardinality(x.page) = LinksPerJob /\ \A i \in x.page : i < k)
    BY <1>2, <2>a, PageFacts
  <2>2. /\ \A i \in x.page : i \in {l \in ConversationLinks : Converge!Active(l)} /\ i > j.after
        /\ \A k \in {l \in ConversationLinks : Converge!Active(l)} : j.after < k =>
             k \in x.page \/ (Converge!Cardinality(x.page) = LinksPerJob /\ \A i \in x.page : i < k)
    BY <2>0, <2>b, <2>c
  <2>3. AtWork(x)
    <3>1. x = [does |-> "evidence", job |-> x.job, page |-> x.page]
      BY <1>1, <1>5
    <3>2. PairJob(x.job) /\ x.job.side = "evidence"
      BY <1>1, <1>5
    <3>3. \A l \in x.page : l \in ConversationLinks /\ Converge!Active(l) /\ l > x.job.after
      BY <1>1, <2>2
    <3> QED BY <3>1, <3>2, <3>3 DEF AtWork
  <2>4. \A l \in ConversationLinks, e \in Evidence :
          Converge!Active(l) /\ Converge!Bound(e) /\ Covers(j, l, e) => Owes(x, l, e)
    BY <1>1, <1>5, <2>2 DEF Covers, Owes, Ahead
  <2> QED BY <1>1, <1>5, <2>3, <2>4
<1> QED BY <1>2, <1>4, <1>5

\* A converter that begins takes over what its job covers.
LEMMA BeginConverges ==
  ASSUME ConvergeInv, NEW d \in Converters, Converge!Begin(d)
  PROVE  ConvergeInv'
<1>1. PICK job \in convergeJobs :
        /\ convergeJobs' = convergeJobs \ {job}
        /\ converters' = IF job.side = "link" /\ ~Converge!Active(job.id) THEN converters
                         ELSE [converters EXCEPT ![d] =
                                 [does |-> job.side, job |-> job, page |-> Converge!PageOf(job)]]
  BY DEF Converge!Begin
<1>2. converters[d].does = "rest" /\ UNCHANGED <<bonds, proofs, credits, failedJobs, changes>>
  BY RowParts DEF Converge!Begin, Converge!Resting
<1>3. PairJob(job) /\ converters = [c \in Converters |-> converters[c]]
  BY DEF ConvergeInv, ConvergeTypes
<1>4. \A j \in (convergeJobs \cup failedJobs)' : PairJob(j)
  BY <1>1, <1>2 DEF ConvergeInv, ConvergeTypes
<1>5. changes' \in 0..MaxChanges
  BY <1>2 DEF ConvergeInv, ConvergeTypes
<1>6. \A l \in ConversationLinks, e \in Evidence : ~Owes(converters[d], l, e)
  BY <1>2 DEF Owes
<1>7. CASE job.side = "link" /\ ~Converge!Active(job.id)
  <2>1. converters' = converters
    BY <1>1, <1>7
  <2>2. \A c \in Converters : Goes(c)
    BY <1>2, <2>1, SameRowsOnly, StandsGoes
  <2>3. \A c \in Converters : AtWork(converters[c])'
    BY <2>2 DEF Goes
  <2>4. \A l \in ConversationLinks, e \in Evidence : Converge!Active(l) => ~Covers(job, l, e) /\ ~Chains(job, l)
    BY <1>7 DEF Covers, Chains
  <2>5. \A l \in ConversationLinks, e \in Evidence : Converge!Active(l) /\ Converge!Bound(e) /\ Owed(l, e) => Owed(l, e)'
    BY <1>1, <1>2, <2>1, <2>4 DEF Owed
  <2>6. \A l \in ConversationLinks : Converge!Active(l) /\ Chained(l) => Chained(l)'
    BY <1>1, <1>2, <1>7, <2>1 DEF Chained, Chains
  <2> QED BY <1>2, <1>3, <1>4, <1>5, <2>1, <2>3, <2>5, <2>6, SameRowsAgain
<1>8. CASE ~(job.side = "link" /\ ~Converge!Active(job.id))
  <2>1. PICK x : x = [does |-> job.side, job |-> job, page |-> Converge!PageOf(job)]
    OBVIOUS
  <2>2. converters' = [converters EXCEPT ![d] = x]
    BY <1>1, <1>8, <2>1
  <2>3. AtWork(x) /\ x.does # "rest" /\ x.job = job
        /\ \A l \in ConversationLinks, e \in Evidence :
             Converge!Active(l) /\ Converge!Bound(e) /\ Covers(job, l, e) => Owes(x, l, e)
    BY <1>3, <1>8, <2>1, JobBegins
  <2>4. converters'[d] = x /\ converters' = [c \in Converters |-> converters'[c]]
        /\ \A c \in Converters : c # d => converters'[c] = converters[c]
    BY <1>3, <2>2
  <2>5. \A c \in Converters : c # d => Goes(c)
    BY <1>2, <2>4, SameRowsOnly, StandsGoes
  <2>6. AtWork(x)'
    BY <1>2, <2>3 DEF AtWork, PairJob, UnlinkJob, Converge!Active, Converge!Bound
  <2>7. \A c \in Converters : AtWork(converters[c])'
    BY <2>4, <2>5, <2>6 DEF Goes
  <2>8. ASSUME NEW l \in ConversationLinks, NEW e \in Evidence, Converge!Active(l), Converge!Bound(e), Owed(l, e)
        PROVE  Owed(l, e)'
    <3>1. CASE Covers(job, l, e)
      <4>1. Owes(converters'[d], l, e)
        BY <2>3, <2>4, <2>8, <3>1
      <4> QED BY <4>1 DEF Owed
    <3>2. CASE \E j \in convergeJobs' \cup failedJobs' : Covers(j, l, e)
      BY <3>2 DEF Owed
    <3>3. CASE \E c \in Converters : Owes(converters[c], l, e)
      <4>1. PICK c \in Converters : Owes(converters[c], l, e)
        BY <3>3
      <4>2. c # d
        BY <1>6, <4>1
      <4>3. Owes(converters'[c], l, e)
        BY <2>5, <4>1, <4>2 DEF Goes
      <4> QED BY <4>3 DEF Owed
    <3> QED BY <1>1, <1>2, <2>8, <3>1, <3>2, <3>3 DEF Owed
  <2>9. ASSUME NEW l \in ConversationLinks, Chained(l)
        PROVE  Chained(l)'
    <3>1. CASE Chains(job, l)
      BY <2>3, <2>4, <3>1 DEF Chained
    <3>2. CASE \E j \in convergeJobs' \cup failedJobs' : Chains(j, l)
      BY <3>2 DEF Chained
    <3>3. CASE \E c \in Converters : converters[c].does # "rest" /\ Chains(converters[c].job, l)
      <4>1. PICK c \in Converters : converters[c].does # "rest" /\ Chains(converters[c].job, l)
        BY <3>3
      <4>2. c # d
        BY <1>2, <4>1
      <4> QED BY <2>5, <4>1, <4>2 DEF Goes, Chained
    <3> QED BY <1>1, <1>2, <2>9, <3>1, <3>2, <3>3 DEF Chained
  <2> QED BY <1>2, <1>4, <1>5, <2>4, <2>7, <2>8, <2>9, SameRowsAgain
<1> QED BY <1>7, <1>8

\* What a converter that finishes has paid, and what it passes on.
LEMMA JobEnds ==
  ASSUME ConvergeInv, NEW x, AtWork(x), x.does \in {"link", "evidence"}
  PROVE  /\ \A k \in Converge!New(x) : /\ k.link \in ConversationLinks /\ k.evidence \in Evidence
                                       /\ k.lead \in Businesses
         /\ \A j \in Converge!NextJob(x) : PairJob(j) /\ (x.does = "link" => Chains(j, x.job.id))
         /\ \A l \in ConversationLinks, e \in Evidence :
              Converge!Active(l) /\ Owes(x, l, e) =>
                \/ \E k \in Converge!New(x) : k.evidence = e /\ {k.lead} = bonds[l].lead
                \/ \E j \in Converge!NextJob(x) : Covers(j, l, e)
<1>0. /\ PairJob(x.job)
      /\ x.does = "link" => /\ x.job.side = "link" /\ Converge!Active(x.job.id) /\ x.job.id \in ConversationLinks
                            /\ \A i \in x.page : i \in Evidence
      /\ x.does = "evidence" => /\ x.job.side = "evidence" /\ x.job.id \in Evidence
                                /\ \A i \in x.page : i \in ConversationLinks /\ Converge!Active(i)
      /\ x.job = Converge!Job(x.job.side, x.job.id, x.job.after)
  BY WorkKinds DEF PairJob
<1>1. /\ x.does = "link" => Converge!Pairs(x) = {x.job.id} \X x.page
      /\ x.does = "evidence" => Converge!Pairs(x) = x.page \X {x.job.id}
  BY DEF Converge!Pairs
<1>2. \A p \in Converge!Pairs(x) : p[1] \in ConversationLinks /\ Converge!Active(p[1]) /\ p[2] \in Evidence
  BY <1>0, <1>1
<1>3. \A p \in Converge!Pairs(x) : {CHOOSE who \in bonds[p[1]].lead : TRUE} = bonds[p[1]].lead
                                   /\ (CHOOSE who \in bonds[p[1]].lead : TRUE) \in Businesses
  <2> TAKE p \in Converge!Pairs(x)
  <2>1. PICK b \in Businesses : bonds[p[1]].lead = {b}
    BY <1>2 DEF ConvergeInv, ConvergeTypes, BondsTell
  <2>2. (CHOOSE who \in {b} : TRUE) = b
    OBVIOUS
  <2> QED BY <2>1, <2>2
<1>4. \A k \in Converge!New(x) : k.link \in ConversationLinks /\ k.evidence \in Evidence /\ k.lead \in Businesses
  <2> TAKE k \in Converge!New(x)
  <2>1. PICK p \in Converge!Pairs(x) : k = Converge!Credit(p[1], p[2], CHOOSE who \in bonds[p[1]].lead : TRUE)
    BY DEF Converge!New
  <2>2. k.link = p[1] /\ k.evidence = p[2] /\ k.lead = (CHOOSE who \in bonds[p[1]].lead : TRUE)
    BY <2>1 DEF Converge!Credit
  <2> QED BY <1>2, <1>3, <2>2
<1>5. \A l, e : <<l, e>> \in Converge!Pairs(x) =>
        \E k \in Converge!New(x) : k.evidence = e /\ {k.lead} = bonds[l].lead
  <2> SUFFICES ASSUME NEW l, NEW e, <<l, e>> \in Converge!Pairs(x)
               PROVE  \E k \in Converge!New(x) : k.evidence = e /\ {k.lead} = bonds[l].lead
    OBVIOUS
  <2>1. PICK k : k = Converge!Credit(l, e, CHOOSE who \in bonds[l].lead : TRUE)
    OBVIOUS
  <2>2. k \in Converge!New(x)
    <3>1. PICK p \in Converge!Pairs(x) : p = <<l, e>>
      OBVIOUS
    <3>2. p[1] = l /\ p[2] = e
      BY <3>1
    <3>3. k = Converge!Credit(p[1], p[2], CHOOSE who \in bonds[p[1]].lead : TRUE)
      BY <2>1, <3>2
    <3> QED BY <3>3 DEF Converge!New
  <2>3. k.evidence = e /\ k.lead = CHOOSE who \in bonds[l].lead : TRUE
    BY <2>1 DEF Converge!Credit
  <2>4. {CHOOSE who \in bonds[l].lead : TRUE} = bonds[l].lead
    BY <1>3
  <2> QED BY <2>2, <2>3, <2>4
<1>6. LinksPerJob \in Nat \ {0} /\ ConversationLinks \in SUBSET Nat /\ Evidence \in SUBSET Nat
      /\ Converge!IsFiniteSet(ConversationLinks) /\ Converge!IsFiniteSet(Evidence)
  BY ConvergeBounds DEF Converge!ConvergenceConstants
<1>7. x.page \in SUBSET Nat /\ Converge!IsFiniteSet(x.page)
  BY <1>0, <1>6, FS_Subset, SameSizesToo
<1>8. Converge!Cardinality(x.page) = LinksPerJob =>
        /\ Converge!Max(x.page) \in x.page
        /\ Converge!NextJob(x) = {Converge!Job(x.job.side, x.job.id, Converge!Max(x.page))}
  <2> SUFFICES ASSUME Converge!Cardinality(x.page) = LinksPerJob
               PROVE  Converge!Max(x.page) \in x.page /\ Converge!NextJob(x) = {Converge!Job(x.job.side, x.job.id, Converge!Max(x.page))}
    OBVIOUS
  <2>1. PICK m \in x.page : Converge!Cardinality(UpTo(x.page, m)) = Converge!Cardinality(x.page)
    <3>1. Converge!Cardinality(x.page) \in 1..Converge!Cardinality(x.page)
      BY <1>6
    <3> QED BY <1>7, <3>1, Places, SameSizesToo
  <2>2. UpTo(x.page, m) \in SUBSET x.page
    BY DEF UpTo
  <2>3. UpTo(x.page, m) = x.page
    BY <1>7, <2>1, <2>2, FS_Subset, SameSizesToo
  <2>4. m \in x.page /\ \A i \in x.page : m >= i
    BY <1>7, <2>3 DEF UpTo
  <2>5. Converge!Max(x.page) \in x.page
    BY <2>4 DEF Converge!Max
  <2>6. {LinksPerJob} \cap {Converge!Cardinality(x.page)} = {LinksPerJob}
    OBVIOUS
  <2>7. Converge!NextJob(x) = {[x.job EXCEPT !.after = Converge!Max(x.page)]}
    BY <2>6 DEF Converge!NextJob
  <2>8. [x.job EXCEPT !.after = Converge!Max(x.page)] = Converge!Job(x.job.side, x.job.id, Converge!Max(x.page))
    BY <1>0 DEF Converge!Job
  <2> QED BY <2>5, <2>7, <2>8
<1>9. Converge!Cardinality(x.page) # LinksPerJob => Converge!NextJob(x) = {}
  BY DEF Converge!NextJob
<1>10. \A j \in Converge!NextJob(x) : PairJob(j) /\ (x.does = "link" => Chains(j, x.job.id))
  <2> SUFFICES ASSUME NEW j \in Converge!NextJob(x) PROVE PairJob(j) /\ (x.does = "link" => Chains(j, x.job.id))
    OBVIOUS
  <2>1. Converge!Max(x.page) \in Nat /\ j = Converge!Job(x.job.side, x.job.id, Converge!Max(x.page))
    BY <1>7, <1>8, <1>9
  <2> QED BY <1>0, <2>1, JobParts DEF PairJob, Chains
<1>11. ASSUME NEW l \in ConversationLinks, NEW e \in Evidence, Converge!Active(l), Owes(x, l, e)
       PROVE  \/ \E k \in Converge!New(x) : k.evidence = e /\ {k.lead} = bonds[l].lead
              \/ \E j \in Converge!NextJob(x) : Covers(j, l, e)
  <2>1. CASE <<l, e>> \in Converge!Pairs(x)
    BY <1>5, <2>1
  <2>2. CASE <<l, e>> \notin Converge!Pairs(x)
    <3>1. \/ x.does = "link" /\ x.job.id = l /\ e \notin x.page /\ Ahead(x, e)
          \/ x.does = "evidence" /\ x.job.id = e /\ l \notin x.page /\ Ahead(x, l)
      BY <1>1, <1>11, <2>2 DEF Owes
    <3>2. Converge!Cardinality(x.page) = LinksPerJob /\ (x.does = "link" => Converge!Max(x.page) < e)
          /\ (x.does = "evidence" => Converge!Max(x.page) < l)
      BY <1>8, <3>1 DEF Ahead
    <3>3. Covers(Converge!Job(x.job.side, x.job.id, Converge!Max(x.page)), l, e)
      BY <1>0, <3>1, <3>2, JobParts DEF Covers
    <3> QED BY <1>8, <3>2, <3>3
  <2> QED BY <2>1, <2>2
<1> QED BY <1>4, <1>10, <1>11

\* At the end of a page the pairs are paid, and the next page or the end is told.
LEMMA FinishConverges ==
  ASSUME ConvergeInv, NEW d \in Converters, Converge!Finish(d)
  PROVE  ConvergeInv'
<1>0. PICK x : x = converters[d]
  OBVIOUS
<1>1. PICK settled \in SUBSET ConversationLinks :
        settled = {l \in ConversationLinks :
                     x.does = "link" /\ x.job.id = l /\ Converge!NextJob(x) = {} /\ bonds[l].pending}
  OBVIOUS
<1>2. /\ x.does \in {"link", "evidence"} /\ credits' = credits \cup Converge!New(x)
      /\ convergeJobs' = convergeJobs \cup Converge!NextJob(x)
      /\ bonds' = [l \in ConversationLinks |->
                    IF l \in settled THEN [bonds[l] EXCEPT !.pending = FALSE] ELSE bonds[l]]
      /\ converters' = [Converge!After(settled, Converge!New(x) \ credits) EXCEPT ![d] = Converge!Rest]
      /\ UNCHANGED <<proofs, failedJobs, changes>>
  BY <1>0, <1>1 DEF Converge!Finish, Converge!Enqueue, Converge!Ends
<1>3. AtWork(x)
  BY <1>0 DEF ConvergeInv, ConvergeTypes
<1>4. /\ \A k \in Converge!New(x) : /\ k.link \in ConversationLinks /\ k.evidence \in Evidence
                                    /\ k.lead \in Businesses
      /\ \A j \in Converge!NextJob(x) : PairJob(j) /\ (x.does = "link" => Chains(j, x.job.id))
      /\ \A l \in ConversationLinks, e \in Evidence :
           Converge!Active(l) /\ Owes(x, l, e) =>
             \/ \E k \in Converge!New(x) : k.evidence = e /\ {k.lead} = bonds[l].lead
             \/ \E j \in Converge!NextJob(x) : Covers(j, l, e)
  BY <1>2, <1>3, JobEnds
<1>5. bonds \in [ConversationLinks -> [state : {"none", "active", "tombstone"},
                                      lead : SUBSET Businesses, pending : BOOLEAN]]
  BY DEF ConvergeInv, ConvergeTypes, BondsTell
<1>6. \A l \in ConversationLinks :
        /\ bonds'[l].state = bonds[l].state /\ bonds'[l].lead = bonds[l].lead
        /\ l \notin settled => bonds'[l] = bonds[l]
        /\ bonds'[l].pending <=> bonds[l].pending /\ l \notin settled
        /\ bonds'[l].pending \in BOOLEAN
  BY <1>2, <1>5
<1>7. \A l \in ConversationLinks : Converge!Active(l)' <=> Converge!Active(l)
  BY <1>6 DEF Converge!Active
<1>8. BondsTell'
  <2>1. bonds' \in [ConversationLinks -> [state : {"none", "active", "tombstone"},
                                         lead : SUBSET Businesses, pending : BOOLEAN]]
    BY <1>2, <1>5
  <2>2. \A l \in ConversationLinks :
          \/ Converge!Active(l)' /\ \E b \in Businesses : bonds'[l].lead = {b}
          \/ ~Converge!Active(l)' /\ bonds'[l].lead = {} /\ ~bonds'[l].pending
    BY <1>6, <1>7 DEF ConvergeInv, ConvergeTypes, BondsTell
  <2>3. \A l, k \in ConversationLinks : Converge!Active(l)' /\ bonds'[k].lead = bonds'[l].lead => l = k
    BY <1>6, <1>7 DEF ConvergeInv, ConvergeTypes, BondsTell
  <2> QED BY <2>1, <2>2, <2>3 DEF BondsTell
<1>9. RowsOnly(settled)
  BY <1>2, <1>6 DEF RowsOnly, Converge!Bound
<1>10. \A c \in Converters : c # d => Goes(c)
  <2> SUFFICES ASSUME NEW c \in Converters, c # d PROVE Goes(c)
    OBVIOUS
  <2>1. converters'[c] = Converge!After(settled, Converge!New(x) \ credits)[c]
    BY <1>2 DEF Converge!After
  <2> QED BY <1>9, <2>1, CommitGoes
<1>11. converters'[d] = Converge!Rest /\ converters' = [c \in Converters |-> converters'[c]]
  BY <1>2 DEF Converge!After
<1>12. \A c \in Converters : AtWork(converters[c])'
  <2>1. AtWork(converters[d])'
    BY <1>11 DEF AtWork
  <2> QED BY <1>10, <2>1 DEF Goes
<1>13. \A l \in ConversationLinks, e \in Evidence :
         Converge!Active(l)' /\ Converge!Bound(e)' => Paid(l, e)' \/ Owed(l, e)'
  <2> SUFFICES ASSUME NEW l \in ConversationLinks, NEW e \in Evidence, Converge!Active(l)', Converge!Bound(e)'
               PROVE  Paid(l, e)' \/ Owed(l, e)'
    OBVIOUS
  <2>1. Converge!Active(l) /\ Converge!Bound(e) /\ bonds'[l].lead = bonds[l].lead
    BY <1>2, <1>6, <1>7 DEF Converge!Bound
  <2>2. CASE Paid(l, e)
    BY <1>2, <2>1, <2>2 DEF Paid
  <2>3. CASE \E j \in convergeJobs \cup failedJobs : Covers(j, l, e)
    BY <1>2, <2>3 DEF Owed
  <2>4. CASE Owes(x, l, e)
    <3>1. CASE \E k \in Converge!New(x) : k.evidence = e /\ {k.lead} = bonds[l].lead
      BY <1>2, <2>1, <3>1 DEF Paid
    <3>2. CASE \E j \in Converge!NextJob(x) : Covers(j, l, e)
      BY <1>2, <3>2 DEF Owed
    <3> QED BY <1>4, <2>1, <2>4, <3>1, <3>2
  <2>5. ASSUME NEW c \in Converters, c # d, Owes(converters[c], l, e)
        PROVE  Owed(l, e)'
    BY <1>10, <2>5 DEF Goes, Owed
  <2>6. Paid(l, e) \/ Owed(l, e)
    BY <2>1 DEF ConvergeInv
  <2> QED BY <1>0, <2>2, <2>3, <2>4, <2>5, <2>6 DEF Owed
<1>14. \A l \in ConversationLinks : bonds'[l].pending => Chained(l)'
  <2> SUFFICES ASSUME NEW l \in ConversationLinks, bonds'[l].pending PROVE Chained(l)'
    OBVIOUS
  <2>1. bonds[l].pending /\ l \notin settled /\ Chained(l)
    BY <1>6 DEF ConvergeInv
  <2>2. CASE \E j \in convergeJobs \cup failedJobs : Chains(j, l)
    BY <1>2, <2>2 DEF Chained
  <2>3. CASE Chains(x.job, l)
    <3>1. x.does = "link" /\ x.job.id = l
      BY <1>2, <1>3, <2>3, WorkKinds DEF Chains
    <3>2. PICK j \in Converge!NextJob(x) : TRUE
      BY <1>1, <2>1, <3>1
    <3> QED BY <1>2, <1>4, <3>1, <3>2 DEF Chained
  <2>4. ASSUME NEW c \in Converters, c # d, converters[c].does # "rest", Chains(converters[c].job, l)
        PROVE  Chained(l)'
    BY <1>10, <2>4 DEF Goes, Chained
  <2> QED BY <1>0, <2>1, <2>2, <2>3, <2>4 DEF Chained
<1>15. CreditsTell'
  BY <1>2, <1>4 DEF ConvergeInv, ConvergeTypes, CreditsTell
<1>16. proofs' \in [Evidence -> {"none", "unbound", "bound"}] /\ changes' \in 0..MaxChanges
  BY <1>2 DEF ConvergeInv, ConvergeTypes
<1>17. \A j \in (convergeJobs \cup failedJobs)' : PairJob(j)
  BY <1>2, <1>4 DEF ConvergeInv, ConvergeTypes
<1> QED BY <1>8, <1>11, <1>12, <1>13, <1>14, <1>15, <1>16, <1>17, ConvergeAgain

\* What is lost or clashes gives its job back, or leaves it to the operator.
LEMMA GivesBack ==
  ASSUME ConvergeInv, NEW d \in Converters, Converge!Retry(d) \/ Converge!Fail(d)
  PROVE  ConvergeInv'
<1>0. PICK x : x = converters[d]
  OBVIOUS
<1>1. x.does \in {"stale", "clash"} /\ AtWork(x)
  BY <1>0 DEF ConvergeInv, ConvergeTypes, Converge!Retry, Converge!Fail, Converge!Working
<1>2. PairJob(x.job) \/ UnlinkJob(x.job)
  BY <1>1, WorkKinds
<1>3. /\ (convergeJobs \cup failedJobs)' = (convergeJobs \cup failedJobs)
           \cup ({x.job} \ {Converge!Job("unlink", l, 0) : l \in ConversationLinks})
      /\ converters' = [converters EXCEPT ![d] = Converge!Rest]
      /\ UNCHANGED <<bonds, proofs, credits, changes>>
  <2>1. CASE Converge!Retry(d)
    BY <1>0, <2>1 DEF Converge!Retry, Converge!Enqueue
  <2>2. CASE Converge!Fail(d)
    <3>1. x.does = "clash"
      BY <1>0, <2>2 DEF Converge!Fail, Converge!Working
    <3>2. PairJob(x.job)
      BY <1>1, <3>1, WorkKinds
    <3>3. \A l : x.job # Converge!Job("unlink", l, 0)
      BY <3>2, JobParts DEF PairJob
    <3>4. {x.job} \ {Converge!Job("unlink", l, 0) : l \in ConversationLinks} = {x.job}
      BY <3>3
    <3> QED BY <1>0, <2>2, <3>4 DEF Converge!Fail
  <2> QED BY <2>1, <2>2
<1>4. PairJob(x.job) => x.job \in (convergeJobs \cup failedJobs)'
  <2>1. PairJob(x.job) => \A l : x.job # Converge!Job("unlink", l, 0)
    BY JobParts DEF PairJob
  <2> QED BY <1>3, <2>1
<1>5. UnlinkJob(x.job) => x.job.side = "unlink"
  BY JobParts DEF UnlinkJob
<1>6. \A j \in (convergeJobs \cup failedJobs)' : PairJob(j)
  BY <1>2, <1>3 DEF UnlinkJob, ConvergeInv, ConvergeTypes
<1>7. converters = [c \in Converters |-> converters[c]]
  BY DEF ConvergeInv, ConvergeTypes
<1>8. converters'[d] = Converge!Rest /\ (\A c \in Converters : c # d => converters'[c] = converters[c])
      /\ converters' = [c \in Converters |-> converters'[c]]
  BY <1>3, <1>7
<1>9. \A c \in Converters : c # d => Goes(c)
  BY <1>3, <1>8, SameRowsOnly, StandsGoes
<1>10. \A c \in Converters : AtWork(converters[c])'
  <2>1. AtWork(converters[d])'
    BY <1>8 DEF AtWork
  <2> QED BY <1>9, <2>1 DEF Goes
<1>11. ASSUME NEW l \in ConversationLinks, NEW e \in Evidence, Owed(l, e)
       PROVE  Owed(l, e)'
  <2>1. CASE Owes(x, l, e)
    <3>1. Covers(x.job, l, e)
      BY <1>1, <2>1 DEF Owes
    <3>2. PairJob(x.job)
      BY <1>2, <1>5, <3>1 DEF Covers
    <3> QED BY <1>4, <3>1, <3>2 DEF Owed
  <2>2. ASSUME NEW c \in Converters, c # d, Owes(converters[c], l, e)
        PROVE  Owed(l, e)'
    BY <1>9, <2>2 DEF Goes, Owed
  <2>3. CASE \E j \in convergeJobs \cup failedJobs : Covers(j, l, e)
    BY <1>3, <2>3 DEF Owed
  <2> QED BY <1>0, <1>11, <2>1, <2>2, <2>3 DEF Owed
<1>12. ASSUME NEW l \in ConversationLinks, Chained(l)
       PROVE  Chained(l)'
  <2>1. CASE Chains(x.job, l)
    <3>1. PairJob(x.job)
      BY <1>2, <1>5, <2>1 DEF Chains
    <3> QED BY <1>4, <2>1, <3>1 DEF Chained
  <2>2. ASSUME NEW c \in Converters, c # d, converters[c].does # "rest", Chains(converters[c].job, l)
        PROVE  Chained(l)'
    BY <1>9, <2>2 DEF Goes, Chained
  <2>3. CASE \E j \in convergeJobs \cup failedJobs : Chains(j, l)
    BY <1>3, <2>3 DEF Chained
  <2> QED BY <1>0, <1>12, <2>1, <2>2, <2>3 DEF Chained
<1>13. changes' \in 0..MaxChanges
  BY <1>3 DEF ConvergeInv, ConvergeTypes
<1> QED BY <1>3, <1>6, <1>8, <1>10, <1>11, <1>12, <1>13, SameRowsAgain

LEMMA RequeueConverges ==
  ASSUME ConvergeInv, Converge!Requeue
  PROVE  ConvergeInv'
<1>1. /\ (convergeJobs \cup failedJobs)' = convergeJobs \cup failedJobs
      /\ UNCHANGED <<bonds, proofs, credits, converters, changes>>
  BY DEF Converge!Requeue, Converge!Enqueue
<1>2. \A c \in Converters : Goes(c)
  BY <1>1, SameRowsOnly, StandsGoes
<1>3. /\ \A c \in Converters : AtWork(converters[c])'
      /\ \A l \in ConversationLinks, e \in Evidence : Owed(l, e) => Owed(l, e)'
      /\ \A l \in ConversationLinks : Chained(l) => Chained(l)'
  BY <1>1, <1>2, AllGo
<1>4. /\ \A j \in (convergeJobs \cup failedJobs)' : PairJob(j)
      /\ converters' = [c \in Converters |-> converters'[c]] /\ changes' \in 0..MaxChanges
  BY <1>1 DEF ConvergeInv, ConvergeTypes
<1> QED BY <1>1, <1>3, <1>4, SameRowsAgain

LEMMA ConvergeInit == Converge!Init => ConvergeInv
<1> SUFFICES ASSUME Converge!Init PROVE ConvergeInv
  OBVIOUS
<1>1. Converge!NoBond \in [state : {"none", "active", "tombstone"}, lead : SUBSET Businesses, pending : BOOLEAN]
      /\ Converge!NoBond.state = "none" /\ Converge!NoBond.lead = {} /\ Converge!NoBond.pending = FALSE
  BY DEF Converge!NoBond
<1>2. \A l \in ConversationLinks : bonds[l] = Converge!NoBond /\ ~Converge!Active(l)
  BY <1>1 DEF Converge!Init, Converge!Active
<1>3. BondsTell
  BY <1>1, <1>2 DEF Converge!Init, BondsTell
<1>4. \A c \in Converters : AtWork(converters[c])
  BY DEF Converge!Init, AtWork, Converge!Rest
<1>5. ConvergeTypes
  BY <1>3, <1>4, ConvergeBounds DEF Converge!Init, ConvergeTypes, CreditsTell, Converge!ConvergenceConstants
<1> QED BY <1>1, <1>2, <1>5 DEF ConvergeInv

LEMMA ConvergeNext == ConvergeInv /\ [Converge!Next]_Converge!vars => ConvergeInv'
<1> SUFFICES ASSUME ConvergeInv, [Converge!Next]_Converge!vars PROVE ConvergeInv'
  OBVIOUS
<1>1. ASSUME NEW l \in ConversationLinks, NEW who \in Businesses,
             Converge!Transfer(l, who) \/ \E pending \in BOOLEAN : Converge!CreateLink(l, who, pending)
      PROVE  ConvergeInv'
  BY <1>1, TransferConverges, CreateLinkConverges
<1>2. ASSUME NEW e \in Evidence, Converge!Bind(e) \/ \E bound \in BOOLEAN : Converge!CreateEvidence(e, bound)
      PROVE  ConvergeInv'
  BY <1>2, EvidenceConverges
<1>3. ASSUME NEW c \in Converters, Converge!Begin(c) \/ Converge!Finish(c) \/ Converge!Unlink(c) \/ Converge!Retry(c) \/ Converge!Fail(c)
      PROVE  ConvergeInv'
  BY <1>3, BeginConverges, FinishConverges, UnlinkConverges, GivesBack
<1>4. ASSUME NEW c \in Converters, NEW l \in ConversationLinks, Converge!BeginUnlink(c, l)
      PROVE  ConvergeInv'
  BY <1>4, BeginUnlinkConverges
<1>5. CASE UNCHANGED Converge!vars
  <2>1. UNCHANGED <<bonds, proofs, credits, convergeJobs, failedJobs, converters, changes>>
    BY <1>5 DEF Converge!vars
  <2>2. \A c \in Converters : Goes(c)
    BY <2>1, SameRowsOnly, StandsGoes
  <2>3. /\ \A c \in Converters : AtWork(converters[c])'
        /\ \A l \in ConversationLinks, e \in Evidence : Owed(l, e) => Owed(l, e)'
        /\ \A l \in ConversationLinks : Chained(l) => Chained(l)'
    BY <2>1, <2>2, AllGo
  <2>4. /\ \A j \in (convergeJobs \cup failedJobs)' : PairJob(j)
        /\ converters' = [c \in Converters |-> converters'[c]] /\ changes' \in 0..MaxChanges
    BY <2>1 DEF ConvergeInv, ConvergeTypes
  <2> QED BY <2>1, <2>3, <2>4, SameRowsAgain
<1> QED BY <1>1, <1>2, <1>3, <1>4, <1>5, BackfillConverges, RequeueConverges DEF Converge!Next

LEMMA ConvergeGive == ConvergeInv => Converge!ConvergenceTypeOK /\ Converge!PairsMeet
<1> SUFFICES ASSUME ConvergeInv PROVE Converge!ConvergenceTypeOK /\ Converge!PairsMeet
  OBVIOUS
<1>1. Converge!ConvergenceTypeOK
  <2>2. \A l \in ConversationLinks :
          /\ bonds[l].state \in {"none", "active", "tombstone"} /\ bonds[l].lead \subseteq Businesses
          /\ bonds[l].pending => Converge!Active(l)
    BY DEF ConvergeInv, ConvergeTypes, BondsTell
  <2>3. \A l \in ConversationLinks : Converge!Cardinality(bonds[l].lead) = IF Converge!Active(l) THEN 1 ELSE 0
    <3> TAKE l \in ConversationLinks
    <3>1. CASE Converge!Active(l)
      BY <3>1, FS_Singleton, SameSizesToo DEF ConvergeInv, ConvergeTypes, BondsTell
    <3>2. CASE ~Converge!Active(l)
      BY <3>2, FS_EmptySet, SameSizesToo DEF ConvergeInv, ConvergeTypes, BondsTell
    <3> QED BY <3>1, <3>2
  <2>4. \A job \in convergeJobs \cup failedJobs : job.side \in {"link", "evidence"}
    BY DEF ConvergeInv, ConvergeTypes, PairJob
  <2>5. \A e \in Evidence : proofs[e] \in {"none", "unbound", "bound"}
    BY DEF ConvergeInv, ConvergeTypes
  <2> QED BY <2>2, <2>3, <2>4, <2>5 DEF Converge!ConvergenceTypeOK, ConvergeInv, ConvergeTypes, CreditsTell
<1>2. Converge!PairsMeet
  <2> SUFFICES ASSUME convergeJobs = {}, failedJobs = {}, \A c \in Converters : Converge!Resting(c),
                      NEW l \in ConversationLinks, Converge!Active(l)
               PROVE  /\ ~bonds[l].pending
                      /\ \A e \in Evidence :
                           Converge!Bound(e) => \E k \in credits : k.evidence = e /\ {k.lead} = bonds[l].lead
    BY DEF Converge!PairsMeet
  <2>1. \A c \in Converters : converters[c].does = "rest"
    BY RowParts DEF Converge!Resting
  <2>2. ~Chained(l) /\ \A e \in Evidence : ~Owed(l, e)
    BY <2>1 DEF Chained, Owed, Owes
  <2> QED BY <2>2 DEF ConvergeInv, Paid
<1> QED BY <1>1, <1>2

------------------------------------------------------------------------------
\* CrmEvidence: a merge hands on what it saw, and revives nothing.
EvidenceRow == [touchpoint : Credited, authority : Authorities, lead : Leads, of : Nat, root : Nat]

\* Somebody revoked the assertion, what it descends from or another copy of it.
Broken(i) == \E k \in revoked : Credit!Root(k) = Credit!Root(i)

\* A copy is made of an assertion whose lead is gone, and descends from what that
\* one does: what was revoked when it was copied is revoked at the root.
Descends(i) ==
  /\ evidence[i].of \in 0..(i - 1) /\ evidence[i].root \in 0..(i - 1)
  /\ evidence[i].of = 0 <=> evidence[i].root = 0
  /\ Credit!Root(i) \in DOMAIN evidence /\ evidence[Credit!Root(i)].root = 0
  /\ evidence[Credit!Root(i)].touchpoint = evidence[i].touchpoint
  /\ evidence[i].of # 0 =>
       /\ evidence[i].root = Credit!Root(evidence[i].of) /\ evidence[evidence[i].of].lead \notin alive
       /\ evidence[i].of \in revoked => Credit!Root(i) \in revoked

\* A merge handed every credit of its lead on (and its events, or it dropped them).
HandsOn(i) ==
  mergedInto[evidence[i].lead] # Credit!NoLead /\ ~Broken(i) =>
    \E k \in DOMAIN evidence : /\ Credit!Root(k) = Credit!Root(i) /\ evidence[k].touchpoint = evidence[i].touchpoint
                               /\ evidence[k].lead = mergedInto[evidence[i].lead]

LedgerTypes ==
  /\ evidence \in Seq(EvidenceRow) /\ Len(evidence) <= MaxAssertions
  /\ revoked \in SUBSET DOMAIN evidence
  /\ alive \in SUBSET Leads /\ eventLeads \in SUBSET Leads /\ anchored \in SUBSET Leads
  /\ dropped \in SUBSET Leads
  /\ mergedInto \in [Leads -> Leads \cup {Credit!NoLead}]
LedgerTells ==
  /\ LedgerTypes
  /\ \A i \in DOMAIN evidence : Descends(i)
  /\ \A i \in DOMAIN evidence : HandsOn(i)
  /\ \A l \in Leads : mergedInto[l] # Credit!NoLead => l \notin alive
  /\ \A l \in eventLeads : mergedInto[l] # Credit!NoLead /\ l \notin dropped => mergedInto[l] \in eventLeads

\* A transaction that nothing doomed still sees what its leads have.
Merging(x) ==
  /\ x = [kind |-> "merge", from |-> x.from, to |-> x.to, about |-> x.about]
  /\ x.from \in alive /\ x.to \in alive /\ x.from # x.to /\ x.about.event \in {"none", "copied", "dropped"}
  /\ x.about.live \in SUBSET DOMAIN evidence
  /\ \A i \in x.about.live : /\ evidence[i].lead = x.from
                             /\ i \in revoked => Credit!Root(i) \in revoked
  /\ \A i \in DOMAIN evidence : evidence[i].lead = x.from /\ ~Broken(i) => i \in x.about.live
  /\ x.from \in eventLeads => x.about.event # "none"
Revoking(x) ==
  /\ x = [kind |-> "revoke", from |-> x.from, to |-> x.to, about |-> x.about]
  /\ x.from \in alive /\ x.about \in SUBSET DOMAIN evidence
  /\ \A i \in x.about : evidence[i].lead = x.from
Writing(x) == x = Credit!Idle \/ x = Credit!Doomed \/ Merging(x) \/ Revoking(x)

EvidenceTells ==
  /\ LedgerTells
  /\ writers = [w \in Writers |-> writers[w]]
  /\ \A w \in Writers : Writing(writers[w])

\* --- What a step may do without the transactions it does not doom noticing.
Grows == \A i \in DOMAIN evidence : i \in DOMAIN evidence' /\ evidence'[i] = evidence[i]
Notes(written, added) ==
  /\ Grows /\ revoked \subseteq revoked'
  /\ \A l \in alive : l \notin written => l \in alive'
  /\ \A i \in DOMAIN evidence' :
       i \notin DOMAIN evidence =>
         evidence'[i].lead \in written \/ \E row \in added : row.lead = evidence'[i].lead
  /\ \A l \in eventLeads' : l \notin eventLeads => l \in written \/ \E row \in added : row.lead = l
  /\ \A i \in revoked' : i \notin revoked => Credit!LeadOf(i) \in written \cup {Credit!NoLead} \/ Credit!Root(i) = i

LEMMA RootsKept ==
  ASSUME Grows, NEW i \in DOMAIN evidence
  PROVE  Credit!Root(i)' = Credit!Root(i) /\ Credit!Root(i)' = IF evidence'[i].root = 0 THEN i ELSE evidence'[i].root
BY DEF Grows, Credit!Root

LEMMA BrokenKept ==
  ASSUME LedgerTypes, Grows, revoked \subseteq revoked', NEW i \in DOMAIN evidence, Broken(i)
  PROVE  Broken(i)'
<1>1. PICK k \in revoked : Credit!Root(k) = Credit!Root(i)
  BY DEF Broken
<1>2. k \in DOMAIN evidence /\ k \in revoked'
  BY DEF LedgerTypes
<1>3. Credit!Root(k)' = Credit!Root(k) /\ Credit!Root(i)' = Credit!Root(i)
  BY <1>2, RootsKept
<1> QED BY <1>1, <1>2, <1>3 DEF Broken

LEMMA WritingKinds ==
  ASSUME NEW x, Writing(x)
  PROVE  /\ x.kind \in {"idle", "doomed", "merge", "revoke"}
         /\ x.kind = "merge" => Merging(x)
         /\ x.kind = "revoke" => Revoking(x)
         /\ x.kind = "idle" <=> x = Credit!Idle
         /\ x.kind = "doomed" <=> x = Credit!Doomed
<1>1. Credit!Idle.kind = "idle" /\ Credit!Doomed.kind = "doomed"
  BY DEF Credit!Idle, Credit!Doomed
<1>2. Merging(x) => x.kind = "merge"
  BY DEF Merging
<1>3. Revoking(x) => x.kind = "revoke"
  BY DEF Revoking
<1> QED BY <1>1, <1>2, <1>3 DEF Writing

LEMMA MergeKept ==
  ASSUME LedgerTells, NEW written, NEW added, Notes(written, added), NEW x, Merging(x), ~Credit!Dooms(x, written, added)
  PROVE  Merging(x)'
<1>0. x.kind = "merge"
  BY DEF Merging
<1>1. x.from \notin written /\ x.to \notin written /\ \A row \in added : row.lead # x.from
  BY <1>0 DEF Credit!Dooms
<1>2. LedgerTypes /\ Grows /\ revoked \subseteq revoked'
  BY DEF LedgerTells, Notes
<1>3. x.from \in alive' /\ x.to \in alive' /\ (x.from \in eventLeads' => x.about.event # "none")
  BY <1>1 DEF Merging, Notes
<1>4. x.from \in Leads /\ x.from # Credit!NoLead
  BY CreditBounds DEF Merging, LedgerTells, LedgerTypes, Credit!EvidenceConstants
<1>5. \A i \in x.about.live : i \in DOMAIN evidence /\ i \in DOMAIN evidence' /\ evidence'[i].lead = x.from
  BY <1>2 DEF Merging, Grows
<1>6. ASSUME NEW i \in x.about.live, i \in revoked'
      PROVE  Credit!Root(i)' \in revoked'
  <2>1. Credit!Root(i)' = Credit!Root(i)
    BY <1>2, <1>5, RootsKept
  <2>2. CASE i \in revoked
    BY <1>2, <2>1, <2>2 DEF Merging
  <2>3. CASE i \notin revoked
    <3>1. Credit!LeadOf(i) = x.from
      BY DEF Merging, Credit!LeadOf
    <3>2. Credit!Root(i) = i
      BY <1>1, <1>4, <1>6, <2>3, <3>1 DEF Notes
    <3> QED BY <1>6, <2>1, <3>2
  <2> QED BY <2>2, <2>3
<1>7. ASSUME NEW i \in DOMAIN evidence', evidence'[i].lead = x.from, ~Broken(i)'
      PROVE  i \in x.about.live
  <2>1. i \in DOMAIN evidence /\ evidence'[i] = evidence[i]
    BY <1>1, <1>2, <1>7 DEF Notes, Grows
  <2>2. ~Broken(i)
    BY <1>2, <1>7, <2>1, BrokenKept
  <2> QED BY <1>7, <2>1, <2>2 DEF Merging
<1> QED BY <1>3, <1>5, <1>6, <1>7 DEF Merging

LEMMA RevokeKept ==
  ASSUME LedgerTells, NEW written, NEW added, Notes(written, added), NEW x, Revoking(x), ~Credit!Dooms(x, written, added)
  PROVE  Revoking(x)'
<1>1. x.from \notin written
  BY DEF Credit!Dooms
<1> QED BY <1>1 DEF Revoking, Notes, Grows

LEMMA CommitsKeep ==
  ASSUME EvidenceTells, NEW written, NEW added, Notes(written, added), NEW w \in Writers,
         NEW y, y = Credit!Commits(written, added)[w]
  PROVE  Writing(y)'
<1>1. PICK x : x = writers[w]
  OBVIOUS
<1>2. Writing(x) /\ LedgerTells
  BY <1>1 DEF EvidenceTells
<1>3. y = CASE x = Credit!Idle -> Credit!Idle [] x = Credit!Doomed -> Credit!Doomed
            [] OTHER -> IF Credit!Dooms(x, written, added) THEN Credit!Doomed ELSE x
  BY <1>1 DEF Credit!Commits
<1>4. y = Credit!Idle \/ y = Credit!Doomed \/ (y = x /\ ~Credit!Dooms(x, written, added))
  <2>1. CASE x = Credit!Idle
    BY <1>3, <2>1 DEF Credit!Idle, Credit!Doomed
  <2>2. CASE x = Credit!Doomed
    BY <1>3, <2>2 DEF Credit!Idle, Credit!Doomed
  <2>3. CASE x # Credit!Idle /\ x # Credit!Doomed
    BY <1>3, <2>3
  <2> QED BY <2>1, <2>2, <2>3
<1>5. CASE y = Credit!Idle \/ y = Credit!Doomed
  BY <1>5 DEF Writing
<1>6. CASE y = x /\ ~Credit!Dooms(x, written, added)
  <2>1. Merging(x) => Merging(y)'
    BY <1>2, <1>6, MergeKept
  <2>2. Revoking(x) => Revoking(y)'
    BY <1>2, <1>6, RevokeKept
  <2>3. x = Credit!Idle \/ x = Credit!Doomed \/ Merging(x) \/ Revoking(x)
    BY <1>2 DEF Writing
  <2> QED BY <1>6, <2>1, <2>2, <2>3 DEF Writing
<1> QED BY <1>4, <1>5, <1>6

LEMMA OpenKeeps ==
  ASSUME EvidenceTells, NEW written, NEW added, Notes(written, added), Credit!Open(written, added)
  PROVE  writers' = [w \in Writers |-> writers'[w]] /\ \A w \in Writers : Writing(writers[w])'
<1>1. writers' = Credit!Commits(written, added) /\ writers' = [w \in Writers |-> writers'[w]]
  BY DEF Credit!Open, Credit!Commits
<1>2. ASSUME NEW w \in Writers
      PROVE  Writing(writers[w])'
  <2>1. PICK y : y = Credit!Commits(written, added)[w]
    OBVIOUS
  <2>2. Writing(y)'
    BY <2>1, CommitsKeep
  <2>3. writers'[w] = y
    BY <1>1, <2>1
  <2> QED BY <2>2, <2>3
<1> QED BY <1>1, <1>2

LEMMA WriterEndsKeeps ==
  ASSUME EvidenceTells, NEW written, NEW added, Notes(written, added), NEW v \in Writers, Credit!Ends(v, written, added)
  PROVE  writers' = [w \in Writers |-> writers'[w]] /\ \A w \in Writers : Writing(writers[w])'
<1>1. writers' = [Credit!Commits(written, added) EXCEPT ![v] = Credit!Idle] /\ writers' = [w \in Writers |-> writers'[w]]
  BY DEF Credit!Ends, Credit!Commits
<1>2. ASSUME NEW w \in Writers
      PROVE  Writing(writers[w])'
  <2>1. PICK y : y = Credit!Commits(written, added)[w]
    OBVIOUS
  <2>2. Writing(y)'
    BY <2>1, CommitsKeep
  <2>3. writers'[w] = y \/ writers'[w] = Credit!Idle
    BY <1>1, <2>1 DEF Credit!Commits
  <2>4. Writing(Credit!Idle)'
    BY DEF Writing, Credit!Idle
  <2> QED BY <2>2, <2>3, <2>4 DEF Credit!Idle
<1> QED BY <1>1, <1>2

\* --- The ledger.  What a step that only revokes, links or deletes leaves as it is.
LEMMA NothingGrows ==
  ASSUME evidence' = evidence
  PROVE  Grows /\ \A i : Credit!Root(i)' = Credit!Root(i)
BY DEF Grows, Credit!Root

\* Rows that are added descend from nothing, or as copies do.
LEMMA DescentKept ==
  ASSUME LedgerTells, LedgerTypes', Grows, alive' \subseteq alive, NEW i \in DOMAIN evidence,
         revoked \subseteq revoked',
         \A k \in revoked' : k \notin revoked => Credit!Root(k) = k \/ evidence[k].lead \in alive
  PROVE  Descends(i)'
<1>1. Credit!Root(i)' = Credit!Root(i) /\ evidence'[i] = evidence[i] /\ i \in DOMAIN evidence' /\ Descends(i)
  BY RootsKept DEF Grows, LedgerTells
<1>2. Credit!Root(i) \in DOMAIN evidence
  BY <1>1 DEF Descends
<1>3. Credit!Root(i) \in DOMAIN evidence' /\ evidence'[Credit!Root(i)] = evidence[Credit!Root(i)]
  BY <1>2 DEF Grows
<1>4. ASSUME evidence[i].of # 0
      PROVE  /\ evidence[i].of \in DOMAIN evidence
             /\ evidence'[evidence[i].of] = evidence[evidence[i].of]
             /\ Credit!Root(evidence[i].of)' = Credit!Root(evidence[i].of)
  <2>0. evidence \in Seq(EvidenceRow) /\ evidence[i].of \in 0..(i - 1)
    BY <1>1 DEF LedgerTells, LedgerTypes, Descends
  <2>1. evidence[i].of \in DOMAIN evidence
    BY <2>0, <1>4
  <2>2. evidence'[evidence[i].of] = evidence[evidence[i].of]
    BY <2>1 DEF Grows
  <2>3. PICK k \in DOMAIN evidence : k = evidence[i].of
    BY <2>1
  <2>4. Credit!Root(k)' = Credit!Root(k)
    BY RootsKept
  <2>5. evidence'[i].of = k
    BY <1>1, <2>3
  <2> QED BY <2>1, <2>2, <2>3, <2>4, <2>5, <1>1 DEF Credit!Root
<1>5. ASSUME evidence[i].of # 0, evidence[i].of \in revoked'
      PROVE  Credit!Root(i)' \in revoked'
  <2>1. CASE evidence[i].of \in revoked
    BY <1>1, <1>5, <2>1 DEF Descends
  <2>2. CASE evidence[i].of \notin revoked
    <3>1. evidence[evidence[i].of].lead \notin alive
      BY <1>1, <1>5 DEF Descends
    <3>2. Credit!Root(evidence[i].of) = evidence[i].of
      BY <1>5, <2>2, <3>1
    <3>3. evidence[i].root = Credit!Root(evidence[i].of)
      BY <1>1, <1>5 DEF Descends
    <3>4. Credit!Root(i) = evidence[i].of
      BY <1>1, <1>5, <3>2, <3>3 DEF Descends, Credit!Root
    <3> QED BY <1>1, <1>5, <3>4
  <2> QED BY <2>1, <2>2
<1> QED BY <1>1, <1>3, <1>4, <1>5 DEF Descends

LEMMA HandsKept ==
  ASSUME LedgerTells, Grows, revoked \subseteq revoked', NEW i \in DOMAIN evidence,
         mergedInto'[evidence[i].lead] = mergedInto[evidence[i].lead]
  PROVE  HandsOn(i)'
<1>1. evidence'[i] = evidence[i] /\ Credit!Root(i)' = Credit!Root(i)
  BY RootsKept DEF Grows
<1> SUFFICES ASSUME mergedInto[evidence[i].lead] # Credit!NoLead, ~Broken(i)'
             PROVE  \E k \in DOMAIN evidence' :
                      /\ Credit!Root(k)' = Credit!Root(i)' /\ evidence'[k].touchpoint = evidence[i].touchpoint
                      /\ evidence'[k].lead = mergedInto[evidence[i].lead]
  BY <1>1 DEF HandsOn
<1>2. ~Broken(i)
  BY BrokenKept DEF LedgerTells
<1>3. PICK k \in DOMAIN evidence : /\ Credit!Root(k) = Credit!Root(i) /\ evidence[k].touchpoint = evidence[i].touchpoint
                                   /\ evidence[k].lead = mergedInto[evidence[i].lead]
  BY <1>2 DEF LedgerTells, HandsOn
<1>4. Credit!Root(k)' = Credit!Root(k) /\ evidence'[k] = evidence[k] /\ k \in DOMAIN evidence'
  BY RootsKept DEF Grows
<1> QED BY <1>1, <1>3, <1>4

\* A revocation of assertions whose leads it writes, or of first assertions.
LEMMA RevokeTells ==
  ASSUME LedgerTells, NEW ids \in SUBSET DOMAIN evidence, Credit!Revoke(ids),
         \A i \in ids : Credit!Root(i) = i \/ evidence[i].lead \in alive
  PROVE  LedgerTells' /\ Notes(Credit!Touched(ids), {})
<1>1. /\ UNCHANGED <<evidence, anchored, alive, mergedInto, eventLeads, dropped>>
      /\ revoked' = revoked \cup ids
  BY DEF Credit!Revoke
<1>2. LedgerTypes' /\ Grows /\ revoked \subseteq revoked' /\ alive' \subseteq alive
  BY <1>1, NothingGrows DEF LedgerTells, LedgerTypes
<1>3. \A i \in DOMAIN evidence' : Descends(i)'
  <2> TAKE i \in DOMAIN evidence'
  <2>1. i \in DOMAIN evidence
    BY <1>1
  <2>2. \A k \in revoked' : k \notin revoked => Credit!Root(k) = k \/ evidence[k].lead \in alive
    BY <1>1
  <2> QED BY <1>2, <2>1, <2>2, DescentKept
<1>4. \A i \in DOMAIN evidence' : HandsOn(i)'
  BY <1>1, <1>2, HandsKept
<1>5. LedgerTells'
  BY <1>1, <1>2, <1>3, <1>4 DEF LedgerTells
<1>6. \A i \in revoked' : i \notin revoked => Credit!LeadOf(i) \in Credit!Touched(ids) \cup {Credit!NoLead}
  BY <1>1 DEF Credit!Touched
<1> QED BY <1>1, <1>2, <1>5, <1>6 DEF Notes

LEMMA RevokeAuthorityKeeps ==
  ASSUME EvidenceTells, NEW w \in Writers, Credit!RevokeAuthority(w)
  PROVE  EvidenceTells'
<1>1. PICK x : x = writers[w]
  OBVIOUS
<1>2. Revoking(x)
  BY <1>1, WritingKinds DEF EvidenceTells, Credit!RevokeAuthority
<1>3. Credit!Revoke(x.about) /\ Credit!Ends(w, Credit!Touched(x.about), {})
  BY <1>1 DEF Credit!RevokeAuthority
<1>4. LedgerTells' /\ Notes(Credit!Touched(x.about), {})
  <2>1. x.about \in SUBSET DOMAIN evidence /\ \A i \in x.about : evidence[i].lead \in alive
    BY <1>2 DEF Revoking
  <2> QED BY <1>3, <2>1, RevokeTells DEF EvidenceTells
<1> QED BY <1>3, <1>4, WriterEndsKeeps DEF EvidenceTells

LEMMA WithdrawKeeps ==
  ASSUME EvidenceTells, NEW i \in DOMAIN evidence, Credit!Withdraw(i)
  PROVE  EvidenceTells'
<1>1. Credit!Revoke({i}) /\ Credit!Open(Credit!Touched({i}), {}) /\ Credit!Root(i) = i
  BY DEF Credit!Withdraw, Credit!Root
<1>2. {i} \in SUBSET DOMAIN evidence /\ \A k \in {i} : Credit!Root(k) = k
  BY <1>1
<1>3. LedgerTells' /\ Notes(Credit!Touched({i}), {})
  BY <1>1, <1>2, RevokeTells DEF EvidenceTells
<1> QED BY <1>1, <1>3, OpenKeeps DEF EvidenceTells

LEMMA DeleteKeeps ==
  ASSUME EvidenceTells, NEW l \in Leads, Credit!Delete(l)
  PROVE  EvidenceTells'
<1>1. /\ UNCHANGED <<evidence, revoked, anchored, mergedInto, eventLeads, dropped>>
      /\ alive' = alive \ {l} /\ Credit!Open({l}, {})
  BY DEF Credit!Delete
<1>2. LedgerTells
  BY DEF EvidenceTells
<1>3. LedgerTypes' /\ Grows /\ revoked \subseteq revoked' /\ alive' \subseteq alive
  BY <1>1, <1>2, NothingGrows DEF LedgerTells, LedgerTypes
<1>4. \A i \in DOMAIN evidence' : Descends(i)'
  <2>1. \A k \in revoked' : k \notin revoked => Credit!Root(k) = k \/ evidence[k].lead \in alive
    BY <1>1
  <2> QED BY <1>1, <1>2, <1>3, <2>1, DescentKept
<1>5. \A i \in DOMAIN evidence' : HandsOn(i)'
  BY <1>1, <1>2, <1>3, HandsKept
<1>6. LedgerTells'
  BY <1>1, <1>2, <1>3, <1>4, <1>5 DEF LedgerTells
<1>7. Notes({l}, {})
  BY <1>1, <1>3 DEF Notes
<1> QED BY <1>1, <1>6, <1>7, OpenKeeps DEF EvidenceTells

LEMMA LinkEventKeeps ==
  ASSUME EvidenceTells, NEW l \in Leads, Credit!LinkEvent(l)
  PROVE  EvidenceTells'
<1> DEFINE added == IF l \in eventLeads THEN {} ELSE {[is |-> "event", lead |-> l]}
<1>1. /\ UNCHANGED <<evidence, revoked, alive, mergedInto, dropped>>
      /\ l \in alive /\ anchored' = anchored \cup {l} /\ eventLeads' = eventLeads \cup {l}
      /\ Credit!Open({l} \ anchored, added)
  BY DEF Credit!LinkEvent, Credit!Anchor
<1>2. LedgerTells
  BY DEF EvidenceTells
<1>3. LedgerTypes' /\ Grows /\ revoked \subseteq revoked' /\ alive' \subseteq alive
  BY <1>1, <1>2, NothingGrows DEF LedgerTells, LedgerTypes
<1>4. \A i \in DOMAIN evidence' : Descends(i)'
  <2>1. \A k \in revoked' : k \notin revoked => Credit!Root(k) = k \/ evidence[k].lead \in alive
    BY <1>1
  <2> QED BY <1>1, <1>2, <1>3, <2>1, DescentKept
<1>5. \A i \in DOMAIN evidence' : HandsOn(i)'
  BY <1>1, <1>2, <1>3, HandsKept
<1>6. mergedInto[l] = Credit!NoLead
  BY <1>1, <1>2 DEF LedgerTells
<1>7. LedgerTells'
  BY <1>1, <1>2, <1>3, <1>4, <1>5, <1>6 DEF LedgerTells
<1>8. Notes({l} \ anchored, added)
  <2>1. \A k \in eventLeads' : k \notin eventLeads => \E row \in added : row.lead = k
    BY <1>1
  <2> HIDE DEF added
  <2> QED BY <1>1, <1>3, <2>1 DEF Notes
<1> HIDE DEF added
<1> QED BY <1>1, <1>7, <1>8, OpenKeeps DEF EvidenceTells

LEMMA LinkKeeps ==
  ASSUME EvidenceTells, NEW l \in Leads, NEW t \in Credited, NEW a \in Authorities, Credit!Link(l, t, a)
  PROVE  EvidenceTells'
<1>1. /\ UNCHANGED <<revoked, alive, mergedInto, eventLeads, dropped>>
      /\ l \in alive /\ anchored' = anchored \cup {l}
  BY DEF Credit!Link, Credit!Anchor
<1>2. LedgerTells
  BY DEF EvidenceTells
<1>3. CASE Credit!Made(t, a, l)
  <2>1. evidence' = evidence /\ Credit!Open({l} \ anchored, {})
    BY <1>3 DEF Credit!Link
  <2>2. LedgerTypes' /\ Grows /\ revoked \subseteq revoked' /\ alive' \subseteq alive
    BY <1>1, <1>2, <2>1, NothingGrows DEF LedgerTells, LedgerTypes
  <2>3. \A i \in DOMAIN evidence' : Descends(i)'
    <3>1. \A k \in revoked' : k \notin revoked => Credit!Root(k) = k \/ evidence[k].lead \in alive
      BY <1>1
    <3> QED BY <1>2, <2>1, <2>2, <3>1, DescentKept
  <2>4. \A i \in DOMAIN evidence' : HandsOn(i)'
    BY <1>1, <1>2, <2>1, <2>2, HandsKept
  <2>5. LedgerTells'
    BY <1>1, <1>2, <2>2, <2>3, <2>4 DEF LedgerTells
  <2>6. Notes({l} \ anchored, {})
    BY <1>1, <2>1, <2>2 DEF Notes
  <2> QED BY <2>1, <2>5, <2>6, OpenKeeps DEF EvidenceTells
<1>4. CASE ~Credit!Made(t, a, l)
  <2>n. PICK n : n = Len(evidence) + 1
    OBVIOUS
  <2>0. PICK row : row = Credit!Assertion(t, a, l, 0, 0)
    OBVIOUS
  <2>1. /\ evidence' = Append(evidence, row) /\ Len(evidence) < MaxAssertions
        /\ Credit!Open({l} \ anchored, {[is |-> "assertion", lead |-> l]})
    BY <1>4, <2>0 DEF Credit!Link
  <2>2. row \in EvidenceRow /\ row.lead = l /\ row.of = 0 /\ row.root = 0
    BY <2>0 DEF Credit!Assertion, EvidenceRow
  <2>3. evidence \in Seq(EvidenceRow) /\ Len(evidence) \in Nat
    BY <1>2 DEF LedgerTells, LedgerTypes
  <2>4. /\ evidence' \in Seq(EvidenceRow) /\ Len(evidence') = Len(evidence) + 1
        /\ \A i \in DOMAIN evidence : i \in DOMAIN evidence' /\ evidence'[i] = evidence[i]
        /\ DOMAIN evidence' = DOMAIN evidence \cup {n} /\ evidence'[n] = row /\ n \in Nat \ {0}
    <3>1. evidence' \in Seq(EvidenceRow) /\ Len(evidence') = Len(evidence) + 1
      BY <2>1, <2>2, <2>3
    <3>2. DOMAIN evidence = 1..Len(evidence) /\ DOMAIN evidence' = 1..Len(evidence')
      BY <2>3, <3>1
    <3>3. \A i \in 1..Len(evidence) : evidence'[i] = evidence[i]
      BY <2>1, <2>2, <2>3
    <3>4. evidence'[n] = row
      BY <2>1, <2>2, <2>3, <2>n
    <3>5. 1..n = (1..Len(evidence)) \cup {n}
      BY <2>3, <2>n
    <3> QED BY <2>3, <2>n, <3>1, <3>2, <3>3, <3>4, <3>5
  <2>5. Grows /\ revoked \subseteq revoked' /\ alive' \subseteq alive
    BY <1>1, <2>4 DEF Grows
  <2>6. LedgerTypes'
    BY <1>1, <1>2, <2>1, <2>3, <2>4, CreditBounds DEF LedgerTells, LedgerTypes, Credit!EvidenceConstants
  <2>7. Credit!Root(n)' = n
    BY <2>2, <2>4 DEF Credit!Root
  <2>8. \A i \in DOMAIN evidence' : Descends(i)'
    <3> SUFFICES ASSUME NEW i \in DOMAIN evidence' PROVE Descends(i)'
      OBVIOUS
    <3>1. CASE i \in DOMAIN evidence
      <4>1. \A k \in revoked' : k \notin revoked => Credit!Root(k) = k \/ evidence[k].lead \in alive
        BY <1>1
      <4> QED BY <1>2, <2>5, <2>6, <3>1, <4>1, DescentKept
    <3>2. CASE i = n
      BY <2>2, <2>4, <2>7, <3>2 DEF Descends, Credit!Root
    <3> QED BY <2>4, <3>1, <3>2
  <2>9. mergedInto[l] = Credit!NoLead
    BY <1>1, <1>2 DEF LedgerTells
  <2>10. \A i \in DOMAIN evidence' : HandsOn(i)'
    <3> SUFFICES ASSUME NEW i \in DOMAIN evidence' PROVE HandsOn(i)'
      OBVIOUS
    <3>1. CASE i \in DOMAIN evidence
      BY <1>1, <1>2, <2>5, <3>1, HandsKept
    <3>2. CASE i = n
      BY <1>1, <2>2, <2>4, <2>9, <3>2 DEF HandsOn
    <3> QED BY <2>4, <3>1, <3>2
  <2>11. LedgerTells'
    BY <1>1, <1>2, <2>6, <2>8, <2>10 DEF LedgerTells
  <2>12. Notes({l} \ anchored, {[is |-> "assertion", lead |-> l]})
    BY <1>1, <2>2, <2>4, <2>5 DEF Notes
  <2> QED BY <2>1, <2>11, <2>12, OpenKeeps DEF EvidenceTells
<1> QED BY <1>3, <1>4

CopyOf(j, target) == Credit!Assertion(evidence[j].touchpoint, evidence[j].authority, target, j, Credit!Root(j))
CopiesTell(c, ids, target) ==
  /\ \A n \in 1..Len(c) : \E j \in ids : c[n] = CopyOf(j, target)
  /\ \A j \in ids : \E n \in 1..Len(c) : c[n] = CopyOf(j, target)
\* A merge copies each assertion it carries over once, and nothing else.
LEMMA CopiesAre ==
  ASSUME LedgerTells, NEW ids \in SUBSET DOMAIN evidence, NEW target \in Leads,
         NEW c, c = Credit!Copies(ids, target)
  PROVE  /\ c \in Seq(EvidenceRow) /\ Len(c) = Credit!Cardinality(ids) /\ Credit!Cardinality(ids) \in Nat
         /\ CopiesTell(c, ids, target)
<1>1. evidence \in Seq(EvidenceRow) /\ Len(evidence) \in Nat /\ DOMAIN evidence = 1..Len(evidence)
  BY DEF LedgerTells, LedgerTypes
<1>2. ids \in SUBSET Nat /\ Credit!IsFiniteSet(ids) /\ Credit!Cardinality(ids) \in Nat
  <2>1. Credit!IsFiniteSet(1..Len(evidence))
    BY <1>1, FS_Interval, SameSizesToo
  <2>2. Credit!IsFiniteSet(ids)
    BY <1>1, <2>1, FS_Subset, SameSizesToo
  <2> QED BY <1>1, <2>2, FS_CardinalityType, SameSizesToo
<1> DEFINE N == Credit!Cardinality(ids)
           at(n) == CHOOSE j \in ids : Credit!Cardinality({k \in ids : k <= j}) = n
           copy(j) == Credit!Assertion(evidence[j].touchpoint, evidence[j].authority, target, j, Credit!Root(j))
<1>3. \A n \in 1..N : at(n) \in ids /\ Credit!Cardinality(UpTo(ids, at(n))) = n
  <2> TAKE n \in 1..N
  <2>1. \E j \in ids : Credit!Cardinality(UpTo(ids, j)) = n
    BY <1>2, Places, SameSizesToo
  <2>2. \E j \in ids : Credit!Cardinality({k \in ids : k <= j}) = n
    BY <2>1 DEF UpTo
  <2> QED BY <2>2 DEF UpTo
<1>4. \A j \in ids : Credit!Cardinality(UpTo(ids, j)) \in 1..N
  BY <1>2, Places, SameSizesToo
<1>5. \A j \in ids, n \in 1..N : Credit!Cardinality(UpTo(ids, j)) = n => at(n) = j
  <2> TAKE j \in ids, n \in 1..N
  <2>1. at(n) \in ids /\ Credit!Cardinality(UpTo(ids, at(n))) = n
    BY <1>3
  <2> HIDE DEF at
  <2> QED BY <1>2, <2>1, Places, SameSizesToo
<1>6. \A j \in ids : copy(j) \in EvidenceRow
  <2> TAKE j \in ids
  <2>1. evidence[j] \in EvidenceRow /\ j \in Nat /\ Credit!Root(j) \in Nat
    <3>1. j \in DOMAIN evidence /\ Descends(j)
      BY DEF LedgerTells
    <3> QED BY <1>1, <3>1 DEF Descends
  <2> QED BY <2>1 DEF EvidenceRow, Credit!Assertion
<1>7. c = [n \in 1..N |-> copy(at(n))]
  BY DEF Credit!Copies, Credit!Descent
<1> HIDE DEF at, copy, N
<1>8. c \in [1..N -> EvidenceRow] /\ \A n \in 1..N : c[n] = copy(at(n))
  BY <1>3, <1>6, <1>7
<1>9. N \in Nat
  BY <1>2 DEF N
<1>10. c \in Seq(EvidenceRow) /\ Len(c) = N
  BY <1>8, <1>9
<1>11. \A n \in 1..N : \E j \in ids : c[n] = copy(j)
  BY <1>3, <1>8
<1>12. \A j \in ids : \E n \in 1..N : c[n] = copy(j)
  BY <1>4, <1>5, <1>8
<1> QED BY <1>9, <1>10, <1>11, <1>12 DEF copy, CopyOf, CopiesTell, N

LEMMA MergeKeeps ==
  ASSUME EvidenceTells, NEW w \in Writers, Credit!Merge(w)
  PROVE  EvidenceTells'
<1>0. PICK x, s, t, live, c : /\ x = writers[w] /\ s = x.from /\ t = x.to /\ live = x.about.live
                              /\ c = Credit!Copies(live, t)
  OBVIOUS
<1>1. Merging(x) /\ LedgerTells
  BY <1>0, WritingKinds DEF EvidenceTells, Credit!Merge
<1>2. /\ Len(evidence) + Credit!Cardinality(live) <= MaxAssertions /\ evidence' = evidence \o c
      /\ eventLeads' = IF x.about.event = "copied" THEN eventLeads \cup {t} ELSE eventLeads
      /\ dropped' = IF x.about.event = "dropped" THEN dropped \cup {s} ELSE dropped
      /\ alive' = alive \ {s} /\ mergedInto' = [mergedInto EXCEPT ![s] = t]
      /\ anchored' = anchored \cup {s, t} /\ revoked' = revoked /\ Credit!Ends(w, {s, t}, {})
  BY <1>0 DEF Credit!Merge
<1>3. /\ s \in alive /\ t \in alive /\ s # t /\ s \in Leads /\ t \in Leads /\ live \in SUBSET DOMAIN evidence
      /\ s # Credit!NoLead /\ t # Credit!NoLead
  BY <1>0, <1>1, CreditBounds DEF Merging, LedgerTells, LedgerTypes, Credit!EvidenceConstants
<1> DEFINE copy(j) == Credit!Assertion(evidence[j].touchpoint, evidence[j].authority, t, j, Credit!Root(j))
<1>4. /\ c \in Seq(EvidenceRow) /\ Len(c) = Credit!Cardinality(live) /\ Credit!Cardinality(live) \in Nat
      /\ \A n \in 1..Len(c) : \E j \in live : c[n] = copy(j)
      /\ \A j \in live : \E n \in 1..Len(c) : c[n] = copy(j)
  <2>1. c \in Seq(EvidenceRow) /\ Len(c) = Credit!Cardinality(live) /\ Credit!Cardinality(live) \in Nat
    BY <1>0, <1>1, <1>3, CopiesAre
  <2>2. CopiesTell(c, live, t)
    BY <1>0, <1>1, <1>3, CopiesAre
  <2> QED BY <2>1, <2>2 DEF CopiesTell, CopyOf
<1> HIDE DEF copy
<1>5. evidence \in Seq(EvidenceRow) /\ Len(evidence) \in Nat /\ DOMAIN evidence = 1..Len(evidence)
  BY <1>1 DEF LedgerTells, LedgerTypes
<1>6. /\ evidence' \in Seq(EvidenceRow) /\ Len(evidence') = Len(evidence) + Len(c)
      /\ DOMAIN evidence' = 1..Len(evidence')
      /\ \A i \in 1..Len(evidence) : evidence'[i] = evidence[i]
      /\ \A n \in 1..Len(c) : evidence'[Len(evidence) + n] = c[n]
  <2>1. evidence' \in Seq(EvidenceRow) /\ Len(evidence') = Len(evidence) + Len(c)
    BY <1>2, <1>4, <1>5
  <2>2. \A i \in 1..Len(evidence) : evidence'[i] = evidence[i]
    BY <1>2, <1>4, <1>5
  <2>3. \A n \in 1..Len(c) : evidence'[Len(evidence) + n] = c[n]
    BY <1>2, <1>4, <1>5
  <2> QED BY <2>1, <2>2, <2>3
<1>7. Grows /\ revoked \subseteq revoked' /\ alive' \subseteq alive
  BY <1>2, <1>4, <1>5, <1>6 DEF Grows
<1>8. ASSUME NEW i \in DOMAIN evidence', i \notin DOMAIN evidence
      PROVE  \E j \in live : evidence'[i] = copy(j) /\ i > j
  <2>1. i - Len(evidence) \in 1..Len(c) /\ i = Len(evidence) + (i - Len(evidence))
    BY <1>4, <1>5, <1>6, <1>8
  <2>2. PICK j \in live : c[i - Len(evidence)] = copy(j)
    BY <1>4, <2>1
  <2>3. i > j
    BY <1>3, <1>5, <1>6, <1>8
  <2> QED BY <1>6, <2>1, <2>2, <2>3
<1>9. ASSUME NEW j \in live
      PROVE  \E i \in DOMAIN evidence' : evidence'[i] = copy(j)
  <2>1. PICK n \in 1..Len(c) : c[n] = copy(j)
    BY <1>4
  <2>2. Len(evidence) + n \in DOMAIN evidence'
    BY <1>4, <1>5, <1>6
  <2> QED BY <1>6, <2>1, <2>2
<1>10. \A j \in live : /\ copy(j).touchpoint = evidence[j].touchpoint /\ copy(j).lead = t
                       /\ copy(j).of = j /\ copy(j).root = Credit!Root(j)
  BY DEF copy, Credit!Assertion
<1>11. \A j \in live : /\ j \in DOMAIN evidence /\ Descends(j) /\ j \in Nat /\ j # 0
                       /\ Credit!Root(j) \in DOMAIN evidence /\ Credit!Root(j) \in Nat /\ Credit!Root(j) # 0 /\ Credit!Root(j) <= j
  <2> TAKE j \in live
  <2>1. j \in DOMAIN evidence /\ Descends(j) /\ j \in Nat /\ j # 0
    BY <1>1, <1>3, <1>5 DEF LedgerTells
  <2>2. Credit!Root(j) \in DOMAIN evidence /\ Credit!Root(j) <= j
    BY <2>1 DEF Descends, Credit!Root
  <2> QED BY <1>5, <2>1, <2>2
<1>12. LedgerTypes'
  <2>1. Len(evidence') <= MaxAssertions
    BY <1>2, <1>4, <1>6
  <2> QED BY <1>1, <1>2, <1>3, <1>6, <1>7, <2>1 DEF LedgerTells, LedgerTypes, Grows
<1>13. \A i \in DOMAIN evidence' : Descends(i)'
  <2> SUFFICES ASSUME NEW i \in DOMAIN evidence' PROVE Descends(i)'
    OBVIOUS
  <2>1. CASE i \in DOMAIN evidence
    <3>1. \A k \in revoked' : k \notin revoked => Credit!Root(k) = k \/ evidence[k].lead \in alive
      BY <1>2
    <3> QED BY <1>1, <1>7, <1>12, <2>1, <3>1, DescentKept
  <2>2. CASE i \notin DOMAIN evidence
    <3>1. PICK j \in live : evidence'[i] = copy(j) /\ i > j
      BY <1>8, <2>2
    <3>2. evidence'[i].of = j /\ evidence'[i].root = Credit!Root(j) /\ evidence'[i].touchpoint = evidence[j].touchpoint
      BY <1>10, <3>1
    <3>3. j \in 0..(i - 1) /\ Credit!Root(j) \in 0..(i - 1) /\ i \in Nat
      BY <1>6, <1>11, <3>1
    <3>4. PICK r : r = Credit!Root(j)
      OBVIOUS
    <3>5. Credit!Root(i)' = r
      BY <1>11, <3>2, <3>4 DEF Credit!Root
    <3>6. r \in DOMAIN evidence' /\ evidence'[r] = evidence[r] /\ evidence[r].root = 0
          /\ evidence[r].touchpoint = evidence[j].touchpoint
      BY <1>7, <1>11, <3>4 DEF Descends, Grows
    <3>7. Credit!Root(j)' = r /\ evidence'[j] = evidence[j]
      BY <1>7, <1>11, <3>4, RootsKept DEF Grows
    <3>8. evidence[j].lead = s /\ (j \in revoked => r \in revoked)
      BY <1>0, <1>1, <3>4 DEF Merging
    <3>9. /\ evidence'[i].of \in 0..(i - 1) /\ evidence'[i].root \in 0..(i - 1)
          /\ evidence'[i].of # 0 /\ evidence'[i].root # 0
      BY <1>11, <3>2, <3>3
    <3>10. evidence'[i].root = Credit!Root(evidence[i].of)'
      <4>1. Credit!Root(j)' = IF evidence'[j].root = 0 THEN j ELSE evidence'[j].root
        BY DEF Credit!Root
      <4> QED BY <3>2, <3>4, <3>7, <4>1 DEF Credit!Root
    <3>11. evidence'[evidence'[i].of].lead \notin alive'
      BY <1>2, <3>2, <3>7, <3>8
    <3>12. evidence'[i].of \in revoked' => Credit!Root(i)' \in revoked'
      BY <1>2, <3>2, <3>5, <3>8
    <3> QED BY <3>2, <3>5, <3>6, <3>9, <3>10, <3>11, <3>12 DEF Descends
  <2> QED BY <2>1, <2>2
<1>14. mergedInto'[s] = t /\ \A l \in Leads : l # s => mergedInto'[l] = mergedInto[l]
  BY <1>1, <1>2, <1>3 DEF LedgerTells, LedgerTypes
<1>15. \A i \in DOMAIN evidence' : HandsOn(i)'
  <2> SUFFICES ASSUME NEW i \in DOMAIN evidence' PROVE HandsOn(i)'
    OBVIOUS
  <2>1. CASE i \in DOMAIN evidence /\ evidence[i].lead # s
    <3>1. evidence[i].lead \in Leads
      <4>1. evidence[i] \in EvidenceRow
        BY <1>5, <2>1
      <4> QED BY <4>1 DEF EvidenceRow
    <3> QED BY <1>1, <1>7, <1>14, <2>1, <3>1, HandsKept
  <2>2. CASE i \in DOMAIN evidence /\ evidence[i].lead = s
    <3>1. evidence'[i] = evidence[i] /\ Credit!Root(i)' = Credit!Root(i)
      BY <1>7, <2>2, RootsKept DEF Grows
    <3> SUFFICES ASSUME ~Broken(i)'
                 PROVE  \E k \in DOMAIN evidence' :
                          /\ Credit!Root(k)' = Credit!Root(i)' /\ evidence'[k].touchpoint = evidence'[i].touchpoint
                          /\ evidence'[k].lead = mergedInto'[evidence'[i].lead]
      BY DEF HandsOn
    <3>2. ~Broken(i)
      BY <1>1, <1>7, <2>2, BrokenKept DEF LedgerTells
    <3>3. i \in live
      BY <1>0, <1>1, <2>2, <3>2 DEF Merging
    <3>4. PICK k \in DOMAIN evidence' : evidence'[k] = copy(i)
      BY <1>9, <3>3
    <3>5. Credit!Root(k)' = Credit!Root(i)
      BY <1>10, <1>11, <3>3, <3>4 DEF Credit!Root
    <3> QED BY <1>10, <1>14, <2>2, <3>1, <3>3, <3>4, <3>5
  <2>3. CASE i \notin DOMAIN evidence
    <3>1. evidence'[i].lead = t
      BY <1>8, <1>10, <2>3
    <3>2. mergedInto'[t] = Credit!NoLead
      BY <1>1, <1>3, <1>14 DEF LedgerTells
    <3> QED BY <3>1, <3>2 DEF HandsOn
  <2> QED BY <2>1, <2>2, <2>3
<1>16. \A l \in Leads : mergedInto'[l] # Credit!NoLead => l \notin alive'
  BY <1>1, <1>2, <1>14 DEF LedgerTells
<1>17. \A l \in eventLeads' : mergedInto'[l] # Credit!NoLead /\ l \notin dropped' => mergedInto'[l] \in eventLeads'
  <2> SUFFICES ASSUME NEW l \in eventLeads', mergedInto'[l] # Credit!NoLead, l \notin dropped'
               PROVE  mergedInto'[l] \in eventLeads'
    OBVIOUS
  <2>1. l \in Leads
    BY <1>12 DEF LedgerTypes
  <2>2. l # t
    BY <1>1, <1>3, <1>14 DEF LedgerTells
  <2>3. l \in eventLeads /\ eventLeads \subseteq eventLeads' /\ l \notin dropped
    BY <1>2, <2>2
  <2>4. CASE l = s
    <3>1. x.about.event = "copied"
      BY <1>0, <1>1, <1>2, <2>3, <2>4 DEF Merging
    <3> QED BY <1>2, <1>14, <2>4, <3>1
  <2>5. CASE l # s
    BY <1>1, <1>14, <2>1, <2>3, <2>5 DEF LedgerTells
  <2> QED BY <2>4, <2>5
<1>18. LedgerTells'
  BY <1>12, <1>13, <1>15, <1>16, <1>17 DEF LedgerTells
<1>19. Notes({s, t}, {})
  <2>1. \A i \in DOMAIN evidence' : i \notin DOMAIN evidence => evidence'[i].lead = t
    BY <1>8, <1>10
  <2> QED BY <1>2, <1>7, <2>1 DEF Notes
<1> QED BY <1>2, <1>18, <1>19, WriterEndsKeeps DEF EvidenceTells

\* A snapshot shows what there is; a step of nobody else leaves it so.
LEMMA LedgerStands ==
  ASSUME EvidenceTells, UNCHANGED Credit!ledger
  PROVE  LedgerTells' /\ \A x : Writing(x) => Writing(x)'
<1>1. UNCHANGED <<evidence, revoked, anchored, alive, mergedInto, eventLeads, dropped>>
  BY DEF Credit!ledger
<1>2. \A i : Credit!Root(i)' = Credit!Root(i)
  BY <1>1 DEF Credit!Root
<1>3. \A i : (Broken(i)' <=> Broken(i)) /\ (Descends(i)' <=> Descends(i))
  <2> TAKE i
  <2>1. Broken(i)' <=> Broken(i)
    BY <1>1, <1>2 DEF Broken
  <2>2. Descends(i)' <=> Descends(i)
    BY <1>1 DEF Descends, Credit!Root
  <2> QED BY <2>1, <2>2
<1>4. \A i : HandsOn(i)' <=> HandsOn(i)
  BY <1>1, <1>2, <1>3 DEF HandsOn
<1>5. LedgerTells'
  <2>1. LedgerTypes'
    BY <1>1 DEF EvidenceTells, LedgerTells, LedgerTypes
  <2>2. \A i \in DOMAIN evidence' : Descends(i)' /\ HandsOn(i)'
    BY <1>1, <1>3, <1>4 DEF EvidenceTells, LedgerTells
  <2> QED BY <1>1, <2>1, <2>2 DEF EvidenceTells, LedgerTells
<1>6. ASSUME NEW x, Writing(x)
      PROVE  Writing(x)'
  <2>1. Merging(x) => Merging(x)'
    BY <1>1, <1>2, <1>3 DEF Merging
  <2>2. Revoking(x) => Revoking(x)'
    BY <1>1 DEF Revoking
  <2> QED BY <1>6, <2>1, <2>2 DEF Writing
<1> QED BY <1>5, <1>6

LEMMA SetKeeps ==
  ASSUME EvidenceTells, UNCHANGED Credit!ledger, NEW v \in Writers, NEW y, Writing(y),
         writers' = [writers EXCEPT ![v] = y]
  PROVE  EvidenceTells'
<1>1. LedgerTells' /\ \A x : Writing(x) => Writing(x)'
  BY LedgerStands
<1>2. writers = [w \in Writers |-> writers[w]]
  BY DEF EvidenceTells
<1>3. writers' = [w \in Writers |-> writers'[w]] /\ writers'[v] = y
      /\ \A w \in Writers : w # v => writers'[w] = writers[w]
  BY <1>2
<1>4. ASSUME NEW w \in Writers
      PROVE  Writing(writers[w])'
  <2>1. PICK x : x = writers'[w]
    OBVIOUS
  <2>2. Writing(x)
    BY <1>3, <2>1 DEF EvidenceTells
  <2>3. Writing(x)'
    BY <1>1, <2>2
  <2> QED BY <2>1, <2>3
<1> QED BY <1>1, <1>3, <1>4 DEF EvidenceTells

LEMMA BeginsKeep ==
  ASSUME EvidenceTells, NEW w \in Writers, Credit!BeginRevoke(w) \/ Credit!BeginMerge(w) \/ Credit!Retry(w)
  PROVE  EvidenceTells'
<1>1. LedgerTells /\ alive \in SUBSET Leads /\ Credit!NoLead \notin Leads
  BY CreditBounds DEF EvidenceTells, LedgerTells, LedgerTypes, Credit!EvidenceConstants
<1>2. CASE Credit!Retry(w)
  <2>1. Writing(Credit!Idle)
    BY DEF Writing
  <2> QED BY <1>2, <2>1, SetKeeps DEF Credit!Retry
<1>3. ASSUME NEW l \in alive, NEW a \in Authorities, Credit!Start(w, "revoke", l, Credit!NoLead, Credit!Held(l, a))
      PROVE  EvidenceTells'
  <2>1. PICK x : x = [kind |-> "revoke", from |-> l, to |-> Credit!NoLead, about |-> Credit!Held(l, a)]
    OBVIOUS
  <2>2. x.from = l /\ x.about = Credit!Held(l, a)
        /\ x = [kind |-> "revoke", from |-> x.from, to |-> x.to, about |-> x.about]
    BY <2>1
  <2>3. Credit!Held(l, a) \in SUBSET DOMAIN evidence /\ \A i \in Credit!Held(l, a) : evidence[i].lead = l
    BY <1>1 DEF Credit!Held, Credit!LeadOf
  <2>4. Writing(x)
    BY <2>2, <2>3 DEF Writing, Revoking
  <2> QED BY <1>3, <2>1, <2>4, SetKeeps DEF Credit!Start
<1>4. ASSUME NEW s \in alive, NEW t \in alive, t < s,
             Credit!Start(w, "merge", s, t, [live |-> Credit!Live(s), event |-> Credit!EventsOf(s)])
      PROVE  EvidenceTells'
  <2>1. PICK x : x = [kind |-> "merge", from |-> s, to |-> t,
                      about |-> [live |-> Credit!Live(s), event |-> Credit!EventsOf(s)]]
    OBVIOUS
  <2>2. x.from = s /\ x.to = t /\ x.about.live = Credit!Live(s) /\ x.about.event = Credit!EventsOf(s)
        /\ x = [kind |-> "merge", from |-> x.from, to |-> x.to, about |-> x.about]
    BY <2>1
  <2>3. s # t
    BY <1>1, <1>4, CreditBounds DEF Credit!EvidenceConstants
  <2>4. Credit!Live(s) \in SUBSET DOMAIN evidence
        /\ \A i \in Credit!Live(s) : evidence[i].lead = s /\ i \notin revoked
    BY <1>1 DEF Credit!Live, Credit!LeadOf
  <2>5. ASSUME NEW i \in DOMAIN evidence, evidence[i].lead = s, ~Broken(i)
        PROVE  i \in Credit!Live(s)
    <3>1. Credit!LeadOf(i) = s
      BY <2>5 DEF Credit!LeadOf
    <3>2. i \notin revoked
      BY <2>5 DEF Broken
    <3>3. Credit!Root(Credit!Root(i)) = Credit!Root(i)
      BY <1>1 DEF LedgerTells, Descends, Credit!Root
    <3>4. Credit!Root(i) \notin revoked
      BY <2>5, <3>3 DEF Broken
    <3> QED BY <3>1, <3>2, <3>4 DEF Credit!Live
  <2>6. Merging(x)
    <3>0. Credit!EventsOf(s) \in {"none", "copied", "dropped"} /\ (s \in eventLeads => Credit!EventsOf(s) # "none")
      <4>1. CASE s \notin eventLeads
        BY <4>1 DEF Credit!EventsOf
      <4>2. CASE s \in eventLeads /\ capturing
        BY <4>2 DEF Credit!EventsOf
      <4>3. CASE s \in eventLeads /\ ~capturing
        BY <4>3 DEF Credit!EventsOf
      <4> QED BY <4>1, <4>2, <4>3
    <3>1. /\ x.from \in alive /\ x.to \in alive /\ x.from # x.to
          /\ x.about.event \in {"none", "copied", "dropped"}
      BY <1>4, <2>2, <2>3, <3>0
    <3>2. x.from \in eventLeads => x.about.event # "none"
      BY <2>2, <3>0
    <3> QED BY <2>2, <2>4, <2>5, <3>1, <3>2 DEF Merging
  <2> QED BY <1>4, <2>1, <2>6, SetKeeps DEF Credit!Start, Writing
<1>5. CASE Credit!BeginRevoke(w)
  BY <1>3, <1>5 DEF Credit!BeginRevoke
<1>6. CASE Credit!BeginMerge(w)
  BY <1>4, <1>6 DEF Credit!BeginMerge
<1> QED BY <1>2, <1>5, <1>6

EvidenceInv == EvidenceTells /\ capturing \in BOOLEAN

LEMMA EvidenceInit == Credit!Init => EvidenceInv
<1> SUFFICES ASSUME Credit!Init PROVE EvidenceInv
  OBVIOUS
<1>1. evidence = <<>> /\ evidence \in Seq(EvidenceRow) /\ DOMAIN evidence = {} /\ Len(evidence) = 0
  BY DEF Credit!Init
<1>2. LedgerTypes
  BY <1>1, CreditBounds DEF Credit!Init, LedgerTypes, Credit!EvidenceConstants
<1>3. LedgerTells
  BY <1>1, <1>2 DEF Credit!Init, LedgerTells
<1> QED BY <1>3 DEF Credit!Init, EvidenceInv, EvidenceTells, Writing

LEMMA EvidenceNext == EvidenceInv /\ [Credit!Next]_Credit!vars => EvidenceInv'
<1> SUFFICES ASSUME EvidenceTells, capturing \in BOOLEAN, [Credit!Next]_Credit!vars PROVE EvidenceTells' /\ capturing' \in BOOLEAN
  BY DEF EvidenceInv
<1>1. ASSUME NEW w \in Writers,
             Credit!BeginRevoke(w) \/ Credit!RevokeAuthority(w) \/ Credit!BeginMerge(w) \/ Credit!Merge(w) \/ Credit!Retry(w)
      PROVE  EvidenceTells'
  BY <1>1, BeginsKeep, RevokeAuthorityKeeps, MergeKeeps
<1>2. ASSUME NEW l \in Leads, NEW t \in Credited, NEW a \in Authorities, Credit!Link(l, t, a)
      PROVE  EvidenceTells'
  BY <1>2, LinkKeeps
<1>3. ASSUME NEW l \in Leads, Credit!LinkEvent(l) \/ Credit!Delete(l)
      PROVE  EvidenceTells'
  BY <1>3, LinkEventKeeps, DeleteKeeps
<1>4. ASSUME NEW i \in DOMAIN evidence, Credit!Withdraw(i)
      PROVE  EvidenceTells'
  BY <1>4, WithdrawKeeps
<1>5. ASSUME Credit!SwitchCapture \/ UNCHANGED Credit!vars
      PROVE  EvidenceTells'
  <2>1. UNCHANGED Credit!ledger /\ writers' = writers
    BY <1>5 DEF Credit!vars, Credit!ledger, Credit!SwitchCapture
  <2>2. LedgerTells' /\ \A x : Writing(x) => Writing(x)'
    BY <2>1, LedgerStands
  <2>3. ASSUME NEW w \in Writers
        PROVE  Writing(writers[w])'
    <3>1. PICK x : x = writers[w]
      OBVIOUS
    <3>2. Writing(x)'
      BY <2>2, <3>1 DEF EvidenceTells
    <3> QED BY <2>1, <3>1, <3>2
  <2> QED BY <2>1, <2>2, <2>3 DEF EvidenceTells
<1>6. capturing' \in BOOLEAN
  BY DEF Credit!Next, Credit!vars, Credit!BeginRevoke, Credit!BeginMerge, Credit!Retry, Credit!Start, Credit!RevokeAuthority,
         Credit!Revoke, Credit!Merge, Credit!Link, Credit!LinkEvent, Credit!Delete, Credit!Withdraw, Credit!SwitchCapture
<1> QED BY <1>1, <1>2, <1>3, <1>4, <1>5, <1>6 DEF Credit!Next

\* --- What the invariant gives.  Iterating a function, and going up along parents,
\* are defined: by induction on how far.
Iterate(g, f, d, N) == g[0] = d /\ \A n \in 1..N : g[n] = f[g[n - 1]]
LEMMA Iterates ==
  ASSUME NEW D, NEW f \in [D -> D], NEW d \in D, NEW N \in Nat
  PROVE  \E g \in [0..N -> D] : Iterate(g, f, d, N)
<1> DEFINE Upto(m) == \E g \in [0..m -> D] : g[0] = d /\ \A n \in 1..m : g[n] = f[g[n - 1]]
           S == {m \in Nat : Upto(m)}
<1>1. Upto(0)
  <2>1. [n \in 0..0 |-> d] \in [0..0 -> D]
    OBVIOUS
  <2>2. [n \in 0..0 |-> d][0] = d /\ 1..0 = {}
    OBVIOUS
  <2> QED BY <2>1, <2>2
<1>2. ASSUME NEW m \in Nat, Upto(m)
      PROVE  Upto(m + 1)
  <2>1. PICK g \in [0..m -> D] : g[0] = d /\ \A n \in 1..m : g[n] = f[g[n - 1]]
    BY <1>2
  <2> DEFINE h == [n \in 0..(m + 1) |-> IF n = m + 1 THEN f[g[m]] ELSE g[n]]
  <2>2. \A n \in 0..(m + 1) : n = m + 1 \/ n \in 0..m
    OBVIOUS
  <2>3. g[m] \in D /\ f[g[m]] \in D
    OBVIOUS
  <2>4. h \in [0..(m + 1) -> D]
    BY <2>2, <2>3
  <2>5. \A n \in 0..(m + 1) : h[n] = IF n = m + 1 THEN f[g[m]] ELSE g[n]
    OBVIOUS
  <2> HIDE DEF h
  <2>6. h[0] = d
    BY <2>1, <2>5
  <2>7. \A n \in 1..(m + 1) : h[n] = f[h[n - 1]]
    <3> TAKE n \in 1..(m + 1)
    <3>1. n - 1 \in 0..(m + 1) /\ n - 1 # m + 1 /\ n \in 0..(m + 1) /\ h[n - 1] = g[n - 1]
      BY <2>5
    <3>2. CASE n = m + 1
      <4>1. n - 1 = m
        BY <3>2
      <4> QED BY <2>5, <3>1, <3>2, <4>1
    <3>3. CASE n # m + 1
      <4>1. n \in 1..m
        BY <3>3
      <4> QED BY <2>1, <2>5, <3>1, <3>3, <4>1
    <3> QED BY <3>2, <3>3
  <2> QED BY <2>4, <2>6, <2>7
<1> HIDE DEF Upto
<1>a. 0 \in S /\ \A m \in Nat : m \in S => m + 1 \in S
  BY <1>1, <1>2
<1>3. Nat \subseteq S
  <2> HIDE DEF S
  <2> QED BY <1>a, NatSets
<1> QED BY <1>3 DEF Upto, Iterate

LEMMA Climbs ==
  ASSUME NEW N \in Nat, NEW up, \A i \in 1..N : up[i] \in 0..(i - 1)
  PROVE  \E g : g = [i \in 0..N |-> IF i = 0 THEN {} ELSE {i} \cup g[up[i]]]
<1> DEFINE Good(g, m) == g = [i \in 0..m |-> IF i = 0 THEN {} ELSE {i} \cup g[up[i]]]
           S == {m \in Nat : m > N \/ \E g : Good(g, m)}
<1>1. 0 \in S
  <2>1. \A i \in 0..0 : i = 0
    OBVIOUS
  <2>2. Good([i \in 0..0 |-> {}], 0)
    BY <2>1
  <2> QED BY <2>2
<1>2. ASSUME NEW m \in Nat, m \in S
      PROVE  m + 1 \in S
  <2>1. CASE m + 1 > N
    BY <2>1
  <2>2. CASE ~(m + 1 > N)
    <3>1. m \in 0..N /\ m + 1 \in 1..N /\ ~(m > N)
      BY <2>2
    <3>2. PICK g : Good(g, m)
      BY <1>2, <3>1
    <3> DEFINE h == [i \in 0..(m + 1) |-> IF i = m + 1 THEN {i} \cup g[up[i]] ELSE g[i]]
    <3>3. (\A i \in 0..(m + 1) : i # m + 1 => h[i] = g[i]) /\ h[m + 1] = {m + 1} \cup g[up[m + 1]]
      OBVIOUS
    <3>h. h = [i \in 0..(m + 1) |-> h[i]]
      OBVIOUS
    <3> HIDE DEF h
    <3>4. \A i \in 1..(m + 1) : up[i] \in 0..m
      BY <3>1
    <3>5. \A i \in 0..m : h[i] = g[i]
      <4>1. \A i \in 0..m : i \in 0..(m + 1) /\ i # m + 1
        OBVIOUS
      <4> QED BY <3>3, <4>1
    <3>6. \A i \in 0..m : g[i] = IF i = 0 THEN {} ELSE {i} \cup g[up[i]]
      <4> TAKE i \in 0..m
      <4> DEFINE G == [k \in 0..m |-> IF k = 0 THEN {} ELSE {k} \cup g[up[k]]]
      <4>1. G[i] = IF i = 0 THEN {} ELSE {i} \cup g[up[i]]
        OBVIOUS
      <4>2. g = G
        BY <3>2
      <4> HIDE DEF G
      <4> QED BY <4>1, <4>2
    <3>7. \A i \in 0..(m + 1) : h[i] = IF i = 0 THEN {} ELSE {i} \cup h[up[i]]
      <4> TAKE i \in 0..(m + 1)
      <4>1. CASE i = 0
        <5>1. i \in 0..m
          BY <4>1
        <5>2. h[i] = g[i] /\ g[i] = {}
          BY <3>5, <3>6, <4>1, <5>1
        <5> QED BY <4>1, <5>2
      <4>2. CASE i = m + 1
        <5>1. up[i] \in 0..m /\ i # 0
          BY <3>4, <4>2
        <5>2. h[i] = {i} \cup g[up[i]]
          BY <3>3, <4>2
        <5>3. h[up[i]] = g[up[i]]
          BY <3>5, <5>1
        <5> QED BY <5>1, <5>2, <5>3
      <4>3. CASE i # 0 /\ i # m + 1
        <5>1. up[i] \in 0..m /\ i \in 0..m
          BY <3>4, <4>3
        <5>2. h[i] = g[i] /\ h[up[i]] = g[up[i]]
          BY <3>5, <5>1
        <5>3. g[i] = {i} \cup g[up[i]]
          BY <3>6, <4>3, <5>1
        <5> QED BY <4>3, <5>2, <5>3
      <4> QED BY <4>1, <4>2, <4>3
    <3>8. Good(h, m + 1)
      <4>1. h = [i \in 0..(m + 1) |-> IF i = 0 THEN {} ELSE {i} \cup h[up[i]]]
        BY <3>7, <3>h
      <4> QED BY <4>1
    <3> HIDE DEF Good
    <3> QED BY <3>8
  <2> QED BY <2>1, <2>2
<1> HIDE DEF Good
<1>3. Nat \subseteq S
  <2> HIDE DEF S
  <2> QED BY <1>1, <1>2, NatSets
<1>4. N \in S /\ ~(N > N)
  BY <1>3
<1> QED BY <1>4 DEF Good

\* --- A lead is credited by what nothing above was revoked of.
Chain == CHOOSE f : f = [i \in 0..Len(evidence) |-> IF i = 0 THEN {} ELSE {i} \cup f[evidence[i].of]]

LEMMA ChainIs ==
  ASSUME LedgerTells
  PROVE  Chain[0] = {} /\ \A i \in DOMAIN evidence : Chain[i] = {i} \cup Chain[evidence[i].of]
<1>1. evidence \in Seq(EvidenceRow) /\ Len(evidence) \in Nat /\ DOMAIN evidence = 1..Len(evidence)
  BY DEF LedgerTells, LedgerTypes
<1>2. PICK N, up : N = Len(evidence) /\ up = [i \in 1..N |-> evidence[i].of]
  OBVIOUS
<1>3. \A i \in 1..N : up[i] = evidence[i].of /\ up[i] \in 0..(i - 1)
  BY <1>1, <1>2 DEF LedgerTells, Descends
<1>a. N \in Nat /\ \A i \in 1..N : up[i] \in 0..(i - 1)
  BY <1>1, <1>2, <1>3
<1>b. \E g : g = [i \in 0..N |-> IF i = 0 THEN {} ELSE {i} \cup g[up[i]]]
  BY <1>a, Climbs
<1>4. PICK g : g = [i \in 0..N |-> IF i = 0 THEN {} ELSE {i} \cup g[up[i]]]
  BY <1>b
<1>5. \A f : [i \in 0..N |-> IF i = 0 THEN {} ELSE {i} \cup f[up[i]]]
             = [i \in 0..Len(evidence) |-> IF i = 0 THEN {} ELSE {i} \cup f[evidence[i].of]]
  <2> TAKE f
  <2>1. \A i \in 0..N : i = 0 \/ i \in 1..N
    BY <1>1, <1>2
  <2> QED BY <1>2, <1>3, <2>1
<1>6. g = [i \in 0..Len(evidence) |-> IF i = 0 THEN {} ELSE {i} \cup g[evidence[i].of]]
  BY <1>4, <1>5
<1>7. Chain = [i \in 0..Len(evidence) |-> IF i = 0 THEN {} ELSE {i} \cup Chain[evidence[i].of]]
  BY <1>6 DEF Chain
<1> DEFINE F == [i \in 0..Len(evidence) |-> IF i = 0 THEN {} ELSE {i} \cup Chain[evidence[i].of]]
<1>8. F[0] = {} /\ \A i \in 1..Len(evidence) : F[i] = {i} \cup Chain[evidence[i].of]
  BY <1>1
<1>9. Chain = F
  BY <1>7
<1> HIDE DEF F
<1> QED BY <1>1, <1>8, <1>9

LEMMA ChainTells ==
  ASSUME LedgerTells, NEW i \in DOMAIN evidence, NEW j \in Chain[i], j \in revoked
  PROVE  i \in revoked \/ Credit!Root(i) \in revoked
<1>1. evidence \in Seq(EvidenceRow) /\ Len(evidence) \in Nat /\ DOMAIN evidence = 1..Len(evidence)
  BY DEF LedgerTells, LedgerTypes
<1>c. Chain[0] = {} /\ \A k \in DOMAIN evidence : Chain[k] = {k} \cup Chain[evidence[k].of]
  BY ChainIs
<1> DEFINE T == {k \in DOMAIN evidence : j \in Chain[k] /\ j # k /\ Credit!Root(k) \notin revoked}
<1>2. T = {}
  <2> SUFFICES ASSUME T # {} PROVE FALSE
    OBVIOUS
  <2>1. T \in SUBSET Nat
    BY <1>1
  <2> HIDE DEF T
  <2>2. PICK k \in T : \A m \in T : k <= m
    BY <2>1, LeastNumber
  <2>3. k \in DOMAIN evidence /\ j \in Chain[k] /\ j # k /\ Credit!Root(k) \notin revoked /\ Descends(k)
    BY <2>2 DEF T, LedgerTells
  <2>4. PICK m : m = evidence[k].of
    OBVIOUS
  <2>5. m \in 0..(k - 1) /\ k \in 1..Len(evidence)
    BY <1>1, <2>3, <2>4 DEF Descends
  <2>6. j \in Chain[m]
    <3>1. Chain[k] = {k} \cup Chain[m]
      BY <1>1, <1>c, <2>4, <2>5
    <3> QED BY <2>3, <3>1
  <2>7. m # 0
    <3>1. Chain[0] = {}
      BY <1>1, <1>c
    <3> QED BY <2>6, <3>1
  <2>8. m \in DOMAIN evidence /\ ~(k <= m)
    BY <1>1, <2>5, <2>7
  <2>9. Credit!Root(k) = Credit!Root(m) /\ (m \in revoked => Credit!Root(k) \in revoked)
    <3>1. evidence[k].of # 0 /\ evidence[k].root # 0 /\ evidence[k].root = Credit!Root(m)
      BY <2>3, <2>4, <2>7 DEF Descends
    <3> QED BY <2>3, <2>4, <3>1 DEF Descends, Credit!Root
  <2>10. m \in T
    BY <2>3, <2>6, <2>8, <2>9 DEF T
  <2> QED BY <2>2, <2>8, <2>10
<1> QED BY <1>2

LEMMA GroundedGive == LedgerTells => Credit!CreditIsGrounded
<1> SUFFICES ASSUME LedgerTells PROVE Credit!CreditIsGrounded
  OBVIOUS
<1>1. \A i \in DOMAIN evidence :
        Credit!LeadOf(i) /= Credit!NoLead /\ {i, Credit!Root(i)} \cap revoked = {} => Chain[i] \cap revoked = {}
  BY ChainTells
<1> QED BY <1>1 DEF Credit!CreditIsGrounded, Chain

\* --- The lead that survives the merges has what every lead on the way had.
Into(l) ==
  CHOOSE f : f = [n \in 0..Credit!Cardinality(Leads) |->
                   IF n = 0 \/ mergedInto[l] = Credit!NoLead THEN l
                   ELSE IF mergedInto[f[n - 1]] = Credit!NoLead THEN f[n - 1] ELSE mergedInto[f[n - 1]]]

LEMMA SurvivorIs ==
  ASSUME LedgerTells, NEW l \in Leads
  PROVE  \E g \in [0..Credit!Cardinality(Leads) -> Leads] :
           /\ g[0] = l /\ Credit!Survivor(l) = g[Credit!Cardinality(Leads)] /\ Credit!Way(l) = g
           /\ \A n \in 1..Credit!Cardinality(Leads) :
                \/ g[n] = g[n - 1]
                \/ mergedInto[g[n - 1]] # Credit!NoLead /\ g[n] = mergedInto[g[n - 1]]
<1>1. PICK N : N = Credit!Cardinality(Leads)
  OBVIOUS
<1>2. N \in Nat /\ mergedInto \in [Leads -> Leads \cup {Credit!NoLead}] /\ Credit!NoLead \notin Leads
  BY <1>1, CreditBounds, FS_CardinalityType, SameSizesToo DEF Credit!EvidenceConstants, LedgerTells, LedgerTypes
<1>3. PICK f : f = [m \in Leads |-> IF mergedInto[l] = Credit!NoLead \/ mergedInto[m] = Credit!NoLead THEN m ELSE mergedInto[m]]
  OBVIOUS
<1>4. f \in [Leads -> Leads]
        /\ \A m \in Leads : f[m] = IF mergedInto[l] = Credit!NoLead \/ mergedInto[m] = Credit!NoLead THEN m ELSE mergedInto[m]
  BY <1>2, <1>3
<1>a. f \in [Leads -> Leads] /\ N \in Nat
  BY <1>2, <1>4
<1>b. \E g \in [0..N -> Leads] : Iterate(g, f, l, N)
  BY <1>a, Iterates
<1>5. PICK g \in [0..N -> Leads] : g[0] = l /\ \A n \in 1..N : g[n] = f[g[n - 1]]
  BY <1>b DEF Iterate
<1>6. \A n \in 1..N : n - 1 \in 0..N /\ g[n - 1] \in Leads
  BY <1>2
<1>7. mergedInto[l] = Credit!NoLead => \A n \in 0..N : g[n] = l
  <2> SUFFICES ASSUME mergedInto[l] = Credit!NoLead PROVE \A n \in 0..N : g[n] = l
    OBVIOUS
  <2> DEFINE S == {n \in Nat : n \in 0..N => g[n] = l}
  <2>1. 0 \in S
    BY <1>5
  <2>2. ASSUME NEW n \in Nat, n \in S
        PROVE  n + 1 \in S
    <3> SUFFICES ASSUME n + 1 \in 0..N PROVE g[n + 1] = l
      OBVIOUS
    <3>1. n \in 0..N /\ n + 1 \in 1..N /\ (n + 1) - 1 = n
      BY <1>2
    <3>2. g[n] = l
      BY <2>2, <3>1
    <3> QED BY <1>4, <1>5, <3>1, <3>2
  <2>3. Nat \subseteq S
    <3> HIDE DEF S
    <3> QED BY <2>1, <2>2, NatSets
  <2> QED BY <2>3
<1>8. \A n \in 0..N :
        g[n] = IF n = 0 \/ mergedInto[l] = Credit!NoLead THEN l
               ELSE IF mergedInto[g[n - 1]] = Credit!NoLead THEN g[n - 1] ELSE mergedInto[g[n - 1]]
  <2> TAKE n \in 0..N
  <2>1. CASE n = 0 \/ mergedInto[l] = Credit!NoLead
    BY <1>5, <1>7, <2>1
  <2>2. CASE n # 0 /\ mergedInto[l] # Credit!NoLead
    <3>1. n \in 1..N
      BY <2>2
    <3> QED BY <1>4, <1>5, <1>6, <2>2, <3>1
  <2> QED BY <2>1, <2>2
<1>9. \E h : h = [n \in 0..Credit!Cardinality(Leads) |->
                   IF n = 0 \/ mergedInto[l] = Credit!NoLead THEN l
                   ELSE IF mergedInto[h[n - 1]] = Credit!NoLead THEN h[n - 1] ELSE mergedInto[h[n - 1]]]
  <2>1. g = [n \in 0..N |-> g[n]]
    OBVIOUS
  <2>2. g = [n \in 0..N |->
              IF n = 0 \/ mergedInto[l] = Credit!NoLead THEN l
              ELSE IF mergedInto[g[n - 1]] = Credit!NoLead THEN g[n - 1] ELSE mergedInto[g[n - 1]]]
    BY <1>8, <2>1
  <2>3. g = [n \in 0..Credit!Cardinality(Leads) |->
              IF n = 0 \/ mergedInto[l] = Credit!NoLead THEN l
              ELSE IF mergedInto[g[n - 1]] = Credit!NoLead THEN g[n - 1] ELSE mergedInto[g[n - 1]]]
    BY <1>1, <2>2
  <2> QED BY <2>3
<1>10. Into(l) = [n \in 0..Credit!Cardinality(Leads) |->
                   IF n = 0 \/ mergedInto[l] = Credit!NoLead THEN l
                   ELSE IF mergedInto[Into(l)[n - 1]] = Credit!NoLead THEN Into(l)[n - 1]
                        ELSE mergedInto[Into(l)[n - 1]]]
  BY <1>9 DEF Into
<1>11. PICK into : into = Into(l)
  OBVIOUS
<1>12. into = [n \in 0..N |->
                IF n = 0 \/ mergedInto[l] = Credit!NoLead THEN l
                ELSE IF mergedInto[into[n - 1]] = Credit!NoLead THEN into[n - 1] ELSE mergedInto[into[n - 1]]]
  BY <1>1, <1>10, <1>11
<1>13. \A n \in 0..N :
         into[n] = IF n = 0 \/ mergedInto[l] = Credit!NoLead THEN l
                   ELSE IF mergedInto[into[n - 1]] = Credit!NoLead THEN into[n - 1] ELSE mergedInto[into[n - 1]]
  <2> DEFINE F == [n \in 0..N |->
                IF n = 0 \/ mergedInto[l] = Credit!NoLead THEN l
                ELSE IF mergedInto[into[n - 1]] = Credit!NoLead THEN into[n - 1] ELSE mergedInto[into[n - 1]]]
  <2>1. \A n \in 0..N :
         F[n] = IF n = 0 \/ mergedInto[l] = Credit!NoLead THEN l
                ELSE IF mergedInto[into[n - 1]] = Credit!NoLead THEN into[n - 1] ELSE mergedInto[into[n - 1]]
    OBVIOUS
  <2>2. into = F
    BY <1>12
  <2> HIDE DEF F
  <2> QED BY <2>1, <2>2
<1>14. \A n \in 0..N : into[n] = g[n]
  <2> DEFINE S == {n \in Nat : n \in 0..N => into[n] = g[n]}
  <2>1. 0 \in S
    BY <1>2, <1>5, <1>13
  <2>2. ASSUME NEW n \in Nat, n \in S
        PROVE  n + 1 \in S
    <3> SUFFICES ASSUME n + 1 \in 0..N PROVE into[n + 1] = g[n + 1]
      OBVIOUS
    <3>1. n \in 0..N /\ n + 1 # 0 /\ (n + 1) - 1 = n
      BY <1>2
    <3>2. into[n] = g[n]
      BY <2>2, <3>1
    <3> QED BY <1>8, <1>13, <3>1, <3>2
  <2>3. Nat \subseteq S
    <3> HIDE DEF S
    <3> QED BY <2>1, <2>2, NatSets
  <2> QED BY <2>3
<1>15. Credit!Way(l) = Into(l) /\ Credit!Survivor(l) = Into(l)[Credit!Cardinality(Leads)]
  BY DEF Credit!Way, Credit!Survivor, Into
<1>16. Credit!Survivor(l) = g[Credit!Cardinality(Leads)]
  BY <1>1, <1>2, <1>11, <1>14, <1>15
<1>18. Credit!Way(l) = g
  <2>1. into = [n \in 0..N |-> into[n]]
    BY <1>12
  <2>2. g = [n \in 0..N |-> g[n]]
    OBVIOUS
  <2> QED BY <1>11, <1>14, <1>15, <2>1, <2>2
<1>17. \A n \in 1..N : g[n] = g[n - 1] \/ (mergedInto[g[n - 1]] # Credit!NoLead /\ g[n] = mergedInto[g[n - 1]])
  BY <1>4, <1>5, <1>6
<1> QED BY <1>1, <1>5, <1>16, <1>17, <1>18

\* Along those leads an unrevoked credit is handed on.
LEMMA Along ==
  ASSUME LedgerTells, NEW l \in Leads, NEW P, l \in P, P \subseteq Leads,
         \A m \in P : mergedInto[m] # Credit!NoLead => mergedInto[m] \in P
  PROVE  Credit!Survivor(l) \in P
<1>1. PICK N : N = Credit!Cardinality(Leads)
  OBVIOUS
<1>2. N \in Nat
  BY <1>1, CreditBounds, FS_CardinalityType, SameSizesToo DEF Credit!EvidenceConstants
<1>3. PICK g \in [0..N -> Leads] :
        /\ g[0] = l /\ Credit!Survivor(l) = g[N]
        /\ \A n \in 1..N : \/ g[n] = g[n - 1]
                           \/ mergedInto[g[n - 1]] # Credit!NoLead /\ g[n] = mergedInto[g[n - 1]]
  BY <1>1, SurvivorIs
<1> DEFINE S == {n \in Nat : n \in 0..N => g[n] \in P}
<1>4. 0 \in S
  BY <1>3
<1>5. ASSUME NEW n \in Nat, n \in S
      PROVE  n + 1 \in S
  <2> SUFFICES ASSUME n + 1 \in 0..N PROVE g[n + 1] \in P
    OBVIOUS
  <2>1. n \in 0..N /\ n + 1 \in 1..N /\ (n + 1) - 1 = n
    BY <1>2
  <2>2. g[n] \in P
    BY <1>5, <2>1
  <2> QED BY <1>3, <2>1, <2>2
<1>6. Nat \subseteq S
  <2> HIDE DEF S
  <2> QED BY <1>4, <1>5, NatSets
<1>7. N \in S /\ N \in 0..N
  BY <1>2, <1>6
<1> QED BY <1>3, <1>7

LEMMA SurvivesGive == LedgerTells => Credit!CreditSurvivesMerges
<1> SUFFICES ASSUME LedgerTells PROVE Credit!CreditSurvivesMerges
  OBVIOUS
<1>1. evidence \in Seq(EvidenceRow) /\ Credit!NoLead \notin Leads
      /\ \A i \in DOMAIN evidence : evidence[i].lead \in Leads /\ Descends(i) /\ HandsOn(i)
  <2>1. evidence \in Seq(EvidenceRow)
    BY DEF LedgerTells, LedgerTypes
  <2>2. \A i \in DOMAIN evidence : evidence[i] \in EvidenceRow
    BY <2>1
  <2> QED BY <2>1, <2>2, CreditBounds DEF EvidenceRow, LedgerTells, Credit!EvidenceConstants
<1>2. ASSUME NEW i \in DOMAIN evidence, evidence[i].root = 0, Credit!Survivor(evidence[i].lead) \in alive,
             \A j \in revoked : Credit!Root(j) /= i
      PROVE  Credit!Credits(Credit!Survivor(evidence[i].lead), evidence[i].touchpoint)
  <2>1. Credit!Root(i) = i
    BY <1>2 DEF Credit!Root
  <2> DEFINE P == {m \in Leads : \E k \in DOMAIN evidence :
                     /\ Credit!Root(k) = i /\ evidence[k].touchpoint = evidence[i].touchpoint
                     /\ evidence[k].lead = m}
  <2>2. evidence[i].lead \in P
    BY <1>1, <2>1
  <2>3. \A m \in P : mergedInto[m] # Credit!NoLead => mergedInto[m] \in P
    <3> SUFFICES ASSUME NEW m \in P, mergedInto[m] # Credit!NoLead PROVE mergedInto[m] \in P
      OBVIOUS
    <3>1. PICK k \in DOMAIN evidence : /\ Credit!Root(k) = i /\ evidence[k].touchpoint = evidence[i].touchpoint
                                       /\ evidence[k].lead = m
      OBVIOUS
    <3>2. ~Broken(k)
      BY <1>2, <3>1 DEF Broken
    <3>3. PICK j \in DOMAIN evidence : /\ Credit!Root(j) = Credit!Root(k) /\ evidence[j].touchpoint = evidence[k].touchpoint
                                       /\ evidence[j].lead = mergedInto[evidence[k].lead]
      BY <1>1, <3>1, <3>2 DEF HandsOn
    <3> QED BY <1>1, <3>1, <3>3
  <2>4. P \subseteq Leads
    OBVIOUS
  <2>5. Credit!Survivor(evidence[i].lead) \in P
    <3> HIDE DEF P
    <3> QED BY <1>1, <2>2, <2>3, <2>4, Along
  <2>6. PICK k \in DOMAIN evidence : /\ Credit!Root(k) = i /\ evidence[k].touchpoint = evidence[i].touchpoint
                                     /\ evidence[k].lead = Credit!Survivor(evidence[i].lead)
    BY <2>5
  <2>7. k \notin revoked /\ i \notin revoked
    BY <1>2, <2>1, <2>6
  <2> HIDE DEF P
  <2> QED BY <1>2, <2>6, <2>7 DEF Credit!Credits, Credit!LeadOf
<1>3. ASSUME NEW l \in eventLeads, \A n \in DOMAIN Credit!Way(l) : Credit!Way(l)[n] \notin dropped
      PROVE  Credit!Survivor(l) \in eventLeads
  <2>0. PICK N : N = Credit!Cardinality(Leads)
    OBVIOUS
  <2>1. N \in Nat /\ l \in Leads
    BY <2>0, CreditBounds, FS_CardinalityType, SameSizesToo DEF Credit!EvidenceConstants, LedgerTells, LedgerTypes
  <2>2. PICK g \in [0..N -> Leads] :
          /\ g[0] = l /\ Credit!Survivor(l) = g[N] /\ Credit!Way(l) = g
          /\ \A n \in 1..N : \/ g[n] = g[n - 1]
                             \/ mergedInto[g[n - 1]] # Credit!NoLead /\ g[n] = mergedInto[g[n - 1]]
    BY <2>0, <2>1, SurvivorIs
  <2>3. \A n \in 0..N : g[n] \notin dropped
    BY <1>3, <2>2
  <2> DEFINE S == {n \in Nat : n \in 0..N => g[n] \in eventLeads}
  <2>4. 0 \in S
    BY <2>2
  <2>5. ASSUME NEW n \in Nat, n \in S
        PROVE  n + 1 \in S
    <3> SUFFICES ASSUME n + 1 \in 0..N PROVE g[n + 1] \in eventLeads
      OBVIOUS
    <3>1. n \in 0..N /\ n + 1 \in 1..N /\ (n + 1) - 1 = n
      BY <2>1
    <3>2. g[n] \in eventLeads /\ g[n] \notin dropped
      BY <2>3, <2>5, <3>1
    <3> QED BY <2>2, <3>1, <3>2 DEF LedgerTells
  <2>6. Nat \subseteq S
    <3> HIDE DEF S
    <3> QED BY <2>4, <2>5, NatSets
  <2>7. N \in S /\ N \in 0..N
    BY <2>1, <2>6
  <2> QED BY <2>2, <2>7
<1> QED BY <1>2, <1>3 DEF Credit!CreditSurvivesMerges

LEMMA EvidenceGive == EvidenceInv => Credit!EvidenceTypeOK /\ Credit!CreditSurvivesMerges /\ Credit!CreditIsGrounded
<1> SUFFICES ASSUME EvidenceInv PROVE Credit!EvidenceTypeOK /\ Credit!CreditSurvivesMerges /\ Credit!CreditIsGrounded
  OBVIOUS
<1>1. LedgerTells /\ capturing \in BOOLEAN
  BY DEF EvidenceInv, EvidenceTells
<1>2. Credit!EvidenceTypeOK
  <2>1. \A i \in DOMAIN evidence : evidence[i] \in EvidenceRow /\ Descends(i)
    BY <1>1 DEF LedgerTells, LedgerTypes
  <2>2. \A i \in DOMAIN evidence :
          /\ evidence[i].lead \in Leads /\ evidence[i].touchpoint \in Credited
          /\ evidence[i].authority \in Authorities
          /\ evidence[i].root \in 0..(i - 1) /\ evidence[i].of \in 0..(i - 1)
    BY <2>1 DEF EvidenceRow, Descends
  <2> QED BY <1>1, <2>2 DEF Credit!EvidenceTypeOK, LedgerTells, LedgerTypes
<1> QED BY <1>1, <1>2, GroundedGive, SurvivesGive

------------------------------------------------------------------------------
\* Sums over a finite set, which the library defines as a fold.
\* --- Sums of the values that v gives to a finite set.  The sum is a fold, that is,
\* a function recursive in the subsets of the set; it exists since there is one for
\* the subsets of at most n elements, for every n.
SumOver(v, S) == Calc!MapThenSumSet(LAMBDA i : v[i], S)
Chosen(S) == CHOOSE x \in S : TRUE
Folded(v, f, s) == IF s = {} THEN 0 ELSE v[Chosen(s)] + f[s \ {Chosen(s)}]
Sums(v, f, S) == f = [s \in SUBSET S |-> Folded(v, f, s)]
Upto(S, n) == {s \in SUBSET S : Calc!Cardinality(s) <= n}
SumsUpto(v, f, S, n) == f = [s \in Upto(S, n) |-> Folded(v, f, s)]

LEMMA SumIs == ASSUME NEW v, NEW S PROVE SumOver(v, S) = (CHOOSE f : Sums(v, f, S))[S]
BY DEF SumOver, Calc!MapThenSumSet, Calc!MapThenFoldSet, Sums, Folded, Chosen

LEMMA OneLess ==
  ASSUME NEW s, Calc!IsFiniteSet(s), s # {}
  PROVE  /\ Chosen(s) \in s /\ Calc!IsFiniteSet(s \ {Chosen(s)})
         /\ Calc!Cardinality(s) \in Nat /\ Calc!Cardinality(s \ {Chosen(s)}) = Calc!Cardinality(s) - 1
<1>1. Chosen(s) \in s
  BY DEF Chosen
<1>2. Calc!Cardinality(s) \in Nat
  BY FS_CardinalityType, SizesOfCalc
<1> QED BY <1>1, <1>2, FS_RemoveElement, SizesOfCalc

LEMMA SumsExist ==
  ASSUME NEW v, NEW S, Calc!IsFiniteSet(S) PROVE \E f : Sums(v, f, S)
<1> DEFINE N == {n \in Nat : \E f : SumsUpto(v, f, S, n)}
<1>0. \A s \in SUBSET S : Calc!IsFiniteSet(s) /\ Calc!Cardinality(s) \in Nat
  BY FS_Subset, FS_CardinalityType, SizesOfCalc
<1>1. 0 \in N
  <2> DEFINE f == [s \in Upto(S, 0) |-> 0]
  <2>1. \A s \in Upto(S, 0) : s = {}
    <3> TAKE s \in Upto(S, 0)
    <3>1. Calc!IsFiniteSet(s) /\ Calc!Cardinality(s) \in Nat /\ Calc!Cardinality(s) <= 0
      BY <1>0 DEF Upto
    <3>2. Calc!Cardinality(s) = 0
      BY <3>1
    <3> QED BY <3>1, <3>2, FS_EmptySet, SizesOfCalc
  <2>2. f = [s \in Upto(S, 0) |-> Folded(v, f, s)]
    <3> HIDE DEF f
    <3>1. \A s \in Upto(S, 0) : Folded(v, f, s) = 0
      BY <2>1 DEF Folded
    <3> QED BY <3>1 DEF f
  <2>3. SumsUpto(v, f, S, 0)
    BY <2>2 DEF SumsUpto
  <2> QED BY <2>3
<1>2. ASSUME NEW n \in Nat, n \in N PROVE n + 1 \in N
  <2>1. PICK f : SumsUpto(v, f, S, n)
    BY <1>2
  <2> DEFINE g == [s \in Upto(S, n + 1) |-> Folded(v, f, s)]
  <2>2. ASSUME NEW s \in Upto(S, n + 1) PROVE Folded(v, f, s) = Folded(v, g, s)
    <3>1. CASE s = {}
      BY <3>1 DEF Folded
    <3>2. CASE s # {}
      <4> DEFINE r == s \ {Chosen(s)}
      <4>1. Calc!IsFiniteSet(s) /\ s \subseteq S /\ Calc!Cardinality(s) <= n + 1
        BY <1>0 DEF Upto
      <4>2. Calc!Cardinality(s) \in Nat /\ Calc!Cardinality(r) = Calc!Cardinality(s) - 1
        BY <3>2, <4>1, OneLess
      <4>3. Calc!Cardinality(r) <= n /\ Calc!Cardinality(r) <= n + 1 /\ r \in SUBSET S
        BY <4>1, <4>2
      <4>4. r \in Upto(S, n) /\ r \in Upto(S, n + 1)
        BY <4>3 DEF Upto
      <4>5. f[r] = Folded(v, f, r)
        <5> HIDE DEF r
        <5> QED BY <2>1, <4>4 DEF SumsUpto
      <4>6. g[r] = Folded(v, f, r)
        <5> HIDE DEF r
        <5> QED BY <4>4
      <4> HIDE DEF g
      <4> QED BY <3>2, <4>5, <4>6 DEF Folded
    <3> QED BY <3>1, <3>2
  <2>3. g = [s \in Upto(S, n + 1) |-> Folded(v, g, s)]
    <3> HIDE DEF g
    <3> QED BY <2>2 DEF g
  <2>4. SumsUpto(v, g, S, n + 1)
    BY <2>3 DEF SumsUpto
  <2> QED BY <2>4
<1>3. Nat \subseteq N
  <2> HIDE DEF N
  <2> QED BY <1>1, <1>2, NatSets
<1>4. Calc!Cardinality(S) \in N
  BY <1>3, FS_CardinalityType, SizesOfCalc
<1>5. Upto(S, Calc!Cardinality(S)) = SUBSET S
  <2>1. \A s \in SUBSET S : Calc!Cardinality(s) <= Calc!Cardinality(S)
    BY FS_Subset, SizesOfCalc
  <2> QED BY <2>1 DEF Upto
<1> QED BY <1>4, <1>5 DEF Sums, SumsUpto

LEMMA SumsAgree ==
  ASSUME NEW v, NEW S, Calc!IsFiniteSet(S), NEW T \in SUBSET S, NEW f, Sums(v, f, S), NEW g, Sums(v, g, T)
  PROVE  \A s \in SUBSET T : f[s] = g[s]
<1> DEFINE N == {n \in Nat : \A s \in SUBSET T : Calc!Cardinality(s) <= n => f[s] = g[s]}
<1>0. \A s \in SUBSET T : Calc!IsFiniteSet(s) /\ Calc!Cardinality(s) \in Nat
  BY FS_Subset, FS_CardinalityType, SizesOfCalc
<1>1. \A s \in SUBSET T : f[s] = Folded(v, f, s) /\ g[s] = Folded(v, g, s)
  BY DEF Sums
<1>2. 0 \in N
  <2>1. \A s \in SUBSET T : Calc!Cardinality(s) <= 0 => s = {}
    <3> TAKE s \in SUBSET T
    <3> HAVE Calc!Cardinality(s) <= 0
    <3>1. Calc!Cardinality(s) = 0
      BY <1>0
    <3> QED BY <1>0, <3>1, FS_EmptySet, SizesOfCalc
  <2>2. \A s \in SUBSET T : s = {} => f[s] = 0 /\ g[s] = 0
    BY <1>1 DEF Folded
  <2> QED BY <2>1, <2>2
<1>3. ASSUME NEW n \in Nat, n \in N PROVE n + 1 \in N
  <2> SUFFICES ASSUME NEW s \in SUBSET T, Calc!Cardinality(s) <= n + 1 PROVE f[s] = g[s]
    OBVIOUS
  <2>1. CASE s = {}
    BY <1>1, <2>1 DEF Folded
  <2>2. CASE s # {}
    <3> DEFINE r == s \ {Chosen(s)}
    <3>1. Calc!Cardinality(s) \in Nat /\ Calc!Cardinality(r) = Calc!Cardinality(s) - 1 /\ r \in SUBSET T
      BY <1>0, <2>2, OneLess
    <3>2. Calc!Cardinality(r) <= n
      BY <3>1
    <3>3. f[r] = g[r]
      <4> HIDE DEF r
      <4> QED BY <1>3, <3>1, <3>2
    <3> QED BY <1>1, <2>2, <3>3 DEF Folded
  <2> QED BY <2>1, <2>2
<1>4. Nat \subseteq N
  <2> HIDE DEF N
  <2> QED BY <1>2, <1>3, NatSets
<1> TAKE s \in SUBSET T
<1>5. Calc!Cardinality(s) \in N
  BY <1>0, <1>4
<1>6. Calc!Cardinality(s) <= Calc!Cardinality(s)
  BY <1>0
<1> QED BY <1>5, <1>6

LEMMA SumTaken ==
  ASSUME NEW v, NEW S, Calc!IsFiniteSet(S)
  PROVE  SumOver(v, S) = IF S = {} THEN 0 ELSE v[Chosen(S)] + SumOver(v, S \ {Chosen(S)})
<1> DEFINE T == S \ {Chosen(S)}
           f == CHOOSE h : Sums(v, h, S)
           g == CHOOSE h : Sums(v, h, T)
<1>0. Calc!IsFiniteSet(T) /\ T \in SUBSET S
  BY FS_Subset, SizesOfCalc
<1>1. Sums(v, f, S) /\ Sums(v, g, T)
  <2> HIDE DEF T
  <2> QED BY <1>0, SumsExist
<1>2. SumOver(v, S) = f[S] /\ SumOver(v, T) = g[T]
  <2> HIDE DEF T
  <2> QED BY SumIs
<1> HIDE DEF f, g
<1>3. f[T] = g[T]
  <2> HIDE DEF T
  <2> QED BY <1>0, <1>1, SumsAgree
<1>4. f[S] = Folded(v, f, S)
  BY <1>1 DEF Sums
<1> QED BY <1>2, <1>3, <1>4 DEF Folded

Numbers(v, S) == Calc!IsFiniteSet(S) /\ \A e \in S : v[e] \in Int

LEMMA SumInt == ASSUME NEW v, NEW S, Numbers(v, S) PROVE SumOver(v, S) \in Int
<1> DEFINE N == {n \in Nat : \A s \in SUBSET S : Calc!Cardinality(s) <= n => SumOver(v, s) \in Int}
<1>0. \A s \in SUBSET S : Calc!IsFiniteSet(s) /\ Calc!Cardinality(s) \in Nat
  BY FS_Subset, FS_CardinalityType, SizesOfCalc DEF Numbers
<1>1. 0 \in N
  <2>1. \A s \in SUBSET S : Calc!Cardinality(s) <= 0 => s = {}
    <3> TAKE s \in SUBSET S
    <3> HAVE Calc!Cardinality(s) <= 0
    <3>1. Calc!Cardinality(s) = 0
      BY <1>0
    <3> QED BY <1>0, <3>1, FS_EmptySet, SizesOfCalc
  <2>2. SumOver(v, {}) = 0
    BY SumTaken, FS_EmptySet, SizesOfCalc
  <2> QED BY <2>1, <2>2
<1>2. ASSUME NEW n \in Nat, n \in N PROVE n + 1 \in N
  <2> SUFFICES ASSUME NEW s \in SUBSET S, Calc!Cardinality(s) <= n + 1 PROVE SumOver(v, s) \in Int
    OBVIOUS
  <2>1. CASE s = {}
    <3>1. SumOver(v, {}) = 0
      BY SumTaken, FS_EmptySet, SizesOfCalc
    <3> QED BY <2>1, <3>1
  <2>2. CASE s # {}
    <3> DEFINE r == s \ {Chosen(s)}
    <3>1. Calc!Cardinality(s) \in Nat /\ Calc!Cardinality(r) = Calc!Cardinality(s) - 1 /\ Chosen(s) \in s /\ r \in SUBSET S
      BY <1>0, <2>2, OneLess
    <3>2. Calc!Cardinality(r) <= n
      BY <3>1
    <3>3. SumOver(v, r) \in Int
      <4> HIDE DEF r
      <4> QED BY <1>2, <3>1, <3>2
    <3>4. v[Chosen(s)] \in Int
      BY <3>1 DEF Numbers
    <3>5. SumOver(v, s) = v[Chosen(s)] + SumOver(v, r)
      BY <1>0, <2>2, SumTaken
    <3> HIDE DEF r
    <3> QED BY <3>3, <3>4, <3>5
  <2> QED BY <2>1, <2>2
<1>3. Nat \subseteq N
  <2> HIDE DEF N
  <2> QED BY <1>1, <1>2, NatSets
<1>4. S \in SUBSET S
  OBVIOUS
<1>5. Calc!Cardinality(S) \in Nat /\ Calc!Cardinality(S) <= Calc!Cardinality(S)
  BY <1>0, <1>4
<1>6. Calc!Cardinality(S) \in N
  BY <1>3, <1>5
<1> QED BY <1>4, <1>5, <1>6

\* In whatever order the fold takes the events, one more adds its amount.
LEMMA SumAdd ==
  ASSUME NEW v, NEW S, Numbers(v, S), NEW e, e \notin S, v[e] \in Int
  PROVE  SumOver(v, S \cup {e}) = SumOver(v, S) + v[e]
<1> DEFINE U == S \cup {e}
           N == {n \in Nat : \A s \in SUBSET U : \A x \in U \ s :
                               Calc!Cardinality(s) <= n => SumOver(v, s \cup {x}) = SumOver(v, s) + v[x]}
<1>0. Numbers(v, U)
  BY FS_AddElement, SizesOfCalc DEF Numbers
<1>1. \A s \in SUBSET U : Numbers(v, s) /\ Calc!IsFiniteSet(s) /\ Calc!Cardinality(s) \in Nat /\ SumOver(v, s) \in Int
  <2> HIDE DEF U
  <2> TAKE s \in SUBSET U
  <2>1. Calc!IsFiniteSet(s) /\ \A x \in s : v[x] \in Int
    BY <1>0, FS_Subset, SizesOfCalc DEF Numbers
  <2> QED BY <2>1, FS_CardinalityType, SizesOfCalc, SumInt DEF Numbers
<1>2. \A x \in U : v[x] \in Int
  BY <1>0 DEF Numbers
<1> HIDE DEF U
<1>3. ASSUME NEW n \in Nat, \A k \in 0..(n - 1) : k \in N PROVE n \in N
  <2> SUFFICES ASSUME NEW s \in SUBSET U, NEW x \in U \ s, Calc!Cardinality(s) <= n
               PROVE  SumOver(v, s \cup {x}) = SumOver(v, s) + v[x]
    OBVIOUS
  <2> DEFINE V == s \cup {x}
             y == Chosen(V)
  <2>1. V \in SUBSET U /\ V # {} /\ Calc!IsFiniteSet(V) /\ y \in V
    BY <1>1, OneLess
  <2>2. SumOver(v, V) = v[y] + SumOver(v, V \ {y})
    <3> HIDE DEF V
    <3> QED BY <2>1, SumTaken
  <2>3. CASE y = x
    <3>1. V \ {y} = s /\ v[y] = v[x]
      BY <2>3
    <3>2. SumOver(v, s) \in Int /\ v[x] \in Int
      BY <1>1, <1>2
    <3>3. SumOver(v, V) = v[x] + SumOver(v, s)
      <4> HIDE DEF V, y
      <4> QED BY <2>2, <3>1
    <3>4. SumOver(v, V) = SumOver(v, s) + v[x]
      <4> HIDE DEF V
      <4> QED BY <3>2, <3>3
    <3> QED BY <3>4
  <2>4. CASE y # x
    <3> DEFINE r == s \ {y}
    <3>1. y \in s /\ V \ {y} = r \cup {x} /\ s = r \cup {y} /\ r \in SUBSET U /\ x \in U \ r /\ y \in U \ r
      BY <2>1, <2>4
    <3>2. Calc!Cardinality(r) = Calc!Cardinality(s) - 1
      <4> HIDE DEF y, V
      <4> QED BY <1>1, <3>1, FS_RemoveElement, SizesOfCalc
    <3>3. Calc!Cardinality(r) \in Nat /\ Calc!Cardinality(s) \in Nat /\ SumOver(v, r) \in Int /\ v[x] \in Int /\ v[y] \in Int
      BY <1>1, <1>2, <3>1
    <3> HIDE DEF r, y, V
    <3>4. Calc!Cardinality(r) \in 0..(n - 1) /\ Calc!Cardinality(r) <= Calc!Cardinality(r)
      BY <3>2, <3>3
    <3>5. SumOver(v, r \cup {x}) = SumOver(v, r) + v[x]
      BY <1>3, <3>1, <3>3, <3>4
    <3>6. SumOver(v, r \cup {y}) = SumOver(v, r) + v[y]
      BY <1>3, <3>1, <3>3, <3>4
    <3>7. SumOver(v, V) = v[y] + (SumOver(v, r) + v[x]) /\ SumOver(v, s) = SumOver(v, r) + v[y]
      BY <2>2, <3>1, <3>5, <3>6
    <3>8. SumOver(v, V) = SumOver(v, s) + v[x]
      BY <3>3, <3>7
    <3> QED BY <3>8 DEF V
  <2> QED BY <2>3, <2>4
<1>4. Nat \subseteq N
  <2> DEFINE M == {n \in Nat : \A k \in 0..n : k \in N}
  <2> HIDE DEF N
  <2>1. 0 \in N
    <3>1. \A k \in 0..(0 - 1) : k \in N
      OBVIOUS
    <3> QED BY <1>3, <3>1
  <2>2. 0 \in M
    BY <2>1
  <2>3. ASSUME NEW n \in Nat, n \in M PROVE n + 1 \in M
    <3>1. \A k \in 0..((n + 1) - 1) : k \in N
      BY <2>3
    <3>2. n + 1 \in N
      BY <1>3, <3>1
    <3>3. \A k \in 0..(n + 1) : k \in N
      BY <3>1, <3>2
    <3> QED BY <3>3
  <2>4. Nat \subseteq M
    <3> HIDE DEF M
    <3> QED BY <2>2, <2>3, NatSets
  <2> QED BY <2>4
<1>5. S \in SUBSET U /\ e \in U \ S
  BY DEF U
<1>6. Calc!Cardinality(S) \in N /\ Calc!Cardinality(S) <= Calc!Cardinality(S)
  BY <1>1, <1>4, <1>5
<1> QED BY <1>5, <1>6

------------------------------------------------------------------------------
\* Sums of sums, of multiples, and of what is alike.
\* What holds of no elements, and of one more whenever it holds, holds of all.
LEMMA OneByOne ==
  ASSUME NEW S, Calc!IsFiniteSet(S), NEW P, {} \in P,
         \A s \in SUBSET S : \A x \in S \ s : s \in P => s \cup {x} \in P
  PROVE  S \in P
<1> DEFINE N == {n \in Nat : \A s \in SUBSET S : Calc!Cardinality(s) <= n => s \in P}
<1>0. \A s \in SUBSET S : Calc!IsFiniteSet(s) /\ Calc!Cardinality(s) \in Nat
  BY FS_Subset, FS_CardinalityType, SizesOfCalc
<1>1. 0 \in N
  <2> SUFFICES ASSUME NEW s \in SUBSET S, Calc!Cardinality(s) <= 0 PROVE s \in P
    OBVIOUS
  <2>1. Calc!Cardinality(s) = 0
    BY <1>0
  <2>2. s = {}
    BY <1>0, <2>1, FS_EmptySet, SizesOfCalc
  <2> QED BY <2>2
<1>2. ASSUME NEW n \in Nat, n \in N PROVE n + 1 \in N
  <2> SUFFICES ASSUME NEW s \in SUBSET S, Calc!Cardinality(s) <= n + 1 PROVE s \in P
    OBVIOUS
  <2>1. CASE s = {}
    BY <2>1
  <2>2. CASE s # {}
    <3> DEFINE x == Chosen(s)
               r == s \ {x}
    <3>1. Calc!Cardinality(s) \in Nat /\ Calc!Cardinality(r) = Calc!Cardinality(s) - 1 /\ x \in s
      BY <1>0, <2>2, OneLess
    <3>2. r \in SUBSET S /\ r \cup {x} = s /\ x \in S \ r
      <4> HIDE DEF x
      <4> QED BY <3>1
    <3> HIDE DEF r, x
    <3>3. Calc!Cardinality(r) <= n
      BY <3>1
    <3>4. r \in P
      BY <1>2, <3>2, <3>3
    <3> QED BY <3>2, <3>4
  <2> QED BY <2>1, <2>2
<1>3. Nat \subseteq N
  <2> HIDE DEF N
  <2> QED BY <1>1, <1>2, NatSets
<1>4. S \in SUBSET S
  OBVIOUS
<1>5. Calc!Cardinality(S) \in Nat /\ Calc!Cardinality(S) <= Calc!Cardinality(S)
  BY <1>0, <1>4
<1>6. Calc!Cardinality(S) \in N
  BY <1>3, <1>5
<1> QED BY <1>4, <1>5, <1>6

LEMMA SumNone == ASSUME NEW v PROVE SumOver(v, {}) = 0
BY SumTaken, FS_EmptySet, SizesOfCalc

LEMMA NumbersIn ==
  ASSUME NEW v, NEW S, Numbers(v, S), NEW s \in SUBSET S
  PROVE  Numbers(v, s) /\ SumOver(v, s) \in Int
<1>1. Calc!IsFiniteSet(s) /\ \A x \in s : v[x] \in Int
  BY FS_Subset, SizesOfCalc DEF Numbers
<1> QED BY <1>1, SumInt DEF Numbers

LEMMA SumMore ==
  ASSUME NEW v, NEW S, Numbers(v, S), NEW s \in SUBSET S, NEW x \in S \ s
  PROVE  SumOver(v, s \cup {x}) = SumOver(v, s) + v[x]
BY NumbersIn, SumAdd DEF Numbers

\* The sums of sums and of multiples.
LEMMA SumPlus ==
  ASSUME NEW u, NEW v, NEW w, NEW S, Numbers(u, S), Numbers(v, S), Numbers(w, S),
         \A i \in S : w[i] = u[i] + v[i]
  PROVE  SumOver(w, S) = SumOver(u, S) + SumOver(v, S)
<1> DEFINE P == {s \in SUBSET S : SumOver(w, s) = SumOver(u, s) + SumOver(v, s)}
<1>1. {} \in P
  BY SumNone
<1>2. ASSUME NEW s \in SUBSET S, NEW x \in S \ s, s \in P PROVE s \cup {x} \in P
  <2>1. SumOver(w, s) = SumOver(u, s) + SumOver(v, s)
    BY <1>2
  <2>2. SumOver(u, s) \in Int /\ SumOver(v, s) \in Int
    BY NumbersIn
  <2>3. u[x] \in Int /\ v[x] \in Int /\ w[x] = u[x] + v[x]
    BY DEF Numbers
  <2>4. SumOver(w, s \cup {x}) = SumOver(w, s) + w[x]
    BY SumMore
  <2>5. SumOver(u, s \cup {x}) = SumOver(u, s) + u[x]
    BY SumMore
  <2>6. SumOver(v, s \cup {x}) = SumOver(v, s) + v[x]
    BY SumMore
  <2> QED BY <2>1, <2>2, <2>3, <2>4, <2>5, <2>6
<1>3. Calc!IsFiniteSet(S)
  BY DEF Numbers
<1>4. S \in P
  <2> HIDE DEF P
  <2> QED BY <1>1, <1>2, <1>3, OneByOne
<1> QED BY <1>4

LEMMA SumTimes ==
  ASSUME NEW u, NEW w, NEW c \in Int, NEW S, Numbers(u, S), Numbers(w, S),
         \A i \in S : w[i] = c * u[i]
  PROVE  SumOver(w, S) = c * SumOver(u, S)
<1> DEFINE P == {s \in SUBSET S : SumOver(w, s) = c * SumOver(u, s)}
<1>1. {} \in P
  BY SumNone
<1>2. ASSUME NEW s \in SUBSET S, NEW x \in S \ s, s \in P PROVE s \cup {x} \in P
  <2>1. SumOver(w, s) = c * SumOver(u, s)
    BY <1>2
  <2>2. SumOver(u, s) \in Int
    BY NumbersIn
  <2>3. u[x] \in Int /\ w[x] = c * u[x]
    BY DEF Numbers
  <2>4. SumOver(w, s \cup {x}) = SumOver(w, s) + w[x]
    BY SumMore
  <2>5. SumOver(u, s \cup {x}) = SumOver(u, s) + u[x]
    BY SumMore
  <2>6. c * (SumOver(u, s) + u[x]) = c * SumOver(u, s) + c * u[x]
    BY <2>2, <2>3
  <2> QED BY <2>1, <2>3, <2>4, <2>5, <2>6
<1>3. Calc!IsFiniteSet(S)
  BY DEF Numbers
<1>4. S \in P
  <2> HIDE DEF P
  <2> QED BY <1>1, <1>2, <1>3, OneByOne
<1> QED BY <1>4

\* A sum is within what its terms are within.
LEMMA SumBound ==
  ASSUME NEW v, NEW S, Numbers(v, S), NEW lo \in Int, NEW hi \in Int,
         \A i \in S : lo <= v[i] /\ v[i] <= hi
  PROVE  lo * Calc!Cardinality(S) <= SumOver(v, S) /\ SumOver(v, S) <= hi * Calc!Cardinality(S)
<1> DEFINE P == {s \in SUBSET S : lo * Calc!Cardinality(s) <= SumOver(v, s) /\ SumOver(v, s) <= hi * Calc!Cardinality(s)}
<1>1. {} \in P
  BY SumNone, FS_EmptySet, SizesOfCalc
<1>2. ASSUME NEW s \in SUBSET S, NEW x \in S \ s, s \in P PROVE s \cup {x} \in P
  <2>1. lo * Calc!Cardinality(s) <= SumOver(v, s) /\ SumOver(v, s) <= hi * Calc!Cardinality(s)
    BY <1>2
  <2>2. SumOver(v, s) \in Int /\ Calc!IsFiniteSet(s)
    BY NumbersIn DEF Numbers
  <2>3. v[x] \in Int /\ lo <= v[x] /\ v[x] <= hi
    BY DEF Numbers
  <2>4. SumOver(v, s \cup {x}) = SumOver(v, s) + v[x]
    BY SumMore
  <2>5. Calc!Cardinality(s \cup {x}) = Calc!Cardinality(s) + 1 /\ Calc!Cardinality(s) \in Nat
    BY <2>2, FS_AddElement, FS_CardinalityType, SizesOfCalc
  <2>6. lo * (Calc!Cardinality(s) + 1) = lo * Calc!Cardinality(s) + lo
    BY <2>5
  <2>7. hi * (Calc!Cardinality(s) + 1) = hi * Calc!Cardinality(s) + hi
    BY <2>5
  <2>8. lo * Calc!Cardinality(s) \in Int /\ hi * Calc!Cardinality(s) \in Int
    BY <2>5
  <2>9. lo * Calc!Cardinality(s) + lo <= SumOver(v, s) + v[x] /\ SumOver(v, s) + v[x] <= hi * Calc!Cardinality(s) + hi
    BY <2>1, <2>2, <2>3, <2>8
  <2>10. s \cup {x} \in SUBSET S
    OBVIOUS
  <2> QED BY <2>4, <2>5, <2>6, <2>7, <2>9, <2>10
<1>3. Calc!IsFiniteSet(S)
  BY DEF Numbers
<1>4. S \in P
  <2> HIDE DEF P
  <2> QED BY <1>1, <1>2, <1>3, OneByOne
<1> QED BY <1>4

\* What adds nothing may be left out.
LEMMA SumRest ==
  ASSUME NEW v, NEW S, Numbers(v, S), NEW T \in SUBSET S, \A i \in S \ T : v[i] = 0
  PROVE  SumOver(v, S) = SumOver(v, T)
<1> DEFINE P == {s \in SUBSET S : SumOver(v, s) = SumOver(v, s \cap T)}
<1>1. {} \in P
  <2>1. {} \cap T = {}
    OBVIOUS
  <2> QED BY <2>1
<1>2. ASSUME NEW s \in SUBSET S, NEW x \in S \ s, s \in P PROVE s \cup {x} \in P
  <2>1. SumOver(v, s) = SumOver(v, s \cap T)
    BY <1>2
  <2>2. SumOver(v, s) \in Int /\ SumOver(v, s \cap T) \in Int /\ v[x] \in Int
    BY NumbersIn DEF Numbers
  <2>3. SumOver(v, s \cup {x}) = SumOver(v, s) + v[x]
    BY SumMore
  <2>4. CASE x \in T
    <3>1. (s \cup {x}) \cap T = (s \cap T) \cup {x} /\ s \cap T \in SUBSET S /\ x \in S \ (s \cap T)
      BY <2>4
    <3>2. SumOver(v, (s \cap T) \cup {x}) = SumOver(v, s \cap T) + v[x]
      BY <3>1, SumMore
    <3> QED BY <2>1, <2>3, <3>1, <3>2
  <2>5. CASE x \notin T
    <3>1. (s \cup {x}) \cap T = s \cap T /\ v[x] = 0
      BY <2>5
    <3>2. SumOver(v, s \cup {x}) = SumOver(v, s)
      BY <2>2, <2>3, <3>1
    <3> QED BY <2>1, <3>1, <3>2
  <2> QED BY <2>4, <2>5
<1>3. Calc!IsFiniteSet(S)
  BY DEF Numbers
<1>4. S \in P
  <2> HIDE DEF P
  <2> QED BY <1>1, <1>2, <1>3, OneByOne
<1>5. S \cap T = T
  OBVIOUS
<1> QED BY <1>4, <1>5

\* The same values under other names have the same sum.
LEMMA SumAlike ==
  ASSUME NEW u, NEW v, NEW S, NEW T, Numbers(u, S), Numbers(v, T), NEW b,
         \A i \in S : b[i] \in T /\ u[i] = v[b[i]],
         \A i, j \in S : b[i] = b[j] => i = j, \A k \in T : \E i \in S : b[i] = k
  PROVE  SumOver(u, S) = SumOver(v, T)
<1> DEFINE img(s) == {k \in T : \E i \in s : b[i] = k}
           P == {s \in SUBSET S : SumOver(u, s) = SumOver(v, img(s))}
<1>1. {} \in P
  <2>1. img({}) = {}
    OBVIOUS
  <2> QED BY <2>1, SumNone
<1>2. ASSUME NEW s \in SUBSET S, NEW x \in S \ s, s \in P PROVE s \cup {x} \in P
  <2>1. SumOver(u, s) = SumOver(v, img(s))
    BY <1>2
  <2>2. img(s) \in SUBSET T /\ b[x] \in T \ img(s)
    OBVIOUS
  <2>3. img(s \cup {x}) = img(s) \cup {b[x]}
    <3>1. \A k \in img(s \cup {x}) : k \in img(s) \cup {b[x]}
      OBVIOUS
    <3>2. \A k \in img(s) \cup {b[x]} : k \in img(s \cup {x})
      OBVIOUS
    <3> HIDE DEF img
    <3> QED BY <3>1, <3>2
  <2> HIDE DEF img
  <2>4. SumOver(u, s \cup {x}) = SumOver(u, s) + u[x]
    BY SumMore
  <2>5. SumOver(v, img(s) \cup {b[x]}) = SumOver(v, img(s)) + v[b[x]]
    BY <2>2, SumMore
  <2> QED BY <2>1, <2>3, <2>4, <2>5
<1>3. Calc!IsFiniteSet(S)
  BY DEF Numbers
<1>4. S \in P
  <2> HIDE DEF P
  <2> QED BY <1>1, <1>2, <1>3, OneByOne
<1>5. img(S) = T
  OBVIOUS
<1> QED BY <1>4, <1>5

------------------------------------------------------------------------------
\* Ranks in a finite set that is ordered, and divisions.
\* --- Ranks in a finite set that R orders: each rank is one element's.
Ordered(R, E) ==
  /\ \A i \in E : <<i, i>> \notin R
  /\ \A i, j \in E : i # j => <<i, j>> \in R \/ <<j, i>> \in R
  /\ \A i, j, k \in E : <<i, j>> \in R /\ <<j, k>> \in R => <<i, k>> \in R
EarlierIn(E, R, i) == {j \in E : <<j, i>> \in R}

LEMMA Ranks ==
  ASSUME NEW E, Calc!IsFiniteSet(E), NEW R, Ordered(R, E)
  PROVE  /\ \A i \in E : Calc!Cardinality(EarlierIn(E, R, i)) \in 0..(Calc!Cardinality(E) - 1)
         /\ \A i, k \in E : <<i, k>> \in R => Calc!Cardinality(EarlierIn(E, R, i)) < Calc!Cardinality(EarlierIn(E, R, k))
         /\ \A i, k \in E : Calc!Cardinality(EarlierIn(E, R, i)) = Calc!Cardinality(EarlierIn(E, R, k)) => i = k
         /\ \A n \in 0..(Calc!Cardinality(E) - 1) : \E i \in E : Calc!Cardinality(EarlierIn(E, R, i)) = n
<1>0. Calc!Cardinality(E) \in Nat
  BY FS_CardinalityType, SizesOfCalc
<1>1. \A i \in E : Calc!IsFiniteSet(EarlierIn(E, R, i)) /\ Calc!Cardinality(EarlierIn(E, R, i)) \in 0..(Calc!Cardinality(E) - 1)
  <2> TAKE i \in E
  <2>1. EarlierIn(E, R, i) \in SUBSET E /\ i \notin EarlierIn(E, R, i)
    BY DEF EarlierIn, Ordered
  <2>2. Calc!IsFiniteSet(EarlierIn(E, R, i)) /\ Calc!Cardinality(EarlierIn(E, R, i)) <= Calc!Cardinality(E)
        /\ (Calc!Cardinality(E) = Calc!Cardinality(EarlierIn(E, R, i)) => E = EarlierIn(E, R, i))
    BY <2>1, FS_Subset, SizesOfCalc
  <2>3. Calc!Cardinality(EarlierIn(E, R, i)) \in Nat
    BY <2>2, FS_CardinalityType, SizesOfCalc
  <2> QED BY <1>0, <2>1, <2>2, <2>3
<1>2. ASSUME NEW i \in E, NEW k \in E, <<i, k>> \in R
      PROVE  Calc!Cardinality(EarlierIn(E, R, i)) < Calc!Cardinality(EarlierIn(E, R, k))
  <2>1. EarlierIn(E, R, i) \in SUBSET EarlierIn(E, R, k) /\ i \in EarlierIn(E, R, k) /\ i \notin EarlierIn(E, R, i)
    BY <1>2 DEF EarlierIn, Ordered
  <2>2. Calc!Cardinality(EarlierIn(E, R, i)) <= Calc!Cardinality(EarlierIn(E, R, k))
        /\ (Calc!Cardinality(EarlierIn(E, R, k)) = Calc!Cardinality(EarlierIn(E, R, i)) => EarlierIn(E, R, k) = EarlierIn(E, R, i))
    BY <1>1, <2>1, FS_Subset, SizesOfCalc
  <2>3. Calc!Cardinality(EarlierIn(E, R, i)) \in Nat /\ Calc!Cardinality(EarlierIn(E, R, k)) \in Nat
    BY <1>0, <1>1
  <2> QED BY <2>1, <2>2, <2>3
<1>3. \A i, k \in E : Calc!Cardinality(EarlierIn(E, R, i)) = Calc!Cardinality(EarlierIn(E, R, k)) => i = k
  <2> TAKE i, k \in E
  <2>1. <<i, k>> \in R \/ <<k, i>> \in R \/ i = k
    BY DEF Ordered
  <2>2. Calc!Cardinality(EarlierIn(E, R, i)) \in Nat /\ Calc!Cardinality(EarlierIn(E, R, k)) \in Nat
    BY <1>0, <1>1
  <2> QED BY <1>2, <2>1, <2>2
<1>4. \A n \in 0..(Calc!Cardinality(E) - 1) : \E i \in E : Calc!Cardinality(EarlierIn(E, R, i)) = n
  <2> DEFINE m == Calc!Cardinality(E)
             f == [i \in E |-> Calc!Cardinality(EarlierIn(E, R, i)) + 1]
  <2>2. Calc!IsFiniteSet(1..m) /\ Calc!Cardinality(1..m) = m
    BY <1>0, FS_Interval, SizesOfCalc
  <2>3. \A i \in E : Calc!Cardinality(EarlierIn(E, R, i)) \in Nat /\ Calc!Cardinality(EarlierIn(E, R, i)) + 1 \in 1..m
    BY <1>0, <1>1
  <2>4. f \in [E -> 1..m]
    BY <2>3
  <2>5. \A i, k \in E : f[i] = f[k] => i = k
    BY <1>3, <2>3
  <2>6. \A i \in E : f[i] = Calc!Cardinality(EarlierIn(E, R, i)) + 1
    OBVIOUS
  <2>7. m = Calc!Cardinality(E)
    OBVIOUS
  <2> HIDE DEF f, m
  <2>8. f \in Injection(E, 1..m)
    BY <2>4, <2>5 DEF Injection, IsInjective
  <2>9. f \in Surjection(E, 1..m)
    BY <2>2, <2>7, <2>8, FS_Injection, SizesOfCalc
  <2> TAKE n \in 0..(Calc!Cardinality(E) - 1)
  <2>10. n + 1 \in 1..m
    BY <1>0, <2>7
  <2>11. PICK i \in E : f[i] = n + 1
    BY <2>9, <2>10 DEF Surjection
  <2>12. Calc!Cardinality(EarlierIn(E, R, i)) + 1 = n + 1 /\ Calc!Cardinality(EarlierIn(E, R, i)) \in Nat
    BY <2>3, <2>6, <2>11
  <2> QED BY <2>12
<1> QED BY <1>1, <1>2, <1>3, <1>4

\* As many are of the first k ranks as there are such ranks.
LEMMA FirstRanks ==
  ASSUME NEW E, Calc!IsFiniteSet(E), NEW R, Ordered(R, E), NEW k \in 0..Calc!Cardinality(E)
  PROVE  Calc!Cardinality({i \in E : Calc!Cardinality(EarlierIn(E, R, i)) < k}) = k
<1> DEFINE A == {i \in E : Calc!Cardinality(EarlierIn(E, R, i)) < k}
           f == [i \in A |-> Calc!Cardinality(EarlierIn(E, R, i)) + 1]
<1>0. Calc!Cardinality(E) \in Nat /\ A \in SUBSET E /\ Calc!IsFiniteSet(A)
  BY FS_CardinalityType, FS_Subset, SizesOfCalc
<1>1. \A i \in E : Calc!Cardinality(EarlierIn(E, R, i)) \in 0..(Calc!Cardinality(E) - 1)
  BY Ranks
<1>2. \A i \in A : i \in E /\ Calc!Cardinality(EarlierIn(E, R, i)) \in Nat /\ Calc!Cardinality(EarlierIn(E, R, i)) + 1 \in 1..k
  BY <1>0, <1>1
<1>3. f \in [A -> 1..k]
  BY <1>2
<1>4. \A i, j \in A : f[i] = f[j] => i = j
  <2>1. \A i, j \in E : Calc!Cardinality(EarlierIn(E, R, i)) = Calc!Cardinality(EarlierIn(E, R, j)) => i = j
    BY Ranks
  <2> QED BY <1>2, <2>1
<1>5. \A n \in 1..k : \E i \in A : f[i] = n
  <2> TAKE n \in 1..k
  <2>1. n - 1 \in 0..(Calc!Cardinality(E) - 1) /\ n - 1 < k /\ (n - 1) + 1 = n
    BY <1>0
  <2>2. PICK i \in E : Calc!Cardinality(EarlierIn(E, R, i)) = n - 1
    BY <2>1, Ranks
  <2>3. i \in A
    BY <2>1, <2>2
  <2> QED BY <2>1, <2>2, <2>3
<1> HIDE DEF f, A
<1>6. f \in Bijection(A, 1..k)
  BY <1>3, <1>4, <1>5 DEF Bijection, Injection, IsInjective, Surjection
<1>7. ExistsBijection(A, 1..k)
  BY <1>6 DEF ExistsBijection
<1>8. Calc!Cardinality(1..k) = Calc!Cardinality(A)
  BY <1>0, <1>7, FS_Bijection, SizesOfCalc
<1>9. Calc!Cardinality(1..k) = k
  BY <1>0, FS_Interval, SizesOfCalc
<1> QED BY <1>8, <1>9 DEF A

LEMMA SumMarks ==
  ASSUME NEW v, NEW S, Calc!IsFiniteSet(S), NEW A \in SUBSET S,
         \A i \in S : v[i] = IF i \in A THEN 1 ELSE 0
  PROVE  SumOver(v, S) = Calc!Cardinality(A)
<1>1. Numbers(v, S) /\ Calc!IsFiniteSet(A) /\ Calc!Cardinality(A) \in Nat
  BY FS_Subset, FS_CardinalityType, SizesOfCalc DEF Numbers
<1>2. SumOver(v, S) = SumOver(v, A)
  BY <1>1, SumRest
<1>3. Numbers(v, A) /\ SumOver(v, A) \in Int
  BY <1>1, NumbersIn
<1>4. 1 * Calc!Cardinality(A) <= SumOver(v, A) /\ SumOver(v, A) <= 1 * Calc!Cardinality(A)
  BY <1>3, SumBound
<1> QED BY <1>1, <1>2, <1>3, <1>4

\* Giving q to each and one more to the first k ranks gives k and q times as many.
LEMMA Spread ==
  ASSUME NEW v, NEW E, Calc!IsFiniteSet(E), NEW R, Ordered(R, E), NEW q \in Int, NEW k \in 0..Calc!Cardinality(E),
         \A i \in E : v[i] = q + IF Calc!Cardinality(EarlierIn(E, R, i)) < k THEN 1 ELSE 0
  PROVE  Numbers(v, E) /\ SumOver(v, E) = q * Calc!Cardinality(E) + k
<1> DEFINE A == {i \in E : Calc!Cardinality(EarlierIn(E, R, i)) < k}
           u == [i \in E |-> q]
           w == [i \in E |-> IF i \in A THEN 1 ELSE 0]
<1>0. A \in SUBSET E /\ Calc!Cardinality(A) = k /\ Calc!Cardinality(E) \in Nat
  BY FirstRanks, FS_CardinalityType, SizesOfCalc
<1>1. \A i \in E : u[i] = q /\ w[i] = (IF i \in A THEN 1 ELSE 0) /\ v[i] = u[i] + w[i]
  OBVIOUS
<1> HIDE DEF A, u, w
<1>2. Numbers(u, E) /\ Numbers(w, E) /\ Numbers(v, E)
  BY <1>1 DEF Numbers
<1>3. SumOver(v, E) = SumOver(u, E) + SumOver(w, E)
  BY <1>1, <1>2, SumPlus
<1>4. SumOver(w, E) = k
  BY <1>0, <1>1, SumMarks
<1>5. q * Calc!Cardinality(E) <= SumOver(u, E) /\ SumOver(u, E) <= q * Calc!Cardinality(E)
  BY <1>1, <1>2, SumBound
<1>6. SumOver(u, E) \in Int /\ q * Calc!Cardinality(E) \in Int
  BY <1>0, <1>2, SumInt
<1>7. SumOver(u, E) = q * Calc!Cardinality(E)
  BY <1>5, <1>6
<1> QED BY <1>2, <1>3, <1>4, <1>7

\* --- Division.
LEMMA Divided ==
  ASSUME NEW a \in Nat, NEW c \in Nat, c # 0
  PROVE  /\ a \div c \in Nat /\ a % c \in 0..(c - 1)
         /\ a = c * (a \div c) + (a % c)
<1>1. a % c \in 0..(c - 1)
  OBVIOUS
<1>2. a \div c \in Nat
  <2>1. a \div c \in Int
    OBVIOUS
  <2>2. a \div c >= 0
    OBVIOUS
  <2> QED BY <2>1, <2>2
<1>3. a - c * (a \div c) = a % c
  OBVIOUS
<1>4. \A x, y, z \in Int : x - y = z => x = y + z
  OBVIOUS
<1>5. c * (a \div c) \in Int
  BY <1>2
<1>6. a = c * (a \div c) + (a % c)
  BY <1>1, <1>3, <1>4, <1>5
<1> QED BY <1>1, <1>2, <1>6

LEMMA DividedOnce ==
  ASSUME NEW c \in Nat, c # 0, NEW q \in Nat, NEW r \in 0..(c - 1), NEW a \in Nat, a = c * q + r
  PROVE  a \div c = q /\ a % c = r
<1> DEFINE d == a \div c
           e == a % c
<1>1. d \in Nat /\ e \in 0..(c - 1) /\ a = c * d + e
  BY Divided
<1>2. d = a \div c /\ e = a % c
  OBVIOUS
<1> HIDE DEF d, e
<1>3. ~(d > q)
  <2> SUFFICES ASSUME d > q PROVE FALSE
    OBVIOUS
  <2>1. d - q - 1 \in Nat
    BY <1>1
  <2>2. c * (d - q - 1) >= 0
    BY <2>1
  <2>3. c * d = c * q + c + c * (d - q - 1)
    BY <1>1
  <2> QED BY <1>1, <2>2, <2>3
<1>4. ~(d < q)
  <2> SUFFICES ASSUME d < q PROVE FALSE
    OBVIOUS
  <2>1. q - d - 1 \in Nat
    BY <1>1
  <2>2. c * (q - d - 1) >= 0
    BY <2>1
  <2>3. c * q = c * d + c + c * (q - d - 1)
    BY <1>1
  <2> QED BY <1>1, <2>2, <2>3
<1>5. d = q
  BY <1>1, <1>3, <1>4
<1> QED BY <1>1, <1>2, <1>5

\* Of M things dealt in turn to c, the one at a place gets its share and, if it
\* is among the first, one of what is left.
LEMMA Turns ==
  ASSUME NEW M \in Nat, NEW c \in Nat, c # 0, NEW p \in 0..(c - 1)
  PROVE  (M - p + c - 1) \div c = (M \div c) + IF p < M % c THEN 1 ELSE 0
<1> DEFINE q == M \div c
           r == M % c
<1>1. q \in Nat /\ r \in 0..(c - 1) /\ M = c * q + r
  BY Divided
<1>2. q = M \div c /\ r = M % c
  OBVIOUS
<1> HIDE DEF q, r
<1>3. PICK a \in Nat : a = M - p + c - 1
  BY <1>1
<1>4. CASE p < r
  <2>1. r - p - 1 \in 0..(c - 1) /\ q + 1 \in Nat
    BY <1>1, <1>4
  <2>2. c * (q + 1) = c * q + c
    BY <1>1
  <2>3. PICK k \in Nat, s \in 0..(c - 1) : k = q + 1 /\ s = r - p - 1
    BY <2>1
  <2>5. c * k = c * q + c
    BY <2>2, <2>3
  <2>6. a = c * k + s
    BY <1>1, <1>3, <2>3, <2>5
  <2>7. a \div c = k
    BY <2>6, DividedOnce
  <2>4. a \div c = q + 1
    BY <2>3, <2>7
  <2> QED BY <1>2, <1>3, <1>4, <2>4
<1>5. CASE ~(p < r)
  <2>1. r - p + c - 1 \in 0..(c - 1)
    BY <1>1, <1>5
  <2>2. a = c * q + (r - p + c - 1)
    BY <1>1, <1>3
  <2>3. a \div c = q
    BY <1>1, <2>1, <2>2, DividedOnce
  <2>4. q = q + 0 /\ ~(p < M % c)
    BY <1>1, <1>2, <1>5
  <2>5. (M - p + c - 1) \div c = M \div c
    BY <1>2, <1>3, <2>3
  <2> QED BY <1>2, <2>4, <2>5
<1> QED BY <1>4, <1>5

------------------------------------------------------------------------------
\* AttributionCalculation: whom a run takes, and what they weigh.
\* What a run is given: a model, the candidates that are named, a window, an amount
\* and the touchpoints that are effective.
Named(p) ==
  /\ DOMAIN p \in SUBSET Nat /\ Calc!IsFiniteSet(DOMAIN p) /\ Calc!Cardinality(DOMAIN p) <= Unit
  /\ \A i \in DOMAIN p : p[i] \in Candidates
Model(m) == \E s \in Calc!Strategies : m = [strategy |-> s, basis |-> Calc!Basis(s)]

LEMMA PayloadNamed == ASSUME NEW p \in Calc!Payloads PROVE Named(p) /\ \E n \in Nat : DOMAIN p = 1..n
<1>1. PICK n \in 0..MaxNamed : p \in [1..n -> Candidates]
  BY DEF Calc!Payloads
<1>2. MaxNamed \in Nat /\ MaxNamed <= Unit /\ Unit \in Nat
  BY CalcBounds DEF Calc!CalculationConstants
<1>3. n \in Nat /\ n <= Unit /\ DOMAIN p = 1..n
  BY <1>1, <1>2
<1>4. Calc!IsFiniteSet(1..n) /\ Calc!Cardinality(1..n) = n
  BY <1>3, FS_Interval, SizesOfCalc
<1> QED BY <1>1, <1>3, <1>4 DEF Named

LEMMA ModelFacts ==
  ASSUME NEW m, Model(m)
  PROVE  m.strategy \in Calc!Strategies /\ m.basis = Calc!Basis(m.strategy) /\ m.basis # "correlation_only"
BY DEF Model, Calc!Basis

LEMMA CandidateFacts ==
  ASSUME NEW c \in Candidates
  PROVE  /\ c.click \in Clicks /\ c.click \in Nat /\ OccurredAt[c.click] \in Int
         /\ c.ref \in Int /\ c.weight \in 0..Unit /\ c.weight \in Nat
         /\ Calc!BasisRank(c.basis) \in Nat /\ Calc!Bases[Calc!BasisRank(c.basis)] = c.basis
<1>1. \E n \in DOMAIN Calc!Bases : c.basis = Calc!Bases[n]
  BY CalcBounds DEF Calc!CalculationConstants
<1>2. DOMAIN Calc!Bases \subseteq Nat
  BY DEF Calc!Bases
<1>3. Calc!BasisRank(c.basis) \in DOMAIN Calc!Bases /\ Calc!Bases[Calc!BasisRank(c.basis)] = c.basis
  BY <1>1 DEF Calc!BasisRank
<1>4. /\ c.click \in Clicks /\ Clicks \subseteq Nat /\ OccurredAt \in [Clicks -> Int]
      /\ c.ref \in Int /\ c.weight \in 0..Unit /\ Unit \in Nat
  BY CalcBounds DEF Calc!CalculationConstants
<1>5. c.click \in Nat
  BY <1>4
<1>6. OccurredAt[c.click] \in Int
  BY <1>4
<1>7. c.weight \in Nat
  <2>1. \A n \in 0..Unit : n \in Nat
    BY <1>4
  <2> QED BY <1>4, <2>1
<1> QED BY <1>2, <1>3, <1>4, <1>5, <1>6, <1>7

\* --- The orders in which a run takes what is named, and its touchpoints.
BeforeIn(p) == {x \in (DOMAIN p) \X (DOMAIN p) : Calc!Before(p, x[1], x[2])}
SoonerIn(p) == {x \in (DOMAIN p) \X (DOMAIN p) : Calc!Sooner(p[x[1]], p[x[2]])}

LEMMA BeforeIs ==
  ASSUME NEW p, NEW i \in DOMAIN p, NEW j \in DOMAIN p
  PROVE  <<i, j>> \in BeforeIn(p) <=> Calc!Before(p, i, j)
<1> DEFINE x == <<i, j>>
<1>0. x \in (DOMAIN p) \X (DOMAIN p)
  OBVIOUS
<1>1. x[1] = i /\ x[2] = j
  OBVIOUS
<1> HIDE DEF x
<1>2. x \in BeforeIn(p) <=> Calc!Before(p, i, j)
  BY <1>0, <1>1 DEF BeforeIn
<1> QED BY <1>2 DEF x

LEMMA SoonerIs ==
  ASSUME NEW p, NEW i \in DOMAIN p, NEW j \in DOMAIN p
  PROVE  <<i, j>> \in SoonerIn(p) <=> Calc!Sooner(p[i], p[j])
<1> DEFINE x == <<i, j>>
<1>0. x \in (DOMAIN p) \X (DOMAIN p)
  OBVIOUS
<1>1. x[1] = i /\ x[2] = j
  OBVIOUS
<1> HIDE DEF x
<1>2. x \in SoonerIn(p) <=> Calc!Sooner(p[i], p[j])
  BY <1>0, <1>1 DEF SoonerIn
<1> QED BY <1>2 DEF x

\* Of two numbered keys of three numbers one comes first.
Less(a, b, c, n, d, e, f, k) ==
  a < d \/ (a = d /\ (b < e \/ (b = e /\ (c < f \/ (c = f /\ n < k)))))

LEMMA BeforeLess ==
  ASSUME NEW p, Named(p), NEW i \in DOMAIN p, NEW j \in DOMAIN p
  PROVE  Calc!Before(p, i, j) <=>
           Less(p[i].click, Calc!BasisRank(p[i].basis), p[i].ref, i, p[j].click, Calc!BasisRank(p[j].basis), p[j].ref, j)
<1>1. p[i] \in Candidates /\ p[j] \in Candidates /\ i \in Nat /\ j \in Nat
  BY DEF Named
<1>2. /\ p[i].click \in Nat /\ p[i].ref \in Int /\ Calc!BasisRank(p[i].basis) \in Nat
      /\ p[j].click \in Nat /\ p[j].ref \in Int /\ Calc!BasisRank(p[j].basis) \in Nat
  BY <1>1, CandidateFacts
<1>3. p[i].basis = p[j].basis <=> Calc!BasisRank(p[i].basis) = Calc!BasisRank(p[j].basis)
  BY <1>1, CandidateFacts
<1>4. Calc!SameKey(p[i], p[j]) <=>
        p[i].click = p[j].click /\ p[i].basis = p[j].basis /\ p[i].ref = p[j].ref
  BY DEF Calc!SameKey
<1>5. Calc!Precedes(p[i], p[j]) <=>
        \/ p[i].click < p[j].click
        \/ p[i].click = p[j].click /\ Calc!BasisRank(p[i].basis) < Calc!BasisRank(p[j].basis)
        \/ p[i].click = p[j].click /\ p[i].basis = p[j].basis /\ p[i].ref < p[j].ref
  BY DEF Calc!Precedes
<1>6. Calc!Before(p, i, j) <=> Calc!Precedes(p[i], p[j]) \/ (Calc!SameKey(p[i], p[j]) /\ i < j)
  BY DEF Calc!Before
<1> QED BY <1>2, <1>3, <1>4, <1>5, <1>6 DEF Less

LEMMA BeforeOrders == ASSUME NEW p, Named(p), NEW S \in SUBSET DOMAIN p PROVE Ordered(BeforeIn(p), S)
<1> DEFINE t(i) == <<p[i].click, Calc!BasisRank(p[i].basis), p[i].ref>>
<1>1. \A i \in S : /\ p[i].click \in Int /\ Calc!BasisRank(p[i].basis) \in Int /\ p[i].ref \in Int /\ i \in Int
                   /\ i \in DOMAIN p
  <2> TAKE i \in S
  <2>1. p[i] \in Candidates /\ i \in Nat
    BY DEF Named
  <2> QED BY <2>1, CandidateFacts
<1>2. \A i, j \in S : <<i, j>> \in BeforeIn(p) <=>
        Less(p[i].click, Calc!BasisRank(p[i].basis), p[i].ref, i, p[j].click, Calc!BasisRank(p[j].basis), p[j].ref, j)
  BY <1>1, BeforeIs, BeforeLess
<1>3. \A i \in S : <<i, i>> \notin BeforeIn(p)
  <2>1. \A a, b, c, n \in Int : ~Less(a, b, c, n, a, b, c, n)
    BY DEF Less
  <2> QED BY <1>1, <1>2, <2>1
<1>4. \A i, j \in S : i # j => <<i, j>> \in BeforeIn(p) \/ <<j, i>> \in BeforeIn(p)
  <2>1. \A a, b, c, n, d, e, f, k \in Int :
          n # k => Less(a, b, c, n, d, e, f, k) \/ Less(d, e, f, k, a, b, c, n)
    BY DEF Less
  <2> QED BY <1>1, <1>2, <2>1
<1>5. \A i, j, k \in S : <<i, j>> \in BeforeIn(p) /\ <<j, k>> \in BeforeIn(p) => <<i, k>> \in BeforeIn(p)
  <2> TAKE i, j, k \in S
  <2> HAVE <<i, j>> \in BeforeIn(p) /\ <<j, k>> \in BeforeIn(p)
  <2>1. ASSUME NEW a \in Int, NEW b \in Int, NEW c \in Int, NEW n \in Int,
               NEW d \in Int, NEW e \in Int, NEW f \in Int, NEW l \in Int,
               NEW g \in Int, NEW h \in Int, NEW q \in Int, NEW r \in Int,
               Less(a, b, c, n, d, e, f, l), Less(d, e, f, l, g, h, q, r)
        PROVE  Less(a, b, c, n, g, h, q, r)
    BY <2>1 DEF Less
  <2> QED BY <1>1, <1>2, <2>1
<1> QED BY <1>3, <1>4, <1>5 DEF Ordered

LEMMA SoonerOrders ==
  ASSUME NEW p, Named(p), NEW S \in SUBSET DOMAIN p,
         \A i, j \in S : p[i].click = p[j].click => i = j
  PROVE  Ordered(SoonerIn(p), S)
<1>1. \A i \in S : p[i].click \in Nat /\ OccurredAt[p[i].click] \in Int /\ i \in DOMAIN p
  <2> TAKE i \in S
  <2>1. p[i] \in Candidates
    BY DEF Named
  <2> QED BY <2>1, CandidateFacts
<1>2. \A i, j \in S : <<i, j>> \in SoonerIn(p) <=>
        \/ OccurredAt[p[i].click] < OccurredAt[p[j].click]
        \/ OccurredAt[p[i].click] = OccurredAt[p[j].click] /\ p[i].click < p[j].click
  BY <1>1, SoonerIs DEF Calc!Sooner
<1>3. \A i \in S : <<i, i>> \notin SoonerIn(p)
  BY <1>1, <1>2
<1>4. \A i, j \in S : i # j => <<i, j>> \in SoonerIn(p) \/ <<j, i>> \in SoonerIn(p)
  BY <1>1, <1>2
<1>5. \A i, j, k \in S : <<i, j>> \in SoonerIn(p) /\ <<j, k>> \in SoonerIn(p) => <<i, k>> \in SoonerIn(p)
  BY <1>1, <1>2
<1> QED BY <1>3, <1>4, <1>5 DEF Ordered

LEMMA PositionIs ==
  ASSUME NEW p, NEW E \in SUBSET DOMAIN p, NEW i \in E
  PROVE  Calc!Position(p, E, i) = Calc!Cardinality(EarlierIn(E, SoonerIn(p), i))
<1>1. {j \in E : Calc!Sooner(p[j], p[i])} = EarlierIn(E, SoonerIn(p), i)
  BY SoonerIs DEF EarlierIn
<1> QED BY <1>1 DEF Calc!Position

\* --- The candidates that a run credits or might have.
LEMMA StateIs ==
  ASSUME NEW m, Model(m), NEW c \in Candidates, NEW w, NEW current
  PROVE  Calc!CandidateState(c, m, w, current) = "eligible" <=> Calc!Admissible(c, m, w, current)
<1>1. OccurredAt[c.click] \in Int /\ SubjectAt \in Int
  BY CandidateFacts, CalcBounds DEF Calc!CalculationConstants
<1>2. OccurredAt[c.click] <= SubjectAt <=> ~(OccurredAt[c.click] > SubjectAt)
  BY <1>1
<1> QED BY <1>2, ModelFacts DEF Calc!CandidateState, Calc!Admissible

PreparedAs(prepared, p, m, w, current) ==
  /\ DOMAIN prepared = DOMAIN p
  /\ \A i \in DOMAIN p : prepared[i] \notin {"credited", "eligible_not_selected"}
  /\ \A i \in DOMAIN p : prepared[i] = "eligible" <=>
       /\ Calc!Admissible(p[i], m, w, current)
       /\ ~\E j \in DOMAIN p :
             Calc!Admissible(p[j], m, w, current) /\ p[j].click = p[i].click /\ Calc!Before(p, j, i)

LEMMA PreparedIs ==
  ASSUME NEW p, Named(p), NEW m, Model(m), NEW w, NEW current
  PROVE  PreparedAs(Calc!Prepared(p, m, w, current), p, m, w, current)
<1> DEFINE state == [i \in DOMAIN p |-> Calc!CandidateState(p[i], m, w, current)]
           repeated(i) == \E j \in DOMAIN p : state[j] = "eligible" /\ p[j].click = p[i].click /\ Calc!Before(p, j, i)
           prepared == Calc!Prepared(p, m, w, current)
<1>1. prepared = [i \in DOMAIN p |->
                    IF state[i] = "eligible" /\ repeated(i) THEN "duplicate_touchpoint" ELSE state[i]]
  BY DEF Calc!Prepared
<1>2. \A i \in DOMAIN p : state[i] = "eligible" <=> Calc!Admissible(p[i], m, w, current)
  BY StateIs DEF Named
<1>3. \A i \in DOMAIN p : state[i] \notin {"credited", "eligible_not_selected"}
  BY DEF Calc!CandidateState
<1> HIDE DEF state, prepared
<1>4. \A i \in DOMAIN p : prepared[i] \notin {"credited", "eligible_not_selected"}
  BY <1>1, <1>3
<1>5. \A i \in DOMAIN p : prepared[i] = "eligible" <=> state[i] = "eligible" /\ ~repeated(i)
  BY <1>1
<1>6. DOMAIN prepared = DOMAIN p
  BY <1>1
<1>7. \A i \in DOMAIN p : repeated(i) <=>
        \E j \in DOMAIN p : Calc!Admissible(p[j], m, w, current) /\ p[j].click = p[i].click /\ Calc!Before(p, j, i)
  BY <1>2
<1> HIDE DEF repeated
<1>8. \A i \in DOMAIN p : prepared[i] = "eligible" <=>
        /\ Calc!Admissible(p[i], m, w, current)
        /\ ~\E j \in DOMAIN p :
              Calc!Admissible(p[j], m, w, current) /\ p[j].click = p[i].click /\ Calc!Before(p, j, i)
  BY <1>2, <1>5, <1>7
<1> QED BY <1>4, <1>6, <1>8 DEF PreparedAs, prepared

\* Whatever is admissible, the first evidence of its touchpoint is eligible, and no
\* other evidence of it.
Chooses(E, p, m, w, current) ==
  /\ E \in SUBSET DOMAIN p
  /\ \A i \in E : Calc!Admissible(p[i], m, w, current)
  /\ \A i, j \in E : p[i].click = p[j].click => i = j
  /\ \A i \in DOMAIN p : Calc!Admissible(p[i], m, w, current) => \E j \in E : p[j].click = p[i].click

LEMMA EligibleIs ==
  ASSUME NEW p, Named(p), NEW m, Model(m), NEW w, NEW current
  PROVE  Chooses(Calc!Eligible(Calc!Prepared(p, m, w, current)), p, m, w, current)
<1> DEFINE prepared == Calc!Prepared(p, m, w, current)
           E == Calc!Eligible(prepared)
<1>1. PreparedAs(prepared, p, m, w, current)
  BY PreparedIs
<1> HIDE DEF prepared
<1>2. \A i : i \in E <=> i \in DOMAIN p /\ prepared[i] = "eligible"
  BY <1>1 DEF Calc!Eligible, PreparedAs
<1> HIDE DEF E
<1>3. \A i : i \in E <=> /\ i \in DOMAIN p /\ Calc!Admissible(p[i], m, w, current)
                         /\ \A j \in DOMAIN p : Calc!Admissible(p[j], m, w, current) /\ p[j].click = p[i].click =>
                                                  ~Calc!Before(p, j, i)
  BY <1>1, <1>2 DEF PreparedAs
<1>4. Ordered(BeforeIn(p), DOMAIN p)
  BY BeforeOrders
<1>5. ASSUME NEW i \in E, NEW j \in E, p[i].click = p[j].click PROVE i = j
  BY <1>3, <1>4, <1>5, BeforeIs DEF Ordered
<1>6. ASSUME NEW i \in DOMAIN p, Calc!Admissible(p[i], m, w, current)
      PROVE  \E j \in E : p[j].click = p[i].click
  <2> DEFINE S == {j \in DOMAIN p : Calc!Admissible(p[j], m, w, current) /\ p[j].click = p[i].click}
  <2>1. S \in SUBSET DOMAIN p /\ i \in S
    BY <1>6
  <2>2. Calc!IsFiniteSet(S) /\ Ordered(BeforeIn(p), S)
    BY <2>1, FS_Subset, SizesOfCalc, BeforeOrders DEF Named
  <2>3. Calc!Cardinality(S) \in Nat /\ Calc!Cardinality(S) # 0
    BY <2>1, <2>2, FS_CardinalityType, FS_EmptySet, SizesOfCalc
  <2>4. \A j \in S : j \in DOMAIN p /\ Calc!Admissible(p[j], m, w, current) /\ p[j].click = p[i].click
    OBVIOUS
  <2>5. \A j \in DOMAIN p : Calc!Admissible(p[j], m, w, current) /\ p[j].click = p[i].click => j \in S
    OBVIOUS
  <2> HIDE DEF S
  <2>6. PICK j \in S : Calc!Cardinality(EarlierIn(S, BeforeIn(p), j)) = 0
    <3>1. 0 \in 0..(Calc!Cardinality(S) - 1)
      BY <2>3
    <3> QED BY <2>2, <3>1, Ranks
  <2>7. EarlierIn(S, BeforeIn(p), j) \in SUBSET S
    BY DEF EarlierIn
  <2>8. EarlierIn(S, BeforeIn(p), j) = {}
    BY <2>2, <2>6, <2>7, FS_Subset, FS_EmptySet, SizesOfCalc
  <2>9. \A k \in S : ~Calc!Before(p, k, j)
    BY <2>4, <2>8, BeforeIs DEF EarlierIn
  <2>10. j \in E
    BY <1>3, <2>4, <2>5, <2>9
  <2> QED BY <2>4, <2>10
<1>7. E \in SUBSET DOMAIN p /\ \A i \in E : Calc!Admissible(p[i], m, w, current)
  BY <1>3
<1> QED BY <1>5, <1>6, <1>7 DEF Chooses, E, prepared

\* --- The weights of the eligible candidates.
Rank(p, E, i) == Calc!Cardinality(EarlierIn(E, SoonerIn(p), i))
WeighedAs(weights, p, m, E) ==
  /\ DOMAIN weights = DOMAIN p
  /\ \A i \in (DOMAIN p) \ E : weights[i] = 0
  /\ m.strategy = "first_touch" => \A i \in E : weights[i] = IF Rank(p, E, i) = 0 THEN Unit ELSE 0
  /\ m.strategy = "last_touch" =>
       \A i \in E : weights[i] = IF Rank(p, E, i) = Calc!Cardinality(E) - 1 THEN Unit ELSE 0
  /\ m.strategy = "linear" =>
       \A i \in E : weights[i] = (Unit \div Calc!Cardinality(E))
                                 + IF Rank(p, E, i) < Unit % Calc!Cardinality(E) THEN 1 ELSE 0
  /\ m.strategy = "platform_reported" => \A i \in E : weights[i] = p[i].weight

LEMMA WeightsAre ==
  ASSUME NEW p, NEW m, NEW E \in SUBSET DOMAIN p
  PROVE  WeighedAs(Calc!Weights(p, m, E), p, m, E)
<1> DEFINE weights == Calc!Weights(p, m, E)
<1>1. \A i \in E : Calc!Position(p, E, i) = Rank(p, E, i)
  BY PositionIs DEF Rank
<1>2. DOMAIN weights = DOMAIN p /\ \A i \in (DOMAIN p) \ E : weights[i] = 0
  BY DEF Calc!Weights
<1>3. m.strategy = "first_touch" => \A i \in E : weights[i] = IF Calc!Position(p, E, i) = 0 THEN Unit ELSE 0
  BY DEF Calc!Weights
<1>4. m.strategy = "last_touch" =>
        \A i \in E : weights[i] = IF Calc!Position(p, E, i) = Calc!Cardinality(E) - 1 THEN Unit ELSE 0
  BY DEF Calc!Weights
<1>5. m.strategy = "linear" =>
        \A i \in E : weights[i] = (Unit \div Calc!Cardinality(E))
                                  + IF Calc!Position(p, E, i) < Unit % Calc!Cardinality(E) THEN 1 ELSE 0
  BY DEF Calc!Weights
<1>6. m.strategy = "platform_reported" => \A i \in E : weights[i] = p[i].weight
  BY DEF Calc!Weights
<1> HIDE DEF weights
<1> QED BY <1>1, <1>2, <1>3, <1>4, <1>5, <1>6 DEF WeighedAs, weights

\* What every use of the weights rests on: the eligible are ordered by time.
Eligibly(E, p) ==
  /\ Named(p) /\ E \in SUBSET DOMAIN p /\ \A i, j \in E : p[i].click = p[j].click => i = j

LEMMA EligiblyFacts ==
  ASSUME NEW p, NEW E, Eligibly(E, p)
  PROVE  /\ Calc!IsFiniteSet(E) /\ Calc!Cardinality(E) \in 0..Unit /\ Ordered(SoonerIn(p), E)
         /\ Calc!Cardinality(E) = 0 <=> E = {}
         /\ Unit \in Nat /\ Unit # 0
         /\ \A i \in E : Rank(p, E, i) \in 0..(Calc!Cardinality(E) - 1)
<1>1. Calc!IsFiniteSet(E) /\ Calc!Cardinality(E) <= Calc!Cardinality(DOMAIN p) /\ Calc!Cardinality(DOMAIN p) <= Unit
  BY FS_Subset, SizesOfCalc DEF Eligibly, Named
<1>2. Calc!Cardinality(E) \in Nat /\ (Calc!Cardinality(E) = 0 <=> E = {})
  BY <1>1, FS_CardinalityType, FS_EmptySet, SizesOfCalc
<1>3. Calc!Cardinality(DOMAIN p) \in Nat
  BY FS_CardinalityType, SizesOfCalc DEF Eligibly, Named
<1>4. Ordered(SoonerIn(p), E)
  BY SoonerOrders DEF Eligibly
<1>5. Unit \in Nat /\ Unit # 0
  BY CalcBounds DEF Calc!CalculationConstants
<1>6. \A i \in E : Rank(p, E, i) \in 0..(Calc!Cardinality(E) - 1)
  BY <1>1, <1>4, Ranks DEF Rank
<1> QED BY <1>1, <1>2, <1>3, <1>4, <1>5, <1>6

LEMMA LinearParts ==
  ASSUME NEW p, NEW E, Eligibly(E, p), E # {}
  PROVE  /\ Unit \div Calc!Cardinality(E) \in 1..Unit /\ Unit % Calc!Cardinality(E) \in 0..(Calc!Cardinality(E) - 1)
         /\ (Unit \div Calc!Cardinality(E)) * Calc!Cardinality(E) + (Unit % Calc!Cardinality(E)) = Unit
         /\ Unit \div Calc!Cardinality(E) = Unit => Unit % Calc!Cardinality(E) = 0
<1>1. PICK c \in Nat : c = Calc!Cardinality(E) /\ c # 0 /\ c <= Unit
  BY EligiblyFacts
<1>2. Unit \in Nat /\ Unit # 0
  BY EligiblyFacts
<1>3. PICK q \in Nat, r \in 0..(c - 1) : q = Unit \div c /\ r = Unit % c /\ Unit = c * q + r
  <2>1. Unit \div c \in Nat /\ Unit % c \in 0..(c - 1) /\ Unit = c * (Unit \div c) + (Unit % c)
    BY <1>1, <1>2, Divided
  <2> QED BY <2>1
<1>4. q # 0
  <2> SUFFICES ASSUME q = 0 PROVE FALSE
    OBVIOUS
  <2>1. c * q = 0
    BY <1>1
  <2> QED BY <1>1, <1>2, <1>3, <2>1
<1>5. c * q >= q /\ c * q = q * c
  <2>1. (c - 1) * q >= 0 /\ c * q = (c - 1) * q + q
    BY <1>1
  <2> QED BY <2>1, <1>1
<1>6. q <= Unit /\ (q = Unit => r = 0) /\ q * c + r = Unit
  <2>1. PICK t \in Nat : t = c * q
    BY <1>1
  <2>2. Unit = t + r
    BY <1>3, <2>1
  <2>3. t >= q /\ q * c = t
    BY <1>5, <2>1
  <2>4. r \in Nat
    BY <1>1
  <2> QED BY <1>2, <2>2, <2>3, <2>4
<1>7. q \in 1..Unit
  BY <1>2, <1>4, <1>6
<1> QED BY <1>1, <1>3, <1>6, <1>7

LEMMA WeightsBounded ==
  ASSUME NEW p, NEW m, Model(m), NEW E, Eligibly(E, p), NEW weights, WeighedAs(weights, p, m, E)
  PROVE  /\ \A i \in DOMAIN p : weights[i] \in 0..Unit
         /\ m.strategy = "linear" => \A i \in E : weights[i] > 0
<1>1. Unit \in Nat /\ Unit # 0 /\ 0 \in 0..Unit /\ Unit \in 0..Unit
  BY EligiblyFacts
<1>2. ASSUME NEW i \in (DOMAIN p) \ E PROVE weights[i] \in 0..Unit
  BY <1>1 DEF WeighedAs
<1>3. ASSUME NEW i \in E, m.strategy \in {"first_touch", "last_touch"} PROVE weights[i] \in 0..Unit
  BY <1>1, <1>3 DEF WeighedAs
<1>4. ASSUME NEW i \in E, m.strategy = "platform_reported" PROVE weights[i] \in 0..Unit
  <2>1. p[i] \in Candidates
    BY DEF Eligibly, Named
  <2>2. p[i].weight \in 0..Unit
    BY <2>1, CandidateFacts
  <2> QED BY <1>4, <2>2 DEF WeighedAs
<1>5. ASSUME NEW i \in E, m.strategy = "linear" PROVE weights[i] \in 0..Unit /\ weights[i] > 0
  <2>0. PICK c \in Nat : c = Calc!Cardinality(E)
    BY EligiblyFacts
  <2>1. PICK q \in 1..Unit, r \in 0..(c - 1) : q = Unit \div c /\ r = Unit % c /\ (q = Unit => r = 0)
    BY <2>0, LinearParts
  <2>2. weights[i] = q + IF Rank(p, E, i) < r THEN 1 ELSE 0
    BY <1>5, <2>0, <2>1 DEF WeighedAs
  <2>3. Rank(p, E, i) \in Nat
    BY <2>0, EligiblyFacts
  <2>4. CASE Rank(p, E, i) < r
    <3>1. r # 0 /\ q # Unit
      BY <2>0, <2>1, <2>3, <2>4
    <3>2. weights[i] = q + 1
      BY <2>2, <2>4
    <3> QED BY <1>1, <3>1, <3>2
  <2>5. CASE ~(Rank(p, E, i) < r)
    <3>1. weights[i] = q + 0
      BY <2>2, <2>5
    <3> QED BY <1>1, <3>1
  <2> QED BY <2>4, <2>5
<1>6. m.strategy \in Calc!Strategies
  BY ModelFacts
<1>7. \A i \in E : weights[i] \in 0..Unit
  BY <1>3, <1>4, <1>5, <1>6 DEF Calc!Strategies
<1>8. \A i \in DOMAIN p : weights[i] \in 0..Unit
  BY <1>2, <1>7
<1> QED BY <1>5, <1>8

LEMMA SumOne == ASSUME NEW v, NEW x, v[x] \in Int PROVE SumOver(v, {x}) = v[x]
<1>1. Numbers(v, {}) /\ x \notin {} /\ {} \cup {x} = {x}
  BY FS_EmptySet, SizesOfCalc DEF Numbers
<1>2. SumOver(v, {} \cup {x}) = SumOver(v, {}) + v[x]
  BY <1>1, SumAdd
<1> QED BY <1>1, <1>2, SumNone

LEMMA TotalIs == ASSUME NEW v PROVE Calc!TotalOf(v) = SumOver(v, DOMAIN v)
BY DEF Calc!TotalOf, SumOver

LEMMA SumOfWeights ==
  ASSUME NEW p, NEW m, Model(m), NEW E, Eligibly(E, p), NEW weights, WeighedAs(weights, p, m, E)
  PROVE  /\ Numbers(weights, DOMAIN p) /\ SumOver(weights, DOMAIN p) = SumOver(weights, E)
         /\ E = {} => Calc!TotalOf(weights) = 0
         /\ E # {} /\ m.strategy # "platform_reported" => Calc!TotalOf(weights) = Unit
<1>1. /\ Unit \in Nat /\ E \in SUBSET DOMAIN p /\ Calc!IsFiniteSet(DOMAIN p) /\ Calc!IsFiniteSet(E)
      /\ Ordered(SoonerIn(p), E)
  BY EligiblyFacts DEF Eligibly, Named
<1>2. \A i \in DOMAIN p : weights[i] \in Int
  <2>1. \A n \in 0..Unit : n \in Int
    BY <1>1
  <2> QED BY <2>1, WeightsBounded
<1>3. Numbers(weights, DOMAIN p) /\ Numbers(weights, E)
  BY <1>1, <1>2 DEF Numbers
<1>4. SumOver(weights, DOMAIN p) = SumOver(weights, E)
  BY <1>1, <1>3, SumRest DEF WeighedAs
<1>5. Calc!TotalOf(weights) = SumOver(weights, E)
  BY <1>4, TotalIs DEF WeighedAs
<1>6. E = {} => Calc!TotalOf(weights) = 0
  BY <1>5, SumNone
<1>7. ASSUME E # {}, NEW k \in E, \A i \in E : weights[i] = IF i = k THEN Unit ELSE 0
      PROVE  Calc!TotalOf(weights) = Unit
  <2>1. {k} \in SUBSET E /\ \A i \in E \ {k} : weights[i] = 0
    BY <1>7
  <2>2. SumOver(weights, E) = SumOver(weights, {k})
    BY <1>3, <2>1, SumRest
  <2>3. weights[k] = Unit /\ weights[k] \in Int
    BY <1>1, <1>7
  <2> QED BY <1>5, <2>2, <2>3, SumOne
<1>8. ASSUME E # {}, NEW n \in 0..(Calc!Cardinality(E) - 1),
             \A i \in E : weights[i] = IF Rank(p, E, i) = n THEN Unit ELSE 0
      PROVE  Calc!TotalOf(weights) = Unit
  <2>1. PICK k \in E : Rank(p, E, k) = n
    BY <1>1, <1>8, Ranks DEF Rank
  <2>2. \A i \in E : Rank(p, E, i) = n => i = k
    BY <1>1, <2>1, Ranks DEF Rank
  <2>3. \A i \in E : weights[i] = IF i = k THEN Unit ELSE 0
    BY <1>8, <2>1, <2>2
  <2> QED BY <1>7, <1>8, <2>3
<1>9. E # {} => Calc!Cardinality(E) \in Nat /\ 0 \in 0..(Calc!Cardinality(E) - 1)
                /\ Calc!Cardinality(E) - 1 \in 0..(Calc!Cardinality(E) - 1)
  BY EligiblyFacts
<1>10. CASE E # {} /\ m.strategy = "first_touch"
  BY <1>4, <1>3, <1>6, <1>8, <1>9, <1>10 DEF WeighedAs
<1>11. CASE E # {} /\ m.strategy = "last_touch"
  BY <1>4, <1>3, <1>6, <1>8, <1>9, <1>11 DEF WeighedAs
<1>12. CASE E # {} /\ m.strategy = "linear"
  <2>0. PICK c \in Nat : c = Calc!Cardinality(E)
    BY EligiblyFacts
  <2>1. PICK q \in 1..Unit, r \in 0..(c - 1) : q = Unit \div c /\ r = Unit % c /\ q * c + r = Unit
    BY <1>12, <2>0, LinearParts
  <2>2. \A i \in E : weights[i] = q + IF Calc!Cardinality(EarlierIn(E, SoonerIn(p), i)) < r THEN 1 ELSE 0
    BY <1>12, <2>0, <2>1 DEF WeighedAs, Rank
  <2>3. q \in Int /\ r \in 0..Calc!Cardinality(E)
    BY <1>1, <2>0, <2>1
  <2>4. SumOver(weights, E) = q * Calc!Cardinality(E) + r
    BY <1>1, <2>2, <2>3, Spread
  <2>5. Calc!TotalOf(weights) = Unit
    BY <1>5, <2>0, <2>1, <2>4
  <2> QED BY <1>3, <1>4, <1>6, <2>5
<1>13. m.strategy \in Calc!Strategies
  BY ModelFacts
<1>14. CASE E = {} \/ m.strategy = "platform_reported"
  BY <1>3, <1>4, <1>6, <1>14
<1> QED BY <1>10, <1>11, <1>12, <1>13, <1>14 DEF Calc!Strategies

------------------------------------------------------------------------------
\* AttributionCalculation: the amounts, to the last micro.
\* --- The amounts.
LEMMA SignIs ==
  ASSUME NEW amount \in Int PROVE Calc!Sign(amount) \in {-1, 1} /\ Calc!Sign(amount) \in Int
BY DEF Calc!Sign

LEMMA ShareFacts ==
  ASSUME NEW amount \in Int, NEW w \in 0..Unit
  PROVE  /\ Calc!Share(amount, w) \in Int /\ Calc!Sign(amount) \in {-1, 1}
         /\ Calc!Sign(amount) * Calc!Share(amount, w) \in Nat
         /\ Calc!Sign(amount) * (amount * w - Calc!Share(amount, w) * Unit) \in 0..(Unit - 1)
<1>1. Unit \in Nat /\ Unit # 0 /\ w \in Nat
  <2>1. Unit \in Nat /\ Unit # 0
    BY CalcBounds DEF Calc!CalculationConstants
  <2> QED BY <2>1
<1>2. PICK M \in Nat : M = Calc!Magnitude(amount)
  BY DEF Calc!Magnitude
<1>3. PICK a \in Nat : a = M * w
  BY <1>1
<1>4. a \div Unit \in Nat /\ a % Unit \in 0..(Unit - 1) /\ a = Unit * (a \div Unit) + (a % Unit)
  BY <1>1, Divided
<1>5. PICK q \in Nat, r \in 0..(Unit - 1) : q = a \div Unit /\ a = Unit * q + r
  BY <1>4
<1>6. Calc!Share(amount, w) = Calc!Sign(amount) * q
  BY <1>2, <1>3, <1>5 DEF Calc!Share
<1>7. r \in Int
  BY <1>1
<1>8. PICK t \in Int : t = Unit * q
  BY <1>1
<1>9. CASE amount < 0
  <2>1. Calc!Sign(amount) = -1 /\ M = -amount
    BY <1>2, <1>9 DEF Calc!Sign, Calc!Magnitude
  <2>2. Calc!Share(amount, w) = -q /\ Calc!Sign(amount) * Calc!Share(amount, w) = q
    BY <1>6, <2>1
  <2>3. amount * w = -a
    <3>1. (-amount) * w = -(amount * w)
      BY <1>1
    <3>2. amount * w \in Int
      BY <1>1
    <3> QED BY <1>3, <2>1, <3>1, <3>2
  <2>4. Calc!Share(amount, w) * Unit = -t
    <3>1. (-q) * Unit = -(Unit * q)
      BY <1>1
    <3> QED BY <1>8, <2>2, <3>1
  <2>5. Calc!Sign(amount) * (amount * w - Calc!Share(amount, w) * Unit) = r
    <3>1. (-1) * ((-a) - (-t)) = r
      BY <1>5, <1>7, <1>8
    <3> QED BY <2>1, <2>3, <2>4, <3>1
  <2> QED BY <2>1, <2>2, <2>5
<1>10. CASE ~(amount < 0)
  <2>1. Calc!Sign(amount) = 1 /\ M = amount
    BY <1>2, <1>10 DEF Calc!Sign, Calc!Magnitude
  <2>2. Calc!Share(amount, w) = q /\ Calc!Sign(amount) * Calc!Share(amount, w) = q
    BY <1>6, <2>1
  <2>3. amount * w = a
    BY <1>3, <2>1
  <2>4. Calc!Share(amount, w) * Unit = t
    <3>1. q * Unit = Unit * q
      BY <1>1
    <3> QED BY <1>8, <2>2, <3>1
  <2>5. Calc!Sign(amount) * (amount * w - Calc!Share(amount, w) * Unit) = r
    <3>1. 1 * (a - t) = r
      BY <1>5, <1>7, <1>8
    <3> QED BY <2>1, <2>3, <2>4, <3>1
  <2> QED BY <2>1, <2>2, <2>5
<1> QED BY <1>9, <1>10

\* What is left is less than a micro for each that is credited, and of the sign of
\* the amount.
Shares(amount, weights) == [i \in Calc!CreditedBy(weights) |-> Calc!Share(amount, weights[i])]
Left(amount, weights) == amount - Calc!TotalOf(Shares(amount, weights))
Weighing(weights, p) ==
  /\ Named(p) /\ DOMAIN weights = DOMAIN p /\ \A i \in DOMAIN p : weights[i] \in 0..Unit

LEMMA CreditedFacts ==
  ASSUME NEW p, NEW weights, Weighing(weights, p)
  PROVE  /\ Calc!CreditedBy(weights) \in SUBSET DOMAIN p /\ Calc!IsFiniteSet(Calc!CreditedBy(weights))
         /\ Calc!Cardinality(Calc!CreditedBy(weights)) \in Nat /\ Unit \in Nat /\ Unit # 0
         /\ \A i \in DOMAIN p : weights[i] \in Nat
         /\ \A i \in (DOMAIN p) \ Calc!CreditedBy(weights) : weights[i] = 0
         /\ Numbers(weights, DOMAIN p) /\ Numbers(weights, Calc!CreditedBy(weights))
         /\ Calc!TotalOf(weights) = SumOver(weights, Calc!CreditedBy(weights))
         /\ Calc!CreditedBy(weights) = {} => Calc!TotalOf(weights) = 0
<1> DEFINE C == Calc!CreditedBy(weights)
<1>1. C \in SUBSET DOMAIN p /\ Unit \in Nat /\ Unit # 0 /\ DOMAIN weights = DOMAIN p
  BY CalcBounds DEF Calc!CalculationConstants, Calc!CreditedBy, Weighing
<1>2. Calc!IsFiniteSet(DOMAIN p) /\ Calc!IsFiniteSet(C) /\ Calc!Cardinality(C) \in Nat
  BY <1>1, FS_Subset, FS_CardinalityType, SizesOfCalc DEF Weighing, Named
<1>3. \A i \in DOMAIN p : weights[i] \in Nat
  <2>1. \A n \in 0..Unit : n \in Nat
    BY <1>1
  <2> QED BY <2>1 DEF Weighing
<1>4. \A i \in (DOMAIN p) \ C : weights[i] = 0
  BY <1>1, <1>3 DEF Calc!CreditedBy
<1> HIDE DEF C
<1>5. Numbers(weights, DOMAIN p) /\ Numbers(weights, C)
  BY <1>1, <1>2, <1>3 DEF Numbers
<1>6. SumOver(weights, DOMAIN p) = SumOver(weights, C)
  BY <1>1, <1>4, <1>5, SumRest
<1>7. Calc!TotalOf(weights) = SumOver(weights, C)
  BY <1>1, <1>6, TotalIs
<1>8. C = {} => Calc!TotalOf(weights) = 0
  BY <1>7, SumNone
<1> QED BY <1>1, <1>2, <1>3, <1>4, <1>5, <1>7, <1>8 DEF C

LEMMA LeftBounded ==
  ASSUME NEW amount \in Int, NEW p, NEW weights, Weighing(weights, p),
         Calc!CreditedBy(weights) # {}, Calc!TotalOf(weights) = Unit
  PROVE  /\ Left(amount, weights) \in Int
         /\ Calc!Sign(amount) * Left(amount, weights) \in 0..(Calc!Cardinality(Calc!CreditedBy(weights)) - 1)
         /\ Numbers(Shares(amount, weights), Calc!CreditedBy(weights))
         /\ Calc!TotalOf(Shares(amount, weights)) = SumOver(Shares(amount, weights), Calc!CreditedBy(weights))
<1> DEFINE C == Calc!CreditedBy(weights)
           shares == Shares(amount, weights)
           s == Calc!Sign(amount)
           fair == [i \in C |-> amount * weights[i]]
           given == [i \in C |-> (-Unit) * shares[i]]
           lack == [i \in C |-> fair[i] + given[i]]
           err == [i \in C |-> s * lack[i]]
<1>1. /\ C \in SUBSET DOMAIN p /\ Calc!IsFiniteSet(C) /\ Calc!Cardinality(C) \in Nat /\ Unit \in Nat /\ Unit # 0
      /\ SumOver(weights, C) = Unit /\ Numbers(weights, C) /\ C # {}
  BY CreditedFacts
<1>2. \A i \in C : weights[i] \in Nat /\ weights[i] \in 0..Unit /\ shares[i] = Calc!Share(amount, weights[i])
  BY CreditedFacts DEF Weighing, Shares
<1>3. DOMAIN shares = C
  BY DEF Shares
<1> HIDE DEF C, shares
<1>4. \A i \in C : shares[i] \in Int
  BY <1>2, ShareFacts
<1>5. s \in {-1, 1} /\ s \in Int
  BY SignIs
<1>6. /\ \A i \in C : fair[i] = amount * weights[i] /\ fair[i] \in Int
      /\ \A i \in C : given[i] = (-Unit) * shares[i] /\ given[i] \in Int
  BY <1>1, <1>2, <1>4
<1>7. \A i \in C : lack[i] = fair[i] + given[i] /\ err[i] = s * lack[i]
  OBVIOUS
<1>8. \A i \in C : err[i] = s * (amount * weights[i] - shares[i] * Unit)
  <2> TAKE i \in C
  <2>1. PICK x \in Int, y \in Int : x = amount * weights[i] /\ y = shares[i] * Unit
    BY <1>1, <1>2, <1>4
  <2>2. (-Unit) * shares[i] = -y
    <3>1. (-Unit) * shares[i] = -(shares[i] * Unit)
      BY <1>1, <1>4
    <3> QED BY <2>1, <3>1
  <2>3. x + (-y) = x - y
    OBVIOUS
  <2>4. lack[i] = x - y
    BY <1>6, <1>7, <2>1, <2>2, <2>3
  <2> QED BY <1>7, <2>1, <2>4
<1>9. \A i \in C : err[i] \in 0..(Unit - 1)
  BY <1>2, <1>8, ShareFacts
<1> HIDE DEF fair, given, lack, err, s
<1>10. /\ Numbers(shares, C) /\ Numbers(fair, C) /\ Numbers(given, C) /\ Numbers(lack, C)
       /\ Numbers(err, C)
  <2>1. \A i \in C : lack[i] \in Int /\ err[i] \in Int
    BY <1>1, <1>6, <1>7, <1>9
  <2> QED BY <1>1, <1>4, <1>6, <2>1 DEF Numbers
<1>11. SumOver(fair, C) = amount * Unit
  <2>1. \A i \in C : fair[i] = amount * weights[i]
    BY <1>6
  <2>2. SumOver(fair, C) = amount * SumOver(weights, C)
    BY <1>1, <1>10, <2>1, SumTimes
  <2> QED BY <1>1, <2>2
<1>12. SumOver(given, C) = (-Unit) * SumOver(shares, C)
  <2>1. -Unit \in Int
    BY <1>1
  <2>2. \A i \in C : given[i] = (-Unit) * shares[i]
    BY <1>6
  <2>3. PICK c \in Int : c = -Unit
    BY <2>1
  <2>4. \A i \in C : given[i] = c * shares[i]
    BY <2>2, <2>3
  <2>5. SumOver(given, C) = c * SumOver(shares, C)
    BY <1>10, <2>4, SumTimes
  <2> QED BY <2>3, <2>5
<1>13. SumOver(lack, C) = SumOver(fair, C) + SumOver(given, C)
  BY <1>7, <1>10, SumPlus
<1>14. SumOver(err, C) = s * SumOver(lack, C)
  <2>1. \A i \in C : err[i] = s * lack[i]
    BY <1>7
  <2>2. PICK c \in Int : c = s
    BY <1>5
  <2>3. \A i \in C : err[i] = c * lack[i]
    BY <2>1, <2>2
  <2>4. SumOver(err, C) = c * SumOver(lack, C)
    BY <1>10, <2>3, SumTimes
  <2> QED BY <2>2, <2>4
<1>15. 0 * Calc!Cardinality(C) <= SumOver(err, C) /\ SumOver(err, C) <= (Unit - 1) * Calc!Cardinality(C)
  <2>1. 0 \in Int /\ Unit - 1 \in Int /\ \A i \in C : 0 <= err[i] /\ err[i] <= Unit - 1
    BY <1>1, <1>9
  <2> QED BY <1>10, <2>1, SumBound
<1>16. PICK S \in Int : S = SumOver(shares, C)
  BY <1>10, SumInt
<1>17. Calc!TotalOf(shares) = S
  BY <1>3, <1>16, TotalIs
<1>18. PICK rest \in Int : rest = amount - S
  OBVIOUS
<1>19. SumOver(err, C) = s * (rest * Unit)
  <2>1. amount * Unit + (-Unit) * S = (amount - S) * Unit
    BY <1>1
  <2> QED BY <1>11, <1>12, <1>13, <1>14, <1>16, <1>18, <2>1
<1>20. PICK n \in Nat, u \in Nat : n = Calc!Cardinality(C) /\ u = Unit /\ n # 0 /\ u # 0
  BY <1>1, FS_EmptySet, SizesOfCalc
<1>21. PICK d \in Int : d = s * rest
  BY <1>5
<1>22. s * (rest * Unit) = d * u
  <2>1. CASE s = 1
    BY <1>20, <1>21, <2>1
  <2>2. CASE s = -1
    <3>1. d = -rest /\ s * (rest * Unit) = -(rest * u)
      BY <1>20, <1>21, <2>2
    <3>2. (-rest) * u = -(rest * u)
      BY <1>20
    <3> QED BY <3>1, <3>2
  <2> QED BY <1>5, <2>1, <2>2
<1>23. 0 <= d * u /\ d * u <= (u - 1) * n
  <2>1. 0 * n = 0
    BY <1>20
  <2> QED BY <1>15, <1>19, <1>20, <1>22, <2>1
<1>24. d \in 0..(n - 1)
  <2>1. d >= 0
    <3> SUFFICES ASSUME d < 0 PROVE FALSE
      OBVIOUS
    <3>1. (-d) * u > 0
      BY <1>20
    <3>2. (-d) * u = -(d * u) /\ d * u \in Int
      BY <1>20
    <3> QED BY <1>23, <3>1, <3>2
  <2>2. d < n
    <3> SUFFICES ASSUME ~(d < n) PROVE FALSE
      OBVIOUS
    <3>1. (d - n) * u >= 0
      BY <1>20
    <3>2. (d - n) * u = d * u - n * u /\ (u - 1) * n = n * u - n /\ d * u \in Int /\ n * u \in Int
      BY <1>20
    <3> QED BY <1>20, <1>23, <3>1, <3>2
  <2> QED BY <2>1, <2>2
<1>25. Left(amount, weights) = rest
  BY <1>17, <1>18 DEF Left, shares
<1> QED BY <1>10, <1>16, <1>17, <1>20, <1>21, <1>24, <1>25 DEF C, shares, s

\* The places of the credited, in the order in which they were named.
Place(p, weights, i) == Calc!Cardinality(EarlierIn(Calc!CreditedBy(weights), BeforeIn(p), i))

\* What is left is dealt out in that order, one micro to each at most.
LEMMA AmountsAre ==
  ASSUME NEW amount \in Int, NEW p, NEW weights, Weighing(weights, p), Calc!TotalOf(weights) = Unit,
         Calc!CreditedBy(weights) # {}
  PROVE  /\ DOMAIN Calc!Allocations(p, amount, weights) = DOMAIN p
         /\ \A i \in (DOMAIN p) \ Calc!CreditedBy(weights) : Calc!Allocations(p, amount, weights)[i] = 0
         /\ \A i \in Calc!CreditedBy(weights) :
              Calc!Allocations(p, amount, weights)[i] =
                Calc!Share(amount, weights[i]) + Calc!Sign(amount) *
                  (IF Place(p, weights, i) < Calc!Sign(amount) * Left(amount, weights) THEN 1 ELSE 0)
<1> DEFINE C == Calc!CreditedBy(weights)
           amounts == Calc!Allocations(p, amount, weights)
           rest == Left(amount, weights)
           n == Calc!Cardinality(C)
           turn(i) == (Calc!Magnitude(rest) - Calc!Cardinality({j \in C : Calc!Before(p, j, i)}) + n - 1) \div n
<1>1. amounts = [i \in DOMAIN p |->
                   IF i \in C THEN Shares(amount, weights)[i] + Calc!Sign(rest) * turn(i) ELSE 0]
  BY DEF Calc!Allocations, Left, Shares
<1>2. \A i \in C : Shares(amount, weights)[i] = Calc!Share(amount, weights[i])
  BY DEF Shares
<1>3. C \in SUBSET DOMAIN p /\ Calc!IsFiniteSet(C) /\ n \in Nat /\ C # {}
  BY CreditedFacts
<1>4. rest \in Int /\ Calc!Sign(amount) * rest \in 0..(n - 1) /\ Calc!Sign(amount) \in {-1, 1}
  <2>1. Unit \in Nat /\ 0 \in 0..Unit
    BY CreditedFacts
  <2> QED BY <2>1, LeftBounded, ShareFacts
<1>5. n # 0
  BY <1>3, FS_EmptySet, SizesOfCalc
<1>6. \A i \in C : {j \in C : Calc!Before(p, j, i)} = EarlierIn(C, BeforeIn(p), i)
  BY <1>3, BeforeIs DEF EarlierIn
<1>7. \A i \in C : Place(p, weights, i) \in 0..(n - 1)
  <2>1. Ordered(BeforeIn(p), C)
    BY <1>3, BeforeOrders DEF Weighing
  <2> QED BY <1>3, <2>1, Ranks DEF Place
<1>8. \A i \in C : Calc!Cardinality({j \in C : Calc!Before(p, j, i)}) = Place(p, weights, i)
  BY <1>6 DEF Place
<1> HIDE DEF C, amounts, rest, n
<1>9. PICK d \in 0..(n - 1) : d = Calc!Sign(amount) * rest
  BY <1>4
<1>10. d \in Nat /\ d = Calc!Magnitude(rest) /\ (d # 0 => Calc!Sign(rest) = Calc!Sign(amount))
  <2>1. d \in Nat
    BY <1>3
  <2> QED BY <1>4, <1>9, <2>1 DEF Calc!Magnitude, Calc!Sign
<1>11. d \div n = 0 /\ d % n = d
  <2>1. d = n * 0 + d
    BY <1>3, <1>10
  <2> QED BY <1>3, <1>5, <1>9, <1>10, <2>1, DividedOnce
<1>12. ASSUME NEW i \in C
       PROVE  amounts[i] = Calc!Share(amount, weights[i])
                           + Calc!Sign(amount) * (IF Place(p, weights, i) < d THEN 1 ELSE 0)
  <2>1. PICK k \in 0..(n - 1) : k = Place(p, weights, i)
    BY <1>7
  <2>2. (d - k + n - 1) \div n = (d \div n) + IF k < d % n THEN 1 ELSE 0
    BY <1>3, <1>5, <1>10, Turns
  <2>3. turn(i) = IF k < d THEN 1 ELSE 0
    BY <1>8, <1>10, <1>11, <2>1, <2>2
  <2>4. Calc!Sign(rest) * turn(i) = Calc!Sign(amount) * turn(i)
    <3>1. CASE d = 0
      <4>1. turn(i) = 0
        BY <1>3, <2>3, <3>1
      <4> HIDE DEF turn
      <4> QED BY <1>4, <4>1 DEF Calc!Sign
    <3>2. CASE d # 0
      <4> HIDE DEF turn
      <4> QED BY <1>10, <3>2
    <3> QED BY <3>1, <3>2
  <2>5. amounts[i] = Shares(amount, weights)[i] + Calc!Sign(rest) * turn(i)
    BY <1>1, <1>3
  <2> HIDE DEF turn
  <2> QED BY <1>2, <2>1, <2>3, <2>4, <2>5
<1>13. DOMAIN amounts = DOMAIN p /\ \A i \in (DOMAIN p) \ C : amounts[i] = 0
  BY <1>1
<1> QED BY <1>9, <1>12, <1>13 DEF C, amounts, rest

LEMMA AmountsNone ==
  ASSUME NEW amount \in Int, NEW p, NEW weights, Calc!CreditedBy(weights) = {}
  PROVE  /\ DOMAIN Calc!Allocations(p, amount, weights) = DOMAIN p
         /\ \A i \in DOMAIN p : Calc!Allocations(p, amount, weights)[i] = 0
BY DEF Calc!Allocations

\* The amounts add up to the amount, each within one micro of its share and never
\* of the other sign.
LEMMA AmountsExact ==
  ASSUME NEW amount \in Int, NEW p, NEW weights, Weighing(weights, p), Calc!TotalOf(weights) \in {0, Unit}
  PROVE  /\ \A i \in DOMAIN p : Calc!Allocations(p, amount, weights)[i] \in Int
         /\ Calc!TotalOf(Calc!Allocations(p, amount, weights)) = IF Calc!CreditedBy(weights) = {} THEN 0 ELSE amount
         /\ \A i \in Calc!CreditedBy(weights) :
              /\ Calc!Magnitude(Calc!Allocations(p, amount, weights)[i] * Unit - amount * weights[i]) <= Unit
              /\ Calc!Allocations(p, amount, weights)[i] * Calc!Sign(amount) >= 0
<1> DEFINE C == Calc!CreditedBy(weights)
           amounts == Calc!Allocations(p, amount, weights)
           shares == Shares(amount, weights)
           s == Calc!Sign(amount)
           d == s * Left(amount, weights)
           more == [i \in C |-> IF Place(p, weights, i) < d THEN 1 ELSE 0]
           extra == [i \in C |-> s * more[i]]
<1>1. /\ C \in SUBSET DOMAIN p /\ Calc!IsFiniteSet(C) /\ Calc!Cardinality(C) \in Nat /\ Unit \in Nat /\ Unit # 0
      /\ Numbers(weights, C) /\ Numbers(weights, DOMAIN p) /\ Calc!TotalOf(weights) = SumOver(weights, C)
      /\ \A i \in DOMAIN p : weights[i] \in Nat
  BY CreditedFacts
<1>2. CASE C = {}
  <2>1. DOMAIN amounts = DOMAIN p /\ \A i \in DOMAIN p : amounts[i] = 0
    BY <1>2, AmountsNone
  <2> HIDE DEF amounts
  <2>2. Numbers(amounts, DOMAIN p)
    BY <2>1 DEF Numbers, Weighing, Named
  <2>3. SumOver(amounts, DOMAIN p) = SumOver(amounts, {})
    BY <2>1, <2>2, SumRest
  <2>4. Calc!TotalOf(amounts) = 0
    BY <2>1, <2>3, TotalIs, SumNone
  <2> QED BY <1>2, <2>1, <2>4 DEF amounts
<1>3. CASE C # {}
  <2>1. Calc!TotalOf(weights) = Unit
    <3>1. SumOver(weights, C) # 0
      <4>1. \A i \in C : 1 <= weights[i]
        BY <1>1 DEF Calc!CreditedBy
      <4>2. \A i \in C : weights[i] <= Unit
        BY <1>1 DEF Weighing
      <4>3. 1 * Calc!Cardinality(C) <= SumOver(weights, C)
        BY <1>1, <4>1, <4>2, SumBound
      <4>4. Calc!Cardinality(C) # 0
        BY <1>1, <1>3, FS_EmptySet, SizesOfCalc
      <4> QED BY <1>1, <4>3, <4>4
    <3> QED BY <1>1, <3>1
  <2>2. /\ DOMAIN amounts = DOMAIN p /\ \A i \in (DOMAIN p) \ C : amounts[i] = 0
        /\ \A i \in C : amounts[i] = Calc!Share(amount, weights[i])
                                      + s * (IF Place(p, weights, i) < d THEN 1 ELSE 0)
    BY <1>3, <2>1, AmountsAre
  <2>3. /\ Left(amount, weights) \in Int /\ d \in 0..(Calc!Cardinality(C) - 1)
        /\ Numbers(shares, C) /\ Calc!TotalOf(shares) = SumOver(shares, C)
    BY <1>3, <2>1, LeftBounded
  <2>4. \A i \in C : shares[i] = Calc!Share(amount, weights[i])
    BY DEF Shares
  <2>5. s \in {-1, 1} /\ s \in Int
    BY SignIs
  <2>6. Left(amount, weights) = amount - SumOver(shares, C)
    BY <2>3 DEF Left
  <2>7. d = s * Left(amount, weights)
    OBVIOUS
  <2>8. \A i \in C : more[i] = (IF Place(p, weights, i) < d THEN 1 ELSE 0) /\ more[i] \in {0, 1}
    OBVIOUS
  <2>9. \A i \in C : extra[i] = s * more[i]
    OBVIOUS
  <2> HIDE DEF amounts, shares, C, d, more, extra, s
  <2>10. \A i \in C : more[i] \in Int /\ extra[i] \in Int /\ amounts[i] = shares[i] + extra[i]
    BY <2>2, <2>4, <2>5, <2>8, <2>9
  <2>11. \A i \in C : shares[i] \in Int
    BY <2>3 DEF Numbers
  <2>12. \A i \in DOMAIN p : amounts[i] \in Int
    BY <1>1, <2>2, <2>10, <2>11
  <2>13. Numbers(more, C) /\ Numbers(extra, C) /\ Numbers(amounts, C) /\ Numbers(amounts, DOMAIN p)
    BY <1>1, <2>10, <2>12 DEF Numbers, Weighing, Named
  <2>14. SumOver(amounts, C) = SumOver(shares, C) + SumOver(extra, C)
    BY <2>3, <2>10, <2>13, SumPlus
  <2>15. SumOver(extra, C) = s * SumOver(more, C)
    <3>1. PICK c \in Int : c = s
      BY <2>5
    <3>2. \A i \in C : extra[i] = c * more[i]
      BY <2>9, <3>1
    <3>3. SumOver(extra, C) = c * SumOver(more, C)
      BY <2>13, <3>2, SumTimes
    <3> QED BY <3>1, <3>3
  <2>16. SumOver(more, C) = 0 * Calc!Cardinality(C) + d
    <3>1. Ordered(BeforeIn(p), C)
      BY <1>1, BeforeOrders DEF Weighing
    <3>2. PICK q \in Int, k \in 0..Calc!Cardinality(C) : q = 0 /\ k = d
      BY <1>1, <2>3
    <3>2a. PICK R : R = BeforeIn(p)
      OBVIOUS
    <3>3. \A i \in C : Place(p, weights, i) = Calc!Cardinality(EarlierIn(C, R, i))
      BY <3>2a DEF Place, C
    <3>4. \A i \in C : more[i] = q + IF Calc!Cardinality(EarlierIn(C, R, i)) < k THEN 1 ELSE 0
      BY <1>1, <2>8, <3>2, <3>3
    <3>5. SumOver(more, C) = q * Calc!Cardinality(C) + k
      BY <1>1, <3>1, <3>2, <3>2a, <3>4, Spread
    <3> QED BY <3>2, <3>5
  <2>17. d \in Int /\ 0 * Calc!Cardinality(C) + d = d
    BY <1>1, <2>3
  <2>18. s * d = Left(amount, weights)
    BY <2>3, <2>5, <2>7
  <2>19. SumOver(shares, C) \in Int
    BY <2>3, SumInt
  <2>20. SumOver(amounts, C) = amount
    BY <2>3, <2>6, <2>14, <2>15, <2>16, <2>17, <2>18, <2>19
  <2>21. SumOver(amounts, DOMAIN p) = SumOver(amounts, C)
    BY <1>1, <2>2, <2>13, SumRest
  <2>22. Calc!TotalOf(amounts) = amount
    BY <2>2, <2>20, <2>21, TotalIs
  <2>23. ASSUME NEW i \in C
         PROVE  /\ Calc!Magnitude(amounts[i] * Unit - amount * weights[i]) <= Unit
                /\ amounts[i] * s >= 0
    <3>1. weights[i] \in 0..Unit /\ weights[i] \in Nat
      BY <1>1 DEF Weighing
    <3>2. PICK x \in Int, b \in {0, 1} : x = shares[i] /\ b = more[i]
      BY <2>8, <2>11
    <3>3. s * x \in Nat /\ s * (amount * weights[i] - x * Unit) \in 0..(Unit - 1)
      BY <2>4, <3>1, <3>2, ShareFacts DEF s
    <3>4. PICK f \in Int, g \in Int : f = amount * weights[i] /\ g = x * Unit
      BY <1>1, <3>1
    <3>5. PICK r \in 0..(Unit - 1) : r = s * (f - g)
      BY <3>3, <3>4
    <3>6. amounts[i] = x + s * b
      BY <2>9, <2>10, <3>2
    <3>7. (x + s * b) * Unit = g + s * (b * Unit)
      <4>1. (x + s * b) * Unit = x * Unit + (s * b) * Unit
        BY <1>1, <2>5
      <4>2. (s * b) * Unit = s * (b * Unit)
        BY <1>1, <2>5
      <4> QED BY <3>4, <4>1, <4>2
    <3>8. b * Unit \in {0, Unit}
      BY <1>1
    <3>9. amounts[i] * Unit - f = g + s * (b * Unit) - f
      <4>1. amounts[i] * Unit = g + s * (b * Unit)
        BY <3>6, <3>7
      <4>2. s * (b * Unit) \in Int
        BY <1>1, <2>5, <3>8
      <4>2a. amounts[i] * Unit \in Int
        BY <3>4, <4>1, <4>2
      <4>2b. PICK y \in Int, z \in Int : y = amounts[i] * Unit /\ z = s * (b * Unit)
        BY <4>2, <4>2a
      <4>3. y - f = (g + z) - f
        BY <4>1, <4>2b
      <4> QED BY <4>2b, <4>3
    <3>10. r \in Nat /\ r <= Unit
      BY <1>1
    <3>11. Calc!Magnitude(amounts[i] * Unit - f) <= Unit
      BY <1>1, <2>5, <3>4, <3>5, <3>8, <3>9, <3>10 DEF Calc!Magnitude
    <3>12. amounts[i] * s >= 0
      <4>1. CASE s = 1
        BY <3>3, <3>6, <4>1
      <4>2. CASE s = -1
        BY <3>3, <3>6, <4>2
      <4> QED BY <2>5, <4>1, <4>2
    <3> QED BY <3>4, <3>11, <3>12
  <2> QED BY <1>3, <2>12, <2>22, <2>23 DEF C, amounts, s
<1> QED BY <1>2, <1>3

------------------------------------------------------------------------------
\* AttributionCalculation: what a run gives.
\* --- A run that is allowed: its candidates, its weights and what it credits.
Run(r, p, m, w, amount, current) ==
  /\ Named(p) /\ Model(m) /\ amount \in Int
  /\ r = Calc!Outcome(p, m, w, amount, current) /\ Calc!Complete(r)
Chosen4(p, m, w, current) == Calc!Eligible(Calc!Prepared(p, m, w, current))
Weights4(p, m, w, current) == Calc!Weights(p, m, Chosen4(p, m, w, current))

LEMMA RunIs ==
  ASSUME NEW r, NEW p, NEW m, NEW w, NEW amount, NEW current, Run(r, p, m, w, amount, current)
  PROVE  /\ r.run /\ r.model = m /\ r.window = w /\ r.amount = amount /\ r.named = p /\ r.seen = current
         /\ r.weights = Weights4(p, m, w, current)
         /\ r.states = Calc!Settled(Calc!Prepared(p, m, w, current), r.weights)
         /\ r.amounts = Calc!Allocations(p, amount, r.weights)
<1>1. r = [run |-> TRUE, model |-> m, window |-> w, amount |-> amount, named |-> p,
           seen |-> current, states |-> Calc!Settled(Calc!Prepared(p, m, w, current), Weights4(p, m, w, current)),
           weights |-> Weights4(p, m, w, current),
           amounts |-> Calc!Allocations(p, amount, Weights4(p, m, w, current))]
  BY DEF Run, Calc!Outcome, Weights4, Chosen4
<1> QED BY <1>1

LEMMA RunFacts ==
  ASSUME NEW r, NEW p, NEW m, NEW w, NEW amount, NEW current, Run(r, p, m, w, amount, current)
  PROVE  \E E :
           /\ Eligibly(E, p) /\ Chooses(E, p, m, w, current)
           /\ WeighedAs(r.weights, p, m, E) /\ Weighing(r.weights, p)
           /\ Calc!Winners(r) = Calc!CreditedBy(r.weights) /\ Calc!CreditedBy(r.weights) \in SUBSET E
           /\ Calc!TotalOf(r.weights) = IF E = {} THEN 0 ELSE Unit
<1> DEFINE prepared == Calc!Prepared(p, m, w, current)
           E == Calc!Eligible(prepared)
           weights == r.weights
<1>0. Named(p) /\ Model(m)
  BY DEF Run
<1>1. Chooses(E, p, m, w, current) /\ PreparedAs(prepared, p, m, w, current)
  BY <1>0, EligibleIs, PreparedIs
<1>2. Eligibly(E, p)
  BY <1>0, <1>1 DEF Eligibly, Chooses
<1>3. WeighedAs(weights, p, m, E)
  BY <1>2, RunIs, WeightsAre DEF Eligibly, Weights4, Chosen4
<1>4. \A i : i \in E <=> i \in DOMAIN p /\ prepared[i] = "eligible"
  BY <1>1 DEF Calc!Eligible, PreparedAs
<1>5. r.states = Calc!Settled(prepared, weights)
  BY RunIs
<1> HIDE DEF prepared, E, weights
<1>6. Weighing(weights, p)
  BY <1>0, <1>2, <1>3, WeightsBounded DEF Weighing, WeighedAs
<1>7. \A i \in DOMAIN p : r.states[i] = IF weights[i] > 0 THEN "credited"
                                        ELSE IF prepared[i] = "eligible" THEN "eligible_not_selected"
                                        ELSE prepared[i]
  BY <1>1, <1>5 DEF Calc!Settled, PreparedAs
<1>8. \A i \in DOMAIN p : r.states[i] = "credited" <=> weights[i] > 0
  BY <1>1, <1>7 DEF PreparedAs
<1>9. Calc!Winners(r) = Calc!CreditedBy(weights)
  <2>1. DOMAIN weights = DOMAIN p /\ r.named = p
    BY <1>3, RunIs DEF WeighedAs
  <2> QED BY <1>8, <2>1 DEF Calc!Winners, Calc!CreditedBy
<1>10. \A i \in DOMAIN p : i \notin E => ~(weights[i] > 0)
  BY <1>3 DEF WeighedAs
<1>11. Calc!CreditedBy(weights) \in SUBSET E
  BY <1>3, <1>10 DEF Calc!CreditedBy, WeighedAs
<1>12. \A i \in E : i \in DOMAIN p /\ r.states[i] \in {"credited", "eligible_not_selected"}
  BY <1>4, <1>7
<1>13. E # {} /\ m.strategy = "platform_reported" => Calc!TotalOf(weights) = Unit
  <2>1. Calc!Complete(r) /\ r.model = m /\ r.named = p
    BY RunIs DEF Run
  <2> QED BY <1>12, <2>1 DEF Calc!Complete, weights
<1>14. /\ E = {} => Calc!TotalOf(weights) = 0
       /\ E # {} /\ m.strategy # "platform_reported" => Calc!TotalOf(weights) = Unit
  BY <1>0, <1>2, <1>3, SumOfWeights
<1>15. Calc!TotalOf(weights) = IF E = {} THEN 0 ELSE Unit
  BY <1>13, <1>14
<1> QED BY <1>1, <1>2, <1>3, <1>6, <1>9, <1>11, <1>15 DEF weights

\* --- The credit and the amount are split to the last micro.
ExactOf(r) ==
  LET named == {r.named[i] : i \in DOMAIN r.named}
  IN  /\ Calc!TotalOf(r.weights) = IF named \cap Calc!Worthy(r) = {} THEN 0 ELSE Unit
      /\ Calc!TotalOf(r.amounts) = IF Calc!Winners(r) = {} THEN 0 ELSE r.amount
      /\ \A i \in Calc!Winners(r) :
           /\ r.named[i] \in Calc!Worthy(r)
           /\ Calc!Magnitude(r.amounts[i] * Unit - r.amount * r.weights[i]) <= Unit
           /\ r.amounts[i] * Calc!Sign(r.amount) >= 0
      /\ \A i, j \in Calc!Winners(r) : r.named[i].click = r.named[j].click => i = j

LEMMA RunExact ==
  ASSUME NEW r, NEW p, NEW m, NEW w, NEW amount, NEW current, Run(r, p, m, w, amount, current)
  PROVE  ExactOf(r)
<1>1. PICK E :
        /\ Eligibly(E, p) /\ Chooses(E, p, m, w, current)
        /\ WeighedAs(r.weights, p, m, E) /\ Weighing(r.weights, p)
        /\ Calc!Winners(r) = Calc!CreditedBy(r.weights) /\ Calc!CreditedBy(r.weights) \in SUBSET E
        /\ Calc!TotalOf(r.weights) = IF E = {} THEN 0 ELSE Unit
  BY RunFacts
<1>2. /\ r.model = m /\ r.window = w /\ r.amount = amount /\ r.named = p /\ r.seen = current
      /\ r.amounts = Calc!Allocations(p, amount, r.weights)
  BY RunIs
<1>3. Named(p) /\ amount \in Int
  BY DEF Run
<1>4. \A i \in DOMAIN p : p[i] \in Calc!Worthy(r) <=> Calc!Admissible(p[i], m, w, current)
  BY <1>2, <1>3 DEF Calc!Worthy, Named
<1>5. {r.named[i] : i \in DOMAIN r.named} \cap Calc!Worthy(r) = {} <=> E = {}
  <2>1. E \in SUBSET DOMAIN p /\ \A i \in E : Calc!Admissible(p[i], m, w, current)
    BY <1>1 DEF Chooses
  <2>2. \A i \in DOMAIN p : Calc!Admissible(p[i], m, w, current) => E # {}
    BY <1>1 DEF Chooses
  <2> QED BY <1>2, <1>4, <2>1, <2>2
<1>6. Calc!TotalOf(r.weights) \in {0, Unit}
  BY <1>1
<1>7. /\ Calc!TotalOf(r.amounts) = IF Calc!CreditedBy(r.weights) = {} THEN 0 ELSE amount
      /\ \A i \in Calc!CreditedBy(r.weights) :
           /\ Calc!Magnitude(r.amounts[i] * Unit - amount * r.weights[i]) <= Unit
           /\ r.amounts[i] * Calc!Sign(amount) >= 0
  BY <1>1, <1>2, <1>3, <1>6, AmountsExact
<1>8. \A i \in Calc!Winners(r) : i \in E /\ i \in DOMAIN p /\ p[i] \in Calc!Worthy(r)
  BY <1>1, <1>4 DEF Chooses
<1>9. \A i, j \in Calc!Winners(r) : p[i].click = p[j].click => i = j
  BY <1>1, <1>8 DEF Chooses
<1> QED BY <1>1, <1>2, <1>5, <1>7, <1>8, <1>9 DEF ExactOf

\* --- The models split as they are called.
SplitOf(r) ==
  LET worthy == {r.named[i].click : i \in {j \in DOMAIN r.named : r.named[j] \in Calc!Worthy(r)}}
      won == {r.named[i].click : i \in Calc!Winners(r)}
      times == {OccurredAt[c] : c \in worthy}
  IN  /\ r.model.strategy = "first_touch" => \A c \in won : OccurredAt[c] = Calc!Min(times)
      /\ r.model.strategy = "last_touch" => \A c \in won : OccurredAt[c] = Calc!Max(times)
      /\ r.model.strategy = "linear" =>
           /\ won = worthy
           /\ \A i, j \in Calc!Winners(r) :
                OccurredAt[r.named[i].click] < OccurredAt[r.named[j].click] =>
                  r.weights[i] - r.weights[j] \in 0..1

LEMMA LeastIs ==
  ASSUME NEW S \in SUBSET Int, NEW x \in S, \A y \in S : x <= y PROVE Calc!Min(S) = x
<1>1. Calc!Min(S) \in S /\ \A y \in S : Calc!Min(S) <= y
  BY DEF Calc!Min
<1>2. PICK n \in Int : n = Calc!Min(S)
  BY <1>1
<1> QED BY <1>1, <1>2

LEMMA GreatestIs ==
  ASSUME NEW S \in SUBSET Int, NEW x \in S, \A y \in S : x >= y PROVE Calc!Max(S) = x
<1>1. Calc!Max(S) \in S /\ \A y \in S : Calc!Max(S) >= y
  BY DEF Calc!Max
<1>2. PICK n \in Int : n = Calc!Max(S)
  BY <1>1
<1> QED BY <1>1, <1>2

LEMMA RunSplit ==
  ASSUME NEW r, NEW p, NEW m, NEW w, NEW amount, NEW current, Run(r, p, m, w, amount, current)
  PROVE  SplitOf(r)
<1> DEFINE at(i) == OccurredAt[p[i].click]
           worthy == {r.named[i].click : i \in {j \in DOMAIN r.named : r.named[j] \in Calc!Worthy(r)}}
           won == {r.named[i].click : i \in Calc!Winners(r)}
           times == {OccurredAt[c] : c \in worthy}
<1>1. PICK E :
        /\ Eligibly(E, p) /\ Chooses(E, p, m, w, current)
        /\ WeighedAs(r.weights, p, m, E) /\ Weighing(r.weights, p)
        /\ Calc!Winners(r) = Calc!CreditedBy(r.weights) /\ Calc!CreditedBy(r.weights) \in SUBSET E
        /\ Calc!TotalOf(r.weights) = IF E = {} THEN 0 ELSE Unit
  BY RunFacts
<1>2. /\ r.model = m /\ r.window = w /\ r.named = p /\ r.seen = current
  BY RunIs
<1>3. Named(p) /\ Model(m)
  BY DEF Run
<1>4. \A i \in DOMAIN p : p[i] \in Calc!Worthy(r) <=> Calc!Admissible(p[i], m, w, current)
  BY <1>2, <1>3 DEF Calc!Worthy, Named
<1>5. /\ E \in SUBSET DOMAIN p /\ \A i \in E : Calc!Admissible(p[i], m, w, current)
      /\ \A i \in DOMAIN p : Calc!Admissible(p[i], m, w, current) => \E j \in E : p[j].click = p[i].click
  BY <1>1 DEF Chooses
<1>6. worthy = {p[i].click : i \in E}
  <2>1. worthy = {p[i].click : i \in {j \in DOMAIN p : Calc!Admissible(p[j], m, w, current)}}
    BY <1>2, <1>4
  <2> HIDE DEF worthy
  <2>2. \A c : c \in worthy <=> \E i \in E : c = p[i].click
    BY <1>5, <2>1
  <2> QED BY <2>2
<1>7. won = {p[i].click : i \in Calc!Winners(r)} /\ Calc!Winners(r) \in SUBSET E
  BY <1>1, <1>2
<1>8. times = {at(i) : i \in E}
  <2>1. \A t : t \in times <=> \E c \in worthy : t = OccurredAt[c]
    OBVIOUS
  <2> HIDE DEF worthy, times
  <2>2. \A t : t \in times <=> \E i \in E : t = at(i)
    BY <1>6, <2>1
  <2> QED BY <2>2
<1>9. \A i \in E : p[i].click \in Nat /\ at(i) \in Int /\ i \in DOMAIN p
  <2> TAKE i \in E
  <2>1. i \in DOMAIN p /\ p[i] \in Candidates
    BY <1>3, <1>5 DEF Named
  <2> QED BY <2>1, CandidateFacts
<1>10. Calc!IsFiniteSet(E) /\ Ordered(SoonerIn(p), E) /\ Unit \in Nat /\ Unit # 0
  BY <1>1, EligiblyFacts
<1>11. \A i, j \in E : <<i, j>> \in SoonerIn(p) <=>
         at(i) < at(j) \/ (at(i) = at(j) /\ p[i].click < p[j].click)
  BY <1>9, SoonerIs DEF Calc!Sooner
<1>12. /\ \A i \in E : Rank(p, E, i) \in 0..(Calc!Cardinality(E) - 1)
       /\ \A i, j \in E : <<i, j>> \in SoonerIn(p) => Rank(p, E, i) < Rank(p, E, j)
  BY <1>10, Ranks DEF Rank
<1>13. \A i, j \in E : at(i) < at(j) => Rank(p, E, i) < Rank(p, E, j)
  BY <1>11, <1>12
<1>14. Calc!Cardinality(E) \in Nat
  BY <1>10, FS_CardinalityType, SizesOfCalc
<1>15. \A i \in Calc!Winners(r) : i \in E /\ r.weights[i] > 0
  BY <1>1 DEF Calc!CreditedBy
<1> HIDE DEF worthy, won, times, at
<1>16. times \in SUBSET Int /\ \A i \in E : at(i) \in times
  BY <1>8, <1>9
<1>17. \A i, j \in E : Rank(p, E, i) \in Nat /\ Rank(p, E, j) \in Nat /\ Rank(p, E, j) <= Calc!Cardinality(E) - 1
  BY <1>12, <1>14
<1>18. ASSUME m.strategy = "first_touch", NEW c \in won PROVE OccurredAt[c] = Calc!Min(times)
  <2>1. PICK i \in Calc!Winners(r) : c = p[i].click
    BY <1>7
  <2>2. i \in E /\ Rank(p, E, i) = 0
    BY <1>1, <1>15, <1>18 DEF WeighedAs
  <2>3. \A j \in E : at(i) <= at(j)
    BY <1>9, <1>13, <1>17, <2>2
  <2>4. \A t \in times : at(i) <= t
    BY <1>8, <2>3
  <2>5. at(i) = Calc!Min(times)
    BY <1>16, <2>2, <2>4, LeastIs
  <2> QED BY <2>1, <2>5 DEF at
<1>19. ASSUME m.strategy = "last_touch", NEW c \in won PROVE OccurredAt[c] = Calc!Max(times)
  <2>1. PICK i \in Calc!Winners(r) : c = p[i].click
    BY <1>7
  <2>2. i \in E /\ Rank(p, E, i) = Calc!Cardinality(E) - 1
    BY <1>1, <1>15, <1>19 DEF WeighedAs
  <2>3. \A j \in E : at(i) >= at(j)
    BY <1>9, <1>13, <1>14, <1>17, <2>2
  <2>4. \A t \in times : at(i) >= t
    BY <1>8, <2>3
  <2>5. at(i) = Calc!Max(times)
    BY <1>16, <2>2, <2>4, GreatestIs
  <2> QED BY <2>1, <2>5 DEF at
<1>20. ASSUME m.strategy = "linear"
       PROVE  /\ won = worthy
              /\ \A i, j \in Calc!Winners(r) : at(i) < at(j) => r.weights[i] - r.weights[j] \in 0..1
  <2>1. \A i \in E : r.weights[i] > 0
    BY <1>1, <1>3, <1>20, WeightsBounded
  <2>2. Calc!Winners(r) = E
    BY <1>1, <1>5, <2>1 DEF Calc!CreditedBy, WeighedAs
  <2>3. CASE E = {}
    BY <1>6, <1>7, <2>2, <2>3
  <2>4. CASE E # {}
    <3>0. PICK c \in Nat : c = Calc!Cardinality(E)
      BY <1>14
    <3>1. PICK q \in 1..Unit, t \in 0..(c - 1) : q = Unit \div c /\ t = Unit % c
      BY <1>1, <2>4, <3>0, LinearParts
    <3>2. \A i \in E : r.weights[i] = q + IF Rank(p, E, i) < t THEN 1 ELSE 0
      BY <1>1, <1>20, <3>0, <3>1 DEF WeighedAs
    <3>3. ASSUME NEW i \in E, NEW j \in E, at(i) < at(j) PROVE r.weights[i] - r.weights[j] \in 0..1
      <4>1. PICK x \in Nat, y \in Nat : x = Rank(p, E, i) /\ y = Rank(p, E, j) /\ x < y
        BY <1>13, <1>17, <3>3
      <4>2. /\ r.weights[i] = q + IF x < t THEN 1 ELSE 0
            /\ r.weights[j] = q + IF y < t THEN 1 ELSE 0
        BY <3>2, <4>1
      <4>3. q \in Int /\ t \in Nat
        BY <1>10, <3>0, <3>1
      <4>4. CASE x < t
        <5>1. CASE y < t
          <6>1. r.weights[i] = q + 1 /\ r.weights[j] = q + 1
            BY <4>2, <4>4, <5>1
          <6> QED BY <4>3, <6>1
        <5>2. CASE ~(y < t)
          <6>1. r.weights[i] = q + 1 /\ r.weights[j] = q + 0
            BY <4>2, <4>4, <5>2
          <6> QED BY <4>3, <6>1
        <5> QED BY <5>1, <5>2
      <4>5. CASE ~(x < t)
        <5>1. ~(y < t)
          BY <4>1, <4>3, <4>5
        <5>2. r.weights[i] = q + 0 /\ r.weights[j] = q + 0
          BY <4>2, <4>5, <5>1
        <5> QED BY <4>3, <5>2
      <4> QED BY <4>4, <4>5
    <3> QED BY <1>6, <1>7, <2>2, <3>3
  <2> QED BY <2>3, <2>4
<1>21. \A i, j \in Calc!Winners(r) : /\ at(i) = OccurredAt[r.named[i].click]
                               /\ at(j) = OccurredAt[r.named[j].click]
  BY <1>2 DEF at
<1> QED BY <1>2, <1>18, <1>19, <1>20, <1>21 DEF SplitOf, worthy, won, times

------------------------------------------------------------------------------
\* AttributionCalculation: the order of the evidence decides nothing.
\* --- One set with another's names has as many elements.
LEMMA SizeAlike ==
  ASSUME NEW S, NEW T, Calc!IsFiniteSet(T), NEW b,
         \A i \in S : b[i] \in T, \A i, j \in S : b[i] = b[j] => i = j, \A k \in T : \E i \in S : b[i] = k
  PROVE  Calc!IsFiniteSet(S) /\ Calc!Cardinality(S) = Calc!Cardinality(T)
<1> DEFINE f == [i \in S |-> b[i]]
<1>1. f \in [S -> T] /\ \A i \in S : f[i] = b[i]
  OBVIOUS
<1> HIDE DEF f
<1>2. f \in Injection(S, T)
  BY <1>1 DEF Injection, IsInjective
<1>3. f \in Surjection(S, T)
  BY <1>1 DEF Surjection
<1> QED BY <1>2, <1>3, FS_Injection, SizesOfCalc

\* --- The evidence that p names, named by q in another order.
Reordered(q, p, o) ==
  /\ Named(p) /\ Named(q) /\ DOMAIN q = DOMAIN p
  /\ \A a \in DOMAIN p : o[a] \in DOMAIN p /\ q[a] = p[o[a]]
  /\ \A a, b \in DOMAIN p : o[a] = o[b] => a = b
  /\ \A i \in DOMAIN p : \E a \in DOMAIN p : o[a] = i
  /\ \A a, b \in DOMAIN p : Calc!Before(q, a, b) <=> Calc!Before(p, o[a], o[b])

LEMMA PreparedAlike ==
  ASSUME NEW q, NEW p, NEW o, Reordered(q, p, o), NEW m, NEW w, NEW current
  PROVE  /\ DOMAIN Calc!Prepared(q, m, w, current) = DOMAIN p /\ DOMAIN Calc!Prepared(p, m, w, current) = DOMAIN p
         /\ \A a \in DOMAIN p : Calc!Prepared(q, m, w, current)[a] = Calc!Prepared(p, m, w, current)[o[a]]
<1> DEFINE state(c) == Calc!CandidateState(c, m, w, current)
           sp == [i \in DOMAIN p |-> state(p[i])]
           sq == [i \in DOMAIN q |-> state(q[i])]
           rp(i) == \E j \in DOMAIN p : sp[j] = "eligible" /\ p[j].click = p[i].click /\ Calc!Before(p, j, i)
           rq(i) == \E j \in DOMAIN q : sq[j] = "eligible" /\ q[j].click = q[i].click /\ Calc!Before(q, j, i)
<1>1. /\ Calc!Prepared(p, m, w, current) =
           [i \in DOMAIN p |-> IF sp[i] = "eligible" /\ rp(i) THEN "duplicate_touchpoint" ELSE sp[i]]
      /\ Calc!Prepared(q, m, w, current) =
           [i \in DOMAIN q |-> IF sq[i] = "eligible" /\ rq(i) THEN "duplicate_touchpoint" ELSE sq[i]]
  BY DEF Calc!Prepared
<1>2. \A a \in DOMAIN p : sq[a] = sp[o[a]]
  BY DEF Reordered
<1> HIDE DEF sp, sq
<1>3. ASSUME NEW a \in DOMAIN p PROVE rq(a) <=> rp(o[a])
  <2>1. ASSUME rq(a) PROVE rp(o[a])
    <3>1. PICK j \in DOMAIN q : sq[j] = "eligible" /\ q[j].click = q[a].click /\ Calc!Before(q, j, a)
      BY <2>1
    <3>2. j \in DOMAIN p /\ o[j] \in DOMAIN p /\ o[a] \in DOMAIN p
      BY DEF Reordered
    <3>3. sp[o[j]] = "eligible" /\ p[o[j]].click = p[o[a]].click /\ Calc!Before(p, o[j], o[a])
      BY <1>2, <3>1, <3>2 DEF Reordered
    <3> QED BY <3>2, <3>3
  <2>2. ASSUME rp(o[a]) PROVE rq(a)
    <3>1. PICK k \in DOMAIN p : sp[k] = "eligible" /\ p[k].click = p[o[a]].click /\ Calc!Before(p, k, o[a])
      BY <2>2
    <3>2. PICK j \in DOMAIN p : o[j] = k
      BY DEF Reordered
    <3>3. sq[j] = "eligible" /\ q[j].click = q[a].click /\ Calc!Before(q, j, a) /\ j \in DOMAIN q
      BY <1>2, <3>1, <3>2 DEF Reordered
    <3> QED BY <3>3
  <2> QED BY <2>1, <2>2
<1> HIDE DEF rp, rq
<1>4. \A a \in DOMAIN p : o[a] \in DOMAIN p /\ a \in DOMAIN q
  BY DEF Reordered
<1>5. DOMAIN q = DOMAIN p
  BY DEF Reordered
<1> QED BY <1>1, <1>2, <1>3, <1>4, <1>5

\* Some of what p names, and the same of what q names.
Matched(F, E, p, o) ==
  E \in SUBSET DOMAIN p /\ F \in SUBSET DOMAIN p /\ \A a \in DOMAIN p : a \in F <=> o[a] \in E

LEMMA MatchedBack ==
  ASSUME NEW q, NEW p, NEW o, Reordered(q, p, o), NEW E, NEW F, Matched(F, E, p, o)
  PROVE  /\ \A a \in F : o[a] \in E
         /\ \A a, b \in F : o[a] = o[b] => a = b
         /\ \A i \in E : \E a \in F : o[a] = i
<1>1. ASSUME NEW i \in E PROVE \E a \in F : o[a] = i
  <2>1. i \in DOMAIN p
    BY DEF Matched
  <2>2. PICK a \in DOMAIN p : o[a] = i
    BY <2>1 DEF Reordered
  <2> QED BY <2>2 DEF Matched
<1>2. \A a \in F : a \in DOMAIN p /\ o[a] \in E
  BY DEF Matched
<1>3. \A a, b \in F : o[a] = o[b] => a = b
  BY <1>2 DEF Reordered
<1> QED BY <1>1, <1>2, <1>3

LEMMA EligibleAlike ==
  ASSUME NEW q, NEW p, NEW o, Reordered(q, p, o), NEW m, NEW w, NEW current,
         NEW E, E = Calc!Eligible(Calc!Prepared(p, m, w, current)), NEW F, F = Calc!Eligible(Calc!Prepared(q, m, w, current))
  PROVE  /\ E \in SUBSET DOMAIN p /\ F \in SUBSET DOMAIN p /\ Calc!IsFiniteSet(E) /\ Calc!IsFiniteSet(F)
         /\ Matched(F, E, p, o) /\ Calc!Cardinality(F) = Calc!Cardinality(E)
<1>1. /\ \A i : i \in E <=> i \in DOMAIN p /\ Calc!Prepared(p, m, w, current)[i] = "eligible"
      /\ \A i : i \in F <=> i \in DOMAIN p /\ Calc!Prepared(q, m, w, current)[i] = "eligible"
  BY PreparedAlike DEF Calc!Eligible
<1>2. \A a \in DOMAIN p : o[a] \in DOMAIN p
  BY DEF Reordered
<1>3. \A a \in DOMAIN p : a \in F <=> o[a] \in E
  BY <1>1, <1>2, PreparedAlike
<1>4. E \in SUBSET DOMAIN p /\ F \in SUBSET DOMAIN p
  BY <1>1
<1>5. Calc!IsFiniteSet(E) /\ Calc!IsFiniteSet(F)
  BY <1>4, FS_Subset, SizesOfCalc DEF Reordered, Named
<1>6. Matched(F, E, p, o)
  BY <1>3, <1>4 DEF Matched
<1>7. Calc!Cardinality(F) = Calc!Cardinality(E)
  BY <1>5, <1>6, MatchedBack, SizeAlike
<1> QED BY <1>4, <1>5, <1>6, <1>7

\* What comes before one of some, whichever way it is counted.
LEMMA PositionAlike ==
  ASSUME NEW q, NEW p, NEW o, Reordered(q, p, o), NEW E, NEW F, Matched(F, E, p, o), NEW a \in F
  PROVE  Calc!Position(q, F, a) = Calc!Position(p, E, o[a])
<1> DEFINE S == {j \in F : Calc!Sooner(q[j], q[a])}
           T == {j \in E : Calc!Sooner(p[j], p[o[a]])}
<1>1. Calc!IsFiniteSet(T)
  <2>1. T \in SUBSET DOMAIN p
    BY DEF Matched
  <2> HIDE DEF T
  <2> QED BY <2>1, FS_Subset, SizesOfCalc DEF Reordered, Named
<1>2. \A j \in F : o[j] \in E /\ q[j] = p[o[j]]
  BY DEF Reordered, Matched
<1>3. \A j \in F : Calc!Sooner(q[j], q[a]) <=> Calc!Sooner(p[o[j]], p[o[a]])
  BY <1>2
<1>4. /\ \A j \in S : o[j] \in T
      /\ \A j, k \in S : o[j] = o[k] => j = k
      /\ \A i \in T : \E j \in S : o[j] = i
  BY <1>2, <1>3, MatchedBack
<1> HIDE DEF S, T
<1>5. Calc!Cardinality(S) = Calc!Cardinality(T)
  BY <1>1, <1>4, SizeAlike
<1> QED BY <1>5 DEF S, T, Calc!Position

LEMMA PlaceAlike ==
  ASSUME NEW q, NEW p, NEW o, Reordered(q, p, o), NEW E, NEW F, Matched(F, E, p, o), NEW a \in F
  PROVE  Calc!Cardinality({j \in F : Calc!Before(q, j, a)}) = Calc!Cardinality({j \in E : Calc!Before(p, j, o[a])})
<1> DEFINE S == {j \in F : Calc!Before(q, j, a)}
           T == {j \in E : Calc!Before(p, j, o[a])}
<1>1. Calc!IsFiniteSet(T)
  <2>1. T \in SUBSET DOMAIN p
    BY DEF Matched
  <2> HIDE DEF T
  <2> QED BY <2>1, FS_Subset, SizesOfCalc DEF Reordered, Named
<1>2. \A j \in F : o[j] \in E /\ j \in DOMAIN p
  BY DEF Matched
<1>3. \A j \in F : Calc!Before(q, j, a) <=> Calc!Before(p, o[j], o[a])
  BY <1>2 DEF Reordered
<1>4. /\ \A j \in S : o[j] \in T
      /\ \A j, k \in S : o[j] = o[k] => j = k
      /\ \A i \in T : \E j \in S : o[j] = i
  BY <1>2, <1>3, MatchedBack
<1> HIDE DEF S, T
<1>5. Calc!Cardinality(S) = Calc!Cardinality(T)
  BY <1>1, <1>4, SizeAlike
<1> QED BY <1>5 DEF S, T

LEMMA WeightsAlike ==
  ASSUME NEW q, NEW p, NEW o, Reordered(q, p, o), NEW m, NEW E, NEW F,
         Matched(F, E, p, o), Calc!Cardinality(F) = Calc!Cardinality(E)
  PROVE  /\ DOMAIN Calc!Weights(q, m, F) = DOMAIN p /\ DOMAIN Calc!Weights(p, m, E) = DOMAIN p
         /\ \A a \in DOMAIN p : Calc!Weights(q, m, F)[a] = Calc!Weights(p, m, E)[o[a]]
<1> DEFINE count == Calc!Cardinality(E)
           of(n, weight) == CASE m.strategy = "first_touch" -> IF n = 0 THEN Unit ELSE 0
              [] m.strategy = "last_touch" -> IF n = count - 1 THEN Unit ELSE 0
              [] m.strategy = "linear" -> (Unit \div count) + (IF n < Unit % count THEN 1 ELSE 0)
              [] m.strategy = "platform_reported" -> weight
<1>1. Calc!Weights(p, m, E) = [i \in DOMAIN p |-> IF i \in E THEN of(Calc!Position(p, E, i), p[i].weight) ELSE 0]
  BY DEF Calc!Weights
<1>2. Calc!Weights(q, m, F) = [i \in DOMAIN q |-> IF i \in F THEN of(Calc!Position(q, F, i), q[i].weight) ELSE 0]
  BY DEF Calc!Weights
<1> HIDE DEF of
<1>3. \A a \in F : Calc!Position(q, F, a) = Calc!Position(p, E, o[a])
  BY PositionAlike
<1>4. /\ DOMAIN q = DOMAIN p /\ \A a \in DOMAIN p : o[a] \in DOMAIN p /\ q[a] = p[o[a]]
      /\ F \in SUBSET DOMAIN p /\ \A a \in DOMAIN p : a \in F <=> o[a] \in E
  BY DEF Reordered, Matched
<1>5. \A a \in DOMAIN p : Calc!Weights(q, m, F)[a] = IF a \in F THEN of(Calc!Position(q, F, a), q[a].weight) ELSE 0
  BY <1>2, <1>4
<1>6. \A a \in DOMAIN p : Calc!Weights(p, m, E)[o[a]] =
        IF o[a] \in E THEN of(Calc!Position(p, E, o[a]), p[o[a]].weight) ELSE 0
  BY <1>1, <1>4
<1>7. \A a \in F : of(Calc!Position(q, F, a), q[a].weight) = of(Calc!Position(p, E, o[a]), p[o[a]].weight)
  BY <1>3, <1>4
<1>8. \A a \in DOMAIN p : Calc!Weights(q, m, F)[a] = Calc!Weights(p, m, E)[o[a]]
  BY <1>4, <1>5, <1>6, <1>7
<1> QED BY <1>1, <1>2, <1>4, <1>8

LEMMA AmountsAlike ==
  ASSUME NEW q, NEW p, NEW o, Reordered(q, p, o), NEW amount \in Int,
         NEW v, NEW u, Weighing(u, p), Weighing(v, q), \A a \in DOMAIN p : v[a] = u[o[a]]
  PROVE  /\ DOMAIN Calc!Allocations(q, amount, v) = DOMAIN p /\ DOMAIN Calc!Allocations(p, amount, u) = DOMAIN p
         /\ \A a \in DOMAIN p : Calc!Allocations(q, amount, v)[a] = Calc!Allocations(p, amount, u)[o[a]]
<1> DEFINE C == Calc!CreditedBy(u)
           D == Calc!CreditedBy(v)
           of(share, rest, place, count) ==
             share + Calc!Sign(rest) * ((Calc!Magnitude(rest) - place + count - 1) \div count)
<1>1. /\ Calc!Allocations(p, amount, u) =
           [i \in DOMAIN p |-> IF i \in C
              THEN of(Shares(amount, u)[i], Left(amount, u), Calc!Cardinality({j \in C : Calc!Before(p, j, i)}), Calc!Cardinality(C))
              ELSE 0]
      /\ Calc!Allocations(q, amount, v) =
           [i \in DOMAIN q |-> IF i \in D
              THEN of(Shares(amount, v)[i], Left(amount, v), Calc!Cardinality({j \in D : Calc!Before(q, j, i)}), Calc!Cardinality(D))
              ELSE 0]
  BY DEF Calc!Allocations, Shares, Left
<1>2. /\ C \in SUBSET DOMAIN p /\ D \in SUBSET DOMAIN p /\ Calc!IsFiniteSet(C) /\ Calc!IsFiniteSet(D)
  BY CreditedFacts DEF Reordered
<1>3. DOMAIN q = DOMAIN p /\ \A a \in DOMAIN p : o[a] \in DOMAIN p
  BY DEF Reordered
<1>4. \A a \in DOMAIN p : a \in D <=> o[a] \in C
  BY <1>3 DEF Calc!CreditedBy, Weighing
<1>5. /\ \A i \in C : Shares(amount, u)[i] = Calc!Share(amount, u[i]) /\ Shares(amount, u)[i] \in Int
      /\ \A i \in D : Shares(amount, v)[i] = Calc!Share(amount, v[i]) /\ Shares(amount, v)[i] \in Int
      /\ DOMAIN Shares(amount, u) = C /\ DOMAIN Shares(amount, v) = D
  <2>1. /\ \A i \in C : Shares(amount, u)[i] = Calc!Share(amount, u[i])
        /\ \A i \in D : Shares(amount, v)[i] = Calc!Share(amount, v[i])
        /\ DOMAIN Shares(amount, u) = C /\ DOMAIN Shares(amount, v) = D
    BY DEF Shares
  <2>2. /\ \A i \in C : u[i] \in 0..Unit
        /\ \A i \in D : v[i] \in 0..Unit
    BY <1>2, <1>3 DEF Weighing
  <2>3. \A n \in 0..Unit : Calc!Share(amount, n) \in Int
    BY ShareFacts
  <2> QED BY <2>1, <2>2, <2>3
<1> HIDE DEF C, D, of
<1>6. \A a \in D : Shares(amount, v)[a] = Shares(amount, u)[o[a]] /\ o[a] \in C
  BY <1>2, <1>4, <1>5
<1>7a. Matched(D, C, p, o)
  BY <1>2, <1>4 DEF Matched
<1>7. /\ \A a, b \in D : o[a] = o[b] => a = b
      /\ \A i \in C : \E a \in D : o[a] = i
  BY <1>7a, MatchedBack
<1>8. Calc!Cardinality(D) = Calc!Cardinality(C)
  BY <1>2, <1>6, <1>7, SizeAlike
<1>9. Calc!TotalOf(Shares(amount, v)) = Calc!TotalOf(Shares(amount, u))
  <2>1. Numbers(Shares(amount, v), D) /\ Numbers(Shares(amount, u), C)
    BY <1>2, <1>5 DEF Numbers
  <2>2. SumOver(Shares(amount, v), D) = SumOver(Shares(amount, u), C)
    BY <1>6, <1>7, <2>1, SumAlike
  <2> QED BY <1>5, <2>2, TotalIs
<1>10. Left(amount, v) = Left(amount, u)
  BY <1>9 DEF Left
<1>11. \A a \in D : Calc!Cardinality({j \in D : Calc!Before(q, j, a)}) = Calc!Cardinality({j \in C : Calc!Before(p, j, o[a])})
  BY <1>7a, PlaceAlike
<1>12. \A a \in DOMAIN p : Calc!Allocations(q, amount, v)[a] =
         IF a \in D
           THEN of(Shares(amount, v)[a], Left(amount, v), Calc!Cardinality({j \in D : Calc!Before(q, j, a)}), Calc!Cardinality(D))
           ELSE 0
  BY <1>1, <1>3
<1>13. \A a \in DOMAIN p : Calc!Allocations(p, amount, u)[o[a]] =
         IF o[a] \in C
           THEN of(Shares(amount, u)[o[a]], Left(amount, u),
                   Calc!Cardinality({j \in C : Calc!Before(p, j, o[a])}), Calc!Cardinality(C))
           ELSE 0
  BY <1>1, <1>3
<1>14. ASSUME NEW a \in D
       PROVE  of(Shares(amount, v)[a], Left(amount, v), Calc!Cardinality({j \in D : Calc!Before(q, j, a)}), Calc!Cardinality(D))
              = of(Shares(amount, u)[o[a]], Left(amount, u),
                   Calc!Cardinality({j \in C : Calc!Before(p, j, o[a])}), Calc!Cardinality(C))
  BY <1>6, <1>8, <1>10, <1>11
<1>15. ASSUME NEW a \in DOMAIN p
       PROVE  Calc!Allocations(q, amount, v)[a] = Calc!Allocations(p, amount, u)[o[a]]
  <2>1. CASE a \in D
    <3>1. o[a] \in C
      BY <1>4, <2>1
    <3>2. Calc!Allocations(q, amount, v)[a] =
            of(Shares(amount, v)[a], Left(amount, v), Calc!Cardinality({j \in D : Calc!Before(q, j, a)}), Calc!Cardinality(D))
      BY <1>12, <2>1
    <3>3. Calc!Allocations(p, amount, u)[o[a]] =
            of(Shares(amount, u)[o[a]], Left(amount, u),
               Calc!Cardinality({j \in C : Calc!Before(p, j, o[a])}), Calc!Cardinality(C))
      BY <1>13, <3>1
    <3> QED BY <1>14, <2>1, <3>2, <3>3
  <2>2. CASE a \notin D
    <3>1. o[a] \notin C
      BY <1>4, <2>2
    <3> QED BY <1>12, <1>13, <2>2, <3>1
  <2> QED BY <2>1, <2>2
<1> QED BY <1>1, <1>3, <1>15

\* The values of q are those of p in the same order.
Arranged(values, p, o) == [a \in DOMAIN p |-> values[o[a]]]

LEMMA WeightsFunction ==
  ASSUME NEW p, NEW m, NEW E PROVE Calc!Weights(p, m, E) = [i \in DOMAIN p |-> Calc!Weights(p, m, E)[i]]
<1> DEFINE count == Calc!Cardinality(E)
           weight(i) ==
             LET n == Calc!Position(p, E, i)
             IN  CASE m.strategy = "first_touch" -> IF n = 0 THEN Unit ELSE 0
                   [] m.strategy = "last_touch" -> IF n = count - 1 THEN Unit ELSE 0
                   [] m.strategy = "linear" -> (Unit \div count) + (IF n < Unit % count THEN 1 ELSE 0)
                   [] m.strategy = "platform_reported" -> p[i].weight
<1>1. Calc!Weights(p, m, E) = [i \in DOMAIN p |-> IF i \in E THEN weight(i) ELSE 0]
  BY DEF Calc!Weights
<1> HIDE DEF weight
<1> QED BY <1>1

LEMMA OutcomeAlike ==
  ASSUME NEW q, NEW p, NEW o, Reordered(q, p, o), NEW m, Model(m), NEW w, NEW current,
         NEW amount \in Int, NEW r, r = Calc!Outcome(p, m, w, amount, current),
         NEW s, s = Calc!Outcome(q, m, w, amount, current)
  PROVE  /\ s.states = Arranged(r.states, p, o)
         /\ s.weights = Arranged(r.weights, p, o)
         /\ s.amounts = Arranged(r.amounts, p, o)
<1> DEFINE pp == Calc!Prepared(p, m, w, current)
           pq == Calc!Prepared(q, m, w, current)
           E == Calc!Eligible(pp)
           F == Calc!Eligible(pq)
           u == Calc!Weights(p, m, E)
           v == Calc!Weights(q, m, F)
<1>1. /\ r.states = Calc!Settled(pp, u) /\ r.weights = u /\ r.amounts = Calc!Allocations(p, amount, u)
      /\ s.states = Calc!Settled(pq, v) /\ s.weights = v /\ s.amounts = Calc!Allocations(q, amount, v)
  BY DEF Calc!Outcome
<1>2. /\ DOMAIN pq = DOMAIN p /\ DOMAIN pp = DOMAIN p
      /\ \A a \in DOMAIN p : pq[a] = pp[o[a]]
  BY PreparedAlike
<1>3. Matched(F, E, p, o) /\ Calc!Cardinality(F) = Calc!Cardinality(E)
  BY EligibleAlike
<1>4. Named(p) /\ Named(q) /\ DOMAIN q = DOMAIN p /\ \A a \in DOMAIN p : o[a] \in DOMAIN p
  BY DEF Reordered
<1>5. Chooses(E, p, m, w, current) /\ Chooses(F, q, m, w, current)
  BY <1>4, EligibleIs
<1>6. Eligibly(E, p) /\ Eligibly(F, q)
  BY <1>4, <1>5 DEF Eligibly, Chooses
<1> HIDE DEF pp, pq, E, F
<1>7. WeighedAs(u, p, m, E) /\ WeighedAs(v, q, m, F)
  BY <1>6, WeightsAre DEF Eligibly
<1>8. /\ DOMAIN v = DOMAIN p /\ DOMAIN u = DOMAIN p
      /\ \A a \in DOMAIN p : v[a] = u[o[a]]
  BY <1>3, WeightsAlike
<1>9. v = Arranged(u, p, o)
  <2>1. v = [i \in DOMAIN q |-> v[i]]
    BY WeightsFunction
  <2> HIDE DEF u, v
  <2> QED BY <1>4, <1>8, <2>1 DEF Arranged
<1> HIDE DEF u, v
<1>10. Weighing(u, p) /\ Weighing(v, q)
  BY <1>4, <1>6, <1>7, <1>8, WeightsBounded DEF Weighing
<1>11. /\ DOMAIN Calc!Allocations(q, amount, v) = DOMAIN p
       /\ \A a \in DOMAIN p : Calc!Allocations(q, amount, v)[a] = Calc!Allocations(p, amount, u)[o[a]]
  BY <1>8, <1>10, AmountsAlike
<1>12. Calc!Allocations(q, amount, v) = Arranged(Calc!Allocations(p, amount, u), p, o)
  <2> DEFINE f == Calc!Allocations(q, amount, v)
             g == Calc!Allocations(p, amount, u)
  <2>1. f = [i \in DOMAIN f |-> f[i]]
    BY DEF Calc!Allocations
  <2>2. DOMAIN f = DOMAIN p /\ \A a \in DOMAIN p : f[a] = g[o[a]]
    BY <1>11
  <2> HIDE DEF f, g
  <2>3. f = Arranged(g, p, o)
    BY <2>1, <2>2 DEF Arranged
  <2> QED BY <2>3 DEF f, g
<1>13. /\ Calc!Settled(pq, v) =
           [i \in DOMAIN p |-> IF v[i] > 0 THEN "credited"
                               ELSE IF pq[i] = "eligible" THEN "eligible_not_selected" ELSE pq[i]]
       /\ \A i \in DOMAIN p : Calc!Settled(pp, u)[i] =
            IF u[i] > 0 THEN "credited"
            ELSE IF pp[i] = "eligible" THEN "eligible_not_selected" ELSE pp[i]
  BY <1>2 DEF Calc!Settled
<1>14. Calc!Settled(pq, v) = Arranged(Calc!Settled(pp, u), p, o)
  <2> DEFINE f == Calc!Settled(pq, v)
             g == Calc!Settled(pp, u)
  <2>1. \A a \in DOMAIN p : f[a] = g[o[a]]
    BY <1>2, <1>4, <1>8, <1>13
  <2>2. f = [i \in DOMAIN p |-> f[i]]
    BY <1>13
  <2> HIDE DEF f, g
  <2>3. f = Arranged(g, p, o)
    BY <2>1, <2>2 DEF Arranged
  <2> QED BY <2>3 DEF f, g
<1> QED BY <1>1, <1>9, <1>12, <1>14

\* --- What is named is the same in its own order.
OrderFor(p) ==
  [n \in DOMAIN p |-> CHOOSE i \in DOMAIN p : Calc!Cardinality({j \in DOMAIN p : Calc!Before(p, j, i)}) + 1 = n]

LEMMA OrderSorts ==
  ASSUME NEW p, Named(p), NEW l \in Nat, DOMAIN p = 1..l,
         \A i, j \in DOMAIN p : Calc!SameKey(p[i], p[j]) => i = j
  PROVE  Reordered(Arranged(p, p, OrderFor(p)), p, OrderFor(p))
<1> DEFINE D == DOMAIN p
           place(i) == Calc!Cardinality({j \in D : Calc!Before(p, j, i)}) + 1
           o == OrderFor(p)
           q == Arranged(p, p, o)
<1>1. Calc!IsFiniteSet(D) /\ Calc!Cardinality(D) = l
  BY FS_Interval, SizesOfCalc
<1>2. Ordered(BeforeIn(p), D)
  BY BeforeOrders
<1>3. \A i \in D : {j \in D : Calc!Before(p, j, i)} = EarlierIn(D, BeforeIn(p), i)
  BY BeforeIs DEF EarlierIn
<1>4. /\ \A i, k \in D : Calc!Cardinality(EarlierIn(D, BeforeIn(p), i)) = Calc!Cardinality(EarlierIn(D, BeforeIn(p), k)) => i = k
      /\ \A n \in 0..(l - 1) : \E i \in D : Calc!Cardinality(EarlierIn(D, BeforeIn(p), i)) = n
      /\ \A i \in D : Calc!Cardinality(EarlierIn(D, BeforeIn(p), i)) \in 0..(l - 1)
  <2> HIDE DEF D
  <2>1. PICK R : R = BeforeIn(p)
    OBVIOUS
  <2>2. Ordered(R, D)
    BY <1>2, <2>1
  <2>3. /\ \A i, k \in D : Calc!Cardinality(EarlierIn(D, R, i)) = Calc!Cardinality(EarlierIn(D, R, k)) => i = k
        /\ \A n \in 0..(Calc!Cardinality(D) - 1) : \E i \in D : Calc!Cardinality(EarlierIn(D, R, i)) = n
        /\ \A i \in D : Calc!Cardinality(EarlierIn(D, R, i)) \in 0..(Calc!Cardinality(D) - 1)
    BY <1>1, <2>2, Ranks
  <2> QED BY <1>1, <2>1, <2>3
<1>5. \A i \in D : place(i) = Calc!Cardinality(EarlierIn(D, BeforeIn(p), i)) + 1
  BY <1>3
<1> HIDE DEF place
<1>6. \A n \in D : \E i \in D : place(i) = n
  <2> TAKE n \in D
  <2>1. n - 1 \in 0..(l - 1) /\ (n - 1) + 1 = n
    OBVIOUS
  <2>2. PICK i \in D : Calc!Cardinality(EarlierIn(D, BeforeIn(p), i)) = n - 1
    BY <1>4, <2>1
  <2> QED BY <1>5, <2>1, <2>2
<1>7. \A i \in D : place(i) \in D
  <2> TAKE i \in D
  <2>1. PICK n \in 0..(l - 1) : n = Calc!Cardinality(EarlierIn(D, BeforeIn(p), i))
    BY <1>4
  <2> QED BY <1>5, <2>1
<1>8. o = [n \in D |-> CHOOSE i \in D : place(i) = n]
  BY DEF OrderFor, place
<1> HIDE DEF o
<1>9. \A n \in D : o[n] \in D /\ place(o[n]) = n
  BY <1>6, <1>8
<1>10. \A i, k \in D : place(i) = place(k) => i = k
  <2> TAKE i, k \in D
  <2>1. PICK n \in 0..(l - 1), t \in 0..(l - 1) : /\ n = Calc!Cardinality(EarlierIn(D, BeforeIn(p), i))
                                                /\ t = Calc!Cardinality(EarlierIn(D, BeforeIn(p), k))
    BY <1>4
  <2>2. place(i) = n + 1 /\ place(k) = t + 1
    BY <1>5, <2>1
  <2>3. n + 1 = t + 1 => n = t
    BY <2>1
  <2> QED BY <1>4, <2>1, <2>2, <2>3
<1>11. \A i \in D : \E a \in D : o[a] = i
  <2> TAKE i \in D
  <2>1. place(i) \in D /\ o[place(i)] \in D /\ place(o[place(i)]) = place(i)
    BY <1>7, <1>9
  <2> QED BY <1>10, <2>1
<1>12. \A a, b \in D : o[a] = o[b] => a = b
  BY <1>9
<1>13. DOMAIN q = D /\ \A a \in D : q[a] = p[o[a]]
  BY DEF Arranged
<1> HIDE DEF q
<1>14. Named(q)
  BY <1>9, <1>13 DEF Named
<1>15. ASSUME NEW a \in D, NEW b \in D PROVE Calc!Before(q, a, b) <=> Calc!Before(p, o[a], o[b])
  <2>1. CASE a = b
    <3>1. ~Calc!Before(q, a, a)
      <4>1. <<a, a>> \notin BeforeIn(q)
        BY <1>13, <1>14, BeforeOrders DEF Ordered
      <4> QED BY <1>13, <4>1, BeforeIs
    <3>2. ~Calc!Before(p, o[a], o[a])
      BY <1>2, <1>9, BeforeIs DEF Ordered
    <3> QED BY <2>1, <3>1, <3>2
  <2>2. CASE a # b
    <3>1. ~Calc!SameKey(p[o[a]], p[o[b]])
      BY <1>9, <1>12, <2>2
    <3>2. Calc!Before(q, a, b) <=> Calc!Precedes(p[o[a]], p[o[b]])
      BY <1>13, <3>1 DEF Calc!Before
    <3>3. Calc!Before(p, o[a], o[b]) <=> Calc!Precedes(p[o[a]], p[o[b]])
      BY <3>1 DEF Calc!Before
    <3> QED BY <3>2, <3>3
  <2> QED BY <2>1, <2>2
<1> HIDE DEF D
<1>16. Reordered(q, p, o)
  BY <1>9, <1>11, <1>12, <1>13, <1>14, <1>15 DEF Reordered, D
<1> QED BY <1>16 DEF q, o

OrderOf(r) ==
  LET named == r.named
      place(i) == Calc!Cardinality({j \in DOMAIN named : Calc!Before(named, j, i)}) + 1
      inTurn == [n \in DOMAIN named |-> CHOOSE i \in DOMAIN named : place(i) = n]
      sorted(values) == [n \in DOMAIN named |-> values[inTurn[n]]]
      other == Calc!Outcome(sorted(named), r.model, r.window, r.amount, r.seen)
  IN  (\A i, j \in DOMAIN named : Calc!SameKey(named[i], named[j]) => i = j) =>
        /\ other.states = sorted(r.states)
        /\ other.weights = sorted(r.weights)
        /\ other.amounts = sorted(r.amounts)

LEMMA RunOrder ==
  ASSUME NEW r, NEW p \in Calc!Payloads, NEW m, NEW w, NEW amount, NEW current, Run(r, p, m, w, amount, current)
  PROVE  OrderOf(r)
<1> DEFINE o == OrderFor(p)
           q == Arranged(p, p, o)
           s == Calc!Outcome(q, m, w, amount, current)
<1>1. /\ r.model = m /\ r.window = w /\ r.amount = amount /\ r.named = p /\ r.seen = current
  BY RunIs
<1>2. /\ Named(p) /\ Model(m) /\ amount \in Int /\ r = Calc!Outcome(p, m, w, amount, current)
  BY DEF Run
<1>3. PICK l \in Nat : DOMAIN p = 1..l
  BY PayloadNamed
<1>4. ASSUME \A i, j \in DOMAIN p : Calc!SameKey(p[i], p[j]) => i = j
      PROVE  /\ s.states = Arranged(r.states, p, o)
             /\ s.weights = Arranged(r.weights, p, o)
             /\ s.amounts = Arranged(r.amounts, p, o)
  <2>1. Reordered(q, p, o)
    BY <1>2, <1>3, <1>4, OrderSorts
  <2> HIDE DEF o, q
  <2> QED BY <1>2, <2>1, OutcomeAlike
<1>5. OrderOf(r) <=>
        ((\A i, j \in DOMAIN p : Calc!SameKey(p[i], p[j]) => i = j) =>
          /\ s.states = Arranged(r.states, p, o)
          /\ s.weights = Arranged(r.weights, p, o)
          /\ s.amounts = Arranged(r.amounts, p, o))
  BY <1>1 DEF OrderOf, OrderFor, Arranged
<1> HIDE DEF s, o
<1> QED BY <1>4, <1>5

\* --- The whole of it: a run is made once, of what is there.
CalcInv ==
  /\ effective \subseteq Clicks
  /\ models = {} \/ \E m : Model(m) /\ models = {m}
  /\ \/ calculation = Calc!Nothing
     \/ \E p \in Calc!Payloads : \E m \in models : \E w \in Windows : \E amount \in Subjects :
           calculation = Calc!Outcome(p, m, w, amount, effective) /\ Calc!Complete(calculation)

LEMMA CalcInit == Calc!Init => CalcInv
BY DEF Calc!Init, CalcInv

LEMMA CalcNext == CalcInv /\ Calc!Next => CalcInv'
<1> SUFFICES ASSUME CalcInv, Calc!Next PROVE CalcInv'
  OBVIOUS
<1>1. ASSUME NEW s \in Calc!Strategies, Calc!Register(s) PROVE CalcInv'
  <2>1. calculation = Calc!Nothing
    BY <1>1 DEF CalcInv, Calc!Register
  <2>2. PICK m : m = [strategy |-> s, basis |-> Calc!Basis(s)]
    OBVIOUS
  <2>3. Model(m)
    BY <2>2 DEF Model
  <2>4. models' = {m} /\ effective' = effective /\ calculation' = calculation
    BY <1>1, <2>2 DEF Calc!Register
  <2> QED BY <2>1, <2>3, <2>4 DEF CalcInv
<1>2. ASSUME NEW c \in effective, Calc!Revise(c) PROVE CalcInv'
  BY <1>2 DEF CalcInv, Calc!Revise
<1>3. CASE Calc!Calculate
  <2>1. PICK m \in models, p \in Calc!Payloads, w \in Windows, amount \in Subjects :
          /\ Calc!Complete(Calc!Outcome(p, m, w, amount, effective))
          /\ calculation' = Calc!Outcome(p, m, w, amount, effective)
    BY <1>3 DEF Calc!Calculate
  <2>2. models' = models /\ effective' = effective
    BY <1>3 DEF Calc!Calculate
  <2> QED BY <2>1, <2>2 DEF CalcInv
<1> QED BY <1>1, <1>2, <1>3 DEF Calc!Next

LEMMA CalcGives ==
  ASSUME CalcInv PROVE Calc!CalculationTypeOK /\ Calc!CreditIsExact /\ Calc!SplitFollowsModel /\ Calc!OrderIsNothing
<1>0. Calc!Cardinality(models) <= 1
  <2>1. CASE models = {}
    BY <2>1, FS_EmptySet, SizesOfCalc
  <2>2. ASSUME NEW m, models = {m} PROVE Calc!Cardinality(models) <= 1
    <3>1. Calc!Cardinality({m}) = 1
      BY FS_Singleton, SizesOfCalc
    <3> QED BY <2>2, <3>1
  <2> QED BY <2>1, <2>2 DEF CalcInv
<1>1. CASE calculation = Calc!Nothing
  <2>1. calculation.run = FALSE
    BY <1>1 DEF Calc!Nothing
  <2> QED BY <1>0, <2>1 DEF CalcInv, Calc!CalculationTypeOK, Calc!CreditIsExact, Calc!SplitFollowsModel,
                            Calc!OrderIsNothing, Calc!Ran
<1>2. CASE calculation # Calc!Nothing
  <2>0. PICK p \in Calc!Payloads : \E m \in models : \E w \in Windows : \E amount \in Subjects :
           calculation = Calc!Outcome(p, m, w, amount, effective) /\ Calc!Complete(calculation)
    BY <1>2 DEF CalcInv
  <2>1. PICK m \in models, w \in Windows, amount \in Subjects :
           calculation = Calc!Outcome(p, m, w, amount, effective) /\ Calc!Complete(calculation)
    BY <2>0
  <2>2. Model(m)
    BY DEF CalcInv
  <2>3. Named(p) /\ amount \in Int
    BY PayloadNamed, CalcBounds DEF Calc!CalculationConstants
  <2>4. PICK r : r = calculation
    OBVIOUS
  <2>5. Run(r, p, m, w, amount, effective)
    BY <2>1, <2>2, <2>3, <2>4 DEF Run
  <2>6. ExactOf(r) /\ SplitOf(r) /\ OrderOf(r)
    BY <2>5, RunExact, RunSplit, RunOrder
  <2>7. /\ r.run /\ r.model = m /\ r.named = p /\ r.weights = Weights4(p, m, w, effective)
        /\ r.amounts = Calc!Allocations(p, amount, r.weights)
    BY <2>5, RunIs
  <2>8. PICK E : Weighing(r.weights, p) /\ Calc!TotalOf(r.weights) = IF E = {} THEN 0 ELSE Unit
    BY <2>5, RunFacts
  <2>9. r.weights \in [DOMAIN p -> 0..Unit]
    <3>1. r.weights = [i \in DOMAIN r.weights |-> r.weights[i]]
      BY <2>7 DEF Weights4, Calc!Weights
    <3> QED BY <2>8, <3>1 DEF Weighing
  <2>10. r.amounts \in [DOMAIN p -> Int]
    <3>1. Calc!TotalOf(r.weights) \in {0, Unit}
      BY <2>8
    <3>2. \A i \in DOMAIN p : r.amounts[i] \in Int
      BY <2>3, <2>7, <2>8, <3>1, AmountsExact
    <3>3. r.amounts = [i \in DOMAIN p |-> r.amounts[i]]
      BY <2>7 DEF Calc!Allocations
    <3> QED BY <3>2, <3>3
  <2>11. Calc!CalculationTypeOK
    BY <1>0, <2>4, <2>7, <2>9, <2>10 DEF CalcInv, Calc!CalculationTypeOK
  <2>12. Calc!CreditIsExact
    BY <2>4, <2>6 DEF Calc!CreditIsExact, Calc!Ran, ExactOf
  <2>13. Calc!SplitFollowsModel
    <3>1. SplitOf(calculation)
      BY <2>4, <2>6
    <3> QED BY <3>1 DEF Calc!SplitFollowsModel, Calc!Ran, SplitOf
  <2>14. Calc!OrderIsNothing
    BY <2>4, <2>6 DEF Calc!OrderIsNothing, Calc!Ran, OrderOf
  <2> QED BY <2>11, <2>12, <2>13, <2>14
<1> QED BY <1>1, <1>2

------------------------------------------------------------------------------
\* The parts together: the chosen one takes a step of its own, the others rest.
CrmCreditInv ==
  /\ part \in Parts
  /\ LookupInv /\ StepsInv /\ AdmitInv /\ ConvergeInv /\ EvidenceInv /\ CalcInv

LEMMA CrmCreditInit == MCInit => CrmCreditInv
BY StepBounds, LookupInitInv, StepsInitInv, AdmitInitInv, ConvergeInit, EvidenceInit, CalcInit
   DEF MCInit, CrmCreditInv

LEMMA CrmCreditNext == CrmCreditInv /\ [MCNext]_vars => CrmCreditInv'
<1> SUFFICES ASSUME CrmCreditInv, [MCNext]_vars PROVE CrmCreditInv'
  OBVIOUS
<1>1. part' = part
  BY DEF MCNext, vars
<1>2. [Admit!Next]_(Admit!vars)
  BY DEF MCNext, vars, ofAdmit, Admit!vars
<1>3. AdmitInv'
  BY <1>2, AdmitNextInv DEF CrmCreditInv
<1>4. [Converge!Next]_(Converge!vars)
  BY DEF MCNext, vars, ofConverge, Converge!vars
<1>5. ConvergeInv'
  BY <1>4, ConvergeNext DEF CrmCreditInv
<1>6. [Credit!Next]_(Credit!vars)
  BY DEF MCNext, vars, ofCredit, Credit!vars, Credit!ledger
<1>7. EvidenceInv'
  BY <1>6, EvidenceNext DEF CrmCreditInv
<1>8. Calc!Next \/ UNCHANGED Calc!vars
  BY DEF MCNext, vars, ofCalc, Calc!vars
<1>9. CalcInv'
  <2>1. CASE UNCHANGED Calc!vars
    BY <2>1 DEF CrmCreditInv, CalcInv, Calc!vars
  <2> QED BY <1>8, <2>1, CalcNext DEF CrmCreditInv
<1>10. [Steps!Next]_(Steps!vars)
  BY DEF MCNext, vars, ofSteps, Steps!vars
<1>11. StepsInv'
  BY <1>10, StepBounds, StepsNextInv DEF CrmCreditInv
<1>12. [Lookup!Next]_(Lookup!vars)
  BY DEF MCNext, vars, ofLookup, Lookup!vars
<1>13. LookupInv'
  BY <1>12, LookupNextInv DEF CrmCreditInv
<1> QED BY <1>1, <1>3, <1>5, <1>7, <1>9, <1>11, <1>13 DEF CrmCreditInv

LEMMA CrmCreditHolds == MCSpec => []CrmCreditInv
BY CrmCreditInit, CrmCreditNext, PTL DEF MCSpec

LEMMA CrmCreditGives ==
  CrmCreditInv =>
    /\ part \in Parts
    /\ Lookup!LookupTypeOK /\ Steps!AutomationTypeOK
    /\ Admit!AdmissionTypeOK /\ Converge!ConvergenceTypeOK /\ Credit!EvidenceTypeOK
    /\ Calc!CalculationTypeOK
    /\ Converge!PairsMeet /\ Credit!CreditSurvivesMerges /\ Credit!CreditIsGrounded
    /\ Calc!CreditIsExact /\ Calc!SplitFollowsModel /\ Calc!OrderIsNothing
BY LookupGives, StepsGive, AdmitGives, ConvergeGive, EvidenceGive, CalcGives DEF CrmCreditInv

\* Whatever jobs, merges and revocations overlap, an active link meets the
\* evidence it is bound to, a lead has the credit that its evidence and that of
\* the leads merged into it give, and no other, and their event links if no merge
\* on the way was made while CRM events were not captured; an event's amount is
\* split to the last micro, as its model says, in whatever order its evidence was
\* named (hooks.py and service.py of the contact center's crm module, links.py of
\* the base one, attribution_calculation_service.py).
THEOREM CrmCreditIsKept == MCSpec => []CreditIsKept
<1>1. CrmCreditInv => CreditIsKept
  BY CrmCreditGives DEF CreditIsKept
<1> QED BY <1>1, CrmCreditHolds, PTL

\* A click is answered once, and the run of a lookup that is active has a job
\* that may end it, whatever retries, reprocessing and erasure overlap
\* (click_enrichment.py, _click_lookup_job).
THEOREM CrmLookupKeepsWord == MCSpec => []LookupKeepsWord
<1>1. CrmCreditInv => LookupKeepsWord
  BY LookupGives DEF CrmCreditInv, LookupKeepsWord
<1> QED BY <1>1, CrmCreditHolds, PTL

\* One demand becomes one business and one entry one lead, whoever admits it; what
\* a failed protection holds back stays held, and no entry is left without a
\* job.  A lead is enrolled once, gets one message of a step, and none that a
\* person or a deactivation came before (crm_admission.py, lead_projection.py,
\* cc_automation models).
THEOREM CrmAdmissionKeepsWord == MCSpec => []AdmissionKeepsWord
<1>1. CrmCreditInv => AdmissionKeepsWord
  BY AdmitGives, StepsGive DEF CrmCreditInv, AdmissionKeepsWord
<1> QED BY <1>1, CrmCreditHolds, PTL

==============================================================================
