------------------------ MODULE ManagedResourceProofs ------------------------
(***************************************************************************)
(* What the document says agrees with the cluster, for every kind, every   *)
(* number of handlers, hosts and faults: the safety properties of          *)
(* ManagedResource.                                                        *)
(***************************************************************************)
EXTENDS ManagedResource, TLAPS

WorkerType == [job : DOMAIN StepsOf, at : Steps, state : States, host : Hosts]
LockType == Workers \cup {Free, Nobody}
DocType == [state : States, phase : Phases, host : Hosts, lock : LockType]
CertificateType == [host : Hosts \cup {None}, ready : BOOLEAN]

\* A handler that still has something to do to the cluster or the phase.
Working(w) == Live(w) /\ ~Publishing(w)
Cleared == {"certificate", "revoke", "conclude", "relock"}

\* What is true of a handler at work: the phase can only have moved to Deleting, and only
\* with it can the host have changed; an object it has checked is as it found it.
Sound(w) ==
    /\ worker[w].job = "creating" =>
         /\ doc.phase \in {"Creating", "Deleting"}
         /\ doc.phase = "Creating" =>
              /\ worker[w].host = doc.host
              /\ worker[w].at = "conclude" => object = doc.host
         /\ rules.issues /\ worker[w].at \in {"get", "create"}
              /\ worker[w].host \in CustomHosts => certificate.ready
    /\ worker[w].job = "deleting" =>
         /\ doc.phase = "Deleting"
         /\ worker[w].at \in Cleared => object = None

Alone == \A v, w \in Workers : Working(v) /\ Working(w) => v = w
Held == ~SlowHandlers /\ rules.looksAtLock =>
            \A w \in Workers : Working(w) => doc.lock = w
AllSound == \A w \in Workers : Working(w) => Sound(w)
ObjectOfPhase ==
    /\ doc.phase = "Creating" => object \in {None, doc.host}
    /\ doc.phase = "Created" => object = doc.host
    /\ doc.phase \in {"Deleted", "None"} => object = None
CertificateOfObject == rules.issues /\ object \in CustomHosts => certificate.ready

Guarded == Alone /\ Held /\ AllSound /\ ObjectOfPhase /\ CertificateOfObject

NeverMet == ~disturbed => \A v, w \in Workers : Live(v) /\ Live(w) => v = w
CertificateThere == certificate.ready => certificate.host # None

ResourceInv == TaskTypeOK /\ NeverMet /\ CertificateThere /\ (Excluded => Guarded)

USE DEF WorkerType, LockType, DocType, CertificateType

-----------------------------------------------------------------------------
(* Facts *)

LEMMA RulesKept == ASSUME kind' = kind PROVE rules' = rules
BY DEF rules

LEMMA RulesLiving ==
  ASSUME TaskTypeOK
  PROVE  rules.inactiveFrom \subseteq Living /\ rules.deletedFrom \subseteq Living
BY ResourceBoundAssumption
   DEF TaskTypeOK, rules, AllKinds, Living, RuntimeDomainRules, BucketDomainRules, WebsiteRules,
       CronTriggerRules, StorageUserRules

\* Certificates are removed where they are issued.
LEMMA IssuesCertified ==
  ASSUME TaskTypeOK, rules.issues
  PROVE  rules.certified
BY ResourceBoundAssumption
   DEF TaskTypeOK, rules, AllKinds, RuntimeDomainRules, BucketDomainRules, WebsiteRules,
       CronTriggerRules, StorageUserRules

LEMMA StepsTyped ==
  /\ DOMAIN StepsOf = {"none", "creating", "deleting"}
  /\ \A j \in DOMAIN StepsOf : StepsOf[j] \subseteq Steps
BY DEF StepsOf, Steps

\* Every way the records of the handlers change.
LEMMA GotoFacts ==
  ASSUME TaskTypeOK, NEW w \in Workers, NEW s \in Steps, Goto(w, s), s \in StepsOf[worker[w].job]
  PROVE  /\ worker' \in [Workers -> WorkerType]
         /\ \A v \in Workers : worker'[v].at \in StepsOf[worker'[v].job]
         /\ worker'[w].at = s
         /\ \A v \in Workers : /\ worker'[v].job = worker[v].job
                               /\ worker'[v].state = worker[v].state
                               /\ worker'[v].host = worker[v].host
                               /\ v # w => worker'[v] = worker[v]
BY DEF Goto, TaskTypeOK

LEMMA EndFacts ==
  ASSUME TaskTypeOK, NEW w \in Workers, End(w)
  PROVE  /\ worker' \in [Workers -> WorkerType]
         /\ \A v \in Workers : worker'[v].at \in StepsOf[worker'[v].job]
         /\ worker'[w].job = "none" /\ worker'[w].at = "idle"
         /\ \A v \in Workers : v # w => worker'[v] = worker[v]
<1>1. Idle \in WorkerType
  BY StepsTyped DEF Idle, Hosts, States, StepsOf
<1>2. Idle.job = "none" /\ Idle.at = "idle" /\ StepsOf["none"] = {"idle"}
  BY DEF Idle, StepsOf
<1>3. worker' = [worker EXCEPT ![w] = Idle]
  BY DEF End
<1> HIDE DEF Idle
<1> QED  BY <1>1, <1>2, <1>3 DEF TaskTypeOK
-----------------------------------------------------------------------------
(* The invariant *)

LEMMA InitInv == Init => ResourceInv
<1> SUFFICES ASSUME Init PROVE ResourceInv
  OBVIOUS
<1>1. Idle \in WorkerType /\ Idle.job = "none" /\ Idle.at = "idle" /\ StepsOf["none"] = {"idle"}
  BY StepsTyped DEF Idle, Hosts, States, StepsOf
<1>2. TaskTypeOK
  <2>1. worker \in [Workers -> WorkerType] /\ \A w \in Workers : worker[w].at \in StepsOf[worker[w].job]
    BY <1>1 DEF Init
  <2>2. doc \in DocType
    BY DEF Init, States, Phases, Hosts
  <2>3. object \in Hosts \cup {None} /\ published \in Hosts \cup {None} /\ certificate \in CertificateType
    BY DEF Init, NoCertificate
  <2>4. kind \in Kinds /\ disturbed \in BOOLEAN
    BY DEF Init
  <2>5. faults \in 0..MaxFaults /\ binds \in 0..MaxBinds
    BY ResourceBoundAssumption DEF Init
  <2> QED  BY <2>1, <2>2, <2>3, <2>4, <2>5 DEF TaskTypeOK
<1>3. \A w \in Workers : ~Live(w)
  BY <1>1 DEF Init, Live
<1>4. NeverMet /\ CertificateThere
  BY <1>3 DEF NeverMet, CertificateThere, Init, NoCertificate
<1>5. Guarded
  BY <1>3, ResourceHostAssumption DEF Guarded, Alone, Held, AllSound, Working, ObjectOfPhase, CertificateOfObject, Init
<1> QED  BY <1>2, <1>4, <1>5 DEF ResourceInv

\* A handler goes on, and only looks.
LEMMA Advance ==
  ASSUME ResourceInv, NEW w \in Workers, Live(w), ~Publishing(w),
         NEW s \in Steps, s \in StepsOf[worker[w].job], s \notin {"publish", "unpublish"},
         Goto(w, s), UNCHANGED <<kind, doc, cluster, counters>>,
         Guarded =>
           /\ worker[w].job = "creating" /\ doc.phase = "Creating" /\ s = "conclude"
                => object = doc.host
           /\ worker[w].job = "creating" /\ rules.issues /\ s \in {"get", "create"}
                /\ worker[w].host \in CustomHosts => certificate.ready
           /\ worker[w].job = "deleting" /\ s \in Cleared => object = None
  PROVE  ResourceInv'
<1>1. UNCHANGED <<kind, doc, rules, disturbed, faults, binds, object, certificate, published>>
  BY RulesKept DEF cluster, counters
<1>2. /\ worker' \in [Workers -> WorkerType]
      /\ \A v \in Workers : worker'[v].at \in StepsOf[worker'[v].job]
      /\ worker'[w].at = s
      /\ \A v \in Workers : /\ worker'[v].job = worker[v].job
                            /\ worker'[v].state = worker[v].state
                            /\ worker'[v].host = worker[v].host
                            /\ v # w => worker'[v] = worker[v]
  BY GotoFacts DEF ResourceInv
<1>3. TaskTypeOK'
  BY <1>1, <1>2 DEF ResourceInv, TaskTypeOK
<1>4. NeverMet' /\ CertificateThere'
  BY <1>1, <1>2 DEF NeverMet, CertificateThere, Live, ResourceInv
<1>5. ASSUME Excluded' PROVE Guarded'
  <2>1. Guarded
    BY <1>1, <1>5 DEF Excluded, ResourceInv
  <2>2. \A v \in Workers : Working(v)' => Working(v)
    BY <1>2 DEF Working, Live, Publishing
  <2>3. Alone' /\ Held'
    BY <1>1, <2>1, <2>2 DEF Guarded, Alone, Held
  <2>4. Working(w)
    BY DEF Working
  <2>5. AllSound'
    BY <1>1, <1>2, <2>1, <2>2, <2>4 DEF Guarded, AllSound, Sound
  <2> QED  BY <1>1, <2>1, <2>3, <2>5 DEF Guarded, ObjectOfPhase, CertificateOfObject
<1> QED  BY <1>3, <1>4, <1>5 DEF ResourceInv

\* A handler ends.
LEMMA Ending ==
  ASSUME ResourceInv, NEW w \in Workers, End(w), UNCHANGED <<kind, doc, object, certificate, binds>>,
         published' \in Hosts \cup {None}, faults' \in 0..MaxFaults,
         disturbed' \in BOOLEAN, disturbed => disturbed'
  PROVE  ResourceInv'
<1>1. UNCHANGED rules
  BY RulesKept
<1>2. /\ worker' \in [Workers -> WorkerType]
      /\ \A v \in Workers : worker'[v].at \in StepsOf[worker'[v].job]
      /\ worker'[w].job = "none"
      /\ \A v \in Workers : v # w => worker'[v] = worker[v]
  BY EndFacts DEF ResourceInv
<1>3. TaskTypeOK'
  BY <1>2 DEF ResourceInv, TaskTypeOK
<1>4. \A v \in Workers : (Live(v)' => Live(v)) /\ (Working(v)' => Working(v) /\ v # w)
  BY <1>2 DEF Live, Working, Publishing
<1>5. NeverMet' /\ CertificateThere'
  BY <1>4 DEF NeverMet, CertificateThere, ResourceInv
<1>6. ASSUME Excluded' PROVE Guarded'
  <2>1. Guarded
    BY <1>1, <1>6 DEF Excluded, ResourceInv, TaskTypeOK
  <2>2. Alone' /\ Held'
    BY <1>1, <1>4, <2>1 DEF Guarded, Alone, Held
  <2>3. AllSound'
    BY <1>1, <1>2, <1>4, <2>1 DEF Guarded, AllSound, Sound
  <2> QED  BY <1>1, <2>1, <2>2, <2>3 DEF Guarded, ObjectOfPhase, CertificateOfObject
<1> QED  BY <1>3, <1>5, <1>6 DEF ResourceInv
\* A handler starts: nobody else is at work, or the two have met.
LEMMA Claiming ==
  ASSUME ResourceInv, NEW w \in Workers, NEW job \in {"creating", "deleting"},
         NEW phase \in {"Creating", "Deleting"}, NEW first \in Steps,
         first \in StepsOf[job], first \in {"certificate", "get"},
         (job = "creating") <=> (phase = "Creating"),
         job = "deleting" => first = "get",
         job = "creating" /\ first = "get" => ~rules.issues \/ doc.host = Default,
         Claim(w, job, phase, first)
  PROVE  ResourceInv'
<1> DEFINE r == [job |-> job, at |-> first, state |-> doc.state, host |-> doc.host]
<1>1. UNCHANGED <<kind, rules, object, certificate, published, faults, binds>>
  BY RulesKept DEF Claim, cluster
<1>2. /\ doc' \in DocType /\ doc'.phase = doc.phase /\ doc'.host = doc.host /\ doc'.lock = w
      /\ doc.phase = phase /\ doc.lock = Free
  BY DEF Claim, ResourceInv, TaskTypeOK
<1>3. r \in WorkerType /\ worker' = [worker EXCEPT ![w] = r]
  BY StepsTyped DEF Claim, ResourceInv, TaskTypeOK
<1>4. r.job = job /\ r.at = first /\ r.host = doc.host
  OBVIOUS
<1> HIDE DEF r
<1>5. /\ worker' \in [Workers -> WorkerType]
      /\ \A v \in Workers : worker'[v].at \in StepsOf[worker'[v].job]
      /\ worker'[w] = r
      /\ \A v \in Workers : v # w => worker'[v] = worker[v]
  BY <1>3, <1>4 DEF ResourceInv, TaskTypeOK
<1>6. TaskTypeOK'
  BY <1>1, <1>2, <1>5 DEF ResourceInv, TaskTypeOK, Claim
<1>7. NeverMet' /\ CertificateThere'
  BY <1>1, <1>5 DEF NeverMet, CertificateThere, ResourceInv, Claim, Live
<1>8. ASSUME Excluded' PROVE Guarded'
  <2>1. Guarded
    BY <1>1, <1>8 DEF Excluded, ResourceInv, Claim
  <2>2. \A v \in Workers : ~Working(v)
    <3>1. CASE ~disturbed'
      BY <3>1 DEF Claim, Working
    <3>2. CASE ~SlowHandlers /\ rules.looksAtLock
      BY <3>2, <2>1, <1>2, ResourceLockAssumption DEF Guarded, Held
    <3> QED  BY <3>1, <3>2, <1>1, <1>8 DEF Excluded
  <2>3. \A v \in Workers : Working(v)' => v = w
    BY <2>2, <1>5 DEF Working, Live, Publishing
  <2>4. Alone' /\ Held'
    BY <1>1, <1>2, <2>3 DEF Alone, Held
  <2>5. Sound(w)'
    BY <1>1, <1>2, <1>4, <1>5, ResourceHostAssumption DEF Sound, Cleared
  <2>6. AllSound'
    BY <2>3, <2>5 DEF AllSound
  <2> QED  BY <1>1, <1>2, <2>1, <2>4, <2>6 DEF Guarded, ObjectOfPhase, CertificateOfObject
<1> QED  BY <1>6, <1>7, <1>8 DEF ResourceInv

\* Others write the document: the phase goes to Deleting, or its lock is free.
LEMMA Writing ==
  ASSUME ResourceInv, UNCHANGED <<kind, worker, object, certificate, published, disturbed, faults>>,
         binds' \in 0..MaxBinds, doc' \in DocType,
         Guarded =>
           \/ doc'.phase = "Deleting" /\ doc'.lock = doc.lock
           \/ doc'.phase = doc.phase /\ doc'.host = doc.host /\ doc'.lock = doc.lock
           \/ /\ rules.looksAtLock => doc.lock = Free
              /\ doc'.host = doc.host
              /\ \/ doc'.phase = "Deleting" /\ doc.phase \in Living
                 \/ doc'.phase = "Creating" /\ doc.phase = "Deleted"
           \/ doc'.phase = "None" /\ doc.phase = "Deleted"
           \/ /\ ~SlowHandlers => \A v \in Workers : ~(Live(v) /\ doc.lock = v)
              /\ doc'.phase = doc.phase /\ doc'.host = doc.host
  PROVE  ResourceInv'
<1>1. UNCHANGED rules
  BY RulesKept
<1>2. TaskTypeOK'
  BY DEF ResourceInv, TaskTypeOK
<1>3. NeverMet' /\ CertificateThere'
  BY DEF NeverMet, CertificateThere, ResourceInv, Live
<1>4. ASSUME Excluded' PROVE Guarded'
  <2>1. Guarded
    BY <1>1, <1>4 DEF Excluded, ResourceInv
  <2>2. \A v \in Workers : Working(v)' <=> Working(v)
    BY DEF Working, Live, Publishing
  <2>3. Alone'
    BY <2>1, <2>2 DEF Guarded, Alone
  <2>4. \A v \in Workers : Working(v) =>
          /\ worker[v].job \in {"creating", "deleting"}
          /\ doc.phase \in {"Creating", "Deleting"}
          /\ worker[v].job = "deleting" => doc.phase = "Deleting"
    BY <2>1, StepsTyped DEF Guarded, AllSound, Sound, Working, Live, ResourceInv, TaskTypeOK
  <2>5. Held'
    BY <1>1, <2>1, <2>2, <2>4, ResourceLockAssumption DEF Guarded, Held, Working
  <2>6. AllSound'
    BY <1>1, <2>1, <2>2, <2>4 DEF Guarded, AllSound, Sound, Living
  <2>7. ObjectOfPhase'
    BY <2>1 DEF Guarded, ObjectOfPhase, Living
  <2> QED  BY <1>1, <2>1, <2>3, <2>5, <2>6, <2>7 DEF Guarded, CertificateOfObject
<1> QED  BY <1>2, <1>3, <1>4 DEF ResourceInv
\* A handler changes the cluster, and goes on.
LEMMA Acting ==
  ASSUME ResourceInv, NEW w \in Workers, Live(w), ~Publishing(w),
         NEW s \in Steps, s \in StepsOf[worker[w].job], s \notin {"publish", "unpublish"},
         Goto(w, s), UNCHANGED <<kind, doc, published, counters>>,
         object' \in Hosts \cup {None}, certificate' \in CertificateType,
         certificate'.ready => certificate'.host # None,
         Guarded =>
           /\ CertificateOfObject'
           /\ \/ /\ worker[w].job = "creating" /\ s \notin {"get", "create"}
                 /\ doc.phase = "Creating" =>
                      /\ object' \in {None, doc.host}
                      /\ s = "conclude" => object' = doc.host
              \/ /\ worker[w].job = "deleting"
                 /\ s \in Cleared => object' = None
  PROVE  ResourceInv'
<1>1. UNCHANGED <<kind, doc, rules, disturbed, faults, binds, published>>
  BY RulesKept DEF counters
<1>2. /\ worker' \in [Workers -> WorkerType]
      /\ \A v \in Workers : worker'[v].at \in StepsOf[worker'[v].job]
      /\ worker'[w].at = s
      /\ \A v \in Workers : /\ worker'[v].job = worker[v].job
                            /\ worker'[v].state = worker[v].state
                            /\ worker'[v].host = worker[v].host
                            /\ v # w => worker'[v] = worker[v]
  BY GotoFacts DEF ResourceInv
<1>3. TaskTypeOK'
  BY <1>1, <1>2 DEF ResourceInv, TaskTypeOK
<1>4. NeverMet' /\ CertificateThere'
  BY <1>1, <1>2 DEF NeverMet, CertificateThere, Live, ResourceInv
<1>5. ASSUME Excluded' PROVE Guarded'
  <2>1. Guarded
    BY <1>1, <1>5 DEF Excluded, ResourceInv
  <2>2. \A v \in Workers : Working(v)' => Working(v)
    BY <1>2 DEF Working, Live, Publishing
  <2>3. Alone' /\ Held'
    BY <1>1, <2>1, <2>2 DEF Guarded, Alone, Held
  <2>4. Working(w) /\ \A v \in Workers : Working(v) => v = w
    BY <2>1 DEF Guarded, Alone, Working
  <2>5. Sound(w)
    BY <2>1, <2>4 DEF Guarded, AllSound
  <2>6. Sound(w)'
    BY <1>1, <1>2, <2>1, <2>5 DEF Sound
  <2>7. AllSound'
    BY <2>2, <2>4, <2>6 DEF AllSound
  <2>8. ObjectOfPhase'
    BY <1>1, <2>1, <2>5 DEF ObjectOfPhase, Sound
  <2> QED  BY <2>1, <2>3, <2>7, <2>8 DEF Guarded
<1> QED  BY <1>3, <1>4, <1>5 DEF ResourceInv

\* A handler writes the phase, and ends or goes on to publish.
LEMMA Concluding ==
  ASSUME ResourceInv, NEW w \in Workers, Live(w), ~Publishing(w),
         NEW from \in {"Creating", "Deleting"}, NEW to \in {"Created", "Deleted"},
         NEW s \in {"publish", "unpublish"}, s \in StepsOf[worker[w].job],
         WriteIfPhase(from, to), Goto(w, s) \/ End(w),
         UNCHANGED <<kind, cluster, counters>>,
         Guarded =>
           \/ from = "Creating" /\ to = "Created" /\ At(w, "creating", "conclude")
           \/ from = "Deleting" /\ to = "Deleted" /\ At(w, "deleting", "conclude")
  PROVE  ResourceInv'
<1>1. UNCHANGED <<kind, rules, disturbed, faults, binds, object, certificate, published>>
  BY RulesKept DEF cluster, counters
<1>2. s \in Steps
  BY StepsTyped DEF ResourceInv, TaskTypeOK
<1>3. /\ worker' \in [Workers -> WorkerType]
      /\ \A v \in Workers : worker'[v].at \in StepsOf[worker'[v].job]
      /\ worker'[w].at \in {s, "idle"}
      /\ \A v \in Workers : v # w => worker'[v] = worker[v]
      /\ worker'[w].job = worker[w].job \/ worker'[w].job = "none"
      /\ worker'[w].at = s \/ worker'[w].job = "none"
  BY <1>2, GotoFacts, EndFacts DEF ResourceInv
<1>4. /\ doc' \in DocType /\ doc'.host = doc.host
      /\ \/ doc.phase = from /\ doc'.phase = to
         \/ doc.phase # from /\ doc' = doc
  <2>1. CASE doc.phase = from
    <3>1. doc' = [doc EXCEPT !.phase = to, !.lock = Free]
      BY <2>1 DEF WriteIfPhase
    <3> QED  BY <2>1, <3>1 DEF ResourceInv, TaskTypeOK, Phases
  <2>2. CASE doc.phase # from
    BY <2>2 DEF WriteIfPhase, ResourceInv, TaskTypeOK
  <2> QED  BY <2>1, <2>2
<1>5. TaskTypeOK'
  BY <1>1, <1>3, <1>4 DEF ResourceInv, TaskTypeOK
<1>6. NeverMet' /\ CertificateThere'
  BY <1>1, <1>3 DEF NeverMet, CertificateThere, Live, ResourceInv
<1>7. ASSUME Excluded' PROVE Guarded'
  <2>1. Guarded
    BY <1>1, <1>7 DEF Excluded, ResourceInv
  <2>2. \A v \in Workers : Working(v) => v = w
    BY <2>1 DEF Guarded, Alone, Working
  <2>3. \A v \in Workers : ~Working(v)'
    BY <1>3, <2>2 DEF Working, Live, Publishing
  <2>4. Alone' /\ Held' /\ AllSound'
    BY <2>3 DEF Alone, Held, AllSound
  <2>5. Sound(w)
    BY <2>1 DEF Guarded, AllSound, Working
  <2>6. ObjectOfPhase'
    BY <1>1, <1>4, <2>1, <2>5 DEF Guarded, ObjectOfPhase, Sound, At, Cleared
  <2> QED  BY <1>1, <2>1, <2>4, <2>6 DEF Guarded, CertificateOfObject
<1> QED  BY <1>5, <1>6, <1>7 DEF ResourceInv

LEMMA RelockStep ==
  ASSUME ResourceInv, NEW w \in Workers, Relock(w)
  PROVE  ResourceInv'
<1>1. UNCHANGED <<kind, rules, disturbed, faults, binds, object, certificate, published>> /\ End(w)
  BY RulesKept DEF Relock, cluster, counters
<1>2. /\ worker' \in [Workers -> WorkerType]
      /\ \A v \in Workers : worker'[v].at \in StepsOf[worker'[v].job]
      /\ worker'[w].job = "none"
      /\ \A v \in Workers : v # w => worker'[v] = worker[v]
  BY <1>1, EndFacts DEF ResourceInv
<1>3. doc' \in DocType /\ doc'.phase = doc.phase /\ doc'.host = doc.host
  BY DEF Relock, ResourceInv, TaskTypeOK
<1>4. Live(w) /\ ~Publishing(w)
  <2>1. worker[w].job # "none"
    BY DEF Relock, ResourceInv, TaskTypeOK, StepsOf
  <2> QED  BY <2>1 DEF Relock, Live, Publishing
<1>5. TaskTypeOK'
  BY <1>1, <1>2, <1>3 DEF ResourceInv, TaskTypeOK
<1>6. NeverMet' /\ CertificateThere'
  BY <1>1, <1>2 DEF NeverMet, CertificateThere, Live, ResourceInv
<1>7. ASSUME Excluded' PROVE Guarded'
  <2>1. Guarded
    BY <1>1, <1>7 DEF Excluded, ResourceInv
  <2>2. \A v \in Workers : ~Working(v)'
    BY <1>2, <1>4, <2>1 DEF Guarded, Alone, Working, Live, Publishing
  <2>3. Alone' /\ Held' /\ AllSound'
    BY <2>2 DEF Alone, Held, AllSound
  <2> QED  BY <1>1, <1>3, <2>1, <2>3 DEF Guarded, ObjectOfPhase, CertificateOfObject
<1> QED  BY <1>5, <1>6, <1>7 DEF ResourceInv
-----------------------------------------------------------------------------
(* The actions *)

LEMMA WorkingAt ==
  ASSUME NEW w \in Workers, NEW job \in {"creating", "deleting"}, NEW step, At(w, job, step),
         step \notin {"publish", "unpublish"}
  PROVE  Live(w) /\ ~Publishing(w) /\ Working(w) /\ worker[w].job = job
BY DEF At, Live, Publishing, Working

LEMMA ClaimStep ==
  ASSUME ResourceInv, NEW w \in Workers, ClaimCreating(w) \/ ClaimDeleting(w)
  PROVE  ResourceInv'
<1>1. CASE ClaimCreating(w)
  <2> DEFINE first == IF rules.issues /\ doc.host # Default THEN "certificate" ELSE "get"
  <2>1. first \in Steps /\ first \in StepsOf["creating"] /\ first \in {"certificate", "get"}
    BY DEF Steps, StepsOf
  <2>2. first = "get" => ~rules.issues \/ doc.host = Default
    OBVIOUS
  <2>3. Claim(w, "creating", "Creating", first)
    BY <1>1 DEF ClaimCreating
  <2> HIDE DEF first
  <2> QED  BY <2>1, <2>2, <2>3, Claiming
<1>2. CASE ClaimDeleting(w)
  <2>1. "get" \in Steps /\ "get" \in StepsOf["deleting"]
    BY DEF Steps, StepsOf
  <2>2. Claim(w, "deleting", "Deleting", "get")
    BY <1>2 DEF ClaimDeleting
  <2> QED  BY <2>1, <2>2, Claiming
<1> QED  BY <1>1, <1>2

LEMMA EndingQuietly ==
  ASSUME ResourceInv, NEW w \in Workers, End(w), UNCHANGED <<kind, doc, cluster, counters>>
  PROVE  ResourceInv'
BY Ending DEF ResourceInv, TaskTypeOK, cluster, counters

LEMMA CreatingStep ==
  ASSUME ResourceInv, NEW w \in Workers, Creating(w)
  PROVE  ResourceInv'
<1>1. CASE CreatingCertificate(w)
  <2> DEFINE s == CASE certificate.host = None -> "issue"
                    [] certificate.ready -> "get"
                    [] OTHER -> "relock"
  <2>1. s \in {"issue", "get", "relock"} /\ (s = "get" => certificate.ready)
    BY DEF ResourceInv, CertificateThere
  <2>2. Goto(w, s) /\ UNCHANGED <<kind, doc, cluster, counters>> /\ At(w, "creating", "certificate")
    BY <1>1 DEF CreatingCertificate
  <2> HIDE DEF s
  <2>3. s \in Steps /\ s \in StepsOf[worker[w].job]
    BY <2>1, <2>2 DEF Steps, StepsOf, At
  <2> QED  BY <2>1, <2>2, <2>3, WorkingAt, Advance
<1>2. CASE CreatingIssue(w)
  <2>1. UNCHANGED <<kind, doc, object, published, counters>> /\ At(w, "creating", "issue")
    BY <1>2 DEF CreatingIssue
  <2>2. CASE certificate.host = None
    <3>1. certificate' = [host |-> worker[w].host, ready |-> FALSE] /\ Goto(w, "relock")
      BY <1>2, <2>2 DEF CreatingIssue
    <3>2. certificate' \in CertificateType /\ ~certificate'.ready /\ object' \in Hosts \cup {None}
      BY <2>1, <3>1 DEF ResourceInv, TaskTypeOK
    <3>3. "relock" \in Steps /\ "relock" \in StepsOf[worker[w].job]
      BY <2>1 DEF Steps, StepsOf, At
    <3>4. Guarded => CertificateOfObject'
      BY <2>1, <2>2, RulesKept DEF Guarded, CertificateOfObject, ResourceInv, CertificateThere
    <3>5. Guarded /\ doc.phase = "Creating" => object' \in {None, doc.host}
      BY <2>1 DEF Guarded, ObjectOfPhase
    <3> QED  BY <2>1, <3>1, <3>2, <3>3, <3>4, <3>5, WorkingAt, Acting
  <2>3. CASE certificate.host # None
    <3>1. certificate' = certificate /\ End(w)
      BY <1>2, <2>3 DEF CreatingIssue
    <3> QED  BY <2>1, <3>1, EndingQuietly DEF cluster
  <2> QED  BY <2>2, <2>3
<1>3. CASE CreatingGet(w)
  <2> DEFINE s == IF object = None THEN "create" ELSE "conclude"
  <2>1. s \in {"create", "conclude"} /\ (s = "conclude" => object # None)
    OBVIOUS
  <2>2. Goto(w, s) /\ UNCHANGED <<kind, doc, cluster, counters>> /\ At(w, "creating", "get")
    BY <1>3 DEF CreatingGet
  <2> HIDE DEF s
  <2>3. s \in Steps /\ s \in StepsOf[worker[w].job]
    BY <2>1, <2>2 DEF Steps, StepsOf, At
  <2>4. Guarded => Sound(w)
    BY <2>2, WorkingAt DEF Guarded, AllSound
  <2>5. Guarded => (doc.phase = "Creating" /\ s = "conclude" => object = doc.host)
    BY <2>1 DEF Guarded, ObjectOfPhase
  <2>6. Guarded => (rules.issues /\ worker[w].host \in CustomHosts => certificate.ready)
    BY <2>2, <2>4 DEF Sound, At
  <2> QED  BY <2>1, <2>2, <2>3, <2>5, <2>6, WorkingAt, Advance
<1>4. CASE CreatingCreate(w)
  <2>1. UNCHANGED <<kind, doc, certificate, published, counters>> /\ At(w, "creating", "create")
    BY <1>4 DEF CreatingCreate
  <2>2. CASE object = None \/ kind = "StorageUser"
    <3>1. object' = worker[w].host /\ Goto(w, "conclude")
      BY <1>4, <2>2 DEF CreatingCreate
    <3>2. object' \in Hosts \cup {None} /\ certificate' \in CertificateType /\ (certificate'.ready => certificate'.host # None)
      BY <2>1, <3>1 DEF ResourceInv, TaskTypeOK, CertificateThere
    <3>3. "conclude" \in Steps /\ "conclude" \in StepsOf[worker[w].job]
      BY <2>1 DEF Steps, StepsOf, At
    <3>4. Guarded => Sound(w)
      BY <2>1, WorkingAt DEF Guarded, AllSound
    <3>5. Guarded => CertificateOfObject'
      BY <2>1, <3>1, <3>4, RulesKept DEF CertificateOfObject, Sound, At
    <3>6. Guarded /\ doc.phase = "Creating" => object' = doc.host
      BY <2>1, <3>1, <3>4 DEF Sound, At
    <3> QED  BY <2>1, <3>1, <3>2, <3>3, <3>5, <3>6, WorkingAt, Acting
  <2>3. CASE ~(object = None \/ kind = "StorageUser")
    <3>1. object' = object /\ End(w)
      BY <1>4, <2>3 DEF CreatingCreate
    <3> QED  BY <2>1, <3>1, EndingQuietly DEF cluster
  <2> QED  BY <2>2, <2>3
<1>5. CASE CreatingConclude(w)
  <2>1. /\ At(w, "creating", "conclude") /\ WriteIfPhase("Creating", "Created")
        /\ Goto(w, "publish") \/ End(w)
        /\ UNCHANGED <<kind, cluster, counters>>
    BY <1>5 DEF CreatingConclude
  <2>2. "publish" \in StepsOf[worker[w].job]
    BY <2>1 DEF StepsOf, At
  <2> QED  BY <2>1, <2>2, WorkingAt, Concluding
<1>6. CASE Publish(w)
  <2>1. worker[w].host \in Hosts
    BY DEF ResourceInv, TaskTypeOK
  <2> QED  BY <1>6, <2>1, Ending DEF Publish, ResourceInv, TaskTypeOK, counters
<1>7. CASE BucketDomainGone(w)
  BY <1>7, EndingQuietly DEF BucketDomainGone
<1> QED  BY <1>1, <1>2, <1>3, <1>4, <1>5, <1>6, <1>7 DEF Creating

LEMMA DeletingStep ==
  ASSUME ResourceInv, NEW w \in Workers, Deleting(w)
  PROVE  ResourceInv'
<1>0. AfterObject(w) \in {"certificate", "conclude"}
  BY DEF AfterObject
<1>1. CASE DeletingGet(w)
  <2> DEFINE s == IF object = None /\ kind # "StorageUser" THEN AfterObject(w) ELSE "delete"
  <2>1. s \in {"certificate", "conclude", "delete"} /\ (s # "delete" => object = None)
    BY <1>0
  <2>2. Goto(w, s) /\ UNCHANGED <<kind, doc, cluster, counters>> /\ At(w, "deleting", "get")
    BY <1>1 DEF DeletingGet
  <2> HIDE DEF s
  <2>3. s \in Steps /\ s \in StepsOf[worker[w].job]
    BY <2>1, <2>2 DEF Steps, StepsOf, At
  <2> QED  BY <2>1, <2>2, <2>3, WorkingAt, Advance DEF Cleared
<1>2. CASE DeletingDelete(w)
  <2> DEFINE s == AfterObject(w)
  <2>1. /\ UNCHANGED <<kind, doc, certificate, published, counters>>
        /\ At(w, "deleting", "delete") /\ object' = None
        /\ IF object = None THEN End(w) ELSE Goto(w, s)
    BY <1>2 DEF DeletingDelete
  <2> HIDE DEF s
  <2>2. CASE object = None
    BY <2>1, <2>2, EndingQuietly DEF cluster
  <2>3. CASE object # None
    <3>1. s \in Steps /\ s \in StepsOf[worker[w].job] /\ s \notin {"publish", "unpublish"}
      BY <1>0, <2>1 DEF s, Steps, StepsOf, At
    <3>2. certificate' \in CertificateType /\ (certificate'.ready => certificate'.host # None)
      BY <2>1 DEF ResourceInv, TaskTypeOK, CertificateThere
    <3>3. CertificateOfObject'
      BY <2>1, ResourceHostAssumption DEF CertificateOfObject
    <3> QED  BY <2>1, <2>3, <3>1, <3>2, <3>3, WorkingAt, Acting
  <2> QED  BY <2>2, <2>3
<1>3. CASE DeletingCertificate(w)
  <2> DEFINE s == IF certificate.host = None THEN "conclude" ELSE "revoke"
  <2>1. s \in {"conclude", "revoke"}
    OBVIOUS
  <2>2. Goto(w, s) /\ UNCHANGED <<kind, doc, cluster, counters>> /\ At(w, "deleting", "certificate")
    BY <1>3 DEF DeletingCertificate
  <2> HIDE DEF s
  <2>3. s \in Steps /\ s \in StepsOf[worker[w].job]
    BY <2>1, <2>2 DEF Steps, StepsOf, At
  <2>4. Guarded => object = None
    BY <2>2, WorkingAt DEF Guarded, AllSound, Sound, At, Cleared
  <2> QED  BY <2>1, <2>2, <2>3, <2>4, WorkingAt, Advance
<1>4. CASE DeletingRevoke(w)
  <2>1. /\ UNCHANGED <<kind, doc, object, published, counters>>
        /\ At(w, "deleting", "revoke") /\ certificate' = NoCertificate
        /\ IF certificate.host = None THEN End(w) ELSE Goto(w, "relock")
    BY <1>4 DEF DeletingRevoke
  <2>2. CASE certificate.host = None
    <3>1. certificate' = certificate
      BY <2>1, <2>2 DEF NoCertificate, ResourceInv, TaskTypeOK, CertificateThere
    <3> QED  BY <2>1, <2>2, <3>1, EndingQuietly DEF cluster
  <2>3. CASE certificate.host # None
    <3>1. "relock" \in Steps /\ "relock" \in StepsOf[worker[w].job]
      BY <2>1 DEF Steps, StepsOf, At
    <3>2. Guarded => object = None
      BY <2>1, WorkingAt DEF Guarded, AllSound, Sound, At, Cleared
    <3>3. certificate' \in CertificateType /\ ~certificate'.ready /\ object' \in Hosts \cup {None}
      BY <2>1 DEF NoCertificate, ResourceInv, TaskTypeOK
    <3>4. Guarded => CertificateOfObject' /\ object' = None
      BY <2>1, <3>2, ResourceHostAssumption DEF CertificateOfObject
    <3> QED  BY <2>1, <2>3, <3>1, <3>3, <3>4, WorkingAt, Acting
  <2> QED  BY <2>2, <2>3
<1>5. CASE DeletingConclude(w)
  <2>1. /\ At(w, "deleting", "conclude") /\ WriteIfPhase("Deleting", "Deleted")
        /\ Goto(w, "unpublish") \/ End(w)
        /\ UNCHANGED <<kind, cluster, counters>>
    BY <1>5 DEF DeletingConclude
  <2>2. "unpublish" \in StepsOf[worker[w].job]
    BY <2>1 DEF StepsOf, At
  <2> QED  BY <2>1, <2>2, WorkingAt, Concluding
<1>6. CASE Unpublish(w)
  BY <1>6, Ending DEF Unpublish, ResourceInv, TaskTypeOK, counters
<1> QED  BY <1>1, <1>2, <1>3, <1>4, <1>5, <1>6 DEF Deleting

LEMMA ThrowStep ==
  ASSUME ResourceInv, NEW w \in Workers, Throw(w)
  PROVE  ResourceInv'
<1>1. faults' \in 0..MaxFaults
  BY ResourceBoundAssumption DEF Throw, ResourceInv, TaskTypeOK
<1>2. disturbed' \in BOOLEAN /\ (disturbed => disturbed')
  BY DEF Throw, ResourceInv, TaskTypeOK
<1>3. End(w) /\ UNCHANGED <<kind, doc, object, certificate, binds>> /\ published' \in Hosts \cup {None}
  BY DEF Throw, cluster, ResourceInv, TaskTypeOK
<1> QED  BY <1>1, <1>2, <1>3, Ending

\* The ticks, the requests, the cluster and the clock leave the handlers alone.
LEMMA OtherStep ==
  ASSUME ResourceInv, Tick \/ Request \/ CertificateReady \/ LockExpires
  PROVE  ResourceInv'
<1>1. ASSUME NEW state \in States, NEW from \in SUBSET Phases, NEW phase \in {"Creating", "Deleting"},
             (from \subseteq Living /\ phase = "Deleting") \/ (from = {"Deleted"} /\ phase = "Creating"),
             Move(state, from, phase)
      PROVE  ResourceInv'
  <2>1. /\ doc' \in DocType /\ doc'.host = doc.host /\ doc'.phase = phase /\ doc.phase \in from
        /\ rules.looksAtLock => doc.lock = Free
    BY <1>1 DEF Move, ResourceInv, TaskTypeOK, Phases
  <2>2. UNCHANGED <<kind, worker, object, certificate, published, disturbed, faults>> /\ binds' \in 0..MaxBinds
    BY <1>1 DEF Move, cluster, counters, ResourceInv, TaskTypeOK
  <2> QED  BY <1>1, <2>1, <2>2, Writing
<1>2. CASE HandleActiveState
  BY <1>1, <1>2 DEF HandleActiveState, States, Phases
<1>3. CASE HandleInactiveState \/ HandleDeletedState
  <2>1. /\ rules.inactiveFrom \subseteq Living /\ rules.deletedFrom \subseteq Living
        /\ Living \subseteq Phases
    BY RulesLiving DEF ResourceInv, Living, Phases
  <2> QED  BY <1>1, <1>3, <2>1 DEF HandleInactiveState, HandleDeletedState, States
<1>4. CASE Purge
  <2>1. doc' \in DocType /\ doc'.phase = "None" /\ doc.phase = "Deleted"
    BY <1>4 DEF Purge, ResourceInv, TaskTypeOK, Phases
  <2>2. UNCHANGED <<kind, worker, object, certificate, published, disturbed, faults>> /\ binds' \in 0..MaxBinds
    BY <1>4 DEF Purge, cluster, counters, ResourceInv, TaskTypeOK
  <2> QED  BY <2>1, <2>2, Writing
<1>5. ASSUME NEW from \in States, NEW to \in States, SetState(from, to)
      PROVE  ResourceInv'
  <2>1. doc' \in DocType /\ doc'.phase = doc.phase /\ doc'.host = doc.host /\ doc'.lock = doc.lock
    BY <1>5 DEF SetState, ResourceInv, TaskTypeOK
  <2>2. UNCHANGED <<kind, worker, object, certificate, published, disturbed, faults>> /\ binds' \in 0..MaxBinds
    BY <1>5 DEF SetState, cluster, counters, ResourceInv, TaskTypeOK
  <2> QED  BY <2>1, <2>2, Writing
<1>6. ASSUME NEW host \in Hosts, SetHost(host)
      PROVE  ResourceInv'
  <2>1. doc' \in DocType /\ doc'.phase = "Deleting" /\ doc'.lock = doc.lock
    BY <1>6 DEF SetHost, ResourceInv, TaskTypeOK, Phases
  <2>2. UNCHANGED <<kind, worker, object, certificate, published, disturbed, faults>>
    BY <1>6 DEF SetHost, cluster
  <2>3. binds' \in 0..MaxBinds
    BY <1>6, ResourceBoundAssumption DEF SetHost, ResourceInv, TaskTypeOK
  <2> QED  BY <2>1, <2>2, <2>3, Writing
<1>7. ASSUME NEW how \in {"state", "phase"}, Remove(how)
      PROVE  ResourceInv'
  <2>1. /\ doc' \in DocType /\ doc'.lock = doc.lock
        /\ doc'.phase = "Deleting" \/ (doc'.phase = doc.phase /\ doc'.host = doc.host)
    BY <1>7 DEF Remove, ResourceInv, TaskTypeOK, Phases, States
  <2>2. UNCHANGED <<kind, worker, object, certificate, published, disturbed, faults>> /\ binds' \in 0..MaxBinds
    BY <1>7 DEF Remove, cluster, counters, ResourceInv, TaskTypeOK
  <2> QED  BY <2>1, <2>2, Writing
<1>8. CASE Request
  <2>1. Default \in Hosts /\ CustomHosts \subseteq Hosts /\ "Active" \in States /\ "Inactive" \in States
    BY DEF Hosts, States
  <2> QED  BY <1>5, <1>6, <1>7, <1>8, <2>1
           DEF Request, Activate, Deactivate, BindCustomDomain, RemoveCustomDomain
<1>9. CASE CertificateReady
  <2>1. UNCHANGED <<kind, doc, worker, object, published, disturbed, faults, binds, rules>>
    BY <1>9, RulesKept DEF CertificateReady, counters
  <2>2. certificate' \in CertificateType /\ certificate'.ready /\ certificate'.host # None
    BY <1>9 DEF CertificateReady, ResourceInv, TaskTypeOK
  <2>3. TaskTypeOK' /\ NeverMet' /\ CertificateThere'
    BY <2>1, <2>2 DEF ResourceInv, TaskTypeOK, NeverMet, CertificateThere, Live
  <2>4. \A v \in Workers : (Working(v)' <=> Working(v)) /\ (Sound(v) => Sound(v)')
    BY <2>1, <2>2 DEF Working, Live, Publishing, Sound
  <2>5. Guarded => Guarded'
    BY <2>1, <2>2, <2>4 DEF Guarded, Alone, Held, AllSound, ObjectOfPhase, CertificateOfObject
  <2> QED  BY <2>1, <2>3, <2>5 DEF ResourceInv, Excluded
<1>10. CASE LockExpires
  <2>1. /\ doc' \in DocType /\ doc'.phase = doc.phase /\ doc'.host = doc.host
        /\ ~SlowHandlers => doc.lock = Nobody \/ (doc.lock \in Workers /\ ~Live(doc.lock))
    BY <1>10 DEF LockExpires, ResourceInv, TaskTypeOK
  <2>2. UNCHANGED <<kind, worker, object, certificate, published, disturbed, faults>> /\ binds' \in 0..MaxBinds
    BY <1>10 DEF LockExpires, cluster, counters, ResourceInv, TaskTypeOK
  <2>3. ~SlowHandlers => \A v \in Workers : ~(Live(v) /\ doc.lock = v)
    BY <2>1, ResourceLockAssumption
  <2> QED  BY <2>1, <2>2, <2>3, Writing
<1> QED  BY <1>2, <1>3, <1>4, <1>8, <1>9, <1>10 DEF Tick

LEMMA StepInv == ResourceInv /\ [Next]_vars => ResourceInv'
<1> SUFFICES ASSUME ResourceInv, [Next]_vars PROVE ResourceInv'
  OBVIOUS
<1>1. CASE UNCHANGED vars
  <2>1. UNCHANGED <<kind, doc, worker, object, certificate, published, disturbed, faults, binds, rules>>
    BY <1>1, RulesKept DEF vars, taskVars, cluster, counters
  <2> QED  BY <2>1
           DEF ResourceInv, TaskTypeOK, NeverMet, CertificateThere, Excluded, Guarded, Alone, Held,
               AllSound, Sound, ObjectOfPhase, CertificateOfObject, Working, Live, Publishing
<1>2. CASE Next
  BY <1>2, ClaimStep, CreatingStep, DeletingStep, RelockStep, ThrowStep, OtherStep DEF Next, Act, Step
<1> QED  BY <1>1, <1>2

THEOREM InvariantHolds == Spec => []ResourceInv
BY InitInv, StepInv, PTL DEF Spec

KeptTyped == kept \in BOOLEAN

\* Every variable keeps to its values, for every kind, however slow handlers are.
THEOREM TypeCorrect == Spec => []TypeOK
<1>1. Init => KeptTyped
  BY DEF Init, KeptTyped
<1>2. KeptTyped /\ [Next]_vars => KeptTyped'
  <2> SUFFICES ASSUME KeptTyped, [Next]_vars PROVE kept' \in BOOLEAN
    BY DEF KeptTyped
  <2>1. CASE UNCHANGED vars
    BY <2>1 DEF vars, KeptTyped
  <2>2. CASE Next
    BY <2>2, Zenon DEF Next
  <2> QED  BY <2>1, <2>2
<1>3. ResourceInv /\ KeptTyped => TypeOK
  BY DEF ResourceInv, KeptTyped, TypeOK
<1> QED  BY <1>1, <1>2, <1>3, InvariantHolds, PTL DEF Spec

\* A document that says Created is routed under its present host.
THEOREM RouteKept == Spec => []RoutedAsBound
<1>1. ResourceInv => RoutedAsBound
  BY DEF ResourceInv, Guarded, ObjectOfPhase, RoutedAsBound
<1> QED  BY <1>1, InvariantHolds, PTL

\* Nothing in the cluster outlives a document that is, or says, Deleted.
THEOREM NothingOutlives == Spec => []DownWhenDeleted
<1>1. ResourceInv => DownWhenDeleted
  BY DEF ResourceInv, Guarded, ObjectOfPhase, DownWhenDeleted
<1> QED  BY <1>1, InvariantHolds, PTL
-----------------------------------------------------------------------------
(* The host of the certificate *)

\* Whose certificate a handler works with: a creator with that of the host it has claimed,
\* one that deletes with none when it has removed it, or with that of the present host
\* when it leaves it alone.
HostSound(w) ==
    /\ worker[w].job = "creating" =>
         /\ kept \/ certificate.host \in {None, worker[w].host}
         /\ worker[w].at \in {"certificate", "issue"} => worker[w].host # Default
    /\ worker[w].job = "deleting" =>
         /\ worker[w].at = "conclude" /\ RemovesCertificate(w) => certificate.host = None
         /\ worker[w].state = "Inactive" => kept \/ certificate.host \in {None, doc.host}
         /\ ~rules.unbinds /\ worker[w].host = Default => certificate.host = None

AllHostsSound == \A w \in Workers : Working(w) => HostSound(w)
\* Outside phase Deleting the certificate is the one of the present host.
HostOfPhase == doc.phase # "Deleting" => kept \/ certificate.host \in {None, doc.host}
\* In it, what a stopped document keeps is what it had before it was stopped.
HostOfStopped ==
    doc.phase = "Deleting" /\ doc.state = "Inactive" =>
      \/ kept
      \/ /\ certificate.host \in {None, doc.host}
         /\ \A w \in Workers : Working(w) /\ worker[w].job = "creating" =>
              worker[w].host = doc.host
\* A website that still has its first host has never had a certificate.
HostOfWebsite ==
    ~rules.unbinds /\ doc.host = Default =>
      /\ certificate.host = None
      /\ \A w \in Workers : Working(w) => worker[w].host = Default
HostOfObject == object \in CustomHosts => kept \/ certificate.host = object

Hosted == AllHostsSound /\ HostOfPhase /\ HostOfStopped /\ HostOfWebsite /\ HostOfObject
HostInv == Excluded /\ rules.issues => Hosted

LEMMA HostInit == Init => HostInv
<1> SUFFICES ASSUME Init PROVE Hosted
  BY DEF HostInv
<1>1. \A w \in Workers : ~Working(w)
  BY DEF Init, Idle, Working, Live
<1>2. doc.phase = "Creating" /\ object = None /\ certificate.host = None
  BY DEF Init, NoCertificate
<1> QED  BY <1>1, <1>2, ResourceHostAssumption
         DEF Hosted, AllHostsSound, HostOfPhase, HostOfStopped, HostOfWebsite, HostOfObject

\* Only a change of the certificate takes `kept` back.
LEMMA KeptStays ==
  ASSUME Next, certificate'.host = certificate.host
  PROVE  kept => kept'
BY Zenon DEF Next, ReplacesCertificate

\* Nothing becomes excluded, and no document changes its kind.
LEMMA ExcludedBefore ==
  ASSUME ResourceInv, Act
  PROVE  UNCHANGED rules /\ (Excluded' => Excluded)
<1>1. kind' = kind /\ (disturbed => disturbed')
  <2>1. ASSUME NEW w \in Workers, ClaimCreating(w) \/ ClaimDeleting(w) \/ Throw(w) \/ Relock(w)
        PROVE  kind' = kind /\ (disturbed => disturbed')
    <3>1. ASSUME NEW job, NEW phase, NEW first, Claim(w, job, phase, first)
          PROVE  kind' = kind /\ (disturbed => disturbed')
      BY <3>1, Zenon DEF Claim
    <3>2. CASE ClaimCreating(w) \/ ClaimDeleting(w)
      BY <3>1, <3>2, Zenon DEF ClaimCreating, ClaimDeleting
    <3>3. CASE Throw(w)
      BY <3>3, Zenon DEF Throw
    <3>4. CASE Relock(w)
      BY <3>4 DEF Relock, counters
    <3> QED  BY <2>1, <3>2, <3>3, <3>4
  <2>2. ASSUME NEW w \in Workers, Creating(w)
        PROVE  kind' = kind /\ (disturbed => disturbed')
    BY <2>2 DEF Creating, CreatingCertificate, CreatingIssue, CreatingGet, CreatingCreate,
                CreatingConclude, Publish, BucketDomainGone, counters
  <2>3. ASSUME NEW w \in Workers, Deleting(w)
        PROVE  kind' = kind /\ (disturbed => disturbed')
    BY <2>3 DEF Deleting, DeletingGet, DeletingDelete, DeletingCertificate, DeletingRevoke,
                DeletingConclude, Unpublish, counters
  <2>4. ASSUME Tick \/ Request \/ CertificateReady \/ LockExpires
        PROVE  kind' = kind /\ (disturbed => disturbed')
    <3>1. UNCHANGED <<kind, disturbed>>
      BY <2>4 DEF Tick, HandleActiveState, HandleInactiveState, HandleDeletedState, Move, Purge,
                  Request, Activate, Deactivate, SetState, BindCustomDomain, RemoveCustomDomain,
                  SetHost, Remove, CertificateReady, LockExpires, counters
    <3> QED  BY <3>1
  <2> QED  BY <2>1, <2>2, <2>3, <2>4 DEF Act, Step
<1> QED  BY <1>1, RulesKept DEF Excluded

\* The certificate stays, and no handler joins the ones at work.
LEMMA HostStays ==
  ASSUME Hosted, kept => kept', UNCHANGED rules,
         certificate'.host = certificate.host, doc'.host = doc.host,
         \A v \in Workers : Working(v)' =>
           /\ Working(v)
           /\ worker'[v].job = worker[v].job /\ worker'[v].state = worker[v].state
           /\ worker'[v].host = worker[v].host
           /\ \/ worker'[v].at = worker[v].at
              \/ /\ worker[v].job = "creating" /\ worker'[v].at \in {"certificate", "issue"} =>
                      worker[v].at \in {"certificate", "issue"}
                 /\ worker[v].job = "deleting" /\ worker'[v].at = "conclude"
                      /\ RemovesCertificate(v) => certificate.host = None,
         HostOfPhase', HostOfStopped', HostOfObject'
  PROVE  Hosted'
<1>1. \A v \in Workers : Working(v)' => (RemovesCertificate(v)' <=> RemovesCertificate(v))
  BY DEF RemovesCertificate
<1>2. \A v \in Workers : Working(v)' => HostSound(v)'
  BY <1>1 DEF Hosted, AllHostsSound, HostSound
<1>3. AllHostsSound'
  BY <1>2 DEF AllHostsSound
<1>4. HostOfWebsite'
  BY DEF Hosted, HostOfWebsite
<1> QED  BY <1>3, <1>4 DEF Hosted

\* A handler goes on.
LEMMA HostGoes ==
  ASSUME ResourceInv, Hosted, kept => kept', UNCHANGED <<rules, doc>>,
         certificate'.host = certificate.host,
         NEW w \in Workers, Live(w), ~Publishing(w),
         NEW s \in Steps, s \in StepsOf[worker[w].job], Goto(w, s),
         worker[w].job = "creating" /\ s \in {"certificate", "issue"} => worker[w].at = "certificate",
         worker[w].job = "deleting" /\ s = "conclude" /\ RemovesCertificate(w) =>
           certificate.host = None,
         HostOfObject'
  PROVE  Hosted'
<1>1. /\ worker'[w].at = s
      /\ \A v \in Workers : /\ worker'[v].job = worker[v].job
                            /\ worker'[v].state = worker[v].state
                            /\ worker'[v].host = worker[v].host
                            /\ v # w => worker'[v] = worker[v]
  BY GotoFacts DEF ResourceInv
<1>2. \A v \in Workers : Working(v)' => Working(v)
  BY <1>1 DEF Working, Live, Publishing
<1>3. HostOfPhase' /\ HostOfStopped'
  BY <1>1, <1>2 DEF Hosted, HostOfPhase, HostOfStopped
<1> QED  BY <1>1, <1>2, <1>3, HostStays

\* A handler ends.
LEMMA HostEnds ==
  ASSUME ResourceInv, Hosted, kept => kept', UNCHANGED <<rules, object>>,
         certificate'.host = certificate.host,
         doc'.phase = doc.phase, doc'.state = doc.state, doc'.host = doc.host,
         NEW w \in Workers, End(w)
  PROVE  Hosted'
<1>1. worker'[w].job = "none" /\ \A v \in Workers : v # w => worker'[v] = worker[v]
  BY EndFacts DEF ResourceInv
<1>2. \A v \in Workers : Working(v)' => Working(v) /\ worker'[v] = worker[v]
  BY <1>1 DEF Working, Live, Publishing
<1>3. HostOfPhase' /\ HostOfStopped' /\ HostOfObject'
  BY <1>2 DEF Hosted, HostOfPhase, HostOfStopped, HostOfObject
<1> QED  BY <1>2, <1>3, HostStays

LEMMA HostClaims ==
  ASSUME ResourceInv, Guarded, Hosted, Excluded', rules.issues, kept => kept', UNCHANGED rules,
         NEW w \in Workers, ClaimCreating(w) \/ ClaimDeleting(w)
  PROVE  Hosted'
<1>1. PICK job \in {"creating", "deleting"}, phase \in {"Creating", "Deleting"},
           first \in {"certificate", "get"} :
        /\ Claim(w, job, phase, first)
        /\ (job = "creating") <=> (phase = "Creating")
        /\ job = "creating" /\ first = "certificate" => doc.host # Default
        /\ job = "deleting" => first = "get"
  <2>1. CASE ClaimCreating(w)
    BY <2>1 DEF ClaimCreating
  <2>2. CASE ClaimDeleting(w)
    BY <2>2 DEF ClaimDeleting
  <2> QED  BY <2>1, <2>2
<1>2. \A v \in Workers : ~Working(v)
  <2>1. doc.lock = Free /\ (~disturbed' => \A v \in Workers : ~Live(v))
    BY <1>1 DEF Claim
  <2>2. CASE ~disturbed'
    BY <2>1, <2>2 DEF Working
  <2>3. CASE ~SlowHandlers /\ rules.looksAtLock
    BY <2>1, <2>3, ResourceLockAssumption DEF Guarded, Held
  <2> QED  BY <2>2, <2>3 DEF Excluded
<1>3. UNCHANGED <<object, certificate>> /\ doc.phase = phase
  BY <1>1 DEF Claim, cluster
<1>4. doc'.phase = doc.phase /\ doc'.state = doc.state /\ doc'.host = doc.host
  BY <1>1 DEF Claim, ResourceInv, TaskTypeOK
<1>5. /\ worker'[w] = [job |-> job, at |-> first, state |-> doc.state, host |-> doc.host]
      /\ \A v \in Workers : v # w => worker'[v] = worker[v]
  BY <1>1 DEF Claim, ResourceInv, TaskTypeOK
<1>6. \A v \in Workers : Working(v)' => v = w
  BY <1>2, <1>5 DEF Working, Live, Publishing
<1>7. HostSound(w)'
  <2>1. CASE job = "creating"
    BY <2>1, <1>1, <1>3, <1>5 DEF HostSound, Hosted, HostOfPhase
  <2>2. CASE job = "deleting"
    BY <2>2, <1>1, <1>3, <1>4, <1>5 DEF HostSound, Hosted, HostOfStopped, HostOfWebsite
  <2> QED  BY <2>1, <2>2
<1>8. AllHostsSound'
  BY <1>6, <1>7 DEF AllHostsSound
<1>9. HostOfPhase' /\ HostOfObject'
  BY <1>3, <1>4 DEF Hosted, HostOfPhase, HostOfObject
<1>10. HostOfStopped'
  BY <1>1, <1>3, <1>4, <1>5, <1>6 DEF Hosted, HostOfStopped
<1>11. HostOfWebsite'
  BY <1>3, <1>4, <1>5, <1>6 DEF Hosted, HostOfWebsite
<1> QED  BY <1>8, <1>9, <1>10, <1>11 DEF Hosted

LEMMA HostCreates ==
  ASSUME ResourceInv, Guarded, Hosted, rules.issues, UNCHANGED rules, Next,
         NEW w \in Workers, Creating(w)
  PROVE  Hosted'
<1>0. "issue" \in Steps /\ "get" \in Steps /\ "relock" \in Steps /\ "create" \in Steps /\ "conclude" \in Steps
  BY DEF Steps, StepsOf
<1>1. ASSUME NEW step, step # "publish", At(w, "creating", step)
      PROVE  /\ Live(w) /\ ~Publishing(w) /\ worker[w].job = "creating" /\ worker[w].at = step
             /\ {"issue", "get", "relock", "create", "conclude"} \subseteq StepsOf[worker[w].job]
             /\ Sound(w) /\ HostSound(w)
             /\ \A v \in Workers : Working(v) => v = w
  <2>1. worker[w].job = "creating" /\ worker[w].at = step /\ step # "unpublish"
    BY <1>1 DEF At, ResourceInv, TaskTypeOK, StepsOf
  <2>2. Live(w) /\ ~Publishing(w) /\ Working(w)
    BY <1>1, <2>1 DEF Live, Publishing, Working
  <2>3. {"issue", "get", "relock", "create", "conclude"} \subseteq StepsOf[worker[w].job]
    BY <2>1 DEF StepsOf
  <2> QED  BY <2>1, <2>2, <2>3 DEF Guarded, AllSound, Alone, Hosted, AllHostsSound
<1>2. CASE CreatingCertificate(w)
  <2> DEFINE s == CASE certificate.host = None -> "issue"
                    [] certificate.ready -> "get"
                    [] OTHER -> "relock"
  <2>1. s \in {"issue", "get", "relock"} /\ Goto(w, s)
    BY <1>2 DEF CreatingCertificate
  <2>2. At(w, "creating", "certificate") /\ UNCHANGED <<doc, object, certificate>>
    BY <1>2 DEF CreatingCertificate, cluster
  <2> HIDE DEF s
  <2>3. kept => kept'
    BY <2>2, KeptStays
  <2>4. HostOfObject'
    BY <2>2, <2>3 DEF Hosted, HostOfObject
  <2> QED  BY <1>0, <1>1, <2>1, <2>2, <2>3, <2>4, HostGoes
<1>3. CASE CreatingIssue(w) /\ certificate.host # None
  <2>1. UNCHANGED <<doc, object, certificate>> /\ End(w)
    BY <1>3 DEF CreatingIssue
  <2> QED  BY <2>1, KeptStays, HostEnds
<1>4. CASE CreatingIssue(w) /\ certificate.host = None
  <2>1. /\ UNCHANGED <<doc, object>> /\ At(w, "creating", "issue")
        /\ certificate' = [host |-> worker[w].host, ready |-> FALSE] /\ Goto(w, "relock")
    BY <1>4 DEF CreatingIssue
  <2>2. /\ worker'[w].at = "relock"
        /\ \A v \in Workers : /\ worker'[v].job = worker[v].job
                              /\ worker'[v].state = worker[v].state
                              /\ worker'[v].host = worker[v].host
                              /\ v # w => worker'[v] = worker[v]
    BY <1>0, <1>1, <2>1, GotoFacts DEF ResourceInv
  <2>3. \A v \in Workers : Working(v)' => v = w
    BY <1>1, <2>1, <2>2 DEF Working, Live, Publishing
  <2>4. worker[w].host # Default /\ certificate'.host = worker[w].host
    BY <1>1, <2>1 DEF HostSound
  <2>5. kept /\ worker[w].host # doc.host => kept'
    <3>1. worker[w].host # None
      BY ResourceHostAssumption DEF ResourceInv, TaskTypeOK, Hosts
    <3> SUFFICES ASSUME worker[w].host # doc.host PROVE kept => kept'
      OBVIOUS
    <3>2. ~ReplacesCertificate
      BY <2>1, <2>4, <3>1 DEF ReplacesCertificate
    <3> QED  BY <3>2, Zenon DEF Next
  <2>6. HostSound(w)'
    BY <1>1, <2>1, <2>2, <2>4 DEF HostSound
  <2>7. AllHostsSound'
    BY <2>3, <2>6 DEF AllHostsSound
  <2>8. HostOfPhase'
    BY <1>1, <2>1, <2>4 DEF Sound, HostOfPhase
  <2>9. HostOfStopped'
    BY <2>1, <2>2, <2>3, <2>4, <2>5, <1>1 DEF Hosted, HostOfStopped, Working
  <2>10. HostOfWebsite'
    BY <1>1, <2>1, <2>4 DEF Hosted, HostOfWebsite, Working
  <2>11. object \notin CustomHosts
    BY <1>4 DEF Guarded, CertificateOfObject, ResourceInv, CertificateThere
  <2>12. HostOfObject'
    BY <2>1, <2>11 DEF HostOfObject
  <2> QED  BY <2>7, <2>8, <2>9, <2>10, <2>12 DEF Hosted
<1>5. CASE CreatingGet(w)
  <2> DEFINE s == IF object = None THEN "create" ELSE "conclude"
  <2>1. s \in {"create", "conclude"} /\ Goto(w, s)
    BY <1>5 DEF CreatingGet
  <2>2. At(w, "creating", "get") /\ UNCHANGED <<doc, object, certificate>>
    BY <1>5 DEF CreatingGet, cluster
  <2> HIDE DEF s
  <2>3. kept => kept'
    BY <2>2, KeptStays
  <2>4. HostOfObject'
    BY <2>2, <2>3 DEF Hosted, HostOfObject
  <2> QED  BY <1>0, <1>1, <2>1, <2>2, <2>3, <2>4, HostGoes
<1>6. CASE CreatingCreate(w)
  <2>1. At(w, "creating", "create") /\ UNCHANGED <<doc, certificate>>
    BY <1>6 DEF CreatingCreate
  <2>2. kept => kept'
    BY <2>1, KeptStays
  <2>3. CASE object' = object /\ End(w)
    BY <2>1, <2>2, <2>3, HostEnds
  <2>4. CASE object' = worker[w].host /\ Goto(w, "conclude")
    <3>1. worker[w].host \in CustomHosts => certificate.host # None
      BY <1>1, <2>1 DEF Sound, ResourceInv, CertificateThere
    <3>2. HostOfObject'
      BY <1>1, <2>1, <2>2, <2>4, <3>1 DEF HostSound, HostOfObject
    <3> QED  BY <1>0, <1>1, <2>1, <2>2, <2>4, <3>2, HostGoes
  <2> QED  BY <1>6, <2>3, <2>4 DEF CreatingCreate
<1>7. CASE CreatingConclude(w)
  <2>1. /\ At(w, "creating", "conclude") /\ UNCHANGED <<object, certificate>>
        /\ doc' = doc \/ (doc.phase = "Creating" /\ doc' = [doc EXCEPT !.phase = "Created", !.lock = Free])
        /\ Goto(w, "publish") \/ End(w)
    BY <1>7 DEF CreatingConclude, WriteIfPhase, cluster
  <2>2. kept => kept'
    BY <2>1, KeptStays
  <2>3. /\ doc'.host = doc.host /\ doc'.state = doc.state
        /\ doc'.phase = doc.phase \/ (doc.phase = "Creating" /\ doc'.phase = "Created")
    BY <2>1 DEF ResourceInv, TaskTypeOK
  <2>4. "publish" \in Steps /\ "publish" \in StepsOf[worker[w].job]
    BY <1>1, <2>1 DEF Steps, StepsOf
  <2>5. /\ worker'[w].at \in {"publish", "idle"}
        /\ \A v \in Workers : v # w => worker'[v] = worker[v]
        /\ worker'[w].at = "publish" \/ worker'[w].job = "none"
    BY <2>1, <2>4, GotoFacts, EndFacts DEF ResourceInv
  <2>6. \A v \in Workers : ~Working(v)'
    BY <1>1, <2>1, <2>5 DEF Working, Live, Publishing
  <2>7. HostOfPhase' /\ HostOfStopped' /\ HostOfObject'
    BY <2>1, <2>2, <2>3, <2>6 DEF Hosted, HostOfPhase, HostOfStopped, HostOfObject
  <2> QED  BY <2>1, <2>2, <2>3, <2>6, <2>7, HostStays
<1>8. CASE Publish(w) \/ BucketDomainGone(w)
  <2>1. UNCHANGED <<doc, object, certificate>> /\ End(w)
    BY <1>8 DEF Publish, BucketDomainGone, cluster
  <2> QED  BY <2>1, KeptStays, HostEnds
<1> QED  BY <1>2, <1>3, <1>4, <1>5, <1>6, <1>7, <1>8 DEF Creating

LEMMA HostDeletes ==
  ASSUME ResourceInv, Guarded, Hosted, rules.issues, rules.certified, UNCHANGED rules, Next,
         NEW w \in Workers, Deleting(w)
  PROVE  Hosted'
<1>0. /\ "certificate" \in Steps /\ "delete" \in Steps /\ "relock" \in Steps
      /\ "revoke" \in Steps /\ "conclude" \in Steps
  BY DEF Steps, StepsOf
<1>1. ASSUME NEW step, step # "unpublish", At(w, "deleting", step)
      PROVE  /\ Live(w) /\ ~Publishing(w) /\ worker[w].job = "deleting" /\ worker[w].at = step
             /\ {"certificate", "delete", "relock", "revoke", "conclude"} \subseteq StepsOf[worker[w].job]
             /\ Sound(w) /\ HostSound(w) /\ Working(w)
             /\ \A v \in Workers : Working(v) => v = w
  <2>1. worker[w].job = "deleting" /\ worker[w].at = step /\ step # "publish"
    BY <1>1 DEF At, ResourceInv, TaskTypeOK, StepsOf
  <2>2. Live(w) /\ ~Publishing(w) /\ Working(w)
    BY <1>1, <2>1 DEF Live, Publishing, Working
  <2>3. {"certificate", "delete", "relock", "revoke", "conclude"} \subseteq StepsOf[worker[w].job]
    BY <2>1 DEF StepsOf
  <2> QED  BY <2>1, <2>2, <2>3 DEF Guarded, AllSound, Alone, Hosted, AllHostsSound
<1>2. AfterObject(w) \in {"certificate", "conclude"} /\ (AfterObject(w) = "conclude" => ~RemovesCertificate(w))
  BY DEF AfterObject
<1>3. CASE DeletingGet(w)
  <2> DEFINE s == IF object = None /\ kind # "StorageUser" THEN AfterObject(w) ELSE "delete"
  <2>1. s \in {"certificate", "conclude", "delete"} /\ (s = "conclude" => ~RemovesCertificate(w))
    BY <1>2
  <2>2. At(w, "deleting", "get") /\ UNCHANGED <<doc, object, certificate>> /\ Goto(w, s)
    BY <1>3 DEF DeletingGet, cluster
  <2> HIDE DEF s
  <2>3. kept => kept'
    BY <2>2, KeptStays
  <2>4. HostOfObject'
    BY <2>2, <2>3 DEF Hosted, HostOfObject
  <2> QED  BY <1>0, <1>1, <2>1, <2>2, <2>3, <2>4, HostGoes
<1>4. CASE DeletingDelete(w)
  <2> DEFINE s == AfterObject(w)
  <2>1. /\ At(w, "deleting", "delete") /\ UNCHANGED <<doc, certificate>> /\ object' = None
        /\ IF object = None THEN End(w) ELSE Goto(w, s)
    BY <1>4 DEF DeletingDelete
  <2>2. s \in {"certificate", "conclude"} /\ (s = "conclude" => ~RemovesCertificate(w))
    BY <1>2
  <2> HIDE DEF s
  <2>3. kept => kept'
    BY <2>1, KeptStays
  <2>4. HostOfObject'
    BY <2>1, ResourceHostAssumption DEF HostOfObject
  <2>5. CASE object = None
    BY <2>1, <2>3, <2>5, HostEnds
  <2>6. CASE object # None
    BY <1>0, <1>1, <2>1, <2>2, <2>3, <2>4, <2>6, HostGoes
  <2> QED  BY <2>5, <2>6
<1>5. CASE DeletingCertificate(w)
  <2> DEFINE s == IF certificate.host = None THEN "conclude" ELSE "revoke"
  <2>1. s \in {"conclude", "revoke"} /\ (s = "conclude" => certificate.host = None)
    OBVIOUS
  <2>2. At(w, "deleting", "certificate") /\ UNCHANGED <<doc, object, certificate>> /\ Goto(w, s)
    BY <1>5 DEF DeletingCertificate, cluster
  <2> HIDE DEF s
  <2>3. kept => kept'
    BY <2>2, KeptStays
  <2>4. HostOfObject'
    BY <2>2, <2>3 DEF Hosted, HostOfObject
  <2> QED  BY <1>0, <1>1, <2>1, <2>2, <2>3, <2>4, HostGoes
<1>6. CASE DeletingRevoke(w)
  <2>1. /\ At(w, "deleting", "revoke") /\ UNCHANGED <<doc, object>> /\ certificate'.host = None
        /\ End(w) \/ Goto(w, "relock")
    BY <1>6 DEF DeletingRevoke, NoCertificate
  <2>2. /\ \A v \in Workers : v # w => worker'[v] = worker[v]
        /\ worker'[w].job = "none" \/ (worker'[w].at = "relock" /\ worker'[w].job = "deleting" /\ worker'[w].host = worker[w].host)
    BY <1>0, <1>1, <2>1, GotoFacts, EndFacts DEF ResourceInv
  <2>3. \A v \in Workers : Working(v)' => /\ v = w /\ worker'[v].job = "deleting"
                                          /\ worker'[v].host = worker[v].host
    BY <1>1, <2>1, <2>2 DEF Working, Live, Publishing
  <2>4. AllHostsSound'
    BY <2>1, <2>3 DEF AllHostsSound, HostSound
  <2>5. HostOfPhase' /\ HostOfStopped'
    BY <2>1, <2>3 DEF HostOfPhase, HostOfStopped
  <2>6. HostOfWebsite'
    BY <1>1, <2>1, <2>3 DEF Hosted, HostOfWebsite
  <2>7. object = None
    BY <1>1, <2>1 DEF Sound, Cleared
  <2>8. HostOfObject'
    BY <2>1, <2>7, ResourceHostAssumption DEF HostOfObject
  <2> QED  BY <2>4, <2>5, <2>6, <2>8 DEF Hosted
<1>7. CASE DeletingConclude(w)
  <2>1. /\ At(w, "deleting", "conclude") /\ UNCHANGED <<object, certificate>>
        /\ Goto(w, "unpublish") \/ End(w)
    BY <1>7 DEF DeletingConclude, cluster
  <2>2. kept => kept'
    BY <2>1, KeptStays
  <2>3. doc'.host = doc.host /\ doc'.state = doc.state /\ doc'.phase = "Deleted"
    BY <1>1, <1>7, <2>1 DEF DeletingConclude, WriteIfPhase, Sound, ResourceInv, TaskTypeOK
  <2>4. "unpublish" \in Steps /\ "unpublish" \in StepsOf[worker[w].job]
    BY <1>1, <2>1 DEF Steps, StepsOf
  <2>5. /\ \A v \in Workers : v # w => worker'[v] = worker[v]
        /\ worker'[w].at = "unpublish" \/ worker'[w].job = "none"
    BY <2>1, <2>4, GotoFacts, EndFacts DEF ResourceInv
  <2>6. \A v \in Workers : ~Working(v)'
    BY <1>1, <2>1, <2>5 DEF Working, Live, Publishing
  <2>7. kept \/ certificate.host \in {None, doc.host}
    <3>1. worker[w].state \in {"Active", "Inactive", "Deleted"}
      BY DEF ResourceInv, TaskTypeOK, States
    <3>2. CASE worker[w].state = "Inactive"
      BY <1>1, <2>1, <3>2 DEF HostSound
    <3>3. CASE RemovesCertificate(w)
      BY <1>1, <2>1, <3>3 DEF HostSound
    <3>4. CASE ~rules.unbinds /\ worker[w].host = Default
      BY <1>1, <2>1, <3>4 DEF HostSound
    <3> QED  BY <3>1, <3>2, <3>3, <3>4 DEF RemovesCertificate
  <2>8. HostOfPhase' /\ HostOfStopped' /\ HostOfObject'
    BY <2>1, <2>2, <2>3, <2>7 DEF Hosted, HostOfPhase, HostOfStopped, HostOfObject
  <2> QED  BY <2>1, <2>2, <2>3, <2>6, <2>8, HostStays
<1>8. CASE Unpublish(w)
  <2>1. UNCHANGED <<doc, object, certificate>> /\ End(w)
    BY <1>8 DEF Unpublish
  <2> QED  BY <2>1, KeptStays, HostEnds
<1> QED  BY <1>3, <1>4, <1>5, <1>6, <1>7, <1>8 DEF Deleting

\* Others write the document: the host changes only under phase Deleting.
LEMMA HostWrites ==
  ASSUME ResourceInv, Guarded, Hosted, rules.issues, UNCHANGED <<rules, worker, object>>,
         certificate'.host = certificate.host, kept => kept',
         \/ /\ doc'.host = doc.host
            /\ doc'.state = "Inactive" /\ doc.state # "Inactive" => doc'.phase # "Deleting" \/ kept'
            /\ \/ doc'.phase = doc.phase
               \/ doc'.phase # "Deleting" /\ doc.phase # "Deleting"
               \/ doc'.phase = "Deleting"
         \/ /\ doc'.phase = "Deleting"
            /\ ~rules.unbinds => doc'.host # Default
            /\ doc'.state = "Inactive" => kept'
            /\ \/ kept'
               \/ \A w \in Workers : worker[w].job = "deleting" => worker[w].state # "Inactive"
  PROVE  Hosted'
<1>1. \A v \in Workers : Working(v)' <=> Working(v)
  BY DEF Working, Live, Publishing
<1>2. \A v \in Workers : Working(v) /\ worker[v].job = "creating" =>
         /\ doc.phase \in {"Creating", "Deleting"}
         /\ doc.phase = "Creating" => worker[v].host = doc.host
  BY DEF Guarded, AllSound, Sound
<1>3. HostOfPhase'
  BY DEF Hosted, HostOfPhase
<1>4. HostOfStopped'
  BY <1>1, <1>2 DEF Hosted, HostOfPhase, HostOfStopped
<1>5. HostOfWebsite'
  BY <1>1 DEF Hosted, HostOfWebsite
<1>6. HostOfObject'
  BY DEF Hosted, HostOfObject
<1>7. \A v \in Workers : RemovesCertificate(v)' <=> RemovesCertificate(v)
  BY DEF RemovesCertificate
<1>8. \A v \in Workers : Working(v) => HostSound(v)'
  BY <1>7 DEF Hosted, AllHostsSound, HostSound
<1>9. AllHostsSound'
  BY <1>1, <1>8 DEF AllHostsSound
<1> QED  BY <1>3, <1>4, <1>5, <1>6, <1>9 DEF Hosted

LEMMA HostWriting ==
  ASSUME ResourceInv, Guarded, Hosted, rules.issues, UNCHANGED rules, Next,
         Tick \/ Request \/ CertificateReady \/ LockExpires
  PROVE  Hosted'
<1>1. UNCHANGED <<worker, object>> /\ certificate'.host = certificate.host
  <2>1. CASE Tick \/ Request \/ LockExpires
    BY <2>1 DEF Tick, HandleActiveState, HandleInactiveState, HandleDeletedState, Move, Purge,
                Request, Activate, Deactivate, SetState, BindCustomDomain, RemoveCustomDomain,
                SetHost, Remove, LockExpires, cluster
  <2>2. CASE CertificateReady
    BY <2>2 DEF CertificateReady, ResourceInv, TaskTypeOK
  <2> QED  BY <2>1, <2>2
<1>2. kept => kept'
  BY <1>1, KeptStays
<1>3. LeavesCertificate => kept'
  BY Zenon DEF Next
<1>4. CASE Tick
  <2>1. doc'.host = doc.host /\ doc'.state = doc.state
    BY <1>4 DEF Tick, HandleActiveState, HandleInactiveState, HandleDeletedState, Move, Purge,
                ResourceInv, TaskTypeOK
  <2>2. \/ doc'.phase = "Deleting"
        \/ doc'.phase \in {"Creating", "None"} /\ doc.phase = "Deleted"
    BY <1>4 DEF Tick, HandleActiveState, HandleInactiveState, HandleDeletedState, Move, Purge,
                ResourceInv, TaskTypeOK
  <2> QED  BY <1>1, <1>2, <2>1, <2>2, HostWrites
<1>5. CASE Activate \/ Deactivate
  <2>1. doc'.host = doc.host /\ doc'.phase = doc.phase
    BY <1>5 DEF Activate, Deactivate, SetState, ResourceInv, TaskTypeOK
  <2>2. doc'.state = "Inactive" /\ doc.state # "Inactive" => doc.state = "Active"
    BY <1>5 DEF Activate, Deactivate, SetState, ResourceInv, TaskTypeOK
  <2>3. doc'.state = "Inactive" /\ doc.state # "Inactive" => doc'.phase # "Deleting" \/ kept'
    BY <1>3, <2>1, <2>2 DEF LeavesCertificate
  <2> QED  BY <1>1, <1>2, <2>1, <2>3, HostWrites
<1>6. CASE RemoveCustomDomain \/ \E host \in CustomHosts : BindCustomDomain(host)
  <2>1. /\ doc'.phase = "Deleting" /\ doc'.state = doc.state
        /\ ~rules.unbinds => doc'.host # Default
    BY <1>6, ResourceHostAssumption DEF RemoveCustomDomain, BindCustomDomain, SetHost, ResourceInv, TaskTypeOK
  <2>2. CASE doc'.host = doc.host
    BY <1>1, <1>2, <2>1, <2>2, HostWrites
  <2>3. CASE doc'.host # doc.host
    <3>1. doc.state = "Inactive" => kept'
      BY <1>3, <2>3 DEF LeavesCertificate
    <3>2. kept' \/ \A w \in Workers : worker[w].job = "deleting" => worker[w].state # "Inactive"
      BY <1>3, <2>3 DEF LeavesCertificate
    <3> QED  BY <1>1, <1>2, <2>1, <3>1, <3>2, HostWrites
  <2> QED  BY <2>2, <2>3
<1>7. CASE \E how \in {"state", "phase"} : Remove(how)
  <2>1. /\ doc'.host = doc.host /\ doc'.state = "Deleted"
        /\ doc'.phase = doc.phase \/ doc'.phase = "Deleting"
    BY <1>7 DEF Remove, ResourceInv, TaskTypeOK
  <2> QED  BY <1>1, <1>2, <2>1, HostWrites
<1>8. CASE CertificateReady \/ LockExpires
  <2>1. doc'.host = doc.host /\ doc'.state = doc.state /\ doc'.phase = doc.phase
    BY <1>8 DEF CertificateReady, LockExpires, ResourceInv, TaskTypeOK
  <2> QED  BY <1>1, <1>2, <2>1, HostWrites
<1> QED  BY <1>4, <1>5, <1>6, <1>7, <1>8 DEF Request

LEMMA HostStep == ResourceInv /\ HostInv /\ [Next]_vars => HostInv'
<1> SUFFICES ASSUME ResourceInv, HostInv, [Next]_vars PROVE HostInv'
  OBVIOUS
<1>1. CASE UNCHANGED vars
  <2>1. UNCHANGED <<kind, doc, worker, object, certificate, kept, disturbed, rules>>
    BY <1>1, RulesKept DEF vars, taskVars, cluster, counters
  <2> QED  BY <2>1
           DEF HostInv, Excluded, Hosted, AllHostsSound, HostSound, HostOfPhase, HostOfStopped,
               HostOfWebsite, HostOfObject, Working, Live, Publishing, RemovesCertificate
<1>2. CASE Next
  <2> SUFFICES ASSUME Excluded', rules'.issues PROVE Hosted'
    BY DEF HostInv
  <2>1. Act /\ UNCHANGED rules /\ Excluded
    BY <1>2, ExcludedBefore DEF Next
  <2>2. Guarded /\ Hosted /\ rules.issues
    BY <2>1 DEF ResourceInv, HostInv
  <2>3. rules.certified
    BY <2>2, IssuesCertified DEF ResourceInv
  <2>4. ASSUME NEW w \in Workers, ClaimCreating(w) \/ ClaimDeleting(w)
        PROVE  Hosted'
    <3>1. certificate' = certificate
      BY <2>4 DEF ClaimCreating, ClaimDeleting, Claim, cluster
    <3>2. kept => kept'
      BY <1>2, <3>1, KeptStays
    <3> QED  BY <2>1, <2>2, <2>4, <3>2, HostClaims
  <2>5. ASSUME NEW w \in Workers, Step(w) PROVE Hosted'
    <3>1. CASE Creating(w)
      BY <1>2, <2>1, <2>2, <3>1, HostCreates
    <3>2. CASE Deleting(w)
      BY <1>2, <2>1, <2>2, <2>3, <3>2, HostDeletes
    <3>3. CASE Relock(w)
      <4>1. UNCHANGED <<object, certificate>> /\ End(w)
        BY <3>3 DEF Relock, cluster
      <4>2. doc'.phase = doc.phase /\ doc'.state = doc.state /\ doc'.host = doc.host
        BY <3>3 DEF Relock, ResourceInv, TaskTypeOK
      <4> QED  BY <1>2, <2>1, <2>2, <4>1, <4>2, KeptStays, HostEnds
    <3> QED  BY <2>5, <3>1, <3>2, <3>3 DEF Step
  <2>6. ASSUME NEW w \in Workers, Throw(w) PROVE Hosted'
    <3>1. UNCHANGED <<doc, object, certificate>> /\ End(w)
      BY <2>6 DEF Throw, cluster
    <3> QED  BY <1>2, <2>1, <2>2, <3>1, KeptStays, HostEnds
  <2>7. CASE Tick \/ Request \/ CertificateReady \/ LockExpires
    BY <1>2, <2>1, <2>2, <2>7, HostWriting
  <2> QED  BY <2>1, <2>4, <2>5, <2>6, <2>7 DEF Act
<1> QED  BY <1>1, <1>2

\* While no two handlers act on one document, a routed custom host has a certificate, it is
\* ready, and it is that host's own unless the host changed while the application stood
\* still or stopped and the certificate has not been replaced since.
THEOREM CertificateComesFirst == Spec => []CertificateFirst
<1>1. ResourceInv /\ HostInv => CertificateFirst
  BY DEF ResourceInv, Guarded, CertificateOfObject, CertificateFirst, HostInv, Hosted, HostOfObject
<1> QED  BY <1>1, HostInit, HostStep, InvariantHolds, PTL DEF Spec
-----------------------------------------------------------------------------
(* What is published *)

\* A handler that has met no other still knows the host when it publishes, and finds no
\* route when it unpublishes, although it has given its lock back.
PublishedSound ==
    rules.publishes /\ ~disturbed =>
      /\ \A w \in Workers : worker[w].at = "publish" =>
           /\ doc.phase \in {"Created", "Deleting"}
           /\ doc.phase = "Created" => worker[w].host = doc.host
      /\ \A w \in Workers : worker[w].at = "unpublish" => doc.phase # "Created"
      /\ (\A w \in Workers : ~Publishing(w)) =>
           /\ doc.phase = "Created" => published = doc.host
           /\ doc.phase \in {"Deleted", "None"} => published = None

LEMMA LiveAtStep ==
  ASSUME TaskTypeOK, NEW w \in Workers, worker[w].at # "idle"
  PROVE  Live(w)
BY DEF TaskTypeOK, Live, StepsOf

\* A handler goes on or ends before it has written the phase.
LEMMA BeforePublishing ==
  ASSUME ResourceInv, PublishedSound, NEW w \in Workers, ~Publishing(w),
         \A v \in Workers : v # w => worker'[v] = worker[v],
         worker'[w].at \notin {"publish", "unpublish"},
         doc'.phase = doc.phase, doc'.host = doc.host,
         UNCHANGED <<rules, published, disturbed>>
  PROVE  PublishedSound'
<1>1. \A v \in Workers : /\ Publishing(v)' <=> Publishing(v)
                         /\ Publishing(v) => worker'[v] = worker[v]
  BY DEF Publishing
<1>2. \A v \in Workers : worker'[v].at \in {"publish", "unpublish"} => worker'[v] = worker[v]
  OBVIOUS
<1> QED  BY <1>1, <1>2 DEF PublishedSound

\* The document moves under the handlers.
LEMMA WritingPublished ==
  ASSUME ResourceInv, PublishedSound, UNCHANGED <<rules, worker, published, disturbed>>,
         \/ doc'.phase = "Deleting"
         \/ doc'.phase = doc.phase /\ doc'.host = doc.host
         \/ doc'.phase = "Creating" /\ doc.phase = "Deleted"
         \/ doc'.phase = "None" /\ doc.phase = "Deleted"
  PROVE  PublishedSound'
BY DEF PublishedSound, Publishing

LEMMA HandlerPublished ==
  ASSUME ResourceInv, PublishedSound, NEW w \in Workers,
         ClaimCreating(w) \/ ClaimDeleting(w) \/ Step(w) \/ Throw(w)
  PROVE  PublishedSound'
<1>1. TaskTypeOK /\ NeverMet /\ (Excluded => Guarded)
  BY DEF ResourceInv
<1>2. ASSUME ~Publishing(w), NEW s \in Steps, s \in StepsOf[worker[w].job], Goto(w, s),
             s \notin {"publish", "unpublish"}, UNCHANGED <<kind, doc, published, disturbed>>
      PROVE  PublishedSound'
  <2>1. worker'[w].at = s /\ \A v \in Workers : v # w => worker'[v] = worker[v]
    BY <1>1, <1>2, GotoFacts
  <2> QED  BY <1>2, <2>1, RulesKept, BeforePublishing
<1>3. ASSUME ~Publishing(w), End(w), doc'.phase = doc.phase, doc'.host = doc.host,
             UNCHANGED <<kind, published, disturbed>>
      PROVE  PublishedSound'
  <2>1. worker'[w].at = "idle" /\ \A v \in Workers : v # w => worker'[v] = worker[v]
    BY <1>1, <1>3, EndFacts
  <2> QED  BY <1>3, <2>1, RulesKept, BeforePublishing
<1>4. ASSUME NEW job, NEW phase \in {"Creating", "Deleting"}, NEW first \in {"certificate", "get"},
             Claim(w, job, phase, first)
      PROVE  PublishedSound'
  <2> SUFFICES ASSUME rules.publishes', ~disturbed' PROVE PublishedSound'
    BY DEF PublishedSound
  <2>1. \A v \in Workers : ~Live(v)
    BY <1>4 DEF Claim
  <2>2. \A v \in Workers : worker[v].at = "idle"
    BY <1>1, <2>1, LiveAtStep
  <2>3. \A v \in Workers : worker'[v].at \notin {"publish", "unpublish"}
    BY <1>1, <1>4, <2>2 DEF Claim, TaskTypeOK
  <2>4. doc'.phase \in {"Creating", "Deleting"}
    BY <1>1, <1>4 DEF Claim, TaskTypeOK
  <2> QED  BY <2>3, <2>4 DEF PublishedSound, Publishing
<1>5. CASE ClaimCreating(w) \/ ClaimDeleting(w)
  BY <1>4, <1>5 DEF ClaimCreating, ClaimDeleting
<1>6. ASSUME rules.publishes, ~disturbed, Live(w)
      PROVE  /\ \A v \in Workers : v # w => ~Live(v) /\ worker[v].at = "idle"
             /\ ~Publishing(w) => Sound(w)
  <2>1. \A v \in Workers : v # w => ~Live(v)
    BY <1>1, <1>6 DEF NeverMet
  <2>2. \A v \in Workers : ~Live(v) => worker[v].at = "idle"
    BY <1>1, LiveAtStep
  <2> QED  BY <1>1, <1>6, <2>1, <2>2 DEF Excluded, Guarded, AllSound, Working
<1>7. ASSUME NEW s \in {"publish", "unpublish"}, NEW from, NEW to, s \in StepsOf[worker[w].job],
             Live(w), ~Publishing(w), WriteIfPhase(from, to),
             IF rules.publishes THEN Goto(w, s) ELSE End(w),
             UNCHANGED <<kind, published, disturbed>>,
             Sound(w) => \/ /\ s = "publish" /\ from = "Creating" /\ to = "Created"
                            /\ doc.phase \in {"Creating", "Deleting"}
                            /\ doc.phase = "Creating" => worker[w].host = doc.host
                         \/ s = "unpublish" /\ to = "Deleted" /\ doc.phase = "Deleting"
      PROVE  PublishedSound'
  <2> SUFFICES ASSUME rules.publishes', ~disturbed' PROVE PublishedSound'
    BY DEF PublishedSound
  <2>1. rules.publishes /\ ~disturbed
    BY <1>7, RulesKept
  <2>2. s \in Steps
    BY <1>1, <1>7, StepsTyped DEF TaskTypeOK
  <2>3. /\ worker'[w].at = s /\ worker'[w].host = worker[w].host
        /\ \A v \in Workers : v # w => worker'[v] = worker[v]
    BY <1>1, <1>7, <2>1, <2>2, GotoFacts
  <2>4. Sound(w) /\ \A v \in Workers : v # w => worker'[v].at = "idle"
    BY <1>6, <1>7, <2>1, <2>3
  <2>5. doc'.host = doc.host /\ doc'.phase = IF doc.phase = from THEN to ELSE doc.phase
    BY <1>1, <1>7 DEF WriteIfPhase, TaskTypeOK
  <2>6. Publishing(w)'
    BY <2>3 DEF Publishing
  <2> QED  BY <1>7, <2>3, <2>4, <2>5, <2>6 DEF PublishedSound
<1>8. ASSUME Live(w), Publishing(w), End(w), UNCHANGED <<kind, doc, disturbed>>,
             PublishedSound /\ rules.publishes /\ ~disturbed =>
               /\ doc.phase = "Created" => published' = doc.host
               /\ doc.phase \in {"Deleted", "None"} => published' = None
      PROVE  PublishedSound'
  <2> SUFFICES ASSUME rules.publishes', ~disturbed' PROVE PublishedSound'
    BY DEF PublishedSound
  <2>1. rules.publishes /\ ~disturbed
    BY <1>8, RulesKept
  <2>2. worker'[w].at = "idle" /\ \A v \in Workers : v # w => worker'[v] = worker[v]
    BY <1>1, <1>8, EndFacts
  <2>3. \A v \in Workers : worker'[v].at = "idle"
    BY <1>6, <1>8, <2>1, <2>2
  <2> QED  BY <1>8, <2>1, <2>3 DEF PublishedSound
<1>9. CASE Creating(w)
  <2>0. "issue" \in Steps /\ "get" \in Steps /\ "relock" \in Steps /\ "create" \in Steps /\ "conclude" \in Steps
    BY DEF Steps, StepsOf
  <2>1. ASSUME At(w, "creating", "publish") PROVE Live(w) /\ Publishing(w)
    BY <2>1 DEF At, Live, Publishing
  <2>2. ASSUME NEW step, step \notin {"publish", "unpublish"}, At(w, "creating", step)
        PROVE  /\ Live(w) /\ ~Publishing(w)
               /\ StepsOf[worker[w].job] =
                    {"certificate", "issue", "get", "create", "conclude", "publish", "relock"}
    BY <2>2 DEF At, Live, Publishing, StepsOf
  <2>3. CASE CreatingCertificate(w)
    <3> DEFINE s == CASE certificate.host = None -> "issue"
                      [] certificate.ready -> "get"
                      [] OTHER -> "relock"
    <3>1. s \in {"issue", "get", "relock"} /\ Goto(w, s)
      BY <2>3 DEF CreatingCertificate
    <3>2. At(w, "creating", "certificate") /\ UNCHANGED <<kind, doc, published, disturbed>>
      BY <2>3 DEF CreatingCertificate, cluster, counters
    <3> HIDE DEF s
    <3> QED  BY <1>2, <2>0, <2>2, <3>1, <3>2
  <2>4. CASE CreatingIssue(w)
    <3>1. /\ At(w, "creating", "issue") /\ UNCHANGED <<kind, doc, published, disturbed>>
          /\ Goto(w, "relock") \/ End(w)
      BY <2>4 DEF CreatingIssue, counters
    <3> QED  BY <1>2, <1>3, <2>0, <2>2, <3>1
  <2>5. CASE CreatingGet(w)
    <3>1. /\ At(w, "creating", "get") /\ UNCHANGED <<kind, doc, published, disturbed>>
          /\ Goto(w, "create") \/ Goto(w, "conclude")
      BY <2>5 DEF CreatingGet, cluster, counters
    <3> QED  BY <1>2, <2>0, <2>2, <3>1
  <2>6. CASE CreatingCreate(w)
    <3>1. /\ At(w, "creating", "create") /\ UNCHANGED <<kind, doc, published, disturbed>>
          /\ Goto(w, "conclude") \/ End(w)
      BY <2>6 DEF CreatingCreate, counters
    <3> QED  BY <1>2, <1>3, <2>0, <2>2, <3>1
  <2>7. CASE CreatingConclude(w)
    <3>1. /\ At(w, "creating", "conclude") /\ UNCHANGED <<kind, published, disturbed>>
          /\ WriteIfPhase("Creating", "Created")
          /\ IF rules.publishes THEN Goto(w, "publish") ELSE End(w)
      BY <2>7 DEF CreatingConclude, cluster, counters
    <3>2. Sound(w) => /\ doc.phase \in {"Creating", "Deleting"}
                      /\ doc.phase = "Creating" => worker[w].host = doc.host
      BY <3>1 DEF Sound, At
    <3> QED  BY <1>7, <2>2, <3>1, <3>2
  <2>8. CASE Publish(w)
    <3>1. /\ At(w, "creating", "publish") /\ UNCHANGED <<kind, doc, disturbed>>
          /\ End(w) /\ published' = worker[w].host
      BY <2>8 DEF Publish, counters
    <3>2. PublishedSound /\ rules.publishes /\ ~disturbed =>
            /\ doc.phase = "Created" => published' = doc.host
            /\ doc.phase \in {"Deleted", "None"} => published' = None
      BY <3>1 DEF PublishedSound, At
    <3> QED  BY <1>8, <2>1, <3>1, <3>2
  <2>9. CASE BucketDomainGone(w)
    <3>1. ~Publishing(w) /\ End(w) /\ UNCHANGED <<kind, doc, published, disturbed>>
      BY <2>9 DEF BucketDomainGone, Publishing, cluster, counters
    <3> QED  BY <1>3, <3>1
  <2> QED  BY <1>9, <2>3, <2>4, <2>5, <2>6, <2>7, <2>8, <2>9 DEF Creating
<1>10. CASE Deleting(w)
  <2>0. "certificate" \in Steps /\ "delete" \in Steps /\ "relock" \in Steps /\ "revoke" \in Steps /\ "conclude" \in Steps
    BY DEF Steps, StepsOf
  <2>1. ASSUME At(w, "deleting", "unpublish") PROVE Live(w) /\ Publishing(w)
    BY <2>1 DEF At, Live, Publishing
  <2>2. ASSUME NEW step, step \notin {"publish", "unpublish"}, At(w, "deleting", step)
        PROVE  /\ Live(w) /\ ~Publishing(w)
               /\ StepsOf[worker[w].job] =
                    {"get", "delete", "certificate", "revoke", "conclude", "unpublish", "relock"}
    BY <2>2 DEF At, Live, Publishing, StepsOf
  <2>3. CASE DeletingGet(w)
    <3>1. /\ At(w, "deleting", "get") /\ UNCHANGED <<kind, doc, published, disturbed>>
          /\ Goto(w, "certificate") \/ Goto(w, "conclude") \/ Goto(w, "delete")
      BY <2>3 DEF DeletingGet, AfterObject, cluster, counters
    <3> QED  BY <1>2, <2>0, <2>2, <3>1
  <2>4. CASE DeletingDelete(w)
    <3>1. /\ At(w, "deleting", "delete") /\ UNCHANGED <<kind, doc, published, disturbed>>
          /\ Goto(w, "certificate") \/ Goto(w, "conclude") \/ End(w)
      BY <2>4 DEF DeletingDelete, AfterObject, counters
    <3> QED  BY <1>2, <1>3, <2>0, <2>2, <3>1
  <2>5. CASE DeletingCertificate(w)
    <3>1. /\ At(w, "deleting", "certificate") /\ UNCHANGED <<kind, doc, published, disturbed>>
          /\ Goto(w, "conclude") \/ Goto(w, "revoke")
      BY <2>5 DEF DeletingCertificate, cluster, counters
    <3> QED  BY <1>2, <2>0, <2>2, <3>1
  <2>6. CASE DeletingRevoke(w)
    <3>1. /\ At(w, "deleting", "revoke") /\ UNCHANGED <<kind, doc, published, disturbed>>
          /\ Goto(w, "relock") \/ End(w)
      BY <2>6 DEF DeletingRevoke, counters
    <3> QED  BY <1>2, <1>3, <2>0, <2>2, <3>1
  <2>7. CASE DeletingConclude(w)
    <3>1. /\ At(w, "deleting", "conclude") /\ UNCHANGED <<kind, published, disturbed>>
          /\ WriteIfPhase("Deleting", "Deleted")
          /\ IF rules.publishes THEN Goto(w, "unpublish") ELSE End(w)
      BY <2>7 DEF DeletingConclude, cluster, counters
    <3>2. Sound(w) => doc.phase = "Deleting"
      BY <3>1 DEF Sound, At
    <3> QED  BY <1>7, <2>2, <3>1, <3>2
  <2>8. CASE Unpublish(w)
    <3>1. /\ At(w, "deleting", "unpublish") /\ UNCHANGED <<kind, doc, disturbed>>
          /\ End(w) /\ published' = None
      BY <2>8 DEF Unpublish, counters
    <3>2. PublishedSound /\ rules.publishes /\ ~disturbed =>
            /\ doc.phase = "Created" => published' = doc.host
            /\ doc.phase \in {"Deleted", "None"} => published' = None
      BY <3>1 DEF PublishedSound, At
    <3> QED  BY <1>8, <2>1, <3>1, <3>2
  <2> QED  BY <1>10, <2>3, <2>4, <2>5, <2>6, <2>7, <2>8 DEF Deleting
<1>11. CASE Relock(w)
  <2>1. ~Publishing(w) /\ End(w) /\ UNCHANGED <<kind, published, disturbed>>
    BY <1>11 DEF Relock, Publishing, cluster, counters
  <2>2. doc'.phase = doc.phase /\ doc'.host = doc.host
    BY <1>1, <1>11 DEF Relock, TaskTypeOK
  <2> QED  BY <1>3, <2>1, <2>2
<1>12. CASE Throw(w)
  <2>1. CASE Publishing(w)
    <3>1. disturbed'
      BY <1>12, <2>1 DEF Throw, Publishing
    <3> QED  BY <3>1 DEF PublishedSound
  <2>2. CASE ~Publishing(w)
    <3>1. End(w) /\ UNCHANGED <<kind, doc, published>> /\ (disturbed' <=> disturbed)
      BY <1>12, <2>2 DEF Throw, cluster, Publishing
    <3>2. disturbed' = disturbed
      BY <1>1, <3>1, <1>12 DEF Throw, TaskTypeOK
    <3> QED  BY <1>3, <2>2, <3>1, <3>2
  <2> QED  BY <2>1, <2>2
<1> QED  BY <1>5, <1>9, <1>10, <1>11, <1>12 DEF Step

LEMMA OtherPublished ==
  ASSUME ResourceInv, PublishedSound, Tick \/ Request \/ CertificateReady \/ LockExpires
  PROVE  PublishedSound'
<1>1. TaskTypeOK
  BY DEF ResourceInv
<1>2. UNCHANGED <<rules, worker, published, disturbed>>
  BY RulesKept DEF Tick, HandleActiveState, HandleInactiveState, HandleDeletedState, Move, Purge,
     Request, Activate, Deactivate, SetState, BindCustomDomain, RemoveCustomDomain, SetHost, Remove,
     CertificateReady, LockExpires, cluster, counters
<1>3. CASE Tick
  <2>1. \/ doc'.phase = "Deleting"
        \/ doc'.phase = "Creating" /\ doc.phase = "Deleted"
        \/ doc'.phase = "None" /\ doc.phase = "Deleted"
    BY <1>1, <1>3 DEF Tick, HandleActiveState, HandleInactiveState, HandleDeletedState, Move, Purge, TaskTypeOK
  <2> QED  BY <1>2, <2>1, WritingPublished
<1>4. CASE Request
  <2>1. doc'.phase = "Deleting" \/ (doc'.phase = doc.phase /\ doc'.host = doc.host)
    BY <1>1, <1>4 DEF Request, Activate, Deactivate, SetState, BindCustomDomain, RemoveCustomDomain, SetHost, Remove, TaskTypeOK
  <2> QED  BY <1>2, <2>1, WritingPublished
<1>5. CASE CertificateReady \/ LockExpires
  <2>1. doc'.phase = doc.phase /\ doc'.host = doc.host
    BY <1>1, <1>5 DEF CertificateReady, LockExpires, TaskTypeOK
  <2> QED  BY <1>2, <2>1, WritingPublished
<1> QED  BY <1>3, <1>4, <1>5

\* The published website is the one that is routed.
THEOREM PublishedKept == Spec => []PublishedIsServed
<1>1. Init => PublishedSound
  <2>1. Idle.at = "idle"
    BY DEF Idle
  <2> QED  BY <2>1 DEF Init, PublishedSound, Publishing
<1>2. ResourceInv /\ PublishedSound /\ [Next]_vars => PublishedSound'
  <2> SUFFICES ASSUME ResourceInv, PublishedSound, [Next]_vars PROVE PublishedSound'
    OBVIOUS
  <2>1. CASE UNCHANGED vars
    BY <2>1, RulesKept DEF vars, taskVars, cluster, counters, PublishedSound, Publishing
  <2>2. CASE Next
    BY <2>2, HandlerPublished, OtherPublished DEF Next, Act
  <2> QED  BY <2>1, <2>2
<1>3. PublishedSound => PublishedIsServed
  BY DEF PublishedSound, PublishedIsServed
<1> QED  BY <1>1, <1>2, <1>3, InvariantHolds, PTL DEF Spec

=============================================================================
