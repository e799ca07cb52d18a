------------------------- MODULE BrokerSessionProofs -------------------------
(***************************************************************************)
(* Proofs about BrokerSession, for any number of pollers, operators,       *)
(* sessions and restarts.                                                  *)
(***************************************************************************)
EXTENDS BrokerSession, TLAPS

Places == {"idle", "start", "check", "wrap", "call", "report", "mint", "probe", "install",
           "confirm", "settle", "failed", "save", "test", "tested"}
Jobs == {"none", "start", "reuse", "use", "call", "force", "paste", "configure", "test"}
Outs == {"none", "OK", "AUTH", "CAPABILITY", "TRANSIENT"}
Broker == [issued : Sessions \cup {None}, alive : SUBSET Sessions, mood : Moods]
Service == [client : Sessions \cup {None}, token : Sessions \cup {None}, keys : BOOLEAN,
            status : Statuses, validated : BOOLEAN, expiry : Expiries, cool : BOOLEAN]

-----------------------------------------------------------------------------
\* What the parts of a step do.

\* The thread p is at a place with a session and an outcome, the others as before.
Turned(p, place, tok, out) ==
  /\ work' \in [Threads -> Work]
  /\ \A q \in Threads \ {p} : work'[q] = work[q]
  /\ work'[p].at = place /\ work'[p].tok = tok /\ work'[p].out = out

LEMMA WorkIs == Work = [at : Places, job : Jobs, tok : Sessions \cup {None}, out : Outs]
  BY DEF Work, Places, Jobs, Outs

LEMMA IdleTyped == Idle \in Work /\ Idle = [at |-> "idle", job |-> "none", tok |-> None, out |-> "none"]
  BY DEF Idle, Work

LEMMA SetStep ==
  ASSUME work \in [Threads -> Work], NEW p \in Threads, NEW w \in Work, work' = [work EXCEPT ![p] = w]
  PROVE  Turned(p, w.at, w.tok, w.out)
  BY DEF Turned

LEMMA StartStep ==
  ASSUME work \in [Threads -> Work], NEW p \in Threads, NEW j \in Jobs, NEW l \in Places, Start(p, j, l)
  PROVE  Turned(p, l, None, "none")
<1> DEFINE w == [Idle EXCEPT !.job = j, !.at = l]
<1>1. w \in Work /\ w.at = l /\ w.tok = None /\ w.out = "none"
  BY IdleTyped, WorkIs
<1>2. work' = [work EXCEPT ![p] = w]
  BY DEF Start
<1> HIDE DEF w
<1> QED
  BY <1>1, <1>2, SetStep

LEMMA StopStep ==
  ASSUME work \in [Threads -> Work], NEW p \in Threads, Stop(p)
  PROVE  Turned(p, "idle", None, "none")
  BY IdleTyped, SetStep DEF Stop

LEMMA MoveStep ==
  ASSUME work \in [Threads -> Work], NEW p \in Threads, NEW l \in Places, Move(p, l)
  PROVE  Turned(p, l, work[p].tok, work[p].out)
<1> DEFINE w == [work[p] EXCEPT !.at = l]
<1>1. w \in Work /\ w.at = l /\ w.tok = work[p].tok /\ w.out = work[p].out
  BY WorkIs
<1>2. work' = [work EXCEPT ![p] = w]
  BY DEF Move
<1> HIDE DEF w
<1> QED
  BY <1>1, <1>2, SetStep

LEMMA GoneOn ==
  ASSUME work \in [Threads -> Work], NEW p \in Threads, NEW l \in Places,
         NEW t \in Sessions \cup {None}, NEW o \in Outs,
         work' = [work EXCEPT ![p].at = l, ![p].tok = t, ![p].out = o]
  PROVE  Turned(p, l, t, o)
<1> DEFINE w == [work[p] EXCEPT !.at = l, !.tok = t, !.out = o]
<1>1. w \in Work /\ w.at = l /\ w.tok = t /\ w.out = o
  BY WorkIs
<1>2. work' = [work EXCEPT ![p] = w]
  OBVIOUS
<1> HIDE DEF w
<1> QED
  BY <1>1, <1>2, SetStep

LEMMA FailStep ==
  ASSUME work \in [Threads -> Work], NEW p \in Threads, NEW o \in Outs, Fail(p, o)
  PROVE  Turned(p, "failed", None, o)
<1> None \in Sessions \cup {None} /\ "failed" \in Places
  BY DEF Places
<1> QED
  BY GoneOn DEF Fail

LEMMA SerialTyped ==
  ASSUME TypeOK
  PROVE  Serial \in Sessions /\ Issue \in Broker
<1>1. groww.issued \in 0..MaxSessions /\ groww \in Broker
  BY SessionsAssumption DEF TypeOK, Broker, Sessions, None
<1>2. Serial \in Sessions
  BY <1>1, SessionsAssumption DEF Serial, Sessions
<1>3. Issue \in Broker
  BY <1>1, <1>2 DEF Issue, Broker
<1> QED
  BY <1>2, <1>3

LEMMA MeetsTyped == \A t : Meets(t) \in {"TRANSIENT", "OK", "AUTH"}
  BY DEF Meets

LEMMA FailedTyped ==
  ASSUME NEW s, NEW o
  PROVE  /\ Failed(s, o) \in {"TOKEN_EXPIRED", "TOKEN_INVALID", "ERROR"}
         /\ Failed(s, o) \in Statuses
         /\ Failed(s, o) # "ERROR" => o = "AUTH"
  BY DEF Failed, Statuses

LEMMA LoadedTyped ==
  ASSUME NEW r \in Row
  PROVE  Loaded(r) \in Service /\ Loaded(r).client = None /\ Loaded(r).status = "MISSING"
  BY FlagsAssumption DEF Loaded, Row, Service, Statuses

LEMMA EmptyTyped == EmptyRow \in Row
  BY DEF EmptyRow, Row, Expiries

-----------------------------------------------------------------------------
\* The inductive invariant.

\* A thread about to install a session holds one a probe has validated, and so
\* is the session in use.
Holding(w, valid) ==
  /\ w.at = "probe" => w.tok # None
  /\ w.at = "install" => w.tok \in valid
Evidenced ==
  /\ \A p \in Threads : Holding(work[p], probed)
  /\ svc.client \in probed \cup {None}

\* An attempt starts the cooldown.
Calm == attempts = 0 \/ (attempts = 1 /\ svc.cool)

IInv == TypeOK /\ Evidenced /\ Calm

Dead == {"TOKEN_EXPIRED", "TOKEN_INVALID"}

\* Thread p is about to handle an authentication failure of a session in use.
Refused(p) == work[p].at \in {"report", "tested"} /\ work[p].out = "AUTH"

\* A step of thread p: what it may do to the service.
Served(p) ==
  /\ svc' \in Service
  /\ svc'.client # svc.client => svc'.client \in probed' \/ (svc'.client = None /\ Refused(p))
  /\ svc'.status \in Dead => svc'.status = svc.status \/ work[p].out = "AUTH"
  /\ \/ attempts' = attempts /\ (svc.cool => svc'.cool)
     \/ attempts' = attempts + 1 /\ ~svc.cool /\ svc'.cool

\* ... and to the rest.
Kept(p) ==
  /\ groww' \in Broker
  /\ row' \in Row
  /\ lock' \in Threads \cup {Free}
  /\ restarts' = restarts
  /\ probed \subseteq probed' /\ probed' \subseteq Sessions

Worked(p) ==
  /\ work' \in [Threads -> Work]
  /\ \A q \in Threads \ {p} : work'[q] = work[q]
  /\ work'[p].at # work[p].at
  /\ Holding(work'[p], probed')

LEMMA TypeIs ==
  TypeOK <=> /\ groww \in Broker /\ svc \in Service /\ row \in Row
             /\ lock \in Threads \cup {Free} /\ work \in [Threads -> Work]
             /\ restarts \in 0..MaxRestarts /\ probed \subseteq Sessions /\ attempts \in Nat
  BY DEF TypeOK, Broker, Service

\* A step that leaves the service and its history alone.
LEMMA ServiceUntouched ==
  ASSUME TypeOK, NEW p, svc' = svc, attempts' = attempts
  PROVE  Served(p)
  BY TypeIs DEF Served

LEMMA RestUntouched ==
  ASSUME TypeOK, NEW p, UNCHANGED <<groww, row, restarts, probed>>, lock' \in {lock, p, Free}, p \in Threads
  PROVE  Kept(p)
  BY TypeIs DEF Kept

\* A turn to a place where no session is held.
LEMMA EmptyHanded ==
  ASSUME TypeOK, NEW p \in Threads, NEW l \in Places \ {"probe", "install"}, NEW t, NEW o,
         Turned(p, l, t, o), work[p].at # l
  PROVE  Worked(p)
  BY DEF Turned, Worked, Holding

LEMMA PersistStep ==
  ASSUME TypeOK, NEW p \in Threads, NEW s \in Service, Persist(p, s), work[p].at # "save",
         s.client # svc.client => s.client = None /\ Refused(p),
         s.status \in Dead => s.status = svc.status \/ work[p].out = "AUTH",
         s.cool = svc.cool, attempts' = attempts
  PROVE  Served(p) /\ Worked(p)
<1>1. work[p].job \in Jobs /\ "save" \in Places
  BY TypeIs, WorkIs DEF Places
<1>2. Turned(p, "save", None, "none")
  BY <1>1, StartStep, TypeIs DEF Persist
<1>3. Worked(p)
  BY <1>1, <1>2, EmptyHanded
<1>4. Served(p)
  BY DEF Persist, Served
<1> QED
  BY <1>3, <1>4

-----------------------------------------------------------------------------
\* The steps of a request.

LEMMA AskStep ==
  ASSUME IInv, NEW p \in Threads, Ask(p)
  PROVE  Worked(p) /\ Served(p) /\ Kept(p)
<1>1. work[p].at = "idle" /\ Start(p, "use", "check") /\ UNCHANGED <<groww, svc, row, lock, restarts, history>>
  BY DEF Ask, At
<1>2. Turned(p, "check", None, "none")
  BY <1>1, StartStep, TypeIs DEF IInv, Jobs, Places
<1>3. Worked(p)
  BY <1>1, <1>2, EmptyHanded DEF IInv, Places
<1>4. Served(p) /\ Kept(p)
  BY <1>1, ServiceUntouched, RestUntouched DEF IInv, history
<1> QED
  BY <1>3, <1>4

LEMMA RenewStep ==
  ASSUME IInv, NEW p \in Threads, Renew(p)
  PROVE  Worked(p) /\ Served(p) /\ Kept(p)
<1>1. /\ work[p].at = "idle" /\ Start(p, "use", "mint") /\ UNCHANGED <<groww, row, restarts, probed>>
      /\ ~svc.cool /\ lock' = p /\ svc' = [svc EXCEPT !.cool = TRUE] /\ attempts' = attempts + 1
  BY DEF Renew, Renewing, At
<1>2. Turned(p, "mint", None, "none")
  BY <1>1, StartStep, TypeIs DEF IInv, Jobs, Places
<1>3. Worked(p)
  BY <1>1, <1>2, EmptyHanded DEF IInv, Places
<1>4. Served(p)
  BY <1>1, TypeIs DEF IInv, Served, Service
<1>5. Kept(p)
  BY <1>1, RestUntouched DEF IInv
<1> QED
  BY <1>3, <1>4, <1>5

LEMMA CheckStep ==
  ASSUME IInv, NEW p \in Threads, Check(p)
  PROVE  Worked(p) /\ Served(p) /\ Kept(p)
<1>1. /\ work[p].at = "check" /\ (Stop(p) \/ Move(p, "wrap"))
      /\ UNCHANGED <<groww, svc, row, lock, restarts, history>>
  BY DEF Check, At
<1>2. Turned(p, "idle", None, "none") \/ Turned(p, "wrap", work[p].tok, work[p].out)
  BY <1>1, StopStep, MoveStep, TypeIs DEF IInv, Places
<1>3. Worked(p)
  BY <1>1, <1>2, EmptyHanded DEF IInv, Places
<1>4. Served(p) /\ Kept(p)
  BY <1>1, ServiceUntouched, RestUntouched DEF IInv, history
<1> QED
  BY <1>3, <1>4

LEMMA WrapStep ==
  ASSUME IInv, NEW p \in Threads, Wrap(p)
  PROVE  Worked(p) /\ Served(p) /\ Kept(p)
<1>1. work[p].at = "wrap" /\ UNCHANGED <<groww, svc, row, lock, restarts, history>>
  BY DEF Wrap, At
<1>2. ASSUME svc.client = None PROVE Worked(p)
  <2>1. Turned(p, "idle", None, "none")
    BY <1>2, StopStep, TypeIs DEF IInv, Wrap
  <2> QED
    BY <1>1, <2>1, EmptyHanded DEF IInv, Places
<1>3. ASSUME svc.client # None PROVE Worked(p)
  <2> DEFINE w == [work[p] EXCEPT !.job = "call", !.at = "call", !.tok = svc.client]
  <2>1. w \in Work /\ w.at = "call"
    BY TypeIs, WorkIs DEF IInv, Service, Jobs, Places
  <2>2. work' = [work EXCEPT ![p] = w]
    BY <1>3 DEF Wrap
  <2> HIDE DEF w
  <2>3. Turned(p, "call", w.tok, w.out)
    BY <2>1, <2>2, SetStep, TypeIs DEF IInv
  <2> QED
    BY <1>1, <2>3, EmptyHanded DEF IInv, Places
<1>4. Served(p) /\ Kept(p)
  BY <1>1, ServiceUntouched, RestUntouched DEF IInv, history
<1> QED
  BY <1>2, <1>3, <1>4

LEMMA CallStep ==
  ASSUME IInv, NEW p \in Threads, Call(p)
  PROVE  Worked(p) /\ Served(p) /\ Kept(p)
<1>1. work[p].at = "call" /\ UNCHANGED <<groww, svc, row, lock, restarts, history>>
  BY DEF Call, At
<1>2. PICK out \in Outs : work' = [work EXCEPT ![p].at = "report", ![p].tok = None, ![p].out = out]
  BY MeetsTyped DEF Call, Outs
<1>3. "report" \in Places /\ None \in Sessions \cup {None}
  BY DEF Places
<1>4. Turned(p, "report", None, out)
  BY <1>2, <1>3, GoneOn, TypeIs DEF IInv
<1>5. Worked(p)
  BY <1>1, <1>3, <1>4, EmptyHanded DEF IInv
<1>6. Served(p) /\ Kept(p)
  BY <1>1, ServiceUntouched, RestUntouched DEF IInv, history
<1> QED
  BY <1>5, <1>6

LEMMA ReportStep ==
  ASSUME IInv, NEW p \in Threads, Report(p)
  PROVE  Worked(p) /\ Served(p) /\ Kept(p)
<1> DEFINE s == Reported(svc, work[p].out)
<1>1. work[p].at = "report" /\ UNCHANGED <<groww, row, restarts, history>>
  BY DEF Report, At
<1>2. \/ svc' = s /\ Stop(p) /\ UNCHANGED lock
      \/ Persist(p, s) /\ lock' = p
  BY DEF Report
<1>3. /\ s \in Service /\ s.cool = svc.cool
      /\ s.client # svc.client => s.client = None /\ Refused(p)
      /\ s.status \in Dead => s.status = svc.status \/ work[p].out = "AUTH"
  BY <1>1, TypeIs, FailedTyped DEF IInv, Reported, Service, Statuses, Dead, None, Refused
<1> HIDE DEF s
<1>4. Kept(p)
  BY <1>1, <1>2, RestUntouched DEF IInv, history
<1>5. CASE svc' = s /\ Stop(p)
  <2>1. Turned(p, "idle", None, "none")
    BY <1>5, StopStep, TypeIs DEF IInv
  <2>2. Worked(p)
    BY <1>1, <2>1, EmptyHanded DEF IInv, Places
  <2>3. Served(p)
    BY <1>1, <1>3, <1>5 DEF Served, history
  <2> QED
    BY <1>4, <2>2, <2>3
<1>6. CASE Persist(p, s)
  <2>1. Served(p) /\ Worked(p)
    BY <1>1, <1>3, <1>6, PersistStep DEF IInv, history
  <2> QED
    BY <1>4, <2>1
<1> QED
  BY <1>2, <1>5, <1>6

-----------------------------------------------------------------------------
\* Minting, probing and installing a session.

LEMMA MintStep ==
  ASSUME IInv, NEW p \in Threads, Mint(p)
  PROVE  Worked(p) /\ Served(p) /\ Kept(p)
<1>1. work[p].at = "mint" /\ UNCHANGED <<svc, row, lock, restarts, history>>
  BY DEF Mint, At
<1>2. ASSUME groww' = Issue, work' = [work EXCEPT ![p].at = "probe", ![p].tok = Serial]
      PROVE  Worked(p)
  <2> DEFINE w == [work[p] EXCEPT !.at = "probe", !.tok = Serial]
  <2>1. w \in Work /\ w.at = "probe" /\ w.tok = Serial
    BY TypeIs, WorkIs, SerialTyped DEF IInv, Places
  <2>2. work' = [work EXCEPT ![p] = w]
    BY <1>2
  <2>3. Serial # None
    BY SerialTyped DEF IInv, Sessions, None
  <2> HIDE DEF w
  <2>4. Turned(p, "probe", Serial, w.out)
    BY <2>1, <2>2, SetStep, TypeIs DEF IInv
  <2> QED
    BY <1>1, <2>3, <2>4 DEF Worked, Turned, Holding
<1>3. ASSUME NEW o \in Outs, Fail(p, o) PROVE Worked(p)
  <2>1. Turned(p, "failed", None, o)
    BY <1>3, FailStep, TypeIs DEF IInv
  <2> QED
    BY <1>1, <2>1, EmptyHanded DEF IInv, Places
<1>4. \/ groww' = Issue /\ work' = [work EXCEPT ![p].at = "probe", ![p].tok = Serial]
      \/ groww' = groww /\ \E o \in Outs : Fail(p, o)
  BY DEF Mint, Outs
<1>5. groww' \in Broker
  BY <1>4, SerialTyped, TypeIs DEF IInv
<1>6. Served(p) /\ Kept(p)
  BY <1>1, <1>5, ServiceUntouched, TypeIs DEF IInv, history, Kept
<1> QED
  BY <1>2, <1>3, <1>4, <1>6

LEMMA ProbeStep ==
  ASSUME IInv, NEW p \in Threads, Probe(p)
  PROVE  Worked(p) /\ Served(p) /\ Kept(p)
<1> DEFINE t == work[p].tok
<1>1. work[p].at = "probe" /\ UNCHANGED <<groww, svc, row, lock, restarts, attempts>>
  BY DEF Probe, At
<1>2. t \in Sessions
  BY <1>1, TypeIs, WorkIs DEF IInv, Evidenced, Holding
<1>3. \/ Move(p, "install") /\ probed' = probed \cup {t}
      \/ Fail(p, Meets(t)) /\ probed' = probed
  BY DEF Probe
<1>4. ASSUME Move(p, "install"), probed' = probed \cup {t} PROVE Worked(p)
  <2>1. Turned(p, "install", t, work[p].out)
    BY <1>4, MoveStep, TypeIs DEF IInv, Places
  <2> QED
    BY <1>1, <1>4, <2>1 DEF Worked, Turned, Holding
<1>5. ASSUME Fail(p, Meets(t)) PROVE Worked(p)
  <2>1. Turned(p, "failed", None, Meets(t))
    BY <1>5, FailStep, MeetsTyped, TypeIs DEF IInv, Outs
  <2> QED
    BY <1>1, <2>1, EmptyHanded DEF IInv, Places
<1>6. Served(p) /\ Kept(p)
  BY <1>1, <1>2, <1>3, ServiceUntouched, TypeIs DEF IInv, Kept
<1> QED
  BY <1>3, <1>4, <1>5, <1>6

LEMMA InstallStep ==
  ASSUME IInv, NEW p \in Threads, Install(p)
  PROVE  Worked(p) /\ Served(p) /\ Kept(p)
<1>1. /\ work[p].at = "install" /\ Start(p, work[p].job, "confirm")
      /\ svc' = [svc EXCEPT !.client = work[p].tok, !.token = work[p].tok]
      /\ UNCHANGED <<groww, row, lock, restarts, history>>
  BY DEF Install, At
<1>2. work[p].tok \in probed /\ work[p].tok \in Sessions /\ work[p].job \in Jobs
  BY <1>1, TypeIs, WorkIs DEF IInv, Evidenced, Holding
<1>3. Turned(p, "confirm", None, "none")
  BY <1>1, <1>2, StartStep, TypeIs DEF IInv, Places
<1>4. Worked(p)
  BY <1>1, <1>3, EmptyHanded DEF IInv, Places
<1>5. Served(p)
  BY <1>1, <1>2, TypeIs DEF IInv, Served, Service, history
<1>6. Kept(p)
  BY <1>1, RestUntouched DEF IInv, history
<1> QED
  BY <1>4, <1>5, <1>6

LEMMA ConfirmStep ==
  ASSUME IInv, NEW p \in Threads, Confirm(p)
  PROVE  Worked(p) /\ Served(p) /\ Kept(p)
<1>1. /\ work[p].at = "confirm" /\ Move(p, "settle")
      /\ svc' = [svc EXCEPT !.status = "CONNECTED", !.validated = TRUE]
      /\ UNCHANGED <<groww, row, lock, restarts, history>>
  BY DEF Confirm, At
<1>2. Turned(p, "settle", work[p].tok, work[p].out)
  BY <1>1, MoveStep, TypeIs DEF IInv, Places
<1>3. Worked(p)
  BY <1>1, <1>2, EmptyHanded DEF IInv, Places
<1>4. Served(p)
  BY <1>1, TypeIs DEF IInv, Served, Service, Statuses, Dead, history
<1>5. Kept(p)
  BY <1>1, RestUntouched DEF IInv, history
<1> QED
  BY <1>3, <1>4, <1>5

LEMMA SettleStep ==
  ASSUME IInv, NEW p \in Threads, Settle(p)
  PROVE  Worked(p) /\ Served(p) /\ Kept(p)
<1> DEFINE e == IF work[p].job = "reuse" /\ svc.expiry # "unknown" THEN svc.expiry ELSE "ahead"
           k == svc.keys \/ work[p].job = "configure"
           s == [svc EXCEPT !.expiry = e, !.keys = k]
<1>1. work[p].at = "settle" /\ Persist(p, s) /\ UNCHANGED <<groww, row, lock, restarts, history>>
  BY DEF Settle, At
<1>2. e \in Expiries /\ k \in BOOLEAN
  BY TypeIs DEF IInv, Service, Expiries
<1> HIDE DEF e, k
<1>3. s \in Service /\ s.client = svc.client /\ s.status = svc.status /\ s.cool = svc.cool
  BY <1>2, TypeIs DEF IInv, Service
<1> HIDE DEF s
<1>4. Served(p) /\ Worked(p)
  BY <1>1, <1>3, PersistStep DEF IInv, history
<1>5. Kept(p)
  BY <1>1, RestUntouched DEF IInv, history
<1> QED
  BY <1>4, <1>5

LEMMA GiveUpStep ==
  ASSUME IInv, NEW p \in Threads, GiveUp(p)
  PROVE  Worked(p) /\ Served(p) /\ Kept(p)
<1> DEFINE f == [svc EXCEPT !.status = Failed(svc, work[p].out)]
           e == [svc EXCEPT !.status = "ERROR"]
<1>1. work[p].at = "failed" /\ UNCHANGED <<groww, row, lock, restarts, history>>
  BY DEF GiveUp, At
<1>2. \/ Persist(p, svc) \/ Persist(p, f) \/ Persist(p, e)
      \/ svc' = f /\ Start(p, "start", "mint")
  BY DEF GiveUp
<1>3. /\ f \in Service /\ f.client = svc.client /\ f.cool = svc.cool
      /\ f.status \in Dead => work[p].out = "AUTH"
  BY FailedTyped, TypeIs DEF IInv, Service, Dead
<1>4. e \in Service /\ e.client = svc.client /\ e.cool = svc.cool /\ e.status \notin Dead
  BY TypeIs DEF IInv, Service, Statuses, Dead
<1>5. Kept(p)
  BY <1>1, RestUntouched DEF IInv, history
<1> HIDE DEF f, e
<1>6. ASSUME Persist(p, svc) \/ Persist(p, f) \/ Persist(p, e) PROVE Served(p) /\ Worked(p)
  BY <1>1, <1>3, <1>4, <1>6, PersistStep, TypeIs DEF IInv, history
<1>7. ASSUME svc' = f, Start(p, "start", "mint") PROVE Served(p) /\ Worked(p)
  <2>1. Turned(p, "mint", None, "none")
    BY <1>7, StartStep, TypeIs DEF IInv, Places, Jobs
  <2>2. Worked(p)
    BY <1>1, <2>1, EmptyHanded DEF IInv, Places
  <2>3. Served(p)
    BY <1>1, <1>3, <1>7 DEF Served, history
  <2> QED
    BY <2>2, <2>3
<1> QED
  BY <1>2, <1>5, <1>6, <1>7

LEMMA FieldsTyped ==
  ASSUME NEW s \in Service
  PROVE  Fields(s) \in Row
  BY FlagsAssumption DEF Fields, Row, Service

\* Only the fields passed are updated.
LEMMA MergedTyped ==
  ASSUME NEW new \in Row, NEW old \in Row
  PROVE  [new EXCEPT !.token = IF @ = None THEN old.token ELSE @, !.keys = @ \/ old.keys] \in Row
<1> DEFINE token == IF new.token = None THEN old.token ELSE new.token
           keys == new.keys \/ old.keys
<1>1. token \in Sessions \cup {None} /\ keys \in BOOLEAN
  BY DEF Row
<1> HIDE DEF token, keys
<1>2. [new EXCEPT !.token = token, !.keys = keys] \in Row
  BY <1>1 DEF Row
<1> QED
  BY <1>2 DEF token, keys

LEMMA SaveStep ==
  ASSUME IInv, NEW p \in Threads, Save(p)
  PROVE  Worked(p) /\ Served(p) /\ Kept(p)
<1>1. /\ work[p].at = "save" /\ UNCHANGED <<groww, svc, restarts, history>>
      /\ lock' \in {lock, p, Free}
      /\ Start(p, "use", "check") \/ Stop(p)
  BY DEF Save, At
<1>2. Fields(svc) \in Row /\ row \in Row
  BY FieldsTyped, TypeIs DEF IInv
<1>3. [Fields(svc) EXCEPT !.token = IF @ = None THEN row.token ELSE @, !.keys = @ \/ row.keys] \in Row
  BY <1>2, MergedTyped
<1>4. row' \in Row
  BY <1>2, <1>3 DEF Save
<1>5. Turned(p, "check", None, "none") \/ Turned(p, "idle", None, "none")
  BY <1>1, StartStep, StopStep, TypeIs DEF IInv, Jobs, Places
<1>6. Worked(p)
  BY <1>1, <1>5, EmptyHanded DEF IInv, Places
<1>7. Served(p)
  BY <1>1, ServiceUntouched DEF IInv, history
<1>8. Kept(p)
  BY <1>1, <1>4, TypeIs DEF IInv, Kept, history
<1> QED
  BY <1>6, <1>7, <1>8

-----------------------------------------------------------------------------
\* The operator's endpoints and the startup.

LEMMA ReauthenticateStep ==
  ASSUME IInv, NEW p \in Threads, Reauthenticate(p)
  PROVE  Worked(p) /\ Served(p) /\ Kept(p)
<1>1. /\ work[p].at = "idle" /\ Start(p, "force", "mint") /\ UNCHANGED <<groww, row, restarts, history>>
      /\ lock' = p /\ svc' = [svc EXCEPT !.cool = TRUE]
  BY DEF Reauthenticate, At
<1>2. Turned(p, "mint", None, "none")
  BY <1>1, StartStep, TypeIs DEF IInv, Jobs, Places
<1>3. Worked(p)
  BY <1>1, <1>2, EmptyHanded DEF IInv, Places
<1>4. Served(p)
  BY <1>1, TypeIs DEF IInv, Served, Service, history
<1>5. Kept(p)
  BY <1>1, RestUntouched DEF IInv, history
<1> QED
  BY <1>3, <1>4, <1>5

LEMMA PasteStep ==
  ASSUME IInv, NEW p \in Threads, Paste(p)
  PROVE  Worked(p) /\ Served(p) /\ Kept(p)
<1>1. work[p].at = "idle" /\ UNCHANGED <<svc, row, lock, restarts, history>>
  BY DEF Paste, At
<1>2. PICK t \in 1..Serial :
        /\ groww' \in {groww, Issue}
        /\ work' = [work EXCEPT ![p] = [Idle EXCEPT !.job = "paste", !.at = "probe", !.tok = t]]
  BY DEF Paste
<1>3. t \in Sessions /\ t # None
  BY SerialTyped, SessionsAssumption DEF IInv, Sessions, None
<1> DEFINE w == [Idle EXCEPT !.job = "paste", !.at = "probe", !.tok = t]
<1>4. w \in Work /\ w.at = "probe" /\ w.tok = t
  BY <1>3, IdleTyped, WorkIs DEF Jobs, Places
<1>5. Turned(p, "probe", t, w.out)
  BY <1>2, <1>4, SetStep, TypeIs DEF IInv
<1> HIDE DEF w
<1>6. Worked(p)
  BY <1>1, <1>3, <1>5 DEF Worked, Turned, Holding
<1>7. Served(p)
  BY <1>1, ServiceUntouched DEF IInv, history
<1>8. Kept(p)
  BY <1>1, <1>2, SerialTyped, TypeIs DEF IInv, Kept, history
<1> QED
  BY <1>6, <1>7, <1>8

LEMMA ConfigureStep ==
  ASSUME IInv, NEW p \in Threads, Configure(p)
  PROVE  Worked(p) /\ Served(p) /\ Kept(p)
<1>1. work[p].at = "idle" /\ Start(p, "configure", "mint") /\ UNCHANGED <<groww, svc, row, lock, restarts, history>>
  BY DEF Configure, At
<1>2. Turned(p, "mint", None, "none")
  BY <1>1, StartStep, TypeIs DEF IInv, Jobs, Places
<1>3. Worked(p)
  BY <1>1, <1>2, EmptyHanded DEF IInv, Places
<1>4. Served(p) /\ Kept(p)
  BY <1>1, ServiceUntouched, RestUntouched DEF IInv, history
<1> QED
  BY <1>3, <1>4

LEMMA TestNothingStep ==
  ASSUME IInv, NEW p \in Threads, TestNothing(p)
  PROVE  Worked(p) /\ Served(p) /\ Kept(p)
<1> DEFINE m == [svc EXCEPT !.status = "MISSING"]
<1>1. /\ work[p].at = "idle" /\ UNCHANGED <<groww, row, lock, restarts, history>>
      /\ Persist(p, svc) \/ Persist(p, m)
  BY DEF TestNothing, At
<1>2. m \in Service /\ m.client = svc.client /\ m.cool = svc.cool /\ m.status \notin Dead
  BY TypeIs DEF IInv, Service, Statuses, Dead
<1> HIDE DEF m
<1>3. Served(p) /\ Worked(p)
  BY <1>1, <1>2, PersistStep, TypeIs DEF IInv, history
<1>4. Kept(p)
  BY <1>1, RestUntouched DEF IInv, history
<1> QED
  BY <1>3, <1>4

LEMMA TestStep ==
  ASSUME IInv, NEW p \in Threads, Test(p)
  PROVE  Worked(p) /\ Served(p) /\ Kept(p)
<1>1. work[p].at = "idle" /\ Start(p, "test", "test") /\ UNCHANGED <<groww, svc, row, lock, restarts, history>>
  BY DEF Test, At
<1>2. Turned(p, "test", None, "none")
  BY <1>1, StartStep, TypeIs DEF IInv, Jobs, Places
<1>3. Worked(p)
  BY <1>1, <1>2, EmptyHanded DEF IInv, Places
<1>4. Served(p) /\ Kept(p)
  BY <1>1, ServiceUntouched, RestUntouched DEF IInv, history
<1> QED
  BY <1>3, <1>4

LEMMA TestCallStep ==
  ASSUME IInv, NEW p \in Threads, TestCall(p)
  PROVE  Worked(p) /\ Served(p) /\ Kept(p)
<1> DEFINE out == Meets(svc.client)
<1>1. /\ work[p].at = "test" /\ UNCHANGED <<groww, svc, row, lock, restarts, attempts>>
      /\ \/ Stop(p) /\ probed' = probed
         \/ /\ svc.client # None
            /\ work' = [work EXCEPT ![p].at = "tested", ![p].out = out]
            /\ probed' \in {probed, probed \cup {svc.client}}
  BY DEF TestCall, At
<1>2. out \in Outs
  BY MeetsTyped DEF Outs
<1> HIDE DEF out
<1>3. probed \subseteq probed' /\ probed' \subseteq Sessions
  BY <1>1, TypeIs DEF IInv, Service
<1>4. ASSUME Stop(p) PROVE Worked(p)
  <2>1. Turned(p, "idle", None, "none")
    BY <1>4, StopStep, TypeIs DEF IInv
  <2> QED
    BY <1>1, <2>1, EmptyHanded DEF IInv, Places
<1>5. ASSUME work' = [work EXCEPT ![p].at = "tested", ![p].out = out] PROVE Worked(p)
  <2> DEFINE w == [work[p] EXCEPT !.at = "tested", !.out = out]
  <2>1. w \in Work /\ w.at = "tested"
    BY <1>2, TypeIs, WorkIs DEF IInv, Places
  <2>2. work' = [work EXCEPT ![p] = w]
    BY <1>5
  <2> HIDE DEF w
  <2>3. Turned(p, "tested", w.tok, w.out)
    BY <2>1, <2>2, SetStep, TypeIs DEF IInv
  <2> QED
    BY <1>1, <2>3, EmptyHanded DEF IInv, Places
<1>6. Served(p)
  BY <1>1, ServiceUntouched DEF IInv
<1>7. Kept(p)
  BY <1>1, <1>3, TypeIs DEF IInv, Kept
<1> QED
  BY <1>1, <1>4, <1>5, <1>6, <1>7

LEMMA TestedStep ==
  ASSUME IInv, NEW p \in Threads, Tested(p)
  PROVE  Worked(p) /\ Served(p) /\ Kept(p)
<1> DEFINE out == work[p].out
           ok == [svc EXCEPT !.status = "CONNECTED", !.validated = TRUE]
           lost == [svc EXCEPT !.status = Failed(svc, out), !.client = None]
           error == [svc EXCEPT !.status = Failed(svc, out)]
<1>1. /\ work[p].at = "tested" /\ UNCHANGED <<groww, row, lock, restarts, history>>
      /\ Persist(p, ok) \/ (Refused(p) /\ Persist(p, lost)) \/ Persist(p, error)
  BY DEF Tested, At, Refused
<1>2. ok \in Service /\ ok.client = svc.client /\ ok.cool = svc.cool /\ ok.status \notin Dead
  BY TypeIs DEF IInv, Service, Statuses, Dead
<1>3. lost \in Service /\ lost.client = None /\ lost.cool = svc.cool
  BY FailedTyped, TypeIs DEF IInv, Service
<1>4. /\ error \in Service /\ error.client = svc.client /\ error.cool = svc.cool
      /\ error.status \in Dead => work[p].out = "AUTH"
  BY FailedTyped, TypeIs DEF IInv, Service, Dead
<1> HIDE DEF ok, lost, error
<1>5. Served(p) /\ Worked(p)
  BY <1>1, <1>2, <1>3, <1>4, PersistStep DEF IInv, history, Refused
<1>6. Kept(p)
  BY <1>1, RestUntouched DEF IInv, history
<1> QED
  BY <1>5, <1>6

LEMMA StartupStep ==
  ASSUME IInv, NEW p \in Threads, Startup(p)
  PROVE  Worked(p) /\ Served(p) /\ Kept(p)
<1> DEFINE m == [svc EXCEPT !.status = "MISSING"]
           w == [Idle EXCEPT !.job = "reuse", !.at = "probe", !.tok = svc.token]
<1>1. work[p].at = "start" /\ UNCHANGED <<groww, row, lock, restarts, history>>
  BY DEF Startup, At
<1>2. \/ svc.token # None /\ work' = [work EXCEPT ![p] = w] /\ svc' = svc
      \/ Start(p, "start", "mint") /\ svc' = svc
      \/ Persist(p, m)
  BY DEF Startup
<1>3. Kept(p)
  BY <1>1, RestUntouched DEF IInv, history
<1>4. ASSUME svc.token # None, work' = [work EXCEPT ![p] = w] PROVE Worked(p)
  <2>1. w \in Work /\ w.at = "probe" /\ w.tok = svc.token
    BY IdleTyped, WorkIs, TypeIs DEF IInv, Service, Jobs, Places
  <2> HIDE DEF w
  <2>2. Turned(p, "probe", svc.token, w.out)
    BY <1>4, <2>1, SetStep, TypeIs DEF IInv
  <2> QED
    BY <1>1, <1>4, <2>2 DEF Worked, Turned, Holding
<1>5. ASSUME Start(p, "start", "mint") PROVE Worked(p)
  <2>1. Turned(p, "mint", None, "none")
    BY <1>5, StartStep, TypeIs DEF IInv, Places, Jobs
  <2> QED
    BY <1>1, <2>1, EmptyHanded DEF IInv, Places
<1>6. ASSUME svc' = svc PROVE Served(p)
  BY <1>1, <1>6, ServiceUntouched DEF IInv, history
<1>7. m \in Service /\ m.client = svc.client /\ m.cool = svc.cool /\ m.status \notin Dead
  BY TypeIs DEF IInv, Service, Statuses, Dead
<1> HIDE DEF m, w
<1>8. ASSUME Persist(p, m) PROVE Served(p) /\ Worked(p)
  BY <1>1, <1>7, <1>8, PersistStep DEF IInv, history
<1> QED
  BY <1>2, <1>3, <1>4, <1>5, <1>6, <1>8

LEMMA ThreadStep ==
  ASSUME IInv, NEW p \in Threads, Go(p) \/ Poll(p) \/ Operate(p)
  PROVE  Worked(p) /\ Served(p) /\ Kept(p)
<1>1. CASE Go(p)
  BY <1>1, CheckStep, WrapStep, CallStep, MintStep, ProbeStep, InstallStep, ConfirmStep,
     SettleStep, GiveUpStep, SaveStep, TestCallStep, TestedStep, StartupStep DEF Go
<1>2. CASE Poll(p)
  BY <1>2, AskStep, RenewStep, ReportStep DEF Poll
<1>3. CASE Operate(p)
  BY <1>3, ReauthenticateStep, PasteStep, ConfigureStep, TestNothingStep, TestStep DEF Operate
<1> QED
  BY <1>1, <1>2, <1>3

-----------------------------------------------------------------------------
\* The other steps: time, the broker and restarts.

\* All a request or an operator reads of the service stays.
Passed ==
  /\ work' = work /\ probed' = probed /\ restarts' = restarts /\ lock' = lock
  /\ groww' \in Broker /\ svc' \in Service /\ row' \in Row
  /\ svc'.client = svc.client /\ svc'.status = svc.status
  /\ attempts' = 0 \/ (attempts' = attempts /\ svc'.cool = svc.cool)

LEMMA OutsideStep ==
  ASSUME IInv, Weather \/ Revoke \/ ResetTime \/ CoolDown
  PROVE  Passed
<1>1. CASE Weather
  BY <1>1, TypeIs DEF IInv, Weather, Passed, Broker, history
<1>2. CASE Revoke
  BY <1>2, TypeIs DEF IInv, Revoke, Passed, Broker, history
<1>3. CASE ResetTime
  <2>1. UNCHANGED <<groww, lock, work, restarts, history>> /\ svc.expiry = "ahead"
    BY <1>3 DEF ResetTime
  <2>2. svc' = [svc EXCEPT !.expiry = "past"]
    BY <1>3, <2>1 DEF ResetTime
  <2>3. row' = row \/ row' = [row EXCEPT !.expiry = "past"]
    BY <1>3 DEF ResetTime
  <2>4. svc' \in Service /\ svc'.client = svc.client /\ svc'.status = svc.status /\ svc'.cool = svc.cool
    BY <2>2, TypeIs DEF IInv, Service, Expiries
  <2>5. row' \in Row
    BY <2>3, TypeIs DEF IInv, Row, Expiries
  <2> QED
    BY <2>1, <2>4, <2>5, TypeIs DEF IInv, Passed, history
<1>4. CASE CoolDown
  BY <1>4, TypeIs DEF IInv, CoolDown, Passed, Service
<1> QED
  BY <1>1, <1>2, <1>3, <1>4

\* The process starts again.
Restarted ==
  /\ work' \in [Threads -> Work]
  /\ \A p \in Threads : work'[p].at \in {"idle", "start"}
  /\ probed' = probed /\ attempts' = 0 /\ lock' = Free /\ restarts' = restarts + 1
  /\ restarts' \in 0..MaxRestarts
  /\ groww' \in Broker /\ svc' \in Service /\ row' \in Row
  /\ svc'.client = None /\ svc'.status = "MISSING"

LEMMA BootTyped ==
  LET w == [p \in Threads |-> IF p = Boot THEN [Idle EXCEPT !.at = "start"] ELSE Idle] IN
    w \in [Threads -> Work] /\ \A p \in Threads : w[p].at \in {"idle", "start"}
<1>1. [Idle EXCEPT !.at = "start"] \in Work /\ [Idle EXCEPT !.at = "start"].at = "start"
  BY IdleTyped, WorkIs DEF Places
<1>2. Idle \in Work /\ Idle.at = "idle"
  BY IdleTyped
<1> QED
  BY <1>1, <1>2

LEMMA RestartStep ==
  ASSUME IInv, Restart
  PROVE  Restarted
<1>1. restarts' \in 0..MaxRestarts
  BY SessionsAssumption, TypeIs DEF IInv, Restart
<1>2. work' \in [Threads -> Work] /\ \A p \in Threads : work'[p].at \in {"idle", "start"}
  BY BootTyped DEF Restart
<1>3. svc' \in Service /\ svc'.client = None /\ svc'.status = "MISSING"
  BY LoadedTyped, TypeIs DEF IInv, Restart
<1>4. row' \in Row
  BY EmptyTyped, TypeIs DEF IInv, Restart
<1> QED
  BY <1>1, <1>2, <1>3, <1>4, TypeIs DEF IInv, Restart, Restarted

-----------------------------------------------------------------------------
\* The invariant.

LEMMA IInvInit == Init => IInv
<1> SUFFICES ASSUME Init PROVE IInv
  OBVIOUS
<1>1. work \in [Threads -> Work] /\ \A p \in Threads : work[p].at \in {"idle", "start"}
  BY BootTyped DEF Init
<1>2. svc \in Service /\ svc.client = None
  BY LoadedTyped, EmptyTyped DEF Init
<1>3. groww \in Broker /\ row \in Row
  BY EmptyTyped DEF Init, Broker, Moods, None
<1>4. TypeOK
  BY <1>1, <1>2, <1>3, TypeIs, SessionsAssumption DEF Init
<1>5. Evidenced
  BY <1>1, <1>2 DEF Evidenced, Holding
<1>6. Calm
  BY DEF Init, Calm
<1> QED
  BY <1>4, <1>5, <1>6 DEF IInv

LEMMA IInvWorked ==
  ASSUME IInv, NEW p \in Threads, Worked(p), Served(p), Kept(p)
  PROVE  IInv'
<1>1. attempts' \in Nat
  BY TypeIs DEF IInv, Served
<1>2. TypeOK'
  BY <1>1, TypeIs DEF IInv, Worked, Served, Kept, TypeOK, Service, Broker
<1>3. \A q \in Threads : Holding(work'[q], probed')
  BY DEF IInv, Evidenced, Worked, Kept, Holding
<1>4. svc'.client \in probed' \cup {None}
  BY DEF IInv, Evidenced, Served, Kept
<1>5. Evidenced'
  BY <1>3, <1>4 DEF Evidenced
<1>6. Calm'
  BY TypeIs DEF IInv, Calm, Served, Service
<1> QED
  BY <1>2, <1>5, <1>6 DEF IInv

LEMMA IInvPassed ==
  ASSUME IInv, Passed
  PROVE  IInv'
<1>1. attempts' \in Nat
  BY TypeIs DEF IInv, Passed
<1>2. TypeOK'
  BY <1>1, TypeIs DEF IInv, Passed, TypeOK, Service, Broker
<1>3. Evidenced'
  BY DEF IInv, Evidenced, Passed
<1>4. Calm'
  BY DEF IInv, Calm, Passed
<1> QED
  BY <1>2, <1>3, <1>4 DEF IInv

LEMMA IInvRestarted ==
  ASSUME IInv, Restarted
  PROVE  IInv'
<1>1. TypeOK'
  BY TypeIs DEF IInv, Restarted, TypeOK, Service, Broker
<1>2. Evidenced'
  BY DEF Evidenced, Restarted, Holding
<1>3. Calm'
  BY DEF Calm, Restarted
<1> QED
  BY <1>1, <1>2, <1>3 DEF IInv

\* Every step is a thread's, a restart or one that passes the service by.
LEMMA Steps ==
  ASSUME IInv, [Next]_vars
  PROVE  \/ \E p \in Threads : Worked(p) /\ Served(p) /\ Kept(p)
         \/ Passed
         \/ Restarted
<1>1. ASSUME NEW p \in Threads, Go(p) \/ Poll(p) \/ Operate(p)
      PROVE  \E q \in Threads : Worked(q) /\ Served(q) /\ Kept(q)
  BY <1>1, ThreadStep
<1>2. CASE UNCHANGED vars
  BY <1>2, TypeIs DEF IInv, vars, Passed
<1>3. Pollers \subseteq Threads /\ Operators \subseteq Threads
  BY DEF Threads
<1> QED
  BY <1>1, <1>2, <1>3, OutsideStep, RestartStep DEF Next

LEMMA IInvNext == IInv /\ [Next]_vars => IInv'
  BY Steps, IInvWorked, IInvPassed, IInvRestarted

LEMMA IInvAlways == Spec => []IInv
  BY IInvInit, IInvNext, PTL DEF Spec

-----------------------------------------------------------------------------

\* The service, the stored credential and the threads keep their types, for any
\* number of threads, sessions and restarts.
THEOREM BrokerTyped == Spec => []TypeOK
<1>1. IInv => TypeOK
  BY DEF IInv
<1> QED
  BY <1>1, IInvAlways, PTL

\* token_service.py:176-181, 318-322: CONNECTED is shown only for a session a
\* probe has validated, whatever renewals, reports, pasted sessions and restarts
\* are interleaved.
THEOREM StatusHasEvidence == Spec => []StatusIsEvidence
<1>1. IInv => StatusIsEvidence
  <2> SUFFICES ASSUME IInv PROVE StatusIsEvidence
    OBVIOUS
  <2>1. Shown = "CONNECTED" => svc.client # None
    BY DEF Shown
  <2>2. TokenStatus = "RENEWAL_DUE" => Shown = "CONNECTED"
    BY DEF TokenStatus
  <2> QED
    BY <2>1, <2>2 DEF StatusIsEvidence, IInv, Evidenced
<1> QED
  BY <1>1, IInvAlways, PTL

\* token_service.py:46-49: however many requests find the session dead, the
\* broker is asked for one session per cooldown.
THEOREM BrokerNotHammered == Spec => []NotHammered
<1>1. IInv => NotHammered
  BY DEF IInv, Calm, NotHammered
<1> QED
  BY <1>1, IInvAlways, PTL

\* token_service.py:367-373, 621-628: only a reported or tested authentication
\* failure, or a restart, costs the session in use, and only a validated session
\* replaces it.
THEOREM SessionKept == Spec => WorkingSessionKept
<1> DEFINE A == svc.client # None /\ svc'.client # svc.client =>
                  \/ restarts' # restarts
                  \/ svc'.client \in probed'
                  \/ \E p \in Threads : /\ work[p].at \in {"report", "tested"} /\ work[p].out = "AUTH"
                                     /\ work'[p] # work[p]
<1>1. IInv /\ [Next]_vars => [A]_vars
  <2> SUFFICES ASSUME IInv, [Next]_vars, svc'.client # svc.client
               PROVE  \/ restarts' # restarts
                      \/ svc'.client \in probed'
                      \/ \E p \in Threads : /\ work[p].at \in {"report", "tested"} /\ work[p].out = "AUTH"
                                         /\ work'[p] # work[p]
    OBVIOUS
  <2>1. CASE \E p \in Threads : Worked(p) /\ Served(p) /\ Kept(p)
    <3>1. PICK p \in Threads : Worked(p) /\ Served(p)
      BY <2>1
    <3>2. svc'.client \in probed' \/ Refused(p)
      BY <3>1 DEF Served
    <3>3. work'[p] # work[p]
      BY <3>1 DEF Worked
    <3> QED
      BY <3>2, <3>3 DEF Refused
  <2>2. CASE Passed
    BY <2>2 DEF Passed
  <2>3. CASE Restarted
    BY <2>3, TypeIs DEF Restarted, IInv
  <2> QED
    BY <2>1, <2>2, <2>3, Steps
<1> QED
  BY <1>1, IInvAlways, PTL DEF Spec, WorkingSessionKept

LEMMA DeadIsShown ==
  (TokenStatus = "EXPIRED" <=> svc.status = "TOKEN_EXPIRED") /\ (TokenStatus = "INVALID" <=> svc.status = "TOKEN_INVALID")
  BY DEF TokenStatus, Shown

\* token_service.py:178-181: EXPIRED and INVALID are shown from a step on that
\* handles a real authentication failure.
THEOREM ExpiryHasEvidence == Spec => ExpiryIsEvidence
<1> DEFINE A == TokenStatus' \in {"EXPIRED", "INVALID"} /\ TokenStatus' # TokenStatus =>
                  \E p \in Threads : work[p].out = "AUTH" /\ work'[p] # work[p]
<1>1. IInv /\ [Next]_vars => [A]_vars
  <2> SUFFICES ASSUME IInv, [Next]_vars, TokenStatus' \in {"EXPIRED", "INVALID"}, TokenStatus' # TokenStatus
               PROVE  \E p \in Threads : work[p].out = "AUTH" /\ work'[p] # work[p]
    OBVIOUS
  <2>1. svc'.status \in Dead /\ svc'.status # svc.status
    BY DeadIsShown DEF Dead, TokenStatus, Shown
  <2>2. CASE \E p \in Threads : Worked(p) /\ Served(p) /\ Kept(p)
    BY <2>1, <2>2 DEF Worked, Served
  <2>3. CASE Passed
    BY <2>1, <2>3 DEF Passed
  <2>4. CASE Restarted
    BY <2>1, <2>4 DEF Restarted, Dead
  <2> QED
    BY <2>2, <2>3, <2>4, Steps
<1> QED
  BY <1>1, IInvAlways, PTL DEF Spec, ExpiryIsEvidence
=============================================================================
