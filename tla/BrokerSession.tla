--------------------------- MODULE BrokerSession ---------------------------
(***************************************************************************)
(* TokenService: the one Groww session of the process, kept by request     *)
(* threads that use it through wrapped clients, by an operator who renews, *)
(* replaces or tests it, and by the startup.  Renewals and the reports of  *)
(* wrapped clients run under _state_lock; the operator's update_* and      *)
(* test_connection do not.  A step ends at each call of the broker or of   *)
(* the database and between assignments another thread can tell apart.     *)
(***************************************************************************)
EXTENDS Integers, FiniteSets

CONSTANTS
  Pollers,       \* request threads that ask for a client and call the broker
  Operators,     \* request threads of the broker endpoints
  Boot,          \* the thread that starts the process
  Free,          \* nobody holds _state_lock
  EnvKeys,       \* an API key and secret are configured in the environment
  Encrypted,     \* a credential encryption key is configured
  MaxSessions,   \* bound: sessions told apart; the last one stands for all later ones
  MaxRestarts    \* bound: restarts of the process

ASSUME SessionsAssumption == MaxSessions \in Nat \ {0} /\ MaxRestarts \in Nat
ASSUME FlagsAssumption == EnvKeys \in BOOLEAN /\ Encrypted \in BOOLEAN

Threads == Pollers \cup Operators \cup {Boot}
Sessions == 1..MaxSessions
None == 0

VARIABLES
  groww,     \* the broker: sessions issued, those alive, and its mood
  svc,       \* TokenService's fields
  row,       \* the stored credential
  lock,      \* the holder of _state_lock
  work,      \* per thread: where it is and what it holds
  restarts,
  probed,    \* history: sessions some probe has validated
  attempts   \* history: automatic mints since the cooldown last ran out

vars == <<groww, svc, row, lock, work, restarts, probed, attempts>>
history == <<probed, attempts>>

----------------------------------------------------------------------------

Statuses == {"MISSING", "CONNECTED", "TOKEN_EXPIRED", "TOKEN_INVALID", "ERROR"}
Expiries == {"unknown", "ahead", "past"}   \* the estimated daily reset
Moods == {"good", "unapproved", "down"}    \* the keys' daily approval may lapse
\* The stored status is left out: the startup replaces it before anyone is served.
Row == [token : Sessions \cup {None}, keys : BOOLEAN, validated : BOOLEAN, expiry : Expiries]

\* What load_broker_credential finds before anything was stored.
EmptyRow == [token |-> None, keys |-> FALSE, validated |-> FALSE, expiry |-> "unknown"]

Idle == [at |-> "idle", job |-> "none", tok |-> None, out |-> "none"]

\* __init__ and _load_from_db: the row over the environment.
Loaded(r) == [client |-> None, token |-> r.token, keys |-> EnvKeys \/ r.keys,
              status |-> "MISSING", validated |-> r.validated, expiry |-> r.expiry,
              cool |-> FALSE]

\* current_connection_status: a stored CONNECTED without a client is not trusted.
Shown == IF svc.status = "CONNECTED" /\ svc.client = None THEN "DISCONNECTED" ELSE svc.status

\* _compute_token_status
TokenStatus ==
  CASE Shown = "TOKEN_INVALID" -> "INVALID"
    [] Shown = "TOKEN_EXPIRED" -> "EXPIRED"
    [] Shown \notin {"TOKEN_INVALID", "TOKEN_EXPIRED", "CONNECTED"} -> "UNAVAILABLE"
    [] Shown = "CONNECTED" /\ svc.expiry = "past" -> "RENEWAL_DUE"
    [] OTHER -> "ACTIVE"

Init ==
  /\ groww = [issued |-> 0, alive |-> {}, mood |-> "good"]
  /\ row = EmptyRow
  /\ svc = Loaded(EmptyRow)
  /\ lock = Free
  /\ work = [p \in Threads |-> IF p = Boot THEN [Idle EXCEPT !.at = "start"] ELSE Idle]
  /\ restarts = 0
  /\ probed = {} /\ attempts = 0

At(p, l) == work[p].at = l
Booted == At(Boot, "idle")
Move(p, l) == work' = [work EXCEPT ![p].at = l]
Start(p, j, l) == work' = [work EXCEPT ![p] = [Idle EXCEPT !.job = j, !.at = l]]
Stop(p) == work' = [work EXCEPT ![p] = Idle]
Fail(p, o) == work' = [work EXCEPT ![p].at = "failed", ![p].tok = None, ![p].out = o]

\* The fields _persist writes; without an encryption key the secrets are not
\* among them.
Fields(s) == [token |-> IF Encrypted THEN s.token ELSE None, keys |-> Encrypted /\ s.keys,
              validated |-> s.validated, expiry |-> s.expiry]

\* The service becomes s, and thread p is about to write it to the database.
Persist(p, s) == svc' = s /\ Start(p, work[p].job, "save")

\* Mutant: the session's status for the connection's.
FailedAsToken(s, out) == IF out = "AUTH" THEN IF s.validated THEN "EXPIRED" ELSE "INVALID" ELSE "ERROR"
\* Mutant: every failure of a validated session counts as its expiry.
FailedAlways(s, out) == IF s.validated THEN "TOKEN_EXPIRED" ELSE "TOKEN_INVALID"

\* What an authentication failure makes of the status, and any other of it.
Failed(s, out) ==
  IF out = "AUTH" THEN IF s.validated THEN "TOKEN_EXPIRED" ELSE "TOKEN_INVALID" ELSE "ERROR"

----------------------------------------------------------------------------
(* The broker and the clock *)

Serial == IF groww.issued < MaxSessions THEN groww.issued + 1 ELSE MaxSessions
Issue == [groww EXCEPT !.issued = Serial, !.alive = @ \cup {Serial}]

\* classify_failure: what a call with session t meets.
Meets(t) == IF groww.mood = "down" THEN "TRANSIENT" ELSE IF t \in groww.alive THEN "OK" ELSE "AUTH"

\* The network fails or recovers; the keys' daily approval is given or lapses.
Weather ==
  /\ \E m \in Moods \ {groww.mood} : groww' = [groww EXCEPT !.mood = m]
  /\ UNCHANGED <<svc, row, lock, work, restarts, history>>

Revoke ==
  /\ \E t \in groww.alive \ {MaxSessions} : groww' = [groww EXCEPT !.alive = @ \ {t}]
  /\ UNCHANGED <<svc, row, lock, work, restarts, history>>

\* The estimated reset time passes, whatever the broker really does then.
ResetTime ==
  LET Past(r) == IF r.expiry = "ahead" THEN [r EXCEPT !.expiry = "past"] ELSE r IN
  /\ svc.expiry = "ahead"
  /\ svc' = Past(svc)
  /\ row' = Past(row)
  /\ UNCHANGED <<groww, lock, work, restarts, history>>

\* _REAUTH_COOLDOWN_SECONDS have passed since the last attempt.
CoolDown ==
  /\ svc.cool
  /\ svc' = [svc EXCEPT !.cool = FALSE]
  /\ attempts' = 0
  /\ UNCHANGED <<groww, row, lock, work, restarts, probed>>

----------------------------------------------------------------------------
(* effective_client *)

\* Mutant: the cooldown is not consulted.
RenewingEagerly == svc.keys /\ (svc.client = None \/ svc.expiry = "past")
\* Mutant: a dead session is left for its estimated reset to renew.
RenewingOnTime == svc.keys /\ svc.expiry = "past" /\ ~svc.cool

\* What _reauthenticate is called for, and does not decline.
Renewing ==
  /\ svc.keys
  /\ svc.client = None \/ svc.expiry = "past"
  /\ ~svc.cool

Ask(p) ==
  /\ At(p, "idle") /\ Booted /\ lock = Free
  /\ ~Renewing
  /\ Start(p, "use", "check")
  /\ UNCHANGED <<groww, svc, row, lock, restarts, history>>

Renew(p) ==
  /\ At(p, "idle") /\ Booted /\ lock = Free
  /\ Renewing
  /\ lock' = p
  /\ svc' = [svc EXCEPT !.cool = TRUE]
  /\ attempts' = attempts + 1
  /\ Start(p, "use", "mint")
  /\ UNCHANGED <<groww, row, restarts, probed>>

\* After the lock is released: no session, or a wrapper around the one there is.
Check(p) ==
  /\ At(p, "check")
  /\ IF svc.client = None THEN Stop(p) ELSE Move(p, "wrap")
  /\ UNCHANGED <<groww, svc, row, lock, restarts, history>>

\* The field is read a second time; a wrapper around nothing fails when used.
Wrap(p) ==
  /\ At(p, "wrap")
  /\ IF svc.client = None THEN Stop(p)
     ELSE work' = [work EXCEPT ![p].job = "call", ![p].at = "call", ![p].tok = svc.client]
  /\ UNCHANGED <<groww, svc, row, lock, restarts, history>>

\* _TrackedClient: a call and, later, its report.  An endpoint the account may
\* not use fails for itself only.
Call(p) ==
  /\ At(p, "call")
  /\ \E out \in {Meets(work[p].tok)} \cup IF Meets(work[p].tok) = "OK" THEN {"CAPABILITY"} ELSE {} :
       work' = [work EXCEPT ![p].at = "report", ![p].tok = None, ![p].out = out]
  /\ UNCHANGED <<groww, svc, row, lock, restarts, history>>

\* Mutant: an authentication failure keeps the client.
ReportedKeeping(s, out) ==
  CASE out = "OK" /\ s.status = "ERROR" /\ s.client # None -> [s EXCEPT !.status = "CONNECTED"]
    [] out \in {"AUTH", "TRANSIENT"} -> [s EXCEPT !.status = Failed(s, out)]
    [] OTHER -> s

\* mark_successful_request and mark_failed_request on the service's fields.
Reported(s, out) ==
  CASE out = "OK" /\ s.status = "ERROR" /\ s.client # None -> [s EXCEPT !.status = "CONNECTED"]
    [] out = "AUTH" -> [s EXCEPT !.status = Failed(s, out), !.client = None]
    [] out = "TRANSIENT" -> [s EXCEPT !.status = "ERROR"]
    [] OTHER -> s

Report(p) ==
  LET s == Reported(svc, work[p].out) IN
  /\ At(p, "report") /\ lock = Free
  /\ IF s.status = svc.status THEN svc' = s /\ Stop(p) /\ UNCHANGED lock
     ELSE Persist(p, s) /\ lock' = p
  /\ UNCHANGED <<groww, row, restarts, history>>

----------------------------------------------------------------------------
(* Minting, probing and installing a session *)

\* Mutant: a minted session is installed without being probed.
MintBlindly(p) ==
  /\ At(p, "mint") /\ groww.mood = "good"
  /\ groww' = Issue
  /\ work' = [work EXCEPT ![p].at = "install", ![p].tok = Serial]
  /\ UNCHANGED <<svc, row, lock, restarts, history>>

\* GrowwAPI.get_access_token
Mint(p) ==
  /\ At(p, "mint")
  /\ \/ /\ groww.mood = "good"
        /\ groww' = Issue
        /\ work' = [work EXCEPT ![p].at = "probe", ![p].tok = Serial]
     \/ groww.mood = "unapproved" /\ (Fail(p, "AUTH") \/ Fail(p, "CAPABILITY")) /\ UNCHANGED groww
     \/ groww.mood = "down" /\ Fail(p, "TRANSIENT") /\ UNCHANGED groww
  /\ UNCHANGED <<svc, row, lock, restarts, history>>

\* _activate: the profile call that validates the session ...
Probe(p) ==
  LET t == work[p].tok IN
  /\ At(p, "probe")
  /\ IF Meets(t) = "OK" THEN Move(p, "install") /\ probed' = probed \cup {t}
     ELSE Fail(p, Meets(t)) /\ UNCHANGED probed
  /\ UNCHANGED <<groww, svc, row, lock, restarts, attempts>>

\* ... then the client and the token, and only afterwards the status.
Install(p) ==
  /\ At(p, "install")
  /\ svc' = [svc EXCEPT !.client = work[p].tok, !.token = work[p].tok]
  /\ Start(p, work[p].job, "confirm")
  /\ UNCHANGED <<groww, row, lock, restarts, history>>

Confirm(p) ==
  /\ At(p, "confirm")
  /\ svc' = [svc EXCEPT !.status = "CONNECTED", !.validated = TRUE]
  /\ Move(p, "settle")
  /\ UNCHANGED <<groww, row, lock, restarts, history>>

\* _set_fresh_token_lifecycle, or _ensure_token_lifecycle_initialized for a
\* stored session; new credentials are kept once they have minted one.
Settle(p) ==
  /\ At(p, "settle")
  /\ Persist(p, [svc EXCEPT
       !.expiry = IF work[p].job = "reuse" /\ @ # "unknown" THEN @ ELSE "ahead",
       !.keys = @ \/ work[p].job = "configure"])
  /\ UNCHANGED <<groww, row, lock, restarts, history>>

\* Mutant: a new session the broker rejects costs the old one.
GiveUpSession(p) ==
  /\ At(p, "failed")
  /\ Persist(p, IF work[p].out = "AUTH" THEN Reported(svc, "AUTH") ELSE svc)
  /\ UNCHANGED <<groww, row, lock, restarts, history>>

\* A failed renewal leaves the session as it is; _handle_failed_activation
\* downgrades a status only when there is no session; the startup goes on from
\* the stored session to the keys.
GiveUp(p) ==
  LET w == work[p] IN
  /\ At(p, "failed")
  /\ \/ w.job \in {"use", "force"} /\ Persist(p, svc)
     \/ /\ w.job \in {"paste", "configure"}
        /\ Persist(p, IF svc.client = None THEN [svc EXCEPT !.status = Failed(svc, w.out)] ELSE svc)
     \/ /\ w.job = "reuse" /\ svc.keys
        /\ svc' = [svc EXCEPT !.status = Failed(svc, w.out)]
        /\ Start(p, "start", "mint")
     \/ w.job = "reuse" /\ ~svc.keys /\ Persist(p, [svc EXCEPT !.status = Failed(svc, w.out)])
     \/ w.job = "start" /\ Persist(p, [svc EXCEPT !.status = "ERROR"])
  /\ UNCHANGED <<groww, row, lock, restarts, history>>

\* save_broker_credential: only the fields passed are updated, and a database
\* error is swallowed.  (After the last restart of the bound no one reads the row
\* again, and it stays.)  The lock is released and a renewal goes on to its client.
Save(p) ==
  LET r == Fields(svc) IN
  /\ At(p, "save")
  /\ row' \in {row} \cup IF restarts = MaxRestarts THEN {} ELSE {[r EXCEPT !.token = IF @ = None THEN row.token ELSE @, !.keys = @ \/ row.keys]}
  /\ lock' = IF lock = p THEN Free ELSE lock
  /\ IF work[p].job = "use" THEN Start(p, "use", "check") ELSE Stop(p)
  /\ UNCHANGED <<groww, svc, restarts, history>>

----------------------------------------------------------------------------
(* The operator's endpoints *)

\* reauthenticate: under the lock, whatever the cooldown.
Reauthenticate(p) ==
  /\ At(p, "idle") /\ Booted /\ lock = Free
  /\ svc.keys
  /\ lock' = p
  /\ svc' = [svc EXCEPT !.cool = TRUE]
  /\ Start(p, "force", "mint")
  /\ UNCHANGED <<groww, row, restarts, history>>

\* update_access_token: a session obtained elsewhere just now, or an older one.
Paste(p) ==
  /\ At(p, "idle") /\ Booted
  /\ \E t \in 1..Serial :
       /\ groww' = IF t > groww.issued THEN Issue ELSE groww
       /\ work' = [work EXCEPT ![p] = [Idle EXCEPT !.job = "paste", !.at = "probe", !.tok = t]]
  /\ UNCHANGED <<svc, row, lock, restarts, history>>

\* update_credentials
Configure(p) ==
  /\ At(p, "idle") /\ Booted
  /\ Start(p, "configure", "mint")
  /\ UNCHANGED <<groww, svc, row, lock, restarts, history>>

\* test_connection: without a client nothing is called ...
TestNothing(p) ==
  /\ At(p, "idle") /\ Booted
  /\ svc.client = None
  /\ Persist(p, IF svc.token = None /\ ~svc.keys THEN [svc EXCEPT !.status = "MISSING"] ELSE svc)
  /\ UNCHANGED <<groww, row, lock, restarts, history>>

Test(p) ==
  /\ At(p, "idle") /\ Booted
  /\ svc.client # None
  /\ Start(p, "test", "test")
  /\ UNCHANGED <<groww, svc, row, lock, restarts, history>>

\* ... with one the field is read again, and may be empty by then.
TestCall(p) ==
  LET out == Meets(svc.client) IN
  /\ At(p, "test")
  /\ IF svc.client = None THEN Stop(p) /\ UNCHANGED probed
     ELSE /\ work' = [work EXCEPT ![p].at = "tested", ![p].out = out]
          /\ probed' = IF out = "OK" THEN probed \cup {svc.client} ELSE probed
  /\ UNCHANGED <<groww, svc, row, lock, restarts, attempts>>

Tested(p) ==
  LET out == work[p].out IN
  /\ At(p, "tested")
  /\ Persist(p, CASE out = "OK" -> [svc EXCEPT !.status = "CONNECTED", !.validated = TRUE]
                  [] out = "AUTH" -> [svc EXCEPT !.status = Failed(svc, out), !.client = None]
                  [] OTHER -> [svc EXCEPT !.status = Failed(svc, out)])
  /\ UNCHANGED <<groww, row, lock, restarts, history>>

----------------------------------------------------------------------------
(* The process *)

\* auto_refresh_if_needed: the stored session first, the keys next.
Startup(p) ==
  /\ At(p, "start")
  /\ \/ /\ svc.token # None
        /\ work' = [work EXCEPT ![p] = [Idle EXCEPT !.job = "reuse", !.at = "probe", !.tok = svc.token]]
        /\ UNCHANGED svc
     \/ svc.token = None /\ svc.keys /\ Start(p, "start", "mint") /\ UNCHANGED svc
     \/ svc.token = None /\ ~svc.keys /\ Persist(p, [svc EXCEPT !.status = "MISSING"])
  /\ UNCHANGED <<groww, row, lock, restarts, history>>

Restart ==
  /\ restarts < MaxRestarts
  /\ restarts' = restarts + 1
  /\ svc' = Loaded(row)
  /\ lock' = Free
  /\ work' = [p \in Threads |-> IF p = Boot THEN [Idle EXCEPT !.at = "start"] ELSE Idle]
  /\ attempts' = 0
  /\ row' = IF restarts' = MaxRestarts THEN EmptyRow ELSE row
  /\ UNCHANGED <<groww, probed>>

\* Steps of a thread in the middle of a request, the lock aside.
Go(p) ==
  \/ Check(p) \/ Wrap(p) \/ Call(p) \/ Mint(p) \/ Probe(p) \/ Install(p) \/ Confirm(p)
  \/ Settle(p) \/ GiveUp(p) \/ Save(p) \/ TestCall(p) \/ Tested(p) \/ Startup(p)

Poll(p) == Ask(p) \/ Renew(p) \/ Report(p)
Operate(p) == Reauthenticate(p) \/ Paste(p) \/ Configure(p) \/ TestNothing(p) \/ Test(p)

Next ==
  \/ Weather \/ Revoke \/ ResetTime \/ CoolDown \/ Restart
  \/ \E p \in Threads : Go(p)
  \/ \E p \in Pollers : Poll(p)
  \/ \E p \in Operators : Operate(p)

Spec == Init /\ [][Next]_vars

\* Requests in progress go on, the cooldown runs out, and of the requests that
\* poll every few seconds some one gets a lock that is free again and again:
\* operators are not that fast.  None has to act, and no particular poller has to
\* be the one that gets the lock.
Fairness ==
  /\ \A p \in Threads : WF_vars(Go(p))
  /\ SF_vars(\E p \in Pollers : Poll(p))
  /\ WF_vars(CoolDown)

FairSpec == Spec /\ Fairness

----------------------------------------------------------------------------
(* Properties *)

Work == [at : {"idle", "start", "check", "wrap", "call", "report", "mint", "probe", "install",
               "confirm", "settle", "failed", "save", "test", "tested"},
         job : {"none", "start", "reuse", "use", "call", "force", "paste", "configure", "test"},
         tok : Sessions \cup {None}, out : {"none", "OK", "AUTH", "CAPABILITY", "TRANSIENT"}]

TypeOK ==
  /\ groww \in [issued : Sessions \cup {None}, alive : SUBSET Sessions, mood : Moods]
  /\ svc \in [client : Sessions \cup {None}, token : Sessions \cup {None}, keys : BOOLEAN,
              status : Statuses, validated : BOOLEAN, expiry : Expiries, cool : BOOLEAN]
  /\ row \in Row
  /\ lock \in Threads \cup {Free}
  /\ work \in [Threads -> Work]
  /\ restarts \in 0..MaxRestarts
  /\ probed \subseteq Sessions /\ attempts \in Nat

\* What the header shows is evidence, in every interleaving of renewals, reports
\* and unlocked updates and across restarts: CONNECTED only for a session a probe
\* has validated; a session past its estimated reset is due for renewal, and not
\* counted as lost (token_service.py:176-181, 318-322).
StatusIsEvidence ==
  /\ Shown = "CONNECTED" => svc.client \in probed
  /\ TokenStatus = "RENEWAL_DUE" => svc.client # None

\* EXPIRED and INVALID "only ever come from a real authentication failure": the
\* status turns to either in a step that handles one (lines 178-181).
ExpiryIsEvidence ==
  [][TokenStatus' \in {"EXPIRED", "INVALID"} /\ TokenStatus' # TokenStatus =>
       \E p \in Threads : work[p].out = "AUTH" /\ work'[p] # work[p]]_vars

\* However many requests find the session dead, and wait for the lock while one
\* of them mints, they ask the broker for one session per cooldown (lines 46-49).
NotHammered == attempts <= 1

\* The session in use is dropped only by a restart, or where a wrapped client
\* reports, or a test meets, an authentication failure; and it is replaced only by
\* a session a probe has validated.  A renewal, a pasted session or new keys that
\* fail, refused by the broker included, never cost it (lines 367-373, 621-628).
WorkingSessionKept ==
  [][svc.client # None /\ svc'.client # svc.client =>
       \/ restarts' # restarts
       \/ svc'.client \in probed'
       \/ \E p \in Threads : /\ work[p].at \in {"report", "tested"} /\ work[p].out = "AUTH"
                          /\ work'[p] # work[p]]_vars

\* While the broker stays reachable and the keys approved, the service has a
\* working session again and again, whatever was revoked, pasted, or dropped by
\* a late report before.
Recovers ==
  <>[](groww.mood = "good") =>
    []<>(~svc.keys \/ svc.client \in groww.alive)

\* A dead session is not kept: the next calls find it out, with keys or without.
DeadIsNoticed ==
  <>[](groww.mood # "down") =>
    (svc.client \notin groww.alive \cup {None} ~> svc.client \in groww.alive \cup {None})

\* "The token itself is now confirmed bad ... and the client is discarded so no
\* further call can be attempted against a token already known to be dead"
\* (lines 438-441): a report discards a session only when that one is dead.
DiscardsOnlyTheDead ==
  [][svc.client \in groww.alive /\ svc'.client = None => restarts' # restarts]_vars
=============================================================================
