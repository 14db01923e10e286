------------------------------- MODULE Intake -------------------------------
(***************************************************************************)
(* The intake engine (intake_engine.rs) with its captcha arms              *)
(* (captcha_recaptcha.rs), the contact declaration (intake_contact.rs),    *)
(* the notifier port, and the two public verbs that share its rate books.  *)
(*                                                                         *)
(* Every call is a record that walks through the frozen order of the       *)
(* executor; a message has the number of the call that wrote it.  The      *)
(* books live in the process: a restart empties them and drops the calls   *)
(* in flight.  Any statement may fail with a database error.               *)
(***************************************************************************)
EXTENDS Naturals, Sequences, FiniteSets

CONSTANTS
    Calls,          \* as many as a run makes
    Requests,       \* what each call may send, see RequestType
    Configs,        \* how the host composed the engine, see ConfigType
    Sites, Clients, Ports, Sessions,
    None,
    IdentityLimit, IpLimit,      \* of ContactIntake
    MaxHour, MaxLives

VARIABLES config, books, hour, life, call, messages, audits, heard

vars == <<config, books, hour, life, call, messages, audits, heard>>

Payloads == {"valid", "no name", "unknown field", "not JSON", "long name", "no email",
             "long email", "no address", "no message", "long message", "NUL byte"}
SecretFaultCodes == {"missing-input-secret", "invalid-input-secret", "bad-secret"}
Replies == {"lost", "success", "timeout-or-duplicate"} \cup SecretFaultCodes

\* `forged` are the X-Forwarded-For hops the caller wrote itself.  public_intake gives no
\* `session`: a host that calls the executor itself may.
RequestType == [verb : {"contact", "heartbeat", "other"}, site : Sites \cup {None},
                client : Clients, port : Ports, forged : Seq(Clients),
                session : Sessions \cup {None}, token : BOOLEAN, payload : Payloads,
                disabled : BOOLEAN]
ConfigType == [selector : {"", "turnstile", "recaptcha", "hcaptcha"},
               secrets : SUBSET {"turnstile", "recaptcha"}, pepper : BOOLEAN,
               wired : BOOLEAN, proxied : BOOLEAN]

ASSUME CallsAssumption == IsFiniteSet(Calls)
ASSUME RequestsAssumption == Requests \in [Calls -> SUBSET RequestType]
ASSUME ConfigsAssumption == Configs \subseteq ConfigType
ASSUME BoundsAssumption == IdentityLimit \in Nat /\ IpLimit \in Nat /\ MaxHour \in Nat /\ MaxLives \in Nat

Init ==
    /\ config \in Configs
    /\ books = {} /\ hour = 0 /\ life = 0
    /\ call = [c \in Calls |-> [pc |-> "new"]]
    /\ messages = {} /\ audits = {} /\ heard = {}

-----------------------------------------------------------------------------
(* The caller's address and the captcha verdict. *)

\* A reverse proxy appends the address it was called from.
Hops(req) == IF config.proxied THEN Append(req.forged, req.client) ELSE req.forged
\* SocketAddr prints its port.
Socket(req) == IF config.proxied THEN <<"proxy", req.port>> ELSE <<req.client, req.port>>

\* A wrong variant: the leftmost hop.
FirstHopVisitorIp(req) == IF config.proxied /\ Hops(req) # << >> THEN Hops(req)[1] ELSE Socket(req)

VisitorIp(req) == IF config.proxied /\ Hops(req) # << >>
                  THEN Hops(req)[Len(Hops(req))]
                  ELSE Socket(req)

Provider == IF config.selector \in {"", "turnstile"} THEN "turnstile"
            ELSE IF config.selector = "recaptcha" THEN "recaptcha"
            ELSE "unknown"

SecretFaults(provider) == IF provider = "turnstile" THEN SecretFaultCodes
                          ELSE SecretFaultCodes \ {"bad-secret"}

\* The verifier's answer to one token: only `success` passes.
Verdict(token, reply) ==
    IF Provider = "unknown" THEN "CaptchaProviderUnknown"
    ELSE IF Provider \notin config.secrets THEN "TurnstileNotConfigured"
    ELSE IF ~token THEN "TurnstileRefused"
    ELSE IF reply = "lost" THEN "TurnstileUnreachable"
    ELSE IF reply = "success" THEN "Ok"
    ELSE IF reply \in SecretFaults(Provider) THEN "TurnstileMisconfigured"
    ELSE "TurnstileRefused"

-----------------------------------------------------------------------------
(* The rate books: one window per key, under one mutex. *)

\* A wrong variant: heartbeats without a namespace of their own.
SharedHeartbeatKey(req) == [verb |-> "contact", kind |-> "ip", of |-> <<VisitorIp(req)>>]

IpKey(req) == [verb |-> "contact", kind |-> "ip", of |-> <<VisitorIp(req)>>]
IdentityKey(req) == [verb |-> "contact", kind |-> "id", of |-> <<VisitorIp(req), req.session>>]
HeartbeatKey(req) == [verb |-> "heartbeat", kind |-> "ip", of |-> <<req.site, VisitorIp(req)>>]

\* A wrong variant: a window that is never reset.
LastingCountIn(book, key, h) == LET w == {e \in book : e.key = key}
                                IN  IF w = {} THEN 0 ELSE (CHOOSE e \in w : TRUE).count

CountIn(book, key, h) == LET w == {e \in book : e.key = key /\ e.hour = h}
                         IN  IF w = {} THEN 0 ELSE (CHOOSE e \in w : TRUE).count

Full(book, key, limit, h) == CountIn(book, key, h) >= limit

\* The entry of `key` restarts when the hour has turned; a full window stays as it is.
Bump(book, key, limit, h) ==
    LET n == CountIn(book, key, h)
    IN  {e \in book : e.key # key} \cup
        {[key |-> key, hour |-> h, count |-> IF n >= limit THEN n ELSE n + 1]}

-----------------------------------------------------------------------------
(* The handlers. *)

At(c, label) == call[c].pc = label
Goto(c, label) == call' = [call EXCEPT ![c].pc = label]
Answer(c, a) == call' = [call EXCEPT ![c].pc = "done", ![c].answer = a]
Refuse(c, e) == call' = [call EXCEPT ![c].pc = "refuse", ![c].answer = e]
StoreKept == UNCHANGED <<messages, audits, heard>>
ClockKept == UNCHANGED <<config, hour, life>>

Begun(req, label, answer) == [pc |-> label, req |-> req, reply |-> "none", bumped |-> {},
                              life |-> life, answer |-> answer]

\* public_intake: the hostname, the verb, and the typed payload.
BeginIntake(c) ==
    /\ At(c, "new")
    /\ \E req \in Requests[c] :
         /\ req.verb # "heartbeat"
         /\ call' = [call EXCEPT ![c] =
              IF req.site = None THEN Begun(req, "done", "WebsiteNotResolved")
              ELSE IF req.verb # "contact" THEN Begun(req, "done", "NotFound")
              ELSE IF req.payload = "unknown field" THEN Begun(req, "done", "IntakeFieldRejected")
              ELSE IF req.payload = "not JSON" THEN Begun(req, "done", "IntakeValidationFailed")
              ELSE Begun(req, "captcha", "none")]
    /\ UNCHANGED books /\ StoreKept /\ ClockKept

\* visitor_heartbeat up to its rate fence; what follows it is in Visitors.
Heartbeat(c) ==
    /\ At(c, "new")
    /\ \E req \in Requests[c] :
         LET key == HeartbeatKey(req)
             full == Full(books, key, IpLimit, hour)
         IN  /\ req.verb = "heartbeat"
             /\ IF req.disabled \/ req.site = None
                THEN /\ call' = [call EXCEPT ![c] = Begun(req, "done",
                            IF req.disabled THEN "Untracked" ELSE "WebsiteNotResolved")]
                     /\ UNCHANGED books
                ELSE /\ books' = Bump(books, key, IpLimit, hour)
                     /\ call' = [call EXCEPT ![c] =
                          [Begun(req, "done", IF full THEN "HeartbeatRateLimited" ELSE "Tracked")
                             EXCEPT !.bumped = IF full THEN {} ELSE {<<key, hour>>}]]
    /\ StoreKept /\ ClockKept

Verify(c) ==
    /\ At(c, "captcha")
    /\ \E reply \in Replies :
         LET v == Verdict(call[c].req.token, reply)
         IN  call' = [call EXCEPT ![c].pc = IF v = "Ok" THEN "rate" ELSE "refuse",
                                  ![c].reply = IF v = "Ok" THEN reply ELSE @,
                                  ![c].answer = IF v = "Ok" THEN @ ELSE v]
    /\ UNCHANGED books /\ StoreKept /\ ClockKept

Refused(payload) == payload \in {"long name", "no email", "long email", "no address",
                                 "no message", "long message"}

\* Arm the identity window when a session is presented, then the ip window, which reads
\* the clock again; then the declaration's own validation.
Admit(c, later) ==
    LET req == call[c].req
        identity == IdentityKey(req)
        named == req.session # None
        first == IF named THEN Bump(books, identity, IdentityLimit, hour) ELSE books
        stopped == named /\ Full(books, identity, IdentityLimit, hour)
        full == Full(first, IpKey(req), IpLimit, later)
        counted == IF named THEN {<<identity, hour>>} ELSE {}
    IN  IF named /\ ~config.pepper
        THEN Refuse(c, "VisitorPepperNotConfigured") /\ UNCHANGED books
        ELSE IF stopped
        THEN Refuse(c, "IntakeRateLimited") /\ books' = first
        ELSE /\ books' = Bump(first, IpKey(req), IpLimit, later)
             /\ call' = [call EXCEPT
                  ![c].bumped = counted \cup (IF full THEN {} ELSE {<<IpKey(req), later>>}),
                  ![c].pc = IF full \/ Refused(req.payload) THEN "refuse" ELSE "persist",
                  ![c].answer = IF full THEN "IntakeRateLimited"
                                ELSE IF Refused(req.payload) THEN "IntakeValidationFailed" ELSE @]

ArmRateBuckets(c) ==
    /\ At(c, "rate")
    /\ \E later \in {hour, hour + 1} :
         /\ later <= MaxHour
         /\ Admit(c, later)
         /\ hour' = later
    /\ StoreKept /\ UNCHANGED <<config, life>>

\* The refusal's audit row; when it cannot be written the caller gets its error instead.
AuditRefusal(c) ==
    /\ At(c, "refuse")
    /\ \/ audits' = audits \cup {<<"intake_refused", c>>} /\ Answer(c, call[c].answer)
       \/ UNCHANGED audits /\ Answer(c, "Db")
    /\ UNCHANGED <<books, messages, heard>> /\ ClockKept

\* A wrong variant: the receipt is written before the commit, and the commit may fail.
EagerPersist(c) ==
    /\ At(c, "persist")
    /\ audits' = audits \cup {<<"intake_received", c>>} /\ Goto(c, "commit")
    /\ UNCHANGED <<books, messages, heard>> /\ ClockKept

\* BEGIN, SAVEPOINT, the INSERT, and the way back to the savepoint.  Postgres takes no
\* NUL byte in a text.
Persist(c) ==
    /\ At(c, "persist")
    /\ \/ call[c].req.payload # "NUL byte" /\ Goto(c, "commit")
       \/ Refuse(c, "IntakeRefused")
       \/ Answer(c, "Db")
    /\ UNCHANGED books /\ StoreKept /\ ClockKept

\* When it fails the row may be there all the same: the acknowledgement was lost.
Commit(c) ==
    /\ At(c, "commit")
    /\ \/ /\ messages' = messages \cup {[id |-> c, notified |-> FALSE]}
          /\ Goto(c, "received") \/ Answer(c, "Db")
       \/ UNCHANGED messages /\ Answer(c, "Db")
    /\ UNCHANGED <<books, audits, heard>> /\ ClockKept

AuditReceived(c) ==
    /\ At(c, "received")
    /\ \/ audits' = audits \cup {<<"intake_received", c>>} /\ Goto(c, "notify")
       \/ UNCHANGED audits /\ Answer(c, "Db")
    /\ UNCHANGED <<books, messages, heard>> /\ ClockKept

\* A wrong variant: the unwired port is waited for.
WaitingNotify(c) ==
    /\ At(c, "notify") /\ config.wired
    /\ heard' = heard \cup {c} /\ Goto(c, "mark")
    /\ UNCHANGED <<books, messages, audits>> /\ ClockKept

\* Only a wired adapter hears anything, and only then is the row marked.
Notify(c) ==
    /\ At(c, "notify")
    /\ IF config.wired
       THEN heard' = heard \cup {c} /\ Goto(c, "mark")
       ELSE UNCHANGED heard /\ Answer(c, "Received")
    /\ UNCHANGED <<books, messages, audits>> /\ ClockKept

\* The mark is best effort, its BEGIN is not.
Mark(c) ==
    /\ At(c, "mark")
    /\ \/ /\ messages' = {IF m.id = c THEN [m EXCEPT !.notified = TRUE] ELSE m : m \in messages}
          /\ Answer(c, "Notified")
       \/ UNCHANGED messages /\ Answer(c, "Notified")
       \/ UNCHANGED messages /\ Answer(c, "Db")
    /\ UNCHANGED <<books, audits, heard>> /\ ClockKept

Tick ==
    /\ hour < MaxHour /\ hour' = hour + 1
    /\ UNCHANGED <<config, books, life, call>> /\ StoreKept

InFlight(c) == call[c].pc \notin {"new", "done"}

\* The process dies and starts again.
Restart ==
    /\ life < MaxLives /\ life' = life + 1
    /\ books' = {}
    /\ call' = [c \in Calls |-> IF InFlight(c)
                                THEN [call[c] EXCEPT !.pc = "done", !.answer = "lost"] ELSE call[c]]
    /\ StoreKept /\ UNCHANGED <<config, hour>>

Own(c) == \/ ArmRateBuckets(c) \/ AuditRefusal(c) \/ Persist(c) \/ Commit(c)
          \/ AuditReceived(c) \/ Notify(c) \/ Mark(c)

Next ==
    \/ \E c \in Calls : BeginIntake(c) \/ Heartbeat(c) \/ Verify(c) \/ Own(c)
    \/ Tick \/ Restart

Spec == Init /\ [][Next]_vars

\* A task keeps running the statements of its own call.  The captcha endpoint need not
\* answer: the client sets no timeout.
FairSpec == Spec /\ \A c \in Calls : WF_vars(Own(c))

-----------------------------------------------------------------------------
(* Properties. *)

\* The calls of this process.
Counted(c) == ~At(c, "new") /\ call[c].life = life
Stored(c) == \E m \in messages : m.id = c
ByKey(key, h) == {c \in Calls : Counted(c) /\ <<key, h>> \in call[c].bumped}

\* "No passthrough on any error path": what is stored was verified by the provider the
\* host selected, under a secret of its own.
StoredOnlyVerified ==
    \A m \in messages : /\ call[m.id].reply = "success" /\ call[m.id].req.token
                        /\ Provider \in config.secrets

\* A message is marked notified only when the officer's adapter heard of it, and the
\* adapter hears only of messages that are durable and on record.
MarkedOnlyWhenHeard ==
    /\ \A m \in messages : m.notified => m.id \in heard
    /\ \A c \in heard : Stored(c) /\ <<"intake_received", c>> \in audits
    /\ \A c \in Calls : call[c].pc = "done" /\ call[c].answer = "Notified" => c \in heard

\* The books count exactly the calls this process let through, one window per key; a
\* message belongs to one call that committed and was verified, and tells who heard of it.
IntakeInv ==
    /\ config \in Configs /\ hour \in 0..MaxHour /\ life \in 0..MaxLives
    /\ \A e \in books : e.count = Cardinality(ByKey(e.key, e.hour))
    /\ \A e, f \in books : e.key = f.key => e = f
    /\ \A m, n \in messages : m.id = n.id => m = n
    /\ \A m \in messages : call[m.id].pc \in {"received", "notify", "mark", "done"}
    /\ \A c \in Calls : call[c].pc = "done" => call[c].answer # "none"
    /\ StoredOnlyVerified /\ MarkedOnlyWhenHeard

\* "20 per IP per hour", whatever hops a caller writes into its header (public_routes.rs,
\* visitor_ip): of the calls one client makes in an hour, no more pass the ip window.
ClientWithinLimit ==
    \A who \in Clients, h \in 0..MaxHour :
      Cardinality({c \in Calls : /\ Counted(c) /\ call[c].req.client = who
                                 /\ call[c].req.verb = "contact"
                                 /\ \E b \in call[c].bumped : b[2] = h /\ b[1].kind = "ip"})
        <= IpLimit

\* The calls of the requester's client and verb that a window of this kind let through.
UsedUp(r, kind, h) == {d \in Calls : /\ Counted(d) /\ call[d].req.client = r.client
                                     /\ call[d].req.verb = r.verb
                                     /\ \E b \in call[d].bumped : b[1].kind = kind /\ b[2] = h}

FullIfRefused(c) ==
    LET r == call'[c].req
    IN  /\ (At(c, "rate") /\ call'[c].answer = "IntakeRateLimited") =>
             \/ Cardinality(UsedUp(r, "ip", hour')) = IpLimit
             \/ /\ r.session # None
                /\ Cardinality({d \in UsedUp(r, "id", hour) : call[d].req.session = r.session})
                     = IdentityLimit
        /\ (At(c, "new") /\ ~At(c, "new")' /\ call'[c].answer = "HeartbeatRateLimited") =>
             Cardinality({d \in UsedUp(r, "ip", hour) : call[d].req.site = r.site}) = IpLimit

\* Nobody is turned away for another's traffic: a call is refused a window only when
\* calls of the same verb and the same client have filled it.
RefusedOnlyWhenFull == [][\A c \in Calls : FullIfRefused(c)]_vars

\* The audit log tells the outcome, through failed statements and restarts: a received row
\* has its message, a refused call left none, and a refusal of the executor is on record.
AuditTellsOutcome ==
    \A c \in Calls :
      /\ <<"intake_received", c>> \in audits => Stored(c)
      /\ <<"intake_refused", c>> \in audits => ~Stored(c)
      /\ call[c].pc = "done" /\ call[c].answer \in
            {"CaptchaProviderUnknown", "TurnstileNotConfigured", "TurnstileRefused",
             "TurnstileUnreachable", "TurnstileMisconfigured", "IntakeRateLimited",
             "IntakeRefused", "VisitorPepperNotConfigured"} => <<"intake_refused", c>> \in audits
      /\ call[c].pc = "done" /\ call[c].answer \in {"Received", "Notified"} =>
            Stored(c) /\ <<"intake_received", c>> \in audits

\* Once the captcha has answered a call ends, whichever statement fails.
VerifiedCallEnds == \A c \in Calls : InFlight(c) /\ ~At(c, "captcha") ~> At(c, "done")
=============================================================================
