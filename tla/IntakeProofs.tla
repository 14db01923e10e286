---------------------------- MODULE IntakeProofs ----------------------------
(***************************************************************************)
(* Intake, for every number of calls, clients, requests and restarts: the  *)
(* rate books count what they let through, nothing unverified is stored,   *)
(* and the audit log tells the outcome of each call.                       *)
(***************************************************************************)
EXTENDS Intake, FiniteSetTheorems, TLAPS

Stages == {"captcha", "rate", "refuse", "persist", "commit", "received", "notify", "mark", "done"}

Refusals == {"CaptchaProviderUnknown", "TurnstileNotConfigured", "TurnstileRefused",
             "TurnstileUnreachable", "TurnstileMisconfigured", "IntakeRateLimited",
             "IntakeRefused", "VisitorPepperNotConfigured", "IntakeValidationFailed"}

\* A call that has begun, and one that has not.
CallTyped(x) ==
    \/ x.pc = "new"
    \/ x \in [pc : Stages, req : RequestType, reply : {x.reply}, bumped : {x.bumped},
              life : 0 .. MaxLives, answer : {x.answer}]

\* What passed the captcha.
Verified(x) == x.reply = "success" /\ x.req.token /\ Provider \in config.secrets

\* A call counts in the windows of its own address and session, at an hour that was.
OwnBump(x, b) ==
    \E h \in 0 .. hour :
      \/ x.req.verb = "contact" /\ b = <<IpKey(x.req), h>>
      \/ x.req.verb = "contact" /\ x.req.session # None /\ b = <<IdentityKey(x.req), h>>
      \/ x.req.verb = "heartbeat" /\ b = <<HeartbeatKey(x.req), h>>

\* The locals of a call at each stage.
Sound(x) ==
    x.pc # "new" =>
      /\ x.life <= life
      /\ x.pc # "done" => x.life = life
      /\ x.pc \in {"captcha", "rate"} =>
           x.bumped = {} /\ x.answer = "none" /\ x.req.verb = "contact"
      /\ x.pc = "refuse" => x.answer \in Refusals
      /\ x.pc \in {"rate", "persist", "commit", "received", "notify", "mark"} => Verified(x)
      /\ x.pc = "done" => x.answer # "none"
      /\ \A b \in x.bumped : OwnBump(x, b)

MessagesOf(c) == {m \in messages : m.id = c}
Received(c) == <<"intake_received", c>> \in audits
RefusedOnRecord(c) == <<"intake_refused", c>> \in audits

\* What the tables tell of a call with the locals x.
Told(c, x) ==
    /\ Stored(c) => x.pc \in {"received", "notify", "mark", "done"} /\ Verified(x)
    /\ x.pc \in {"received", "notify", "mark"} => Stored(c)
    /\ Received(c) => Stored(c)
    /\ RefusedOnRecord(c) => x.pc = "done" /\ ~Stored(c)
    /\ x.pc \in {"notify", "mark"} => Received(c)
    /\ x.pc = "mark" => c \in heard
    /\ c \in heard => Stored(c) /\ Received(c)
    /\ \A m \in MessagesOf(c) : m.notified => c \in heard
    /\ x.pc = "done" =>
         /\ x.answer \in Refusals \ {"IntakeValidationFailed"} => RefusedOnRecord(c)
         /\ x.answer \in {"Received", "Notified"} => Stored(c) /\ Received(c)
         /\ x.answer = "Notified" => c \in heard

MessagesSound ==
    /\ messages \subseteq [id : Calls, notified : BOOLEAN]
    /\ \A m, n \in messages : m.id = n.id => m = n
    /\ heard \subseteq Calls

LimitOf(key) == IF key.kind = "id" THEN IdentityLimit ELSE IpLimit

\* The books against the calls: a window counts the calls it let through, and a call that
\* was let through has a window of its hour or a later one.
BooksSound ==
    /\ \A e \in books : /\ e.hour \in 0 .. hour
                        /\ e.count = Cardinality(ByKey(e.key, e.hour))
    /\ \A e, f \in books : e.key = f.key => e = f
    /\ \A c \in Calls : Counted(c) => \A b \in call[c].bumped :
         /\ \E e \in books : e.key = b[1] /\ e.hour >= b[2]
         /\ Cardinality(ByKey(b[1], b[2])) <= LimitOf(b[1])

CallsSound ==
    /\ config \in Configs /\ hour \in 0 .. MaxHour /\ life \in 0 .. MaxLives
    /\ call = [c \in Calls |-> call[c]]
    /\ \A c \in Calls : CallTyped(call[c]) /\ Sound(call[c]) /\ Told(c, call[c])
    /\ MessagesSound

\* The inductive invariant.
Safe == CallsSound /\ BooksSound
-----------------------------------------------------------------------------
\* Steps of one call.

\* A call that has begun has the fields of one.
LEMMA GotoLocals ==
    ASSUME CallsSound, NEW c \in Calls, call[c].pc # "new", NEW label \in Stages, Goto(c, label)
    PROVE  \E x : /\ call' = [call EXCEPT ![c] = x] /\ CallTyped(x)
                  /\ x.pc = label /\ x.answer = call[c].answer /\ x.req = call[c].req
                  /\ x.reply = call[c].reply /\ x.bumped = call[c].bumped /\ x.life = call[c].life
  <1> DEFINE x == [call[c] EXCEPT !.pc = label]
  <1>1. CallTyped(call[c])
    BY DEF CallsSound
  <1>2. /\ x.pc = label /\ x.answer = call[c].answer /\ x.req = call[c].req
        /\ x.reply = call[c].reply /\ x.bumped = call[c].bumped /\ x.life = call[c].life
    BY <1>1 DEF CallTyped
  <1>3. CallTyped(x)
    BY <1>1, <1>2 DEF CallTyped
  <1>4. call' = [call EXCEPT ![c] = x]
    BY DEF Goto
  <1> QED
    BY <1>2, <1>3, <1>4

Settles(c, label, a) == call' = [call EXCEPT ![c].pc = label, ![c].answer = a]

\* The same for a step that sets the answer too.
LEMMA AnswerLocals ==
    ASSUME CallsSound, NEW c \in Calls, call[c].pc # "new", NEW label \in Stages, NEW a,
           Settles(c, label, a)
    PROVE  \E x : /\ call' = [call EXCEPT ![c] = x] /\ CallTyped(x)
                  /\ x.pc = label /\ x.answer = a /\ x.req = call[c].req
                  /\ x.reply = call[c].reply /\ x.bumped = call[c].bumped /\ x.life = call[c].life
  <1> DEFINE x == [call[c] EXCEPT !.pc = label, !.answer = a]
  <1>1. CallTyped(call[c]) /\ call = [d \in Calls |-> call[d]]
    BY DEF CallsSound
  <1>2. /\ x.pc = label /\ x.answer = a /\ x.req = call[c].req
        /\ x.reply = call[c].reply /\ x.bumped = call[c].bumped /\ x.life = call[c].life
    BY <1>1 DEF CallTyped
  <1>3. CallTyped(x)
    BY <1>1, <1>2 DEF CallTyped
  <1>4. call' = [call EXCEPT ![c] = x]
    BY <1>1 DEF Settles
  <1> QED
    BY <1>2, <1>3, <1>4

\* An answer ends the call, a refusal is still to be audited.
LEMMA AnswerMoves ==
    ASSUME CallsSound, NEW c \in Calls, call[c].pc # "new", NEW a, Answer(c, a)
    PROVE  \E x : /\ call' = [call EXCEPT ![c] = x] /\ CallTyped(x)
                  /\ x.pc = "done" /\ x.answer = a /\ x.req = call[c].req
                  /\ x.reply = call[c].reply /\ x.bumped = call[c].bumped /\ x.life = call[c].life
  <1> DEFINE label == "done"
  <1>1. label \in Stages /\ label = "done"
    BY DEF Stages
  <1>2. Settles(c, label, a)
    BY DEF Answer, Settles
  <1> HIDE DEF label
  <1> QED
    BY <1>1, <1>2, AnswerLocals

\* A refusal takes the call to its audit row, with the answer it will give.
LEMMA RefuseMoves ==
    ASSUME CallsSound, NEW c \in Calls, call[c].pc # "new", NEW a, Refuse(c, a)
    PROVE  \E x : /\ call' = [call EXCEPT ![c] = x] /\ CallTyped(x)
                  /\ x.pc = "refuse" /\ x.answer = a /\ x.req = call[c].req
                  /\ x.reply = call[c].reply /\ x.bumped = call[c].bumped /\ x.life = call[c].life
  <1> DEFINE label == "refuse"
  <1>1. label \in Stages /\ label = "refuse"
    BY DEF Stages
  <1>2. Settles(c, label, a)
    BY DEF Refuse, Settles
  <1> HIDE DEF label
  <1> QED
    BY <1>1, <1>2, AnswerLocals

\* The address and the keys of a request stay as they are: nobody composes the engine anew.
LEMMA SoundStays ==
    ASSUME NEW x, Sound(x), config' = config, life' = life, hour \in Nat, hour' \in Nat,
           hour <= hour'
    PROVE  Sound(x)'
  <1>1. ASSUME NEW b, OwnBump(x, b)
        PROVE  OwnBump(x, b)'
    <2>1. \A h \in 0 .. hour : h \in 0 .. hour'
      OBVIOUS
    <2> QED
      BY <1>1, <2>1 DEF OwnBump, IpKey, IdentityKey, HeartbeatKey, VisitorIp, Hops, Socket
  <1>2. Verified(x) => Verified(x)'
    BY DEF Verified, Provider
  <1> QED
    BY <1>1, <1>2 DEF Sound

\* The tables say of another call what they said.
SameTold(d) ==
    /\ MessagesOf(d)' = MessagesOf(d) /\ (d \in heard' <=> d \in heard)
    /\ (Received(d)' <=> Received(d)) /\ (RefusedOnRecord(d)' <=> RefusedOnRecord(d))

\* What is on record of a call stays true while the tables say the same of it.
LEMMA ToldStays ==
    ASSUME NEW d \in Calls, NEW x, Told(d, x), SameTold(d), config' = config
    PROVE  Told(d, x)'
  <1>1. \A m : m \in MessagesOf(d)' <=> m \in MessagesOf(d)
    BY DEF SameTold
  <1>2. Stored(d)' <=> Stored(d)
    BY <1>1 DEF Stored, MessagesOf
  <1>3. Verified(x)' <=> Verified(x)
    BY DEF Verified, Provider
  <1> QED
    BY <1>1, <1>2, <1>3 DEF Told, SameTold

\* A step of c that leaves c sound and the tables true of it.
LEMMA CallStep ==
    ASSUME CallsSound, NEW c \in Calls, NEW x, call' = [call EXCEPT ![c] = x], CallTyped(x),
           Sound(x)', Told(c, x)', MessagesSound', config' = config, life' = life,
           hour' \in 0 .. MaxHour, hour <= hour', \A d \in Calls \ {c} : SameTold(d)
    PROVE  CallsSound'
  <1>1. /\ call' = [d \in Calls |-> call'[d]] /\ call'[c] = x
        /\ \A d \in Calls \ {c} : call'[d] = call[d]
        /\ hour \in Nat /\ hour' \in Nat
    BY BoundsAssumption DEF CallsSound
  <1>2. ASSUME NEW d \in Calls \ {c}
        PROVE  Sound(call[d])' /\ Told(d, call[d])'
    <2>1. PICK y : y = call[d]
      OBVIOUS
    <2>2. y = call'[d] /\ Sound(y) /\ Told(d, y)
      BY <1>1, <2>1 DEF CallsSound
    <2>3. Sound(y)' /\ Told(d, y)'
      BY <1>1, <2>2, SoundStays, ToldStays
    <2> QED
      BY <2>2, <2>3 DEF Sound, Told, Verified, OwnBump
  <1>3. Sound(call[c])' /\ Told(c, call[c])'
    BY <1>1 DEF Sound, Told, Verified, OwnBump
  <1>4. \A d \in Calls : CallTyped(call[d])'
    BY <1>1 DEF CallsSound, CallTyped
  <1> QED
    BY <1>1, <1>2, <1>3, <1>4 DEF CallsSound

\* A step of c that writes no table.
LEMMA QuietStep ==
    ASSUME CallsSound, NEW c \in Calls, NEW x, call' = [call EXCEPT ![c] = x], CallTyped(x),
           Sound(x)', Told(c, x), UNCHANGED <<messages, audits, heard, config, life>>,
           hour' \in 0 .. MaxHour, hour <= hour'
    PROVE  CallsSound'
  <1>1. \A d \in Calls : SameTold(d)
    BY DEF SameTold, MessagesOf, Received, RefusedOnRecord
  <1>2. Told(c, x)'
    BY <1>1, ToldStays
  <1>3. MessagesSound'
    BY DEF CallsSound, MessagesSound
  <1> QED
    BY <1>1, <1>2, <1>3, CallStep

\* The same when the clock stands.
LEMMA StillStep ==
    ASSUME CallsSound, NEW c \in Calls, NEW x, call' = [call EXCEPT ![c] = x], CallTyped(x),
           Sound(x), Told(c, x), UNCHANGED <<messages, audits, heard, config, life, hour>>
    PROVE  CallsSound'
  <1>1. hour \in Nat /\ hour' \in Nat /\ hour <= hour' /\ hour' \in 0 .. MaxHour
    BY BoundsAssumption DEF CallsSound
  <1>2. Sound(x)'
    BY <1>1, SoundStays
  <1> QED
    BY <1>1, <1>2, QuietStep

\* Of a call that has stored nothing the tables say nothing.
LEMMA FreshTold ==
    ASSUME CallsSound, NEW c \in Calls, call[c].pc \notin {"received", "notify", "mark", "done"},
           NEW x, x.pc \notin {"received", "notify", "mark"},
           x.pc = "done" => x.answer \notin (Refusals \ {"IntakeValidationFailed"}) \cup {"Received", "Notified"}
    PROVE  Told(c, x)
  <1>1. Told(c, call[c])
    BY DEF CallsSound
  <1>2. ~Stored(c) /\ ~Received(c) /\ ~RefusedOnRecord(c) /\ c \notin heard
    BY <1>1 DEF Told
  <1>3. MessagesOf(c) = {}
    BY <1>2 DEF MessagesOf, Stored
  <1> QED
    BY <1>2, <1>3 DEF Told

\* The locals of a call that has begun, and has been counted in the windows `bumped`.
Started(req, label, a, bumped) == [Begun(req, label, a) EXCEPT !.bumped = bumped]

\* A call begins with a request of its own.
LEMMA BegunLocals ==
    ASSUME CallsSound, NEW c \in Calls, NEW req \in Requests[c], NEW label \in Stages, NEW a,
           NEW bumped, NEW x, x = Started(req, label, a, bumped)
    PROVE  /\ CallTyped(x) /\ x.pc = label /\ x.req = req /\ x.answer = a
           /\ x.bumped = bumped /\ x.life = life
  <1>1. req \in RequestType /\ life \in 0 .. MaxLives
    BY RequestsAssumption DEF CallsSound
  <1>2. /\ x.pc = label /\ x.req = req /\ x.answer = a /\ x.bumped = bumped /\ x.life = life
        /\ x.reply = "none"
    BY DEF Begun, Started
  <1>3. CallTyped(x)
    BY <1>1, <1>2 DEF CallTyped, Begun, Started
  <1> QED
    BY <1>2, <1>3

\* A call that begins has been let through no window yet.
LEMMA BegunPlain ==
    ASSUME NEW req, NEW label, NEW a
    PROVE  Started(req, label, a, {}) = Begun(req, label, a)
  BY DEF Begun, Started

\* The answers of the two edges.
EdgeAnswers == {"WebsiteNotResolved", "NotFound", "IntakeFieldRejected",
                "IntakeValidationFailed", "Untracked", "HeartbeatRateLimited", "Tracked"}

\* A call that begins leaves the calls sound.
LEMMA BegunCalls ==
    ASSUME CallsSound, NEW c \in Calls, call[c].pc = "new", NEW req \in Requests[c],
           NEW label \in Stages, NEW a, NEW bumped, NEW x,
           x = Started(req, label, a, bumped),
           call' = [call EXCEPT ![c] = x],
           UNCHANGED <<messages, audits, heard, config, life, hour>>,
           \/ label = "captcha" /\ a = "none" /\ req.verb = "contact" /\ bumped = {}
           \/ label = "done" /\ a \in EdgeAnswers,
           \A b \in bumped : req.verb = "heartbeat" /\ b = <<HeartbeatKey(req), hour>>
    PROVE  CallsSound'
  <1>1. /\ CallTyped(x) /\ x.pc = label /\ x.req = req /\ x.answer = a
        /\ x.bumped = bumped /\ x.life = life
    BY BegunLocals
  <1>2. hour \in 0 .. hour /\ life <= life
    BY BoundsAssumption DEF CallsSound
  <1>3. \A b \in bumped : OwnBump(x, b)
    BY <1>1, <1>2 DEF OwnBump
  <1>4. Sound(x)
    BY <1>1, <1>2, <1>3 DEF Sound, EdgeAnswers
  <1>5. Told(c, x)
    BY <1>1, FreshTold DEF EdgeAnswers, Refusals
  <1> QED
    BY <1>1, <1>4, <1>5, StillStep

\* public_intake leaves the calls sound.
LEMMA BeginCalls ==
    ASSUME CallsSound, NEW c \in Calls, BeginIntake(c)
    PROVE  /\ CallsSound'
           /\ \E x : /\ call' = [call EXCEPT ![c] = x] /\ x.bumped = {} /\ x.life = life
                     /\ x.pc # "new" /\ x.answer # "HeartbeatRateLimited"
  <1>1. PICK req \in Requests[c] :
          /\ req.verb # "heartbeat"
          /\ call' = [call EXCEPT ![c] =
               IF req.site = None THEN Begun(req, "done", "WebsiteNotResolved")
               ELSE IF req.verb # "contact" THEN Begun(req, "done", "NotFound")
               ELSE IF req.payload = "unknown field" THEN Begun(req, "done", "IntakeFieldRejected")
               ELSE IF req.payload = "not JSON" THEN Begun(req, "done", "IntakeValidationFailed")
               ELSE Begun(req, "captcha", "none")]
    BY DEF BeginIntake
  <1>2. call[c].pc = "new" /\ UNCHANGED <<messages, audits, heard, config, life, hour>>
    BY DEF BeginIntake, At, StoreKept, ClockKept
  <1>3. PICK label, a :
          /\ label \in Stages /\ call' = [call EXCEPT ![c] = Begun(req, label, a)]
          /\ \/ label = "captcha" /\ a = "none" /\ req.verb = "contact"
             \/ label = "done" /\ a \in EdgeAnswers
          /\ a # "HeartbeatRateLimited"
    <2>1. CASE req.site = None
      BY <1>1, <2>1 DEF EdgeAnswers, Stages
    <2>2. CASE req.site # None /\ req.verb # "contact"
      BY <1>1, <2>2 DEF EdgeAnswers, Stages
    <2>3. CASE req.site # None /\ req.verb = "contact" /\ req.payload = "unknown field"
      BY <1>1, <2>3 DEF EdgeAnswers, Stages
    <2>4. CASE req.site # None /\ req.verb = "contact" /\ req.payload = "not JSON"
      BY <1>1, <2>4 DEF EdgeAnswers, Stages
    <2>5. CASE /\ req.site # None /\ req.verb = "contact"
               /\ req.payload \notin {"unknown field", "not JSON"}
      BY <1>1, <2>5 DEF EdgeAnswers, Stages
    <2> QED
      BY <2>1, <2>2, <2>3, <2>4, <2>5
  <1> DEFINE x == Started(req, label, a, {})
  <1>4. /\ CallTyped(x) /\ x.pc = label /\ x.answer = a /\ x.bumped = {} /\ x.life = life
    BY <1>3, BegunLocals
  <1>5. call' = [call EXCEPT ![c] = x]
    BY <1>3, BegunPlain
  <1>6. x = Started(req, label, a, {})
    OBVIOUS
  <1> HIDE DEF x
  <1>8. CallsSound'
    <2> DEFINE bumped == {}
    <2>1. \A b \in bumped : req.verb = "heartbeat" /\ b = <<HeartbeatKey(req), hour>>
      OBVIOUS
    <2>2. x = Started(req, label, a, bumped) /\ bumped = {}
      BY <1>6
    <2> HIDE DEF bumped
    <2>3. req \in Requests[c] /\ label \in Stages
      BY <1>1, <1>3
    <2>4. \/ label = "captcha" /\ a = "none" /\ req.verb = "contact" /\ bumped = {}
          \/ label = "done" /\ a \in EdgeAnswers
      BY <1>3, <2>2
    <2> QED
      BY <1>2, <1>5, <2>1, <2>2, <2>3, <2>4, BegunCalls
  <1>7. x.pc # "new"
    BY <1>3, <1>4
  <1> QED
    BY <1>3, <1>4, <1>5, <1>7, <1>8

\* The heartbeat's edge leaves the calls sound.
LEMMA HeartbeatCalls ==
    ASSUME CallsSound, NEW c \in Calls, Heartbeat(c)
    PROVE  /\ CallsSound' /\ call[c].pc = "new"
           /\ UNCHANGED <<messages, audits, heard, config, life, hour>>
           /\ \E req, x :
                /\ req \in Requests[c]
                /\ call' = [call EXCEPT ![c] = x] /\ x.life = life /\ x.pc # "new" /\ x.req = req
                /\ req.verb = "heartbeat"
                /\ \/ /\ x.bumped = {} /\ books' = books /\ x.answer # "HeartbeatRateLimited"
                   \/ /\ books' = Bump(books, HeartbeatKey(req), IpLimit, hour)
                      /\ IF Full(books, HeartbeatKey(req), IpLimit, hour)
                         THEN x.bumped = {} /\ x.answer = "HeartbeatRateLimited"
                         ELSE /\ x.bumped = {<<HeartbeatKey(req), hour>>}
                              /\ x.answer # "HeartbeatRateLimited"
  <1>1. call[c].pc = "new" /\ UNCHANGED <<messages, audits, heard, config, life, hour>>
    BY DEF Heartbeat, At, StoreKept, ClockKept
  <1>2. PICK req \in Requests[c] :
          LET key == HeartbeatKey(req)
              full == Full(books, key, IpLimit, hour)
          IN  /\ req.verb = "heartbeat"
              /\ IF req.disabled \/ req.site = None
                 THEN /\ call' = [call EXCEPT ![c] = Begun(req, "done",
                             IF req.disabled THEN "Untracked" ELSE "WebsiteNotResolved")]
                      /\ UNCHANGED books
                 ELSE /\ books' = Bump(books, key, IpLimit, hour)
                      /\ call' = [call EXCEPT ![c] =
                           [Begun(req, "done", IF full THEN "HeartbeatRateLimited" ELSE "Tracked")
                              EXCEPT !.bumped = IF full THEN {} ELSE {<<key, hour>>}]]
    BY DEF Heartbeat
  <1> DEFINE key == HeartbeatKey(req)
             full == Full(books, key, IpLimit, hour)
  <1> DEFINE Edge(a, bumped) ==
          /\ a \in EdgeAnswers
          /\ call' = [call EXCEPT ![c] = Started(req, "done", a, bumped)]
          /\ \/ bumped = {} /\ books' = books /\ a # "HeartbeatRateLimited"
             \/ /\ books' = Bump(books, key, IpLimit, hour)
                /\ IF full THEN bumped = {} /\ a = "HeartbeatRateLimited"
                           ELSE bumped = {<<key, hour>>} /\ a # "HeartbeatRateLimited"
  <1>3. \E a, bumped : Edge(a, bumped)
    <2> HIDE DEF full, key
    <2>1. CASE req.disabled
      <3>1. Edge("Untracked", {})
        BY <1>2, <2>1, BegunPlain DEF EdgeAnswers
      <3> QED
        BY <3>1
    <2>2. CASE ~req.disabled /\ req.site = None
      <3>1. Edge("WebsiteNotResolved", {})
        BY <1>2, <2>2, BegunPlain DEF EdgeAnswers
      <3> QED
        BY <3>1
    <2>3. CASE ~req.disabled /\ req.site # None /\ full
      <3>1. /\ call' = [call EXCEPT ![c] = Started(req, "done", "HeartbeatRateLimited", {})]
            /\ books' = Bump(books, key, IpLimit, hour)
        BY <1>2, <2>3 DEF full, key, Started
      <3>2. Edge("HeartbeatRateLimited", {})
        BY <2>3, <3>1 DEF EdgeAnswers
      <3> QED
        BY <3>2
    <2>4. CASE ~req.disabled /\ req.site # None /\ ~full
      <3>1. /\ call' = [call EXCEPT ![c] = Started(req, "done", "Tracked", {<<key, hour>>})]
            /\ books' = Bump(books, key, IpLimit, hour)
        BY <1>2, <2>4 DEF full, key, Started
      <3>2. Edge("Tracked", {<<key, hour>>})
        BY <2>4, <3>1 DEF EdgeAnswers
      <3> QED
        BY <3>2
    <2> QED
      BY <2>1, <2>2, <2>3, <2>4
  <1>4. PICK a, bumped : Edge(a, bumped)
    BY <1>3
  <1> HIDE DEF full, key
  <1>5. PICK x : x = Started(req, "done", a, bumped)
    OBVIOUS
  <1>6. call' = [call EXCEPT ![c] = x] /\ a \in EdgeAnswers /\ "done" \in Stages
    BY <1>4, <1>5 DEF Stages
  <1>7. \A b \in bumped : req.verb = "heartbeat" /\ b = <<HeartbeatKey(req), hour>>
    BY <1>2, <1>4 DEF key
  <1>8. CallsSound'
    BY <1>1, <1>5, <1>6, <1>7, BegunCalls
  <1>9. x.pc = "done" /\ x.req = req /\ x.answer = a /\ x.bumped = bumped /\ x.life = life
    BY <1>5, <1>6, BegunLocals
  <1>10. /\ call' = [call EXCEPT ![c] = x] /\ x.life = life /\ x.pc # "new" /\ x.req = req
         /\ req \in Requests[c] /\ req.verb = "heartbeat"
    BY <1>2, <1>6, <1>9
  <1>11. \/ x.bumped = {} /\ books' = books /\ x.answer # "HeartbeatRateLimited"
         \/ /\ books' = Bump(books, HeartbeatKey(req), IpLimit, hour)
            /\ IF Full(books, HeartbeatKey(req), IpLimit, hour)
               THEN x.bumped = {} /\ x.answer = "HeartbeatRateLimited"
               ELSE /\ x.bumped = {<<HeartbeatKey(req), hour>>}
                    /\ x.answer # "HeartbeatRateLimited"
    BY <1>4, <1>9 DEF full, key
  <1> HIDE DEF Edge
  <1> QED
    BY <1>1, <1>8, <1>10, <1>11, ZenonT(30)
-----------------------------------------------------------------------------
\* The windows that a call counts in.
Windows(d) == IF Counted(d) THEN call[d].bumped ELSE {}

SameWindows == \A d \in Calls : Windows(d)' = Windows(d)

\* A step that keeps what the call was counted in.
LEMMA WindowsStay ==
    ASSUME CallsSound, NEW c \in Calls, NEW x, call' = [call EXCEPT ![c] = x], life' = life,
           call[c].pc # "new", x.pc # "new", x.life = call[c].life, x.bumped = call[c].bumped
    PROVE  SameWindows
  <1>1. call'[c] = x /\ \A d \in Calls \ {c} : call'[d] = call[d]
    BY DEF CallsSound
  <1>2. Windows(c)' = Windows(c)
    BY <1>1 DEF Windows, Counted, At
  <1>3. \A d \in Calls \ {c} : Windows(d)' = Windows(d)
    BY <1>1 DEF Windows, Counted, At
  <1> QED
    BY <1>2, <1>3 DEF SameWindows

\* Only the provider's "success" passes the captcha.
LEMMA VerdictTells ==
    ASSUME NEW token \in BOOLEAN, NEW reply
    PROVE  /\ Verdict(token, reply) = "Ok" => reply = "success" /\ token /\ Provider \in config.secrets
           /\ Verdict(token, reply) # "Ok" => Verdict(token, reply) \in Refusals
  BY DEF Verdict, Refusals

\* The captcha's answer leaves the calls sound.
LEMMA VerifyCalls ==
    ASSUME CallsSound, NEW c \in Calls, Verify(c)
    PROVE  CallsSound' /\ SameWindows
  <1>1. call[c].pc = "captcha" /\ UNCHANGED <<messages, audits, heard, config, life, hour, books>>
    BY DEF Verify, At, StoreKept, ClockKept
  <1>2. /\ CallTyped(call[c]) /\ Sound(call[c]) /\ Told(c, call[c])
        /\ call = [d \in Calls |-> call[d]]
    BY DEF CallsSound
  <1>3. call[c].req \in RequestType /\ call[c].req.token \in BOOLEAN
    BY <1>1, <1>2 DEF CallTyped, RequestType
  <1>4. PICK reply \in Replies :
          LET v == Verdict(call[c].req.token, reply)
          IN  call' = [call EXCEPT ![c].pc = IF v = "Ok" THEN "rate" ELSE "refuse",
                                   ![c].reply = IF v = "Ok" THEN reply ELSE @,
                                   ![c].answer = IF v = "Ok" THEN @ ELSE v]
    BY DEF Verify
  <1> DEFINE v == Verdict(call[c].req.token, reply)
             pc == IF v = "Ok" THEN "rate" ELSE "refuse"
             said == IF v = "Ok" THEN reply ELSE call[c].reply
             answer == IF v = "Ok" THEN call[c].answer ELSE v
             x == [call[c] EXCEPT !.pc = pc, !.reply = said, !.answer = answer]
  <1>5. call' = [call EXCEPT ![c] = x]
    <2> HIDE DEF v
    <2>1. call' = [call EXCEPT ![c].pc = pc, ![c].reply = said, ![c].answer = answer]
      BY <1>4 DEF v
    <2> HIDE DEF pc, said, answer
    <2> QED
      BY <1>2, <2>1
  <1>6. /\ v = "Ok" => pc = "rate" /\ said = "success" /\ call[c].req.token
                       /\ Provider \in config.secrets /\ answer = "none"
        /\ v # "Ok" => pc = "refuse" /\ answer \in Refusals
    BY <1>1, <1>2, <1>3, VerdictTells DEF Sound
  <1>7. pc \in Stages
    BY DEF Stages
  <1> HIDE DEF v, pc, said, answer
  <1>8. /\ x.pc = pc /\ x.reply = said /\ x.answer = answer /\ x.req = call[c].req
        /\ x.bumped = call[c].bumped /\ x.life = call[c].life
    BY <1>1, <1>2 DEF CallTyped
  <1>9. CallTyped(x)
    BY <1>1, <1>2, <1>7, <1>8 DEF CallTyped
  <1> HIDE DEF x
  <1>10. Sound(x)
    <2>1. /\ call[c].life = life /\ call[c].life <= life /\ call[c].bumped = {}
          /\ call[c].req.verb = "contact"
      BY <1>1, <1>2 DEF Sound
    <2>2. CASE v = "Ok"
      BY <1>6, <1>8, <2>1, <2>2 DEF Sound, Verified
    <2>3. CASE v # "Ok"
      BY <1>6, <1>8, <2>1, <2>3 DEF Sound
    <2> QED
      BY <2>2, <2>3
  <1>11. x.pc \in {"rate", "refuse"}
    BY <1>6, <1>8
  <1>12. Told(c, x)
    BY <1>1, <1>11, FreshTold
  <1>13. CallsSound'
    BY <1>1, <1>5, <1>9, <1>10, <1>12, StillStep
  <1>14. SameWindows
    BY <1>1, <1>5, <1>8, <1>11, WindowsStay
  <1> QED
    BY <1>13, <1>14

\* A verified or refused call stays sound as it goes on.
LEMMA MovedSound ==
    ASSUME CallsSound, NEW c \in Calls, call[c].pc \in Stages \ {"captcha", "rate", "done"},
           NEW x, x.pc \in Stages \ {"captcha", "rate"}, x.req = call[c].req,
           x.reply = call[c].reply, x.bumped = call[c].bumped, x.life = call[c].life,
           x.pc = "refuse" => x.answer \in Refusals, x.pc = "done" => x.answer # "none",
           x.pc \in {"persist", "commit", "received", "notify", "mark"} => call[c].pc # "refuse"
    PROVE  Sound(x) /\ (call[c].pc # "refuse" => Verified(x))
  <1>1. Sound(call[c])
    BY DEF CallsSound
  <1>2. \A b : OwnBump(call[c], b) => OwnBump(x, b)
    BY DEF OwnBump
  <1>3. call[c].pc # "refuse" => Verified(x)
    BY <1>1 DEF Sound, Verified, Stages
  <1> QED
    BY <1>1, <1>2, <1>3 DEF Sound, Stages

\* The refusal goes on record, or the caller gets the database's error.
LEMMA AuditRefusalCalls ==
    ASSUME CallsSound, NEW c \in Calls, AuditRefusal(c)
    PROVE  CallsSound' /\ SameWindows
  <1>1. /\ call[c].pc = "refuse" /\ UNCHANGED <<books, messages, heard, config, hour, life>>
        /\ \/ /\ audits' = audits \cup {<<"intake_refused", c>>}
              /\ Answer(c, call[c].answer)
           \/ audits' = audits /\ Answer(c, "Db")
    BY DEF AuditRefusal, At, ClockKept
  <1>2. Sound(call[c]) /\ Told(c, call[c])
    BY DEF CallsSound
  <1>3. PICK a : /\ Answer(c, a)
                 /\ \/ /\ audits' = audits \cup {<<"intake_refused", c>>}
                       /\ a \in Refusals
                    \/ audits' = audits /\ a = "Db"
    BY <1>1, <1>2 DEF Sound
  <1>4. "done" \in Stages /\ "refuse" \in Stages \ {"captcha", "rate", "done"}
    BY DEF Stages
  <1>5. PICK x : /\ call' = [call EXCEPT ![c] = x] /\ CallTyped(x)
                 /\ x.pc = "done" /\ x.answer = a /\ x.req = call[c].req
                 /\ x.reply = call[c].reply /\ x.bumped = call[c].bumped /\ x.life = call[c].life
    BY <1>1, <1>3, AnswerMoves
  <1>6. a # "none" /\ a \notin {"Received", "Notified"}
    BY <1>3 DEF Refusals
  <1>7. Sound(x)
    BY <1>1, <1>4, <1>5, <1>6, MovedSound
  <1>8. \A d \in Calls \ {c} : SameTold(d)
    BY <1>1, <1>3 DEF SameTold, MessagesOf, Received, RefusedOnRecord
  <1>9. hour \in Nat /\ hour' \in 0 .. MaxHour /\ hour <= hour' /\ hour' \in Nat
    BY <1>1, BoundsAssumption DEF CallsSound
  <1>10. Told(c, x)'
    <2>1. ~Stored(c) /\ ~Received(c) /\ c \notin heard
      BY <1>1, <1>2 DEF Told
    <2>2. ~Stored(c)' /\ ~Received(c)' /\ c \notin heard'
      BY <1>1, <1>3, <2>1 DEF Stored, Received
    <2>3. \A m \in MessagesOf(c)' : FALSE
      BY <2>2 DEF MessagesOf, Stored
    <2>4. a \in Refusals => RefusedOnRecord(c)'
      BY <1>3 DEF RefusedOnRecord, Refusals
    <2> QED
      BY <1>5, <1>6, <2>2, <2>3, <2>4 DEF Told
  <1>11. Sound(x)' /\ MessagesSound'
    BY <1>1, <1>7, <1>9, SoundStays DEF CallsSound, MessagesSound
  <1>12. CallsSound'
    BY <1>1, <1>5, <1>8, <1>9, <1>10, <1>11, CallStep
  <1>13. SameWindows
    BY <1>1, <1>5, WindowsStay
  <1> QED
    BY <1>12, <1>13

\* The INSERT, or the way back.
LEMMA PersistCalls ==
    ASSUME CallsSound, NEW c \in Calls, Persist(c)
    PROVE  CallsSound' /\ SameWindows
  <1>1. /\ call[c].pc = "persist" /\ UNCHANGED <<books, messages, audits, heard, config, hour, life>>
        /\ Goto(c, "commit") \/ Refuse(c, "IntakeRefused") \/ Answer(c, "Db")
    BY DEF Persist, At, ClockKept, StoreKept
  <1>2. "commit" \in Stages /\ "refuse" \in Stages /\ "done" \in Stages
        /\ "persist" \in Stages \ {"captcha", "rate", "done"} /\ "IntakeRefused" \in Refusals
        /\ "Db" \notin Refusals
    BY DEF Stages, Refusals
  <1>3. PICK x : /\ call' = [call EXCEPT ![c] = x] /\ CallTyped(x)
                 /\ x.req = call[c].req
                 /\ x.reply = call[c].reply /\ x.bumped = call[c].bumped /\ x.life = call[c].life
                 /\ \/ x.pc = "commit"
                    \/ x.pc = "refuse" /\ x.answer = "IntakeRefused"
                    \/ x.pc = "done" /\ x.answer = "Db"
    <2>1. CASE Goto(c, "commit")
      BY <1>1, <1>2, <2>1, GotoLocals
    <2>2. CASE Refuse(c, "IntakeRefused")
      BY <1>1, <1>2, <2>2, RefuseMoves
    <2>3. CASE Answer(c, "Db")
      BY <1>1, <1>2, <2>3, AnswerMoves
    <2> QED
      BY <1>1, <2>1, <2>2, <2>3
  <1>4. Sound(x)
    BY <1>1, <1>2, <1>3, MovedSound
  <1>5. Told(c, x)
    BY <1>1, <1>2, <1>3, FreshTold
  <1>6. CallsSound'
    BY <1>1, <1>3, <1>4, <1>5, StillStep
  <1>7. SameWindows
    BY <1>1, <1>3, WindowsStay
  <1> QED
    BY <1>6, <1>7

\* The message is committed, whether or not the handler learns of it.
LEMMA CommitCalls ==
    ASSUME CallsSound, NEW c \in Calls, Commit(c)
    PROVE  CallsSound' /\ SameWindows
  <1>1. /\ call[c].pc = "commit" /\ UNCHANGED <<books, audits, heard, config, hour, life>>
        /\ \/ /\ messages' = messages \cup {[id |-> c, notified |-> FALSE]}
              /\ Goto(c, "received") \/ Answer(c, "Db")
           \/ messages' = messages /\ Answer(c, "Db")
    BY DEF Commit, At, ClockKept
  <1>2. "received" \in Stages /\ "done" \in Stages
        /\ "commit" \in Stages \ {"captcha", "rate", "done"} /\ "Db" \notin Refusals
    BY DEF Stages, Refusals
  <1>3. PICK x : /\ call' = [call EXCEPT ![c] = x] /\ CallTyped(x)
                 /\ x.req = call[c].req
                 /\ x.reply = call[c].reply /\ x.bumped = call[c].bumped /\ x.life = call[c].life
                 /\ \/ /\ x.pc = "received"
                       /\ messages' = messages \cup {[id |-> c, notified |-> FALSE]}
                    \/ /\ x.pc = "done" /\ x.answer = "Db"
                       /\ \/ messages' = messages
                          \/ messages' = messages \cup {[id |-> c, notified |-> FALSE]}
    <2>3. Goto(c, "received") => messages' = messages \cup {[id |-> c, notified |-> FALSE]}
      <3>1. Answer(c, "Db") /\ Goto(c, "received") => FALSE
        <4>1. Answer(c, "Db") => call'[c].pc = "done"
          BY <1>1, AnswerMoves DEF CallsSound
        <4>2. Goto(c, "received") => call'[c].pc = "received"
          BY <1>1, <1>2, GotoLocals DEF CallsSound
        <4> QED
          BY <4>1, <4>2
      <3> QED
        BY <1>1, <3>1
    <2>1. CASE Goto(c, "received")
      BY <1>1, <1>2, <2>1, <2>3, GotoLocals
    <2>2. CASE Answer(c, "Db")
      BY <1>1, <1>2, <2>2, AnswerMoves
    <2> QED
      BY <1>1, <2>1, <2>2
  <1>4. Sound(x) /\ Verified(x)
    BY <1>1, <1>2, <1>3, MovedSound
  <1>5. hour \in Nat /\ hour' \in 0 .. MaxHour /\ hour <= hour' /\ hour' \in Nat
    BY <1>1, BoundsAssumption DEF CallsSound
  <1>6. Sound(x)' /\ Verified(x)'
    BY <1>1, <1>4, <1>5, SoundStays DEF Verified, Provider
  <1>7. ~Stored(c) /\ ~Received(c) /\ ~RefusedOnRecord(c) /\ c \notin heard
    BY <1>1 DEF CallsSound, Told
  <1>8. MessagesSound'
    <2>1. CASE messages' = messages
      BY <1>1, <2>1 DEF CallsSound, MessagesSound
    <2>2. CASE messages' = messages \cup {[id |-> c, notified |-> FALSE]}
      <3>1. MessagesSound /\ heard' = heard /\ \A m \in messages : m.id # c
        BY <1>1, <1>7 DEF CallsSound, Stored
      <3> DEFINE n == [id |-> c, notified |-> FALSE]
      <3>2. n \in [id : Calls, notified : BOOLEAN] /\ n.id = c /\ messages' = messages \cup {n}
        BY <2>2
      <3> HIDE DEF n
      <3> QED
        BY <3>1, <3>2 DEF MessagesSound
    <2> QED
      BY <1>3, <2>1, <2>2
  <1>9. \A d \in Calls \ {c} : SameTold(d)
    BY <1>1, <1>3 DEF SameTold, MessagesOf, Received, RefusedOnRecord
  <1>10. Told(c, x)'
    <2>1. ~Received(c)' /\ ~RefusedOnRecord(c)' /\ c \notin heard'
      <3>1. audits' = audits /\ heard' = heard
        BY <1>1
      <3> QED
        BY <1>7, <3>1 DEF Received, RefusedOnRecord
    <2>2. x.pc = "received" => Stored(c)'
      <3> DEFINE n == [id |-> c, notified |-> FALSE]
      <3>1. n.id = c /\ (x.pc = "received" => messages' = messages \cup {n})
        BY <1>3
      <3> HIDE DEF n
      <3> QED
        BY <3>1 DEF Stored
    <2>3. \A m \in MessagesOf(c)' : m.notified = FALSE
      BY <1>3, <1>7 DEF MessagesOf, Stored
    <2> QED
      BY <1>2, <1>3, <1>6, <2>1, <2>2, <2>3 DEF Told
  <1>11. CallsSound'
    BY <1>1, <1>3, <1>5, <1>6, <1>8, <1>9, <1>10, CallStep
  <1>12. SameWindows
    BY <1>1, <1>3, WindowsStay
  <1> QED
    BY <1>11, <1>12

\* The receipt is written after the message.
LEMMA AuditReceivedCalls ==
    ASSUME CallsSound, NEW c \in Calls, AuditReceived(c)
    PROVE  CallsSound' /\ SameWindows
  <1>1. /\ call[c].pc = "received" /\ UNCHANGED <<books, messages, heard, config, hour, life>>
        /\ \/ audits' = audits \cup {<<"intake_received", c>>} /\ Goto(c, "notify")
           \/ audits' = audits /\ Answer(c, "Db")
    BY DEF AuditReceived, At, ClockKept
  <1>2. "notify" \in Stages /\ "done" \in Stages
        /\ "received" \in Stages \ {"captcha", "rate", "done"} /\ "Db" \notin Refusals
    BY DEF Stages, Refusals
  <1>3. PICK x : /\ call' = [call EXCEPT ![c] = x] /\ CallTyped(x)
                 /\ x.req = call[c].req
                 /\ x.reply = call[c].reply /\ x.bumped = call[c].bumped /\ x.life = call[c].life
                 /\ \/ x.pc = "notify" /\ audits' = audits \cup {<<"intake_received", c>>}
                    \/ x.pc = "done" /\ x.answer = "Db" /\ audits' = audits
    <2>1. CASE audits' = audits \cup {<<"intake_received", c>>} /\ Goto(c, "notify")
      BY <1>1, <1>2, <2>1, GotoLocals
    <2>2. CASE audits' = audits /\ Answer(c, "Db")
      BY <1>1, <1>2, <2>2, AnswerMoves
    <2> QED
      BY <1>1, <2>1, <2>2
  <1>4. Sound(x) /\ Verified(x)
    BY <1>1, <1>2, <1>3, MovedSound
  <1>5. hour \in Nat /\ hour' \in 0 .. MaxHour /\ hour <= hour' /\ hour' \in Nat
    BY <1>1, BoundsAssumption DEF CallsSound
  <1>6. Sound(x)' /\ Verified(x)' /\ MessagesSound'
    BY <1>1, <1>4, <1>5, SoundStays DEF Verified, Provider, CallsSound, MessagesSound
  <1>7. Told(c, call[c]) /\ Stored(c) /\ ~RefusedOnRecord(c)
    BY <1>1 DEF CallsSound, Told
  <1>8. \A d \in Calls \ {c} : SameTold(d)
    BY <1>1, <1>3 DEF SameTold, MessagesOf, Received, RefusedOnRecord
  <1>9. Told(c, x)'
    <2>1. Stored(c)' /\ ~RefusedOnRecord(c)' /\ (Received(c) => Received(c)')
          /\ (x.pc = "notify" => Received(c)')
      BY <1>1, <1>3, <1>7 DEF Stored, RefusedOnRecord, Received
    <2>2. \A m \in MessagesOf(c)' : m.notified => c \in heard'
      BY <1>1, <1>7 DEF MessagesOf, Told
    <2>3. c \in heard' => Received(c)'
      BY <1>1, <1>7, <2>1 DEF Told
    <2> QED
      BY <1>2, <1>3, <1>6, <2>1, <2>2, <2>3 DEF Told
  <1>10. CallsSound'
    BY <1>1, <1>3, <1>5, <1>6, <1>8, <1>9, CallStep
  <1>11. SameWindows
    BY <1>1, <1>3, WindowsStay
  <1> QED
    BY <1>10, <1>11

\* Only a wired adapter hears of the message.
LEMMA NotifyCalls ==
    ASSUME CallsSound, NEW c \in Calls, Notify(c)
    PROVE  CallsSound' /\ SameWindows
  <1>1. /\ call[c].pc = "notify" /\ UNCHANGED <<books, messages, audits, config, hour, life>>
        /\ \/ heard' = heard \cup {c} /\ Goto(c, "mark")
           \/ heard' = heard /\ Answer(c, "Received")
    BY DEF Notify, At, ClockKept
  <1>2. "mark" \in Stages /\ "done" \in Stages
        /\ "notify" \in Stages \ {"captcha", "rate", "done"} /\ "Received" \notin Refusals
    BY DEF Stages, Refusals
  <1>3. PICK x : /\ call' = [call EXCEPT ![c] = x] /\ CallTyped(x)
                 /\ x.req = call[c].req
                 /\ x.reply = call[c].reply /\ x.bumped = call[c].bumped /\ x.life = call[c].life
                 /\ \/ x.pc = "mark" /\ heard' = heard \cup {c}
                    \/ x.pc = "done" /\ x.answer = "Received" /\ heard' = heard
    <2>1. CASE heard' = heard \cup {c} /\ Goto(c, "mark")
      BY <1>1, <1>2, <2>1, GotoLocals
    <2>2. CASE heard' = heard /\ Answer(c, "Received")
      BY <1>1, <1>2, <2>2, AnswerMoves
    <2> QED
      BY <1>1, <2>1, <2>2
  <1>4. Sound(x) /\ Verified(x)
    BY <1>1, <1>2, <1>3, MovedSound
  <1>5. hour \in Nat /\ hour' \in 0 .. MaxHour /\ hour <= hour' /\ hour' \in Nat
    BY <1>1, BoundsAssumption DEF CallsSound
  <1>6. Sound(x)' /\ Verified(x)' /\ MessagesSound'
    BY <1>1, <1>3, <1>4, <1>5, SoundStays DEF Verified, Provider, CallsSound, MessagesSound
  <1>7. Told(c, call[c]) /\ Stored(c) /\ ~RefusedOnRecord(c) /\ Received(c)
    BY <1>1 DEF CallsSound, Told
  <1>8. \A d \in Calls \ {c} : SameTold(d)
    BY <1>1, <1>3 DEF SameTold, MessagesOf, Received, RefusedOnRecord
  <1>9. Told(c, x)'
    <2>1. Stored(c)' /\ ~RefusedOnRecord(c)' /\ Received(c)' /\ (x.pc = "mark" => c \in heard')
      BY <1>1, <1>3, <1>7 DEF Stored, RefusedOnRecord, Received
    <2>2. \A m \in MessagesOf(c)' : m.notified => c \in heard'
      BY <1>1, <1>3, <1>7 DEF MessagesOf, Told
    <2> QED
      BY <1>2, <1>3, <1>6, <2>1, <2>2 DEF Told
  <1>10. CallsSound'
    BY <1>1, <1>3, <1>5, <1>6, <1>8, <1>9, CallStep
  <1>11. SameWindows
    BY <1>1, <1>3, WindowsStay
  <1> QED
    BY <1>10, <1>11

\* The mark touches the message of its own call.
LEMMA MarkCalls ==
    ASSUME CallsSound, NEW c \in Calls, Mark(c)
    PROVE  CallsSound' /\ SameWindows
  <1> DEFINE marked(m) == IF m.id = c THEN [m EXCEPT !.notified = TRUE] ELSE m
  <1>1. /\ call[c].pc = "mark" /\ UNCHANGED <<books, audits, heard, config, hour, life>>
        /\ messages' = {marked(m) : m \in messages} \/ messages' = messages
        /\ Answer(c, "Notified") \/ Answer(c, "Db")
    BY DEF Mark, At, ClockKept
  <1>2. "done" \in Stages /\ "mark" \in Stages \ {"captcha", "rate", "done"}
        /\ "Notified" \notin Refusals /\ "Db" \notin Refusals
    BY DEF Stages, Refusals
  <1>3. PICK x : /\ call' = [call EXCEPT ![c] = x] /\ CallTyped(x)
                 /\ x.req = call[c].req
                 /\ x.reply = call[c].reply /\ x.bumped = call[c].bumped /\ x.life = call[c].life
                 /\ x.pc = "done" /\ x.answer \in {"Notified", "Db"}
    BY <1>1, AnswerMoves
  <1>4. Sound(x) /\ Verified(x)
    BY <1>1, <1>2, <1>3, MovedSound
  <1>5. hour \in Nat /\ hour' \in 0 .. MaxHour /\ hour <= hour' /\ hour' \in Nat
    BY <1>1, BoundsAssumption DEF CallsSound
  <1>6. Sound(x)' /\ Verified(x)'
    BY <1>1, <1>4, <1>5, SoundStays DEF Verified, Provider
  <1>7. Told(c, call[c]) /\ Stored(c) /\ ~RefusedOnRecord(c) /\ Received(c) /\ c \in heard
    BY <1>1 DEF CallsSound, Told
  <1>8. \A m \in messages : /\ marked(m) \in [id : Calls, notified : BOOLEAN]
                            /\ marked(m).id = m.id /\ (m.id # c => marked(m) = m)
    BY DEF CallsSound, MessagesSound
  <1> HIDE DEF marked
  <1>9. MessagesSound'
    BY <1>1, <1>8 DEF CallsSound, MessagesSound
  <1>10. ASSUME NEW d \in Calls \ {c}
         PROVE  SameTold(d)
    <2>1. MessagesOf(d)' = MessagesOf(d)
      BY <1>1, <1>8 DEF MessagesOf
    <2> QED
      BY <1>1, <2>1 DEF SameTold, Received, RefusedOnRecord
  <1>11. Told(c, x)'
    <2>1. Stored(c)' /\ ~RefusedOnRecord(c)' /\ Received(c)' /\ c \in heard'
      BY <1>1, <1>7, <1>8 DEF Stored, RefusedOnRecord, Received
    <2> QED
      BY <1>2, <1>3, <1>6, <2>1 DEF Told
  <1>12. CallsSound'
    BY <1>1, <1>3, <1>5, <1>6, <1>9, <1>10, <1>11, CallStep
  <1>13. SameWindows
    BY <1>1, <1>3, WindowsStay
  <1> QED
    BY <1>12, <1>13

\* What the rate stage does to the call and the books.
Armed(c, x, later) ==
    LET req == call[c].req
        named == req.session # None
        counted == IF named THEN {<<IdentityKey(req), hour>>} ELSE {}
        first == IF named THEN Bump(books, IdentityKey(req), IdentityLimit, hour) ELSE books
        stopped == named /\ Full(books, IdentityKey(req), IdentityLimit, hour)
        full == Full(first, IpKey(req), IpLimit, later)
    IN  \/ books' = books /\ x.bumped = {} /\ x.answer = "VisitorPepperNotConfigured"
        \/ stopped /\ books' = first /\ x.bumped = {} /\ x.answer = "IntakeRateLimited"
        \/ /\ ~stopped /\ books' = Bump(first, IpKey(req), IpLimit, later)
           /\ \/ full /\ x.bumped = counted /\ x.answer = "IntakeRateLimited"
              \/ /\ ~full /\ x.bumped = counted \cup {<<IpKey(req), later>>}
                 /\ x.answer \in {"IntakeValidationFailed", "none"}

\* What the rate stage leaves in the locals of its call.
LEMMA ArmLocals ==
    ASSUME CallsSound, NEW c \in Calls, ArmRateBuckets(c)
    PROVE  /\ call[c].pc = "rate" /\ UNCHANGED <<messages, audits, heard, config, life>>
           /\ hour' \in 0 .. MaxHour /\ hour <= hour'
           /\ \E x : /\ call' = [call EXCEPT ![c] = x] /\ CallTyped(x) /\ Armed(c, x, hour')
                     /\ x.pc = "persist" \/ (x.pc = "refuse" /\ x.answer \in Refusals)
                     /\ x.req = call[c].req /\ x.reply = call[c].reply /\ x.life = call[c].life
  <1> DEFINE req == call[c].req
             named == req.session # None
             counted == IF named THEN {<<IdentityKey(req), hour>>} ELSE {}
             first == IF named THEN Bump(books, IdentityKey(req), IdentityLimit, hour) ELSE books
             stopped == named /\ Full(books, IdentityKey(req), IdentityLimit, hour)
             full == Full(first, IpKey(req), IpLimit, hour')
             bumped == counted \cup (IF full THEN {} ELSE {<<IpKey(req), hour'>>})
             label == IF full \/ Refused(req.payload) THEN "refuse" ELSE "persist"
             a == IF full THEN "IntakeRateLimited"
                  ELSE IF Refused(req.payload) THEN "IntakeValidationFailed" ELSE call[c].answer
             x == [call[c] EXCEPT !.bumped = bumped, !.pc = label, !.answer = a]
  <1>1. /\ call[c].pc = "rate" /\ UNCHANGED <<messages, audits, heard, config, life>>
        /\ hour' \in {hour, hour + 1} /\ hour' <= MaxHour /\ Admit(c, hour')
    BY DEF ArmRateBuckets, At, StoreKept
  <1>2. hour' \in 0 .. MaxHour /\ hour <= hour'
    BY <1>1, BoundsAssumption DEF CallsSound
  <1>3. /\ CallTyped(call[c]) /\ Sound(call[c]) /\ call[c].bumped = {} /\ call[c].answer = "none"
        /\ call = [d \in Calls |-> call[d]]
    BY <1>1 DEF CallsSound, Sound
  <1>4. "refuse" \in Stages /\ "persist" \in Stages /\ "IntakeRateLimited" \in Refusals
        /\ "VisitorPepperNotConfigured" \in Refusals /\ "IntakeValidationFailed" \in Refusals
    BY DEF Stages, Refusals
  <1>5. CASE named /\ ~config.pepper
    <2>1. Refuse(c, "VisitorPepperNotConfigured") /\ books' = books
      BY <1>1, <1>5 DEF Admit
    <2> HIDE DEF x
    <2> QED
      BY <1>1, <1>2, <1>3, <1>4, <2>1, RefuseMoves DEF Armed
  <1>6. CASE ~(named /\ ~config.pepper) /\ stopped
    <2>1. Refuse(c, "IntakeRateLimited") /\ books' = first
      BY <1>1, <1>6 DEF Admit
    <2>2. PICK y : /\ call' = [call EXCEPT ![c] = y] /\ CallTyped(y)
                   /\ y.pc = "refuse" /\ y.answer = "IntakeRateLimited" /\ y.req = req
                   /\ y.reply = call[c].reply /\ y.bumped = {} /\ y.life = call[c].life
      BY <1>1, <1>3, <2>1, RefuseMoves
    <2>3. Armed(c, y, hour')
      BY <1>6, <2>1, <2>2 DEF Armed
    <2> HIDE DEF x
    <2> QED
      BY <1>1, <1>2, <1>4, <2>2, <2>3
  <1>7. CASE ~(named /\ ~config.pepper) /\ ~stopped
    <2>1. /\ books' = Bump(first, IpKey(req), IpLimit, hour')
          /\ call' = [call EXCEPT ![c].bumped = bumped, ![c].pc = label, ![c].answer = a]
      BY <1>1, <1>7 DEF Admit
    <2>2. call' = [call EXCEPT ![c] = x]
      <3> HIDE DEF bumped, label, a
      <3> QED
        BY <1>3, <2>1
    <2>3. /\ label = "persist" \/ (label = "refuse" /\ a \in Refusals)
          /\ \/ full /\ bumped = counted /\ a = "IntakeRateLimited"
             \/ /\ ~full /\ bumped = counted \cup {<<IpKey(req), hour'>>}
                /\ a \in {"IntakeValidationFailed", "none"}
      <3> HIDE DEF full, counted
      <3> QED
        BY <1>3, <1>4
    <2> HIDE DEF bumped, label, a
    <2>4. label \in Stages
      BY <1>4, <2>3
    <2>5. /\ x.bumped = bumped /\ x.pc = label /\ x.answer = a /\ x.req = req
          /\ x.reply = call[c].reply /\ x.life = call[c].life
      BY <1>1, <1>3 DEF CallTyped
    <2>6. CallTyped(x)
      BY <1>1, <1>3, <2>4, <2>5 DEF CallTyped
    <2> HIDE DEF x
    <2>7. Armed(c, x, hour')
      BY <1>7, <2>1, <2>3, <2>5 DEF Armed
    <2> QED
      BY <1>1, <1>2, <2>2, <2>3, <2>5, <2>6, <2>7
  <1> QED
    BY <1>5, <1>6, <1>7

\* The rate stage leaves the calls sound.
LEMMA ArmCalls ==
    ASSUME CallsSound, NEW c \in Calls, ArmRateBuckets(c)
    PROVE  CallsSound'
  <1>1. PICK x : /\ call' = [call EXCEPT ![c] = x] /\ CallTyped(x) /\ Armed(c, x, hour')
                 /\ x.pc = "persist" \/ (x.pc = "refuse" /\ x.answer \in Refusals)
                 /\ x.req = call[c].req /\ x.reply = call[c].reply /\ x.life = call[c].life
    BY ArmLocals
  <1>2. /\ call[c].pc = "rate" /\ UNCHANGED <<messages, audits, heard, config, life>>
        /\ hour' \in 0 .. MaxHour /\ hour <= hour'
    BY ArmLocals
  <1>3. Sound(call[c]) /\ call[c].req.verb = "contact" /\ Verified(call[c])
        /\ hour \in Nat /\ hour' \in Nat
    BY <1>2, BoundsAssumption DEF CallsSound, Sound
  <1>4. ASSUME NEW b \in x.bumped
        PROVE  OwnBump(x, b)'
    <2>1. \/ x.req.session # None /\ b = <<IdentityKey(x.req), hour>>
          \/ b = <<IpKey(x.req), hour'>>
      BY <1>1, <1>4 DEF Armed
    <2>2. hour \in 0 .. hour' /\ hour' \in 0 .. hour'
      BY <1>2, <1>3
    <2>3. /\ IdentityKey(x.req)' = IdentityKey(x.req) /\ IpKey(x.req)' = IpKey(x.req)
      BY <1>2 DEF IdentityKey, IpKey, VisitorIp, Hops, Socket
    <2> QED
      BY <1>1, <1>3, <2>1, <2>2, <2>3 DEF OwnBump
  <1>5. Verified(x)'
    BY <1>1, <1>2, <1>3 DEF Verified, Provider
  <1>6. Sound(x)'
    BY <1>1, <1>2, <1>3, <1>4, <1>5 DEF Sound
  <1>7. Told(c, x)
    BY <1>1, <1>2, FreshTold
  <1> QED
    BY <1>1, <1>2, <1>6, <1>7, QuietStep

\* A step that moves nothing but the clock.
LEMMA ClockCalls ==
    ASSUME CallsSound, UNCHANGED <<config, books, life, call, messages, audits, heard>>,
           hour' \in 0 .. MaxHour, hour <= hour'
    PROVE  CallsSound' /\ SameWindows
  <1>1. hour \in Nat /\ hour' \in Nat
    BY BoundsAssumption DEF CallsSound
  <1>2. \A d \in Calls : SameTold(d)
    BY <1>1 DEF SameTold, MessagesOf, Received, RefusedOnRecord
  <1>3. ASSUME NEW d \in Calls
        PROVE  CallTyped(call[d])' /\ Sound(call[d])' /\ Told(d, call[d])'
    <2>1. PICK y : y = call[d] /\ CallTyped(y) /\ Sound(y) /\ Told(d, y)
      BY DEF CallsSound
    <2>2. y = call'[d] /\ Sound(y)' /\ Told(d, y)'
      BY <1>1, <1>2, <2>1, SoundStays, ToldStays
    <2> QED
      BY <2>1, <2>2 DEF CallTyped, Sound, Told, Verified, OwnBump
  <1>4. MessagesSound' /\ SameWindows
    BY <1>1 DEF CallsSound, MessagesSound, SameWindows, Windows, Counted, At
  <1> QED
    BY <1>1, <1>3, <1>4 DEF CallsSound

\* A restart loses the calls in flight; no call of the new process has begun.
LEMMA RestartCalls ==
    ASSUME CallsSound, Restart
    PROVE  CallsSound' /\ \A d \in Calls : Windows(d)' = {}
  <1>1. /\ UNCHANGED <<config, hour, messages, audits, heard>> /\ books' = {}
        /\ life' = life + 1 /\ life \in 0 .. MaxLives /\ life' \in 0 .. MaxLives
        /\ hour \in Nat /\ hour' \in Nat /\ hour <= hour' /\ life \in Nat
    <2>1. /\ UNCHANGED <<config, hour, messages, audits, heard>> /\ books' = {}
          /\ life' = life + 1 /\ life < MaxLives
      BY DEF Restart, StoreKept
    <2>2. life \in 0 .. MaxLives /\ hour \in 0 .. MaxHour
      BY DEF CallsSound
    <2> QED
      BY <2>1, <2>2, BoundsAssumption
  <1>2. /\ call' = [d \in Calls |-> call'[d]]
        /\ \A d \in Calls : call'[d] = IF InFlight(d) THEN [call[d] EXCEPT !.pc = "done", !.answer = "lost"]
                                                      ELSE call[d]
    BY DEF Restart
  <1>3. \A d \in Calls : SameTold(d)
    BY <1>1 DEF SameTold, MessagesOf, Received, RefusedOnRecord
  <1>4. ASSUME NEW d \in Calls
        PROVE  /\ CallTyped(call[d])' /\ Sound(call[d])' /\ Told(d, call[d])'
               /\ Windows(d)' = {}
    <2>1. PICK y : y = call[d] /\ CallTyped(y) /\ Sound(y) /\ Told(d, y)
      BY DEF CallsSound
    <2>2. ASSUME NEW b, OwnBump(y, b)
          PROVE  OwnBump(y, b)'
      <3>1. config' = config /\ hour' = hour
        BY <1>1
      <3> QED
        BY <2>2, <3>1 DEF OwnBump, IpKey, IdentityKey, HeartbeatKey, VisitorIp, Hops, Socket
    <2>3. Told(d, y)'
      BY <1>1, <1>3, <2>1, ToldStays
    <2>4. CASE InFlight(d)
      <3> DEFINE z == [y EXCEPT !.pc = "done", !.answer = "lost"]
      <3>1. y.pc \notin {"new", "done"} /\ call'[d] = z
        BY <1>2, <2>1, <2>4 DEF InFlight
      <3>2. /\ z.pc = "done" /\ z.answer = "lost" /\ z.req = y.req /\ z.reply = y.reply
            /\ z.bumped = y.bumped /\ z.life = y.life /\ y.life \in 0 .. MaxLives
        BY <2>1, <3>1 DEF CallTyped
      <3>3. CallTyped(z)
        BY <2>1, <3>1, <3>2 DEF CallTyped, Stages
      <3> HIDE DEF z
      <3>4. /\ y.life = life /\ "lost" # "none" /\ \A b \in z.bumped : OwnBump(z, b)'
        BY <2>1, <2>2, <3>1, <3>2 DEF Sound, OwnBump
      <3>5. Sound(z)'
        BY <1>1, <3>2, <3>4 DEF Sound
      <3>6. ~RefusedOnRecord(d)'
        BY <2>3, <3>1 DEF Told
      <3>7. Told(d, z)'
        BY <2>3, <3>2, <3>6 DEF Told, Verified, Refusals
      <3>8. z.life # life'
        BY <1>1, <3>2, <3>4
      <3> QED
        BY <3>1, <3>2, <3>3, <3>5, <3>7, <3>8
           DEF CallTyped, Sound, Told, Verified, OwnBump, Windows, Counted, At
    <2>5. CASE ~InFlight(d)
      <3>1. y.pc \in {"new", "done"} /\ call'[d] = y
        BY <1>2, <2>1, <2>5 DEF InFlight
      <3>2. y.pc = "done" => y.life \in 0 .. MaxLives /\ y.life <= life
        BY <2>1 DEF CallTyped, Sound
      <3>3. y.pc = "done" => y.life # life' /\ y.life <= life'
        BY <1>1, <3>2
      <3>4. Sound(y)'
        BY <2>1, <2>2, <3>1, <3>3 DEF Sound
      <3> QED
        BY <2>1, <2>3, <3>1, <3>3, <3>4
           DEF CallTyped, Sound, Told, Verified, OwnBump, Windows, Counted, At
    <2> QED
      BY <2>4, <2>5
  <1>5. MessagesSound' /\ hour' \in 0 .. MaxHour /\ config' \in Configs
    BY <1>1 DEF CallsSound, MessagesSound
  <1> QED
    BY <1>1, <1>2, <1>4, <1>5 DEF CallsSound
-----------------------------------------------------------------------------
\* The books, against any account w of the windows that each call counts in.
Keyed(w, key, h) == {d \in Calls : <<key, h>> \in w[d]}

Fits(book, upto, w) ==
    /\ \A e \in book : /\ e.hour \in 0 .. upto
                       /\ e.count = Cardinality(Keyed(w, e.key, e.hour))
    /\ \A e, f \in book : e.key = f.key => e = f
    /\ \A d \in Calls : \A b \in w[d] :
         /\ b[2] \in Nat /\ \E e \in book : e.key = b[1] /\ e.hour >= b[2]
         /\ Cardinality(Keyed(w, b[1], b[2])) <= LimitOf(b[1])

\* A window is a set of calls, and calls are finitely many.
LEMMA KeyedFinite ==
    ASSUME NEW w, NEW key, NEW h
    PROVE  IsFiniteSet(Keyed(w, key, h)) /\ Cardinality(Keyed(w, key, h)) \in Nat
  <1>1. Keyed(w, key, h) \in SUBSET Calls
    BY DEF Keyed
  <1>2. IsFiniteSet(Keyed(w, key, h))
    BY <1>1, CallsAssumption, FS_Subset
  <1> QED
    BY <1>2, FS_CardinalityType

\* At the present hour, or a later one, the book counts the calls of a window.
LEMMA CountTells ==
    ASSUME NEW book, NEW w, NEW now \in Nat, Fits(book, now, w), NEW key, NEW h \in Nat, now <= h
    PROVE  CountIn(book, key, h) = Cardinality(Keyed(w, key, h))
  <1> DEFINE found == {e \in book : e.key = key /\ e.hour = h}
  <1>1. CASE found = {}
    <2>1. ASSUME NEW d \in Calls, <<key, h>> \in w[d]
          PROVE  FALSE
      <3>1. PICK e \in book : e.key = key /\ e.hour >= h
        BY <2>1 DEF Fits
      <3>2. e.hour \in 0 .. now
        BY <3>1 DEF Fits
      <3>3. e.hour = h
        BY <3>1, <3>2
      <3> QED
        BY <1>1, <3>1, <3>3
    <2>2. Keyed(w, key, h) = {}
      BY <2>1 DEF Keyed
    <2>3. CountIn(book, key, h) = 0
      BY <1>1 DEF CountIn
    <2> QED
      BY <2>2, <2>3, FS_EmptySet
  <1>2. CASE found # {}
    <2>1. PICK e : e = CHOOSE f \in found : TRUE
      OBVIOUS
    <2>2. e \in book /\ e.key = key /\ e.hour = h
      BY <1>2, <2>1
    <2>3. CountIn(book, key, h) = e.count
      BY <1>2, <2>1 DEF CountIn
    <2> QED
      BY <2>2, <2>3 DEF Fits
  <1> QED
    BY <1>1, <1>2

\* Counting a call in a window, unless that is full, keeps the books true.
LEMMA BumpFits ==
    ASSUME NEW book, NEW w, NEW now \in Nat, Fits(book, now, w), NEW key, NEW h \in Nat, now <= h,
           NEW c \in Calls, <<key, h>> \notin w[c], NEW v, DOMAIN v = DOMAIN w,
           \A d \in Calls \ {c} : v[d] = w[d],
           v[c] = IF Full(book, key, LimitOf(key), h) THEN w[c] ELSE w[c] \cup {<<key, h>>}
    PROVE  Fits(Bump(book, key, LimitOf(key), h), h, v)
  <1> DEFINE limit == LimitOf(key)
             n == CountIn(book, key, h)
             kept == {e \in book : e.key # key}
             entry == [key |-> key, hour |-> h, count |-> IF n >= limit THEN n ELSE n + 1]
             after == Bump(book, key, limit, h)
  <1>1. n = Cardinality(Keyed(w, key, h)) /\ n \in Nat /\ limit \in Nat
    BY CountTells, KeyedFinite, BoundsAssumption DEF LimitOf
  <1>2. ASSUME NEW k, NEW i, <<k, i>> # <<key, h>>
        PROVE  Keyed(v, k, i) = Keyed(w, k, i)
    BY <1>2 DEF Keyed
  <1>3. Cardinality(Keyed(v, key, h)) = IF n >= limit THEN n ELSE n + 1
    <2>1. CASE n >= limit
      <3>1. v[c] = w[c]
        BY <2>1 DEF Full
      <3>2. Keyed(v, key, h) = Keyed(w, key, h)
        BY <3>1 DEF Keyed
      <3> QED
        BY <1>1, <2>1, <3>2
    <2>2. CASE ~(n >= limit)
      <3>1. v[c] = w[c] \cup {<<key, h>>}
        BY <2>2 DEF Full
      <3>2. Keyed(v, key, h) = Keyed(w, key, h) \cup {c} /\ c \notin Keyed(w, key, h)
        BY <3>1 DEF Keyed
      <3> QED
        BY <1>1, <2>2, <3>2, KeyedFinite, FS_AddElement
    <2> QED
      BY <2>1, <2>2
  <1>4. /\ after = kept \cup {entry} /\ entry.key = key /\ entry.hour = h
        /\ entry.count = IF n >= limit THEN n ELSE n + 1
    BY DEF Bump
  <1>5. \A e \in kept : e \in book /\ e.key # key
    OBVIOUS
  <1>6. \A e \in book : e.key # key => e \in kept
    OBVIOUS
  <1> HIDE DEF entry, kept, after, n
  <1>7. \A e \in after : e.hour \in 0 .. h /\ e.count = Cardinality(Keyed(v, e.key, e.hour))
    <2>1. ASSUME NEW e \in kept
          PROVE  e.hour \in 0 .. h /\ e.count = Cardinality(Keyed(v, e.key, e.hour))
      <3>1. e.hour \in 0 .. now /\ e.count = Cardinality(Keyed(w, e.key, e.hour))
        BY <1>5 DEF Fits
      <3>2. <<e.key, e.hour>> # <<key, h>>
        BY <1>5
      <3>3. Keyed(v, e.key, e.hour) = Keyed(w, e.key, e.hour)
        BY <1>2, <3>2
      <3> QED
        BY <3>1, <3>3
    <2>2. h \in 0 .. h
      OBVIOUS
    <2> QED
      BY <1>3, <1>4, <2>1, <2>2
  <1>8. \A e, f \in after : e.key = f.key => e = f
    BY <1>4, <1>5 DEF Fits
  <1>9. ASSUME NEW d \in Calls, NEW b \in v[d]
        PROVE  /\ b[2] \in Nat /\ \E e \in after : e.key = b[1] /\ e.hour >= b[2]
               /\ Cardinality(Keyed(v, b[1], b[2])) <= LimitOf(b[1])
    <2>1. CASE b = <<key, h>> /\ b \notin w[d]
      <3>1. v[d] # w[d] /\ d = c
        BY <2>1
      <3>2. ~(n >= limit)
        BY <3>1 DEF Full, n
      <3>3. Cardinality(Keyed(v, key, h)) <= limit
        BY <1>1, <1>3, <3>2
      <3>4. b[1] = key /\ b[2] = h /\ h >= h
        BY <2>1
      <3> QED
        BY <1>4, <3>3, <3>4
    <2>2. CASE b \in w[d]
      <3>1. PICK e \in book : e.key = b[1] /\ e.hour >= b[2]
        BY <2>2 DEF Fits
      <3>2. /\ b[2] \in Nat /\ Cardinality(Keyed(w, b[1], b[2])) <= LimitOf(b[1])
            /\ e.hour \in 0 .. now
        BY <2>2, <3>1 DEF Fits
      <3>3. \E f \in after : f.key = b[1] /\ f.hour >= b[2]
        <4>1. CASE b[1] = key
          <5>1. h >= b[2]
            BY <3>1, <3>2
          <5> QED
            BY <1>4, <4>1, <5>1
        <4>2. CASE b[1] # key
          BY <1>4, <1>6, <3>1, <4>2
        <4> QED
          BY <4>1, <4>2
      <3>4. Cardinality(Keyed(v, b[1], b[2])) <= LimitOf(b[1])
        <4>1. CASE b[1] = key /\ b[2] = h
          <5>1. n <= limit
            BY <1>1, <3>2, <4>1
          <5>2. Cardinality(Keyed(v, key, h)) <= limit
            BY <1>1, <1>3, <5>1
          <5> QED
            BY <4>1, <5>2
        <4>2. CASE ~(b[1] = key /\ b[2] = h)
          <5>1. Keyed(v, b[1], b[2]) = Keyed(w, b[1], b[2])
            BY <1>2, <4>2
          <5> QED
            BY <3>2, <5>1
        <4> QED
          BY <4>1, <4>2
      <3> QED
        BY <3>2, <3>3, <3>4
    <2> QED
      BY <2>1, <2>2, <1>9
  <1> QED
    BY <1>7, <1>8, <1>9 DEF Fits, after
-----------------------------------------------------------------------------
\* The books of the state, against the calls of the state.
WindowsOf == [d \in Calls |-> Windows(d)]

\* The windows of a call are those of the hours that were.
LEMMA BooksFit ==
    ASSUME Safe
    PROVE  /\ Fits(books, hour, WindowsOf) /\ hour \in Nat
           /\ \A key, h : Keyed(WindowsOf, key, h) = ByKey(key, h)
  <1>1. \A key, h : Keyed(WindowsOf, key, h) = ByKey(key, h)
    BY DEF Keyed, WindowsOf, Windows, ByKey
  <1>2. hour \in Nat
    BY BoundsAssumption DEF Safe, CallsSound
  <1>3. ASSUME NEW d \in Calls, NEW b \in WindowsOf[d]
        PROVE  /\ b[2] \in Nat /\ \E e \in books : e.key = b[1] /\ e.hour >= b[2]
               /\ Cardinality(Keyed(WindowsOf, b[1], b[2])) <= LimitOf(b[1])
    <2>1. Counted(d) /\ b \in call[d].bumped
      BY <1>3 DEF WindowsOf, Windows
    <2>2. OwnBump(call[d], b)
      BY <2>1 DEF Safe, CallsSound, Sound, Counted, At
    <2>3. b[2] \in 0 .. hour
      BY <2>2 DEF OwnBump
    <2> QED
      BY <1>1, <1>2, <2>1, <2>3 DEF Safe, BooksSound
  <1> QED
    BY <1>1, <1>2, <1>3 DEF Fits, Safe, BooksSound

\* The other way, after a step.
LEMMA FitBooks ==
    ASSUME Fits(books', hour', WindowsOf')
    PROVE  BooksSound'
  <1>1. \A key, h : Keyed(WindowsOf', key, h) = ByKey(key, h)'
    BY DEF Keyed, WindowsOf, Windows, ByKey
  <1>2. ASSUME NEW d \in Calls, Counted(d)', NEW b \in call'[d].bumped
        PROVE  /\ \E e \in books' : e.key = b[1] /\ e.hour >= b[2]
               /\ Cardinality(ByKey(b[1], b[2])') <= LimitOf(b[1])
    <2>1. b \in WindowsOf'[d]
      BY <1>2 DEF WindowsOf, Windows
    <2> QED
      BY <1>1, <2>1 DEF Fits
  <1> QED
    BY <1>1, <1>2 DEF Fits, BooksSound

\* Books that are true at one hour are true at a later one.
LEMMA FitsLater ==
    ASSUME NEW book, NEW w, NEW now \in Nat, NEW h \in Nat, now <= h, Fits(book, now, w)
    PROVE  Fits(book, h, w)
  <1>1. \A i \in 0 .. now : i \in 0 .. h
    OBVIOUS
  <1> QED
    BY <1>1 DEF Fits

\* A later hour, and nothing else, leaves the books true.
LEMMA BooksKept ==
    ASSUME Safe, SameWindows, books' = books, hour' \in Nat, hour <= hour'
    PROVE  BooksSound'
  <1>1. Fits(books, hour, WindowsOf) /\ hour \in Nat
    BY BooksFit
  <1>2. WindowsOf' = WindowsOf
    BY DEF WindowsOf, SameWindows
  <1>4. Fits(books, hour', WindowsOf)
    BY <1>1, FitsLater
  <1>5. Fits(books', hour', WindowsOf')
    BY <1>2, <1>4
  <1> QED
    BY <1>5, FitBooks

\* What a step of c leaves of the windows.
LEMMA WindowsMove ==
    ASSUME CallsSound, NEW c \in Calls, NEW x, call' = [call EXCEPT ![c] = x], life' = life,
           x.pc # "new", x.life = life
    PROVE  /\ WindowsOf'[c] = x.bumped /\ \A d \in Calls \ {c} : WindowsOf'[d] = WindowsOf[d]
           /\ DOMAIN WindowsOf = Calls /\ DOMAIN WindowsOf' = Calls
  <1>1. call'[c] = x /\ \A d \in Calls \ {c} : call'[d] = call[d]
    BY DEF CallsSound
  <1> QED
    BY <1>1 DEF WindowsOf, Windows, Counted, At

\* A heartbeat is counted once, in its own window.
LEMMA HeartbeatBooks ==
    ASSUME Safe, NEW c \in Calls, Heartbeat(c)
    PROVE  BooksSound'
  <1>1. /\ CallsSound /\ call[c].pc = "new" /\ life' = life /\ hour' = hour /\ hour \in Nat
        /\ Fits(books, hour, WindowsOf)
    BY HeartbeatCalls, BooksFit DEF Safe
  <1>2. PICK req, x :
                /\ req \in Requests[c]
                /\ call' = [call EXCEPT ![c] = x] /\ x.life = life /\ x.pc # "new" /\ x.req = req
                /\ req.verb = "heartbeat"
                /\ \/ /\ x.bumped = {} /\ books' = books /\ x.answer # "HeartbeatRateLimited"
                   \/ /\ books' = Bump(books, HeartbeatKey(req), IpLimit, hour)
                      /\ IF Full(books, HeartbeatKey(req), IpLimit, hour)
                         THEN x.bumped = {} /\ x.answer = "HeartbeatRateLimited"
                         ELSE /\ x.bumped = {<<HeartbeatKey(req), hour>>}
                              /\ x.answer # "HeartbeatRateLimited"
    BY <1>1, HeartbeatCalls
  <1>3. /\ WindowsOf'[c] = x.bumped /\ \A d \in Calls \ {c} : WindowsOf'[d] = WindowsOf[d]
        /\ DOMAIN WindowsOf = Calls /\ DOMAIN WindowsOf' = Calls
    BY <1>1, <1>2, WindowsMove
  <1>4. WindowsOf[c] = {}
    BY <1>1 DEF WindowsOf, Windows, Counted, At
  <1>5. CASE x.bumped = {} /\ books' = books
    <2>1. WindowsOf' = WindowsOf
      BY <1>3, <1>4, <1>5 DEF WindowsOf
    <2> QED
      BY <1>1, <1>5, <2>1, FitBooks
  <1>6. CASE /\ books' = Bump(books, HeartbeatKey(req), IpLimit, hour)
             /\ IF Full(books, HeartbeatKey(req), IpLimit, hour)
                THEN x.bumped = {} ELSE x.bumped = {<<HeartbeatKey(req), hour>>}
    <2>1. PICK key : key = HeartbeatKey(req)
      OBVIOUS
    <2>2. LimitOf(key) = IpLimit
      BY <2>1 DEF LimitOf, HeartbeatKey
    <2>3. PICK v : v = WindowsOf'
      OBVIOUS
    <2>4. /\ v[c] = IF Full(books, key, LimitOf(key), hour) THEN WindowsOf[c]
                    ELSE WindowsOf[c] \cup {<<key, hour>>}
          /\ DOMAIN v = DOMAIN WindowsOf /\ \A d \in Calls \ {c} : v[d] = WindowsOf[d]
          /\ <<key, hour>> \notin WindowsOf[c]
      BY <1>3, <1>4, <1>6, <2>1, <2>2, <2>3
    <2>5. Fits(Bump(books, key, LimitOf(key), hour), hour, v)
      BY <1>1, <2>4, BumpFits
    <2>6. Fits(books', hour', WindowsOf')
      BY <1>1, <1>6, <2>1, <2>2, <2>3, <2>5
    <2> QED
      BY <2>6, FitBooks
  <1> QED
    BY <1>2, <1>5, <1>6

\* The rate stage counts a call in its identity window, and then in its ip window.
LEMMA ArmBooks ==
    ASSUME Safe, NEW c \in Calls, ArmRateBuckets(c)
    PROVE  BooksSound'
  <1>1. /\ CallsSound /\ call[c].pc = "rate" /\ life' = life /\ hour \in Nat /\ hour' \in Nat
        /\ hour <= hour' /\ Fits(books, hour, WindowsOf)
    BY ArmLocals, BooksFit DEF Safe
  <1>2. PICK x : /\ call' = [call EXCEPT ![c] = x] /\ CallTyped(x) /\ Armed(c, x, hour')
                 /\ x.pc = "persist" \/ (x.pc = "refuse" /\ x.answer \in Refusals)
                 /\ x.req = call[c].req /\ x.reply = call[c].reply /\ x.life = call[c].life
    BY <1>1, ArmLocals
  <1>3. Sound(call[c]) /\ call[c].life = life /\ call[c].bumped = {}
    BY <1>1 DEF CallsSound, Sound
  <1>4. /\ WindowsOf'[c] = x.bumped /\ \A d \in Calls \ {c} : WindowsOf'[d] = WindowsOf[d]
        /\ DOMAIN WindowsOf = Calls /\ DOMAIN WindowsOf' = Calls
    BY <1>1, <1>2, <1>3, WindowsMove
  <1>5. WindowsOf[c] = {}
    BY <1>3 DEF WindowsOf, Windows
  <1> DEFINE req == call[c].req
             id == IdentityKey(req)
             ip == IpKey(req)
             named == req.session # None
             counted == IF named THEN {<<id, hour>>} ELSE {}
             first == IF named THEN Bump(books, id, IdentityLimit, hour) ELSE books
             stopped == named /\ Full(books, id, IdentityLimit, hour)
             full == Full(first, ip, IpLimit, hour')
             middle == [WindowsOf EXCEPT ![c] = IF stopped THEN {} ELSE counted]
  <1>6. \/ books' = books /\ x.bumped = {}
        \/ stopped /\ books' = first /\ x.bumped = {}
        \/ /\ ~stopped /\ books' = Bump(first, ip, IpLimit, hour')
           /\ x.bumped = IF full THEN counted ELSE counted \cup {<<ip, hour'>>}
    BY <1>2 DEF Armed
  <1>7. id.kind = "id" /\ ip.kind = "ip" /\ id # ip
    BY DEF IdentityKey, IpKey
  <1>8. LimitOf(id) = IdentityLimit /\ LimitOf(ip) = IpLimit
    BY <1>7 DEF LimitOf
  <1> HIDE DEF id, ip
  <1>9. /\ middle[c] = (IF stopped THEN {} ELSE counted) /\ DOMAIN middle = Calls
        /\ \A d \in Calls \ {c} : middle[d] = WindowsOf[d]
    BY <1>4
  <1>10. Fits(first, hour, middle)
    <2> HIDE DEF middle
    <2>1. CASE ~named
      <3>1. middle = WindowsOf
        BY <1>5, <2>1 DEF middle, WindowsOf
      <3> QED
        BY <1>1, <2>1, <3>1
    <2>2. CASE named
      <3>1. PICK key, v : key = id /\ v = middle
        OBVIOUS
      <3>2. /\ v[c] = IF Full(books, key, LimitOf(key), hour) THEN WindowsOf[c]
                      ELSE WindowsOf[c] \cup {<<key, hour>>}
            /\ <<key, hour>> \notin WindowsOf[c] /\ DOMAIN v = DOMAIN WindowsOf
            /\ \A d \in Calls \ {c} : v[d] = WindowsOf[d]
        BY <1>4, <1>5, <1>8, <1>9, <2>2, <3>1
      <3>3. hour \in Nat /\ hour <= hour /\ Fits(books, hour, WindowsOf)
        BY <1>1
      <3>4. Fits(Bump(books, key, LimitOf(key), hour), hour, v)
        BY <3>2, <3>3, BumpFits
      <3> QED
        BY <1>8, <2>2, <3>1, <3>4
    <2> QED
      BY <2>1, <2>2
  <1> HIDE DEF middle, first
  <1>11. PICK w : w = WindowsOf'
    OBVIOUS
  <1>12. CASE books' = books /\ x.bumped = {}
    <2>1. w = WindowsOf
      BY <1>4, <1>5, <1>11, <1>12 DEF WindowsOf
    <2>2. SameWindows
      BY <1>11, <2>1 DEF SameWindows, WindowsOf
    <2> QED
      BY <1>1, <1>12, <2>2, BooksKept
  <1>13. CASE stopped /\ books' = first /\ x.bumped = {}
    <2>1. w = middle
      BY <1>4, <1>9, <1>11, <1>13 DEF WindowsOf, middle
    <2>2. Fits(first, hour', middle)
      BY <1>1, <1>10, FitsLater
    <2>3. Fits(books', hour', WindowsOf')
      BY <1>11, <1>13, <2>1, <2>2
    <2> QED
      BY <2>3, FitBooks
  <1>14. CASE /\ ~stopped /\ books' = Bump(first, ip, IpLimit, hour')
              /\ x.bumped = IF full THEN counted ELSE counted \cup {<<ip, hour'>>}
    <2>1. middle[c] = counted /\ <<ip, hour'>> \notin middle[c]
      BY <1>7, <1>9, <1>14
    <2>2. /\ w[c] = IF Full(first, ip, LimitOf(ip), hour') THEN middle[c]
                    ELSE middle[c] \cup {<<ip, hour'>>}
          /\ DOMAIN w = DOMAIN middle /\ \A d \in Calls \ {c} : w[d] = middle[d]
      BY <1>4, <1>8, <1>9, <1>11, <1>14, <2>1
    <2>3. Fits(Bump(first, ip, LimitOf(ip), hour'), hour', w)
      BY <1>1, <1>10, <2>1, <2>2, BumpFits
    <2>4. Fits(books', hour', WindowsOf')
      BY <1>8, <1>11, <1>14, <2>3
    <2> QED
      BY <2>4, FitBooks
  <1> QED
    BY <1>6, <1>12, <1>13, <1>14

\* A call that begins is in no window yet.
LEMMA BeginBooks ==
    ASSUME Safe, NEW c \in Calls, BeginIntake(c)
    PROVE  BooksSound'
  <1>1. /\ CallsSound /\ call[c].pc = "new"
        /\ UNCHANGED <<books, config, life, hour>> /\ hour \in Nat /\ hour <= hour'
    <2>1. hour \in Nat /\ CallsSound
      BY BoundsAssumption DEF Safe, CallsSound
    <2>2. call[c].pc = "new" /\ UNCHANGED <<books, config, life, hour>>
      BY DEF BeginIntake, At, ClockKept
    <2> QED
      BY <2>1, <2>2
  <1>2. PICK x : call' = [call EXCEPT ![c] = x] /\ x.bumped = {} /\ x.life = life /\ x.pc # "new"
    BY <1>1, BeginCalls
  <1>3. /\ WindowsOf'[c] = {} /\ \A d \in Calls \ {c} : WindowsOf'[d] = WindowsOf[d]
    BY <1>1, <1>2, WindowsMove
  <1>4. WindowsOf[c] = {}
    BY <1>1 DEF WindowsOf, Windows, Counted, At
  <1>5. SameWindows
    BY <1>3, <1>4 DEF SameWindows, WindowsOf
  <1> QED
    BY <1>1, <1>5, BooksKept

-----------------------------------------------------------------------------
\* A new process has empty books and counts no call.
LEMMA RestartBooks ==
    ASSUME CallsSound, Restart
    PROVE  BooksSound'
  <1>1. books' = {} /\ \A d \in Calls : WindowsOf'[d] = {}
    BY RestartCalls DEF Restart, WindowsOf
  <1>2. Fits(books', hour', WindowsOf')
    BY <1>1 DEF Fits
  <1> QED
    BY <1>2, FitBooks

\* The specification starts in the invariant.
LEMMA InitSafe == Init => Safe
  <1> SUFFICES ASSUME Init
               PROVE  Safe
    OBVIOUS
  <1>1. /\ config \in Configs /\ hour = 0 /\ life = 0 /\ books = {} /\ messages = {}
        /\ heard = {} /\ audits = {} /\ call = [c \in Calls |-> [pc |-> "new"]]
    BY DEF Init
  <1>2. hour \in 0 .. MaxHour /\ life \in 0 .. MaxLives
    BY <1>1, BoundsAssumption
  <1>3. \A c \in Calls : call[c].pc = "new"
    BY <1>1
  <1>4. \A c \in Calls : CallTyped(call[c]) /\ Sound(call[c])
    BY <1>3 DEF CallTyped, Sound
  <1>5. \A c \in Calls : Told(c, call[c])
    BY <1>1, <1>3 DEF Told, Stored, Received, RefusedOnRecord, MessagesOf
  <1>6. MessagesSound
    BY <1>1 DEF MessagesSound
  <1>7. BooksSound
    BY <1>1, <1>3 DEF BooksSound, Counted, At
  <1> QED
    BY <1>1, <1>2, <1>4, <1>5, <1>6, <1>7 DEF Safe, CallsSound

\* Every step keeps it.
LEMMA NextSafe == Safe /\ [Next]_vars => Safe'
  <1> SUFFICES ASSUME Safe, [Next]_vars
               PROVE  Safe'
    OBVIOUS
  <1>1. CallsSound /\ hour \in Nat
    BY BoundsAssumption DEF Safe, CallsSound
  <1>2. ASSUME NEW c \in Calls, BeginIntake(c)
        PROVE  Safe'
    BY <1>1, <1>2, BeginCalls, BeginBooks DEF Safe
  <1>3. ASSUME NEW c \in Calls, Heartbeat(c)
        PROVE  Safe'
    BY <1>1, <1>3, HeartbeatCalls, HeartbeatBooks DEF Safe
  <1>4. ASSUME NEW c \in Calls, Verify(c)
        PROVE  Safe'
    <2>1. books' = books /\ hour' = hour
      BY <1>4 DEF Verify, ClockKept
    <2> QED
      BY <1>1, <1>4, <2>1, VerifyCalls, BooksKept DEF Safe
  <1>5. ASSUME NEW c \in Calls, Own(c)
        PROVE  Safe'
    <2>1. CASE ArmRateBuckets(c)
      BY <1>1, <2>1, ArmCalls, ArmBooks DEF Safe
    <2>2. CASE \/ AuditRefusal(c) \/ Persist(c) \/ Commit(c) \/ AuditReceived(c)
               \/ Notify(c) \/ Mark(c)
      <3>1. books' = books /\ hour' = hour
        BY <2>2 DEF AuditRefusal, Persist, Commit, AuditReceived, Notify, Mark, ClockKept
      <3>2. CallsSound' /\ SameWindows
        BY <1>1, <2>2, AuditRefusalCalls, PersistCalls, CommitCalls, AuditReceivedCalls,
           NotifyCalls, MarkCalls
      <3> QED
        BY <1>1, <3>1, <3>2, BooksKept DEF Safe
    <2> QED
      BY <1>5, <2>1, <2>2 DEF Own
  <1>6. CASE Tick
    <2>1. /\ UNCHANGED <<config, books, life, call, messages, audits, heard>>
          /\ hour' = hour + 1 /\ hour < MaxHour /\ hour \in 0 .. MaxHour
      BY <1>1, <1>6 DEF Tick, StoreKept, CallsSound
    <2>2. hour' \in 0 .. MaxHour /\ hour' \in Nat /\ hour <= hour'
      BY <2>1, BoundsAssumption
    <2>3. CallsSound' /\ SameWindows
      BY <1>1, <2>1, <2>2, ClockCalls
    <2> QED
      BY <2>1, <2>2, <2>3, BooksKept DEF Safe
  <1>7. CASE Restart
    BY <1>1, <1>7, RestartCalls, RestartBooks DEF Safe
  <1>8. CASE UNCHANGED vars
    <2>1. UNCHANGED <<config, books, hour, life, call, messages, audits, heard>>
      BY <1>8 DEF vars
    <2>2. hour' \in 0 .. MaxHour /\ hour <= hour'
      BY <1>1, <2>1 DEF CallsSound
    <2>3. CallsSound' /\ SameWindows
      BY <1>1, <2>1, <2>2, ClockCalls
    <2> QED
      BY <1>1, <2>1, <2>3, BooksKept DEF Safe
  <1> QED
    BY <1>2, <1>3, <1>4, <1>5, <1>6, <1>7, <1>8 DEF Next

\* The invariant holds in every state of every behaviour.
THEOREM SafeAlways == Spec => []Safe
  BY InitSafe, NextSafe, PTL DEF Spec
-----------------------------------------------------------------------------
\* What is stored was verified.
LEMMA StoredVerified ==
    ASSUME CallsSound, NEW m \in messages
    PROVE  /\ m.id \in Calls /\ call[m.id].pc \in {"received", "notify", "mark", "done"}
           /\ Verified(call[m.id]) /\ (m.notified => m.id \in heard)
  <1>1. m.id \in Calls
    BY DEF CallsSound, MessagesSound
  <1>2. Told(m.id, call[m.id]) /\ Stored(m.id) /\ m \in MessagesOf(m.id)
    BY <1>1 DEF CallsSound, Stored, MessagesOf
  <1> QED
    BY <1>1, <1>2 DEF Told

\* What a call ends with is on record.
LEMMA SafeIntake == Safe => IntakeInv
  <1> SUFFICES ASSUME Safe
               PROVE  IntakeInv
    OBVIOUS
  <1>1. CallsSound /\ BooksSound
    BY DEF Safe
  <1>2. StoredOnlyVerified
    BY <1>1, StoredVerified DEF StoredOnlyVerified, Verified
  <1>3. MarkedOnlyWhenHeard
    BY <1>1, StoredVerified
       DEF MarkedOnlyWhenHeard, CallsSound, MessagesSound, Told, Received
  <1>4. \A c \in Calls : call[c].pc = "done" => call[c].answer # "none"
    BY <1>1 DEF CallsSound, Sound
  <1>5. \A m, n \in messages : m.id = n.id => m = n
    BY <1>1 DEF CallsSound, MessagesSound
  <1> QED
    BY <1>1, <1>2, <1>3, <1>4, <1>5, StoredVerified DEF IntakeInv, CallsSound, BooksSound

\* The rate books count exactly the calls this process let through, one window per key; a
\* message belongs to one call that committed and was verified, and is marked only when the
\* officer's adapter heard of it (intake_engine.rs, RateBuckets and execute).
THEOREM BooksCountCalls == Spec => []IntakeInv
  BY SafeAlways, SafeIntake, PTL

\* The audit log agrees with the call.
LEMMA SafeAudits == Safe => AuditTellsOutcome
  <1> SUFFICES ASSUME Safe, NEW c \in Calls
               PROVE  /\ <<"intake_received", c>> \in audits => Stored(c)
                      /\ <<"intake_refused", c>> \in audits => ~Stored(c)
                      /\ call[c].pc = "done" /\ call[c].answer \in Refusals \ {"IntakeValidationFailed"}
                           => <<"intake_refused", c>> \in audits
                      /\ call[c].pc = "done" /\ call[c].answer \in {"Received", "Notified"} =>
                           Stored(c) /\ <<"intake_received", c>> \in audits
    BY DEF AuditTellsOutcome, Refusals
  <1>1. Told(c, call[c])
    BY DEF Safe, CallsSound
  <1> QED
    BY <1>1 DEF Told, Received, RefusedOnRecord

\* The audit log tells each call's outcome: a received row has its message, a refused call
\* left none, and every refusal of the executor is on record (intake_engine.rs, execute).
THEOREM AuditIsTheOutcome == Spec => []AuditTellsOutcome
  BY SafeAlways, SafeAudits, PTL
-----------------------------------------------------------------------------
\* Behind the proxy the address of a request is its client's, whatever it forged.
LEMMA ProxiedIp ==
    ASSUME NEW req \in RequestType, config.proxied
    PROVE  VisitorIp(req) = req.client
  <1>1. req.forged \in Seq(Clients) /\ req.client \in Clients
    BY DEF RequestType
  <1>2. /\ Hops(req) = Append(req.forged, req.client) /\ Len(Hops(req)) = Len(req.forged) + 1
        /\ Hops(req)[Len(Hops(req))] = req.client /\ Len(req.forged) \in Nat
    BY <1>1 DEF Hops
  <1>3. Hops(req) # << >>
    BY <1>2
  <1> QED
    BY <1>2, <1>3 DEF VisitorIp

\* A window that a call is counted in is one of its own keys.
LEMMA CountedKeys ==
    ASSUME CallsSound, config.proxied, NEW d \in Calls, Counted(d), NEW b \in call[d].bumped
    PROVE  LET r == call[d].req
           IN  /\ r \in RequestType /\ b = <<b[1], b[2]>>
               /\ \/ /\ r.verb = "contact"
                     /\ b[1] = [verb |-> "contact", kind |-> "ip", of |-> <<r.client>>]
                  \/ /\ r.verb = "contact" /\ r.session # None
                     /\ b[1] = [verb |-> "contact", kind |-> "id", of |-> <<r.client, r.session>>]
                  \/ /\ r.verb = "heartbeat"
                     /\ b[1] = [verb |-> "heartbeat", kind |-> "ip", of |-> <<r.site, r.client>>]
  <1>1. CallTyped(call[d]) /\ Sound(call[d]) /\ call[d].pc # "new"
    BY DEF CallsSound, Counted, At
  <1>2. call[d].req \in RequestType
    BY <1>1 DEF CallTyped
  <1>3. VisitorIp(call[d].req) = call[d].req.client
    BY <1>2, ProxiedIp
  <1>4. OwnBump(call[d], b)
    BY <1>1 DEF Sound
  <1> QED
    BY <1>2, <1>3, <1>4 DEF OwnBump, IpKey, IdentityKey, HeartbeatKey

\* A set of calls is finite, and has a size.
LEMMA CallsCount ==
    ASSUME NEW S \in SUBSET Calls
    PROVE  IsFiniteSet(S) /\ Cardinality(S) \in Nat
  <1>1. IsFiniteSet(S)
    BY CallsAssumption, FS_Subset
  <1> QED
    BY <1>1, FS_CardinalityType

\* A window holds no more than its limit, empty or not.
LEMMA WindowBounded ==
    ASSUME Safe, NEW key, NEW h
    PROVE  Cardinality(ByKey(key, h)) <= LimitOf(key)
  <1>1. CASE ByKey(key, h) = {}
    <2>1. Cardinality(ByKey(key, h)) = 0 /\ LimitOf(key) \in Nat
      BY <1>1, FS_EmptySet, BoundsAssumption DEF LimitOf
    <2> QED
      BY <2>1
  <1>2. CASE ByKey(key, h) # {}
    <2>1. PICK d \in Calls : Counted(d) /\ <<key, h>> \in call[d].bumped
      BY <1>2 DEF ByKey
    <2>2. PICK b \in call[d].bumped : b = <<key, h>>
      BY <2>1
    <2>3. Cardinality(ByKey(b[1], b[2])) <= LimitOf(b[1])
      BY <2>1, <2>2 DEF Safe, BooksSound
    <2> QED
      BY <2>2, <2>3
  <1> QED
    BY <1>1, <1>2

\* The calls of one client that passed the ip window are those of its key.
LEMMA SafeClients == Safe /\ config.proxied => ClientWithinLimit
  <1> SUFFICES ASSUME Safe, config.proxied, NEW who \in Clients, NEW h \in 0 .. MaxHour
               PROVE  Cardinality({c \in Calls : /\ Counted(c) /\ call[c].req.client = who
                                                 /\ call[c].req.verb = "contact"
                                                 /\ \E b \in call[c].bumped : b[2] = h /\ b[1].kind = "ip"})
                        <= IpLimit
    BY DEF ClientWithinLimit
  <1> DEFINE passed == {c \in Calls : /\ Counted(c) /\ call[c].req.client = who
                                      /\ call[c].req.verb = "contact"
                                      /\ \E b \in call[c].bumped : b[2] = h /\ b[1].kind = "ip"}
             key == [verb |-> "contact", kind |-> "ip", of |-> <<who>>]
  <1>1. ASSUME NEW c \in passed
        PROVE  c \in ByKey(key, h)
    <2>1. PICK b \in call[c].bumped : b[2] = h /\ b[1].kind = "ip"
      OBVIOUS
    <2>2. c \in Calls /\ Counted(c) /\ call[c].req.verb = "contact" /\ call[c].req.client = who
      OBVIOUS
    <2>3. CallsSound
      BY DEF Safe
    <2>4. b = <<b[1], b[2]>>
      BY <2>1, <2>2, <2>3, CountedKeys
    <2>5. PICK q, k : q = call[c].req /\ k = b[1]
      OBVIOUS
    <2>6. \/ k = [verb |-> "contact", kind |-> "ip", of |-> <<q.client>>]
          \/ k = [verb |-> "contact", kind |-> "id", of |-> <<q.client, q.session>>]
          \/ q.verb = "heartbeat"
      BY <2>2, <2>3, <2>5, CountedKeys
    <2>7. b[1] = key
      BY <2>1, <2>2, <2>5, <2>6
    <2> QED
      BY <2>1, <2>2, <2>4, <2>7 DEF ByKey
  <1>2. passed \in SUBSET ByKey(key, h) /\ ByKey(key, h) \in SUBSET Calls
    BY <1>1 DEF ByKey
  <1>3. LimitOf(key) = IpLimit /\ IpLimit \in Nat
    BY BoundsAssumption DEF LimitOf
  <1> HIDE DEF passed, key
  <1>4. Cardinality(passed) <= Cardinality(ByKey(key, h)) /\ Cardinality(passed) \in Nat
        /\ Cardinality(ByKey(key, h)) \in Nat
    BY <1>2, CallsCount, FS_Subset
  <1>5. Cardinality(ByKey(key, h)) <= IpLimit
    BY <1>3, WindowBounded
  <1>6. Cardinality(passed) <= IpLimit
    BY <1>3, <1>4, <1>5
  <1> QED
    BY <1>6 DEF passed

\* "20 per IP per hour": behind the reverse proxy no client passes the ip window of an hour
\* more often than the limit, whatever hops it writes into its header (public_routes.rs,
\* visitor_ip; intake_engine.rs, RateBuckets).
THEOREM ClientsHeldToLimit ==
    ASSUME \A g \in Configs : g.proxied
    PROVE  Spec => []ClientWithinLimit
  <1>1. Safe => config.proxied
    BY DEF Safe, CallsSound
  <1> QED
    BY <1>1, SafeAlways, SafeClients, PTL
-----------------------------------------------------------------------------
\* A full window holds exactly its limit.
LEMMA FullTells ==
    ASSUME Safe, NEW key, NEW h \in Nat, hour <= h, NEW limit, limit = LimitOf(key),
           Full(books, key, limit, h)
    PROVE  Cardinality(ByKey(key, h)) = limit
  <1>1. Fits(books, hour, WindowsOf) /\ hour \in Nat /\ Keyed(WindowsOf, key, h) = ByKey(key, h)
    BY BooksFit
  <1>2. CountIn(books, key, h) = Cardinality(ByKey(key, h))
    BY <1>1, CountTells
  <1>3. ByKey(key, h) \in SUBSET Calls
    BY DEF ByKey
  <1>4. Cardinality(ByKey(key, h)) \in Nat /\ Cardinality(ByKey(key, h)) <= limit /\ limit \in Nat
    BY <1>3, CallsCount, WindowBounded, BoundsAssumption DEF LimitOf
  <1> QED
    BY <1>2, <1>4 DEF Full

\* Counting one key leaves the windows of the others.
LEMMA OtherKey ==
    ASSUME NEW book, NEW key, NEW other, other # key, NEW limit, NEW i, NEW h
    PROVE  CountIn(Bump(book, key, limit, i), other, h) = CountIn(book, other, h)
  <1> DEFINE before == {e \in book : e.key = other /\ e.hour = h}
             after == {e \in Bump(book, key, limit, i) : e.key = other /\ e.hour = h}
             Count(w) == IF w = {} THEN 0 ELSE (CHOOSE e \in w : TRUE).count
  <1>1. after = before
    BY DEF Bump
  <1>2. CountIn(book, other, h) = Count(before)
    BY DEF CountIn
  <1>3. CountIn(Bump(book, key, limit, i), other, h) = Count(after)
    BY DEF CountIn
  <1> HIDE DEF before, after, Count
  <1> QED
    BY <1>1, <1>2, <1>3

\* The calls of a client that a window let through are those of its key: the whole of it, with the session or the website.
LEMMA UsedKeys ==
    ASSUME CallsSound, config.proxied, NEW r \in RequestType, NEW h
    PROVE  /\ r.verb = "contact" => UsedUp(r, "ip", h) = ByKey(IpKey(r), h)
           /\ r.verb = "contact" /\ r.session # None =>
                {d \in UsedUp(r, "id", h) : call[d].req.session = r.session} = ByKey(IdentityKey(r), h)
           /\ r.verb = "heartbeat" =>
                {d \in UsedUp(r, "ip", h) : call[d].req.site = r.site} = ByKey(HeartbeatKey(r), h)
  <1>1. VisitorIp(r) = r.client
    BY ProxiedIp
  <1> DEFINE ip == [verb |-> "contact", kind |-> "ip", of |-> <<r.client>>]
             id == [verb |-> "contact", kind |-> "id", of |-> <<r.client, r.session>>]
             beat == [verb |-> "heartbeat", kind |-> "ip", of |-> <<r.site, r.client>>]
  <1>2. IpKey(r) = ip /\ IdentityKey(r) = id /\ HeartbeatKey(r) = beat
    BY <1>1 DEF IpKey, IdentityKey, HeartbeatKey
  <1>3. ASSUME NEW d \in Calls, Counted(d), NEW b \in call[d].bumped
        PROVE  /\ b = <<b[1], b[2]>>
               /\ b[1] = ip <=> /\ call[d].req.client = r.client /\ call[d].req.verb = "contact"
                                /\ b[1].kind = "ip"
               /\ b[1] = id <=> /\ call[d].req.client = r.client /\ call[d].req.verb = "contact"
                                /\ b[1].kind = "id" /\ call[d].req.session = r.session
               /\ b[1] = beat <=> /\ call[d].req.client = r.client
                                  /\ call[d].req.verb = "heartbeat"
                                  /\ b[1].kind = "ip" /\ call[d].req.site = r.site
    <2>1. PICK q : q = call[d].req
      OBVIOUS
    <2>2. /\ b = <<b[1], b[2]>>
          /\ \/ /\ q.verb = "contact"
                /\ b[1] = [verb |-> "contact", kind |-> "ip", of |-> <<q.client>>]
             \/ /\ q.verb = "contact"
                /\ b[1] = [verb |-> "contact", kind |-> "id", of |-> <<q.client, q.session>>]
             \/ /\ q.verb = "heartbeat"
                /\ b[1] = [verb |-> "heartbeat", kind |-> "ip", of |-> <<q.site, q.client>>]
      BY <1>3, <2>1, CountedKeys
    <2>3. PICK key : key = b[1]
      OBVIOUS
    <2>4. CASE q.verb = "contact" /\ key = [verb |-> "contact", kind |-> "ip", of |-> <<q.client>>]
      <3>1. key.kind = "ip" /\ key.verb = "contact" /\ key.of = <<q.client>>
        BY <2>4
      <3>2. key = ip <=> q.client = r.client
        BY <2>4
      <3>3. key # id /\ key # beat
        BY <3>1
      <3> QED
        BY <2>1, <2>2, <2>3, <2>4, <3>1, <3>2, <3>3
    <2>5. CASE /\ q.verb = "contact"
               /\ key = [verb |-> "contact", kind |-> "id", of |-> <<q.client, q.session>>]
      <3>1. key.kind = "id" /\ key.verb = "contact"
        BY <2>5
      <3>2. key = id <=> q.client = r.client /\ q.session = r.session
        BY <2>5
      <3>3. key # ip /\ key # beat
        BY <3>1
      <3> QED
        BY <2>1, <2>2, <2>3, <2>5, <3>1, <3>2, <3>3
    <2>6. CASE /\ q.verb = "heartbeat"
               /\ key = [verb |-> "heartbeat", kind |-> "ip", of |-> <<q.site, q.client>>]
      <3>1. key.kind = "ip" /\ key.verb = "heartbeat"
        BY <2>6
      <3>2. key = beat <=> q.client = r.client /\ q.site = r.site
        BY <2>6
      <3>3. key # ip /\ key # id
        BY <3>1
      <3> QED
        BY <2>1, <2>2, <2>3, <2>6, <3>1, <3>2, <3>3
    <2> QED
      BY <2>2, <2>3, <2>4, <2>5, <2>6
  <1> HIDE DEF ip, id, beat
  <1>4. r.verb = "contact" => UsedUp(r, "ip", h) = ByKey(ip, h)
    BY <1>3 DEF UsedUp, ByKey
  <1>5. r.verb = "contact" =>
          {d \in UsedUp(r, "id", h) : call[d].req.session = r.session} = ByKey(id, h)
    BY <1>3 DEF UsedUp, ByKey
  <1>6. r.verb = "heartbeat" =>
          {d \in UsedUp(r, "ip", h) : call[d].req.site = r.site} = ByKey(beat, h)
    BY <1>3 DEF UsedUp, ByKey
  <1> QED
    BY <1>2, <1>4, <1>5, <1>6

\* A step of another call, or of the clock, leaves this one as it is.
LEMMA OthersKept ==
    ASSUME CallsSound, [Next]_vars, NEW c \in Calls
    PROVE  \/ call'[c] = call[c] \/ Restart
           \/ BeginIntake(c) \/ Heartbeat(c) \/ Verify(c) \/ Own(c)
  <1>1. ASSUME NEW d \in Calls \ {c}, NEW x, call' = [call EXCEPT ![d] = x]
        PROVE  call'[c] = call[c]
    BY <1>1 DEF CallsSound
  <1>2. ASSUME NEW d \in Calls \ {c}, BeginIntake(d)
        PROVE  call'[c] = call[c]
    BY <1>1, <1>2, BeginCalls
  <1>3. ASSUME NEW d \in Calls \ {c}, Heartbeat(d)
        PROVE  call'[c] = call[c]
    BY <1>1, <1>3, HeartbeatCalls
  <1>4. ASSUME NEW d \in Calls \ {c}, Verify(d)
        PROVE  call'[c] = call[c]
    BY <1>4 DEF Verify, CallsSound
  <1>5. ASSUME NEW d \in Calls \ {c}, Own(d)
        PROVE  call'[c] = call[c]
    <2>1. CASE ArmRateBuckets(d)
      BY <1>1, <2>1, ArmLocals
    <2>2. ASSUME NEW a, Goto(d, a) \/ Answer(d, a) \/ Refuse(d, a)
          PROVE  call'[c] = call[c]
      BY <2>2 DEF Goto, Answer, Refuse, CallsSound
    <2>3. CASE \/ AuditRefusal(d) \/ Persist(d) \/ Commit(d) \/ AuditReceived(d)
               \/ Notify(d) \/ Mark(d)
      <3>1. \E a : Goto(d, a) \/ Answer(d, a) \/ Refuse(d, a)
        BY <2>3 DEF AuditRefusal, Persist, Commit, AuditReceived, Notify, Mark
      <3> QED
        BY <2>2, <3>1
    <2> QED
      BY <1>5, <2>1, <2>3 DEF Own
  <1>6. Tick \/ UNCHANGED vars => call'[c] = call[c]
    BY DEF Tick, vars
  <1> QED
    BY <1>2, <1>3, <1>4, <1>5, <1>6 DEF Next

\* A call is refused by its own rate stage only.
LEMMA RateRefusal ==
    ASSUME Safe, [Next]_vars, NEW c \in Calls, call[c].pc = "rate",
           call'[c].answer = "IntakeRateLimited"
    PROVE  ArmRateBuckets(c)
  <1>1. CallsSound /\ call[c].answer = "none"
    BY DEF Safe, CallsSound, Sound
  <1>2. call'[c] # call[c]
    BY <1>1
  <1>3. ~Restart
    <2>1. Restart => call'[c].answer = "lost"
      <3>1. CallTyped(call[c])
        BY <1>1 DEF CallsSound
      <3>2. Restart => call'[c] = [call[c] EXCEPT !.pc = "done", !.answer = "lost"]
        BY DEF Restart, InFlight
      <3> QED
        BY <3>1, <3>2 DEF CallTyped
    <2> QED
      BY <2>1
  <1>4. ~BeginIntake(c) /\ ~Heartbeat(c) /\ ~Verify(c)
    BY DEF BeginIntake, Heartbeat, Verify, At
  <1>5. Own(c) => ArmRateBuckets(c)
    BY DEF Own, AuditRefusal, Persist, Commit, AuditReceived, Notify, Mark, At
  <1> QED
    BY <1>1, <1>2, <1>3, <1>4, <1>5, OthersKept

\* A refused call of the executor met a full window of its own client.
LEMMA FullWhenRefused ==
    ASSUME Safe, config.proxied, [Next]_vars, NEW c \in Calls, call[c].pc = "rate",
           call'[c].answer = "IntakeRateLimited", NEW r, r = call'[c].req
    PROVE  \/ Cardinality(UsedUp(r, "ip", hour')) = IpLimit
           \/ /\ r.session # None
              /\ Cardinality({d \in UsedUp(r, "id", hour) : call[d].req.session = r.session})
                   = IdentityLimit
  <1>1. ArmRateBuckets(c) /\ CallsSound
    BY RateRefusal DEF Safe
  <1>2. PICK x : /\ call' = [call EXCEPT ![c] = x] /\ CallTyped(x) /\ Armed(c, x, hour')
                 /\ x.req = call[c].req
    BY <1>1, ArmLocals
  <1>3. /\ hour \in Nat /\ hour' \in Nat /\ hour <= hour' /\ call'[c] = x
        /\ CallTyped(call[c]) /\ call[c].req.verb = "contact"
    BY <1>1, <1>2, ArmLocals, BooksFit DEF CallsSound, Sound
  <1>4. r = call[c].req /\ r \in RequestType /\ r.verb = "contact" /\ x.answer = "IntakeRateLimited"
    BY <1>2, <1>3 DEF CallTyped
  <1> DEFINE named == r.session # None
             first == IF named THEN Bump(books, IdentityKey(r), IdentityLimit, hour) ELSE books
  <1>5. \/ named /\ Full(books, IdentityKey(r), IdentityLimit, hour)
        \/ Full(first, IpKey(r), IpLimit, hour')
    BY <1>2, <1>4 DEF Armed
  <1>6. IpKey(r) # IdentityKey(r) /\ LimitOf(IpKey(r)) = IpLimit
        /\ LimitOf(IdentityKey(r)) = IdentityLimit
    <2>1. IpKey(r).kind = "ip" /\ IdentityKey(r).kind = "id"
      BY DEF IpKey, IdentityKey
    <2> QED
      BY <2>1 DEF LimitOf
  <1>7. CASE named /\ Full(books, IdentityKey(r), IdentityLimit, hour)
    <2>1. Cardinality(ByKey(IdentityKey(r), hour)) = IdentityLimit
      BY <1>3, <1>6, <1>7, FullTells
    <2> QED
      BY <1>1, <1>4, <1>7, <2>1, UsedKeys
  <1>8. CASE Full(first, IpKey(r), IpLimit, hour')
    <2>1. CountIn(first, IpKey(r), hour') = CountIn(books, IpKey(r), hour')
      BY <1>6, OtherKey
    <2>2. Full(books, IpKey(r), IpLimit, hour')
      BY <1>8, <2>1 DEF Full
    <2>3. Cardinality(ByKey(IpKey(r), hour')) = IpLimit
      BY <1>3, <1>6, <2>2, FullTells
    <2> QED
      BY <1>1, <1>4, <2>3, UsedKeys
  <1> QED
    BY <1>5, <1>7, <1>8

\* A refused heartbeat met a full window of its own client and website.
LEMMA FullWhenBeatRefused ==
    ASSUME Safe, config.proxied, [Next]_vars, NEW c \in Calls, call[c].pc = "new",
           call'[c].pc # "new", call'[c].answer = "HeartbeatRateLimited", NEW r, r = call'[c].req
    PROVE  Cardinality({d \in UsedUp(r, "ip", hour) : call[d].req.site = r.site}) = IpLimit
  <1>1. CallsSound
    BY DEF Safe
  <1>2. Heartbeat(c)
    <2>1. call'[c] # call[c]
      OBVIOUS
    <2>2. ~Restart
      BY DEF Restart, InFlight
    <2>3. ~Verify(c) /\ ~Own(c)
      BY DEF Verify, Own, ArmRateBuckets, AuditRefusal, Persist, Commit, AuditReceived, Notify,
             Mark, At
    <2>4. ~BeginIntake(c)
      <3>1. \A x : call' = [call EXCEPT ![c] = x] => call'[c] = x
        BY <1>1 DEF CallsSound
      <3> QED
        BY <1>1, <3>1, BeginCalls
    <2> QED
      BY <1>1, <2>1, <2>2, <2>3, <2>4, OthersKept
  <1>3. PICK req, x :
                /\ req \in Requests[c]
                /\ call' = [call EXCEPT ![c] = x] /\ x.life = life /\ x.pc # "new" /\ x.req = req
                /\ req.verb = "heartbeat"
                /\ \/ /\ x.bumped = {} /\ books' = books /\ x.answer # "HeartbeatRateLimited"
                   \/ /\ books' = Bump(books, HeartbeatKey(req), IpLimit, hour)
                      /\ IF Full(books, HeartbeatKey(req), IpLimit, hour)
                         THEN x.bumped = {} /\ x.answer = "HeartbeatRateLimited"
                         ELSE /\ x.bumped = {<<HeartbeatKey(req), hour>>}
                              /\ x.answer # "HeartbeatRateLimited"
    BY <1>1, <1>2, HeartbeatCalls
  <1>4. call'[c] = x /\ hour \in Nat /\ hour <= hour
    BY <1>1, <1>3, BooksFit DEF CallsSound
  <1>5. r = req /\ r \in RequestType /\ r.verb = "heartbeat"
        /\ Full(books, HeartbeatKey(r), IpLimit, hour)
    BY <1>3, <1>4, RequestsAssumption
  <1>6. LimitOf(HeartbeatKey(r)) = IpLimit
    BY DEF HeartbeatKey, LimitOf
  <1>7. Cardinality(ByKey(HeartbeatKey(r), hour)) = IpLimit
    BY <1>4, <1>5, <1>6, FullTells
  <1> QED
    BY <1>1, <1>5, <1>7, UsedKeys

\* Nobody is turned away for another's traffic: behind the reverse proxy a call is refused a
\* window only when calls of the same verb and the same client, and of the same session or
\* website, have filled it (intake_engine.rs, RateBuckets; public_routes.rs, visitor_ip).
THEOREM RefusedForItsOwn ==
    ASSUME \A g \in Configs : g.proxied
    PROVE  Spec => RefusedOnlyWhenFull
  <1>1. Safe => config.proxied
    BY DEF Safe, CallsSound
  <1>2. Safe /\ [Next]_vars => [\A c \in Calls : FullIfRefused(c)]_vars
    BY <1>1, FullWhenRefused, FullWhenBeatRefused DEF FullIfRefused, At
  <1> QED
    BY <1>2, SafeAlways, PTL DEF Spec, RefusedOnlyWhenFull
=============================================================================
