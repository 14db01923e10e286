--------------------------- MODULE VisitorsProofs ---------------------------
(***************************************************************************)
(* Visitors, for every number of visitors, browsers and requests: one row  *)
(* of a browser, exclusive row locks, tracks that have their visitor, and  *)
(* what that says of visits and of the retention sweep.                    *)
(***************************************************************************)
EXTENDS Visitors, FiniteSetTheorems, TLAPS

\* The shape of a handler's locals.
Typed(f) ==
    /\ f \in [pc : Labels, at : 0 .. MaxNow, site : Sites \cup {None},
              digest : Digests \cup {None}, token : Tokens, url : PageUrls \cup {None},
              seen : {f.seen}, principal : Principals \cup {None},
              visitor : VisitorIds \cup {None}, survivor : VisitorIds \cup {None},
              writes : {f.writes}, locked : SUBSET VisitorIds, moved : SUBSET TrackIds,
              added : TrackRow \cup {NoRow}, swept : {f.swept}, answer : Answers]
    /\ DOMAIN f.writes \subseteq VisitorIds

\* f has deleted v and nothing else, and holds the row that takes its place.
Absorbs(f, v) == f.visitor = v /\ DOMAIN f.writes = {v} /\ f.survivor \in f.locked

\* A write of row r at v: a deletion that the verb may make, or a version that keeps what
\* identifies the row and counts a visit only after the window.
Written(f, v, r) ==
    \/ /\ r = Gone /\ Live(v)
       /\ \/ f.pc = "commit" /\ f.answer = "Swept" /\ Stale(v)
          \/ f.pc = "merge.view" /\ Absorbs(f, v)
          \/ f.pc = "commit" /\ f.answer = "Merged" /\ Absorbs(f, v) /\ f.survivor # v
    \/ /\ r \in VisitorRow /\ visitors[v] # Gone
       /\ Live(v) =>
            /\ r.digest = visitors[v].digest /\ r.site = visitors[v].site
            /\ \/ r.visits = visitors[v].visits
               \/ /\ r.visits = visitors[v].visits + 1
                  /\ visitors[v].last + VisitWindow < r.last

\* What a transaction with the locals f holds.
HeldBy(f) == DOMAIN f.writes \cup f.locked

Clean(f) == DOMAIN f.writes = {} /\ f.added = NoRow

\* What a handler with the locals f relies on.
Sound(f) ==
    /\ Typed(f)
    /\ \A v \in DOMAIN f.writes : Written(f, v, f.writes[v])
    /\ \A v \in f.locked : Live(v) /\ visitors[v].principal = f.principal
    /\ \A t \in f.moved : LiveTrack(t) /\ f.survivor \in f.locked
    /\ f.added # NoRow => /\ f.added.visitor \in DOMAIN f.writes
                          /\ f.writes[f.added.visitor] \in VisitorRow
    /\ f.pc \in {"heartbeat.statement", "heartbeat.upsert"} =>
         f.site \in Sites /\ f.digest \in Digests
    /\ f.pc \in {"merge.find", "merge.claim", "merge.reparent", "merge.delete"} =>
         f.visitor \in VisitorIds /\ f.principal \in Principals /\ f.site \in Sites
    /\ f.pc \in {"merge.reparent", "merge.delete"} => f.survivor \in f.locked
    /\ f.pc \notin {"merge.view", "commit"} => Clean(f)
    /\ f.pc \notin {"merge.reparent", "merge.delete", "merge.view", "commit"} =>
         f.locked = {} /\ f.moved = {}

\* f inserts the row r at v.
Inserts(f, v, r) == v \in DOMAIN f.writes /\ visitors[v] = NoRow /\ f.writes[v] = r /\ r # Gone

\* One browser, one row.
SameBrowser(r, s) == r.digest = s.digest /\ r.site = s.site

\* The locals of two transactions do not meet.
Apart(f, g) ==
    /\ \A v \in VisitorIds : ~(v \in HeldBy(f) /\ v \in HeldBy(g))
    /\ \A t \in TrackIds : ~(t \in f.moved /\ t \in g.moved)
    /\ \A u, v \in VisitorIds :
         u # v /\ Inserts(f, u, f.writes[u]) /\ Inserts(g, v, g.writes[v]) =>
            ~SameBrowser(f.writes[u], g.writes[v])

\* What f inserts is a browser that nobody else is.
InsertsAlone(f) ==
    \A u, v \in VisitorIds : u # v /\ Inserts(f, u, f.writes[u]) =>
        /\ Live(v) => ~SameBrowser(f.writes[u], visitors[v])
        /\ ~Inserts(f, v, f.writes[v])

TablesSound ==
    /\ visitors \in Visitors /\ tracks \in Tracks
    /\ pepper \in Peppers /\ now \in 0 .. MaxNow /\ calls \in 0 .. MaxCalls
    /\ \A t \in TrackIds : LiveTrack(t) => Live(tracks[t].visitor)
    /\ \A u, v \in VisitorIds : u # v /\ Live(u) /\ Live(v) => ~SameBrowser(visitors[u], visitors[v])

\* The inductive invariant.
Safe ==
    /\ TablesSound
    /\ tx = [q \in Procs |-> tx[q]]
    /\ \A q \in Procs : Sound(tx[q]) /\ InsertsAlone(tx[q])
    /\ \A q, x \in Procs : q # x => Apart(tx[q], tx[x])
-----------------------------------------------------------------------------
\* Steps that change no table.

\* A start of the token range; the clock starts at 0.
LEMMA Zeros == 0 \in Tokens /\ 0 \in 0 .. MaxNow /\ Tokens \subseteq Nat
               /\ \A c \in 0 .. MaxCalls : c \in Tokens
  <1>1. Cardinality(VisitorIds) \in Nat
    BY IdsAssumption, FS_CardinalityType
  <1> QED
    BY <1>1, InputsAssumption DEF Tokens

\* Locals that have written and locked nothing meet nobody's.
LEMMA BlankApart ==
    ASSUME NEW f, NEW g, HeldBy(f) = {}, f.moved = {}
    PROVE  Apart(f, g) /\ InsertsAlone(f)
  BY DEF Apart, HeldBy, InsertsAlone, Inserts

\* Two transactions are apart in either order.
LEMMA ApartSymmetric ==
    ASSUME NEW f, NEW g, Apart(f, g)
    PROVE  Apart(g, f)
  BY DEF Apart, SameBrowser

\* Idle locals are sound and hold nothing.
LEMMA IdleSound ==
    ASSUME NEW a \in Answers
    PROVE  /\ Typed(Idle(a)) /\ Sound(Idle(a)) /\ Clean(Idle(a)) /\ HeldBy(Idle(a)) = {}
           /\ Idle(a).locked = {} /\ Idle(a).moved = {} /\ Idle(a).pc = "idle"
           /\ DOMAIN Idle(a).writes = {} /\ Idle(a).added = NoRow
  <1> DEFINE f == Idle(a)
  <1>1. /\ f.locked = {} /\ f.moved = {} /\ f.pc = "idle" /\ f.added = NoRow
        /\ f.writes = << >>
    BY DEF Idle
  <1>2. DOMAIN f.writes = {}
    BY <1>1
  <1>3. Typed(f)
    BY <1>2, Zeros DEF Typed, Idle, Labels
  <1> HIDE DEF f
  <1>4. Clean(f) /\ HeldBy(f) = {}
    BY <1>1, <1>2 DEF Clean, HeldBy
  <1>5. Sound(f)
    BY <1>1, <1>2, <1>3, <1>4 DEF Sound
  <1> QED
    BY <1>1, <1>2, <1>3, <1>4, <1>5 DEF f

\* A request that goes on with sound locals, apart from everybody's, keeps the invariant.
LEMMA QuietKeeps ==
    ASSUME Safe, NEW p \in Procs, NEW f, tx' = [tx EXCEPT ![p] = f],
           UNCHANGED <<visitors, tracks, pepper, now>>, calls' \in 0 .. MaxCalls,
           Sound(f), InsertsAlone(f), \A q \in Procs : q # p => Apart(f, tx[q])
    PROVE  Safe'
  <1>1. /\ tx' = [q \in Procs |-> tx'[q]]
        /\ tx'[p] = f /\ \A q \in Procs : q # p => tx'[q] = tx[q]
    BY DEF Safe
  <1>2. TablesSound'
    BY DEF Safe, TablesSound, LiveTrack, Live
  <1>3. \A q \in Procs : Sound(tx'[q]) /\ InsertsAlone(tx'[q])
    BY <1>1 DEF Safe
  <1>4. \A q \in Procs : Sound(tx[q])' /\ InsertsAlone(tx[q])'
    BY <1>3 DEF Sound, Written, Stale, Live, LiveTrack, InsertsAlone, Inserts
  <1>5. \A q, x \in Procs : q # x => Apart(tx'[q], tx'[x])
    BY <1>1, ApartSymmetric DEF Safe
  <1>6. \A q, x \in Procs : q # x => Apart(tx[q], tx[x])'
    BY <1>5 DEF Apart, Inserts
  <1> QED
    BY <1>1, <1>2, <1>4, <1>6 DEF Safe

\* The same for locals that have written and locked nothing.
LEMMA BlankKeeps ==
    ASSUME Safe, NEW p \in Procs, NEW f, tx' = [tx EXCEPT ![p] = f],
           UNCHANGED <<visitors, tracks, pepper, now>>, calls' \in 0 .. MaxCalls,
           Sound(f), HeldBy(f) = {}, f.moved = {}
    PROVE  Safe'
  BY BlankApart, QuietKeeps

\* A failed handler gives up what it wrote.
LEMMA FailKeeps ==
    ASSUME Safe, NEW p \in Procs, NEW a \in Answers, Fail(p, a), UNCHANGED <<pepper, now, calls>>
    PROVE  Safe'
  <1>1. calls' \in 0 .. MaxCalls
    BY DEF Safe, TablesSound
  <1> QED
    BY <1>1, IdleSound, BlankKeeps DEF Fail

\* Sound locals of a handler at a label where nothing is written yet.
LEMMA CleanSound ==
    ASSUME NEW f, Typed(f), Clean(f), f.locked = {}, f.moved = {},
           f.pc \in {"heartbeat.statement", "heartbeat.upsert"} =>
             f.site \in Sites /\ f.digest \in Digests,
           f.pc \in {"merge.find", "merge.claim"} =>
             f.visitor \in VisitorIds /\ f.principal \in Principals /\ f.site \in Sites,
           f.pc \notin {"merge.reparent", "merge.delete"}
    PROVE  Sound(f) /\ HeldBy(f) = {}
  BY DEF Sound, Clean, HeldBy

\* A call that starts with the locals g.
LEMMA StartKeeps ==
    ASSUME Safe, NEW p \in Procs, NEW g, Typed(g), Clean(g), g.locked = {}, g.moved = {},
           NEW label \in Labels \ {"merge.reparent", "merge.delete"}, Goto(p, g, label),
           UNCHANGED <<visitors, tracks, pepper, now>>, calls' \in 0 .. MaxCalls,
           label \in {"heartbeat.statement", "heartbeat.upsert"} =>
             g.site \in Sites /\ g.digest \in Digests,
           label \in {"merge.find", "merge.claim"} =>
             g.visitor \in VisitorIds /\ g.principal \in Principals /\ g.site \in Sites
    PROVE  Safe'
  <1> DEFINE f == [g EXCEPT !.pc = label]
  <1>1. /\ Typed(f) /\ f.pc = label /\ f.writes = g.writes /\ f.added = g.added
        /\ f.locked = {} /\ f.moved = {} /\ f.site = g.site /\ f.digest = g.digest
        /\ f.visitor = g.visitor /\ f.principal = g.principal
    BY DEF Typed
  <1>2. tx' = [tx EXCEPT ![p] = f]
    BY DEF Goto
  <1> HIDE DEF f
  <1>3. Clean(f)
    BY <1>1 DEF Clean
  <1>4. Sound(f) /\ HeldBy(f) = {}
    BY <1>1, <1>3, CleanSound
  <1> QED
    BY <1>1, <1>2, <1>4, BlankKeeps

\* Every call starts well.
LEMMA BeginKeeps ==
    ASSUME Safe, NEW p \in Procs, Begin(p)
    PROVE  Safe'
  <1> DEFINE idle == Idle("none")
  <1>1. /\ Typed(idle) /\ Clean(idle) /\ idle.locked = {} /\ idle.moved = {}
        /\ idle.writes = << >> /\ DOMAIN idle.writes = {} /\ idle.added = NoRow
    BY IdleSound DEF Answers, Idle
  <1>2. /\ UNCHANGED <<visitors, tracks, pepper, now>> /\ calls > 0 /\ calls' = calls - 1
        /\ now \in 0 .. MaxNow /\ pepper \in Peppers /\ calls \in 0 .. MaxCalls
    BY DEF Begin, BeginHeartbeat, BeginMerge, BeginSweep, Safe, TablesSound
  <1>3. calls' \in 0 .. MaxCalls /\ calls \in Tokens
    BY <1>2, InputsAssumption, Zeros
  <1>4. CASE tx' = [tx EXCEPT ![p] = Idle("VisitorPepperNotConfigured")]
    BY <1>2, <1>3, <1>4, IdleSound, BlankKeeps DEF Answers
  <1>5. CASE BeginHeartbeat(p) /\ pepper # ""
    <2>1. PICK w \in Sites, b \in Browsers, u \in PageUrls \cup {None} :
            \/ tx' = [tx EXCEPT ![p] = Idle("VisitorPepperNotConfigured")]
            \/ Goto(p, [idle EXCEPT !.at = now, !.site = w, !.url = u, !.token = calls,
                                    !.digest = VisitorDigest(b)], "heartbeat.statement")
      BY <1>5 DEF BeginHeartbeat
    <2> DEFINE g == [idle EXCEPT !.at = now, !.site = w, !.url = u, !.token = calls,
                                 !.digest = VisitorDigest(b)]
    <2>2. VisitorDigest(b) \in Digests
      BY <1>2 DEF VisitorDigest, Digests
    <2>3. /\ Typed(g) /\ g.writes = idle.writes /\ g.added = NoRow /\ g.locked = {}
          /\ g.moved = {} /\ g.site = w /\ g.digest = VisitorDigest(b)
      BY <1>1, <1>2, <1>3, <2>2 DEF Typed
    <2>4. Goto(p, g, "heartbeat.statement") \/ tx' = [tx EXCEPT ![p] = Idle("VisitorPepperNotConfigured")]
      BY <2>1
    <2> HIDE DEF g, idle
    <2>5. Clean(g)
      BY <1>1, <2>3 DEF Clean
    <2> QED
      BY <1>2, <1>3, <1>4, <2>2, <2>3, <2>4, <2>5, StartKeeps DEF Labels
  <1>6. CASE BeginMerge(p)
    <2>1. PICK w \in Sites, v \in VisitorIds, u \in Principals :
            Goto(p, [idle EXCEPT !.at = now, !.site = w, !.visitor = v, !.principal = u],
                 "merge.find")
      BY <1>6 DEF BeginMerge
    <2> DEFINE g == [idle EXCEPT !.at = now, !.site = w, !.visitor = v, !.principal = u]
    <2>2. /\ Typed(g) /\ g.writes = idle.writes /\ g.added = NoRow /\ g.locked = {}
          /\ g.moved = {} /\ g.site = w /\ g.visitor = v /\ g.principal = u
      BY <1>1, <1>2 DEF Typed
    <2>3. Goto(p, g, "merge.find")
      BY <2>1
    <2> HIDE DEF g, idle
    <2>4. Clean(g)
      BY <1>1, <2>2 DEF Clean
    <2> QED
      BY <1>2, <1>3, <2>2, <2>3, <2>4, StartKeeps DEF Labels
  <1>7. CASE BeginSweep(p)
    <2>1. Goto(p, idle, "sweep.batch")
      BY <1>7 DEF BeginSweep
    <2> HIDE DEF idle
    <2> QED
      BY <1>1, <1>2, <1>3, <2>1, StartKeeps DEF Labels
  <1> QED
    BY <1>4, <1>5, <1>6, <1>7 DEF Begin, BeginHeartbeat
-----------------------------------------------------------------------------
\* Steps of a handler inside its transaction.

\* Locals that insert nothing and hold what nobody else holds.
LEMMA HoldKeeps ==
    ASSUME Safe, NEW p \in Procs, NEW g, tx' = [tx EXCEPT ![p] = g],
           UNCHANGED <<visitors, tracks, pepper, now, calls>>, Sound(g),
           \A v \in VisitorIds : ~Inserts(g, v, g.writes[v]),
           \A q \in Procs \ {p} :
             /\ \A v \in HeldBy(g) : v \notin HeldBy(tx[q])
             /\ \A t \in g.moved : t \notin tx[q].moved
    PROVE  Safe'
  <1>1. calls' \in 0 .. MaxCalls
    BY DEF Safe, TablesSound
  <1>2. InsertsAlone(g)
    BY DEF InsertsAlone
  <1>3. \A q \in Procs : q # p => Apart(g, tx[q])
    BY DEF Apart
  <1> QED
    BY <1>1, <1>2, <1>3, QuietKeeps

\* Locals that hold and write what they did before.
LEMMA SameKeeps ==
    ASSUME Safe, NEW p \in Procs, NEW g, tx' = [tx EXCEPT ![p] = g],
           UNCHANGED <<visitors, tracks, pepper, now, calls>>, Sound(g),
           g.writes = tx[p].writes, g.locked = tx[p].locked, g.moved = tx[p].moved
    PROVE  Safe'
  <1>1. calls' \in 0 .. MaxCalls
    BY DEF Safe, TablesSound
  <1>2. InsertsAlone(g)
    BY DEF Safe, InsertsAlone, Inserts
  <1>3. \A q \in Procs : q # p => Apart(tx[p], tx[q])
    BY DEF Safe
  <1>4. \A q \in Procs : q # p => Apart(g, tx[q])
    BY <1>3 DEF Apart, Inserts, HeldBy
  <1> QED
    BY <1>1, <1>2, <1>4, QuietKeeps

\* Locals that write the row r at v, which nobody holds; a row that is inserted is of a
\* browser that no row is of, committed or not.
LEMMA WriteKeeps ==
    ASSUME Safe, NEW p \in Procs, NEW g, tx' = [tx EXCEPT ![p] = g],
           UNCHANGED <<visitors, tracks, pepper, now, calls>>, Sound(g),
           NEW v \in VisitorIds, NEW r \in VisitorRow, DOMAIN g.writes = {v},
           g.writes[v] = r, g.locked = {}, g.moved = {},
           \A q \in Procs \ {p} : v \notin HeldBy(tx[q]),
           Live(v) \/ /\ \A u \in VisitorIds : Live(u) => ~SameBrowser(r, visitors[u])
                      /\ \A q \in Procs \ {p} : \A u \in DOMAIN tx[q].writes :
                           tx[q].writes[u] \in VisitorRow => ~SameBrowser(r, tx[q].writes[u])
    PROVE  Safe'
  <1>1. calls' \in 0 .. MaxCalls
    BY DEF Safe, TablesSound
  <1>2. DOMAIN g.writes = {v} /\ g.writes[v] = r /\ HeldBy(g) = {v}
    BY DEF HeldBy
  <1>3. \A u \in VisitorIds : Inserts(g, u, g.writes[u]) => u = v /\ ~Live(v)
    BY <1>2 DEF Inserts, Live
  <1>4. InsertsAlone(g)
    BY <1>2, <1>3 DEF InsertsAlone
  <1>5. ASSUME NEW q \in Procs \ {p}, NEW u \in VisitorIds, Inserts(tx[q], u, tx[q].writes[u])
        PROVE  tx[q].writes[u] \in VisitorRow
    BY <1>5 DEF Safe, Sound, Written, Inserts
  <1>6. ASSUME NEW q \in Procs \ {p}, NEW u \in VisitorIds, NEW x \in VisitorIds,
               Inserts(g, u, g.writes[u]), Inserts(tx[q], x, tx[q].writes[x])
        PROVE  ~SameBrowser(g.writes[u], tx[q].writes[x])
    <2>1. tx[q].writes[x] \in VisitorRow /\ x \in DOMAIN tx[q].writes
      BY <1>5, <1>6 DEF Inserts
    <2>2. u = v /\ ~Live(v)
      BY <1>3, <1>6
    <2> QED
      BY <1>2, <2>1, <2>2
  <1>7. \A q \in Procs : q # p => Apart(g, tx[q])
    BY <1>2, <1>6 DEF Apart
  <1> QED
    BY <1>1, <1>4, <1>7, QuietKeeps

\* The heartbeat's statement starts.
LEMMA StatementKeeps ==
    ASSUME Safe, NEW p \in Procs, HeartbeatStatement(p)
    PROVE  Safe'
  <1> DEFINE f == tx[p]
             S == {tracks[t] : t \in {x \in TrackIds : LiveTrack(x)}}
             g == [f EXCEPT !.seen = S]
  <1>1. /\ f.pc = "heartbeat.statement" /\ Goto(p, g, "heartbeat.upsert")
        /\ UNCHANGED <<visitors, tracks, pepper, now, calls>>
    BY DEF HeartbeatStatement, At
  <1>2. Sound(f) /\ calls' \in 0 .. MaxCalls
    BY <1>1 DEF Safe, TablesSound
  <1>3. /\ Typed(f) /\ Clean(f) /\ f.locked = {} /\ f.moved = {} /\ f.site \in Sites
        /\ f.digest \in Digests
    BY <1>1, <1>2 DEF Sound
  <1> HIDE DEF f, S
  <1>4. /\ Typed(g) /\ g.writes = f.writes /\ g.added = f.added /\ g.locked = {} /\ g.moved = {}
        /\ g.site = f.site /\ g.digest = f.digest
    BY <1>3 DEF Typed
  <1> HIDE DEF g
  <1>5. Clean(g)
    BY <1>3, <1>4 DEF Clean
  <1> QED
    BY <1>1, <1>2, <1>3, <1>4, <1>5, StartKeeps DEF Labels

\* What the heartbeat has waited for: nobody else inserts its browser or holds its row.
LEMMA UpsertWaits ==
    ASSUME NEW p \in Procs, tx[p].pc = "heartbeat.upsert", WaitsFor(p) = {}
    PROVE  \A q \in Procs \ {p} :
             /\ ~Inserting(q, tx[p].digest, tx[p].site)
             /\ \A v \in RowsOf(tx[p].digest, tx[p].site) : v \notin HeldBy(tx[q])
  <1>1. WaitsFor(p) = {q \in Procs \ {p} :
                         \/ Inserting(q, tx[p].digest, tx[p].site)
                         \/ RowsOf(tx[p].digest, tx[p].site) \cap Held(q) # {}}
    BY DEF WaitsFor
  <1>2. \A q \in Procs : Held(q) = HeldBy(tx[q])
    BY DEF Held, HeldBy
  <1> QED
    BY <1>1, <1>2

\* A touch keeps the browser and counts a visit only after the window.
LEMMA TouchedRow ==
    ASSUME NEW s \in VisitorRow, NEW at \in 0 .. MaxNow
    PROVE  LET r == Touched(s, at)
           IN  /\ r \in VisitorRow /\ r.digest = s.digest /\ r.site = s.site /\ r.last = at
               /\ \/ r.visits = s.visits
                  \/ r.visits = s.visits + 1 /\ s.last + VisitWindow < at
  <1> DEFINE one == IF s.last + VisitWindow < at THEN 1 ELSE 0
             sum == s.visits + one
             r == [s EXCEPT !.last = at, !.visits = sum]
  <1>1. Touched(s, at) = r
    BY DEF Touched
  <1>2. sum \in Nat /\ (sum = s.visits \/ (sum = s.visits + 1 /\ s.last + VisitWindow < at))
    BY InputsAssumption DEF VisitorRow
  <1> HIDE DEF sum
  <1>3. /\ r \in VisitorRow /\ r.digest = s.digest /\ r.site = s.site /\ r.last = at
        /\ r.visits = sum
    BY <1>2 DEF VisitorRow
  <1> QED
    BY <1>1, <1>2, <1>3

\* The heartbeat writes its row: touched, or new with its browser.
LEMMA UpsertKeeps ==
    ASSUME Safe, NEW p \in Procs, HeartbeatUpsert(p)
    PROVE  Safe'
  <1> DEFINE f == tx[p]
             row == [site |-> f.site, digest |-> f.digest, token |-> f.token,
                     principal |-> None, visits |-> 0, last |-> f.at]
             repeated(v) == \E t \in f.seen : t.visitor = v /\ t.url = f.url
                                              /\ t.at + TrackDedup > f.at
             tracked(v) == f.url # None /\ ~repeated(v)
             locals(v, r) == [f EXCEPT
                                !.visitor = v, !.writes = [i \in {v} |-> r], !.seen = {},
                                !.token = r.token,
                                !.added = IF tracked(v)
                                          THEN [visitor |-> v, url |-> f.url, at |-> f.at]
                                          ELSE NoRow]
             reply(v) == IF tracked(v) THEN "Tracked" ELSE "Untracked"
  <1>1. /\ f.pc = "heartbeat.upsert" /\ WaitsFor(p) = {}
        /\ UNCHANGED <<visitors, tracks, pepper, now, calls>>
    BY DEF HeartbeatUpsert, At
  <1>2. \/ \E v \in RowsOf(f.digest, f.site) :
             Finish(p, locals(v, Touched(visitors[v], f.at)), reply(v))
        \/ /\ RowsOf(f.digest, f.site) = {} /\ UnusedVisitors # {}
           /\ Finish(p, locals(CHOOSE v \in UnusedVisitors : TRUE, row),
                     reply(CHOOSE v \in UnusedVisitors : TRUE))
    BY DEF HeartbeatUpsert
  <1>3. /\ Typed(f) /\ Clean(f) /\ f.locked = {} /\ f.moved = {} /\ f.site \in Sites
        /\ f.digest \in Digests
    BY <1>1 DEF Safe, Sound
  <1>4. ASSUME NEW v \in VisitorIds, NEW r \in VisitorRow, Finish(p, locals(v, r), reply(v)),
               r.digest = f.digest, r.site = f.site, visitors[v] # Gone,
               Live(v) => /\ v \in RowsOf(f.digest, f.site)
                          /\ \/ r.visits = visitors[v].visits
                             \/ /\ r.visits = visitors[v].visits + 1
                                /\ visitors[v].last + VisitWindow < r.last,
               ~Live(v) => RowsOf(f.digest, f.site) = {} /\ v \in UnusedVisitors
        PROVE  Safe'
    <2> DEFINE h == locals(v, r)
               g == [h EXCEPT !.pc = "commit", !.answer = reply(v)]
               new == IF tracked(v) THEN [visitor |-> v, url |-> f.url, at |-> f.at] ELSE NoRow
    <2>1. new \in TrackRow \cup {NoRow} /\ (new # NoRow => new.visitor = v)
      BY <1>3 DEF Typed, TrackRow
    <2>2. tx' = [tx EXCEPT ![p] = g]
      BY <1>4 DEF Finish
    <2>3. reply(v) \in Answers \ {"Swept"} /\ r.token \in Tokens
      BY DEF Answers, VisitorRow
    <2> HIDE DEF reply, tracked
    <2>4. /\ h = [f EXCEPT !.visitor = v, !.writes = [i \in {v} |-> r], !.seen = {},
                           !.token = r.token, !.added = new]
      OBVIOUS
    <2> HIDE DEF new, f
    <2>5. /\ h \in [pc : Labels, at : 0 .. MaxNow, site : Sites \cup {None},
                    digest : Digests \cup {None}, token : Tokens, url : PageUrls \cup {None},
                    seen : {{}}, principal : Principals \cup {None},
                    visitor : VisitorIds \cup {None}, survivor : VisitorIds \cup {None},
                    writes : {[i \in {v} |-> r]}, locked : {{}},
                    moved : {{}}, added : {new},
                    swept : {f.swept}, answer : Answers]
      BY <1>3, <2>3, <2>4 DEF Typed
    <2> HIDE DEF h
    <2>6. /\ g \in [pc : {"commit"}, at : 0 .. MaxNow, site : Sites \cup {None},
                    digest : Digests \cup {None}, token : Tokens, url : PageUrls \cup {None},
                    seen : {{}}, principal : Principals \cup {None},
                    visitor : VisitorIds \cup {None}, survivor : VisitorIds \cup {None},
                    writes : {[i \in {v} |-> r]}, locked : {{}},
                    moved : {{}}, added : {new},
                    swept : {f.swept}, answer : Answers]
      BY <2>3, <2>5
    <2> HIDE DEF g
    <2>7. /\ g.pc = "commit" /\ g.writes = [i \in {v} |-> r] /\ DOMAIN g.writes = {v}
          /\ g.writes[v] = r /\ g.locked = {} /\ g.moved = {} /\ g.added = new
      BY <2>6
    <2>8. Typed(g)
      BY <2>1, <2>6, <2>7 DEF Typed, Labels
    <2>9. Written(g, v, r)
      BY <1>4 DEF Written, RowsOf, HasDigest
    <2>10. Sound(g)
      BY <2>1, <2>7, <2>8, <2>9 DEF Sound
    <2>11. \A q \in Procs \ {p} : v \notin HeldBy(tx[q])
      <3>1. CASE Live(v)
        BY <1>1, <1>4, <3>1, UpsertWaits DEF f
      <3>2. CASE ~Live(v)
        <4>1. visitors[v] = NoRow /\ \A q \in Procs : v \notin DOMAIN tx[q].writes
          BY <1>4, <3>2 DEF UnusedVisitors
        <4>2. \A q \in Procs : v \notin tx[q].locked
          BY <3>2 DEF Safe, Sound
        <4> QED
          BY <4>1, <4>2 DEF HeldBy
      <3> QED
        BY <3>1, <3>2
    <2>12. Live(v) \/ /\ \A u \in VisitorIds : Live(u) => ~SameBrowser(r, visitors[u])
                      /\ \A q \in Procs \ {p} : \A u \in DOMAIN tx[q].writes :
                           tx[q].writes[u] \in VisitorRow => ~SameBrowser(r, tx[q].writes[u])
      <3>1. CASE ~Live(v)
        <4>1. \A u \in VisitorIds : Live(u) => ~SameBrowser(r, visitors[u])
          BY <1>4, <3>1 DEF RowsOf, HasDigest, Live, SameBrowser
        <4>2. \A q \in Procs \ {p} : ~Inserting(q, f.digest, f.site)
          BY <1>1, UpsertWaits DEF f
        <4>3. \A q \in Procs \ {p} : \A u \in DOMAIN tx[q].writes :
                tx[q].writes[u] \in VisitorRow => ~SameBrowser(r, tx[q].writes[u])
          BY <1>4, <4>2, ValuesAssumption DEF Inserting, HasDigest, SameBrowser
        <4> QED
          BY <4>1, <4>3
      <3> QED
        BY <3>1
    <2> QED
      BY <1>1, <1>4, <2>2, <2>7, <2>10, <2>11, <2>12, WriteKeeps
  <1>5. ASSUME NEW v \in RowsOf(f.digest, f.site),
               Finish(p, locals(v, Touched(visitors[v], f.at)), reply(v))
        PROVE  Safe'
    <2> DEFINE r == Touched(visitors[v], f.at)
    <2>1. v \in VisitorIds /\ Live(v) /\ visitors[v].digest = f.digest /\ visitors[v].site = f.site
      BY <1>5 DEF RowsOf, HasDigest, Live
    <2>2. visitors[v] \in VisitorRow
      BY <2>1 DEF Safe, TablesSound, Visitors, Live
    <2>3. f.at \in 0 .. MaxNow
      BY <1>3 DEF Typed
    <2>4. /\ r \in VisitorRow /\ r.digest = visitors[v].digest /\ r.site = visitors[v].site
          /\ r.last = f.at
          /\ \/ r.visits = visitors[v].visits
             \/ r.visits = visitors[v].visits + 1 /\ visitors[v].last + VisitWindow < f.at
      BY <2>2, <2>3, TouchedRow
    <2>5. Finish(p, locals(v, r), reply(v))
      BY <1>5
    <2> HIDE DEF r, locals, reply, f
    <2> QED
      BY <1>4, <1>5, <2>1, <2>4, <2>5 DEF Live
  <1>6. ASSUME RowsOf(f.digest, f.site) = {}, UnusedVisitors # {},
               Finish(p, locals(CHOOSE v \in UnusedVisitors : TRUE, row),
                      reply(CHOOSE v \in UnusedVisitors : TRUE))
        PROVE  Safe'
    <2> DEFINE v == CHOOSE x \in UnusedVisitors : TRUE
    <2>1. v \in UnusedVisitors
      BY <1>6
    <2>2. v \in VisitorIds /\ visitors[v] = NoRow
      BY <2>1 DEF UnusedVisitors
    <2>3. row \in VisitorRow /\ row.digest = f.digest /\ row.site = f.site
      BY <1>3 DEF Typed, VisitorRow
    <2>4. Finish(p, locals(v, row), reply(v))
      BY <1>6
    <2> HIDE DEF v, row, locals, reply, f
    <2> QED
      BY <1>4, <1>6, <2>1, <2>2, <2>3, <2>4, ValuesAssumption DEF Live
  <1> QED
    BY <1>2, <1>5, <1>6

\* What a merge has waited for: no open transaction has re-parented its tracks, and nobody
\* holds the anonymous row when it is deleted.
LEMMA MergeWaits ==
    ASSUME NEW p \in Procs, WaitsFor(p) = {}
    PROVE  \A q \in Procs \ {p} :
             /\ tx[p].pc = "merge.reparent" =>
                  \A t \in TracksOf(tx[p].visitor) : t \notin tx[q].moved
             /\ (tx[p].pc = "merge.delete" /\ Live(tx[p].visitor)) =>
                  tx[p].visitor \notin HeldBy(tx[q])
  <1>1. \A q \in Procs : Held(q) = HeldBy(tx[q])
    BY DEF Held, HeldBy
  <1>2. CASE tx[p].pc = "merge.reparent"
    <2>1. WaitsFor(p) = {q \in Procs \ {p} :
             \/ TracksOf(tx[p].visitor) \cap tx[q].moved # {}
             \/ TracksOf(tx[p].visitor) # {} /\ tx[p].visitor \in Deleting(q)}
      BY <1>2 DEF WaitsFor
    <2> QED
      BY <1>2, <2>1
  <1>3. CASE tx[p].pc = "merge.delete"
    <2>1. WaitsFor(p) = {q \in Procs \ {p} : Live(tx[p].visitor) /\ tx[p].visitor \in Held(q)}
      BY <1>3 DEF WaitsFor
    <2> QED
      BY <1>1, <1>3, <2>1
  <1> QED
    BY <1>2, <1>3

\* The identified rows of the principal that nobody holds are locked.
LEMMA FindKeeps ==
    ASSUME Safe, NEW p \in Procs, MergeFind(p)
    PROVE  Safe'
  <1> DEFINE f == tx[p]
             found == Identified(f.site, f.principal) \ HeldByOthers(p)
  <1>1. /\ f.pc = "merge.find" /\ UNCHANGED <<visitors, tracks, pepper, now, calls>>
        /\ \/ \E v \in found :
                Goto(p, [f EXCEPT !.survivor = v, !.locked = found], "merge.reparent")
           \/ Goto(p, f, "merge.claim")
    BY DEF MergeFind, At
  <1>2. /\ Typed(f) /\ Clean(f) /\ f.locked = {} /\ f.moved = {} /\ f.site \in Sites
        /\ f.visitor \in VisitorIds /\ f.principal \in Principals
    BY <1>1 DEF Safe, Sound
  <1>3. \A v \in found : /\ v \in VisitorIds /\ Live(v) /\ visitors[v].principal = f.principal
                         /\ \A q \in Procs \ {p} : v \notin HeldBy(tx[q])
    BY DEF Identified, HeldByOthers, Held, HeldBy
  <1>4. calls' \in 0 .. MaxCalls
    BY <1>1 DEF Safe, TablesSound
  <1> HIDE DEF f, found
  <1>5. CASE Goto(p, f, "merge.claim")
    BY <1>1, <1>2, <1>4, <1>5, StartKeeps DEF Labels
  <1>6. ASSUME NEW v \in found,
               Goto(p, [f EXCEPT !.survivor = v, !.locked = found], "merge.reparent")
        PROVE  Safe'
    <2> DEFINE h == [f EXCEPT !.survivor = v, !.locked = found]
               g == [h EXCEPT !.pc = "merge.reparent"]
    <2>1. tx' = [tx EXCEPT ![p] = g]
      BY <1>6 DEF Goto
    <2>2. /\ Typed(h) /\ h.writes = f.writes /\ h.added = f.added /\ h.locked = found
          /\ h.moved = {} /\ h.site = f.site /\ h.visitor = f.visitor
          /\ h.principal = f.principal /\ h.survivor = v
      BY <1>2, <1>3, <1>6 DEF Typed
    <2> HIDE DEF h
    <2>3. /\ Typed(g) /\ g.writes = f.writes /\ g.added = f.added /\ g.locked = found
          /\ g.moved = {} /\ g.site = f.site /\ g.visitor = f.visitor
          /\ g.principal = f.principal /\ g.survivor = v /\ g.pc = "merge.reparent"
      BY <2>2 DEF Typed, Labels
    <2> HIDE DEF g
    <2>4. Clean(g) /\ DOMAIN g.writes = {} /\ HeldBy(g) = found /\ g.added = NoRow
      BY <1>2, <2>3 DEF Clean, HeldBy
    <2>5. Sound(g)
      BY <1>2, <1>3, <1>6, <2>3, <2>4 DEF Sound
    <2>6. \A x \in VisitorIds : ~Inserts(g, x, g.writes[x])
      BY <2>4 DEF Inserts
    <2> QED
      BY <1>1, <1>3, <2>1, <2>3, <2>4, <2>5, <2>6, HoldKeeps
  <1> QED
    BY <1>1, <1>5, <1>6

\* The tracks of the anonymous row are re-parented.
LEMMA ReparentKeeps ==
    ASSUME Safe, NEW p \in Procs, MergeReparent(p)
    PROVE  Safe'
  <1> DEFINE f == tx[p]
             T == TracksOf(f.visitor)
             h == [f EXCEPT !.moved = T]
             g == [h EXCEPT !.pc = "merge.delete"]
  <1>1. /\ f.pc = "merge.reparent" /\ UNCHANGED <<visitors, tracks, pepper, now, calls>>
        /\ tx' = [tx EXCEPT ![p] = g] /\ WaitsFor(p) = {}
    BY DEF MergeReparent, At, Goto
  <1>2. /\ Sound(f) /\ Typed(f) /\ Clean(f) /\ f.moved \subseteq TrackIds /\ f.site \in Sites
        /\ f.visitor \in VisitorIds /\ f.principal \in Principals /\ f.survivor \in f.locked
    BY <1>1 DEF Safe, Sound, Typed
  <1>3. T \subseteq TrackIds /\ \A t \in T : LiveTrack(t)
    BY DEF TracksOf
  <1>4. \A q \in Procs \ {p} : \A t \in T : t \notin tx[q].moved
    BY <1>1, MergeWaits
  <1>5. \A q \in Procs \ {p} : Apart(f, tx[q])
    BY DEF Safe
  <1> HIDE DEF T, f
  <1>6. /\ Typed(h) /\ h.writes = f.writes /\ h.added = f.added /\ h.locked = f.locked
        /\ h.moved = T /\ h.site = f.site /\ h.visitor = f.visitor
        /\ h.principal = f.principal /\ h.survivor = f.survivor
    BY <1>2, <1>3 DEF Typed
  <1> HIDE DEF h
  <1>7. /\ Typed(g) /\ g.writes = f.writes /\ g.added = f.added /\ g.locked = f.locked
        /\ g.moved = T /\ g.site = f.site /\ g.visitor = f.visitor
        /\ g.principal = f.principal /\ g.survivor = f.survivor /\ g.pc = "merge.delete"
    BY <1>6 DEF Typed, Labels
  <1> HIDE DEF g
  <1>8. /\ Clean(g) /\ DOMAIN g.writes = {} /\ HeldBy(g) = f.locked /\ g.added = NoRow
        /\ HeldBy(f) = f.locked /\ f.locked \subseteq VisitorIds
    BY <1>2, <1>7 DEF Clean, HeldBy, Typed
  <1>9. Sound(g)
    BY <1>2, <1>3, <1>7, <1>8 DEF Sound
  <1>10. \A x \in VisitorIds : ~Inserts(g, x, g.writes[x])
    BY <1>8 DEF Inserts
  <1>11. \A q \in Procs \ {p} : /\ \A v \in HeldBy(g) : v \notin HeldBy(tx[q])
                                /\ \A t \in g.moved : t \notin tx[q].moved
    BY <1>4, <1>5, <1>7, <1>8 DEF Apart
  <1> QED
    BY <1>1, <1>9, <1>10, <1>11, HoldKeeps

\* The anonymous row is deleted.
LEMMA DeleteKeeps ==
    ASSUME Safe, NEW p \in Procs, MergeDelete(p)
    PROVE  Safe'
  <1> DEFINE f == tx[p]
             D == {x \in {f.visitor} : Live(x)}
             W == [v \in D |-> Gone]
             h == [f EXCEPT !.writes = W]
             g == [h EXCEPT !.pc = "merge.view"]
  <1>1. /\ f.pc = "merge.delete" /\ UNCHANGED <<visitors, tracks, pepper, now, calls>>
        /\ tx' = [tx EXCEPT ![p] = g] /\ WaitsFor(p) = {}
    BY DEF MergeDelete, At, Goto
  <1>2. /\ Sound(f) /\ Typed(f) /\ Clean(f) /\ f.visitor \in VisitorIds
        /\ f.locked \subseteq VisitorIds /\ f.moved \subseteq TrackIds
    BY <1>1 DEF Safe, Sound, Typed
  <1>3. /\ D \subseteq VisitorIds /\ DOMAIN W = D
        /\ \A v \in D : Live(v) /\ v = f.visitor /\ W[v] = Gone /\ D = {v}
    BY <1>2
  <1>4. \A q \in Procs \ {p} : \A v \in D : v \notin HeldBy(tx[q])
    BY <1>1, MergeWaits
  <1>5. \A q \in Procs \ {p} : Apart(f, tx[q])
    BY DEF Safe
  <1> HIDE DEF W, D, f
  <1>6. /\ h.writes = W /\ h.added = f.added /\ h.locked = f.locked
        /\ h.moved = f.moved /\ h.visitor = f.visitor
        /\ h.principal = f.principal /\ h.survivor = f.survivor
    BY <1>2 DEF Typed
  <1>7. Typed(h)
    BY <1>2, <1>3, <1>6 DEF Typed
  <1> HIDE DEF h
  <1>8. /\ Typed(g) /\ g.writes = W /\ g.added = f.added /\ g.locked = f.locked
        /\ g.moved = f.moved /\ g.visitor = f.visitor
        /\ g.principal = f.principal /\ g.survivor = f.survivor /\ g.pc = "merge.view"
    BY <1>6, <1>7 DEF Typed, Labels
  <1> HIDE DEF g
  <1>9. /\ HeldBy(g) = D \cup f.locked /\ f.locked \subseteq HeldBy(f) /\ g.added = NoRow
    BY <1>2, <1>3, <1>8 DEF Clean, HeldBy
  <1>10. \A v \in DOMAIN g.writes : Written(g, v, g.writes[v])
    <2>1. f.survivor \in f.locked
      BY <1>1, <1>2 DEF Sound
    <2> QED
      BY <1>3, <1>8, <2>1 DEF Written, Absorbs
  <1>11. Sound(g)
    BY <1>2, <1>8, <1>9, <1>10 DEF Sound
  <1>12. \A x \in VisitorIds : ~Inserts(g, x, g.writes[x])
    BY <1>3, <1>8 DEF Inserts
  <1>13. \A q \in Procs \ {p} : /\ \A v \in HeldBy(g) : v \notin HeldBy(tx[q])
                                /\ \A t \in g.moved : t \notin tx[q].moved
    BY <1>2, <1>4, <1>5, <1>8, <1>9 DEF Apart
  <1> QED
    BY <1>1, <1>11, <1>12, <1>13, HoldKeeps

\* What a handler answers with when it goes on to its commit.
LEMMA FinishTyped ==
    ASSUME NEW f, Typed(f), NEW a \in Answers
    PROVE  LET g == [f EXCEPT !.pc = "commit", !.answer = a]
           IN  /\ Typed(g) /\ g.pc = "commit" /\ g.answer = a
               /\ g.writes = f.writes /\ g.added = f.added /\ g.locked = f.locked
               /\ g.moved = f.moved /\ g.visitor = f.visitor /\ g.survivor = f.survivor
               /\ g.principal = f.principal
  <1> DEFINE commit == "commit"
             g == [f EXCEPT !.pc = commit, !.answer = a]
  <1>1. commit \in Labels
    BY DEF Labels
  <1>2. commit = "commit"
    OBVIOUS
  <1> HIDE DEF commit
  <1>3. /\ g.pc = commit /\ g.answer = a /\ g.seen = f.seen /\ g.swept = f.swept
        /\ g.writes = f.writes /\ g.added = f.added /\ g.locked = f.locked
        /\ g.moved = f.moved /\ g.visitor = f.visitor /\ g.survivor = f.survivor
        /\ g.principal = f.principal
    BY DEF Typed
  <1>4. Typed(g)
    BY <1>1, <1>3 DEF Typed
  <1> HIDE DEF g
  <1>5. g = [f EXCEPT !.pc = "commit", !.answer = a]
    BY <1>2 DEF g
  <1> QED
    BY <1>2, <1>3, <1>4, <1>5

\* The anonymous row gets the principal, unless it is gone or held.
LEMMA ClaimKeeps ==
    ASSUME Safe, NEW p \in Procs, MergeClaim(p)
    PROVE  Safe'
  <1> DEFINE f == tx[p]
             v == f.visitor
             r == [visitors[v] EXCEPT !.principal = f.principal, !.last = f.at]
             W == [i \in {v} |-> r]
             h == [f EXCEPT !.survivor = v, !.writes = W]
             g == [h EXCEPT !.pc = "merge.view"]
  <1>1. /\ f.pc = "merge.claim" /\ UNCHANGED <<pepper, now, calls>>
        /\ \/ /\ Live(v) /\ v \notin HeldByOthers(p) /\ tx' = [tx EXCEPT ![p] = g]
              /\ UNCHANGED <<visitors, tracks>>
           \/ Fail(p, "NotFound")
    BY DEF MergeClaim, At, Goto
  <1>2. CASE Fail(p, "NotFound")
    BY <1>1, <1>2, FailKeeps DEF Answers
  <1>3. CASE /\ Live(v) /\ v \notin HeldByOthers(p) /\ tx' = [tx EXCEPT ![p] = g]
             /\ UNCHANGED <<visitors, tracks>>
    <2>1. /\ Sound(f) /\ Typed(f) /\ Clean(f) /\ v \in VisitorIds /\ f.principal \in Principals
          /\ f.locked = {} /\ f.moved = {} /\ f.at \in 0 .. MaxNow
      BY <1>1 DEF Safe, Sound, Typed
    <2>2. visitors[v] \in VisitorRow
      BY <1>3, <2>1 DEF Safe, TablesSound, Visitors, Live
    <2>3. /\ r \in VisitorRow /\ r.digest = visitors[v].digest /\ r.site = visitors[v].site
          /\ r.visits = visitors[v].visits
      BY <2>1, <2>2 DEF VisitorRow
    <2>4. \A q \in Procs \ {p} : v \notin HeldBy(tx[q])
      BY <1>3 DEF HeldByOthers, Held, HeldBy
    <2> HIDE DEF r
    <2>5. DOMAIN W = {v} /\ W[v] = r
      OBVIOUS
    <2> HIDE DEF W, v, f
    <2>6. /\ h.writes = W /\ h.added = f.added /\ h.locked = {} /\ h.moved = {}
      BY <2>1 DEF Typed
    <2>7. Typed(h)
      BY <2>1, <2>5, <2>6 DEF Typed
    <2> HIDE DEF h
    <2>8. /\ Typed(g) /\ g.writes = W /\ g.added = f.added /\ g.locked = {} /\ g.moved = {}
          /\ g.pc = "merge.view"
      BY <2>6, <2>7 DEF Typed, Labels
    <2> HIDE DEF g
    <2>9. Written(g, v, r)
      BY <1>3, <2>3 DEF Written, Live
    <2>10. Sound(g)
      BY <2>1, <2>5, <2>8, <2>9 DEF Sound, Clean
    <2> QED
      BY <1>1, <1>3, <2>1, <2>3, <2>4, <2>5, <2>8, <2>10, WriteKeeps
  <1> QED
    BY <1>1, <1>2, <1>3

\* The merge reads its survivor, or undoes all it did.
LEMMA ViewKeeps ==
    ASSUME Safe, NEW p \in Procs, MergeView(p)
    PROVE  Safe'
  <1> DEFINE f == tx[p]
             g == [f EXCEPT !.pc = "commit", !.answer = "Merged"]
  <1>1. /\ f.pc = "merge.view" /\ UNCHANGED <<pepper, now, calls>>
        /\ \/ Fail(p, "Db")
           \/ /\ tx' = [tx EXCEPT ![p] = g] /\ UNCHANGED <<visitors, tracks>>
              /\ f.survivor \notin {v \in DOMAIN f.writes : f.writes[v] = Gone}
    BY DEF MergeView, At, Finish, Deleting
  <1>2. CASE Fail(p, "Db")
    BY <1>1, <1>2, FailKeeps DEF Answers
  <1>3. CASE /\ tx' = [tx EXCEPT ![p] = g] /\ UNCHANGED <<visitors, tracks>>
             /\ f.survivor \notin {v \in DOMAIN f.writes : f.writes[v] = Gone}
    <2>1. Sound(f) /\ Typed(f)
      BY DEF Safe, Sound
    <2> HIDE DEF f
    <2>2. /\ Typed(g) /\ g.writes = f.writes /\ g.added = f.added /\ g.locked = f.locked
          /\ g.moved = f.moved /\ g.pc = "commit" /\ g.answer = "Merged"
          /\ g.visitor = f.visitor /\ g.survivor = f.survivor /\ g.principal = f.principal
      <3>1. "Merged" \in Answers
        BY DEF Answers
      <3> QED
        BY <2>1, <3>1, FinishTyped
    <2> HIDE DEF g
    <2>3. ASSUME NEW v \in DOMAIN f.writes
          PROVE  Written(g, v, g.writes[v])
      BY <1>1, <1>3, <2>1, <2>2, <2>3 DEF Sound, Written, Absorbs
    <2>4. Sound(g)
      BY <2>1, <2>2, <2>3 DEF Sound
    <2> QED
      BY <1>1, <1>3, <2>2, <2>4, SameKeeps DEF f
  <1> QED
    BY <1>1, <1>2, <1>3

\* A batch of the sweep takes stale rows that nobody holds.
LEMMA BatchKeeps ==
    ASSUME Safe, NEW p \in Procs, SweepBatch(p)
    PROVE  Safe'
  <1> DEFINE f == tx[p]
             stale == {v \in VisitorIds : Stale(v)} \ HeldByOthers(p)
  <1>1. /\ f.pc = "sweep.batch" /\ UNCHANGED <<visitors, tracks, pepper, now, calls>>
        /\ \/ \E D \in Batches(stale) :
                Finish(p, [f EXCEPT !.at = now, !.writes = [v \in D |-> Gone]], "Swept")
           \/ tx' = [tx EXCEPT ![p] = Idle("Swept")]
           \/ Goto(p, f, "sweep.audit")
    BY DEF SweepBatch, At
  <1>2. /\ Sound(f) /\ Typed(f) /\ Clean(f) /\ f.locked = {} /\ f.moved = {}
        /\ calls' \in 0 .. MaxCalls /\ now \in 0 .. MaxNow
    BY <1>1 DEF Safe, Sound, TablesSound
  <1>3. CASE tx' = [tx EXCEPT ![p] = Idle("Swept")]
    BY <1>1, <1>2, <1>3, IdleSound, BlankKeeps DEF Answers
  <1>4. CASE Goto(p, f, "sweep.audit")
    <2> HIDE DEF f
    <2> QED
      BY <1>1, <1>2, <1>4, StartKeeps DEF Labels
  <1>5. ASSUME NEW D \in Batches(stale),
               Finish(p, [f EXCEPT !.at = now, !.writes = [v \in D |-> Gone]], "Swept")
        PROVE  Safe'
    <2> DEFINE W == [v \in D |-> Gone]
               h == [f EXCEPT !.at = now, !.writes = W]
               g == [h EXCEPT !.pc = "commit", !.answer = "Swept"]
    <2>1. /\ D \subseteq VisitorIds /\ DOMAIN W = D
          /\ \A v \in D : W[v] = Gone /\ Stale(v) /\ \A q \in Procs \ {p} : v \notin HeldBy(tx[q])
      BY DEF Batches, HeldByOthers, Held, HeldBy
    <2>2. tx' = [tx EXCEPT ![p] = g]
      BY <1>5 DEF Finish
    <2> HIDE DEF W, f
    <2>3. h.writes = W /\ h.added = f.added /\ h.locked = {} /\ h.moved = {}
      BY <1>2 DEF Typed
    <2>4. Typed(h)
      BY <1>2, <2>1, <2>3 DEF Typed
    <2> HIDE DEF h
    <2>5. /\ Typed(g) /\ g.writes = W /\ g.added = f.added /\ g.locked = {} /\ g.moved = {}
          /\ g.pc = "commit" /\ g.answer = "Swept"
      <3>1. "Swept" \in Answers
        BY DEF Answers
      <3> QED
        BY <2>3, <2>4, <3>1, FinishTyped
    <2> HIDE DEF g
    <2>6. \A v \in DOMAIN g.writes : Written(g, v, g.writes[v])
      BY <2>1, <2>5 DEF Written, Stale
    <2>7. Sound(g)
      BY <1>2, <2>1, <2>5, <2>6 DEF Sound, Clean
    <2>8. \A x \in VisitorIds : ~Inserts(g, x, g.writes[x])
      BY <2>1, <2>5 DEF Inserts
    <2>9. \A q \in Procs \ {p} : /\ \A v \in HeldBy(g) : v \notin HeldBy(tx[q])
                                 /\ \A t \in g.moved : t \notin tx[q].moved
      BY <2>1, <2>5 DEF HeldBy
    <2> QED
      BY <1>1, <2>2, <2>7, <2>8, <2>9, HoldKeeps
  <1> QED
    BY <1>1, <1>3, <1>4, <1>5
-----------------------------------------------------------------------------
\* COMMIT

\* What p writes is a deletion, a version of a live row, or a row of a new browser.
LEMMA Versions ==
    ASSUME Safe, NEW q \in Procs, NEW v \in DOMAIN tx[q].writes
    PROVE  /\ v \in VisitorIds
           /\ \/ tx[q].writes[v] = Gone /\ Live(v)
              \/ /\ tx[q].writes[v] \in VisitorRow /\ tx[q].writes[v] # Gone
                 /\ \/ Live(v) /\ SameBrowser(tx[q].writes[v], visitors[v])
                    \/ Inserts(tx[q], v, tx[q].writes[v])
  <1>1. Sound(tx[q]) /\ v \in VisitorIds /\ visitors[v] \in VisitorRow \cup {NoRow, Gone}
    BY DEF Safe, Sound, Typed, TablesSound, Visitors
  <1>2. Written(tx[q], v, tx[q].writes[v])
    BY <1>1 DEF Sound
  <1> QED
    BY <1>1, <1>2, ValuesAssumption DEF Written, Inserts, SameBrowser, Live

\* Two versions of two rows, committed or not, are of two browsers.
LEMMA VersionsApart ==
    ASSUME Safe, NEW q \in Procs, NEW x \in Procs, NEW u \in VisitorIds, NEW v \in VisitorIds,
           u # v
    PROVE  /\ Live(u) /\ Live(v) => ~SameBrowser(visitors[u], visitors[v])
           /\ (u \in DOMAIN tx[q].writes /\ tx[q].writes[u] # Gone /\ Live(v)) =>
                ~SameBrowser(tx[q].writes[u], visitors[v])
           /\ (u \in DOMAIN tx[q].writes /\ tx[q].writes[u] # Gone
               /\ v \in DOMAIN tx[x].writes /\ tx[x].writes[v] # Gone) =>
                ~SameBrowser(tx[q].writes[u], tx[x].writes[v])
  <1>1. Live(u) /\ Live(v) => ~SameBrowser(visitors[u], visitors[v])
    BY DEF Safe, TablesSound
  <1>2. ASSUME NEW y \in Procs, NEW i \in VisitorIds, NEW j \in VisitorIds, i # j,
               i \in DOMAIN tx[y].writes, tx[y].writes[i] # Gone, Live(j)
        PROVE  ~SameBrowser(tx[y].writes[i], visitors[j])
    <2>1. CASE Live(i) /\ SameBrowser(tx[y].writes[i], visitors[i])
      BY <1>2, <2>1 DEF Safe, TablesSound, SameBrowser
    <2>2. CASE Inserts(tx[y], i, tx[y].writes[i])
      BY <1>2, <2>2 DEF Safe, InsertsAlone
    <2> QED
      BY <1>2, <2>1, <2>2, Versions
  <1>3. ASSUME u \in DOMAIN tx[q].writes, tx[q].writes[u] # Gone,
               v \in DOMAIN tx[x].writes, tx[x].writes[v] # Gone
        PROVE  ~SameBrowser(tx[q].writes[u], tx[x].writes[v])
    <2>1. CASE Live(u) /\ SameBrowser(tx[q].writes[u], visitors[u])
      <3>1. ~SameBrowser(tx[x].writes[v], visitors[u])
        BY <1>2, <1>3, <2>1
      <3> QED
        BY <2>1, <3>1 DEF SameBrowser
    <2>2. CASE Live(v) /\ SameBrowser(tx[x].writes[v], visitors[v])
      <3>1. ~SameBrowser(tx[q].writes[u], visitors[v])
        BY <1>2, <1>3, <2>2
      <3> QED
        BY <2>2, <3>1 DEF SameBrowser
    <2>3. CASE Inserts(tx[q], u, tx[q].writes[u]) /\ Inserts(tx[x], v, tx[x].writes[v])
      <3>1. CASE q = x
        BY <2>3, <3>1 DEF Safe, InsertsAlone
      <3>2. CASE q # x
        BY <2>3, <3>2 DEF Safe, Apart
      <3> QED
        BY <3>1, <3>2
    <2> QED
      BY <1>3, <2>1, <2>2, <2>3, Versions
  <1> QED
    BY <1>1, <1>2, <1>3

\* The visitors after a commit.
LEMMA CommitVisitors ==
    ASSUME Safe, NEW p \in Procs, Store(tx[p])
    PROVE  /\ visitors' \in Visitors
           /\ \A v \in VisitorIds :
                /\ v \in DOMAIN tx[p].writes => visitors'[v] = tx[p].writes[v]
                /\ v \notin DOMAIN tx[p].writes => visitors'[v] = visitors[v]
           /\ \A q \in Procs \ {p} : \A v \in HeldBy(tx[q]) : visitors'[v] = visitors[v]
           /\ \A u, v \in VisitorIds : u # v /\ Live(u)' /\ Live(v)' =>
                ~SameBrowser(visitors'[u], visitors'[v])
  <1> DEFINE W == tx[p].writes
  <1>1. visitors' = [v \in VisitorIds |-> IF v \in DOMAIN W THEN W[v] ELSE visitors[v]]
    BY DEF Store
  <1>2. \A v \in DOMAIN W : v \in VisitorIds /\ W[v] \in VisitorRow \cup {Gone}
    BY Versions
  <1>3. visitors \in Visitors
    BY DEF Safe, TablesSound
  <1>4. visitors' \in Visitors
    BY <1>1, <1>2, <1>3 DEF Visitors
  <1>5. \A v \in VisitorIds : /\ v \in DOMAIN W => visitors'[v] = W[v]
                              /\ v \notin DOMAIN W => visitors'[v] = visitors[v]
    BY <1>1
  <1>6. \A q \in Procs \ {p} : \A v \in HeldBy(tx[q]) : visitors'[v] = visitors[v]
    <2> TAKE q \in Procs \ {p}
    <2> TAKE v \in HeldBy(tx[q])
    <2>1. v \in VisitorIds
      BY DEF Safe, Sound, Typed, HeldBy
    <2>2. v \notin HeldBy(tx[p])
      BY <2>1 DEF Safe, Apart
    <2> QED
      BY <1>5, <2>1, <2>2 DEF HeldBy
  <1>7. ASSUME NEW u \in VisitorIds, NEW v \in VisitorIds, u # v, Live(u)', Live(v)'
        PROVE  ~SameBrowser(visitors'[u], visitors'[v])
    <2>1. CASE u \in DOMAIN W /\ v \in DOMAIN W
      BY <1>5, <1>7, <2>1, VersionsApart DEF Live
    <2>2. CASE u \in DOMAIN W /\ v \notin DOMAIN W
      BY <1>5, <1>7, <2>2, VersionsApart DEF Live
    <2>3. CASE u \notin DOMAIN W /\ v \in DOMAIN W
      <3>1. ~SameBrowser(visitors'[v], visitors'[u])
        BY <1>5, <1>7, <2>3, VersionsApart DEF Live
      <3> QED
        BY <3>1 DEF SameBrowser
    <2>4. CASE u \notin DOMAIN W /\ v \notin DOMAIN W
      BY <1>5, <1>7, <2>4, VersionsApart DEF Live
    <2> QED
      BY <2>1, <2>2, <2>3, <2>4
  <1> QED
    BY <1>4, <1>5, <1>6, <1>7

\* The tracks after a commit: each has its visitor, and those that other transactions have
\* re-parented are still there.
LEMMA CommitTracks ==
    ASSUME Safe, NEW p \in Procs, tx[p].pc = "commit", WaitsFor(p) = {}, Store(tx[p])
    PROVE  /\ tracks' \in Tracks
           /\ \A t \in TrackIds : LiveTrack(t)' => Live(tracks[t].visitor)'
           /\ \A q \in Procs \ {p} : \A t \in tx[q].moved : LiveTrack(t)'
  <1> DEFINE f == tx[p]
             moved(t) == IF t \in f.moved THEN [tracks[t] EXCEPT !.visitor = f.survivor]
                                          ELSE tracks[t]
             dying == {v \in DOMAIN f.writes : f.writes[v] = Gone}
             new == IF f.added = NoRow THEN {} ELSE {CHOOSE t \in UnusedTracks : TRUE}
  <1>1. tracks' = [t \in TrackIds |->
                     IF t \in new THEN f.added
                     ELSE IF LiveTrack(t) /\ moved(t).visitor \in dying THEN Gone ELSE moved(t)]
    BY DEF Store
  <1>2. \A t \in new : tracks[t] = NoRow /\ t \in TrackIds /\ f.added # NoRow
    BY DEF Store, UnusedTracks
  <1>3. /\ Sound(f) /\ f.added \in TrackRow \cup {NoRow} /\ f.moved \subseteq TrackIds
        /\ f.locked \subseteq VisitorIds
    BY DEF Safe, Sound, Typed
  <1>4. \A t \in TrackIds : LiveTrack(t) => tracks[t] \in TrackRow
    BY DEF Safe, TablesSound, Tracks, LiveTrack
  <1>5. \A t \in f.moved : f.survivor \in VisitorIds /\ Live(f.survivor) /\ LiveTrack(t)
    BY <1>3 DEF Sound
  <1>6. \A t \in TrackIds : LiveTrack(t) =>
          moved(t) \in TrackRow /\ Live(moved(t).visitor) /\ moved(t).visitor \in VisitorIds
    <2> TAKE t \in TrackIds
    <2> HAVE LiveTrack(t)
    <2>1. tracks[t] \in TrackRow /\ Live(tracks[t].visitor)
      BY <1>4 DEF Safe, TablesSound
    <2>2. CASE t \in f.moved
      <3> HIDE DEF f
      <3>1. moved(t) = [tracks[t] EXCEPT !.visitor = f.survivor]
        BY <2>2
      <3> QED
        BY <1>5, <2>1, <2>2, <3>1 DEF TrackRow
    <2>3. CASE t \notin f.moved
      BY <2>1, <2>3 DEF TrackRow
    <2> QED
      BY <2>2, <2>3
  <1>7. \A t \in TrackIds : ~LiveTrack(t) => moved(t) = tracks[t]
    BY <1>5
  <1>8. f.added # NoRow => /\ f.added \in TrackRow /\ f.added.visitor \in DOMAIN f.writes
                           /\ f.writes[f.added.visitor] \in VisitorRow
    BY <1>3 DEF Sound
  <1>9. \A v \in VisitorIds : /\ v \in DOMAIN f.writes => visitors'[v] = f.writes[v]
                              /\ v \notin DOMAIN f.writes => visitors'[v] = visitors[v]
    BY CommitVisitors
  <1>10. \A v \in VisitorIds : Live(v) /\ v \notin dying => Live(v)'
    <2> TAKE v \in VisitorIds
    <2> HAVE Live(v) /\ v \notin dying
    <2>1. CASE v \in DOMAIN f.writes
      BY <1>9, <2>1, Versions, ValuesAssumption DEF Live
    <2>2. CASE v \notin DOMAIN f.writes
      BY <1>9, <2>2 DEF Live
    <2> QED
      BY <2>1, <2>2
  <1>11. \A q \in Procs \ {p} : \A t \in tx[q].moved :
           t \in TrackIds /\ LiveTrack(t) /\ t \notin f.moved /\ tracks[t].visitor \notin dying
    <2> TAKE q \in Procs \ {p}
    <2> TAKE t \in tx[q].moved
    <2>1. t \in TrackIds /\ LiveTrack(t)
      BY DEF Safe, Sound, Typed
    <2>2. t \notin f.moved
      BY <2>1 DEF Safe, Apart
    <2>3. WaitsFor(p) = {x \in Procs \ {p} : \E i \in tx[x].moved : tracks[i].visitor \in Deleting(p)}
      BY DEF WaitsFor
    <2> QED
      BY <2>1, <2>2, <2>3 DEF Deleting
  <1>12. \A t \in TrackIds : tracks[t] \in TrackRow \cup {NoRow, Gone}
    BY DEF Safe, TablesSound, Tracks
  <1>13. tracks' \in Tracks
    <2> HIDE DEF moved, f, new, dying
    <2>1. \A t \in TrackIds : moved(t) \in TrackRow \cup {NoRow, Gone}
      BY <1>6, <1>7, <1>12
    <2>2. \A t \in new : f.added \in TrackRow
      BY <1>2, <1>8
    <2> QED
      BY <1>1, <2>1, <2>2 DEF Tracks
  <1>14. ASSUME NEW t \in TrackIds, LiveTrack(t)'
         PROVE  Live(tracks[t].visitor)'
    <2> HIDE DEF moved, new, f
    <2>1. CASE t \in new
      <3>1. tracks'[t] = f.added /\ f.added # NoRow
        BY <1>1, <1>2, <2>1
      <3>2. f.added.visitor \in VisitorIds
        BY <1>8, <3>1 DEF TrackRow
      <3> QED
        BY <1>8, <1>9, <3>1, <3>2, ValuesAssumption DEF Live
    <2>2. CASE t \notin new
      <3>1. tracks'[t] = moved(t) /\ LiveTrack(t) /\ moved(t).visitor \notin dying
        BY <1>1, <1>7, <1>14, <2>2 DEF LiveTrack
      <3>2. Live(moved(t).visitor) /\ moved(t).visitor \in VisitorIds
        BY <1>6, <3>1
      <3> HIDE DEF dying
      <3>3. visitors'[moved(t).visitor] \notin {NoRow, Gone}
        BY <1>10, <3>1, <3>2 DEF Live
      <3> QED
        BY <3>1, <3>3 DEF Live
    <2> QED
      BY <2>1, <2>2
  <1>15. ASSUME NEW q \in Procs \ {p}, NEW t \in tx[q].moved
         PROVE  LiveTrack(t)'
    <2>1. t \in TrackIds /\ LiveTrack(t) /\ t \notin f.moved /\ tracks[t].visitor \notin dying
      BY <1>11, <1>15
    <2>2. t \notin new
      BY <1>2, <2>1 DEF LiveTrack
    <2>3. moved(t) = tracks[t]
      BY <2>1
    <2> HIDE DEF moved, new, dying, f
    <2>4. tracks'[t] = tracks[t]
      BY <1>1, <2>1, <2>2, <2>3
    <2> QED
      BY <2>1, <2>4 DEF LiveTrack
  <1> QED
    BY <1>13, <1>14, <1>15

\* After a commit the handler holds nothing: it is idle, or at its next batch.
LEMMA CommitFrame ==
    ASSUME Safe, NEW p \in Procs, Commit(p)
    PROVE  \E g : /\ tx' = [tx EXCEPT ![p] = g]
                  /\ Typed(g) /\ Clean(g) /\ g.locked = {} /\ g.moved = {}
                  /\ g.pc \in {"idle", "sweep.batch"}
  <1> DEFINE f == tx[p]
             n == f.swept + Cardinality(Deleting(p))
             idle == Idle("none")
             h == [idle EXCEPT !.swept = n]
             g == [h EXCEPT !.pc = "sweep.batch"]
  <1>1. f.answer \in Answers
    BY DEF Safe, Sound, Typed
  <1>2. tx' = [tx EXCEPT ![p] = g] \/ tx' = [tx EXCEPT ![p] = Idle(f.answer)]
    BY DEF Commit, Goto
  <1>3. CASE tx' = [tx EXCEPT ![p] = Idle(f.answer)]
    BY <1>1, <1>3, IdleSound
  <1>4. CASE tx' = [tx EXCEPT ![p] = g]
    <2>1. /\ Typed(idle) /\ Clean(idle) /\ idle.locked = {} /\ idle.moved = {}
          /\ idle.writes = << >> /\ DOMAIN idle.writes = {} /\ idle.added = NoRow
      BY IdleSound DEF Answers, Idle
    <2> HIDE DEF idle, n
    <2>2. /\ Typed(h) /\ h.writes = idle.writes /\ h.locked = {} /\ h.moved = {}
          /\ h.added = NoRow
      BY <2>1 DEF Typed
    <2> HIDE DEF h
    <2>3. /\ Typed(g) /\ g.writes = idle.writes /\ g.locked = {} /\ g.moved = {}
          /\ g.added = NoRow /\ g.pc = "sweep.batch"
      BY <2>2 DEF Typed, Labels
    <2> HIDE DEF g
    <2>4. Clean(g)
      BY <2>1, <2>3 DEF Clean
    <2> QED
      BY <1>4, <2>3, <2>4
  <1> QED
    BY <1>2, <1>3, <1>4

\* Locals stay sound when what they hold stays as it is.
LEMMA SoundStays ==
    ASSUME NEW f, Sound(f), \A v \in HeldBy(f) : visitors'[v] = visitors[v],
           \A t \in f.moved : LiveTrack(t)', now' = now
    PROVE  Sound(f)'
  <1>1. ASSUME NEW v \in DOMAIN f.writes
        PROVE  Written(f, v, f.writes[v])'
    <2>1. Written(f, v, f.writes[v]) /\ visitors'[v] = visitors[v]
      BY <1>1 DEF Sound, HeldBy
    <2>2. (Live(v) <=> Live(v)') /\ (Stale(v) <=> Stale(v)')
      BY <2>1 DEF Live, Stale
    <2> QED
      BY <2>1, <2>2 DEF Written
  <1>2. \A v \in f.locked : Live(v)' /\ visitors'[v].principal = f.principal
    BY DEF Sound, HeldBy, Live
  <1>3. Typed(f)' /\ (Clean(f) => Clean(f)')
    BY DEF Sound, Typed, Clean
  <1> QED
    BY <1>1, <1>2, <1>3 DEF Sound

\* A commit keeps the invariant: what the others hold it leaves alone.
LEMMA CommitKeeps ==
    ASSUME Safe, NEW p \in Procs, Commit(p)
    PROVE  Safe'
  <1>1. /\ tx[p].pc = "commit" /\ WaitsFor(p) = {} /\ Store(tx[p])
        /\ UNCHANGED <<pepper, now, calls>>
    BY DEF Commit, At
  <1>2. PICK g : /\ tx' = [tx EXCEPT ![p] = g]
                 /\ Typed(g) /\ Clean(g) /\ g.locked = {} /\ g.moved = {}
                 /\ g.pc \in {"idle", "sweep.batch"}
    BY CommitFrame
  <1>3. /\ tx' = [q \in Procs |-> tx'[q]]
        /\ tx'[p] = g /\ \A q \in Procs : q # p => tx'[q] = tx[q]
    BY <1>2 DEF Safe
  <1>4. Sound(g) /\ HeldBy(g) = {}
    BY <1>2, CleanSound
  <1>5. TablesSound'
    BY <1>1, CommitVisitors, CommitTracks DEF Safe, TablesSound
  <1>6. Sound(g)'
    BY <1>2, <1>4 DEF Sound, Typed, Clean
  <1>7. ASSUME NEW q \in Procs, q # p
        PROVE  Sound(tx[q])'
    <2>1. tx'[q] = tx[q] /\ Sound(tx[q])
      BY <1>3, <1>7 DEF Safe
    <2>2. PICK f : f = tx[q]
      OBVIOUS
    <2>3. /\ \A v \in HeldBy(f) : visitors'[v] = visitors[v]
          /\ \A t \in f.moved : LiveTrack(t)'
          /\ now' = now
      BY <1>1, <1>7, <2>2, CommitVisitors, CommitTracks
    <2>4. Sound(f)'
      BY <2>1, <2>2, <2>3, SoundStays
    <2> QED
      BY <2>1, <2>2, <2>4 DEF Sound, Typed, Clean, Written
  <1>8. ASSUME NEW q \in Procs, q # p, NEW v \in VisitorIds
        PROVE  Inserts(tx[q], v, tx[q].writes[v])' <=> Inserts(tx[q], v, tx[q].writes[v])
    <2>1. v \in DOMAIN tx[q].writes => visitors'[v] = visitors[v]
      BY <1>1, <1>8, CommitVisitors DEF HeldBy
    <2> QED
      BY <1>3, <1>8, <2>1 DEF Inserts
  <1>9. ASSUME NEW q \in Procs, q # p
        PROVE  InsertsAlone(tx[q])'
    <2> SUFFICES ASSUME NEW u \in VisitorIds, NEW v \in VisitorIds, u # v,
                        Inserts(tx[q], u, tx[q].writes[u])'
                 PROVE  /\ Live(v)' => ~SameBrowser(tx[q].writes[u], visitors'[v])
                        /\ ~Inserts(tx[q], v, tx[q].writes[v])'
      BY <1>3, <1>9 DEF InsertsAlone, SameBrowser
    <2>1. Inserts(tx[q], u, tx[q].writes[u]) /\ InsertsAlone(tx[q])
      BY <1>8, <1>9 DEF Safe
    <2>2. ~Inserts(tx[q], v, tx[q].writes[v])'
      BY <1>8, <1>9, <2>1 DEF InsertsAlone
    <2>3. u \in DOMAIN tx[q].writes /\ tx[q].writes[u] # Gone
      BY <2>1 DEF Inserts
    <2>4. ASSUME Live(v)'
          PROVE  ~SameBrowser(tx[q].writes[u], visitors'[v])
      <3>1. CASE v \in DOMAIN tx[p].writes
        <4>1. visitors'[v] = tx[p].writes[v] /\ tx[p].writes[v] # Gone
          BY <1>1, <2>4, <3>1, CommitVisitors DEF Live
        <4> QED
          BY <1>9, <2>3, <3>1, <4>1, VersionsApart
      <3>2. CASE v \notin DOMAIN tx[p].writes
        <4>1. visitors'[v] = visitors[v] /\ Live(v)
          BY <1>1, <2>4, <3>2, CommitVisitors DEF Live
        <4> QED
          BY <1>9, <2>3, <4>1, VersionsApart
      <3> QED
        BY <3>1, <3>2
    <2> QED
      BY <2>2, <2>4
  <1>10. InsertsAlone(g)' /\ \A q \in Procs : q # p => Apart(g, tx[q])' /\ Apart(tx[q], g)'
    BY <1>2, <1>4 DEF InsertsAlone, Inserts, Clean, Apart, HeldBy
  <1>11. ASSUME NEW q \in Procs, NEW x \in Procs, q # p, x # p, q # x
         PROVE  Apart(tx[q], tx[x])'
    <2>1. Apart(tx[q], tx[x]) /\ tx'[q] = tx[q] /\ tx'[x] = tx[x]
      BY <1>3, <1>11 DEF Safe
    <2>2. \A v \in VisitorIds :
            /\ Inserts(tx[q], v, tx[q].writes[v])' <=> Inserts(tx[q], v, tx[q].writes[v])
            /\ Inserts(tx[x], v, tx[x].writes[v])' <=> Inserts(tx[x], v, tx[x].writes[v])
      BY <1>8, <1>11
    <2> QED
      BY <2>1, <2>2 DEF Apart, HeldBy, SameBrowser
  <1>12. \A q \in Procs : Sound(tx[q])' /\ InsertsAlone(tx[q])'
    BY <1>3, <1>6, <1>7, <1>9, <1>10
  <1>13. \A q, x \in Procs : q # x => Apart(tx[q], tx[x])'
    BY <1>3, <1>10, <1>11
  <1> QED
    BY <1>3, <1>5, <1>12, <1>13 DEF Safe
-----------------------------------------------------------------------------
\* Time makes stale rows staler.
LEMMA TickKeeps ==
    ASSUME Safe, Tick
    PROVE  Safe'
  <1>1. now \in 0 .. MaxNow /\ now' = now + 1 /\ now' \in 0 .. MaxNow
    BY InputsAssumption DEF Safe, TablesSound, Tick
  <1>2. UNCHANGED <<visitors, tracks, tx, pepper, calls>>
    BY DEF Tick
  <1>3. TablesSound'
    BY <1>1, <1>2 DEF Safe, TablesSound, Live, LiveTrack
  <1>4. ASSUME NEW v \in VisitorIds, Stale(v)
        PROVE  Stale(v)'
    <2>1. visitors[v] \in VisitorRow
      BY <1>4 DEF Stale, Live, Safe, TablesSound, Visitors
    <2>2. visitors[v].last + Retention < now => visitors[v].last + Retention < now'
      BY <1>1, <2>1, InputsAssumption DEF VisitorRow
    <2> QED
      BY <1>2, <1>4, <2>2 DEF Stale, Live
  <1>5. ASSUME NEW q \in Procs
        PROVE  Sound(tx[q])'
    <2>1. Sound(tx[q]) /\ tx'[q] = tx[q] /\ DOMAIN tx[q].writes \subseteq VisitorIds
      BY <1>2 DEF Safe, Sound, Typed
    <2>2. \A v \in DOMAIN tx[q].writes : Written(tx[q], v, tx[q].writes[v])'
      BY <1>2, <1>4, <2>1 DEF Sound, Written, Live
    <2> QED
      BY <1>2, <2>1, <2>2 DEF Sound, Typed, Clean, Live, LiveTrack
  <1>6. \A q \in Procs : InsertsAlone(tx[q])'
    BY <1>2 DEF Safe, InsertsAlone, Inserts, Live
  <1>7. \A q, x \in Procs : q # x => Apart(tx[q], tx[x])'
    BY <1>2 DEF Safe, Apart, Inserts
  <1> QED
    BY <1>2, <1>3, <1>5, <1>6, <1>7 DEF Safe

\* A run starts safely.
LEMMA InitSafe == Init => Safe
  <1> SUFFICES ASSUME Init PROVE Safe
    OBVIOUS
  <1>1. PICK s \in Starts : visitors = s.visitors /\ tracks = s.tracks
    BY DEF Init
  <1>2. /\ visitors \in Visitors /\ tracks \in Tracks /\ pepper \in Peppers
        /\ now \in 0 .. MaxNow /\ calls \in 0 .. MaxCalls
    BY <1>1, InputsAssumption DEF Init
  <1>3. \A t \in TrackIds : LiveTrack(t) => Live(tracks[t].visitor)
    BY <1>1, StartsAssumption DEF Live, LiveTrack
  <1>4. \A u, v \in VisitorIds : u # v /\ Live(u) /\ Live(v) => ~SameBrowser(visitors[u], visitors[v])
    BY <1>1, StartsAssumption DEF Live, SameBrowser
  <1>5. /\ tx = [q \in Procs |-> tx[q]]
        /\ \A q \in Procs : tx[q] = Idle("none")
    BY DEF Init
  <1>6. /\ Sound(Idle("none")) /\ HeldBy(Idle("none")) = {} /\ Idle("none").moved = {}
    BY IdleSound DEF Answers
  <1>7. \A q \in Procs : Sound(tx[q]) /\ InsertsAlone(tx[q])
    BY <1>5, <1>6, BlankApart
  <1>8. \A q, x \in Procs : Apart(tx[q], tx[x])
    BY <1>5, <1>6, BlankApart
  <1> QED
    BY <1>2, <1>3, <1>4, <1>5, <1>7, <1>8 DEF Safe, TablesSound

\* Every step keeps the invariant.
LEMMA NextSafe == Safe /\ [Next]_vars => Safe'
  <1> SUFFICES ASSUME Safe, [Next]_vars PROVE Safe'
    OBVIOUS
  <1>1. CASE Tick
    BY <1>1, TickKeeps
  <1>2. ASSUME NEW p \in Procs, Begin(p)
        PROVE  Safe'
    BY <1>2, BeginKeeps
  <1>3. ASSUME NEW p \in Procs, Heartbeat(p)
        PROVE  Safe'
    BY <1>3, StatementKeeps, UpsertKeeps DEF Heartbeat
  <1>4. ASSUME NEW p \in Procs, Merge(p)
        PROVE  Safe'
    BY <1>4, FindKeeps, ReparentKeeps, DeleteKeeps, ClaimKeeps, ViewKeeps DEF Merge
  <1>5. ASSUME NEW p \in Procs, SweepBatch(p)
        PROVE  Safe'
    BY <1>5, BatchKeeps
  <1>6. ASSUME NEW p \in Procs, SweepAudit(p) \/ DeadlockVictim(p) \/ Abort(p)
        PROVE  Safe'
    <2>1. PICK a \in Answers : Fail(p, a) /\ UNCHANGED <<pepper, now, calls>>
      BY <1>6 DEF SweepAudit, DeadlockVictim, Abort, At, Answers
    <2> QED
      BY <2>1, FailKeeps
  <1>7. ASSUME NEW p \in Procs, Commit(p)
        PROVE  Safe'
    BY <1>7, CommitKeeps
  <1>8. CASE UNCHANGED vars
    <2>1. /\ visitors' = visitors /\ tracks' = tracks /\ tx' = tx /\ pepper' = pepper
          /\ now' = now /\ calls' = calls
      BY <1>8 DEF vars
    <2>2. TablesSound'
      BY <2>1 DEF Safe, TablesSound, Live, LiveTrack
    <2>3. ASSUME NEW q \in Procs
          PROVE  Sound(tx[q])' /\ InsertsAlone(tx[q])'
      <3>1. Sound(tx[q]) /\ InsertsAlone(tx[q]) /\ tx'[q] = tx[q]
        BY <2>1 DEF Safe
      <3>2. Sound(tx[q])'
        BY <2>1, <3>1 DEF Sound, Typed, Clean, Written, Stale, Live, LiveTrack
      <3>3. InsertsAlone(tx[q])'
        BY <2>1, <3>1 DEF InsertsAlone, Inserts, Live
      <3> QED
        BY <3>2, <3>3
    <2>4. \A q, x \in Procs : q # x => Apart(tx[q], tx[x])'
      BY <2>1 DEF Safe, Apart, Inserts
    <2> QED
      BY <2>1, <2>2, <2>3, <2>4 DEF Safe
  <1> QED
    BY <1>1, <1>2, <1>3, <1>4, <1>5, <1>6, <1>7, <1>8 DEF Next, Work, Sweep

\* Whatever requests do, the tables and the open transactions stay safe.
LEMMA SafeAlways == Spec => []Safe
  BY InitSafe, NextSafe, PTL DEF Spec
-----------------------------------------------------------------------------
\* A version of a row, committed or written by an open transaction.
LEMMA OneBrowserOneRow ==
    ASSUME Safe
    PROVE  OneRowPerBrowser
  <1> DEFINE versions(v) == {visitors[v]} \cup
                            {tx[q].writes[v] : q \in {x \in Procs : v \in DOMAIN tx[x].writes}}
  <1>1. ASSUME NEW u \in VisitorIds, NEW v \in VisitorIds, u # v,
               NEW r \in versions(u), NEW s \in versions(v),
               r \notin {NoRow, Gone}, HasDigest(s, r.digest, r.site)
        PROVE  FALSE
    <2>1. s \notin {NoRow, Gone} /\ SameBrowser(r, s) /\ SameBrowser(s, r)
      BY <1>1 DEF HasDigest, SameBrowser
    <2>2. \/ r = visitors[u] /\ Live(u)
          \/ \E q \in Procs : u \in DOMAIN tx[q].writes /\ r = tx[q].writes[u] /\ r # Gone
      BY <1>1 DEF Live
    <2>3. \/ s = visitors[v] /\ Live(v)
          \/ \E q \in Procs : v \in DOMAIN tx[q].writes /\ s = tx[q].writes[v] /\ s # Gone
      BY <1>1, <2>1 DEF Live
    <2>4. CASE r = visitors[u] /\ Live(u) /\ s = visitors[v] /\ Live(v)
      BY <1>1, <2>1, <2>4 DEF Safe, TablesSound
    <2>5. ASSUME NEW q \in Procs, u \in DOMAIN tx[q].writes, r = tx[q].writes[u], r # Gone
          PROVE  FALSE
      BY <1>1, <2>1, <2>3, <2>5, VersionsApart
    <2>6. ASSUME NEW q \in Procs, v \in DOMAIN tx[q].writes, s = tx[q].writes[v], s # Gone,
                 Live(u), r = visitors[u]
          PROVE  FALSE
      BY <1>1, <2>1, <2>6, VersionsApart
    <2> QED
      BY <2>2, <2>3, <2>4, <2>5, <2>6
  <1> QED
    BY <1>1 DEF OneRowPerBrowser

\* What a write that commits does to a row.
LEMMA CommitRows ==
    ASSUME Safe, NEW p \in Procs, Commit(p), NEW v \in VisitorIds, visitors'[v] # visitors[v]
    PROVE  /\ v \in DOMAIN tx[p].writes /\ visitors'[v] = tx[p].writes[v]
           /\ Written(tx[p], v, tx[p].writes[v]) /\ tx[p].pc = "commit"
  <1>1. tx[p].pc = "commit" /\ Store(tx[p])
    BY DEF Commit, At
  <1>2. v \in DOMAIN tx[p].writes /\ visitors'[v] = tx[p].writes[v]
    BY <1>1, CommitVisitors
  <1> QED
    BY <1>1, <1>2 DEF Safe, Sound

\* Only a commit changes a visitor.
LEMMA OnlyCommits ==
    ASSUME [Next]_vars, visitors' # visitors
    PROVE  \E p \in Procs : Commit(p)
  BY DEF Next, vars, Tick, Begin, BeginHeartbeat, BeginMerge, BeginSweep, Work, Heartbeat,
         HeartbeatStatement, HeartbeatUpsert, Merge, MergeFind, MergeReparent, MergeDelete,
         MergeClaim, MergeView, Sweep, SweepBatch, SweepAudit, DeadlockVictim, Abort, Fail
-----------------------------------------------------------------------------
\* Whichever calls race: row locks are exclusive, the row a merge found stays with its
\* principal until the merge ends, every track has its visitor, a browser has one row.
THEOREM OneVisitorPerBrowser == Spec => []VisitorsInv
  <1>1. Safe => VisitorsInv
    <2> SUFFICES ASSUME Safe PROVE VisitorsInv
      OBVIOUS
    <2>1. visitors \in Visitors /\ tracks \in Tracks
          /\ \A t \in TrackIds : LiveTrack(t) => Live(tracks[t].visitor)
      BY DEF Safe, TablesSound
    <2>2. ASSUME NEW p \in Procs
          PROVE  /\ tx[p].pc \in Labels /\ tx[p].answer \in Answers
                 /\ Held(p) \cap HeldByOthers(p) = {}
                 /\ tx[p].pc \in {"merge.reparent", "merge.delete"} =>
                      Live(tx[p].survivor) /\ visitors[tx[p].survivor].principal = tx[p].principal
      <3>1. Sound(tx[p]) /\ Typed(tx[p])
        BY DEF Safe, Sound
      <3>2. tx[p].pc \in Labels /\ tx[p].answer \in Answers
        BY <3>1 DEF Typed
      <3>3. \A q \in Procs : Held(q) = HeldBy(tx[q]) /\ Held(q) \subseteq VisitorIds
        BY DEF Held, HeldBy, Safe, Sound, Typed
      <3>4. \A q \in Procs \ {p} : Held(p) \cap Held(q) = {}
        BY <3>3 DEF Safe, Apart
      <3>5. Held(p) \cap HeldByOthers(p) = {}
        BY <3>4 DEF HeldByOthers
      <3>6. tx[p].pc \in {"merge.reparent", "merge.delete"} =>
              Live(tx[p].survivor) /\ visitors[tx[p].survivor].principal = tx[p].principal
        BY <3>1 DEF Sound
      <3> QED
        BY <3>2, <3>5, <3>6
    <2> QED
      BY <2>1, <2>2, OneBrowserOneRow DEF VisitorsInv
  <1> QED
    BY <1>1, SafeAlways, PTL

\* Heartbeats that race after a silence count one visit: a visit is counted only over a
\* row that had been silent for the visit window.
THEOREM OneVisitPerWindow == Spec => VisitsCountOnce
  <1>1. Safe /\ [Next]_vars =>
          [\A v \in VisitorIds :
             (Live(v) /\ visitors'[v] # Gone /\ visitors'[v].visits # visitors[v].visits) =>
                 /\ visitors'[v].visits = visitors[v].visits + 1
                 /\ visitors[v].last + VisitWindow < visitors'[v].last]_vars
    <2> SUFFICES ASSUME Safe, [Next]_vars, NEW v \in VisitorIds, Live(v),
                        visitors'[v] # Gone, visitors'[v].visits # visitors[v].visits
                 PROVE  /\ visitors'[v].visits = visitors[v].visits + 1
                        /\ visitors[v].last + VisitWindow < visitors'[v].last
      OBVIOUS
    <2>1. PICK p \in Procs : Commit(p)
      BY OnlyCommits
    <2> QED
      BY <2>1, CommitRows DEF Written
  <1> QED
    BY <1>1, SafeAlways, PTL DEF Spec, VisitsCountOnce

\* A visitor disappears by being absorbed, or it has no principal and was silent for the
\* retention when it goes, whatever heartbeat or claim raced the sweep's batch.
THEOREM OnlyStaleSwept == Spec => SweepTakesOnlyStale
  <1>1. Safe /\ [Next]_vars =>
          [\A v \in VisitorIds :
             (Live(v) /\ visitors'[v] = Gone) =>
                 (\E p \in Procs : Commits(p, "Merged") /\ tx[p].visitor = v) \/ Stale(v)]_vars
    <2> SUFFICES ASSUME Safe, [Next]_vars, NEW v \in VisitorIds, Live(v), visitors'[v] = Gone
                 PROVE  (\E p \in Procs : Commits(p, "Merged") /\ tx[p].visitor = v) \/ Stale(v)
      OBVIOUS
    <2>1. PICK p \in Procs : Commit(p)
      BY OnlyCommits DEF Live
    <2>2. /\ tx[p].writes[v] = Gone /\ Written(tx[p], v, tx[p].writes[v]) /\ tx[p].pc = "commit"
      BY <2>1, CommitRows DEF Live
    <2>3. CASE tx[p].answer = "Swept" /\ Stale(v)
      BY <2>3
    <2>4. CASE tx[p].answer = "Merged" /\ tx[p].visitor = v
      <3>1. tx' = [tx EXCEPT ![p] = Idle("Merged")]
        BY <2>1, <2>4 DEF Commit
      <3>2. tx'[p] = Idle("Merged")
        BY <3>1 DEF Safe
      <3>3. Idle("Merged").pc = "idle" /\ Idle("Merged") # Idle("aborted")
        BY DEF Idle
      <3>4. Commits(p, "Merged")
        BY <2>2, <2>4, <3>2, <3>3 DEF Commits
      <3> QED
        BY <2>4, <3>4
    <2> QED
      BY <2>2, <2>3, <2>4, ValuesAssumption DEF Written, Absorbs
  <1> QED
    BY <1>1, SafeAlways, PTL DEF Spec, SweepTakesOnlyStale

\* An identified visitor goes only into another row of the merge's principal, which stays:
\* the merge holds that row from its first statement to its commit.
THEOREM IdentifiedNotLost == Spec => AbsorbedNotLost
  <1>1. Safe /\ [Next]_vars =>
          [\A v \in VisitorIds :
             (Live(v) /\ visitors[v].principal # None /\ visitors'[v] = Gone) =>
                 \E p \in Procs :
                    /\ Commits(p, "Merged") /\ tx[p].visitor = v /\ tx[p].survivor # v
                    /\ visitors'[tx[p].survivor] \notin {NoRow, Gone}
                    /\ visitors'[tx[p].survivor].principal = tx[p].principal]_vars
    <2> SUFFICES ASSUME Safe, [Next]_vars, NEW v \in VisitorIds, Live(v),
                        visitors[v].principal # None, visitors'[v] = Gone
                 PROVE  \E p \in Procs :
                           /\ Commits(p, "Merged") /\ tx[p].visitor = v /\ tx[p].survivor # v
                           /\ visitors'[tx[p].survivor] \notin {NoRow, Gone}
                           /\ visitors'[tx[p].survivor].principal = tx[p].principal
      OBVIOUS
    <2>1. PICK p \in Procs : Commit(p)
      BY OnlyCommits DEF Live
    <2>2. /\ tx[p].writes[v] = Gone /\ Written(tx[p], v, tx[p].writes[v]) /\ tx[p].pc = "commit"
      BY <2>1, CommitRows DEF Live
    <2>3. tx[p].answer = "Merged" /\ Absorbs(tx[p], v) /\ tx[p].survivor # v
      BY <2>2, ValuesAssumption DEF Written, Stale
    <2>4. tx' = [tx EXCEPT ![p] = Idle("Merged")]
      BY <2>1, <2>3 DEF Commit
    <2>5. tx'[p] = Idle("Merged")
      BY <2>4 DEF Safe
    <2>6. Idle("Merged").pc = "idle" /\ Idle("Merged") # Idle("aborted")
      BY DEF Idle
    <2>7. Commits(p, "Merged")
      BY <2>2, <2>3, <2>5, <2>6 DEF Commits
    <2> DEFINE s == tx[p].survivor
    <2>8. s \in VisitorIds /\ Live(s) /\ visitors[s].principal = tx[p].principal
      BY <2>3 DEF Absorbs, Safe, Sound, Typed
    <2>9. visitors'[s] = visitors[s]
      <3>1. s \notin DOMAIN tx[p].writes
        BY <2>3 DEF Absorbs
      <3> QED
        BY <2>1, <2>8, <3>1, CommitRows
    <2> QED
      BY <2>3, <2>7, <2>8, <2>9 DEF Absorbs, Live
  <1> QED
    BY <1>1, SafeAlways, PTL DEF Spec, AbsorbedNotLost
=============================================================================
