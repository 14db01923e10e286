------------------------------ MODULE Visitors ------------------------------
(***************************************************************************)
(* The visitor engine (visitor_service.rs) and the retention sweep         *)
(* (visitor_gc.rs): heartbeat, login merge, batched sweep.                 *)
(*                                                                         *)
(* Visitors are hard-deleted, so a row is NoRow, live or Gone.  A handler  *)
(* keeps what its open transaction has written in its locals and holds     *)
(* those rows, and the rows it selected FOR NO KEY UPDATE, until it ends.  *)
(* A statement reads the state committed when it starts: the heartbeat     *)
(* waits for its row inside its one statement, and looks for earlier       *)
(* tracks in what it saw before it waited.  `kind` is `principal # None`.  *)
(* `now` counts ticks; a handler's clock is the one of its BEGIN.          *)
(***************************************************************************)
EXTENDS Naturals, FiniteSets

CONSTANTS
    VisitorIds, TrackIds, Sites, Browsers, Principals, PageUrls, Procs,
    Peppers,      \* WEBSITE_VISITOR_PEPPER, "" when it is not set
    NoRow, Gone,  \* a row that was never inserted, and one that was deleted
    None,         \* SQL NULL
    VisitWindow, TrackDedup, Retention,   \* in ticks
    Batch,        \* rows in one committed batch of the sweep
    Starts,       \* committed tables a run may start from
    Verbs, MaxCalls, MaxNow

VARIABLES visitors, tracks, tx, pepper, now, calls

vars == <<visitors, tracks, tx, pepper, now, calls>>

\* Every call mints a random token: here, its number.
Tokens == 0 .. MaxCalls + Cardinality(VisitorIds)
Digests == Peppers \X Browsers

VisitorRow == [site : Sites, digest : Digests, token : Tokens,
               principal : Principals \cup {None}, visits : Nat, last : 0 .. MaxNow]
TrackRow == [visitor : VisitorIds, url : PageUrls, at : 0 .. MaxNow]
Visitors == [VisitorIds -> VisitorRow \cup {NoRow, Gone}]
Tracks == [TrackIds -> TrackRow \cup {NoRow, Gone}]

ASSUME InputsAssumption ==
    /\ Starts \subseteq [visitors : Visitors, tracks : Tracks]
    /\ Verbs \subseteq {"heartbeat", "merge", "sweep"}
    /\ VisitWindow \in Nat /\ TrackDedup \in Nat
    /\ Retention \in Nat /\ Batch \in Nat \ {0} /\ MaxCalls \in Nat /\ MaxNow \in Nat
ASSUME ValuesAssumption ==
    NoRow \notin VisitorRow \cup TrackRow /\ Gone \notin VisitorRow \cup TrackRow /\ NoRow # Gone
ASSUME IdsAssumption == IsFiniteSet(VisitorIds)

\* A start has a visitor for every track, and one row of a browser on a website.
ASSUME StartsAssumption ==
    \A s \in Starts :
        /\ \A t \in TrackIds :
             s.tracks[t] \notin {NoRow, Gone} => s.visitors[s.tracks[t].visitor] \notin {NoRow, Gone}
        /\ \A u, v \in VisitorIds :
             (u # v /\ s.visitors[u] \notin {NoRow, Gone} /\ s.visitors[v] \notin {NoRow, Gone}) =>
                \/ s.visitors[u].digest # s.visitors[v].digest
                \/ s.visitors[u].site # s.visitors[v].site

Labels == {"idle", "heartbeat.statement", "heartbeat.upsert", "merge.find", "merge.reparent",
           "merge.delete", "merge.claim", "merge.view", "sweep.batch", "sweep.audit", "commit"}
Answers == {"none", "aborted", "Tracked", "Untracked", "Merged", "Swept", "NotFound", "Db",
            "VisitorPepperNotConfigured"}

\* The locals of a handler.  `visitor` is the row the heartbeat touched, or the anonymous
\* row given to the merge; `writes` and `moved` are what the open transaction has written.
Idle(a) == [pc |-> "idle", at |-> 0, site |-> None, digest |-> None, token |-> 0, url |-> None,
            seen |-> {}, principal |-> None, visitor |-> None, survivor |-> None,
            writes |-> << >>, locked |-> {}, moved |-> {}, added |-> NoRow, swept |-> 0,
            answer |-> a]

Init ==
    /\ \E s \in Starts : visitors = s.visitors /\ tracks = s.tracks
    /\ tx = [p \in Procs |-> Idle("none")]
    /\ pepper \in Peppers
    /\ now = 0 /\ calls = MaxCalls
-----------------------------------------------------------------------------
Live(v) == visitors[v] \notin {NoRow, Gone}
LiveTrack(t) == tracks[t] \notin {NoRow, Gone}
TracksOf(v) == {t \in TrackIds : LiveTrack(t) /\ tracks[t].visitor = v}

Held(p) == DOMAIN tx[p].writes \cup tx[p].locked
HeldByOthers(p) == UNION {Held(q) : q \in Procs \ {p}}

\* Rows of a browser on a website, those that open transactions insert included.
HasDigest(r, d, w) == r \notin {NoRow, Gone} /\ r.digest = d /\ r.site = w
RowsOf(d, w) == {v \in VisitorIds : HasDigest(visitors[v], d, w)}
Inserting(q, d, w) == \E v \in DOMAIN tx[q].writes : HasDigest(tx[q].writes[v], d, w)
Deleting(q) == {v \in DOMAIN tx[q].writes : tx[q].writes[v] = Gone}

\* The transactions that the next statement of p has to wait for.
WaitsFor(p) ==
    LET f == tx[p]
        others == Procs \ {p}
    IN  CASE f.pc = "heartbeat.upsert" ->
               {q \in others : \/ Inserting(q, f.digest, f.site)
                               \/ RowsOf(f.digest, f.site) \cap Held(q) # {}}
          [] f.pc = "merge.reparent" ->
               {q \in others : \/ TracksOf(f.visitor) \cap tx[q].moved # {}
                               \/ TracksOf(f.visitor) # {} /\ f.visitor \in Deleting(q)}
          [] f.pc = "merge.delete" -> {q \in others : Live(f.visitor) /\ f.visitor \in Held(q)}
          \* The cascade of a DELETE meets tracks that a merge has re-parented.
          [] f.pc = "commit" ->
               {q \in others : \E t \in tx[q].moved : tracks[t].visitor \in Deleting(p)}
          [] OTHER -> {}

At(p, label) ==
    /\ tx[p].pc = label /\ WaitsFor(p) = {}
    /\ UNCHANGED <<pepper, now, calls>>

Goto(p, frame, label) == tx' = [tx EXCEPT ![p] = [frame EXCEPT !.pc = label]]
Finish(p, frame, a) == tx' = [tx EXCEPT ![p] = [frame EXCEPT !.pc = "commit", !.answer = a]]
Fail(p, a) == tx' = [tx EXCEPT ![p] = Idle(a)] /\ UNCHANGED <<visitors, tracks>>

UnusedVisitors ==
    {v \in VisitorIds : visitors[v] = NoRow /\ \A q \in Procs : v \notin DOMAIN tx[q].writes}
UnusedTracks == {t \in TrackIds : tracks[t] = NoRow}

\* COMMIT.  The tracks of a deleted visitor go with it (ON DELETE CASCADE).
Store(f) ==
    LET moved(t) == IF t \in f.moved THEN [tracks[t] EXCEPT !.visitor = f.survivor] ELSE tracks[t]
        dying == {v \in DOMAIN f.writes : f.writes[v] = Gone}
        new == IF f.added = NoRow THEN {} ELSE {CHOOSE t \in UnusedTracks : TRUE}
    IN  /\ f.added # NoRow => UnusedTracks # {}
        /\ visitors' = [v \in VisitorIds |->
                          IF v \in DOMAIN f.writes THEN f.writes[v] ELSE visitors[v]]
        /\ tracks' = [t \in TrackIds |->
                        IF t \in new THEN f.added
                        ELSE IF LiveTrack(t) /\ moved(t).visitor \in dying THEN Gone ELSE moved(t)]
-----------------------------------------------------------------------------
\* heartbeat

\* The keyed digest: the pepper and the facts of the browser, not the website.
VisitorDigest(b) == <<pepper, b>>

\* A pepper that is not set refuses the verb before anything is read.
BeginHeartbeat(p) ==
    \E w \in Sites, b \in Browsers, u \in PageUrls \cup {None} :
        /\ tx[p].pc = "idle" /\ calls > 0 /\ "heartbeat" \in Verbs
        /\ calls' = calls - 1 /\ UNCHANGED <<visitors, tracks, pepper, now>>
        /\ \/ /\ pepper = ""
              /\ tx' = [tx EXCEPT ![p] = Idle("VisitorPepperNotConfigured")]
           \/ /\ pepper # ""
              /\ Goto(p, [Idle("none") EXCEPT !.at = now, !.site = w, !.url = u, !.token = calls,
                                              !.digest = VisitorDigest(b)], "heartbeat.statement")

\* The statement starts: the tracks committed now are those its NOT EXISTS looks at.
HeartbeatStatement(p) ==
    /\ At(p, "heartbeat.statement")
    /\ Goto(p, [tx[p] EXCEPT !.seen = {tracks[t] : t \in {x \in TrackIds : LiveTrack(x)}}],
            "heartbeat.upsert")
    /\ UNCHANGED <<visitors, tracks>>

\* A wrong variant: the window compared with <=.
EarlyTouched(r, at) ==
    [r EXCEPT !.last = at, !.visits = @ + IF r.last + VisitWindow <= at THEN 1 ELSE 0]

\* DO UPDATE: a connection after the visit window opens a new visit.
Touched(r, at) ==
    [r EXCEPT !.last = at, !.visits = @ + IF r.last + VisitWindow < at THEN 1 ELSE 0]

\* INSERT .. ON CONFLICT (digest, website_id) DO UPDATE, and the track CTE behind it.
HeartbeatUpsert(p) ==
    LET f == tx[p]
        row == [site |-> f.site, digest |-> f.digest, token |-> f.token, principal |-> None,
                visits |-> 0, last |-> f.at]
        found == RowsOf(f.digest, f.site)
        repeated(v) == \E t \in f.seen : t.visitor = v /\ t.url = f.url /\ t.at + TrackDedup > f.at
        touch(v, r) ==
            LET tracked == f.url # None /\ ~repeated(v)
            IN  Finish(p, [f EXCEPT
                             !.visitor = v, !.writes = [i \in {v} |-> r], !.seen = {},
                             !.token = r.token,
                             !.added = IF tracked THEN [visitor |-> v, url |-> f.url, at |-> f.at]
                                                  ELSE NoRow],
                       IF tracked THEN "Tracked" ELSE "Untracked")
    IN  /\ At(p, "heartbeat.upsert") /\ UNCHANGED <<visitors, tracks>>
        /\ \/ \E v \in found : touch(v, Touched(visitors[v], f.at))
           \/ found = {} /\ UnusedVisitors # {} /\ touch(CHOOSE v \in UnusedVisitors : TRUE, row)
-----------------------------------------------------------------------------
\* merge_visitor

BeginMerge(p) ==
    \E w \in Sites, v \in {x \in VisitorIds : visitors[x] # NoRow}, u \in Principals :
        /\ tx[p].pc = "idle" /\ calls > 0 /\ "merge" \in Verbs
        /\ calls' = calls - 1 /\ UNCHANGED <<visitors, tracks, pepper, now>>
        /\ Goto(p, [Idle("none") EXCEPT !.at = now, !.site = w, !.visitor = v, !.principal = u],
                "merge.find")

Identified(w, u) == {v \in VisitorIds : Live(v) /\ visitors[v].site = w /\ visitors[v].principal = u}

\* A wrong variant: the identified row is read and not locked.
UnlockedMergeFind(p) ==
    LET f == tx[p]
        found == Identified(f.site, f.principal) \ HeldByOthers(p)
    IN  /\ At(p, "merge.find") /\ UNCHANGED <<visitors, tracks>>
        /\ \/ \E v \in found : Goto(p, [f EXCEPT !.survivor = v], "merge.reparent")
           \/ found = {} /\ Goto(p, f, "merge.claim")

\* SELECT .. FOR NO KEY UPDATE SKIP LOCKED: a row that another transaction holds is passed
\* over.  All rows found are locked and the first one is taken.
MergeFind(p) ==
    LET f == tx[p]
        found == Identified(f.site, f.principal) \ HeldByOthers(p)
    IN  /\ At(p, "merge.find") /\ UNCHANGED <<visitors, tracks>>
        /\ \/ \E v \in found :
                Goto(p, [f EXCEPT !.survivor = v, !.locked = found], "merge.reparent")
           \/ found = {} /\ Goto(p, f, "merge.claim")

\* UPDATE visitor_tracks SET visitor_id = existing WHERE visitor_id = anonymous.
MergeReparent(p) ==
    /\ At(p, "merge.reparent") /\ UNCHANGED <<visitors, tracks>>
    /\ Goto(p, [tx[p] EXCEPT !.moved = TracksOf(tx[p].visitor)], "merge.delete")

MergeDelete(p) ==
    LET f == tx[p]
    IN  /\ At(p, "merge.delete") /\ UNCHANGED <<visitors, tracks>>
        /\ Goto(p, [f EXCEPT !.writes = [v \in {x \in {f.visitor} : Live(x)} |-> Gone]],
                "merge.view")

\* UPDATE .. WHERE id IN (SELECT .. SKIP LOCKED): the row as it is now, unless it is held.
MergeClaim(p) ==
    LET f == tx[p]
        row == [visitors[f.visitor] EXCEPT !.principal = f.principal, !.last = f.at]
    IN  /\ At(p, "merge.claim")
        /\ \/ /\ Live(f.visitor) /\ f.visitor \notin HeldByOthers(p)
              /\ Goto(p, [f EXCEPT !.survivor = f.visitor, !.writes = [v \in {f.visitor} |-> row]],
                      "merge.view")
              /\ UNCHANGED <<visitors, tracks>>
           \/ ~Live(f.visitor) /\ Fail(p, "NotFound")
           \/ f.visitor \in HeldByOthers(p) /\ Fail(p, "NotFound")

\* A wrong variant: the answer is read with fetch_optional, and its absence overlooked.
OptionalMergeView(p) ==
    /\ At(p, "merge.view") /\ UNCHANGED <<visitors, tracks>>
    /\ Finish(p, tx[p], "Merged")

\* The audit row, and the read of the survivor, which must be there.
MergeView(p) ==
    LET f == tx[p]
    IN  /\ At(p, "merge.view")
        /\ \/ f.survivor \in Deleting(p) /\ Fail(p, "Db")
           \/ f.survivor \notin Deleting(p) /\ Finish(p, f, "Merged") /\ UNCHANGED <<visitors, tracks>>
-----------------------------------------------------------------------------
\* sweep_partnerless_visitors

BeginSweep(p) ==
    /\ tx[p].pc = "idle" /\ calls > 0 /\ "sweep" \in Verbs
    /\ calls' = calls - 1 /\ UNCHANGED <<visitors, tracks, pepper, now>>
    /\ Goto(p, Idle("none"), "sweep.batch")

Stale(v) == Live(v) /\ visitors[v].principal = None /\ visitors[v].last + Retention < now

\* A batch: the oldest of the rows that are not held.
Batches(S) ==
    {D \in SUBSET S : /\ Cardinality(D) = IF Cardinality(S) < Batch THEN Cardinality(S) ELSE Batch
                      /\ \A d \in D, s \in S \ D : visitors[d].last <= visitors[s].last}

\* A wrong variant: the rows are chosen, and not locked until the DELETE.
UnlockedSweepBatch(p) ==
    LET f == tx[p]
    IN  /\ At(p, "sweep.batch") /\ UNCHANGED <<visitors, tracks>>
        /\ \/ \E D \in Batches({v \in VisitorIds : Stale(v)}) \ {{}} :
                Finish(p, [f EXCEPT !.at = now, !.writes = [v \in D |-> Gone]], "Swept")
           \/ /\ {v \in VisitorIds : Stale(v)} = {}
              /\ tx' = [tx EXCEPT ![p] = Idle("Swept")]

\* A wrong variant: an empty batch does not end the loop.
PersistentSweepBatch(p) ==
    LET f == tx[p]
        stale == {v \in VisitorIds : Stale(v)} \ HeldByOthers(p)
    IN  /\ At(p, "sweep.batch") /\ UNCHANGED <<visitors, tracks>>
        /\ \/ \E D \in Batches(stale) \ {{}} :
                Finish(p, [f EXCEPT !.at = now, !.writes = [v \in D |-> Gone]], "Swept")
           \/ stale = {} /\ Goto(p, [f EXCEPT !.swept = 1], "sweep.batch")

\* DELETE .. (SELECT .. FOR UPDATE SKIP LOCKED), until a batch comes back empty.
SweepBatch(p) ==
    LET f == tx[p]
        stale == {v \in VisitorIds : Stale(v)} \ HeldByOthers(p)
    IN  /\ At(p, "sweep.batch") /\ UNCHANGED <<visitors, tracks>>
        /\ \/ \E D \in Batches(stale) \ {{}} :
                Finish(p, [f EXCEPT !.at = now, !.writes = [v \in D |-> Gone]], "Swept")
           \/ stale = {} /\ f.swept = 0 /\ tx' = [tx EXCEPT ![p] = Idle("Swept")]
           \/ stale = {} /\ f.swept > 0 /\ Goto(p, f, "sweep.audit")

\* The audit row of the run is written on the pool, after the last batch.
SweepAudit(p) ==
    /\ At(p, "sweep.audit")
    /\ \E a \in {"Swept", "Db"} : Fail(p, a)
-----------------------------------------------------------------------------
\* COMMIT: the sweep goes on with its next batch, the other verbs answer.
Commit(p) ==
    LET f == tx[p]
    IN  /\ At(p, "commit") /\ Store(f)
        /\ \/ /\ f.answer = "Swept"
              /\ Goto(p, [Idle("none") EXCEPT !.swept = f.swept + Cardinality(Deleting(p))],
                      "sweep.batch")
           \/ f.answer # "Swept" /\ tx' = [tx EXCEPT ![p] = Idle(f.answer)]

\* The connection is lost or the process stops: committed batches stay.
Abort(p) ==
    /\ tx[p].pc # "idle" /\ UNCHANGED <<pepper, now, calls>>
    /\ Fail(p, "aborted")

\* Postgres ends one of two transactions that wait for each other.
DeadlockVictim(p) ==
    /\ \E q \in WaitsFor(p) : p \in WaitsFor(q)
    /\ UNCHANGED <<pepper, now, calls>>
    /\ Fail(p, "Db")

Tick ==
    /\ now < MaxNow /\ now' = now + 1
    /\ UNCHANGED <<visitors, tracks, tx, pepper, calls>>

Heartbeat(p) == HeartbeatStatement(p) \/ HeartbeatUpsert(p)
Merge(p) == MergeFind(p) \/ MergeReparent(p) \/ MergeDelete(p) \/ MergeClaim(p) \/ MergeView(p)
Sweep(p) == SweepBatch(p) \/ SweepAudit(p)
Work(p) == Heartbeat(p) \/ Merge(p) \/ Sweep(p) \/ Commit(p) \/ DeadlockVictim(p)
Begin(p) == BeginHeartbeat(p) \/ BeginMerge(p) \/ BeginSweep(p)

Next == Tick \/ \E p \in Procs : Begin(p) \/ Work(p) \/ Abort(p)

Spec == Init /\ [][Next]_vars
-----------------------------------------------------------------------------
FairSpec == Spec /\ \A p \in Procs : WF_vars(Work(p))

\* p commits in this step what it answers with a.
Commits(p, a) == tx[p].pc = "commit" /\ tx[p].answer = a /\ tx'[p].pc # "commit" /\
                 tx'[p] # Idle("aborted")

\* A browser has one row on a website, whichever open transactions commit: the unique
\* (digest, website_id) of the heartbeat's conflict target.
OneRowPerBrowser ==
    LET versions(v) == {visitors[v]} \cup
                       {tx[q].writes[v] : q \in {x \in Procs : v \in DOMAIN tx[x].writes}}
    IN  \A u, v \in VisitorIds : u # v =>
          \A r \in versions(u), s \in versions(v) :
            r \notin {NoRow, Gone} => ~HasDigest(s, r.digest, r.site)

\* What the handlers rely on: row locks are exclusive, the row a merge found stays with its
\* principal until the merge ends, every track has its visitor, and a browser one row.
VisitorsInv ==
    /\ visitors \in Visitors /\ tracks \in Tracks
    /\ \A p \in Procs :
         /\ tx[p].pc \in Labels /\ tx[p].answer \in Answers
         /\ Held(p) \cap HeldByOthers(p) = {}
         /\ tx[p].pc \in {"merge.reparent", "merge.delete"} =>
              Live(tx[p].survivor) /\ visitors[tx[p].survivor].principal = tx[p].principal
    /\ \A t \in TrackIds : LiveTrack(t) => Live(tracks[t].visitor)
    /\ OneRowPerBrowser

\* Heartbeats that race after a silence count one visit: a visit is counted only over a
\* row that had been silent for the visit window.
VisitsCountOnce ==
    [][\A v \in VisitorIds :
         (Live(v) /\ visitors'[v] # Gone /\ visitors'[v].visits # visitors[v].visits) =>
             /\ visitors'[v].visits = visitors[v].visits + 1
             /\ visitors[v].last + VisitWindow < visitors'[v].last]_vars

\* A visitor disappears by being absorbed, or it has no principal and was silent for the
\* retention when it goes, whatever heartbeat or claim raced the sweep's batch.
SweepTakesOnlyStale ==
    [][\A v \in VisitorIds :
         (Live(v) /\ visitors'[v] = Gone) =>
             (\E p \in Procs : Commits(p, "Merged") /\ tx[p].visitor = v) \/ Stale(v)]_vars

\* An identified visitor goes only into another row of the merge's principal, which stays:
\* a merge that is repeated, and finds the row that it claimed as both survivor and
\* absorbed, takes nothing away.
AbsorbedNotLost ==
    [][\A v \in VisitorIds :
         (Live(v) /\ visitors[v].principal # None /\ visitors'[v] = Gone) =>
             \E p \in Procs :
                /\ Commits(p, "Merged") /\ tx[p].visitor = v /\ tx[p].survivor # v
                /\ visitors'[tx[p].survivor] \notin {NoRow, Gone}
                /\ visitors'[tx[p].survivor].principal = tx[p].principal]_vars

\* Every call is answered: the sweep's loop ends although rows grow stale while it runs,
\* and what two merges may do to each other the deadlock detector ends.
EveryCallEnds == \A p \in Procs : tx[p].pc # "idle" ~> tx[p].pc = "idle"

=============================================================================
