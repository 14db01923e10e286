---------------------------- MODULE ToursProofs ----------------------------
(***************************************************************************)
(* Tours, for any set of tours, names, users and requests: one live        *)
(* definition per name, and facts that only a reset of their tour removes. *)
(***************************************************************************)
EXTENDS Tours, TLAPS

Labels == {"idle", "upsert", "delete", "consume.load", "consume.insert", "consume.select",
           "reset.load", "reset.delete", "commit"}
Answers == {"none", "aborted", "Upserted", "Deleted", "Consumed", "AlreadyConsumed", "Reset",
            "TourNotFound", "Db"}

\* The locals of a handler.
Frame == [pc : Labels, name : Names \cup {None}, user : Users \cup {None}, rev : Stamps,
          tour : TourIds \cup {None}, id : TourIds \cup {None}, row : TourRow \cup {NoRow},
          adds : Pairs \cup {None}, drops : SUBSET Pairs, done : Answers, answer : Answers]

TypeOK ==
    /\ tours \in [TourIds -> TourRow \cup {NoRow}]
    /\ facts \in [Pairs -> Stamps \cup {None}]
    /\ tx \in [Procs -> Frame]
    /\ calls \in 0..MaxCalls

\* What the statement that a handler is at relies on.
Locals(f) ==
    /\ f.pc \notin {"idle", "commit"} => f.name \in Names /\ f.id = None
    /\ f.pc \in {"consume.load", "consume.insert", "consume.select"} => f.user \in Users
    /\ f.pc \in {"consume.insert", "consume.select", "reset.delete"} => f.tour \in TourIds

\* Only the last statement of a verb writes, and each verb writes one kind of thing.
WritesOnce(f) ==
    /\ f.row # NoRow => f.pc = "commit" /\ f.id # None
    /\ f.row = NoRow => f.id = None
    /\ f.adds # None => f.pc = "commit"
    /\ f.drops # {} => f.pc = "commit" /\ f.done = "Reset" /\ \A g \in f.drops : g[1] = f.tour

\* An uncommitted row keeps the name of the row it replaces, or replaces none.
KeepsName(f) ==
    f.row # NoRow /\ tours[f.id] # NoRow => tours[f.id].name = f.row.name

\* No two open transactions write one name or one row, and a pending row is the only one of
\* its name that is live.
NamesExclusive ==
    \A p \in Procs : tx[p].row # NoRow =>
        /\ \A q \in Others(p) : tx[q].row # NoRow =>
              tx[q].row.name # tx[p].row.name /\ tx[q].id # tx[p].id
        /\ \A t \in TourIds : Live(t) /\ tours[t].name = tx[p].row.name => t = tx[p].id

\* In the committed table a name has one live row.
NamesUnique ==
    \A s, t \in TourIds : Live(s) /\ Live(t) /\ tours[s].name = tours[t].name => s = t

\* A fact that is about to be recorded is not there yet, and nobody else is recording it.
FactsNew ==
    \A p \in Procs : tx[p].adds # None =>
        /\ facts[tx[p].adds] = None
        /\ \A q \in Others(p) : tx[q].adds # tx[p].adds

\* The inductive invariant.
ToursSafe ==
    /\ TypeOK
    /\ \A p \in Procs : Locals(tx[p]) /\ WritesOnce(tx[p]) /\ KeepsName(tx[p])
    /\ NamesExclusive /\ NamesUnique /\ FactsNew
-----------------------------------------------------------------------------
\* The locals a handler that writes nothing may move to.
Quiet(f) == Locals(f) /\ f.row = NoRow /\ f.id = None /\ f.adds = None /\ f.drops = {}

\* A handler that writes nothing keeps the invariant, whatever it knows.
LEMMA QuietStep ==
    ASSUME ToursSafe, NEW p \in Procs, NEW f \in Frame, Quiet(f), tx' = [tx EXCEPT ![p] = f],
           UNCHANGED <<tours, facts>>, calls' \in 0..MaxCalls
    PROVE  ToursSafe'
  <1>1. TypeOK'
    BY DEF ToursSafe, TypeOK
  <1>2. \A q \in Procs : tx'[q] = IF q = p THEN f ELSE tx[q]
    BY DEF ToursSafe, TypeOK
  <1>3. \A q \in Procs : Locals(tx[q])' /\ WritesOnce(tx[q])' /\ KeepsName(tx[q])'
    BY <1>2 DEF ToursSafe, Quiet, Locals, WritesOnce, KeepsName
  <1>4. NamesExclusive' /\ NamesUnique' /\ FactsNew'
    BY <1>2 DEF ToursSafe, Quiet, NamesExclusive, NamesUnique, FactsNew, Others, Live
  <1> QED
    BY <1>1, <1>3, <1>4 DEF ToursSafe

\* An answer leaves no locals.
LEMMA IdleQuiet ==
    ASSUME NEW a \in Answers
    PROVE  Idle(a) \in Frame /\ Quiet(Idle(a))
  BY MaxCallsAssumption DEF Idle, Frame, Labels, Answers, Quiet, Locals, Stamps

\* A refused, lost or answered call.
LEMMA ReturnStep ==
    ASSUME ToursSafe, NEW p \in Procs, NEW a \in Answers, Return(p, a), UNCHANGED calls
    PROVE  ToursSafe'
  BY IdleQuiet, QuietStep DEF Return, ToursSafe, TypeOK

\* A call starts with a name and nothing else.
LEMMA BeginStep ==
    ASSUME ToursSafe, NEW p \in Procs, Begin(p)
    PROVE  ToursSafe'
  <1> DEFINE call(n) == [Idle("none") EXCEPT !.name = n, !.rev = MaxCalls - calls + 1]
  <1>1. /\ calls \in 0..MaxCalls /\ calls > 0 /\ calls' = calls - 1
        /\ UNCHANGED <<tours, facts>>
    BY DEF ToursSafe, TypeOK, Begin
  <1>2. calls' \in 0..MaxCalls /\ MaxCalls - calls + 1 \in Stamps
    BY <1>1, MaxCallsAssumption DEF Stamps
  <1>3. PICK n \in Names :
          \/ \E label \in {"upsert", "delete", "reset.load"} : Goto(p, call(n), label)
          \/ \E u \in Users : Goto(p, [call(n) EXCEPT !.user = u], "consume.load")
    BY DEF Begin
  <1>4. CASE \E label \in {"upsert", "delete", "reset.load"} : Goto(p, call(n), label)
    <2>1. PICK label \in {"upsert", "delete", "reset.load"} : Goto(p, call(n), label)
      BY <1>4
    <2> DEFINE f == [call(n) EXCEPT !.pc = label]
    <2>2. f \in Frame /\ Quiet(f)
      BY <1>2 DEF Idle, Frame, Labels, Answers, Quiet, Locals
    <2> QED
      BY <1>1, <1>2, <2>1, <2>2, QuietStep DEF Goto
  <1>5. CASE \E u \in Users : Goto(p, [call(n) EXCEPT !.user = u], "consume.load")
    <2>1. PICK u \in Users : Goto(p, [call(n) EXCEPT !.user = u], "consume.load")
      BY <1>5
    <2> DEFINE f == [[call(n) EXCEPT !.user = u] EXCEPT !.pc = "consume.load"]
    <2>2. f \in Frame /\ Quiet(f)
      BY <1>2 DEF Idle, Frame, Labels, Answers, Quiet, Locals
    <2> QED
      BY <1>1, <1>2, <2>1, <2>2, QuietStep DEF Goto
  <1> QED
    BY <1>3, <1>4, <1>5

\* A definition is looked up by its name.
LEMMA LoadStep ==
    ASSUME ToursSafe, NEW p \in Procs,
           \/ ConsumeLoad(p)
           \/ ResetLoad(p)
    PROVE  ToursSafe'
  <1>1. tx[p] \in Frame /\ Locals(tx[p]) /\ WritesOnce(tx[p]) /\ calls \in 0..MaxCalls
    BY DEF ToursSafe, TypeOK
  <1>2. PICK next \in {"consume.insert", "reset.delete"} :
          /\ next = "consume.insert" => tx[p].pc = "consume.load"
          /\ next = "reset.delete" => tx[p].pc = "reset.load"
          /\ Load(p, tx[p].pc, next)
    BY DEF ConsumeLoad, ResetLoad, Load, At
  <1>3. CASE Return(p, "TourNotFound")
    BY <1>2, <1>3, ReturnStep DEF Answers, Load, At
  <1>4. CASE \E t \in ByName(tx[p].name) : Goto(p, [tx[p] EXCEPT !.tour = t], next)
    <2>1. PICK t \in ByName(tx[p].name) : Goto(p, [tx[p] EXCEPT !.tour = t], next)
      BY <1>4
    <2> DEFINE f == [[tx[p] EXCEPT !.tour = t] EXCEPT !.pc = next]
    <2>2. t \in TourIds
      BY DEF ByName
    <2>3. f \in Frame /\ Quiet(f)
      BY <1>1, <1>2, <2>2 DEF Frame, Labels, Quiet, Locals, WritesOnce
    <2>4. tx' = [tx EXCEPT ![p] = f]
      BY <2>1 DEF Goto
    <2>5. UNCHANGED <<tours, facts, calls>>
      BY <1>2, <1>1 DEF Load, At, Return
    <2> QED
      BY <1>1, <2>3, <2>4, <2>5, QuietStep
  <1> QED
    BY <1>2, <1>3, <1>4 DEF Load

\* The rows that are named alike are one row at most.
LEMMA ByNameOne ==
    ASSUME ToursSafe, NEW n, NEW t \in ByName(n)
    PROVE  /\ t \in TourIds /\ Live(t) /\ tours[t].name = n /\ tours[t] \in TourRow
           /\ \A s \in TourIds : Live(s) /\ tours[s].name = n => s = t
  BY DEF ByName, Live, ToursSafe, TypeOK, NamesUnique

\* A row version is written for a name that no other open transaction writes.
LEMMA RowStep ==
    ASSUME ToursSafe, NEW p \in Procs, NEW f \in Frame, tx' = [tx EXCEPT ![p] = f],
           UNCHANGED <<tours, facts, calls>>, ~NameHeld(p, f.row.name),
           f.pc = "commit", f.row # NoRow, f.id \in TourIds, f.adds = None, f.drops = {},
           tours[f.id] # NoRow => tours[f.id].name = f.row.name,
           \A q \in Others(p) : tx[q].id = f.id => tours[f.id] # NoRow,
           \A s \in TourIds : Live(s) /\ tours[s].name = f.row.name => s = f.id
    PROVE  ToursSafe'
  <1>1. \A q \in Procs : tx'[q] = IF q = p THEN f ELSE tx[q]
    BY DEF ToursSafe, TypeOK
  <1>2. TypeOK'
    BY DEF ToursSafe, TypeOK
  <1>3. ASSUME NEW q \in Procs
        PROVE  Locals(tx[q])' /\ WritesOnce(tx[q])' /\ KeepsName(tx[q])'
    <2>1. CASE q = p
      BY <1>1, <2>1, NoneAssumption DEF Locals, WritesOnce, KeepsName
    <2>2. CASE q # p
      BY <1>1, <2>2 DEF ToursSafe, Locals, WritesOnce, KeepsName
    <2> QED
      BY <2>1, <2>2
  <1>4. \A q \in Others(p) : tx[q].row # NoRow => tx[q].row.name # f.row.name /\ tx[q].id # f.id
    BY DEF NameHeld, Others
  <1>5. NamesExclusive'
    <2> SUFFICES ASSUME NEW r \in Procs, tx'[r].row # NoRow
                 PROVE  /\ \A q \in Procs \ {r} : tx'[q].row # NoRow =>
                              tx'[q].row.name # tx'[r].row.name /\ tx'[q].id # tx'[r].id
                        /\ \A t \in TourIds : Live(t) /\ tours[t].name = tx'[r].row.name
                                                 => t = tx'[r].id
      BY DEF NamesExclusive, Others, Live
    <2>1. CASE r = p
      BY <1>1, <1>4, <2>1 DEF Others
    <2>2. CASE r # p
      BY <1>1, <1>4, <2>2 DEF Others, ToursSafe, NamesExclusive
    <2> QED
      BY <2>1, <2>2
  <1>6. NamesUnique'
    BY DEF ToursSafe, NamesUnique, Live
  <1>7. FactsNew'
    BY <1>1 DEF ToursSafe, FactsNew, Others
  <1> QED
    BY <1>2, <1>3, <1>5, <1>6, <1>7 DEF ToursSafe

\* The upsert takes over the live row of its name, or a fresh one.
LEMMA UpsertStep ==
    ASSUME ToursSafe, NEW p \in Procs, Upsert(p)
    PROVE  ToursSafe'
  <1> DEFINE row == [name |-> tx[p].name, rev |-> tx[p].rev, live |-> TRUE]
             old == ByName(tx[p].name)
  <1>1. /\ tx[p] \in Frame /\ Locals(tx[p]) /\ WritesOnce(tx[p]) /\ tx[p].pc = "upsert"
        /\ ~NameHeld(p, tx[p].name)
    BY DEF ToursSafe, TypeOK, Upsert, At
  <1>2. row \in TourRow /\ row.name = tx[p].name
    BY <1>1 DEF Frame, Locals, TourRow, Stamps
  <1>3. UNCHANGED <<tours, facts, calls>>
    BY DEF Upsert, At
  <1>4. CASE \E t \in old : Finish(p, [tx[p] EXCEPT !.id = t, !.row = row], "Upserted")
    <2>1. PICK t \in old : Finish(p, [tx[p] EXCEPT !.id = t, !.row = row], "Upserted")
      BY <1>4
    <2>2. /\ t \in TourIds /\ tours[t] # NoRow /\ tours[t].name = row.name
          /\ \A s \in TourIds : Live(s) /\ tours[s].name = row.name => s = t
      BY <1>2, ByNameOne DEF Live
    <2> DEFINE f == [[[tx[p] EXCEPT !.id = t, !.row = row] EXCEPT !.done = "Upserted"]
                       EXCEPT !.pc = "commit"]
    <2>3. tx' = [tx EXCEPT ![p] = f]
      BY <2>1 DEF Finish, Goto
    <2>4. f \in Frame /\ f.row = row /\ f.id = t /\ f.pc = "commit" /\ f.adds = None /\ f.drops = {}
      BY <1>1, <1>2, <2>2 DEF Frame, Labels, Answers, WritesOnce
    <2> HIDE DEF f, row
    <2> QED
      BY <1>1, <1>2, <1>3, <2>2, <2>3, <2>4, NoRowAssumption, RowStep
  <1>5. CASE /\ old = {} /\ Unused # {}
             /\ Finish(p, [tx[p] EXCEPT !.id = NewId, !.row = row], "Upserted")
    <2>1. NewId \in TourIds /\ tours[NewId] = NoRow /\ \A q \in Procs : tx[q].id # NewId
      BY <1>5 DEF NewId, Unused
    <2>2. \A s \in TourIds : Live(s) /\ tours[s].name = row.name => s = NewId
      BY <1>2, <1>5 DEF ByName
    <2> DEFINE f == [[[tx[p] EXCEPT !.id = NewId, !.row = row] EXCEPT !.done = "Upserted"]
                       EXCEPT !.pc = "commit"]
    <2>3. tx' = [tx EXCEPT ![p] = f]
      BY <1>5 DEF Finish, Goto
    <2>4. f \in Frame /\ f.row = row /\ f.id = NewId /\ f.pc = "commit" /\ f.adds = None /\ f.drops = {}
      BY <1>1, <1>2, <2>1 DEF Frame, Labels, Answers, WritesOnce
    <2> HIDE DEF f, row
    <2> QED
      BY <1>1, <1>2, <1>3, <2>1, <2>2, <2>3, <2>4, NoRowAssumption, RowStep DEF Others
  <1> QED
    BY <1>4, <1>5 DEF Upsert

\* The deletion stamps the live row of its name.
LEMMA DeleteStep ==
    ASSUME ToursSafe, NEW p \in Procs, Delete(p)
    PROVE  ToursSafe'
  <1>1. tx[p] \in Frame /\ WritesOnce(tx[p]) /\ tx[p].pc = "delete" /\ UNCHANGED calls
    BY DEF ToursSafe, TypeOK, Delete, At
  <1>2. CASE Return(p, "TourNotFound")
    BY <1>1, <1>2, ReturnStep DEF Answers
  <1>3. CASE ~Return(p, "TourNotFound")
    <2>1. PICK t \in ByName(tx[p].name) :
            Finish(p, [tx[p] EXCEPT !.id = t, !.row = [tours[t] EXCEPT !.live = FALSE]], "Deleted")
      BY <1>3 DEF Delete
    <2>2. ~NameHeld(p, tx[p].name) /\ UNCHANGED <<tours, facts>>
      BY <1>3 DEF Delete
    <2> DEFINE row == [tours[t] EXCEPT !.live = FALSE]
    <2>3. /\ t \in TourIds /\ Live(t) /\ tours[t].name = tx[p].name /\ tours[t] \in TourRow
          /\ \A s \in TourIds : Live(s) /\ tours[s].name = tx[p].name => s = t
      BY ByNameOne
    <2>4. row \in TourRow /\ row.name = tx[p].name /\ tours[t] # NoRow
      BY <2>3, NoRowAssumption DEF TourRow
    <2> DEFINE f == [[[tx[p] EXCEPT !.id = t, !.row = row] EXCEPT !.done = "Deleted"]
                       EXCEPT !.pc = "commit"]
    <2>5. tx' = [tx EXCEPT ![p] = f]
      BY <2>1 DEF Finish, Goto
    <2>6. f \in Frame /\ f.row = row /\ f.id = t /\ f.pc = "commit" /\ f.adds = None /\ f.drops = {}
      BY <1>1, <2>3, <2>4 DEF Frame, Labels, Answers, WritesOnce
    <2> HIDE DEF f, row
    <2> QED
      BY <1>1, <2>2, <2>3, <2>4, <2>5, <2>6, NoRowAssumption, RowStep
  <1> QED
    BY <1>2, <1>3

\* The insert of a fact lands only where there is none, and no transaction has one pending.
LEMMA ConsumeInsertStep ==
    ASSUME ToursSafe, NEW p \in Procs, ConsumeInsert(p)
    PROVE  ToursSafe'
  <1> DEFINE g == <<tx[p].tour, tx[p].user>>
  <1>1. /\ tx[p] \in Frame /\ Locals(tx[p]) /\ WritesOnce(tx[p]) /\ tx[p].pc = "consume.insert"
        /\ UNCHANGED <<tours, facts, calls>> /\ ~FactHeld(p, g) /\ calls \in 0..MaxCalls
    BY DEF ToursSafe, TypeOK, ConsumeInsert, At
  <1>2. g \in Pairs
    BY <1>1 DEF Locals, Pairs
  <1>3. CASE facts[g] = None
    <2> DEFINE f == [[[tx[p] EXCEPT !.adds = g] EXCEPT !.done = "Consumed"] EXCEPT !.pc = "commit"]
    <2>1. tx' = [tx EXCEPT ![p] = f]
      BY <1>1, <1>3 DEF ConsumeInsert, Finish, Goto
    <2>2. /\ f \in Frame /\ f.row = NoRow /\ f.id = None /\ f.adds = g /\ f.drops = {}
          /\ f.pc = "commit"
      BY <1>1, <1>2 DEF Frame, Labels, Answers, WritesOnce
    <2>3. \A q \in Procs : tx'[q] = IF q = p THEN f ELSE tx[q]
      BY <2>1 DEF ToursSafe, TypeOK
    <2>4. TypeOK'
      BY <1>1, <2>1, <2>2 DEF ToursSafe, TypeOK
    <2> HIDE DEF f, g
    <2>5. \A q \in Procs : Locals(tx[q])' /\ WritesOnce(tx[q])' /\ KeepsName(tx[q])'
      BY <1>1, <2>2, <2>3 DEF ToursSafe, Locals, WritesOnce, KeepsName
    <2>6. NamesExclusive' /\ NamesUnique'
      BY <1>1, <2>2, <2>3 DEF ToursSafe, NamesExclusive, NamesUnique, Others, Live
    <2>7. FactsNew'
      BY <1>1, <1>3, <2>2, <2>3 DEF ToursSafe, FactsNew, FactHeld, Others
    <2> QED
      BY <2>4, <2>5, <2>6, <2>7 DEF ToursSafe
  <1>4. CASE facts[g] # None
    <2> DEFINE f == [tx[p] EXCEPT !.pc = "consume.select"]
    <2>1. tx' = [tx EXCEPT ![p] = f]
      BY <1>4 DEF ConsumeInsert, Goto
    <2>2. f \in Frame /\ Quiet(f)
      BY <1>1 DEF Frame, Labels, Quiet, Locals, WritesOnce
    <2> QED
      BY <1>1, <2>1, <2>2, QuietStep
  <1> QED
    BY <1>3, <1>4

\* The fact that the insert met is read, or gone.
LEMMA ConsumeSelectStep ==
    ASSUME ToursSafe, NEW p \in Procs, ConsumeSelect(p)
    PROVE  ToursSafe'
  <1>1. /\ tx[p] \in Frame /\ WritesOnce(tx[p]) /\ tx[p].pc = "consume.select"
        /\ UNCHANGED calls /\ calls \in 0..MaxCalls
    BY DEF ToursSafe, TypeOK, ConsumeSelect, At
  <1>2. CASE Return(p, "Db")
    BY <1>1, <1>2, ReturnStep DEF Answers
  <1>3. CASE Finish(p, tx[p], "AlreadyConsumed") /\ UNCHANGED <<tours, facts>>
    <2> DEFINE f == [[tx[p] EXCEPT !.done = "AlreadyConsumed"] EXCEPT !.pc = "commit"]
    <2>1. tx' = [tx EXCEPT ![p] = f]
      BY <1>3 DEF Finish, Goto
    <2>2. f \in Frame /\ Quiet(f)
      BY <1>1 DEF Frame, Labels, Answers, Quiet, Locals, WritesOnce
    <2> QED
      BY <1>1, <1>3, <2>1, <2>2, QuietStep
  <1> QED
    BY <1>2, <1>3 DEF ConsumeSelect

\* The reset drops facts of its own tour only.
LEMMA ResetDeleteStep ==
    ASSUME ToursSafe, NEW p \in Procs, ResetDelete(p)
    PROVE  ToursSafe'
  <1> DEFINE known == {g \in Pairs : g[1] = tx[p].tour /\ facts[g] # None}
             f == [[[tx[p] EXCEPT !.drops = known] EXCEPT !.done = "Reset"] EXCEPT !.pc = "commit"]
  <1>1. /\ tx[p] \in Frame /\ WritesOnce(tx[p]) /\ tx[p].pc = "reset.delete"
        /\ UNCHANGED <<tours, facts, calls>>
    BY DEF ToursSafe, TypeOK, ResetDelete, At
  <1>2. tx' = [tx EXCEPT ![p] = f]
    BY DEF ResetDelete, Finish, Goto
  <1>3. /\ f \in Frame /\ f.row = NoRow /\ f.id = None /\ f.adds = None /\ f.drops = known
        /\ f.pc = "commit" /\ f.done = "Reset" /\ f.tour = tx[p].tour
    BY <1>1 DEF Frame, Labels, Answers, WritesOnce
  <1>4. \A q \in Procs : tx'[q] = IF q = p THEN f ELSE tx[q]
    BY <1>2 DEF ToursSafe, TypeOK
  <1>5. TypeOK'
    BY <1>1, <1>2, <1>3 DEF ToursSafe, TypeOK
  <1>6. \A g \in known : g[1] = f.tour
    BY <1>3
  <1> HIDE DEF f, known
  <1>7. \A q \in Procs : Locals(tx[q])' /\ WritesOnce(tx[q])' /\ KeepsName(tx[q])'
    BY <1>1, <1>3, <1>4, <1>6 DEF ToursSafe, Locals, WritesOnce, KeepsName
  <1>8. NamesExclusive' /\ NamesUnique' /\ FactsNew'
    BY <1>1, <1>3, <1>4 DEF ToursSafe, NamesExclusive, NamesUnique, FactsNew, Others, Live
  <1> QED
    BY <1>5, <1>7, <1>8 DEF ToursSafe

\* What a transaction wrote becomes visible at once.
LEMMA CommitStep ==
    ASSUME ToursSafe, NEW p \in Procs, Commit(p)
    PROVE  ToursSafe'
  <1> DEFINE f == tx[p]
  <1>1. /\ f \in Frame /\ WritesOnce(f) /\ KeepsName(f) /\ f.pc = "commit" /\ UNCHANGED calls
        /\ tours \in [TourIds -> TourRow \cup {NoRow}] /\ facts \in [Pairs -> Stamps \cup {None}]
        /\ tx \in [Procs -> Frame] /\ calls \in 0..MaxCalls
    BY DEF ToursSafe, TypeOK, Commit, At
  <1>2. /\ Idle(f.done) \in Frame /\ Quiet(Idle(f.done))
        /\ \A q \in Procs : tx'[q] = IF q = p THEN Idle(f.done) ELSE tx[q]
        /\ tx' \in [Procs -> Frame]
    <2>1. f.done \in Answers
      BY <1>1 DEF Frame
    <2>2. Idle(f.done) \in Frame /\ Quiet(Idle(f.done))
      BY <2>1, IdleQuiet
    <2> QED
      BY <1>1, <2>2 DEF Commit
  <1>3. f.row # NoRow => f.id \in TourIds /\ f.row \in TourRow
    BY <1>1 DEF Frame, WritesOnce
  <1>4. \A t \in TourIds : tours'[t] = IF f.row # NoRow /\ t = f.id THEN f.row ELSE tours[t]
    BY <1>1, <1>3 DEF Commit
  <1>5. \A g \in Pairs : facts'[g] = IF g = f.adds THEN f.rev ELSE IF g \in f.drops THEN None ELSE facts[g]
    BY DEF Commit
  <1>6. TypeOK'
    <2>1. tours' \in [TourIds -> TourRow \cup {NoRow}]
      BY <1>1, <1>3 DEF Commit
    <2>2. facts' \in [Pairs -> Stamps \cup {None}]
      BY <1>1 DEF Commit, Frame
    <2> QED
      BY <1>1, <1>2, <2>1, <2>2 DEF TypeOK
  <1>7. ASSUME NEW q \in Procs
        PROVE  Locals(tx[q])' /\ WritesOnce(tx[q])' /\ KeepsName(tx[q])'
    <2>1. CASE q = p
      BY <1>2, <2>1 DEF Quiet, Locals, WritesOnce, KeepsName
    <2>2. CASE q # p
      <3>1. tx'[q] = tx[q] /\ Locals(tx[q]) /\ WritesOnce(tx[q]) /\ KeepsName(tx[q])
        BY <1>2, <2>2 DEF ToursSafe
      <3>2. ASSUME tx[q].row # NoRow
            PROVE  tx[q].id \in TourIds /\ tours'[tx[q].id] = tours[tx[q].id]
        <4>1. tx[q].id \in TourIds
          BY <1>1, <3>1, <3>2 DEF Frame, WritesOnce
        <4>2. f.row # NoRow => tx[q].id # f.id
          BY <2>2, <3>2 DEF ToursSafe, NamesExclusive, Others
        <4> QED
          BY <1>4, <4>1, <4>2
      <3> QED
        BY <3>1, <3>2 DEF Locals, WritesOnce, KeepsName
    <2> QED
      BY <2>1, <2>2
  <1>8. NamesUnique'
    <2>1. f.row # NoRow => \A t \in TourIds : Live(t) /\ tours[t].name = f.row.name => t = f.id
      BY DEF ToursSafe, NamesExclusive
    <2>2. NamesUnique
      BY DEF ToursSafe
    <2> QED
      BY <1>4, <2>1, <2>2 DEF NamesUnique, Live
  <1>9. NamesExclusive'
    <2> SUFFICES ASSUME NEW r \in Procs, tx'[r].row # NoRow
                 PROVE  /\ \A q \in Procs \ {r} : tx'[q].row # NoRow =>
                              tx'[q].row.name # tx'[r].row.name /\ tx'[q].id # tx'[r].id
                        /\ \A t \in TourIds : Live(t)' /\ tours'[t].name = tx'[r].row.name
                                                 => t = tx'[r].id
      BY DEF NamesExclusive, Others
    <2>1. r # p /\ tx'[r] = tx[r] /\ tx[r].row # NoRow
      BY <1>2 DEF Quiet
    <2>2. \A q \in Procs \ {r} : tx[q].row # NoRow =>
             tx[q].row.name # tx[r].row.name /\ tx[q].id # tx[r].id
      BY <2>1 DEF ToursSafe, NamesExclusive, Others
    <2>3. \A q \in Procs \ {r} : tx'[q].row # NoRow => tx'[q] = tx[q]
      BY <1>2 DEF Quiet
    <2>4. \A t \in TourIds : Live(t) /\ tours[t].name = tx[r].row.name => t = tx[r].id
      BY <2>1 DEF ToursSafe, NamesExclusive
    <2>5. f.row # NoRow => f.row.name # tx[r].row.name
      BY <2>1, <2>2
    <2>6. \A t \in TourIds : Live(t)' /\ tours'[t].name = tx[r].row.name => t = tx[r].id
      BY <1>4, <2>4, <2>5 DEF Live
    <2> QED
      BY <2>1, <2>2, <2>3, <2>6
  <1>10. FactsNew'
    <2> SUFFICES ASSUME NEW r \in Procs, tx'[r].adds # None
                 PROVE  /\ facts'[tx'[r].adds] = None
                        /\ \A q \in Procs \ {r} : tx'[q].adds # tx'[r].adds
      BY DEF FactsNew, Others
    <2>1. r # p /\ tx'[r] = tx[r] /\ tx[r].adds \in Pairs
      BY <1>1, <1>2 DEF Quiet, Frame
    <2>2. facts[tx[r].adds] = None /\ \A q \in Procs \ {r} : tx[q].adds # tx[r].adds
      BY <2>1 DEF ToursSafe, FactsNew, Others
    <2>3. \A q \in Procs \ {r} : tx'[q].adds # tx[r].adds
      BY <1>2, <2>1, <2>2 DEF Quiet
    <2> QED
      BY <1>5, <2>1, <2>2, <2>3
  <1> QED
    BY <1>6, <1>7, <1>8, <1>9, <1>10 DEF ToursSafe

\* The invariant holds of the table a run starts from.
LEMMA InitSafe == Init => ToursSafe
  <1> SUFFICES ASSUME Init PROVE ToursSafe
    OBVIOUS
  <1>1. \A p \in Procs : tx[p] = Idle("none")
    BY DEF Init
  <1>2. Idle("none") \in Frame /\ Quiet(Idle("none"))
    BY IdleQuiet DEF Answers
  <1>3. TypeOK
    <2>1. calls = MaxCalls
      BY DEF Init
    <2>2. tx \in [Procs -> Frame]
      BY <1>2 DEF Init
    <2>3. 0 \in Stamps /\ \A n \in Names : [name |-> n, rev |-> 0, live |-> TRUE] \in TourRow
      BY MaxCallsAssumption DEF Stamps, TourRow
    <2>4. tours \in [TourIds -> TourRow \cup {NoRow}] /\ facts \in [Pairs -> Stamps \cup {None}]
      BY <2>3, Zenon DEF Init
    <2> QED
      BY <2>1, <2>2, <2>4, MaxCallsAssumption DEF TypeOK
  <1>4. \A p \in Procs : Locals(tx[p]) /\ WritesOnce(tx[p]) /\ KeepsName(tx[p])
    BY <1>1, <1>2 DEF Quiet, Locals, WritesOnce, KeepsName
  <1>5. NamesExclusive /\ FactsNew
    BY <1>1, <1>2 DEF Quiet, NamesExclusive, FactsNew
  <1>6. NamesUnique
    BY DEF Init, NamesUnique, Live
  <1> QED
    BY <1>3, <1>4, <1>5, <1>6 DEF ToursSafe

\* Every step of every request keeps the invariant.
LEMMA NextSafe == ToursSafe /\ [Next]_vars => ToursSafe'
  <1> SUFFICES ASSUME ToursSafe, [Next]_vars PROVE ToursSafe'
    OBVIOUS
  <1>1. CASE Next
    <2>1. PICK p \in Procs : Begin(p) \/ Step(p) \/ Lost(p)
      BY <1>1 DEF Next
    <2>2. CASE Lost(p)
      BY <2>2, ReturnStep DEF Lost, Answers
    <2> QED
      BY <2>1, <2>2, BeginStep, UpsertStep, DeleteStep, LoadStep, ConsumeInsertStep,
         ConsumeSelectStep, ResetDeleteStep, CommitStep DEF Step
  <1>2. CASE UNCHANGED vars
    BY <1>2 DEF vars, ToursSafe, TypeOK, Locals, WritesOnce, KeepsName, NamesExclusive,
                NamesUnique, FactsNew, Others, Live
  <1> QED
    BY <1>1, <1>2

\* The inductive invariant holds in every behaviour.
LEMMA Safe == FairSpec => []ToursSafe
  BY InitSafe, NextSafe, PTL DEF FairSpec

\* One live definition per name, whichever open transactions commit: the upsert's conflict
\* target and the row locks keep the names apart, for any number of requests.
THEOREM OneTourPerName == FairSpec => []ToursInv
  <1>1. ToursSafe => ToursInv
    <2> SUFFICES ASSUME ToursSafe PROVE ToursInv
      OBVIOUS
    <2> DEFINE versions(i) == {tours[i]} \cup {tx[q].row : q \in {x \in Procs : tx[x].id = i}}
    <2>1. ASSUME NEW s \in TourIds, NEW t \in TourIds, s # t,
                 NEW a \in versions(s), NEW b \in versions(t),
                 a # NoRow, b # NoRow, a.live, b.live, a.name = b.name
          PROVE  FALSE
      <3>1. a = tours[s] \/ \E q \in Procs : tx[q].id = s /\ a = tx[q].row
        OBVIOUS
      <3>2. b = tours[t] \/ \E q \in Procs : tx[q].id = t /\ b = tx[q].row
        OBVIOUS
      <3>3. CASE a = tours[s] /\ b = tours[t]
        BY <2>1, <3>3 DEF ToursSafe, NamesUnique, Live
      <3>4. CASE a = tours[s] /\ \E q \in Procs : tx[q].id = t /\ b = tx[q].row
        BY <2>1, <3>4 DEF ToursSafe, NamesExclusive, Live
      <3>5. CASE b = tours[t] /\ \E q \in Procs : tx[q].id = s /\ a = tx[q].row
        BY <2>1, <3>5 DEF ToursSafe, NamesExclusive, Live
      <3>6. CASE /\ \E q \in Procs : tx[q].id = s /\ a = tx[q].row
                 /\ \E q \in Procs : tx[q].id = t /\ b = tx[q].row
        BY <2>1, <3>6 DEF ToursSafe, NamesExclusive, Others
      <3> QED
        BY <3>1, <3>2, <3>3, <3>4, <3>5, <3>6
    <2> QED
      BY <2>1 DEF ToursInv, ToursSafe, TypeOK
  <1> QED
    BY <1>1, Safe, PTL

\* A recorded fact changes only when a reset of its tour commits.
LEMMA FactsStep ==
    ASSUME ToursSafe, [Next]_vars, NEW g \in Pairs, facts[g] # None, facts'[g] # facts[g]
    PROVE  facts'[g] = None /\ \E p \in Procs : Commits(p, "Reset") /\ tx[p].tour = g[1]
  <1>1. PICK p \in Procs : Commit(p)
    BY DEF Next, vars, Begin, Lost, Return, Step, Upsert, Delete, ConsumeLoad, ResetLoad, Load,
           ConsumeInsert, ConsumeSelect, ResetDelete
  <1>2. tx[p] \in Frame /\ tx \in [Procs -> Frame] /\ WritesOnce(tx[p])
    BY DEF ToursSafe, TypeOK
  <1>3. facts'[g] = IF g = tx[p].adds THEN tx[p].rev
                    ELSE IF g \in tx[p].drops THEN None ELSE facts[g]
    BY <1>1 DEF Commit
  <1>4. g # tx[p].adds
    BY NoneAssumption DEF ToursSafe, FactsNew
  <1>5. g \in tx[p].drops /\ facts'[g] = None
    BY <1>3, <1>4
  <1>6. tx[p].done = "Reset" /\ tx[p].tour = g[1]
    BY <1>2, <1>5 DEF WritesOnce
  <1>7. Commits(p, "Reset")
    BY <1>1, <1>2, <1>6 DEF Commit, Commits, At
  <1> QED
    BY <1>5, <1>6, <1>7

\* "Reporting the ORIGINAL timestamp": no repeat, upsert or deletion rewrites a consumption.
THEOREM FactsOnlyReset == FairSpec => FactsStand
  <1>1. ToursSafe /\ [Next]_vars =>
          [\A f \in Pairs : (facts[f] # None /\ facts'[f] # facts[f]) =>
             facts'[f] = None /\ \E p \in Procs : Commits(p, "Reset") /\ tx[p].tour = f[1]]_vars
    BY FactsStep
  <1> QED
    BY <1>1, Safe, PTL DEF FairSpec, FactsStand, Commits
=============================================================================
