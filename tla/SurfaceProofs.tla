---------------------------- MODULE SurfaceProofs ----------------------------
(***************************************************************************)
(* The two HTTP surfaces, each a specification of its own: what an officer *)
(* call leaves in the row, the log and the trail (Officer), and what the   *)
(* anonymous reads say of the rows (Public), for any number of requests,   *)
(* rows and edits between two of their statements.                         *)
(***************************************************************************)
EXTENDS Officer, Public, TLAPS, FiniteSetTheorems, WellFoundedInduction

(***************************************************************************)
(* The officer routes.  `Books` relates each call to the log, the changes  *)
(* that committed and the audit trail.                                     *)
(***************************************************************************)

-----------------------------------------------------------------------------
(* What each verb answers and where its entry is written. *)

Codes == {200, 201, 204}
Positions == {"tx", "pool", "none"}

\* A gathered table holds nothing but what its parts hold.
LEMMA GatheredValues ==
    ASSUME NEW S, NEW V, \A r \in S : \A x \in DOMAIN r : r[x] \in V
    PROVE  \A x \in DOMAIN Gathered(S) : Gathered(S)[x] \in V
  <1> SUFFICES ASSUME NEW x \in DOMAIN Gathered(S)
               PROVE  Gathered(S)[x] \in V
    OBVIOUS
  <1>1. x \in UNION {DOMAIN r : r \in S}
    BY DEF Gathered
  <1>2. PICK t : t = CHOOSE r \in S : x \in DOMAIN r
    OBVIOUS
  <1>3. t \in S /\ x \in DOMAIN t
    BY <1>1, <1>2
  <1>4. Gathered(S)[x] = t[x]
    BY <1>1, <1>2 DEF Gathered
  <1> QED
    BY <1>3, <1>4

\* Every verb that is served answers in the two hundreds.
LEMMA VerbCodes == \A v \in DOMAIN Verbs : Verbs[v] \in Codes
  <1> DEFINE S == {WebsiteVerbs, PageWrites, PageVerbs, MenuVerbs, RedirectVerbs, VisitorVerbs,
                   TourVerbs}
  <1>1. \A r \in S : \A x \in DOMAIN r : r[x] \in Codes
    BY DEF WebsiteVerbs, PageWrites, PageVerbs, MenuVerbs, RedirectVerbs, VisitorVerbs, TourVerbs,
           Codes
  <1>2. Verbs = Gathered(S)
    BY DEF Verbs
  <1> HIDE DEF S
  <1> QED
    BY <1>1, <1>2, GatheredValues

\* Every verb has its place for the entry.
LEMMA VerbPositions == \A v \in DOMAIN Verbs : Audits[v] \in Positions
  <1> DEFINE S == {WebsiteAudit, PageAudit, VersionAudit, MenuAudit, RedirectAudit, MergeAudit,
                   SweepAudit, TourAudit}
  <1>1. \A r \in S : \A x \in DOMAIN r : r[x] \in Positions
    BY DEF WebsiteAudit, PageAudit, VersionAudit, MenuAudit, RedirectAudit, MergeAudit,
           SweepAudit, TourAudit, Positions
  <1>2. Audits = Gathered(S)
    BY DEF Audits
  <1>3. \A v \in DOMAIN Audits : Audits[v] \in Positions
    <2> HIDE DEF S
    <2> QED
      BY <1>1, <1>2, GatheredValues
  <1>4. DOMAIN Audits = UNION {DOMAIN r : r \in S}
    BY <1>2 DEF Gathered
  <1>5. DOMAIN Verbs = UNION {DOMAIN r : r \in {WebsiteVerbs, PageWrites, PageVerbs, MenuVerbs,
                                               RedirectVerbs, VisitorVerbs, TourVerbs}}
    BY DEF Gathered, Verbs
  <1>6. DOMAIN Verbs \subseteq DOMAIN Audits
    BY <1>4, <1>5 DEF WebsiteAudit, PageAudit, VersionAudit, MenuAudit, RedirectAudit, MergeAudit,
           SweepAudit, TourAudit, WebsiteVerbs, PageWrites, PageVerbs, MenuVerbs, RedirectVerbs,
           VisitorVerbs, TourVerbs
  <1> QED
    BY <1>3, <1>6

-----------------------------------------------------------------------------
(* The inductive invariant.  A call that is open holds its number alone:   *)
(* what the log, the store and the trail say of that number is what the    *)
(* request has done so far.                                                *)

Labels == {"idle", "handler", "refusal", "write", "audit"}
VerbNames == DOMAIN Verbs \cup {"none"}
Bodies == {<< >>} \cup UNION {[D -> Kinds] : D \in SUBSET Columns(E)}
Frame == [pc : Labels, n : 0..MaxCalls, verb : VerbNames, body : Bodies]

\* What AnswersTellTheStore says of one call.
Told(n, l, st, tr) ==
    /\ l.hundreds = 2 => n \in st /\ (Audits[l.verb] # "none" => <<n, "done">> \in tr)
    /\ l.hundreds = 4 => n \notin st /\ <<n, "done">> \notin tr
    /\ <<n, "done">> \in tr => n \in st
    /\ <<n, "refused">> \in tr => n \notin st
    /\ n \in st /\ Audits[l.verb] = "tx" => <<n, "done">> \in tr

\* Nothing was said or done for the number yet.
Untold(n, l, st, tr) ==
    l.hundreds = 0 /\ n \notin st /\ <<n, "done">> \notin tr /\ <<n, "refused">> \notin tr

\* An open call, at its label.
CallFits(f, lg, st, tr, k) ==
    f.pc # "idle" =>
      /\ f.n \in k + 1 .. MaxCalls /\ f.verb \in DOMAIN Verbs
      /\ lg[f.n] = [verb |-> f.verb, hundreds |-> 0]
      /\ <<f.n, "done">> \notin tr /\ <<f.n, "refused">> \notin tr
      /\ IF f.pc = "audit" THEN f.n \in st /\ Position(f.verb) = "pool" ELSE f.n \notin st

\* Column verbs are those of the hand tables; a patch that is written names no forbidden column.
VerbFits(f, t) ==
    /\ f.verb \in ColumnVerbs => t \in HandTables
    /\ (f.pc = "write" /\ f.verb \in {PatchVerb[x] : x \in HandTables})
         => DOMAIN f.body \cap Body[t].forbidden = {}

Typed ==
    /\ table \in Tables /\ calls \in 0..MaxCalls
    /\ tx \in [Procs -> Frame]
    /\ log \in [1..MaxCalls -> [verb : VerbNames, hundreds : Nat]]

Books ==
    /\ \A p \in Procs : CallFits(tx[p], log, stored, trail, calls)
    /\ \A p, q \in Procs : (p # q /\ tx[p].pc # "idle" /\ tx[q].pc # "idle") => tx[p].n # tx[q].n
    /\ \A n \in 1..calls : Untold(n, log[n], stored, trail)
    /\ \A n \in 1..MaxCalls : Told(n, log[n], stored, trail)

Safe == Typed /\ Books /\ \A p \in Procs : VerbFits(tx[p], table)

-----------------------------------------------------------------------------
\* The fields of a frame.
LEMMA FrameFields ==
    ASSUME NEW f \in Frame
    PROVE  f.pc \in Labels /\ f.n \in 0..MaxCalls /\ f.verb \in VerbNames /\ f.body \in Bodies
  BY DEF Frame

\* The idle frame is a frame with nothing open.
LEMMA IdleFits ==
    /\ Idle \in Frame /\ Idle.pc = "idle"
    /\ \A lg, st, tr, k : CallFits(Idle, lg, st, tr, k)
    /\ \A t : VerbFits(Idle, t)
  <1>1. Idle \in Frame /\ Idle.pc = "idle" /\ Idle.verb = "none"
    BY MaxCallsAssumption DEF Idle, Frame, Labels, VerbNames, Bodies
  <1>2. "none" \notin ColumnVerbs /\ "none" \notin {PatchVerb[x] : x \in HandTables}
    BY DEF ColumnVerbs, HandTables, PatchVerb, CreateVerb
  <1> QED
    BY <1>1, <1>2 DEF CallFits, VerbFits

\* The verbs of the hand tables are verbs.
LEMMA ColumnVerbsAreVerbs == ColumnVerbs \subseteq DOMAIN Verbs
  <1>1. ColumnVerbs \subseteq DOMAIN WebsiteVerbs \cup DOMAIN PageWrites \cup DOMAIN MenuVerbs
                               \cup DOMAIN RedirectVerbs
    BY DEF ColumnVerbs, HandTables, PatchVerb, CreateVerb, WebsiteVerbs, PageWrites, MenuVerbs,
           RedirectVerbs
  <1>2. DOMAIN Verbs = UNION {DOMAIN r : r \in {WebsiteVerbs, PageWrites, PageVerbs, MenuVerbs,
                                               RedirectVerbs, VisitorVerbs, TourVerbs}}
    BY DEF Gathered, Verbs
  <1> QED
    BY <1>1, <1>2

\* A request that does something for its own number, and says what it did, keeps the books.
LEMMA Touches ==
    ASSUME Safe, NEW p \in Procs, tx[p].pc # "idle", NEW f \in Frame,
           tx' = [tx EXCEPT ![p] = f], f.pc # "idle" => f.n = tx[p].n,
           NEW h \in Nat, log' = [log EXCEPT ![tx[p].n].hundreds = h],
           stored' \in {stored, stored \cup {tx[p].n}},
           trail' \in {trail, trail \cup {<<tx[p].n, "done">>}, trail \cup {<<tx[p].n, "refused">>}},
           calls' = calls, table' = table,
           CallFits(f, log', stored', trail', calls), VerbFits(f, table),
           Told(tx[p].n, [verb |-> tx[p].verb, hundreds |-> h], stored', trail')
    PROVE  Safe'
  <1>1. PICK e \in Frame : e = tx[p]
    BY DEF Safe, Typed
  <1>2. e.n \in calls + 1 .. MaxCalls /\ e.verb \in DOMAIN Verbs /\ log[e.n] = [verb |-> e.verb, hundreds |-> 0]
    BY <1>1 DEF Safe, Books, CallFits
  <1>3. calls \in 0..MaxCalls /\ tx \in [Procs -> Frame] /\ table \in Tables
        /\ log \in [1..MaxCalls -> [verb : VerbNames, hundreds : Nat]]
    BY DEF Safe, Typed
  <1>4. e.n \in 1..MaxCalls
    BY <1>2, <1>3, MaxCallsAssumption
  <1>5. log' = [log EXCEPT ![e.n] = [log[e.n] EXCEPT !.hundreds = h]]
    BY <1>1, <1>3, <1>4
  <1>6. [log[e.n] EXCEPT !.hundreds = h] = [verb |-> e.verb, hundreds |-> h]
    BY <1>2
  <1>7. /\ log' \in [1..MaxCalls -> [verb : VerbNames, hundreds : Nat]]
        /\ log'[e.n] = [verb |-> e.verb, hundreds |-> h]
        /\ \A n \in 1..MaxCalls \ {e.n} : log'[n] = log[n]
    <2>1. PICK l \in [verb : VerbNames, hundreds : Nat] : l = [verb |-> e.verb, hundreds |-> h]
      BY <1>2 DEF VerbNames
    <2>2. log' = [log EXCEPT ![e.n] = l]
      BY <1>5, <1>6, <2>1
    <2>3. PICK T : T = [verb : VerbNames, hundreds : Nat]
      OBVIOUS
    <2>4. log \in [1..MaxCalls -> T] /\ l \in T
      BY <1>3, <2>1, <2>3
    <2>5. /\ log' \in [1..MaxCalls -> T] /\ log'[e.n] = l
          /\ \A n \in 1..MaxCalls \ {e.n} : log'[n] = log[n]
      BY <1>4, <2>2, <2>4
    <2> QED
      BY <2>1, <2>3, <2>5
  <1>8. /\ tx' \in [Procs -> Frame] /\ tx'[p] = f /\ \A q \in Procs \ {p} : tx'[q] = tx[q]
    BY <1>3
  <1>9. Typed'
    BY <1>3, <1>7, <1>8 DEF Typed, Frame, Bodies, E
  <1>10. \A n : n # e.n => /\ n \in stored' <=> n \in stored
                           /\ \A x : <<n, x>> \in trail' <=> <<n, x>> \in trail
    BY <1>1
  <1>11. ASSUME NEW q \in Procs \ {p}, tx[q].pc # "idle"
         PROVE  tx[q].n # e.n /\ tx[q].n \in 1..MaxCalls
    <2>1. tx[q].n # e.n
      BY <1>1, <1>11 DEF Safe, Books
    <2>2. tx[q].n \in calls + 1 .. MaxCalls
      BY <1>11 DEF Safe, Books, CallFits
    <2> QED
      BY <1>3, <2>1, <2>2, MaxCallsAssumption
  <1>12. ASSUME NEW q \in Procs
         PROVE  CallFits(tx'[q], log', stored', trail', calls')
    <2>1. CASE q = p
      BY <1>8, <2>1
    <2>2. CASE q # p
      <3>1. CallFits(tx[q], log, stored, trail, calls)
        BY DEF Safe, Books
      <3> QED
        BY <1>7, <1>8, <1>10, <1>11, <2>2, <3>1 DEF CallFits
    <2> QED
      BY <2>1, <2>2
  <1>13. ASSUME NEW q \in Procs, NEW r \in Procs, q # r, tx'[q].pc # "idle", tx'[r].pc # "idle"
         PROVE  tx'[q].n # tx'[r].n
    <2>1. CASE q = p
      BY <1>1, <1>8, <1>11, <1>13, <2>1
    <2>2. CASE r = p
      BY <1>1, <1>8, <1>11, <1>13, <2>2
    <2>3. CASE q # p /\ r # p
      BY <1>8, <1>13, <2>3 DEF Safe, Books
    <2> QED
      BY <2>1, <2>2, <2>3
  <1>14. ASSUME NEW n \in 1..calls'
         PROVE  Untold(n, log'[n], stored', trail')
    <2>1. n # e.n /\ n \in 1..MaxCalls /\ n \in 1..calls
      BY <1>2, <1>3, MaxCallsAssumption
    <2>2. Untold(n, log[n], stored, trail)
      BY <2>1 DEF Safe, Books
    <2> QED
      BY <1>7, <1>10, <2>1, <2>2 DEF Untold
  <1>15. ASSUME NEW n \in 1..MaxCalls
         PROVE  Told(n, log'[n], stored', trail')
    <2>1. CASE n = e.n
      BY <1>1, <1>7, <2>1
    <2>2. CASE n # e.n
      <3>1. Told(n, log[n], stored, trail)
        BY DEF Safe, Books
      <3> QED
        BY <1>7, <1>10, <2>2, <3>1 DEF Told
    <2> QED
      BY <2>1, <2>2
  <1>16. \A q \in Procs : VerbFits(tx'[q], table')
    BY <1>8 DEF Safe
  <1> QED
    BY <1>9, <1>12, <1>13, <1>14, <1>15, <1>16 DEF Safe, Books

-----------------------------------------------------------------------------
(* The steps of a request. *)

\* A new call takes the next number, of which nothing was said.
LEMMA CallKeeps ==
    ASSUME Safe, NEW p \in Procs, NEW verb \in DOMAIN Verbs, NEW body \in Bodies,
           verb \in ColumnVerbs => table \in HandTables, Call(p, verb, body)
    PROVE  Safe'
  <1>1. /\ tx[p].pc = "idle" /\ calls > 0 /\ calls' = calls - 1 /\ UNCHANGED <<table, stored, trail>>
        /\ log' = [log EXCEPT ![calls] = [verb |-> verb, hundreds |-> 0]]
        /\ tx' = [tx EXCEPT ![p] = [pc |-> "handler", n |-> calls, verb |-> verb, body |-> body]]
    BY DEF Call
  <1>2. calls \in 0..MaxCalls /\ tx \in [Procs -> Frame] /\ table \in Tables
        /\ log \in [1..MaxCalls -> [verb : VerbNames, hundreds : Nat]]
    BY DEF Safe, Typed
  <1>3. calls \in 1..MaxCalls /\ calls' \in 0..MaxCalls /\ calls \in calls' + 1 .. MaxCalls
    BY <1>1, <1>2, MaxCallsAssumption
  <1>4. PICK f : f = [pc |-> "handler", n |-> calls, verb |-> verb, body |-> body]
    OBVIOUS
  <1>5. f \in Frame /\ f.pc = "handler" /\ f.n = calls /\ f.verb = verb
    BY <1>2, <1>4 DEF Frame, Labels, VerbNames
  <1>6. PICK l \in [verb : VerbNames, hundreds : Nat] : l = [verb |-> verb, hundreds |-> 0]
    BY DEF VerbNames
  <1>7. PICK T : T = [verb : VerbNames, hundreds : Nat]
    OBVIOUS
  <1>8. /\ log' \in [1..MaxCalls -> T] /\ log'[calls] = l
        /\ \A n \in 1..MaxCalls \ {calls} : log'[n] = log[n]
    <2>1. log \in [1..MaxCalls -> T] /\ l \in T
      BY <1>2, <1>6, <1>7
    <2> QED
      BY <1>1, <1>3, <1>6, <2>1
  <1>9. tx' \in [Procs -> Frame] /\ tx'[p] = f /\ \A q \in Procs \ {p} : tx'[q] = tx[q]
    BY <1>1, <1>2, <1>4, <1>5
  <1>10. Typed'
    BY <1>1, <1>2, <1>3, <1>7, <1>8, <1>9 DEF Typed, Frame, Bodies, E
  <1>11. Untold(calls, log[calls], stored, trail)
    BY <1>1, <1>2 DEF Safe, Books
  <1>12. ASSUME NEW q \in Procs \ {p}, tx[q].pc # "idle"
         PROVE  tx[q].n # calls /\ tx[q].n \in 1..MaxCalls /\ tx[q].n \in calls + 1 .. MaxCalls
    <2>1. tx[q].n \in calls + 1 .. MaxCalls
      BY <1>12 DEF Safe, Books, CallFits
    <2> QED
      BY <1>2, <2>1, MaxCallsAssumption
  <1>13. ASSUME NEW q \in Procs
         PROVE  CallFits(tx'[q], log', stored', trail', calls')
    <2>1. CASE q = p
      BY <1>1, <1>3, <1>5, <1>6, <1>8, <1>9, <1>11, <2>1 DEF CallFits, Untold
    <2>2. CASE q # p /\ tx[q].pc # "idle"
      <3>1. CallFits(tx[q], log, stored, trail, calls)
        BY DEF Safe, Books
      <3>2. tx[q].n \in calls' + 1 .. MaxCalls
        BY <1>1, <1>2, <1>12, <2>2, MaxCallsAssumption
      <3> QED
        BY <1>1, <1>8, <1>9, <1>12, <2>2, <3>1, <3>2 DEF CallFits
    <2>3. CASE q # p /\ tx[q].pc = "idle"
      BY <1>9, <2>3 DEF CallFits
    <2> QED
      BY <2>1, <2>2, <2>3
  <1>14. ASSUME NEW q \in Procs, NEW r \in Procs, q # r, tx'[q].pc # "idle", tx'[r].pc # "idle"
         PROVE  tx'[q].n # tx'[r].n
    <2>1. CASE q = p
      BY <1>5, <1>9, <1>12, <1>14, <2>1
    <2>2. CASE r = p
      BY <1>5, <1>9, <1>12, <1>14, <2>2
    <2>3. CASE q # p /\ r # p
      BY <1>9, <1>14, <2>3 DEF Safe, Books
    <2> QED
      BY <2>1, <2>2, <2>3
  <1>15. ASSUME NEW n \in 1..calls'
         PROVE  Untold(n, log'[n], stored', trail')
    <2>1. n # calls /\ n \in 1..MaxCalls /\ n \in 1..calls
      BY <1>1, <1>2, MaxCallsAssumption
    <2>2. Untold(n, log[n], stored, trail)
      BY <2>1 DEF Safe, Books
    <2> QED
      BY <1>1, <1>8, <2>1, <2>2 DEF Untold
  <1>16. ASSUME NEW n \in 1..MaxCalls
         PROVE  Told(n, log'[n], stored', trail')
    <2>1. CASE n = calls
      BY <1>1, <1>6, <1>8, <1>11, <2>1 DEF Told, Untold
    <2>2. CASE n # calls
      <3>1. Told(n, log[n], stored, trail)
        BY DEF Safe, Books
      <3> QED
        BY <1>1, <1>8, <2>2, <3>1
    <2> QED
      BY <2>1, <2>2
  <1>17. ASSUME NEW q \in Procs
         PROVE  VerbFits(tx'[q], table')
    <2>1. CASE q = p
      BY <1>1, <1>5, <1>9, <2>1 DEF VerbFits
    <2>2. CASE q # p
      BY <1>1, <1>9, <2>2 DEF Safe
    <2> QED
      BY <2>1, <2>2
  <1> QED
    BY <1>10, <1>13, <1>14, <1>15, <1>16, <1>17 DEF Safe, Books

\* What is known of an open call.
LEMMA OpenCall ==
    ASSUME Safe, NEW p \in Procs, tx[p].pc # "idle"
    PROVE  /\ tx[p] \in Frame /\ tx[p].n \in 1..MaxCalls /\ tx[p].verb \in DOMAIN Verbs
           /\ CallFits(tx[p], log, stored, trail, calls) /\ VerbFits(tx[p], table)
           /\ log \in [1..MaxCalls -> [verb : VerbNames, hundreds : Nat]]
           /\ log[tx[p].n] = [verb |-> tx[p].verb, hundreds |-> 0]
  <1>1. tx[p] \in Frame /\ calls \in 0..MaxCalls
        /\ log \in [1..MaxCalls -> [verb : VerbNames, hundreds : Nat]]
    BY DEF Safe, Typed
  <1>2. CallFits(tx[p], log, stored, trail, calls) /\ VerbFits(tx[p], table)
    BY DEF Safe, Books
  <1>3. tx[p].n \in calls + 1 .. MaxCalls /\ tx[p].verb \in DOMAIN Verbs
        /\ log[tx[p].n] = [verb |-> tx[p].verb, hundreds |-> 0]
    BY <1>2 DEF CallFits
  <1> QED
    BY <1>1, <1>2, <1>3, MaxCallsAssumption

\* The hundreds of a status.
LEMMA Hundreds ==
    /\ \A s \in Codes : s \div 100 = 2
    /\ \A s \in Refusals : s \div 100 = 4
    /\ Internal \div 100 = 5
    /\ \A v : AuditFailed(v) \div 100 = 5
  BY DEF Codes, Refusals, Internal, AuditFailed

\* A request that answers without having stored anything.
LEMMA Refuses ==
    ASSUME Safe, NEW p \in Procs, tx[p].pc # "idle", tx[p].pc # "audit",
           NEW status \in Refusals \cup {Internal}, Answer(p, status),
           UNCHANGED <<table, calls, stored>>,
           trail' \in {trail, trail \cup {<<tx[p].n, "refused">>}}
    PROVE  Safe'
  <1>1. PICK h \in {4, 5} : h = status \div 100
    BY Hundreds
  <1>2. tx' = [tx EXCEPT ![p] = Idle] /\ log' = [log EXCEPT ![tx[p].n].hundreds = h]
    BY <1>1 DEF Answer
  <1>3. CallFits(tx[p], log, stored, trail, calls)
    BY OpenCall
  <1>4. Told(tx[p].n, [verb |-> tx[p].verb, hundreds |-> h], stored', trail')
    <2>1. tx[p].n \notin stored /\ <<tx[p].n, "done">> \notin trail
      BY <1>3 DEF CallFits
    <2>2. <<tx[p].n, "done">> \notin trail'
      BY <2>1
    <2> QED
      BY <1>1, <2>1, <2>2 DEF Told
  <1>5. /\ Idle.pc = "idle" /\ Idle \in Frame /\ CallFits(Idle, log', stored', trail', calls)
        /\ VerbFits(Idle, table)
    BY IdleFits
  <1>6. /\ stored' \in {stored, stored \cup {tx[p].n}} /\ calls' = calls /\ table' = table
        /\ trail' \in {trail, trail \cup {<<tx[p].n, "done">>}, trail \cup {<<tx[p].n, "refused">>}}
    OBVIOUS
  <1> QED
    BY <1>1, <1>2, <1>4, <1>5, <1>6, Touches

\* A request that goes on to another label, having told nobody anything.
LEMMA GoesOn ==
    ASSUME Safe, NEW p \in Procs, tx[p].pc # "idle", NEW label \in Labels \ {"idle"}, Goto(p, label),
           UNCHANGED <<table, calls>>,
           NEW f, f = [tx[p] EXCEPT !.pc = label], VerbFits(f, table),
           stored' \in {stored, stored \cup {tx[p].n}}, trail' = trail,
           IF label = "audit" THEN tx[p].n \in stored' /\ Position(tx[p].verb) = "pool"
           ELSE tx[p].n \notin stored'
    PROVE  Safe'
  <1>1. /\ tx[p] \in Frame /\ tx[p].n \in 1..MaxCalls /\ tx[p].verb \in DOMAIN Verbs
        /\ CallFits(tx[p], log, stored, trail, calls)
        /\ log \in [1..MaxCalls -> [verb : VerbNames, hundreds : Nat]]
        /\ log[tx[p].n] = [verb |-> tx[p].verb, hundreds |-> 0]
    BY OpenCall
  <1>2. PICK e \in Frame : e = tx[p]
    BY <1>1
  <1>3. f \in Frame /\ f.pc = label /\ f.n = e.n /\ f.verb = e.verb
    BY <1>2 DEF Frame
  <1>4. tx' = [tx EXCEPT ![p] = f]
    BY DEF Goto
  <1>5. log' = [log EXCEPT ![e.n].hundreds = 0]
    <2>1. [log[e.n] EXCEPT !.hundreds = 0] = log[e.n]
      BY <1>1, <1>2
    <2>2. [log EXCEPT ![e.n] = [log[e.n] EXCEPT !.hundreds = 0]] = log
      BY <1>1, <1>2, <2>1
    <2> QED
      BY <2>2 DEF Goto
  <1>6. CallFits(f, log', stored', trail', calls)
    BY <1>1, <1>2, <1>3 DEF CallFits, Goto
  <1>7. Told(e.n, [verb |-> e.verb, hundreds |-> 0], stored', trail')
    <2>1. <<e.n, "done">> \notin trail' /\ <<e.n, "refused">> \notin trail'
      BY <1>1, <1>2 DEF CallFits
    <2>2. e.n \in stored' => Audits[e.verb] # "tx"
      BY <1>2 DEF Position
    <2> QED
      BY <2>1, <2>2 DEF Told
  <1>8. /\ f.pc # "idle" => f.n = tx[p].n
        /\ calls' = calls /\ table' = table
        /\ trail' \in {trail, trail \cup {<<tx[p].n, "done">>}, trail \cup {<<tx[p].n, "refused">>}}
    BY <1>2, <1>3
  <1> QED
    BY <1>2, <1>3, <1>4, <1>5, <1>6, <1>7, <1>8, Touches

\* A request that is answered after its change was stored: with a success only when the entry is
\* where it belongs.
LEMMA Finishes ==
    ASSUME Safe, NEW p \in Procs, tx[p].pc # "idle", NEW status \in Codes \cup {Internal},
           Answer(p, status), UNCHANGED <<table, calls>>, stored' = stored \cup {tx[p].n},
           trail' \in {trail, trail \cup {<<tx[p].n, "done">>}},
           (status \in Codes \/ Position(tx[p].verb) = "tx")
             => Position(tx[p].verb) = "none" \/ <<tx[p].n, "done">> \in trail'
    PROVE  Safe'
  <1>1. PICK h \in {2, 5} : h = status \div 100 /\ (h = 2 => status \in Codes)
    BY Hundreds DEF Codes, Internal
  <1>2. tx' = [tx EXCEPT ![p] = Idle] /\ log' = [log EXCEPT ![tx[p].n].hundreds = h]
    BY <1>1 DEF Answer
  <1>3. CallFits(tx[p], log, stored, trail, calls)
    BY OpenCall
  <1>4. Told(tx[p].n, [verb |-> tx[p].verb, hundreds |-> h], stored', trail')
    <2>1. tx[p].n \in stored' /\ <<tx[p].n, "refused">> \notin trail
      BY <1>3 DEF CallFits
    <2>2. <<tx[p].n, "refused">> \notin trail'
      BY <2>1
    <2>3. (h = 2 \/ Audits[tx[p].verb] = "tx")
            => Audits[tx[p].verb] = "none" \/ <<tx[p].n, "done">> \in trail'
      BY <1>1 DEF Position
    <2>4. h # 4
      BY <1>1
    <2> QED
      BY <2>1, <2>2, <2>3, <2>4 DEF Told
  <1>5. /\ Idle.pc = "idle" /\ Idle \in Frame /\ CallFits(Idle, log', stored', trail', calls)
        /\ VerbFits(Idle, table)
    BY IdleFits
  <1>6. /\ stored' \in {stored, stored \cup {tx[p].n}} /\ calls' = calls /\ table' = table
        /\ trail' \in {trail, trail \cup {<<tx[p].n, "done">>}, trail \cup {<<tx[p].n, "refused">>}}
    OBVIOUS
  <1> QED
    BY <1>1, <1>2, <1>4, <1>5, <1>6, Touches

\* The bodies that are tried are bodies.
LEMMA SinglesAreBodies ==
    ASSUME NEW body \in Singles
    PROVE  body \in Bodies
  <1>1. \A c : Values(c) \subseteq Kinds
    BY DEF Values, Kinds
  <1>2. ASSUME NEW c \in Columns(E), NEW v \in Values(c), body = [x \in {c} |-> v]
        PROVE  body \in Bodies
    <2>1. body \in [{c} -> Kinds] /\ {c} \in SUBSET Columns(E)
      BY <1>1, <1>2
    <2> QED
      BY <2>1 DEF Bodies
  <1>3. CASE body = << >>
    BY <1>3 DEF Bodies
  <1> QED
    BY <1>2, <1>3 DEF Singles

\* So are the whole ones.
LEMMA WholesAreBodies ==
    ASSUME NEW body \in Wholes
    PROVE  body \in Bodies
  <1>1. \A c : Values(c) \subseteq Kinds
    BY DEF Values, Kinds
  <1> DEFINE Whole == [c \in Columns(E) |-> "new"]
  <1>2. Whole \in [Columns(E) -> Kinds]
    BY DEF Kinds
  <1>3. ASSUME NEW d \in Columns(E), NEW v \in Values(d), body = [Whole EXCEPT ![d] = v]
        PROVE  body \in Bodies
    <2>1. body \in [Columns(E) -> Kinds]
      BY <1>1, <1>2, <1>3
    <2> QED
      BY <2>1 DEF Bodies
  <1>4. ASSUME NEW d \in Columns(E), body = [c \in Columns(E) \ {d} |-> "new"]
        PROVE  body \in Bodies
    <2>1. body \in [Columns(E) \ {d} -> Kinds] /\ Columns(E) \ {d} \in SUBSET Columns(E)
      BY <1>4 DEF Kinds
    <2> QED
      BY <2>1 DEF Bodies
  <1> DEFINE Odd == UNION {{[Whole EXCEPT ![d] = v] : v \in Values(d)} : d \in Columns(E)}
             Partial == {[c \in Columns(E) \ {d} |-> "new"] : d \in Columns(E)}
  <1>5. CASE body \in Odd
    <2>1. PICK d \in Columns(E) : body \in {[Whole EXCEPT ![d] = v] : v \in Values(d)}
      BY <1>5
    <2> HIDE DEF Whole
    <2> QED
      BY <1>3, <2>1
  <1>6. CASE body \in Partial
    <2>1. PICK d \in Columns(E) : body = [c \in Columns(E) \ {d} |-> "new"]
      BY <1>6, Zenon
    <2> QED
      BY <1>4, <2>1
  <1>7. Wholes = Partial \cup Odd
    BY DEF Wholes
  <1> HIDE DEF Odd, Partial
  <1> QED
    BY <1>5, <1>6, <1>7

\* Every request that begins.
LEMMA BeginKeeps ==
    ASSUME Safe, NEW p \in Procs, BeginPatch(p) \/ BeginCreate(p) \/ BeginEffect(p)
    PROVE  Safe'
  <1>1. CASE BeginPatch(p)
    <2>1. PICK body \in Singles : Call(p, PatchVerb[table], body) /\ table \in HandTables
      BY <1>1 DEF BeginPatch
    <2>2. PICK v : v = PatchVerb[table]
      OBVIOUS
    <2>3. v \in DOMAIN Verbs
      BY <2>1, <2>2, ColumnVerbsAreVerbs DEF ColumnVerbs
    <2> QED
      BY <2>1, <2>2, <2>3, SinglesAreBodies, CallKeeps
  <1>2. CASE BeginCreate(p)
    <2>1. PICK body \in Wholes : Call(p, CreateVerb[table], body) /\ table \in HandTables
      BY <1>2 DEF BeginCreate
    <2>2. PICK v : v = CreateVerb[table]
      OBVIOUS
    <2>3. v \in DOMAIN Verbs
      BY <2>1, <2>2, ColumnVerbsAreVerbs DEF ColumnVerbs
    <2> QED
      BY <2>1, <2>2, <2>3, WholesAreBodies, CallKeeps
  <1>3. CASE BeginEffect(p)
    <2>1. PICK v \in Effects : Call(p, v, << >>)
      BY <1>3 DEF BeginEffect
    <2>2. v \in DOMAIN Verbs /\ v \notin ColumnVerbs /\ << >> \in Bodies
      BY DEF Effects, Bodies
    <2> QED
      BY <2>1, <2>2, CallKeeps
  <1> QED
    BY <1>1, <1>2, <1>3

\* The handler refuses, or goes on with a body that names no forbidden column.
LEMMA HandleKeeps ==
    ASSUME Safe, NEW p \in Procs, Handle(p)
    PROVE  Safe'
  <1> DEFINE Fenced == DOMAIN tx[p].body \cap Body[table].forbidden # {}
  <1>1. tx[p].pc = "handler" /\ UNCHANGED <<table, calls, stored, trail>>
    BY DEF Handle, At, StoreKept
  <1>2. \/ Goto(p, "refusal")
        \/ Answer(p, 422) \/ Answer(p, 400)
        \/ IsPatch(p) /\ ~Fenced /\ Goto(p, "write")
        \/ ~IsPatch(p) /\ Goto(p, "write")
    BY DEF Handle
  <1>3. /\ tx[p] \in Frame /\ CallFits(tx[p], log, stored, trail, calls) /\ VerbFits(tx[p], table)
    BY <1>1, OpenCall
  <1>4. tx[p].n \notin stored
    BY <1>1, <1>3 DEF CallFits
  <1>5. PICK e \in Frame : e = tx[p]
    BY <1>3
  <1>6. CASE Answer(p, 422) \/ Answer(p, 400)
    <2>1. 422 \in Refusals /\ 400 \in Refusals
      BY DEF Refusals
    <2> QED
      BY <1>1, <1>6, <2>1, Refuses
  <1>7. CASE Goto(p, "refusal")
    <2>1. PICK f : f = [e EXCEPT !.pc = "refusal"]
      OBVIOUS
    <2>2. f.pc = "refusal" /\ f.verb = e.verb
      BY <2>1 DEF Frame
    <2>3. VerbFits(f, table)
      BY <1>3, <1>5, <2>2 DEF VerbFits
    <2> QED
      BY <1>1, <1>4, <1>5, <1>7, <2>1, <2>3, GoesOn DEF Labels
  <1>8. CASE Goto(p, "write") /\ (IsPatch(p) => ~Fenced)
    <2>1. PICK f : f = [e EXCEPT !.pc = "write"]
      OBVIOUS
    <2>2. f.pc = "write" /\ f.verb = e.verb /\ f.body = e.body
      BY <2>1 DEF Frame
    <2>3. VerbFits(f, table)
      BY <1>3, <1>5, <1>8, <2>2 DEF VerbFits, IsPatch
    <2> QED
      BY <1>1, <1>4, <1>5, <1>8, <2>1, <2>3, GoesOn DEF Labels
  <1> QED
    BY <1>2, <1>6, <1>7, <1>8

\* The refusal of a forbidden key, with its entry or without.
LEMMA AuditRefusalKeeps ==
    ASSUME Safe, NEW p \in Procs, AuditRefusal(p)
    PROVE  Safe'
  <1>1. /\ tx[p].pc = "refusal" /\ UNCHANGED <<table, calls, stored>> /\ Answer(p, 422)
        /\ trail' \in {trail, trail \cup {<<tx[p].n, "refused">>}}
    BY DEF AuditRefusal, At, StoreKept, Audited
  <1>2. 422 \in Refusals
    BY DEF Refusals
  <1> QED
    BY <1>1, <1>2, Refuses

\* The refusal of the service.
LEMMA RefuseKeeps ==
    ASSUME Safe, NEW p \in Procs, Refuse(p)
    PROVE  Safe'
  BY Refuses DEF Refuse, At, StoreKept

\* The commit, with its entry in the transaction, on the pool afterwards, or without one.
LEMMA CommitKeeps ==
    ASSUME Safe, NEW p \in Procs, Commit(p)
    PROVE  Safe'
  <1>1. /\ tx[p].pc = "write" /\ UNCHANGED <<table, calls>> /\ stored' = stored \cup {tx[p].n}
        /\ trail' = IF Position(tx[p].verb) = "tx" THEN trail \cup {<<tx[p].n, "done">>} ELSE trail
        /\ \/ Position(tx[p].verb) = "pool" /\ Goto(p, "audit")
           \/ Position(tx[p].verb) # "pool" /\ Answer(p, Verbs[tx[p].verb])
           \/ Answer(p, Internal)
    BY DEF Commit, At, Audited
  <1>2. tx[p] \in Frame /\ tx[p].verb \in DOMAIN Verbs /\ VerbFits(tx[p], table)
    BY <1>1, OpenCall
  <1>3. Position(tx[p].verb) \in Positions /\ Verbs[tx[p].verb] \in Codes
    BY <1>2, VerbPositions, VerbCodes DEF Position
  <1>4. CASE Position(tx[p].verb) = "pool" /\ Goto(p, "audit")
    <2>1. PICK e \in Frame : e = tx[p]
      BY <1>2
    <2>2. PICK f : f = [e EXCEPT !.pc = "audit"]
      OBVIOUS
    <2>3. f.pc = "audit" /\ f.verb = e.verb
      BY <2>2 DEF Frame
    <2>4. VerbFits(f, table)
      BY <1>2, <2>1, <2>3 DEF VerbFits
    <2>5. trail' = trail
      BY <1>1, <1>4
    <2> QED
      BY <1>1, <1>4, <2>1, <2>2, <2>4, <2>5, GoesOn DEF Labels
  <1>5. CASE Position(tx[p].verb) # "pool" /\ Answer(p, Verbs[tx[p].verb])
    <2>1. PICK s \in Codes : s = Verbs[tx[p].verb]
      BY <1>3
    <2>2. Position(tx[p].verb) = "none" \/ <<tx[p].n, "done">> \in trail'
      BY <1>1, <1>3, <1>5 DEF Positions
    <2>3. trail' \in {trail, trail \cup {<<tx[p].n, "done">>}}
      BY <1>1
    <2> QED
      BY <1>1, <1>5, <2>1, <2>2, <2>3, Finishes
  <1>6. CASE Answer(p, Internal)
    <2>1. Internal \notin Codes
      BY DEF Internal, Codes
    <2>2. Position(tx[p].verb) = "tx" => <<tx[p].n, "done">> \in trail'
      BY <1>1
    <2>3. trail' \in {trail, trail \cup {<<tx[p].n, "done">>}}
      BY <1>1
    <2> QED
      BY <1>1, <1>6, <2>1, <2>2, <2>3, Finishes
  <1> QED
    BY <1>1, <1>4, <1>5, <1>6

\* The entry on the pool is written, or the caller is told of a failure.
LEMMA AuditOnPoolKeeps ==
    ASSUME Safe, NEW p \in Procs, AuditOnPool(p)
    PROVE  Safe'
  <1>1. /\ tx[p].pc = "audit" /\ UNCHANGED <<table, calls, stored>>
        /\ \/ trail' = trail \cup {<<tx[p].n, "done">>} /\ Answer(p, Verbs[tx[p].verb])
           \/ trail' = trail /\ Answer(p, AuditFailed(tx[p].verb))
    BY DEF AuditOnPool, At, StoreKept, Audited
  <1>2. tx[p].verb \in DOMAIN Verbs /\ CallFits(tx[p], log, stored, trail, calls)
    BY <1>1, OpenCall
  <1>3. tx[p].n \in stored /\ Position(tx[p].verb) = "pool"
    BY <1>1, <1>2 DEF CallFits
  <1>4. stored' = stored \cup {tx[p].n}
    BY <1>1, <1>3
  <1>5. PICK s \in Codes : s = Verbs[tx[p].verb]
    BY <1>2, VerbCodes
  <1>6. CASE trail' = trail \cup {<<tx[p].n, "done">>} /\ Answer(p, Verbs[tx[p].verb])
    BY <1>1, <1>4, <1>5, <1>6, Finishes
  <1>7. CASE trail' = trail /\ Answer(p, AuditFailed(tx[p].verb))
    <2>1. AuditFailed(tx[p].verb) = Internal /\ Internal \notin Codes
      BY DEF AuditFailed, Internal, Codes
    <2> QED
      BY <1>1, <1>3, <1>4, <1>7, <2>1, Finishes
  <1> QED
    BY <1>1, <1>6, <1>7

\* A crash leaves numbers taken that nobody will be told of.
LEMMA CrashKeeps ==
    ASSUME Safe, Crash
    PROVE  Safe'
  <1>1. tx' = [p \in Procs |-> Idle] /\ UNCHANGED <<table, log, stored, trail, calls>>
    BY DEF Crash
  <1>2. tx' \in [Procs -> Frame] /\ \A p \in Procs : tx'[p] = Idle
    BY <1>1, IdleFits
  <1>3. Typed'
    BY <1>1, <1>2 DEF Safe, Typed, Frame, Bodies, E
  <1>4. \A p \in Procs : CallFits(tx'[p], log', stored', trail', calls') /\ VerbFits(tx'[p], table')
    BY <1>2, IdleFits
  <1>5. \A p, q \in Procs : (p # q /\ tx'[p].pc # "idle" /\ tx'[q].pc # "idle") => tx'[p].n # tx'[q].n
    BY <1>2, IdleFits
  <1>6. /\ \A n \in 1..calls' : Untold(n, log'[n], stored', trail')
        /\ \A n \in 1..MaxCalls : Told(n, log'[n], stored', trail')
    BY <1>1 DEF Safe, Books
  <1> QED
    BY <1>3, <1>4, <1>5, <1>6 DEF Safe, Books

\* The generated services take a number and leave the books alone.
LEMMA GeneratedKeeps ==
    ASSUME Safe, calls > 0, calls' = calls - 1, UNCHANGED <<table, tx, log, stored, trail>>
    PROVE  Safe'
  <1>1. calls \in 0..MaxCalls /\ calls' \in 0..MaxCalls
    BY MaxCallsAssumption DEF Safe, Typed
  <1>2. Typed'
    BY <1>1 DEF Safe, Typed, Frame, Bodies, E
  <1>3. ASSUME NEW p \in Procs
        PROVE  CallFits(tx[p], log, stored, trail, calls')
    <2>1. CallFits(tx[p], log, stored, trail, calls)
      BY DEF Safe, Books
    <2>2. ASSUME tx[p].n \in calls + 1 .. MaxCalls
          PROVE  tx[p].n \in calls' + 1 .. MaxCalls
      BY <1>1, <2>2, MaxCallsAssumption
    <2> QED
      BY <2>1, <2>2 DEF CallFits
  <1>4. \A n \in 1..calls' : n \in 1..calls
    BY <1>1
  <1>5. /\ \A n \in 1..calls' : Untold(n, log'[n], stored', trail')
        /\ \A n \in 1..MaxCalls : Told(n, log'[n], stored', trail')
    BY <1>4 DEF Safe, Books
  <1>6. \A p, q \in Procs : (p # q /\ tx'[p].pc # "idle" /\ tx'[q].pc # "idle") => tx'[p].n # tx'[q].n
    BY DEF Safe, Books
  <1>7. \A p \in Procs : CallFits(tx'[p], log', stored', trail', calls') /\ VerbFits(tx'[p], table')
    BY <1>3 DEF Safe
  <1> QED
    BY <1>2, <1>5, <1>6, <1>7 DEF Safe, Books

\* Every step keeps the books.
LEMMA NextSafe == Safe /\ [Next]_vars => Safe'
  <1> SUFFICES ASSUME Safe, [Next]_vars
               PROVE  Safe'
    OBVIOUS
  <1>1. ASSUME NEW p \in Procs, Request(p)
        PROVE  Safe'
    BY <1>1, BeginKeeps, HandleKeeps, AuditRefusalKeeps, RefuseKeeps, CommitKeeps, AuditOnPoolKeeps
       DEF Request
  <1>2. CASE Crash
    BY <1>2, CrashKeeps
  <1>3. CASE GenericCreate \/ GenericUpdate \/ GenericPatch
    BY <1>3, GeneratedKeeps DEF GenericCreate, GenericUpdate, GenericPatch, GuardedWrite
  <1>4. CASE StoreBuilt
    BY <1>4, GeneratedKeeps DEF StoreBuilt
  <1>5. CASE UNCHANGED vars
    BY <1>5 DEF vars, Safe, Typed, Books, Frame, Bodies, E
  <1> QED
    BY <1>1, <1>2, <1>3, <1>4, <1>5 DEF Next

\* Before the first call nothing was said of any number.
LEMMA InitSafe == Init => Safe
  <1> SUFFICES ASSUME Init
               PROVE  Safe
    OBVIOUS
  <1>1. /\ table \in Tables /\ calls = MaxCalls /\ stored = {} /\ trail = {}
        /\ tx = [p \in Procs |-> Idle]
        /\ log = [n \in 1..MaxCalls |-> [verb |-> "none", hundreds |-> 0]]
    BY DEF Init
  <1>2. tx \in [Procs -> Frame] /\ \A p \in Procs : tx[p] = Idle
    BY <1>1, IdleFits
  <1>3. PICK l \in [verb : VerbNames, hundreds : Nat] : l = [verb |-> "none", hundreds |-> 0]
    BY DEF VerbNames
  <1>4. /\ log \in [1..MaxCalls -> [verb : VerbNames, hundreds : Nat]]
        /\ \A n \in 1..MaxCalls : log[n] = l
    BY <1>1, <1>3
  <1>5. Typed
    BY <1>1, <1>2, <1>4, MaxCallsAssumption DEF Typed
  <1>6. \A n \in 1..MaxCalls : Untold(n, log[n], stored, trail) /\ Told(n, log[n], stored, trail)
    BY <1>1, <1>3, <1>4 DEF Untold, Told
  <1>7. /\ \A p \in Procs : CallFits(tx[p], log, stored, trail, calls) /\ VerbFits(tx[p], table)
        /\ \A p, q \in Procs : (p # q /\ tx[p].pc # "idle" /\ tx[q].pc # "idle") => tx[p].n # tx[q].n
    BY <1>2, IdleFits
  <1> QED
    BY <1>1, <1>5, <1>6, <1>7 DEF Safe, Books

\* The books are kept in every reachable state.
THEOREM SafeAlways == Spec => []Safe
  BY InitSafe, NextSafe, PTL DEF Spec

\* What an officer is told, what is stored and what the trail says agree, crash or not: a
\* success was stored and audited, a 4xx stored nothing, the trail names only what was stored.
THEOREM AnswersTold == Spec => []AnswersTellTheStore
  <1>1. Safe => AnswersTellTheStore
    BY DEF Safe, Books, Told, AnswersTellTheStore
  <1> QED
    BY <1>1, SafeAlways, PTL

-----------------------------------------------------------------------------
(* The columns of the row: what the rules let through, and what is NULL.   *)

\* What the tables of the hand verbs have in common: the columns that null clears may be NULL,
\* so may a domain, and the fenced columns of a table are forbidden in its patch.
LEMMA HandColumns ==
    ASSUME NEW t \in HandTables
    PROVE  /\ Body[t].clears \subseteq Entities[t].columns.optional
           /\ "domain" \in Columns(Entities[t]) => "domain" \in Entities[t].columns.optional
           /\ Columns(Entities[t]) \cap {"company_id", "public_user_id", "is_published", "date_publish"}
                \subseteq Body[t].forbidden
  <1>1. CASE t = "Website"
    <2>1. Body[t] = WebsiteBody /\ Entities[t].columns = WebsiteColumns
      BY <1>1 DEF Body, Entities
    <2> QED
      BY <2>1 DEF WebsiteBody, WebsiteColumns, NoKeys, Columns, Of
  <1>2. CASE t = "Page"
    <2>1. Body[t] = PageBody /\ Entities[t].columns = PageColumns
      BY <1>2 DEF Body, Entities
    <2> QED
      BY <2>1 DEF PageBody, PageColumns, NoKeys, Columns, Of
  <1>3. CASE t = "Menu"
    <2>1. Body[t] = MenuBody /\ Entities[t].columns = MenuColumns
      BY <1>3 DEF Body, Entities
    <2> QED
      BY <2>1 DEF MenuBody, MenuColumns, NoKeys, Columns, Of
  <1>4. CASE t = "Redirect"
    <2>1. Body[t] = RedirectBody /\ Entities[t].columns = RedirectColumns
      BY <1>4 DEF Body, Entities
    <2> QED
      BY <2>1 DEF RedirectBody, RedirectColumns, NoKeys, Columns, Of
  <1> QED
    BY <1>1, <1>2, <1>3, <1>4 DEF HandTables

\* Only a clearing column is decoded to NULL.
LEMMA DecodeNull ==
    ASSUME NEW B, NEW c, NEW v, "null" \in Decode(B, c, v)
    PROVE  c \in B.clears
  BY DEF Decode

\* A patch sets columns that its body names, and only clearing columns to NULL.
LEMMA PatchOfBody ==
    ASSUME NEW B, NEW body, NEW c \in DOMAIN PatchOf(B, body)
    PROVE  c \in DOMAIN body /\ (PatchOf(B, body)[c] = "null" => c \in B.clears)
  <1> DEFINE Set == {d \in DOMAIN body : Decode(B, d, body[d]) # {}}
  <1>1. PatchOf(B, body) = [d \in Set |-> CHOOSE v \in Decode(B, d, body[d]) : TRUE]
    BY DEF PatchOf
  <1>2. c \in Set
    BY <1>1
  <1>3. PICK D : D = Decode(B, c, body[c])
    OBVIOUS
  <1>4. D # {} /\ PatchOf(B, body)[c] = CHOOSE v \in D : TRUE
    BY <1>1, <1>2, <1>3
  <1>5. PatchOf(B, body)[c] \in D
    BY <1>4
  <1> QED
    BY <1>2, <1>3, <1>5, DecodeNull

\* What a column holds when nothing is said of it is NULL only if it may be.
LEMMA AbsentNull ==
    ASSUME NEW D, NEW c, Absent(D, c) = "null"
    PROVE  c \in D.columns.optional
  BY DEF Absent

\* What is read into a column is NULL only if it may be.
LEMMA ReadableNull ==
    ASSUME NEW D, NEW c, Readable(D, c, "null")
    PROVE  c \in D.columns.optional \cup D.columns.json
  BY DEF Readable

\* No column is NULL that may not be.
NullsWhereAllowed(r) ==
    \A c \in Columns(E) : r[c] = "null" => c \in E.columns.optional \cup E.columns.json

\* The rows that the generated services and the builders make.
LEMMA GeneratedNulls ==
    ASSUME NEW body
    PROVE  /\ Creatable(E, body) => NullsWhereAllowed(Created(E, body))
           /\ Buildable(E, body) => NullsWhereAllowed(Built(E, body))
           /\ \A r : (Updatable(E, body) /\ NullsWhereAllowed(r)) => NullsWhereAllowed(Updated(E, r, body))
           /\ \A r : NullsWhereAllowed(r) => NullsWhereAllowed(Patched(E, r, body))
  <1>1. ASSUME NEW c \in Columns(E), c \in DOMAIN body => Readable(E, c, body[c]),
               Given(E, body, c) = "null"
        PROVE  c \in E.columns.optional \cup E.columns.json
    BY <1>1, AbsentNull, ReadableNull DEF Given
  <1>2. ASSUME Creatable(E, body)
        PROVE  NullsWhereAllowed(Created(E, body))
    <2>1. SUFFICES ASSUME NEW c \in Columns(E), Created(E, body)[c] = "null"
                   PROVE  c \in E.columns.optional \cup E.columns.json
      BY DEF NullsWhereAllowed
    <2>2. c \notin E.from /\ Given(E, body, c) = "null"
      BY <2>1 DEF Created
    <2>3. c \in DOMAIN body => Readable(E, c, body[c])
      BY <1>2, <2>2 DEF Creatable
    <2> QED
      BY <1>1, <2>1, <2>2, <2>3
  <1>3. ASSUME Buildable(E, body)
        PROVE  NullsWhereAllowed(Built(E, body))
    <2>1. SUFFICES ASSUME NEW c \in Columns(E), Built(E, body)[c] = "null"
                   PROVE  c \in E.columns.optional \cup E.columns.json
      BY DEF NullsWhereAllowed
    <2>2. Given(E, body, c) = "null"
      BY <2>1 DEF Built
    <2>3. c \in DOMAIN body => Readable(E, c, body[c])
      BY <1>3 DEF Buildable, AllReadable
    <2> QED
      BY <1>1, <2>1, <2>2, <2>3
  <1>4. ASSUME NEW r, Updatable(E, body), NullsWhereAllowed(r)
        PROVE  NullsWhereAllowed(Updated(E, r, body))
    <2>1. SUFFICES ASSUME NEW c \in Columns(E), Updated(E, r, body)[c] = "null"
                   PROVE  c \in E.columns.optional \cup E.columns.json
      BY DEF NullsWhereAllowed
    <2>2. CASE c \in E.apply
      <3>1. Given(E, body, c) = "null"
        BY <2>1, <2>2 DEF Updated
      <3>2. c \in DOMAIN body => Readable(E, c, body[c])
        BY <1>4, <2>2 DEF Updatable
      <3> QED
        BY <1>1, <2>1, <3>1, <3>2
    <2>3. CASE c \notin E.apply
      <3>1. r[c] = "null"
        BY <2>1, <2>3 DEF Updated
      <3> QED
        BY <1>4, <2>1, <3>1 DEF NullsWhereAllowed
    <2> QED
      BY <2>2, <2>3
  <1>5. ASSUME NEW r, NullsWhereAllowed(r)
        PROVE  NullsWhereAllowed(Patched(E, r, body))
    <2>1. SUFFICES ASSUME NEW c \in Columns(E), Patched(E, r, body)[c] = "null"
                   PROVE  c \in E.columns.optional \cup E.columns.json
      BY DEF NullsWhereAllowed
    <2>2. CASE c \in DOMAIN body \cap E.patch /\ Readable(E, c, body[c])
      <3>1. body[c] = "null"
        BY <2>1, <2>2 DEF Patched
      <3> QED
        BY <2>2, <3>1, ReadableNull
    <2>3. CASE ~(c \in DOMAIN body \cap E.patch /\ Readable(E, c, body[c]))
      <3>1. r[c] = "null"
        BY <2>1, <2>3 DEF Patched
      <3> QED
        BY <1>5, <2>1, <3>1 DEF NullsWhereAllowed
    <2> QED
      BY <2>2, <2>3
  <1> QED
    BY <1>2, <1>3, <1>4, <1>5

\* The row is NULL only where it may be, and a column last written under the rules keeps them.
LEMMA RuledSplit ==
    RuledColumns <=> (row # NoRecord => /\ NullsWhereAllowed(row)
                                        /\ \A c \in Columns(E) : c \in guarded => ~Breaks(E, c, row[c]))
  BY DEF RuledColumns, NullsWhereAllowed

\* The guard lets no broken column through that was not broken before.
LEMMA GuardedKeeps ==
    ASSUME RuledColumns, NEW old, NEW new, old = row, GuardedWrite(old, new), NullsWhereAllowed(new)
    PROVE  RuledColumns'
  <1>1. /\ Guard(E, IF old = NoRecord THEN << >> ELSE old, new) /\ row' = new /\ table' = table
        /\ guarded' = IF old = NoRecord THEN Columns(E)
                      ELSE guarded \cup {c \in Columns(E) : new[c] # old[c]}
    BY DEF GuardedWrite
  <1>2. ASSUME NEW c \in Columns(E), c \in guarded'
        PROVE  ~Breaks(E, c, new[c])
    <2>1. CASE old = NoRecord
      <3>1. c \notin DOMAIN << >>
        OBVIOUS
      <3>2. Breaks(E, c, new[c]) => c \in DOMAIN << >>
        BY <1>1, <2>1 DEF Guard
      <3> QED
        BY <3>1, <3>2
    <2>2. CASE old # NoRecord
      <3>1. Breaks(E, c, new[c]) => new[c] = old[c]
        BY <1>1, <2>2 DEF Guard
      <3>2. c \in guarded \/ new[c] # old[c]
        BY <1>1, <1>2, <2>2
      <3>3. c \in guarded => ~Breaks(E, c, old[c])
        BY <2>2 DEF RuledColumns
      <3> QED
        BY <3>1, <3>2, <3>3
    <2> QED
      BY <2>1, <2>2
  <1>3. E' = E
    BY <1>1 DEF E
  <1>4. ASSUME NEW c \in Columns(E)
        PROVE  /\ c \in guarded' => ~Breaks(E, c, row'[c])
               /\ row'[c] = "null" => c \in E.columns.optional \cup E.columns.json
    BY <1>1, <1>2, <1>4 DEF NullsWhereAllowed
  <1> QED
    BY <1>3, <1>4 DEF RuledColumns

\* A hand verb that writes what may be NULL only where it may keeps what it says of the rules.
LEMMA PutKeeps ==
    ASSUME RuledColumns, NEW new, Put(new), table' = table, NullsWhereAllowed(new)
    PROVE  RuledColumns'
  <1>1. /\ row' = new
        /\ guarded' = IF row = NoRecord THEN {} ELSE {c \in guarded : new[c] = row[c]}
    BY DEF Put
  <1>2. E' = E
    BY DEF E
  <1>3. ASSUME NEW c \in Columns(E)
        PROVE  /\ c \in guarded' => ~Breaks(E, c, row'[c])
               /\ row'[c] = "null" => c \in E.columns.optional \cup E.columns.json
    <2>1. CASE row = NoRecord
      BY <1>1, <1>3, <2>1 DEF NullsWhereAllowed
    <2>2. CASE row # NoRecord
      <3>1. c \in guarded => ~Breaks(E, c, row[c])
        BY <2>2 DEF RuledColumns
      <3> QED
        BY <1>1, <1>3, <2>2, <3>1 DEF NullsWhereAllowed
    <2> QED
      BY <2>1, <2>2
  <1> QED
    BY <1>2, <1>3 DEF RuledColumns

\* What a patch leaves, column by column.
LEMMA PatchedColumns ==
    ASSUME NEW p \in Procs, table \in HandTables,
           row' = [c \in Columns(E) |-> IF c \in DOMAIN Patch(p) THEN Stored(c, Patch(p)[c]) ELSE row[c]],
           NEW c \in Columns(E)
    PROVE  \/ row'[c] = row[c]
           \/ c \in DOMAIN tx[p].body /\ (row'[c] = "null" => c \in E.columns.optional)
  <1>1. CASE c \notin DOMAIN Patch(p)
    BY <1>1
  <1>2. CASE c \in DOMAIN Patch(p)
    <2>1. row'[c] = Stored(c, Patch(p)[c])
      BY <1>2
    <2>2. PICK body : body = tx[p].body
      OBVIOUS
    <2>3. PICK B : B = Body[table]
      OBVIOUS
    <2>4. Patch(p) = PatchOf(B, body)
      BY <2>2, <2>3 DEF Patch
    <2>5. c \in DOMAIN body /\ (PatchOf(B, body)[c] = "null" => c \in B.clears)
      BY <1>2, <2>4, PatchOfBody
    <2>6. c = "domain" => c \in E.columns.optional
      BY HandColumns DEF E
    <2>7. B.clears \subseteq E.columns.optional
      BY <2>3, HandColumns DEF E
    <2> QED
      BY <2>1, <2>2, <2>4, <2>5, <2>6, <2>7 DEF Stored
  <1> QED
    BY <1>1, <1>2

\* A created row is NULL only where it may be.
LEMMA CreatedNulls ==
    ASSUME table \in HandTables, NEW body
    PROVE  NullsWhereAllowed(CreatedBy(body))
  <1> SUFFICES ASSUME NEW c \in Columns(E), CreatedBy(body)[c] = "null"
               PROVE  c \in E.columns.optional
    BY DEF NullsWhereAllowed
  <1> DEFINE Left == \/ c \notin DOMAIN body \ Unnamed \/ body[c] = "null"
                     \/ c = "default_lang_code" /\ body[c] = "blank"
  <1>1. CreatedBy(body)[c] = IF Left THEN Absent(E, c) ELSE Stored(c, body[c])
    BY DEF CreatedBy
  <1>2. CASE Left
    BY <1>1, <1>2, AbsentNull
  <1>3. CASE ~Left
    <2>1. Stored(c, body[c]) = "null" /\ body[c] # "null"
      BY <1>1, <1>3
    <2>2. c = "domain"
      BY <2>1 DEF Stored
    <2> QED
      BY <2>2, HandColumns DEF E
  <1> QED
    BY <1>2, <1>3

\* The verbs of a patch, of a create and of everything else are different.
LEMMA VerbsApart ==
    ASSUME Safe, NEW p \in Procs, tx[p].pc = "write"
    PROVE  /\ IsPatch(p) => ~IsCreate(p) /\ tx[p].verb \notin Effects
           /\ IsPatch(p) \/ IsCreate(p) => table \in HandTables
           /\ IsPatch(p) => DOMAIN tx[p].body \cap Body[table].forbidden = {}
  <1>1. VerbFits(tx[p], table)
    BY OpenCall
  <1>2. /\ IsPatch(p) \/ IsCreate(p) => tx[p].verb \in ColumnVerbs
        /\ IsPatch(p) <=> tx[p].verb \in {PatchVerb[x] : x \in HandTables}
    BY DEF IsPatch, IsCreate, ColumnVerbs
  <1>3. IsPatch(p) => ~IsCreate(p)
    BY DEF IsPatch, IsCreate, PatchVerb, CreateVerb, HandTables
  <1> QED
    BY <1>1, <1>2, <1>3 DEF VerbFits, Effects

\* No step breaks what is said of the columns.
LEMMA NextRuled == Safe /\ RuledColumns /\ [Next]_vars => RuledColumns'
  <1> SUFFICES ASSUME Safe, RuledColumns, [Next]_vars
               PROVE  RuledColumns'
    OBVIOUS
  <1>1. ASSUME UNCHANGED <<row, guarded, table>>
        PROVE  RuledColumns'
    BY <1>1 DEF RuledColumns, E
  <1>2. ASSUME NEW p \in Procs, Commit(p)
        PROVE  RuledColumns'
    <2>1. tx[p].pc = "write" /\ table' = table /\ WriteColumns(p)
      BY <1>2 DEF Commit, At
    <2>2. CASE /\ IsPatch(p)
               /\ Put([c \in Columns(E) |-> IF c \in DOMAIN Patch(p) THEN Stored(c, Patch(p)[c]) ELSE row[c]])
               /\ row # NoRecord
      <3>1. table \in HandTables
        BY <2>1, <2>2, VerbsApart
      <3>2. PICK new : new = [c \in Columns(E) |-> IF c \in DOMAIN Patch(p) THEN Stored(c, Patch(p)[c])
                                                   ELSE row[c]]
        OBVIOUS
      <3>3. Put(new) /\ row' = new
        BY <2>2, <3>2 DEF Put
      <3>4. \A c \in Columns(E) : \/ row'[c] = row[c]
                                  \/ row'[c] = "null" => c \in E.columns.optional
        BY <3>1, <3>2, <3>3, PatchedColumns
      <3>5. \A c \in Columns(E) : row[c] = "null" => c \in E.columns.optional \cup E.columns.json
        BY <2>2 DEF RuledColumns
      <3>6. NullsWhereAllowed(new)
        BY <3>3, <3>4, <3>5 DEF NullsWhereAllowed
      <3> QED
        BY <2>1, <3>3, <3>6, PutKeeps
    <2>3. CASE IsCreate(p) /\ Put(CreatedBy(tx[p].body))
      <3>1. table \in HandTables
        BY <2>1, <2>3, VerbsApart
      <3>2. NullsWhereAllowed(CreatedBy(tx[p].body))
        BY <3>1, CreatedNulls
      <3> QED
        BY <2>1, <2>3, <3>2, PutKeeps
    <2>4. CASE UNCHANGED <<row, guarded>>
      BY <1>1, <2>1, <2>4
    <2> QED
      BY <2>1, <2>2, <2>3, <2>4 DEF WriteColumns
  <1>3. ASSUME NEW p \in Procs, Request(p), ~Commit(p)
        PROVE  RuledColumns'
    <2>1. CASE BeginPatch(p) \/ BeginCreate(p) \/ BeginEffect(p)
      BY <1>1, <2>1 DEF BeginPatch, BeginCreate, BeginEffect, Call
    <2>2. CASE Handle(p) \/ AuditRefusal(p) \/ Refuse(p) \/ AuditOnPool(p)
      BY <1>1, <2>2 DEF Handle, AuditRefusal, Refuse, AuditOnPool, At, StoreKept
    <2> QED
      BY <1>3, <2>1, <2>2 DEF Request
  <1>4. CASE Crash
    BY <1>1, <1>4 DEF Crash
  <1>5. CASE GenericCreate
    <2>1. PICK body \in Wholes : Creatable(E, body) /\ GuardedWrite(NoRecord, Created(E, body))
      BY <1>5 DEF GenericCreate
    <2>2. row = NoRecord /\ NullsWhereAllowed(Created(E, body))
      BY <1>5, <2>1, GeneratedNulls DEF GenericCreate
    <2> QED
      BY <2>1, <2>2, GuardedKeeps
  <1>6. CASE GenericUpdate
    <2>1. PICK body \in Wholes : Updatable(E, body) /\ GuardedWrite(row, Updated(E, row, body))
      BY <1>6 DEF GenericUpdate
    <2>2. NullsWhereAllowed(row)
      BY <1>6, RuledSplit DEF GenericUpdate
    <2>3. NullsWhereAllowed(Updated(E, row, body))
      BY <2>1, <2>2, GeneratedNulls
    <2> QED
      BY <2>1, <2>3, GuardedKeeps
  <1>7. CASE GenericPatch
    <2>1. PICK body \in Singles : GuardedWrite(row, Patched(E, row, body))
      BY <1>7 DEF GenericPatch
    <2>2. NullsWhereAllowed(row)
      BY <1>7, RuledSplit DEF GenericPatch
    <2>3. NullsWhereAllowed(Patched(E, row, body))
      BY <2>2, GeneratedNulls
    <2> QED
      BY <2>1, <2>3, GuardedKeeps
  <1>8. CASE StoreBuilt
    <2>1. PICK args \in Wholes : Buildable(E, args) /\ row' = Built(E, args)
      BY <1>8 DEF StoreBuilt
    <2>2. NullsWhereAllowed(Built(E, args)) /\ guarded' = {} /\ E' = E
      BY <1>8, <2>1, GeneratedNulls DEF StoreBuilt, E
    <2> QED
      BY <2>1, <2>2 DEF RuledColumns, NullsWhereAllowed
  <1>9. CASE UNCHANGED vars
    BY <1>1, <1>9 DEF vars
  <1> QED
    BY <1>2, <1>3, <1>4, <1>5, <1>6, <1>7, <1>8, <1>9 DEF Next

\* Rows that break a rule may live, but no generated write ever puts a value that breaks one
\* into a column, and no column that may not be NULL becomes so, whoever writes it.
THEOREM ColumnsRuled == Spec => []RuledColumns
  <1>1. Init => RuledColumns
    <2> SUFFICES ASSUME Init, row # NoRecord, NEW c \in Columns(E)
                 PROVE  c \notin guarded /\ row[c] # "null"
      BY DEF RuledColumns
    <2>1. PICK odd \in Columns(E), v \in {"ok", "blank", "long"} :
            row = [d \in Columns(E) |-> IF d = odd THEN v ELSE "ok"]
      BY DEF Init
    <2> QED
      BY <2>1 DEF Init
  <1> QED
    BY <1>1, NextRuled, SafeAlways, PTL DEF Spec

\* An officer's patch changes only columns its body names, never the identity or the
\* publication of the row, and never leaves NULL a column that may not be.
THEOREM PatchStays == Spec => PatchStaysInItsColumns
  <1>1. Safe /\ [Next]_vars =>
          [\A p \in Procs : (tx[p].pc = "write" /\ IsPatch(p) /\ row' # row /\ tx'[p].pc # "write") =>
             \A c \in Columns(E) : row'[c] # row[c] =>
                 /\ c \in DOMAIN tx[p].body
                 /\ c \notin {"company_id", "public_user_id", "is_published", "date_publish"}
                 /\ row'[c] = "null" => c \in E.columns.optional]_vars
    <2> SUFFICES ASSUME Safe, Next, NEW p \in Procs, tx[p].pc = "write", IsPatch(p), row' # row,
                        tx'[p].pc # "write", NEW c \in Columns(E), row'[c] # row[c]
                 PROVE  /\ c \in DOMAIN tx[p].body
                        /\ c \notin {"company_id", "public_user_id", "is_published", "date_publish"}
                        /\ row'[c] = "null" => c \in E.columns.optional
      BY DEF vars
    <2>1. tx \in [Procs -> Frame]
      BY DEF Safe, Typed
    <2>2. ASSUME NEW q \in Procs, Request(q)
          PROVE  q = p /\ Commit(p)
      <3>1. Commit(q)
        BY <2>2 DEF Request, BeginPatch, BeginCreate, BeginEffect, Call, Handle, AuditRefusal, Refuse,
                    AuditOnPool, StoreKept
      <3>2. \A x \in Procs \ {q} : tx'[x] = tx[x]
        BY <2>1, <3>1 DEF Commit, Goto, Answer
      <3> QED
        BY <3>1, <3>2
    <2>3. Commit(p)
      BY <2>1, <2>2 DEF Next, Crash, GenericCreate, GenericUpdate, GenericPatch, GuardedWrite, StoreBuilt
    <2>4. /\ ~IsCreate(p) /\ tx[p].verb \notin Effects /\ table \in HandTables
          /\ DOMAIN tx[p].body \cap Body[table].forbidden = {}
      BY VerbsApart
    <2>5. row' = [d \in Columns(E) |-> IF d \in DOMAIN Patch(p) THEN Stored(d, Patch(p)[d]) ELSE row[d]]
      BY <2>3, <2>4 DEF Commit, WriteColumns, Put
    <2>6. c \in DOMAIN tx[p].body /\ (row'[c] = "null" => c \in E.columns.optional)
      BY <2>4, <2>5, PatchedColumns
    <2>7. c \notin {"company_id", "public_user_id", "is_published", "date_publish"}
      BY <2>4, <2>6, HandColumns DEF E
    <2> QED
      BY <2>6, <2>7
  <1> QED
    BY <1>1, SafeAlways, PTL DEF Spec, PatchStaysInItsColumns
-----------------------------------------------------------------------------
(***************************************************************************)
(* The public reads.  The history of a request always has what the tables  *)
(* show now, so what a statement reads is part of it.                      *)
(***************************************************************************)

ReadLabels == {"resolve", "members", "blocks"}
WalkLabels == {"page", "list"}
PublicAnswers == {"none", "unbound", "missing", "refused", "served", "listed"}
Showings == [tier : Tiers, roles : SUBSET Roles]
Reading == [pc : {"idle"} \cup ReadLabels \cup WalkLabels, site : Sites \cup {None},
            url : Urls \cup {0}, who : Users \cup {None}, required : SUBSET Roles,
            cursor : Nat, listed : SUBSET Nat, shown : SUBSET Showings, hidden : BOOLEAN,
            held : SUBSET Roles, always : SUBSET Nat, answer : PublicAnswers]

\* The history of a page request has what the tables t and M show now.
Seen(f, t, M) ==
    /\ \A i \in ResolvePageByUrl(t, f.url, f.site) :
         Out(t[i]) => [tier |-> t[i].tier, roles |-> t[i].roles] \in f.shown
    /\ (\A i \in ResolvePageByUrl(t, f.url, f.site) : ~Out(t[i])) => f.hidden
    /\ \A r \in Roles : <<f.site, f.who, r>> \in M => r \in f.held

\* What a walk still owes is listed now, beyond the cursor.
Owed(f, t) ==
    /\ f.site \in Sites
    /\ f.always \subseteq {t[i].url : i \in Picked(t, f.site)}
    /\ \A u \in f.always : u <= f.cursor => u \in f.listed

\* An answer that was given is true of the history.
TrueAnswer(f) ==
    /\ f.answer = "served" => \E s \in f.shown : Admits(s, f.who, f.held)
    /\ f.answer = "refused" => \E s \in f.shown : s.tier # "public"
    /\ f.answer = "missing" => f.hidden
    /\ f.answer = "listed" => f.always \subseteq f.listed

ReadingFits(f, t, M) ==
    /\ f.pc \in ReadLabels => Seen(f, t, M)
    /\ f.pc = "members" =>
         f.who # None /\ \E s \in f.shown : s.tier = "restricted" /\ s.roles = f.required
    /\ f.pc = "blocks" => \E s \in f.shown : Admits(s, f.who, f.held)
    /\ f.pc \in WalkLabels => Owed(f, t)
    /\ f.pc = "idle" => TrueAnswer(f)

\* The inductive invariant of the public reads.
PublicSafe ==
    /\ PublicTables(rows, members) /\ CollisionFree(rows)
    /\ reading \in [Readers -> Reading]
    /\ \A p \in Readers : ReadingFits(reading[p], rows, members)
-----------------------------------------------------------------------------
\* A set of numbers that is not empty has a least one.
LEMMA SomeLeast ==
    ASSUME NEW T \in SUBSET Nat, T # {}
    PROVE  \E w \in T : \A v \in T : w <= v
  <1> DEFINE R == OpToRel(<, Nat)
  <1>1. IsWellFoundedOn(R, Nat)
    BY NatLessThanWellFounded
  <1>2. \A x, y \in Nat : <<x, y>> \in R <=> x < y
    BY DEF OpToRel
  <1> HIDE DEF R
  <1>3. PICK w \in T : \A y \in T : ~(<<y, w>> \in R)
    BY <1>1, WFMin
  <1>4. ASSUME NEW y \in T
        PROVE  w <= y
    <2>1. w \in Nat /\ y \in Nat
      OBVIOUS
    <2>2. ~(y < w)
      BY <1>2, <1>3, <2>1
    <2> QED
      BY <2>1, <2>2
  <1> QED
    BY <1>3, <1>4

\* Of a finite set of pages that is not empty, one has the last url.
LEMMA SomeLast ==
    ASSUME NEW P, IsFiniteSet(P), P # {}, NEW t, \A i \in P : t[i].url \in Nat
    PROVE  \E i \in P : \A j \in P : t[j].url <= t[i].url
  <1> DEFINE Topped(T) == \E i \in T : \A j \in T : t[j].url <= t[i].url
             Bare == {n \in Nat : \E T \in SUBSET P : T # {} /\ Cardinality(T) = n /\ ~Topped(T)}
  <1> SUFFICES ASSUME ~Topped(P) PROVE FALSE
    OBVIOUS
  <1>1. Cardinality(P) \in Bare
    BY FS_CardinalityType
  <1>2. PICK n \in Bare : \A v \in Bare : n <= v
    <2>1. Bare \in SUBSET Nat /\ Bare # {}
      BY <1>1
    <2> HIDE DEF Bare
    <2> QED
      BY <2>1, SomeLeast
  <1>3. PICK T \in SUBSET P : T # {} /\ Cardinality(T) = n /\ ~Topped(T)
    BY <1>2
  <1>4. IsFiniteSet(T) /\ n \in Nat
    BY <1>2, FS_Subset
  <1>5. PICK x \in T : TRUE
    BY <1>3
  <1> DEFINE U == T \ {x}
  <1>6. IsFiniteSet(U) /\ Cardinality(U) = n - 1 /\ Cardinality(U) \in Nat
    BY <1>3, <1>4, <1>5, FS_RemoveElement, FS_CardinalityType
  <1>7. U # {}
    <2> SUFFICES ASSUME U = {} PROVE FALSE
      OBVIOUS
    <2>1. T = {x}
      BY <1>5
    <2> QED
      BY <1>3, <2>1
  <1>8. PICK y \in U : \A j \in U : t[j].url <= t[y].url
    <2>1. ~(n <= n - 1)
      BY <1>4
    <2>2. Cardinality(U) \notin Bare
      BY <1>2, <1>6, <2>1
    <2>3. U \in SUBSET P
      OBVIOUS
    <2> QED
      BY <1>6, <1>7, <2>2, <2>3
  <1>9. t[x].url \in Nat /\ t[y].url \in Nat /\ \A j \in T : t[j].url \in Nat
    BY <1>5, <1>8
  <1>10. CASE t[x].url <= t[y].url
    BY <1>3, <1>8, <1>10
  <1>11. CASE ~(t[x].url <= t[y].url)
    <2>1. \A j \in T : t[j].url <= t[x].url
      BY <1>8, <1>9, <1>11
    <2> QED
      BY <1>3, <2>1
  <1> QED
    BY <1>10, <1>11

\* A page with the smallest urls is all that there is, or it is full and ends with its last url.
LEMMA LeadingPage ==
    ASSUME NEW S \in SUBSET PageIds, \A i \in S : rows[i].url \in Nat, NEW P \in Leading(S, Cap)
    PROVE  /\ P \subseteq S
           /\ ~HasNext(Cardinality(P)) => P = S
           /\ HasNext(Cardinality(P)) => \E k \in P : /\ \A i \in P : rows[i].url <= rows[k].url
                                                      /\ \A j \in S \ P : rows[k].url <= rows[j].url
  <1>1. P \subseteq S /\ \A i \in P, j \in S \ P : rows[i].url <= rows[j].url
    BY DEF Leading
  <1>2. Cardinality(P) = IF Cardinality(S) < Cap THEN Cardinality(S) ELSE Cap
    BY DEF Leading
  <1>3. IsFiniteSet(S) /\ IsFiniteSet(P)
    BY <1>1, FS_Subset, PagesAssumption
  <1>4. Cardinality(S) \in Nat /\ Cardinality(P) \in Nat
    BY <1>3, FS_CardinalityType
  <1>5. ~HasNext(Cardinality(P)) => P = S
    <2>1. ~HasNext(Cardinality(P)) => Cardinality(P) = Cardinality(S)
      BY <1>2, <1>4, CapAssumption DEF HasNext
    <2> QED
      BY <1>1, <1>3, <2>1, FS_Subset
  <1>6. ASSUME HasNext(Cardinality(P))
        PROVE  \E k \in P : /\ \A i \in P : rows[i].url <= rows[k].url
                            /\ \A j \in S \ P : rows[k].url <= rows[j].url
    <2>1. Cardinality(P) # 0
      BY <1>4, <1>6, CapAssumption DEF HasNext
    <2>2. P # {}
      BY <2>1, FS_EmptySet
    <2>3. \A i \in P : rows[i].url \in Nat
      BY <1>1
    <2>4. PICK k \in P : \A i \in P : rows[i].url <= rows[k].url
      BY <1>3, <2>2, <2>3, SomeLast
    <2> QED
      BY <1>1, <2>4
  <1> QED
    BY <1>1, <1>5, <1>6
-----------------------------------------------------------------------------
\* The indexes leave a url of a website one answer.
LEMMA OneAnswer ==
    ASSUME NEW t, CollisionFree(t), NEW u, NEW w,
           NEW i \in ResolvePageByUrl(t, u, w), NEW j \in ResolvePageByUrl(t, u, w)
    PROVE  i = j
  <1>1. /\ i \in PageIds /\ t[i] # NoRow /\ t[i].live /\ t[i].url = u
        /\ j \in PageIds /\ t[j] # NoRow /\ t[j].live /\ t[j].url = u
        /\ t[i].scope = t[j].scope
    BY DEF ResolvePageByUrl, PreferSpecific, LiveScope, LivePages
  <1>2. ~Collide(i, t[i], j, t[j])
    BY <1>1 DEF CollisionFree, Id
  <1> QED
    BY <1>1, <1>2 DEF Collide, SameUrlScope

\* What a page row of the public reads is made of.
LEMMA PageFields ==
    ASSUME NEW t, NEW M, PublicTables(t, M), NEW i \in LivePages(t)
    PROVE  /\ i \in PageIds /\ i \in Id /\ t[i] \in PublicPageRow
           /\ t[i].url \in Nat \ {0}
           /\ [tier |-> t[i].tier, roles |-> t[i].roles] \in Showings
  <1>1. i \in PageIds /\ i \in Id /\ t[i] \in PublicPageRow
    BY DEF LivePages, PublicTables, Id
  <1> QED
    BY <1>1, UrlsAssumption DEF PublicPageRow, Showings

\* The resolver and the sitemap answer with live pages.
LEMMA AnswersLive ==
    ASSUME NEW t, NEW M, PublicTables(t, M), NEW u, NEW w
    PROVE  /\ ResolvePageByUrl(t, u, w) \subseteq LivePages(t)
           /\ Picked(t, w) \subseteq LivePages(t)
  <1>1. ResolvePageByUrl(t, u, w) \subseteq LivePages(t)
    BY DEF ResolvePageByUrl, PreferSpecific, LiveScope
  <1> DEFINE s == [i \in Id |-> IF i \in PageIds /\ t[i] # NoRow
                                THEN [t[i] EXCEPT !.published = Out(t[i])] ELSE t[i]]
  <1>2. Picked(t, w) = ResolveSitemapPage(s, w)
    BY DEF Picked
  <1>3. Picked(t, w) \subseteq LivePages(s)
    BY <1>2 DEF ResolveSitemapPage, PreferSpecific, LiveScope
  <1>4. ASSUME NEW i \in LivePages(s)
        PROVE  i \in LivePages(t)
    <2>1. i \in PageIds /\ i \in Id /\ s[i] # NoRow /\ s[i].live
      BY <1>4 DEF LivePages, Id
    <2>2. CASE t[i] = NoRow
      BY <2>1, <2>2
    <2>3. CASE t[i] # NoRow
      <3>1. t[i] \in PublicPageRow
        BY <2>1, <2>3 DEF PublicTables
      <3>2. s[i].live = t[i].live
        BY <2>1, <2>3, <3>1 DEF PublicPageRow
      <3> QED
        BY <2>1, <2>3, <3>2 DEF LivePages
    <2> QED
      BY <2>2, <2>3
  <1> QED
    BY <1>1, <1>3, <1>4

\* The fields of a request.
LEMMA ReadingFields ==
    ASSUME NEW f \in Reading
    PROVE  /\ f.pc \in {"idle"} \cup ReadLabels \cup WalkLabels /\ f.site \in Sites \cup {None}
           /\ f.url \in Urls \cup {0} /\ f.who \in Users \cup {None} /\ f.required \in SUBSET Roles
           /\ f.cursor \in Nat /\ f.listed \in SUBSET Nat /\ f.shown \in SUBSET Showings
           /\ f.hidden \in BOOLEAN /\ f.held \in SUBSET Roles /\ f.always \in SUBSET Nat
           /\ f.answer \in PublicAnswers
  BY DEF Reading
-----------------------------------------------------------------------------
\* What a request in flight takes into its history, and what it leaves alone.
LEMMA WatchFields ==
    ASSUME NEW f \in Reading, f.pc # "idle", NEW t, NEW M, PublicTables(t, M)
    PROVE  LET g == Watch(f, t, M)
           IN  /\ g \in Reading /\ g.pc = f.pc /\ g.site = f.site /\ g.url = f.url /\ g.who = f.who
               /\ g.required = f.required /\ g.cursor = f.cursor /\ g.listed = f.listed
               /\ g.answer = f.answer /\ f.shown \subseteq g.shown /\ f.held \subseteq g.held
               /\ g.always = f.always \cap {t[i].url : i \in Picked(t, f.site)}
               /\ Seen(g, t, M)
  <1> DEFINE A == ResolvePageByUrl(t, f.url, f.site)
             Shown == {r \in {t[i] : i \in A} : Out(r)}
             now == {[tier |-> r.tier, roles |-> r.roles] : r \in Shown}
             roles == {r \in Roles : <<f.site, f.who, r>> \in M}
             urls == {t[i].url : i \in Picked(t, f.site)}
             hides == f.hidden \/ Shown = {}
  <1>1. Watch(f, t, M) = [f EXCEPT !.shown = f.shown \cup now, !.hidden = hides,
                                   !.held = f.held \cup roles, !.always = f.always \cap urls]
    BY DEF Watch
  <1>2. /\ \A i \in A : [tier |-> t[i].tier, roles |-> t[i].roles] \in Showings
        /\ \A i \in A : Out(t[i]) => [tier |-> t[i].tier, roles |-> t[i].roles] \in now
        /\ (\A i \in A : ~Out(t[i])) => Shown = {}
    <2>1. \A i \in A : i \in LivePages(t)
      BY AnswersLive
    <2> QED
      BY <2>1, PageFields
  <1>3. now \subseteq Showings
    BY <1>2
  <1>4. hides \in BOOLEAN /\ roles \subseteq Roles
    OBVIOUS
  <1> HIDE DEF A, Shown, now, roles, urls, hides
  <1>5. f.shown \cup now \in SUBSET Showings /\ f.held \cup roles \in SUBSET Roles
        /\ f.always \cap urls \in SUBSET Nat
    BY <1>3, <1>4, ReadingFields
  <1> DEFINE g == [f EXCEPT !.shown = f.shown \cup now, !.hidden = hides,
                            !.held = f.held \cup roles, !.always = f.always \cap urls]
  <1>6. /\ g \in Reading /\ g.pc = f.pc /\ g.site = f.site /\ g.url = f.url /\ g.who = f.who
        /\ g.required = f.required /\ g.cursor = f.cursor /\ g.listed = f.listed
        /\ g.answer = f.answer /\ g.shown = f.shown \cup now /\ g.hidden = hides
        /\ g.held = f.held \cup roles /\ g.always = f.always \cap urls
    BY <1>4, <1>5 DEF Reading
  <1> HIDE DEF g
  <1>7. Seen(g, t, M)
    <2>1. \A i \in ResolvePageByUrl(t, g.url, g.site) :
            Out(t[i]) => [tier |-> t[i].tier, roles |-> t[i].roles] \in g.shown
      BY <1>2, <1>6 DEF A
    <2>2. (\A i \in ResolvePageByUrl(t, g.url, g.site) : ~Out(t[i])) => g.hidden
      BY <1>2, <1>6 DEF A, hides
    <2>3. \A r \in Roles : <<g.site, g.who, r>> \in M => r \in g.held
      BY <1>6 DEF roles
    <2> QED
      BY <2>1, <2>2, <2>3 DEF Seen
  <1>8. Watch(f, t, M) = g
    BY <1>1 DEF g
  <1> QED
    BY <1>6, <1>7, <1>8 DEF urls

\* A request keeps to its history whatever is committed beside it.
LEMMA WatchFits ==
    ASSUME NEW f \in Reading, NEW t, NEW M, NEW u, NEW N, ReadingFits(f, u, N), PublicTables(t, M)
    PROVE  Watch(f, t, M) \in Reading /\ ReadingFits(Watch(f, t, M), t, M)
  <1>1. CASE f.pc = "idle"
    <2>1. Watch(f, t, M) = f
      BY <1>1 DEF Watch
    <2> QED
      BY <1>1, <2>1 DEF ReadingFits, ReadLabels, WalkLabels
  <1>2. CASE f.pc # "idle"
    <2>1. PICK g : g = Watch(f, t, M)
      OBVIOUS
    <2>2. /\ g \in Reading /\ g.pc = f.pc /\ g.site = f.site /\ g.who = f.who
          /\ g.required = f.required /\ g.cursor = f.cursor /\ g.listed = f.listed
          /\ f.shown \subseteq g.shown /\ f.held \subseteq g.held
          /\ g.always = f.always \cap {t[i].url : i \in Picked(t, f.site)} /\ Seen(g, t, M)
      BY <1>2, <2>1, WatchFields
    <2>3. ASSUME g.pc = "members"
          PROVE  g.who # None /\ \E s \in g.shown : s.tier = "restricted" /\ s.roles = g.required
      BY <2>2, <2>3 DEF ReadingFits
    <2>4. ASSUME g.pc = "blocks"
          PROVE  \E s \in g.shown : Admits(s, g.who, g.held)
      <3>1. PICK s \in f.shown : Admits(s, f.who, f.held)
        BY <2>2, <2>4 DEF ReadingFits
      <3>2. Admits(s, g.who, g.held)
        BY <2>2, <3>1 DEF Admits
      <3> QED
        BY <2>2, <3>2
    <2>5. ASSUME g.pc \in WalkLabels
          PROVE  Owed(g, t)
      <3>1. Owed(f, u)
        BY <2>2, <2>5 DEF ReadingFits
      <3> QED
        BY <2>2, <3>1 DEF Owed
    <2>6. ReadingFits(g, t, M)
      BY <1>2, <2>2, <2>3, <2>4, <2>5 DEF ReadingFits
    <2> QED
      BY <2>1, <2>2, <2>6
  <1> QED
    BY <1>1, <1>2

\* What is committed beside the requests.
LEMMA WatchedSafe ==
    ASSUME PublicSafe, NEW t, NEW M, PublicTables(t, M), CollisionFree(t),
           rows' = t, members' = M, Watched(t, M)
    PROVE  PublicSafe'
  <1>1. reading' = [p \in Readers |-> Watch(reading[p], t, M)]
    BY DEF Watched
  <1>2. \A p \in Readers : Watch(reading[p], t, M) \in Reading
                           /\ ReadingFits(Watch(reading[p], t, M), t, M)
    BY WatchFits DEF PublicSafe
  <1>3. reading' \in [Readers -> Reading] /\ \A p \in Readers : ReadingFits(reading'[p], t, M)
    BY <1>1, <1>2
  <1> QED
    BY <1>3 DEF PublicSafe

\* What officers commit to the pages and the websites.
LEMMA EditRowsSafe ==
    ASSUME PublicSafe, NEW t, EditRows(t), PublicTables(t, members)
    PROVE  PublicSafe'
  <1>1. CollisionFree(t) /\ rows' = t /\ members' = members /\ Watched(t, members)
    BY DEF EditRows
  <1> QED
    BY <1>1, WatchedSafe

\* A page row in the place of another.
LEMMA PagePut ==
    ASSUME NEW t, NEW M, PublicTables(t, M), NEW i \in PageIds, NEW r \in PublicPageRow
    PROVE  PublicTables([t EXCEPT ![i] = r], M)
  <1>1. i \in Id /\ i \notin Sites
    BY IdsAssumption DEF Id
  <1>2. [t EXCEPT ![i] = r] \in [Id -> PublicPageRow \cup Row \cup {NoRow}]
    BY <1>1 DEF PublicTables
  <1>3. /\ [t EXCEPT ![i] = r][i] = r
        /\ \A j \in Id : j # i => [t EXCEPT ![i] = r][j] = t[j]
    BY <1>1 DEF PublicTables
  <1>4. \A j \in PageIds : [t EXCEPT ![i] = r][j] \in PublicPageRow \cup {NoRow}
    BY <1>3 DEF PublicTables, Id
  <1>5. \A w \in Sites : [t EXCEPT ![i] = r][w] \in SiteRow \cup {NoRow}
    BY <1>1, <1>3 DEF PublicTables, Id
  <1> QED
    BY <1>2, <1>4, <1>5 DEF PublicTables

\* Every edit of a page or a website leaves typed tables.
LEMMA EditSafe ==
    ASSUME PublicSafe, Edit
    PROVE  PublicSafe'
  <1>1. PublicTables(rows, members)
    BY DEF PublicSafe
  <1>2. ASSUME NEW i \in LivePages(rows)
        PROVE  i \in PageIds /\ i \in Id /\ rows[i] \in PublicPageRow
    BY <1>1, PageFields
  <1>3. ASSUME NEW i \in PageIds, NEW r \in PublicPageRow, EditRows([rows EXCEPT ![i] = r])
        PROVE  PublicSafe'
    <2>1. PublicTables([rows EXCEPT ![i] = r], members)
      BY <1>1, PagePut
    <2> QED
      BY <1>3, <2>1, EditRowsSafe
  <1>4. ASSUME NEW i \in PageIds, Publish(i)
        PROVE  PublicSafe'
    <2>1. [rows[i] EXCEPT !.published = TRUE] \in PublicPageRow
      BY <1>2, <1>4 DEF Publish, PublicPageRow
    <2> QED
      BY <1>3, <1>4, <2>1 DEF Publish
  <1>5. ASSUME NEW i \in PageIds, Unpublish(i)
        PROVE  PublicSafe'
    <2>1. [rows[i] EXCEPT !.published = FALSE] \in PublicPageRow
      BY <1>2, <1>5 DEF Unpublish, PublicPageRow
    <2> QED
      BY <1>3, <1>5, <2>1 DEF Unpublish
  <1>6. ASSUME NEW i \in PageIds, PatchPage(i)
        PROVE  PublicSafe'
    <2>1. i \in LivePages(rows) /\ rows[i] \in PublicPageRow
      BY <1>2, <1>6 DEF PatchPage
    <2>2. ASSUME NEW u \in Urls, EditRows([rows EXCEPT ![i].url = u])
          PROVE  PublicSafe'
      <3>1. [rows[i] EXCEPT !.url = u] \in PublicPageRow
        BY <2>1 DEF PublicPageRow
      <3> QED
        BY <1>3, <2>2, <3>1
    <2>3. ASSUME NEW tier \in Tiers, NEW R \in SUBSET Roles,
                 EditRows([rows EXCEPT ![i].tier = tier, ![i].roles = R])
          PROVE  PublicSafe'
      <3>1. [[rows[i] EXCEPT !.tier = tier] EXCEPT !.roles = R] \in PublicPageRow
        BY <2>1 DEF PublicPageRow
      <3>2. [rows EXCEPT ![i].tier = tier, ![i].roles = R] =
              [rows EXCEPT ![i] = [[rows[i] EXCEPT !.tier = tier] EXCEPT !.roles = R]]
        BY <1>1, <2>1, <1>2 DEF PublicTables
      <3> QED
        BY <1>3, <2>3, <3>1, <3>2
    <2>4. ASSUME NEW b \in BOOLEAN, EditRows([rows EXCEPT ![i].indexed = b])
          PROVE  PublicSafe'
      <3>1. [rows[i] EXCEPT !.indexed = b] \in PublicPageRow
        BY <2>1 DEF PublicPageRow
      <3> QED
        BY <1>3, <2>4, <3>1
    <2> QED
      BY <1>6, <2>2, <2>3, <2>4 DEF PatchPage
  <1>7. ASSUME NEW i \in PageIds, DeletePage(i)
        PROVE  PublicSafe'
    <2>1. [rows[i] EXCEPT !.live = FALSE] \in PublicPageRow
      BY <1>2, <1>7 DEF DeletePage, PublicPageRow
    <2> QED
      BY <1>3, <1>7, <2>1 DEF DeletePage
  <1>8. ASSUME NEW i \in PageIds, DatePasses(i)
        PROVE  PublicSafe'
    <2>1. rows[i] \in PublicPageRow
      BY <1>1, <1>8 DEF DatePasses, PublicTables
    <2>2. [rows[i] EXCEPT !.due = TRUE] \in PublicPageRow
      BY <2>1 DEF PublicPageRow
    <2> QED
      BY <1>3, <1>8, <2>2 DEF DatePasses
  <1>9. ASSUME NEW i \in PageIds, NEW j \in PageIds, NEW w \in Sites, ForkPage(i, j, w)
        PROVE  PublicSafe'
    <2>1. [rows[i] EXCEPT !.scope = w] \in PublicPageRow
      BY <1>2, <1>9 DEF ForkPage, PublicPageRow, Scopes
    <2> QED
      BY <1>3, <1>9, <2>1 DEF ForkPage
  <1>10. ASSUME NEW w \in Sites, DeleteWebsite(w)
         PROVE  PublicSafe'
    <2>1. w \in Id /\ w \notin PageIds /\ rows[w] \in SiteRow
      BY <1>1, <1>10, IdsAssumption DEF DeleteWebsite, LiveSites, PublicTables, Id
    <2>2. PICK r : r = [rows[w] EXCEPT !.live = FALSE]
      OBVIOUS
    <2>3. r \in SiteRow
      BY <2>1, <2>2 DEF SiteRow
    <2>4. PICK t : t = [rows EXCEPT ![w] = r]
      OBVIOUS
    <2>5. t[w] = r /\ \A x \in Id : x # w => t[x] = rows[x]
      BY <1>1, <2>1, <2>4 DEF PublicTables
    <2>6. t \in [Id -> PublicPageRow \cup Row \cup {NoRow}]
      BY <1>1, <2>3, <2>4 DEF PublicTables, Row
    <2>7. /\ \A i \in PageIds : t[i] \in PublicPageRow \cup {NoRow}
          /\ \A v \in Sites : t[v] \in SiteRow \cup {NoRow}
      BY <1>1, <2>1, <2>3, <2>5 DEF PublicTables, Id
    <2>8. PublicTables(t, members)
      BY <1>1, <2>6, <2>7 DEF PublicTables
    <2>9. EditRows(t)
      BY <1>10, <2>2, <2>4 DEF DeleteWebsite
    <2> QED
      BY <2>8, <2>9, EditRowsSafe
  <1>11. ASSUME NEW w \in Sites, NEW u \in Users, NEW r \in Roles, EditMembers(w, u, r)
         PROVE  PublicSafe'
    <2>1. members' \subseteq Sites \X Users \X Roles /\ rows' = rows /\ Watched(rows, members')
      BY <1>1, <1>11 DEF EditMembers, PublicTables
    <2>2. PICK M : M = members'
      OBVIOUS
    <2>3. PublicTables(rows, M) /\ Watched(rows, M)
      BY <1>1, <2>1, <2>2 DEF PublicTables
    <2> QED
      BY <2>1, <2>2, <2>3, WatchedSafe DEF PublicSafe
  <1> QED
    BY <1>4, <1>5, <1>6, <1>7, <1>8, <1>9, <1>10, <1>11 DEF Edit
-----------------------------------------------------------------------------
\* A step of one request that leaves the tables alone.
LEMMA ReadStep ==
    ASSUME PublicSafe, NEW p \in Readers, NEW g \in Reading, UNCHANGED <<rows, members>>,
           reading' = [reading EXCEPT ![p] = g], ReadingFits(g, rows, members)
    PROVE  PublicSafe'
  <1>1. /\ reading' \in [Readers -> Reading] /\ reading'[p] = g
        /\ \A q \in Readers \ {p} : reading'[q] = reading[q]
    BY DEF PublicSafe
  <1>2. \A q \in Readers : ReadingFits(reading'[q], rows, members)
    BY <1>1 DEF PublicSafe
  <1> QED
    BY <1>1, <1>2 DEF PublicSafe

\* A request that is answered with what is true of its history.
LEMMA ReturnSafe ==
    ASSUME PublicSafe, NEW p \in Readers, NEW a \in PublicAnswers, UNCHANGED <<rows, members>>,
           Return(p, a),
           a = "served" => \E s \in reading[p].shown : Admits(s, reading[p].who, reading[p].held),
           a = "refused" => \E s \in reading[p].shown : s.tier # "public",
           a = "missing" => reading[p].hidden,
           a = "listed" => reading[p].always \subseteq reading[p].listed
    PROVE  PublicSafe'
  <1>1. PICK f : f = reading[p]
    OBVIOUS
  <1>2. PICK g : g = [[f EXCEPT !.pc = "idle"] EXCEPT !.answer = a]
    OBVIOUS
  <1>3. f \in Reading
    BY <1>1 DEF PublicSafe
  <1>4. /\ g \in Reading /\ g.pc = "idle" /\ g.answer = a /\ g.shown = f.shown /\ g.who = f.who
        /\ g.held = f.held /\ g.hidden = f.hidden /\ g.always = f.always /\ g.listed = f.listed
    BY <1>2, <1>3 DEF Reading
  <1>5. reading' = [reading EXCEPT ![p] = g]
    BY <1>1, <1>2 DEF Return, PublicSafe
  <1>6. TrueAnswer(g)
    BY <1>1, <1>4 DEF TrueAnswer
  <1>7. ReadingFits(g, rows, members)
    BY <1>4, <1>6 DEF ReadingFits, ReadLabels, WalkLabels
  <1> QED
    BY <1>4, <1>5, <1>7, ReadStep

\* A request that goes on to its next statement.
LEMMA MovesSafe ==
    ASSUME PublicSafe, NEW p \in Readers, NEW label \in {"blocks"} \cup WalkLabels,
           UNCHANGED <<rows, members>>, Moves(p, label),
           label = "blocks" => reading[p].pc \in ReadLabels
             /\ \E s \in reading[p].shown : Admits(s, reading[p].who, reading[p].held),
           label \in WalkLabels => reading[p].pc \in WalkLabels
    PROVE  PublicSafe'
  <1>1. PICK f : f = reading[p]
    OBVIOUS
  <1>2. PICK g : g = [f EXCEPT !.pc = label]
    OBVIOUS
  <1>3. f \in Reading /\ ReadingFits(f, rows, members)
    BY <1>1 DEF PublicSafe
  <1>4. /\ g \in Reading /\ g.pc = label /\ g.site = f.site /\ g.url = f.url /\ g.shown = f.shown
        /\ g.who = f.who /\ g.held = f.held /\ g.hidden = f.hidden /\ g.always = f.always
        /\ g.listed = f.listed /\ g.cursor = f.cursor
    BY <1>2, <1>3 DEF Reading, ReadLabels, WalkLabels
  <1>5. reading' = [reading EXCEPT ![p] = g]
    BY <1>1, <1>2 DEF Moves, PublicSafe
  <1>6. CASE label = "blocks"
    <2>1. Seen(f, rows, members)
      BY <1>1, <1>3, <1>6 DEF ReadingFits
    <2>2. Seen(g, rows, members)
      BY <1>4, <2>1 DEF Seen
    <2>3. ReadingFits(g, rows, members)
      BY <1>1, <1>4, <1>6, <2>2 DEF ReadingFits, WalkLabels
    <2> QED
      BY <1>4, <1>5, <2>3, ReadStep
  <1>7. CASE label \in WalkLabels
    <2>1. Owed(f, rows)
      BY <1>1, <1>3, <1>7 DEF ReadingFits
    <2>2. Owed(g, rows)
      BY <1>4, <2>1 DEF Owed
    <2>3. ReadingFits(g, rows, members)
      BY <1>4, <1>7, <2>2 DEF ReadingFits, ReadLabels, WalkLabels
    <2> QED
      BY <1>4, <1>5, <2>3, ReadStep
  <1> QED
    BY <1>6, <1>7

\* A new request holds nothing.
LEMMA RestFields ==
    ASSUME NEW a \in PublicAnswers
    PROVE  /\ Rest(a) \in Reading /\ Rest(a).pc = "idle" /\ Rest(a).answer = a
           /\ Rest(a).always = {} /\ Rest(a).listed = {} /\ Rest(a).cursor = 0
  BY DEF Rest, Reading

\* The host of a request is bound, or it is answered at once.
LEMMA BeginReadSafe ==
    ASSUME PublicSafe, NEW p \in Readers, NEW w \in Sites, NEW u \in Urls,
           NEW who \in Users \cup {None}, BeginRead(p, w, u, who)
    PROVE  PublicSafe'
  <1>1. UNCHANGED <<rows, members>>
    BY DEF BeginRead, ReadsOnly
  <1>2. CASE w \in LiveSites(rows)
    <2>1. PICK r : r = Rest("none")
      OBVIOUS
    <2>2. PICK f : f = [[[[r EXCEPT !.pc = "resolve"] EXCEPT !.site = w] EXCEPT !.url = u]
                          EXCEPT !.who = who]
      OBVIOUS
    <2>3. r \in Reading
      BY <2>1, RestFields DEF PublicAnswers
    <2>4. f \in Reading /\ f.pc = "resolve"
      BY <2>2, <2>3 DEF Reading, ReadLabels
    <2>5. reading' = [reading EXCEPT ![p] = Watch(f, rows, members)]
      BY <1>2, <2>1, <2>2 DEF BeginRead
    <2>6. PICK g : g = Watch(f, rows, members)
      OBVIOUS
    <2>7. g \in Reading /\ g.pc = "resolve" /\ Seen(g, rows, members)
      BY <2>4, <2>6, WatchFields DEF PublicSafe
    <2>8. ReadingFits(g, rows, members)
      BY <2>7 DEF ReadingFits, WalkLabels
    <2> QED
      BY <1>1, <2>5, <2>6, <2>7, <2>8, ReadStep
  <1>3. CASE w \notin LiveSites(rows)
    <2>1. Return(p, "unbound") /\ "unbound" \in PublicAnswers
      BY <1>3 DEF BeginRead, PublicAnswers
    <2> QED
      BY <1>1, <2>1, ReturnSafe
  <1> QED
    BY <1>2, <1>3

\* What the resolver finds is what the history has last seen.
LEMMA ReadPageSafe ==
    ASSUME PublicSafe, NEW p \in Readers, ReadPage(p)
    PROVE  PublicSafe'
  <1>1. PICK f : f = reading[p]
    OBVIOUS
  <1>2. /\ f \in Reading /\ f.pc = "resolve" /\ Seen(f, rows, members)
        /\ UNCHANGED <<rows, members>> /\ PublicTables(rows, members) /\ CollisionFree(rows)
    BY <1>1 DEF ReadPage, Stands, ReadsOnly, PublicSafe, ReadingFits, ReadLabels
  <1>3. CASE ResolvePageByUrl(rows, f.url, f.site) = {} /\ Return(p, "missing")
    <2>1. f.hidden /\ "missing" \in PublicAnswers
      BY <1>2, <1>3 DEF Seen, PublicAnswers
    <2> QED
      BY <1>1, <1>2, <1>3, <2>1, ReturnSafe
  <1>4. ASSUME NEW i \in ResolvePageByUrl(rows, f.url, f.site),
               \/ ~Out(rows[i]) /\ Return(p, "missing")
               \/ /\ Out(rows[i])
                  /\ rows[i].tier = "public" \/ (rows[i].tier = "connected" /\ f.who # None)
                  /\ Moves(p, "blocks")
               \/ Out(rows[i]) /\ rows[i].tier # "public" /\ f.who = None /\ Return(p, "refused")
               \/ /\ Out(rows[i]) /\ rows[i].tier = "restricted" /\ f.who # None
                  /\ reading' = [reading EXCEPT ![p].pc = "members", ![p].required = rows[i].roles]
        PROVE  PublicSafe'
    <2>1. PICK s : s = [tier |-> rows[i].tier, roles |-> rows[i].roles]
      OBVIOUS
    <2>2. s.tier = rows[i].tier /\ s.roles = rows[i].roles /\ (Out(rows[i]) => s \in f.shown)
      BY <1>2, <2>1 DEF Seen
    <2>3. s \in Showings
      <3>1. i \in LivePages(rows)
        BY <1>2, AnswersLive
      <3> QED
        BY <1>2, <2>1, <3>1, PageFields
    <2>4. CASE ~Out(rows[i]) /\ Return(p, "missing")
      <3>1. \A j \in ResolvePageByUrl(rows, f.url, f.site) : j = i
        BY <1>2, OneAnswer
      <3>2. f.hidden /\ "missing" \in PublicAnswers
        BY <1>2, <2>4, <3>1 DEF Seen, PublicAnswers
      <3> QED
        BY <1>1, <1>2, <2>4, <3>2, ReturnSafe
    <2>5. CASE /\ Out(rows[i])
               /\ rows[i].tier = "public" \/ (rows[i].tier = "connected" /\ f.who # None)
               /\ Moves(p, "blocks")
      <3>1. s \in f.shown /\ Admits(s, f.who, f.held)
        BY <2>2, <2>5 DEF Admits
      <3> QED
        BY <1>1, <1>2, <2>5, <3>1, MovesSafe DEF ReadLabels, WalkLabels
    <2>6. CASE Out(rows[i]) /\ rows[i].tier # "public" /\ f.who = None /\ Return(p, "refused")
      <3>1. s \in f.shown /\ s.tier # "public" /\ "refused" \in PublicAnswers
        BY <2>2, <2>6 DEF PublicAnswers
      <3> QED
        BY <1>1, <1>2, <2>6, <3>1, ReturnSafe
    <2>7. CASE /\ Out(rows[i]) /\ rows[i].tier = "restricted" /\ f.who # None
               /\ reading' = [reading EXCEPT ![p].pc = "members", ![p].required = rows[i].roles]
      <3>1. PICK g : g = [[f EXCEPT !.pc = "members"] EXCEPT !.required = rows[i].roles]
        OBVIOUS
      <3>2. reading' = [reading EXCEPT ![p] = g]
        BY <1>1, <2>7, <3>1 DEF PublicSafe
      <3>3. rows[i].roles \in SUBSET Roles
        BY <2>2, <2>3 DEF Showings
      <3>4. /\ g \in Reading /\ g.pc = "members" /\ g.required = rows[i].roles /\ g.site = f.site
            /\ g.url = f.url /\ g.who = f.who /\ g.shown = f.shown /\ g.hidden = f.hidden
            /\ g.held = f.held
        BY <1>2, <3>1, <3>3 DEF Reading, ReadLabels
      <3>5. Seen(g, rows, members)
        BY <1>2, <3>4 DEF Seen
      <3>6. ReadingFits(g, rows, members)
        BY <2>2, <2>7, <3>4, <3>5 DEF ReadingFits, WalkLabels
      <3> QED
        BY <1>2, <3>2, <3>4, <3>6, ReadStep
    <2> QED
      BY <1>4, <2>4, <2>5, <2>6, <2>7
  <1> QED
    BY <1>1, <1>3, <1>4 DEF ReadPage

\* A membership that is found now was held at some moment of the request.
LEMMA ReadMembersSafe ==
    ASSUME PublicSafe, NEW p \in Readers, ReadMembers(p)
    PROVE  PublicSafe'
  <1>1. PICK f : f = reading[p]
    OBVIOUS
  <1>2. /\ f \in Reading /\ f.pc = "members" /\ Seen(f, rows, members) /\ f.who # None
        /\ UNCHANGED <<rows, members>> /\ PublicTables(rows, members)
    BY <1>1 DEF ReadMembers, Stands, ReadsOnly, PublicSafe, ReadingFits, ReadLabels
  <1>3. PICK s \in f.shown : s.tier = "restricted" /\ s.roles = f.required
    BY <1>1, <1>2 DEF PublicSafe, ReadingFits
  <1>4. CASE RolesHeld(f.site, f.who) \cap f.required # {}
    <2>1. PICK m \in members : m[1] = f.site /\ m[2] = f.who /\ m[3] \in f.required
      BY <1>4 DEF RolesHeld
    <2>2. m \in Sites \X Users \X Roles
      BY <1>2, <2>1 DEF PublicTables
    <2>3. m = <<f.site, f.who, m[3]>> /\ m[3] \in Roles
      BY <2>1, <2>2
    <2>4. m[3] \in f.held
      BY <1>2, <2>1, <2>3 DEF Seen
    <2>5. Admits(s, f.who, f.held)
      BY <1>2, <1>3, <2>1, <2>4 DEF Admits
    <2>6. Moves(p, "blocks")
      BY <1>1, <1>4 DEF ReadMembers
    <2> QED
      BY <1>1, <1>2, <2>5, <2>6, MovesSafe DEF ReadLabels, WalkLabels
  <1>5. CASE RolesHeld(f.site, f.who) \cap f.required = {}
    <2>1. Return(p, "refused") /\ "refused" \in PublicAnswers
      BY <1>1, <1>5 DEF ReadMembers, PublicAnswers
    <2> QED
      BY <1>1, <1>2, <1>3, <2>1, ReturnSafe
  <1> QED
    BY <1>4, <1>5

\* The page is served to whom its tier admitted.
LEMMA ReadBlocksSafe ==
    ASSUME PublicSafe, NEW p \in Readers, ReadBlocks(p)
    PROVE  PublicSafe'
  <1>1. /\ reading[p].pc = "blocks" /\ Return(p, "served") /\ UNCHANGED <<rows, members>>
        /\ "served" \in PublicAnswers
    BY DEF ReadBlocks, Stands, ReadsOnly, PublicAnswers
  <1>2. \E s \in reading[p].shown : Admits(s, reading[p].who, reading[p].held)
    BY <1>1 DEF PublicSafe, ReadingFits
  <1> QED
    BY <1>1, <1>2, ReturnSafe
-----------------------------------------------------------------------------
\* A walk owes what is listed when it begins.
LEMMA BeginWalkSafe ==
    ASSUME PublicSafe, NEW p \in Readers, NEW w \in Sites, BeginWalk(p, w)
    PROVE  PublicSafe'
  <1>1. UNCHANGED <<rows, members>> /\ PublicTables(rows, members)
    BY DEF BeginWalk, ReadsOnly, PublicSafe
  <1>2. PICK urls : urls = {rows[i].url : i \in Picked(rows, w)}
    OBVIOUS
  <1>3. \A u \in urls : u \in Nat \ {0}
    <2>1. \A i \in Picked(rows, w) : i \in LivePages(rows)
      BY <1>1, AnswersLive
    <2> QED
      BY <1>1, <1>2, <2>1, PageFields
  <1>4. PICK r : r = Rest("none")
    OBVIOUS
  <1>5. PICK g : g = [[[r EXCEPT !.pc = "page"] EXCEPT !.site = w] EXCEPT !.always = urls]
    OBVIOUS
  <1>6. r \in Reading /\ r.cursor = 0
    BY <1>4, RestFields DEF PublicAnswers
  <1>7. /\ g \in Reading /\ g.pc = "page" /\ g.site = w /\ g.always = urls /\ g.cursor = 0
    BY <1>3, <1>5, <1>6 DEF Reading, WalkLabels
  <1>8. reading' = [reading EXCEPT ![p] = g]
    BY <1>2, <1>4, <1>5 DEF BeginWalk
  <1>9. \A u \in g.always : ~(u <= g.cursor)
    BY <1>3, <1>7
  <1>10. Owed(g, rows)
    BY <1>2, <1>7, <1>9 DEF Owed
  <1>11. ReadingFits(g, rows, members)
    BY <1>7, <1>10 DEF ReadingFits, ReadLabels
  <1> QED
    BY <1>1, <1>7, <1>8, <1>11, ReadStep

\* The host of each page of the walk is bound again.
LEMMA BindWalkSafe ==
    ASSUME PublicSafe, NEW p \in Readers, BindWalk(p)
    PROVE  PublicSafe'
  <1>1. UNCHANGED <<rows, members>> /\ reading[p].pc \in WalkLabels /\ "unbound" \in PublicAnswers
    BY DEF BindWalk, Stands, ReadsOnly, WalkLabels, PublicAnswers
  <1>2. Moves(p, "list") \/ Return(p, "unbound")
    BY DEF BindWalk
  <1> QED
    BY <1>1, <1>2, MovesSafe, ReturnSafe DEF WalkLabels

\* A page of the sitemap pays what the walk owes up to its new cursor, and the last page all.
LEMMA ListUrlsSafe ==
    ASSUME PublicSafe, NEW p \in Readers, ListUrls(p)
    PROVE  PublicSafe'
  <1>1. PICK f : f = reading[p]
    OBVIOUS
  <1>2. /\ f \in Reading /\ f.pc = "list" /\ Owed(f, rows) /\ f.cursor \in Nat
        /\ UNCHANGED <<rows, members>> /\ PublicTables(rows, members)
    BY <1>1, ReadingFields
       DEF ListUrls, Stands, ReadsOnly, PublicSafe, ReadingFits, WalkLabels
  <1>3. PICK S : S = AfterCursor(f.site, f.cursor)
    OBVIOUS
  <1>4. PICK P \in Leading(S, Cap) :
          LET Found == {rows[i].url : i \in P}
          IN  reading' = [reading EXCEPT
                ![p].listed = @ \cup Found,
                ![p].cursor = IF HasNext(Cardinality(P)) THEN LastOf(Found) ELSE @,
                ![p].pc = IF HasNext(Cardinality(P)) THEN "page" ELSE "idle",
                ![p].answer = IF HasNext(Cardinality(P)) THEN @ ELSE "listed"]
    BY <1>1, <1>3 DEF ListUrls
  <1>5. /\ S \in SUBSET PageIds /\ \A i \in S : rows[i].url \in Nat
        /\ S = {i \in Picked(rows, f.site) : rows[i].url > f.cursor}
    <2>1. \A i \in Picked(rows, f.site) : i \in LivePages(rows)
      BY <1>2, AnswersLive
    <2> QED
      BY <1>2, <1>3, <2>1, PageFields DEF AfterCursor
  <1>6. /\ P \subseteq S
        /\ ~HasNext(Cardinality(P)) => P = S
        /\ HasNext(Cardinality(P)) => \E k \in P : /\ \A i \in P : rows[i].url <= rows[k].url
                                                   /\ \A j \in S \ P : rows[k].url <= rows[j].url
    BY <1>5, LeadingPage
  <1>7. PICK Found : Found = {rows[i].url : i \in P}
    OBVIOUS
  <1>8. Found \in SUBSET Nat
    BY <1>5, <1>6, <1>7
  <1>9. \A u \in f.always : u \in Nat /\ (u <= f.cursor => u \in f.listed)
          /\ (~(u <= f.cursor) => \E i \in S : u = rows[i].url)
    <2> SUFFICES ASSUME NEW u \in f.always, ~(u <= f.cursor)
                 PROVE  \E i \in S : u = rows[i].url
      BY <1>2, ReadingFields DEF Owed
    <2>1. PICK i \in Picked(rows, f.site) : u = rows[i].url
      BY <1>2 DEF Owed
    <2>2. u \in Nat
      BY <1>2, ReadingFields
    <2>3. rows[i].url > f.cursor
      BY <1>2, <2>1, <2>2
    <2> QED
      BY <1>5, <2>1, <2>3
  <1>10. CASE HasNext(Cardinality(P))
    <2>1. PICK k \in P : /\ \A i \in P : rows[i].url <= rows[k].url
                         /\ \A j \in S \ P : rows[k].url <= rows[j].url
      BY <1>6, <1>10
    <2>2. PICK last : last = LastOf(Found)
      OBVIOUS
    <2>3. last \in Found /\ \A v \in Found : v <= last
      <3>1. rows[k].url \in Found /\ \A v \in Found : v <= rows[k].url
        BY <1>7, <2>1
      <3> QED
        BY <2>2, <3>1 DEF LastOf
    <2>4. last \in Nat /\ last = rows[k].url
      <3>1. rows[k].url \in Found /\ last <= rows[k].url
        BY <1>7, <2>1, <2>3
      <3>2. rows[k].url <= last /\ last \in Nat /\ rows[k].url \in Nat
        BY <1>8, <2>3, <3>1
      <3> QED
        BY <3>1, <3>2
    <2>5. PICK g : g = [[[f EXCEPT !.listed = f.listed \cup Found] EXCEPT !.cursor = last]
                          EXCEPT !.pc = "page"]
      OBVIOUS
    <2>6. f.listed \cup Found \in SUBSET Nat
      BY <1>2, <1>8, ReadingFields
    <2>7. /\ g \in Reading /\ g.pc = "page" /\ g.site = f.site /\ g.always = f.always
          /\ g.cursor = last /\ g.listed = f.listed \cup Found
      BY <1>2, <2>4, <2>5, <2>6 DEF Reading, WalkLabels
    <2>8. reading' = [reading EXCEPT ![p] = g]
      <3>1. reading' = [reading EXCEPT ![p] =
              [[[[f EXCEPT !.listed = f.listed \cup Found] EXCEPT !.cursor = last]
                   EXCEPT !.pc = "page"] EXCEPT !.answer = f.answer]]
        BY <1>1, <1>4, <1>7, <1>10, <2>2, <1>2 DEF Reading, PublicSafe
      <3>2. [g EXCEPT !.answer = f.answer] = g
        BY <1>2, <2>5 DEF Reading
      <3> QED
        BY <2>5, <3>1, <3>2
    <2>9. ASSUME NEW u \in g.always, u <= g.cursor
          PROVE  u \in g.listed
      <3>1. CASE u <= f.cursor
        BY <1>9, <2>7, <3>1
      <3>2. CASE ~(u <= f.cursor)
        <4>1. PICK i \in S : u = rows[i].url
          BY <1>9, <2>7, <3>2
        <4>2. CASE i \in P
          BY <1>7, <2>7, <4>1, <4>2
        <4>3. CASE i \notin P
          <5>1. last <= u /\ u <= last /\ u \in Nat
            BY <1>9, <2>1, <2>4, <2>7, <2>9, <4>1, <4>3
          <5>2. u = last
            BY <2>4, <5>1
          <5> QED
            BY <2>3, <2>7, <5>2
        <4> QED
          BY <4>2, <4>3
      <3> QED
        BY <3>1, <3>2
    <2>10. ReadingFits(g, rows, members)
      BY <1>2, <2>7, <2>9 DEF ReadingFits, Owed, ReadLabels
    <2> QED
      BY <1>2, <2>7, <2>8, <2>10, ReadStep
  <1>11. CASE ~HasNext(Cardinality(P))
    <2>1. PICK g : g = [[[f EXCEPT !.listed = f.listed \cup Found] EXCEPT !.pc = "idle"]
                          EXCEPT !.answer = "listed"]
      OBVIOUS
    <2>2. f.listed \cup Found \in SUBSET Nat
      BY <1>2, <1>8, ReadingFields
    <2>3. /\ g \in Reading /\ g.pc = "idle" /\ g.always = f.always /\ g.answer = "listed"
          /\ g.listed = f.listed \cup Found
      BY <1>2, <2>1, <2>2 DEF Reading, PublicAnswers
    <2>4. reading' = [reading EXCEPT ![p] = g]
      <3>1. reading' = [reading EXCEPT ![p] =
              [[[[f EXCEPT !.listed = f.listed \cup Found] EXCEPT !.cursor = f.cursor]
                   EXCEPT !.pc = "idle"] EXCEPT !.answer = "listed"]]
        BY <1>1, <1>2, <1>4, <1>7, <1>11 DEF Reading, PublicSafe
      <3>2. [[f EXCEPT !.listed = f.listed \cup Found] EXCEPT !.cursor = f.cursor] =
              [f EXCEPT !.listed = f.listed \cup Found]
        BY <1>2 DEF Reading
      <3> QED
        BY <2>1, <3>1, <3>2
    <2>5. g.always \subseteq g.listed
      BY <1>6, <1>7, <1>9, <1>11, <2>3
    <2>6. ReadingFits(g, rows, members)
      BY <2>3, <2>5 DEF ReadingFits, TrueAnswer, ReadLabels, WalkLabels
    <2> QED
      BY <1>2, <2>3, <2>4, <2>6, ReadStep
  <1> QED
    BY <1>10, <1>11
-----------------------------------------------------------------------------
\* The requests start at rest, over tables the indexes allow.
LEMMA PublicInitSafe == PublicInit => PublicSafe
  <1> SUFFICES ASSUME PublicInit PROVE PublicSafe
    OBVIOUS
  <1>1. PublicTables(rows, members) /\ CollisionFree(rows)
    BY StartsAssumption DEF PublicInit
  <1>2. PICK r : r = Rest("none")
    OBVIOUS
  <1>3. r \in Reading /\ r.pc = "idle" /\ r.answer = "none"
    BY <1>2, RestFields DEF PublicAnswers
  <1>4. ReadingFits(r, rows, members)
    BY <1>3 DEF ReadingFits, TrueAnswer, ReadLabels, WalkLabels
  <1>5. reading = [p \in Readers |-> r]
    BY <1>2 DEF PublicInit
  <1> QED
    BY <1>1, <1>3, <1>4, <1>5 DEF PublicSafe

\* Every statement of a request, and every edit beside it, keeps the invariant.
LEMMA PublicNextSafe == PublicSafe /\ [PublicNext]_publicVars => PublicSafe'
  <1> SUFFICES ASSUME PublicSafe, [PublicNext]_publicVars PROVE PublicSafe'
    OBVIOUS
  <1>1. CASE Edit
    BY <1>1, EditSafe
  <1>2. ASSUME NEW p \in Readers, Read(p) \/ Walk(p)
        PROVE  PublicSafe'
    BY <1>2, BeginReadSafe, ReadPageSafe, ReadMembersSafe, ReadBlocksSafe, BeginWalkSafe,
       BindWalkSafe, ListUrlsSafe DEF Read, Walk
  <1>3. CASE UNCHANGED publicVars
    BY <1>3 DEF publicVars, PublicSafe
  <1> QED
    BY <1>1, <1>2, <1>3 DEF PublicNext

\* The inductive invariant of the public reads holds in every behaviour.
THEOREM PublicSafeAlways == PublicSpec => []PublicSafe
  BY PublicInitSafe, PublicNextSafe, PTL DEF PublicSpec

\* No answer to a page request was never true: whatever is published, patched, forked, deleted
\* or granted between its statements, a page was admissible when it is served, needed more than
\* nothing when it is refused, and had no visible answer when it is missing.
THEOREM AnswersTrue == PublicSpec => []AnswersAreTrue
  <1>1. PublicSafe => AnswersAreTrue
    BY DEF PublicSafe, ReadingFits, TrueAnswer, AnswersAreTrue
  <1> QED
    BY <1>1, PublicSafeAlways, PTL

\* A walk along the sitemap's cursor is given every url that was listed all the while.
THEOREM SitemapWhole == PublicSpec => []SitemapComplete
  <1>1. PublicSafe => SitemapComplete
    BY DEF PublicSafe, ReadingFits, TrueAnswer, SitemapComplete
  <1> QED
    BY <1>1, PublicSafeAlways, PTL
=============================================================================
