---------------------------- MODULE SitesProofs ----------------------------
(***************************************************************************)
(* Proofs about the root service over the website table: whatever          *)
(* bootstraps, patches and deletions interleave with each other and with   *)
(* the fanout of the homepage, a website is whole or absent, its domain    *)
(* and its public principal are its own, the host it was given finds it,   *)
(* and the deletion guard leaves a company its primary.                    *)
(***************************************************************************)
EXTENDS Sites, TLAPS, SequenceTheorems, WellFoundedInduction

Labels == {"idle", "create.site", "create.resolve", "create.seed", "create.fork", "patch.update",
           "delete.site", "delete.primary", "delete.update", "commit"}
Outcomes == {"none", "Created", "Patched", "Deleted"}
Answers == Outcomes \cup {"aborted", "Db", "NotFound", "SpecificityConflict",
                          "WebsiteIsPrimaryForCompany"}
Entries == {"Main", "Home"}
Table == [SiteIds -> SiteRow \cup {NoRow}]
Frame == [pc : Labels, id : SiteIds \cup {None}, row : SiteRow \cup {NoRow},
          page : GenericIds \cup {None}, pageRow : PageRow \cup {NoRow},
          home : HomeRow \cup {NoRow}, entries : SUBSET Entries, officer : BOOLEAN,
          seen : Table \cup {<< >>}, patch : SiteRow \cup Patches \cup {<< >>},
          done : Outcomes, answer : Answers]

-----------------------------------------------------------------------------
(* The inductive invariant.  What a frame holds is related to the tables   *)
(* si and ge it will write to.                                             *)

Alive(ge, g) == ge[g] # NoRow /\ ge[g].live
Sound(r) == r.domain = Domain(r.typed)

\* As create_website makes it.
New(r) == r \in SiteRow /\ Sound(r) /\ r.opened = r.homepage

\* The transaction wrote nothing.
Bare(f) == f.row = NoRow /\ f.pageRow = NoRow /\ f.home = NoRow /\ f.entries = {}

\* A pending website: its columns are those of no other website.
RowFits(f, si) ==
    f.row # NoRow => /\ f.id \in SiteIds /\ Sound(f.row)
                     /\ \A v \in SiteIds \ {f.id} : ~Collide(f.row, si[v])

\* A pending seed is the only one.
SeedFits(f, ge) == f.pageRow # NoRow => \A g \in GenericIds : ~Alive(ge, g)

Fresh(f, si) ==
    f.id \in SiteIds /\ f.row # NoRow /\ si[f.id] = NoRow /\ f.row.opened = f.row.homepage

\* The page to fork is there, committed or in the transaction itself.
Grounded(f, ge) == f.page \in GenericIds /\ (ge[f.page] # NoRow \/ f.pageRow # NoRow)

\* An update of a row that is there.
Keeps(f, si) ==
    /\ f.id \in SiteIds /\ f.row # NoRow /\ si[f.id] # NoRow
    /\ f.row.company = si[f.id].company /\ f.row.opened = si[f.id].opened
    /\ f.pageRow = NoRow /\ f.home = NoRow /\ f.entries = {}

\* Another live website of the company comes before w.
Spared(s, w) ==
    (s[w] # NoRow /\ s[w].live) =>
      \E v \in SiteIds \ {w} : /\ s[v] # NoRow /\ s[v].live /\ s[v].company = s[w].company
                               /\ s[v].sequence <= s[w].sequence

LabelFits(f, si, ge) ==
    CASE f.pc = "idle" -> Bare(f)
      [] f.pc = "create.site" -> Bare(f) /\ New(f.patch)
      [] f.pc = "patch.update" -> Bare(f) /\ f.id \in SiteIds /\ f.patch \in Patches
      [] f.pc = "delete.site" -> Bare(f) /\ f.id \in SiteIds
      [] f.pc = "delete.primary" -> /\ Bare(f) /\ f.id \in SiteIds /\ f.seen \in Table
                                    /\ f.seen[f.id] # NoRow /\ si[f.id] # NoRow
                                    /\ f.seen[f.id].company = si[f.id].company
      [] f.pc = "delete.update" -> /\ Bare(f) /\ f.id \in SiteIds /\ si[f.id] # NoRow
                                   /\ Spared(f.seen, f.id)
      [] f.pc \in {"create.resolve", "create.seed"} ->
           Fresh(f, si) /\ f.pageRow = NoRow /\ f.home = NoRow /\ f.entries = {}
      [] f.pc = "create.fork" -> Fresh(f, si) /\ Grounded(f, ge)
      [] f.pc = "commit" ->
           /\ \/ /\ f.done = "Created" /\ Fresh(f, si) /\ Grounded(f, ge)
                 /\ f.home = [from |-> f.page, url |-> f.row.homepage] /\ f.entries = Entries
              \/ f.done = "Patched" /\ Keeps(f, si)
              \/ f.done = "Deleted" /\ Keeps(f, si) /\ Spared(f.seen, f.id)

Fits(f, si, ge) == RowFits(f, si) /\ SeedFits(f, ge) /\ LabelFits(f, si, ge)

\* Two requests write different rows that do not collide, and one of them seeds.
Parted(f, h) ==
    /\ (f.row # NoRow /\ h.row # NoRow) => f.id # h.id /\ ~Collide(f.row, h.row)
    /\ f.pageRow = NoRow \/ h.pageRow = NoRow

Tables ==
    /\ sites \in Table /\ homes \in [SiteIds -> HomeRow \cup {NoRow}]
    /\ menus \in [SiteIds -> SUBSET Entries] /\ generic \in [GenericIds -> PageRow \cup {NoRow}]
    /\ \A w \in SiteIds : sites[w] # NoRow => Sound(sites[w])
    /\ \A w, v \in SiteIds : w # v => ~Collide(sites[w], sites[v])
    /\ \A g, h \in GenericIds : (Alive(generic, g) /\ Alive(generic, h)) => g = h
    /\ BootstrapWhole

Safe ==
    /\ Tables /\ tx \in [Procs -> Frame]
    /\ \A p \in Procs : Fits(tx[p], sites, generic)
    /\ \A p, q \in Procs : p # q => Parted(tx[p], tx[q])
-----------------------------------------------------------------------------
\* A set of numbers that is not empty has a least one.
LEMMA LeastIs ==
    ASSUME NEW T \in SUBSET Nat, T # {}
    PROVE  Least(T) \in T /\ \A v \in T : Least(T) <= v
  <1> DEFINE R == OpToRel(<, Nat)
  <1>1. IsWellFoundedOn(R, Nat)
    BY NatLessThanWellFounded
  <1>2. \A x, y \in Nat : <<x, y>> \in R <=> x < y
    BY DEF OpToRel
  <1> HIDE DEF R
  <1>3. PICK w \in T : \A y \in T : ~(<<y, w>> \in R)
    BY <1>1, WFMin
  <1>4. ASSUME NEW y \in T
        PROVE  w <= y
    <2>1. w \in Nat /\ y \in Nat
      OBVIOUS
    <2>2. ~(y < w)
      BY <1>2, <1>3, <2>1
    <2> QED
      BY <2>1, <2>2
  <1> QED
    BY <1>3, <1>4 DEF Least

\* Trimming yields a beginning of the tail.
LEMMA TrimEndType ==
    ASSUME NEW S, NEW tail \in Seq(S), NEW c
    PROVE  TrimEnd(tail, c) \in Seq(S)
  <1> DEFINE T == {n \in 0..Len(tail) : \A k \in n + 1..Len(tail) : tail[k] = c}
  <1>1. Len(tail) \in Nat
    OBVIOUS
  <1>2. Len(tail) \in T
    BY <1>1
  <1>3. T \in SUBSET Nat /\ T # {}
    BY <1>1, <1>2
  <1>4. Least(T) \in T
    <2> HIDE DEF T
    <2> QED
      BY <1>3, LeastIs
  <1>5. Least(T) \in 0..Len(tail)
    BY <1>4
  <1>6. PICK m \in 0..Len(tail) : m = Least(T)
    BY <1>5
  <1>7. \A i \in 1..m : tail[i] \in S
    BY <1>1, <1>6
  <1>8. SubSeq(tail, 1, m) \in Seq(S)
    BY <1>1, <1>6, <1>7, SubSeqProperties
  <1> QED
    BY <1>6, <1>8 DEF TrimEnd

\* A tail with nothing but c in it is trimmed away.
LEMMA TrimEndAll ==
    ASSUME NEW S, NEW tail \in Seq(S), NEW c, \A k \in 1..Len(tail) : tail[k] = c
    PROVE  TrimEnd(tail, c) = << >>
  <1> DEFINE T == {n \in 0..Len(tail) : \A k \in n + 1..Len(tail) : tail[k] = c}
  <1>1. Len(tail) \in Nat
    OBVIOUS
  <1>2. 0 \in T
    BY <1>1
  <1>3. T \in SUBSET Nat /\ T # {}
    BY <1>1, <1>2
  <1>4. Least(T) \in Nat /\ Least(T) <= 0
    <2> HIDE DEF T
    <2> QED
      BY <1>2, <1>3, LeastIs
  <1>5. Least(T) = 0
    BY <1>4
  <1>6. SubSeq(tail, 1, 0) = << >>
    BY <1>1, SubSeqEmpty
  <1> QED
    BY <1>5, <1>6 DEF TrimEnd

\* A name as it comes in a Host header keeps nothing behind it.
LEMMA HeaderNormalised ==
    ASSUME NEW h \in HostType, HeaderHost(h)
    PROVE  NormalizeHost(h) = [name |-> h.name, odd |-> FALSE, tail |-> << >>]
  <1> DEFINE Kind == {"port", "dot", "slash"}
  <1>1. PICK t \in Seq(Kind) : t = h.tail
    BY DEF HostType
  <1>2. t \in {<< >>, <<"port">>, <<"dot">>, <<"dot", "port">>}
    BY <1>1 DEF HeaderHost
  <1>3. PICK s \in Seq(Kind) : s = StripPort(t) /\ \A k \in 1..Len(s) : s[k] = "dot"
    <2>1. CASE t = << >>
      <3>1. StripPort(t) = << >>
        BY <2>1 DEF StripPort
      <3>2. << >> \in Seq(Kind) /\ \A k \in 1..Len(<< >>) : << >>[k] = "dot"
        OBVIOUS
      <3> QED
        BY <3>1, <3>2
    <2>2. CASE t = <<"port">>
      <3>1. Len(t) = 1 /\ t[Len(t)] = "port" /\ t # << >>
        BY <2>2
      <3>2. StripPort(t) = SubSeq(t, 1, 0)
        BY <3>1 DEF StripPort
      <3>3. SubSeq(t, 1, 0) = << >>
        BY SubSeqEmpty
      <3>4. StripPort(t) = << >>
        BY <3>2, <3>3
      <3>5. << >> \in Seq(Kind) /\ \A k \in 1..Len(<< >>) : << >>[k] = "dot"
        OBVIOUS
      <3> QED
        BY <3>4, <3>5
    <2>3. CASE t = <<"dot">>
      <3>1. Len(t) = 1 /\ t[1] = "dot"
        BY <2>3
      <3>2. StripPort(t) = t
        BY <2>3, <3>1 DEF StripPort
      <3>3. \A k \in 1..Len(t) : t[k] = "dot"
        BY <3>1
      <3> QED
        BY <3>2, <3>3
    <2>4. CASE t = <<"dot", "port">>
      <3>1. Len(t) = 2 /\ t[Len(t)] = "port" /\ t # << >> /\ t[1] = "dot"
        BY <2>4
      <3>2. StripPort(t) = SubSeq(t, 1, 1)
        BY <3>1 DEF StripPort
      <3>3. \A i \in 1..1 : t[i] \in Kind
        BY <3>1
      <3>4. PICK u : u = SubSeq(t, 1, 1)
        OBVIOUS
      <3>5. u \in Seq(Kind) /\ Len(u) = 1 /\ \A i \in 1..1 : u[i] = t[1 + i - 1]
        BY <3>3, <3>4, SubSeqProperties
      <3>6. \A k \in 1..Len(u) : u[k] = "dot"
        BY <3>1, <3>5
      <3> QED
        BY <3>2, <3>4, <3>5, <3>6
    <2> QED
      BY <1>2, <2>1, <2>2, <2>3, <2>4
  <1>6. TrimEnd(s, "dot") = << >>
    BY <1>3, TrimEndAll
  <1>7. TrimEnd(<< >>, "slash") = << >>
    <2>1. << >> \in Seq(Kind) /\ \A k \in 1..Len(<< >>) : << >>[k] = "slash"
      OBVIOUS
    <2> QED
      BY <2>1, TrimEndAll
  <1> QED
    BY <1>1, <1>3, <1>6, <1>7 DEF NormalizeHost

\* The normal form is a host, and never the missing domain.
LEMMA NormalizeType ==
    ASSUME NEW h \in HostType
    PROVE  NormalizeHost(h) \in HostType /\ NormalizeHost(h) # None
  <1> DEFINE Kind == {"port", "dot", "slash"}
  <1>1. PICK t \in Seq(Kind) : t = h.tail
    BY DEF HostType
  <1>2. StripPort(t) \in Seq(Kind)
    <2>1. Len(t) \in Nat
      OBVIOUS
    <2>2. ASSUME t # << >>
          PROVE  SubSeq(t, 1, Len(t) - 1) \in Seq(Kind)
      <3>1. Len(t) >= 1
        BY <2>1, <2>2
      <3> QED
        BY <2>1, <3>1
    <2> QED
      BY <2>2 DEF StripPort
  <1>3. PICK s \in Seq(Kind) : s = StripPort(t)
    BY <1>2
  <1>4. PICK d \in Seq(Kind) : d = TrimEnd(s, "dot")
    BY TrimEndType
  <1>5. TrimEnd(d, "slash") \in Seq(Kind)
    BY TrimEndType
  <1>6. NormalizeHost(h) = [name |-> h.name, odd |-> FALSE, tail |-> TrimEnd(d, "slash")]
    BY <1>1, <1>3, <1>4 DEF NormalizeHost
  <1>7. NormalizeHost(h) \in HostType
    BY <1>5, <1>6 DEF HostType
  <1> QED
    BY <1>7, NullsAssumption

\* The two normalisations of a Host header are one.
LEMMA HeaderTwice ==
    ASSUME NEW h \in HostType, HeaderHost(h)
    PROVE  NormalizeHost(NormalizeHost(h)) = NormalizeHost(h)
  <1>1. NormalizeHost(h) = [name |-> h.name, odd |-> FALSE, tail |-> << >>]
    BY HeaderNormalised
  <1>2. PICK n \in HostType : n = NormalizeHost(h)
    BY NormalizeType
  <1>3. n.name = h.name /\ n.tail = << >>
    BY <1>1, <1>2
  <1>4. HeaderHost(n)
    BY <1>3 DEF HeaderHost
  <1>5. NormalizeHost(n) = [name |-> n.name, odd |-> FALSE, tail |-> << >>]
    BY <1>4, HeaderNormalised
  <1> QED
    BY <1>1, <1>2, <1>3, <1>5

\* A stored domain is a host or missing.
LEMMA DomainType ==
    ASSUME NEW t \in Hosts \cup {None}
    PROVE  Domain(t) \in HostType \cup {None}
  BY NormalizeType, HostsAssumption DEF Domain

-----------------------------------------------------------------------------
\* The fields of a frame.
LEMMA FrameFields ==
    ASSUME NEW f \in Frame
    PROVE  /\ f.pc \in Labels /\ f.id \in SiteIds \cup {None} /\ f.row \in SiteRow \cup {NoRow}
           /\ f.page \in GenericIds \cup {None} /\ f.pageRow \in PageRow \cup {NoRow}
           /\ f.home \in HomeRow \cup {NoRow} /\ f.entries \in SUBSET Entries
           /\ f.seen \in Table \cup {<< >>} /\ f.done \in Outcomes
           /\ f.patch \in SiteRow \cup Patches \cup {<< >>}
  BY DEF Frame

\* The fields of a website.
LEMMA RowFields ==
    ASSUME NEW r \in SiteRow
    PROVE  /\ r.company \in Companies /\ r.domain \in HostType \cup {None}
           /\ r.typed \in Hosts \cup {None} /\ r.user \in Users /\ r.sequence \in 0..1
           /\ r.homepage \in Urls /\ r.opened \in Urls /\ r.live \in BOOLEAN /\ r # NoRow
  BY NullsAssumption DEF SiteRow

\* An idle frame is a frame, holds nothing and is in nobody's way.
LEMMA IdleFits ==
    ASSUME NEW a \in Answers, NEW si, NEW ge
    PROVE  /\ Idle(a) \in Frame /\ Fits(Idle(a), si, ge)
           /\ \A h : Parted(Idle(a), h) /\ Parted(h, Idle(a))
  <1>1. Idle(a) \in Frame
    BY DEF Idle, Frame, Labels, Outcomes
  <1>2. Bare(Idle(a)) /\ Idle(a).pc = "idle"
    BY DEF Idle, Bare
  <1> QED
    BY <1>1, <1>2 DEF Fits, RowFits, SeedFits, LabelFits, Bare, Parted

\* Colliding and being in the way are symmetric.
LEMMA Symmetric ==
    /\ \A r, s : Collide(r, s) => Collide(s, r)
    /\ \A f, h : Parted(f, h) => Parted(h, f)
  <1>1. \A r, s : Collide(r, s) => Collide(s, r)
    BY DEF Collide
  <1> QED
    BY <1>1 DEF Parted

\* A request that moves to a frame that fits, and leaves the tables alone, keeps the
\* invariant.
LEMMA Moves ==
    ASSUME Safe, NEW p \in Procs, NEW f \in Frame, tx' = [tx EXCEPT ![p] = f], UNCHANGED store,
           Fits(f, sites, generic), \A q \in Procs \ {p} : Parted(f, tx[q])
    PROVE  Safe'
  <1>1. sites' = sites /\ homes' = homes /\ menus' = menus /\ generic' = generic
    BY DEF store
  <1>2. Tables'
    BY <1>1 DEF Safe, Tables, BootstrapWhole
  <1>3. tx \in [Procs -> Frame]
    BY DEF Safe
  <1>4. tx' \in [Procs -> Frame] /\ tx'[p] = f /\ \A q \in Procs \ {p} : tx'[q] = tx[q]
    BY <1>3
  <1>5. \A q \in Procs : Fits(tx'[q], sites', generic')
    <2>1. \A q \in Procs : Fits(tx[q], sites, generic)
      BY DEF Safe
    <2> QED
      BY <1>1, <1>4, <2>1
  <1>6. ASSUME NEW q \in Procs, NEW r \in Procs, q # r
        PROVE  Parted(tx'[q], tx'[r])
    <2>1. Parted(tx[q], tx[r])
      BY <1>6 DEF Safe
    <2>2. CASE q = p
      BY <1>4, <1>6, <2>2
    <2>3. CASE r = p
      <3>1. Parted(f, tx[q])
        BY <1>6, <2>3
      <3>2. Parted(tx[q], f)
        BY <3>1, Symmetric
      <3> QED
        BY <1>4, <1>6, <2>3, <3>2
    <2>4. CASE q # p /\ r # p
      BY <1>4, <2>1, <2>4
    <2> QED
      BY <2>2, <2>3, <2>4
  <1> QED
    BY <1>2, <1>4, <1>5, <1>6 DEF Safe

\* A request that answers without writing keeps it.
LEMMA Returns ==
    ASSUME Safe, NEW p \in Procs, NEW a \in Answers, Return(p, a), UNCHANGED store
    PROVE  Safe'
  BY IdleFits, Moves DEF Return

\* A frame that holds nothing is in nobody's way.
LEMMA BareParted ==
    ASSUME NEW f, Bare(f)
    PROVE  \A h : Parted(f, h)
  BY DEF Bare, Parted

-----------------------------------------------------------------------------
(* create_website, step by step. *)

\* What the caller gives makes a website.
LEMMA BeginCreateKeeps ==
    ASSUME Safe, NEW p \in Procs, BeginCreate(p), UNCHANGED store
    PROVE  Safe'
  <1>1. PICK in \in Inputs :
          Goto(p, [Idle("none") EXCEPT
                 !.patch = [company |-> in.company, domain |-> Domain(in.typed), typed |-> in.typed,
                            user |-> in.user, sequence |-> in.sequence, homepage |-> in.homepage,
                            opened |-> in.homepage, live |-> TRUE]],
           "create.site")
    BY DEF BeginCreate
  <1>2. /\ in.company \in Companies /\ in.typed \in Hosts \cup {None} /\ in.user \in Users
        /\ in.sequence \in 0..1 /\ in.homepage \in Urls
    BY InputsAssumption
  <1>3. PICK r : r = [company |-> in.company, domain |-> Domain(in.typed), typed |-> in.typed,
                      user |-> in.user, sequence |-> in.sequence, homepage |-> in.homepage,
                      opened |-> in.homepage, live |-> TRUE]
    OBVIOUS
  <1>4. New(r) /\ r \in SiteRow
    <2>1. Domain(in.typed) \in HostType \cup {None}
      BY <1>2, DomainType
    <2> QED
      BY <1>2, <1>3, <2>1 DEF SiteRow, Sound, New
  <1>5. PICK f : f = [[Idle("none") EXCEPT !.patch = r] EXCEPT !.pc = "create.site"]
    OBVIOUS
  <1>6. f \in Frame
    <2>1. Idle("none") \in Frame
      BY IdleFits DEF Answers, Outcomes
    <2>2. [Idle("none") EXCEPT !.patch = r] \in Frame
      BY <1>4, <2>1 DEF Frame
    <2> QED
      BY <1>5, <2>2 DEF Frame, Labels
  <1>7. Bare(f) /\ f.pc = "create.site" /\ f.patch = r
    BY <1>5 DEF Idle, Bare
  <1>8. Fits(f, sites, generic)
    BY <1>4, <1>7 DEF Fits, RowFits, SeedFits, LabelFits, Bare
  <1>9. tx' = [tx EXCEPT ![p] = f]
    BY <1>1, <1>3, <1>5 DEF Goto
  <1> QED
    BY <1>6, <1>7, <1>8, <1>9, BareParted, Moves

\* What is known of the frame that moves.
LEMMA OwnFrame ==
    ASSUME Safe, NEW p \in Procs
    PROVE  /\ tx[p] \in Frame /\ Fits(tx[p], sites, generic)
           /\ \A q \in Procs \ {p} : Parted(tx[p], tx[q])
  BY DEF Safe

\* The insert goes through when no website, committed or pending, has a column of it.
LEMMA CreateSiteKeeps ==
    ASSUME Safe, NEW p \in Procs, CreateSite(p)
    PROVE  Safe'
  <1>1. PICK e \in Frame : e = tx[p]
    BY OwnFrame
  <1>2. e.pc = "create.site" /\ Fits(e, sites, generic) /\ UNCHANGED store
    BY <1>1, OwnFrame DEF CreateSite, At
  <1>3. /\ Bare(e) /\ e.patch \in SiteRow /\ Sound(e.patch)
        /\ e.patch.opened = e.patch.homepage
    BY <1>2 DEF Fits, LabelFits, New
  <1>4. PICK w : w = Least(Unused)
    OBVIOUS
  <1>5. w \in SiteIds /\ sites[w] = NoRow /\ \A q \in Procs : tx[q].id # w
    <2>1. Unused \in SUBSET Nat /\ Unused # {}
      BY SiteIdsAssumption DEF Unused, CreateSite
    <2>2. w \in Unused
      BY <1>4, <2>1, LeastIs
    <2> QED
      BY <2>2 DEF Unused
  <1>6. PICK r \in SiteRow : r = e.patch
    BY <1>3
  <1>7. CASE Return(p, "SpecificityConflict")
    BY <1>2, <1>7, Returns DEF Answers
  <1>8. CASE /\ ~Waits(p, w, r) /\ ~Conflicts(w, r)
             /\ Goto(p, [e EXCEPT !.id = w, !.row = r], "create.resolve")
    <2>1. PICK f : f = [[e EXCEPT !.id = w, !.row = r] EXCEPT !.pc = "create.resolve"]
      OBVIOUS
    <2>2. f \in Frame
      BY <1>5, <2>1 DEF Frame, Labels
    <2>3. /\ f.pc = "create.resolve" /\ f.id = w /\ f.row = r /\ f.pageRow = NoRow
          /\ f.home = NoRow /\ f.entries = {}
      BY <1>3, <2>1 DEF Bare, Frame
    <2>4. r # NoRow /\ Sound(r) /\ r.opened = r.homepage
      BY <1>3, <1>6, NullsAssumption
    <2>5. \A v \in SiteIds \ {w} : ~Collide(r, sites[v])
      BY <1>8 DEF Conflicts
    <2>6. Fits(f, sites, generic)
      BY <1>5, <2>3, <2>4, <2>5 DEF Fits, RowFits, SeedFits, LabelFits, Fresh
    <2>7. ASSUME NEW q \in Procs \ {p}
          PROVE  Parted(f, tx[q])
      <3>1. tx[q].row # NoRow => ~Collide(r, tx[q].row)
        BY <1>8 DEF Waits, Others
      <3> QED
        BY <1>5, <2>3, <3>1 DEF Parted
    <2>8. tx' = [tx EXCEPT ![p] = f]
      BY <1>8, <2>1 DEF Goto
    <2> QED
      BY <1>2, <2>2, <2>6, <2>7, <2>8, Moves
  <1> QED
    BY <1>1, <1>4, <1>6, <1>7, <1>8 DEF CreateSite

\* A frame that a pending website moves along in stays out of everybody's way.
LEMMA SameRowParted ==
    ASSUME NEW e, NEW f, NEW h, Parted(e, h), f.id = e.id, f.row = e.row,
           f.pageRow \in {e.pageRow, NoRow}
    PROVE  Parted(f, h)
  BY DEF Parted

\* The bootstrap rides the live generic, or goes on to seed one.
LEMMA CreateResolveKeeps ==
    ASSUME Safe, NEW p \in Procs, CreateResolve(p)
    PROVE  Safe'
  <1>1. PICK e \in Frame : e = tx[p]
    BY OwnFrame
  <1>2. /\ e.pc = "create.resolve" /\ Fits(e, sites, generic) /\ UNCHANGED store
        /\ \A q \in Procs \ {p} : Parted(e, tx[q])
    BY <1>1, OwnFrame DEF CreateResolve, At
  <1>3. Fresh(e, sites) /\ e.pageRow = NoRow /\ e.home = NoRow /\ e.entries = {}
    BY <1>2 DEF Fits, LabelFits
  <1>4. ASSUME NEW g \in LiveGeneric, Goto(p, [e EXCEPT !.page = g], "create.fork")
        PROVE  Safe'
    <2>1. PICK f : f = [[e EXCEPT !.page = g] EXCEPT !.pc = "create.fork"]
      OBVIOUS
    <2>2. g \in GenericIds /\ generic[g] # NoRow
      BY DEF LiveGeneric
    <2>3. f \in Frame
      BY <2>1, <2>2 DEF Frame, Labels
    <2>4. f.pc = "create.fork" /\ f.id = e.id /\ f.row = e.row /\ f.pageRow = NoRow /\ f.page = g
      BY <1>3, <2>1 DEF Frame
    <2>5. Fits(f, sites, generic)
      BY <1>2, <1>3, <2>2, <2>4 DEF Fits, RowFits, SeedFits, LabelFits, Fresh, Grounded
    <2>6. tx' = [tx EXCEPT ![p] = f]
      BY <1>4, <2>1 DEF Goto
    <2>7. \A q \in Procs \ {p} : Parted(f, tx[q])
      BY <1>2, <2>4, SameRowParted
    <2> QED
      BY <1>2, <2>3, <2>5, <2>6, <2>7, Moves
  <1>5. ASSUME Goto(p, e, "create.seed")
        PROVE  Safe'
    <2>1. PICK f : f = [e EXCEPT !.pc = "create.seed"]
      OBVIOUS
    <2>3. f \in Frame
      BY <2>1 DEF Frame, Labels
    <2>4. /\ f.pc = "create.seed" /\ f.id = e.id /\ f.row = e.row /\ f.pageRow = NoRow
          /\ f.home = NoRow /\ f.entries = {}
      BY <1>3, <2>1 DEF Frame
    <2>5. Fits(f, sites, generic)
      BY <1>2, <1>3, <2>4 DEF Fits, RowFits, SeedFits, LabelFits, Fresh
    <2>6. tx' = [tx EXCEPT ![p] = f]
      BY <1>5, <2>1 DEF Goto
    <2>7. \A q \in Procs \ {p} : Parted(f, tx[q])
      BY <1>2, <2>4, SameRowParted
    <2> QED
      BY <1>2, <2>3, <2>5, <2>6, <2>7, Moves
  <1> QED
    BY <1>1, <1>4, <1>5 DEF CreateResolve

\* The seed is inserted when nobody else has one, live or pending.
LEMMA CreateSeedKeeps ==
    ASSUME Safe, NEW p \in Procs, CreateSeed(p)
    PROVE  Safe'
  <1>1. PICK e \in Frame : e = tx[p]
    BY OwnFrame
  <1>2. /\ e.pc = "create.seed" /\ Fits(e, sites, generic) /\ UNCHANGED store
        /\ \A q \in Procs \ {p} : Parted(e, tx[q])
    BY <1>1, OwnFrame DEF CreateSeed, At
  <1>3. Fresh(e, sites) /\ e.row \in SiteRow
    <2>1. Fresh(e, sites)
      BY <1>2 DEF Fits, LabelFits
    <2> QED
      BY <2>1, FrameFields DEF Fresh
  <1>4. PICK row \in PageRow : row = [url |-> e.row.homepage, live |-> TRUE]
    BY <1>3, RowFields DEF PageRow
  <1>5. PICK g \in GenericIds : g = CHOOSE x \in UnusedPage : TRUE
    BY DEF CreateSeed, UnusedPage
  <1>6. CASE Return(p, "SpecificityConflict")
    BY <1>2, <1>6, Returns DEF Answers
  <1>7. CASE /\ LiveGeneric = {}
             /\ Goto(p, [e EXCEPT !.page = g, !.pageRow = row], "create.fork")
    <2>1. PICK f : f = [[e EXCEPT !.page = g, !.pageRow = row] EXCEPT !.pc = "create.fork"]
      OBVIOUS
    <2>2. f \in Frame
      BY <2>1 DEF Frame, Labels
    <2>3. f.pc = "create.fork" /\ f.id = e.id /\ f.row = e.row /\ f.pageRow = row /\ f.page = g
      BY <2>1 DEF Frame
    <2>4. row # NoRow /\ \A x \in GenericIds : ~Alive(generic, x)
      BY <1>7, NullsAssumption DEF LiveGeneric, Alive
    <2>5. Fits(f, sites, generic)
      BY <1>2, <1>3, <2>3, <2>4 DEF Fits, RowFits, SeedFits, LabelFits, Fresh, Grounded
    <2>6. tx' = [tx EXCEPT ![p] = f]
      BY <1>7, <2>1 DEF Goto
    <2>7. ASSUME NEW q \in Procs \ {p}
          PROVE  Parted(f, tx[q])
      <3>1. tx[q].pageRow = NoRow
        BY DEF CreateSeed, Others
      <3> QED
        BY <1>2, <2>3, <3>1 DEF Parted
    <2> QED
      BY <1>2, <2>2, <2>5, <2>6, <2>7, Moves
  <1> QED
    BY <1>1, <1>4, <1>5, <1>6, <1>7 DEF CreateSeed

\* The fork and the menus stand beside the pending website.
LEMMA CreateForkKeeps ==
    ASSUME Safe, NEW p \in Procs, CreateFork(p)
    PROVE  Safe'
  <1>1. PICK e \in Frame : e = tx[p]
    BY OwnFrame
  <1>2. /\ e.pc = "create.fork" /\ Fits(e, sites, generic) /\ UNCHANGED store
        /\ \A q \in Procs \ {p} : Parted(e, tx[q])
    BY <1>1, OwnFrame DEF CreateFork, At
  <1>3. Fresh(e, sites) /\ Grounded(e, generic) /\ e.row \in SiteRow
    <2>1. Fresh(e, sites) /\ Grounded(e, generic)
      BY <1>2 DEF Fits, LabelFits
    <2> QED
      BY <2>1, FrameFields DEF Fresh
  <1>4. PICK home \in HomeRow : home = [from |-> e.page, url |-> e.row.homepage]
    BY <1>3, RowFields DEF HomeRow, Grounded
  <1>5. PICK f : f = [[e EXCEPT !.home = home, !.entries = Entries, !.done = "Created"]
                         EXCEPT !.pc = "commit"]
    OBVIOUS
  <1>6. f \in Frame
    BY <1>5 DEF Frame, Labels, Outcomes
  <1>7. /\ f.pc = "commit" /\ f.id = e.id /\ f.row = e.row /\ f.pageRow = e.pageRow
        /\ f.page = e.page /\ f.home = home /\ f.entries = Entries /\ f.done = "Created"
    BY <1>5 DEF Frame
  <1>8. Fits(f, sites, generic)
    BY <1>2, <1>3, <1>4, <1>7 DEF Fits, RowFits, SeedFits, LabelFits, Fresh, Grounded
  <1>9. tx' = [tx EXCEPT ![p] = f]
    BY <1>1, <1>4, <1>5 DEF CreateFork, Goto, Entries
  <1>10. \A q \in Procs \ {p} : Parted(f, tx[q])
    BY <1>2, <1>7, SameRowParted
  <1> QED
    BY <1>2, <1>6, <1>8, <1>9, <1>10, Moves

-----------------------------------------------------------------------------
(* patch_config and delete_website, step by step. *)

\* A patch leaves a website a website of its company, opened as it was, and a new domain
\* is normalised.
LEMMA PatchedRow ==
    ASSUME NEW r \in SiteRow, Sound(r), NEW patch \in Patches
    PROVE  /\ Patched(r, patch) \in SiteRow /\ Sound(Patched(r, patch))
           /\ Patched(r, patch).company = r.company /\ Patched(r, patch).opened = r.opened
  <1>1. /\ patch.typed \in Hosts \cup {None, Keep} /\ patch.homepage \in Urls \cup {Keep}
        /\ patch.sequence \in 0..1 \cup {Keep}
    BY PatchesAssumption
  <1>2. PICK t \in Hosts \cup {None} : t = IF patch.typed = Keep THEN r.typed ELSE patch.typed
    BY <1>1, RowFields
  <1>3. PICK d \in HostType \cup {None} :
          d = (IF patch.typed = Keep THEN r.domain ELSE Domain(patch.typed)) /\ d = Domain(t)
    BY <1>2, DomainType, RowFields DEF Sound
  <1>4. PICK u \in Urls : u = IF patch.homepage = Keep THEN r.homepage ELSE patch.homepage
    BY <1>1, RowFields
  <1>5. PICK m \in 0..1 : m = IF patch.sequence = Keep THEN r.sequence ELSE patch.sequence
    BY <1>1, RowFields
  <1>6. PICK n : n = [r EXCEPT !.typed = t, !.domain = d, !.homepage = u, !.sequence = m]
    OBVIOUS
  <1>7. /\ n \in SiteRow /\ n.domain = d /\ n.typed = t
        /\ n.company = r.company /\ n.opened = r.opened
    BY <1>6 DEF SiteRow
  <1>8. Patched(r, patch) = n
    BY <1>2, <1>3, <1>4, <1>5, <1>6 DEF Patched, SiteRow
  <1> QED
    BY <1>3, <1>7, <1>8 DEF Sound

\* The request names a website and columns.
LEMMA BeginPatchKeeps ==
    ASSUME Safe, NEW p \in Procs, BeginPatch(p), UNCHANGED store
    PROVE  Safe'
  <1>1. PICK w \in SiteIds, patch \in Patches, officer \in BOOLEAN :
          Goto(p, [Idle("none") EXCEPT !.id = w, !.patch = patch, !.officer = officer], "patch.update")
    BY DEF BeginPatch
  <1>2. PICK f : f = [[Idle("none") EXCEPT !.id = w, !.patch = patch, !.officer = officer]
                        EXCEPT !.pc = "patch.update"]
    OBVIOUS
  <1>3. f \in Frame
    <2>1. Idle("none") \in Frame
      BY IdleFits DEF Answers, Outcomes
    <2>2. [Idle("none") EXCEPT !.id = w, !.patch = patch, !.officer = officer] \in Frame
      BY <2>1 DEF Frame
    <2> QED
      BY <1>2, <2>2 DEF Frame, Labels
  <1>4. Bare(f) /\ f.pc = "patch.update" /\ f.patch = patch /\ f.id = w
    BY <1>2 DEF Idle, Bare
  <1>5. Fits(f, sites, generic)
    BY <1>4 DEF Fits, RowFits, SeedFits, LabelFits, Bare
  <1>6. tx' = [tx EXCEPT ![p] = f]
    BY <1>1, <1>2 DEF Goto
  <1> QED
    BY <1>3, <1>4, <1>5, <1>6, BareParted, Moves

\* The update goes through when no other website, committed or pending, has the new columns.
LEMMA PatchUpdateKeeps ==
    ASSUME Safe, NEW p \in Procs, PatchUpdate(p)
    PROVE  Safe'
  <1>1. PICK e \in Frame : e = tx[p]
    BY OwnFrame
  <1>2. e.pc = "patch.update" /\ Fits(e, sites, generic) /\ UNCHANGED store
    BY <1>1, OwnFrame DEF PatchUpdate, At
  <1>3. Bare(e) /\ e.patch \in Patches
    BY <1>2 DEF Fits, LabelFits
  <1>4. PICK w \in SiteIds : w = e.id
    BY <1>2 DEF Fits, LabelFits
  <1>5. CASE Return(p, "Db") \/ Return(p, "SpecificityConflict")
    BY <1>2, <1>5, Returns DEF Answers
  <1>6. CASE /\ sites[w] # NoRow
             /\ ~Waits(p, w, Patched(sites[w], e.patch))
             /\ ~Conflicts(w, Patched(sites[w], e.patch))
             /\ Goto(p, [e EXCEPT !.row = Patched(sites[w], e.patch), !.done = "Patched"], "commit")
    <2>1. PICK s \in SiteRow : s = sites[w]
      BY <1>6 DEF Safe, Tables, Table
    <2>2. Sound(s)
      BY <1>6, <2>1 DEF Safe, Tables
    <2>3. PICK r \in SiteRow : /\ r = Patched(s, e.patch) /\ Sound(r)
                               /\ r.company = s.company /\ r.opened = s.opened
      BY <1>3, <2>2, PatchedRow
    <2>4. PICK f : f = [[e EXCEPT !.row = r, !.done = "Patched"] EXCEPT !.pc = "commit"]
      OBVIOUS
    <2>5. f \in Frame
      BY <2>4 DEF Frame, Labels, Outcomes
    <2>6. /\ f.pc = "commit" /\ f.id = w /\ f.row = r /\ f.pageRow = NoRow
          /\ f.home = NoRow /\ f.entries = {} /\ f.done = "Patched"
      BY <1>3, <1>4, <2>4 DEF Bare, Frame
    <2>7. r # NoRow /\ s # NoRow
      BY NullsAssumption
    <2>8. \A v \in SiteIds \ {w} : ~Collide(r, sites[v])
      BY <1>6, <2>1, <2>3 DEF Conflicts
    <2>9. Keeps(f, sites)
      BY <2>1, <2>3, <2>6, <2>7 DEF Keeps
    <2>10. RowFits(f, sites) /\ SeedFits(f, generic)
      BY <2>3, <2>6, <2>8 DEF RowFits, SeedFits
    <2>11. Fits(f, sites, generic)
      BY <2>6, <2>9, <2>10 DEF Fits, LabelFits
    <2>12. ASSUME NEW q \in Procs \ {p}
           PROVE  Parted(f, tx[q])
      <3>1. tx[q].row # NoRow => tx[q].id # w /\ ~Collide(r, tx[q].row)
        BY <1>6, <2>1, <2>3 DEF Waits, Others
      <3> QED
        BY <2>6, <3>1 DEF Parted
    <2>13. tx' = [tx EXCEPT ![p] = f]
      BY <1>6, <2>1, <2>3, <2>4 DEF Goto
    <2> QED
      BY <1>2, <2>5, <2>11, <2>12, <2>13, Moves
  <1> QED
    BY <1>1, <1>4, <1>5, <1>6 DEF PatchUpdate

\* The request names a website.
LEMMA BeginDeleteKeeps ==
    ASSUME Safe, NEW p \in Procs, BeginDelete(p), UNCHANGED store
    PROVE  Safe'
  <1>1. PICK w \in SiteIds, officer \in BOOLEAN :
          Goto(p, [Idle("none") EXCEPT !.id = w, !.officer = officer], "delete.site")
    BY DEF BeginDelete
  <1>2. PICK f : f = [[Idle("none") EXCEPT !.id = w, !.officer = officer] EXCEPT !.pc = "delete.site"]
    OBVIOUS
  <1>3. f \in Frame
    <2>1. Idle("none") \in Frame
      BY IdleFits DEF Answers, Outcomes
    <2>2. [Idle("none") EXCEPT !.id = w, !.officer = officer] \in Frame
      BY <2>1 DEF Frame
    <2> QED
      BY <1>2, <2>2 DEF Frame, Labels
  <1>4. Bare(f) /\ f.pc = "delete.site" /\ f.id = w
    BY <1>2 DEF Idle, Bare
  <1>5. Fits(f, sites, generic)
    BY <1>4 DEF Fits, RowFits, SeedFits, LabelFits, Bare
  <1>6. tx' = [tx EXCEPT ![p] = f]
    BY <1>1, <1>2 DEF Goto
  <1> QED
    BY <1>3, <1>4, <1>5, <1>6, BareParted, Moves

\* The first read of the guard finds a live website.
LEMMA DeleteSiteKeeps ==
    ASSUME Safe, NEW p \in Procs, DeleteSite(p)
    PROVE  Safe'
  <1>1. PICK e \in Frame : e = tx[p]
    BY OwnFrame
  <1>2. e.pc = "delete.site" /\ Fits(e, sites, generic) /\ UNCHANGED store
    BY <1>1, OwnFrame DEF DeleteSite, At
  <1>3. Bare(e) /\ e.id \in SiteIds
    BY <1>2 DEF Fits, LabelFits
  <1>5. CASE Return(p, "NotFound")
    BY <1>2, <1>5, Returns DEF Answers
  <1>6. CASE Live(e.id) /\ Goto(p, [e EXCEPT !.seen = sites], "delete.primary")
    <2>1. PICK f : f = [[e EXCEPT !.seen = sites] EXCEPT !.pc = "delete.primary"]
      OBVIOUS
    <2>2. sites \in Table
      BY DEF Safe, Tables
    <2>3. f \in Frame
      BY <2>1, <2>2 DEF Frame, Labels
    <2>4. Bare(f) /\ f.pc = "delete.primary" /\ f.id = e.id /\ f.seen = sites
      BY <1>3, <2>1 DEF Bare, Frame
    <2>5. sites[e.id] # NoRow
      BY <1>6 DEF Live
    <2>6. Fits(f, sites, generic)
      BY <1>3, <2>2, <2>4, <2>5 DEF Fits, RowFits, SeedFits, LabelFits, Bare
    <2>7. tx' = [tx EXCEPT ![p] = f]
      BY <1>6, <2>1 DEF Goto
    <2> QED
      BY <1>2, <2>3, <2>4, <2>6, <2>7, BareParted, Moves
  <1> QED
    BY <1>1, <1>5, <1>6 DEF DeleteSite

\* A live website that is not the company's primary has another live one before it.
LEMMA PrimarySpares ==
    ASSUME NEW s \in Table, NEW w \in SiteIds, s[w] # NoRow, s[w].live,
           PrimaryOf(s, s[w].company) # w
    PROVE  Spared(s, w)
  <1> DEFINE live == {v \in SiteIds : s[v] # NoRow /\ s[v].live /\ s[v].company = s[w].company}
             first == {v \in live : \A x \in live : s[v].sequence <= s[x].sequence}
  <1>1. \A v \in live : s[v].sequence \in 0..1
    BY RowFields DEF Table
  <1>2. w \in live
    OBVIOUS
  <1>3. first # {}
    <2>1. CASE \E v \in live : s[v].sequence = 0
      <3>1. PICK v \in live : s[v].sequence = 0
        BY <2>1
      <3>2. \A x \in live : s[v].sequence <= s[x].sequence
        BY <1>1, <3>1
      <3> QED
        BY <3>1, <3>2
    <2>2. CASE \A v \in live : s[v].sequence = 1
      BY <1>2, <2>2
    <2> QED
      BY <1>1, <2>1, <2>2
  <1>4. first \in SUBSET Nat
    BY SiteIdsAssumption
  <1>5. PrimaryOf(s, s[w].company) = Least(first)
    BY DEF PrimaryOf
  <1>6. Least(first) \in first
    <2> HIDE DEF first
    <2> QED
      BY <1>3, <1>4, LeastIs
  <1>7. PICK v \in first : v = Least(first)
    BY <1>6
  <1>8. v \in SiteIds \ {w} /\ s[v] # NoRow /\ s[v].live /\ s[v].company = s[w].company
        /\ s[v].sequence <= s[w].sequence
    BY <1>2, <1>5, <1>7
  <1> QED
    BY <1>8 DEF Spared

\* The second read finds the company another primary.
LEMMA DeletePrimaryKeeps ==
    ASSUME Safe, NEW p \in Procs, DeletePrimary(p)
    PROVE  Safe'
  <1>1. PICK e \in Frame : e = tx[p]
    BY OwnFrame
  <1>2. e.pc = "delete.primary" /\ Fits(e, sites, generic) /\ UNCHANGED store
    BY <1>1, OwnFrame DEF DeletePrimary, At
  <1>3. PICK w \in SiteIds : w = e.id
    BY <1>2 DEF Fits, LabelFits
  <1>4. Bare(e) /\ sites[w] # NoRow /\ e.seen[w].company = sites[w].company
    BY <1>2, <1>3 DEF Fits, LabelFits
  <1> DEFINE live == {v \in SiteIds : Live(v) /\ sites[v].company = sites[w].company}
  <1>5. CASE Return(p, "WebsiteIsPrimaryForCompany")
    BY <1>2, <1>5, Returns DEF Answers
  <1>6. CASE /\ ~(live # {} /\ PrimaryOf(sites, sites[w].company) = w)
             /\ Goto(p, [e EXCEPT !.seen = sites], "delete.update")
    <2>1. PICK f : f = [[e EXCEPT !.seen = sites] EXCEPT !.pc = "delete.update"]
      OBVIOUS
    <2>2. sites \in Table
      BY DEF Safe, Tables
    <2>3. f \in Frame
      BY <2>1, <2>2 DEF Frame, Labels
    <2>4. Bare(f) /\ f.pc = "delete.update" /\ f.id = w /\ f.seen = sites
      BY <1>3, <1>4, <2>1 DEF Bare, Frame
    <2>5. Spared(sites, w)
      <3>1. CASE ~sites[w].live
        BY <3>1 DEF Spared
      <3>2. CASE sites[w].live
        <4>1. w \in live
          BY <1>4, <3>2 DEF Live
        <4> QED
          BY <1>4, <1>6, <2>2, <3>2, <4>1, PrimarySpares
      <3> QED
        BY <3>1, <3>2
    <2>6. Fits(f, sites, generic)
      BY <1>4, <2>4, <2>5 DEF Fits, RowFits, SeedFits, LabelFits, Bare
    <2>7. tx' = [tx EXCEPT ![p] = f]
      BY <1>6, <2>1 DEF Goto
    <2> QED
      BY <1>2, <2>3, <2>4, <2>6, <2>7, BareParted, Moves
  <1> QED
    BY <1>1, <1>3, <1>4, <1>5, <1>6 DEF DeletePrimary

\* The update that kills a website frees its columns.
LEMMA DeleteUpdateKeeps ==
    ASSUME Safe, NEW p \in Procs, DeleteUpdate(p)
    PROVE  Safe'
  <1>1. PICK e \in Frame : e = tx[p]
    BY OwnFrame
  <1>2. e.pc = "delete.update" /\ Fits(e, sites, generic) /\ UNCHANGED store
    BY <1>1, OwnFrame DEF DeleteUpdate, At
  <1>3. PICK w \in SiteIds : w = e.id
    BY <1>2 DEF Fits, LabelFits
  <1>4. Bare(e) /\ sites[w] # NoRow /\ Spared(e.seen, w)
    BY <1>2, <1>3 DEF Fits, LabelFits
  <1>5. CASE Return(p, "Db")
    BY <1>2, <1>5, Returns DEF Answers
  <1>6. CASE /\ ~Waits(p, w, [sites[w] EXCEPT !.live = FALSE])
             /\ Goto(p, [e EXCEPT !.row = [sites[w] EXCEPT !.live = FALSE], !.done = "Deleted"], "commit")
    <2>1. PICK s \in SiteRow : s = sites[w]
      BY <1>4 DEF Safe, Tables, Table
    <2>2. Sound(s)
      BY <1>4, <2>1 DEF Safe, Tables
    <2>3. PICK r : r = [s EXCEPT !.live = FALSE]
      OBVIOUS
    <2>4. /\ r \in SiteRow /\ ~r.live /\ r.company = s.company /\ r.opened = s.opened
          /\ r.domain = s.domain /\ r.typed = s.typed
      BY <2>3 DEF SiteRow
    <2>5. Sound(r) /\ r # NoRow /\ \A x : ~Collide(r, x)
      BY <2>2, <2>4, NullsAssumption DEF Sound, Collide
    <2>6. PICK f : f = [[e EXCEPT !.row = r, !.done = "Deleted"] EXCEPT !.pc = "commit"]
      OBVIOUS
    <2>7. f \in Frame
      BY <2>4, <2>6 DEF Frame, Labels, Outcomes
    <2>8. /\ f.pc = "commit" /\ f.id = w /\ f.row = r /\ f.pageRow = NoRow
          /\ f.home = NoRow /\ f.entries = {} /\ f.done = "Deleted" /\ f.seen = e.seen
      BY <1>3, <1>4, <2>6 DEF Bare, Frame
    <2>9. Keeps(f, sites)
      BY <1>4, <2>1, <2>4, <2>5, <2>8 DEF Keeps
    <2>10. RowFits(f, sites) /\ SeedFits(f, generic)
      BY <2>5, <2>8 DEF RowFits, SeedFits
    <2>11. Fits(f, sites, generic)
      BY <1>4, <2>8, <2>9, <2>10 DEF Fits, LabelFits
    <2>12. ASSUME NEW q \in Procs \ {p}
           PROVE  Parted(f, tx[q])
      <3>1. tx[q].row # NoRow => tx[q].id # w
        BY <1>6 DEF Waits, Others
      <3> QED
        BY <2>5, <2>8, <3>1 DEF Parted
    <2>13. tx' = [tx EXCEPT ![p] = f]
      BY <1>6, <2>1, <2>3, <2>6 DEF Goto
    <2> QED
      BY <1>2, <2>7, <2>11, <2>12, <2>13, Moves
  <1> QED
    BY <1>1, <1>3, <1>5, <1>6 DEF DeleteUpdate

-----------------------------------------------------------------------------
(* Commit, a lost connection, and the fanout of the homepage. *)

\* What a frame awaits survives tables where other websites changed, no website vanished
\* or changed hands, and no generic page vanished or came alive.
LEMMA FitsSurvive ==
    ASSUME NEW si \in Table, NEW sj \in Table, NEW ge, NEW gf,
           NEW f \in Frame, Fits(f, si, ge),
           \A v \in SiteIds : si[v] # NoRow =>
              /\ sj[v] # NoRow /\ sj[v].company = si[v].company
              /\ sj[v].opened = si[v].opened,
           f.row # NoRow => /\ sj[f.id] = si[f.id]
                            /\ \A v \in SiteIds \ {f.id} : ~Collide(f.row, sj[v]),
           \A g \in GenericIds : ge[g] # NoRow => gf[g] # NoRow,
           f.pageRow # NoRow => \A g \in GenericIds : ~Alive(gf, g)
    PROVE  Fits(f, sj, gf)
  <1>1. RowFits(f, sj) /\ SeedFits(f, gf)
    BY DEF Fits, RowFits, SeedFits
  <1>2. LabelFits(f, sj, gf)
    <2>1. f.pc \in Labels /\ LabelFits(f, si, ge)
      BY FrameFields DEF Fits
    <2>2. CASE f.pc \in {"idle", "create.site", "patch.update", "delete.site"}
      BY <2>1, <2>2 DEF LabelFits
    <2>3. CASE f.pc \in {"delete.primary", "delete.update"}
      BY <2>1, <2>3 DEF LabelFits
    <2>4. CASE f.pc \in {"create.resolve", "create.seed"}
      BY <2>1, <2>4 DEF LabelFits, Fresh
    <2>5. CASE f.pc = "create.fork"
      BY <2>1, <2>5 DEF LabelFits, Fresh, Grounded
    <2>6. CASE f.pc = "commit"
      <3>1. CASE f.done = "Created"
        BY <2>1, <2>6, <3>1 DEF LabelFits, Fresh, Grounded
      <3>2. CASE f.done # "Created"
        <4>1. Keeps(f, si)
          BY <2>1, <2>6, <3>2 DEF LabelFits
        <4>2. Keeps(f, sj)
          BY <4>1 DEF Keeps
        <4> QED
          BY <2>1, <2>6, <3>2, <4>2 DEF LabelFits
      <3> QED
        BY <3>1, <3>2
    <2> QED
      BY <2>1, <2>2, <2>3, <2>4, <2>5, <2>6 DEF Labels
  <1> QED
    BY <1>1, <1>2 DEF Fits

\* The other transactions are apart from each other as before, and from an idle one.
LEMMA IdleParted ==
    ASSUME Safe, NEW p \in Procs, NEW a \in Answers, Return(p, a)
    PROVE  /\ tx' \in [Procs -> Frame]
           /\ tx'[p] = Idle(a) /\ \A q \in Procs \ {p} : tx'[q] = tx[q]
           /\ \A q, r \in Procs : q # r => Parted(tx'[q], tx'[r])
  <1>1. tx \in [Procs -> Frame]
    BY DEF Safe
  <1>2. Idle(a) \in Frame
    BY IdleFits
  <1>3. tx' \in [Procs -> Frame] /\ tx'[p] = Idle(a) /\ \A q \in Procs \ {p} : tx'[q] = tx[q]
    BY <1>1, <1>2 DEF Return
  <1>4. ASSUME NEW q \in Procs, NEW r \in Procs, q # r
        PROVE  Parted(tx'[q], tx'[r])
    <2>1. CASE q = p \/ r = p
      BY <1>3, <2>1, IdleFits
    <2>2. CASE q # p /\ r # p
      BY <1>3, <1>4, <2>2 DEF Safe
    <2> QED
      BY <2>1, <2>2
  <1> QED
    BY <1>3, <1>4

\* What a transaction commits.
LEMMA CommitRow ==
    ASSUME Safe, NEW p \in Procs, Commit(p), NEW f \in Frame, f = tx[p]
    PROVE  /\ f.pc = "commit" /\ f.id \in SiteIds /\ f.row \in SiteRow /\ Sound(f.row)
           /\ f.done \in {"Created", "Patched", "Deleted"}
           /\ f.done = "Created" => /\ Fresh(f, sites) /\ Grounded(f, generic)
                                    /\ f.home = [from |-> f.page, url |-> f.row.homepage]
                                    /\ f.entries = Entries
           /\ f.done # "Created" => Keeps(f, sites)
           /\ RowFits(f, sites) /\ SeedFits(f, generic)
           /\ \A q \in Procs \ {p} : Parted(f, tx[q])
  <1>1. f.pc = "commit" /\ Fits(f, sites, generic) /\ \A q \in Procs \ {p} : Parted(f, tx[q])
    BY OwnFrame DEF Commit, At
  <1>2. LabelFits(f, sites, generic) /\ RowFits(f, sites) /\ SeedFits(f, generic)
    BY <1>1 DEF Fits
  <1>3. f.id \in SiteIds /\ f.row # NoRow
    BY <1>1, <1>2 DEF LabelFits, Fresh, Keeps
  <1>4. f.row \in SiteRow /\ Sound(f.row)
    BY <1>2, <1>3, FrameFields DEF RowFits
  <1> QED
    BY <1>1, <1>2, <1>3, <1>4 DEF LabelFits

\* Everything of the transaction stands at once.
LEMMA CommitKeeps ==
    ASSUME Safe, NEW p \in Procs, Commit(p)
    PROVE  Safe'
  <1>1. PICK f \in Frame : f = tx[p]
    BY OwnFrame
  <1>2. /\ f.pc = "commit" /\ f.id \in SiteIds /\ f.row \in SiteRow /\ Sound(f.row)
        /\ f.done \in {"Created", "Patched", "Deleted"}
        /\ f.done = "Created" => /\ Fresh(f, sites) /\ Grounded(f, generic)
                                 /\ f.home = [from |-> f.page, url |-> f.row.homepage]
                                 /\ f.entries = Entries
        /\ f.done # "Created" => Keeps(f, sites)
        /\ RowFits(f, sites) /\ SeedFits(f, generic)
        /\ \A q \in Procs \ {p} : Parted(f, tx[q])
    BY <1>1, CommitRow
  <1>3. f.row # NoRow
    BY <1>2, NullsAssumption
  <1>4. /\ sites \in Table /\ homes \in [SiteIds -> HomeRow \cup {NoRow}]
        /\ menus \in [SiteIds -> SUBSET Entries] /\ generic \in [GenericIds -> PageRow \cup {NoRow}]
    BY DEF Safe, Tables
  <1>5. /\ sites' = [sites EXCEPT ![f.id] = f.row]
        /\ homes' = IF f.home = NoRow THEN homes ELSE [homes EXCEPT ![f.id] = f.home]
        /\ menus' = IF f.entries = {} THEN menus ELSE [menus EXCEPT ![f.id] = f.entries]
        /\ generic' = IF f.pageRow = NoRow THEN generic ELSE [generic EXCEPT ![f.page] = f.pageRow]
        /\ Return(p, f.done)
    BY <1>1 DEF Commit
  <1>6. /\ sites' \in Table /\ sites'[f.id] = f.row
        /\ \A v \in SiteIds \ {f.id} : sites'[v] = sites[v]
    BY <1>2, <1>4, <1>5 DEF Table
  <1>7. /\ homes' \in [SiteIds -> HomeRow \cup {NoRow}] /\ menus' \in [SiteIds -> SUBSET Entries]
        /\ \A v \in SiteIds \ {f.id} : homes'[v] = homes[v] /\ menus'[v] = menus[v]
    <2>1. f.home \in HomeRow \cup {NoRow} /\ f.entries \in SUBSET Entries
      BY FrameFields
    <2> QED
      BY <1>2, <1>4, <1>5, <2>1
  <1>8. f.pageRow # NoRow => f.page \in GenericIds
    BY <1>2 DEF Keeps, Grounded
  <1>9. /\ generic' \in [GenericIds -> PageRow \cup {NoRow}]
        /\ \A g \in GenericIds : generic[g] # NoRow => generic'[g] # NoRow
        /\ f.pageRow = NoRow => generic' = generic
        /\ f.pageRow # NoRow => /\ generic'[f.page] = f.pageRow
                                /\ \A g \in GenericIds \ {f.page} : generic'[g] = generic[g]
    <2>1. f.pageRow \in PageRow \cup {NoRow}
      BY FrameFields
    <2>2. CASE f.pageRow = NoRow
      BY <1>4, <1>5, <2>2
    <2>3. CASE f.pageRow # NoRow
      BY <1>4, <1>5, <1>8, <2>1, <2>3
    <2> QED
      BY <2>2, <2>3
  <1>10. \A w \in SiteIds : sites'[w] # NoRow => Sound(sites'[w])
    BY <1>2, <1>6 DEF Safe, Tables
  <1>11. ASSUME NEW w \in SiteIds, NEW v \in SiteIds, w # v
         PROVE  ~Collide(sites'[w], sites'[v])
    <2>1. ~Collide(sites[w], sites[v])
      BY <1>11 DEF Safe, Tables
    <2>2. \A x \in SiteIds \ {f.id} : ~Collide(f.row, sites[x]) /\ ~Collide(sites[x], f.row)
      BY <1>2, <1>3, Symmetric DEF RowFits
    <2> QED
      BY <1>6, <1>11, <2>1, <2>2
  <1>12. ASSUME NEW g \in GenericIds, NEW h \in GenericIds, Alive(generic', g), Alive(generic', h)
         PROVE  g = h
    <2>1. CASE f.pageRow = NoRow
      BY <1>9, <1>12, <2>1 DEF Safe, Tables
    <2>2. CASE f.pageRow # NoRow
      <3>1. \A x \in GenericIds : ~Alive(generic, x)
        BY <1>2, <2>2 DEF SeedFits
      <3>2. \A x \in GenericIds \ {f.page} : ~Alive(generic', x)
        BY <1>9, <2>2, <3>1 DEF Alive
      <3> QED
        BY <1>12, <3>2
    <2> QED
      BY <2>1, <2>2
  <1>13. ASSUME NEW w \in SiteIds, sites'[w] # NoRow
         PROVE  /\ homes'[w] # NoRow /\ homes'[w].url = sites'[w].opened
                /\ generic'[homes'[w].from] # NoRow /\ menus'[w] = Entries
    <2>1. CASE w = f.id /\ f.done = "Created"
      <3>1. f.home = [from |-> f.page, url |-> f.row.homepage]
        BY <1>2, <2>1
      <3>2. f.home.from = f.page /\ f.home.url = f.row.homepage
        BY <3>1
      <3>3. f.home # NoRow
        <4>1. f.row.homepage \in Urls /\ f.page \in GenericIds
          BY <1>2, <2>1, RowFields DEF Grounded
        <4>2. f.home \in HomeRow
          BY <3>1, <4>1 DEF HomeRow
        <4> QED
          BY <4>2, NullsAssumption
      <3>4. homes'[w] = f.home
        BY <1>2, <1>4, <1>5, <2>1, <3>3
      <3>5. menus'[w] = Entries
        BY <1>2, <1>4, <1>5, <2>1 DEF Entries
      <3>6. generic'[f.page] # NoRow
        BY <1>2, <1>9, <2>1 DEF Grounded
      <3> QED
        BY <1>2, <1>6, <2>1, <3>2, <3>3, <3>4, <3>5, <3>6 DEF Fresh
    <2>2. CASE ~(w = f.id /\ f.done = "Created")
      <3>1. /\ sites[w] # NoRow /\ sites'[w].opened = sites[w].opened
            /\ homes'[w] = homes[w] /\ menus'[w] = menus[w]
        <4>1. CASE w # f.id
          BY <1>6, <1>7, <1>13, <4>1
        <4>2. CASE w = f.id
          BY <1>2, <1>5, <1>6, <2>2, <4>2 DEF Keeps
        <4> QED
          BY <4>1, <4>2
      <3>2. /\ homes[w] # NoRow /\ homes[w].url = sites[w].opened
            /\ generic[homes[w].from] # NoRow /\ menus[w] = Entries
        BY <3>1 DEF Safe, Tables, BootstrapWhole, Entries
      <3>3. homes[w] \in HomeRow
        BY <1>4, <3>2
      <3>4. homes[w].from \in GenericIds
        BY <3>3 DEF HomeRow
      <3> QED
        BY <1>9, <3>1, <3>2, <3>4
    <2> QED
      BY <2>1, <2>2
  <1>14. Tables'
    BY <1>6, <1>7, <1>9, <1>10, <1>11, <1>12, <1>13 DEF Tables, BootstrapWhole, Entries, Table, Alive
  <1>15. f.done \in Answers
    BY <1>2 DEF Answers, Outcomes
  <1>16. /\ tx' \in [Procs -> Frame]
         /\ tx'[p] = Idle(f.done) /\ \A q \in Procs \ {p} : tx'[q] = tx[q]
         /\ \A q, r \in Procs : q # r => Parted(tx'[q], tx'[r])
    BY <1>5, <1>15, IdleParted
  <1>17. \A v \in SiteIds : sites[v] # NoRow =>
              /\ sites'[v] # NoRow /\ sites'[v].company = sites[v].company
              /\ sites'[v].opened = sites[v].opened
    BY <1>2, <1>3, <1>6 DEF Fresh, Keeps
  <1>18. ASSUME NEW q \in Procs \ {p}
         PROVE  Fits(tx[q], sites', generic')
    <2>1. PICK e \in Frame : e = tx[q] /\ Fits(e, sites, generic)
      BY OwnFrame
    <2>2. Parted(f, e)
      BY <1>2, <2>1
    <2>3. ASSUME e.row # NoRow
          PROVE  /\ sites'[e.id] = sites[e.id]
                 /\ \A v \in SiteIds \ {e.id} : ~Collide(e.row, sites'[v])
      <3>1. e.id \in SiteIds /\ \A v \in SiteIds \ {e.id} : ~Collide(e.row, sites[v])
        BY <2>1, <2>3 DEF Fits, RowFits
      <3>2. e.id # f.id /\ ~Collide(f.row, e.row)
        BY <1>3, <2>2, <2>3 DEF Parted
      <3>3. ~Collide(e.row, f.row)
        BY <3>2, Symmetric
      <3> QED
        BY <1>6, <3>1, <3>2, <3>3
    <2>4. e.pageRow # NoRow => \A g \in GenericIds : ~Alive(generic', g)
      <3>1. e.pageRow # NoRow => f.pageRow = NoRow
        BY <2>2 DEF Parted
      <3> QED
        BY <1>9, <2>1, <3>1 DEF Fits, SeedFits
    <2>5. PICK sj \in Table : sj = sites'
      BY <1>6
    <2>6. PICK gf : gf = generic'
      OBVIOUS
    <2>7. Fits(e, sj, gf)
      <3>1. PICK si \in Table : si = sites
        BY <1>4
      <3>2. PICK ge : ge = generic
        OBVIOUS
      <3>3. Fits(e, si, ge)
        BY <2>1, <3>1, <3>2
      <3>4. \A v \in SiteIds : si[v] # NoRow =>
              /\ sj[v] # NoRow /\ sj[v].company = si[v].company /\ sj[v].opened = si[v].opened
        BY <1>17, <2>5, <3>1
      <3>5. e.row # NoRow => /\ sj[e.id] = si[e.id]
                             /\ \A v \in SiteIds \ {e.id} : ~Collide(e.row, sj[v])
        BY <2>3, <2>5, <3>1
      <3>6. \A g \in GenericIds : ge[g] # NoRow => gf[g] # NoRow
        BY <1>9, <2>6, <3>2
      <3>7. e.pageRow # NoRow => \A g \in GenericIds : ~Alive(gf, g)
        BY <2>4, <2>6
      <3> QED
        BY <3>3, <3>4, <3>5, <3>6, <3>7, FitsSurvive
    <2> QED
      BY <2>1, <2>5, <2>6, <2>7
  <1>19. \A q \in Procs : Fits(tx'[q], sites', generic')
    BY <1>15, <1>16, <1>18, IdleFits
  <1> QED
    BY <1>14, <1>16, <1>19 DEF Safe

\* The fanout kills the one live generic; its row, and whoever rides it, stay.
LEMMA FanoutKeeps ==
    ASSUME Safe, FanoutHomepage
    PROVE  Safe'
  <1>1. /\ sites' = sites /\ homes' = homes /\ menus' = menus /\ tx' = tx
        /\ generic' = [g \in GenericIds |-> IF g \in LiveGeneric THEN [generic[g] EXCEPT !.live = FALSE]
                                            ELSE generic[g]]
    BY DEF FanoutHomepage
  <1>2. generic \in [GenericIds -> PageRow \cup {NoRow}]
    BY DEF Safe, Tables
  <1>3. ASSUME NEW g \in GenericIds
        PROVE  /\ generic'[g] \in PageRow \cup {NoRow}
               /\ generic[g] # NoRow => generic'[g] # NoRow
               /\ ~Alive(generic', g)
    <2>1. CASE g \in LiveGeneric
      <3>1. generic[g] \in PageRow
        BY <1>2, <2>1 DEF LiveGeneric
      <3>2. generic'[g] = [generic[g] EXCEPT !.live = FALSE]
        BY <1>1, <2>1
      <3>3. generic'[g] \in PageRow /\ generic'[g].live = FALSE
        BY <3>1, <3>2 DEF PageRow
      <3> QED
        BY <3>3, NullsAssumption DEF Alive
    <2>2. CASE g \notin LiveGeneric
      <3>1. generic'[g] = generic[g]
        BY <1>1, <2>2
      <3> QED
        BY <1>2, <2>2, <3>1 DEF Alive, LiveGeneric
    <2> QED
      BY <2>1, <2>2
  <1>4. generic' \in [GenericIds -> PageRow \cup {NoRow}]
    BY <1>1, <1>3
  <1>5. ASSUME NEW w \in SiteIds, sites[w] # NoRow
        PROVE  /\ homes[w] # NoRow /\ homes[w].url = sites[w].opened
               /\ generic'[homes[w].from] # NoRow /\ menus[w] = Entries
    <2>1. /\ homes[w] # NoRow /\ homes[w].url = sites[w].opened
          /\ generic[homes[w].from] # NoRow /\ menus[w] = Entries
      BY <1>5 DEF Safe, Tables, BootstrapWhole, Entries
    <2>2. homes[w] \in HomeRow
      BY <2>1 DEF Safe, Tables
    <2>3. homes[w].from \in GenericIds
      BY <2>2 DEF HomeRow
    <2> QED
      BY <1>3, <2>1, <2>3
  <1>6. Tables'
    BY <1>1, <1>3, <1>4, <1>5 DEF Safe, Tables, BootstrapWhole, Entries, Alive
  <1>7. ASSUME NEW q \in Procs
        PROVE  Fits(tx[q], sites, generic')
    <2>1. PICK e \in Frame : e = tx[q] /\ Fits(e, sites, generic)
      BY OwnFrame
    <2>2. PICK si \in Table : si = sites
      BY DEF Safe, Tables
    <2>3. PICK ge : ge = generic
      OBVIOUS
    <2>4. PICK gf : gf = generic'
      OBVIOUS
    <2>5. Fits(e, si, ge)
      BY <2>1, <2>2, <2>3
    <2>6. \A g \in GenericIds : (ge[g] # NoRow => gf[g] # NoRow) /\ ~Alive(gf, g)
      BY <1>3, <2>3, <2>4
    <2>7. e.row # NoRow => \A v \in SiteIds \ {e.id} : ~Collide(e.row, si[v])
      BY <2>5 DEF Fits, RowFits
    <2>8. Fits(e, si, gf)
      BY <2>5, <2>6, <2>7, FitsSurvive
    <2> QED
      BY <2>1, <2>2, <2>4, <2>8
  <1> QED
    BY <1>1, <1>6, <1>7 DEF Safe

-----------------------------------------------------------------------------
\* The program starts from a database that it left before.
LEMMA InitSafe == Init => Safe
  <1> SUFFICES ASSUME Init
               PROVE  Safe
    OBVIOUS
  <1>1. PICK s \in Starts : sites = s.sites /\ homes = s.homes /\ menus = s.menus /\ generic = s.generic
    BY DEF Init
  <1>2. /\ sites \in Table /\ homes \in [SiteIds -> HomeRow \cup {NoRow}]
        /\ menus \in [SiteIds -> SUBSET Entries] /\ generic \in [GenericIds -> PageRow \cup {NoRow}]
    BY <1>1, StartsAssumption DEF Table, Entries
  <1>3. \A g, h \in GenericIds : (Alive(generic, g) /\ Alive(generic, h)) => g = h
    BY <1>1, StartsAssumption DEF Alive
  <1>4. \A w, v \in SiteIds : w # v => ~Collide(sites[w], sites[v])
    BY <1>1, StartsAssumption
  <1>5. \A w \in SiteIds : sites[w] # NoRow => Sound(sites[w])
    BY <1>1, StartsAssumption DEF Sound
  <1>6. BootstrapWhole
    BY <1>1, StartsAssumption DEF BootstrapWhole
  <1>7. tx = [p \in Procs |-> Idle("none")] /\ "none" \in Answers
    BY DEF Init, Answers, Outcomes
  <1>8. tx \in [Procs -> Frame] /\ \A p \in Procs : tx[p] = Idle("none")
    BY <1>7, IdleFits
  <1>9. /\ \A p \in Procs : Fits(tx[p], sites, generic)
        /\ \A p, q \in Procs : p # q => Parted(tx[p], tx[q])
    BY <1>7, <1>8, IdleFits
  <1> QED
    BY <1>2, <1>3, <1>4, <1>5, <1>6, <1>8, <1>9 DEF Safe, Tables

\* Every step of every request, and of the fanout, keeps the invariant.
LEMMA NextSafe == Safe /\ [Next]_vars => Safe'
  <1> SUFFICES ASSUME Safe, [Next]_vars
               PROVE  Safe'
    OBVIOUS
  <1>1. ASSUME NEW p \in Procs, Begin(p)
        PROVE  Safe'
    BY <1>1, BeginCreateKeeps, BeginPatchKeeps, BeginDeleteKeeps DEF Begin
  <1>2. ASSUME NEW p \in Procs, Step(p)
        PROVE  Safe'
    BY <1>2, CreateSiteKeeps, CreateResolveKeeps, CreateSeedKeeps, CreateForkKeeps,
       PatchUpdateKeeps, DeleteSiteKeeps, DeletePrimaryKeeps, DeleteUpdateKeeps, CommitKeeps DEF Step
  <1>3. ASSUME NEW p \in Procs, Lost(p)
        PROVE  Safe'
    BY <1>3, Returns DEF Lost, Answers
  <1>4. CASE UNCHANGED vars
    <2>1. sites' = sites /\ homes' = homes /\ menus' = menus /\ generic' = generic /\ tx' = tx
      BY <1>4 DEF vars
    <2> QED
      BY <2>1 DEF Safe, Tables, BootstrapWhole
  <1> QED
    BY <1>1, <1>2, <1>3, <1>4, FanoutKeeps DEF Next

\* The inductive invariant holds in every reachable state.
THEOREM SafeAlways == Spec => []Safe
  BY InitSafe, NextSafe, PTL DEF Spec

\* Live websites share neither a domain, the missing one included, nor a public principal,
\* whichever open transactions commit; one live generic homepage serves every bootstrap;
\* and no website is there without its homepage, at the url it was opened with, and its
\* menu entries.
THEOREM SitesHold == Spec => []SitesInv
  <1>1. Safe => SitesInv
    <2> SUFFICES ASSUME Safe
                 PROVE  SitesInv
      OBVIOUS
    <2>1. /\ sites \in [SiteIds -> SiteRow \cup {NoRow}] /\ BootstrapWhole
          /\ \A w, v \in SiteIds : w # v => ~Collide(sites[w], sites[v])
          /\ \A g, h \in GenericIds : (Alive(generic, g) /\ Alive(generic, h)) => g = h
      BY DEF Safe, Tables, Table
    <2> DEFINE versions(i) == {sites[i]} \cup {tx[q].row : q \in {x \in Procs : tx[x].id = i}}
    <2>2. ASSUME NEW w \in SiteIds, NEW v \in SiteIds, w # v, NEW q \in Procs, tx[q].id = w
          PROVE  ~Collide(tx[q].row, sites[v]) /\ ~Collide(sites[v], tx[q].row)
      <3>1. RowFits(tx[q], sites)
        BY OwnFrame DEF Fits
      <3>2. ~Collide(tx[q].row, sites[v])
        BY <2>2, <3>1 DEF RowFits, Collide
      <3> QED
        BY <3>2, Symmetric
    <2>3. ASSUME NEW w \in SiteIds, NEW v \in SiteIds, w # v,
                 NEW q \in Procs, tx[q].id = w, NEW x \in Procs, tx[x].id = v
          PROVE  ~Collide(tx[q].row, tx[x].row)
      <3>1. Parted(tx[q], tx[x])
        BY <2>3, OwnFrame
      <3> QED
        BY <3>1 DEF Parted, Collide
    <2>4. ASSUME NEW w \in SiteIds, NEW v \in SiteIds, w # v,
                 NEW r \in versions(w), NEW s \in versions(v)
          PROVE  ~Collide(r, s)
      BY <2>1, <2>2, <2>3, <2>4
    <2>5. ASSUME NEW g \in LiveGeneric \cup {tx[q].page : q \in {x \in Procs : tx[x].pageRow # NoRow}},
                 NEW h \in LiveGeneric \cup {tx[q].page : q \in {x \in Procs : tx[x].pageRow # NoRow}}
          PROVE  g = h
      <3>1. CASE \E q \in Procs : tx[q].pageRow # NoRow
        <4>1. PICK q \in Procs : tx[q].pageRow # NoRow
          BY <3>1
        <4>2. LiveGeneric = {}
          BY <4>1, OwnFrame DEF Fits, SeedFits, LiveGeneric, Alive
        <4>3. \A x \in Procs : tx[x].pageRow # NoRow => x = q
          BY <4>1, OwnFrame DEF Parted
        <4> QED
          BY <4>2, <4>3
      <3>2. CASE \A q \in Procs : tx[q].pageRow = NoRow
        BY <2>1, <3>2 DEF LiveGeneric, Alive
      <3> QED
        BY <3>1, <3>2
    <2> QED
      BY <2>1, <2>4, <2>5 DEF SitesInv
  <1> QED
    BY <1>1, SafeAlways, PTL

\* "Both sides of the exact match share one normalization" (normalize_host): a website
\* whose domain was given as a Host header gives it is found by that header, alone.
THEOREM HostsFound == Spec => []HostFindsItsWebsite
  <1>1. Safe => HostFindsItsWebsite
    <2> SUFFICES ASSUME Safe, NEW w \in SiteIds, Live(w), sites[w].typed # None,
                        HeaderHost(sites[w].typed)
                 PROVE  WebsiteByHost(sites[w].typed) = {w}
      BY DEF HostFindsItsWebsite
    <2>1. PICK r \in SiteRow : r = sites[w]
      BY DEF Live, Safe, Tables, Table
    <2>2. PICK h \in HostType : h = r.typed /\ HeaderHost(h)
      BY <2>1, RowFields, HostsAssumption
    <2>3. PICK d \in HostType : d = NormalizeHost(h) /\ d # None
      BY NormalizeType
    <2>4. NormalizeHost(d) = d
      BY <2>2, <2>3, HeaderTwice
    <2>5. sites[w].domain = d
      <3>1. Sound(sites[w])
        BY DEF Live, Safe, Tables
      <3> QED
        BY <2>1, <2>2, <2>3, <3>1 DEF Sound, Domain
    <2>6. ASSUME NEW v \in SiteIds, Live(v), sites[v].domain = d
          PROVE  v = w
      <3>1. SUFFICES ASSUME v # w
                     PROVE  FALSE
        OBVIOUS
      <3>2. ~Collide(sites[w], sites[v])
        BY <3>1 DEF Safe, Tables
      <3> QED
        BY <2>3, <2>5, <2>6, <3>2 DEF Collide, Live
    <2>7. WebsiteByHost(sites[w].typed) = {v \in SiteIds : Live(v) /\ sites[v].domain = d}
      BY <2>1, <2>2, <2>3, <2>4 DEF WebsiteByHost
    <2> QED
      BY <2>5, <2>6, <2>7
  <1> QED
    BY <1>1, SafeAlways, PTL

\* "Refuses while the website is its company's derived primary": a deletion that commits
\* over the table that its guard read leaves the company another live website, before it
\* in the order of primaries.
THEOREM PrimarySpared == Spec => DeletionSparesPrimary
  <1>1. Safe /\ [Next]_vars =>
          [\A p \in Procs : (Commits(p, "Deleted") /\ sites = tx[p].seen /\ Live(tx[p].id)) =>
             \E v \in SiteIds \ {tx[p].id} :
               /\ Live(v) /\ sites[v].company = sites[tx[p].id].company
               /\ sites[v].sequence <= sites[tx[p].id].sequence]_vars
    <2> SUFFICES ASSUME Safe, NEW p \in Procs, Commits(p, "Deleted"), sites = tx[p].seen,
                        Live(tx[p].id)
                 PROVE  \E v \in SiteIds \ {tx[p].id} :
                          /\ Live(v) /\ sites[v].company = sites[tx[p].id].company
                          /\ sites[v].sequence <= sites[tx[p].id].sequence
      OBVIOUS
    <2>1. LabelFits(tx[p], sites, generic)
      BY OwnFrame DEF Fits
    <2>2. tx[p].pc = "commit" /\ tx[p].done = "Deleted"
      BY DEF Commits
    <2>3. Spared(tx[p].seen, tx[p].id)
      BY <2>1, <2>2 DEF LabelFits
    <2> QED
      BY <2>3 DEF Spared, Live
  <1> QED
    BY <1>1, SafeAlways, PTL DEF Spec, DeletionSparesPrimary
=============================================================================
