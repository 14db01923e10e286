------------------------------ MODULE Officer ------------------------------
(***************************************************************************)
(* The officer routes (admin_routes.rs): what a JSON body becomes, which   *)
(* columns a verb may touch, where its audit entry is written and what the *)
(* caller is told; over one row of one table, beside the generated write   *)
(* path of Entities on the same row.                                       *)
(*                                                                         *)
(* What the verbs do to other rows is in Pages, Menus, Routing, Sites,     *)
(* Visitors and Tours: here each may be refused by its service (Refuse).   *)
(***************************************************************************)
EXTENDS Entities

CONSTANTS
    Procs,        \* requests being served
    Tables,       \* names of Entities
    MaxCalls,
    NoRecord

VARIABLES
    table,        \* which table the row is in
    row,          \* a kind of value per column, or NoRecord
    guarded,      \* history: the columns last written under the row rules
    tx,           \* the requests
    log,          \* history: per call, its verb and the hundreds of the status it was answered
    stored,       \* history: the calls that committed a change
    trail,        \* website_audit_logs: <<call, what>>
    calls

vars == <<table, row, guarded, tx, log, stored, trail, calls>>

HandTables == {"Website", "Page", "Menu", "Redirect"}
E == Entities[table]

ASSUME TablesAssumption == Tables \subseteq DOMAIN Entities
ASSUME MaxCallsAssumption == MaxCalls \in Nat

-----------------------------------------------------------------------------
Kinds == {"new", "blank", "long", "null", "wrong", "big"}

(* What the bodies may carry: plain texts, lists, integers, flags, free JSON, and columns that *)
(* `null` clears.                                                                              *)

NoKeys == [text |-> {}, list |-> {}, int |-> {}, flag |-> {}, any |-> {}, clears |-> {},
           forbidden |-> {}]

WebsiteBody ==
    [NoKeys EXCEPT !.text = {"name", "domain", "default_lang_code", "homepage_url", "robots_txt"},
                   !.any = {"social_links"}, !.list = {"contact_recipients"}, !.int = {"sequence"},
                   !.forbidden = {"public_user_id", "company_id"}]

PageBody ==
    [NoKeys EXCEPT !.text = {"url", "title", "seo_name", "visibility"},
                   !.list = {"required_member_roles"}, !.flag = {"website_indexed"},
                   !.forbidden = {"is_published", "date_publish"}]

MenuBody ==
    [NoKeys EXCEPT !.text = {"name", "visibility"}, !.list = {"required_member_roles"},
                   !.int = {"sequence"}, !.flag = {"new_window", "is_mega_menu"},
                   !.clears = {"parent_id", "page_id", "url"}]

RedirectBody ==
    [NoKeys EXCEPT !.text = {"url_from", "redirect_type"}, !.clears = {"url_to", "description"}]

Body == [Website |-> WebsiteBody, Page |-> PageBody, Menu |-> MenuBody, Redirect |-> RedirectBody]

\* A wrong variant, for the checks of PatchStaysInItsColumns: null clears any column.
ClearingDecode(B, c, v) ==
    IF v = "null" THEN {"null"} ELSE IF v \in {"wrong", "big"} THEN {} ELSE {v}

\* as_str, as_array, as_i64 (cut to 32 bits), as_bool, any non-null, and the clearing columns,
\* where what cannot be read clears.  The empty set is None: the patch does not set the column.
Decode(B, c, v) ==
    CASE c \in B.text   -> IF v \in {"null", "wrong", "big"} THEN {} ELSE {v}
      [] c \in B.int    -> IF v = "big" THEN {"wrapped"} ELSE IF v \in {"ok", "new"} THEN {v} ELSE {}
      [] c \in B.any    -> IF v = "null" THEN {} ELSE {v}
      [] c \in B.clears -> IF v \in {"null", "wrong", "big"} \/ ~Readable(E, c, v) THEN {"null"} ELSE {v}
      [] c \in B.list \cup B.flag -> IF v \in {"ok", "new"} THEN {v} ELSE {}
      [] OTHER -> {}

\* What a create body must name, and what it has no field for.
Named == CASE table = "Website"  -> {"name", "company_id"}
           [] table = "Page"     -> {"key", "url", "title"}
           [] table = "Menu"     -> {"website_id", "name"}
           [] table = "Redirect" -> {"website_id", "url_from", "redirect_type"}

Unnamed == IF table = "Page" THEN {"is_published", "date_publish", "forked_from", "forked_at", "forked_by"}
           ELSE {}

\* Unknown fields are ignored, and null stands for a field that is left out.
ReadableBody(body) ==
    /\ Named \subseteq DOMAIN body
    /\ \A c \in DOMAIN body \ Unnamed :
         Readable(E, c, body[c]) \/ (body[c] = "null" /\ c \notin Named)

\* The patch a body becomes.
PatchOf(B, body) ==
    LET Set == {c \in DOMAIN body : Decode(B, c, body[c]) # {}}
    IN  [c \in Set |-> CHOOSE v \in Decode(B, c, body[c]) : TRUE]

\* What the services refuse, in a patch, and in a create besides.  (More than the kinds of value
\* tell, a service refuses by Refuse.)
Bad == [Website |-> {<<"homepage_url", "blank">>}, Page |-> {<<"url", "blank">>}, Menu |-> {},
        Redirect |-> {<<"url_from", "blank">>}]
BadNew == [Website |-> {<<"name", "blank">>}, Page |-> {<<"key", "blank">>, <<"key", "long">>},
           Menu |-> {<<"name", "blank">>}, Redirect |-> {}]
Acceptable(values, bad) ==
    \A c \in DOMAIN values : /\ <<c, values[c]>> \notin bad
                             /\ values[c] \in {"blank", "long"} => c \in E.columns.texts

\* An empty domain is stored as NULL.
Stored(c, v) == IF c = "domain" /\ v = "blank" THEN "null" ELSE v

-----------------------------------------------------------------------------
(* The verbs: what a served one answers, and where its audit entry is written: in its own      *)
(* transaction, on the pool after the commit, or nowhere.                                       *)

WebsiteVerbs == [create_website |-> 201, patch_website |-> 200, delete_website |-> 204]
PageWrites == [create_page |-> 201, patch_page |-> 200, publish_page |-> 200]
PageVerbs == [unpublish_page |-> 200, fork_page |-> 201, fanout_delete_page |-> 200,
              rename_page |-> 200, delete_page |-> 204]
MenuVerbs == [create_menu |-> 201, fanout_menu |-> 201, patch_menu |-> 200, delete_menu |-> 204]
RedirectVerbs == [create_redirect |-> 201, patch_redirect |-> 200, delete_redirect |-> 204]
VisitorVerbs == [merge_visitors |-> 200, sweep_visitors |-> 200]
TourVerbs == [upsert_tour |-> 200, delete_tour |-> 200, reset_tour |-> 200]

WebsiteAudit == [create_website |-> "tx", patch_website |-> "none", delete_website |-> "none"]
PageAudit == [create_page |-> "pool", patch_page |-> "pool", publish_page |-> "tx",
              unpublish_page |-> "tx", rename_page |-> "tx", delete_page |-> "none"]
VersionAudit == [fork_page |-> "tx", fanout_delete_page |-> "tx"]
MenuAudit == [create_menu |-> "pool", patch_menu |-> "pool", delete_menu |-> "tx",
              fanout_menu |-> "tx"]
RedirectAudit == [create_redirect |-> "pool", patch_redirect |-> "pool", delete_redirect |-> "tx"]
MergeAudit == [merge_visitors |-> "tx"]
\* The sweep's own entry; the route adds one of the officer's and ignores its failure.
SweepAudit == [sweep_visitors |-> "pool"]
TourAudit == [upsert_tour |-> "tx", delete_tour |-> "tx", reset_tour |-> "tx"]

PatchVerb == [Website |-> "patch_website", Page |-> "patch_page", Menu |-> "patch_menu",
              Redirect |-> "patch_redirect"]
CreateVerb == [Website |-> "create_website", Page |-> "create_page", Menu |-> "create_menu",
               Redirect |-> "create_redirect"]

\* One table of several that name different verbs.
Gathered(S) == [v \in UNION {DOMAIN r : r \in S} |-> (CHOOSE r \in S : v \in DOMAIN r)[v]]

Verbs == Gathered({WebsiteVerbs, PageWrites, PageVerbs, MenuVerbs, RedirectVerbs, VisitorVerbs,
                   TourVerbs})
Audits == Gathered({WebsiteAudit, PageAudit, VersionAudit, MenuAudit, RedirectAudit, MergeAudit,
                    SweepAudit, TourAudit})

\* Where the entry is written.
Position(v) == Audits[v]

\* The verbs that write the columns of the row at hand, and those whose effects are elsewhere.
ColumnVerbs == {PatchVerb[t] : t \in HandTables} \cup {CreateVerb[t] : t \in HandTables}
Effects == DOMAIN Verbs \ ColumnVerbs

\* A wrong variant, for the checks of AnswersTellTheStore: a failed entry is overlooked.
OverlookedFailure(v) == Verbs[v]

\* The answer when the entry on the pool fails: the error is propagated.
AuditFailed(v) == 500

\* http_status: the refusals of the officers' services, and what is not theirs.
Refusals == {400, 404, 409, 422}
Internal == 500

-----------------------------------------------------------------------------
(* A request to a hand verb. *)

Values(c) ==
    {"new", "null", "wrong"} \cup (IF c \in E.columns.texts THEN {"blank", "long"} ELSE {})
                             \cup (IF c \in E.columns.ints THEN {"big"} ELSE {})

\* A body: nothing, or one column.
Singles == {<< >>} \cup UNION {{[x \in {c} |-> v] : v \in Values(c)} : c \in Columns(E)}

\* A whole body of good values, but for one column that is odd or missing.
Wholes ==
    LET Whole == [c \in Columns(E) |-> "new"] IN
    {[c \in Columns(E) \ {d} |-> "new"] : d \in Columns(E)}
    \cup (UNION {{[Whole EXCEPT ![d] = v] : v \in Values(d)} : d \in Columns(E)})

Idle == [pc |-> "idle", n |-> 0, verb |-> "none", body |-> << >>]
Call(p, verb, body) ==
    /\ tx[p].pc = "idle" /\ calls > 0
    /\ calls' = calls - 1
    /\ log' = [log EXCEPT ![calls] = [verb |-> verb, hundreds |-> 0]]
    /\ tx' = [tx EXCEPT ![p] = [pc |-> "handler", n |-> calls, verb |-> verb, body |-> body]]
    /\ UNCHANGED <<table, row, guarded, stored, trail>>

At(p, label) == tx[p].pc = label /\ UNCHANGED <<table, calls>>
Goto(p, label) == tx' = [tx EXCEPT ![p].pc = label] /\ UNCHANGED log
Answer(p, status) ==
    /\ tx' = [tx EXCEPT ![p] = Idle]
    /\ log' = [log EXCEPT ![tx[p].n].hundreds = status \div 100]
StoreKept == UNCHANGED <<row, guarded, stored>>
Audited(p, what) == trail' = trail \cup {<<tx[p].n, what>>}

BeginPatch(p) ==
    table \in HandTables /\ row # NoRecord /\ \E body \in Singles : Call(p, PatchVerb[table], body)

BeginCreate(p) ==
    table \in HandTables /\ row = NoRecord /\ \E body \in Wholes : Call(p, CreateVerb[table], body)

\* The row plays no part in these: they are tried where there is none.
BeginEffect(p) == row = NoRecord /\ \E v \in Effects : Call(p, v, << >>)

IsPatch(p) == tx[p].verb \in {PatchVerb[t] : t \in HandTables}
IsCreate(p) == tx[p].verb \in {CreateVerb[t] : t \in HandTables}
Patch(p) == PatchOf(Body[table], tx[p].body)

\* A forbidden key is refused before anything is read, and for a page that refusal is audited; a
\* patch that sets no column is refused.
Handle(p) ==
    LET Fenced == DOMAIN tx[p].body \cap Body[table].forbidden # {} IN
    /\ At(p, "handler")
    /\ StoreKept /\ UNCHANGED trail
    /\ \/ IsPatch(p) /\ Fenced /\ table = "Page" /\ Goto(p, "refusal")
       \/ IsPatch(p) /\ Fenced /\ table # "Page" /\ Answer(p, 422)
       \/ IsPatch(p) /\ ~Fenced /\ DOMAIN Patch(p) = {} /\ Answer(p, 400)
       \/ IsPatch(p) /\ ~Fenced /\ DOMAIN Patch(p) # {} /\ Goto(p, "write")
       \/ ~IsPatch(p) /\ Goto(p, "write")

\* publish_refused: a failure to write it is ignored.
AuditRefusal(p) ==
    /\ At(p, "refusal")
    /\ StoreKept
    /\ Audited(p, "refused") \/ UNCHANGED trail
    /\ Answer(p, 422)

\* The service refuses, or the database fails before the commit.
Refuse(p) ==
    /\ At(p, "write")
    /\ StoreKept /\ UNCHANGED trail
    /\ \E status \in Refusals \cup {Internal} : Answer(p, status)

\* The columns a create verb stores: what the body gives, null or not.
CreatedBy(body) ==
    [c \in Columns(E) |->
        IF \/ c \notin DOMAIN body \ Unnamed \/ body[c] = "null"
           \/ c = "default_lang_code" /\ body[c] = "blank"
        THEN Absent(E, c) ELSE Stored(c, body[c])]

Put(new) ==
    /\ row' = new
    /\ guarded' = IF row = NoRecord THEN {} ELSE {c \in guarded : new[c] = row[c]}

WriteColumns(p) ==
    \/ /\ IsPatch(p) /\ row # NoRecord /\ Acceptable(Patch(p), Bad[table])
       /\ Put([c \in Columns(E) |-> IF c \in DOMAIN Patch(p) THEN Stored(c, Patch(p)[c]) ELSE row[c]])
    \/ /\ IsCreate(p) /\ row = NoRecord
       /\ ReadableBody(tx[p].body) /\ Acceptable(tx[p].body, Bad[table] \cup BadNew[table])
       /\ Put(CreatedBy(tx[p].body))
    \/ tx[p].verb \in Effects /\ UNCHANGED <<row, guarded>>

\* The transaction commits, with the entry if the verb writes it there; when the acknowledgement
\* is lost the caller is told 500.
Commit(p) ==
    LET v == tx[p].verb IN
    /\ At(p, "write")
    /\ WriteColumns(p)
    /\ stored' = stored \cup {tx[p].n}
    /\ IF Position(v) = "tx" THEN Audited(p, "done") ELSE UNCHANGED trail
    /\ \/ Position(v) = "pool" /\ Goto(p, "audit")
       \/ Position(v) # "pool" /\ Answer(p, Verbs[v])
       \/ Answer(p, Internal)

\* record_audit_on_pool, after the commit.
AuditOnPool(p) ==
    /\ At(p, "audit")
    /\ StoreKept
    /\ \/ Audited(p, "done") /\ Answer(p, Verbs[tx[p].verb])
       \/ UNCHANGED trail /\ Answer(p, AuditFailed(tx[p].verb))

\* The process stops: nobody is answered, and what was not committed is gone.
Crash ==
    /\ \E p \in Procs : tx[p].pc # "idle"
    /\ tx' = [p \in Procs |-> Idle]
    /\ UNCHANGED <<table, row, guarded, log, stored, trail, calls>>

-----------------------------------------------------------------------------
(* The generated services on the same row: no audit; a refusal changes nothing. *)

\* The service stores `new` in place of `old` if the guard lets it.
GuardedWrite(old, new) ==
    /\ calls > 0 /\ calls' = calls - 1
    /\ Guard(E, IF old = NoRecord THEN << >> ELSE old, new)
    /\ row' = new
    /\ guarded' = IF old = NoRecord THEN Columns(E)
                  ELSE guarded \cup {c \in Columns(E) : new[c] # old[c]}
    /\ UNCHANGED <<table, tx, log, stored, trail>>

GenericCreate ==
    row = NoRecord /\ \E body \in Wholes : Creatable(E, body) /\ GuardedWrite(NoRecord, Created(E, body))

GenericUpdate ==
    row # NoRecord /\ \E body \in Wholes : Updatable(E, body) /\ GuardedWrite(row, Updated(E, row, body))

GenericPatch == row # NoRecord /\ \E body \in Singles : GuardedWrite(row, Patched(E, row, body))

\* A host or a seed stores a built row through the repository, past the rules.
StoreBuilt ==
    /\ row = NoRecord /\ calls > 0 /\ calls' = calls - 1
    /\ \E args \in Wholes : Buildable(E, args) /\ row' = Built(E, args)
    /\ guarded' = {}
    /\ UNCHANGED <<table, tx, log, stored, trail>>

-----------------------------------------------------------------------------

Init ==
    /\ table \in Tables
    /\ row = NoRecord \/ \E odd \in Columns(E) : \E v \in {"ok", "blank", "long"} :
          /\ Readable(E, odd, v)
          /\ row = [c \in Columns(E) |-> IF c = odd THEN v ELSE "ok"]
    /\ guarded = {}
    /\ tx = [p \in Procs |-> Idle]
    /\ log = [n \in 1..MaxCalls |-> [verb |-> "none", hundreds |-> 0]]
    /\ stored = {} /\ trail = {}
    /\ calls = MaxCalls

Request(p) ==
    \/ BeginPatch(p) \/ BeginCreate(p) \/ BeginEffect(p)
    \/ Handle(p) \/ AuditRefusal(p) \/ Refuse(p) \/ Commit(p) \/ AuditOnPool(p)

Next ==
    \/ \E p \in Procs : Request(p)
    \/ Crash
    \/ GenericCreate \/ GenericUpdate \/ GenericPatch \/ StoreBuilt

Spec == Init /\ [][Next]_vars

-----------------------------------------------------------------------------
(* Properties. *)

\* What an officer is told, what is stored and what the trail says agree, though the three are
\* written at different moments: a success was stored and, unless its verb keeps no entry, is in
\* the trail; a 4xx stored nothing; the trail names only what was stored, and a verb that audits
\* in its transaction is never stored without its entry, crash or not.
AnswersTellTheStore ==
    \A n \in 1..MaxCalls : LET l == log[n] IN
        /\ l.hundreds = 2 => n \in stored /\ (Audits[l.verb] # "none" => <<n, "done">> \in trail)
        /\ l.hundreds = 4 => n \notin stored /\ <<n, "done">> \notin trail
        /\ <<n, "done">> \in trail => n \in stored
        /\ <<n, "refused">> \in trail => n \notin stored
        /\ n \in stored /\ Audits[l.verb] = "tx" => <<n, "done">> \in trail

\* Rows that predate a rule, or that hand verbs and seeds wrote past it, are let live: but no
\* generated write ever puts a value that breaks a rule into a column, whatever else is wrong with
\* the row, and no column that may not be NULL becomes so.
RuledColumns ==
    row # NoRecord => \A c \in Columns(E) :
        /\ c \in guarded => ~Breaks(E, c, row[c])
        /\ row[c] = "null" => c \in E.columns.optional \cup E.columns.json

\* An officer's patch changes only columns its body names, never the identity or the publication
\* of the row, and leaves a value in every column that must have one, whatever the JSON held.
PatchStaysInItsColumns ==
    [][\A p \in Procs : (tx[p].pc = "write" /\ IsPatch(p) /\ row' # row /\ tx'[p].pc # "write") =>
          \A c \in Columns(E) : row'[c] # row[c] =>
              /\ c \in DOMAIN tx[p].body
              /\ c \notin {"company_id", "public_user_id", "is_published", "date_publish"}
              /\ row'[c] = "null" => c \in E.columns.optional]_vars
=============================================================================
