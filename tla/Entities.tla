------------------------------ MODULE Entities ------------------------------
(***************************************************************************)
(* The generated write path: the columns of the ten tables                 *)
(* (domain/entity), what their builders, create, update and patch shapes   *)
(* need and leave out (presentation/dto, apply_patch), and the row rules   *)
(* the generated services check (the row_rules files).                     *)
(*                                                                         *)
(* A column holds a kind of value: "ok" and "new" are two good values,     *)
(* "blank" and "long" texts a rule may refuse, "null", "default" what the  *)
(* code fills in.  A request adds "wrong", a value of no readable type,    *)
(* and "big", an integer beyond 32 bits; "wrapped" is such a one cut to 32.*)
(* GenericCrudService itself is in backbone_core.                          *)
(***************************************************************************)
EXTENDS Naturals

\* Strings, 32-bit integers, free JSON, the rest; and which are Option<_>.
WebsiteColumns ==
    [texts |-> {"name", "domain", "default_lang_code", "homepage_url", "robots_txt"},
     ints |-> {"sequence"}, json |-> {"social_links"},
     others |-> {"company_id", "public_user_id", "contact_recipients"},
     optional |-> {"domain", "robots_txt", "social_links"}]
PageColumns ==
    [texts |-> {"key", "url", "title", "seo_name"}, ints |-> {}, json |-> {},
     others |-> {"website_id", "is_published", "date_publish", "website_indexed", "visibility",
         "required_member_roles", "forked_from", "forked_at", "forked_by"},
     optional |-> {"website_id", "seo_name", "date_publish", "forked_from", "forked_at", "forked_by"}]
MenuColumns ==
    [texts |-> {"name", "url"}, ints |-> {"sequence"}, json |-> {},
     others |-> {"website_id", "parent_id", "page_id", "new_window", "visibility",
         "required_member_roles", "is_mega_menu"},
     optional |-> {"parent_id", "page_id", "url"}]
RedirectColumns ==
    [texts |-> {"url_from", "url_to", "description"}, ints |-> {}, json |-> {},
     others |-> {"website_id", "redirect_type"}, optional |-> {"url_to", "description"}]
VisitorColumns ==
    [texts |-> {"access_token", "digest", "digest_algo", "country_code"},
     ints |-> {"visit_count"}, json |-> {},
     others |-> {"website_id", "kind", "portal_user_id", "last_connection_at"},
     optional |-> {"portal_user_id", "country_code"}]
VisitorTrackColumns ==
    [texts |-> {"url"}, ints |-> {}, json |-> {},
     others |-> {"visitor_id", "page_id", "visited_at"}, optional |-> {"page_id"}]
WebsiteMemberColumns ==
    [texts |-> {}, ints |-> {}, json |-> {}, others |-> {"website_id", "portal_user_id", "role"},
     optional |-> {}]
PageBlockColumns ==
    [texts |-> {}, ints |-> {"position"}, json |-> {"payload"}, others |-> {"page_id", "kind"},
     optional |-> {}]
MenuBlockColumns ==
    [texts |-> {}, ints |-> {"position"}, json |-> {"payload"}, others |-> {"menu_id", "kind"},
     optional |-> {}]
ContactMessageColumns ==
    [texts |-> {"name", "email", "message"}, ints |-> {}, json |-> {},
     others |-> {"website_id", "notified"}, optional |-> {"name"}]

Of(C) == C.texts \cup C.ints \cup C.json \cup C.others

\* The builder refuses without these; it fills the others in.
WebsiteBuild == {"name", "company_id", "public_user_id"}
PageBuild == {"key", "url", "title"}
MenuBuild == {"website_id", "name"}
RedirectBuild == {"website_id", "url_from"}
VisitorBuild == {"website_id", "access_token", "digest"}
VisitorTrackBuild == {"visitor_id", "url"}
WebsiteMemberBuild == {"website_id", "portal_user_id"}
PageBlockBuild == {"page_id", "kind", "position", "payload"}
MenuBlockBuild == {"menu_id", "kind", "position", "payload"}
ContactMessageBuild == {"website_id", "email", "message"}

\* A create body is unreadable without these.
WebsiteCreate == {"name", "company_id", "public_user_id", "contact_recipients"}
PageCreate == {"key", "url", "title", "required_member_roles"}
MenuCreate == {"website_id", "name", "required_member_roles"}
RedirectCreate == {"website_id", "url_from"}
VisitorCreate == {"website_id", "access_token", "digest"}
VisitorTrackCreate == {"visitor_id", "url"}
WebsiteMemberCreate == {"website_id", "portal_user_id"}
PageBlockCreate == {"page_id", "kind", "position", "payload"}
MenuBlockCreate == {"menu_id", "kind", "position", "payload"}
ContactMessageCreate == {"website_id", "email", "message"}

\* What the conversion from the create body sets itself.
WebsiteFrom == {}
PageFrom == {"visibility"}
MenuFrom == {}
RedirectFrom == {"redirect_type"}
VisitorFrom == {"kind"}
VisitorTrackFrom == {}
WebsiteMemberFrom == {"role"}
PageBlockFrom == {}
MenuBlockFrom == {}
ContactMessageFrom == {}

\* An update body is unreadable without these.
WebsiteUpdate == {"name", "company_id", "public_user_id", "homepage_url", "contact_recipients",
    "sequence"}
PageUpdate == {"key", "url", "title", "is_published", "website_indexed", "visibility",
    "required_member_roles"}
MenuUpdate == {"website_id", "name", "new_window", "sequence", "visibility",
    "required_member_roles", "is_mega_menu"}
RedirectUpdate == {"website_id", "url_from", "redirect_type"}
VisitorUpdate == {"website_id", "kind", "digest", "digest_algo", "visit_count",
    "last_connection_at"}
VisitorTrackUpdate == {"visitor_id", "url", "visited_at"}
WebsiteMemberUpdate == {"website_id", "portal_user_id", "role"}
PageBlockUpdate == {"page_id", "kind", "position", "payload"}
MenuBlockUpdate == {"menu_id", "kind", "position", "payload"}
ContactMessageUpdate == {"website_id", "email", "message", "notified"}

\* What an update writes: the absent optional ones as well.
WebsiteApply == Of(WebsiteColumns)
PageApply == Of(PageColumns)
MenuApply == Of(MenuColumns)
RedirectApply == Of(RedirectColumns)
VisitorApply == Of(VisitorColumns) \ {"access_token"}
VisitorTrackApply == Of(VisitorTrackColumns)
WebsiteMemberApply == Of(WebsiteMemberColumns)
PageBlockApply == Of(PageBlockColumns)
MenuBlockApply == Of(MenuBlockColumns)
ContactMessageApply == Of(ContactMessageColumns)

\* What apply_patch knows.
WebsitePatch == Of(WebsiteColumns)
PagePatch == Of(PageColumns)
MenuPatch == Of(MenuColumns)
RedirectPatch == Of(RedirectColumns)
VisitorPatch == Of(VisitorColumns)
VisitorTrackPatch == Of(VisitorTrackColumns)
WebsiteMemberPatch == Of(WebsiteMemberColumns)
PageBlockPatch == Of(PageBlockColumns)
MenuBlockPatch == Of(MenuBlockColumns)
ContactMessagePatch == Of(ContactMessageColumns)

\* Not null and not blank; not longer than a maximum.
WebsiteRules == [required |-> {"name", "public_user_id", "default_lang_code", "homepage_url"}, max
    |-> {"name", "domain", "default_lang_code", "homepage_url"}]
PageRules == [required |-> {"key", "url", "title"}, max |-> {"key", "url", "title", "seo_name"}]
MenuRules == [required |-> {"website_id", "name"}, max |-> {"name", "url"}]
RedirectRules == [required |-> {"website_id", "url_from"}, max |-> {"url_from", "url_to",
    "description"}]
VisitorRules == [required |-> {"website_id", "access_token", "digest", "digest_algo"}, max |->
    {"access_token", "digest", "digest_algo", "country_code"}]
VisitorTrackRules == [required |-> {"visitor_id", "url"}, max |-> {"url"}]
WebsiteMemberRules == [required |-> {"website_id", "portal_user_id"}, max |-> {}]
PageBlockRules == [required |-> {"page_id"}, max |-> {}]
MenuBlockRules == [required |-> {"menu_id"}, max |-> {}]
ContactMessageRules == [required |-> {"website_id", "email", "message"}, max |-> {"name", "email",
    "message"}]

\* The tables by name.
Entities ==
    [Website |-> [columns |-> WebsiteColumns, build |-> WebsiteBuild, create |-> WebsiteCreate, from
                 |-> WebsiteFrom, update |-> WebsiteUpdate, apply |-> WebsiteApply,
                 patch |-> WebsitePatch, rules |-> WebsiteRules],
     Page |-> [columns |-> PageColumns, build |-> PageBuild, create |-> PageCreate, from |->
              PageFrom, update |-> PageUpdate, apply |-> PageApply, patch |->
              PagePatch, rules |-> PageRules],
     Menu |-> [columns |-> MenuColumns, build |-> MenuBuild, create |-> MenuCreate, from |->
              MenuFrom, update |-> MenuUpdate, apply |-> MenuApply, patch |->
              MenuPatch, rules |-> MenuRules],
     Redirect |-> [columns |-> RedirectColumns, build |-> RedirectBuild, create |-> RedirectCreate,
                  from |-> RedirectFrom, update |-> RedirectUpdate, apply |->
                  RedirectApply, patch |-> RedirectPatch, rules |-> RedirectRules],
     Visitor |-> [columns |-> VisitorColumns, build |-> VisitorBuild, create |-> VisitorCreate, from
                 |-> VisitorFrom, update |-> VisitorUpdate, apply |-> VisitorApply,
                 patch |-> VisitorPatch, rules |-> VisitorRules],
     VisitorTrack |-> [columns |-> VisitorTrackColumns, build |-> VisitorTrackBuild, create |->
                      VisitorTrackCreate, from |-> VisitorTrackFrom, update |->
                      VisitorTrackUpdate, apply |-> VisitorTrackApply, patch |->
                      VisitorTrackPatch, rules |-> VisitorTrackRules],
     WebsiteMember |-> [columns |-> WebsiteMemberColumns, build |-> WebsiteMemberBuild, create |->
                       WebsiteMemberCreate, from |-> WebsiteMemberFrom, update |->
                       WebsiteMemberUpdate, apply |-> WebsiteMemberApply, patch |->
                       WebsiteMemberPatch, rules |-> WebsiteMemberRules],
     PageBlock |-> [columns |-> PageBlockColumns, build |-> PageBlockBuild, create |-> PageBlockCreate,
                   from |-> PageBlockFrom, update |-> PageBlockUpdate, apply |->
                   PageBlockApply, patch |-> PageBlockPatch, rules |->
                   PageBlockRules],
     MenuBlock |-> [columns |-> MenuBlockColumns, build |-> MenuBlockBuild, create |-> MenuBlockCreate,
                   from |-> MenuBlockFrom, update |-> MenuBlockUpdate, apply |->
                   MenuBlockApply, patch |-> MenuBlockPatch, rules |->
                   MenuBlockRules],
     ContactMessage |-> [columns |-> ContactMessageColumns, build |-> ContactMessageBuild, create |->
                        ContactMessageCreate, from |-> ContactMessageFrom, update
                        |-> ContactMessageUpdate, apply |-> ContactMessageApply,
                        patch |-> ContactMessagePatch, rules |->
                        ContactMessageRules]]
-----------------------------------------------------------------------------
(* Bodies, and the rows they make. *)

Columns(E) == Of(E.columns)

\* serde reads v into the type of column c.
Readable(E, c, v) ==
    \/ c \in E.columns.json
    \/ v \in {"ok", "new"}
    \/ v \in {"blank", "long"} /\ c \in E.columns.texts
    \/ v = "null" /\ c \in E.columns.optional

AllReadable(E, body) == \A c \in DOMAIN body : Readable(E, c, body[c])

\* What column c holds when nothing is said of it.
Absent(E, c) == IF c \in E.columns.optional THEN "null" ELSE "default"

Given(E, body, c) == IF c \in DOMAIN body THEN body[c] ELSE Absent(E, c)

\* The builder: its setters take typed values.
Built(E, args) == [c \in Columns(E) |-> Given(E, args, c)]
Buildable(E, args) == E.build \subseteq DOMAIN args /\ AllReadable(E, args)

Creatable(E, body) ==
    E.create \subseteq DOMAIN body
    /\ \A c \in DOMAIN body \ E.from : Readable(E, c, body[c])
Created(E, body) == [c \in Columns(E) |-> IF c \in E.from THEN "default" ELSE Given(E, body, c)]

Updatable(E, body) ==
    E.update \subseteq DOMAIN body
    /\ \A c \in DOMAIN body \cap E.apply : Readable(E, c, body[c])
Updated(E, row, body) ==
    [c \in Columns(E) |-> IF c \in E.apply THEN Given(E, body, c) ELSE row[c]]

\* Fields that are unknown or cannot be read are passed over.
Patched(E, row, body) ==
    [c \in Columns(E) |-> IF c \in DOMAIN body \cap E.patch /\ Readable(E, c, body[c])
                          THEN body[c] ELSE row[c]]

\* A null satisfies a maximum.
Breaks(E, c, v) ==
    \/ c \in E.rules.required /\ v \in {"null", "blank"}
    \/ c \in E.rules.max /\ v = "long"

\* A wrong variant, for the checks of RuledColumns: an update may put any value into
\* a column that was NULL.
LaxGuard(E, before, after) ==
    \A c \in Columns(E) :
        Breaks(E, c, after[c]) => c \in DOMAIN before /\ (after[c] = before[c] \/ before[c] = "null")

\* The write guard: a create (no row before) is checked on every column, an update on those it
\* changes.
Guard(E, before, after) ==
    \A c \in Columns(E) :
        Breaks(E, c, after[c]) => c \in DOMAIN before /\ after[c] = before[c]
=============================================================================
