-------------------------------- MODULE Site --------------------------------
(***************************************************************************)
(* The way of a request from a browser to a handler and back: the host it  *)
(* asks, the plant's status, the route, the session and the CSRF token.    *)
(* One tab of a browser is followed; its other tabs, the other devices and *)
(* the administrators change the cookies, the sessions and the plant's     *)
(* status at any moment, also while a request is under way.                *)
(***************************************************************************)
EXTENDS Pages, Sequences

CONSTANTS
    SiteStatuses,  \* bound: the statuses the plant goes through
    Tabs,        \* bound: the hosts, and the pages at each, that a tab visits
    MaxLogins,   \* bound: session tokens
    MaxMinted    \* bound: public CSRF tokens

Areas == {"platform", "admin", "customer", "staff", "owner"}

ASSUME SiteAssumption ==
    /\ SiteStatuses \subseteq PlantRows
    /\ Tabs \subseteq [host : Seq(STRING), area : Areas]
    /\ MaxLogins \in Nat /\ MaxMinted \in Nat

VARIABLES
    host,      \* the host the tab is at, as labels
    area,      \* the pages it visits
    status,    \* the plant's status
    alive,     \* the session tokens that Redis has
    logins,    \* the number of session tokens made
    minted,    \* the number of public tokens made
    jar,       \* the browser's cookies, 0 where there is none
    doing,     \* what the tab does
    page,      \* the page it asked for last
    forms,     \* the forms the page offers
    posted,    \* the form under way
    cookies,   \* the cookies of the request under way
    embedded,  \* the tokens in the page
    answer,    \* how the last request ended
    seen,      \* history: the plant's statuses since the request was sent
    causes     \* history: what happened to the page's tokens since it was asked for, and
               \* whether the last request named no row or had a query that failed

siteVars == <<host, area, status, alive, logins, minted, jar, doing, page, forms, posted, cookies,
              embedded, answer, seen, causes>>

----------------------------------------------------------------------------
(* Hosts. *)

BaseDomain == <<"gatstogo", "com">>

Slug == "sunrise"  \* of the plant

\* Without a dot there is no subdomain; the apex yields its own first label.
ExtractSubdomain(h) == IF Len(h) < 2 THEN "" ELSE Head(h)

IsMarketingHost(h) ==
    \/ h \in {BaseDomain, <<"www">> \o BaseDomain}
    \/ ExtractSubdomain(h) \in {"", "www"}

HasBaseDomainSuffix(h) ==
    /\ Len(h) > Len(BaseDomain)
    /\ SubSeq(h, Len(h) - Len(BaseDomain) + 1, Len(h)) = BaseDomain

IsTenantHost(h) ==
    /\ ExtractSubdomain(h) \notin {"", "www", "admin", "api"}
    /\ HasBaseDomainSuffix(h)

PlatformHosts == {BaseDomain, <<"www">> \o BaseDomain, <<"localhost">>}
PlantHosts == {<<Slug>> \o BaseDomain}

\* The hosts that lead to the server: the domain and, by the wildcard of its DNS record and its
\* certificate, the names directly below it; the developer's; and names of others than www.
Resolved(h) ==
    \/ h \in PlatformHosts
    \/ Len(h) > 1 /\ Head(h) # "" /\ Tail(h) = BaseDomain
    \/ Len(h) > 1 /\ Head(h) \notin {"", "www"} /\ ~HasBaseDomainSuffix(h)

ASSUME HostsAssumption == \A t \in Tabs : Resolved(t.host)

----------------------------------------------------------------------------
(* Routes: what stands before the handler of a path.  gate is "any" host,  *)
(* "marketing" hosts only, "tenant" (the plant is active), or an entry     *)
(* page, "review", that tells of a plant under review; "/" is one of those *)
(* and the landing page of the platform.                                   *)

Get(path, gate, login) == [method |-> "GET", path |-> path, gate |-> gate, login |-> login, csrf |-> "unchecked"]
Post(path, gate, login) == [method |-> "POST", path |-> path, gate |-> gate, login |-> login, csrf |-> "checked"]

\* Sent by the page's script without a token.
Beacon(path, gate) ==
    [method |-> "POST", path |-> path, gate |-> gate, login |-> "none", csrf |-> "unchecked"]

PlatformRoutes ==
    {Get("/admin/login", "marketing", "none"), Post("/admin/login", "marketing", "none"),
     Get("/", "root", "none"), Get("/pricing", "any", "none"), Get("/get-started", "any", "none"),
     Get("/login", "marketing", "none"), Get("/help/{category}/{article}", "marketing", "none"),
     Beacon("/help/feedback", "marketing"),
     Post("/get-started", "any", "none"), Post("/get-started/buyer", "any", "none"),
     Get("/terminal", "review", "none"), Get("/owner/login", "review", "none")}

AdminRoutes ==
    {Get(p, "marketing", "admin") : p \in {"/admin", "/admin/plants/{id}"}}
    \cup {Post(p, "marketing", "admin") : p \in {
        "/admin/logout", "/admin/plants", "/admin/plants/{id}/messaging",
        "/admin/plants/{id}/status", "/admin/plants/{id}/subaccount"}}

CustomerRoutes ==
    {Get(p, "tenant", "none") : p \in {"/tickets/{reference}/callback", "/receipts", "/reviews/{token}"}}
    \cup {Post(p, "tenant", "none") : p \in {
        "/tickets", "/receipts/lookup", "/receipts/verify", "/reviews/{token}"}}
    \cup {Post("/tickets/{reference}/confirm", "tenant", "receipts")}

TerminalRoutes ==
    {Post("/terminal/pin", "tenant", "none")}
    \cup {Post(p, "tenant", "staff") : p \in {
        "/terminal/redeem", "/terminal/fill", "/terminal/receipt/close",
        "/terminal/receipt/bulk-close", "/terminal/cash-sale", "/terminal/price",
        "/terminal/pumps", "/terminal/staff/status", "/terminal/shift/end", "/terminal/logout"}}

OwnerRoutes ==
    {Post("/owner/login", "tenant", "none"),
     Get("/owner/forgot-password", "tenant", "none"), Post("/owner/forgot-password", "tenant", "none"),
     Get("/owner/reset-password", "tenant", "none"), Post("/owner/reset-password", "tenant", "none")}
    \cup {Get(p, "tenant", "owner") : p \in {"/owner", "/owner/password"}}
    \cup {Post(p, "tenant", "owner") : p \in {
        "/owner/logout", "/tickets/{reference}/void", "/owner/prices", "/owner/staff",
        "/owner/staff/{id}/status", "/owner/staff/{id}/permissions", "/owner/hours",
        "/owner/pumps", "/owner/settings", "/owner/password"}}

Routes == PlatformRoutes \cup AdminRoutes \cup CustomerRoutes \cup TerminalRoutes \cup OwnerRoutes

\* The values a handler takes from the lists, boxes and hidden fields of its form.
Taken(path, name) ==
    CASE name \in {"accept_terms", "accept_contact"} -> {"yes"}
      [] name \in {"state", "buyer_state"} -> {"a state"}
      [] name = "channel" -> {"transfer", "terminal", "ussd"}
      [] name = "rating" -> {"1", "2", "3", "4", "5"}
      [] name = "role" -> {"manager", "cashier", "operator"}
      [] name = "helpful" -> {"yes", "no"}
      [] name = "status" /\ path = "/admin/plants/{id}/status" -> PlantRows
      [] name = "status" /\ path # "/admin/plants/{id}/status" ->
            {"working", "not_working", "maintenance"}
      [] name = "active" -> {"true", "false"}
      [] OTHER -> {"true"}

----------------------------------------------------------------------------
(* The pages of an area, and what they offer. *)

Visited(a) ==
    CASE a = "platform" -> {"/", "/pricing", "/get-started", "/login", "/help/{category}/{article}"}
      [] a = "admin" -> {"/admin/login", "/admin", "/admin/plants/{id}"}
      [] a = "customer" -> {"/", "/receipts", "/reviews/{token}", "/tickets/{reference}/callback"}
      [] a = "staff" -> {"/terminal"}
      [] a = "owner" -> {"/owner/login", "/owner/forgot-password", "/owner/reset-password",
                         "/owner", "/owner/password"}

\* A row of every kind: the page offers every form that it may offer.
Rows == TicketRows \cup PlantRows \cup MemberRows \cup PumpChoices
        \cup {"asked", "ask", "link", "no subaccount"}

\* What page p offers, drawn for a browser that is signed in or not.
Drawn(p, signedIn) ==
    CASE p = "/" -> {BuyForm}
      [] p = "/receipts" -> IF signedIn THEN ConfirmForm(Rows) ELSE {LookupForm}
      [] p = "/reviews/{token}" -> ReviewForm(Rows)
      [] p = "/terminal" -> IF signedIn THEN TerminalForms ELSE {PINForm}
      [] p = "/owner/login" -> {OwnerLoginForm}
      [] p = "/owner/forgot-password" -> ForgotForm(Rows)
      [] p = "/owner/reset-password" -> ResetForm(Rows)
      [] p = "/owner" -> Dashboard(Rows)
      [] p = "/owner/password" -> PasswordForm(Rows)
      [] p = "/admin/login" -> {AdminLoginForm}
      [] p = "/admin" -> AdminConsole(Rows)
      [] p = "/admin/plants/{id}" -> AdminPlantDetail(Rows)
      [] p = "/get-started" -> OwnerSignupForm(Rows) \cup BuyerSignupForm(Rows)
      [] p = "/help/{category}/{article}" -> {FeedbackForm}
      [] OTHER -> {}

----------------------------------------------------------------------------
(* The tab asks and sends. *)

Unposted == Form("", "none")
NoCookies == [public |-> 0, session |-> 0]

\* What can be wrong with one request: it names no row, or a query of it fails.
Faults == {"row", "database"}

Ask(p) ==
    /\ doing \in {"blank", "shown"}
    /\ p \in Visited(area)
    /\ doing' = "get"
    /\ page' = p
    /\ forms' = {}
    /\ posted' = Unposted
    /\ cookies' = jar
    /\ embedded' = NoCookies
    /\ answer' = "none"
    /\ seen' = {status}
    /\ causes' = IF jar.session \in alive THEN {} ELSE {"session"}
    /\ UNCHANGED <<host, area, status, alive, logins, minted, jar>>

Submit(f) ==
    /\ doing = "shown"
    /\ f \in forms
    /\ doing' = "post"
    /\ posted' = f
    /\ cookies' = jar
    /\ answer' = "none"
    /\ seen' = {status}
    /\ causes' = causes \ Faults
    /\ UNCHANGED <<host, area, status, alive, logins, minted, jar, page, forms, embedded>>

----------------------------------------------------------------------------
(* The server answers. *)

Path == IF posted = Unposted THEN page ELSE posted.to
Method == IF posted = Unposted THEN "GET" ELSE "POST"

RoutesHere == {r \in Routes : r.method = Method /\ r.path = Path}

\* Mutant: a plant is served whatever its status.
AnyTenant == IsTenantHost(host) /\ ExtractSubdomain(host) = Slug

\* SELECT ... FROM plants WHERE slug = $1 AND status = 'active', when it is answered.
TenantFound == IsTenantHost(host) /\ ExtractSubdomain(host) = Slug /\ status = "active"

\* The entry pages look at the status before the middleware does.
LooksFirst(r) == r.gate = "review" \/ (r.gate = "root" /\ ~IsMarketingHost(host))

Reaches(r) ==
    \/ r.gate = "any"
    \/ r.gate \in {"marketing", "root"} /\ IsMarketingHost(host)
    \/ r.gate \in {"tenant", "review", "root"} /\ TenantFound

\* The tab leaves the page for the answer; the terminal's script stays where it is.
Leaves(how) ==
    /\ answer' = how
    /\ posted' = Unposted /\ cookies' = NoCookies
    /\ IF area = "staff" /\ Method = "POST"
       THEN doing' = "shown" /\ UNCHANGED <<forms, embedded>>
       ELSE doing' = "blank" /\ forms' = {} /\ embedded' = NoCookies

Shows(fs, tokens) ==
    /\ answer' = "page"
    /\ posted' = Unposted /\ cookies' = NoCookies
    /\ doing' = "shown"
    /\ forms' = fs
    /\ embedded' = tokens

\* The entry page's own lookup, when it is answered.
ServeTenantOrReview(r) ==
    /\ doing = "get" /\ LooksFirst(r)
    /\ IF IsTenantHost(host) /\ ExtractSubdomain(host) = Slug /\ status = "active"
       THEN doing' = "passed" /\ UNCHANGED <<answer, forms, posted, cookies, embedded>>
       ELSE Leaves(IF IsTenantHost(host) /\ ExtractSubdomain(host) = Slug /\ status = "provisioning"
                   THEN "review" ELSE "notfound")
    /\ UNCHANGED <<host, area, status, alive, logins, minted, jar, page, seen, causes>>

\* The request stands before the middlewares of r.
Arrived(r) ==
    \/ doing = "passed"
    \/ doing \in {"get", "post"} /\ ~LooksFirst(r)

\* Any error of either lookup of the plant is answered as if there were none.
LookupFails(r) ==
    /\ doing \in {"get", "post", "passed"}
    /\ r.gate \in {"tenant", "review", "root"} /\ IsTenantHost(host)
    /\ Leaves("notfound")
    /\ causes' = causes \cup {"database"}
    /\ UNCHANGED <<host, area, status, alive, logins, minted, jar, page, seen>>

\* No plant, no such route, or not on this host: the branded 404.
NotFound ==
    /\ doing \in {"get", "post", "passed"}
    /\ \A r \in RoutesHere : Arrived(r) /\ ~Reaches(r)
    /\ Leaves("notfound")
    /\ UNCHANGED <<host, area, status, alive, logins, minted, jar, page, seen, causes>>

\* RequireOwnerSession and its like: no cookie, or one that Load does not find.  A Redis that
\* does not answer counts as a session that is gone, and the cookie is dropped.
NotSignedIn(r) ==
    /\ Arrived(r) /\ Reaches(r) /\ r.login # "none"
    /\ jar' = IF cookies.session = 0 THEN jar ELSE [jar EXCEPT !.session = 0]
    /\ causes' = IF cookies.session \in alive THEN causes \cup {"session"} ELSE causes
    /\ Leaves("login")
    /\ UNCHANGED <<host, area, status, alive, logins, minted, page, seen>>

SignedIn == cookies.session # 0 /\ cookies.session \in alive

\* The public token of the answer: the browser's own, or a new one.
EnsurePublicCSRFCookie == IF cookies.public # 0 THEN cookies.public ELSE minted + 1

\* For what the handler of a page answers 404 in its place, and for what that it failed; receipts
\* are asked for with a session only.  The other handlers ask no row, or drop their errors.
NotFoundFor(p) ==
    CASE p = "/admin/plants/{id}" -> Faults
      [] p \in {"/reviews/{token}", "/help/{category}/{article}"} -> {"row"}
      [] OTHER -> {}

FailsFor(p, resumed) ==
    CASE p = "/tickets/{reference}/callback" -> Faults
      [] p \in {"/reviews/{token}", "/owner"} \/ (p = "/receipts" /\ resumed) -> {"database"}
      [] OTHER -> {}

\* The page is shown, or what its handler answers instead.
ShowsUnless(fs, tokens, resumed) ==
    \/ Shows(fs, tokens) /\ UNCHANGED causes
    \/ \E c \in NotFoundFor(page) : Leaves("notfound") /\ causes' = causes \cup {c}
    \/ \E c \in FailsFor(page, resumed) : Leaves("error") /\ causes' = causes \cup {c}

\* GET behind a session: the cookie is written again.
ShowSignedIn(r) ==
    /\ Method = "GET" /\ Arrived(r) /\ Reaches(r) /\ r.login # "none" /\ SignedIn
    /\ jar' = [jar EXCEPT !.session = cookies.session]
    /\ ShowsUnless(Drawn(page, TRUE), [public |-> 0, session |-> cookies.session], TRUE)
    /\ UNCHANGED <<host, area, status, alive, logins, minted, page, seen>>

\* The public pages with a token; the others of the platform have no form that needs one.
Tokened(p) ==
    \/ p \in {"/get-started", "/receipts", "/reviews/{token}", "/terminal", "/owner/login",
              "/owner/forgot-password", "/owner/reset-password", "/admin/login"}
    \/ p = "/" /\ ~IsMarketingHost(host)

ShowPlain(r) ==
    /\ Method = "GET" /\ Arrived(r) /\ Reaches(r) /\ r.login = "none" /\ ~Tokened(page)
    /\ ShowsUnless(IF page = "/" THEN {} ELSE Drawn(page, FALSE), NoCookies, FALSE)
    /\ UNCHANGED <<host, area, status, alive, logins, minted, jar, page, seen>>

\* GET of a public page with a token.  Receipts and the terminal look for a session themselves
\* and write its cookie again; the terminal drops a cookie whose session or shift is gone.
ShowPublic(r) ==
    /\ Method = "GET" /\ Arrived(r) /\ Reaches(r) /\ r.login = "none" /\ Tokened(page)
    /\ EnsurePublicCSRFCookie <= MaxMinted
    /\ minted' = IF EnsurePublicCSRFCookie > minted THEN minted + 1 ELSE minted
    /\ \E current \in {SignedIn, FALSE} :
          LET resumed == current /\ page \in {"/receipts", "/terminal"}
          IN /\ jar' = [public |-> IF EnsurePublicCSRFCookie > minted
                                   THEN EnsurePublicCSRFCookie ELSE jar.public,
                        session |-> IF resumed THEN cookies.session
                                    ELSE IF page = "/terminal" /\ cookies.session # 0
                                         THEN 0 ELSE jar.session]
             /\ ShowsUnless(Drawn(page, resumed),
                            [public |-> EnsurePublicCSRFCookie,
                             session |-> IF resumed THEN cookies.session ELSE 0],
                            resumed)
    /\ UNCHANGED <<host, area, status, alive, logins, page, seen>>

\* The token of the form against the session's or, without a session, the cookie's.
Verified(r) ==
    \/ r.csrf = "unchecked"
    \/ r.login # "none" /\ posted.token = r.login /\ embedded.session = cookies.session
    \/ r.login = "none" /\ posted.token = "public" /\ cookies.public # 0
       /\ embedded.public = cookies.public

\* POST gets to the CSRF check; a session has had its cookie written again.
Checked(r) ==
    /\ Method = "POST" /\ Arrived(r) /\ Reaches(r)
    /\ r.login # "none" => SignedIn

Rewritten(r) == IF r.login = "none" THEN jar ELSE [jar EXCEPT !.session = cookies.session]

Forbidden(r) ==
    /\ Checked(r) /\ ~Verified(r)
    /\ jar' = Rewritten(r)
    /\ Leaves(IF r.login = "none" THEN "forbidden" ELSE "forbidden in session")
    /\ UNCHANGED <<host, area, status, alive, logins, minted, page, seen, causes>>

Passes(r) == Checked(r) /\ Verified(r)

\* The handler knows the values that the form offered.
Known == \A v \in posted.sends : v[2] \in Taken(posted.to, v[1])

LoginPaths == {"/owner/login", "/admin/login", "/terminal/pin", "/receipts/verify"}
LogoutPaths == {"/owner/logout", "/admin/logout", "/terminal/logout", "/terminal/shift/end"}

\* These draw their page, or the next one, instead of sending the browser on.
RedrawnForms(path) ==
    CASE path = "/receipts/lookup" -> {{LookupForm}, VerifyForms}
      [] path = "/receipts/verify" -> {{LookupForm}, VerifyForms}
      [] path = "/owner/login" -> {{OwnerLoginForm}}
      [] path = "/admin/login" -> {{AdminLoginForm}}
      [] path \in {"/get-started", "/get-started/buyer"} -> {Drawn("/get-started", FALSE)}
      [] OTHER -> {}

Redrawn(r) ==
    /\ Passes(r)
    /\ \E fs \in RedrawnForms(posted.to) :
          Shows(fs, [public |-> cookies.public, session |-> 0])
    /\ UNCHANGED <<host, area, status, alive, logins, minted, jar, page, seen, causes>>

LoggedIn(r) ==
    /\ Passes(r) /\ posted.to \in LoginPaths
    /\ logins < MaxLogins
    /\ logins' = logins + 1
    /\ alive' = alive \cup {logins + 1}
    /\ jar' = [jar EXCEPT !.session = logins + 1]
    /\ IF posted.to = "/terminal/pin"
       THEN /\ Shows(TerminalForms, [embedded EXCEPT !.session = logins + 1])
            /\ causes' = causes \ {"session"}
       ELSE Leaves("done") /\ UNCHANGED causes
    /\ UNCHANGED <<host, area, status, minted, page, seen>>

LoggedOut(r) ==
    /\ Passes(r) /\ posted.to \in LogoutPaths
    /\ alive' = alive \ {cookies.session}
    /\ jar' = [jar EXCEPT !.session = 0]
    /\ IF area = "staff"
       THEN Shows({PINForm}, [embedded EXCEPT !.session = 0])
       ELSE Leaves("done")
    /\ causes' = causes \cup {"session"}
    /\ UNCHANGED <<host, area, status, logins, minted, page, seen>>

\* Everything else is done, or refused for what was typed or for a query that failed, and leads to
\* another page, which tells.
Done(r) ==
    /\ Passes(r) /\ posted.to \notin (LoginPaths \ {"/terminal/pin"}) \cup LogoutPaths
    /\ jar' = Rewritten(r)
    /\ Leaves(IF Known THEN "done" ELSE "badvalue")
    /\ UNCHANGED <<host, area, status, alive, logins, minted, page, seen, causes>>

Serve(r) ==
    \/ ServeTenantOrReview(r)
    \/ LookupFails(r)
    \/ NotSignedIn(r)
    \/ ShowSignedIn(r)
    \/ ShowPlain(r)
    \/ ShowPublic(r)
    \/ Forbidden(r)
    \/ Redrawn(r)
    \/ LoggedIn(r)
    \/ LoggedOut(r)
    \/ Done(r)

----------------------------------------------------------------------------
(* Meanwhile: another tab, another device, an administrator, the clock.    *)

Elsewhere(cause) ==
    /\ causes' = causes \cup {cause}
    /\ UNCHANGED <<host, area, status, doing, page, forms, posted, cookies, embedded, answer, seen>>

\* Bound: at a plant's host, the only one whose answers depend on it.
PlantBecomes(s) ==
    /\ IsTenantHost(host) /\ s # status
    /\ status' = s
    /\ seen' = IF doing \in {"get", "post", "passed"} THEN seen \cup {s} ELSE seen
    /\ UNCHANGED <<host, area, alive, logins, minted, jar, doing, page, forms, posted, cookies,
                   embedded, answer, causes>>

SignInElsewhere ==
    /\ logins < MaxLogins
    /\ logins' = logins + 1
    /\ alive' = alive \cup {logins + 1}
    /\ jar' = [jar EXCEPT !.session = logins + 1]
    /\ Elsewhere("session")
    /\ UNCHANGED minted

SignOutElsewhere ==
    /\ jar.session # 0
    /\ alive' = alive \ {jar.session}
    /\ jar' = [jar EXCEPT !.session = 0]
    /\ Elsewhere("session")
    /\ UNCHANGED <<logins, minted>>

\* The key of a session expires in Redis, the cookie before it, with it or after it.
SessionLapses(t) ==
    /\ t \in alive
    /\ alive' = alive \ {t}
    /\ jar' \in {jar, [jar EXCEPT !.session = IF @ = t THEN 0 ELSE @]}
    /\ Elsewhere("session")
    /\ UNCHANGED <<logins, minted>>

\* A page of another tab, asked for when there was no cookie, brings one of its own.
MintElsewhere ==
    /\ minted < MaxMinted
    /\ minted' = minted + 1
    /\ jar' = [jar EXCEPT !.public = minted + 1]
    /\ Elsewhere("cookie")
    /\ UNCHANGED <<alive, logins>>

\* After publicCSRFCookieTTL.
PublicLapses ==
    /\ jar.public # 0
    /\ jar' = [jar EXCEPT !.public = 0]
    /\ Elsewhere("cookie")
    /\ UNCHANGED <<alive, logins, minted>>

----------------------------------------------------------------------------

SiteInit ==
    /\ \E t \in Tabs : host = t.host /\ area = t.area
    /\ status = "provisioning"
    /\ alive = {} /\ logins = 0 /\ minted = 0
    /\ jar = NoCookies
    /\ doing = "blank"
    /\ page = "" /\ forms = {} /\ posted = Unposted
    /\ cookies = jar /\ embedded = jar
    /\ answer = "none"
    /\ seen = {} /\ causes = {}

SiteNext ==
    \/ \E p \in Visited(area) : Ask(p)
    \/ \E f \in forms : Submit(f)
    \/ \E r \in RoutesHere : Serve(r)
    \/ NotFound
    \/ \E s \in SiteStatuses : PlantBecomes(s)
    \/ SignInElsewhere
    \/ SignOutElsewhere
    \/ \E t \in alive : SessionLapses(t)
    \/ MintElsewhere
    \/ PublicLapses

SiteSpec == SiteInit /\ [][SiteNext]_siteVars

----------------------------------------------------------------------------
(* Properties. *)

Tokens == [public : 0..MaxMinted, session : 0..MaxLogins]

\* Every variable has its type.
SiteTypeOK ==
    /\ [host |-> host, area |-> area] \in Tabs /\ status \in PlantRows
    /\ alive \subseteq 1..logins /\ logins \in 0..MaxLogins /\ minted \in 0..MaxMinted
    /\ jar \in Tokens /\ cookies \in Tokens /\ embedded \in Tokens
    /\ doing \in {"blank", "get", "passed", "shown", "post"}
    /\ answer \in {"none", "page", "done", "review", "notfound", "error", "login", "forbidden", "forbidden in session", "badvalue"}
    /\ seen \subseteq PlantRows /\ causes \subseteq {"session", "cookie"} \cup Faults

\* No form of a page is refused for the page's own sake: its path exists, its token is of the
\* kind that path checks, and its choices are known there.  A login page or a 403 in answer to
\* one always has a cause since the page was asked for: the session was not there, ended or
\* changed, or the public cookie was replaced or expired.
RefusedForACause ==
    /\ answer # "badvalue"
    /\ answer \in {"login", "forbidden in session"} => "session" \in causes
    /\ answer = "forbidden" => "cookie" \in causes

\* The pages that name a row of the platform's.
RowPages == {"/admin/plants/{id}", "/help/{category}/{article}"}

\* A plant's pages and handlers answer on the plant's own host only, and as a status says that
\* the plant had while the request was under way: served if active, "under review" if
\* provisioning.  They are not found if it was not active all along, their path names no row, or
\* a query failed, which the middleware does not tell from a plant that is not there; the
\* platform's pages, at its hosts, only if they name a row and there is none or its query failed.
\* A page says that it failed for one of these two reasons alone.
AnswerFitsStatus ==
    /\ answer \in {"page", "done", "error", "login", "forbidden", "forbidden in session", "badvalue"}
          => \/ host \in PlantHosts /\ "active" \in seen
             \/ host \in PlatformHosts /\ (area \in {"platform", "admin"} \/ page = "/")
             \/ area = "platform" /\ page \in {"/pricing", "/get-started"}
    /\ answer = "review" => host \in PlantHosts /\ "provisioning" \in seen
    /\ answer = "notfound" =>
          /\ host \in PlatformHosts /\ area \in {"platform", "admin"} =>
                page \in RowPages /\ causes \cap Faults # {}
          /\ host \in PlantHosts /\ area \in {"customer", "staff", "owner"} =>
                seen # {"active"} \/ causes \cap Faults # {}
    /\ answer = "error" => causes \cap Faults # {}

\* Whatever a tab is told has a cause outside of it: in its cookies, its session, the plant's
\* status, the row its path names or a query that failed.
AnsweredForACause == RefusedForACause /\ AnswerFitsStatus
=============================================================================
