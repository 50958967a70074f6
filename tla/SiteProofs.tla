----------------------------- MODULE SiteProofs -----------------------------
(***************************************************************************)
(* Proofs about Site, for every set of tabs: whatever a tab is told has a  *)
(* cause outside of it.  First the tables: which paths the pages' forms    *)
(* post to, with which token, and what the routes of these paths ask for.  *)
(* Then the invariant: the forms that a tab offers fit the routes and, as  *)
(* long as nothing happened elsewhere, their tokens are those of the       *)
(* browser's cookies.                                                      *)
(***************************************************************************)
EXTENDS Site, SequenceTheorems, TLAPS

----------------------------------------------------------------------------
(* The paths that forms post to, by whose they are and what they check.    *)

AdminPosts == {"/admin/logout", "/admin/plants", "/admin/plants/{id}/messaging",
               "/admin/plants/{id}/status", "/admin/plants/{id}/subaccount"}
SignupPosts == {"/get-started", "/get-started/buyer"}
StaffPosts == {"/terminal/redeem", "/terminal/fill", "/terminal/receipt/close",
               "/terminal/receipt/bulk-close", "/terminal/cash-sale", "/terminal/price",
               "/terminal/pumps", "/terminal/staff/status", "/terminal/shift/end",
               "/terminal/logout"}
OwnerPosts == {"/owner/logout", "/tickets/{reference}/void", "/owner/prices", "/owner/staff",
               "/owner/staff/{id}/status", "/owner/staff/{id}/permissions", "/owner/hours",
               "/owner/pumps", "/owner/settings", "/owner/password"}
ReceiptPosts == {"/tickets/{reference}/confirm"}
OpenPosts == {"/tickets", "/receipts/lookup", "/receipts/verify", "/reviews/{token}",
              "/terminal/pin", "/owner/login", "/owner/forgot-password",
              "/owner/reset-password"}

PlatformPosts == AdminPosts \cup SignupPosts \cup {"/admin/login", "/help/feedback"}
TenantPosts == StaffPosts \cup OwnerPosts \cup ReceiptPosts \cup OpenPosts

\* The session that a path asks for.
LoginOf(path) ==
    IF path \in AdminPosts THEN "admin"
    ELSE IF path \in StaffPosts THEN "staff"
    ELSE IF path \in OwnerPosts THEN "owner"
    ELSE IF path \in ReceiptPosts THEN "receipts"
    ELSE "none"

\* The token that a form for a path has to carry.
TokenOf(path) ==
    IF path = "/help/feedback" THEN "none"
    ELSE IF LoginOf(path) = "none" THEN "public" ELSE LoginOf(path)

PostGate(path) ==
    IF path \in TenantPosts THEN "tenant" ELSE IF path \in SignupPosts THEN "any" ELSE "marketing"

\* The sets of paths have none in common.
LEMMA LoginOfPath ==
    /\ \A p \in AdminPosts : LoginOf(p) = "admin"
    /\ \A p \in StaffPosts : LoginOf(p) = "staff"
    /\ \A p \in OwnerPosts : LoginOf(p) = "owner"
    /\ \A p \in ReceiptPosts : LoginOf(p) = "receipts"
    /\ \A p \in OpenPosts : LoginOf(p) = "none"
    /\ \A p \in SignupPosts : LoginOf(p) = "none"
    /\ LoginOf("/admin/login") = "none" /\ LoginOf("/help/feedback") = "none"
<1>1. \A p \in AdminPosts : LoginOf(p) = "admin"
  BY DEF LoginOf
<1>2. \A p \in StaffPosts : LoginOf(p) = "staff"
  BY DEF LoginOf, StaffPosts, AdminPosts
<1>3. \A p \in OwnerPosts : LoginOf(p) = "owner"
  BY DEF LoginOf, OwnerPosts, StaffPosts, AdminPosts
<1>4. \A p \in ReceiptPosts : LoginOf(p) = "receipts"
  BY DEF LoginOf, ReceiptPosts, OwnerPosts, StaffPosts, AdminPosts
<1>5. \A p \in OpenPosts : LoginOf(p) = "none"
  BY DEF LoginOf, OpenPosts, ReceiptPosts, OwnerPosts, StaffPosts, AdminPosts
<1>6. \A p \in SignupPosts : LoginOf(p) = "none"
  BY DEF LoginOf, SignupPosts, ReceiptPosts, OwnerPosts, StaffPosts, AdminPosts
<1>7. LoginOf("/admin/login") = "none" /\ LoginOf("/help/feedback") = "none"
  BY DEF LoginOf, ReceiptPosts, OwnerPosts, StaffPosts, AdminPosts
<1> QED BY <1>1, <1>2, <1>3, <1>4, <1>5, <1>6, <1>7

LEMMA GateOfPath ==
    /\ \A p \in TenantPosts : PostGate(p) = "tenant"
    /\ \A p \in AdminPosts : PostGate(p) = "marketing"
    /\ \A p \in SignupPosts : PostGate(p) = "any"
    /\ PostGate("/admin/login") = "marketing" /\ PostGate("/help/feedback") = "marketing"
<1>1. \A p \in TenantPosts : PostGate(p) = "tenant"
  BY DEF PostGate
<1>2. \A p \in AdminPosts : p \notin TenantPosts /\ p \notin SignupPosts
  <2>1. \A p \in AdminPosts : p \notin StaffPosts
    BY DEF AdminPosts, StaffPosts
  <2>2. \A p \in AdminPosts : p \notin OwnerPosts
    BY DEF AdminPosts, OwnerPosts
  <2>3. \A p \in AdminPosts : p \notin ReceiptPosts /\ p \notin OpenPosts /\ p \notin SignupPosts
    BY DEF AdminPosts, ReceiptPosts, OpenPosts, SignupPosts
  <2> QED BY <2>1, <2>2, <2>3 DEF TenantPosts
<1>3. \A p \in SignupPosts \cup {"/admin/login", "/help/feedback"} : p \notin TenantPosts
  BY DEF SignupPosts, TenantPosts, StaffPosts, OwnerPosts, ReceiptPosts, OpenPosts
<1>4. "/admin/login" \notin SignupPosts /\ "/help/feedback" \notin SignupPosts
  BY DEF SignupPosts
<1> QED BY <1>1, <1>2, <1>3, <1>4 DEF PostGate

\* A form goes to a path that exists, with that path's token and with values known there.
Fits(f) ==
    /\ f.to \in PlatformPosts \cup TenantPosts
    /\ f.token = TokenOf(f.to)
    /\ \A v \in f.sends : v[2] \in Taken(f.to, v[1])

----------------------------------------------------------------------------
(* The routes. *)

LEMMA PostIs ==
    ASSUME NEW p, NEW g, NEW l
    PROVE  /\ Post(p, g, l).method = "POST" /\ Post(p, g, l).path = p /\ Post(p, g, l).gate = g
           /\ Post(p, g, l).login = l /\ Post(p, g, l).csrf = "checked"
BY DEF Post

LEMMA GetIs ==
    ASSUME NEW p, NEW g, NEW l
    PROVE  /\ Get(p, g, l).method = "GET" /\ Get(p, g, l).path = p /\ Get(p, g, l).gate = g
           /\ Get(p, g, l).login = l
BY DEF Get

LEMMA BeaconIs ==
    ASSUME NEW p, NEW g
    PROVE  /\ Beacon(p, g).method = "POST" /\ Beacon(p, g).path = p /\ Beacon(p, g).gate = g
           /\ Beacon(p, g).login = "none" /\ Beacon(p, g).csrf = "unchecked"
BY DEF Beacon

\* What a route asks of a POST, from its path.
FitsPath(r) ==
    /\ r.path \in PlatformPosts \cup TenantPosts
    /\ r.gate = PostGate(r.path)
    /\ r.login = LoginOf(r.path)
    /\ r.csrf = IF r.path = "/help/feedback" THEN "unchecked" ELSE "checked"

LEMMA PostFits ==
    ASSUME NEW p \in PlatformPosts \cup TenantPosts, p # "/help/feedback"
    PROVE  FitsPath(Post(p, PostGate(p), LoginOf(p)))
BY PostIs DEF FitsPath

LEMMA PostRoutes ==
    ASSUME NEW r \in Routes, r.method = "POST"
    PROVE  FitsPath(r)
<1>0. "/help/feedback" \notin TenantPosts /\ "/help/feedback" \notin AdminPosts /\ "/help/feedback" \notin SignupPosts
  BY GateOfPath, LoginOfPath
<1>1. CASE r \in PlatformRoutes
  <2>1. \/ r = Post("/admin/login", "marketing", "none")
        \/ r = Beacon("/help/feedback", "marketing")
        \/ r = Post("/get-started", "any", "none")
        \/ r = Post("/get-started/buyer", "any", "none")
        \/ \E p, g : r = Get(p, g, "none")
    BY <1>1 DEF PlatformRoutes
  <2>2. "/get-started" \in SignupPosts /\ "/get-started/buyer" \in SignupPosts
    BY DEF SignupPosts
  <2> QED BY <2>1, <2>2, PostIs, GetIs, BeaconIs, GateOfPath, LoginOfPath, PostFits, <1>0 DEF FitsPath, PlatformPosts
<1>2. CASE r \in AdminRoutes
  <2>1. \/ \E p \in AdminPosts : r = Post(p, "marketing", "admin")
        \/ \E p : r = Get(p, "marketing", "admin")
    BY <1>2 DEF AdminRoutes, AdminPosts
  <2> QED BY <2>1, GetIs, GateOfPath, LoginOfPath, PostFits, <1>0 DEF PlatformPosts
<1>3. CASE r \in CustomerRoutes
  <2>1. \/ \E p \in ReceiptPosts : r = Post(p, "tenant", "receipts")
        \/ \E p \in OpenPosts : r = Post(p, "tenant", "none")
        \/ \E p : r = Get(p, "tenant", "none")
    BY <1>3 DEF CustomerRoutes, ReceiptPosts, OpenPosts
  <2> QED BY <2>1, GetIs, GateOfPath, LoginOfPath, PostFits, <1>0 DEF TenantPosts
<1>4. CASE r \in TerminalRoutes
  <2>1. \/ \E p \in StaffPosts : r = Post(p, "tenant", "staff")
        \/ \E p \in OpenPosts : r = Post(p, "tenant", "none")
    BY <1>4, GetIs DEF TerminalRoutes, StaffPosts, OpenPosts
  <2> QED BY <2>1, GateOfPath, LoginOfPath, PostFits, <1>0 DEF TenantPosts
<1>5. CASE r \in OwnerRoutes
  <2>1. \/ \E p \in OwnerPosts : r = Post(p, "tenant", "owner")
        \/ \E p \in OpenPosts : r = Post(p, "tenant", "none")
        \/ \E p, l : r = Get(p, "tenant", l)
    BY <1>5 DEF OwnerRoutes, OwnerPosts, OpenPosts
  <2> QED BY <2>1, GetIs, GateOfPath, LoginOfPath, PostFits, <1>0 DEF TenantPosts
<1> QED BY <1>1, <1>2, <1>3, <1>4, <1>5 DEF Routes

\* Every such path has a route.
LEMMA PostRouteExists ==
    ASSUME NEW p \in PlatformPosts \cup TenantPosts
    PROVE  \E r \in Routes : r.method = "POST" /\ r.path = p
<1>1. CASE p \in AdminPosts
  <2>1. Post(p, "marketing", "admin") \in AdminRoutes
    BY <1>1 DEF AdminPosts, AdminRoutes
  <2> QED BY <2>1, PostIs DEF Routes
<1>2. CASE p \in SignupPosts
  <2>1. Post(p, "any", "none") \in PlatformRoutes
    BY <1>2 DEF SignupPosts, PlatformRoutes
  <2> QED BY <2>1, PostIs DEF Routes
<1>3. CASE p = "/admin/login"
  <2>1. Post(p, "marketing", "none") \in PlatformRoutes
    BY <1>3 DEF PlatformRoutes
  <2> QED BY <2>1, PostIs DEF Routes
<1>4. CASE p = "/help/feedback"
  <2>1. Beacon(p, "marketing") \in PlatformRoutes
    BY <1>4 DEF PlatformRoutes
  <2> QED BY <2>1, BeaconIs DEF Routes
<1>5. CASE p \in StaffPosts
  <2>1. Post(p, "tenant", "staff") \in TerminalRoutes
    BY <1>5 DEF StaffPosts, TerminalRoutes
  <2> QED BY <2>1, PostIs DEF Routes
<1>6. CASE p \in OwnerPosts
  <2>1. Post(p, "tenant", "owner") \in OwnerRoutes
    BY <1>6 DEF OwnerPosts, OwnerRoutes
  <2> QED BY <2>1, PostIs DEF Routes
<1>7. CASE p \in ReceiptPosts
  <2>1. Post(p, "tenant", "receipts") \in CustomerRoutes
    BY <1>7 DEF ReceiptPosts, CustomerRoutes
  <2> QED BY <2>1, PostIs DEF Routes
<1>8. CASE p \in OpenPosts
  <2>1. Post(p, "tenant", "none") \in CustomerRoutes \cup TerminalRoutes \cup OwnerRoutes
    BY <1>8 DEF OpenPosts, CustomerRoutes, TerminalRoutes, OwnerRoutes
  <2> QED BY <2>1, PostIs DEF Routes
<1> QED BY <1>1, <1>2, <1>3, <1>4, <1>5, <1>6, <1>7, <1>8 DEF PlatformPosts, TenantPosts

\* The pages, by what stands before them.
PlatformPages == {"/admin/login", "/login", "/help/{category}/{article}"}
AdminPages == {"/admin", "/admin/plants/{id}"}
OpenPages == {"/pricing", "/get-started"}
EntryPages == {"/terminal", "/owner/login"}
OwnerPages == {"/owner", "/owner/password"}
TenantPages == {"/tickets/{reference}/callback", "/receipts", "/reviews/{token}",
                "/owner/forgot-password", "/owner/reset-password"}

GetGate(path) ==
    IF path \in TenantPages \cup OwnerPages THEN "tenant"
    ELSE IF path \in EntryPages THEN "review"
    ELSE IF path = "/" THEN "root"
    ELSE IF path \in OpenPages THEN "any"
    ELSE "marketing"

GetLogin(path) ==
    IF path \in AdminPages THEN "admin" ELSE IF path \in OwnerPages THEN "owner" ELSE "none"

LEMMA GateOfPage ==
    /\ \A p \in TenantPages : GetGate(p) = "tenant" /\ GetLogin(p) = "none"
    /\ \A p \in OwnerPages : GetGate(p) = "tenant" /\ GetLogin(p) = "owner"
    /\ \A p \in EntryPages : GetGate(p) = "review" /\ GetLogin(p) = "none"
    /\ GetGate("/") = "root" /\ GetLogin("/") = "none"
    /\ \A p \in OpenPages : GetGate(p) = "any" /\ GetLogin(p) = "none"
    /\ \A p \in PlatformPages : GetGate(p) = "marketing" /\ GetLogin(p) = "none"
    /\ \A p \in AdminPages : GetGate(p) = "marketing" /\ GetLogin(p) = "admin"
<1>1. \A p \in TenantPages : GetGate(p) = "tenant" /\ GetLogin(p) = "none"
  BY DEF GetGate, GetLogin, TenantPages, AdminPages, OwnerPages
<1>2. \A p \in OwnerPages : GetGate(p) = "tenant" /\ GetLogin(p) = "owner"
  BY DEF GetGate, GetLogin, OwnerPages, AdminPages
<1>3. \A p \in EntryPages : GetGate(p) = "review" /\ GetLogin(p) = "none"
  BY DEF GetGate, GetLogin, TenantPages, AdminPages, OwnerPages, EntryPages
<1>4. GetGate("/") = "root" /\ GetLogin("/") = "none"
  BY DEF GetGate, GetLogin, TenantPages, AdminPages, OwnerPages, EntryPages
<1>5. \A p \in OpenPages : GetGate(p) = "any" /\ GetLogin(p) = "none"
  BY DEF GetGate, GetLogin, TenantPages, AdminPages, OwnerPages, EntryPages, OpenPages
<1>6. \A p \in PlatformPages : GetGate(p) = "marketing" /\ GetLogin(p) = "none"
  BY DEF GetGate, GetLogin, TenantPages, AdminPages, OwnerPages, EntryPages, OpenPages, PlatformPages
<1>7. \A p \in AdminPages : GetGate(p) = "marketing" /\ GetLogin(p) = "admin"
  BY DEF GetGate, GetLogin, TenantPages, AdminPages, OwnerPages, EntryPages, OpenPages
<1> QED BY <1>1, <1>2, <1>3, <1>4, <1>5, <1>6, <1>7

\* What a route asks of a GET, from its path.
FitsPage(r) == r.gate = GetGate(r.path) /\ r.login = GetLogin(r.path)

LEMMA GetFits == \A p : FitsPage(Get(p, GetGate(p), GetLogin(p)))
BY GetIs DEF FitsPage

LEMMA GetRoutes ==
    ASSUME NEW r \in Routes, r.method = "GET"
    PROVE  FitsPage(r)
<1>1. CASE r \in PlatformRoutes
  <2>1. \/ r = Get("/", "root", "none")
        \/ \E p \in PlatformPages : r = Get(p, "marketing", "none")
        \/ \E p \in OpenPages : r = Get(p, "any", "none")
        \/ \E p \in EntryPages : r = Get(p, "review", "none")
        \/ \E p, g : r = Post(p, g, "none")
        \/ \E p, g : r = Beacon(p, g)
    BY <1>1 DEF PlatformRoutes, PlatformPages, OpenPages, EntryPages
  <2> QED BY <2>1, PostIs, BeaconIs, GateOfPage, GetFits
<1>2. CASE r \in AdminRoutes
  <2>1. \/ \E p \in AdminPages : r = Get(p, "marketing", "admin")
        \/ \E p : r = Post(p, "marketing", "admin")
    BY <1>2 DEF AdminRoutes, AdminPages
  <2> QED BY <2>1, PostIs, GateOfPage, GetFits
<1>3. CASE r \in CustomerRoutes
  <2>1. \/ \E p \in TenantPages : r = Get(p, "tenant", "none")
        \/ \E p, l : r = Post(p, "tenant", l)
    BY <1>3 DEF CustomerRoutes, TenantPages
  <2> QED BY <2>1, PostIs, GateOfPage, GetFits
<1>4. CASE r \in TerminalRoutes
  <2>1. \E p, l : r = Post(p, "tenant", l)
    BY <1>4 DEF TerminalRoutes
  <2> QED BY <2>1, PostIs
<1>5. CASE r \in OwnerRoutes
  <2>1. \/ \E p \in OwnerPages : r = Get(p, "tenant", "owner")
        \/ \E p \in TenantPages : r = Get(p, "tenant", "none")
        \/ \E p, l : r = Post(p, "tenant", l)
    BY <1>5 DEF OwnerRoutes, OwnerPages, TenantPages
  <2> QED BY <2>1, PostIs, GateOfPage, GetFits
<1> QED BY <1>1, <1>2, <1>3, <1>4, <1>5 DEF Routes

\* The pages that are visited, and that each has a route.
LEMMA VisitedPages ==
    /\ Visited("platform") \subseteq PlatformPages \cup OpenPages \cup {"/"}
    /\ Visited("admin") \subseteq PlatformPages \cup AdminPages
    /\ Visited("customer") \subseteq TenantPages \cup {"/"}
    /\ Visited("staff") = {"/terminal"}
    /\ Visited("owner") \subseteq EntryPages \cup OwnerPages \cup TenantPages
<1>1. Visited("platform") \subseteq PlatformPages \cup OpenPages \cup {"/"}
  BY DEF Visited, PlatformPages, OpenPages
<1>2. Visited("admin") \subseteq PlatformPages \cup AdminPages
  BY DEF Visited, PlatformPages, AdminPages
<1>3. Visited("customer") \subseteq TenantPages \cup {"/"}
  BY DEF Visited, TenantPages
<1>4. Visited("staff") = {"/terminal"}
  BY DEF Visited
<1>5. Visited("owner") \subseteq EntryPages \cup OwnerPages \cup TenantPages
  BY DEF Visited, EntryPages, OwnerPages, TenantPages
<1> QED BY <1>1, <1>2, <1>3, <1>4, <1>5

PagePaths == PlatformPages \cup AdminPages \cup OpenPages \cup EntryPages \cup OwnerPages
             \cup TenantPages \cup {"/"}

LEMMA GetRouteExists ==
    ASSUME NEW p \in PagePaths
    PROVE  \E r \in Routes : r.method = "GET" /\ r.path = p
<1>1. CASE p = "/"
  <2>1. Get(p, "root", "none") \in PlatformRoutes
    BY <1>1 DEF PlatformRoutes
  <2> QED BY <2>1, GetIs DEF Routes
<1>2. CASE p \in PlatformPages
  <2>1. Get(p, "marketing", "none") \in PlatformRoutes
    BY <1>2 DEF PlatformPages, PlatformRoutes
  <2> QED BY <2>1, GetIs DEF Routes
<1>3. CASE p \in AdminPages
  <2>1. Get(p, "marketing", "admin") \in AdminRoutes
    BY <1>3 DEF AdminPages, AdminRoutes
  <2> QED BY <2>1, GetIs DEF Routes
<1>4. CASE p \in OpenPages
  <2>1. Get(p, "any", "none") \in PlatformRoutes
    BY <1>4 DEF OpenPages, PlatformRoutes
  <2> QED BY <2>1, GetIs DEF Routes
<1>5. CASE p \in EntryPages
  <2>1. Get(p, "review", "none") \in PlatformRoutes
    BY <1>5 DEF EntryPages, PlatformRoutes
  <2> QED BY <2>1, GetIs DEF Routes
<1>6. CASE p \in OwnerPages
  <2>1. Get(p, "tenant", "owner") \in OwnerRoutes
    BY <1>6 DEF OwnerPages, OwnerRoutes
  <2> QED BY <2>1, GetIs DEF Routes
<1>7. CASE p \in TenantPages
  <2>1. Get(p, "tenant", "none") \in CustomerRoutes \cup OwnerRoutes
    BY <1>7 DEF TenantPages, CustomerRoutes, OwnerRoutes
  <2> QED BY <2>1, GetIs DEF Routes
<1> QED BY <1>1, <1>2, <1>3, <1>4, <1>5, <1>6, <1>7 DEF PagePaths
----------------------------------------------------------------------------
(* The forms. *)

LEMMA FormIs ==
    ASSUME NEW p \in PlatformPosts \cup TenantPosts
    PROVE  LET f == Form(p, TokenOf(p))
           IN  Fits(f) /\ f.to = p /\ f.token = TokenOf(p)
BY DEF Form, Fits

LEMMA ChoosingIs ==
    ASSUME NEW p \in PlatformPosts \cup TenantPosts, NEW n, NEW S, S \subseteq Taken(p, n)
    PROVE  LET f == Choosing(p, TokenOf(p), n, S)
           IN  Fits(f) /\ f.to = p /\ f.token = TokenOf(p)
<1> DEFINE f == Choosing(p, TokenOf(p), n, S)
<1>1. f.to = p /\ f.token = TokenOf(p) /\ f.sends = {<<n, v>> : v \in S}
  BY DEF Choosing
<1>2. \A v \in f.sends : v[1] = n /\ v[2] \in S
  BY <1>1
<1>3. QED BY <1>1, <1>2 DEF Fits

\* The tokens that a session gives.
SessionTokens == {"admin", "owner", "staff", "receipts"}

\* A form that fits, whose path is one of S and whose token is one of T.
Sound(f, S, T) == Fits(f) /\ f.to \in S /\ f.token \in T

LEMMA TokenOfPath ==
    /\ \A p \in AdminPosts : TokenOf(p) = "admin"
    /\ \A p \in StaffPosts : TokenOf(p) = "staff"
    /\ \A p \in OwnerPosts : TokenOf(p) = "owner"
    /\ \A p \in ReceiptPosts : TokenOf(p) = "receipts"
    /\ \A p \in OpenPosts : TokenOf(p) = "public"
    /\ \A p \in SignupPosts : TokenOf(p) = "public"
    /\ TokenOf("/admin/login") = "public" /\ TokenOf("/help/feedback") = "none"
<1>1. "/help/feedback" \notin OpenPosts /\ "/help/feedback" \notin SignupPosts
  BY DEF OpenPosts, SignupPosts
<1> QED BY LoginOfPath, <1>1 DEF TokenOf

LEMMA TakenIs ==
    /\ \A p : Taken(p, "channel") = {"transfer", "terminal", "ussd"}
    /\ \A p : Taken(p, "rating") = {"1", "2", "3", "4", "5"}
    /\ \A p : Taken(p, "role") = {"manager", "cashier", "operator"}
    /\ \A p : Taken(p, "helpful") = {"yes", "no"}
    /\ \A p : Taken(p, "active") = {"true", "false"}
    /\ \A p : Taken(p, "state") = {"a state"} /\ Taken(p, "buyer_state") = {"a state"}
    /\ \A p : Taken(p, "accept_terms") = {"yes"} /\ Taken(p, "accept_contact") = {"yes"}
    /\ \A p : Taken(p, "closed") = {"true"}
    /\ \A p, n : n \in {"can_edit_price", "can_manage_staff", "can_manage_pumps"}
                     => Taken(p, n) = {"true"}
    /\ Taken("/admin/plants/{id}/status", "status") = PlantRows
    /\ \A p : p # "/admin/plants/{id}/status"
                  => Taken(p, "status") = {"working", "not_working", "maintenance"}
BY DEF Taken

LEMMA BoxesTaken ==
    \A p : "yes" \in Taken(p, "accept_terms") /\ "yes" \in Taken(p, "accept_contact")
BY DEF Taken

\* The customer's forms, and the login forms.
LEMMA OpenFormsFit ==
    /\ Sound(BuyForm, OpenPosts, {"public"})
    /\ Sound(LookupForm, OpenPosts, {"public"})
    /\ \A f \in VerifyForms : Sound(f, OpenPosts, {"public"})
    /\ \A f \in ReviewForm(Rows) : Sound(f, OpenPosts, {"public"})
    /\ Sound(PINForm, OpenPosts, {"public"})
    /\ Sound(OwnerLoginForm, OpenPosts, {"public"})
    /\ \A f \in ForgotForm(Rows) : Sound(f, OpenPosts, {"public"})
    /\ \A f \in ResetForm(Rows) : Sound(f, OpenPosts, {"public"})
    /\ Sound(AdminLoginForm, {"/admin/login"}, {"public"})
<1>1. \A p \in OpenPosts : Sound(Form(p, "public"), OpenPosts, {"public"})
  BY FormIs, TokenOfPath DEF Sound, TenantPosts
<1>2. /\ "/tickets" \in OpenPosts /\ "/receipts/lookup" \in OpenPosts
      /\ "/receipts/verify" \in OpenPosts /\ "/reviews/{token}" \in OpenPosts
      /\ "/terminal/pin" \in OpenPosts /\ "/owner/login" \in OpenPosts
      /\ "/owner/forgot-password" \in OpenPosts /\ "/owner/reset-password" \in OpenPosts
  BY DEF OpenPosts
<1>3. \A p \in OpenPosts : \A n, S :
          S \subseteq Taken(p, n) => Sound(Choosing(p, "public", n, S), OpenPosts, {"public"})
  BY ChoosingIs, TokenOfPath DEF Sound, TenantPosts
<1>4. Sound(BuyForm, OpenPosts, {"public"})
  BY <1>2, <1>3, TakenIs DEF BuyForm
<1>5. \A f \in ReviewForm(Rows) : Sound(f, OpenPosts, {"public"})
  <2>1. {"1", "2", "3", "4", "5"} \subseteq Taken("/reviews/{token}", "rating")
    BY TakenIs
  <2> QED BY <2>1, <1>2, <1>3 DEF ReviewForm
<1>6. Sound(AdminLoginForm, {"/admin/login"}, {"public"})
  BY FormIs, TokenOfPath DEF AdminLoginForm, Sound, PlatformPosts
<1>7. \A f \in VerifyForms : Sound(f, OpenPosts, {"public"})
  BY <1>1, <1>2 DEF VerifyForms, LookupForm
<1>8. \A f \in ForgotForm(Rows) : Sound(f, OpenPosts, {"public"})
  BY <1>1, <1>2 DEF ForgotForm
<1>9. \A f \in ResetForm(Rows) : Sound(f, OpenPosts, {"public"})
  BY <1>1, <1>2 DEF ResetForm
<1>10. /\ Sound(LookupForm, OpenPosts, {"public"}) /\ Sound(PINForm, OpenPosts, {"public"})
       /\ Sound(OwnerLoginForm, OpenPosts, {"public"})
  BY <1>1, <1>2 DEF LookupForm, PINForm, OwnerLoginForm
<1> QED BY <1>4, <1>5, <1>6, <1>7, <1>8, <1>9, <1>10

LEMMA ReceiptFormsFit == \A f \in ConfirmForm(Rows) : Sound(f, ReceiptPosts, {"receipts"})
<1>1. "/tickets/{reference}/confirm" \in ReceiptPosts
  BY DEF ReceiptPosts
<1>2. Sound(Form("/tickets/{reference}/confirm", "receipts"), ReceiptPosts, {"receipts"})
  <2>1. TokenOf("/tickets/{reference}/confirm") = "receipts"
    BY <1>1, TokenOfPath
  <2>2. "/tickets/{reference}/confirm" \in PlatformPosts \cup TenantPosts
    BY <1>1 DEF TenantPosts
  <2> QED BY <1>1, <2>1, <2>2, FormIs DEF Sound
<1> QED BY <1>2 DEF ConfirmForm

LEMMA StaffFormsFit == \A f \in TerminalForms : Sound(f, StaffPosts, {"staff"})
<1>1. \A p \in StaffPosts : Sound(Form(p, "staff"), StaffPosts, {"staff"})
  BY FormIs, TokenOfPath DEF Sound, TenantPosts
<1>2. \A p \in StaffPosts : \A n, S :
          S \subseteq Taken(p, n) => Sound(Choosing(p, "staff", n, S), StaffPosts, {"staff"})
  BY ChoosingIs, TokenOfPath DEF Sound, TenantPosts
<1>3. Sound(Choosing("/terminal/pumps", "staff", "status", PumpChoices), StaffPosts, {"staff"})
  BY <1>2, TakenIs DEF PumpChoices, Offered, StaffPosts
<1>4. Sound(Choosing("/terminal/staff/status", "staff", "active", {"true", "false"}),
            StaffPosts, {"staff"})
  BY <1>2, TakenIs DEF StaffPosts
<1>5. \A p \in {"/terminal/redeem", "/terminal/fill", "/terminal/cash-sale",
                 "/terminal/receipt/close", "/terminal/receipt/bulk-close", "/terminal/price",
                 "/terminal/logout", "/terminal/shift/end"} : p \in StaffPosts
  BY DEF StaffPosts
<1> QED BY <1>1, <1>3, <1>4, <1>5 DEF TerminalForms

\* The owner's forms, behind the session.
LEMMA OwnerFormsFit ==
    /\ \A f \in Dashboard(Rows) : Sound(f, OwnerPosts, {"owner"})
    /\ \A f \in PasswordForm(Rows) : Sound(f, OwnerPosts, {"owner"})
<1>1. \A p \in OwnerPosts : Sound(Form(p, "owner"), OwnerPosts, {"owner"})
  BY FormIs, TokenOfPath DEF Sound, TenantPosts
<1>2. \A p \in OwnerPosts : \A n, S :
          S \subseteq Taken(p, n) => Sound(Choosing(p, "owner", n, S), OwnerPosts, {"owner"})
  BY ChoosingIs, TokenOfPath DEF Sound, TenantPosts
<1>3. /\ "/owner/logout" \in OwnerPosts /\ "/tickets/{reference}/void" \in OwnerPosts
      /\ "/owner/prices" \in OwnerPosts /\ "/owner/staff" \in OwnerPosts
      /\ "/owner/staff/{id}/status" \in OwnerPosts
      /\ "/owner/staff/{id}/permissions" \in OwnerPosts /\ "/owner/hours" \in OwnerPosts
      /\ "/owner/pumps" \in OwnerPosts /\ "/owner/settings" \in OwnerPosts
      /\ "/owner/password" \in OwnerPosts
  BY DEF OwnerPosts
<1>4. /\ Sound(OwnerLogoutForm, OwnerPosts, {"owner"}) /\ Sound(PriceForm, OwnerPosts, {"owner"})
      /\ Sound(SettingsForm, OwnerPosts, {"owner"})
      /\ \A f \in VoidForms(Rows) \cup PasswordForm(Rows) : Sound(f, OwnerPosts, {"owner"})
  BY <1>1, <1>3 DEF OwnerLogoutForm, PriceForm, SettingsForm, VoidForms, PasswordForm
<1>5. Sound(HoursForm, OwnerPosts, {"owner"})
  BY <1>2, <1>3, TakenIs DEF HoursForm
<1>6. /\ PumpChoices \subseteq Taken("/owner/pumps", "status")
      /\ {"working"} \subseteq Taken("/owner/pumps", "status")
  <2>1. Taken("/owner/pumps", "status") = {"working", "not_working", "maintenance"}
    BY TakenIs
  <2> QED BY <2>1 DEF PumpChoices, Offered
<1>7. Sound(AddPumpForm, OwnerPosts, {"owner"}) /\ \A f \in PumpForms(Rows) : Sound(f, OwnerPosts, {"owner"})
  <2>1. \A S : S \subseteq Taken("/owner/pumps", "status")
                  => Sound(Choosing("/owner/pumps", "owner", "status", S), OwnerPosts, {"owner"})
    BY <1>2, <1>3
  <2>2. Sound(AddPumpForm, OwnerPosts, {"owner"})
    BY <1>6, <2>1 DEF AddPumpForm
  <2>3. Sound(Choosing("/owner/pumps", "owner", "status", PumpChoices), OwnerPosts, {"owner"})
    BY <1>6, <2>1
  <2> QED BY <2>2, <2>3 DEF PumpForms
<1>8. Sound(AddStaffForm, OwnerPosts, {"owner"})
  <2>1. Taken("/owner/staff", "role") = {"manager", "cashier", "operator"}
    BY TakenIs
  <2>2. Offered({"cashier", "operator", "manager"}) \subseteq Taken("/owner/staff", "role")
    BY <2>1 DEF Offered
  <2> QED BY <1>2, <1>3, <2>2 DEF AddStaffForm
<1>9. \A f \in DeactivateForms(Rows) \cup ActivateForms(Rows) : Sound(f, OwnerPosts, {"owner"})
  <2>1. /\ {"false"} \subseteq Taken("/owner/staff/{id}/status", "active")
        /\ {"true"} \subseteq Taken("/owner/staff/{id}/status", "active")
    <3>1. Taken("/owner/staff/{id}/status", "active") = {"true", "false"}
      BY TakenIs
    <3> QED BY <3>1
  <2>2. /\ Sound(Choosing("/owner/staff/{id}/status", "owner", "active", {"false"}), OwnerPosts, {"owner"})
        /\ Sound(Choosing("/owner/staff/{id}/status", "owner", "active", {"true"}), OwnerPosts, {"owner"})
    BY <2>1, <1>2, <1>3
  <2> QED BY <2>2 DEF DeactivateForms, ActivateForms
<1>10. \A f \in PermissionForms(Rows) : Sound(f, OwnerPosts, {"owner"})
  <2> SUFFICES ASSUME NEW f \in PermissionForms(Rows)
               PROVE  Sound(f, OwnerPosts, {"owner"})
    OBVIOUS
  <2> DEFINE boxes == {"can_edit_price", "can_manage_staff", "can_manage_pumps"} \X {"true"}
  <2>0. f = [to |-> "/owner/staff/{id}/permissions", token |-> "owner", sends |-> boxes]
    BY Zenon DEF PermissionForms
  <2>1. /\ f.to = "/owner/staff/{id}/permissions" /\ f.token = "owner"
        /\ f.sends = boxes
    BY <2>0
  <2>2. \A v \in f.sends : v[1] \in {"can_edit_price", "can_manage_staff", "can_manage_pumps"} /\ v[2] = "true"
    BY <2>1
  <2>3. \A v \in f.sends : v[2] \in Taken(f.to, v[1])
    BY <2>2, TakenIs
  <2> QED BY <2>1, <2>3, <1>3, TokenOfPath DEF Sound, Fits, TenantPosts
<1> QED BY <1>4, <1>5, <1>7, <1>8, <1>9, <1>10 DEF Dashboard

\* The platform's.
LEMMA PlatformFormsFit ==
    /\ \A f \in AdminConsole(Rows) : Sound(f, AdminPosts, {"admin"})
    /\ \A f \in AdminPlantDetail(Rows) : Sound(f, AdminPosts, {"admin"})
    /\ \A f \in OwnerSignupForm(Rows) \cup BuyerSignupForm(Rows) : Sound(f, SignupPosts, {"public"})
    /\ Sound(FeedbackForm, {"/help/feedback"}, {"none"})
<1>1. \A p \in AdminPosts : Sound(Form(p, "admin"), AdminPosts, {"admin"})
  BY FormIs, TokenOfPath DEF Sound, PlatformPosts
<1>2. \A p \in AdminPosts : \A n, S :
          S \subseteq Taken(p, n) => Sound(Choosing(p, "admin", n, S), AdminPosts, {"admin"})
  BY ChoosingIs, TokenOfPath DEF Sound, PlatformPosts
<1>3. /\ "/admin/logout" \in AdminPosts /\ "/admin/plants/{id}/messaging" \in AdminPosts
      /\ "/admin/plants/{id}/status" \in AdminPosts /\ "/admin/plants/{id}/subaccount" \in AdminPosts
  BY DEF AdminPosts
<1>4. \A s \in PlantRows : Sound(PlantStatusForm(s), AdminPosts, {"admin"})
  <2>1. \A s \in PlantRows : {s} \subseteq Taken("/admin/plants/{id}/status", "status")
    BY TakenIs
  <2> QED BY <1>2, <1>3, <2>1 DEF PlantStatusForm
<1>5. \A f \in PlantsTable(Rows) \cup ApplicationForms(Rows) : Sound(f, AdminPosts, {"admin"})
  <2>1. "active" \in PlantRows /\ "suspended" \in PlantRows /\ "closed" \in PlantRows
    BY DEF PlantRows
  <2>2. \A r : \A f \in PlantStatusForms(r) : Sound(f, AdminPosts, {"admin"})
    BY <1>4, <2>1 DEF PlantStatusForms
  <2> QED BY <1>4, <2>1, <2>2 DEF PlantsTable, ApplicationForms
<1>6. /\ Sound(AdminLogoutForm, AdminPosts, {"admin"}) /\ Sound(MessagingForm, AdminPosts, {"admin"})
      /\ \A f \in SubaccountForm(Rows) : Sound(f, AdminPosts, {"admin"})
  BY <1>1, <1>3 DEF AdminLogoutForm, MessagingForm, SubaccountForm
<1>7. \A f \in OwnerSignupForm(Rows) \cup BuyerSignupForm(Rows) : Sound(f, SignupPosts, {"public"})
  <2> SUFFICES ASSUME NEW f \in OwnerSignupForm(Rows) \cup BuyerSignupForm(Rows)
               PROVE  Sound(f, SignupPosts, {"public"})
    OBVIOUS
  <2> DEFINE own == {<<"accept_terms", "yes">>} \cup ({"state"} \X StateChoices)
             buy == {<<"accept_contact", "yes">>} \cup ({"buyer_state"} \X StateChoices)
             known(v) == \A p : v[2] \in Taken(p, v[1])
  <2>0. \/ f = [to |-> "/get-started", token |-> "public", sends |-> own]
        \/ f = [to |-> "/get-started/buyer", token |-> "public", sends |-> buy]
    BY Zenon DEF OwnerSignupForm, BuyerSignupForm
  <2>1. f.token = "public" /\ f.to \in {"/get-started", "/get-started/buyer"}
        /\ f.sends \subseteq own \cup buy
    <3> HIDE DEF own, buy
    <3> QED BY <2>0
  <2>2. StateChoices = {"a state"}
    BY DEF StateChoices, Offered
  <2>3. \A v \in own : known(v)
    <3>1. known(<<"accept_terms", "yes">>)
      <4>1. \A p : "yes" \in Taken(p, "accept_terms")
        BY BoxesTaken
      <4> QED BY <4>1
    <3>2. \A v \in {"state"} \X StateChoices : known(v)
      BY <2>2, TakenIs
    <3> QED BY <3>1, <3>2
  <2>4. \A v \in buy : known(v)
    <3>1. known(<<"accept_contact", "yes">>)
      <4>1. \A p : "yes" \in Taken(p, "accept_contact")
        BY BoxesTaken
      <4> QED BY <4>1
    <3>2. \A v \in {"buyer_state"} \X StateChoices : known(v)
      BY <2>2, TakenIs
    <3> QED BY <3>1, <3>2
  <2>5. f.to \in SignupPosts
    BY <2>1 DEF SignupPosts
  <2>6. \A v \in f.sends : v[2] \in Taken(f.to, v[1])
    BY <2>1, <2>3, <2>4
  <2> QED BY <2>1, <2>5, <2>6, TokenOfPath DEF Sound, Fits, PlatformPosts
<1>8. Sound(FeedbackForm, {"/help/feedback"}, {"none"})
  <2>1. {"yes", "no"} \subseteq Taken("/help/feedback", "helpful")
    BY TakenIs
  <2>2. "/help/feedback" \in PlatformPosts
    BY DEF PlatformPosts
  <2> QED BY <2>1, <2>2, ChoosingIs, TokenOfPath DEF FeedbackForm, Sound
<1> QED BY <1>5, <1>6, <1>7, <1>8 DEF AdminConsole, AdminPlantDetail

\* What the pages offer.
LEMMA DrawnForms ==
    /\ Drawn("/", FALSE) = {BuyForm}
    /\ Drawn("/receipts", TRUE) = ConfirmForm(Rows) /\ Drawn("/receipts", FALSE) = {LookupForm}
    /\ Drawn("/reviews/{token}", FALSE) = ReviewForm(Rows)
    /\ Drawn("/terminal", TRUE) = TerminalForms /\ Drawn("/terminal", FALSE) = {PINForm}
    /\ Drawn("/owner/login", FALSE) = {OwnerLoginForm}
    /\ Drawn("/owner/forgot-password", FALSE) = ForgotForm(Rows)
    /\ Drawn("/owner/reset-password", FALSE) = ResetForm(Rows)
    /\ Drawn("/owner", TRUE) = Dashboard(Rows) /\ Drawn("/owner/password", TRUE) = PasswordForm(Rows)
    /\ Drawn("/admin/login", FALSE) = {AdminLoginForm}
    /\ Drawn("/admin", TRUE) = AdminConsole(Rows)
    /\ Drawn("/admin/plants/{id}", TRUE) = AdminPlantDetail(Rows)
    /\ Drawn("/get-started", FALSE) = OwnerSignupForm(Rows) \cup BuyerSignupForm(Rows)
    /\ Drawn("/help/{category}/{article}", FALSE) = {FeedbackForm}
    /\ Drawn("/pricing", FALSE) = {} /\ Drawn("/login", FALSE) = {}
    /\ Drawn("/tickets/{reference}/callback", FALSE) = {}
BY DEF Drawn
----------------------------------------------------------------------------
(* The hosts. *)

LEMMA Below ==
    ASSUME NEW S, NEW x \in S, NEW B \in Seq(S), Len(B) = 2
    PROVE  LET h == <<x>> \o B
           IN  /\ h \in Seq(S) /\ Len(h) = 3 /\ Head(h) = x /\ Tail(h) = B
               /\ SubSeq(h, 2, 3) = B
<1> DEFINE o == <<x>>
           h == o \o B
<1>1. o \in Seq(S) /\ Len(o) = 1 /\ o[1] = x
  OBVIOUS
<1> HIDE DEF o
<1>2. h \in Seq(S) /\ Len(h) = 3 /\ h[1] = x
  <2>1. h \in Seq(S) /\ Len(h) = Len(o) + Len(B) /\ \A i \in 1 .. Len(o) + Len(B) :
                         h[i] = IF i <= Len(o) THEN o[i] ELSE B[i - Len(o)]
    BY <1>1, ConcatProperties
  <2> HIDE DEF h
  <2> QED BY <1>1, <2>1
<1>3. SubSeq(h, 2, 3) = B
  <2>1. SubSeq(h, 2, 3) = SubSeq(B, 2 - Len(o), 3 - Len(o))
    <3>1. 2 \in Len(o)+1 .. Len(o)+Len(B) /\ 3 \in Len(o)+1 .. Len(o)+Len(B)
      BY <1>1
    <3> QED BY <1>1, <3>1, SubSeqOfConcat2
  <2>2. 2 - Len(o) = 1 /\ 3 - Len(o) = 2
    BY <1>1
  <2> QED BY <2>1, <2>2, SubSeqFull
<1> HIDE DEF h
<1>4. Tail(h) = SubSeq(h, 2, 3)
  <2>1. h # << >>
    BY <1>2, EmptySeq
  <2> QED BY <1>2, <2>1, TailIsSubSeq
<1>5. /\ h \in Seq(S) /\ Len(h) = 3 /\ Head(h) = x /\ Tail(h) = B
      /\ SubSeq(h, 2, 3) = B
  BY <1>2, <1>3, <1>4
<1> QED BY <1>5 DEF h, o

LEMMA HeadFirst ==
    ASSUME NEW S, NEW h \in Seq(S), Len(h) > 1
    PROVE  h = <<Head(h)>> \o Tail(h)
OBVIOUS

LEMMA BaseLen ==
    ASSUME NEW S, "gatstogo" \in S, "com" \in S
    PROVE  BaseDomain \in Seq(S) /\ Len(BaseDomain) = 2 /\ Head(BaseDomain) = "gatstogo"
BY DEF BaseDomain

LEMMA HostsOver ==
    ASSUME NEW S, {"gatstogo", "com", "www", "localhost", Slug} \subseteq S,
           NEW h \in Seq(S), Resolved(h)
    PROVE  /\ h \in PlantHosts <=> IsTenantHost(h) /\ ExtractSubdomain(h) = Slug
           /\ h \in PlatformHosts <=> IsMarketingHost(h)
           /\ h \in PlatformHosts => h \notin PlantHosts /\ ~IsTenantHost(h)
<1> DEFINE B == BaseDomain
<1>1. B \in Seq(S) /\ Len(B) = 2 /\ Head(B) = "gatstogo"
  BY BaseLen
<1>2. Slug \notin {"", "www", "admin", "api", "gatstogo"} /\ "gatstogo" \notin {"", "www"}
  BY DEF Slug
<1>3. <<"localhost">> \in Seq(S) /\ Len(<<"localhost">>) = 1
  OBVIOUS
<1>4. ASSUME NEW x \in S
      PROVE  LET g == <<x>> \o B IN Len(g) = 3 /\ Head(g) = x /\ SubSeq(g, 2, 3) = B
  <2> HIDE DEF B
  <2> DEFINE g == <<x>> \o B
  <2>1. /\ g \in Seq(S) /\ Len(g) = 3 /\ Head(g) = x /\ Tail(g) = B
        /\ SubSeq(g, 2, 3) = B
    BY <1>1, Below, Zenon
  <2> QED BY <2>1
<1>5. Len(h) > 1 => h = <<Head(h)>> \o Tail(h)
  BY HeadFirst
<1>13. Len(h) > 1 => ExtractSubdomain(h) = Head(h)
  <2>1. Len(h) > 1 => ~(Len(h) < 2)
    BY LenProperties
  <2> QED BY <2>1, Zenon DEF ExtractSubdomain
<1> HIDE DEF B
<1>6. HasBaseDomainSuffix(h) <=> Len(h) > 2 /\ SubSeq(h, Len(h) - 2 + 1, Len(h)) = B
  BY <1>1 DEF HasBaseDomainSuffix, B
<1>7. h = B => IsMarketingHost(h) /\ ~IsTenantHost(h)
  <2>1. h = B => ~HasBaseDomainSuffix(h)
    BY <1>1, <1>6
  <2> QED BY <2>1 DEF IsMarketingHost, IsTenantHost, B
<1>8. h = <<"www">> \o B => IsMarketingHost(h) /\ ~IsTenantHost(h)
  BY <1>4 DEF IsMarketingHost, IsTenantHost, B, ExtractSubdomain
<1>9. h = <<"localhost">> => IsMarketingHost(h) /\ ~IsTenantHost(h)
  BY <1>3 DEF IsMarketingHost, IsTenantHost, ExtractSubdomain
<1>10. h = <<Slug>> \o B => IsTenantHost(h) /\ ExtractSubdomain(h) = Slug /\ ~IsMarketingHost(h)
  <2> SUFFICES ASSUME h = <<Slug>> \o B
               PROVE  IsTenantHost(h) /\ ExtractSubdomain(h) = Slug /\ ~IsMarketingHost(h)
    OBVIOUS
  <2>1. Len(h) = 3 /\ Head(h) = Slug /\ SubSeq(h, 2, 3) = B
    BY <1>4
  <2>2. h # B /\ h # <<"www">> \o B
    BY <2>1, <1>1, <1>2, <1>4
  <2>3. ExtractSubdomain(h) = Slug
    BY <2>1, <1>13
  <2>4. HasBaseDomainSuffix(h)
    BY <2>1, <1>6
  <2> QED BY <2>2, <2>3, <2>4, <1>2 DEF IsTenantHost, IsMarketingHost, B
<1>11. IsTenantHost(h) /\ ExtractSubdomain(h) = Slug => h = <<Slug>> \o B
  <2> SUFFICES ASSUME IsTenantHost(h), ExtractSubdomain(h) = Slug
               PROVE  h = <<Slug>> \o B
    OBVIOUS
  <2>1. h \notin PlatformHosts /\ HasBaseDomainSuffix(h)
    BY <1>7, <1>8, <1>9 DEF PlatformHosts, IsTenantHost, B
  <2>2. Len(h) > 1 /\ Tail(h) = B
    BY <2>1 DEF Resolved, B
  <2>3. Head(h) = Slug
    BY <2>2, <1>2 DEF ExtractSubdomain
  <2> QED BY <2>2, <2>3, <1>5
<1>12. IsMarketingHost(h) => h \in PlatformHosts
  <2> SUFFICES ASSUME IsMarketingHost(h), h \notin PlatformHosts
               PROVE  FALSE
    OBVIOUS
  <2>1. ExtractSubdomain(h) \in {"", "www"}
    BY DEF IsMarketingHost, PlatformHosts
  <2>2. Len(h) > 1 /\ Head(h) # "" /\ (Head(h) = "www" => Tail(h) = B)
    BY DEF Resolved, B
  <2>3. Head(h) = "www"
    BY <2>1, <2>2, <1>13
  <2>4. h = <<"www">> \o B
    BY <2>2, <2>3, <1>5
  <2> QED BY <2>4 DEF PlatformHosts, B
<1> QED BY <1>7, <1>8, <1>9, <1>10, <1>11, <1>12 DEF PlatformHosts, PlantHosts, B

\* The hosts that the tabs are at: the middleware's tests tell the plant's from the platform's.
LEMMA Hosts ==
    ASSUME NEW t \in Tabs
    PROVE  /\ t.host \in PlantHosts <=> IsTenantHost(t.host) /\ ExtractSubdomain(t.host) = Slug
           /\ t.host \in PlatformHosts <=> IsMarketingHost(t.host)
           /\ t.host \in PlatformHosts => t.host \notin PlantHosts /\ ~IsTenantHost(t.host)
<1> DEFINE S == STRING \cup {"gatstogo", "com", "www", "localhost", Slug}
<1>1. t.host \in Seq(STRING) /\ Resolved(t.host)
  BY SiteAssumption, HostsAssumption
<1>2. STRING \subseteq S /\ {"gatstogo", "com", "www", "localhost", Slug} \subseteq S
  OBVIOUS
<1> HIDE DEF S
<1>3. t.host \in Seq(S)
  BY <1>1, <1>2, SeqMonotonic
<1> QED BY <1>1, <1>2, <1>3, HostsOver

----------------------------------------------------------------------------
(* The types. *)

LEMMA Bounds ==
    /\ MaxLogins \in Nat /\ MaxMinted \in Nat /\ 0 \in 0..MaxLogins /\ 0 \in 0..MaxMinted
    /\ SiteStatuses \subseteq PlantRows
<1>1. MaxLogins \in Nat /\ MaxMinted \in Nat /\ SiteStatuses \subseteq PlantRows
  BY Zenon, SiteAssumption
<1> QED BY <1>1

\* Pairs of tokens, and what the steps make of them.
LEMMA TokenPairs ==
    /\ NoCookies \in Tokens /\ NoCookies.public = 0 /\ NoCookies.session = 0
    /\ \A p \in 0..MaxMinted, s \in 0..MaxLogins :
          LET t == [public |-> p, session |-> s] IN t \in Tokens /\ t.public = p /\ t.session = s
    /\ \A t \in Tokens : t.public \in 0..MaxMinted /\ t.session \in 0..MaxLogins
    /\ \A t \in Tokens, s \in 0..MaxLogins :
          LET u == [t EXCEPT !.session = s]
          IN  u \in Tokens /\ u.public = t.public /\ u.session = s
    /\ \A t \in Tokens, p \in 0..MaxMinted :
          LET u == [t EXCEPT !.public = p]
          IN  u \in Tokens /\ u.public = p /\ u.session = t.session
BY Bounds DEF Tokens, NoCookies

\* One token of a pair replaced.
LEMMA Replaced ==
    ASSUME NEW t \in Tokens, NEW x
    PROVE  /\ [t EXCEPT !.session = x].session = x /\ [t EXCEPT !.session = x].public = t.public
           /\ [t EXCEPT !.public = x].public = x /\ [t EXCEPT !.public = x].session = t.session
BY DEF Tokens

LEMMA OneMore ==
    ASSUME NEW M \in Nat, NEW n \in 0..M, n < M
    PROVE  n + 1 \in 0..M /\ \A S : S \subseteq 1..n => S \cup {n + 1} \subseteq 1..n + 1
OBVIOUS

\* What a handler answers in the place of its page has a fault for its cause.
LEMMA ShownOrNot ==
    ASSUME NEW fs, NEW tokens, NEW resumed, ShowsUnless(fs, tokens, resumed)
    PROVE  \/ Shows(fs, tokens) /\ causes' = causes
           \/ \E how \in {"notfound", "error"}, c \in Faults :
                /\ Leaves(how) /\ causes' = causes \cup {c}
                /\ how = "notfound" => page \in RowPages \cup {"/reviews/{token}"}
<1>1. \A c \in NotFoundFor(page) : c \in Faults /\ page \in RowPages \cup {"/reviews/{token}"}
  BY DEF NotFoundFor, Faults, RowPages
<1>2. \A c \in FailsFor(page, resumed) : c \in Faults
  BY DEF FailsFor, Faults
<1> QED BY <1>1, <1>2 DEF ShowsUnless

LEMMA ShownAnswers ==
    ASSUME NEW fs, NEW tokens, NEW resumed, ShowsUnless(fs, tokens, resumed)
    PROVE  /\ doing' \in {"shown", "blank"} /\ cookies' = NoCookies /\ causes \subseteq causes'
           /\ answer' \in {"page", "notfound", "error"}
           /\ answer' # "page" => causes' \cap Faults # {}
           /\ answer' = "notfound" => page \in RowPages \cup {"/reviews/{token}"}
<1>1. CASE Shows(fs, tokens) /\ causes' = causes
  BY <1>1 DEF Shows
<1>2. ASSUME NEW how \in {"notfound", "error"}, NEW c \in Faults,
             Leaves(how), causes' = causes \cup {c},
             how = "notfound" => page \in RowPages \cup {"/reviews/{token}"}
      PROVE  /\ doing' \in {"shown", "blank"} /\ cookies' = NoCookies /\ causes \subseteq causes'
             /\ answer' = how /\ causes' \cap Faults # {}
  BY <1>2 DEF Leaves
<1> QED BY <1>1, <1>2, ShownOrNot DEF Shows

\* Every step keeps the types.
LEMMA SiteTypesStep ==
    ASSUME SiteTypeOK, [SiteNext]_siteVars
    PROVE  SiteTypeOK'
<1> USE Bounds, TokenPairs DEF SiteTypeOK, Shows, Leaves, Elsewhere, Rewritten
<1>0. /\ logins < MaxLogins => /\ logins + 1 \in 0..MaxLogins
                               /\ alive \cup {logins + 1} \subseteq 1..logins + 1
      /\ minted < MaxMinted => minted + 1 \in 0..MaxMinted
      /\ 0 \in 0..MaxLogins /\ 0 \in 0..MaxMinted
  <2> HIDE TokenPairs
  <2>1. MaxLogins \in Nat /\ MaxMinted \in Nat /\ 0 \in 0..MaxLogins /\ 0 \in 0..MaxMinted
    BY Bounds
  <2>2. alive \subseteq 1..logins /\ logins \in 0..MaxLogins /\ minted \in 0..MaxMinted
    BY DEF SiteTypeOK
  <2> QED BY <2>1, <2>2, OneMore
<1>a. ASSUME NEW how, Leaves(how)
      PROVE  cookies' \in Tokens /\ embedded' \in Tokens /\ doing' \in {"shown", "blank"}
  BY <1>a
<1>b. ASSUME NEW fs, NEW t \in Tokens, Shows(fs, t)
      PROVE  cookies' \in Tokens /\ embedded' \in Tokens /\ doing' = "shown" /\ answer' = "page"
  BY <1>b
<1>e. ASSUME NEW fs, NEW t \in Tokens, NEW resumed, ShowsUnless(fs, t, resumed)
      PROVE  /\ cookies' \in Tokens /\ embedded' \in Tokens /\ doing' \in {"shown", "blank"}
             /\ answer' \in {"page", "notfound", "error"}
             /\ causes' \subseteq {"session", "cookie"} \cup Faults
  <2>1. CASE Shows(fs, t) /\ causes' = causes
    BY <2>1, <1>b
  <2>2. CASE \E how \in {"notfound", "error"}, c \in Faults : Leaves(how) /\ causes' = causes \cup {c}
    BY <2>2, <1>a
  <2> HIDE DEF Shows, Leaves, SiteTypeOK
  <2> QED BY <1>e, <2>1, <2>2, ShownOrNot
<1>c. ASSUME NEW r
      PROVE  Rewritten(r) \in Tokens
  BY DEF SiteTypeOK
<1>d. \A t \in Tokens, s \in 0..MaxLogins : [t EXCEPT !.session = s] \in Tokens
  OBVIOUS
<1>1. CASE \E p \in Visited(area) : Ask(p)
  BY <1>1 DEF Ask
<1>2. CASE \E f \in forms : Submit(f)
  BY <1>2 DEF Submit
<1>3. ASSUME NEW r \in RoutesHere, Serve(r)
      PROVE  SiteTypeOK'
  <2>1. CASE ServeTenantOrReview(r)
    BY <2>1 DEF ServeTenantOrReview, Leaves
  <2>2. CASE NotSignedIn(r)
    BY <2>2 DEF NotSignedIn, Leaves
  <2>0. CASE LookupFails(r)
    <3>1. embedded' \in Tokens /\ cookies' \in Tokens /\ doing' \in {"shown", "blank"}
      BY <1>a, <2>0 DEF LookupFails
    <3>2. causes' \subseteq {"session", "cookie"} \cup Faults
      BY <2>0 DEF LookupFails, Faults
    <3> QED BY <2>0, <3>1, <3>2 DEF LookupFails
  <2>3. CASE ShowSignedIn(r)
    <3>1. [public |-> 0, session |-> cookies.session] \in Tokens /\ jar' \in Tokens
      BY <1>0, <1>d, <2>3 DEF ShowSignedIn
    <3>2. ShowsUnless(Drawn(page, TRUE), [public |-> 0, session |-> cookies.session], TRUE)
      BY <2>3 DEF ShowSignedIn
    <3>3. /\ cookies' \in Tokens /\ embedded' \in Tokens /\ doing' \in {"shown", "blank"}
          /\ answer' \in {"page", "notfound", "error"}
          /\ causes' \subseteq {"session", "cookie"} \cup Faults
      <4> HIDE DEF Shows, Leaves, SiteTypeOK
      <4> QED BY <3>1, <3>2, <1>e
    <3> QED BY <2>3, <3>1, <3>3 DEF ShowSignedIn
  <2>4. CASE ShowPlain(r)
    <3>1. \E fs : ShowsUnless(fs, NoCookies, FALSE)
      BY <2>4 DEF ShowPlain
    <3>2. /\ cookies' \in Tokens /\ embedded' \in Tokens /\ doing' \in {"shown", "blank"}
          /\ answer' \in {"page", "notfound", "error"}
          /\ causes' \subseteq {"session", "cookie"} \cup Faults
      <4>1. NoCookies \in Tokens
        OBVIOUS
      <4> HIDE DEF Shows, Leaves, SiteTypeOK
      <4> QED BY <4>1, <3>1, <1>e
    <3> QED BY <2>4, <3>2 DEF ShowPlain
  <2>5. CASE ShowPublic(r)
    <3>1. EnsurePublicCSRFCookie \in 0..MaxMinted /\ minted' \in 0..MaxMinted
      <4>1. EnsurePublicCSRFCookie \in Nat /\ EnsurePublicCSRFCookie <= MaxMinted
        <5>1. EnsurePublicCSRFCookie <= MaxMinted
          BY <2>5 DEF ShowPublic
        <5>2. cookies \in Tokens /\ minted \in 0..MaxMinted
          OBVIOUS
        <5>3. cookies.public \in 0..MaxMinted
          BY <5>2
        <5> HIDE TokenPairs
        <5> HIDE DEF SiteTypeOK
        <5> QED BY <5>1, <5>2, <5>3 DEF EnsurePublicCSRFCookie
      <4>2. minted' = IF EnsurePublicCSRFCookie > minted THEN minted + 1 ELSE minted
        BY <2>5 DEF ShowPublic
      <4>3. minted \in 0..MaxMinted /\ MaxMinted \in Nat
        OBVIOUS
      <4> HIDE DEF SiteTypeOK
      <4> HIDE TokenPairs, SiteAssumption
      <4> QED BY <4>1, <4>2, <4>3
    <3>2. PICK current \in {SignedIn, FALSE} :
            LET resumed == current /\ page \in {"/receipts", "/terminal"}
            IN /\ jar' = [public |-> IF EnsurePublicCSRFCookie > minted
                                     THEN EnsurePublicCSRFCookie ELSE jar.public,
                          session |-> IF resumed THEN cookies.session
                                      ELSE IF page = "/terminal" /\ cookies.session # 0
                                           THEN 0 ELSE jar.session]
               /\ ShowsUnless(Drawn(page, resumed),
                              [public |-> EnsurePublicCSRFCookie,
                               session |-> IF resumed THEN cookies.session ELSE 0],
                              resumed)
      BY <2>5 DEF ShowPublic
    <3>3. jar' \in Tokens
      BY <1>0, <3>1, <3>2
    <3> DEFINE resumed == current /\ page \in {"/receipts", "/terminal"}
               tokens == [public |-> EnsurePublicCSRFCookie,
                          session |-> IF resumed THEN cookies.session ELSE 0]
    <3>4. ShowsUnless(Drawn(page, resumed), tokens, resumed)
      <4> HIDE DEF Shows, Leaves, SiteTypeOK
      <4> QED BY <3>2
    <3>6. tokens \in Tokens
      BY <1>0, <3>1
    <3> HIDE DEF resumed, tokens
    <3>5. /\ embedded' \in Tokens /\ cookies' \in Tokens /\ doing' \in {"shown", "blank"}
          /\ answer' \in {"page", "notfound", "error"} /\ causes' \subseteq {"session", "cookie"} \cup Faults
      <4> HIDE DEF Shows, Leaves, SiteTypeOK
      <4> QED BY <3>4, <3>6, <1>e
    <3> QED BY <2>5, <3>1, <3>3, <3>5 DEF ShowPublic
  <2>6. CASE Forbidden(r)
    BY <2>6 DEF Forbidden, Rewritten, Leaves
  <2>7. CASE Redrawn(r)
    <3>1. embedded' \in Tokens /\ cookies' \in Tokens /\ doing' = "shown" /\ answer' = "page"
      <4>1. [public |-> cookies.public, session |-> 0] \in Tokens
        BY <1>0
      <4> HIDE DEF Shows
      <4> QED BY <4>1, <2>7, <1>b DEF Redrawn
    <3> QED BY <2>7, <3>1 DEF Redrawn
  <2>8. CASE LoggedIn(r)
    <3>1. jar' \in Tokens /\ embedded' \in Tokens /\ cookies' \in Tokens
      <4>0. jar \in Tokens /\ embedded \in Tokens /\ logins + 1 \in 0..MaxLogins
        BY <1>0, <2>8 DEF LoggedIn
      <4>1. jar' \in Tokens
        BY <1>d, <4>0, <2>8 DEF LoggedIn
      <4>2. [embedded EXCEPT !.session = logins + 1] \in Tokens
        BY <1>d, <4>0
      <4> HIDE DEF Leaves, Shows
      <4> QED BY <4>1, <4>2, <2>8, <1>a, <1>b DEF LoggedIn
    <3>2. answer' \in {"page", "done"} /\ doing' \in {"shown", "blank"}
      BY <2>8 DEF LoggedIn
    <3>3. causes' \subseteq {"session", "cookie"} \cup Faults
      <4>1. causes' = causes \/ causes' = causes \ {"session"}
        BY <2>8 DEF LoggedIn
      <4>2. causes \subseteq {"session", "cookie"} \cup Faults
        OBVIOUS
      <4> QED BY <4>1, <4>2
    <3> QED BY <1>0, <2>8, <3>1, <3>2, <3>3 DEF LoggedIn
  <2>9. CASE LoggedOut(r)
    <3>1. jar' \in Tokens /\ embedded' \in Tokens /\ cookies' \in Tokens
      <4>1. jar \in Tokens /\ embedded \in Tokens
        OBVIOUS
      <4>2. jar' \in Tokens
        BY <1>0, <1>d, <4>1, <2>9 DEF LoggedOut
      <4>3. [embedded EXCEPT !.session = 0] \in Tokens
        BY <1>0, <1>d, <4>1
      <4> HIDE DEF Leaves, Shows
      <4> QED BY <4>2, <4>3, <2>9, <1>a, <1>b DEF LoggedOut
    <3>2. answer' \in {"page", "done"} /\ doing' \in {"shown", "blank"}
      BY <2>9 DEF LoggedOut
    <3> QED BY <2>9, <3>1, <3>2 DEF LoggedOut
  <2>10. CASE Done(r)
    <3>1. jar' \in Tokens /\ embedded' \in Tokens /\ cookies' \in Tokens
      BY <1>a, <1>c, <2>10 DEF Done
    <3>2. answer' \in {"done", "badvalue"} /\ doing' \in {"shown", "blank"}
      BY <2>10 DEF Done
    <3> QED BY <2>10, <3>1, <3>2 DEF Done
  <2> QED BY <1>3, <2>0, <2>1, <2>2, <2>3, <2>4, <2>5, <2>6, <2>7, <2>8, <2>9, <2>10 DEF Serve
<1>4. CASE NotFound
  BY <1>4 DEF NotFound, Leaves
<1>5. CASE \E s \in SiteStatuses : PlantBecomes(s)
  BY <1>5 DEF PlantBecomes
<1>6. CASE SignInElsewhere
  <2>1. jar' \in Tokens
    BY <1>0, <1>6 DEF SignInElsewhere
  <2> QED BY <1>0, <1>6, <2>1 DEF SignInElsewhere
<1>7. CASE SignOutElsewhere
  BY <1>7 DEF SignOutElsewhere, Elsewhere
<1>8. CASE \E t \in alive : SessionLapses(t)
  <2> PICK t \in alive : SessionLapses(t)
    BY <1>8
  <2>1. jar' \in Tokens
    <3>1. (IF jar.session = t THEN 0 ELSE jar.session) \in 0..MaxLogins
      BY <1>0
    <3>2. jar' = jar \/ jar' = [jar EXCEPT !.session = IF jar.session = t THEN 0 ELSE jar.session]
      BY DEF SessionLapses
    <3>3. jar \in Tokens
      OBVIOUS
    <3> HIDE DEF SiteTypeOK
    <3> QED BY <1>d, <3>1, <3>2, <3>3
  <2> QED BY <2>1 DEF SessionLapses
<1>9. CASE MintElsewhere
  <2>1. jar' \in Tokens
    BY <1>0, <1>9 DEF MintElsewhere
  <2> QED BY <1>0, <1>9, <2>1 DEF MintElsewhere
<1>10. CASE PublicLapses
  BY <1>10 DEF PublicLapses, Elsewhere
<1>11. CASE UNCHANGED siteVars
  BY <1>11 DEF siteVars
<1> QED BY <1>1, <1>2, <1>3, <1>4, <1>5, <1>6, <1>7, <1>8, <1>9, <1>10, <1>11 DEF SiteNext

\* Every variable of the tab, its browser and the plant has its type.
THEOREM SiteTypes == SiteSpec => []SiteTypeOK
<1>1. SiteInit => SiteTypeOK
  <2> SUFFICES ASSUME SiteInit
               PROVE  SiteTypeOK
    OBVIOUS
  <2>1. PICK t \in Tabs : host = t.host /\ area = t.area
    BY DEF SiteInit
  <2>2. [host |-> host, area |-> area] = t
    BY <2>1, SiteAssumption
  <2>3. 0 \in 0..MaxLogins /\ 0 \in 0..MaxMinted /\ "provisioning" \in PlantRows
    BY SiteAssumption DEF PlantRows
  <2> QED BY <2>2, <2>3, TokenPairs DEF SiteInit, SiteTypeOK
<1>2. SiteTypeOK /\ [SiteNext]_siteVars => SiteTypeOK'
  BY SiteTypesStep
<1> QED BY <1>1, <1>2, PTL DEF SiteSpec
----------------------------------------------------------------------------
(* The invariant.  A request under way brings the browser's cookies unless *)
(* something happened to them since; the forms that a tab offers fit their *)
(* routes, lead to where the tab is at home, and carry the browser's       *)
(* tokens, with the same exception.                                        *)

\* No public token is newer than the last one made.
Minted == jar.public <= minted /\ cookies.public <= minted

UnderWay ==
    /\ doing \in {"get", "passed", "post"} =>
          /\ answer = "none" /\ status \in seen
          /\ "session" \notin causes => cookies.session = jar.session
          /\ "cookie" \notin causes => cookies.public = jar.public
    /\ doing \in {"get", "passed"} =>
          posted = Unposted /\ ("session" \notin causes => jar.session \in alive)
    /\ doing = "post" => posted \in forms
    /\ doing # "blank" => page \in Visited(area)

\* A form of the terminal's page stays there, one of a plant's page at the plant.
AtHome(f) ==
    /\ area = "staff" => f.to \in StaffPosts \cup {"/terminal/pin"}
    /\ area \in {"customer", "staff", "owner"} => f.to \in TenantPosts
    /\ IsMarketingHost(host) /\ area \in {"platform", "admin"} => f.to \in PlatformPosts
    /\ f.to \in SignupPosts => page = "/get-started"

\* The page's session token is that of a session which is alive, and the browser's; so is its
\* public token, which the terminal keeps while it shows the forms of a session.
TokensInStep(f) ==
    /\ f.token \in SessionTokens /\ "session" \notin causes =>
          embedded.session = jar.session /\ jar.session \in alive
    /\ (f.token = "public" \/ area = "staff") /\ "cookie" \notin causes =>
          embedded.public = jar.public /\ jar.public # 0

Offers == \A f \in forms : Fits(f) /\ AtHome(f) /\ TokensInStep(f)

SiteInv == SiteTypeOK /\ Minted /\ UnderWay /\ Offers
\* Where the tab is, and what the middleware makes of its host.
LEMMA TabIs ==
    ASSUME SiteTypeOK
    PROVE  /\ area \in Areas
           /\ host \in PlantHosts <=> IsTenantHost(host) /\ ExtractSubdomain(host) = Slug
           /\ host \in PlatformHosts <=> IsMarketingHost(host)
           /\ host \in PlatformHosts => host \notin PlantHosts /\ ~IsTenantHost(host)
<1> DEFINE t == [host |-> host, area |-> area]
<1>1. t \in Tabs /\ t.host = host /\ t.area = area
  BY DEF SiteTypeOK
<1>2. t.area \in Areas
  <2>1. t \in [host : Seq(STRING), area : Areas]
    BY <1>1, SiteAssumption, Zenon
  <2> QED BY <2>1, Zenon
<1> HIDE DEF t
<1> QED BY <1>1, <1>2, Hosts

LEMMA PathSets ==
    /\ \A p \in TenantPosts : p \notin PlatformPosts /\ p \notin SignupPosts
    /\ \A p \in AdminPosts : p \in PlatformPosts /\ p \notin SignupPosts
    /\ \A p \in SignupPosts : p \in PlatformPosts
    /\ \A p \in {"/admin/login", "/help/feedback"} : p \in PlatformPosts /\ p \notin SignupPosts
    /\ \A p \in StaffPosts \cup OwnerPosts \cup ReceiptPosts \cup OpenPosts : p \in TenantPosts
    /\ "/terminal/pin" \in OpenPosts
BY GateOfPath DEF TenantPosts, PlatformPosts, OpenPosts

\* What stands before the pages of an area.
LEMMA AreaOfPage ==
    ASSUME NEW a \in Areas, NEW p \in Visited(a)
    PROVE  /\ p \in PagePaths
           /\ GetLogin(p) = "admin" => a = "admin" /\ p \in AdminPages
           /\ GetLogin(p) = "owner" => a = "owner" /\ p \in OwnerPages
           /\ GetLogin(p) \in {"admin", "owner", "none"}
           /\ GetGate(p) = "marketing" => a \in {"platform", "admin"}
           /\ GetGate(p) = "any" => a = "platform" /\ p \in OpenPages
           /\ GetGate(p) = "review" => a \in {"staff", "owner"}
           /\ GetGate(p) = "root" => p = "/" /\ a \in {"platform", "customer"}
           /\ a \in {"platform", "admin"} => GetGate(p) \in {"marketing", "any", "root"}
           /\ a \in {"customer", "staff", "owner"} => GetGate(p) \in {"tenant", "review", "root"}
           /\ a = "staff" <=> p = "/terminal"
<1>1. CASE a = "platform"
  <2>1. p \in PlatformPages \cup OpenPages \cup {"/"}
    BY <1>1, VisitedPages
  <2> QED BY <1>1, <2>1, GateOfPage DEF PagePaths, EntryPages
<1>2. CASE a = "admin"
  <2>1. p \in PlatformPages \cup AdminPages
    BY <1>2, VisitedPages
  <2> QED BY <1>2, <2>1, GateOfPage DEF PagePaths, EntryPages
<1>3. CASE a = "customer"
  <2>1. p \in TenantPages \cup {"/"}
    BY <1>3, VisitedPages
  <2> QED BY <1>3, <2>1, GateOfPage DEF PagePaths, EntryPages
<1>4. CASE a = "staff"
  <2>1. p = "/terminal" /\ p \in EntryPages
    BY <1>4, VisitedPages DEF EntryPages
  <2> QED BY <1>4, <2>1, GateOfPage DEF PagePaths
<1>5. CASE a = "owner"
  <2>1. p \in EntryPages \cup OwnerPages \cup TenantPages
    BY <1>5, VisitedPages
  <2>2. p # "/terminal"
    BY <1>5 DEF Visited
  <2> QED BY <1>5, <2>1, <2>2, GateOfPage DEF PagePaths
<1> QED BY <1>1, <1>2, <1>3, <1>4, <1>5 DEF Areas

\* What the tab's page offers, by how it is drawn.
LEMMA DrawnHere ==
    ASSUME SiteTypeOK, page \in Visited(area)
    PROVE  /\ GetLogin(page) # "none" =>
                 /\ area # "staff"
                 /\ \A f \in Drawn(page, TRUE) : Fits(f) /\ AtHome(f) /\ f.token \in {"admin", "owner"}
           /\ page \in {"/receipts", "/terminal"} =>
                 \A f \in Drawn(page, TRUE) : Fits(f) /\ AtHome(f) /\ f.token \in {"staff", "receipts"}
           /\ Tokened(page) =>
                 \A f \in Drawn(page, FALSE) : Fits(f) /\ AtHome(f) /\ f.token = "public"
           /\ ~Tokened(page) /\ GetLogin(page) = "none" =>
                 /\ area # "staff"
                 /\ page # "/" =>
                       \A f \in Drawn(page, FALSE) : Fits(f) /\ AtHome(f) /\ f.token = "none"
<1>0. area \in Areas
  BY TabIs
<1>1. ASSUME GetLogin(page) # "none"
      PROVE  /\ area # "staff"
             /\ \A f \in Drawn(page, TRUE) : Fits(f) /\ AtHome(f) /\ f.token \in {"admin", "owner"}
  <2>1. CASE area = "admin" /\ page \in AdminPages
    <3>1. \A f \in Drawn(page, TRUE) : Sound(f, AdminPosts, {"admin"})
      BY <2>1, DrawnForms, PlatformFormsFit DEF AdminPages
    <3> QED BY <2>1, <3>1, PathSets DEF Sound, AtHome
  <2>2. CASE area = "owner" /\ page \in OwnerPages
    <3>1. \A f \in Drawn(page, TRUE) : Sound(f, OwnerPosts, {"owner"})
      BY <2>2, DrawnForms, OwnerFormsFit DEF OwnerPages
    <3> QED BY <2>2, <3>1, PathSets DEF Sound, AtHome
  <2> QED BY <1>0, <1>1, <2>1, <2>2, AreaOfPage
<1>2. ASSUME page \in {"/receipts", "/terminal"}
      PROVE  \A f \in Drawn(page, TRUE) : Fits(f) /\ AtHome(f) /\ f.token \in {"staff", "receipts"}
  <2>1. CASE page = "/receipts"
    <3>1. area = "customer"
      BY <1>0, <2>1 DEF Visited, Areas
    <3>2. \A f \in Drawn(page, TRUE) : Sound(f, ReceiptPosts, {"receipts"})
      BY <2>1, DrawnForms, ReceiptFormsFit
    <3> QED BY <3>1, <3>2, PathSets DEF Sound, AtHome
  <2>2. CASE page = "/terminal"
    <3>1. area = "staff"
      BY <1>0, <2>2, AreaOfPage
    <3>2. \A f \in Drawn(page, TRUE) : Sound(f, StaffPosts, {"staff"})
      BY <2>2, DrawnForms, StaffFormsFit
    <3> QED BY <3>1, <3>2, PathSets DEF Sound, AtHome
  <2> QED BY <1>2, <2>1, <2>2
<1>3. ASSUME Tokened(page)
      PROVE  \A f \in Drawn(page, FALSE) : Fits(f) /\ AtHome(f) /\ f.token = "public"
  <2>1. CASE page = "/"
    <3>1. ~IsMarketingHost(host) /\ area \in {"platform", "customer"}
      BY <1>0, <1>3, <2>1, AreaOfPage, GateOfPage DEF Tokened
    <3>2. \A f \in Drawn(page, FALSE) : Sound(f, OpenPosts, {"public"})
      BY <2>1, DrawnForms, OpenFormsFit
    <3> QED BY <3>1, <3>2, PathSets DEF Sound, AtHome
  <2>2. CASE page = "/terminal"
    <3>1. area = "staff"
      BY <1>0, <2>2, AreaOfPage
    <3>2. Drawn(page, FALSE) = {PINForm} /\ PINForm.to = "/terminal/pin" /\ Sound(PINForm, OpenPosts, {"public"})
      BY <2>2, DrawnForms, OpenFormsFit DEF PINForm, Form
    <3> QED BY <3>1, <3>2, PathSets DEF Sound, AtHome
  <2>3. CASE page \in {"/receipts", "/reviews/{token}", "/owner/login", "/owner/forgot-password",
                      "/owner/reset-password"}
    <3>1. area \in {"customer", "owner"}
      BY <1>0, <2>3 DEF Visited, Areas
    <3>2. \A f \in Drawn(page, FALSE) : Sound(f, OpenPosts, {"public"})
      BY <2>3, DrawnForms, OpenFormsFit
    <3> QED BY <3>1, <3>2, PathSets DEF Sound, AtHome
  <2>4. CASE page = "/admin/login"
    <3>1. area = "admin"
      BY <1>0, <2>4 DEF Visited, Areas
    <3>2. \A f \in Drawn(page, FALSE) : Sound(f, {"/admin/login"}, {"public"})
      BY <2>4, DrawnForms, OpenFormsFit
    <3> QED BY <3>1, <3>2, PathSets DEF Sound, AtHome
  <2>5. CASE page = "/get-started"
    <3>1. area = "platform"
      BY <1>0, <2>5 DEF Visited, Areas
    <3>2. \A f \in Drawn(page, FALSE) : Sound(f, SignupPosts, {"public"})
      BY <2>5, DrawnForms, PlatformFormsFit
    <3> QED BY <2>5, <3>1, <3>2, PathSets DEF Sound, AtHome
  <2> QED BY <1>3, <2>1, <2>2, <2>3, <2>4, <2>5 DEF Tokened
<1>4. ASSUME ~Tokened(page), GetLogin(page) = "none"
      PROVE  /\ area # "staff"
             /\ page # "/" =>
                   \A f \in Drawn(page, FALSE) : Fits(f) /\ AtHome(f) /\ f.token = "none"
  <2>1. area # "staff"
    BY <1>0, <1>4, AreaOfPage DEF Tokened
  <2>2. page \notin AdminPages /\ page \notin OwnerPages
    BY <1>4, GateOfPage
  <2>3. CASE page = "/help/{category}/{article}"
    <3>1. area = "platform"
      BY <1>0, <2>3 DEF Visited, Areas
    <3>2. \A f \in Drawn(page, FALSE) : Sound(f, {"/help/feedback"}, {"none"})
      BY <2>3, DrawnForms, PlatformFormsFit
    <3> QED BY <3>1, <3>2, PathSets DEF Sound, AtHome
  <2>4. CASE page \in {"/pricing", "/login", "/tickets/{reference}/callback"}
    <3>1. Drawn(page, FALSE) = {}
      BY <2>4, DrawnForms
    <3> QED BY <2>1, <3>1
  <2>5. page \in {"/", "/help/{category}/{article}", "/pricing", "/login", "/tickets/{reference}/callback"}
    BY <1>0, <1>4, <2>2, AreaOfPage DEF Tokened, PagePaths, PlatformPages, OpenPages, EntryPages, TenantPages
  <2> QED BY <2>1, <2>3, <2>4, <2>5
<1> QED BY <1>1, <1>2, <1>3, <1>4
----------------------------------------------------------------------------
(* A request at the server. *)

LEMMA PostedIs ==
    ASSUME NEW f, Fits(f)
    PROVE  f # Unposted
<1>1. "" \notin PlatformPosts \cup TenantPosts
  BY DEF PlatformPosts, TenantPosts, AdminPosts, SignupPosts, StaffPosts, OwnerPosts, ReceiptPosts,
         OpenPosts
<1>2. Unposted.to = ""
  BY DEF Unposted, Form
<1> QED BY <1>1, <1>2 DEF Fits

LEMMA GetHere ==
    ASSUME UnderWay, doing \in {"get", "passed"}
    PROVE  /\ Method = "GET" /\ Path = page /\ page \in Visited(area)
           /\ \A r \in RoutesHere : r \in Routes /\ r.gate = GetGate(page) /\ r.login = GetLogin(page)
<1>1. Method = "GET" /\ Path = page /\ page \in Visited(area)
  BY DEF UnderWay, Method, Path
<1> QED BY <1>1, GetRoutes DEF RoutesHere, FitsPage

LEMMA PostHere ==
    ASSUME UnderWay, Offers, doing = "post"
    PROVE  /\ Method = "POST" /\ Path = posted.to /\ page \in Visited(area)
           /\ Fits(posted) /\ AtHome(posted) /\ TokensInStep(posted)
           /\ \A r \in RoutesHere : r \in Routes /\ r.path = posted.to /\ FitsPath(r)
<1>1. page \in Visited(area) /\ Fits(posted) /\ AtHome(posted) /\ TokensInStep(posted)
  BY DEF UnderWay, Offers
<1>2. Method = "POST" /\ Path = posted.to
  BY <1>1, PostedIs DEF Method, Path
<1> QED BY <1>1, <1>2, PostRoutes DEF RoutesHere

\* The tab stays where it is while the server answers, and its request is over.
Answered == doing' \in {"shown", "blank"} /\ UNCHANGED <<host, area, status, page, seen>>

LEMMA ServeAnswers ==
    ASSUME NEW r \in RoutesHere, Serve(r)
    PROVE  /\ doing \in {"get", "passed", "post"}
           /\ Answered \/ (ServeTenantOrReview(r) /\ doing' = "passed" /\ UNCHANGED <<answer, forms, posted, cookies, embedded>>)
<1>1. CASE ServeTenantOrReview(r)
  BY <1>1 DEF ServeTenantOrReview, Leaves, Answered
<1>2. CASE NotSignedIn(r)
  BY <1>2 DEF NotSignedIn, Leaves, Answered, Arrived
<1>0. CASE LookupFails(r)
  BY <1>0 DEF LookupFails, Leaves, Answered
<1>3. CASE ShowSignedIn(r)
  BY <1>3, ShownAnswers DEF ShowSignedIn, Answered, Arrived
<1>4. CASE ShowPlain(r)
  BY <1>4, ShownAnswers DEF ShowPlain, Answered, Arrived
<1>5. CASE ShowPublic(r)
  BY <1>5, ShownAnswers DEF ShowPublic, Answered, Arrived
<1>6. CASE Forbidden(r)
  BY <1>6 DEF Forbidden, Checked, Leaves, Answered, Arrived
<1>7. CASE Redrawn(r)
  BY <1>7 DEF Redrawn, Passes, Checked, Shows, Answered, Arrived
<1>8. CASE LoggedIn(r)
  BY <1>8 DEF LoggedIn, Passes, Checked, Shows, Leaves, Answered, Arrived
<1>9. CASE LoggedOut(r)
  BY <1>9 DEF LoggedOut, Passes, Checked, Shows, Leaves, Answered, Arrived
<1>10. CASE Done(r)
  BY <1>10 DEF Done, Passes, Checked, Leaves, Answered, Arrived
<1> QED BY <1>0, <1>1, <1>2, <1>3, <1>4, <1>5, <1>6, <1>7, <1>8, <1>9, <1>10 DEF Serve

LEMMA NotFoundAnswers ==
    ASSUME NotFound
    PROVE  doing \in {"get", "passed", "post"} /\ Answered
BY DEF NotFound, Leaves, Answered

\* What happens elsewhere to the cookies and sessions is a cause.
LEMMA ElsewhereIs ==
    ASSUME SiteTypeOK,
           \/ SignInElsewhere \/ SignOutElsewhere \/ (\E t \in alive : SessionLapses(t))
           \/ MintElsewhere \/ PublicLapses
    PROVE  /\ UNCHANGED <<host, area, status, doing, page, forms, posted, cookies, embedded, answer, seen>>
           /\ causes \subseteq causes'
           /\ "session" \in causes' \/ (jar'.session = jar.session /\ alive' = alive)
           /\ "cookie" \in causes' \/ (jar'.public = jar.public /\ minted' = minted)
<1>0. jar \in Tokens
  BY DEF SiteTypeOK
<1>1. CASE SignInElsewhere
  <2>1. jar' = [jar EXCEPT !.session = logins + 1]
    BY <1>1 DEF SignInElsewhere
  <2> QED BY <1>0, <1>1, <2>1, Replaced DEF SignInElsewhere, Elsewhere
<1>2. CASE SignOutElsewhere
  <2>1. jar' = [jar EXCEPT !.session = 0]
    BY <1>2 DEF SignOutElsewhere
  <2> QED BY <1>0, <1>2, <2>1, Replaced DEF SignOutElsewhere, Elsewhere
<1>3. CASE \E t \in alive : SessionLapses(t)
  <2>1. jar'.public = jar.public
    <3>1. PICK t \in alive : SessionLapses(t)
      BY <1>3
    <3> DEFINE x == IF jar.session = t THEN 0 ELSE jar.session
    <3>2. jar' = jar \/ jar' = [jar EXCEPT !.session = x]
      BY <3>1 DEF SessionLapses
    <3> HIDE DEF x
    <3>3. [jar EXCEPT !.session = x].public = jar.public
      BY <1>0, Replaced
    <3> QED BY <3>2, <3>3
  <2> QED BY <1>3, <2>1 DEF SessionLapses, Elsewhere
<1>4. CASE MintElsewhere
  <2>1. jar'.session = jar.session
    BY <1>0, <1>4, Replaced DEF MintElsewhere
  <2> QED BY <1>4, <2>1 DEF MintElsewhere, Elsewhere
<1>5. CASE PublicLapses
  <2>1. jar'.session = jar.session
    BY <1>0, <1>5, Replaced DEF PublicLapses
  <2> QED BY <1>5, <2>1 DEF PublicLapses, Elsewhere
<1> QED BY <1>1, <1>2, <1>3, <1>4, <1>5
----------------------------------------------------------------------------
(* The invariant holds. *)

LEMMA UnderWayStep ==
    ASSUME SiteTypeOK, UnderWay, SiteNext
    PROVE  UnderWay'
<1>1. ASSUME Answered, doing # "blank"
      PROVE  UnderWay'
  BY <1>1 DEF Answered, UnderWay
<1>2. CASE \E p \in Visited(area) : Ask(p)
  BY <1>2 DEF Ask, UnderWay
<1>3. CASE \E f \in forms : Submit(f)
  BY <1>3 DEF Submit, UnderWay
<1>4. ASSUME NEW r \in RoutesHere, Serve(r)
      PROVE  UnderWay'
  <2>1. CASE Answered
    BY <2>1, <1>1, <1>4, ServeAnswers
  <2>2. CASE ServeTenantOrReview(r) /\ doing' = "passed" /\ UNCHANGED <<answer, forms, posted, cookies, embedded>>
    BY <2>2 DEF ServeTenantOrReview, UnderWay
  <2> QED BY <1>4, <2>1, <2>2, ServeAnswers
<1>5. CASE NotFound
  BY <1>1, <1>5, NotFoundAnswers
<1>6. CASE \E s \in SiteStatuses : PlantBecomes(s)
  BY <1>6 DEF PlantBecomes, UnderWay
<1>7. CASE \/ SignInElsewhere \/ SignOutElsewhere \/ (\E t \in alive : SessionLapses(t))
          \/ MintElsewhere \/ PublicLapses
  <2>1. /\ UNCHANGED <<host, area, status, doing, page, forms, posted, cookies, embedded, answer, seen>>
        /\ causes \subseteq causes'
        /\ "session" \in causes' \/ (jar'.session = jar.session /\ alive' = alive)
        /\ "cookie" \in causes' \/ (jar'.public = jar.public /\ minted' = minted)
    BY <1>7, ElsewhereIs
  <2> QED BY <2>1 DEF UnderWay
<1> QED BY <1>2, <1>3, <1>4, <1>5, <1>6, <1>7 DEF SiteNext

LEMMA MintedStep ==
    ASSUME SiteTypeOK, Minted, SiteNext
    PROVE  Minted'
<1>0. /\ jar \in Tokens /\ cookies \in Tokens /\ minted \in Nat
      /\ jar.public \in Nat /\ cookies.public \in Nat /\ NoCookies.public = 0
  <2>1. jar \in Tokens /\ cookies \in Tokens /\ minted \in 0..MaxMinted
    BY DEF SiteTypeOK
  <2>2. /\ jar.public \in 0..MaxMinted /\ cookies.public \in 0..MaxMinted
        /\ NoCookies.public = 0
    BY <2>1, TokenPairs
  <2> QED BY <2>1, <2>2
<1>1. ASSUME jar'.public = jar.public, minted' = minted, cookies' = NoCookies \/ cookies' = cookies \/ cookies' = jar
      PROVE  Minted'
  BY <1>0, <1>1 DEF Minted
<1>2. CASE (\E p \in Visited(area) : Ask(p)) \/ (\E f \in forms : Submit(f))
  BY <1>1, <1>2 DEF Ask, Submit
<1>3. ASSUME NEW r \in RoutesHere, Serve(r)
      PROVE  Minted'
  <2>0. CASE LookupFails(r)
    BY <2>0, <1>1 DEF LookupFails, Leaves
  <2>1. CASE ServeTenantOrReview(r)
    BY <2>1, <1>1 DEF ServeTenantOrReview, Leaves
  <2>2. CASE NotSignedIn(r)
    <3>1. jar'.public = jar.public
      BY <1>0, <2>2, Replaced DEF NotSignedIn
    <3> QED BY <1>1, <2>2, <3>1 DEF NotSignedIn, Leaves
  <2>3. CASE ShowSignedIn(r)
    <3>1. jar'.public = jar.public
      BY <1>0, <2>3, Replaced DEF ShowSignedIn
    <3>2. cookies' = NoCookies
      BY <2>3, ShownAnswers DEF ShowSignedIn
    <3> QED BY <1>1, <2>3, <3>1, <3>2 DEF ShowSignedIn
  <2>4. CASE ShowPlain(r)
    BY <2>4, <1>1, ShownAnswers DEF ShowPlain
  <2>5. CASE ShowPublic(r)
    <3>0. \E fs, tokens, resumed : ShowsUnless(fs, tokens, resumed)
      BY <2>5 DEF ShowPublic
    <3>a. cookies' = NoCookies
      BY <3>0, ShownAnswers
    <3>1. /\ minted' = IF EnsurePublicCSRFCookie > minted THEN minted + 1 ELSE minted
          /\ jar'.public = IF EnsurePublicCSRFCookie > minted THEN EnsurePublicCSRFCookie ELSE jar.public
      BY <2>5 DEF ShowPublic
    <3>2. EnsurePublicCSRFCookie \in {cookies.public, minted + 1}
      BY DEF EnsurePublicCSRFCookie
    <3> QED BY <1>0, <3>a, <3>1, <3>2 DEF Minted
  <2>6. CASE Forbidden(r) \/ Done(r)
    <3>1. Rewritten(r).public = jar.public
      BY <1>0, Replaced DEF Rewritten
    <3>2. jar' = Rewritten(r) /\ cookies' = NoCookies /\ minted' = minted
      BY <2>6 DEF Forbidden, Done, Leaves
    <3> QED BY <1>1, <3>1, <3>2
  <2>7. CASE Redrawn(r)
    BY <2>7, <1>1 DEF Redrawn, Shows
  <2>8. CASE LoggedIn(r)
    <3>1. jar'.public = jar.public
      BY <1>0, <2>8, Replaced DEF LoggedIn
    <3> QED BY <1>1, <2>8, <3>1 DEF LoggedIn, Shows, Leaves
  <2>9. CASE LoggedOut(r)
    <3>1. jar'.public = jar.public
      BY <1>0, <2>9, Replaced DEF LoggedOut
    <3> QED BY <1>1, <2>9, <3>1 DEF LoggedOut, Shows, Leaves
  <2> QED BY <1>3, <2>0, <2>1, <2>2, <2>3, <2>4, <2>5, <2>6, <2>7, <2>8, <2>9 DEF Serve
<1>4. CASE NotFound
  BY <1>1, <1>4 DEF NotFound, Leaves
<1>5. CASE \E s \in SiteStatuses : PlantBecomes(s)
  BY <1>1, <1>5 DEF PlantBecomes
<1>6. CASE SignInElsewhere
  <2>1. jar'.public = jar.public
    BY <1>0, <1>6, Replaced DEF SignInElsewhere
  <2> QED BY <1>1, <1>6, <2>1 DEF SignInElsewhere, Elsewhere
<1>7. CASE SignOutElsewhere
  <2>1. jar'.public = jar.public
    BY <1>0, <1>7, Replaced DEF SignOutElsewhere
  <2> QED BY <1>1, <1>7, <2>1 DEF SignOutElsewhere, Elsewhere
<1>8. ASSUME NEW t \in alive, SessionLapses(t)
      PROVE  Minted'
  <2> DEFINE x == IF jar.session = t THEN 0 ELSE jar.session
  <2>1. jar' = jar \/ jar' = [jar EXCEPT !.session = x]
    BY <1>8 DEF SessionLapses
  <2> HIDE DEF x
  <2>2. jar'.public = jar.public
    <3>1. [jar EXCEPT !.session = x].public = jar.public
      BY <1>0, Replaced
    <3> QED BY <2>1, <3>1
  <2> QED BY <1>1, <1>8, <2>2 DEF SessionLapses, Elsewhere
<1>9. CASE MintElsewhere
  <2>1. jar'.public = minted + 1
    BY <1>0, <1>9, Replaced DEF MintElsewhere
  <2> QED BY <1>0, <1>9, <2>1 DEF MintElsewhere, Elsewhere, Minted
<1>10. CASE PublicLapses
  <2>1. jar'.public = 0
    BY <1>0, <1>10, Replaced DEF PublicLapses
  <2> QED BY <1>0, <1>10, <2>1 DEF PublicLapses, Elsewhere, Minted
<1> QED BY <1>2, <1>3, <1>4, <1>5, <1>6, <1>7, <1>8, <1>9, <1>10 DEF SiteNext
\* The same forms, while nothing happens to their tokens that is not a cause.
LEMMA OffersKept ==
    ASSUME Offers, forms' = {} \/ (forms' = forms /\ embedded' = embedded),
           UNCHANGED <<host, area, page>>, causes \ Faults \subseteq causes',
           \/ "session" \in causes'
           \/ jar'.session = jar.session /\ (jar.session \in alive => jar.session \in alive'),
           "cookie" \in causes' \/ jar'.public = jar.public
    PROVE  Offers'
<1> SUFFICES ASSUME NEW f \in forms'
             PROVE  (Fits(f) /\ AtHome(f) /\ TokensInStep(f))'
  BY DEF Offers
<1>1. Fits(f) /\ AtHome(f) /\ TokensInStep(f) /\ embedded' = embedded
  BY DEF Offers
<1>2. Fits(f)' /\ AtHome(f)'
  BY <1>1 DEF Fits, AtHome
<1>3. TokensInStep(f)'
  <2>1. /\ "session" \notin causes' => "session" \notin causes
        /\ "cookie" \notin causes' => "cookie" \notin causes
    BY DEF Faults
  <2> QED BY <1>1, <2>1 DEF TokensInStep
<1> QED BY <1>2, <1>3

\* Other forms, with tokens of their own.
LEMMA OffersNew ==
    ASSUME UNCHANGED <<host, area, page>>, \A f \in forms' : Fits(f) /\ AtHome(f),
           \A f \in forms' : f.token \in SessionTokens /\ "session" \notin causes' =>
                                 embedded'.session = jar'.session /\ jar'.session \in alive',
           \A f \in forms' : (f.token = "public" \/ area = "staff") /\ "cookie" \notin causes' =>
                                 embedded'.public = jar'.public /\ jar'.public # 0
    PROVE  Offers'
<1> SUFFICES ASSUME NEW f \in forms'
             PROVE  (Fits(f) /\ AtHome(f) /\ TokensInStep(f))'
  BY DEF Offers
<1>1. Fits(f)' /\ AtHome(f)'
  BY DEF Fits, AtHome
<1>2. TokensInStep(f)'
  BY DEF TokensInStep
<1> QED BY <1>1, <1>2

\* What a login or a lookup draws again is at home where its form was.
LEMMA RedrawnHere ==
    ASSUME AtHome(posted), NEW fs \in RedrawnForms(posted.to)
    PROVE  /\ \A f \in fs : Fits(f) /\ AtHome(f) /\ f.token = "public"
           /\ LoginOf(posted.to) = "none" /\ posted.to # "/help/feedback" /\ area # "staff"
<1>1. ASSUME posted.to \in {"/receipts/lookup", "/receipts/verify", "/owner/login"},
             fs \in {{LookupForm}, VerifyForms, {OwnerLoginForm}}
      PROVE  /\ \A f \in fs : Fits(f) /\ AtHome(f) /\ f.token = "public"
             /\ LoginOf(posted.to) = "none" /\ posted.to # "/help/feedback" /\ area # "staff"
  <2>1. posted.to \in OpenPosts /\ posted.to # "/terminal/pin" /\ posted.to # "/help/feedback"
    BY <1>1 DEF OpenPosts
  <2>2. \A f \in fs : Sound(f, OpenPosts, {"public"})
    BY <1>1, OpenFormsFit
  <2>3. LoginOf(posted.to) = "none" /\ posted.to \notin StaffPosts
    BY <2>1, LoginOfPath
  <2>4. area # "staff" /\ ~(IsMarketingHost(host) /\ area \in {"platform", "admin"})
    BY <2>1, <2>3, PathSets DEF AtHome
  <2> QED BY <2>1, <2>2, <2>3, <2>4, PathSets DEF AtHome, Sound
<1>2. ASSUME posted.to = "/admin/login", fs = {AdminLoginForm}
      PROVE  /\ \A f \in fs : Fits(f) /\ AtHome(f) /\ f.token = "public"
             /\ LoginOf(posted.to) = "none" /\ posted.to # "/help/feedback" /\ area # "staff"
  <2>1. \A f \in fs : Sound(f, {"/admin/login"}, {"public"})
    BY <1>2, OpenFormsFit
  <2>2. LoginOf(posted.to) = "none" /\ posted.to \notin TenantPosts
    BY <1>2, LoginOfPath, PathSets
  <2>3. area \notin {"customer", "staff", "owner"}
    BY <2>2 DEF AtHome
  <2> QED BY <1>2, <2>1, <2>2, <2>3, PathSets DEF AtHome, Sound
<1>3. ASSUME posted.to \in SignupPosts, fs = Drawn("/get-started", FALSE)
      PROVE  /\ \A f \in fs : Fits(f) /\ AtHome(f) /\ f.token = "public"
             /\ LoginOf(posted.to) = "none" /\ posted.to # "/help/feedback" /\ area # "staff"
  <2>1. \A f \in fs : Sound(f, SignupPosts, {"public"})
    BY <1>3, DrawnForms, PlatformFormsFit
  <2>2. LoginOf(posted.to) = "none" /\ posted.to \notin TenantPosts /\ posted.to # "/help/feedback"
    BY <1>3, LoginOfPath, PathSets
  <2>3. area \notin {"customer", "staff", "owner"} /\ page = "/get-started"
    BY <1>3, <2>2 DEF AtHome
  <2> QED BY <2>1, <2>2, <2>3, PathSets DEF AtHome, Sound
<1>4. \/ posted.to \in {"/receipts/lookup", "/receipts/verify"} /\ fs \in {{LookupForm}, VerifyForms}
      \/ posted.to = "/owner/login" /\ fs = {OwnerLoginForm}
      \/ posted.to = "/admin/login" /\ fs = {AdminLoginForm}
      \/ posted.to \in SignupPosts /\ fs = Drawn("/get-started", FALSE)
  BY DEF RedrawnForms, SignupPosts
<1> QED BY <1>1, <1>2, <1>3, <1>4

\* A form that asks for a session carries its token.
LEMMA SessionToken ==
    ASSUME NEW f, Fits(f), LoginOf(f.to) # "none"
    PROVE  f.token = LoginOf(f.to) /\ f.token \in SessionTokens
<1>1. f.to # "/help/feedback"
  BY LoginOfPath
<1> QED BY <1>1 DEF Fits, TokenOf, LoginOf, SessionTokens

LEMMA LeavesForms ==
    ASSUME NEW how, Leaves(how)
    PROVE  \/ forms' = {} /\ ~(area = "staff" /\ Method = "POST")
           \/ forms' = forms /\ embedded' = embedded /\ area = "staff" /\ Method = "POST"
BY DEF Leaves
LEMMA OffersStep ==
    ASSUME SiteTypeOK, Minted, UnderWay, Offers, SiteNext
    PROVE  Offers'
<1>0. /\ jar \in Tokens /\ cookies \in Tokens /\ embedded \in Tokens /\ area \in Areas
      /\ minted \in Nat /\ cookies.public \in Nat
  <2>1. jar \in Tokens /\ cookies \in Tokens /\ embedded \in Tokens /\ minted \in 0..MaxMinted
    BY DEF SiteTypeOK
  <2>2. cookies.public \in 0..MaxMinted
    BY <2>1, TokenPairs
  <2> QED BY <2>1, <2>2, TabIs
<1>1. CASE \E p \in Visited(area) : Ask(p)
  BY <1>1 DEF Ask, Offers
<1>2. CASE \E f \in forms : Submit(f)
  BY <1>2, OffersKept DEF Submit
<1>3. ASSUME NEW r \in RoutesHere, Serve(r)
      PROVE  Offers'
  <2>0. CASE LookupFails(r)
    BY <2>0, LeavesForms, OffersKept DEF LookupFails
  <2>1. CASE ServeTenantOrReview(r)
    BY <2>1, OffersKept DEF ServeTenantOrReview, Leaves
  <2>a. ASSUME NEW how, Leaves(how), Method = "GET"
        PROVE  Offers'
    BY <2>a, LeavesForms DEF Offers
  <2>2. CASE NotSignedIn(r)
    <3>1. PICK how : Leaves(how)
      BY <2>2 DEF NotSignedIn
    <3>2. CASE forms' = {}
      BY <3>2 DEF Offers
    <3>3. CASE forms' = forms /\ embedded' = embedded /\ Method = "POST"
      <4>1. doing = "post"
        BY <2>2, <3>3, GetHere DEF NotSignedIn, Arrived
      <4>2. Fits(posted) /\ TokensInStep(posted) /\ r.login # "none" /\ r.login = LoginOf(posted.to)
        BY <2>2, <4>1, PostHere DEF NotSignedIn, FitsPath
      <4>3. posted.token \in SessionTokens
        BY <4>2, SessionToken
      <4>4. "session" \notin causes => cookies.session \in alive
        BY <4>1, <4>2, <4>3 DEF TokensInStep, UnderWay
      <4>5. "session" \in causes' /\ causes \subseteq causes'
        BY <4>4, <2>2 DEF NotSignedIn
      <4>6. jar'.public = jar.public
        BY <1>0, <2>2, Replaced DEF NotSignedIn
      <4> QED BY <2>2, <3>3, <4>5, <4>6, OffersKept DEF NotSignedIn
    <3> QED BY <3>1, <3>2, <3>3, LeavesForms
  <2>3. CASE ShowSignedIn(r)
    <3>1. doing \in {"get", "passed"}
      BY <2>3, PostHere DEF ShowSignedIn, Arrived
    <3>2. GetLogin(page) # "none" /\ page \in Visited(area)
      BY <2>3, <3>1, GetHere DEF ShowSignedIn
    <3> DEFINE tokens == [public |-> 0, session |-> cookies.session]
    <3>a. ShowsUnless(Drawn(page, TRUE), tokens, TRUE) /\ Method = "GET"
      BY <2>3 DEF ShowSignedIn
    <3>b. SUFFICES ASSUME Shows(Drawn(page, TRUE), tokens)
                   PROVE  Offers'
      BY <2>a, <3>a, ShownOrNot
    <3>3. /\ forms' = Drawn(page, TRUE) /\ embedded' = [public |-> 0, session |-> cookies.session]
          /\ cookies.session \in alive /\ alive' = alive
          /\ UNCHANGED <<host, area, page>>
      BY <2>3, <3>b DEF ShowSignedIn, Shows, SignedIn
    <3>4. jar'.session = cookies.session /\ embedded'.session = cookies.session
      BY <1>0, <2>3, <3>3, Replaced DEF ShowSignedIn
    <3>5. area # "staff" /\ \A f \in forms' : Fits(f) /\ AtHome(f) /\ f.token # "public"
      BY <3>2, <3>3, DrawnHere
    <3> QED BY <3>3, <3>4, <3>5, OffersNew
  <2>4. CASE ShowPlain(r)
    <3>1. doing \in {"get", "passed"}
      BY <2>4, PostHere DEF ShowPlain, Arrived
    <3>2. GetLogin(page) = "none" /\ page \in Visited(area)
      BY <2>4, <3>1, GetHere DEF ShowPlain
    <3> DEFINE fs == IF page = "/" THEN {} ELSE Drawn(page, FALSE)
    <3>a. ShowsUnless(fs, NoCookies, FALSE) /\ Method = "GET"
      BY <2>4 DEF ShowPlain
    <3>b. SUFFICES ASSUME Shows(fs, NoCookies)
                   PROVE  Offers'
      BY <2>a, <3>a, ShownOrNot
    <3>3. /\ ~Tokened(page) /\ forms' = IF page = "/" THEN {} ELSE Drawn(page, FALSE)
          /\ UNCHANGED <<host, area, page>>
      BY <2>4, <3>b DEF ShowPlain, Shows
    <3>4. area # "staff" /\ \A f \in forms' : Fits(f) /\ AtHome(f) /\ f.token = "none"
      BY <3>2, <3>3, DrawnHere
    <3>5. "none" \notin SessionTokens
      BY DEF SessionTokens
    <3> QED BY <3>3, <3>4, <3>5, OffersNew
  <2>5. CASE ShowPublic(r)
    <3>1. doing \in {"get", "passed"}
      BY <2>5, PostHere DEF ShowPublic, Arrived
    <3>2. page \in Visited(area) /\ Tokened(page)
      BY <2>5, <3>1, GetHere DEF ShowPublic
    <3> DEFINE E == EnsurePublicCSRFCookie
    <3>4. PICK current \in {SignedIn, FALSE} :
            LET resumed == current /\ page \in {"/receipts", "/terminal"}
            IN /\ jar' = [public |-> IF E > minted THEN E ELSE jar.public,
                          session |-> IF resumed THEN cookies.session
                                      ELSE IF page = "/terminal" /\ cookies.session # 0
                                           THEN 0 ELSE jar.session]
               /\ ShowsUnless(Drawn(page, resumed),
                              [public |-> E, session |-> IF resumed THEN cookies.session ELSE 0],
                              resumed)
      BY <2>5 DEF ShowPublic
    <3> DEFINE resumed == current /\ page \in {"/receipts", "/terminal"}
               tokens == [public |-> E, session |-> IF resumed THEN cookies.session ELSE 0]
    <3>a. ShowsUnless(Drawn(page, resumed), tokens, resumed) /\ Method = "GET"
      BY <2>5, <3>4 DEF ShowPublic
    <3>b. SUFFICES ASSUME Shows(Drawn(page, resumed), tokens), causes' = causes
                   PROVE  Offers'
      <4> HIDE DEF resumed, tokens
      <4> QED BY <2>a, <3>a, ShownOrNot
    <3>3. /\ alive' = alive /\ causes' = causes /\ UNCHANGED <<host, area, page>>
          /\ E \in {cookies.public, minted + 1} /\ (cookies.public # 0 => E = cookies.public)
          /\ (cookies.public = 0 => E = minted + 1)
      BY <2>5, <3>b DEF ShowPublic, EnsurePublicCSRFCookie
    <3>5. jar'.public = IF E > minted THEN E ELSE jar.public
      BY <3>4
    <3>6. embedded'.public = E
      BY <3>b DEF Shows
    <3>7. "cookie" \notin causes => E = jar'.public /\ E # 0
      <4>1. "cookie" \notin causes => cookies.public = jar.public
        BY <3>1 DEF UnderWay
      <4> HIDE DEF E
      <4> QED BY <1>0, <3>3, <3>5, <4>1 DEF Minted
    <3>8. CASE current /\ page \in {"/receipts", "/terminal"}
      <4>1. forms' = Drawn(page, TRUE) /\ embedded'.session = cookies.session
        BY <3>b, <3>8 DEF Shows
      <4>2. jar'.session = cookies.session /\ cookies.session \in alive
        BY <3>4, <3>8 DEF SignedIn
      <4>3. "session" \notin causes => cookies.session = jar.session
        BY <3>1 DEF UnderWay
      <4>4. \A f \in forms' : Fits(f) /\ AtHome(f)
        BY <3>2, <3>8, <4>1, DrawnHere
      <4> HIDE DEF E
      <4> QED BY <3>3, <3>6, <3>7, <4>1, <4>2, <4>3, <4>4, OffersNew
    <3>9. CASE ~(current /\ page \in {"/receipts", "/terminal"})
      <4>1. forms' = Drawn(page, FALSE)
        BY <3>b, <3>9 DEF Shows
      <4>2. \A f \in forms' : Fits(f) /\ AtHome(f) /\ f.token = "public"
        BY <3>2, <4>1, DrawnHere
      <4>3. "public" \notin SessionTokens
        BY DEF SessionTokens
      <4> HIDE DEF E
      <4> QED BY <3>3, <3>6, <3>7, <4>2, <4>3, OffersNew
    <3> QED BY <3>8, <3>9
  <2>6. CASE Forbidden(r) \/ Done(r)
    <3>1. /\ jar' = Rewritten(r) /\ alive' = alive /\ causes' = causes /\ UNCHANGED <<host, area, page>>
          /\ \E how : Leaves(how)
      BY <2>6 DEF Forbidden, Done
    <3>2. doing = "post"
      BY <2>6, GetHere DEF Forbidden, Done, Passes, Checked, Arrived
    <3>3. "session" \notin causes => cookies.session = jar.session
      BY <3>2 DEF UnderWay
    <3>4. jar'.public = jar.public /\ ("session" \notin causes => jar'.session = jar.session)
      BY <1>0, <3>1, <3>3, Replaced DEF Rewritten
    <3> QED BY <3>1, <3>4, LeavesForms, OffersKept
  <2>7. CASE Redrawn(r)
    <3>1. doing = "post"
      BY <2>7, GetHere DEF Redrawn, Passes, Checked, Arrived
    <3>2. AtHome(posted) /\ FitsPath(r) /\ r.path = posted.to
      BY <3>1, PostHere
    <3>3. PICK fs \in RedrawnForms(posted.to) : Shows(fs, [public |-> cookies.public, session |-> 0])
      BY <2>7 DEF Redrawn
    <3>4. /\ \A f \in fs : Fits(f) /\ AtHome(f) /\ f.token = "public"
          /\ LoginOf(posted.to) = "none" /\ posted.to # "/help/feedback" /\ area # "staff"
      BY <3>2, RedrawnHere
    <3>5. r.login = "none" /\ r.csrf = "checked"
      BY <3>2, <3>4 DEF FitsPath
    <3>6. cookies.public # 0
      BY <2>7, <3>5 DEF Redrawn, Passes, Verified
    <3>7. "cookie" \notin causes => cookies.public = jar.public
      BY <3>1 DEF UnderWay
    <3>8. /\ forms' = fs /\ embedded'.public = cookies.public
          /\ jar' = jar /\ causes' = causes /\ UNCHANGED <<host, area, page>>
      BY <2>7, <3>3 DEF Redrawn, Shows
    <3>9. "public" \notin SessionTokens
      BY DEF SessionTokens
    <3> QED BY <3>4, <3>6, <3>7, <3>8, <3>9, OffersNew
  <2>8. CASE LoggedIn(r)
    <3>1. doing = "post"
      BY <2>8, GetHere DEF LoggedIn, Passes, Checked, Arrived
    <3>2. Fits(posted) /\ AtHome(posted) /\ TokensInStep(posted)
      BY <3>1, PostHere
    <3>3. UNCHANGED <<host, area, page>> /\ posted.to \in LoginPaths
      BY <2>8 DEF LoggedIn
    <3>4. CASE posted.to = "/terminal/pin"
      <4>1. /\ forms' = TerminalForms /\ embedded' = [embedded EXCEPT !.session = logins + 1]
            /\ jar' = [jar EXCEPT !.session = logins + 1] /\ alive' = alive \cup {logins + 1}
            /\ causes' = causes \ {"session"}
        BY <2>8, <3>4 DEF LoggedIn, Shows
      <4>2. /\ embedded'.session = logins + 1 /\ jar'.session = logins + 1
            /\ embedded'.public = embedded.public /\ jar'.public = jar.public
        BY <1>0, <4>1, Replaced
      <4>3. \A f \in forms' : Sound(f, StaffPosts, {"staff"})
        BY <4>1, StaffFormsFit
      <4>4. ~(IsMarketingHost(host) /\ area \in {"platform", "admin"})
        BY <3>2, <3>4, PathSets DEF AtHome
      <4>5. \A f \in forms' : Fits(f) /\ AtHome(f) /\ f.token = "staff"
        BY <4>3, <4>4, PathSets DEF Sound, AtHome
      <4>6. area = "staff" /\ "cookie" \notin causes' => embedded.public = jar.public /\ jar.public # 0
        BY <3>2, <4>1 DEF TokensInStep
      <4> QED BY <3>3, <4>1, <4>2, <4>5, <4>6, OffersNew
    <3>5. CASE posted.to # "/terminal/pin"
      <4>1. \E how : Leaves(how)
        BY <2>8, <3>5 DEF LoggedIn
      <4>2. posted.to \notin StaffPosts
        BY <3>3, LoginOfPath DEF LoginPaths, OpenPosts
      <4>3. area # "staff"
        BY <3>2, <3>5, <4>2 DEF AtHome
      <4> QED BY <4>1, <4>3, LeavesForms DEF Offers
    <3> QED BY <3>4, <3>5
  <2>9. CASE LoggedOut(r)
    <3>1. doing = "post"
      BY <2>9, GetHere DEF LoggedOut, Passes, Checked, Arrived
    <3>2. TokensInStep(posted)
      BY <3>1, PostHere
    <3>3. /\ UNCHANGED <<host, area, page>> /\ causes' = causes \cup {"session"}
          /\ jar' = [jar EXCEPT !.session = 0]
      BY <2>9 DEF LoggedOut
    <3>4. CASE area = "staff"
      <4>1. forms' = {PINForm} /\ embedded' = [embedded EXCEPT !.session = 0]
        BY <2>9, <3>4 DEF LoggedOut, Shows
      <4>2. embedded'.public = embedded.public /\ jar'.public = jar.public
        BY <1>0, <3>3, <4>1, Replaced
      <4>3. PINForm.to = "/terminal/pin" /\ Sound(PINForm, OpenPosts, {"public"})
        BY OpenFormsFit DEF PINForm, Form
      <4>4. \A f \in forms' : Fits(f) /\ AtHome(f)
        BY <3>4, <4>1, <4>3, PathSets DEF Sound, AtHome
      <4>5. "cookie" \notin causes' => embedded.public = jar.public /\ jar.public # 0
        BY <3>2, <3>3, <3>4 DEF TokensInStep
      <4> QED BY <3>3, <4>2, <4>4, <4>5, OffersNew
    <3>5. CASE area # "staff"
      <4>1. \E how : Leaves(how)
        BY <2>9, <3>5 DEF LoggedOut
      <4> QED BY <3>5, <4>1, LeavesForms DEF Offers
    <3> QED BY <3>4, <3>5
  <2> QED BY <1>3, <2>0, <2>1, <2>2, <2>3, <2>4, <2>5, <2>6, <2>7, <2>8, <2>9 DEF Serve
<1>4. CASE NotFound
  BY <1>4, LeavesForms, OffersKept DEF NotFound
<1>5. CASE \E s \in SiteStatuses : PlantBecomes(s)
  BY <1>5, OffersKept DEF PlantBecomes
<1>6. CASE \/ SignInElsewhere \/ SignOutElsewhere \/ (\E t \in alive : SessionLapses(t))
          \/ MintElsewhere \/ PublicLapses
  BY <1>6, ElsewhereIs, OffersKept
<1> QED BY <1>1, <1>2, <1>3, <1>4, <1>5, <1>6 DEF SiteNext
LEMMA SiteInvHolds == SiteSpec => []SiteInv
<1>1. SiteInit => Minted /\ UnderWay /\ Offers
  <2>1. NoCookies.public = 0
    BY TokenPairs
  <2>2. SiteInit => jar = NoCookies /\ cookies = NoCookies /\ minted = 0 /\ doing = "blank" /\ forms = {}
    BY DEF SiteInit
  <2> QED BY <2>1, <2>2 DEF Minted, UnderWay, Offers
<1>2. SiteTypeOK /\ Minted /\ UnderWay /\ Offers /\ [SiteNext]_siteVars
        => (Minted /\ UnderWay /\ Offers)'
  <2>1. CASE SiteNext
    BY <2>1, MintedStep, UnderWayStep, OffersStep
  <2>2. CASE UNCHANGED siteVars
    BY <2>2 DEF siteVars, Minted, UnderWay, Offers, Fits, AtHome, TokensInStep
  <2> QED BY <2>1, <2>2
<1> QED BY <1>1, <1>2, SiteTypes, PTL DEF SiteSpec, SiteInv

----------------------------------------------------------------------------
(* What the tab is told. *)

\* A session that is not found behind a page or a form was there once, and ended or was changed.
LEMMA SignedOffForACause ==
    ASSUME SiteInv, NEW r \in RoutesHere, NotSignedIn(r)
    PROVE  "session" \in causes'
<1>1. doing \in {"get", "passed", "post"} /\ r.login # "none"
  BY DEF NotSignedIn, Arrived
<1>2. CASE doing \in {"get", "passed"}
  <2>1. "session" \notin causes => cookies.session \in alive
    BY <1>2 DEF SiteInv, UnderWay
  <2> QED BY <2>1 DEF NotSignedIn
<1>3. CASE doing = "post"
  <2>1. Fits(posted) /\ TokensInStep(posted) /\ r.login = LoginOf(posted.to)
    BY <1>3, PostHere DEF SiteInv, FitsPath
  <2>2. posted.token \in SessionTokens
    BY <1>1, <2>1, SessionToken
  <2>3. "session" \notin causes => cookies.session \in alive
    BY <1>3, <2>1, <2>2 DEF TokensInStep, SiteInv, UnderWay
  <2> QED BY <2>3 DEF NotSignedIn
<1> QED BY <1>1, <1>2, <1>3

\* A token that does not match is one that was replaced.
LEMMA ForbiddenForACause ==
    ASSUME SiteInv, NEW r \in RoutesHere, Forbidden(r)
    PROVE  IF r.login = "none" THEN "cookie" \in causes ELSE "session" \in causes
<1>1. doing = "post"
  BY GetHere DEF SiteInv, Forbidden, Checked, Arrived
<1>2. /\ Fits(posted) /\ TokensInStep(posted) /\ r.login = LoginOf(posted.to)
      /\ r.csrf = IF posted.to = "/help/feedback" THEN "unchecked" ELSE "checked"
  BY <1>1, PostHere DEF SiteInv, FitsPath
<1>3. /\ "session" \notin causes => cookies.session = jar.session
      /\ "cookie" \notin causes => cookies.public = jar.public
  BY <1>1 DEF SiteInv, UnderWay
<1>4. ~Verified(r)
  BY DEF Forbidden
<1>5. CASE r.login = "none"
  <2>1. posted.to # "/help/feedback"
    BY <1>2, <1>4 DEF Verified
  <2>2. posted.token = "public"
    BY <1>2, <1>5, <2>1 DEF Fits, TokenOf
  <2> QED BY <1>2, <1>3, <1>4, <1>5, <2>2 DEF Verified, TokensInStep
<1>6. CASE r.login # "none"
  <2>1. posted.token = r.login /\ posted.token \in SessionTokens
    BY <1>2, <1>6, SessionToken
  <2> QED BY <1>2, <1>3, <1>4, <1>6, <2>1 DEF Verified, TokensInStep
<1> QED BY <1>5, <1>6

LEMMA RefusedStep ==
    ASSUME SiteInv, RefusedForACause, [SiteNext]_siteVars
    PROVE  RefusedForACause'
<1>1. ASSUME answer' \in {"none", "page", "done", "review", "notfound", "error"}
      PROVE  RefusedForACause'
  BY <1>1 DEF RefusedForACause
<1>2. ASSUME answer' = answer, causes \subseteq causes'
      PROVE  RefusedForACause'
  BY <1>2 DEF RefusedForACause
<1>3. CASE (\E p \in Visited(area) : Ask(p)) \/ (\E f \in forms : Submit(f))
  BY <1>1, <1>3 DEF Ask, Submit
<1>4. ASSUME NEW r \in RoutesHere, Serve(r)
      PROVE  RefusedForACause'
  <2>1. CASE ServeTenantOrReview(r)
    BY <1>1, <1>2, <2>1 DEF ServeTenantOrReview, Leaves
  <2>2. CASE NotSignedIn(r)
    <3>1. answer' = "login" /\ "session" \in causes'
      BY <2>2, SignedOffForACause DEF NotSignedIn, Leaves
    <3> QED BY <3>1 DEF RefusedForACause
  <2>0. CASE LookupFails(r) \/ Redrawn(r)
    BY <1>1, <2>0 DEF LookupFails, Redrawn, Shows, Leaves
  <2>3. CASE ShowSignedIn(r) \/ ShowPlain(r) \/ ShowPublic(r)
    <3>1. \E fs, tokens, resumed : ShowsUnless(fs, tokens, resumed)
      BY <2>3 DEF ShowSignedIn, ShowPlain, ShowPublic
    <3> QED BY <1>1, <3>1, ShownAnswers
  <2>4. CASE LoggedIn(r) \/ LoggedOut(r)
    BY <1>1, <2>4 DEF LoggedIn, LoggedOut, Shows, Leaves
  <2>5. CASE Forbidden(r)
    <3>1. /\ answer' = IF r.login = "none" THEN "forbidden" ELSE "forbidden in session"
          /\ causes' = causes
      BY <2>5 DEF Forbidden, Leaves
    <3>2. IF r.login = "none" THEN "cookie" \in causes ELSE "session" \in causes
      BY <2>5, ForbiddenForACause
    <3> QED BY <3>1, <3>2 DEF RefusedForACause
  <2>6. CASE Done(r)
    <3>1. doing = "post"
      BY <2>6, GetHere DEF SiteInv, Done, Passes, Checked, Arrived
    <3>2. Known
      BY <3>1, PostHere DEF SiteInv, Fits, Known
    <3> QED BY <1>1, <2>6, <3>2 DEF Done, Leaves
  <2> QED BY <1>4, <2>0, <2>1, <2>2, <2>3, <2>4, <2>5, <2>6 DEF Serve
<1>5. CASE NotFound
  BY <1>1, <1>5 DEF NotFound, Leaves
<1>6. CASE \E s \in SiteStatuses : PlantBecomes(s)
  BY <1>2, <1>6 DEF PlantBecomes
<1>7. CASE \/ SignInElsewhere \/ SignOutElsewhere \/ (\E t \in alive : SessionLapses(t))
          \/ MintElsewhere \/ PublicLapses
  BY <1>2, <1>7, ElsewhereIs DEF SiteInv
<1>8. CASE UNCHANGED siteVars
  BY <1>2, <1>8 DEF siteVars
<1> QED BY <1>3, <1>4, <1>5, <1>6, <1>7, <1>8 DEF SiteNext

----------------------------------------------------------------------------
(* Where and when it is told. *)

\* Where a request is served: at the plant's own host, while the plant is active, or at the
\* platform's.
Served ==
    \/ host \in PlantHosts /\ "active" \in seen
    \/ host \in PlatformHosts /\ (area \in {"platform", "admin"} \/ page = "/")
    \/ area = "platform" /\ page \in {"/pricing", "/get-started"}

LEMMA ReachedIsServed ==
    ASSUME SiteInv, NEW r \in RoutesHere, Arrived(r), Reaches(r)
    PROVE  Served
<1>1. doing \in {"get", "passed", "post"} /\ status \in seen /\ page \in Visited(area) /\ area \in Areas
  BY TabIs DEF SiteInv, UnderWay, Arrived
<1>5. /\ GetGate(page) = "marketing" => area \in {"platform", "admin"}
      /\ GetGate(page) = "any" => area = "platform" /\ page \in OpenPages
      /\ GetGate(page) = "root" => page = "/"
  <2>1. area \in Areas /\ page \in Visited(area)
    BY <1>1
  <2> QED BY <2>1, AreaOfPage
<1>2. TenantFound => Served
  BY <1>1, TabIs DEF TenantFound, Served, SiteInv
<1>3. CASE doing \in {"get", "passed"}
  <2>1. r.gate = GetGate(page)
    BY <1>3, GetHere DEF SiteInv
  <2>2. CASE r.gate = "any"
    <3>1. area = "platform" /\ page \in OpenPages
      BY <2>1, <2>2, <1>5
    <3> QED BY <3>1 DEF Served, OpenPages
  <2>3. CASE r.gate = "marketing" /\ IsMarketingHost(host)
    <3>1. area \in {"platform", "admin"}
      BY <2>1, <2>3, <1>5
    <3> QED BY <2>3, <3>1, TabIs DEF Served, SiteInv
  <2>4. CASE r.gate = "root" /\ IsMarketingHost(host)
    <3>1. page = "/"
      BY <2>1, <2>4, <1>5
    <3> QED BY <2>4, <3>1, TabIs DEF Served, SiteInv
  <2> QED BY <1>2, <2>2, <2>3, <2>4 DEF Reaches
<1>4. CASE doing = "post"
  <2>1. AtHome(posted) /\ posted.to \in PlatformPosts \cup TenantPosts /\ r.gate = PostGate(posted.to)
    BY <1>4, PostHere DEF SiteInv, Fits, FitsPath
  <2>2. CASE r.gate = "any"
    <3>1. posted.to \in SignupPosts
      BY <2>1, <2>2 DEF PostGate
    <3>2. page = "/get-started"
      BY <2>1, <3>1 DEF AtHome
    <3>3. area = "platform"
      BY <1>1, <3>2 DEF Visited, Areas
    <3> QED BY <3>2, <3>3 DEF Served
  <2>3. CASE r.gate \in {"marketing", "root"} /\ IsMarketingHost(host)
    <3>1. posted.to \notin TenantPosts
      BY <2>1, <2>3, GateOfPath
    <3>2. area \in {"platform", "admin"}
      BY <1>1, <2>1, <3>1 DEF AtHome, Areas
    <3> QED BY <2>3, <3>2, TabIs DEF Served, SiteInv
  <2> QED BY <1>2, <2>2, <2>3 DEF Reaches
<1> QED BY <1>1, <1>3, <1>4

\* What is not found is not there: a plant's page at the platform's host or, at the plant's, while
\* it is not active.
LEMMA NotFoundIsNot ==
    ASSUME SiteInv, NotFound
    PROVE  /\ host \in PlatformHosts => area \notin {"platform", "admin"}
           /\ host \in PlantHosts /\ area \in {"customer", "staff", "owner"} => seen # {"active"}
<1>1. doing \in {"get", "passed", "post"} /\ status \in seen /\ page \in Visited(area) /\ area \in Areas
  BY TabIs DEF SiteInv, UnderWay, NotFound
<1>2. TenantFound => status = "active"
  BY DEF TenantFound
<1>3. host \in PlantHosts /\ status = "active" => TenantFound
  BY TabIs DEF TenantFound, SiteInv
<1>4. CASE doing \in {"get", "passed"}
  <2>1. PICK r \in RoutesHere : TRUE
    <3>1. Method = "GET" /\ Path = page
      BY <1>4, GetHere DEF SiteInv
    <3>2. \E r \in Routes : r.method = "GET" /\ r.path = page
      BY <1>1, AreaOfPage, GetRouteExists
    <3> QED BY <3>1, <3>2 DEF RoutesHere
  <2>2. r.gate = GetGate(page) /\ ~Reaches(r)
    BY <1>4, <2>1, GetHere DEF SiteInv, NotFound
  <2>3. area \in {"platform", "admin"} => ~IsMarketingHost(host)
    BY <1>1, <2>2, AreaOfPage DEF Reaches
  <2>4. area \in {"customer", "staff", "owner"} => ~TenantFound
    BY <1>1, <2>2, AreaOfPage DEF Reaches
  <2> QED BY <1>1, <1>3, <2>3, <2>4, TabIs DEF SiteInv
<1>5. CASE doing = "post"
  <2>1. AtHome(posted) /\ posted.to \in PlatformPosts \cup TenantPosts
    BY <1>5, PostHere DEF SiteInv, Fits
  <2>2. PICK r \in RoutesHere : TRUE
    <3>1. Method = "POST" /\ Path = posted.to
      BY <1>5, PostHere DEF SiteInv
    <3> QED BY <2>1, <3>1, PostRouteExists DEF RoutesHere
  <2>3. r.gate = PostGate(posted.to) /\ ~Reaches(r)
    BY <1>5, <2>2, PostHere DEF SiteInv, FitsPath, NotFound
  <2>4. area \in {"platform", "admin"} => ~IsMarketingHost(host)
    BY <2>1, <2>3, PathSets DEF AtHome, Reaches, PostGate
  <2>5. area \in {"customer", "staff", "owner"} => ~TenantFound
    BY <2>1, <2>3, GateOfPath DEF AtHome, Reaches
  <2> QED BY <1>1, <1>3, <2>4, <2>5, TabIs DEF SiteInv
<1> QED BY <1>1, <1>4, <1>5

LEMMA AnswerFitsStep ==
    ASSUME SiteInv, AnswerFitsStatus, [SiteNext]_siteVars
    PROVE  AnswerFitsStatus'
<1>1. ASSUME answer' = "none"
      PROVE  AnswerFitsStatus'
  BY <1>1 DEF AnswerFitsStatus
<1>2. ASSUME UNCHANGED <<host, area, page, seen>>, Served, answer' \notin {"review", "notfound", "error"}
      PROVE  AnswerFitsStatus'
  BY <1>2 DEF AnswerFitsStatus, Served
<1>3. ASSUME UNCHANGED <<host, area, page, seen, answer>>, causes \subseteq causes'
      PROVE  AnswerFitsStatus'
  BY <1>3 DEF AnswerFitsStatus
<1>4. CASE (\E p \in Visited(area) : Ask(p)) \/ (\E f \in forms : Submit(f))
  BY <1>1, <1>4 DEF Ask, Submit
<1>5. ASSUME NEW r \in RoutesHere, Serve(r)
      PROVE  AnswerFitsStatus'
  <2>1. CASE ServeTenantOrReview(r)
    <3>1. CASE UNCHANGED answer
      BY <1>3, <2>1, <3>1 DEF ServeTenantOrReview
    <3>2. CASE answer' # answer
      <4>1. /\ UNCHANGED <<host, area, page, seen>> /\ doing = "get" /\ LooksFirst(r)
            /\ answer' = IF IsTenantHost(host) /\ ExtractSubdomain(host) = Slug /\ status = "provisioning"
                         THEN "review" ELSE "notfound"
            /\ ~(IsTenantHost(host) /\ ExtractSubdomain(host) = Slug /\ status = "active")
        BY <2>1, <3>2 DEF ServeTenantOrReview, Leaves
      <4>2. /\ status \in seen /\ page \in Visited(area) /\ area \in Areas /\ r.gate = GetGate(page)
        BY <4>1, TabIs, GetHere DEF SiteInv, UnderWay
      <4>3. host \in PlantHosts <=> IsTenantHost(host) /\ ExtractSubdomain(host) = Slug
        BY TabIs DEF SiteInv
      <4>4. host \in PlatformHosts => area \notin {"platform", "admin"}
        BY <4>1, <4>2, TabIs, AreaOfPage DEF LooksFirst, SiteInv
      <4> QED BY <4>1, <4>2, <4>3, <4>4 DEF AnswerFitsStatus
    <3> QED BY <3>1, <3>2
  <2>0. CASE LookupFails(r)
    <3>1. /\ answer' = "notfound" /\ "database" \in causes' \cap Faults
          /\ IsTenantHost(host) /\ UNCHANGED <<host, area, page, seen>>
      BY <2>0 DEF LookupFails, Leaves, Faults
    <3>2. host \notin PlatformHosts
      BY <3>1, TabIs DEF SiteInv
    <3> QED BY <3>1, <3>2 DEF AnswerFitsStatus
  <2>a. ASSUME NEW fs, NEW tokens, NEW resumed, ShowsUnless(fs, tokens, resumed),
               Arrived(r), Reaches(r), Method = "GET", UNCHANGED <<host, area, page, seen>>
        PROVE  AnswerFitsStatus'
    <3>1. /\ answer' \in {"page", "notfound", "error"}
          /\ answer' # "page" => causes' \cap Faults # {}
          /\ answer' = "notfound" => page \in RowPages \cup {"/reviews/{token}"}
      BY <2>a, ShownAnswers
    <3>2. Served
      BY <2>a, ReachedIsServed
    <3>3. page = "/reviews/{token}" => area \notin {"platform", "admin"}
      <4>1. page \in Visited(area) /\ area \in Areas
        BY <2>a, TabIs DEF SiteInv, UnderWay, Arrived
      <4>2. page = "/reviews/{token}" => GetGate(page) = "tenant"
        BY GateOfPage DEF TenantPages
      <4> QED BY <4>1, <4>2, AreaOfPage
    <3> QED BY <2>a, <3>1, <3>2, <3>3 DEF AnswerFitsStatus, Served
  <2>2. ASSUME Arrived(r), Reaches(r), UNCHANGED <<host, area, page, seen>>,
               answer' \notin {"review", "notfound", "error"}
        PROVE  AnswerFitsStatus'
    BY <1>2, <2>2, ReachedIsServed
  <2>3. CASE NotSignedIn(r)
    BY <2>2, <2>3 DEF NotSignedIn, Leaves
  <2>4. CASE ShowSignedIn(r)
    BY <2>a, <2>4 DEF ShowSignedIn
  <2>5. CASE ShowPlain(r)
    BY <2>a, <2>5 DEF ShowPlain
  <2>6. CASE ShowPublic(r)
    BY <2>a, <2>6 DEF ShowPublic
  <2>7. CASE Forbidden(r)
    BY <2>2, <2>7 DEF Forbidden, Checked, Leaves
  <2>8. CASE Redrawn(r)
    BY <2>2, <2>8 DEF Redrawn, Passes, Checked, Shows
  <2>9. CASE LoggedIn(r)
    BY <2>2, <2>9 DEF LoggedIn, Passes, Checked, Shows, Leaves
  <2>10. CASE LoggedOut(r)
    BY <2>2, <2>10 DEF LoggedOut, Passes, Checked, Shows, Leaves
  <2>11. CASE Done(r)
    BY <2>2, <2>11 DEF Done, Passes, Checked, Leaves
  <2> QED BY <1>5, <2>0, <2>1, <2>3, <2>4, <2>5, <2>6, <2>7, <2>8, <2>9, <2>10, <2>11 DEF Serve
<1>6. CASE NotFound
  <2>1. answer' = "notfound" /\ UNCHANGED <<host, area, page, seen>>
    BY <1>6 DEF NotFound, Leaves
  <2> QED BY <1>6, <2>1, NotFoundIsNot DEF AnswerFitsStatus
<1>7. CASE \E s \in SiteStatuses : PlantBecomes(s)
  <2>1. CASE doing \in {"get", "post", "passed"}
    BY <1>1, <1>7, <2>1 DEF PlantBecomes, SiteInv, UnderWay
  <2>2. CASE doing \notin {"get", "post", "passed"}
    BY <1>3, <1>7, <2>2 DEF PlantBecomes
  <2> QED BY <2>1, <2>2
<1>8. CASE \/ SignInElsewhere \/ SignOutElsewhere \/ (\E t \in alive : SessionLapses(t))
          \/ MintElsewhere \/ PublicLapses
  BY <1>3, <1>8, ElsewhereIs DEF SiteInv
<1>9. CASE UNCHANGED siteVars
  BY <1>3, <1>9 DEF siteVars
<1> QED BY <1>4, <1>5, <1>6, <1>7, <1>8, <1>9 DEF SiteNext

\* No form is refused for its page's sake: its path, its token and its choices are the routes',
\* and a login page or a 403 in answer to one has a cause since the page was asked for.
THEOREM RefusedOnlyForACause == SiteSpec => []RefusedForACause
<1>1. SiteInit => RefusedForACause
  BY DEF SiteInit, RefusedForACause
<1>2. SiteInv /\ RefusedForACause /\ [SiteNext]_siteVars => RefusedForACause'
  BY RefusedStep
<1> QED BY <1>1, <1>2, SiteInvHolds, PTL DEF SiteSpec

\* A plant's pages answer at its own host only, as a status says that it had meanwhile, and a
\* page that is not found where it is, or that fails, has a query that failed or names a row that
\* is not there.  Together: whatever a tab is told has a cause.
THEOREM AnswersHaveCauses == SiteSpec => []AnsweredForACause
<1>1. SiteInit => AnswerFitsStatus
  BY DEF SiteInit, AnswerFitsStatus
<1>2. SiteInv /\ AnswerFitsStatus /\ [SiteNext]_siteVars => AnswerFitsStatus'
  BY AnswerFitsStep
<1> QED BY <1>1, <1>2, SiteInvHolds, RefusedOnlyForACause, PTL DEF SiteSpec, AnsweredForACause
=============================================================================
