------------------------------ MODULE MCOffice ------------------------------
(* The components around the sale of gas on small instances.  They share   *)
(* no state that these models keep, so each is explored with the others    *)
(* at rest.  Of onboarding, the race for the founding ranks is one part    *)
(* and the review of plants, which changes no rank, another.               *)
EXTENDS Onboarding, BuyerOffer, Accounts, Roster, Prices, Hours, Reviews, BankCache,
        Migrations, Admins, Logos, Managers, Site, Dashboard

CONSTANT ReviewedForms  \* bound: the plants' forms explored together with settlement and status changes

ASSUME ReviewedFormsAssumption == ReviewedForms \subseteq Forms

VARIABLE part

vars == <<onboardingVars, buyerVars, accountVars, rosterVars, priceVars, hoursVars,
          reviewsVars, bankVars, migrationVars, adminVars, logoVars,
          managerVars, siteVars, dashboardVars, part>>

Parts == {"applications", "approvals", "buyers", "accounts", "roster", "prices", "hours",
          "reviews", "banks", "migrations", "admins", "logos", "managers", "site", "dashboard"}

\* What the hours form may say of a day, the times of its two segments as pairs: nothing, hours
\* within the day, over midnight and round the clock, one or both segments, a time that is missing
\* or unreadable, and a closed day with hours left in the fields.
Day(opens, closes) == [closed |-> FALSE, opens |-> opens, closes |-> closes]
MCDayForms ==
    {NothingEntered,
     [closed |-> TRUE, opens |-> <<1, Blank>>, closes |-> <<3, Blank>>],
     Day(<<1, Blank>>, <<3, Blank>>),
     Day(<<3, Blank>>, <<1, Garbled>>),
     Day(<<0, 2>>, <<1, 0>>),
     Day(<<1, 1>>, <<Blank, 1>>),
     Day(<<2, Blank>>, <<Blank, Blank>>)}

\* A manager's boxes are all ticked or none is.
MCBoxes == {{}, Permissions}

\* A cash sale, and the end of a shift.
MCTransactions ==
    {{"tickets", "cash_movements", "activity_log"}, {"shifts", "cash_movements", "activity_log"}}

ShownTab == [host |-> BaseDomain, area |-> "platform"]

\* Every area at its own host, and some where they are not found.
MCTabs ==
    {ShownTab}
    \cup {[host |-> BaseDomain, area |-> "staff"],
          [host |-> <<"localhost">>, area |-> "admin"],
          [host |-> <<"www">> \o BaseDomain, area |-> "customer"],
          [host |-> <<"api">> \o BaseDomain, area |-> "staff"],
          [host |-> <<Slug, "example", "com">>, area |-> "customer"]}
    \cup {[host |-> <<Slug>> \o BaseDomain, area |-> a] : a \in Areas}

Init ==
    /\ part \in Parts
    /\ OnboardingInit /\ BuyerInit /\ AccountInit /\ RosterInit /\ PriceInit
    /\ HoursInit /\ ReviewsInit /\ BankInit /\ MigrationInit /\ AdminsInit /\ LogoInit
    /\ ManagersInit /\ SiteInit /\ DashboardInit
    /\ part # "migrations" => production = FALSE
    /\ part # "logos" => logoPlants = {}
    /\ part # "dashboard" => view = "home" /\ firstPump = "there"
    /\ part # "site" => [host |-> host, area |-> area] = ShownTab

AtRest(p, v) == IF part = p THEN TRUE ELSE UNCHANGED v

\* A step A of part p.
Part(p, A) ==
    /\ part = p
    /\ A
    /\ IF part \in {"applications", "approvals"} THEN TRUE ELSE UNCHANGED onboardingVars
    /\ AtRest("buyers", buyerVars)
    /\ AtRest("accounts", accountVars) /\ AtRest("roster", rosterVars)
    /\ AtRest("prices", priceVars) /\ AtRest("hours", hoursVars) /\ AtRest("reviews", reviewsVars)
    /\ AtRest("banks", bankVars) /\ AtRest("migrations", migrationVars)
    /\ AtRest("admins", adminVars) /\ AtRest("logos", logoVars)
    /\ AtRest("managers", managerVars) /\ AtRest("site", siteVars)
    /\ AtRest("dashboard", dashboardVars)
    /\ UNCHANGED part

Next ==
    \/ Part("applications", \E f \in Forms : CreateStep(f))
    \/ Part("approvals", \E f \in ReviewedForms : CreateStep(f))
    \/ Part("approvals", \E q \in Settlings : SettleStep(q))
    \/ Part("approvals", \E r \in StatusForms : ReviewStep(r))
    \/ Part("buyers", BuyerNext)
    \/ Part("accounts", AccountNext)
    \/ Part("roster", RosterNext)
    \/ Part("prices", PriceNext)
    \/ Part("hours", HoursNext)
    \/ Part("reviews", ReviewsNext)
    \/ Part("banks", BankNext)
    \/ Part("migrations", MigrationNext)
    \/ Part("admins", AdminsNext)
    \/ Part("logos", LogoNext)
    \/ Part("managers", ManagersNext)
    \/ Part("site", SiteNext)
    \/ Part("dashboard", DashboardNext)

Spec == Init /\ [][Next]_vars

\* Every variable of every part has its type.
OfficeTypeOK ==
    /\ OnboardingTypeOK
    /\ BuyerTypeOK
    /\ AccountTypeOK
    /\ RosterTypeOK
    /\ PriceTypeOK
    /\ HoursTypeOK
    /\ ReviewsTypeOK
    /\ BankTypeOK
    /\ MigrationTypeOK
    /\ AdminsTypeOK
    /\ LogoTypeOK
    /\ ManagersTypeOK
    /\ SiteTypeOK
    /\ DashboardTypeOK
=============================================================================
