\* The components around the sale of gas, each on its own.
SPECIFICATION Spec
CONSTANTS
    Signups = {s1, s2, s3}
    AdminForms = {a1}
    Settlings = {q1}
    StatusForms = {r1, r2}
    Slugs = {x, y, w, z}
    ReservedSlugs = {z}
    FoundingSpots = 2
    ReviewedForms = {s1, a1}
    AskedStatuses = {"provisioning", "active", "suspended"}
    None = None
    BuyerForms = {b1, b2, b3}
    Phones = {f1, f2, f3}
    OfferSpots = 2
    NoForm = NoForm
    Links = {k1, k2}
    ResetForms = {e1, e2}
    ChangeForms = {g1, g2}
    Logins = {l1}
    FirstPassword = FirstPassword
    NoKey = NoKey
    OwnerTTL = 2
    StaffForms = {h1, h2}
    PINs = {p1, p2}
    StaffPhones = {n1, n2}
    NoEntry = NoEntry
    PriceForms = {c1, c2, c3}
    NoPrice = NoPrice
    Saves = {w1, w2}
    LastDay = 1
    Midnight = 4
    DayForms <- MCDayForms
    Fills = {i1, i2}
    Answers = {j1, j2}
    NoReview = NoReview
    Renders = {d1, d2}
    BankTTL = 2
    MaxLists = 3
    Runners = {m1, m2}
    LastFile = 3
    SeedFiles = {2}
    Commissions = {o1, o2}
    Removals = {t1, t2}
    AdminPhones = {z1, z2}
    LogoForms = {u1, u2, u3}
    LogoSlugs = {x}
    LogoTypes = {png, jpg}
    NoLogo = NoLogo
    Managers = {x1, x2}
    ManagerForms = {y1, y2}
    NoManager = NoManager
    BoxesFilled <- MCBoxes
    Tabs <- MCTabs
    SiteStatuses = {"provisioning", "active", "suspended"}
    MaxLogins = 2
    MaxMinted = 2
    Transactions <- MCTransactions
    MaxCommits = 2
INVARIANTS
    OfficeTypeOK
    ActiveIsSettled
    NoticeTwiceOnlyByRace
    PasswordsGuarded
    PINSharedOnlyByRace
    TakesEffectUnlessRace
    HoursAsEntered
    ReviewKept
    ListIsRecent
    SchemaAsRecorded
    LastAdminStaysUnlessRace
    OneLogoUnlessRace
    LicensedUnlessRace
    AnsweredForACause
    PageHoldsTogether
PROPERTIES
    RanksInTurn
    OffersInTurn
    SessionStaysEnded
CHECK_DEADLOCK FALSE
